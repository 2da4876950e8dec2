--------------------------- MODULE AirlineDirectory ---------------------------
(***************************************************************************)
(* Where a claim goes: the airline dataset as it is loaded and checked     *)
(* (providers/airline-directory/schema.ts, static.adapter.ts,              *)
(* url-template.ts), and the submission plan built from it                 *)
(* (submission-plan.ts).  All of it is pure.                               *)
(*                                                                         *)
(* An address is named by where the dataset has it: << i, field >> is the  *)
(* field of channel i, so that a plan's addresses can be traced back.  Of  *)
(* a URL template only matters what comes of it: its placeholders may be   *)
(* filled in, or some of them unknown or without a value, or it has none   *)
(* and no values, in which case it is never resolved.  A sentence is the   *)
(* facts it states.  The fields of a form are those of ClaimForm.          *)
(***************************************************************************)
EXTENDS Integers, Sequences, SequencesExt, ClaimForm

Kinds     == { "web_form", "email", "postal" }
Statuses  == { "verified", "partially_verified", "unverified" }
Policies  == { "allowed", "requires_authorization", "restricted" }
Templates == { "none", "plain", "resolved", "unresolved" }

-----------------------------------------------------------------------------
(* Loading.                                                                *)

\* What the schema takes for a channel and for a carrier, before it looks at what a
\* confirmed one must carry.
RawChannelRecords ==
  [ kind : {"web_form"}, status : Statuses, given : SUBSET { "url", "entryUrl" },
    template : Templates, mailbox : {"none"}, fields : RawRequiredFields ]
  \cup [ kind : {"email"}, status : Statuses, given : SUBSET { "address" },
          template : {"none"}, mailbox : { "standard", "pec" }, fields : RawRequiredFields ]
  \cup [ kind : {"postal"}, status : Statuses, given : SUBSET { "address" },
          template : {"none"}, mailbox : {"none"}, fields : RawRequiredFields ]

RawCarriers == [ code : STRING, policy : Policies, channels : Seq(RawChannelRecords) ]

\* What a confirmed channel of each kind must carry, and what a template must not.
ValidChannel(channel) ==
  IF channel.kind = "web_form"
    THEN /\ channel.template # "unresolved"
         /\ channel.status # "unverified" =>
              channel.given \cap { "url", "entryUrl" } # {} \/ channel.template # "none"
    ELSE channel.status # "unverified" => "address" \in channel.given

\* One malformed entry, or one carrier given twice, refuses the whole dataset.
ValidDirectory(raws) ==
  /\ \A n \in DOMAIN raws : \A i \in DOMAIN raws[n].channels : ValidChannel(raws[n].channels[i])
  /\ \A n, o \in DOMAIN raws : raws[n].code = raws[o].code => n = o

\* The one address of a channel that may become public.
Chosen(channel) ==
  IF channel.kind # "web_form" THEN channel.given
  ELSE IF "entryUrl" \in channel.given THEN { "entryUrl" }
  ELSE IF "url" \in channel.given THEN { "url" }
  ELSE IF channel.template = "resolved" THEN { "template" }
  ELSE {}

Usable(channel) == channel.status # "unverified" /\ Chosen(channel) # {}

LoadChannel(raw, i) ==
  LET channel == raw.channels[i] IN
  [ id           |-> i,
    kind         |-> channel.kind,
    verification |-> IF Usable(channel) THEN channel.status ELSE "unverified",
    addresses    |-> IF Usable(channel) THEN { << i, field >> : field \in Chosen(channel) } ELSE {},
    mailbox      |-> channel.mailbox,
    fields       |-> ToRequiredFields(channel.fields) ]

\* What is served; the URLs that are still to be looked into stay with the maintainers.
ToLoadedCarrier(raw) ==
  [ code     |-> raw.code,
    policy   |-> raw.policy,
    channels |-> [ i \in DOMAIN raw.channels |-> LoadChannel(raw, i) ] ]

\* The adapter refuses to be built from a dataset that is not valid.
LoadDirectory(raws) ==
  IF ValidDirectory(raws)
    THEN [ ok |-> TRUE, carriers |-> { ToLoadedCarrier(raws[n]) : n \in DOMAIN raws } ]
    ELSE [ ok |-> FALSE ]

GetAirline(carriers, code) ==
  IF \E c \in carriers : c.code = code
    THEN [ ok |-> TRUE, value |-> CHOOSE c \in carriers : c.code = code ]
    ELSE [ ok |-> FALSE ]

-----------------------------------------------------------------------------
(* The submission plan.                                                    *)

IsConfirmed(channel) == channel.verification # "unverified"

\* A plausible bug: with one usable channel all are offered.
ConfirmedOrAll(contact) ==
  IF \E i \in DOMAIN contact.channels : IsConfirmed(contact.channels[i]) THEN DOMAIN contact.channels ELSE {}

Confirmed(contact) == { i \in DOMAIN contact.channels : IsConfirmed(contact.channels[i]) }

ToPresentableChannel(channel) ==
  [ id |-> channel.id, kind |-> channel.kind, verification |-> channel.verification,
    fields |-> channel.fields,
    addresses |-> IF IsConfirmed(channel) THEN channel.addresses ELSE {} ]

CanAutoSendTo(contact, i) ==
  /\ contact.channels[i].kind = "email"
  /\ IsConfirmed(contact.channels[i])
  /\ contact.channels[i].mailbox = "standard"

\* The channels the system may dispatch to itself; it takes the first.
FindAutoSendChannel(contact) ==
  LET able == { i \in DOMAIN contact.channels : CanAutoSendTo(contact, i) } IN
  IF contact.policy = "restricted" \/ able = {} THEN 0
  ELSE CHOOSE i \in able : \A j \in able : i <= j

NoneAvailable(reason) == [ type |-> "none_available", reason |-> reason, options |-> {} ]

SelectChannel(contact) ==
  LET usable == Confirmed(contact) IN
  IF contact.channels = << >> THEN NoneAvailable("no_channel_recorded")
  ELSE IF usable = {} THEN NoneAvailable("only_unverified_channels")
  ELSE [ type    |-> IF \E i \in usable : usable = { i } THEN "single" ELSE "choice_required",
         reason  |-> "none",
         options |-> usable ]

\* What is said of one channel: its address, whether one more click is needed,
\* and the fields it asks for, which may not have been catalogued.
DescribeChannel(channel) ==
  [ kind         |-> channel.kind,
    addresses    |-> channel.addresses,
    one_more     |-> channel.verification = "partially_verified",
    uncatalogued |-> ~channel.fields.known,
    needs        |-> ToSet(channel.fields.keys) ]

ThirdPartyNotes ==
  [ allowed                |-> "none",
    requires_authorization |-> "a signed letter is needed",
    restricted             |-> "the passenger must file it" ]

RenderMessage(contact, selection) ==
  IF selection.type = "none_available"
    THEN [ says |-> selection.reason, routes |-> {}, note |-> "none" ]
    ELSE [ says   |-> IF selection.type = "choice_required" THEN "which of these"
                      ELSE IF \A i \in selection.options : contact.channels[i].kind = "email"
                             THEN "accepts email" ELSE "by hand",
           routes |-> { DescribeChannel(ToPresentableChannel(contact.channels[i]))
                        : i \in selection.options },
           note   |-> ThirdPartyNotes[contact.policy] ]

BuildSubmissionPlan(lookup) ==
  IF ~lookup.ok
    THEN [ selection |-> NoneAvailable("carrier_not_in_directory"), channels |-> << >>,
           autoSend |-> 0, policy |-> "null",
           message |-> [ says |-> "carrier_not_in_directory", routes |-> {}, note |-> "none" ] ]
    ELSE LET contact == lookup.value IN
         [ selection |-> SelectChannel(contact),
           channels  |-> [ i \in DOMAIN contact.channels |-> ToPresentableChannel(contact.channels[i]) ],
           autoSend  |-> FindAutoSendChannel(contact),
           policy    |-> contact.policy,
           message   |-> RenderMessage(contact, SelectChannel(contact)) ]

\* What list_supported_airlines says of a carrier.
ToOperatorAirlineView(contact) ==
  [ code        |-> contact.code,
    policy      |-> contact.policy,
    canAutoSend |-> FindAutoSendChannel(contact) # 0,
    channels    |-> [ i \in DOMAIN contact.channels |-> ToPresentableChannel(contact.channels[i]) ] ]

ListSupportedAirlines(carriers) == { ToOperatorAirlineView(c) : c \in carriers }
=============================================================================
