------------------------------ MODULE ClaimForm -------------------------------
(***************************************************************************)
(* What a carrier's form asks for and what is known of it: the words of    *)
(* the dataset translated into claim fields (field-vocabulary.ts), the     *)
(* facts of the claim and of the stored profile (agent/claim-facts.ts,     *)
(* operator/tools.ts), the prefill that sets one against the other         *)
(* (domain/claim/prefill.ts), and the form to print that carries it        *)
(* (send_postal_pack).  All of it is pure but for the deliveries of that   *)
(* form, which may fail.  A value is "text", "blank" or "absent".          *)
(***************************************************************************)
EXTENDS Integers, Sequences, SequencesExt

ClaimStateKeys ==
  { "bookingReference", "flightItinerary", "disruptionType", "passengerNames",
    "compensationAmount" }
ProfileKeys ==
  { "claimantFullName", "claimantEmail", "claimantPhone", "claimantPostalAddress",
    "payoutAccountHolderName", "payoutIban", "payoutBic" }
PerClaimKeys ==
  { "claimantRelationshipToPassenger", "coPassengerNames", "coPassengerContactDetails",
    "expenseReceipts", "expenseCurrency", "onwardTravelArrangement", "disruptionDescription" }
AllKeys == ClaimStateKeys \cup ProfileKeys \cup PerClaimKeys

ProvenanceOf(key) ==
  IF key \in ClaimStateKeys THEN "claim_state"
  ELSE IF key \in ProfileKeys THEN "passenger_profile"
  ELSE "per_claim"

ContactDetails == << "claimantEmail", "claimantPhone", "claimantPostalAddress" >>

\* What the dataset's words stand for, one word often for several fields.
RawFieldAliases ==
  [ irregularityType                |-> << "disruptionType" >>,
    issueCategory                   |-> << "disruptionType" >>,
    flightSegments                  |-> << "flightItinerary" >>,
    flightDetails                   |-> << "flightItinerary" >>,
    bookingReference                |-> << "bookingReference" >>,
    pnr                             |-> << "bookingReference" >>,
    bookingReferenceOrETicketNumber |-> << "bookingReference" >>,
    passengerNames                  |-> << "passengerNames" >>,
    fullName                        |-> << "claimantFullName" >>,
    claimantName                    |-> << "claimantFullName" >>,
    contactEmail                    |-> << "claimantEmail" >>,
    phone                           |-> << "claimantPhone" >>,
    contactDetails                  |-> ContactDetails,
    claimantContactDetails          |-> ContactDetails,
    iban                            |-> << "payoutIban" >>,
    bic                             |-> << "payoutBic" >>,
    bankAccountDetails              |-> << "payoutAccountHolderName", "payoutIban", "payoutBic" >>,
    claimantRelationship            |-> << "claimantRelationshipToPassenger" >>,
    otherPassengerNames             |-> << "coPassengerNames" >>,
    otherPassengerContactDetails    |-> << "coPassengerContactDetails" >>,
    expenseReceipts                 |-> << "expenseReceipts" >>,
    receipts                        |-> << "expenseReceipts" >>,
    expenseCurrency                 |-> << "expenseCurrency" >>,
    onwardTravelMethod              |-> << "onwardTravelArrangement" >>,
    description                     |-> << "disruptionDescription" >> ]

\* What airlines.json may say of a form: null, or words of the table (schema.ts).
RawRequiredFields ==
  [ known : {FALSE} ] \cup [ known : {TRUE}, tokens : Seq(DOMAIN RawFieldAliases) ]

\* The elements at these positions, pushed one after another.
Picked(s, positions) ==
  LET picked[i \in 0..Len(s)] ==
        IF i = 0 THEN << >>
        ELSE IF i \in positions THEN Append(picked[i - 1], s[i]) ELSE picked[i - 1]
  IN  picked[Len(s)]

\* Where an element is for the first time.
FirstPlaces(s) == { i \in DOMAIN s : \A j \in DOMAIN s : s[j] = s[i] => i <= j }

\* A plausible bug: a word stands for one field only.
NormaliseFirst(tokens) ==
  LET keys == [ i \in DOMAIN tokens |-> Head(RawFieldAliases[tokens[i]]) ]
  IN  Picked(keys, FirstPlaces(keys))

\* In the order of the form, each field once.
NormaliseRequiredFields(tokens) ==
  LET keys == FlattenSeq([ i \in DOMAIN tokens |-> RawFieldAliases[tokens[i]] ])
  IN  Picked(keys, FirstPlaces(keys))

\* A form nobody has catalogued is not one that asks for nothing.
ToRequiredFields(raw) ==
  IF raw.known THEN [ known |-> TRUE, keys |-> NormaliseRequiredFields(raw.tokens) ]
               ELSE [ known |-> FALSE, keys |-> << >> ]

-----------------------------------------------------------------------------
\* The fields of a stored profile that a form may ask for; two are never null.
PassengerProfiles ==
  LET Values == { "text", "blank", "absent" } IN
  [ fullName : Values \ {"absent"}, contactEmail : Values \ {"absent"}, phone : Values,
    address : Values, iban : Values, bic : Values ]

Nothing == [ key \in AllKeys |-> "absent" ]

\* Of the claim everything is known but the names, which may all be blank.
ToKnownClaimFacts(anyName) ==
  [ key \in AllKeys |-> IF key \in ClaimStateKeys /\ (key = "passengerNames" => anyName)
                          THEN "text" ELSE "absent" ]

\* Of the profile the name and the address of the mail are always there, blank
\* or not; the bank details come with the name of the account's holder.
ToClaimantFacts(profile) ==
  [ key \in AllKeys |->
      CASE key = "claimantFullName"        -> profile.fullName
        [] key = "claimantEmail"           -> profile.contactEmail
        [] key = "claimantPhone"           -> profile.phone
        [] key = "claimantPostalAddress"   -> IF profile.address = "text" THEN "text" ELSE "absent"
        [] key = "payoutIban"              -> profile.iban
        [] key = "payoutAccountHolderName" -> IF profile.iban = "absent" THEN "absent" ELSE profile.fullName
        [] key = "payoutBic"               -> profile.bic
        [] OTHER                           -> "absent" ]

\* { ...facts, ...profile }
Available(facts, profile) ==
  [ key \in AllKeys |-> IF key \in ProfileKeys THEN profile[key] ELSE facts[key] ]

Filled(value) == value = "text"

\* What the form asks for, in its order: what is known, what to ask once and
\* store, and what to ask every time.
ResolvePrefill(required, facts, profile) ==
  LET keys   == required.keys
      values == Available(facts, profile)
      known  == { i \in DOMAIN keys : Filled(values[keys[i]]) }
      stored == { i \in DOMAIN keys \ known : ProvenanceOf(keys[i]) = "passenger_profile" }
  IN  [ resolved           |-> Picked(keys, known),
        missingFromProfile |-> Picked(keys, stored),
        missingPerClaim    |-> Picked(keys, DOMAIN keys \ (known \cup stored)),
        complete           |-> required.known /\ known = DOMAIN keys ]

\* The drafting node falls back on the name of the first passenger.
DraftPrefill(required, anyName, claimant) ==
  ResolvePrefill(required, ToKnownClaimFacts(anyName),
    [ claimant EXCEPT !["claimantFullName"] =
        IF @ = "absent" THEN (IF anyName THEN "text" ELSE "absent") ELSE @ ])

-----------------------------------------------------------------------------
(* send_postal_pack: a form to print, from the postal channel of the       *)
(* claim's plan, sent to the chat and to the passenger's own mail.         *)

PackError(claim) ==
  IF claim.postal = {} THEN "no_postal_route"
  ELSE IF ~claim.drafted THEN "not_drafted"
  ELSE "none"

\* Each of the two deliveries that is tried succeeds or fails on its own.
Delivered(claim, chatFails, mailFails) ==
  (IF claim.chat /\ ~chatFails THEN { "chat" } ELSE {})
    \cup (IF claim.hasProfile /\ claim.sender /\ ~mailFails THEN { "mail" } ELSE {})

SendPostalPack(claim, chatFails, mailFails) ==
  LET facts   == IF claim.hasProfile THEN ToClaimantFacts(claim.profile) ELSE Nothing
      prefill == ResolvePrefill(ToRequiredFields(claim.raw), ToKnownClaimFacts(claim.anyName), facts)
  IN  IF PackError(claim) # "none" THEN [ error |-> PackError(claim) ]
      ELSE [ error       |-> "none",
             address     |-> claim.postal,
             delivered   |-> Delivered(claim, chatFails, mailFails),
             onForm      |-> prefill.resolved,
             outstanding |-> prefill.missingFromProfile \o prefill.missingPerClaim ]
=============================================================================
