------------------------------- MODULE MCRules --------------------------------
(***************************************************************************)
(* The questions of the run: every combination of the values at which the  *)
(* code decides, their neighbours, and what is malformed.                  *)
(***************************************************************************)
EXTENDS Rules

CONSTANTS NotAnInteger

MCPayments ==
  [ received : { NotAnInteger, -1, 0, 1, 3, 9999, 10000, 25000, 40001, 60000 },
    rate     : { NotAnInteger, -1, 0, 1, 2500, 3333, 9999, 10000, 10001 },
    currency : { "EUR", "eur", "USD" } ]

-----------------------------------------------------------------------------
Flights ==
  [ complete : {TRUE}, cancelled : {FALSE}, diverted : {FALSE}, arrived : {TRUE},
    late : { -600, 29, 30, 10769, 10770, 10800 } ]
  \cup [ complete : BOOLEAN, cancelled : BOOLEAN, diverted : BOOLEAN, arrived : BOOLEAN, late : {10800} ]

Http == { "network_error", "unauthorized", "not_found", "bad_request", "too_many_requests", "other" }

FlightReplies ==
  [ http : Http \ { "bad_request" } ]
  \cup [ http : {"ok"}, body : {"malformed"} ]
  \cup [ http : {"ok"}, body : {"parsed"}, flights : { << >> } \cup { << f >> : f \in Flights } ]

\* The fake provider, unlike the real one, may know when a cancellation was announced.
StatusLookups ==
  { GetFlightStatus(r) : r \in FlightReplies }
  \cup { Ok([ status |-> "cancelled", delay |-> NoNumber, notice |-> n ]) : n \in { 0, 13, 14 } }

AirportReplies ==
  [ http : Http \ { "not_found" } ]
  \cup [ http : {"ok"}, body : {"malformed"} ]
  \cup [ http : {"ok"}, body : {"parsed"}, airport : [ complete : BOOLEAN, country : { "US", "malformed" } ] ]

AirportLookups ==
  { GetAirport([ found |-> TRUE, country |-> "DE" ], TRUE, [ http |-> "other" ]) }
  \cup { GetAirport([ found |-> FALSE ], keySet, r) : keySet \in BOOLEAN, r \in AirportReplies }

AirlineLookups == { Ok([ isEuCarrier |-> b ]) : b \in BOOLEAN } \cup { Err("not_found") }

\* The kilometres are those between two airports; none only for a round trip.
MCTrips ==
  [ statuses  : UNION { [ 1..n -> StatusLookups ] : n \in 0..2 },
    airline   : AirlineLookups,
    departure : AirportLookups,
    arrival   : AirportLookups,
    km        : { 1, ShortMax, ShortMax + 1, MediumMax, MediumMax + 1 } ]
  \cup
  { [ statuses |-> s, airline |-> a, departure |-> p, arrival |-> p, km |-> 0 ] :
      s \in [ 1..2 -> StatusLookups ], a \in AirlineLookups, p \in AirportLookups }

MCCauses == ValidDefences \cup InvalidDefences \cup { "unknown", "null" }

-----------------------------------------------------------------------------
RawForms == { [ known |-> FALSE ], [ known |-> TRUE, tokens |-> << >> ],
              [ known |-> TRUE, tokens |-> << "contactDetails", "iban" >> ] }

WebChannels ==
  [ kind : {"web_form"}, status : Statuses, given : SUBSET { "url", "entryUrl" },
    template : Templates, mailbox : {"none"}, fields : { [ known |-> FALSE ] } ]
OtherChannels ==
  [ kind : {"email"}, status : Statuses, given : { {}, {"address"} }, template : {"none"},
    mailbox : { "standard", "pec" }, fields : RawForms ]
  \cup
  [ kind : {"postal"}, status : Statuses, given : { {}, {"address"} }, template : {"none"},
    mailbox : {"none"}, fields : { [ known |-> FALSE ] } ]
Channels == WebChannels \cup OtherChannels

\* One carrier, with up to two channels, or two that may have the same code.
MCDirectories ==
  [ raws : { << [ code |-> "AA", policy |-> p, channels |-> c ] >> :
               p \in Policies, c \in UNION { [ 1..n -> Channels ] : n \in 0..2 } },
    code : { "AA", "ZZ" } ]
  \cup
  { [ raws |-> << [ code |-> "AA", policy |-> "allowed", channels |-> << c >> ],
                  [ code |-> other, policy |-> p, channels |-> << d >> ] >>,
      code |-> "AA" ] :
      other \in { "AA", "BB" }, p \in Policies, c, d \in OtherChannels }

-----------------------------------------------------------------------------
Tokens == { "contactDetails", "contactEmail", "bankAccountDetails", "iban", "fullName",
            "bookingReference", "passengerNames", "otherPassengerNames" }

Catalogues ==
  { [ known |-> FALSE ] }
  \cup [ known : {TRUE}, tokens : UNION { [ 1..n -> Tokens ] : n \in 0..3 } ]

Profiles ==
  [ fullName : { "text", "blank" }, contactEmail : { "text", "blank" }, phone : { "text", "absent" },
    address : { "text", "absent" }, iban : { "text", "blank", "absent" }, bic : { "text", "absent" } ]

\* A profile that is not there has no details to vary.
MCForms ==
  [ raw : Catalogues, anyName : BOOLEAN, drafting : BOOLEAN, hasProfile : {TRUE}, profile : Profiles ]
  \cup
  [ raw : Catalogues, anyName : BOOLEAN, drafting : BOOLEAN, hasProfile : {FALSE},
    profile : { Complete } ]

MCPacks ==
  [ claim : [ raw : { [ known |-> FALSE ] } \cup [ known : {TRUE}, tokens : [ 1..2 -> Tokens ] ],
              postal : { {}, { << 1, "address" >> } }, drafted : BOOLEAN, anyName : {TRUE},
              hasProfile : BOOLEAN, chat : BOOLEAN, sender : BOOLEAN,
              profile : { p \in Profiles : p.contactEmail = "text" /\ p.bic = "absent" } ],
    chatFails : BOOLEAN, mailFails : BOOLEAN ]
=============================================================================
