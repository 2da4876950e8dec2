-------------------------------- MODULE Ec261 ---------------------------------
(***************************************************************************)
(* What a passenger is owed: the rules of domain/ec261, the lookups they   *)
(* are fed from (providers/flight-status, providers/airport-reference) and *)
(* the node that puts the two together (agent/nodes/check-eligibility and  *)
(* the verdict of score-claim).  All of it is pure: a lookup is a record   *)
(* with ok, and a value or an error.                                       *)
(*                                                                         *)
(* A flight's airports and carrier are what looking them up yields, and    *)
(* country codes, which the code compares in upper case, are written so.   *)
(* Great-circle distance is external: a trip comes with the kilometres     *)
(* between its ends, zero only for one and the same airport.               *)
(***************************************************************************)
EXTENDS Integers, Sequences

Ok(value)  == [ ok |-> TRUE, value |-> value ]
Err(error) == [ ok |-> FALSE, error |-> error ]

NoNumber == -1      \* null, or an optional field that is absent

-----------------------------------------------------------------------------
(* The rules.                                                              *)

EuMembers ==
  { "AT", "BE", "BG", "HR", "CY", "CZ", "DK", "EE", "FI", "FR", "DE", "GR", "HU", "IE",
    "IT", "LV", "LT", "LU", "MT", "NL", "PL", "PT", "RO", "SK", "SI", "ES", "SE" }

IsEuMemberCountry(country) == country \in EuMembers

DelayThreshold  == 180   \* minutes
NoticeThreshold == 14    \* days
ShortMax        == 1500  \* kilometres
MediumMax       == 3500

\* The amounts in cents; a distance that is no distance has none (it throws).
GetCompensationCents(km) ==
  IF km <= 0 THEN Err("InvalidDistanceError")
  ELSE IF km <= ShortMax THEN Ok(25000)
  ELSE IF km <= MediumMax THEN Ok(40000)
  ELSE Ok(60000)

\* A trip: its disruption, the delay or the notice it goes with, and the EU
\* membership of its first departure, last arrival and last carrier.
IsRouteCovered(trip) == trip.departureEU \/ (trip.arrivalEU /\ trip.carrierEU)

CheckEligibility(trip) ==
  /\ IsRouteCovered(trip)
  /\ \/ trip.disruption = "denied_boarding"
     \/ trip.disruption = "cancellation" /\ trip.notice < NoticeThreshold
     \/ trip.disruption = "delay" /\ trip.delay >= DelayThreshold

ValidDefences   == { "weather_below_minima", "atc_strike", "third_party_staff_strike", "security_threat" }
InvalidDefences == { "airline_staff_strike", "technical_fault" }

\* A plausible bug: what is not known to be invalid is valid.
AssessUnlessInvalid(cause) ==
  IF cause \in InvalidDefences THEN "not_valid_defence" ELSE "valid_defence"

\* Nothing is held against the passenger but a cause that is known to be a defence.
AssessExtraordinaryCircumstance(cause) ==
  IF cause \in ValidDefences THEN "valid_defence"
  ELSE IF cause \in InvalidDefences THEN "not_valid_defence"
  ELSE "unproven"

-----------------------------------------------------------------------------
(* What the flight data provider makes of a flight.  The times are reduced *)
(* to how many seconds after the scheduled gate arrival the actual one is. *)

RoundToMinutes(seconds) == (seconds + 30) \div 60

ArrivalStatus(flight) ==
  LET minutes == RoundToMinutes(flight.late) IN
  IF flight.cancelled     THEN [ status |-> "cancelled", delay |-> NoNumber ]
  ELSE IF flight.diverted THEN [ status |-> "diverted",  delay |-> NoNumber ]
  ELSE IF ~flight.arrived THEN [ status |-> "unknown",   delay |-> NoNumber ]
  ELSE IF minutes > 0     THEN [ status |-> "delayed",   delay |-> minutes ]
  ELSE                         [ status |-> "on_time",   delay |-> 0 ]

\* A flight without both airports and both scheduled times is not reported.
\* When a cancellation was announced is never known from here.
ToFlightStatusResult(flight) ==
  IF ~flight.complete THEN Err("upstream_error")
  ELSE Ok([ status |-> ArrivalStatus(flight).status,
            delay  |-> ArrivalStatus(flight).delay,
            notice |-> NoNumber ])

\* The answers of the airline's data API, and of its airports endpoint, which
\* reports an unknown code as a bad request.
GetFlightStatus(reply) ==
  CASE reply.http \in { "network_error", "other" } -> Err("upstream_error")
    [] reply.http = "unauthorized"                 -> Err("auth_error")
    [] reply.http = "not_found"                    -> Err("not_found")
    [] reply.http = "too_many_requests"            -> Err("rate_limited")
    [] reply.http = "ok" ->
         IF reply.body = "malformed" THEN Err("upstream_error")
         ELSE IF reply.flights = << >> THEN Err("not_found")
         ELSE ToFlightStatusResult(Head(reply.flights))

ParseAirport(airport) ==
  IF airport.complete /\ airport.country # "malformed"
    THEN Ok([ country |-> airport.country ]) ELSE Err("upstream_error")

\* The table first; a miss is looked up if there is a key, and then stored.
GetAirport(row, keySet, reply) ==
  IF row.found THEN Ok([ country |-> row.country ])
  ELSE IF ~keySet THEN Err("not_found")
  ELSE CASE reply.http \in { "network_error", "unauthorized", "other" } -> Err("upstream_error")
         [] reply.http = "bad_request"                                  -> Err("not_found")
         [] reply.http = "too_many_requests"                            -> Err("rate_limited")
         [] reply.http = "ok" -> IF reply.body = "malformed" THEN Err("upstream_error")
                                                             ELSE ParseAirport(reply.airport)

-----------------------------------------------------------------------------
(* check-eligibility: one trip, from the first departure to the last       *)
(* arrival, whatever happened in between.                                  *)

Throws(error)        == [ outcome |-> "throws", eligible |-> FALSE, amount |-> NoNumber, reason |-> error ]
Denied(reason)       == [ outcome |-> "returns", eligible |-> FALSE, amount |-> NoNumber, reason |-> reason ]
Decided(yes, amount) == [ outcome |-> "returns", eligible |-> yes, amount |-> amount, reason |-> "rules" ]

\* The first segment that was cancelled, or 0.
Cancelled(statuses) ==
  LET all == { i \in DOMAIN statuses : statuses[i].value.status = "cancelled" } IN
  IF all = {} THEN 0 ELSE CHOOSE i \in all : \A j \in all : i <= j

\* Which disruption the trip is judged by, or why it cannot be.
Disruption(statuses) ==
  LET first == Cancelled(statuses)
      last  == statuses[Len(statuses)].value IN
  IF first # 0
    THEN IF statuses[first].value.notice = NoNumber
           THEN Err("notice_unknown")
           ELSE Ok([ disruption |-> "cancellation", delay |-> NoNumber,
                     notice |-> statuses[first].value.notice ])
    ELSE IF last.status = "delayed"
           THEN Ok([ disruption |-> "delay", notice |-> NoNumber,
                     delay |-> IF last.delay = NoNumber THEN 0 ELSE last.delay ])
           ELSE Err("no_disruption")

\* Of an airport nobody knows, and of an airline the directory does not know,
\* the answer is no.
IsEu(lookup) == lookup.ok /\ IsEuMemberCountry(lookup.value.country)

\* A plausible bug: an airline that is not found counts as covered.
CarrierIsEuUnlessKnown(airline) == airline.ok => airline.value.isEuCarrier

CarrierIsEu(airline) == airline.ok /\ airline.value.isEuCarrier

Trip(statuses, airline, departure, arrival) ==
  [ disruption  |-> Disruption(statuses).value.disruption,
    delay       |-> Disruption(statuses).value.delay,
    notice      |-> Disruption(statuses).value.notice,
    departureEU |-> IsEu(departure),
    arrivalEU   |-> IsEu(arrival),
    carrierEU   |-> CarrierIsEu(airline) ]

\* An amount is only worked out with both ends known, and then also for a trip
\* that is not eligible; eligible without an amount goes to a person.
CheckEligibilityNode(statuses, airline, departure, arrival, km) ==
  IF statuses = << >> THEN Throws("no_segments")
  ELSE IF \E i \in DOMAIN statuses : ~statuses[i].ok THEN Denied("status_lookup_failed")
  ELSE IF ~Disruption(statuses).ok THEN Denied(Disruption(statuses).error)
  ELSE LET eligible == CheckEligibility(Trip(statuses, airline, departure, arrival))
           cents    == GetCompensationCents(km) IN
       IF ~(departure.ok /\ arrival.ok)
         THEN IF eligible THEN Denied("amount_unknown") ELSE Decided(FALSE, NoNumber)
         ELSE IF cents.ok THEN Decided(eligible, cents.value) ELSE Throws(cents.error)
=============================================================================
