-------------------------------- MODULE Rules ---------------------------------
(***************************************************************************)
(* The pure parts of the system, asked one question at a time: whether and *)
(* how much a trip is owed (Ec261), where the claim goes                   *)
(* (AirlineDirectory), what its form still lacks (ClaimForm) and how a     *)
(* payment is divided (PayoutSplit).  A behaviour is a question and its    *)
(* answer; the properties set the answer against the question, or against  *)
(* the answers to related questions.                                       *)
(***************************************************************************)
EXTENDS Integers, Sequences, FiniteSets, PayoutSplit, Ec261, AirlineDirectory, ClaimForm

CONSTANTS
  Payments,     \* [ received, rate, currency ]: processPayout's calls of splitPayout
  Trips,        \* [ statuses, airline, departure, arrival, km ]: a trip's lookups
  Causes,       \* what the airline may say about the cause
  Directories,  \* [ raws, code ]: a dataset, and the carrier that is looked up
  Forms,        \* [ raw, anyName, hasProfile, profile, drafting ]: a form and what is known
  Packs         \* [ claim, chatFails, mailFails ]: a call of send_postal_pack

\* What the lookups of a trip yield.
Results(values) == [ ok : {TRUE}, value : values ] \cup [ ok : {FALSE}, error : STRING ]

TripQuestions ==
  [ statuses  : Seq(Results([ status : STRING, delay : Int, notice : Int ])),
    airline   : Results([ isEuCarrier : BOOLEAN ]),
    departure : Results([ country : STRING ]),
    arrival   : Results([ country : STRING ]),
    km        : Int ]

FormQuestions ==
  [ raw : RawRequiredFields, anyName : BOOLEAN, drafting : BOOLEAN, hasProfile : BOOLEAN,
    profile : PassengerProfiles ]

ASSUME TripsAssumption       == \A q \in Trips : q \in TripQuestions
ASSUME DirectoriesAssumption == \A q \in Directories : q \in [ raws : Seq(RawCarriers), code : STRING ]
ASSUME FormsAssumption       == \A q \in Forms : q \in FormQuestions
ASSUME PacksAssumption       == \A q \in Packs : q.claim.raw \in RawRequiredFields

VARIABLES asked, answer

vars == << asked, answer >>

NoAnswer == [ kind |-> "none" ]

Question(kind, q) == [ kind |-> kind, q |-> q ]

Init ==
  /\ \/ \E q \in Payments    : asked = Question("split", q)
     \/ \E q \in Trips       : asked = Question("trip", q)
     \/ \E q \in Causes      : asked = Question("cause", q)
     \/ \E q \in Directories : asked = Question("plan", q)
     \/ \E q \in Forms       : asked = Question("form", q)
     \/ \E q \in Packs       : asked = Question("pack", q)
  /\ answer = NoAnswer

Answer(kind, value) ==
  /\ asked.kind = kind /\ answer = NoAnswer
  /\ answer' = [ kind |-> kind, value |-> value ]
  /\ UNCHANGED asked

Split(q)    == SplitPayout(q.received, q.rate, q.currency)
Eligible(q) == CheckEligibilityNode(q.statuses, q.airline, q.departure, q.arrival, q.km)

\* A directory that is refused serves nobody: the process does not come up.
Plan(q) ==
  LET directory == LoadDirectory(q.raws) IN
  IF ~directory.ok THEN [ loaded |-> FALSE ]
  ELSE [ loaded |-> TRUE,
         plan   |-> BuildSubmissionPlan(GetAirline(directory.carriers, q.code)),
         views  |-> ListSupportedAirlines(directory.carriers) ]

Form(q) ==
  LET claimant == IF q.hasProfile THEN ToClaimantFacts(q.profile) ELSE Nothing IN
  IF q.drafting
    THEN DraftPrefill(ToRequiredFields(q.raw), q.anyName, claimant)
    ELSE ResolvePrefill(ToRequiredFields(q.raw), ToKnownClaimFacts(q.anyName), claimant)

AnswerSplit == Answer("split", Split(asked.q))
AnswerTrip  == Answer("trip",  Eligible(asked.q))
AnswerCause == Answer("cause", AssessExtraordinaryCircumstance(asked.q))
AnswerPlan  == Answer("plan",  Plan(asked.q))
AnswerForm  == Answer("form",  Form(asked.q))
AnswerPack  == Answer("pack",  SendPostalPack(asked.q.claim, asked.q.chatFails, asked.q.mailFails))

Next == AnswerSplit \/ AnswerTrip \/ AnswerCause \/ AnswerPlan \/ AnswerForm \/ AnswerPack

Spec == Init /\ [][Next]_vars

Answered(kind) == answer.kind = kind

-----------------------------------------------------------------------------
(***************************************************************************)
(* "commissionCents + payoutCents === received exactly — the passenger     *)
(* never loses a cent to rounding, and no cent is invented": at every      *)
(* amount, rate and currency the payment is refused, or divided without a  *)
(* remainder and with the rounding in the passenger's favour               *)
(* (domain/money/split.ts).                                                *)
(***************************************************************************)
SplitExact ==
  Answered("split") /\ answer.value.error = "none"
    => Exact(asked.q.received, asked.q.rate, answer.value)

\* The same trip with what could not be found out known after all.
Known(lookup, values) == IF lookup.ok THEN { lookup } ELSE { Ok(v) : v \in values }

Countries == { [ country |-> c ] : c \in { "DE", "US" } }
Notices   == { NoticeThreshold - 1, NoticeThreshold }

KnownStatus(status) ==
  IF status.ok /\ status.value.status = "cancelled" /\ status.value.notice = NoNumber
    THEN { Ok([ status.value EXCEPT !.notice = n ]) : n \in Notices }
    ELSE { status }

ClarifiedStatuses(statuses) ==
  { t \in [ DOMAIN statuses -> UNION { KnownStatus(statuses[i]) : i \in DOMAIN statuses } ] :
      \A i \in DOMAIN statuses : t[i] \in KnownStatus(statuses[i]) }

Clarified(q) ==
  { [ statuses |-> s, airline |-> a, departure |-> d, arrival |-> r, km |-> q.km ] :
      a \in Known(q.airline, { [ isEuCarrier |-> b ] : b \in BOOLEAN }),
      d \in Known(q.departure, Countries),
      r \in Known(q.arrival, Countries),
      s \in ClarifiedStatuses(q.statuses) }

(***************************************************************************)
(* A trip is only found eligible when whatever could not be looked up      *)
(* would not have changed it, nor the amount, which is then that of its    *)
(* distance; and a cause that nobody knows is not held against the         *)
(* passenger (check-eligibility.node.ts: "the conservative direction",     *)
(* "the amount must not be guessed"; extraordinary.ts: "must never default *)
(* to the airline is right").                                              *)
(***************************************************************************)
DoubtDecidesNothing ==
  /\ Answered("trip") /\ answer.value.eligible =>
       /\ answer.value.amount = GetCompensationCents(asked.q.km).value
       /\ \A q \in Clarified(asked.q) :
            Eligible(q).eligible /\ Eligible(q).amount = answer.value.amount
  /\ Answered("cause") /\ answer.value = "valid_defence" => asked.q \in ValidDefences

\* The channels of a carrier as the dataset has them.
RawChannels(raws, code) ==
  IF \E n \in DOMAIN raws : raws[n].code = code
    THEN raws[CHOOSE n \in DOMAIN raws : raws[n].code = code].channels ELSE << >>

Addresses(channels) == UNION { channels[i].addresses : i \in DOMAIN channels }

\* An address of a carrier that a maintainer has confirmed.
Vouched(raws, code, address) == RawChannels(raws, code)[address[1]].status # "unverified"

\* What the message sends the passenger to, and what the plan shows.
Told(plan) == UNION { route.addresses : route \in plan.message.routes }

(***************************************************************************)
(* No address that was not confirmed leaves the dataset, neither in a plan *)
(* nor in the list of airlines; the message names the addresses of the     *)
(* plan, one for each route and no other, and has no route exactly when    *)
(* the plan has none; and what the system would send to itself is one of   *)
(* them, an ordinary mailbox of a carrier that takes claims from others    *)
(* (submission-plan.ts: "the structured decision and the sentence          *)
(* explaining it can never disagree"; maintenance.ts on the invented       *)
(* address that made it so).                                               *)
(***************************************************************************)
PlanKeepsToDirectory ==
  Answered("plan") /\ answer.value.loaded =>
    LET raws == asked.q.raws
        plan == answer.value.plan
        sent == plan.autoSend
    IN  /\ \A a \in Addresses(plan.channels) : Vouched(raws, asked.q.code, a)
        /\ \A view \in answer.value.views : \A a \in Addresses(view.channels) : Vouched(raws, view.code, a)
        /\ Told(plan) = Addresses(plan.channels)
        /\ \A route \in plan.message.routes : Cardinality(route.addresses) = 1
        /\ plan.message.routes = {} <=> plan.selection.type = "none_available"
        /\ sent # 0 =>
             /\ plan.policy # "restricted"
             /\ plan.channels[sent].kind = "email"
             /\ RawChannels(raws, asked.q.code)[sent].mailbox = "standard"
             /\ plan.channels[sent].addresses \subseteq Told(plan)
             /\ plan.channels[sent].addresses # {}

-----------------------------------------------------------------------------
\* The fields behind the words of a form.
Wanted(raw) == UNION { ToSet(RawFieldAliases[raw.tokens[i]]) : i \in DOMAIN raw.tokens }

Complete == [ fullName |-> "text", contactEmail |-> "text", phone |-> "text",
              address |-> "text", iban |-> "text", bic |-> "text" ]

Lists(form) == form.resolved \o form.missingFromProfile \o form.missingPerClaim

\* Every field is in one list, once, and none is in a list that is not wanted.
Accounted(raw, fields) ==
  /\ ToSet(fields) = (IF raw.known THEN Wanted(raw) ELSE {})
  /\ Cardinality(ToSet(fields)) = Len(fields)

(***************************************************************************)
(* Every field that a word of the form stands for is either filled in or   *)
(* asked for, once; only a form that is known and filled in counts as      *)
(* complete; and what is asked for once and stored is not asked for again  *)
(* of somebody who has given it.  The form to print has them all, too      *)
(* (prefill.ts: "getting it wrong in the optimistic direction";            *)
(* field-vocabulary.ts: "never a silently dropped requirement").           *)
(***************************************************************************)
FormCovers ==
  /\ Answered("form") =>
       LET raw == asked.q.raw IN
       /\ Accounted(raw, Lists(answer.value))
       /\ answer.value.complete => raw.known /\ ToSet(answer.value.resolved) = Wanted(raw)
       /\ Form([ asked.q EXCEPT !.hasProfile = TRUE, !.profile = Complete ]).missingFromProfile = << >>
  /\ Answered("pack") /\ answer.value.error = "none" =>
       Accounted(asked.q.claim.raw, answer.value.onForm \o answer.value.outstanding)
=============================================================================
