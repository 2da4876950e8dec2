---------------------------- MODULE MailboxProofs -----------------------------
(***************************************************************************)
(* Proofs about Mailbox, for any users, mailboxes, flows, jobs, grants and *)
(* deaths.                                                                 *)
(***************************************************************************)
EXTENDS Mailbox, FiniteSetTheorems, TLAPS

-----------------------------------------------------------------------------
(***************************************************************************)
(* The inductive invariant.                                                *)
(***************************************************************************)
Links == { "exchanges", "fetches", "looks", "upserts" }

\* The steps of a callback that has connected a mailbox, up to the message that says so.
Tells == { "resumes", "fallsBack", "pushes" }

USE DEF Tells

\* Which jobs come to which steps, and what they have in their hands then.
Shape(k) ==
  /\ k.pc # "idle" => k.user \in Users
  /\ k.kind = "callback" => k.flow \in Flows
  /\ k.kind = "local" => k.flow = NoFlow
  /\ k.pc = "records" => k.todo = {}
  /\ k.pc \in { "exchanges", "fetches", "upserts" } => k.kind \in { "callback", "local" }
  /\ k.pc \in { "audits", "consumes", "resumes", "fallsBack", "pushes" } => k.kind = "callback"
  /\ k.pc \in { "revokes", "deletes", "records" } => k.kind \in { "disconnect", "forget" }
  /\ k.pc \in { "refreshes", "stores" } => k.kind = "scan"
  /\ k.pc = "looks" => k.kind \in { "callback", "disconnect", "forget" }
  /\ k.kind \in { "callback", "local" } /\ k.pc \in Links => k.box \in Mailboxes
  /\ k.pc \in { "revokes", "deletes", "refreshes", "stores" } => k.box \in Mailboxes
  /\ k.kind \in { "callback", "local" } /\ k.pc \in { "fetches", "looks", "upserts", "audits" } =>
       k.grant \in 1..MaxGrants
  /\ k.pc = "audits" => k.prev \in Users
  /\ k.kind \in { "disconnect", "forget" } /\ k.pc \in { "looks", "revokes", "deletes" } =>
       k.todo # {}

\* What a job that nothing has overlapped knows is still so.
Sound(k) ==
  /\ k.kind \in { "callback", "local" } /\ k.pc \in { "fetches", "looks", "upserts" } =>
       /\ k.grant \in live[k.box] /\ k.grant <= grants
       /\ \A m \in moved : m.grant # k.grant
  /\ k.kind = "callback" /\ k.pc = "upserts" =>
       k.prev = IF conn[k.box].owner = k.user THEN NoUser ELSE conn[k.box].owner
  /\ k.pc = "audits" => [grant |-> k.grant, from |-> k.prev] \in moved
  /\ k.kind = "callback" /\ k.pc \in Links \cup { "audits", "consumes" } =>
       flow[k.flow].state = "open" /\ flow[k.flow].user = k.user
  /\ k.kind = "forget" /\ k.pc # "idle" =>
       \A box \in Mailboxes : conn[box].owner = k.user => Provider(box) \in k.todo
  /\ k.pc \in { "revokes", "deletes" } =>
       /\ conn[k.box].owner = k.user
       /\ Provider(k.box) = IF "gmail" \in k.todo THEN "gmail" ELSE "outlook"
  /\ k.pc \in { "refreshes", "stores" } =>
       conn[k.box].owner # NoUser /\ k.grant = conn[k.box].refresh

\* Only a user starts a flow.
FlowsOwned == \A f \in Flows : flow[f].state = "open" => flow[f].user \in Users

\* Of the jobs that have not overlapped one runs.
Single == \A i, j \in Jobs : job[i].pc # "idle" /\ job[j].pc # "idle" => i = j

\* The properties, and what else they rest on, until jobs overlap.
AuditKept ==
  /\ audit \subseteq moved
  /\ \A m \in moved : m.grant <= grants
  /\ \A m, n \in moved : m.grant = n.grant => m = n
  /\ deaths = 0 =>
       \A m \in moved \ audit :
         \E j \in Jobs : job[j].kind = "callback" /\ job[j].pc = "audits" /\ job[j].grant = m.grant

TokensKept ==
  deaths = 0 =>
    \A box \in Mailboxes :
      conn[box].owner # NoUser =>
        /\ conn[box].access = conn[box].refresh
        /\ \/ conn[box].refresh \in live[box]
           \/ \E j \in Jobs : job[j].pc = "deletes" /\ job[j].box = box

ErasedKept ==
  /\ \A f \in Flows : flow[f].state = "open" /\ flow[f].user \in erased => f \in leftover
  /\ \A box \in Mailboxes :
       conn[box].owner \in erased => conn[box].flow \in leftover \cup { NoFlow }

\* The callbacks that may still connect a flow, and those that have.
Linking(k, f) == k.kind = "callback" /\ k.flow = f /\ k.pc \in Links
Linked(k, f)  == k.kind = "callback" /\ k.flow = f /\ k.pc \in { "audits", "consumes" } /\ k.ok

Before(f) == { j \in Jobs : Linking(job[j], f) }
Past(f)   == { j \in Jobs : Linked(job[j], f) }

\* A flow that is still open was used by callbacks that are about to mark it, or died.
UsesCounted ==
  \A f \in Flows :
    /\ flow[f].state # "consumed" => uses[f] <= deaths + Cardinality(Past(f))
    /\ flow[f].state = "consumed" =>
         /\ uses[f] + Cardinality(Before(f)) <= deaths + Cardinality(Jobs)
         /\ ~ overlapped => uses[f] <= deaths + 1 /\ Before(f) = {}

Clean ==
  /\ Single /\ AuditKept /\ TokensKept /\ ErasedKept
  /\ \A j \in Jobs : Sound(job[j])

MailboxInv ==
  /\ MailboxTypeOK
  /\ \A j \in Jobs : Shape(job[j])
  /\ FlowsOwned /\ Announced /\ UsesCounted
  /\ ~ overlapped => Clean

-----------------------------------------------------------------------------
(***************************************************************************)
(* The invariant implies the properties.                                   *)
(***************************************************************************)
LEMMA Counted ==
  ASSUME NEW f
  PROVE  /\ IsFiniteSet(Before(f)) /\ IsFiniteSet(Past(f))
         /\ Cardinality(Before(f)) \in Nat /\ Cardinality(Past(f)) \in Nat
         /\ Cardinality(Jobs) \in Nat
         /\ Cardinality(Past(f)) <= Cardinality(Jobs)
<1>1. Before(f) \in SUBSET Jobs /\ Past(f) \in SUBSET Jobs
  BY DEF Before, Past
<1>2. IsFiniteSet(Before(f)) /\ IsFiniteSet(Past(f)) /\ Cardinality(Past(f)) <= Cardinality(Jobs)
  BY <1>1, JobsAssumption, FS_Subset
<1> QED
  BY <1>2, JobsAssumption, FS_CardinalityType

LEMMA SingleCounts ==
  ASSUME Single, NEW f
  PROVE  Cardinality(Past(f)) <= 1
<1>1. CASE Past(f) = {}
  BY <1>1, FS_EmptySet
<1>2. CASE Past(f) # {}
  <2>1. PICK j \in Past(f) : TRUE
    BY <1>2
  <2>2. \A i \in Past(f) : i \in Jobs /\ job[i].pc # "idle"
    BY DEF Past, Linked
  <2>3. \A i \in Past(f) : i = j
    BY <2>1, <2>2 DEF Single
  <2>4. Past(f) = { j }
    BY <2>1, <2>3
  <2>5. Cardinality({ j }) = 1
    BY FS_Singleton
  <2> QED
    BY <2>4, <2>5
<1> QED
  BY <1>1, <1>2

LEMMA Numbers ==
  ASSUME MailboxTypeOK
  PROVE  /\ grants \in Nat /\ deaths \in Nat
         /\ \A f \in Flows : uses[f] \in Nat
         /\ \A m \in moved : m.grant \in Nat
  BY BoundsAssumption DEF MailboxTypeOK

LEMMA Implied ==
  MailboxInv => TransfersAudited /\ FlowsConnectOnce /\ StoredTokensWork /\ ErasedIsDisconnected
<1> SUFFICES ASSUME MailboxInv
             PROVE  TransfersAudited /\ FlowsConnectOnce /\ StoredTokensWork /\ ErasedIsDisconnected
  OBVIOUS
<1>1. TransfersAudited
  BY DEF MailboxInv, Clean, AuditKept, TransfersAudited, At
<1>2. FlowsConnectOnce
  <2> SUFFICES ASSUME NEW f \in Flows
               PROVE  uses[f] <= deaths + (IF overlapped THEN Cardinality(Jobs) ELSE 1)
    BY DEF FlowsConnectOnce
  <2>1. uses[f] \in Nat /\ deaths \in Nat
    BY Numbers DEF MailboxInv
  <2>2. CASE flow[f].state # "consumed"
    <3>1. uses[f] <= deaths + Cardinality(Past(f))
      BY <2>2 DEF MailboxInv, UsesCounted
    <3>2. CASE overlapped
      BY <2>1, <3>1, <3>2, Counted
    <3>3. CASE ~ overlapped
      <4>1. Cardinality(Past(f)) <= 1
        BY <3>3, SingleCounts DEF MailboxInv, Clean
      <4> QED
        BY <2>1, <3>1, <3>3, <4>1, Counted
    <3> QED
      BY <3>2, <3>3
  <2>3. CASE flow[f].state = "consumed"
    <3>1. /\ uses[f] + Cardinality(Before(f)) <= deaths + Cardinality(Jobs)
          /\ ~ overlapped => uses[f] <= deaths + 1
      BY <2>3 DEF MailboxInv, UsesCounted
    <3>2. CASE overlapped
      BY <2>1, <3>1, <3>2, Counted
    <3>3. CASE ~ overlapped
      BY <3>1, <3>3
    <3> QED
      BY <3>2, <3>3
  <2> QED
    BY <2>2, <2>3
<1>3. StoredTokensWork
  BY DEF MailboxInv, Clean, TokensKept, StoredTokensWork
<1>4. ErasedIsDisconnected
  BY DEF MailboxInv, Clean, ErasedKept, ErasedIsDisconnected
<1> QED
  BY <1>1, <1>2, <1>3, <1>4

-----------------------------------------------------------------------------
(***************************************************************************)
(* The beginning.                                                          *)
(***************************************************************************)
LEMMA IdleIs ==
  /\ Idle \in JobStates /\ Idle.pc = "idle" /\ Idle.kind = "scan"
  /\ Idle.flow = NoFlow /\ Shape(Idle)
  BY BoundsAssumption DEF Idle, JobStates, Steps, Shape, Links

\* Of a job that does nothing there is nothing to know.
LEMMA IdleSound ==
  ASSUME NEW k, k.pc = "idle"
  PROVE  Sound(k)
  BY DEF Sound, Links

LEMMA NoConnectionTyped == NoConnection \in Connections /\ NoConnection.owner = NoUser
  BY BoundsAssumption DEF NoConnection, Connections

LEMMA InitInv == Init => MailboxInv
<1> SUFFICES ASSUME Init PROVE MailboxInv
  OBVIOUS
<1>1. /\ \A j \in Jobs : job[j] = Idle
      /\ \A box \in Mailboxes : conn[box] = NoConnection
      /\ \A f \in Flows : flow[f].state = "none" /\ uses[f] = 0
      /\ audit = {} /\ moved = {} /\ erased = {} /\ completed = {}
  BY DEF Init
<1>2. MailboxTypeOK
  <2>1. flow \in [Flows -> FlowRows]
    BY DEF Init, FlowRows, Providers
  <2>2. conn \in [Mailboxes -> Connections]
        /\ \A box \in Mailboxes : conn[box].owner = NoUser => conn[box] = NoConnection
    BY <1>1, NoConnectionTyped DEF Init
  <2>3. job \in [Jobs -> JobStates]
    BY IdleIs DEF Init
  <2>4. live \in [Mailboxes -> SUBSET (1..MaxGrants)]
    BY DEF Init
  <2>5. grants \in 0..MaxGrants /\ deaths \in 0..MaxDeaths
    <3>1. grants = 0 /\ deaths = 0
      BY DEF Init
    <3> QED
      BY <3>1, BoundsAssumption
  <2>6. /\ moved \cup audit \subseteq [ grant : 1..MaxGrants, from : Users ]
        /\ completed \cup announced \cup refused \cup leftover \subseteq Flows
        /\ erased \subseteq Users
    BY DEF Init
  <2>7. uses \in [Flows -> Nat]
    BY DEF Init
  <2>8. overlapped \in BOOLEAN
    BY DEF Init
  <2> QED
    BY <2>1, <2>2, <2>3, <2>4, <2>5, <2>6, <2>7, <2>8 DEF MailboxTypeOK
<1>3. \A j \in Jobs : Shape(job[j]) /\ Sound(job[j])
  BY <1>1, IdleIs, IdleSound
<1>4. FlowsOwned /\ Announced
  BY <1>1 DEF FlowsOwned, Announced
<1>5. UsesCounted
  <2> SUFFICES ASSUME NEW f \in Flows PROVE uses[f] <= deaths + Cardinality(Past(f))
    BY <1>1 DEF UsesCounted
  <2>1. uses[f] = 0 /\ deaths = 0
    BY <1>1 DEF Init
  <2> QED
    BY <2>1, Counted
<1>6. Single /\ AuditKept /\ TokensKept /\ ErasedKept
  BY <1>1, IdleIs, NoConnectionTyped DEF Single, AuditKept, TokensKept, ErasedKept
<1> QED
  BY <1>2, <1>3, <1>4, <1>5, <1>6 DEF MailboxInv, Clean

-----------------------------------------------------------------------------
(***************************************************************************)
(* How a job moves.                                                        *)
(***************************************************************************)
Moves(j, k) ==
  /\ k \in JobStates
  /\ job' = [job EXCEPT ![j] = k]

LEMMA Moved ==
  ASSUME MailboxTypeOK, NEW j \in Jobs, NEW k, Moves(j, k)
  PROVE  /\ job' \in [Jobs -> JobStates]
         /\ job'[j] = k
         /\ \A i \in Jobs \ { j } : job'[i] = job[i]
  BY DEF MailboxTypeOK, Moves

LEMMA Going ==
  ASSUME MailboxTypeOK, NEW j \in Jobs, NEW pc \in Steps, Goto(j, pc)
  PROVE  /\ Moves(j, job'[j])
         /\ job'[j].pc = pc
         /\ job'[j].kind = job[j].kind /\ job'[j].user = job[j].user
         /\ job'[j].flow = job[j].flow /\ job'[j].box = job[j].box
         /\ job'[j].grant = job[j].grant /\ job'[j].prev = job[j].prev
         /\ job'[j].ok = job[j].ok /\ job'[j].todo = job[j].todo
<1> DEFINE k == [job[j] EXCEPT !.pc = pc]
<1>1. job[j] \in JobStates
  BY DEF MailboxTypeOK
<1>2. /\ k \in JobStates /\ k.pc = pc
      /\ k.kind = job[j].kind /\ k.user = job[j].user
      /\ k.flow = job[j].flow /\ k.box = job[j].box
      /\ k.grant = job[j].grant /\ k.prev = job[j].prev
      /\ k.ok = job[j].ok /\ k.todo = job[j].todo
  BY <1>1 DEF JobStates
<1>3. job' = [job EXCEPT ![j] = k]
  BY DEF Goto
<1> HIDE DEF k
<1> QED
  BY <1>2, <1>3 DEF Moves, MailboxTypeOK

LEMMA Ending ==
  ASSUME MailboxTypeOK, NEW j \in Jobs, End(j)
  PROVE  Moves(j, Idle) /\ job'[j] = Idle /\ Moves(j, job'[j])
  BY IdleIs DEF End, Moves, MailboxTypeOK

\* A job that runs stays the only one, and one that begins has been noticed.
LEMMA SingleStays ==
  ASSUME MailboxTypeOK, Single, NEW j \in Jobs, NEW k, Moves(j, k), job[j].pc # "idle"
  PROVE  Single'
  BY Moved DEF Single

LEMMA Beginning ==
  ASSUME MailboxTypeOK, NEW j \in Jobs, NEW k, k \in JobStates, Begin(j, k)
  PROVE  /\ job[j].pc = "idle" /\ Moves(j, k) /\ job'[j] = k /\ Moves(j, job'[j])
         /\ overlapped' \in BOOLEAN /\ (overlapped => overlapped')
         /\ ~ overlapped' => Single' /\ \A i \in Jobs : job[i].pc = "idle"
<1>1. /\ job[j].pc = "idle" /\ Moves(j, k)
      /\ overlapped' \in BOOLEAN /\ (overlapped => overlapped')
      /\ ~ overlapped' => \A i \in Jobs : job[i].pc = "idle"
  BY DEF Begin, Moves, Running, MailboxTypeOK
<1>2. job'[j] = k /\ \A i \in Jobs \ { j } : job'[i] = job[i]
  BY <1>1, Moved
<1>3. ~ overlapped' => Single'
  BY <1>1, <1>2 DEF Single
<1> QED
  BY <1>1, <1>2, <1>3

-----------------------------------------------------------------------------
(***************************************************************************)
(* What has to be shown of a step of one job.                              *)
(***************************************************************************)
\* Nothing is known of the other jobs unless they run, and if they run jobs overlap.
LEMMA Assembled ==
  ASSUME MailboxInv, NEW j \in Jobs, Moves(j, job'[j]), Shape(job[j])',
         MailboxTypeOK', FlowsOwned', Announced', UsesCounted', overlapped => overlapped',
         ~ overlapped' =>
           Single' /\ (job'[j].pc # "idle" => Sound(job[j])') /\ AuditKept' /\ TokensKept' /\ ErasedKept',
         ~ overlapped' => \A i \in Jobs \ { j } : job[i].pc = "idle"
  PROVE  MailboxInv'
<1>1. \A i \in Jobs \ { j } : job'[i] = job[i]
  BY Moved DEF MailboxInv
<1>2. ASSUME NEW i \in Jobs PROVE Shape(job[i])'
  BY <1>1 DEF MailboxInv, Shape
<1>3. ASSUME ~ overlapped', NEW i \in Jobs PROVE Sound(job[i])'
  <2>1. CASE job'[i].pc = "idle"
    BY <2>1 DEF Sound, Links
  <2>2. CASE job'[i].pc # "idle"
    <3>1. i = j
      BY <1>1, <1>3, <2>2
    <3> QED
      BY <1>3, <2>2, <3>1
  <2> QED
    BY <2>1, <2>2
<1> QED
  BY <1>2, <1>3 DEF MailboxInv, Clean

\* The count of uses, over a step that uses and marks no flow.
LEMMA UsesKept ==
  ASSUME MailboxInv, NEW j \in Jobs, Moves(j, job'[j]), UNCHANGED << flow, uses >>,
         deaths' \in { deaths, deaths + 1 }, overlapped => overlapped',
         \A f \in Flows : Linked(job[j], f) => Linked(job'[j], f) \/ deaths' # deaths,
         \A f \in Flows : Linking(job'[j], f) => Linking(job[j], f) \/ flow[f].state = "open"
  PROVE  UsesCounted'
<1> SUFFICES ASSUME NEW f \in Flows
             PROVE  /\ flow[f].state # "consumed" => uses[f] <= deaths' + Cardinality(Past(f)')
                    /\ flow[f].state = "consumed" =>
                         /\ uses[f] + Cardinality(Before(f)') <= deaths' + Cardinality(Jobs)
                         /\ ~ overlapped' => uses[f] <= deaths' + 1 /\ Before(f)' = {}
  BY DEF UsesCounted
<1>1. /\ MailboxTypeOK /\ UsesCounted /\ uses[f] \in Nat /\ deaths \in Nat
      /\ \A i \in Jobs \ { j } : job'[i] = job[i]
  BY Moved, Numbers DEF MailboxInv
<1>2. /\ IsFiniteSet(Past(f)) /\ Cardinality(Past(f)) \in Nat
      /\ IsFiniteSet(Before(f)) /\ Cardinality(Before(f)) \in Nat /\ Cardinality(Jobs) \in Nat
  BY Counted
<1>3. /\ IsFiniteSet(Past(f)') /\ Cardinality(Past(f)') \in Nat
      /\ Cardinality(Before(f)') \in Nat
  <2>1. Past(f)' \in SUBSET Jobs /\ Before(f)' \in SUBSET Jobs
    BY DEF Past, Before
  <2> QED
    BY <2>1, JobsAssumption, FS_Subset, FS_CardinalityType
<1>4. ASSUME flow[f].state # "consumed"
      PROVE  uses[f] <= deaths' + Cardinality(Past(f)')
  <2>1. uses[f] <= deaths + Cardinality(Past(f))
    BY <1>1, <1>4 DEF UsesCounted
  <2>2. CASE deaths' = deaths
    <3>1. Past(f) \in SUBSET (Past(f)')
      BY <1>1, <2>2 DEF Past
    <3>2. Cardinality(Past(f)) <= Cardinality(Past(f)')
      BY <1>3, <3>1, FS_Subset
    <3> QED
      BY <1>1, <1>2, <1>3, <2>1, <2>2, <3>2
  <2>3. CASE deaths' = deaths + 1
    <3>1. Past(f) \ { j } \in SUBSET (Past(f)')
      BY <1>1 DEF Past
    <3>2. Cardinality(Past(f) \ { j }) <= Cardinality(Past(f)')
      BY <1>3, <3>1, FS_Subset
    <3>3. IsFiniteSet(Past(f) \ { j })
          /\ Cardinality(Past(f) \ { j }) =
               IF j \in Past(f) THEN Cardinality(Past(f)) - 1 ELSE Cardinality(Past(f))
      BY <1>2, FS_RemoveElement
    <3>4. Cardinality(Past(f) \ { j }) \in Nat
      BY <3>3, FS_CardinalityType
    <3> QED
      BY <1>1, <1>2, <1>3, <2>1, <2>3, <3>2, <3>3, <3>4
  <2> QED
    BY <2>2, <2>3
<1>5. ASSUME flow[f].state = "consumed"
      PROVE  /\ uses[f] + Cardinality(Before(f)') <= deaths' + Cardinality(Jobs)
             /\ ~ overlapped' => uses[f] <= deaths' + 1 /\ Before(f)' = {}
  <2>1. /\ uses[f] + Cardinality(Before(f)) <= deaths + Cardinality(Jobs)
        /\ ~ overlapped => uses[f] <= deaths + 1 /\ Before(f) = {}
    BY <1>1, <1>5 DEF UsesCounted
  <2>2. Before(f)' \in SUBSET Before(f)
    BY <1>1, <1>5 DEF Before
  <2>3. Cardinality(Before(f)') <= Cardinality(Before(f))
    BY <1>2, <2>2, FS_Subset
  <2> QED
    BY <1>1, <1>2, <1>3, <2>1, <2>2, <2>3
<1> QED
  BY <1>4, <1>5

\* What is announced stays so, over a step that announces and completes nothing.
LEMMA AnnouncedKept ==
  ASSUME MailboxInv, NEW j \in Jobs, Moves(j, job'[j]), UNCHANGED << completed, announced, refused >>,
         deaths' \in { deaths, deaths + 1 },
         job[j].pc \in Tells =>
           deaths' # deaths \/ (job'[j].pc \in Tells /\ job'[j].flow = job[j].flow)
  PROVE  Announced'
<1> SUFFICES ASSUME deaths' = 0, NEW f \in completed, f \notin announced \cup refused
             PROVE  \E i \in Jobs : job'[i].flow = f /\ job'[i].pc \in Tells
  BY DEF Announced
<1>1. deaths = 0 /\ deaths' = deaths /\ \A i \in Jobs \ { j } : job'[i] = job[i]
  BY Numbers, Moved DEF MailboxInv
<1>2. PICK i \in Jobs : job[i].flow = f /\ job[i].pc \in Tells
  BY <1>1 DEF MailboxInv, Announced
<1> QED
  BY <1>1, <1>2

\* A step that only moves a job.
LEMMA JobStep ==
  ASSUME MailboxInv, NEW j \in Jobs, Moves(j, job'[j]), Shape(job[j])',
         UNCHANGED << tables, provider, moved, uses, completed, announced, refused, erased, leftover >>,
         overlapped' \in BOOLEAN, overlapped => overlapped',
         deaths' \in { deaths, deaths + 1 }, deaths' \in 0..MaxDeaths,
         ~ overlapped' => Single' /\ (job'[j].pc # "idle" => Sound(job[j])')
                          /\ \A i \in Jobs \ { j } : job[i].pc = "idle",
         \A f \in Flows : Linked(job[j], f) => Linked(job'[j], f) \/ deaths' # deaths,
         \A f \in Flows : Linking(job'[j], f) => Linking(job[j], f) \/ flow[f].state = "open",
         job[j].pc \in { "audits", "deletes" } => deaths' # deaths,
         job[j].pc \in Tells =>
           deaths' # deaths \/ (job'[j].pc \in Tells /\ job'[j].flow = job[j].flow)
  PROVE  MailboxInv'
<1>1. /\ UNCHANGED << flow, conn, audit, live, grants, moved, uses, completed, announced, refused >>
      /\ UNCHANGED << erased, leftover >>
  BY DEF tables, provider
<1>2. /\ MailboxTypeOK /\ deaths \in Nat
      /\ job' \in [Jobs -> JobStates] /\ \A i \in Jobs \ { j } : job'[i] = job[i]
  BY Moved, Numbers DEF MailboxInv
<1>3. MailboxTypeOK' /\ FlowsOwned'
  BY <1>1, <1>2 DEF MailboxTypeOK, MailboxInv, FlowsOwned
<1>4. UsesCounted'
  BY <1>1, UsesKept
<1>5. Announced'
  BY <1>1, AnnouncedKept
<1>6. ASSUME ~ overlapped' PROVE AuditKept' /\ TokensKept' /\ ErasedKept'
  <2>1. AuditKept /\ TokensKept /\ ErasedKept
    BY <1>6 DEF MailboxInv, Clean
  <2>2. deaths' = 0 => deaths = 0 /\ \A i \in Jobs : job[i].pc \in { "audits", "deletes" } => job'[i] = job[i]
    BY <1>2
  <2>3. AuditKept'
    BY <1>1, <2>1, <2>2 DEF AuditKept
  <2>4. TokensKept'
    BY <1>1, <2>1, <2>2 DEF TokensKept
  <2>5. ErasedKept'
    BY <1>1, <2>1 DEF ErasedKept
  <2> QED
    BY <2>3, <2>4, <2>5
<1> QED
  BY <1>3, <1>4, <1>5, <1>6, Assembled

\* A job that begins.
LEMMA BegunKeeps ==
  ASSUME MailboxInv, NEW j \in Jobs, NEW k \in JobStates, Begin(j, k),
         UNCHANGED << tables, provider, moved, uses, completed, announced, refused, erased,
                      leftover, deaths >>,
         k.pc # "idle", Shape(k), Sound(k),
         \A f \in Flows : Linking(k, f) => flow[f].state = "open"
  PROVE  MailboxInv'
<1>1. MailboxTypeOK
  BY DEF MailboxInv
<1>2. /\ job[j].pc = "idle" /\ Moves(j, k) /\ job'[j] = k /\ Moves(j, job'[j])
      /\ overlapped' \in BOOLEAN /\ (overlapped => overlapped')
      /\ ~ overlapped' => Single' /\ \A i \in Jobs : job[i].pc = "idle"
  BY <1>1, Beginning
<1>3. /\ Shape(job[j])'
      /\ deaths' \in { deaths, deaths + 1 } /\ deaths' \in 0..MaxDeaths
  BY <1>1, <1>2 DEF Shape, MailboxTypeOK
<1>4. Sound(job[j])'
  BY <1>2 DEF Sound, tables, provider
<1>5. /\ \A f \in Flows : Linked(job[j], f) => Linked(job'[j], f) \/ deaths' # deaths
      /\ \A f \in Flows : Linking(job'[j], f) => Linking(job[j], f) \/ flow[f].state = "open"
  BY <1>2 DEF Linked
<1> QED
  BY <1>2, <1>3, <1>4, <1>5, JobStep

\* A job that goes on, having only read.
LEMMA StepKeeps ==
  ASSUME MailboxInv, NEW j \in Jobs, NEW k, Moves(j, k),
         UNCHANGED << tables, provider, history >>,
         job[j].pc \notin { "idle", "audits", "consumes", "deletes" },
         Shape(k), ~ overlapped /\ k.pc # "idle" => Sound(k),
         \A f \in Flows : Linking(k, f) => Linking(job[j], f),
         job[j].pc \in Tells =>
           k.pc \in Tells /\ k.flow = job[j].flow
  PROVE  MailboxInv'
<1>1. /\ MailboxTypeOK /\ job'[j] = k /\ Moves(j, job'[j])
  BY Moved DEF MailboxInv
<1>2. /\ UNCHANGED << moved, uses, completed, announced, refused, erased, leftover >>
      /\ UNCHANGED << overlapped, deaths >>
  BY DEF history
<1>3. /\ Shape(job[j])'
      /\ deaths' \in { deaths, deaths + 1 } /\ deaths' \in 0..MaxDeaths
      /\ overlapped' \in BOOLEAN
  BY <1>1, <1>2 DEF Shape, MailboxTypeOK
<1>4. ~ overlapped' => (job'[j].pc # "idle" => Sound(job[j])')
  BY <1>1, <1>2 DEF Sound, tables, provider
<1>5. ~ overlapped' => Single' /\ \A i \in Jobs \ { j } : job[i].pc = "idle"
  <2> SUFFICES ASSUME ~ overlapped' PROVE Single' /\ \A i \in Jobs \ { j } : job[i].pc = "idle"
    OBVIOUS
  <2>1. Single
    BY <1>2 DEF MailboxInv, Clean
  <2> QED
    BY <1>1, <2>1, SingleStays DEF Single
<1>6. /\ \A f \in Flows : Linked(job[j], f) => Linked(job'[j], f) \/ deaths' # deaths
      /\ \A f \in Flows : Linking(job'[j], f) => Linking(job[j], f) \/ flow[f].state = "open"
  BY <1>1 DEF Linked
<1> QED
  BY <1>1, <1>2, <1>3, <1>4, <1>5, <1>6, JobStep

-----------------------------------------------------------------------------
(***************************************************************************)
(* The steps that only move a job.                                         *)
(***************************************************************************)
LEMMA DieKeeps ==
  ASSUME MailboxInv, NEW j \in Jobs, Die(j)
  PROVE  MailboxInv'
<1>1. /\ MailboxTypeOK /\ deaths' = deaths + 1 /\ deaths \in 0..MaxDeaths /\ deaths < MaxDeaths
      /\ job[j].pc # "idle" /\ End(j) /\ overlapped' = overlapped /\ overlapped \in BOOLEAN
      /\ UNCHANGED << tables, provider, moved, uses, completed, announced, refused, erased, leftover >>
  BY DEF Die, MailboxInv, MailboxTypeOK, Running
<1>2. deaths' # deaths /\ deaths' \in 0..MaxDeaths
  BY <1>1, BoundsAssumption
<1>3. Moves(j, Idle) /\ job'[j] = Idle /\ Moves(j, job'[j])
  BY <1>1, Ending
<1>4. Shape(job[j])' /\ job'[j].pc = "idle" /\ \A f \in Flows : ~ Linking(job'[j], f)
  BY <1>3, IdleIs DEF Shape, Links, Linking
<1>5. ~ overlapped' => Single' /\ \A i \in Jobs \ { j } : job[i].pc = "idle"
  <2> SUFFICES ASSUME ~ overlapped' PROVE Single' /\ \A i \in Jobs \ { j } : job[i].pc = "idle"
    OBVIOUS
  <2>1. Single
    BY <1>1 DEF MailboxInv, Clean
  <2> QED
    BY <1>1, <1>3, <2>1, SingleStays DEF Single
<1> QED
  BY <1>1, <1>2, <1>3, <1>4, <1>5, JobStep

LEMMA CallbackKeeps ==
  ASSUME MailboxInv, NEW j \in Jobs, Callback(j)
  PROVE  MailboxInv'
<1>1. PICK f \in Flows :
        /\ flow[f].state = "open"
        /\ LET begun == [Idle EXCEPT !.kind = "callback", !.flow = f, !.user = flow[f].user]
           IN \/ Begin(j, [begun EXCEPT !.pc = "consumes"])
              \/ \E box \in Mailboxes : Begin(j, [begun EXCEPT !.pc = "exchanges", !.box = box])
  BY DEF Callback, Usable
<1>2. flow[f].user \in Users
  BY <1>1 DEF MailboxInv, FlowsOwned
<1> DEFINE begun == [Idle EXCEPT !.kind = "callback", !.flow = f, !.user = flow[f].user]
<1>3. /\ begun \in JobStates /\ begun.kind = "callback"
      /\ begun.flow = f /\ begun.user = flow[f].user
  BY <1>2, IdleIs DEF JobStates
<1>4. CASE Begin(j, [begun EXCEPT !.pc = "consumes"])
  <2> DEFINE k == [begun EXCEPT !.pc = "consumes"]
  <2>1. /\ k \in JobStates /\ k.kind = "callback" /\ k.pc = "consumes"
        /\ k.flow = f /\ k.user = flow[f].user
    <3> HIDE DEF begun
    <3> QED
      BY <1>3 DEF JobStates, Steps
  <2>2. Begin(j, k)
    BY <1>4
  <2> HIDE DEF k
  <2>3. Shape(k) /\ Sound(k) /\ \A g \in Flows : ~ Linking(k, g)
    BY <1>1, <1>2, <2>1 DEF Shape, Sound, Links, Linking
  <2> QED
    BY <2>1, <2>2, <2>3, BegunKeeps DEF Callback
<1>5. CASE \E box \in Mailboxes : Begin(j, [begun EXCEPT !.pc = "exchanges", !.box = box])
  <2>1. PICK box \in Mailboxes : Begin(j, [begun EXCEPT !.pc = "exchanges", !.box = box])
    BY <1>5
  <2> DEFINE k == [begun EXCEPT !.pc = "exchanges", !.box = box]
  <2>2. /\ k \in JobStates /\ k.kind = "callback" /\ k.pc = "exchanges"
        /\ k.flow = f /\ k.user = flow[f].user /\ k.box = box
    <3> HIDE DEF begun
    <3> QED
      BY <1>3 DEF JobStates, Steps
  <2>3. Begin(j, k)
    BY <2>1
  <2> HIDE DEF k
  <2>4. Shape(k) /\ Sound(k) /\ \A g \in Flows : Linking(k, g) => flow[g].state = "open"
    BY <1>1, <1>2, <2>2 DEF Shape, Sound, Links, Linking
  <2> QED
    BY <2>2, <2>3, <2>4, BegunKeeps DEF Callback
<1> QED
  BY <1>1, <1>4, <1>5

LEMMA LocalKeeps ==
  ASSUME MailboxInv, NEW j \in Jobs, RunAuthorizationCodeFlow(j)
  PROVE  MailboxInv'
<1>1. PICK box \in Mailboxes :
        Begin(j, [Idle EXCEPT !.kind = "local", !.pc = "exchanges", !.user = CliUser,
                              !.box = box])
  BY DEF RunAuthorizationCodeFlow
<1> DEFINE k == [Idle EXCEPT !.kind = "local", !.pc = "exchanges", !.user = CliUser,
                             !.box = box]
<1>2. /\ k \in JobStates /\ k.kind = "local" /\ k.pc = "exchanges" /\ k.user \in Users
      /\ k.flow = NoFlow /\ k.box = box
  BY UsersAssumption, IdleIs DEF JobStates, Steps
<1>3. Begin(j, k)
  BY <1>1
<1> HIDE DEF k
<1>4. Shape(k) /\ Sound(k) /\ \A f \in Flows : ~ Linking(k, f)
  BY <1>2 DEF Shape, Sound, Links, Linking
<1> QED
  BY <1>2, <1>3, <1>4, BegunKeeps DEF RunAuthorizationCodeFlow

LEMMA DisconnectKeeps ==
  ASSUME MailboxInv, NEW j \in Jobs, DisconnectEmail(j)
  PROVE  MailboxInv'
<1>1. PICK u \in Users, p \in Providers :
        Begin(j, [Idle EXCEPT !.kind = "disconnect", !.pc = "looks", !.user = u,
                              !.todo = { p }])
  BY DEF DisconnectEmail
<1> DEFINE k == [Idle EXCEPT !.kind = "disconnect", !.pc = "looks", !.user = u,
                             !.todo = { p }]
<1>2. /\ k \in JobStates /\ k.kind = "disconnect" /\ k.pc = "looks" /\ k.user = u
      /\ k.todo # {}
  BY IdleIs DEF JobStates, Steps
<1>3. Begin(j, k)
  BY <1>1
<1> HIDE DEF k
<1>4. Shape(k) /\ Sound(k) /\ \A f \in Flows : ~ Linking(k, f)
  BY <1>2 DEF Shape, Sound, Links, Linking
<1> QED
  BY <1>2, <1>3, <1>4, BegunKeeps DEF DisconnectEmail

LEMMA ForgetKeeps ==
  ASSUME MailboxInv, NEW j \in Jobs, ForgetMyData(j)
  PROVE  MailboxInv'
<1>1. PICK u \in Users :
        Begin(j, [Idle EXCEPT !.kind = "forget", !.pc = "looks", !.user = u,
                              !.todo = Providers])
  BY DEF ForgetMyData
<1> DEFINE k == [Idle EXCEPT !.kind = "forget", !.pc = "looks", !.user = u,
                             !.todo = Providers]
<1>2. /\ k \in JobStates /\ k.kind = "forget" /\ k.pc = "looks" /\ k.user = u
      /\ k.todo = { "gmail", "outlook" }
  BY IdleIs DEF JobStates, Steps, Providers
<1>3. Begin(j, k)
  BY <1>1
<1> HIDE DEF k
<1>4. Shape(k) /\ Sound(k) /\ \A f \in Flows : ~ Linking(k, f)
  BY <1>2 DEF Shape, Sound, Links, Linking, Provider
<1> QED
  BY <1>2, <1>3, <1>4, BegunKeeps DEF ForgetMyData

LEMMA ScanKeeps ==
  ASSUME MailboxInv, NEW j \in Jobs, CreateEmailIngestProvider(j)
  PROVE  MailboxInv'
<1>1. PICK u \in Users, box \in Mailboxes :
        /\ conn[box].owner = u
        /\ Begin(j, [Idle EXCEPT !.pc = "refreshes", !.user = u, !.box = box,
                                 !.grant = conn[box].refresh])
  BY DEF CreateEmailIngestProvider, Of
<1> DEFINE k == [Idle EXCEPT !.pc = "refreshes", !.user = u, !.box = box,
                             !.grant = conn[box].refresh]
<1>2. conn[box].refresh \in 0..MaxGrants /\ u # NoUser
  BY UsersAssumption DEF MailboxInv, MailboxTypeOK, Connections
<1>3. /\ k \in JobStates /\ k.kind = "scan" /\ k.pc = "refreshes" /\ k.user = u
      /\ k.box = box /\ k.grant = conn[box].refresh
  BY <1>2, IdleIs DEF JobStates, Steps
<1>4. Begin(j, k)
  BY <1>1
<1> HIDE DEF k
<1>5. Shape(k) /\ Sound(k) /\ \A f \in Flows : ~ Linking(k, f)
  BY <1>1, <1>2, <1>3 DEF Shape, Sound, Links, Linking
<1> QED
  BY <1>3, <1>4, <1>5, BegunKeeps DEF CreateEmailIngestProvider

\* A job that ends, having only read, with nothing to tell the chat.
LEMMA EndKeeps ==
  ASSUME MailboxInv, NEW j \in Jobs, End(j), UNCHANGED << tables, provider, history >>,
         job[j].pc \notin { "idle", "audits", "consumes", "deletes", "resumes", "fallsBack", "pushes" }
  PROVE  MailboxInv'
<1>1. Moves(j, Idle)
  BY Ending DEF MailboxInv
<1>2. Shape(Idle) /\ Idle.pc = "idle" /\ \A f \in Flows : ~ Linking(Idle, f)
  BY IdleIs DEF Linking
<1> QED
  BY <1>1, <1>2, StepKeeps

LEMMA ExchangeFailsKeeps ==
  ASSUME MailboxInv, NEW j \in Jobs, ExchangeFails(j)
  PROVE  MailboxInv'
<1>1. /\ MailboxTypeOK /\ job[j].pc = "exchanges" /\ Shape(job[j])
      /\ ~ overlapped => Sound(job[j])
      /\ UNCHANGED << tables, provider, history >>
  BY DEF ExchangeFails, MailboxInv, Clean
<1>2. CASE job[j].kind # "callback"
  BY <1>1, <1>2, EndKeeps DEF ExchangeFails
<1>3. CASE job[j].kind = "callback"
  <2> DEFINE k == job'[j]
  <2>1. Goto(j, "consumes")
    BY <1>3 DEF ExchangeFails
  <2>2. /\ Moves(j, k) /\ k.pc = "consumes" /\ k.kind = "callback"
        /\ k.user = job[j].user /\ k.flow = job[j].flow
    BY <1>1, <1>3, <2>1, Going DEF Steps
  <2> HIDE DEF k
  <2>3. Shape(k) /\ (~ overlapped => Sound(k)) /\ \A f \in Flows : ~ Linking(k, f)
    BY <1>1, <1>3, <2>2 DEF Shape, Sound, Links, Linking
  <2> QED
    BY <1>1, <2>2, <2>3, StepKeeps
<1> QED
  BY <1>2, <1>3

LEMMA FetchEmailAddressKeeps ==
  ASSUME MailboxInv, NEW j \in Jobs, FetchEmailAddress(j)
  PROVE  MailboxInv'
<1>1. /\ MailboxTypeOK /\ job[j].pc = "fetches" /\ Shape(job[j])
      /\ ~ overlapped => Sound(job[j])
      /\ UNCHANGED << tables, provider, history >>
      /\ Goto(j, IF job[j].kind = "callback" THEN "looks" ELSE "upserts")
  BY DEF FetchEmailAddress, MailboxInv, Clean
<1> DEFINE k == job'[j]
<1>2. /\ Moves(j, k) /\ k.pc = (IF job[j].kind = "callback" THEN "looks" ELSE "upserts")
      /\ k.kind = job[j].kind /\ k.user = job[j].user /\ k.flow = job[j].flow
      /\ k.box = job[j].box /\ k.grant = job[j].grant
  BY <1>1, Going DEF Steps
<1> HIDE DEF k
<1>3. Shape(k) /\ (~ overlapped => Sound(k)) /\ \A f \in Flows : Linking(k, f) => Linking(job[j], f)
  BY <1>1, <1>2 DEF Shape, Sound, Links, Linking
<1> QED
  BY <1>1, <1>2, <1>3, StepKeeps

LEMMA FetchThrowsKeeps ==
  ASSUME MailboxInv, NEW j \in Jobs, FetchThrows(j)
  PROVE  MailboxInv'
  BY EndKeeps DEF FetchThrows

LEMMA FindOwnerKeeps ==
  ASSUME MailboxInv, NEW j \in Jobs, FindOwner(j)
  PROVE  MailboxInv'
<1> DEFINE was == IF conn[job[j].box].owner = job[j].user THEN NoUser
                  ELSE conn[job[j].box].owner
           k == [job[j] EXCEPT !.pc = "upserts", !.prev = was]
<1>1. /\ MailboxTypeOK /\ job[j] \in JobStates /\ Shape(job[j])
      /\ job[j].kind = "callback" /\ job[j].pc = "looks"
      /\ ~ overlapped => Sound(job[j])
      /\ UNCHANGED << tables, provider, history >>
  BY DEF FindOwner, At, MailboxInv, MailboxTypeOK, Clean
<1>2. job' = [job EXCEPT ![j] = k]
  BY DEF FindOwner
<1>3. was \in Users \cup { NoUser }
  BY <1>1 DEF Shape, Links, MailboxTypeOK, Connections
<1>4. /\ k \in JobStates /\ k.pc = "upserts" /\ k.prev = was
      /\ k.kind = "callback" /\ k.user = job[j].user /\ k.flow = job[j].flow
      /\ k.box = job[j].box /\ k.grant = job[j].grant
  <2> HIDE DEF was
  <2> QED
    BY <1>1, <1>3 DEF JobStates, Steps
<1>5. Moves(j, k)
  BY <1>2, <1>4 DEF Moves
<1> HIDE DEF k
<1>6. Shape(k) /\ (~ overlapped => Sound(k)) /\ \A f \in Flows : Linking(k, f) => Linking(job[j], f)
  BY <1>1, <1>4 DEF Shape, Sound, Links, Linking
<1> QED
  BY <1>1, <1>4, <1>5, <1>6, StepKeeps

LEMMA TellingKeeps ==
  ASSUME MailboxInv, NEW j \in Jobs,
         ResumeConversation(j) \/ ResumeFails(j) \/ AppendFixedText(j)
  PROVE  MailboxInv'
<1>1. /\ MailboxTypeOK /\ job[j].kind = "callback" /\ job[j].pc \in Tells /\ Shape(job[j])
      /\ UNCHANGED << tables, provider, history >>
  BY DEF ResumeConversation, ResumeFails, AppendFixedText, At, MailboxInv
<1> DEFINE k == job'[j]
<1>2. /\ Moves(j, k) /\ k.pc \in Tells
      /\ k.kind = "callback" /\ k.user = job[j].user /\ k.flow = job[j].flow
  <2>1. Goto(j, "pushes") \/ Goto(j, "fallsBack")
    BY DEF ResumeConversation, ResumeFails, AppendFixedText
  <2> QED
    BY <1>1, <2>1, Going DEF Steps
<1> HIDE DEF k
<1>3. Shape(k) /\ Sound(k) /\ \A f \in Flows : ~ Linking(k, f)
  BY <1>1, <1>2 DEF Shape, Sound, Links, Linking
<1> QED
  BY <1>1, <1>2, <1>3, StepKeeps

\* The job that goes on to the next provider.
LEMMA Nexting ==
  ASSUME MailboxTypeOK, NEW j \in Jobs, NextProvider(j)
  PROVE  LET k    == job'[j]
             rest == job[j].todo \ { Current(j) } IN
         /\ Moves(j, k)
         /\ k.pc = IF rest = {} THEN "records" ELSE "looks"
         /\ k.todo = rest
         /\ k.kind = job[j].kind /\ k.user = job[j].user /\ k.flow = job[j].flow
<1> DEFINE rest == job[j].todo \ { Current(j) }
           k == [job[j] EXCEPT !.todo = rest, !.box = NoMailbox, !.grant = 0,
                               !.pc = IF rest = {} THEN "records" ELSE "looks"]
<1>1. job[j] \in JobStates
  BY DEF MailboxTypeOK
<1>2. rest \in SUBSET Providers /\ 0 \in 0..MaxGrants
  BY <1>1, BoundsAssumption DEF JobStates
<1>3. job' = [job EXCEPT ![j] = k]
  BY DEF NextProvider
<1>4. /\ k \in JobStates /\ k.todo = rest /\ k.pc = IF rest = {} THEN "records" ELSE "looks"
      /\ k.kind = job[j].kind /\ k.user = job[j].user /\ k.flow = job[j].flow
  <2> HIDE DEF rest
  <2> QED
    BY <1>1, <1>2 DEF JobStates, Steps
<1> HIDE DEF k
<1>5. Moves(j, k) /\ job'[j] = k
  BY <1>3, <1>4 DEF Moves, MailboxTypeOK
<1> QED
  BY <1>4, <1>5

LEMMA FindConnectionKeeps ==
  ASSUME MailboxInv, NEW j \in Jobs, FindConnection(j)
  PROVE  MailboxInv'
<1>1. /\ MailboxTypeOK /\ job[j] \in JobStates /\ Shape(job[j])
      /\ job[j].kind \in { "disconnect", "forget" } /\ job[j].pc = "looks"
      /\ ~ overlapped => Sound(job[j])
      /\ UNCHANGED << tables, provider, history >>
  BY DEF FindConnection, MailboxInv, MailboxTypeOK, Clean
<1>2. ASSUME NEW box \in Of(job[j].user, Current(j)),
             job' = [job EXCEPT ![j].box = box, ![j].grant = conn[box].refresh,
                                ![j].pc = "revokes"]
      PROVE  MailboxInv'
  <2> DEFINE k == [job[j] EXCEPT !.box = box, !.grant = conn[box].refresh, !.pc = "revokes"]
  <2>1. /\ box \in Mailboxes /\ conn[box].owner = job[j].user /\ Provider(box) = Current(j)
        /\ conn[box].refresh \in 0..MaxGrants
    BY <1>1, <1>2 DEF Of, MailboxTypeOK, Connections
  <2>2. /\ k \in JobStates /\ k.pc = "revokes" /\ k.box = box
        /\ k.kind = job[j].kind /\ k.user = job[j].user /\ k.flow = job[j].flow
        /\ k.todo = job[j].todo
    BY <1>1, <2>1 DEF JobStates, Steps
  <2>3. job' = [job EXCEPT ![j] = k]
    BY <1>2
  <2>4. Moves(j, k)
    BY <2>2, <2>3 DEF Moves
  <2> HIDE DEF k
  <2>5. Shape(k) /\ (~ overlapped => Sound(k)) /\ \A f \in Flows : ~ Linking(k, f)
    BY <1>1, <2>1, <2>2 DEF Shape, Sound, Links, Linking, Current
  <2> QED
    BY <1>1, <2>2, <2>4, <2>5, StepKeeps
<1>3. ASSUME Of(job[j].user, Current(j)) = {}, job[j].kind = "forget", NextProvider(j)
      PROVE  MailboxInv'
  <2> DEFINE k == job'[j]
  <2>1. /\ Moves(j, k) /\ k.todo = job[j].todo \ { Current(j) }
        /\ k.pc = (IF k.todo = {} THEN "records" ELSE "looks")
        /\ k.kind = "forget" /\ k.user = job[j].user /\ k.flow = job[j].flow
    BY <1>1, <1>3, Nexting
  <2>2. ASSUME ~ overlapped, NEW box \in Mailboxes, conn[box].owner = job[j].user
        PROVE  Provider(box) \in job[j].todo \ { Current(j) }
    <3>1. Provider(box) \in job[j].todo
      BY <1>1, <1>3, <2>2 DEF Sound
    <3>2. Provider(box) # Current(j)
      BY <1>3, <2>2 DEF Of
    <3> QED
      BY <3>1, <3>2
  <2> HIDE DEF k
  <2>3. Shape(k) /\ \A f \in Flows : ~ Linking(k, f)
    BY <1>1, <2>1 DEF Shape, Links, Linking
  <2>4. ~ overlapped => Sound(k)
    BY <2>1, <2>2 DEF Sound, Links
  <2> QED
    BY <1>1, <2>1, <2>3, <2>4, StepKeeps
<1>4. CASE End(j)
  BY <1>1, <1>4, EndKeeps
<1> QED
  BY <1>2, <1>3, <1>4 DEF FindConnection

LEMMA RefreshAccessTokenKeeps ==
  ASSUME MailboxInv, NEW j \in Jobs, RefreshAccessToken(j)
  PROVE  MailboxInv'
<1>1. /\ MailboxTypeOK /\ job[j].kind = "scan" /\ job[j].pc = "refreshes" /\ Shape(job[j])
      /\ ~ overlapped => Sound(job[j])
      /\ UNCHANGED << tables, provider, history >>
  BY DEF RefreshAccessToken, At, MailboxInv, Clean
<1>2. CASE End(j)
  BY <1>1, <1>2, EndKeeps
<1>3. CASE Goto(j, "stores")
  <2> DEFINE k == job'[j]
  <2>1. /\ Moves(j, k) /\ k.pc = "stores" /\ k.kind = "scan"
        /\ k.user = job[j].user /\ k.box = job[j].box /\ k.grant = job[j].grant
    BY <1>1, <1>3, Going DEF Steps
  <2> HIDE DEF k
  <2>2. Shape(k) /\ (~ overlapped => Sound(k)) /\ \A f \in Flows : ~ Linking(k, f)
    BY <1>1, <2>1 DEF Shape, Sound, Links, Linking
  <2> QED
    BY <1>1, <2>1, <2>2, StepKeeps
<1> QED
  BY <1>2, <1>3 DEF RefreshAccessToken

-----------------------------------------------------------------------------
(***************************************************************************)
(* The steps that write.                                                   *)
(***************************************************************************)
\* While no jobs overlap, the one that moves is the only one.
LEMMA StaysAlone ==
  ASSUME MailboxInv, NEW j \in Jobs, NEW k, Moves(j, k), job[j].pc # "idle", ~ overlapped
  PROVE  /\ Single' /\ \A i \in Jobs \ { j } : job[i].pc = "idle"
         /\ \A i \in Jobs \ { j } : job'[i].pc = "idle"
<1>1. MailboxTypeOK /\ Single
  BY DEF MailboxInv, Clean
<1>2. Single' /\ \A i \in Jobs \ { j } : job[i].pc = "idle"
  BY <1>1, SingleStays DEF Single
<1> QED
  BY <1>1, <1>2, Moved

LEMMA BuildKeeps ==
  ASSUME MailboxInv, NEW u \in Users, NEW p \in Providers, BuildHostedAuthorizationUrl(u, p)
  PROVE  MailboxInv'
<1> DEFINE row == [state |-> "open", user |-> u, provider |-> p]
<1>1. PICK f \in Flows : flow[f].state = "none" /\ flow' = [flow EXCEPT ![f] = row]
  BY DEF BuildHostedAuthorizationUrl
<1>2. /\ UNCHANGED << conn, audit, job, live, grants, moved, uses, completed, announced, refused >>
      /\ UNCHANGED << leftover, overlapped, deaths >> /\ erased' = erased \ { u }
  BY DEF BuildHostedAuthorizationUrl, provider
<1>3. MailboxTypeOK /\ FlowsOwned /\ UsesCounted /\ (~ overlapped => Clean)
  BY DEF MailboxInv
<1>4. row \in FlowRows /\ row.state = "open" /\ row.user = u
  BY DEF FlowRows
<1> HIDE DEF row
<1>5. /\ flow' \in [Flows -> FlowRows] /\ flow'[f] = row
      /\ \A g \in Flows \ { f } : flow'[g] = flow[g]
  BY <1>1, <1>3, <1>4 DEF MailboxTypeOK
<1>6. MailboxTypeOK' /\ FlowsOwned'
  BY <1>2, <1>3, <1>4, <1>5 DEF MailboxTypeOK, FlowsOwned
<1>7. Announced' /\ \A i \in Jobs : Shape(job[i])'
  BY <1>2 DEF MailboxInv, Announced, Shape
<1>8. UsesCounted'
  <2> SUFFICES ASSUME NEW g \in Flows
               PROVE  /\ flow'[g].state # "consumed" => uses[g] <= deaths + Cardinality(Past(g))
                      /\ flow'[g].state = "consumed" =>
                           /\ uses[g] + Cardinality(Before(g)) <= deaths + Cardinality(Jobs)
                           /\ ~ overlapped => uses[g] <= deaths + 1 /\ Before(g) = {}
    BY <1>2 DEF UsesCounted, Past, Before
  <2>1. CASE g = f
    BY <1>1, <1>3, <1>4, <1>5, <2>1 DEF UsesCounted
  <2>2. CASE g # f
    BY <1>3, <1>5, <2>2 DEF UsesCounted
  <2> QED
    BY <2>1, <2>2
<1>9. ASSUME ~ overlapped' PROVE Clean'
  <2>1. Clean
    BY <1>2, <1>3, <1>9
  <2>2. Single' /\ AuditKept' /\ TokensKept'
    BY <1>2, <2>1 DEF Clean, Single, AuditKept, TokensKept
  <2>3. ErasedKept'
    BY <1>1, <1>2, <1>4, <1>5, <2>1 DEF Clean, ErasedKept
  <2>4. ASSUME NEW i \in Jobs PROVE Sound(job[i])'
    <3>1. Sound(job[i]) /\ Shape(job[i])
      BY <2>1 DEF Clean, MailboxInv
    <3> QED
      BY <1>1, <1>2, <1>5, <3>1 DEF Sound, Shape
  <2> QED
    BY <2>2, <2>3, <2>4 DEF Clean
<1> QED
  BY <1>6, <1>7, <1>8, <1>9 DEF MailboxInv

LEMMA ExchangeKeeps ==
  ASSUME MailboxInv, NEW j \in Jobs, Exchange(j)
  PROVE  MailboxInv'
<1> DEFINE k == [job[j] EXCEPT !.pc = "fetches", !.grant = grants']
<1>1. /\ MailboxTypeOK /\ FlowsOwned /\ job[j] \in JobStates /\ Shape(job[j])
      /\ job[j].pc = "exchanges"
      /\ ~ overlapped => Sound(job[j]) /\ AuditKept /\ TokensKept /\ ErasedKept
  BY DEF Exchange, MailboxInv, MailboxTypeOK, Clean
<1>2. /\ UNCHANGED << flow, conn, audit, moved, uses, completed, announced, refused >>
      /\ UNCHANGED << erased, leftover, overlapped, deaths >>
      /\ live' = [live EXCEPT ![job[j].box] = @ \cup { grants' }]
      /\ job' = [job EXCEPT ![j] = k]
  BY DEF Exchange, tables, history
<1>3. /\ grants' = grants + 1 /\ grants \in Nat /\ deaths \in Nat
      /\ grants' \in 1..MaxGrants /\ grants' \in 0..MaxGrants
  BY <1>1, BoundsAssumption DEF Exchange, MailboxTypeOK
<1>4. /\ k \in JobStates /\ k.pc = "fetches" /\ k.grant = grants'
      /\ k.kind = job[j].kind /\ k.user = job[j].user /\ k.flow = job[j].flow
      /\ k.box = job[j].box
  BY <1>1, <1>3 DEF JobStates, Steps
<1> HIDE DEF k
<1>5. Moves(j, k) /\ job'[j] = k /\ \A i \in Jobs \ { j } : job'[i] = job[i]
  BY <1>1, <1>2, <1>4, Moved DEF Moves
<1>6. job[j].box \in Mailboxes
  BY <1>1 DEF Shape, Links
<1>7. /\ live' \in [Mailboxes -> SUBSET (1..MaxGrants)]
      /\ live'[job[j].box] = live[job[j].box] \cup { grants' }
      /\ \A box \in Mailboxes : live[box] \subseteq live'[box]
  BY <1>1, <1>2, <1>3, <1>6 DEF MailboxTypeOK
<1>8. MailboxTypeOK' /\ FlowsOwned'
  BY <1>1, <1>2, <1>3, <1>5, <1>7, Moved DEF MailboxTypeOK, FlowsOwned
<1>9. Shape(job[j])'
  BY <1>1, <1>3, <1>4, <1>5 DEF Shape, Links
<1>10. Announced'
  BY <1>1, <1>2, <1>5, AnnouncedKept
<1>11. UsesCounted'
  <2>1. \A f \in Flows : ~ Linked(job[j], f) /\ (Linking(k, f) => Linking(job[j], f))
    BY <1>1, <1>4 DEF Linked, Linking, Links
  <2> QED
    BY <1>2, <1>5, <2>1, UsesKept
<1>12. ASSUME ~ overlapped'
       PROVE  /\ Single' /\ \A i \in Jobs \ { j } : job[i].pc = "idle"
              /\ Sound(job[j])' /\ AuditKept' /\ TokensKept' /\ ErasedKept'
  <2>1. Sound(job[j]) /\ AuditKept /\ TokensKept /\ ErasedKept
    BY <1>1, <1>2, <1>12
  <2>2. Single' /\ \A i \in Jobs \ { j } : job[i].pc = "idle"
    BY <1>1, <1>2, <1>5, <1>12, StaysAlone
  <2>3. \A m \in moved : m.grant \in Nat /\ m.grant <= grants
    BY <1>1, <2>1, Numbers DEF AuditKept
  <2>4. Sound(job[j])'
    <3>1. /\ k.grant \in live'[k.box] /\ k.grant <= grants'
          /\ \A m \in moved : m.grant # k.grant
      BY <1>3, <1>4, <1>7, <2>3
    <3>2. k.kind = "callback" => flow[k.flow].state = "open" /\ flow[k.flow].user = k.user
      BY <1>1, <1>4, <2>1 DEF Sound, Links
    <3>3. /\ job'[j].pc = "fetches" /\ job'[j].kind = k.kind /\ job'[j].grant = k.grant
          /\ job'[j].box = k.box /\ job'[j].flow = k.flow /\ job'[j].user = k.user
          /\ job'[j].kind \in { "callback", "local" }
      BY <1>1, <1>4, <1>5 DEF Shape
    <3> QED
      BY <1>2, <3>1, <3>2, <3>3 DEF Sound, Links
  <2>5. AuditKept'
    BY <1>1, <1>2, <1>3, <1>5, <2>1, <2>3 DEF AuditKept
  <2>6. TokensKept'
    BY <1>1, <1>2, <1>5, <1>7, <2>1 DEF TokensKept
  <2>7. ErasedKept'
    BY <1>2, <2>1 DEF ErasedKept
  <2> QED
    BY <2>2, <2>4, <2>5, <2>6, <2>7
<1> QED
  BY <1>2, <1>5, <1>8, <1>9, <1>10, <1>11, <1>12, Assembled

LEMMA AuditKeeps ==
  ASSUME MailboxInv, NEW j \in Jobs, Audit(j)
  PROVE  MailboxInv'
<1> DEFINE entry == [grant |-> job[j].grant, from |-> job[j].prev]
           k == job'[j]
<1>1. /\ MailboxTypeOK /\ FlowsOwned /\ Shape(job[j])
      /\ job[j].kind = "callback" /\ job[j].pc = "audits"
      /\ ~ overlapped => Sound(job[j]) /\ AuditKept /\ TokensKept /\ ErasedKept
  BY DEF Audit, At, MailboxInv, Clean
<1>2. /\ UNCHANGED << flow, conn, live, grants, moved, uses, completed, announced, refused >>
      /\ UNCHANGED << erased, leftover, overlapped, deaths >>
      /\ audit' = (IF overlapped THEN audit ELSE audit \cup { entry })
      /\ Goto(j, "consumes")
  BY DEF Audit, provider, history
<1>3. /\ Moves(j, k) /\ k.pc = "consumes" /\ k.kind = "callback"
      /\ k.user = job[j].user /\ k.flow = job[j].flow /\ k.ok = job[j].ok
      /\ \A i \in Jobs \ { j } : job'[i] = job[i]
  BY <1>1, <1>2, Going, Moved DEF Steps
<1>4. entry \in [ grant : 1..MaxGrants, from : Users ] /\ entry.grant = job[j].grant
  BY <1>1 DEF Shape
<1> HIDE DEF entry
<1>5. MailboxTypeOK' /\ FlowsOwned'
  BY <1>1, <1>2, <1>3, <1>4, Moved DEF MailboxTypeOK, FlowsOwned
<1>6. Shape(job[j])'
  BY <1>1, <1>3 DEF Shape, Links
<1>7. Announced'
  <2>1. deaths' \in { deaths, deaths + 1 }
    BY <1>2
  <2> QED
    BY <1>1, <1>2, <1>3, <2>1, AnnouncedKept
<1>8. UsesCounted'
  <2>1. \A f \in Flows : ~ Linking(k, f) /\ (Linked(job[j], f) => Linked(k, f))
    BY <1>1, <1>3 DEF Linked, Linking, Links
  <2> QED
    BY <1>2, <1>3, <2>1, UsesKept
<1>9. ASSUME ~ overlapped'
      PROVE  /\ Single' /\ \A i \in Jobs \ { j } : job[i].pc = "idle"
             /\ Sound(job[j])' /\ AuditKept' /\ TokensKept' /\ ErasedKept'
  <2>1. Sound(job[j]) /\ AuditKept /\ TokensKept /\ ErasedKept
    BY <1>1, <1>2, <1>9
  <2>2. Single' /\ \A i \in Jobs \ { j } : job[i].pc = "idle"
    BY <1>1, <1>2, <1>3, <1>9, StaysAlone
  <2>3. Sound(job[j])'
    BY <1>1, <1>2, <1>3, <2>1 DEF Sound, Links
  <2>4. AuditKept'
    <3>1. entry \in moved
      BY <1>1, <2>1 DEF Sound, entry
    <3>2. ASSUME deaths = 0, NEW m \in moved \ audit'
          PROVE  \E i \in Jobs : job'[i].kind = "callback" /\ job'[i].pc = "audits" /\ job'[i].grant = m.grant
      <4>1. PICK i \in Jobs : job[i].kind = "callback" /\ job[i].pc = "audits" /\ job[i].grant = m.grant
        BY <1>2, <1>9, <2>1, <3>2 DEF AuditKept
      <4>2. m # entry
        BY <1>2, <1>9, <3>2
      <4>3. i # j
        BY <1>4, <2>1, <3>1, <4>1, <4>2 DEF AuditKept
      <4> QED
        BY <1>3, <4>1, <4>3
    <3> QED
      BY <1>2, <1>9, <2>1, <3>1, <3>2 DEF AuditKept
  <2>5. TokensKept'
    BY <1>1, <1>2, <1>3, <2>1 DEF TokensKept
  <2>6. ErasedKept'
    BY <1>2, <2>1 DEF ErasedKept
  <2> QED
    BY <2>2, <2>3, <2>4, <2>5, <2>6
<1> QED
  BY <1>2, <1>3, <1>5, <1>6, <1>7, <1>8, <1>9, Assembled

\* The chat is told, by the agent or by the fixed text.
LEMMA TellsKeeps ==
  ASSUME MailboxInv, NEW j \in Jobs, NoIdentity(j) \/ Push(j) \/ PushFails(j)
  PROVE  MailboxInv'
<1>1. /\ MailboxTypeOK /\ FlowsOwned /\ Shape(job[j])
      /\ job[j].kind = "callback" /\ job[j].pc \in Tells
      /\ ~ overlapped => AuditKept /\ TokensKept /\ ErasedKept
  BY DEF NoIdentity, Push, PushFails, At, MailboxInv, Clean
<1>2. /\ UNCHANGED << flow, conn, audit, live, grants, moved, uses, completed >>
      /\ UNCHANGED << erased, leftover, overlapped, deaths >>
      /\ announced' \cup refused' = announced \cup refused \cup { job[j].flow }
      /\ announced \subseteq announced' /\ refused \subseteq refused'
      /\ End(j)
  BY DEF NoIdentity, Push, PushFails, tables, provider
<1>3. /\ job'[j] = Idle /\ Moves(j, job'[j]) /\ \A i \in Jobs \ { j } : job'[i] = job[i]
  BY <1>1, <1>2, Ending, Moved
<1>4. MailboxTypeOK' /\ FlowsOwned'
  <2>1. job[j].flow \in Flows
    BY <1>1 DEF Shape
  <2> QED
    BY <1>1, <1>2, <1>3, <2>1, Moved DEF MailboxTypeOK, FlowsOwned
<1>5. Shape(job[j])' /\ job'[j].pc = "idle"
  BY <1>3, IdleIs DEF Shape, Links
<1>6. Announced'
  <2>1. Announced
    BY DEF MailboxInv
  <2> QED
    BY <1>2, <1>3, <2>1 DEF Announced
<1>7. UsesCounted'
  <2>1. \A f \in Flows : ~ Linked(job[j], f) /\ ~ Linking(job'[j], f)
    BY <1>1, <1>3, IdleIs DEF Linked, Linking, Links
  <2> QED
    BY <1>2, <1>3, <2>1, UsesKept
<1>8. ASSUME ~ overlapped'
      PROVE  /\ Single' /\ \A i \in Jobs \ { j } : job[i].pc = "idle"
             /\ AuditKept' /\ TokensKept' /\ ErasedKept'
  <2>1. AuditKept /\ TokensKept /\ ErasedKept
    BY <1>1, <1>2, <1>8
  <2>2. Single' /\ \A i \in Jobs \ { j } : job[i].pc = "idle"
    BY <1>1, <1>2, <1>3, <1>8, StaysAlone
  <2>3. AuditKept' /\ TokensKept' /\ ErasedKept'
    BY <1>1, <1>2, <1>3, <2>1 DEF AuditKept, TokensKept, ErasedKept
  <2> QED
    BY <2>2, <2>3
<1> QED
  BY <1>2, <1>3, <1>4, <1>5, <1>6, <1>7, <1>8, Assembled

LEMMA RevokeTokenKeeps ==
  ASSUME MailboxInv, NEW j \in Jobs, RevokeToken(j)
  PROVE  MailboxInv'
<1> DEFINE k == job'[j]
<1>1. /\ MailboxTypeOK /\ FlowsOwned /\ Shape(job[j]) /\ job[j].pc = "revokes"
      /\ ~ overlapped => Sound(job[j]) /\ AuditKept /\ TokensKept /\ ErasedKept
  BY DEF RevokeToken, MailboxInv, Clean
<1>2. /\ UNCHANGED << flow, conn, audit, grants, moved, uses, completed, announced, refused >>
      /\ UNCHANGED << erased, leftover, overlapped, deaths >>
      /\ Goto(j, "deletes")
      /\ live' = live \/ live' = [live EXCEPT ![job[j].box] = {}]
  BY DEF RevokeToken, tables, history
<1>3. /\ Moves(j, k) /\ k.pc = "deletes" /\ k.kind = job[j].kind /\ k.todo = job[j].todo
      /\ k.user = job[j].user /\ k.flow = job[j].flow /\ k.box = job[j].box
      /\ \A i \in Jobs \ { j } : job'[i] = job[i]
  BY <1>1, <1>2, Going, Moved DEF Steps
<1>4. /\ live' \in [Mailboxes -> SUBSET (1..MaxGrants)]
      /\ \A box \in Mailboxes \ { job[j].box } : live'[box] = live[box]
  BY <1>1, <1>2 DEF MailboxTypeOK
<1>5. MailboxTypeOK' /\ FlowsOwned'
  BY <1>1, <1>2, <1>3, <1>4, Moved DEF MailboxTypeOK, FlowsOwned
<1>6. Shape(job[j])'
  BY <1>1, <1>3 DEF Shape, Links
<1>7. Announced'
  <2>1. deaths' \in { deaths, deaths + 1 }
    BY <1>2
  <2> QED
    BY <1>1, <1>2, <1>3, <2>1, AnnouncedKept
<1>8. UsesCounted'
  <2>1. \A f \in Flows : ~ Linking(k, f) /\ ~ Linked(job[j], f)
    BY <1>1, <1>3 DEF Linked, Linking, Links
  <2> QED
    BY <1>2, <1>3, <2>1, UsesKept
<1>9. ASSUME ~ overlapped'
      PROVE  /\ Single' /\ \A i \in Jobs \ { j } : job[i].pc = "idle"
             /\ Sound(job[j])' /\ AuditKept' /\ TokensKept' /\ ErasedKept'
  <2>1. Sound(job[j]) /\ AuditKept /\ TokensKept /\ ErasedKept
    BY <1>1, <1>2, <1>9
  <2>2. Single' /\ \A i \in Jobs \ { j } : job[i].pc = "idle"
    BY <1>1, <1>2, <1>3, <1>9, StaysAlone
  <2>3. Sound(job[j])'
    BY <1>1, <1>2, <1>3, <2>1 DEF Sound, Shape, Links
  <2>4. AuditKept' /\ ErasedKept'
    BY <1>1, <1>2, <1>3, <2>1 DEF AuditKept, ErasedKept
  <2>5. TokensKept'
    BY <1>1, <1>2, <1>3, <1>4, <2>1 DEF TokensKept
  <2> QED
    BY <2>2, <2>3, <2>4, <2>5
<1> QED
  BY <1>2, <1>3, <1>5, <1>6, <1>7, <1>8, <1>9, Assembled

LEMMA DeleteConnectionsKeeps ==
  ASSUME MailboxInv, NEW j \in Jobs, DeleteConnections(j)
  PROVE  MailboxInv'
<1> DEFINE k == job'[j]
           gone == Of(job[j].user, Current(j))
<1>1. /\ MailboxTypeOK /\ FlowsOwned /\ Shape(job[j]) /\ job[j].pc = "deletes"
      /\ job[j].kind \in { "disconnect", "forget" }
      /\ ~ overlapped => Sound(job[j]) /\ AuditKept /\ TokensKept /\ ErasedKept
  BY DEF DeleteConnections, MailboxInv, Clean, Shape
<1>2. /\ UNCHANGED << flow, audit, live, grants, moved, uses, completed, announced, refused >>
      /\ UNCHANGED << erased, leftover, overlapped, deaths >>
      /\ NextProvider(j)
      /\ conn' = [box \in Mailboxes |-> IF box \in gone THEN NoConnection ELSE conn[box]]
  BY DEF DeleteConnections, provider, history
<1>3. /\ Moves(j, k) /\ k.todo = job[j].todo \ { Current(j) }
      /\ k.pc = (IF k.todo = {} THEN "records" ELSE "looks")
      /\ k.kind = job[j].kind /\ k.user = job[j].user /\ k.flow = job[j].flow
      /\ \A i \in Jobs \ { j } : job'[i] = job[i]
  BY <1>1, <1>2, Nexting, Moved
<1>4. \A box \in Mailboxes :
        conn'[box] = IF box \in gone THEN NoConnection ELSE conn[box]
  BY <1>2
<1>5. \A box \in Mailboxes :
        box \in gone <=> conn[box].owner = job[j].user /\ Provider(box) = Current(j)
  BY DEF Of
<1> HIDE DEF gone
<1>6. MailboxTypeOK' /\ FlowsOwned'
  <2>1. conn' \in [Mailboxes -> Connections]
        /\ \A box \in Mailboxes : conn'[box].owner = NoUser => conn'[box] = NoConnection
    BY <1>1, <1>2, <1>4, NoConnectionTyped DEF MailboxTypeOK
  <2> QED
    BY <1>1, <1>2, <1>3, <2>1, Moved DEF MailboxTypeOK, FlowsOwned
<1>7. Shape(job[j])'
  BY <1>1, <1>3 DEF Shape, Links
<1>8. Announced'
  <2>1. deaths' \in { deaths, deaths + 1 }
    BY <1>2
  <2> QED
    BY <1>1, <1>2, <1>3, <2>1, AnnouncedKept
<1>9. UsesCounted'
  <2>1. \A f \in Flows : ~ Linking(k, f) /\ ~ Linked(job[j], f)
    BY <1>1, <1>3 DEF Linked, Linking, Links
  <2> QED
    BY <1>2, <1>3, <2>1, UsesKept
<1>10. ASSUME ~ overlapped'
       PROVE  /\ Single' /\ \A i \in Jobs \ { j } : job[i].pc = "idle"
              /\ Sound(job[j])' /\ AuditKept' /\ TokensKept' /\ ErasedKept'
  <2>1. Sound(job[j]) /\ AuditKept /\ TokensKept /\ ErasedKept
    BY <1>1, <1>2, <1>10
  <2>2. Single' /\ \A i \in Jobs \ { j } : job[i].pc = "idle" /\ job'[i].pc = "idle"
    BY <1>1, <1>2, <1>3, <1>10, StaysAlone
  <2>3. job[j].user \in Users /\ job[j].user # NoUser
    BY <1>1, UsersAssumption DEF Shape
  <2>4. Sound(job[j])'
    <3>1. ASSUME k.kind = "forget", NEW box \in Mailboxes, conn'[box].owner = k.user
          PROVE  Provider(box) \in k.todo
      <4>1. box \notin gone /\ conn[box].owner = job[j].user
        BY <1>3, <1>4, <2>3, <3>1, NoConnectionTyped
      <4>2. Provider(box) \in job[j].todo
        BY <1>1, <1>3, <2>1, <3>1, <4>1 DEF Sound
      <4> QED
        BY <1>3, <1>5, <4>1, <4>2
    <3> QED
      BY <1>1, <1>3, <3>1 DEF Sound, Links
  <2>5. AuditKept'
    BY <1>1, <1>2, <1>3, <2>1 DEF AuditKept
  <2>6. TokensKept'
    <3> SUFFICES ASSUME deaths = 0, NEW box \in Mailboxes, conn'[box].owner # NoUser
                 PROVE  conn'[box].access = conn'[box].refresh /\ conn'[box].refresh \in live[box]
      BY <1>2 DEF TokensKept
    <3>1. box \notin gone /\ conn'[box] = conn[box] /\ conn[box].owner # NoUser
      BY <1>4, NoConnectionTyped
    <3>2. ~ (job[j].box = box)
      BY <1>1, <1>5, <2>1, <3>1 DEF Sound, Current
    <3>3. \A i \in Jobs : ~ (job[i].pc = "deletes" /\ job[i].box = box)
      BY <2>2, <3>2
    <3> QED
      BY <2>1, <3>1, <3>3 DEF TokensKept
  <2>7. ErasedKept'
    BY <1>1, <1>2, <1>4, <2>1, NoConnectionTyped, UsersAssumption DEF ErasedKept, MailboxTypeOK
  <2> QED
    BY <2>2, <2>4, <2>5, <2>6, <2>7
<1> QED
  BY <1>2, <1>3, <1>6, <1>7, <1>8, <1>9, <1>10, Assembled

LEMMA RecordKeeps ==
  ASSUME MailboxInv, NEW j \in Jobs, Record(j)
  PROVE  MailboxInv'
<1> DEFINE open == { f \in Flows : flow[f].user = job[j].user /\ flow[f].state = "open" }
           forgets == job[j].kind = "forget" /\ ~ overlapped
<1>1. /\ MailboxTypeOK /\ FlowsOwned /\ Shape(job[j]) /\ job[j].pc = "records"
      /\ ~ overlapped => Sound(job[j]) /\ AuditKept /\ TokensKept /\ ErasedKept
  BY DEF Record, MailboxInv, Clean
<1>2. /\ UNCHANGED << flow, conn, audit, live, grants, moved, uses, completed, announced, refused >>
      /\ UNCHANGED << overlapped, deaths >>
      /\ forgets => erased' = erased \cup { job[j].user } /\ leftover' = leftover \cup open
      /\ ~ forgets => UNCHANGED << erased, leftover >>
      /\ End(j)
  BY DEF Record, tables, provider
<1>3. /\ job'[j] = Idle /\ Moves(j, job'[j]) /\ \A i \in Jobs \ { j } : job'[i] = job[i]
  BY <1>1, <1>2, Ending, Moved
<1>4. MailboxTypeOK' /\ FlowsOwned'
  <2>1. job[j].user \in Users /\ open \subseteq Flows
    BY <1>1 DEF Shape
  <2>2. erased' \subseteq Users /\ leftover' \subseteq Flows
    BY <1>1, <1>2, <2>1 DEF MailboxTypeOK
  <2> QED
    BY <1>1, <1>2, <1>3, <2>2, Moved DEF MailboxTypeOK, FlowsOwned
<1>5. Shape(job[j])' /\ job'[j].pc = "idle"
  BY <1>3, IdleIs DEF Shape, Links
<1>6. Announced'
  <2>1. deaths' \in { deaths, deaths + 1 }
    BY <1>2
  <2> QED
    BY <1>1, <1>2, <1>3, <2>1, AnnouncedKept
<1>7. UsesCounted'
  <2>1. \A f \in Flows : ~ Linked(job[j], f) /\ ~ Linking(job'[j], f)
    BY <1>1, <1>3, IdleIs DEF Linked, Linking, Links
  <2> QED
    BY <1>2, <1>3, <2>1, UsesKept
<1>8. ASSUME ~ overlapped'
      PROVE  /\ Single' /\ \A i \in Jobs \ { j } : job[i].pc = "idle"
             /\ AuditKept' /\ TokensKept' /\ ErasedKept'
  <2>1. Sound(job[j]) /\ AuditKept /\ TokensKept /\ ErasedKept /\ ~ overlapped
    BY <1>1, <1>2, <1>8
  <2>2. Single' /\ \A i \in Jobs \ { j } : job[i].pc = "idle"
    BY <1>1, <1>2, <1>3, <1>8, StaysAlone
  <2>3. AuditKept' /\ TokensKept'
    BY <1>1, <1>2, <1>3, <2>1 DEF AuditKept, TokensKept
  <2>4. ErasedKept'
    <3>1. CASE ~ forgets
      BY <1>2, <2>1, <3>1 DEF ErasedKept
    <3>2. CASE forgets
      <4>1. \A box \in Mailboxes : conn[box].owner # job[j].user
        BY <1>1, <2>1, <3>2 DEF Shape, Sound
      <4> QED
        BY <1>2, <2>1, <3>2, <4>1 DEF ErasedKept
    <3> QED
      BY <3>1, <3>2
  <2> QED
    BY <2>2, <2>3, <2>4
<1> QED
  BY <1>2, <1>3, <1>4, <1>5, <1>6, <1>7, <1>8, Assembled

LEMMA UpdateAccessTokenKeeps ==
  ASSUME MailboxInv, NEW j \in Jobs, UpdateAccessToken(j)
  PROVE  MailboxInv'
<1> DEFINE b == job[j].box
           row == IF conn[b].owner = NoUser THEN conn[b]
                  ELSE [conn[b] EXCEPT !.access = job[j].grant]
<1>1. /\ MailboxTypeOK /\ FlowsOwned /\ job[j] \in JobStates /\ Shape(job[j])
      /\ job[j].kind = "scan" /\ job[j].pc = "stores"
      /\ ~ overlapped => Sound(job[j]) /\ AuditKept /\ TokensKept /\ ErasedKept
  BY DEF UpdateAccessToken, At, MailboxInv, MailboxTypeOK, Clean
<1>2. /\ UNCHANGED << flow, audit, live, grants, moved, uses, completed, announced, refused >>
      /\ UNCHANGED << erased, leftover, overlapped, deaths >>
      /\ End(j) /\ conn' = [conn EXCEPT ![b] = row]
  BY DEF UpdateAccessToken, provider, history
<1>3. /\ job'[j] = Idle /\ Moves(j, job'[j]) /\ \A i \in Jobs \ { j } : job'[i] = job[i]
  BY <1>1, <1>2, Ending, Moved
<1>4. /\ b \in Mailboxes /\ conn[b] \in Connections /\ job[j].grant \in 0..MaxGrants
  BY <1>1 DEF Shape, MailboxTypeOK, JobStates
<1>5. /\ row \in Connections /\ row.owner = conn[b].owner /\ row.flow = conn[b].flow
      /\ row.refresh = conn[b].refresh
      /\ conn[b].owner # NoUser => row.access = job[j].grant
      /\ conn[b].owner = NoUser => row = conn[b]
  <2> HIDE DEF b
  <2> QED
    BY <1>4 DEF Connections
<1> HIDE DEF row, b
<1>6. /\ conn' \in [Mailboxes -> Connections] /\ conn'[b] = row
      /\ \A box \in Mailboxes \ { b } : conn'[box] = conn[box]
  BY <1>1, <1>2, <1>4, <1>5 DEF MailboxTypeOK
<1>7. MailboxTypeOK' /\ FlowsOwned'
  <2>1. \A box \in Mailboxes : conn'[box].owner = NoUser => conn'[box] = NoConnection
    BY <1>1, <1>4, <1>5, <1>6 DEF MailboxTypeOK
  <2> QED
    BY <1>1, <1>2, <1>3, <1>6, <2>1, Moved DEF MailboxTypeOK, FlowsOwned
<1>8. Shape(job[j])' /\ job'[j].pc = "idle"
  BY <1>3, IdleIs DEF Shape, Links
<1>9. Announced'
  <2>1. deaths' \in { deaths, deaths + 1 }
    BY <1>2
  <2> QED
    BY <1>1, <1>2, <1>3, <2>1, AnnouncedKept
<1>10. UsesCounted'
  <2>1. \A f \in Flows : ~ Linked(job[j], f) /\ ~ Linking(job'[j], f)
    BY <1>1, <1>3, IdleIs DEF Linked, Linking, Links
  <2> QED
    BY <1>2, <1>3, <2>1, UsesKept
<1>11. ASSUME ~ overlapped'
       PROVE  /\ Single' /\ \A i \in Jobs \ { j } : job[i].pc = "idle"
              /\ AuditKept' /\ TokensKept' /\ ErasedKept'
  <2>1. Sound(job[j]) /\ AuditKept /\ TokensKept /\ ErasedKept
    BY <1>1, <1>2, <1>11
  <2>2. Single' /\ \A i \in Jobs \ { j } : job[i].pc = "idle"
    BY <1>1, <1>2, <1>3, <1>11, StaysAlone
  <2>3. AuditKept'
    BY <1>1, <1>2, <1>3, <2>1 DEF AuditKept
  <2>4. job[j].grant = conn[b].refresh
    BY <1>1, <2>1 DEF Sound, b
  <2>5. TokensKept'
    BY <1>1, <1>2, <1>3, <1>4, <1>5, <1>6, <2>1, <2>4 DEF TokensKept
  <2>6. ErasedKept'
    BY <1>2, <1>4, <1>5, <1>6, <2>1 DEF ErasedKept
  <2> QED
    BY <2>2, <2>3, <2>5, <2>6
<1> QED
  BY <1>2, <1>3, <1>7, <1>8, <1>9, <1>10, <1>11, Assembled

LEMMA UpsertKeeps ==
  ASSUME MailboxInv, NEW j \in Jobs, Upsert(j)
  PROVE  MailboxInv'
<1> DEFINE me == job[j]
           b == me.box
           had == conn[b].owner
           row == [owner |-> me.user, flow |-> me.flow, refresh |-> me.grant,
                   access |-> me.grant]
           entry == [grant |-> me.grant, from |-> had]
           taken == me.kind = "callback" /\ had \notin { NoUser, me.user } /\ ~ overlapped
           k == job'[j]
<1>1. /\ MailboxTypeOK /\ FlowsOwned /\ UsesCounted /\ me \in JobStates /\ Shape(me)
      /\ me.pc = "upserts" /\ me.kind \in { "callback", "local" }
      /\ ~ overlapped => Sound(me) /\ AuditKept /\ TokensKept /\ ErasedKept
  BY DEF Upsert, MailboxInv, MailboxTypeOK, Clean, Shape
<1>2. /\ UNCHANGED << flow, audit, live, grants, completed, announced, refused, erased, leftover >>
      /\ UNCHANGED << overlapped, deaths >>
      /\ conn' = [conn EXCEPT ![b] = row]
      /\ moved' = IF taken THEN moved \cup { entry } ELSE moved
      /\ uses' = IF me.kind = "callback" THEN [uses EXCEPT ![me.flow] = @ + 1] ELSE uses
  BY DEF Upsert, provider
<1>3. /\ b \in Mailboxes /\ me.user \in Users /\ me.user # NoUser /\ me.grant \in 1..MaxGrants
      /\ me.grant \in 0..MaxGrants /\ had \in Users \cup { NoUser }
      /\ me.kind = "callback" => me.flow \in Flows
      /\ me.kind = "local" => me.flow = NoFlow
  <2>1. /\ b \in Mailboxes /\ me.user \in Users /\ me.grant \in 1..MaxGrants
        /\ me.kind = "callback" => me.flow \in Flows
        /\ me.kind = "local" => me.flow = NoFlow
    BY <1>1 DEF Shape, Links
  <2> HIDE DEF me, b
  <2>2. me.grant \in 0..MaxGrants /\ had \in Users \cup { NoUser }
    BY <1>1, <2>1, BoundsAssumption DEF MailboxTypeOK, Connections
  <2> QED
    BY <2>1, <2>2, UsersAssumption
<1>4. /\ Moves(j, k) /\ \A i \in Jobs \ { j } : job'[i] = job[i]
      /\ me.kind = "local" => k = Idle
      /\ me.kind = "callback" =>
           /\ k.kind = "callback" /\ k.ok = TRUE /\ k.user = me.user /\ k.flow = me.flow
           /\ k.grant = me.grant /\ k.prev = me.prev
           /\ k.pc = IF me.prev = NoUser THEN "consumes" ELSE "audits"
  <2>1. CASE me.kind = "local"
    <3>1. End(j)
      BY <2>1 DEF Upsert
    <3> QED
      BY <1>1, <2>1, <3>1, Ending, Moved
  <2>2. CASE me.kind = "callback"
    <3> DEFINE s == [me EXCEPT !.ok = TRUE,
                               !.pc = IF me.prev = NoUser THEN "consumes" ELSE "audits"]
    <3>1. job' = [job EXCEPT ![j] = s]
      BY <2>2 DEF Upsert
    <3>2. /\ s \in JobStates /\ s.kind = "callback" /\ s.ok = TRUE /\ s.user = me.user
          /\ s.flow = me.flow /\ s.grant = me.grant /\ s.prev = me.prev
          /\ s.pc = IF me.prev = NoUser THEN "consumes" ELSE "audits"
      <4> HIDE DEF me
      <4> QED
        BY <1>1, <2>2 DEF JobStates, Steps
    <3> HIDE DEF s
    <3>3. Moves(j, s)
      BY <3>1, <3>2 DEF Moves
    <3>4. k = s /\ \A i \in Jobs \ { j } : job'[i] = job[i]
      BY <1>1, <3>3, Moved
    <3> QED
      BY <2>2, <3>2, <3>3, <3>4
  <2> QED
    BY <1>1, <2>1, <2>2
<1>5. /\ row \in Connections /\ row.owner = me.user /\ row.flow = me.flow
      /\ row.refresh = me.grant /\ row.access = me.grant
  <2> HIDE DEF me
  <2> QED
    BY <1>1, <1>3 DEF Connections, JobStates
<1>6. /\ taken => entry \in [ grant : 1..MaxGrants, from : Users ]
      /\ entry.grant = me.grant /\ entry.from = had
  <2> HIDE DEF me, had
  <2> QED
    BY <1>3
<1> HIDE DEF row, entry
<1>7. /\ conn' \in [Mailboxes -> Connections] /\ conn'[b] = row
      /\ \A box \in Mailboxes \ { b } : conn'[box] = conn[box]
  <2> HIDE DEF b
  <2> QED
    BY <1>1, <1>2, <1>3, <1>5 DEF MailboxTypeOK
<1>8. /\ uses' \in [Flows -> Nat]
      /\ me.kind = "callback" => uses'[me.flow] = uses[me.flow] + 1
      /\ \A g \in Flows : me.kind = "local" \/ g # me.flow => uses'[g] = uses[g]
  <2> HIDE DEF me
  <2> QED
    BY <1>1, <1>2, <1>3 DEF MailboxTypeOK
<1>9. MailboxTypeOK' /\ FlowsOwned'
  <2>1. \A box \in Mailboxes : conn'[box].owner = NoUser => conn'[box] = NoConnection
    <3> HIDE DEF me, b
    <3> QED
      BY <1>1, <1>3, <1>5, <1>7 DEF MailboxTypeOK
  <2>2. moved' \cup audit' \subseteq [ grant : 1..MaxGrants, from : Users ]
    <3> HIDE DEF taken
    <3> QED
      BY <1>1, <1>2, <1>6 DEF MailboxTypeOK
  <2>3. job' \in [Jobs -> JobStates]
    BY <1>1, <1>4, Moved
  <2> HIDE DEF me, taken, b
  <2> QED
    BY <1>1, <1>2, <1>7, <1>8, <2>1, <2>2, <2>3 DEF MailboxTypeOK, FlowsOwned
<1>10. Shape(k)
  <2>1. CASE me.kind = "local"
    BY <1>4, <2>1, IdleIs
  <2>2. CASE me.kind = "callback"
    <3>1. me.prev # NoUser => me.prev \in Users
      BY <1>1 DEF JobStates
    <3> HIDE DEF me, k
    <3> QED
      BY <1>3, <1>4, <2>2, <3>1 DEF Shape, Links
  <2> QED
    BY <1>1, <2>1, <2>2
<1>11. Shape(job[j])'
  BY <1>10 DEF Shape
<1>12. Announced'
  <2>1. deaths' \in { deaths, deaths + 1 }
    BY <1>2
  <2> QED
    BY <1>1, <1>2, <1>4, <2>1, AnnouncedKept
<1>13. UsesCounted'
  <2> SUFFICES ASSUME NEW g \in Flows
               PROVE  /\ flow[g].state # "consumed" => uses'[g] <= deaths + Cardinality(Past(g)')
                      /\ flow[g].state = "consumed" =>
                           /\ uses'[g] + Cardinality(Before(g)') <= deaths + Cardinality(Jobs)
                           /\ ~ overlapped => uses'[g] <= deaths + 1 /\ Before(g)' = {}
    BY <1>2 DEF UsesCounted
  <2>1. /\ flow[g].state # "consumed" => uses[g] <= deaths + Cardinality(Past(g))
        /\ flow[g].state = "consumed" =>
             /\ uses[g] + Cardinality(Before(g)) <= deaths + Cardinality(Jobs)
             /\ ~ overlapped => uses[g] <= deaths + 1 /\ Before(g) = {}
    BY <1>1 DEF UsesCounted
  <2>2. CASE me.kind = "local" \/ g # me.flow
    <3>1. /\ ~ Linking(me, g) /\ ~ Linked(me, g) /\ ~ Linking(k, g) /\ ~ Linked(k, g)
      <4> HIDE DEF me, k
      <4> QED
        BY <1>1, <1>4, <2>2, IdleIs DEF Linking, Linked
    <3>2. Past(g)' = Past(g)
      BY <1>4, <3>1 DEF Past
    <3>3. Before(g)' = Before(g)
      BY <1>4, <3>1 DEF Before
    <3> HIDE DEF me
    <3> QED
      BY <1>8, <2>1, <2>2, <3>2, <3>3
  <2>3. CASE me.kind = "callback" /\ g = me.flow
    <3>1. /\ Linking(me, g) /\ ~ Linked(me, g) /\ ~ Linking(k, g) /\ Linked(k, g)
      <4> HIDE DEF me, k
      <4> QED
        BY <1>1, <1>4, <2>3 DEF Linking, Linked, Links
    <3>2. Past(g)' = Past(g) \cup { j } /\ j \notin Past(g)
      BY <1>4, <3>1 DEF Past
    <3>3. Before(g)' = Before(g) \ { j } /\ j \in Before(g)
      BY <1>4, <3>1 DEF Before
    <3>4. Cardinality(Past(g)') = Cardinality(Past(g)) + 1
      BY <3>2, Counted, FS_AddElement
    <3>5. Cardinality(Before(g)') = Cardinality(Before(g)) - 1
      BY <3>3, Counted, FS_RemoveElement
    <3>6. uses'[g] = uses[g] + 1 /\ uses[g] \in Nat /\ deaths \in Nat
      BY <1>1, <1>8, <2>3, Numbers
    <3>7. Cardinality(Past(g)) \in Nat /\ Cardinality(Before(g)) \in Nat /\ Cardinality(Jobs) \in Nat
      BY Counted
    <3>8. CASE flow[g].state # "consumed"
      BY <2>1, <3>4, <3>6, <3>7, <3>8
    <3>9. CASE flow[g].state = "consumed"
      <4>1. overlapped
        BY <2>1, <3>3, <3>9
      <4> QED
        BY <2>1, <3>5, <3>6, <3>7, <3>9, <4>1
    <3> QED
      BY <3>8, <3>9
  <2> QED
    BY <1>1, <2>2, <2>3
<1>14. ASSUME ~ overlapped'
       PROVE  /\ Single' /\ \A i \in Jobs \ { j } : job[i].pc = "idle"
              /\ k.pc # "idle" => Sound(job[j])'
              /\ AuditKept' /\ TokensKept' /\ ErasedKept'
  <2>1. Sound(me) /\ AuditKept /\ TokensKept /\ ErasedKept /\ ~ overlapped
    BY <1>1, <1>2, <1>14
  <2>2. Single' /\ \A i \in Jobs \ { j } : job[i].pc = "idle"
    BY <1>1, <1>2, <1>4, <1>14, StaysAlone
  <2>3. /\ me.grant \in live[b] /\ me.grant <= grants /\ \A m \in moved : m.grant # me.grant
        /\ me.kind = "callback" =>
             /\ me.prev = IF had = me.user THEN NoUser ELSE had
             /\ flow[me.flow].state = "open" /\ flow[me.flow].user = me.user
    BY <1>1, <2>1 DEF Sound, Links
  <2>4. taken => k.pc = "audits" /\ k.kind = "callback" /\ k.grant = me.grant /\ k.prev = had
    <3> HIDE DEF me, k, had
    <3> QED
      BY <1>4, <2>3
  <2>5. me.kind = "callback" /\ k.pc = "audits" => taken
    <3> HIDE DEF me, k, had
    <3> QED
      BY <1>3, <1>4, <2>1, <2>3
  <2>6. k.pc # "idle" => Sound(job[j])'
    <3> SUFFICES ASSUME me.kind = "callback" PROVE Sound(job[j])'
      BY <1>1, <1>4, IdleIs
    <3>1. k.pc = "audits" => [grant |-> k.grant, from |-> k.prev] \in moved'
      <4>1. k.pc = "audits" => [grant |-> k.grant, from |-> k.prev] = entry
        BY <2>4, <2>5 DEF entry
      <4> HIDE DEF taken, k, me
      <4> QED
        BY <1>2, <2>5, <4>1
    <3> HIDE DEF me
    <3> QED
      BY <1>2, <1>4, <2>3, <3>1 DEF Sound, Links
  <2>7. AuditKept'
    <3>1. audit' \subseteq moved' /\ \A m \in moved' : m.grant <= grants'
      <4> HIDE DEF taken, me
      <4> QED
        BY <1>2, <1>6, <2>1, <2>3 DEF AuditKept
    <3>2. \A m, n \in moved' : m.grant = n.grant => m = n
      <4> HIDE DEF taken, me
      <4> QED
        BY <1>2, <1>6, <2>1, <2>3 DEF AuditKept
    <3>3. ASSUME deaths' = 0, NEW m \in moved' \ audit'
          PROVE  \E i \in Jobs : job'[i].kind = "callback" /\ job'[i].pc = "audits" /\ job'[i].grant = m.grant
      <4>1. CASE m \in moved
        <5>1. PICK i \in Jobs : job[i].kind = "callback" /\ job[i].pc = "audits" /\ job[i].grant = m.grant
          BY <1>2, <2>1, <3>3, <4>1 DEF AuditKept
        <5> QED
          BY <1>1, <1>4, <5>1
      <4>2. CASE m \notin moved
        <5>1. taken /\ m = entry
          <6> HIDE DEF taken
          <6> QED
            BY <1>2, <3>3, <4>2
        <5> HIDE DEF taken, me
        <5> QED
          BY <1>6, <2>4, <5>1
      <4> QED
        BY <4>1, <4>2
    <3> QED
      BY <3>1, <3>2, <3>3 DEF AuditKept
  <2>8. TokensKept'
    <3> SUFFICES ASSUME deaths = 0, NEW box \in Mailboxes, conn'[box].owner # NoUser
                 PROVE  /\ conn'[box].access = conn'[box].refresh
                        /\ \/ conn'[box].refresh \in live[box]
                           \/ \E i \in Jobs : job'[i].pc = "deletes" /\ job'[i].box = box
      BY <1>2 DEF TokensKept
    <3>1. CASE box = b
      <4> HIDE DEF me, b
      <4> QED
        BY <1>5, <1>7, <2>3, <3>1
    <3>2. CASE box # b
      <4>1. conn'[box] = conn[box]
        BY <1>7, <3>2
      <4> HIDE DEF b
      <4> QED
        BY <1>1, <1>4, <2>1, <4>1 DEF TokensKept
    <3> QED
      BY <3>1, <3>2
  <2>9. ErasedKept'
    <3>1. ASSUME NEW box \in Mailboxes, conn'[box].owner \in erased
          PROVE  conn'[box].flow \in leftover \cup { NoFlow }
      <4>1. CASE box = b
        <5> HIDE DEF me, b
        <5> QED
          BY <1>1, <1>3, <1>5, <1>7, <2>1, <2>3, <3>1, <4>1 DEF ErasedKept
      <4>2. CASE box # b
        BY <1>7, <2>1, <3>1, <4>2 DEF ErasedKept
      <4> QED
        BY <4>1, <4>2
    <3> QED
      BY <1>2, <2>1, <3>1 DEF ErasedKept
  <2> QED
    BY <2>2, <2>6, <2>7, <2>8, <2>9
<1> QED
  BY <1>2, <1>4, <1>9, <1>11, <1>12, <1>13, <1>14, Assembled

LEMMA MarkConsumedKeeps ==
  ASSUME MailboxInv, NEW j \in Jobs, MarkConsumed(j)
  PROVE  MailboxInv'
<1> DEFINE me == job[j]
           f == me.flow
           k == job'[j]
<1>1. /\ MailboxTypeOK /\ FlowsOwned /\ UsesCounted /\ Announced /\ Shape(me)
      /\ me.kind = "callback" /\ me.pc = "consumes"
      /\ ~ overlapped => Sound(me) /\ AuditKept /\ TokensKept /\ ErasedKept /\ Single
  BY DEF MarkConsumed, At, MailboxInv, Clean
<1>2. /\ UNCHANGED << conn, audit, live, grants, moved, uses, announced, refused, erased, leftover >>
      /\ UNCHANGED << overlapped, deaths >>
      /\ flow' = [flow EXCEPT ![f].state = "consumed"]
      /\ completed' = IF me.ok THEN completed \cup { f } ELSE completed
  BY DEF MarkConsumed, provider
<1>3. f \in Flows
  BY <1>1 DEF Shape
<1>4. /\ Moves(j, k) /\ \A i \in Jobs \ { j } : job'[i] = job[i]
      /\ ~ me.ok => k = Idle
      /\ me.ok => k.pc = "resumes" /\ k.kind = "callback" /\ k.flow = f /\ k.user = me.user
  <2>1. CASE me.ok
    <3>1. Goto(j, "resumes")
      BY <2>1 DEF MarkConsumed
    <3> QED
      BY <1>1, <2>1, <3>1, Going, Moved DEF Steps
  <2>2. CASE ~ me.ok
    <3>1. End(j)
      BY <2>2 DEF MarkConsumed
    <3> QED
      BY <1>1, <2>2, <3>1, Ending, Moved
  <2> QED
    BY <2>1, <2>2
<1> HIDE DEF f
<1>5. /\ flow' \in [Flows -> FlowRows] /\ flow'[f].state = "consumed"
      /\ flow'[f].user = flow[f].user
      /\ \A g \in Flows \ { f } : flow'[g] = flow[g]
  BY <1>1, <1>2, <1>3 DEF MailboxTypeOK, FlowRows
<1>6. MailboxTypeOK'
  <2>1. job' \in [Jobs -> JobStates]
    BY <1>1, <1>4, Moved
  <2>2. completed' \subseteq Flows
    BY <1>1, <1>2, <1>3 DEF MailboxTypeOK
  <2> QED
    BY <1>1, <1>2, <1>5, <2>1, <2>2 DEF MailboxTypeOK
<1>7. /\ \A g \in Past(f) : g \in Jobs
      /\ \A g \in Flows : Linked(me, g) => g = f
      /\ \A g : ~ Linking(me, g) /\ ~ Linking(k, g) /\ ~ Linked(k, g)
  BY <1>1, <1>4, IdleIs DEF Past, Linked, Linking, Links, f
<1>8. FlowsOwned' /\ Shape(job[j])'
  <2>1. FlowsOwned'
    BY <1>1, <1>5 DEF FlowsOwned
  <2>2. Shape(k)
    <3> HIDE DEF me, k
    <3> QED
      BY <1>1, <1>3, <1>4, IdleIs DEF Shape, Links
  <2> QED
    BY <2>1, <2>2 DEF Shape
<1>9. Announced'
  <2> SUFFICES ASSUME deaths = 0, NEW g \in completed', g \notin announced \cup refused
               PROVE  \E i \in Jobs : job'[i].flow = g /\ job'[i].pc \in Tells
    BY <1>2 DEF Announced
  <2>1. CASE g \in completed
    <3>1. PICK i \in Jobs : job[i].flow = g /\ job[i].pc \in Tells
      BY <1>1, <2>1 DEF Announced
    <3> QED
      BY <1>1, <1>4, <3>1
  <2>2. CASE g \notin completed
    <3>1. me.ok /\ g = f
      BY <1>2, <2>2
    <3> QED
      BY <1>4, <3>1
  <2> QED
    BY <2>1, <2>2
<1>10. UsesCounted'
  <2> SUFFICES ASSUME NEW g \in Flows
               PROVE  /\ flow'[g].state # "consumed" => uses[g] <= deaths + Cardinality(Past(g)')
                      /\ flow'[g].state = "consumed" =>
                           /\ uses[g] + Cardinality(Before(g)') <= deaths + Cardinality(Jobs)
                           /\ ~ overlapped => uses[g] <= deaths + 1 /\ Before(g)' = {}
    BY <1>2 DEF UsesCounted
  <2>1. /\ flow[g].state # "consumed" => uses[g] <= deaths + Cardinality(Past(g))
        /\ flow[g].state = "consumed" =>
             /\ uses[g] + Cardinality(Before(g)) <= deaths + Cardinality(Jobs)
             /\ ~ overlapped => uses[g] <= deaths + 1 /\ Before(g) = {}
    BY <1>1 DEF UsesCounted
  <2>2. Before(g)' = Before(g)
    BY <1>4, <1>7 DEF Before
  <2>3. CASE g # f
    <3>1. Past(g)' = Past(g)
      BY <1>4, <1>7, <2>3 DEF Past
    <3> QED
      BY <1>5, <2>1, <2>2, <2>3, <3>1
  <2>4. CASE g = f /\ flow[g].state = "consumed"
    BY <1>5, <2>1, <2>2, <2>4
  <2>5. CASE g = f /\ flow[g].state # "consumed"
    <3>1. /\ Cardinality(Past(g)) \in Nat /\ Cardinality(Before(g)) \in Nat
          /\ Cardinality(Jobs) \in Nat /\ uses[g] \in Nat /\ deaths \in Nat
      BY <1>1, Counted, Numbers
    <3>2. Past(g) \cap Before(g) = {} /\ Past(g) \cup Before(g) \in SUBSET Jobs
      BY DEF Past, Before, Linked, Linking, Links
    <3>3. Cardinality(Past(g) \cup Before(g)) =
            Cardinality(Past(g)) + Cardinality(Before(g)) - Cardinality(Past(g) \cap Before(g))
      BY Counted, FS_Union
    <3>4. Cardinality(Past(g) \cap Before(g)) = 0
      BY <3>2, FS_EmptySet
    <3>5. Cardinality(Past(g) \cup Before(g)) <= Cardinality(Jobs)
      BY <3>2, JobsAssumption, FS_Subset
    <3>6. Cardinality(Past(g)) + Cardinality(Before(g)) <= Cardinality(Jobs)
      BY <3>1, <3>3, <3>4, <3>5
    <3>7. ASSUME ~ overlapped PROVE Cardinality(Past(g)) <= 1 /\ Before(g) = {}
      <4>1. Cardinality(Past(g)) <= 1
        BY <1>1, <3>7, SingleCounts
      <4>2. \A i \in Jobs : job[i].pc # "idle" => i = j
        BY <1>1, <3>7 DEF Single
      <4>3. Before(g) = {}
        BY <1>7, <4>2 DEF Before, Linking, Links
      <4> QED
        BY <4>1, <4>3
    <3> HIDE DEF me
    <3> QED
      BY <1>5, <2>1, <2>2, <2>5, <3>1, <3>6, <3>7
  <2> QED
    BY <2>3, <2>4, <2>5
<1>11. ASSUME ~ overlapped'
       PROVE  /\ Single' /\ \A i \in Jobs \ { j } : job[i].pc = "idle"
              /\ Sound(job[j])' /\ AuditKept' /\ TokensKept' /\ ErasedKept'
  <2>1. AuditKept /\ TokensKept /\ ErasedKept
    BY <1>1, <1>2, <1>11
  <2>2. Single' /\ \A i \in Jobs \ { j } : job[i].pc = "idle"
    BY <1>1, <1>2, <1>4, <1>11, StaysAlone
  <2>3. Sound(job[j])'
    <3>1. k.pc \in { "idle", "resumes" } /\ (k.pc = "resumes" => k.kind = "callback")
      BY <1>4, IdleIs
    <3> HIDE DEF me
    <3> QED
      BY <3>1 DEF Sound, Links
  <2>4. AuditKept' /\ TokensKept'
    BY <1>1, <1>2, <1>4, <2>1 DEF AuditKept, TokensKept
  <2>5. ErasedKept'
    BY <1>2, <1>5, <2>1 DEF ErasedKept
  <2> QED
    BY <2>2, <2>3, <2>4, <2>5
<1> QED
  BY <1>2, <1>4, <1>6, <1>8, <1>9, <1>10, <1>11, Assembled

-----------------------------------------------------------------------------
(***************************************************************************)
(* The theorems.                                                           *)
(***************************************************************************)
LEMMA NextInv == MailboxInv /\ [Next]_vars => MailboxInv'
<1> SUFFICES ASSUME MailboxInv, [Next]_vars PROVE MailboxInv'
  OBVIOUS
<1>1. ASSUME NEW j \in Jobs, CallbackStep(j) PROVE MailboxInv'
  BY <1>1, CallbackKeeps, LocalKeeps, ExchangeKeeps, ExchangeFailsKeeps, FetchEmailAddressKeeps,
     FetchThrowsKeeps, FindOwnerKeeps, UpsertKeeps, AuditKeeps, MarkConsumedKeeps, TellsKeeps,
     TellingKeeps DEF CallbackStep
<1>2. ASSUME NEW j \in Jobs, RemovalStep(j) PROVE MailboxInv'
  BY <1>2, DisconnectKeeps, ForgetKeeps, FindConnectionKeeps, RevokeTokenKeeps,
     DeleteConnectionsKeeps, RecordKeeps DEF RemovalStep
<1>3. ASSUME NEW j \in Jobs, ScanStep(j) PROVE MailboxInv'
  BY <1>3, ScanKeeps, RefreshAccessTokenKeeps, UpdateAccessTokenKeeps DEF ScanStep
<1>4. CASE UNCHANGED vars
  <2>1. /\ UNCHANGED << flow, conn, audit, job, live, grants, moved, uses, completed >>
        /\ UNCHANGED << announced, refused, erased, leftover, overlapped, deaths >>
    BY <1>4 DEF vars, tables, provider, history
  <2>2. MailboxTypeOK' /\ FlowsOwned'
    BY <2>1 DEF MailboxInv, MailboxTypeOK, FlowsOwned
  <2>3. Announced' /\ \A j \in Jobs : Shape(job[j])'
    BY <2>1 DEF MailboxInv, Announced, Shape
  <2>4. UsesCounted'
    BY <2>1 DEF MailboxInv, UsesCounted, Past, Before
  <2>5. ~ overlapped' => Single' /\ AuditKept' /\ TokensKept' /\ ErasedKept'
    BY <2>1 DEF MailboxInv, Clean, Single, AuditKept, TokensKept, ErasedKept
  <2>6. ~ overlapped' => \A j \in Jobs : Sound(job[j])'
    BY <2>1 DEF MailboxInv, Clean, Sound
  <2> QED
    BY <2>2, <2>3, <2>4, <2>5, <2>6 DEF MailboxInv, Clean
<1> QED
  BY <1>1, <1>2, <1>3, <1>4, DieKeeps, BuildKeeps DEF Next

\* The invariant, of every behaviour of the mailboxes.
THEOREM Invariance == Spec => []MailboxInv
  BY InitInv, NextInv, PTL DEF Spec

\* The variables keep their types, whatever runs at once: a row that is deleted leaves
\* nothing behind, and a token that is stored is one that was granted.
THEOREM TypesKept == Spec => []MailboxTypeOK
<1>1. MailboxInv => MailboxTypeOK
  BY DEF MailboxInv
<1> QED
  BY <1>1, Invariance, PTL

\* The audit log has every mailbox that a callback took from another user, and no other
\* (completeHostedFlow, reassignedFromUserId), but for a death before the entry; jobs
\* that overlap are exempt.
THEOREM Transferred == Spec => []TransfersAudited
  BY Implied, Invariance, PTL

\* A link connects once, and beyond that once more for a death, or once for each job
\* that runs beside it: the flow is marked last.
THEOREM ConnectedOnce == Spec => []FlowsConnectOnce
  BY Implied, Invariance, PTL

\* The tokens that are stored are of one grant that is honoured, up to the revocation
\* whose deletion follows.
THEOREM TokensWork == Spec => []StoredTokensWork
  BY Implied, Invariance, PTL

\* An erased user has no connection but those of the command line and of links that
\* were open: forgetMyData goes through both providers and ends with the entry.
THEOREM Disconnected == Spec => []ErasedIsDisconnected
  BY Implied, Invariance, PTL

\* A connection that succeeded is announced or about to be, whatever else runs, unless
\* its chat was not found or refused the message, or something died.
THEOREM Told == Spec => []Announced
<1>1. MailboxInv => Announced
  BY DEF MailboxInv
<1> QED
  BY <1>1, Invariance, PTL
=============================================================================
