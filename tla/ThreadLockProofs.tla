-------------------------- MODULE ThreadLockProofs --------------------------
(***************************************************************************)
(* Proofs about ThreadLock, for any turns, threads, processes and pools.   *)
(***************************************************************************)
EXTENDS ThreadLock, FunctionTheorems, FiniteSetTheorems, WellFoundedInduction, TLAPS

\* The types of the variables, without the limit of the pools.
Typed ==
  /\ pc \in [Turns -> States]
  /\ queries \in [Turns -> 0..MaxQueries]
  /\ clients \in [Processes ->
                    SUBSET [turn : Turns, use : { "lock", "query" }]]
  /\ pending \in [Processes -> Seq(Turns)]
  /\ holder \in [Threads -> Turns \cup { NoTurn }]
  /\ ahead \in [Turns -> SUBSET Turns]

\* A pool serves the turns of its own process.
PendingLocal ==
  \A p \in Processes : \A i \in 1..Len(pending[p]) : ProcessOf[pending[p][i]] = p

\* Who is inside holds the lock of its thread.
InsideHolds == \A t \in Turns : Inside(t) => holder[ThreadOf[t]] = t

LockInv == Typed /\ InsideHolds /\ HeldByTheLiving

PoolInv == Typed /\ PendingLocal /\ NoConnectionLeaks

-----------------------------------------------------------------------------
\* The initial states are typed.
LEMMA InitTyped == ASSUME Init PROVE Typed
  BY BoundsAssumption DEF Init, Typed, States, Querying, Owning

\* Asking for a connection appends a turn to the queue of its process.
LEMMA AskTyped ==
  ASSUME Typed, NEW t \in Turns, Ask(t)
  PROVE  pending' \in [Processes -> Seq(Turns)]
  BY TurnsAssumption DEF Typed, Ask

\* Giving a connection back keeps the pool typed.
LEMMA GiveBackTyped ==
  ASSUME Typed, NEW t \in Turns, NEW use, GiveBack(t, use)
  PROVE  clients' \in [Processes ->
                         SUBSET [turn : Turns, use : { "lock", "query" }]]
  BY TurnsAssumption DEF Typed, GiveBack, Client

\* What the pool grants goes to the first turn of the queue.
LEMMA HeadTyped ==
  ASSUME Typed, NEW p \in Processes, pending[p] # << >>
  PROVE  /\ Head(pending[p]) \in Turns
         /\ Tail(pending[p]) \in Seq(Turns)
  BY DEF Typed

\* Every step keeps the types.
LEMMA NextTyped == ASSUME Typed, [Next]_vars PROVE Typed'
<1> USE DEF States, Querying, Owning
<1>1. CASE UNCHANGED vars
  BY <1>1 DEF Typed, vars
<1>2. ASSUME NEW t \in Turns, Receive(t) \/ ReceiveConnected(t) PROVE Typed'
  BY <1>2, AskTyped DEF Typed, Receive, ReceiveConnected
<1>3. ASSUME NEW t \in Turns, ReadsDone(t) PROVE Typed'
  <2>1. Ask(t) \/ UNCHANGED pending
    BY <1>3 DEF ReadsDone
  <2> QED
    BY <1>3, <2>1, AskTyped, GiveBackTyped DEF Typed, ReadsDone
<1>4. ASSUME NEW t \in Turns, Lock(t) PROVE Typed'
  <2>1. queries' \in [Turns -> 0..MaxQueries]
    <3>1. 0 \in 0..MaxQueries
      BY BoundsAssumption
    <3> QED
      BY <1>4, <3>1 DEF Typed, Lock
  <2>2. holder' \in [Threads -> Turns \cup { NoTurn }]
    BY <1>4, TurnsAssumption DEF Typed, Lock
  <2>3. ahead' \in [Turns -> SUBSET Turns]
    BY <1>4 DEF Typed, Lock
  <2> QED
    BY <1>4, <2>1, <2>2, <2>3 DEF Typed, Lock
<1>5. ASSUME NEW t \in Turns, Query(t) PROVE Typed'
  <2>1. queries' \in [Turns -> 0..MaxQueries]
    BY <1>5, BoundsAssumption DEF Typed, Query
  <2> QED
    BY <1>5, <2>1, AskTyped DEF Typed, Query
<1>6. ASSUME NEW t \in Turns, QueryDone(t) \/ RecordsDone(t) PROVE Typed'
  BY <1>6, GiveBackTyped DEF Typed, QueryDone, RecordsDone
<1>7. ASSUME NEW t \in Turns, Unlock(t) PROVE Typed'
  BY <1>7, TurnsAssumption DEF Typed, Unlock
<1>8. ASSUME NEW t \in Turns, Release(t) PROVE Typed'
  <2>1. pending' \in [Processes -> Seq(Turns)]
    BY <1>8, AskTyped DEF Typed, Release
  <2> QED
    BY <1>8, <2>1, GiveBackTyped DEF Typed, Release
<1>9. ASSUME NEW p \in Processes, Grant(p) PROVE Typed'
  <2> DEFINE t == Head(pending[p])
  <2>1. t \in Turns /\ Tail(pending[p]) \in Seq(Turns)
    BY <1>9, HeadTyped DEF Grant
  <2>2. pending' \in [Processes -> Seq(Turns)]
    BY <1>9, <2>1 DEF Typed, Grant
  <2>3. pc' \in [Turns -> States]
    BY <1>9, <2>1 DEF Typed, Grant
  <2>4. PICK c \in [turn : Turns, use : { "lock", "query" }] :
          clients' = [clients EXCEPT ![p] = @ \cup { c }]
    <3>1. /\ Client(t, "lock") \in [turn : Turns, use : { "lock", "query" }]
          /\ Client(t, "query") \in [turn : Turns, use : { "lock", "query" }]
      BY <2>1 DEF Client
    <3> QED
      BY <1>9, <3>1 DEF Grant
  <2>5. clients' \in [Processes ->
                        SUBSET [turn : Turns, use : { "lock", "query" }]]
    BY <2>4 DEF Typed
  <2>6. UNCHANGED << queries, holder >>
    BY <1>9 DEF Grant
  <2>7. ahead' \in [Turns -> SUBSET Turns]
    <3>1. Waiting(ThreadOf[t]) \in SUBSET Turns
      BY DEF Waiting
    <3> QED
      BY <1>9, <2>1, <3>1 DEF Typed, Grant
  <2> QED
    BY <2>2, <2>3, <2>5, <2>6, <2>7 DEF Typed
<1>10. ASSUME NEW p \in Processes, Crash(p) PROVE Typed'
  BY <1>10 DEF Typed, Crash, AfterCrash
<1> QED
  BY <1>1, <1>2, <1>3, <1>4, <1>5, <1>6, <1>7, <1>8, <1>9, <1>10
  DEF Next, TurnStep

-----------------------------------------------------------------------------
\* No pool has more connections out than it may open.
Bounded ==
  \A p \in Processes : IsFiniteSet(clients[p]) /\ Cardinality(clients[p]) <= PoolSize

\* The pool opens a connection only while it has room for it, and gets one back once.
LEMMA BoundStep == ASSUME Typed, Bounded, [Next]_vars PROVE Bounded'
<1>1. CASE UNCHANGED clients
  BY <1>1 DEF Bounded
<1>2. ASSUME NEW t \in Turns, NEW use, GiveBack(t, use) PROVE Bounded'
  <2> SUFFICES ASSUME NEW p \in Processes
               PROVE  IsFiniteSet(clients'[p]) /\ Cardinality(clients'[p]) <= PoolSize
    BY DEF Bounded
  <2>1. clients'[p] \subseteq clients[p]
    BY <1>2 DEF GiveBack, Typed
  <2>2. IsFiniteSet(clients[p]) /\ Cardinality(clients[p]) <= PoolSize
    BY DEF Bounded
  <2>3. IsFiniteSet(clients'[p]) /\ Cardinality(clients'[p]) <= Cardinality(clients[p])
    BY <2>1, <2>2, FS_Subset
  <2>4. Cardinality(clients'[p]) \in Nat /\ Cardinality(clients[p]) \in Nat /\ PoolSize \in Nat
    BY <2>2, <2>3, FS_CardinalityType, BoundsAssumption
  <2> QED
    BY <2>2, <2>3, <2>4
<1>3. ASSUME NEW p \in Processes, Grant(p) PROVE Bounded'
  <2> SUFFICES ASSUME NEW q \in Processes
               PROVE  IsFiniteSet(clients'[q]) /\ Cardinality(clients'[q]) <= PoolSize
    BY DEF Bounded
  <2>1. PICK c : clients' = [clients EXCEPT ![p] = @ \cup { c }]
    BY <1>3 DEF Grant
  <2>2. /\ IsFiniteSet(clients[q]) /\ Cardinality(clients[q]) <= PoolSize
        /\ IsFiniteSet(clients[p]) /\ Cardinality(clients[p]) < PoolSize
    BY <1>3 DEF Bounded, Grant, Room
  <2>3. CASE q # p
    BY <2>1, <2>2, <2>3 DEF Typed
  <2>4. CASE q = p
    <3>1. clients'[q] = clients[p] \cup { c }
      BY <2>1, <2>4 DEF Typed
    <3>2. /\ IsFiniteSet(clients'[q])
          /\ \/ Cardinality(clients'[q]) = Cardinality(clients[p])
             \/ Cardinality(clients'[q]) = Cardinality(clients[p]) + 1
      BY <2>2, <3>1, FS_AddElement
    <3>3. Cardinality(clients[p]) \in Nat /\ PoolSize \in Nat
      BY <2>2, FS_CardinalityType, BoundsAssumption
    <3> QED
      BY <2>2, <3>2, <3>3
  <2> QED
    BY <2>3, <2>4
<1>4. ASSUME NEW p \in Processes, Crash(p) PROVE Bounded'
  <2> SUFFICES ASSUME NEW q \in Processes
               PROVE  IsFiniteSet(clients'[q]) /\ Cardinality(clients'[q]) <= PoolSize
    BY DEF Bounded
  <2>1. clients'[q] = IF q = p THEN {} ELSE clients[q]
    BY <1>4 DEF Crash, Typed
  <2>2. IsFiniteSet({}) /\ Cardinality({}) = 0
    BY FS_EmptySet
  <2> QED
    BY <2>1, <2>2, BoundsAssumption DEF Bounded
<1>5. ASSUME NEW t \in Turns, TurnStep(t) PROVE Bounded'
  <2>1. UNCHANGED clients \/ \E use : GiveBack(t, use)
    BY <1>5 DEF TurnStep, ReadsDone, Lock, Query, QueryDone, Unlock, Release, RecordsDone
  <2> QED
    BY <1>1, <1>2, <2>1
<1>6. ASSUME NEW t \in Turns, Receive(t) \/ ReceiveConnected(t) PROVE Bounded'
  BY <1>1, <1>6 DEF Receive, ReceiveConnected
<1> QED
  BY <1>1, <1>3, <1>4, <1>5, <1>6 DEF Next, vars

\* The variables have their types, and the pools stay within their limit, for any
\* number of turns, threads and processes (src/db/client.ts).
THEOREM TypeCorrect == Spec => []TypeOK
<1>1. Init => Typed /\ Bounded
  <2>1. ASSUME Init PROVE Bounded
    <3>1. IsFiniteSet({}) /\ Cardinality({}) = 0
      BY FS_EmptySet
    <3> QED
      BY <2>1, <3>1, BoundsAssumption DEF Init, Bounded
  <2> QED
    BY <2>1, InitTyped
<1>2. Typed /\ Bounded /\ [Next]_vars => (Typed /\ Bounded)'
  BY NextTyped, BoundStep
<1>3. Typed /\ Bounded => TypeOK
  BY DEF Typed, Bounded, TypeOK
<1> QED
  BY <1>1, <1>2, <1>3, PTL DEF Spec

-----------------------------------------------------------------------------
\* A step that moves a turn between states outside the lock disturbs nothing.
LEMMA OutsideStep ==
  ASSUME LockInv, Typed', NEW t \in Turns, ~ Inside(t), NEW s,
         pc' = [pc EXCEPT ![t] = s], s \notin { "inside", "queries" },
         UNCHANGED holder
  PROVE  LockInv'
  BY DEF LockInv, Typed, InsideHolds, HeldByTheLiving, Inside

\* So does one that keeps a turn under it.
LEMMA InsideStep ==
  ASSUME LockInv, Typed', NEW t \in Turns, Inside(t), NEW s,
         pc' = [pc EXCEPT ![t] = s], s \in { "inside", "queries" },
         UNCHANGED holder
  PROVE  LockInv'
  BY DEF LockInv, Typed, InsideHolds, HeldByTheLiving, Inside

\* Every step keeps the lock with those who are inside.
LEMMA LockStep == ASSUME LockInv, [Next]_vars PROVE LockInv'
<1>0. Typed /\ Typed'
  BY NextTyped DEF LockInv
<1>1. CASE UNCHANGED vars
  BY <1>0, <1>1 DEF LockInv, InsideHolds, HeldByTheLiving, Inside, vars
<1>2. ASSUME NEW t \in Turns,
             \/ Receive(t) \/ ReceiveConnected(t) \/ ReadsDone(t)
             \/ Release(t) \/ RecordsDone(t)
      PROVE  LockInv'
  <2>1. ~ Inside(t) /\ UNCHANGED holder
    BY <1>2 DEF Receive, ReceiveConnected, ReadsDone, Release, RecordsDone, Inside
  <2>2. \E s : /\ s \notin { "inside", "queries" }
               /\ pc' = [pc EXCEPT ![t] = s]
    BY <1>2 DEF Receive, ReceiveConnected, ReadsDone, Release, RecordsDone
  <2> QED
    BY <1>0, <2>1, <2>2, OutsideStep
<1>3. ASSUME NEW t \in Turns, Query(t) \/ QueryDone(t) PROVE LockInv'
  <2>1. Inside(t) /\ UNCHANGED holder
    BY <1>3 DEF Query, QueryDone, Inside
  <2>2. \E s \in { "inside", "queries" } : pc' = [pc EXCEPT ![t] = s]
    BY <1>3 DEF Query, QueryDone
  <2> QED
    BY <1>0, <2>1, <2>2, InsideStep
<1>4. ASSUME NEW t \in Turns, Lock(t) PROVE LockInv'
  <2>1. /\ ThreadOf[t] \in Threads
        /\ holder[ThreadOf[t]] = NoTurn
        /\ holder' = [holder EXCEPT ![ThreadOf[t]] = t]
        /\ pc' = [pc EXCEPT ![t] = "inside"]
    BY <1>4, TurnsAssumption DEF Lock, Free
  <2>2. InsideHolds'
    BY <1>0, <2>1, TurnsAssumption DEF LockInv, Typed, InsideHolds, Inside
  <2>3. HeldByTheLiving'
    BY <1>0, <2>1, TurnsAssumption DEF LockInv, Typed, HeldByTheLiving, Inside
  <2> QED
    BY <1>0, <2>2, <2>3 DEF LockInv
<1>5. ASSUME NEW t \in Turns, Unlock(t) PROVE LockInv'
  <2>1. /\ ThreadOf[t] \in Threads
        /\ holder[ThreadOf[t]] = t
        /\ holder' = [holder EXCEPT ![ThreadOf[t]] = NoTurn]
        /\ pc' = [pc EXCEPT ![t] = "unlocked"]
    BY <1>5, TurnsAssumption DEF Unlock, LockInv, InsideHolds, Inside
  <2>2. InsideHolds'
    BY <1>0, <2>1, TurnsAssumption DEF LockInv, Typed, InsideHolds, Inside
  <2>3. HeldByTheLiving'
    BY <1>0, <2>1, TurnsAssumption DEF LockInv, Typed, HeldByTheLiving, Inside
  <2> QED
    BY <1>0, <2>2, <2>3 DEF LockInv
<1>6. ASSUME NEW p \in Processes, Grant(p) PROVE LockInv'
  <2> DEFINE t == Head(pending[p])
  <2>1. t \in Turns /\ UNCHANGED holder
    BY <1>0, <1>6, HeadTyped DEF Grant
  <2>2. CASE UNCHANGED pc
    BY <1>0, <2>1, <2>2 DEF LockInv, InsideHolds, HeldByTheLiving, Inside
  <2>3. CASE pc[t] = "connects" /\ pc' = [pc EXCEPT ![t] = "locks"]
    BY <1>0, <2>1, <2>3, OutsideStep DEF Inside
  <2> QED
    BY <1>6, <2>2, <2>3 DEF Grant
<1>7. ASSUME NEW p \in Processes, Crash(p) PROVE LockInv'
  <2>1. /\ pc' = [u \in Turns |-> IF ProcessOf[u] # p THEN pc[u] ELSE "idle"]
        /\ holder' = [th \in Threads |-> AfterCrash(p, th)]
    BY <1>7 DEF Crash
  <2>2. InsideHolds'
    BY <1>0, <2>1, TurnsAssumption
    DEF LockInv, Typed, InsideHolds, Inside, AfterCrash
  <2>3. HeldByTheLiving'
    BY <1>0, <2>1, TurnsAssumption
    DEF LockInv, Typed, HeldByTheLiving, Inside, AfterCrash
  <2> QED
    BY <1>0, <2>2, <2>3 DEF LockInv
<1> QED
  BY <1>1, <1>2, <1>3, <1>4, <1>5, <1>6, <1>7 DEF Next, TurnStep

\* LockInv holds at first.
LEMMA LockInit == ASSUME Init PROVE LockInv
  BY InitTyped, TurnsAssumption
  DEF Init, LockInv, Typed, InsideHolds, HeldByTheLiving, Inside

\* Two turns that hold the lock of one thread are one turn.
LEMMA LockExcludes == ASSUME LockInv PROVE MutualExclusion
  BY DEF LockInv, InsideHolds, MutualExclusion

\* Turns of one thread are never inside at once, whatever processes they run in
\* and whichever of these die: the lock of thread-lock.ts excludes.
THEOREM Exclusion == Spec => []MutualExclusion
<1>1. Init => LockInv
  BY LockInit
<1>2. LockInv /\ [Next]_vars => LockInv'
  BY LockStep
<1>3. LockInv => MutualExclusion
  BY LockExcludes
<1> QED
  BY <1>1, <1>2, <1>3, PTL DEF Spec

\* No thread is left locked by a turn that is over or by a process that died.
THEOREM NeverAbandoned == Spec => []HeldByTheLiving
<1>1. Init => LockInv
  BY LockInit
<1>2. LockInv /\ [Next]_vars => LockInv'
  BY LockStep
<1>3. LockInv => HeldByTheLiving
  BY DEF LockInv
<1> QED
  BY <1>1, <1>2, <1>3, PTL DEF Spec

\* Who holds the lock of a thread is its only one inside, so a turn enters alone;
\* every other step lets turns leave, or moves none.
LEMMA MutexStep ==
  ASSUME LockInv, [Next]_vars
  PROVE  [Mutex!MutexNext]_({ t \in Turns : Inside(t) })
<1> DEFINE inside == { t \in Turns : Inside(t) }
<1>1. ASSUME \A t \in Turns : Inside(t)' => Inside(t) PROVE Mutex!MutexNext
  <2>1. inside' = inside \ (inside \ inside')
    BY <1>1
  <2>2. (inside \ inside') \in SUBSET Turns
    OBVIOUS
  <2>3. Mutex!Leave(inside \ inside')
    BY <2>1 DEF Mutex!Leave
  <2> QED
    BY <2>2, <2>3 DEF Mutex!MutexNext
<1>2. ASSUME NEW t \in Turns, Lock(t) PROVE Mutex!MutexNext
  <2>1. holder[ThreadOf[t]] = NoTurn /\ pc' = [pc EXCEPT ![t] = "inside"]
    BY <1>2 DEF Lock, Free
  <2>2. inside' = inside \cup {t}
    BY <2>1 DEF LockInv, Typed, Inside
  <2>3. \A u \in inside : ThreadOf[u] # ThreadOf[t]
    BY <2>1, TurnsAssumption DEF LockInv, InsideHolds
  <2> QED
    BY <2>2, <2>3 DEF Mutex!Enter, Mutex!MutexNext
<1>3. CASE UNCHANGED vars
  BY <1>3 DEF vars, Inside
<1>4. ASSUME NEW t \in Turns,
             \/ Receive(t) \/ ReceiveConnected(t) \/ ReadsDone(t) \/ Query(t) \/ QueryDone(t)
             \/ Unlock(t) \/ Release(t) \/ RecordsDone(t)
      PROVE  Mutex!MutexNext
  <2>1. \E s : /\ pc' = [pc EXCEPT ![t] = s]
               /\ s \in { "inside", "queries" } => Inside(t)
    BY <1>4 DEF Receive, ReceiveConnected, ReadsDone, Query, QueryDone, Unlock, Release,
                RecordsDone, Inside
  <2> QED
    BY <1>1, <2>1 DEF LockInv, Typed, Inside
<1>5. ASSUME NEW p \in Processes, Grant(p) \/ Crash(p) PROVE Mutex!MutexNext
  <2>1. CASE Grant(p)
    <3>1. \E t : pc' = [pc EXCEPT ![t] = "locks"] \/ pc' = pc
      BY <2>1 DEF Grant
    <3> QED
      BY <1>1, <3>1 DEF LockInv, Typed, Inside
  <2>2. CASE Crash(p)
    BY <1>1, <2>2 DEF Crash, Inside
  <2> QED
    BY <1>5, <2>1, <2>2
<1> QED
  BY <1>2, <1>3, <1>4, <1>5 DEF Next, TurnStep

\* withThreadLock, over its pool, its queues and its crashes, gives those who run the
\* agent the mutual exclusion that ThreadMutex states.
THEOREM LockImplementsMutex == Spec => ImplementsMutex
<1>1. Init => LockInv /\ Mutex!MutexInit
  BY LockInit DEF Init, Inside, Mutex!MutexInit
<1>2. LockInv /\ [Next]_vars => LockInv'
  BY LockStep
<1>3. LockInv /\ [Next]_vars => [Mutex!MutexNext]_({ t \in Turns : Inside(t) })
  BY MutexStep
<1> QED
  BY <1>1, <1>2, <1>3, PTL DEF Spec, ImplementsMutex, Mutex!MutexSpec

-----------------------------------------------------------------------------
\* The pools are empty at first.
LEMMA PoolInit == ASSUME Init PROVE PoolInv
  BY InitTyped DEF Init, PoolInv, PendingLocal, NoConnectionLeaks

\* Asking keeps every queue local to its process.
LEMMA AskLocal ==
  ASSUME Typed, PendingLocal, NEW t \in Turns, Ask(t)
  PROVE  PendingLocal'
<1>1. ProcessOf[t] \in Processes
  BY TurnsAssumption
<1>2. ASSUME NEW p \in Processes, NEW i \in 1..Len(pending'[p])
      PROVE  ProcessOf[pending'[p][i]] = p
  <2>1. CASE p # ProcessOf[t]
    BY <1>2, <2>1 DEF Typed, PendingLocal, Ask
  <2>2. CASE p = ProcessOf[t]
    <3>1. pending[p] \in Seq(Turns) /\ pending'[p] = Append(pending[p], t)
      BY <2>2 DEF Typed, Ask
    <3>2. CASE i = Len(pending[p]) + 1
      BY <2>2, <3>1, <3>2
    <3>3. CASE i # Len(pending[p]) + 1
      <4>1. i \in 1..Len(pending[p]) /\ pending'[p][i] = pending[p][i]
        BY <1>2, <3>1, <3>3
      <4> QED
        BY <4>1 DEF PendingLocal
    <3> QED
      BY <3>2, <3>3
  <2> QED
    BY <2>1, <2>2
<1> QED
  BY <1>2 DEF PendingLocal

\* So does serving the first of one.
LEMMA TailLocal ==
  ASSUME Typed, PendingLocal, NEW p \in Processes, pending[p] # << >>,
         pending' = [pending EXCEPT ![p] = Tail(@)]
  PROVE  /\ PendingLocal'
         /\ ProcessOf[Head(pending[p])] = p
<1>1. pending[p] \in Seq(Turns)
  BY DEF Typed
<1>2. ASSUME NEW q \in Processes, NEW i \in 1..Len(pending'[q])
      PROVE  ProcessOf[pending'[q][i]] = q
  <2>1. CASE q # p
    BY <1>2, <2>1 DEF Typed, PendingLocal
  <2>2. CASE q = p
    <3>1. pending'[p] = Tail(pending[p])
      BY DEF Typed
    <3>2. i + 1 \in 1..Len(pending[p]) /\ pending'[p][i] = pending[p][i + 1]
      <4> DEFINE q0 == pending[p]
      <4>1. q0 \in Seq(Turns) /\ q0 # << >>
        BY <1>1
      <4>2. i \in 1..Len(Tail(q0))
        BY <1>2, <2>2, <3>1
      <4>3. i + 1 \in 1..Len(q0) /\ Tail(q0)[i] = q0[i + 1]
        <5> HIDE DEF q0
        <5>1. Len(Tail(q0)) = Len(q0) - 1 /\ Len(q0) \in Nat
          BY <4>1
        <5>2. i \in Nat /\ i >= 1 /\ i + 1 <= Len(q0)
          BY <4>2, <5>1
        <5> QED
          BY <4>1, <4>2, <5>1, <5>2
      <4> QED
        BY <3>1, <4>3
    <3> QED
      BY <2>2, <3>2 DEF PendingLocal
  <2> QED
    BY <2>1, <2>2
<1>3. Head(pending[p]) = pending[p][1] /\ 1 \in 1..Len(pending[p])
  BY <1>1
<1> QED
  BY <1>2, <1>3 DEF PendingLocal

\* A turn moves, and the connections it keeps fit where it goes.
LEMMA KeepsFitting ==
  ASSUME Typed, NoConnectionLeaks, NEW t \in Turns, NEW s \in States,
         pc' = [pc EXCEPT ![t] = s],
         \A p \in Processes : \A c \in clients'[p] :
           /\ c \in clients[p]
           /\ c.turn = t => /\ c.use = "lock"  => s \in Owning
                            /\ c.use = "query" => s \in Querying
  PROVE  NoConnectionLeaks'
<1> SUFFICES ASSUME NEW p \in Processes, NEW c \in clients'[p]
             PROVE  /\ ProcessOf[c.turn] = p
                    /\ c.use = "lock"  => pc'[c.turn] \in Owning
                    /\ c.use = "query" => pc'[c.turn] \in Querying
  BY DEF NoConnectionLeaks
<1>1. /\ c \in clients[p] /\ c.turn \in Turns
      /\ c.turn = t => /\ c.use = "lock"  => s \in Owning
                       /\ c.use = "query" => s \in Querying
  <2>1. c \in clients[p]
    OBVIOUS
  <2>2. c.turn \in Turns
    BY <2>1 DEF Typed
  <2> QED
    BY <2>1, <2>2
<1>2. /\ ProcessOf[c.turn] = p
      /\ c.use = "lock"  => pc[c.turn] \in Owning
      /\ c.use = "query" => pc[c.turn] \in Querying
  BY <1>1 DEF NoConnectionLeaks
<1>3. CASE c.turn = t
  <2>1. pc'[c.turn] = s
    BY <1>1, <1>3 DEF Typed
  <2> QED
    BY <1>1, <1>2, <1>3, <2>1
<1>4. CASE c.turn # t
  <2>1. pc'[c.turn] = pc[c.turn]
    BY <1>1, <1>4 DEF Typed
  <2> QED
    BY <1>2, <2>1
<1> QED
  BY <1>3, <1>4

\* Every step keeps the connections accounted for.
LEMMA PoolStep == ASSUME PoolInv, [Next]_vars PROVE PoolInv'
<1>0. Typed /\ Typed' /\ PendingLocal /\ NoConnectionLeaks
  BY NextTyped DEF PoolInv
<1>1. CASE UNCHANGED vars
  BY <1>0, <1>1 DEF PoolInv, PendingLocal, NoConnectionLeaks, vars
<1>2. ASSUME NEW t \in Turns,
             Receive(t) \/ ReceiveConnected(t) \/ Query(t)
      PROVE  PoolInv'
  <2>1. PendingLocal'
    BY <1>0, <1>2, AskLocal DEF Receive, ReceiveConnected, Query
  <2>2. PICK s \in States :
          /\ pc' = [pc EXCEPT ![t] = s]
          /\ pc[t] = "idle" \/ (pc[t] = "inside" /\ s = "queries")
    BY <1>2 DEF Receive, ReceiveConnected, Query, States, Querying, Owning
  <2>3. UNCHANGED clients
    BY <1>2 DEF Receive, ReceiveConnected, Query
  <2>4. NoConnectionLeaks'
    BY <1>0, <2>2, <2>3, KeepsFitting
    DEF NoConnectionLeaks, Querying, Owning
  <2> QED
    BY <1>0, <2>1, <2>4 DEF PoolInv
<1>3. ASSUME NEW t \in Turns,
             ReadsDone(t) \/ QueryDone(t) \/ RecordsDone(t)
      PROVE  PoolInv'
  <2>1. PendingLocal'
    <3>1. CASE Ask(t)
      BY <1>0, <3>1, AskLocal
    <3>2. CASE UNCHANGED pending
      BY <1>0, <3>2 DEF PendingLocal
    <3> QED
      BY <1>3, <3>1, <3>2 DEF ReadsDone, QueryDone, RecordsDone
  <2>2. PICK s \in States :
          /\ pc' = [pc EXCEPT ![t] = s]
          /\ \/ pc[t] = "queries" /\ s = "inside"
             \/ pc[t] \in { "reads", "records" }
    BY <1>3 DEF ReadsDone, QueryDone, RecordsDone, States, Querying, Owning
  <2>3. GiveBack(t, "query")
    BY <1>3 DEF ReadsDone, QueryDone, RecordsDone
  <2>4. \A p \in Processes : \A c \in clients'[p] :
          /\ c \in clients[p]
          /\ c.turn = t => c.use # "query"
    BY <1>0, <2>3, TurnsAssumption
    DEF Typed, GiveBack, Client, NoConnectionLeaks
  <2>5. NoConnectionLeaks'
    BY <1>0, <2>2, <2>4, KeepsFitting
    DEF NoConnectionLeaks, Querying, Owning
  <2> QED
    BY <1>0, <2>1, <2>5 DEF PoolInv
<1>4. ASSUME NEW t \in Turns, Lock(t) \/ Unlock(t) PROVE PoolInv'
  <2>1. PendingLocal'
    BY <1>0, <1>4 DEF PendingLocal, Lock, Unlock
  <2>2. PICK s \in { "inside", "unlocked" } :
          /\ pc' = [pc EXCEPT ![t] = s]
          /\ pc[t] \in { "locks", "inside" }
    BY <1>4 DEF Lock, Unlock
  <2>3. UNCHANGED clients /\ s \in States
    BY <1>4 DEF Lock, Unlock, States, Owning
  <2>4. NoConnectionLeaks'
    BY <1>0, <2>2, <2>3, KeepsFitting
    DEF NoConnectionLeaks, Querying, Owning
  <2> QED
    BY <1>0, <2>1, <2>4 DEF PoolInv
<1>5. ASSUME NEW t \in Turns, Release(t) PROVE PoolInv'
  <2>1. PendingLocal'
    <3>1. CASE Ask(t)
      BY <1>0, <3>1, AskLocal
    <3>2. CASE UNCHANGED pending
      BY <1>0, <3>2 DEF PendingLocal
    <3> QED
      BY <1>5, <3>1, <3>2 DEF Release
  <2>2. PICK s \in States : pc' = [pc EXCEPT ![t] = s]
    BY <1>5 DEF Release, States, Querying
  <2>3. GiveBack(t, "lock") /\ pc[t] = "unlocked"
    BY <1>5 DEF Release
  <2>4. \A p \in Processes : \A c \in clients'[p] :
          /\ c \in clients[p]
          /\ c.turn = t => c.use # "lock"
    BY <1>0, <2>3, TurnsAssumption
    DEF Typed, GiveBack, Client, NoConnectionLeaks
  <2>5. NoConnectionLeaks'
    BY <1>0, <2>2, <2>3, <2>4, KeepsFitting
    DEF NoConnectionLeaks, Querying
  <2> QED
    BY <1>0, <2>1, <2>5 DEF PoolInv
<1>6. ASSUME NEW p \in Processes, Grant(p) PROVE PoolInv'
  <2> DEFINE t == Head(pending[p])
  <2>1. t \in Turns /\ PendingLocal' /\ ProcessOf[t] = p
    BY <1>0, <1>6, HeadTyped, TailLocal DEF Grant
  <2>2. PICK use \in { "lock", "query" }, s \in States :
          /\ clients' = [clients EXCEPT ![p] = @ \cup { Client(t, use) }]
          /\ pc' = [pc EXCEPT ![t] = s]
          /\ \/ use = "lock" /\ pc[t] = "connects" /\ s = "locks"
             \/ use = "query" /\ pc[t] \in Querying /\ s = pc[t]
    <3>1. CASE pc[t] = "connects"
      BY <1>6, <3>1 DEF Grant, Querying, States, Owning
    <3>2. CASE pc[t] \in Querying
      <4>1. pc' = [pc EXCEPT ![t] = pc[t]]
        BY <1>0, <1>6, <3>2 DEF Grant, Typed, Querying
      <4> QED
        BY <1>6, <3>2, <4>1 DEF Grant, Querying, States
    <3> QED
      BY <1>6, <3>1, <3>2 DEF Grant
  <2>3. ASSUME NEW q \in Processes, NEW c \in clients'[q]
        PROVE  /\ ProcessOf[c.turn] = q
               /\ c.use = "lock"  => pc'[c.turn] \in Owning
               /\ c.use = "query" => pc'[c.turn] \in Querying
    <3>1. c \in clients[q] \/ (q = p /\ c = Client(t, use))
      BY <1>0, <2>2, <2>3 DEF Typed
    <3>2. CASE q = p /\ c = Client(t, use)
      BY <1>0, <2>1, <2>2, <3>2 DEF Typed, Client, Owning
    <3>3. CASE c \in clients[q]
      <4>1. c.turn \in Turns
        BY <1>0, <3>3 DEF Typed
      <4> QED
        BY <1>0, <2>1, <2>2, <3>3, <4>1
        DEF Typed, NoConnectionLeaks, Owning, Querying
    <3> QED
      BY <3>1, <3>2, <3>3
  <2> QED
    BY <1>0, <2>1, <2>3 DEF PoolInv, NoConnectionLeaks
<1>7. ASSUME NEW p \in Processes, Crash(p) PROVE PoolInv'
  <2>1. /\ pc' = [u \in Turns |-> IF ProcessOf[u] # p THEN pc[u] ELSE "idle"]
        /\ clients' = [clients EXCEPT ![p] = {}]
        /\ pending' = [pending EXCEPT ![p] = << >>]
    BY <1>7 DEF Crash
  <2>2. PendingLocal'
    BY <1>0, <2>1 DEF Typed, PendingLocal
  <2>3. NoConnectionLeaks'
    BY <1>0, <2>1 DEF Typed, NoConnectionLeaks
  <2> QED
    BY <1>0, <2>2, <2>3 DEF PoolInv
<1> QED
  BY <1>1, <1>2, <1>3, <1>4, <1>5, <1>6, <1>7 DEF Next, TurnStep

\* A pool never loses a connection: every one that is out belongs to a turn of the
\* process that is where it needs it (the finally of withThreadLock, pool.query).
THEOREM PoolAccounted == Spec => []NoConnectionLeaks
<1>1. Init => PoolInv
  BY PoolInit
<1>2. PoolInv /\ [Next]_vars => PoolInv'
  BY PoolStep
<1>3. PoolInv => NoConnectionLeaks
  BY DEF PoolInv
<1> QED
  BY <1>1, <1>2, <1>3, PTL DEF Spec

-----------------------------------------------------------------------------
(***************************************************************************)
(* Nobody waits for ever on everybody.                                     *)
(***************************************************************************)
\* The turns in a queue, each of them once.
Elems(s) == { s[i] : i \in 1..Len(s) }

Once(s) == \A i, j \in 1..Len(s) : s[i] = s[j] => i = j

\* What is in a queue that one more is put into.
LEMMA AppendElems ==
  ASSUME NEW S, NEW s \in Seq(S), NEW x \in S
  PROVE  /\ Elems(Append(s, x)) = Elems(s) \cup { x }
         /\ Once(s) /\ x \notin Elems(s) => Once(Append(s, x))
<1> DEFINE q == Append(s, x)
<1>1. /\ Len(q) = Len(s) + 1 /\ Len(s) \in Nat
      /\ q[Len(s) + 1] = x
      /\ \A i \in 1..Len(s) : q[i] = s[i]
  OBVIOUS
<1> HIDE DEF q
<1>2. \A i \in 1..Len(q) : i \in 1..Len(s) \/ i = Len(s) + 1
  BY <1>1
<1>3. Len(s) + 1 \in 1..Len(q) /\ 1..Len(s) \subseteq 1..Len(q)
  BY <1>1
<1>4. Elems(q) = Elems(s) \cup { x }
  BY <1>1, <1>2, <1>3 DEF Elems
<1>5. Once(s) /\ x \notin Elems(s) => Once(q)
  BY <1>1, <1>2 DEF Once, Elems
<1> QED
  BY <1>4, <1>5 DEF q

\* What is left in a queue when its first is served.
LEMMA TailElems ==
  ASSUME NEW S, NEW s \in Seq(S), s # << >>, Once(s)
  PROVE  /\ Elems(Tail(s)) = Elems(s) \ { Head(s) }
         /\ Once(Tail(s))
         /\ Head(s) \in Elems(s)
<1> DEFINE q == Tail(s)
<1>1. /\ Len(q) = Len(s) - 1 /\ Len(s) \in Nat /\ Len(s) >= 1
      /\ Head(s) = s[1]
      /\ \A i \in 1..Len(q) : q[i] = s[i + 1]
  OBVIOUS
<1> HIDE DEF q
<1>2. \A i \in 1..Len(q) : i + 1 \in 1..Len(s) /\ i + 1 # 1
  BY <1>1
<1>3. \A i \in 1..Len(s) : i = 1 \/ (i - 1 \in 1..Len(q) /\ (i - 1) + 1 = i)
  BY <1>1
<1>4. 1 \in 1..Len(s)
  BY <1>1
<1>5. Head(s) \in Elems(s)
  BY <1>1, <1>4 DEF Elems
<1>6. ASSUME NEW e \in Elems(q) PROVE e \in Elems(s) \ { Head(s) }
  <2>1. PICK i \in 1..Len(q) : e = q[i]
    BY DEF Elems
  <2>2. e = s[i + 1] /\ i + 1 \in 1..Len(s) /\ i + 1 # 1
    BY <1>1, <1>2, <2>1
  <2> QED
    BY <1>1, <1>4, <2>2 DEF Elems, Once
<1>7. ASSUME NEW e \in Elems(s) \ { Head(s) } PROVE e \in Elems(q)
  <2>1. PICK i \in 1..Len(s) : e = s[i]
    BY DEF Elems
  <2>2. i # 1
    BY <1>1, <2>1
  <2>3. i - 1 \in 1..Len(q) /\ q[i - 1] = e
    BY <1>1, <1>3, <2>1, <2>2
  <2> QED
    BY <2>3 DEF Elems
<1>8. ASSUME NEW i \in 1..Len(q), NEW j \in 1..Len(q), q[i] = q[j] PROVE i = j
  <2>1. s[i + 1] = s[j + 1] /\ i + 1 \in 1..Len(s) /\ j + 1 \in 1..Len(s)
    BY <1>1, <1>2, <1>8
  <2>2. i + 1 = j + 1
    BY <2>1 DEF Once
  <2> QED
    BY <2>2
<1>9. Once(q)
  BY <1>8 DEF Once
<1> QED
  BY <1>5, <1>6, <1>7, <1>9 DEF q

\* A turn that wants a connection and has none.
Wants(t) == pc[t] = "connects" \/ (pc[t] \in Querying /\ ~ HasClient(t, "query"))

\* The queue of a pool is who wants a connection of it, each once.
QueueInv ==
  \A p \in Processes :
    /\ Once(pending[p])
    /\ \A t \in Turns : t \in Elems(pending[p]) <=> ProcessOf[t] = p /\ Wants(t)

\* Those before a turn wait for the same lock, and come with those before them.
OrderInv ==
  \A t \in Turns :
    /\ ahead[t] \subseteq Waiting(ThreadOf[t])
    /\ t \notin ahead[t]
    /\ \A u \in ahead[t] : ahead[u] \subseteq ahead[t]
    /\ pc[t] # "locks" => ahead[t] = {}

WaitInv == LockInv /\ PoolInv /\ QueueInv /\ OrderInv

\* Nobody waits at first.
LEMMA WaitInit == ASSUME Init PROVE WaitInv
<1>1. Once(<< >>) /\ Elems(<< >>) = {}
  BY DEF Once, Elems
<1>2. QueueInv
  BY <1>1 DEF Init, QueueInv, Wants, Querying
<1>3. OrderInv
  BY DEF Init, OrderInv
<1> QED
  BY <1>2, <1>3, LockInit, PoolInit DEF WaitInv

\* A turn that neither wanted nor wants a connection leaves the queues alone.
LEMMA QueueStays ==
  ASSUME QueueInv, UNCHANGED pending,
         \A t \in Turns : Wants(t)' <=> Wants(t)
  PROVE  QueueInv'
  BY DEF QueueInv

\* One that asks is put at the end.
LEMMA QueueGrows ==
  ASSUME Typed, QueueInv, NEW t \in Turns, Ask(t), ~ Wants(t), Wants(t)',
         \A u \in Turns \ {t} : Wants(u)' <=> Wants(u)
  PROVE  QueueInv'
<1> SUFFICES ASSUME NEW p \in Processes
             PROVE  /\ Once(pending'[p])
                    /\ \A u \in Turns : u \in Elems(pending'[p]) <=> ProcessOf[u] = p /\ Wants(u)'
  BY DEF QueueInv
<1>1. pending[p] \in Seq(Turns) /\ Once(pending[p])
      /\ \A u \in Turns : u \in Elems(pending[p]) <=> ProcessOf[u] = p /\ Wants(u)
  BY DEF Typed, QueueInv
<1>2. CASE ProcessOf[t] = p
  <2>1. pending'[p] = Append(pending[p], t)
    BY <1>2 DEF Ask, Typed
  <2>2. t \notin Elems(pending[p])
    BY <1>1
  <2>3. Elems(pending'[p]) = Elems(pending[p]) \cup {t} /\ Once(pending'[p])
    BY <1>1, <2>1, <2>2, AppendElems
  <2> QED
    BY <1>1, <1>2, <2>3
<1>3. CASE ProcessOf[t] # p
  <2>1. pending'[p] = pending[p]
    BY <1>3 DEF Ask, Typed
  <2> QED
    BY <1>1, <1>3, <2>1
<1> QED
  BY <1>2, <1>3

\* The first of the queue that is served leaves it.
LEMMA QueueServes ==
  ASSUME Typed, QueueInv, NEW p \in Processes, pending[p] # << >>,
         pending' = [pending EXCEPT ![p] = Tail(@)],
         NEW t \in Turns, t = Head(pending[p]), ~ Wants(t)',
         \A u \in Turns \ {t} : Wants(u)' <=> Wants(u)
  PROVE  QueueInv'
<1>1. pending[p] \in Seq(Turns) /\ Once(pending[p])
  BY DEF Typed, QueueInv
<1>2. /\ Elems(Tail(pending[p])) = Elems(pending[p]) \ {t} /\ Once(Tail(pending[p]))
      /\ t \in Elems(pending[p])
  BY <1>1, TailElems
<1>3. ProcessOf[t] = p
  BY <1>1, <1>2 DEF QueueInv
<1>4. ~ Wants(t)' /\ \A u \in Turns : u # t => (Wants(u)' <=> Wants(u))
  OBVIOUS
<1>5. Typed /\ QueueInv /\ pending' = [pending EXCEPT ![p] = Tail(@)]
  OBVIOUS
<1>6. ASSUME NEW q \in Processes
      PROVE  /\ Once(pending'[q])
             /\ \A u \in Turns : u \in Elems(pending'[q]) <=> ProcessOf[u] = q /\ Wants(u)'
  <2>1. CASE q = p
    <3>1. pending'[q] = Tail(pending[p])
      BY <1>5, <2>1 DEF Typed
    <3>2. \A u \in Turns : u \in Elems(pending[p]) <=> ProcessOf[u] = p /\ Wants(u)
      BY <1>5 DEF QueueInv
    <3> QED
      BY <1>1, <1>2, <1>4, <2>1, <3>1, <3>2
  <2>2. CASE q # p
    <3>1. pending'[q] = pending[q]
      BY <1>5, <2>2 DEF Typed
    <3>2. Once(pending[q]) /\ \A u \in Turns : u \in Elems(pending[q]) <=> ProcessOf[u] = q /\ Wants(u)
      BY <1>5 DEF QueueInv
    <3> QED
      BY <1>3, <1>4, <2>2, <3>1, <3>2
  <2> QED
    BY <2>1, <2>2
<1> QED
  BY <1>6 DEF QueueInv

\* Every step keeps the queues of the pools.
LEMMA QueueStep == ASSUME WaitInv, [Next]_vars PROVE QueueInv'
<1>0. Typed /\ Typed' /\ QueueInv /\ NoConnectionLeaks
  BY NextTyped DEF WaitInv, PoolInv
<1> USE DEF Querying
<1>1. CASE UNCHANGED vars
  BY <1>0, <1>1, QueueStays DEF vars, Wants, HasClient
<1>2. ASSUME NEW t \in Turns, Receive(t) \/ ReceiveConnected(t) \/ Query(t) PROVE QueueInv'
  <2>1. /\ Ask(t) /\ UNCHANGED clients
        /\ pc[t] \in { "idle", "inside" }
        /\ \E s \in { "reads", "connects", "queries" } : pc' = [pc EXCEPT ![t] = s]
    BY <1>2 DEF Receive, ReceiveConnected, Query
  <2>2. ~ HasClient(t, "query")
    BY <1>0, <2>1, TurnsAssumption DEF NoConnectionLeaks, HasClient, Client
  <2>3. ~ Wants(t) /\ Wants(t)'
    BY <1>0, <2>1, <2>2 DEF Wants, HasClient, Typed
  <2>4. \A u \in Turns \ {t} : Wants(u)' <=> Wants(u)
    BY <1>0, <2>1 DEF Wants, HasClient, Typed
  <2> QED
    BY <1>0, <2>1, <2>3, <2>4, QueueGrows
<1>3. ASSUME NEW t \in Turns, ReadsDone(t) \/ QueryDone(t) \/ RecordsDone(t) PROVE QueueInv'
  <2>1. /\ GiveBack(t, "query") /\ HasClient(t, "query") /\ ProcessOf[t] \in Processes
        /\ pc[t] \in Querying
    BY <1>3, TurnsAssumption DEF ReadsDone, QueryDone, RecordsDone
  <2>2. \A u \in Turns : HasClient(u, "query")' <=> u # t /\ HasClient(u, "query")
    BY <1>0, <2>1, TurnsAssumption DEF HasClient, GiveBack, Client, Typed
  <2>3. ~ Wants(t)
    BY <2>1 DEF Wants
  <2>4. PICK s : /\ pc' = [pc EXCEPT ![t] = s]
                 /\ \/ s \in { "connects", "records" } /\ Ask(t)
                    \/ s \in { "inside", "idle" } /\ UNCHANGED pending
    BY <1>3 DEF ReadsDone, QueryDone, RecordsDone
  <2>5. \A u \in Turns \ {t} : Wants(u)' <=> Wants(u)
    BY <1>0, <2>2, <2>4 DEF Wants, Typed
  <2>6. pc'[t] = s
    BY <1>0, <2>4 DEF Typed
  <2>7. CASE s \in { "connects", "records" } /\ Ask(t)
    <3>1. Wants(t)'
      BY <2>2, <2>6, <2>7 DEF Wants
    <3> QED
      BY <1>0, <2>3, <2>5, <2>7, <3>1, QueueGrows
  <2>8. CASE s \in { "inside", "idle" } /\ UNCHANGED pending
    <3>1. ~ Wants(t)'
      BY <2>6, <2>8 DEF Wants
    <3> QED
      BY <1>0, <2>3, <2>5, <2>8, <3>1, QueueStays
  <2> QED
    BY <2>4, <2>7, <2>8
<1>4. ASSUME NEW t \in Turns, Lock(t) \/ Unlock(t) PROVE QueueInv'
  <2>1. /\ UNCHANGED << pending, clients >> /\ pc[t] \in { "locks", "inside" }
        /\ \E s \in { "inside", "unlocked" } : pc' = [pc EXCEPT ![t] = s]
    BY <1>4 DEF Lock, Unlock
  <2>2. \A u \in Turns : Wants(u)' <=> Wants(u)
    BY <1>0, <2>1 DEF Wants, HasClient, Typed
  <2> QED
    BY <1>0, <2>1, <2>2, QueueStays
<1>5. ASSUME NEW t \in Turns, Release(t) PROVE QueueInv'
  <2>1. GiveBack(t, "lock") /\ pc[t] = "unlocked" /\ ProcessOf[t] \in Processes
    BY <1>5, TurnsAssumption DEF Release
  <2>2. ~ HasClient(t, "query")
    BY <1>0, <2>1 DEF NoConnectionLeaks, HasClient, Client
  <2>3. \A u \in Turns : HasClient(u, "query")' <=> HasClient(u, "query")
    BY <1>0, <2>1, TurnsAssumption DEF HasClient, GiveBack, Client, Typed
  <2>4. PICK s : /\ pc' = [pc EXCEPT ![t] = s]
                 /\ \/ s = "records" /\ Ask(t)
                    \/ s = "idle" /\ UNCHANGED pending
    BY <1>5 DEF Release
  <2>5. pc'[t] = s /\ ~ Wants(t)
    BY <1>0, <2>1, <2>4 DEF Typed, Wants
  <2>6. \A u \in Turns \ {t} : Wants(u)' <=> Wants(u)
    BY <1>0, <2>3, <2>4 DEF Wants, Typed
  <2>7. CASE s = "records" /\ Ask(t)
    <3>1. Wants(t)'
      BY <2>2, <2>3, <2>5, <2>7 DEF Wants
    <3> QED
      BY <1>0, <2>5, <2>6, <2>7, <3>1, QueueGrows
  <2>8. CASE s = "idle" /\ UNCHANGED pending
    <3>1. ~ Wants(t)'
      BY <2>5, <2>8 DEF Wants
    <3> QED
      BY <1>0, <2>5, <2>6, <2>8, <3>1, QueueStays
  <2> QED
    BY <2>4, <2>7, <2>8
<1>6. ASSUME NEW p \in Processes, Grant(p) PROVE QueueInv'
  <2>0. PICK t \in Turns : t = Head(pending[p])
    BY <1>0, <1>6, HeadTyped DEF Grant
  <2>1. /\ t \in Turns /\ pending[p] # << >>
        /\ pending' = [pending EXCEPT ![p] = Tail(@)]
    BY <1>6 DEF Grant
  <2>2. ProcessOf[t] = p
    BY <1>0, <2>0, <2>1, TailLocal DEF WaitInv, PoolInv
  <2>3. PICK use \in { "lock", "query" }, s \in States :
          /\ clients' = [clients EXCEPT ![p] = @ \cup { Client(t, use) }]
          /\ \/ use = "lock" /\ s = "locks" /\ pc' = [pc EXCEPT ![t] = s]
             \/ use = "query" /\ s = pc[t] /\ s \in Querying /\ UNCHANGED pc
    BY <1>6, <2>0 DEF Grant, States, Owning
  <2>4. \A u \in Turns \ {t} : HasClient(u, "query")' <=> HasClient(u, "query")
    BY <1>0, <2>3, TurnsAssumption DEF HasClient, Client, Typed
  <2>5. \A u \in Turns \ {t} : Wants(u)' <=> Wants(u)
    BY <1>0, <2>3, <2>4 DEF Wants, Typed
  <2>6. clients'[p] = clients[p] \cup { Client(t, use) }
    BY <1>0, <2>3 DEF Typed
  <2>7. ~ Wants(t)'
    <3>1. CASE use = "lock" /\ pc' = [pc EXCEPT ![t] = "locks"]
      <4>1. pc'[t] = "locks"
        BY <1>0, <2>1, <3>1 DEF Typed
      <4> QED
        BY <4>1 DEF Wants
    <3>2. CASE use = "query" /\ pc[t] \in Querying /\ UNCHANGED pc
      <4>1. HasClient(t, "query")'
        BY <2>2, <2>6, <3>2 DEF HasClient
      <4> QED
        BY <3>2, <4>1 DEF Wants
    <3> QED
      BY <2>3, <3>1, <3>2
  <2> QED
    BY <1>0, <2>0, <2>1, <2>5, <2>7, QueueServes
<1>7. ASSUME NEW p \in Processes, Crash(p) PROVE QueueInv'
  <2>1. /\ pc' = [u \in Turns |-> IF ProcessOf[u] # p THEN pc[u] ELSE "idle"]
        /\ clients' = [clients EXCEPT ![p] = {}]
        /\ pending' = [pending EXCEPT ![p] = << >>]
    BY <1>7 DEF Crash
  <2>2. Once(<< >>) /\ Elems(<< >>) = {}
    BY DEF Once, Elems
  <2>3. \A u \in Turns : ProcessOf[u] = p => ~ Wants(u)'
    BY <2>1 DEF Wants
  <2>4. \A u \in Turns : ProcessOf[u] # p => (Wants(u)' <=> Wants(u))
    BY <1>0, <2>1 DEF Wants, HasClient, Typed
  <2>5. ASSUME NEW q \in Processes
        PROVE  /\ Once(pending'[q])
               /\ \A u \in Turns : u \in Elems(pending'[q]) <=> ProcessOf[u] = q /\ Wants(u)'
    <3>1. CASE q = p
      <4>1. pending'[q] = << >>
        BY <1>0, <2>1, <3>1 DEF Typed
      <4> QED
        BY <2>2, <2>3, <3>1, <4>1
    <3>2. CASE q # p
      <4>1. pending'[q] = pending[q]
        BY <1>0, <2>1, <3>2 DEF Typed
      <4> QED
        BY <1>0, <2>4, <3>2, <4>1 DEF QueueInv
    <3> QED
      BY <3>1, <3>2
  <2> QED
    BY <2>5 DEF QueueInv
<1> QED
  BY <1>1, <1>2, <1>3, <1>4, <1>5, <1>6, <1>7 DEF Next, TurnStep

\* Every step keeps the order of those who wait for a lock.
LEMMA OrderStep == ASSUME WaitInv, [Next]_vars PROVE OrderInv'
<1>0. Typed /\ Typed' /\ OrderInv
  BY NextTyped DEF WaitInv, PoolInv
<1>1. ASSUME UNCHANGED ahead, \A t \in Turns : pc'[t] = "locks" <=> pc[t] = "locks"
      PROVE  OrderInv'
  BY <1>0, <1>1 DEF OrderInv, Waiting
<1>2. CASE UNCHANGED vars
  BY <1>1, <1>2 DEF vars
<1>3. ASSUME NEW t \in Turns,
             \/ Receive(t) \/ ReceiveConnected(t) \/ ReadsDone(t) \/ Query(t) \/ QueryDone(t)
             \/ Unlock(t) \/ Release(t) \/ RecordsDone(t)
      PROVE  OrderInv'
  <2>1. UNCHANGED ahead /\ pc[t] # "locks" /\ \E s : s # "locks" /\ pc' = [pc EXCEPT ![t] = s]
    BY <1>3 DEF Receive, ReceiveConnected, ReadsDone, Query, QueryDone, Unlock, Release, RecordsDone
  <2> QED
    BY <1>0, <1>1, <2>1 DEF Typed
<1>4. ASSUME NEW t \in Turns, Lock(t) PROVE OrderInv'
  <2>1. /\ pc[t] = "locks" /\ ahead[t] = {}
        /\ pc' = [pc EXCEPT ![t] = "inside"]
        /\ ahead' = [u \in Turns |-> ahead[u] \ {t}]
    BY <1>4 DEF Lock
  <2>2. \A u \in Turns : Waiting(ThreadOf[u])' = Waiting(ThreadOf[u]) \ {t}
    BY <1>0, <2>1 DEF Waiting, Typed
  <2>3. \A u \in Turns : ahead'[u] = ahead[u] \ {t} /\ (pc'[u] # "locks" => pc[u] # "locks" \/ u = t)
    BY <1>0, <2>1 DEF Typed
  <2>4. \A u \in Turns : \A v \in ahead[u] : v \in Turns
    BY <1>0 DEF Typed
  <2> QED
    BY <1>0, <2>1, <2>2, <2>3, <2>4 DEF OrderInv
<1>5. ASSUME NEW p \in Processes, Grant(p) PROVE OrderInv'
  <2> DEFINE t == Head(pending[p])
  <2>1. t \in Turns
    BY <1>0, <1>5, HeadTyped DEF Grant
  <2>2. CASE UNCHANGED << pc, ahead >>
    BY <1>1, <2>2
  <2>3. CASE /\ pc[t] = "connects" /\ pc' = [pc EXCEPT ![t] = "locks"]
             /\ ahead' = [ahead EXCEPT ![t] = Waiting(ThreadOf[t])]
    <3> HIDE DEF t
    <3>1. \A u \in Turns : u # t => ahead'[u] = ahead[u] /\ pc'[u] = pc[u]
      BY <1>0, <2>3 DEF Typed
    <3>2. ahead'[t] = Waiting(ThreadOf[t]) /\ pc'[t] = "locks"
      BY <1>0, <2>1, <2>3 DEF Typed
    <3>3. \A u \in Turns : Waiting(ThreadOf[u]) \subseteq Waiting(ThreadOf[u])' /\ t \notin Waiting(ThreadOf[u])
      BY <2>3, <3>1, <3>2 DEF Waiting
    <3>4. \A u \in Turns : t \notin ahead[u]
      BY <1>0, <3>3 DEF OrderInv
    <3>5. \A u \in Waiting(ThreadOf[t]) : u \in Turns /\ u # t /\ ahead[u] \subseteq Waiting(ThreadOf[t])
      BY <1>0, <2>1, <3>3 DEF OrderInv, Waiting
    <3>6. ASSUME NEW u \in Turns
          PROVE  /\ ahead'[u] \subseteq Waiting(ThreadOf[u])'
                 /\ u \notin ahead'[u]
                 /\ \A v \in ahead'[u] : ahead'[v] \subseteq ahead'[u]
                 /\ pc'[u] # "locks" => ahead'[u] = {}
      <4>1. CASE u = t
        BY <2>1, <3>1, <3>2, <3>3, <3>5, <4>1
      <4>2. CASE u # t
        <5>1. \A v \in ahead[u] : v \in Turns /\ v # t
          BY <1>0, <3>4 DEF Typed
        <5> QED
          BY <1>0, <3>1, <3>3, <4>2, <5>1 DEF OrderInv
      <4> QED
        BY <4>1, <4>2
    <3> QED
      BY <3>6 DEF OrderInv
  <2> QED
    BY <1>5, <2>2, <2>3 DEF Grant
<1>6. ASSUME NEW p \in Processes, Crash(p) PROVE OrderInv'
  <2>1. /\ pc' = [u \in Turns |-> IF ProcessOf[u] # p THEN pc[u] ELSE "idle"]
        /\ ahead' = [t \in Turns |-> IF ProcessOf[t] # p
                                       THEN { u \in ahead[t] : ProcessOf[u] # p } ELSE {}]
    BY <1>6 DEF Crash
  <2>2. ASSUME NEW u \in Turns
        PROVE  /\ ahead'[u] \subseteq Waiting(ThreadOf[u])'
               /\ u \notin ahead'[u]
               /\ \A v \in ahead'[u] : ahead'[v] \subseteq ahead'[u]
               /\ pc'[u] # "locks" => ahead'[u] = {}
    <3>1. CASE ProcessOf[u] = p
      BY <2>1, <3>1
    <3>2. CASE ProcessOf[u] # p
      <4>1. ahead'[u] = { v \in ahead[u] : ProcessOf[v] # p } /\ pc'[u] = pc[u]
        BY <2>1, <3>2
      <4>2. \A v \in ahead'[u] : /\ v \in Turns /\ v \in ahead[u] /\ ProcessOf[v] # p
                                 /\ pc'[v] = pc[v]
                                 /\ ahead'[v] = { w \in ahead[v] : ProcessOf[w] # p }
        BY <1>0, <2>1, <4>1 DEF Typed
      <4>3. ahead'[u] \subseteq Waiting(ThreadOf[u])'
        BY <1>0, <4>2 DEF OrderInv, Waiting
      <4> QED
        BY <1>0, <4>1, <4>2, <4>3 DEF OrderInv
    <3> QED
      BY <3>1, <3>2
  <2> QED
    BY <2>2 DEF OrderInv
<1> QED
  BY <1>2, <1>3, <1>4, <1>5, <1>6 DEF Next, TurnStep

\* A turn whose next step nothing stands in the way of, and a pool that can serve.
CanMove(t) ==
  \/ pc[t] \in Querying /\ HasClient(t, "query")
  \/ pc[t] = "locks" /\ Free(t) /\ ahead[t] = {}
  \/ pc[t] \in { "inside", "unlocked" }

CanServe(p) ==
  /\ pending[p] # << >> /\ Room(p)
  /\ pc[Head(pending[p])] \in { "connects" } \cup Querying

NeverStuck ==
  (\E t \in Turns : pc[t] # "idle") =>
    (\E t \in Turns : CanMove(t)) \/ (\E p \in Processes : CanServe(p))

TurnsOf(p) == { t \in Turns : ProcessOf[t] = p }

\* Every set of natural numbers that is not empty has a least element.
LEMMA SetsHaveMin ==
  ASSUME NEW T \in SUBSET Nat, T # {}
  PROVE  \E x \in T : \A y \in T : x <= y
<1> DEFINE R == OpToRel(<, Nat)
<1>1. IsWellFoundedOn(R, Nat)
  BY NatLessThanWellFounded, Zenon
<1>2. ASSUME NEW x \in Nat, NEW y \in Nat
      PROVE  << x, y >> \in R <=> x < y
  BY Zenon DEF OpToRel
<1> HIDE DEF R
<1>3. PICK x \in T : \A y \in T : ~ (<< y, x >> \in R)
  BY <1>1, WFMin
<1>4. ASSUME NEW y \in T PROVE x <= y
  <2>1. x \in Nat /\ y \in Nat
    OBVIOUS
  <2>2. ~ (y < x)
    BY <1>2, <1>3, <2>1
  <2> QED
    BY <2>1, <2>2
<1> QED
  BY <1>4

\* Of those who wait for a lock one is first.
LEMMA SomebodyIsFirst ==
  ASSUME IsFiniteSet(Turns), Typed, OrderInv, NEW th \in Threads, Waiting(th) # {}
  PROVE  \E t \in Waiting(th) : ahead[t] = {}
<1>1. ASSUME NEW t \in Turns PROVE IsFiniteSet(ahead[t]) /\ Cardinality(ahead[t]) \in Nat
  <2>1. ahead[t] \subseteq Turns
    BY DEF Typed
  <2> QED
    BY <2>1, FS_Subset, FS_CardinalityType
<1> DEFINE T == { Cardinality(ahead[t]) : t \in Waiting(th) }
<1>2. T \in SUBSET Nat /\ T # {}
  BY <1>1 DEF Waiting
<1>3. \E x \in T : \A y \in T : x <= y
  <2> HIDE DEF T
  <2> QED
    BY <1>2, SetsHaveMin
<1>4. PICK t \in Waiting(th) : \A u \in Waiting(th) : Cardinality(ahead[t]) <= Cardinality(ahead[u])
  BY <1>3
<1>5. t \in Turns /\ ThreadOf[t] = th
  BY DEF Waiting
<1>6. ASSUME NEW u \in ahead[t] PROVE FALSE
  <2>1. u \in Waiting(th) /\ u \in Turns /\ u \notin ahead[u] /\ ahead[u] \subseteq ahead[t]
    BY <1>5 DEF OrderInv, Waiting
  <2>2. Cardinality(ahead[u]) < Cardinality(ahead[t])
    <3>1. ahead[u] # ahead[t]
      BY <2>1
    <3> QED
      BY <1>1, <1>5, <2>1, <3>1, FS_Subset
  <2> QED
    BY <1>1, <1>4, <1>5, <2>1, <2>2
<1> QED
  BY <1>6

\* A pool with more connections than turns is not full of connections kept for locks.
LEMMA SomebodyQueries ==
  ASSUME Typed, NoConnectionLeaks, Bounded, NEW p \in Processes, ~ Room(p),
         IsFiniteSet(TurnsOf(p)), Cardinality(TurnsOf(p)) < PoolSize
  PROVE  \E t \in Turns : pc[t] \in Querying /\ HasClient(t, "query")
<1>1. SUFFICES ASSUME \A c \in clients[p] : c.use # "query" PROVE FALSE
  <2>1. ASSUME NEW c \in clients[p], c.use = "query"
        PROVE  \E t \in Turns : pc[t] \in Querying /\ HasClient(t, "query")
    <3>1. /\ c.turn \in Turns /\ ProcessOf[c.turn] = p /\ pc[c.turn] \in Querying
          /\ c = Client(c.turn, "query")
      BY <2>1 DEF Typed, NoConnectionLeaks, Client
    <3> QED
      BY <3>1 DEF HasClient
  <2> QED
    BY <2>1
<1> DEFINE kept == { Client(t, "lock") : t \in TurnsOf(p) }
<1>2. clients[p] \subseteq kept
  <2> SUFFICES ASSUME NEW c \in clients[p] PROVE c \in kept
    OBVIOUS
  <2>1. c.turn \in TurnsOf(p) /\ c = Client(c.turn, "lock")
    BY <1>1 DEF Typed, NoConnectionLeaks, TurnsOf, Client
  <2> QED
    BY <2>1
<1>3. IsFiniteSet(kept) /\ Cardinality(kept) <= Cardinality(TurnsOf(p))
  <2> DEFINE f == [ t \in TurnsOf(p) |-> Client(t, "lock") ]
  <2>1. f \in Surjection(TurnsOf(p), kept)
    BY DEF Surjection
  <2> QED
    BY <2>1, FS_Surjection
<1>4. IsFiniteSet(clients[p]) /\ Cardinality(clients[p]) <= Cardinality(kept)
  <2> HIDE DEF kept
  <2> QED
    BY <1>2, <1>3, FS_Subset
<1>5. /\ Cardinality(clients[p]) \in Nat /\ Cardinality(kept) \in Nat
      /\ Cardinality(TurnsOf(p)) \in Nat /\ PoolSize \in Nat
  BY <1>3, <1>4, FS_CardinalityType, BoundsAssumption
<1>6. ~ (Cardinality(clients[p]) < PoolSize)
  BY DEF Room
<1> QED
  BY <1>3, <1>4, <1>5, <1>6

\* With one connection more than turns in each process, some turn or some pool can
\* always go on while a turn is in progress: the turns that wait inside for a query
\* and those that wait for them never wait on each other (withThreadLock holds one
\* connection of the pool that its turn needs another of).
THEOREM NobodyIsStuck ==
  ASSUME IsFiniteSet(Turns),
         \A p \in Processes : Cardinality(TurnsOf(p)) < PoolSize
  PROVE  Spec => []NeverStuck
<1>1. Init => WaitInv /\ Bounded
  <2>1. IsFiniteSet({}) /\ Cardinality({}) = 0
    BY FS_EmptySet
  <2> QED
    BY <2>1, WaitInit, BoundsAssumption DEF Init, Bounded
<1>2. WaitInv /\ Bounded /\ [Next]_vars => (WaitInv /\ Bounded)'
  <2> SUFFICES ASSUME WaitInv, Bounded, [Next]_vars PROVE WaitInv' /\ Bounded'
    OBVIOUS
  <2>1. LockInv' /\ PoolInv'
    BY LockStep, PoolStep DEF WaitInv
  <2> QED
    BY <2>1, QueueStep, OrderStep, BoundStep DEF WaitInv, PoolInv
<1>3. WaitInv /\ Bounded => NeverStuck
  <2> SUFFICES ASSUME WaitInv, Bounded, NEW t \in Turns, pc[t] # "idle"
               PROVE  (\E u \in Turns : CanMove(u)) \/ (\E p \in Processes : CanServe(p))
    BY DEF NeverStuck
  <2>0. Typed /\ NoConnectionLeaks /\ HeldByTheLiving /\ QueueInv /\ OrderInv
    BY DEF WaitInv, PoolInv, LockInv
  <2>1. ASSUME NEW p \in Processes, pending[p] # << >>
        PROVE  (\E u \in Turns : CanMove(u)) \/ CanServe(p)
    <3>1. CASE Room(p)
      <4>1. Head(pending[p]) \in Turns /\ Wants(Head(pending[p]))
        <5>1. pending[p] \in Seq(Turns) /\ Once(pending[p])
          BY <2>0 DEF Typed, QueueInv
        <5>2. Head(pending[p]) \in Elems(pending[p]) /\ Head(pending[p]) \in Turns
          BY <2>0, <2>1, <5>1, TailElems, HeadTyped
        <5> QED
          BY <2>0, <5>2 DEF QueueInv
      <4> QED
        BY <2>1, <3>1, <4>1 DEF CanServe, Wants
    <3>2. CASE ~ Room(p)
      <4>1. IsFiniteSet(TurnsOf(p))
        <5>1. TurnsOf(p) \subseteq Turns
          BY DEF TurnsOf
        <5> QED
          BY <5>1, FS_Subset
      <4> QED
        BY <2>0, <3>2, <4>1, SomebodyQueries DEF CanMove
    <3> QED
      BY <3>1, <3>2
  <2>2. CASE \E p \in Processes : pending[p] # << >>
    BY <2>1, <2>2
  <2>3. CASE \A p \in Processes : pending[p] = << >>
    <3>1. ASSUME NEW u \in Turns PROVE ~ Wants(u)
      <4>1. ProcessOf[u] \in Processes
        BY TurnsAssumption
      <4>2. Elems(pending[ProcessOf[u]]) = {}
        BY <2>3, <4>1 DEF Elems
      <4> QED
        BY <2>0, <4>1, <4>2 DEF QueueInv
    <3>2. ASSUME NEW u \in Turns, Inside(u) PROVE CanMove(u)
      BY <3>1, <3>2 DEF Inside, CanMove, Wants, Querying
    <3>3. CASE pc[t] # "locks"
      <4>1. pc[t] \in States
        BY <2>0 DEF Typed
      <4>2. CanMove(t)
        BY <3>1, <3>3, <4>1 DEF CanMove, Wants, States, Owning, Querying
      <4> QED
        BY <4>2
    <3>4. CASE pc[t] = "locks"
      <4> DEFINE th == ThreadOf[t]
      <4>1. th \in Threads /\ t \in Waiting(th)
        BY <3>4, TurnsAssumption DEF Waiting
      <4>2. CASE holder[th] # NoTurn
        <5>1. holder[th] \in Turns /\ Inside(holder[th])
          BY <2>0, <4>1, <4>2 DEF Typed, HeldByTheLiving
        <5> QED
          BY <3>2, <5>1
      <4>3. CASE holder[th] = NoTurn
        <5>1. PICK u \in Waiting(th) : ahead[u] = {}
          BY <2>0, <4>1, SomebodyIsFirst
        <5>2. u \in Turns /\ pc[u] = "locks" /\ ThreadOf[u] = th
          BY DEF Waiting
        <5>3. CanMove(u)
          BY <4>3, <5>1, <5>2 DEF CanMove, Free
        <5> QED
          BY <5>2, <5>3
      <4> QED
        BY <4>2, <4>3
    <3> QED
      BY <3>3, <3>4
  <2> QED
    BY <2>2, <2>3
<1> QED
  BY <1>1, <1>2, <1>3, PTL DEF Spec
=============================================================================
