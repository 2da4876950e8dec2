----------------------------- MODULE ThreadLock -----------------------------
(***************************************************************************)
(* The lock of a conversation and the pool of database connections it     *)
(* lives on: withThreadLock (src/operator/thread-lock.ts), the turns that  *)
(* take it (src/operator/session.ts) and the pool that each process has    *)
(* (src/db/client.ts).                                                     *)
(*                                                                         *)
(* A turn reads the identity, consent and confirmations (one query here    *)
(* stands for a row of them), takes a connection, waits on it for the      *)
(* advisory lock of its thread, works under the lock, which takes further  *)
(* queries from the same pool, unlocks, gives the connection back and      *)
(* writes the transcript.  Turns are slots: an idle one is free for the    *)
(* next message.  The pool of pg and the locks of Postgres are external:   *)
(* both serve those who wait in the order they came, and a connection that *)
(* is lost loses its locks.                                                *)
(***************************************************************************)
EXTENDS Naturals, FiniteSets, Sequences

CONSTANTS
  Turns,       \* turns that may be in progress at once
  Threads,     \* conversations
  Processes,   \* the API server, a script
  ThreadOf,    \* the conversation a turn belongs to
  ProcessOf,   \* the process it runs in
  NoTurn,      \* the holder of a lock that is free
  PoolSize,    \* connections in the pool of a process
  MaxQueries   \* bounds the queries a turn makes under its lock

ASSUME TurnsAssumption ==
  /\ ThreadOf \in [Turns -> Threads]
  /\ ProcessOf \in [Turns -> Processes]
  /\ NoTurn \notin Turns

ASSUME BoundsAssumption == PoolSize \in Nat \ {0} /\ MaxQueries \in Nat

VARIABLES
  pc,        \* where each turn is
  queries,   \* the queries it has made under its lock
  clients,   \* per process, the turns that have a connection checked out,
             \* and what for
  pending,   \* per process, the turns waiting for a connection
  holder,    \* per thread, the turn whose connection holds the lock
  ahead      \* per turn that waits for the lock of its thread, those before it

vars == << pc, queries, clients, pending, holder, ahead >>

\* The states in which a turn wants or has a connection for one query.
Querying == { "reads", "queries", "records" }

\* The states in which it owns the connection of its lock.
Owning == { "locks", "inside", "queries", "unlocked" }

States == { "idle", "connects" } \cup Querying \cup Owning

Init ==
  /\ pc      = [t \in Turns |-> "idle"]
  /\ queries = [t \in Turns |-> 0]
  /\ clients = [p \in Processes |-> {}]
  /\ pending = [p \in Processes |-> << >>]
  /\ holder  = [th \in Threads |-> NoTurn]
  /\ ahead   = [t \in Turns |-> {}]

-----------------------------------------------------------------------------
(***************************************************************************)
(* The pool.                                                               *)
(***************************************************************************)
\* pool.connect() or pool.query(): the turn queues for a connection.
Ask(t) == pending' = [pending EXCEPT ![ProcessOf[t]] = Append(@, t)]

\* The connection of one query, or the one that is kept for the lock.
Client(t, use) == [turn |-> t, use |-> use]

HasClient(t, use) == Client(t, use) \in clients[ProcessOf[t]]

GiveBack(t, use) ==
  clients' = [clients EXCEPT ![ProcessOf[t]] = @ \ { Client(t, use) }]

\* Mutant: nothing limits the pool.
Unlimited(p) == TRUE

\* The pool has, or may open, another connection.
Room(p) == Cardinality(clients[p]) < PoolSize

\* The turns whose connection waits for the lock of a thread.
Waiting(th) == { t \in Turns : pc[t] = "locks" /\ ThreadOf[t] = th }

\* The first in line gets a connection while the pool has one.  The one of
\* withThreadLock goes on to wait for the lock, behind those that wait already.
Grant(p) ==
  /\ pending[p] # << >>
  /\ Room(p)
  /\ pending' = [pending EXCEPT ![p] = Tail(@)]
  /\ LET t == Head(pending[p]) IN
     \/ /\ pc[t] = "connects"
        /\ clients' = [clients EXCEPT ![p] = @ \cup { Client(t, "lock") }]
        /\ pc' = [pc EXCEPT ![t] = "locks"]
        /\ ahead' = [ahead EXCEPT ![t] = Waiting(ThreadOf[t])]
     \/ /\ pc[t] \in Querying
        /\ clients' = [clients EXCEPT ![p] = @ \cup { Client(t, "query") }]
        /\ UNCHANGED << pc, ahead >>
  /\ UNCHANGED << queries, holder >>

-----------------------------------------------------------------------------
(***************************************************************************)
(* A turn.                                                                 *)
(***************************************************************************)
\* A message: handleTurn reads before it takes the lock.
Receive(t) ==
  /\ pc[t] = "idle"
  /\ pc' = [pc EXCEPT ![t] = "reads"]
  /\ Ask(t)
  /\ UNCHANGED << queries, clients, holder, ahead >>

\* resumeConversationAfterEmailConnected goes straight to the agent.
ReceiveConnected(t) ==
  /\ pc[t] = "idle"
  /\ pc' = [pc EXCEPT ![t] = "connects"]
  /\ Ask(t)
  /\ UNCHANGED << queries, clients, holder, ahead >>

\* The consent and confirmation gates answer without the agent, or it is asked; or one
\* of the reads has failed.
ReadsDone(t) ==
  /\ pc[t] = "reads"
  /\ HasClient(t, "query")
  /\ GiveBack(t, "query")
  /\ \/ pc' = [pc EXCEPT ![t] = "connects"] /\ Ask(t)
     \/ pc' = [pc EXCEPT ![t] = "records"] /\ Ask(t)
     \/ pc' = [pc EXCEPT ![t] = "idle"] /\ UNCHANGED pending
  /\ UNCHANGED << queries, holder, ahead >>

\* Mutant: a lock that the turns of other processes do not see.
FreeInProcess(t) ==
  holder[ThreadOf[t]] \notin { u \in Turns : ProcessOf[u] = ProcessOf[t] }

\* The lock is nobody's and this turn is the first that waits for it.
Free(t) == holder[ThreadOf[t]] = NoTurn

\* select pg_advisory_lock($1)
Lock(t) ==
  LET th == ThreadOf[t] IN
  /\ pc[t] = "locks"
  /\ Free(t)
  /\ ahead[t] = {}
  /\ holder'  = [holder EXCEPT ![th] = t]
  /\ ahead'   = [u \in Turns |-> ahead[u] \ {t}]
  /\ pc'      = [pc EXCEPT ![t] = "inside"]
  /\ queries' = [queries EXCEPT ![t] = 0]
  /\ UNCHANGED << clients, pending >>

\* A checkpoint or a tool, on another connection of the same pool.
Query(t) ==
  /\ pc[t] = "inside"
  /\ queries[t] < MaxQueries
  /\ queries' = [queries EXCEPT ![t] = @ + 1]
  /\ pc' = [pc EXCEPT ![t] = "queries"]
  /\ Ask(t)
  /\ UNCHANGED << clients, holder, ahead >>

QueryDone(t) ==
  /\ pc[t] = "queries"
  /\ HasClient(t, "query")
  /\ GiveBack(t, "query")
  /\ pc' = [pc EXCEPT ![t] = "inside"]
  /\ UNCHANGED << queries, pending, holder, ahead >>

\* Mutant: the lock is left to the connection that goes back to the pool.
ReleaseOnly(t) ==
  /\ pc[t] = "inside"
  /\ pc' = [pc EXCEPT ![t] = "unlocked"]
  /\ UNCHANGED << queries, clients, pending, holder, ahead >>

\* The finally of withThreadLock, whether the agent answered or threw.  An unlock that
\* fails for a broken connection is ignored, and has the same effect: Postgres drops it.
Unlock(t) ==
  /\ pc[t] = "inside"
  /\ holder' = [holder EXCEPT ![ThreadOf[t]] = NoTurn]
  /\ pc' = [pc EXCEPT ![t] = "unlocked"]
  /\ UNCHANGED << queries, clients, pending, ahead >>

\* Mutant: only a turn that answered gives its connection back.
ReleaseOnSuccess(t) ==
  /\ pc[t] = "unlocked"
  /\ \/ GiveBack(t, "lock") /\ pc' = [pc EXCEPT ![t] = "records"] /\ Ask(t)
     \/ pc' = [pc EXCEPT ![t] = "idle"] /\ UNCHANGED << pending, clients >>
  /\ UNCHANGED << queries, holder, ahead >>

\* client.release(); a turn that threw writes no transcript.
Release(t) ==
  /\ pc[t] = "unlocked"
  /\ GiveBack(t, "lock")
  /\ \/ pc' = [pc EXCEPT ![t] = "records"] /\ Ask(t)
     \/ pc' = [pc EXCEPT ![t] = "idle"] /\ UNCHANGED pending
  /\ UNCHANGED << queries, holder, ahead >>

RecordsDone(t) ==
  /\ pc[t] = "records"
  /\ HasClient(t, "query")
  /\ GiveBack(t, "query")
  /\ pc' = [pc EXCEPT ![t] = "idle"]
  /\ UNCHANGED << queries, pending, holder, ahead >>

-----------------------------------------------------------------------------
\* Mutant: the locks of a dead process stay, as a row in a table would.
SurvivesCrash(p, th) == holder[th]

\* The lock of a thread once Postgres has closed the connections of p.
AfterCrash(p, th) ==
  IF holder[th] # NoTurn /\ ProcessOf[holder[th]] = p THEN NoTurn ELSE holder[th]

\* A process dies, or restarts, with its turns, its pool and its connections.
Crash(p) ==
  LET Survives(t) == ProcessOf[t] # p IN
  /\ \E t \in Turns : ProcessOf[t] = p /\ pc[t] # "idle"
  /\ pc' = [t \in Turns |-> IF Survives(t) THEN pc[t] ELSE "idle"]
  /\ clients' = [clients EXCEPT ![p] = {}]
  /\ pending' = [pending EXCEPT ![p] = << >>]
  /\ holder'  = [th \in Threads |-> AfterCrash(p, th)]
  /\ ahead'   = [t \in Turns |-> IF Survives(t) THEN { u \in ahead[t] : Survives(u) } ELSE {}]
  /\ UNCHANGED queries

TurnStep(t) ==
  \/ ReadsDone(t) \/ Lock(t) \/ Query(t) \/ QueryDone(t)
  \/ Unlock(t) \/ Release(t) \/ RecordsDone(t)

Next ==
  \/ \E t \in Turns : Receive(t) \/ ReceiveConnected(t) \/ TurnStep(t)
  \/ \E p \in Processes : Grant(p) \/ Crash(p)

Spec == Init /\ [][Next]_vars

\* Awaited calls settle, the pool and Postgres serve their queues; nothing is
\* assumed of messages and of crashes.
Fairness ==
  /\ \A t \in Turns : WF_vars(TurnStep(t))
  /\ \A p \in Processes : WF_vars(Grant(p))

FairSpec == Spec /\ Fairness

-----------------------------------------------------------------------------
(***************************************************************************)
(* Properties.                                                             *)
(***************************************************************************)
\* The types of the variables, and the limit of each pool.
TypeOK ==
  /\ pc \in [Turns -> States]
  /\ queries \in [Turns -> 0..MaxQueries]
  /\ clients \in [Processes ->
                    SUBSET [turn : Turns, use : { "lock", "query" }]]
  /\ \A p \in Processes : Cardinality(clients[p]) <= PoolSize
  /\ \A p \in Processes : pending[p] \in Seq(Turns)
  /\ holder \in [Threads -> Turns \cup { NoTurn }]
  /\ ahead \in [Turns -> SUBSET Turns]

Inside(t) == pc[t] \in { "inside", "queries" }

\* The lock makes concurrent turns on one thread wait instead of racing, across
\* processes and over their crashes (thread-lock.ts).
MutualExclusion ==
  \A t, u \in Turns :
    Inside(t) /\ Inside(u) /\ ThreadOf[t] = ThreadOf[u] => t = u

\* Seen from those who are inside, the lock lets one turn of a conversation in at a
\* time, over processes and crashes: what session.ts takes it for.
Mutex == INSTANCE ThreadMutex WITH inside <- { t \in Turns : Inside(t) }

ImplementsMutex == Mutex!MutexSpec

\* A lock is held by a turn that still works under it: when a process is gone,
\* or a turn is over, no thread stays locked (thread-lock.ts: "so a dead process
\* can never leave a thread permanently locked").
HeldByTheLiving ==
  \A th \in Threads :
    holder[th] # NoTurn => Inside(holder[th]) /\ ThreadOf[holder[th]] = th

\* The connections of a pool are accounted for: a turn has one for its lock from
\* the time it is granted to the time it is released, and one for a query only
\* while it makes one, so nothing leaks on any path through the finally or a crash.
NoConnectionLeaks ==
  \A p \in Processes : \A c \in clients[p] :
    /\ ProcessOf[c.turn] = p
    /\ c.use = "lock"  => pc[c.turn] \in Owning
    /\ c.use = "query" => pc[c.turn] \in Querying

\* A turn that was received is over some day: it gets its connections and its
\* lock (session.ts: concurrent turns on the same thread wait).
TurnsSettle == \A t \in Turns : pc[t] # "idle" ~> pc[t] = "idle"
=============================================================================
