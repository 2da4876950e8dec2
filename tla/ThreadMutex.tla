---------------------------- MODULE ThreadMutex ----------------------------
(***************************************************************************)
(* What withThreadLock promises to those who run the agent under it        *)
(* (src/operator/thread-lock.ts): the turns of one conversation are inside *)
(* one at a time, and leave by themselves or with their process.  The      *)
(* lock, the pool and the crashes behind that are ThreadLock's, what the   *)
(* turns do inside Conversation's; both implement this specification.      *)
(***************************************************************************)
CONSTANTS
  Turns,      \* whoever may run the agent
  ThreadOf    \* the conversation a turn belongs to

VARIABLE inside   \* the turns that run the agent

MutexInit == inside = {}

\* The lock is granted.
Enter(t) ==
  /\ \A u \in inside : ThreadOf[u] # ThreadOf[t]
  /\ inside' = inside \cup {t}

\* Turns are done, have failed, or are lost, all those of a process at once.
Leave(S) == inside' = inside \ S

MutexNext ==
  \/ \E t \in Turns : Enter(t)
  \/ \E S \in SUBSET Turns : Leave(S)

MutexSpec == MutexInit /\ [][MutexNext]_inside
=============================================================================
