---------------------------- MODULE MCThreadLock ----------------------------
(* An instance of ThreadLock for TLC: the server's pool serves two turns of  *)
(* one conversation and a third of another, and a turn of the first          *)
(* conversation runs in another process (a script, a second server).         *)
EXTENDS ThreadLock, TLC

CONSTANTS t1, t2, t3, t4, server, script, chat, other

MCTurns == { t1, t2, t3, t4 }

MCThreadOf == t1 :> chat @@ t2 :> chat @@ t3 :> other @@ t4 :> chat

MCProcessOf == t1 :> server @@ t2 :> server @@ t3 :> server @@ t4 :> script
=============================================================================
