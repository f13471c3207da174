------------------------------- MODULE Mutex --------------------------------
(***************************************************************************)
(* What the lock package promises: a set of named locks, each with at most *)
(* one holder.  A client asks for a lock, is granted it once it is free,   *)
(* learns of it, asks to give it up and sees it given up.  Nothing is said *)
(* about how a grant is decided.                                           *)
(***************************************************************************)
CONSTANTS Client, LockName, NoClient

VARIABLES
    status,     \* where each client is in its use of its lock
    wants,      \* the lock each client uses
    holder      \* the client each lock is granted to

mutexVars == <<status, wants, holder>>

Status == {"out", "waiting", "in", "leaving"}

MutexInit ==
    /\ status = [c \in Client |-> "out"]
    /\ wants \in [Client -> LockName]
    /\ holder = [l \in LockName |-> NoClient]

Request(c) ==
    /\ status[c] = "out"
    /\ status' = [status EXCEPT ![c] = "waiting"]
    /\ UNCHANGED <<wants, holder>>

Grant(c) ==
    /\ status[c] = "waiting"
    /\ holder[wants[c]] = NoClient
    /\ holder' = [holder EXCEPT ![wants[c]] = c]
    /\ UNCHANGED <<status, wants>>

Enter(c) ==
    /\ status[c] = "waiting"
    /\ holder[wants[c]] = c
    /\ status' = [status EXCEPT ![c] = "in"]
    /\ UNCHANGED <<wants, holder>>

Leave(c) ==
    /\ status[c] = "in"
    /\ status' = [status EXCEPT ![c] = "leaving"]
    /\ UNCHANGED <<wants, holder>>

Free(c) ==
    /\ status[c] = "leaving"
    /\ holder[wants[c]] = c
    /\ holder' = [holder EXCEPT ![wants[c]] = NoClient]
    /\ UNCHANGED <<status, wants>>

Finish(c) ==
    /\ status[c] = "leaving"
    /\ holder[wants[c]] # c
    /\ status' = [status EXCEPT ![c] = "out"]
    /\ UNCHANGED <<wants, holder>>

MutexNext ==
    \E c \in Client :
        Request(c) \/ Grant(c) \/ Enter(c) \/ Leave(c) \/ Free(c) \/ Finish(c)

MutexSpec == MutexInit /\ [][MutexNext]_mutexVars
=============================================================================
