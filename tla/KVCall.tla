------------------------------- MODULE KVCall -------------------------------
(***************************************************************************)
(* A Clerk call to the key/value server over the simulated network:        *)
(* src/src/kvsrv1/client.go on top of src/src/labrpc/labrpc.go.            *)
(*                                                                         *)
(* Clerk.Get and Clerk.Put resend until ClientEnd.Call returns true; a     *)
(* resent Put remembers that it is a retry, and turns ErrVersion into      *)
(* ErrMaybe.  Call returns false in three ways, all of them here:          *)
(*   LoseRequest   the network drops the request (labrpc.go:302), or the   *)
(*                 client's endpoint is disabled (labrpc.go:366);          *)
(*   LoseReply     the handler ran, and its reply is dropped (:349);       *)
(*   GiveUp        the endpoint is disabled while the handler goroutine    *)
(*                 has not run yet (:318-348): the handler runs later, and *)
(*                 nobody reads its reply.  The request is then a late one *)
(*                 and ServeLate is its execution.                         *)
(* Late requests form a set: a second copy of the same Put finds a newer   *)
(* version (or the same error) and changes nothing.                        *)
(*                                                                         *)
(* MaxDrops bounds how often Call returns false in a behaviour.            *)
(***************************************************************************)
EXTENDS KVServer

CONSTANTS
    Client,      \* the clerks; each makes one call at a time
    Disconnects, \* whether endpoints are disabled while a call is in progress
    MaxDrops

ASSUME CallAssumption == Disconnects \in BOOLEAN /\ MaxDrops \in Nat

VARIABLES
    call,       \* the Clerk operation each client is in, with its arguments
    net,        \* where the client's current RPC is
    late,       \* Put requests whose handler runs after their Call returned
    drops

callVars == <<store, call, net, late, drops>>

NoCall == [op |-> "none"]
GetCall == [op : {"Get"}, key : Key]
PutCall == [op : {"Put"}, key : Key, value : Value, version : Nat, retry : BOOLEAN]

Idle == [at |-> "none"]
Sent == [at |-> "request"]
Got(r) == [at |-> "reply", err |-> r.err, value |-> r.value, version |-> r.version]

NetState ==
    {Idle, Sent} \union
    [at : {"reply"}, err : ServerErr, value : Value \union {NoValue}, version : Nat]

LatePut == [key : Key, value : Value, version : Nat]

CallTypeOK ==
    /\ StoreTypeOK
    /\ call \in [Client -> {NoCall} \union GetCall \union PutCall]
    /\ net \in [Client -> NetState]
    /\ late \in SUBSET LatePut
    /\ drops \in 0..MaxDrops

CallInit ==
    /\ MakeKVServer
    /\ call = [c \in Client |-> NoCall]
    /\ net = [c \in Client |-> Idle]
    /\ late = {}
    /\ drops = 0

-----------------------------------------------------------------------------
(* The application's calls: Clerk.Get and Clerk.Put, up to the first send. *)

Get(c, k) ==
    /\ call' = [call EXCEPT ![c] = [op |-> "Get", key |-> k]]
    /\ net' = [net EXCEPT ![c] = Sent]
    /\ UNCHANGED <<store, late, drops>>

Put(c, k, val, ver) ==
    /\ call' = [call EXCEPT ![c] = [op |-> "Put", key |-> k, value |-> val,
                                    version |-> ver, retry |-> FALSE]]
    /\ net' = [net EXCEPT ![c] = Sent]
    /\ UNCHANGED <<store, late, drops>>

-----------------------------------------------------------------------------
(* The server runs the handler of client c's request. *)

ServeGet(c) ==
    /\ net[c] = Sent
    /\ call[c].op = "Get"
    /\ net' = [net EXCEPT ![c] = Got(GetReply(call[c].key))]
    /\ UNCHANGED <<store, call, late, drops>>

ServePut(c) ==
    /\ net[c] = Sent
    /\ call[c].op = "Put"
    /\ net' = [net EXCEPT ![c] = Got([err |-> PutErr(call[c].key, call[c].version),
                                      value |-> NoValue, version |-> 0])]
    /\ store' = PutStore(call[c].key, call[c].value, call[c].version)
    /\ UNCHANGED <<call, late, drops>>

ServeLate(r) ==
    /\ store' = PutStore(r.key, r.value, r.version)
    /\ late' = late \ {r}
    /\ UNCHANGED <<call, net, drops>>

-----------------------------------------------------------------------------
(* Call returns false and the clerk resends, remembering the retry. *)

Retried(cl) == IF cl.op = "Put" THEN [cl EXCEPT !.retry = TRUE] ELSE cl

Resend(c) ==
    /\ drops < MaxDrops
    /\ drops' = drops + 1
    /\ call' = [call EXCEPT ![c] = Retried(@)]
    /\ net' = [net EXCEPT ![c] = Sent]
    /\ UNCHANGED store

LoseRequest(c) ==
    /\ net[c] = Sent
    /\ Resend(c)
    /\ UNCHANGED late

LoseReply(c) ==
    /\ net[c].at = "reply"
    /\ Resend(c)
    /\ UNCHANGED late

GiveUp(c) ==
    /\ Disconnects
    /\ net[c] = Sent
    /\ call[c].op = "Put"
    /\ Resend(c)
    /\ late' = late \union {[key |-> call[c].key, value |-> call[c].value,
                             version |-> call[c].version]}

CallStep(c) ==
    \/ ServeGet(c) \/ ServePut(c)
    \/ LoseRequest(c) \/ LoseReply(c) \/ GiveUp(c)

-----------------------------------------------------------------------------
(* Call returns true: what Clerk.Get and Clerk.Put hand to the application. *)

GetReturns(c) == net[c].at = "reply" /\ call[c].op = "Get"

PutReturns(c) == net[c].at = "reply" /\ call[c].op = "Put"

(* Mutant: the clerk forgets that the first copy may have been applied. *)
PutResultNoMaybe(c) == net[c].err

PutResult(c) ==
    IF call[c].retry /\ net[c].err = ErrVersion THEN ErrMaybe ELSE net[c].err

(* The clerk is between two operations. *)
Quiet(c) == net[c] = Idle

Return(c) ==
    /\ call' = [call EXCEPT ![c] = NoCall]
    /\ net' = [net EXCEPT ![c] = Idle]
    /\ UNCHANGED <<store, late, drops>>
=============================================================================
