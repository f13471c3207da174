------------------------------ MODULE KVClerk -------------------------------
(***************************************************************************)
(* Clerks of the key/value server used by an arbitrary application: any    *)
(* client calls Get or Put at any time, Put with any version.  The values  *)
(* are the identities of the Puts: no two Puts of a behaviour store the    *)
(* same value, so the history tells which Put took effect, and how often.  *)
(*                                                                         *)
(* MaxVersion bounds the versions the application passes to Put.           *)
(***************************************************************************)
EXTENDS KVCall, Sequences

CONSTANT MaxVersion

ASSUME MaxVersionAssumption == MaxVersion \in Nat

VARIABLES
    hist,       \* history: the values stored under each key, oldest first
    start,      \* history: version of the key when the client's call began
    outcome,    \* history: what each Put returned
    oplog       \* history: OpLog, the Puts that returned

historyVars == <<hist, start, outcome, oplog>>
vars == <<callVars, historyVars>>

Outcome == {"unused", "pending", OK, ErrNoKey, ErrVersion, ErrMaybe}

(* Call and Return are the versions of the key at those times. *)
Operation ==
    [key : Key, value : Value, version : Nat, err : ServerErr \union {ErrMaybe},
     Call : Nat, Return : Nat]

OpLogTypeOK == oplog \in SUBSET Operation

TypeOK ==
    /\ CallTypeOK
    /\ hist \in [Key -> Seq(Value)]
    /\ start \in [Client -> Nat]
    /\ outcome \in [Value -> Outcome]

Init ==
    /\ CallInit
    /\ hist = [k \in Key |-> <<>>]
    /\ start = [c \in Client |-> 0]
    /\ outcome = [v \in Value |-> "unused"]
    /\ oplog = {}

(* Every change of an entry of the store is recorded. *)
Record ==
    hist' = [k \in Key |-> IF store'[k] = store[k] THEN hist[k]
                           ELSE Append(hist[k], store'[k].value)]

-----------------------------------------------------------------------------
AppGet(c, k) ==
    /\ Quiet(c)
    /\ Get(c, k)
    /\ start' = [start EXCEPT ![c] = store[k].version]
    /\ UNCHANGED <<hist, outcome, oplog>>

AppPut(c, k, v, ver) ==
    /\ Quiet(c)
    /\ outcome[v] = "unused"
    /\ Put(c, k, v, ver)
    /\ start' = [start EXCEPT ![c] = store[k].version]
    /\ outcome' = [outcome EXCEPT ![v] = "pending"]
    /\ UNCHANGED <<hist, oplog>>

Network(c) ==
    /\ CallStep(c)
    /\ Record
    /\ UNCHANGED <<start, outcome, oplog>>

Late ==
    /\ \E r \in late : ServeLate(r)
    /\ Record
    /\ UNCHANGED <<start, outcome, oplog>>

GetDone(c) ==
    /\ GetReturns(c)
    /\ Return(c)
    /\ start' = [start EXCEPT ![c] = 0]
    /\ UNCHANGED <<hist, outcome, oplog>>

(* Put of kvtest1/porcupine.go records the call when it has returned. *)
Logged(c) ==
    [key |-> call[c].key, value |-> call[c].value, version |-> call[c].version,
     err |-> PutResult(c), Call |-> start[c], Return |-> store[call[c].key].version]

PutDone(c) ==
    /\ PutReturns(c)
    /\ oplog' = oplog \union {Logged(c)}
    /\ outcome' = [outcome EXCEPT ![call[c].value] = PutResult(c)]
    /\ Return(c)
    /\ start' = [start EXCEPT ![c] = 0]
    /\ UNCHANGED hist

Next ==
    \/ \E c \in Client :
        \/ \E k \in Key : AppGet(c, k)
        \/ \E k \in Key, v \in Value, ver \in 0..MaxVersion : AppPut(c, k, v, ver)
        \/ Network(c)
        \/ GetDone(c)
        \/ PutDone(c)
    \/ Late

Spec == Init /\ [][Next]_vars

-----------------------------------------------------------------------------
(***************************************************************************)
(* Server.Put compares versions so that a resent or late Put cannot be     *)
(* applied a second time: no value is ever stored twice, under any key.    *)
(***************************************************************************)
AtMostOnce ==
    \A k1, k2 \in Key : \A i \in 1..Len(hist[k1]), j \in 1..Len(hist[k2]) :
        hist[k1][i] = hist[k2][j] => k1 = k2 /\ i = j

Applied(v) == \E k \in Key : \E i \in 1..Len(hist[k]) : hist[k][i] = v

(***************************************************************************)
(* What Clerk.Put tells the application is true, for as long as the system *)
(* runs: a Put that returned OK has been applied, and one that returned    *)
(* ErrVersion never was and never will be ("the Put was definitely not     *)
(* performed at the server", client.go:64), whatever the network still     *)
(* holds of it.                                                            *)
(***************************************************************************)
TruthfulOutcome ==
    \A v \in Value :
        /\ outcome[v] = OK => Applied(v)
        /\ outcome[v] = ErrVersion => ~Applied(v)
        /\ outcome[v] = "unused" => ~Applied(v)

(***************************************************************************)
(* The history of Clerk.Get and Clerk.Put is linearizable with respect to  *)
(* the sequential model of the tests (models1/kv.go).  Each operation has  *)
(* a moment between its call and its return at which the model takes the   *)
(* key from its entry to the next one, or leaves it there, and gives that  *)
(* reply.  The moment of a Put that is ever applied, after its return      *)
(* included, is that at which it is; the operations in the order of their  *)
(* moments are then the sequential history.  A Get also returns a version, *)
(* which the model does not look at; it is judged when it returns, as the  *)
(* past of a key does not change.                                          *)
(*                                                                         *)
(* Two kinds of Put, of a version newer than the key's at the call, have   *)
(* no such moment.  The model has no ErrNoKey for a Put, the server's      *)
(* answer for a key that was never stored.  And a Put that was resent may  *)
(* return ErrMaybe before the key reaches its version; a copy of it that   *)
(* is still in the network is applied when the key does.  A caller that    *)
(* passes versions it has read makes no such Put (CheckPorcupine).         *)
(***************************************************************************)
Model == INSTANCE KVModel

Entry(k, n) ==
    IF n = 0 THEN Model!KvInit(NoValue) ELSE [value |-> hist[k][n], version |-> n]

GetExplained(c, k) ==
    \E n \in start[c]..Len(hist[k]) :
        /\ Model!Step(Entry(k, n), call[c], net[c]).ok
        /\ net[c].version = n
        /\ net[c].err = IF n = 0 THEN ErrNoKey ELSE OK

PutStep(o, n) ==
    Model!Step(Entry(o.key, n), [op |-> "Put", value |-> o.value, version |-> o.version],
               [err |-> o.err])

PutExplained(o) ==
    \E n \in o.Call..o.Return :
        /\ PutStep(o, n).ok
        /\ IF Applied(o.value)
           THEN n < o.Return /\ PutStep(o, n).state = Entry(o.key, n + 1)
           ELSE PutStep(o, n).state = Entry(o.key, n)

NotStored(o) == o.err = ErrNoKey /\ o.Call = 0 /\ o.version # 0

AppliedLate(o) ==
    /\ o.err = ErrMaybe
    /\ o.version > o.Call
    /\ o.version >= o.Return
    /\ Applied(o.value)

Linearizable ==
    /\ \A c \in Client : GetReturns(c) => GetExplained(c, call[c].key)
    /\ \A o \in oplog : PutExplained(o) \/ NotStored(o) \/ AppliedLate(o)

(***************************************************************************)
(* When a Put that named the version the key had at its start returns      *)
(* ErrMaybe, some Put was applied at that version: its own or a rival's.   *)
(***************************************************************************)
MaybeMeansTaken ==
    \A c \in Client :
        PutReturns(c) /\ PutResult(c) = ErrMaybe /\ call[c].version = start[c]
            => Len(hist[call[c].key]) > call[c].version
=============================================================================
