------------------------------ MODULE KVServer ------------------------------
(***************************************************************************)
(* The single-machine key/value server of src/src/kvsrv1/server.go.  The   *)
(* map kv.store becomes a total function: a key that is not in the map is  *)
(* an entry of version 0, which is also what Go's map read yields for it   *)
(* (the zero ValueVersion).  Put never stores version 0, so the two cannot *)
(* be confused.  The handlers hold kv.mu from the first line to the last,  *)
(* so one handler is one step.                                             *)
(*                                                                         *)
(* Tversion is a uint64; it is modelled as a natural number because one    *)
(* increment per applied Put cannot reach 2^64.                            *)
(***************************************************************************)
EXTENDS Naturals

CONSTANTS
    Key,        \* the keys clients may name
    Value,      \* the values clients may store
    NoValue     \* the empty string: what Get returns for an absent key

ASSUME NoValueAssumption == NoValue \notin Value

VARIABLE store  \* kv.store

OK == "OK"
ErrNoKey == "ErrNoKey"
ErrVersion == "ErrVersion"
ErrMaybe == "ErrMaybe"

ServerErr == {OK, ErrNoKey, ErrVersion}

ValueVersion == [value : Value \union {NoValue}, version : Nat]

Absent == [value |-> NoValue, version |-> 0]

StoreTypeOK == store \in [Key -> ValueVersion]

MakeKVServer == store = [k \in Key |-> Absent]

Present(k) == store[k].version > 0

(* Mutant: Get answers with the version the next Put will create. *)
GetReplyNextVersion(k) ==
    [err |-> IF Present(k) THEN OK ELSE ErrNoKey,
     value |-> store[k].value,
     version |-> store[k].version + 1]

(* The reply of handler Get. *)
GetReply(k) ==
    [err |-> IF Present(k) THEN OK ELSE ErrNoKey,
     value |-> store[k].value,
     version |-> store[k].version]

(* Mutants: the server ignores the version, expects the next one. *)
PutErrAnyVersion(k, ver) == IF Present(k) \/ ver = 0 THEN OK ELSE ErrNoKey

PutErrNextVersion(k, ver) ==
    IF Present(k)
    THEN IF ver = store[k].version + 1 THEN OK ELSE ErrVersion
    ELSE IF ver = 0 THEN OK ELSE ErrNoKey

(* What handler Put answers ... *)
PutErr(k, ver) ==
    IF Present(k)
    THEN IF ver = store[k].version THEN OK ELSE ErrVersion
    ELSE IF ver = 0 THEN OK ELSE ErrNoKey

(* ... and what it leaves in the map. *)
PutStore(k, val, ver) ==
    IF PutErr(k, ver) = OK
    THEN [store EXCEPT ![k] = [value |-> val, version |-> ver + 1]]
    ELSE store
=============================================================================
