----------------------------- MODULE LockProofs -----------------------------
(***************************************************************************)
(* Proofs about the lock package, for every number of clients and locks,   *)
(* every MaxDrops and every MaxRounds: type correctness, the inductive     *)
(* invariant that gives mutual exclusion, and the refinement of Mutex.     *)
(***************************************************************************)
EXTENDS Lock, TLAPS

-----------------------------------------------------------------------------
(* What a client with a Put, or a reply, on its hands has in its records. *)
LEMMA CallFields ==
    ASSUME CallTypeOK, NEW c \in Client
    PROVE  /\ call[c].op \in {"none", "Get", "Put"}
           /\ call[c].op = "Get" => call[c].key \in Key
           /\ call[c].op = "Put" =>
                /\ call[c] \in PutCall
                /\ call[c].key \in Key
                /\ call[c].value \in Value
                /\ call[c].version \in Nat
                /\ call[c].retry \in BOOLEAN
           /\ net[c].at \in {"none", "request", "reply"}
           /\ net[c] = Sent <=> net[c].at = "request"
           /\ net[c].at = "reply" =>
                /\ net[c].err \in ServerErr
                /\ net[c].value \in Value \union {NoValue}
                /\ net[c].version \in Nat
  <1>1. call[c] \in {NoCall} \union GetCall \union PutCall
    BY Zenon DEF CallTypeOK
  <1>2. net[c] \in NetState
    BY Zenon DEF CallTypeOK
  <1>3. call[c].op \in {"none", "Get", "Put"}
    BY <1>1 DEF NoCall, GetCall, PutCall
  <1>4. call[c].op = "Get" => call[c].key \in Key
    BY <1>1 DEF NoCall, GetCall, PutCall
  <1>5. call[c].op = "Put" => call[c] \in PutCall
    BY <1>1 DEF NoCall, GetCall, PutCall
  <1>6. call[c].op = "Put" =>
                /\ call[c].key \in Key
                /\ call[c].value \in Value
                /\ call[c].version \in Nat
                /\ call[c].retry \in BOOLEAN
    BY Zenon, <1>5 DEF PutCall
  <1>7. net[c].at \in {"none", "request", "reply"}
    BY <1>2 DEF NetState, Idle, Sent
  <1>8. net[c] = Sent <=> net[c].at = "request"
    BY <1>2 DEF NetState, Idle, Sent
  <1>9. net[c].at = "reply" =>
                /\ net[c].err \in ServerErr
                /\ net[c].value \in Value \union {NoValue}
                /\ net[c].version \in Nat
    BY <1>2 DEF NetState, Idle, Sent
  <1> QED
    BY Zenon, <1>3, <1>4, <1>5, <1>6, <1>7, <1>8, <1>9

(* The clerk and network steps preserve the types of their variables. *)
LEMMA PutStoreType ==
    ASSUME StoreTypeOK, NEW k \in Key, NEW v \in Value, NEW ver \in Nat
    PROVE  PutStore(k, v, ver) \in [Key -> ValueVersion]
  BY DEF StoreTypeOK, PutStore, ValueVersion

LEMMA GetType ==
    ASSUME CallTypeOK, NEW c \in Client, NEW k \in Key, Get(c, k)
    PROVE  CallTypeOK'
  BY Zenon DEF CallTypeOK, StoreTypeOK, Get, GetCall, NetState

LEMMA PutType ==
    ASSUME CallTypeOK, NEW c \in Client, NEW k \in Key,
           NEW v \in Value, NEW ver \in Nat, Put(c, k, v, ver)
    PROVE  CallTypeOK'
  BY Zenon DEF CallTypeOK, StoreTypeOK, Put, PutCall, NetState

LEMMA ReturnType ==
    ASSUME CallTypeOK, NEW c \in Client, Return(c)
    PROVE  CallTypeOK'
  BY Zenon DEF CallTypeOK, StoreTypeOK, Return, NetState

LEMMA ServeGetType ==
    ASSUME CallTypeOK, NEW c \in Client, ServeGet(c)
    PROVE  CallTypeOK'
  <1>1. call[c].key \in Key
    BY Zenon, CallFields DEF ServeGet
  <1>2. Got(GetReply(call[c].key)) \in NetState
    BY Zenon, <1>1 DEF CallTypeOK, StoreTypeOK, Got, GetReply, NetState, ValueVersion,
                ServerErr, OK, ErrNoKey
  <1> QED
    BY Zenon, <1>2 DEF CallTypeOK, StoreTypeOK, ServeGet

LEMMA ServePutType ==
    ASSUME CallTypeOK, NEW c \in Client, ServePut(c)
    PROVE  CallTypeOK'
  <1>1. /\ call[c].key \in Key
        /\ call[c].value \in Value
        /\ call[c].version \in Nat
    BY Zenon, CallFields DEF ServePut
  <1>2. store' \in [Key -> ValueVersion]
    BY Zenon, <1>1, PutStoreType DEF ServePut, CallTypeOK
  <1>3. Got([err |-> PutErr(call[c].key, call[c].version),
             value |-> NoValue, version |-> 0]) \in NetState
    BY Zenon DEF Got, NetState, PutErr, ServerErr, OK, ErrNoKey, ErrVersion
  <1> QED
    BY Zenon, <1>2, <1>3 DEF CallTypeOK, StoreTypeOK, ServePut

LEMMA ServeLateType ==
    ASSUME CallTypeOK, NEW r \in late, ServeLate(r)
    PROVE  CallTypeOK'
  <1>1. r \in LatePut
    BY Zenon DEF CallTypeOK
  <1>2. store' \in [Key -> ValueVersion]
    BY Zenon, <1>1, PutStoreType DEF ServeLate, CallTypeOK, LatePut
  <1> QED
    BY Zenon, <1>2 DEF CallTypeOK, StoreTypeOK, ServeLate

LEMMA ResendType ==
    ASSUME CallTypeOK, NEW c \in Client, Resend(c), late' \in SUBSET LatePut
    PROVE  CallTypeOK'
  <1>1. Retried(call[c]) \in {NoCall} \union GetCall \union PutCall
    <2>1. CASE call[c].op = "Put"
      BY ZenonT(40), <2>1, CallFields DEF Retried, PutCall
    <2>2. CASE call[c].op # "Put"
      BY Zenon, <2>2 DEF Retried, CallTypeOK
    <2> QED
      BY Zenon, <2>1, <2>2
  <1>2. drops' \in 0..MaxDrops
    BY CallAssumption DEF Resend, CallTypeOK
  <1> QED
    BY Zenon, <1>1, <1>2 DEF CallTypeOK, StoreTypeOK, Resend, NetState

LEMMA CallStepType ==
    ASSUME CallTypeOK, NEW c \in Client, CallStep(c)
    PROVE  CallTypeOK'
  <1>1. CASE ServeGet(c)
    BY Zenon, <1>1, ServeGetType
  <1>2. CASE ServePut(c)
    BY Zenon, <1>2, ServePutType
  <1>3. CASE LoseRequest(c) \/ LoseReply(c)
    BY Zenon, <1>3, ResendType DEF LoseRequest, LoseReply, CallTypeOK
  <1>4. CASE GiveUp(c)
    <2>1. late' \in SUBSET LatePut
      BY <1>4, CallFields DEF GiveUp, LatePut, CallTypeOK
    <2> QED
      BY Zenon, <1>4, <2>1, ResendType DEF GiveUp
  <1> QED
    BY Zenon, <1>1, <1>2, <1>3, <1>4 DEF CallStep

-----------------------------------------------------------------------------
(* The lock itself. *)

LEMMA LockValues ==
    ASSUME TypeOK, IdsDistinct, NEW c \in Client, pc[c] # "unmade"
    PROVE  Locked(c) \in Value /\ Unlocked(c) \in Value
  <1>1. id[c] \in 1..MaxId
    BY LockAssumption DEF TypeOK, IdsDistinct
  <1> QED
    BY Zenon, <1>1, LockAssumption DEF Locked, Unlocked, LockValue

(* A client that nothing happens to keeps its part of the invariant. *)
LEMMA ClientFrame ==
    ASSUME NEW d \in Client, ClientInv(d),
           call'[d] = call[d], net'[d] = net[d], pc'[d] = pc[d], id'[d] = id[d],
           lockname' = lockname, store'[lockname[d]] = store[lockname[d]]
    PROVE  ClientInv(d)'
  BY DEF ClientInv, CallMatchesPC, PutUpToDate, GetUpToDate, Holds, Gone, Entry,
         MayTake, GetReturns, PutReturns, Locked, Unlocked

(* Only the entry a client has read can be overwritten by its Put. *)
LEMMA PutApplies ==
    ASSUME IInv, NEW c \in Client, call[c].op = "Put"
    PROVE  /\ lockname[c] \in Key
           /\ call[c].key = lockname[c]
           /\ pc[c] \in {"acquiring", "releasing"}
           /\ store[lockname[c]].version \in Nat
           /\ call[c].version \in Nat
           /\ PutErr(call[c].key, call[c].version) = OK
                <=> call[c].version = store[lockname[c]].version
           /\ PutErr(call[c].key, call[c].version) # ErrNoKey
  <1>1. ClientInv(c) /\ TypeOK /\ CallTypeOK
    BY Zenon DEF IInv, TypeOK
  <1>2. pc[c] \in PC /\ lockname[c] \in Key
    BY Zenon, <1>1 DEF TypeOK
  <1>3. pc[c] \in {"acquiring", "releasing"} /\ call[c].key = lockname[c]
    BY Zenon, <1>1, <1>2 DEF ClientInv, CallMatchesPC, PC
  <1>4. call[c].version \in Nat
    BY Zenon, <1>1, CallFields
  <1>5. store[lockname[c]] \in ValueVersion
    BY Zenon, <1>1, <1>2 DEF CallTypeOK, StoreTypeOK
  <1>6. call[c].version <= store[lockname[c]].version
    BY Zenon, <1>1 DEF ClientInv, PutUpToDate, Entry
  <1> QED
    BY <1>2, <1>3, <1>4, <1>5, <1>6
    DEF PutErr, Present, OK, ErrNoKey, ErrVersion, ValueVersion

(* Late Puts stay harmless when no version goes back and no client abandons *)
(* a Put that could still take effect.                                      *)
LEMMA LateFrame ==
    ASSUME IInv, late' \subseteq late, store' \in [Key -> ValueVersion],
           \A k \in Key : store[k].version <= store'[k].version,
           \A c \in Client : call[c].op = "Put" =>
                \/ /\ call'[c].op = "Put"
                   /\ call'[c].key = call[c].key
                   /\ call'[c].value = call[c].value
                   /\ call'[c].version = call[c].version
                \/ call[c].version < store'[call[c].key].version
    PROVE  LatePutsHarmless'
  <1> SUFFICES ASSUME NEW r \in late
               PROVE  \/ r.version < store'[r.key].version
                      \/ \E c \in Client :
                            /\ call'[c].op = "Put"
                            /\ call'[c].key = r.key
                            /\ call'[c].value = r.value
                            /\ call'[c].version = r.version
    BY Zenon DEF LatePutsHarmless
  <1>1. r \in LatePut /\ store \in [Key -> ValueVersion]
    BY Zenon DEF IInv, TypeOK, CallTypeOK, StoreTypeOK
  <1>2. /\ r.key \in Key
        /\ r.version \in Nat
        /\ store[r.key].version \in Nat
        /\ store'[r.key].version \in Nat
    BY Zenon, <1>1 DEF LatePut, ValueVersion
  <1>3. CASE r.version < store[r.key].version
    BY <1>2, <1>3
  <1>4. CASE ~(r.version < store[r.key].version)
    <2>1. PICK c \in Client :
            /\ call[c].op = "Put"
            /\ call[c].key = r.key
            /\ call[c].value = r.value
            /\ call[c].version = r.version
      BY Zenon, <1>4 DEF IInv, LatePutsHarmless
    <2> QED
      BY Zenon, <2>1
  <1> QED
    BY Zenon, <1>3, <1>4

(* The parts of the invariant that do not depend on calls. *)
LEMMA StoreFrame ==
    ASSUME IInv, UNCHANGED <<store, count>>
    PROVE  /\ EntriesWellFormed'
           /\ store' \in [Key -> ValueVersion]
           /\ \A k \in Key : store[k].version <= store'[k].version
  BY DEF IInv, EntriesWellFormed, TypeOK, CallTypeOK, StoreTypeOK, ValueVersion

LEMMA IdsFrame ==
    ASSUME IInv, UNCHANGED <<count, id>>, pc' \in [Client -> PC],
           \A c \in Client : pc'[c] = "unmade" <=> pc[c] = "unmade"
    PROVE  IdsDistinct'
  BY Zenon DEF IInv, IdsDistinct

-----------------------------------------------------------------------------
(* A step inside Acquire or Release: the client starts a call or returns    *)
(* from one; the server and the other clients do nothing.                   *)
LEMMA LocalStep ==
    ASSUME IInv, TypeOK', NEW c \in Client,
           UNCHANGED <<store, late, count, id, lockname>>,
           \A d \in Client \ {c} :
                call'[d] = call[d] /\ net'[d] = net[d] /\ pc'[d] = pc[d],
           pc[c] # "unmade", pc'[c] # "unmade",
           call[c].op = "Put" => net[c].at = "reply",
           ClientInv(c)'
    PROVE  IInv'
  <1>1. IdsDistinct'
    BY Zenon, IdsFrame DEF TypeOK
  <1>2. EntriesWellFormed'
    BY Zenon, StoreFrame
  <1>3. LatePutsHarmless'
    <2>1. call[c].op = "Put" => call[c].version < store'[call[c].key].version
      BY Zenon, PutApplies DEF IInv, ClientInv, PutUpToDate, Entry
    <2> QED
      BY Zenon, <2>1, StoreFrame, LateFrame
  <1>4. ASSUME NEW d \in Client
        PROVE  ClientInv(d)'
    BY Zenon, ClientFrame DEF IInv
  <1> QED
    BY Zenon, <1>1, <1>2, <1>3, <1>4 DEF IInv

(* The client starts a Get of its lock's key. *)
LEMMA StartGet ==
    ASSUME IInv, NEW c \in Client, Get(c, lockname[c]),
           UNCHANGED <<count, id, lockname>>,
           NEW label \in {"acquiring", "releasing"}, Goto(c, label),
           rounds' \in [Client -> 0..MaxRounds],
           pc[c] # "unmade",
           call[c].op = "Put" => net[c].at = "reply",
           label = "releasing" => Holds(c)
    PROVE  IInv'
  <1>1. TypeOK'
    <2>1. CallTypeOK'
      BY Zenon, GetType DEF IInv, TypeOK
    <2> QED
      BY Zenon, <2>1 DEF IInv, TypeOK, Goto, PC
  <1>2. /\ call'[c] = [op |-> "Get", key |-> lockname[c]]
        /\ net'[c] = Sent
        /\ pc'[c] = label
        /\ \A d \in Client \ {c} :
                call'[d] = call[d] /\ net'[d] = net[d] /\ pc'[d] = pc[d]
        /\ UNCHANGED <<store, late>>
    BY Zenon DEF Get, Goto, IInv, TypeOK, CallTypeOK
  <1>3. ClientInv(c)'
    <2>1. CallMatchesPC(c)'
      BY <1>2 DEF CallMatchesPC, Sent
    <2>2. PutUpToDate(c)' /\ GetUpToDate(c)' /\ ~Gone(c)'
      BY <1>2 DEF PutUpToDate, GetUpToDate, GetReturns, Gone, Sent
    <2>3. Holds(c)' => Entry(c)'.value = Locked(c)'
      BY <1>2 DEF Holds, PutReturns, Sent, IInv, ClientInv, Entry, Locked
    <2> QED
      BY Zenon, <2>1, <2>2, <2>3 DEF ClientInv
  <1> QED
    BY Zenon, <1>1, <1>2, <1>3, LocalStep

(* The client returns from a call and leaves its method. *)
LEMMA LeaveMethod ==
    ASSUME IInv, NEW c \in Client, Return(c),
           UNCHANGED <<count, id, lockname, rounds>>,
           NEW label \in {"idle", "held"}, Goto(c, label),
           pc[c] # "unmade",
           call[c].op = "Put" => net[c].at = "reply",
           label = "held" => Holds(c),
           label = "idle" => Gone(c)
    PROVE  IInv'
  <1>1. TypeOK'
    <2>1. CallTypeOK'
      BY Zenon, ReturnType DEF IInv, TypeOK
    <2> QED
      BY Zenon, <2>1 DEF IInv, TypeOK, Goto, PC
  <1>2. /\ call'[c].op = "none"
        /\ net'[c].at = "none"
        /\ pc'[c] = label
        /\ \A d \in Client \ {c} :
                call'[d] = call[d] /\ net'[d] = net[d] /\ pc'[d] = pc[d]
        /\ UNCHANGED <<store, late>>
    BY Zenon DEF Return, NoCall, Idle, Goto, IInv, TypeOK, CallTypeOK
  <1>3. ClientInv(c)'
    BY Zenon, <1>2 DEF IInv, ClientInv, CallMatchesPC, PutUpToDate, GetUpToDate, GetReturns,
                PutReturns, Holds, Gone, Entry, Locked
  <1> QED
    BY Zenon, <1>1, <1>2, <1>3, LocalStep

(* The client starts the Put of its method, with the version it has read. *)
LEMMA StartPut ==
    ASSUME IInv, NEW c \in Client, NEW v \in Value,
           GetReturns(c), Put(c, lockname[c], v, net[c].version),
           UNCHANGED lockVars,
           \/ pc[c] = "acquiring" /\ v = Locked(c) /\ MayTake(c, net[c].value)
           \/ pc[c] = "releasing" /\ v = Unlocked(c)
    PROVE  IInv'
  <1>1. TypeOK'
    <2>1. CallTypeOK'
      BY Zenon, PutType, CallFields DEF IInv, TypeOK, GetReturns
    <2> QED
      BY Zenon, <2>1 DEF IInv, TypeOK, lockVars
  <1>2. /\ call'[c].op = "Put"
        /\ call'[c].key = lockname[c]
        /\ call'[c].value = v
        /\ call'[c].version = net[c].version
        /\ net'[c].at = "request"
        /\ pc'[c] = pc[c]
        /\ \A d \in Client \ {c} :
                call'[d] = call[d] /\ net'[d] = net[d] /\ pc'[d] = pc[d]
        /\ UNCHANGED <<store, late, count, id, lockname>>
    BY Zenon DEF Put, Sent, IInv, TypeOK, CallTypeOK, lockVars
  <1>3. ClientInv(c)'
    <2>1. CallMatchesPC(c)'
      BY Zenon, <1>2 DEF CallMatchesPC, Locked, Unlocked
    <2>2. ClientInv(c)
      BY Zenon DEF IInv
    <2>3. /\ net[c].version \in Nat
          /\ store[lockname[c]].version \in Nat
      BY Zenon, CallFields DEF IInv, TypeOK, CallTypeOK, StoreTypeOK, ValueVersion, GetReturns
    <2>4. /\ net[c].version <= Entry(c).version
          /\ net[c].version = Entry(c).version => net[c].value = Entry(c).value
          /\ pc[c] = "releasing" =>
                net[c].version = Entry(c).version /\ Entry(c).value = Locked(c)
      BY Zenon, <2>2 DEF ClientInv, GetUpToDate, Holds, GetReturns
    <2>5. PutUpToDate(c)'
      BY Zenon, <1>2, <2>4 DEF PutUpToDate, Entry, MayTake, Locked
    <2>6. GetUpToDate(c)'
      BY Zenon, <1>2 DEF GetUpToDate, GetReturns
    <2>7. ~Gone(c)'
      BY <1>2, <2>3, <2>4 DEF Gone, Entry
    <2>8. Holds(c)' => Entry(c)'.value = Locked(c)'
      BY Zenon, <1>2, <2>4 DEF Holds, PutReturns, Entry, Locked
    <2> QED
      BY Zenon, <2>1, <2>5, <2>6, <2>7, <2>8 DEF ClientInv
  <1> QED
    BY Zenon, <1>1, <1>2, <1>3, LocalStep DEF GetReturns

(* The client's own steps, one action after the other. *)
LEMMA LockStepInv ==
    ASSUME IInv, NEW c \in Client, Acquire(c) \/ LockStep(c)
    PROVE  IInv'
  <1>1. /\ ClientInv(c) /\ TypeOK /\ IdsDistinct
        /\ rounds \in [Client -> 0..MaxRounds]
        /\ pc \in [Client -> PC]
    BY Zenon DEF IInv, TypeOK
  <1>2. ASSUME pc[c] \in {"acquiring", "releasing"}
        PROVE  Locked(c) \in Value /\ Unlocked(c) \in Value
    BY Zenon, <1>1, <1>2, LockValues
  <1>3. CASE Acquire(c)
    <2>1. rounds' \in [Client -> 0..MaxRounds]
      BY <1>1, <1>3, LockAssumption DEF Acquire
    <2>2. call[c].op # "Put"
      BY Zenon, <1>1, <1>3 DEF Acquire, ClientInv, CallMatchesPC
    <2> QED
      BY Zenon, <1>3, <2>1, <2>2, StartGet DEF Acquire
  <1>4. CASE TryPut(c)
    BY Zenon, <1>2, <1>4, StartPut DEF TryPut
  <1>5. CASE Spin(c)
    <2>1. Goto(c, "acquiring")
      BY Zenon, <1>1, <1>5 DEF Spin, Goto, lockVars
    <2> QED
      BY Zenon, <1>1, <1>5, <2>1, StartGet DEF Spin, GetReturns, lockVars
  <1>6. CASE Acquired(c)
    <2>1. net[c].err = OK
      BY Zenon, <1>6 DEF Acquired, PutResult, OK, ErrMaybe
    <2>2. Holds(c)
      BY Zenon, <1>6, <2>1 DEF Acquired, Holds
    <2> QED
      BY Zenon, <1>6, <2>2, LeaveMethod DEF Acquired, PutReturns
  <1>7. CASE PutFailed(c)
    <2>1. Goto(c, "acquiring")
      BY Zenon, <1>1, <1>7 DEF PutFailed, Goto, lockVars
    <2> QED
      BY Zenon, <1>1, <1>7, <2>1, StartGet DEF PutFailed, PutReturns, lockVars
  <1>8. CASE Release(c)
    <2>1. call[c].op # "Put" /\ Holds(c)
      BY Zenon, <1>1, <1>8 DEF Release, ClientInv, CallMatchesPC, Holds
    <2> QED
      BY Zenon, <1>1, <1>8, <2>1, StartGet DEF Release
  <1>9. CASE ReleasePut(c)
    <2>1. Holds(c) /\ Entry(c).value = Locked(c)
      BY Zenon, <1>1, <1>9 DEF ReleasePut, GetReturns, Holds, ClientInv
    <2>2. net[c].err = OK /\ net[c].value = Entry(c).value
      BY Zenon, <1>1, <1>9 DEF ReleasePut, ClientInv, GetUpToDate
    <2>3. net[c].err # ErrNoKey /\ net[c].value # NoValue
      BY Zenon, <1>2, <1>9, <2>1, <2>2, NoValueAssumption DEF ReleasePut, OK, ErrNoKey
    <2> QED
      BY Zenon, <1>2, <1>9, <2>3, StartPut DEF ReleasePut, lockVars
  <1>10. CASE Released(c)
    <2>1. Gone(c)
      BY Zenon, <1>1, <1>10 DEF Released, Gone, PutReturns, ClientInv, PutUpToDate
    <2> QED
      BY Zenon, <1>10, <2>1, LeaveMethod DEF Released, PutReturns
  <1> QED
    BY Zenon, <1>3, <1>4, <1>5, <1>6, <1>7, <1>8, <1>9, <1>10 DEF LockStep

-----------------------------------------------------------------------------
(* What another client may still assume after client c's Put took effect. *)
LEMMA OthersAfterPut ==
    ASSUME IInv, NEW c \in Client, NEW d \in Client, d # c,
           call[c].op = "Put",
           call[c].version = store[lockname[c]].version,
           store' = [store EXCEPT ![lockname[c]] =
                        [value |-> call[c].value, version |-> call[c].version + 1]],
           call'[d] = call[d], net'[d] = net[d],
           UNCHANGED <<pc, id, lockname>>
    PROVE  ClientInv(d)'
  <1>1. TypeOK /\ CallTypeOK /\ IdsDistinct /\ ClientInv(c) /\ ClientInv(d)
    BY Zenon DEF IInv, TypeOK
  <1>2. /\ store \in [Key -> ValueVersion]
        /\ lockname[c] \in Key
        /\ lockname[d] \in Key
    BY Zenon, <1>1 DEF TypeOK, CallTypeOK, StoreTypeOK
  <1>3. CASE lockname[d] # lockname[c]
    <2>1. store'[lockname[d]] = store[lockname[d]]
      BY Zenon, <1>2, <1>3
    <2> QED
      BY Zenon, <1>1, <2>1, ClientFrame
  <1>4. CASE lockname[d] = lockname[c]
    <2>1. pc[c] \in {"acquiring", "releasing"} /\ pc[d] \in PC
      BY Zenon, <1>1, PutApplies DEF TypeOK
    <2>2. id[c] # 0 /\ id[c] # id[d]
      BY Zenon, <1>1, <2>1 DEF IdsDistinct
    <2>3. call[c].value \in {Locked(c), Unlocked(c)}
      BY Zenon, <1>1 DEF ClientInv, CallMatchesPC
    <2>4. /\ store'[lockname[d]].value = call[c].value
          /\ store'[lockname[d]].version = store[lockname[d]].version + 1
          /\ store[lockname[d]].version \in Nat
      BY Zenon, <1>2, <1>4 DEF ValueVersion
    <2>5. call[c].value # Locked(d)
      BY <2>2, <2>3 DEF Locked, Unlocked
    <2>6. ~Holds(d)
      <3> SUFFICES ASSUME Holds(d)
                   PROVE  FALSE
        BY Zenon
      <3>1. store[lockname[c]].value = Locked(d)
        BY <1>1, <1>4 DEF ClientInv, Entry
      <3>2. Locked(d) # NoValue
        BY Zenon, <1>1, LockValues, NoValueAssumption DEF Holds
      <3>3. IF pc[c] = "acquiring" THEN MayTake(c, store[lockname[c]].value)
                                   ELSE store[lockname[c]].value = Locked(c)
        BY Zenon, <1>1 DEF ClientInv, PutUpToDate, Entry
      <3> QED
        BY <2>2, <3>1, <3>2, <3>3 DEF MayTake, Locked
    <2>7. Entry(d)' = [value |-> call[c].value,
                       version |-> store[lockname[d]].version + 1]
      BY Zenon, <1>2, <1>4 DEF Entry
    <2>8. CallMatchesPC(d)'
      BY Zenon, <1>1 DEF ClientInv, CallMatchesPC, Locked, Unlocked
    <2>9. PutUpToDate(d)' /\ (call[d].op = "Put" => call[d].version # Entry(d)'.version)
      <3>1. PutUpToDate(d)
        BY Zenon, <1>1 DEF ClientInv
      <3> QED
        BY <1>1, <2>4, <2>7, <3>1, CallFields DEF PutUpToDate, Entry
    <2>10. ~Holds(d)'
      BY Zenon, <2>6, <2>9 DEF Holds, PutReturns
    <2>11. GetUpToDate(d)'
      <3>1. pc[d] = "releasing" => call[d].op # "Get"
        BY Zenon, <2>6 DEF Holds
      <3>2. GetUpToDate(d)
        BY Zenon, <1>1 DEF ClientInv
      <3> QED
        BY <1>1, <2>4, <2>7, <3>1, <3>2, CallFields DEF GetUpToDate, GetReturns, Entry
    <2>12. Entry(d)'.value # Locked(d)'
      BY <2>5, <2>7 DEF Locked
    <2> QED
      BY Zenon, <2>8, <2>9, <2>10, <2>11, <2>12 DEF ClientInv
  <1> QED
    BY Zenon, <1>3, <1>4

(* A Put that client c still waits for reaches the server: as the request   *)
(* c is waiting for (its reply is then on its way), or as a late copy.      *)
LEMMA PutReachesServer ==
    ASSUME IInv, TypeOK', NEW c \in Client, call[c].op = "Put",
           store' = PutStore(call[c].key, call[c].value, call[c].version),
           UNCHANGED call, UNCHANGED lockVars, late' \subseteq late,
           \A d \in Client \ {c} : net'[d] = net[d],
           \/ net'[c] = net[c]
           \/ /\ net[c].at = "request"
              /\ net'[c].at = "reply"
              /\ net'[c].err = PutErr(call[c].key, call[c].version)
    PROVE  IInv'
  <1> USE DEF Entry
  <1>1. /\ ClientInv(c) /\ IdsDistinct /\ TypeOK
        /\ store \in [Key -> ValueVersion]
        /\ store' \in [Key -> ValueVersion]
        /\ lockname \in [Client -> Key]
        /\ id \in [Client -> 0..MaxId]
        /\ UNCHANGED <<pc, id, lockname, count>>
    BY Zenon DEF IInv, TypeOK, CallTypeOK, StoreTypeOK, lockVars
  <1>2. /\ lockname[c] \in Key
        /\ call[c].key = lockname[c]
        /\ pc[c] \in {"acquiring", "releasing"}
        /\ store[lockname[c]].version \in Nat
        /\ call[c].version \in Nat
        /\ call[c].version <= store[lockname[c]].version
        /\ net[c].at = "reply" => call[c].version < store[lockname[c]].version
        /\ call[c].value = IF pc[c] = "acquiring" THEN Locked(c) ELSE Unlocked(c)
    BY Zenon, <1>1, PutApplies DEF ClientInv, PutUpToDate, CallMatchesPC
  <1>3. CASE call[c].version = store[lockname[c]].version
    <2>1. store' = [store EXCEPT ![lockname[c]] =
                        [value |-> call[c].value, version |-> call[c].version + 1]]
      BY Zenon, <1>2, <1>3, PutApplies DEF PutStore
    <2>2. /\ Entry(c)'.value = call[c].value
          /\ Entry(c)'.version = call[c].version + 1
      BY <1>1, <1>2, <2>1
    <2>3. ClientInv(c)'
      <3>1. CallMatchesPC(c)'
        BY ZenonT(40), <1>1 DEF ClientInv, CallMatchesPC, Locked, Unlocked
      <3>2. PutUpToDate(c)'
        BY <1>2, <2>2 DEF PutUpToDate
      <3>3. GetUpToDate(c)'
        BY Zenon DEF GetUpToDate, GetReturns
      <3>4. /\ UNCHANGED <<pc[c], call[c], Locked(c), Unlocked(c)>>
            /\ Locked(c) # Unlocked(c)
        BY Zenon, <1>1 DEF Locked, Unlocked
      <3>5. call'[c].op = "Put" /\ call'[c].version < Entry(c)'.version
        BY SMTT(30), <1>2, <2>2, <3>4
      <3>6. Holds(c)' => Entry(c)'.value = Locked(c)'
        BY <1>2, <2>2, <3>4, <3>5 DEF Holds
      <3>7. Gone(c)' => Entry(c)'.value # Locked(c)'
        BY Zenon, <1>2, <2>2, <3>4, <3>5 DEF Gone
      <3> QED
        BY Zenon, <3>1, <3>2, <3>3, <3>6, <3>7 DEF ClientInv
    <2>4. ASSUME NEW d \in Client
          PROVE  ClientInv(d)'
      BY Zenon, <1>1, <1>3, <2>1, <2>3, OthersAfterPut
    <2>5. EntriesWellFormed'
      <3>1. /\ call[c].value \in Value
            /\ call[c].value # NoValue
            /\ call[c].value.id = id[c]
            /\ id[c] <= count
        BY <1>1, <1>2, LockValues, NoValueAssumption DEF IdsDistinct, Locked, Unlocked
      <3>2. ASSUME NEW k \in Key
            PROVE  /\ store'[k].version = 0 <=> store'[k].value = NoValue
                   /\ store'[k].value # NoValue => store'[k].value.id <= count
        <4>1. CASE k = lockname[c]
          BY <1>1, <1>2, <2>1, <3>1, <4>1
        <4>2. CASE k # lockname[c]
          BY ZenonT(40), <1>1, <2>1, <4>2 DEF IInv, EntriesWellFormed
        <4> QED
          BY ZenonT(40), <4>1, <4>2
      <3> QED
        BY Zenon, <1>1, <3>2 DEF EntriesWellFormed
    <2>6. LatePutsHarmless'
      <3>1. \A k \in Key : store[k].version <= store'[k].version
        BY <1>1, <1>2, <1>3, <2>1 DEF ValueVersion
      <3> QED
        BY Zenon, <1>1, <3>1, LateFrame
    <2>7. IdsDistinct'
      BY Zenon, <1>1 DEF IdsDistinct
    <2> QED
      BY Zenon, <2>4, <2>5, <2>6, <2>7 DEF IInv
  <1>4. CASE call[c].version # store[lockname[c]].version
    <2>1. UNCHANGED store /\ PutErr(call[c].key, call[c].version) # OK
      BY Zenon, <1>2, <1>4, PutApplies DEF PutStore
    <2>2. ClientInv(c)'
      <3>1. CASE net'[c] = net[c]
        BY Zenon, <1>1, <2>1, <3>1, ClientFrame
      <3>2. CASE net'[c] # net[c]
        <4>1. net[c].at = "request" /\ net'[c].at = "reply" /\ net'[c].err # OK
          BY Zenon, <2>1, <3>2
        <4>2. UNCHANGED <<pc[c], call[c], Entry(c), Locked(c), Unlocked(c)>>
          BY Zenon, <1>1, <2>1 DEF Locked, Unlocked
        <4>3. CallMatchesPC(c)'
          BY ZenonT(40), <1>1, <4>1, <4>2 DEF ClientInv, CallMatchesPC
        <4>4. PutUpToDate(c)'
          BY <1>2, <1>4, <4>1, <4>2 DEF PutUpToDate
        <4>5. GetUpToDate(c)'
          BY Zenon, <4>2 DEF GetUpToDate, GetReturns
        <4>6. Holds(c)' => Entry(c)'.value = Locked(c)'
          BY Zenon, <1>1, <1>2, <4>1, <4>2 DEF ClientInv, PutUpToDate, Holds, PutReturns
        <4>7. Gone(c)' => Entry(c)'.value # Locked(c)'
          BY Zenon, <1>1, <1>2, <1>4, <4>1, <4>2 DEF ClientInv, PutUpToDate, Gone, PutReturns
        <4> QED
          BY Zenon, <4>3, <4>4, <4>5, <4>6, <4>7 DEF ClientInv
      <3> QED
        BY Zenon, <3>1, <3>2
    <2>3. ASSUME NEW d \in Client
          PROVE  ClientInv(d)'
      BY Zenon, <1>1, <2>1, <2>2, ClientFrame DEF IInv
    <2>4. IdsDistinct' /\ EntriesWellFormed' /\ LatePutsHarmless'
      BY Zenon, <1>1, <2>1, StoreFrame, LateFrame DEF IdsDistinct
    <2> QED
      BY Zenon, <2>3, <2>4 DEF IInv
  <1> QED
    BY Zenon, <1>3, <1>4

LEMMA ServePutInv ==
    ASSUME IInv, NEW c \in Client, ServePut(c), UNCHANGED lockVars
    PROVE  IInv'
  <1>1. TypeOK'
    BY Zenon, ServePutType DEF IInv, TypeOK, lockVars
  <1>2. /\ net[c].at = "request"
        /\ net'[c].at = "reply"
        /\ net'[c].err = PutErr(call[c].key, call[c].version)
        /\ \A d \in Client \ {c} : net'[d] = net[d]
    BY DEF ServePut, Sent, Got, IInv, TypeOK, CallTypeOK
  <1> QED
    BY Zenon, <1>1, <1>2, PutReachesServer DEF ServePut

LEMMA LateInv ==
    ASSUME IInv, Late
    PROVE  IInv'
  <1>1. PICK r \in late : ServeLate(r)
    BY Zenon DEF Late
  <1>2. TypeOK'
    BY Zenon, <1>1, ServeLateType DEF Late, IInv, TypeOK, lockVars
  <1>3. /\ late' \subseteq late
        /\ UNCHANGED <<call, net, lockVars>>
        /\ store' = PutStore(r.key, r.value, r.version)
        /\ r \in LatePut
        /\ store \in [Key -> ValueVersion]
    BY Zenon, <1>1 DEF ServeLate, Late, IInv, TypeOK, CallTypeOK, StoreTypeOK
  <1>4. CASE r.version < store[r.key].version
    <2>1. UNCHANGED store
      BY <1>3, <1>4 DEF PutStore, PutErr, Present, OK, ErrVersion, LatePut, ValueVersion
    <2>2. \A d \in Client : ClientInv(d)'
      BY Zenon, <1>3, <2>1, ClientFrame DEF IInv, lockVars
    <2>3. IdsDistinct' /\ EntriesWellFormed' /\ LatePutsHarmless'
      BY Zenon, <1>3, <2>1, StoreFrame, LateFrame DEF IInv, IdsDistinct, lockVars
    <2> QED
      BY Zenon, <1>2, <2>2, <2>3 DEF IInv
  <1>5. CASE \E c \in Client :
            /\ call[c].op = "Put"
            /\ call[c].key = r.key
            /\ call[c].value = r.value
            /\ call[c].version = r.version
    BY Zenon, <1>2, <1>3, <1>5, PutReachesServer
  <1> QED
    BY Zenon, <1>4, <1>5 DEF IInv, LatePutsHarmless

-----------------------------------------------------------------------------
LEMMA MakeLockInv ==
    ASSUME IInv, NEW c \in Client, MakeLock(c)
    PROVE  IInv'
  <1>1. TypeOK'
    BY LockAssumption DEF IInv, MakeLock, Goto, TypeOK, callVars, CallTypeOK, StoreTypeOK, PC
  <1>2. IdsDistinct'
    BY DEF IInv, MakeLock, Goto, TypeOK, IdsDistinct
  <1>3. EntriesWellFormed'
    <2>1. store' = store /\ count' = count + 1 /\ count \in Nat
      BY DEF MakeLock, callVars, IInv, TypeOK
    <2>2. \A k \in Key : store[k].value # NoValue => store[k].value.id \in Nat
      BY LockAssumption DEF IInv, TypeOK, CallTypeOK, StoreTypeOK, ValueVersion, LockValue
    <2> QED
      BY <2>1, <2>2 DEF IInv, EntriesWellFormed
  <1>4. LatePutsHarmless'
    BY Zenon DEF IInv, MakeLock, callVars, LatePutsHarmless
  <1>5. ASSUME NEW d \in Client
        PROVE  ClientInv(d)'
    <2>1. CASE d # c
      <3>1. /\ call'[d] = call[d] /\ net'[d] = net[d]
            /\ pc'[d] = pc[d] /\ id'[d] = id[d]
            /\ lockname' = lockname /\ store' = store
        BY Zenon, <2>1 DEF MakeLock, Goto, callVars, IInv, TypeOK
      <3> QED
        BY Zenon, <3>1, ClientFrame DEF IInv
    <2>2. CASE d = c
      <3>1. /\ pc'[c] = "idle"
            /\ call'[c].op = "none"
            /\ net'[c].at = "none"
            /\ Locked(c)' = [locked |-> TRUE, id |-> count + 1]
        BY Zenon DEF MakeLock, Goto, callVars, IInv, TypeOK, ClientInv, CallMatchesPC, Locked
      <3>2. Entry(c)' = Entry(c) /\ lockname[c] \in Key /\ count \in Nat
        BY DEF MakeLock, callVars, Entry, IInv, TypeOK
      <3>3. Entry(c).value # [locked |-> TRUE, id |-> count + 1]
        <4>1. CASE Entry(c).value = NoValue
          <5>1. [locked |-> TRUE, id |-> count + 1] \in Value
            BY <3>2, LockAssumption DEF MakeLock, LockValue, IInv, TypeOK
          <5> QED
            BY Zenon, <4>1, <5>1, NoValueAssumption
        <4>2. CASE Entry(c).value # NoValue
          BY <3>2, <4>2 DEF IInv, EntriesWellFormed, Entry
        <4> QED
          BY Zenon, <4>1, <4>2
      <3> QED
        BY Zenon, <2>2, <3>1, <3>2, <3>3
        DEF ClientInv, CallMatchesPC, PutUpToDate, GetUpToDate, Holds, Gone,
            GetReturns, PutReturns
    <2> QED
      BY Zenon, <2>1, <2>2
  <1> QED
    BY Zenon, <1>1, <1>2, <1>3, <1>4, <1>5 DEF IInv

-----------------------------------------------------------------------------
(* The server answers a Get. *)
LEMMA ServeGetInv ==
    ASSUME IInv, NEW c \in Client, ServeGet(c), UNCHANGED lockVars
    PROVE  IInv'
  <1>1. TypeOK'
    BY Zenon, ServeGetType DEF IInv, TypeOK, lockVars
  <1>2. /\ UNCHANGED <<store, call, late, count, id, lockname, pc>>
        /\ net[c].at = "request"
        /\ call[c].op = "Get"
        /\ net'[c] = Got(GetReply(call[c].key))
        /\ \A d \in Client \ {c} : net'[d] = net[d]
        /\ pc \in [Client -> PC]
        /\ lockname \in [Client -> Key]
    BY DEF ServeGet, Sent, lockVars, IInv, TypeOK, CallTypeOK
  <1>3. call[c].key = lockname[c] /\ pc[c] \in {"acquiring", "releasing"} /\ ClientInv(c)
    BY ZenonT(40), <1>2 DEF IInv, ClientInv, CallMatchesPC, PC
  <1>4. /\ net'[c].at = "reply"
        /\ net'[c].version = Entry(c).version
        /\ net'[c].value = Entry(c).value
        /\ net'[c].err = IF Entry(c).version > 0 THEN OK ELSE ErrNoKey
        /\ Entry(c).version \in Nat
    BY <1>2, <1>3 DEF Got, GetReply, Present, Entry, IInv, TypeOK, CallTypeOK,
                      StoreTypeOK, ValueVersion
  <1>5. pc[c] = "releasing" => Entry(c).value = Locked(c) /\ Entry(c).version > 0
    <2>1. pc[c] = "releasing" => Entry(c).value = Locked(c) /\ Locked(c) # NoValue
      BY Zenon, <1>2, <1>3, LockValues, NoValueAssumption DEF IInv, ClientInv, Holds
    <2>2. lockname[c] \in Key /\ EntriesWellFormed
      BY Zenon, <1>2 DEF IInv
    <2>3. Entry(c).version = 0 <=> Entry(c).value = NoValue
      BY Zenon, <2>2 DEF EntriesWellFormed, Entry
    <2> QED
      BY <1>4, <2>1, <2>3
  <1>6. ClientInv(c)'
    <2>1. CallMatchesPC(c)'
      BY ZenonT(40), <1>2, <1>3, <1>4 DEF ClientInv, CallMatchesPC, Locked, Unlocked
    <2>2. GetUpToDate(c)'
      BY <1>2, <1>4, <1>5 DEF GetUpToDate, Entry
    <2>3. PutUpToDate(c)' /\ ~Gone(c)'
      BY Zenon, <1>2, <1>3 DEF PutUpToDate, Gone
    <2>4. Holds(c)' => Entry(c)'.value = Locked(c)'
      BY Zenon, <1>2, <1>3, <1>5 DEF Holds, PutReturns, Entry, Locked
    <2> QED
      BY Zenon, <2>1, <2>2, <2>3, <2>4 DEF ClientInv
  <1> QED
    BY Zenon, <1>1, <1>2, <1>3, <1>6, LocalStep

(* A lost request or reply, and a request given up on: the clerk resends. *)
LEMMA ResendInv ==
    ASSUME IInv, NEW c \in Client,
           LoseRequest(c) \/ LoseReply(c) \/ GiveUp(c), UNCHANGED lockVars
    PROVE  IInv'
  <1>1. TypeOK'
    BY Zenon, CallStepType DEF IInv, TypeOK, lockVars, CallStep
  <1>2. /\ UNCHANGED <<store, count, id, lockname, pc>>
        /\ net[c].at \in {"request", "reply"}
        /\ net'[c].at = "request"
        /\ \A d \in Client \ {c} : net'[d] = net[d] /\ call'[d] = call[d]
        /\ call'[c] = Retried(call[c])
    BY DEF LoseRequest, LoseReply, GiveUp, Resend, Sent, lockVars, IInv, TypeOK, CallTypeOK
  <1>3. /\ call'[c].op = call[c].op
        /\ call[c].op \in {"Get", "Put"}
        /\ call'[c].key = call[c].key
        /\ call[c].op = "Put" =>
                call'[c].value = call[c].value /\ call'[c].version = call[c].version
    <2>1. call[c].op \in {"Get", "Put"}
      BY Zenon, <1>2, CallFields DEF IInv, ClientInv, CallMatchesPC, TypeOK, PC
    <2>2. CASE call[c].op = "Get"
      BY Zenon, <1>2, <2>2 DEF Retried
    <2>3. CASE call[c].op = "Put"
      BY ZenonT(40), <1>2, <2>3, CallFields DEF Retried, PutCall, IInv, TypeOK
    <2> QED
      BY Zenon, <2>1, <2>2, <2>3
  <1>4. ClientInv(c)'
    BY <1>2, <1>3 DEF IInv, ClientInv, CallMatchesPC, PutUpToDate, GetUpToDate, GetReturns,
                PutReturns, Holds, Gone, Entry, Locked, Unlocked, MayTake
  <1>5. ASSUME NEW d \in Client
        PROVE  ClientInv(d)'
    BY Zenon, <1>2, <1>4, ClientFrame DEF IInv
  <1>6. LatePutsHarmless'
    <2> SUFFICES ASSUME NEW r \in late'
                 PROVE  \/ r.version < store[r.key].version
                        \/ \E d \in Client :
                              /\ call'[d].op = "Put"
                              /\ call'[d].key = r.key
                              /\ call'[d].value = r.value
                              /\ call'[d].version = r.version
      BY ZenonT(40), <1>2 DEF LatePutsHarmless
    <2>1. CASE r \in late
      <3>1. \A d \in Client : call[d].op = "Put" =>
              /\ call'[d].op = "Put"
              /\ call'[d].key = call[d].key
              /\ call'[d].value = call[d].value
              /\ call'[d].version = call[d].version
        BY Zenon, <1>2, <1>3
      <3> QED
        BY <2>1, <3>1 DEF IInv, LatePutsHarmless
    <2>2. CASE r \notin late
      <3>1. /\ call[c].op = "Put"
            /\ r = [key |-> call[c].key, value |-> call[c].value, version |-> call[c].version]
        BY Zenon, <2>2 DEF LoseRequest, LoseReply, GiveUp
      <3> QED
        BY Zenon, <1>3, <3>1
    <2> QED
      BY Zenon, <2>1, <2>2
  <1>7. IdsDistinct' /\ EntriesWellFormed'
    BY Zenon, <1>2, StoreFrame DEF IInv, IdsDistinct
  <1> QED
    BY Zenon, <1>1, <1>5, <1>6, <1>7 DEF IInv

-----------------------------------------------------------------------------
LEMMA InitInv == Init => IInv
  <1> SUFFICES ASSUME Init
               PROVE  IInv
    BY Zenon
  <1>1. TypeOK
    BY LockAssumption, CallAssumption
    DEF Init, CallInit, MakeKVServer, Absent, TypeOK, CallTypeOK, StoreTypeOK, ValueVersion,
        NetState, PC
  <1>2. IdsDistinct /\ EntriesWellFormed /\ LatePutsHarmless
    BY DEF Init, CallInit, MakeKVServer, Absent, IdsDistinct, EntriesWellFormed,
           LatePutsHarmless
  <1>3. \A c \in Client : ClientInv(c)
    BY Zenon DEF Init, CallInit, NoCall, Idle, ClientInv, CallMatchesPC, PutUpToDate, GetUpToDate,
           GetReturns, PutReturns, Holds, Gone
  <1> QED
    BY Zenon, <1>1, <1>2, <1>3 DEF IInv

LEMMA NextInv == IInv /\ [Next]_vars => IInv'
  <1> SUFFICES ASSUME IInv, [Next]_vars
               PROVE  IInv'
    BY Zenon
  <1>1. ASSUME NEW c \in Client, MakeLock(c)
        PROVE  IInv'
    BY Zenon, <1>1, MakeLockInv
  <1>2. ASSUME NEW c \in Client, Acquire(c) \/ LockStep(c)
        PROVE  IInv'
    BY Zenon, <1>2, LockStepInv
  <1>3. ASSUME NEW c \in Client, Network(c)
        PROVE  IInv'
    BY Zenon, <1>3, ServeGetInv, ServePutInv, ResendInv DEF Network, CallStep
  <1>4. CASE Late
    BY Zenon, <1>4, LateInv
  <1>5. CASE UNCHANGED vars
    <2>1. UNCHANGED <<store, call, net, late, drops, count, id, lockname, pc, rounds>>
      BY Zenon, <1>5 DEF vars, callVars, lockVars
    <2>2. TypeOK'
      BY Zenon, <2>1 DEF IInv, TypeOK, CallTypeOK, StoreTypeOK
    <2>3. \A c \in Client : ClientInv(c)'
      BY Zenon, <2>1, ClientFrame DEF IInv
    <2>4. IdsDistinct' /\ EntriesWellFormed' /\ LatePutsHarmless'
      BY Zenon, <2>1 DEF IInv, IdsDistinct, EntriesWellFormed, LatePutsHarmless
    <2> QED
      BY Zenon, <2>2, <2>3, <2>4 DEF IInv
  <1> QED
    BY Zenon, <1>1, <1>2, <1>3, <1>4, <1>5 DEF Next, Terminated

(***************************************************************************)
(* The invariant of Acquire and Release holds in every reachable state,    *)
(* for any number of clients, locks and lost or late messages.             *)
(***************************************************************************)
THEOREM InvariantHolds == Spec => []IInv
  BY InitInv, NextInv, PTL DEF Spec

(* Every variable keeps its type; the versions stay natural numbers. *)
THEOREM TypeCorrect == Spec => []TypeOK
  <1>1. IInv => TypeOK
    BY Zenon DEF IInv
  <1> QED
    BY <1>1, InvariantHolds, PTL

(***************************************************************************)
(* Acquire gives a lock to one client at a time, although its Put may be   *)
(* resent, answered late or executed after the client stopped waiting.     *)
(***************************************************************************)
THEOREM MutualExclusionHolds == Spec => []MutualExclusion
  <1>1. IInv => MutualExclusion
    <2> SUFFICES ASSUME IInv, NEW c \in Client, NEW d \in Client,
                        pc[c] = "held", pc[d] = "held", lockname[c] = lockname[d]
                 PROVE  c = d
      BY Zenon DEF MutualExclusion
    <2>1. Locked(c) = Locked(d)
      BY Zenon DEF IInv, ClientInv, Holds, Entry
    <2>2. id[c] = id[d] /\ id[c] # 0
      BY Zenon, <2>1 DEF Locked, IInv, IdsDistinct
    <2> QED
      BY Zenon, <2>2 DEF IInv, IdsDistinct
  <1> QED
    BY <1>1, InvariantHolds, PTL

(***************************************************************************)
(* Release may ignore what its Put returned: once it is over, the server   *)
(* no longer names the client as the holder.                               *)
(***************************************************************************)
THEOREM ReleaseEffectiveHolds == Spec => []ReleaseEffective
  <1>1. IInv => ReleaseEffective
    BY Zenon DEF IInv, ClientInv, Gone, Entry, ReleaseEffective
  <1> QED
    BY <1>1, InvariantHolds, PTL

(* While a client holds a lock, the server's entry names it. *)
THEOREM HolderRecordedHolds == Spec => []HolderRecorded
  <1>1. IInv => HolderRecorded
    BY Zenon DEF IInv, ClientInv, Holds, Entry, HolderRecorded
  <1> QED
    BY <1>1, InvariantHolds, PTL

-----------------------------------------------------------------------------
(***************************************************************************)
(* The refinement of Mutex.  A step writes an entry or it moves a client   *)
(* between its methods, never both.                                        *)
(***************************************************************************)

(* The Put client c waits for overwrites the entry c has read. *)
Overwrites(c) ==
    /\ call[c].op = "Put"
    /\ call[c].version = store[lockname[c]].version
    /\ store' = [store EXCEPT ![lockname[c]] =
                    [value |-> call[c].value, version |-> call[c].version + 1]]
    /\ UNCHANGED lockVars

LEMMA ServerSteps ==
    ASSUME IInv, NEW c \in Client, call[c].op = "Put",
           store' = PutStore(call[c].key, call[c].value, call[c].version),
           UNCHANGED lockVars
    PROVE  Overwrites(c) \/ store' = store
  <1>1. /\ call[c].key = lockname[c]
        /\ PutErr(call[c].key, call[c].version) = OK
                <=> call[c].version = store[lockname[c]].version
    BY Zenon, PutApplies
  <1> QED
    BY Zenon, <1>1 DEF PutStore, Overwrites

LEMMA NetworkSteps ==
    ASSUME IInv, (\E c \in Client : Network(c)) \/ Late
    PROVE  (\E c \in Client : Overwrites(c)) \/ UNCHANGED <<store, lockVars>>
  <1>1. ASSUME NEW c \in Client, ServePut(c), UNCHANGED lockVars
        PROVE  Overwrites(c) \/ store' = store
    BY Zenon, <1>1, ServerSteps DEF ServePut
  <1>2. ASSUME NEW c \in Client,
               ServeGet(c) \/ LoseRequest(c) \/ LoseReply(c) \/ GiveUp(c)
        PROVE  store' = store
    BY Zenon, <1>2 DEF ServeGet, LoseRequest, LoseReply, GiveUp, Resend
  <1>3. ASSUME NEW r \in late, ServeLate(r), UNCHANGED lockVars
        PROVE  (\E c \in Client : Overwrites(c)) \/ store' = store
    <2>1. store' = PutStore(r.key, r.value, r.version) /\ r \in LatePut
      BY Zenon, <1>3 DEF ServeLate, IInv, TypeOK, CallTypeOK
    <2>2. CASE r.version < store[r.key].version
      <3>1. r.version \in Nat /\ r.key \in Key /\ store[r.key].version \in Nat
        BY Zenon, <2>1 DEF LatePut, ValueVersion, IInv, TypeOK, CallTypeOK, StoreTypeOK
      <3> QED
        BY <2>1, <2>2, <3>1 DEF PutStore, PutErr, Present, OK, ErrVersion, ErrNoKey
    <2>3. CASE ~(r.version < store[r.key].version)
      <3>1. PICK c \in Client :
                /\ call[c].op = "Put"
                /\ call[c].key = r.key
                /\ call[c].value = r.value
                /\ call[c].version = r.version
        BY Zenon, <2>3 DEF IInv, LatePutsHarmless
      <3> QED
        BY Zenon, <1>3, <2>1, <3>1, ServerSteps
    <2> QED
      BY Zenon, <2>2, <2>3
  <1> QED
    BY Zenon, <1>1, <1>2, <1>3 DEF Network, Late, CallStep

(* Entries name the ids of Lock objects: of the one that wrote them. *)
LEMMA OwnersKept ==
    ASSUME IInv, OwnersMade, [Next]_vars
    PROVE  OwnersMade'
  <1>1. ASSUME NEW c \in Client, Overwrites(c)
        PROVE  OwnersMade'
    <2>1. store \in [Key -> ValueVersion] /\ lockname[c] \in Key /\ UNCHANGED id
      BY Zenon, <1>1 DEF IInv, TypeOK, CallTypeOK, StoreTypeOK, Overwrites, lockVars
    <2>2. call[c].value \in {Locked(c), Unlocked(c)}
      BY Zenon, <1>1 DEF Overwrites, IInv, ClientInv, CallMatchesPC
    <2>3. call[c].value.id = id[c]
      BY <2>2 DEF Locked, Unlocked
    <2> QED
      BY Zenon, <1>1, <2>1, <2>3 DEF OwnersMade, Overwrites
  <1>2. CASE UNCHANGED <<store, id>>
    BY Zenon, <1>2 DEF OwnersMade
  <1>3. ASSUME NEW c \in Client, MakeLock(c)
        PROVE  OwnersMade'
    <2>1. /\ store' = store /\ id' = [id EXCEPT ![c] = count + 1] /\ pc[c] = "unmade"
          /\ id \in [Client -> 0..MaxId]
      BY Zenon, <1>3 DEF MakeLock, callVars, IInv, TypeOK
    <2>2. id[c] = 0
      BY Zenon, <2>1 DEF IInv, IdsDistinct
    <2>3. ASSUME NEW k \in Key, store[k].value # NoValue
          PROVE  \E d \in Client : id'[d] = store[k].value.id
      <3>1. store[k].value.id # 0
        BY <2>3, LockAssumption
        DEF IInv, TypeOK, CallTypeOK, StoreTypeOK, ValueVersion, LockValue
      <3>2. PICK d \in Client : id[d] = store[k].value.id
        BY Zenon, <2>3 DEF OwnersMade
      <3> QED
        BY Zenon, <2>1, <2>2, <3>1, <3>2
    <2> QED
      BY Zenon, <2>1, <2>3 DEF OwnersMade
  <1>4. ASSUME NEW c \in Client, Acquire(c) \/ LockStep(c)
        PROVE  UNCHANGED <<store, id>>
    BY Zenon, <1>4 DEF Acquire, LockStep, TryPut, Spin, Acquired, PutFailed, Release, ReleasePut,
       Released, Get, Put, Return, lockVars
  <1>5. CASE UNCHANGED vars
    BY Zenon, <1>2, <1>5 DEF vars, callVars, lockVars
  <1> QED
    BY Zenon, <1>1, <1>2, <1>3, <1>4, <1>5, NetworkSteps DEF Next, Terminated, lockVars

absStatus == [c \in Client |-> AbsStatus(c)]
absHolder == [l \in Key |-> AbsHolder(l)]

(* AbsHolder as a function of the state it looks at. *)
HolderOf(val, ids) ==
    IF val # NoValue /\ val.locked
    THEN CHOOSE c \in Client : ids[c] = val.id
    ELSE NoClient

LEMMA SameOwner ==
    ASSUME NEW val, NEW ids, NEW jds, \A x \in Client : jds[x] = val.id <=> ids[x] = val.id
    PROVE  HolderOf(val, jds) = HolderOf(val, ids)
  <1>1. (CHOOSE x \in Client : jds[x] = val.id) = (CHOOSE x \in Client : ids[x] = val.id)
    BY Zenon
  <1>2. CASE val # NoValue /\ val.locked
    <2>1. HolderOf(val, jds) = CHOOSE x \in Client : jds[x] = val.id
      BY <1>2, Zenon DEF HolderOf
    <2>2. HolderOf(val, ids) = CHOOSE x \in Client : ids[x] = val.id
      BY <1>2, Zenon DEF HolderOf
    <2> QED
      BY <1>1, <2>1, <2>2, Zenon
  <1>3. CASE ~(val # NoValue /\ val.locked)
    BY Zenon, <1>3 DEF HolderOf
  <1> QED
    BY Zenon, <1>2, <1>3

LEMMA OnlyOwner ==
    ASSUME NEW S, NEW ids, NEW c \in S, \A d \in S : ids[d] = ids[c] => d = c
    PROVE  (CHOOSE x \in S : ids[x] = ids[c]) = c
  BY Zenon

(* The holder of a lock is the client its entry names as such. *)
LEMMA HolderIs ==
    ASSUME IInv, OwnersMade, NEW l \in Key
    PROVE  /\ ~(store[l].value # NoValue /\ store[l].value.locked) => absHolder[l] = NoClient
           /\ store[l].value # NoValue /\ store[l].value.locked =>
                /\ absHolder[l] \in Client
                /\ store[l].value = Locked(absHolder[l])
           /\ \A c \in Client :
                pc[c] # "unmade" => (absHolder[l] = c <=> store[l].value = Locked(c))
  <1>1. absHolder[l] = AbsHolder(l)
    BY Zenon DEF absHolder
  <1>2. CASE ~(store[l].value # NoValue /\ store[l].value.locked)
    <2>1. AbsHolder(l) = NoClient
      BY Zenon, <1>2 DEF AbsHolder
    <2>2. ASSUME NEW c \in Client, pc[c] # "unmade"
          PROVE  store[l].value # Locked(c)
      <3>1. Locked(c) # NoValue
        BY Zenon, <2>2, LockValues, NoValueAssumption DEF IInv
      <3> QED
        BY <1>2, <3>1 DEF Locked
    <2> QED
      BY Zenon, <1>1, <1>2, <2>1, <2>2, LockAssumption
  <1>3. CASE store[l].value # NoValue /\ store[l].value.locked
    <2>1. store[l].value \in LockValue
      BY Zenon, <1>3, LockAssumption DEF IInv, TypeOK, CallTypeOK, StoreTypeOK, ValueVersion
    <2>2. PICK d \in Client : id[d] = store[l].value.id
      BY Zenon, <1>3 DEF OwnersMade
    <2>3. id[d] # 0
      BY <2>1, <2>2 DEF LockValue
    <2>4. \A x \in Client : id[x] = id[d] => x = d
      BY Zenon, <2>3 DEF IInv, IdsDistinct
    <2>5. AbsHolder(l) = CHOOSE x \in Client : id[x] = id[d]
      BY Zenon, <1>3, <2>2 DEF AbsHolder
    <2>6. AbsHolder(l) = d
      BY Zenon, <2>4, <2>5, OnlyOwner
    <2>7. store[l].value = Locked(d)
      BY Zenon, <1>3, <2>1, <2>2 DEF LockValue, Locked
    <2>8. ASSUME NEW c \in Client, store[l].value = Locked(c)
          PROVE  c = d
      BY <2>2, <2>4, <2>8 DEF Locked
    <2> QED
      BY Zenon, <1>1, <1>3, <2>6, <2>7, <2>8
  <1> QED
    BY Zenon, <1>2, <1>3

(* A lock keeps its holder while its entry and the ids of the Lock objects  *)
(* stay as they are.                                                        *)
LEMMA SameHolders ==
    ASSUME UNCHANGED <<store, id>>
    PROVE  absHolder' = absHolder
  BY DEF absHolder, AbsHolder

LEMMA SameStatus ==
    ASSUME UNCHANGED pc
    PROVE  absStatus' = absStatus
  BY DEF absStatus, AbsStatus

(* A client that goes from one method to another. *)
LEMMA StatusMoves ==
    ASSUME IInv, NEW c \in Client, NEW label \in PC, Goto(c, label)
    PROVE  /\ absStatus[c] = AbsStatus(c)
           /\ label \in {"unmade", "idle"} => absStatus' = [absStatus EXCEPT ![c] = "out"]
           /\ label = "acquiring" => absStatus' = [absStatus EXCEPT ![c] = "waiting"]
           /\ label = "held" => absStatus' = [absStatus EXCEPT ![c] = "in"]
           /\ label = "releasing" => absStatus' = [absStatus EXCEPT ![c] = "leaving"]
  <1>1. pc' = [pc EXCEPT ![c] = label] /\ pc \in [Client -> PC]
    BY Zenon DEF Goto, IInv, TypeOK
  <1>2. \A d \in Client : pc'[d] = IF d = c THEN label ELSE pc[d]
    BY Zenon, <1>1
  <1>3. ASSUME NEW d \in Client, d # c
        PROVE  AbsStatus(d)' = AbsStatus(d)
    BY Zenon, <1>2, <1>3 DEF AbsStatus
  <1>4. /\ label \in {"unmade", "idle"} => AbsStatus(c)' = "out"
        /\ label = "acquiring" => AbsStatus(c)' = "waiting"
        /\ label = "held" => AbsStatus(c)' = "in"
        /\ label = "releasing" => AbsStatus(c)' = "leaving"
    BY Zenon, <1>2 DEF AbsStatus
  <1> QED
    BY <1>3, <1>4, Zenon DEF absStatus

(* An entry that is overwritten grants the lock, or frees it; or it says    *)
(* again who holds it, when Acquire had lost the reply of its Put.          *)
LEMMA OverwriteRefines ==
    ASSUME IInv, OwnersMade, NEW c \in Client, Overwrites(c)
    PROVE  M!Grant(c) \/ M!Free(c) \/ UNCHANGED <<absStatus, lockname, absHolder>>
  <1>1. /\ store \in [Key -> ValueVersion] /\ lockname[c] \in Key
        /\ UNCHANGED <<id, pc, lockname>>
        /\ pc[c] \in {"acquiring", "releasing"}
        /\ ClientInv(c) /\ IdsDistinct
    BY Zenon, PutApplies DEF IInv, TypeOK, CallTypeOK, StoreTypeOK, Overwrites, lockVars
  <1>2. /\ call[c].value = IF pc[c] = "acquiring" THEN Locked(c) ELSE Unlocked(c)
        /\ IF pc[c] = "acquiring" THEN MayTake(c, store[lockname[c]].value)
                                  ELSE store[lockname[c]].value = Locked(c)
    BY Zenon, <1>1 DEF Overwrites, ClientInv, CallMatchesPC, PutUpToDate, Entry
  <1>3. ASSUME NEW l \in Key, l # lockname[c]
        PROVE  absHolder'[l] = absHolder[l]
    <2>1. store'[l] = store[l]
      BY Zenon, <1>1, <1>3 DEF Overwrites
    <2>2. id' = id
      BY Zenon, <1>1
    <2>3. /\ AbsHolder(l) = HolderOf(store[l].value, id)
          /\ AbsHolder(l)' = HolderOf(store'[l].value, id')
      BY Zenon DEF AbsHolder, HolderOf
    <2>4. AbsHolder(l)' = AbsHolder(l)
      BY Zenon, <2>1, <2>2, <2>3
    <2> QED
      BY Zenon, <2>4 DEF absHolder
  <1>4. store'[lockname[c]].value = call[c].value
    BY Zenon, <1>1 DEF Overwrites
  <1>5. absStatus' = absStatus /\ absStatus[c] = AbsStatus(c)
    BY Zenon, <1>1, SameStatus DEF absStatus
  <1>6. CASE pc[c] = "acquiring"
    <2>1. call[c].value = Locked(c) /\ Locked(c) # NoValue
      BY Zenon, <1>1, <1>2, <1>6, LockValues, NoValueAssumption DEF IInv
    <2>2. \A x \in Client : id[x] = id[c] => x = c
      BY Zenon, <1>1 DEF IdsDistinct
    <2>3. AbsHolder(lockname[c])' = CHOOSE x \in Client : id[x] = id[c]
      BY <1>1, <1>4, <2>1 DEF AbsHolder, Locked
    <2>4. AbsHolder(lockname[c])' = c
      BY Zenon, <2>2, <2>3, OnlyOwner
    <2>5. absHolder' = [absHolder EXCEPT ![lockname[c]] = c]
      BY Zenon, <1>1, <1>3, <2>4 DEF absHolder
    <2>6. CASE absHolder[lockname[c]] = NoClient
      <3>1. absStatus[c] = "waiting"
        BY Zenon, <1>5, <1>6 DEF AbsStatus
      <3> QED
        BY Zenon, <1>1, <1>5, <2>5, <2>6, <3>1 DEF M!Grant, absStatus, absHolder
    <2>7. CASE absHolder[lockname[c]] # NoClient
      <3>1. store[lockname[c]].value # NoValue /\ store[lockname[c]].value.locked
        BY Zenon, <1>1, <2>7, HolderIs
      <3>2. store[lockname[c]].value.id = id[c]
        BY Zenon, <1>2, <1>6, <3>1 DEF MayTake
      <3>3. absHolder[lockname[c]] = c
        BY ZenonT(40), <1>1, <2>2, <3>1, <3>2, HolderIs DEF Locked
      <3>4. absHolder' = absHolder
        BY Zenon, <1>1, <2>5, <3>3 DEF absHolder
      <3> QED
        BY Zenon, <1>1, <1>5, <3>4
    <2> QED
      BY Zenon, <2>6, <2>7
  <1>7. CASE pc[c] = "releasing"
    <2>1. absHolder[lockname[c]] = c
      BY Zenon, <1>1, <1>2, <1>7, HolderIs
    <2>2. AbsHolder(lockname[c])' = NoClient
      BY <1>1, <1>2, <1>4, <1>7 DEF AbsHolder, Unlocked
    <2>3. absHolder' = [absHolder EXCEPT ![lockname[c]] = NoClient]
      BY Zenon, <1>1, <1>3, <2>2 DEF absHolder
    <2>4. absStatus[c] = "leaving"
      BY Zenon, <1>5, <1>7 DEF AbsStatus
    <2> QED
      BY Zenon, <1>1, <1>5, <2>1, <2>3, <2>4 DEF M!Free, absStatus, absHolder
  <1> QED
    BY Zenon, <1>1, <1>6, <1>7

(* MakeLock takes an id that is in no entry. *)
LEMMA MakeLockRefines ==
    ASSUME IInv, OwnersMade, OwnersMade', NEW c \in Client, MakeLock(c)
    PROVE  UNCHANGED <<absStatus, lockname, absHolder>>
  <1>1. /\ store' = store /\ lockname' = lockname /\ Goto(c, "idle") /\ pc[c] = "unmade"
        /\ id' = [id EXCEPT ![c] = count + 1] /\ id \in [Client -> 0..MaxId] /\ count \in Nat
    BY DEF MakeLock, callVars, IInv, TypeOK
  <1>2. absStatus' = absStatus
    <2>1. absStatus' = [absStatus EXCEPT ![c] = "out"]
      BY Zenon, <1>1, StatusMoves DEF PC
    <2>2. absStatus[c] = "out"
      BY Zenon, <1>1 DEF absStatus, AbsStatus
    <2> QED
      BY Zenon, <2>1, <2>2 DEF absStatus
  <1>3. ASSUME NEW l \in Key
        PROVE  AbsHolder(l)' = AbsHolder(l)
    <2>1. CASE ~(store[l].value # NoValue /\ store[l].value.locked)
      BY Zenon, <1>1, <2>1 DEF AbsHolder
    <2>2. CASE store[l].value # NoValue /\ store[l].value.locked
      <3>1. store[l].value.id \in Nat \ {0} /\ store[l].value.id <= count
        BY <2>2, LockAssumption
        DEF IInv, EntriesWellFormed, TypeOK, CallTypeOK, StoreTypeOK, ValueVersion, LockValue
      <3>2. id[c] = 0
        BY Zenon, <1>1 DEF IInv, IdsDistinct
      <3>3. \A x \in Client : id'[x] = store[l].value.id <=> id[x] = store[l].value.id
        BY <1>1, <3>1, <3>2
      <3>4. HolderOf(store[l].value, id') = HolderOf(store[l].value, id)
        BY Zenon, <3>3, SameOwner
      <3>5. /\ AbsHolder(l) = HolderOf(store[l].value, id)
            /\ AbsHolder(l)' = HolderOf(store'[l].value, id')
        BY Zenon DEF AbsHolder, HolderOf
      <3> QED
        BY Zenon, <1>1, <3>4, <3>5
    <2> QED
      BY Zenon, <2>1, <2>2
  <1>4. absHolder' = absHolder
    BY Zenon, <1>3 DEF absHolder
  <1> QED
    BY Zenon, <1>1, <1>2, <1>4

(* The steps of Acquire and Release: the calls of the abstract mutex begin  *)
(* and end, and what lies between them is not seen.                         *)
LEMMA LockStepRefines ==
    ASSUME IInv, OwnersMade, NEW c \in Client, Acquire(c) \/ LockStep(c)
    PROVE  \/ M!Request(c) \/ M!Enter(c) \/ M!Leave(c) \/ M!Finish(c)
           \/ UNCHANGED <<absStatus, lockname, absHolder>>
  <1>0. /\ ClientInv(c) /\ lockname[c] \in Key
        /\ pc \in [Client -> PC]
    BY Zenon DEF IInv, TypeOK
  <1>1. UNCHANGED <<store, id, lockname>>
    BY Zenon DEF Acquire, LockStep, TryPut, Spin, Acquired, PutFailed, Release, ReleasePut,
       Released, Get, Put, Return, lockVars
  <1>2. absHolder' = absHolder /\ absStatus[c] = AbsStatus(c)
    BY Zenon, <1>1, SameHolders DEF absStatus
  <1>3. CASE TryPut(c) \/ Spin(c) \/ PutFailed(c)
    BY Zenon, <1>1, <1>2, <1>3, SameStatus DEF TryPut, Spin, PutFailed, lockVars
  <1>4. CASE Acquire(c)
    <2>1. absStatus' = [absStatus EXCEPT ![c] = "waiting"] /\ absStatus[c] = "out"
      BY Zenon, <1>2, <1>4, StatusMoves DEF Acquire, PC, AbsStatus
    <2> QED
      BY Zenon, <1>1, <1>2, <2>1 DEF M!Request, absStatus, absHolder
  <1>5. CASE Acquired(c)
    <2>1. absStatus' = [absStatus EXCEPT ![c] = "in"] /\ absStatus[c] = "waiting"
      BY Zenon, <1>2, <1>5, StatusMoves DEF Acquired, PC, AbsStatus
    <2>2. net[c].err = OK
      BY Zenon, <1>5 DEF Acquired, PutResult, OK, ErrMaybe
    <2>3. Holds(c) /\ pc[c] # "unmade"
      BY Zenon, <1>5, <2>2 DEF Acquired, Holds
    <2>4. absHolder[lockname[c]] = c
      BY Zenon, <1>0, <2>3, HolderIs DEF ClientInv, Entry
    <2> QED
      BY Zenon, <1>1, <1>2, <2>1, <2>4 DEF M!Enter, absStatus, absHolder
  <1>6. CASE Release(c)
    <2>1. absStatus' = [absStatus EXCEPT ![c] = "leaving"] /\ absStatus[c] = "in"
      BY Zenon, <1>2, <1>6, StatusMoves DEF Release, PC, AbsStatus
    <2> QED
      BY Zenon, <1>1, <1>2, <2>1 DEF M!Leave, absStatus, absHolder
  <1>7. CASE ReleasePut(c)
    <2>1. Holds(c) /\ Entry(c).value = Locked(c)
      BY Zenon, <1>0, <1>7 DEF ReleasePut, GetReturns, Holds, ClientInv
    <2>2. net[c].err = OK /\ net[c].value = Entry(c).value
      BY Zenon, <1>0, <1>7 DEF ReleasePut, ClientInv, GetUpToDate
    <2>3. Locked(c) # NoValue
      BY Zenon, <1>7, LockValues, NoValueAssumption DEF ReleasePut, IInv
    <2>4. UNCHANGED pc
      BY Zenon, <1>7, <2>1, <2>2, <2>3 DEF ReleasePut, OK, ErrNoKey
    <2> QED
      BY Zenon, <1>1, <1>2, <2>4, SameStatus
  <1>8. CASE Released(c)
    <2>1. absStatus' = [absStatus EXCEPT ![c] = "out"] /\ absStatus[c] = "leaving"
      BY Zenon, <1>2, <1>8, StatusMoves DEF Released, PC, AbsStatus
    <2>2. Gone(c) /\ pc[c] # "unmade"
      BY Zenon, <1>0, <1>8 DEF Released, Gone, PutReturns, ClientInv, PutUpToDate
    <2>3. absHolder[lockname[c]] # c
      BY Zenon, <1>0, <2>2, HolderIs DEF ClientInv, Entry
    <2> QED
      BY Zenon, <1>1, <1>2, <2>1, <2>3 DEF M!Finish, absStatus, absHolder
  <1> QED
    BY Zenon, <1>3, <1>4, <1>5, <1>6, <1>7, <1>8 DEF LockStep

(***************************************************************************)
(* The lock package implements the abstract mutex, for any number of       *)
(* clients and locks: a lock is granted only when it is free, only to a    *)
(* client that waits for it, and is freed only by the client that holds it.*)
(***************************************************************************)
THEOREM ImplementsMutexHolds == Spec => ImplementsMutex
  <1>1. Init => M!MutexInit
    <2> SUFFICES ASSUME Init
                 PROVE  M!MutexInit
      BY Zenon
    <2>1. /\ \A c \in Client : AbsStatus(c) = "out"
          /\ \A l \in Key : AbsHolder(l) = NoClient
          /\ lockname \in [Client -> Key]
      BY Zenon DEF Init, CallInit, MakeKVServer, Absent, AbsStatus, AbsHolder
    <2> QED
      BY Zenon, <2>1 DEF M!MutexInit
  <1>2. Init => OwnersMade
    BY DEF Init, CallInit, MakeKVServer, Absent, OwnersMade
  <1>3. IInv /\ OwnersMade /\ [Next]_vars => [M!MutexNext]_(M!mutexVars)
    <2> SUFFICES ASSUME IInv, OwnersMade, [Next]_vars
                 PROVE  M!MutexNext \/ UNCHANGED <<absStatus, lockname, absHolder>>
      BY Zenon DEF M!mutexVars, absStatus, absHolder
    <2>1. ASSUME NEW c \in Client, Overwrites(c)
          PROVE  M!MutexNext \/ UNCHANGED <<absStatus, lockname, absHolder>>
      BY Zenon, <2>1, OverwriteRefines DEF M!MutexNext
    <2>2. ASSUME NEW c \in Client, MakeLock(c)
          PROVE  UNCHANGED <<absStatus, lockname, absHolder>>
      BY Zenon, <2>2, MakeLockRefines, OwnersKept
    <2>3. ASSUME NEW c \in Client, Acquire(c) \/ LockStep(c)
          PROVE  M!MutexNext \/ UNCHANGED <<absStatus, lockname, absHolder>>
      BY Zenon, <2>3, LockStepRefines DEF M!MutexNext
    <2>4. CASE UNCHANGED <<store, lockVars>>
      BY Zenon, <2>4, SameHolders, SameStatus DEF lockVars
    <2>5. CASE UNCHANGED vars
      BY Zenon, <2>4, <2>5 DEF vars, callVars
    <2> QED
      BY Zenon, <2>1, <2>2, <2>3, <2>4, <2>5, NetworkSteps DEF Next, Terminated
  <1> QED
    BY <1>1, <1>2, <1>3, InvariantHolds, OwnersKept, PTL DEF Spec, ImplementsMutex, M!MutexSpec
=============================================================================
