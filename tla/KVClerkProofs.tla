--------------------------- MODULE KVClerkProofs ----------------------------
(***************************************************************************)
(* What Clerk.Get and Clerk.Put tell an application is true, and their     *)
(* history linearizable, for every number of clerks, keys, values,         *)
(* versions and failed calls, and with calls that are executed late.  The  *)
(* invariant is ClerkInv, and LogInv for the Puts that have returned;      *)
(* TestInv (KVTest) adds what the clients of kvtest.go know, and with it   *)
(* none of them meets a fatal result.                                      *)
(***************************************************************************)
EXTENDS KVTest, TLAPS

(* Where each value is in the histories of the keys. *)
places == {p \in Key \X Nat \X Value :
               p[2] \in 1 .. Len(hist[p[1]]) /\ hist[p[1]][p[2]] = p[3]}

Stored(v) == \E k \in Key : \E i \in Nat : <<k, i, v>> \in places

Putting(c) == call[c].op = "Put"

(* The server's entry is the end of the key's history. *)
StoreIsHistory ==
    \A k \in Key :
        /\ store[k].version = Len(hist[k])
        /\ store[k].version = 0 => store[k].value = NoValue
        /\ store[k].version > 0 => <<k, store[k].version, store[k].value>> \in places

StoredOnce ==
    \A k1, k2 \in Key : \A i1, i2 \in Nat : \A v \in Value :
        <<k1, i1, v>> \in places /\ <<k2, i2, v>> \in places => k1 = k2 /\ i1 = i2

CallsKnown ==
    \A c \in Client :
        /\ net[c].at = "none" => call[c].op = "none"
        /\ call[c].op # "none" => start[c] <= store[call[c].key].version
        /\ Putting(c) => outcome[call[c].value] = "pending"
        /\ \A d \in Client :
            Putting(c) /\ Putting(d) /\ call[c].value = call[d].value => c = d

(* A request still in the network belongs to a Put that is a retry, or over. *)
LateKnown ==
    \A r \in late :
        /\ outcome[r.value] \notin {"unused", ErrVersion}
        /\ \A c \in Client :
            Putting(c) /\ call[c].value = r.value =>
                call[c].retry /\ call[c].key = r.key /\ call[c].version = r.version
        /\ \A s \in late : r.value = s.value => r = s

(* A Put takes effect at the version it names, and after it began. *)
OwnPlace ==
    \A k \in Key : \A i \in Nat :
        /\ \A c \in Client :
            Putting(c) /\ <<k, i, call[c].value>> \in places =>
                k = call[c].key /\ i = call[c].version + 1 /\ start[c] <= call[c].version
        /\ \A r \in late :
            <<k, i, r.value>> \in places => k = r.key /\ i = r.version + 1

(* The first copy of a Put has no effect before the server has accepted it. *)
FirstTry ==
    \A c \in Client :
        Putting(c) /\ ~ call[c].retry /\ (net[c].at = "reply" => net[c].err # OK)
            => ~ Stored(call[c].value)

(* What each reply says of the versions since the call began. *)
GetReplyTrue(c) ==
    /\ start[c] <= net[c].version
    /\ net[c].version <= store[call[c].key].version
    /\ net[c].version = 0 => net[c].err = ErrNoKey /\ net[c].value = NoValue
    /\ net[c].version > 0 =>
        net[c].err = OK /\ <<call[c].key, net[c].version, net[c].value>> \in places

PutReplyTrue(c) ==
    /\ net[c].err = OK => <<call[c].key, call[c].version + 1, call[c].value>> \in places
    /\ net[c].err = ErrVersion =>
        \E n \in Nat : /\ start[c] <= n /\ n <= store[call[c].key].version
                       /\ n # call[c].version
    /\ net[c].err = ErrNoKey => start[c] = 0 /\ call[c].version # 0

Replies ==
    \A c \in Client : net[c].at = "reply" =>
        /\ call[c].op = "Get" => GetReplyTrue(c)
        /\ call[c].op = "Put" => PutReplyTrue(c)

Outcomes ==
    \A v \in Value :
        /\ outcome[v] = OK => Stored(v)
        /\ outcome[v] \in {"unused", ErrVersion} => ~ Stored(v)

ClerkInv ==
    /\ TypeOK
    /\ StoreIsHistory /\ StoredOnce
    /\ CallsKnown /\ LateKnown /\ OwnPlace /\ FirstTry /\ Replies /\ Outcomes

-----------------------------------------------------------------------------
(* What a client with a Put, or a reply, on its hands has in its records. *)
LEMMA CallFields ==
    ASSUME CallTypeOK, NEW c \in Client
    PROVE  /\ call[c].op \in {"none", "Get", "Put"}
           /\ call[c].op = "Get" => call[c].key \in Key
           /\ call[c].op = "Put" =>
                /\ call[c] \in PutCall
                /\ call[c].key \in Key
                /\ call[c].value \in Value
                /\ call[c].version \in Nat
                /\ call[c].retry \in BOOLEAN
           /\ net[c].at \in {"none", "request", "reply"}
           /\ net[c] = Sent <=> net[c].at = "request"
           /\ net[c].at = "reply" =>
                /\ net[c].err \in ServerErr
                /\ net[c].value \in Value \union {NoValue}
                /\ net[c].version \in Nat
  <1>1. call[c] \in {NoCall} \union GetCall \union PutCall
    BY Zenon DEF CallTypeOK
  <1>2. net[c] \in NetState
    BY Zenon DEF CallTypeOK
  <1>3. call[c].op \in {"none", "Get", "Put"}
    BY <1>1 DEF NoCall, GetCall, PutCall
  <1>4. call[c].op = "Get" => call[c].key \in Key
    BY <1>1 DEF NoCall, GetCall, PutCall
  <1>5. call[c].op = "Put" => call[c] \in PutCall
    BY <1>1 DEF NoCall, GetCall, PutCall
  <1>6. call[c].op = "Put" =>
                /\ call[c].key \in Key
                /\ call[c].value \in Value
                /\ call[c].version \in Nat
                /\ call[c].retry \in BOOLEAN
    BY Zenon, <1>5 DEF PutCall
  <1>7. net[c].at \in {"none", "request", "reply"}
    BY <1>2 DEF NetState, Idle, Sent
  <1>8. net[c] = Sent <=> net[c].at = "request"
    BY <1>2 DEF NetState, Idle, Sent
  <1>9. net[c].at = "reply" =>
                /\ net[c].err \in ServerErr
                /\ net[c].value \in Value \union {NoValue}
                /\ net[c].version \in Nat
    BY <1>2 DEF NetState, Idle, Sent
  <1> QED
    BY Zenon, <1>3, <1>4, <1>5, <1>6, <1>7, <1>8, <1>9

(* The clerk and network steps preserve the types of their variables. *)
LEMMA PutStoreType ==
    ASSUME StoreTypeOK, NEW k \in Key, NEW v \in Value, NEW ver \in Nat
    PROVE  PutStore(k, v, ver) \in [Key -> ValueVersion]
  BY DEF StoreTypeOK, PutStore, ValueVersion

LEMMA GetType ==
    ASSUME CallTypeOK, NEW c \in Client, NEW k \in Key, Get(c, k)
    PROVE  CallTypeOK'
  BY Zenon DEF CallTypeOK, StoreTypeOK, Get, GetCall, NetState

LEMMA PutType ==
    ASSUME CallTypeOK, NEW c \in Client, NEW k \in Key,
           NEW v \in Value, NEW ver \in Nat, Put(c, k, v, ver)
    PROVE  CallTypeOK'
  BY Zenon DEF CallTypeOK, StoreTypeOK, Put, PutCall, NetState

LEMMA ReturnType ==
    ASSUME CallTypeOK, NEW c \in Client, Return(c)
    PROVE  CallTypeOK'
  BY Zenon DEF CallTypeOK, StoreTypeOK, Return, NetState

LEMMA ServeGetType ==
    ASSUME CallTypeOK, NEW c \in Client, ServeGet(c)
    PROVE  CallTypeOK'
  <1>1. call[c].key \in Key
    BY Zenon, CallFields DEF ServeGet
  <1>2. Got(GetReply(call[c].key)) \in NetState
    BY Zenon, <1>1 DEF CallTypeOK, StoreTypeOK, Got, GetReply, NetState, ValueVersion,
                ServerErr, OK, ErrNoKey
  <1> QED
    BY Zenon, <1>2 DEF CallTypeOK, StoreTypeOK, ServeGet

LEMMA ServePutType ==
    ASSUME CallTypeOK, NEW c \in Client, ServePut(c)
    PROVE  CallTypeOK'
  <1>1. /\ call[c].key \in Key
        /\ call[c].value \in Value
        /\ call[c].version \in Nat
    BY Zenon, CallFields DEF ServePut
  <1>2. store' \in [Key -> ValueVersion]
    BY Zenon, <1>1, PutStoreType DEF ServePut, CallTypeOK
  <1>3. Got([err |-> PutErr(call[c].key, call[c].version),
             value |-> NoValue, version |-> 0]) \in NetState
    BY Zenon DEF Got, NetState, PutErr, ServerErr, OK, ErrNoKey, ErrVersion
  <1> QED
    BY Zenon, <1>2, <1>3 DEF CallTypeOK, StoreTypeOK, ServePut

LEMMA ServeLateType ==
    ASSUME CallTypeOK, NEW r \in late, ServeLate(r)
    PROVE  CallTypeOK'
  <1>1. r \in LatePut
    BY Zenon DEF CallTypeOK
  <1>2. store' \in [Key -> ValueVersion]
    BY Zenon, <1>1, PutStoreType DEF ServeLate, CallTypeOK, LatePut
  <1> QED
    BY Zenon, <1>2 DEF CallTypeOK, StoreTypeOK, ServeLate

LEMMA ResendType ==
    ASSUME CallTypeOK, NEW c \in Client, Resend(c), late' \in SUBSET LatePut
    PROVE  CallTypeOK'
  <1>1. Retried(call[c]) \in {NoCall} \union GetCall \union PutCall
    <2>1. CASE call[c].op = "Put"
      BY Zenon, <2>1, CallFields DEF Retried, PutCall
    <2>2. CASE call[c].op # "Put"
      BY Zenon, <2>2 DEF Retried, CallTypeOK
    <2> QED
      BY Zenon, <2>1, <2>2
  <1>2. drops' \in 0..MaxDrops
    BY CallAssumption DEF Resend, CallTypeOK
  <1> QED
    BY Zenon, <1>1, <1>2 DEF CallTypeOK, StoreTypeOK, Resend, NetState

LEMMA CallStepType ==
    ASSUME CallTypeOK, NEW c \in Client, CallStep(c)
    PROVE  CallTypeOK'
  <1>1. CASE ServeGet(c)
    BY Zenon, <1>1, ServeGetType
  <1>2. CASE ServePut(c)
    BY Zenon, <1>2, ServePutType
  <1>3. CASE LoseRequest(c) \/ LoseReply(c)
    BY Zenon, <1>3, ResendType DEF LoseRequest, LoseReply, CallTypeOK
  <1>4. CASE GiveUp(c)
    <2>1. late' \in SUBSET LatePut
      BY <1>4, CallFields DEF GiveUp, LatePut, CallTypeOK
    <2> QED
      BY Zenon, <1>4, <2>1, ResendType DEF GiveUp
  <1> QED
    BY Zenon, <1>1, <1>2, <1>3, <1>4 DEF CallStep

-----------------------------------------------------------------------------
(* A value is at a place of the history just if the history says so. *)
LEMMA PlaceMeans ==
    ASSUME NEW k \in Key, NEW i \in Nat, NEW v \in Value
    PROVE  <<k, i, v>> \in places <=> i \in 1 .. Len(hist[k]) /\ hist[k][i] = v
  BY Zenon DEF places

LEMMA PlaceMeansNext ==
    ASSUME NEW k \in Key, NEW i \in Nat, NEW v \in Value
    PROVE  <<k, i, v>> \in places' <=> i \in 1 .. Len(hist'[k]) /\ hist'[k][i] = v
  BY Zenon DEF places

LEMMA AppendFacts ==
    ASSUME NEW s \in Seq(Value), NEW v \in Value
    PROVE  /\ Append(s, v) \in Seq(Value)
           /\ Len(s) \in Nat
           /\ Len(Append(s, v)) = Len(s) + 1
           /\ Append(s, v)[Len(s) + 1] = v
           /\ \A i \in 1 .. Len(s) : Append(s, v)[i] = s[i]
  OBVIOUS

(* Nothing is recorded when the server's map does not change. *)
LEMMA RecordNothing ==
    ASSUME TypeOK, Record, store' = store
    PROVE  hist' = hist
  BY Zenon DEF TypeOK, Record

(* What the server's handler Put does to the map and to the history, in time *)
(* or late: nothing, or the value becomes the next of its key.               *)
LEMMA PutEffect ==
    ASSUME TypeOK, StoreIsHistory, Record,
           NEW k \in Key, NEW v \in Value, NEW ver \in Nat,
           store' = PutStore(k, v, ver)
    PROVE  /\ hist' \in [Key -> Seq(Value)]
           /\ store' \in [Key -> ValueVersion]
           /\ StoreIsHistory'
           /\ \A j \in Key : store[j].version <= store'[j].version
           /\ places \subseteq places'
           /\ \A j \in Key : \A i \in Nat : \A u \in Value :
                <<j, i, u>> \in places' /\ <<j, i, u>> \notin places =>
                    /\ j = k /\ i = ver + 1 /\ u = v
                    /\ store[k].version = ver /\ PutErr(k, ver) = OK
           /\ PutErr(k, ver) = OK => <<k, ver + 1, v>> \in places'
           /\ PutErr(k, ver) = ErrVersion => store[k].version # ver
           /\ PutErr(k, ver) = ErrNoKey => store[k].version = 0 /\ ver # 0
           /\ PutErr(k, ver) \in ServerErr
  <1> USE DEF OK, ErrVersion, ErrNoKey
  <1>1. /\ store \in [Key -> ValueVersion]
        /\ hist \in [Key -> Seq(Value)]
        /\ \A j \in Key : store[j].version \in Nat
    BY Zenon DEF TypeOK, CallTypeOK, StoreTypeOK, ValueVersion
  <1>2. /\ PutErr(k, ver) = OK => store[k].version = ver
        /\ PutErr(k, ver) = ErrVersion => store[k].version # ver
        /\ PutErr(k, ver) = ErrNoKey => store[k].version = 0 /\ ver # 0
        /\ PutErr(k, ver) \in ServerErr
    BY <1>1 DEF PutErr, Present, ServerErr
  <1>3. CASE PutErr(k, ver) = OK
    <2>1. /\ store' = [store EXCEPT ![k] = [value |-> v, version |-> ver + 1]]
          /\ store[k].version = ver
          /\ Len(hist[k]) = ver
      BY Zenon, <1>2, <1>3 DEF PutStore, StoreIsHistory
    <2>2. store'[k] = [value |-> v, version |-> ver + 1] /\ store'[k] # store[k]
      BY <1>1, <2>1
    <2>3. \A j \in Key : j # k => store'[j] = store[j]
      BY Zenon, <1>1, <2>1
    <2>4. \A j \in Key : hist'[j] = IF j = k THEN Append(hist[k], v) ELSE hist[j]
      BY <2>2, <2>3 DEF Record
    <2>5. hist' \in [Key -> Seq(Value)]
      <3>1. \A j \in Key : hist'[j] \in Seq(Value)
        BY Zenon, <1>1, <2>4, AppendFacts
      <3> QED
        BY Zenon, <3>1 DEF Record
    <2>6. store' \in [Key -> ValueVersion]
      BY <1>1, <2>1 DEF ValueVersion
    <2>7. /\ Len(hist'[k]) = ver + 1
          /\ hist'[k][ver + 1] = v
          /\ \A i \in 1 .. ver : hist'[k][i] = hist[k][i]
      <3>1. hist'[k] = Append(hist[k], v) /\ hist[k] \in Seq(Value)
        BY Zenon, <1>1, <2>4
      <3> QED
        BY <3>1, <2>1, AppendFacts
    <2>8. <<k, ver + 1, v>> \in places'
      BY <2>7, PlaceMeansNext
    <2>9. ASSUME NEW j \in Key, NEW i \in Nat, NEW u \in Value
          PROVE  /\ <<j, i, u>> \in places => <<j, i, u>> \in places'
                 /\ <<j, i, u>> \in places' /\ <<j, i, u>> \notin places =>
                        j = k /\ i = ver + 1 /\ u = v
      <3>1. <<j, i, u>> \in places <=> i \in 1 .. Len(hist[j]) /\ hist[j][i] = u
        BY Zenon, PlaceMeans
      <3>2. <<j, i, u>> \in places' <=> i \in 1 .. Len(hist'[j]) /\ hist'[j][i] = u
        BY Zenon, PlaceMeansNext
      <3>3. CASE j = k
        <4>1. <<j, i, u>> \in places <=> i \in 1 .. ver /\ hist[k][i] = u
          BY Zenon, <3>1, <3>3, <2>1
        <4>2. <<j, i, u>> \in places' <=> i \in 1 .. ver + 1 /\ hist'[k][i] = u
          BY Zenon, <3>2, <3>3, <2>7
        <4>3. i \in 1 .. ver + 1 => i \in 1 .. ver \/ i = ver + 1
          OBVIOUS
        <4>4. i \in 1 .. ver => i \in 1 .. ver + 1
          OBVIOUS
        <4> QED
          BY Zenon, <3>3, <4>1, <4>2, <4>3, <4>4, <2>7
      <3>4. CASE j # k
        <4>1. hist'[j] = hist[j]
          BY Zenon, <3>4, <2>4
        <4> QED
          BY Zenon, <3>1, <3>2, <4>1
      <3> QED
        BY Zenon, <3>3, <3>4
    <2>10. places \subseteq places'
      BY <2>9 DEF places
    <2>11. StoreIsHistory'
      <3>1. ASSUME NEW j \in Key
            PROVE  /\ store'[j].version = Len(hist'[j])
                   /\ store'[j].version = 0 => store'[j].value = NoValue
                   /\ store'[j].version > 0 =>
                        <<j, store'[j].version, store'[j].value>> \in places'
        <4>1. CASE j = k
          BY <4>1, <2>2, <2>7, <2>8
        <4>2. CASE j # k
          BY Zenon, <4>2, <2>3, <2>4, <2>10 DEF StoreIsHistory
        <4> QED
          BY Zenon, <4>1, <4>2
      <3> QED
        BY Zenon, <3>1 DEF StoreIsHistory
    <2>12. \A j \in Key : store[j].version <= store'[j].version
      BY <1>1, <2>1, <2>2, <2>3
    <2> QED
      BY Zenon, <1>2, <1>3, <2>1, <2>5, <2>6, <2>8, <2>9, <2>10, <2>11, <2>12
  <1>4. CASE PutErr(k, ver) # OK
    <2>1. store' = store
      BY Zenon, <1>4 DEF PutStore
    <2>2. hist' = hist
      BY Zenon, <2>1, RecordNothing
    <2>3. places' = places
      BY Zenon, <2>2 DEF places
    <2>4. StoreIsHistory'
      BY Zenon, <2>1, <2>2, <2>3 DEF StoreIsHistory
    <2> QED
      BY <1>1, <1>2, <1>4, <2>1, <2>2, <2>3, <2>4
  <1> QED
    BY Zenon, <1>3, <1>4

-----------------------------------------------------------------------------
(* The types of the fields that the invariant speaks of. *)
LEMMA Fields ==
    ASSUME TypeOK, NEW c \in Client
    PROVE  /\ call[c].op \in {"none", "Get", "Put"}
           /\ call[c].op # "none" => call[c].key \in Key
           /\ Putting(c) => /\ call[c].value \in Value
                            /\ call[c].version \in Nat
                            /\ call[c].retry \in BOOLEAN
           /\ net[c].at \in {"none", "request", "reply"}
           /\ net[c].at = "reply" => /\ net[c].err \in ServerErr
                                     /\ net[c].version \in Nat
           /\ start[c] \in Nat
           /\ \A k \in Key : store[k].version \in Nat
  <1>1. CallTypeOK
    BY Zenon DEF TypeOK
  <1>2. start[c] \in Nat
    BY Zenon DEF TypeOK
  <1>3. \A k \in Key : store[k].version \in Nat
    BY Zenon, <1>1 DEF CallTypeOK, StoreTypeOK, ValueVersion
  <1> QED
    BY Zenon, <1>1, <1>2, <1>3, CallFields DEF Putting

LEMMA LateFields ==
    ASSUME TypeOK, NEW r \in late
    PROVE  r.key \in Key /\ r.value \in Value /\ r.version \in Nat
  BY Zenon DEF TypeOK, CallTypeOK, LatePut

(* The parts of the invariant that speak of the histories only. *)
LEMMA HistoryKept ==
    ASSUME StoreIsHistory, StoredOnce, store' = store, hist' = hist
    PROVE  /\ places' = places
           /\ \A v \in Value : Stored(v)' <=> Stored(v)
           /\ StoreIsHistory'
           /\ StoredOnce'
  <1>1. places' = places
    BY Zenon DEF places
  <1> QED
    BY ZenonT(40), <1>1 DEF StoreIsHistory, StoredOnce, Stored

(* A reply stays true while the client waits and the others go on. *)
LEMMA ReplyKept ==
    ASSUME TypeOK, StoreTypeOK', Replies, NEW c \in Client, net[c].at = "reply",
           call'[c] = call[c], net'[c] = net[c], start'[c] = start[c],
           \A k \in Key : store[k].version <= store'[k].version,
           places \subseteq places'
    PROVE  /\ call[c].op = "Get" => GetReplyTrue(c)'
           /\ call[c].op = "Put" => PutReplyTrue(c)'
  <1>1. call[c].op # "none" =>
            /\ call[c].key \in Key
            /\ store[call[c].key].version \in Nat
            /\ store'[call[c].key].version \in Nat
            /\ store[call[c].key].version <= store'[call[c].key].version
    BY Zenon, Fields DEF StoreTypeOK, ValueVersion
  <1>2. net[c].version \in Nat /\ start[c] \in Nat
    BY Zenon, Fields
  <1>3. ASSUME call[c].op = "Get"
        PROVE  GetReplyTrue(c)'
    BY <1>1, <1>2, <1>3 DEF Replies, GetReplyTrue
  <1>4. ASSUME call[c].op = "Put"
        PROVE  PutReplyTrue(c)'
    <2>1. PutReplyTrue(c)
      BY Zenon, <1>4 DEF Replies
    <2>2. ASSUME net[c].err = ErrVersion
          PROVE  \E n \in Nat : /\ start[c] <= n /\ n <= store'[call[c].key].version
                                /\ n # call[c].version
      <3>1. PICK n \in Nat : /\ start[c] <= n /\ n <= store[call[c].key].version
                             /\ n # call[c].version
        BY Zenon, <2>1, <2>2 DEF PutReplyTrue
      <3>2. n <= store'[call[c].key].version
        BY <1>1, <1>4, <3>1
      <3> QED
        BY Zenon, <3>1, <3>2
    <2> QED
      BY Zenon, <2>1, <2>2 DEF PutReplyTrue
  <1> QED
    BY Zenon, <1>3, <1>4

(* A request of a Put that runs at the server, in time or late, disturbs no  *)
(* other Put: it takes effect only where its own clerk expects it.           *)
LEMMA PutKeeps ==
    ASSUME ClerkInv, Record,
           NEW k \in Key, NEW v \in Value, NEW ver \in Nat,
           store' = PutStore(k, v, ver),
           UNCHANGED <<call, start, outcome>>,
           late' \subseteq late,
           outcome[v] \notin {"unused", ErrVersion},
           \A c \in Client : Putting(c) /\ call[c].value = v =>
                call[c].key = k /\ call[c].version = ver,
           \A r \in late : r.value = v => r.key = k /\ r.version = ver,
           \A j \in Key : \A i \in Nat : <<j, i, v>> \in places => j = k /\ i = ver + 1
    PROVE  /\ StoreIsHistory' /\ StoredOnce' /\ LateKnown' /\ OwnPlace' /\ Outcomes'
           /\ \A u \in Value : Stored(u)' /\ ~ Stored(u) => u = v /\ PutErr(k, ver) = OK
  <1>1. /\ TypeOK /\ StoreIsHistory /\ StoredOnce /\ CallsKnown /\ LateKnown
        /\ OwnPlace /\ Outcomes
    BY Zenon DEF ClerkInv
  <1>2. /\ StoreIsHistory'
        /\ places \subseteq places'
        /\ \A j \in Key : \A i \in Nat : \A u \in Value :
                <<j, i, u>> \in places' /\ <<j, i, u>> \notin places =>
                    /\ j = k /\ i = ver + 1 /\ u = v
                    /\ store[k].version = ver /\ PutErr(k, ver) = OK
    BY ZenonT(40), <1>1, PutEffect
  <1>3. StoredOnce'
    <2> SUFFICES ASSUME NEW k1 \in Key, NEW k2 \in Key, NEW i1 \in Nat, NEW i2 \in Nat,
                        NEW u \in Value,
                        <<k1, i1, u>> \in places', <<k2, i2, u>> \in places'
                 PROVE  k1 = k2 /\ i1 = i2
      BY Zenon DEF StoredOnce
    <2>1. CASE u = v
      <3>1. k1 = k /\ i1 = ver + 1
        BY <2>1, <1>2
      <3>2. k2 = k /\ i2 = ver + 1
        BY Zenon, <2>1, <1>2
      <3> QED
        BY Zenon, <3>1, <3>2
    <2>2. CASE u # v
      <3>1. <<k1, i1, u>> \in places /\ <<k2, i2, u>> \in places
        BY ZenonT(40), <2>2, <1>2
      <3> QED
        BY Zenon, <3>1, <1>1 DEF StoredOnce
    <2> QED
      BY Zenon, <2>1, <2>2
  <1>4. LateKnown'
    BY Zenon, <1>1 DEF LateKnown, Putting
  <1>5. OwnPlace'
    <2> SUFFICES ASSUME NEW j \in Key, NEW i \in Nat
                 PROVE  /\ \A c \in Client :
                            Putting(c) /\ <<j, i, call[c].value>> \in places' =>
                                /\ j = call[c].key /\ i = call[c].version + 1
                                /\ start[c] <= call[c].version
                        /\ \A r \in late' :
                            <<j, i, r.value>> \in places' => j = r.key /\ i = r.version + 1
      BY ZenonT(40) DEF OwnPlace, Putting
    <2>1. ASSUME NEW c \in Client, Putting(c), <<j, i, call[c].value>> \in places'
          PROVE  /\ j = call[c].key /\ i = call[c].version + 1
                 /\ start[c] <= call[c].version
      <3>1. call[c].value \in Value
        BY Zenon, <1>1, <2>1, Fields
      <3>2. CASE <<j, i, call[c].value>> \in places
        BY Zenon, <1>1, <2>1, <3>2 DEF OwnPlace
      <3>3. CASE <<j, i, call[c].value>> \notin places
        <4>1. /\ j = k /\ i = ver + 1 /\ call[c].value = v
              /\ store[k].version = ver
          BY <1>2, <2>1, <3>1, <3>3
        <4>2. call[c].key = k /\ call[c].version = ver
          BY Zenon, <2>1, <4>1
        <4>3. start[c] <= store[call[c].key].version
          BY Zenon, <1>1, <2>1 DEF CallsKnown, Putting
        <4> QED
          BY Zenon, <4>1, <4>2, <4>3
      <3> QED
        BY Zenon, <3>2, <3>3
    <2>2. ASSUME NEW r \in late, <<j, i, r.value>> \in places'
          PROVE  j = r.key /\ i = r.version + 1
      <3>1. r.value \in Value
        BY Zenon, <1>1, LateFields
      <3>2. CASE <<j, i, r.value>> \in places
        BY Zenon, <1>1, <3>2 DEF OwnPlace
      <3>3. CASE <<j, i, r.value>> \notin places
        BY <1>2, <2>2, <3>1, <3>3
      <3> QED
        BY Zenon, <3>2, <3>3
    <2> QED
      BY Zenon, <2>1, <2>2
  <1>6. \A u \in Value : Stored(u)' /\ ~ Stored(u) => u = v /\ PutErr(k, ver) = OK
    BY <1>2 DEF Stored
  <1>7. \A u \in Value : Stored(u) => Stored(u)'
    BY Zenon, <1>2 DEF Stored
  <1>8. Outcomes'
    <2>1. ASSUME NEW u \in Value
          PROVE  /\ outcome[u] = OK => Stored(u)'
                 /\ outcome[u] \in {"unused", ErrVersion} => ~ Stored(u)'
      BY Zenon, <1>1, <1>6, <1>7 DEF Outcomes
    <2> QED
      BY Zenon, <2>1 DEF Outcomes
  <1> QED
    BY Zenon, <1>2, <1>3, <1>4, <1>5, <1>6, <1>8

-----------------------------------------------------------------------------
(* The server runs the handlers. *)
LEMMA ServePutInv ==
    ASSUME ClerkInv, NEW c \in Client, ServePut(c), Record, UNCHANGED <<start, outcome>>
    PROVE  ClerkInv'
  <1> DEFINE k == call[c].key
             v == call[c].value
             ver == call[c].version
  <1>1. /\ TypeOK /\ StoreIsHistory /\ CallsKnown /\ LateKnown /\ OwnPlace
        /\ FirstTry /\ Replies
    BY Zenon DEF ClerkInv
  <1>2. Putting(c) /\ k \in Key /\ v \in Value /\ ver \in Nat
    BY Zenon, <1>1, Fields DEF ServePut, Putting
  <1>3. /\ store' = PutStore(k, v, ver)
        /\ UNCHANGED <<call, late>>
        /\ net[c].at = "request"
    BY SMTT(30) DEF ServePut, Sent
  <1>4. /\ hist' \in [Key -> Seq(Value)]
        /\ \A j \in Key : store[j].version <= store'[j].version
        /\ places \subseteq places'
        /\ PutErr(k, ver) = OK => <<k, ver + 1, v>> \in places'
        /\ PutErr(k, ver) = ErrVersion => store[k].version # ver
        /\ PutErr(k, ver) = ErrNoKey => store[k].version = 0 /\ ver # 0
    BY SMTT(30), <1>1, <1>2, <1>3, PutEffect
  <1>5. /\ net'[c].at = "reply"
        /\ net'[c].err = PutErr(k, ver)
        /\ \A d \in Client : d # c => net'[d] = net[d]
    BY Zenon, <1>1 DEF ServePut, Got, TypeOK, CallTypeOK
  <1>6. /\ StoreIsHistory' /\ StoredOnce' /\ LateKnown' /\ OwnPlace' /\ Outcomes'
        /\ \A u \in Value : Stored(u)' /\ ~ Stored(u) => u = v /\ PutErr(k, ver) = OK
    <2>1. outcome[v] \notin {"unused", ErrVersion}
      BY Zenon, <1>1, <1>2 DEF CallsKnown, ErrVersion
    <2>2. \A d \in Client : Putting(d) /\ call[d].value = v => d = c
      BY Zenon, <1>1, <1>2 DEF CallsKnown
    <2>3. \A r \in late : r.value = v => r.key = k /\ r.version = ver
      BY Zenon, <1>1, <1>2 DEF LateKnown
    <2>4. \A j \in Key : \A i \in Nat : <<j, i, v>> \in places => j = k /\ i = ver + 1
      BY Zenon, <1>1, <1>2 DEF OwnPlace
    <2> QED
      BY <1>2, <1>3, <2>1, <2>2, <2>3, <2>4, PutKeeps
  <1>7. TypeOK'
    <2>1. CallTypeOK'
      BY Zenon, <1>1, ServePutType DEF TypeOK
    <2> QED
      BY Zenon, <1>1, <1>4, <2>1 DEF TypeOK
  <1>8. CallsKnown'
    <2>1. ASSUME NEW d \in Client, call[d].op # "none"
          PROVE  start[d] <= store'[call[d].key].version
      <3>1. call[d].key \in Key /\ start[d] <= store[call[d].key].version
        BY Zenon, <1>1, <2>1, Fields DEF CallsKnown
      <3>2. /\ start[d] \in Nat
            /\ store[call[d].key].version \in Nat
            /\ store'[call[d].key].version \in Nat
        BY Zenon, <1>1, <1>7, <3>1 DEF TypeOK, CallTypeOK, StoreTypeOK, ValueVersion
      <3> QED
        BY SMTT(30), <1>4, <3>1, <3>2
    <2> QED
      BY ZenonT(40), <1>1, <1>3, <1>5, <2>1 DEF CallsKnown, Putting
  <1>9. FirstTry'
    <2>1. ASSUME NEW d \in Client, Putting(d), ~ call[d].retry,
                 net'[d].at = "reply" => net'[d].err # OK
          PROVE  ~ Stored(call[d].value)'
      <3>1. call[d].value \in Value
        BY Zenon, <1>1, <2>1, Fields
      <3>2. ~ Stored(call[d].value)
        BY Zenon, <1>1, <1>3, <1>5, <2>1 DEF FirstTry
      <3>3. CASE d = c
        BY Zenon, <3>3, <1>3, <1>5, <1>6, <2>1, <3>1, <3>2
      <3>4. CASE d # c
        <4>1. call[d].value # v
          BY Zenon, <3>4, <1>1, <1>2, <2>1 DEF CallsKnown
        <4> QED
          BY Zenon, <1>3, <1>6, <3>1, <3>2, <4>1
      <3> QED
        BY Zenon, <3>3, <3>4
    <2> QED
      BY Zenon, <2>1, <1>3 DEF FirstTry, Putting
  <1>10. PutReplyTrue(c)'
    <2>1. ASSUME PutErr(k, ver) = ErrVersion
          PROVE  \E n \in Nat : /\ start[c] <= n /\ n <= store'[k].version /\ n # ver
      <3>1. start[c] <= store[k].version /\ store[k].version # ver
        BY Zenon, <1>1, <1>2, <1>4, <2>1 DEF CallsKnown, Putting
      <3>2. store[k].version \in Nat /\ store[k].version <= store'[k].version
        BY Zenon, <1>1, <1>2, <1>4, Fields
      <3> QED
        BY Zenon, <3>1, <3>2
    <2>2. ASSUME PutErr(k, ver) = ErrNoKey
          PROVE  start[c] = 0 /\ ver # 0
      <3>1. start[c] <= store[k].version /\ store[k].version = 0 /\ ver # 0
        BY Zenon, <1>1, <1>2, <1>4, <2>2 DEF CallsKnown, Putting
      <3>2. start[c] \in Nat
        BY Zenon, <1>1, Fields
      <3> QED
        BY <3>1, <3>2
    <2> QED
      BY Zenon, <1>3, <1>4, <1>5, <2>1, <2>2 DEF PutReplyTrue
  <1>11. Replies'
    <2>1. ASSUME NEW d \in Client, d # c, net[d].at = "reply"
          PROVE  /\ call[d].op = "Get" => GetReplyTrue(d)'
                 /\ call[d].op = "Put" => PutReplyTrue(d)'
      <3>1. StoreTypeOK'
        BY Zenon, <1>7 DEF TypeOK, CallTypeOK
      <3> QED
        BY Zenon, <1>1, <1>3, <1>4, <1>5, <2>1, <3>1, ReplyKept
    <2> QED
      BY Zenon, <1>2, <1>3, <1>5, <1>10, <2>1 DEF Replies, Putting
  <1> QED
    BY Zenon, <1>6, <1>7, <1>8, <1>9, <1>11 DEF ClerkInv

LEMMA ServeLateInv ==
    ASSUME ClerkInv, NEW r \in late, ServeLate(r), Record, UNCHANGED <<start, outcome>>
    PROVE  ClerkInv'
  <1>1. /\ TypeOK /\ StoreIsHistory /\ CallsKnown /\ LateKnown /\ OwnPlace
        /\ FirstTry /\ Replies
    BY Zenon DEF ClerkInv
  <1>2. r.key \in Key /\ r.value \in Value /\ r.version \in Nat
    BY Zenon, <1>1, LateFields
  <1>3. /\ store' = PutStore(r.key, r.value, r.version)
        /\ UNCHANGED <<call, net>>
        /\ late' \subseteq late
    BY Zenon DEF ServeLate
  <1>4. /\ hist' \in [Key -> Seq(Value)]
        /\ \A j \in Key : store[j].version <= store'[j].version
        /\ places \subseteq places'
    BY Zenon, <1>1, <1>2, <1>3, PutEffect
  <1>5. /\ StoreIsHistory' /\ StoredOnce' /\ LateKnown' /\ OwnPlace' /\ Outcomes'
        /\ \A u \in Value : Stored(u)' /\ ~ Stored(u) => u = r.value
    <2>1. outcome[r.value] \notin {"unused", ErrVersion}
      BY Zenon, <1>1 DEF LateKnown
    <2>2. \A d \in Client : Putting(d) /\ call[d].value = r.value =>
                call[d].key = r.key /\ call[d].version = r.version
      BY Zenon, <1>1 DEF LateKnown
    <2>3. \A s \in late : s.value = r.value => s.key = r.key /\ s.version = r.version
      BY Zenon, <1>1 DEF LateKnown
    <2>4. \A j \in Key : \A i \in Nat :
                <<j, i, r.value>> \in places => j = r.key /\ i = r.version + 1
      BY Zenon, <1>1 DEF OwnPlace
    <2> QED
      BY <1>2, <1>3, <2>1, <2>2, <2>3, <2>4, PutKeeps
  <1>6. TypeOK'
    <2>1. CallTypeOK'
      BY Zenon, <1>1, ServeLateType DEF TypeOK
    <2> QED
      BY Zenon, <1>1, <1>4, <2>1 DEF TypeOK
  <1>7. StoreTypeOK'
    BY Zenon, <1>6 DEF TypeOK, CallTypeOK
  <1>8. CallsKnown'
    <2>1. ASSUME NEW d \in Client, call[d].op # "none"
          PROVE  start[d] <= store'[call[d].key].version
      <3>1. call[d].key \in Key /\ start[d] <= store[call[d].key].version
        BY Zenon, <1>1, <2>1, Fields DEF CallsKnown
      <3>2. /\ start[d] \in Nat
            /\ store[call[d].key].version \in Nat
            /\ store'[call[d].key].version \in Nat
        BY Zenon, <1>1, <1>7, <3>1, Fields DEF StoreTypeOK, ValueVersion
      <3> QED
        BY <1>4, <3>1, <3>2
    <2> QED
      BY Zenon, <1>1, <1>3, <2>1 DEF CallsKnown, Putting
  <1>9. FirstTry'
    <2>1. ASSUME NEW d \in Client, Putting(d), ~ call[d].retry, ~ Stored(call[d].value)
          PROVE  ~ Stored(call[d].value)'
      <3>1. call[d].value \in Value /\ call[d].value # r.value
        BY Zenon, <1>1, <2>1, Fields DEF LateKnown
      <3> QED
        BY Zenon, <1>3, <1>5, <2>1, <3>1
    <2> QED
      BY Zenon, <1>1, <1>3, <2>1 DEF FirstTry, Putting
  <1>10. Replies'
    <2>1. ASSUME NEW d \in Client, net[d].at = "reply"
          PROVE  /\ call[d].op = "Get" => GetReplyTrue(d)'
                 /\ call[d].op = "Put" => PutReplyTrue(d)'
      BY Zenon, <1>1, <1>3, <1>4, <1>7, <2>1, ReplyKept
    <2> QED
      BY Zenon, <1>3, <2>1 DEF Replies
  <1> QED
    BY Zenon, <1>5, <1>6, <1>8, <1>9, <1>10 DEF ClerkInv

LEMMA ServeGetInv ==
    ASSUME ClerkInv, NEW c \in Client, ServeGet(c), Record, UNCHANGED <<start, outcome>>
    PROVE  ClerkInv'
  <1>1. /\ TypeOK /\ StoreIsHistory /\ StoredOnce /\ CallsKnown /\ LateKnown /\ OwnPlace
        /\ FirstTry /\ Replies /\ Outcomes
    BY Zenon DEF ClerkInv
  <1>2. /\ UNCHANGED <<store, call, late>> /\ hist' = hist
        /\ call[c].op = "Get" /\ call[c].key \in Key
    BY Zenon, <1>1, RecordNothing, Fields DEF ServeGet
  <1>3. /\ places' = places
        /\ \A v \in Value : Stored(v)' <=> Stored(v)
        /\ StoreIsHistory' /\ StoredOnce'
    BY Zenon, <1>1, <1>2, HistoryKept
  <1>4. /\ net'[c].at = "reply"
        /\ net'[c].version = store[call[c].key].version
        /\ net'[c].value = store[call[c].key].value
        /\ net'[c].err = IF Present(call[c].key) THEN OK ELSE ErrNoKey
        /\ \A d \in Client : d # c => net'[d] = net[d]
    BY Zenon, <1>1 DEF ServeGet, Got, GetReply, TypeOK, CallTypeOK
  <1>5. TypeOK'
    <2>1. CallTypeOK'
      BY Zenon, <1>1, ServeGetType DEF TypeOK
    <2> QED
      BY Zenon, <1>1, <1>2, <2>1 DEF TypeOK
  <1>6. CallsKnown'
    BY ZenonT(40), <1>1, <1>2, <1>4 DEF CallsKnown, Putting
  <1>7. LateKnown' /\ OwnPlace'
    BY <1>1, <1>2, <1>3 DEF LateKnown, OwnPlace, Putting
  <1>8. Outcomes'
    BY Zenon, <1>1, <1>3 DEF Outcomes
  <1>9. FirstTry'
    <2>1. ASSUME NEW d \in Client, Putting(d), ~ call[d].retry,
                 net'[d].at = "reply" => net'[d].err # OK
          PROVE  ~ Stored(call[d].value)'
      <3>1. d # c /\ call[d].value \in Value
        BY Zenon, <1>1, <1>2, <2>1, Fields DEF Putting
      <3>2. ~ Stored(call[d].value)
        BY ZenonT(40), <1>1, <1>4, <2>1, <3>1 DEF FirstTry
      <3> QED
        BY Zenon, <1>2, <1>3, <3>1, <3>2
    <2> QED
      BY Zenon, <1>2, <2>1 DEF FirstTry, Putting
  <1>10. GetReplyTrue(c)'
    <2>1. /\ start[c] <= store[call[c].key].version
          /\ start[c] \in Nat
          /\ store[call[c].key].version \in Nat
      BY Zenon, <1>1, <1>2, Fields DEF CallsKnown
    <2>2. /\ store[call[c].key].version = 0 => store[call[c].key].value = NoValue
          /\ store[call[c].key].version > 0 =>
                <<call[c].key, store[call[c].key].version, store[call[c].key].value>> \in places
      BY Zenon, <1>1, <1>2 DEF StoreIsHistory
    <2> QED
      BY <1>2, <1>3, <1>4, <2>1, <2>2 DEF GetReplyTrue, Present
  <1>11. Replies'
    <2>1. ASSUME NEW d \in Client, d # c, net[d].at = "reply"
          PROVE  /\ call[d].op = "Get" => GetReplyTrue(d)'
                 /\ call[d].op = "Put" => PutReplyTrue(d)'
      BY <1>1, <1>2, <1>3, <1>4, <2>1 DEF Replies, GetReplyTrue, PutReplyTrue
    <2> QED
      BY ZenonT(40), <1>2, <1>4, <1>10, <2>1 DEF Replies
  <1> QED
    BY Zenon, <1>3, <1>5, <1>6, <1>7, <1>8, <1>9, <1>11 DEF ClerkInv

-----------------------------------------------------------------------------
(* The clerk resends; the request given up may still be on its way. *)
LEMMA ResendInv ==
    ASSUME ClerkInv, NEW c \in Client, Resend(c), Record, UNCHANGED <<start, outcome>>,
           CallTypeOK',
           \/ late' = late
           \/ /\ Putting(c)
              /\ late' = late \union {[key |-> call[c].key, value |-> call[c].value,
                                       version |-> call[c].version]}
    PROVE  ClerkInv'
  <1>1. /\ TypeOK /\ StoreIsHistory /\ StoredOnce /\ CallsKnown /\ LateKnown /\ OwnPlace
        /\ FirstTry /\ Replies /\ Outcomes
    BY Zenon DEF ClerkInv
  <1>2. store' = store /\ hist' = hist
    BY Zenon, <1>1, RecordNothing DEF Resend
  <1>3. /\ places' = places
        /\ \A v \in Value : Stored(v)' <=> Stored(v)
        /\ StoreIsHistory' /\ StoredOnce'
    BY Zenon, <1>1, <1>2, HistoryKept
  <1>4. /\ call'[c] = Retried(call[c])
        /\ net'[c].at = "request"
        /\ \A d \in Client : d # c => call'[d] = call[d] /\ net'[d] = net[d]
    BY Zenon, <1>1 DEF Resend, Sent, TypeOK, CallTypeOK
  <1>5. /\ call'[c].op = call[c].op
        /\ call[c].op # "none" => call'[c].key = call[c].key
        /\ Putting(c) => /\ call'[c].value = call[c].value
                         /\ call'[c].version = call[c].version
                         /\ call'[c].retry
    <2>1. CASE Putting(c)
      <3>1. call[c] \in PutCall
        BY Zenon, <1>1, <2>1, CallFields DEF Putting, TypeOK
      <3> QED
        BY Zenon, <1>4, <2>1, <3>1 DEF Retried, PutCall, Putting
    <2>2. CASE ~ Putting(c)
      BY Zenon, <1>4, <2>2 DEF Retried, Putting
    <2> QED
      BY Zenon, <2>1, <2>2
  <1>6. \A d \in Client :
            /\ call'[d].op = call[d].op
            /\ call[d].op # "none" => call'[d].key = call[d].key
            /\ Putting(d) => /\ call'[d].value = call[d].value
                             /\ call'[d].version = call[d].version
                             /\ call[d].retry => call'[d].retry
    BY Zenon, <1>4, <1>5
  <1>7. TypeOK'
    BY Zenon, <1>1, <1>2 DEF TypeOK
  <1>8. CallsKnown'
    <2>1. ASSUME NEW d \in Client
          PROVE  /\ net'[d].at = "none" => call'[d].op = "none"
                 /\ call'[d].op # "none" => start[d] <= store[call'[d].key].version
                 /\ call'[d].op = "Put" => outcome[call'[d].value] = "pending"
                 /\ \A e \in Client : call'[d].op = "Put" /\ call'[e].op = "Put"
                                        /\ call'[d].value = call'[e].value => d = e
      BY <1>1, <1>4, <1>6 DEF CallsKnown, Putting
    <2> QED
      BY ZenonT(40), <1>2, <2>1 DEF CallsKnown, Putting
  <1>9. ASSUME NEW r \in late'
        PROVE  /\ outcome[r.value] \notin {"unused", ErrVersion}
               /\ \A d \in Client : Putting(d) /\ call[d].value = r.value =>
                    /\ call'[d].retry
                    /\ call[d].key = r.key /\ call[d].version = r.version
               /\ \A s \in late' : r.value = s.value => r = s
               /\ \A k \in Key : \A i \in Nat :
                    <<k, i, r.value>> \in places => k = r.key /\ i = r.version + 1
    <2> DEFINE new == [key |-> call[c].key, value |-> call[c].value,
                       version |-> call[c].version]
    <2>1. ASSUME NEW s \in late, Putting(c), s.value = call[c].value
          PROVE  s = new
      <3>1. s \in LatePut /\ s.key = call[c].key /\ s.version = call[c].version
        BY Zenon, <1>1, <2>1 DEF LateKnown, TypeOK, CallTypeOK
      <3> QED
        BY Zenon, <2>1, <3>1 DEF LatePut
    <2>2. CASE r \in late
      <3>1. \A s \in late' : r.value = s.value => r = s
        BY <1>1, <2>1, <2>2 DEF LateKnown
      <3>2. \A d \in Client : Putting(d) /\ call[d].value = r.value =>
                    /\ call'[d].retry
                    /\ call[d].key = r.key /\ call[d].version = r.version
        BY ZenonT(40), <1>1, <1>6, <2>2 DEF LateKnown
      <3> QED
        BY SMTT(30), <1>1, <2>2, <3>1, <3>2 DEF LateKnown, OwnPlace
    <2>3. CASE Putting(c) /\ r = new
      <3>1. \A s \in late' : r.value = s.value => r = s
        BY <2>1, <2>3
      <3>2. \A d \in Client : Putting(d) /\ call[d].value = r.value => d = c
        BY Zenon, <1>1, <2>3 DEF CallsKnown
      <3>3. outcome[r.value] \notin {"unused", ErrVersion}
        BY Zenon, <1>1, <2>3 DEF CallsKnown, ErrVersion
      <3>4. \A k \in Key : \A i \in Nat :
                <<k, i, r.value>> \in places => k = r.key /\ i = r.version + 1
        BY ZenonT(40), <1>1, <2>3 DEF OwnPlace
      <3> QED
        BY Zenon, <1>5, <2>3, <3>1, <3>2, <3>3, <3>4
    <2> QED
      BY Zenon, <2>2, <2>3
  <1>10. LateKnown'
    BY <1>6, <1>9 DEF LateKnown, Putting
  <1>11. OwnPlace'
    <2>1. ASSUME NEW k \in Key, NEW i \in Nat, NEW d \in Client,
                 call'[d].op = "Put", <<k, i, call'[d].value>> \in places
          PROVE  /\ k = call'[d].key /\ i = call'[d].version + 1
                 /\ start[d] <= call'[d].version
      <3>1. /\ Putting(d)
            /\ call'[d].key = call[d].key
            /\ call'[d].value = call[d].value
            /\ call'[d].version = call[d].version
        BY Zenon, <1>6, <2>1 DEF Putting
      <3>2. <<k, i, call[d].value>> \in places
        BY Zenon, <2>1, <3>1
      <3>3. /\ k = call[d].key /\ i = call[d].version + 1
            /\ start[d] <= call[d].version
        BY Zenon, <1>1, <3>1, <3>2 DEF OwnPlace
      <3> QED
        BY Zenon, <3>1, <3>3
    <2> QED
      BY <1>3, <1>9, <2>1 DEF OwnPlace, Putting
  <1>12. FirstTry'
    <2>1. ASSUME NEW d \in Client, call'[d].op = "Put", ~ call'[d].retry,
                 net'[d].at = "reply" => net'[d].err # OK
          PROVE  ~ Stored(call[d].value)' /\ call'[d] = call[d]
      <3>1. d # c /\ Putting(d)
        BY Zenon, <1>5, <1>6, <2>1 DEF Putting
      <3>2. call'[d] = call[d] /\ net'[d] = net[d] /\ call[d].value \in Value
        BY Zenon, <1>1, <1>4, <3>1, Fields
      <3>3. ~ Stored(call[d].value)
        BY Zenon, <1>1, <2>1, <3>1, <3>2 DEF FirstTry
      <3> QED
        BY Zenon, <1>3, <3>2, <3>3 DEF Stored
    <2> QED
      BY Zenon, <2>1 DEF FirstTry, Putting, Stored
  <1>13. Replies'
    <2>1. ASSUME NEW d \in Client, net'[d].at = "reply"
          PROVE  /\ call'[d].op = "Get" => GetReplyTrue(d)'
                 /\ call'[d].op = "Put" => PutReplyTrue(d)'
      <3>1. d # c
        BY Zenon, <1>4, <2>1
      <3> QED
        BY <1>1, <1>2, <1>3, <1>4, <2>1, <3>1 DEF Replies, GetReplyTrue, PutReplyTrue
    <2> QED
      BY ZenonT(40), <2>1 DEF Replies
  <1>14. Outcomes'
    BY Zenon, <1>1, <1>3 DEF Outcomes
  <1> QED
    BY Zenon, <1>3, <1>7, <1>8, <1>10, <1>11, <1>12, <1>13, <1>14 DEF ClerkInv

LEMMA NetworkInv ==
    ASSUME ClerkInv, NEW c \in Client, Network(c)
    PROVE  ClerkInv'
  <1>1. CallStep(c) /\ Record /\ UNCHANGED <<start, outcome>>
    BY Zenon DEF Network
  <1>2. CallTypeOK'
    BY Zenon, <1>1, CallStepType DEF ClerkInv, TypeOK
  <1>3. CASE ServeGet(c)
    BY Zenon, <1>1, <1>3, ServeGetInv
  <1>4. CASE ServePut(c)
    BY Zenon, <1>1, <1>4, ServePutInv
  <1>5. CASE LoseRequest(c) \/ LoseReply(c)
    BY Zenon, <1>1, <1>2, <1>5, ResendInv DEF LoseRequest, LoseReply
  <1>6. CASE GiveUp(c)
    BY Zenon, <1>1, <1>2, <1>6, ResendInv DEF GiveUp, Putting
  <1> QED
    BY Zenon, <1>1, <1>3, <1>4, <1>5, <1>6 DEF CallStep

-----------------------------------------------------------------------------
(* The application's calls begin and return: the parts of the invariant that *)
(* speak of the other clients, whose records stay as they are.               *)
LEMMA OthersKept ==
    ASSUME ClerkInv, NEW c \in Client, CallTypeOK',
           UNCHANGED <<store, hist, late>>,
           \A d \in Client : d # c => /\ call'[d] = call[d]
                                      /\ net'[d] = net[d]
                                      /\ start'[d] = start[d]
    PROVE  /\ StoreIsHistory' /\ StoredOnce' /\ places' = places
           /\ \A v \in Value : Stored(v)' <=> Stored(v)
           /\ \A d \in Client : d # c =>
                /\ net'[d].at = "none" => call'[d].op = "none"
                /\ call'[d].op # "none" => start'[d] <= store'[call'[d].key].version
                /\ Putting(d)' /\ ~ call'[d].retry /\ (net'[d].at = "reply" => net'[d].err # OK)
                        => ~ Stored(call'[d].value)
                /\ net'[d].at = "reply" =>
                        /\ call'[d].op = "Get" => GetReplyTrue(d)'
                        /\ call'[d].op = "Put" => PutReplyTrue(d)'
  <1>1. /\ TypeOK /\ StoreIsHistory /\ StoredOnce /\ CallsKnown /\ FirstTry /\ Replies
    BY Zenon DEF ClerkInv
  <1>2. /\ StoreIsHistory' /\ StoredOnce' /\ places' = places
        /\ \A v \in Value : Stored(v)' <=> Stored(v)
    BY Zenon, <1>1, HistoryKept
  <1>3. ASSUME NEW d \in Client, d # c
        PROVE  /\ net'[d].at = "none" => call'[d].op = "none"
               /\ call'[d].op # "none" => start'[d] <= store'[call'[d].key].version
               /\ Putting(d)' /\ ~ call'[d].retry /\ (net'[d].at = "reply" => net'[d].err # OK)
                        => ~ Stored(call'[d].value)
    BY ZenonT(40), <1>1, <1>3 DEF CallsKnown, FirstTry, Putting
  <1>4. ASSUME NEW d \in Client, d # c, net'[d].at = "reply"
        PROVE  /\ call'[d].op = "Get" => GetReplyTrue(d)'
               /\ call'[d].op = "Put" => PutReplyTrue(d)'
    BY SMTT(30), <1>1, <1>2, <1>4 DEF Replies, GetReplyTrue, PutReplyTrue
  <1> QED
    BY Zenon, <1>2, <1>3, <1>4

(* A client begins a Get, or returns from a Get or a Put. *)
LEMMA NoPutInv ==
    ASSUME ClerkInv, NEW c \in Client, TypeOK',
           UNCHANGED <<store, hist, late>>,
           \A d \in Client : d # c => /\ call'[d] = call[d]
                                      /\ net'[d] = net[d]
                                      /\ start'[d] = start[d]
                                      /\ Putting(d) => outcome'[call[d].value] = "pending",
           call'[c].op # "Put", net'[c].at # "reply",
           net'[c].at = "none" => call'[c].op = "none",
           call'[c].op # "none" => start'[c] <= store[call'[c].key].version,
           \A r \in late : outcome'[r.value] \notin {"unused", ErrVersion},
           Outcomes'
    PROVE  ClerkInv'
  <1>1. CallsKnown /\ LateKnown /\ OwnPlace /\ CallTypeOK'
    BY Zenon DEF ClerkInv, TypeOK
  <1>2. /\ StoreIsHistory' /\ StoredOnce' /\ places' = places
        /\ \A v \in Value : Stored(v)' <=> Stored(v)
        /\ \A d \in Client : d # c =>
                /\ net'[d].at = "none" => call'[d].op = "none"
                /\ call'[d].op # "none" => start'[d] <= store'[call'[d].key].version
                /\ Putting(d)' /\ ~ call'[d].retry /\ (net'[d].at = "reply" => net'[d].err # OK)
                        => ~ Stored(call'[d].value)
                /\ net'[d].at = "reply" =>
                        /\ call'[d].op = "Get" => GetReplyTrue(d)'
                        /\ call'[d].op = "Put" => PutReplyTrue(d)'
    BY ZenonT(40), <1>1, OthersKept
  <1>3. \A d \in Client : call'[d].op = "Put" => d # c /\ Putting(d) /\ call'[d] = call[d]
    BY Zenon DEF Putting
  <1>4. CallsKnown'
    <2>1. ASSUME NEW d \in Client
          PROVE  /\ net'[d].at = "none" => call'[d].op = "none"
                 /\ call'[d].op # "none" => start'[d] <= store'[call'[d].key].version
                 /\ call'[d].op = "Put" => outcome'[call'[d].value] = "pending"
      BY SMTT(30), <1>2, <1>3
    <2>2. \A d, e \in Client : call'[d].op = "Put" /\ call'[e].op = "Put"
                               /\ call'[d].value = call'[e].value => d = e
      BY <1>1, <1>3 DEF CallsKnown
    <2> QED
      BY ZenonT(40), <2>1, <2>2 DEF CallsKnown, Putting
  <1>5. LateKnown'
    <2>1. ASSUME NEW r \in late, NEW d \in Client, call'[d].op = "Put",
                 call'[d].value = r.value
          PROVE  call'[d].retry /\ call'[d].key = r.key /\ call'[d].version = r.version
      BY <1>1, <1>3, <2>1 DEF LateKnown
    <2>2. \A r, s \in late : r.value = s.value => r = s
      BY Zenon, <1>1 DEF LateKnown
    <2> QED
      BY <2>1, <2>2 DEF LateKnown, Putting
  <1>6. OwnPlace'
    <2>1. ASSUME NEW k \in Key, NEW i \in Nat, NEW d \in Client,
                 call'[d].op = "Put", <<k, i, call'[d].value>> \in places
          PROVE  /\ k = call'[d].key /\ i = call'[d].version + 1
                 /\ start'[d] <= call'[d].version
      <3>1. d # c /\ Putting(d) /\ call'[d] = call[d] /\ start'[d] = start[d]
        BY Zenon, <1>3, <2>1
      <3> QED
        BY <1>1, <2>1, <3>1 DEF OwnPlace
    <2>2. \A k \in Key : \A i \in Nat : \A r \in late :
                <<k, i, r.value>> \in places => k = r.key /\ i = r.version + 1
      BY Zenon, <1>1 DEF OwnPlace
    <2> QED
      BY ZenonT(40), <1>2, <2>1, <2>2 DEF OwnPlace, Putting
  <1>7. FirstTry'
    <2>1. ASSUME NEW d \in Client, call'[d].op = "Put", ~ call'[d].retry,
                 net'[d].at = "reply" => net'[d].err # OK
          PROVE  ~ Stored(call[d].value)' /\ call'[d] = call[d]
      <3>1. d # c /\ Putting(d) /\ call'[d] = call[d] /\ ~ Stored(call[d].value)
        BY Zenon, <1>2, <1>3, <2>1 DEF Putting
      <3> QED
        BY Zenon, <1>2, <3>1 DEF Stored
    <2> QED
      BY Zenon, <2>1 DEF FirstTry, Putting, Stored
  <1>8. Replies'
    BY Zenon, <1>2 DEF Replies
  <1> QED
    BY Zenon, <1>2, <1>4, <1>5, <1>6, <1>7, <1>8 DEF ClerkInv

LEMMA AppGetInv ==
    ASSUME ClerkInv, NEW c \in Client, NEW k \in Key, AppGet(c, k)
    PROVE  ClerkInv'
  <1>1. TypeOK /\ CallsKnown /\ LateKnown /\ Outcomes /\ StoreIsHistory /\ StoredOnce
    BY Zenon DEF ClerkInv
  <1>2. UNCHANGED <<store, hist, late, outcome>>
    BY Zenon DEF AppGet, Get
  <1>3. TypeOK'
    <2>1. CallTypeOK'
      BY Zenon, <1>1, GetType DEF AppGet, TypeOK
    <2>2. start' \in [Client -> Nat]
      BY Zenon, <1>1, Fields DEF AppGet, TypeOK
    <2> QED
      BY Zenon, <1>1, <1>2, <2>1, <2>2 DEF TypeOK
  <1>4. /\ call'[c] = [op |-> "Get", key |-> k]
        /\ net'[c] = Sent
        /\ start'[c] = store[k].version
        /\ \A d \in Client : d # c => /\ call'[d] = call[d]
                                      /\ net'[d] = net[d]
                                      /\ start'[d] = start[d]
    BY Zenon, <1>1 DEF AppGet, Get, TypeOK, CallTypeOK
  <1>5. /\ call'[c].op = "Get" /\ net'[c].at = "request"
        /\ start'[c] <= store[call'[c].key].version
    <2>1. store[k].version \in Nat
      BY Zenon, <1>1, Fields
    <2> QED
      BY <1>4, <2>1 DEF Sent
  <1>6. \A d \in Client : Putting(d) => outcome'[call[d].value] = "pending"
    BY Zenon, <1>1, <1>2 DEF CallsKnown
  <1>7. \A r \in late : outcome'[r.value] \notin {"unused", ErrVersion}
    BY Zenon, <1>1, <1>2 DEF LateKnown
  <1>8. Outcomes'
    <2>1. \A v \in Value : Stored(v)' <=> Stored(v)
      BY Zenon, <1>1, <1>2, HistoryKept
    <2> QED
      BY Zenon, <1>1, <1>2, <2>1 DEF Outcomes
  <1> QED
    BY Zenon, <1>2, <1>3, <1>4, <1>5, <1>6, <1>7, <1>8, NoPutInv

(* Return leaves the client without a call. *)
LEMMA ReturnFacts ==
    ASSUME ClerkInv, NEW c \in Client, Return(c), start' = [start EXCEPT ![c] = 0]
    PROVE  /\ CallTypeOK'
           /\ start' \in [Client -> Nat]
           /\ UNCHANGED <<store, late>>
           /\ call'[c].op = "none" /\ net'[c].at = "none"
           /\ \A d \in Client : d # c => /\ call'[d] = call[d]
                                         /\ net'[d] = net[d]
                                         /\ start'[d] = start[d]
  <1>1. CallTypeOK /\ start \in [Client -> Nat]
    BY Zenon DEF ClerkInv, TypeOK
  <1>2. CallTypeOK'
    BY Zenon, <1>1, ReturnType
  <1>3. start' \in [Client -> Nat]
    BY Zenon, <1>1
  <1>4. call'[c] = NoCall /\ net'[c] = Idle
    BY Zenon, <1>1 DEF Return, CallTypeOK
  <1>5. \A d \in Client : d # c => /\ call'[d] = call[d]
                                   /\ net'[d] = net[d]
                                   /\ start'[d] = start[d]
    BY Zenon, <1>1 DEF Return, CallTypeOK
  <1> QED
    BY <1>2, <1>3, <1>4, <1>5 DEF Return, NoCall, Idle

LEMMA GetDoneInv ==
    ASSUME ClerkInv, NEW c \in Client, GetDone(c)
    PROVE  ClerkInv'
  <1>1. TypeOK /\ CallsKnown /\ LateKnown /\ Outcomes /\ StoreIsHistory /\ StoredOnce
    BY Zenon DEF ClerkInv
  <1>2. /\ CallTypeOK' /\ start' \in [Client -> Nat]
        /\ UNCHANGED <<store, hist, late, outcome>>
        /\ call'[c].op = "none" /\ net'[c].at = "none"
        /\ \A d \in Client : d # c => /\ call'[d] = call[d]
                                      /\ net'[d] = net[d]
                                      /\ start'[d] = start[d]
    BY Zenon, ReturnFacts DEF GetDone
  <1>3. TypeOK'
    BY Zenon, <1>1, <1>2 DEF TypeOK
  <1>4. \A d \in Client : Putting(d) => outcome'[call[d].value] = "pending"
    BY Zenon, <1>1, <1>2 DEF CallsKnown
  <1>5. \A r \in late : outcome'[r.value] \notin {"unused", ErrVersion}
    BY Zenon, <1>1, <1>2 DEF LateKnown
  <1>6. Outcomes'
    <2>1. \A v \in Value : Stored(v)' <=> Stored(v)
      BY Zenon, <1>1, <1>2, HistoryKept
    <2> QED
      BY Zenon, <1>1, <1>2, <2>1 DEF Outcomes
  <1> QED
    BY Zenon, <1>2, <1>3, <1>4, <1>5, <1>6, NoPutInv

LEMMA PutDoneInv ==
    ASSUME ClerkInv, NEW c \in Client, PutDone(c)
    PROVE  ClerkInv'
  <1>1. /\ TypeOK /\ CallsKnown /\ LateKnown /\ FirstTry /\ Replies /\ Outcomes
        /\ StoreIsHistory /\ StoredOnce
    BY Zenon DEF ClerkInv
  <1>2. /\ CallTypeOK' /\ start' \in [Client -> Nat]
        /\ UNCHANGED <<store, hist, late>>
        /\ call'[c].op = "none" /\ net'[c].at = "none"
        /\ \A d \in Client : d # c => /\ call'[d] = call[d]
                                      /\ net'[d] = net[d]
                                      /\ start'[d] = start[d]
    BY Zenon, ReturnFacts DEF PutDone
  <1>3. /\ Putting(c) /\ net[c].at = "reply"
        /\ call[c].value \in Value /\ call[c].version \in Nat /\ call[c].key \in Key
        /\ call[c].retry \in BOOLEAN /\ net[c].err \in ServerErr
    BY Zenon, <1>1, Fields DEF PutDone, PutReturns, Putting
  <1>4. outcome' = [outcome EXCEPT ![call[c].value] = PutResult(c)]
    BY Zenon DEF PutDone
  <1>5. /\ PutResult(c) \in Outcome
        /\ PutResult(c) # "unused"
        /\ PutResult(c) = OK => net[c].err = OK
        /\ PutResult(c) = ErrVersion => ~ call[c].retry /\ net[c].err # OK
    BY Zenon, <1>3 DEF PutResult, Outcome, ServerErr, OK, ErrNoKey, ErrVersion, ErrMaybe
  <1>6. TypeOK'
    BY Zenon, <1>1, <1>2, <1>3, <1>4, <1>5 DEF TypeOK
  <1>7. /\ outcome'[call[c].value] = PutResult(c)
        /\ \A v \in Value : v # call[c].value => outcome'[v] = outcome[v]
    BY Zenon, <1>1, <1>3, <1>4 DEF TypeOK
  <1>8. ASSUME NEW d \in Client, d # c, Putting(d)
        PROVE  outcome'[call[d].value] = "pending"
    <2>1. call[d].value \in Value /\ call[d].value # call[c].value
      BY Zenon, <1>1, <1>3, <1>8, Fields DEF CallsKnown
    <2> QED
      BY Zenon, <1>1, <1>7, <1>8, <2>1 DEF CallsKnown
  <1>9. ASSUME NEW r \in late
        PROVE  outcome'[r.value] \notin {"unused", ErrVersion}
    <2>1. CASE r.value = call[c].value
      <3>1. call[c].retry
        BY Zenon, <1>1, <1>3, <2>1 DEF LateKnown
      <3> QED
        BY Zenon, <1>5, <1>7, <2>1, <3>1
    <2>2. CASE r.value # call[c].value
      BY Zenon, <1>1, <1>7, <2>2, LateFields DEF LateKnown
    <2> QED
      BY Zenon, <2>1, <2>2
  <1>10. Outcomes'
    <2>1. \A v \in Value : Stored(v)' <=> Stored(v)
      BY Zenon, <1>1, <1>2, HistoryKept
    <2>2. ASSUME PutResult(c) = OK
          PROVE  Stored(call[c].value)
      <3>1. <<call[c].key, call[c].version + 1, call[c].value>> \in places
        BY Zenon, <1>1, <1>3, <1>5, <2>2 DEF Replies, PutReplyTrue, Putting
      <3>2. call[c].version + 1 \in Nat
        BY <1>3
      <3> QED
        BY Zenon, <1>3, <3>1, <3>2 DEF Stored
    <2>3. PutResult(c) = ErrVersion => ~ Stored(call[c].value)
      BY Zenon, <1>1, <1>3, <1>5 DEF FirstTry
    <2>4. ASSUME NEW v \in Value
          PROVE  /\ outcome'[v] = OK => Stored(v)
                 /\ outcome'[v] \in {"unused", ErrVersion} => ~ Stored(v)
      <3>1. CASE v = call[c].value
        BY Zenon, <1>5, <1>7, <2>2, <2>3, <3>1
      <3>2. CASE v # call[c].value
        BY Zenon, <1>1, <1>7, <3>2 DEF Outcomes
      <3> QED
        BY Zenon, <3>1, <3>2
    <2> QED
      BY Zenon, <2>1, <2>4 DEF Outcomes
  <1> QED
    BY ZenonT(40), <1>2, <1>6, <1>8, <1>9, <1>10, NoPutInv

(* A client begins a Put, with a value that no other Put has. *)
LEMMA AppPutInv ==
    ASSUME ClerkInv, NEW c \in Client, NEW k \in Key, NEW v \in Value, NEW ver \in Nat,
           AppPut(c, k, v, ver)
    PROVE  ClerkInv'
  <1>1. /\ TypeOK /\ CallsKnown /\ LateKnown /\ OwnPlace /\ Outcomes
        /\ outcome[v] = "unused"
    BY Zenon DEF ClerkInv, AppPut
  <1>2. UNCHANGED <<store, hist, late>>
    BY Zenon DEF AppPut, Put
  <1>3. /\ call'[c] = [op |-> "Put", key |-> k, value |-> v, version |-> ver,
                       retry |-> FALSE]
        /\ net'[c].at = "request"
        /\ start'[c] = store[k].version
        /\ \A d \in Client : d # c => /\ call'[d] = call[d]
                                      /\ net'[d] = net[d]
                                      /\ start'[d] = start[d]
    BY Zenon, <1>1 DEF AppPut, Put, Sent, TypeOK, CallTypeOK
  <1>4. /\ outcome'[v] = "pending"
        /\ \A u \in Value : u # v => outcome'[u] = outcome[u]
    BY Zenon, <1>1 DEF AppPut, TypeOK
  <1>5. TypeOK'
    <2>1. CallTypeOK'
      BY Zenon, <1>1, PutType DEF AppPut, TypeOK
    <2>2. start' \in [Client -> Nat]
      BY Zenon, <1>1, Fields DEF AppPut, TypeOK
    <2>3. outcome' \in [Value -> Outcome]
      BY Zenon, <1>1 DEF AppPut, TypeOK, Outcome
    <2> QED
      BY Zenon, <1>1, <1>2, <2>1, <2>2, <2>3 DEF TypeOK
  <1>6. /\ StoreIsHistory' /\ StoredOnce' /\ places' = places
        /\ \A u \in Value : Stored(u)' <=> Stored(u)
        /\ \A d \in Client : d # c =>
                /\ net'[d].at = "none" => call'[d].op = "none"
                /\ call'[d].op # "none" => start'[d] <= store'[call'[d].key].version
                /\ Putting(d)' /\ ~ call'[d].retry /\ (net'[d].at = "reply" => net'[d].err # OK)
                        => ~ Stored(call'[d].value)
                /\ net'[d].at = "reply" =>
                        /\ call'[d].op = "Get" => GetReplyTrue(d)'
                        /\ call'[d].op = "Put" => PutReplyTrue(d)'
    BY Zenon, <1>2, <1>3, <1>5, OthersKept DEF TypeOK
  <1>7. ~ Stored(v) /\ \A j \in Key : \A i \in Nat : <<j, i, v>> \notin places
    BY Zenon, <1>1 DEF Outcomes, Stored
  <1>8. ASSUME NEW d \in Client, d # c, Putting(d)
        PROVE  /\ call[d].value \in Value /\ call[d].value # v
               /\ outcome'[call[d].value] = "pending"
    <2>1. call[d].value \in Value /\ outcome[call[d].value] = "pending"
      BY Zenon, <1>1, <1>8, Fields DEF CallsKnown
    <2> QED
      BY Zenon, <1>1, <1>4, <2>1
  <1>9. ASSUME NEW r \in late
        PROVE  r.value # v /\ outcome'[r.value] \notin {"unused", ErrVersion}
    <2>1. r.value \in Value /\ outcome[r.value] \notin {"unused", ErrVersion}
      BY Zenon, <1>1, LateFields DEF LateKnown
    <2> QED
      BY Zenon, <1>1, <1>4, <2>1
  <1>10. CallsKnown'
    <2>1. start'[c] <= store'[call'[c].key].version
      <3>1. store[k].version \in Nat
        BY Zenon, <1>1, Fields
      <3> QED
        BY <1>2, <1>3, <3>1
    <2>2. ASSUME NEW d \in Client
          PROVE  /\ net'[d].at = "none" => call'[d].op = "none"
                 /\ call'[d].op # "none" => start'[d] <= store'[call'[d].key].version
                 /\ call'[d].op = "Put" => outcome'[call'[d].value] = "pending"
      <3>1. CASE d = c
        BY <1>3, <1>4, <2>1, <3>1
      <3>2. CASE d # c
        BY ZenonT(40), <1>3, <1>6, <1>8, <3>2 DEF Putting
      <3> QED
        BY Zenon, <3>1, <3>2
    <2>3. ASSUME NEW d \in Client, NEW e \in Client, call'[d].op = "Put",
                 call'[e].op = "Put", call'[d].value = call'[e].value
          PROVE  d = e
      <3>1. CASE d # c /\ e # c
        BY SMTT(30), <1>1, <1>3, <2>3, <3>1 DEF CallsKnown, Putting
      <3>2. CASE d = c /\ e # c
        BY SMTT(30), <1>3, <1>8, <2>3, <3>2 DEF Putting
      <3>3. CASE d # c /\ e = c
        BY <1>3, <1>8, <2>3, <3>3 DEF Putting
      <3> QED
        BY Zenon, <3>1, <3>2, <3>3
    <2> QED
      BY Zenon, <2>2, <2>3 DEF CallsKnown, Putting
  <1>11. LateKnown'
    <2>1. ASSUME NEW r \in late, NEW d \in Client, call'[d].op = "Put",
                 call'[d].value = r.value
          PROVE  call'[d].retry /\ call'[d].key = r.key /\ call'[d].version = r.version
      <3>1. d # c
        BY <1>3, <1>9, <2>1
      <3> QED
        BY SMTT(30), <1>1, <1>3, <2>1, <3>1 DEF LateKnown, Putting
    <2>2. \A r, s \in late : r.value = s.value => r = s
      BY ZenonT(40), <1>1 DEF LateKnown
    <2> QED
      BY Zenon, <1>2, <1>9, <2>1, <2>2 DEF LateKnown, Putting
  <1>12. OwnPlace'
    <2>1. ASSUME NEW j \in Key, NEW i \in Nat, NEW d \in Client,
                 call'[d].op = "Put", <<j, i, call'[d].value>> \in places
          PROVE  /\ j = call'[d].key /\ i = call'[d].version + 1
                 /\ start'[d] <= call'[d].version
      <3>1. d # c
        BY <1>3, <1>7, <2>1
      <3>2. Putting(d) /\ call'[d] = call[d] /\ start'[d] = start[d]
        BY Zenon, <1>3, <2>1, <3>1 DEF Putting
      <3> QED
        BY SMTT(30), <1>1, <2>1, <3>2 DEF OwnPlace
    <2>2. \A j \in Key : \A i \in Nat : \A r \in late :
                <<j, i, r.value>> \in places => j = r.key /\ i = r.version + 1
      BY Zenon, <1>1 DEF OwnPlace
    <2> QED
      BY SMTT(30), <1>2, <1>6, <2>1, <2>2 DEF OwnPlace, Putting
  <1>13. FirstTry'
    <2>1. ASSUME NEW d \in Client, call'[d].op = "Put", ~ call'[d].retry,
                 net'[d].at = "reply" => net'[d].err # OK
          PROVE  ~ Stored(call'[d].value)
      <3>1. CASE d = c
        BY <1>3, <1>7, <3>1
      <3>2. CASE d # c
        BY Zenon, <1>6, <2>1, <3>2 DEF Putting
      <3> QED
        BY ZenonT(40), <3>1, <3>2
    <2> QED
      BY Zenon, <1>6, <2>1 DEF FirstTry, Putting, Stored
  <1>14. Replies'
    BY Zenon, <1>3, <1>6 DEF Replies
  <1>15. Outcomes'
    <2>1. ASSUME NEW u \in Value
          PROVE  /\ outcome'[u] = OK => Stored(u)
                 /\ outcome'[u] \in {"unused", ErrVersion} => ~ Stored(u)
      <3>1. CASE u = v
        BY Zenon, <1>4, <3>1 DEF OK, ErrVersion
      <3>2. CASE u # v
        BY Zenon, <1>1, <1>4, <3>2 DEF Outcomes
      <3> QED
        BY Zenon, <3>1, <3>2
    <2> QED
      BY Zenon, <1>6, <2>1 DEF Outcomes
  <1> QED
    BY Zenon, <1>5, <1>6, <1>10, <1>11, <1>12, <1>13, <1>14, <1>15 DEF ClerkInv

-----------------------------------------------------------------------------
LEMMA InitInv == Init => ClerkInv
  <1> SUFFICES ASSUME Init
               PROVE  ClerkInv
    BY Zenon
  <1>1. /\ store = [k \in Key |-> Absent]
        /\ call = [c \in Client |-> NoCall]
        /\ net = [c \in Client |-> Idle]
        /\ late = {} /\ drops = 0
        /\ hist = [k \in Key |-> <<>>]
        /\ start = [c \in Client |-> 0]
        /\ outcome = [v \in Value |-> "unused"]
    BY Zenon DEF Init, CallInit, MakeKVServer
  <1>2. CallTypeOK
    <2>1. store \in [Key -> ValueVersion]
      BY Zenon, <1>1 DEF Absent, ValueVersion
    <2>2. drops \in 0 .. MaxDrops
      BY <1>1, CallAssumption
    <2> QED
      BY Zenon, <1>1, <2>1, <2>2 DEF CallTypeOK, StoreTypeOK, NetState
  <1>3. TypeOK
    BY <1>1, <1>2 DEF TypeOK, Outcome
  <1>4. \A k \in Key : hist[k] = <<>> /\ Len(hist[k]) = 0
    BY Zenon, <1>1
  <1>5. places = {}
    BY <1>4 DEF places
  <1>6. StoreIsHistory
    <2>1. \A k \in Key : store[k].version = 0 /\ store[k].value = NoValue
      BY Zenon, <1>1 DEF Absent
    <2>2. ASSUME NEW k \in Key
          PROVE  /\ store[k].version = Len(hist[k])
                 /\ store[k].version = 0 => store[k].value = NoValue
                 /\ ~ (store[k].version > 0)
      <3>1. store[k].version = 0 /\ store[k].value = NoValue
        BY Zenon, <2>1
      <3>2. Len(hist[k]) = 0
        BY Zenon, <1>4
      <3> QED
        BY <3>1, <3>2
    <2> QED
      BY Zenon, <2>2 DEF StoreIsHistory
  <1>7. \A c \in Client : call[c].op = "none" /\ net[c].at = "none"
    BY Zenon, <1>1 DEF NoCall, Idle
  <1>8. StoredOnce /\ \A v : ~ Stored(v)
    BY Zenon, <1>5 DEF StoredOnce, Stored
  <1>9. CallsKnown /\ FirstTry /\ Replies
    BY Zenon, <1>7 DEF CallsKnown, FirstTry, Replies, Putting
  <1>10. LateKnown /\ OwnPlace
    BY Zenon, <1>1, <1>7 DEF LateKnown, OwnPlace, Putting
  <1>11. Outcomes
    BY Zenon, <1>1, <1>8 DEF Outcomes, OK
  <1> QED
    BY Zenon, <1>3, <1>6, <1>8, <1>9, <1>10, <1>11 DEF ClerkInv

LEMMA StepInv == ClerkInv /\ [Next]_vars => ClerkInv'
  <1> SUFFICES ASSUME ClerkInv, [Next]_vars
               PROVE  ClerkInv'
    BY Zenon
  <1>1. ASSUME NEW c \in Client, NEW k \in Key, AppGet(c, k)
        PROVE  ClerkInv'
    BY Zenon, <1>1, AppGetInv
  <1>2. ASSUME NEW c \in Client, NEW k \in Key, NEW v \in Value, NEW ver \in 0 .. MaxVersion,
               AppPut(c, k, v, ver)
        PROVE  ClerkInv'
    <2>1. ver \in Nat
      BY MaxVersionAssumption
    <2> QED
      BY Zenon, <1>2, <2>1, AppPutInv
  <1>3. ASSUME NEW c \in Client, Network(c)
        PROVE  ClerkInv'
    BY Zenon, <1>3, NetworkInv
  <1>4. ASSUME NEW c \in Client, GetDone(c)
        PROVE  ClerkInv'
    BY Zenon, <1>4, GetDoneInv
  <1>5. ASSUME NEW c \in Client, PutDone(c)
        PROVE  ClerkInv'
    BY Zenon, <1>5, PutDoneInv
  <1>6. CASE Late
    BY Zenon, <1>6, ServeLateInv DEF Late
  <1>7. CASE UNCHANGED vars
    <2>1. /\ UNCHANGED <<store, call, net, late, drops, hist, start, outcome>>
          /\ TypeOK /\ StoreIsHistory /\ StoredOnce /\ CallsKnown /\ LateKnown /\ OwnPlace
          /\ FirstTry /\ Replies /\ Outcomes
      BY Zenon, <1>7 DEF vars, callVars, historyVars, ClerkInv
    <2>2. /\ places' = places
          /\ \A v \in Value : Stored(v)' <=> Stored(v)
          /\ StoreIsHistory' /\ StoredOnce'
      BY Zenon, <2>1, HistoryKept
    <2>3. TypeOK'
      BY Zenon, <2>1 DEF TypeOK, CallTypeOK, StoreTypeOK
    <2>4. CallsKnown' /\ LateKnown' /\ OwnPlace'
      <3>1. CallsKnown'
        BY <2>1 DEF CallsKnown, Putting
      <3>2. LateKnown'
        BY <2>1 DEF LateKnown, Putting
      <3>3. OwnPlace'
        BY <2>1, <2>2 DEF OwnPlace, Putting
      <3> QED
        BY ZenonT(40), <3>1, <3>2, <3>3
    <2>5. FirstTry' /\ Outcomes'
      BY Zenon, <2>1, <2>2 DEF FirstTry, Outcomes, Putting, Stored
    <2>6. Replies'
      BY Zenon, <2>1, <2>2 DEF Replies, GetReplyTrue, PutReplyTrue
    <2> QED
      BY Zenon, <2>2, <2>3, <2>4, <2>5, <2>6 DEF ClerkInv
  <1> QED
    BY Zenon, <1>1, <1>2, <1>3, <1>4, <1>5, <1>6, <1>7 DEF Next

-----------------------------------------------------------------------------
(* What the invariant says of the history variables' own properties. *)
LEMMA AppliedMeans ==
    ASSUME TypeOK, NEW v \in Value
    PROVE  Applied(v) <=> Stored(v)
  <1>1. ASSUME NEW k \in Key, NEW i \in 1 .. Len(hist[k]), hist[k][i] = v
        PROVE  i \in Nat /\ <<k, i, v>> \in places
    <2>1. i \in Nat
      BY DEF TypeOK
    <2> QED
      BY Zenon, <1>1, <2>1, PlaceMeans
  <1>2. ASSUME NEW k \in Key, NEW i \in Nat, <<k, i, v>> \in places
        PROVE  i \in 1 .. Len(hist[k]) /\ hist[k][i] = v
    BY Zenon, <1>2, PlaceMeans
  <1> QED
    BY Zenon, <1>1, <1>2 DEF Applied, Stored

LEMMA AppliedMeansNext ==
    ASSUME TypeOK', NEW v \in Value
    PROVE  Applied(v)' <=> Stored(v)'
  <1>1. ASSUME NEW k \in Key, NEW i \in 1 .. Len(hist'[k]), hist'[k][i] = v
        PROVE  i \in Nat /\ <<k, i, v>> \in places'
    <2>1. i \in Nat
      BY DEF TypeOK
    <2> QED
      BY Zenon, <1>1, <2>1, PlaceMeansNext
  <1>2. ASSUME NEW k \in Key, NEW i \in Nat, <<k, i, v>> \in places'
        PROVE  i \in 1 .. Len(hist'[k]) /\ hist'[k][i] = v
    BY Zenon, <1>2, PlaceMeansNext
  <1> QED
    BY Zenon, <1>1, <1>2 DEF Applied, Stored

LEMMA InvAtMostOnce == ClerkInv => AtMostOnce
  <1> SUFFICES ASSUME ClerkInv,
                      NEW k1 \in Key, NEW k2 \in Key,
                      NEW i \in 1 .. Len(hist[k1]), NEW j \in 1 .. Len(hist[k2]),
                      hist[k1][i] = hist[k2][j]
               PROVE  k1 = k2 /\ i = j
    BY Zenon DEF AtMostOnce
  <1>1. hist \in [Key -> Seq(Value)]
    BY Zenon DEF ClerkInv, TypeOK
  <1>2. hist[k1] \in Seq(Value) /\ hist[k2] \in Seq(Value)
    BY Zenon, <1>1
  <1>3. i \in Nat /\ j \in Nat /\ hist[k1][i] \in Value
    BY <1>2
  <1>4. <<k1, i, hist[k1][i]>> \in places /\ <<k2, j, hist[k1][i]>> \in places
    BY Zenon, <1>3, PlaceMeans
  <1> QED
    BY Zenon, <1>3, <1>4 DEF ClerkInv, StoredOnce

LEMMA InvTruthful == ClerkInv => TruthfulOutcome
  <1> SUFFICES ASSUME ClerkInv, NEW v \in Value
               PROVE  /\ outcome[v] = OK => Applied(v)
                      /\ outcome[v] = ErrVersion => ~ Applied(v)
                      /\ outcome[v] = "unused" => ~ Applied(v)
    BY Zenon DEF TruthfulOutcome
  <1>1. Applied(v) <=> Stored(v)
    BY Zenon, AppliedMeans DEF ClerkInv
  <1> QED
    BY Zenon, <1>1 DEF ClerkInv, Outcomes

LEMMA InvMaybe == ClerkInv => MaybeMeansTaken
  <1> SUFFICES ASSUME ClerkInv, NEW c \in Client, PutReturns(c), PutResult(c) = ErrMaybe,
                      call[c].version = start[c]
               PROVE  Len(hist[call[c].key]) > call[c].version
    BY Zenon DEF MaybeMeansTaken
  <1>1. TypeOK /\ StoreIsHistory /\ Replies
    BY Zenon DEF ClerkInv
  <1>2. /\ Putting(c) /\ net[c].at = "reply" /\ net[c].err \in ServerErr
        /\ call[c].key \in Key /\ call[c].version \in Nat
    BY Zenon, <1>1, Fields DEF PutReturns, Putting
  <1>3. net[c].err = ErrVersion
    BY Zenon, <1>2 DEF PutResult, ServerErr, OK, ErrNoKey, ErrVersion, ErrMaybe
  <1>4. PICK n \in Nat : /\ start[c] <= n /\ n <= store[call[c].key].version
                         /\ n # call[c].version
    BY Zenon, <1>1, <1>2, <1>3 DEF Replies, PutReplyTrue, Putting
  <1>5. store[call[c].key].version = Len(hist[call[c].key])
    BY Zenon, <1>1, <1>2 DEF StoreIsHistory
  <1>6. store[call[c].key].version \in Nat
    BY Zenon, <1>1, <1>2, Fields
  <1> QED
    BY <1>2, <1>4, <1>5, <1>6

(* The entry the sequential model has after n Puts of the key. *)
LEMMA EntryIs ==
    ASSUME NEW k \in Key, NEW n \in Nat
    PROVE  /\ Entry(k, n).version = n
           /\ n = 0 => Entry(k, n) = [value |-> NoValue, version |-> 0]
           /\ n > 0 => Entry(k, n) = [value |-> hist[k][n], version |-> n]
  BY DEF Entry, Model!KvInit

LEMMA InvGetExplained ==
    ASSUME ClerkInv, NEW c \in Client, GetReturns(c)
    PROVE  GetExplained(c, call[c].key)
  <1> DEFINE k == call[c].key
             n == net[c].version
  <1>1. TypeOK /\ StoreIsHistory /\ Replies
    BY Zenon DEF ClerkInv
  <1>2. /\ call[c].op = "Get" /\ net[c].at = "reply"
        /\ k \in Key /\ n \in Nat /\ start[c] \in Nat
        /\ store[k].version \in Nat
    BY Zenon, <1>1, Fields DEF GetReturns
  <1>3. GetReplyTrue(c)
    BY Zenon, <1>1, <1>2 DEF Replies
  <1>4. n \in start[c] .. Len(hist[k])
    <2>1. store[k].version = Len(hist[k])
      BY Zenon, <1>1, <1>2 DEF StoreIsHistory
    <2>2. start[c] <= n /\ n <= store[k].version
      BY Zenon, <1>3 DEF GetReplyTrue
    <2> HIDE DEF k, n
    <2> QED
      BY <1>2, <2>1, <2>2
  <1>5. Entry(k, n).value = net[c].value
    <2>1. CASE n = 0
      BY SMTT(30), <1>2, <1>3, <2>1, EntryIs DEF GetReplyTrue
    <2>2. CASE n > 0
      <3>1. <<k, n, net[c].value>> \in places
        BY Zenon, <1>3, <2>2 DEF GetReplyTrue
      <3>2. hist[k][n] = net[c].value
        BY Zenon, <3>1 DEF places
      <3> QED
        BY <1>2, <2>2, <3>2, EntryIs
    <2> QED
      BY SMTT(30), <1>2, <2>1, <2>2
  <1>6. Model!Step(Entry(k, n), call[c], net[c]).ok
    BY Zenon, <1>2, <1>5 DEF Model!Step
  <1>7. net[c].err = IF n = 0 THEN ErrNoKey ELSE OK
    BY <1>2, <1>3 DEF GetReplyTrue
  <1> QED
    BY Zenon, <1>4, <1>6, <1>7 DEF GetExplained

(* A moment n that PutExplained asks for, by what the Put returned and       *)
(* whether it was applied.                                                   *)
LEMMA PutMoment ==
    ASSUME ClerkInv, NEW c \in Client, PutReturns(c)
    PROVE  \/ /\ PutResult(c) = ErrNoKey
              /\ start[c] = 0 /\ call[c].version # 0
           \/ /\ PutResult(c) \in {OK, ErrMaybe}
              /\ Applied(call[c].value)
              /\ start[c] <= call[c].version
              /\ call[c].version + 1 <= Len(hist[call[c].key])
              /\ hist[call[c].key][call[c].version + 1] = call[c].value
           \/ /\ PutResult(c) \in {ErrVersion, ErrMaybe}
              /\ ~ Applied(call[c].value)
              /\ \E n \in Nat : /\ start[c] <= n /\ n <= Len(hist[call[c].key])
                                /\ n # call[c].version
  <1> DEFINE k == call[c].key
             v == call[c].value
             ver == call[c].version
  <1>1. TypeOK /\ StoreIsHistory /\ OwnPlace /\ FirstTry /\ Replies
    BY Zenon DEF ClerkInv
  <1>2. /\ Putting(c) /\ net[c].at = "reply" /\ net[c].err \in ServerErr
        /\ k \in Key /\ v \in Value /\ ver \in Nat /\ call[c].retry \in BOOLEAN
    BY Zenon, <1>1, Fields DEF PutReturns, Putting
  <1>3. PutReplyTrue(c)
    BY Zenon, <1>1, <1>2 DEF Replies, Putting
  <1>4. Applied(v) <=> Stored(v)
    BY Zenon, <1>1, <1>2, AppliedMeans
  <1>5. ASSUME NEW i \in Nat, NEW j \in Key, <<j, i, v>> \in places
        PROVE  /\ start[c] <= ver
               /\ ver + 1 <= Len(hist[k])
               /\ hist[k][ver + 1] = v
    <2>1. j = k /\ i = ver + 1 /\ start[c] <= ver
      BY Zenon, <1>1, <1>2, <1>5 DEF OwnPlace
    <2>2. ver + 1 \in 1 .. Len(hist[k]) /\ hist[k][ver + 1] = v
      BY Zenon, <1>5, <2>1 DEF places
    <2> QED
      BY <2>1, <2>2
  <1>6. CASE net[c].err = ErrNoKey
    BY Zenon, <1>3, <1>6 DEF PutReplyTrue, PutResult, ErrNoKey, ErrVersion
  <1>7. CASE net[c].err = OK
    <2>1. <<k, ver + 1, v>> \in places /\ ver + 1 \in Nat
      BY <1>2, <1>3, <1>7 DEF PutReplyTrue
    <2>2. Applied(v)
      BY Zenon, <1>2, <1>4, <2>1 DEF Stored
    <2>3. PutResult(c) = OK
      BY Zenon, <1>7 DEF PutResult, OK, ErrVersion
    <2> QED
      BY ZenonT(40), <1>2, <1>5, <2>1, <2>2, <2>3
  <1>8. CASE net[c].err = ErrVersion
    <2>1. PutResult(c) = IF call[c].retry THEN ErrMaybe ELSE ErrVersion
      BY Zenon, <1>8 DEF PutResult
    <2>2. CASE Applied(v)
      <3>1. PICK j \in Key, i \in Nat : <<j, i, v>> \in places
        BY Zenon, <1>4, <2>2 DEF Stored
      <3>2. call[c].retry
        BY Zenon, <1>1, <1>2, <1>4, <1>8, <2>2 DEF FirstTry, OK, ErrVersion
      <3> QED
        BY Zenon, <1>5, <2>1, <2>2, <3>1, <3>2
    <2>3. CASE ~ Applied(v)
      <3>1. \E n \in Nat : start[c] <= n /\ n <= store[k].version /\ n # ver
        BY Zenon, <1>3, <1>8 DEF PutReplyTrue
      <3>2. store[k].version = Len(hist[k])
        BY Zenon, <1>1, <1>2 DEF StoreIsHistory
      <3> QED
        BY Zenon, <1>2, <2>1, <2>3, <3>1, <3>2
    <2> QED
      BY Zenon, <2>2, <2>3
  <1> QED
    BY Zenon, <1>2, <1>6, <1>7, <1>8 DEF ServerErr

-----------------------------------------------------------------------------
(***************************************************************************)
(* The log of the Puts.  A Put that returned has one of four explanations, *)
(* and only the third one can be replaced, by the fourth: when a late copy *)
(* is applied, the key has the version the Put named, which is newer than  *)
(* the one it had at the call; a Put of a version the key had at the call  *)
(* finds a newer one when it returns.                                      *)
(***************************************************************************)
OpNoKey(o) == o.err = ErrNoKey /\ o.Call = 0 /\ o.version # 0

OpInTime(o) ==
    /\ o.err \in {OK, ErrMaybe}
    /\ o.Call <= o.version /\ o.version < o.Return
    /\ <<o.key, o.version + 1, o.value>> \in places

OpNotApplied(o) ==
    /\ o.err \in {ErrVersion, ErrMaybe}
    /\ ~ Stored(o.value)
    /\ \E n \in Nat : o.Call <= n /\ n <= o.Return /\ n # o.version

OpTooLate(o) ==
    /\ o.err = ErrMaybe /\ o.version > o.Call /\ o.version >= o.Return
    /\ Stored(o.value)

OpKnown(o) ==
    /\ o.Return <= store[o.key].version
    /\ outcome[o.value] = o.err
    /\ o.err = ErrMaybe /\ o.version <= o.Call => o.version < o.Return
    /\ \A r \in late : r.value = o.value => r.key = o.key /\ r.version = o.version

OpExplained(o) == OpNoKey(o) \/ OpInTime(o) \/ OpNotApplied(o) \/ OpTooLate(o)

LogInv == OpLogTypeOK /\ \A o \in oplog : OpKnown(o) /\ OpExplained(o)

LEMMA OpFields ==
    ASSUME NEW o \in Operation
    PROVE  /\ o.key \in Key /\ o.value \in Value /\ o.version \in Nat
           /\ o.err \in ServerErr \union {ErrMaybe}
           /\ o.Call \in Nat /\ o.Return \in Nat
           /\ o.err # "pending" /\ o.err # "unused"
  <1>1. /\ o.key \in Key /\ o.value \in Value /\ o.version \in Nat
        /\ o.err \in ServerErr \union {ErrMaybe}
        /\ o.Call \in Nat /\ o.Return \in Nat
    BY Zenon DEF Operation
  <1> QED
    BY Zenon, <1>1 DEF ServerErr, OK, ErrNoKey, ErrVersion, ErrMaybe

(* What a step must not do to an operation of the log. *)
LEMMA OpKept ==
    ASSUME TypeOK, NEW o \in Operation, OpKnown(o), OpExplained(o),
           outcome'[o.value] = outcome[o.value],
           \A k \in Key : store'[k].version \in Nat /\ store[k].version <= store'[k].version,
           places \subseteq places',
           \A r \in late' : r.value = o.value => r \in late,
           Stored(o.value)' /\ ~ Stored(o.value) =>
                o.err # ErrVersion /\ o.version = store[o.key].version
    PROVE  OpKnown(o)' /\ OpExplained(o)'
  <1>1. /\ o.key \in Key /\ o.value \in Value /\ o.version \in Nat
        /\ o.Call \in Nat /\ o.Return \in Nat
    BY Zenon, OpFields
  <1>2. store[o.key].version \in Nat /\ o.Return <= store[o.key].version
    BY Zenon, <1>1 DEF TypeOK, CallTypeOK, StoreTypeOK, ValueVersion, OpKnown
  <1>3. OpKnown(o)'
    <2>1. store'[o.key].version \in Nat /\ store[o.key].version <= store'[o.key].version
      BY ZenonT(40), <1>1
    <2>2. o.Return <= store'[o.key].version
      BY <1>1, <1>2, <2>1
    <2> QED
      BY Zenon, <2>2 DEF OpKnown
  <1>4. CASE OpNoKey(o)
    BY Zenon, <1>3, <1>4 DEF OpNoKey, OpExplained
  <1>5. CASE OpInTime(o)
    BY Zenon, <1>3, <1>5 DEF OpInTime, OpExplained
  <1>6. CASE OpNotApplied(o)
    <2>1. CASE ~ Stored(o.value)'
      BY Zenon, <1>3, <1>6, <2>1 DEF OpNotApplied, OpExplained, Stored
    <2>2. CASE Stored(o.value)'
      <3>1. o.err = ErrMaybe /\ o.version = store[o.key].version
        BY Zenon, <1>6, <2>2 DEF OpNotApplied
      <3>2. o.version <= o.Call => o.version < o.Return
        BY Zenon, <3>1 DEF OpKnown
      <3>3. o.version > o.Call /\ o.version >= o.Return
        BY <1>1, <1>2, <3>1, <3>2
      <3> QED
        BY Zenon, <1>3, <2>2, <3>1, <3>3 DEF OpTooLate, OpExplained, Stored
    <2> QED
      BY Zenon, <2>1, <2>2
  <1>7. CASE OpTooLate(o)
    BY Zenon, <1>1, <1>3, <1>7 DEF OpTooLate, OpExplained, Stored
  <1> QED
    BY Zenon, <1>3, <1>4, <1>5, <1>6, <1>7 DEF OpExplained

(* A step that does not touch the histories or what has returned. *)
LEMMA QuietLog ==
    ASSUME ClerkInv, LogInv, UNCHANGED <<store, hist, oplog>>,
           \A v \in Value : outcome[v] \notin {"unused", "pending"} => outcome'[v] = outcome[v],
           \A r \in late' : r \notin late => outcome[r.value] = "pending"
    PROVE  LogInv'
  <1>1. TypeOK /\ StoreIsHistory /\ StoredOnce
    BY Zenon DEF ClerkInv
  <1>2. places' = places /\ \A v \in Value : Stored(v)' <=> Stored(v)
    BY Zenon, <1>1, HistoryKept
  <1>3. \A k \in Key : store'[k].version \in Nat /\ store[k].version <= store'[k].version
    <2>1. \A k \in Key : store[k].version \in Nat
      BY Zenon, <1>1 DEF TypeOK, CallTypeOK, StoreTypeOK, ValueVersion
    <2> QED
      BY <2>1
  <1>4. ASSUME NEW o \in oplog
        PROVE  OpKnown(o)' /\ OpExplained(o)'
    <2>1. o \in Operation /\ OpKnown(o) /\ OpExplained(o)
      BY Zenon DEF LogInv, OpLogTypeOK
    <2>2. o.value \in Value /\ outcome[o.value] \notin {"unused", "pending"}
      BY Zenon, <2>1, OpFields DEF OpKnown
    <2>3. \A r \in late' : r.value = o.value => r \in late
      BY Zenon, <2>2
    <2> QED
      BY Zenon, <1>1, <1>2, <1>3, <2>1, <2>2, <2>3, OpKept
  <1> QED
    BY Zenon, <1>4 DEF LogInv, OpLogTypeOK

(* The server applies a Put, in time or late. *)
LEMMA ServedLog ==
    ASSUME ClerkInv, LogInv, Record, UNCHANGED <<outcome, oplog>>, late' \subseteq late,
           NEW k \in Key, NEW v \in Value, NEW ver \in Nat, store' = PutStore(k, v, ver),
           outcome[v] # ErrVersion,
           \A o \in oplog : o.value = v => o.key = k /\ o.version = ver
    PROVE  LogInv'
  <1>1. TypeOK /\ StoreIsHistory
    BY Zenon DEF ClerkInv
  <1>2. /\ store' \in [Key -> ValueVersion]
        /\ \A j \in Key : store[j].version <= store'[j].version
        /\ places \subseteq places'
        /\ \A j \in Key : \A i \in Nat : \A u \in Value :
                <<j, i, u>> \in places' /\ <<j, i, u>> \notin places =>
                    /\ j = k /\ i = ver + 1 /\ u = v
                    /\ store[k].version = ver /\ PutErr(k, ver) = OK
    BY ZenonT(40), <1>1, PutEffect
  <1>3. \A j \in Key : store'[j].version \in Nat
    BY Zenon, <1>2 DEF ValueVersion
  <1>4. ASSUME NEW o \in oplog
        PROVE  OpKnown(o)' /\ OpExplained(o)'
    <2>1. o \in Operation /\ OpKnown(o) /\ OpExplained(o)
      BY Zenon DEF LogInv, OpLogTypeOK
    <2>2. o.value \in Value /\ outcome[o.value] = o.err
      BY Zenon, <2>1, OpFields DEF OpKnown
    <2>3. ASSUME Stored(o.value)', ~ Stored(o.value)
          PROVE  o.err # ErrVersion /\ o.version = store[o.key].version
      <3>1. PICK j \in Key, i \in Nat : <<j, i, o.value>> \in places'
        BY Zenon, <2>3 DEF Stored
      <3>2. o.value = v /\ store[k].version = ver
        BY Zenon, <1>2, <2>2, <2>3, <3>1 DEF Stored
      <3> QED
        BY Zenon, <2>2, <3>2
    <2> QED
      BY Zenon, <1>1, <1>2, <1>3, <2>1, <2>3, OpKept
  <1> QED
    BY Zenon, <1>4 DEF LogInv, OpLogTypeOK

LEMMA NetworkLog ==
    ASSUME ClerkInv, LogInv, NEW c \in Client, Network(c)
    PROVE  LogInv'
  <1>1. /\ CallStep(c) /\ Record /\ UNCHANGED <<outcome, oplog>>
        /\ TypeOK /\ CallsKnown
    BY Zenon DEF Network, ClerkInv
  <1>2. ASSUME store' = store, late' = late
        PROVE  LogInv'
    BY ZenonT(40), <1>1, <1>2, RecordNothing, QuietLog
  <1>3. CASE ServePut(c)
    <2>1. /\ Putting(c) /\ call[c].key \in Key /\ call[c].value \in Value
          /\ call[c].version \in Nat /\ outcome[call[c].value] = "pending"
      BY Zenon, <1>1, <1>3, Fields DEF ServePut, Putting, CallsKnown
    <2>2. \A o \in oplog : o.value # call[c].value
      <3>1. ASSUME NEW o \in oplog
            PROVE  o.value # call[c].value
        <4>1. o \in Operation /\ outcome[o.value] = o.err
          BY Zenon DEF LogInv, OpLogTypeOK, OpKnown
        <4> QED
          BY Zenon, <2>1, <4>1, OpFields
      <3> QED
        BY Zenon, <3>1
    <2>3. /\ store' = PutStore(call[c].key, call[c].value, call[c].version)
          /\ late' \subseteq late
      BY Zenon, <1>3 DEF ServePut
    <2> QED
      BY <1>1, <2>1, <2>2, <2>3, ServedLog DEF ErrVersion
  <1>4. CASE GiveUp(c)
    <2>1. Putting(c) /\ outcome[call[c].value] = "pending"
      BY Zenon, <1>1, <1>4 DEF GiveUp, Putting, CallsKnown
    <2>2. \A r \in late' : r \notin late => outcome[r.value] = "pending"
      BY <1>4, <2>1 DEF GiveUp
    <2>3. store' = store /\ hist' = hist
      BY ZenonT(40), <1>1, <1>4, RecordNothing DEF GiveUp, Resend
    <2> QED
      BY Zenon, <1>1, <2>2, <2>3, QuietLog
  <1> QED
    BY Zenon, <1>1, <1>2, <1>3, <1>4
    DEF CallStep, ServeGet, LoseRequest, LoseReply, Resend

LEMMA LateLog ==
    ASSUME ClerkInv, LogInv, Late
    PROVE  LogInv'
  <1>1. PICK r \in late : ServeLate(r)
    BY Zenon DEF Late
  <1>2. Record /\ UNCHANGED <<outcome, oplog>> /\ TypeOK /\ LateKnown
    BY Zenon DEF Late, ClerkInv
  <1>3. /\ r.key \in Key /\ r.value \in Value /\ r.version \in Nat
        /\ outcome[r.value] # ErrVersion
    BY Zenon, <1>2, LateFields DEF LateKnown
  <1>4. \A o \in oplog : o.value = r.value => o.key = r.key /\ o.version = r.version
    BY Zenon DEF LogInv, OpKnown
  <1>5. store' = PutStore(r.key, r.value, r.version) /\ late' \subseteq late
    BY Zenon, <1>1 DEF ServeLate
  <1> QED
    BY <1>2, <1>3, <1>4, <1>5, ServedLog

LEMMA AppGetLog ==
    ASSUME ClerkInv, LogInv, NEW c \in Client, NEW k \in Key, AppGet(c, k)
    PROVE  LogInv'
  BY Zenon, QuietLog DEF AppGet, Get

LEMMA AppPutLog ==
    ASSUME ClerkInv, LogInv, NEW c \in Client, NEW k \in Key, NEW v \in Value, NEW ver,
           AppPut(c, k, v, ver)
    PROVE  LogInv'
  <1>1. UNCHANGED <<store, hist, late, oplog>>
    BY Zenon DEF AppPut, Put
  <1>2. \A u \in Value : outcome[u] # "unused" => outcome'[u] = outcome[u]
    BY Zenon DEF AppPut, ClerkInv, TypeOK
  <1> QED
    BY Zenon, <1>1, <1>2, QuietLog

LEMMA GetDoneLog ==
    ASSUME ClerkInv, LogInv, NEW c \in Client, GetDone(c)
    PROVE  LogInv'
  BY Zenon, QuietLog DEF GetDone, Return

(* The Put that returns is explained by its reply. *)
LEMMA PutDoneLog ==
    ASSUME ClerkInv, LogInv, NEW c \in Client, PutDone(c)
    PROVE  LogInv'
  <1> PICK o, k, v, ver : /\ o = Logged(c)
                          /\ k = call[c].key /\ v = call[c].value /\ ver = call[c].version
    BY Zenon
  <1>1. /\ TypeOK /\ StoreIsHistory /\ StoredOnce /\ CallsKnown /\ LateKnown /\ Replies
        /\ PutReturns(c)
    BY Zenon DEF ClerkInv, PutDone
  <1>2. /\ Putting(c) /\ net[c].at = "reply" /\ net[c].err \in ServerErr
        /\ k \in Key /\ v \in Value /\ ver \in Nat /\ call[c].retry \in BOOLEAN
        /\ start[c] \in Nat /\ store[k].version \in Nat
    BY Zenon, <1>1, Fields DEF PutReturns, Putting
  <1>3. /\ UNCHANGED <<store, hist, late>>
        /\ oplog' = oplog \union {o}
        /\ outcome' = [outcome EXCEPT ![v] = PutResult(c)]
    BY Zenon DEF PutDone, Return
  <1>4. /\ outcome'[v] = PutResult(c)
        /\ \A u \in Value : u # v => outcome'[u] = outcome[u]
    BY Zenon, <1>1, <1>2, <1>3 DEF TypeOK
  <1>5. places' = places /\ \A u \in Value : Stored(u)' <=> Stored(u)
    BY ZenonT(40), <1>1, <1>3, HistoryKept
  <1>6. \A j \in Key : store'[j].version \in Nat /\ store[j].version <= store'[j].version
    <2>1. \A j \in Key : store[j].version \in Nat
      BY ZenonT(40), <1>1 DEF TypeOK, CallTypeOK, StoreTypeOK, ValueVersion
    <2> QED
      BY <1>3, <2>1
  <1>7. /\ o.key = k /\ o.value = v /\ o.version = ver /\ o.err = PutResult(c)
        /\ o.Call = start[c] /\ o.Return = store[k].version
    BY DEF Logged
  <1>8. o \in Operation
    <2>1. PutResult(c) \in ServerErr \union {ErrMaybe}
      BY Zenon, <1>2 DEF PutResult
    <2> QED
      BY Zenon, <1>2, <2>1 DEF Operation, Logged
  <1>9. ASSUME NEW p \in oplog
        PROVE  OpKnown(p)' /\ OpExplained(p)'
    <2>1. p \in Operation /\ OpKnown(p) /\ OpExplained(p)
      BY Zenon DEF LogInv, OpLogTypeOK
    <2>2. p.value \in Value /\ p.value # v
      BY Zenon, <1>1, <1>2, <2>1, OpFields DEF OpKnown, CallsKnown
    <2> QED
      BY ZenonT(40), <1>1, <1>3, <1>4, <1>5, <1>6, <2>1, <2>2, OpKept
  <1>10. Len(hist[k]) = store[k].version
    BY Zenon, <1>1, <1>2 DEF StoreIsHistory
  <1>11. OpKnown(o)'
    <2>1. o.Return <= store'[k].version
      BY ZenonT(40), <1>2, <1>3, <1>6, <1>7
    <2>2. ASSUME PutResult(c) = ErrMaybe, ver <= start[c]
          PROVE  ver < store[k].version
      <3>1. net[c].err = ErrVersion
        BY Zenon, <1>2, <2>2 DEF PutResult, ServerErr, OK, ErrNoKey, ErrVersion, ErrMaybe
      <3>2. PICK n \in Nat : start[c] <= n /\ n <= store[k].version /\ n # ver
        BY Zenon, <1>1, <1>2, <3>1 DEF Replies, PutReplyTrue, Putting
      <3> QED
        BY <1>2, <2>2, <3>2
    <2>3. \A r \in late : r.value = v => r.key = k /\ r.version = ver
      BY Zenon, <1>1, <1>2 DEF LateKnown
    <2> QED
      BY Zenon, <1>3, <1>4, <1>7, <2>1, <2>2, <2>3 DEF OpKnown
  <1>12. Applied(v) <=> Stored(v)'
    BY Zenon, <1>1, <1>2, <1>5, AppliedMeans
  <1>13. \/ /\ PutResult(c) = ErrNoKey
            /\ start[c] = 0 /\ ver # 0
         \/ /\ PutResult(c) \in {OK, ErrMaybe}
            /\ Applied(v)
            /\ start[c] <= ver
            /\ ver + 1 <= Len(hist[k])
            /\ hist[k][ver + 1] = v
         \/ /\ PutResult(c) \in {ErrVersion, ErrMaybe}
            /\ ~ Applied(v)
            /\ \E n \in Nat : start[c] <= n /\ n <= Len(hist[k]) /\ n # ver
    BY Zenon, <1>1, PutMoment
  <1>14. OpExplained(o)'
    <2>1. CASE PutResult(c) = ErrNoKey /\ start[c] = 0 /\ ver # 0
      BY Zenon, <1>7, <2>1 DEF OpNoKey, OpExplained
    <2>2. CASE /\ PutResult(c) \in {OK, ErrMaybe}
               /\ start[c] <= ver /\ ver + 1 <= Len(hist[k]) /\ hist[k][ver + 1] = v
      <3>1. ver < store[k].version /\ ver + 1 \in Nat /\ ver + 1 \in 1 .. Len(hist[k])
        BY SMTT(30), <1>2, <1>10, <2>2
      <3>2. <<k, ver + 1, v>> \in places
        BY Zenon, <1>2, <2>2, <3>1, PlaceMeans
      <3> QED
        BY ZenonT(40), <1>5, <1>7, <2>2, <3>1, <3>2 DEF OpInTime, OpExplained
    <2>3. CASE /\ PutResult(c) \in {ErrVersion, ErrMaybe}
               /\ ~ Applied(v)
               /\ \E n \in Nat : start[c] <= n /\ n <= Len(hist[k]) /\ n # ver
      <3> QED
        BY Zenon, <1>7, <1>10, <1>12, <2>3 DEF OpNotApplied, OpExplained, Stored
    <2> QED
      BY Zenon, <1>13, <2>1, <2>2, <2>3
  <1>15. oplog' \in SUBSET Operation
    BY Zenon, <1>3, <1>8 DEF LogInv, OpLogTypeOK
  <1> QED
    BY Zenon, <1>3, <1>9, <1>11, <1>14, <1>15 DEF LogInv, OpLogTypeOK

LEMMA InitLog == Init => LogInv
  BY Zenon DEF Init, LogInv, OpLogTypeOK

LEMMA StepLog == ClerkInv /\ LogInv /\ [Next]_vars => LogInv'
  <1> SUFFICES ASSUME ClerkInv, LogInv, [Next]_vars
               PROVE  LogInv'
    BY Zenon
  <1>1. CASE UNCHANGED vars
    BY Zenon, <1>1, QuietLog DEF vars, callVars, historyVars
  <1> QED
    BY Zenon, <1>1, AppGetLog, AppPutLog, NetworkLog, LateLog, GetDoneLog, PutDoneLog DEF Next

(* What the sequential model does with a Put. *)
LEMMA ModelPut ==
    ASSUME NEW o, NEW n
    PROVE  /\ Entry(o.key, n).version = o.version =>
                /\ o.err \in {OK, ErrMaybe} => PutStep(o, n).ok
                /\ PutStep(o, n).state =
                        [value |-> o.value, version |-> Entry(o.key, n).version + 1]
           /\ Entry(o.key, n).version # o.version =>
                /\ o.err \in {ErrVersion, ErrMaybe} => PutStep(o, n).ok
                /\ PutStep(o, n).state = Entry(o.key, n)
  <1> DEFINE st == Entry(o.key, n)
             inp == [op |-> "Put", value |-> o.value, version |-> o.version]
             out == [err |-> o.err]
  <1>1. inp.op = "Put" /\ inp.value = o.value /\ inp.version = o.version /\ out.err = o.err
    OBVIOUS
  <1>2. PutStep(o, n) = Model!Step(st, inp, out)
    BY Zenon DEF PutStep
  <1> HIDE DEF st, inp, out
  <1>3. CASE st.version = o.version
    <2>1. PutStep(o, n) = [ok |-> out.err \in {"OK", "ErrMaybe"},
                           state |-> [value |-> inp.value, version |-> st.version + 1]]
      BY Zenon, <1>1, <1>2, <1>3 DEF Model!Step
    <2>2. /\ PutStep(o, n).ok = (out.err \in {"OK", "ErrMaybe"})
          /\ PutStep(o, n).state = [value |-> inp.value, version |-> st.version + 1]
      BY <2>1
    <2> QED
      BY Zenon, <1>1, <1>3, <2>2 DEF st, OK, ErrMaybe
  <1>4. CASE st.version # o.version
    <2>1. PutStep(o, n) = [ok |-> out.err \in {"ErrVersion", "ErrMaybe"}, state |-> st]
      BY Zenon, <1>1, <1>2, <1>4 DEF Model!Step
    <2>2. /\ PutStep(o, n).ok = (out.err \in {"ErrVersion", "ErrMaybe"})
          /\ PutStep(o, n).state = st
      BY <2>1
    <2> QED
      BY Zenon, <1>1, <1>4, <2>2 DEF st, ErrVersion, ErrMaybe
  <1> QED
    BY Zenon, <1>3, <1>4

(* The explanation of an operation, in the sequential model. *)
LEMMA ExplainedOp ==
    ASSUME ClerkInv, NEW o \in Operation, OpKnown(o), OpExplained(o)
    PROVE  PutExplained(o) \/ NotStored(o) \/ AppliedLate(o)
  <1>1. /\ o.key \in Key /\ o.value \in Value /\ o.version \in Nat
        /\ o.Call \in Nat /\ o.Return \in Nat
    BY Zenon, OpFields
  <1>2. Applied(o.value) <=> Stored(o.value)
    BY Zenon, <1>1, AppliedMeans DEF ClerkInv
  <1>3. CASE OpNoKey(o)
    BY Zenon, <1>3 DEF OpNoKey, NotStored
  <1>4. CASE OpTooLate(o)
    BY Zenon, <1>2, <1>4 DEF OpTooLate, AppliedLate
  <1>5. CASE OpInTime(o)
    <2>1. o.version \in o.Call .. o.Return /\ o.version < o.Return /\ o.version + 1 \in Nat
      BY <1>1, <1>5 DEF OpInTime
    <2>2. Applied(o.value) /\ hist[o.key][o.version + 1] = o.value
      <3>1. <<o.key, o.version + 1, o.value>> \in places
        BY Zenon, <1>5 DEF OpInTime
      <3>2. Applied(o.value)
        BY Zenon, <1>1, <1>2, <2>1, <3>1 DEF Stored
      <3> QED
        BY Zenon, <3>1, <3>2 DEF places
    <2>3. Entry(o.key, o.version).version = o.version
      BY Zenon, <1>1, EntryIs
    <2>4. Entry(o.key, o.version + 1) = [value |-> o.value, version |-> o.version + 1]
      BY <1>1, <2>2, EntryIs
    <2>5. /\ PutStep(o, o.version).ok
          /\ PutStep(o, o.version).state = [value |-> o.value, version |-> o.version + 1]
      <3>1. o.err \in {OK, ErrMaybe}
        BY Zenon, <1>5 DEF OpInTime
      <3>2. /\ PutStep(o, o.version).ok
            /\ PutStep(o, o.version).state =
                    [value |-> o.value, version |-> Entry(o.key, o.version).version + 1]
        BY ZenonT(40), <2>3, <3>1, ModelPut
      <3> QED
        BY Zenon, <2>3, <3>2
    <2> QED
      BY Zenon, <2>1, <2>2, <2>4, <2>5 DEF PutExplained
  <1>6. CASE OpNotApplied(o)
    <2>1. PICK n \in Nat : o.Call <= n /\ n <= o.Return /\ n # o.version
      BY Zenon, <1>6 DEF OpNotApplied
    <2>2. n \in o.Call .. o.Return
      BY <1>1, <2>1
    <2>3. Entry(o.key, n).version = n
      BY Zenon, <1>1, EntryIs
    <2>4. PutStep(o, n).ok /\ PutStep(o, n).state = Entry(o.key, n)
      BY Zenon, <1>6, <2>1, <2>3, ModelPut DEF OpNotApplied
    <2>5. ~ Applied(o.value)
      BY Zenon, <1>2, <1>6 DEF OpNotApplied
    <2> QED
      BY Zenon, <2>2, <2>4, <2>5 DEF PutExplained
  <1> QED
    BY Zenon, <1>3, <1>4, <1>5, <1>6 DEF OpExplained

LEMMA InvLinearizable == ClerkInv /\ LogInv => Linearizable
  <1> SUFFICES ASSUME ClerkInv, LogInv
               PROVE  Linearizable
    BY Zenon
  <1>1. \A o \in oplog : PutExplained(o) \/ NotStored(o) \/ AppliedLate(o)
    BY Zenon, ExplainedOp DEF LogInv, OpLogTypeOK
  <1> QED
    BY Zenon, <1>1, InvGetExplained DEF Linearizable

-----------------------------------------------------------------------------
(***************************************************************************)
(* The clients of kvtest.go.  TestInv is inductive together with ClerkInv, *)
(* which says that a value in use is not given to another Put.             *)
(***************************************************************************)

(* The values that the store, the network and the clients hold are in use. *)
LEMMA UsedValues ==
    ASSUME ClerkInv
    PROVE  /\ \A k \in Key : Present(k) =>
                store[k].value \in Value /\ outcome[store[k].value] # "unused"
           /\ \A r \in late : r.value \in Value /\ outcome[r.value] # "unused"
           /\ \A c \in Client : call[c].op = "Put" =>
                call[c].value \in Value /\ outcome[call[c].value] # "unused"
           /\ \A c \in Client : net[c].at = "reply" /\ call[c].op = "Get" /\ net[c].err = OK =>
                /\ net[c].value \in Value /\ outcome[net[c].value] # "unused"
                /\ net[c].version <= store[call[c].key].version
  <1>1. /\ TypeOK /\ StoreIsHistory /\ CallsKnown /\ LateKnown /\ Replies /\ Outcomes
    BY Zenon DEF ClerkInv
  <1>2. \A k \in Key : \A i \in Nat : \A v : <<k, i, v>> \in places =>
            v \in Value /\ outcome[v] # "unused"
    <2>1. \A k \in Key : \A i \in Nat : \A v : <<k, i, v>> \in places => v \in Value
      BY Zenon DEF places
    <2> QED
      BY Zenon, <1>1, <2>1 DEF Outcomes, Stored
  <1>3. ASSUME NEW k \in Key, Present(k)
        PROVE  store[k].value \in Value /\ outcome[store[k].value] # "unused"
    <2>1. store[k].version \in Nat
      BY Zenon, <1>1 DEF TypeOK, CallTypeOK, StoreTypeOK, ValueVersion
    <2> QED
      BY Zenon, <1>1, <1>2, <1>3, <2>1 DEF StoreIsHistory, Present
  <1>4. \A r \in late : r.value \in Value /\ outcome[r.value] # "unused"
    BY Zenon, <1>1, LateFields DEF LateKnown
  <1>5. \A c \in Client : call[c].op = "Put" =>
            call[c].value \in Value /\ outcome[call[c].value] # "unused"
    BY Zenon, <1>1, Fields DEF CallsKnown, Putting
  <1>6. ASSUME NEW c \in Client, net[c].at = "reply", call[c].op = "Get", net[c].err = OK
        PROVE  /\ net[c].value \in Value /\ outcome[net[c].value] # "unused"
               /\ net[c].version <= store[call[c].key].version
    <2>1. GetReplyTrue(c) /\ net[c].version \in Nat /\ call[c].key \in Key
      BY ZenonT(40), <1>1, <1>6, Fields DEF Replies
    <2>2. net[c].version > 0
      BY <1>6, <2>1 DEF GetReplyTrue, OK, ErrNoKey
    <2> QED
      BY Zenon, <1>2, <2>1, <2>2 DEF GetReplyTrue
  <1> QED
    BY Zenon, <1>3, <1>4, <1>5, <1>6

(* A clerk between two operations has nothing in the network. *)
LEMMA QuietAt ==
    ASSUME NEW c
    PROVE  /\ Quiet(c) => net[c].at = "none" /\ net[c] # Sent
           /\ net'[c] = Idle => net'[c].at = "none" /\ Quiet(c)'
           /\ net[c] = Sent => net[c].at = "request" /\ net[c] # Idle
           /\ net'[c] = Sent => net'[c].at = "request"
  BY SMTT(30) DEF Quiet, Idle, Sent

(* What the clients' proofs need of the types. *)
LEMMA TestFields ==
    ASSUME TypeOK, TestTypeOK, NEW c \in Client
    PROVE  /\ client[c].verm \in [Key -> Nat]
           /\ client[c].err \in {OK, ErrVersion, ErrMaybe, ErrNoKey}
           /\ client[c].at \in {"loop", "put", "get", "again", "fatal", "done"}
           /\ \A k \in Key : client[c].verm[k] \in Nat /\ store[k].version \in Nat
           /\ \A v \in Value : entry[v].V \in Nat
  BY Fields DEF TestTypeOK, ClientState

(* A client that does nothing, while the versions grow and used values stay. *)
LEMMA ClientKept ==
    ASSUME ClerkInv, TypeOK', TestTypeOK, NEW d \in Client, ClientTrue(d),
           client'[d] = client[d], call'[d] = call[d], net'[d] = net[d],
           \A k \in Key : store[k].version <= store'[k].version,
           \A v \in Value : outcome[v] # "unused" => entry'[v] = entry[v]
    PROVE  ClientTrue(d)'
  <1>0. TypeOK /\ (\A k \in Key : store[k].version \in Nat /\ store'[k].version \in Nat)
    BY ZenonT(40) DEF ClerkInv, TypeOK, CallTypeOK, StoreTypeOK, ValueVersion
  <1>1. \A k \in Key : client[d].verm[k] \in Nat /\ (Present(k) => Present(k)')
    BY SMTT(30), <1>0, TestFields DEF Present
  <1>2. \A k \in Key : client'[d].verm[k] <= store'[k].version
    BY <1>0, <1>1 DEF ClientTrue
  <1>3. ASSUME PutTrue(d)
        PROVE  PutTrue(d)'
    <2>1. entry'[call[d].value] = entry[call[d].value]
      BY Zenon, <1>3, UsedValues DEF PutTrue
    <2> QED
      BY Zenon, <1>1, <1>3, <2>1 DEF PutTrue
  <1>4. ASSUME GetTrue(d)
        PROVE  GetTrue(d)'
    <2>1. ASSUME net[d].at = "reply"
          PROVE  entry'[net[d].value] = entry[net[d].value] /\ net[d].version \in Nat
      <3>1. call[d].op = "Get" /\ call[d].key = client[d].key
        BY ZenonT(40), <1>4, <2>1, QuietAt DEF GetTrue
      <3> QED
        BY Zenon, <1>0, <1>4, <2>1, <3>1, UsedValues, Fields DEF GetTrue
    <2>2. net[d].at = "reply" => net'[d].version <= store'[client[d].key].version
      BY <1>0, <1>4, <2>1 DEF GetTrue
    <2> QED
      BY Zenon, <1>1, <1>4, <2>1, <2>2 DEF GetTrue, Quiet
  <1> QED
    BY Zenon, <1>2, <1>3, <1>4 DEF ClientTrue

(* The server applies, or refuses, a Put whose value encodes its version. *)
LEMMA PutEntries ==
    ASSUME TypeOK, TestTypeOK, EntriesTrue,
           NEW k \in Key, NEW v \in Value, NEW ver \in Nat, entry[v].V = ver,
           store' = PutStore(k, v, ver), entry' = entry
    PROVE  /\ \A j \in Key : store[j].version <= store'[j].version
           /\ \A j \in Key : Present(j)' => entry'[store'[j].value].V + 1 = store'[j].version
  <1>0. store \in [Key -> ValueVersion] /\ \A j \in Key : store[j].version \in Nat
    BY Zenon DEF TypeOK, CallTypeOK, StoreTypeOK, ValueVersion
  <1>1. CASE PutErr(k, ver) = OK
    <2>1. /\ store'[k] = [value |-> v, version |-> ver + 1]
          /\ \A j \in Key : j # k => store'[j] = store[j]
      BY ZenonT(40), <1>0, <1>1 DEF PutStore
    <2>2. store[k].version <= ver
      BY <1>0, <1>1 DEF PutErr, Present, OK, ErrVersion, ErrNoKey
    <2>3. ASSUME NEW j \in Key
          PROVE  /\ store[j].version <= store'[j].version
                 /\ Present(j)' => entry'[store'[j].value].V + 1 = store'[j].version
      <3>1. CASE j = k
        BY SMTT(30), <1>0, <2>1, <2>2, <3>1
      <3>2. CASE j # k
        BY SMTT(30), <1>0, <2>1, <3>2 DEF EntriesTrue, Present
      <3> QED
        BY ZenonT(40), <3>1, <3>2
    <2> QED
      BY Zenon, <2>3
  <1>2. CASE PutErr(k, ver) # OK
    BY <1>0, <1>2 DEF PutStore, EntriesTrue, Present
  <1> QED
    BY Zenon, <1>1, <1>2

(* The network's and the server's steps of the calls that the clients make. *)
LEMMA NetworkTest ==
    ASSUME ClerkInv, ClerkInv', TestTypeOK, EntriesTrue, \A d \in Client : ClientTrue(d),
           NEW c \in Client, Network(c), UNCHANGED <<client, entry>>
    PROVE  EntriesTrue' /\ \A d \in Client : ClientTrue(d)'
  <1>0. TypeOK /\ TypeOK' /\ ClientTrue(c) /\ (\A k \in Key : store[k].version \in Nat)
    BY Zenon DEF ClerkInv, TypeOK, CallTypeOK, StoreTypeOK, ValueVersion
  <1>1. /\ call \in [Client -> {NoCall} \union GetCall \union PutCall]
        /\ net \in [Client -> NetState]
    BY Zenon, <1>0 DEF TypeOK, CallTypeOK
  <1>2. ASSUME \A k \in Key : store[k].version <= store'[k].version,
               \A d \in Client : d # c => call'[d] = call[d] /\ net'[d] = net[d],
               ClientTrue(c)'
        PROVE  \A d \in Client : ClientTrue(d)'
    <2>1. \A d \in Client : d # c => ClientTrue(d)'
      BY ZenonT(40), <1>0, <1>2, ClientKept
    <2> QED
      BY Zenon, <1>2, <2>1
  <1>3. CASE ServeGet(c)
    <2>1. /\ net[c] = Sent /\ call[c].op = "Get" /\ net' = [net EXCEPT ![c] = Got(GetReply(call[c].key))]
          /\ UNCHANGED <<store, call, late>>
      BY ZenonT(40), <1>3 DEF ServeGet
    <2>2. /\ client[c].at = "get" /\ GetTrue(c)
      <3>1. client[c].at # "put"
        BY Zenon, <1>0, <2>1, QuietAt DEF ClientTrue, PutTrue
      <3> QED
        BY Zenon, <1>0, <2>1, <3>1, QuietAt DEF ClientTrue
    <2>3. call[c].key = client[c].key /\ Present(client[c].key) /\ client[c].key \in Key
      BY Zenon, <2>1, <2>2 DEF GetTrue, Quiet, Sent, Idle
    <2>4. net'[c] = Got(GetReply(client[c].key)) /\ \A d \in Client : d # c => net'[d] = net[d]
      BY ZenonT(40), <1>1, <2>1, <2>3
    <2>5. /\ net'[c].at = "reply" /\ net'[c].err = OK
          /\ net'[c].version = store[client[c].key].version
          /\ net'[c].value = store[client[c].key].value
      BY <2>3, <2>4 DEF Got, GetReply
    <2>6. GetTrue(c)'
      <3>1. entry'[net'[c].value].V + 1 = net'[c].version /\ net'[c].version <= store'[client[c].key].version
        BY <1>0, <2>1, <2>3, <2>5 DEF EntriesTrue
      <3> QED
        BY ZenonT(40), <2>1, <2>2, <2>3, <2>5, <3>1 DEF GetTrue, Present
    <2>7. ClientTrue(c)'
      BY Zenon, <1>0, <2>1, <2>2, <2>6 DEF ClientTrue
    <2>8. EntriesTrue'
      BY Zenon, <2>1 DEF EntriesTrue, Present
    <2>9. \A j \in Key : store[j].version <= store'[j].version
      BY <1>0, <2>1
    <2> QED
      BY Zenon, <1>2, <2>1, <2>4, <2>7, <2>8, <2>9
  <1>4. CASE ServePut(c)
    <2> DEFINE k == client[c].key
    <2>1. /\ net[c] = Sent /\ call[c].op = "Put"
          /\ net' = [net EXCEPT ![c] = Got([err |-> PutErr(call[c].key, call[c].version),
                                            value |-> NoValue, version |-> 0])]
          /\ store' = PutStore(call[c].key, call[c].value, call[c].version)
          /\ UNCHANGED <<call, late>>
      BY Zenon, <1>4 DEF ServePut
    <2>2. client[c].at = "put" /\ PutTrue(c)
      <3>1. client[c].at # "get"
        BY Zenon, <1>0, <2>1, QuietAt DEF ClientTrue, GetTrue
      <3> QED
        BY Zenon, <1>0, <2>1, <3>1, QuietAt DEF ClientTrue
    <2>3. /\ k \in Key /\ call[c].key = k /\ call[c].value \in Value /\ call[c].version \in Nat
          /\ entry[call[c].value].V = call[c].version
          /\ call[c].version <= store[k].version
      BY Zenon, <1>0, <2>1, <2>2, Fields DEF PutTrue, Putting, ClientTrue
    <2>4. /\ \A j \in Key : store[j].version <= store'[j].version
          /\ \A j \in Key : Present(j)' => entry'[store'[j].value].V + 1 = store'[j].version
      BY Zenon, <1>0, <2>1, <2>3, PutEntries
    <2>5. EntriesTrue'
      BY Zenon, <2>1, <2>4 DEF EntriesTrue
    <2>6. /\ net'[c].at = "reply" /\ net'[c].err = PutErr(k, call[c].version)
          /\ \A d \in Client : d # c => net'[d] = net[d]
      BY ZenonT(40), <1>1, <2>1, <2>3 DEF Got
    <2>7. net'[c].err # ErrNoKey
      BY <1>0, <2>3, <2>6 DEF PutErr, Present, OK, ErrVersion, ErrNoKey
    <2>8. Present(k)'
      <3>1. CASE Present(k)
        BY SMTT(30), <1>0, <2>3, <2>4, <3>1 DEF Present, TypeOK, CallTypeOK, StoreTypeOK, ValueVersion
      <3>2. CASE ~Present(k)
        <4>1. PutErr(k, call[c].version) = OK
          BY <1>0, <2>3, <3>2 DEF PutErr, Present
        <4>2. store'[k].version = call[c].version + 1
          BY ZenonT(40), <1>0, <2>1, <2>3, <4>1 DEF PutStore, TypeOK, CallTypeOK, StoreTypeOK
        <4> QED
          BY SMTT(30), <2>3, <4>2 DEF Present
      <3> QED
        BY ZenonT(40), <3>1, <3>2
    <2>9. PutTrue(c)'
      BY ZenonT(40), <2>1, <2>2, <2>7, <2>8 DEF PutTrue
    <2>10. \A j \in Key : client'[c].verm[j] <= store'[j].version
      <3>1. \A j \in Key : client[c].verm[j] \in Nat /\ store'[j].version \in Nat
        BY Zenon, <1>0, TestFields DEF TypeOK, CallTypeOK, StoreTypeOK, ValueVersion
      <3> QED
        BY SMTT(30), <1>0, <2>4, <3>1 DEF ClientTrue
    <2>11. ClientTrue(c)'
      BY ZenonT(40), <2>2, <2>9, <2>10 DEF ClientTrue
    <2> QED
      BY ZenonT(40), <1>2, <2>1, <2>4, <2>5, <2>6, <2>11
  <1>5. CASE LoseRequest(c) \/ LoseReply(c) \/ GiveUp(c)
    <2>1. /\ net[c] # Idle
          /\ call' = [call EXCEPT ![c] = Retried(@)]
          /\ net' = [net EXCEPT ![c] = Sent]
          /\ UNCHANGED store
      BY <1>5 DEF LoseRequest, LoseReply, GiveUp, Resend, Sent, Idle
    <2>2. /\ call'[c] = Retried(call[c]) /\ net'[c] = Sent /\ net'[c].at = "request"
          /\ \A d \in Client : d # c => call'[d] = call[d] /\ net'[d] = net[d]
      BY Zenon, <1>1, <2>1 DEF Sent
    <2>3. client[c].at \in {"put", "get"}
      BY Zenon, <1>0, <2>1 DEF ClientTrue
    <2>4. /\ call[c].op = "Get" => call'[c] = call[c]
          /\ call[c].op = "Put" => /\ call'[c].op = "Put" /\ call'[c].key = call[c].key
                                   /\ call'[c].value = call[c].value
                                   /\ call'[c].version = call[c].version
      BY Zenon, <1>0, <2>2, CallFields DEF Retried, PutCall, TypeOK
    <2>5. PutTrue(c) => PutTrue(c)'
      BY Zenon, <2>1, <2>2, <2>4 DEF PutTrue, Present
    <2>6. GetTrue(c) => GetTrue(c)'
      BY Zenon, <2>1, <2>2, <2>4 DEF GetTrue, Present, Quiet
    <2>7. ClientTrue(c)'
      BY ZenonT(40), <1>0, <2>1, <2>3, <2>5, <2>6 DEF ClientTrue
    <2>8. EntriesTrue'
      <3>1. CASE late' = late
        BY ZenonT(40), <2>1, <3>1 DEF EntriesTrue, Present
      <3>2. CASE /\ call[c].op = "Put"
                 /\ late' = late \union {[key |-> call[c].key, value |-> call[c].value,
                                          version |-> call[c].version]}
        <4>1. PutTrue(c)
          BY Zenon, <1>0, <2>1, <2>3, <3>2 DEF ClientTrue, GetTrue, Quiet
        <4> QED
          BY <2>1, <3>2, <4>1 DEF EntriesTrue, Present, PutTrue
      <3> QED
        BY Zenon, <1>5, <3>1, <3>2 DEF LoseRequest, LoseReply, GiveUp
    <2>9. \A j \in Key : store[j].version <= store'[j].version
      BY <1>0, <2>1
    <2> QED
      BY Zenon, <1>2, <2>2, <2>7, <2>8, <2>9
  <1> QED
    BY Zenon, <1>3, <1>4, <1>5 DEF Network, CallStep

(* A Put that the server runs after its Call returned. *)
LEMMA LateTest ==
    ASSUME ClerkInv, ClerkInv', TestTypeOK, EntriesTrue, \A d \in Client : ClientTrue(d),
           Late, UNCHANGED <<client, entry>>
    PROVE  EntriesTrue' /\ \A d \in Client : ClientTrue(d)'
  <1>0. TypeOK /\ TypeOK'
    BY Zenon DEF ClerkInv
  <1>1. PICK r \in late : ServeLate(r)
    BY Zenon DEF Late
  <1>2. /\ store' = PutStore(r.key, r.value, r.version) /\ late' \subseteq late
        /\ UNCHANGED <<call, net>>
    BY Zenon, <1>1 DEF ServeLate
  <1>3. /\ r.key \in Key /\ r.value \in Value /\ r.version \in Nat
        /\ entry[r.value].V = r.version
    BY Zenon, <1>0, LateFields DEF EntriesTrue
  <1>4. /\ \A j \in Key : store[j].version <= store'[j].version
        /\ \A j \in Key : Present(j)' => entry'[store'[j].value].V + 1 = store'[j].version
    BY Zenon, <1>0, <1>2, <1>3, PutEntries
  <1>5. EntriesTrue'
    BY Zenon, <1>2, <1>4 DEF EntriesTrue
  <1>6. \A d \in Client : ClientTrue(d)'
    BY Zenon, <1>0, <1>2, <1>4, ClientKept
  <1> QED
    BY Zenon, <1>5, <1>6

(* A step of one client leaves the store and the late requests. *)
LEMMA ClientStep ==
    ASSUME ClerkInv, ClerkInv', TestTypeOK, EntriesTrue, \A d \in Client : ClientTrue(d),
           NEW c \in Client, UNCHANGED <<store, late>>,
           \A d \in Client : d # c => /\ client'[d] = client[d]
                                      /\ call'[d] = call[d] /\ net'[d] = net[d],
           \A v \in Value : outcome[v] # "unused" => entry'[v] = entry[v],
           \A k \in Key : client'[c].verm[k] <= store[k].version,
           client'[c].at = "put" => PutTrue(c)',
           client'[c].at = "get" => GetTrue(c)',
           client'[c].at \notin {"put", "get"} => net'[c] = Idle,
           client'[c].at = "again" => client'[c].key \in Key,
           client'[c].at # "fatal"
    PROVE  EntriesTrue' /\ \A d \in Client : ClientTrue(d)'
  <1>0. TypeOK /\ TypeOK' /\ \A k \in Key : store[k].version <= store'[k].version
    <2>1. TypeOK /\ TypeOK' /\ store' = store
      BY Zenon DEF ClerkInv
    <2> QED
      BY <2>1, Fields
  <1>1. \A d \in Client : d # c => ClientTrue(d)'
    BY Zenon, <1>0, ClientKept
  <1>2. ClientTrue(c)'
    BY ZenonT(40) DEF ClientTrue
  <1>3. EntriesTrue'
    BY UsedValues DEF EntriesTrue, Present
  <1> QED
    BY ZenonT(40), <1>1, <1>2, <1>3

(* OnePut begins a Put at the version it knows. *)
LEMMA OnePutTest ==
    ASSUME ClerkInv, TestTypeOK, EntriesTrue, \A d \in Client : ClientTrue(d),
           NEW c \in Client, NEW k \in Key, OnePut(c, k)
    PROVE  /\ ClerkInv'
           /\ test' = test => TestTypeOK'
           /\ EntriesTrue' /\ \A d \in Client : ClientTrue(d)'
  <1>0. TypeOK /\ ClientTrue(c) /\ client[c].verm[k] \in Nat
    BY Zenon, TestFields DEF ClerkInv
  <1>1. PICK v \in Value : /\ AppPut(c, k, v, client[c].verm[k])
                           /\ entry' = [entry EXCEPT ![v] = [Id |-> c, V |-> client[c].verm[k]]]
    BY Zenon DEF OnePut
  <1>2. client' = [client EXCEPT ![c].at = "put", ![c].key = k]
    BY Zenon DEF OnePut
  <1>3. ClerkInv'
    BY Zenon, <1>0, <1>1, AppPutInv
  <1>4. /\ outcome[v] = "unused" /\ UNCHANGED <<store, late>>
        /\ call' = [call EXCEPT ![c] = [op |-> "Put", key |-> k, value |-> v,
                                        version |-> client[c].verm[k], retry |-> FALSE]]
        /\ net' = [net EXCEPT ![c] = Sent]
    BY Zenon, <1>1 DEF AppPut, Put
  <1>5. /\ call'[c] = [op |-> "Put", key |-> k, value |-> v,
                       version |-> client[c].verm[k], retry |-> FALSE]
        /\ net'[c] = Sent /\ net'[c].at = "request"
        /\ \A d \in Client : d # c => call'[d] = call[d] /\ net'[d] = net[d]
    BY Zenon, <1>0, <1>4 DEF TypeOK, CallTypeOK, Sent
  <1>6. /\ client'[c].at = "put" /\ client'[c].key = k /\ client'[c].verm = client[c].verm
        /\ \A d \in Client : d # c => client'[d] = client[d]
    BY ZenonT(40), <1>2 DEF TestTypeOK, ClientState
  <1>7. /\ entry'[v].V = client[c].verm[k]
        /\ \A u \in Value : outcome[u] # "unused" => entry'[u] = entry[u]
    BY Zenon, <1>1, <1>4 DEF TestTypeOK
  <1>8. PutTrue(c)'
    BY <1>5, <1>6, <1>7 DEF PutTrue
  <1>9. \A j \in Key : client'[c].verm[j] <= store[j].version
    BY ZenonT(40), <1>0, <1>6 DEF ClientTrue
  <1>10. EntriesTrue' /\ \A d \in Client : ClientTrue(d)'
    <2>1. client'[c].at = "put" /\ client'[c].at \notin {"get", "again", "fatal"}
      BY Zenon, <1>6
    <2>2. \A d \in Client : d # c => /\ client'[d] = client[d]
                                     /\ call'[d] = call[d] /\ net'[d] = net[d]
      BY Zenon, <1>5, <1>6
    <2> QED
      BY ZenonT(40), <1>3, <1>4, <1>7, <1>8, <1>9, <2>1, <2>2, ClientStep
  <1>11. test' = test => TestTypeOK'
    <2>1. client'[c] \in ClientState
      BY ZenonT(40), <1>2 DEF TestTypeOK, ClientState
    <2>2. client' \in [Client -> ClientState]
      BY Zenon, <1>2, <2>1 DEF TestTypeOK
    <2>3. entry' \in [Value -> [Id : Client \union {NoValue}, V : Nat]]
      BY Zenon, <1>0, <1>1 DEF TestTypeOK
    <2> QED
      BY Zenon, <2>2, <2>3 DEF TestTypeOK
  <1> QED
    BY Zenon, <1>3, <1>10, <1>11

(* The Put returned; OnePut goes on to the Get. *)
LEMMA PutJsonTest ==
    ASSUME ClerkInv, TestTypeOK, EntriesTrue, \A d \in Client : ClientTrue(d),
           NEW c \in Client, PutJson(c)
    PROVE  /\ ClerkInv'
           /\ test' = test => TestTypeOK'
           /\ EntriesTrue' /\ \A d \in Client : ClientTrue(d)'
  <1>0. TypeOK /\ ClientTrue(c) /\ client[c].at = "put" /\ PutTrue(c)
    BY Zenon DEF ClerkInv, PutJson, ClientTrue
  <1>1. /\ PutReturns(c) /\ Return(c) /\ UNCHANGED entry
        /\ client' = [client EXCEPT ![c].err = PutResult(c),
                                    ![c].at = IF PutResult(c) \in {OK, ErrVersion, ErrMaybe}
                                              THEN "get" ELSE "fatal"]
    BY Zenon DEF PutJson, PutDone
  <1>2. ClerkInv'
    BY Zenon, PutDoneInv DEF PutJson
  <1>3. PutResult(c) \in {OK, ErrVersion, ErrMaybe} /\ Present(client[c].key)
    <2>1. net[c].err \in ServerErr /\ net[c].err # ErrNoKey
      BY Zenon, <1>0, <1>1, Fields DEF PutReturns, PutTrue
    <2> QED
      BY Zenon, <1>0, <1>1, <2>1 DEF PutReturns, PutTrue, PutResult, ServerErr
  <1>4. /\ client'[c].at = "get" /\ client'[c].err = PutResult(c)
        /\ client'[c].key = client[c].key /\ client'[c].verm = client[c].verm
        /\ \A d \in Client : d # c => client'[d] = client[d]
    BY ZenonT(40), <1>1, <1>3 DEF TestTypeOK, ClientState
  <1>5. /\ net'[c] = Idle /\ net'[c].at # "reply" /\ UNCHANGED <<store, late>>
        /\ \A d \in Client : d # c => call'[d] = call[d] /\ net'[d] = net[d]
    BY Zenon, <1>0, <1>1 DEF Return, TypeOK, CallTypeOK, Idle
  <1>6. GetTrue(c)'
    <2>1. Quiet(c)' /\ net'[c].at # "reply"
      BY Zenon, <1>5, QuietAt
    <2>2. IF call'[c].op = "Get" THEN call'[c].key = client'[c].key ELSE Quiet(c)'
      BY ZenonT(40), <1>0, <1>1, <1>4, <2>1 DEF Return, TypeOK, CallTypeOK, NoCall
    <2> QED
      BY ZenonT(40), <1>0, <1>3, <1>4, <1>5, <2>1, <2>2 DEF GetTrue, PutTrue, Present
  <1>7. \A j \in Key : client'[c].verm[j] <= store[j].version
    BY Zenon, <1>0, <1>4 DEF ClientTrue
  <1>8. EntriesTrue' /\ \A d \in Client : ClientTrue(d)'
    BY ZenonT(40), <1>1, <1>2, <1>4, <1>5, <1>6, <1>7, ClientStep
  <1>9. test' = test => TestTypeOK'
    <2>1. client'[c] \in ClientState
      BY ZenonT(40), <1>1, <1>3 DEF TestTypeOK, ClientState
    <2>2. client' \in [Client -> ClientState]
      BY Zenon, <1>1, <2>1 DEF TestTypeOK
    <2> QED
      BY Zenon, <1>1, <2>2 DEF TestTypeOK
  <1> QED
    BY Zenon, <1>2, <1>8, <1>9

(* The Get of OnePut begins. *)
LEMMA OnePutGetTest ==
    ASSUME ClerkInv, TestTypeOK, EntriesTrue, \A d \in Client : ClientTrue(d),
           NEW c \in Client, OnePutGet(c)
    PROVE  /\ ClerkInv'
           /\ test' = test => TestTypeOK'
           /\ EntriesTrue' /\ \A d \in Client : ClientTrue(d)'
  <1>0. TypeOK /\ ClientTrue(c) /\ client[c].at = "get" /\ GetTrue(c) /\ client[c].key \in Key
    BY Zenon DEF ClerkInv, OnePutGet, ClientTrue, GetTrue
  <1>1. AppGet(c, client[c].key) /\ UNCHANGED <<client, entry>>
    BY Zenon DEF OnePutGet
  <1>2. ClerkInv'
    BY Zenon, <1>0, <1>1, AppGetInv
  <1>3. /\ UNCHANGED <<store, late>>
        /\ call' = [call EXCEPT ![c] = [op |-> "Get", key |-> client[c].key]]
        /\ net' = [net EXCEPT ![c] = Sent]
    BY Zenon, <1>1 DEF AppGet, Get
  <1>4. /\ call'[c] = [op |-> "Get", key |-> client[c].key]
        /\ net'[c] = Sent /\ net'[c].at = "request"
        /\ \A d \in Client : d # c => call'[d] = call[d] /\ net'[d] = net[d]
    BY Zenon, <1>0, <1>3 DEF TypeOK, CallTypeOK, Sent
  <1>5. GetTrue(c)'
    <2>1. client' = client /\ entry' = entry /\ store' = store
      BY ZenonT(40), <1>1, <1>3
    <2>2. call'[c].op = "Get" /\ call'[c].key = client[c].key
      BY SMTT(30), <1>4
    <2>3. net'[c].at # "reply"
      BY <1>4
    <2>4. Present(client[c].key)'
      BY Zenon, <1>0, <2>1 DEF GetTrue, Present
    <2>5. client[c].key \in Key /\ client[c].err \in {OK, ErrVersion, ErrMaybe}
      BY Zenon, <1>0 DEF GetTrue
    <2> QED
      BY Zenon, <2>1, <2>2, <2>3, <2>4, <2>5 DEF GetTrue
  <1>6. \A j \in Key : client'[c].verm[j] <= store[j].version
    BY Zenon, <1>0, <1>1 DEF ClientTrue
  <1>7. EntriesTrue' /\ \A d \in Client : ClientTrue(d)'
    BY ZenonT(40), <1>0, <1>1, <1>2, <1>3, <1>4, <1>5, <1>6, ClientStep
  <1> QED
    BY Zenon, <1>1, <1>2, <1>7 DEF TestTypeOK

(* What OneClientPut counts. *)
LEMMA CountedIs ==
    ASSUME NEW c \in Client, client[c] \in ClientState, client[c].at = "get",
           client[c].err \in {OK, ErrVersion, ErrMaybe}
    PROVE  /\ Counted(c) \in ClientState /\ Counted(c).at \in {"loop", "again"}
           /\ Counted(c).verm = client[c].verm /\ Counted(c).key = client[c].key
           /\ Counted(c).Nok = client[c].Nok + Uncounted(c, OK)
           /\ Counted(c).Nmaybe = client[c].Nmaybe + Uncounted(c, ErrMaybe)
  <1>0. /\ client[c].Nok + 1 \in Nat /\ client[c].Nok + 0 = client[c].Nok
        /\ client[c].Nmaybe + 1 \in Nat /\ client[c].Nmaybe + 0 = client[c].Nmaybe
    BY DEF ClientState
  <1>1. /\ Uncounted(c, OK) = IF client[c].err = OK THEN 1 ELSE 0
        /\ Uncounted(c, ErrMaybe) = IF client[c].err = ErrMaybe THEN 1 ELSE 0
    BY Zenon DEF Uncounted
  <1>2. OK # ErrMaybe /\ OK # ErrVersion /\ ErrMaybe # ErrVersion
    BY DEF OK, ErrVersion, ErrMaybe
  <1>3. CASE client[c].err = OK
    <2>1. Counted(c) = [client[c] EXCEPT !.at = "loop", !.Nok = client[c].Nok + 1]
      BY Zenon, <1>2, <1>3 DEF Counted, ClientState
    <2>2. Uncounted(c, OK) = 1 /\ Uncounted(c, ErrMaybe) = 0
      BY Zenon, <1>1, <1>2, <1>3
    <2> QED
      BY ZenonT(40), <1>0, <2>1, <2>2 DEF ClientState
  <1>4. CASE client[c].err = ErrMaybe
    <2>1. Counted(c) = [client[c] EXCEPT !.at = "loop", !.Nmaybe = client[c].Nmaybe + 1]
      BY Zenon, <1>2, <1>4 DEF Counted, ClientState
    <2>2. Uncounted(c, OK) = 0 /\ Uncounted(c, ErrMaybe) = 1
      BY Zenon, <1>1, <1>2, <1>4
    <2> QED
      BY ZenonT(40), <1>0, <2>1, <2>2 DEF ClientState
  <1>5. CASE client[c].err = ErrVersion
    <2>1. Counted(c) = [client[c] EXCEPT !.at = "again"]
      BY Zenon, <1>2, <1>5 DEF Counted
    <2>2. Uncounted(c, OK) = 0 /\ Uncounted(c, ErrMaybe) = 0
      BY Zenon, <1>1, <1>2, <1>5
    <2> QED
      BY ZenonT(40), <1>0, <2>1, <2>2 DEF ClientState
  <1> QED
    BY Zenon, <1>3, <1>4, <1>5

(* The Get returned: the key is there, and at the version after the client's *)
(* own the entry says the client's own, so nothing is fatal.                 *)
LEMMA GetJsonIs ==
    ASSUME ClerkInv, TestTypeOK, NEW c \in Client, ClientTrue(c), GetJson(c)
    PROVE  /\ client[c].at = "get" /\ client[c].err \in {OK, ErrVersion, ErrMaybe}
           /\ client[c].key \in Key /\ net[c].version \in Nat
           /\ net[c].version <= store[client[c].key].version
           /\ client' = [client EXCEPT ![c] =
                            [Counted(c) EXCEPT !.verm[client[c].key] = net[c].version]]
  <1> DEFINE k == client[c].key
  <1>0. TypeOK /\ client[c].at = "get" /\ GetTrue(c) /\ k \in Key
    BY Zenon DEF ClerkInv, GetJson, ClientTrue, GetTrue
  <1>1. /\ GetReturns(c)
        /\ client' = [client EXCEPT ![c] =
                        IF net[c].err # OK \/ WrongValue(c)
                        THEN [@ EXCEPT !.at = "fatal"]
                        ELSE [Counted(c) EXCEPT !.verm[client[c].key] = net[c].version]]
    BY Zenon DEF GetJson, GetDone
  <1>2. /\ net[c].err = OK /\ entry[net[c].value].V + 1 = net[c].version
        /\ net[c].version <= store[k].version /\ net[c].version \in Nat
        /\ net[c].value \in Value /\ entry[net[c].value].V \in Nat
    <2>1. net[c].at = "reply" /\ call[c].op = "Get"
      BY Zenon, <1>1 DEF GetReturns
    <2>2. net[c].err = OK /\ entry[net[c].value].V + 1 = net[c].version
            /\ net[c].version <= store[k].version
      BY ZenonT(40), <1>0, <2>1 DEF GetTrue
    <2> QED
      BY Zenon, <1>0, <2>1, <2>2, UsedValues, Fields, TestFields
  <1>3. ~WrongValue(c)
    <2>1. client[c].verm[k] \in Nat
      BY Zenon, <1>0, TestFields
    <2> QED
      BY <1>2, <2>1 DEF WrongValue
  <1>4. client[c].err \in {OK, ErrVersion, ErrMaybe}
    BY ZenonT(40), <1>0 DEF GetTrue
  <1> QED
    BY ZenonT(40), <1>0, <1>1, <1>2, <1>3, <1>4

(* The client goes on to its next OnePut, or repeats this one. *)
LEMMA GetJsonTest ==
    ASSUME ClerkInv, TestTypeOK, EntriesTrue, \A d \in Client : ClientTrue(d),
           NEW c \in Client, GetJson(c)
    PROVE  /\ ClerkInv'
           /\ test' = test => TestTypeOK'
           /\ EntriesTrue' /\ \A d \in Client : ClientTrue(d)'
  <1> DEFINE k == client[c].key
  <1>0. TypeOK /\ ClientTrue(c) /\ client[c].at = "get" /\ GetTrue(c) /\ k \in Key
    BY Zenon DEF ClerkInv, GetJson, ClientTrue, GetTrue
  <1>1. Return(c) /\ UNCHANGED entry
    BY Zenon DEF GetJson, GetDone
  <1>2. ClerkInv'
    BY Zenon, GetDoneInv DEF GetJson
  <1>3. net[c].version \in Nat /\ net[c].version <= store[k].version
    BY Zenon, <1>0, GetJsonIs
  <1>4. client[c] \in ClientState /\ client[c].err \in {OK, ErrVersion, ErrMaybe}
    BY Zenon, <1>0 DEF TestTypeOK, GetTrue
  <1>5. /\ Counted(c) \in ClientState /\ Counted(c).at \in {"loop", "again"}
        /\ Counted(c).verm = client[c].verm /\ Counted(c).key = k
    BY Zenon, <1>0, <1>4, CountedIs
  <1> DEFINE next == [Counted(c) EXCEPT !.verm[k] = net[c].version]
  <1>6. /\ next \in ClientState /\ next.at \in {"loop", "again"} /\ next.key = k
        /\ next.verm = [client[c].verm EXCEPT ![k] = net[c].version]
    BY Zenon, <1>3, <1>5 DEF ClientState
  <1>7. client' = [client EXCEPT ![c] = next]
    BY Zenon, <1>0, GetJsonIs
  <1> HIDE DEF next
  <1>8. /\ client'[c] = next /\ client' \in [Client -> ClientState]
        /\ \A d \in Client : d # c => client'[d] = client[d]
    BY Zenon, <1>6, <1>7 DEF TestTypeOK
  <1>9. /\ net'[c] = Idle /\ UNCHANGED <<store, late>>
        /\ \A d \in Client : d # c => call'[d] = call[d] /\ net'[d] = net[d]
    BY Zenon, <1>0, <1>1 DEF Return, TypeOK, CallTypeOK
  <1>10. \A j \in Key : client'[c].verm[j] <= store[j].version
    BY ZenonT(40), <1>0, <1>3, <1>6, <1>8, TestFields DEF ClientTrue
  <1>11. EntriesTrue' /\ \A d \in Client : ClientTrue(d)'
    BY ZenonT(40), <1>0, <1>1, <1>2, <1>6, <1>8, <1>9, <1>10, ClientStep
  <1>12. test' = test => TestTypeOK'
    BY Zenon, <1>1, <1>8 DEF TestTypeOK
  <1> QED
    BY Zenon, <1>2, <1>11, <1>12

LEMMA ClientDoneTest ==
    ASSUME ClerkInv, TestTypeOK, EntriesTrue, \A d \in Client : ClientTrue(d),
           NEW c \in Client, ClientDone(c)
    PROVE  /\ ClerkInv'
           /\ test' = test => TestTypeOK'
           /\ EntriesTrue' /\ \A d \in Client : ClientTrue(d)'
  <1>0. TypeOK /\ ClientTrue(c) /\ client[c].at = "loop" /\ net[c] = Idle
    BY Zenon DEF ClerkInv, ClientDone, ClientTrue
  <1>1. UNCHANGED vars /\ UNCHANGED entry /\ client' = [client EXCEPT ![c].at = "done"]
    BY Zenon DEF ClientDone
  <1>2. ClerkInv'
    BY Zenon, <1>1, StepInv
  <1>3. UNCHANGED <<store, late, call, net>>
    BY Zenon, <1>1 DEF vars, callVars
  <1>4. /\ client'[c].at = "done" /\ client'[c].verm = client[c].verm
        /\ client' \in [Client -> ClientState]
        /\ \A d \in Client : d # c => client'[d] = client[d]
    <2>1. /\ client'[c].at = "done" /\ client'[c].verm = client[c].verm
          /\ client'[c] \in ClientState
      BY ZenonT(40), <1>1 DEF TestTypeOK, ClientState
    <2> QED
      BY Zenon, <1>1, <2>1 DEF TestTypeOK
  <1>5. \A j \in Key : client'[c].verm[j] <= store[j].version
    BY Zenon, <1>0, <1>4 DEF ClientTrue
  <1>6. EntriesTrue' /\ \A d \in Client : ClientTrue(d)'
    BY Zenon, <1>0, <1>1, <1>2, <1>3, <1>4, <1>5, ClientStep
  <1> QED
    BY ZenonT(40), <1>1, <1>2, <1>4, <1>6 DEF TestTypeOK

LEMMA InitTest == TestInit => ClerkInv /\ TestInv
  <1> SUFFICES ASSUME TestInit
               PROVE  ClerkInv /\ TestInv
    BY Zenon
  <1>1. ClerkInv /\ Init
    BY Zenon, InitInv DEF TestInit
  <1>2. /\ store = [k \in Key |-> Absent] /\ net = [c \in Client |-> Idle] /\ late = {}
    BY Zenon, <1>1 DEF Init, CallInit, MakeKVServer
  <1>3. \A c \in Client : client[c] = [at |-> "loop", key |-> SomeKey, err |-> OK,
                                       verm |-> [j \in Key |-> 0], Nok |-> 0, Nmaybe |-> 0]
    BY Zenon DEF TestInit
  <1>4. TestTypeOK
    <2>1. client \in [Client -> ClientState]
      <3>1. \A c \in Client : client[c] \in ClientState
        BY <1>3 DEF ClientState
      <3>2. DOMAIN client = Client /\ client = [c \in Client |-> client[c]]
        BY Zenon DEF TestInit
      <3> QED
        BY ZenonT(40), <3>1, <3>2
    <2> QED
      BY Zenon, <2>1 DEF TestTypeOK, TestInit, NoEntry
  <1>5. EntriesTrue
    BY SMTT(30), <1>2 DEF EntriesTrue, Present, Absent
  <1>6. ASSUME NEW c \in Client
        PROVE  ClientTrue(c) /\ client[c].at = "loop"
    <2>1. client[c].at = "loop" /\ client[c].verm = [j \in Key |-> 0] /\ net[c] = Idle
      BY <1>2, <1>3
    <2>2. \A k \in Key : store[k].version = 0 /\ client[c].verm[k] = 0
      BY Zenon, <1>2, <2>1 DEF Absent
    <2>3. 0 <= 0
      OBVIOUS
    <2>4. \A k \in Key : client[c].verm[k] <= store[k].version
      BY Zenon, <2>2, <2>3
    <2> QED
      BY Zenon, <2>1, <2>4 DEF ClientTrue
  <1> QED
    BY Zenon, <1>1, <1>4, <1>5, <1>6 DEF TestInv

LEMMA StepTest == ClerkInv /\ TestInv /\ [TestNext]_allVars => ClerkInv' /\ TestInv'
  <1> SUFFICES ASSUME ClerkInv, TestInv, [TestNext]_allVars
               PROVE  ClerkInv' /\ TestInv'
    BY Zenon
  <1>0. TestTypeOK /\ test \in {"any", "OneClientPut"}
    BY Zenon DEF TestInv, TestTypeOK
  <1>1. ASSUME UNCHANGED <<vars, client, entry, test>>
        PROVE  ClerkInv' /\ TestInv'
    <2>1. ClerkInv'
      BY Zenon, <1>1, StepInv
    <2>2. UNCHANGED <<store, call, net, late>>
      BY Zenon, <1>1 DEF vars, callVars
    <2>3. TestTypeOK' /\ (EntriesTrue => EntriesTrue')
      BY Zenon, <1>0, <1>1, <2>2 DEF TestTypeOK, EntriesTrue, Present
    <2>4. \A c \in Client : ClientTrue(c) => ClientTrue(c)'
      <3>1. \A c \in Client : PutTrue(c)' <=> PutTrue(c)
        BY Zenon, <1>1, <2>2 DEF PutTrue, Present
      <3>2. \A c \in Client : GetTrue(c)' <=> GetTrue(c)
        BY Zenon, <1>1, <2>2 DEF GetTrue, Present, Quiet
      <3> QED
        BY Zenon, <1>1, <2>2, <3>1, <3>2 DEF ClientTrue
    <2> QED
      BY Zenon, <1>1, <2>1, <2>3, <2>4 DEF TestInv
  <1>2. CASE AnyApplication
    <2>1. test = "any" /\ test' = "any" /\ Next /\ UNCHANGED <<client, entry>>
      BY Zenon, <1>2 DEF AnyApplication, Running
    <2>2. ClerkInv'
      BY Zenon, <2>1, StepInv
    <2>3. TestTypeOK' /\ \A c \in Client : client'[c].at = "loop"
      BY Zenon, <1>0, <2>1 DEF TestTypeOK, TestInv
    <2> QED
      BY Zenon, <2>1, <2>2, <2>3 DEF TestInv
  <1>3. ASSUME Running("OneClientPut"),
               (TestTypeOK /\ EntriesTrue /\ (\A d \in Client : ClientTrue(d))) =>
                    /\ ClerkInv' /\ (test' = test => TestTypeOK')
                    /\ EntriesTrue' /\ \A d \in Client : ClientTrue(d)'
        PROVE  ClerkInv' /\ TestInv'
    <2>1. test = "OneClientPut" /\ test' = test
      BY Zenon, <1>3 DEF Running
    <2> QED
      BY Zenon, <1>0, <1>3, <2>1 DEF TestInv
  <1>4. ASSUME NEW c \in Client, TestClient(c)
        PROVE  ClerkInv' /\ TestInv'
    <2>1. Running("OneClientPut") /\ OneClientPut(c)
      BY Zenon, <1>4 DEF TestClient
    <2> QED
      BY ZenonT(40), <1>3, <2>1, OnePutTest, PutJsonTest, OnePutGetTest, GetJsonTest, ClientDoneTest
      DEF OneClientPut
  <1>5. ASSUME Running("OneClientPut"), ClerkInv', UNCHANGED <<client, entry>>,
               (\E c \in Client : Network(c)) \/ Late
        PROVE  ClerkInv' /\ TestInv'
    <2>1. test' = test => TestTypeOK'
      BY Zenon, <1>0, <1>5 DEF TestTypeOK
    <2> QED
      BY Zenon, <1>3, <1>5, <2>1, NetworkTest, LateTest
  <1>6. ASSUME NEW c \in Client, TestNetwork(c)
        PROVE  ClerkInv' /\ TestInv'
    BY Zenon, <1>5, <1>6, NetworkInv DEF TestNetwork
  <1>7. CASE TestLate
    BY Zenon, <1>5, <1>7, ServeLateInv DEF TestLate, Late
  <1>8. CASE TestOver
    BY Zenon, <1>1, <1>8 DEF TestOver, Running
  <1>9. CASE UNCHANGED allVars
    BY Zenon, <1>1, <1>9 DEF allVars, testVars
  <1> QED
    BY ZenonT(40), <1>2, <1>4, <1>6, <1>7, <1>8, <1>9 DEF TestNext

-----------------------------------------------------------------------------
(***************************************************************************)
(* The test clients put at versions they have read, which are no newer     *)
(* than the key's at the call.                                             *)
(***************************************************************************)
VersionsRead ==
    /\ \A c \in Client : Putting(c) => call[c].version <= start[c]
    /\ \A o \in oplog : o.version <= o.Call

LogTestInv == LogInv /\ (test = "OneClientPut" => VersionsRead)

(* A step that begins no Put and returns from none. *)
LEMMA ReadKept ==
    ASSUME VersionsRead, oplog' = oplog,
           \A c \in Client : Putting(c)' =>
                Putting(c) /\ call'[c].version = call[c].version /\ start'[c] = start[c]
    PROVE  VersionsRead'
  BY Zenon DEF VersionsRead

LEMMA NetworkRead ==
    ASSUME ClerkInv, VersionsRead, NEW c \in Client, Network(c)
    PROVE  VersionsRead'
  <1>1. CallStep(c) /\ UNCHANGED <<start, oplog>> /\ CallTypeOK
    BY Zenon DEF Network, ClerkInv, TypeOK
  <1>2. CASE ServeGet(c) \/ ServePut(c)
    BY Zenon, <1>1, <1>2, ReadKept DEF ServeGet, ServePut, Putting
  <1>3. CASE Resend(c)
    <2>1. /\ call'[c] = Retried(call[c])
          /\ \A d \in Client : d # c => call'[d] = call[d]
      BY Zenon, <1>1, <1>3 DEF Resend, CallTypeOK
    <2>2. Putting(c)' => Putting(c) /\ call'[c].version = call[c].version
      <3>1. CASE Putting(c)
        BY Zenon, <1>1, <2>1, <3>1, CallFields DEF Retried, PutCall, Putting
      <3>2. CASE ~ Putting(c)
        BY Zenon, <2>1, <3>2 DEF Retried, Putting
      <3> QED
        BY Zenon, <3>1, <3>2
    <2>3. \A d \in Client : Putting(d)' => Putting(d) /\ call'[d].version = call[d].version
      BY Zenon, <2>1, <2>2 DEF Putting
    <2> QED
      BY Zenon, <1>1, <2>3, ReadKept
  <1> QED
    BY Zenon, <1>1, <1>2, <1>3 DEF CallStep, LoseRequest, LoseReply, GiveUp

LEMMA ReturnRead ==
    ASSUME ClerkInv, NEW c \in Client, Return(c), start' = [start EXCEPT ![c] = 0]
    PROVE  \A d \in Client : Putting(d)' =>
                Putting(d) /\ call'[d].version = call[d].version /\ start'[d] = start[d]
  <1>1. /\ call'[c].op = "none"
        /\ \A d \in Client : d # c => call'[d] = call[d] /\ start'[d] = start[d]
    BY Zenon, ReturnFacts
  <1> QED
    BY Zenon, <1>1 DEF Putting

LEMMA OnePutRead ==
    ASSUME ClerkInv, TestTypeOK, VersionsRead, NEW c \in Client, ClientTrue(c),
           NEW k \in Key, OnePut(c, k)
    PROVE  VersionsRead'
  <1>1. PICK v \in Value : AppPut(c, k, v, client[c].verm[k])
    BY Zenon DEF OnePut
  <1>2. CallTypeOK /\ start \in [Client -> Nat]
    BY Zenon DEF ClerkInv, TypeOK
  <1>3. /\ call'[c].version = client[c].verm[k] /\ start'[c] = store[k].version
        /\ \A d \in Client : d # c => call'[d] = call[d] /\ start'[d] = start[d]
        /\ oplog' = oplog
    BY Zenon, <1>1, <1>2 DEF AppPut, Put, CallTypeOK
  <1>4. client[c].verm[k] <= store[k].version
    BY Zenon DEF ClientTrue
  <1>5. \A d \in Client : Putting(d)' => call'[d].version <= start'[d]
    BY Zenon, <1>3, <1>4 DEF VersionsRead, Putting
  <1> QED
    BY Zenon, <1>3, <1>5 DEF VersionsRead

LEMMA PutDoneRead ==
    ASSUME ClerkInv, VersionsRead, NEW c \in Client, PutDone(c)
    PROVE  VersionsRead'
  <1>1. Putting(c) /\ Return(c) /\ start' = [start EXCEPT ![c] = 0]
    BY Zenon DEF PutDone, PutReturns, Putting
  <1>2. \A d \in Client : Putting(d)' => call'[d].version <= start'[d]
    BY Zenon, <1>1, ReturnRead DEF VersionsRead
  <1>3. Logged(c).version <= Logged(c).Call
    BY Zenon, <1>1 DEF VersionsRead, Logged
  <1>4. oplog' = oplog \union {Logged(c)}
    BY Zenon DEF PutDone
  <1> QED
    BY Zenon, <1>2, <1>3, <1>4 DEF VersionsRead

LEMMA StepLogTest ==
    ClerkInv /\ TestInv /\ LogTestInv /\ [TestNext]_allVars => LogTestInv'
  <1> SUFFICES ASSUME ClerkInv, TestInv, LogTestInv, [TestNext]_allVars
               PROVE  LogTestInv'
    BY Zenon
  <1>0. LogInv /\ TestTypeOK
    BY Zenon DEF LogTestInv, TestInv
  <1>1. ASSUME UNCHANGED vars, UNCHANGED test
        PROVE  LogTestInv'
    <2>1. LogInv'
      BY Zenon, <1>0, <1>1, StepLog
    <2> QED
      BY Zenon, <1>1, <2>1 DEF LogTestInv, VersionsRead, Putting, vars, callVars, historyVars
  <1>2. CASE AnyApplication
    <2>1. test' = "any" /\ Next
      BY Zenon, <1>2 DEF AnyApplication, Running
    <2> QED
      BY Zenon, <1>0, <2>1, StepLog DEF LogTestInv
  <1>3. ASSUME test = "OneClientPut"
        PROVE  VersionsRead /\ \A c \in Client : ClientTrue(c)
    BY Zenon, <1>3 DEF LogTestInv, TestInv
  <1>4. ASSUME NEW c \in Client, TestClient(c)
        PROVE  LogTestInv'
    <2>1. /\ test = "OneClientPut" /\ OneClientPut(c)
          /\ VersionsRead /\ ClientTrue(c)
      BY Zenon, <1>3, <1>4 DEF TestClient, Running
    <2>2. ASSUME NEW k \in Key, OnePut(c, k)
          PROVE  LogInv' /\ VersionsRead'
      BY ZenonT(40), <1>0, <2>1, <2>2, OnePutRead, AppPutLog DEF OnePut
    <2>3. CASE PutJson(c)
      BY ZenonT(40), <1>0, <2>1, <2>3, PutDoneRead, PutDoneLog DEF PutJson, LogTestInv
    <2>4. CASE OnePutGet(c)
      <3>1. AppGet(c, client[c].key) /\ client[c].key \in Key
        BY ZenonT(40), <2>1, <2>4 DEF OnePutGet, ClientTrue, GetTrue
      <3>2. /\ call'[c].op = "Get" /\ oplog' = oplog
            /\ \A d \in Client : d # c => call'[d] = call[d] /\ start'[d] = start[d]
        BY Zenon, <3>1 DEF AppGet, Get, ClerkInv, TypeOK, CallTypeOK
      <3>3. VersionsRead'
        BY Zenon, <2>1, <3>2, ReadKept DEF Putting
      <3> QED
        BY ZenonT(40), <1>0, <3>1, <3>3, AppGetLog DEF LogTestInv
    <2>5. CASE GetJson(c)
      <3>1. GetDone(c) /\ Return(c) /\ start' = [start EXCEPT ![c] = 0] /\ oplog' = oplog
        BY Zenon, <2>5 DEF GetJson, GetDone
      <3>2. VersionsRead'
        BY ZenonT(40), <2>1, <3>1, ReturnRead, ReadKept
      <3> QED
        BY ZenonT(40), <1>0, <3>1, <3>2, GetDoneLog DEF LogTestInv
    <2>6. CASE ClientDone(c)
      BY ZenonT(40), <1>1, <1>4, <2>6 DEF ClientDone, TestClient, Running
    <2> QED
      BY ZenonT(40), <2>1, <2>2, <2>3, <2>4, <2>5, <2>6 DEF OneClientPut, LogTestInv
  <1>5. ASSUME NEW c \in Client, TestNetwork(c)
        PROVE  LogTestInv'
    BY ZenonT(40), <1>0, <1>3, <1>5, NetworkLog, NetworkRead DEF TestNetwork, Running, LogTestInv
  <1>6. CASE TestLate
    <2>1. Late /\ VersionsRead /\ UNCHANGED <<call, start, oplog>>
      BY Zenon, <1>3, <1>6 DEF TestLate, Running, Late, ServeLate
    <2>2. VersionsRead'
      BY Zenon, <2>1, ReadKept DEF Putting
    <2> QED
      BY ZenonT(40), <1>0, <2>1, <2>2, LateLog DEF LogTestInv
  <1>7. CASE TestOver
    BY Zenon, <1>1, <1>7 DEF TestOver, Running
  <1>8. CASE UNCHANGED allVars
    BY Zenon, <1>1, <1>8 DEF allVars, testVars
  <1> QED
    BY ZenonT(40), <1>2, <1>4, <1>5, <1>6, <1>7, <1>8 DEF TestNext

LEMMA InitLogTest == TestInit => LogTestInv
  <1> SUFFICES ASSUME TestInit
               PROVE  LogTestInv
    BY Zenon
  <1>1. Init /\ oplog = {} /\ call = [c \in Client |-> NoCall]
    BY Zenon DEF TestInit, Init, CallInit
  <1>2. \A c \in Client : ~ Putting(c)
    BY <1>1 DEF Putting, NoCall
  <1> QED
    BY ZenonT(40), <1>1, <1>2, InitLog DEF LogTestInv, VersionsRead

LEMMA InvPorcupine == ClerkInv /\ LogTestInv => CheckPorcupine
  <1> SUFFICES ASSUME ClerkInv, LogTestInv, test = "OneClientPut", NEW o \in oplog
               PROVE  PutExplained(o)
    BY Zenon DEF CheckPorcupine
  <1>1. /\ o \in Operation /\ OpKnown(o) /\ OpExplained(o)
        /\ o.version <= o.Call
    BY Zenon DEF LogTestInv, LogInv, OpLogTypeOK, VersionsRead
  <1>2. o.version \in Nat /\ o.Call \in Nat
    BY ZenonT(40), <1>1, OpFields
  <1>3. ~ NotStored(o) /\ ~ AppliedLate(o)
    BY <1>1, <1>2 DEF NotStored, AppliedLate
  <1> QED
    BY Zenon, <1>1, <1>3, ExplainedOp

-----------------------------------------------------------------------------
(***************************************************************************)
(* What CheckPutConcurrent counts, step by step (KVTestProofs does the     *)
(* counting): a Put that returns changes the counts of one client, one     *)
(* that is applied the version of one key, and other steps neither.        *)
(***************************************************************************)
LEMMA CountsAre ==
    ASSUME TestTypeOK
    PROVE  /\ OkCounts \in [Client -> Nat] /\ MaybeCounts \in [Client -> Nat]
           /\ \A c \in Client :
                /\ client[c].Nok \in Nat /\ client[c].Nmaybe \in Nat
                /\ OkCounts[c] = client[c].Nok + Uncounted(c, OK)
                /\ MaybeCounts[c] = client[c].Nmaybe + Uncounted(c, ErrMaybe)
  <1>1. \A c \in Client : client[c].Nok \in Nat /\ client[c].Nmaybe \in Nat
    BY DEF TestTypeOK, ClientState
  <1>2. \A c \in Client : \A e : Uncounted(c, e) \in Nat
    BY DEF Uncounted
  <1>3. \A c \in Client : /\ client[c].Nok + Uncounted(c, OK) \in Nat
                          /\ client[c].Nmaybe + Uncounted(c, ErrMaybe) \in Nat
    BY <1>1, <1>2
  <1> QED
    BY ZenonT(40), <1>1, <1>3 DEF OkCounts, MaybeCounts

LEMMA CountsAreNext ==
    ASSUME TestTypeOK'
    PROVE  /\ OkCounts' \in [Client -> Nat] /\ MaybeCounts' \in [Client -> Nat]
           /\ \A c \in Client :
                /\ client'[c].Nok \in Nat /\ client'[c].Nmaybe \in Nat
                /\ OkCounts'[c] = client'[c].Nok + Uncounted(c, OK)'
                /\ MaybeCounts'[c] = client'[c].Nmaybe + Uncounted(c, ErrMaybe)'
  <1>1. \A c \in Client : client'[c].Nok \in Nat /\ client'[c].Nmaybe \in Nat
    BY DEF TestTypeOK, ClientState
  <1>2. \A c \in Client : \A e : Uncounted(c, e)' \in Nat
    BY DEF Uncounted
  <1>3. \A c \in Client : /\ client'[c].Nok + Uncounted(c, OK)' \in Nat
                          /\ client'[c].Nmaybe + Uncounted(c, ErrMaybe)' \in Nat
    BY <1>1, <1>2
  <1> QED
    BY ZenonT(40), <1>1, <1>3 DEF OkCounts, MaybeCounts

(* No Put returns, and none is counted that was not about to be. *)
LEMMA CountsKept ==
    ASSUME CountsTrue, outcome' = outcome,
           \A d \in Client :
            /\ client'[d].Nok + Uncounted(d, OK)' = client[d].Nok + Uncounted(d, OK)
            /\ client'[d].Nmaybe + Uncounted(d, ErrMaybe)' = client[d].Nmaybe + Uncounted(d, ErrMaybe)
    PROVE  CountsTrue'
  <1>1. OkCounts' = OkCounts /\ MaybeCounts' = MaybeCounts
    BY Zenon DEF OkCounts, MaybeCounts
  <1>2. Returned(OK)' = Returned(OK) /\ Returned(ErrMaybe)' = Returned(ErrMaybe)
    BY Zenon DEF Returned
  <1> QED
    BY Zenon, <1>1, <1>2 DEF CountsTrue

(* The clients' counters stay as they are. *)
LEMMA SameCounts ==
    ASSUME CountsTrue, UNCHANGED <<outcome, client>>
    PROVE  CountsTrue'
  <1>1. \A d \in Client : /\ Uncounted(d, OK)' = Uncounted(d, OK)
                          /\ Uncounted(d, ErrMaybe)' = Uncounted(d, ErrMaybe)
    BY Zenon DEF Uncounted
  <1> QED
    BY Zenon, <1>1, CountsKept

(* Calls other than Puts come and go. *)
LEMMA PutsKept ==
    ASSUME PutsKnown, UNCHANGED <<outcome, drops>>,
           \A d \in Client : \/ call'[d] = call[d]
                             \/ call[d].op # "Put" /\ call'[d].op # "Put"
    PROVE  PutsKnown'
  <1>1. Returned(ErrMaybe)' = Returned(ErrMaybe)
    BY Zenon DEF Returned
  <1> QED
    BY ZenonT(40), <1>1 DEF PutsKnown

(* One Put more is applied, and the version of its key grows by one. *)
VersionGrows(k, v) ==
    /\ v \notin AppliedPuts /\ AppliedPuts' = AppliedPuts \union {v}
    /\ Versions'[k] = Versions[k] + 1
    /\ \A j \in Key : j # k => Versions'[j] = Versions[j]

VersionsStep ==
    \/ Versions' = Versions /\ AppliedPuts' = AppliedPuts
    \/ \E k \in Key : \E v \in Value : VersionGrows(k, v)

LEMMA VersionsSame ==
    ASSUME UNCHANGED <<store, hist>>
    PROVE  VersionsStep
  BY Zenon DEF VersionsStep, Versions, AppliedPuts, Applied

(* A Put that the server applies is not applied yet, and its key's version *)
(* grows by one.                                                           *)
LEMMA PutVersions ==
    ASSUME ClerkInv, ClerkInv', Record,
           NEW k \in Key, NEW v \in Value, NEW ver \in Nat, store' = PutStore(k, v, ver)
    PROVE  VersionsStep
  <1>0. TypeOK /\ StoreIsHistory /\ StoredOnce' /\ TypeOK' /\ StoreIsHistory'
    BY Zenon DEF ClerkInv
  <1>1. CASE PutErr(k, ver) # OK
    <2>1. store' = store
      BY Zenon, <1>1 DEF PutStore
    <2> QED
      BY ZenonT(40), <1>0, <2>1, RecordNothing, VersionsSame
  <1>2. CASE PutErr(k, ver) = OK
    <2>1. store \in [Key -> ValueVersion] /\ store[k].version \in Nat
      BY ZenonT(40), <1>0 DEF TypeOK, CallTypeOK, StoreTypeOK, ValueVersion
    <2>2. store[k].version = ver
      BY <1>2, <2>1 DEF PutErr, Present, OK, ErrVersion, ErrNoKey
    <2>3. store' = [store EXCEPT ![k] = [value |-> v, version |-> ver + 1]]
      BY ZenonT(40), <1>2 DEF PutStore
    <2>4. store'[k].version = ver + 1 /\ \A j \in Key : j # k => store'[j] = store[j]
      BY <2>1, <2>3
    <2>5. /\ places \subseteq places' /\ <<k, ver + 1, v>> \in places'
          /\ \A j \in Key : \A i \in Nat : \A u \in Value :
                <<j, i, u>> \in places' /\ <<j, i, u>> \notin places => u = v
      <3>1. /\ places \subseteq places'
            /\ PutErr(k, ver) = OK => <<k, ver + 1, v>> \in places'
        BY Zenon, <1>0, PutEffect
      <3>2. \A j \in Key : \A i \in Nat : \A u \in Value :
                <<j, i, u>> \in places' /\ <<j, i, u>> \notin places =>
                    /\ j = k /\ i = ver + 1 /\ u = v
                    /\ store[k].version = ver /\ PutErr(k, ver) = OK
        BY ZenonT(40), <1>0, PutEffect
      <3> QED
        BY ZenonT(40), <1>2, <3>1, <3>2
    <2>6. \A u \in Value : (Applied(u) <=> Stored(u)) /\ (Applied(u)' <=> Stored(u)')
      BY Zenon, <1>0, AppliedMeans, AppliedMeansNext
    <2>7. ~Stored(v)
      <3>1. SUFFICES ASSUME NEW j \in Key, NEW i \in Nat, <<j, i, v>> \in places
                     PROVE  FALSE
        BY Zenon DEF Stored
      <3>2. ver + 1 \in Nat
        OBVIOUS
      <3>3. j = k /\ i = ver + 1
        BY ZenonT(40), <1>0, <2>5, <3>1, <3>2 DEF StoredOnce
      <3>4. ver + 1 \in 1 .. Len(hist[k])
        BY ZenonT(40), <3>1, <3>2, <3>3, PlaceMeans
      <3>5. Len(hist[k]) = ver
        BY Zenon, <1>0, <2>2 DEF StoreIsHistory
      <3> QED
        BY <3>4, <3>5
    <2>8. AppliedPuts' = AppliedPuts \union {v} /\ v \notin AppliedPuts
      <3>1. \A u \in Value : Stored(u)' <=> Stored(u) \/ u = v
        <4>1. \A u \in Value : Stored(u) => Stored(u)'
          BY Zenon, <2>5 DEF Stored
        <4>2. Stored(v)'
          <5>1. ver + 1 \in Nat
            OBVIOUS
          <5> QED
            BY ZenonT(40), <2>5, <5>1 DEF Stored
        <4>3. \A u \in Value : Stored(u)' => Stored(u) \/ u = v
          BY Zenon, <2>5 DEF Stored
        <4> QED
          BY ZenonT(40), <4>1, <4>2, <4>3
      <3> QED
        BY ZenonT(40), <2>6, <2>7, <3>1 DEF AppliedPuts
    <2>9. /\ Versions \in [Key -> Nat] /\ Versions' \in [Key -> Nat]
          /\ Versions[k] = ver /\ Versions'[k] = ver + 1
          /\ \A j \in Key : j # k => Versions'[j] = Versions[j]
      <3>1. \A j \in Key : store[j].version \in Nat /\ store'[j].version \in Nat
        BY Zenon, <1>0 DEF TypeOK, CallTypeOK, StoreTypeOK, ValueVersion
      <3> QED
        BY ZenonT(40), <2>2, <2>4, <3>1 DEF Versions
    <2>10. VersionGrows(k, v)
      BY Zenon, <2>8, <2>9 DEF VersionGrows
    <2> QED
      BY Zenon, <2>10 DEF VersionsStep
  <1> QED
    BY Zenon, <1>1, <1>2

LEMMA NetworkCounts ==
    ASSUME ClerkInv, ClerkInv', CountsTrue, PutsKnown,
           NEW c \in Client, Network(c), UNCHANGED client
    PROVE  CountsTrue' /\ VersionsStep /\ PutsKnown'
  <1>0. TypeOK /\ CallStep(c) /\ Record /\ outcome' = outcome
    BY Zenon DEF ClerkInv, Network
  <1>1. CountsTrue'
    BY Zenon, <1>0, SameCounts
  <1>2. CASE ServeGet(c)
    <2>1. UNCHANGED <<store, call, drops>>
      BY Zenon, <1>2 DEF ServeGet
    <2> QED
      BY ZenonT(40), <1>0, <1>1, <2>1, RecordNothing, VersionsSame, PutsKept
  <1>3. CASE ServePut(c)
    <2>1. /\ store' = PutStore(call[c].key, call[c].value, call[c].version)
          /\ UNCHANGED <<call, drops>> /\ call[c].op = "Put"
      BY ZenonT(40), <1>3 DEF ServePut
    <2>2. call[c].key \in Key /\ call[c].value \in Value /\ call[c].version \in Nat
      BY SMTT(30), <1>0, <2>1, Fields DEF Putting
    <2> QED
      BY ZenonT(40), <1>0, <1>1, <2>1, <2>2, PutVersions, PutsKept
  <1>4. CASE Resend(c)
    <2>1. /\ drops' = drops + 1 /\ call' = [call EXCEPT ![c] = Retried(call[c])]
          /\ store' = store
      BY ZenonT(40), <1>4 DEF Resend
    <2>2. drops' # 0
      BY SMTT(30), <1>0, <2>1 DEF TypeOK, CallTypeOK
    <2>3. \A d \in Client : call[d].op = "Put" =>
            call'[d].op = "Put" /\ call'[d].value = call[d].value
      <3>1. ASSUME call[c].op = "Put"
            PROVE  /\ Retried(call[c]).op = "Put"
                   /\ Retried(call[c]).value = call[c].value
        <4>1. call[c] \in PutCall
          BY SMTT(30), <1>0, <3>1 DEF TypeOK, CallTypeOK, NoCall, GetCall, PutCall
        <4>2. Retried(call[c]) = [call[c] EXCEPT !.retry = TRUE]
          BY Zenon, <3>1 DEF Retried
        <4> QED
          BY Zenon, <3>1, <4>1, <4>2 DEF PutCall
      <3> QED
        BY ZenonT(40), <1>0, <2>1, <3>1 DEF TypeOK, CallTypeOK
    <2>4. PutsKnown'
      <3>1. \A v \in Value : \A d \in Client :
                call[d].op = "Put" /\ call[d].value = v => call'[d].op = "Put" /\ call'[d].value = v
        BY Zenon, <2>3
      <3>2. \A v \in Value : (\E d \in Client : call[d].op = "Put" /\ call[d].value = v) =>
                \E d \in Client : call'[d].op = "Put" /\ call'[d].value = v
        BY Zenon, <3>1
      <3> QED
        BY ZenonT(40), <1>0, <2>2, <3>2 DEF PutsKnown
    <2> QED
      BY ZenonT(40), <1>0, <1>1, <2>1, <2>4, RecordNothing, VersionsSame
  <1> QED
    BY ZenonT(40), <1>0, <1>2, <1>3, <1>4 DEF CallStep, LoseRequest, LoseReply, GiveUp

LEMMA LateCounts ==
    ASSUME ClerkInv, ClerkInv', CountsTrue, PutsKnown,
           Late, UNCHANGED client
    PROVE  CountsTrue' /\ VersionsStep /\ PutsKnown'
  <1>0. TypeOK /\ Record /\ outcome' = outcome
    BY Zenon DEF ClerkInv, Late
  <1>1. PICK r \in late : ServeLate(r)
    BY Zenon DEF Late
  <1>2. store' = PutStore(r.key, r.value, r.version) /\ UNCHANGED <<call, drops>>
    BY Zenon, <1>1 DEF ServeLate
  <1>3. r.key \in Key /\ r.value \in Value /\ r.version \in Nat
    BY Zenon, <1>0, LateFields
  <1> QED
    BY ZenonT(40), <1>0, <1>2, <1>3, SameCounts, PutVersions, PutsKept

LEMMA OnePutCounts ==
    ASSUME ClerkInv, TestTypeOK, CountsTrue, PutsKnown,
           NEW c \in Client, NEW k \in Key, OnePut(c, k)
    PROVE  CountsTrue' /\ VersionsStep /\ PutsKnown'
  <1>0. TypeOK /\ CallsKnown
    BY Zenon DEF ClerkInv
  <1>1. PICK v \in Value : AppPut(c, k, v, client[c].verm[k])
    BY Zenon DEF OnePut
  <1>2. /\ client' = [client EXCEPT ![c].at = "put", ![c].key = k]
        /\ client[c].at # "get"
    BY Zenon DEF OnePut
  <1>3. /\ Quiet(c) /\ outcome[v] = "unused" /\ UNCHANGED <<store, hist, drops>>
        /\ outcome' = [outcome EXCEPT ![v] = "pending"]
        /\ call' = [call EXCEPT ![c] = [op |-> "Put", key |-> k, value |-> v,
                                        version |-> client[c].verm[k], retry |-> FALSE]]
    BY Zenon, <1>1 DEF AppPut, Put
  <1>4. /\ outcome'[v] = "pending" /\ \A u \in Value : u # v => outcome'[u] = outcome[u]
    BY Zenon, <1>0, <1>3 DEF TypeOK
  <1>5. CountsTrue'
    <2>1. \A e \in {OK, ErrMaybe} : Returned(e)' = Returned(e)
      <3>1. \A e \in {OK, ErrMaybe} : e # "pending" /\ e # "unused"
        BY DEF OK, ErrMaybe
      <3> QED
        BY ZenonT(40), <1>3, <1>4, <3>1 DEF Returned
    <2>2. /\ client'[c].at = "put" /\ client'[c].Nok = client[c].Nok
          /\ client'[c].Nmaybe = client[c].Nmaybe
          /\ \A d \in Client : d # c => client'[d] = client[d]
      BY ZenonT(40), <1>2 DEF TestTypeOK, ClientState
    <2>3. \A d \in Client : \A e : Uncounted(d, e)' = Uncounted(d, e)
      BY ZenonT(40), <1>2, <2>2 DEF Uncounted
    <2>4. OkCounts' = OkCounts /\ MaybeCounts' = MaybeCounts
      <3>1. \A d \in Client : client'[d].Nok = client[d].Nok /\ client'[d].Nmaybe = client[d].Nmaybe
        BY Zenon, <2>2
      <3> QED
        BY Zenon, <2>3, <3>1 DEF OkCounts, MaybeCounts
    <2> QED
      BY ZenonT(40), <2>1, <2>4 DEF CountsTrue
  <1>6. PutsKnown'
    <2>1. call[c].op = "none"
      BY Zenon, <1>0, <1>3, QuietAt DEF CallsKnown
    <2>2. /\ call'[c].op = "Put" /\ call'[c].value = v /\ ~call'[c].retry
          /\ \A d \in Client : d # c => call'[d] = call[d]
      BY SMTT(30), <1>0, <1>3 DEF TypeOK, CallTypeOK
    <2>3. \A u \in Value : outcome'[u] # ErrNoKey
      BY <1>4 DEF PutsKnown, ErrNoKey
    <2>4. \A u \in Value : outcome'[u] = "pending" =>
            \E d \in Client : call'[d].op = "Put" /\ call'[d].value = u
      <3>1. \A u \in Value : u # v /\ outcome'[u] = "pending" =>
                \E d \in Client : d # c /\ call[d].op = "Put" /\ call[d].value = u
        BY SMTT(30), <1>4, <2>1 DEF PutsKnown
      <3>2. ASSUME NEW u \in Value, outcome'[u] = "pending"
            PROVE  \E d \in Client : call'[d].op = "Put" /\ call'[d].value = u
        <4>1. CASE u = v
          BY Zenon, <2>2, <4>1
        <4>2. CASE u # v
          <5>1. PICK d \in Client : d # c /\ call[d].op = "Put" /\ call[d].value = u
            BY ZenonT(40), <3>1, <3>2, <4>2
          <5>2. call'[d].op = "Put" /\ call'[d].value = u
            BY SMTT(30), <2>2, <5>1
          <5> QED
            BY Zenon, <5>2
        <4> QED
          BY ZenonT(40), <4>1, <4>2
      <3> QED
        BY ZenonT(40), <3>2
    <2>5. Returned(ErrMaybe) = {} => Returned(ErrMaybe)' = {}
      BY <1>4 DEF Returned, ErrMaybe
    <2> QED
      BY ZenonT(40), <1>3, <2>2, <2>3, <2>4, <2>5 DEF PutsKnown
  <1> QED
    BY ZenonT(40), <1>3, <1>5, <1>6, VersionsSame

LEMMA GetJsonCounts ==
    ASSUME ClerkInv, TestTypeOK, CountsTrue, PutsKnown,
           NEW c \in Client, ClientTrue(c), GetJson(c)
    PROVE  CountsTrue' /\ VersionsStep /\ PutsKnown'
  <1>0. TypeOK /\ client \in [Client -> ClientState]
    BY Zenon DEF ClerkInv, TestTypeOK
  <1>1. /\ GetReturns(c) /\ Return(c) /\ UNCHANGED <<hist, outcome>>
    BY Zenon DEF GetJson, GetDone
  <1>2. UNCHANGED <<store, drops>> /\ call' = [call EXCEPT ![c] = NoCall]
    BY Zenon, <1>1 DEF Return
  <1> DEFINE next == [Counted(c) EXCEPT !.verm[client[c].key] = net[c].version]
  <1>3. /\ Counted(c) \in ClientState /\ Counted(c).at \in {"loop", "again"}
        /\ Counted(c).Nok = client[c].Nok + Uncounted(c, OK)
        /\ Counted(c).Nmaybe = client[c].Nmaybe + Uncounted(c, ErrMaybe)
        /\ client' = [client EXCEPT ![c] = next]
    BY ZenonT(40), <1>0, GetJsonIs, CountedIs
  <1>4. next.at = Counted(c).at /\ next.Nok = Counted(c).Nok /\ next.Nmaybe = Counted(c).Nmaybe
    BY Zenon, <1>3 DEF ClientState
  <1> HIDE DEF next
  <1>5. client'[c] = next /\ \A d \in Client : d # c => client'[d] = client[d]
    BY ZenonT(40), <1>0, <1>3
  <1>6. /\ next.at # "get" /\ next.Nok + 0 = next.Nok /\ next.Nmaybe + 0 = next.Nmaybe
    BY SMTT(30), <1>3, <1>4 DEF ClientState
  <1>7. \A e : Uncounted(c, e)' = 0 /\ \A d \in Client : d # c => Uncounted(d, e)' = Uncounted(d, e)
    BY Zenon, <1>5, <1>6 DEF Uncounted
  <1>8. ASSUME NEW d \in Client
        PROVE  /\ client'[d].Nok + Uncounted(d, OK)' = client[d].Nok + Uncounted(d, OK)
               /\ client'[d].Nmaybe + Uncounted(d, ErrMaybe)' = client[d].Nmaybe + Uncounted(d, ErrMaybe)
    <2>1. CASE d = c
      BY ZenonT(40), <1>3, <1>4, <1>5, <1>6, <1>7, <2>1
    <2>2. CASE d # c
      BY ZenonT(40), <1>5, <1>7, <2>2
    <2> QED
      BY Zenon, <2>1, <2>2
  <1>9. CountsTrue'
    BY ZenonT(40), <1>1, <1>8, CountsKept
  <1>10. PutsKnown'
    <2>1. call[c].op # "Put" /\ call'[c].op # "Put" /\ \A d \in Client : d # c => call'[d] = call[d]
      BY SMTT(30), <1>0, <1>1, <1>2 DEF TypeOK, CallTypeOK, NoCall, GetReturns
    <2> QED
      BY ZenonT(40), <1>1, <1>2, <2>1, PutsKept
  <1> QED
    BY ZenonT(40), <1>1, <1>2, <1>9, <1>10, VersionsSame

LEMMA OnePutGetCounts ==
    ASSUME ClerkInv, CountsTrue, PutsKnown,
           NEW c \in Client, OnePutGet(c)
    PROVE  CountsTrue' /\ VersionsStep /\ PutsKnown'
  <1>0. TypeOK /\ CallsKnown
    BY Zenon DEF ClerkInv
  <1>1. /\ Quiet(c) /\ UNCHANGED <<client, store, hist, outcome, drops>>
        /\ call' = [call EXCEPT ![c] = [op |-> "Get", key |-> client[c].key]]
    BY Zenon DEF OnePutGet, AppGet, Get
  <1>2. call[c].op = "none"
    BY ZenonT(40), <1>0, <1>1, QuietAt DEF CallsKnown
  <1>3. call'[c].op = "Get" /\ \A d \in Client : d # c => call'[d] = call[d]
    BY SMTT(30), <1>0, <1>1 DEF TypeOK, CallTypeOK
  <1>4. \A d \in Client : \/ call'[d] = call[d]
                          \/ call[d].op # "Put" /\ call'[d].op # "Put"
    BY SMTT(30), <1>2, <1>3
  <1> QED
    BY ZenonT(40), <1>1, <1>4, SameCounts, VersionsSame, PutsKept

LEMMA ClientDoneCounts ==
    ASSUME TestTypeOK, CountsTrue, PutsKnown, NEW c \in Client, ClientDone(c)
    PROVE  CountsTrue' /\ VersionsStep /\ PutsKnown'
  <1>1. UNCHANGED vars /\ client[c].at = "loop" /\ client' = [client EXCEPT ![c].at = "done"]
    BY Zenon DEF ClientDone
  <1>2. UNCHANGED <<store, hist, outcome, call, drops>>
    BY Zenon, <1>1 DEF vars, callVars, historyVars
  <1>3. /\ client'[c].at = "done" /\ client'[c].Nok = client[c].Nok
        /\ client'[c].Nmaybe = client[c].Nmaybe
        /\ \A d \in Client : d # c => client'[d] = client[d]
    BY ZenonT(40), <1>1 DEF TestTypeOK, ClientState
  <1>4. \A d \in Client : \A e : Uncounted(d, e)' = Uncounted(d, e)
    BY Zenon, <1>1, <1>3 DEF Uncounted
  <1>5. \A d \in Client : client'[d].Nok = client[d].Nok /\ client'[d].Nmaybe = client[d].Nmaybe
    BY Zenon, <1>3
  <1>6. CountsTrue'
    BY ZenonT(40), <1>2, <1>4, <1>5, CountsKept
  <1> QED
    BY ZenonT(40), <1>2, <1>6, VersionsSame, PutsKept

LEMMA PutJsonEffect ==
    ASSUME ClerkInv, TestTypeOK, TestTypeOK', PutsKnown,
           NEW c \in Client, ClientTrue(c), PutJson(c)
    PROVE  /\ \A d \in Client : d # c => OkCounts'[d] = OkCounts[d] /\ MaybeCounts'[d] = MaybeCounts[d]
           /\ OkCounts'[c] = OkCounts[c] + (IF PutResult(c) = OK THEN 1 ELSE 0)
           /\ MaybeCounts'[c] = MaybeCounts[c] + (IF PutResult(c) = ErrMaybe THEN 1 ELSE 0)
           /\ call[c].value \in Value /\ outcome[call[c].value] = "pending"
           /\ outcome' = [outcome EXCEPT ![call[c].value] = PutResult(c)]
           /\ VersionsStep /\ PutsKnown'
  <1>0. TypeOK /\ CallsKnown /\ client[c].at = "put" /\ PutTrue(c)
    BY Zenon DEF ClerkInv, PutJson, ClientTrue
  <1>1. /\ PutReturns(c) /\ Return(c) /\ UNCHANGED hist
        /\ outcome' = [outcome EXCEPT ![call[c].value] = PutResult(c)]
        /\ client' = [client EXCEPT ![c].err = PutResult(c),
                                    ![c].at = IF PutResult(c) \in {OK, ErrVersion, ErrMaybe}
                                              THEN "get" ELSE "fatal"]
    BY Zenon DEF PutJson, PutDone
  <1>2. UNCHANGED <<store, drops>> /\ call' = [call EXCEPT ![c] = NoCall]
    BY Zenon, <1>1 DEF Return
  <1>3. net[c].at = "reply" /\ call[c].op = "Put" /\ call[c].value \in Value
    BY ZenonT(40), <1>0, <1>1, Fields DEF PutReturns, Putting
  <1> DEFINE v == call[c].value
             r == PutResult(c)
  <1>4. net[c].err \in {OK, ErrVersion} /\ r \in {OK, ErrVersion, ErrMaybe}
    <2>1. net[c].err \in ServerErr /\ net[c].err # ErrNoKey
      BY ZenonT(40), <1>0, <1>3, Fields DEF PutTrue
    <2> QED
      BY Zenon, <2>1 DEF PutResult, ServerErr
  <1>5. outcome \in [Value -> Outcome] /\ outcome[v] = "pending" /\ v \in Value
    BY Zenon, <1>0, <1>3 DEF TypeOK, CallsKnown, Putting
  <1>6. outcome' = [outcome EXCEPT ![v] = r]
    BY Zenon, <1>1
  <1>7. /\ client'[c].at = "get" /\ client'[c].err = r
        /\ client'[c].Nok = client[c].Nok /\ client'[c].Nmaybe = client[c].Nmaybe
        /\ \A d \in Client : d # c => client'[d] = client[d]
    BY ZenonT(40), <1>1, <1>4 DEF TestTypeOK, ClientState
  <1>8. /\ call[c].retry \/ r # ErrMaybe
        /\ r # "pending" /\ r # ErrNoKey /\ OK # "pending" /\ ErrMaybe # "pending"
    BY <1>4 DEF PutResult, OK, ErrVersion, ErrMaybe, ErrNoKey
  <1> HIDE DEF v, r
  <1>9. /\ \A d \in Client : d # c => OkCounts'[d] = OkCounts[d] /\ MaybeCounts'[d] = MaybeCounts[d]
        /\ OkCounts'[c] = OkCounts[c] + (IF r = OK THEN 1 ELSE 0)
        /\ MaybeCounts'[c] = MaybeCounts[c] + (IF r = ErrMaybe THEN 1 ELSE 0)
    <2>1. /\ OkCounts \in [Client -> Nat] /\ OkCounts' \in [Client -> Nat]
          /\ MaybeCounts \in [Client -> Nat] /\ MaybeCounts' \in [Client -> Nat]
          /\ \A d \in Client :
                /\ OkCounts[d] = client[d].Nok + Uncounted(d, OK)
                /\ OkCounts'[d] = client'[d].Nok + Uncounted(d, OK)'
                /\ MaybeCounts[d] = client[d].Nmaybe + Uncounted(d, ErrMaybe)
                /\ MaybeCounts'[d] = client'[d].Nmaybe + Uncounted(d, ErrMaybe)'
      BY Zenon, CountsAre, CountsAreNext
    <2>2. \A d \in Client : d # c => \A e : Uncounted(d, e)' = Uncounted(d, e)
      BY Zenon, <1>7 DEF Uncounted
    <2>3. \A d \in Client : d # c => OkCounts'[d] = OkCounts[d] /\ MaybeCounts'[d] = MaybeCounts[d]
      BY ZenonT(40), <1>7, <2>1, <2>2
    <2>4. \A e : Uncounted(c, e) = 0 /\ Uncounted(c, e)' = IF r = e THEN 1 ELSE 0
      BY Zenon, <1>0, <1>7 DEF Uncounted
    <2>5. /\ OkCounts'[c] = OkCounts[c] + (IF r = OK THEN 1 ELSE 0)
          /\ MaybeCounts'[c] = MaybeCounts[c] + (IF r = ErrMaybe THEN 1 ELSE 0)
      <3>1. client[c].Nok \in Nat /\ client[c].Nmaybe \in Nat
        BY Zenon, CountsAre
      <3> QED
        BY SMTT(30), <1>7, <2>1, <2>4, <3>1
    <2> QED
      BY Zenon, <2>3, <2>5
  <1>10. PutsKnown'
    <2>1. outcome'[v] = r /\ \A u \in Value : u # v => outcome'[u] = outcome[u]
      BY ZenonT(40), <1>5, <1>6
    <2>2. \A u \in Value : outcome'[u] # ErrNoKey
      BY ZenonT(40), <1>8, <2>1 DEF PutsKnown
    <2>3. call'[c].op = "none" /\ \A d \in Client : d # c => call'[d] = call[d]
      BY SMTT(30), <1>0, <1>2 DEF TypeOK, CallTypeOK, NoCall
    <2>4. ASSUME NEW u \in Value, outcome'[u] = "pending"
          PROVE  \E d \in Client : call'[d].op = "Put" /\ call'[d].value = u
      <3>1. u # v /\ outcome[u] = "pending"
        BY ZenonT(40), <1>8, <2>1, <2>4
      <3>2. PICK d \in Client : call[d].op = "Put" /\ call[d].value = u
        BY Zenon, <3>1 DEF PutsKnown
      <3>3. d # c
        BY ZenonT(40), <3>1, <3>2 DEF v
      <3>4. call'[d].op = "Put" /\ call'[d].value = u
        BY SMTT(30), <2>3, <3>2, <3>3
      <3> QED
        BY Zenon, <3>4
    <2>5. ASSUME drops' = 0
          PROVE  /\ Returned(ErrMaybe)' = {}
                 /\ \A d \in Client : call'[d].op = "Put" => ~call'[d].retry
      <3>1. drops = 0
        BY Zenon, <1>2, <2>5
      <3>2. Returned(ErrMaybe) = {} /\ \A d \in Client : call[d].op = "Put" => ~call[d].retry
        BY Zenon, <3>1 DEF PutsKnown
      <3>3. r # ErrMaybe
        BY ZenonT(40), <1>3, <1>8, <3>2
      <3>4. Returned(ErrMaybe)' = {}
        BY ZenonT(40), <2>1, <3>2, <3>3 DEF Returned
      <3>5. ASSUME NEW d \in Client, call'[d].op = "Put"
            PROVE  ~call'[d].retry
        <4>1. d # c
          BY SMTT(30), <2>3, <3>5
        <4> QED
          BY ZenonT(40), <2>3, <3>2, <3>5, <4>1
      <3> QED
        BY Zenon, <3>4, <3>5
    <2> QED
      BY ZenonT(40), <2>2, <2>4, <2>5 DEF PutsKnown
  <1>11. VersionsStep
    BY ZenonT(40), <1>1, <1>2, VersionsSame
  <1> QED
    BY ZenonT(40), <1>5, <1>6, <1>9, <1>10, <1>11 DEF v, r

-----------------------------------------------------------------------------
(* What holds of the clerks, their network and the server in every state.    *)
THEOREM ClerkInvHolds == Spec => []ClerkInv
  BY InitInv, StepInv, PTL DEF Spec

(* No Put of a clerk is applied twice, however often Clerk.Put resends it    *)
(* and however late the network delivers it.                                 *)
THEOREM AtMostOnceHolds == Spec => []AtMostOnce
  BY ClerkInvHolds, InvAtMostOnce, PTL

(* What Clerk.Put returned stays true: OK was applied, ErrVersion never is.  *)
THEOREM TruthfulOutcomeHolds == Spec => []TruthfulOutcome
  BY ClerkInvHolds, InvTruthful, PTL

(* Clerk.Put's ErrMaybe at the version the key had when the call began means *)
(* that some Put was applied at that version.                                *)
THEOREM MaybeMeansTakenHolds == Spec => []MaybeMeansTaken
  BY ClerkInvHolds, InvMaybe, PTL

(***************************************************************************)
(* OnePut (kvtest.go:222, 229): no test client meets a result it calls     *)
(* fatal, for every number of clients, keys, Puts and failed calls: a Put  *)
(* at a version that was read never finds the key missing, and the entry   *)
(* found at the version a successful Put created carries its version.      *)
(***************************************************************************)
THEOREM NoneFatalHolds == TestSpec => []NoneFatal
  <1>1. TestSpec => [](ClerkInv /\ TestInv)
    BY InitTest, StepTest, PTL DEF TestSpec
  <1>2. TestInv => NoneFatal
    BY Zenon DEF TestInv, TestTypeOK, ClientTrue, NoneFatal
  <1> QED
    BY <1>1, <1>2, PTL

(* The history of Clerk.Get and Clerk.Put is linearizable with respect to    *)
(* the sequential model of the tests, but for Puts of a version the key did  *)
(* not have yet.                                                             *)
THEOREM LinearizableHolds == Spec => []Linearizable
  <1>1. Spec => [](ClerkInv /\ LogInv)
    BY InitInv, StepInv, InitLog, StepLog, PTL DEF Spec
  <1> QED
    BY <1>1, InvLinearizable, PTL

(***************************************************************************)
(* checkPorcupine (kvtest1/porcupine.go): every Put of the test clients    *)
(* is explained, also when late copies of it arrive after its return.      *)
(***************************************************************************)
THEOREM CheckPorcupineHolds == TestSpec => []CheckPorcupine
  <1>1. TestSpec => [](ClerkInv /\ TestInv /\ LogTestInv)
    BY InitTest, StepTest, InitLogTest, StepLogTest, PTL DEF TestSpec
  <1> QED
    BY <1>1, InvPorcupine, PTL

(***************************************************************************)
(* In a test run too the clerks keep their promises to the clients.        *)
(***************************************************************************)
THEOREM TestClerksHold ==
    TestSpec => [](AtMostOnce /\ TruthfulOutcome /\ MaybeMeansTaken /\ Linearizable)
  <1>1. TestSpec => [](ClerkInv /\ TestInv /\ LogTestInv)
    BY InitTest, StepTest, InitLogTest, StepLogTest, PTL DEF TestSpec
  <1>2. ClerkInv /\ LogTestInv =>
            AtMostOnce /\ TruthfulOutcome /\ MaybeMeansTaken /\ Linearizable
    BY ZenonT(40), InvAtMostOnce, InvTruthful, InvMaybe, InvLinearizable DEF LogTestInv
  <1> QED
    BY <1>1, <1>2, PTL
=============================================================================
