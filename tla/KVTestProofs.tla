---------------------------- MODULE KVTestProofs ----------------------------
(***************************************************************************)
(* CheckPutConcurrent of kvtest.go never fails: when the clients have      *)
(* returned, the versions at the server count their Puts, for every number *)
(* of clients, keys, Puts and failed calls.                                *)
(***************************************************************************)
EXTENDS KVClerkProofs, FiniteSetTheorems, WellFoundedInduction

Less == OpToRel(<, Nat)

LEMMA LeastExists ==
    ASSUME NEW T \in SUBSET Nat, T # {}
    PROVE  \E n \in T : \A m \in T : ~(m < n)
  <1>1. \E n \in T : \A m \in T : ~(<<m, n>> \in Less)
    BY ZenonT(40), WFMin, NatLessThanWellFounded DEF Less
  <1>2. \A m, n \in Nat : m < n => <<m, n>> \in Less
    BY Zenon DEF Less, OpToRel
  <1> QED
    BY ZenonT(40), <1>1, <1>2

(***************************************************************************)
(* Sums.  SumFunction takes the elements one by one, as CHOOSE picks them. *)
(* x is the function it is defined by, on a set D of sets of elements.     *)
(***************************************************************************)
Pick(s) == CHOOSE e \in s : TRUE

Sums(D, f, x) ==
    x = [s \in D |-> IF s = {} THEN 0 ELSE f[Pick(s)] + x[s \ {Pick(s)}]]

Small(S, n) == {s \in SUBSET S : Cardinality(s) <= n}

LEMMA Picked ==
    ASSUME NEW S, IsFiniteSet(S), NEW s \in SUBSET S, s # {}
    PROVE  /\ Pick(s) \in s /\ s \ {Pick(s)} \in SUBSET S
           /\ Cardinality(s) \in Nat
           /\ Cardinality(s \ {Pick(s)}) = Cardinality(s) - 1
           /\ Cardinality(s) # 0
  <1>1. Pick(s) \in s
    BY Zenon DEF Pick
  <1>2. IsFiniteSet(s)
    BY Zenon, FS_Subset
  <1> QED
    BY <1>1, <1>2, FS_RemoveElement, FS_EmptySet, FS_CardinalityType

LEMMA OneElementMore ==
    ASSUME NEW S, IsFiniteSet(S), NEW f, NEW n \in Nat, n # 0,
           NEW x, Sums(Small(S, n - 1), f, x)
    PROVE  \E y : Sums(Small(S, n), f, y)
  <1> DEFINE y == [s \in Small(S, n) |->
                    IF s = {} THEN 0 ELSE f[Pick(s)] + x[s \ {Pick(s)}]]
  <1>1. \A s \in Small(S, n - 1) : s \in Small(S, n) /\
            x[s] = IF s = {} THEN 0 ELSE f[Pick(s)] + x[s \ {Pick(s)}]
    <2>1. \A s \in SUBSET S : Cardinality(s) \in Nat
      BY ZenonT(40), FS_Subset, FS_CardinalityType
    <2>2. \A s \in Small(S, n - 1) : s \in Small(S, n)
      BY SMTT(30), <2>1 DEF Small
    <2> QED
      BY ZenonT(40), <2>2 DEF Sums
  <1>2. \A s \in Small(S, n - 1) : y[s] = x[s]
    BY ZenonT(40), <1>1
  <1>3. ASSUME NEW s \in Small(S, n), s # {}
        PROVE  s \ {Pick(s)} \in Small(S, n - 1)
    <2>1. s \in SUBSET S /\ Cardinality(s) <= n
      BY Zenon DEF Small
    <2>2. /\ Cardinality(s) \in Nat /\ s \ {Pick(s)} \in SUBSET S
          /\ Cardinality(s \ {Pick(s)}) = Cardinality(s) - 1
      BY ZenonT(40), <1>3, <2>1, Picked
    <2>3. Cardinality(s \ {Pick(s)}) <= n - 1
      BY SMTT(30), <2>1, <2>2
    <2> QED
      BY ZenonT(40), <2>2, <2>3 DEF Small
  <1>4. y = [s \in Small(S, n) |-> IF s = {} THEN 0 ELSE f[Pick(s)] + y[s \ {Pick(s)}]]
    <2>1. ASSUME NEW s \in Small(S, n)
          PROVE  y[s] = IF s = {} THEN 0 ELSE f[Pick(s)] + y[s \ {Pick(s)}]
      <3>1. CASE s = {}
        BY Zenon, <3>1
      <3>2. CASE s # {}
        <4>1. y[s \ {Pick(s)}] = x[s \ {Pick(s)}]
          BY ZenonT(40), <1>2, <1>3, <3>2
        <4>2. y[s] = f[Pick(s)] + x[s \ {Pick(s)}]
          BY Zenon, <3>2
        <4> QED
          BY ZenonT(40), <3>2, <4>1, <4>2
      <3> QED
        BY ZenonT(40), <3>1, <3>2
    <2>2. y = [s \in Small(S, n) |-> y[s]]
      BY Zenon
    <2> HIDE DEF y
    <2> QED
      BY ZenonT(40), <2>1, <2>2
  <1> HIDE DEF y
  <1> QED
    BY ZenonT(40), <1>4 DEF Sums

LEMMA SumsExist ==
    ASSUME NEW S, IsFiniteSet(S), NEW f
    PROVE  \E x : Sums(SUBSET S, f, x)
  <1> DEFINE T == {n \in Nat : ~ \E x : Sums(Small(S, n), f, x)}
  <1>1. ASSUME NEW n \in T, \A m \in T : ~(m < n)
        PROVE  FALSE
    <2>1. CASE n = 0
      <3>1. \A s \in Small(S, 0) : s = {}
        <4>1. \A s \in SUBSET S : IsFiniteSet(s)
          BY Zenon, FS_Subset
        <4>2. \A s \in SUBSET S : Cardinality(s) \in Nat /\ (Cardinality(s) = 0 <=> s = {})
          BY ZenonT(40), <4>1, FS_CardinalityType, FS_EmptySet
        <4> QED
          BY <4>2 DEF Small
      <3>2. Sums(Small(S, 0), f, [s \in Small(S, 0) |-> 0])
        BY <3>1 DEF Sums
      <3> QED
        BY ZenonT(40), <1>1, <2>1, <3>2
    <2>2. CASE n # 0
      <3>1. n \in Nat /\ n - 1 \in Nat /\ n - 1 < n
        BY SMTT(30), <2>2
      <3>2. \E x : Sums(Small(S, n - 1), f, x)
        BY ZenonT(40), <1>1, <3>1
      <3> QED
        BY ZenonT(40), <2>2, <3>1, <3>2, OneElementMore
    <2> QED
      BY ZenonT(40), <2>1, <2>2
  <1>2. T = {}
    BY ZenonT(40), <1>1, LeastExists
  <1>3. Cardinality(S) \in Nat /\ Small(S, Cardinality(S)) = SUBSET S
    BY SMTT(30), FS_CardinalityType, FS_Subset DEF Small
  <1>4. \E x : Sums(Small(S, Cardinality(S)), f, x)
    BY ZenonT(40), <1>2, <1>3
  <1> QED
    BY ZenonT(40), <1>3, <1>4

LEMMA SumIs ==
    ASSUME NEW f, IsFiniteSet(DOMAIN f)
    PROVE  \E x : Sums(SUBSET DOMAIN f, f, x) /\ SumFunction(f) = x[DOMAIN f]
  <1> DEFINE iter[s \in SUBSET DOMAIN f] ==
                IF s = {} THEN 0
                ELSE LET e == CHOOSE z \in s : TRUE
                     IN  f[e] + iter[s \ {e}]
  <1>0. PICK x : Sums(SUBSET DOMAIN f, f, x)
    BY ZenonT(40), SumsExist
  <1>1. Sums(SUBSET DOMAIN f, f, iter)
    BY ZenonT(40), <1>0 DEF Sums, Pick
  <1>2. SumFunction(f) = iter[DOMAIN f]
    BY Zenon DEF SumFunction, SumFunctionOnSet, FoldFunctionOnSet, MapThenFoldSet
  <1> QED
    BY ZenonT(40), <1>1, <1>2

(* What holds of {}, and of a set if of the set without the element picked   *)
(* from it, holds of every finite set.                                       *)
LEMMA SetInduction ==
    ASSUME NEW S, IsFiniteSet(S), NEW P \in SUBSET SUBSET S, {} \in P,
           \A s \in SUBSET S : s # {} /\ s \ {Pick(s)} \in P => s \in P
    PROVE  S \in P
  <1> DEFINE T == {n \in Nat : \E s \in SUBSET S : Cardinality(s) = n /\ s \notin P}
  <1>1. ASSUME NEW n \in T, \A m \in T : ~(m < n)
        PROVE  FALSE
    <2>1. PICK s \in SUBSET S : Cardinality(s) = n /\ s \notin P
      BY ZenonT(40)
    <2>2. s # {}
      BY ZenonT(40), <2>1
    <2>3. /\ s \ {Pick(s)} \in SUBSET S /\ Cardinality(s) \in Nat
          /\ Cardinality(s \ {Pick(s)}) = Cardinality(s) - 1
          /\ Cardinality(s) # 0
      BY ZenonT(40), <2>2, Picked
    <2>4. Cardinality(s \ {Pick(s)}) \in Nat /\ Cardinality(s \ {Pick(s)}) < n
      BY SMTT(30), <2>1, <2>3
    <2>5. s \ {Pick(s)} \in P
      BY ZenonT(40), <1>1, <2>3, <2>4
    <2> QED
      BY ZenonT(40), <2>1, <2>2, <2>5
  <1>2. T = {}
    BY ZenonT(40), <1>1, LeastExists
  <1> QED
    BY ZenonT(40), <1>2, FS_CardinalityType

(* A sum changes by as much as the one value that changes. *)
LEMMA SumUpdate ==
    ASSUME NEW S, IsFiniteSet(S), NEW f \in [S -> Nat], NEW g \in [S -> Nat],
           NEW e \in S, \A d \in S : d # e => g[d] = f[d]
    PROVE  /\ SumFunction(f) \in Nat /\ SumFunction(g) \in Nat
           /\ SumFunction(g) + f[e] = SumFunction(f) + g[e]
  <1>1. PICK x : Sums(SUBSET S, f, x) /\ SumFunction(f) = x[S]
    BY ZenonT(40), SumIs
  <1>2. PICK y : Sums(SUBSET S, g, y) /\ SumFunction(g) = y[S]
    BY ZenonT(40), SumIs
  <1>3. \A s \in SUBSET S :
            /\ x[s] = IF s = {} THEN 0 ELSE f[Pick(s)] + x[s \ {Pick(s)}]
            /\ y[s] = IF s = {} THEN 0 ELSE g[Pick(s)] + y[s \ {Pick(s)}]
    BY ZenonT(40), <1>1, <1>2 DEF Sums
  <1> DEFINE P == {s \in SUBSET S :
                    /\ x[s] \in Nat /\ y[s] \in Nat
                    /\ e \in s => y[s] + f[e] = x[s] + g[e]
                    /\ e \notin s => y[s] = x[s]}
  <1>4. {} \in P
    <2>1. x[{}] = 0 /\ y[{}] = 0
      BY ZenonT(40), <1>3
    <2>2. 0 \in Nat
      OBVIOUS
    <2> QED
      BY ZenonT(40), <2>1, <2>2
  <1>5. ASSUME NEW s \in SUBSET S, s # {}, s \ {Pick(s)} \in P
        PROVE  s \in P
    <2> DEFINE p == Pick(s)
               r == s \ {Pick(s)}
    <2>1. p \in s /\ p \in S /\ f[p] \in Nat /\ g[p] \in Nat /\ f[e] \in Nat /\ g[e] \in Nat
      BY ZenonT(40), <1>5, Picked
    <2>2. x[s] = f[p] + x[r] /\ y[s] = g[p] + y[r]
      BY ZenonT(40), <1>3, <1>5
    <2>3. /\ x[r] \in Nat /\ y[r] \in Nat
          /\ e \in r => y[r] + f[e] = x[r] + g[e]
          /\ e \notin r => y[r] = x[r]
      BY ZenonT(40), <1>5
    <2>4. e \in r <=> e \in s /\ e # p
      BY ZenonT(40)
    <2>5. p # e => g[p] = f[p]
      BY ZenonT(40), <2>1
    <2> HIDE DEF p, r
    <2>6. /\ x[s] \in Nat /\ y[s] \in Nat
          /\ e \in s => y[s] + f[e] = x[s] + g[e]
          /\ e \notin s => y[s] = x[s]
      BY SMTT(30), <2>1, <2>2, <2>3, <2>4, <2>5
    <2> QED
      BY ZenonT(40), <2>6
  <1>6. S \in P
    <2> HIDE DEF P
    <2>1. P \in SUBSET SUBSET S
      BY Zenon DEF P
    <2> QED
      BY ZenonT(40), <1>4, <1>5, <2>1, SetInduction
  <1> QED
    BY ZenonT(40), <1>1, <1>2, <1>6

LEMMA SumZero ==
    ASSUME NEW S, IsFiniteSet(S), NEW f \in [S -> Nat], \A d \in S : f[d] = 0
    PROVE  SumFunction(f) = 0
  <1>1. PICK x : Sums(SUBSET S, f, x) /\ SumFunction(f) = x[S]
    BY ZenonT(40), SumIs
  <1>2. \A s \in SUBSET S : x[s] = IF s = {} THEN 0 ELSE f[Pick(s)] + x[s \ {Pick(s)}]
    BY ZenonT(40), <1>1 DEF Sums
  <1> DEFINE P == {s \in SUBSET S : x[s] = 0}
  <1>3. {} \in P
    BY ZenonT(40), <1>2
  <1>4. ASSUME NEW s \in SUBSET S, s # {}, s \ {Pick(s)} \in P
        PROVE  s \in P
    <2>1. Pick(s) \in S /\ f[Pick(s)] = 0
      BY ZenonT(40), <1>4, Picked
    <2>2. x[s] = f[Pick(s)] + x[s \ {Pick(s)}] /\ x[s \ {Pick(s)}] = 0
      BY ZenonT(40), <1>2, <1>4
    <2> QED
      BY SMTT(30), <2>1, <2>2
  <1>5. S \in P
    <2> HIDE DEF P
    <2>1. P \in SUBSET SUBSET S
      BY Zenon DEF P
    <2> QED
      BY ZenonT(40), <1>3, <1>4, <2>1, SetInduction
  <1> QED
    BY ZenonT(40), <1>1, <1>5

-----------------------------------------------------------------------------
(***************************************************************************)
(* CountInv is inductive together with ClerkInv and TestInv: a sum changes *)
(* by as much as one of its terms, a set by one value, and both change in  *)
(* the same step.                                                          *)
(***************************************************************************)
(* One more value of a set. *)
LEMMA OneMore ==
    ASSUME NEW S, NEW T, NEW e, IsFiniteSet(S), e \notin S, T = S \union {e}
    PROVE  /\ IsFiniteSet(T) /\ Cardinality(S) \in Nat /\ Cardinality(T) = Cardinality(S) + 1
  BY SMTT(30), FS_AddElement, FS_CardinalityType

(* A Put returns r. *)
LEMMA ReturnedOne ==
    ASSUME NEW err, err # "pending", NEW r, NEW v \in Value,
           outcome \in [Value -> Outcome], outcome[v] = "pending",
           outcome' = [outcome EXCEPT ![v] = r], IsFiniteSet(Returned(err))
    PROVE  /\ IsFiniteSet(Returned(err)') /\ Cardinality(Returned(err)) \in Nat
           /\ Cardinality(Returned(err)') = Cardinality(Returned(err)) + (IF r = err THEN 1 ELSE 0)
  <1>1. CASE r = err
    <2>1. v \notin Returned(err) /\ Returned(err)' = Returned(err) \union {v}
      BY ZenonT(40), <1>1 DEF Returned
    <2>2. /\ IsFiniteSet(Returned(err)') /\ Cardinality(Returned(err)) \in Nat
          /\ Cardinality(Returned(err)') = Cardinality(Returned(err)) + 1
      BY ZenonT(40), <2>1, OneMore
    <2> QED
      BY ZenonT(40), <1>1, <2>2
  <1>2. CASE r # err
    <2>1. Returned(err)' = Returned(err)
      BY ZenonT(40), <1>2 DEF Returned
    <2>2. Cardinality(Returned(err)) \in Nat
      BY ZenonT(40), FS_CardinalityType
    <2> QED
      BY SMTT(30), <1>2, <2>1, <2>2
  <1> QED
    BY ZenonT(40), <1>1, <1>2

(* The applied Puts are counted by the versions. *)
LEMMA VersionsCount ==
    ASSUME ClerkInv, ClerkInv', VersionsTrue, VersionsStep
    PROVE  VersionsTrue'
  <1>0. /\ Versions \in [Key -> Nat] /\ Versions' \in [Key -> Nat] /\ IsFiniteSet(Key)
    <2>1. \A j \in Key : store[j].version \in Nat /\ store'[j].version \in Nat
      BY ZenonT(40) DEF ClerkInv, TypeOK, CallTypeOK, StoreTypeOK, ValueVersion
    <2> QED
      BY ZenonT(40), <2>1, TestAssumption DEF Versions
  <1>1. CASE Versions' = Versions /\ AppliedPuts' = AppliedPuts
    BY ZenonT(40), <1>1 DEF VersionsTrue
  <1>2. ASSUME NEW k \in Key, NEW v \in Value, VersionGrows(k, v)
        PROVE  VersionsTrue'
    <2>1. /\ IsFiniteSet(AppliedPuts') /\ Cardinality(AppliedPuts) \in Nat
          /\ Cardinality(AppliedPuts') = Cardinality(AppliedPuts) + 1
      BY ZenonT(40), <1>2, OneMore DEF VersionsTrue, VersionGrows
    <2>2. /\ Versions[k] \in Nat /\ Versions'[k] = Versions[k] + 1
          /\ \A j \in Key : j # k => Versions'[j] = Versions[j]
      BY ZenonT(40), <1>0, <1>2 DEF VersionGrows
    <2>3. /\ SumFunction(Versions) \in Nat /\ SumFunction(Versions') \in Nat
          /\ SumFunction(Versions') + Versions[k] = SumFunction(Versions) + Versions'[k]
      BY SMTT(30), <1>0, <2>2, SumUpdate
    <2>4. SumFunction(Versions') = SumFunction(Versions) + 1
      BY SMTT(30), <2>2, <2>3
    <2> QED
      BY ZenonT(40), <2>1, <2>4 DEF VersionsTrue
  <1> QED
    BY ZenonT(40), <1>1, <1>2 DEF VersionsStep

(* A Put that returns is counted once. *)
LEMMA PutJsonCounts ==
    ASSUME ClerkInv, TestTypeOK, TestTypeOK', CountsTrue, PutsKnown,
           NEW c \in Client, ClientTrue(c), PutJson(c)
    PROVE  CountsTrue' /\ VersionsStep /\ PutsKnown'
  <1> DEFINE v == call[c].value
             r == PutResult(c)
  <1>0. IsFiniteSet(Client)
    BY Zenon, TestAssumption
  <1>1. /\ \A d \in Client : d # c => OkCounts'[d] = OkCounts[d] /\ MaybeCounts'[d] = MaybeCounts[d]
        /\ OkCounts'[c] = OkCounts[c] + (IF r = OK THEN 1 ELSE 0)
        /\ MaybeCounts'[c] = MaybeCounts[c] + (IF r = ErrMaybe THEN 1 ELSE 0)
        /\ v \in Value /\ outcome[v] = "pending" /\ outcome' = [outcome EXCEPT ![v] = r]
        /\ VersionsStep /\ PutsKnown'
    BY ZenonT(40), PutJsonEffect
  <1> HIDE DEF v, r
  <1>2. /\ OkCounts \in [Client -> Nat] /\ OkCounts' \in [Client -> Nat]
        /\ MaybeCounts \in [Client -> Nat] /\ MaybeCounts' \in [Client -> Nat]
        /\ outcome \in [Value -> Outcome]
    BY ZenonT(40), CountsAre, CountsAreNext DEF ClerkInv, TypeOK
  <1>3. OK # "pending" /\ ErrMaybe # "pending"
    BY DEF OK, ErrMaybe
  <1>4. IsFiniteSet(Returned(OK)') /\ SumFunction(OkCounts') = Cardinality(Returned(OK)')
    <2>1. IsFiniteSet(Returned(OK)) /\ SumFunction(OkCounts) = Cardinality(Returned(OK))
      BY Zenon DEF CountsTrue
    <2>2. /\ \A d \in Client : d # c => OkCounts'[d] = OkCounts[d]
          /\ OkCounts'[c] = OkCounts[c] + (IF r = OK THEN 1 ELSE 0)
      BY ZenonT(40), <1>1
    <2>3. v \in Value /\ outcome[v] = "pending" /\ outcome' = [outcome EXCEPT ![v] = r]
      BY ZenonT(40), <1>1
    <2>4. /\ IsFiniteSet(Returned(OK)') /\ Cardinality(Returned(OK)) \in Nat
          /\ Cardinality(Returned(OK)') = Cardinality(Returned(OK)) + (IF r = OK THEN 1 ELSE 0)
      BY ZenonT(40), <1>2, <1>3, <2>1, <2>3, ReturnedOne
    <2>5. /\ SumFunction(OkCounts) \in Nat /\ SumFunction(OkCounts') \in Nat
          /\ SumFunction(OkCounts') + OkCounts[c] = SumFunction(OkCounts) + OkCounts'[c]
      BY SMTT(30), <1>0, <1>2, <2>2, SumUpdate
    <2>6. OkCounts[c] \in Nat
      BY ZenonT(40), <1>2
    <2> QED
      BY SMTT(30), <2>1, <2>2, <2>4, <2>5, <2>6
  <1>5. /\ IsFiniteSet(Returned(ErrMaybe)')
        /\ SumFunction(MaybeCounts') = Cardinality(Returned(ErrMaybe)')
    <2>1. /\ IsFiniteSet(Returned(ErrMaybe))
          /\ SumFunction(MaybeCounts) = Cardinality(Returned(ErrMaybe))
      BY Zenon DEF CountsTrue
    <2>2. /\ \A d \in Client : d # c => MaybeCounts'[d] = MaybeCounts[d]
          /\ MaybeCounts'[c] = MaybeCounts[c] + (IF r = ErrMaybe THEN 1 ELSE 0)
      BY ZenonT(40), <1>1
    <2>3. v \in Value /\ outcome[v] = "pending" /\ outcome' = [outcome EXCEPT ![v] = r]
      BY Zenon, <1>1
    <2>4. /\ IsFiniteSet(Returned(ErrMaybe)') /\ Cardinality(Returned(ErrMaybe)) \in Nat
          /\ Cardinality(Returned(ErrMaybe)') = Cardinality(Returned(ErrMaybe)) + (IF r = ErrMaybe THEN 1 ELSE 0)
      BY ZenonT(40), <1>2, <1>3, <2>1, <2>3, ReturnedOne
    <2>5. /\ SumFunction(MaybeCounts) \in Nat /\ SumFunction(MaybeCounts') \in Nat
          /\ SumFunction(MaybeCounts') + MaybeCounts[c] = SumFunction(MaybeCounts) + MaybeCounts'[c]
      BY SMTT(30), <1>0, <1>2, <2>2, SumUpdate
    <2>6. MaybeCounts[c] \in Nat
      BY ZenonT(40), <1>2
    <2> QED
      BY SMTT(30), <2>1, <2>2, <2>4, <2>5, <2>6
  <1> QED
    BY ZenonT(40), <1>1, <1>4, <1>5 DEF CountsTrue

LEMMA InitCounts == TestInit => CountInv
  <1> SUFFICES ASSUME TestInit
               PROVE  CountsTrue /\ VersionsTrue /\ PutsKnown
    BY Zenon DEF CountInv
  <1>0. IsFiniteSet(Client) /\ IsFiniteSet(Key) /\ IsFiniteSet({}) /\ Cardinality({}) = 0
    BY ZenonT(40), TestAssumption, FS_EmptySet
  <1>1. /\ store = [k \in Key |-> Absent] /\ hist = [k \in Key |-> <<>>]
        /\ call = [c \in Client |-> NoCall] /\ outcome = [v \in Value |-> "unused"]
    BY Zenon DEF TestInit, Init, CallInit, MakeKVServer
  <1>2. \A c \in Client : client[c] = [at |-> "loop", key |-> SomeKey, err |-> OK,
                                       verm |-> [j \in Key |-> 0], Nok |-> 0, Nmaybe |-> 0]
    BY ZenonT(40) DEF TestInit
  <1>3. \A e \in {OK, ErrMaybe} : Returned(e) = {}
    <2>1. \A e \in {OK, ErrMaybe} : e # "unused"
      BY DEF OK, ErrMaybe
    <2> QED
      BY ZenonT(40), <1>1, <2>1 DEF Returned
  <1>4. CountsTrue
    <2>1. \A c \in Client : client[c].at = "loop" /\ client[c].Nok = 0 /\ client[c].Nmaybe = 0
      BY SMTT(30), <1>2
    <2>2. \A c \in Client : \A e : Uncounted(c, e) = 0
      BY SMTT(30), <2>1 DEF Uncounted
    <2>3. \A c \in Client : /\ client[c].Nok + Uncounted(c, OK) = 0
                            /\ client[c].Nmaybe + Uncounted(c, ErrMaybe) = 0
      BY SMTT(30), <2>1, <2>2
    <2>4. 0 \in Nat
      OBVIOUS
    <2>5. /\ OkCounts \in [Client -> Nat] /\ \A c \in Client : OkCounts[c] = 0
          /\ MaybeCounts \in [Client -> Nat] /\ \A c \in Client : MaybeCounts[c] = 0
      BY ZenonT(40), <2>3, <2>4 DEF OkCounts, MaybeCounts
    <2>6. SumFunction(OkCounts) = 0 /\ SumFunction(MaybeCounts) = 0
      BY ZenonT(40), <1>0, <2>5, SumZero
    <2> QED
      BY ZenonT(40), <1>0, <1>3, <2>6 DEF CountsTrue
  <1>5. VersionsTrue
    <2>1. \A k \in Key : store[k].version = 0 /\ 0 \in Nat
      BY ZenonT(40), <1>1 DEF Absent
    <2>2. Versions \in [Key -> Nat] /\ \A k \in Key : Versions[k] = 0
      BY ZenonT(40), <2>1 DEF Versions
    <2>3. SumFunction(Versions) = 0
      BY ZenonT(40), <1>0, <2>2, SumZero
    <2>4. \A k \in Key : 1 .. Len(hist[k]) = {}
      <3>1. \A k \in Key : hist[k] = <<>>
        BY ZenonT(40), <1>1
      <3>2. 1 .. Len(<<>>) = {}
        OBVIOUS
      <3> QED
        BY ZenonT(40), <3>1, <3>2
    <2>5. AppliedPuts = {}
      BY ZenonT(40), <2>4 DEF AppliedPuts, Applied
    <2> QED
      BY ZenonT(40), <1>0, <2>3, <2>5 DEF VersionsTrue
  <1>6. PutsKnown
    <2>1. \A v \in Value : outcome[v] = "unused" /\ "unused" # "pending" /\ "unused" # ErrNoKey
      BY SMTT(30), <1>1 DEF ErrNoKey
    <2>2. \A c \in Client : call[c].op # "Put"
      BY SMTT(30), <1>1 DEF NoCall
    <2> QED
      BY ZenonT(40), <1>3, <2>1, <2>2 DEF PutsKnown
  <1> QED
    BY ZenonT(40), <1>4, <1>5, <1>6

LEMMA StepCounts ==
    ClerkInv /\ TestInv /\ CountInv /\ [TestNext]_allVars => CountInv'
  <1> SUFFICES ASSUME ClerkInv, TestInv, CountInv, [TestNext]_allVars, test' = "OneClientPut"
               PROVE  CountsTrue' /\ VersionsTrue' /\ PutsKnown'
    BY Zenon DEF CountInv
  <1>1. /\ ClerkInv' /\ TestInv' /\ TestTypeOK /\ TestTypeOK'
    BY ZenonT(40), StepTest DEF TestInv
  <1>2. test = "OneClientPut"
    BY ZenonT(40) DEF TestNext, AnyApplication, TestClient, TestNetwork, TestLate, TestOver,
                 Running, allVars, testVars
  <1>3. CountsTrue /\ VersionsTrue /\ PutsKnown /\ \A c \in Client : ClientTrue(c)
    BY ZenonT(40), <1>2 DEF CountInv, TestInv
  <1>4. ASSUME UNCHANGED <<vars, client>>
        PROVE  CountsTrue' /\ VersionsStep /\ PutsKnown'
    <2>1. UNCHANGED <<store, hist, outcome, call, drops>>
      BY ZenonT(40), <1>4 DEF vars, callVars, historyVars
    <2> QED
      BY ZenonT(40), <1>3, <1>4, <2>1, SameCounts, VersionsSame, PutsKept
  <1>5. ASSUME NEW c \in Client, TestClient(c)
        PROVE  CountsTrue' /\ VersionsStep /\ PutsKnown'
    <2>1. OneClientPut(c)
      BY ZenonT(40), <1>5 DEF TestClient
    <2>2. CASE \E k \in Key : OnePut(c, k)
      BY ZenonT(40), <1>1, <1>3, <2>2, OnePutCounts
    <2>3. CASE PutJson(c)
      BY ZenonT(40), <1>1, <1>3, <2>3, PutJsonCounts
    <2>4. CASE OnePutGet(c)
      BY ZenonT(40), <1>1, <1>3, <2>4, OnePutGetCounts
    <2>5. CASE GetJson(c)
      BY ZenonT(40), <1>1, <1>3, <2>5, GetJsonCounts
    <2>6. CASE ClientDone(c)
      BY ZenonT(40), <1>1, <1>3, <2>6, ClientDoneCounts
    <2> QED
      BY ZenonT(40), <2>1, <2>2, <2>3, <2>4, <2>5, <2>6 DEF OneClientPut
  <1>6. ASSUME NEW c \in Client, TestNetwork(c)
        PROVE  CountsTrue' /\ VersionsStep /\ PutsKnown'
    BY ZenonT(40), <1>1, <1>3, <1>6, NetworkCounts DEF TestNetwork
  <1>7. ASSUME TestLate
        PROVE  CountsTrue' /\ VersionsStep /\ PutsKnown'
    BY ZenonT(40), <1>1, <1>3, <1>7, LateCounts DEF TestLate
  <1>8. ASSUME TestOver
        PROVE  CountsTrue' /\ VersionsStep /\ PutsKnown'
    BY ZenonT(40), <1>4, <1>8 DEF TestOver
  <1>9. ASSUME UNCHANGED allVars
        PROVE  CountsTrue' /\ VersionsStep /\ PutsKnown'
    BY ZenonT(40), <1>4, <1>9 DEF allVars, testVars
  <1>10. ~AnyApplication
    BY ZenonT(40), <1>2 DEF AnyApplication, Running
  <1>11. CountsTrue' /\ VersionsStep /\ PutsKnown'
    BY ZenonT(40), <1>5, <1>6, <1>7, <1>8, <1>9, <1>10 DEF TestNext
  <1> QED
    BY ZenonT(40), <1>1, <1>3, <1>11, VersionsCount

(* When the clients have returned, no Put is pending: one that was applied   *)
(* returned OK or ErrMaybe, and every one that returned OK was applied.      *)
LEMMA InvPutsCounted == ClerkInv /\ TestInv /\ CountInv => PutsCounted
  <1> DEFINE Nok == SumFunction([c \in Client |-> client[c].Nok])
             Nmaybe == SumFunction([c \in Client |-> client[c].Nmaybe])
             puts == SumFunction(Versions)
             ok == Returned(OK)
             maybe == Returned(ErrMaybe)
  <1> SUFFICES ASSUME ClerkInv, TestInv, CountInv, \A c \in Client : client[c].at = "done"
               PROVE  Nok <= puts /\ CheckPutConcurrent(Nok, Nmaybe, puts)
    BY ZenonT(40) DEF PutsCounted
  <1>1. test = "OneClientPut"
    <2>1. test = "any" => \A c \in Client : client[c].at = "loop"
      BY ZenonT(40) DEF TestInv
    <2>2. Client # {} /\ test \in {"any", "OneClientPut"}
      BY ZenonT(40), TestAssumption DEF TestInv, TestTypeOK
    <2> QED
      BY SMTT(30), <2>1, <2>2
  <1>2. /\ TypeOK /\ CallsKnown /\ TestTypeOK /\ TruthfulOutcome
        /\ CountsTrue /\ VersionsTrue /\ PutsKnown /\ \A c \in Client : ClientTrue(c)
    BY ZenonT(40), <1>1, InvTruthful DEF ClerkInv, TestInv, CountInv
  <1>3. \A v \in Value : outcome[v] # "pending"
    <2>1. \A c \in Client : client[c].at \notin {"put", "get"}
      OBVIOUS
    <2>2. \A c \in Client : Quiet(c)
      BY ZenonT(40), <1>2, <2>1 DEF ClientTrue, Quiet
    <2>3. \A c \in Client : net[c].at = "none"
      BY ZenonT(40), <2>2, QuietAt
    <2>4. \A c \in Client : call[c].op = "none"
      BY ZenonT(40), <1>2, <2>3 DEF CallsKnown
    <2>5. \A c \in Client : call[c].op # "Put"
      BY SMTT(30), <2>4
    <2> QED
      BY ZenonT(40), <1>2, <2>5 DEF PutsKnown
  <1>4. ok \subseteq AppliedPuts /\ AppliedPuts \subseteq ok \union maybe
    <2>1. ok \subseteq AppliedPuts
      BY ZenonT(40), <1>2 DEF TruthfulOutcome, Returned, AppliedPuts
    <2>2. ASSUME NEW v \in Value, Applied(v)
          PROVE  outcome[v] = OK \/ outcome[v] = ErrMaybe
      <3>1. outcome[v] \in Outcome /\ outcome[v] # "pending" /\ outcome[v] # ErrNoKey
        BY ZenonT(40), <1>2, <1>3 DEF TypeOK, PutsKnown
      <3>2. outcome[v] # ErrVersion /\ outcome[v] # "unused"
        BY ZenonT(40), <1>2, <2>2 DEF TruthfulOutcome
      <3> QED
        BY ZenonT(40), <3>1, <3>2 DEF Outcome
    <2> QED
      BY ZenonT(40), <2>1, <2>2 DEF Returned, AppliedPuts
  <1>5. Nok = Cardinality(ok) /\ Nmaybe = Cardinality(maybe)
    <2>1. \A c \in Client : \A e : Uncounted(c, e) = 0
      BY SMTT(30) DEF Uncounted
    <2>2. \A c \in Client : /\ client[c].Nok + Uncounted(c, OK) = client[c].Nok
                            /\ client[c].Nmaybe + Uncounted(c, ErrMaybe) = client[c].Nmaybe
      <3>1. \A c \in Client : client[c].Nok \in Nat /\ client[c].Nmaybe \in Nat
        BY ZenonT(40), <1>2, CountsAre
      <3> QED
        BY SMTT(30), <2>1, <3>1
    <2>3. /\ OkCounts = [c \in Client |-> client[c].Nok]
          /\ MaybeCounts = [c \in Client |-> client[c].Nmaybe]
      BY ZenonT(40), <2>2 DEF OkCounts, MaybeCounts
    <2> QED
      BY ZenonT(40), <1>2, <2>3 DEF CountsTrue
  <1>6. puts = Cardinality(AppliedPuts)
    BY ZenonT(40), <1>2 DEF VersionsTrue
  <1>7. IsFiniteSet(ok) /\ IsFiniteSet(maybe) /\ IsFiniteSet(AppliedPuts) /\ IsFiniteSet(ok \union maybe)
    BY ZenonT(40), <1>2, FS_Union DEF CountsTrue, VersionsTrue
  <1>8. Cardinality(ok) <= Cardinality(AppliedPuts)
    BY ZenonT(40), <1>4, <1>7, FS_Subset
  <1>9. Cardinality(AppliedPuts) <= Cardinality(ok \union maybe)
    BY ZenonT(40), <1>4, <1>7, FS_Subset
  <1>10. /\ Cardinality(ok) \in Nat /\ Cardinality(maybe) \in Nat
         /\ Cardinality(AppliedPuts) \in Nat /\ Cardinality(ok \union maybe) \in Nat
         /\ Cardinality(ok \cap maybe) \in Nat
    <2>1. IsFiniteSet(ok \cap maybe)
      BY ZenonT(40), <1>7, FS_Intersection
    <2> QED
      BY ZenonT(40), <1>7, <2>1, FS_CardinalityType
  <1>11. Cardinality(ok \union maybe) =
            Cardinality(ok) + Cardinality(maybe) - Cardinality(ok \cap maybe)
    BY ZenonT(40), <1>7, FS_Union
  <1>12. drops = 0 => Cardinality(maybe) = 0
    BY ZenonT(40), <1>2, FS_EmptySet DEF PutsKnown
  <1> HIDE DEF Nok, Nmaybe, puts, ok, maybe
  <1>13. Nok <= puts /\ puts <= Nok + Nmaybe /\ (drops = 0 => puts = Nok)
    BY SMTT(30), <1>5, <1>6, <1>8, <1>9, <1>10, <1>11, <1>12
  <1> QED
    BY ZenonT(40), <1>13 DEF CheckPutConcurrent

(***************************************************************************)
(* CheckPutConcurrent (kvtest.go:137-151): when the clients have returned, *)
(* the versions at the server count the Puts, for every number of clients, *)
(* keys, Puts and failed calls.                                            *)
(***************************************************************************)
THEOREM PutsCountedHolds == TestSpec => []PutsCounted
  <1>1. TestInit => ClerkInv /\ TestInv /\ CountInv
    BY ZenonT(40), InitTest, InitCounts
  <1>2. ClerkInv /\ TestInv /\ CountInv /\ [TestNext]_allVars => (ClerkInv /\ TestInv /\ CountInv)'
    BY ZenonT(40), StepTest, StepCounts
  <1> QED
    BY <1>1, <1>2, InvPutsCounted, PTL DEF TestSpec
=============================================================================
