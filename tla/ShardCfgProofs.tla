--------------------------- MODULE ShardCfgProofs ---------------------------
(***************************************************************************)
(* Join, Leave and Rebalance are correct for any number of shards, groups  *)
(* and calls.                                                              *)
(***************************************************************************)
EXTENDS ShardCfg, FiniteSetTheorems, WellFoundedInduction, TLAPS

(* A nonempty set of numbers has a least element, and Min chooses it. *)
Less == OpToRel(<, Nat)

LEMMA LessWellFounded == IsWellFoundedOn(Less, Nat)
  BY Zenon, NatLessThanWellFounded DEF Less

LEMMA LessIsLess == \A x, y \in Nat : x < y => <<x, y>> \in Less
  BY Zenon DEF Less, OpToRel

LEMMA LeastOf ==
    ASSUME NEW S \in SUBSET Nat, S # {}
    PROVE  \E x \in S : \A y \in S : x =< y
  <1>1. PICK x \in S : \A y \in S : ~(<<y, x>> \in Less)
    BY Zenon, LessWellFounded, WFMin
  <1>2. \A y \in S : ~(y < x)
    BY <1>1, LessIsLess, Zenon
  <1> QED
    BY <1>2

LEMMA MinIn ==
    ASSUME NEW S \in SUBSET Nat, S # {}
    PROVE  Min(S) \in S
  BY Zenon, LeastOf DEF Min

-----------------------------------------------------------------------------
(* The counts of analyze. *)
LEMMA ShardFinite == IsFiniteSet(Shard) /\ Cardinality(Shard) = NShards
  <1>1. 0 \in Int /\ NShards - 1 \in Int /\ NShards \in Nat /\ NShards > 0
    BY ShardCfgAssumption
  <1>2. 0 <= NShards - 1 /\ NShards - 1 - 0 + 1 = NShards
    BY <1>1
  <1> QED
    BY <1>1, <1>2, FS_Interval DEF Shard

LEMMA CountsType ==
    ASSUME NEW c, NEW g
    PROVE  counts(c, g) \in 0 .. NShards
  <1>1. {s \in Shard : c.Shards[s] = g} \in SUBSET Shard
    BY Zenon
  <1>2. IsFiniteSet({s \in Shard : c.Shards[s] = g})
    BY Zenon, <1>1, ShardFinite, FS_Subset
  <1>3. /\ counts(c, g) \in Nat
        /\ counts(c, g) <= NShards
    BY Zenon, <1>1, <1>2, ShardFinite, FS_Subset, FS_CardinalityType DEF counts
  <1> QED
    BY <1>3, ShardCfgAssumption

(* The scans of analyze find a least and a most loaded group. *)
LEMMA LeastLoaded ==
    ASSUME NEW c \in ShardConfig, c.Groups # {}
    PROVE  /\ least(c) \in c.Groups
           /\ \A h \in c.Groups : counts(c, least(c)) <= counts(c, h)
  <1> DEFINE L == {g \in c.Groups : \A h \in c.Groups : counts(c, g) <= counts(c, h)}
  <1> DEFINE V == {counts(c, g) : g \in c.Groups}
  <1>1. V \in SUBSET Nat /\ V # {}
    BY CountsType
  <1>2. PICK v \in V : \A w \in V : v <= w
    BY Zenon, <1>1, LeastOf
  <1>3. PICK g \in c.Groups : v = counts(c, g)
    BY Zenon
  <1>4. g \in L
    BY Zenon, <1>2, <1>3
  <1>5. L \in SUBSET Nat /\ L # {}
    BY Zenon, <1>4, ShardCfgAssumption DEF ShardConfig
  <1>6. Min(L) \in L
    BY Zenon, <1>5, MinIn
  <1> QED
    BY Zenon, <1>6 DEF least

LEMMA MostLoaded ==
    ASSUME NEW c \in ShardConfig, c.Groups # {}
    PROVE  /\ most(c) \in c.Groups
           /\ \A h \in c.Groups : counts(c, h) <= counts(c, most(c))
  <1> DEFINE L == {g \in c.Groups : \A h \in c.Groups : counts(c, g) >= counts(c, h)}
  <1> DEFINE V == {NShards - counts(c, g) : g \in c.Groups}
  <1>1. ASSUME NEW g \in c.Groups
        PROVE  NShards - counts(c, g) \in Nat
    BY CountsType, ShardCfgAssumption
  <1>2. V \in SUBSET Nat /\ V # {}
    BY Zenon, <1>1
  <1>3. PICK v \in V : \A w \in V : v <= w
    BY Zenon, <1>2, LeastOf
  <1>4. PICK g \in c.Groups : v = NShards - counts(c, g)
    BY Zenon
  <1>5. ASSUME NEW h \in c.Groups
        PROVE  counts(c, g) >= counts(c, h)
    <2>1. NShards - counts(c, g) <= NShards - counts(c, h)
      BY Zenon, <1>3, <1>4
    <2>2. counts(c, g) \in 0 .. NShards /\ counts(c, h) \in 0 .. NShards
      BY Zenon, CountsType
    <2> QED
      BY <2>1, <2>2, ShardCfgAssumption
  <1>6. g \in L
    BY Zenon, <1>5
  <1>7. L \in SUBSET Nat /\ L # {}
    BY Zenon, <1>6, ShardCfgAssumption DEF ShardConfig
  <1>8. Min(L) \in L
    BY Zenon, <1>7, MinIn
  <1>9. most(c) \in L
    BY Zenon, <1>8 DEF most
  <1>10. \A h \in c.Groups : counts(c, h) <= counts(c, most(c))
    BY Zenon, <1>9, CountsType
  <1> QED
    BY Zenon, <1>9, <1>10

(* Giving a shard to another group. *)
LEMMA Recount ==
    ASSUME NEW c \in ShardConfig, NEW s \in Shard, NEW h, c.Shards[s] # h, NEW d,
           \A t \in Shard : d.Shards[t] = IF t = s THEN h ELSE c.Shards[t]
    PROVE  /\ counts(d, h) = counts(c, h) + 1
           /\ counts(d, c.Shards[s]) = counts(c, c.Shards[s]) - 1
           /\ \A g : g # h /\ g # c.Shards[s] => counts(d, g) = counts(c, g)
  <1> DEFINE At(x, g) == {t \in Shard : x.Shards[t] = g}
  <1>1. \A x, g : IsFiniteSet(At(x, g))
    BY Zenon, ShardFinite, FS_Subset
  <1>2. At(d, h) = At(c, h) \cup {s} /\ s \notin At(c, h)
    BY Zenon
  <1>3. At(d, c.Shards[s]) = At(c, c.Shards[s]) \ {s} /\ s \in At(c, c.Shards[s])
    BY Zenon
  <1>4. \A g : g # h /\ g # c.Shards[s] => At(d, g) = At(c, g)
    BY Zenon
  <1>n. \A x, g : counts(x, g) = Cardinality(At(x, g))
    BY Zenon DEF counts
  <1> HIDE DEF At
  <1>5. Cardinality(At(c, h) \cup {s}) = Cardinality(At(c, h)) + 1
    BY Zenon, <1>1, <1>2, FS_AddElement
  <1>6. Cardinality(At(c, c.Shards[s]) \ {s}) = Cardinality(At(c, c.Shards[s])) - 1
    BY Zenon, <1>1, <1>3, FS_RemoveElement
  <1>7. \A g : g # h /\ g # c.Shards[s] => counts(d, g) = counts(c, g)
    BY Zenon, <1>4, <1>n
  <1> QED
    BY Zenon, <1>n, <1>2, <1>3, <1>5, <1>6, <1>7

(* The exit of the second loop: every two groups are within one. *)
LEMMA SettledMeans ==
    ASSUME NEW c \in ShardConfig, c.Groups # {}
    PROVE  Settled(c) <=> Within(c, c.Groups, c.Groups)
  <1>1. /\ least(c) \in c.Groups /\ most(c) \in c.Groups
        /\ \A h \in c.Groups : /\ counts(c, least(c)) <= counts(c, h)
                               /\ counts(c, h) <= counts(c, most(c))
    BY Zenon, LeastLoaded, MostLoaded
  <1>2. \A h : counts(c, h) \in Nat
    BY CountsType
  <1>3. ASSUME Settled(c) PROVE Within(c, c.Groups, c.Groups)
    BY <1>1, <1>2, <1>3 DEF Settled, Within
  <1>4. ASSUME Within(c, c.Groups, c.Groups) PROVE Settled(c)
    BY <1>1, <1>2, <1>4 DEF Settled, Within
  <1> QED
    BY Zenon, <1>3, <1>4

(***************************************************************************)
(* The two ways in which Rebalance gives a shard away.  An unowned shard   *)
(* goes to the least loaded group, which keeps any groups within one of    *)
(* any others ...                                                          *)
(***************************************************************************)
LEMMA AssignDeal ==
    ASSUME NEW c \in ShardConfig, c.Groups # {},
           NEW s \in Shard, c.Shards[s] \notin c.Groups, NEW d,
           \A t \in Shard : d.Shards[t] = IF t = s THEN least(c) ELSE c.Shards[t],
           NEW S \in SUBSET c.Groups, NEW T \in SUBSET c.Groups, Within(c, S, T)
    PROVE  Within(d, S, T)
  <1>1. /\ least(c) \in c.Groups
        /\ \A h \in c.Groups : counts(c, least(c)) <= counts(c, h)
    BY Zenon, LeastLoaded
  <1>2. counts(d, least(c)) = counts(c, least(c)) + 1
    BY <1>1, Recount
  <1>3. \A g \in c.Groups : g # least(c) => counts(d, g) = counts(c, g)
    BY <1>1, Recount
  <1>4. \A g : counts(c, g) \in Nat
    BY CountsType
  <1>5. ASSUME NEW g \in S, NEW h \in T
        PROVE  counts(d, g) <= counts(d, h) + 1
    <2>1. g \in c.Groups /\ h \in c.Groups /\ counts(c, g) <= counts(c, h) + 1
      BY Zenon DEF Within
    <2>2. counts(c, least(c)) <= counts(c, h)
      BY Zenon, <1>1, <2>1
    <2> QED
      BY <1>2, <1>3, <1>4, <2>1, <2>2
  <1> QED
    BY Zenon, <1>5 DEF Within

(***************************************************************************)
(* ... and while two groups differ by two or more the least loaded one is  *)
(* a group that joins, and takes a shard from one that stays.              *)
(***************************************************************************)
LEMMA MoveSource ==
    ASSUME NEW c \in ShardConfig, c.Groups # {}, ~Settled(c),
           NEW K, NEW J, c.Groups = K \cup J,
           Within(c, K, K), Within(c, J, J), Within(c, J, K)
    PROVE  least(c) \in J \ K /\ most(c) \in K \ J
  <1>1. least(c) \in K \cup J /\ most(c) \in K \cup J
    BY Zenon, LeastLoaded, MostLoaded
  <1>2. counts(c, most(c)) \in Nat /\ counts(c, least(c)) \in Nat
    BY CountsType
  <1>3. ~(counts(c, most(c)) <= counts(c, least(c)) + 1)
    BY <1>2 DEF Settled
  <1> QED
    BY Zenon, <1>1, <1>3 DEF Within

LEMMA MoveDeal ==
    ASSUME NEW c \in ShardConfig, c.Groups # {}, ~Settled(c),
           NEW K, NEW J, c.Groups = K \cup J,
           Within(c, K, K), Within(c, J, J), Within(c, J, K),
           NEW s \in Shard, c.Shards[s] = most(c), NEW d,
           \A t \in Shard : d.Shards[t] = IF t = s THEN least(c) ELSE c.Shards[t]
    PROVE  Within(d, K, K) /\ Within(d, J, J) /\ Within(d, J, K)
  <1> DEFINE l == least(c)
             m == most(c)
  <1>1. l \in J \ K /\ m \in K \ J
    BY Zenon, MoveSource
  <1>2. \A h \in K \cup J : counts(c, l) <= counts(c, h) /\ counts(c, h) <= counts(c, m)
    BY Zenon, LeastLoaded, MostLoaded
  <1>a. c.Shards[s] # l
    BY Zenon, <1>1
  <1>3. /\ counts(d, l) = counts(c, l) + 1
        /\ counts(d, m) = counts(c, m) - 1
        /\ \A g : g # l /\ g # m => counts(d, g) = counts(c, g)
    <2>1. /\ counts(d, l) = counts(c, l) + 1
          /\ counts(d, c.Shards[s]) = counts(c, c.Shards[s]) - 1
          /\ \A g : g # l /\ g # c.Shards[s] => counts(d, g) = counts(c, g)
      BY <1>a, Recount
    <2> QED
      BY Zenon, <2>1
  <1>4. \A g : counts(c, g) \in Nat
    BY CountsType
  <1>5. counts(c, l) + 2 <= counts(c, m)
    BY <1>4 DEF Settled
  <1> HIDE DEF l, m
  <1>6. ASSUME NEW g \in K, NEW h \in K PROVE counts(d, g) <= counts(d, h) + 1
    <2>1. counts(c, g) <= counts(c, h) + 1 /\ g # l /\ h # l
      BY Zenon, <1>1 DEF Within
    <2>2. counts(c, g) <= counts(c, m)
      BY Zenon, <1>2
    <2> QED
      BY <1>3, <1>4, <2>1, <2>2
  <1>7. ASSUME NEW g \in J, NEW h \in J PROVE counts(d, g) <= counts(d, h) + 1
    <2>1. counts(c, g) <= counts(c, h) + 1 /\ g # m /\ h # m
      BY Zenon, <1>1 DEF Within
    <2>2. counts(c, l) <= counts(c, h)
      BY Zenon, <1>2
    <2> QED
      BY <1>3, <1>4, <2>1, <2>2
  <1>8. ASSUME NEW g \in J, NEW h \in K PROVE counts(d, g) <= counts(d, h) + 1
    <2>1. counts(c, g) <= counts(c, h) + 1 /\ g # m /\ h # l
      BY Zenon, <1>1 DEF Within
    <2>2. counts(c, l) <= counts(c, h) /\ counts(c, g) <= counts(c, m)
      BY Zenon, <1>2
    <2> QED
      BY <1>3, <1>4, <1>5, <2>1, <2>2
  <1> QED
    BY Zenon, <1>6, <1>7, <1>8 DEF Within

-----------------------------------------------------------------------------
(* The gids the loop of Join or Leave has still to treat. *)
LEMMA Gids ==
    ASSUME gids \in Seq(Gid), gids # <<>>
    PROVE  /\ Head(gids) \in Gid
           /\ Tail(gids) \in Seq(Gid)
           /\ Range(gids) = {Head(gids)} \cup Range(Tail(gids))
  <1>1. Head(gids) \in Gid /\ Tail(gids) \in Seq(Gid)
    OBVIOUS
  <1>2. /\ Len(gids) \in Nat \ {0}
        /\ DOMAIN gids = 1 .. Len(gids)
        /\ DOMAIN Tail(gids) = 1 .. (Len(gids) - 1)
        /\ \A i \in 1 .. (Len(gids) - 1) : Tail(gids)[i] = gids[i + 1]
        /\ Head(gids) = gids[1]
    OBVIOUS
  <1>3. ASSUME NEW i \in DOMAIN gids
        PROVE  gids[i] \in {Head(gids)} \cup Range(Tail(gids))
    <2>1. CASE i = 1
      BY Zenon, <1>2, <2>1
    <2>2. CASE i # 1
      <3>1. i - 1 \in 1 .. (Len(gids) - 1) /\ (i - 1) + 1 = i
        BY <1>2, <2>2
      <3> QED
        BY Zenon, <1>2, <3>1 DEF Range
    <2> QED
      BY Zenon, <2>1, <2>2
  <1>4. ASSUME NEW i \in DOMAIN Tail(gids)
        PROVE  Tail(gids)[i] \in Range(gids)
    <2>1. i + 1 \in DOMAIN gids /\ Tail(gids)[i] = gids[i + 1]
      BY <1>2
    <2> QED
      BY Zenon, <2>1 DEF Range
  <1>5. Head(gids) \in Range(gids)
    <2>1. 1 \in DOMAIN gids
      BY <1>2
    <2> QED
      BY Zenon, <1>2, <2>1 DEF Range
  <1> QED
    BY Zenon, <1>1, <1>3, <1>4, <1>5 DEF Range

(* The types of the two configurations. *)
LEMMA Configs ==
    ASSUME TypeOK
    PROVE  /\ cfg \in ShardConfig /\ new \in ShardConfig
           /\ cfg.Shards \in [Shard -> Gid \cup {0}] /\ new.Shards \in [Shard -> Gid \cup {0}]
           /\ cfg.Groups \in SUBSET Gid /\ new.Groups \in SUBSET Gid
           /\ new.Num \in Nat
           /\ 0 \notin Gid
  <1>1. cfg \in ShardConfig /\ new \in ShardConfig
    BY Zenon DEF TypeOK
  <1> QED
    BY Zenon, <1>1, ShardCfgAssumption DEF ShardConfig

LEMMA InitInv == Init => IInv
  <1> SUFFICES ASSUME Init PROVE IInv
    BY Zenon
  <1>1. /\ cfg.Groups = {} /\ cfg.Shards = [s \in Shard |-> 0] /\ cfg.Num = 0
        /\ cfg = MakeShardConfig /\ new = cfg
    BY Zenon DEF Init, MakeShardConfig
  <1>2. TypeOK
    <2>1. cfg \in ShardConfig
      BY <1>1 DEF MakeShardConfig, ShardConfig
    <2>2. 0 \in 0 .. NShards /\ <<>> \in Seq(Gid)
      BY ShardCfgAssumption
    <2> QED
      BY Zenon, <1>1, <2>1, <2>2 DEF Init, TypeOK
  <1>3. CfgInv
    BY Zenon, <1>1 DEF CfgInv, Within
  <1> QED
    BY Zenon, <1>2, <1>3 DEF Init, IInv, LoopInv, DealInv, AssignInv, ResultInv, MovesOnlyWhatMust

LEMMA CfgSame ==
    ASSUME CfgInv, UNCHANGED cfg
    PROVE  CfgInv'
  BY DEF CfgInv, Within, counts

(* A call begins: the copy is the current configuration. *)
LEMMA CallStep ==
    ASSUME IInv, NEW join \in BOOLEAN, NEW n \in Nat, NEW gs \in [1 .. n -> Gid],
           Call(join, gs)
    PROVE  IInv'
  <1>0. TypeOK /\ CfgInv
    BY Zenon DEF IInv
  <1>1. gs \in Seq(Gid) /\ Range(gs) \in SUBSET Gid
    BY DEF Range
  <1>2. TypeOK'
    BY Zenon, <1>0, <1>1 DEF TypeOK, Call
  <1>3. CfgInv'
    BY Zenon, <1>0, CfgSame DEF Call
  <1>4. LoopInv'
    BY Zenon DEF LoopInv, Call, Wanted
  <1>5. pc' \in {"Join", "Leave"}
    BY Zenon DEF Call
  <1> QED
    BY Zenon, <1>2, <1>3, <1>4, <1>5 DEF IInv, DealInv, AssignInv, ResultInv, MovesOnlyWhatMust

(* The loops over the gids. *)
LEMMA ReturnFalseStep ==
    ASSUME IInv, pc \in {"Join", "Leave"}, ReturnFalse
    PROVE  IInv'
  <1>1. TypeOK'
    BY Zenon DEF IInv, TypeOK, ReturnFalse
  <1>2. new'.Shards = cfg'.Shards
    BY Zenon DEF IInv, LoopInv, ReturnFalse
  <1>3. CfgInv'
    BY Zenon, CfgSame DEF IInv, ReturnFalse
  <1>4. pc' = "returned" /\ ~ok'
    BY Zenon DEF ReturnFalse
  <1> QED
    BY Zenon, <1>1, <1>2, <1>3, <1>4
       DEF IInv, LoopInv, DealInv, AssignInv, ResultInv, MovesOnlyWhatMust

LEMMA NextGidStep ==
    ASSUME IInv, pc \in {"Join", "Leave"}, gids # <<>>,
           NEW groups, NextGid(groups),
           groups = IF pc = "Join" THEN new.Groups \cup {Head(gids)}
                                   ELSE new.Groups \ {Head(gids)}
    PROVE  IInv'
  <1>0. /\ new \in ShardConfig /\ new.Groups \in SUBSET Gid
        /\ Head(gids) \in Gid /\ Tail(gids) \in Seq(Gid)
        /\ Range(gids) = {Head(gids)} \cup Range(Tail(gids))
    BY Zenon, Configs, Gids DEF IInv, TypeOK
  <1>1. /\ new' = [new EXCEPT !.Groups = groups] /\ gids' = Tail(gids)
        /\ UNCHANGED <<cfg, pc, asked, next, ok>>
    BY Zenon DEF NextGid
  <1>2. groups \in SUBSET Gid
    BY Zenon, <1>0
  <1>3. /\ new' \in ShardConfig /\ new'.Groups = groups /\ new'.Shards = new.Shards
    BY Zenon, <1>0, <1>1, <1>2 DEF ShardConfig
  <1>4. TypeOK'
    BY Zenon, <1>0, <1>1, <1>3 DEF IInv, TypeOK
  <1>5. Wanted' = Wanted
    BY Zenon, <1>1 DEF Wanted
  <1>6. LoopInv'
    <2>1. LoopInv
      BY Zenon DEF IInv
    <2>2. CASE pc = "Join"
      BY <1>0, <1>1, <1>3, <1>5, <2>1, <2>2 DEF LoopInv
    <2>3. CASE pc = "Leave"
      BY <1>0, <1>1, <1>3, <1>5, <2>1, <2>3 DEF LoopInv
    <2> QED
      BY Zenon, <2>2, <2>3
  <1>7. CfgInv'
    BY Zenon, <1>1, CfgSame DEF IInv
  <1> QED
    BY Zenon, <1>1, <1>4, <1>6, <1>7 DEF IInv, DealInv, AssignInv, ResultInv, MovesOnlyWhatMust

(* Rebalance begins with the groups wanted and the shards where they were. *)
LEMMA RebalanceStep ==
    ASSUME IInv, pc \in {"Join", "Leave"}, Rebalance
    PROVE  IInv'
  <1>0. /\ new \in ShardConfig /\ new.Groups \in SUBSET Gid /\ new.Num \in Nat
        /\ cfg.Groups \in SUBSET Gid /\ 0 \notin Gid
    BY Zenon, Configs DEF IInv
  <1>1. /\ new' = [new EXCEPT !.Num = @ + 1] /\ next' = 0 /\ pc' = "Assign" /\ gids = <<>>
        /\ UNCHANGED <<cfg, gids, asked, ok>>
    BY Zenon DEF Rebalance
  <1>2. new' \in ShardConfig /\ new'.Groups = new.Groups /\ new'.Shards = cfg.Shards
    BY <1>0, <1>1 DEF ShardConfig, IInv, LoopInv
  <1>3. TypeOK'
    <2>1. 0 \in 0 .. NShards
      BY ShardCfgAssumption
    <2> QED
      BY Zenon, <1>1, <1>2, <2>1 DEF IInv, TypeOK
  <1>4. new'.Groups = Wanted'
    <2>1. Range(gids) = {}
      BY <1>1 DEF Range
    <2> QED
      BY Zenon, <1>1, <1>2, <2>1 DEF IInv, LoopInv, Wanted
  <1>5. \A g : counts(new', g) = counts(cfg, g)
    BY Zenon, <1>2 DEF counts
  <1>6. \A g \in Joined' : counts(cfg, g) = 0
    <2>1. ASSUME NEW g \in Joined'
          PROVE  {s \in Shard : cfg.Shards[s] = g} = {}
      <3>1. g \in Gid /\ g \notin cfg.Groups /\ g # 0
        BY Zenon, <1>0, <1>1, <1>2 DEF Joined
      <3> QED
        BY Zenon, <3>1 DEF IInv, CfgInv
    <2> QED
      BY Zenon, <2>1, FS_EmptySet DEF counts
  <1>7. /\ Within(new', Kept', Kept')
        /\ Within(new', Joined', Joined')
        /\ Within(new', Joined', Kept')
    <2>1. \A g : counts(cfg, g) \in Nat
      BY CountsType
    <2>2. Within(new', Kept', Kept')
      BY Zenon, <1>1, <1>5 DEF IInv, CfgInv, Within, Kept
    <2> QED
      BY <1>5, <1>6, <2>1, <2>2 DEF Within
  <1>8. AssignInv'
    BY <1>1, <1>2 DEF AssignInv, Shard
  <1>9. CfgInv'
    BY Zenon, <1>1, CfgSame DEF IInv
  <1>10. MovesOnlyWhatMust'
    BY Zenon, <1>1, <1>2 DEF MovesOnlyWhatMust
  <1> QED
    BY Zenon, <1>1, <1>3, <1>4, <1>7, <1>8, <1>9, <1>10 DEF IInv, LoopInv, DealInv, ResultInv

(* The end without any group. *)
LEMMA UnassignAllStep ==
    ASSUME IInv, UnassignAll
    PROVE  IInv'
  <1>0. new \in ShardConfig /\ new.Groups = {} /\ new.Groups = Wanted
    BY Zenon, Configs DEF IInv, UnassignAll, DealInv
  <1>1. /\ new' = [new EXCEPT !.Shards = [s \in Shard |-> 0]] /\ pc' = "returned"
        /\ ok' = TRUE /\ UNCHANGED <<cfg, gids, asked, next>>
    BY Zenon DEF UnassignAll, ReturnTrue
  <1>2. /\ new' \in ShardConfig /\ new'.Groups = {}
        /\ new'.Shards = [s \in Shard |-> 0]
    BY Zenon, <1>0, <1>1 DEF ShardConfig
  <1>3. TypeOK'
    BY Zenon, <1>1, <1>2 DEF IInv, TypeOK
  <1>4. ResultInv'
    BY Zenon, <1>0, <1>1, <1>2 DEF ResultInv, CheckConfig, Wanted
  <1>5. MovesOnlyWhatMust'
    BY Zenon, <1>2 DEF MovesOnlyWhatMust
  <1>6. CfgInv'
    BY Zenon, <1>1, CfgSame DEF IInv
  <1> QED
    BY Zenon, <1>1, <1>3, <1>4, <1>5, <1>6 DEF IInv, LoopInv, DealInv, AssignInv

(* One turn of the first loop. *)
LEMMA AssignShardStep ==
    ASSUME IInv, AssignShard
    PROVE  IInv'
  <1>0. /\ new \in ShardConfig /\ new.Shards \in [Shard -> Gid \cup {0}]
        /\ new.Groups \in SUBSET Gid /\ new.Groups # {}
    BY Zenon, Configs DEF IInv, AssignShard
  <1>1. /\ new' = [new EXCEPT !.Shards[next] = HolderOf(next)] /\ next' = next + 1
        /\ pc = "Assign" /\ UNCHANGED <<cfg, pc, gids, asked, ok>>
    BY Zenon DEF AssignShard
  <1>2. next \in Shard /\ next + 1 \in 0 .. NShards
    BY ShardCfgAssumption DEF IInv, TypeOK, AssignShard, Shard
  <1>3. HolderOf(next) \in new.Groups
    BY Zenon, <1>0, LeastLoaded DEF HolderOf
  <1>4. /\ new' \in ShardConfig /\ new'.Groups = new.Groups
        /\ new'.Shards = [new.Shards EXCEPT ![next] = HolderOf(next)]
    BY Zenon, <1>0, <1>1, <1>2, <1>3 DEF ShardConfig
  <1>5. \A t \in Shard : new'.Shards[t] = IF t = next THEN HolderOf(next) ELSE new.Shards[t]
    BY Zenon, <1>0, <1>4
  <1>6. TypeOK'
    BY Zenon, <1>1, <1>2, <1>4 DEF IInv, TypeOK
  <1>7. new.Shards[next] = cfg.Shards[next]
    BY <1>1, <1>2 DEF IInv, AssignInv, Shard
  <1>8. /\ Within(new, Kept, Kept) /\ Within(new, Joined, Joined) /\ Within(new, Joined, Kept)
        /\ new.Groups = Wanted
    BY Zenon, <1>1 DEF IInv, DealInv
  <1>9. Kept' = Kept /\ Joined' = Joined /\ Wanted' = Wanted
    BY Zenon, <1>1, <1>4 DEF Kept, Joined, Wanted
  <1>10. /\ Within(new', Kept, Kept) /\ Within(new', Joined, Joined)
         /\ Within(new', Joined, Kept)
    <2>1. CASE new.Shards[next] \in new.Groups
      <3>1. \A g : counts(new', g) = counts(new, g)
        BY Zenon, <1>5, <2>1 DEF HolderOf, counts
      <3> QED
        BY <1>8, <3>1 DEF Within
    <2>2. CASE new.Shards[next] \notin new.Groups
      <3>1. \A t \in Shard : new'.Shards[t] = IF t = next THEN least(new) ELSE new.Shards[t]
        BY Zenon, <1>5, <2>2 DEF HolderOf
      <3>2. Kept \in SUBSET new.Groups /\ Joined \in SUBSET new.Groups
        BY Zenon DEF Kept, Joined
      <3> QED
        BY Zenon, <1>0, <1>2, <1>8, <2>2, <3>1, <3>2, AssignDeal
    <2> QED
      BY Zenon, <2>1, <2>2
  <1>11. DealInv'
    BY Zenon, <1>4, <1>8, <1>9, <1>10 DEF DealInv
  <1>12. AssignInv'
    <2>1. ASSUME NEW s \in Shard
          PROVE  IF s < next + 1 THEN new'.Shards[s] \in new.Groups
                                 ELSE new'.Shards[s] = cfg.Shards[s]
      <3>1. IF s < next THEN new.Shards[s] \in new.Groups
                        ELSE new.Shards[s] = cfg.Shards[s]
        BY Zenon, <1>1 DEF IInv, AssignInv
      <3>2. s \in Int /\ next \in Int
        BY <1>2 DEF Shard
      <3> QED
        BY <1>3, <1>5, <3>1, <3>2
    <2> QED
      BY Zenon, <1>1, <1>4, <2>1 DEF AssignInv
  <1>13. MovesOnlyWhatMust'
    <2>1. ASSUME NEW s \in Shard, new'.Shards[s] # cfg.Shards[s]
          PROVE  cfg.Shards[s] \notin new.Groups \/ new'.Shards[s] \notin cfg.Groups
      <3>1. CASE s = next
        BY Zenon, <1>5, <1>7, <2>1, <3>1 DEF HolderOf
      <3>2. CASE s # next
        BY Zenon, <1>1, <1>5, <2>1, <3>2 DEF IInv, MovesOnlyWhatMust
      <3> QED
        BY Zenon, <3>1, <3>2
    <2> QED
      BY Zenon, <1>1, <1>4, <2>1 DEF MovesOnlyWhatMust
  <1>14. CfgInv'
    BY Zenon, <1>1, CfgSame DEF IInv
  <1> QED
    BY Zenon, <1>1, <1>6, <1>11, <1>12, <1>13, <1>14 DEF IInv, LoopInv, ResultInv

LEMMA AllAssignedStep ==
    ASSUME IInv, AllAssigned
    PROVE  IInv'
  <1>1. /\ pc = "Assign" /\ pc' = "Move" /\ next = NShards /\ new.Groups # {}
        /\ UNCHANGED <<cfg, new, gids, asked, next, ok>>
    BY Zenon DEF AllAssigned
  <1>2. TypeOK'
    BY Zenon, <1>1 DEF IInv, TypeOK
  <1>3. \A s \in Shard : new.Shards[s] \in new.Groups
    BY <1>1, ShardCfgAssumption DEF IInv, AssignInv, Shard
  <1>4. DealInv'
    <2>1. DealInv /\ \A g : counts(new', g) = counts(new, g)
      BY Zenon, <1>1 DEF IInv, counts
    <2> QED
      BY Zenon, <1>1, <2>1 DEF DealInv, Kept, Joined, Wanted, Within
  <1>5. MovesOnlyWhatMust'
    BY Zenon, <1>1 DEF IInv, MovesOnlyWhatMust
  <1>6. CfgInv'
    BY Zenon, <1>1, CfgSame DEF IInv
  <1> QED
    BY Zenon, <1>1, <1>2, <1>3, <1>4, <1>5, <1>6 DEF IInv, LoopInv, AssignInv, ResultInv

(* One turn of the second loop. *)
LEMMA MoveShardStep ==
    ASSUME IInv, MoveShard
    PROVE  IInv'
  <1> DEFINE s == Min({t \in Shard : new.Shards[t] = most(new)})
  <1>0. /\ new \in ShardConfig /\ new.Shards \in [Shard -> Gid \cup {0}]
        /\ new.Groups \in SUBSET Gid /\ new.Groups # {}
        /\ \A t \in Shard : new.Shards[t] \in new.Groups
    BY Zenon, Configs DEF IInv, MoveShard, AssignInv
  <1>1. /\ pc = "Move" /\ ~Settled(new)
        /\ new' = [new EXCEPT !.Shards[s] = least(new)]
        /\ UNCHANGED <<cfg, pc, gids, asked, next, ok>>
    BY Zenon DEF MoveShard
  <1>2. s \in Shard /\ new.Shards[s] = most(new)
    <2> DEFINE S == {t \in Shard : new.Shards[t] = most(new)}
    <2>1. S \in SUBSET Nat
      BY ShardCfgAssumption DEF Shard
    <2>2. S # {}
      <3>1. SUFFICES ASSUME S = {} PROVE FALSE
        BY Zenon
      <3>2. counts(new, most(new)) = 0
        BY Zenon, <3>1, FS_EmptySet DEF counts
      <3>3. counts(new, least(new)) \in Nat
        BY CountsType
      <3> QED
        BY <1>1, <3>2, <3>3 DEF Settled
    <2> QED
      BY Zenon, <2>1, <2>2, MinIn
  <1> HIDE DEF s
  <1>3. /\ Within(new, Kept, Kept) /\ Within(new, Joined, Joined) /\ Within(new, Joined, Kept)
        /\ new.Groups = Wanted /\ new.Groups = Kept \cup Joined
    BY Zenon, <1>1 DEF IInv, DealInv, Kept, Joined
  <1>4. least(new) \in new.Groups /\ least(new) \notin cfg.Groups
    BY <1>0, <1>1, <1>3, MoveSource DEF Kept, Joined
  <1>5. /\ new' \in ShardConfig /\ new'.Groups = new.Groups
        /\ new'.Shards = [new.Shards EXCEPT ![s] = least(new)]
    BY Zenon, <1>0, <1>1, <1>2, <1>4 DEF ShardConfig
  <1>6. \A t \in Shard : new'.Shards[t] = IF t = s THEN least(new) ELSE new.Shards[t]
    BY Zenon, <1>0, <1>5
  <1>7. TypeOK'
    BY Zenon, <1>1, <1>5 DEF IInv, TypeOK
  <1>8. /\ Within(new', Kept, Kept) /\ Within(new', Joined, Joined)
        /\ Within(new', Joined, Kept)
    BY ZenonT(40), <1>0, <1>1, <1>2, <1>3, <1>6, MoveDeal
  <1>9. Kept' = Kept /\ Joined' = Joined /\ Wanted' = Wanted
    BY Zenon, <1>1, <1>5 DEF Kept, Joined, Wanted
  <1>10. DealInv'
    BY Zenon, <1>3, <1>5, <1>8, <1>9 DEF DealInv
  <1>11. AssignInv'
    BY Zenon, <1>0, <1>1, <1>4, <1>5, <1>6 DEF AssignInv
  <1>12. MovesOnlyWhatMust'
    BY Zenon, <1>1, <1>4, <1>5, <1>6 DEF IInv, MovesOnlyWhatMust
  <1>13. CfgInv'
    BY Zenon, <1>1, CfgSame DEF IInv
  <1> QED
    BY Zenon, <1>1, <1>7, <1>10, <1>11, <1>12, <1>13 DEF IInv, LoopInv, ResultInv

LEMMA BalancedStep ==
    ASSUME IInv, Balanced
    PROVE  IInv'
  <1>0. /\ new \in ShardConfig /\ new.Groups # {} /\ Wanted = new.Groups
        /\ \A t \in Shard : new.Shards[t] \in new.Groups
    BY Zenon, Configs DEF IInv, Balanced, AssignInv, DealInv
  <1>1. /\ pc = "Move" /\ pc' = "returned" /\ ok' = TRUE
        /\ UNCHANGED <<cfg, new, gids, asked, next>>
    BY Zenon DEF Balanced, ReturnTrue
  <1>2. Within(new, new.Groups, new.Groups)
    BY Zenon, <1>0, SettledMeans DEF Balanced
  <1>3. CheckConfig(new, Wanted)
    BY Zenon, <1>0, <1>2 DEF CheckConfig, Within
  <1>4. ResultInv'
    <2>1. \A g : counts(new', g) = counts(new, g)
      BY Zenon, <1>1 DEF counts
    <2>2. Wanted' = Wanted
      BY Zenon, <1>1 DEF Wanted
    <2> QED
      BY Zenon, <1>0, <1>1, <1>3, <2>1, <2>2 DEF ResultInv, CheckConfig
  <1>5. TypeOK'
    BY Zenon, <1>1 DEF IInv, TypeOK
  <1>6. MovesOnlyWhatMust'
    BY Zenon, <1>1 DEF IInv, MovesOnlyWhatMust
  <1>7. CfgInv'
    BY Zenon, <1>1, CfgSame DEF IInv
  <1> QED
    BY Zenon, <1>1, <1>4, <1>5, <1>6, <1>7 DEF IInv, LoopInv, DealInv, AssignInv

(* The caller adopts a result CheckConfig accepts. *)
LEMMA AdoptStep ==
    ASSUME IInv, Adopt
    PROVE  IInv'
  <1>1. /\ pc = "returned" /\ pc' = "idle" /\ gids' = <<>>
        /\ cfg' = (IF ok THEN new ELSE cfg)
        /\ UNCHANGED <<new, asked, next, ok>>
    BY Zenon DEF Adopt
  <1>2. TypeOK'
    BY <1>1 DEF IInv, TypeOK
  <1>3. CfgInv'
    <2>1. CASE ~ok
      BY Zenon, <1>1, <2>1, CfgSame DEF IInv
    <2>2. CASE ok
      <3>1. CheckConfig(new, Wanted) /\ (Wanted = {} => \A s \in Shard : new.Shards[s] = 0)
        BY Zenon, <1>1, <2>2 DEF IInv, ResultInv
      <3>2. cfg' = new
        BY Zenon, <1>1, <2>2
      <3>3. \A g : counts(cfg', g) = counts(new, g)
        BY Zenon, <3>2 DEF counts
      <3> QED
        BY Zenon, <3>1, <3>2, <3>3 DEF CfgInv, CheckConfig, Within
    <2> QED
      BY Zenon, <2>1, <2>2
  <1> QED
    BY Zenon, <1>1, <1>2, <1>3 DEF IInv, LoopInv, DealInv, AssignInv, ResultInv, MovesOnlyWhatMust

LEMMA StutterStep ==
    ASSUME IInv, UNCHANGED vars
    PROVE  IInv'
  <1>1. UNCHANGED <<cfg, new, pc, gids, asked, next, ok>>
    BY Zenon DEF vars
  <1>2. /\ \A g : counts(new', g) = counts(new, g)
        /\ Kept' = Kept /\ Joined' = Joined /\ Wanted' = Wanted
    BY Zenon, <1>1 DEF counts, Kept, Joined, Wanted
  <1>3. TypeOK'
    BY Zenon, <1>1 DEF IInv, TypeOK
  <1>4. CfgInv' /\ LoopInv' /\ MovesOnlyWhatMust'
    BY Zenon, <1>1, <1>2, CfgSame DEF IInv, LoopInv, MovesOnlyWhatMust
  <1>5. DealInv'
    BY Zenon, <1>1, <1>2 DEF IInv, DealInv, Within
  <1>6. AssignInv'
    BY Zenon, <1>1 DEF IInv, AssignInv
  <1>7. ResultInv'
    BY Zenon, <1>1, <1>2 DEF IInv, ResultInv, CheckConfig
  <1> QED
    BY Zenon, <1>3, <1>4, <1>5, <1>6, <1>7 DEF IInv

LEMMA IInvStep == IInv /\ [Next]_vars => IInv'
  <1> SUFFICES ASSUME IInv, [Next]_vars PROVE IInv'
    BY Zenon
  <1>1. CASE JoinBalance \/ LeaveBalance
    <2>1. PICK join \in BOOLEAN, gs \in UNION {[1 .. n -> Gid] : n \in 1 .. MaxGids} :
             Call(join, gs)
      BY Zenon, <1>1 DEF JoinBalance, LeaveBalance
    <2>2. PICK n \in Nat : gs \in [1 .. n -> Gid]
      BY ShardCfgAssumption
    <2> QED
      BY Zenon, <2>1, <2>2, CallStep
  <1>2. CASE Join
    <2>1. CASE JoinAgain
      BY Zenon, <1>2, <2>1, ReturnFalseStep DEF Join, JoinAgain
    <2>2. CASE JoinGid
      BY Zenon, <1>2, <2>2, NextGidStep DEF Join, JoinGid
    <2>3. CASE Rebalance
      BY Zenon, <1>2, <2>3, RebalanceStep DEF Join
    <2> QED
      BY Zenon, <1>2, <2>1, <2>2, <2>3 DEF Join
  <1>3. CASE Leave
    <2>1. CASE LeaveAgain
      BY Zenon, <1>3, <2>1, ReturnFalseStep DEF Leave, LeaveAgain
    <2>2. CASE LeaveGid
      BY Zenon, <1>3, <2>2, NextGidStep DEF Leave, LeaveGid
    <2>3. CASE Rebalance
      BY Zenon, <1>3, <2>3, RebalanceStep DEF Leave
    <2> QED
      BY Zenon, <1>3, <2>1, <2>2, <2>3 DEF Leave
  <1>4. CASE UnassignAll \/ AssignShard \/ AllAssigned
    BY Zenon, <1>4, UnassignAllStep, AssignShardStep, AllAssignedStep
  <1>5. CASE MoveShard \/ Balanced \/ Adopt
    BY Zenon, <1>5, MoveShardStep, BalancedStep, AdoptStep
  <1>6. CASE UNCHANGED vars
    BY Zenon, <1>6, StutterStep
  <1> QED
    BY Zenon, <1>1, <1>2, <1>3, <1>4, <1>5, <1>6 DEF Next

(***************************************************************************)
(* In every state of every call the shards are dealt out as far as the     *)
(* loops of shardcfg.go have come, and as evenly as they promise.          *)
(***************************************************************************)
THEOREM InvariantHolds == Spec => []IInv
  BY InitInv, IInvStep, PTL DEF Spec

(***************************************************************************)
(* A call that returns true leaves a configuration CheckConfig accepts,    *)
(* for any number of shards and groups.                                    *)
(***************************************************************************)
THEOREM BalancedResultHolds == Spec => []BalancedResult
  <1>1. IInv => BalancedResult
    BY Zenon DEF IInv, ResultInv, BalancedResult
  <1> QED
    BY <1>1, InvariantHolds, PTL

(***************************************************************************)
(* Rebalance moves no shard between two groups that stay.                  *)
(***************************************************************************)
THEOREM MovesOnlyWhatMustHolds == Spec => []MovesOnlyWhatMust
  <1>1. IInv => MovesOnlyWhatMust
    BY Zenon DEF IInv
  <1> QED
    BY <1>1, InvariantHolds, PTL

(* Two shards of one group are two. *)
LEMMA TwoShards ==
    ASSUME NEW c, NEW s \in Shard, NEW t \in Shard, s # t, c.Shards[s] = c.Shards[t]
    PROVE  counts(c, c.Shards[s]) >= 2
  <1> DEFINE S == {u \in Shard : c.Shards[u] = c.Shards[s]}
  <1>1. IsFiniteSet(S) /\ {s, t} \in SUBSET S
    BY Zenon, ShardFinite, FS_Subset
  <1>2. Cardinality({s, t}) = 2
    <2>1. IsFiniteSet({s}) /\ Cardinality({s}) = 1
      BY Zenon, FS_Singleton
    <2>2. t \notin {s} /\ {s} \cup {t} = {s, t}
      BY Zenon
    <2>3. Cardinality({s} \cup {t}) = Cardinality({s}) + 1
      BY Zenon, <2>1, <2>2, FS_AddElement
    <2> QED
      BY <2>1, <2>2, <2>3
  <1>3. Cardinality({s, t}) <= Cardinality(S)
    BY Zenon, <1>1, FS_Subset
  <1>4. Cardinality(S) \in Nat
    BY Zenon, <1>1, FS_CardinalityType
  <1> QED
    BY Zenon, <1>2, <1>3, <1>4 DEF counts

(* A balanced configuration of no more groups than shards leaves none out. *)
LEMMA NoneLeftOut ==
    ASSUME NEW c \in ShardConfig, CheckConfig(c, c.Groups),
           Cardinality(c.Groups) <= NShards, NEW g \in c.Groups
    PROVE  IsMember(c, g)
  <1>1. SUFFICES ASSUME ~IsMember(c, g) PROVE FALSE
    BY Zenon
  <1> DEFINE T == c.Groups \ {g}
  <1>2. IsFiniteSet(c.Groups)
    BY Zenon, ShardCfgAssumption, FS_Subset DEF ShardConfig
  <1>3. /\ IsFiniteSet(T) /\ Cardinality(T) = Cardinality(c.Groups) - 1
        /\ Cardinality(c.Groups) \in Nat
    BY Zenon, <1>2, FS_RemoveElement, FS_CardinalityType
  <1>4. Cardinality(T) < Cardinality(Shard)
    BY <1>3, ShardFinite, ShardCfgAssumption
  <1>5. c.Shards \in [Shard -> T]
    <2>1. c.Shards \in [Shard -> Gid \cup {0}]
      BY Zenon DEF ShardConfig
    <2>2. \A s \in Shard : c.Shards[s] \in T
      BY Zenon, <1>1 DEF CheckConfig, IsMember
    <2> QED
      BY Zenon, <2>1, <2>2
  <1>6. PICK s \in Shard, t \in Shard : s # t /\ c.Shards[s] = c.Shards[t]
    <2> HIDE DEF T
    <2> QED
      BY <1>3, <1>4, <1>5, ShardFinite, FS_PigeonHole
  <1>7. counts(c, c.Shards[s]) >= 2
    BY Zenon, <1>6, TwoShards
  <1>8. counts(c, g) = 0
    <2>1. {u \in Shard : c.Shards[u] = g} = {}
      BY Zenon, <1>1 DEF IsMember
    <2> QED
      BY Zenon, <2>1, FS_EmptySet DEF counts
  <1>9. counts(c, c.Shards[s]) <= counts(c, g) + 1
    BY Zenon, <1>6 DEF CheckConfig
  <1>10. counts(c, c.Shards[s]) \in Nat
    BY CountsType
  <1> QED
    BY <1>7, <1>8, <1>9, <1>10

(***************************************************************************)
(* With no more groups than shards the groups that serve a shard are       *)
(* exactly those asked for, as the tests conclude from IsMember.           *)
(***************************************************************************)
THEOREM MembersServeHolds == Spec => []MembersServe
  <1>1. ASSUME IInv, pc = "returned", ok, Cardinality(Wanted) <= NShards, NEW g \in Gid
        PROVE  IsMember(new, g) <=> g \in Wanted
    <2>1. /\ CheckConfig(new, Wanted) /\ new.Groups = Wanted
          /\ Wanted = {} => \A s \in Shard : new.Shards[s] = 0
      BY Zenon, <1>1 DEF IInv, ResultInv, CheckConfig
    <2>2. new \in ShardConfig /\ g # 0
      BY Zenon, <1>1, Configs DEF IInv
    <2>3. g \in Wanted => IsMember(new, g)
      BY Zenon, <1>1, <2>1, <2>2, NoneLeftOut
    <2>4. IsMember(new, g) => g \in Wanted
      BY Zenon, <2>1, <2>2 DEF IsMember, CheckConfig
    <2> QED
      BY Zenon, <2>3, <2>4
  <1>2. IInv => MembersServe
    BY Zenon, <1>1 DEF MembersServe
  <1> QED
    BY <1>2, InvariantHolds, PTL
=============================================================================
