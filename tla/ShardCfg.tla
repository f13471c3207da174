------------------------------ MODULE ShardCfg ------------------------------
(* Shard configurations (src/shardkv1/shardcfg/shardcfg.go): how groups join *)
(* and leave, and how the shards are dealt out again.  A configuration names *)
(* the servers of every group; they take no part in any decision and a group *)
(* is its gid here.  The caller is the join/leave pair of shardkv1/test.go:  *)
(* it copies the current configuration, changes the copy, and makes it the   *)
(* current one if the call returns true.  Every turn of a loop is a step.    *)
EXTENDS Integers, FiniteSets, Sequences, Functions, FiniteSetsExt

CONSTANTS
    NShards,        \* the number of shards
    Gid,            \* the groups there may be
    MaxNum,         \* bound on the number of configurations
    MaxGids         \* bound on the gids of one call

ASSUME ShardCfgAssumption ==
    /\ {NShards, MaxNum, MaxGids} \subseteq Nat
    /\ NShards > 0
    /\ Gid \subseteq Nat \ {0}
    /\ IsFiniteSet(Gid)

VARIABLES
    cfg,            \* the current configuration
    new,            \* the copy the running call changes
    pc,             \* where the running call is
    gids,           \* the gids the loop of Join or Leave has still to treat
    asked,          \* the groups the call was made with, and whether they join
    next,           \* the shard the first loop of Rebalance has reached
    ok              \* what the call returned

vars == <<cfg, new, pc, gids, asked, next, ok>>

Shard == 0 .. NShards - 1

ShardConfig == [Num : Nat, Shards : [Shard -> Gid \cup {0}], Groups : SUBSET Gid]

MakeShardConfig == [Num |-> 0, Shards |-> [s \in Shard |-> 0], Groups |-> {}]

TypeOK ==
    /\ {cfg, new} \subseteq ShardConfig
    /\ pc \in {"idle", "Join", "Leave", "Assign", "Move", "returned"}
    /\ gids \in Seq(Gid)
    /\ asked \in [join : BOOLEAN, groups : SUBSET Gid]
    /\ next \in 0 .. NShards
    /\ ok \in BOOLEAN

Init ==
    /\ cfg = MakeShardConfig
    /\ new = cfg
    /\ pc = "idle"
    /\ gids = <<>>
    /\ asked = [join |-> TRUE, groups |-> {}]
    /\ next = 0
    /\ ok = TRUE

-----------------------------------------------------------------------------
(* analyze scans the groups in the order of their gids and replaces its      *)
(* candidate only by a strictly better one.                                  *)

counts(c, g) == Cardinality({s \in Shard : c.Shards[s] = g})

least(c) == Min({g \in c.Groups : \A h \in c.Groups : counts(c, g) <= counts(c, h)})

most(c) == Min({g \in c.Groups : \A h \in c.Groups : counts(c, g) >= counts(c, h)})

\* The exit of the second loop of Rebalance, and forms of it for the mutants.
SettledLater(c) == counts(c, most(c)) < counts(c, least(c)) + 1
SettledEarly(c) == counts(c, most(c)) < counts(c, least(c)) + 3
Settled(c) == counts(c, most(c)) < counts(c, least(c)) + 2

-----------------------------------------------------------------------------
(* JoinBalance takes a Go map, whose iteration order is arbitrary;           *)
(* LeaveBalance a list, which may name a gid twice.                          *)

Call(join, gs) ==
    /\ pc = "idle"
    /\ cfg.Num < MaxNum
    /\ new' = cfg
    /\ pc' = IF join THEN "Join" ELSE "Leave"
    /\ gids' = gs
    /\ asked' = [join |-> join, groups |-> Range(gs)]
    /\ UNCHANGED <<cfg, next, ok>>

JoinBalance == \E gs \in UNION {[1 .. n -> Gid] : n \in 1 .. MaxGids} :
    IsInjective(gs) /\ Call(TRUE, gs)

LeaveBalance == \E gs \in UNION {[1 .. n -> Gid] : n \in 1 .. MaxGids} :
    Call(FALSE, gs)

ReturnFalse ==
    /\ pc' = "returned"
    /\ ok' = FALSE
    /\ UNCHANGED <<cfg, new, asked, gids, next>>

\* After the last gid the number grows and Rebalance begins.
Rebalance ==
    /\ gids = <<>>
    /\ new' = [new EXCEPT !.Num = @ + 1]
    /\ pc' = "Assign"
    /\ next' = 0
    /\ UNCHANGED <<cfg, gids, asked, ok>>

NextGid(groups) ==
    /\ new' = [new EXCEPT !.Groups = groups]
    /\ gids' = Tail(gids)
    /\ UNCHANGED <<cfg, pc, asked, next, ok>>

\* A group that is there already ends Join; those before it have been added.
JoinAgain == gids # <<>> /\ Head(gids) \in new.Groups /\ ReturnFalse

JoinGid ==
    /\ gids # <<>>
    /\ Head(gids) \notin new.Groups
    /\ NextGid(new.Groups \cup {Head(gids)})

Join == pc = "Join" /\ (JoinAgain \/ JoinGid \/ Rebalance)

\* A group that is not there ends Leave; those before it have been removed.
LeaveAgain == gids # <<>> /\ Head(gids) \notin new.Groups /\ ReturnFalse

LeaveGid ==
    /\ gids # <<>>
    /\ Head(gids) \in new.Groups
    /\ NextGid(new.Groups \ {Head(gids)})

Leave == pc = "Leave" /\ (LeaveAgain \/ LeaveGid \/ Rebalance)

-----------------------------------------------------------------------------
(* Rebalance.                                                                *)

ReturnTrue(c) ==
    /\ new' = c
    /\ pc' = "returned"
    /\ ok' = TRUE
    /\ UNCHANGED <<cfg, gids, asked, next>>

UnassignAll ==
    /\ pc = "Assign"
    /\ new.Groups = {}
    /\ ReturnTrue([new EXCEPT !.Shards = [s \in Shard |-> 0]])

\* The group a shard has after the first loop has passed it.  The first form,
\* for a mutant, reassigns every shard.
HolderOfAny(s) == least(new)
HolderOf(s) == IF new.Shards[s] \in new.Groups THEN new.Shards[s] ELSE least(new)

AssignShard ==
    /\ pc = "Assign"
    /\ new.Groups # {}
    /\ next < NShards
    /\ new' = [new EXCEPT !.Shards[next] = HolderOf(next)]
    /\ next' = next + 1
    /\ UNCHANGED <<cfg, pc, gids, asked, ok>>

AllAssigned ==
    /\ pc = "Assign"
    /\ new.Groups # {}
    /\ next = NShards
    /\ pc' = "Move"
    /\ UNCHANGED <<cfg, new, gids, asked, next, ok>>

\* One shard, the first of the most loaded group, goes to the least loaded.
MoveShard ==
    /\ pc = "Move"
    /\ ~ Settled(new)
    /\ LET s == Min({t \in Shard : new.Shards[t] = most(new)})
       IN  new' = [new EXCEPT !.Shards[s] = least(new)]
    /\ UNCHANGED <<cfg, pc, gids, asked, next, ok>>

Balanced == pc = "Move" /\ Settled(new) /\ ReturnTrue(new)

\* The caller adopts the copy when the call returned true.
Adopt ==
    /\ pc = "returned"
    /\ pc' = "idle"
    /\ cfg' = IF ok THEN new ELSE cfg
    /\ gids' = <<>>
    /\ UNCHANGED <<new, asked, next, ok>>

Next ==
    \/ JoinBalance
    \/ LeaveBalance
    \/ Join
    \/ Leave
    \/ UnassignAll
    \/ AssignShard
    \/ AllAssigned
    \/ MoveShard
    \/ Balanced
    \/ Adopt
    \/ (pc = "idle" /\ cfg.Num = MaxNum /\ UNCHANGED vars)

\* The call is sequential code: it goes on until it returns.
Spec ==
    /\ Init
    /\ [][Next]_vars
    /\ WF_vars(Join \/ Leave \/ UnassignAll \/ AssignShard \/ AllAssigned
               \/ MoveShard \/ Balanced \/ Adopt)

-----------------------------------------------------------------------------
(* Properties.                                                               *)

IsMember(c, g) == \E s \in Shard : c.Shards[s] = g

CheckConfig(c, groups) ==
    /\ c.Groups = groups
    /\ groups # {} => \A s \in Shard : c.Shards[s] \in groups
    /\ \A g, h \in groups : counts(c, g) <= counts(c, h) + 1

\* What a call that returned true was asked to reach.
Wanted == IF asked.join THEN cfg.Groups \cup asked.groups ELSE cfg.Groups \ asked.groups

(* JoinBalance and LeaveBalance return true only with a configuration that   *)
(* CheckConfig accepts for the groups asked for: every shard has a group and *)
(* no group has two shards more than another (shardcfg.go:207-221, 238).     *)
BalancedResult == (pc = "returned" /\ ok) => CheckConfig(new, Wanted)

(* When there are no more groups than shards, the groups that serve a shard  *)
(* are exactly those of the result: what joinGroups and leaveGroups conclude *)
(* from IsMember (shardkv1/test.go:125, 143, 169).                           *)
MembersServe == (pc = "returned" /\ ok /\ Cardinality(Wanted) <= NShards) =>
    \A g \in Gid : IsMember(new, g) <=> g \in Wanted

(* Rebalance moves no shard between two groups that stay: at every point a   *)
(* shard that changed hands came from a group that left or went to one that  *)
(* joined (shardcfg.go:131-153).                                             *)
MovesOnlyWhatMust == (pc \in {"Assign", "Move", "returned"}) =>
    \A s \in Shard : new.Shards[s] # cfg.Shards[s]
        => cfg.Shards[s] \notin new.Groups \/ new.Shards[s] \notin cfg.Groups

(* The loop that moves shards from the most to the least loaded group ends   *)
(* (shardcfg.go:141-153), and with it every call.                            *)
EveryCallReturns == (pc # "idle") ~> (pc = "idle")

-----------------------------------------------------------------------------
(* The inductive invariant behind these properties.                          *)

Within(c, S, T) == \A g \in S, h \in T : counts(c, g) <= counts(c, h) + 1

\* What the caller adopted: every shard is dealt out, as evenly as can be.
CfgInv ==
    /\ cfg.Groups # {} => \A s \in Shard : cfg.Shards[s] \in cfg.Groups
    /\ cfg.Groups = {} => \A s \in Shard : cfg.Shards[s] = 0
    /\ Within(cfg, cfg.Groups, cfg.Groups)

\* The loops of Join and Leave lead to the groups wanted and move no shard.
LoopInv ==
    /\ pc \in {"Join", "Leave"} => new.Shards = cfg.Shards
    /\ pc = "Join" => asked.join /\ new.Groups \cup Range(gids) = Wanted
    /\ pc = "Leave" => ~asked.join /\ new.Groups \ Range(gids) = Wanted

Kept == new.Groups \cap cfg.Groups
Joined == new.Groups \ cfg.Groups

\* Rebalance keeps the groups that stay within one shard of each other, and
\* also those that join, which never get ahead of the former: so the least
\* loaded group, when shards must move, is one that joins.
DealInv ==
    pc \in {"Assign", "Move"} =>
        /\ new.Groups = Wanted
        /\ Within(new, Kept, Kept)
        /\ Within(new, Joined, Joined)
        /\ Within(new, Joined, Kept)

\* How far the first loop of Rebalance has come.
AssignInv ==
    /\ pc = "Assign" => \A s \in Shard :
            IF s < next THEN new.Shards[s] \in new.Groups
                        ELSE new.Shards[s] = cfg.Shards[s]
    /\ pc = "Move" => new.Groups # {} /\ \A s \in Shard : new.Shards[s] \in new.Groups

ResultInv ==
    pc = "returned" /\ ok =>
        /\ CheckConfig(new, Wanted)
        /\ Wanted = {} => \A s \in Shard : new.Shards[s] = 0

IInv ==
    /\ TypeOK
    /\ CfgInv
    /\ LoopInv
    /\ DealInv
    /\ AssignInv
    /\ ResultInv
    /\ MovesOnlyWhatMust
=============================================================================
