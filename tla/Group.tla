------------------------------- MODULE Group --------------------------------
(* The servers of a group as a test connects, disconnects, partitions, kills *)
(* and restarts them (src/tester1/group.go, srv.go), the ends of the clients *)
(* (clnts.go), and the annotations a test makes along with each operation.   *)
(* The operations are those of the tests (raft1/test.go, kvraft1/test.go,    *)
(* kvraft1/rsm/test.go, kvtest1/kvtest.go); a test makes one call at a time, *)
(* and `todo' holds the calls that complete the current operation.           *)
EXTENDS Annotation

CONSTANTS
    Clnt,           \* clients
    All             \* Clnt.srvs = nil: every server is allowed

\* MakePartition is only called for groups of three or five servers.
ASSUME GroupAssumption ==
    /\ IsFiniteSet(Srv)
    /\ Srv = 0 .. Cardinality(Srv) - 1
    /\ Cardinality(Srv) % 2 = 1 /\ Cardinality(Srv) > 1
    /\ \A s \in SUBSET Srv : s # All

VARIABLES
    grp,            \* ServerGrp.connected, and the enabled ends between servers
    alive,          \* servers with a process
    halves,         \* the last Partition that is still in force, or <<>>
    todo,           \* calls that follow in the current operation
    clnt            \* the clients' ends and the servers they are allowed

annVars == <<finfo, continuous>>
vars == <<annVars, grp, alive, halves, todo, clnt>>

all == [i \in 1 .. Cardinality(Srv) |-> i - 1]

Grp == [connected : SUBSET Srv, ends : SUBSET (Srv \X Srv)]

TypeOK ==
    /\ AnnotationTypeOK
    /\ grp \in Grp
    /\ alive \subseteq Srv
    /\ halves \in {<<>>} \cup (Seq(Srv) \X Seq(Srv))
    /\ clnt \in [Clnt -> [ends : SUBSET Srv, enabled : SUBSET Srv,
                          srvs : {All} \cup SUBSET Srv, there : BOOLEAN]]

-----------------------------------------------------------------------------
(* ServerGrp.connect and disconnect, as functions of grp.                    *)

Ends(i, js) == ({i} \X js) \cup (js \X {i})

\* Mutant: whether the peer is connected is not looked at.
connectAny(g, i, to) ==
    [connected |-> g.connected \cup {i}, ends |-> g.ends \cup Ends(i, Range(to))]

connect(g, i, to) ==
    LET connected == g.connected \cup {i}
    IN  [connected |-> connected, ends |-> g.ends \cup Ends(i, Range(to) \cap connected)]

disconnect(g, i, from) ==
    [connected |-> g.connected \ {i}, ends |-> g.ends \ Ends(i, Range(from))]

\* What a loop over the servers of s makes of g; step[i] is the turn of server i.
For(s, step, g) ==
    LET after[n \in 0 .. Len(s)] == IF n = 0 THEN g ELSE step[s[n]][after[n - 1]]
    IN  after[Len(s)]

ConnectAll(g) == For(all, [i \in Srv |-> [x \in Grp |-> connect(x, i, all)]], g)

\* Mutant: nothing is disconnected.
PartitionOneWay(g, p1, p2) ==
    LET half(h, p, other) == For(p, [i \in Srv |-> [x \in Grp |-> connect(x, i, p)]], h)
    IN  half(half(g, p1, p2), p2, p1)

\* Partition treats the servers of p1, then those of p2, in turn.
Half(h, p, other) ==
    For(p, [i \in Srv |-> [x \in Grp |-> connect(disconnect(x, i, other), i, p)]], h)

Partition(g, p1, p2) == Half(Half(g, p1, p2), p2, p1)

\* The servers but l in order fill p1, then p2, which l ends; the j-th of them is
\* j - 1, or j behind l.
MakePartition(l) ==
    LET n == Cardinality(Srv)
        other(j) == IF j <= l THEN j - 1 ELSE j
    IN  <<[j \in 1 .. n \div 2 + 1 |-> other(j)],
          [j \in 1 .. n \div 2 |-> IF j = n \div 2 THEN l ELSE other(n \div 2 + 1 + j)]>>

-----------------------------------------------------------------------------
(* Operations of a test: a call on the group, and the calls that follow.     *)

Init ==
    /\ AnnotationInit
    /\ grp = [connected |-> Srv, ends |-> Srv \X Srv]
    /\ alive = Srv
    /\ halves = <<>>
    /\ todo = <<>>
    /\ clnt \in [Clnt -> {[ends |-> {}, enabled |-> {}, srvs |-> s, there |-> TRUE] :
                            s \in {All} \cup SUBSET Srv}]

Then(call, servers) == [call |-> call, servers |-> servers]

Begin(g, calls) ==
    /\ todo = <<>>
    /\ grp' = g
    /\ todo' = calls
    /\ UNCHANGED <<annVars, clnt>>

DisconnectOp(i) ==
    /\ halves = <<>>
    /\ Begin(disconnect(grp, i, all), <<Then("AnnotateConnection", {})>>)
    /\ UNCHANGED <<alive, halves>>

ConnectOp(i) ==
    /\ halves = <<>>
    /\ i \in alive
    /\ Begin(connect(grp, i, all), <<Then("AnnotateConnection", {})>>)
    /\ UNCHANGED <<alive, halves>>

\* ShutdownServer disconnects the server from all.
Kill(servers) ==
    /\ halves = <<>>
    /\ servers \subseteq alive
    /\ Begin(For(all, [i \in Srv |-> [x \in Grp |->
                          IF i \in servers THEN disconnect(x, i, all) ELSE x]], grp),
             <<Then("AnnotateShutdown", servers)>>)
    /\ alive' = alive \ servers
    /\ UNCHANGED halves

\* StartServer makes new ends, which are disabled, for a server that is down.
Started(g, i) == [g EXCEPT !.ends = @ \ ({i} \X Srv)]

RestartOp(i) ==
    /\ i \notin alive
    /\ Begin(Started(grp, i), <<Then("AnnotateRestart", {i}), Then("ConnectOne", {i})>>)
    /\ alive' = alive \cup {i}
    /\ UNCHANGED halves

RestartAllOp ==
    /\ alive = {}
    /\ Begin(ConnectAll(For(all, [i \in Srv |-> [x \in Grp |-> Started(x, i)]], grp)),
             <<Then("AnnotateRestart", Srv)>>)
    /\ alive' = Srv
    /\ UNCHANGED halves

PartitionOp(p1, p2) ==
    /\ alive = Srv
    /\ Begin(Partition(grp, p1, p2), <<Then("AnnotateTwoPartitions", {})>>)
    /\ halves' = <<p1, p2>>
    /\ UNCHANGED alive

\* Partitioner deals the servers out at random; other tests isolate a leader.
Increasing == {p \in UNION {[1 .. m -> Srv] : m \in 0 .. Cardinality(Srv)} :
                   \A i, j \in DOMAIN p : i < j => p[i] < p[j]}

PartitionerOp == \E p1, p2 \in Increasing :
    Range(p1) = Srv \ Range(p2) /\ PartitionOp(p1, p2)

PartitionLeaderOp(l) == PartitionOp(MakePartition(l)[1], MakePartition(l)[2])

ConnectAllOp ==
    /\ alive = Srv
    /\ Begin(ConnectAll(grp), <<Then("AnnotateClearFailure", {})>>)
    /\ halves' = <<>>
    /\ UNCHANGED alive

\* TestLeaderPartition connects the leader, the only server of its half.
ReconnectLeaderOp ==
    /\ halves # <<>>
    /\ Len(halves[2]) = 1
    /\ Begin(connect(grp, halves[2][1], all), <<Then("AnnotateClearFailure", {})>>)
    /\ halves' = <<>>
    /\ UNCHANGED alive

\* The calls on the annotations, and ConnectOne at the end of a restart.
Follow ==
    /\ todo # <<>>
    /\ todo' = Tail(todo)
    /\ LET call == Head(todo).call
           servers == Head(todo).servers
       IN  /\ CASE call = "AnnotateConnection" -> AnnotateConnection(grp.connected)
                 [] call = "AnnotateShutdown" -> AnnotateShutdown(servers)
                 [] call = "AnnotateRestart" -> AnnotateRestart(servers)
                 [] call = "AnnotateTwoPartitions" -> AnnotateTwoPartitions(halves[1], halves[2])
                 [] call = "AnnotateClearFailure" -> AnnotateClearFailure
                 [] call = "ConnectOne" -> UNCHANGED annVars
           /\ grp' = IF call = "ConnectOne"
                     THEN connect(grp, CHOOSE i \in servers : TRUE, all) ELSE grp
    /\ UNCHANGED <<alive, halves, clnt>>

-----------------------------------------------------------------------------
(* Clients, which make an end to a server when they first call it.           *)

Change(c, new) ==
    /\ clnt[c].there
    /\ clnt' = [clnt EXCEPT ![c] = new]
    /\ UNCHANGED <<annVars, grp, alive, halves, todo>>

allowedL(c, s) == clnt[c].srvs = All \/ s \in clnt[c].srvs

makeEnd(c, s) ==
    /\ s \notin clnt[c].ends
    /\ Change(c, [clnt[c] EXCEPT !.ends = @ \cup {s},
                                 !.enabled = IF allowedL(c, s) THEN @ \cup {s} ELSE @])

ClntConnectAll(c) == Change(c, [clnt[c] EXCEPT !.enabled = clnt[c].ends, !.srvs = All])

\* Mutant: ends made later are enabled.
ClntDisconnectEnds(c) == Change(c, [clnt[c] EXCEPT !.enabled = {}])

ClntDisconnectAll(c) == Change(c, [clnt[c] EXCEPT !.enabled = {}, !.srvs = {}])

\* The client's ends are deleted, and it is forgotten.
remove == [ends |-> {}, enabled |-> {}, srvs |-> All, there |-> FALSE]

DeleteClient(c) == Change(c, remove)

Next ==
    \/ \E i \in Srv : DisconnectOp(i) \/ ConnectOp(i) \/ RestartOp(i) \/ PartitionLeaderOp(i)
                      \/ Kill({i})
    \/ Kill(Srv) \/ RestartAllOp \/ PartitionerOp \/ ConnectAllOp \/ ReconnectLeaderOp
    \/ Follow
    \/ \E c \in Clnt : ClntConnectAll(c) \/ ClntDisconnectAll(c) \/ DeleteClient(c)
                       \/ \E s \in Srv : makeEnd(c, s)

Spec == Init /\ [][Next]_vars

-----------------------------------------------------------------------------
(* Properties.                                                               *)

(* The connected field says everything about the ends between servers,       *)
(* unless a Partition is in force: an end is enabled just if both its        *)
(* servers are connected (annotation.go:228-229, group.go:141-180), through  *)
(* kills and restarts, which make new ends, as well.                         *)
ConnectedIsPrecise ==
    halves = <<>> => grp.ends = grp.connected \X grp.connected

(* A partition cuts every end between its halves, both ways, and leaves the  *)
(* ends within a half enabled, whatever was disconnected before              *)
(* (group.go:313-323).                                                       *)
PartitionIsExact ==
    halves # <<>> => grp.ends = UNION {Range(h) \X Range(h) : h \in Range(halves)}

Reach(i) == {i} \cup {j \in alive : <<i, j>> \in grp.ends}

(* Between two operations the annotation shows the failures there are: the   *)
(* partitions are the sets of live servers that reach each other, and the    *)
(* crashed servers are the dead ones - provided the test reported every      *)
(* change of the connected field, which kill and restart do not              *)
(* (annotation.go:231-371).                                                  *)
FailureShown ==
    (todo = <<>> /\ (finfo.connected \cap alive = grp.connected \cap alive)) =>
        /\ continuous.parts = {Reach(i) : i \in alive}
        /\ continuous.crashed = Srv \ alive

(* A client reaches the servers it is allowed, whether the end to a server   *)
(* was made before or after the client was connected or disconnected         *)
(* altogether (clnts.go:45-82, 109-118).                                     *)
ClientReach == \A c \in Clnt :
    clnt[c].enabled = {s \in clnt[c].ends : allowedL(c, s)}

(* What annotateFault makes of the servers it has heard of. *)
Shown(f) ==
    IF f = mkFrameworkInfo THEN NoFailure
    ELSE [parts |-> {{i} : i \in Srv \ (f.connected \cup f.crashed)}
                        \cup ({f.connected \ f.crashed} \ {{}}),
          crashed |-> f.crashed, ongoing |-> TRUE]

(* Where an operation is, and what the annotation knows of it.  A partition  *)
(* that is in force hides what was known before; the call that ends it       *)
(* clears everything.                                                        *)
Reported ==
    \/ /\ todo = <<>> /\ halves # <<>>
       /\ continuous = [parts |-> {Range(halves[1]), Range(halves[2])} \ {{}},
                        crashed |-> {}, ongoing |-> TRUE]
    \/ todo = <<Then("AnnotateTwoPartitions", {})>> /\ halves # <<>>
    \/ todo = <<Then("AnnotateClearFailure", {})>> /\ halves = <<>> /\ alive = Srv
    \/ /\ halves = <<>>
       /\ continuous = Shown(finfo)
       /\ \/ /\ \/ todo \in {<<>>, <<Then("AnnotateConnection", {})>>}
                \/ \E i \in alive : todo = <<Then("ConnectOne", {i})>>
             /\ finfo.crashed = Srv \ alive
          \/ \E i \in alive :
                /\ todo = <<Then("AnnotateRestart", {i}), Then("ConnectOne", {i})>>
                /\ finfo.crashed \ {i} = Srv \ alive
          \/ todo = <<Then("AnnotateRestart", Srv)>> /\ alive = Srv
          \/ \E s \in SUBSET Srv :
                /\ todo = <<Then("AnnotateShutdown", s)>>
                /\ finfo.crashed \cup s = Srv \ alive

(* A dead server is not connected, and a partition that is in force is one   *)
(* of all the servers, which are alive and count as connected.               *)
Wired ==
    /\ grp.connected \subseteq alive
    /\ ConnectedIsPrecise
    /\ PartitionIsExact
    /\ halves # <<>> => /\ alive = Srv /\ grp.connected = Srv
                        /\ Range(halves[1]) = Srv \ Range(halves[2])

(* Why the four properties hold, an inductive invariant. *)
GroupInv == TypeOK /\ Wired /\ ClientReach /\ Reported
=============================================================================
