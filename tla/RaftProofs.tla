----------------------------- MODULE RaftProofs -----------------------------
(***************************************************************************)
(* Proofs about RaftElection, for any number of servers, elections,        *)
(* heartbeats and restarts.                                                *)
(***************************************************************************)
EXTENDS RaftElection, FiniteSetTheorems, TLAPS

VoteInv == TypeOK /\ BallotsRemembered /\ VoteOncePerTerm


-----------------------------------------------------------------------------
(* The state of a fresh cluster satisfies the invariant. *)
LEMMA InitVoteInv == Init => VoteInv
  BY RaftAssumption
  DEF Init, VoteInv, TypeOK, BallotsRemembered, VoteOncePerTerm, VotedOnce, Role

(* What makeFollower does to a server keeps the types. *)
LEMMA MakeFollowerTypes ==
  ASSUME TypeOK, NEW i \in Server, NEW t \in Nat, makeFollower(i, t)
  PROVE  /\ up' \in [Server -> BOOLEAN]
         /\ role' \in [Server -> Role]
         /\ currentTerm' \in [Server -> Nat]
         /\ cancelled' \in [Server -> SUBSET ({"E", "H"} \X Nat)]
<1>1. role[i] # "follower" => AbortOf(i) \in {"E", "H"} \X Nat
  BY Zenon DEF TypeOK, AbortOf, Role
<1>2. Panics(i) \in BOOLEAN
  BY Zenon DEF Panics
<1> QED
  BY <1>1, <1>2 DEF TypeOK, makeFollower, Role

-----------------------------------------------------------------------------
(* Type correctness, one lemma for each goroutine. *)

LEMMA TickerTypes ==
  ASSUME TypeOK, NEW i \in Server,
         shouldStartElection(i) \/ makeCandidate(i) \/ requestVotes(i)
  PROVE  TypeOK'
<1>1. CASE shouldStartElection(i)
  BY Zenon, <1>1 DEF shouldStartElection, TypeOK, serverVars
<1>2. CASE makeCandidate(i)
  <2>1. role[i] = "leader" => AbortOf(i) \in {"E", "H"} \X Nat
    BY Zenon DEF TypeOK, AbortOf, Role
  <2>2. ballots' \in SUBSET (Server \X Nat \X Server)
    BY <1>2 DEF makeCandidate, TypeOK
  <2>3. cancelled' \in [Server -> SUBSET ({"E", "H"} \X Nat)]
    BY <1>2, <2>1 DEF makeCandidate, TypeOK
  <2>4. CASE role[i] = "leader" /\ Panics(i)
    BY Zenon, <1>2, <2>4 DEF makeCandidate, TypeOK, serverVars
  <2>5. CASE ~(role[i] = "leader" /\ Panics(i))
    <3>1. role' \in [Server -> Role] /\ votedFor' \in [Server -> Server \union {NoServer}]
      BY <1>2, <2>5 DEF makeCandidate, TypeOK, Role
    <3>2. currentTerm' \in [Server -> Nat] /\ votes' \in [Server -> Nat]
            /\ elections' \in [Server -> Nat]
      BY SMTT(30), <1>2, <2>5 DEF makeCandidate, TypeOK
    <3>3. ticker' \in [Server -> {"sleep", "elect", "request"}] /\ up' = up
      BY Zenon, <1>2, <2>5 DEF makeCandidate, TypeOK
    <3> QED
      BY Zenon, <1>2, <2>2, <2>3, <3>1, <3>2, <3>3 DEF makeCandidate, TypeOK
  <2> QED
    BY Zenon, <2>4, <2>5
<1>3. CASE requestVotes(i)
  <2>1. \A j \in Server :
          [from |-> i, to |-> j, ctx |-> elections[i], at |-> "start",
           term |-> 0, granted |-> FALSE, rterm |-> 0] \in Ask
    BY Zenon DEF TypeOK, Ask
  <2>2. {[from |-> i, to |-> j, ctx |-> elections[i], at |-> "start",
          term |-> 0, granted |-> FALSE, rterm |-> 0] : j \in Server \ {i}} \subseteq Ask
    BY Zenon, <2>1
  <2>3. asks' \in SUBSET Ask
    BY Zenon, <1>3, <2>2 DEF requestVotes, TypeOK
  <2> QED
    BY Zenon, <1>3, <2>3 DEF requestVotes, TypeOK, serverVars
<1> QED
  BY Zenon, <1>1, <1>2, <1>3

LEMMA AskTypes ==
  ASSUME TypeOK, NEW a \in asks,
         requestVoteFromServer(a) \/ RequestVote(a)
            \/ requestVoteFails(a) \/ handleRequestVote(a)
  PROVE  TypeOK'
<1> a \in Ask /\ a.from \in Server /\ a.to \in Server /\ a.term \in Nat /\ a.rterm \in Nat
  BY Zenon DEF TypeOK, Ask
<1>1. CASE requestVoteFromServer(a)
  <2>1. [a EXCEPT !.at = "sent", !.term = currentTerm[a.from]] \in Ask
    BY Zenon DEF TypeOK, Ask
  <2> QED
    BY <1>1, <2>1
    DEF requestVoteFromServer, callUnlessDone, Becomes, TypeOK, serverVars, goVars
<1>2. CASE RequestVote(a)
  <2>1. \A g \in BOOLEAN, t \in Nat :
          [a EXCEPT !.at = "reply", !.granted = g, !.rterm = t] \in Ask
    BY Zenon DEF Ask
  <2>2. asks' \in SUBSET Ask
    <3>1. \E g \in BOOLEAN, t \in Nat :
            Becomes(a, [a EXCEPT !.at = "reply", !.granted = g, !.rterm = t])
      <4>1. currentTerm[a.to] \in Nat /\ 0 \in Nat /\ TRUE \in BOOLEAN /\ FALSE \in BOOLEAN
        BY Zenon DEF TypeOK
      <4> QED
        BY <1>2, <4>1, Zenon DEF RequestVote
    <3>2. PICK g \in BOOLEAN, t \in Nat :
            Becomes(a, [a EXCEPT !.at = "reply", !.granted = g, !.rterm = t])
      BY Zenon, <3>1
    <3>3. [a EXCEPT !.at = "reply", !.granted = g, !.rterm = t] \in Ask
      BY Zenon, <2>1
    <3> QED
      BY Zenon, <3>2, <3>3 DEF Becomes, TypeOK
  <2>3. ballots' \in SUBSET (Server \X Nat \X Server)
    BY <1>2 DEF RequestVote, TypeOK
  <2> QED
    BY Zenon, <1>2, <2>2, <2>3 DEF RequestVote, TypeOK, goVars
<1>3. CASE requestVoteFails(a)
  <2>1. [a EXCEPT !.at = "sent", !.granted = FALSE, !.rterm = 0] \in Ask
    BY Zenon DEF Ask
  <2> QED
    BY <1>3, <2>1 DEF requestVoteFails, callUnlessDone, Becomes, TypeOK, serverVars, goVars
<1>4. CASE handleRequestVote(a)
  <2>1. asks' \in SUBSET Ask
    BY Zenon, <1>4 DEF handleRequestVote, TypeOK
  <2>2. CASE makeFollower(a.from, a.rterm)
    BY ZenonT(40), <1>4, <2>1, <2>2, MakeFollowerTypes DEF handleRequestVote, makeFollower, TypeOK
  <2>3. CASE a.granted /\ ~(a.rterm > currentTerm[a.from])
    <3>1. [ctx |-> leads[a.from] + 1, started |-> FALSE] \in [ctx : Nat, started : BOOLEAN]
      BY DEF TypeOK
    <3>2. role' \in [Server -> Role] /\ leads' \in [Server -> Nat]
            /\ loops' \in [Server -> SUBSET [ctx : Nat, started : BOOLEAN]]
      <4>1. CASE makeLeader(a.from)
        BY Zenon, <3>1, <4>1 DEF makeLeader, TypeOK, Role
      <4>2. CASE UNCHANGED <<role, leads, loops>>
        BY Zenon, <4>2 DEF TypeOK
      <4> QED
        BY Zenon, <1>4, <2>3, <4>1, <4>2 DEF handleRequestVote
    <3> QED
      BY SMTT(30), <1>4, <2>1, <2>3, <3>2 DEF handleRequestVote, TypeOK
  <2>4. CASE UNCHANGED <<up, serverVars, goVars>>
    BY Zenon, <1>4, <2>1, <2>4 DEF handleRequestVote, TypeOK, serverVars, goVars
  <2> QED
    BY Zenon, <1>4, <2>2, <2>3, <2>4 DEF handleRequestVote
<1> QED
  BY Zenon, <1>1, <1>2, <1>3, <1>4

LEMMA LoopTypes ==
  ASSUME TypeOK, NEW i \in Server, NEW l \in loops[i],
         startHeartbeat(i, l) \/ heartbeatRound(i, l)
  PROVE  TypeOK'
<1> l \in [ctx : Nat, started : BOOLEAN]
  BY Zenon DEF TypeOK
<1>1. CASE startHeartbeat(i, l)
  <2>1. [l EXCEPT !.started = TRUE] \in [ctx : Nat, started : BOOLEAN]
    BY Zenon
  <2> QED
    BY Zenon, <1>1, <2>1 DEF startHeartbeat, TypeOK, serverVars
<1>2. CASE heartbeatRound(i, l)
  <2>1. \A j \in Server :
          [from |-> i, to |-> j, at |-> "start", term |-> 0, rterm |-> 0] \in Beat
    BY Zenon DEF Beat
  <2>2. beats' \in SUBSET Beat
    BY <1>2, <2>1 DEF heartbeatRound, TypeOK
  <2> QED
    BY SMTT(30), <1>2, <2>2 DEF heartbeatRound, TypeOK, serverVars
<1> QED
  BY Zenon, <1>1, <1>2

LEMMA BeatTypes ==
  ASSUME TypeOK, NEW b \in beats,
         sendHeartbeat(b) \/ AppendEntries(b) \/ heartbeatFails(b) \/ handleAppendEntries(b)
  PROVE  TypeOK'
<1> b \in Beat /\ (b.from # NoServer => b.from \in Server) /\ b.to \in Server /\ b.rterm \in Nat
  BY Zenon DEF TypeOK, Beat
<1>1. \A t \in Nat : /\ [b EXCEPT !.at = "sent", !.term = t] \in Beat
                     /\ [b EXCEPT !.at = "reply", !.rterm = t] \in Beat
  BY ZenonT(40) DEF Beat
<1>2. CASE sendHeartbeat(b)
  BY ZenonT(40), <1>1, <1>2 DEF sendHeartbeat, TypeOK, serverVars, goVars
<1>3. CASE AppendEntries(b)
  <2>1. beats' \in SUBSET Beat
    BY ZenonT(40), <1>1, <1>3 DEF AppendEntries, TypeOK
  <2>2. CASE makeFollower(b.to, currentTerm[b.to])
    <3>1. currentTerm[b.to] \in Nat
      BY Zenon DEF TypeOK
    <3> QED
      BY Zenon, <1>3, <2>1, <2>2, <3>1, MakeFollowerTypes DEF AppendEntries, makeFollower, TypeOK
  <2>3. CASE UNCHANGED <<up, serverVars, goVars>>
    BY Zenon, <1>3, <2>1, <2>3 DEF AppendEntries, TypeOK, serverVars, goVars
  <2> QED
    BY Zenon, <1>3, <2>2, <2>3 DEF AppendEntries
<1>4. CASE heartbeatFails(b)
  BY Zenon, <1>4 DEF heartbeatFails, TypeOK, serverVars, goVars
<1>5. CASE handleAppendEntries(b)
  <2>1. beats' \in SUBSET Beat
    BY Zenon, <1>5 DEF handleAppendEntries, TypeOK
  <2>2. CASE makeFollower(b.from, b.rterm)
    BY Zenon, <1>5, <2>1, <2>2, MakeFollowerTypes DEF handleAppendEntries, makeFollower, TypeOK
  <2>3. CASE UNCHANGED <<up, serverVars, goVars>>
    BY Zenon, <1>5, <2>1, <2>3 DEF handleAppendEntries, TypeOK, serverVars, goVars
  <2> QED
    BY Zenon, <1>5, <2>2, <2>3 DEF handleAppendEntries
<1> QED
  BY Zenon, <1>2, <1>3, <1>4, <1>5

LEMMA RestartTypes ==
  ASSUME TypeOK, NEW i \in Server, Restart(i)
  PROVE  TypeOK'
<1>1. \A a \in Ask : [a EXCEPT !.ctx = 0] \in Ask
  BY Zenon DEF Ask
<1>2. \A b \in Beat : [b EXCEPT !.from = NoServer] \in Beat
  BY Zenon DEF Beat
<1>3. asks' \in SUBSET Ask /\ beats' \in SUBSET Beat
  BY ZenonT(40), <1>1, <1>2 DEF Restart, TypeOK
<1> QED
  BY Zenon, <1>3 DEF Restart, TypeOK, Role

-----------------------------------------------------------------------------
(* A step that leaves ballots and restarts alone keeps the voting invariant   *)
(* if a server whose term it changes moves to a later one and the votes stay. *)
LEMMA VotesFrame ==
  ASSUME VoteInv, ballots' = ballots, crashed' = crashed, votedFor' = votedFor,
         currentTerm' \in [Server -> Nat],
         \A v \in Server : currentTerm'[v] >= currentTerm[v]
  PROVE  BallotsRemembered' /\ VoteOncePerTerm'
<1>1. BallotsRemembered'
  BY DEF VoteInv, BallotsRemembered, TypeOK
<1>2. VoteOncePerTerm'
  BY Zenon DEF VoteInv, VoteOncePerTerm, VotedOnce
<1> QED
  BY Zenon, <1>1, <1>2

(* A server that is about to vote in term t for candidate c, and has no ballot *)
(* of that term for anyone else, keeps the invariant by voting.                *)
LEMMA VoteCast ==
  ASSUME VoteInv, NEW v \in Server, NEW t \in Nat, NEW c \in Server,
         t >= currentTerm[v],
         t = currentTerm[v] => votedFor[v] \in {NoServer, c},
         ballots' = ballots \union {<<v, t, c>>},
         crashed' = crashed,
         votedFor' = [votedFor EXCEPT ![v] = c],
         currentTerm' = [currentTerm EXCEPT ![v] = t]
  PROVE  BallotsRemembered' /\ VoteOncePerTerm'
<1> USE DEF VoteInv
<1>1. \A b \in ballots :
        /\ b \in Server \X Nat \X Server
        /\ b[1] \in Server /\ b[2] \in Nat /\ b[3] \in Server
  BY Zenon DEF TypeOK
<1>2. v \notin crashed => \A b \in ballots : b[1] = v /\ b[2] = t => b[3] = c
  BY <1>1, RaftAssumption DEF BallotsRemembered, TypeOK
<1>3. \A b \in ballots' : b \in ballots \/ (b[1] = v /\ b[2] = t /\ b[3] = c)
  OBVIOUS
<1>4. BallotsRemembered'
  BY <1>1, <1>2, <1>3 DEF BallotsRemembered, TypeOK
<1>5. VoteOncePerTerm'
  BY <1>1, <1>2, <1>3 DEF VoteOncePerTerm, VotedOnce
<1> QED
  BY Zenon, <1>4, <1>5

(* makeFollower never takes a server back, given a term that is not earlier. *)
LEMMA MakeFollowerVotes ==
  ASSUME VoteInv, NEW i \in Server, NEW t \in Nat, t >= currentTerm[i],
         makeFollower(i, t), ballots' = ballots, crashed' = crashed
  PROVE  BallotsRemembered' /\ VoteOncePerTerm'
<1>1. votedFor' = votedFor /\ currentTerm' = [currentTerm EXCEPT ![i] = t]
  BY Zenon DEF makeFollower
<1>2. currentTerm' \in [Server -> Nat] /\ \A v \in Server : currentTerm'[v] >= currentTerm[v]
  BY <1>1 DEF VoteInv, TypeOK
<1> QED
  BY Zenon, <1>1, <1>2, VotesFrame

(* A step that touches none of the four variables. *)
LEMMA VotesUnchanged ==
  ASSUME VoteInv, UNCHANGED <<ballots, crashed, votedFor, currentTerm>>
  PROVE  BallotsRemembered' /\ VoteOncePerTerm'
<1>1. currentTerm' \in [Server -> Nat] /\ \A v \in Server : currentTerm'[v] >= currentTerm[v]
  BY DEF VoteInv, TypeOK
<1> QED
  BY Zenon, <1>1, VotesFrame

-----------------------------------------------------------------------------
(* Every step preserves the invariant. *)
LEMMA NextVoteInv == VoteInv /\ [Next]_vars => VoteInv'
<1> SUFFICES ASSUME VoteInv, [Next]_vars
             PROVE  TypeOK' /\ BallotsRemembered' /\ VoteOncePerTerm'
  BY Zenon DEF VoteInv
<1> TypeOK
  BY Zenon DEF VoteInv
<1>1. ASSUME NEW i \in Server,
             shouldStartElection(i) \/ makeCandidate(i) \/ requestVotes(i)
      PROVE  TypeOK' /\ BallotsRemembered' /\ VoteOncePerTerm'
  <2>1. TypeOK'
    BY Zenon, <1>1, TickerTypes
  <2>2. CASE shouldStartElection(i) \/ requestVotes(i)
    BY Zenon, <2>1, <2>2, VotesUnchanged DEF shouldStartElection, requestVotes, serverVars
  <2>3. CASE makeCandidate(i)
    <3>1. CASE UNCHANGED <<serverVars, ballots>>
      BY Zenon, <2>1, <2>3, <3>1, VotesUnchanged DEF makeCandidate, serverVars
    <3>2. CASE ~(role[i] = "leader" /\ Panics(i))
      <4>1. currentTerm[i] \in Nat /\ currentTerm[i] + 1 \in Nat
              /\ currentTerm[i] + 1 >= currentTerm[i] /\ currentTerm[i] + 1 # currentTerm[i]
        BY DEF TypeOK
      <4>2. /\ ballots' = ballots \union {<<i, currentTerm[i] + 1, i>>}
            /\ crashed' = crashed
            /\ votedFor' = [votedFor EXCEPT ![i] = i]
            /\ currentTerm' = [currentTerm EXCEPT ![i] = currentTerm[i] + 1]
        BY Zenon, <2>3, <3>2 DEF makeCandidate
      <4> QED
        BY Zenon, <2>1, <4>1, <4>2, VoteCast
    <3> QED
      BY Zenon, <2>3, <3>1, <3>2 DEF makeCandidate
  <2> QED
    BY Zenon, <1>1, <2>2, <2>3
<1>2. ASSUME NEW i \in Server, NEW l \in loops[i], startHeartbeat(i, l) \/ heartbeatRound(i, l)
      PROVE  TypeOK' /\ BallotsRemembered' /\ VoteOncePerTerm'
  BY Zenon, <1>2, LoopTypes, VotesUnchanged DEF startHeartbeat, heartbeatRound, serverVars
<1>3. ASSUME NEW i \in Server, Restart(i)
      PROVE  TypeOK' /\ BallotsRemembered' /\ VoteOncePerTerm'
  <2>1. \A v \in Server \ crashed' : currentTerm'[v] = currentTerm[v] /\ votedFor'[v] = votedFor[v]
    BY Zenon, <1>3 DEF Restart, TypeOK
  <2>2. ballots' = ballots /\ crashed \subseteq crashed'
    BY Zenon, <1>3 DEF Restart
  <2>3. \A b \in ballots : b[1] \in Server
    BY Zenon DEF TypeOK
  <2>4. BallotsRemembered'
    BY Zenon, <2>1, <2>2, <2>3 DEF VoteInv, BallotsRemembered
  <2>5. VoteOncePerTerm'
    BY <2>2 DEF VoteInv, VoteOncePerTerm, VotedOnce
  <2> QED
    BY Zenon, <1>3, <2>4, <2>5, RestartTypes
<1>4. ASSUME NEW a \in asks,
             requestVoteFromServer(a) \/ RequestVote(a)
                \/ requestVoteFails(a) \/ handleRequestVote(a)
      PROVE  TypeOK' /\ BallotsRemembered' /\ VoteOncePerTerm'
  <2> a.from \in Server /\ a.to \in Server /\ a.term \in Nat /\ a.rterm \in Nat
    BY Zenon DEF TypeOK, Ask
  <2>1. TypeOK'
    BY Zenon, <1>4, AskTypes
  <2>2. CASE requestVoteFromServer(a) \/ requestVoteFails(a)
    BY Zenon, <2>1, <2>2, VotesUnchanged
    DEF requestVoteFromServer, requestVoteFails, serverVars
  <2>3. CASE RequestVote(a)
    <3>1. CASE UNCHANGED <<votedFor, currentTerm, ballots>>
      BY Zenon, <2>1, <2>3, <3>1, VotesUnchanged DEF RequestVote
    <3>2. CASE ~Outdated(a) /\ ~AlreadyVoted(a)
      <4>1. /\ ballots' = ballots \union {<<a.to, a.term, a.from>>}
            /\ crashed' = crashed
            /\ votedFor' = [votedFor EXCEPT ![a.to] = a.from]
            /\ currentTerm' = [currentTerm EXCEPT ![a.to] = a.term]
        BY Zenon, <2>3, <3>2 DEF RequestVote
      <4>2. a.term >= currentTerm[a.to]
        BY <3>2 DEF TypeOK, Outdated
      <4>3. a.term = currentTerm[a.to] => votedFor[a.to] \in {NoServer, a.from}
        BY Zenon, <3>2 DEF AlreadyVoted
      <4> QED
        BY Zenon, <2>1, <4>1, <4>2, <4>3, VoteCast
    <3> QED
      BY Zenon, <2>3, <3>1, <3>2 DEF RequestVote
  <2>4. CASE handleRequestVote(a)
    <3>1. CASE a.rterm > currentTerm[a.from] /\ makeFollower(a.from, a.rterm)
      <4>1. a.rterm >= currentTerm[a.from]
        BY <3>1 DEF TypeOK
      <4> QED
        BY Zenon, <2>1, <2>4, <3>1, <4>1, MakeFollowerVotes DEF handleRequestVote
    <3>2. CASE UNCHANGED <<currentTerm, votedFor>>
      BY Zenon, <2>1, <2>4, <3>2, VotesUnchanged DEF handleRequestVote
    <3> QED
      BY Zenon, <2>4, <3>1, <3>2 DEF handleRequestVote, serverVars
  <2> QED
    BY Zenon, <1>4, <2>2, <2>3, <2>4
<1>5. ASSUME NEW b \in beats,
             sendHeartbeat(b) \/ AppendEntries(b) \/ heartbeatFails(b) \/ handleAppendEntries(b)
      PROVE  TypeOK' /\ BallotsRemembered' /\ VoteOncePerTerm'
  <2> (b.from # NoServer => b.from \in Server) /\ b.to \in Server /\ b.rterm \in Nat
    BY Zenon DEF TypeOK, Beat
  <2>1. TypeOK'
    BY Zenon, <1>5, BeatTypes
  <2>2. CASE sendHeartbeat(b) \/ heartbeatFails(b)
    BY Zenon, <2>1, <2>2, VotesUnchanged DEF sendHeartbeat, heartbeatFails, serverVars
  <2>3. CASE AppendEntries(b)
    <3>1. currentTerm[b.to] \in Nat /\ currentTerm[b.to] >= currentTerm[b.to]
      BY DEF TypeOK
    <3>2. CASE makeFollower(b.to, currentTerm[b.to])
      BY Zenon, <2>1, <2>3, <3>1, <3>2, MakeFollowerVotes DEF AppendEntries
    <3>3. CASE UNCHANGED serverVars
      BY Zenon, <2>1, <2>3, <3>3, VotesUnchanged DEF AppendEntries, serverVars
    <3> QED
      BY Zenon, <2>3, <3>2, <3>3 DEF AppendEntries
  <2>4. CASE handleAppendEntries(b)
    <3>1. CASE b.rterm > currentTerm[b.from] /\ makeFollower(b.from, b.rterm)
      <4>1. b.from \in Server
        BY Zenon, <2>4 DEF handleAppendEntries
      <4>2. b.rterm >= currentTerm[b.from]
        BY <3>1, <4>1 DEF TypeOK
      <4> QED
        BY Zenon, <2>1, <2>4, <3>1, <4>1, <4>2, MakeFollowerVotes DEF handleAppendEntries
    <3>2. CASE UNCHANGED serverVars
      BY Zenon, <2>1, <2>4, <3>2, VotesUnchanged DEF handleAppendEntries, serverVars
    <3> QED
      BY Zenon, <2>4, <3>1, <3>2 DEF handleAppendEntries
  <2> QED
    BY Zenon, <1>5, <2>2, <2>3, <2>4
<1>6. CASE UNCHANGED vars
  <2>1. TypeOK'
    BY Zenon, <1>6 DEF vars, TypeOK, serverVars, goVars
  <2> QED
    BY Zenon, <1>6, <2>1, VotesUnchanged DEF vars, serverVars
<1> QED
  BY Zenon, <1>1, <1>2, <1>3, <1>4, <1>5, <1>6 DEF Next

-----------------------------------------------------------------------------
(***************************************************************************)
(* The votes, terms and goroutine records of raft.go keep their types, and *)
(* votedFor and currentTerm of a running server remember its last ballot.  *)
(***************************************************************************)
THEOREM VoteInvHolds == Spec => []VoteInv
  BY InitVoteInv, NextVoteInv, PTL DEF Spec

(***************************************************************************)
(* RequestVote and makeCandidate: a server that was not restarted votes    *)
(* for at most one candidate in a term, for every number of servers,       *)
(* elections and messages, and whatever the races between the goroutines.  *)
(***************************************************************************)
THEOREM VoteOncePerTermHolds == Spec => []VoteOncePerTerm
<1>1. VoteInv => VoteOncePerTerm
  BY Zenon DEF VoteInv
<1> QED
  BY <1>1, VoteInvHolds, PTL

-----------------------------------------------------------------------------
NotBack == \A i \in Server \ (crashed' \ crashed) : currentTerm'[i] >= currentTerm[i]

(* A step that leaves the terms, or moves one server to a term not earlier. *)
LEMMA NotBackStep ==
  ASSUME TypeOK,
         \/ currentTerm' = currentTerm
         \/ \E i \in Server, t \in Nat :
                t >= currentTerm[i] /\ currentTerm' = [currentTerm EXCEPT ![i] = t]
  PROVE  NotBack
  BY DEF TypeOK, NotBack

LEMMA NextNotBack == TypeOK /\ [Next]_vars => [NotBack]_vars
<1> SUFFICES ASSUME TypeOK, Next
             PROVE  NotBack
  BY Zenon
<1> \A i \in Server : currentTerm[i] \in Nat /\ currentTerm[i] + 1 >= currentTerm[i]
                        /\ currentTerm[i] >= currentTerm[i]
  BY DEF TypeOK
<1>1. ASSUME NEW i \in Server,
             shouldStartElection(i) \/ makeCandidate(i) \/ requestVotes(i)
                \/ (\E l \in loops[i] : startHeartbeat(i, l) \/ heartbeatRound(i, l))
      PROVE  NotBack
  <2>1. currentTerm' = currentTerm
          \/ currentTerm' = [currentTerm EXCEPT ![i] = currentTerm[i] + 1]
    BY Zenon, <1>1 DEF shouldStartElection, makeCandidate, requestVotes,
                startHeartbeat, heartbeatRound, serverVars
  <2> QED
    BY <2>1, NotBackStep
<1>2. ASSUME NEW i \in Server, Restart(i)
      PROVE  NotBack
  BY Zenon, <1>2 DEF Restart, NotBack, TypeOK
<1>3. ASSUME NEW a \in asks,
             requestVoteFromServer(a) \/ RequestVote(a)
                \/ requestVoteFails(a) \/ handleRequestVote(a)
      PROVE  NotBack
  <2> a.from \in Server /\ a.to \in Server /\ a.term \in Nat /\ a.rterm \in Nat
    BY Zenon DEF TypeOK, Ask
  <2>1. \/ currentTerm' = currentTerm
        \/ ~(a.term < currentTerm[a.to])
              /\ currentTerm' = [currentTerm EXCEPT ![a.to] = a.term]
        \/ a.rterm > currentTerm[a.from]
              /\ currentTerm' = [currentTerm EXCEPT ![a.from] = a.rterm]
    BY Zenon, <1>3 DEF requestVoteFromServer, RequestVote, Outdated, requestVoteFails,
                handleRequestVote, makeFollower, serverVars
  <2> QED
    BY <2>1, NotBackStep
<1>4. ASSUME NEW b \in beats,
             sendHeartbeat(b) \/ AppendEntries(b) \/ heartbeatFails(b) \/ handleAppendEntries(b)
      PROVE  NotBack
  <2> (b.from # NoServer => b.from \in Server) /\ b.to \in Server /\ b.rterm \in Nat
    BY Zenon DEF TypeOK, Beat
  <2>1. \/ currentTerm' = currentTerm
        \/ currentTerm' = [currentTerm EXCEPT ![b.to] = currentTerm[b.to]]
        \/ b.from # NoServer /\ b.rterm > currentTerm[b.from]
              /\ currentTerm' = [currentTerm EXCEPT ![b.from] = b.rterm]
    BY Zenon, <1>4 DEF sendHeartbeat, AppendEntries, heartbeatFails,
                handleAppendEntries, makeFollower, serverVars
  <2> QED
    BY <2>1, NotBackStep
<1> QED
  BY Zenon, <1>1, <1>2, <1>3, <1>4 DEF Next

(***************************************************************************)
(* makeFollower: no reply, however late, takes a server that is not being  *)
(* restarted back to an earlier term.                                      *)
(***************************************************************************)
THEOREM TermsGrowHolds == Spec => TermsGrow
<1>1. VoteInv => TypeOK
  BY Zenon DEF VoteInv
<1>2. [NotBack]_vars => [\A i \in Server \ (crashed' \ crashed) :
                            currentTerm'[i] >= currentTerm[i]]_vars
  BY Zenon DEF NotBack
<1> QED
  BY <1>1, <1>2, VoteInvHolds, NextNotBack, PTL DEF Spec, TermsGrow

-----------------------------------------------------------------------------
(***************************************************************************)
(* The election of the first term.  The inductive invariant is             *)
(* FirstTermInv: what a server that has started one election and is still  *)
(* in term 1 has counted.  What changes its counter, its goroutines or the *)
(* ballots is looked at server by server.                                  *)
(***************************************************************************)

(* The voters a server can have counted are finitely many. *)
LEMMA SupportersFinite ==
  ASSUME NEW i \in Server
  PROVE  /\ IsFiniteSet(Supporters(i)) /\ Cardinality(Supporters(i)) \in Nat
         /\ IsFiniteSet(Supporters(i)') /\ Cardinality(Supporters(i)') \in Nat
<1>1. Supporters(i) \in SUBSET Server /\ Supporters(i)' \in SUBSET Server
  BY Zenon DEF Supporters
<1>2. IsFiniteSet(Supporters(i)) /\ IsFiniteSet(Supporters(i)')
  BY Zenon, <1>1, RaftAssumption, FS_Subset
<1> QED
  BY Zenon, <1>2, FS_CardinalityType

(* A goroutine that ends and a ballot that is cast take no supporter away. *)
LEMMA SupportersGrow ==
  ASSUME NEW i \in Server, ballots \subseteq ballots',
         \A b \in asks' : b.from = i => \E a \in asks : a.from = i /\ a.to = b.to
  PROVE  Cardinality(Supporters(i)) <= Cardinality(Supporters(i)')
<1>1. Supporters(i) \in SUBSET (Supporters(i)')
  <2> SUFFICES ASSUME NEW v \in Server, <<v, 1, i>> \in ballots, Asking(i, v) = {}
               PROVE  Asking(i, v)' = {}
    BY Zenon DEF Supporters
  <2> SUFFICES ASSUME NEW b \in asks', b.from = i, b.to = v
               PROVE  FALSE
    BY Zenon DEF Asking
  <2>1. PICK a \in asks : a.from = i /\ a.to = b.to
    BY Zenon
  <2> QED
    BY Zenon, <2>1 DEF Asking
<1> QED
  BY Zenon, <1>1, SupportersFinite, FS_Subset

(* Steps that add nothing to the goroutines of a server. *)
LEMMA FirstKept ==
  ASSUME NEW i \in Server, FirstElection(i), ballots \subseteq ballots',
         \A b \in asks' : b.from = i => b \in asks,
         ticker'[i] = "request" => ticker[i] = "request",
         votes'[i] = votes[i], votes[i] \in Nat,
         role'[i] = "leader" => role[i] = "leader"
  PROVE  FirstElection(i)'
<1>1. Cardinality(Supporters(i)) <= Cardinality(Supporters(i)')
  BY Zenon, SupportersGrow
<1>2. votes'[i] <= Cardinality(Supporters(i)')
  BY <1>1, SupportersFinite DEF FirstElection
<1>3. \A a \in asks' : a.from = i =>
        /\ a.to # i
        /\ ticker'[i] # "request"
        /\ a.at # "start" => a.term = 1
        /\ a.granted => <<a.to, 1, i>> \in ballots'
        /\ \A b \in asks' : b.from = i /\ b.to = a.to => b = a
  BY Zenon DEF FirstElection
<1>4. role'[i] = "leader" => HasMajority(votes'[i])
  BY Zenon DEF FirstElection
<1> QED
  BY Zenon, <1>2, <1>3, <1>4 DEF FirstElection, HasMajority

(* Steps that move one goroutine of a server on. *)
LEMMA FirstReplaced ==
  ASSUME NEW i \in Server, FirstElection(i), ballots \subseteq ballots',
         NEW a \in asks, NEW b, b.from = a.from, b.to = a.to, a.from = i,
         asks' = (asks \ {a}) \union {b},
         b.term = 1, b.granted => <<b.to, 1, i>> \in ballots',
         ticker'[i] = ticker[i], votes'[i] = votes[i], votes[i] \in Nat,
         role'[i] = role[i]
  PROVE  FirstElection(i)'
<1>1. Cardinality(Supporters(i)) <= Cardinality(Supporters(i)')
  <2>1. \A c \in asks' : c.from = i => \E d \in asks : d.from = i /\ d.to = c.to
    BY Zenon
  <2> QED
    BY Zenon, <2>1, SupportersGrow
<1>2. votes'[i] <= Cardinality(Supporters(i)')
  BY <1>1, SupportersFinite DEF FirstElection
<1>3. ASSUME NEW c \in asks', c.from = i
      PROVE  /\ c.to # i
             /\ ticker'[i] # "request"
             /\ c.at # "start" => c.term = 1
             /\ c.granted => <<c.to, 1, i>> \in ballots'
             /\ \A d \in asks' : d.from = i /\ d.to = c.to => d = c
  <2>1. ASSUME NEW d \in asks', d.from = i, d.to = c.to
        PROVE  d = c
    <3>1. CASE c = b /\ d = b
      BY Zenon, <3>1
    <3>2. CASE c # b /\ d = b
      BY Zenon, <3>2, <1>3, <2>1 DEF FirstElection
    <3>3. CASE c = b /\ d # b
      BY Zenon, <3>3, <1>3, <2>1 DEF FirstElection
    <3>4. CASE c # b /\ d # b
      BY Zenon, <3>4, <1>3, <2>1 DEF FirstElection
    <3> QED
      BY Zenon, <3>1, <3>2, <3>3, <3>4
  <2> QED
    BY Zenon, <1>3, <2>1 DEF FirstElection
<1> QED
  BY Zenon, <1>2, <1>3 DEF FirstElection, HasMajority
(* What is left to show for a step that starts no election. *)
LEMMA FirstStep ==
  ASSUME TypeOK, TypeOK', FirstTermInv, NotBack, UNCHANGED <<elections, crashed>>,
         \A i \in Server : crashed = {} /\ elections[i] = 0 =>
            /\ role'[i] = "follower" /\ votes'[i] = 0 /\ ticker'[i] # "request"
            /\ \A a \in asks' : a.from # i,
         \A i \in Server : crashed = {} /\ elections[i] = 1 /\ currentTerm[i] = 1
                             /\ currentTerm'[i] = 1 /\ FirstElection(i) => FirstElection(i)'
  PROVE  FirstTermInv'
<1> SUFFICES ASSUME crashed = {}, NEW i \in Server
             PROVE  /\ elections[i] <= currentTerm'[i]
                    /\ elections[i] = 1 /\ currentTerm'[i] = 1 => FirstElection(i)'
  BY Zenon DEF FirstTermInv
<1>1. /\ elections[i] \in Nat /\ currentTerm[i] \in Nat /\ currentTerm'[i] \in Nat
      /\ elections[i] <= currentTerm[i] /\ currentTerm[i] <= currentTerm'[i]
      /\ elections[i] = 1 /\ currentTerm[i] = 1 => FirstElection(i)
  BY DEF TypeOK, FirstTermInv, NotBack
<1>2. elections[i] = 1 /\ currentTerm'[i] = 1 => currentTerm[i] = 1
  BY <1>1
<1> QED
  BY <1>1, <1>2

(* Steps that count nothing, ask nothing and elect no one. *)
LEMMA FirstQuiet ==
  ASSUME TypeOK, TypeOK', FirstTermInv, NotBack,
         UNCHANGED <<elections, crashed, votes, ballots>>, asks' \subseteq asks,
         \A i \in Server : role'[i] \in {role[i], "follower"},
         \A i \in Server : ticker'[i] = "request" => ticker[i] = "request"
  PROVE  FirstTermInv'
<1>1. ASSUME NEW i \in Server, crashed = {}, elections[i] = 0
      PROVE  /\ role'[i] = "follower" /\ votes'[i] = 0 /\ ticker'[i] # "request"
             /\ \A a \in asks' : a.from # i
  BY Zenon, <1>1 DEF FirstTermInv
<1>2. ASSUME NEW i \in Server, FirstElection(i)
      PROVE  FirstElection(i)'
  <2>1. votes[i] \in Nat /\ votes'[i] = votes[i] /\ ballots \subseteq ballots'
    BY Zenon DEF TypeOK
  <2>2. /\ \A b \in asks' : b.from = i => b \in asks
        /\ ticker'[i] = "request" => ticker[i] = "request"
        /\ role'[i] = "leader" => role[i] = "leader"
    BY Zenon
  <2> QED
    BY Zenon, <1>2, <2>1, <2>2, FirstKept
<1> QED
  BY Zenon, <1>1, <1>2, FirstStep

(* Steps that move one goroutine on: the call is made, answered or repeated. *)
LEMMA FirstMoves ==
  ASSUME TypeOK, TypeOK', FirstTermInv, NotBack,
         UNCHANGED <<elections, crashed, votes, role, ticker>>, ballots \subseteq ballots',
         NEW a \in asks, NEW b, b.from = a.from, b.to = a.to,
         asks' = (asks \ {a}) \union {b},
         FirstElection(a.from) /\ currentTerm[a.from] = 1 =>
            b.term = 1 /\ (b.granted => <<b.to, 1, a.from>> \in ballots')
  PROVE  FirstTermInv'
<1>0. a.from \in Server
  BY Zenon DEF TypeOK, Ask
<1>1. ASSUME NEW i \in Server, crashed = {}, elections[i] = 0
      PROVE  /\ role'[i] = "follower" /\ votes'[i] = 0 /\ ticker'[i] # "request"
             /\ \A c \in asks' : c.from # i
  BY <1>1 DEF FirstTermInv
<1>2. ASSUME NEW i \in Server, FirstElection(i), currentTerm[i] = 1
      PROVE  FirstElection(i)'
  <2>1. /\ votes[i] \in Nat /\ votes'[i] = votes[i] /\ ticker'[i] = ticker[i]
        /\ role'[i] = role[i]
    BY Zenon DEF TypeOK
  <2>2. CASE i = a.from
    BY Zenon, <1>2, <2>1, <2>2, FirstReplaced
  <2>3. CASE i # a.from
    <3>1. \A c \in asks' : c.from = i => c \in asks
      BY Zenon, <2>3
    <3> QED
      BY Zenon, <1>2, <2>1, <3>1, FirstKept
  <2> QED
    BY Zenon, <2>2, <2>3
<1> QED
  BY Zenon, <1>1, <1>2, FirstStep

(* shouldStartElection and requestVotes. *)
LEMMA FirstTicker ==
  ASSUME TypeOK, TypeOK', FirstTermInv, NotBack, NEW i \in Server,
         shouldStartElection(i) \/ requestVotes(i)
  PROVE  FirstTermInv'
<1>1. CASE shouldStartElection(i)
  <2>1. /\ UNCHANGED <<elections, crashed, votes, ballots>> /\ asks' \subseteq asks
        /\ \A j \in Server : role'[j] \in {role[j], "follower"}
    BY Zenon, <1>1 DEF shouldStartElection, serverVars
  <2>2. \A j \in Server : ticker'[j] = "request" => ticker[j] = "request"
    BY Zenon, <1>1 DEF shouldStartElection, TypeOK
  <2> QED
    BY Zenon, <2>1, <2>2, FirstQuiet
<1>2. CASE requestVotes(i)
  <2>1. /\ UNCHANGED <<elections, crashed, votes, ballots, role>>
        /\ ticker[i] = "request" /\ ticker'[i] = "sleep"
        /\ \A j \in Server : j # i => ticker'[j] = ticker[j]
    BY Zenon, <1>2 DEF requestVotes, serverVars, TypeOK
  <2>2. /\ \A c \in asks' : c \in asks \/ (c.from = i /\ c.to # i /\ c.at = "start" /\ ~c.granted)
        /\ \A c, d \in asks' : c \notin asks /\ d \notin asks /\ c.to = d.to => c = d
    <3> DEFINE R(j) == [from |-> i, to |-> j, ctx |-> elections[i], at |-> "start",
                        term |-> 0, granted |-> FALSE, rterm |-> 0]
    <3>1. asks' = asks \union {R(j) : j \in Server \ {i}}
      BY Zenon, <1>2 DEF requestVotes
    <3>2. \A j \in Server : R(j).from = i /\ R(j).to = j /\ R(j).at = "start" /\ ~R(j).granted
      BY Zenon
    <3> HIDE DEF R
    <3>3. \A c \in asks' : c \in asks \/ \E j \in Server \ {i} : c = R(j)
      BY Zenon, <3>1
    <3> QED
      BY <3>2, <3>3
  <2>3. ASSUME NEW j \in Server, crashed = {}, elections[j] = 0
        PROVE  /\ role'[j] = "follower" /\ votes'[j] = 0 /\ ticker'[j] # "request"
               /\ \A c \in asks' : c.from # j
    BY Zenon, <2>1, <2>2, <2>3 DEF FirstTermInv
  <2>4. ASSUME NEW j \in Server, j # i, FirstElection(j)
        PROVE  FirstElection(j)'
    <3>1. votes[j] \in Nat /\ votes'[j] = votes[j] /\ role'[j] = role[j]
            /\ ticker'[j] = ticker[j] /\ ballots \subseteq ballots'
      BY Zenon, <2>1, <2>4 DEF TypeOK
    <3>2. \A c \in asks' : c.from = j => c \in asks
      BY Zenon, <2>2, <2>4
    <3> QED
      BY Zenon, <2>4, <3>1, <3>2, FirstKept
  <2>5. ASSUME FirstElection(i)
        PROVE  FirstElection(i)'
    <3>1. <<i, 1, i>> \in ballots /\ votes[i] \in Nat /\ votes[i] <= 1
            /\ \A a \in asks : a.from # i
      BY Zenon, <2>1, <2>5 DEF FirstElection, TypeOK
    <3>2. i \in Supporters(i)'
      BY Zenon, <2>1, <2>2, <3>1 DEF Supporters, Asking
    <3>3. Cardinality(Supporters(i)') # 0
      BY Zenon, <3>2, SupportersFinite, FS_EmptySet
    <3>4. votes'[i] <= Cardinality(Supporters(i)')
      BY <2>1, <3>1, <3>3, SupportersFinite
    <3>5. \A a \in asks' : a.from = i =>
            /\ a.to # i
            /\ ticker'[i] # "request"
            /\ a.at # "start" => a.term = 1
            /\ a.granted => <<a.to, 1, i>> \in ballots'
            /\ \A b \in asks' : b.from = i /\ b.to = a.to => b = a
      BY Zenon, <2>1, <2>2, <3>1
    <3>6. role'[i] = "leader" => HasMajority(votes'[i])
      BY Zenon, <2>1, <2>5 DEF FirstElection
    <3> QED
      BY Zenon, <2>1, <3>1, <3>4, <3>5, <3>6 DEF FirstElection, HasMajority
  <2> QED
    BY Zenon, <2>1, <2>3, <2>4, <2>5, FirstStep
<1> QED
  BY Zenon, <1>1, <1>2


(* makeCandidate: the first election of a server begins with its own vote, and *)
(* every later one is in a later term.                                         *)
LEMMA FirstCandidate ==
  ASSUME TypeOK, TypeOK', FirstTermInv, NotBack, NEW i \in Server, makeCandidate(i)
  PROVE  FirstTermInv'
<1>0. UNCHANGED <<asks, crashed>>
  BY Zenon DEF makeCandidate
<1>1. CASE UNCHANGED <<serverVars, elections, ticker, ballots>>
  <2>1. /\ UNCHANGED <<elections, crashed, votes, ballots>> /\ asks' \subseteq asks
        /\ \A j \in Server : role'[j] \in {role[j], "follower"}
        /\ \A j \in Server : ticker'[j] = "request" => ticker[j] = "request"
    BY Zenon, <1>0, <1>1 DEF serverVars
  <2> QED
    BY Zenon, <2>1, FirstQuiet
<1>2. CASE /\ role' = [role EXCEPT ![i] = "candidate"]
           /\ currentTerm' = [currentTerm EXCEPT ![i] = @ + 1]
           /\ votes' = [votes EXCEPT ![i] = @ + 1]
           /\ elections' = [elections EXCEPT ![i] = @ + 1]
           /\ ticker' = [ticker EXCEPT ![i] = "request"]
           /\ ballots' = ballots \union {<<i, currentTerm[i] + 1, i>>}
  <2>1. /\ role'[i] = "candidate" /\ currentTerm'[i] = currentTerm[i] + 1
        /\ votes'[i] = votes[i] + 1 /\ elections'[i] = elections[i] + 1
        /\ ticker'[i] = "request" /\ ballots \subseteq ballots'
        /\ <<i, currentTerm'[i], i>> \in ballots'
        /\ currentTerm[i] \in Nat /\ elections[i] \in Nat /\ votes[i] \in Nat
    BY Zenon, <1>2 DEF TypeOK
  <2>2. \A j \in Server : j # i =>
          /\ role'[j] = role[j] /\ currentTerm'[j] = currentTerm[j]
          /\ votes'[j] = votes[j] /\ elections'[j] = elections[j] /\ ticker'[j] = ticker[j]
          /\ votes[j] \in Nat
    BY Zenon, <1>2 DEF TypeOK
  <2> SUFFICES ASSUME crashed = {}, NEW j \in Server
               PROVE  /\ elections'[j] <= currentTerm'[j]
                      /\ elections'[j] = 0 =>
                           /\ role'[j] = "follower" /\ votes'[j] = 0
                           /\ ticker'[j] # "request" /\ \A a \in asks' : a.from # j
                      /\ elections'[j] = 1 /\ currentTerm'[j] = 1 => FirstElection(j)'
    BY Zenon, <1>0 DEF FirstTermInv
  <2>3. CASE j # i
    <3>1. FirstElection(j) => FirstElection(j)'
      <4>1. \A b \in asks' : b.from = j => b \in asks
        BY Zenon, <1>0
      <4> QED
        BY Zenon, <2>1, <2>2, <2>3, <4>1, FirstKept
    <3> QED
      BY Zenon, <1>0, <2>2, <2>3, <3>1 DEF FirstTermInv
  <2>4. CASE j = i
    <3>1. elections[i] <= currentTerm[i]
            /\ (elections[i] = 0 => votes[i] = 0 /\ \A a \in asks : a.from # i)
      BY Zenon DEF FirstTermInv
    <3>2. elections'[i] <= currentTerm'[i] /\ elections'[i] # 0
      BY <2>1, <3>1
    <3>3. ASSUME elections'[i] = 1, currentTerm'[i] = 1
          PROVE  FirstElection(i)'
      <4>1. /\ votes'[i] = 1 /\ \A a \in asks' : a.from # i
            /\ <<i, 1, i>> \in ballots'
        BY <1>0, <2>1, <3>1, <3>3
      <4>2. i \in Supporters(i)'
        BY Zenon, <4>1 DEF Supporters, Asking
      <4>3. Cardinality(Supporters(i)') # 0
        BY Zenon, <4>2, SupportersFinite, FS_EmptySet
      <4>4. votes'[i] <= Cardinality(Supporters(i)') /\ votes'[i] <= 1
        BY <4>1, <4>3, SupportersFinite
      <4> QED
        BY Zenon, <2>1, <4>1, <4>4 DEF FirstElection
    <3> QED
      BY Zenon, <2>4, <3>2, <3>3
  <2> QED
    BY Zenon, <2>3, <2>4
<1> QED
  BY Zenon, <1>1, <1>2 DEF makeCandidate

(* requestVoteFromServer up to the answer of its call. *)
LEMMA FirstCalls ==
  ASSUME TypeOK, TypeOK', FirstTermInv, NotBack, NEW a \in asks,
         requestVoteFromServer(a) \/ RequestVote(a) \/ requestVoteFails(a)
  PROVE  FirstTermInv'
<1>0. a \in Ask /\ a.from \in Server /\ a.to \in Server
  BY Zenon DEF TypeOK, Ask
<1>1. /\ UNCHANGED <<elections, crashed, votes, role, ticker>>
      /\ ballots \subseteq ballots'
  BY Zenon DEF requestVoteFromServer, RequestVote, requestVoteFails, serverVars, goVars
<1>2. CASE asks' = asks \ {a} /\ UNCHANGED ballots
  <2>1. /\ asks' \subseteq asks
        /\ \A i \in Server : role'[i] \in {role[i], "follower"}
        /\ \A i \in Server : ticker'[i] = "request" => ticker[i] = "request"
    BY Zenon, <1>1, <1>2
  <2> QED
    BY Zenon, <1>1, <1>2, <2>1, FirstQuiet
<1>3. ASSUME NEW b, asks' = (asks \ {a}) \union {b}, b.from = a.from, b.to = a.to,
             FirstElection(a.from) /\ currentTerm[a.from] = 1 =>
                b.term = 1 /\ (b.granted => <<b.to, 1, a.from>> \in ballots')
      PROVE  FirstTermInv'
  BY Zenon, <1>1, <1>3, FirstMoves
<1>4. FirstElection(a.from) =>
        (a.at # "start" => a.term = 1) /\ (a.granted => <<a.to, 1, a.from>> \in ballots)
  BY Zenon DEF FirstElection
<1>5. CASE requestVoteFromServer(a)
  <2> DEFINE b == [a EXCEPT !.at = "sent", !.term = currentTerm[a.from]]
  <2>1. b.from = a.from /\ b.to = a.to /\ b.term = currentTerm[a.from] /\ b.granted = a.granted
    BY Zenon, <1>0 DEF Ask
  <2>2. UNCHANGED ballots /\ (asks' = asks \ {a} \/ asks' = (asks \ {a}) \union {b})
    BY Zenon, <1>5 DEF requestVoteFromServer, callUnlessDone, Becomes
  <2> HIDE DEF b
  <2> QED
    BY Zenon, <1>2, <1>3, <1>4, <2>1, <2>2
<1>6. CASE RequestVote(a)
  <2> DEFINE b(g, r) == [a EXCEPT !.at = "reply", !.granted = g, !.rterm = r]
  <2>1. \A g, r : b(g, r).from = a.from /\ b(g, r).to = a.to /\ b(g, r).term = a.term
                    /\ b(g, r).granted = g
    BY Zenon, <1>0 DEF Ask
  <2>2. a.at # "start"
    BY Zenon, <1>6 DEF RequestVote
  <2>3. \/ \E r : asks' = (asks \ {a}) \union {b(FALSE, r)}
        \/ \E r : asks' = (asks \ {a}) \union {b(TRUE, r)} /\ <<a.to, a.term, a.from>> \in ballots'
    BY <1>6, Zenon DEF RequestVote, Becomes
  <2> HIDE DEF b
  <2>4. ASSUME NEW r, asks' = (asks \ {a}) \union {b(FALSE, r)}
        PROVE  FirstTermInv'
    <3> DEFINE c == b(FALSE, r)
    <3>1. c.from = a.from /\ c.to = a.to /\ c.term = a.term /\ ~c.granted
      BY Zenon, <2>1
    <3>2. asks' = (asks \ {a}) \union {c}
      BY Zenon, <2>4
    <3> HIDE DEF c
    <3> QED
      BY Zenon, <1>3, <1>4, <2>2, <3>1, <3>2
  <2>5. ASSUME NEW r, asks' = (asks \ {a}) \union {b(TRUE, r)},
               <<a.to, a.term, a.from>> \in ballots'
        PROVE  FirstTermInv'
    <3> DEFINE c == b(TRUE, r)
    <3>1. c.from = a.from /\ c.to = a.to /\ c.term = a.term
      BY Zenon, <2>1
    <3>2. asks' = (asks \ {a}) \union {c}
      BY Zenon, <2>5
    <3> HIDE DEF c
    <3> QED
      BY Zenon, <1>3, <1>4, <2>2, <2>5, <3>1, <3>2
  <2> QED
    BY Zenon, <2>3, <2>4, <2>5
<1>7. CASE requestVoteFails(a)
  <2> DEFINE b == [a EXCEPT !.at = "sent", !.granted = FALSE, !.rterm = 0]
  <2>1. b.from = a.from /\ b.to = a.to /\ b.term = a.term /\ ~b.granted
    BY Zenon, <1>0 DEF Ask
  <2>2. UNCHANGED ballots /\ (asks' = asks \ {a} \/ asks' = (asks \ {a}) \union {b})
          /\ a.at # "start"
    BY Zenon, <1>7 DEF requestVoteFails, callUnlessDone, Becomes
  <2> HIDE DEF b
  <2> QED
    BY Zenon, <1>2, <1>3, <1>4, <2>1, <2>2
<1> QED
  BY Zenon, <1>5, <1>6, <1>7


(* handleRequestVote: a vote is counted when its goroutine ends, and so only once. *)
LEMMA FirstCounts ==
  ASSUME TypeOK, TypeOK', FirstTermInv, NotBack, NEW a \in asks, handleRequestVote(a)
  PROVE  FirstTermInv'
<1>0. a.from \in Server /\ a.to \in Server /\ votes[a.from] \in Nat
  BY Zenon DEF TypeOK, Ask
<1>1. UNCHANGED <<elections, crashed, ballots, ticker>> /\ asks' = asks \ {a}
  BY Zenon DEF handleRequestVote, makeFollower, goVars
<1>2. CASE UNCHANGED votes /\ \A i \in Server : role'[i] \in {role[i], "follower"}
  <2>1. /\ asks' \subseteq asks
        /\ \A i \in Server : ticker'[i] = "request" => ticker[i] = "request"
    BY Zenon, <1>1
  <2> QED
    BY Zenon, <1>1, <1>2, <2>1, FirstQuiet
<1>3. CASE /\ a.granted /\ votes' = [votes EXCEPT ![a.from] = @ + 1]
           /\ \/ UNCHANGED role
              \/ HasMajority(votes[a.from] + 1) /\ role' = [role EXCEPT ![a.from] = "leader"]
  <2> DEFINE i == a.from
  <2>1. /\ votes'[i] = votes[i] + 1
        /\ role'[i] = "leader" => role[i] = "leader" \/ HasMajority(votes[i] + 1)
        /\ \A j \in Server : j # i => votes'[j] = votes[j] /\ role'[j] = role[j]
                                        /\ votes[j] \in Nat
    BY Zenon, <1>0, <1>3 DEF TypeOK
  <2>2. ASSUME NEW j \in Server, crashed = {}, elections[j] = 0
        PROVE  /\ role'[j] = "follower" /\ votes'[j] = 0 /\ ticker'[j] # "request"
               /\ \A c \in asks' : c.from # j
    <3>1. j # i
      BY Zenon, <2>2 DEF FirstTermInv
    <3> QED
      BY Zenon, <1>1, <2>1, <2>2, <3>1 DEF FirstTermInv
  <2>3. ASSUME NEW j \in Server, j # i, FirstElection(j)
        PROVE  FirstElection(j)'
    <3>1. /\ \A b \in asks' : b.from = j => b \in asks
          /\ ticker'[j] = ticker[j] /\ ballots \subseteq ballots'
      BY Zenon, <1>1
    <3> QED
      BY Zenon, <2>1, <2>3, <3>1, FirstKept
  <2>4. ASSUME FirstElection(i)
        PROVE  FirstElection(i)'
    <3>1. /\ ticker[i] # "request" /\ <<a.to, 1, i>> \in ballots
          /\ \A b \in asks : b.from = i /\ b.to = a.to => b = a
      BY Zenon, <1>3, <2>4 DEF FirstElection
    <3>2. a.to \notin Supporters(i) /\ a.to \in Supporters(i)'
      BY Zenon, <1>0, <1>1, <3>1 DEF Supporters, Asking
    <3>3. Supporters(i) \union {a.to} \in SUBSET (Supporters(i)')
      BY Zenon, <1>1, <3>2 DEF Supporters, Asking
    <3>4. Cardinality(Supporters(i) \union {a.to}) = Cardinality(Supporters(i)) + 1
      BY Zenon, <1>0, <3>2, SupportersFinite, FS_AddElement
    <3>5. Cardinality(Supporters(i) \union {a.to}) <= Cardinality(Supporters(i)')
      BY Zenon, <1>0, <3>3, SupportersFinite, FS_Subset
    <3>6. votes[i] <= Cardinality(Supporters(i))
      BY Zenon, <2>4 DEF FirstElection
    <3>7. Cardinality(Supporters(i)) \in Nat /\ Cardinality(Supporters(i)') \in Nat
      BY Zenon, <1>0, SupportersFinite
    <3>8. votes'[i] <= Cardinality(Supporters(i)')
      BY <1>0, <2>1, <3>4, <3>5, <3>6, <3>7
    <3>9. role'[i] = "leader" => HasMajority(votes'[i])
      <4>1. Cardinality(Server) \in Nat
        BY Zenon, RaftAssumption, FS_CardinalityType
      <4>2. HasMajority(votes[i]) => HasMajority(votes[i] + 1)
        BY <1>0, <4>1 DEF HasMajority
      <4> QED
        BY Zenon, <2>1, <2>4, <4>2 DEF FirstElection
    <3>10. \A c \in asks' : c.from = i =>
            /\ c.to # i
            /\ ticker'[i] # "request"
            /\ c.at # "start" => c.term = 1
            /\ c.granted => <<c.to, 1, i>> \in ballots'
            /\ \A b \in asks' : b.from = i /\ b.to = c.to => b = c
      BY Zenon, <1>1, <2>4 DEF FirstElection
    <3>11. ticker'[i] # "request" /\ <<i, 1, i>> \in ballots'
      BY Zenon, <1>1, <2>4, <3>1 DEF FirstElection
    <3> QED
      BY Zenon, <3>8, <3>9, <3>10, <3>11 DEF FirstElection, HasMajority
  <2> QED
    BY Zenon, <1>1, <2>2, <2>3, <2>4, FirstStep
<1>4. \/ UNCHANGED votes /\ \A i \in Server : role'[i] \in {role[i], "follower"}
      \/ /\ a.granted /\ votes' = [votes EXCEPT ![a.from] = @ + 1]
         /\ \/ UNCHANGED role
            \/ HasMajority(votes[a.from] + 1) /\ role' = [role EXCEPT ![a.from] = "leader"]
  <2>1. CASE makeFollower(a.from, a.rterm)
    BY Zenon, <1>0, <2>1 DEF makeFollower, TypeOK
  <2>2. CASE UNCHANGED serverVars
    BY Zenon, <2>2 DEF serverVars
  <2> QED
    BY Zenon, <2>1, <2>2 DEF handleRequestVote, makeLeader
<1> QED
  BY Zenon, <1>2, <1>3, <1>4

(* The heartbeats: a demotion, and nothing else an election looks at. *)
LEMMA FirstBeats ==
  ASSUME TypeOK, TypeOK', FirstTermInv, NotBack,
         \/ \E i \in Server : \E l \in loops[i] : startHeartbeat(i, l) \/ heartbeatRound(i, l)
         \/ \E b \in beats : \/ sendHeartbeat(b) \/ AppendEntries(b)
                             \/ heartbeatFails(b) \/ handleAppendEntries(b)
  PROVE  FirstTermInv'
<1>1. UNCHANGED <<elections, crashed, votes, ballots, asks, ticker>>
  BY Zenon DEF startHeartbeat, heartbeatRound, sendHeartbeat, AppendEntries, heartbeatFails,
         handleAppendEntries, makeFollower, serverVars, goVars
<1>2. \A i \in Server : role'[i] \in {role[i], "follower"}
  <2>1. CASE UNCHANGED role
    BY Zenon, <2>1
  <2>2. CASE \E j, t : makeFollower(j, t)
    BY <2>2 DEF makeFollower, TypeOK
  <2>3. CASE \E j \in Server : \E l \in loops[j] : startHeartbeat(j, l) \/ heartbeatRound(j, l)
    BY Zenon, <2>1, <2>3 DEF startHeartbeat, heartbeatRound, serverVars
  <2>4. ASSUME NEW b \in beats, sendHeartbeat(b) \/ heartbeatFails(b)
        PROVE  UNCHANGED role
    BY Zenon, <2>4 DEF sendHeartbeat, heartbeatFails, serverVars
  <2>5. ASSUME NEW b \in beats, AppendEntries(b) \/ handleAppendEntries(b)
        PROVE  UNCHANGED role \/ \E j, t : makeFollower(j, t)
    BY <2>5, Zenon DEF AppendEntries, handleAppendEntries, serverVars
  <2> QED
    BY Zenon, <2>1, <2>2, <2>3, <2>4, <2>5
<1>3. /\ asks' \subseteq asks
      /\ \A i \in Server : ticker'[i] = "request" => ticker[i] = "request"
  BY Zenon, <1>1
<1> QED
  BY Zenon, <1>1, <1>2, <1>3, FirstQuiet

LEMMA InitFirst == Init => FirstTermInv
  BY DEF Init, FirstTermInv

LEMMA NextFirst == VoteInv /\ VoteInv' /\ FirstTermInv /\ [Next]_vars => FirstTermInv'
<1> SUFFICES ASSUME TypeOK, TypeOK', FirstTermInv, [Next]_vars
             PROVE  FirstTermInv'
  BY Zenon DEF VoteInv
<1>1. CASE UNCHANGED vars
  <2>1. /\ UNCHANGED <<elections, crashed, votes, ballots, asks, role, ticker, currentTerm>>
        /\ asks' \subseteq asks
    BY Zenon, <1>1 DEF vars, serverVars, goVars
  <2>2. NotBack /\ \A i \in Server : role'[i] \in {role[i], "follower"}
    BY Zenon, <2>1, NotBackStep
  <2> QED
    BY Zenon, <2>1, <2>2, FirstQuiet
<1>2. CASE Next
  <2>1. CASE ~NotBack
    BY <2>1, <1>2, NextNotBack DEF vars, serverVars, NotBack, TypeOK
  <2>2. CASE NotBack
    <3>1. ASSUME NEW i \in Server, Restart(i)
          PROVE  FirstTermInv'
      BY Zenon, <3>1 DEF Restart, FirstTermInv
    <3> QED
      BY Zenon, <1>2, <2>2, <3>1, FirstTicker, FirstCandidate, FirstCalls, FirstCounts, FirstBeats
      DEF Next
  <2> QED
    BY Zenon, <2>1, <2>2
<1> QED
  BY Zenon, <1>1, <1>2

(* Majorities meet, and the server in both has voted once. *)
LEMMA MajoritiesMeet ==
  ASSUME VoteInv, FirstTermInv
  PROVE  FirstTermOneLeader
<1> SUFFICES ASSUME crashed = {}, NEW i \in Server, NEW j \in Server,
                    Leads(i, 1), Leads(j, 1)
             PROVE  i = j
  BY Zenon DEF FirstTermOneLeader
<1>1. ASSUME NEW k \in Server, Leads(k, 1)
      PROVE  HasMajority(Cardinality(Supporters(k)))
  <2>1. /\ currentTerm[k] = 1 /\ role[k] = "leader" /\ elections[k] \in Nat
        /\ votes[k] \in Nat
    BY Zenon, <1>1 DEF Leads, GetState, VoteInv, TypeOK
  <2>2. elections[k] = 1
    <3>1. elections[k] <= 1 /\ elections[k] # 0
      BY <2>1, Zenon DEF FirstTermInv
    <3> QED
      BY <2>1, <3>1
  <2>3. HasMajority(votes[k]) /\ votes[k] <= Cardinality(Supporters(k))
    BY Zenon, <2>1, <2>2 DEF FirstTermInv, FirstElection
  <2>4. Cardinality(Server) \in Nat /\ Cardinality(Supporters(k)) \in Nat
    BY Zenon, RaftAssumption, FS_CardinalityType, SupportersFinite
  <2> QED
    BY <2>1, <2>3, <2>4 DEF HasMajority
<1>2. Cardinality(Supporters(i)) + Cardinality(Supporters(j)) > Cardinality(Server)
  <2>1. /\ Cardinality(Server) \in Nat
        /\ Cardinality(Supporters(i)) \in Nat /\ Cardinality(Supporters(j)) \in Nat
    BY Zenon, RaftAssumption, FS_CardinalityType, SupportersFinite
  <2>2. HasMajority(Cardinality(Supporters(i))) /\ HasMajority(Cardinality(Supporters(j)))
    BY Zenon, <1>1
  <2> QED
    BY <2>1, <2>2 DEF HasMajority
<1>3. Supporters(i) \cap Supporters(j) # {}
  <2>1. Supporters(i) \subseteq Server /\ Supporters(j) \subseteq Server
    BY Zenon DEF Supporters
  <2> QED
    BY Zenon, <1>2, <2>1, RaftAssumption, FS_MajoritiesIntersect
<1>4. PICK v \in Server : <<v, 1, i>> \in ballots /\ <<v, 1, j>> \in ballots
  BY Zenon, <1>3 DEF Supporters
<1> QED
  BY Zenon, <1>4 DEF VoteInv, VoteOncePerTerm, VotedOnce

(***************************************************************************)
(* handleRequestVote and makeLeader: while no server has been restarted,   *)
(* the first term has at most one leader, for every number of servers and  *)
(* of elections, although rf.votes is never reset.                         *)
(***************************************************************************)
THEOREM FirstTermOneLeaderHolds == Spec => []FirstTermOneLeader
<1>1. Spec => []FirstTermInv
  BY VoteInvHolds, InitFirst, NextFirst, PTL DEF Spec
<1> QED
  BY <1>1, VoteInvHolds, MajoritiesMeet, PTL
=============================================================================
