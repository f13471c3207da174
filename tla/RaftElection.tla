---------------------------- MODULE RaftElection ----------------------------
(***************************************************************************)
(* Leader election of src/src/raft1/raft.go (the part of Raft the          *)
(* repository implements): the election ticker, the goroutines that ask    *)
(* for votes, the heartbeat loop of a leader, the two RPC handlers and the *)
(* role transitions.                                                       *)
(*                                                                         *)
(* One step is one critical section of rf.mu, or one access made without   *)
(* it: requestVotes installs rf.abortElection, startHeartbeat installs     *)
(* rf.abortHeartbeat, and requestVoteFromServer reads rf.currentTerm, all  *)
(* unlocked and in goroutines of their own.  The election timer            *)
(* (rf.checkpoint) is not kept: the timeout of a server that is not leader *)
(* may expire at any moment, as it may with messages slow enough.          *)
(*                                                                         *)
(* A call can fail before or after its handler ran (labrpc).  A handler    *)
(* that runs after its caller gave up changes nothing a retry does not.    *)
(* One that runs after its caller was killed has nobody to reply to: the   *)
(* request stays, with ctx 0 or from NoServer.                             *)
(*                                                                         *)
(* persist and readPersist store nothing, so Restart begins from zero.     *)
(*                                                                         *)
(* Bounds: MaxElections calls of makeCandidate; MaxFaults on the restarts, *)
(* at most one of each server, together with the heartbeats in flight,     *)
(* those of the server that is restarted not counted.                      *)
(***************************************************************************)
EXTENDS Naturals, FiniteSets

CONSTANTS
    Server, NoServer,       \* NoServer is votedFor's -1
    MaxElections, MaxFaults

ASSUME RaftAssumption ==
    /\ NoServer \notin Server
    /\ IsFiniteSet(Server)
    /\ {MaxElections, MaxFaults} \subseteq Nat

VARIABLES
    up,             \* the process runs
    role, currentTerm, votedFor,
    votes,          \* rf.votes.counter
    ticker,         \* where electionTicker is
    elections,      \* elections this server started; the last one's context
    leads,          \* times this process became leader; the last loop's context
    abortElection, abortHeartbeat,  \* the context the CancelFunc cancels, 0 for nil
    cancelled,      \* <<"E", n>> and <<"H", n>>: the cancelled contexts
    loops,          \* heartbeat loops: contexts of startHeartbeat goroutines
    asks,           \* requestVoteFromServer goroutines
    beats,          \* sendHeartbeat goroutines
    crashed,        \* the servers that were killed and started again
    ballots         \* history: <<voter, term, candidate>>

serverVars == <<role, currentTerm, votedFor, votes>>
goVars == <<ticker, elections, leads, abortElection, abortHeartbeat, cancelled, loops>>
vars == <<up, serverVars, goVars, asks, beats, crashed, ballots>>

Role == {"follower", "candidate", "leader"}

Ask ==
    [from : Server, to : Server, ctx : Nat,
     at : {"start", "sent", "reply"},
     term : Nat, granted : BOOLEAN, rterm : Nat]

Beat ==
    [from : Server \union {NoServer}, to : Server, at : {"start", "sent", "reply"},
     term : Nat, rterm : Nat]

TypeOK ==
    /\ up \in [Server -> BOOLEAN]
    /\ role \in [Server -> Role]
    /\ currentTerm \in [Server -> Nat]
    /\ votedFor \in [Server -> Server \union {NoServer}]
    /\ votes \in [Server -> Nat]
    /\ ticker \in [Server -> {"sleep", "elect", "request"}]
    /\ elections \in [Server -> Nat]
    /\ leads \in [Server -> Nat]
    /\ abortElection \in [Server -> Nat]
    /\ abortHeartbeat \in [Server -> Nat]
    /\ cancelled \in [Server -> SUBSET ({"E", "H"} \X Nat)]
    /\ loops \in [Server -> SUBSET ([ctx : Nat, started : BOOLEAN])]
    /\ asks \in SUBSET Ask
    /\ beats \in SUBSET Beat
    /\ crashed \in SUBSET Server
    /\ ballots \in SUBSET (Server \X Nat \X Server)

(* Make: the state of a fresh Raft object. *)
Init ==
    /\ up = [i \in Server |-> TRUE]
    /\ role = [i \in Server |-> "follower"]
    /\ currentTerm = [i \in Server |-> 0]
    /\ votedFor = [i \in Server |-> NoServer]
    /\ votes = [i \in Server |-> 0]
    /\ ticker = [i \in Server |-> "sleep"]
    /\ elections = [i \in Server |-> 0]
    /\ leads = [i \in Server |-> 0]
    /\ abortElection = [i \in Server |-> 0]
    /\ abortHeartbeat = [i \in Server |-> 0]
    /\ cancelled = [i \in Server |-> {}]
    /\ loops = [i \in Server |-> {}]
    /\ asks = {}
    /\ beats = {}
    /\ crashed = {}
    /\ ballots = {}

(* What MaxFaults bounds, with the heartbeats in flight that count. *)
Faults(flying) == Cardinality(crashed) + Cardinality(flying)

HasMajority(n) == n > Cardinality(Server) \div 2

-----------------------------------------------------------------------------
(***************************************************************************)
(* makeFollower, called with rf.mu held.  It calls the CancelFunc of what  *)
(* the server was doing; calling one that is still nil panics and takes    *)
(* the process down.  votedFor is left as it is.                           *)
(***************************************************************************)
AbortOf(i) ==
    CASE role[i] = "candidate" -> <<"E", abortElection[i]>>
      [] role[i] = "leader" -> <<"H", abortHeartbeat[i]>>
      [] OTHER -> <<"none", 1>>

Panics(i) == AbortOf(i)[2] = 0

makeFollower(i, newTerm) ==
    /\ role' = [role EXCEPT ![i] = "follower"]
    /\ currentTerm' = [currentTerm EXCEPT ![i] = newTerm]
    /\ up' = [up EXCEPT ![i] = ~Panics(i)]
    /\ cancelled' = [cancelled EXCEPT ![i] =
                        IF role[i] = "follower" THEN @ ELSE @ \union {AbortOf(i)}]
    /\ UNCHANGED <<votedFor, votes, ticker, elections, leads,
                   abortElection, abortHeartbeat, loops>>

-----------------------------------------------------------------------------
(* electionTicker: shouldStartElection, then makeCandidate, then requestVotes. *)

shouldStartElection(i) ==
    /\ up[i]
    /\ ticker[i] = "sleep"
    /\ role[i] # "leader"
    /\ ticker' = [ticker EXCEPT ![i] = "elect"]
    /\ UNCHANGED <<up, serverVars, elections, leads, abortElection, abortHeartbeat,
                   cancelled, loops, asks, beats, crashed, ballots>>

TotalElections ==
    Cardinality({x \in Server \X (1..MaxElections) : x[2] <= elections[x[1]]})

(* A ticker that lost the race against the last vote finds itself leader; its *)
(* heartbeat is aborted first, and that panics when it has not begun.         *)
makeCandidate(i) ==
    /\ up[i]
    /\ ticker[i] = "elect"
    /\ TotalElections < MaxElections
    /\ \/ /\ role[i] = "leader" /\ Panics(i)
          /\ up' = [up EXCEPT ![i] = FALSE]
          /\ UNCHANGED <<serverVars, cancelled, elections, ticker, ballots>>
       \/ /\ ~(role[i] = "leader" /\ Panics(i))
          /\ cancelled' = [cancelled EXCEPT ![i] =
                              IF role[i] = "leader" THEN @ \union {AbortOf(i)} ELSE @]
          /\ role' = [role EXCEPT ![i] = "candidate"]
          /\ currentTerm' = [currentTerm EXCEPT ![i] = @ + 1]
          /\ votes' = [votes EXCEPT ![i] = @ + 1]
          /\ votedFor' = [votedFor EXCEPT ![i] = i]
          /\ elections' = [elections EXCEPT ![i] = @ + 1]
          /\ ticker' = [ticker EXCEPT ![i] = "request"]
          /\ ballots' = ballots \union {<<i, currentTerm[i] + 1, i>>}
          /\ UNCHANGED up
    /\ UNCHANGED <<leads, abortElection, abortHeartbeat, loops, asks, beats, crashed>>

requestVotes(i) ==
    /\ up[i]
    /\ ticker[i] = "request"
    /\ abortElection' = [abortElection EXCEPT ![i] = elections[i]]
    /\ asks' = asks \union
            {[from |-> i, to |-> j, ctx |-> elections[i], at |-> "start",
              term |-> 0, granted |-> FALSE, rterm |-> 0] : j \in Server \ {i}}
    /\ ticker' = [ticker EXCEPT ![i] = "sleep"]
    /\ UNCHANGED <<up, serverVars, elections, leads, abortHeartbeat,
                   cancelled, loops, beats, crashed, ballots>>

-----------------------------------------------------------------------------
(* requestVoteFromServer: one goroutine a for each peer of an election. *)

Becomes(a, b) == asks' = (asks \ {a}) \union {b}

(* The top of the loop: the goroutine ends when its context is cancelled, and *)
(* calls otherwise.  A cancellation after that no longer stops the call.      *)
callUnlessDone(a, b) ==
    IF <<"E", a.ctx>> \in cancelled[a.from] THEN asks' = asks \ {a} ELSE Becomes(a, b)

requestVoteFromServer(a) ==
    /\ up[a.from]
    /\ a.at = "start"
    /\ callUnlessDone(a, [a EXCEPT !.at = "sent", !.term = currentTerm[a.from]])
    /\ UNCHANGED <<up, serverVars, goVars, beats, crashed, ballots>>

(* Mutants: RequestVote does not look at its term, or at its vote. *)
OutdatedNever(a) == FALSE
AlreadyVotedNever(a) == FALSE

(* The two tests of RequestVote at server a.to. *)
Outdated(a) == a.term < currentTerm[a.to]

AlreadyVoted(a) ==
    a.term = currentTerm[a.to] /\ votedFor[a.to] \notin {NoServer, a.from}

(* Handler RequestVote.  The role is not touched. *)
RequestVote(a) ==
    LET i == a.to
    IN  /\ up[i]
        /\ a.at = "sent"
        /\ \/ /\ Outdated(a)
              /\ Becomes(a, [a EXCEPT !.at = "reply", !.granted = FALSE, !.rterm = currentTerm[i]])
              /\ UNCHANGED <<votedFor, currentTerm, ballots>>
           \/ /\ ~Outdated(a) /\ AlreadyVoted(a)
              /\ Becomes(a, [a EXCEPT !.at = "reply", !.granted = FALSE, !.rterm = 0])
              /\ UNCHANGED <<votedFor, currentTerm, ballots>>
           \/ /\ ~Outdated(a) /\ ~AlreadyVoted(a)
              /\ votedFor' = [votedFor EXCEPT ![i] = a.from]
              /\ currentTerm' = [currentTerm EXCEPT ![i] = a.term]
              /\ ballots' = ballots \union {<<i, a.term, a.from>>}
              /\ Becomes(a, [a EXCEPT !.at = "reply", !.granted = TRUE, !.rterm = 0])
        /\ UNCHANGED <<up, role, votes, goVars, beats, crashed>>

(* Call returned false. *)
requestVoteFails(a) ==
    /\ up[a.from] /\ a.ctx # 0
    /\ a.at \in {"sent", "reply"}
    /\ callUnlessDone(a, [a EXCEPT !.at = "sent", !.granted = FALSE, !.rterm = 0])
    /\ UNCHANGED <<up, serverVars, goVars, beats, crashed, ballots>>

(* makeLeader; its branch that would abort the election is never taken. *)
makeLeader(i) ==
    /\ role' = [role EXCEPT ![i] = "leader"]
    /\ leads' = [leads EXCEPT ![i] = @ + 1]
    /\ loops' = [loops EXCEPT ![i] = @ \union {[ctx |-> leads[i] + 1, started |-> FALSE]}]

handleRequestVote(a) ==
    LET i == a.from IN
    /\ up[i] /\ a.ctx # 0
    /\ a.at = "reply"
    /\ asks' = asks \ {a}
    /\ \/ /\ a.rterm > currentTerm[i]
          /\ makeFollower(i, a.rterm)
       \/ /\ ~(a.rterm > currentTerm[i])
          /\ a.granted
          /\ votes' = [votes EXCEPT ![i] = @ + 1]
          /\ IF HasMajority(votes[i] + 1) /\ role[i] = "candidate"
             THEN makeLeader(i)
             ELSE UNCHANGED <<role, leads, loops>>
          /\ UNCHANGED <<up, currentTerm, votedFor, ticker, elections,
                         abortElection, abortHeartbeat, cancelled>>
       \/ /\ ~(a.rterm > currentTerm[i])
          /\ ~a.granted
          /\ UNCHANGED <<up, serverVars, goVars>>
    /\ UNCHANGED <<beats, crashed, ballots>>

-----------------------------------------------------------------------------
(* startHeartbeat: install the CancelFunc, then spawn senders round after round. *)

startHeartbeat(i, l) ==
    /\ up[i]
    /\ l \in loops[i]
    /\ ~l.started
    /\ abortHeartbeat' = [abortHeartbeat EXCEPT ![i] = l.ctx]
    /\ loops' = [loops EXCEPT ![i] = (@ \ {l}) \union {[l EXCEPT !.started = TRUE]}]
    /\ UNCHANGED <<up, serverVars, ticker, elections, leads, abortElection, cancelled,
                   asks, beats, crashed, ballots>>

heartbeatRound(i, l) ==
    /\ up[i]
    /\ l \in loops[i]
    /\ l.started
    /\ IF <<"H", l.ctx>> \in cancelled[i]
       THEN loops' = [loops EXCEPT ![i] = @ \ {l}] /\ UNCHANGED beats
       ELSE \E j \in Server \ {i} :
                /\ Faults(beats) < MaxFaults
                /\ beats' = beats \union {[from |-> i, to |-> j, at |-> "start",
                                           term |-> 0, rterm |-> 0]}
                /\ UNCHANGED loops
    /\ UNCHANGED <<up, serverVars, ticker, elections, leads, abortElection, abortHeartbeat,
                   cancelled, asks, crashed, ballots>>

(* sendHeartbeat: the goroutine reads the term whatever the role has become. *)
sendHeartbeat(b) ==
    /\ b.from # NoServer /\ up[b.from]
    /\ b.at = "start"
    /\ beats' = (beats \ {b}) \union {[b EXCEPT !.at = "sent", !.term = currentTerm[b.from]]}
    /\ UNCHANGED <<up, serverVars, goVars, asks, crashed, ballots>>

(* Handler AppendEntries at b.to: the caller's term is compared, never adopted. *)
AppendEntries(b) ==
    LET i == b.to IN
    /\ up[i]
    /\ b.at = "sent"
    /\ beats' = (beats \ {b}) \union {[b EXCEPT !.at = "reply", !.rterm = currentTerm[i]]}
    /\ \/ b.term < currentTerm[i] /\ UNCHANGED <<up, serverVars, goVars>>
       \/ ~(b.term < currentTerm[i]) /\ makeFollower(i, currentTerm[i])
    /\ UNCHANGED <<asks, crashed, ballots>>

heartbeatFails(b) ==
    /\ b.from # NoServer /\ up[b.from]
    /\ b.at \in {"sent", "reply"}
    /\ beats' = beats \ {b}
    /\ UNCHANGED <<up, serverVars, goVars, asks, crashed, ballots>>

handleAppendEntries(b) ==
    LET i == b.from IN
    /\ i # NoServer /\ up[i]
    /\ b.at = "reply"
    /\ beats' = beats \ {b}
    /\ \/ b.rterm > currentTerm[i] /\ makeFollower(i, b.rterm)
       \/ ~(b.rterm > currentTerm[i]) /\ UNCHANGED <<up, serverVars, goVars>>
    /\ UNCHANGED <<asks, crashed, ballots>>

-----------------------------------------------------------------------------
(***************************************************************************)
(* The tester kills the process and starts it again: Make once more, with  *)
(* nothing read back.  The requests the old process had sent are still in  *)
(* the network, and their handlers may run; its goroutines are gone.       *)
(***************************************************************************)
Restart(i) ==
    /\ i \notin crashed
    /\ Faults({b \in beats : b.from # i}) < MaxFaults
    /\ crashed' = crashed \union {i}
    /\ up' = [up EXCEPT ![i] = TRUE]
    /\ role' = [role EXCEPT ![i] = "follower"]
    /\ currentTerm' = [currentTerm EXCEPT ![i] = 0]
    /\ votedFor' = [votedFor EXCEPT ![i] = NoServer]
    /\ votes' = [votes EXCEPT ![i] = 0]
    /\ ticker' = [ticker EXCEPT ![i] = "sleep"]
    /\ leads' = [leads EXCEPT ![i] = 0]
    /\ abortElection' = [abortElection EXCEPT ![i] = 0]
    /\ abortHeartbeat' = [abortHeartbeat EXCEPT ![i] = 0]
    /\ cancelled' = [cancelled EXCEPT ![i] = {}]
    /\ loops' = [loops EXCEPT ![i] = {}]
    /\ asks' = {a \in asks : a.from # i} \union
               {[a EXCEPT !.ctx = 0] : a \in {r \in asks : r.from = i /\ r.at = "sent"}}
    /\ beats' = {b \in beats : b.from # i} \union
                {[b EXCEPT !.from = NoServer] : b \in {r \in beats : r.from = i /\ r.at = "sent"}}
    /\ UNCHANGED <<elections, ballots>>

Next ==
    \/ \E i \in Server :
        \/ shouldStartElection(i) \/ makeCandidate(i) \/ requestVotes(i)
        \/ \E l \in loops[i] : startHeartbeat(i, l) \/ heartbeatRound(i, l)
        \/ Restart(i)
    \/ \E a \in asks :
        \/ requestVoteFromServer(a) \/ RequestVote(a)
        \/ requestVoteFails(a) \/ handleRequestVote(a)
    \/ \E b \in beats :
        \/ sendHeartbeat(b) \/ AppendEntries(b)
        \/ heartbeatFails(b) \/ handleAppendEntries(b)

Spec == Init /\ [][Next]_vars

-----------------------------------------------------------------------------
(***************************************************************************)
(* RequestVote refuses when it has "already voted in this term's election" *)
(* (raft.go:187), although votedFor is not reset when makeFollower adopts  *)
(* a newer term, and the candidate's own vote is cast by makeCandidate: a  *)
(* server that was not restarted votes for one candidate a term.           *)
(***************************************************************************)
VotedOnce(v) ==
    \A a, b \in ballots : a[1] = v /\ b[1] = v /\ a[2] = b[2] => a[3] = b[3]

VoteOncePerTerm == \A v \in Server \ crashed : VotedOnce(v)

(***************************************************************************)
(* Why it does: votedFor and currentTerm remember the latest ballot of a   *)
(* server, and no ballot is ahead of its voter's term.                     *)
(***************************************************************************)
BallotsRemembered ==
    \A b \in ballots : b[1] \notin crashed =>
        /\ b[2] <= currentTerm[b[1]]
        /\ b[2] = currentTerm[b[1]] => votedFor[b[1]] = b[3]

(***************************************************************************)
(* makeFollower sets the term it is given: no reply, however late, takes a *)
(* running server back to an earlier term.                                 *)
(***************************************************************************)
TermsGrow ==
    [][\A i \in Server \ (crashed' \ crashed) : currentTerm'[i] >= currentTerm[i]]_vars

GetState(i) == <<currentTerm[i], role[i] = "leader">>

Leads(i, t) == up[i] /\ GetState(i) = <<t, TRUE>>

(***************************************************************************)
(* In the first term the election is safe: the votes counter holds only    *)
(* ballots of that term, no request can carry a later one, and majorities  *)
(* meet.                                                                   *)
(***************************************************************************)
FirstTermOneLeader ==
    crashed = {} => \A i, j \in Server : Leads(i, 1) /\ Leads(j, 1) => i = j

(***************************************************************************)
(* Why it is: a server that is still in term 1 has run one election only,  *)
(* so the counter rf.votes, which no election resets, holds votes of that  *)
(* election, at most one for each voter whose goroutine is gone.           *)
(***************************************************************************)
Asking(i, v) == {a \in asks : a.from = i /\ a.to = v}

Supporters(i) == {v \in Server : <<v, 1, i>> \in ballots /\ Asking(i, v) = {}}

FirstElection(i) ==
    /\ <<i, 1, i>> \in ballots
    /\ \A a \in asks : a.from = i =>
        /\ a.to # i
        /\ ticker[i] # "request"
        /\ a.at # "start" => a.term = 1
        /\ a.granted => <<a.to, 1, i>> \in ballots
        /\ \A b \in asks : b.from = i /\ b.to = a.to => b = a
    /\ ticker[i] = "request" => votes[i] <= 1
    /\ votes[i] <= Cardinality(Supporters(i))
    /\ role[i] = "leader" => HasMajority(votes[i])

FirstTermInv ==
    crashed = {} => \A i \in Server :
        /\ elections[i] <= currentTerm[i]
        /\ elections[i] = 0 =>
            /\ role[i] = "follower"
            /\ votes[i] = 0
            /\ ticker[i] # "request"
            /\ \A a \in asks : a.from # i
        /\ elections[i] = 1 /\ currentTerm[i] = 1 => FirstElection(i)

(***************************************************************************)
(* raft1/test.go:134 fails a test with "term %d has %d (>1) leaders": at   *)
(* most one server is leader in any one term.                              *)
(***************************************************************************)
OneLeaderPerTerm ==
    \A i, j \in Server : Leads(i, currentTerm[i]) /\ Leads(j, currentTerm[i]) => i = j

(***************************************************************************)
(* raft.go:242-243 logs "Demoted from candidate to follower", "set         *)
(* abortElection" and calls rf.abortElection: a candidate whose role       *)
(* makeFollower takes has an election to abort.  <<"E", 0>> is the call    *)
(* while rf.abortElection is still nil.                                    *)
(***************************************************************************)
DemotionAborts == \A i \in Server : <<"E", 0>> \notin cancelled[i]
=============================================================================
