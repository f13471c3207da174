# Verification of the 6.5840 labs

TLA+ models of the programs in this repository, the TLC runs that check them on
small instances, and TLAPS proofs of their main safety properties.

## The system and its parts

| part | source | what it does | modelled by |
|---|---|---|---|
| key/value server | `kvsrv1/server.go` | versioned Get and conditional Put | `KVServer` |
| clerk | `kvsrv1/client.go` | resends until answered; `ErrVersion` of a resent Put becomes `ErrMaybe` | `KVCall`, `KVClerk`, proofs in `KVClerkProofs` |
| sequential model | `models1/kv.go` | what the linearizability checker of the tests compares with | `KVModel` |
| test clients | `kvtest1/kvtest.go` | `OneClientPut` and the count of its results | `KVTest`, proofs in `KVClerkProofs` and `KVTestProofs` |
| lock | `kvsrv1/lock/lock.go` | a lock is a key with value `1-id` or `0-id` | `Lock`, `Mutex`, proofs in `LockProofs` |
| Raft election | `raft1/raft.go` | ticker, vote requests, heartbeats | `RaftElection`, proofs in `RaftProofs` |
| MapReduce | `map_reduce/mr`, `main`, `mrapps` | a coordinator hands out tasks; workers share a directory | `MapReduce`, proofs in `MapReduceProofs` |
| demultiplexer | `tester1/demux`, `tester1/sockrpc` | many calls on one connection, matched by tags | `Demux`, proofs in `TesterProofs` |
| network and daemons | `labrpc/labrpc.go`, `tester1/daemon*.go`, `testsrv.go`, `persister.go` | the simulated network in the tester's process, each server in its own | `Tester` (and `KVCall`, the fate of one request), proofs in `TesterProofs` |
| groups and clients of a test | `tester1/group.go`, `srv.go`, `clnts.go`, `config.go` | partitions, kills, restarts, the clients' ends | `Group`, `Tester`, proofs in `GroupProofs` |
| fault annotations | `tester1/annotation.go` | the picture of the failures a test shows | `Annotation`, proofs in `GroupProofs` |
| shard configuration | `shardkv1/shardcfg/shardcfg.go` | Join, Leave, Rebalance | `ShardCfg`, proofs in `ShardCfgProofs` |

Paths are relative to `src/src`, those of MapReduce to `src`.

How they interact: the lock runs on clerks, the clerks on the network and the
server (`Lock` and `KVClerk` EXTEND `KVCall`, which EXTENDS `KVServer`); the test
clients run on the clerks (`KVTest` EXTENDS `KVClerk`). The tester's network
reaches the server processes through demultiplexers (`Tester` EXTENDS `Demux`). A
group annotates each fault it makes (`Group` EXTENDS `Annotation`). MapReduce
workers call the coordinator over net/rpc and meet in the file system.

## What makes it hard

- A resent Put may find that its own first copy was applied, or be overtaken by
  a copy that runs late.
- `Release` ignores what its Put returned; `Acquire` decides after `ErrMaybe`
  by looking at the id in the value.
- Raft's goroutines read the term and install cancel functions without the lock.
- A MapReduce task may be executed by two workers, and Reduce consumes its input.
- A server goes on serving after its persister was copied, until it is killed;
  what it acknowledges then must not be reported as done.
- A demultiplexer ends its process when a reply matches no call, while calls,
  replies, `Close` and the end of the other process come in any order.
- Partitions, kills and restarts are laid over each other, and three places
  remember them: the group, the network and the annotation.

## Modules

**KVServer.** One function per handler: `GetReply`, `PutErr`, `PutStore`. Absent
keys are entries of version 0, as in Go's map. A handler is atomic because it
holds `kv.mu` throughout.

**KVCall.** A Clerk call over the network. `ServeGet`/`ServePut` run the handler;
`LoseRequest`, `LoseReply` and `GiveUp` are the three ways `Call` returns false;
`ServeLate` is the handler of a call given up on. `PutResult` is what `Clerk.Put`
returns. `MaxDrops` bounds the failed calls.

**KVClerk.** Any application over any number of clerks; every Put stores a
different value, so the history variables tell which Put took effect. `oplog` is
the log that `kvtest1/porcupine.go` keeps, of the Puts: times of call and return
are the versions of the key then. `Linearizable` explains every operation by a
step of **KVModel** between its call and its return. A Put is judged in every
state after its return as well: a copy of it that is applied later must not
contradict what was returned. Two kinds of Put are excepted, both at a version
the key had not reached at the call: the model has no `ErrNoKey` for a Put, and a
Put that returned `ErrMaybe` before the key reached its version may be applied
when it does.

**KVTest.** The clients of the tests on top: `OnePut` puts at the version it
knows, reads back and counts. A behaviour has either these clients or the
arbitrary application. They only pass versions they have read, and
`CheckPorcupine` is linearizability of their Puts without the exceptions.

**Lock.** `MakeLock`, the loop of `Acquire` (`Acquire`, `TryPut`, `Spin`,
`Acquired`, `PutFailed`) and `Release` (`Release`, `ReleasePut`, `Released`).
Clients use the lock as `lock_test.go` does. Refines **Mutex**, whose holder is
the client named in the server's value.

**RaftElection.** One step is one critical section of `rf.mu` or one unlocked
access: `shouldStartElection`, `makeCandidate`, `requestVotes` are the ticker;
`asks` are the `requestVoteFromServer` goroutines with the term they read;
`beats` the `sendHeartbeat` goroutines; `loops` the `startHeartbeat` loops. A
cancel function is the number of the context it cancels, 0 when nil; calling
nil takes the process down (`up`). The election timer is not kept: it may
expire at any time. `Restart` is `Make` again, with nothing persisted, as in
the code; the goroutines of the old process are gone, but the requests it had
sent can still be served, with nobody to reply to. `ballots` is a history
variable.

**MapReduce.** Coordinator handlers `GetTask`, `UpdateTask`, `Ping` and
`checkTask`; workers as a program counter through `execMap` and `execReduce`,
one step per file. What a map emits, and the bucket of a key, are the constants
`Emits` and `ihash`; an output file is the set of maps that went into it, and
`mrsequential.go` is the reference for what it should hold. A Tick is five
seconds: running workers ping in each, and ten seconds are two Ticks. Constants
say whether workers crash anywhere, stall, or call before `MakeCoordinator`
returned. Not modelled: I/O errors other than a missing intermediate file, and a
worker's RPC still queued when its process dies.

**Demux.** A connection with `callMap`, tags, `reader`, `Close`, and the server's
goroutine per request. `SendReceive` is `Put` into the call map, the write, and
the wait. Frames are in sets: requests are served by goroutines of their own, so
that their order on the socket is never seen. Either process may end. `Ttag` is
a uint32 in the code and a natural number here: no connection lives for 2^32
calls.

**Tester.** The tester's process (network, group, operations of a test) and the
daemon of every server. A call is `ClientCall` or, by a server, `forward`; then
the steps of `processReq`, forwarding over the connection "down" of the target's
daemon, and the answer. `StartServer` and `ShutdownServer` are chains of steps
that meet the daemon's (`main` and `daemon` say where each is): Init, dialling
back, waiting, `AddServer`, `connect`; and disconnecting, `DeleteServer`, the
persister's checkpoint, kill. A start of a server is an incarnation with
connections of its own. The persister is the set of updates saved in it.

The daemon listens on each of its sockets before it adds the service behind it
(`NewRPCSrv`, `AddService`), and a request for a service that is not there ends
the process. `waitInit` keeps the calls of the network back until the services of
the server are there, which is `ServicesReady`. Nothing keeps `Init` back in the
same way on the control socket: when it comes too early (`InitTooEarly`) the
daemon ends, and the tester, which cannot dial it any more, ends as well
(`DialFails`). The model stops there (`Ended`).

**Group.** What the tests do to a group, one operation at a time: disconnecting,
connecting, partitioning, killing, restarting, each followed by its annotation.
`connect`, `disconnect` and `Partition` are functions of `connected` and the
enabled ends, and a loop over servers is `For`. A client makes its end to a server at the first call.

**Annotation.** `FrameworkInfo` and the on-going annotation of partitions and
crashes, as sets of servers.

**ShardCfg.** One call of `JoinBalance` or `LeaveBalance` at a time, on a copy
that the caller adopts if the call returns true; one step per turn of a loop.
`least`, `most` and `counts` are `analyze`; `CheckConfig` is the code's own
specification.

**MC\*** modules instantiate these for TLC. Some definitions are faulty variants
of the definition that follows them; no specification uses them. They are there
to confirm that the properties notice such faults.

## Runs

Passing:

| run | instance | states | shows |
|---|---|---|---|
| `clerk` | 2 clerks, 2 keys, 3 Puts, 3 failed calls | 1,213,215 | `AtMostOnce`, `TruthfulOutcome`, `Linearizable`, `MaybeMeansTaken`; for the test clients `NoneFatal`, `PutsCounted`, `CheckPorcupine` |
| `lock` | 2 clients, 2 names (equal or not), 2 rounds, 2 failed calls, fair | 304,324 | `MutualExclusion`, `ReleaseEffective`, `HolderRecorded`, `EveryAcquireReturns`, refinement of `Mutex`, and `IInv` of the proof |
| `raft` | 3 servers, 2 elections, 1 restart | 905,617 | `VoteOncePerTerm`, `FirstTermOneLeader`, `TermsGrow` |
| `mapreduce` | 3 workers, 2 maps, 2 reduces, 2 crashes in the application, 1 hang, early workers | 143,657 | `OutputComplete`, `InputsComplete`, `SoleExecutor`, and `OwnerInv` of the proof |
| `mapreduce_stalls` | 2 workers, 2 maps, 1 reduce, crash anywhere, late pings, fair | 209,331 | `PhaseMatchesTasks`, `BucketsKept`, `DoneStays`, `JobFinishes` |
| `tester` | 2 servers, one of them started twice, 2 calls, fair | 305,603 | `AlwaysMatched`, `OwnReply`, `ServicesReady`, `AckedIsDurable`, `OnlyCurrentServerSends`, `CallsReturn`, `SendReceiveReturns`, `OperationsEnd` |
| `group` | 3 servers, 1 client, any number of operations | 86,724 | `ConnectedIsPrecise`, `PartitionIsExact`, `FailureShown`, `ClientReach` |
| `shardcfg` | 4 shards, 5 groups, 4 configurations, 2 groups per call, fair | 192,156 | `BalancedResult`, `MembersServe`, `MovesOnlyWhatMust`, `EveryCallReturns` |

`lock` and `mapreduce` also check the invariants of their proofs, of which the
types are a part. `TestInv`, `CountInv`, `FirstTermInv`, `GroupInv` and the `IInv` of
`Tester` and of `ShardCfg` hold in the same instances; the configurations leave them out
because they are proved. That locks with
different names are independent (`lock.go:41-43`) is part of the refinement of
`Mutex`, which keeps a holder for every name.

Where the code does not do what a document or test says:

| run | shows |
|---|---|
| `raft_two_leaders` | a leader that grants a vote in a later term stays leader: two leaders in one term (`raft1/test.go:134`) |
| `raft_nil_abort` | two candidates of a term: the winner's heartbeat reaches the other between `makeCandidate` and `requestVotes`, and `makeFollower` calls a nil cancel function (`raft.go:242`) |
| `mapreduce_crash` | a reducer that crashes after deleting its input spoils the output (`map_reduce/README.md:89`) |
| `mapreduce_hang` | a worker that hangs keeps its task by pinging (`map_reduce/README.md:46`) |

Observations without a run:

- With `Stalls = TRUE` and no crash, `OutputComplete` fails as in
  `mapreduce_crash`. With `EarlyWorkers = TRUE`, `JobFinishes` fails:
  `MakeCoordinator` overwrites the reduce phase when all maps were finished
  before it sets the phase.
- The tester's `Init` may reach a daemon between lines 101 and 102 of
  `daemonsrv.go`, which ends both processes; see `Tester` above.
- `FailureShown` has a condition. `annotation.go` hears of connections only when
  a test reports them, and killing or restarting a server changes `connected`
  without a report; until the next one the picture may be out of date.
- `MakePartition` with an even number of servers would put server 0 in both
  halves. Every test that calls it has three or five servers, which
  `GroupAssumption` states.
- In `annotation.go`, line 179 resets a field of a local copy, and line 490 logs
  "Nothing to end" without returning. Neither takes part in what is modelled.

### Bounds

- `MaxDrops` (3 for the clerk, 2 for the lock): a resend, a late copy and a lost
  reply can meet. The proofs hold for any value.
- `MaxVersion = 2` with three values: a Put can name a version that is too
  small, right, or too large.
- `MaxRounds = 2`: a client that has released acquires again. `EveryAcquireReturns`
  needs such a bound: `Acquire` polls, and could starve among clients that never
  stop.
- `MaxElections = 2`: a rival candidate, or a second term. `MaxFaults = 1`: one
  server is restarted, before, between or after the elections; a heartbeat is sent
  when no other is in flight and no server was restarted, and a restart finds none
  in flight but those of the server it kills.
- Two maps make an incomplete set of buckets possible; neighbouring maps emit a
  common key, so that an output combines values of both.
- `MaxInc`: server 0 is started twice, server 1 once. `CleanupAfter = 1`: a test
  ends, by cleaning up, only before the second start. The routes are two calls by
  clients to server 0, which share a connection; one by a client and one by
  server 0 to server 1; or one by server 1 to server 0.
- `MaxNum = 4`, `MaxGids = 2`, five groups on four shards: more groups than
  shards, the last group leaving, and groups that come back.
- `Group` has no bound: its state space is finite.

The elections bound stops the Raft model, and a test of `Tester` ends after
cleanup, so that these two models do not check for deadlock; all others do.
Symmetry is used only in runs without liveness properties.

### Fairness

- `Lock`: clients and the server keep running (weak fairness of their steps).
  The network need not lose anything, and cannot lose everything because
  `MaxDrops` is finite, which stands for its independent losses.
- `MapReduce`: goroutines are scheduled and time passes; crashes and hangs never
  have to happen, and at least one worker survives.
- `Tester`: a goroutine or process that can take a step takes one. Calls and
  operations need never begin, and nothing has to be lost. No behaviour has
  infinitely many steps, so that weak fairness of all these steps together is
  enough and the properties have the form `<>[]`. They allow for the one end of the
  tester's process the model has, `Ended`. That `dial` gives up after 100 attempts
  is modelled only where nobody will ever listen.
- `ShardCfg`: a call is sequential code that goes on until it returns.

## Proofs

All theorems hold for every value of the constants that satisfies the named
assumptions. They concern the same definitions that the runs check.

**Clerk** (`KVClerkProofs`; assumptions `NoValueAssumption`, `CallAssumption`,
`MaxVersionAssumption`). `AtMostOnce`, `TruthfulOutcome`, `MaybeMeansTaken` and
`Linearizable`, of `KVClerk`'s `Spec`, that is, for an arbitrary application, and
again under the test clients (`TestClerksHold`). None of them is inductive: each
depends on the requests that are still in the network. `ClerkInv` adds

- that the server's entry is the end of the key's history, and a value has one
  place in all histories (`StoreIsHistory`, `StoredOnce`);
- that calls under way have different values, and a late request belongs to a
  Put that is a retry or is over, with the same key and version (`CallsKnown`,
  `LateKnown`);
- that a Put takes effect at the version it names, after it began, and that one
  that was never resent nor answered OK has not been applied (`OwnPlace`,
  `FirstTry`);
- what a reply on its way says of the versions since its call began (`Replies`).

The moment that `Linearizable` asks for is the version in the reply of a Get; for
a Put, the version it names if it was applied, and otherwise a version in the
interval that differs from it. For the Puts that have returned `LogInv` is added:
each entry of the log has one of four explanations (`OpNoKey`, `OpInTime`,
`OpNotApplied`, `OpTooLate`), and a step can only turn the third into the fourth,
by applying a late copy at the version it names. `CheckPorcupine` rests on
`LogTestInv`: the version of every entry was one of the key before the call, which
leaves neither the first nor the fourth.

**Test clients** (also `TestAssumption`: finitely many keys and clients, and at
least one client). `NoneFatal`, in `KVClerkProofs`, follows from `TestInv`: the
entry a value encodes carries the version of its Put, and the versions a client
knows are no newer than the server's. `PutsCounted`, in `KVTestProofs` with the
effect of each step in `KVClerkProofs`, follows from `CountInv`: the clients'
counters, with the Puts about to be counted, add up to the number of values whose
Put returned OK (or ErrMaybe), and the versions at the server to the number of
values that were applied. Each step changes one term of a sum and one value of a
set. In the end no Put is pending, so that what was applied returned OK or
ErrMaybe, and what returned OK was applied. That a sum changes by as much as the
one term that does (`SumUpdate`) is proved from the definition of `SumFunction`.

**Lock** (`LockProofs`; `NoValueAssumption`, `CallAssumption`, `LockAssumption`).
`MutualExclusion`, `ReleaseEffective`, `HolderRecorded`, type correctness, and the
refinement of `Mutex`. `IInv` adds that ids are distinct, that a late Put is out of
date or a copy of the Put its client is waiting for, that a Put can only take
effect on the entry its client read, and from which moment to which the server
names a client as holder. There is one lemma per action, for the invariant and for
the refinement. That a call keeps its types is shown here and in `KVClerkProofs`.

**Raft** (`RaftProofs`; `RaftAssumption`). `VoteOncePerTerm`, `TermsGrow` and
`FirstTermOneLeader`, for any number of servers, elections and restarts. The
invariant for votes is that `votedFor` and `currentTerm` remember the last ballot
of a server (`BallotsRemembered`); the lemma `VoteCast` covers both ways of voting.
For the leaders of the first term `FirstTermInv` adds that the counter `rf.votes`,
which no election resets, holds only votes of the server's one election, at most
one for each voter; two majorities of finitely many servers meet.

**MapReduce** (`MapReduceProofs`; `MapReduceAssumption`, `EmitsAssumption`).
`BaseInv` (phase, tasks, workers and files agree) holds however workers fail. It
gives `BucketsKept` and `DoneStays`, and `PhaseMatchesTasks` if no worker calls
before `MakeCoordinator` has set the phase (`~EarlyWorkers`). `OwnerInv` adds that a
worker that executes a task owns it and pings in time, and that an output is
written once, from all the maps; from it follow `SoleExecutor`, `InputsComplete`
and `OutputComplete`. It needs `~CrashAnywhere` and `~Stalls`: `mapreduce_crash`
shows that without the first the output is spoiled, and a stalled worker does the
same, since its task is given to another.

**Demultiplexer and tester** (`TesterProofs`; `DemuxAssumption`,
`TesterAssumption`). `DemuxCorrect`: under any use of any connections, no reply
fails to find its call and no call gets the reply of another. The invariant
`DemuxInv` says that an entry of the call map belongs to a call under way and is
the only one of its tag and of its call, that a frame is in one place, and that
as long as the reader reads, the call of every frame waits for it. `ImplementsDemux`:
every step of tester, network and daemons is a step that `Demux` allows, or
leaves it alone. From both follow `AlwaysMatched` and `OwnReply` of the tester.
`IInv` adds where tester and daemon are in starting and stopping a server
(`InStep`), that ends and open connections belong to the present start of their
server, where the frames of a call are, and which updates the persister's copy
must hold (`SavedInv`). It gives `ServicesReady` (for the calls through the network;
of `Init` on the control socket it says nothing), `AckedIsDurable` and the action
property `OnlyCurrentServerSends`.

**Group and annotations** (`GroupProofs`; `GroupAssumption`: an odd number of
servers, more than one). `ConnectedIsPrecise`, `PartitionIsExact`, `FailureShown` and
`ClientReach`, for any number of clients. `GroupInv` adds that a server that is down
is not connected, that a partition in force is one of all the servers (`Wired`), and,
for each place an operation can be at, what the annotation knows of the servers
that are down (`Reported`). Each loop over servers is shown to leave what its
closed form says (`ConnectAllIs`, `KillIs`, `HalfIs`, `PartitionIs`), from what one
turn does.

**Shard configuration** (`ShardCfgProofs`; `ShardCfgAssumption`). `BalancedResult`,
`MovesOnlyWhatMust` and `MembersServe`. `IInv` says, for each turn of the loops of
`Rebalance`, which shards are dealt out and how far the counts of the groups are
apart.

An induction (over the turns of a loop, the elements of a sum, the least number
of a set) is carried out with the least counterexample, which `WFMin` of
WellFoundedInduction provides. First-order leaves name Zenon: tlapm's
translation to SMT gets slower with the number of obligations already treated,
and has a limit that the pragmas do not raise.

Only model-checked: the liveness properties `EveryAcquireReturns`, `JobFinishes`,
`CallsReturn`, `SendReceiveReturns`, `OperationsEnd` and `EveryCallReturns`; fairness
and ENABLED are outside the prover's reach. Every other property of a passing run
is a theorem.

## Not modelled

- **Raft log and snapshots, the Raft test service, kvraft and rsm, shardkv and
  its controller**: `Start`, `persist` and snapshots are stubs, and the services
  on top of them starter code. There is no behaviour to model; the checks of
  `raft1/test.go` on logs need a log.
- **labgob and the loggers**: serialisation by reflection, and reporting. They
  keep no protocol state.
- **Of `labrpc`**: counters of RPCs and bytes, long delays other than by their
  effect (a late or lost reply), and the reflection that finds handlers.
- **Of `tester1`**: `StateSize` and `MemSize`, which only read; statistics, time
  limits and logs; `Clnt.ConnectTo` and `Disconnect`, which no test calls; points,
  intervals and checker annotations, and the output file, on which no decision
  depends.
- **Of `kvtest1`**: `PutAtLeastOnce` and the append clients, used with kvraft only.
  The search for a linearization is a library's (porcupine).
- **Of `shardcfg`**: the names of servers, which only guard a `log.Fatalf`, and the
  JSON form.

The modules map about 2,800 of 9,060 implementation lines, 31%. That is most of
what runs: `kvsrv1`, the election in `raft1`, `map_reduce/mr`, `shardcfg`, and the
parts of `labrpc` and `tester1` that carry calls, faults and restarts. The rest is
mostly starter code, serialisation, reporting and the tests' own support.
