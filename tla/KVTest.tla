------------------------------- MODULE KVTest -------------------------------
(* The test clients of src/src/kvtest1/kvtest.go on the clerks of KVClerk:   *)
(* each runs OneClientPut, which repeats OnePut on some key until the test   *)
(* ends, and counts how many Puts returned OK and how many ErrMaybe.  The    *)
(* variable test says which clients a behaviour has: these, or the arbitrary *)
(* application of KVClerk.                                                   *)
EXTENDS KVClerk, FiniteSets, Functions

ASSUME TestAssumption == IsFiniteSet(Client) /\ Client # {} /\ IsFiniteSet(Key)

VARIABLES
    test,       \* "any" or "OneClientPut"
    client,     \* the local variables of OneClientPut and OnePut, and where it is:
                \* "loop", "put", "get", "again", "fatal" or "done"
    entry       \* the EntryV that each value encodes

testVars == <<test, client, entry>>
allVars == <<vars, testVars>>

NoEntry == [Id |-> NoValue, V |-> 0]

SomeKey == CHOOSE k \in Key : TRUE

TestInit ==
    /\ Init
    /\ test \in {"any", "OneClientPut"}
    /\ client = [c \in Client |-> [at |-> "loop", key |-> SomeKey, err |-> OK,
                                   verm |-> [j \in Key |-> 0], Nok |-> 0, Nmaybe |-> 0]]
    /\ entry = [v \in Value |-> NoEntry]

-----------------------------------------------------------------------------
\* Mutant: the version the Put will create.
OnePutNextVersion(c, k) ==
    /\ client[c].at = "loop" \/ (client[c].at = "again" /\ k = client[c].key)
    /\ \E v \in Value :
        /\ AppPut(c, k, v, client[c].verm[k] + 1)
        /\ entry' = [entry EXCEPT ![v] = [Id |-> c, V |-> client[c].verm[k] + 1]]
    /\ client' = [client EXCEPT ![c].at = "put", ![c].key = k]

\* OneClientPut picks a key; OnePut puts at the version it knows.
OnePut(c, k) ==
    /\ client[c].at = "loop" \/ (client[c].at = "again" /\ k = client[c].key)
    /\ \E v \in Value :
        /\ AppPut(c, k, v, client[c].verm[k])
        /\ entry' = [entry EXCEPT ![v] = [Id |-> c, V |-> client[c].verm[k]]]
    /\ client' = [client EXCEPT ![c].at = "put", ![c].key = k]

\* The Put returned: any error but these three ends the test.
PutJson(c) ==
    /\ client[c].at = "put"
    /\ PutDone(c)
    /\ client' = [client EXCEPT ![c].err = PutResult(c),
                                ![c].at = IF PutResult(c) \in {OK, ErrVersion, ErrMaybe}
                                          THEN "get" ELSE "fatal"]
    /\ UNCHANGED entry

OnePutGet(c) ==
    /\ client[c].at = "get"
    /\ AppGet(c, client[c].key)
    /\ UNCHANGED <<client, entry>>

\* An entry found right after a successful Put must be the client's own.
WrongValue(c) ==
    /\ client[c].err = OK
    /\ net[c].version = client[c].verm[client[c].key] + 1
    /\ entry[net[c].value].Id # c
    /\ entry[net[c].value].V # client[c].verm[client[c].key]

\* Mutant: ErrMaybe is not counted.
CountedOK(c) ==
    CASE client[c].err = OK -> [client[c] EXCEPT !.at = "loop", !.Nok = @ + 1]
      [] client[c].err = ErrMaybe -> [client[c] EXCEPT !.at = "loop"]
      [] client[c].err = ErrVersion -> [client[c] EXCEPT !.at = "again"]

\* What OneClientPut counts when OnePut returns.
Counted(c) ==
    CASE client[c].err = OK -> [client[c] EXCEPT !.at = "loop", !.Nok = @ + 1]
      [] client[c].err = ErrMaybe -> [client[c] EXCEPT !.at = "loop", !.Nmaybe = @ + 1]
      [] client[c].err = ErrVersion -> [client[c] EXCEPT !.at = "again"]

GetJson(c) ==
    /\ client[c].at = "get"
    /\ GetDone(c)
    /\ client' = [client EXCEPT ![c] =
        IF net[c].err # OK \/ WrongValue(c)
        THEN [@ EXCEPT !.at = "fatal"]
        ELSE [Counted(c) EXCEPT !.verm[client[c].key] = net[c].version]]
    /\ UNCHANGED entry

\* The done signal of SpawnClientsAndWait is looked at between two OnePuts.
ClientDone(c) ==
    /\ client[c].at = "loop"
    /\ client' = [client EXCEPT ![c].at = "done"]
    /\ UNCHANGED <<vars, entry>>

OneClientPut(c) ==
    \/ \E k \in Key : OnePut(c, k)
    \/ PutJson(c)
    \/ OnePutGet(c)
    \/ GetJson(c)
    \/ ClientDone(c)

\* Every client has returned, or needs a value and finds them all used.
Over == \A c \in Client : \/ client[c].at = "done"
                          \/ client[c].at = "again" /\ \A v \in Value : outcome[v] # "unused"

Running(t) == test = t /\ UNCHANGED test

AnyApplication == Running("any") /\ Next /\ UNCHANGED <<client, entry>>

TestClient(c) == Running("OneClientPut") /\ OneClientPut(c)

TestNetwork(c) == Running("OneClientPut") /\ Network(c) /\ UNCHANGED <<client, entry>>

TestLate == Running("OneClientPut") /\ Late /\ UNCHANGED <<client, entry>>

TestOver == Running("OneClientPut") /\ Over /\ UNCHANGED <<vars, client, entry>>

TestNext ==
    \/ AnyApplication
    \/ \E c \in Client : TestClient(c) \/ TestNetwork(c)
    \/ TestLate
    \/ TestOver

TestSpec == TestInit /\ [][TestNext]_allVars

-----------------------------------------------------------------------------
(* checkPorcupine (kvtest1/porcupine.go:86-90) never finds the history of    *)
(* these clients illegal: every Put of theirs has its moment, with none of   *)
(* the exceptions of Linearizable, as they pass only versions they have read.*)
CheckPorcupine == test = "OneClientPut" => \A o \in oplog : PutExplained(o)

(* No client meets a result OnePut calls fatal (kvtest.go:222, 229): a Put   *)
(* at a version that was read never finds the key missing, and the entry     *)
(* that follows a successful Put is its own, whatever the others do.         *)
NoneFatal == \A c \in Client : client[c].at # "fatal"

(* Why not: the entry that a value encodes carries the version of the Put,   *)
(* so the one found at version n + 1 says n; the versions a client knows are *)
(* no newer than the server's; and a key a Put got an answer for is there.   *)
ClientState ==
    [at : {"loop", "put", "get", "again", "fatal", "done"},
     key : Key \union {SomeKey},
     err : {OK, ErrVersion, ErrMaybe, ErrNoKey},
     verm : [Key -> Nat], Nok : Nat, Nmaybe : Nat]

TestTypeOK ==
    /\ test \in {"any", "OneClientPut"}
    /\ client \in [Client -> ClientState]
    /\ entry \in [Value -> [Id : Client \union {NoValue}, V : Nat]]

EntriesTrue ==
    /\ \A k \in Key : Present(k) => entry[store[k].value].V + 1 = store[k].version
    /\ \A r \in late : entry[r.value].V = r.version

PutTrue(c) ==
    /\ client[c].key \in Key
    /\ call[c].op = "Put"
    /\ call[c].key = client[c].key
    /\ call[c].version = client[c].verm[client[c].key]
    /\ entry[call[c].value].V = call[c].version
    /\ net[c].at = "reply" => net[c].err # ErrNoKey /\ Present(client[c].key)

GetTrue(c) ==
    /\ client[c].key \in Key
    /\ client[c].err \in {OK, ErrVersion, ErrMaybe}
    /\ Present(client[c].key)
    /\ IF call[c].op = "Get" THEN call[c].key = client[c].key ELSE Quiet(c)
    /\ net[c].at = "reply" =>
        /\ net[c].err = OK
        /\ net[c].version <= store[client[c].key].version
        /\ entry[net[c].value].V + 1 = net[c].version

ClientTrue(c) ==
    /\ \A k \in Key : client[c].verm[k] <= store[k].version
    /\ client[c].at = "put" => PutTrue(c)
    /\ client[c].at = "get" => GetTrue(c)
    /\ client[c].at \notin {"put", "get"} => net[c] = Idle
    /\ client[c].at = "again" => client[c].key \in Key
    /\ client[c].at # "fatal"

TestInv ==
    /\ TestTypeOK
    /\ test = "any" => \A c \in Client : client[c].at = "loop"
    /\ test = "OneClientPut" => EntriesTrue /\ \A c \in Client : ClientTrue(c)

Versions == [k \in Key |-> store[k].version]

\* What the test demands of the version it finds in the end.
CheckPutConcurrent(Nok, Nmaybe, ver) ==
    /\ ver <= Nok + Nmaybe
    /\ drops = 0 => ver = Nok

(* When every client has returned, the versions at the server count the      *)
(* Puts, and late copies do not change that: every OK is one, and every      *)
(* further one is an ErrMaybe; with a reliable network there is no ErrMaybe. *)
(* CheckPutConcurrent (kvtest.go:137-151) demands the upper bound, or        *)
(* equality if the network is reliable.                                      *)
PutsCounted ==
    LET Nok == SumFunction([c \in Client |-> client[c].Nok])
        Nmaybe == SumFunction([c \in Client |-> client[c].Nmaybe])
        puts == SumFunction(Versions)
    IN  (\A c \in Client : client[c].at = "done") =>
            Nok <= puts /\ CheckPutConcurrent(Nok, Nmaybe, puts)

(* Why: the counts with the Puts about to be counted are the numbers of Puts *)
(* that returned so, and the versions the number of Puts that were applied,  *)
(* all of them different values; one that was applied returned OK or         *)
(* ErrMaybe, or its client still waits, and ErrMaybe takes a failed call.    *)
Uncounted(c, err) == IF client[c].at = "get" /\ client[c].err = err THEN 1 ELSE 0

OkCounts == [c \in Client |-> client[c].Nok + Uncounted(c, OK)]
MaybeCounts == [c \in Client |-> client[c].Nmaybe + Uncounted(c, ErrMaybe)]

Returned(err) == {v \in Value : outcome[v] = err}
AppliedPuts == {v \in Value : Applied(v)}

CountsTrue ==
    /\ IsFiniteSet(Returned(OK)) /\ SumFunction(OkCounts) = Cardinality(Returned(OK))
    /\ IsFiniteSet(Returned(ErrMaybe))
    /\ SumFunction(MaybeCounts) = Cardinality(Returned(ErrMaybe))

VersionsTrue ==
    IsFiniteSet(AppliedPuts) /\ SumFunction(Versions) = Cardinality(AppliedPuts)

PutsKnown ==
    /\ \A v \in Value :
        /\ outcome[v] # ErrNoKey
        /\ outcome[v] = "pending" =>
            \E c \in Client : call[c].op = "Put" /\ call[c].value = v
    /\ drops = 0 =>
        /\ Returned(ErrMaybe) = {}
        /\ \A c \in Client : call[c].op = "Put" => ~call[c].retry

CountInv ==
    test = "OneClientPut" => CountsTrue /\ VersionsTrue /\ PutsKnown
=============================================================================
