-------------------------------- MODULE Lock --------------------------------
(***************************************************************************)
(* The lock package (src/src/kvsrv1/lock/lock.go): a lock is one key of    *)
(* the key/value server, its value "1-<id>" when locked by the Lock object *)
(* with that id, "0-<id>" when last released by it.  The strings are       *)
(* modelled by what strings.Split recovers from them: a flag and an id;    *)
(* the empty value of an absent key yields neither.                        *)
(*                                                                         *)
(* A client is a Lock object together with the goroutine that uses it, as  *)
(* lock_test.go does: Acquire, then Release, again and again.  Its Clerk   *)
(* calls are those of KVCall, so every Get and Put may be lost, resent or  *)
(* executed late.                                                          *)
(*                                                                         *)
(* MaxId bounds the number of Lock objects, MaxRounds the Acquires of each *)
(* client.                                                                 *)
(***************************************************************************)
EXTENDS KVCall

CONSTANTS MaxId, MaxRounds, NoClient

LockValue == [locked : BOOLEAN, id : 1..MaxId]

ASSUME LockAssumption ==
    /\ MaxId \in Nat
    /\ MaxRounds \in Nat
    /\ Value = LockValue
    /\ NoClient \notin Client

VARIABLES
    count,      \* the package's id counter
    id,         \* lk.id, 0 before MakeLock
    lockname,   \* lk.lockname
    pc,         \* which method the client is in
    rounds

lockVars == <<count, id, lockname, pc, rounds>>
vars == <<callVars, lockVars>>

Locked(c) == [locked |-> TRUE, id |-> id[c]]      \* "1-" + lk.id
Unlocked(c) == [locked |-> FALSE, id |-> id[c]]   \* "0-" + lk.id

PC == {"unmade", "idle", "acquiring", "held", "releasing"}

TypeOK ==
    /\ CallTypeOK
    /\ count \in 0..MaxId
    /\ id \in [Client -> 0..MaxId]
    /\ lockname \in [Client -> Key]
    /\ pc \in [Client -> PC]
    /\ rounds \in [Client -> 0..MaxRounds]

Init ==
    /\ CallInit
    /\ count = 0
    /\ id = [c \in Client |-> 0]
    /\ lockname \in [Client -> Key]
    /\ pc = [c \in Client |-> "unmade"]
    /\ rounds = [c \in Client |-> 0]

Goto(c, label) == pc' = [pc EXCEPT ![c] = label]

-----------------------------------------------------------------------------
(* Mutant: the counter's value is used before it is incremented. *)
MakeLockStaleId(c) ==
    /\ pc[c] = "unmade"
    /\ count < MaxId
    /\ count' = count + 1
    /\ id' = [id EXCEPT ![c] = count]
    /\ Goto(c, "idle")
    /\ UNCHANGED <<callVars, lockname, rounds>>

(* MakeLock: the object takes the next id of the process-wide counter. *)
MakeLock(c) ==
    /\ pc[c] = "unmade"
    /\ count < MaxId
    /\ count' = count + 1
    /\ id' = [id EXCEPT ![c] = count + 1]
    /\ Goto(c, "idle")
    /\ UNCHANGED <<callVars, lockname, rounds>>

(* Acquire: the loop begins with a Get. *)
Acquire(c) ==
    /\ pc[c] = "idle"
    /\ rounds[c] < MaxRounds
    /\ rounds' = [rounds EXCEPT ![c] = @ + 1]
    /\ Goto(c, "acquiring")
    /\ Get(c, lockname[c])
    /\ UNCHANGED <<count, id, lockname>>

(* Mutant: the lock is taken whoever holds it. *)
MayTakeAny(c, val) == TRUE

(* The test before Acquire's Put: no holder, own id, or not locked. *)
MayTake(c, val) ==
    \/ val = NoValue
    \/ val # NoValue /\ val.id = id[c]
    \/ val # NoValue /\ ~val.locked

TryPut(c) ==
    /\ pc[c] = "acquiring"
    /\ GetReturns(c)
    /\ MayTake(c, net[c].value)
    /\ Put(c, lockname[c], Locked(c), net[c].version)
    /\ UNCHANGED lockVars

Spin(c) ==
    /\ pc[c] = "acquiring"
    /\ GetReturns(c)
    /\ ~MayTake(c, net[c].value)
    /\ Get(c, lockname[c])
    /\ UNCHANGED lockVars

(* Mutant: ErrMaybe is taken for success. *)
AcquiredMaybe(c) ==
    /\ pc[c] = "acquiring"
    /\ PutReturns(c)
    /\ PutResult(c) \in {OK, ErrMaybe}
    /\ Return(c)
    /\ Goto(c, "held")
    /\ UNCHANGED <<count, id, lockname, rounds>>

Acquired(c) ==
    /\ pc[c] = "acquiring"
    /\ PutReturns(c)
    /\ PutResult(c) = OK
    /\ Return(c)
    /\ Goto(c, "held")
    /\ UNCHANGED <<count, id, lockname, rounds>>

(* Any other result, ErrMaybe included: look again. *)
PutFailed(c) ==
    /\ pc[c] = "acquiring"
    /\ PutReturns(c)
    /\ PutResult(c) # OK
    /\ Get(c, lockname[c])
    /\ UNCHANGED lockVars

-----------------------------------------------------------------------------
Release(c) ==
    /\ pc[c] = "held"
    /\ Goto(c, "releasing")
    /\ Get(c, lockname[c])
    /\ UNCHANGED <<count, id, lockname, rounds>>

(* Mutant: the test for a missing key is inverted. *)
ReleasePutInverted(c) ==
    /\ pc[c] = "releasing"
    /\ GetReturns(c)
    /\ IF net[c].err = ErrNoKey /\ net[c].value # NoValue
       THEN /\ Put(c, lockname[c], Unlocked(c), net[c].version)
            /\ UNCHANGED pc
       ELSE Return(c) /\ Goto(c, "idle")
    /\ UNCHANGED <<count, id, lockname, rounds>>

(* Release does not look at who holds the lock; it only skips the Put when  *)
(* there is no key or no holder in the value.                               *)
ReleasePut(c) ==
    /\ pc[c] = "releasing"
    /\ GetReturns(c)
    /\ IF net[c].err # ErrNoKey /\ net[c].value # NoValue
       THEN /\ Put(c, lockname[c], Unlocked(c), net[c].version)
            /\ UNCHANGED pc
       ELSE Return(c) /\ Goto(c, "idle")
    /\ UNCHANGED <<count, id, lockname, rounds>>

(* OK, ErrMaybe and ErrVersion are all taken as a release. *)
Released(c) ==
    /\ pc[c] = "releasing"
    /\ PutReturns(c)
    /\ Return(c)
    /\ Goto(c, "idle")
    /\ UNCHANGED <<count, id, lockname, rounds>>

Network(c) == CallStep(c) /\ UNCHANGED lockVars

Late == (\E r \in late : ServeLate(r)) /\ UNCHANGED lockVars

(* Nothing is left to do: every client has used up its rounds. *)
Terminated ==
    /\ \A c \in Client : pc[c] = "idle" /\ rounds[c] = MaxRounds
    /\ UNCHANGED vars

LockStep(c) ==
    \/ TryPut(c) \/ Spin(c) \/ Acquired(c) \/ PutFailed(c)
    \/ Release(c) \/ ReleasePut(c) \/ Released(c)

Next ==
    \/ \E c \in Client : MakeLock(c) \/ Acquire(c) \/ LockStep(c) \/ Network(c)
    \/ Late
    \/ Terminated

Spec == Init /\ [][Next]_vars

(***************************************************************************)
(* Fairness.  The goroutine of a client and the server keep running; the   *)
(* network and the tester are not fair: they need not lose anything.  That *)
(* a call is not lost for ever is MaxDrops, which stands for the network's *)
(* independent one-in-ten losses (labrpc.go:302, 349).                     *)
(***************************************************************************)
Progress(c) == LockStep(c) \/ ((ServeGet(c) \/ ServePut(c)) /\ UNCHANGED lockVars)

FairSpec == Spec /\ \A c \in Client : WF_vars(Progress(c))

-----------------------------------------------------------------------------
(***************************************************************************)
(* lock_test.go:85 fails with "two clients acquired lock": no two clients  *)
(* that returned from Acquire and did not call Release use the same name.  *)
(***************************************************************************)
MutualExclusion ==
    \A c, d \in Client :
        pc[c] = "held" /\ pc[d] = "held" /\ lockname[c] = lockname[d] => c = d

(***************************************************************************)
(* Release ignores what its Put returned, and Acquire ignores an ErrMaybe. *)
(* That is sound: when neither method is running, the server does not      *)
(* name this client as the holder, so no lock is left behind ...           *)
(***************************************************************************)
ReleaseEffective ==
    \A c \in Client : pc[c] = "idle" => store[lockname[c]].value # Locked(c)

(***************************************************************************)
(* ... and as long as the client holds the lock the server says so,        *)
(* whatever late or resent Puts are still on their way.                    *)
(***************************************************************************)
HolderRecorded ==
    \A c \in Client : pc[c] = "held" => store[lockname[c]].value = Locked(c)

(***************************************************************************)
(* A lock is never lost: every Acquire returns, as long as the holders     *)
(* call Release.  Acquire polls (lock.go:82-85), and could starve among    *)
(* clients that take the lock for ever; these stop after MaxRounds, as the *)
(* clients of lock_test.go do after a time.                                *)
(***************************************************************************)
EveryAcquireReturns ==
    \A c \in Client : pc[c] = "acquiring" ~> pc[c] = "held"

(***************************************************************************)
(* The lock package implements the abstract mutex: a lock's holder is the  *)
(* client whose id is in the server's value, from the moment the Put of    *)
(* Acquire is applied to the moment the Put of Release is.                 *)
(***************************************************************************)
AbsStatus(c) ==
    CASE pc[c] \in {"unmade", "idle"} -> "out"
      [] pc[c] = "acquiring" -> "waiting"
      [] pc[c] = "held" -> "in"
      [] pc[c] = "releasing" -> "leaving"

AbsHolder(l) ==
    LET val == store[l].value
    IN  IF val # NoValue /\ val.locked
        THEN CHOOSE c \in Client : id[c] = val.id
        ELSE NoClient

M == INSTANCE Mutex WITH
        LockName <- Key,
        status <- [c \in Client |-> AbsStatus(c)],
        wants <- lockname,
        holder <- [l \in Key |-> AbsHolder(l)]

ImplementsMutex == M!MutexSpec
-----------------------------------------------------------------------------
(***************************************************************************)
(* The inductive invariant behind MutualExclusion, ReleaseEffective and    *)
(* HolderRecorded.                                                         *)
(***************************************************************************)
Entry(c) == store[lockname[c]]

(* Ids are unique among the Lock objects made so far. *)
IdsDistinct ==
    \A c \in Client :
        /\ pc[c] = "unmade" <=> id[c] = 0
        /\ id[c] <= count
        /\ \A d \in Client : id[c] = id[d] /\ id[c] # 0 => c = d

(* Exactly the absent keys have no value, and the ids in values were handed out. *)
EntriesWellFormed ==
    \A k \in Key :
        /\ store[k].version = 0 <=> store[k].value = NoValue
        /\ store[k].value # NoValue => store[k].value.id <= count

(* A late Put is out of date, or is a copy of the Put its client still waits for. *)
LatePutsHarmless ==
    \A r \in late :
        \/ r.version < store[r.key].version
        \/ \E c \in Client :
            /\ call[c].op = "Put"
            /\ call[c].key = r.key
            /\ call[c].value = r.value
            /\ call[c].version = r.version

(* The method a client is in fixes the call it makes. *)
CallMatchesPC(c) ==
    /\ pc[c] \in {"unmade", "idle", "held"} => call[c].op = "none" /\ net[c].at = "none"
    /\ pc[c] \in {"acquiring", "releasing"} =>
        /\ call[c].op \in {"Get", "Put"}
        /\ call[c].key = lockname[c]
        /\ net[c].at # "none"
    /\ call[c].op = "Put" =>
        call[c].value = IF pc[c] = "acquiring" THEN Locked(c) ELSE Unlocked(c)

(* A Put on its way can only take effect on the entry its client has read. *)
PutUpToDate(c) ==
    call[c].op = "Put" =>
        /\ call[c].version <= Entry(c).version
        /\ net[c].at = "reply" => call[c].version < Entry(c).version
        /\ call[c].version = Entry(c).version =>
            IF pc[c] = "acquiring" THEN MayTake(c, Entry(c).value)
                                   ELSE Entry(c).value = Locked(c)

(* A reply of Get is current unless the version has moved on; that of a     *)
(* releasing client is current.                                             *)
GetUpToDate(c) ==
    GetReturns(c) =>
        /\ net[c].version <= Entry(c).version
        /\ net[c].version = Entry(c).version => net[c].value = Entry(c).value
        /\ pc[c] = "releasing" => net[c].version = Entry(c).version /\ net[c].err = OK

(* From the applied Put of Acquire to the applied Put of Release ... *)
Holds(c) ==
    \/ pc[c] = "held"
    \/ pc[c] = "acquiring" /\ PutReturns(c) /\ net[c].err = OK
    \/ pc[c] = "releasing" /\ call[c].op = "Get"
    \/ pc[c] = "releasing" /\ call[c].op = "Put" /\ call[c].version = Entry(c).version

(* ... and from there to the next Acquire. *)
Gone(c) ==
    \/ pc[c] = "idle"
    \/ pc[c] = "releasing" /\ call[c].op = "Put" /\ call[c].version < Entry(c).version

ClientInv(c) ==
    /\ CallMatchesPC(c)
    /\ PutUpToDate(c)
    /\ GetUpToDate(c)
    /\ Holds(c) => Entry(c).value = Locked(c)
    /\ Gone(c) => Entry(c).value # Locked(c)

(***************************************************************************)
(* The invariant of Acquire and Release as a whole: at every moment of     *)
(* every call the server's entry and what is left on the network agree     *)
(* with what the client may still assume.                                  *)
(***************************************************************************)
IInv ==
    /\ TypeOK
    /\ IdsDistinct
    /\ EntriesWellFormed
    /\ LatePutsHarmless
    /\ \A c \in Client : ClientInv(c)

(***************************************************************************)
(* The id in an entry is that of a Lock object, so that a locked entry has *)
(* a holder; the refinement of Mutex needs it besides IInv.                *)
(***************************************************************************)
OwnersMade ==
    \A k \in Key :
        store[k].value # NoValue => \E c \in Client : id[c] = store[k].value.id
=============================================================================
