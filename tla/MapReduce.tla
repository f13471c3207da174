----------------------------- MODULE MapReduce ------------------------------
(***************************************************************************)
(* The distributed MapReduce of src/map_reduce/mr: the coordinator         *)
(* (coordinator.go), its workers (worker.go) and the directory they share. *)
(*                                                                         *)
(* Tasks are numbered as createTasks numbers them: the maps first, then    *)
(* the reduces.  The contents of files are abstracted to where they come   *)
(* from: an intermediate file is the pair of its map task and its bucket,  *)
(* and an output file is the set of map tasks whose bucket went into it.   *)
(* What they hold follows from the keys the application's Map emits for an *)
(* input (Emits) and their hashes (ihash); the value of a key is the task  *)
(* that emitted it, and Reduce keeps the values it was given.              *)
(* Files appear at once, by os.Rename.                                     *)
(*                                                                         *)
(* Time passes in Ticks of five seconds.  A running worker pings every     *)
(* four, so at least once between two Ticks, and the ten seconds after     *)
(* which checkTask gives up are two Ticks.  checkTask runs at any moment:  *)
(* every GetTask leaves a goroutine that calls it for ever.  An RPC of a   *)
(* worker is one step, as the handlers hold c.mu from first line to last.  *)
(*                                                                         *)
(* What the environment may do is set by constants:                        *)
(*   CrashAnywhere  workers crash at any point, not only in the            *)
(*                  application's Map and Reduce as mrapps/crash.go does;  *)
(*   Stalls         a worker may be so slow that its pings are late;       *)
(*   EarlyWorkers   workers call before MakeCoordinator has returned.      *)
(* MaxCrashes bounds the crashes, MaxHangs the application functions that  *)
(* never return (their process goes on pinging).  I/O errors are left out, *)
(* except the one the workers cause: reading a file another one deleted.   *)
(***************************************************************************)
EXTENDS Naturals, FiniteSets, FiniteSetsExt

CONSTANTS Worker, NoWorker, NMap, NReduce,
          Emits, ihash, MaxCrashes, MaxHangs, CrashAnywhere, Stalls, EarlyWorkers

ASSUME MapReduceAssumption ==
    /\ NMap \in Nat \ {0} /\ NReduce \in Nat \ {0}
    /\ MaxCrashes \in Nat /\ MaxHangs \in Nat
    /\ {CrashAnywhere, Stalls, EarlyWorkers} \subseteq BOOLEAN
    /\ NoWorker \notin Worker

MapTask == 1..NMap
ReduceTask == (NMap + 1)..(NMap + NReduce)
Task == MapTask \union ReduceTask
Bucket == 1..NReduce
Idx(t) == t - NMap          \* the bucket of a reduce task

ASSUME EmitsAssumption ==
    /\ ihash \in [DOMAIN ihash -> Nat]
    /\ Emits \in [MapTask -> SUBSET DOMAIN ihash]

NoOutput == {0}             \* mr-out-X does not exist

VARIABLES
    phase, booted,          \* c.phase; MakeCoordinator has set it
    status, workerId, fresh,    \* c.tasks; Ticks until lastPing is ten seconds old
    pinged,                 \* workers that pinged since the last Tick
    pc, task, names, todo,  \* of each worker
    interm, out,            \* the shared directory
    gone                    \* the coordinator's process has exited

coordVars == <<phase, booted, status, workerId, fresh>>
fileVars == <<interm, out>>
workerVars == <<pc, task, names, todo>>
vars == <<coordVars, pinged, workerVars, fileVars, gone>>

Live == {"idle", "mapfn", "write", "glob", "read", "reducefn", "delete", "mark", "hung"}
Executing == Live \ {"idle"}

TypeOK ==
    /\ phase \in {"", "map", "reduce", "done"}
    /\ booted \in BOOLEAN
    /\ status \in [Task -> {"pending", "ongoing", "done"}]
    /\ workerId \in [Task -> Worker \union {NoWorker}]
    /\ fresh \in [Task -> 0..2]
    /\ pinged \in SUBSET Worker
    /\ pc \in [Worker -> Live \union {"crashed", "exited"}]
    /\ task \in [Worker -> Task \union {0}]
    /\ names \in [Worker -> SUBSET MapTask]
    /\ todo \in [Worker -> SUBSET Nat]
    /\ interm \in SUBSET (MapTask \X Bucket)
    /\ out \in [Bucket -> {NoOutput} \union SUBSET MapTask]
    /\ gone \in BOOLEAN

Init ==
    /\ phase = ""
    /\ booted = FALSE
    /\ status = [t \in Task |-> "pending"]
    /\ workerId = [t \in Task |-> NoWorker]
    /\ fresh = [t \in Task |-> 0]
    /\ pinged = {}
    /\ pc = [w \in Worker |-> "idle"]
    /\ task = [w \in Worker |-> 0]
    /\ names = [w \in Worker |-> {}]
    /\ todo = [w \in Worker |-> {}]
    /\ interm = {}
    /\ out = [r \in Bucket |-> NoOutput]
    /\ gone = FALSE

Goto(w, label) == pc' = [pc EXCEPT ![w] = label]

-----------------------------------------------------------------------------
(* MakeCoordinator sets the phase after server() began to accept RPCs. *)
MakeCoordinator ==
    /\ ~booted
    /\ booted' = TRUE
    /\ phase' = "map"
    /\ UNCHANGED <<status, workerId, fresh, pinged, workerVars, fileVars, gone>>

Serving == ~gone /\ (booted \/ EarlyWorkers)

(* Mutant: a ping refreshes nothing. *)
RefreshesNone(w, t) == FALSE

(* The test of Ping's loop over the tasks. *)
Refreshes(w, t) == workerId[t] = w

Ping(w) ==
    /\ Serving
    /\ pc[w] \in Live
    /\ w \notin pinged
    /\ pinged' = pinged \union {w}
    /\ fresh' = [t \in Task |-> IF Refreshes(w, t) THEN 2 ELSE fresh[t]]
    /\ UNCHANGED <<phase, booted, status, workerId, workerVars, fileVars, gone>>

(* Five seconds later. *)
Aged(n) == IF n = 0 THEN 0 ELSE n - 1

Tick ==
    /\ Serving
    /\ \A w \in Worker : pc[w] \in Live => w \in pinged \/ Stalls
    /\ pinged' = {}
    /\ fresh' = [t \in Task |-> Aged(fresh[t])]
    /\ UNCHANGED <<phase, booted, status, workerId, workerVars, fileVars, gone>>

(* Mutants: checkTask never gives up on a worker; it resets a task in any state. *)
ExpiredNever(t) == FALSE

(* now - lastPing > 10_000 *)
Expired(t) == fresh[t] = 0

checkTaskAny(t) ==
    /\ ~gone
    /\ Expired(t)
    /\ status' = [status EXCEPT ![t] = "pending"]
    /\ workerId' = [workerId EXCEPT ![t] = NoWorker]
    /\ UNCHANGED <<phase, booted, fresh, pinged, workerVars, fileVars, gone>>

checkTask(t) ==
    /\ ~gone
    /\ status[t] = "ongoing"
    /\ Expired(t)
    /\ status' = [status EXCEPT ![t] = "pending"]
    /\ workerId' = [workerId EXCEPT ![t] = NoWorker]
    /\ UNCHANGED <<phase, booted, fresh, pinged, workerVars, fileVars, gone>>

(* Mutant: the phase is not looked at. *)
PendingTasksAnyPhase == {t \in Task : status[t] = "pending"}

(* Any phase but Reduce, the unset one included, looks among the maps. *)
PendingTasks ==
    {t \in IF phase = "reduce" THEN ReduceTask ELSE MapTask : status[t] = "pending"}

findPendingTask == Min(PendingTasks)

(* Mutant: lastPing is not set when the task is handed out. *)
HandTaskNotPinged(w, t) ==
    /\ status' = [status EXCEPT ![t] = "ongoing"]
    /\ workerId' = [workerId EXCEPT ![t] = w]
    /\ fresh' = fresh
    /\ task' = [task EXCEPT ![w] = t]
    /\ Goto(w, IF t \in MapTask THEN "mapfn" ELSE "glob")

(* Handler GetTask and the worker's switch on its answer. *)
HandTask(w, t) ==
    /\ status' = [status EXCEPT ![t] = "ongoing"]
    /\ workerId' = [workerId EXCEPT ![t] = w]
    /\ fresh' = [fresh EXCEPT ![t] = 2]
    /\ task' = [task EXCEPT ![w] = t]
    /\ Goto(w, IF t \in MapTask THEN "mapfn" ELSE "glob")

GetTask(w) ==
    /\ Serving
    /\ pc[w] = "idle"
    /\ \/ /\ phase = "done"                             \* TaskTypeExit
          /\ Goto(w, "exited")
          /\ UNCHANGED <<status, workerId, fresh, task>>
       \/ /\ phase # "done" /\ PendingTasks = {}        \* TaskTypeWait
          /\ UNCHANGED <<status, workerId, fresh, task, pc>>
       \/ /\ phase # "done" /\ PendingTasks # {}
          /\ HandTask(w, findPendingTask)
    /\ UNCHANGED <<phase, booted, pinged, names, todo, fileVars, gone>>

AllDone(st, tasks) == \A t \in tasks : st[t] = "done"

(* Mutant: the phase is computed before the task is updated. *)
PhaseBeforeUpdate(st) ==
    IF ~AllDone(status, MapTask) THEN phase
    ELSE IF AllDone(status, ReduceTask) THEN "done" ELSE "reduce"

(* The job phase UpdateTask computes from the updated tasks. *)
PhaseOf(st) ==
    IF ~AllDone(st, MapTask) THEN phase
    ELSE IF AllDone(st, ReduceTask) THEN "done" ELSE "reduce"

markAsDone(w) ==
    /\ pc[w] = "mark"
    /\ Goto(w, "idle")
    /\ task' = [task EXCEPT ![w] = 0]

(* Handler UpdateTask, called by markAsDone. *)
UpdateTask(w) ==
    /\ Serving
    /\ markAsDone(w)
    /\ status' = [status EXCEPT ![task[w]] = "done"]
    /\ phase' = PhaseOf(status')
    /\ UNCHANGED <<booted, workerId, fresh, pinged, names, todo, fileVars, gone>>

-----------------------------------------------------------------------------
readFile(m, r) == <<m, r>> \in interm

(* A temporary file that is renamed when it is complete. *)
writeFile(m, r) == interm \union {<<m, r>>}

(* Mutant: the task is marked without waiting for the writers. *)
mapfnNoWait(w) ==
    /\ pc[w] = "mapfn"
    /\ Goto(w, "mark")
    /\ UNCHANGED <<coordVars, pinged, task, names, todo, fileVars, gone>>

(* execMap: the application's Map, then one goroutine a bucket. *)
mapfn(w) ==
    /\ pc[w] = "mapfn"
    /\ Goto(w, "write")
    /\ todo' = [todo EXCEPT ![w] = Bucket]
    /\ UNCHANGED <<coordVars, pinged, task, names, fileVars, gone>>

writeBucketsToDisk(w, r) ==
    /\ pc[w] = "write"
    /\ r \in todo[w]
    /\ interm' = writeFile(task[w], r)
    /\ todo' = [todo EXCEPT ![w] = @ \ {r}]
    /\ IF todo[w] = {r} THEN Goto(w, "mark") ELSE UNCHANGED pc
    /\ UNCHANGED <<coordVars, pinged, task, names, out, gone>>

(* execReduce: Glob, read the files in order, Reduce, write, delete. *)
Glob(w) ==
    LET found == {m \in MapTask : readFile(m, Idx(task[w]))}
    IN  /\ pc[w] = "glob"
        /\ names' = [names EXCEPT ![w] = found]
        /\ todo' = [todo EXCEPT ![w] = found]
        /\ Goto(w, IF found = {} THEN "reducefn" ELSE "read")
        /\ UNCHANGED <<coordVars, pinged, task, fileVars, gone>>

(* A file that is gone makes execReduce return, and run then marks the task. *)
readReduceInputFiles(w) ==
    LET m == Min(todo[w])
        Missing == ~readFile(m, Idx(task[w]))
    IN  /\ pc[w] = "read"
        /\ todo' = [todo EXCEPT ![w] = IF Missing THEN {} ELSE @ \ {m}]
        /\ names' = [names EXCEPT ![w] = IF Missing THEN {} ELSE @]
        /\ Goto(w, IF Missing THEN "mark" ELSE IF todo[w] = {m} THEN "reducefn" ELSE "read")
        /\ UNCHANGED <<coordVars, pinged, task, fileVars, gone>>

reducefn(w) ==
    /\ pc[w] = "reducefn"
    /\ out' = [out EXCEPT ![Idx(task[w])] = names[w]]
    /\ todo' = [todo EXCEPT ![w] = names[w]]
    /\ Goto(w, IF names[w] = {} THEN "mark" ELSE "delete")
    /\ UNCHANGED <<coordVars, pinged, task, names, interm, gone>>

deleteIntermediateFiles(w) ==
    LET m == Min(todo[w])
    IN  /\ pc[w] = "delete"
        /\ interm' = interm \ {<<m, Idx(task[w])>>}
        /\ todo' = [todo EXCEPT ![w] = @ \ {m}]
        /\ names' = [names EXCEPT ![w] = @ \ {m}]
        /\ IF todo[w] = {m} THEN Goto(w, "mark") ELSE UNCHANGED pc
        /\ UNCHANGED <<coordVars, pinged, task, out, gone>>

-----------------------------------------------------------------------------
(* The environment. *)
Count(label) == Cardinality({w \in Worker : pc[w] = label})

Stop(w, label) ==
    /\ Goto(w, label)
    /\ task' = [task EXCEPT ![w] = 0]
    /\ names' = [names EXCEPT ![w] = {}]
    /\ todo' = [todo EXCEPT ![w] = {}]
    /\ pinged' = pinged \ {w}
    /\ UNCHANGED <<coordVars, fileVars, gone>>

Crash(w) ==
    /\ pc[w] \in IF CrashAnywhere THEN Live ELSE {"mapfn", "reducefn"}
    /\ Count("crashed") < MaxCrashes
    /\ Stop(w, "crashed")

(* The application's Map or Reduce does not return; the ping goroutine runs on. *)
Hang(w) ==
    /\ pc[w] \in {"mapfn", "reducefn"}
    /\ Count("hung") < MaxHangs
    /\ Goto(w, "hung")
    /\ UNCHANGED <<coordVars, pinged, task, names, todo, fileVars, gone>>

(* main, which has returned from MakeCoordinator, leaves once Done() is true. *)
Done ==
    /\ booted
    /\ phase = "done"
    /\ ~gone
    /\ gone' = TRUE
    /\ UNCHANGED <<coordVars, pinged, workerVars, fileVars>>

(* call: a worker that cannot connect exits, its ping goroutine at any point. *)
callFails(w) ==
    /\ gone
    /\ pc[w] \in Live
    /\ Stop(w, "exited")

Finished ==
    /\ gone
    /\ \A w \in Worker : pc[w] \notin Live
    /\ UNCHANGED vars

Run(w) ==
    \/ GetTask(w) \/ UpdateTask(w)
    \/ mapfn(w) \/ (\E r \in Bucket : writeBucketsToDisk(w, r))
    \/ Glob(w) \/ readReduceInputFiles(w) \/ reducefn(w) \/ deleteIntermediateFiles(w)
    \/ callFails(w)

Next ==
    \/ MakeCoordinator \/ Tick \/ Done \/ Finished
    \/ \E t \in Task : checkTask(t)
    \/ \E w \in Worker : Run(w) \/ Ping(w) \/ Crash(w) \/ Hang(w)

Spec == Init /\ [][Next]_vars

(***************************************************************************)
(* Fairness: every process is scheduled, and time passes.  Crashes and     *)
(* hanging application functions are never obliged to happen.              *)
(***************************************************************************)
FairSpec ==
    /\ Spec
    /\ WF_vars(MakeCoordinator) /\ WF_vars(Tick) /\ WF_vars(Done)
    /\ \A t \in Task : WF_vars(checkTask(t))
    /\ \A w \in Worker : WF_vars(Run(w)) /\ WF_vars(Ping(w))

-----------------------------------------------------------------------------
(* The bucket of a map task: the code numbers buckets from 0. *)
splitIntoBuckets(m, r) == {k \in Emits[m] : ihash[k] % NReduce = r - 1}

(* The values of each key in the buckets a reduce has read. *)
groupValuesByKey(ms, r) ==
    [k \in UNION {splitIntoBuckets(m, r) : m \in ms} |->
        {m \in ms : k \in splitIntoBuckets(m, r)}]

(* The lines of an output file. *)
reduceValuesByKey(byKey) == {<<k, byKey[k]>> : k \in DOMAIN byKey}

Lines(r) == IF out[r] = NoOutput THEN {} ELSE reduceValuesByKey(groupValuesByKey(out[r], r))

(* mrsequential.go: all the inputs, one after the other, in one place. *)
Sequential ==
    {<<k, {m \in MapTask : k \in Emits[m]}>> : k \in UNION {Emits[m] : m \in MapTask}}

(***************************************************************************)
(* map_reduce/README.md:70: "the sorted union of the output files should   *)
(* match the sequential output".  Once the job is done the output files    *)
(* hold together what mrsequential.go writes, and it stays so.             *)
(***************************************************************************)
OutputComplete == phase = "done" => UNION {Lines(r) : r \in Bucket} = Sequential

(***************************************************************************)
(* findPendingTask hands out a reduce only in the reduce phase, and        *)
(* UpdateTask enters that phase when every map is done.  A reducer then    *)
(* finds the buckets of all the maps, also after some of its predecessors  *)
(* crashed in the application's Reduce.                                    *)
(***************************************************************************)
InputsComplete == \A w \in Worker : pc[w] \in {"read", "reducefn"} => names[w] = MapTask

(***************************************************************************)
(* UpdateTask accepts an answer from any worker, also from one whose task  *)
(* was given to another.  Even so the phase agrees with the tasks: no      *)
(* reduce phase with a map left, and done exactly when every task is.      *)
(***************************************************************************)
PhaseMatchesTasks ==
    /\ phase \in {"reduce", "done"} => \A t \in MapTask : status[t] = "done"
    /\ phase = "done" <=> \A t \in Task : status[t] = "done"

(***************************************************************************)
(* A map that is marked done has left a bucket for every reduce that was   *)
(* not handed out yet: execMap waits for its writers before markAsDone.    *)
(***************************************************************************)
BucketsKept ==
    \A m \in MapTask, t \in ReduceTask :
        status[m] = "done" /\ status[t] = "pending" /\ out[Idx(t)] = NoOutput
            => <<m, Idx(t)>> \in interm

(***************************************************************************)
(* map_reduce/README.md:194: the code "doesn't schedule extraneous tasks   *)
(* when workers execute tasks without crashing".  A task being executed by *)
(* a running worker, however long it takes, is not given to another one.   *)
(***************************************************************************)
SoleExecutor ==
    \A w, x \in Worker :
        pc[w] \in Executing /\ pc[x] \in Executing /\ task[w] = task[x] => w = x

(***************************************************************************)
(* No check, ping or late answer takes back a task that is done.           *)
(***************************************************************************)
DoneStays == [][\A t \in Task : status[t] = "done" => status'[t] = "done"]_vars

(***************************************************************************)
(* map_reduce/README.md:157: Done "returns true when the MapReduce job is  *)
(* completely finished".  The job finishes and the workers leave, as long  *)
(* as one of them does not crash.                                          *)
(***************************************************************************)
JobFinishes == <>(phase = "done" /\ \A w \in Worker : pc[w] \in {"exited", "crashed"})
-----------------------------------------------------------------------------
(***************************************************************************)
(* The inductive invariants behind these properties.  BaseInv holds        *)
(* whatever the environment does.                                          *)
(***************************************************************************)
Mapping == {"mapfn", "write"}
Reducing == {"glob", "read", "reducefn", "delete"}
Written == {"delete", "mark"}       \* a reducer there has left its output

(* Where a worker is fixes the kind of its task, and what it has left to do. *)
WorkerInv(w) ==
    /\ pc[w] \in Executing <=> task[w] # 0
    /\ pc[w] \in Mapping => task[w] \in MapTask
    /\ pc[w] \in Reducing => task[w] \in ReduceTask
    /\ pc[w] \in {"read", "delete"} => todo[w] # {} /\ todo[w] \subseteq names[w]

(* Nobody deletes a bucket before its reduce has left an output. *)
FilesInv(w) ==
    /\ pc[w] = "write" =>
        \A r \in Bucket \ todo[w] : out[r] = NoOutput => <<task[w], r>> \in interm
    /\ pc[w] = "mark" /\ task[w] \in MapTask =>
        \A r \in Bucket : out[r] = NoOutput => <<task[w], r>> \in interm
    /\ pc[w] = "delete" => out[Idx(task[w])] # NoOutput

DoneMapsWritten ==
    \A m \in MapTask, r \in Bucket :
        status[m] = "done" /\ out[r] = NoOutput => <<m, r>> \in interm

(* A late MakeCoordinator may take the phase back, but never runs ahead. *)
PhaseInv ==
    /\ phase \in {"reduce", "done"} => AllDone(status, MapTask)
    /\ phase = "done" => AllDone(status, Task)
    /\ gone => booted /\ phase = "done"
    /\ ~EarlyWorkers =>
        /\ AllDone(status, Task) => phase = "done"
        /\ ~booted => \A t \in Task : status[t] = "pending"

(***************************************************************************)
(* What holds of coordinator, workers and files in every environment.      *)
(***************************************************************************)
BaseInv ==
    /\ TypeOK
    /\ PhaseInv
    /\ DoneMapsWritten
    /\ \A w \in Worker : WorkerInv(w) /\ FilesInv(w)

(* A worker that executes a task owns it, and its pings are in time. *)
Owns(w) ==
    pc[w] \in Executing =>
        /\ status[task[w]] = "ongoing"
        /\ workerId[task[w]] = w
        /\ fresh[task[w]] # 0
        /\ w \in pinged => fresh[task[w]] = 2

ReducesAfterMaps(w) == task[w] \in ReduceTask => AllDone(status, MapTask)

ReadsAll(w) == pc[w] \in {"read", "reducefn"} => names[w] = MapTask

(* The one execution of a reduce that gets as far as its output completes. *)
Finishing(t) == status[t] = "done" \/ \E w \in Worker : task[w] = t /\ pc[w] \in Written

WrittenOnce(t) ==
    IF Finishing(t) THEN out[Idx(t)] = MapTask ELSE out[Idx(t)] = NoOutput

(***************************************************************************)
(* What holds besides when workers only crash in the application's         *)
(* functions and their pings are in time: a task has one executor, and an  *)
(* output file is written once, from all the maps.                         *)
(***************************************************************************)
OwnerInv ==
    /\ BaseInv
    /\ \A w \in Worker : Owns(w) /\ ReducesAfterMaps(w) /\ ReadsAll(w)
    /\ \A t \in ReduceTask : WrittenOnce(t)
=============================================================================
