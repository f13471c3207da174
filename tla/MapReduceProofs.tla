-------------------------- MODULE MapReduceProofs ---------------------------
(***************************************************************************)
(* The invariants of MapReduce, for any number of workers, maps and        *)
(* reduces, any inputs and any number of crashes and hangs.                *)
(***************************************************************************)
EXTENDS MapReduce, WellFoundedInduction, TLAPS

(* A nonempty set of numbers has a least element, and Min chooses it. *)
Less == OpToRel(<, Nat)

LEMMA LessWellFounded == IsWellFoundedOn(Less, Nat)
  BY Zenon, NatLessThanWellFounded DEF Less

LEMMA LessIsLess == \A x, y \in Nat : x < y => <<x, y>> \in Less
  BY Zenon DEF Less, OpToRel

LEMMA MinIn ==
    ASSUME NEW S \in SUBSET Nat, S # {}
    PROVE  Min(S) \in S
  <1>1. PICK x \in S : \A y \in S : ~(<<y, x>> \in Less)
    BY Zenon, LessWellFounded, WFMin
  <1>2. \A y \in S : ~(y < x)
    BY <1>1, LessIsLess, Zenon
  <1>3. \A y \in S : x =< y
    BY <1>2
  <1> QED
    BY Zenon, <1>3 DEF Min

(* The numbering of tasks, buckets and outputs. *)
LEMMA Numbers ==
    /\ MapTask \subseteq Nat /\ ReduceTask \subseteq Nat
    /\ MapTask \cap ReduceTask = {}
    /\ MapTask # {} /\ ReduceTask # {}
    /\ Task = MapTask \union ReduceTask
    /\ 0 \notin Task
    /\ MapTask # NoOutput
    /\ \A S \in SUBSET MapTask : S # NoOutput
    /\ \A t \in ReduceTask : Idx(t) \in Bucket
    /\ \A t, u \in ReduceTask : Idx(t) = Idx(u) => t = u
    /\ \A r \in Bucket : \E t \in ReduceTask : Idx(t) = r
  <1> USE MapReduceAssumption DEF MapTask, ReduceTask, Task, Bucket, Idx, NoOutput
  <1>1. /\ MapTask \subseteq Nat /\ ReduceTask \subseteq Nat
        /\ MapTask \cap ReduceTask = {}
        /\ Task = MapTask \union ReduceTask
        /\ 0 \notin Task
    OBVIOUS
  <1>2. 1 \in MapTask /\ NMap + 1 \in ReduceTask
    OBVIOUS
  <1>3. \A S \in SUBSET MapTask : S # NoOutput
    BY 0 \notin MapTask
  <1>4. /\ \A t \in ReduceTask : Idx(t) \in Bucket
        /\ \A t, u \in ReduceTask : Idx(t) = Idx(u) => t = u
    OBVIOUS
  <1>5. ASSUME NEW r \in Bucket
        PROVE  \E t \in ReduceTask : Idx(t) = r
    <2>1. NMap + r \in ReduceTask /\ Idx(NMap + r) = r
      OBVIOUS
    <2> QED
      BY Zenon, <2>1
  <1> QED
    BY Zenon, <1>1, <1>2, <1>3, <1>4, <1>5

(* The task GetTask hands out is a pending one of the phase. *)
LEMMA Pending ==
    ASSUME TypeOK, PendingTasks # {}
    PROVE  /\ findPendingTask \in Task
           /\ status[findPendingTask] = "pending"
           /\ phase = "reduce" => findPendingTask \in ReduceTask
           /\ phase # "reduce" => findPendingTask \in MapTask
  <1>1. PendingTasks \in SUBSET Nat
    BY Zenon, Numbers DEF PendingTasks
  <1>2. findPendingTask \in PendingTasks
    BY Zenon, <1>1, MinIn DEF findPendingTask
  <1> QED
    BY Zenon, <1>2, Numbers DEF PendingTasks

(* The file a reducer reads or deletes next. *)
LEMMA NextFile ==
    ASSUME TypeOK, NEW w \in Worker, WorkerInv(w), pc[w] \in {"read", "delete"}
    PROVE  Min(todo[w]) \in todo[w] /\ Min(todo[w]) \in MapTask /\ task[w] \in ReduceTask
  <1>1. todo[w] \in SUBSET Nat /\ names[w] \in SUBSET MapTask
    BY Zenon DEF TypeOK
  <1>2. todo[w] # {} /\ todo[w] \subseteq names[w] /\ task[w] \in ReduceTask
    BY Zenon DEF WorkerInv, Reducing
  <1> QED
    BY Zenon, <1>1, <1>2, MinIn

-----------------------------------------------------------------------------
LEMMA FreshType ==
    ASSUME TypeOK
    PROVE  fresh \in [Task -> 0..2] /\ 2 \in 0..2
  <1>1. fresh \in [Task -> 0..2]
    BY Zenon DEF TypeOK
  <1> QED
    BY <1>1

(* Every step of a worker, and of the rest of the system, keeps the types. *)
LEMMA WorkerTypes ==
    ASSUME TypeOK, NEW w \in Worker, WorkerInv(w),
           Run(w) \/ Ping(w) \/ Crash(w) \/ Hang(w)
    PROVE  TypeOK'
  <1> USE DEF Goto, Live, coordVars, fileVars, workerVars
  <1>1. CASE GetTask(w) /\ PendingTasks = {}
    BY Zenon, <1>1 DEF TypeOK, GetTask
  <1>2. CASE GetTask(w) /\ PendingTasks # {}
    <2>1. findPendingTask \in Task
      BY Zenon, <1>2, Pending
    <2>2. CASE phase = "done"
      BY Zenon, <1>2, <2>2 DEF TypeOK, GetTask
    <2>3. CASE phase # "done"
      <3>1. HandTask(w, findPendingTask)
        BY Zenon, <1>2, <2>3 DEF GetTask
      <3>2. fresh' \in [Task -> 0..2]
        BY Zenon, <2>1, <3>1, FreshType DEF HandTask
      <3> QED
        BY Zenon, <1>2, <2>1, <3>1, <3>2 DEF TypeOK, GetTask, HandTask
    <2> QED
      BY Zenon, <2>2, <2>3
  <1>3. CASE UpdateTask(w)
    <2>1. task[w] \in Task
      BY Zenon, <1>3 DEF UpdateTask, markAsDone, WorkerInv, Executing, TypeOK
    <2>2. phase' \in {"", "map", "reduce", "done"}
      BY Zenon, <1>3 DEF UpdateTask, PhaseOf, TypeOK
    <2> QED
      BY Zenon, <1>3, <2>1, <2>2 DEF TypeOK, UpdateTask, markAsDone
  <1>4. CASE mapfn(w)
    <2>1. Bucket \in SUBSET Nat
      BY MapReduceAssumption DEF Bucket
    <2> QED
      BY Zenon, <1>4, <2>1 DEF TypeOK, mapfn
  <1>5. ASSUME NEW r \in Bucket, writeBucketsToDisk(w, r)
        PROVE  TypeOK'
    <2>1. task[w] \in MapTask
      BY Zenon, <1>5 DEF writeBucketsToDisk, WorkerInv, Mapping
    <2>2. interm' \in SUBSET (MapTask \X Bucket)
      <3>1. <<task[w], r>> \in MapTask \X Bucket
        BY Zenon, <2>1
      <3>2. interm \in SUBSET (MapTask \X Bucket)
        BY Zenon DEF TypeOK
      <3> QED
        BY Zenon, <1>5, <3>1, <3>2 DEF writeBucketsToDisk, writeFile
    <2>3. pc' \in [Worker -> Live \union {"crashed", "exited"}]
      BY ZenonT(40), <1>5 DEF TypeOK, writeBucketsToDisk
    <2> QED
      BY Zenon, <1>5, <2>2, <2>3 DEF TypeOK, writeBucketsToDisk
  <1>6. CASE Glob(w)
    BY Zenon, <1>6, Numbers DEF TypeOK, Glob
  <1>7. CASE readReduceInputFiles(w)
    BY Zenon, <1>7 DEF TypeOK, readReduceInputFiles
  <1>8. CASE reducefn(w)
    <2>1. Idx(task[w]) \in Bucket
      BY Zenon, <1>8, Numbers DEF reducefn, WorkerInv, Reducing
    <2> QED
      BY Zenon, <1>8, <2>1, Numbers DEF TypeOK, reducefn
  <1>9. CASE deleteIntermediateFiles(w)
    BY Zenon, <1>9 DEF TypeOK, deleteIntermediateFiles
  <1>10. CASE callFails(w) \/ Crash(w)
    BY ZenonT(40), <1>10, Numbers DEF TypeOK, callFails, Crash, Stop
  <1>11. CASE Ping(w)
    <2>1. fresh' \in [Task -> 0..2]
      BY Zenon, <1>11, FreshType DEF Ping
    <2> QED
      BY Zenon, <1>11, <2>1 DEF TypeOK, Ping
  <1>12. CASE Hang(w)
    BY Zenon, <1>12 DEF TypeOK, Hang
  <1> QED
    BY Zenon, <1>1, <1>2, <1>3, <1>4, <1>5, <1>6, <1>7, <1>8, <1>9, <1>10, <1>11, <1>12 DEF Run

LEMMA CoordinatorTypes ==
    ASSUME TypeOK, MakeCoordinator \/ Tick \/ Done \/ \E t \in Task : checkTask(t)
    PROVE  TypeOK'
  <1> USE DEF coordVars, fileVars, workerVars
  <1>1. CASE MakeCoordinator
    BY Zenon, <1>1 DEF TypeOK, MakeCoordinator
  <1>2. CASE Tick
    <2>1. \A n \in 0..2 : Aged(n) \in 0..2
      BY DEF Aged
    <2>2. fresh' \in [Task -> 0..2]
      BY Zenon, <1>2, <2>1 DEF TypeOK, Tick
    <2> QED
      BY Zenon, <1>2, <2>2 DEF TypeOK, Tick
  <1>3. CASE Done
    BY Zenon, <1>3 DEF TypeOK, Done
  <1>4. ASSUME NEW t \in Task, checkTask(t)
        PROVE  TypeOK'
    BY Zenon, <1>4 DEF TypeOK, checkTask
  <1> QED
    BY Zenon, <1>1, <1>2, <1>3, <1>4

-----------------------------------------------------------------------------
(* The worker that takes a step leaves the others where they are. *)
WorkerStep(w) == Run(w) \/ Crash(w) \/ Hang(w)

LEMMA Others ==
    ASSUME TypeOK, NEW w \in Worker, WorkerStep(w), NEW x \in Worker, x # w
    PROVE  /\ pc'[x] = pc[x] /\ task'[x] = task[x]
           /\ names'[x] = names[x] /\ todo'[x] = todo[x]
  <1> USE DEF Goto, coordVars, workerVars
  <1>1. CASE GetTask(w)
    BY Zenon, <1>1 DEF TypeOK, GetTask, HandTask
  <1>2. CASE UpdateTask(w)
    BY Zenon, <1>2 DEF TypeOK, UpdateTask, markAsDone
  <1>3. CASE mapfn(w) \/ Glob(w) \/ reducefn(w)
    BY Zenon, <1>3 DEF TypeOK, mapfn, Glob, reducefn
  <1>4. CASE readReduceInputFiles(w)
    BY Zenon, <1>4 DEF TypeOK, readReduceInputFiles
  <1>5. ASSUME NEW r \in Bucket, writeBucketsToDisk(w, r)
        PROVE  /\ pc'[x] = pc[x] /\ task'[x] = task[x]
               /\ names'[x] = names[x] /\ todo'[x] = todo[x]
    BY Zenon, <1>5 DEF TypeOK, writeBucketsToDisk
  <1>6. CASE deleteIntermediateFiles(w)
    BY Zenon, <1>6 DEF TypeOK, deleteIntermediateFiles
  <1>7. CASE callFails(w) \/ Crash(w) \/ Hang(w)
    BY Zenon, <1>7 DEF TypeOK, callFails, Crash, Hang, Stop
  <1> QED
    BY Zenon, <1>1, <1>2, <1>3, <1>4, <1>5, <1>6, <1>7 DEF WorkerStep, Run

(* What a step of a worker leaves it to do. *)
LEMMA WorkerInvStep ==
    ASSUME TypeOK, NEW w \in Worker, WorkerInv(w), WorkerStep(w)
    PROVE  WorkerInv(w)'
  <1> USE DEF Goto, coordVars, workerVars, Mapping, Reducing, Executing, Live
  <1>0. /\ pc \in [Worker -> Live \union {"crashed", "exited"}]
        /\ task \in [Worker -> Task \union {0}]
        /\ names \in [Worker -> SUBSET MapTask]
        /\ todo \in [Worker -> SUBSET Nat]
    BY Zenon DEF TypeOK
  <1>1. CASE GetTask(w) /\ (phase = "done" \/ PendingTasks = {})
    BY Zenon, <1>0, <1>1 DEF WorkerInv, GetTask
  <1>2. CASE GetTask(w) /\ phase # "done" /\ PendingTasks # {}
    <2>1. findPendingTask \in MapTask \union ReduceTask
      BY Zenon, <1>2, Pending
    <2>2. pc[w] = "idle" /\ UNCHANGED <<names, todo>> /\ HandTask(w, findPendingTask)
      BY Zenon, <1>2 DEF GetTask
    <2>3. findPendingTask # 0
      BY Zenon, <2>1, Numbers
    <2> QED
      BY Zenon, <1>0, <2>1, <2>2, <2>3 DEF WorkerInv, HandTask
  <1>3. CASE UpdateTask(w)
    BY Zenon, <1>0, <1>3 DEF WorkerInv, UpdateTask, markAsDone
  <1>4. CASE mapfn(w)
    BY Zenon, <1>0, <1>4 DEF WorkerInv, mapfn
  <1>5. ASSUME NEW r \in Bucket, writeBucketsToDisk(w, r)
        PROVE  WorkerInv(w)'
    BY Zenon, <1>0, <1>5 DEF WorkerInv, writeBucketsToDisk
  <1>6. CASE Glob(w)
    BY Zenon, <1>0, <1>6 DEF WorkerInv, Glob
  <1>7. CASE readReduceInputFiles(w)
    BY <1>0, <1>7, NextFile DEF WorkerInv, readReduceInputFiles
  <1>8. CASE reducefn(w)
    BY Zenon, <1>0, <1>8 DEF WorkerInv, reducefn
  <1>9. CASE deleteIntermediateFiles(w)
    BY Zenon, <1>0, <1>9, NextFile DEF WorkerInv, deleteIntermediateFiles
  <1>10. CASE callFails(w) \/ Crash(w)
    BY Zenon, <1>0, <1>10 DEF WorkerInv, callFails, Crash, Stop
  <1>11. CASE Hang(w)
    BY Zenon, <1>0, <1>11 DEF WorkerInv, Hang
  <1> QED
    BY Zenon, <1>1, <1>2, <1>3, <1>4, <1>5, <1>6, <1>7, <1>8, <1>9, <1>10, <1>11
       DEF WorkerStep, Run

(* A bucket disappears, and an output appears, only when it is written. *)
LEMMA FilesGrow ==
    ASSUME TypeOK, NEW w \in Worker, WorkerInv(w), FilesInv(w), WorkerStep(w),
           NEW r \in Bucket
    PROVE  /\ out'[r] = NoOutput => out[r] = NoOutput
           /\ out[r] = NoOutput /\ out'[r] = NoOutput =>
                \A m \in MapTask : <<m, r>> \in interm => <<m, r>> \in interm'
  <1> USE DEF fileVars
  <1>1. CASE GetTask(w) \/ UpdateTask(w) \/ mapfn(w) \/ Glob(w)
    BY Zenon, <1>1 DEF GetTask, UpdateTask, mapfn, Glob
  <1>2. CASE readReduceInputFiles(w)
    BY Zenon, <1>2 DEF readReduceInputFiles
  <1>3. ASSUME NEW q \in Bucket, writeBucketsToDisk(w, q)
        PROVE  interm \subseteq interm' /\ out' = out
    BY Zenon, <1>3 DEF writeBucketsToDisk, writeFile
  <1>4. CASE reducefn(w)
    <2>1. names[w] # NoOutput /\ out \in [Bucket -> {NoOutput} \union SUBSET MapTask]
      BY Zenon, Numbers DEF TypeOK
    <2>2. interm' = interm /\ out' = [out EXCEPT ![Idx(task[w])] = names[w]]
      BY Zenon, <1>4 DEF reducefn
    <2> QED
      BY Zenon, <2>1, <2>2
  <1>5. CASE deleteIntermediateFiles(w)
    <2>1. out[Idx(task[w])] # NoOutput /\ out' = out
      BY Zenon, <1>5 DEF deleteIntermediateFiles, FilesInv
    <2>2. interm' = interm \ {<<Min(todo[w]), Idx(task[w])>>}
      BY Zenon, <1>5 DEF deleteIntermediateFiles
    <2> QED
      BY Zenon, <2>1, <2>2
  <1>6. CASE callFails(w) \/ Crash(w) \/ Hang(w)
    BY Zenon, <1>6 DEF callFails, Crash, Hang, Stop
  <1> QED
    BY Zenon, <1>1, <1>2, <1>3, <1>4, <1>5, <1>6 DEF WorkerStep, Run

LEMMA FilesOfOthers ==
    ASSUME BaseInv, NEW w \in Worker, WorkerStep(w), NEW x \in Worker, x # w
    PROVE  FilesInv(x)'
  <1>1. /\ pc'[x] = pc[x] /\ task'[x] = task[x] /\ todo'[x] = todo[x]
    BY Zenon, Others DEF BaseInv
  <1>2. \A r \in Bucket :
           /\ out'[r] = NoOutput => out[r] = NoOutput
           /\ out[r] = NoOutput /\ out'[r] = NoOutput =>
                \A m \in MapTask : <<m, r>> \in interm => <<m, r>> \in interm'
    BY Zenon, FilesGrow DEF BaseInv
  <1>3. FilesInv(x) /\ WorkerInv(x)
    BY Zenon DEF BaseInv
  <1>4. pc[x] = "delete" => task[x] \in ReduceTask
    BY Zenon, <1>3 DEF WorkerInv, Reducing
  <1>5. pc[x] = "delete" => Idx(task[x]) \in Bucket
    BY Zenon, <1>4, Numbers
  <1>6. pc[x] = "write" => task[x] \in MapTask
    BY Zenon, <1>3 DEF WorkerInv, Mapping
  <1> QED
    BY Zenon, <1>1, <1>2, <1>3, <1>5, <1>6 DEF FilesInv

LEMMA FilesOfWorker ==
    ASSUME BaseInv, NEW w \in Worker, WorkerStep(w)
    PROVE  FilesInv(w)'
  <1> USE DEF Goto, coordVars, fileVars, workerVars
  <1>0. /\ pc \in [Worker -> Live \union {"crashed", "exited"}]
        /\ task \in [Worker -> Task \union {0}]
        /\ todo \in [Worker -> SUBSET Nat]
        /\ out \in [Bucket -> {NoOutput} \union SUBSET MapTask]
    BY Zenon DEF BaseInv, TypeOK
  <1>w. WorkerInv(w) /\ FilesInv(w)
    BY Zenon DEF BaseInv
  <1>1. CASE GetTask(w)
    <2>1. pc'[w] \in {"idle", "exited", "mapfn", "glob"}
      BY Zenon, <1>0, <1>1 DEF GetTask, HandTask
    <2> QED
      BY Zenon, <2>1 DEF FilesInv
  <1>2. CASE UpdateTask(w) \/ callFails(w) \/ Crash(w) \/ Hang(w)
    <2>1. pc'[w] \in {"idle", "exited", "crashed", "hung"}
      BY Zenon, <1>0, <1>2 DEF UpdateTask, markAsDone, callFails, Crash, Hang, Stop
    <2> QED
      BY Zenon, <2>1 DEF FilesInv
  <1>3. CASE mapfn(w)
    <2>1. pc'[w] = "write" /\ todo'[w] = Bucket
      BY Zenon, <1>0, <1>3 DEF mapfn
    <2> QED
      BY Zenon, <2>1 DEF FilesInv
  <1>4. ASSUME NEW r \in Bucket, writeBucketsToDisk(w, r)
        PROVE  FilesInv(w)'
    <2>1. /\ pc[w] = "write" /\ r \in todo[w]
          /\ task' = task /\ out' = out
          /\ interm' = interm \union {<<task[w], r>>}
          /\ todo'[w] = todo[w] \ {r}
      BY Zenon, <1>0, <1>4 DEF writeBucketsToDisk, writeFile
    <2>2. pc'[w] = IF todo[w] = {r} THEN "mark" ELSE "write"
      BY Zenon, <1>0, <1>4 DEF writeBucketsToDisk
    <2>3. \A q \in Bucket \ todo'[w] : out[q] = NoOutput => <<task[w], q>> \in interm'
      BY Zenon, <1>w, <2>1 DEF FilesInv
    <2> QED
      BY Zenon, <2>1, <2>2, <2>3 DEF FilesInv
  <1>5. CASE Glob(w)
    <2>1. pc'[w] \in {"read", "reducefn"}
      BY Zenon, <1>0, <1>5 DEF Glob
    <2> QED
      BY Zenon, <2>1 DEF FilesInv
  <1>6. CASE readReduceInputFiles(w)
    <2>1. pc'[w] \in {"mark", "read", "reducefn"} /\ task'[w] = task[w]
      BY Zenon, <1>0, <1>6 DEF readReduceInputFiles
    <2>2. task[w] \notin MapTask
      BY Zenon, <1>6, <1>w, NextFile, Numbers DEF readReduceInputFiles, BaseInv
    <2> QED
      BY Zenon, <2>1, <2>2 DEF FilesInv
  <1>7. CASE reducefn(w)
    <2>1. pc'[w] \in {"mark", "delete"} /\ task'[w] = task[w]
      BY Zenon, <1>0, <1>7 DEF reducefn
    <2>2. task[w] \in ReduceTask
      BY Zenon, <1>7, <1>w DEF reducefn, WorkerInv, Reducing
    <2>3. task[w] \notin MapTask /\ Idx(task[w]) \in Bucket
      BY Zenon, <2>2, Numbers
    <2>4. names[w] # NoOutput
      BY Zenon, Numbers DEF BaseInv, TypeOK
    <2>5. out'[Idx(task[w])] = names[w]
      BY Zenon, <1>0, <1>7, <2>3 DEF reducefn
    <2> QED
      BY Zenon, <2>1, <2>3, <2>4, <2>5 DEF FilesInv
  <1>8. CASE deleteIntermediateFiles(w)
    <2>1. pc'[w] \in {"mark", "delete"} /\ task'[w] = task[w] /\ out' = out
      BY Zenon, <1>0, <1>8 DEF deleteIntermediateFiles
    <2>2. task[w] \notin MapTask
      BY Zenon, <1>8, <1>w, NextFile, Numbers DEF deleteIntermediateFiles, BaseInv
    <2>3. out[Idx(task[w])] # NoOutput
      BY Zenon, <1>8, <1>w DEF deleteIntermediateFiles, FilesInv
    <2> QED
      BY Zenon, <2>1, <2>2, <2>3 DEF FilesInv
  <1> QED
    BY Zenon, <1>1, <1>2, <1>3, <1>4, <1>5, <1>6, <1>7, <1>8 DEF WorkerStep, Run

(* Only a worker that is marking its task makes a task done. *)
LEMMA StatusStep ==
    ASSUME TypeOK, NEW w \in Worker, WorkerInv(w), WorkerStep(w), NEW t \in Task
    PROVE  /\ status[t] = "done" => status'[t] = "done"
           /\ status'[t] = "done" => status[t] = "done" \/ (pc[w] = "mark" /\ task[w] = t)
  <1> USE DEF coordVars
  <1>0. status \in [Task -> {"pending", "ongoing", "done"}]
    BY Zenon DEF TypeOK
  <1>1. CASE GetTask(w) /\ (phase = "done" \/ PendingTasks = {})
    BY Zenon, <1>1 DEF GetTask
  <1>2. CASE GetTask(w) /\ phase # "done" /\ PendingTasks # {}
    <2>1. findPendingTask \in Task /\ status[findPendingTask] = "pending"
      BY Zenon, <1>2, Pending
    <2>2. status' = [status EXCEPT ![findPendingTask] = "ongoing"]
      BY Zenon, <1>2 DEF GetTask, HandTask
    <2> QED
      BY Zenon, <1>0, <2>1, <2>2
  <1>3. CASE UpdateTask(w)
    <2>1. pc[w] = "mark" /\ status' = [status EXCEPT ![task[w]] = "done"]
      BY Zenon, <1>3 DEF UpdateTask, markAsDone
    <2> QED
      BY Zenon, <1>0, <2>1
  <1>4. CASE mapfn(w) \/ Glob(w) \/ readReduceInputFiles(w) \/ reducefn(w)
    BY Zenon, <1>4 DEF mapfn, Glob, readReduceInputFiles, reducefn
  <1>5. ASSUME NEW r \in Bucket, writeBucketsToDisk(w, r)
        PROVE  status' = status
    BY Zenon, <1>5 DEF writeBucketsToDisk
  <1>6. CASE deleteIntermediateFiles(w) \/ callFails(w) \/ Crash(w) \/ Hang(w)
    BY Zenon, <1>6 DEF deleteIntermediateFiles, callFails, Crash, Hang, Stop
  <1> QED
    BY Zenon, <1>1, <1>2, <1>3, <1>4, <1>5, <1>6 DEF WorkerStep, Run

LEMMA DoneMapsStep ==
    ASSUME BaseInv, NEW w \in Worker, WorkerStep(w)
    PROVE  DoneMapsWritten'
  <1>1. SUFFICES ASSUME NEW m \in MapTask, NEW r \in Bucket,
                        status'[m] = "done", out'[r] = NoOutput
                 PROVE  <<m, r>> \in interm'
    BY Zenon DEF DoneMapsWritten
  <1>2. TypeOK /\ WorkerInv(w) /\ FilesInv(w) /\ m \in Task
    BY Zenon, Numbers DEF BaseInv
  <1>3. status[m] = "done" \/ (pc[w] = "mark" /\ task[w] = m)
    BY Zenon, <1>1, <1>2, StatusStep
  <1>4. /\ out[r] = NoOutput
        /\ <<m, r>> \in interm => <<m, r>> \in interm'
    BY Zenon, <1>1, <1>2, FilesGrow
  <1>5. <<m, r>> \in interm
    BY Zenon, <1>2, <1>3, <1>4 DEF FilesInv, BaseInv, DoneMapsWritten
  <1> QED
    BY Zenon, <1>4, <1>5

-----------------------------------------------------------------------------
(* The phase follows the tasks. *)
LEMMA PhaseSame ==
    ASSUME PhaseInv, UNCHANGED <<phase, booted, status, gone>>
    PROVE  PhaseInv'
  BY Zenon DEF PhaseInv, AllDone

LEMMA PhaseOfWorker ==
    ASSUME BaseInv, NEW w \in Worker, WorkerStep(w)
    PROVE  PhaseInv'
  <1> USE DEF coordVars, AllDone
  <1>0. /\ status \in [Task -> {"pending", "ongoing", "done"}]
        /\ PhaseInv /\ TypeOK /\ WorkerInv(w)
    BY Zenon DEF BaseInv, TypeOK
  <1>1. CASE GetTask(w) /\ (phase = "done" \/ PendingTasks = {})
    BY Zenon, <1>0, <1>1, PhaseSame DEF GetTask
  <1>2. CASE GetTask(w) /\ phase # "done" /\ PendingTasks # {}
    <2>1. /\ findPendingTask \in Task
          /\ phase = "reduce" => findPendingTask \notin MapTask
      BY Zenon, <1>0, <1>2, Pending, Numbers
    <2>2. /\ status' = [status EXCEPT ![findPendingTask] = "ongoing"]
          /\ UNCHANGED <<phase, booted, gone>>
          /\ booted \/ EarlyWorkers
      BY Zenon, <1>2 DEF GetTask, HandTask, Serving
    <2>3. status'[findPendingTask] = "ongoing"
      BY Zenon, <1>0, <2>1, <2>2
    <2>4. phase = "reduce" => \A t \in MapTask : status'[t] = status[t]
      BY Zenon, <1>0, <2>1, <2>2, Numbers
    <2> QED
      BY Zenon, <1>0, <1>2, <2>1, <2>2, <2>3, <2>4 DEF PhaseInv
  <1>3. CASE UpdateTask(w)
    <2>1. /\ phase' = PhaseOf(status')
          /\ UNCHANGED <<booted, gone>>
          /\ ~gone /\ (booted \/ EarlyWorkers)
      BY Zenon, <1>3 DEF UpdateTask, Serving
    <2>2. \A t \in Task : status[t] = "done" => status'[t] = "done"
      BY Zenon, <1>0, StatusStep
    <2>3. Task = MapTask \union ReduceTask
      BY Zenon, Numbers
    <2>4. CASE ~AllDone(status', MapTask)
      BY Zenon, <1>0, <2>1, <2>2, <2>3, <2>4 DEF PhaseInv, PhaseOf
    <2>5. CASE AllDone(status', MapTask)
      BY Zenon, <2>1, <2>3, <2>5 DEF PhaseInv, PhaseOf
    <2> QED
      BY Zenon, <2>4, <2>5
  <1>4. CASE mapfn(w) \/ Glob(w) \/ readReduceInputFiles(w) \/ reducefn(w)
    BY Zenon, <1>0, <1>4, PhaseSame DEF mapfn, Glob, readReduceInputFiles, reducefn
  <1>5. ASSUME NEW r \in Bucket, writeBucketsToDisk(w, r)
        PROVE  PhaseInv'
    BY Zenon, <1>0, <1>5, PhaseSame DEF writeBucketsToDisk
  <1>6. CASE deleteIntermediateFiles(w) \/ callFails(w) \/ Crash(w) \/ Hang(w)
    BY Zenon, <1>0, <1>6, PhaseSame DEF deleteIntermediateFiles, callFails, Crash, Hang, Stop
  <1> QED
    BY Zenon, <1>1, <1>2, <1>3, <1>4, <1>5, <1>6 DEF WorkerStep, Run

(* Steps that touch neither workers nor files. *)
CoordStep == MakeCoordinator \/ Tick \/ Done \/ \E t \in Task : checkTask(t)

LEMMA PhaseOfCoordinator ==
    ASSUME BaseInv, CoordStep
    PROVE  PhaseInv'
  <1> USE DEF coordVars, AllDone
  <1>0. /\ status \in [Task -> {"pending", "ongoing", "done"}] /\ PhaseInv
    BY Zenon DEF BaseInv, TypeOK
  <1>1. CASE MakeCoordinator
    <2>1. PICK m \in Task : TRUE
      BY Zenon, Numbers
    <2> QED
      BY Zenon, <1>0, <1>1, <2>1 DEF PhaseInv, MakeCoordinator
  <1>2. CASE Tick
    BY Zenon, <1>0, <1>2, PhaseSame DEF Tick
  <1>3. CASE Done
    BY Zenon, <1>0, <1>3 DEF PhaseInv, Done
  <1>4. ASSUME NEW t \in Task, checkTask(t)
        PROVE  PhaseInv'
    <2>1. /\ status[t] = "ongoing" /\ ~gone
          /\ status' = [status EXCEPT ![t] = "pending"]
          /\ UNCHANGED <<phase, booted, gone>>
      BY Zenon, <1>4 DEF checkTask
    <2>2. phase # "done"
      BY Zenon, <1>0, <2>1 DEF PhaseInv
    <2>3. phase = "reduce" => t \notin MapTask
      BY Zenon, <1>0, <2>1 DEF PhaseInv
    <2>4. status'[t] = "pending"
      BY Zenon, <1>0, <2>1
    <2>5. phase = "reduce" => \A u \in MapTask : status'[u] = status[u]
      BY Zenon, <1>0, <2>1, <2>3, Numbers
    <2>6. ~booted /\ ~EarlyWorkers => FALSE
      BY Zenon, <1>0, <2>1 DEF PhaseInv
    <2> QED
      BY Zenon, <1>0, <2>1, <2>2, <2>4, <2>5, <2>6 DEF PhaseInv
  <1> QED
    BY Zenon, <1>1, <1>2, <1>3, <1>4 DEF CoordStep

LEMMA FilesUntouched ==
    ASSUME BaseInv, UNCHANGED <<workerVars, fileVars>>,
           \A t \in Task : status'[t] = "done" => status[t] = "done"
    PROVE  /\ DoneMapsWritten'
           /\ \A w \in Worker : WorkerInv(w)' /\ FilesInv(w)'
  <1>1. DoneMapsWritten'
    BY Zenon, Numbers DEF BaseInv, DoneMapsWritten, fileVars
  <1>2. ASSUME NEW w \in Worker
        PROVE  WorkerInv(w)' /\ FilesInv(w)'
    <2>1. WorkerInv(w) /\ FilesInv(w)
      BY Zenon DEF BaseInv
    <2>2. UNCHANGED <<pc, task, names, todo, interm, out>>
      BY Zenon DEF workerVars, fileVars
    <2>3. WorkerInv(w)'
      BY Zenon, <2>1, <2>2 DEF WorkerInv
    <2>4. FilesInv(w)'
      BY Zenon, <2>1, <2>2 DEF FilesInv
    <2> QED
      BY Zenon, <2>3, <2>4
  <1> QED
    BY Zenon, <1>1, <1>2

LEMMA BaseInvInit == Init => BaseInv
  <1> SUFFICES ASSUME Init PROVE BaseInv
    BY Zenon
  <1>1. TypeOK
    <2>1. \A r \in Bucket : NoOutput \in {NoOutput} \union SUBSET MapTask
      BY Zenon
    <2>2. 0 \in 0..2
      OBVIOUS
    <2> QED
      BY Zenon, <2>1, <2>2 DEF Init, TypeOK, Live
  <1>2. PhaseInv
    <2>1. PICK m \in Task : TRUE
      BY Zenon, Numbers
    <2> QED
      BY Zenon, <2>1 DEF Init, PhaseInv, AllDone
  <1>3. DoneMapsWritten
    BY Zenon, Numbers DEF Init, DoneMapsWritten
  <1>4. ASSUME NEW w \in Worker
        PROVE  WorkerInv(w) /\ FilesInv(w)
    BY Zenon DEF Init, WorkerInv, FilesInv, Mapping, Reducing, Executing
  <1> QED
    BY Zenon, <1>1, <1>2, <1>3, <1>4 DEF BaseInv

LEMMA BaseInvStep == BaseInv /\ [Next]_vars => BaseInv'
  <1> SUFFICES ASSUME BaseInv, [Next]_vars PROVE BaseInv'
    BY Zenon
  <1>1. ASSUME NEW w \in Worker, WorkerStep(w)
        PROVE  BaseInv'
    <2>1. TypeOK'
      BY Zenon, <1>1, WorkerTypes DEF BaseInv, WorkerStep
    <2>2. ASSUME NEW x \in Worker
          PROVE  WorkerInv(x)' /\ FilesInv(x)'
      <3>1. CASE x = w
        BY Zenon, <1>1, <3>1, WorkerInvStep, FilesOfWorker DEF BaseInv
      <3>2. CASE x # w
        <4>1. /\ pc'[x] = pc[x] /\ task'[x] = task[x]
              /\ names'[x] = names[x] /\ todo'[x] = todo[x]
          BY Zenon, <1>1, <3>2, Others DEF BaseInv
        <4>2. WorkerInv(x)'
          BY Zenon, <4>1 DEF BaseInv, WorkerInv
        <4> QED
          BY Zenon, <1>1, <3>2, <4>2, FilesOfOthers
      <3> QED
        BY Zenon, <3>1, <3>2
    <2> QED
      BY Zenon, <1>1, <2>1, <2>2, DoneMapsStep, PhaseOfWorker DEF BaseInv
  <1>2. CASE CoordStep
    <2>1. UNCHANGED <<workerVars, fileVars>>
      BY Zenon, <1>2 DEF CoordStep, MakeCoordinator, Tick, Done, checkTask
    <2>2. \A t \in Task : status'[t] = "done" => status[t] = "done"
      <3>1. CASE MakeCoordinator \/ Tick \/ Done
        BY Zenon, <3>1 DEF MakeCoordinator, Tick, Done, coordVars
      <3>2. CASE \E t \in Task : checkTask(t)
        BY Zenon, <3>2 DEF checkTask, BaseInv, TypeOK
      <3> QED
        BY Zenon, <1>2, <3>1, <3>2 DEF CoordStep
    <2>3. TypeOK'
      BY Zenon, <1>2, CoordinatorTypes DEF CoordStep, BaseInv
    <2> QED
      BY Zenon, <1>2, <2>1, <2>2, <2>3, FilesUntouched, PhaseOfCoordinator DEF BaseInv
  <1>3. ASSUME NEW w \in Worker, Ping(w)
        PROVE  BaseInv'
    <2>1. UNCHANGED <<phase, booted, status, workerVars, fileVars, gone>>
      BY Zenon, <1>3 DEF Ping
    <2>2. TypeOK'
      BY Zenon, <1>3, WorkerTypes DEF BaseInv
    <2> QED
      BY Zenon, <2>1, <2>2, FilesUntouched, PhaseSame DEF BaseInv
  <1>4. CASE UNCHANGED vars
    <2>1. UNCHANGED <<phase, booted, status, gone>> /\ UNCHANGED <<workerVars, fileVars>>
      BY Zenon, <1>4 DEF vars, coordVars
    <2>2. TypeOK'
      BY Zenon, <1>4 DEF BaseInv, TypeOK, vars, coordVars, workerVars, fileVars
    <2> QED
      BY Zenon, <2>1, <2>2, FilesUntouched, PhaseSame DEF BaseInv
  <1> QED
    BY Zenon, <1>1, <1>2, <1>3, <1>4 DEF Next, CoordStep, WorkerStep, Finished

(***************************************************************************)
(* Tasks, phase and files agree in every reachable state, whatever the     *)
(* workers do: crash anywhere, stall, hang or call early.                  *)
(***************************************************************************)
THEOREM BaseInvHolds == Spec => []BaseInv
  BY BaseInvInit, BaseInvStep, PTL DEF Spec

(***************************************************************************)
(* The phase agrees with the tasks, also when UpdateTask is called for a   *)
(* task that was given to another worker, provided that no worker calls    *)
(* before MakeCoordinator has set the phase.                               *)
(***************************************************************************)
THEOREM PhaseMatchesTasksHolds ==
    ASSUME ~EarlyWorkers
    PROVE  Spec => []PhaseMatchesTasks
  <1>1. BaseInv => PhaseMatchesTasks
    BY Zenon DEF BaseInv, PhaseInv, PhaseMatchesTasks, AllDone
  <1> QED
    BY <1>1, BaseInvHolds, PTL

(***************************************************************************)
(* No worker, however it fails, loses the bucket of a done map that a      *)
(* reduce still has to read.                                               *)
(***************************************************************************)
THEOREM BucketsKeptHolds == Spec => []BucketsKept
  <1>1. BaseInv => BucketsKept
    BY Zenon, Numbers DEF BaseInv, DoneMapsWritten, BucketsKept
  <1> QED
    BY <1>1, BaseInvHolds, PTL

(* No step takes back a task that is done. *)
LEMMA DoneStep ==
    ASSUME BaseInv, [Next]_vars, NEW t \in Task, status[t] = "done"
    PROVE  status'[t] = "done"
  <1>1. ASSUME NEW w \in Worker, WorkerStep(w)
        PROVE  status'[t] = "done"
    BY Zenon, <1>1, StatusStep DEF BaseInv
  <1>2. ASSUME NEW u \in Task, checkTask(u)
        PROVE  status'[t] = "done"
    BY Zenon, <1>2 DEF checkTask, BaseInv, TypeOK
  <1>3. CASE MakeCoordinator \/ Tick \/ Done \/ UNCHANGED vars \/ \E w \in Worker : Ping(w)
    BY Zenon, <1>3 DEF MakeCoordinator, Tick, Done, Ping, vars, coordVars
  <1> QED
    BY Zenon, <1>1, <1>2, <1>3 DEF Next, WorkerStep, Finished

(***************************************************************************)
(* checkTask, a late answer or a second execution never takes back a task  *)
(* that is done.                                                           *)
(***************************************************************************)
THEOREM DoneStaysHolds == Spec => DoneStays
  <1>1. BaseInv /\ [Next]_vars => [\A t \in Task : status[t] = "done" => status'[t] = "done"]_vars
    BY Zenon, DoneStep
  <1> QED
    BY <1>1, BaseInvHolds, PTL DEF Spec, DoneStays

-----------------------------------------------------------------------------
(***************************************************************************)
(* From here on workers crash only where mrapps/crash.go makes them, and   *)
(* ping in time.                                                           *)
(***************************************************************************)
Careful == ~CrashAnywhere /\ ~Stalls

LEMMA OneOwner ==
    ASSUME BaseInv, NEW w \in Worker, NEW x \in Worker, Owns(w), Owns(x),
           pc[w] \in Executing, pc[x] \in Executing, task[w] = task[x]
    PROVE  w = x
  BY Zenon DEF Owns

(* Nobody but its executor is between the output and the answer of a reduce. *)
LEMMA FilesThere ==
    ASSUME OwnerInv, NEW w \in Worker, pc[w] \in {"glob", "read", "reducefn"}
    PROVE  /\ task[w] \in ReduceTask
           /\ out[Idx(task[w])] = NoOutput
           /\ \A m \in MapTask : <<m, Idx(task[w])>> \in interm
  <1>1. /\ task[w] \in ReduceTask
        /\ pc[w] \in Executing
    BY Zenon DEF OwnerInv, BaseInv, WorkerInv, Reducing, Executing, Live
  <1>2. status[task[w]] = "ongoing"
    BY Zenon, <1>1 DEF OwnerInv, Owns
  <1>3. ASSUME NEW x \in Worker, task[x] = task[w], pc[x] \in Written
        PROVE  FALSE
    <2>1. x = w
      BY Zenon, <1>1, <1>3, OneOwner DEF OwnerInv, Written, Executing, Live
    <2> QED
      BY Zenon, <1>3, <2>1 DEF Written
  <1>4. ~Finishing(task[w])
    BY Zenon, <1>2, <1>3 DEF Finishing
  <1>5. out[Idx(task[w])] = NoOutput
    BY Zenon, <1>1, <1>4 DEF OwnerInv, WrittenOnce
  <1>6. Idx(task[w]) \in Bucket
    BY Zenon, <1>1, Numbers
  <1>7. \A m \in MapTask : status[m] = "done"
    BY Zenon, <1>1 DEF OwnerInv, ReducesAfterMaps, AllDone
  <1> QED
    BY Zenon, <1>1, <1>5, <1>6, <1>7 DEF OwnerInv, BaseInv, DoneMapsWritten

(* The coordinator leaves when nobody executes a task any more. *)
LEMMA GoneIdle ==
    ASSUME OwnerInv, gone, NEW w \in Worker
    PROVE  pc[w] \notin Executing
  <1>1. \A t \in Task : status[t] = "done"
    BY Zenon DEF OwnerInv, BaseInv, PhaseInv, AllDone
  <1>2. pc[w] \in Executing => task[w] \in Task
    BY Zenon DEF OwnerInv, BaseInv, WorkerInv, TypeOK
  <1> QED
    BY Zenon, <1>1, <1>2 DEF OwnerInv, Owns

LEMMA OwnsSame ==
    ASSUME NEW x \in Worker, Owns(x),
           pc'[x] \in Executing => pc[x] \in Executing /\ task'[x] = task[x],
           UNCHANGED <<status, workerId, fresh>>, pinged' \subseteq pinged
    PROVE  Owns(x)'
  BY Zenon DEF Owns

LEMMA OwnsStep ==
    ASSUME OwnerInv, NEW w \in Worker, WorkerStep(w), NEW x \in Worker
    PROVE  Owns(x)'
  <1> USE DEF Goto, coordVars, workerVars, Executing, Live
  <1>0. /\ pc \in [Worker -> Live \union {"crashed", "exited"}]
        /\ task \in [Worker -> Task \union {0}]
        /\ status \in [Task -> {"pending", "ongoing", "done"}]
        /\ workerId \in [Task -> Worker \union {NoWorker}]
        /\ fresh \in [Task -> 0..2]
    BY Zenon DEF OwnerInv, BaseInv, TypeOK
  <1>i. Owns(x) /\ Owns(w) /\ TypeOK /\ BaseInv /\ WorkerInv(x) /\ WorkerInv(w)
    BY Zenon DEF OwnerInv, BaseInv
  <1>t. pc[x] \in Executing => task[x] \in Task
    BY Zenon, <1>i, <1>0 DEF WorkerInv
  <1>o. x # w => pc'[x] = pc[x] /\ task'[x] = task[x]
    BY Zenon, <1>i, Others
  <1>1. CASE GetTask(w) /\ (phase = "done" \/ PendingTasks = {})
    <2>1. pc'[x] \in Executing => pc[x] \in Executing /\ task'[x] = task[x]
      BY Zenon, <1>0, <1>1 DEF GetTask
    <2> QED
      BY Zenon, <1>1, <1>i, <2>1, OwnsSame DEF GetTask
  <1>2. CASE GetTask(w) /\ phase # "done" /\ PendingTasks # {}
    <2> DEFINE f == findPendingTask
    <2>1. f \in Task /\ status[f] = "pending"
      BY Zenon, <1>2, <1>i, Pending
    <2>2. HandTask(w, f) /\ pinged' = pinged
      BY Zenon, <1>2 DEF GetTask
    <2> HIDE DEF f
    <2>3. /\ status' = [status EXCEPT ![f] = "ongoing"]
          /\ workerId' = [workerId EXCEPT ![f] = w]
          /\ fresh' = [fresh EXCEPT ![f] = 2]
          /\ task'[w] = f
      BY Zenon, <1>0, <2>2 DEF HandTask
    <2>4. CASE x = w
      BY <1>0, <2>1, <2>3, <2>4 DEF Owns
    <2>5. CASE x # w
      <3>1. pc[x] \in Executing => task[x] # f
        BY Zenon, <1>i, <2>1 DEF Owns
      <3> QED
        BY Zenon, <1>0, <1>i, <1>o, <1>t, <2>2, <2>3, <2>5, <3>1 DEF Owns
    <2> QED
      BY Zenon, <2>4, <2>5
  <1>3. CASE UpdateTask(w)
    <2>1. /\ pc[w] = "mark" /\ pc'[w] = "idle"
          /\ status' = [status EXCEPT ![task[w]] = "done"]
          /\ UNCHANGED <<workerId, fresh, pinged>>
      BY Zenon, <1>0, <1>3 DEF UpdateTask, markAsDone
    <2>2. CASE x = w
      BY Zenon, <2>1, <2>2 DEF Owns
    <2>3. CASE x # w
      <3>1. pc[x] \in Executing => task[x] # task[w]
        BY Zenon, <1>i, <2>1, <2>3, OneOwner
      <3> QED
        BY Zenon, <1>0, <1>i, <1>o, <1>t, <2>1, <2>3, <3>1 DEF Owns
    <2> QED
      BY Zenon, <2>2, <2>3
  <1>4. CASE mapfn(w) \/ Glob(w) \/ readReduceInputFiles(w) \/ reducefn(w)
    <2>1. /\ pc[w] \in Executing /\ task' = task
          /\ UNCHANGED <<status, workerId, fresh, pinged>>
      BY Zenon, <1>4 DEF mapfn, Glob, readReduceInputFiles, reducefn
    <2> QED
      BY Zenon, <1>i, <1>o, <2>1, OwnsSame
  <1>5. ASSUME NEW r \in Bucket, writeBucketsToDisk(w, r)
        PROVE  Owns(x)'
    <2>1. /\ pc[w] \in Executing /\ task' = task
          /\ UNCHANGED <<status, workerId, fresh, pinged>>
      BY Zenon, <1>5 DEF writeBucketsToDisk
    <2> QED
      BY Zenon, <1>i, <1>o, <2>1, OwnsSame
  <1>6. CASE deleteIntermediateFiles(w) \/ Hang(w)
    <2>1. /\ pc[w] \in Executing /\ task' = task
          /\ UNCHANGED <<status, workerId, fresh, pinged>>
      BY Zenon, <1>6 DEF deleteIntermediateFiles, Hang
    <2> QED
      BY Zenon, <1>i, <1>o, <2>1, OwnsSame
  <1>7. CASE callFails(w) \/ Crash(w)
    <2>1. /\ pc'[w] \in {"crashed", "exited"} /\ pinged' \subseteq pinged
          /\ UNCHANGED <<status, workerId, fresh>>
      BY Zenon, <1>0, <1>7 DEF callFails, Crash, Stop
    <2> QED
      BY Zenon, <1>i, <1>o, <2>1, OwnsSame
  <1> QED
    BY Zenon, <1>1, <1>2, <1>3, <1>4, <1>5, <1>6, <1>7 DEF WorkerStep, Run

LEMMA ReducesAfterMapsStep ==
    ASSUME OwnerInv, NEW w \in Worker, WorkerStep(w), NEW x \in Worker
    PROVE  ReducesAfterMaps(x)'
  <1>i. BaseInv /\ TypeOK /\ WorkerInv(w) /\ ReducesAfterMaps(x)
    BY Zenon DEF OwnerInv, BaseInv
  <1>1. AllDone(status, MapTask) => AllDone(status', MapTask)
    BY Zenon, <1>i, StatusStep, Numbers DEF AllDone
  <1>2. CASE task'[x] \in {task[x], 0}
    BY Zenon, <1>i, <1>1, <1>2, Numbers DEF ReducesAfterMaps
  <1>3. CASE task'[x] \notin {task[x], 0}
    <2>1. x = w
      BY Zenon, <1>i, <1>3, Others
    <2>2. GetTask(w) /\ phase # "done" /\ PendingTasks # {}
      <3>1. task \in [Worker -> Task \union {0}]
        BY Zenon, <1>i DEF TypeOK
      <3>2. GetTask(w)
        BY Zenon, <1>3, <2>1, <3>1 DEF WorkerStep, Run, UpdateTask, markAsDone, mapfn,
           writeBucketsToDisk, Glob, readReduceInputFiles, reducefn,
           deleteIntermediateFiles, callFails, Crash, Hang, Stop
      <3> QED
        BY Zenon, <1>3, <2>1, <3>2 DEF GetTask
    <2>3. task' = [task EXCEPT ![w] = findPendingTask]
      BY Zenon, <2>2 DEF GetTask, HandTask
    <2>4. task'[x] = findPendingTask
      BY Zenon, <2>1, <2>3, <1>i DEF TypeOK
    <2>5. task'[x] \in ReduceTask => phase = "reduce"
      BY Zenon, <1>i, <2>2, <2>4, Pending, Numbers
    <2>6. phase = "reduce" => AllDone(status, MapTask)
      BY Zenon, <1>i DEF BaseInv, PhaseInv
    <2> QED
      BY Zenon, <1>1, <2>5, <2>6 DEF ReducesAfterMaps
  <1> QED
    BY Zenon, <1>2, <1>3

(* A reducer finds, and reads, the buckets of all the maps. *)
LEMMA ReadsAllStep ==
    ASSUME OwnerInv, NEW w \in Worker, WorkerStep(w)
    PROVE  ReadsAll(w)'
  <1> USE DEF Goto, coordVars, workerVars
  <1>0. /\ pc \in [Worker -> Live \union {"crashed", "exited"}]
        /\ names \in [Worker -> SUBSET MapTask]
    BY Zenon DEF OwnerInv, BaseInv, TypeOK
  <1>i. TypeOK /\ WorkerInv(w) /\ ReadsAll(w)
    BY Zenon DEF OwnerInv, BaseInv
  <1>1. CASE Glob(w)
    <2>1. {m \in MapTask : readFile(m, Idx(task[w]))} = MapTask
      BY Zenon, <1>1, FilesThere DEF Glob, readFile
    <2> QED
      BY Zenon, <1>0, <1>1, <2>1 DEF ReadsAll, Glob
  <1>2. CASE readReduceInputFiles(w)
    <2>1. readFile(Min(todo[w]), Idx(task[w]))
      BY Zenon, <1>2, <1>i, NextFile, FilesThere DEF readReduceInputFiles, readFile
    <2>2. pc[w] = "read" /\ names'[w] = names[w]
      BY Zenon, <1>0, <1>2, <2>1 DEF readReduceInputFiles
    <2> QED
      BY Zenon, <1>i, <2>2 DEF ReadsAll
  <1>3. CASE ~(Glob(w) \/ readReduceInputFiles(w))
    <2>1. CASE GetTask(w) \/ UpdateTask(w)
      <3>1. pc'[w] \notin {"read", "reducefn"}
        BY Zenon, <1>0, <2>1 DEF GetTask, HandTask, UpdateTask, markAsDone
      <3> QED
        BY Zenon, <3>1 DEF ReadsAll
    <2>2. ASSUME NEW r \in Bucket, writeBucketsToDisk(w, r)
          PROVE  ReadsAll(w)'
      <3>1. pc'[w] \notin {"read", "reducefn"}
        BY Zenon, <1>0, <2>2 DEF writeBucketsToDisk
      <3> QED
        BY Zenon, <3>1 DEF ReadsAll
    <2>3. CASE mapfn(w) \/ reducefn(w) \/ deleteIntermediateFiles(w)
      <3>1. pc'[w] \notin {"read", "reducefn"}
        BY Zenon, <1>0, <2>3 DEF mapfn, reducefn, deleteIntermediateFiles
      <3> QED
        BY Zenon, <3>1 DEF ReadsAll
    <2>4. CASE callFails(w) \/ Crash(w) \/ Hang(w)
      <3>1. pc'[w] \notin {"read", "reducefn"}
        BY Zenon, <1>0, <2>4 DEF callFails, Crash, Hang, Stop
      <3> QED
        BY Zenon, <3>1 DEF ReadsAll
    <2> QED
      BY Zenon, <1>3, <2>1, <2>2, <2>3, <2>4 DEF WorkerStep, Run
  <1> QED
    BY Zenon, <1>1, <1>2, <1>3

(* A step that changes neither an output nor who is finishing which reduce. *)
LEMMA WrittenSame ==
    ASSUME BaseInv, NEW w \in Worker, WorkerStep(w),
           NEW t \in ReduceTask, WrittenOnce(t), out'[Idx(t)] = out[Idx(t)],
           status'[t] = "done" <=> status[t] = "done",
           task'[w] = t /\ pc'[w] \in Written <=> task[w] = t /\ pc[w] \in Written
    PROVE  WrittenOnce(t)'
  <1>1. \A x \in Worker : x # w => pc'[x] = pc[x] /\ task'[x] = task[x]
    BY Zenon, Others DEF BaseInv
  <1>2. Finishing(t)' <=> Finishing(t)
    BY Zenon, <1>1 DEF Finishing
  <1> QED
    BY Zenon, <1>2 DEF WrittenOnce

LEMMA WrittenOnceStep ==
    ASSUME Careful, OwnerInv, NEW w \in Worker, WorkerStep(w), NEW t \in ReduceTask
    PROVE  WrittenOnce(t)'
  <1> USE DEF Goto, coordVars, fileVars, workerVars
  <1>0. /\ pc \in [Worker -> Live \union {"crashed", "exited"}]
        /\ task \in [Worker -> Task \union {0}]
        /\ out \in [Bucket -> {NoOutput} \union SUBSET MapTask]
    BY Zenon DEF OwnerInv, BaseInv, TypeOK
  <1>i. BaseInv /\ TypeOK /\ WorkerInv(w) /\ Owns(w) /\ WrittenOnce(t) /\ t \in Task /\ t # 0
    BY Zenon, Numbers DEF OwnerInv, BaseInv
  <1>s. status'[t] = "done" => status[t] = "done" \/ (pc[w] = "mark" /\ task[w] = t)
    BY Zenon, <1>i, StatusStep
  <1>d. status[t] = "done" => status'[t] = "done"
    BY Zenon, <1>i, StatusStep
  <1>1. CASE GetTask(w)
    <2>1. /\ pc[w] = "idle" /\ out' = out
          /\ pc'[w] \in {"idle", "exited", "mapfn", "glob"}
      BY Zenon, <1>0, <1>1 DEF GetTask, HandTask
    <2> QED
      BY Zenon, <1>i, <1>s, <1>d, <2>1, WrittenSame DEF Written
  <1>2. CASE UpdateTask(w)
    <2>1. /\ pc[w] = "mark" /\ pc'[w] = "idle" /\ out' = out
          /\ status' = [status EXCEPT ![task[w]] = "done"]
      BY Zenon, <1>0, <1>2 DEF UpdateTask, markAsDone
    <2>2. CASE task[w] = t
      <3>1. status'[t] = "done"
        BY Zenon, <1>i, <2>1, <2>2 DEF TypeOK
      <3>2. Finishing(t) /\ Finishing(t)'
        BY Zenon, <2>1, <2>2, <3>1 DEF Finishing, Written
      <3> QED
        BY Zenon, <1>i, <2>1, <3>2 DEF WrittenOnce
    <2>3. CASE task[w] # t
      BY Zenon, <1>i, <1>s, <1>d, <2>1, <2>3, WrittenSame DEF Written
    <2> QED
      BY Zenon, <2>2, <2>3
  <1>3. CASE mapfn(w) \/ Glob(w) \/ Hang(w)
    <2>1. /\ pc[w] \in {"mapfn", "glob", "reducefn"} /\ out' = out
          /\ pc'[w] \in {"write", "read", "reducefn", "hung"}
      BY Zenon, <1>0, <1>3 DEF mapfn, Glob, Hang
    <2> QED
      BY Zenon, <1>i, <1>s, <1>d, <2>1, WrittenSame DEF Written
  <1>4. CASE readReduceInputFiles(w)
    <2>1. readFile(Min(todo[w]), Idx(task[w]))
      BY Zenon, <1>4, <1>i, NextFile, FilesThere DEF readReduceInputFiles, readFile
    <2>2. pc[w] = "read" /\ out' = out /\ pc'[w] \in {"read", "reducefn"}
      BY Zenon, <1>0, <1>4, <2>1 DEF readReduceInputFiles
    <2> QED
      BY Zenon, <1>i, <1>s, <1>d, <2>2, WrittenSame DEF Written
  <1>5. ASSUME NEW r \in Bucket, writeBucketsToDisk(w, r)
        PROVE  WrittenOnce(t)'
    <2>1. pc[w] = "write" /\ out' = out /\ task' = task
      BY Zenon, <1>5 DEF writeBucketsToDisk
    <2>2. task[w] # t
      BY Zenon, <1>i, <2>1, Numbers DEF WorkerInv, Mapping
    <2> QED
      BY Zenon, <1>i, <1>s, <1>d, <2>1, <2>2, WrittenSame
  <1>6. CASE reducefn(w)
    <2>1. /\ pc[w] = "reducefn" /\ names[w] = MapTask /\ MapTask # {} /\ task[w] \in ReduceTask
      BY Zenon, <1>6, FilesThere, Numbers DEF reducefn, OwnerInv, ReadsAll
    <2>2. /\ pc'[w] = "delete" /\ task' = task
          /\ out' = [out EXCEPT ![Idx(task[w])] = MapTask]
      BY Zenon, <1>0, <1>6, <2>1 DEF reducefn
    <2>3. Idx(t) \in Bucket /\ (Idx(t) = Idx(task[w]) => t = task[w])
      BY Zenon, <2>1, Numbers
    <2>4. CASE task[w] = t
      <3>1. Finishing(t)'
        BY Zenon, <2>2, <2>4 DEF Finishing, Written
      <3>2. out'[Idx(t)] = MapTask
        BY Zenon, <1>0, <2>2, <2>3, <2>4
      <3> QED
        BY Zenon, <3>1, <3>2 DEF WrittenOnce
    <2>5. CASE task[w] # t
      <3>1. out'[Idx(t)] = out[Idx(t)]
        BY Zenon, <1>0, <2>2, <2>3, <2>5
      <3> QED
        BY Zenon, <1>i, <1>s, <1>d, <2>2, <2>5, <3>1, WrittenSame
    <2> QED
      BY Zenon, <2>4, <2>5
  <1>7. CASE deleteIntermediateFiles(w)
    <2>1. /\ pc[w] = "delete" /\ out' = out /\ task' = task
          /\ pc'[w] \in {"delete", "mark"}
          /\ status' = status
      BY Zenon, <1>0, <1>7 DEF deleteIntermediateFiles
    <2> QED
      BY Zenon, <1>i, <2>1, WrittenSame DEF Written
  <1>8. CASE callFails(w) \/ Crash(w)
    <2>1. pc[w] \notin Written
      <3>1. CASE callFails(w)
        BY Zenon, <3>1, GoneIdle DEF callFails, Written, Executing, Live
      <3>2. CASE Crash(w)
        BY Zenon, <3>2 DEF Crash, Careful, Written
      <3> QED
        BY Zenon, <1>8, <3>1, <3>2
    <2>2. pc'[w] \in {"crashed", "exited"} /\ out' = out /\ status' = status
      BY Zenon, <1>0, <1>8 DEF callFails, Crash, Stop
    <2> QED
      BY Zenon, <1>i, <2>1, <2>2, WrittenSame DEF Written
  <1> QED
    BY Zenon, <1>1, <1>2, <1>3, <1>4, <1>5, <1>6, <1>7, <1>8 DEF WorkerStep, Run

(* The other steps leave the workers and the files alone. *)
LEMMA OwnsTime ==
    ASSUME Careful, OwnerInv, NEW x \in Worker,
           CoordStep \/ \E w \in Worker : Ping(w)
    PROVE  Owns(x)'
  <1> USE DEF coordVars, workerVars
  <1>0. /\ status \in [Task -> {"pending", "ongoing", "done"}]
        /\ workerId \in [Task -> Worker \union {NoWorker}]
        /\ fresh \in [Task -> 0..2]
        /\ Owns(x)
    BY Zenon DEF OwnerInv, BaseInv, TypeOK
  <1>t. pc[x] \in Executing => task[x] \in Task
    BY Zenon DEF OwnerInv, BaseInv, WorkerInv, TypeOK
  <1>1. CASE MakeCoordinator \/ Done
    BY Zenon, <1>0, <1>1, OwnsSame DEF MakeCoordinator, Done
  <1>2. CASE Tick
    <2>1. /\ pinged' = {} /\ UNCHANGED <<status, workerId, pc, task>>
          /\ fresh' = [t \in Task |-> Aged(fresh[t])]
          /\ pc[x] \in Executing => x \in pinged
      BY Zenon, <1>2 DEF Tick, Careful, Executing
    <2>2. pc[x] \in Executing => fresh'[task[x]] = Aged(2)
      BY Zenon, <1>0, <1>t, <2>1 DEF Owns
    <2>3. Aged(2) # 0
      BY DEF Aged
    <2> QED
      BY Zenon, <1>0, <2>1, <2>2, <2>3 DEF Owns
  <1>3. ASSUME NEW t \in Task, checkTask(t)
        PROVE  Owns(x)'
    <2>1. /\ fresh[t] = 0 /\ UNCHANGED <<fresh, pinged, pc, task>>
          /\ status' = [status EXCEPT ![t] = "pending"]
          /\ workerId' = [workerId EXCEPT ![t] = NoWorker]
      BY Zenon, <1>3 DEF checkTask, Expired
    <2>2. pc[x] \in Executing => task[x] # t
      BY Zenon, <1>0, <2>1 DEF Owns
    <2> QED
      BY Zenon, <1>0, <1>t, <2>1, <2>2 DEF Owns
  <1>4. ASSUME NEW w \in Worker, Ping(w)
        PROVE  Owns(x)'
    <2>1. /\ pinged' = pinged \union {w} /\ UNCHANGED <<status, workerId, pc, task>>
          /\ fresh' = [t \in Task |-> IF workerId[t] = w THEN 2 ELSE fresh[t]]
      BY Zenon, <1>4 DEF Ping, Refreshes
    <2> QED
      BY <1>0, <1>t, <2>1 DEF Owns
  <1> QED
    BY Zenon, <1>1, <1>2, <1>3, <1>4 DEF CoordStep

LEMMA TasksUntouched ==
    ASSUME OwnerInv, UNCHANGED <<workerVars, fileVars>>,
           \A t \in Task : status'[t] = "done" <=> status[t] = "done"
    PROVE  /\ \A w \in Worker : ReducesAfterMaps(w)' /\ ReadsAll(w)'
           /\ \A t \in ReduceTask : WrittenOnce(t)'
  <1>0. UNCHANGED <<pc, task, names, out>>
    BY Zenon DEF workerVars, fileVars
  <1>1. \A w \in Worker : ReducesAfterMaps(w)'
    BY Zenon, <1>0, Numbers DEF OwnerInv, ReducesAfterMaps, AllDone
  <1>2. \A w \in Worker : ReadsAll(w)'
    BY Zenon, <1>0 DEF OwnerInv, ReadsAll
  <1>3. ASSUME NEW t \in ReduceTask
        PROVE  WrittenOnce(t)'
    <2>1. Finishing(t)' <=> Finishing(t)
      BY Zenon, <1>0, Numbers DEF Finishing
    <2> QED
      BY Zenon, <1>0, <2>1 DEF OwnerInv, WrittenOnce
  <1> QED
    BY Zenon, <1>1, <1>2, <1>3

LEMMA OwnerInvInit == Init => OwnerInv
  <1> SUFFICES ASSUME Init PROVE OwnerInv
    BY Zenon
  <1>1. \A w \in Worker : Owns(w) /\ ReadsAll(w)
    BY Zenon DEF Init, Owns, ReadsAll, Executing
  <1>2. \A w \in Worker : ReducesAfterMaps(w)
    BY Zenon, Numbers DEF Init, ReducesAfterMaps
  <1>3. ASSUME NEW t \in ReduceTask
        PROVE  WrittenOnce(t)
    <2>1. ~Finishing(t)
      BY Zenon, Numbers DEF Init, Finishing, Written
    <2>2. out[Idx(t)] = NoOutput
      BY Zenon, Numbers DEF Init
    <2> QED
      BY Zenon, <2>1, <2>2 DEF WrittenOnce
  <1> QED
    BY Zenon, <1>1, <1>2, <1>3, BaseInvInit DEF OwnerInv

LEMMA OwnerInvStep ==
    ASSUME Careful
    PROVE  OwnerInv /\ [Next]_vars => OwnerInv'
  <1> SUFFICES ASSUME OwnerInv, [Next]_vars PROVE OwnerInv'
    BY Zenon
  <1>b. BaseInv /\ BaseInv'
    BY Zenon, BaseInvStep DEF OwnerInv
  <1>1. ASSUME NEW w \in Worker, WorkerStep(w)
        PROVE  OwnerInv'
    <2>1. ASSUME NEW x \in Worker
          PROVE  Owns(x)' /\ ReducesAfterMaps(x)' /\ ReadsAll(x)'
      <3>1. CASE x = w
        BY Zenon, <1>1, <3>1, OwnsStep, ReducesAfterMapsStep, ReadsAllStep
      <3>2. CASE x # w
        <4>1. pc'[x] = pc[x] /\ names'[x] = names[x]
          BY Zenon, <1>1, <1>b, <3>2, Others DEF BaseInv
        <4>2. ReadsAll(x)'
          BY Zenon, <4>1 DEF OwnerInv, ReadsAll
        <4> QED
          BY Zenon, <1>1, <4>2, OwnsStep, ReducesAfterMapsStep
      <3> QED
        BY Zenon, <3>1, <3>2
    <2>2. \A t \in ReduceTask : WrittenOnce(t)'
      BY Zenon, <1>1, WrittenOnceStep
    <2> QED
      BY Zenon, <1>b, <2>1, <2>2 DEF OwnerInv
  <1>2. CASE CoordStep \/ \E w \in Worker : Ping(w)
    <2>1. UNCHANGED <<workerVars, fileVars>>
      BY Zenon, <1>2 DEF CoordStep, MakeCoordinator, Tick, Done, checkTask, Ping
    <2>2. \A t \in Task : status'[t] = "done" <=> status[t] = "done"
      <3>1. CASE MakeCoordinator \/ Tick \/ Done \/ \E w \in Worker : Ping(w)
        BY Zenon, <3>1 DEF MakeCoordinator, Tick, Done, Ping, coordVars
      <3>2. CASE \E t \in Task : checkTask(t)
        BY ZenonT(40), <1>b, <3>2 DEF checkTask, BaseInv, TypeOK
      <3> QED
        BY Zenon, <1>2, <3>1, <3>2 DEF CoordStep
    <2>3. \A x \in Worker : Owns(x)'
      BY Zenon, <1>2, OwnsTime
    <2> QED
      BY Zenon, <1>b, <2>1, <2>2, <2>3, TasksUntouched DEF OwnerInv
  <1>3. CASE UNCHANGED vars
    <2>1. UNCHANGED <<workerVars, fileVars>> /\ UNCHANGED <<pc, task, status, workerId, fresh, pinged>>
      BY Zenon, <1>3 DEF vars, coordVars, workerVars
    <2>2. \A x \in Worker : Owns(x)'
      BY Zenon, <2>1, OwnsSame DEF OwnerInv
    <2> QED
      BY Zenon, <1>b, <2>1, <2>2, TasksUntouched DEF OwnerInv
  <1> QED
    BY Zenon, <1>1, <1>2, <1>3 DEF Next, CoordStep, WorkerStep, Finished

(***************************************************************************)
(* Every task has one executor and every output file one writer, as long   *)
(* as workers crash only in the application's functions and ping in time.  *)
(***************************************************************************)
THEOREM OwnerInvHolds ==
    ASSUME ~CrashAnywhere, ~Stalls
    PROVE  Spec => []OwnerInv
  <1>1. OwnerInv /\ [Next]_vars => OwnerInv'
    BY Zenon, OwnerInvStep DEF Careful
  <1> QED
    BY <1>1, OwnerInvInit, PTL DEF Spec

(***************************************************************************)
(* A task that a worker is executing, or hangs in, is not given to another *)
(* one.                                                                    *)
(***************************************************************************)
THEOREM SoleExecutorHolds ==
    ASSUME ~CrashAnywhere, ~Stalls
    PROVE  Spec => []SoleExecutor
  <1>1. OwnerInv => SoleExecutor
    BY DEF OwnerInv, Owns, SoleExecutor
  <1> QED
    BY <1>1, OwnerInvHolds, PTL

(***************************************************************************)
(* Every reducer reads the buckets of all the maps, also after another one *)
(* crashed in the application's Reduce.                                    *)
(***************************************************************************)
THEOREM InputsCompleteHolds ==
    ASSUME ~CrashAnywhere, ~Stalls
    PROVE  Spec => []InputsComplete
  <1>1. OwnerInv => InputsComplete
    BY Zenon DEF OwnerInv, ReadsAll, InputsComplete
  <1> QED
    BY <1>1, OwnerInvHolds, PTL

(* The bucket of a key. *)
LEMMA BucketOf ==
    ASSUME NEW m \in MapTask, NEW k \in Emits[m]
    PROVE  \E b \in Bucket : \A r \in Bucket : ihash[k] % NReduce = r - 1 <=> r = b
  <1>1. ihash[k] \in Nat
    BY Zenon, EmitsAssumption
  <1>2. ihash[k] % NReduce \in 0..(NReduce - 1)
    BY <1>1, MapReduceAssumption
  <1> DEFINE b == (ihash[k] % NReduce) + 1
  <1>3. b \in Bucket
    BY <1>2, MapReduceAssumption DEF Bucket
  <1>4. \A r \in Bucket : ihash[k] % NReduce = r - 1 <=> r = b
    BY <1>2, MapReduceAssumption DEF Bucket
  <1> QED
    BY Zenon, <1>3, <1>4

(***************************************************************************)
(* The lines of outputs that were each made from all the maps are those of *)
(* the sequential program: ihash sends a key to one bucket, whichever map  *)
(* emits it.                                                               *)
(***************************************************************************)
AllLines(r) == reduceValuesByKey(groupValuesByKey(MapTask, r))

LEMMA LinesAreSequential == UNION {AllLines(r) : r \in Bucket} = Sequential
  <1>1. ASSUME NEW r \in Bucket, NEW l \in AllLines(r)
        PROVE  l \in Sequential
    <2>1. PICK k \in UNION {splitIntoBuckets(m, r) : m \in MapTask} :
             l = <<k, {m \in MapTask : k \in splitIntoBuckets(m, r)}>>
      BY Zenon, <1>1 DEF AllLines, reduceValuesByKey, groupValuesByKey
    <2>2. PICK n \in MapTask : k \in splitIntoBuckets(n, r)
      BY Zenon, <2>1
    <2>3. k \in Emits[n] /\ ihash[k] % NReduce = r - 1
      BY Zenon, <2>2 DEF splitIntoBuckets
    <2>4. {m \in MapTask : k \in splitIntoBuckets(m, r)} = {m \in MapTask : k \in Emits[m]}
      BY Zenon, <2>3 DEF splitIntoBuckets
    <2>5. k \in UNION {Emits[m] : m \in MapTask}
      BY Zenon, <2>3
    <2> QED
      BY Zenon, <2>1, <2>4, <2>5 DEF Sequential
  <1>2. ASSUME NEW l \in Sequential
        PROVE  \E r \in Bucket : l \in AllLines(r)
    <2>1. PICK k \in UNION {Emits[m] : m \in MapTask} :
             l = <<k, {m \in MapTask : k \in Emits[m]}>>
      BY Zenon, <1>2 DEF Sequential
    <2>2. PICK n \in MapTask : k \in Emits[n]
      BY Zenon, <2>1
    <2>3. PICK r \in Bucket : ihash[k] % NReduce = r - 1
      BY Zenon, <2>2, BucketOf
    <2>4. {m \in MapTask : k \in splitIntoBuckets(m, r)} = {m \in MapTask : k \in Emits[m]}
      BY Zenon, <2>3 DEF splitIntoBuckets
    <2>5. k \in UNION {splitIntoBuckets(m, r) : m \in MapTask}
      BY <2>2, <2>3 DEF splitIntoBuckets
    <2>6. l \in AllLines(r)
      BY Zenon, <2>1, <2>4, <2>5 DEF AllLines, reduceValuesByKey, groupValuesByKey
    <2> QED
      BY Zenon, <2>6
  <1> QED
    BY Zenon, <1>1, <1>2

(***************************************************************************)
(* When the job is done the output files hold what mrsequential.go writes, *)
(* for any inputs, whatever workers crashed on the way.                    *)
(***************************************************************************)
THEOREM OutputCompleteHolds ==
    ASSUME ~CrashAnywhere, ~Stalls
    PROVE  Spec => []OutputComplete
  <1>1. ASSUME OwnerInv, phase = "done"
        PROVE  UNION {Lines(r) : r \in Bucket} = Sequential
    <2>1. ASSUME NEW r \in Bucket
          PROVE  Lines(r) = AllLines(r)
      <3>1. PICK t \in ReduceTask : Idx(t) = r
        BY Zenon, Numbers
      <3>2. status[t] = "done"
        BY Zenon, <1>1, Numbers DEF OwnerInv, BaseInv, PhaseInv, AllDone
      <3>3. out[r] = MapTask
        BY Zenon, <1>1, <3>1, <3>2 DEF OwnerInv, WrittenOnce, Finishing
      <3> QED
        BY Zenon, <3>3, Numbers DEF Lines, AllLines
    <2>2. {Lines(r) : r \in Bucket} = {AllLines(r) : r \in Bucket}
      BY Zenon, <2>1
    <2> QED
      BY Zenon, <2>2, LinesAreSequential
  <1>2. OwnerInv => OutputComplete
    BY Zenon, <1>1 DEF OutputComplete
  <1> QED
    BY <1>2, OwnerInvHolds, PTL
=============================================================================
