----------------------------- MODULE Annotation -----------------------------
(* The continuous annotation of failures (src/tester1/annotation.go): what   *)
(* the visualization of a test says, from now on, about the servers of a     *)
(* group.  Its text is the set of partitions and the set of crashed servers  *)
(* it names.  Finished annotations, times, colours and the other tags, on    *)
(* which no decision depends, are left out.                                  *)
EXTENDS Integers, FiniteSets, Sequences, Functions

CONSTANT Srv        \* the servers, by number

VARIABLES
    finfo,          \* FrameworkInfo: the servers last heard of as connected, as crashed
    continuous      \* the on-going annotation with tag TAG_PARTITION, or NoFailure

NoFailure == [parts |-> {Srv}, crashed |-> {}, ongoing |-> FALSE]

Picture == [parts : SUBSET SUBSET Srv, crashed : SUBSET Srv, ongoing : BOOLEAN]

AnnotationTypeOK ==
    /\ finfo \in [connected : SUBSET Srv, crashed : SUBSET Srv]
    /\ continuous \in Picture

mkFrameworkInfo == [connected |-> Srv, crashed |-> {}]

AnnotationInit == finfo = mkFrameworkInfo /\ continuous = NoFailure

annotateContinuousColor(parts, crashed) ==
    continuous' = [parts |-> parts, crashed |-> crashed, ongoing |-> TRUE]

annotateContinuousEnd == continuous' = NoFailure

\* Mutant: only the connections decide whether a failure is over.
annotateFaultForConnections(f) ==
    LET alone == Srv \ (f.connected \cup f.crashed)
        conn == f.connected \ f.crashed
    IN  IF f.connected = Srv
        THEN annotateContinuousEnd
        ELSE annotateContinuousColor({{i} : i \in alone} \cup ({conn} \ {{}}), f.crashed)

\* Every disconnected server is alone, the connected ones are together and the
\* crashed ones are named apart.
annotateFault(f) ==
    LET alone == Srv \ (f.connected \cup f.crashed)
        conn == f.connected \ f.crashed
    IN  IF f = mkFrameworkInfo
        THEN annotateContinuousEnd
        ELSE annotateContinuousColor({{i} : i \in alone} \cup ({conn} \ {{}}), f.crashed)

AnnotateConnection(connection) ==
    IF finfo.connected = connection
    THEN UNCHANGED <<finfo, continuous>>
    ELSE /\ finfo' = [finfo EXCEPT !.connected = connection]
         /\ annotateFault(finfo')

AnnotateTwoPartitions(p1, p2) ==
    /\ annotateContinuousColor({Range(p1), Range(p2)} \ {{}}, {})
    /\ UNCHANGED finfo

AnnotateClearFailure ==
    /\ finfo' = mkFrameworkInfo
    /\ annotateContinuousEnd

AnnotateCrashes(crashed) ==
    IF finfo.crashed = crashed
    THEN UNCHANGED <<finfo, continuous>>
    ELSE /\ finfo' = [finfo EXCEPT !.crashed = crashed]
         /\ annotateFault(finfo')

AnnotateShutdown(servers) == AnnotateCrashes(finfo.crashed \cup servers)

AnnotateRestart(servers) == AnnotateCrashes(finfo.crashed \ servers)
=============================================================================
