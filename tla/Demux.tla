------------------------------- MODULE Demux --------------------------------
(* The demultiplexer (src/tester1/demux and src/tester1/sockrpc): many calls *)
(* share a connection and a tag matches each reply with its call.  A frame   *)
(* is <<connection, tag, call>>; its contents are the call it belongs to.    *)
(* Frames travel in sets: every request is served by a goroutine of its own, *)
(* so that their order on the socket is never seen.                          *)
EXTENDS Naturals, FiniteSets

CONSTANTS
    Conn,           \* connections; a new one for every pair of processes
    Rpc,            \* calls of SendReceive
    NoReply, Failed   \* results that are no reply: none yet, and an error

ASSUME DemuxAssumption == NoReply \notin Rpc /\ Failed \notin Rpc /\ NoReply # Failed

VARIABLES
    conn,           \* state of a connection, see ConnState
    mapClosed,      \* callMap.closed
    nextTag,        \* DemuxClnt.nextTag
    calls,          \* callMap.calls, of all connections
    reader,         \* where the client's reader goroutine is
    todo,           \* the tags reader has still to fail
    toSrv, toClnt,  \* frames on their way
    serving,        \* requests the server's handler goroutines work on
    rpc,            \* where a SendReceive is
    got,            \* what it returned: the call that was answered, or Failed
    noMatch         \* DemuxClnt.reply found no call for a tag: log.Fatalf

clntVars == <<mapClosed, nextTag, calls, reader, todo, rpc, got, noMatch>>
demuxVars == <<conn, toSrv, toClnt, serving, clntVars>>

\* Ttag is a uint32; no connection lives long enough for 2^32 calls.
Tag == Nat
Frame == Conn \X Tag \X Rpc

\* "closed" by the client, "reset" when the server's process has ended, "dead"
\* when the client's has.
ConnState == {"none", "open", "closed", "reset", "dead"}

DemuxTypeOK ==
    /\ conn \in [Conn -> ConnState]
    /\ mapClosed \in [Conn -> BOOLEAN]
    /\ nextTag \in [Conn -> Tag]
    /\ {calls, toSrv, toClnt, serving} \subseteq SUBSET Frame
    /\ reader \in [Conn -> {"none", "reading", "replying"}]
    /\ todo \in [Conn -> SUBSET Tag]
    /\ rpc \in [Rpc -> {"idle", "put", "waiting", "returned"}]
    /\ got \in [Rpc -> Rpc \cup {NoReply, Failed}]
    /\ noMatch \in BOOLEAN

\* The connections cs are there, and no call was made yet.
DemuxInitWith(cs) ==
    /\ conn = [c \in Conn |-> IF c \in cs THEN "open" ELSE "none"]
    /\ mapClosed = [c \in Conn |-> FALSE]
    /\ nextTag = [c \in Conn |-> IF c \in cs THEN 1 ELSE 0]
    /\ calls = {} /\ toSrv = {} /\ toClnt = {} /\ serving = {}
    /\ reader = [c \in Conn |-> IF c \in cs THEN "reading" ELSE "none"]
    /\ todo = [c \in Conn |-> {}]
    /\ rpc = [r \in Rpc |-> "idle"]
    /\ got = [r \in Rpc |-> NoReply]
    /\ noMatch = FALSE

DemuxInit == \E cs \in SUBSET Conn : DemuxInitWith(cs)

Of(c, frames) == {f \in frames : f[1] = c}
Without(c, frames) == {f \in frames : f[1] # c}

-----------------------------------------------------------------------------
(* The client's end.                                                         *)

\* dial and NewDemuxClnt, which uses up tag 0 for the InitMsg.
NewDemuxClnt(c) ==
    /\ conn[c] = "none"
    /\ conn' = [conn EXCEPT ![c] = "open"]
    /\ nextTag' = [nextTag EXCEPT ![c] = 1]
    /\ reader' = [reader EXCEPT ![c] = "reading"]
    /\ UNCHANGED <<mapClosed, calls, todo, rpc, got, noMatch, toSrv, toClnt, serving>>

\* Mutant: the tag is not incremented.
tagStuck(c) == nextTag[c]

\* What tag() leaves behind.
tag(c) == nextTag[c] + 1

\* The callMap: what put and remove make of calls.
put(c, t, r) == calls \cup {<<c, t, r>>}
remove(c, t, r) == calls \ {<<c, t, r>>}

\* SendReceive up to put: a closed callMap ends the call.
SendReceive(c, r) ==
    /\ rpc[r] = "idle"
    /\ conn[c] \in {"open", "closed", "reset"}
    /\ nextTag' = [nextTag EXCEPT ![c] = tag(c)]
    /\ IF mapClosed[c]
       THEN /\ rpc' = [rpc EXCEPT ![r] = "returned"]
            /\ got' = [got EXCEPT ![r] = Failed]
            /\ calls' = calls
       ELSE /\ rpc' = [rpc EXCEPT ![r] = "put"]
            /\ got' = got
            /\ calls' = put(c, nextTag[c], r)
    /\ UNCHANGED <<conn, mapClosed, reader, todo, noMatch, toSrv, toClnt, serving>>

\* The request is written; an error is ignored and the reply awaited.
WriteCall(c, t, r) ==
    /\ rpc[r] = "put"
    /\ <<c, t, r>> \in calls
    /\ conn[c] # "dead"
    /\ rpc' = [rpc EXCEPT ![r] = "waiting"]
    /\ toSrv' = IF conn[c] = "open" THEN toSrv \cup {<<c, t, r>>} ELSE toSrv
    /\ UNCHANGED <<conn, mapClosed, nextTag, calls, reader, todo, got, noMatch, toClnt, serving>>

\* remove, and the rendezvous on the channel of the call, which is there only
\* once SendReceive waits for it.
reply(c, t, val) ==
    IF \E r \in Rpc : <<c, t, r>> \in calls
    THEN \E r \in Rpc :
            /\ <<c, t, r>> \in calls
            /\ rpc[r] = "waiting"
            /\ calls' = remove(c, t, r)
            /\ rpc' = [rpc EXCEPT ![r] = "returned"]
            /\ got' = [got EXCEPT ![r] = val]
            /\ UNCHANGED noMatch
    ELSE noMatch' = TRUE /\ UNCHANGED <<calls, rpc, got>>

outstanding(c) == {f[2] : f \in Of(c, calls)}

ReadReply(c) ==
    /\ reader[c] = "reading"
    /\ conn[c] # "dead"
    /\ \E f \in Of(c, toClnt) :
        /\ reply(c, f[2], f[3])
        /\ toClnt' = toClnt \ {f}
    /\ UNCHANGED <<conn, mapClosed, nextTag, reader, todo, toSrv, serving>>

\* ReadCall fails on a connection closed here, or closed there and read empty.
ReadCallFails(c) ==
    \/ conn[c] = "closed"
    \/ conn[c] = "reset" /\ Of(c, toClnt) = {}

\* The reader that does not close the callMap, for a mutant.
ReadErrorMapOpen(c) ==
    /\ reader[c] = "reading"
    /\ ReadCallFails(c)
    /\ todo' = [todo EXCEPT ![c] = outstanding(c)]
    /\ reader' = [reader EXCEPT ![c] = "replying"]
    /\ UNCHANGED <<conn, mapClosed, nextTag, calls, rpc, got, noMatch, toSrv, toClnt, serving>>

\* The callMap is closed, and the calls in it are then failed one by one.
ReadError(c) ==
    /\ reader[c] = "reading"
    /\ ReadCallFails(c)
    /\ mapClosed' = [mapClosed EXCEPT ![c] = TRUE]
    /\ todo' = [todo EXCEPT ![c] = outstanding(c)]
    /\ reader' = [reader EXCEPT ![c] = "replying"]
    /\ UNCHANGED <<conn, nextTag, calls, rpc, got, noMatch, toSrv, toClnt, serving>>

ReplyFail(c) ==
    /\ reader[c] = "replying"
    /\ conn[c] # "dead"
    /\ \E t \in todo[c] :
        /\ reply(c, t, Failed)
        /\ todo' = [todo EXCEPT ![c] = @ \ {t}]
    /\ UNCHANGED <<conn, mapClosed, nextTag, reader, toSrv, toClnt, serving>>

\* Close, first the transport, then the callMap.
CloseTrans(c) ==
    /\ conn[c] = "open"
    /\ ~ mapClosed[c]
    /\ conn' = [conn EXCEPT ![c] = "closed"]
    /\ UNCHANGED <<clntVars, toSrv, toClnt, serving>>

\* Mutant: closing forgets the calls.
CloseMapEmptied(c) ==
    /\ conn[c] = "closed"
    /\ mapClosed' = [mapClosed EXCEPT ![c] = TRUE]
    /\ calls' = Without(c, calls)
    /\ UNCHANGED <<conn, nextTag, reader, todo, rpc, got, noMatch, toSrv, toClnt, serving>>

CloseMap(c) ==
    /\ conn[c] = "closed"
    /\ mapClosed' = [mapClosed EXCEPT ![c] = TRUE]
    /\ UNCHANGED <<conn, nextTag, calls, reader, todo, rpc, got, noMatch, toSrv, toClnt, serving>>

-----------------------------------------------------------------------------
(* The server's end (DemuxSrv) and the ends of the processes.                *)

\* The reader starts a goroutine for the request.
Serve(f) ==
    /\ f \in toSrv
    /\ toSrv' = toSrv \ {f}
    /\ serving' = serving \cup {f}
    /\ UNCHANGED <<conn, clntVars, toClnt>>

\* The goroutine writes the reply; nobody hears of an error.
Answer(f) ==
    /\ f \in serving
    /\ serving' = serving \ {f}
    /\ toClnt' = IF conn[f[1]] = "open" THEN toClnt \cup {f} ELSE toClnt
    /\ UNCHANGED <<conn, clntVars, toSrv>>

\* The processes that serve the connections cs and hold the client's end of ds
\* are killed; what they had written can still be read.
Die(cs, ds) ==
    /\ conn' = [c \in Conn |-> IF c \in cs /\ conn[c] = "open" THEN "reset"
                               ELSE IF c \in ds /\ conn[c] # "none" THEN "dead"
                               ELSE conn[c]]
    /\ toSrv' = {f \in toSrv : f[1] \notin cs}
    /\ serving' = {f \in serving : f[1] \notin cs}
    /\ toClnt' = {f \in toClnt : f[1] \notin ds}
    /\ UNCHANGED clntVars

DemuxNext ==
    \/ \E c \in Conn :
        \/ NewDemuxClnt(c) \/ ReadReply(c) \/ ReadError(c)
        \/ ReplyFail(c) \/ CloseTrans(c) \/ CloseMap(c)
        \/ \E r \in Rpc : SendReceive(c, r) \/ \E t \in Tag : WriteCall(c, t, r)
    \/ \E f \in Frame : Serve(f) \/ Answer(f)
    \/ \E cs, ds \in SUBSET Conn : Die(cs, ds)

DemuxSpec == DemuxInit /\ [][DemuxNext]_demuxVars

-----------------------------------------------------------------------------
(* Properties.                                                               *)

(* A reply always finds its call: DemuxClnt.reply never comes to its         *)
(* log.Fatalf, neither for a reply that was read nor for a call the reader   *)
(* fails after an error, whatever order the calls, the replies, Close and    *)
(* the end of the other process come in (dmxclnt.go:58-81).                  *)
AlwaysMatched == ~ noMatch

(* A call that shares its connection with others returns its own reply or an *)
(* error, never the reply of another call (dmxclnt.go:83-101).               *)
OwnReply == \A r \in Rpc : got[r] \in {NoReply, Failed, r}

-----------------------------------------------------------------------------
(* The inductive invariant: where the entry of a call is while a frame of it *)
(* travels, and that a frame travels only once.                              *)

Travelling == toSrv \cup serving \cup toClnt

TagsAndFrames ==
    /\ conn \in [Conn -> ConnState]
    /\ mapClosed \in [Conn -> BOOLEAN]
    /\ nextTag \in [Conn -> Nat]
    /\ calls \subseteq Frame
    /\ toSrv \subseteq Frame /\ serving \subseteq Frame /\ toClnt \subseteq Frame
    /\ reader \in [Conn -> {"none", "reading", "replying"}]
    /\ todo \in [Conn -> SUBSET Nat]
    /\ rpc \in [Rpc -> {"idle", "put", "waiting", "returned"}]
    /\ got \in [Rpc -> Rpc \cup {NoReply, Failed}]
    /\ noMatch \in BOOLEAN

\* An entry of the callMap belongs to a call under way; its tag was given out.
EntriesLive ==
    \A f \in calls : /\ conn[f[1]] # "none"
                     /\ f[2] < nextTag[f[1]]
                     /\ rpc[f[3]] \in {"put", "waiting"}

\* A tag of a connection has one entry, and so has a call.
EntriesUnique ==
    \A f, g \in calls : (f[1] = g[1] /\ f[2] = g[2]) \/ f[3] = g[3] => f = g

\* A frame travels after it was written; as long as the reader reads, the call
\* it belongs to waits for it.
FramesMatched ==
    \A f \in Travelling :
        /\ conn[f[1]] # "none"
        /\ rpc[f[3]] \in {"waiting", "returned"}
        /\ reader[f[1]] = "reading" => f \in calls

\* A frame is in one place.
FramesOnce ==
    /\ toSrv \cap serving = {}
    /\ toSrv \cap toClnt = {}
    /\ serving \cap toClnt = {}

\* What the reader has still to fail is there.
TodoThere ==
    \A c \in Conn : reader[c] = "replying" =>
        /\ mapClosed[c]
        /\ \A t \in todo[c] : \E r \in Rpc : <<c, t, r>> \in calls

DemuxInv ==
    /\ TagsAndFrames /\ EntriesLive /\ EntriesUnique
    /\ FramesMatched /\ FramesOnce /\ TodoThere
    /\ AlwaysMatched /\ OwnReply
=============================================================================
