---------------------------- MODULE TesterProofs ----------------------------
(***************************************************************************)
(* The demultiplexer matches every reply with its call, for any number of  *)
(* connections and calls; the tester, its network and its daemons use      *)
(* their connections as Demux says, so that this holds in the tester too;  *)
(* and the inductive invariant IInv of the tester's servers and calls, for *)
(* every number of nodes, incarnations and calls.                          *)
(***************************************************************************)
EXTENDS Tester, TLAPS

-----------------------------------------------------------------------------
(***************************************************************************)
(* The demultiplexer.                                                      *)
(***************************************************************************)

(* A frame is its connection, its tag and its call. *)
LEMMA FrameParts ==
    ASSUME NEW f \in Frame
    PROVE  /\ f[1] \in Conn /\ f[2] \in Nat /\ f[3] \in Rpc
           /\ f = <<f[1], f[2], f[3]>>
  BY DEF Frame, Tag

LEMMA FrameMade ==
    ASSUME NEW c \in Conn, NEW t \in Nat, NEW r \in Rpc
    PROVE  /\ <<c, t, r>> \in Frame
           /\ <<c, t, r>>[1] = c /\ <<c, t, r>>[2] = t /\ <<c, t, r>>[3] = r
  BY Zenon DEF Frame, Tag

(* Initially no call was made, on connections that are there or not. *)
LEMMA InitInv == DemuxInit => DemuxInv
<1> SUFFICES ASSUME NEW cs \in SUBSET Conn, DemuxInitWith(cs)
             PROVE  DemuxInv
  BY Zenon DEF DemuxInit
<1> USE DEF DemuxInitWith
<1>1. TagsAndFrames
  BY Zenon DEF TagsAndFrames, ConnState
<1>2. EntriesLive /\ EntriesUnique
  BY Zenon DEF EntriesLive, EntriesUnique
<1>3. FramesMatched /\ FramesOnce
  BY Zenon DEF FramesMatched, FramesOnce, Travelling
<1>4. TodoThere
  BY Zenon DEF TodoThere
<1>5. AlwaysMatched /\ OwnReply
  BY Zenon DEF AlwaysMatched, OwnReply
<1> QED
  BY Zenon, <1>1, <1>2, <1>3, <1>4, <1>5 DEF DemuxInv

(* A new connection has neither entries nor frames, so tag 1 is free. *)
LEMMA NewDemuxClntInv ==
    ASSUME DemuxInv, NEW c \in Conn, NewDemuxClnt(c)
    PROVE  DemuxInv'
<1> USE DEF DemuxInv, NewDemuxClnt
<1>1. TagsAndFrames'
  BY Zenon DEF TagsAndFrames, ConnState
<1>2. EntriesLive'
  <2> SUFFICES ASSUME NEW f \in calls
               PROVE  /\ conn'[f[1]] # "none"
                      /\ f[2] < nextTag'[f[1]]
                      /\ rpc[f[3]] \in {"put", "waiting"}
    BY Zenon DEF EntriesLive
  <2>1. f[1] \in Conn /\ f[1] # c
    BY Zenon, FrameParts DEF EntriesLive, TagsAndFrames
  <2> QED
    BY Zenon, <2>1 DEF EntriesLive, TagsAndFrames
<1>3. EntriesUnique'
  BY Zenon DEF EntriesUnique
<1>4. FramesMatched'
  <2> SUFFICES ASSUME NEW f \in Travelling
               PROVE  /\ conn'[f[1]] # "none"
                      /\ rpc[f[3]] \in {"waiting", "returned"}
                      /\ reader'[f[1]] = "reading" => f \in calls
    BY Zenon DEF FramesMatched, Travelling
  <2>1. f[1] \in Conn /\ f[1] # c
    BY Zenon, FrameParts DEF FramesMatched, Travelling, TagsAndFrames
  <2> QED
    BY Zenon, <2>1 DEF FramesMatched, TagsAndFrames
<1>5. FramesOnce'
  BY Zenon DEF FramesOnce
<1>6. TodoThere'
  BY Zenon DEF TodoThere, TagsAndFrames
<1>7. AlwaysMatched' /\ OwnReply'
  BY Zenon DEF AlwaysMatched, OwnReply
<1> QED
  BY Zenon, <1>1, <1>2, <1>3, <1>4, <1>5, <1>6, <1>7

(* A call takes a tag that no entry has; it has no entry of its own yet. *)
LEMMA SendReceiveInv ==
    ASSUME DemuxInv, NEW c \in Conn, NEW r \in Rpc, SendReceive(c, r)
    PROVE  DemuxInv'
<1> USE DEF DemuxInv, SendReceive, tag, put
<1>1. CASE mapClosed[c]
  <2>1. TagsAndFrames'
    BY <1>1 DEF TagsAndFrames
  <2>2. EntriesLive'
    <3> SUFFICES ASSUME NEW f \in calls
                 PROVE  /\ conn[f[1]] # "none"
                        /\ f[2] < nextTag'[f[1]]
                        /\ rpc'[f[3]] \in {"put", "waiting"}
      BY Zenon, <1>1 DEF EntriesLive
    <3>1. f[1] \in Conn /\ f[2] \in Nat /\ f[3] \in Rpc /\ f[3] # r
      BY Zenon, FrameParts DEF EntriesLive, TagsAndFrames
    <3> QED
      BY <1>1, <3>1 DEF EntriesLive, TagsAndFrames
  <2>3. EntriesUnique'
    BY Zenon, <1>1 DEF EntriesUnique
  <2>4. FramesMatched'
    <3> SUFFICES ASSUME NEW f \in Travelling
                 PROVE  /\ rpc'[f[3]] \in {"waiting", "returned"}
      BY Zenon, <1>1 DEF FramesMatched, Travelling
    <3>1. f[3] \in Rpc /\ f[3] # r
      BY Zenon, FrameParts DEF FramesMatched, Travelling, TagsAndFrames
    <3> QED
      BY Zenon, <1>1, <3>1 DEF FramesMatched, TagsAndFrames
  <2>5. FramesOnce' /\ TodoThere' /\ AlwaysMatched'
    BY Zenon, <1>1 DEF FramesOnce, TodoThere, AlwaysMatched
  <2>6. OwnReply'
    BY Zenon, <1>1 DEF OwnReply, TagsAndFrames
  <2> QED
    BY Zenon, <2>1, <2>2, <2>3, <2>4, <2>5, <2>6
<1>2. CASE ~mapClosed[c]
  <2> DEFINE e == <<c, nextTag[c], r>>
  <2>0. /\ e \in Frame /\ e[1] = c /\ e[2] = nextTag[c] /\ e[3] = r
        /\ calls' = calls \cup {e}
    BY Zenon, <1>2, FrameMade DEF TagsAndFrames
  <2> HIDE DEF e
  <2>1. TagsAndFrames'
    BY <1>2, <2>0 DEF TagsAndFrames
  <2>2. EntriesLive'
    <3> SUFFICES ASSUME NEW f \in calls \cup {e}
                 PROVE  /\ conn[f[1]] # "none"
                        /\ f[2] < nextTag'[f[1]]
                        /\ rpc'[f[3]] \in {"put", "waiting"}
      BY Zenon, <1>2, <2>0 DEF EntriesLive
    <3>1. CASE f = e
      BY <1>2, <2>0, <3>1 DEF TagsAndFrames
    <3>2. CASE f \in calls
      <4>1. f[1] \in Conn /\ f[2] \in Nat /\ f[3] \in Rpc /\ f[3] # r
        BY Zenon, <3>2, FrameParts DEF EntriesLive, TagsAndFrames
      <4> QED
        BY <1>2, <3>2, <4>1 DEF EntriesLive, TagsAndFrames
    <3> QED
      BY Zenon, <3>1, <3>2
  <2>3. EntriesUnique'
    <3>1. ASSUME NEW f \in calls PROVE ~(f[1] = c /\ f[2] = nextTag[c]) /\ f[3] # r
      BY FrameParts DEF EntriesLive, TagsAndFrames
    <3> QED
      BY <2>0, <3>1 DEF EntriesUnique
  <2>4. FramesMatched'
    <3> SUFFICES ASSUME NEW f \in Travelling
                 PROVE  rpc'[f[3]] \in {"waiting", "returned"}
      BY Zenon, <1>2, <2>0 DEF FramesMatched, Travelling
    <3>1. f[3] \in Rpc /\ f[3] # r
      BY Zenon, FrameParts DEF FramesMatched, Travelling, TagsAndFrames
    <3> QED
      BY Zenon, <1>2, <3>1 DEF FramesMatched, TagsAndFrames
  <2>5. FramesOnce' /\ AlwaysMatched' /\ OwnReply'
    BY Zenon, <1>2 DEF FramesOnce, AlwaysMatched, OwnReply
  <2>6. TodoThere'
    BY Zenon, <1>2, <2>0 DEF TodoThere
  <2> QED
    BY Zenon, <2>1, <2>2, <2>3, <2>4, <2>5, <2>6
<1> QED
  BY Zenon, <1>1, <1>2

(* A request is written once, when its entry is in the callMap. *)
LEMMA WriteCallInv ==
    ASSUME DemuxInv, NEW c \in Conn, NEW t \in Tag, NEW r \in Rpc, WriteCall(c, t, r)
    PROVE  DemuxInv'
<1> USE DEF DemuxInv, WriteCall
<1> DEFINE e == <<c, t, r>>
<1>0. e \in Frame /\ e[1] = c /\ e[3] = r /\ e \in calls
  BY Zenon, FrameMade DEF Tag
<1>1. e \notin Travelling
  BY Zenon, <1>0 DEF FramesMatched
<1>a. toSrv' \subseteq toSrv \cup {e}
  BY Zenon
<1> HIDE DEF e
<1>2. TagsAndFrames'
  BY Zenon, <1>0, <1>a DEF TagsAndFrames
<1>3. EntriesLive'
  BY Zenon, FrameParts DEF EntriesLive, TagsAndFrames
<1>4. EntriesUnique'
  BY Zenon DEF EntriesUnique
<1>5. FramesMatched'
  <2> SUFFICES ASSUME NEW f \in Travelling \cup {e}
               PROVE  /\ conn[f[1]] # "none"
                      /\ rpc'[f[3]] \in {"waiting", "returned"}
                      /\ reader[f[1]] = "reading" => f \in calls
    BY <1>a DEF FramesMatched, Travelling
  <2>1. CASE f = e
    BY Zenon, <1>0, <2>1 DEF EntriesLive, TagsAndFrames
  <2>2. CASE f \in Travelling
    <3>1. f[3] \in Rpc /\ f[3] # r
      BY Zenon, <2>2, FrameParts DEF FramesMatched, Travelling, TagsAndFrames
    <3> QED
      BY Zenon, <2>2, <3>1 DEF FramesMatched, TagsAndFrames
  <2> QED
    BY Zenon, <2>1, <2>2
<1>6. FramesOnce'
  BY Zenon, <1>1, <1>a DEF FramesOnce, Travelling
<1>7. TodoThere' /\ AlwaysMatched' /\ OwnReply'
  BY Zenon DEF TodoThere, AlwaysMatched, OwnReply
<1> QED
  BY Zenon, <1>2, <1>3, <1>4, <1>5, <1>6, <1>7

(* reply on a tag that has an entry removes this entry and no other. *)
LEMMA ReplyFinds ==
    ASSUME DemuxInv, NEW c \in Conn, NEW t \in Nat, NEW s \in Rpc, NEW val,
           <<c, t, s>> \in calls, reply(c, t, val)
    PROVE  /\ calls' = calls \ {<<c, t, s>>}
           /\ rpc' = [rpc EXCEPT ![s] = "returned"]
           /\ got' = [got EXCEPT ![s] = val]
           /\ noMatch' = noMatch
<1>1. PICK r \in Rpc : /\ <<c, t, r>> \in calls
                       /\ calls' = remove(c, t, r)
                       /\ rpc' = [rpc EXCEPT ![r] = "returned"]
                       /\ got' = [got EXCEPT ![r] = val]
                       /\ noMatch' = noMatch
  BY Zenon DEF reply
<1>2. <<c, t, r>> = <<c, t, s>>
  BY <1>1, FrameMade DEF DemuxInv, EntriesUnique
<1> QED
  BY Zenon, <1>1, <1>2 DEF remove

(* The entries that are left keep their properties, and so do the frames of  *)
(* other calls, when the call s on connection c returns.                     *)
LEMMA EntryRemoved ==
    ASSUME DemuxInv, NEW c \in Conn, NEW t \in Nat, NEW s \in Rpc, NEW val,
           <<c, t, s>> \in calls, val \in {s, Failed},
           calls' = calls \ {<<c, t, s>>},
           rpc' = [rpc EXCEPT ![s] = "returned"],
           got' = [got EXCEPT ![s] = val],
           UNCHANGED <<conn, nextTag, noMatch>>
    PROVE  /\ EntriesLive' /\ EntriesUnique' /\ AlwaysMatched' /\ OwnReply'
           /\ rpc' \in [Rpc -> {"idle", "put", "waiting", "returned"}]
           /\ got' \in [Rpc -> Rpc \cup {NoReply, Failed}]
           /\ \A f \in Travelling : rpc'[f[3]] \in {"waiting", "returned"}
<1> USE DEF DemuxInv
<1>1. EntriesLive'
  <2> SUFFICES ASSUME NEW f \in calls, f # <<c, t, s>>
               PROVE  /\ conn[f[1]] # "none"
                      /\ f[2] < nextTag[f[1]]
                      /\ rpc'[f[3]] \in {"put", "waiting"}
    BY Zenon DEF EntriesLive
  <2>1. f[3] \in Rpc /\ f[3] # s
    BY Zenon, FrameParts, FrameMade DEF EntriesUnique, TagsAndFrames
  <2> QED
    BY Zenon, <2>1 DEF EntriesLive, TagsAndFrames
<1>2. EntriesUnique'
  BY Zenon DEF EntriesUnique
<1>3. AlwaysMatched'
  BY Zenon DEF AlwaysMatched
<1>4. OwnReply'
  BY Zenon DEF OwnReply, TagsAndFrames
<1>5. /\ rpc' \in [Rpc -> {"idle", "put", "waiting", "returned"}]
      /\ got' \in [Rpc -> Rpc \cup {NoReply, Failed}]
  BY Zenon DEF TagsAndFrames
<1>6. ASSUME NEW f \in Travelling PROVE rpc'[f[3]] \in {"waiting", "returned"}
  <2>1. f[3] \in Rpc
    BY Zenon, FrameParts DEF Travelling, TagsAndFrames
  <2> QED
    BY Zenon, <2>1 DEF FramesMatched, TagsAndFrames
<1> QED
  BY Zenon, <1>1, <1>2, <1>3, <1>4, <1>5, <1>6

(* The reader finds the entry of the frame it has read. *)
LEMMA ReadReplyInv ==
    ASSUME DemuxInv, NEW c \in Conn, ReadReply(c)
    PROVE  DemuxInv'
<1> USE DEF DemuxInv
<1>1. PICK f \in Of(c, toClnt) : reply(c, f[2], f[3]) /\ toClnt' = toClnt \ {f}
  BY Zenon DEF ReadReply
<1>2. /\ f \in toClnt /\ f[1] = c /\ f[2] \in Nat /\ f[3] \in Rpc
      /\ f = <<c, f[2], f[3]>>
  BY Zenon, FrameParts DEF Of, TagsAndFrames
<1>3. f \in calls
  BY Zenon, <1>2 DEF ReadReply, FramesMatched, Travelling
<1>4. /\ calls' = calls \ {f}
      /\ rpc' = [rpc EXCEPT ![f[3]] = "returned"]
      /\ got' = [got EXCEPT ![f[3]] = f[3]]
      /\ noMatch' = noMatch
  BY <1>1, <1>2, <1>3, ReplyFinds
<1>5. UNCHANGED <<conn, mapClosed, nextTag, reader, todo, toSrv, serving>>
  BY Zenon DEF ReadReply
<1>6. /\ EntriesLive' /\ EntriesUnique' /\ AlwaysMatched' /\ OwnReply'
      /\ rpc' \in [Rpc -> {"idle", "put", "waiting", "returned"}]
      /\ got' \in [Rpc -> Rpc \cup {NoReply, Failed}]
      /\ \A g \in Travelling : rpc'[g[3]] \in {"waiting", "returned"}
  BY Zenon, <1>2, <1>3, <1>4, <1>5, EntryRemoved
<1>7. TagsAndFrames'
  BY Zenon, <1>1, <1>4, <1>5, <1>6 DEF TagsAndFrames
<1>8. Travelling' = Travelling \ {f}
  BY Zenon, <1>1, <1>2, <1>5 DEF Travelling, FramesOnce
<1>9. FramesMatched'
  BY Zenon, <1>4, <1>5, <1>6, <1>8 DEF FramesMatched
<1>10. FramesOnce'
  BY Zenon, <1>1, <1>5 DEF FramesOnce
<1>11. TodoThere'
  <2> SUFFICES ASSUME NEW d \in Conn, reader[d] = "replying"
               PROVE  /\ mapClosed[d]
                      /\ \A t \in todo[d] : \E r \in Rpc : <<d, t, r>> \in calls \ {f}
    BY Zenon, <1>4, <1>5 DEF TodoThere
  <2>1. d # c
    BY Zenon DEF ReadReply
  <2> QED
    BY <1>2, <2>1 DEF TodoThere
<1> QED
  BY Zenon, <1>6, <1>7, <1>9, <1>10, <1>11

(* When reading fails the callMap is closed first, so that the tags to fail *)
(* are all there will be.                                                   *)
LEMMA ReadErrorInv ==
    ASSUME DemuxInv, NEW c \in Conn, ReadError(c)
    PROVE  DemuxInv'
<1> USE DEF DemuxInv, ReadError
<1>1. ASSUME NEW t \in outstanding(c)
      PROVE  t \in Nat /\ \E r \in Rpc : <<c, t, r>> \in calls
  <2>1. PICK f \in calls : f[1] = c /\ f[2] = t
    BY Zenon DEF outstanding, Of
  <2>2. f[2] \in Nat /\ f[3] \in Rpc /\ f = <<f[1], f[2], f[3]>>
    BY Zenon, FrameParts DEF TagsAndFrames
  <2>3. <<c, t, f[3]>> \in calls
    BY Zenon, <2>1, <2>2
  <2> QED
    BY Zenon, <2>1, <2>2, <2>3
<1>2. TagsAndFrames'
  BY Zenon, <1>1 DEF TagsAndFrames
<1>3. EntriesLive' /\ EntriesUnique'
  BY Zenon DEF EntriesLive, EntriesUnique
<1>4. FramesMatched'
  BY ZenonT(40), FrameParts DEF FramesMatched, Travelling, TagsAndFrames
<1>5. TodoThere'
  BY Zenon, <1>1 DEF TodoThere, TagsAndFrames
<1>6. FramesOnce' /\ AlwaysMatched' /\ OwnReply'
  BY Zenon DEF FramesOnce, AlwaysMatched, OwnReply
<1> QED
  BY Zenon, <1>2, <1>3, <1>4, <1>5, <1>6

(* The reader fails a call it has found in the callMap, which is still there. *)
LEMMA ReplyFailInv ==
    ASSUME DemuxInv, NEW c \in Conn, ReplyFail(c)
    PROVE  DemuxInv'
<1> USE DEF DemuxInv
<1>1. PICK t \in todo[c] : reply(c, t, Failed) /\ todo' = [todo EXCEPT ![c] = @ \ {t}]
  BY Zenon DEF ReplyFail
<1>2. t \in Nat
  BY Zenon DEF TagsAndFrames
<1>3. PICK s \in Rpc : <<c, t, s>> \in calls
  BY Zenon DEF ReplyFail, TodoThere
<1>4. /\ calls' = calls \ {<<c, t, s>>}
      /\ rpc' = [rpc EXCEPT ![s] = "returned"]
      /\ got' = [got EXCEPT ![s] = Failed]
      /\ noMatch' = noMatch
  BY Zenon, <1>1, <1>2, <1>3, ReplyFinds
<1>5. UNCHANGED <<conn, mapClosed, nextTag, reader, toSrv, toClnt, serving>>
  BY Zenon DEF ReplyFail
<1>6. /\ EntriesLive' /\ EntriesUnique' /\ AlwaysMatched' /\ OwnReply'
      /\ rpc' \in [Rpc -> {"idle", "put", "waiting", "returned"}]
      /\ got' \in [Rpc -> Rpc \cup {NoReply, Failed}]
      /\ \A g \in Travelling : rpc'[g[3]] \in {"waiting", "returned"}
  BY Zenon, <1>2, <1>3, <1>4, <1>5, EntryRemoved
<1>7. TagsAndFrames'
  BY Zenon, <1>1, <1>4, <1>5, <1>6 DEF TagsAndFrames
<1>8. FramesMatched'
  <2> SUFFICES ASSUME NEW f \in Travelling, reader[f[1]] = "reading"
               PROVE  f \in calls \ {<<c, t, s>>}
    BY Zenon, <1>4, <1>5, <1>6 DEF FramesMatched, Travelling
  <2>1. f[1] # c
    BY Zenon DEF ReplyFail
  <2> QED
    BY <1>2, <1>3, <2>1, FrameMade DEF FramesMatched
<1>9. FramesOnce'
  BY Zenon, <1>5 DEF FramesOnce
<1>10. TodoThere'
  <2> SUFFICES ASSUME NEW d \in Conn, reader[d] = "replying", NEW u \in todo'[d]
               PROVE  \E r \in Rpc : <<d, u, r>> \in calls \ {<<c, t, s>>}
    BY Zenon, <1>4, <1>5 DEF TodoThere
  <2>1. u \in todo[d] /\ (d = c => u # t)
    BY Zenon, <1>1 DEF TagsAndFrames
  <2>2. PICK r \in Rpc : <<d, u, r>> \in calls
    BY Zenon, <2>1 DEF TodoThere
  <2>3. <<d, u, r>> # <<c, t, s>>
    BY Zenon, <2>1
  <2> QED
    BY Zenon, <2>2, <2>3
<1> QED
  BY Zenon, <1>6, <1>7, <1>8, <1>9, <1>10

(* Closing loses no entry. *)
LEMMA CloseInv ==
    ASSUME DemuxInv, NEW c \in Conn, CloseTrans(c) \/ CloseMap(c)
    PROVE  DemuxInv'
<1> USE DEF DemuxInv, CloseTrans, CloseMap, clntVars
<1>1. TagsAndFrames'
  BY Zenon DEF TagsAndFrames, ConnState
<1>2. UNCHANGED <<nextTag, calls, reader, todo, rpc, got, noMatch, toSrv, toClnt, serving>>
  BY Zenon
<1>3. \A d \in Conn : conn'[d] = "none" <=> conn[d] = "none"
  BY Zenon DEF TagsAndFrames
<1>4. EntriesLive'
  BY <1>2, <1>3, FrameParts DEF EntriesLive, TagsAndFrames
<1>5. FramesMatched'
  BY <1>2, <1>3, FrameParts DEF FramesMatched, Travelling, TagsAndFrames
<1>6. EntriesUnique' /\ FramesOnce' /\ AlwaysMatched' /\ OwnReply'
  BY Zenon, <1>2 DEF EntriesUnique, FramesOnce, AlwaysMatched, OwnReply
<1>7. TodoThere'
  BY Zenon, <1>2 DEF TodoThere, TagsAndFrames
<1> QED
  BY Zenon, <1>1, <1>4, <1>5, <1>6, <1>7

(* A handler moves its frame, or drops it. *)
LEMMA ServerInv ==
    ASSUME DemuxInv, NEW f \in Frame, Serve(f) \/ Answer(f)
    PROVE  DemuxInv'
<1> USE DEF DemuxInv, Serve, Answer, clntVars
<1>1. UNCHANGED <<conn, mapClosed, nextTag, calls, reader, todo, rpc, got, noMatch>>
  BY Zenon
<1>2. Travelling' \subseteq Travelling
  BY Zenon DEF Travelling
<1>3. TagsAndFrames'
  BY Zenon DEF TagsAndFrames
<1>4. EntriesLive' /\ EntriesUnique' /\ TodoThere' /\ AlwaysMatched' /\ OwnReply'
  BY Zenon, <1>1 DEF EntriesLive, EntriesUnique, TodoThere, AlwaysMatched, OwnReply
<1>5. FramesMatched'
  BY Zenon, <1>1, <1>2 DEF FramesMatched
<1>6. FramesOnce'
  BY Zenon DEF FramesOnce
<1> QED
  BY Zenon, <1>3, <1>4, <1>5, <1>6

(* A process that ends takes frames with it, and no entry of the living. *)
LEMMA DieInv ==
    ASSUME DemuxInv, NEW cs \in SUBSET Conn, NEW ds \in SUBSET Conn, Die(cs, ds)
    PROVE  DemuxInv'
<1> USE DEF DemuxInv, Die, clntVars
<1>1. UNCHANGED <<mapClosed, nextTag, calls, reader, todo, rpc, got, noMatch>>
  BY Zenon
<1>2. /\ toSrv' \subseteq toSrv /\ serving' \subseteq serving /\ toClnt' \subseteq toClnt
      /\ Travelling' \subseteq Travelling
  BY Zenon DEF Travelling
<1>3. \A d \in Conn : conn'[d] = "none" <=> conn[d] = "none"
  BY Zenon DEF TagsAndFrames
<1>4. TagsAndFrames'
  BY Zenon DEF TagsAndFrames, ConnState
<1>5. EntriesLive'
  BY Zenon, <1>1, <1>3, FrameParts DEF EntriesLive, TagsAndFrames
<1>6. FramesMatched'
  BY <1>1, <1>2, <1>3, FrameParts DEF FramesMatched, Travelling, TagsAndFrames
<1>7. FramesOnce'
  BY Zenon, <1>2 DEF FramesOnce
<1>8. EntriesUnique' /\ TodoThere' /\ AlwaysMatched' /\ OwnReply'
  BY <1>1 DEF EntriesUnique, TodoThere, AlwaysMatched, OwnReply
<1> QED
  BY Zenon, <1>4, <1>5, <1>6, <1>7, <1>8

(* Every step keeps the invariant. *)
LEMMA StepInv == DemuxInv /\ [DemuxNext]_demuxVars => DemuxInv'
<1> SUFFICES ASSUME DemuxInv, [DemuxNext]_demuxVars PROVE DemuxInv'
  BY Zenon
<1>1. ASSUME NEW c \in Conn,
             NewDemuxClnt(c) \/ ReadReply(c) \/ ReadError(c)
                \/ ReplyFail(c) \/ CloseTrans(c) \/ CloseMap(c)
      PROVE  DemuxInv'
  BY Zenon, <1>1, NewDemuxClntInv, ReadReplyInv, ReadErrorInv, ReplyFailInv, CloseInv
<1>2. ASSUME NEW c \in Conn, NEW r \in Rpc,
             SendReceive(c, r) \/ \E t \in Tag : WriteCall(c, t, r)
      PROVE  DemuxInv'
  BY Zenon, <1>2, SendReceiveInv, WriteCallInv
<1>3. ASSUME NEW f \in Frame, Serve(f) \/ Answer(f) PROVE DemuxInv'
  BY Zenon, <1>3, ServerInv
<1>4. ASSUME NEW cs \in SUBSET Conn, NEW ds \in SUBSET Conn, Die(cs, ds) PROVE DemuxInv'
  BY Zenon, <1>4, DieInv
<1>5. CASE UNCHANGED demuxVars
  BY ZenonT(40), <1>5 DEF DemuxInv, demuxVars, clntVars, TagsAndFrames, EntriesLive, EntriesUnique,
     FramesMatched, FramesOnce, TodoThere, Travelling, AlwaysMatched, OwnReply
<1> QED
  BY Zenon, <1>1, <1>2, <1>3, <1>4, <1>5 DEF DemuxNext

(***************************************************************************)
(* DemuxClnt.reply never comes to its log.Fatalf, and no call returns the  *)
(* reply of another, for all connections and calls and every order of      *)
(* sending, answering, closing and dying.                                  *)
(***************************************************************************)
THEOREM DemuxCorrect == DemuxSpec => [](AlwaysMatched /\ OwnReply)
<1>1. DemuxInv => AlwaysMatched /\ OwnReply
  BY Zenon DEF DemuxInv
<1> QED
  BY <1>1, InitInv, StepInv, PTL DEF DemuxSpec

-----------------------------------------------------------------------------
(***************************************************************************)
(* The tester: every step of tester, network and daemons is a step of the  *)
(* demultiplexers or leaves them as they are.                              *)
(***************************************************************************)

LEMMA ConnOf ==
    ASSUME NEW n \in Node, NEW i \in Nat, 1 <= i, i <= MaxInc[n]
    PROVE  Down(n, i) \in Conn /\ Up(n, i) \in Conn
<1>1. i \in 1 .. MaxInc[n]
  BY TesterAssumption
<1>2. /\ Down(n, i) \in {"down", "up"} \X {n} \X (1 .. MaxInc[n])
      /\ Up(n, i) \in {"down", "up"} \X {n} \X (1 .. MaxInc[n])
  BY Zenon, <1>1 DEF Down, Up
<1> QED
  BY <1>2, TesterAssumption

LEMMA RpcOf ==
    ASSUME NEW k \in Call
    PROVE  <<"down", k>> \in Rpc /\ <<"up", k>> \in Rpc
  BY Zenon, TesterAssumption

LEMMA TargetNode ==
    ASSUME Incarnations, NEW k \in Call
    PROVE  Target[k] \in Node
  BY TesterAssumption DEF Incarnations, Target

(* MakeConfig starts every server once. *)
LEMMA InitIncarnations == Init => Incarnations
<1> SUFFICES ASSUME Init PROVE Incarnations
  BY Zenon
<1>1. \A n \in Node : MaxInc[n] \in Nat /\ 1 <= MaxInc[n]
  BY TesterAssumption
<1>2. route \in Routes /\ inc = [n \in Node |-> 1] /\ servers = inc /\ srv = [k \in Call |-> 0]
  BY Zenon DEF Init
<1>3. ASSUME NEW k \in Call PROVE Target[k] \in Node
  BY Zenon, <1>2, TesterAssumption DEF Target
<1> QED
  BY <1>1, <1>2, <1>3 DEF Incarnations

LEMMA InitDemux == Init => DemuxInit
<1> SUFFICES ASSUME Init PROVE DemuxInit
  BY Zenon
<1>1. \A n \in Node : Down(n, 1) \in Conn /\ Up(n, 1) \in Conn
  BY SMTT(30), ConnOf, TesterAssumption
<1>2. {Down(n, 1) : n \in Node} \cup {Up(n, 1) : n \in Node} \in SUBSET Conn
  BY Zenon, <1>1
<1> QED
  BY Zenon, <1>2 DEF Init, DemuxInit

(* Only StartServer counts an incarnation, below the bound; a server that is *)
(* registered, and a request that is given to it, take the present one.      *)
LEMMA IncarnationsKept ==
    ASSUME Incarnations, [Next]_vars
    PROVE  Incarnations'
<1>1. ASSUME NEW n \in Node, StartServer(n) PROVE Incarnations'
  <2>1. /\ inc' = [inc EXCEPT ![n] = @ + 1] /\ inc[n] < MaxInc[n]
        /\ UNCHANGED <<route, servers, srv>>
    BY Zenon, <1>1 DEF StartServer, netVars
  <2>2. /\ inc' \in [Node -> Nat]
        /\ \A m \in Node : inc[m] <= inc'[m] /\ 1 <= inc'[m] /\ inc'[m] <= MaxInc[m]
    <3>1. \A m \in Node : MaxInc[m] \in Nat /\ inc[m] \in Nat
      BY Zenon, TesterAssumption DEF Incarnations
    <3>2. \A m \in Node : inc'[m] = IF m = n THEN inc[m] + 1 ELSE inc[m]
      BY Zenon, <2>1 DEF Incarnations
    <3>3. inc' \in [Node -> Nat]
      BY <2>1, <3>1 DEF Incarnations
    <3>4. ASSUME NEW m \in Node
          PROVE  inc[m] <= inc'[m] /\ 1 <= inc'[m] /\ inc'[m] <= MaxInc[m]
      <4>1. 1 <= inc[m] /\ inc[m] <= MaxInc[m]
        BY Zenon DEF Incarnations
      <4> QED
        BY <2>1, <3>1, <3>2, <4>1
    <3> QED
      BY Zenon, <3>3, <3>4
  <2>3. \A m \in Node : servers'[m] <= inc'[m]
    BY <2>1, <2>2 DEF Incarnations
  <2>4. ASSUME NEW k \in Call PROVE srv'[k] <= inc'[Target'[k]]
    <3>1. Target[k] \in Node /\ Target' = Target
      BY Zenon, <2>1, TargetNode DEF Target
    <3> QED
      BY <2>1, <2>2, <3>1 DEF Incarnations
  <2> QED
    BY Zenon, <2>1, <2>2, <2>3, <2>4 DEF Incarnations
<1>2. ASSUME NEW n \in Node, AddServer(n) \/ DeleteServer(n) PROVE Incarnations'
  <2>1. /\ servers' = [servers EXCEPT ![n] = inc[n]] \/ servers' = [servers EXCEPT ![n] = 0]
        /\ UNCHANGED <<route, inc, srv>>
    BY Zenon, <1>2 DEF AddServer, DeleteServer, netVars
  <2>2. servers' \in [Node -> Nat] /\ \A m \in Node : servers'[m] <= inc[m]
    BY <2>1 DEF Incarnations
  <2> QED
    BY Zenon, <2>1, <2>2 DEF Incarnations, Target
<1>3. ASSUME NEW k \in Call, readEndnameInfo(k) PROVE Incarnations'
  <2>1. /\ srv' = [srv EXCEPT ![k] = servers[Target[k]]]
        /\ UNCHANGED <<route, inc, servers>>
    BY Zenon, <1>3 DEF readEndnameInfo, grpVars
  <2>2. Target' = Target /\ Target[k] \in Node
    BY Zenon, <2>1, TargetNode DEF Target
  <2>3. srv' \in [Call -> Nat] /\ \A j \in Call : srv'[j] <= inc[Target[j]]
    BY Zenon, <2>1, <2>2 DEF Incarnations
  <2> QED
    BY Zenon, <2>1, <2>2, <2>3 DEF Incarnations
<1>4. CASE UNCHANGED <<route, inc, servers, srv>>
  BY Zenon, <1>4 DEF Incarnations, Target
<1>5. CASE DemuxStep \/ DeleteClients \/ NetCleanup \/ UNCHANGED vars
  BY Zenon, <1>4, <1>5 DEF DemuxStep, DeleteClients, NetCleanup, vars, netVars, grpVars
<1>6. ASSUME NEW k \in Call,
             \/ ClientCall(k) \/ forward(k) \/ NoServer(k) \/ dispatch(k) \/ StopWaiting(k)
             \/ HandlerReturned(k) \/ DropRequest(k) \/ DropReply(k)
      PROVE  Incarnations'
  BY Zenon, <1>4, <1>6 DEF ClientCall, forward, NoServer, dispatch, StopWaiting, HandlerReturned,
     DropRequest, DropReply, Reply, netVars, grpVars
<1>7. ASSUME NEW k \in Call,
             ServeRequest(k) \/ AnswerRequest(k) \/ Forward(k) \/ ForwardReturns(k)
      PROVE  Incarnations'
  BY Zenon, <1>4, <1>7 DEF ServeRequest, AnswerRequest, Forward, ForwardReturns, netVars, grpVars
<1>8. ASSUME NEW n \in Node, DaemonNext(n) PROVE Incarnations'
  BY Zenon, <1>4, <1>8 DEF DaemonNext, ConnectToTester, NewRPCSrv, AddService, CheckpointCloses,
     CheckpointPersister, netVars, grpVars
<1>9. ASSUME NEW n \in Node,
             DialControl(n) \/ SendInit(n) \/ InitTooEarly(n) \/ DialServer(n) \/ DialFails(n)
                \/ waitInit(n) \/ connect(n) \/ kill(n) \/ ShutdownServer(n)
      PROVE  Incarnations'
  BY Zenon, <1>4, <1>9 DEF DialControl, SendInit, InitTooEarly, DialServer, DialFails, waitInit, connect,
     kill, ShutdownServer, netVars, grpVars
<1> QED
  BY Zenon, <1>1, <1>2, <1>3, <1>5, <1>6, <1>7, <1>8, <1>9 DEF Next, Step, NetStep, MainNext

(* Every step is a step of the demultiplexers, or none of theirs. *)
LEMMA DemuxSteps ==
    ASSUME Incarnations, DemuxInv, [Next]_vars
    PROVE  [DemuxNext]_demuxVars
<1> USE DEF Tag
<1>1. CASE DemuxStep
  <2>1. PICK c \in Conn :
            \/ \E f \in Of(c, calls) : WriteCall(c, f[2], f[3])
            \/ ReadReply(c) \/ ReadError(c) \/ ReplyFail(c)
    BY Zenon, <1>1 DEF DemuxStep
  <2>2. ASSUME NEW f \in Of(c, calls) PROVE f[2] \in Nat /\ f[3] \in Rpc
    BY Zenon, FrameParts DEF Of, DemuxInv, TagsAndFrames
  <2> QED
    BY Zenon, <2>1, <2>2 DEF DemuxNext
<1>2. ASSUME NEW k \in Call, dispatch(k) PROVE DemuxNext
  <2>1. SendReceive(Down(Target[k], srv[k]), <<"down", k>>) /\ srv[k] # 0
    BY Zenon, <1>2 DEF dispatch
  <2>2. Target[k] \in Node
    BY Zenon, TargetNode
  <2>3. srv[k] \in Nat /\ 1 <= srv[k] /\ srv[k] <= MaxInc[Target[k]]
    <3>1. srv[k] \in Nat /\ srv[k] <= inc[Target[k]]
      BY Zenon DEF Incarnations
    <3>2. inc[Target[k]] \in Nat /\ inc[Target[k]] <= MaxInc[Target[k]]
      BY Zenon, <2>2 DEF Incarnations
    <3>3. MaxInc[Target[k]] \in Nat
      BY Zenon, <2>2, TesterAssumption
    <3> QED
      BY <2>1, <3>1, <3>2, <3>3
  <2>4. Down(Target[k], srv[k]) \in Conn /\ <<"down", k>> \in Rpc
    BY Zenon, <2>2, <2>3, ConnOf, RpcOf
  <2> QED
    BY Zenon, <2>1, <2>4 DEF DemuxNext
<1>3. \A n \in Node : Down(n, inc[n]) \in Conn /\ Up(n, inc[n]) \in Conn
  BY Zenon, ConnOf DEF Incarnations
<1>4. ASSUME NEW k \in Call, forward(k) PROVE DemuxNext
  <2>1. SendReceive(Up(Origin[k], inc[Origin[k]]), <<"up", k>>) /\ Origin[k] \in Node
    BY Zenon, <1>4 DEF forward
  <2> QED
    BY Zenon, <1>3, <2>1, RpcOf DEF DemuxNext
<1>5. ASSUME NEW k \in Call,
             ServeRequest(k) \/ AnswerRequest(k) \/ Forward(k) \/ ForwardReturns(k)
      PROVE  DemuxNext
  <2>1. PICK f \in toSrv \cup serving : Serve(f) \/ Answer(f)
    BY Zenon, <1>5 DEF ServeRequest, AnswerRequest, Forward, ForwardReturns
  <2>2. f \in Frame
    BY Zenon DEF DemuxInv, TagsAndFrames
  <2> QED
    BY Zenon, <2>1, <2>2 DEF DemuxNext
<1>6. ASSUME NEW n \in Node, DaemonNext(n) PROVE [DemuxNext]_demuxVars
  <2>1. \/ NewDemuxClnt(Up(n, inc[n])) \/ CloseTrans(Up(n, inc[n])) \/ CloseMap(Up(n, inc[n]))
        \/ UNCHANGED demuxVars
    BY Zenon, <1>6 DEF DaemonNext, ConnectToTester, NewRPCSrv, AddService, CheckpointCloses,
       CheckpointPersister
  <2> QED
    BY Zenon, <1>3, <2>1 DEF DemuxNext
<1>7. ASSUME NEW n \in Node, MainNext(n) PROVE [DemuxNext]_demuxVars
  <2>1. \/ NewDemuxClnt(Down(n, inc[n]))
        \/ Die({Down(n, inc[n])}, {Up(n, inc[n])})
        \/ Die({}, {Up(n, inc[n])})
        \/ UNCHANGED demuxVars
    BY Zenon, <1>7 DEF MainNext, DialControl, SendInit, InitTooEarly, DialServer, DialFails, waitInit,
       AddServer, connect, DeleteServer, kill
  <2>2. {} \in SUBSET Conn /\ {Down(n, inc[n])} \in SUBSET Conn /\ {Up(n, inc[n])} \in SUBSET Conn
    BY Zenon, <1>3
  <2> QED
    BY Zenon, <1>3, <2>1, <2>2 DEF DemuxNext
<1>8. ASSUME NEW n \in Node, StartServer(n) \/ ShutdownServer(n) PROVE UNCHANGED demuxVars
  BY Zenon, <1>8 DEF StartServer, ShutdownServer
<1>9. ASSUME NEW k \in Call,
             \/ ClientCall(k) \/ readEndnameInfo(k) \/ NoServer(k) \/ StopWaiting(k)
             \/ HandlerReturned(k) \/ DropRequest(k) \/ DropReply(k)
      PROVE  UNCHANGED demuxVars
  BY Zenon, <1>9 DEF ClientCall, readEndnameInfo, NoServer, StopWaiting, HandlerReturned, DropRequest,
     DropReply, Reply
<1>10. CASE DeleteClients \/ NetCleanup \/ UNCHANGED vars
  BY Zenon, <1>10 DEF DeleteClients, NetCleanup, vars
<1> QED
  BY Zenon, <1>1, <1>2, <1>4, <1>5, <1>6, <1>7, <1>8, <1>9, <1>10 DEF Next, Step, NetStep, DemuxStep

(***************************************************************************)
(* The tester with all its processes implements the demultiplexer, for any *)
(* servers, calls and numbers of restarts.                                 *)
(***************************************************************************)
THEOREM ImplementsDemux == Spec => DemuxSpec
<1>1. Init => DemuxInv
  BY Zenon, InitDemux, InitInv
<1>2. Incarnations /\ DemuxInv /\ [Next]_vars => DemuxInv'
  BY Zenon, DemuxSteps, StepInv
<1> QED
  BY <1>1, <1>2, InitIncarnations, IncarnationsKept, InitDemux, DemuxSteps, PTL
     DEF Spec, DemuxSpec

(***************************************************************************)
(* So, while servers are killed and started again, every reply finds its   *)
(* call (dmxclnt.go:58-64).                                                *)
(***************************************************************************)
THEOREM AlwaysMatchedHolds == Spec => []AlwaysMatched
  BY ImplementsDemux, DemuxCorrect, PTL

(***************************************************************************)
(* And no call returns the reply of another (dmxclnt.go:83-101).           *)
(***************************************************************************)
THEOREM OwnReplyHolds == Spec => []OwnReply
  BY ImplementsDemux, DemuxCorrect, PTL

-----------------------------------------------------------------------------
(***************************************************************************)
(* The invariant of the tester.  First the servers and their ends.         *)
(***************************************************************************)
LEMMA NotIdle ==
    ASSUME NEW s, NEW n
    PROVE  <<s, n>> # Idle /\ <<s, n>>[2] = n
  BY Zenon DEF Idle

(* The tester is busy with the one server its step is about. *)
LEMMA BusyWith ==
    ASSUME NEW s, NEW n, main = <<s, n>>
    PROVE  \A m : Busy(m) <=> m = n
  BY Zenon, NotIdle DEF Busy

LEMMA BusyWithNext ==
    ASSUME NEW s, NEW n, main' = <<s, n>>
    PROVE  \A m : Busy(m)' <=> m = n
  BY Zenon, NotIdle DEF Busy

LEMMA IdleNotBusy ==
    /\ main = Idle => \A n : ~ Busy(n)
    /\ main' = Idle => \A n : ~ Busy(n)'
  BY Zenon DEF Busy

ServersInv == (\A n \in Node : InStep(n)) /\ EndsCurrent

(* A step of the tester about server n, which no other server notices. *)
LEMMA OthersInStep ==
    ASSUME NEW n \in Node, \A m \in Node : InStep(m),
           \A m \in Node \ {n} : /\ ~ Busy(m) /\ ~ Busy(m)'
                                 /\ UNCHANGED <<daemon[m], servers[m], inc[m]>>,
           InStep(n)'
    PROVE  \A m \in Node : InStep(m)'
<1> SUFFICES ASSUME NEW m \in Node, m # n PROVE InStep(m)'
  BY Zenon
<1>1. ~ Busy(m) /\ ~ Busy(m)' /\ UNCHANGED <<daemon[m], servers[m], inc[m]>>
  BY Zenon
<1>2. \/ daemon[m] = "off" /\ servers[m] = 0
      \/ daemon[m] = "up" /\ servers[m] = inc[m]
  <2>1. \A s : main = <<s, m>> => FALSE
    BY Zenon, <1>1, BusyWith
  <2> QED
    BY Zenon, <2>1 DEF InStep
<1> QED
  BY Zenon, <1>1, <1>2 DEF InStep

LEMMA ServersFrame ==
    ASSUME ServersInv, UNCHANGED <<main, daemon, servers, inc, connected, enabled>>
    PROVE  ServersInv'
  BY DEF ServersInv, InStep, EndsCurrent, Busy

(* The daemon goes on by itself: while it boots, and in CheckpointPersister. *)
LEMMA DaemonServers ==
    ASSUME TypeOK, ServersInv, NEW n \in Node, DaemonNext(n)
    PROVE  ServersInv'
<1>0. daemon \in [Node -> DaemonState] /\ InStep(n)
  BY Zenon DEF TypeOK, ServersInv
<1>1. ASSUME NEW from, NEW to, DaemonStep(n, from, to)
      PROVE  /\ daemon[n] = from /\ daemon'[n] = to
             /\ \A m \in Node \ {n} : daemon'[m] = daemon[m]
  BY Zenon, <1>0, <1>1 DEF DaemonStep
<1>2. UNCHANGED <<servers, inc, connected, enabled>>
  BY Zenon DEF DaemonNext, ConnectToTester, NewRPCSrv, AddService, CheckpointCloses,
     CheckpointPersister, grpVars
<1>3. /\ daemon[n] \notin {"off", "up"} \/ main = <<"checkpoint", n>>
      /\ \A m \in Node \ {n} : daemon'[m] = daemon[m]
  BY <1>1 DEF DaemonNext, ConnectToTester, NewRPCSrv, AddService, CheckpointCloses,
     CheckpointPersister, checkpointPersister, MainStep
<1>4. \A m : Busy(m) <=> m = n
  <2>1. \E s : main = <<s, n>>
    BY Zenon, <1>0, <1>3 DEF InStep
  <2> QED
    BY Zenon, <2>1, BusyWith
<1>5. ASSUME InStep(n)', \A m : Busy(m)' <=> m = n
      PROVE  ServersInv'
  <2>1. \A m \in Node : InStep(m)'
    BY Zenon, <1>2, <1>3, <1>4, <1>5, OthersInStep DEF ServersInv
  <2>2. connected \subseteq Node /\ n \notin connected
    BY Zenon, <1>4 DEF TypeOK, ServersInv, EndsCurrent
  <2>3. \A m \in connected : ~ Busy(m)' /\ daemon'[m] = "up"
    BY Zenon, <1>3, <1>5, <2>2 DEF ServersInv, EndsCurrent
  <2> QED
    BY Zenon, <1>2, <2>1, <2>3 DEF ServersInv, EndsCurrent
<1>6. CASE ConnectToTester(n) \/ NewRPCSrv(n) \/ AddService(n)
  <2>1. /\ main' = main /\ UNCHANGED <<servers, inc>>
        /\ \/ daemon[n] = "boot" /\ daemon'[n] = "dialed"
           \/ daemon[n] = "dialed" /\ daemon'[n] = "control"
           \/ daemon[n] = "control" /\ daemon'[n] = "ctl"
           \/ daemon[n] = "init" /\ daemon'[n] = "listening"
           \/ daemon[n] = "listening" /\ daemon'[n] = "serving"
    BY Zenon, <1>1, <1>6 DEF ConnectToTester, NewRPCSrv, AddService, grpVars
  <2>2. InStep(n)'
    BY Zenon, <1>0, <2>1 DEF InStep
  <2>3. \A m : Busy(m)' <=> m = n
    BY Zenon, <1>4, <2>1 DEF Busy
  <2> QED
    BY Zenon, <1>5, <2>2, <2>3
<1>7. CASE CheckpointCloses(n)
  <2>1. /\ main' = <<"checkpoint", n>> /\ main = main' /\ UNCHANGED <<servers, inc>>
        /\ daemon'[n] \in {"closing", "closed"}
    BY Zenon, <1>1, <1>7 DEF CheckpointCloses, grpVars
  <2>2. InStep(n)'
    <3>1. servers[n] = 0
      BY Zenon, <1>0, <1>4, <2>1 DEF InStep
    <3> QED
      BY Zenon, <2>1, <3>1 DEF InStep
  <2> QED
    BY Zenon, <1>5, <2>1, <2>2, BusyWithNext
<1>8. CASE CheckpointPersister(n)
  <2>1. /\ main = <<"checkpoint", n>> /\ main' = <<"kill", n>> /\ UNCHANGED <<servers, inc>>
        /\ daemon'[n] = "frozen"
    BY Zenon, <1>1, <1>8 DEF CheckpointPersister, checkpointPersister, MainStep
  <2>2. InStep(n)'
    <3>1. servers[n] = 0
      BY Zenon, <1>0, <1>4, <2>1 DEF InStep
    <3> QED
      BY Zenon, <2>1, <3>1 DEF InStep
  <2> QED
    BY Zenon, <1>5, <2>1, <2>2, BusyWithNext
<1> QED
  BY Zenon, <1>6, <1>7, <1>8 DEF DaemonNext

(* The tester goes on with the server it is busy with. *)
LEMMA MainServers ==
    ASSUME TypeOK, ServersInv, NEW n \in Node, MainNext(n)
    PROVE  ServersInv'
<1>0. /\ daemon \in [Node -> DaemonState] /\ servers \in [Node -> Nat] /\ InStep(n)
      /\ connected \subseteq Node
  BY Zenon DEF TypeOK, ServersInv
<1>1. PICK s, t : main = <<s, n>> /\ main' \in {Idle, <<t, n>>}
  BY Zenon DEF MainNext, MainStep, DialControl, SendInit, InitTooEarly, DialServer, DialFails, waitInit,
     AddServer, connect, DeleteServer, kill
<1>2. /\ \A m : Busy(m) <=> m = n
      /\ \A m : Busy(m)' => m = n
      /\ main' = <<t, n>> => Busy(n)'
  BY Zenon, <1>1, BusyWith, BusyWithNext, IdleNotBusy
<1>3. /\ UNCHANGED inc
      /\ \A m \in Node \ {n} : UNCHANGED <<daemon[m], servers[m]>>
  BY Zenon, <1>0 DEF MainNext, DialControl, SendInit, InitTooEarly, DaemonInit, DialServer, DialFails,
     waitInit, InitWait, AddServer, connect, DeleteServer, kill, DaemonStep, dmnVars
<1>4. n \notin connected
  BY Zenon, <1>2 DEF ServersInv, EndsCurrent
<1>5. ASSUME InStep(n)' PROVE \A m \in Node : InStep(m)'
  BY Zenon, <1>2, <1>3, <1>5, OthersInStep DEF ServersInv
<1>6. ASSUME InStep(n)', UNCHANGED <<connected, enabled>> PROVE ServersInv'
  <2>1. \A m \in connected : ~ Busy(m)' /\ daemon'[m] = "up"
    BY Zenon, <1>0, <1>2, <1>3, <1>4 DEF ServersInv, EndsCurrent
  <2> QED
    BY Zenon, <1>3, <1>5, <1>6, <2>1 DEF ServersInv, EndsCurrent
<1>7. CASE DialControl(n)
  <2>1. InStep(n)'
    BY Zenon, <1>0, <1>7 DEF DialControl, MainStep, InStep, dmnVars
  <2> QED
    BY Zenon, <1>6, <1>7, <2>1 DEF DialControl
<1>8. CASE SendInit(n)
  <2>1. InStep(n)'
    BY Zenon, <1>0, <1>8 DEF SendInit, DaemonInit, DaemonStep, MainStep, InStep
  <2> QED
    BY Zenon, <1>6, <1>8, <2>1 DEF SendInit
<1>9. CASE DialServer(n)
  <2>1. /\ main = <<"dial", n>> /\ main' = <<"waitInit", n>> /\ daemon[n] \in Running
        /\ UNCHANGED <<daemon, servers, connected, enabled>>
    BY Zenon, <1>9 DEF DialServer, MainStep, dmnVars
  <2>2. servers[n] = 0 /\ daemon[n] \in {"init", "listening", "serving", "exited"}
    BY Zenon, <1>0, <1>2, <2>1 DEF InStep
  <2>3. InStep(n)'
    BY Zenon, <2>1, <2>2 DEF InStep, Running
  <2> QED
    BY Zenon, <1>6, <2>1, <2>3
<1>10. CASE waitInit(n)
  <2>1. InStep(n)'
    BY Zenon, <1>0, <1>10 DEF waitInit, InitWait, DaemonStep, MainStep, InStep
  <2> QED
    BY Zenon, <1>6, <1>10, <2>1 DEF waitInit
<1>11. CASE AddServer(n)
  <2>1. /\ main = <<"AddServer", n>> /\ main' = <<"connect", n>> /\ servers'[n] = inc[n]
        /\ UNCHANGED <<daemon, connected, enabled>>
    BY Zenon, <1>0, <1>11 DEF AddServer, MainStep, dmnVars
  <2>2. daemon[n] = "up"
    BY Zenon, <1>0, <1>2, <2>1 DEF InStep
  <2>3. InStep(n)'
    BY Zenon, <1>3, <2>1, <2>2 DEF InStep
  <2> QED
    BY Zenon, <1>6, <2>1, <2>3
<1>12. CASE DeleteServer(n)
  <2>1. /\ main = <<"DeleteServer", n>> /\ main' = <<"checkpoint", n>> /\ servers'[n] = 0
        /\ UNCHANGED <<daemon, connected, enabled>>
    BY Zenon, <1>0, <1>12 DEF DeleteServer, MainStep, dmnVars
  <2>2. daemon[n] = "up"
    BY Zenon, <1>0, <1>2, <2>1 DEF InStep
  <2>3. InStep(n)'
    BY Zenon, <1>3, <2>1, <2>2 DEF InStep
  <2> QED
    BY Zenon, <1>6, <2>1, <2>3
<1>13. CASE kill(n)
  <2>1. /\ main = <<"kill", n>> /\ main' = Idle /\ daemon'[n] = "off"
        /\ UNCHANGED <<servers, connected, enabled>>
    BY Zenon, <1>0, <1>13 DEF kill, MainStep
  <2>2. servers[n] = 0
    BY Zenon, <1>0, <1>2, <2>1 DEF InStep
  <2>3. InStep(n)'
    BY Zenon, <2>1, <2>2, IdleNotBusy DEF InStep
  <2> QED
    BY Zenon, <1>6, <2>1, <2>3
<1>14. CASE connect(n)
  <2>1. /\ main = <<"connect", n>> /\ main' = Idle
        /\ connected' = connected \cup {n}
        /\ enabled' = enabled \cup UNION {Between(n, m) : m \in connected'}
        /\ UNCHANGED <<daemon, servers>>
    BY Zenon, <1>14 DEF connect, MainStep, dmnVars
  <2>2. servers[n] = inc[n] /\ daemon[n] = "up"
    BY Zenon, <1>0, <1>2, <2>1 DEF InStep
  <2>3. InStep(n)'
    BY Zenon, <1>3, <2>1, <2>2, IdleNotBusy DEF InStep
  <2>4. \A m \in connected' : ~ Busy(m)' /\ daemon'[m] = "up"
    BY Zenon, <2>1, <2>2, IdleNotBusy DEF ServersInv, EndsCurrent
  <2>5. ASSUME NEW e \in enabled'
        PROVE  e[1] \in connected' /\ e[2] = inc[e[1]]
    <3>1. CASE e \in enabled
      BY Zenon, <2>1, <3>1 DEF ServersInv, EndsCurrent
    <3>2. CASE e \notin enabled
      <4>1. PICK m \in connected' : e \in Between(n, m)
        BY Zenon, <2>1, <3>2
      <4> QED
        BY <2>1, <4>1 DEF Between
    <3> QED
      BY Zenon, <3>1, <3>2
  <2> QED
    BY Zenon, <1>3, <1>5, <2>3, <2>4, <2>5 DEF ServersInv, EndsCurrent
<1>15. CASE InitTooEarly(n)
  <2>1. /\ main = <<"init", n>> /\ main' = <<"dial", n>> /\ daemon'[n] = "exited"
        /\ UNCHANGED <<servers, connected, enabled>>
    BY Zenon, <1>0, <1>15 DEF InitTooEarly, MainStep
  <2>2. servers[n] = 0
    BY Zenon, <1>0, <1>2, <2>1 DEF InStep
  <2>3. InStep(n)'
    BY Zenon, <2>1, <2>2 DEF InStep
  <2> QED
    BY Zenon, <1>6, <2>1, <2>3
<1>16. CASE DialFails(n)
  <2>1. /\ main = <<"dial", n>> /\ main' = <<"fatal", n>> /\ daemon[n] = "exited"
        /\ UNCHANGED <<daemon, servers, connected, enabled>>
    BY Zenon, <1>16 DEF DialFails, MainStep, dmnVars
  <2>2. servers[n] = 0
    BY Zenon, <1>0, <1>2, <2>1 DEF InStep
  <2>3. InStep(n)'
    BY Zenon, <2>1, <2>2 DEF InStep
  <2> QED
    BY Zenon, <1>6, <2>1, <2>3
<1> QED
  BY Zenon, <1>7, <1>8, <1>9, <1>10, <1>11, <1>12, <1>13, <1>14, <1>15, <1>16 DEF MainNext

(* The operations of a test begin when the tester is idle. *)
LEMMA OperationServers ==
    ASSUME TypeOK, ServersInv, NEW n \in Node, StartServer(n) \/ ShutdownServer(n)
    PROVE  ServersInv'
<1>0. /\ daemon \in [Node -> DaemonState] /\ inc \in [Node -> Nat] /\ InStep(n)
      /\ connected \subseteq Node /\ main = Idle
      /\ enabled \subseteq Node \X Nat \X Node
  BY Zenon DEF TypeOK, ServersInv, StartServer, ShutdownServer
<1>1. PICK s : main' = <<s, n>>
  BY Zenon DEF StartServer, ShutdownServer
<1>2. (\A m : ~ Busy(m)) /\ \A m : Busy(m)' <=> m = n
  BY Zenon, <1>0, <1>1, IdleNotBusy, BusyWithNext
<1>3. \/ daemon[n] = "off" /\ servers[n] = 0
      \/ daemon[n] = "up" /\ servers[n] = inc[n]
  <2>1. \A x : main # <<x, n>>
    BY Zenon, <1>0, NotIdle
  <2> QED
    BY Zenon, <1>0, <2>1 DEF InStep
<1>4. \A m \in connected : daemon[m] = "up"
  BY Zenon DEF ServersInv, EndsCurrent
<1>5. \A e \in enabled : e[1] \in connected /\ e[2] = inc[e[1]]
  BY Zenon DEF ServersInv, EndsCurrent
<1>6. CASE StartServer(n)
  <2>1. /\ daemon[n] = "off" /\ main' = <<"runDaemon", n>> /\ daemon'[n] = "boot"
        /\ \A m \in Node \ {n} : UNCHANGED <<daemon[m], servers[m], inc[m]>>
        /\ UNCHANGED <<servers, connected, enabled>>
    BY Zenon, <1>0, <1>6 DEF StartServer
  <2>2. InStep(n)'
    BY Zenon, <1>3, <2>1 DEF InStep
  <2>3. \A m \in Node : InStep(m)'
    BY Zenon, <1>2, <2>1, <2>2, OthersInStep DEF ServersInv
  <2>4. n \notin connected
    BY Zenon, <1>4, <2>1
  <2>5. \A m \in connected : ~ Busy(m)' /\ daemon'[m] = "up" /\ inc'[m] = inc[m]
    BY Zenon, <1>0, <1>2, <1>4, <2>1, <2>4
  <2> QED
    BY Zenon, <1>5, <2>1, <2>3, <2>5 DEF ServersInv, EndsCurrent
<1>7. CASE ShutdownServer(n)
  <2>1. /\ daemon[n] = "up" /\ main' = <<"DeleteServer", n>>
        /\ connected' = connected \ {n}
        /\ enabled' = enabled \ UNION {Between(n, m) : m \in Node}
        /\ UNCHANGED <<servers, inc, daemon>>
    BY Zenon, <1>7 DEF ShutdownServer, dmnVars
  <2>2. InStep(n)'
    BY Zenon, <1>3, <2>1 DEF InStep
  <2>3. \A m \in Node : InStep(m)'
    BY Zenon, <1>2, <2>1, <2>2, OthersInStep DEF ServersInv
  <2>4. \A m \in connected' : ~ Busy(m)' /\ daemon'[m] = "up"
    BY Zenon, <1>2, <1>4, <2>1
  <2>5. ASSUME NEW e \in enabled'
        PROVE  e[1] \in connected' /\ e[2] = inc'[e[1]]
    <3>1. e \in enabled /\ e = <<e[1], e[2], e[3]>> /\ e[3] \in Node
      BY <1>0, <2>1
    <3>2. e \notin Between(n, e[3])
      BY Zenon, <2>1, <3>1
    <3>3. e[1] # n
      BY Zenon, <1>5, <3>1, <3>2 DEF Between
    <3> QED
      BY Zenon, <1>5, <2>1, <3>1, <3>3
  <2> QED
    BY Zenon, <2>3, <2>4, <2>5 DEF ServersInv, EndsCurrent
<1> QED
  BY Zenon, <1>6, <1>7

LEMMA ServersKept ==
    ASSUME TypeOK, ServersInv, [Next]_vars
    PROVE  ServersInv'
<1>1. CASE UNCHANGED <<main, daemon, servers, inc, connected, enabled>>
  BY Zenon, <1>1, ServersFrame
<1>2. CASE DemuxStep \/ DeleteClients \/ NetCleanup \/ UNCHANGED vars
  BY Zenon, <1>1, <1>2 DEF DemuxStep, DeleteClients, NetCleanup, vars, grpVars, dmnVars
<1>3. ASSUME NEW k \in Call,
             \/ ClientCall(k) \/ forward(k) \/ NoServer(k) \/ dispatch(k) \/ StopWaiting(k)
             \/ HandlerReturned(k) \/ DropRequest(k) \/ DropReply(k) \/ readEndnameInfo(k)
      PROVE  ServersInv'
  BY Zenon, <1>1, <1>3 DEF ClientCall, forward, NoServer, dispatch, StopWaiting, HandlerReturned,
     DropRequest, DropReply, readEndnameInfo, Reply, grpVars, dmnVars
<1>4. ASSUME NEW k \in Call,
             ServeRequest(k) \/ AnswerRequest(k) \/ Forward(k) \/ ForwardReturns(k)
      PROVE  ServersInv'
  BY Zenon, <1>1, <1>4 DEF ServeRequest, AnswerRequest, Forward, ForwardReturns, grpVars, dmnVars
<1> QED
  BY Zenon, <1>2, <1>3, <1>4, DaemonServers, MainServers, OperationServers DEF Next, Step, NetStep

(***************************************************************************)
(* The types.  Those of the connections and of the incarnations are parts  *)
(* of DemuxInv and Incarnations.                                           *)
(***************************************************************************)
Steps == {"runDaemon", "init", "dial", "waitInit", "AddServer", "connect", "DeleteServer",
          "checkpoint", "kill", "fatal"}

GroupTypes ==
    /\ main \in {Idle} \cup Steps \X Node
    /\ connected \subseteq Node
    /\ enabled \subseteq Node \X Nat \X Node
    /\ clients \in BOOLEAN /\ netDone \in BOOLEAN
    /\ daemon \in [Node -> DaemonState]

DataTypes ==
    /\ saved \in [Node -> SUBSET Call] /\ persister \in [Node -> SUBSET Call]
    /\ unknown \in BOOLEAN
    /\ net \in [Call -> {"idle", "sent", "picked", "true", "false"}]
    /\ org \in [Call -> Nat]

LEMMA TypeParts ==
    ASSUME Incarnations, DemuxInv
    PROVE  TypeOK <=> GroupTypes /\ DataTypes
<1>1. DemuxTypeOK
  <2>1. TagsAndFrames
    BY Zenon DEF DemuxInv
  <2> QED
    BY Zenon, <2>1 DEF TagsAndFrames, DemuxTypeOK, Tag
<1> QED
  BY Zenon, <1>1 DEF TypeOK, GroupTypes, DataTypes, Steps, Incarnations

LEMMA TypePartsNext ==
    ASSUME Incarnations', DemuxInv', GroupTypes', DataTypes'
    PROVE  TypeOK'
<1>1. DemuxTypeOK'
  <2>1. TagsAndFrames'
    BY Zenon DEF DemuxInv
  <2> QED
    BY Zenon, <2>1 DEF TagsAndFrames, DemuxTypeOK, Tag
<1> QED
  BY Zenon, <1>1 DEF TypeOK, GroupTypes, DataTypes, Steps, Incarnations

LEMMA GroupTypesKept ==
    ASSUME GroupTypes, Incarnations, [Next]_vars
    PROVE  GroupTypes'
<1>0. inc \in [Node -> Nat]
  BY Zenon DEF Incarnations
<1>1. CASE UNCHANGED <<main, connected, enabled, clients, netDone, daemon>>
  BY Zenon, <1>1 DEF GroupTypes
<1>2. CASE DemuxStep \/ UNCHANGED vars
  BY Zenon, <1>1, <1>2 DEF DemuxStep, vars, grpVars, dmnVars
<1>3. ASSUME NEW k \in Call,
             \/ ClientCall(k) \/ forward(k) \/ NoServer(k) \/ dispatch(k) \/ StopWaiting(k)
             \/ HandlerReturned(k) \/ DropRequest(k) \/ DropReply(k) \/ readEndnameInfo(k)
      PROVE  GroupTypes'
  BY Zenon, <1>1, <1>3 DEF ClientCall, forward, NoServer, dispatch, StopWaiting, HandlerReturned,
     DropRequest, DropReply, readEndnameInfo, Reply, grpVars, dmnVars
<1>4. ASSUME NEW k \in Call,
             ServeRequest(k) \/ AnswerRequest(k) \/ Forward(k) \/ ForwardReturns(k)
      PROVE  GroupTypes'
  BY Zenon, <1>1, <1>4 DEF ServeRequest, AnswerRequest, Forward, ForwardReturns, grpVars, dmnVars
<1>5. ASSUME NEW n \in Node, NEW from, NEW to \in DaemonState, DaemonStep(n, from, to)
      PROVE  daemon' \in [Node -> DaemonState]
  BY Zenon, <1>5 DEF DaemonStep, GroupTypes
<1>6. ASSUME NEW n \in Node, NEW from, NEW to \in Steps \cup {"idle"}, MainStep(n, from, to)
      PROVE  main' \in {Idle} \cup Steps \X Node
  BY Zenon, <1>6 DEF MainStep
<1>7. ASSUME NEW n \in Node, ConnectToTester(n) \/ NewRPCSrv(n) \/ AddService(n)
      PROVE  GroupTypes'
  <2>1. daemon' \in [Node -> DaemonState]
    BY Zenon, <1>5, <1>7 DEF ConnectToTester, NewRPCSrv, AddService, DaemonState, Unsaved, Running
  <2> QED
    BY Zenon, <1>7, <2>1 DEF ConnectToTester, NewRPCSrv, AddService, GroupTypes, grpVars
<1>8. ASSUME NEW n \in Node, CheckpointCloses(n) PROVE GroupTypes'
  <2>1. daemon' \in [Node -> DaemonState]
    BY Zenon, <1>5, <1>8 DEF CheckpointCloses, DaemonState, Unsaved, Running
  <2> QED
    BY Zenon, <1>8, <2>1 DEF CheckpointCloses, GroupTypes, grpVars
<1>9. ASSUME NEW n \in Node, CheckpointPersister(n) PROVE GroupTypes'
  <2>1. daemon' \in [Node -> DaemonState] /\ main' \in {Idle} \cup Steps \X Node
    BY Zenon, <1>5, <1>6, <1>9
    DEF CheckpointPersister, checkpointPersister, DaemonState, Unsaved, Running, Steps
  <2> QED
    BY Zenon, <1>9, <2>1 DEF CheckpointPersister, GroupTypes
<1>10. ASSUME NEW n \in Node,
              DialControl(n) \/ SendInit(n) \/ DialServer(n) \/ DialFails(n) \/ waitInit(n)
       PROVE  GroupTypes'
  <2>1. main' \in {Idle} \cup Steps \X Node
    BY Zenon, <1>6, <1>10 DEF DialControl, SendInit, DialServer, DialFails, waitInit, Steps
  <2>2. daemon' = daemon \/ daemon' \in [Node -> DaemonState]
    BY Zenon, <1>5, <1>10 DEF DialControl, SendInit, DaemonInit, DialServer, DialFails, waitInit, InitWait,
       DaemonState, Unsaved, Running, dmnVars
  <2> QED
    BY Zenon, <1>10, <2>1, <2>2 DEF DialControl, SendInit, DialServer, DialFails, waitInit, GroupTypes
<1>11. ASSUME NEW n \in Node, AddServer(n) \/ DeleteServer(n) \/ kill(n) \/ InitTooEarly(n)
       PROVE  GroupTypes'
  <2>1. main' \in {Idle} \cup Steps \X Node
    BY Zenon, <1>6, <1>11 DEF AddServer, DeleteServer, kill, InitTooEarly, Steps
  <2>2. daemon' = daemon \/ \E s \in {"off", "exited"} : daemon' = [daemon EXCEPT ![n] = s]
    BY Zenon, <1>11 DEF AddServer, DeleteServer, kill, InitTooEarly, dmnVars
  <2>3. UNCHANGED <<connected, enabled, clients, netDone>>
    BY Zenon, <1>11 DEF AddServer, DeleteServer, kill, InitTooEarly
  <2> QED
    BY Zenon, <2>1, <2>2, <2>3 DEF GroupTypes, DaemonState, Unsaved
<1>12. ASSUME NEW n \in Node, connect(n) PROVE GroupTypes'
  <2>1. main' \in {Idle} \cup Steps \X Node
    BY Zenon, <1>6, <1>12 DEF connect
  <2>2. connected' \subseteq Node
    BY Zenon, <1>12 DEF connect, GroupTypes
  <2>3. \A m \in connected' : Between(n, m) \subseteq Node \X Nat \X Node
    BY <1>0, <2>2 DEF Between
  <2>4. enabled' \subseteq Node \X Nat \X Node
    BY <1>12, <2>3 DEF connect, GroupTypes
  <2> QED
    BY Zenon, <1>12, <2>1, <2>2, <2>4 DEF connect, GroupTypes, dmnVars
<1>13. ASSUME NEW n \in Node, StartServer(n) \/ ShutdownServer(n) PROVE GroupTypes'
  <2>1. main' \in {Idle} \cup Steps \X Node
    BY <1>13 DEF StartServer, ShutdownServer, Steps
  <2>2. daemon' = daemon \/ daemon' = [daemon EXCEPT ![n] = "boot"]
    BY Zenon, <1>13 DEF StartServer, ShutdownServer, dmnVars
  <2>3. /\ connected' \subseteq connected /\ enabled' \subseteq enabled
        /\ UNCHANGED <<clients, netDone>>
    BY Zenon, <1>13 DEF StartServer, ShutdownServer
  <2> QED
    BY Zenon, <2>1, <2>2, <2>3 DEF GroupTypes, DaemonState, Unsaved
<1>14. CASE DeleteClients \/ NetCleanup
  BY Zenon, <1>14 DEF DeleteClients, NetCleanup, GroupTypes, dmnVars
<1> QED
  BY Zenon, <1>2, <1>3, <1>4, <1>7, <1>8, <1>9, <1>10, <1>11, <1>12, <1>13, <1>14
  DEF Next, Step, NetStep, DaemonNext, MainNext

LEMMA DataTypesKept ==
    ASSUME DataTypes, Incarnations, [Next]_vars
    PROVE  DataTypes'
<1>0. inc \in [Node -> Nat] /\ \A k \in Call : Target[k] \in Node
  BY Zenon, TargetNode DEF Incarnations
<1>1. CASE UNCHANGED <<saved, persister, unknown, net, org>>
  BY Zenon, <1>1 DEF DataTypes
<1>2. CASE DemuxStep \/ DeleteClients \/ NetCleanup \/ UNCHANGED vars
  BY Zenon, <1>1, <1>2 DEF DemuxStep, DeleteClients, NetCleanup, vars, netVars, grpVars, dmnVars
<1>3. ASSUME NEW k \in Call, NEW x \in {"idle", "sent", "picked", "true", "false"},
             net' = [net EXCEPT ![k] = x], UNCHANGED <<saved, persister, unknown, org>>
      PROVE  DataTypes'
  BY Zenon, <1>3 DEF DataTypes
<1>4. ASSUME NEW k \in Call,
             \/ NoServer(k) \/ StopWaiting(k) \/ HandlerReturned(k) \/ DropRequest(k)
             \/ DropReply(k) \/ readEndnameInfo(k)
      PROVE  DataTypes'
  BY Zenon, <1>3, <1>4 DEF NoServer, StopWaiting, HandlerReturned, DropRequest, DropReply,
     readEndnameInfo, Reply, grpVars, dmnVars
<1>5. ASSUME NEW k \in Call, ClientCall(k) \/ Forward(k) PROVE DataTypes'
  BY Zenon, <1>3, <1>5 DEF ClientCall, Forward, Request, grpVars, dmnVars
<1>6. ASSUME NEW k \in Call, dispatch(k) \/ AnswerRequest(k) \/ ForwardReturns(k)
      PROVE  DataTypes'
  BY Zenon, <1>1, <1>6 DEF dispatch, AnswerRequest, ForwardReturns, netVars, grpVars, dmnVars
<1>7. ASSUME NEW k \in Call, forward(k) PROVE DataTypes'
  <2>1. org' = [org EXCEPT ![k] = inc[Origin[k]]] /\ inc[Origin[k]] \in Nat
    BY Zenon, <1>0, <1>7 DEF forward
  <2> QED
    BY Zenon, <1>7, <2>1 DEF forward, DataTypes, grpVars, dmnVars
<1>8. ASSUME NEW k \in Call, ServeRequest(k) PROVE DataTypes'
  <2>1. persister' \in [Node -> SUBSET Call]
    BY Zenon, <1>0, <1>8 DEF ServeRequest, Save, DataTypes
  <2>2. unknown' \in BOOLEAN
    BY Zenon, <1>8 DEF ServeRequest
  <2> QED
    BY Zenon, <1>8, <2>1, <2>2 DEF ServeRequest, DataTypes, netVars, grpVars
<1>9. ASSUME NEW n \in Node,
             \/ ConnectToTester(n) \/ NewRPCSrv(n) \/ AddService(n) \/ CheckpointCloses(n)
      PROVE  DataTypes'
  BY Zenon, <1>1, <1>9 DEF ConnectToTester, NewRPCSrv, AddService, CheckpointCloses, netVars, grpVars
<1>10. ASSUME NEW n \in Node, CheckpointPersister(n) PROVE DataTypes'
  <2>1. saved' = [saved EXCEPT ![n] = persister[n]]
    BY Zenon, <1>10 DEF CheckpointPersister, checkpointPersister, Checkpoint
  <2> QED
    BY Zenon, <1>10, <2>1 DEF CheckpointPersister, DataTypes, netVars
<1>11. ASSUME NEW n \in Node, SendInit(n) PROVE DataTypes'
  <2>1. persister' = [persister EXCEPT ![n] = saved[n]]
    BY Zenon, <1>11 DEF SendInit, DaemonInit, Save
  <2> QED
    BY Zenon, <1>11, <2>1 DEF SendInit, DataTypes, netVars
<1>12. ASSUME NEW n \in Node,
              \/ DialControl(n) \/ InitTooEarly(n) \/ DialServer(n) \/ DialFails(n) \/ waitInit(n)
              \/ AddServer(n) \/ connect(n) \/ DeleteServer(n) \/ kill(n) \/ StartServer(n) \/ ShutdownServer(n)
       PROVE  DataTypes'
  BY Zenon, <1>1, <1>12 DEF DialControl, InitTooEarly, DialServer, DialFails, waitInit, AddServer,
     connect, DeleteServer, kill, StartServer, ShutdownServer, netVars, dmnVars
<1> QED
  BY ZenonT(40), <1>2, <1>4, <1>5, <1>6, <1>7, <1>8, <1>9, <1>10, <1>11, <1>12
  DEF Next, Step, NetStep, DaemonNext, MainNext

-----------------------------------------------------------------------------
(***************************************************************************)
(* The calls.  Most steps of the connections are quiet: they make no call, *)
(* and leave the tester's connections to the servers as they are.          *)
(***************************************************************************)
Quiet ==
    /\ \A c \in Conn : c[1] = "down" => conn'[c] = conn[c]
    /\ \A f \in calls' \cup Travelling' : f \in calls \cup Travelling
    /\ \A f \in toSrv' \cup serving' : f \in toSrv \cup serving \/ conn[f[1]] = "open"
    /\ \A r \in Rpc : rpc'[r] = "idle" <=> rpc[r] = "idle"
    /\ ResultThere'

LEMMA NoChangeIsQuiet ==
    ASSUME ResultThere, UNCHANGED demuxVars
    PROVE  Quiet /\ \A k \in Call : Served(k)' => Served(k)
  BY Zenon DEF Quiet, ResultThere, Served, Travelling, demuxVars, clntVars

(* The steps of the client's end while calls are under way. *)
LEMMA ReplyIsQuiet ==
    ASSUME DemuxInv, ResultThere, NEW c \in Conn, NEW t \in Nat, NEW val,
           val \in Rpc \cup {Failed}, reply(c, t, val)
    PROVE  /\ calls' \subseteq calls
           /\ \A r \in Rpc : rpc'[r] = "idle" <=> rpc[r] = "idle"
           /\ ResultThere'
           /\ \A r \in Rpc : got'[r] = got[r] \/ got'[r] = val
<1>0. rpc \in [Rpc -> {"idle", "put", "waiting", "returned"}]
      /\ got \in [Rpc -> Rpc \cup {NoReply, Failed}]
  BY Zenon DEF DemuxInv, TagsAndFrames
<1>1. CASE UNCHANGED <<calls, rpc, got>>
  BY Zenon, <1>1 DEF ResultThere
<1>2. CASE \E r \in Rpc :
            /\ rpc[r] = "waiting"
            /\ calls' = remove(c, t, r)
            /\ rpc' = [rpc EXCEPT ![r] = "returned"]
            /\ got' = [got EXCEPT ![r] = val]
  <2>1. PICK r \in Rpc :
            /\ rpc[r] = "waiting"
            /\ calls' = remove(c, t, r)
            /\ rpc' = [rpc EXCEPT ![r] = "returned"]
            /\ got' = [got EXCEPT ![r] = val]
    BY Zenon, <1>2
  <2>2. val # NoReply
    BY Zenon, DemuxAssumption
  <2>3. \A q \in Rpc : /\ rpc'[q] = IF q = r THEN "returned" ELSE rpc[q]
                       /\ got'[q] = IF q = r THEN val ELSE got[q]
    BY Zenon, <1>0, <2>1
  <2>4. ResultThere'
    BY Zenon, <2>2, <2>3 DEF ResultThere
  <2> QED
    BY <2>1, <2>3, <2>4 DEF remove
<1> QED
  BY Zenon, <1>1, <1>2 DEF reply

LEMMA DemuxStepQuiet ==
    ASSUME DemuxInv, ResultThere, DemuxStep
    PROVE  Quiet /\ \A k \in Call : Served(k)' => Served(k)
<1>0. /\ rpc \in [Rpc -> {"idle", "put", "waiting", "returned"}]
      /\ got \in [Rpc -> Rpc \cup {NoReply, Failed}]
      /\ calls \subseteq Frame /\ toClnt \subseteq Frame
      /\ todo \in [Conn -> SUBSET Nat]
  BY Zenon DEF DemuxInv, TagsAndFrames
<1>1. PICK c \in Conn :
            \/ \E f \in Of(c, calls) : WriteCall(c, f[2], f[3])
            \/ ReadReply(c) \/ ReadError(c) \/ ReplyFail(c)
  BY Zenon DEF DemuxStep
<1>2. CASE \E f \in Of(c, calls) : WriteCall(c, f[2], f[3])
  <2>1. PICK f \in calls : f[1] = c /\ WriteCall(c, f[2], f[3])
    BY Zenon, <1>2 DEF Of
  <2>2. f = <<c, f[2], f[3]>> /\ f[3] \in Rpc
    BY Zenon, <1>0, <2>1, FrameParts
  <2>3. /\ toSrv' \subseteq toSrv \cup {f} /\ (conn[c] # "open" => toSrv' = toSrv)
        /\ rpc[f[3]] = "put" /\ rpc' = [rpc EXCEPT ![f[3]] = "waiting"]
        /\ UNCHANGED <<conn, calls, got, toClnt, serving>>
    BY Zenon, <2>1, <2>2 DEF WriteCall
  <2>4. \A q \in Rpc : rpc'[q] = IF q = f[3] THEN "waiting" ELSE rpc[q]
    BY Zenon, <1>0, <2>2, <2>3
  <2>5. ResultThere' /\ \A r \in Rpc : rpc'[r] = "idle" <=> rpc[r] = "idle"
    BY <2>2, <2>3, <2>4 DEF ResultThere
  <2>6. \A g \in toSrv' \cup serving' : g \in toSrv \cup serving \/ conn[g[1]] = "open"
    BY Zenon, <2>1, <2>3
  <2>7. \A g \in calls' \cup Travelling' : g \in calls \cup Travelling
    BY Zenon, <2>1, <2>3 DEF Travelling
  <2> QED
    BY Zenon, <2>3, <2>5, <2>6, <2>7 DEF Quiet, Served
<1>3. CASE ReadReply(c)
  <2>1. PICK f \in toClnt : reply(c, f[2], f[3]) /\ toClnt' = toClnt \ {f}
    BY Zenon, <1>3 DEF ReadReply, Of
  <2>2. f[2] \in Nat /\ f[3] \in Rpc
    BY Zenon, <1>0, <2>1, FrameParts
  <2>3. /\ calls' \subseteq calls
        /\ \A r \in Rpc : rpc'[r] = "idle" <=> rpc[r] = "idle"
        /\ ResultThere'
        /\ \A r \in Rpc : got'[r] = got[r] \/ got'[r] = f[3]
    BY <2>1, <2>2, ReplyIsQuiet
  <2>4. UNCHANGED <<conn, toSrv, serving>>
    BY Zenon, <1>3 DEF ReadReply
  <2>5. Quiet
    BY Zenon, <2>1, <2>3, <2>4 DEF Quiet, Travelling
  <2>6. ASSUME NEW k \in Call, Served(k)' PROVE Served(k)
    BY Zenon, <2>1, <2>3, <2>4, <2>6, RpcOf DEF Served
  <2> QED
    BY Zenon, <2>5, <2>6
<1>4. CASE ReplyFail(c)
  <2>1. PICK t \in todo[c] : reply(c, t, Failed)
    BY Zenon, <1>4 DEF ReplyFail
  <2>2. t \in Nat
    BY Zenon, <1>0, <2>1
  <2>3. /\ calls' \subseteq calls
        /\ \A r \in Rpc : rpc'[r] = "idle" <=> rpc[r] = "idle"
        /\ ResultThere'
        /\ \A r \in Rpc : got'[r] = got[r] \/ got'[r] = Failed
    BY Zenon, <2>1, <2>2, ReplyIsQuiet
  <2>4. UNCHANGED <<conn, toSrv, serving, toClnt>>
    BY Zenon, <1>4 DEF ReplyFail
  <2>5. Quiet
    BY Zenon, <2>3, <2>4 DEF Quiet, Travelling
  <2>6. ASSUME NEW k \in Call, Served(k)' PROVE Served(k)
    BY ZenonT(40), <2>3, <2>4, <2>6, RpcOf, DemuxAssumption DEF Served
  <2> QED
    BY Zenon, <2>5, <2>6
<1>5. CASE ReadError(c)
  BY Zenon, <1>5 DEF ReadError, Quiet, ResultThere, Served, Travelling
<1> QED
  BY Zenon, <1>1, <1>2, <1>3, <1>4, <1>5

CallsInv ==
    /\ OpenCurrent /\ ResultThere /\ ServicesReady
    /\ \A k \in Call : CallInv(k) /\ FramesRouted(k) /\ SavedInv(k)

LEMMA InvParts == IInv <=> TypeOK /\ DemuxInv /\ Incarnations /\ ServersInv /\ CallsInv
  BY Zenon DEF IInv, ServersInv, CallsInv

(* A request goes on over the connection it was given to. *)
LEMMA QuietFrames ==
    ASSUME DemuxInv, Incarnations, DemuxInv', Quiet, UNCHANGED <<route, srv>>,
           NEW k \in Call, FramesRouted(k)
    PROVE  FramesRouted(k)'
<1>0. Target' = Target
  BY Zenon DEF Target
<1>1. ASSUME NEW f \in calls' \cup Travelling', f[3] = <<"down", k>>
      PROVE  f[1] = Down(Target[k], srv[k])
  BY Zenon, <1>1 DEF Quiet, FramesRouted
<1>2. ASSUME NEW f \in toSrv' \cup serving', f[3] = <<"down", k>>
      PROVE  conn'[f[1]] = "open"
  <2>1. conn[f[1]] = "open"
    BY Zenon, <1>2 DEF Quiet, FramesRouted
  <2>2. f \in Frame
    BY Zenon DEF DemuxInv, TagsAndFrames
  <2>3. f[1] \in Conn /\ f[1] = Down(Target[k], srv[k])
    BY Zenon, <1>1, <1>2, <2>2, FrameParts DEF Travelling
  <2> QED
    BY <2>1, <2>3 DEF Quiet, Down
<1> QED
  BY Zenon, <1>0, <1>1, <1>2 DEF FramesRouted, Down

(* A quiet step while the servers stay as they are: a call returns true     *)
(* only when its update is in the persister of a server that is up.         *)
LEMMA QuietCalls ==
    ASSUME IInv, DemuxInv', Quiet,
           UNCHANGED <<route, srv, inc, daemon, persister, saved, unknown>>,
           \A k \in Call : Served(k)' => Served(k),
           \A k \in Call : srv[k] # 0 => net'[k] \notin {"idle", "sent"},
           \A k \in Call : net'[k] = "true" =>
                net[k] = "true" \/ (k \in persister[Target[k]] /\ daemon[Target[k]] = "up")
    PROVE  CallsInv'
<1>0. DemuxInv /\ Incarnations /\ Target' = Target
  BY Zenon DEF IInv, Target
<1>1. OpenCurrent'
  <2>1. ASSUME NEW n \in Node, NEW i \in 1 .. MaxInc[n]
        PROVE  conn'[Down(n, i)] = conn[Down(n, i)]
    <3>1. i \in Nat /\ 1 <= i /\ i <= MaxInc[n]
      BY TesterAssumption
    <3>2. Down(n, i) \in Conn
      BY Zenon, <3>1, ConnOf
    <3> QED
      BY Zenon, <3>2 DEF Quiet, Down
  <2> QED
    BY Zenon, <2>1 DEF IInv, OpenCurrent, Down
<1>2. ServicesReady'
  BY Zenon DEF IInv, ServicesReady
<1>3. ASSUME NEW k \in Call PROVE CallInv(k)'
  <2>1. CallInv(k) /\ <<"down", k>> \in Rpc
    BY Zenon, RpcOf DEF IInv
  <2>2. rpc'[<<"down", k>>] = "idle" <=> rpc[<<"down", k>>] = "idle"
    BY Zenon, <2>1 DEF Quiet
  <2> QED
    BY Zenon, <1>0, <2>1, <2>2 DEF CallInv
<1>4. ASSUME NEW k \in Call PROVE FramesRouted(k)'
  BY Zenon, <1>0, QuietFrames DEF IInv
<1>5. ASSUME NEW k \in Call PROVE SavedInv(k)'
  <2>1. SavedInv(k)
    BY Zenon DEF IInv
  <2> QED
    BY Zenon, <1>0, <2>1 DEF SavedInv, Durable, Unsaved
<1> QED
  BY Zenon, <1>1, <1>2, <1>3, <1>4, <1>5 DEF CallsInv, Quiet

(* Steps of the network alone. *)
LEMMA NetCalls ==
    ASSUME IInv, DemuxInv', NEW k \in Call,
           \/ ClientCall(k) \/ NoServer(k) \/ StopWaiting(k) \/ HandlerReturned(k)
           \/ DropRequest(k) \/ DropReply(k)
    PROVE  CallsInv'
<1>0. /\ net \in [Call -> {"idle", "sent", "picked", "true", "false"}]
      /\ ResultThere /\ DemuxInv /\ Target[k] \in Node
  BY Zenon, TargetNode DEF IInv, TypeOK
<1>1. /\ UNCHANGED demuxVars
      /\ UNCHANGED <<route, srv, inc, daemon, persister, saved, unknown>>
  BY Zenon DEF ClientCall, NoServer, StopWaiting, HandlerReturned, DropRequest, DropReply, Reply,
     grpVars, dmnVars
<1>2. PICK x : net' = [net EXCEPT ![k] = x]
  BY Zenon DEF ClientCall, NoServer, StopWaiting, HandlerReturned, DropRequest, DropReply, Reply,
     Request
<1>3. \A j \in Call : net'[j] = IF j = k THEN x ELSE net[j]
  BY Zenon, <1>0, <1>2
<1>4. srv[k] # 0 => net'[k] \notin {"idle", "sent"}
  <2>1. srv[k] # 0 => net[k] \notin {"idle", "sent"}
    BY Zenon DEF IInv, CallInv
  <2> QED
    BY Zenon, <1>0, <2>1 DEF ClientCall, NoServer, StopWaiting, HandlerReturned, DropRequest,
       DropReply, Reply
<1>5. net'[k] = "true" => k \in persister[Target[k]] /\ daemon[Target[k]] = "up"
  <2> SUFFICES ASSUME net'[k] = "true"
               PROVE  k \in persister[Target[k]] /\ daemon[Target[k]] = "up"
    BY Zenon
  <2>1. /\ rpc[<<"down", k>>] = "returned"
        /\ ~ isServerDead(k) /\ Answered(k)
    BY Zenon, <1>0 DEF ClientCall, NoServer, StopWaiting, HandlerReturned, DropRequest, DropReply,
       Reply, Request
  <2>2. srv[k] # 0 /\ servers[Target[k]] = srv[k]
    BY Zenon, <2>1 DEF isServerDead, IInv, CallInv
  <2>3. daemon[Target[k]] = "up" /\ srv[k] = inc[Target[k]]
    <3>1. InStep(Target[k])
      BY Zenon, <1>0 DEF IInv
    <3> QED
      BY Zenon, <2>2, <3>1 DEF InStep
  <2>4. <<"down", k>> \in Rpc
    BY Zenon, RpcOf
  <2>5. got[<<"down", k>>] = <<"down", k>>
    BY Zenon, <1>0, <2>1, <2>4 DEF ResultThere, Answered, DemuxInv, OwnReply
  <2>6. Served(k) /\ SavedInv(k)
    BY Zenon, <2>5 DEF Served, IInv
  <2> QED
    BY Zenon, <2>3, <2>6 DEF SavedInv, Running
<1>6. Quiet /\ \A j \in Call : Served(j)' => Served(j)
  BY Zenon, <1>0, <1>1, NoChangeIsQuiet
<1>7. \A j \in Call : srv[j] # 0 => net'[j] \notin {"idle", "sent"}
  BY Zenon, <1>3, <1>4 DEF IInv, CallInv
<1>8. \A j \in Call : net'[j] = "true" =>
            net[j] = "true" \/ (j \in persister[Target[j]] /\ daemon[Target[j]] = "up")
  BY Zenon, <1>3, <1>5
<1> QED
  BY Zenon, <1>1, <1>6, <1>7, <1>8, QuietCalls

(* readEndnameInfo gives the call to a server that is up, and no other. *)
LEMMA PickCalls ==
    ASSUME IInv, DemuxInv', NEW k \in Call, readEndnameInfo(k)
    PROVE  CallsInv'
<1>0. /\ net \in [Call -> {"idle", "sent", "picked", "true", "false"}]
      /\ srv \in [Call -> Nat]
      /\ ResultThere /\ DemuxInv /\ Target[k] \in Node /\ <<"down", k>> \in Rpc
  BY Zenon, TargetNode, RpcOf DEF IInv, TypeOK
<1>1. /\ net[k] = "sent" /\ net' = [net EXCEPT ![k] = "picked"]
      /\ servers[Target[k]] # 0 /\ srv' = [srv EXCEPT ![k] = servers[Target[k]]]
      /\ UNCHANGED <<route, inc, daemon, persister, saved, unknown>>
      /\ UNCHANGED <<conn, calls, toSrv, serving, toClnt, rpc, got>>
  BY Zenon DEF readEndnameInfo, grpVars, dmnVars, demuxVars, clntVars
<1>2. Target' = Target
  BY Zenon, <1>1 DEF Target
<1>3. daemon[Target[k]] = "up" /\ servers[Target[k]] = inc[Target[k]]
  <2>1. InStep(Target[k])
    BY Zenon, <1>0 DEF IInv
  <2> QED
    BY Zenon, <1>1, <2>1 DEF InStep
<1>4. srv[k] = 0 /\ rpc[<<"down", k>>] = "idle"
  BY Zenon, <1>1 DEF IInv, CallInv
<1>5. got[<<"down", k>>] = NoReply
  BY Zenon, <1>0, <1>4 DEF ResultThere
<1>6. ASSUME NEW f \in calls \cup Travelling PROVE f[3] # <<"down", k>>
  BY Zenon, <1>0, <1>4 DEF DemuxInv, EntriesLive, FramesMatched
<1>7. ~ Served(k)
  <2>1. <<"down", k>> # NoReply
    BY Zenon, <1>0, DemuxAssumption
  <2> QED
    BY Zenon, <1>5, <1>6, <2>1 DEF Served, Travelling
<1>8. \A j \in Call : /\ j # k => net'[j] = net[j] /\ srv'[j] = srv[j]
                      /\ j = k => net'[j] = "picked" /\ srv'[j] = inc[Target[k]]
  BY Zenon, <1>0, <1>1, <1>3
<1>9. ASSUME NEW j \in Call PROVE CallInv(j)' /\ FramesRouted(j)' /\ SavedInv(j)'
  <2>1. CallInv(j) /\ FramesRouted(j) /\ SavedInv(j)
    BY Zenon DEF IInv
  <2>2. CallInv(j)'
    <3>1. CASE j = k
      <4>1. inc[Target[k]] # 0
        BY Zenon, <1>1, <1>3
      <4> QED
        BY Zenon, <1>1, <1>2, <1>3, <1>8, <3>1, <4>1 DEF CallInv
    <3>2. CASE j # k
      BY Zenon, <1>1, <1>2, <1>8, <2>1, <3>2 DEF CallInv
    <3> QED
      BY Zenon, <3>1, <3>2
  <2>3. FramesRouted(j)'
    <3>1. CASE j = k
      <4>1. \A f \in calls' \cup Travelling' : f[3] # <<"down", k>>
        BY Zenon, <1>1, <1>6 DEF Travelling
      <4> QED
        BY Zenon, <3>1, <4>1 DEF FramesRouted, Travelling
    <3>2. CASE j # k
      BY ZenonT(40), <1>1, <1>2, <1>8, <2>1, <3>2 DEF FramesRouted, Travelling, Down
    <3> QED
      BY Zenon, <3>1, <3>2
  <2>4. Served(j)' <=> Served(j)
    BY Zenon, <1>1 DEF Served
  <2>5. SavedInv(j)'
    BY Zenon, <1>1, <1>2, <1>7, <1>8, <2>1, <2>4 DEF SavedInv, Durable
  <2> QED
    BY Zenon, <2>2, <2>3, <2>5
<1>10. OpenCurrent' /\ ResultThere' /\ ServicesReady'
  BY Zenon, <1>0, <1>1 DEF IInv, OpenCurrent, ResultThere, ServicesReady, Down
<1> QED
  BY Zenon, <1>9, <1>10 DEF CallsInv

(* A goroutine begins a SendReceive. *)
LEMMA SendCalls ==
    ASSUME IInv, DemuxInv', NEW k \in Call, dispatch(k) \/ forward(k)
    PROVE  CallsInv'
<1>0. /\ rpc \in [Rpc -> {"idle", "put", "waiting", "returned"}]
      /\ got \in [Rpc -> Rpc \cup {NoReply, Failed}]
      /\ ResultThere /\ \A j \in Call : <<"down", j>> \in Rpc /\ <<"up", j>> \in Rpc
  BY Zenon, RpcOf DEF IInv, DemuxInv, TagsAndFrames
<1>1. PICK c, r :
        /\ SendReceive(c, r)
        /\ \/ r = <<"down", k>> /\ c = Down(Target[k], srv[k]) /\ srv[k] # 0
           \/ r = <<"up", k>>
  BY Zenon DEF dispatch, forward
<1>2. UNCHANGED <<route, net, srv, inc, daemon, persister, saved, unknown>>
  BY Zenon DEF dispatch, forward, netVars, grpVars, dmnVars
<1>3. /\ calls' \subseteq calls \cup {<<c, nextTag[c], r>>}
      /\ UNCHANGED <<conn, toSrv, serving, toClnt>>
      /\ r \in Rpc
  BY Zenon, <1>0, <1>1 DEF SendReceive, put
<1>4. \/ rpc' = [rpc EXCEPT ![r] = "returned"] /\ got' = [got EXCEPT ![r] = Failed]
      \/ rpc' = [rpc EXCEPT ![r] = "put"] /\ got' = got
  BY Zenon, <1>1 DEF SendReceive
<1>5. rpc[r] = "idle" /\ NoReply # Failed /\ Failed \notin Rpc
  BY Zenon, <1>1, DemuxAssumption DEF SendReceive
<1>6. ResultThere'
  BY Zenon, <1>0, <1>3, <1>4, <1>5 DEF ResultThere
<1>7. Target' = Target
  BY Zenon, <1>2 DEF Target
<1>8. ASSUME NEW j \in Call PROVE CallInv(j)' /\ FramesRouted(j)' /\ SavedInv(j)'
  <2>1. CallInv(j) /\ FramesRouted(j) /\ SavedInv(j) /\ <<"down", j>> \in Rpc
    BY Zenon, <1>0 DEF IInv
  <2>2. \/ r = <<"down", j>> /\ j = k /\ c = Down(Target[j], srv[j]) /\ srv[j] # 0
        \/ r # <<"down", j>>
    BY <1>1
  <2>3. r # <<"down", j>> => rpc'[<<"down", j>>] = rpc[<<"down", j>>]
    BY Zenon, <1>0, <1>4, <2>1
  <2>4. CallInv(j)'
    BY Zenon, <1>2, <1>7, <2>1, <2>2, <2>3 DEF CallInv
  <2>5. FramesRouted(j)'
    <3>1. ASSUME NEW f \in calls' \cup Travelling', f[3] = <<"down", j>>
          PROVE  f[1] = Down(Target[j], srv[j])
      <4>1. CASE f \in calls \cup Travelling
        BY Zenon, <2>1, <3>1, <4>1 DEF FramesRouted
      <4>2. CASE f \notin calls \cup Travelling
        <5>1. f = <<c, nextTag[c], r>>
          BY Zenon, <1>3, <4>2 DEF Travelling
        <5> QED
          BY Zenon, <2>2, <3>1, <5>1
      <4> QED
        BY Zenon, <4>1, <4>2
    <3>2. \A f \in toSrv' \cup serving' : f[3] = <<"down", j>> => conn'[f[1]] = "open"
      BY Zenon, <1>3, <2>1 DEF FramesRouted
    <3> QED
      BY Zenon, <1>2, <1>7, <3>1, <3>2 DEF FramesRouted, Down
  <2>6. got'[<<"down", j>>] = got[<<"down", j>>] \/ got'[<<"down", j>>] = Failed
    BY Zenon, <1>0, <1>4, <2>1
  <2>7. Served(j)' => Served(j)
    BY Zenon, <1>3, <1>5, <2>1, <2>6 DEF Served
  <2>8. SavedInv(j)'
    BY Zenon, <1>2, <1>7, <2>1, <2>7 DEF SavedInv, Durable
  <2> QED
    BY Zenon, <2>4, <2>5, <2>8
<1>9. OpenCurrent' /\ ServicesReady'
  BY Zenon, <1>2, <1>3 DEF IInv, OpenCurrent, ServicesReady, Down
<1> QED
  BY Zenon, <1>6, <1>8, <1>9 DEF CallsInv

(* A frame is served or answered at the other end of its connection. *)
LEMMA ServeQuiet ==
    ASSUME ResultThere, NEW f, Serve(f) \/ Answer(f)
    PROVE  /\ Quiet
           /\ \A g \in serving' \cup toClnt' : g \in serving \cup toClnt \/ g = f
           /\ Answer(f) => f \in serving
           /\ got' = got
  BY Zenon DEF ResultThere, Quiet, Serve, Answer, Travelling, clntVars

(* The daemon's answer, and the calls of servers at the tester. *)
LEMMA AnswerCalls ==
    ASSUME IInv, DemuxInv', NEW k \in Call,
           AnswerRequest(k) \/ Forward(k) \/ ForwardReturns(k)
    PROVE  CallsInv'
<1>0. /\ net \in [Call -> {"idle", "sent", "picked", "true", "false"}] /\ ResultThere
  BY Zenon DEF IInv, TypeOK
<1>1. PICK f : \/ Answer(f)
               \/ Serve(f) /\ f[3] = <<"up", k>>
  BY Zenon DEF AnswerRequest, Forward, ForwardReturns
<1>2. UNCHANGED <<route, srv, inc, daemon, persister, saved, unknown>>
  BY Zenon DEF AnswerRequest, Forward, ForwardReturns, netVars, grpVars, dmnVars
<1>3. /\ Quiet /\ got' = got
      /\ \A g \in serving' \cup toClnt' : g \in serving \cup toClnt \/ g[3] = <<"up", k>>
  BY <1>0, <1>1, ServeQuiet
<1>4. \A j \in Call : Served(j)' => Served(j)
  BY <1>3 DEF Served
<1>5. \/ net' = net
      \/ net[k] = "idle" /\ net' = [net EXCEPT ![k] = IF netDone THEN "false" ELSE "sent"]
  BY Zenon DEF AnswerRequest, Forward, ForwardReturns, Request, netVars
<1>6. ASSUME NEW j \in Call
      PROVE  /\ srv[j] # 0 => net'[j] \notin {"idle", "sent"}
             /\ net'[j] = "true" => net[j] = "true"
  <2>1. srv[j] # 0 => net[j] \notin {"idle", "sent"}
    BY Zenon DEF IInv, CallInv
  <2> QED
    BY Zenon, <1>0, <1>5, <2>1
<1> QED
  BY Zenon, <1>2, <1>3, <1>4, <1>6, QuietCalls

(* The daemon serves a request: it has its services, and saves the update. *)
LEMMA ServeCalls ==
    ASSUME IInv, DemuxInv', NEW k \in Call, ServeRequest(k)
    PROVE  CallsInv'
<1>0. /\ ResultThere /\ DemuxInv /\ Incarnations /\ Target[k] \in Node
      /\ persister \in [Node -> SUBSET Call] /\ <<"down", k>> \in Rpc
      /\ toSrv \subseteq Frame
  BY Zenon, TargetNode, RpcOf DEF IInv, TypeOK, DemuxInv, TagsAndFrames
<1>1. PICK f \in toSrv : f[3] = <<"down", k>> /\ Serve(f)
  BY Zenon DEF ServeRequest
<1>2. /\ persister' = [persister EXCEPT ![Target[k]] = persister[Target[k]] \cup {k}]
      /\ unknown' = (unknown \/ ~ KnownService(Target[k]))
      /\ UNCHANGED <<route, net, srv, inc, daemon, saved>>
  BY Zenon DEF ServeRequest, Save, netVars, grpVars
<1>3. /\ Quiet /\ got' = got
      /\ \A g \in serving' \cup toClnt' : g \in serving \cup toClnt \/ g = f
  BY Zenon, <1>0, <1>1, ServeQuiet
<1>4. Target' = Target
  BY Zenon, <1>2 DEF Target
<1>5. ServicesReady'
  <2>1. conn[f[1]] = "open" /\ f[1] = Down(Target[k], srv[k]) /\ CallInv(k)
    BY Zenon, <1>1 DEF IInv, FramesRouted, Travelling
  <2>2. srv[k] # 0
    BY Zenon, <1>0, <1>1, <2>1 DEF CallInv, DemuxInv, FramesMatched, Travelling
  <2>3. srv[k] \in 1 .. MaxInc[Target[k]]
    <3>1. srv[k] \in Nat /\ srv[k] <= inc[Target[k]]
      BY Zenon, <1>0 DEF Incarnations
    <3>2. /\ inc[Target[k]] \in Nat /\ inc[Target[k]] <= MaxInc[Target[k]]
          /\ MaxInc[Target[k]] \in Nat
      BY Zenon, <1>0, TesterAssumption DEF Incarnations
    <3> QED
      BY <2>2, <3>1, <3>2
  <2>4. srv[k] = inc[Target[k]] /\ daemon[Target[k]] \in Running
    BY Zenon, <1>0, <2>1, <2>3 DEF IInv, OpenCurrent
  <2>5. KnownService(Target[k])
    BY Zenon, <2>1, <2>4 DEF CallInv, KnownService
  <2> QED
    BY Zenon, <1>2, <2>5 DEF IInv, ServicesReady
<1>6. ASSUME NEW j \in Call PROVE CallInv(j)' /\ FramesRouted(j)' /\ SavedInv(j)'
  <2>1. CallInv(j) /\ FramesRouted(j) /\ SavedInv(j) /\ <<"down", j>> \in Rpc
        /\ Target[j] \in Node
    BY Zenon, RpcOf, TargetNode DEF IInv
  <2>2. CallInv(j)'
    BY Zenon, <1>2, <1>3, <1>4, <2>1 DEF CallInv, Quiet
  <2>3. FramesRouted(j)'
    BY Zenon, <1>0, <1>2, <1>3, <2>1, QuietFrames
  <2>4. persister[Target[j]] \subseteq persister'[Target[j]]
    BY Zenon, <1>0, <1>2, <2>1
  <2>5. j = k => j \in persister'[Target[j]]
    BY Zenon, <1>0, <1>2
  <2>6. j # k /\ Served(j)' => Served(j)
    BY <1>1, <1>3 DEF Served
  <2>7. SavedInv(j)'
    BY Zenon, <1>2, <1>4, <2>1, <2>4, <2>5, <2>6 DEF SavedInv, Durable
  <2> QED
    BY Zenon, <2>2, <2>3, <2>7
<1>7. OpenCurrent'
  <2>1. conn' = conn
    BY Zenon, <1>1 DEF Serve
  <2> QED
    BY Zenon, <1>2, <2>1 DEF IInv, OpenCurrent, Down
<1> QED
  BY Zenon, <1>3, <1>5, <1>6, <1>7 DEF CallsInv, Quiet

Serviced == {"up", "closing", "closed", "frozen", "off"}

(* A server's process goes on: it keeps what is durable, and the services   *)
(* it has added.                                                            *)
LEMMA ProcessCalls ==
    ASSUME IInv, DemuxInv', NEW n \in Node, Quiet,
           \A k \in Call : Served(k)' => Served(k),
           UNCHANGED <<route, net, srv, inc, unknown>>,
           \A m \in Node \ {n} : UNCHANGED <<daemon[m], persister[m], saved[m]>>,
           daemon[n] \in Running => daemon'[n] \in Running,
           daemon[n] \in Serviced => daemon'[n] \in Serviced,
           daemon'[n] \in Running => daemon[n] \in Running \/ daemon[n] \notin Serviced,
           daemon'[n] \in Running => persister'[n] = persister[n],
           \A k \in Durable(n) : /\ k \in Durable(n)'
                                 /\ daemon'[n] = "frozen" => k \in saved'[n]
    PROVE  CallsInv'
<1>0. DemuxInv /\ Incarnations /\ Target' = Target /\ \A k \in Call : Target[k] \in Node
  BY Zenon, TargetNode DEF IInv, Target
<1>1. OpenCurrent'
  <2>1. ASSUME NEW m \in Node, NEW i \in 1 .. MaxInc[m]
        PROVE  conn'[Down(m, i)] = conn[Down(m, i)]
    <3>1. i \in Nat /\ 1 <= i /\ i <= MaxInc[m]
      BY TesterAssumption
    <3>2. Down(m, i) \in Conn
      BY Zenon, <3>1, ConnOf
    <3> QED
      BY Zenon, <3>2 DEF Quiet, Down
  <2>2. \A m \in Node : daemon[m] \in Running => daemon'[m] \in Running
    BY Zenon
  <2> QED
    BY Zenon, <2>1, <2>2 DEF IInv, OpenCurrent, Down
<1>2. ServicesReady'
  BY Zenon DEF IInv, ServicesReady
<1>3. ASSUME NEW k \in Call PROVE CallInv(k)' /\ FramesRouted(k)' /\ SavedInv(k)'
  <2>1. CallInv(k) /\ FramesRouted(k) /\ SavedInv(k) /\ <<"down", k>> \in Rpc
        /\ Target[k] \in Node
    BY Zenon, <1>0, RpcOf DEF IInv
  <2>2. daemon[Target[k]] \in Serviced => daemon'[Target[k]] \in Serviced
    BY Zenon, <2>1
  <2>3. CallInv(k)'
    BY Zenon, <1>0, <2>1, <2>2 DEF CallInv, Quiet, Serviced
  <2>4. FramesRouted(k)'
    BY Zenon, <1>0, <2>1, QuietFrames
  <2>5. SavedInv(k)'
    <3>1. CASE Target[k] = n
      <4>1. ASSUME Served(k)', srv[k] = inc[n], daemon'[n] \in Running
            PROVE  k \in persister'[n]
        <5>1. daemon[n] \in Serviced
          BY Zenon, <2>1, <3>1, <4>1 DEF CallInv, Serviced
        <5> QED
          BY Zenon, <2>1, <3>1, <4>1, <5>1 DEF SavedInv
      <4>2. ASSUME net[k] = "true"
            PROVE  k \in Durable(n)' /\ (daemon'[n] = "frozen" => k \in saved'[n])
        BY Zenon, <2>1, <3>1, <4>2 DEF SavedInv
      <4> QED
        BY Zenon, <1>0, <3>1, <4>1, <4>2 DEF SavedInv, Durable
    <3>2. CASE Target[k] # n
      <4>1. UNCHANGED <<daemon[Target[k]], persister[Target[k]], saved[Target[k]]>>
        BY Zenon, <1>0, <2>1, <3>2
      <4> QED
        BY Zenon, <1>0, <2>1, <4>1 DEF SavedInv, Durable
    <3> QED
      BY Zenon, <3>1, <3>2
  <2> QED
    BY Zenon, <2>3, <2>4, <2>5
<1> QED
  BY Zenon, <1>1, <1>2, <1>3 DEF CallsInv, Quiet

(* The connections of the servers to the tester are not looked at. *)
LEMMA UpQuiet ==
    ASSUME ResultThere, conn \in [Conn -> ConnState], NEW n, NEW i,
           \/ NewDemuxClnt(Up(n, i)) \/ CloseTrans(Up(n, i)) \/ CloseMap(Up(n, i))
           \/ Die({}, {Up(n, i)})
    PROVE  Quiet /\ \A k \in Call : Served(k)' => Served(k)
<1>1. Up(n, i)[1] # "down"
  BY Zenon DEF Up
<1>2. \A c \in Conn : c[1] = "down" => conn'[c] = conn[c]
  BY Zenon, <1>1 DEF NewDemuxClnt, CloseTrans, CloseMap, Die
<1> QED
  BY Zenon, <1>2 DEF ResultThere, Quiet, Served, Travelling, NewDemuxClnt, CloseTrans, CloseMap,
     Die, clntVars

LEMMA DaemonCalls ==
    ASSUME IInv, DemuxInv', NEW n \in Node, DaemonNext(n)
    PROVE  CallsInv'
<1>0. /\ ResultThere /\ daemon \in [Node -> DaemonState] /\ conn \in [Conn -> ConnState]
      /\ saved \in [Node -> SUBSET Call] /\ persister \in [Node -> SUBSET Call]
  BY Zenon DEF IInv, TypeOK, DemuxInv, TagsAndFrames
<1>1. ASSUME NEW from, NEW to, DaemonStep(n, from, to)
      PROVE  /\ daemon[n] = from /\ daemon'[n] = to
             /\ \A m \in Node \ {n} : daemon'[m] = daemon[m]
  BY Zenon, <1>0, <1>1 DEF DaemonStep
<1>2. CASE ConnectToTester(n) \/ NewRPCSrv(n) \/ AddService(n) \/ CheckpointCloses(n)
  <2>1. Quiet /\ \A k \in Call : Served(k)' => Served(k)
    BY Zenon, <1>0, <1>2, UpQuiet, NoChangeIsQuiet
    DEF ConnectToTester, NewRPCSrv, AddService, CheckpointCloses
  <2>2. UNCHANGED <<route, net, srv, inc, unknown, persister, saved>>
    BY Zenon, <1>2 DEF ConnectToTester, NewRPCSrv, AddService, CheckpointCloses, netVars, grpVars
  <2>3. /\ \/ daemon[n] = "boot" /\ daemon'[n] = "dialed"
           \/ daemon[n] = "dialed" /\ daemon'[n] = "control"
           \/ daemon[n] = "control" /\ daemon'[n] = "ctl"
           \/ daemon[n] = "init" /\ daemon'[n] = "listening"
           \/ daemon[n] = "listening" /\ daemon'[n] = "serving"
           \/ daemon[n] = "up" /\ daemon'[n] = "closing"
           \/ daemon[n] = "closing" /\ daemon'[n] = "closed"
        /\ \A m \in Node \ {n} : daemon'[m] = daemon[m]
    BY Zenon, <1>1, <1>2 DEF ConnectToTester, NewRPCSrv, AddService, CheckpointCloses
  <2>4. /\ daemon[n] \in Running => daemon'[n] \in Running
        /\ daemon[n] \in Serviced => daemon'[n] \in Serviced
        /\ daemon'[n] \in Running => daemon[n] \in Running \/ daemon[n] \notin Serviced
    BY Zenon, <2>3 DEF Running, Serviced
  <2>5. \A k \in Durable(n) : /\ k \in Durable(n)'
                              /\ daemon'[n] = "frozen" => k \in saved'[n]
    BY Zenon, <2>2, <2>3 DEF Durable, Unsaved
  <2> QED
    BY Zenon, <2>1, <2>2, <2>3, <2>4, <2>5, ProcessCalls
<1>3. CASE CheckpointPersister(n)
  <2>1. Quiet /\ \A k \in Call : Served(k)' => Served(k)
    BY Zenon, <1>0, <1>3, NoChangeIsQuiet DEF CheckpointPersister
  <2>2. /\ UNCHANGED <<route, net, srv, inc, unknown, persister>>
        /\ saved' = [saved EXCEPT ![n] = persister[n]]
    BY Zenon, <1>3 DEF CheckpointPersister, checkpointPersister, Checkpoint, netVars
  <2>3. /\ daemon[n] = "closed" /\ daemon'[n] = "frozen"
        /\ \A m \in Node \ {n} : daemon'[m] = daemon[m]
    BY Zenon, <1>1, <1>3 DEF CheckpointPersister
  <2>4. saved'[n] = persister[n] /\ \A m \in Node \ {n} : saved'[m] = saved[m]
    BY Zenon, <1>0, <2>2
  <2>5. \A k \in Durable(n) : /\ k \in Durable(n)'
                              /\ daemon'[n] = "frozen" => k \in saved'[n]
    BY Zenon, <2>2, <2>3, <2>4 DEF Durable, Unsaved
  <2>6. daemon[n] \in Running /\ daemon'[n] \in Running /\ daemon'[n] \in Serviced
    BY Zenon, <2>3 DEF Running, Serviced
  <2> QED
    BY Zenon, <2>1, <2>2, <2>3, <2>4, <2>5, <2>6, ProcessCalls
<1> QED
  BY Zenon, <1>2, <1>3 DEF DaemonNext

(* Steps of the tester that touch neither processes nor connections. *)
LEMMA BookkeepingCalls ==
    ASSUME IInv, DemuxInv', UNCHANGED demuxVars, UNCHANGED netVars,
           UNCHANGED <<inc, saved, dmnVars>>
    PROVE  CallsInv'
<1>1. UNCHANGED <<route, net, srv, inc, daemon, persister, saved, unknown>>
  BY Zenon DEF netVars, dmnVars
<1>2. Quiet /\ \A k \in Call : Served(k)' => Served(k)
  BY Zenon, NoChangeIsQuiet DEF IInv
<1>3. \A k \in Call : srv[k] # 0 => net'[k] \notin {"idle", "sent"}
  BY Zenon, <1>1 DEF IInv, CallInv
<1> QED
  BY Zenon, <1>1, <1>2, <1>3, QuietCalls

(* The tester connects to a daemon that listens. *)
LEMMA DialCalls ==
    ASSUME IInv, DemuxInv', NEW n \in Node, DialServer(n)
    PROVE  CallsInv'
<1>0. conn \in [Conn -> ConnState] /\ Incarnations /\ inc[n] \in Nat /\ 1 <= inc[n]
  BY Zenon DEF IInv, DemuxInv, TagsAndFrames, Incarnations
<1>1. /\ UNCHANGED <<route, net, srv, inc, daemon, persister, saved, unknown>>
      /\ UNCHANGED <<calls, toSrv, serving, toClnt, rpc, got>>
      /\ conn' = [conn EXCEPT ![Down(n, inc[n])] = "open"]
      /\ daemon[n] \in Running
  BY Zenon DEF DialServer, NewDemuxClnt, netVars, dmnVars
<1>2. Target' = Target
  BY Zenon, <1>1 DEF Target
<1>3. OpenCurrent'
  <2> SUFFICES ASSUME NEW m \in Node, NEW i \in 1 .. MaxInc[m], conn'[Down(m, i)] = "open"
               PROVE  i = inc[m] /\ daemon[m] \in Running
    BY Zenon, <1>1 DEF OpenCurrent, Down
  <2>1. CASE m = n /\ i = inc[n]
    BY Zenon, <1>1, <2>1
  <2>2. CASE ~ (m = n /\ i = inc[n])
    <3>1. Down(m, i) # Down(n, inc[n])
      BY Zenon, <2>2 DEF Down
    <3>2. i \in Nat /\ 1 <= i /\ i <= MaxInc[m]
      BY TesterAssumption
    <3>3. Down(m, i) \in Conn
      BY Zenon, <3>2, ConnOf
    <3>4. conn[Down(m, i)] = "open"
      BY Zenon, <1>0, <1>1, <3>1, <3>3
    <3> QED
      BY Zenon, <3>4 DEF IInv, OpenCurrent
  <2> QED
    BY Zenon, <2>1, <2>2
<1>4. ASSUME NEW k \in Call PROVE CallInv(k)' /\ FramesRouted(k)' /\ SavedInv(k)'
  <2>1. CallInv(k) /\ FramesRouted(k) /\ SavedInv(k)
    BY Zenon DEF IInv
  <2>2. CallInv(k)'
    BY Zenon, <1>1, <1>2, <2>1 DEF CallInv
  <2>3. toSrv \subseteq Frame /\ serving \subseteq Frame
    BY Zenon DEF IInv, DemuxInv, TagsAndFrames
  <2>4. \A f \in toSrv \cup serving : f[3] = <<"down", k>> => conn'[f[1]] = "open"
    BY Zenon, <1>0, <1>1, <2>1, <2>3, FrameParts DEF FramesRouted
  <2>5. FramesRouted(k)'
    BY Zenon, <1>1, <1>2, <2>1, <2>4 DEF FramesRouted, Travelling, Down
  <2>6. SavedInv(k)'
    BY Zenon, <1>1, <1>2, <2>1 DEF SavedInv, Durable, Served
  <2> QED
    BY Zenon, <2>2, <2>5, <2>6
<1>5. ResultThere' /\ ServicesReady'
  BY Zenon, <1>1 DEF IInv, ResultThere, ServicesReady
<1> QED
  BY Zenon, <1>3, <1>4, <1>5 DEF CallsInv

(* A process is killed, after its persister was copied. *)
LEMMA KillCalls ==
    ASSUME IInv, DemuxInv', NEW n \in Node, kill(n)
    PROVE  CallsInv'
<1>0. /\ Incarnations /\ daemon \in [Node -> DaemonState]
      /\ toSrv \subseteq Frame /\ serving \subseteq Frame
  BY Zenon DEF IInv, TypeOK, DemuxInv, TagsAndFrames
<1>1. /\ UNCHANGED <<route, net, srv, inc, persister, saved, unknown, calls, rpc, got>>
      /\ conn' = [c \in Conn |-> IF c \in {Down(n, inc[n])} /\ conn[c] = "open" THEN "reset"
                                 ELSE IF c \in {Up(n, inc[n])} /\ conn[c] # "none" THEN "dead"
                                 ELSE conn[c]]
      /\ toSrv' = {f \in toSrv : f[1] \notin {Down(n, inc[n])}}
      /\ serving' = {f \in serving : f[1] \notin {Down(n, inc[n])}}
      /\ toClnt' \subseteq toClnt
      /\ daemon' = [daemon EXCEPT ![n] = "off"]
      /\ main = <<"kill", n>>
  BY Zenon DEF kill, MainStep, Die, netVars, clntVars
<1>2. Target' = Target
  BY Zenon, <1>1 DEF Target
<1>3. daemon[n] = "frozen"
  <2>1. InStep(n) /\ Busy(n)
    BY Zenon, <1>1, BusyWith DEF IInv
  <2> QED
    BY Zenon, <1>1, <2>1 DEF InStep
<1>4. \A m \in Node : daemon'[m] = IF m = n THEN "off" ELSE daemon[m]
  BY Zenon, <1>0, <1>1
<1>5. ASSUME NEW c \in Conn, c[1] = "down", c # Down(n, inc[n])
      PROVE  conn'[c] = conn[c]
  BY <1>1, <1>5 DEF Up
<1>6. OpenCurrent'
  <2> SUFFICES ASSUME NEW m \in Node, NEW i \in 1 .. MaxInc[m], conn'[Down(m, i)] = "open"
               PROVE  i = inc[m] /\ daemon'[m] \in Running
    BY Zenon, <1>1 DEF OpenCurrent, Down
  <2>1. i \in Nat /\ 1 <= i /\ i <= MaxInc[m]
    BY TesterAssumption
  <2>2. Down(m, i) \in Conn /\ Down(m, i)[1] = "down"
    BY Zenon, <2>1, ConnOf DEF Down
  <2>3. Down(m, i) # Down(n, inc[n])
    <3>1. ASSUME Down(m, i) = Down(n, inc[n]) PROVE FALSE
      BY Zenon, <1>1, <2>2, <3>1 DEF Down, Up
    <3> QED
      BY Zenon, <3>1
  <2>4. conn[Down(m, i)] = "open"
    BY Zenon, <1>5, <2>2, <2>3
  <2>5. i = inc[m] /\ daemon[m] \in Running
    BY Zenon, <2>4 DEF IInv, OpenCurrent
  <2>6. m # n
    BY Zenon, <2>3, <2>5
  <2> QED
    BY Zenon, <1>4, <2>5, <2>6
<1>7. ASSUME NEW k \in Call PROVE CallInv(k)' /\ FramesRouted(k)' /\ SavedInv(k)'
  <2>1. CallInv(k) /\ FramesRouted(k) /\ SavedInv(k) /\ Target[k] \in Node
    BY Zenon, <1>0, TargetNode DEF IInv
  <2>2. CallInv(k)'
    BY Zenon, <1>1, <1>2, <1>4, <2>1 DEF CallInv
  <2>3. ASSUME NEW f \in toSrv' \cup serving', f[3] = <<"down", k>>
        PROVE  conn'[f[1]] = "open"
    <3>1. f \in toSrv \cup serving /\ f[1] # Down(n, inc[n])
      BY Zenon, <1>1
    <3>2. f[1] \in Conn /\ f[1] = Down(Target[k], srv[k]) /\ conn[f[1]] = "open"
      BY Zenon, <1>0, <2>1, <2>3, <3>1, FrameParts DEF FramesRouted, Travelling
    <3> QED
      BY Zenon, <1>5, <3>1, <3>2 DEF Down
  <2>4. ASSUME NEW f \in calls' \cup Travelling', f[3] = <<"down", k>>
        PROVE  f[1] = Down(Target[k], srv[k])
    BY Zenon, <1>1, <2>1, <2>4 DEF FramesRouted, Travelling
  <2>5. FramesRouted(k)'
    BY Zenon, <1>1, <1>2, <2>3, <2>4 DEF FramesRouted, Down
  <2>6. Served(k)' => Served(k)
    BY Zenon, <1>1 DEF Served
  <2>7. SavedInv(k)'
    <3>1. CASE Target[k] = n
      BY <1>1, <1>2, <1>3, <1>4, <2>1, <3>1 DEF SavedInv, Durable, Unsaved, Running
    <3>2. CASE Target[k] # n
      BY Zenon, <1>1, <1>2, <1>4, <2>1, <2>6, <3>2 DEF SavedInv, Durable
    <3> QED
      BY ZenonT(40), <3>1, <3>2
  <2> QED
    BY Zenon, <2>2, <2>5, <2>7
<1>8. ResultThere' /\ ServicesReady'
  BY Zenon, <1>1 DEF IInv, ResultThere, ServicesReady
<1> QED
  BY Zenon, <1>6, <1>7, <1>8 DEF CallsInv

(* A server is started again: nothing was given to its new process yet. *)
LEMMA StartCalls ==
    ASSUME IInv, DemuxInv', NEW n \in Node, StartServer(n)
    PROVE  CallsInv'
<1>0. /\ Incarnations /\ daemon \in [Node -> DaemonState] /\ inc \in [Node -> Nat]
  BY Zenon DEF IInv, TypeOK, Incarnations
<1>1. /\ UNCHANGED <<route, net, srv, persister, saved, unknown>>
      /\ UNCHANGED <<conn, calls, toSrv, serving, toClnt, rpc, got>>
      /\ daemon[n] = "off" /\ daemon' = [daemon EXCEPT ![n] = "boot"]
      /\ inc' = [inc EXCEPT ![n] = @ + 1]
  BY Zenon DEF StartServer, netVars, demuxVars, clntVars
<1>2. Target' = Target
  BY Zenon, <1>1 DEF Target
<1>3. /\ \A m \in Node \ {n} : daemon'[m] = daemon[m] /\ inc'[m] = inc[m]
      /\ daemon'[n] = "boot" /\ inc'[n] = inc[n] + 1
  BY Zenon, <1>0, <1>1
<1>4. OpenCurrent'
  <2> SUFFICES ASSUME NEW m \in Node, NEW i \in 1 .. MaxInc[m], conn[Down(m, i)] = "open"
               PROVE  i = inc'[m] /\ daemon'[m] \in Running
    BY Zenon, <1>1 DEF OpenCurrent, Down
  <2>1. i = inc[m] /\ daemon[m] \in Running
    BY Zenon DEF IInv, OpenCurrent
  <2> QED
    BY Zenon, <1>1, <1>3, <2>1 DEF Running
<1>5. ASSUME NEW k \in Call PROVE CallInv(k)' /\ FramesRouted(k)' /\ SavedInv(k)'
  <2>1. CallInv(k) /\ FramesRouted(k) /\ SavedInv(k) /\ Target[k] \in Node
    BY Zenon, <1>0, TargetNode DEF IInv
  <2>2. srv[k] \in Nat /\ srv[k] <= inc[Target[k]] /\ inc[Target[k]] \in Nat
    BY ZenonT(40), <1>0, <2>1 DEF Incarnations
  <2>3. Target[k] = n => srv[k] # inc'[n]
    BY SMTT(30), <1>3, <2>2
  <2>4. CallInv(k)'
    BY <1>1, <1>2, <1>3, <2>1, <2>3 DEF CallInv
  <2>5. FramesRouted(k)'
    BY Zenon, <1>1, <1>2, <2>1 DEF FramesRouted, Travelling, Down
  <2>6. SavedInv(k)'
    <3>1. CASE Target[k] = n
      BY ZenonT(40), <1>1, <1>2, <1>3, <2>1, <2>3, <3>1 DEF SavedInv, Durable, Unsaved
    <3>2. CASE Target[k] # n
      BY <1>1, <1>2, <1>3, <2>1, <3>2 DEF SavedInv, Durable, Served
    <3> QED
      BY Zenon, <3>1, <3>2
  <2> QED
    BY Zenon, <2>4, <2>5, <2>6
<1>6. ResultThere' /\ ServicesReady'
  BY Zenon, <1>1 DEF IInv, ResultThere, ServicesReady
<1> QED
  BY Zenon, <1>4, <1>5, <1>6 DEF CallsInv

LEMMA MainCalls ==
    ASSUME IInv, DemuxInv', NEW n \in Node, MainNext(n) \/ ShutdownServer(n)
    PROVE  CallsInv'
<1>0. /\ ResultThere /\ daemon \in [Node -> DaemonState] /\ conn \in [Conn -> ConnState]
      /\ saved \in [Node -> SUBSET Call] /\ persister \in [Node -> SUBSET Call]
  BY Zenon DEF IInv, TypeOK, DemuxInv, TagsAndFrames
<1>1. CASE \/ DialControl(n) \/ DialFails(n) \/ AddServer(n) \/ connect(n) \/ DeleteServer(n)
           \/ ShutdownServer(n)
  BY Zenon, <1>1, BookkeepingCalls DEF DialControl, DialFails, AddServer, connect, DeleteServer,
     ShutdownServer
<1>2. CASE SendInit(n)
  <2>1. Quiet /\ \A k \in Call : Served(k)' => Served(k)
    BY Zenon, <1>0, <1>2, NoChangeIsQuiet DEF SendInit
  <2>2. /\ UNCHANGED <<route, net, srv, inc, unknown, saved>>
        /\ persister' = [persister EXCEPT ![n] = saved[n]]
        /\ daemon[n] = "ctl" /\ daemon' = [daemon EXCEPT ![n] = "init"]
    BY Zenon, <1>2 DEF SendInit, DaemonInit, DaemonStep, Save, netVars
  <2>3. /\ daemon'[n] = "init" /\ persister'[n] = saved[n]
        /\ \A m \in Node \ {n} : UNCHANGED <<daemon[m], persister[m], saved[m]>>
    BY Zenon, <1>0, <2>2
  <2>4. \A k \in Durable(n) : /\ k \in Durable(n)'
                              /\ daemon'[n] = "frozen" => k \in saved'[n]
    BY Zenon, <2>2, <2>3 DEF Durable, Unsaved
  <2>5. daemon[n] \notin Running /\ daemon[n] \notin Serviced /\ daemon'[n] \notin Running
    BY Zenon, <2>2, <2>3 DEF Running, Serviced
  <2> QED
    BY Zenon, <2>1, <2>2, <2>3, <2>4, <2>5, ProcessCalls
<1>3. CASE waitInit(n)
  <2>1. Quiet /\ \A k \in Call : Served(k)' => Served(k)
    BY Zenon, <1>0, <1>3, NoChangeIsQuiet DEF waitInit
  <2>2. /\ UNCHANGED <<route, net, srv, inc, unknown, saved, persister>>
        /\ daemon[n] = "serving" /\ daemon' = [daemon EXCEPT ![n] = "up"]
    BY Zenon, <1>3 DEF waitInit, InitWait, DaemonStep, netVars
  <2>3. /\ daemon'[n] = "up" /\ \A m \in Node \ {n} : daemon'[m] = daemon[m]
    BY Zenon, <1>0, <2>2
  <2>4. \A k \in Durable(n) : /\ k \in Durable(n)'
                              /\ daemon'[n] = "frozen" => k \in saved'[n]
    BY Zenon, <2>2, <2>3 DEF Durable, Unsaved
  <2>5. /\ daemon[n] \in Running /\ daemon'[n] \in Running
        /\ daemon'[n] \in Serviced /\ daemon[n] \notin Serviced
    BY Zenon, <2>2, <2>3 DEF Running, Serviced
  <2> QED
    BY Zenon, <2>1, <2>2, <2>3, <2>4, <2>5, ProcessCalls
<1>4. CASE InitTooEarly(n)
  <2>1. Quiet /\ \A k \in Call : Served(k)' => Served(k)
    BY Zenon, <1>0, <1>4, UpQuiet DEF InitTooEarly
  <2>2. /\ UNCHANGED <<route, net, srv, inc, unknown, saved, persister>>
        /\ main = <<"init", n>> /\ daemon' = [daemon EXCEPT ![n] = "exited"]
    BY Zenon, <1>4 DEF InitTooEarly, MainStep, netVars
  <2>3. daemon[n] \in {"control", "ctl"}
    <3>1. InStep(n) /\ Busy(n)
      BY Zenon, <2>2, BusyWith DEF IInv
    <3> QED
      BY Zenon, <2>2, <3>1 DEF InStep
  <2>4. daemon'[n] = "exited" /\ \A m \in Node \ {n} : daemon'[m] = daemon[m]
    BY Zenon, <1>0, <2>2
  <2>5. \A k \in Durable(n) : /\ k \in Durable(n)'
                              /\ daemon'[n] = "frozen" => k \in saved'[n]
    BY Zenon, <2>2, <2>3, <2>4 DEF Durable, Unsaved
  <2>6. daemon[n] \notin Running /\ daemon[n] \notin Serviced /\ daemon'[n] \notin Running
    BY Zenon, <2>3, <2>4 DEF Running, Serviced
  <2> QED
    BY Zenon, <2>1, <2>2, <2>4, <2>5, <2>6, ProcessCalls
<1> QED
  BY Zenon, <1>1, <1>2, <1>3, <1>4, DialCalls, KillCalls DEF MainNext

LEMMA CallsKept ==
    ASSUME IInv, DemuxInv', [Next]_vars
    PROVE  CallsInv'
<1>1. CASE DemuxStep
  <2>1. UNCHANGED <<route, net, srv, inc, daemon, persister, saved, unknown>>
    BY Zenon, <1>1 DEF DemuxStep, netVars, grpVars, dmnVars
  <2>2. Quiet /\ \A k \in Call : Served(k)' => Served(k)
    BY Zenon, <1>1, DemuxStepQuiet DEF IInv
  <2>3. \A k \in Call : srv[k] # 0 => net'[k] \notin {"idle", "sent"}
    BY Zenon, <2>1 DEF IInv, CallInv
  <2> QED
    BY Zenon, <2>1, <2>2, <2>3, QuietCalls
<1>2. CASE DeleteClients \/ NetCleanup \/ UNCHANGED vars
  BY Zenon, <1>2, BookkeepingCalls DEF DeleteClients, NetCleanup, vars, grpVars
<1> QED
  BY Zenon, <1>1, <1>2, NetCalls, PickCalls, SendCalls, AnswerCalls, ServeCalls, DaemonCalls,
     StartCalls, MainCalls DEF Next, Step, NetStep

-----------------------------------------------------------------------------
LEMMA InitTester == Init => IInv
<1> SUFFICES ASSUME Init PROVE IInv
  BY Zenon
<1>1. DemuxInv /\ Incarnations
  BY Zenon, InitDemux, InitInv, InitIncarnations
<1>2. /\ main = Idle /\ inc = [n \in Node |-> 1] /\ servers = inc /\ connected = Node
      /\ enabled = Node \X {1} \X Node /\ clients = TRUE
      /\ saved = [n \in Node |-> {}] /\ persister = saved
      /\ net = [k \in Call |-> "idle"] /\ srv = [k \in Call |-> 0] /\ org = srv
      /\ netDone = FALSE /\ unknown = FALSE /\ daemon = [n \in Node |-> "up"]
  BY Zenon DEF Init
<1>3. TypeOK
  <2>1. GroupTypes
    <3>1. enabled \subseteq Node \X Nat \X Node
      BY <1>2
    <3>2. daemon \in [Node -> DaemonState]
      BY Zenon, <1>2 DEF DaemonState, Unsaved, Running
    <3>3. clients \in BOOLEAN /\ netDone \in BOOLEAN
      BY Zenon, <1>2
    <3> QED
      BY Zenon, <1>2, <3>1, <3>2, <3>3 DEF GroupTypes
  <2>2. DataTypes
    BY Zenon, <1>2 DEF DataTypes
  <2> QED
    BY Zenon, <1>1, <2>1, <2>2, TypeParts
<1>4. \A n \in Node : InStep(n)
  BY Zenon, <1>2 DEF InStep, Busy
<1>5. EndsCurrent
  BY Zenon, <1>2 DEF EndsCurrent, Busy
<1>6. /\ calls = {} /\ toSrv = {} /\ toClnt = {} /\ serving = {}
      /\ rpc = [r \in Rpc |-> "idle"] /\ got = [r \in Rpc |-> NoReply]
      /\ conn = [c \in Conn |-> IF c \in {Down(n, 1) : n \in Node} \cup {Up(n, 1) : n \in Node}
                                THEN "open" ELSE "none"]
  BY Zenon DEF Init, DemuxInitWith
<1>7. OpenCurrent
  <2> SUFFICES ASSUME NEW n \in Node, NEW i \in 1 .. MaxInc[n], conn[Down(n, i)] = "open"
               PROVE  i = inc[n] /\ daemon[n] \in Running
    BY Zenon DEF OpenCurrent
  <2>1. i \in Nat /\ 1 <= i /\ i <= MaxInc[n]
    BY TesterAssumption
  <2>2. Down(n, i) \in Conn
    BY Zenon, <2>1, ConnOf
  <2>3. PICK m \in Node : Down(n, i) = Down(m, 1) \/ Down(n, i) = Up(m, 1)
    BY Zenon, <1>6, <2>2
  <2>4. i = 1
    BY Zenon, <2>3 DEF Down, Up
  <2> QED
    BY Zenon, <1>2, <2>4 DEF Running
<1>8. ResultThere /\ ServicesReady
  BY Zenon, <1>2, <1>6 DEF ResultThere, ServicesReady
<1>9. ASSUME NEW k \in Call PROVE CallInv(k) /\ FramesRouted(k) /\ SavedInv(k)
  <2>1. <<"down", k>> \in Rpc /\ <<"down", k>> # NoReply
    BY Zenon, RpcOf, DemuxAssumption
  <2>2. Target[k] \in Node
    BY Zenon, <1>1, TargetNode
  <2>3. CallInv(k)
    BY Zenon, <1>2, <1>6, <2>1, <2>2 DEF CallInv
  <2>4. FramesRouted(k)
    BY Zenon, <1>6 DEF FramesRouted, Travelling
  <2>5. ~ Served(k)
    BY Zenon, <1>6, <2>1 DEF Served
  <2> QED
    BY Zenon, <1>2, <2>3, <2>4, <2>5 DEF SavedInv
<1> QED
  BY Zenon, <1>1, <1>3, <1>4, <1>5, <1>7, <1>8, <1>9 DEF IInv

LEMMA NextTester == IInv /\ [Next]_vars => IInv'
<1> SUFFICES ASSUME IInv, [Next]_vars PROVE IInv'
  BY Zenon
<1>1. TypeOK /\ DemuxInv /\ Incarnations /\ ServersInv /\ GroupTypes /\ DataTypes
  BY Zenon, InvParts, TypeParts
<1>2. DemuxInv' /\ Incarnations'
  BY Zenon, <1>1, DemuxSteps, StepInv, IncarnationsKept
<1>3. TypeOK'
  BY Zenon, <1>1, <1>2, GroupTypesKept, DataTypesKept, TypePartsNext
<1>4. ServersInv' /\ CallsInv'
  BY Zenon, <1>1, <1>2, ServersKept, CallsKept
<1> QED
  BY Zenon, <1>2, <1>3, <1>4 DEF IInv, ServersInv, CallsInv

(***************************************************************************)
(* The invariant of tester, network and daemons holds for any servers,     *)
(* calls and numbers of restarts: among other things every variable keeps  *)
(* its type, and a request travels only to the process it was given to.    *)
(***************************************************************************)
THEOREM TesterInvariant == Spec => []IInv
  BY InitTester, NextTester, PTL DEF Spec

(***************************************************************************)
(* No call through the network reaches a daemon that has not added the     *)
(* services of its server (labrpc.go:531-541): the tester waits for them   *)
(* before it registers the server, and an older request ends with the      *)
(* process it was sent to.  Of the control calls, Init is not held back.   *)
(***************************************************************************)
THEOREM ServicesReadyHolds == Spec => []ServicesReady
<1>1. IInv => ServicesReady
  BY Zenon DEF IInv
<1> QED
  BY <1>1, TesterInvariant, PTL

(***************************************************************************)
(* An update whose call returned true is never lost, although a server     *)
(* goes on serving after its persister was copied: it is no longer         *)
(* registered then, and nothing it still answers is acknowledged.          *)
(***************************************************************************)
THEOREM AckedIsDurableHolds == Spec => []AckedIsDurable
<1>1. IInv => AckedIsDurable
  BY Zenon DEF IInv, SavedInv, AckedIsDurable
<1> QED
  BY <1>1, TesterInvariant, PTL

(***************************************************************************)
(* Only the process of a server that is registered now has its calls       *)
(* carried out: an end is enabled for the present incarnation alone.       *)
(***************************************************************************)
THEOREM OnlyCurrentServerSendsHolds == Spec => OnlyCurrentServerSends
<1>1. ASSUME IInv, [Next]_vars, NEW k \in Call,
             net[k] = "sent", net'[k] = "picked", Origin[k] # Client
      PROVE  org[k] = servers[Origin[k]]
  <2>0. net \in [Call -> {"idle", "sent", "picked", "true", "false"}]
    BY Zenon, <1>1 DEF IInv, TypeOK
  <2>1. readEndnameInfo(k)
    <3>1. CASE DemuxStep \/ DeleteClients \/ NetCleanup \/ UNCHANGED vars
      BY Zenon, <1>1, <3>1 DEF DemuxStep, DeleteClients, NetCleanup, vars, netVars
    <3>2. ASSUME NEW n \in Node, DaemonNext(n) PROVE net' = net
      BY Zenon, <3>2 DEF DaemonNext, ConnectToTester, NewRPCSrv, AddService, CheckpointCloses,
         CheckpointPersister, netVars
    <3>3. ASSUME NEW n \in Node, MainNext(n) PROVE net' = net
      BY Zenon, <3>3 DEF MainNext, DialControl, SendInit, InitTooEarly, DialServer, DialFails, waitInit,
         AddServer, connect, DeleteServer, kill, netVars
    <3>4. ASSUME NEW n \in Node, StartServer(n) \/ ShutdownServer(n) PROVE net' = net
      BY Zenon, <3>4 DEF StartServer, ShutdownServer, netVars
    <3>5. ASSUME NEW j \in Call, readEndnameInfo(j) PROVE j = k
      BY Zenon, <1>1, <2>0, <3>5 DEF readEndnameInfo
    <3>6. ASSUME NEW j \in Call,
                 \/ NoServer(j) \/ StopWaiting(j) \/ HandlerReturned(j) \/ DropRequest(j)
                 \/ DropReply(j) \/ ClientCall(j) \/ Forward(j)
          PROVE  net'[k] # "picked"
      BY Zenon, <1>1, <2>0, <3>6 DEF NoServer, StopWaiting, HandlerReturned, DropRequest, DropReply,
         ClientCall, Forward, Reply, Request
    <3>7. ASSUME NEW j \in Call,
                 \/ dispatch(j) \/ AnswerRequest(j) \/ ForwardReturns(j) \/ forward(j)
                 \/ ServeRequest(j)
          PROVE  net' = net
      BY Zenon, <3>7 DEF dispatch, AnswerRequest, ForwardReturns, forward, ServeRequest, netVars
    <3> QED
      BY Zenon, <1>1, <3>1, <3>2, <3>3, <3>4, <3>5, <3>6, <3>7 DEF Next, Step, NetStep
  <2>2. <<Origin[k], org[k], Target[k]>> \in enabled
    BY Zenon, <1>1, <2>1 DEF readEndnameInfo, EndEnabled
  <2>3. Origin[k] \in connected /\ org[k] = inc[Origin[k]]
    BY Zenon, <1>1, <2>2 DEF IInv, EndsCurrent
  <2>4. Origin[k] \in Node /\ ~ Busy(Origin[k]) /\ daemon[Origin[k]] = "up"
    BY Zenon, <1>1, <2>3 DEF IInv, EndsCurrent, TypeOK
  <2>5. InStep(Origin[k]) /\ \A s : main # <<s, Origin[k]>>
    BY Zenon, <1>1, <2>4, BusyWith DEF IInv
  <2> QED
    BY Zenon, <2>3, <2>4, <2>5 DEF InStep
<1>2. IInv /\ [Next]_vars =>
        [\A k \in Call : (net[k] = "sent" /\ net'[k] = "picked" /\ Origin[k] # Client)
                             => org[k] = servers[Origin[k]]]_vars
  BY Zenon, <1>1
<1> QED
  BY <1>2, TesterInvariant, PTL DEF Spec, OnlyCurrentServerSends
=============================================================================
