------------------------------- MODULE Tester -------------------------------
(* The tester and the server processes it starts and kills: the simulated    *)
(* network (src/labrpc/labrpc.go), which lives in the tester's process, the  *)
(* daemons (src/tester1/daemonsrv.go, daemonclnt.go), and how a server is    *)
(* started, shut down and started again (group.go, srv.go, config.go).  A    *)
(* call by a client, or by a server to its peer, is a request to the network *)
(* and is forwarded to the daemon of the server over the connection "down";  *)
(* a server hands its own calls to the tester over the connection "up".  The *)
(* control connection carries one call at a time and is a rendezvous here.   *)
(* Disabled ends of the clients, and partitions, are in Group.               *)
EXTENDS Integers, Demux

CONSTANTS
    Node,           \* the servers of a group, by their numbers
    Client,         \* the origin of the calls clients make
    Nobody,         \* the origin of a call that is not made
    Call,           \* calls through the network
    Routes,         \* for each call, who makes it and to which server
    MaxInc,         \* bound on how often each server is started
    CleanupAfter    \* bound: a test cleans up after that many starts of a server

ASSUME TesterAssumption ==
    /\ Node \subseteq Nat
    /\ {Client, Nobody} \cap Node = {}
    /\ Routes \subseteq [Call -> (Node \cup {Client, Nobody}) \X Node]
    /\ MaxInc \in [Node -> Nat \ {0}]
    /\ CleanupAfter \in Nat
    /\ Conn = UNION {{"down", "up"} \X {n} \X (1 .. MaxInc[n]) : n \in Node}
    /\ Rpc = {"down", "up"} \X Call

VARIABLES
    route,          \* the calls of this behaviour, a member of Routes
    main,           \* what the tester is doing, and to which server
    inc,            \* how often a server was started: its process and its ends
    servers,        \* Network.servers: the incarnation that is registered
    connected,      \* ServerGrp.connected
    enabled,        \* Network.enabled, of the ends between servers
    clients,        \* the clients' ends are there, and enabled
    saved,          \* Server.saved, a persister's contents
    net,            \* where the request of a call is
    srv, org,       \* the server processReq found; the process that called
    netDone,        \* Network.done is closed
    daemon,         \* how far the process of a server has come
    persister,      \* the contents of its Persister
    unknown         \* a request met a service not yet added: log.Fatalf

netVars == <<net, srv, org, route>>
grpVars == <<main, inc, servers, connected, enabled, clients, saved, netDone>>
dmnVars == <<daemon, persister, unknown>>
vars == <<demuxVars, netVars, grpVars, dmnVars>>

Origin == [k \in Call |-> route[k][1]]
Target == [k \in Call |-> route[k][2]]

Idle == <<"idle">>

Down(n, i) == <<"down", n, i>>
Up(n, i) == <<"up", n, i>>

\* InitDaemon: started, connected to the tester, listening for control calls,
\* waiting for Init, with its persister, listening, with its services, and after
\* InitWait; then the steps of CheckpointPersister.  log.Fatalf has ended a
\* daemon that has exited.
Running == {"listening", "serving", "up", "closing", "closed", "frozen"}
Unsaved == {"off", "boot", "dialed", "control", "ctl", "exited"}
DaemonState == {"init"} \cup Unsaved \cup Running

TypeOK ==
    /\ DemuxTypeOK
    /\ route \in Routes
    /\ main \in {Idle} \cup {"runDaemon", "init", "dial", "waitInit", "AddServer",
                            "connect", "DeleteServer", "checkpoint", "kill", "fatal"} \X Node
    /\ {inc, servers} \subseteq [Node -> Nat]
    /\ connected \subseteq Node
    /\ enabled \subseteq Node \X Nat \X Node
    /\ {saved, persister} \subseteq [Node -> SUBSET Call]
    /\ net \in [Call -> {"idle", "sent", "picked", "true", "false"}]
    /\ {srv, org} \subseteq [Call -> Nat]
    /\ {clients, netDone, unknown} \subseteq BOOLEAN
    /\ daemon \in [Node -> DaemonState]

\* MakeConfig has started and connected the servers, in the way StartServer
\* and connect below do, and a test has made its clients.
Init ==
    /\ DemuxInitWith({Down(n, 1) : n \in Node} \cup {Up(n, 1) : n \in Node})
    /\ route \in Routes
    /\ main = Idle
    /\ inc = [n \in Node |-> 1] /\ servers = inc
    /\ connected = Node
    /\ enabled = Node \X {1} \X Node
    /\ clients = TRUE
    /\ saved = [n \in Node |-> {}] /\ persister = saved
    /\ net = [k \in Call |-> "idle"]
    /\ srv = [k \in Call |-> 0] /\ org = srv
    /\ netDone = FALSE /\ unknown = FALSE
    /\ daemon = [n \in Node |-> "up"]

-----------------------------------------------------------------------------
(* The network.                                                              *)

\* The end a call is made on.
EndEnabled(k) ==
    IF Origin[k] = Client THEN clients
    ELSE <<Origin[k], org[k], Target[k]>> \in enabled

Request(k) == net' = [net EXCEPT ![k] = IF netDone THEN "false" ELSE "sent"]

Reply(k, ok) ==
    /\ net' = [net EXCEPT ![k] = ok]
    /\ UNCHANGED <<demuxVars, route, srv, org, grpVars, dmnVars>>

\* ClientEnd.Call by a client.
ClientCall(k) ==
    /\ Origin[k] = Client
    /\ net[k] = "idle"
    /\ Request(k)
    /\ UNCHANGED <<demuxVars, route, srv, org, grpVars, dmnVars>>

\* readEndnameInfo, and what processReq makes of it.
readEndnameInfo(k) ==
    /\ net[k] = "sent"
    /\ EndEnabled(k)
    /\ servers[Target[k]] # 0
    /\ net' = [net EXCEPT ![k] = "picked"]
    /\ srv' = [srv EXCEPT ![k] = servers[Target[k]]]
    /\ UNCHANGED <<demuxVars, route, org, grpVars, dmnVars>>

\* Mutant: a call to a deleted server is not answered.
NoServerUnlessDisabled(k) ==
    /\ net[k] = "sent"
    /\ ~ EndEnabled(k)
    /\ Reply(k, "false")

NoServer(k) ==
    /\ net[k] = "sent"
    /\ ~ EndEnabled(k) \/ servers[Target[k]] = 0
    /\ Reply(k, "false")

DropRequest(k) ==
    /\ net[k] = "sent"
    /\ EndEnabled(k) /\ servers[Target[k]] # 0
    /\ Reply(k, "false")

\* The goroutine that calls the handler, here DaemonClnt.forward; it goes on
\* when processReq has stopped waiting for it.
dispatch(k) ==
    /\ srv[k] # 0
    /\ SendReceive(Down(Target[k], srv[k]), <<"down", k>>)
    /\ UNCHANGED <<netVars, grpVars, dmnVars>>

\* Mutant: a server that was started again counts as alive.
isServerDeadByName(k) == ~ EndEnabled(k) \/ servers[Target[k]] = 0

isServerDead(k) == ~ EndEnabled(k) \/ servers[Target[k]] # srv[k]

\* The loop stops waiting.
StopWaiting(k) ==
    /\ net[k] = "picked"
    /\ isServerDead(k)
    /\ Reply(k, "false")

\* RPCClnt.RPC reports an error of SendReceive as a call that was not answered.
Answered(k) == got[<<"down", k>>] # Failed

\* The handler has returned: the last look at the server decides, and the
\* reply may be dropped, or delayed for a while, which nobody can tell from a
\* caller that is slow.
HandlerReturned(k) ==
    /\ net[k] = "picked"
    /\ rpc[<<"down", k>>] = "returned"
    /\ Reply(k, IF ~ isServerDead(k) /\ Answered(k) THEN "true" ELSE "false")

DropReply(k) ==
    /\ net[k] = "picked"
    /\ rpc[<<"down", k>>] = "returned"
    /\ Reply(k, "false")

-----------------------------------------------------------------------------
(* The daemons.                                                              *)

\* The persister's Save and Checkpoint.
Save(n, state) == persister' = [persister EXCEPT ![n] = state]
Checkpoint(n) == persister[n]

\* Server.dispatch finds the service of a request, on either of the sockets.
KnownService(n) == daemon[n] \notin {"control", "init", "listening"}

MainStep(n, from, to) ==
    /\ main = <<from, n>>
    /\ main' = IF to = "idle" THEN Idle ELSE <<to, n>>

DaemonStep(n, from, to) ==
    /\ daemon[n] = from
    /\ daemon' = [daemon EXCEPT ![n] = to]

\* NewRPCClnt to the tester.
ConnectToTester(n) ==
    /\ DaemonStep(n, "boot", "dialed")
    /\ NewDemuxClnt(Up(n, inc[n]))
    /\ UNCHANGED <<netVars, grpVars, persister, unknown>>

\* A socket is listened on before the service behind it is added: that of the
\* control calls, then, after Init, that of the server.
NewRPCSrv(n) ==
    /\ DaemonStep(n, "dialed", "control") \/ DaemonStep(n, "init", "listening")
    /\ UNCHANGED <<demuxVars, netVars, grpVars, persister, unknown>>

\* Mutant: the daemon does not meet InitWait.
AddServiceNoSignal(n) ==
    /\ DaemonStep(n, "control", "ctl") \/ DaemonStep(n, "listening", "up")
    /\ UNCHANGED <<demuxVars, netVars, grpVars, persister, unknown>>

AddService(n) ==
    /\ DaemonStep(n, "control", "ctl") \/ DaemonStep(n, "listening", "serving")
    /\ UNCHANGED <<demuxVars, netVars, grpVars, persister, unknown>>

\* ServeRequest dispatches to the service, which saves the update of the call
\* (external) before it answers.
ServeRequest(k) ==
    /\ \E f \in toSrv : f[3] = <<"down", k>> /\ Serve(f)
    /\ Save(Target[k], persister[Target[k]] \cup {k})
    /\ unknown' = (unknown \/ ~ KnownService(Target[k]))
    /\ UNCHANGED <<netVars, grpVars, daemon>>

AnswerRequest(k) ==
    /\ \E f \in serving : f[3] = <<"down", k>> /\ Answer(f)
    /\ UNCHANGED <<netVars, grpVars, dmnVars>>

\* A server calls a peer: DaemonSrv.forward.
forward(k) ==
    LET n == Origin[k]
    IN  /\ n \in Node
        /\ daemon[n] \in Running
        /\ org[k] = 0
        /\ org' = [org EXCEPT ![k] = inc[n]]
        /\ SendReceive(Up(n, inc[n]), <<"up", k>>)
        /\ UNCHANGED <<route, net, srv, grpVars, dmnVars>>

\* TesterRPC.Forward puts the request into the network, and returns what the
\* network made of it.
Forward(k) ==
    /\ net[k] = "idle"
    /\ \E f \in toSrv : f[3] = <<"up", k>> /\ Serve(f)
    /\ Request(k)
    /\ UNCHANGED <<route, srv, org, grpVars, dmnVars>>

ForwardReturns(k) ==
    /\ net[k] \in {"true", "false"}
    /\ \E f \in serving : f[3] = <<"up", k>> /\ Answer(f)
    /\ UNCHANGED <<netVars, grpVars, dmnVars>>

\* CheckpointPersister, asked for by the tester: rpcc.Close, in two steps, and
\* the copy.  Closing rpcs stops new connections only.
CheckpointCloses(n) ==
    /\ main = <<"checkpoint", n>>
    /\ \/ DaemonStep(n, "up", "closing") /\ CloseTrans(Up(n, inc[n]))
       \/ DaemonStep(n, "closing", "closed") /\ CloseMap(Up(n, inc[n]))
    /\ UNCHANGED <<netVars, grpVars, persister, unknown>>

\* The tester's side: it keeps the copy.
checkpointPersister(n) ==
    /\ MainStep(n, "checkpoint", "kill")
    /\ saved' = [saved EXCEPT ![n] = Checkpoint(n)]

CheckpointPersister(n) ==
    /\ checkpointPersister(n)
    /\ DaemonStep(n, "closed", "frozen")
    /\ UNCHANGED <<demuxVars, netVars, inc, servers, connected, enabled, clients, netDone,
                   persister, unknown>>

-----------------------------------------------------------------------------
(* The tester: StartServer and ConnectOne, ShutdownServer, Cleanup.          *)

\* makeServer's ends are new and disabled; runDaemon.
StartServer(n) ==
    /\ main = Idle
    /\ clients
    /\ daemon[n] = "off"
    /\ inc[n] < MaxInc[n]
    /\ main' = <<"runDaemon", n>>
    /\ inc' = [inc EXCEPT ![n] = @ + 1]
    /\ daemon' = [daemon EXCEPT ![n] = "boot"]
    /\ UNCHANGED <<demuxVars, netVars, servers, connected, enabled, clients, saved, netDone,
                   persister, unknown>>

DialControl(n) ==
    /\ MainStep(n, "runDaemon", "init")
    /\ daemon[n] \in {"control", "ctl"}
    /\ UNCHANGED <<demuxVars, netVars, inc, servers, connected, enabled, clients, saved, netDone,
                   dmnVars>>

\* DaemonClnt.init, and the daemon's handler Init.
DaemonInit(n) ==
    /\ DaemonStep(n, "ctl", "init")
    /\ Save(n, saved[n])

SendInit(n) ==
    /\ MainStep(n, "init", "dial")
    /\ DaemonInit(n)
    /\ UNCHANGED <<demuxVars, netVars, inc, servers, connected, enabled, clients, saved, netDone,
                   unknown>>

\* The call comes before the service DaemonSrv is there: dispatch ends the
\* daemon, and init goes on without an answer.
InitTooEarly(n) ==
    /\ MainStep(n, "init", "dial")
    /\ ~ KnownService(n)
    /\ daemon' = [daemon EXCEPT ![n] = "exited"]
    /\ Die({}, {Up(n, inc[n])})
    /\ UNCHANGED <<netVars, inc, servers, connected, enabled, clients, saved, netDone, persister, unknown>>

DialServer(n) ==
    /\ MainStep(n, "dial", "waitInit")
    /\ daemon[n] \in Running
    /\ NewDemuxClnt(Down(n, inc[n]))
    /\ UNCHANGED <<netVars, inc, servers, connected, enabled, clients, saved, netDone, dmnVars>>

\* dial gives up, and getDmx ends the tester's process.
DialFails(n) ==
    /\ MainStep(n, "dial", "fatal")
    /\ daemon[n] = "exited"
    /\ UNCHANGED <<demuxVars, netVars, inc, servers, connected, enabled, clients, saved, netDone,
                   dmnVars>>

\* DaemonClnt.waitInit, and the daemon's handler InitWait.
InitWait(n) == DaemonStep(n, "serving", "up")

\* Mutant: the tester does not wait for the daemon.
waitInitNot(n) ==
    /\ MainStep(n, "waitInit", "AddServer")
    /\ UNCHANGED <<demuxVars, netVars, inc, servers, connected, enabled, clients, saved, netDone,
                   dmnVars>>

waitInit(n) ==
    /\ MainStep(n, "waitInit", "AddServer")
    /\ InitWait(n)
    /\ UNCHANGED <<demuxVars, netVars, inc, servers, connected, enabled, clients, saved, netDone,
                   persister, unknown>>

AddServer(n) ==
    /\ MainStep(n, "AddServer", "connect")
    /\ servers' = [servers EXCEPT ![n] = inc[n]]
    /\ UNCHANGED <<demuxVars, netVars, inc, connected, enabled, clients, saved, netDone, dmnVars>>

\* Mutant: only the end towards n.
BetweenIncoming(n, m) == {<<m, inc[m], n>>}

\* ConnectOne: both ends between n and every connected server.
Between(n, m) == {<<n, inc[n], m>>, <<m, inc[m], n>>}

connect(n) ==
    /\ MainStep(n, "connect", "idle")
    /\ connected' = connected \cup {n}
    /\ enabled' = enabled \cup UNION {Between(n, m) : m \in connected'}
    /\ UNCHANGED <<demuxVars, netVars, inc, servers, clients, saved, netDone, dmnVars>>

\* ShutdownServer, from the disconnect on; in Cleanup one server after another.
ShutdownServer(n) ==
    /\ main = Idle
    /\ IF clients THEN inc[n] < MaxInc[n] ELSE \A m \in Node : m < n => daemon[m] = "off"
    /\ daemon[n] = "up"
    /\ main' = <<"DeleteServer", n>>
    /\ connected' = connected \ {n}
    /\ enabled' = enabled \ UNION {Between(n, m) : m \in Node}
    /\ UNCHANGED <<demuxVars, netVars, inc, servers, clients, saved, netDone, dmnVars>>

DeleteServer(n) ==
    /\ MainStep(n, "DeleteServer", "checkpoint")
    /\ servers' = [servers EXCEPT ![n] = 0]
    /\ UNCHANGED <<demuxVars, netVars, inc, connected, enabled, clients, saved, netDone, dmnVars>>

kill(n) ==
    /\ MainStep(n, "kill", "idle")
    /\ daemon' = [daemon EXCEPT ![n] = "off"]
    /\ Die({Down(n, inc[n])}, {Up(n, inc[n])})
    /\ UNCHANGED <<netVars, inc, servers, connected, enabled, clients, saved, netDone, persister, unknown>>

\* Cleanup deletes the clients' ends, shuts every server down and ends the
\* network.
DeleteClients ==
    /\ main = Idle
    /\ clients
    /\ \A n \in Node : inc[n] <= CleanupAfter
    /\ clients' = FALSE
    /\ UNCHANGED <<demuxVars, netVars, main, inc, servers, connected, enabled, saved, netDone, dmnVars>>

NetCleanup ==
    /\ main = Idle
    /\ ~ clients
    /\ \A n \in Node : daemon[n] = "off"
    /\ ~ netDone
    /\ netDone' = TRUE
    /\ UNCHANGED <<demuxVars, netVars, main, inc, servers, connected, enabled, clients, saved, dmnVars>>

-----------------------------------------------------------------------------

NetStep(k) ==
    \/ readEndnameInfo(k) \/ NoServer(k) \/ dispatch(k) \/ StopWaiting(k)
    \/ HandlerReturned(k) \/ ServeRequest(k) \/ AnswerRequest(k) \/ Forward(k) \/ ForwardReturns(k)

DemuxStep ==
    /\ \E c \in Conn :
        \/ \E f \in Of(c, calls) : WriteCall(c, f[2], f[3])
        \/ ReadReply(c) \/ ReadError(c) \/ ReplyFail(c)
    /\ UNCHANGED <<netVars, grpVars, dmnVars>>

DaemonNext(n) == ConnectToTester(n) \/ NewRPCSrv(n) \/ AddService(n)
                 \/ CheckpointCloses(n) \/ CheckpointPersister(n)

MainNext(n) == DialControl(n) \/ SendInit(n) \/ InitTooEarly(n) \/ DialServer(n) \/ DialFails(n)
               \/ waitInit(n) \/ AddServer(n) \/ connect(n) \/ DeleteServer(n) \/ kill(n)

\* The tester's process has ended: the end of the test, and of the model.
Ended == main \in {"fatal"} \X Node

Step ==
    \/ DemuxStep
    \/ \E k \in Call : ClientCall(k) \/ forward(k) \/ NetStep(k) \/ DropRequest(k) \/ DropReply(k)
    \/ \E n \in Node : DaemonNext(n) \/ MainNext(n) \/ StartServer(n) \/ ShutdownServer(n)
    \/ DeleteClients \/ NetCleanup

Next == ~ Ended /\ Step

\* A goroutine or process that can go on does so; no behaviour has infinitely
\* many steps, so that fairness of all these steps together is enough.  Calls
\* and operations begin when the test likes, and nothing has to be dropped.
Progress ==
    /\ ~ Ended
    /\ \/ DemuxStep
       \/ \E k \in Call : NetStep(k)
       \/ \E n \in Node : DaemonNext(n) \/ MainNext(n)

Spec == Init /\ [][Next]_vars /\ WF_vars(Progress)

-----------------------------------------------------------------------------
(* Properties.  Behaviours have finitely many steps but for stuttering, so   *)
(* that what is always over in the end is over whenever it has begun.        *)

\* What a server would start with if it were killed now and started again by a
\* tester that had saved nothing since.
Durable(n) == IF daemon[n] \in Unsaved THEN saved[n] ELSE persister[n]

(* An update whose call returned true is never lost: it is in the persister  *)
(* of the running server or, between a shutdown and the next start, in the   *)
(* tester's copy, although a server goes on serving after its persister was  *)
(* copied (labrpc.go:338-344, daemonsrv.go:157-168).                         *)
AckedIsDurable == \A k \in Call : net[k] = "true" => k \in Durable(Target[k])

(* Only the server that is registered now has its calls carried out: what an *)
(* earlier process of it sent may still arrive at the tester, but does not   *)
(* enter the network (group.go:269-277, labrpc.go:264, testsrv.go:43).       *)
OnlyCurrentServerSends ==
    [][\A k \in Call : (net[k] = "sent" /\ net'[k] = "picked" /\ Origin[k] # Client)
                           => org[k] = servers[Origin[k]]]_vars

(* No call through the network reaches a daemon that is listening but has    *)
(* not added the services of its server, which would end the process         *)
(* (labrpc.go:531-541, daemonsrv.go:104-117): waitInit holds the tester back *)
(* until they are there, and no later start takes the request of an earlier  *)
(* one.  Nothing holds Init back in the same way on the control socket       *)
(* (daemonsrv.go:100-101): that call may come too early, in InitTooEarly.    *)
ServicesReady == ~ unknown

(* Every call the network accepted returns, true or false, whichever of its  *)
(* server, its end and its connection go away meanwhile (labrpc.go:290-383), *)
(* unless the tester itself has ended.                                       *)
CallsReturn == <>[](Ended \/ \A k \in Call : net[k] \notin {"sent", "picked"})

\* The process that made the call was killed.
CallerKilled(r) == r[1] = "up" /\ \E c \in Conn :
    c = Up(Origin[r[2]], org[r[2]]) /\ conn[c] = "dead"

(* No goroutine is left in SendReceive: it returns unless its own process is *)
(* killed, also for the handler goroutines processReq no longer waits for    *)
(* (labrpc.go:331-333, dmxclnt.go:66-101), or the tester has ended.          *)
SendReceiveReturns ==
    <>[](Ended \/ \A r \in Rpc : rpc[r] \in {"idle", "returned"} \/ CallerKilled(r))

(* StartServer and ShutdownServer return: tester and daemon do not wait for  *)
(* each other (group.go:232-277, daemonclnt.go:93-129, daemonsrv.go:96-117); *)
(* the one other end is that of the tester, when Init came too early.        *)
OperationsEnd == <>[](main = Idle \/ Ended)

-----------------------------------------------------------------------------
(* The inductive invariant.                                                  *)

\* A server, and a request given to one, has a connection of its incarnation.
Incarnations ==
    /\ route \in Routes
    /\ inc \in [Node -> Nat]
    /\ \A n \in Node : 1 <= inc[n] /\ inc[n] <= MaxInc[n]
    /\ servers \in [Node -> Nat]
    /\ \A n \in Node : servers[n] <= inc[n]
    /\ srv \in [Call -> Nat]
    /\ \A k \in Call : srv[k] <= inc[Target[k]]

\* The tester is at a step of StartServer or ShutdownServer of server n.
Busy(n) == main # Idle /\ main[2] = n

\* The steps of the tester and of the daemon keep together; a server is
\* registered only while its daemon is up, with its present incarnation.
InStep(n) ==
    \/ /\ ~ Busy(n)
       /\ \/ daemon[n] = "off" /\ servers[n] = 0
          \/ daemon[n] = "up" /\ servers[n] = inc[n]
    \/ /\ servers[n] = inc[n]
       /\ main \in {<<"connect", n>>, <<"DeleteServer", n>>} /\ daemon[n] = "up"
    \/ /\ servers[n] = 0
       /\ \/ main = <<"runDaemon", n>> /\ daemon[n] \in {"boot", "dialed", "control", "ctl"}
          \/ main = <<"init", n>> /\ daemon[n] \in {"control", "ctl"}
          \/ main = <<"dial", n>> /\ daemon[n] \in {"init", "listening", "serving", "exited"}
          \/ main = <<"fatal", n>> /\ daemon[n] = "exited"
          \/ main = <<"waitInit", n>> /\ daemon[n] \in {"listening", "serving"}
          \/ main = <<"AddServer", n>> /\ daemon[n] = "up"
          \/ main = <<"checkpoint", n>> /\ daemon[n] \in {"up", "closing", "closed"}
          \/ main = <<"kill", n>> /\ daemon[n] = "frozen"

\* The enabled ends are those of connected servers, of their present
\* incarnation; a connected server is up.
EndsCurrent ==
    /\ \A n \in connected : ~ Busy(n) /\ daemon[n] = "up"
    /\ \A e \in enabled : e[1] \in connected /\ e[2] = inc[e[1]]

\* The tester's connection to a server is open only while that process runs.
OpenCurrent ==
    \A n \in Node : \A i \in 1 .. MaxInc[n] :
        conn[Down(n, i)] = "open" => i = inc[n] /\ daemon[n] \in Running

\* A server that was given a request has added its services; a call is given
\* to one server only.
CallInv(k) ==
    /\ srv[k] # 0 => net[k] \notin {"idle", "sent"}
    /\ rpc[<<"down", k>>] # "idle" => srv[k] # 0
    /\ srv[k] = inc[Target[k]] =>
        daemon[Target[k]] \in {"up", "closing", "closed", "frozen", "off"}

\* A forwarded request travels on the connection of the server it was given
\* to, as long as that is open.
FramesRouted(k) ==
    /\ \A f \in calls \cup Travelling :
        f[3] = <<"down", k>> => f[1] = Down(Target[k], srv[k])
    /\ \A f \in toSrv \cup serving : f[3] = <<"down", k>> => conn[f[1]] = "open"

ResultThere == \A r \in Rpc : rpc[r] = "returned" <=> got[r] # NoReply

\* The server has served the request of a call.
Served(k) ==
    \/ got[<<"down", k>>] = <<"down", k>>
    \/ \E f \in serving \cup toClnt : f[3] = <<"down", k>>

\* What the present process has served is in its persister, and what was
\* acknowledged before the persister was copied is in the copy.
SavedInv(k) ==
    /\ Served(k) /\ srv[k] = inc[Target[k]] /\ daemon[Target[k]] \in Running
            => k \in persister[Target[k]]
    /\ net[k] = "true" =>
        /\ k \in Durable(Target[k])
        /\ daemon[Target[k]] = "frozen" => k \in saved[Target[k]]

(* The steps of the tester, of the network and of the daemons fit together:  *)
(* requests reach only the process they were given to, and what that process *)
(* acknowledged is saved before it ends (group.go:232-277, labrpc.go:290-383,*)
(* daemonsrv.go:96-168).                                                     *)
IInv ==
    /\ TypeOK /\ DemuxInv /\ Incarnations
    /\ \A n \in Node : InStep(n)
    /\ EndsCurrent /\ OpenCurrent /\ ResultThere /\ ServicesReady
    /\ \A k \in Call : CallInv(k) /\ FramesRouted(k) /\ SavedInv(k)
=============================================================================
