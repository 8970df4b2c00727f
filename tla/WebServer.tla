----------------------------- MODULE WebServer -----------------------------
(***************************************************************************)
(* The web server of src/Lua/modules/httpd.inc.c and httpd: one task that   *)
(* accepts connections, keeps those it answers in nc_clients and serves     *)
(* only the first of them a piece at a time, and keeps in ws_clients those  *)
(* that became websockets.  Another thread may stop the server between any  *)
(* two steps.                                                               *)
(*                                                                         *)
(* Not in the model: what is sent and where it is read from, the timeouts   *)
(* as times, the parameters of a request (get_root) and the buffers.        *)
(***************************************************************************)
EXTENDS Naturals, FiniteSets, Sequences, SequencesExt, Functions

CONSTANTS
  Conns,      \* the netconns lwIP has
  Peers,      \* remote addresses
  NcMax,      \* connections that are answered at once
  WsMax,      \* websockets at once
  MaxAge,     \* WS_TIMEOUT_UNCONNECT: the polls a silent websocket survives
  MaxPieces,  \* bound: pieces of an answer after the first
  MaxStack,   \* bound: values on the Lua stack
  NULL

ASSUME WebServerAssumption ==
  /\ NcMax \in Nat \ {0} /\ WsMax \in Nat \ {0} /\ MaxAge \in Nat \ {0}
  /\ MaxPieces \in Nat /\ MaxStack \in Nat
  /\ NULL \notin Conns \cup Peers \cup {"listening"}

VARIABLES
  run,      \* is_httpd_run: 0 stopped, 1 loop, 2 callback, 3 leaving, 4 broken
  mode,     \* who calls httpd_task: httpd.loop, the callback of the gui, no one
  pc,       \* where the task is
  peer,     \* conn -> remote address, or NULL when the conn is free
  nc,       \* the conn that listens
  nodes,    \* nc_clients[0 .. nc_clients_cnt - 1]
  ws,       \* ws_clients[0 .. ws_clients_cnt - 1]
  poll,     \* the index i of ws_task, and t_is_httpd_run of ws_sub_task
  saved,
  stack,    \* the Lua stack of the task: for each chunk the conn it answers
  lost,     \* history: open conns no one refers to
  cut,      \* history: a script ended under a later one
  wild      \* history: freed memory or a NULL pcb was used

vars == <<run, mode, pc, peer, nc, nodes, ws, poll, saved, stack, lost, cut, wild>>

Running == run \in {1, 2}
Open == {c \in Conns : peer[c] # NULL}
Listening == "listening"     \* peer of the conn that listens
ClientsOf(s) == {s[j].clnt : j \in DOMAIN s} \ {NULL}
Fresh == CHOOSE c \in Conns \ Open : TRUE     \* which of them does not matter
Close(cs) == [c \in Conns |-> IF c \in cs THEN NULL ELSE peer[c]]

\* nc_sock_add: the type is not written, and may read as NC_TYPE_WS
Node(c) == [clnt |-> c, uri |-> "none", type |-> "junk", state |-> "close",
            level |-> 0, left |-> 0]
Socket(c, dev) == [clnt |-> c, dev |-> dev, age |-> 0]

\* nc_sock_del: the sets of conns that deleting nodes may close
MayClose(s) ==
  {cs \in SUBSET ClientsOf(s) :
     \A j \in DOMAIN s : /\ s[j].type = "get" /\ s[j].clnt # NULL => s[j].clnt \in cs
                         /\ s[j].type = "ws" => s[j].clnt \notin cs}
Stray(s, cs) == {s[j].clnt : j \in {k \in DOMAIN s : s[k].type = "junk"}} \ (cs \cup {NULL})

----------------------------------------------------------------------------
Init ==
  /\ run = 0 /\ mode = "none" /\ pc = "off"
  /\ peer = [c \in Conns |-> NULL] /\ nc = NULL
  /\ nodes = <<>> /\ ws = <<>> /\ poll = 0 /\ saved = 0
  /\ stack = <<>> /\ lost = {} /\ cut = FALSE /\ wild = FALSE

At(p) == pc = p /\ ~ wild
Goto(p) == pc' = p
KeepNet == UNCHANGED <<peer, nc, lost>>
KeepWs == UNCHANGED <<ws, poll, saved>>
KeepScripts == UNCHANGED <<stack, cut>>
KeepRest == UNCHANGED mode

(* What a read or write on a conn comes to: check_conn and print_err set    *)
(* is_httpd_run to 4 when the wifi is away ("down") or the error is fatal;  *)
(* "aborted" is ERR_ABRT or ERR_CLSD, "broken" any other fatal error.  The  *)
(* wifi comes and goes as it likes.                                         *)
Outcomes == {"fine", "aborted", "broken", "down"}
After(net) == IF net = "fine" THEN run ELSE 4

(* httpd_task_loop_run and httpd_task_cb_run.                               *)
StartLoop ==
  /\ At("off") /\ mode = "none"
  /\ run' = 1 /\ mode' = "loop" /\ Goto("open")
  /\ UNCHANGED <<nodes, wild>> /\ KeepNet /\ KeepWs /\ KeepScripts

AddCallback ==
  /\ At("off") /\ mode = "none"
  /\ run' = 2 /\ mode' = "callback"
  /\ UNCHANGED <<pc, nodes, wild>> /\ KeepNet /\ KeepWs /\ KeepScripts

Called ==
  /\ At("off") /\ mode = "callback"
  /\ Goto("open")
  /\ UNCHANGED <<run, nodes, wild>> /\ KeepRest /\ KeepNet /\ KeepWs /\ KeepScripts

(* httpd_task_stop, by a script or another thread.                          *)
Stop ==
  /\ mode # "none" /\ ~ wild
  /\ run' = 0 /\ mode' = IF mode = "callback" THEN "none" ELSE mode
  /\ UNCHANGED <<pc, nodes, wild>> /\ KeepNet /\ KeepWs /\ KeepScripts

(* httpd_task up to its loop.  A conn that still listens is replaced.       *)
Listen ==
  /\ At("open")
  /\ \/ /\ Open # Conns
        /\ peer' = [peer EXCEPT ![Fresh] = Listening] /\ nc' = Fresh
        /\ lost' = lost \cup ({nc} \ {NULL})
        /\ IF run = 4 THEN Goto("leave") /\ UNCHANGED run
           ELSE Goto("loop") /\ run' \in {run, 4}
     \/ /\ nc' = NULL /\ lost' = lost \cup ({nc} \ {NULL})
        /\ Goto("leave") /\ UNCHANGED <<run, peer>>
  /\ UNCHANGED <<nodes, wild>> /\ KeepRest /\ KeepWs /\ KeepScripts

ListenDown ==
  /\ At("open")
  /\ run' = 4 /\ peer' = Close({nc}) /\ nc' = NULL /\ Goto("leave")
  /\ UNCHANGED <<lost, nodes, wild>> /\ KeepRest /\ KeepWs /\ KeepScripts

LeaveLoop ==
  /\ At("loop") /\ ~ Running /\ Goto("exit")
  /\ UNCHANGED <<run, nodes, wild>> /\ KeepRest /\ KeepNet /\ KeepWs /\ KeepScripts

AcceptNone ==
  /\ At("loop") /\ Running
  /\ \E net \in Outcomes :
       run' = After(net) /\ Goto(IF net = "fine" THEN "tail" ELSE "exit")
  /\ UNCHANGED <<nodes, wild>> /\ KeepRest /\ KeepNet /\ KeepWs /\ KeepScripts

Accept(p) ==
  /\ At("loop") /\ Running /\ Open # Conns
  /\ \/ /\ Len(nodes) < NcMax
        /\ nodes' = Append(nodes, Node(Fresh)) /\ peer' = [peer EXCEPT ![Fresh] = p]
        /\ Goto("recv")
     \/ Goto("tail") /\ UNCHANGED <<nodes, peer>>       \* too many, or no memory: closed
  /\ UNCHANGED <<run, nc, lost, wild>> /\ KeepRest /\ KeepWs /\ KeepScripts

----------------------------------------------------------------------------
(* The request of the newest connection.                                    *)
New == Len(nodes)

ReceiveFails ==     \* nothing within the timeout, or the conn is broken
  /\ At("recv") /\ Goto("tail")
  /\ \E net \in Outcomes : run' = After(net)
  /\ UNCHANGED <<nodes, wild>> /\ KeepRest /\ KeepNet /\ KeepWs /\ KeepScripts

ReceiveStopped ==   \* stopped meanwhile, or the wifi goes before the data are looked at
  /\ At("recv") /\ Goto("exit")
  /\ \/ ~ Running /\ UNCHANGED run
     \/ Running /\ run' = 4
  /\ nodes' = [nodes EXCEPT ![New].state = "close"]
  /\ UNCHANGED wild /\ KeepRest /\ KeepNet /\ KeepWs /\ KeepScripts

ReceiveOther ==     \* not a GET
  /\ At("recv") /\ Running /\ Goto("tail")
  /\ UNCHANGED <<run, nodes, wild>> /\ KeepRest /\ KeepNet /\ KeepWs /\ KeepScripts

(* After an upgrade, or one that was refused, httpd_task frees the node and *)
(* still looks at its state, and may write it: that harms, or does not.     *)
UseFreedNode == wild' \in BOOLEAN

(* websocket_connect refuses when other connections are answered (r = 2).   *)
RefusesLate(s) == Len(s) > 2

Refuses(s) == Len(s) > 1

RefuseWebsocket ==
  /\ At("recv") /\ Running /\ Refuses(nodes) /\ Goto("tail")
  /\ nodes' = Front(nodes) /\ peer' = Close({Last(nodes).clnt})
  /\ UseFreedNode
  /\ UNCHANGED <<run, nc, lost>> /\ KeepRest /\ KeepWs /\ KeepScripts

\* Mutant of Evict: the table takes one more than it has room for.
EvictLate(s) == IF Len(s) > WsMax THEN Front(s) ELSE s

Evict(s) == IF Len(s) = WsMax THEN Front(s) ELSE s

\* ws_sock_del_doubles: from the last to the first, those of the peer of c go
WithoutDoubles(s, c) ==
  LET kept[n \in 0 .. Len(s)] ==
        IF n = 0 THEN s
        ELSE LET i == Len(s) - n + 1
             IN IF peer[s[i].clnt] = peer[c] THEN RemoveAt(kept[n - 1], i) ELSE kept[n - 1]
  IN kept[Len(s)]

UpgradedKept(n) == n

Upgraded(n) == [n EXCEPT !.type = "ws", !.clnt = NULL]

AddWebsocket(dev, found) ==
  LET n == Last(nodes)
      kept == WithoutDoubles(Evict(ws), n.clnt)
      all == IF dev \/ found THEN <<Socket(n.clnt, dev)>> \o kept ELSE <<>>
      gone == Upgraded(n)
  IN /\ At("recv") /\ Running /\ ~ Refuses(nodes) /\ Goto("tail")
     /\ ws' = all /\ nodes' = Front(nodes)
     /\ \E cs \in MayClose(<<gone>>) :
          peer' = Close(((ClientsOf(ws) \cup {n.clnt}) \ ClientsOf(all)) \cup cs)
     /\ \E net \in Outcomes : run' = After(net)
     /\ UseFreedNode
     /\ UNCHANGED <<nc, poll, saved, lost>> /\ KeepRest /\ KeepScripts

\* A peer has reset its connection, whose pcb is NULL when it is accepted or its
\* websocket looked for (ws_sock_del_doubles); the request has no path, or
\* ws_sock_add finds no memory, and a freed node or nil is used.
Wild ==
  /\ \/ At("loop") /\ Open # Conns
     \/ At("recv")
  /\ Running
  /\ wild' = TRUE
  /\ UNCHANGED <<run, pc, nodes>> /\ KeepRest /\ KeepNet /\ KeepWs /\ KeepScripts

\* ws_socks_del
CloseSockets == ws' = <<>> /\ UNCHANGED <<poll, saved>>

ChunkBelow(s) == [level |-> Len(s), stack |-> Append(s, Last(nodes).clnt)]

Chunk(s) == [level |-> Len(s) + 1, stack |-> Append(s, Last(nodes).clnt)]

GetScript(loads, left) ==
  LET chunk == Chunk(stack)
      begin(state, level) ==
        nodes' = [nodes EXCEPT ![New] = [@ EXCEPT !.uri = "script", !.type = "get",
                    !.state = state, !.level = level, !.left = left]]
  IN /\ At("recv") /\ Running /\ Goto("tail")
     /\ CloseSockets /\ peer' = Close(ClientsOf(ws))
     /\ IF loads
        THEN /\ Len(stack) < MaxStack
             /\ \E net \in Outcomes :
                  /\ run' = After(net)
                  /\ begin(IF net = "fine" THEN "pas" ELSE "end", chunk.level)
                  /\ stack' = IF net = "fine" THEN chunk.stack ELSE stack
        ELSE /\ begin("end", 0) \/ begin("close", 0)
             /\ UNCHANGED <<run, stack>>
     /\ UNCHANGED <<nc, lost, cut, wild>> /\ KeepRest

GetFile(found, left) ==
  /\ At("recv") /\ Running /\ Goto("tail")
  /\ CloseSockets /\ peer' = Close(ClientsOf(ws))
  /\ \E net \in Outcomes :       \* on a failure, and when not found: do_404
       /\ run' = After(net)
       /\ nodes' = [nodes EXCEPT ![New] =
            [@ EXCEPT !.uri = "file", !.type = "get", !.left = left,
                      !.state = IF found /\ net = "fine" THEN "pas" ELSE "close"]]
  /\ UNCHANGED <<nc, lost, wild>> /\ KeepRest /\ KeepScripts

----------------------------------------------------------------------------
(* httpd_pas(0): a step for the first connection.                           *)
First == nodes[1]
Serving == At("tail") /\ nodes # <<>> /\ Goto("end")

DropFirst ==
  /\ Serving /\ (First.state = "close" \/ First.uri = "none")
  /\ nodes' = Tail(nodes)
  /\ \E cs \in MayClose(<<First>>) :
       peer' = Close(cs) /\ lost' = lost \cup Stray(<<First>>, cs)
  /\ UNCHANGED <<run, nc, wild>> /\ KeepRest /\ KeepWs /\ KeepScripts

ServePiece ==       \* do_lua_pas; do_file_pas restores is_httpd_run when aborted
  /\ Serving /\ First.state = "pas"
  /\ \/ \E net \in Outcomes :
          /\ run' \in {After(net)}
               \cup (IF First.uri = "file" /\ net \in {"aborted", "down"} THEN {run} ELSE {})
          /\ nodes' = IF net = "fine" /\ run # 4 /\ First.left > 0
                      THEN [nodes EXCEPT ![1].left = @ - 1]
                      ELSE [nodes EXCEPT ![1].state = "end"]
     \/ UNCHANGED run /\ nodes' = [nodes EXCEPT ![1].state = "end"]
  /\ UNCHANGED wild /\ KeepRest /\ KeepNet /\ KeepWs /\ KeepScripts

Settop(s, n) == IF n < Len(s) THEN SubSeq(s, 1, n) ELSE s \o [j \in 1 .. n - Len(s) |-> NULL]

EndedNot(n) == [n EXCEPT !.level = 0]

Ended(n) == [n EXCEPT !.state = "close", !.level = 0]

EndFirst ==         \* do_lua_end, do_file_end
  /\ Serving /\ First.state = "end"
  /\ nodes' = [nodes EXCEPT ![1] = Ended(@)]
  /\ stack' = IF First.level > 0 THEN Settop(stack, First.level - 1) ELSE stack
  /\ cut' = \/ cut
            \/ First.level > 0 /\ \E j \in 2 .. Len(nodes) : nodes[j].level >= First.level
  /\ UNCHANGED <<run, wild>> /\ KeepRest /\ KeepNet /\ KeepWs

(* ws_task, when no connection is left to be answered.                      *)
PollStart ==
  /\ At("tail") /\ nodes = <<>>
  /\ IF Running THEN Goto("ws") /\ poll' = 1 /\ KeepNet /\ UNCHANGED <<ws, saved>>
     ELSE Goto("end") /\ peer' = Close(ClientsOf(ws)) /\ CloseSockets /\ UNCHANGED <<nc, lost>>
  /\ UNCHANGED <<run, nodes, wild>> /\ KeepRest /\ KeepScripts

PollEnd ==
  /\ At("ws") /\ poll > Len(ws)
  /\ Goto("end") /\ poll' = 0
  /\ UNCHANGED <<run, nodes, ws, saved, wild>> /\ KeepRest /\ KeepNet /\ KeepScripts

Poll ==             \* ws_sub_task up to netconn_recv
  /\ At("ws") /\ poll <= Len(ws)
  /\ ws' = [ws EXCEPT ![poll].age = @ + 1]
  /\ IF Running THEN Goto("wsrecv") /\ saved' = run /\ UNCHANGED poll
     ELSE poll' = poll + 1 /\ UNCHANGED <<pc, saved>>
  /\ UNCHANGED <<run, nodes, wild>> /\ KeepRest /\ KeepNet /\ KeepScripts

Polled == Goto("ws") /\ poll' = poll + 1 /\ saved' = 0

ToTop(s, j) == IF j \in DOMAIN s THEN <<s[j]>> \o RemoveAt(s, j) ELSE s
AgeOut(s, j) == IF s[j].age >= MaxAge THEN RemoveAt(s, j) ELSE s
WokenNot(s, j) == s

Woken(s, j) == [s EXCEPT ![j].age = 0]

(* A message for a script moves its websocket to the top, one for a device  *)
(* the websocket whose index is the number of the channel.  The age is      *)
(* looked at in the structure, the websocket is deleted by its index.       *)
PollMessage(j) ==
  LET woken == Woken(ws, poll)
      top == ToTop(woken, IF ws[poll].dev THEN j ELSE poll)
      all == IF woken[poll].age >= MaxAge THEN RemoveAt(top, poll) ELSE top
  IN /\ At("wsrecv") /\ Polled
     /\ ws' = all /\ peer' = Close(ClientsOf(ws) \ ClientsOf(all))
     /\ UNCHANGED <<run, nc, lost, nodes, wild>> /\ KeepRest /\ KeepScripts

PollQuiet ==        \* nothing within the timeout, or not a message
  /\ At("wsrecv") /\ Polled
  /\ ws' = AgeOut(ws, poll) /\ peer' = Close(ClientsOf(ws) \ ClientsOf(ws'))
  /\ UNCHANGED <<run, nc, lost, nodes, wild>> /\ KeepRest /\ KeepScripts

PollAborted ==      \* is_httpd_run becomes what it was before the call
  /\ At("wsrecv") /\ Polled
  /\ run' = saved
  /\ ws' = RemoveAt(ws, poll) /\ peer' = Close({ws[poll].clnt})
  /\ UNCHANGED <<nc, lost, nodes, wild>> /\ KeepRest /\ KeepScripts

PollBroken ==
  /\ At("wsrecv") /\ Polled
  /\ run' = 4
  /\ \/ ws' = <<>> /\ peer' = Close(ClientsOf(ws))
     \/ UNCHANGED <<ws, peer>>      \* the wifi goes once the data have come
  /\ UNCHANGED <<nc, lost, nodes, wild>> /\ KeepRest /\ KeepScripts

----------------------------------------------------------------------------
LoopEnd ==
  /\ At("end") /\ Goto("loop")
  /\ run' = IF run = 2 THEN 3 ELSE run
  /\ UNCHANGED <<nodes, wild>> /\ KeepRest /\ KeepNet /\ KeepWs /\ KeepScripts

Exit ==
  /\ At("exit") /\ Goto("leave")
  /\ CloseSockets /\ nodes' = <<>> /\ nc' = NULL
  /\ \E cs \in MayClose(nodes) :
       /\ peer' = Close(ClientsOf(ws) \cup cs \cup {nc})
       /\ lost' = lost \cup Stray(nodes, cs)
  /\ run' = IF run = 3 THEN 2 ELSE run
  /\ UNCHANGED wild /\ KeepRest /\ KeepScripts

LeaveBroken ==
  /\ At("leave")
  /\ IF mode = "loop" /\ run = 4 THEN Goto("open") /\ UNCHANGED <<run, mode>>
     ELSE /\ mode' = IF mode = "loop" THEN "none" ELSE mode
          /\ Goto("off") /\ UNCHANGED run
  /\ UNCHANGED <<nodes, wild>> /\ KeepNet /\ KeepWs /\ KeepScripts

Leave ==
  /\ At("leave")
  /\ IF mode = "loop" /\ run = 4 THEN run' = 1 /\ Goto("open") /\ UNCHANGED mode
     ELSE /\ mode' = IF mode = "loop" THEN "none" ELSE mode
          /\ Goto("off") /\ UNCHANGED run
  /\ UNCHANGED <<nodes, wild>> /\ KeepNet /\ KeepWs /\ KeepScripts

----------------------------------------------------------------------------
Request ==
  \/ ReceiveFails \/ ReceiveStopped \/ ReceiveOther \/ RefuseWebsocket \/ Wild
  \/ \E dev, found \in BOOLEAN : AddWebsocket(dev, found)
  \/ \E loads \in BOOLEAN, left \in 0 .. MaxPieces : GetScript(loads, left)
  \/ \E found \in BOOLEAN, left \in 0 .. MaxPieces : GetFile(found, left)
Serve == DropFirst \/ ServePiece \/ EndFirst
Websockets ==
  \/ PollStart \/ PollEnd \/ Poll \/ PollQuiet \/ PollAborted \/ PollBroken
  \/ \E j \in 1 .. WsMax + 1 : PollMessage(j)
Task ==
  \/ Listen \/ ListenDown \/ LeaveLoop \/ AcceptNone \/ LoopEnd \/ Exit \/ Leave
  \/ Request \/ Serve \/ Websockets

Next ==
  \/ StartLoop \/ AddCallback \/ Called \/ Stop \/ Task
  \/ \E p \in Peers : Accept(p)

Spec == Init /\ [][Next]_vars

\* the task runs whenever it can; the answers of the model end
FairSpec == Spec /\ WF_vars(Task)

----------------------------------------------------------------------------
NodeType == [clnt : Conns \cup {NULL}, uri : {"none", "file", "script"},
             type : {"junk", "get", "ws"}, state : {"close", "pas", "end"},
             level : 0 .. MaxStack + 1, left : 0 .. MaxPieces]
SocketType == [clnt : Conns, dev : BOOLEAN, age : 0 .. MaxAge]

(* The tables stay within their sizes, and no websocket gets older than the *)
(* age at which it is closed (the arrays of httpd.inc.c:120, websock.c:50). *)
TypeOK ==
  /\ run \in 0 .. 4 /\ mode \in {"none", "loop", "callback"}
  /\ pc \in {"off", "open", "loop", "recv", "tail", "ws", "wsrecv", "end", "exit", "leave"}
  /\ cut \in BOOLEAN /\ wild \in BOOLEAN
  /\ peer \in [Conns -> Peers \cup {Listening, NULL}] /\ nc \in Conns \cup {NULL}
  /\ nodes \in Seq(NodeType) /\ Len(nodes) <= NcMax
  /\ ws \in Seq(SocketType) /\ Len(ws) <= WsMax
  /\ poll \in 0 .. WsMax + 1 /\ saved \in 0 .. 2
  /\ stack \in Seq(Conns \cup {NULL}) /\ lost \in SUBSET Conns

(* Every open connection has exactly one owner - the listener, a connection *)
(* being answered or a websocket - and an owner's connection is open: it is *)
(* closed once, and moves from nc_clients to ws_clients without being in    *)
(* both (httpd.inc.c:152, websock.c:569-572).  Only those whose structure   *)
(* was deleted before its type was written, and listeners replaced in the   *)
(* broken state of the callback mode, are open and no one's.                *)
ConnectionsOwned ==
  LET owned == <<{nc} \ {NULL}, ClientsOf(nodes), ClientsOf(ws), lost>>
  IN /\ Open = UNION Range(owned)
     /\ \A j, k \in 1 .. 4 : j # k => owned[j] \cap owned[k] = {}
     /\ \A s \in {nodes, ws} : IsInjective([j \in DOMAIN s |-> s[j].clnt])

(* No answer is on its way while there are websockets: websockets are only  *)
(* polled when no connection is left (httpd.inc.c:493), and would time out  *)
(* on a browser that waits for them.                                        *)
WebsocketsYield ==
  ws # <<>> => \A j \in DOMAIN nodes : nodes[j].state = "close"

(* A script that goes on is the one of its own request: its place on the    *)
(* Lua stack is not taken by another (do_lua_pas pushes the value at        *)
(* cgi_lvl).  It holds until a script ends under one that began later.      *)
RunsOwnScript ==
  ~ cut => \A j \in DOMAIN nodes :
             LET n == nodes[j] IN
             n.state = "pas" /\ n.level > 0 =>
               n.level <= Len(stack) /\ stack[n.level] = n.clnt

(* Polling a websocket closes no other one, unless the network broke: the   *)
(* index that is deleted may name another after ws_sock_gotop.              *)
PollSparesOthers ==
  [][pc = "wsrecv" /\ run' # 4 =>
       ClientsOf(ws) \ ClientsOf(ws') \subseteq {ws[poll].clnt}]_vars

(* A connection that is accepted is closed in the end or becomes a          *)
(* websocket, except one that did not ask with a GET: nc_sock_del reads a   *)
(* type nobody wrote, and may leave it open and no one's (lost).            *)
AnswersEnd ==
  \A c \in Conns :
    c \in ClientsOf(nodes) ~> c \notin Open \/ c \in ClientsOf(ws) \cup lost \/ wild

(* httpd.loop comes back to accepting or ends, whatever breaks: it does not *)
(* stay in the broken state (httpd_task_loop_run).                          *)
Recovers == run = 4 /\ mode = "loop" ~> run \in {0, 1} \/ wild
=============================================================================
