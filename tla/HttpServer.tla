----------------------------- MODULE HttpServer -----------------------------
(***************************************************************************)
(* proxypen serve-http (src/http_server.rs) and the probes that use it:    *)
(* run_server with its three listeners, a task per connection and, for     *)
(* HTTP/2 and HTTP/3, a task per request; at the other end the HTTP/1.1    *)
(* probe reading its response to the end of the stream (src/http1.rs) or   *)
(* an HTTP/2 or HTTP/3 probe reading to the end of its request's stream.   *)
(*                                                                         *)
(* A response is a number of parts: the first ends inside the status code, *)
(* the second completes the head, BodyLen more are the body.  The path     *)
(* between the two, which a proxy may be part of, splits a request in two, *)
(* and may cut a connection at any point.                                  *)
(***************************************************************************)
EXTENDS Naturals, FiniteSets

CONSTANTS Conns, Kinds, BodyLen

ASSUME ServerAssumption ==
  /\ Kinds \subseteq {"http1", "https1", "http2", "http3"}
  /\ BodyLen \in Nat

VARIABLES
  listener,  \* the task of each listener
  joining,   \* handles run_server has joined; 4 when the process has ended
  conn       \* the connections

vars == <<listener, joining, conn>>

Listeners == {"http1", "tls", "http3"}
Order == <<"http1", "tls", "http3">>
ListenerOf(kind) == IF kind \in {"https1", "http2"} THEN "tls" ELSE kind
IsHttp1(kind) == kind \in {"http1", "https1"}
Whole == 2 + BodyLen

NewConn ==
  [kind |-> "none",
   cli |-> "idle",     \* the probe: idle, waiting, success, failed
   srv |-> "none",     \* the connection's task
   task |-> "none",    \* the request's task (HTTP/2 and HTTP/3)
   way |-> 0, buf |-> 0,  \* segments of the request on their way, and unread
   out |-> 0, net |-> 0,  \* parts written, and parts not yet read by the probe
   rcv |-> 0,             \* parts the probe has read
   fin |-> FALSE, rst |-> FALSE, cut |-> FALSE]

Done(cli) == cli \in {"success", "failed"}
Gone(srv) == srv \in {"done", "killed"}

TypeOK ==
  /\ listener \in [Listeners -> {"starting", "listening", "ended"}]
  /\ joining \in 1..4
  /\ \A c \in Conns :
       /\ conn[c].cli \in {"idle", "waiting", "success", "failed"}
       /\ conn[c].srv \in {"none", "accepted", "serving", "writing", "closing", "done", "killed"}
       /\ conn[c].task \in {"none", "spawned", "responded", "sent", "done"}
       /\ conn[c].out \in 0..Whole
       /\ conn[c].net + conn[c].rcv <= conn[c].out

Init ==
  /\ listener = [l \in Listeners |-> "starting"]
  /\ joining = 1
  /\ conn = [c \in Conns |-> NewConn]

-----------------------------------------------------------------------------
\* run_http1_plain, run_tls_server, run_http3_server: bind or fail to.  The
\* addresses have been printed either way.
Bind(l) ==
  /\ joining < 4
  /\ listener[l] = "starting"
  /\ \E s \in {"listening", "ended"} : listener' = [listener EXCEPT ![l] = s]
  /\ UNCHANGED <<joining, conn>>

\* accept returns an error: the ? ends the listener's task.  A connection not
\* accepted yet is reset.  accept of a QUIC endpoint returns None once its driver
\* is gone, and the connections it drove with it.
AcceptFails(l) ==
  /\ joining < 4
  /\ listener[l] = "listening"
  /\ listener' = [listener EXCEPT ![l] = "ended"]
  /\ conn' = [c \in Conns |->
                IF ListenerOf(conn[c].kind) # l THEN conn[c]
                ELSE IF conn[c].srv = "none" THEN [conn[c] EXCEPT !.rst = TRUE]
                ELSE IF l = "http3" /\ ~Gone(conn[c].srv)
                THEN [conn[c] EXCEPT !.srv = "done", !.rst = TRUE]
                ELSE conn[c]]
  /\ UNCHANGED joining

\* Returning with the first listener that ends.
JoinAny ==
  /\ joining < 4
  /\ \E l \in Listeners : listener[l] = "ended"
  /\ joining' = 4
  /\ conn' = [c \in Conns |->
                IF Gone(conn[c].srv) \/ conn[c].srv = "none" THEN conn[c]
                ELSE [conn[c] EXCEPT !.srv = "killed", !.rst = TRUE]]
  /\ UNCHANGED listener

\* run_server awaits its handles in order and ignores what they return; when
\* the last has ended the process ends and takes every connection with it.
Join ==
  /\ joining < 4
  /\ listener[Order[joining]] = "ended"
  /\ joining' = joining + 1
  /\ conn' = [c \in Conns |->
                IF joining < 3 \/ Gone(conn[c].srv) \/ conn[c].srv = "none" THEN conn[c]
                ELSE [conn[c] EXCEPT !.srv = "killed", !.rst = TRUE]]
  /\ UNCHANGED listener

-----------------------------------------------------------------------------
Set(c, r) == conn' = [conn EXCEPT ![c] = r] /\ UNCHANGED <<listener, joining>>

\* A probe connects and writes its request.  The path may split it, where TLS
\* does not make one record of it.
Connect(c, kind) ==
  /\ conn[c].cli = "idle"
  /\ \/ /\ listener[ListenerOf(kind)] = "listening" /\ joining < 4
        /\ \E n \in {1, 2} :
             Set(c, [conn[c] EXCEPT !.kind = kind, !.cli = "waiting",
                                    !.way = IF kind = "http1" THEN n ELSE 1])
     \/ /\ (listener[ListenerOf(kind)] # "listening" \/ joining = 4)
        /\ Set(c, [conn[c] EXCEPT !.kind = kind, !.cli = "failed"])

\* The listener accepts and spawns the connection's task.
Accept(c) ==
  /\ joining < 4
  /\ conn[c].cli # "idle" /\ conn[c].srv = "none" /\ ~conn[c].rst
  /\ listener[ListenerOf(conn[c].kind)] = "listening"
  /\ Set(c, [conn[c] EXCEPT !.srv = IF conn[c].kind = "http1" THEN "serving" ELSE "accepted"])

\* The TLS or QUIC handshake, and for HTTP/2 and HTTP/3 that of the protocol;
\* a failure ends the task.  ALPN has settled which of the two TLS services
\* follows.
Handshake(c) ==
  /\ conn[c].srv = "accepted"
  /\ \/ Set(c, [conn[c] EXCEPT !.srv = "serving"])
     \/ Set(c, [conn[c] EXCEPT !.srv = "done", !.rst = TRUE])

\* A segment of the request arrives; a socket already closed answers it with
\* a reset.
Deliver(c) ==
  /\ conn[c].way > 0 /\ ~conn[c].cut /\ conn[c].srv # "none"
  /\ Set(c, [conn[c] EXCEPT !.way = @ - 1, !.buf = @ + 1,
                            !.rst = @ \/ Gone(conn[c].srv)])

\* serve_http1 and serve_http1_over_tls: one read, of whatever has arrived, is
\* the request.
ServeRead(c) ==
  /\ conn[c].srv = "serving" /\ IsHttp1(conn[c].kind) /\ conn[c].buf > 0
  /\ Set(c, [conn[c] EXCEPT !.buf = 0, !.srv = "writing"])

\* Going on writing after the body.
ServeWriteOn(c) ==
  /\ conn[c].srv = "writing" /\ conn[c].out <= Whole /\ ~conn[c].cut
  /\ Set(c, [conn[c] EXCEPT !.out = @ + 1, !.net = @ + 1])

\* write_all of the head and of the body.
ServeWrite(c) ==
  /\ conn[c].srv = "writing" /\ conn[c].out < Whole /\ ~conn[c].cut
  /\ Set(c, [conn[c] EXCEPT !.out = @ + 1, !.net = @ + 1])

\* shutdown; then the stream is dropped, which with bytes unread is a reset.
ServeClose(c) ==
  \/ /\ conn[c].srv = "writing" /\ conn[c].out = Whole
     /\ Set(c, [conn[c] EXCEPT !.srv = "closing", !.fin = TRUE])
  \/ /\ conn[c].srv = "closing"
     /\ Set(c, [conn[c] EXCEPT !.srv = "done", !.rst = @ \/ conn[c].buf > 0])

\* serve_http2, serve_http3_conn: accept yields the request, a task answers it.
ServeRequest(c) ==
  /\ conn[c].srv = "serving" /\ ~IsHttp1(conn[c].kind)
  /\ conn[c].buf > 0 /\ conn[c].task = "none"
  /\ Set(c, [conn[c] EXCEPT !.buf = 0, !.task = "spawned"])

\* What gets through of n parts sent.
Through(c, n) == IF conn[c].cut THEN 0 ELSE n

\* The request's task: send_response, send_data, and the end of the stream,
\* which HTTP/2 sends with the data and HTTP/3 with finish.  resolve_request
\* or a send may fail; then the stream has no end.
TaskStep(c) ==
  \/ /\ conn[c].srv = "serving" /\ conn[c].task = "spawned"
     /\ Set(c, [conn[c] EXCEPT !.task = "responded",
                               !.out = 2, !.net = @ + Through(c, 2)])
  \/ /\ conn[c].srv = "serving" /\ conn[c].task = "responded"
     /\ Set(c, [conn[c] EXCEPT !.task = IF conn[c].kind = "http2" THEN "done" ELSE "sent",
                               !.out = Whole, !.net = @ + Through(c, BodyLen),
                               !.fin = conn[c].kind = "http2"])
  \/ /\ conn[c].srv = "serving" /\ conn[c].task = "sent"
     /\ Set(c, [conn[c] EXCEPT !.task = "done", !.fin = TRUE])
  \/ /\ conn[c].srv # "killed" /\ conn[c].task \in {"spawned", "responded", "sent"}
     /\ Set(c, [conn[c] EXCEPT !.task = "done"])

\* Noticing only a cut, never a peer that has closed.
ServeGoneIfCut(c) ==
  /\ conn[c].srv \in {"accepted", "serving", "writing"} /\ conn[c].cut
  /\ Set(c, [conn[c] EXCEPT !.srv = "done"])

\* The peer is gone: read returns 0 or an error, a write fails, accept yields
\* None or an error and the loop breaks; dropping the connection ends it.
ServeGone(c) ==
  /\ conn[c].srv \in {"accepted", "serving", "writing"}
  /\ (conn[c].cut \/ Done(conn[c].cli))
  /\ Set(c, [conn[c] EXCEPT !.srv = "done"])

-----------------------------------------------------------------------------
\* The path cuts the connection: the probe reads what has got through.
Cut(c) ==
  /\ conn[c].cli = "waiting" /\ ~conn[c].cut
  /\ \E n \in 0..conn[c].net : Set(c, [conn[c] EXCEPT !.cut = TRUE, !.net = n])

ProbeRead(c) ==
  /\ conn[c].cli = "waiting" /\ conn[c].net > 0
  /\ Set(c, [conn[c] EXCEPT !.net = @ - 1, !.rcv = @ + 1])

\* parse_status_line of n parts: without any of the code there is no status, a
\* line that breaks off inside it gives the digits it has.
StatusLine(n) == IF n = 0 THEN "error" ELSE IF n = 1 THEN "other" ELSE "200"

\* The end of the stream, for HTTP/1.1 in any way but a reset: Ok(0) or
\* UnexpectedEof.  Content-Length is not looked at.
ProbeEof(c) ==
  /\ conn[c].cli = "waiting" /\ IsHttp1(conn[c].kind)
  /\ conn[c].net = 0 /\ (conn[c].fin \/ conn[c].cut) /\ ~conn[c].rst
  /\ Set(c, [conn[c] EXCEPT !.cli = IF StatusLine(conn[c].rcv) = "error"
                                    THEN "failed" ELSE "success"])

\* A reset read as the end of the stream.
ProbeResetIsEof(c) ==
  /\ conn[c].cli = "waiting" /\ conn[c].rst
  /\ Set(c, [conn[c] EXCEPT !.cli = IF StatusLine(conn[c].rcv) = "error"
                                    THEN "failed" ELSE "success"])

\* Any other error of read.
ProbeReset(c) ==
  /\ conn[c].cli = "waiting" /\ conn[c].rst
  /\ Set(c, [conn[c] EXCEPT !.cli = "failed"])

\* recv_data of HTTP/2 and HTTP/3: the end of the stream, or the loss of the
\* stream or of the connection.
ProbeStreamEnds(c) ==
  /\ conn[c].cli = "waiting" /\ ~IsHttp1(conn[c].kind) /\ conn[c].net = 0
  /\ \/ conn[c].fin /\ ~conn[c].cut /\ Set(c, [conn[c] EXCEPT !.cli = "success"])
     \/ /\ conn[c].cut \/ Gone(conn[c].srv) \/ (conn[c].task = "done" /\ ~conn[c].fin)
        /\ Set(c, [conn[c] EXCEPT !.cli = "failed"])

\* tokio::time::timeout around the probe.
ProbeTimeout(c) ==
  /\ conn[c].cli = "waiting"
  /\ Set(c, [conn[c] EXCEPT !.cli = "failed"])

ServerStep(c) ==
  \/ Accept(c) \/ Handshake(c) \/ ServeRead(c) \/ ServeWrite(c) \/ ServeClose(c)
  \/ ServeRequest(c) \/ TaskStep(c) \/ ServeGone(c)

ProbeStep(c) ==
  ProbeRead(c) \/ ProbeEof(c) \/ ProbeReset(c) \/ ProbeStreamEnds(c) \/ ProbeTimeout(c)

Next ==
  \/ \E l \in Listeners : Bind(l) \/ AcceptFails(l)
  \/ Join
  \/ \E c \in Conns :
       \/ \E kind \in Kinds : Connect(c, kind)
       \/ ServerStep(c) \/ ProbeStep(c) \/ Deliver(c) \/ Cut(c)

Spec == Init /\ [][Next]_vars

\* Tasks that can run do, and a probe's timeout comes.
FairSpec ==
  /\ Spec
  /\ WF_vars(Join)
  /\ \A c \in Conns : WF_vars(ServerStep(c)) /\ WF_vars(ProbeTimeout(c))

-----------------------------------------------------------------------------
\* A success is the whole response with its status, except for HTTP/1.1 on a
\* connection the path has cut, where end of file or UnexpectedEof passes for
\* the end of the body (http1.rs) - not where the server reset it because part
\* of a split request came too late.
SuccessIsWhole ==
  \A c \in Conns : conn[c].cli = "success" =>
    \/ conn[c].rcv = Whole
    \/ IsHttp1(conn[c].kind) /\ conn[c].cut

\* A connection is taken down with the process only when all three listeners
\* have ended: one that cannot bind or fails to accept leaves those of the
\* others alone (run_server).
OthersKeepServing ==
  \A c \in Conns : conn[c].srv = "killed" =>
    \A l \in Listeners : listener[l] = "ended"

\* The task of every accepted connection ends: serve_http1 has no deadline of
\* its own and HTTP/2 and HTTP/3 loops run as long as the peer, so this rests
\* on the probes' timeouts.
ConnectionsEnd ==
  \A c \in Conns : (conn[c].srv # "none") ~> Gone(conn[c].srv)
=============================================================================
