---------------------------- MODULE BenchSession ----------------------------
(***************************************************************************)
(* One run of proxypen benchmark against a bench server: the client        *)
(* (src/bench/client.rs, run_inner and the run_* data phases), the         *)
(* in-process listener of --serve (src/bench/server.rs, run_until_signal), *)
(* the session task the run's connection is accepted into (handle_session  *)
(* and its run_* phases), the control connection between them (a FIFO of framed    *)
(* messages each way, with end of file) and the data path of the current   *)
(* test (a TCP connection with a bounded buffer, or UDP datagrams).        *)
(*                                                                         *)
(* Deadlines are not timed here: a sender may find its deadline reached    *)
(* before any write.  Faults says what the environment may do:             *)
(*   "connect"  the control connection cannot be opened                    *)
(*   "bind"     a port cannot be opened: the in-process listener's or a    *)
(*              data port                                                  *)
(*   "accept"   the in-process listener's accept returns an error          *)
(*   "refuse"   the server is a build that does not know the kind of test  *)
(*   "data"     the data connection cannot be opened, the hello cannot be  *)
(*              sent, or the data connection breaks                        *)
(*   "loss"     datagrams are lost                                         *)
(*   "stall"    the data path is slower than a deadline and its grace      *)
(*   "abort"    the client process ends                                    *)
(*   "crash"    the server process ends                                    *)
(***************************************************************************)
EXTENDS Naturals, Sequences

CONSTANTS
  Modes,       \* the values opts.mode may have: "tcp", "udp", "both"
  Directions,  \* the values opts.direction may have: "up", "down", "both"
  RateLists,   \* the values opts.udp_bandwidth may have: sequences of rates
  BufCap,      \* bound: chunks the TCP data path holds
  MaxChunks,   \* bound: chunks or datagrams sent in one test
  Faults

ASSUME SessionAssumption ==
  /\ Modes \subseteq {"tcp", "udp", "both"}
  /\ Directions \subseteq {"up", "down", "both"}
  /\ RateLists \subseteq Seq(Nat)
  /\ BufCap \in Nat \ {0}
  /\ MaxChunks \in Nat \ {0}
  /\ Faults \subseteq {"connect", "bind", "accept", "refuse", "data", "loss",
                      "stall", "abort", "crash"}

VARIABLES
  plans,            \* build_plans(&opts)
  serve,            \* opts.serve: a server runs in the client's process
  target,           \* opts.target is given, and names another server
  listener,         \* where run_until_signal is, with --serve
  client,           \* where the client is
  server,           \* where the session of the run is; "none" before accept
  c2s, s2c,         \* messages on the control connection
  idx,              \* the client's current plan
  req,              \* the request the server is working on
  data,             \* the server's data port: "none", "bound", "connected"
  buf,              \* chunks or datagrams on the data path
  hello,            \* the hello of a download is on its way
  fin,              \* the sender has shut the TCP data connection down
  dropped,          \* the receiver has dropped the TCP data connection
  tx, rx,           \* counted by the sender, counted by the receiver
  outcomes,         \* the client's Vec<BenchOutcome>
  served            \* history: tests the server has completed

\* What only the control messages change; the data path and its counts.
testVars == <<plans, serve, target, idx, req, outcomes, served>>
runVars  == <<testVars, listener>>
sessVars == <<runVars, c2s, s2c>>
linkVars == <<data, hello, fin, dropped>>
pathVars == <<linkVars, buf, tx, rx>>
vars == <<plans, serve, target, listener, client, server, c2s, s2c, idx, req,
          data, buf, hello, fin, dropped, tx, rx, outcomes, served>>

-----------------------------------------------------------------------------
Plan(k, bw) == [kind |-> k, bw |-> bw]

\* build_plans with the directions of one rate swapped.
BuildPlansDownFirst(mode, direction, rates) ==
  LET up   == direction \in {"up", "both"}
      down == direction \in {"down", "both"}
      tcp  == IF mode \notin {"tcp", "both"} THEN <<>>
              ELSE (IF up THEN <<Plan("tcp_up", 0)>> ELSE <<>>)
                   \o (IF down THEN <<Plan("tcp_down", 0)>> ELSE <<>>)
      pair == (IF up THEN <<"udp_up">> ELSE <<>>) \o (IF down THEN <<"udp_down">> ELSE <<>>)
      udp  == [i \in 1..(Len(rates) * Len(pair)) |->
                 Plan(pair[((i - 1) \div Len(rates)) + 1],
                      rates[((i - 1) % Len(rates)) + 1])]
  IN  IF mode = "tcp" THEN tcp ELSE tcp \o udp

\* build_plans: TCP first, upload before download, then per rate.
BuildPlans(mode, direction, rates) ==
  LET up   == direction \in {"up", "both"}
      down == direction \in {"down", "both"}
      tcp  == IF mode \notin {"tcp", "both"} THEN <<>>
              ELSE (IF up THEN <<Plan("tcp_up", 0)>> ELSE <<>>)
                   \o (IF down THEN <<Plan("tcp_down", 0)>> ELSE <<>>)
      pair == (IF up THEN <<"udp_up">> ELSE <<>>) \o (IF down THEN <<"udp_down">> ELSE <<>>)
      udp  == [i \in 1..(Len(rates) * Len(pair)) |->
                 Plan(pair[((i - 1) % Len(pair)) + 1],
                      rates[((i - 1) \div Len(pair)) + 1])]
  IN  IF mode = "tcp" THEN tcp ELSE tcp \o udp

Handshake == [type |-> "handshake"]
Request(plan) == [type |-> "request", plan |-> plan]
Close == [type |-> "request", plan |-> Plan("close", 0)]
Response == [type |-> "response", status |-> "ok"]   \* and the data port
Refusal  == [type |-> "response", status |-> "err"]
Report(n) == [type |-> "report", count |-> n]

IsTcp(k) == k \in {"tcp_up", "tcp_down"}
IsUp(k)  == k \in {"tcp_up", "udp_up"}

Current == plans[idx]

\* run_inner has returned.
Over == client \in {"done", "failed"}

\* The run's server is the one in the client's process.
InProcess == serve /\ ~target

\* The control port is open, and the run has no session there yet.
Reachable == server = "none" /\ (InProcess => listener = "listen")

\* The next message of a control queue, and its type.
Next1(q, type) == q # <<>> /\ Head(q).type = type

\* The receiver of the current test takes a chunk or datagram off the path.
Take ==
  /\ buf > 0
  /\ buf' = buf - 1
  /\ rx' = rx + 1
  /\ UNCHANGED <<client, server, sessVars, linkVars, tx>>

\* The sender of a UDP test sends a datagram.
Send ==
  /\ tx < MaxChunks
  /\ tx' = tx + 1
  /\ buf' = buf + 1
  /\ UNCHANGED <<client, server, sessVars, linkVars, rx>>

\* An error returns from run_inner, or from handle_session.
ClientFails == client' = "failed" /\ UNCHANGED <<server, sessVars, pathVars>>
ServerEnds  == server' = "ended" /\ UNCHANGED <<client, sessVars, pathVars>>

Init ==
  /\ serve \in BOOLEAN /\ target \in BOOLEAN
  /\ \E m \in Modes, d \in Directions, r \in RateLists : plans = BuildPlans(m, d, r)
  /\ client = IF serve THEN "serve" ELSE "connect"
  /\ listener = IF serve THEN "unbound" ELSE "none"
  /\ server = "none"
  /\ c2s = <<>> /\ s2c = <<>>
  /\ idx = 1
  /\ req = Plan("none", 0)
  /\ data = "none" /\ buf = 0 /\ hello = FALSE /\ fin = FALSE /\ dropped = FALSE
  /\ tx = 0 /\ rx = 0
  /\ outcomes = <<>> /\ served = <<>>

-----------------------------------------------------------------------------
\* The client: connecting, the plan loop, closing.

\* --serve: spawn_local_server waits for the server's address; the ready
\* channel is dropped unsent when the server could not bind.
ClientServes ==
  /\ client = "serve"
  /\ \/ listener \in {"listen", "closed"} /\ client' = "connect"
     \/ listener = "failed" /\ client' = "failed"
  /\ UNCHANGED <<server, sessVars, pathVars>>

\* run_inner refuses to run without a target, or with an empty plan, before it
\* connects.
ClientRefuses ==
  /\ client = "connect"
  /\ ~(serve \/ target) \/ plans = <<>>
  /\ ClientFails

\* connect_tcp and write_handshake.
ClientConnect ==
  /\ client = "connect"
  /\ serve \/ target
  /\ plans # <<>>
  /\ Reachable
  /\ c2s' = Append(c2s, Handshake)
  /\ client' = "handshake"
  /\ UNCHANGED <<server, runVars, pathVars, s2c>>

ClientConnectFails ==
  /\ "connect" \in Faults \/ ~Reachable
  /\ client = "connect"
  /\ serve \/ target
  /\ plans # <<>>
  /\ ClientFails

ClientHandshake ==
  /\ client = "handshake"
  /\ Next1(s2c, "handshake")
  /\ s2c' = Tail(s2c)
  /\ client' = "request"
  /\ UNCHANGED <<server, runVars, pathVars, c2s>>

\* Head of the plan loop: request the next test.
ClientRequest ==
  /\ client = "request"
  /\ idx <= Len(plans)
  /\ c2s' = Append(c2s, Request(Current))
  /\ client' = "response"
  /\ UNCHANGED <<server, runVars, pathVars, s2c>>

\* A client that stops one plan short.
ClientCloseEarly ==
  /\ client = "request"
  /\ idx >= Len(plans)
  /\ c2s' = Append(c2s, Close)
  /\ client' = "done"
  /\ UNCHANGED <<server, runVars, pathVars, s2c>>

\* After the last plan: KIND_CLOSE and shutdown.
ClientClose ==
  /\ client = "request"
  /\ idx > Len(plans)
  /\ c2s' = Append(c2s, Close)
  /\ client' = "done"
  /\ UNCHANGED <<server, runVars, pathVars, s2c>>

ClientResponse ==
  /\ client = "response"
  /\ Next1(s2c, "response") /\ Head(s2c).status = "ok"
  /\ s2c' = Tail(s2c)
  /\ client' = "data"
  /\ UNCHANGED <<server, runVars, pathVars, c2s>>

\* A status other than STATUS_OK ends the run.
ClientRejected ==
  /\ client = "response"
  /\ Next1(s2c, "response") /\ Head(s2c).status # "ok"
  /\ ClientFails

\* What the client's own data phase counted.
ClientCount == IF IsUp(Current.kind) THEN tx ELSE rx

Outcome(plan, mine, theirs) ==
  [plan |-> plan,
   sent     |-> IF IsUp(plan.kind) THEN mine ELSE theirs,
   received |-> IF IsUp(plan.kind) THEN theirs ELSE mine]

\* The data phase is over: read the server's report, write the client's.
ClientReport ==
  /\ client = "report"
  /\ Next1(s2c, "report")
  /\ s2c' = Tail(s2c)
  /\ c2s' = Append(c2s, Report(ClientCount))
  /\ outcomes' = Append(outcomes, Outcome(Current, ClientCount, Head(s2c).count))
  /\ idx' = idx + 1
  /\ client' = "request"
  /\ UNCHANGED <<server, pathVars, plans, serve, target, listener, req, served>>

\* A client that keeps waiting when the control connection has ended.
ClientEofIgnored ==
  /\ client \in {"handshake", "response", "report"}
  /\ server = "ended"
  /\ UNCHANGED vars

\* A read on the control connection meets end of file or a reset: the error
\* ends the run and drops what it holds.
ClientEof ==
  /\ client \in {"handshake", "response", "report"}
  /\ server = "ended"
  /\ ClientFails

\* The write of a request fails, the close request included.
ClientWriteFails ==
  /\ client = "request"
  /\ server = "ended"
  /\ ClientFails

\* The process of an in-process server ends with its client's.
ClientAbort ==
  /\ "abort" \in Faults
  /\ ~Over
  /\ client' = "failed"
  /\ listener' = IF serve THEN "closed" ELSE listener
  /\ server' = IF InProcess THEN "ended" ELSE server
  /\ UNCHANGED <<testVars, c2s, s2c, pathVars>>

-----------------------------------------------------------------------------
\* The client's data phases.

\* connect_tcp to the data port: it completes in the listener's backlog.
ClientTcpConnect ==
  /\ client = "data"
  /\ IsTcp(Current.kind)
  /\ data = "bound"
  /\ server # "ended"
  /\ data' = "connected"
  /\ client' = IF IsUp(Current.kind) THEN "up_top" ELSE "down"
  /\ UNCHANGED <<server, sessVars, buf, hello, fin, dropped, tx, rx>>

\* open_udp and the hello; the hello of an upload is its first datagram.
ClientUdpHello ==
  /\ client = "data"
  /\ ~IsTcp(Current.kind)
  /\ IF IsUp(Current.kind)
     THEN client' = "udp_up" /\ tx' = 1 /\ buf' = buf + 1 /\ UNCHANGED hello
     ELSE client' = "udp_down" /\ hello' = TRUE /\ UNCHANGED <<tx, buf>>
  /\ UNCHANGED <<server, sessVars, data, fin, dropped, rx>>

\* The server is gone: the data port refuses, or the read is reset.
ClientDataFails ==
  /\ client \in {"data", "down"}
  /\ server = "ended"
  /\ ClientFails

\* connect_tcp, open_udp, the hello's send, or a read returns an error.
ClientDataBreaks ==
  /\ "data" \in Faults
  /\ client \in {"data", "down"}
  /\ ClientFails

\* Upload: while now < deadline, write; the deadline is only looked at here.
ClientUpTop ==
  /\ client = "up_top"
  /\ \/ tx < MaxChunks /\ client' = "up_write" /\ UNCHANGED fin
     \/ client' = "report" /\ fin' = TRUE
  /\ UNCHANGED <<server, sessVars, data, buf, hello, dropped, tx, rx>>

\* stream.write: waits for room on the path.
ClientUpWrite ==
  /\ client = "up_write"
  /\ buf < BufCap
  /\ buf' = buf + 1
  /\ tx' = tx + 1
  /\ client' = "up_top"
  /\ UNCHANGED <<server, sessVars, linkVars, rx>>

\* A failed write ends the loop like the deadline does.
EndUpload ==
  /\ client' = "report"
  /\ fin' = TRUE
  /\ UNCHANGED <<server, sessVars, data, buf, hello, dropped, tx, rx>>

ClientUpWriteFails == client = "up_write" /\ server = "ended" /\ EndUpload

ClientUpBreaks == "data" \in Faults /\ client = "up_write" /\ EndUpload

\* Download: read until end of file or deadline + grace, then drop the stream.
ClientDownRead == client = "down" /\ Take

DropDownload ==
  /\ client' = "report"
  /\ dropped' = TRUE
  /\ UNCHANGED <<server, sessVars, data, buf, hello, fin, tx, rx>>

ClientDownEof == client = "down" /\ buf = 0 /\ (fin \/ server = "ended") /\ DropDownload

ClientDownTimeout == "stall" \in Faults /\ client = "down" /\ DropDownload

ClientUdpSend == client = "udp_up" /\ Send

ClientUdpReceive == client = "udp_down" /\ Take

\* The deadline of either UDP phase; the receiver's needs no packet.
ClientUdpEnd ==
  /\ client \in {"udp_up", "udp_down"}
  /\ client' = "report"
  /\ UNCHANGED <<server, sessVars, pathVars>>

-----------------------------------------------------------------------------
\* The server: accepting the session, the request loop.

\* run_until_signal binds and sends its address.
LocalServerListens ==
  /\ listener = "unbound"
  /\ listener' = "listen"
  /\ UNCHANGED <<client, server, testVars, c2s, s2c, pathVars>>

\* The listener's task returns and its socket is gone, and with it a
\* connection of this run that was not accepted; a session it has spawned goes
\* on.
ListenerEnds(how) ==
  /\ listener' = how
  /\ server' = IF InProcess /\ server = "none" THEN "ended" ELSE server
  /\ UNCHANGED <<client, testVars, c2s, s2c, pathVars>>

LocalServerBindFails ==
  "bind" \in Faults /\ listener = "unbound" /\ ListenerEnds("failed")

LocalServerAcceptFails ==
  "accept" \in Faults /\ listener = "listen" /\ ListenerEnds("closed")

\* A listener that watches the shutdown channel only until its first accept.
LocalServerStopsUnused ==
  serve /\ Over /\ listener = "listen" /\ server = "none" /\ ListenerEnds("closed")

\* The guard is dropped with run_inner: the shutdown branch of the select, in
\* any round of the loop.  A connection that is waiting may be accepted first.
LocalServerStops ==
  serve /\ Over /\ listener = "listen" /\ ListenerEnds("closed")

\* The session is spawned, and the listener goes on.
ServerAccept ==
  /\ Reachable
  /\ c2s # <<>>
  /\ server' = "handshake"
  /\ UNCHANGED <<client, sessVars, pathVars>>

\* read_handshake, then write_handshake.
ServerHandshake ==
  /\ server = "handshake"
  /\ Next1(c2s, "handshake")
  /\ c2s' = Tail(c2s)
  /\ s2c' = Append(s2c, Handshake)
  /\ server' = "request"
  /\ UNCHANGED <<client, runVars, pathVars>>

\* KIND_CLOSE returns from handle_session.
ServerClose ==
  /\ server = "request"
  /\ c2s # <<>> /\ Head(c2s) = Close
  /\ c2s' = Tail(c2s)
  /\ server' = "ended"
  /\ UNCHANGED <<client, runVars, pathVars, s2c>>

\* The counters of the test before are kept.
ServerOpenKeepsCounts ==
  /\ server = "request"
  /\ Next1(c2s, "request") /\ Head(c2s) # Close
  /\ c2s' = Tail(c2s)
  /\ s2c' = Append(s2c, Response)
  /\ req' = Head(c2s).plan
  /\ data' = "bound"
  /\ buf' = 0 /\ hello' = FALSE /\ fin' = FALSE /\ dropped' = FALSE
  /\ server' = IF IsTcp(Head(c2s).plan.kind) THEN "accept" ELSE "await"
  /\ UNCHANGED <<client, plans, serve, target, listener, idx, tx, rx, outcomes,
                 served>>

\* The head of each run_*: a fresh data port, then the response.
ServerOpen ==
  /\ server = "request"
  /\ Next1(c2s, "request") /\ Head(c2s) # Close
  /\ c2s' = Tail(c2s)
  /\ s2c' = Append(s2c, Response)
  /\ req' = Head(c2s).plan
  /\ data' = "bound"
  /\ buf' = 0 /\ hello' = FALSE /\ fin' = FALSE /\ dropped' = FALSE
  /\ tx' = 0 /\ rx' = 0
  /\ server' = IF IsTcp(Head(c2s).plan.kind) THEN "accept" ELSE "await"
  /\ UNCHANGED <<client, plans, serve, target, listener, idx, outcomes, served>>

\* No response is written when the port cannot be opened.
ServerBindFails ==
  /\ "bind" \in Faults
  /\ server = "request"
  /\ Next1(c2s, "request") /\ Head(c2s) # Close
  /\ c2s' = Tail(c2s)
  /\ server' = "ended"
  /\ UNCHANGED <<client, runVars, pathVars, s2c>>

\* A kind the server does not know: STATUS_ERR, and the session is over.
ServerRefuses ==
  /\ "refuse" \in Faults
  /\ server = "request"
  /\ Next1(c2s, "request") /\ Head(c2s) # Close
  /\ c2s' = Tail(c2s)
  /\ s2c' = Append(s2c, Refusal)
  /\ server' = "ended"
  /\ UNCHANGED <<client, runVars, pathVars>>

\* What the server's data phase counted.
ServerCount == IF IsUp(req.kind) THEN rx ELSE tx

\* A session that does not wait for the client's report.
ServerReportForgetful ==
  /\ server = "report"
  /\ s2c' = Append(s2c, Report(ServerCount))
  /\ server' = "request"
  /\ UNCHANGED <<client, runVars, pathVars, c2s>>

\* The tail of each run_*: write the report, then read the client's.
ServerReport ==
  /\ server = "report"
  /\ s2c' = Append(s2c, Report(ServerCount))
  /\ server' = "client_report"
  /\ UNCHANGED <<client, runVars, pathVars, c2s>>

\* Returning drops the data connection or socket.
ServerTestDone ==
  /\ server = "client_report"
  /\ Next1(c2s, "report")
  /\ c2s' = Tail(c2s)
  /\ served' = Append(served,
                 Outcome(req, Head(c2s).count, ServerCount))
  /\ data' = "none"
  /\ server' = "request"
  /\ UNCHANGED <<client, plans, serve, target, listener, s2c, idx, req, buf,
                 hello, fin, dropped, tx, rx, outcomes>>

\* A session that survives the end of its control connection.
ServerEofIgnored ==
  /\ Over
  /\ server \in {"handshake", "request", "client_report"} /\ c2s = <<>>
  /\ UNCHANGED vars

\* A control read meets end of file, or a control read or write is reset.
ServerEof ==
  /\ Over
  /\ \/ server \in {"handshake", "request", "client_report"} /\ c2s = <<>>
     \/ client = "failed" /\ server \in {"handshake", "request", "report"}
  /\ ServerEnds

ServerCrash ==
  /\ "crash" \in Faults
  /\ target
  /\ server # "ended"
  /\ ServerEnds

-----------------------------------------------------------------------------
\* The server's data phases.

\* accept_one has no deadline, and neither has the first recv_from.
ServerAcceptData ==
  /\ server = "accept"
  /\ data = "connected"
  /\ server' = IF IsUp(req.kind) THEN "up" ELSE "down_top"
  /\ UNCHANGED <<client, sessVars, pathVars>>

ServerUpRead == server = "up" /\ Take

\* The end of a receive or send loop; the data connection stays open.
ServerPhaseEnds ==
  /\ server' = "report"
  /\ UNCHANGED <<client, sessVars, pathVars>>

ServerUpEof == server = "up" /\ buf = 0 /\ (fin \/ client = "failed") /\ ServerPhaseEnds

\* deadline + grace passes with the path still full or silent.
ServerUpTimeout == "stall" \in Faults /\ server = "up" /\ ServerPhaseEnds

\* Only a read error of the server ends its session: writes break the loop.
ServerReadBreaks ==
  /\ "data" \in Faults
  /\ server \in {"up", "await", "udp_up"}
  /\ ServerEnds

\* Download: while now < deadline, write.
ServerDownTop ==
  /\ server = "down_top"
  /\ \/ tx < MaxChunks /\ server' = "down_write" /\ UNCHANGED fin
     \/ server' = "report" /\ fin' = TRUE
  /\ UNCHANGED <<client, sessVars, data, buf, hello, dropped, tx, rx>>

ServerDownWrite ==
  /\ server = "down_write"
  /\ buf < BufCap
  /\ buf' = buf + 1
  /\ tx' = tx + 1
  /\ server' = "down_top"
  /\ UNCHANGED <<client, sessVars, linkVars, rx>>

EndDownload ==
  /\ server' = "report"
  /\ fin' = TRUE
  /\ UNCHANGED <<client, sessVars, data, buf, hello, dropped, tx, rx>>

\* The client has dropped the stream, or is gone.
ServerDownWriteFails ==
  server = "down_write" /\ (dropped \/ client = "failed") /\ EndDownload

ServerDownBreaks == "data" \in Faults /\ server = "down_write" /\ EndDownload

\* The first datagram: packet 0 or a later one of an upload, the hello of a
\* download.
ServerUdpFirst ==
  /\ server = "await"
  /\ IF IsUp(req.kind)
     THEN /\ buf > 0
          /\ buf' = buf - 1
          /\ rx' = rx + 1
          /\ server' = "udp_up"
          /\ UNCHANGED hello
     ELSE /\ hello
          /\ hello' = FALSE
          /\ server' = "udp_down"
          /\ UNCHANGED <<buf, rx>>
  /\ UNCHANGED <<client, sessVars, data, fin, dropped, tx>>

ServerUdpReceive == server = "udp_up" /\ Take

ServerUdpSend == server = "udp_down" /\ Send

ServerUdpEnd == server \in {"udp_up", "udp_down"} /\ ServerPhaseEnds

\* The network loses a datagram, the hello of a download included.
Lose ==
  /\ "loss" \in Faults
  /\ \/ ~IsTcp(req.kind) /\ buf > 0 /\ buf' = buf - 1 /\ UNCHANGED hello
     \/ hello /\ hello' = FALSE /\ UNCHANGED buf
  /\ UNCHANGED <<client, server, sessVars, data, fin, dropped, tx, rx>>

-----------------------------------------------------------------------------
ClientStep ==
  \/ ClientServes \/ ClientRefuses \/ ClientConnect \/ ClientConnectFails \/ ClientHandshake
  \/ ClientRequest \/ ClientClose \/ ClientResponse \/ ClientRejected \/ ClientReport \/ ClientEof
  \/ ClientWriteFails
  \/ ClientTcpConnect \/ ClientUdpHello \/ ClientDataFails
  \/ ClientUpTop \/ ClientUpWrite \/ ClientUpWriteFails
  \/ ClientDownRead \/ ClientDownEof \/ ClientDownTimeout
  \/ ClientUdpSend \/ ClientUdpReceive \/ ClientUdpEnd

ListenerStep == LocalServerListens \/ LocalServerStops \/ ServerAccept

ServerStep ==
  \/ ServerHandshake \/ ServerClose \/ ServerOpen \/ ServerReport
  \/ ServerTestDone \/ ServerEof
  \/ ServerAcceptData \/ ServerUpRead \/ ServerUpEof \/ ServerUpTimeout
  \/ ServerDownTop \/ ServerDownWrite \/ ServerDownWriteFails
  \/ ServerUdpFirst \/ ServerUdpReceive \/ ServerUdpSend \/ ServerUdpEnd

\* Steps of the environment: none of them ever has to happen.
Fault ==
  \/ ClientAbort \/ ClientDataBreaks \/ ClientUpBreaks
  \/ LocalServerBindFails \/ LocalServerAcceptFails
  \/ ServerBindFails \/ ServerRefuses \/ ServerCrash \/ ServerReadBreaks \/ ServerDownBreaks
  \/ Lose

Finished ==
  /\ Over
  /\ server = "ended" \/ (~InProcess /\ server = "none")
  /\ listener \in {"none", "closed", "failed"}
  /\ UNCHANGED vars

Next == ClientStep \/ ListenerStep \/ ServerStep \/ Fault \/ Finished

Spec == Init /\ [][Next]_vars

\* The client, the listener and the session are tasks the runtime polls as
\* long as they can move.
FairSpec ==
  Spec /\ WF_vars(ClientStep) /\ WF_vars(ListenerStep) /\ WF_vars(ServerStep)

-----------------------------------------------------------------------------
Kinds == {"tcp_up", "tcp_down", "udp_up", "udp_down"}
Outcomes == [plan : [kind : Kinds, bw : Nat], sent : 0..MaxChunks, received : 0..MaxChunks]

\* Every variable has its type; no count passes what one test can send, and
\* the TCP path never holds more than its capacity.
TypeOK ==
  /\ plans \in Seq([kind : Kinds, bw : Nat])
  /\ serve \in BOOLEAN /\ target \in BOOLEAN
  /\ listener \in {"none", "unbound", "listen", "closed", "failed"}
  /\ client \in {"serve", "connect", "handshake", "request", "response", "data", "up_top",
                "up_write", "down", "udp_up", "udp_down", "report", "done", "failed"}
  /\ server \in {"none", "handshake", "request", "accept", "await", "up", "down_top",
                "down_write", "udp_up", "udp_down", "report", "client_report", "ended"}
  /\ idx \in 1..(Len(plans) + 1)
  /\ req \in [kind : Kinds \cup {"none"}, bw : Nat]
  /\ data \in {"none", "bound", "connected"}
  /\ buf \in 0..(IF IsTcp(req.kind) THEN BufCap ELSE MaxChunks)
  /\ {hello, fin, dropped} \subseteq BOOLEAN
  /\ tx \in 0..MaxChunks
  /\ rx \in 0..MaxChunks
  /\ outcomes \in Seq(Outcomes)
  /\ served \in Seq(Outcomes)

\* The order USAGE.md gives for a run: TCP before UDP, and where both
\* directions are tested each upload directly followed by the download of the
\* same protocol and rate.
PlansInDocumentedOrder ==
  /\ \A i, j \in DOMAIN plans :
       IsTcp(plans[j].kind) /\ ~IsTcp(plans[i].kind) => j < i
  /\ (\E i, j \in DOMAIN plans : IsUp(plans[i].kind) /\ ~IsUp(plans[j].kind)) =>
       \A i \in DOMAIN plans :
         IF i % 2 = 1 THEN IsUp(plans[i].kind) /\ i < Len(plans)
         ELSE /\ ~IsUp(plans[i].kind)
              /\ plans[i].bw = plans[i - 1].bw
              /\ IsTcp(plans[i].kind) <=> IsTcp(plans[i - 1].kind)

\* The control connection carries no lengths or tags that would let a reader
\* resynchronise: whenever an end reads, the next message is of the type that
\* read expects, whatever the data path and the faults did.
FramingInSync ==
  /\ client \in {"handshake", "response", "report"} /\ s2c # <<>> =>
       Head(s2c).type = client
  /\ server \in {"handshake", "request"} /\ c2s # <<>> => Head(c2s).type = server
  /\ server = "client_report" /\ c2s # <<>> => Head(c2s).type = "report"

\* The run is what BenchRun promises: tests measured in the planned order,
\* both ends holding the same figures, success only after every test.
Run == INSTANCE BenchRun WITH
         Counts <- 0..MaxChunks,
         result <- IF client = "done" THEN "ok"
                   ELSE IF client = "failed" THEN "failed" ELSE "running"

ImplementsBenchRun == Run!Spec

\* "-D, --duration: per-test duration": every test, and so the run, comes to
\* an end.
RunEnds == <>Over

\* A run that succeeded leaves no session task behind on the server.
SessionEnds == client = "done" ~> server = "ended"

\* The in-process listener of --serve does not outlive the run, whether it has
\* accepted a session, still runs one, or was never connected to.
LocalServerEnds == serve /\ Over ~> listener \in {"closed", "failed"}

\* After faults the only session that outlives its client is one that still
\* waits, without a deadline, for the data connection or the first datagram.
SessionEndsOrAwaits == Over ~> server \in {"none", "ended", "accept", "await"}

=============================================================================
