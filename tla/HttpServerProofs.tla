-------------------------- MODULE HttpServerProofs --------------------------
(***************************************************************************)
(* HttpServer for every set of connections and every length of the body.   *)
(***************************************************************************)
EXTENDS HttpServer, TLAPS

\* The records a connection ranges over.
ConnType ==
  [kind : {"none", "http1", "https1", "http2", "http3"},
   cli : {"idle", "waiting", "success", "failed"},
   srv : {"none", "accepted", "serving", "writing", "closing", "done", "killed"},
   task : {"none", "spawned", "responded", "sent", "done"},
   way : Nat, buf : Nat, out : 0..Whole, net : Nat, rcv : Nat,
   fin : BOOLEAN, rst : BOOLEAN, cut : BOOLEAN]

\* No part is made up on the way, and without a cut none is lost.
PartsConserved(x) ==
  /\ x.net + x.rcv <= x.out
  /\ ~x.cut => x.net + x.rcv = x.out

\* The stream's end is sent behind the last part only.
EndIsLast(x) ==
  /\ x.fin => x.out = Whole
  /\ x.task = "spawned" => x.out = 0
  /\ x.task = "responded" => x.out = 2
  /\ x.task = "sent" => x.out = Whole

\* A connection is served by its own task or by its request's, by its kind,
\* and not before it is there.
OneWriter(x) ==
  /\ x.srv \in {"writing", "closing"} => IsHttp1(x.kind)
  /\ x.task # "none" => ~IsHttp1(x.kind)
  /\ x.srv = "none" => x.task = "none" /\ x.out = 0
  /\ x.task = "none" /\ ~IsHttp1(x.kind) => x.out = 0
  /\ x.cli = "idle" => x.srv = "none"

WholeOrCut(x) ==
  x.cli = "success" => x.rcv = Whole \/ (IsHttp1(x.kind) /\ x.cut)

ConnOK(x) ==
  /\ x \in ConnType
  /\ PartsConserved(x)
  /\ EndIsLast(x)
  /\ OneWriter(x)
  /\ WholeOrCut(x)

\* run_server joins a listener only once it has ended, and a connection is
\* taken down only by the end of the process.
JoinedEnded == \A k \in 1..3 : k < joining => listener[Order[k]] = "ended"
KilledLast == \A c \in Conns : conn[c].srv = "killed" => joining = 4

ListenerType == listener \in [Listeners -> {"starting", "listening", "ended"}]

Inv ==
  /\ ListenerType
  /\ joining \in 1..4
  /\ conn \in [Conns -> ConnType]
  /\ \A c \in Conns : ConnOK(conn[c])
  /\ JoinedEnded
  /\ KilledLast

-----------------------------------------------------------------------------
\* Order names every listener.
LEMMA OrderCovers ==
  /\ \A k \in 1..3 : Order[k] \in Listeners
  /\ \A l \in Listeners : \E k \in 1..3 : Order[k] = l
<1>1. Order[1] = "http1" /\ Order[2] = "tls" /\ Order[3] = "http3"
  BY DEF Order
<1>2. 1..3 = {1, 2, 3}
  OBVIOUS
<1> QED
  BY <1>1, <1>2 DEF Listeners

\* The invariant holds of a server that has just been started.
LEMMA InitInv == Init => Inv
<1> SUFFICES ASSUME Init PROVE Inv
  OBVIOUS
<1>1. ListenerType /\ joining \in 1..4 /\ JoinedEnded
  BY DEF Init, ListenerType, JoinedEnded
<1>2. Whole \in Nat
  BY ServerAssumption DEF Whole
<1>3. ConnOK(NewConn)
  BY <1>2 DEF ConnOK, NewConn, ConnType, PartsConserved, EndIsLast, OneWriter, WholeOrCut
<1>4. conn \in [Conns -> ConnType] /\ \A c \in Conns : ConnOK(conn[c])
  BY <1>3 DEF Init, ConnOK
<1>5. KilledLast
  BY DEF Init, KilledLast, NewConn
<1> QED
  BY <1>1, <1>4, <1>5 DEF Inv

\* A step of one connection keeps the invariant when it keeps that of the
\* connection's record and does not kill it.
LEMMA SetInv ==
  ASSUME Inv, NEW c \in Conns, NEW r, ConnOK(r), r.srv # "killed" \/ r.srv = conn[c].srv,
         Set(c, r)
  PROVE  Inv'
<1>1. listener' = listener /\ joining' = joining /\ conn' = [conn EXCEPT ![c] = r]
  BY DEF Set
<1>2. conn' \in [Conns -> ConnType]
  BY <1>1 DEF Inv, ConnOK
<1>3. \A d \in Conns : conn'[d] = IF d = c THEN r ELSE conn[d]
  BY <1>1 DEF Inv
<1>4. \A d \in Conns : ConnOK(conn'[d])
  BY <1>3 DEF Inv
<1>5. KilledLast'
  BY <1>1, <1>3 DEF Inv, KilledLast
<1> QED
  BY <1>1, <1>2, <1>4, <1>5 DEF Inv, ListenerType, JoinedEnded

\* What the invariant says of one connection, unfolded.
LEMMA ConnFacts ==
  ASSUME Inv, NEW c \in Conns
  PROVE  /\ conn[c] \in ConnType /\ PartsConserved(conn[c]) /\ EndIsLast(conn[c])
         /\ OneWriter(conn[c]) /\ WholeOrCut(conn[c])
         /\ Whole \in Nat /\ BodyLen \in Nat /\ Whole = 2 + BodyLen
BY ServerAssumption DEF Inv, ConnOK, Whole

-----------------------------------------------------------------------------
\* A connection keeps its type when the counts of its parts keep theirs.
LEMMA PartsUpdate ==
  ASSUME NEW x \in ConnType
  PROVE  /\ \A o \in 0..Whole, n \in Nat : [x EXCEPT !.out = o, !.net = n] \in ConnType
         /\ \A n \in Nat, k \in Nat : [x EXCEPT !.net = n, !.rcv = k] \in ConnType
         /\ \A n \in Nat : [x EXCEPT !.cut = TRUE, !.net = n] \in ConnType
         /\ \A o \in 0..Whole, n \in Nat, t \in {"responded", "sent", "done"} :
              [x EXCEPT !.task = t, !.out = o, !.net = n] \in ConnType
         /\ \A o \in 0..Whole, n \in Nat, t \in {"responded", "sent", "done"}, f \in BOOLEAN :
              [x EXCEPT !.task = t, !.out = o, !.net = n, !.fin = f] \in ConnType
<1>1. \A o \in 0..Whole, n \in Nat : [x EXCEPT !.out = o, !.net = n] \in ConnType
  BY DEF ConnType
<1>2. \A n \in Nat, k \in Nat : [x EXCEPT !.net = n, !.rcv = k] \in ConnType
  BY DEF ConnType
<1>3. \A n \in Nat : [x EXCEPT !.cut = TRUE, !.net = n] \in ConnType
  BY DEF ConnType
<1>4. ASSUME NEW o \in 0..Whole, NEW n \in Nat, NEW t \in {"responded", "sent", "done"}
      PROVE  [x EXCEPT !.task = t, !.out = o, !.net = n] \in ConnType
  BY DEF ConnType
<1>5. ASSUME NEW o \in 0..Whole, NEW n \in Nat, NEW t \in {"responded", "sent", "done"},
             NEW f \in BOOLEAN
      PROVE  [x EXCEPT !.task = t, !.out = o, !.net = n, !.fin = f] \in ConnType
  BY DEF ConnType
<1> QED
  BY <1>1, <1>2, <1>3, <1>4, <1>5

\* One lemma per action of a connection: its new record keeps ConnOK.
\* The probe connects or is refused.
LEMMA ConnectInv ==
  ASSUME Inv, NEW c \in Conns, NEW kind \in Kinds, Connect(c, kind)
  PROVE  Inv'
<1> DEFINE x == conn[c]
<1>1. /\ x \in ConnType /\ PartsConserved(x) /\ EndIsLast(x) /\ OneWriter(x)
      /\ WholeOrCut(x) /\ Whole \in Nat /\ BodyLen \in Nat /\ Whole = 2 + BodyLen
  BY ConnFacts
<1>2. /\ kind \in {"none", "http1", "https1", "http2", "http3"}
      /\ x.cli = "idle" /\ x.srv = "none" /\ x.task = "none" /\ x.out = 0
  BY <1>1, ServerAssumption DEF Connect, OneWriter
<1>3. PICK n \in {1, 2} :
        \/ Set(c, [x EXCEPT !.kind = kind, !.cli = "waiting",
                            !.way = IF kind = "http1" THEN n ELSE 1])
        \/ Set(c, [x EXCEPT !.kind = kind, !.cli = "failed"])
  BY DEF Connect
<1> DEFINE w == IF kind = "http1" THEN n ELSE 1
           a == [x EXCEPT !.kind = kind, !.cli = "waiting", !.way = w]
           b == [x EXCEPT !.kind = kind, !.cli = "failed"]
<1> HIDE DEF x
<1>4. w \in Nat
  OBVIOUS
<1> HIDE DEF w
<1>5. ConnOK(a) /\ a.srv # "killed"
  <2>1. a \in ConnType
    BY <1>1, <1>2, <1>4 DEF ConnType
  <2> QED
    BY <1>1, <1>2, <2>1 DEF ConnOK, ConnType, PartsConserved, EndIsLast, OneWriter, WholeOrCut
<1>6. ConnOK(b) /\ b.srv # "killed"
  <2>1. b \in ConnType
    BY <1>1, <1>2 DEF ConnType
  <2> QED
    BY <1>1, <1>2, <2>1 DEF ConnOK, ConnType, PartsConserved, EndIsLast, OneWriter, WholeOrCut
<1> QED
  BY <1>3, <1>5, <1>6, SetInv DEF x, w

\* The listener's task spawns the connection's.
LEMMA AcceptInv ==
  ASSUME Inv, NEW c \in Conns, Accept(c)
  PROVE  Inv'
<1> DEFINE r == [conn[c] EXCEPT !.srv = IF conn[c].kind = "http1" THEN "serving" ELSE "accepted"]
<1>1. ConnOK(r) /\ (r.srv # "killed" \/ r.srv = conn[c].srv)
  BY ConnFacts DEF Accept, ConnOK, ConnType, PartsConserved, EndIsLast, OneWriter, WholeOrCut
<1> QED
  BY <1>1, SetInv DEF Accept

\* The handshake succeeds or ends the task.
LEMMA HandshakeInv ==
  ASSUME Inv, NEW c \in Conns, Handshake(c)
  PROVE  Inv'
<1> DEFINE a == [conn[c] EXCEPT !.srv = "serving"]
           b == [conn[c] EXCEPT !.srv = "done", !.rst = TRUE]
<1>1. ConnOK(a) /\ a.srv # "killed" /\ ConnOK(b) /\ b.srv # "killed"
  BY ConnFacts, ZenonT(60) DEF Handshake, ConnOK, ConnType, PartsConserved, EndIsLast, OneWriter, WholeOrCut
<1> QED
  BY <1>1, SetInv DEF Handshake

\* A segment of the request arrives.
LEMMA DeliverInv ==
  ASSUME Inv, NEW c \in Conns, Deliver(c)
  PROVE  Inv'
<1> DEFINE x == conn[c]
           z == x.rst \/ Gone(x.srv)
           r == [x EXCEPT !.way = @ - 1, !.buf = @ + 1, !.rst = z]
<1>1. /\ x \in ConnType /\ PartsConserved(x) /\ EndIsLast(x) /\ OneWriter(x)
      /\ WholeOrCut(x) /\ Whole \in Nat /\ BodyLen \in Nat /\ Whole = 2 + BodyLen
  BY ConnFacts
<1>2. x.way > 0 /\ Set(c, r)
  BY DEF Deliver
<1> HIDE DEF x
<1>3. x.way - 1 \in Nat /\ x.buf + 1 \in Nat /\ z \in BOOLEAN
  BY <1>1, <1>2 DEF ConnType
<1> HIDE DEF z
<1>4. r \in ConnType
  BY <1>1, <1>3 DEF ConnType
<1>5. ConnOK(r) /\ r.srv = x.srv
  BY <1>1, <1>4 DEF ConnOK, ConnType, PartsConserved, EndIsLast, OneWriter, WholeOrCut
<1> QED
  BY <1>2, <1>5, SetInv DEF x

\* One read takes what has arrived for the request.
LEMMA ServeReadInv ==
  ASSUME Inv, NEW c \in Conns, ServeRead(c)
  PROVE  Inv'
<1> DEFINE r == [conn[c] EXCEPT !.buf = 0, !.srv = "writing"]
<1>1. ConnOK(r) /\ (r.srv # "killed" \/ r.srv = conn[c].srv)
  BY ConnFacts, ZenonT(60) DEF ServeRead, ConnOK, ConnType, PartsConserved, EndIsLast, OneWriter, WholeOrCut
<1> QED
  BY <1>1, SetInv DEF ServeRead

\* A part written is on its way: the two counts grow together.
LEMMA ServeWriteInv ==
  ASSUME Inv, NEW c \in Conns, ServeWrite(c)
  PROVE  Inv'
<1> DEFINE x == conn[c]
           r == [x EXCEPT !.out = @ + 1, !.net = @ + 1]
<1>1. /\ x \in ConnType /\ PartsConserved(x) /\ EndIsLast(x) /\ OneWriter(x)
      /\ WholeOrCut(x) /\ Whole \in Nat
  BY ConnFacts
<1>2. x.srv = "writing" /\ x.out < Whole /\ ~x.cut /\ Set(c, r)
  BY DEF ServeWrite
<1> HIDE DEF x
<1>3. r \in ConnType
  <2>1. x.out + 1 \in 0..Whole /\ x.net + 1 \in Nat
    BY <1>1, <1>2 DEF ConnType
  <2> QED
    BY <1>1, <2>1, PartsUpdate
<1>4. ConnOK(r) /\ r.srv = x.srv
  BY <1>1, <1>2, <1>3 DEF ConnOK, ConnType, PartsConserved, EndIsLast, OneWriter, WholeOrCut
<1> QED
  BY <1>2, <1>4, SetInv DEF x

\* The write side is shut down behind the last part only.
LEMMA ServeCloseInv ==
  ASSUME Inv, NEW c \in Conns, ServeClose(c)
  PROVE  Inv'
<1> DEFINE x == conn[c]
           z == x.rst \/ x.buf > 0
           a == [x EXCEPT !.srv = "closing", !.fin = TRUE]
           b == [x EXCEPT !.srv = "done", !.rst = z]
<1>1. /\ x \in ConnType /\ PartsConserved(x) /\ EndIsLast(x) /\ OneWriter(x)
      /\ WholeOrCut(x) /\ Whole \in Nat /\ BodyLen \in Nat /\ Whole = 2 + BodyLen
  BY ConnFacts
<1>2. \/ x.srv = "writing" /\ x.out = Whole /\ Set(c, a)
      \/ x.srv = "closing" /\ Set(c, b)
  BY DEF ServeClose
<1> HIDE DEF x
<1>3. z \in BOOLEAN
  BY <1>1 DEF ConnType
<1> HIDE DEF z
<1>4. a \in ConnType /\ b \in ConnType
  BY <1>1, <1>3 DEF ConnType
<1>5. x.srv = "writing" /\ x.out = Whole => ConnOK(a) /\ a.srv # "killed"
  BY <1>1, <1>4 DEF ConnOK, ConnType, PartsConserved, EndIsLast, OneWriter, WholeOrCut
<1>6. x.srv = "closing" => ConnOK(b) /\ b.srv # "killed"
  BY <1>1, <1>4 DEF ConnOK, ConnType, PartsConserved, EndIsLast, OneWriter, WholeOrCut
<1> QED
  BY <1>2, <1>5, <1>6, SetInv DEF x

\* accept yields the request.
LEMMA ServeRequestInv ==
  ASSUME Inv, NEW c \in Conns, ServeRequest(c)
  PROVE  Inv'
<1> DEFINE r == [conn[c] EXCEPT !.buf = 0, !.task = "spawned"]
<1>1. ConnOK(r) /\ (r.srv # "killed" \/ r.srv = conn[c].srv)
  BY ConnFacts, ZenonT(60) DEF ServeRequest, ConnOK, ConnType, PartsConserved, EndIsLast, OneWriter, WholeOrCut
<1> QED
  BY <1>1, SetInv DEF ServeRequest

\* The request's task responds, sends the body and ends the stream, or fails.
LEMMA TaskStepInv ==
  ASSUME Inv, NEW c \in Conns, TaskStep(c)
  PROVE  Inv'
<1> DEFINE x == conn[c]
           h == x.kind = "http2"
           m == x.net + Through(c, 2)
           n == x.net + Through(c, BodyLen)
           a == [x EXCEPT !.task = "responded", !.out = 2, !.net = m]
           b == [x EXCEPT !.task = IF h THEN "done" ELSE "sent",
                          !.out = Whole, !.net = n, !.fin = h]
           d == [x EXCEPT !.task = "done", !.fin = TRUE]
           e == [x EXCEPT !.task = "done"]
<1>1. /\ x \in ConnType /\ PartsConserved(x) /\ EndIsLast(x) /\ OneWriter(x)
      /\ WholeOrCut(x) /\ Whole \in Nat /\ BodyLen \in Nat /\ Whole = 2 + BodyLen
  BY ConnFacts
<1>2. \/ x.task = "spawned" /\ x.srv = "serving" /\ Set(c, a)
      \/ x.task = "responded" /\ x.srv = "serving" /\ Set(c, b)
      \/ x.task = "sent" /\ x.srv = "serving" /\ Set(c, d)
      \/ x.srv # "killed" /\ x.task \in {"spawned", "responded", "sent"} /\ Set(c, e)
  BY DEF TaskStep
<1>3. /\ m \in Nat /\ m = x.net + (IF x.cut THEN 0 ELSE 2)
      /\ n \in Nat /\ n = x.net + (IF x.cut THEN 0 ELSE BodyLen)
  BY <1>1 DEF Through, ConnType
<1>4. h \in BOOLEAN
  OBVIOUS
<1> HIDE DEF x, m, n
<1>5. ASSUME x.task = "spawned", x.srv = "serving"
      PROVE  ConnOK(a) /\ a.srv # "killed"
  <2>1. a \in ConnType
    <3>1. 2 \in 0..Whole
      BY <1>1
    <3> QED
      BY <1>1, <1>3, <3>1, PartsUpdate
  <2> QED
    BY <1>1, <1>3, <1>5, <2>1 DEF ConnOK, ConnType, PartsConserved, EndIsLast, OneWriter, WholeOrCut
<1>6. ASSUME x.task = "responded", x.srv = "serving"
      PROVE  ConnOK(b) /\ b.srv # "killed"
  <2>1. b \in ConnType
    <3>1. Whole \in 0..Whole /\ (IF h THEN "done" ELSE "sent") \in {"responded", "sent", "done"}
      BY <1>1
    <3> QED
      BY <1>1, <1>3, <1>4, <3>1, PartsUpdate, ZenonT(60)
  <2> QED
    BY <1>1, <1>3, <1>6, <2>1 DEF ConnOK, ConnType, PartsConserved, EndIsLast, OneWriter, WholeOrCut
<1>7. ASSUME x.task = "sent", x.srv = "serving"
      PROVE  ConnOK(d) /\ d.srv # "killed"
  BY <1>1, <1>7 DEF ConnOK, ConnType, PartsConserved, EndIsLast, OneWriter, WholeOrCut
<1>8. ASSUME x.srv # "killed", x.task \in {"spawned", "responded", "sent"}
      PROVE  ConnOK(e) /\ e.srv # "killed"
  BY <1>1, <1>8 DEF ConnOK, ConnType, PartsConserved, EndIsLast, OneWriter, WholeOrCut
<1> QED
  BY <1>2, <1>5, <1>6, <1>7, <1>8, SetInv DEF x

\* The connection's task ends with its peer.
LEMMA ServeGoneInv ==
  ASSUME Inv, NEW c \in Conns, ServeGone(c)
  PROVE  Inv'
<1> DEFINE r == [conn[c] EXCEPT !.srv = "done"]
<1>1. ConnOK(r) /\ (r.srv # "killed" \/ r.srv = conn[c].srv)
  BY ConnFacts DEF ServeGone, ConnOK, ConnType, PartsConserved, EndIsLast, OneWriter, WholeOrCut
<1> QED
  BY <1>1, SetInv DEF ServeGone

\* A cut loses parts on their way and makes none.
LEMMA CutInv ==
  ASSUME Inv, NEW c \in Conns, Cut(c)
  PROVE  Inv'
<1> DEFINE x == conn[c]
<1>1. /\ x \in ConnType /\ PartsConserved(x) /\ EndIsLast(x) /\ OneWriter(x)
      /\ WholeOrCut(x) /\ Whole \in Nat /\ BodyLen \in Nat /\ Whole = 2 + BodyLen
  BY ConnFacts
<1>2. PICK n \in 0..x.net : Set(c, [x EXCEPT !.cut = TRUE, !.net = n])
  BY DEF Cut
<1>3. x.cli = "waiting"
  BY DEF Cut
<1> DEFINE r == [x EXCEPT !.cut = TRUE, !.net = n]
<1> HIDE DEF x
<1>4. n \in Nat /\ n <= x.net
  BY <1>1 DEF ConnType
<1>5. r \in ConnType
  BY <1>1, <1>4, PartsUpdate
<1>6. ConnOK(r) /\ r.srv = x.srv
  BY <1>1, <1>3, <1>4, <1>5 DEF ConnOK, ConnType, PartsConserved, EndIsLast, OneWriter, WholeOrCut
<1> QED
  BY <1>2, <1>6, SetInv DEF x

\* The probe reads a part.
LEMMA ProbeReadInv ==
  ASSUME Inv, NEW c \in Conns, ProbeRead(c)
  PROVE  Inv'
<1> DEFINE x == conn[c]
           r == [x EXCEPT !.net = @ - 1, !.rcv = @ + 1]
<1>1. /\ x \in ConnType /\ PartsConserved(x) /\ EndIsLast(x) /\ OneWriter(x)
      /\ WholeOrCut(x) /\ Whole \in Nat /\ BodyLen \in Nat /\ Whole = 2 + BodyLen
  BY ConnFacts
<1>2. x.cli = "waiting" /\ x.net > 0 /\ Set(c, r)
  BY DEF ProbeRead
<1> HIDE DEF x
<1>3. x.net - 1 \in Nat /\ x.rcv + 1 \in Nat
  BY <1>1, <1>2 DEF ConnType
<1>4. r \in ConnType
  BY <1>1, <1>3, PartsUpdate
<1>5. ConnOK(r) /\ r.srv = x.srv
  BY <1>1, <1>2, <1>4 DEF ConnOK, ConnType, PartsConserved, EndIsLast, OneWriter, WholeOrCut
<1> QED
  BY <1>2, <1>5, SetInv DEF x

\* The end of the stream, of an HTTP/1.1 response: without a cut everything
\* written has been read, and that was all of it.
LEMMA ProbeEofInv ==
  ASSUME Inv, NEW c \in Conns, ProbeEof(c)
  PROVE  Inv'
<1> DEFINE r == [conn[c] EXCEPT !.cli = IF StatusLine(conn[c].rcv) = "error"
                                   THEN "failed" ELSE "success"]
<1>1. ConnOK(r) /\ (r.srv # "killed" \/ r.srv = conn[c].srv)
  BY ConnFacts DEF ProbeEof, ConnOK, ConnType, PartsConserved, EndIsLast, OneWriter, WholeOrCut
<1> QED
  BY <1>1, SetInv DEF ProbeEof

\* A reset fails the probe.
LEMMA ProbeResetInv ==
  ASSUME Inv, NEW c \in Conns, ProbeReset(c)
  PROVE  Inv'
<1> DEFINE r == [conn[c] EXCEPT !.cli = "failed"]
<1>1. ConnOK(r) /\ (r.srv # "killed" \/ r.srv = conn[c].srv)
  BY ConnFacts DEF ProbeReset, ConnOK, ConnType, PartsConserved, EndIsLast, OneWriter, WholeOrCut
<1> QED
  BY <1>1, SetInv DEF ProbeReset

\* The end of an HTTP/2 or HTTP/3 stream.
LEMMA ProbeStreamEndsInv ==
  ASSUME Inv, NEW c \in Conns, ProbeStreamEnds(c)
  PROVE  Inv'
<1> DEFINE a == [conn[c] EXCEPT !.cli = "success"]
           b == [conn[c] EXCEPT !.cli = "failed"]
<1>1. ASSUME conn[c].fin, ~conn[c].cut
      PROVE  ConnOK(a) /\ a.srv = conn[c].srv
  BY <1>1, ConnFacts DEF ProbeStreamEnds, ConnOK, ConnType, PartsConserved, EndIsLast, OneWriter, WholeOrCut
<1>2. ConnOK(b) /\ b.srv = conn[c].srv
  BY ConnFacts DEF ProbeStreamEnds, ConnOK, ConnType, PartsConserved, EndIsLast, OneWriter, WholeOrCut
<1> QED
  BY <1>1, <1>2, SetInv DEF ProbeStreamEnds

\* The timeout fails the probe.
LEMMA ProbeTimeoutInv ==
  ASSUME Inv, NEW c \in Conns, ProbeTimeout(c)
  PROVE  Inv'
<1> DEFINE r == [conn[c] EXCEPT !.cli = "failed"]
<1>1. ConnOK(r) /\ (r.srv # "killed" \/ r.srv = conn[c].srv)
  BY ConnFacts DEF ProbeTimeout, ConnOK, ConnType, PartsConserved, EndIsLast, OneWriter, WholeOrCut
<1> QED
  BY <1>1, SetInv DEF ProbeTimeout

-----------------------------------------------------------------------------
\* A listener that binds or does not.
LEMMA BindInv ==
  ASSUME Inv, NEW l \in Listeners, Bind(l)
  PROVE  Inv'
<1>1. PICK s \in {"listening", "ended"} : listener' = [listener EXCEPT ![l] = s]
  BY DEF Bind
<1>2. listener[l] = "starting" /\ joining' = joining /\ conn' = conn
  BY DEF Bind
<1>3. ListenerType'
  BY <1>1 DEF Inv, ListenerType
<1>4. JoinedEnded'
  BY <1>1, <1>2, OrderCovers DEF Inv, ListenerType, JoinedEnded
<1> QED
  BY <1>2, <1>3, <1>4 DEF Inv, KilledLast

\* The end of a listener resets what it has not accepted, ends the connections
\* of a QUIC endpoint and kills none.
LEMMA AcceptFailsInv ==
  ASSUME Inv, NEW l \in Listeners, AcceptFails(l)
  PROVE  Inv'
<1>1. listener' = [listener EXCEPT ![l] = "ended"] /\ joining' = joining
  BY DEF AcceptFails
<1>2. ListenerType' /\ JoinedEnded'
  BY <1>1, OrderCovers DEF Inv, ListenerType, JoinedEnded
<1>3. ASSUME NEW c \in Conns
      PROVE  ConnOK(conn'[c]) /\ (conn'[c].srv = "killed" => conn[c].srv = "killed")
  <2> DEFINE r == [conn[c] EXCEPT !.rst = TRUE]
             e == [conn[c] EXCEPT !.srv = "done", !.rst = TRUE]
  <2>1. ConnOK(r) /\ r.srv = conn[c].srv
    BY ConnFacts, ZenonT(60) DEF ConnOK, ConnType, PartsConserved, EndIsLast, OneWriter, WholeOrCut
  <2>2. ConnOK(conn[c])
    BY DEF Inv
  <2>3. e.srv = "done" /\ (conn[c].srv # "none" => ConnOK(e))
    BY ConnFacts, ZenonT(60) DEF ConnOK, ConnType, PartsConserved, EndIsLast, OneWriter, WholeOrCut
  <2>4. conn'[c] = r \/ conn'[c] = conn[c] \/ (conn[c].srv # "none" /\ conn'[c] = e)
    BY DEF AcceptFails
  <2> QED
    BY <2>1, <2>2, <2>3, <2>4
<1>4. conn' = [c \in Conns |-> conn'[c]]
  BY DEF AcceptFails
<1>5. conn' \in [Conns -> ConnType]
  BY <1>3, <1>4 DEF ConnOK
<1>6. KilledLast'
  BY <1>1, <1>3 DEF Inv, KilledLast
<1> QED
  BY <1>1, <1>2, <1>3, <1>5, <1>6 DEF Inv

\* The process ends with the third listener joined, and only then kills.
LEMMA JoinInv ==
  ASSUME Inv, Join
  PROVE  Inv'
<1>1. /\ joining \in 1..3 /\ joining' = joining + 1 /\ listener' = listener
      /\ listener[Order[joining]] = "ended"
  <2>1. joining < 4 /\ joining \in 1..4
    BY DEF Join, Inv
  <2>2. joining \in 1..3
    BY <2>1
  <2> QED
    BY <2>2 DEF Join
<1>2. ListenerType' /\ JoinedEnded' /\ joining' \in 1..4
  BY <1>1 DEF Inv, ListenerType, JoinedEnded
<1>3. ASSUME NEW c \in Conns
      PROVE  ConnOK(conn'[c]) /\ (conn'[c].srv = "killed" => joining' = 4)
  <2> DEFINE r == [conn[c] EXCEPT !.srv = "killed", !.rst = TRUE]
  <2>1. ConnOK(r)  \/ conn[c].srv = "none"
    BY ConnFacts, ZenonT(60) DEF ConnOK, ConnType, PartsConserved, EndIsLast, OneWriter, WholeOrCut
  <2>2. ConnOK(conn[c])
    BY DEF Inv
  <2>3. CASE joining < 3 \/ Gone(conn[c].srv) \/ conn[c].srv = "none"
    <3>1. conn'[c] = conn[c]
      BY <2>3 DEF Join
    <3>2. conn[c].srv # "killed"
      BY <1>1 DEF Inv, KilledLast
    <3> QED
      BY <3>1, <3>2, <2>2
  <2>4. CASE ~(joining < 3 \/ Gone(conn[c].srv) \/ conn[c].srv = "none")
    <3>1. conn'[c] = r
      BY <2>4 DEF Join
    <3> QED
      BY <3>1, <2>1, <2>4, <1>1
  <2> QED
    BY <2>3, <2>4
<1>4. conn' = [c \in Conns |-> conn'[c]]
  BY DEF Join
<1>5. conn' \in [Conns -> ConnType]
  BY <1>3, <1>4 DEF ConnOK
<1> QED
  BY <1>2, <1>3, <1>5 DEF Inv, KilledLast

\* Every step of the server, of a probe and of the path keeps the invariant.
LEMMA NextInv == Inv /\ [Next]_vars => Inv'
<1> SUFFICES ASSUME Inv, [Next]_vars PROVE Inv'
  OBVIOUS
<1>1. ASSUME NEW l \in Listeners, Bind(l) \/ AcceptFails(l) PROVE Inv'
  BY <1>1, BindInv, AcceptFailsInv
<1>2. CASE Join
  BY <1>2, JoinInv
<1>3. ASSUME NEW c \in Conns, NEW kind \in Kinds, Connect(c, kind) PROVE Inv'
  BY <1>3, ConnectInv
<1>4. ASSUME NEW c \in Conns, ServerStep(c) PROVE Inv'
  BY <1>4, AcceptInv, HandshakeInv, ServeReadInv, ServeWriteInv, ServeCloseInv,
     ServeRequestInv, TaskStepInv, ServeGoneInv DEF ServerStep
<1>5. ASSUME NEW c \in Conns, ProbeStep(c) PROVE Inv'
  BY <1>5, ProbeReadInv, ProbeEofInv, ProbeResetInv, ProbeStreamEndsInv,
     ProbeTimeoutInv DEF ProbeStep
<1>6. ASSUME NEW c \in Conns, Deliver(c) \/ Cut(c) PROVE Inv'
  BY <1>6, DeliverInv, CutInv
<1>7. CASE UNCHANGED vars
  BY <1>7 DEF vars, Inv, ListenerType, JoinedEnded, KilledLast
<1> QED
  BY <1>1, <1>2, <1>3, <1>4, <1>5, <1>6, <1>7 DEF Next

\* The inductive invariant: the conservation of parts, the place of the end of
\* the stream and the join order, for any number of connections.
THEOREM Invariance == Spec => []Inv
BY InitInv, NextInv, PTL DEF Spec

\* Every variable of the server and of the probes has its type, and no part
\* of a response is made up.
THEOREM TypeCorrect == Spec => []TypeOK
<1>1. Inv => TypeOK
  <2> SUFFICES ASSUME Inv PROVE TypeOK
    OBVIOUS
  <2>1. \A c \in Conns : conn[c] \in ConnType /\ PartsConserved(conn[c])
    BY ConnFacts
  <2> QED
    BY <2>1 DEF Inv, TypeOK, ListenerType, ConnType, PartsConserved
<1> QED
  BY <1>1, Invariance, PTL

\* A probe that reports a success has read the whole response, unless it is an
\* HTTP/1.1 probe on a connection the path cut: whatever the requests of any
\* number of connections do to each other's listeners.
THEOREM SuccessWhole == Spec => []SuccessIsWhole
<1>1. Inv => SuccessIsWhole
  BY DEF Inv, ConnOK, WholeOrCut, SuccessIsWhole
<1> QED
  BY <1>1, Invariance, PTL

\* The process ends, and kills what it serves, with the third listener only.
THEOREM OthersServed == Spec => []OthersKeepServing
<1>1. Inv => OthersKeepServing
  <2> SUFFICES ASSUME Inv, NEW c \in Conns, conn[c].srv = "killed", NEW l \in Listeners
               PROVE  listener[l] = "ended"
    BY DEF OthersKeepServing
  <2>1. joining = 4
    BY DEF Inv, KilledLast
  <2>2. PICK k \in 1..3 : Order[k] = l
    BY OrderCovers
  <2> QED
    BY <2>1, <2>2 DEF Inv, JoinedEnded
<1> QED
  BY <1>1, Invariance, PTL
=============================================================================
