----------------------------- MODULE ProbeProofs ----------------------------
(***************************************************************************)
(* Proofs about a command and its SOCKS5 sessions, for any hosts,          *)
(* credentials, interfaces, DNS answers and relays.                        *)
(*                                                                         *)
(* The session's invariant says what is on the connection at each point of *)
(* the client's dialogue; the command's says who was asked and which       *)
(* sockets are open at each of its own.  The last part is about bytes: what *)
(* a datagram from a relay is decoded to.                                  *)
(***************************************************************************)
EXTENDS Probe, SumsAndQueues, SequenceTheorems

-----------------------------------------------------------------------------
\* The session.  Both ends are records of their fields.
Fields ==
  /\ auth \in [user : Nat, pass : Nat]
  /\ sess = [pc |-> sess.pc, cmd |-> sess.cmd, dst |-> sess.dst, relay |-> sess.relay]
  /\ peer = [pc |-> peer.pc, cred |-> peer.cred, cmd |-> peer.cmd, dst |-> peer.dst]
  /\ sess.pc \in {"none", "method", "status", "reply", "open", "failed", "panicked"}

\* The messages of the client.
Methods == [type |-> "methods", method |-> Method]
Password == [type |-> "password", user |-> VarVec(auth.user), pass |-> VarVec(auth.pass)]
Command == [type |-> "command", cmd |-> sess.cmd, dst |-> sess.dst]
Status(ok) == [ok |-> ok]

\* The proxy granted what the client asked for, to the user it configured.
Granted == peer.cmd = sess.cmd /\ peer.dst = DstRead(sess.dst) /\ peer.cred = auth

\* The greeting is on its way, or its answer is.
AtMethod ==
  /\ peer.cred = NoAuth
  /\ \/ c2p = <<Methods>> /\ p2c = <<>> /\ peer.pc \in {"greeting", "closed"}
     \/ /\ c2p = <<>> /\ peer.pc \in {"authenticated", "closed"}
        /\ \E v, m : p2c = <<[version |-> v, method |-> m]>>

\* The credentials are on their way, or their answer is; a proxy that read
\* them by wrong lengths has read junk.
AtStatus ==
  \/ c2p = <<Password>> /\ p2c = <<>> /\ peer.pc \in {"authenticated", "closed"}
  \/ /\ c2p = <<>> /\ p2c = <<Status(TRUE)>>
     /\ peer.pc \in {"junk", "closed"} \/ (peer.pc = "authenticated" /\ peer.cred = auth)
  \/ c2p = <<>> /\ p2c = <<Status(TRUE), Status(FALSE)>> /\ peer.pc = "closed"
  \/ c2p = <<>> /\ p2c = <<Status(FALSE)>> /\ peer.pc = "closed"

\* The request is on its way, or its answer is.
AtReply ==
  /\ sess.cmd \in {"connect", "associate"}
  /\ \/ /\ c2p = <<Command>> /\ p2c = <<>>
        /\ peer.pc \in {"junk", "closed"} \/ (peer.pc = "authenticated" /\ peer.cred = auth)
     \/ p2c = <<Status(FALSE)>> /\ peer.pc = "closed"
     \/ /\ c2p = <<>> /\ Granted /\ peer.pc \in {"serving", "closed"}
        /\ \E bind \in BindAddrs : p2c = <<[ok |-> TRUE, bind |-> bind]>>

AtOpen ==
  /\ c2p = <<>> /\ Granted /\ peer.pc \in {"serving", "closed"}
  /\ sess.cmd = "associate" => sess.relay \in {"v4", "v6"}

Session ==
  /\ Fields
  /\ sess.pc \in {"method", "status"} => sess.cmd \in {"connect", "associate"}
  /\ sess.pc = "method" => AtMethod
  /\ sess.pc = "status" => AtStatus
  /\ sess.pc = "reply" => AtReply
  /\ sess.pc = "open" => AtOpen

\* A fresh connection, a failed one and a dropped one.
LEMMA OpenSession ==
  ASSUME Session, NEW cmd \in {"connect", "associate"}, NEW dst, SocksOpen(cmd, dst)
  PROVE  Session' /\ sess'.pc = "method" /\ sess'.cmd = cmd
<1>1. /\ sess' = [pc |-> "method", cmd |-> cmd, dst |-> dst, relay |-> "none"]
      /\ peer' = [pc |-> "greeting", cred |-> NoAuth, cmd |-> "none", dst |-> NoDst]
      /\ c2p' = <<Methods>> /\ p2c' = <<>> /\ auth' = auth
  BY DEF SocksOpen, NoSession, NewPeer, Methods
<1>2. Methods' = Methods
  BY <1>1 DEF Methods, Method
<1>3. AtMethod'
  BY <1>1, <1>2 DEF AtMethod
<1>4. Fields'
  BY <1>1 DEF Session, Fields
<1> QED
  BY <1>1, <1>3, <1>4 DEF Session

\* A proxy that cannot be reached leaves a failed session of the command asked.
LEMMA OpenFails ==
  ASSUME Session, NEW cmd, NEW dst, SocksOpenFails(cmd, dst)
  PROVE  Session' /\ sess'.pc = "failed" /\ sess'.cmd = cmd
<1>1. /\ sess' = [pc |-> "failed", cmd |-> cmd, dst |-> dst, relay |-> "none"]
      /\ UNCHANGED <<auth, c2p, p2c, peer>>
  BY DEF SocksOpenFails, NoSession
<1>2. Fields'
  BY <1>1 DEF Session, Fields
<1> QED
  BY <1>1, <1>2 DEF Session

\* A session that is dropped leaves none, and a proxy for the next.
LEMMA DropSession ==
  ASSUME Session, SocksDrop
  PROVE  Session' /\ sess'.pc = "none"
<1>1. /\ sess' = [pc |-> "none", cmd |-> "none", dst |-> NoDst, relay |-> "none"]
      /\ peer' = [pc |-> "greeting", cred |-> NoAuth, cmd |-> "none", dst |-> NoDst]
      /\ auth' = auth
  BY DEF SocksDrop, NoSession, NewPeer
<1>2. Fields'
  BY <1>1 DEF Session, Fields
<1> QED
  BY <1>1, <1>2 DEF Session

\* A session that nothing touches.
LEMMA SameSession ==
  ASSUME Session, UNCHANGED socksVars
  PROVE  Session'
<1>1. UNCHANGED <<auth, sess, c2p, p2c, peer>>
  BY DEF socksVars
<1>2. Fields' /\ (AtMethod <=> AtMethod') /\ (AtStatus <=> AtStatus')
  BY <1>1 DEF Session, Fields, AtMethod, AtStatus, Methods, Method, Password
<1>3. (AtReply <=> AtReply') /\ (AtOpen <=> AtOpen')
  BY <1>1 DEF AtReply, AtOpen, Command, Granted
<1> QED
  BY <1>1, <1>2, <1>3 DEF Session

\* The client moves on to the request.
LEMMA CommandSent ==
  ASSUME Session, SendCommand, c2p = <<>>, UNCHANGED <<auth, peer>>,
         sess.cmd \in {"connect", "associate"},
         \/ p2c' = <<>> /\ (peer.pc \in {"junk", "closed"} \/ (peer.pc = "authenticated" /\ peer.cred = auth))
         \/ p2c' = <<Status(FALSE)>> /\ peer.pc = "closed"
  PROVE  Session' /\ sess'.cmd = sess.cmd
<1>1. sess' = [pc |-> "reply", cmd |-> sess.cmd, dst |-> sess.dst, relay |-> sess.relay]
  BY DEF SendCommand, Session, Fields
<1>2. c2p' = <<[type |-> "command", cmd |-> sess.cmd, dst |-> sess.dst]>>
  BY DEF SendCommand
<1>3. c2p' = <<Command'>>
  BY <1>1, <1>2 DEF Command
<1>4. Fields'
  BY <1>1 DEF Session, Fields
<1>5. AtReply'
  BY <1>1, <1>3 DEF AtReply, Status
<1> QED
  BY <1>1, <1>4, <1>5 DEF Session

\* A session that fails needs no more of the connection.
LEMMA SessionFails ==
  ASSUME Session, SocksFails, UNCHANGED <<auth, peer>>
  PROVE  Session' /\ sess'.pc = "failed" /\ sess'.cmd = sess.cmd
<1>1. sess' = [pc |-> "failed", cmd |-> sess.cmd, dst |-> sess.dst, relay |-> sess.relay]
  BY DEF SocksFails, Session, Fields
<1>2. Fields'
  BY <1>1 DEF Session, Fields
<1> QED
  BY <1>1, <1>2 DEF Session

\* authenticate reads the choice of method.
LEMMA MethodStep ==
  ASSUME Session, RecvMethod
  PROVE  Session' /\ sess'.cmd = sess.cmd
<1>1. sess.pc = "method" /\ p2c # <<>> /\ p2c' = Tail(p2c) /\ UNCHANGED <<auth, peer>>
  BY DEF RecvMethod
<1>2. c2p = <<>> /\ peer.pc \in {"authenticated", "closed"} /\ peer.cred = NoAuth
        /\ \E v, m : p2c = <<[version |-> v, method |-> m]>>
  BY <1>1 DEF Session, AtMethod
<1>3. p2c' = <<>>
  BY <1>1, <1>2
<1>4. sess.cmd \in {"connect", "associate"}
  BY <1>1 DEF Session
<1>5. CASE SocksFails
  BY <1>1, <1>5, SessionFails
<1>6. CASE auth = NoAuth /\ SendCommand
  BY <1>1, <1>2, <1>3, <1>4, <1>6, CommandSent
<1>7. CASE sess' = [sess EXCEPT !.pc = "status"]
             /\ c2p' = Append(c2p, [type |-> "password", user |-> VarVec(auth.user),
                                    pass |-> VarVec(auth.pass)])
  <2>1. sess' = [pc |-> "status", cmd |-> sess.cmd, dst |-> sess.dst, relay |-> sess.relay]
    BY <1>7 DEF Session, Fields
  <2>2. c2p' = <<Password>> /\ Password' = Password
    BY <1>1, <1>2, <1>7 DEF Password
  <2>3. Fields'
    BY <1>1, <2>1 DEF Session, Fields
  <2>4. AtStatus'
    BY <1>1, <1>2, <1>3, <2>2 DEF AtStatus
  <2> QED
    BY <1>4, <2>1, <2>3, <2>4 DEF Session
<1> QED
  BY <1>5, <1>6, <1>7 DEF RecvMethod

\* authenticate reads the status of the password.
LEMMA StatusStep ==
  ASSUME Session, RecvStatus
  PROVE  Session' /\ sess'.cmd = sess.cmd
<1>1. sess.pc = "status" /\ p2c # <<>> /\ p2c' = Tail(p2c) /\ UNCHANGED <<auth, peer>>
  BY DEF RecvStatus
<1>2. AtStatus /\ sess.cmd \in {"connect", "associate"}
  BY <1>1 DEF Session
<1>3. CASE ~Head(p2c).ok /\ SocksFails
  BY <1>1, <1>3, SessionFails
<1>4. CASE Head(p2c).ok /\ SendCommand
  <2>1. CASE /\ c2p = <<>> /\ p2c = <<Status(TRUE)>>
             /\ peer.pc \in {"junk", "closed"} \/ (peer.pc = "authenticated" /\ peer.cred = auth)
    <3>1. p2c' = <<>>
      BY <1>1, <2>1
    <3> QED
      BY <1>1, <1>2, <1>4, <2>1, <3>1, CommandSent
  <2>2. CASE c2p = <<>> /\ p2c = <<Status(TRUE), Status(FALSE)>> /\ peer.pc = "closed"
    <3>1. Tail(<<Status(TRUE), Status(FALSE)>>) = <<Status(FALSE)>>
      BY TailOfPair
    <3>2. p2c' = <<Status(FALSE)>>
      BY <1>1, <2>2, <3>1
    <3> QED
      BY <1>1, <1>2, <1>4, <2>2, <3>2, CommandSent
  <2>3. CASE c2p = <<>> /\ p2c = <<Status(FALSE)>> /\ peer.pc = "closed"
    BY <1>4, <2>3 DEF Status
  <2> QED
    BY <1>1, <1>2, <2>1, <2>2, <2>3 DEF AtStatus
<1> QED
  BY <1>3, <1>4 DEF RecvStatus

\* The addresses a socket may be connected to.
LEMMA RelayFamily ==
  ASSUME NEW bind \in BindAddrs, NEW addr \in BindLookup(bind),
         NEW relay \in RelayAddr(addr) \cup {"error"}
  PROVE  relay \in {"v4", "v6", "error", "panic"}
<1>1. addr \in {"v4", "v6", "any", "error"}
  BY SocksAssumption DEF BindLookup
<1> QED
  BY <1>1 DEF RelayAddr

\* send_connect and send_udp_associate read the reply.
LEMMA ReplyStep ==
  ASSUME Session, RecvReply
  PROVE  Session' /\ sess'.cmd = sess.cmd
<1>1. sess.pc = "reply" /\ p2c # <<>> /\ p2c' = Tail(p2c) /\ UNCHANGED <<auth, c2p, peer>>
  BY DEF RecvReply
<1>2. AtReply /\ Fields
  BY <1>1 DEF Session
<1>3. CASE ~Head(p2c).ok /\ SocksFails
  BY <1>1, <1>3, SessionFails
<1>4. ASSUME Head(p2c).ok
      PROVE  /\ c2p = <<>> /\ Granted /\ peer.pc \in {"serving", "closed"}
             /\ \E bind \in BindAddrs : p2c = <<[ok |-> TRUE, bind |-> bind]>>
  <2>1. p2c # <<Status(FALSE)>>
    BY <1>4 DEF Status
  <2> QED
    BY <1>1, <1>2, <2>1 DEF AtReply
<1>5. CASE Head(p2c).ok /\ sess.cmd = "connect" /\ sess' = [sess EXCEPT !.pc = "open"]
  <2>1. sess' = [pc |-> "open", cmd |-> sess.cmd, dst |-> sess.dst, relay |-> sess.relay]
    BY <1>2, <1>5 DEF Fields
  <2>2. Fields'
    BY <1>1, <1>2, <2>1 DEF Fields
  <2>3. AtOpen'
    BY <1>1, <1>4, <1>5, <2>1 DEF AtOpen, Granted
  <2> QED
    BY <2>1, <2>2, <2>3 DEF Session
<1>6. CASE Head(p2c).ok /\ sess.cmd = "associate" /\ Associated(Head(p2c).bind)
  <2>1. PICK bind \in BindAddrs : p2c = <<[ok |-> TRUE, bind |-> bind]>>
    BY <1>4, <1>6
  <2>2. Head(p2c).bind = bind
    BY <2>1
  <2>3. PICK addr \in BindLookup(bind) : \E relay \in RelayAddr(addr) \cup {"error"} :
          sess' = [sess EXCEPT !.pc = IF relay = "error" THEN "failed"
                                      ELSE IF relay = "panic" THEN "panicked"
                                      ELSE "open",
                               !.relay = relay]
    BY <1>6, <2>2 DEF Associated
  <2>4. PICK relay \in RelayAddr(addr) \cup {"error"} :
          sess' = [sess EXCEPT !.pc = IF relay = "error" THEN "failed"
                                      ELSE IF relay = "panic" THEN "panicked"
                                      ELSE "open",
                               !.relay = relay]
    BY <2>3
  <2>5. relay \in {"v4", "v6", "error", "panic"}
    BY RelayFamily
  <2>6. PICK at : /\ sess' = [pc |-> at, cmd |-> sess.cmd, dst |-> sess.dst, relay |-> relay]
                  /\ at \in {"failed", "panicked", "open"}
                  /\ at = "open" => relay \in {"v4", "v6"}
    <3> DEFINE at == IF relay = "error" THEN "failed" ELSE IF relay = "panic" THEN "panicked" ELSE "open"
    <3>1. sess' = [sess EXCEPT !.pc = at, !.relay = relay]
      BY <2>4
    <3>2. at \in {"failed", "panicked", "open"} /\ (at = "open" => relay \in {"v4", "v6"})
      BY <2>5
    <3> HIDE DEF at
    <3>3. sess' = [pc |-> at, cmd |-> sess.cmd, dst |-> sess.dst, relay |-> relay]
      BY <1>2, <3>1 DEF Fields
    <3> QED
      BY <3>2, <3>3
  <2>7. Fields'
    BY <1>1, <1>2, <2>6 DEF Fields
  <2>8. sess'.pc = "open" => AtOpen'
    BY <1>1, <1>4, <1>6, <2>6 DEF AtOpen, Granted
  <2> QED
    BY <2>6, <2>7, <2>8 DEF Session
<1> QED
  BY <1>3, <1>5, <1>6 DEF RecvReply

\* What a step of the client makes of a session: an open session has no more.
LEMMA ClientSession ==
  ASSUME Session, ClientStep
  PROVE  Session' /\ sess'.cmd = sess.cmd /\ sess.pc \in {"method", "status", "reply"}
<1>1. CASE RecvEof
  BY <1>1, SessionFails DEF RecvEof
<1>2. CASE RecvMethod
  BY <1>2, MethodStep DEF RecvMethod
<1>3. CASE RecvStatus
  BY <1>3, StatusStep DEF RecvStatus
<1>4. CASE RecvReply
  BY <1>4, ReplyStep DEF RecvReply
<1> QED
  BY <1>1, <1>2, <1>3, <1>4 DEF ClientStep

\* The peer's record after a step that sets its state only.
LEMMA PeerFields ==
  ASSUME Session, NEW at, peer' = [peer EXCEPT !.pc = at], UNCHANGED <<auth, sess>>
  PROVE  /\ Fields' /\ peer'.pc = at /\ peer'.cred = peer.cred /\ peer'.cmd = peer.cmd
         /\ peer'.dst = peer.dst /\ (Granted <=> Granted')
         /\ Methods' = Methods /\ Password' = Password /\ Command' = Command
<1>1. peer' = [pc |-> at, cred |-> peer.cred, cmd |-> peer.cmd, dst |-> peer.dst]
  BY DEF Session, Fields
<1>2. Fields'
  BY <1>1 DEF Session, Fields
<1>3. Granted <=> Granted'
  BY <1>1 DEF Granted
<1>4. Methods' = Methods /\ Password' = Password /\ Command' = Command
  BY DEF Methods, Password, Command, Method
<1> QED
  BY <1>1, <1>2, <1>3, <1>4

\* The proxy answers the greeting.
LEMMA GreetStep ==
  ASSUME Session, PeerGreets
  PROVE  Session'
<1>1. /\ peer.pc = "greeting" /\ c2p # <<>> /\ Head(c2p).type = "methods"
      /\ c2p' = Tail(c2p) /\ UNCHANGED <<auth, sess>>
      /\ peer' = [peer EXCEPT !.pc = "authenticated"]
      /\ \E v, m : p2c' = Append(p2c, [version |-> v, method |-> m])
  BY DEF PeerGreets, PeerReads, PeerWrites
<1>2. Fields' /\ peer'.pc = "authenticated" /\ peer'.cred = peer.cred
  BY <1>1, PeerFields
<1>3. sess.pc \notin {"status", "reply", "open"}
  BY <1>1 DEF Session, AtStatus, AtReply, AtOpen
<1>4. ASSUME sess.pc = "method" PROVE AtMethod'
  <2>1. c2p = <<Methods>> /\ p2c = <<>> /\ peer.cred = NoAuth
    BY <1>1, <1>4 DEF Session, AtMethod
  <2>2. c2p' = <<>>
    BY <1>1, <2>1
  <2>3. \E v, m : p2c' = <<[version |-> v, method |-> m]>>
    <3>1. PICK v, m : p2c' = Append(p2c, [version |-> v, method |-> m])
      BY <1>1
    <3>2. p2c' = <<[version |-> v, method |-> m]>>
      BY <2>1, <3>1, AppendFirst
    <3> QED
      BY <3>2
  <2> QED
    BY <1>2, <2>1, <2>2, <2>3 DEF AtMethod
<1> QED
  BY <1>1, <1>2, <1>3, <1>4 DEF Session

\* The proxy reads the credentials by their length bytes; only when those are
\* the lengths has it read the configured ones.
LEMMA CheckStep ==
  ASSUME Session, PeerChecks
  PROVE  Session'
<1>1. /\ peer.pc = "authenticated" /\ c2p # <<>> /\ Head(c2p).type = "password"
      /\ c2p' = Tail(c2p) /\ UNCHANGED <<auth, sess>>
  BY DEF PeerChecks, PeerReads
<1>2. PICK ok \in BOOLEAN :
        /\ p2c' = Append(p2c, Status(ok))
        /\ peer' = [peer EXCEPT
              !.pc = IF ~ok THEN "closed"
                     ELSE IF InStep(Head(c2p).user) /\ InStep(Head(c2p).pass) THEN "authenticated"
                     ELSE "junk",
              !.cred = [user |-> Head(c2p).user.len, pass |-> Head(c2p).pass.len]]
  BY DEF PeerChecks, PeerWrites, Status
<1>3. Fields
  BY DEF Session
<1>4. PICK at :
        /\ peer' = [pc |-> at, cred |-> [user |-> Head(c2p).user.len, pass |-> Head(c2p).pass.len],
                    cmd |-> peer.cmd, dst |-> peer.dst]
        /\ ~ok => at = "closed"
        /\ ok => at \in {"authenticated", "junk"}
        /\ at = "authenticated" => InStep(Head(c2p).user) /\ InStep(Head(c2p).pass)
  <2> DEFINE at == IF ~ok THEN "closed"
                   ELSE IF InStep(Head(c2p).user) /\ InStep(Head(c2p).pass) THEN "authenticated"
                   ELSE "junk"
             cred == [user |-> Head(c2p).user.len, pass |-> Head(c2p).pass.len]
  <2>1. peer' = [peer EXCEPT !.pc = at, !.cred = cred]
    BY <1>2
  <2>2. /\ ~ok => at = "closed"
        /\ ok => at \in {"authenticated", "junk"}
        /\ at = "authenticated" => InStep(Head(c2p).user) /\ InStep(Head(c2p).pass)
    OBVIOUS
  <2> HIDE DEF at, cred
  <2>3. peer' = [pc |-> at, cred |-> cred, cmd |-> peer.cmd, dst |-> peer.dst]
    BY <1>3, <2>1 DEF Fields
  <2> QED
    BY <2>2, <2>3 DEF cred
<1> DEFINE cred == [user |-> Head(c2p).user.len, pass |-> Head(c2p).pass.len]
<1>5. Fields'
  BY <1>1, <1>3, <1>4 DEF Fields
<1>6. sess.pc \notin {"method", "reply", "open"}
  <2>1. c2p # <<Methods>> /\ c2p # <<Command>>
    BY <1>1 DEF Methods, Command
  <2> QED
    BY <1>1, <2>1 DEF Session, AtMethod, AtReply, AtOpen
<1>7. ASSUME sess.pc = "status" PROVE AtStatus'
  <2>1. c2p = <<Password>> /\ p2c = <<>>
    BY <1>1, <1>7 DEF Session, AtStatus
  <2>2. Head(c2p).user = VarVec(auth.user) /\ Head(c2p).pass = VarVec(auth.pass)
    BY <2>1 DEF Password
  <2>3. at = "authenticated" => cred = auth
    BY <1>3, <1>4, <2>2 DEF InStep, VarVec, Fields
  <2>4. c2p' = <<>> /\ p2c' = <<Status(ok)>>
    BY <1>1, <1>2, <2>1
  <2>5. peer'.pc = at /\ peer'.cred = cred /\ auth' = auth
    BY <1>1, <1>4
  <2>6. CASE ok = TRUE
    BY <1>4, <2>3, <2>4, <2>5, <2>6 DEF AtStatus, Status
  <2>7. CASE ok = FALSE
    BY <1>4, <2>4, <2>5, <2>7 DEF AtStatus, Status
  <2> QED
    BY <2>6, <2>7
<1> QED
  BY <1>1, <1>5, <1>6, <1>7 DEF Session

\* The proxy answers the request.
LEMMA ServeStep ==
  ASSUME Session, PeerServes
  PROVE  Session'
<1>1. /\ peer.pc = "authenticated" /\ c2p # <<>> /\ Head(c2p).type = "command"
      /\ c2p' = Tail(c2p) /\ UNCHANGED <<auth, sess>>
  BY DEF PeerServes, PeerReads
<1>2. sess.pc \notin {"method", "status", "open"}
  <2>1. c2p # <<Methods>> /\ c2p # <<Password>>
    BY <1>1 DEF Methods, Password
  <2> QED
    BY <1>1, <2>1 DEF Session, AtMethod, AtStatus, AtOpen
<1>3. sess.pc = "reply" => /\ c2p = <<Command>> /\ p2c = <<>> /\ peer.cred = auth
                          /\ sess.cmd \in {"connect", "associate"}
  BY <1>1 DEF Session, AtReply
<1>4. CASE PeerWrites([ok |-> FALSE]) /\ peer' = [peer EXCEPT !.pc = "closed"]
  <2>1. Fields' /\ peer'.pc = "closed"
    BY <1>1, <1>4, PeerFields
  <2>2. sess.pc = "reply" => p2c' = <<Status(FALSE)>>
    BY <1>3, <1>4, AppendFirst DEF PeerWrites, Status
  <2>3. sess.pc = "reply" => AtReply'
    BY <1>1, <1>3, <2>1, <2>2 DEF AtReply, Status
  <2> QED
    BY <1>1, <1>2, <2>1, <2>3 DEF Session
<1>5. CASE /\ \E bind \in BindAddrs : PeerWrites([ok |-> TRUE, bind |-> bind])
           /\ peer' = [peer EXCEPT !.pc = "serving", !.cmd = Head(c2p).cmd,
                                   !.dst = DstRead(Head(c2p).dst)]
  <2>1. peer' = [pc |-> "serving", cred |-> peer.cred, cmd |-> Head(c2p).cmd,
              dst |-> DstRead(Head(c2p).dst)]
    BY <1>5 DEF Session, Fields
  <2>2. Fields'
    BY <1>1, <2>1 DEF Session, Fields
  <2>3. ASSUME sess.pc = "reply" PROVE AtReply'
    <3>1. c2p' = <<>> /\ Head(c2p).cmd = sess.cmd /\ Head(c2p).dst = sess.dst
      <4>1. Head(c2p) = Command /\ c2p' = <<>>
        <5>1. c2p = <<Command>> /\ c2p' = Tail(c2p)
          BY <1>1, <1>3, <2>3
        <5> HIDE DEF Command
        <5>2. Head(<<Command>>) = Command /\ Tail(<<Command>>) = <<>>
          OBVIOUS
        <5> QED
          BY <5>1, <5>2
      <4>2. Command.cmd = sess.cmd /\ Command.dst = sess.dst
        BY DEF Command
      <4> QED
        BY <4>1, <4>2
    <3>2. \E bind \in BindAddrs : p2c' = <<[ok |-> TRUE, bind |-> bind]>>
      <4>1. PICK bind \in BindAddrs : p2c' = Append(p2c, [ok |-> TRUE, bind |-> bind])
        BY <1>5 DEF PeerWrites
      <4>2. p2c' = <<[ok |-> TRUE, bind |-> bind]>>
        <5>1. p2c = <<>>
          BY <1>3, <2>3
        <5> QED
          BY <4>1, <5>1, AppendFirst
      <4> QED
        BY <4>2
    <3>3. Granted'
      BY <1>1, <1>3, <2>1, <2>3, <3>1 DEF Granted
    <3> QED
      BY <1>1, <1>3, <2>1, <2>3, <3>1, <3>2, <3>3 DEF AtReply
  <2> QED
    BY <1>1, <1>2, <2>2, <2>3 DEF Session
<1> QED
  BY <1>4, <1>5 DEF PeerServes

\* The proxy rejects what is left of credentials it cut short.
LEMMA RejectStep ==
  ASSUME Session, PeerRejects
  PROVE  Session'
<1>1. /\ peer.pc = "junk" /\ p2c' = Append(p2c, Status(FALSE))
      /\ peer' = [peer EXCEPT !.pc = "closed"] /\ UNCHANGED <<auth, sess, c2p>>
  BY DEF PeerRejects, PeerWrites, Status
<1>2. Fields' /\ peer'.pc = "closed"
  BY <1>1, PeerFields
<1>3. sess.pc \notin {"method", "open"}
  BY <1>1 DEF Session, AtMethod, AtOpen
<1>4. ASSUME sess.pc = "status" PROVE AtStatus'
  <2>1. c2p = <<>> /\ p2c = <<Status(TRUE)>>
    BY <1>1, <1>4 DEF Session, AtStatus
  <2>2. p2c' = <<Status(TRUE), Status(FALSE)>>
    BY <1>1, <2>1, AppendSecond
  <2> QED
    BY <1>1, <1>2, <2>1, <2>2 DEF AtStatus, Status
<1>5. ASSUME sess.pc = "reply" PROVE AtReply'
  <2>1. p2c = <<>> /\ sess.cmd \in {"connect", "associate"}
    BY <1>1, <1>5 DEF Session, AtReply
  <2>2. p2c' = <<Status(FALSE)>>
    BY <1>1, <2>1
  <2> QED
    BY <1>1, <1>2, <2>1, <2>2 DEF AtReply, Status
<1> QED
  BY <1>1, <1>2, <1>3, <1>4, <1>5 DEF Session

\* The proxy closes the connection.
LEMMA CloseStep ==
  ASSUME Session, PeerCloses
  PROVE  Session'
<1>1. peer' = [peer EXCEPT !.pc = "closed"] /\ UNCHANGED <<auth, sess, c2p, p2c>>
  BY DEF PeerCloses
<1>2. /\ Fields' /\ peer'.pc = "closed" /\ peer'.cred = peer.cred
      /\ (Granted <=> Granted')
      /\ Methods' = Methods /\ Password' = Password /\ Command' = Command
  BY <1>1, PeerFields
<1>3. sess.pc = "method" => AtMethod'
  BY <1>1, <1>2 DEF Session, AtMethod
<1>4. sess.pc = "status" => AtStatus'
  BY <1>1, <1>2 DEF Session, AtStatus, Status
<1>5. sess.pc = "reply" => AtReply'
  BY <1>1, <1>2 DEF Session, AtReply, Status
<1>6. sess.pc = "open" => AtOpen'
  BY <1>1, <1>2 DEF Session, AtOpen
<1> QED
  BY <1>1, <1>2, <1>3, <1>4, <1>5, <1>6 DEF Session

\* Whatever the proxy does, the session is kept.
LEMMA PeerSession ==
  ASSUME Session, PeerStep
  PROVE  Session' /\ sess' = sess
BY GreetStep, CheckStep, ServeStep, RejectStep, CloseStep
   DEF PeerStep, PeerGreets, PeerChecks, PeerServes, PeerRejects, PeerCloses

-----------------------------------------------------------------------------
\* The command.  Its states before the probes, those of a DNS query, and
\* those of the probes.
Asking4 == {"dns_open", "dns_socks", "dns_send", "dns_wait"}
Before == {"build", "resolve"} \cup Asking4
Probes == {"probe", "socks", "stream", "quic", "closing"}

\* What may be probed, and how a probe ends.
Names == {"http1", "http2", "http3", "bench"}
Outcomes == {"success", "failed", "panicked"}

Options ==
  /\ opts \in [cmd : Commands, proxy : BOOLEAN, iface : Interfaces,
               dns : {"none", "addr", "junk"}, resolve : BOOLEAN, host : DOMAIN Hosts,
               stalls : BOOLEAN]
  /\ opts.resolve => opts.cmd # "benchmark"

Shape ==
  /\ pc \in Before \cup Probes \cup {"exit"}
  /\ resolved # NoAddr => resolved.kind \in {"v4", "v6"}
  /\ quic \in 0..MaxQuic
  /\ todo \in Seq(Names) /\ results \in Seq(Outcomes)
  /\ Len(todo) + Len(results) <= 3
  /\ exit \in {0, 1, 101}
  /\ asked \subseteq {"system", "dns", "proxy"}

\* The probes start with an address: the DNS server's, or a benchmark's own.
HasAddr == opts.host # "v4" /\ (opts.dns = "addr" \/ IsLiteral)

\* What each state of the command has behind it.
Progress ==
  /\ pc \in Before => resolved = NoAddr /\ todo = <<>> /\ results = <<>>
  /\ pc \in {"socks", "stream", "quic"} => todo # <<>>
  /\ pc \notin {"build", "exit"} => opts.dns # "junk" /\ (opts.proxy => opts.iface = "none")
  /\ pc \in Asking4 => opts.dns = "addr" /\ ~IsLiteral
  /\ pc \in Probes /\ HasAddr => resolved # NoAddr

\* Whose session it is.
Control ==
  /\ pc = "dns_socks" => opts.proxy /\ sess.cmd = "associate"
  /\ pc = "socks" => opts.proxy /\ (IsQuic => sess.cmd = "associate")
  /\ ControlUntilDone

\* Who may have been asked, the proxy after an empty answer to --resolve too.
Permitted ==
  IF IsLiteral THEN {}
  ELSE IF opts.dns = "addr" THEN {"dns"}
  ELSE IF ~opts.proxy THEN {"system"}
  ELSE IF opts.resolve THEN {"system"} \cup (IF resolved = NoAddr THEN {"proxy"} ELSE {})
  ELSE {"proxy"}

AskedPermitted ==
  opts.cmd # "benchmark" \/ ~opts.proxy \/ opts.dns = "addr" => asked \subseteq Permitted

\* Who was asked: nobody for a literal, the proxy only once probing.
AskedSoFar ==
  /\ IsLiteral \/ opts.dns = "junk" => asked = {}
  /\ pc \in Before => "proxy" \notin asked
  /\ AskedPermitted

Inv ==
  /\ Session
  /\ Options
  /\ Shape
  /\ Progress
  /\ Control
  /\ AskedSoFar
  /\ RoutedAsConfigured
  /\ ExitZeroMeansSuccess

\* What the arguments decide does not change while they do not.
LEMMA SameOptions ==
  ASSUME UNCHANGED opts
  PROVE  (IsLiteral' <=> IsLiteral) /\ (HasAddr' <=> HasAddr)
BY DEF IsLiteral, HasAddr, ParsesAsIp

\* The invariant holds of every command line.
LEMMA InitInv == Init => Inv
<1> SUFFICES ASSUME Init PROVE Inv
  OBVIOUS
<1>1. Session
  <2>1. /\ sess = [pc |-> "none", cmd |-> "none", dst |-> NoDst, relay |-> "none"]
        /\ peer = [pc |-> "greeting", cred |-> NoAuth, cmd |-> "none", dst |-> NoDst]
        /\ auth \in [user : Nat, pass : Nat]
    BY ProbeAssumption DEF Init, NoSession, NewPeer
  <2>2. Fields
    BY <2>1 DEF Fields
  <2> QED
    BY <2>1, <2>2 DEF Session
<1>2. Options /\ Shape /\ Progress
  BY ProbeAssumption DEF Init, Options, Shape, Progress, Before, Probes, Asking4
<1>3. Control /\ AskedSoFar /\ RoutedAsConfigured /\ ExitZeroMeansSuccess
  BY DEF Init, Control, ControlUntilDone, AskedSoFar, AskedPermitted,
         RoutedAsConfigured, ExitZeroMeansSuccess
<1> QED
  BY <1>1, <1>2, <1>3 DEF Inv

\* The process ends: with 0 only as the exit code demands.
LEMMA ExitStep ==
  ASSUME Inv, NEW code \in {0, 1, 101}, Exit(code),
         code = 0 /\ opts.cmd # "press" =>
           results # <<>> /\ todo = <<>> /\ \A i \in 1..Len(results) : results[i] = "success",
         quic' \in 0..MaxQuic, UNCHANGED sockets,
         asked' \subseteq {"system", "dns", "proxy"},
         IsLiteral \/ opts.dns = "junk" => asked' = {},
         AskedPermitted'
  PROVE  Inv'
<1>1. /\ pc' = "exit" /\ exit' = code /\ SocksDrop
      /\ UNCHANGED <<opts, resolved, id, todo, results>>
  BY DEF Exit
<1>2. Session'
  BY <1>1, DropSession DEF Inv
<1>3. Options' /\ Shape' /\ Progress'
  BY <1>1 DEF Inv, Options, Shape, Progress, Before, Probes, Asking4
<1>4. Control' /\ AskedSoFar'
  BY SameOptions, <1>1 DEF Control, ControlUntilDone, AskedSoFar, Before, Asking4, Inv
<1>5. RoutedAsConfigured' /\ ExitZeroMeansSuccess'
  BY <1>1 DEF Inv, RoutedAsConfigured, ExitZeroMeansSuccess
<1> QED
  BY <1>2, <1>3, <1>4, <1>5 DEF Inv

\* A probe ends: the next one starts from nothing but the results.
LEMMA ProbeEndsStep ==
  ASSUME Inv, NEW outcome \in Outcomes, ProbeResult(outcome), pc \in Probes, todo # <<>>,
         pc' \in {"probe", "closing"}, quic' \in 0..MaxQuic, UNCHANGED sockets,
         asked' \subseteq {"system", "dns", "proxy"},
         IsLiteral \/ opts.dns = "junk" => asked' = {},
         AskedPermitted'
  PROVE  Inv'
<1>1. /\ todo' = Tail(todo) /\ results' = Append(results, outcome)
      /\ SocksDrop
      /\ UNCHANGED <<opts, resolved, id, exit>>
  BY DEF ProbeResult
<1>2. Session'
  BY <1>1, DropSession DEF Inv
<1>3. /\ todo' \in Seq(Names) /\ results' \in Seq(Outcomes)
      /\ Len(todo') + Len(results') <= 3
  <2>1. todo \in Seq(Names) /\ results \in Seq(Outcomes) /\ Len(todo) + Len(results) <= 3
    BY DEF Inv, Shape
  <2>2. Len(todo') = Len(todo) - 1 /\ Len(results') = Len(results) + 1
          /\ todo' \in Seq(Names) /\ results' \in Seq(Outcomes)
    BY <1>1, <2>1
  <2> QED
    BY <2>1, <2>2
<1>5. Options' /\ Shape'
  BY <1>1, <1>3 DEF Inv, Options, Shape, Probes
<1>6. Progress'
  BY SameOptions, <1>1 DEF Inv, Progress, Before, Probes, Asking4
<1>7. Control' /\ AskedSoFar'
  BY SameOptions, <1>1 DEF Control, ControlUntilDone, AskedSoFar, Before, Asking4, Inv
<1>8. RoutedAsConfigured' /\ ExitZeroMeansSuccess'
  BY <1>1 DEF Inv, RoutedAsConfigured, ExitZeroMeansSuccess
<1> QED
  BY <1>2, <1>5, <1>6, <1>7, <1>8 DEF Inv

\* A step that asks nobody and resolves nothing keeps who was asked.
LEMMA NobodyAsked ==
  ASSUME Inv, UNCHANGED <<opts, resolved, asked>>
  PROVE  /\ asked' \subseteq {"system", "dns", "proxy"}
         /\ IsLiteral \/ opts.dns = "junk" => asked' = {}
         /\ AskedPermitted'
BY SameOptions DEF Inv, Shape, AskedSoFar, AskedPermitted, Permitted

\* A step of the command that keeps its session, protocols and sockets.
LEMMA MovesOn ==
  ASSUME Inv, UNCHANGED <<opts, todo, results, exit, quic, sockets, socksVars>>,
         pc \notin {"build", "exit"} \/ ((opts.proxy => opts.iface = "none") /\ opts.dns # "junk"),
         pc' \in Before \cup Probes, pc' # "build",
         resolved' # NoAddr => resolved'.kind \in {"v4", "v6"},
         pc' \in Before => resolved' = NoAddr /\ pc \in Before,
         pc' \in {"socks", "stream", "quic"} => todo # <<>>,
         pc' \in Asking4 => opts.dns = "addr" /\ ~IsLiteral,
         pc' \in Probes /\ HasAddr => resolved' # NoAddr,
         Control',
         asked' \subseteq {"system", "dns", "proxy"},
         IsLiteral => asked' = {},
         pc' \in Before => "proxy" \notin asked',
         AskedPermitted'
  PROVE  Inv'
<1>1. Session'
  BY SameSession DEF Inv
<1>2. opts.dns # "junk" /\ (opts.proxy => opts.iface = "none")
  BY DEF Inv, Progress
<1>3. Options' /\ Shape'
  BY DEF Inv, Options, Shape
<1>4. Progress'
  BY SameOptions, <1>2 DEF Inv, Progress
<1>5. AskedSoFar'
  BY SameOptions, <1>2 DEF AskedSoFar
<1>6. RoutedAsConfigured' /\ ExitZeroMeansSuccess'
  <2>1. pc' # "exit"
    BY DEF Before, Probes, Asking4
  <2> QED
    BY <2>1 DEF Inv, RoutedAsConfigured, ExitZeroMeansSuccess
<1> QED
  BY <1>1, <1>3, <1>4, <1>5, <1>6 DEF Inv

\* TransportArgs::build refuses an interface together with a proxy.
LEMMA BuildInv == Inv /\ Build => Inv'
<1> SUFFICES ASSUME Inv, Build PROVE Inv'
  OBVIOUS
<1>1. pc = "build" /\ UNCHANGED <<read, got, quic, asked, sockets>>
  BY DEF Build, netVars, logVars
<1>2. quic' \in 0..MaxQuic
  BY <1>1 DEF Inv, Shape
<1>3. CASE Exit(1)
  <2>1. UNCHANGED <<opts, resolved, asked>>
    BY <1>1, <1>3 DEF Exit
  <2> QED
    BY <1>1, <1>2, <1>3, <2>1, NobodyAsked, ExitStep
<1>4. CASE /\ ~(opts.proxy /\ opts.iface # "none") /\ opts.dns # "junk"
           /\ pc' = "resolve" /\ UNCHANGED <<cmdVars, socksVars>>
  <2>1. UNCHANGED <<opts, resolved, id, todo, results, exit>>
    BY <1>4 DEF cmdVars
  <2>2. Control'
    BY <1>4 DEF Control, ControlUntilDone
  <2>3. resolved = NoAddr /\ "proxy" \notin asked
    BY <1>1 DEF Inv, Progress, AskedSoFar, Before
  <2>4. pc \in Before /\ pc' \in Before /\ pc' \notin Asking4 /\ pc' \notin Probes
    BY <1>1, <1>4 DEF Before, Asking4, Probes
  <2> QED
    BY <1>1, <1>4, <2>1, <2>2, <2>3, <2>4, NobodyAsked, MovesOn
<1> QED
  BY <1>3, <1>4 DEF Build

\* Nothing to resolve.
LEMMA ResolveNothingInv == Inv /\ ResolveNothing => Inv'
<1> SUFFICES ASSUME Inv, ResolveNothing PROVE Inv'
  OBVIOUS
<1>1. /\ pc = "resolve" /\ pc' = "probe"
      /\ UNCHANGED <<opts, id, todo, results, exit, quic, asked, sockets, socksVars>>
      /\ IsLiteral \/ (opts.dns = "none" /\ ~opts.resolve /\ opts.cmd # "benchmark")
      /\ resolved' = IF opts.cmd # "benchmark" THEN resolved ELSE SyntheticTarget
  BY DEF ResolveNothing, netVars, logVars
<1>2. resolved = NoAddr /\ "proxy" \notin asked /\ pc \in Before
  BY <1>1 DEF Inv, Progress, AskedSoFar, Before
<1>3. SyntheticTarget.kind \in {"v4", "v6"} /\ SyntheticTarget # NoAddr
  BY DEF SyntheticTarget, LiteralV4, LiteralV6, NoAddr
<1>4. HasAddr => resolved' # NoAddr
  BY <1>1, <1>3 DEF IsLiteral, ParsesAsIp, HasAddr
<1>5. resolved' # NoAddr => resolved'.kind \in {"v4", "v6"}
  BY <1>1, <1>2, <1>3
<1>6. asked' \subseteq {"system", "dns", "proxy"} /\ (IsLiteral => asked' = {})
  BY <1>1 DEF Inv, Shape, AskedSoFar
<1>7. AskedPermitted'
  <2>1. AskedPermitted
    BY DEF Inv, AskedSoFar
  <2>2. opts.resolve => opts.cmd # "benchmark"
    BY DEF Inv, Options
  <2>3. CASE opts.cmd # "benchmark"
    BY SameOptions, <1>1, <2>1, <2>3 DEF AskedPermitted, Permitted
  <2>4. CASE opts.cmd = "benchmark"
    BY <1>1, <2>1, <2>2, <2>4 DEF AskedPermitted, Permitted
  <2> QED
    BY <2>3, <2>4
<1>8. Control'
  BY <1>1 DEF Control, ControlUntilDone
<1>9. pc' \in Probes /\ pc' \notin Before
  BY <1>1 DEF Probes, Before, Asking4
<1> QED
  BY <1>1, <1>4, <1>5, <1>6, <1>7, <1>8, <1>9, MovesOn DEF Asking4

\* --dns-server: the name is too long, or a socket is opened.
LEMMA ResolveByDnsInv == Inv /\ ResolveByDns => Inv'
<1> SUFFICES ASSUME Inv, ResolveByDns PROVE Inv'
  OBVIOUS
<1>1. /\ pc = "resolve" /\ ~IsLiteral /\ opts.dns = "addr"
      /\ UNCHANGED <<read, got, quic, asked, sockets>>
  BY DEF ResolveByDns, netVars, logVars
<1>2. quic' \in 0..MaxQuic
  BY <1>1 DEF Inv, Shape
<1>3. CASE Exit(1)
  <2>1. UNCHANGED <<opts, resolved, asked>>
    BY <1>1, <1>3 DEF Exit
  <2> QED
    BY <1>1, <1>2, <1>3, <2>1, NobodyAsked, ExitStep
<1>4. CASE pc' = "dns_open" /\ UNCHANGED <<cmdVars, socksVars>>
  <2>1. UNCHANGED <<opts, resolved, id, todo, results, exit>>
    BY <1>4 DEF cmdVars
  <2>2. Control'
    BY <1>4 DEF Control, ControlUntilDone
  <2>3. resolved = NoAddr /\ "proxy" \notin asked
    BY <1>1 DEF Inv, Progress, AskedSoFar, Before
  <2>4. pc \in Before /\ pc' \in Before /\ pc' \in Asking4 /\ pc' \notin Probes
    BY <1>1, <1>4 DEF Before, Asking4, Probes
  <2>5. ~IsLiteral
    BY <1>1
  <2> QED
    BY <1>1, <1>4, <2>1, <2>2, <2>3, <2>4, <2>5, NobodyAsked, MovesOn
<1> QED
  BY <1>3, <1>4 DEF ResolveByDns

\* The system resolver is asked, which the documentation says of these options.
LEMMA ResolveBySystemInv == Inv /\ ResolveBySystem => Inv'
<1> SUFFICES ASSUME Inv, ResolveBySystem PROVE Inv'
  OBVIOUS
<1>1. /\ pc = "resolve" /\ ~IsLiteral /\ opts.dns = "none"
      /\ opts.resolve \/ opts.cmd = "benchmark"
      /\ UNCHANGED <<read, got, quic, sockets>> /\ asked' = Asking
  BY DEF ResolveBySystem, netVars
<1>2. quic' \in 0..MaxQuic
  BY <1>1 DEF Inv, Shape
<1>3. resolved = NoAddr /\ "proxy" \notin asked /\ pc \in Before
  BY <1>1 DEF Inv, Progress, AskedSoFar, Before
<1>4. ~IsLiteral
  BY <1>1
<1>5. asked' \subseteq asked \cup {"system"}
  BY <1>1 DEF Asking
<1>6. asked' \subseteq {"system", "dns", "proxy"} /\ "proxy" \notin asked'
  BY <1>3, <1>5 DEF Inv, Shape
<1>7. ASSUME opts' = opts PROVE AskedPermitted'
  <2>1. (opts.cmd # "benchmark" \/ ~opts.proxy \/ opts.dns = "addr") => asked \subseteq Permitted
    BY DEF Inv, AskedSoFar, AskedPermitted
  <2>2. opts.cmd # "benchmark" \/ ~opts.proxy =>
          asked' \subseteq {"system"} /\ (~opts.proxy \/ opts.resolve)
    BY <1>1, <1>3, <1>4, <1>5, <2>1 DEF Permitted
  <2> QED
    BY SameOptions, <1>1, <1>4, <1>7, <2>2 DEF AskedPermitted, Permitted
<1>8. PICK l \in Lookups, a \in {SystemV4, SystemV6, LiteralV6, NoAddr} :
         \/ /\ resolved' = a /\ pc' = "probe"
            /\ UNCHANGED <<opts, id, todo, results, exit, socksVars>>
         \/ Exit(1)
  BY DEF ResolveBySystem
<1>9. CASE Exit(1)
  <2>1. opts' = opts
    BY <1>9 DEF Exit
  <2>2. AskedPermitted' /\ (IsLiteral \/ opts.dns = "junk" => asked' = {})
    BY <1>1, <1>4, <1>7, <2>1
  <2>3. UNCHANGED sockets
    BY <1>1
  <2> QED
    BY <1>2, <1>6, <1>9, <2>2, <2>3, ExitStep
<1>10. CASE resolved' = a /\ pc' = "probe" /\ UNCHANGED <<opts, id, todo, results, exit, socksVars>>
  <2>1. resolved' # NoAddr => resolved'.kind \in {"v4", "v6"}
    BY <1>10 DEF SystemV4, SystemV6, LiteralV6
  <2>2. Control'
    BY <1>10 DEF Control, ControlUntilDone
  <2>3. pc' \in Probes /\ pc' \notin Before /\ pc' \notin Asking4
    BY <1>10 DEF Probes, Before, Asking4
  <2>4. ~HasAddr
    BY <1>1 DEF HasAddr
  <2> QED
    BY <1>1, <1>4, <1>6, <1>7, <1>10, <2>1, <2>2, <2>3, <2>4, MovesOn
<1> QED
  BY <1>8, <1>9, <1>10

\* A step that opens, uses or drops a session or a socket.
LEMMA Advances ==
  ASSUME Inv, UNCHANGED <<opts, todo, results, exit>>, quic' \in 0..MaxQuic,
         pc \notin {"build", "exit"}, pc' \in Before \cup Probes, pc' # "build",
         resolved' # NoAddr => resolved'.kind \in {"v4", "v6"},
         pc' \in Before => resolved' = NoAddr /\ pc \in Before /\ "proxy" \notin asked',
         pc' \in {"socks", "stream", "quic"} => todo # <<>>,
         pc' \in Asking4 => opts.dns = "addr" /\ ~IsLiteral,
         pc' \in Probes /\ HasAddr => resolved' # NoAddr,
         Session', Control', RoutedAsConfigured', AskedPermitted',
         asked' \subseteq {"system", "dns", "proxy"},
         IsLiteral \/ opts.dns = "junk" => asked' = {}
  PROVE  Inv'
<1>1. Options' /\ Shape'
  BY DEF Inv, Options, Shape
<1>2. Progress'
  BY SameOptions DEF Inv, Progress
<1>3. AskedSoFar'
  BY SameOptions DEF AskedSoFar
<1>4. ExitZeroMeansSuccess'
  BY DEF ExitZeroMeansSuccess, Before, Probes, Asking4
<1> QED
  BY <1>1, <1>2, <1>3, <1>4 DEF Inv

\* A socket that was bound is bound as --interface says.
LEMMA BoundAsAsked ==
  ASSUME NEW family, NEW via \in BuildUdpSocket(family) \cup ApplyInterface(family),
         via # "error"
  PROVE  via = opts.iface
<1>1. CASE opts.iface = "none"
  BY <1>1 DEF BuildUdpSocket, ApplyInterface
<1>2. CASE opts.iface = "name"
  BY <1>2 DEF BuildUdpSocket, ApplyInterface
<1>3. CASE opts.iface \notin {"none", "name"}
  BY <1>3 DEF BuildUdpSocket, ApplyInterface
<1> QED
  BY <1>1, <1>2, <1>3

\* A socket opened to where the mode of the transport allows.
LEMMA OpenedAsConfigured ==
  ASSUME Inv, opts' = opts, NEW to, NEW via, Opened(to, via), via = opts.iface,
         to \in IF opts.proxy THEN {"proxy", "relay"} ELSE {"dns", "target"}
  PROVE  RoutedAsConfigured'
<1>1. sockets' = sockets \cup {[peer |-> to, via |-> via]}
  BY DEF Opened
<1>2. RoutedAsConfigured
  BY DEF Inv
<1> QED
  BY <1>1, <1>2 DEF RoutedAsConfigured

\* The sockets stay as they are.
LEMMA SameSockets ==
  ASSUME Inv, UNCHANGED <<opts, sockets>>
  PROVE  RoutedAsConfigured'
BY DEF Inv, RoutedAsConfigured

\* open_udp, direct.
LEMMA DnsOpenDirectInv == Inv /\ DnsOpenDirect => Inv'
<1> SUFFICES ASSUME Inv, DnsOpenDirect PROVE Inv'
  OBVIOUS
<1>1. pc = "dns_open" /\ ~opts.proxy /\ UNCHANGED <<read, got, quic, asked>>
  BY DEF DnsOpenDirect, netVars
<1>2. quic' \in 0..MaxQuic
  BY <1>1 DEF Inv, Shape
<1>3. PICK via \in BuildUdpSocket("v4") :
        \/ via = "error" /\ Exit(1) /\ UNCHANGED sockets
        \/ /\ via # "error" /\ Opened("dns", via) /\ pc' = "dns_send"
           /\ UNCHANGED <<cmdVars, socksVars>>
  BY DEF DnsOpenDirect
<1>4. CASE Exit(1) /\ UNCHANGED sockets
  <2>1. UNCHANGED <<opts, resolved, asked>>
    BY <1>1, <1>4 DEF Exit
  <2> QED
    BY <1>2, <1>4, <2>1, NobodyAsked, ExitStep
<1>5. CASE via # "error" /\ Opened("dns", via) /\ pc' = "dns_send" /\ UNCHANGED <<cmdVars, socksVars>>
  <2>1. UNCHANGED <<opts, resolved, id, todo, results, exit>>
    BY <1>5 DEF cmdVars
  <2>2. Session'
    BY <1>5, SameSession DEF Inv
  <2>3. Control'
    BY <1>1, <1>5, <2>1 DEF Control, ControlUntilDone
  <2>4. via = opts.iface
    BY <1>3, <1>5, BoundAsAsked
  <2>5. RoutedAsConfigured'
    BY <1>1, <1>5, <2>1, <2>4, OpenedAsConfigured
  <2>6. resolved = NoAddr /\ "proxy" \notin asked /\ opts.dns = "addr" /\ ~IsLiteral
    BY <1>1 DEF Inv, Progress, AskedSoFar, Before, Asking4
  <2>7. pc \in Before /\ pc' \in Before /\ pc' \notin Probes
    BY <1>1, <1>5 DEF Before, Asking4, Probes
  <2> QED
    BY <1>1, <1>2, <1>5, <2>1, <2>2, <2>3, <2>5, <2>6, <2>7, NobodyAsked, Advances
<1> QED
  BY <1>3, <1>4, <1>5

\* open_udp, SOCKS5: the session of an association begins.
LEMMA DnsOpenSocksInv == Inv /\ DnsOpenSocks => Inv'
<1> SUFFICES ASSUME Inv, DnsOpenSocks PROVE Inv'
  OBVIOUS
<1>1. /\ pc = "dns_open" /\ opts.proxy /\ pc' = "dns_socks"
      /\ UNCHANGED <<opts, resolved, id, todo, results, exit, quic, asked>>
  BY DEF DnsOpenSocks, netVars, cmdVars
<1>2. quic' \in 0..MaxQuic
  BY <1>1 DEF Inv, Shape
<1>3. opts.iface = "none"
  BY <1>1 DEF Inv, Progress
<1>4. Session' /\ sess'.cmd = "associate" /\ RoutedAsConfigured'
  <2>1. CASE SocksOpen("associate", Hint) /\ Opened("proxy", "none")
    BY <1>1, <1>3, <2>1, OpenSession, OpenedAsConfigured DEF Inv
  <2>2. CASE SocksOpenFails("associate", Hint) /\ UNCHANGED sockets
    BY <1>1, <2>2, OpenFails, SameSockets DEF Inv
  <2> QED
    BY <2>1, <2>2 DEF DnsOpenSocks
<1>5. Control'
  BY <1>1, <1>4 DEF Control, ControlUntilDone
<1>6. resolved = NoAddr /\ "proxy" \notin asked /\ opts.dns = "addr" /\ ~IsLiteral
  BY <1>1 DEF Inv, Progress, AskedSoFar, Before, Asking4
<1>7. pc \in Before /\ pc' \in Before /\ pc' \notin Probes
  BY <1>1 DEF Before, Asking4, Probes
<1> QED
  BY <1>1, <1>2, <1>4, <1>5, <1>6, <1>7, NobodyAsked, Advances

\* The association of the DNS query ends or its relay is used.
LEMMA DnsAssociatedInv == Inv /\ DnsAssociated => Inv'
<1> SUFFICES ASSUME Inv, DnsAssociated PROVE Inv'
  OBVIOUS
<1>1. pc = "dns_socks" /\ UNCHANGED <<read, got, quic, asked>>
  BY DEF DnsAssociated, netVars
<1>2. quic' \in 0..MaxQuic
  BY <1>1 DEF Inv, Shape
<1>3. ASSUME NEW code \in {1, 101}, Exit(code), UNCHANGED sockets PROVE Inv'
  <2>1. UNCHANGED <<opts, resolved, asked>>
    BY <1>1, <1>3 DEF Exit
  <2> QED
    BY <1>2, <1>3, <2>1, NobodyAsked, ExitStep
<1>4. CASE /\ sess.pc = "open" /\ Opened("relay", "none") /\ pc' = "dns_send"
           /\ UNCHANGED <<cmdVars, socksVars>>
  <2>1. UNCHANGED <<opts, resolved, id, todo, results, exit, sess>>
    BY <1>4 DEF cmdVars, socksVars
  <2>2. opts.proxy /\ sess.cmd = "associate" /\ opts.iface = "none"
    BY <1>1 DEF Inv, Control, Progress
  <2>3. Session'
    BY <1>4, SameSession DEF Inv
  <2>4. Control'
    BY <1>4, <2>1, <2>2 DEF Control, ControlUntilDone
  <2>5. RoutedAsConfigured'
    BY <1>4, <2>1, <2>2, OpenedAsConfigured
  <2>6. resolved = NoAddr /\ "proxy" \notin asked /\ opts.dns = "addr" /\ ~IsLiteral
    BY <1>1 DEF Inv, Progress, AskedSoFar, Before, Asking4
  <2>7. pc \in Before /\ pc' \in Before /\ pc' \notin Probes
    BY <1>1, <1>4 DEF Before, Asking4, Probes
  <2> QED
    BY <1>1, <1>2, <1>4, <2>1, <2>3, <2>4, <2>5, <2>6, <2>7, NobodyAsked, Advances
<1> QED
  BY <1>3, <1>4 DEF DnsAssociated

\* The query goes to the DNS server the arguments name.
LEMMA DnsSendInv == Inv /\ DnsSend => Inv'
<1> SUFFICES ASSUME Inv, DnsSend PROVE Inv'
  OBVIOUS
<1>1. pc = "dns_send" /\ UNCHANGED <<read, got, quic, sockets>>
  BY DEF DnsSend, netVars
<1>2. quic' \in 0..MaxQuic
  BY <1>1 DEF Inv, Shape
<1>3. PICK i \in Ids :
        \/ /\ pc' = "dns_wait" /\ id' = i /\ asked' = asked \cup {"dns"}
           /\ UNCHANGED <<opts, resolved, todo, results, exit, socksVars>>
        \/ Exit(1) /\ UNCHANGED asked
  BY DEF DnsSend
<1>4. CASE Exit(1) /\ UNCHANGED asked
  <2>1. UNCHANGED <<opts, resolved, asked, sockets>>
    BY <1>1, <1>4 DEF Exit
  <2> QED
    BY <1>2, <1>4, <2>1, NobodyAsked, ExitStep
<1>5. CASE /\ pc' = "dns_wait" /\ asked' = asked \cup {"dns"}
           /\ UNCHANGED <<opts, resolved, todo, results, exit, socksVars>>
  <2>1. Control'
    <3>1. UNCHANGED <<opts, todo, sess>>
      BY <1>5 DEF socksVars
    <3> QED
      BY <1>1, <1>5, <3>1 DEF Inv, Control, ControlUntilDone
  <2>2. resolved = NoAddr /\ "proxy" \notin asked /\ opts.dns = "addr" /\ ~IsLiteral
    BY <1>1 DEF Inv, Progress, AskedSoFar, Before, Asking4
  <2>3. pc \in Before /\ pc' \in Before /\ pc' \notin Probes
    BY <1>1, <1>5 DEF Before, Asking4, Probes
  <2>4. asked \subseteq {"dns"}
    BY <2>2 DEF Inv, AskedSoFar, AskedPermitted, Permitted
  <2>5. AskedPermitted'
    BY SameOptions, <1>5, <2>2, <2>4 DEF AskedPermitted, Permitted
  <2>6. asked' \subseteq {"system", "dns", "proxy"} /\ "proxy" \notin asked'
    BY <1>5, <2>4
  <2> QED
    BY <1>1, <1>5, <2>1, <2>2, <2>3, <2>5, <2>6, MovesOn
<1> QED
  BY <1>3, <1>4, <1>5

\* The answer is read, and the socket and its association are dropped.
LEMMA DnsRecvInv == Inv /\ DnsRecv => Inv'
<1> SUFFICES ASSUME Inv, DnsRecv PROVE Inv'
  OBVIOUS
<1>1. pc = "dns_wait" /\ UNCHANGED <<quic, asked, sockets>>
  BY DEF DnsRecv, logVars
<1>2. quic' \in 0..MaxQuic
  BY <1>1 DEF Inv, Shape
<1>3. \/ Exit(1)
      \/ \E addr : /\ resolved' = [kind |-> "v4", addr |-> addr]
                   /\ pc' = "probe" /\ SocksDrop
                   /\ UNCHANGED <<opts, id, todo, results, exit>>
  BY DEF DnsRecv
<1>4. CASE Exit(1)
  <2>1. UNCHANGED <<opts, resolved, asked, sockets>>
    BY <1>1, <1>4 DEF Exit
  <2> QED
    BY <1>2, <1>4, <2>1, NobodyAsked, ExitStep
<1>5. ASSUME NEW addr, resolved' = [kind |-> "v4", addr |-> addr], pc' = "probe", SocksDrop,
             UNCHANGED <<opts, id, todo, results, exit>>
      PROVE  Inv'
  <2>1. Session'
    BY <1>5, DropSession DEF Inv
  <2>2. Control'
    BY <1>5 DEF Control, ControlUntilDone
  <2>3. resolved' # NoAddr /\ resolved'.kind = "v4"
    BY <1>5 DEF NoAddr
  <2>4. opts.dns = "addr" /\ ~IsLiteral
    BY <1>1 DEF Inv, Progress, Asking4
  <2>5. asked \subseteq {"dns"}
    BY <2>4 DEF Inv, AskedSoFar, AskedPermitted, Permitted
  <2>6. AskedPermitted'
    BY SameOptions, <1>1, <1>5, <2>4, <2>5 DEF AskedPermitted, Permitted
  <2>7. pc' \in Probes /\ pc' \notin Before /\ pc' \notin Asking4
    BY <1>5 DEF Before, Asking4, Probes
  <2>8. RoutedAsConfigured'
    BY <1>1, <1>5, SameSockets
  <2>9. asked' \subseteq {"system", "dns", "proxy"}
    BY <1>1, <2>5
  <2> QED
    BY <1>1, <1>2, <1>5, <2>1, <2>2, <2>3, <2>4, <2>6, <2>7, <2>8, <2>9, Advances
<1> QED
  BY <1>3, <1>4, <1>5

\* QUERY_TIMEOUT ends the command.
LEMMA DnsTimeoutInv == Inv /\ DnsTimeout => Inv'
<1> SUFFICES ASSUME Inv, DnsTimeout PROVE Inv'
  OBVIOUS
<1>1. Exit(1) /\ UNCHANGED <<quic, asked, sockets>>
  BY DEF DnsTimeout, netVars, logVars
<1>2. quic' \in 0..MaxQuic
  BY <1>1 DEF Inv, Shape
<1>3. UNCHANGED <<opts, resolved, asked>>
  BY <1>1 DEF Exit
<1> QED
  BY <1>1, <1>2, <1>3, NobodyAsked, ExitStep

\* At most three protocols are probed.
LEMMA ProtocolsShape ==
  ASSUME NEW cmd, NEW p \in Protocols(cmd)
  PROVE  p \in Seq(Names) /\ Len(p) <= 3
<1>1. \/ p = <<"http1">> \/ p = <<"http2">> \/ p = <<"http3">> \/ p = <<"bench">>
      \/ p = <<"http1", "http2", "http3">>
  <2>1. CASE cmd = "test"
    BY <2>1, Zenon DEF Protocols
  <2>2. CASE cmd = "press"
    BY <2>2 DEF Protocols
  <2>3. CASE cmd \notin {"test", "press"}
    BY <2>3 DEF Protocols
  <2> QED
    BY <2>1, <2>2, <2>3
<1>2. ASSUME NEW S, NEW x \in S, NEW y \in S, NEW z \in S
      PROVE  /\ <<x>> \in Seq(S) /\ Len(<<x>>) <= 3
             /\ <<x, y, z>> \in Seq(S) /\ Len(<<x, y, z>>) <= 3
  OBVIOUS
<1>3. "http1" \in Names /\ "http2" \in Names /\ "http3" \in Names /\ "bench" \in Names
  BY DEF Names
<1>4. /\ <<"http1">> \in Seq(Names) /\ Len(<<"http1">>) <= 3
      /\ <<"http2">> \in Seq(Names) /\ Len(<<"http2">>) <= 3
      /\ <<"http3">> \in Seq(Names) /\ Len(<<"http3">>) <= 3
      /\ <<"bench">> \in Seq(Names) /\ Len(<<"bench">>) <= 3
      /\ <<"http1", "http2", "http3">> \in Seq(Names) /\ Len(<<"http1", "http2", "http3">>) <= 3
  BY <1>2, <1>3, Zenon
<1> QED
  BY <1>1, <1>4, Zenon

\* The probes start.
LEMMA ProbesStartInv == Inv /\ ProbesStart => Inv'
<1> SUFFICES ASSUME Inv, ProbesStart PROVE Inv'
  OBVIOUS
<1>1. /\ pc = "probe" /\ results = <<>> /\ todo' \in Protocols(opts.cmd)
      /\ UNCHANGED <<opts, pc, resolved, id, results, exit, quic, asked, sockets, socksVars>>
  BY DEF ProbesStart, logVars
<1>2. todo' \in Seq(Names) /\ Len(todo') + Len(results') <= 3
  <2>1. todo' \in Seq(Names) /\ Len(todo') <= 3
    BY <1>1, ProtocolsShape
  <2>2. results' = <<>> /\ Len(<<>>) = 0
    BY <1>1
  <2> QED
    BY <2>1, <2>2
<1>3. Session'
  BY <1>1, SameSession DEF Inv
<1>4. Options' /\ Shape'
  BY <1>1, <1>2 DEF Inv, Options, Shape
<1>5. Progress' /\ Control'
  BY SameOptions, <1>1 DEF Inv, Progress, Control, ControlUntilDone, Before, Asking4
<1>6. AskedSoFar'
  BY SameOptions, <1>1, NobodyAsked DEF Inv, AskedSoFar
<1>7. RoutedAsConfigured' /\ ExitZeroMeansSuccess'
  BY <1>1, SameSockets DEF ExitZeroMeansSuccess
<1> QED
  BY <1>3, <1>4, <1>5, <1>6, <1>7 DEF Inv

\* The proxy may be asked for a name nobody resolved.
LEMMA ProxyAsked ==
  ASSUME Inv, opts.proxy, pc \in Probes, UNCHANGED <<opts, resolved>>,
         asked' = IF ToSocksAddr.kind = "domain" THEN asked \cup {"proxy"} ELSE asked
  PROVE  /\ asked' \subseteq {"system", "dns", "proxy"}
         /\ IsLiteral \/ opts.dns = "junk" => asked' = {}
         /\ AskedPermitted'
<1>1. CASE ToSocksAddr.kind # "domain"
  BY <1>1, NobodyAsked
<1>2. CASE ToSocksAddr.kind = "domain"
  <2>1. resolved = NoAddr
    <3> SUFFICES ASSUME resolved # NoAddr PROVE FALSE
      OBVIOUS
    <3>1. ToSocksAddr.kind = resolved.kind
      BY DEF ToSocksAddr
    <3> QED
      BY <1>2, <3>1 DEF Inv, Shape
  <2>2. opts.host # "v4" /\ ~HasAddr
    BY <1>2, <2>1 DEF ToSocksAddr, ParsesAsIp, Inv, Progress
  <2>3. opts.dns # "junk" /\ opts.dns # "addr" /\ ~IsLiteral
    BY <2>1, <2>2 DEF Inv, Progress, Probes, HasAddr
  <2>4. asked \subseteq {"system", "dns", "proxy"}
    BY DEF Inv, Shape
  <2>5. opts.cmd # "benchmark" => asked \subseteq Permitted /\ "proxy" \in Permitted
    BY <2>1, <2>2, <2>3 DEF Inv, AskedSoFar, AskedPermitted, Permitted
  <2>6. Permitted' = Permitted
    BY SameOptions DEF Permitted
  <2>7. AskedPermitted'
    BY <1>2, <2>3, <2>5, <2>6 DEF AskedPermitted
  <2> QED
    BY <1>2, <2>2, <2>3, <2>4, <2>7
<1> QED
  BY <1>1, <1>2

\* What every step of a probe starts from.
LEMMA AtProbe ==
  ASSUME Inv, pc \in Probes
  PROVE  /\ HasAddr => resolved # NoAddr
         /\ opts.dns # "junk" /\ (opts.proxy => opts.iface = "none")
         /\ resolved # NoAddr => resolved.kind \in {"v4", "v6"}
         /\ pc \notin {"build", "exit"}
         /\ quic \in 0..MaxQuic
BY DEF Inv, Progress, Shape, Probes

\* A probe moves on, without resolving or ending.
LEMMA ProbeMoves ==
  ASSUME Inv, pc \in Probes, pc' \in Probes,
         pc' \in {"socks", "stream", "quic"} => todo # <<>>,
         UNCHANGED <<opts, resolved, id, todo, results, exit>>, quic' \in 0..MaxQuic,
         Session', Control', RoutedAsConfigured', AskedPermitted',
         asked' \subseteq {"system", "dns", "proxy"},
         IsLiteral \/ opts.dns = "junk" => asked' = {}
  PROVE  Inv'
<1>1. pc' \notin Before /\ pc' \notin Asking4 /\ pc' # "build"
  BY DEF Before, Asking4, Probes
<1> QED
  BY <1>1, AtProbe, Advances

\* connect or associate of a probe.
LEMMA ProbeOpenSocksInv == Inv /\ ProbeOpenSocks => Inv'
<1> SUFFICES ASSUME Inv, ProbeOpenSocks PROVE Inv'
  OBVIOUS
<1>1. /\ pc = "probe" /\ todo # <<>> /\ opts.proxy /\ pc' = "socks"
      /\ UNCHANGED <<opts, resolved, id, todo, results, exit, read, got, quic>>
  BY DEF ProbeOpenSocks, Probing, cmdVars, netVars
<1> DEFINE cmd == IF IsQuic THEN "associate" ELSE "connect"
           dst == IF IsQuic THEN Hint ELSE ToSocksAddr
<1>2. \/ /\ SocksOpen(cmd, dst) /\ Opened("proxy", "none")
         /\ asked' = IF dst.kind = "domain" THEN asked \cup {"proxy"} ELSE asked
      \/ SocksOpenFails(cmd, dst) /\ UNCHANGED <<asked, sockets>>
  BY DEF ProbeOpenSocks, logVars
<1>3. cmd \in {"connect", "associate"} /\ (IsQuic => cmd = "associate")
  OBVIOUS
<1>4. \/ asked' = asked
      \/ asked' = IF ToSocksAddr.kind = "domain" THEN asked \cup {"proxy"} ELSE asked
  BY <1>2 DEF Hint
<1>5. pc \in Probes /\ pc' \in Probes
  BY <1>1 DEF Probes
<1>6. /\ asked' \subseteq {"system", "dns", "proxy"}
      /\ IsLiteral \/ opts.dns = "junk" => asked' = {}
      /\ AskedPermitted'
  <2>1. CASE asked' = asked
    BY <1>1, <2>1, NobodyAsked
  <2>2. CASE asked' = IF ToSocksAddr.kind = "domain" THEN asked \cup {"proxy"} ELSE asked
    BY <1>1, <1>5, <2>2, ProxyAsked
  <2> QED
    BY <1>4, <2>1, <2>2
<1> HIDE DEF cmd, dst
<1>7. Session' /\ sess'.cmd = cmd /\ RoutedAsConfigured'
  <2>1. CASE SocksOpen(cmd, dst) /\ Opened("proxy", "none")
    BY <1>1, <1>3, <1>5, <2>1, AtProbe, OpenSession, OpenedAsConfigured DEF Inv
  <2>2. CASE SocksOpenFails(cmd, dst) /\ UNCHANGED sockets
    BY <1>1, <2>2, OpenFails, SameSockets DEF Inv
  <2> QED
    BY <1>2, <2>1, <2>2
<1>8. Control'
  BY <1>1, <1>3, <1>7 DEF Control, ControlUntilDone, IsQuic, Current
<1>9. quic' \in 0..MaxQuic
  BY <1>1 DEF Inv, Shape
<1> QED
  BY <1>1, <1>5, <1>6, <1>7, <1>8, <1>9, ProbeMoves

\* build_socks_endpoint.
LEMMA ProbeAssociatedInv == Inv /\ ProbeAssociated => Inv'
<1> SUFFICES ASSUME Inv, ProbeAssociated PROVE Inv'
  OBVIOUS
<1>1. /\ pc = "socks" /\ IsQuic /\ sess.pc = "open" /\ Opened("relay", "none") /\ pc' = "quic"
      /\ asked' = IF ToSocksAddr.kind = "domain" THEN asked \cup {"proxy"} ELSE asked
      /\ UNCHANGED <<opts, resolved, id, todo, results, exit, read, got, quic, socksVars>>
  BY DEF ProbeAssociated, cmdVars, netVars
<1>2. pc \in Probes /\ pc' \in Probes /\ todo # <<>> /\ opts.proxy /\ sess.cmd = "associate"
  BY <1>1 DEF Probes, Inv, Progress, Control
<1>3. Session'
  BY <1>1, SameSession DEF Inv
<1>4. Control'
  BY <1>1, <1>2 DEF Control, ControlUntilDone, socksVars
<1>5. RoutedAsConfigured'
  BY <1>1, <1>2, AtProbe, OpenedAsConfigured
<1>6. quic' \in 0..MaxQuic
  BY <1>1 DEF Inv, Shape
<1> QED
  BY <1>1, <1>2, <1>3, <1>4, <1>5, <1>6, ProxyAsked, ProbeMoves

\* The tunnel is there.
LEMMA ProbeTunnelledInv == Inv /\ ProbeTunnelled => Inv'
<1> SUFFICES ASSUME Inv, ProbeTunnelled PROVE Inv'
  OBVIOUS
<1>1. /\ pc = "socks" /\ pc' = "stream"
      /\ UNCHANGED <<opts, resolved, id, todo, results, exit, quic, asked, sockets, socksVars>>
  BY DEF ProbeTunnelled, cmdVars, netVars, logVars
<1>2. pc \in Probes /\ pc' \in Probes /\ todo # <<>> /\ quic' \in 0..MaxQuic
  BY <1>1 DEF Probes, Inv, Progress, Shape
<1>3. Session' /\ Control' /\ RoutedAsConfigured'
  BY <1>1, SameSession, SameSockets DEF Control, ControlUntilDone, Inv
<1> QED
  BY <1>1, <1>2, <1>3, NobodyAsked, ProbeMoves

\* A probe ends without asking anybody.
LEMMA ProbeOver ==
  ASSUME Inv, NEW outcome \in Outcomes, ProbeResult(outcome), pc \in {"socks", "stream", "quic"},
         EndpointGone \/ (pc' = "closing" /\ UNCHANGED netVars),
         UNCHANGED <<asked, sockets>>
  PROVE  Inv'
<1>1. UNCHANGED <<opts, resolved, asked>>
  BY DEF ProbeResult
<1>2. pc \in Probes /\ todo # <<>>
  BY DEF Probes, Inv, Progress
<1>3. pc' \in {"probe", "closing"} /\ quic' \in 0..MaxQuic
  BY ProbeAssumption DEF EndpointGone, netVars, Inv, Shape
<1> QED
  BY <1>1, <1>2, <1>3, NobodyAsked, ProbeEndsStep

\* The session of a probe failed or panicked.
LEMMA ProbeSocksFailsInv == Inv /\ ProbeSocksFails => Inv'
<1> SUFFICES ASSUME Inv, ProbeSocksFails PROVE Inv'
  OBVIOUS
<1>1. pc = "socks" /\ UNCHANGED <<asked, sockets>>
  BY DEF ProbeSocksFails, logVars
<1>2. ASSUME NEW outcome \in {"failed", "panicked"}, ProbeEnds(outcome) PROVE Inv'
  BY <1>1, <1>2, ProbeOver DEF Outcomes, ProbeEnds
<1>3. CASE Exit(101) /\ UNCHANGED netVars
  <2>1. quic' \in 0..MaxQuic
    BY <1>3 DEF Inv, Shape, netVars
  <2>2. UNCHANGED <<opts, resolved, asked>>
    BY <1>1, <1>3 DEF Exit
  <2> QED
    BY <1>1, <1>3, <2>1, <2>2, NobodyAsked, ExitStep
<1> QED
  BY <1>2, <1>3 DEF ProbeSocksFails

\* connect_tcp and build_direct_endpoint: a name is the system's to resolve.
LEMMA ProbeOpenDirectInv == Inv /\ ProbeOpenDirect => Inv'
<1> SUFFICES ASSUME Inv, ProbeOpenDirect PROVE Inv'
  OBVIOUS
<1>1. /\ pc = "probe" /\ todo # <<>> /\ ~opts.proxy
      /\ asked' = IF resolved # NoAddr \/ ParsesAsIp(opts.host) THEN asked ELSE Asking
  BY DEF ProbeOpenDirect, Probing
<1>2. PICK a \in ResolveTarget :
        \/ a = NoAddr /\ ProbeEnds("failed") /\ UNCHANGED sockets
        \/ /\ a # NoAddr
           /\ \E via \in DirectSocket(a.kind) :
                \/ via = "error" /\ ProbeEnds("failed") /\ UNCHANGED sockets
                \/ /\ via # "error" /\ Opened("target", via)
                   /\ pc' = IF IsQuic THEN "quic" ELSE "stream"
                   /\ UNCHANGED <<cmdVars, netVars, socksVars>>
  BY DEF ProbeOpenDirect
<1>3. pc \in Probes
  BY <1>1 DEF Probes
<1>4. ASSUME UNCHANGED <<opts, resolved>>
      PROVE  /\ asked' \subseteq {"system", "dns", "proxy"}
             /\ IsLiteral \/ opts.dns = "junk" => asked' = {}
             /\ AskedPermitted'
  <2>1. CASE asked' = asked
    BY <1>4, <2>1, NobodyAsked
  <2>2. CASE asked' # asked
    <3>1. resolved = NoAddr /\ opts.host # "v4" /\ asked' = asked \cup {"system"}
      BY <1>1, <2>2 DEF Asking, ParsesAsIp
    <3>2. opts.dns # "addr" /\ opts.dns # "junk" /\ ~IsLiteral
      BY <1>3, <3>1, AtProbe DEF HasAddr
    <3>3. asked \subseteq {"system"}
      BY <1>1, <3>1, <3>2 DEF Inv, AskedSoFar, AskedPermitted, Permitted
    <3>4. AskedPermitted'
      BY SameOptions, <1>1, <1>4, <3>1, <3>2, <3>3 DEF AskedPermitted, Permitted
    <3> QED
      BY <3>1, <3>2, <3>3, <3>4
  <2> QED
    BY <2>1, <2>2
<1>5. CASE ProbeEnds("failed") /\ UNCHANGED sockets
  <2>1. UNCHANGED <<opts, resolved>> /\ ProbeResult("failed")
    BY <1>5 DEF ProbeEnds, ProbeResult
  <2>2. "failed" \in Outcomes /\ pc' = "probe" /\ quic' \in 0..MaxQuic
    BY <1>1, <1>5, ProbeAssumption DEF Outcomes, ProbeEnds, EndpointGone
  <2> QED
    BY <1>1, <1>3, <1>4, <1>5, <2>1, <2>2, ProbeEndsStep
<1>6. ASSUME NEW via \in DirectSocket(a.kind), via # "error", Opened("target", via),
             pc' = IF IsQuic THEN "quic" ELSE "stream",
             UNCHANGED <<cmdVars, netVars, socksVars>>
      PROVE  Inv'
  <2>1. UNCHANGED <<opts, resolved, id, todo, results, exit, quic>>
    BY <1>6 DEF cmdVars, netVars
  <2>2. via = opts.iface
    BY <1>6, BoundAsAsked DEF DirectSocket
  <2>3. RoutedAsConfigured'
    BY <1>1, <1>6, <2>1, <2>2, OpenedAsConfigured
  <2>4. Session'
    BY <1>6, SameSession DEF Inv
  <2>5. pc' \in Probes /\ pc' # "socks" /\ pc' # "dns_socks"
    BY <1>6 DEF Probes
  <2>6. Control'
    BY <1>1, <2>1, <2>5 DEF Control, ControlUntilDone
  <2>7. quic' \in 0..MaxQuic
    BY <2>1 DEF Inv, Shape
  <2> QED
    BY <1>1, <1>3, <1>4, <2>1, <2>3, <2>4, <2>5, <2>6, <2>7, ProbeMoves
<1> QED
  BY <1>2, <1>5, <1>6

\* The endpoint of a QUIC probe that has its result goes.
LEMMA EndpointOver ==
  ASSUME Inv, pc = "closing", EndpointGone, UNCHANGED <<cmdVars, asked, sockets, socksVars>>
  PROVE  Inv'
<1>1. pc' = "probe" /\ quic' = 0 /\ UNCHANGED <<opts, resolved, id, todo, results, exit>>
  BY DEF EndpointGone, cmdVars
<1>2. pc \in Probes /\ pc' \in Probes /\ quic' \in 0..MaxQuic
  BY <1>1, ProbeAssumption DEF Probes
<1>3. Session' /\ RoutedAsConfigured'
  BY <1>1, SameSession, SameSockets DEF Inv
<1>4. Control'
  BY <1>1 DEF Control, ControlUntilDone
<1> QED
  BY <1>1, <1>2, <1>3, <1>4, NobodyAsked, ProbeMoves

LEMMA EndpointDropsInv == Inv /\ EndpointDrops => Inv'
BY EndpointOver DEF EndpointDrops, logVars

\* A datagram of the relay for QUIC.
LEMMA QuicRecvInv == Inv /\ QuicRecv => Inv'
<1> SUFFICES ASSUME Inv, QuicRecv PROVE Inv'
  OBVIOUS
<1>1. pc \in {"quic", "closing"} /\ quic < MaxQuic /\ UNCHANGED <<asked, sockets>>
  BY DEF QuicRecv, logVars
<1>2. \/ quic' = quic + 1 /\ UNCHANGED <<pc, cmdVars, socksVars>>
      \/ pc = "quic" /\ ProbeResult("failed") /\ EndpointGone
      \/ pc = "closing" /\ EndpointGone /\ UNCHANGED <<cmdVars, socksVars>>
  BY DEF QuicRecv
<1>3. CASE pc = "quic" /\ ProbeResult("failed") /\ EndpointGone
  BY <1>1, <1>3, ProbeOver DEF Outcomes
<1>5. CASE pc = "closing" /\ EndpointGone /\ UNCHANGED <<cmdVars, socksVars>>
  BY <1>1, <1>5, EndpointOver
<1>4. CASE quic' = quic + 1 /\ UNCHANGED <<pc, cmdVars, socksVars>>
  <2>1. UNCHANGED <<opts, resolved, id, todo, results, exit, sess>>
    BY <1>4 DEF cmdVars, socksVars
  <2>2. quic' \in 0..MaxQuic
    BY <1>1, <1>4, ProbeAssumption DEF Inv, Shape
  <2>3. Session' /\ RoutedAsConfigured'
    BY <1>1, <1>4, <2>1, SameSession, SameSockets DEF Inv
  <2>4. Control'
    BY <1>1, <1>4, <2>1 DEF Inv, Control, ControlUntilDone
  <2>5. pc \in Probes /\ pc' \in Probes /\ pc' \notin {"socks", "stream"}
        /\ (pc' = "quic" => todo # <<>>)
    BY <1>1, <1>4 DEF Probes, Inv, Progress
  <2> QED
    BY <1>1, <2>1, <2>2, <2>3, <2>4, <2>5, NobodyAsked, ProbeMoves
<1> QED
  BY <1>2, <1>3, <1>4, <1>5

\* The exit code is 0 only if nothing failed.
LEMMA ReportInv == Inv /\ Report => Inv'
<1> SUFFICES ASSUME Inv, Report PROVE Inv'
  OBVIOUS
<1> DEFINE code == ExitCode(opts.cmd, results)
<1>1. todo = <<>> /\ results # <<>> /\ Exit(code) /\ UNCHANGED <<quic, asked, sockets>>
  BY DEF Report, netVars, logVars
<1>2. code \in {0, 1, 101}
  BY DEF ExitCode
<1>3. code = 0 /\ opts.cmd # "press" => \A i \in 1..Len(results) : results[i] = "success"
  BY DEF ExitCode
<1> HIDE DEF code
<1>4. quic' \in 0..MaxQuic
  BY <1>1 DEF Inv, Shape
<1>5. UNCHANGED <<opts, resolved, asked>>
  BY <1>1 DEF Exit
<1> QED
  BY <1>1, <1>2, <1>3, <1>4, <1>5, NobodyAsked, ExitStep

\* A step of the client's dialogue or of the proxy, while the command waits.
LEMMA SocketsInv == Inv /\ Sockets => Inv'
<1> SUFFICES ASSUME Inv, Sockets PROVE Inv'
  OBVIOUS
<1>1. UNCHANGED <<pc, opts, resolved, id, todo, results, exit, quic, asked, sockets>>
  BY DEF Sockets, cmdVars, netVars, logVars
<1>2. /\ Session' /\ sess'.cmd = sess.cmd
      /\ sess' = sess \/ sess.pc \in {"method", "status", "reply"}
  BY ClientSession, PeerSession DEF Sockets, Inv
<1>3. Control'
  BY <1>1, <1>2 DEF Inv, Control, ControlUntilDone, IsQuic, Current
<1>4. Options' /\ Shape' /\ Progress'
  BY SameOptions, <1>1 DEF Inv, Options, Shape, Progress
<1>5. AskedSoFar'
  BY SameOptions, <1>1, NobodyAsked DEF Inv, AskedSoFar
<1>6. RoutedAsConfigured' /\ ExitZeroMeansSuccess'
  BY <1>1 DEF Inv, RoutedAsConfigured, ExitZeroMeansSuccess
<1> QED
  BY <1>2, <1>3, <1>4, <1>5, <1>6 DEF Inv

\* Nothing happens.
LEMMA StutterInv == Inv /\ UNCHANGED vars => Inv'
<1> SUFFICES ASSUME Inv, UNCHANGED vars PROVE Inv'
  OBVIOUS
<1>1. UNCHANGED <<pc, opts, resolved, id, todo, results, exit, quic, asked, sockets, sess, socksVars>>
  BY DEF vars, socksVars
<1>2. Session'
  BY <1>1, SameSession DEF Inv
<1>3. Control'
  BY <1>1 DEF Inv, Control, ControlUntilDone, IsQuic, Current
<1>4. Options' /\ Shape' /\ Progress'
  BY SameOptions, <1>1 DEF Inv, Options, Shape, Progress
<1>5. AskedSoFar'
  BY SameOptions, <1>1, NobodyAsked DEF Inv, AskedSoFar
<1>6. RoutedAsConfigured' /\ ExitZeroMeansSuccess'
  BY <1>1 DEF Inv, RoutedAsConfigured, ExitZeroMeansSuccess
<1> QED
  BY <1>2, <1>3, <1>4, <1>5, <1>6 DEF Inv

\* Every step of the command, its connection and its peers keeps the invariant.
LEMMA StepInv == Inv /\ [Next]_vars => Inv'
<1> SUFFICES ASSUME Inv, [Next]_vars PROVE Inv'
  OBVIOUS
<1>1. CASE CommandStep
  BY <1>1, BuildInv, ResolveNothingInv, ResolveByDnsInv, ResolveBySystemInv, DnsOpenDirectInv,
     DnsOpenSocksInv, DnsAssociatedInv, DnsSendInv, ProbesStartInv, ProbeOpenSocksInv,
     ProbeOpenDirectInv, ProbeAssociatedInv, ProbeTunnelledInv, ProbeSocksFailsInv, EndpointDropsInv, ReportInv
     DEF CommandStep
<1>2. CASE ProbeSucceeds
  BY <1>2, ProbeOver DEF ProbeSucceeds, ProbeEnds, Outcomes, logVars
<1>3. CASE ProbeFails
  BY <1>3, ProbeOver DEF ProbeFails, ProbeEnds, Outcomes, logVars
<1>4. CASE ProbeTimeout
  BY <1>4, ProbeOver DEF ProbeTimeout, ProbeEnds, Outcomes, logVars
<1>5. CASE UNCHANGED vars
  BY <1>5, StutterInv
<1> QED
  BY <1>1, <1>2, <1>3, <1>4, <1>5, DnsRecvInv, DnsTimeoutInv, QuicRecvInv, SocketsInv
     DEF Next, Finished

\* The invariant holds of every reachable state.
THEOREM Invariance == Spec => []Inv
<1> QED
  BY InitInv, StepInv, PTL DEF Spec

-----------------------------------------------------------------------------
\* The type invariant: main.rs's state stays in its domains, whatever proxy,
\* relay and DNS server answer.
THEOREM TypeCorrect == Spec => []TypeOK
<1>1. Inv => TypeOK
  <2> SUFFICES ASSUME Inv PROVE TypeOK
    OBVIOUS
  <2>1. resolved.kind \in {"none", "v4", "v6"}
    BY DEF Inv, Shape, NoAddr
  <2> QED
    BY <2>1 DEF Inv, Shape, Session, Fields, TypeOK, Before, Probes, Asking4
<1> QED
  BY <1>1, Invariance, PTL

\* A stream or association in use was granted for what the client asked, after
\* the proxy read the whole of the credentials (handshake.rs, connector.rs,
\* associate.rs): for credentials of any length and every length byte, and for
\* the destination unless its name is too long for one.
THEOREM TunnelHonest == Spec => []TunnelAsAsked
<1>1. Inv => TunnelAsAsked
  BY DEF Inv, Session, AtOpen, Granted, TunnelAsAsked, DstRead
<1> QED
  BY <1>1, Invariance, PTL

\* A command asks only whom USAGE.md names for the host's address (run_test,
\* run_press, to_socks_addr, resolve_target), unless it is a benchmark through a
\* proxy without --dns-server, or --resolve got an empty answer.
THEOREM AskedAsDocumented == Spec => []ResolvedAsDocumented
<1>1. Inv => ResolvedAsDocumented
  BY DEF Inv, Options, AskedSoFar, AskedPermitted, Permitted, ResolvedAsDocumented, Documented,
         EmptyAnswer
<1> QED
  BY <1>1, Invariance, PTL

\* Every socket is bound as --interface says and, with a proxy, goes to the
\* proxy or its relay (TransportArgs::build, transport.rs, direct.rs).
THEOREM Routed == Spec => []RoutedAsConfigured
<1>1. Inv => RoutedAsConfigured
  BY DEF Inv
<1> QED
  BY <1>1, Invariance, PTL

\* Until the DNS answer or the QUIC probe's result is there, the control stream
\* of the relay is held open (TransportUdpSocket::_control, do_test of http3).
\* What comes after, the endpoint without its control stream, is not covered.
THEOREM ControlHeld == Spec => []ControlUntilDone
<1>1. Inv => ControlUntilDone
  BY DEF Inv, Control
<1> QED
  BY <1>1, Invariance, PTL

\* A test exits with 0 only after every protocol asked for succeeded (run_test,
\* test_all).
THEOREM ExitHonest == Spec => []ExitZeroMeansSuccess
<1>1. Inv => ExitZeroMeansSuccess
  BY DEF Inv
<1> QED
  BY <1>1, Invariance, PTL

-----------------------------------------------------------------------------
\* The bytes.  The table of the partial concatenations Flat goes through.
IsFlat(g, ss, n) == g = [i \in 0..n |-> IF i = 0 THEN <<>> ELSE g[i - 1] \o ss[i]]

\* The concatenation of any number of sequences is defined.
LEMMA FlatExists ==
  ASSUME NEW ss, NEW n \in Nat
  PROVE  \E g : IsFlat(g, ss, n)
<1> DEFINE Bad == {k \in Nat : ~\E g : IsFlat(g, ss, k)}
<1>1. ASSUME Bad # {} PROVE FALSE
  <2>1. PICK k \in Bad : \A y \in Bad : k <= y
    BY <1>1, NatMin
  <2>2. k \in Nat /\ ~\E g : IsFlat(g, ss, k)
    BY <2>1
  <2>3. CASE k = 0
    <3> DEFINE g == [i \in 0..0 |-> <<>>]
    <3>1. \A i \in 0..0 : i = 0
      OBVIOUS
    <3>2. IsFlat(g, ss, 0)
      BY <3>1, Zenon DEF IsFlat
    <3> QED
      BY <2>2, <2>3, <3>2
  <2>4. CASE k # 0
    <3>1. k - 1 \in Nat /\ k - 1 \notin Bad
      <4>1. k - 1 \in Nat /\ ~(k <= k - 1)
        BY <2>2, <2>4
      <4> QED
        BY <2>1, <4>1, Zenon
    <3>2. PICK h : IsFlat(h, ss, k - 1)
      BY <3>1, Zenon
    <3> DEFINE g == [i \in 0..k |-> IF i = 0 THEN <<>> ELSE h[i - 1] \o ss[i]]
    <3>3. \A i \in 0..(k - 1) : i \in 0..k
      BY <2>2
    <3>4. \A i \in 0..k : i # 0 => i - 1 \in 0..(k - 1)
      BY <2>2
    <3>5. \A i \in 0..(k - 1) : h[i] = IF i = 0 THEN <<>> ELSE h[i - 1] \o ss[i]
      BY <3>2, Zenon DEF IsFlat
    <3>6. \A i \in 0..(k - 1) : g[i] = h[i]
      BY <3>3, <3>5, Zenon
    <3>7. \A i \in 0..k : i # 0 => g[i - 1] = h[i - 1]
      BY <3>4, <3>6, Zenon
    <3>8. IsFlat(g, ss, k)
      BY <3>7, Zenon DEF IsFlat
    <3> QED
      BY <2>2, <3>8
  <2> QED
    BY <2>3, <2>4
<1> QED
  BY <1>1, Zenon

\* The rows of that table: the concatenations of the first i sequences.
FlatRows(g, ss) ==
  /\ Flat(ss) = g[Len(ss)]
  /\ g[0] = <<>>
  /\ \A i \in 0..Len(ss) : g[i] \in Seq(Nat)
  /\ \A i \in 1..Len(ss) : g[i] = g[i - 1] \o ss[i]

LEMMA FlatTable ==
  ASSUME NEW ss \in Seq(Seq(Nat))
  PROVE  \E g : FlatRows(g, ss)
<1> DEFINE n == Len(ss)
           g == CHOOSE g : IsFlat(g, ss, n)
           Bad == {k \in 0..n : g[k] \notin Seq(Nat)}
<1>1. n \in Nat /\ \A i \in 1..n : ss[i] \in Seq(Nat)
  OBVIOUS
<1>2. IsFlat(g, ss, n)
  BY <1>1, FlatExists
<1>3. Flat(ss) = g[n]
  BY DEF Flat, IsFlat
<1> HIDE DEF g, n
<1>4. \A i \in 0..n : g[i] = IF i = 0 THEN <<>> ELSE g[i - 1] \o ss[i]
  BY <1>2, Zenon DEF IsFlat
<1>5. 0 \in 0..n /\ n \in 0..n /\ <<>> \in Seq(Nat) /\ \A i \in 1..n : i \in 0..n /\ i # 0
  BY <1>1
<1>6. g[0] = <<>> /\ \A i \in 1..n : g[i] = g[i - 1] \o ss[i]
  BY <1>4, <1>5, Zenon
<1>7. ASSUME Bad # {} PROVE FALSE
  <2>1. Bad \in SUBSET Nat
    BY <1>1
  <2>2. PICK k \in Bad : \A y \in Bad : k <= y
    BY <1>7, <2>1, NatMin
  <2>3. k \in 0..n /\ g[k] \notin Seq(Nat)
    BY <2>2
  <2>4. k # 0
    BY <1>5, <1>6, <2>3, Zenon
  <2>5. k - 1 \in 0..n /\ ~(k <= k - 1) /\ k \in 1..n
    BY <1>1, <2>3, <2>4
  <2>6. g[k - 1] \in Seq(Nat)
    BY <2>2, <2>5, Zenon
  <2>7. g[k] = g[k - 1] \o ss[k] /\ ss[k] \in Seq(Nat)
    BY <1>1, <1>6, <2>5, Zenon
  <2> QED
    BY <2>3, <2>6, <2>7
<1>8. \A i \in 0..n : g[i] \in Seq(Nat)
  BY <1>7, Zenon
<1>9. FlatRows(g, ss)
  BY <1>3, <1>6, <1>8, Zenon DEF FlatRows, n
<1> QED
  BY <1>9

\* The concatenation of sequences of numbers is one.
LEMMA FlatType ==
  ASSUME NEW ss \in Seq(Seq(Nat))
  PROVE  Flat(ss) \in Seq(Nat)
<1>1. PICK g : FlatRows(g, ss)
  BY FlatTable
<1>2. Len(ss) \in 0..Len(ss)
  OBVIOUS
<1> QED
  BY <1>1, <1>2, Zenon DEF FlatRows

\* The bytes of labels, of a record and of a message are sequences of numbers.
LEMMA ConcatType ==
  ASSUME NEW s \in Seq(Nat), NEW t \in Seq(Nat)
  PROVE  s \o t \in Seq(Nat)
OBVIOUS

LEMMA U16Type ==
  ASSUME NEW n \in Nat
  PROVE  U16(n) \in Seq(Nat) /\ Len(U16(n)) = 2
BY DEF U16

LEMMA BytesType ==
  ASSUME NEW s \in Seq(0..255)
  PROVE  s \in Seq(Nat) /\ Len(s) \in Nat
<1>1. 0..255 \subseteq Nat
  OBVIOUS
<1>2. s \in Seq(Nat)
  BY <1>1, SeqMonotonic, Zenon
<1> QED
  BY <1>2, LenProperties, Zenon

LEMMA LabelBytesType ==
  ASSUME NEW labels \in Seq(Labels)
  PROVE  LabelBytes(labels) \in Seq(Nat)
<1> DEFINE lb(i) == IF labels[i] = <<>> THEN <<>> ELSE <<Len(labels[i])>> \o labels[i]
<1>1. \A i \in 1..Len(labels) : labels[i] \in Seq(Nat) /\ Len(labels[i]) \in Nat
  <2>1. \A i \in 1..Len(labels) : labels[i] \in Seq(0..255)
    BY DEF Labels
  <2> QED
    BY <2>1, BytesType, Zenon
<1>2. \A i \in 1..Len(labels) : <<Len(labels[i])>> \in Seq(Nat)
  BY <1>1
<1>3. <<>> \in Seq(Nat)
  OBVIOUS
<1>4. \A i \in 1..Len(labels) : lb(i) \in Seq(Nat)
  BY <1>1, <1>2, <1>3, ConcatType, Zenon
<1>5. Len(labels) \in Nat
  OBVIOUS
<1> HIDE DEF lb
<1>6. [i \in 1..Len(labels) |-> lb(i)] \in Seq(Seq(Nat))
  BY <1>4, <1>5
<1>7. Flat([i \in 1..Len(labels) |-> lb(i)]) \in Seq(Nat)
  BY <1>6, FlatType
<1> QED
  BY <1>7 DEF LabelBytes, lb

LEMMA RecordBytesType ==
  ASSUME NEW r \in Records
  PROVE  RecordBytes(r) \in Seq(Nat)
<1>1. /\ r.name \in DomainNames /\ r.rtype \in Nat /\ r.data \in Seq(Nat)
      /\ Len(r.data) \in Nat
  <2>1. r.name \in DomainNames /\ r.rtype \in Nat /\ r.data \in Seq(0..255)
    BY Zenon DEF Records
  <2>2. r.rtype \in Nat
    BY <2>1
  <2> QED
    BY <2>1, <2>2, BytesType, Zenon
<1>2. r.name.labels \in Seq(Labels)
  BY <1>1 DEF DomainNames
<1>3. LabelBytes(r.name.labels) \in Seq(Nat)
  BY <1>2, LabelBytesType
<1>4. <<192, 12>> \in Seq(Nat) /\ <<0>> \in Seq(Nat) /\ <<0, 0, 0, 60>> \in Seq(Nat) /\ 1 \in Nat
  OBVIOUS
<1>5. NameBytes(r.name) \in Seq(Nat)
  BY <1>3, <1>4, ConcatType, Zenon DEF NameBytes
<1>6. /\ U16(r.rtype) \in Seq(Nat) /\ U16(1) \in Seq(Nat)
      /\ U16(Len(r.data)) \in Seq(Nat)
  BY <1>1, <1>4, U16Type, Zenon
<1> QED
  BY <1>1, <1>4, <1>5, <1>6, ConcatType, Zenon DEF RecordBytes

\* The flags of a reply, and the RCODE read back from them.
LEMMA FlagBytes ==
  ASSUME NEW c \in 0..15
  PROVE  LET flags == <<129, 128 + c>> IN
         flags \in Seq(Nat) /\ Len(flags) = 2 /\ flags[2] = 128 + c /\ (128 + c) % 16 = c
<1>1. 128 + c \in Nat
  OBVIOUS
<1> DEFINE d == 128 + c
<1>2. d % 16 = c
  OBVIOUS
<1> HIDE DEF d
<1>3. d \in Nat
  BY <1>1 DEF d
<1>4. <<129, d>> \in Seq(Nat) /\ Len(<<129, d>>) = 2 /\ <<129, d>>[2] = d
  BY <1>3
<1> QED
  BY <1>2, <1>4 DEF d

LEMMA ReplyBytesType ==
  ASSUME NEW m \in Messages
  PROVE  ReplyBytes(m) \in Seq(Nat)
<1>1. /\ m.id \in Nat /\ m.rcode \in 0..15 /\ m.labels \in Seq(Labels)
      /\ m.answers \in Seq(Records)
  BY DEF Messages
<1> DEFINE flags == <<129, 128 + m.rcode>>
<1>2. /\ flags \in Seq(Nat) /\ <<0>> \in Seq(Nat) /\ <<>> \in Seq(Nat)
      /\ 0 \in Nat /\ 1 \in Nat /\ Len(m.answers) \in Nat
  <2>1. flags \in Seq(Nat)
    BY <1>1, FlagBytes
  <2> HIDE DEF flags
  <2> QED
    BY <1>1, <2>1
<1> HIDE DEF flags
<1>3. LabelBytes(m.labels) \in Seq(Nat)
  BY <1>1, LabelBytesType
<1>4. U16(0) \in Seq(Nat) /\ U16(1) \in Seq(Nat) /\ U16(m.id) \in Seq(Nat)
  BY <1>1, <1>2, U16Type, Zenon
<1>5. U16(Len(m.answers)) \in Seq(Nat) /\ U16(IF m.echo THEN 1 ELSE 0) \in Seq(Nat)
  BY <1>2, U16Type, Zenon
<1>6. QuestionBytes(m.labels) \in Seq(Nat)
  BY <1>2, <1>3, <1>4, ConcatType, Zenon DEF QuestionBytes
<1>7. (IF m.echo THEN QuestionBytes(m.labels) ELSE <<>>) \in Seq(Nat)
  BY <1>2, <1>6, Zenon
<1>8. ReplyHead(m) \in Seq(Nat)
  <2> DEFINE start == U16(m.id) \o flags \o U16(IF m.echo THEN 1 ELSE 0)
             counts == start \o U16(Len(m.answers)) \o U16(0) \o U16(0)
  <2>1. start \in Seq(Nat)
    BY <1>2, <1>4, <1>5, ConcatType, Zenon
  <2> HIDE DEF start
  <2>2. counts \in Seq(Nat)
    BY <1>4, <1>5, <2>1, ConcatType, Zenon
  <2> HIDE DEF counts
  <2>3. counts \o (IF m.echo THEN QuestionBytes(m.labels) ELSE <<>>) \in Seq(Nat)
    BY <1>7, <2>2, ConcatType, Zenon
  <2>4. ReplyHead(m) = counts \o (IF m.echo THEN QuestionBytes(m.labels) ELSE <<>>)
    BY Zenon DEF ReplyHead, counts, start, flags
  <2> QED
    BY <2>3, <2>4, Zenon
<1>9. \A i \in 1..Len(m.answers) : m.answers[i] \in Records
  BY <1>1
<1>10. \A i \in 1..Len(m.answers) : RecordBytes(m.answers[i]) \in Seq(Nat)
  BY <1>9, RecordBytesType, Zenon
<1>11. [i \in 1..Len(m.answers) |-> RecordBytes(m.answers[i])] \in Seq(Seq(Nat))
  BY <1>2, <1>10
<1>12. Flat([i \in 1..Len(m.answers) |-> RecordBytes(m.answers[i])]) \in Seq(Nat)
  BY <1>11, FlatType
<1> QED
  BY <1>8, <1>12, ConcatType, Zenon DEF ReplyBytes

-----------------------------------------------------------------------------
\* Cutting a buffer keeps its first bytes, and all of one that is short enough.
LEMMA CutKeeps ==
  ASSUME NEW s \in Seq(Nat), NEW n \in Nat
  PROVE  /\ Cut(s, n) \in Seq(Nat)
         /\ Len(Cut(s, n)) = IF n < Len(s) THEN n ELSE Len(s)
         /\ \A i \in 1..Len(Cut(s, n)) : Cut(s, n)[i] = s[i]
<1> DEFINE k == IF n < Len(s) THEN n ELSE Len(s)
<1>1. k \in Nat /\ k <= Len(s) /\ Cut(s, n) = SubSeq(s, 1, k)
  BY DEF Cut
<1>2. \A i \in 1..k : s[i] \in Nat
  BY <1>1
<1>3. 1 \in Int /\ k \in Int /\ k - 1 + 1 = k /\ \A i \in 1..k : 1 + i - 1 = i
  BY <1>1
<1> HIDE DEF k
<1>4. /\ SubSeq(s, 1, k) \in Seq(Nat)
      /\ Len(SubSeq(s, 1, k)) = IF 1 <= k THEN k - 1 + 1 ELSE 0
      /\ \A i \in 1..(k - 1 + 1) : SubSeq(s, 1, k)[i] = s[1 + i - 1]
  BY <1>2, <1>3, SubSeqProperties
<1>5. Len(SubSeq(s, 1, k)) = k
  BY <1>1, <1>4
<1>6. \A i \in 1..k : SubSeq(s, 1, k)[i] = s[i]
  BY <1>3, <1>4, Zenon
<1> QED
  BY <1>1, <1>4, <1>5, <1>6, Zenon DEF k

LEMMA ConcatFacts ==
  ASSUME NEW s \in Seq(Nat), NEW t \in Seq(Nat)
  PROVE  /\ s \o t \in Seq(Nat)
         /\ Len(s \o t) = Len(s) + Len(t)
         /\ \A i \in 1..Len(s) : (s \o t)[i] = s[i]
         /\ t # <<>> => (s \o t)[Len(s) + 1] = t[1]
OBVIOUS

LEMMA CutWhole ==
  ASSUME NEW s \in Seq(Nat), NEW n \in Nat, Len(s) <= n
  PROVE  Cut(s, n) = s
<1>1. Cut(s, n) = SubSeq(s, 1, Len(s))
  BY DEF Cut
<1> QED
  BY <1>1, SubSeqFull, Zenon

\* What follows a header is what was put behind it.
LEMMA FromConcat ==
  ASSUME NEW b \in Seq(Nat), NEW p \in Seq(Nat)
  PROVE  From(b \o p, Len(b)) = p
<1>1. b \o p \in Seq(Nat) /\ Len(b \o p) = Len(b) + Len(p) /\ Len(b) \in Nat /\ Len(p) \in Nat
  OBVIOUS
<1>2. From(b \o p, Len(b)) = SubSeq(b \o p, Len(b) + 1, Len(b) + Len(p))
  BY <1>1 DEF From
<1>3. CASE p = <<>>
  <2>1. Len(p) = 0
    BY <1>3
  <2>2. Len(b) + 1 \in Int /\ Len(b) + Len(p) \in Int /\ Len(b) + Len(p) < Len(b) + 1
    BY <1>1, <2>1
  <2> QED
    BY <1>2, <1>3, <2>2, SubSeqEmpty, Zenon
<1>4. CASE p # <<>>
  <2>1. Len(p) > 0
    BY <1>4
  <2>2. /\ Len(b) + 1 \in Len(b) + 1..Len(b) + Len(p)
        /\ Len(b) + Len(p) \in Len(b) + 1..Len(b) + Len(p)
    BY <1>1, <2>1
  <2>3. SubSeq(b \o p, Len(b) + 1, Len(b) + Len(p))
          = SubSeq(p, Len(b) + 1 - Len(b), Len(b) + Len(p) - Len(b))
    BY <2>2, SubSeqOfConcat2
  <2>4. Len(b) + 1 - Len(b) = 1 /\ Len(b) + Len(p) - Len(b) = Len(p)
    BY <1>1
  <2> QED
    BY <1>2, <2>3, <2>4, SubSeqFull, Zenon
<1> QED
  BY <1>3, <1>4

\* The bytes of a header and where they are.
LEMMA AddrBytesLen ==
  ASSUME NEW dst, IsDst(dst)
  PROVE  /\ AddrBytes(dst) \in Seq(Nat)
         /\ dst.kind = "v4" => Len(AddrBytes(dst)) = 4
         /\ dst.kind = "v6" => Len(AddrBytes(dst)) = 16
         /\ dst.kind = "domain" => /\ Len(dst.addr) \in Nat /\ Len(dst.addr) <= 255
                                   /\ Len(AddrBytes(dst)) = 1 + Len(dst.addr)
                                   /\ AddrBytes(dst)[1] = Len(dst.addr)
<1>1. dst.addr \in Seq(Nat) /\ Len(dst.addr) \in Nat
  BY BytesType DEF IsDst
<1>2. CASE dst.kind = "domain"
  <2>1. AddrBytes(dst) = <<Len(dst.addr)>> \o dst.addr
    BY <1>2 DEF AddrBytes
  <2>2. /\ <<Len(dst.addr)>> \o dst.addr \in Seq(Nat)
        /\ Len(<<Len(dst.addr)>> \o dst.addr) = 1 + Len(dst.addr)
        /\ (<<Len(dst.addr)>> \o dst.addr)[1] = Len(dst.addr)
    BY <1>1
  <2>3. Len(dst.addr) <= 255
    BY <1>2, Zenon DEF IsDst
  <2> QED
    BY <1>1, <1>2, <2>1, <2>2, <2>3, Zenon
<1>3. CASE dst.kind # "domain"
  BY <1>1, <1>3 DEF AddrBytes, IsDst
<1> QED
  BY <1>2, <1>3

\* Length of an encoded header.
HeaderLen(dst) == 6 + Len(AddrBytes(dst))

LEMMA HeaderLens ==
  ASSUME NEW dst, IsDst(dst)
  PROVE  /\ HeaderLen(dst) \in Nat /\ HeaderLen(dst) >= 7 /\ HeaderLen(dst) <= 262
         /\ \/ dst.kind = "v4" /\ HeaderLen(dst) = 10
            \/ dst.kind = "v6" /\ HeaderLen(dst) = 22
            \/ dst.kind = "domain" /\ HeaderLen(dst) = 7 + Len(dst.addr)
<1>1. dst.kind \in {"v4", "v6", "domain"}
  BY DEF IsDst, Atyp
<1> DEFINE n == Len(AddrBytes(dst))
           d == Len(dst.addr)
<1>2. /\ dst.kind = "v4" => n = 4
      /\ dst.kind = "v6" => n = 16
      /\ dst.kind = "domain" => d \in Nat /\ d <= 255 /\ n = 1 + d
  BY AddrBytesLen, Zenon
<1> HIDE DEF n, d
<1>3. /\ n \in Nat /\ n >= 1 /\ n <= 256
      /\ \/ dst.kind = "v4" /\ n = 4
         \/ dst.kind = "v6" /\ n = 16
         \/ dst.kind = "domain" /\ n = 1 + d
  BY <1>1, <1>2
<1>4. d \in Nat \/ dst.kind # "domain"
  BY <1>2
<1>5. HeaderLen(dst) = 6 + n
  BY DEF HeaderLen, n
<1>6. HeaderLen(dst) \in Nat /\ HeaderLen(dst) >= 7 /\ HeaderLen(dst) <= 262
  BY <1>3, <1>5
<1>7. \/ dst.kind = "v4" /\ HeaderLen(dst) = 10
      \/ dst.kind = "v6" /\ HeaderLen(dst) = 22
      \/ dst.kind = "domain" /\ HeaderLen(dst) = 7 + d
  BY <1>3, <1>4, <1>5
<1> QED
  BY <1>6, <1>7, Zenon DEF d

LEMMA EncodedHeader ==
  ASSUME NEW dst, IsDst(dst)
  PROVE  /\ EncodeHeader(dst) \in Seq(Nat)
         /\ Len(EncodeHeader(dst)) = HeaderLen(dst)
         /\ EncodeHeader(dst)[3] = 0
         /\ EncodeHeader(dst)[4] = Atyp[dst.kind]
         /\ dst.kind = "domain" => EncodeHeader(dst)[5] = Len(dst.addr)
<1> DEFINE t == Atyp[dst.kind]
           f == <<0, 0, 0, t>>
           a == AddrBytes(dst)
           u == U16(dst.port)
<1>1. dst.kind \in {"v4", "v6", "domain"}
  BY DEF IsDst, Atyp
<1>2. t \in Nat
  BY <1>1 DEF Atyp
<1>3. a \in Seq(Nat) /\ Len(a) >= 1 /\ (dst.kind = "domain" => a[1] = Len(dst.addr))
  <2>1. a \in Seq(Nat) /\ (dst.kind = "domain" => a[1] = Len(dst.addr))
    BY AddrBytesLen, Zenon
  <2>2. HeaderLen(dst) \in Nat /\ HeaderLen(dst) >= 7
    BY HeaderLens, Zenon
  <2>3. HeaderLen(dst) = 6 + Len(a)
    BY DEF HeaderLen
  <2> HIDE DEF a
  <2>4. Len(a) \in Nat
    BY <2>1
  <2>5. Len(a) >= 1
    BY <2>2, <2>3, <2>4
  <2> QED
    BY <2>1, <2>5, Zenon
<1>4. dst.port \in Nat
  BY Zenon DEF IsDst
<1>5. u \in Seq(Nat) /\ Len(u) = 2
  BY <1>4, U16Type
<1>6. EncodeHeader(dst) = (f \o a) \o u
  BY DEF EncodeHeader
<1> HIDE DEF t, a, u
<1>7. f \in Seq(Nat) /\ Len(f) = 4 /\ f[3] = 0 /\ f[4] = t
  BY <1>2
<1> HIDE DEF f
<1> DEFINE fa == f \o a
           fau == fa \o u
<1>8. fa \in Seq(Nat) /\ Len(fa) = 4 + Len(a) /\ fa[3] = 0 /\ fa[4] = t /\ fa[5] = a[1]
  <2>1. /\ fa \in Seq(Nat) /\ Len(fa) = Len(f) + Len(a)
        /\ \A i \in 1..Len(f) : fa[i] = f[i]
        /\ a # <<>> => fa[Len(f) + 1] = a[1]
    BY <1>3, <1>7, ConcatFacts, Zenon
  <2>2. a # <<>>
    BY <1>3
  <2> HIDE DEF fa
  <2>3. 3 \in 1..Len(f) /\ 4 \in 1..Len(f) /\ Len(f) + 1 = 5
    BY <1>7
  <2>4. fa[3] = f[3] /\ fa[4] = f[4] /\ fa[5] = a[1]
    BY <2>1, <2>2, <2>3
  <2> QED
    BY <1>7, <2>1, <2>4, Zenon
<1> HIDE DEF fa
<1>9. fau \in Seq(Nat) /\ Len(fau) = 6 + Len(a) /\ fau[3] = 0 /\ fau[4] = t /\ fau[5] = a[1]
  <2>1. /\ fau \in Seq(Nat) /\ Len(fau) = Len(fa) + Len(u)
        /\ \A i \in 1..Len(fa) : fau[i] = fa[i]
    BY <1>5, <1>8, ConcatFacts, Zenon
  <2> HIDE DEF fau
  <2>2. 3 \in 1..Len(fa) /\ 4 \in 1..Len(fa) /\ 5 \in 1..Len(fa)
    BY <1>3, <1>8
  <2>3. fau[3] = fa[3] /\ fau[4] = fa[4] /\ fau[5] = fa[5]
    BY <2>1, <2>2, Zenon
  <2>4. Len(fau) = 6 + Len(a)
    BY <1>3, <1>5, <1>8, <2>1
  <2> QED
    BY <1>8, <2>1, <2>3, <2>4, Zenon
<1>10. EncodeHeader(dst) = fau
  BY <1>6 DEF fa
<1> HIDE DEF fau
<1> QED
  BY <1>3, <1>9, <1>10, Zenon DEF HeaderLen, t, a

\* A buffer with the first bytes of a sound header says where its port is; too
\* short a buffer is an error.
LEMMA PortFound ==
  ASSUME NEW dst, IsDst(dst), NEW buf \in Seq(Nat), Len(buf) >= 5,
         buf[4] = Atyp[dst.kind], dst.kind = "domain" => buf[5] = Len(dst.addr)
  PROVE  PortAt(buf) + 2 = HeaderLen(dst) /\ PortAt(buf) # 0 /\ PortAt(buf) \in Nat
<1>1. Len(buf) \in Nat
  OBVIOUS
<1>2. CASE dst.kind = "v4" /\ HeaderLen(dst) = 10
  <2>1. buf[4] = 1
    BY <1>2 DEF Atyp
  <2>2. PortAt(buf) = 8
    BY <2>1 DEF PortAt
  <2> QED
    BY <1>2, <2>2
<1>3. CASE dst.kind = "v6" /\ HeaderLen(dst) = 22
  <2>1. buf[4] = 4
    BY <1>3 DEF Atyp
  <2>2. PortAt(buf) = 20
    BY <2>1 DEF PortAt
  <2> QED
    BY <1>3, <2>2
<1>4. CASE dst.kind = "domain" /\ HeaderLen(dst) = 7 + Len(dst.addr)
  <2>1. buf[4] = 3 /\ buf[5] = Len(dst.addr) /\ ~(Len(buf) < 5)
    BY <1>1, <1>4 DEF Atyp
  <2>2. PortAt(buf) = 5 + buf[5]
    BY <2>1 DEF PortAt
  <2>3. Len(dst.addr) \in Nat
    BY <1>4, AddrBytesLen
  <2> QED
    BY <1>4, <2>1, <2>2, <2>3
<1> QED
  BY <1>2, <1>3, <1>4, HeaderLens

\* A sound header is decoded to its length, whatever follows it.
LEMMA DecodeSound ==
  ASSUME NEW dst, IsDst(dst), NEW p \in Seq(Nat)
  PROVE  LET buf == EncodeHeader(dst) \o p IN
         /\ buf \in Seq(Nat) /\ Len(buf) = HeaderLen(dst) + Len(p)
         /\ DecodeHeader(buf) = [ok |-> TRUE, len |-> HeaderLen(dst)]
         /\ From(buf, HeaderLen(dst)) = p
<1> DEFINE b == EncodeHeader(dst)
           buf == b \o p
<1>1. /\ b \in Seq(Nat) /\ Len(b) = HeaderLen(dst) /\ b[3] = 0 /\ b[4] = Atyp[dst.kind]
      /\ dst.kind = "domain" => b[5] = Len(dst.addr)
  BY EncodedHeader, Zenon
<1>2. HeaderLen(dst) \in Nat /\ HeaderLen(dst) >= 7
  BY HeaderLens, Zenon
<1> HIDE DEF b
<1>3. From(buf, Len(b)) = p
  BY <1>1, FromConcat, Zenon
<1>4. /\ buf \in Seq(Nat) /\ Len(buf) = Len(b) + Len(p)
      /\ \A i \in 1..Len(b) : buf[i] = b[i]
  BY <1>1, ConcatFacts, Zenon
<1> HIDE DEF buf
<1>5. Len(p) \in Nat /\ 3 \in 1..Len(b) /\ 4 \in 1..Len(b) /\ 5 \in 1..Len(b)
  BY <1>1, <1>2
<1>6. buf[3] = b[3] /\ buf[4] = b[4] /\ buf[5] = b[5]
  BY <1>4, <1>5, Zenon
<1>7. Len(buf) = HeaderLen(dst) + Len(p) /\ Len(buf) >= 7 /\ Len(buf) >= HeaderLen(dst)
  BY <1>1, <1>2, <1>4, <1>5
<1>8. Len(buf) >= 5 /\ Len(buf) \in Nat
  BY <1>4, <1>7
<1>9. PortAt(buf) + 2 = HeaderLen(dst) /\ PortAt(buf) # 0
  BY <1>1, <1>4, <1>6, <1>8, PortFound, Zenon
<1>10. ~(Len(buf) < 4) /\ ~(Len(buf) < PortAt(buf) + 2) /\ ~(buf[3] # 0)
  <2>1. ~(Len(buf) < 4) /\ ~(Len(buf) < HeaderLen(dst))
    BY <1>2, <1>7, <1>8
  <2>2. ~(buf[3] # 0)
    BY <1>1, <1>6, Zenon
  <2> QED
    BY <1>9, <2>1, <2>2, Zenon
<1>11. DecodeHeader(buf) = [ok |-> TRUE, len |-> HeaderLen(dst)]
  BY <1>9, <1>10, Zenon DEF DecodeHeader
<1> QED
  BY <1>1, <1>3, <1>4, <1>7, <1>11, Zenon DEF buf, b

\* A header with FRAG set or of an unknown type is refused, and stays so when
\* a buffer cuts the datagram behind its fourth byte.
BadByte(buf) == buf \in Seq(Nat) /\ Len(buf) >= 4 /\ (buf[3] = 1 \/ buf[4] = 9)

LEMMA BadByteRefused ==
  ASSUME NEW buf, BadByte(buf)
  PROVE  DecodeHeader(buf) = Err
<1>1. CASE buf[3] = 1
  <2>1. buf[3] # 0
    BY <1>1
  <2> QED
    BY <2>1, Zenon DEF DecodeHeader
<1>2. CASE buf[4] = 9
  <2>1. buf[4] # 1 /\ buf[4] # 3 /\ buf[4] # 4
    BY <1>2
  <2>2. PortAt(buf) = 0
    BY <2>1 DEF PortAt
  <2> QED
    BY <2>2, Zenon DEF DecodeHeader
<1> QED
  BY <1>1, <1>2 DEF BadByte

LEMMA BadByteCut ==
  ASSUME NEW buf, BadByte(buf), NEW n \in Nat, n >= 4
  PROVE  BadByte(Cut(buf, n))
<1> DEFINE c == Cut(buf, n)
<1>1. buf \in Seq(Nat) /\ Len(buf) >= 4 /\ (buf[3] = 1 \/ buf[4] = 9)
  BY DEF BadByte
<1>2. /\ c \in Seq(Nat) /\ Len(c) = IF n < Len(buf) THEN n ELSE Len(buf)
      /\ \A i \in 1..Len(c) : c[i] = buf[i]
  BY <1>1, CutKeeps, Zenon
<1> HIDE DEF c
<1>3. Len(c) >= 4 /\ 3 \in 1..Len(c) /\ 4 \in 1..Len(c)
  BY <1>1, <1>2
<1>4. c[3] = buf[3] /\ c[4] = buf[4]
  BY <1>2, <1>3, Zenon
<1> QED
  BY <1>1, <1>2, <1>3, <1>4, Zenon DEF BadByte, c

\* The two faults that change a byte, whatever follows the header.
LEMMA ChangedByte ==
  ASSUME NEW dst, IsDst(dst), NEW p \in Seq(Nat), NEW i, NEW v,
         (i = 3 /\ v = 1) \/ (i = 4 /\ v = 9)
  PROVE  BadByte([EncodeHeader(dst) EXCEPT ![i] = v] \o p)
<1> DEFINE b == EncodeHeader(dst)
           e == [b EXCEPT ![i] = v]
           buf == e \o p
<1>1. b \in Seq(Nat) /\ Len(b) = HeaderLen(dst)
  BY EncodedHeader, Zenon
<1>2. HeaderLen(dst) \in Nat /\ HeaderLen(dst) >= 7
  BY HeaderLens, Zenon
<1> HIDE DEF b
<1>3. i \in 1..Len(b) /\ v \in Nat
  BY <1>1, <1>2
<1>4. /\ e \in Seq(Nat) /\ Len(e) = Len(b)
      /\ \A j \in 1..Len(b) : e[j] = IF j = i THEN v ELSE b[j]
  BY <1>1, <1>3, ExceptSeq
<1>5. e[i] = v
  BY <1>3, <1>4, Zenon
<1> HIDE DEF e
<1>6. /\ buf \in Seq(Nat) /\ Len(buf) = Len(e) + Len(p)
      /\ \A j \in 1..Len(e) : buf[j] = e[j]
  BY <1>4, ConcatFacts, Zenon
<1> HIDE DEF buf
<1>7. buf[i] = v
  BY <1>3, <1>4, <1>5, <1>6
<1>8. Len(buf) >= 4
  <2>1. Len(p) \in Nat
    OBVIOUS
  <2> QED
    BY <1>1, <1>2, <1>4, <1>6, <2>1
<1> QED
  BY <1>6, <1>7, <1>8, Zenon DEF BadByte, buf, e, b

\* The two faults that cut the header: before its last byte, and behind ATYP.
LEMMA CutShort ==
  ASSUME NEW dst, IsDst(dst)
  PROVE  LET b == EncodeHeader(dst)
             buf == Cut(b, Len(b) - 1)
         IN  /\ buf \in Seq(Nat) /\ Len(buf) >= 4 /\ Len(buf) <= 262
             /\ DecodeHeader(buf) = Err
<1> DEFINE b == EncodeHeader(dst)
           n == Len(b) - 1
           buf == Cut(b, n)
<1>1. /\ b \in Seq(Nat) /\ Len(b) = HeaderLen(dst) /\ b[4] = Atyp[dst.kind]
      /\ dst.kind = "domain" => b[5] = Len(dst.addr)
  BY EncodedHeader, Zenon
<1>2. HeaderLen(dst) \in Nat /\ HeaderLen(dst) >= 7 /\ HeaderLen(dst) <= 262
  BY HeaderLens, Zenon
<1> HIDE DEF b
<1>3. n \in Nat /\ n < Len(b) /\ n >= 6 /\ n <= 261 /\ n < HeaderLen(dst)
  BY <1>1, <1>2
<1> HIDE DEF n
<1>4. buf \in Seq(Nat) /\ Len(buf) = n /\ \A i \in 1..Len(buf) : buf[i] = b[i]
  BY <1>1, <1>3, CutKeeps, Zenon
<1> HIDE DEF buf
<1>5. 4 \in 1..Len(buf) /\ 5 \in 1..Len(buf) /\ Len(buf) >= 5
  BY <1>3, <1>4
<1>6. buf[4] = b[4] /\ buf[5] = b[5]
  BY <1>4, <1>5, Zenon
<1>7. PortAt(buf) + 2 = HeaderLen(dst)
  BY <1>1, <1>4, <1>5, <1>6, PortFound, Zenon
<1>8. Len(buf) < PortAt(buf) + 2
  BY <1>3, <1>4, <1>7
<1>9. DecodeHeader(buf) = Err
  BY <1>8, Zenon DEF DecodeHeader
<1>10. Len(buf) >= 4 /\ Len(buf) <= 262
  BY <1>3, <1>4
<1> QED
  BY <1>4, <1>9, <1>10, Zenon DEF buf, n, b

LEMMA CutStub ==
  ASSUME NEW dst, IsDst(dst)
  PROVE  LET buf == Cut(EncodeHeader(dst), 4)
         IN  /\ buf \in Seq(Nat) /\ Len(buf) >= 4 /\ Len(buf) <= 262
             /\ DecodeHeader(buf) = Err
<1> DEFINE b == EncodeHeader(dst)
           buf == Cut(b, 4)
<1>1. b \in Seq(Nat) /\ Len(b) = HeaderLen(dst) /\ b[4] = Atyp[dst.kind]
  BY EncodedHeader, Zenon
<1>2. HeaderLen(dst) \in Nat /\ HeaderLen(dst) >= 7
  BY HeaderLens, Zenon
<1> HIDE DEF b
<1>3. 4 \in Nat /\ 4 < Len(b) /\ 4 \in 1..4
  BY <1>1, <1>2
<1>4. buf \in Seq(Nat) /\ Len(buf) = 4 /\ buf[4] = b[4]
  <2>1. /\ buf \in Seq(Nat) /\ Len(buf) = IF 4 < Len(b) THEN 4 ELSE Len(b)
        /\ \A i \in 1..Len(buf) : buf[i] = b[i]
    BY <1>1, <1>3, CutKeeps, Zenon
  <2> HIDE DEF buf
  <2>2. Len(buf) = 4
    BY <1>3, <2>1
  <2> QED
    BY <1>3, <2>1, <2>2
<1> HIDE DEF buf
<1>5. dst.kind \in {"v4", "v6", "domain"}
  BY DEF IsDst, Atyp
<1>6. buf[4] \in {1, 3, 4}
  BY <1>1, <1>4, <1>5 DEF Atyp
<1>7. PortAt(buf) \in {0, 8, 20}
  BY <1>4, <1>6 DEF PortAt
<1>8. PortAt(buf) = 0 \/ Len(buf) < PortAt(buf) + 2
  BY <1>4, <1>7
<1>9. DecodeHeader(buf) = Err
  BY <1>8, Zenon DEF DecodeHeader
<1>10. Len(buf) >= 4 /\ Len(buf) <= 262
  BY <1>4
<1> QED
  BY <1>4, <1>9, <1>10, Zenon DEF buf, b

\* A datagram as a relay frames it: nothing of a faulty one is decoded, cut by
\* a buffer that holds any header or not.
LEMMA FaultRefused ==
  ASSUME NEW h, IsHeader(h), h.fault # "none", NEW p \in Seq(Nat),
         NEW n \in Nat, n >= 262
  PROVE  LET d == Relayed(h, p) IN
         /\ d \in Seq(Nat) /\ Len(d) >= 4
         /\ DecodeHeader(d) = Err
         /\ DecodeHeader(Cut(d, n)) = Err
<1> DEFINE d == Relayed(h, p)
           b == EncodeHeader(h.dst)
<1>1. IsDst(h.dst) /\ h.fault \in {"frag", "type", "short", "stub"}
  BY DEF IsHeader
<1>2. ASSUME BadByte(d)
      PROVE  /\ d \in Seq(Nat) /\ Len(d) >= 4
             /\ DecodeHeader(d) = Err /\ DecodeHeader(Cut(d, n)) = Err
  <2> HIDE DEF d
  <2>1. n >= 4
    OBVIOUS
  <2>2. BadByte(Cut(d, n))
    BY <1>2, <2>1, BadByteCut, Zenon
  <2>3. d \in Seq(Nat) /\ Len(d) >= 4
    BY <1>2, Zenon DEF BadByte
  <2> QED
    BY <1>2, <2>2, <2>3, BadByteRefused, Zenon
<1>3. ASSUME d \in Seq(Nat), Len(d) >= 4, Len(d) <= 262, DecodeHeader(d) = Err
      PROVE  /\ d \in Seq(Nat) /\ Len(d) >= 4
             /\ DecodeHeader(d) = Err /\ DecodeHeader(Cut(d, n)) = Err
  <2> HIDE DEF d
  <2>1. Len(d) <= n
    BY <1>3
  <2>2. Cut(d, n) = d
    BY <1>3, <2>1, CutWhole, Zenon
  <2> QED
    BY <1>3, <2>2, Zenon
<1>4. CASE h.fault = "frag"
  <2>1. d = [b EXCEPT ![3] = 1] \o p
    BY <1>4 DEF Relayed, HeaderBytes
  <2>2. BadByte([b EXCEPT ![3] = 1] \o p)
    BY <1>1, ChangedByte
  <2> QED
    BY <1>2, <2>1, <2>2, Zenon
<1>5. CASE h.fault = "type"
  <2>1. d = [b EXCEPT ![4] = 9] \o p
    BY <1>5 DEF Relayed, HeaderBytes
  <2>2. BadByte([b EXCEPT ![4] = 9] \o p)
    BY <1>1, ChangedByte
  <2> QED
    BY <1>2, <2>1, <2>2, Zenon
<1>6. CASE h.fault = "short"
  <2>1. d = Cut(b, Len(b) - 1)
    BY <1>6 DEF Relayed, HeaderBytes
  <2> QED
    BY <1>1, <1>3, <2>1, CutShort, Zenon
<1>7. CASE h.fault = "stub"
  <2>1. d = Cut(b, 4)
    BY <1>7 DEF Relayed, HeaderBytes
  <2> QED
    BY <1>1, <1>3, <2>1, CutStub, Zenon
<1> QED
  BY <1>1, <1>4, <1>5, <1>6, <1>7

\* What recv and poll_recv hand up of a relayed payload that fits.
Handed(h, p) == IF h.fault = "none" THEN [ok |-> TRUE, payload |-> p] ELSE Err

LEMMA SoundWrap ==
  ASSUME NEW h, IsHeader(h), h.fault = "none", NEW p \in Seq(Nat)
  PROVE  LET d == Relayed(h, p) IN
         /\ d \in Seq(Nat) /\ Len(d) = HeaderLen(h.dst) + Len(p)
         /\ DecodeHeader(d) = [ok |-> TRUE, len |-> HeaderLen(h.dst)]
         /\ From(d, HeaderLen(h.dst)) = p
<1>1. IsDst(h.dst)
  BY DEF IsHeader
<1>2. Relayed(h, p) = EncodeHeader(h.dst) \o p
  BY DEF Relayed, Wrap
<1> QED
  BY <1>1, <1>2, DecodeSound, Zenon

LEMMA SocksRecvIntact ==
  ASSUME NEW h, IsHeader(h), NEW p \in Seq(Nat), NEW cap \in Nat, Len(p) + 6 <= cap
  PROVE  SocksRecv(Relayed(h, p), cap) = Handed(h, p)
<1> DEFINE d == Relayed(h, p)
           k == cap + 256
           hdr == DecodeHeader(Cut(d, k))
<1>1. SocksRecv(d, cap) = IF ~hdr.ok THEN Err
                           ELSE [ok |-> TRUE, payload |-> Cut(From(Cut(d, k), hdr.len), cap)]
  BY DEF SocksRecv
<1>2. k \in Nat /\ k >= 262 /\ Len(p) <= cap
  <2>1. Len(p) \in Nat
    OBVIOUS
  <2> QED
    BY <2>1
<1>3. CASE h.fault = "none"
  <2>1. /\ d \in Seq(Nat) /\ Len(d) = HeaderLen(h.dst) + Len(p)
        /\ DecodeHeader(d) = [ok |-> TRUE, len |-> HeaderLen(h.dst)]
        /\ From(d, HeaderLen(h.dst)) = p
    BY <1>3, SoundWrap, Zenon
  <2>2. HeaderLen(h.dst) \in Nat /\ HeaderLen(h.dst) <= 262
    BY HeaderLens, Zenon DEF IsHeader
  <2>3. Len(d) <= k
    <3> HIDE DEF d
    <3>1. Len(p) \in Nat
      OBVIOUS
    <3> QED
      BY <2>1, <2>2, <3>1
  <2>4. Cut(p, cap) = p
    BY <1>2, CutWhole, Zenon
  <2> HIDE DEF d, k
  <2>5. Cut(d, k) = d
    BY <1>2, <2>1, <2>3, CutWhole, Zenon
  <2>6. hdr.ok = TRUE /\ hdr.len = HeaderLen(h.dst)
    BY <2>1, <2>5
  <2> HIDE DEF hdr
  <2>7. SocksRecv(d, cap) = [ok |-> TRUE, payload |-> p]
    BY <1>1, <2>1, <2>4, <2>5, <2>6, Zenon
  <2> QED
    BY <1>3, <2>7, Zenon DEF Handed, d
<1>4. CASE h.fault # "none"
  <2> HIDE DEF k
  <2>1. hdr = Err
    BY <1>2, <1>4, FaultRefused, Zenon
  <2> HIDE DEF hdr, d
  <2>2. ~hdr.ok
    BY <2>1 DEF Err
  <2>3. SocksRecv(d, cap) = Err
    BY <1>1, <2>2, Zenon
  <2> QED
    BY <1>4, <2>3, Zenon DEF Handed, d
<1> QED
  BY <1>3, <1>4

LEMMA PollRecvIntact ==
  ASSUME NEW h, IsHeader(h), NEW p \in Seq(Nat), NEW cap \in Nat, Len(p) <= cap
  PROVE  PollRecv(Relayed(h, p), cap) = Handed(h, p)
<1> DEFINE d == Relayed(h, p)
           hdr == DecodeHeader(d)
<1>1. d # <<>> => PollRecv(d, cap) = IF ~hdr.ok THEN Err
                    ELSE [ok |-> TRUE, payload |-> Cut(From(d, hdr.len), cap)]
  BY Zenon DEF PollRecv
<1>2. CASE h.fault = "none"
  <2>1. /\ d \in Seq(Nat) /\ Len(d) = HeaderLen(h.dst) + Len(p)
        /\ hdr = [ok |-> TRUE, len |-> HeaderLen(h.dst)]
        /\ From(d, HeaderLen(h.dst)) = p
    BY <1>2, SoundWrap, Zenon
  <2>2. HeaderLen(h.dst) \in Nat /\ HeaderLen(h.dst) >= 7
    BY HeaderLens, Zenon DEF IsHeader
  <2>3. Cut(p, cap) = p
    BY CutWhole, Zenon
  <2> HIDE DEF d, hdr
  <2>4. d # <<>>
    <3>1. Len(p) \in Nat
      OBVIOUS
    <3>2. Len(d) >= 7
      BY <2>1, <2>2, <3>1
    <3> QED
      BY <3>2
  <2>5. hdr.ok = TRUE /\ hdr.len = HeaderLen(h.dst)
    BY <2>1
  <2>6. PollRecv(d, cap) = [ok |-> TRUE, payload |-> p]
    BY <1>1, <2>1, <2>3, <2>4, <2>5, Zenon
  <2> QED
    BY <1>2, <2>6, Zenon DEF Handed, d
<1>3. CASE h.fault # "none"
  <2>1. 262 \in Nat /\ 262 >= 262
    OBVIOUS
  <2>2. d \in Seq(Nat) /\ Len(d) >= 4 /\ hdr = Err
    BY <1>3, <2>1, FaultRefused, Zenon
  <2> HIDE DEF hdr, d
  <2>3. ~hdr.ok /\ d # <<>>
    BY <2>2 DEF Err
  <2>4. PollRecv(d, cap) = Err
    BY <1>1, <2>3, Zenon
  <2> QED
    BY <1>3, <2>4, Zenon DEF Handed, d
<1> QED
  BY <1>2, <1>3

\* RelayedIntact is inductive: the two receiving steps establish it, and every
\* other step forgets the datagram or leaves it alone.
LEMMA DnsRecvRelayed == DnsRecv => RelayedIntact'
<1> SUFFICES ASSUME DnsRecv, opts.proxy PROVE RelayedIntact'
  <2>1. DnsRecv => opts' = opts
    BY DEF DnsRecv, Exit
  <2> QED
    BY <2>1 DEF RelayedIntact
<1>1. PICK r \in Replies, i \in Ids :
        LET m == [r.msg EXCEPT !.id = i] IN
        /\ read' = [from |-> "dns", msg |-> m, size |-> r.size, hdr |-> r.hdr]
        /\ got' = Recv(r.hdr, Cut(ReplyBytes(m), r.size))
  BY DEF DnsRecv
<1> DEFINE m == [r.msg EXCEPT !.id = i]
           bytes == ReplyBytes(m)
           p == Cut(bytes, r.size)
<1>2. IsHeader(r.hdr) /\ r.msg \in Messages /\ r.size \in Nat
  BY DatagramAssumption
<1>3. i \in Nat
  BY ProbeAssumption
<1>4. m \in Messages
  BY <1>2, <1>3, ZenonT(60) DEF Messages
<1>5. bytes \in Seq(Nat)
  BY <1>4, ReplyBytesType, Zenon
<1>6. got' = SocksRecv(Relayed(r.hdr, p), 1500)
  BY <1>1 DEF Recv
<1>7. /\ read'.from = "dns" /\ read'.hdr = r.hdr
      /\ Cut(ReplyBytes(read'.msg), read'.size) = p
  BY <1>1
<1> HIDE DEF bytes, m
<1>8. p \in Seq(Nat) /\ Len(p) = IF r.size < Len(bytes) THEN r.size ELSE Len(bytes)
  BY <1>2, <1>5, CutKeeps, Zenon
<1> HIDE DEF p
<1>9. Len(p) + 6 <= 1500 /\ 1500 \in Nat
  <2>1. r.size <= 1494
    BY DatagramAssumption
  <2>2. Len(bytes) \in Nat
    BY <1>5
  <2>3. Len(p) <= 1494 /\ Len(p) \in Nat
    BY <1>2, <1>8, <2>1, <2>2
  <2> QED
    BY <2>3
<1>10. got' = Handed(r.hdr, p)
  BY <1>2, <1>6, <1>8, <1>9, SocksRecvIntact
<1> QED
  BY <1>7, <1>10 DEF RelayedIntact, Handed

LEMMA QuicRecvRelayed == QuicRecv => RelayedIntact'
<1> SUFFICES ASSUME QuicRecv PROVE RelayedIntact'
  OBVIOUS
<1>1. PICK h \in Headers, p \in {<<>>, <<7, 8>>} :
        LET r == PollRecv(Relayed(h, p), 1500) IN
        \/ got' = r /\ read' = [from |-> "target", payload |-> p, hdr |-> h]
        \/ read' = NoDatagram
  BY DEF QuicRecv, EndpointGone
<1>2. CASE read' = NoDatagram
  BY <1>2 DEF RelayedIntact
<1>3. CASE /\ got' = PollRecv(Relayed(h, p), 1500)
           /\ read' = [from |-> "target", payload |-> p, hdr |-> h]
  <2>1. IsHeader(h)
    BY DatagramAssumption
  <2>2. p \in Seq(Nat) /\ Len(p) <= 1500 /\ 1500 \in Nat
    <3>1. CASE p = <<>>
      BY <3>1
    <3>2. CASE p = <<7, 8>>
      BY <3>2
    <3> QED
      BY <3>1, <3>2
  <2>3. got' = Handed(h, p)
    BY <1>3, <2>1, <2>2, PollRecvIntact
  <2>4. read'.from = "target" /\ read'.hdr = h /\ read'.payload = p
    BY <1>3
  <2> QED
    BY <2>3, <2>4 DEF RelayedIntact, Handed
<1> QED
  BY <1>1, <1>2, <1>3

\* A step that hands up no datagram: it forgets the last one or leaves it alone.
HandsUpNothing == UNCHANGED <<opts, read, got>> \/ read' = NoDatagram

LEMMA NothingRelayed == RelayedIntact /\ HandsUpNothing => RelayedIntact'
BY DEF RelayedIntact, HandsUpNothing

LEMMA OtherSteps ==
  ASSUME Next, ~DnsRecv, ~QuicRecv
  PROVE  HandsUpNothing
<1>1. CASE Build
  BY <1>1 DEF HandsUpNothing, Build, Exit, cmdVars, netVars
<1>2. CASE ResolveNothing
  BY <1>2 DEF HandsUpNothing, ResolveNothing, netVars
<1>3. CASE ResolveByDns
  BY <1>3 DEF HandsUpNothing, ResolveByDns, Exit, cmdVars, netVars
<1>4. CASE ResolveBySystem
  BY <1>4 DEF HandsUpNothing, ResolveBySystem, Exit, netVars
<1>5. CASE DnsOpenDirect
  BY <1>5 DEF HandsUpNothing, DnsOpenDirect, Exit, cmdVars, netVars
<1>6. CASE DnsOpenSocks
  BY <1>6 DEF HandsUpNothing, DnsOpenSocks, cmdVars, netVars
<1>7. CASE DnsAssociated
  BY <1>7 DEF HandsUpNothing, DnsAssociated, Exit, cmdVars, netVars
<1>8. CASE DnsSend
  BY <1>8 DEF HandsUpNothing, DnsSend, Exit, netVars
<1>9. CASE DnsTimeout
  BY <1>9 DEF HandsUpNothing, DnsTimeout, Exit, netVars
<1>10. CASE ProbesStart
  BY <1>10 DEF HandsUpNothing, ProbesStart
<1>11. CASE ProbeOpenSocks
  BY <1>11 DEF HandsUpNothing, ProbeOpenSocks, cmdVars, netVars
<1>12. CASE ProbeOpenDirect
  BY <1>12 DEF HandsUpNothing, ProbeOpenDirect, ProbeEnds, ProbeResult, EndpointGone, cmdVars, netVars
<1>13. CASE ProbeAssociated
  BY <1>13 DEF HandsUpNothing, ProbeAssociated, cmdVars, netVars
<1>14. CASE ProbeTunnelled
  BY <1>14 DEF HandsUpNothing, ProbeTunnelled, cmdVars, netVars
<1>15. CASE ProbeSocksFails
  BY <1>15 DEF HandsUpNothing, ProbeSocksFails, Exit, ProbeEnds, EndpointGone, netVars
<1>16. CASE ProbeSucceeds
  BY <1>16 DEF HandsUpNothing, ProbeSucceeds, ProbeEnds, ProbeResult, EndpointGone, netVars
<1>17. CASE ProbeFails
  BY <1>17 DEF HandsUpNothing, ProbeFails, ProbeEnds, ProbeResult, EndpointGone, netVars
<1>18. CASE ProbeTimeout
  BY <1>18 DEF HandsUpNothing, ProbeTimeout, ProbeEnds, ProbeResult, EndpointGone, netVars
<1>19. CASE Report
  BY <1>19 DEF HandsUpNothing, Report, Exit, netVars
<1>20. CASE Sockets
  BY <1>20 DEF HandsUpNothing, Sockets, cmdVars, netVars
<1>21. CASE Finished
  BY <1>21 DEF HandsUpNothing, Finished, vars
<1>22. CASE EndpointDrops
  BY <1>22 DEF HandsUpNothing, EndpointDrops, EndpointGone
<1> QED
  BY <1>1, <1>2, <1>3, <1>4, <1>5, <1>6, <1>7, <1>8, <1>9, <1>10, <1>11, <1>12, <1>13, <1>14, <1>15,
     <1>16, <1>17, <1>18, <1>19, <1>20, <1>21, <1>22, Zenon DEF Next, CommandStep

LEMMA StepRelayed == RelayedIntact /\ [Next]_vars => RelayedIntact'
<1> SUFFICES ASSUME RelayedIntact, [Next]_vars PROVE RelayedIntact'
  OBVIOUS
<1>1. CASE DnsRecv
  BY <1>1, DnsRecvRelayed
<1>2. CASE QuicRecv
  BY <1>2, QuicRecvRelayed
<1>3. CASE Next /\ ~DnsRecv /\ ~QuicRecv
  BY <1>3, OtherSteps, NothingRelayed
<1>4. CASE UNCHANGED vars
  BY <1>4, NothingRelayed DEF HandsUpNothing, vars
<1> QED
  BY <1>1, <1>2, <1>3, <1>4

\* Whatever address a relay writes in front of a datagram, of any kind and
\* length, recv and poll_recv hand up the payload as it was sent and nothing of
\* a datagram whose header is faulty (decode_socks5_udp_header).
THEOREM RelayHonest == Spec => []RelayedIntact
<1>1. Init => RelayedIntact
  BY DEF Init, RelayedIntact
<1> QED
  BY <1>1, StepRelayed, PTL DEF Spec

-----------------------------------------------------------------------------
(***************************************************************************)
(* The walk over an answer.  Its bytes are laid out one behind the other;  *)
(* the buffer holds the first of them.                                     *)
(***************************************************************************)
\* The bytes s stand in b from position p on.
At(b, p, s) ==
  /\ p + Len(s) <= Len(b)
  /\ \A k \in 1..Len(s) : b[p + k] = s[k]

LEMMA AtStart ==
  ASSUME NEW s \in Seq(Nat), NEW t \in Seq(Nat)
  PROVE  At(s \o t, 0, s) /\ At(s \o t, Len(s), t)
<1>1. Len(s) \in Nat /\ Len(t) \in Nat /\ Len(s \o t) = Len(s) + Len(t)
  OBVIOUS
<1>2. \A k \in 1..Len(s) : (s \o t)[0 + k] = s[k]
  OBVIOUS
<1>3. \A k \in 1..Len(t) : (s \o t)[Len(s) + k] = t[k]
  OBVIOUS
<1>4. 0 + Len(s) <= Len(s \o t) /\ Len(s) + Len(t) <= Len(s \o t)
  BY <1>1
<1> QED
  BY <1>2, <1>3, <1>4, Zenon DEF At

\* What stands in a part stands in the whole.
LEMMA AtPart ==
  ASSUME NEW b \in Seq(Nat), NEW s \in Seq(Nat), NEW x \in Seq(Nat),
         NEW p \in Nat, NEW q \in Nat, At(b, p, s), At(s, q, x)
  PROVE  At(b, p + q, x)
<1>1. Len(x) \in Nat /\ Len(s) \in Nat /\ Len(b) \in Nat
  OBVIOUS
<1>2. p + Len(s) <= Len(b) /\ q + Len(x) <= Len(s)
  BY Zenon DEF At
<1>3. ASSUME NEW k \in 1..Len(x) PROVE b[p + q + k] = x[k]
  <2>1. q + k \in 1..Len(s) /\ p + (q + k) = p + q + k
    BY <1>1, <1>2
  <2>2. b[p + (q + k)] = s[q + k] /\ s[q + k] = x[k]
    BY <2>1, Zenon DEF At
  <2> QED
    BY <2>1, <2>2
<1>4. p + q + Len(x) <= Len(b)
  BY <1>1, <1>2
<1> QED
  BY <1>3, <1>4, Zenon DEF At

LEMMA AtConcat ==
  ASSUME NEW b \in Seq(Nat), NEW s \in Seq(Nat), NEW t \in Seq(Nat),
         NEW p \in Nat, At(b, p, s \o t)
  PROVE  At(b, p, s) /\ At(b, p + Len(s), t)
<1>1. s \o t \in Seq(Nat) /\ Len(s) \in Nat /\ 0 \in Nat /\ p + 0 = p
  OBVIOUS
<1>2. At(s \o t, 0, s) /\ At(s \o t, Len(s), t)
  BY AtStart
<1>3. At(b, p + 0, s) /\ At(b, p + Len(s), t)
  BY <1>1, <1>2, AtPart
<1> QED
  BY <1>1, <1>3

LEMMA AtConcatOf ==
  ASSUME NEW s \in Seq(Nat), NEW t \in Seq(Nat), NEW x \in Seq(Nat), NEW p \in Nat, At(s, p, x)
  PROVE  At(s \o t, p, x)
<1>1. s \o t \in Seq(Nat) /\ 0 \in Nat /\ 0 + p = p
  OBVIOUS
<1>2. At(s \o t, 0, s)
  BY AtStart
<1>3. At(s \o t, 0 + p, x)
  BY <1>1, <1>2, AtPart
<1> QED
  BY <1>1, <1>3

\* Where the i-th of the concatenated sequences stands.
LEMMA FlatAt ==
  ASSUME NEW ss \in Seq(Seq(Nat)), NEW g, FlatRows(g, ss), NEW i \in 1..Len(ss)
  PROVE  /\ At(Flat(ss), Len(g[i - 1]), ss[i])
         /\ Len(g[i - 1]) \in Nat /\ Len(ss[i]) \in Nat
         /\ Len(g[i]) = Len(g[i - 1]) + Len(ss[i])
<1> DEFINE n == Len(ss)
           p == Len(g[i - 1])
           Bad == {k \in i..n : ~At(g[k], p, ss[i])}
<1>1. /\ n \in Nat /\ i \in Nat /\ i - 1 \in 0..n /\ i \in 0..n /\ i <= n
      /\ \A k \in 1..n : ss[k] \in Seq(Nat)
  OBVIOUS
<1>2. /\ \A k \in 0..n : g[k] \in Seq(Nat)
      /\ \A k \in 1..n : g[k] = g[k - 1] \o ss[k]
      /\ Flat(ss) = g[n]
  BY Zenon DEF FlatRows
<1>3. g[i - 1] \in Seq(Nat) /\ ss[i] \in Seq(Nat) /\ g[i] = g[i - 1] \o ss[i]
  BY <1>1, <1>2, Zenon
<1>4. p \in Nat /\ Len(ss[i]) \in Nat
  BY <1>3
<1>5. At(g[i], p, ss[i])
  BY <1>3, AtStart
<1> HIDE DEF p, n
<1>6. ASSUME Bad # {} PROVE FALSE
  <2>1. Bad \in SUBSET Nat
    BY <1>1
  <2>2. PICK k \in Bad : \A y \in Bad : k <= y
    BY <1>6, <2>1, NatMin
  <2>3. k \in i..n /\ ~At(g[k], p, ss[i])
    BY <2>2
  <2>4. k # i
    BY <1>5, <2>3, Zenon
  <2>5. k - 1 \in i..n /\ ~(k <= k - 1) /\ k \in 1..n /\ k - 1 \in 0..n
    BY <1>1, <2>3, <2>4
  <2>6. At(g[k - 1], p, ss[i])
    BY <2>2, <2>5, Zenon
  <2>7. g[k] = g[k - 1] \o ss[k] /\ g[k - 1] \in Seq(Nat) /\ ss[k] \in Seq(Nat)
    BY <1>1, <1>2, <2>5, Zenon
  <2>8. At(g[k - 1] \o ss[k], p, ss[i])
    BY <1>3, <1>4, <2>6, <2>7, AtConcatOf, Zenon
  <2> QED
    BY <2>3, <2>7, <2>8, Zenon
<1>7. n \in i..n
  BY <1>1
<1>8. At(g[n], p, ss[i])
  BY <1>6, <1>7, Zenon
<1>9. Len(g[i]) = p + Len(ss[i])
  BY <1>3 DEF p
<1> QED
  BY <1>2, <1>4, <1>8, <1>9, Zenon DEF p

\* The rows are the concatenations of the first sequences.
LEMMA FlatFirst ==
  ASSUME NEW ss \in Seq(Seq(Nat)), NEW g, FlatRows(g, ss), NEW i \in 0..Len(ss)
  PROVE  Flat([j \in 1..i |-> ss[j]]) = g[i]
<1> DEFINE first == [j \in 1..i |-> ss[j]]
<1>1. i \in Nat /\ i <= Len(ss) /\ Len(ss) \in Nat /\ \A j \in 1..i : ss[j] \in Seq(Nat)
  OBVIOUS
<1>2. first \in Seq(Seq(Nat)) /\ Len(first) = i /\ \A j \in 1..i : first[j] = ss[j]
  BY <1>1
<1> HIDE DEF first
<1>3. PICK h : FlatRows(h, first)
  BY <1>2, FlatTable, Zenon
<1>4. Flat(first) = h[i] /\ h[0] = <<>> /\ \A j \in 1..i : h[j] = h[j - 1] \o ss[j]
  BY <1>2, <1>3, Zenon DEF FlatRows
<1>5. g[0] = <<>> /\ \A j \in 1..Len(ss) : g[j] = g[j - 1] \o ss[j]
  BY Zenon DEF FlatRows
<1> DEFINE Bad == {k \in 0..i : h[k] # g[k]}
<1>6. ASSUME Bad # {} PROVE FALSE
  <2>1. Bad \in SUBSET Nat
    BY <1>1
  <2>2. PICK k \in Bad : \A y \in Bad : k <= y
    BY <1>6, <2>1, NatMin
  <2>3. k \in 0..i /\ h[k] # g[k]
    BY <2>2
  <2>4. k # 0
    BY <1>4, <1>5, <2>3, Zenon
  <2>5. k - 1 \in 0..i /\ ~(k <= k - 1) /\ k \in 1..i /\ k \in 1..Len(ss)
    BY <1>1, <2>3, <2>4
  <2>6. h[k - 1] = g[k - 1]
    BY <2>2, <2>5, Zenon
  <2> QED
    BY <1>4, <1>5, <2>3, <2>5, <2>6, Zenon
<1>7. i \in 0..i
  BY <1>1
<1> QED
  BY <1>4, <1>6, <1>7, Zenon DEF first

\* The walk of skip_name: a function that looks only further on in the buffer.
SkipFrom(buf, skip, p) ==
  IF p >= Len(buf) THEN Err
  ELSE IF buf[p + 1] = 0 THEN [ok |-> TRUE, pos |-> p + 1]
  ELSE IF buf[p + 1] >= 192
       THEN IF p + 1 >= Len(buf) THEN Err ELSE [ok |-> TRUE, pos |-> p + 2]
  ELSE skip[p + 1 + buf[p + 1]]

LEMMA SkipsOn ==
  ASSUME NEW buf \in Seq(Nat), NEW s, NEW t, NEW p \in Nat,
         \A q \in Nat : q > p => s[q] = t[q]
  PROVE  SkipFrom(buf, s, p) = SkipFrom(buf, t, p)
<1>1. CASE p >= Len(buf)
  BY <1>1 DEF SkipFrom
<1>2. CASE ~(p >= Len(buf))
  <2>1. buf[p + 1] \in Nat
    BY <1>2
  <2>2. p + 1 + buf[p + 1] \in Nat /\ p + 1 + buf[p + 1] > p
    BY <2>1
  <2>3. s[p + 1 + buf[p + 1]] = t[p + 1 + buf[p + 1]]
    BY <2>2, Zenon
  <2> QED
    BY <2>3 DEF SkipFrom
<1> QED
  BY <1>1, <1>2

\* The walk is defined for the last n bytes, whatever n is.
SkipsLast(s, buf, n) == \A p \in Nat : p + n >= Len(buf) => s[p] = SkipFrom(buf, s, p)

LEMMA SkipExists ==
  ASSUME NEW buf \in Seq(Nat)
  PROVE  \E s : s = [p \in Nat |-> SkipFrom(buf, s, p)]
<1> DEFINE L == Len(buf)
           Fits(n, s) == s = [p \in Nat |-> s[p]] /\ SkipsLast(s, buf, n)
           Bad == {n \in Nat : ~\E s : Fits(n, s)}
<1>1. L \in Nat
  OBVIOUS
<1>2. ASSUME Bad # {} PROVE FALSE
  <2>1. Bad \in SUBSET Nat
    OBVIOUS
  <2>2. PICK n \in Bad : \A y \in Bad : n <= y
    BY <1>2, <2>1, NatMin
  <2>3. n \in Nat /\ ~\E s : Fits(n, s)
    BY <2>2
  <2>4. CASE n = 0
    <3> DEFINE s == [p \in Nat |-> Err]
    <3>1. \A p \in Nat : p + 0 >= L => p >= Len(buf)
      BY <1>1
    <3>2. \A p \in Nat : p + 0 >= L => SkipFrom(buf, s, p) = Err
      BY <3>1, Zenon DEF SkipFrom
    <3>3. s = [p \in Nat |-> s[p]] /\ \A p \in Nat : s[p] = Err
      BY Zenon
    <3> HIDE DEF s
    <3>4. Fits(0, s)
      BY <3>2, <3>3, Zenon DEF SkipsLast
    <3> QED
      BY <2>3, <2>4, <3>4, Zenon
  <2>5. CASE n # 0
    <3>1. n - 1 \in Nat /\ ~(n <= n - 1)
      BY <2>3, <2>5
    <3>2. n - 1 \notin Bad
      BY <2>2, <3>1, Zenon
    <3>3. PICK s : Fits(n - 1, s)
      BY <3>1, <3>2, Zenon
    <3> DEFINE t == [p \in Nat |-> IF p + (n - 1) >= L THEN s[p] ELSE SkipFrom(buf, s, p)]
    <3>4. /\ t = [p \in Nat |-> t[p]]
          /\ \A p \in Nat : t[p] = IF p + (n - 1) >= L THEN s[p] ELSE SkipFrom(buf, s, p)
      BY Zenon
    <3> HIDE DEF t
    <3>5. ASSUME NEW p \in Nat, p + n >= L
          PROVE  t[p] = SkipFrom(buf, t, p)
      <4>1. \A q \in Nat : q > p => q + (n - 1) >= L
        BY <1>1, <2>3, <3>5
      <4>2. \A q \in Nat : q > p => s[q] = t[q]
        BY <3>4, <4>1, Zenon
      <4>3. SkipFrom(buf, s, p) = SkipFrom(buf, t, p)
        BY <4>2, SkipsOn
      <4>4. p + (n - 1) >= L => s[p] = SkipFrom(buf, s, p)
        BY <3>3, Zenon DEF SkipsLast
      <4> QED
        BY <3>4, <4>3, <4>4, Zenon
    <3>6. Fits(n, t)
      BY <3>4, <3>5, Zenon DEF SkipsLast
    <3> QED
      BY <2>3, <3>6, Zenon
  <2> QED
    BY <2>4, <2>5
<1>3. PICK s : Fits(L, s)
  BY <1>1, <1>2, Zenon
<1>4. \A p \in Nat : p + L >= Len(buf)
  BY <1>1
<1>5. \A p \in Nat : s[p] = SkipFrom(buf, s, p)
  BY <1>3, <1>4, Zenon DEF SkipsLast
<1>6. s = [p \in Nat |-> SkipFrom(buf, s, p)]
  BY <1>3, <1>5, Zenon
<1> QED
  BY <1>6

LEMMA SkipIsWalk ==
  ASSUME NEW buf \in Seq(Nat)
  PROVE  \E s : /\ \A p \in Nat : s[p] = SkipFrom(buf, s, p)
                /\ \A p : SkipName(buf, p) = s[p]
<1> DEFINE s == CHOOSE s : s = [p \in Nat |-> SkipFrom(buf, s, p)]
<1>1. s = [p \in Nat |-> SkipFrom(buf, s, p)]
  BY SkipExists
<1>2. \A p : SkipName(buf, p) = s[p]
  BY DEF SkipName, SkipFrom
<1> HIDE DEF s
<1>3. \A p \in Nat : s[p] = SkipFrom(buf, s, p)
  BY <1>1, Zenon
<1> QED
  BY <1>2, <1>3, Zenon

\* A buffer that holds the first bytes of b.
FirstOf(buf, b) ==
  /\ buf \in Seq(Nat)
  /\ Len(buf) <= Len(b)
  /\ \A i \in 1..Len(buf) : buf[i] = b[i]

\* The outcome of skipping what ends at position e.
Skipped(buf, e) == IF e <= Len(buf) THEN [ok |-> TRUE, pos |-> e] ELSE Err

LEMMA ReadAt ==
  ASSUME NEW buf, NEW b, FirstOf(buf, b), NEW p \in Nat, NEW s \in Seq(Nat), At(b, p, s),
         NEW k \in 1..Len(s), p + k <= Len(buf)
  PROVE  buf[p + k] = s[k]
<1>1. buf \in Seq(Nat) /\ \A i \in 1..Len(buf) : buf[i] = b[i]
  BY Zenon DEF FirstOf
<1>2. Len(buf) \in Nat /\ Len(s) \in Nat
  BY <1>1
<1>3. p + k \in 1..Len(buf)
  BY <1>2
<1>4. b[p + k] = s[k]
  BY Zenon DEF At
<1> QED
  BY <1>1, <1>3, <1>4, Zenon

\* The bytes of one label: none of an empty one.
OneLabel(l) == IF l = <<>> THEN <<>> ELSE <<Len(l)>> \o l
LabelSeq(labels) == [i \in 1..Len(labels) |-> OneLabel(labels[i])]

LEMMA OneLabelFacts ==
  ASSUME NEW l \in Labels
  PROVE  /\ OneLabel(l) \in Seq(Nat)
         /\ OneLabel(l) # <<>> => /\ Len(l) \in Nat /\ Len(l) > 0 /\ Len(l) < 64
                                  /\ Len(OneLabel(l)) = 1 + Len(l) /\ OneLabel(l)[1] = Len(l)
<1>1. l \in Seq(0..255) /\ Len(l) < 64
  BY DEF Labels
<1>2. l \in Seq(Nat) /\ Len(l) \in Nat
  BY <1>1, BytesType, Zenon
<1>3. CASE l = <<>>
  <2>1. OneLabel(l) = <<>> /\ <<>> \in Seq(Nat)
    BY <1>3 DEF OneLabel
  <2> QED
    BY <2>1, Zenon
<1>4. CASE l # <<>>
  <2>1. OneLabel(l) = <<Len(l)>> \o l
    BY <1>4 DEF OneLabel
  <2>2. /\ <<Len(l)>> \o l \in Seq(Nat)
        /\ Len(<<Len(l)>> \o l) = 1 + Len(l) /\ (<<Len(l)>> \o l)[1] = Len(l)
    BY <1>2
  <2>3. Len(l) > 0
    BY <1>2, <1>4
  <2> QED
    BY <1>1, <1>2, <2>1, <2>2, <2>3, Zenon
<1> QED
  BY <1>3, <1>4

LEMMA LabelSeqFacts ==
  ASSUME NEW labels \in Seq(Labels)
  PROVE  /\ LabelSeq(labels) \in Seq(Seq(Nat)) /\ Len(LabelSeq(labels)) = Len(labels)
         /\ LabelBytes(labels) = Flat(LabelSeq(labels))
         /\ \A i \in 1..Len(labels) : LabelSeq(labels)[i] = OneLabel(labels[i])
<1>1. Len(labels) \in Nat /\ \A i \in 1..Len(labels) : labels[i] \in Labels
  OBVIOUS
<1>2. \A i \in 1..Len(labels) : OneLabel(labels[i]) \in Seq(Nat)
  BY <1>1, OneLabelFacts, Zenon
<1>3. LabelSeq(labels) \in Seq(Seq(Nat)) /\ Len(LabelSeq(labels)) = Len(labels)
  BY <1>1, <1>2 DEF LabelSeq
<1>4. LabelBytes(labels) = Flat(LabelSeq(labels))
  BY Zenon DEF LabelBytes, LabelSeq, OneLabel
<1>5. \A i \in 1..Len(labels) : LabelSeq(labels)[i] = OneLabel(labels[i])
  BY Zenon DEF LabelSeq
<1> QED
  BY <1>3, <1>4, <1>5, Zenon

\* What ends a name: the root, or a pointer.
NameEnds == {<<0>>, <<192, 12>>}

\* One step of the walk: over a label, and over the end of a name.
LEMMA SkipLabel ==
  ASSUME NEW buf, NEW b, FirstOf(buf, b), NEW skip, NEW p \in Nat, NEW l \in Labels,
         OneLabel(l) # <<>>, At(b, p, OneLabel(l)), p < Len(buf)
  PROVE  SkipFrom(buf, skip, p) = skip[p + Len(OneLabel(l))]
<1>1. /\ OneLabel(l) \in Seq(Nat) /\ Len(l) \in Nat /\ Len(l) > 0 /\ Len(l) < 64
      /\ Len(OneLabel(l)) = 1 + Len(l) /\ OneLabel(l)[1] = Len(l)
  BY OneLabelFacts
<1>2. buf \in Seq(Nat) /\ Len(buf) \in Nat
  BY LenProperties DEF FirstOf
<1>3. 1 \in 1..Len(OneLabel(l)) /\ p + 1 <= Len(buf)
  BY <1>1, <1>2
<1>4. buf[p + 1] = Len(l)
  BY <1>1, <1>3, ReadAt, Zenon
<1> DEFINE n == Len(l)
<1>5. n \in Nat /\ n # 0 /\ ~(n >= 192) /\ ~(p >= Len(buf)) /\ p + 1 + n = p + (1 + n)
  BY <1>1, <1>2
<1>6. SkipFrom(buf, skip, p) = skip[p + 1 + n]
  BY <1>4, <1>5, Zenon DEF SkipFrom
<1> QED
  BY <1>1, <1>5, <1>6

LEMMA SkipEnd ==
  ASSUME NEW buf, NEW b, FirstOf(buf, b), NEW skip, NEW p \in Nat,
         NEW end \in NameEnds, At(b, p, end)
  PROVE  SkipFrom(buf, skip, p) = Skipped(buf, p + Len(end))
<1>1. buf \in Seq(Nat) /\ Len(buf) \in Nat
  BY LenProperties DEF FirstOf
<1>2. CASE p >= Len(buf)
  <2>1. Len(end) \in Nat /\ Len(end) > 0
    <3>1. CASE end = <<0>>
      BY <3>1
    <3>2. CASE end = <<192, 12>>
      BY <3>2
    <3> QED
      BY <3>1, <3>2 DEF NameEnds
  <2>2. ~(p + Len(end) <= Len(buf))
    BY <1>1, <1>2, <2>1
  <2> QED
    BY <1>2, <2>2, Zenon DEF SkipFrom, Skipped
<1>3. CASE p < Len(buf) /\ end = <<0>>
  <2>1. end \in Seq(Nat) /\ Len(end) = 1 /\ end[1] = 0 /\ 1 \in 1..Len(end)
    BY <1>3
  <2>2. p + 1 <= Len(buf) /\ ~(p >= Len(buf))
    BY <1>1, <1>3
  <2>3. buf[p + 1] = 0
    BY <2>1, <2>2, ReadAt, Zenon
  <2> QED
    BY <2>1, <2>2, <2>3, Zenon DEF SkipFrom, Skipped
<1>4. CASE p < Len(buf) /\ end = <<192, 12>>
  <2>1. end \in Seq(Nat) /\ Len(end) = 2 /\ end[1] = 192 /\ 1 \in 1..Len(end)
    BY <1>4
  <2>2. p + 1 <= Len(buf) /\ ~(p >= Len(buf))
    BY <1>1, <1>4
  <2>3. buf[p + 1] = 192
    <3>1. end \in Seq(Nat) /\ 1 \in 1..Len(end)
      BY <2>1
    <3>2. buf[p + 1] = end[1]
      BY <2>2, <3>1, ReadAt, Zenon
    <3> QED
      BY <2>1, <3>2
  <2>4. buf[p + 1] # 0 /\ buf[p + 1] >= 192
    BY <2>3
  <2>5. SkipFrom(buf, skip, p) = IF p + 1 >= Len(buf) THEN Err ELSE [ok |-> TRUE, pos |-> p + 2]
    BY <2>2, <2>4 DEF SkipFrom
  <2>6. p + 1 >= Len(buf) <=> ~(p + 2 <= Len(buf))
    BY <1>1
  <2> QED
    BY <2>1, <2>5, <2>6, Zenon DEF Skipped
<1> QED
  BY <1>1, <1>2, <1>3, <1>4 DEF NameEnds

\* skip_name gets behind a name of any number of labels, spelled out or ended
\* by a pointer, if and only if the buffer holds all of it.
LEMMA SkipWholeName ==
  ASSUME NEW buf, NEW b \in Seq(Nat), FirstOf(buf, b), NEW p \in Nat,
         NEW labels \in Seq(Labels), NEW end \in NameEnds,
         At(b, p, LabelBytes(labels) \o end)
  PROVE  /\ SkipName(buf, p) = Skipped(buf, p + Len(LabelBytes(labels) \o end))
         /\ LabelBytes(labels) \o end \in Seq(Nat)
<1> DEFINE ss == LabelSeq(labels)
           n == Len(labels)
<1>1. /\ ss \in Seq(Seq(Nat)) /\ Len(ss) = n /\ LabelBytes(labels) = Flat(ss)
      /\ \A i \in 1..n : ss[i] = OneLabel(labels[i])
  BY LabelSeqFacts, Zenon
<1>2. n \in Nat /\ \A i \in 1..n : labels[i] \in Labels
  OBVIOUS
<1>3. buf \in Seq(Nat) /\ Len(buf) \in Nat
  BY LenProperties DEF FirstOf
<1> HIDE DEF ss, n
<1>4. PICK g : FlatRows(g, ss)
  BY <1>1, FlatTable, Zenon
<1>5. /\ Flat(ss) = g[n] /\ g[0] = <<>>
      /\ \A i \in 0..n : g[i] \in Seq(Nat)
  BY <1>1, <1>4, Zenon DEF FlatRows
<1>6. PICK skip : /\ \A q \in Nat : skip[q] = SkipFrom(buf, skip, q)
                  /\ \A q : SkipName(buf, q) = skip[q]
  BY <1>3, SkipIsWalk, Zenon
<1>7. end \in Seq(Nat) /\ Len(end) \in Nat /\ Len(end) > 0
  <2>1. CASE end = <<0>>
    BY <2>1
  <2>2. CASE end = <<192, 12>>
    BY <2>2
  <2> QED
    BY <2>1, <2>2 DEF NameEnds
<1>8. 0 \in 0..n /\ n \in 0..n
  BY <1>2
<1>9. Flat(ss) \in Seq(Nat) /\ Len(Flat(ss)) \in Nat /\ Flat(ss) = g[n]
  BY <1>5, <1>8, LenProperties, Zenon
<1>10. At(b, p, Flat(ss)) /\ At(b, p + Len(Flat(ss)), end)
  BY <1>1, <1>7, <1>9, AtConcat, Zenon
<1> DEFINE last == p + Len(Flat(ss)) + Len(end)
           Whole(i) == skip[p + Len(g[i])] = Skipped(buf, last)
           Bad == {d \in 0..n : ~Whole(n - d)}
<1>11. Whole(n)
  <2>1. p + Len(g[n]) \in Nat
    BY <1>9
  <2>2. SkipFrom(buf, skip, p + Len(g[n])) = Skipped(buf, p + Len(g[n]) + Len(end))
    BY <1>9, <1>10, <2>1, SkipEnd, Zenon
  <2> QED
    BY <1>6, <1>9, <2>1, <2>2, Zenon
<1>12. ASSUME NEW i \in 0..n, i < n, Whole(i + 1) PROVE Whole(i)
  <2>1. i + 1 \in 1..n /\ i + 1 \in 1..Len(ss) /\ i + 1 - 1 = i
    BY <1>1, <1>2, <1>12
  <2>2. labels[i + 1] \in Labels /\ ss[i + 1] = OneLabel(labels[i + 1])
    BY <1>1, <1>2, <2>1, Zenon
  <2> DEFINE l == labels[i + 1]
             q == p + Len(g[i])
  <2>3. /\ At(Flat(ss), Len(g[i]), OneLabel(l)) /\ Len(g[i]) \in Nat
        /\ Len(OneLabel(l)) \in Nat /\ Len(g[i + 1]) = Len(g[i]) + Len(OneLabel(l))
    <3> DEFINE j == i + 1
    <3>1. j \in 1..Len(ss)
      BY <2>1
    <3> HIDE DEF j
    <3>2. /\ At(Flat(ss), Len(g[j - 1]), ss[j])
          /\ Len(g[j - 1]) \in Nat /\ Len(ss[j]) \in Nat
          /\ Len(g[j]) = Len(g[j - 1]) + Len(ss[j])
      BY <1>1, <1>4, <3>1, FlatAt
    <3>3. j - 1 = i
      BY <2>1 DEF j
    <3>4. ss[j] = OneLabel(l) /\ g[i + 1] = g[j]
      BY <2>2, Zenon DEF j
    <3> QED
      BY <3>2, <3>3, <3>4
  <2>4. OneLabel(l) \in Seq(Nat)
    BY <2>2, OneLabelFacts, Zenon
  <2> HIDE DEF l
  <2>5. q \in Nat /\ p + Len(g[i + 1]) = q + Len(OneLabel(l))
    BY <2>3
  <2>6. At(b, q, OneLabel(l))
    BY <1>9, <1>10, <2>3, <2>4, AtPart, Zenon
  <2>7. Len(g[i]) <= Len(Flat(ss))
    <3>1. Len(g[i]) + Len(OneLabel(l)) <= Len(Flat(ss))
      BY <2>3, Zenon DEF At
    <3> QED
      BY <1>9, <2>3, <3>1
  <2>8. skip[q] = SkipFrom(buf, skip, q)
    BY <1>6, <2>5, Zenon
  <2>9. CASE OneLabel(l) = <<>>
    <3>1. Len(OneLabel(l)) = 0
      BY <2>9
    <3>2. q = p + Len(g[i + 1])
      BY <2>5, <3>1
    <3> QED
      BY <1>12, <3>2
  <2>10. CASE q >= Len(buf)
    <3>1. ~(last <= Len(buf))
      <4> DEFINE x == Len(g[i])
                 y == Len(Flat(ss))
                 z == Len(end)
                 k == Len(buf)
      <4>1. x \in Nat /\ y \in Nat /\ z \in Nat /\ k \in Nat /\ z > 0 /\ x <= y /\ p + x >= k
        BY <1>3, <1>7, <1>9, <2>3, <2>7, <2>10, Zenon
      <4> HIDE DEF x, y, z, k
      <4>2. ~(p + y + z <= k)
        BY <4>1
      <4> QED
        BY <4>2, Zenon DEF y, z, k
    <3> QED
      BY <2>8, <2>10, <3>1, Zenon DEF SkipFrom, Skipped
  <2>11. CASE OneLabel(l) # <<>> /\ q < Len(buf)
    <3>1. l \in Labels /\ q \in Nat
      BY <2>2, <2>5, Zenon DEF l
    <3>2. SkipFrom(buf, skip, q) = skip[q + Len(OneLabel(l))]
      <4> HIDE DEF q
      <4> QED
        BY <2>6, <2>11, <3>1, SkipLabel
    <3> QED
      BY <1>12, <2>5, <2>8, <3>2
  <2> QED
    BY <1>3, <2>5, <2>9, <2>10, <2>11
<1> HIDE DEF Whole, last
<1>13. ASSUME Bad # {} PROVE FALSE
  <2>1. Bad \in SUBSET Nat
    BY <1>2
  <2>2. PICK d \in Bad : \A y \in Bad : d <= y
    BY <1>13, <2>1, NatMin
  <2>3. d \in 0..n /\ ~Whole(n - d)
    BY <2>2
  <2>4. d # 0
    <3>1. n - 0 = n
      BY <1>2
    <3> QED
      BY <1>11, <2>3, <3>1
  <2>5. /\ d - 1 \in 0..n /\ ~(d <= d - 1)
        /\ n - d \in 0..n /\ n - d < n /\ n - d + 1 = n - (d - 1)
    BY <1>2, <2>3, <2>4
  <2>6. Whole(n - (d - 1))
    BY <2>2, <2>5, Zenon
  <2>7. Whole(n - d)
    BY <1>12, <2>5, <2>6, Zenon
  <2> QED
    BY <2>3, <2>7
<1>14. Whole(0)
  <2>1. n - n = 0
    BY <1>2
  <2>2. Whole(n - n)
    BY <1>8, <1>13, Zenon
  <2> QED
    BY <2>1, <2>2, Zenon
<1>15. p + Len(g[0]) = p
  BY <1>5
<1>16. SkipName(buf, p) = Skipped(buf, last)
  BY <1>6, <1>14, <1>15, Zenon DEF Whole
<1>17. Flat(ss) \o end \in Seq(Nat) /\ p + Len(Flat(ss) \o end) = last
  BY <1>7, <1>9 DEF last
<1> QED
  BY <1>1, <1>16, <1>17, Zenon

\* Reading numbers and data back.
LEMMA ReadU16At ==
  ASSUME NEW buf, NEW b, FirstOf(buf, b), NEW p \in Nat, NEW n \in Nat,
         At(b, p, U16(n)), p + 2 <= Len(buf)
  PROVE  ReadU16(buf, p) = n
<1> DEFINE u == U16(n)
<1>1. u \in Seq(Nat) /\ Len(u) = 2 /\ u[1] = n \div 256 /\ u[2] = n % 256
  BY DEF U16
<1> HIDE DEF u
<1>2. buf \in Seq(Nat) /\ Len(buf) \in Nat
  BY LenProperties DEF FirstOf
<1>3. 1 \in 1..Len(u) /\ 2 \in 1..Len(u) /\ p + 1 <= Len(buf)
  BY <1>1, <1>2
<1>4. u \in Seq(Nat) /\ At(b, p, u)
  BY <1>1, Zenon DEF u
<1>5. buf[p + 1] = u[1] /\ buf[p + 2] = u[2]
  BY <1>3, <1>4, ReadAt, Zenon
<1>6. 256 * (n \div 256) + (n % 256) = n
  BY SMT
<1>7. ReadU16(buf, p) = 256 * u[1] + u[2]
  BY <1>5 DEF ReadU16
<1> QED
  BY <1>1, <1>6, <1>7

LEMMA SubSeqAt ==
  ASSUME NEW buf, NEW b, FirstOf(buf, b), NEW p \in Nat, NEW s \in Seq(Nat),
         At(b, p, s), p + Len(s) <= Len(buf)
  PROVE  SubSeq(buf, p + 1, p + Len(s)) = s
<1> DEFINE t == SubSeq(buf, p + 1, p + Len(s))
           n == Len(s)
<1>1. buf \in Seq(Nat) /\ Len(buf) \in Nat /\ n \in Nat
  BY LenProperties DEF FirstOf
<1>2. \A i \in (p + 1)..(p + n) : buf[i] \in Nat
  BY <1>1
<1>3. p + 1 \in Int /\ p + n \in Int /\ (p + n) - (p + 1) + 1 = n
  BY <1>1
<1>4. /\ t \in Seq(Nat)
      /\ Len(t) = IF p + 1 <= p + n THEN (p + n) - (p + 1) + 1 ELSE 0
      /\ \A i \in 1..((p + n) - (p + 1) + 1) : t[i] = buf[p + 1 + i - 1]
  BY <1>2, <1>3, SubSeqProperties
<1> HIDE DEF t
<1>5. Len(t) = n
  BY <1>1, <1>3, <1>4
<1>6. ASSUME NEW i \in 1..n PROVE t[i] = s[i]
  <2>1. p + 1 + i - 1 = p + i /\ p + i <= Len(buf) /\ i \in 1..((p + n) - (p + 1) + 1)
    BY <1>1, <1>3
  <2>2. t[i] = buf[p + i]
    BY <1>4, <2>1
  <2>3. buf[p + i] = s[i]
    BY <2>1, ReadAt
  <2> QED
    BY <2>2, <2>3
<1>7. t = s
  BY <1>4, <1>5, <1>6, SeqEqual
<1> QED
  BY <1>7 DEF t

\* The walk over records.
RecordFrom(buf, next, p) ==
  LET name == SkipName(buf, p) IN
  IF ~name.ok \/ name.pos + 10 > Len(buf) THEN Err
  ELSE LET rtype == ReadU16(buf, name.pos)
           rdlen == ReadU16(buf, name.pos + 8)
           data  == name.pos + 10
       IN  IF data + rdlen > Len(buf) THEN Err
           ELSE IF rtype = 1 /\ rdlen = 4
                THEN [ok |-> TRUE, addr |-> SubSeq(buf, data + 1, data + 4)]
           ELSE next[data + rdlen]

\* Where the fields of a record stand, e being its end.
LEMMA RecordLayout ==
  ASSUME NEW b \in Seq(Nat), NEW p \in Nat, NEW r \in Records, At(b, p, RecordBytes(r))
  PROVE  LET q == p + Len(NameBytes(r.name)) IN
         /\ q \in Nat /\ Len(r.data) \in Nat /\ r.rtype \in Nat /\ r.data \in Seq(Nat)
         /\ p + Len(RecordBytes(r)) = q + 10 + Len(r.data)
         /\ At(b, p, NameBytes(r.name)) /\ At(b, q, U16(r.rtype))
         /\ At(b, q + 8, U16(Len(r.data))) /\ At(b, q + 10, r.data)
<1>1. r.name \in DomainNames /\ r.rtype \in Nat /\ r.data \in Seq(Nat) /\ Len(r.data) \in Nat
  <2>1. r.name \in DomainNames /\ r.rtype \in Nat /\ r.data \in Seq(0..255)
    BY Zenon DEF Records
  <2> QED
    BY <2>1, BytesType, Zenon
<1> DEFINE nb == NameBytes(r.name)
           ty == U16(r.rtype)
           cl == U16(1)
           tt == <<0, 0, 0, 60>>
           le == U16(Len(r.data))
           da == r.data
           s1 == nb \o ty
           s2 == s1 \o cl
           s3 == s2 \o tt
           s4 == s3 \o le
           s5 == s4 \o da
           q == p + Len(nb)
<1>2. RecordBytes(r) = s5
  BY Zenon DEF RecordBytes
<1>3. nb \in Seq(Nat)
  <2>1. r.name.labels \in Seq(Labels)
    BY <1>1 DEF DomainNames
  <2>2. LabelBytes(r.name.labels) \in Seq(Nat)
    BY <2>1, LabelBytesType
  <2>3. <<192, 12>> \in Seq(Nat) /\ <<0>> \in Seq(Nat)
    OBVIOUS
  <2> QED
    BY <2>2, <2>3, ConcatType, Zenon DEF NameBytes
<1>4. /\ ty \in Seq(Nat) /\ Len(ty) = 2 /\ cl \in Seq(Nat) /\ Len(cl) = 2
      /\ le \in Seq(Nat) /\ Len(le) = 2
  <2>1. 1 \in Nat
    OBVIOUS
  <2> QED
    BY <1>1, <2>1, U16Type, Zenon
<1>5. tt \in Seq(Nat) /\ Len(tt) = 4
  OBVIOUS
<1>6. da \in Seq(Nat)
  BY <1>1
<1> HIDE DEF nb, ty, cl, tt, le, da
<1>7. s1 \in Seq(Nat) /\ Len(s1) = Len(nb) + Len(ty)
  BY <1>3, <1>4, ConcatFacts, Zenon
<1> HIDE DEF s1
<1>8. s2 \in Seq(Nat) /\ Len(s2) = Len(s1) + Len(cl)
  BY <1>4, <1>7, ConcatFacts, Zenon
<1> HIDE DEF s2
<1>9. s3 \in Seq(Nat) /\ Len(s3) = Len(s2) + Len(tt)
  BY <1>5, <1>8, ConcatFacts, Zenon
<1> HIDE DEF s3
<1>10. s4 \in Seq(Nat) /\ Len(s4) = Len(s3) + Len(le)
  BY <1>4, <1>9, ConcatFacts, Zenon
<1> HIDE DEF s4
<1>11. s5 \in Seq(Nat) /\ Len(s5) = Len(s4) + Len(da)
  BY <1>6, <1>10, ConcatFacts, Zenon
<1> HIDE DEF s5
<1>12. At(b, p, s5)
  BY <1>2, Zenon
<1>13. At(b, p, s4) /\ At(b, p + Len(s4), da)
  BY <1>6, <1>10, <1>12, AtConcat, Zenon DEF s5
<1>14. At(b, p, s3) /\ At(b, p + Len(s3), le)
  BY <1>4, <1>9, <1>13, AtConcat, Zenon DEF s4
<1>15. At(b, p, s2)
  BY <1>5, <1>8, <1>14, AtConcat, Zenon DEF s3
<1>16. At(b, p, s1)
  BY <1>4, <1>7, <1>15, AtConcat, Zenon DEF s2
<1>17. At(b, p, nb) /\ At(b, q, ty)
  BY <1>3, <1>4, <1>16, AtConcat, Zenon DEF s1
<1>18. Len(nb) \in Nat /\ Len(da) \in Nat
  BY <1>3, <1>6, LenProperties, Zenon
<1>19. /\ Len(s1) = Len(nb) + 2 /\ Len(s2) = Len(nb) + 4 /\ Len(s3) = Len(nb) + 8
       /\ Len(s4) = Len(nb) + 10 /\ Len(s5) = Len(nb) + 10 + Len(da)
  BY <1>4, <1>5, <1>7, <1>8, <1>9, <1>10, <1>11, <1>18
<1>20. /\ q \in Nat /\ p + Len(s3) = q + 8 /\ p + Len(s4) = q + 10
       /\ p + Len(s5) = q + 10 + Len(da)
  BY <1>18, <1>19
<1> HIDE DEF q
<1>21. At(b, q + 8, le) /\ At(b, q + 10, da)
  BY <1>13, <1>14, <1>20, Zenon
<1> QED
  BY <1>1, <1>2, <1>17, <1>20, <1>21, Zenon DEF nb, ty, le, da, q

\* skip_name gets behind the owner of a record.
LEMMA SkipOwner ==
  ASSUME NEW buf, NEW b \in Seq(Nat), FirstOf(buf, b), NEW p \in Nat,
         NEW name \in DomainNames, At(b, p, NameBytes(name))
  PROVE  SkipName(buf, p) = Skipped(buf, p + Len(NameBytes(name)))
<1> DEFINE end == IF name.pointer THEN <<192, 12>> ELSE <<0>>
<1>1. name.labels \in Seq(Labels)
  BY DEF DomainNames
<1>2. end \in NameEnds
  BY DEF NameEnds
<1>3. NameBytes(name) = LabelBytes(name.labels) \o end
  BY Zenon DEF NameBytes
<1> DEFINE labels == name.labels
<1> HIDE DEF end, labels
<1>4. labels \in Seq(Labels) /\ At(b, p, LabelBytes(labels) \o end)
  BY <1>1, <1>3 DEF labels
<1>5. SkipName(buf, p) = Skipped(buf, p + Len(LabelBytes(labels) \o end))
  BY <1>2, <1>4, SkipWholeName
<1> QED
  BY <1>3, <1>5 DEF labels

\* One step of decode_a_response's walk over the records: an error at a record
\* that did not arrive whole, else its data, or on behind it.
AfterRecord(buf, next, r, e) ==
  IF e > Len(buf) THEN Err
  ELSE IF r.rtype = 1 /\ Len(r.data) = 4 THEN [ok |-> TRUE, addr |-> r.data]
  ELSE next[e]

LEMMA RecordStep ==
  ASSUME NEW buf, NEW b \in Seq(Nat), FirstOf(buf, b), NEW p \in Nat,
         NEW r \in Records, At(b, p, RecordBytes(r)), NEW next
  PROVE  RecordFrom(buf, next, p) = AfterRecord(buf, next, r, p + Len(RecordBytes(r)))
<1> DEFINE q == p + Len(NameBytes(r.name))
           n == Len(r.data)
           e == p + Len(RecordBytes(r))
<1>1. buf \in Seq(Nat) /\ Len(buf) \in Nat
  BY LenProperties DEF FirstOf
<1>2. /\ q \in Nat /\ n \in Nat /\ r.rtype \in Nat /\ r.data \in Seq(Nat)
      /\ e = q + 10 + n
      /\ At(b, p, NameBytes(r.name)) /\ At(b, q, U16(r.rtype))
      /\ At(b, q + 8, U16(n)) /\ At(b, q + 10, r.data)
  BY RecordLayout
<1>3. r.name \in DomainNames
  BY Zenon DEF Records
<1>4. SkipName(buf, p) = Skipped(buf, q)
  BY <1>2, <1>3, SkipOwner, Zenon
<1> HIDE DEF q, n, e
<1>5. CASE q > Len(buf)
  <2>1. ~(q <= Len(buf)) /\ e > Len(buf)
    BY <1>1, <1>2, <1>5
  <2>2. SkipName(buf, p) = Err
    BY <1>4, <2>1, Zenon DEF Skipped
  <2>3. ~Err.ok
    BY DEF Err
  <2>4. RecordFrom(buf, next, p) = Err
    BY <2>2, <2>3, Zenon DEF RecordFrom
  <2> QED
    BY <2>1, <2>4, Zenon DEF AfterRecord, e
<1>6. CASE q <= Len(buf)
  <2> DEFINE name == SkipName(buf, p)
  <2>1. name.ok /\ name.pos = q
    BY <1>4, <1>6 DEF Skipped
  <2> HIDE DEF name
  <2> DEFINE rtype == ReadU16(buf, q)
             rdlen == ReadU16(buf, q + 8)
             data  == q + 10
             Found == [ok |-> TRUE, addr |-> SubSeq(buf, data + 1, data + 4)]
             rest == IF data + rdlen > Len(buf) THEN Err
                     ELSE IF rtype = 1 /\ rdlen = 4 THEN Found ELSE next[data + rdlen]
  <2>2. RecordFrom(buf, next, p) = IF q + 10 > Len(buf) THEN Err ELSE rest
    BY <2>1 DEF RecordFrom, name
  <2> HIDE DEF rest
  <2>3. CASE q + 10 > Len(buf)
    <3>1. e > Len(buf)
      BY <1>1, <1>2, <2>3
    <3> QED
      BY <2>2, <2>3, <3>1, Zenon DEF AfterRecord, e
  <2>4. CASE ~(q + 10 > Len(buf))
    <3>1. q + 2 <= Len(buf) /\ q + 8 + 2 <= Len(buf) /\ q + 8 \in Nat /\ data \in Nat
      BY <1>1, <1>2, <2>4
    <3>2. rtype = r.rtype
      BY <1>2, <3>1, ReadU16At
    <3>3. rdlen = n
      BY <1>2, <3>1, ReadU16At
    <3> HIDE DEF rtype, rdlen
    <3>4. data + rdlen = e /\ RecordFrom(buf, next, p) = rest
      BY <1>2, <2>2, <2>4, <3>3
    <3>5. CASE e > Len(buf)
      BY <3>4, <3>5, Zenon DEF AfterRecord, e, rest
    <3>6. CASE ~(e > Len(buf)) /\ r.rtype = 1 /\ n = 4
      <4>1. data + n <= Len(buf) /\ data + n = data + 4
        BY <1>1, <1>2, <3>1, <3>3, <3>4, <3>6
      <4>2. SubSeq(buf, data + 1, data + n) = r.data
        <5> HIDE DEF data
        <5>1. At(b, data, r.data)
          BY <1>2 DEF data
        <5> QED
          BY <1>2, <3>1, <4>1, <5>1, SubSeqAt DEF n
      <4>3. Found = [ok |-> TRUE, addr |-> r.data]
        BY <4>1, <4>2
      <4> HIDE DEF Found
      <4>4. rest = Found
        BY <3>2, <3>3, <3>4, <3>6, Zenon DEF rest
      <4> QED
        BY <3>4, <3>6, <4>3, <4>4, Zenon DEF AfterRecord, e, n
    <3>7. CASE ~(e > Len(buf)) /\ ~(r.rtype = 1 /\ n = 4)
      <4> HIDE DEF Found, data
      <4>1. rest = next[e]
        BY <3>2, <3>3, <3>4, <3>7, Zenon DEF rest
      <4> QED
        BY <3>4, <3>7, <4>1, Zenon DEF AfterRecord, e, n
    <3> QED
      BY <3>5, <3>6, <3>7, Zenon
  <2> QED
    BY <2>3, <2>4, Zenon
<1> QED
  BY <1>1, <1>2, <1>5, <1>6

\* The table of FindA.
IsFind(f, buf, an) ==
  f = [i \in 0..an |-> [p \in Nat |-> IF i = an THEN Err ELSE RecordFrom(buf, f[i + 1], p)]]

LEMMA FindExists ==
  ASSUME NEW buf, NEW an \in Nat
  PROVE  \E f : IsFind(f, buf, an)
<1> DEFINE Row(f, i) == [p \in Nat |-> IF i = an THEN Err ELSE RecordFrom(buf, f[i + 1], p)]
           Fits(d, f) == /\ f = [i \in 0..an |-> f[i]]
                         /\ \A i \in 0..an : i + d >= an => f[i] = Row(f, i)
           Bad == {d \in Nat : ~\E f : Fits(d, f)}
<1>1. ASSUME Bad # {} PROVE FALSE
  <2>1. Bad \in SUBSET Nat
    OBVIOUS
  <2>2. PICK d \in Bad : \A y \in Bad : d <= y
    BY <1>1, <2>1, NatMin
  <2>3. d \in Nat /\ ~\E f : Fits(d, f)
    BY <2>2
  <2>4. CASE d = 0
    <3> DEFINE f == [i \in 0..an |-> [p \in Nat |-> Err]]
    <3>1. f = [i \in 0..an |-> f[i]] /\ \A i \in 0..an : f[i] = [p \in Nat |-> Err]
      BY Zenon
    <3>2. \A i \in 0..an : i + 0 >= an => i = an
      OBVIOUS
    <3>3. Row(f, an) = [p \in Nat |-> Err]
      BY Zenon
    <3> HIDE DEF f, Row
    <3>4. Fits(0, f)
      BY <3>1, <3>2, <3>3, Zenon
    <3> QED
      BY <2>3, <2>4, <3>4, Zenon
  <2>5. CASE d # 0
    <3>1. d - 1 \in Nat /\ ~(d <= d - 1)
      BY <2>3, <2>5
    <3>2. d - 1 \notin Bad
      BY <2>2, <3>1, Zenon
    <3>3. PICK f : Fits(d - 1, f)
      BY <3>1, <3>2, Zenon
    <3> DEFINE h == [i \in 0..an |-> IF i + (d - 1) >= an THEN f[i] ELSE Row(f, i)]
    <3>4. /\ h = [i \in 0..an |-> h[i]]
          /\ \A i \in 0..an : h[i] = IF i + (d - 1) >= an THEN f[i] ELSE Row(f, i)
      BY Zenon
    <3> HIDE DEF h
    <3>5. ASSUME NEW i \in 0..an, i + d >= an
          PROVE  h[i] = Row(h, i)
      <4>1. i # an => i + 1 \in 0..an /\ i + 1 + (d - 1) >= an
        BY <2>3, <3>5
      <4>2. i # an => f[i + 1] = h[i + 1]
        BY <3>4, <4>1, Zenon
      <4>3. Row(f, i) = Row(h, i)
        BY <4>2, Zenon
      <4>4. i + (d - 1) >= an => f[i] = Row(f, i)
        BY <3>3, Zenon
      <4> HIDE DEF Row
      <4> QED
        BY <3>4, <4>3, <4>4, Zenon
    <3> HIDE DEF Row
    <3>6. Fits(d, h)
      BY <3>4, <3>5, Zenon
    <3> QED
      BY <2>3, <3>6, Zenon
  <2> QED
    BY <2>4, <2>5
<1> HIDE DEF Row
<1>2. PICK f : Fits(an, f)
  <2>1. an \notin Bad
    BY <1>1, Zenon
  <2> HIDE DEF Fits
  <2> QED
    BY <2>1
<1>3. \A i \in 0..an : i + an >= an
  OBVIOUS
<1>4. f = [i \in 0..an |-> f[i]] /\ \A i \in 0..an : f[i] = Row(f, i)
  BY <1>2, <1>3, Zenon
<1>5. f = [i \in 0..an |-> Row(f, i)]
  BY <1>4, Zenon
<1> QED
  BY <1>5, Zenon DEF IsFind, Row

\* f is the walk over n records.
Walks(f, buf, n) ==
  \A i \in 0..n, p \in Nat : i # n => f[i][p] = RecordFrom(buf, f[i + 1], p)

LEMMA FindIsWalk ==
  ASSUME NEW buf, NEW an \in Nat
  PROVE  \E f : /\ \A p : FindA(buf, an, p) = f[0][p]
                /\ \A p \in Nat : f[an][p] = Err
                /\ Walks(f, buf, an)
<1> DEFINE f == CHOOSE f : IsFind(f, buf, an)
<1>1. IsFind(f, buf, an)
  BY FindExists
<1>2. \A p : FindA(buf, an, p) = f[0][p]
  BY DEF FindA, IsFind, RecordFrom
<1> HIDE DEF f
<1>3. \A i \in 0..an : f[i] = [p \in Nat |-> IF i = an THEN Err ELSE RecordFrom(buf, f[i + 1], p)]
  BY <1>1, Zenon DEF IsFind
<1>4. \A i \in 0..an, p \in Nat : f[i][p] = IF i = an THEN Err ELSE RecordFrom(buf, f[i + 1], p)
  BY <1>3, Zenon
<1>5. an \in 0..an
  OBVIOUS
<1> QED
  BY <1>2, <1>4, <1>5, Zenon DEF Walks

LEMMA FlatGrows ==
  ASSUME NEW ss \in Seq(Seq(Nat)), NEW g, FlatRows(g, ss),
         NEW i \in 0..Len(ss), NEW j \in i..Len(ss)
  PROVE  Len(g[i]) \in Nat /\ Len(g[j]) \in Nat /\ Len(g[i]) <= Len(g[j])
<1> DEFINE n == Len(ss)
           Bad == {k \in i..n : ~(Len(g[i]) <= Len(g[k]))}
<1>1. n \in Nat /\ i \in Nat /\ i \in 0..n /\ j \in 0..n /\ i \in i..n
  OBVIOUS
<1>2. \A k \in 0..n : Len(g[k]) \in Nat
  <2>1. \A k \in 0..n : g[k] \in Seq(Nat)
    BY Zenon DEF FlatRows
  <2> QED
    BY <2>1, LenProperties, Zenon
<1>3. \A k \in 1..n : Len(g[k]) = Len(g[k - 1]) + Len(ss[k]) /\ Len(ss[k]) \in Nat
  BY FlatAt, Zenon
<1> HIDE DEF n
<1>4. ASSUME Bad # {} PROVE FALSE
  <2>1. Bad \in SUBSET Nat
    BY <1>1
  <2>2. PICK k \in Bad : \A y \in Bad : k <= y
    BY <1>4, <2>1, NatMin
  <2>3. k \in i..n /\ ~(Len(g[i]) <= Len(g[k]))
    BY <2>2
  <2>4. k # i
    BY <1>1, <1>2, <2>3
  <2>5. k - 1 \in i..n /\ ~(k <= k - 1) /\ k \in 1..n /\ k - 1 \in 0..n /\ k \in 0..n
    BY <1>1, <2>3, <2>4
  <2>6. Len(g[i]) <= Len(g[k - 1])
    BY <2>2, <2>5, Zenon
  <2>7. /\ Len(g[k]) = Len(g[k - 1]) + Len(ss[k]) /\ Len(ss[k]) \in Nat
        /\ Len(g[k - 1]) \in Nat /\ Len(g[i]) \in Nat
    BY <1>1, <1>2, <1>3, <2>5, Zenon
  <2> DEFINE x == Len(g[i])
             y == Len(g[k - 1])
             z == Len(g[k])
             u == Len(ss[k])
  <2>8. z = y + u /\ u \in Nat /\ y \in Nat /\ x \in Nat /\ x <= y /\ ~(x <= z)
    BY <2>3, <2>6, <2>7, Zenon
  <2> HIDE DEF x, y, z, u
  <2> QED
    BY <2>8
<1>5. Len(g[i]) <= Len(g[j])
  BY <1>4, Zenon DEF n
<1> QED
  BY <1>1, <1>2, <1>5, Zenon

\* The A records with an address among recs; decode_a_response's result for
\* the records from position `start' of a buffer on.
Addresses(recs) == {i \in 1..Len(recs) : recs[i].rtype = 1 /\ Len(recs[i].data) = 4}
FirstAddress(recs) == CHOOSE i \in Addresses(recs) : \A j \in Addresses(recs) : i <= j
EndOf(recs, i) == Len(Flat([j \in 1..i |-> RecordBytes(recs[j])]))

\* f walks over the records recs, whose bytes ss stand at `start' of b.
WalksOver(f, buf, b, recs, ss, g, start) ==
  /\ FirstOf(buf, b) /\ At(b, start, Flat(ss)) /\ FlatRows(g, ss)
  /\ Len(ss) = Len(recs) /\ \A i \in 1..Len(recs) : ss[i] = RecordBytes(recs[i])
  /\ Walks(f, buf, Len(recs))

\* The walk is not over before record top + 1.
GoesOn(buf, recs, g, start, top, R) ==
  \A i \in 1..top : /\ i \notin Addresses(recs)
                    /\ start + Len(g[i]) > Len(buf) => R = Err

\* A walk that comes to the outcome R at record `top', with no address before
\* it, comes to it from the first record.
LEMMA WalkBack ==
  ASSUME NEW recs \in Seq(Records), NEW b \in Seq(Nat), NEW buf,
         NEW ss \in Seq(Seq(Nat)), NEW g, NEW start \in Nat,
         NEW f, WalksOver(f, buf, b, recs, ss, g, start),
         NEW top \in 0..Len(recs), GoesOn(buf, recs, g, start, top, f[top][start + Len(g[top])])
  PROVE  f[0][start] = f[top][start + Len(g[top])]
<1> DEFINE R == f[top][start + Len(g[top])]
<1>a. /\ FirstOf(buf, b) /\ At(b, start, Flat(ss)) /\ FlatRows(g, ss)
      /\ Len(ss) = Len(recs) /\ \A i \in 1..Len(recs) : ss[i] = RecordBytes(recs[i])
      /\ Walks(f, buf, Len(recs)) /\ GoesOn(buf, recs, g, start, top, R)
  BY Zenon DEF WalksOver
<1> USE <1>a
<1>b. f[top][start + Len(g[top])] = R
  OBVIOUS
<1> HIDE DEF R
<1> DEFINE n == Len(recs)
           Comes(i) == f[i][start + Len(g[i])] = R
           Bad == {d \in 0..top : ~Comes(top - d)}
<1>1. n \in Nat /\ top \in Nat /\ top <= n /\ \A i \in 1..n : recs[i] \in Records
  OBVIOUS
<1>2. g[0] = <<>> /\ Flat(ss) = g[n] /\ Flat(ss) \in Seq(Nat)
  BY FlatType, Zenon DEF FlatRows
<1> HIDE DEF n
<1>3. ASSUME NEW i \in 0..top, i < top, Comes(i + 1) PROVE Comes(i)
  <2> DEFINE j == i + 1
             r == recs[j]
             p == start + Len(g[i])
             e == p + Len(RecordBytes(r))
  <2>1. i \in 0..n /\ i # n /\ j \in 1..n /\ j \in 1..top /\ j - 1 = i
    BY <1>1, <1>3
  <2>2. r \in Records /\ ss[j] = RecordBytes(r) /\ j \in 1..Len(ss)
    BY <1>1, <2>1, Zenon DEF n
  <2>3. /\ At(Flat(ss), Len(g[i]), RecordBytes(r))
        /\ Len(g[i]) \in Nat /\ Len(RecordBytes(r)) \in Nat
        /\ Len(g[j]) = Len(g[i]) + Len(RecordBytes(r))
    <3> HIDE DEF j
    <3>1. /\ At(Flat(ss), Len(g[j - 1]), ss[j])
          /\ Len(g[j - 1]) \in Nat /\ Len(ss[j]) \in Nat
          /\ Len(g[j]) = Len(g[j - 1]) + Len(ss[j])
      BY <2>2, FlatAt
    <3> QED
      BY <2>1, <2>2, <3>1
  <2> HIDE DEF r
  <2>4. p \in Nat /\ e = start + Len(g[j])
    BY <2>3
  <2>5. At(b, p, RecordBytes(r))
    BY <1>2, <2>2, <2>3, RecordBytesType, AtPart, Zenon
  <2>6. f[i][p] = RecordFrom(buf, f[j], p)
    BY <2>1, <2>4, Zenon DEF n, Walks
  <2>7. RecordFrom(buf, f[j], p) = AfterRecord(buf, f[j], r, e)
    <3> HIDE DEF p, j
    <3> QED
      BY <2>2, <2>4, <2>5, RecordStep
  <2>8. ~(r.rtype = 1 /\ Len(r.data) = 4) /\ (e > Len(buf) => R = Err)
    <3>1. j \notin Addresses(recs) /\ (start + Len(g[j]) > Len(buf) => R = Err)
      BY <2>1, Zenon DEF GoesOn
    <3>2. ~(r.rtype = 1 /\ Len(r.data) = 4)
      BY <2>1, <3>1, Zenon DEF Addresses, r, n
    <3> QED
      BY <2>4, <3>1, <3>2, Zenon
  <2>9. f[j][e] = R
    BY <1>3, <2>4, Zenon
  <2> HIDE DEF p, e, j
  <2>10. AfterRecord(buf, f[j], r, e) = R
    BY <2>8, <2>9, Zenon DEF AfterRecord
  <2> QED
    BY <2>6, <2>7, <2>10, Zenon DEF p
<1>4. Comes(top)
  BY <1>b
<1> HIDE DEF Comes
<1>5. ASSUME Bad # {} PROVE FALSE
  <2>1. Bad \in SUBSET Nat
    BY <1>1
  <2>2. PICK d \in Bad : \A y \in Bad : d <= y
    BY <1>5, <2>1, NatMin
  <2>3. d \in 0..top /\ ~Comes(top - d)
    BY <2>2
  <2>4. d # 0
    <3>1. top - 0 = top
      BY <1>1
    <3> QED
      BY <1>4, <2>3, <3>1
  <2>5. /\ d - 1 \in 0..top /\ ~(d <= d - 1)
        /\ top - d \in 0..top /\ top - d < top /\ top - d + 1 = top - (d - 1)
    BY <1>1, <2>3, <2>4
  <2>6. Comes(top - (d - 1))
    BY <2>2, <2>5, Zenon
  <2>7. Comes(top - d)
    BY <1>3, <2>5, <2>6, Zenon
  <2> QED
    BY <2>3, <2>7
<1>6. top \in 0..top /\ top - top = 0
  BY <1>1
<1>7. Comes(top - top)
  BY <1>5, <1>6, Zenon
<1>8. Comes(0)
  BY <1>6, <1>7, Zenon
<1>9. start + Len(g[0]) = start
  BY <1>2
<1> QED
  BY <1>8, <1>9, Zenon DEF Comes, R

\* What the walk over the records of an answer comes to.
FirstFound(buf, start, recs) ==
  IF Addresses(recs) = {} \/ start + EndOf(recs, FirstAddress(recs)) > Len(buf) THEN Err
  ELSE [ok |-> TRUE, addr |-> recs[FirstAddress(recs)].data]

LEMMA FoundFirst ==
  ASSUME NEW recs \in Seq(Records), NEW b \in Seq(Nat), NEW buf, FirstOf(buf, b),
         NEW start \in Nat,
         At(b, start, Flat([i \in 1..Len(recs) |-> RecordBytes(recs[i])]))
  PROVE  FindA(buf, Len(recs), start) = FirstFound(buf, start, recs)
<1> DEFINE n == Len(recs)
           ss == [i \in 1..n |-> RecordBytes(recs[i])]
<1>1. n \in Nat /\ \A i \in 1..n : recs[i] \in Records
  OBVIOUS
<1>2. \A i \in 1..n : RecordBytes(recs[i]) \in Seq(Nat)
  BY <1>1, RecordBytesType, Zenon
<1>3. ss \in Seq(Seq(Nat)) /\ Len(ss) = n /\ \A i \in 1..n : ss[i] = RecordBytes(recs[i])
  BY <1>1, <1>2
<1>4. At(b, start, Flat(ss))
  OBVIOUS
<1> HIDE DEF ss
<1>5. PICK g : FlatRows(g, ss)
  BY <1>3, FlatTable, Zenon
<1>6. ASSUME NEW i \in 0..n PROVE EndOf(recs, i) = Len(g[i])
  <2>1. i \in 0..Len(ss)
    BY <1>3, Zenon
  <2>2. Flat([j \in 1..i |-> ss[j]]) = g[i]
    BY <1>3, <1>5, <2>1, FlatFirst
  <2>3. \A j \in 1..i : j \in 1..n
    BY <1>1
  <2>4. \A j \in 1..i : ss[j] = RecordBytes(recs[j])
    BY <1>3, <2>3, Zenon
  <2>5. [j \in 1..i |-> ss[j]] = [j \in 1..i |-> RecordBytes(recs[j])]
    BY <2>4, Zenon
  <2> QED
    BY <2>2, <2>5, Zenon DEF EndOf
<1>7. PICK f : /\ \A p : FindA(buf, n, p) = f[0][p]
               /\ \A p \in Nat : f[n][p] = Err
               /\ Walks(f, buf, n)
  BY <1>1, FindIsWalk
<1>8. ASSUME NEW top \in 0..n, NEW R, f[top][start + Len(g[top])] = R,
             GoesOn(buf, recs, g, start, top, R)
      PROVE  FindA(buf, n, start) = R
  <2>1. WalksOver(f, buf, b, recs, ss, g, start)
    BY <1>3, <1>4, <1>5, <1>7, Zenon DEF WalksOver
  <2>2. GoesOn(buf, recs, g, start, top, f[top][start + Len(g[top])])
    BY <1>8, Zenon
  <2>3. f[0][start] = f[top][start + Len(g[top])]
    BY <1>3, <2>1, <2>2, WalkBack
  <2> QED
    BY <1>7, <1>8, <2>3, Zenon
<1>9. \A i \in 0..n : Len(g[i]) \in Nat
  <2>1. \A i \in 0..n : g[i] \in Seq(Nat)
    BY <1>3, <1>5, Zenon DEF FlatRows
  <2> QED
    BY <2>1, LenProperties, Zenon
<1>10. CASE Addresses(recs) = {}
  <2>1. n \in 0..n
    BY <1>1
  <2>2. start + Len(g[n]) \in Nat
    BY <1>9, <2>1
  <2>3. f[n][start + Len(g[n])] = Err
    BY <1>7, <2>2, Zenon
  <2>4. FindA(buf, n, start) = Err
    BY <1>8, <1>10, <2>1, <2>3, Zenon DEF GoesOn
  <2> QED
    BY <1>10, <2>4, Zenon DEF FirstFound
<1>11. CASE Addresses(recs) # {}
  <2> DEFINE a == FirstAddress(recs)
             R == IF start + Len(g[a]) > Len(buf) THEN Err
                  ELSE [ok |-> TRUE, addr |-> recs[a].data]
             top == a - 1
  <2>1. a \in Addresses(recs) /\ \A j \in Addresses(recs) : a <= j
    <3>1. Addresses(recs) \in SUBSET Nat
      BY <1>1 DEF Addresses
    <3>2. \E i \in Addresses(recs) : \A j \in Addresses(recs) : i <= j
      BY <1>11, <3>1, NatMin
    <3> QED
      BY <3>2, Zenon DEF FirstAddress
  <2> HIDE DEF a
  <2>2. a \in 1..n /\ recs[a].rtype = 1 /\ Len(recs[a].data) = 4
    BY <2>1, Zenon DEF Addresses
  <2>3. /\ top \in 0..n /\ top # n /\ top + 1 = a /\ a \in 0..n /\ a \in 1..Len(ss)
        /\ \A i \in 1..top : i \in 0..n /\ ~(a <= i) /\ a \in i..n
    BY <1>1, <1>3, <2>2
  <2>4. /\ At(Flat(ss), Len(g[top]), RecordBytes(recs[a]))
        /\ Len(g[top]) \in Nat /\ Len(RecordBytes(recs[a])) \in Nat
        /\ Len(g[a]) = Len(g[top]) + Len(RecordBytes(recs[a]))
    <3>1. ss[a] = RecordBytes(recs[a])
      BY <1>3, <2>2, Zenon
    <3>2. /\ At(Flat(ss), Len(g[a - 1]), ss[a])
          /\ Len(g[a - 1]) \in Nat /\ Len(ss[a]) \in Nat
          /\ Len(g[a]) = Len(g[a - 1]) + Len(ss[a])
      BY <1>3, <1>5, <2>3, FlatAt
    <3> QED
      BY <3>1, <3>2, Zenon
  <2> DEFINE r == recs[a]
             p == start + Len(g[top])
  <2>5. p \in Nat /\ p + Len(RecordBytes(r)) = start + Len(g[a])
    <3> DEFINE x == Len(g[top])
               y == Len(g[a])
               z == Len(RecordBytes(r))
    <3>1. x \in Nat /\ z \in Nat /\ y = x + z
      BY <2>4, Zenon
    <3> HIDE DEF x, y, z
    <3>2. start + x \in Nat /\ start + x + z = start + y
      BY <3>1
    <3> QED
      BY <3>2, Zenon DEF x, y, z
  <2>6. r \in Records /\ RecordBytes(r) \in Seq(Nat) /\ Flat(ss) \in Seq(Nat)
    BY <1>1, <1>3, <2>2, FlatType, RecordBytesType, Zenon
  <2> HIDE DEF r
  <2>7. At(b, p, RecordBytes(r))
    BY <1>4, <2>4, <2>6, AtPart, Zenon DEF r
  <2> HIDE DEF p
  <2>8. RecordFrom(buf, f[top + 1], p) = AfterRecord(buf, f[top + 1], r, start + Len(g[a]))
    <3>1. RecordFrom(buf, f[top + 1], p) = AfterRecord(buf, f[top + 1], r, p + Len(RecordBytes(r)))
      BY <2>5, <2>6, <2>7, RecordStep
    <3> QED
      BY <2>5, <3>1, Zenon
  <2>9. AfterRecord(buf, f[top + 1], r, start + Len(g[a])) = R
    BY <2>2, Zenon DEF AfterRecord, r
  <2> HIDE DEF R
  <2>10. f[top][p] = R
    BY <1>7, <2>3, <2>5, <2>8, <2>9, Zenon DEF Walks
  <2> HIDE DEF top
  <2>11. ASSUME NEW i \in 1..top
         PROVE  /\ i \notin Addresses(recs)
                /\ start + Len(g[i]) > Len(buf) => R = Err
    <3>1. i \notin Addresses(recs)
      BY <2>1, <2>3, Zenon
    <3>2. i \in 0..Len(ss) /\ a \in i..Len(ss)
      BY <1>3, <2>3, Zenon
    <3>3. Len(g[i]) \in Nat /\ Len(g[a]) \in Nat /\ Len(g[i]) <= Len(g[a])
      BY <1>3, <1>5, <3>2, FlatGrows
    <3>4. Len(buf) \in Nat
      BY LenProperties DEF FirstOf
    <3>5. start + Len(g[i]) > Len(buf) => start + Len(g[a]) > Len(buf)
      BY <3>3, <3>4
    <3> QED
      BY <3>1, <3>5, Zenon DEF R
  <2>12. FindA(buf, n, start) = R
    BY <1>8, <2>3, <2>10, <2>11, Zenon DEF p, GoesOn
  <2>13. EndOf(recs, a) = Len(g[a])
    BY <1>6, <2>3, Zenon
  <2> QED
    BY <1>11, <2>12, <2>13, Zenon DEF FirstFound, R, a
<1> QED
  BY <1>10, <1>11, Zenon

\* The bytes up to the end of a record are some of those of all records.
LEMMA EndOfWithin ==
  ASSUME NEW recs \in Seq(Records), NEW a \in 1..Len(recs)
  PROVE  /\ EndOf(recs, a) \in Nat
         /\ EndOf(recs, a) <= Len(Flat([i \in 1..Len(recs) |-> RecordBytes(recs[i])]))
<1> DEFINE n == Len(recs)
           ss == [i \in 1..n |-> RecordBytes(recs[i])]
<1>1. n \in Nat /\ a \in 0..n /\ n \in a..n /\ \A i \in 1..n : recs[i] \in Records
  OBVIOUS
<1>2. \A i \in 1..n : RecordBytes(recs[i]) \in Seq(Nat)
  BY <1>1, RecordBytesType, Zenon
<1>3. ss \in Seq(Seq(Nat)) /\ Len(ss) = n /\ \A i \in 1..n : ss[i] = RecordBytes(recs[i])
  BY <1>1, <1>2
<1> HIDE DEF ss
<1>4. PICK g : FlatRows(g, ss)
  BY <1>3, FlatTable, Zenon
<1>5. a \in 0..Len(ss) /\ n \in a..Len(ss)
  BY <1>1, <1>3, Zenon
<1>6. Len(g[a]) \in Nat /\ Len(g[a]) <= Len(g[n])
  BY <1>3, <1>4, <1>5, FlatGrows
<1>7. Flat([j \in 1..a |-> ss[j]]) = g[a]
  BY <1>3, <1>4, <1>5, FlatFirst
<1>8. \A j \in 1..a : j \in 1..n
  BY <1>1
<1>9. [j \in 1..a |-> ss[j]] = [j \in 1..a |-> RecordBytes(recs[j])]
  BY <1>3, <1>8, Zenon
<1>10. EndOf(recs, a) = Len(g[a])
  BY <1>7, <1>9, Zenon DEF EndOf
<1>11. Flat(ss) = g[n]
  BY <1>3, <1>4, Zenon DEF FlatRows
<1> QED
  BY <1>6, <1>10, <1>11, Zenon DEF ss

\* The layout of a question and of the head of an answer.
LEMMA QuestionLayout ==
  ASSUME NEW b \in Seq(Nat), NEW p \in Nat, NEW labels \in Seq(Labels),
         At(b, p, QuestionBytes(labels))
  PROVE  LET name == LabelBytes(labels) \o <<0>> IN
         /\ Len(name) \in Nat /\ At(b, p, name) /\ Len(QuestionBytes(labels)) = Len(name) + 4
<1> DEFINE name == LabelBytes(labels) \o <<0>>
           u == U16(1)
           s == name \o u
<1>1. LabelBytes(labels) \in Seq(Nat) /\ <<0>> \in Seq(Nat) /\ 1 \in Nat
  BY LabelBytesType
<1>2. name \in Seq(Nat) /\ u \in Seq(Nat) /\ Len(u) = 2
  BY <1>1, ConcatType, U16Type, Zenon
<1>3. QuestionBytes(labels) = s \o u
  BY Zenon DEF QuestionBytes
<1> HIDE DEF name, u
<1>4. s \in Seq(Nat) /\ Len(s) = Len(name) + Len(u)
  BY <1>2, ConcatFacts, Zenon
<1>5. At(b, p, name)
  <2>1. At(b, p, s)
    <3> HIDE DEF s
    <3> QED
      BY <1>2, <1>3, <1>4, AtConcat, Zenon
  <2> QED
    BY <1>2, <2>1, AtConcat, Zenon
<1> HIDE DEF s
<1>6. Len(s \o u) = Len(s) + Len(u)
  BY <1>2, <1>4, ConcatFacts, Zenon
<1>7. Len(name) \in Nat
  BY <1>2, LenProperties, Zenon
<1>8. Len(s \o u) = Len(name) + 4
  BY <1>2, <1>4, <1>6, <1>7
<1> QED
  BY <1>3, <1>5, <1>7, <1>8, Zenon DEF name

LEMMA HeadLayout ==
  ASSUME NEW m \in Messages
  PROVE  LET b == ReplyBytes(m)
             question == IF m.echo THEN QuestionBytes(m.labels) ELSE <<>>
         IN  /\ b \in Seq(Nat)
             /\ At(b, 0, U16(m.id)) /\ At(b, 2, <<129, 128 + m.rcode>>)
             /\ At(b, 4, U16(IF m.echo THEN 1 ELSE 0)) /\ At(b, 6, U16(Len(m.answers)))
             /\ At(b, 12, question) /\ Len(question) \in Nat
             /\ Len(ReplyHead(m)) = 12 + Len(question)
             /\ Len(b) = Len(ReplyHead(m))
                         + Len(Flat([i \in 1..Len(m.answers) |-> RecordBytes(m.answers[i])]))
             /\ At(b, Len(ReplyHead(m)),
                   Flat([i \in 1..Len(m.answers) |-> RecordBytes(m.answers[i])]))
<1>1. /\ m.id \in Nat /\ m.rcode \in 0..15 /\ m.labels \in Seq(Labels)
      /\ m.answers \in Seq(Records) /\ Len(m.answers) \in Nat
  BY DEF Messages
<1> DEFINE b == ReplyBytes(m)
           question == IF m.echo THEN QuestionBytes(m.labels) ELSE <<>>
           i == U16(m.id)
           fl == <<129, 128 + m.rcode>>
           qd == U16(IF m.echo THEN 1 ELSE 0)
           an == U16(Len(m.answers))
           z == U16(0)
           body == Flat([k \in 1..Len(m.answers) |-> RecordBytes(m.answers[k])])
           s1 == i \o fl
           s2 == s1 \o qd
           s3 == s2 \o an
           s4 == s3 \o z
           s5 == s4 \o z
           head == s5 \o question
<1>2. ReplyHead(m) = head /\ b = ReplyHead(m) \o body
  BY Zenon DEF ReplyHead, ReplyBytes
<1>3. fl \in Seq(Nat) /\ Len(fl) = 2
  BY <1>1, FlagBytes
<1>4. /\ i \in Seq(Nat) /\ Len(i) = 2 /\ qd \in Seq(Nat) /\ Len(qd) = 2
      /\ an \in Seq(Nat) /\ Len(an) = 2 /\ z \in Seq(Nat) /\ Len(z) = 2
  <2>1. 0 \in Nat /\ (IF m.echo THEN 1 ELSE 0) \in Nat
    OBVIOUS
  <2> QED
    BY <1>1, <2>1, U16Type, Zenon
<1>5. question \in Seq(Nat)
  <2>1. LabelBytes(m.labels) \in Seq(Nat)
    BY <1>1, LabelBytesType, Zenon
  <2>2. <<0>> \in Seq(Nat) /\ <<>> \in Seq(Nat) /\ 1 \in Nat
    OBVIOUS
  <2>3. QuestionBytes(m.labels) \in Seq(Nat)
    BY <2>1, <2>2, ConcatType, U16Type, Zenon DEF QuestionBytes
  <2> QED
    BY <2>2, <2>3, Zenon
<1>6. body \in Seq(Nat)
  <2> DEFINE ss == [k \in 1..Len(m.answers) |-> RecordBytes(m.answers[k])]
  <2>1. \A k \in 1..Len(m.answers) : m.answers[k] \in Records
    BY <1>1
  <2>2. \A k \in 1..Len(m.answers) : RecordBytes(m.answers[k]) \in Seq(Nat)
    BY <2>1, RecordBytesType, Zenon
  <2>3. ss \in Seq(Seq(Nat))
    BY <1>1, <2>2
  <2> QED
    BY <2>3, FlatType, Zenon
<1> HIDE DEF b, question, i, fl, qd, an, z, body
<1>7. s1 \in Seq(Nat) /\ Len(s1) = Len(i) + Len(fl)
  BY <1>3, <1>4, ConcatFacts, Zenon
<1> HIDE DEF s1
<1>8. s2 \in Seq(Nat) /\ Len(s2) = Len(s1) + Len(qd)
  BY <1>4, <1>7, ConcatFacts, Zenon
<1> HIDE DEF s2
<1>9. s3 \in Seq(Nat) /\ Len(s3) = Len(s2) + Len(an)
  BY <1>4, <1>8, ConcatFacts, Zenon
<1> HIDE DEF s3
<1>10. s4 \in Seq(Nat) /\ Len(s4) = Len(s3) + Len(z)
  BY <1>4, <1>9, ConcatFacts, Zenon
<1> HIDE DEF s4
<1>11. s5 \in Seq(Nat) /\ Len(s5) = Len(s4) + Len(z)
  BY <1>4, <1>10, ConcatFacts, Zenon
<1> HIDE DEF s5
<1>12. head \in Seq(Nat) /\ Len(head) = Len(s5) + Len(question)
  BY <1>5, <1>11, ConcatFacts, Zenon
<1> HIDE DEF head
<1>13. b = head \o body
  BY <1>2
<1>14. b \in Seq(Nat) /\ Len(b) = Len(head) + Len(body)
  BY <1>6, <1>12, <1>13, ConcatFacts, Zenon
<1>15. At(b, 0, head) /\ At(b, Len(head), body)
  BY <1>6, <1>12, <1>13, AtStart, Zenon
<1>16. 0 \in Nat
  OBVIOUS
<1>17. At(b, 0, s5) /\ At(b, 0 + Len(s5), question)
  BY <1>5, <1>11, <1>14, <1>15, <1>16, AtConcat, Zenon DEF head
<1>18. At(b, 0, s4)
  BY <1>4, <1>10, <1>14, <1>16, <1>17, AtConcat, Zenon DEF s5
<1>19. At(b, 0, s3)
  BY <1>4, <1>9, <1>14, <1>16, <1>18, AtConcat, Zenon DEF s4
<1>20. At(b, 0, s2) /\ At(b, 0 + Len(s2), an)
  BY <1>4, <1>8, <1>14, <1>16, <1>19, AtConcat, Zenon DEF s3
<1>21. At(b, 0, s1) /\ At(b, 0 + Len(s1), qd)
  BY <1>4, <1>7, <1>14, <1>16, <1>20, AtConcat, Zenon DEF s2
<1>22. At(b, 0, i) /\ At(b, 0 + Len(i), fl)
  BY <1>3, <1>4, <1>14, <1>16, <1>21, AtConcat, Zenon DEF s1
<1>23. /\ 0 + Len(i) = 2 /\ 0 + Len(s1) = 4 /\ 0 + Len(s2) = 6 /\ 0 + Len(s5) = 12
       /\ Len(s5) = 12
  BY <1>3, <1>4, <1>7, <1>8, <1>9, <1>10, <1>11
<1>24. Len(question) \in Nat
  BY <1>5, LenProperties, Zenon
<1>25. At(b, 2, fl) /\ At(b, 4, qd) /\ At(b, 6, an) /\ At(b, 12, question)
  BY <1>17, <1>20, <1>21, <1>22, <1>23
<1>26. Len(head) = 12 + Len(question)
  BY <1>12, <1>23
<1> QED
  BY <1>2, <1>14, <1>15, <1>22, <1>24, <1>25, <1>26, Zenon DEF b, question, i, fl, qd, an, body

\* The position behind the question, if there is one.
AfterName(buf, name) ==
  IF ~name.ok \/ name.pos + 4 > Len(buf) THEN Err ELSE [ok |-> TRUE, pos |-> name.pos + 4]

LEMMA NoQuestion ==
  ASSUME NEW buf
  PROVE  SkipQuestions(buf, 0) = [ok |-> TRUE, pos |-> 12]
<1> DEFINE s == [ok |-> TRUE, pos |-> 12]
           Row(f, i) == IF i = 0 THEN s
                        ELSE IF ~f[i - 1].ok THEN Err ELSE AfterName(buf, SkipName(buf, f[i - 1].pos))
           Is(f) == f = [i \in 0..0 |-> Row(f, i)]
           f == CHOOSE f : Is(f)
           w == [i \in 0..0 |-> s]
<1>1. \A h : \A i \in 0..0 : Row(h, i) = s
  OBVIOUS
<1>2. SkipQuestions(buf, 0) = f[0]
  BY DEF SkipQuestions, AfterName
<1> HIDE DEF s, Row
<1>3. Is(w)
  BY <1>1, Zenon
<1>4. Is(f)
  <2> HIDE DEF Is, w
  <2> QED
    BY <1>3
<1>5. 0 \in 0..0
  OBVIOUS
<1> HIDE DEF f
<1>6. f[0] = Row(f, 0)
  BY <1>4, <1>5, Zenon
<1>7. f[0] = s
  BY <1>1, <1>5, <1>6, Zenon
<1> QED
  BY <1>2, <1>7 DEF s

LEMMA OneQuestion ==
  ASSUME NEW buf
  PROVE  SkipQuestions(buf, 1) = AfterName(buf, SkipName(buf, 12))
<1> DEFINE s == [ok |-> TRUE, pos |-> 12]
           Next1(r) == IF ~r.ok THEN Err ELSE AfterName(buf, SkipName(buf, r.pos))
           Row(f, i) == IF i = 0 THEN s ELSE Next1(f[i - 1])
           Is(f) == f = [i \in 0..1 |-> Row(f, i)]
           f == CHOOSE f : Is(f)
           w == [i \in 0..1 |-> IF i = 0 THEN s ELSE Next1(s)]
<1>1. SkipQuestions(buf, 1) = f[1]
  BY DEF SkipQuestions, AfterName
<1>2. 0 \in 0..1 /\ 1 \in 0..1 /\ 1 # 0 /\ 1 - 1 = 0 /\ \A i \in 0..1 : i = 0 \/ i = 1
  OBVIOUS
<1>3. s.ok /\ s.pos = 12
  OBVIOUS
<1>4. Next1(s) = AfterName(buf, SkipName(buf, 12))
  BY <1>3
<1> HIDE DEF s, Next1
<1>5. Is(w)
  <2>1. w[0] = s
    BY <1>2, Zenon
  <2>2. \A i \in 0..1 : Row(w, i) = IF i = 0 THEN s ELSE Next1(s)
    BY <1>2, <2>1, Zenon
  <2> HIDE DEF Row
  <2> QED
    BY <2>2, Zenon
<1>6. Is(f)
  <2> HIDE DEF Is, w
  <2> QED
    BY <1>5
<1> HIDE DEF f
<1>7. f[0] = s /\ f[1] = Next1(f[1 - 1])
  BY <1>2, <1>6, Zenon
<1>8. f[1] = Next1(s)
  BY <1>2, <1>7, Zenon
<1> QED
  BY <1>1, <1>4, <1>8, Zenon

\* The walk over the question ends where the records begin, if the buffer
\* reaches that far.
LEMMA QuestionSkipped ==
  ASSUME NEW m \in Messages, NEW buf, FirstOf(buf, ReplyBytes(m)), 12 <= Len(buf)
  PROVE  SkipQuestions(buf, IF m.echo THEN 1 ELSE 0) = Skipped(buf, Len(ReplyHead(m)))
<1> DEFINE b == ReplyBytes(m)
           question == IF m.echo THEN QuestionBytes(m.labels) ELSE <<>>
<1>1. /\ b \in Seq(Nat) /\ At(b, 12, question) /\ Len(question) \in Nat
      /\ Len(ReplyHead(m)) = 12 + Len(question)
  BY HeadLayout, Zenon
<1>2. m.labels \in Seq(Labels)
  BY DEF Messages
<1>3. Len(buf) \in Nat
  BY LenProperties DEF FirstOf
<1> HIDE DEF b
<1>4. CASE ~m.echo
  <2>1. Len(question) = 0
    BY <1>4
  <2>2. Len(ReplyHead(m)) = 12
    BY <1>1, <2>1
  <2>3. SkipQuestions(buf, IF m.echo THEN 1 ELSE 0) = [ok |-> TRUE, pos |-> 12]
    BY <1>4, NoQuestion
  <2> QED
    BY <2>2, <2>3 DEF Skipped
<1>5. CASE m.echo
  <2> DEFINE name == LabelBytes(m.labels) \o <<0>>
             n == Len(name)
  <2>1. At(b, 12, QuestionBytes(m.labels)) /\ Len(QuestionBytes(m.labels)) = Len(question)
    BY <1>1, <1>5
  <2>2. 12 \in Nat /\ <<0>> \in NameEnds
    BY DEF NameEnds
  <2>3. n \in Nat /\ At(b, 12, name) /\ Len(question) = n + 4
    BY <1>1, <1>2, <2>1, <2>2, QuestionLayout
  <2>4. SkipName(buf, 12) = Skipped(buf, 12 + n)
    <3> DEFINE p == 12
               end == <<0>>
    <3>1. FirstOf(buf, b) /\ b \in Seq(Nat) /\ p \in Nat /\ end \in NameEnds
      BY <1>1, <2>2 DEF b
    <3>2. At(b, p, LabelBytes(m.labels) \o end)
      BY <2>3
    <3> HIDE DEF p, end
    <3>3. SkipName(buf, p) = Skipped(buf, p + Len(LabelBytes(m.labels) \o end))
      BY <1>2, <3>1, <3>2, SkipWholeName
    <3> QED
      BY <3>3 DEF p, end
  <2>5. SkipQuestions(buf, IF m.echo THEN 1 ELSE 0) = AfterName(buf, SkipName(buf, 12))
    BY <1>5, OneQuestion
  <2> HIDE DEF n
  <2>6. Len(ReplyHead(m)) = 12 + n + 4
    BY <1>1, <2>3
  <2>7. AfterName(buf, Skipped(buf, 12 + n)) = Skipped(buf, 12 + n + 4)
    <3>1. CASE 12 + n <= Len(buf)
      <4> DEFINE r == [ok |-> TRUE, pos |-> 12 + n]
      <4>1. Skipped(buf, 12 + n) = r /\ r.ok /\ r.pos = 12 + n
        BY <3>1 DEF Skipped
      <4> HIDE DEF r
      <4>2. AfterName(buf, r) = IF 12 + n + 4 > Len(buf) THEN Err
                                ELSE [ok |-> TRUE, pos |-> 12 + n + 4]
        BY <4>1 DEF AfterName
      <4>3. 12 + n + 4 > Len(buf) <=> ~(12 + n + 4 <= Len(buf))
        BY <1>3, <2>3
      <4> QED
        BY <4>1, <4>2, <4>3 DEF Skipped
    <3>2. CASE ~(12 + n <= Len(buf))
      <4>1. ~(12 + n + 4 <= Len(buf))
        BY <1>3, <2>3, <3>2
      <4>2. Skipped(buf, 12 + n) = Err /\ Skipped(buf, 12 + n + 4) = Err /\ ~Err.ok
        BY <3>2, <4>1 DEF Skipped, Err
      <4> QED
        BY <4>2, Zenon DEF AfterName
    <3> QED
      BY <3>1, <3>2
  <2> QED
    BY <2>4, <2>5, <2>6, <2>7
<1> QED
  BY <1>4, <1>5

\* What decode_a_response finds in a buffer is what the message in it says.
LEMMA AnswersAs ==
  ASSUME NEW m, NEW size, NEW expected_id
  PROVE  Answers(m, size, expected_id) =
           IF m.id # expected_id \/ m.rcode # 0 \/ Addresses(m.answers) = {} THEN Err
           ELSE IF Len(ReplyHead(m)) + EndOf(m.answers, FirstAddress(m.answers)) > size THEN Err
           ELSE [ok |-> TRUE, addr |-> m.answers[FirstAddress(m.answers)].data]
BY Zenon DEF Answers, Addresses, FirstAddress, EndOfRecord, EndOf

LEMMA HeadRead ==
  ASSUME NEW m \in Messages, NEW buf, FirstOf(buf, ReplyBytes(m)), 12 <= Len(buf)
  PROVE  /\ ReadU16(buf, 0) = m.id /\ buf[4] % 16 = m.rcode
         /\ ReadU16(buf, 4) = IF m.echo THEN 1 ELSE 0
         /\ ReadU16(buf, 6) = Len(m.answers)
<1> DEFINE b == ReplyBytes(m)
           qd == IF m.echo THEN 1 ELSE 0
           fl == <<129, 128 + m.rcode>>
<1>1. /\ At(b, 0, U16(m.id)) /\ At(b, 2, fl) /\ At(b, 4, U16(qd)) /\ At(b, 6, U16(Len(m.answers)))
  BY HeadLayout, Zenon
<1>2. m.id \in Nat /\ m.rcode \in 0..15 /\ Len(m.answers) \in Nat /\ qd \in Nat
  BY DEF Messages
<1>3. Len(buf) \in Nat
  BY LenProperties DEF FirstOf
<1>4. FirstOf(buf, b)
  OBVIOUS
<1> HIDE DEF b, qd
<1>5. /\ 0 \in Nat /\ 2 \in Nat /\ 4 \in Nat /\ 6 \in Nat
      /\ 0 + 2 <= Len(buf) /\ 2 + 2 <= Len(buf) /\ 4 + 2 <= Len(buf) /\ 6 + 2 <= Len(buf)
  BY <1>3
<1>6. ReadU16(buf, 0) = m.id /\ ReadU16(buf, 4) = qd /\ ReadU16(buf, 6) = Len(m.answers)
  BY <1>1, <1>2, <1>4, <1>5, ReadU16At
<1>7. /\ fl \in Seq(Nat) /\ Len(fl) = 2 /\ fl[2] = 128 + m.rcode
      /\ (128 + m.rcode) % 16 = m.rcode
  BY <1>2, FlagBytes
<1> HIDE DEF fl
<1>8. buf[2 + 2] = fl[2]
  <2>1. 2 \in 1..Len(fl)
    BY <1>7
  <2> QED
    BY <1>1, <1>4, <1>5, <1>7, <2>1, ReadAt
<1>9. buf[4] = 128 + m.rcode
  BY <1>7, <1>8
<1> QED
  BY <1>6, <1>7, <1>9 DEF qd

LEMMA DecodeReply ==
  ASSUME NEW m \in Messages, NEW size \in Nat, NEW expected_id
  PROVE  DecodeAResponse(expected_id, Cut(ReplyBytes(m), size)) = Answers(m, size, expected_id)
<1> DEFINE b == ReplyBytes(m)
           buf == Cut(b, size)
           recs == m.answers
           n == Len(recs)
           body == Flat([i \in 1..n |-> RecordBytes(recs[i])])
           start == Len(ReplyHead(m))
           a == FirstAddress(recs)
           end == start + EndOf(recs, a)
           Found == [ok |-> TRUE, addr |-> recs[a].data]
<1>1. /\ b \in Seq(Nat) /\ start \in Nat /\ start >= 12
      /\ Len(b) = start + Len(body) /\ At(b, start, body)
  <2> DEFINE q == Len(IF m.echo THEN QuestionBytes(m.labels) ELSE <<>>)
  <2>1. b \in Seq(Nat) /\ Len(b) = start + Len(body) /\ At(b, start, body) /\ start = 12 + q /\ q \in Nat
    BY HeadLayout, Zenon
  <2> HIDE DEF q, start
  <2>2. start \in Nat /\ start >= 12
    BY <2>1
  <2> QED
    BY <2>1, <2>2, Zenon
<1>2. recs \in Seq(Records) /\ n \in Nat
  BY DEF Messages
<1> HIDE DEF b
<1>3. /\ buf \in Seq(Nat) /\ Len(buf) = IF size < Len(b) THEN size ELSE Len(b)
      /\ \A i \in 1..Len(buf) : buf[i] = b[i]
  BY <1>1, CutKeeps, Zenon
<1>4. Len(b) \in Nat
  BY <1>1, LenProperties, Zenon
<1> HIDE DEF buf, start, body
<1>5. Len(buf) \in Nat /\ Len(buf) <= Len(b)
  BY <1>3, <1>4
<1>6. FirstOf(buf, b)
  BY <1>3, <1>5, Zenon DEF FirstOf
<1>7. Addresses(recs) # {} => /\ end \in Nat /\ start <= end
                              /\ (end > Len(buf) <=> end > size) /\ n # 0
  <2> HAVE Addresses(recs) # {}
  <2>1. a \in Addresses(recs)
    <3>1. Addresses(recs) \in SUBSET Nat
      BY <1>2 DEF Addresses
    <3>2. \E i \in Addresses(recs) : \A j \in Addresses(recs) : i <= j
      BY <3>1, NatMin
    <3> QED
      BY <3>2, Zenon DEF FirstAddress
  <2>2. a \in 1..n
    BY <2>1 DEF Addresses
  <2> DEFINE x == EndOf(recs, a)
             y == Len(body)
  <2>3. x \in Nat /\ x <= y
    BY <1>2, <2>2, EndOfWithin, Zenon DEF body
  <2> HIDE DEF x, recs, a
  <2>4. start + x \in Nat /\ start <= start + x /\ start + x <= Len(b)
    BY <1>1, <1>4, <2>3
  <2>5. start + x > Len(buf) <=> start + x > size
    BY <1>3, <1>4, <2>4
  <2>6. n # 0
    BY <1>2, <2>2
  <2> QED
    BY <2>4, <2>5, <2>6, Zenon DEF x
<1>8. Answers(m, size, expected_id) =
        IF m.id # expected_id \/ m.rcode # 0 \/ Addresses(recs) = {} THEN Err
        ELSE IF end > size THEN Err ELSE Found
  BY AnswersAs, Zenon DEF start
<1> HIDE DEF a, end, Found
<1>9. CASE Len(buf) < 12
  <2>1. DecodeAResponse(expected_id, buf) = Err
    BY <1>9, Zenon DEF DecodeAResponse
  <2>2. Addresses(recs) # {} => end > size
    BY <1>1, <1>5, <1>7, <1>9
  <2> QED
    BY <1>8, <2>1, <2>2, Zenon DEF buf, b
<1>10. CASE ~(Len(buf) < 12)
  <2>1. 12 <= Len(buf) /\ FirstOf(buf, ReplyBytes(m))
    BY <1>5, <1>6, <1>10 DEF b
  <2> DEFINE qd == IF m.echo THEN 1 ELSE 0
  <2>2. /\ ReadU16(buf, 0) = m.id /\ buf[4] % 16 = m.rcode
        /\ ReadU16(buf, 4) = qd /\ ReadU16(buf, 6) = n
    BY <2>1, HeadRead
  <2>3. SkipQuestions(buf, qd) = Skipped(buf, start)
    BY <2>1, QuestionSkipped DEF start
  <2> HIDE DEF qd, recs, n
  <2> DEFINE rest == IF ~Skipped(buf, start).ok THEN Err ELSE FindA(buf, n, Skipped(buf, start).pos)
  <2>4. DecodeAResponse(expected_id, buf) =
          IF m.id # expected_id \/ m.rcode # 0 \/ n = 0 THEN Err ELSE rest
    BY <1>10, <2>2, <2>3 DEF DecodeAResponse
  <2>5. rest = IF Addresses(recs) = {} \/ end > Len(buf) THEN Err ELSE Found
    <3>1. CASE start <= Len(buf)
      <4> DEFINE r == Skipped(buf, start)
      <4>1. r.ok /\ r.pos = start
        BY <3>1 DEF Skipped
      <4> HIDE DEF r
      <4>2. rest = FindA(buf, n, start)
        BY <4>1, Zenon DEF r
      <4>3. FindA(buf, n, start) = FirstFound(buf, start, recs)
        BY <1>1, <1>2, <1>6, FoundFirst, Zenon DEF body, n
      <4> QED
        BY <4>2, <4>3, Zenon DEF FirstFound, end, Found, a
    <3>2. CASE ~(start <= Len(buf))
      <4>1. Skipped(buf, start) = Err /\ ~Err.ok
        BY <3>2 DEF Skipped, Err
      <4>2. rest = Err
        BY <4>1, Zenon
      <4>3. Addresses(recs) # {} => end > Len(buf)
        BY <1>1, <1>5, <1>7, <3>2 DEF recs, n
      <4> QED
        BY <4>2, <4>3, Zenon
    <3> QED
      BY <3>1, <3>2
  <2> HIDE DEF rest
  <2>6. Addresses(recs) # {} => (end > Len(buf) <=> end > size) /\ n # 0
    BY <1>7, Zenon DEF recs, n
  <2>7. DecodeAResponse(expected_id, buf) =
          IF m.id # expected_id \/ m.rcode # 0 \/ Addresses(recs) = {} THEN Err
          ELSE IF end > size THEN Err ELSE Found
    BY <2>4, <2>5, <2>6, Zenon
  <2> QED
    BY <1>8, <2>7, Zenon DEF buf, b, recs
<1> QED
  BY <1>9, <1>10

\* AnswerIsFirstA with what makes it inductive: before the probes no answer
\* has been read.
AnswerInv ==
  /\ AnswerIsFirstA
  /\ pc \in Before => read.from # "dns"

LEMMA DnsRecvAnswer == Inv /\ DnsRecv => AnswerInv'
<1> SUFFICES ASSUME Inv, DnsRecv PROVE AnswerInv'
  OBVIOUS
<1>1. PICK r \in Replies, i \in Ids :
        LET m   == [r.msg EXCEPT !.id = i]
            rcv == Recv(r.hdr, Cut(ReplyBytes(m), r.size))
            a   == IF rcv.ok THEN DecodeAResponse(id, rcv.payload) ELSE Err
        IN  /\ ~opts.proxy => r.hdr.fault = "none"
            /\ read' = [from |-> "dns", msg |-> m, size |-> r.size, hdr |-> r.hdr]
            /\ \/ ~a.ok /\ Exit(1)
               \/ /\ a.ok /\ resolved' = [kind |-> "v4", addr |-> a.addr]
                  /\ pc' = "probe" /\ id' = id
  BY DEF DnsRecv
<1> DEFINE m == [r.msg EXCEPT !.id = i]
           bytes == ReplyBytes(m)
           p == Cut(bytes, r.size)
           rcv == Recv(r.hdr, p)
           a == IF rcv.ok THEN DecodeAResponse(id, rcv.payload) ELSE Err
<1>2. IsHeader(r.hdr) /\ r.msg \in Messages /\ r.size \in Nat /\ i \in Nat
  BY DatagramAssumption, ProbeAssumption
<1>3. m \in Messages
  BY <1>2, ZenonT(60) DEF Messages
<1>4. bytes \in Seq(Nat)
  BY <1>3, ReplyBytesType, Zenon
<1>5. DecodeAResponse(id, p) = Answers(m, r.size, id)
  BY <1>2, <1>3, DecodeReply, Zenon
<1>6. resolved = NoAddr
  BY DEF Inv, Progress, DnsRecv, Before, Asking4
<1>7. /\ read' = [from |-> "dns", msg |-> m, size |-> r.size, hdr |-> r.hdr]
      /\ ~opts.proxy => r.hdr.fault = "none"
      /\ \/ ~a.ok /\ Exit(1)
         \/ /\ a.ok /\ resolved' = [kind |-> "v4", addr |-> a.addr]
            /\ pc' = "probe" /\ id' = id
  BY <1>1
<1> HIDE DEF m, bytes
<1>8. p \in Seq(Nat) /\ Len(p) = IF r.size < Len(bytes) THEN r.size ELSE Len(bytes)
  BY <1>2, <1>4, CutKeeps, Zenon
<1> HIDE DEF p
<1>9. rcv = Handed(r.hdr, p)
  <2>1. CASE opts.proxy
    <3>1. Len(p) + 6 <= 1500 /\ 1500 \in Nat
      <4>1. r.size <= 1494
        BY DatagramAssumption
      <4>2. Len(bytes) \in Nat
        BY <1>4
      <4>3. Len(p) <= 1494 /\ Len(p) \in Nat
        BY <1>2, <1>8, <4>1, <4>2
      <4> QED
        BY <4>3
    <3>2. rcv = SocksRecv(Relayed(r.hdr, p), 1500)
      BY <2>1 DEF Recv
    <3> QED
      BY <1>2, <1>8, <3>1, <3>2, SocksRecvIntact
  <2>2. CASE ~opts.proxy
    BY <1>7, <2>2 DEF Recv, Handed
  <2> QED
    BY <2>1, <2>2
<1> HIDE DEF rcv
<1> DEFINE ans == Answers(m, r.size, id)
<1>10. a = IF r.hdr.fault = "none" THEN ans ELSE Err
  <2>1. CASE r.hdr.fault = "none"
    <3>1. rcv.ok /\ rcv.payload = p
      BY <1>9, <2>1 DEF Handed
    <3> QED
      BY <1>5, <2>1, <3>1
  <2>2. CASE r.hdr.fault # "none"
    <3>1. ~rcv.ok
      BY <1>9, <2>2 DEF Handed, Err
    <3> QED
      BY <2>2, <3>1
  <2> QED
    BY <2>1, <2>2
<1> HIDE DEF a, ans
<1>11. ~Err.ok
  BY DEF Err
<1>12. id' = id /\ pc' \in {"exit", "probe"}
  BY <1>7 DEF Exit
<1>13. pc' \notin Before
  BY <1>12 DEF Before, Asking4
<1>14. resolved' = IF r.hdr.fault = "none" /\ ans.ok
                   THEN [kind |-> "v4", addr |-> ans.addr] ELSE NoAddr
  <2>1. CASE ~a.ok /\ Exit(1)
    <3>1. resolved' = NoAddr
      BY <1>6, <2>1 DEF Exit
    <3> QED
      BY <1>10, <2>1, <3>1
  <2>2. CASE a.ok /\ resolved' = [kind |-> "v4", addr |-> a.addr]
    BY <1>10, <1>11, <2>2
  <2> QED
    BY <1>7, <2>1, <2>2
<1>15. /\ read'.msg = m /\ read'.size = r.size /\ read'.hdr = r.hdr
  BY <1>7
<1>16. AnswerIsFirstA'
  BY <1>12, <1>14, <1>15 DEF AnswerIsFirstA, ans
<1> QED
  BY <1>13, <1>16 DEF AnswerInv

\* A step that leaves the answer alone: it forgets the datagram, comes before
\* any answer, or changes nothing the answer is about.
LeavesAnswer ==
  \/ read' = NoDatagram
  \/ read' = read /\ (pc \in Before \/ (UNCHANGED <<resolved, id>> /\ pc' \notin Before))

LEMMA AnswerLeft == AnswerInv /\ LeavesAnswer => AnswerInv'
<1> SUFFICES ASSUME AnswerInv, LeavesAnswer PROVE AnswerInv'
  OBVIOUS
<1>1. CASE read' = NoDatagram
  BY <1>1 DEF AnswerInv, AnswerIsFirstA, NoDatagram
<1>2. CASE read' = read /\ pc \in Before
  BY <1>2 DEF AnswerInv, AnswerIsFirstA
<1>3. CASE read' = read /\ UNCHANGED <<resolved, id>> /\ pc' \notin Before
  BY <1>3 DEF AnswerInv, AnswerIsFirstA
<1> QED
  BY <1>1, <1>2, <1>3 DEF LeavesAnswer

LEMMA QuicRecvAnswer == QuicRecv => AnswerInv'
<1> SUFFICES ASSUME QuicRecv PROVE AnswerInv'
  OBVIOUS
<1>1. read'.from # "dns"
  BY DEF QuicRecv, EndpointGone, NoDatagram
<1> QED
  BY <1>1 DEF AnswerInv, AnswerIsFirstA

LEMMA OtherStepsAnswer ==
  ASSUME Next, ~DnsRecv, ~QuicRecv
  PROVE  LeavesAnswer
<1> USE DEF LeavesAnswer, Before, Asking4
<1>1. CASE Build
  BY <1>1 DEF Build, netVars
<1>2. CASE ResolveNothing
  BY <1>2 DEF ResolveNothing, netVars
<1>3. CASE ResolveByDns
  BY <1>3 DEF ResolveByDns, netVars
<1>4. CASE ResolveBySystem
  BY <1>4 DEF ResolveBySystem, netVars
<1>5. CASE DnsOpenDirect
  BY <1>5 DEF DnsOpenDirect, netVars
<1>6. CASE DnsOpenSocks
  BY <1>6 DEF DnsOpenSocks, netVars
<1>7. CASE DnsAssociated
  BY <1>7 DEF DnsAssociated, netVars
<1>8. CASE DnsSend
  BY <1>8 DEF DnsSend, netVars
<1>9. CASE DnsTimeout
  BY <1>9 DEF DnsTimeout, netVars
<1>10. CASE ProbesStart
  BY <1>10 DEF ProbesStart
<1>11. CASE ProbeOpenSocks
  BY <1>11 DEF ProbeOpenSocks, cmdVars, netVars
<1>12. CASE ProbeOpenDirect
  BY <1>12 DEF ProbeOpenDirect, ProbeEnds, EndpointGone, cmdVars, netVars
<1>13. CASE ProbeAssociated
  BY <1>13 DEF ProbeAssociated, cmdVars, netVars
<1>14. CASE ProbeTunnelled
  BY <1>14 DEF ProbeTunnelled, cmdVars, netVars
<1>15. CASE ProbeSocksFails
  BY <1>15 DEF ProbeSocksFails, Exit, ProbeEnds, EndpointGone, netVars
<1>16. CASE ProbeSucceeds
  BY <1>16 DEF ProbeSucceeds, ProbeEnds, ProbeResult, EndpointGone, netVars
<1>17. CASE ProbeFails
  BY <1>17 DEF ProbeFails, ProbeEnds, ProbeResult, EndpointGone, netVars
<1>18. CASE ProbeTimeout
  BY <1>18 DEF ProbeTimeout, ProbeEnds, ProbeResult, EndpointGone, netVars
<1>19. CASE Report
  BY <1>19 DEF Report, Exit, netVars
<1>20. CASE Sockets
  BY <1>20 DEF Sockets, cmdVars, netVars
<1>21. CASE Finished
  BY <1>21 DEF Finished, vars
<1>22. CASE EndpointDrops
  BY <1>22 DEF EndpointDrops, EndpointGone
<1> QED
  BY <1>1, <1>2, <1>3, <1>4, <1>5, <1>6, <1>7, <1>8, <1>9, <1>10, <1>11, <1>12, <1>13, <1>14, <1>15,
     <1>16, <1>17, <1>18, <1>19, <1>20, <1>21, <1>22, Zenon DEF Next, CommandStep

LEMMA StepAnswer == Inv /\ AnswerInv /\ [Next]_vars => AnswerInv'
<1> SUFFICES ASSUME Inv, AnswerInv, [Next]_vars PROVE AnswerInv'
  OBVIOUS
<1>1. CASE DnsRecv
  BY <1>1, DnsRecvAnswer
<1>2. CASE QuicRecv
  BY <1>2, QuicRecvAnswer
<1>3. CASE Next /\ ~DnsRecv /\ ~QuicRecv
  BY <1>3, OtherStepsAnswer, AnswerLeft
<1>4. CASE UNCHANGED vars
  BY <1>4, AnswerLeft DEF LeavesAnswer, vars
<1> QED
  BY <1>1, <1>2, <1>3, <1>4

\* The walk over the bytes of an answer finds what the answer says: for every
\* message of any number of names, labels, pointers and records, cut anywhere,
\* inside any header a relay writes, the address taken is that of the first A
\* record if that record arrived whole, and there is none for another id, an
\* error code or a faulty header (decode_a_response, skip_name, resolve_a).
THEOREM AnswerFirstA == Spec => []AnswerIsFirstA
<1>1. Init => AnswerInv
  BY DEF Init, AnswerInv, AnswerIsFirstA, NoDatagram
<1>2. AnswerInv => AnswerIsFirstA
  BY DEF AnswerInv
<1> QED
  BY <1>1, <1>2, StepAnswer, Invariance, PTL DEF Spec
=============================================================================
