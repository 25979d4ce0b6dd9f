----------------------------- MODULE SocksClient ----------------------------
(***************************************************************************)
(* One SOCKS5 session of the client (src/socks): authentication, then      *)
(* CONNECT or UDP ASSOCIATE, against a proxy that may refuse, answer with  *)
(* another version or method, close or stop answering at any point.  A     *)
(* command opens its sessions one after the other; each is a TCP           *)
(* connection of its own.                                                  *)
(*                                                                         *)
(* A user name or password is abstracted to its length in bytes, none of   *)
(* which is a SOCKS version; LenMod stands for the 256 values of a length  *)
(* byte.                                                                   *)
(***************************************************************************)
EXTENDS Naturals, Sequences

CONSTANTS
  LenMod,        \* values of a length byte
  BindAddrs,     \* BND.ADDR of UDP ASSOCIATE: "v4", "v6", "any", "name"
  Lookups        \* what the system resolver may give: "addr", "error", "empty"

ASSUME SocksAssumption ==
  /\ LenMod \in Nat \ {0, 1}
  /\ BindAddrs \subseteq {"v4", "v6", "any", "name"}
  /\ Lookups \subseteq {"addr", "error", "empty"}

VARIABLES
  auth,      \* ProxyConfig.auth: lengths of user name and password
  sess,      \* the client's end of the session
  c2p, p2c,  \* messages on the connection
  peer       \* the proxy's end of the session

socksVars == <<auth, sess, c2p, p2c, peer>>

NoAuth == [user |-> 0, pass |-> 0]
NoDst == [kind |-> "none", addr |-> <<>>, port |-> 0]
NoSession == [pc |-> "none", cmd |-> "none", dst |-> NoDst, relay |-> "none"]
NewPeer == [pc |-> "greeting", cred |-> NoAuth, cmd |-> "none", dst |-> NoDst]

Method == IF auth = NoAuth THEN "none" ELSE "password"

\* VarVec with the contents cut to the length byte.
VarVecCut(n) == [len |-> n % LenMod, bytes |-> n % LenMod]

\* VarVec { len: s.len() as u8, contents: s }.
VarVec(n) == [len |-> n % LenMod, bytes |-> n]

InStep(v) == v.len = v.bytes

\* SocksAddr::from_domain has such a length byte too.  A name too long for it
\* is read as its beginning, with a port from the two bytes behind.
NameFits(dst) == dst.kind = "domain" => Len(dst.addr) < LenMod
DstRead(dst) ==
  LET n == Len(dst.addr) % LenMod IN
  IF NameFits(dst) THEN dst
  ELSE [dst EXCEPT !.addr = SubSeq(dst.addr, 1, n),
                   !.port = 256 * dst.addr[n + 1] + dst.addr[n + 2]]

SocksFails == sess' = [sess EXCEPT !.pc = "failed"]

-----------------------------------------------------------------------------
\* connect and associate: the TCP connection is open, the one method offered.
SocksOpen(cmd, dst) ==
  /\ sess' = [NoSession EXCEPT !.pc = "method", !.cmd = cmd, !.dst = dst]
  /\ c2p' = <<[type |-> "methods", method |-> Method]>>
  /\ p2c' = <<>>
  /\ peer' = NewPeer
  /\ UNCHANGED auth

\* TcpStream::connect fails.
SocksOpenFails(cmd, dst) ==
  /\ sess' = [NoSession EXCEPT !.pc = "failed", !.cmd = cmd, !.dst = dst]
  /\ UNCHANGED <<auth, c2p, p2c, peer>>

\* The stream is dropped with whatever holds it.
SocksDrop ==
  /\ sess' = NoSession
  /\ c2p' = <<>>
  /\ p2c' = <<>>
  /\ peer' = NewPeer
  /\ UNCHANGED auth

\* send_connect, send_udp_associate: the request.
SendCommand ==
  /\ sess' = [sess EXCEPT !.pc = "reply"]
  /\ c2p' = Append(c2p, [type |-> "command", cmd |-> sess.cmd, dst |-> sess.dst])

\* authenticate: the proxy's choice of method must be the one offered.
RecvMethod ==
  /\ sess.pc = "method"
  /\ p2c # <<>>
  /\ p2c' = Tail(p2c)
  /\ LET rep == Head(p2c) IN
     \/ /\ rep.version # 5 \/ rep.method # Method
        /\ SocksFails
        /\ UNCHANGED c2p
     \/ /\ rep.version = 5 /\ rep.method = Method /\ auth = NoAuth
        /\ SendCommand
     \/ /\ rep.version = 5 /\ rep.method = Method /\ auth # NoAuth
        /\ sess' = [sess EXCEPT !.pc = "status"]
        /\ c2p' = Append(c2p, [type |-> "password", user |-> VarVec(auth.user),
                               pass |-> VarVec(auth.pass)])
  /\ UNCHANGED <<auth, peer>>

\* authenticate: the status of the password request; its version is ignored.
RecvStatus ==
  /\ sess.pc = "status"
  /\ p2c # <<>>
  /\ p2c' = Tail(p2c)
  /\ \/ Head(p2c).ok /\ SendCommand
     \/ ~Head(p2c).ok /\ SocksFails /\ UNCHANGED c2p
  /\ UNCHANGED <<auth, peer>>

\* to_socket_addrs of BND.ADDR: a name is looked up here.
BindLookup(bind) ==
  IF bind # "name" THEN {bind}
  ELSE {IF l = "addr" THEN "v4" ELSE "error" : l \in Lookups}

\* associate: an unspecified address becomes the proxy's own, looked up again;
\* an empty lookup is an unwrap on None.
RelayAddr(addr) ==
  IF addr # "any" THEN {addr}
  ELSE {IF l = "addr" THEN "v4" ELSE IF l = "empty" THEN "panic" ELSE "error" :
          l \in Lookups}

\* associate: the relay's address and a UDP socket of its family connected to
\* it, which bind or connect may fail to give.
Associated(bind) ==
  \E addr \in BindLookup(bind) : \E relay \in RelayAddr(addr) \cup {"error"} :
    sess' = [sess EXCEPT !.pc = IF relay = "error" THEN "failed"
                                ELSE IF relay = "panic" THEN "panicked"
                                ELSE "open",
                         !.relay = relay]

\* send_connect, send_udp_associate: the reply.
RecvReply ==
  /\ sess.pc = "reply"
  /\ p2c # <<>>
  /\ p2c' = Tail(p2c)
  /\ \/ ~Head(p2c).ok /\ SocksFails
     \/ Head(p2c).ok /\ sess.cmd = "connect" /\ sess' = [sess EXCEPT !.pc = "open"]
     \/ Head(p2c).ok /\ sess.cmd = "associate" /\ Associated(Head(p2c).bind)
  /\ UNCHANGED <<auth, c2p, peer>>

\* A read finds the connection closed.
RecvEof ==
  /\ sess.pc \in {"method", "status", "reply"}
  /\ p2c = <<>>
  /\ peer.pc = "closed"
  /\ SocksFails
  /\ UNCHANGED <<auth, c2p, p2c, peer>>

ClientStep == RecvMethod \/ RecvStatus \/ RecvReply \/ RecvEof

-----------------------------------------------------------------------------
(***************************************************************************)
(* The proxy, as the client's code lets it be: it reads the messages in    *)
(* order and answers what it likes.                                        *)
(***************************************************************************)
PeerReads(type) == c2p # <<>> /\ Head(c2p).type = type /\ c2p' = Tail(c2p)
PeerWrites(m) == p2c' = Append(p2c, m)

PeerGreets ==
  /\ peer.pc = "greeting"
  /\ PeerReads("methods")
  /\ \E version \in {4, 5}, method \in {"none", "password", "refused"} :
       PeerWrites([version |-> version, method |-> method])
  /\ peer' = [peer EXCEPT !.pc = "authenticated"]
  /\ UNCHANGED <<auth, sess>>

\* The proxy reads by the length bytes.  What it took for the credentials is
\* checked; bytes left over are what it reads next.
PeerChecks ==
  /\ peer.pc = "authenticated"
  /\ PeerReads("password")
  /\ \E ok \in BOOLEAN :
       LET m == Head(c2p) IN
       /\ PeerWrites([ok |-> ok])
       /\ peer' = [peer EXCEPT
            !.pc = IF ~ok THEN "closed"
                   ELSE IF InStep(m.user) /\ InStep(m.pass) THEN "authenticated"
                   ELSE "junk",
            !.cred = [user |-> m.user.len, pass |-> m.pass.len]]
  /\ UNCHANGED <<auth, sess>>

\* The request: granted or refused.
PeerServes ==
  /\ peer.pc = "authenticated"
  /\ PeerReads("command")
  /\ \/ /\ \E bind \in BindAddrs : PeerWrites([ok |-> TRUE, bind |-> bind])
        /\ peer' = [peer EXCEPT !.pc = "serving", !.cmd = Head(c2p).cmd,
                              !.dst = DstRead(Head(c2p).dst)]
     \/ /\ PeerWrites([ok |-> FALSE])
        /\ peer' = [peer EXCEPT !.pc = "closed"]
  /\ UNCHANGED <<auth, sess>>

\* Bytes that are no request: the proxy answers with a failure.
PeerRejects ==
  /\ peer.pc = "junk"
  /\ PeerWrites([ok |-> FALSE])
  /\ peer' = [peer EXCEPT !.pc = "closed"]
  /\ UNCHANGED <<auth, sess, c2p>>

PeerCloses ==
  /\ sess.pc \notin {"none", "failed"}
  /\ peer.pc # "closed"
  /\ peer' = [peer EXCEPT !.pc = "closed"]
  /\ UNCHANGED <<auth, sess, c2p, p2c>>

PeerStep == PeerGreets \/ PeerChecks \/ PeerServes \/ PeerRejects \/ PeerCloses

-----------------------------------------------------------------------------
\* A stream or an association the client uses was granted by the proxy, for
\* the command and destination the client asked for, after it had read the
\* configured user name and password in full; and an association's socket is
\* connected to an address (handshake.rs, connector.rs, associate.rs).  A name
\* too long for its length byte is another destination to the proxy.
TunnelAsAsked ==
  sess.pc = "open" =>
    /\ peer.cmd = sess.cmd
    /\ NameFits(sess.dst) => peer.dst = sess.dst
    /\ peer.cred = auth
    /\ sess.cmd = "associate" => sess.relay \in {"v4", "v6"}
=============================================================================
