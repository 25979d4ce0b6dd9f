------------------------------ MODULE SocksUdp ------------------------------
(***************************************************************************)
(* The SOCKS5 UDP request header (src/udp_socket.rs) and the two sockets   *)
(* that hide it: TransportUdpSocket (src/transport.rs, for DNS and the     *)
(* bench) and SocksUdpSocket (src/udp_socket.rs, for QUIC).                *)
(*                                                                         *)
(* A buffer is a sequence of bytes.  Positions are those of the code, from *)
(* 0: the byte at position p is buf[p + 1].  Reading past the end of a     *)
(* buffer, a panic in the code, is an error TLC reports.                   *)
(***************************************************************************)
EXTENDS Naturals, Sequences

Err == [ok |-> FALSE]

\* The first n bytes of s.
Cut(s, n) == SubSeq(s, 1, IF n < Len(s) THEN n ELSE Len(s))

\* The bytes of s from position p on.
From(s, p) == SubSeq(s, p + 1, Len(s))

U16(n) == <<n \div 256, n % 256>>

\* ATYP of each kind of address, and the bytes between it and the port.  The
\* length byte of a domain and the bytes behind it agree: contents[..len].
Atyp == [v4 |-> 1, domain |-> 3, v6 |-> 4]

AddrBytes(dst) ==
  IF dst.kind = "domain" THEN <<Len(dst.addr)>> \o dst.addr ELSE dst.addr

\* A destination: bytes, as many as its kind has; a name's length is one byte.
IsDst(dst) ==
  /\ dst.kind \in DOMAIN Atyp
  /\ dst.addr \in Seq(0..255)
  /\ dst.port \in Nat
  /\ dst.kind = "v4" => Len(dst.addr) = 4
  /\ dst.kind = "v6" => Len(dst.addr) = 16
  /\ dst.kind = "domain" => Len(dst.addr) <= 255

\* encode_socks5_udp_header: RSV, FRAG, ATYP, address, port.
EncodeHeader(dst) ==
  <<0, 0, 0, Atyp[dst.kind]>> \o AddrBytes(dst) \o U16(dst.port)

\* decode with the length byte of a domain forgotten.
PortAtShort(buf) ==
  CASE buf[4] = 1 -> 8
    [] buf[4] = 4 -> 20
    [] buf[4] = 3 -> IF Len(buf) < 5 THEN 0 ELSE 4 + buf[5]
    [] OTHER -> 0

\* The position of the port; 0 for an unknown address type.  A domain's
\* length is at position 4 and must be inside the buffer.
PortAt(buf) ==
  CASE buf[4] = 1 -> 8
    [] buf[4] = 4 -> 20
    [] buf[4] = 3 -> IF Len(buf) < 5 THEN 0 ELSE 5 + buf[5]
    [] OTHER -> 0

\* decode_socks5_udp_header: the length of the header.  RSV is not looked at,
\* and both callers ignore the address.
DecodeHeader(buf) ==
  IF \/ Len(buf) < 4
     \/ buf[3] # 0
     \/ PortAt(buf) = 0
     \/ Len(buf) < PortAt(buf) + 2
  THEN Err
  ELSE [ok |-> TRUE, len |-> PortAt(buf) + 2]

\* TransportUdpSocket::send and SocksUdpSocket::try_send.
Wrap(dst, payload) == EncodeHeader(dst) \o payload

\* TransportUdpSocket::recv (SOCKS5) into a buffer of cap bytes: one datagram,
\* cut by the temporary buffer, without its header.
SocksRecv(datagram, cap) ==
  LET tmp == Cut(datagram, cap + 256)
      hdr == DecodeHeader(tmp)
  IN  IF ~hdr.ok THEN Err
      ELSE [ok |-> TRUE, payload |-> Cut(From(tmp, hdr.len), cap)]

\* SocksUdpSocket::poll_recv: Ready(Ok(0)) for nothing, an error of the whole
\* socket for a bad header, else one payload.
PollRecv(datagram, cap) ==
  IF datagram = <<>> THEN [ok |-> TRUE, payload |-> <<>>]
  ELSE LET hdr == DecodeHeader(datagram) IN
       IF ~hdr.ok THEN Err
       ELSE [ok |-> TRUE, payload |-> Cut(From(datagram, hdr.len), cap)]
=============================================================================
