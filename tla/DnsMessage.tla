----------------------------- MODULE DnsMessage -----------------------------
(***************************************************************************)
(* The bytes of a DNS query and the walk over those of its answer          *)
(* (src/dns.rs), and what the answer says, independent of any walk.        *)
(* Buffers and positions are those of SocksUdp.                            *)
(***************************************************************************)
EXTENDS SocksUdp

CONSTANTS
  MaxLabelLen,  \* MAX_LABEL_LEN, 63 in the code
  MaxNameLen    \* MAX_NAME_LEN, 255 in the code

ASSUME DnsAssumption == MaxLabelLen \in 1..63 /\ MaxNameLen \in Nat

\* The concatenation of a sequence of sequences.
Flat(ss) ==
  LET upTo[i \in 0..Len(ss)] == IF i = 0 THEN <<>> ELSE upTo[i - 1] \o ss[i]
  IN  upTo[Len(ss)]

\* hostname.len(): the labels and the dots between them.
NameLen(labels) ==
  IF labels = <<>> THEN 0 ELSE Len(Flat(labels)) + Len(labels) - 1

LabelBytes(labels) ==
  Flat([i \in 1..Len(labels) |->
          IF labels[i] = <<>> THEN <<>> ELSE <<Len(labels[i])>> \o labels[i]])

\* encode_query: one question for an A record; an empty label is skipped.
EncodeQuery(id, labels) ==
  IF \E i \in 1..Len(labels) : Len(labels[i]) > MaxLabelLen THEN Err
  ELSE [ok |-> TRUE,
        bytes |-> U16(id) \o <<1, 0>> \o U16(1) \o U16(0) \o U16(0) \o U16(0)
                  \o LabelBytes(labels) \o <<0>> \o U16(1) \o U16(1)]

\* u16::from_be_bytes at position p.
ReadU16(buf, p) == 256 * buf[p + 1] + buf[p + 2]

\* skip_name with a compression pointer taken for the end of the name.
SkipNameShortPointer(buf, pos) ==
  LET skip[p \in Nat] ==
        IF p >= Len(buf) THEN Err
        ELSE IF buf[p + 1] = 0 THEN [ok |-> TRUE, pos |-> p + 1]
        ELSE IF buf[p + 1] >= 192 THEN [ok |-> TRUE, pos |-> p + 1]
        ELSE skip[p + 1 + buf[p + 1]]
  IN  skip[pos]

\* skip_name: the position behind a name.  Two leading one bits (192 and up)
\* are a pointer of two bytes; any other length is skipped, also the reserved
\* ones from 64 to 191.
SkipName(buf, pos) ==
  LET skip[p \in Nat] ==
        IF p >= Len(buf) THEN Err
        ELSE IF buf[p + 1] = 0 THEN [ok |-> TRUE, pos |-> p + 1]
        ELSE IF buf[p + 1] >= 192
             THEN IF p + 1 >= Len(buf) THEN Err ELSE [ok |-> TRUE, pos |-> p + 2]
        ELSE skip[p + 1 + buf[p + 1]]
  IN  skip[pos]

\* The position behind qd questions.
SkipQuestions(buf, qd) ==
  LET at[i \in 0..qd] ==
        IF i = 0 THEN [ok |-> TRUE, pos |-> 12]
        ELSE IF ~at[i - 1].ok THEN Err
        ELSE LET name == SkipName(buf, at[i - 1].pos) IN
             IF ~name.ok \/ name.pos + 4 > Len(buf) THEN Err
             ELSE [ok |-> TRUE, pos |-> name.pos + 4]
  IN  at[qd]

\* The first of the an records from position pos on that is an A record with
\* four bytes of data.  Owner, class and TTL are not looked at.
FindA(buf, an, pos) ==
  LET find[i \in 0..an] ==
        [p \in Nat |->
           IF i = an THEN Err
           ELSE LET name == SkipName(buf, p) IN
                IF ~name.ok \/ name.pos + 10 > Len(buf) THEN Err
                ELSE LET rtype == ReadU16(buf, name.pos)
                         rdlen == ReadU16(buf, name.pos + 8)
                         data  == name.pos + 10
                     IN  IF data + rdlen > Len(buf) THEN Err
                         ELSE IF rtype = 1 /\ rdlen = 4
                              THEN [ok |-> TRUE, addr |-> SubSeq(buf, data + 1, data + 4)]
                         ELSE find[i + 1][data + rdlen]]
  IN  find[0][pos]

\* decode_a_response: id, RCODE (the low bits of the fourth byte), counts,
\* questions, answers.  The QR bit is not looked at.
DecodeAResponse(expected_id, buf) ==
  IF Len(buf) < 12 THEN Err
  ELSE LET an == ReadU16(buf, 6) IN
       IF ReadU16(buf, 0) # expected_id \/ buf[4] % 16 # 0 \/ an = 0 THEN Err
       ELSE LET questions == SkipQuestions(buf, ReadU16(buf, 4)) IN
            IF ~questions.ok THEN Err ELSE FindA(buf, an, questions.pos)

-----------------------------------------------------------------------------
(***************************************************************************)
(* What a DNS server sends: an id, an RCODE, the question echoed or not,   *)
(* and records, of which the datagram holds the first `size' bytes.  The   *)
(* length of a label is less than 64: two leading zero bits.               *)
(***************************************************************************)
Labels == {l \in Seq(0..255) : Len(l) < 64}
DomainNames == [labels : Seq(Labels), pointer : BOOLEAN]
Records == [name : DomainNames, rtype : Nat, data : Seq(0..255)]
Messages ==
  [id : Nat, rcode : 0..15, echo : BOOLEAN, labels : Seq(Labels), answers : Seq(Records)]

\* The bytes of a name: labels spelled out, a pointer, or labels and a pointer.
NameBytes(name) ==
  LabelBytes(name.labels) \o (IF name.pointer THEN <<192, 12>> ELSE <<0>>)

\* A record: owner, type, class, TTL, length of the data, data.
RecordBytes(r) ==
  NameBytes(r.name) \o U16(r.rtype) \o U16(1) \o <<0, 0, 0, 60>>
  \o U16(Len(r.data)) \o r.data

QuestionBytes(labels) == LabelBytes(labels) \o <<0>> \o U16(1) \o U16(1)

ReplyHead(m) ==
  U16(m.id) \o <<129, 128 + m.rcode>> \o U16(IF m.echo THEN 1 ELSE 0)
  \o U16(Len(m.answers)) \o U16(0) \o U16(0)
  \o (IF m.echo THEN QuestionBytes(m.labels) ELSE <<>>)

ReplyBytes(m) ==
  ReplyHead(m) \o Flat([i \in 1..Len(m.answers) |-> RecordBytes(m.answers[i])])

\* Bytes of the reply up to the end of its i-th record.
EndOfRecord(m, i) ==
  Len(ReplyHead(m)) + Len(Flat([j \in 1..i |-> RecordBytes(m.answers[j])]))

\* The address a reply gives to the query id, as far as `size' bytes of it
\* arrived: that of the first A record, if that record is whole.
Answers(m, size, id) ==
  LET as == {i \in 1..Len(m.answers) : m.answers[i].rtype = 1 /\ Len(m.answers[i].data) = 4}
  IN  IF m.id # id \/ m.rcode # 0 \/ as = {} THEN Err
      ELSE LET i == CHOOSE i \in as : \A j \in as : i <= j IN
           IF EndOfRecord(m, i) > size THEN Err
           ELSE [ok |-> TRUE, addr |-> m.answers[i].data]
=============================================================================
