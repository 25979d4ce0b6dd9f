------------------------------- MODULE MCProbe ------------------------------
(***************************************************************************)
(* Probe on a small instance: names below and above the limits,            *)
(* credentials below and above the length byte, and DNS answers with names *)
(* in every form, records before the A record, and cut at every byte.      *)
(***************************************************************************)
EXTENDS Probe

MCHosts ==
  [name |-> <<<<97, 98>>, <<99>>>>, longlabel |-> <<<<97, 97, 97, 97>>>>,
   longname |-> <<<<97>>, <<97>>, <<97>>, <<97>>>>,
   v4 |-> <<<<49>>, <<50>>>>, v6 |-> <<<<91, 93>>>>]

\* None, one that fits, and one too long in each of its parts.
MCAuths ==
  {NoAuth, [user |-> 3, pass |-> 3], [user |-> 4, pass |-> 1], [user |-> 1, pass |-> 5]}

Spelled == [labels |-> <<<<97, 98>>, <<99>>>>, pointer |-> FALSE]
Pointer == [labels |-> <<>>, pointer |-> TRUE]
Mixed   == [labels |-> <<<<97, 98>>>>, pointer |-> TRUE]

A(name, last) == [name |-> name, rtype |-> 1, data |-> <<1, 1, 1, last>>]
Alias(name)   == [name |-> name, rtype |-> 5, data |-> <<1, 97, 192, 12>>]
OddA(name)    == [name |-> name, rtype |-> 1, data |-> <<1, 0>>]

Reply(echo, rcode, answers) ==
  [id |-> 0, rcode |-> rcode, echo |-> echo, labels |-> <<<<97, 98>>, <<99>>>>,
   answers |-> answers]

Dst(kind, addr) == [kind |-> kind, addr |-> addr, port |-> 53]

\* A sound header of each kind and each way a header can be bad.
MCHeaders ==
  {[dst |-> Dst("v4", <<8, 8, 8, 8>>), fault |-> f] : f \in {"none", "frag", "type", "short", "stub"}}
  \cup {[dst |-> Dst("v6", [i \in 1..16 |-> i]), fault |-> f] : f \in {"none", "short"}}
  \cup {[dst |-> Dst("domain", <<97, 97>>), fault |-> f] : f \in {"none", "short", "stub"}}

Sound == [dst |-> Dst("v4", <<8, 8, 8, 8>>), fault |-> "none"]

\* Whole answers, one cut after every byte, and one behind every header.
MCReplies ==
  {[msg |-> m, size |-> 100, hdr |-> Sound] : m \in
     {Reply(TRUE, 0, <<A(Pointer, 1)>>), Reply(FALSE, 0, <<A(Spelled, 1), A(Pointer, 2)>>),
      Reply(TRUE, 0, <<OddA(Mixed), A(Mixed, 2)>>), Reply(TRUE, 0, <<Alias(Spelled)>>),
      Reply(TRUE, 3, <<A(Pointer, 1)>>), Reply(TRUE, 0, <<>>)}}
  \cup {[msg |-> Reply(TRUE, 0, <<Alias(Mixed), A(Pointer, 2)>>), size |-> n, hdr |-> Sound] :
          n \in 0..60}
  \cup {[msg |-> Reply(TRUE, 0, <<A(Mixed, 1)>>), size |-> 100, hdr |-> h] : h \in MCHeaders}
=============================================================================
