------------------------------ MODULE BenchRun ------------------------------
(***************************************************************************)
(* What a benchmark run promises, whatever transports and failures are     *)
(* below: the planned tests are measured in order, one outcome each; an    *)
(* outcome never has more received than sent; the server has exchanged     *)
(* reports for the same tests with the same figures, at most one test      *)
(* behind; and the run succeeds only with every planned test measured.     *)
(***************************************************************************)
EXTENDS Naturals, Sequences

CONSTANT Counts  \* what an end may count in one test: a set of naturals

VARIABLES
  plans,      \* the tests to run, in order
  outcomes,   \* what the client has measured
  served,     \* what the server has exchanged reports for
  result      \* "running", "ok" or "failed"

vars == <<plans, outcomes, served, result>>

Init ==
  /\ plans \in Seq([kind : {"tcp_up", "tcp_down", "udp_up", "udp_down"}, bw : Nat])
  /\ outcomes = <<>>
  /\ served = <<>>
  /\ result = "running"

\* The next planned test is measured, by two ends that are in step.
Measure ==
  /\ result = "running"
  /\ Len(outcomes) < Len(plans)
  /\ served = outcomes
  /\ \E sent, received \in Counts :
       /\ received <= sent
       /\ outcomes' = Append(outcomes, [plan |-> plans[Len(outcomes) + 1],
                                        sent |-> sent, received |-> received])
  /\ UNCHANGED <<plans, served, result>>

\* The server completes the test the client has just measured.
Serve ==
  /\ Len(served) < Len(outcomes)
  /\ served' = Append(served, outcomes[Len(served) + 1])
  /\ UNCHANGED <<plans, outcomes, result>>

Succeed ==
  /\ result = "running"
  /\ Len(plans) > 0
  /\ Len(outcomes) = Len(plans)
  /\ result' = "ok"
  /\ UNCHANGED <<plans, outcomes, served>>

Fail ==
  /\ result = "running"
  /\ result' = "failed"
  /\ UNCHANGED <<plans, outcomes, served>>

Next == Measure \/ Serve \/ Succeed \/ Fail

Spec == Init /\ [][Next]_vars
=============================================================================
