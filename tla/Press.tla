------------------------------- MODULE Press --------------------------------
(***************************************************************************)
(* proxypen press (src/press.rs): one task per request is spawned, each    *)
(* waits for a permit of a semaphore, runs one HTTP probe, records the     *)
(* outcome in shared vectors and counters, and drops its permit.  press()  *)
(* then joins every task, sorts the samples and builds the report.         *)
(*                                                                         *)
(* The runtime is multi-threaded, so the tasks interleave between any two  *)
(* shared-memory steps: the two pushes and the counter increment of a      *)
(* success are three steps of the model.                                   *)
(***************************************************************************)
EXTENDS Naturals, Sequences, FiniteSets, LatencyStats

CONSTANTS
  NumRequests,   \* opts.num_requests
  Concurrency,   \* opts.concurrency
  Protocols,     \* the values opts.protocol may have
  Timings,       \* the [first_byte, total] timings a successful probe may have
  MaxErrors      \* the cap of the errors vector (50 in the code)

ASSUME PressAssumption ==
  /\ NumRequests \in Nat
  /\ Concurrency \in Nat
  /\ MaxErrors \in Nat
  /\ Protocols \subseteq {"Http1", "Http2", "Http3"}
  /\ Timings \subseteq [first_byte : Nat, total : Nat]

\* first_byte and total are read from one clock, in this order.
ASSUME TimingAssumption == \A t \in Timings : t.first_byte <= t.total

VARIABLES
  protocol,        \* opts.protocol
  spawned,         \* iterations of the spawn loop done
  joined,          \* handles awaited
  task,            \* where each request's task is
  permits,         \* permits left in the semaphore
  status,          \* result.status of each probe, or why there is none
  timing,          \* result.timing of each probe
  conn,            \* the connection each probe opened
  ttfb_samples, total_samples, success_count, error_count, errors,
  report           \* <<>> or <<the PressResult>>

taskVars   == <<task, status, timing>>
sampleVars == <<ttfb_samples, total_samples, success_count>>
errorVars  == <<error_count, errors>>
mainVars   == <<protocol, spawned, joined, report>>
vars == <<protocol, spawned, joined, task, permits, status, timing, conn,
          ttfb_samples, total_samples, success_count, error_count, errors,
          report>>

Requests == 1..NumRequests

ProbeStages == {"connecting", "connected", "requesting"}
RecordStages ==
  {"push_ttfb", "push_total", "count_success", "count_error", "log_error",
   "returning"}
HoldingStages == ProbeStages \cup RecordStages
EndStages == {"finished", "panicked"}
Stages == {"unspawned", "acquiring"} \cup HoldingStages \cup EndStages

Failures == {"error", "timeout"}
EmptyTiming == [first_byte |-> 0, total |-> 0]   \* empty_timing()

\* The tasks that hold a permit.
Holding == {r \in Requests : task[r] \in HoldingStages}

\* The connections open at this moment, whoever owns them.
OpenConnections == {r \in Requests : conn[r] \in {"open", "driven"}}

Init ==
  /\ protocol \in Protocols
  /\ spawned = 0
  /\ joined = 0
  /\ task = [r \in Requests |-> "unspawned"]
  /\ permits = Concurrency
  /\ status = [r \in Requests |-> "pending"]
  /\ timing = [r \in Requests |-> EmptyTiming]
  /\ conn = [r \in Requests |-> "none"]
  /\ ttfb_samples = <<>>
  /\ total_samples = <<>>
  /\ success_count = 0
  /\ error_count = 0
  /\ errors = <<>>
  /\ report = <<>>

-----------------------------------------------------------------------------
\* tokio::spawn of the next task; the handle is pushed.
Spawn ==
  /\ spawned < NumRequests
  /\ spawned' = spawned + 1
  /\ task' = [task EXCEPT ![spawned + 1] = "acquiring"]
  /\ UNCHANGED <<protocol, joined, permits, status, timing, conn, report>>
  /\ UNCHANGED <<sampleVars, errorVars>>

\* A task that probes without waiting for a permit of its own.
AcquireUnlimited(r) ==
  /\ task[r] = "acquiring"
  /\ permits' = IF permits > 0 THEN permits - 1 ELSE 0
  /\ task' = [task EXCEPT ![r] = "connecting"]
  /\ UNCHANGED <<mainVars, status, timing, conn, sampleVars, errorVars>>

\* sem.acquire().await returns a permit.
Acquire(r) ==
  /\ task[r] = "acquiring"
  /\ permits > 0
  /\ permits' = permits - 1
  /\ task' = [task EXCEPT ![r] = "connecting"]
  /\ UNCHANGED <<mainVars, status, timing, conn, sampleVars, errorVars>>

\* The probe's connect_tcp (HTTP/1.1, HTTP/2) or QUIC connect (HTTP/3).
Connect(r) ==
  /\ task[r] = "connecting"
  /\ task' = [task EXCEPT ![r] = "connected"]
  /\ conn' = [conn EXCEPT ![r] = "open"]
  /\ UNCHANGED <<mainVars, permits, status, timing, sampleVars, errorVars>>

\* A probe that hands its HTTP/1.1 and HTTP/3 connections to a task too.
SendRequestDetached(r) ==
  /\ task[r] = "connected"
  /\ task' = [task EXCEPT ![r] = "requesting"]
  /\ conn' = [conn EXCEPT ![r] = "driven"]
  /\ UNCHANGED <<mainVars, permits, status, timing, sampleVars, errorVars>>

\* TLS, the protocol handshake and the request.  HTTP/2 moves the connection
\* into a detached driver task (http2.rs, tokio::spawn); HTTP/1.1 and HTTP/3
\* keep it in the probe's own future.
SendRequest(r) ==
  /\ task[r] = "connected"
  /\ task' = [task EXCEPT ![r] = "requesting"]
  /\ conn' = [conn EXCEPT ![r] = IF protocol = "Http2" THEN "driven" ELSE "open"]
  /\ UNCHANGED <<mainVars, permits, status, timing, sampleVars, errorVars>>

\* The probe's future ends or is dropped: what it owns is closed; a connection
\* moved into a driver task is not.
DropProbe(r) ==
  conn' = [conn EXCEPT ![r] = IF @ = "open" THEN "closed" ELSE @]

\* test() returns TestStatus::Success with its timing.
ProbeSucceeds(r) ==
  /\ task[r] = "requesting"
  /\ \E t \in Timings : timing' = [timing EXCEPT ![r] = t]
  /\ status' = [status EXCEPT ![r] = "success"]
  /\ task' = [task EXCEPT ![r] = "push_ttfb"]
  /\ DropProbe(r)
  /\ UNCHANGED <<mainVars, permits, sampleVars, errorVars>>

\* test() returns TestStatus::Failed: do_test failed at some point, or
\* tokio::time::timeout dropped it there.
ProbeFails(r) ==
  /\ task[r] \in ProbeStages
  /\ \E f \in Failures : status' = [status EXCEPT ![r] = f]
  /\ timing' = [timing EXCEPT ![r] = EmptyTiming]
  /\ task' = [task EXCEPT ![r] = "count_error"]
  /\ DropProbe(r)
  /\ UNCHANGED <<mainVars, permits, sampleVars, errorVars>>

\* A panicking task that leaks its permit.
ProbePanicsLeaking(r) ==
  /\ protocol = "Http3"
  /\ task[r] = "connecting"
  /\ status' = [status EXCEPT ![r] = "panic"]
  /\ task' = [task EXCEPT ![r] = "panicked"]
  /\ DropProbe(r)
  /\ UNCHANGED <<mainVars, permits, timing, sampleVars, errorVars>>

\* associate() unwraps an empty address list (HTTP/3 over SOCKS5): unwinding
\* drops the permit and the task ends with a JoinError, nothing is recorded.
ProbePanics(r) ==
  /\ protocol = "Http3"
  /\ task[r] = "connecting"
  /\ status' = [status EXCEPT ![r] = "panic"]
  /\ task' = [task EXCEPT ![r] = "panicked"]
  /\ permits' = permits + 1
  /\ DropProbe(r)
  /\ UNCHANGED <<mainVars, timing, sampleVars, errorVars>>

\* The h2 driver task ends: the peer closed, or the last handle is gone.
DriverExit(r) ==
  /\ conn[r] = "driven"
  /\ conn' = [conn EXCEPT ![r] = "closed"]
  /\ UNCHANGED <<mainVars, permits, taskVars, sampleVars, errorVars>>

-----------------------------------------------------------------------------
\* ttfb.lock().unwrap().push(ttfb_ms)
PushTtfb(r) ==
  /\ task[r] = "push_ttfb"
  /\ ttfb_samples' = Append(ttfb_samples, timing[r].first_byte)
  /\ task' = [task EXCEPT ![r] = "push_total"]
  /\ UNCHANGED <<mainVars, permits, status, timing, conn, total_samples,
                 success_count, errorVars>>

\* total.lock().unwrap().push(total_ms)
PushTotal(r) ==
  /\ task[r] = "push_total"
  /\ total_samples' = Append(total_samples, timing[r].total)
  /\ task' = [task EXCEPT ![r] = "count_success"]
  /\ UNCHANGED <<mainVars, permits, status, timing, conn, ttfb_samples,
                 success_count, errorVars>>

\* sc.fetch_add(1)
CountSuccess(r) ==
  /\ task[r] = "count_success"
  /\ success_count' = success_count + 1
  /\ task' = [task EXCEPT ![r] = "returning"]
  /\ UNCHANGED <<mainVars, permits, status, timing, conn, ttfb_samples,
                 total_samples, errorVars>>

\* ec.fetch_add(1)
CountError(r) ==
  /\ task[r] = "count_error"
  /\ error_count' = error_count + 1
  /\ task' = [task EXCEPT ![r] = "log_error"]
  /\ UNCHANGED <<mainVars, permits, status, timing, conn, sampleVars, errors>>

\* The length test off by one.
LogErrorOffByOne(r) ==
  /\ task[r] = "log_error"
  /\ errors' = IF Len(errors) <= MaxErrors THEN Append(errors, status[r]) ELSE errors
  /\ task' = [task EXCEPT ![r] = "returning"]
  /\ UNCHANGED <<mainVars, permits, status, timing, conn, sampleVars, error_count>>

\* Under the lock of errors: push the message unless the vector is full.
LogError(r) ==
  /\ task[r] = "log_error"
  /\ errors' = IF Len(errors) < MaxErrors THEN Append(errors, status[r]) ELSE errors
  /\ task' = [task EXCEPT ![r] = "returning"]
  /\ UNCHANGED <<mainVars, permits, status, timing, conn, sampleVars, error_count>>

\* A task that gives its permit back by hand and again when it is dropped.
FinishTwice(r) ==
  /\ task[r] = "returning"
  /\ task' = [task EXCEPT ![r] = "finished"]
  /\ permits' = permits + 2
  /\ UNCHANGED <<mainVars, status, timing, conn, sampleVars, errorVars>>

\* The task's future returns; _permit is dropped with it.
Finish(r) ==
  /\ task[r] = "returning"
  /\ task' = [task EXCEPT ![r] = "finished"]
  /\ permits' = permits + 1
  /\ UNCHANGED <<mainVars, status, timing, conn, sampleVars, errorVars>>

-----------------------------------------------------------------------------
\* A join that does not wait for a task whose probe has already returned.
JoinEarly ==
  /\ spawned = NumRequests
  /\ joined < NumRequests
  /\ task[joined + 1] \in EndStages \cup RecordStages
  /\ joined' = joined + 1
  /\ UNCHANGED <<protocol, spawned, permits, taskVars, conn, report>>
  /\ UNCHANGED <<sampleVars, errorVars>>

\* let _ = handle.await: in spawn order, a JoinError is ignored.
Join ==
  /\ spawned = NumRequests
  /\ joined < NumRequests
  /\ task[joined + 1] \in EndStages
  /\ joined' = joined + 1
  /\ UNCHANGED <<protocol, spawned, permits, taskVars, conn, report>>
  /\ UNCHANGED <<sampleVars, errorVars>>

\* After the last join: load the counters, take and sort the samples, take
\* the errors, build the PressResult.
Collect ==
  /\ spawned = NumRequests
  /\ joined = NumRequests
  /\ report = <<>>
  /\ report' =
       <<[protocol       |-> protocol,
          total_requests |-> NumRequests,
          success_count  |-> success_count,
          error_count    |-> error_count,
          ttfb           |-> FromSortedMs(Sorted(ttfb_samples)),
          total_time     |-> FromSortedMs(Sorted(total_samples)),
          errors         |-> errors]>>
  /\ ttfb_samples' = <<>>
  /\ total_samples' = <<>>
  /\ errors' = <<>>
  /\ UNCHANGED <<protocol, spawned, joined, permits, taskVars, conn,
                 success_count, error_count>>

\* press() has returned; nothing of it runs on.
Returned == report # <<>> /\ UNCHANGED vars

ProbeStep(r) ==
  Connect(r) \/ SendRequest(r) \/ ProbeSucceeds(r) \/ ProbeFails(r) \/ ProbePanics(r)

RecordStep(r) ==
  \/ PushTtfb(r) \/ PushTotal(r) \/ CountSuccess(r)
  \/ CountError(r) \/ LogError(r) \/ Finish(r)

TaskStep(r) == Acquire(r) \/ ProbeStep(r) \/ RecordStep(r)
MainStep == Spawn \/ Join \/ Collect

Next ==
  \/ MainStep
  \/ \E r \in Requests : TaskStep(r) \/ DriverExit(r)
  \/ Returned

Spec == Init /\ [][Next]_vars

(***************************************************************************)
(* The runtime keeps polling press() and every task it can poll, the       *)
(* semaphore hands a free permit to a waiting task, and every probe ends,  *)
(* because test() wraps it in tokio::time::timeout.                        *)
(***************************************************************************)
FairSpec ==
  /\ Spec
  /\ WF_vars(MainStep)
  /\ \A r \in Requests : WF_vars(TaskStep(r))

-----------------------------------------------------------------------------
Outcome(s) == {r \in Requests : status[r] = s}
Failed == {r \in Requests : status[r] \in Failures}

\* Every variable has its type: press()'s locals and the tasks' shared state.
TypeOK ==
  /\ protocol \in Protocols
  /\ spawned \in 0..NumRequests
  /\ joined \in 0..NumRequests
  /\ task \in [Requests -> Stages]
  /\ permits \in 0..Concurrency
  /\ status \in [Requests -> {"pending", "success", "panic"} \cup Failures]
  /\ timing \in [Requests -> [first_byte : Nat, total : Nat]]
  /\ conn \in [Requests -> {"none", "open", "driven", "closed"}]
  /\ ttfb_samples \in Seq(Nat)
  /\ total_samples \in Seq(Nat)
  /\ success_count \in Nat
  /\ error_count \in Nat
  /\ errors \in Seq(Failures)
  /\ Len(report) <= 1

\* No permit is lost or made up, whatever way a task ends (success, failure,
\* timeout, panic): at most -c probes are in flight at once.
PermitsConserved == permits + Cardinality(Holding) = Concurrency

\* What --concurrency is documented to be, the number of concurrent
\* connections, bounds the connections that are open at the same time.
ConnectionsBounded == Cardinality(OpenConnections) <= Concurrency

\* The same bound for the protocols whose probe owns its connection.
OwnedConnectionsBounded == protocol # "Http2" => ConnectionsBounded

\* The report accounts for every request once: the successes counted are the
\* samples taken, of both vectors, the failures counted are the probes that
\* failed, and what is missing from the two is exactly the panicked tasks.
\* Tasks record in three separate steps, so this needs every join to wait.
ReportAccounts ==
  \A rep \in Range(report) :
    /\ rep.success_count = Cardinality(Outcome("success"))
    /\ rep.error_count = Cardinality(Failed)
    /\ rep.ttfb.sample_count = rep.success_count
    /\ rep.total_time.sample_count = rep.success_count
    /\ rep.success_count + rep.error_count + Cardinality(Outcome("panic"))
         = rep.total_requests

\* The error list of the report holds the first MaxErrors failures: one entry
\* per failed probe, of a kind that happened, until the cap and never past it.
ErrorsCapped ==
  \A rep \in Range(report) :
    /\ Len(rep.errors) = IF rep.error_count < MaxErrors THEN rep.error_count
                                                        ELSE MaxErrors
    /\ \A f \in Failures :
         Cardinality({i \in DOMAIN rep.errors : rep.errors[i] = f})
           <= Cardinality(Outcome(f))

\* The statistics of the report are those of the successful probes' own
\* timings, in whatever order the tasks pushed them.
ReportDescribesProbes ==
  \A rep \in Range(report) :
    /\ Describes(rep.ttfb,
                 [r \in Outcome("success") |-> timing[r].first_byte])
    /\ Describes(rep.total_time,
                 [r \in Outcome("success") |-> timing[r].total])

\* The printed columns make sense side by side: the percentiles of a column
\* never decrease, and no figure of the TTFB column exceeds its counterpart of
\* the total column although the two vectors are pushed and sorted apart.
ColumnsConsistent ==
  \A rep \in Range(report) :
    /\ Monotone(rep.ttfb)
    /\ Monotone(rep.total_time)
    /\ \A k \in {"min_ms", "sum_ms", "p50_ms", "p90_ms", "p95_ms", "p99_ms",
                 "max_ms"} : rep.ttfb[k] <= rep.total_time[k]

\* The main loop, or task r, is not waiting for another.
MainReady ==
  spawned < NumRequests \/ joined = NumRequests \/ task[joined + 1] \in EndStages
Ready(r) == task[r] \in HoldingStages \/ (task[r] = "acquiring" /\ permits > 0)

\* Until the report is there somebody can go on, unless --concurrency is 0:
\* press() waits for a task, that task for a permit, and a permit is held by a
\* task that runs, whichever tasks failed or panicked before (sem, handles).
NeverStuck ==
  Concurrency > 0 /\ report = <<>> => MainReady \/ \E r \in Requests : Ready(r)

\* press() returns its report whatever the probes do.
PressTerminates == <>(report # <<>>)
=============================================================================
