----------------------------- MODULE PressProofs ----------------------------
(***************************************************************************)
(* Press for every number of requests, every concurrency (zero included)   *)
(* and every set of timings.                                               *)
(***************************************************************************)
EXTENDS Press, LatencyFacts

PendingStages == {"unspawned", "acquiring"} \cup ProbeStages

\* Who has done which recording step.
PushedTtfb  == {r \in Requests : status[r] = "success" /\ task[r] # "push_ttfb"}
PushedTotal == {r \in Requests : status[r] = "success"
                                 /\ task[r] \notin {"push_ttfb", "push_total"}}
CountedOk   == {r \in Requests : status[r] = "success"
                    /\ task[r] \notin {"push_ttfb", "push_total", "count_success"}}
CountedErr  == {r \in Requests : status[r] \in Failures /\ task[r] # "count_error"}

\* A task's stage and the outcome of its probe go together.
StageMatchesStatus ==
  \A r \in Requests :
    /\ status[r] = "pending" <=> task[r] \in PendingStages
    /\ status[r] = "success" =>
         task[r] \in {"push_ttfb", "push_total", "count_success", "returning",
                      "finished"}
    /\ status[r] \in Failures =>
         task[r] \in {"count_error", "log_error", "returning", "finished"}
    /\ status[r] = "panic" => task[r] = "panicked"

\* The spawn loop goes through the requests in order.
SpawnedInOrder == \A r \in Requests : task[r] = "unspawned" <=> r > spawned

\* A connection that is open belongs to a probe in progress, and only HTTP/2
\* has connections of another kind.
ConnectionOwned ==
  \A r \in Requests :
    /\ conn[r] = "open" => task[r] \in {"connected", "requesting"}
    /\ conn[r] = "driven" => protocol = "Http2"

JoinedEnded == \A r \in 1..joined : task[r] \in EndStages

\* Each vector and counter holds one entry per task that did its step.
Tallies ==
  /\ success_count = Cardinality(CountedOk)
  /\ error_count = Cardinality(CountedErr)
  /\ report = <<>> =>
       /\ Len(ttfb_samples) = Cardinality(PushedTtfb)
       /\ Len(total_samples) = Cardinality(PushedTotal)

ReportLast ==
  report # <<>> => joined = NumRequests /\ report = <<report[1]>>

Inv ==
  /\ TypeOK
  /\ PermitsConserved
  /\ StageMatchesStatus
  /\ SpawnedInOrder
  /\ ConnectionOwned
  /\ JoinedEnded
  /\ Tallies
  /\ ReportLast
  /\ ReportAccounts

-----------------------------------------------------------------------------
\* The set of requests is finite, and so is every set of them.
LEMMA RequestsFinite ==
  /\ IsFiniteSet(Requests)
  /\ Cardinality(Requests) = NumRequests
  /\ \A S \in SUBSET Requests : IsFiniteSet(S) /\ Cardinality(S) \in Nat
<1>1. NumRequests \in Nat
  BY PressAssumption
<1>2. IsFiniteSet(Requests) /\ Cardinality(Requests) = NumRequests
  BY <1>1, FS_Interval DEF Requests
<1>3. ASSUME NEW S \in SUBSET Requests
      PROVE  IsFiniteSet(S) /\ Cardinality(S) \in Nat
  BY <1>2, FS_Subset, FS_CardinalityType
<1> QED
  BY <1>2, <1>3

\* A set of requests that one step changes only at r keeps its size, gains
\* one or loses one, by whether r enters or leaves it.
LEMMA CountStep ==
  ASSUME NEW S \in SUBSET Requests, NEW T \in SUBSET Requests,
         NEW r \in Requests, T \ {r} = S \ {r}
  PROVE  /\ (r \in S <=> r \in T) => Cardinality(T) = Cardinality(S)
         /\ r \notin S /\ r \in T => Cardinality(T) = Cardinality(S) + 1
         /\ r \in S /\ r \notin T => Cardinality(T) = Cardinality(S) - 1
<1>1. IsFiniteSet(S) /\ IsFiniteSet(T)
  BY RequestsFinite
<1>2. CASE r \in S <=> r \in T
  <2>1. S = T
    BY <1>2
  <2> QED
    BY <2>1, <1>2
<1>3. CASE r \notin S /\ r \in T
  <2>1. T = S \cup {r}
    BY <1>3
  <2> QED
    BY <2>1, <1>1, <1>3, FS_AddElement
<1>4. CASE r \in S /\ r \notin T
  <2>1. T = S \ {r}
    BY <1>4
  <2> QED
    BY <2>1, <1>1, <1>4, FS_RemoveElement
<1> QED
  BY <1>2, <1>3, <1>4

\* Sorting keeps the number of samples, and from_sorted_ms reports it.
LEMMA SampleCount ==
  ASSUME NEW s \in Seq(Nat)
  PROVE  FromSortedMs(Sorted(s)).sample_count = Len(s)
<1> DEFINE t == Sorted(s)
           V == {t[i] : i \in 1..Len(s)}
<1>1. Len(s) \in Nat
  OBVIOUS
<1>2. t \in [1..Len(s) -> V]
  BY DEF Sorted
<1>3. t \in Seq(V) /\ Len(t) = Len(s)
  <2> HIDE DEF t, V
  <2> QED
    BY <1>1, <1>2
<1> HIDE DEF t
<1>4. FromSortedMs(t).sample_count = Len(t)
  BY <1>3 DEF FromSortedMs, DefaultStats
<1> QED
  BY <1>3, <1>4 DEF t

-----------------------------------------------------------------------------
\* How one step of task r moves the size of a set of requests.
Tally(S, T, r) ==
  /\ (r \in S <=> r \in T) => Cardinality(T) = Cardinality(S)
  /\ r \notin S /\ r \in T => Cardinality(T) = Cardinality(S) + 1
  /\ r \in S /\ r \notin T => Cardinality(T) = Cardinality(S) - 1

\* A step of one task touches the sets of the invariant only at that task.
LEMMA TaskFrame ==
  ASSUME TypeOK, NEW r \in Requests, NEW a, NEW b,
         task' = [task EXCEPT ![r] = a], status' = [status EXCEPT ![r] = b]
  PROVE  /\ Tally(Holding, Holding', r)
         /\ Tally(PushedTtfb, PushedTtfb', r)
         /\ Tally(PushedTotal, PushedTotal', r)
         /\ Tally(CountedOk, CountedOk', r)
         /\ Tally(CountedErr, CountedErr', r)
<1>1. /\ Holding \in SUBSET Requests /\ Holding' \in SUBSET Requests
      /\ PushedTtfb \in SUBSET Requests /\ PushedTtfb' \in SUBSET Requests
      /\ PushedTotal \in SUBSET Requests /\ PushedTotal' \in SUBSET Requests
      /\ CountedOk \in SUBSET Requests /\ CountedOk' \in SUBSET Requests
      /\ CountedErr \in SUBSET Requests /\ CountedErr' \in SUBSET Requests
  BY DEF Holding, PushedTtfb, PushedTotal, CountedOk, CountedErr, Requests
<1>2. \A q \in Requests \ {r} : task'[q] = task[q] /\ status'[q] = status[q]
  BY DEF TypeOK
<1>3. Holding' \ {r} = Holding \ {r}
  BY <1>2 DEF Holding, Requests
<1>4. PushedTtfb' \ {r} = PushedTtfb \ {r}
  BY <1>2 DEF PushedTtfb, Requests
<1>5. PushedTotal' \ {r} = PushedTotal \ {r}
  BY <1>2 DEF PushedTotal, Requests
<1>6. CountedOk' \ {r} = CountedOk \ {r}
  BY <1>2 DEF CountedOk, Requests
<1>7. CountedErr' \ {r} = CountedErr \ {r}
  BY <1>2 DEF CountedErr, Requests
<1> QED
  BY <1>1, <1>3, <1>4, <1>5, <1>6, <1>7, CountStep DEF Tally

\* What every step of a running task leaves alone: it comes before the report,
\* and the tasks already joined stay ended.
LEMMA RunningTask ==
  ASSUME Inv, NEW r \in Requests, task[r] \notin EndStages, NEW a,
         task' = [task EXCEPT ![r] = a], UNCHANGED mainVars
  PROVE  /\ report = <<>>
         /\ JoinedEnded'
         /\ ReportLast'
         /\ ReportAccounts'
<1>1. r \notin 1..joined
  BY DEF Inv, JoinedEnded
<1>2. report = <<>>
  BY <1>1 DEF Inv, ReportLast, Requests
<1>3. JoinedEnded'
  BY <1>1, PressAssumption DEF Inv, TypeOK, JoinedEnded, mainVars, Requests
<1>4. ReportLast' /\ ReportAccounts'
  BY <1>2 DEF ReportLast, ReportAccounts, mainVars, Range
<1> QED
  BY <1>2, <1>3, <1>4

\* Task r, still running, moves to stage a and its probe's status to b.
Moves(r, a, b) ==
  /\ task[r] \notin EndStages \cup {"unspawned"}
  /\ a # "unspawned"
  /\ task' = [task EXCEPT ![r] = a]
  /\ status' = [status EXCEPT ![r] = b]
  /\ UNCHANGED mainVars

\* All that a step of a task has in common with the others.
Moved(r, a, b) ==
  /\ report = <<>> /\ JoinedEnded' /\ ReportLast' /\ ReportAccounts'
  /\ SpawnedInOrder'
  /\ Tally(Holding, Holding', r)
  /\ Tally(PushedTtfb, PushedTtfb', r)
  /\ Tally(PushedTotal, PushedTotal', r)
  /\ Tally(CountedOk, CountedOk', r)
  /\ Tally(CountedErr, CountedErr', r)
  /\ task'[r] = a /\ status'[r] = b
  /\ status[r] \in {"pending", "success", "panic"} \cup Failures
  /\ Cardinality(Holding) \in Nat /\ Cardinality(CountedOk) \in Nat
  /\ Cardinality(CountedErr) \in Nat /\ Cardinality(Holding') \in Nat

\* What TaskFrame and RunningTask give for one step of one task, in the form
\* the proofs of the steps use.
LEMMA TaskMoves ==
  ASSUME Inv, NEW r \in Requests, NEW a, NEW b, Moves(r, a, b)
  PROVE  Moved(r, a, b)
<1>1. report = <<>> /\ JoinedEnded' /\ ReportLast' /\ ReportAccounts'
  BY RunningTask DEF Moves
<1>2. TypeOK
  BY DEF Inv
<1>3. /\ Cardinality(Holding) \in Nat /\ Cardinality(CountedOk) \in Nat
      /\ Cardinality(CountedErr) \in Nat /\ Cardinality(Holding') \in Nat
  BY RequestsFinite DEF Holding, CountedOk, CountedErr, Requests
<1>4. /\ task'[r] = a /\ status'[r] = b
      /\ status[r] \in {"pending", "success", "panic"} \cup Failures
  BY <1>2 DEF TypeOK, Moves
<1>5. SpawnedInOrder'
  BY <1>2 DEF Inv, TypeOK, SpawnedInOrder, Moves, mainVars
<1> QED
  BY <1>1, <1>2, <1>3, <1>4, <1>5, TaskFrame DEF Moves, Moved

\* Taking a permit preserves the invariant.
LEMMA AcquireStep ==
  ASSUME Inv, NEW r \in Requests, Acquire(r)
  PROVE  Inv'
<1> USE PressAssumption DEF Stages, HoldingStages, ProbeStages, RecordStages,
    EndStages, Failures
<1>1. Moves(r, "connecting", status[r])
  BY SMT DEF Acquire, Inv, TypeOK, Moves
<1>2. Moved(r, "connecting", status[r])
  BY <1>1, TaskMoves
<1>3. PermitsConserved' /\ permits' \in 0..Concurrency
  BY <1>2 DEF Acquire, Inv, TypeOK, PermitsConserved, Holding, Tally, Moved
<1>4. TypeOK'
  BY <1>1, <1>2, <1>3 DEF Acquire, Inv, TypeOK, mainVars, sampleVars, errorVars,
     EmptyTiming, Moves, Moved
<1>5. StageMatchesStatus'
  BY <1>1, <1>2 DEF Acquire, Inv, TypeOK, StageMatchesStatus, PendingStages,
     Moves, Moved
<1>6. ConnectionOwned'
  BY <1>1 DEF Acquire, Inv, TypeOK, ConnectionOwned, mainVars, Moves
<1>7. Tallies'
  BY <1>2 DEF Acquire, Inv, TypeOK, StageMatchesStatus, Tallies, PushedTtfb,
     PushedTotal, CountedOk, CountedErr, Tally, Moved, mainVars, sampleVars,
     errorVars, PendingStages
<1> QED
  BY <1>2, <1>3, <1>4, <1>5, <1>6, <1>7 DEF Inv, Moved

\* Opening the connection preserves the invariant.
LEMMA ConnectStep ==
  ASSUME Inv, NEW r \in Requests, Connect(r)
  PROVE  Inv'
<1> USE PressAssumption DEF Stages, HoldingStages, ProbeStages, RecordStages,
    EndStages, Failures
<1>1. Moves(r, "connected", status[r])
  BY SMT DEF Connect, Inv, TypeOK, Moves
<1>2. Moved(r, "connected", status[r])
  BY <1>1, TaskMoves
<1>3. PermitsConserved' /\ permits' \in 0..Concurrency
  BY <1>2 DEF Connect, Inv, TypeOK, PermitsConserved, Holding, Tally, Moved
<1>4. TypeOK'
  BY <1>1, <1>2, <1>3 DEF Connect, Inv, TypeOK, mainVars, sampleVars, errorVars,
     EmptyTiming, Moves, Moved
<1>5. StageMatchesStatus'
  BY <1>1, <1>2 DEF Connect, Inv, TypeOK, StageMatchesStatus, PendingStages,
     Moves, Moved
<1>6. ConnectionOwned'
  BY <1>1 DEF Connect, Inv, TypeOK, ConnectionOwned, mainVars, Moves
<1>7. Tallies'
  BY <1>2 DEF Connect, Inv, TypeOK, StageMatchesStatus, Tallies, PushedTtfb,
     PushedTotal, CountedOk, CountedErr, Tally, Moved, mainVars, sampleVars,
     errorVars, PendingStages
<1> QED
  BY <1>2, <1>3, <1>4, <1>5, <1>6, <1>7 DEF Inv, Moved

\* Sending the request preserves the invariant.
LEMMA SendRequestStep ==
  ASSUME Inv, NEW r \in Requests, SendRequest(r)
  PROVE  Inv'
<1> USE PressAssumption DEF Stages, HoldingStages, ProbeStages, RecordStages,
    EndStages, Failures
<1>1. Moves(r, "requesting", status[r])
  BY SMT DEF SendRequest, Inv, TypeOK, Moves
<1>2. Moved(r, "requesting", status[r])
  BY <1>1, TaskMoves
<1>3. PermitsConserved' /\ permits' \in 0..Concurrency
  BY <1>2 DEF SendRequest, Inv, TypeOK, PermitsConserved, Holding, Tally, Moved
<1>4. TypeOK'
  BY <1>1, <1>2, <1>3 DEF SendRequest, Inv, TypeOK, mainVars, sampleVars, errorVars,
     EmptyTiming, Moves, Moved
<1>5. StageMatchesStatus'
  BY <1>1, <1>2 DEF SendRequest, Inv, TypeOK, StageMatchesStatus, PendingStages,
     Moves, Moved
<1>6. ConnectionOwned'
  BY <1>1 DEF SendRequest, Inv, TypeOK, ConnectionOwned, mainVars, Moves
<1>7. Tallies'
  BY <1>2 DEF SendRequest, Inv, TypeOK, StageMatchesStatus, Tallies, PushedTtfb,
     PushedTotal, CountedOk, CountedErr, Tally, Moved, mainVars, sampleVars,
     errorVars, PendingStages
<1> QED
  BY <1>2, <1>3, <1>4, <1>5, <1>6, <1>7 DEF Inv, Moved

\* A successful probe preserves the invariant.
LEMMA ProbeSucceedsStep ==
  ASSUME Inv, NEW r \in Requests, ProbeSucceeds(r)
  PROVE  Inv'
<1> USE PressAssumption DEF Stages, HoldingStages, ProbeStages, RecordStages,
    EndStages, Failures
<1>1. Moves(r, "push_ttfb", "success")
  BY SMT DEF ProbeSucceeds, Inv, TypeOK, Moves
<1>2. Moved(r, "push_ttfb", "success")
  BY <1>1, TaskMoves
<1>3. PermitsConserved' /\ permits' \in 0..Concurrency
  BY <1>2 DEF ProbeSucceeds, Inv, TypeOK, PermitsConserved, Holding, Tally, Moved
<1>4. TypeOK'
  BY <1>1, <1>2, <1>3 DEF ProbeSucceeds, DropProbe, Inv, TypeOK, mainVars, sampleVars, errorVars,
     EmptyTiming, Moves, Moved
<1>5. StageMatchesStatus'
  BY <1>1, <1>2 DEF ProbeSucceeds, Inv, TypeOK, StageMatchesStatus, PendingStages,
     Moves, Moved
<1>6. ConnectionOwned'
  BY <1>1 DEF ProbeSucceeds, DropProbe, Inv, TypeOK, ConnectionOwned, mainVars, Moves
<1>7. Tallies'
  BY <1>2 DEF ProbeSucceeds, Inv, TypeOK, StageMatchesStatus, Tallies, PushedTtfb,
     PushedTotal, CountedOk, CountedErr, Tally, Moved, mainVars, sampleVars,
     errorVars, PendingStages
<1> QED
  BY <1>2, <1>3, <1>4, <1>5, <1>6, <1>7 DEF Inv, Moved

\* A failed or timed out probe preserves the invariant.
LEMMA ProbeFailsStep ==
  ASSUME Inv, NEW r \in Requests, ProbeFails(r)
  PROVE  Inv'
<1> USE PressAssumption DEF Stages, HoldingStages, ProbeStages, RecordStages,
    EndStages, Failures
<1>0. PICK b \in Failures : status' = [status EXCEPT ![r] = b]
  BY DEF ProbeFails
<1>1. Moves(r, "count_error", b)
  BY <1>0, SMT DEF ProbeFails, Inv, TypeOK, Moves
<1>2. Moved(r, "count_error", b)
  BY <1>1, TaskMoves
<1>3. PermitsConserved' /\ permits' \in 0..Concurrency
  BY <1>2 DEF ProbeFails, Inv, TypeOK, PermitsConserved, Holding, Tally, Moved
<1>4. TypeOK'
  BY <1>1, <1>2, <1>3 DEF ProbeFails, DropProbe, Inv, TypeOK, mainVars, sampleVars, errorVars,
     EmptyTiming, Moves, Moved
<1>5. StageMatchesStatus'
  BY <1>0, <1>1, <1>2 DEF ProbeFails, Inv, TypeOK, StageMatchesStatus, PendingStages,
     Moves, Moved
<1>6. ConnectionOwned'
  BY <1>1 DEF ProbeFails, DropProbe, Inv, TypeOK, ConnectionOwned, mainVars, Moves
<1>7. Tallies'
  BY <1>0, <1>2 DEF ProbeFails, Inv, TypeOK, StageMatchesStatus, Tallies, PushedTtfb,
     PushedTotal, CountedOk, CountedErr, Tally, Moved, mainVars, sampleVars,
     errorVars, PendingStages
<1> QED
  BY <1>2, <1>3, <1>4, <1>5, <1>6, <1>7 DEF Inv, Moved

\* A panicking probe preserves the invariant.
LEMMA ProbePanicsStep ==
  ASSUME Inv, NEW r \in Requests, ProbePanics(r)
  PROVE  Inv'
<1> USE PressAssumption DEF Stages, HoldingStages, ProbeStages, RecordStages,
    EndStages, Failures
<1>1. Moves(r, "panicked", "panic")
  BY SMT DEF ProbePanics, Inv, TypeOK, Moves
<1>2. Moved(r, "panicked", "panic")
  BY <1>1, TaskMoves
<1>3. PermitsConserved' /\ permits' \in 0..Concurrency
  BY <1>2 DEF ProbePanics, Inv, TypeOK, PermitsConserved, Holding, Tally, Moved
<1>4. TypeOK'
  BY <1>1, <1>2, <1>3 DEF ProbePanics, DropProbe, Inv, TypeOK, mainVars, sampleVars, errorVars,
     EmptyTiming, Moves, Moved
<1>5. StageMatchesStatus'
  BY <1>1, <1>2 DEF ProbePanics, Inv, TypeOK, StageMatchesStatus, PendingStages,
     Moves, Moved
<1>6. ConnectionOwned'
  BY <1>1 DEF ProbePanics, DropProbe, Inv, TypeOK, ConnectionOwned, mainVars, Moves
<1>7. Tallies'
  BY <1>2 DEF ProbePanics, Inv, TypeOK, StageMatchesStatus, Tallies, PushedTtfb,
     PushedTotal, CountedOk, CountedErr, Tally, Moved, mainVars, sampleVars,
     errorVars, PendingStages
<1> QED
  BY <1>2, <1>3, <1>4, <1>5, <1>6, <1>7 DEF Inv, Moved

\* Pushing the first-byte sample preserves the invariant.
LEMMA PushTtfbStep ==
  ASSUME Inv, NEW r \in Requests, PushTtfb(r)
  PROVE  Inv'
<1> USE PressAssumption DEF Stages, HoldingStages, ProbeStages, RecordStages,
    EndStages, Failures
<1>1. Moves(r, "push_total", status[r])
  BY SMT DEF PushTtfb, Inv, TypeOK, Moves
<1>2. Moved(r, "push_total", status[r])
  BY <1>1, TaskMoves
<1>3. PermitsConserved' /\ permits' \in 0..Concurrency
  BY <1>2 DEF PushTtfb, Inv, TypeOK, PermitsConserved, Holding, Tally, Moved
<1>4. TypeOK'
  BY <1>1, <1>2, <1>3 DEF PushTtfb, Inv, TypeOK, mainVars, sampleVars, errorVars,
     EmptyTiming, Moves, Moved
<1>5. StageMatchesStatus'
  BY <1>1, <1>2 DEF PushTtfb, Inv, TypeOK, StageMatchesStatus, PendingStages,
     Moves, Moved
<1>6. ConnectionOwned'
  BY <1>1 DEF PushTtfb, Inv, TypeOK, ConnectionOwned, mainVars, Moves
<1>7. Tallies'
  <2>1. timing[r].first_byte \in Nat
    BY DEF Inv, TypeOK
  <2>2. Len(ttfb_samples') = Len(ttfb_samples) + 1
    BY <2>1 DEF PushTtfb, Inv, TypeOK
  <2> QED
    BY <2>2, <1>2 DEF PushTtfb, Inv, TypeOK, StageMatchesStatus, Tallies, PushedTtfb,
       PushedTotal, CountedOk, CountedErr, Tally, Moved, mainVars, sampleVars,
       errorVars, PendingStages
<1> QED
  BY <1>2, <1>3, <1>4, <1>5, <1>6, <1>7 DEF Inv, Moved

\* Pushing the total sample preserves the invariant.
LEMMA PushTotalStep ==
  ASSUME Inv, NEW r \in Requests, PushTotal(r)
  PROVE  Inv'
<1> USE PressAssumption DEF Stages, HoldingStages, ProbeStages, RecordStages,
    EndStages, Failures
<1>1. Moves(r, "count_success", status[r])
  BY SMT DEF PushTotal, Inv, TypeOK, Moves
<1>2. Moved(r, "count_success", status[r])
  BY <1>1, TaskMoves
<1>3. PermitsConserved' /\ permits' \in 0..Concurrency
  BY <1>2 DEF PushTotal, Inv, TypeOK, PermitsConserved, Holding, Tally, Moved
<1>4. TypeOK'
  BY <1>1, <1>2, <1>3 DEF PushTotal, Inv, TypeOK, mainVars, sampleVars, errorVars,
     EmptyTiming, Moves, Moved
<1>5. StageMatchesStatus'
  BY <1>1, <1>2 DEF PushTotal, Inv, TypeOK, StageMatchesStatus, PendingStages,
     Moves, Moved
<1>6. ConnectionOwned'
  BY <1>1 DEF PushTotal, Inv, TypeOK, ConnectionOwned, mainVars, Moves
<1>7. Tallies'
  <2>1. timing[r].total \in Nat
    BY DEF Inv, TypeOK
  <2>2. Len(total_samples') = Len(total_samples) + 1
    BY <2>1 DEF PushTotal, Inv, TypeOK
  <2> QED
    BY <2>2, <1>2 DEF PushTotal, Inv, TypeOK, StageMatchesStatus, Tallies, PushedTtfb,
       PushedTotal, CountedOk, CountedErr, Tally, Moved, mainVars, sampleVars,
       errorVars, PendingStages
<1> QED
  BY <1>2, <1>3, <1>4, <1>5, <1>6, <1>7 DEF Inv, Moved

\* Counting a success preserves the invariant.
LEMMA CountSuccessStep ==
  ASSUME Inv, NEW r \in Requests, CountSuccess(r)
  PROVE  Inv'
<1> USE PressAssumption DEF Stages, HoldingStages, ProbeStages, RecordStages,
    EndStages, Failures
<1>1. Moves(r, "returning", status[r])
  BY SMT DEF CountSuccess, Inv, TypeOK, Moves
<1>2. Moved(r, "returning", status[r])
  BY <1>1, TaskMoves
<1>3. PermitsConserved' /\ permits' \in 0..Concurrency
  BY <1>2 DEF CountSuccess, Inv, TypeOK, PermitsConserved, Holding, Tally, Moved
<1>4. TypeOK'
  BY <1>1, <1>2, <1>3 DEF CountSuccess, Inv, TypeOK, mainVars, sampleVars, errorVars,
     EmptyTiming, Moves, Moved
<1>5. StageMatchesStatus'
  BY <1>1, <1>2 DEF CountSuccess, Inv, TypeOK, StageMatchesStatus, PendingStages,
     Moves, Moved
<1>6. ConnectionOwned'
  BY <1>1 DEF CountSuccess, Inv, TypeOK, ConnectionOwned, mainVars, Moves
<1>7. Tallies'
  BY <1>2 DEF CountSuccess, Inv, TypeOK, StageMatchesStatus, Tallies, PushedTtfb,
     PushedTotal, CountedOk, CountedErr, Tally, Moved, mainVars, sampleVars,
     errorVars, PendingStages
<1> QED
  BY <1>2, <1>3, <1>4, <1>5, <1>6, <1>7 DEF Inv, Moved

\* Counting a failure preserves the invariant.
LEMMA CountErrorStep ==
  ASSUME Inv, NEW r \in Requests, CountError(r)
  PROVE  Inv'
<1> USE PressAssumption DEF Stages, HoldingStages, ProbeStages, RecordStages,
    EndStages, Failures
<1>1. Moves(r, "log_error", status[r])
  BY SMT DEF CountError, Inv, TypeOK, Moves
<1>2. Moved(r, "log_error", status[r])
  BY <1>1, TaskMoves
<1>3. PermitsConserved' /\ permits' \in 0..Concurrency
  BY <1>2 DEF CountError, Inv, TypeOK, PermitsConserved, Holding, Tally, Moved
<1>4. TypeOK'
  BY <1>1, <1>2, <1>3 DEF CountError, Inv, TypeOK, mainVars, sampleVars, errorVars,
     EmptyTiming, Moves, Moved
<1>5. StageMatchesStatus'
  BY <1>1, <1>2 DEF CountError, Inv, TypeOK, StageMatchesStatus, PendingStages,
     Moves, Moved
<1>6. ConnectionOwned'
  BY <1>1 DEF CountError, Inv, TypeOK, ConnectionOwned, mainVars, Moves
<1>7. Tallies'
  BY <1>2 DEF CountError, Inv, TypeOK, StageMatchesStatus, Tallies, PushedTtfb,
     PushedTotal, CountedOk, CountedErr, Tally, Moved, mainVars, sampleVars,
     errorVars, PendingStages
<1> QED
  BY <1>2, <1>3, <1>4, <1>5, <1>6, <1>7 DEF Inv, Moved

\* Logging a failure preserves the invariant.
LEMMA LogErrorStep ==
  ASSUME Inv, NEW r \in Requests, LogError(r)
  PROVE  Inv'
<1> USE PressAssumption DEF Stages, HoldingStages, ProbeStages, RecordStages,
    EndStages, Failures
<1>1. Moves(r, "returning", status[r])
  BY SMT DEF LogError, Inv, TypeOK, Moves
<1>2. Moved(r, "returning", status[r])
  BY <1>1, TaskMoves
<1>3. PermitsConserved' /\ permits' \in 0..Concurrency
  BY <1>2 DEF LogError, Inv, TypeOK, PermitsConserved, Holding, Tally, Moved
<1>4. TypeOK'
  <2>1. status[r] \in Failures
    BY DEF LogError, Inv, TypeOK, StageMatchesStatus, PendingStages
  <2>2. errors' \in Seq(Failures)
    BY <2>1 DEF LogError, Inv, TypeOK
  <2> QED
    BY <1>1, <1>2, <1>3, <2>2 DEF LogError, Inv, TypeOK, mainVars, sampleVars, errorVars,
       EmptyTiming, Moves, Moved
<1>5. StageMatchesStatus'
  BY <1>1, <1>2 DEF LogError, Inv, TypeOK, StageMatchesStatus, PendingStages,
     Moves, Moved
<1>6. ConnectionOwned'
  BY <1>1 DEF LogError, Inv, TypeOK, ConnectionOwned, mainVars, Moves
<1>7. Tallies'
  BY <1>2 DEF LogError, Inv, TypeOK, StageMatchesStatus, Tallies, PushedTtfb,
     PushedTotal, CountedOk, CountedErr, Tally, Moved, mainVars, sampleVars,
     errorVars, PendingStages
<1> QED
  BY <1>2, <1>3, <1>4, <1>5, <1>6, <1>7 DEF Inv, Moved

\* Dropping the permit preserves the invariant.
LEMMA FinishStep ==
  ASSUME Inv, NEW r \in Requests, Finish(r)
  PROVE  Inv'
<1> USE PressAssumption DEF Stages, HoldingStages, ProbeStages, RecordStages,
    EndStages, Failures
<1>1. Moves(r, "finished", status[r])
  BY SMT DEF Finish, Inv, TypeOK, Moves
<1>2. Moved(r, "finished", status[r])
  BY <1>1, TaskMoves
<1>3. PermitsConserved' /\ permits' \in 0..Concurrency
  BY <1>2 DEF Finish, Inv, TypeOK, PermitsConserved, Holding, Tally, Moved
<1>4. TypeOK'
  BY <1>1, <1>2, <1>3 DEF Finish, Inv, TypeOK, mainVars, sampleVars, errorVars,
     EmptyTiming, Moves, Moved
<1>5. StageMatchesStatus'
  BY <1>1, <1>2 DEF Finish, Inv, TypeOK, StageMatchesStatus, PendingStages,
     Moves, Moved
<1>6. ConnectionOwned'
  BY <1>1 DEF Finish, Inv, TypeOK, ConnectionOwned, mainVars, Moves
<1>7. Tallies'
  BY <1>2 DEF Finish, Inv, TypeOK, StageMatchesStatus, Tallies, PushedTtfb,
     PushedTotal, CountedOk, CountedErr, Tally, Moved, mainVars, sampleVars,
     errorVars, PendingStages
<1> QED
  BY <1>2, <1>3, <1>4, <1>5, <1>6, <1>7 DEF Inv, Moved

-----------------------------------------------------------------------------
\* Spawning moves one task from nowhere to the semaphore and touches no tally.
LEMMA SpawnStep ==
  ASSUME Inv, Spawn
  PROVE  Inv'
<1> USE PressAssumption DEF Stages, HoldingStages, ProbeStages, RecordStages,
    EndStages, Failures
<1> DEFINE r == spawned + 1
<1>1. r \in Requests /\ spawned \in Nat /\ spawned' = r
  BY DEF Spawn, Inv, TypeOK, Requests
<1>2. task[r] = "unspawned"
  BY <1>1 DEF Inv, SpawnedInOrder
<1>3. task' = [task EXCEPT ![r] = "acquiring"]
  BY DEF Spawn
<1>4. status' = [status EXCEPT ![r] = status[r]]
  BY <1>1, SMT DEF Spawn, Inv, TypeOK
<1>5. status[r] = "pending"
  BY <1>1, <1>2 DEF Inv, TypeOK, StageMatchesStatus, PendingStages
<1> HIDE DEF r
<1>6. /\ Tally(Holding, Holding', r)
      /\ Tally(PushedTtfb, PushedTtfb', r)
      /\ Tally(PushedTotal, PushedTotal', r)
      /\ Tally(CountedOk, CountedOk', r)
      /\ Tally(CountedErr, CountedErr', r)
  BY <1>1, <1>3, <1>4, TaskFrame DEF Inv
<1>7. task'[r] = "acquiring" /\ status'[r] = "pending"
  BY <1>1, <1>3, <1>4, <1>5 DEF Inv, TypeOK
<1>8. report = <<>> /\ r \notin 1..joined
  BY <1>1, <1>2 DEF Inv, TypeOK, JoinedEnded, ReportLast, Requests
<1>9. TypeOK'
  BY <1>1, <1>3, SMTT(30) DEF Spawn, Inv, TypeOK, sampleVars, errorVars, Requests
<1>10. PermitsConserved' /\ Tallies'
  BY <1>1, <1>2, <1>5, <1>6, <1>7, <1>8 DEF Spawn, Inv, TypeOK, PermitsConserved,
     Tallies, Holding, PushedTtfb, PushedTotal, CountedOk, CountedErr, Tally,
     sampleVars, errorVars
<1>11. StageMatchesStatus'
  BY <1>1, <1>3, <1>4, <1>7 DEF Inv, TypeOK, StageMatchesStatus, PendingStages
<1>12. SpawnedInOrder'
  <2>1. ASSUME NEW q \in Requests, q # r
        PROVE  task'[q] = "unspawned" <=> q > spawned'
    <3>1. task'[q] = task[q]
      BY <1>3, <2>1 DEF Inv, TypeOK
    <3>2. q > spawned <=> q > spawned'
      BY <1>1, <2>1 DEF Requests, r
    <3> QED
      BY <3>1, <3>2 DEF Inv, SpawnedInOrder
  <2> QED
    BY <1>1, <1>7, <2>1 DEF SpawnedInOrder, r
<1>13. ConnectionOwned'
  BY <1>2, <1>3 DEF Spawn, Inv, TypeOK, ConnectionOwned
<1>14. JoinedEnded'
  <2>1. joined' = joined /\ 1..joined \subseteq Requests
    BY DEF Spawn, Inv, TypeOK, Requests
  <2>2. \A q \in 1..joined : task'[q] = task[q]
    BY <1>3, <1>8, <2>1 DEF Inv, TypeOK
  <2> QED
    BY <2>1, <2>2 DEF Inv, JoinedEnded
<1>15. ReportLast' /\ ReportAccounts'
  BY <1>8 DEF Spawn, ReportLast, ReportAccounts, Range
<1> QED
  BY <1>9, <1>10, <1>11, <1>12, <1>13, <1>14, <1>15 DEF Inv

\* Joining moves only the loop of press().
LEMMA JoinStep ==
  ASSUME Inv, Join
  PROVE  Inv'
<1> USE PressAssumption
<1>1. /\ joined' = joined + 1 /\ joined \in Nat /\ joined < NumRequests
      /\ UNCHANGED <<protocol, spawned, permits, task, status, timing, conn, report>>
      /\ UNCHANGED <<ttfb_samples, total_samples, success_count, error_count, errors>>
  BY DEF Join, Inv, TypeOK, taskVars, sampleVars, errorVars
<1>2. TypeOK'
  BY <1>1 DEF Inv, TypeOK
<1>3. PermitsConserved' /\ Tallies' /\ StageMatchesStatus'
  BY <1>1 DEF Inv, PermitsConserved, Tallies, StageMatchesStatus, Holding,
     PushedTtfb, PushedTotal, CountedOk, CountedErr
<1>4. SpawnedInOrder' /\ ConnectionOwned'
  BY <1>1 DEF Inv, SpawnedInOrder, ConnectionOwned
<1>5. JoinedEnded'
  BY <1>1 DEF Join, Inv, JoinedEnded
<1>6. report = <<>>
  BY <1>1 DEF Inv, ReportLast
<1>7. ReportLast' /\ ReportAccounts'
  BY <1>1, <1>6 DEF ReportLast, ReportAccounts, Range
<1> QED
  BY <1>2, <1>3, <1>4, <1>5, <1>7 DEF Inv

\* A driver task ends: only its connection changes.
LEMMA DriverExitStep ==
  ASSUME Inv, NEW r \in Requests, DriverExit(r)
  PROVE  Inv'
<1>1. /\ conn' = [conn EXCEPT ![r] = "closed"]
      /\ UNCHANGED <<protocol, spawned, joined, permits, task, status, timing, report>>
      /\ UNCHANGED <<ttfb_samples, total_samples, success_count, error_count, errors>>
  BY DEF DriverExit, mainVars, taskVars, sampleVars, errorVars
<1>2. TypeOK' /\ ConnectionOwned'
  BY <1>1 DEF Inv, TypeOK, ConnectionOwned
<1>3. PermitsConserved' /\ Tallies' /\ StageMatchesStatus'
  BY <1>1 DEF Inv, PermitsConserved, Tallies, StageMatchesStatus, Holding,
     PushedTtfb, PushedTotal, CountedOk, CountedErr
<1>4. SpawnedInOrder' /\ JoinedEnded' /\ ReportLast' /\ ReportAccounts'
  BY <1>1 DEF Inv, SpawnedInOrder, JoinedEnded, ReportLast, ReportAccounts, Outcome,
     Failed
<1> QED
  BY <1>2, <1>3, <1>4 DEF Inv

\* Every request that ended has one of three outcomes, so the three counts
\* add up to the number of requests.
LEMMA OutcomesPartition ==
  ASSUME TypeOK, \A r \in Requests : status[r] # "pending"
  PROVE  Cardinality(Outcome("success")) + Cardinality(Failed)
           + Cardinality(Outcome("panic")) = NumRequests
<1> DEFINE A == Outcome("success")
           B == Failed
           C == Outcome("panic")
<1>1. /\ A \in SUBSET Requests /\ B \in SUBSET Requests /\ C \in SUBSET Requests
      /\ A \cup B \in SUBSET Requests
  BY DEF Outcome, Failed
<1>2. (A \cup B) \cup C = Requests
  BY DEF TypeOK, Outcome, Failed, Failures
<1>3. A \cap B = {} /\ (A \cup B) \cap C = {}
  BY DEF Outcome, Failed, Failures
<1> HIDE DEF A, B, C
<1>4. IsFiniteSet(A) /\ IsFiniteSet(B) /\ IsFiniteSet(C) /\ IsFiniteSet(A \cup B)
  BY <1>1, RequestsFinite
<1>5. /\ Cardinality(A) \in Nat /\ Cardinality(B) \in Nat /\ Cardinality(C) \in Nat
      /\ Cardinality({}) = 0
  BY <1>1, RequestsFinite, FS_EmptySet
<1>6. Cardinality(A \cup B) = Cardinality(A) + Cardinality(B)
  <2>1. Cardinality(A \cup B)
          = Cardinality(A) + Cardinality(B) - Cardinality(A \cap B)
    BY <1>4, FS_Union
  <2>2. Cardinality(A \cap B) = 0
    BY <1>3, <1>5, Zenon
  <2> QED
    BY <2>1, <2>2, <1>5, SMT
<1>7. Cardinality((A \cup B) \cup C) = Cardinality(A \cup B) + Cardinality(C)
  <2>1. Cardinality((A \cup B) \cup C)
          = Cardinality(A \cup B) + Cardinality(C) - Cardinality((A \cup B) \cap C)
    BY <1>4, FS_Union
  <2>2. Cardinality((A \cup B) \cap C) = 0
    BY <1>3, <1>5, Zenon
  <2> QED
    BY <2>1, <2>2, <1>5, <1>6, SMT
<1> QED
  BY <1>2, <1>6, <1>7, RequestsFinite DEF A, B, C

\* The report is built from complete tallies.
LEMMA CollectStep ==
  ASSUME Inv, Collect
  PROVE  Inv'
<1> USE PressAssumption
<1> DEFINE rep == report'[1]
<1>1. /\ joined = NumRequests /\ report = <<>>
      /\ ttfb_samples' = <<>> /\ total_samples' = <<>> /\ errors' = <<>>
      /\ UNCHANGED <<protocol, spawned, joined, permits, task, status, timing, conn,
                     success_count, error_count>>
  BY DEF Collect, taskVars
<1>2. /\ report' = <<rep>>
      /\ rep.total_requests = NumRequests
      /\ rep.success_count = success_count
      /\ rep.error_count = error_count
      /\ rep.ttfb = FromSortedMs(Sorted(ttfb_samples))
      /\ rep.total_time = FromSortedMs(Sorted(total_samples))
  BY DEF Collect
<1> HIDE DEF rep
<1>3. \A r \in Requests : task[r] \in EndStages
  BY <1>1 DEF Inv, JoinedEnded, Requests
<1>4. \A r \in Requests : status[r] # "pending"
  BY <1>3 DEF Inv, StageMatchesStatus, PendingStages, EndStages, ProbeStages
<1>5. /\ PushedTtfb = Outcome("success") /\ PushedTotal = Outcome("success")
      /\ CountedOk = Outcome("success") /\ CountedErr = Failed
  BY <1>3 DEF PushedTtfb, PushedTotal, CountedOk, CountedErr, Outcome, Failed,
     EndStages
<1>6. /\ success_count = Cardinality(Outcome("success"))
      /\ error_count = Cardinality(Failed)
      /\ Len(ttfb_samples) = success_count
      /\ Len(total_samples) = success_count
  BY <1>1, <1>5 DEF Inv, Tallies
<1>7. /\ rep.ttfb.sample_count = success_count
      /\ rep.total_time.sample_count = success_count
  BY <1>2, <1>6, SampleCount DEF Inv, TypeOK
<1>8. ReportAccounts'
  <2>1. Range(report') = {rep}
    BY <1>2 DEF Range
  <2>2. Outcome("success")' = Outcome("success") /\ Outcome("panic")' = Outcome("panic")
        /\ Failed' = Failed
    BY <1>1 DEF Outcome, Failed
  <2>3. success_count + error_count + Cardinality(Outcome("panic")) = NumRequests
    BY <1>4, <1>6, OutcomesPartition DEF Inv
  <2> QED
    BY <1>2, <1>6, <1>7, <2>1, <2>2, <2>3 DEF ReportAccounts
<1>9. TypeOK' /\ ReportLast'
  BY <1>1, <1>2 DEF Inv, TypeOK, ReportLast
<1>10. PermitsConserved' /\ StageMatchesStatus'
  BY <1>1 DEF Inv, PermitsConserved, StageMatchesStatus, Holding
<1>11. Tallies'
  BY <1>1, <1>2 DEF Inv, Tallies, CountedOk, CountedErr
<1>12. SpawnedInOrder' /\ ConnectionOwned' /\ JoinedEnded'
  BY <1>1 DEF Inv, SpawnedInOrder, ConnectionOwned, JoinedEnded
<1> QED
  BY <1>8, <1>9, <1>10, <1>11, <1>12 DEF Inv

\* A step that changes nothing.
LEMMA StutterStep ==
  ASSUME Inv, UNCHANGED vars
  PROVE  Inv'
<1>1. TypeOK' /\ StageMatchesStatus' /\ SpawnedInOrder'
  BY DEF vars, Inv, TypeOK, StageMatchesStatus, SpawnedInOrder
<1>2. ConnectionOwned' /\ JoinedEnded' /\ ReportLast'
  BY DEF vars, Inv, ConnectionOwned, JoinedEnded, ReportLast
<1>3. PermitsConserved' /\ Tallies'
  BY DEF vars, Inv, PermitsConserved, Tallies, Holding, PushedTtfb, PushedTotal,
     CountedOk, CountedErr
<1>4. ReportAccounts'
  BY DEF vars, Inv, ReportAccounts, Outcome, Failed
<1> QED
  BY <1>1, <1>2, <1>3, <1>4 DEF Inv

\* The invariant holds when press() starts.
LEMMA InitInv == Init => Inv
<1> SUFFICES ASSUME Init PROVE Inv
  OBVIOUS
<1> USE PressAssumption DEF Stages, HoldingStages, ProbeStages, RecordStages,
    EndStages, Failures
<1>1. TypeOK
  BY DEF Init, TypeOK, EmptyTiming
<1>2. /\ Holding = {} /\ PushedTtfb = {} /\ PushedTotal = {}
      /\ CountedOk = {} /\ CountedErr = {}
  BY DEF Init, Holding, PushedTtfb, PushedTotal, CountedOk, CountedErr
<1>3. PermitsConserved /\ Tallies
  BY <1>2, FS_EmptySet DEF Init, PermitsConserved, Tallies
<1>4. StageMatchesStatus /\ ConnectionOwned
  BY DEF Init, StageMatchesStatus, ConnectionOwned, PendingStages
<1>5. SpawnedInOrder /\ JoinedEnded
  BY DEF Init, SpawnedInOrder, JoinedEnded, Requests
<1>6. ReportLast /\ ReportAccounts
  BY DEF Init, ReportLast, ReportAccounts, Range
<1> QED
  BY <1>1, <1>3, <1>4, <1>5, <1>6 DEF Inv

\* The invariant behind every result of this module.
THEOREM Invariance == Spec => []Inv
<1>1. Inv /\ [Next]_vars => Inv'
  <2> SUFFICES ASSUME Inv, [Next]_vars PROVE Inv'
    OBVIOUS
  <2>1. CASE MainStep
    BY <2>1, SpawnStep, JoinStep, CollectStep DEF MainStep
  <2>2. ASSUME NEW r \in Requests, TaskStep(r) PROVE Inv'
    BY <2>2, AcquireStep, ConnectStep, SendRequestStep, ProbeSucceedsStep,
       ProbeFailsStep, ProbePanicsStep, PushTtfbStep, PushTotalStep,
       CountSuccessStep, CountErrorStep, LogErrorStep, FinishStep
       DEF TaskStep, ProbeStep, RecordStep
  <2>3. ASSUME NEW r \in Requests, DriverExit(r) PROVE Inv'
    BY <2>3, DriverExitStep
  <2>4. CASE Returned \/ UNCHANGED vars
    BY <2>4, StutterStep DEF Returned
  <2> QED
    BY <2>1, <2>2, <2>3, <2>4 DEF Next
<1> QED
  BY InitInv, <1>1, PTL DEF Spec

-----------------------------------------------------------------------------
\* Every variable keeps its type; in particular the semaphore never holds
\* more permits than it was made with.
THEOREM TypeCorrect == Spec => []TypeOK
<1>1. Inv => TypeOK
  BY DEF Inv
<1> QED
  BY <1>1, Invariance, PTL

\* However the probes end, permits are neither lost nor made up.
THEOREM PermitConservation == Spec => []PermitsConserved
<1>1. Inv => PermitsConserved
  BY DEF Inv
<1> QED
  BY <1>1, Invariance, PTL

\* The report of every press run accounts for every request exactly once.
THEOREM ReportAccounting == Spec => []ReportAccounts
<1>1. Inv => ReportAccounts
  BY DEF Inv
<1> QED
  BY <1>1, Invariance, PTL

\* With HTTP/1.1 and HTTP/3, --concurrency bounds the open connections.
THEOREM ConnectionBound == Spec => []OwnedConnectionsBounded
<1>1. ASSUME Inv PROVE OwnedConnectionsBounded
  <2> SUFFICES ASSUME protocol # "Http2" PROVE ConnectionsBounded
    BY DEF OwnedConnectionsBounded
  <2>1. OpenConnections \subseteq Holding
    BY <1>1 DEF Inv, ConnectionOwned, OpenConnections, Holding, HoldingStages,
       ProbeStages
  <2>2. Holding \in SUBSET Requests /\ OpenConnections \in SUBSET Requests
    BY DEF Holding, OpenConnections
  <2>3. Cardinality(OpenConnections) <= Cardinality(Holding)
    BY <2>1, <2>2, RequestsFinite, FS_Subset
  <2>4. Cardinality(Holding) \in Nat /\ Cardinality(OpenConnections) \in Nat
    BY <2>2, RequestsFinite
  <2> QED
    BY <1>1, <2>3, <2>4, PressAssumption
       DEF Inv, TypeOK, PermitsConserved, ConnectionsBounded
<1> QED
  BY <1>1, Invariance, PTL

-----------------------------------------------------------------------------
\* The error list.  Whose failure has been through the vector of errors, and
\* its entries of one kind.
LoggedAs(f) == {r \in Requests : status[r] = f /\ task[r] \in {"returning", "finished"}}
Logged == {r \in Requests : status[r] \in Failures /\ task[r] \in {"returning", "finished"}}
Entries(s, f) == {i \in DOMAIN s : s[i] = f}

\* Until the report takes it, the vector holds an entry per failure logged, up
\* to the cap.
ErrorTally ==
  report = <<>> =>
    /\ Len(errors) = IF Cardinality(Logged) < MaxErrors THEN Cardinality(Logged)
                                                        ELSE MaxErrors
    /\ \A f \in Failures : Cardinality(Entries(errors, f)) <= Cardinality(LoggedAs(f))

ErrorInv == ErrorTally /\ ErrorsCapped

\* The entries of a list are finitely many.
LEMMA EntriesFinite ==
  ASSUME NEW s \in Seq(Failures), NEW f
  PROVE  IsFiniteSet(Entries(s, f)) /\ Cardinality(Entries(s, f)) \in Nat
<1>1. Entries(s, f) \subseteq 1..Len(s) /\ Len(s) \in Nat
  BY DEF Entries
<1>2. IsFiniteSet(1..Len(s))
  BY <1>1, FS_Interval
<1> QED
  BY <1>1, <1>2, FS_Subset, FS_CardinalityType

\* Pushing an entry of kind e adds one to the entries of that kind and none
\* to those of the other.
LEMMA EntriesPush ==
  ASSUME NEW s \in Seq(Failures), NEW e \in Failures, NEW f \in Failures
  PROVE  Cardinality(Entries(Append(s, e), f))
           = Cardinality(Entries(s, f)) + (IF e = f THEN 1 ELSE 0)
<1> DEFINE n == Len(s) + 1
<1>0. /\ Len(s) \in Nat /\ DOMAIN s = 1..Len(s) /\ n \notin 1..Len(s)
      /\ DOMAIN Append(s, e) = 1..n /\ 1..n = 1..Len(s) \cup {n}
      /\ Append(s, e)[n] = e /\ \A i \in 1..Len(s) : Append(s, e)[i] = s[i]
  OBVIOUS
<1> HIDE DEF n
<1>1. CASE e = f
  <2>1. Entries(Append(s, e), f) = Entries(s, f) \cup {n} /\ n \notin Entries(s, f)
    BY <1>0, <1>1 DEF Entries
  <2> QED
    BY <1>1, <2>1, EntriesFinite, FS_AddElement
<1>2. CASE e # f
  <2>1. Entries(Append(s, e), f) = Entries(s, f)
    BY <1>0, <1>2 DEF Entries
  <2> QED
    BY <1>2, <2>1, EntriesFinite
<1> QED
  BY <1>1, <1>2

\* A step that is neither LogError nor Collect leaves the list, and the
\* failures logged, alone.
LEMMA OthersDoNotLog ==
  ASSUME Inv, Next, ~Collect, \A r \in Requests : ~LogError(r)
  PROVE  /\ errors' = errors /\ report' = report
         /\ Logged' = Logged /\ \A f \in Failures : LoggedAs(f)' = LoggedAs(f)
<1> DEFINE Kept == /\ errors' = errors /\ report' = report
                   /\ \A q \in Requests :
                        \/ task'[q] = task[q] /\ status'[q] = status[q]
                        \/ /\ status[q] \in Failures /\ status'[q] = status[q]
                           /\ {task[q], task'[q]} \subseteq {"returning", "finished"}
                        \/ /\ status[q] \notin Failures
                              \/ task[q] \notin {"returning", "finished"}
                           /\ status'[q] \notin Failures
                              \/ task'[q] \notin {"returning", "finished"}
<1> USE DEF mainVars, taskVars, sampleVars, errorVars
<1>1. ASSUME Spawn PROVE Kept
  <2>1. spawned + 1 \in Requests /\ spawned + 1 > spawned
    BY <1>1, PressAssumption DEF Spawn, Inv, TypeOK, Requests
  <2>2. task[spawned + 1] = "unspawned"
    BY <2>1 DEF Inv, SpawnedInOrder
  <2> QED
    BY <1>1, <2>2 DEF Spawn, Inv, TypeOK
<1>2. ASSUME Join \/ Returned PROVE Kept
  BY <1>2 DEF Join, Returned, vars
<1>3. ASSUME NEW r \in Requests, DriverExit(r) PROVE Kept
  BY <1>3 DEF DriverExit
<1>4. ASSUME NEW r \in Requests, Acquire(r) PROVE Kept
  BY <1>4 DEF Acquire, Inv, TypeOK
<1>5. ASSUME NEW r \in Requests, Connect(r) \/ SendRequest(r) PROVE Kept
  BY <1>5 DEF Connect, SendRequest, Inv, TypeOK
<1>6. ASSUME NEW r \in Requests, ProbeSucceeds(r) PROVE Kept
  BY <1>6 DEF ProbeSucceeds, Inv, TypeOK
<1>7. ASSUME NEW r \in Requests, ProbeFails(r) PROVE Kept
  <2>1. PICK f \in Failures : status' = [status EXCEPT ![r] = f]
    BY <1>7 DEF ProbeFails
  <2> QED
    BY <1>7, <2>1 DEF ProbeFails, ProbeStages, Inv, TypeOK
<1>8. ASSUME NEW r \in Requests, ProbePanics(r) PROVE Kept
  BY <1>8 DEF ProbePanics, Inv, TypeOK
<1>9. ASSUME NEW r \in Requests, PushTtfb(r) \/ PushTotal(r) PROVE Kept
  BY <1>9 DEF PushTtfb, PushTotal, Inv, TypeOK
<1>10. ASSUME NEW r \in Requests, CountSuccess(r) PROVE Kept
  BY <1>10 DEF CountSuccess, Inv, TypeOK, StageMatchesStatus, Failures, PendingStages,
     ProbeStages
<1>11. ASSUME NEW r \in Requests, CountError(r) PROVE Kept
  BY <1>11 DEF CountError, Inv, TypeOK
<1>12. ASSUME NEW r \in Requests, Finish(r) PROVE Kept
  BY <1>12 DEF Finish, Inv, TypeOK
<1> HIDE DEF Kept
<1>13. Kept
  BY <1>1, <1>2, <1>3, <1>4, <1>5, <1>6, <1>7, <1>8, <1>9, <1>10, <1>11, <1>12
     DEF Next, MainStep, TaskStep, ProbeStep, RecordStep
<1>14. Logged' = Logged
  BY <1>13 DEF Logged, Requests, Kept
<1>15. ASSUME NEW f \in Failures PROVE LoggedAs(f)' = LoggedAs(f)
  BY <1>13 DEF LoggedAs, Requests, Kept
<1> QED
  BY <1>13, <1>14, <1>15 DEF Kept

\* Logging a failure enters its request among those logged, and pushes its
\* kind unless the list is full.
LEMMA LogErrorTally ==
  ASSUME Inv, ErrorInv, NEW r \in Requests, LogError(r)
  PROVE  ErrorInv'
<1> DEFINE e == status[r]
<1>1. /\ task[r] = "log_error" /\ task' = [task EXCEPT ![r] = "returning"]
      /\ UNCHANGED <<status, joined, report>>
      /\ errors' = IF Len(errors) < MaxErrors THEN Append(errors, e) ELSE errors
  BY DEF LogError, mainVars
<1>2. e \in Failures
  BY <1>1 DEF Inv, TypeOK, StageMatchesStatus, PendingStages, ProbeStages, Failures
<1>3. report = <<>> /\ report' = <<>>
  BY <1>1, PressAssumption DEF Inv, JoinedEnded, ReportLast, EndStages, Requests
<1>4. errors \in Seq(Failures) /\ Len(errors) \in Nat
  BY DEF Inv, TypeOK
<1> HIDE DEF e
<1>5. Cardinality(Logged') = Cardinality(Logged) + 1 /\ Cardinality(Logged) \in Nat
  <2>1. Logged' = Logged \cup {r} /\ r \notin Logged
    BY <1>1, <1>2 DEF Logged, Requests, Inv, TypeOK, e
  <2>2. Logged \in SUBSET Requests
    BY DEF Logged
  <2> QED
    BY <2>1, <2>2, RequestsFinite, FS_AddElement
<1>6. ASSUME NEW f \in Failures
      PROVE  /\ Cardinality(LoggedAs(f)') = Cardinality(LoggedAs(f)) + (IF e = f THEN 1 ELSE 0)
             /\ Cardinality(LoggedAs(f)) \in Nat
  <2>1. LoggedAs(f) \in SUBSET Requests
    BY DEF LoggedAs
  <2>2. IF e = f THEN LoggedAs(f)' = LoggedAs(f) \cup {r} /\ r \notin LoggedAs(f)
                 ELSE LoggedAs(f)' = LoggedAs(f)
    BY <1>1 DEF LoggedAs, Requests, Inv, TypeOK, e
  <2> QED
    BY <2>1, <2>2, RequestsFinite, FS_AddElement
<1>7. ASSUME NEW f \in Failures
      PROVE  /\ Cardinality(Entries(errors', f))
                  <= Cardinality(Entries(errors, f)) + (IF e = f THEN 1 ELSE 0)
             /\ Cardinality(Entries(errors, f)) \in Nat
             /\ Cardinality(Entries(errors', f)) \in Nat
  <2>1. Cardinality(Entries(errors, f)) \in Nat
    BY <1>4, EntriesFinite
  <2>2. Cardinality(Entries(Append(errors, e), f))
          = Cardinality(Entries(errors, f)) + (IF e = f THEN 1 ELSE 0)
    BY <1>2, <1>4, EntriesPush
  <2>3. CASE errors' = errors
    BY <2>1, <2>3
  <2>4. CASE errors' = Append(errors, e)
    BY <2>1, <2>2, <2>4
  <2> QED
    BY <1>1, <2>3, <2>4
<1>8. Len(errors') = IF Cardinality(Logged') < MaxErrors THEN Cardinality(Logged')
                                                         ELSE MaxErrors
  <2>1. Len(errors) = IF Cardinality(Logged) < MaxErrors THEN Cardinality(Logged)
                                                         ELSE MaxErrors
    BY <1>3 DEF ErrorInv, ErrorTally
  <2>2. Len(Append(errors, e)) = Len(errors) + 1
    BY <1>2, <1>4
  <2> QED
    BY <1>1, <1>5, <2>1, <2>2, PressAssumption
<1>9. ASSUME NEW f \in Failures
      PROVE  Cardinality(Entries(errors', f)) <= Cardinality(LoggedAs(f)')
  <2>1. Cardinality(Entries(errors, f)) <= Cardinality(LoggedAs(f))
    BY <1>3 DEF ErrorInv, ErrorTally
  <2> QED
    BY <2>1, <1>6, <1>7
<1>10. ErrorTally'
  BY <1>3, <1>8, <1>9 DEF ErrorTally
<1>11. ErrorsCapped'
  BY <1>3 DEF ErrorsCapped, Range
<1> QED
  BY <1>10, <1>11 DEF ErrorInv

\* When press() collects, every failure has been logged.
LEMMA CollectErrors ==
  ASSUME Inv, ErrorInv, Collect
  PROVE  ErrorInv'
<1> DEFINE rep == report'[1]
<1>1. /\ joined = NumRequests /\ report = <<>> /\ UNCHANGED <<task, status>>
      /\ report' = <<rep>> /\ rep.errors = errors /\ rep.error_count = error_count
  BY DEF Collect, taskVars
<1> HIDE DEF rep
<1>2. \A r \in Requests : task[r] \in EndStages
  BY <1>1 DEF Inv, JoinedEnded, Requests
<1>3. CountedErr = Logged
  BY <1>2 DEF CountedErr, Logged, EndStages, Inv, StageMatchesStatus, PendingStages
<1>4. error_count = Cardinality(Logged)
  BY <1>3 DEF Inv, Tallies
<1>5. \A f \in Failures : LoggedAs(f) = Outcome(f) /\ Outcome(f)' = Outcome(f)
  BY <1>1, <1>2 DEF LoggedAs, Outcome, Failures, EndStages, Inv, StageMatchesStatus
<1>6. /\ Len(errors) = IF error_count < MaxErrors THEN error_count ELSE MaxErrors
      /\ \A f \in Failures : Cardinality(Entries(errors, f)) <= Cardinality(Outcome(f))
  BY <1>1, <1>4, <1>5 DEF ErrorInv, ErrorTally
<1>7. Range(report') = {rep}
  BY <1>1 DEF Range
<1>8. ErrorsCapped'
  BY <1>1, <1>5, <1>6, <1>7 DEF ErrorsCapped, Entries
<1>9. ErrorTally'
  BY <1>1 DEF ErrorTally
<1> QED
  BY <1>8, <1>9 DEF ErrorInv

\* A report that is there stays as it is, and so do the outcomes it accounts.
LEMMA ReportStays ==
  ASSUME Inv, report # <<>>, [Next]_vars
  PROVE  UNCHANGED <<report, status, timing>>
<1> USE DEF mainVars, taskVars
<1>1. joined = NumRequests /\ NumRequests \in Nat
  BY PressAssumption DEF Inv, ReportLast
<1>2. \A r \in Requests : task[r] \in EndStages
  BY <1>1 DEF Inv, JoinedEnded, Requests
<1>3. ~Spawn
  <2>1. ASSUME Spawn PROVE FALSE
    <3>1. spawned + 1 \in Requests /\ spawned + 1 > spawned
      BY <2>1, <1>1 DEF Spawn, Inv, TypeOK, Requests
    <3>2. task[spawned + 1] = "unspawned"
      BY <3>1 DEF Inv, SpawnedInOrder
    <3> QED
      BY <1>2, <3>1, <3>2 DEF EndStages
  <2> QED
    BY <2>1
<1>4. ~Join /\ ~Collect
  BY <1>1 DEF Join, Collect
<1>5. ASSUME NEW r \in Requests PROVE ~TaskStep(r)
  BY <1>2 DEF EndStages, TaskStep, Acquire, ProbeStep, RecordStep, Connect, SendRequest,
     ProbeSucceeds, ProbeFails, ProbePanics, PushTtfb, PushTotal, CountSuccess,
     CountError, LogError, Finish, ProbeStages
<1>6. ASSUME NEW r \in Requests, DriverExit(r) PROVE UNCHANGED <<report, status, timing>>
  BY <1>6 DEF DriverExit
<1>7. CASE Returned \/ UNCHANGED vars
  BY <1>7 DEF Returned, vars
<1> QED
  BY <1>3, <1>4, <1>5, <1>6, <1>7 DEF Next, MainStep

\* Every step keeps the list as it should be.
LEMMA ErrorStep ==
  ASSUME Inv, ErrorInv, [Next]_vars
  PROVE  ErrorInv'
<1>1. CASE Collect
  BY <1>1, CollectErrors
<1>2. ASSUME NEW r \in Requests, LogError(r) PROVE ErrorInv'
  BY <1>2, LogErrorTally
<1>3. CASE report # <<>>
  <2>1. UNCHANGED <<report, status>>
    BY <1>3, ReportStays
  <2>2. \A f : Outcome(f)' = Outcome(f)
    BY <2>1 DEF Outcome
  <2>3. ErrorsCapped'
    BY <2>1, <2>2 DEF ErrorInv, ErrorsCapped
  <2> QED
    BY <1>3, <2>1, <2>3 DEF ErrorInv, ErrorTally
<1>4. CASE Next /\ ~Collect /\ (\A r \in Requests : ~LogError(r)) /\ report = <<>>
  <2>1. /\ errors' = errors /\ report' = report
        /\ Logged' = Logged /\ \A f \in Failures : LoggedAs(f)' = LoggedAs(f)
    BY <1>4, OthersDoNotLog
  <2>2. ErrorTally'
    BY <2>1 DEF ErrorInv, ErrorTally
  <2>3. ErrorsCapped'
    BY <1>4, <2>1 DEF ErrorsCapped, Range
  <2> QED
    BY <2>2, <2>3 DEF ErrorInv
<1>5. CASE UNCHANGED vars /\ report = <<>>
  <2>1. /\ errors' = errors /\ report' = report /\ task' = task /\ status' = status
    BY <1>5 DEF vars
  <2>2. Logged' = Logged /\ \A f \in Failures : LoggedAs(f)' = LoggedAs(f)
    BY <2>1 DEF Logged, LoggedAs
  <2>3. ErrorTally'
    BY <2>1, <2>2 DEF ErrorInv, ErrorTally
  <2>4. ErrorsCapped'
    BY <1>5, <2>1 DEF ErrorsCapped, Range
  <2> QED
    BY <2>3, <2>4 DEF ErrorInv
<1> QED
  BY <1>1, <1>2, <1>3, <1>4, <1>5

\* The report's error list is the failures, one entry each, up to the cap of
\* the vector and never past it, whatever the order the tasks log in.
THEOREM ErrorListCapped == Spec => []ErrorsCapped
<1>1. Init => ErrorInv
  <2> SUFFICES ASSUME Init PROVE ErrorInv
    OBVIOUS
  <2>1. Logged = {} /\ errors = <<>> /\ report = <<>> /\ DOMAIN errors = {}
    BY DEF Init, Logged, Failures
  <2>2. \A f \in Failures : Entries(errors, f) = {} /\ LoggedAs(f) = {}
    BY <2>1 DEF Init, Entries, LoggedAs, Failures
  <2>3. Cardinality({}) = 0 /\ Len(errors) = 0
    BY <2>1, FS_EmptySet
  <2>4. ErrorTally
    <3>1. Cardinality(Logged) = 0 /\ MaxErrors \in Nat
      BY <2>1, <2>3, PressAssumption
    <3>2. \A f \in Failures : Cardinality(Entries(errors, f)) = 0 /\ Cardinality(LoggedAs(f)) = 0
      BY <2>2, <2>3
    <3> QED
      BY <2>3, <3>1, <3>2 DEF ErrorTally
  <2>5. ErrorsCapped
    BY <2>1 DEF ErrorsCapped, Range
  <2> QED
    BY <2>4, <2>5 DEF ErrorInv
<1>2. Inv /\ ErrorInv /\ [Next]_vars => ErrorInv'
  BY ErrorStep
<1>3. ErrorInv => ErrorsCapped
  BY DEF ErrorInv
<1> QED
  BY <1>1, <1>2, <1>3, Invariance, PTL DEF Spec

-----------------------------------------------------------------------------
\* The samples.  What each probe has to push.
FirstBytes == [r \in Requests |-> timing[r].first_byte]
Totals     == [r \in Requests |-> timing[r].total]

\* A probe that succeeded has a timing read from the clock.
Timed == \A r \in Requests : status[r] = "success" => timing[r] \in Timings

\* Until the report takes them, the vectors hold every value as often as the
\* probes that pushed it.
PushedSamples ==
  report = <<>> =>
    /\ SameLevels(ttfb_samples, DOMAIN ttfb_samples, FirstBytes, PushedTtfb)
    /\ SameLevels(total_samples, DOMAIN total_samples, Totals, PushedTotal)

SampleInv == Timed /\ PushedSamples /\ ReportDescribesProbes /\ ColumnsConsistent

\* What a step that pushes nothing does to request q: nothing; or it goes on
\* after its pushes; or it has nothing to push, or has not pushed it yet.
QuietFor(q) ==
  \/ task'[q] = task[q] /\ status'[q] = status[q] /\ timing'[q] = timing[q]
  \/ /\ status'[q] = status[q] /\ timing'[q] = timing[q]
     /\ {task[q], task'[q]} \cap {"push_ttfb", "push_total"} = {}
  \/ /\ status[q] # "success"
     /\ status'[q] # "success" \/ (task'[q] = "push_ttfb" /\ timing'[q] \in Timings)

\* A step that is neither a push nor Collect leaves the vectors, and what was
\* pushed into them, alone.
LEMMA OthersDoNotPush ==
  ASSUME Inv, Next, ~Collect, \A r \in Requests : ~PushTtfb(r) /\ ~PushTotal(r)
  PROVE  /\ UNCHANGED <<ttfb_samples, total_samples, report>>
         /\ \A q \in Requests : QuietFor(q)
<1> DEFINE Quiet == /\ UNCHANGED <<ttfb_samples, total_samples, report>>
                    /\ \A q \in Requests : QuietFor(q)
<1> USE DEF mainVars, taskVars, sampleVars, errorVars
<1>1. ASSUME Spawn PROVE Quiet
  <2>1. spawned + 1 \in Requests /\ spawned + 1 > spawned
    BY <1>1, PressAssumption DEF Spawn, Inv, TypeOK, Requests
  <2>2. task[spawned + 1] = "unspawned"
    BY <2>1 DEF Inv, SpawnedInOrder
  <2> QED
    BY <1>1, <2>2 DEF Spawn, Inv, TypeOK, QuietFor
<1>2. ASSUME Join \/ Returned PROVE Quiet
  BY <1>2 DEF Join, Returned, vars, QuietFor
<1>3. ASSUME NEW r \in Requests, DriverExit(r) PROVE Quiet
  BY <1>3 DEF DriverExit, QuietFor
<1>4. ASSUME NEW r \in Requests, Acquire(r) PROVE Quiet
  BY <1>4 DEF Acquire, Inv, TypeOK, QuietFor
<1>5. ASSUME NEW r \in Requests, Connect(r) \/ SendRequest(r) PROVE Quiet
  BY <1>5 DEF Connect, SendRequest, Inv, TypeOK, QuietFor
<1>6. ASSUME NEW r \in Requests, ProbeSucceeds(r) PROVE Quiet
  <2>1. PICK t \in Timings : timing' = [timing EXCEPT ![r] = t]
    BY <1>6 DEF ProbeSucceeds
  <2>2. status[r] # "success"
    BY <1>6 DEF ProbeSucceeds, Inv, StageMatchesStatus, PendingStages, ProbeStages
  <2> QED
    BY <1>6, <2>1, <2>2 DEF ProbeSucceeds, Inv, TypeOK, QuietFor
<1>7. ASSUME NEW r \in Requests, ProbeFails(r) PROVE Quiet
  <2>1. PICK f \in Failures : status' = [status EXCEPT ![r] = f]
    BY <1>7 DEF ProbeFails
  <2>2. status[r] # "success"
    BY <1>7 DEF ProbeFails, Inv, StageMatchesStatus, PendingStages, ProbeStages
  <2> QED
    BY <1>7, <2>1, <2>2 DEF ProbeFails, Inv, TypeOK, QuietFor, Failures
<1>8. ASSUME NEW r \in Requests, ProbePanics(r) PROVE Quiet
  <2>1. status[r] # "success"
    BY <1>8 DEF ProbePanics, Inv, StageMatchesStatus, PendingStages, ProbeStages
  <2> QED
    BY <1>8, <2>1 DEF ProbePanics, Inv, TypeOK, QuietFor
<1>9. ASSUME NEW r \in Requests, CountSuccess(r) \/ CountError(r) PROVE Quiet
  BY <1>9 DEF CountSuccess, CountError, Inv, TypeOK, QuietFor
<1>10. ASSUME NEW r \in Requests, LogError(r) \/ Finish(r) PROVE Quiet
  BY <1>10 DEF LogError, Finish, Inv, TypeOK, QuietFor
<1> HIDE DEF Quiet
<1>11. Quiet
  BY <1>1, <1>2, <1>3, <1>4, <1>5, <1>6, <1>7, <1>8, <1>9, <1>10
     DEF Next, MainStep, TaskStep, ProbeStep, RecordStep
<1> QED
  BY <1>11 DEF Quiet

\* Then the vectors still hold what the same probes pushed.
LEMMA QuietStep ==
  ASSUME Inv, SampleInv, report = <<>>, UNCHANGED <<ttfb_samples, total_samples, report>>,
         \A q \in Requests : QuietFor(q)
  PROVE  SampleInv'
<1>1. Timed'
  BY DEF SampleInv, Timed, QuietFor, Requests
<1>2. PushedTtfb' = PushedTtfb /\ PushedTotal' = PushedTotal
  BY DEF PushedTtfb, PushedTotal, QuietFor, Requests
<1>3. /\ \A q \in PushedTtfb : FirstBytes[q] = FirstBytes'[q]
      /\ \A q \in PushedTotal : Totals[q] = Totals'[q]
  BY DEF FirstBytes, Totals, PushedTtfb, PushedTotal, QuietFor, Requests
<1>4. /\ SameLevels(ttfb_samples, DOMAIN ttfb_samples, FirstBytes, PushedTtfb)
      /\ SameLevels(total_samples, DOMAIN total_samples, Totals, PushedTotal)
  BY DEF SampleInv, PushedSamples
<1>5. /\ SameLevels(ttfb_samples, DOMAIN ttfb_samples, FirstBytes', PushedTtfb)
      /\ SameLevels(total_samples, DOMAIN total_samples, Totals', PushedTotal)
  BY <1>3, <1>4, LevelsAgree
<1>6. PushedSamples'
  BY <1>2, <1>5 DEF PushedSamples
<1>7. ReportDescribesProbes' /\ ColumnsConsistent'
  BY DEF ReportDescribesProbes, ColumnsConsistent, Range
<1> QED
  BY <1>1, <1>6, <1>7 DEF SampleInv

\* A push adds the sample of the probe that joins those that pushed.
LEMMA PushStep ==
  ASSUME Inv, SampleInv, NEW r \in Requests, PushTtfb(r) \/ PushTotal(r)
  PROVE  SampleInv'
<1> USE DEF mainVars, taskVars, sampleVars, errorVars
<1>1. task[r] \in {"push_ttfb", "push_total"} /\ UNCHANGED <<status, timing, joined, report>>
  BY DEF PushTtfb, PushTotal
<1>2. report = <<>> /\ report' = <<>>
  BY <1>1, PressAssumption DEF Inv, JoinedEnded, ReportLast, EndStages, Requests
<1>3. status[r] = "success"
  BY <1>1 DEF Inv, TypeOK, StageMatchesStatus, PendingStages, ProbeStages, Failures
<1>4. /\ FirstBytes' = FirstBytes /\ Totals' = Totals
      /\ FirstBytes[r] = timing[r].first_byte /\ Totals[r] = timing[r].total
      /\ FirstBytes[r] \in Nat /\ Totals[r] \in Nat
  BY <1>1 DEF FirstBytes, Totals, Inv, TypeOK
<1>5. /\ ttfb_samples \in Seq(Nat) /\ total_samples \in Seq(Nat)
      /\ IsFiniteSet(PushedTtfb) /\ IsFiniteSet(PushedTotal)
  BY RequestsFinite DEF Inv, TypeOK, PushedTtfb, PushedTotal
<1>6. /\ SameLevels(ttfb_samples, DOMAIN ttfb_samples, FirstBytes, PushedTtfb)
      /\ SameLevels(total_samples, DOMAIN total_samples, Totals, PushedTotal)
  BY <1>2 DEF SampleInv, PushedSamples
<1>7. ASSUME PushTtfb(r) PROVE PushedSamples'
  <2>1. PushedTtfb' = PushedTtfb \cup {r} /\ r \notin PushedTtfb /\ PushedTotal' = PushedTotal
    BY <1>3, <1>7 DEF PushTtfb, PushedTtfb, PushedTotal, Requests, Inv, TypeOK
  <2>2. ttfb_samples' = Append(ttfb_samples, FirstBytes[r]) /\ total_samples' = total_samples
    BY <1>4, <1>7 DEF PushTtfb
  <2>3. SameLevels(Append(ttfb_samples, FirstBytes[r]), DOMAIN Append(ttfb_samples, FirstBytes[r]),
                   FirstBytes, PushedTtfb \cup {r})
    BY <1>4, <1>5, <1>6, <2>1, LevelsAppend
  <2> QED
    BY <1>4, <1>6, <2>1, <2>2, <2>3 DEF PushedSamples
<1>8. ASSUME PushTotal(r) PROVE PushedSamples'
  <2>1. PushedTotal' = PushedTotal \cup {r} /\ r \notin PushedTotal /\ PushedTtfb' = PushedTtfb
    BY <1>3, <1>8 DEF PushTotal, PushedTtfb, PushedTotal, Requests, Inv, TypeOK
  <2>2. total_samples' = Append(total_samples, Totals[r]) /\ ttfb_samples' = ttfb_samples
    BY <1>4, <1>8 DEF PushTotal
  <2>3. SameLevels(Append(total_samples, Totals[r]), DOMAIN Append(total_samples, Totals[r]),
                   Totals, PushedTotal \cup {r})
    BY <1>4, <1>5, <1>6, <2>1, LevelsAppend
  <2> QED
    BY <1>4, <1>6, <2>1, <2>2, <2>3 DEF PushedSamples
<1>9. Timed'
  BY <1>1 DEF SampleInv, Timed
<1>10. ReportDescribesProbes' /\ ColumnsConsistent'
  BY <1>2 DEF ReportDescribesProbes, ColumnsConsistent, Range
<1> QED
  BY <1>7, <1>8, <1>9, <1>10 DEF SampleInv

\* When press() collects, every successful probe has pushed both its samples,
\* so the two columns are of the same probes.
LEMMA CollectSamples ==
  ASSUME Inv, SampleInv, Collect
  PROVE  SampleInv'
<1> DEFINE rep == report'[1]
           D == Outcome("success")
           f == [r \in D |-> timing[r].first_byte]
           g == [r \in D |-> timing[r].total]
<1>1. /\ joined = NumRequests /\ report = <<>> /\ UNCHANGED <<task, status, timing>>
      /\ report' = <<rep>>
      /\ rep.ttfb = FromSortedMs(Sorted(ttfb_samples))
      /\ rep.total_time = FromSortedMs(Sorted(total_samples))
  BY DEF Collect, taskVars
<1> HIDE DEF rep
<1>2. \A r \in Requests : task[r] \in EndStages
  BY <1>1 DEF Inv, JoinedEnded, Requests
<1>3. PushedTtfb = D /\ PushedTotal = D
  BY <1>2 DEF PushedTtfb, PushedTotal, Outcome, EndStages
<1>4. /\ ttfb_samples \in Seq(Nat) /\ total_samples \in Seq(Nat)
      /\ IsFiniteSet(D) /\ f \in [D -> Nat] /\ g \in [D -> Nat]
  <2>1. D \in SUBSET Requests /\ \A r \in Requests : timing[r] \in [first_byte : Nat, total : Nat]
    BY DEF Outcome, Inv, TypeOK
  <2> HIDE DEF D
  <2>2. IsFiniteSet(D)
    BY <2>1, RequestsFinite
  <2> QED
    BY <2>1, <2>2 DEF Inv, TypeOK
<1>5. \A r \in D : f[r] <= g[r]
  BY TimingAssumption DEF SampleInv, Timed, Outcome
<1>6. SameLevels(ttfb_samples, DOMAIN ttfb_samples, f, D)
  <2>1. SameLevels(ttfb_samples, DOMAIN ttfb_samples, FirstBytes, D)
    BY <1>1, <1>3 DEF SampleInv, PushedSamples
  <2>2. \A r \in D : FirstBytes[r] = f[r]
    BY DEF FirstBytes, Outcome
  <2> HIDE DEF D, f
  <2> QED
    BY <2>1, <2>2, LevelsAgree
<1>7. SameLevels(total_samples, DOMAIN total_samples, g, D)
  <2>1. SameLevels(total_samples, DOMAIN total_samples, Totals, D)
    BY <1>1, <1>3 DEF SampleInv, PushedSamples
  <2>2. \A r \in D : Totals[r] = g[r]
    BY DEF Totals, Outcome
  <2> HIDE DEF D, g
  <2> QED
    BY <2>1, <2>2, LevelsAgree
<1>8. UNCHANGED <<D, f, g>>
  BY <1>1 DEF Outcome
<1> HIDE DEF D, f, g
<1>9. Describes(rep.ttfb, f) /\ Describes(rep.total_time, g)
  BY <1>1, <1>4, <1>6, <1>7, SummaryOfSorted, DescribesSame
<1>10. Range(report') = {rep}
  BY <1>1 DEF Range
<1>11. ReportDescribesProbes'
  <2>1. /\ Describes(rep.ttfb, [r \in Outcome("success") |-> timing[r].first_byte]')
        /\ Describes(rep.total_time, [r \in Outcome("success") |-> timing[r].total]')
    BY <1>8, <1>9 DEF D, f, g
  <2> QED
    BY <1>10, <2>1 DEF ReportDescribesProbes
<1>12. Monotone(rep.ttfb) /\ Monotone(rep.total_time)
  BY <1>1, <1>4, FiguresAscend
<1>13. \A k \in Columns : rep.ttfb[k] <= rep.total_time[k]
  <2>1. CASE D # {}
    BY <1>4, <1>5, <1>9, <2>1, FiguresGrow
  <2>2. CASE D = {}
    <3>1. Len(ttfb_samples) = 0 /\ Len(total_samples) = 0
      BY <1>1, <1>3, <2>2, FS_EmptySet DEF Inv, Tallies
    <3>2. Len(Sorted(ttfb_samples)) = 0 /\ Len(Sorted(total_samples)) = 0
      BY <1>4, <3>1, SortedRank
    <3>3. rep.ttfb = DefaultStats /\ rep.total_time = DefaultStats
      BY <1>1, <3>2 DEF FromSortedMs
    <3> QED
      BY <3>3 DEF DefaultStats, Columns
  <2> QED
    BY <2>1, <2>2
<1>14. ColumnsConsistent'
  BY <1>10, <1>12, <1>13 DEF ColumnsConsistent, Columns
<1>15. Timed' /\ PushedSamples'
  BY <1>1 DEF SampleInv, Timed, PushedSamples
<1> QED
  BY <1>11, <1>14, <1>15 DEF SampleInv

\* Every step keeps the samples as they should be.
LEMMA SampleStep ==
  ASSUME Inv, SampleInv, [Next]_vars
  PROVE  SampleInv'
<1>1. CASE Collect
  BY <1>1, CollectSamples
<1>2. ASSUME NEW r \in Requests, PushTtfb(r) \/ PushTotal(r) PROVE SampleInv'
  BY <1>2, PushStep
<1>3. CASE report # <<>>
  <2>1. UNCHANGED <<report, status, timing>>
    BY <1>3, ReportStays
  <2>2. Timed' /\ PushedSamples'
    BY <1>3, <2>1 DEF SampleInv, Timed, PushedSamples
  <2>3. ReportDescribesProbes' /\ ColumnsConsistent'
    BY <2>1 DEF SampleInv, ReportDescribesProbes, ColumnsConsistent, Outcome
  <2> QED
    BY <2>2, <2>3 DEF SampleInv
<1>4. CASE Next /\ ~Collect /\ (\A r \in Requests : ~PushTtfb(r) /\ ~PushTotal(r)) /\ report = <<>>
  BY <1>4, OthersDoNotPush, QuietStep
<1>5. CASE UNCHANGED vars /\ report = <<>>
  <2>1. UNCHANGED <<ttfb_samples, total_samples, report>> /\ \A q \in Requests : QuietFor(q)
    BY <1>5 DEF vars, QuietFor
  <2> QED
    BY <1>5, <2>1, QuietStep
<1> QED
  BY <1>1, <1>2, <1>3, <1>4, <1>5

\* The samples are right at the start and after every step.
LEMMA SampleInvariance == Spec => []SampleInv
<1>1. Init => SampleInv
  <2> SUFFICES ASSUME Init PROVE SampleInv
    OBVIOUS
  <2>1. /\ \A r \in Requests : status[r] = "pending"
        /\ ttfb_samples = <<>> /\ total_samples = <<>> /\ report = <<>>
        /\ DOMAIN ttfb_samples = {} /\ DOMAIN total_samples = {}
    BY DEF Init
  <2>2. PushedTtfb = {} /\ PushedTotal = {}
    BY <2>1 DEF PushedTtfb, PushedTotal
  <2>3. PushedSamples
    BY <2>1, <2>2 DEF PushedSamples, SameLevels, Level
  <2>4. Timed /\ ReportDescribesProbes /\ ColumnsConsistent
    BY <2>1 DEF Timed, ReportDescribesProbes, ColumnsConsistent, Range
  <2> QED
    BY <2>3, <2>4 DEF SampleInv
<1>2. Inv /\ SampleInv /\ [Next]_vars => SampleInv'
  BY SampleStep
<1> QED
  BY <1>1, <1>2, Invariance, PTL DEF Spec

\* The statistics of the report are those of the successful probes' timings,
\* in whatever order the tasks, each in three steps, pushed them.
THEOREM ReportHonest == Spec => []ReportDescribesProbes
<1>1. SampleInv => ReportDescribesProbes
  BY DEF SampleInv
<1> QED
  BY <1>1, SampleInvariance, PTL

\* No figure of the TTFB column exceeds its counterpart of the total column,
\* and each column is printed in increasing order.
THEOREM ColumnsInOrder == Spec => []ColumnsConsistent
<1>1. SampleInv => ColumnsConsistent
  BY DEF SampleInv
<1> QED
  BY <1>1, SampleInvariance, PTL

-----------------------------------------------------------------------------
\* Until the report is there somebody can go on: were press() waiting for a
\* task and that task for a permit, the permits would be with tasks that run.
THEOREM SomebodyMoves == Spec => []NeverStuck
<1>1. ASSUME Inv PROVE NeverStuck
  <2> SUFFICES ASSUME Concurrency > 0, report = <<>>, ~MainReady
               PROVE  \E r \in Requests : Ready(r)
    BY DEF NeverStuck
  <2> DEFINE q == joined + 1
  <2>1. /\ spawned \in 0..NumRequests /\ joined \in 0..NumRequests /\ ~(spawned < NumRequests)
        /\ joined # NumRequests /\ task[q] \notin EndStages
    BY <1>1, Zenon DEF Inv, TypeOK, MainReady
  <2>2. q \in Requests /\ ~(q > spawned)
    BY <2>1, PressAssumption DEF Requests
  <2> HIDE DEF q
  <2>3. task[q] \in Stages /\ task[q] # "unspawned"
    BY <1>1, <2>2 DEF Inv, TypeOK, SpawnedInOrder
  <2>4. task[q] \in HoldingStages \cup {"acquiring"}
    BY <2>1, <2>3 DEF Stages
  <2>5. CASE permits > 0
    BY <2>2, <2>4, <2>5 DEF Ready
  <2>6. CASE ~(permits > 0)
    <3>1. permits = 0
      BY <1>1, <2>6, PressAssumption DEF Inv, TypeOK
    <3>2. Cardinality(Holding) # 0
      <4>1. Holding \in SUBSET Requests
        BY DEF Holding
      <4>2. Cardinality(Holding) \in Nat
        BY <4>1, RequestsFinite
      <4> QED
        BY <1>1, <3>1, <4>2, PressAssumption DEF Inv, PermitsConserved
    <3>3. Holding # {}
      BY <3>2, FS_EmptySet
    <3> QED
      BY <3>3 DEF Holding, Ready
  <2> QED
    BY <2>5, <2>6
<1> QED
  BY <1>1, Invariance, PTL

\* The steps a task has left, at most, by its stage; those of the whole run.
Left ==
  [unspawned |-> 9, acquiring |-> 8, connecting |-> 7, connected |-> 6, requesting |-> 5,
   push_ttfb |-> 4, push_total |-> 3, count_error |-> 3, count_success |-> 2,
   log_error |-> 2, returning |-> 1, finished |-> 0, panicked |-> 0]
TasksLeft == SumFunctionOnSet([r \in Requests |-> Left[task[r]]], Requests)
StepsLeft == TasksLeft + (NumRequests - joined) + (IF report = <<>> THEN 1 ELSE 0)

\* Every step uses up one of the steps left, but for the end of a connection
\* that runs in a task of its own.
StepsRunOut ==
  [][StepsLeft' < StepsLeft \/ (StepsLeft' = StepsLeft /\ \E r \in Requests : DriverExit(r))]_vars

LEMMA LeftType == \A s \in Stages : Left[s] \in Nat
BY DEF Left, Stages, HoldingStages, ProbeStages, RecordStages, EndStages

LEMMA SumLess ==
  ASSUME NEW S, IsFiniteSet(S), NEW f, NEW e, NEW a \in S,
         \A i \in S : f[i] \in Nat, e[a] \in Nat, e[a] < f[a],
         \A i \in S \ {a} : e[i] = f[i]
  PROVE  SumFunctionOnSet(e, S) < SumFunctionOnSet(f, S)
<1> DEFINE R == S \ {a}
<1>1. IsFiniteSet(R) /\ \A i \in R : f[i] \in Nat /\ e[i] = f[i]
  BY FS_RemoveElement
<1>2. \A i \in S : e[i] \in Nat
  BY Zenon
<1>3. SumFunctionOnSet(f, S) = SumFunctionOnSet(f, R) + f[a]
  BY SumFacts
<1>4. SumFunctionOnSet(e, S) = SumFunctionOnSet(e, R) + e[a]
  BY <1>2, SumFacts
<1> HIDE DEF R
<1>5. SumFunctionOnSet(e, R) = SumFunctionOnSet(f, R) /\ SumFunctionOnSet(f, R) \in Nat
  BY <1>1, SumFacts
<1>6. f[a] \in Nat
  OBVIOUS
<1> QED
  BY <1>3, <1>4, <1>5, <1>6

\* A step of one task to a stage with fewer steps left.
LEMMA LeftLess ==
  ASSUME TypeOK, NEW r \in Requests, NEW s \in Stages,
         task' = [task EXCEPT ![r] = s], Left[s] < Left[task[r]]
  PROVE  TasksLeft' < TasksLeft /\ TasksLeft \in Nat /\ TasksLeft' \in Nat
<1> DEFINE f == [q \in Requests |-> Left[task[q]]]
           e == [q \in Requests |-> Left[task'[q]]]
<1>1. task \in [Requests -> Stages] /\ task' \in [Requests -> Stages]
  BY DEF TypeOK
<1>2. \A q \in Requests : f[q] \in Nat /\ e[q] \in Nat
  BY <1>1, LeftType
<1>3. e[r] < f[r] /\ \A q \in Requests \ {r} : e[q] = f[q]
  BY <1>1
<1>4. TasksLeft = SumFunctionOnSet(f, Requests) /\ TasksLeft' = SumFunctionOnSet(e, Requests)
  BY DEF TasksLeft, Requests
<1>5. IsFiniteSet(Requests)
  BY RequestsFinite
<1> HIDE DEF f, e
<1>6. SumFunctionOnSet(e, Requests) < SumFunctionOnSet(f, Requests)
  BY <1>2, <1>3, <1>5, SumLess
<1>7. SumFunctionOnSet(e, Requests) \in Nat /\ SumFunctionOnSet(f, Requests) \in Nat
  BY <1>2, <1>5, SumFacts
<1> QED
  BY <1>4, <1>6, <1>7

LEMMA TaskStepLess ==
  ASSUME Inv, NEW r \in Requests, TaskStep(r)
  PROVE  /\ TasksLeft' < TasksLeft /\ TasksLeft \in Nat /\ TasksLeft' \in Nat
         /\ UNCHANGED <<joined, report>>
<1>1. \E s \in Stages : task' = [task EXCEPT ![r] = s] /\ Left[s] < Left[task[r]]
  <2> USE DEF Stages, HoldingStages, ProbeStages, RecordStages, EndStages, Left
  <2>1. CASE Acquire(r)
    BY <2>1 DEF Acquire
  <2>2. CASE Connect(r)
    BY <2>2 DEF Connect
  <2>3. CASE SendRequest(r)
    BY <2>3 DEF SendRequest
  <2>4. CASE ProbeSucceeds(r)
    BY <2>4 DEF ProbeSucceeds
  <2>5. CASE ProbeFails(r)
    BY <2>5 DEF ProbeFails
  <2>6. CASE ProbePanics(r)
    BY <2>6 DEF ProbePanics
  <2>7. CASE PushTtfb(r)
    BY <2>7 DEF PushTtfb
  <2>8. CASE PushTotal(r)
    BY <2>8 DEF PushTotal
  <2>9. CASE CountSuccess(r)
    BY <2>9 DEF CountSuccess
  <2>10. CASE CountError(r)
    BY <2>10 DEF CountError
  <2>11. CASE LogError(r)
    BY <2>11 DEF LogError
  <2>12. CASE Finish(r)
    BY <2>12 DEF Finish
  <2> QED
    BY <2>1, <2>2, <2>3, <2>4, <2>5, <2>6, <2>7, <2>8, <2>9, <2>10, <2>11, <2>12
       DEF TaskStep, ProbeStep, RecordStep
<1>2. UNCHANGED <<joined, report>>
  BY DEF TaskStep, ProbeStep, RecordStep, Acquire, Connect, SendRequest, ProbeSucceeds, ProbeFails,
     ProbePanics, PushTtfb, PushTotal, CountSuccess, CountError, LogError, Finish, mainVars
<1> QED
  BY <1>1, <1>2, LeftLess DEF Inv

\* The steps left are a number.
LEMMA LeftIsNat == Inv => StepsLeft \in Nat /\ TasksLeft \in Nat
<1> SUFFICES ASSUME Inv PROVE StepsLeft \in Nat /\ TasksLeft \in Nat
  OBVIOUS
<1> DEFINE f == [q \in Requests |-> Left[task[q]]]
<1>1. \A q \in Requests : f[q] \in Nat
  BY LeftType DEF Inv, TypeOK
<1>2. IsFiniteSet(Requests)
  BY RequestsFinite
<1> HIDE DEF f
<1>3. TasksLeft \in Nat
  BY <1>1, <1>2, SumFacts DEF TasksLeft, f
<1>4. joined \in 0..NumRequests
  BY DEF Inv, TypeOK
<1> QED
  BY <1>3, <1>4, PressAssumption DEF StepsLeft

LEMMA FewerLeft ==
  ASSUME TasksLeft \in Nat, TasksLeft' \in Nat, TasksLeft' < TasksLeft,
         UNCHANGED <<joined, report>>, joined \in Nat, NumRequests \in Nat
  PROVE  StepsLeft' < StepsLeft
<1> DEFINE c == (NumRequests - joined) + (IF report = <<>> THEN 1 ELSE 0)
<1>1. c' = c /\ c \in Int
  OBVIOUS
<1>2. StepsLeft = TasksLeft + c /\ StepsLeft' = TasksLeft' + c
  BY DEF StepsLeft
<1> HIDE DEF c
<1>3. \A a, b, d \in Int : a < b => a + d < b + d
  OBVIOUS
<1>4. TasksLeft \in Int /\ TasksLeft' \in Int
  OBVIOUS
<1>5. TasksLeft' + c < TasksLeft + c
  BY <1>1, <1>3, <1>4, Zenon
<1> QED
  BY <1>2, <1>5, Zenon

LEMMA StepLess ==
  ASSUME Inv, Next
  PROVE  \/ StepsLeft' < StepsLeft
         \/ StepsLeft' = StepsLeft /\ \E r \in Requests : DriverExit(r)
         \/ UNCHANGED vars
<1>1. TasksLeft \in Nat /\ joined \in 0..NumRequests /\ NumRequests \in Nat
  BY LeftIsNat, PressAssumption DEF Inv, TypeOK
<1>2. CASE Spawn
  <2> DEFINE r == spawned + 1
  <2>1. r \in Requests /\ r > spawned
    BY <1>2, PressAssumption DEF Spawn, Inv, TypeOK, Requests
  <2>2. task[r] = "unspawned"
    BY <2>1 DEF Inv, SpawnedInOrder
  <2>3. task' = [task EXCEPT ![r] = "acquiring"] /\ UNCHANGED <<joined, report>>
    BY <1>2 DEF Spawn
  <2> HIDE DEF r
  <2>4. "acquiring" \in Stages /\ Left["acquiring"] < Left[task[r]]
    BY <2>2 DEF Left, Stages
  <2>5. TasksLeft' < TasksLeft /\ TasksLeft' \in Nat
    BY <2>1, <2>3, <2>4, LeftLess DEF Inv
  <2> QED
    BY <1>1, <2>3, <2>5, FewerLeft
<1>3. CASE Join
  <2>1. TasksLeft' = TasksLeft
    BY <1>3 DEF Join, taskVars, TasksLeft
  <2> QED
    BY <1>1, <1>3, <2>1 DEF Join, StepsLeft
<1>4. CASE Collect
  <2>1. TasksLeft' = TasksLeft /\ joined' = joined /\ report = <<>> /\ report' # <<>>
    BY <1>4 DEF Collect, taskVars, TasksLeft
  <2> QED
    BY <1>1, <2>1 DEF StepsLeft
<1>5. ASSUME NEW r \in Requests, TaskStep(r) PROVE StepsLeft' < StepsLeft
  BY <1>1, <1>5, TaskStepLess DEF StepsLeft
<1>6. ASSUME NEW r \in Requests, DriverExit(r) PROVE StepsLeft' = StepsLeft
  BY <1>6 DEF DriverExit, taskVars, mainVars, StepsLeft, TasksLeft
<1>7. CASE Returned
  BY <1>7 DEF Returned
<1> QED
  BY <1>2, <1>3, <1>4, <1>5, <1>6, <1>7 DEF Next, MainStep

\* press() and its tasks make finitely many steps, as many as StepsLeft says at
\* most, however the tasks interleave and the probes end: with SomebodyMoves,
\* nothing but a task that is never polled keeps the report away.
THEOREM RunsOut == Spec => [](StepsLeft \in Nat) /\ StepsRunOut
<1>1. Inv => StepsLeft \in Nat
  BY LeftIsNat
<1>2. Inv /\ [Next]_vars =>
        [StepsLeft' < StepsLeft \/ (StepsLeft' = StepsLeft /\ \E r \in Requests : DriverExit(r))]_vars
  BY StepLess
<1> QED
  BY <1>1, <1>2, Invariance, PTL DEF Spec, StepsRunOut
=============================================================================
