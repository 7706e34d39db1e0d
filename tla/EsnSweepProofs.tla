--------------------------- MODULE EsnSweepProofs ---------------------------
(***************************************************************************)
(* Proofs about EsnSweep for every number of threads, batch size, search   *)
(* space and predicate: type correctness, the inductive invariant IInv     *)
(* behind the exactness of the answer, and the refinement of EsnSearch.    *)
(***************************************************************************)
EXTENDS EsnSweep, TLAPS

-----------------------------------------------------------------------------
\* Arithmetic of the split between threads.

\* The batches of one thread are one residue class modulo ThreadCount.
LEMMA ModStep ==
    ASSUME NEW n \in Nat \ {0}, NEW k \in Nat
    PROVE  /\ k % n \in 0 .. n - 1
           /\ (k + n) % n = k % n
           /\ k \div n \in Nat
           /\ k = n * (k \div n) + (k % n)
<1>1. k % n \in 0 .. n - 1 /\ k \div n \in Nat /\ k = n * (k \div n) + (k % n)
  BY Z3
<1>2. (k + n) \div n \in Nat /\ (k + n) % n \in 0 .. n - 1
      /\ k + n = n * ((k + n) \div n) + ((k + n) % n)
  BY Z3
<1> DEFINE q == k \div n
           p == (k + n) \div n
<1>3. n * (p - q - 1) = (k % n) - ((k + n) % n)
  BY <1>1, <1>2, Z3
<1>4. p - q - 1 = 0
  <2>1. CASE p - q - 1 >= 1
    <3>1. n * (p - q - 1) >= n
      BY <2>1, <1>1, <1>2, Z3
    <3> QED BY <3>1, <1>1, <1>2, <1>3
  <2>2. CASE p - q - 1 <= -1
    <3>1. n * (p - q - 1) <= -n
      BY <2>2, <1>1, <1>2, Z3
    <3> QED BY <3>1, <1>1, <1>2, <1>3
  <2> QED BY <2>1, <2>2, <1>1, <1>2
<1> QED BY <1>1, <1>2, <1>3, <1>4, Z3

\* Between two batches of a thread lies no other batch of the same thread.
LEMMA NoGap ==
    ASSUME NEW n \in Nat \ {0}, NEW k \in Nat, NEW b \in Nat,
           b % n = k % n, k <= b, b < k + n
    PROVE  b = k
<1> DEFINE q == k \div n
           p == b \div n
<1>1. k % n \in 0 .. n - 1 /\ q \in Nat /\ k = n * q + (k % n)
  BY ModStep
<1>2. p \in Nat /\ b = n * p + (b % n)
  BY ModStep
<1> HIDE DEF q, p
<1>3. n * (p - q) = b - k
  BY <1>1, <1>2, Z3
<1>4. p - q = 0
  <2>1. CASE p - q >= 1
    <3>1. n * (p - q) >= n
      BY <2>1, <1>1, <1>2, Z3
    <3> QED BY <3>1, <1>3
  <2>2. CASE p - q <= -1
    <3>1. n * (p - q) <= -n
      BY <2>2, <1>1, <1>2, Z3
    <3> QED BY <3>1, <1>3
  <2> QED BY <2>1, <2>2, <1>1, <1>2
<1> QED BY <1>3, <1>4, Z3

\* A percentage computed inside the loop is below 100 (bruteforce.cpp:67).
LEMMA PercentBelow100 ==
    ASSUME NEW b \in Nat, b < Batches
    PROVE  Percent(b) \in 0 .. 99
<1> DEFINE p == (b * 100) \div Batches
<1>1. Batches \in Nat \ {0}
  BY SweepAssumption
<1>2. p \in Nat /\ Batches * p <= b * 100
  <2>1. b * 100 \in Nat
    OBVIOUS
  <2>2. /\ (b * 100) % Batches \in 0 .. Batches - 1
        /\ p \in Nat
        /\ b * 100 = Batches * p + ((b * 100) % Batches)
    BY <1>1, <2>1, ModStep
  <2> HIDE DEF p
  <2> QED BY <2>1, <2>2, <1>1, Z3
<1> HIDE DEF p
<1>3. p < 100
  <2> SUFFICES ASSUME p >= 100 PROVE FALSE
    BY <1>2
  <2>1. Batches * p >= Batches * 100
    BY <1>1, <1>2, Z3
  <2> QED BY <2>1, <1>1, <1>2
<1> QED BY <1>2, <1>3 DEF Percent, p

\* Every candidate is a lane of some batch, and lanes are candidates.
LEMMA LanesCover ==
    /\ \A b \in 0 .. Batches - 1 : Lanes(b) \subseteq Candidate
    /\ \A esn \in Candidate : \E b \in 0 .. Batches - 1 : esn \in Lanes(b)
<1>0. Batches \in Nat \ {0} /\ BatchSize \in Nat \ {0}
  BY SweepAssumption
<1>1. ASSUME NEW b \in 0 .. Batches - 1, NEW esn \in Lanes(b)
      PROVE  esn \in Candidate
  <2>1. b * BatchSize \in Nat /\ (Batches - 1 - b) * BatchSize \in Nat
    BY <1>0, Z3
  <2>2. Batches * BatchSize = b * BatchSize + BatchSize + (Batches - 1 - b) * BatchSize
    BY <1>0, Z3
  <2> QED BY <2>1, <2>2, <1>0 DEF Lanes, Candidate, EsnCount
<1>2. ASSUME NEW esn \in Candidate
      PROVE  \E b \in 0 .. Batches - 1 : esn \in Lanes(b)
  <2> DEFINE q == esn \div BatchSize
  <2>0. esn \in Nat /\ esn < Batches * BatchSize
    BY <1>0 DEF Candidate, EsnCount
  <2>1. q \in Nat /\ esn % BatchSize \in 0 .. BatchSize - 1
        /\ esn = BatchSize * q + (esn % BatchSize)
    BY <1>0, <2>0, ModStep
  <2> HIDE DEF q
  <2>2. BatchSize * q = q * BatchSize /\ q * BatchSize \in Nat
    BY <1>0, <2>1, Z3
  <2>3. q < Batches
    <3> SUFFICES ASSUME q >= Batches PROVE FALSE
      BY <1>0, <2>1
    <3>1. q * BatchSize >= Batches * BatchSize
      BY <1>0, <2>1, Z3
    <3> QED BY <3>1, <2>0, <2>1, <2>2, <1>0
  <2>4. esn \in Lanes(q)
    BY <1>0, <2>0, <2>1, <2>2 DEF Lanes
  <2> QED BY <2>1, <2>3, <2>4, <1>0
<1> QED BY <1>1, <1>2

-----------------------------------------------------------------------------
\* The inductive invariant.

\* Each worker stays in its residue class.
Strided == \A t \in Thread : batch[t] % ThreadCount = t

\* A worker has found nothing in the batches of its class it has passed.
PassedBatchesMiss ==
    \A t \in Thread : \A b \in 0 .. Batches - 1 :
        b % ThreadCount = t /\ b < batch[t] => Lanes(b) \cap matches = {}

\* A batch is tested only inside the search space.
TestsInRange == \A t \in Thread : pc[t] = "test" => batch[t] < Batches

\* A worker that stopped without "found" being set has exhausted its class.
StoppedIsExhausted == \A t \in Thread : pc[t] = "done" /\ ~found => batch[t] >= Batches

\* "found" without an error stands for a stored match.
StoredIsMatch ==
    /\ found /\ ~threw => result \in matches
    /\ \A t \in Thread : pc[t] = "publish" => result \in matches

\* What the calling thread's control point says of the workers.
CallerControl ==
    /\ caller \in {"start", "spawn"} => 
          \A t \in Thread : t = 0 \/ t >= spawned => pc[t] = "none"
    /\ caller = "start" => spawned = 1
    /\ caller \in {"report", "returned"} => ~threw /\ \A t \in Thread : pc[t] = "done"

IInv ==
    /\ TypeOK
    /\ Strided
    /\ PassedBatchesMiss
    /\ TestsInRange
    /\ StoppedIsExhausted
    /\ StoredIsMatch
    /\ CallerControl
    /\ NoWorkerOutlivesCall

-----------------------------------------------------------------------------
\* A report extends the sequence of percentages.
LEMMA ReportType ==
    ASSUME NEW percent \in 0 .. 100, reports \in Seq(0 .. 100), Report(percent)
    PROVE  reports' \in Seq(0 .. 100)
<1> DEFINE S == 0 .. 100
<1>1. percent \in S /\ reports \in Seq(S)
  OBVIOUS
<1> HIDE DEF S
<1>2. Append(reports, percent) \in Seq(S)
  BY <1>1
<1> QED BY <1>2 DEF Report, S

\* The variables of a worker step keep their types.
LEMMA TypeStep ==
    ASSUME IInv, [Next]_vars
    PROVE  TypeOK'
<1> USE SweepAssumption DEF Thread
<1>0. TypeOK /\ TestsInRange /\ 0 \in Thread
  BY DEF IInv
<1>1. CASE Begin
  <2>1. reports' \in Seq(0 .. 100)
    BY <1>0, <1>1, ReportType DEF Begin, TypeOK
  <2> QED
    BY <1>0, <1>1, <2>1 DEF Begin, TypeOK, flags, CallerEnds
<1>2. CASE Spawn
  <2>1. spawned \in Thread /\ spawned + 1 \in 1 .. ThreadCount
    BY <1>0, <1>2 DEF Spawn, TypeOK
  <2>2. pc' \in [Thread -> {"none", "check", "test", "publish", "done"}]
    BY <1>0, <1>2, <2>1 DEF Spawn, TypeOK
  <2> QED
    BY <1>0, <1>2, <2>1, <2>2 DEF Spawn, TypeOK, flags, progressState, CallerEnds
<1>3. CASE SpawnFails
  BY <1>0, <1>3 DEF SpawnFails, TypeOK, flags, progressState, CallerEnds
<1>4. CASE RunWorkerZero
  BY <1>0, <1>4 DEF RunWorkerZero, TypeOK, flags, progressState, CallerEnds
<1>5. CASE StartJoin
  BY <1>0, <1>5 DEF StartJoin, TypeOK, flags, progressState, CallerEnds
<1>6. CASE Joined
  BY <1>0, <1>6 DEF Joined, TypeOK, flags, progressState, CallerEnds
<1>7. CASE Finish
  <2>1. reports' \in Seq(0 .. 100)
    BY <1>0, <1>7, ReportType DEF Finish, TypeOK
  <2> QED
    BY <1>0, <1>7, <2>1 DEF Finish, TypeOK, flags, CallerEnds
<1>8. CASE ReportThrows
  <2>1. Percent(batch[0]) \in 0 .. 99
    BY <1>0, <1>8, PercentBelow100 DEF ReportThrows, TypeOK
  <2>2. reports' \in Seq(0 .. 100)
    <3>1. Percent(batch[0]) \in 0 .. 100
      BY <2>1
    <3> QED BY <1>0, <1>8, <3>1, ReportType DEF ReportThrows, TypeOK
  <2> QED
    BY <1>0, <1>8, <2>1, <2>2 DEF ReportThrows, TypeOK, CallerEnds
<1>9. ASSUME NEW t \in Thread, Exhaust(t) PROVE TypeOK'
  BY <1>0, <1>9 DEF Exhaust, TypeOK, flags, progressState, control, CallerEnds
<1>10. ASSUME NEW t \in Thread, Tick(t) PROVE TypeOK'
  BY <1>0, <1>10 DEF Tick, PollIsDue, TypeOK, flags, progressState, control, CallerEnds
<1>11. ASSUME NEW t \in Thread, PollStops(t) PROVE TypeOK'
  BY <1>0, <1>11 DEF PollStops, TypeOK, flags, progressState, control, CallerEnds
<1>12. ASSUME NEW t \in Thread, PollContinues(t) PROVE TypeOK'
  <2>1. Percent(batch[t]) \in 0 .. 99
    BY <1>0, <1>12, PercentBelow100 DEF PollContinues, TypeOK
  <2>2. reports' \in Seq(0 .. 100)
    <3>1. Percent(batch[t]) \in 0 .. 100
      BY <2>1
    <3> QED BY <1>0, <1>12, <3>1, ReportType DEF PollContinues, TypeOK, progressState
  <2>3. reported' \in 0 .. 99
    BY <1>0, <1>12, <2>1 DEF PollContinues, TypeOK, progressState
  <2> QED
    BY <1>0, <1>12, <2>2, <2>3 DEF PollContinues, TypeOK, flags, control, CallerEnds
<1>13. ASSUME NEW t \in Thread, TestMisses(t) PROVE TypeOK'
  BY <1>0, <1>13 DEF TestMisses, NextBatch, TypeOK, flags, progressState, control, CallerEnds
<1>14. ASSUME NEW t \in Thread, TestHits(t) PROVE TypeOK'
  <2>1. batch[t] \in 0 .. Batches - 1
    BY <1>0, <1>14 DEF TestHits, TypeOK, TestsInRange
  <2>2. result' \in Candidate
    BY <1>14, <2>1, LanesCover DEF TestHits, IsLaneMatch
  <2> QED
    BY <1>0, <1>14, <2>2 DEF TestHits, TypeOK, progressState, control, CallerEnds
<1>15. ASSUME NEW t \in Thread, Publish(t) PROVE TypeOK'
  BY <1>0, <1>15 DEF Publish, TypeOK, progressState, control, CallerEnds
<1>16. CASE UNCHANGED vars
  BY <1>0, <1>16 DEF TypeOK, vars, CallerEnds
<1> QED
  BY <1>1, <1>2, <1>3, <1>4, <1>5, <1>6, <1>7, <1>8, <1>9, <1>10, <1>11, <1>12, <1>13,
     <1>14, <1>15, <1>16 DEF Next, Caller, Worker, Over

-----------------------------------------------------------------------------
\* Every conjunct of IInv survives the steps of the calling thread, which
\* leave the workers' positions and the predicate alone.
LEMMA CallerStep ==
    ASSUME IInv, Caller \/ UNCHANGED vars
    PROVE  /\ (Strided /\ PassedBatchesMiss /\ TestsInRange)'
           /\ (StoppedIsExhausted /\ StoredIsMatch)'
           /\ (CallerControl /\ NoWorkerOutlivesCall)'
<1> USE SweepAssumption DEF Thread
<1>0. /\ TypeOK /\ Strided /\ PassedBatchesMiss /\ TestsInRange /\ 0 \in Thread
      /\ StoppedIsExhausted /\ StoredIsMatch /\ CallerControl /\ NoWorkerOutlivesCall
  BY DEF IInv
<1>1. UNCHANGED <<matches, batch, found, result, threw>>
  BY DEF Caller, Begin, Spawn, SpawnFails, RunWorkerZero, StartJoin, Joined, Finish, vars, flags, progressState
<1>2. Strided' /\ PassedBatchesMiss'
  BY <1>0, <1>1 DEF Strided, PassedBatchesMiss, Lanes
<1>3. \A t \in Thread : pc'[t] = pc[t] \/ pc'[t] = "check"
  BY <1>0 DEF Caller, Begin, Spawn, SpawnFails, RunWorkerZero, StartJoin, Joined, Finish, vars, TypeOK
<1>4. TestsInRange' /\ StoppedIsExhausted' /\ StoredIsMatch'
  BY <1>0, <1>1, <1>3 DEF TestsInRange, StoppedIsExhausted, StoredIsMatch
<1>5. CallerControl' /\ NoWorkerOutlivesCall'
  <2> USE <1>0 DEF TypeOK, CallerControl, NoWorkerOutlivesCall
  <2>1. CASE Begin
    BY <2>1 DEF Begin
  <2>2. CASE Spawn
    BY <2>2 DEF Spawn
  <2>3. CASE SpawnFails
    BY <2>3 DEF SpawnFails, flags
  <2>4. CASE RunWorkerZero
    BY <2>4 DEF RunWorkerZero
  <2>5. CASE StartJoin
    BY <2>5 DEF StartJoin
  <2>6. CASE Joined
    BY <2>6 DEF Joined, WorkersJoined
  <2>7. CASE Finish
    BY <2>7 DEF Finish
  <2>8. CASE UNCHANGED vars
    BY <2>8 DEF vars
  <2> QED BY <2>1, <2>2, <2>3, <2>4, <2>5, <2>6, <2>7, <2>8 DEF Caller
<1> QED BY <1>2, <1>4, <1>5

-----------------------------------------------------------------------------
\* A worker that moves was running, and only its own control point changes.
LEMMA WorkerControl ==
    ASSUME IInv, NEW t \in Thread, Worker(t) \/ (t = 0 /\ ReportThrows)
    PROVE  /\ CallerControl' /\ NoWorkerOutlivesCall'
           /\ pc[t] \in {"check", "test", "publish"}
           /\ pc' = [pc EXCEPT ![t] = pc'[t]]
           /\ UNCHANGED <<matches, caller, spawned>>
<1> USE SweepAssumption DEF Thread
<1>0. TypeOK /\ CallerControl /\ NoWorkerOutlivesCall
  BY DEF IInv
<1>1. /\ pc[t] \in {"check", "test", "publish"}
      /\ pc' = [pc EXCEPT ![t] = pc'[t]]
      /\ pc'[t] \in {"check", "test", "publish", "done"}
      /\ UNCHANGED <<matches, caller, spawned>>
  BY <1>0 DEF TypeOK, Worker, Exhaust, Tick, PollStops, PollContinues, TestMisses, TestHits,
     Publish, ReportThrows, AtLoopHead, control
<1>2. CallerControl' /\ NoWorkerOutlivesCall'
  <2>1. caller \notin {"report", "returned", "raised", "start"}
    BY <1>0, <1>1 DEF CallerControl, NoWorkerOutlivesCall
  <2>2. caller = "spawn" => t # 0 /\ t < spawned
    BY <1>0, <1>1 DEF CallerControl, TypeOK
  <2> QED BY <1>0, <1>1, <2>1, <2>2 DEF CallerControl, NoWorkerOutlivesCall, TypeOK
<1> QED BY <1>1, <1>2

\* Moving on to the next batch leaves no batch of the class behind.
LEMMA MissStep ==
    ASSUME IInv, NEW t \in Thread, TestMisses(t)
    PROVE  Strided' /\ PassedBatchesMiss'
<1>0. TypeOK /\ Strided /\ PassedBatchesMiss /\ TestsInRange /\ ThreadCount \in Nat \ {0}
  BY SweepAssumption DEF IInv
<1>1. /\ batch[t] \in Nat
      /\ Lanes(batch[t]) \cap matches = {}
      /\ batch' = [batch EXCEPT ![t] = batch[t] + ThreadCount]
      /\ UNCHANGED matches
  BY <1>0 DEF TestMisses, NextBatch, TypeOK
<1>2. Strided'
  <2>1. (batch[t] + ThreadCount) % ThreadCount = batch[t] % ThreadCount
    BY <1>0, <1>1, ModStep
  <2> QED BY <1>0, <1>1, <2>1 DEF Strided, TypeOK
<1>3. PassedBatchesMiss'
  <2> SUFFICES ASSUME NEW u \in Thread, NEW b \in 0 .. Batches - 1,
                      b % ThreadCount = u, b < batch'[u]
               PROVE  Lanes(b) \cap matches = {}
    BY <1>1 DEF PassedBatchesMiss, Lanes
  <2>1. CASE b < batch[u]
    BY <1>0, <2>1 DEF PassedBatchesMiss
  <2>2. CASE ~(b < batch[u])
    <3>1. u = t /\ batch'[u] = batch[t] + ThreadCount
      BY <1>0, <1>1, <2>2 DEF TypeOK
    <3>2. b \in Nat /\ batch[t] <= b /\ b < batch[t] + ThreadCount
      BY <1>1, <2>2, <3>1
    <3>3. b % ThreadCount = batch[t] % ThreadCount
      BY <1>0, <3>1 DEF Strided
    <3>4. b = batch[t]
      BY <1>0, <1>1, <3>2, <3>3, NoGap
    <3> QED BY <1>1, <3>4
  <2> QED BY <2>1, <2>2
<1> QED BY <1>2, <1>3

\* The remaining conjuncts, one worker action at a time.
LEMMA WorkerStep ==
    ASSUME IInv, NEW t \in Thread, Worker(t) \/ (t = 0 /\ ReportThrows)
    PROVE  (Strided /\ PassedBatchesMiss /\ TestsInRange /\ StoppedIsExhausted /\ StoredIsMatch)'
<1>0. /\ TypeOK /\ Strided /\ PassedBatchesMiss /\ TestsInRange
      /\ StoppedIsExhausted /\ StoredIsMatch
  BY DEF IInv
<1>1. /\ pc' = [pc EXCEPT ![t] = pc'[t]]
      /\ UNCHANGED matches
  BY WorkerControl
<1>2. CASE UNCHANGED batch
  <2>1. Strided' /\ PassedBatchesMiss'
    BY <1>0, <1>1, <1>2 DEF Strided, PassedBatchesMiss, Lanes
  <2>2. TestsInRange'
    BY <1>0, <1>1, <1>2 DEF TestsInRange, TypeOK, Worker, Exhaust, Tick, PollStops, PollContinues,
       TestMisses, TestHits, Publish, ReportThrows
  <2>3. CASE UNCHANGED <<found, result, threw>>
    <3>1. pc'[t] = "done" => batch[t] >= Batches \/ found
      BY <1>0, <1>1, <2>3 DEF TypeOK, Worker, Exhaust, Tick, PollStops, PollContinues, TestMisses,
         TestHits, Publish, ReportThrows, MaySee
    <3>2. pc'[t] = "publish" => result \in matches
      BY <1>0, <2>3 DEF TypeOK, Worker, Exhaust, Tick, PollStops, PollContinues, TestMisses,
         TestHits, Publish, ReportThrows, IsLaneMatch
    <3> QED
      BY <1>0, <1>1, <1>2, <2>1, <2>2, <2>3, <3>1, <3>2 DEF StoppedIsExhausted, StoredIsMatch, TypeOK
  <2>4. CASE TestHits(t)
    BY <1>0, <1>2, <2>1, <2>2, <2>4 DEF TestHits, IsLaneMatch, control, StoppedIsExhausted, StoredIsMatch, TypeOK
  <2>5. CASE Publish(t) \/ ReportThrows
    BY <1>0, <1>1, <1>2, <2>1, <2>2, <2>5 DEF Publish, ReportThrows, control, StoppedIsExhausted,
       StoredIsMatch, TypeOK
  <2> QED
    BY <2>3, <2>4, <2>5 DEF Worker, Exhaust, Tick, PollStops, PollContinues, TestMisses, control, flags
<1>3. CASE TestMisses(t)
  <2>1. Strided' /\ PassedBatchesMiss'
    BY <1>3, MissStep
  <2>2. TestsInRange' /\ StoppedIsExhausted' /\ StoredIsMatch'
    BY <1>0, <1>3 DEF TestMisses, control, flags, TestsInRange, StoppedIsExhausted, StoredIsMatch, TypeOK
  <2> QED BY <2>1, <2>2
<1> QED
  BY <1>2, <1>3 DEF Worker, Exhaust, Tick, PollStops, PollContinues, TestHits, Publish, ReportThrows

LEMMA IInvInit == Init => IInv
<1> SUFFICES ASSUME Init PROVE IInv
  OBVIOUS
<1> USE SweepAssumption DEF Thread
<1>1. EsnCount \in Nat \ {0}
  <2>1. Batches * BatchSize \in Nat \ {0}
    BY Z3
  <2> QED BY <2>1 DEF EsnCount
<1>2. reports \in Seq(0 .. 100)
  BY DEF Init
<1>3. TypeOK
  BY <1>1, <1>2 DEF Init, TypeOK, Candidate, FirstBatch, CallerEnds
<1>4. \A t \in Thread : t % ThreadCount = t
  BY Z3
<1>5. \A t \in Thread : \A b \in 0 .. Batches - 1 : b < t => b % ThreadCount = b
  BY Z3
<1> QED
  BY <1>3, <1>4, <1>5 DEF Init, IInv, FirstBatch, Strided, PassedBatchesMiss, TestsInRange,
     StoppedIsExhausted, StoredIsMatch, CallerControl, NoWorkerOutlivesCall

LEMMA IInvNext == IInv /\ [Next]_vars => IInv'
<1> SUFFICES ASSUME IInv, [Next]_vars PROVE IInv'
  OBVIOUS
<1>1. TypeOK'
  BY TypeStep
<1>2. CASE Caller \/ UNCHANGED vars
  BY <1>1, <1>2, CallerStep DEF IInv
<1>3. ASSUME NEW t \in Thread, Worker(t) \/ (t = 0 /\ ReportThrows) PROVE IInv'
  BY <1>1, <1>3, WorkerControl, WorkerStep DEF IInv
<1>4. 0 \in Thread
  BY SweepAssumption DEF Thread
<1> QED
  BY <1>2, <1>3, <1>4 DEF Next, Over

-----------------------------------------------------------------------------
LEMMA Invariance == Spec => []IInv
<1>1. Init => IInv
  BY IInvInit
<1>2. IInv /\ [Next]_vars => IInv'
  BY IInvNext
<1> QED BY <1>1, <1>2, PTL DEF Spec

\* Every variable of the sweep keeps its type, at every thread count.
THEOREM TypeCorrect == Spec => []TypeOK
<1>1. IInv => TypeOK
  BY DEF IInv
<1> QED BY <1>1, Invariance, PTL

\* No worker thread is left running with references to the locals of a call
\* that has returned or thrown.
THEOREM WorkersJoinedAtExit == Spec => []NoWorkerOutlivesCall
<1>1. IInv => NoWorkerOutlivesCall
  BY DEF IInv
<1> QED BY <1>1, Invariance, PTL

\* A candidate that matches is found: when every worker has exhausted its
\* class, the classes together have covered the whole space.
LEMMA ExhaustedMeansNone ==
    ASSUME IInv, ~found, \A t \in Thread : pc[t] = "done"
    PROVE  matches = {}
<1>0. /\ TypeOK /\ PassedBatchesMiss /\ StoppedIsExhausted
      /\ ThreadCount \in Nat \ {0} /\ Batches \in Nat \ {0} /\ matches \subseteq Candidate
  BY SweepAssumption DEF IInv, TypeOK
<1> SUFFICES ASSUME NEW esn \in matches PROVE FALSE
  OBVIOUS
<1>1. PICK b \in 0 .. Batches - 1 : esn \in Lanes(b)
  BY <1>0, LanesCover
<1> DEFINE t == b % ThreadCount
<1>2. t \in Thread
  BY <1>0, ModStep DEF Thread
<1>3. b < batch[t]
  <2>1. batch[t] >= Batches /\ batch[t] \in Nat
    BY <1>0, <1>2 DEF StoppedIsExhausted, TypeOK
  <2> HIDE DEF t
  <2> QED BY <2>1, <1>0
<1>4. Lanes(b) \cap matches = {}
  BY <1>0, <1>2, <1>3 DEF PassedBatchesMiss
<1> QED BY <1>1, <1>4

LEMMA ExactAtExit == IInv => ReturnIsExact
<1> SUFFICES ASSUME IInv, caller = "returned"
             PROVE  (found <=> matches # {}) /\ (found => result \in matches)
  BY DEF ReturnIsExact
<1>1. ~threw /\ \A t \in Thread : pc[t] = "done"
  BY DEF IInv, CallerControl
<1>2. found => result \in matches
  BY <1>1 DEF IInv, StoredIsMatch
<1>3. ~found => matches = {}
  BY <1>1, ExhaustedMeansNone
<1> QED BY <1>2, <1>3

\* bruteForceEsn returns a matching ESN whenever there is one, and "not found"
\* only when there is none, for any number of threads and any interleaving.
THEOREM ReturnExact == Spec => []ReturnIsExact
<1> QED BY ExactAtExit, Invariance, PTL

\* Two threads never have the same batch in hand.
THEOREM SplitIsDisjoint == Spec => []BatchesAreDisjoint
<1>1. IInv => BatchesAreDisjoint
  BY DEF IInv, Strided, BatchesAreDisjoint
<1> QED BY <1>1, Invariance, PTL

\* The threaded search implements EsnSearch: its steps are stutters of the
\* abstract answer except the one that returns, throws or aborts.
THEOREM Refinement == Spec => ImplementsSearch
<1>1. Init => Search!Init
  BY DEF Init, Search!Init, ReturnValue, Search!Pending, Answer
<1>2. IInv /\ IInv' /\ [Next]_vars => [Search!Next]_(Search!vars)
  <2> SUFFICES ASSUME IInv, IInv', [Next]_vars
               PROVE  [Search!Next]_(Search!vars)
    OBVIOUS
  <2> USE DEF Search!Next, Search!vars, ReturnValue, Answer
  <2>0. TypeOK
    BY DEF IInv
  <2>1. CASE Finish
    <3>1. ReturnIsExact'
      BY ExactAtExit, IInv', PTL
    <3> QED
      BY <2>0, <2>1, <3>1 DEF Finish, ReturnIsExact, flags, Search!ReturnMatch, Search!ReturnNotFound, Search!Fail,
         Search!Pending, Search!NoneFound, Search!Failed, Search!FoundEsn
  <2>2. CASE Begin
    BY <2>2 DEF Begin, Search!Fail, Search!Pending, Search!Failed
  <2>3. CASE SpawnFails
    BY <2>3 DEF SpawnFails, Search!Fail, Search!Pending, Search!Failed
  <2>4. CASE Joined
    BY <2>4 DEF Joined, Search!Fail, Search!Pending, Search!Failed
  <2>5. CASE Spawn \/ RunWorkerZero \/ StartJoin
    BY <2>5 DEF Spawn, RunWorkerZero, StartJoin
  <2>6. ASSUME NEW t \in Thread, Worker(t) \/ (t = 0 /\ ReportThrows)
        PROVE  [Search!Next]_(Search!vars)
    <3>1. UNCHANGED <<matches, caller>> /\ pc[t] \in {"check", "test", "publish"}
      BY <2>6, WorkerControl
    <3>2. caller \notin CallerEnds
      BY <2>6, <3>1 DEF IInv, CallerControl, NoWorkerOutlivesCall, CallerEnds, Worker, Exhaust, Tick,
         PollStops, PollContinues, TestMisses, TestHits, Publish, ReportThrows, AtLoopHead
    <3> QED BY <3>1, <3>2 DEF CallerEnds
  <2>7. CASE UNCHANGED vars
    BY <2>7 DEF vars
  <2>8. 0 \in Thread
    BY SweepAssumption DEF Thread
  <2> QED
    BY <2>1, <2>2, <2>3, <2>4, <2>5, <2>6, <2>7, <2>8 DEF Next, Caller, Over
<1> QED
  BY <1>1, <1>2, Invariance, PTL DEF Spec, ImplementsSearch, Search!Spec

-----------------------------------------------------------------------------
\* The percentages of a call.

Running == {"spawn", "sweep", "join", "report"}

\* While the call runs, the last percentage reported is the one the caller
\* compares the next with, and all of them are below 100.
ProgressControl ==
    /\ caller = "start" => reports = << >> /\ reported = 0
    /\ HasProgress /\ caller \in Running =>
          reports # << >> /\ reports[Len(reports)] = reported
    /\ caller \in Running => \A i \in 1 .. Len(reports) : reports[i] < 100

ProgressInv == IInv /\ ProgressRunsUp /\ ProgressControl

\* A percentage above the last one keeps the reports growing.
LEMMA ReportGrows ==
    ASSUME TypeOK, ProgressRunsUp, NEW percent \in 0 .. 100, Report(percent),
           reports # << >> => reports[Len(reports)] < percent,
           reports = << >> => percent = 0
    PROVE  /\ \A i \in 1 .. Len(reports') - 1 : reports'[i] < reports'[i + 1]
           /\ reports'[1] = 0
           /\ reports' # << >>
           /\ reports'[Len(reports')] = percent
           /\ percent < 100 /\ (\A i \in 1 .. Len(reports) : reports[i] < 100) =>
                 \A i \in 1 .. Len(reports') : reports'[i] < 100
<1> DEFINE S == 0 .. 100
           n == Len(reports)
<1>1. reports \in Seq(S) /\ percent \in S /\ reports' = Append(reports, percent)
  BY DEF TypeOK, Report
<1> HIDE DEF S
<1>2. /\ n \in Nat
      /\ Len(reports') = n + 1
      /\ reports'[n + 1] = percent
      /\ \A i \in 1 .. n : reports'[i] = reports[i]
      /\ reports # << >> <=> n > 0
  BY <1>1
<1>3. reports # << >> => reports[1] = 0
  BY DEF ProgressRunsUp
<1>4. \A i \in 1 .. n - 1 : reports[i] < reports[i + 1]
  BY DEF ProgressRunsUp
<1>5. reports # << >> => reports[n] < percent
  OBVIOUS
<1> HIDE DEF n
<1>6. \A i \in 1 .. n : reports'[i] < reports'[i + 1]
  <2> TAKE i \in 1 .. n
  <2>1. CASE i = n
    BY <2>1, <1>2, <1>5
  <2>2. CASE i # n
    <3>1. i \in 1 .. n - 1 /\ i + 1 \in 1 .. n
      BY <2>2, <1>2
    <3> QED BY <3>1, <1>2, <1>4
  <2> QED BY <2>1, <2>2
<1>7. \A i \in 1 .. n + 1 : i = n + 1 \/ i \in 1 .. n
  BY <1>2
<1>8. reports' # << >>
  BY <1>1, <1>2
<1>9. reports'[1] = 0
  <2>1. CASE n = 0
    BY <2>1, <1>2
  <2>2. CASE n > 0
    BY <2>2, <1>2, <1>3
  <2> QED BY <2>1, <2>2, <1>2
<1>10. percent < 100 /\ (\A i \in 1 .. n : reports[i] < 100) => \A i \in 1 .. n + 1 : reports'[i] < 100
  BY <1>2, <1>7
<1>11. Len(reports') - 1 = n
  BY <1>2
<1> QED
  BY <1>2, <1>6, <1>8, <1>9, <1>10, <1>11 DEF n

\* What a step does to the percentages when it reports none.
LEMMA SilentStep ==
    ASSUME ProgressRunsUp, ProgressControl, UNCHANGED progressState,
           \/ caller' = caller
           \/ caller \in Running /\ caller' \in Running
           \/ caller' \in {"raised", "aborted"}
           \/ caller' = "returned" /\ ~HasProgress
    PROVE  (ProgressRunsUp /\ ProgressControl)'
  BY DEF ProgressRunsUp, ProgressControl, progressState, Running

\* Worker 0 reports from inside the loop, where the percentage is below 100.
LEMMA LoopReport ==
    ASSUME ProgressInv, 0 \in Thread, AtLoopHead(0), batch[0] < Batches, ReportIsDue(0),
           reported' = Percent(batch[0]), Report(Percent(batch[0])), UNCHANGED caller
    PROVE  (ProgressRunsUp /\ ProgressControl)'
<1>0. IInv /\ TypeOK /\ ProgressRunsUp /\ ProgressControl
  BY DEF ProgressInv, IInv
<1>1. Percent(batch[0]) \in 0 .. 99
  BY <1>0, PercentBelow100 DEF TypeOK
<1>2. caller \in {"sweep", "join"}
  BY <1>0 DEF IInv, CallerControl, NoWorkerOutlivesCall, AtLoopHead, TypeOK, CallerEnds
<1>3. HasProgress /\ reports # << >> /\ reports[Len(reports)] < Percent(batch[0])
  BY <1>0, <1>2 DEF ProgressControl, ReportIsDue, Running
<1>4. /\ \A i \in 1 .. Len(reports') - 1 : reports'[i] < reports'[i + 1]
      /\ reports'[1] = 0
      /\ reports' # << >>
      /\ reports'[Len(reports')] = Percent(batch[0])
      /\ (\A i \in 1 .. Len(reports) : reports[i] < 100) =>
            \A i \in 1 .. Len(reports') : reports'[i] < 100
  <2>1. Percent(batch[0]) \in 0 .. 100 /\ Percent(batch[0]) < 100
    BY <1>1
  <2> QED BY <2>1, <1>0, <1>3, ReportGrows
<1> QED
  BY <1>0, <1>2, <1>4 DEF ProgressRunsUp, ProgressControl, Running

LEMMA ProgressStep ==
    ASSUME ProgressInv, [Next]_vars
    PROVE  (ProgressRunsUp /\ ProgressControl)'
<1> USE SweepAssumption
<1>0. IInv /\ TypeOK /\ ProgressRunsUp /\ ProgressControl /\ 0 \in Thread
  BY DEF ProgressInv, IInv, Thread
<1>1. CASE Begin
  <2>1. CASE HasProgress
    <3>1. /\ Report(0) /\ reports = << >> /\ reported = 0 /\ reported' = reported
          /\ caller' \in {"spawn", "raised"}
      BY <1>0, <1>1, <2>1 DEF Begin, ProgressControl
    <3>2. Len(reports) = 0
      BY <3>1
    <3>3. /\ \A i \in 1 .. Len(reports') - 1 : reports'[i] < reports'[i + 1]
          /\ reports'[1] = 0
          /\ reports' # << >>
          /\ reports'[Len(reports')] = 0
          /\ \A i \in 1 .. Len(reports') : reports'[i] < 100
      <4>1. 0 \in 0 .. 100 /\ 0 < 100 /\ \A i \in 1 .. Len(reports) : reports[i] < 100
        BY <3>2
      <4> HIDE SweepAssumption
      <4> QED BY <4>1, <3>1, <1>0, ReportGrows
    <3> QED BY <3>1, <3>3 DEF ProgressRunsUp, ProgressControl, Running
  <2>2. CASE ~HasProgress
    <3>1. Len(<< >>) = 0
      OBVIOUS
    <3> QED BY <1>0, <1>1, <2>2, <3>1 DEF Begin, ProgressControl, ProgressRunsUp, Running
  <2> QED BY <2>1, <2>2
<1>2. CASE Finish
  <2>1. CASE HasProgress
    <3>1. /\ Report(100) /\ caller' \in {"returned", "raised"}
          /\ reports # << >> /\ reports[Len(reports)] < 100
      BY <1>0, <1>2, <2>1 DEF Finish, TypeOK, ProgressControl, Running
    <3>2. /\ \A i \in 1 .. Len(reports') - 1 : reports'[i] < reports'[i + 1]
          /\ reports'[1] = 0
          /\ reports'[Len(reports')] = 100
      <4>1. 100 \in 0 .. 100
        OBVIOUS
      <4> QED BY <4>1, <3>1, <1>0, ReportGrows
    <3> QED BY <3>1, <3>2 DEF ProgressRunsUp, ProgressControl, Running
  <2>2. CASE ~HasProgress
    <3>1. UNCHANGED progressState /\ caller' = "returned"
      BY <1>2, <2>2 DEF Finish, progressState
    <3> QED BY <1>0, <2>2, <3>1, SilentStep
  <2> QED BY <2>1, <2>2
<1>3. CASE Spawn \/ SpawnFails \/ RunWorkerZero \/ StartJoin \/ Joined \/ UNCHANGED vars
  <2>1. UNCHANGED progressState
    BY <1>3 DEF Spawn, SpawnFails, RunWorkerZero, StartJoin, Joined, vars, progressState
  <2>2. \/ caller' = caller
        \/ caller \in Running /\ caller' \in Running
        \/ caller' \in {"raised", "aborted"}
    BY <1>3 DEF Spawn, SpawnFails, RunWorkerZero, StartJoin, Joined, vars, Running
  <2> QED BY <1>0, <2>1, <2>2, SilentStep
<1>4. CASE ReportThrows
  BY <1>0, <1>4, LoopReport DEF ReportThrows, ProgressInv
<1>5. ASSUME NEW t \in Thread, Worker(t)
      PROVE  (ProgressRunsUp /\ ProgressControl)'
  <2>1. UNCHANGED caller
    BY <1>0, <1>5, WorkerControl
  <2>2. CASE UNCHANGED progressState
    BY <1>0, <2>1, <2>2, SilentStep
  <2>3. CASE PollContinues(t) /\ ReportIsDue(t)
    <3>1. t = 0
      BY <2>3 DEF ReportIsDue
    <3> QED BY <1>0, <2>1, <2>3, <3>1, LoopReport DEF PollContinues
  <2> QED
    BY <1>5, <2>2, <2>3 DEF Worker, Exhaust, Tick, PollStops, PollContinues, TestMisses, TestHits, Publish
<1> QED
  BY <1>1, <1>2, <1>3, <1>4, <1>5 DEF Next, Caller, Over

\* The callback sees 0, then growing percentages, and 100 once and last, for
\* any number of threads and wherever a callback throws.
THEOREM ProgressAlwaysRunsUp == Spec => []ProgressRunsUp
<1>1. Init => ProgressInv
  <2> SUFFICES ASSUME Init PROVE ProgressInv
    OBVIOUS
  <2>1. reports = << >> /\ Len(<< >>) = 0 /\ caller = "start" /\ reported = 0
    BY DEF Init
  <2> QED BY <2>1, IInvInit DEF ProgressInv, ProgressRunsUp, ProgressControl, Running
<1>2. ProgressInv /\ [Next]_vars => ProgressInv'
  BY ProgressStep, IInvNext DEF ProgressInv
<1>3. ProgressInv => ProgressRunsUp
  BY DEF ProgressInv
<1> QED BY <1>1, <1>2, <1>3, PTL DEF Spec

=============================================================================
