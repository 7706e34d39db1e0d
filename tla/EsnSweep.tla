------------------------------ MODULE EsnSweep ------------------------------
(***************************************************************************)
(* bruteForceEsn: every thread sweeps its own residue class of the ESN     *)
(* space, one batch of BatchSize candidates at a time.  Thread 0 is the    *)
(* calling thread and reports progress; the others only poll "found" every *)
(* CheckInterval batches.  The loop variable firstCandidate of the code is *)
(* batch[t] * BatchSize here.                                              *)
(***************************************************************************)
EXTENDS Integers, Sequences

CONSTANTS
    ThreadCount,    \* resolved thread count (hardware_concurrency when 0 is passed)
    BatchSize,      \* lanes tested by one call of matches(): 8 in the code
    Batches,        \* ESN_COUNT / BatchSize
    CheckInterval,  \* PROGRESS_INTERVAL / batchSize
    HasProgress,    \* whether a progress callback was passed
    MatchSets       \* predicates the caller may pass, as sets of matching ESNs

EsnCount == Batches * BatchSize
Candidate == 0 .. EsnCount - 1
Thread == 0 .. ThreadCount - 1

ASSUME SweepAssumption ==
    /\ ThreadCount \in Nat \ {0}
    /\ BatchSize \in Nat \ {0}
    /\ Batches \in Nat \ {0}
    /\ CheckInterval \in Nat \ {0}
    /\ HasProgress \in BOOLEAN
    /\ MatchSets \subseteq SUBSET Candidate

VARIABLES
    matches,    \* ESNs that satisfy the predicate of this call; never changes
    caller,     \* control point of the calling thread
    spawned,    \* threads 1 .. spawned - 1 exist
    pc,         \* control point of each worker's loop
    batch,      \* firstCandidate / batchSize of each worker
    ticks,      \* ticks of each worker
    found,      \* std::atomic<bool> found
    result,     \* std::atomic<uint32_t> result
    threw,      \* progressError is set
    reported,   \* reportedPercent
    reports     \* percentages the progress callback has received, oldest first

vars == <<matches, caller, spawned, pc, batch, ticks, found, result, threw, reported, reports>>
control == <<caller, spawned, threw>>
flags == <<found, result>>
progressState == <<reported, reports>>

CallerEnds == {"returned", "raised", "aborted"}

TypeOK ==
    /\ matches \in MatchSets
    /\ caller \in {"start", "spawn", "sweep", "join", "report"} \cup CallerEnds
    /\ spawned \in 1 .. ThreadCount
    /\ pc \in [Thread -> {"none", "check", "test", "publish", "done"}]
    /\ batch \in [Thread -> Nat]
    /\ ticks \in [Thread -> 0 .. CheckInterval - 1]
    /\ found \in BOOLEAN
    /\ result \in Candidate
    /\ threw \in BOOLEAN
    /\ reported \in 0 .. 99
    /\ reports \in Seq(0 .. 100)

-----------------------------------------------------------------------------
\* The candidates of batch b, in the order its lanes are compared.
Lanes(b) == b * BatchSize .. b * BatchSize + BatchSize - 1

\* Slip: the matching lane is not added to firstCandidate.
LaneForgotten(b, esn) == esn = b * BatchSize

\* std::optional returned by matches(): the first lane that satisfies the predicate.
IsLaneMatch(b, esn) == 
    /\ esn \in Lanes(b) \cap matches
    /\ \A other \in Lanes(b) \cap matches : esn <= other

FirstBatch(t) == t
\* Slips: the stride is not the number of threads, or is forgotten.
StrideTooLong(b) == b + ThreadCount + 1
StrideOfOne(b) == b + 1
NoStride(b) == b

NextBatch(b) == b + ThreadCount
Percent(b) == (b * 100) \div Batches
\* Slip: the counter is compared before it is incremented.
PollTooLate(n) == n >= CheckInterval

PollIsDue(n) == n + 1 >= CheckInterval

Init ==
    /\ matches \in MatchSets
    /\ caller = "start"
    /\ spawned = 1
    /\ pc = [t \in Thread |-> "none"]
    /\ batch = [t \in Thread |-> FirstBatch(t)]
    /\ ticks = [t \in Thread |-> 0]
    /\ found = FALSE
    /\ result = 0
    /\ threw = FALSE
    /\ reported = 0
    /\ reports = << >>

-----------------------------------------------------------------------------
\* The callback is the caller's code and may throw, see bruteforce.cpp:89-99.
Report(percent) == reports' = Append(reports, percent)

Begin ==
    /\ caller = "start"
    /\ IF HasProgress
       THEN /\ Report(0)
            /\ caller' \in {"spawn", "raised"}
       ELSE /\ caller' = "spawn"
            /\ UNCHANGED reports
    /\ UNCHANGED <<matches, spawned, pc, batch, ticks, flags, threw, reported>>

\* workers.emplace_back(runWorker, thread) for threads 1 .. ThreadCount - 1.
Spawn ==
    /\ caller = "spawn"
    /\ spawned < ThreadCount
    /\ pc' = [pc EXCEPT ![spawned] = "check"]
    /\ spawned' = spawned + 1
    /\ UNCHANGED <<matches, caller, batch, ticks, flags, threw, progressState>>

\* std::thread could not be created: the exception leaves the loop, and
\* destroying the vector aborts the program if it holds a joinable thread.
SpawnFails ==
    /\ caller = "spawn"
    /\ spawned < ThreadCount
    /\ caller' = IF spawned = 1 THEN "raised" ELSE "aborted"
    /\ UNCHANGED <<matches, spawned, pc, batch, ticks, flags, threw, progressState>>

RunWorkerZero ==
    /\ caller = "spawn"
    /\ spawned = ThreadCount
    /\ caller' = "sweep"
    /\ pc' = [pc EXCEPT ![0] = "check"]
    /\ UNCHANGED <<matches, spawned, batch, ticks, flags, threw, progressState>>

-----------------------------------------------------------------------------
\* The worker's loop.
AtLoopHead(t) ==
    /\ caller # "aborted"
    /\ pc[t] = "check"

Exhaust(t) ==
    /\ AtLoopHead(t)
    /\ batch[t] >= Batches
    /\ pc' = [pc EXCEPT ![t] = "done"]
    /\ UNCHANGED <<matches, control, batch, ticks, flags, progressState>>

Tick(t) ==
    /\ AtLoopHead(t)
    /\ batch[t] < Batches
    /\ ~PollIsDue(ticks[t])
    /\ ticks' = [ticks EXCEPT ![t] = @ + 1]
    /\ pc' = [pc EXCEPT ![t] = "test"]
    /\ UNCHANGED <<matches, control, batch, flags, progressState>>

\* found.load(relaxed): another thread's store may not be visible yet.
MaySee(seen) == seen \in {FALSE, found}

PollStops(t) ==
    /\ AtLoopHead(t)
    /\ batch[t] < Batches
    /\ PollIsDue(ticks[t])
    /\ MaySee(TRUE)
    /\ ticks' = [ticks EXCEPT ![t] = 0]
    /\ pc' = [pc EXCEPT ![t] = "done"]
    /\ UNCHANGED <<matches, control, batch, flags, progressState>>

\* Slip: every thread reports its own percentage whenever it is another one.
EveryoneReports(t) == HasProgress /\ Percent(batch[t]) # reported

ReportIsDue(t) ==
    /\ HasProgress
    /\ t = 0
    /\ Percent(batch[t]) > reported

PollContinues(t) ==
    /\ AtLoopHead(t)
    /\ batch[t] < Batches
    /\ PollIsDue(ticks[t])
    /\ MaySee(FALSE)
    /\ ticks' = [ticks EXCEPT ![t] = 0]
    /\ pc' = [pc EXCEPT ![t] = "test"]
    /\ IF ReportIsDue(t)
       THEN /\ reported' = Percent(batch[t])
            /\ Report(Percent(batch[t]))
       ELSE UNCHANGED progressState
    /\ UNCHANGED <<matches, control, batch, flags>>

\* The callback throws: worker 0 unwinds into the catch of bruteForceEsn.
ReportThrows ==
    /\ AtLoopHead(0)
    /\ batch[0] < Batches
    /\ PollIsDue(ticks[0])
    /\ MaySee(FALSE)
    /\ ReportIsDue(0)
    /\ ticks' = [ticks EXCEPT ![0] = 0]
    /\ reported' = Percent(batch[0])
    /\ Report(Percent(batch[0]))
    /\ pc' = [pc EXCEPT ![0] = "done"]
    /\ threw' = TRUE
    /\ found' = TRUE
    /\ UNCHANGED <<matches, caller, spawned, batch, result>>

TestMisses(t) ==
    /\ caller # "aborted"
    /\ pc[t] = "test"
    /\ Lanes(batch[t]) \cap matches = {}
    /\ batch' = [batch EXCEPT ![t] = NextBatch(@)]
    /\ pc' = [pc EXCEPT ![t] = "check"]
    /\ UNCHANGED <<matches, control, ticks, flags, progressState>>

TestHits(t) ==
    /\ caller # "aborted"
    /\ pc[t] = "test"
    /\ \E esn \in Lanes(batch[t]) :
          /\ IsLaneMatch(batch[t], esn)
          /\ result' = esn
    /\ pc' = [pc EXCEPT ![t] = "publish"]
    /\ UNCHANGED <<matches, control, batch, ticks, found, progressState>>

Publish(t) ==
    /\ caller # "aborted"
    /\ pc[t] = "publish"
    /\ found' = TRUE
    /\ pc' = [pc EXCEPT ![t] = "done"]
    /\ UNCHANGED <<matches, control, batch, ticks, result, progressState>>

Worker(t) ==
    \/ Exhaust(t) \/ Tick(t) \/ PollStops(t) \/ PollContinues(t)
    \/ TestMisses(t) \/ TestHits(t) \/ Publish(t)

-----------------------------------------------------------------------------
\* Worker 0 has come back, by its return or through the catch.
StartJoin ==
    /\ caller = "sweep"
    /\ pc[0] = "done"
    /\ caller' = "join"
    /\ UNCHANGED <<matches, spawned, pc, batch, ticks, flags, threw, progressState>>

\* Slip: only the calling thread's own worker is waited for.
OwnWorkerDone == pc[0] = "done"

WorkersJoined == \A t \in Thread : pc[t] = "done"

Joined ==
    /\ caller = "join"
    /\ WorkersJoined
    /\ caller' = IF threw THEN "raised" ELSE "report"
    /\ UNCHANGED <<matches, spawned, pc, batch, ticks, flags, threw, progressState>>

Finish ==
    /\ caller = "report"
    /\ IF HasProgress /\ reported < 100
       THEN /\ Report(100)
            /\ caller' \in {"returned", "raised"}
       ELSE /\ caller' = "returned"
            /\ UNCHANGED reports
    /\ UNCHANGED <<matches, spawned, pc, batch, ticks, flags, threw, reported>>

Caller == Begin \/ Spawn \/ SpawnFails \/ RunWorkerZero \/ StartJoin \/ Joined \/ Finish

\* The call is over: nothing is left to happen.
Over == caller \in CallerEnds /\ UNCHANGED vars

Next ==
    \/ Caller
    \/ ReportThrows
    \/ \E t \in Thread : Worker(t)
    \/ Over

Spec == Init /\ [][Next]_vars

\* Every thread the program started is scheduled until it returns.
Fairness == WF_vars(Caller) /\ WF_vars(ReportThrows) /\ \A t \in Thread : WF_vars(Worker(t))

FairSpec == Spec /\ Fairness

-----------------------------------------------------------------------------
Answer(status, esn) == [status |-> status, esn |-> esn]

\* What the call has returned, in the terms of EsnSearch.
ReturnValue ==
    CASE caller = "returned" /\ found  -> Answer("found", result)
      [] caller = "returned" /\ ~found -> Answer("notFound", 0)
      [] caller \in {"raised", "aborted"} -> Answer("failed", 0)
      [] OTHER -> Answer("pending", 0)

Search == INSTANCE EsnSearch WITH answer <- ReturnValue

\* The threaded search implements EsnSearch: it answers once, with a matching
\* ESN or, only when no candidate matches, with "not found".
ImplementsSearch == Search!Spec

\* The workers use the locals of bruteForceEsn by reference, so none of them
\* may still run once the call has returned or thrown (bruteforce.cpp:95-96).
NoWorkerOutlivesCall ==
    caller \in {"returned", "raised"} => \A t \in Thread : pc[t] \in {"none", "done"}

\* When the call returns, "found" is set exactly when some candidate matches,
\* and then result is one of the matching candidates.
ReturnIsExact ==
    caller = "returned" =>
        /\ found <=> matches # {}
        /\ found => result \in matches

\* Two workers never have the same batch in hand (bruteforce.cpp:59-61): the
\* space is split between the threads, not searched twice.
BatchesAreDisjoint ==
    \A t, u \in Thread : batch[t] = batch[u] => t = u

\* The callback sees 0 first, then strictly growing percentages, 100 at most
\* once and only as its last call; a call that returns has delivered both ends
\* ("runs from 0 to 100 for each attempted method", bruteforce.h:25-27).
ProgressRunsUp ==
    /\ \A i \in 1 .. Len(reports) - 1 : reports[i] < reports[i + 1]
    /\ reports # << >> => reports[1] = 0
    /\ caller = "returned" /\ HasProgress => reports[Len(reports)] = 100
    /\ caller \in {"start", "spawn", "sweep", "join"} => \A i \in 1 .. Len(reports) : reports[i] < 100

\* Once a thread has exhausted its share or seen "found" the call ends: it
\* returns, throws or aborts, whoever finds the match and whoever throws.
Terminates == <>(caller \in CallerEnds)

=============================================================================
