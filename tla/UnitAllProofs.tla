---------------------------- MODULE UnitAllProofs ----------------------------
(***************************************************************************)
(* Proofs about UnitAll for any number of jobs, threads and interrupts:    *)
(* the lock outlives the tests, the report is true, a failed build is      *)
(* reported and an interrupt stops the queue.  The serial loop and the     *)
(* pool share the variables but not the argument: the first is followed    *)
(* along "submitted", the second along each job's task.                    *)
(***************************************************************************)
EXTENDS UnitAll, FiniteSetTheorems, TLAPS

IsParallel == workers > 1

InLoop == {"popen", "forked", "running", "interrupted"}

\* What each mode does not use.
ModeControl ==
    /\ main = "lock" => /\ submitted = 0 /\ interrupts = 0 /\ passed = {} /\ failures = {}
                        /\ \A j \in Job : task[j] = "none"
    /\ main \in {"serial"} \cup InLoop => ~IsParallel
    /\ main \in {"build", "submit", "collect", "cancel", "signal", "drain"} => IsParallel
    /\ main \in InLoop => submitted \in Job
    /\ ~IsParallel => \A j \in Job : task[j] \in {"none", "raised"}

\* How a job's process follows the thread that has taken it.
PoolFollows ==
    IsParallel => \A j \in Job :
        /\ task[j] \in {"none", "queued", "popen", "raised", "cancelled"} => process[j] = "none"
        /\ task[j] = "done" => process[j] = "reaped"

\* The serial loop has one process at a time.
LoopFollows ==
    ~IsParallel => \A j \in Job :
        /\ j > submitted \/ (j = submitted /\ main = "popen") => process[j] = "none"
        /\ process[j] \in {"alive", "zombie"} =>
               j \in lost \/ (j = submitted /\ main \in {"forked", "running", "interrupted"})

\* When the pool starts and ends: nothing is queued before the jobs are
\* submitted, after the queue was cancelled, or at the end.
QueueControl ==
    /\ main = "build" => \A j \in Job : task[j] = "none"
    /\ main = "submit" => \A j \in Job : j > submitted => task[j] = "none"
    /\ main \in {"build", "submit", "collect"} => interrupts = 0
    /\ main = "signal" \/ (main = "drain" /\ interrupts > 0) => \A j \in Job : task[j] # "queued"

\* Where an interrupt or an exception has led to: the threads of the pool are
\* idle at the end unless the interpreter's join of them was interrupted.
Excuses ==
    /\ main \in {"interrupted", "cancel", "signal"} => interrupts > 0
    /\ main = "crash" => interrupts > 0 \/ \E j \in Job : task[j] = "raised"
    /\ main = "exited" /\ ~PoolIsIdle =>
          interrupts > 1 \/ (interrupts = 1 /\ \E j \in Job : task[j] = "raised")

ProcessInv == ModeControl /\ PoolFollows /\ LoopFollows /\ QueueControl /\ Excuses

\* What has been reported at each point.
Reported ==
    /\ passed \cap failures = {}
    /\ \A j \in passed : process[j] = "reaped" /\ code[j] = 0
    /\ main = "serial" => Collected = 1 .. submitted
    /\ main \in InLoop => Collected = 1 .. submitted - 1
    /\ main \in {"build", "submit"} => passed = {}
    /\ main = "drain" /\ interrupts = 0 => Collected = Job

ReportInv == Reported /\ ReportIsExact

\* The build of the serial loop is that of the first job it runs, the build of
\* the pool comes before the first job.
BuildControl ==
    /\ pending => ~noBuild
    /\ IsParallel => builder = {}
    /\ ~IsParallel /\ ~noBuild /\ pending => passed = {}
    /\ ~IsParallel /\ pending /\ main \in InLoop => submitted \in builder
    /\ \A j \in builder : process[j] \in {"zombie", "reaped"} /\ code[j] = 0 => built
    /\ ~IsParallel /\ ~noBuild /\ ~pending => built \/ builder \cap failures # {}
    /\ IsParallel /\ main \in {"submit", "collect"} => noBuild \/ built
    /\ IsParallel /\ passed # {} => noBuild \/ built

IInv == TypeOK /\ ProcessInv /\ ReportInv /\ BuildControl

-----------------------------------------------------------------------------
\* Every action keeps the types.
LEMMA TypeStep ==
    ASSUME TypeOK, ModeControl, [Next]_vars
    PROVE  TypeOK'
<1> USE UnitAllAssumption DEF TypeOK, ModeControl, InLoop, Job, Returned, options, build, pool, report
<1>1. CASE AcquireLock
  BY <1>1 DEF AcquireLock
<1>2. CASE NextJob
  BY <1>2 DEF NextJob
<1>3. CASE ForkJob
  BY <1>3 DEF ForkJob
<1>4. CASE ForkFails
  BY <1>4 DEF ForkFails
<1>5. CASE AssignProcess
  BY <1>5 DEF AssignProcess
<1>6. CASE JobEnded
  <2> USE <1>6 DEF JobEnded, Count
  <2>1. submitted \in Job
    OBVIOUS
  <2>2. {passed, failures}' \subseteq SUBSET Job
    BY <2>1
  <2>3. process' \in [Job -> {"none", "alive", "zombie", "reaped"}]
    BY <2>1
  <2>4. pending' = FALSE /\ main' = "serial" /\ code' = code /\ task' = task
    OBVIOUS
  <2>5. UNCHANGED <<workers, noBuild, builder, built, submitted, processes, signalled, exitCode,
                    interrupts, lost>>
    OBVIOUS
  <2>6. {builder, processes, signalled, passed, failures, lost}' \subseteq SUBSET Job
    BY <2>2, <2>5
  <2>7. {noBuild, pending, built}' \subseteq BOOLEAN
    BY <2>4, <2>5
  <2> HIDE <1>6 DEF JobEnded, Count
  <2> QED
    BY <2>3, <2>4, <2>5, <2>6, <2>7
<1>7. CASE AllJobsRun
  BY <1>7 DEF AllJobsRun, Summary
<1>8. CASE InterruptedJobEnded
  BY <1>8 DEF InterruptedJobEnded, Summary
<1>9. CASE Build
  <2> USE <1>9 DEF Build, Summary
  <2>1. built' \in BOOLEAN /\ failures' \subseteq Job
    OBVIOUS
  <2>2. exitCode' \in {0, 1, 2, 130}
    OBVIOUS
  <2>3. main' \in {"submit", "exited"}
    OBVIOUS
  <2> QED
    BY <2>1, <2>2, <2>3
<1>10. CASE Submit
  BY <1>10 DEF Submit
<1>11. CASE StartCollecting
  BY <1>11 DEF StartCollecting
<1>12. CASE CollectedAll
  BY <1>12 DEF CollectedAll
<1>13. CASE CancelQueue
  BY <1>13 DEF CancelQueue, Cancelled
<1>14. CASE SignalProcesses
  BY <1>14 DEF SignalProcesses
<1>15. CASE Drain
  BY <1>15 DEF Drain, Summary
<1>16. CASE Crash
  BY <1>16 DEF Crash, CrashCode
<1>17. ASSUME NEW j \in Job, Collect(j) PROVE TypeOK'
  BY <1>17 DEF Collect, Count
<1>18. ASSUME NEW j \in Job, CollectRaises(j) PROVE TypeOK'
  BY <1>18 DEF CollectRaises
<1>19. ASSUME NEW j \in Job, Take(j) PROVE TypeOK'
  BY <1>19 DEF Take, IsNextInQueue
<1>20. ASSUME NEW j \in Job, Popen(j) PROVE TypeOK'
  BY <1>20 DEF Popen
<1>21. ASSUME NEW j \in Job, PopenFails(j) PROVE TypeOK'
  BY <1>21 DEF PopenFails
<1>22. ASSUME NEW j \in Job, Register(j) PROVE TypeOK'
  BY <1>22 DEF Register
<1>23. ASSUME NEW j \in Job, Return(j) PROVE TypeOK'
  BY <1>23 DEF Return
<1>24. ASSUME NEW j \in Job, ProcessEnds(j) PROVE TypeOK'
  <2> USE <1>24 DEF ProcessEnds
  <2>1. built' \in BOOLEAN
    OBVIOUS
  <2>2. code' \in [Job -> {0, 1}]
    OBVIOUS
  <2>3. process' \in [Job -> {"none", "alive", "zombie", "reaped"}]
    OBVIOUS
  <2> QED
    BY <2>1, <2>2, <2>3
<1>25. CASE Interrupt
  BY <1>25 DEF Interrupt, CrashCode
<1>26. CASE UNCHANGED vars
  BY <1>26 DEF vars
<1> QED
  BY <1>1, <1>2, <1>3, <1>4, <1>5, <1>6, <1>7, <1>8, <1>9, <1>10, <1>11, <1>12, <1>13,
     <1>14, <1>15, <1>16, <1>17, <1>18, <1>19, <1>20, <1>21, <1>22, <1>23, <1>24, <1>25, <1>26
  DEF Next, Main, Thread, Over

-----------------------------------------------------------------------------
\* The processes and their threads, one action at a time.
LEMMA ProcessStep ==
    ASSUME TypeOK, ProcessInv, [Next]_vars
    PROVE  ProcessInv'
<1> USE UnitAllAssumption DEF TypeOK, Job, Returned, options, build, pool, report,
    IsParallel, InLoop, PoolIsIdle,
    ProcessInv, ModeControl, PoolFollows, LoopFollows, QueueControl, Excuses
<1>1. CASE AcquireLock
  BY <1>1 DEF AcquireLock
<1>2. CASE NextJob
  BY <1>2 DEF NextJob
<1>3. CASE ForkJob
  BY <1>3 DEF ForkJob
<1>4. CASE ForkFails
  BY <1>4 DEF ForkFails
<1>5. CASE AssignProcess
  BY <1>5 DEF AssignProcess
<1>6. CASE JobEnded
  BY <1>6 DEF JobEnded, Count
<1>7. CASE AllJobsRun
  BY <1>7 DEF AllJobsRun, Summary
<1>8. CASE InterruptedJobEnded
  BY <1>8 DEF InterruptedJobEnded, Summary
<1>9. CASE Build
  BY <1>9 DEF Build, Summary
<1>10. CASE Submit
  BY <1>10 DEF Submit
<1>11. CASE StartCollecting
  BY <1>11 DEF StartCollecting
<1>12. CASE CollectedAll
  BY <1>12 DEF CollectedAll
<1>13. CASE CancelQueue
  BY <1>13 DEF CancelQueue, Cancelled
<1>14. CASE SignalProcesses
  BY <1>14 DEF SignalProcesses
<1>15. CASE Drain
  BY <1>15 DEF Drain, Summary
<1>16. CASE Crash
  BY <1>16 DEF Crash, CrashCode
<1>17. ASSUME NEW j \in Job, Collect(j) PROVE ProcessInv'
  BY <1>17 DEF Collect, Count
<1>18. ASSUME NEW j \in Job, CollectRaises(j) PROVE ProcessInv'
  BY <1>18 DEF CollectRaises
<1>19. ASSUME NEW j \in Job, Take(j) PROVE ProcessInv'
  BY <1>19 DEF Take, IsNextInQueue
<1>20. ASSUME NEW j \in Job, Popen(j) PROVE ProcessInv'
  BY <1>20 DEF Popen
<1>21. ASSUME NEW j \in Job, PopenFails(j) PROVE ProcessInv'
  BY <1>21 DEF PopenFails
<1>22. ASSUME NEW j \in Job, Register(j) PROVE ProcessInv'
  BY <1>22 DEF Register
<1>23. ASSUME NEW j \in Job, Return(j) PROVE ProcessInv'
  BY <1>23 DEF Return
<1>24. ASSUME NEW j \in Job, ProcessEnds(j) PROVE ProcessInv'
  BY <1>24 DEF ProcessEnds
<1>25. CASE Interrupt
  BY <1>25 DEF Interrupt, CrashCode
<1>26. CASE UNCHANGED vars
  BY <1>26 DEF vars
<1> QED
  BY <1>1, <1>2, <1>3, <1>4, <1>5, <1>6, <1>7, <1>8, <1>9, <1>10, <1>11, <1>12, <1>13,
     <1>14, <1>15, <1>16, <1>17, <1>18, <1>19, <1>20, <1>21, <1>22, <1>23, <1>24, <1>25, <1>26
  DEF Next, Main, Thread, Over

-----------------------------------------------------------------------------
\* The report, one action at a time.
LEMMA ReportStep ==
    ASSUME TypeOK, ProcessInv, ReportInv, [Next]_vars
    PROVE  ReportInv'
<1> USE UnitAllAssumption DEF TypeOK, Job, Returned, options, build, pool, report,
    IsParallel, InLoop, Collected,
    ProcessInv, ModeControl, PoolFollows, LoopFollows, QueueControl, Excuses,
    ReportInv, Reported, ReportIsExact
<1>1. CASE AcquireLock
  BY <1>1 DEF AcquireLock
<1>2. CASE NextJob
  BY <1>2 DEF NextJob
<1>3. CASE ForkJob
  BY <1>3 DEF ForkJob
<1>4. CASE ForkFails
  BY <1>4 DEF ForkFails
<1>5. CASE AssignProcess
  BY <1>5 DEF AssignProcess
<1>6. CASE JobEnded
  BY <1>6 DEF JobEnded, Count
<1>7. CASE AllJobsRun
  <2> USE <1>7 DEF AllJobsRun, Summary
  <2>1. Collected = Job
    OBVIOUS
  <2>2. exitCode' = 0 => passed = Job
    <3>1. ASSUME exitCode' = 0 PROVE failures = {} /\ interrupts = 0
      BY <3>1
    <3> QED
      BY <2>1, <3>1
  <2>3. exitCode' = 1 => failures # {}
    OBVIOUS
  <2>4. main' = "exited" /\ UNCHANGED <<passed, failures, process, code, task, interrupts>>
    OBVIOUS
  <2> HIDE <1>7 DEF AllJobsRun, Summary
  <2> QED
    BY <2>1, <2>2, <2>3, <2>4
<1>8. CASE InterruptedJobEnded
  BY <1>8 DEF InterruptedJobEnded, Summary
<1>9. CASE Build
  <2> USE <1>9 DEF Build, Summary
  <2>1. passed = {} /\ passed' = {} /\ interrupts' = 0
    OBVIOUS
  <2>2. CASE main' = "submit"
    BY <2>1, <2>2
  <2>3. CASE main' = "exited" /\ failures' = Job /\ exitCode' = Summary(Job)
    <3>1. CASE Job = {}
      BY <2>1, <2>3, <3>1
    <3>2. CASE Job # {}
      BY <2>1, <2>3, <3>2
    <3> QED
      BY <3>1, <3>2
  <2> QED
    BY <2>2, <2>3
<1>10. CASE Submit
  BY <1>10 DEF Submit
<1>11. CASE StartCollecting
  BY <1>11 DEF StartCollecting
<1>12. CASE CollectedAll
  BY <1>12 DEF CollectedAll
<1>13. CASE CancelQueue
  BY <1>13 DEF CancelQueue, Cancelled
<1>14. CASE SignalProcesses
  BY <1>14 DEF SignalProcesses
<1>15. CASE Drain
  <2> USE <1>15 DEF Drain, Summary
  <2>1. exitCode' = 0 => passed = Job
    <3>1. ASSUME exitCode' = 0 PROVE failures = {} /\ interrupts = 0
      BY <3>1
    <3> QED
      BY <3>1
  <2>2. exitCode' = 1 => failures # {} /\ Collected = Job
    OBVIOUS
  <2>3. main' = "exited" /\ UNCHANGED <<passed, failures, process, code, task, interrupts>>
    OBVIOUS
  <2> HIDE <1>15 DEF Drain, Summary
  <2> QED
    BY <2>1, <2>2, <2>3
<1>16. CASE Crash
  BY <1>16 DEF Crash, CrashCode
<1>17. ASSUME NEW j \in Job, Collect(j) PROVE ReportInv'
  BY <1>17 DEF Collect, Count
<1>18. ASSUME NEW j \in Job, CollectRaises(j) PROVE ReportInv'
  BY <1>18 DEF CollectRaises
<1>19. ASSUME NEW j \in Job, Take(j) PROVE ReportInv'
  BY <1>19 DEF Take, IsNextInQueue
<1>20. ASSUME NEW j \in Job, Popen(j) PROVE ReportInv'
  BY <1>20 DEF Popen
<1>21. ASSUME NEW j \in Job, PopenFails(j) PROVE ReportInv'
  BY <1>21 DEF PopenFails
<1>22. ASSUME NEW j \in Job, Register(j) PROVE ReportInv'
  BY <1>22 DEF Register
<1>23. ASSUME NEW j \in Job, Return(j) PROVE ReportInv'
  BY <1>23 DEF Return
<1>24. ASSUME NEW j \in Job, ProcessEnds(j) PROVE ReportInv'
  BY <1>24 DEF ProcessEnds
<1>25. CASE Interrupt
  BY <1>25 DEF Interrupt, CrashCode
<1>26. CASE UNCHANGED vars
  BY <1>26 DEF vars
<1> QED
  BY <1>1, <1>2, <1>3, <1>4, <1>5, <1>6, <1>7, <1>8, <1>9, <1>10, <1>11, <1>12, <1>13,
     <1>14, <1>15, <1>16, <1>17, <1>18, <1>19, <1>20, <1>21, <1>22, <1>23, <1>24, <1>25, <1>26
  DEF Next, Main, Thread, Over

-----------------------------------------------------------------------------
\* The build, one action at a time.
LEMMA BuildStep ==
    ASSUME TypeOK, ProcessInv, ReportInv, BuildControl, [Next]_vars
    PROVE  BuildControl'
<1> USE UnitAllAssumption DEF TypeOK, Job, Returned, options, build, pool, report,
    IsParallel, InLoop, BuildControl,
    ProcessInv, ModeControl, LoopFollows, ReportInv, Reported
<1>1. CASE AcquireLock
  BY <1>1 DEF AcquireLock
<1>2. CASE NextJob
  BY <1>2 DEF NextJob
<1>3. CASE ForkJob
  BY <1>3 DEF ForkJob
<1>4. CASE ForkFails
  BY <1>4 DEF ForkFails
<1>5. CASE AssignProcess
  BY <1>5 DEF AssignProcess
<1>6. CASE JobEnded
  BY <1>6 DEF JobEnded, Count
<1>7. CASE AllJobsRun
  BY <1>7 DEF AllJobsRun, Summary
<1>8. CASE InterruptedJobEnded
  BY <1>8 DEF InterruptedJobEnded, Summary
<1>9. CASE Build
  BY <1>9 DEF Build, Summary
<1>10. CASE Submit
  BY <1>10 DEF Submit
<1>11. CASE StartCollecting
  BY <1>11 DEF StartCollecting
<1>12. CASE CollectedAll
  BY <1>12 DEF CollectedAll
<1>13. CASE CancelQueue
  BY <1>13 DEF CancelQueue, Cancelled
<1>14. CASE SignalProcesses
  BY <1>14 DEF SignalProcesses
<1>15. CASE Drain
  BY <1>15 DEF Drain, Summary
<1>16. CASE Crash
  BY <1>16 DEF Crash, CrashCode
<1>17. ASSUME NEW j \in Job, Collect(j) PROVE BuildControl'
  BY <1>17 DEF Collect, Count
<1>18. ASSUME NEW j \in Job, CollectRaises(j) PROVE BuildControl'
  BY <1>18 DEF CollectRaises
<1>19. ASSUME NEW j \in Job, Take(j) PROVE BuildControl'
  BY <1>19 DEF Take, IsNextInQueue
<1>20. ASSUME NEW j \in Job, Popen(j) PROVE BuildControl'
  BY <1>20 DEF Popen
<1>21. ASSUME NEW j \in Job, PopenFails(j) PROVE BuildControl'
  BY <1>21 DEF PopenFails
<1>22. ASSUME NEW j \in Job, Register(j) PROVE BuildControl'
  BY <1>22 DEF Register
<1>23. ASSUME NEW j \in Job, Return(j) PROVE BuildControl'
  BY <1>23 DEF Return
<1>24. ASSUME NEW j \in Job, ProcessEnds(j) PROVE BuildControl'
  <2> USE <1>24 DEF ProcessEnds
  <2>1. built => built'
    OBVIOUS
  <2>2. \A i \in builder : process'[i] \in {"zombie", "reaped"} /\ code'[i] = 0 => built'
    <3> SUFFICES ASSUME NEW i \in builder, process'[i] \in {"zombie", "reaped"}, code'[i] = 0
                 PROVE  built'
      OBVIOUS
    <3>1. CASE i = j
      <4>1. code'[j] = 0
        BY <3>1
      <4>2. code' # [code EXCEPT ![j] = 1]
        BY <4>1
      <4>3. built' = (built \/ j \in builder)
        BY <4>2
      <4>4. j \in builder
        BY <3>1
      <4> QED
        BY ONLY <4>3, <4>4
    <3>2. CASE i # j
      BY <2>1, <3>2
    <3> QED
      BY <3>1, <3>2
  <2>3. UNCHANGED <<noBuild, workers, pending, builder, main, submitted, passed, failures>>
    OBVIOUS
  <2> QED
    BY <2>1, <2>2, <2>3
<1>25. CASE Interrupt
  BY <1>25 DEF Interrupt, CrashCode
<1>26. CASE UNCHANGED vars
  BY <1>26 DEF vars
<1> QED
  BY <1>1, <1>2, <1>3, <1>4, <1>5, <1>6, <1>7, <1>8, <1>9, <1>10, <1>11, <1>12, <1>13,
     <1>14, <1>15, <1>16, <1>17, <1>18, <1>19, <1>20, <1>21, <1>22, <1>23, <1>24, <1>25, <1>26
  DEF Next, Main, Thread, Over

-----------------------------------------------------------------------------
LEMMA IInvInit ==
    ASSUME Init
    PROVE  IInv
<1> USE UnitAllAssumption DEF Init, Job, Returned
<1>1. TypeOK
  <2>1. workers \in WorkerCounts /\ {noBuild, pending, built} \subseteq BOOLEAN
    OBVIOUS
  <2>2. /\ main = "lock" /\ submitted \in 0 .. Jobs
        /\ exitCode = 0 /\ interrupts \in 0 .. InterruptLimit
    OBVIOUS
  <2>3. task \in [Job -> {"none"}] /\ process \in [Job -> {"none"}] /\ code \in [Job -> {0}]
    OBVIOUS
  <2>4. {builder, processes, signalled, passed, failures, lost} \subseteq SUBSET Job
    OBVIOUS
  <2> QED
    BY ONLY <2>1, <2>2, <2>3, <2>4 DEF TypeOK, Returned
<1>2. ProcessInv
  BY DEF ProcessInv, ModeControl, PoolFollows, LoopFollows, QueueControl, Excuses, InLoop, IsParallel
<1>3. ReportInv
  BY DEF ReportInv, Reported, ReportIsExact, Collected, InLoop
<1>4. BuildControl
  BY DEF BuildControl, IsParallel, InLoop
<1> QED
  BY <1>1, <1>2, <1>3, <1>4 DEF IInv

LEMMA IInvNext ==
    ASSUME IInv, [Next]_vars
    PROVE  IInv'
<1>1. TypeOK'
  BY TypeStep DEF IInv, ProcessInv
<1>2. ProcessInv'
  BY ProcessStep DEF IInv
<1>3. ReportInv'
  BY ReportStep DEF IInv
<1>4. BuildControl'
  BY BuildStep DEF IInv
<1> QED
  BY <1>1, <1>2, <1>3, <1>4 DEF IInv

LEMMA Invariance == Spec => []IInv
BY IInvInit, IInvNext, PTL DEF Spec

-----------------------------------------------------------------------------
\* The scheduler's state stays within its types: an interrupted run reports a
\* job only after the loop has got to it.
THEOREM SchedulerTypeCorrect == Spec => []TypeOK
<1>1. IInv => TypeOK
  BY DEF IInv
<1> QED
  BY <1>1, Invariance, PTL

\* unit-all.py keeps the lock until every unit.py has ended: the pool unless an
\* interrupt came after another one or after a Popen that failed, the serial
\* loop but for the process that an interrupt took from it.
THEOREM LockOutlivesJobs == Spec => []NoJobOutlivesLock
<1>1. ASSUME IInv
      PROVE  NoJobOutlivesLock
  <2> SUFFICES ASSUME main = "exited", NEW j \in Job, process[j] = "alive"
               PROVE  \/ workers = 1 /\ j \in lost
                      \/ /\ workers > 1 /\ interrupts > 0
                         /\ interrupts > 1 \/ \E i \in Job : task[i] = "raised"
    BY DEF NoJobOutlivesLock
  <2> USE <1>1 DEF IInv
  <2>1. CASE IsParallel
    <3>1. ~PoolIsIdle
      BY <2>1 DEF ProcessInv, PoolFollows, PoolIsIdle, Returned
    <3> QED BY <2>1, <3>1, UnitAllAssumption DEF ProcessInv, Excuses, TypeOK, IsParallel
  <2>2. CASE ~IsParallel
    <3>1. workers = 1
      BY <2>2, UnitAllAssumption DEF TypeOK, IsParallel
    <3>2. j \in lost
      BY <2>2 DEF ProcessInv, LoopFollows
    <3> QED BY <3>1, <3>2
  <2> QED BY <2>1, <2>2
<1> QED
  BY <1>1, Invariance, PTL

\* What unit-all.py reports of a job is what its unit.py ended with, and its
\* exit status is what the reports add up to.
THEOREM ReportIsTrue == Spec => []ReportIsExact
<1>1. IInv => ReportIsExact
  BY DEF IInv, ReportInv
<1> QED
  BY <1>1, Invariance, PTL

\* A job that passed on an emulator that was to be built and is not shares its
\* report with the failure of the job that was to build it.
THEOREM FailedBuildIsReported == Spec => []BuildFailureIsReported
<1>1. ASSUME IInv
      PROVE  BuildFailureIsReported
  <2> SUFFICES ASSUME ~noBuild, ~built, passed # {}
               PROVE  builder \cap failures # {}
    BY DEF BuildFailureIsReported
  <2> USE <1>1 DEF IInv, BuildControl
  <2>1. ~IsParallel
    OBVIOUS
  <2>2. ~pending
    BY <2>1
  <2> QED
    BY <2>1, <2>2
<1> QED
  BY <1>1, Invariance, PTL

\* After the queue was cancelled, no thread of the pool starts another job.
THEOREM QueueStops == Spec => InterruptStopsQueue
<1>1. ASSUME IInv, interrupts > 0, main \in {"signal", "drain"}
      PROVE  \A j \in Job : ~Take(j)
  BY <1>1 DEF IInv, ProcessInv, QueueControl, Take, IsNextInQueue
<1>2. IInv => [interrupts > 0 /\ main \in {"signal", "drain"} => \A j \in Job : ~Take(j)]_vars
  BY <1>1
<1> QED
  BY <1>2, Invariance, PTL DEF InterruptStopsQueue

-----------------------------------------------------------------------------
\* The unit.py processes that run.
Alive == {j \in Job : process[j] = "alive"}

\* How much NoJobOutlivesLock excuses.
FewOutlive ==
    /\ Cardinality(Alive) <= workers
    /\ main = "exited" /\ interrupts = 0 => Alive = {}

\* What an interrupt takes from the serial loop is the process of its last job.
LossControl ==
    lost # {} => lost = {submitted} /\ interrupts > 0 /\ main \in {"crash", "exited"}

LEMMA LossStep ==
    ASSUME TypeOK, LossControl, [Next]_vars
    PROVE  LossControl'
<1> USE DEF LossControl, options, build, pool, report
<1>1. CASE Interrupt
  BY <1>1, UnitAllAssumption DEF Interrupt, TypeOK
<1>2. ASSUME Main PROVE LossControl'
  BY <1>2 DEF Main, AcquireLock, NextJob, ForkJob, ForkFails, AssignProcess, JobEnded, AllJobsRun,
     InterruptedJobEnded, Build, Submit, StartCollecting, CollectedAll, CancelQueue,
     SignalProcesses, Drain, Crash, Collect, CollectRaises
<1>3. ASSUME NEW j \in Job, Thread(j) \/ ProcessEnds(j) PROVE LossControl'
  BY <1>3 DEF Thread, Take, Popen, PopenFails, Register, Return, ProcessEnds
<1>4. CASE UNCHANGED vars
  BY <1>4 DEF vars
<1> QED BY <1>1, <1>2, <1>3, <1>4 DEF Next, Over

\* A set of jobs that grows by less than the limit allows stays within it.
LEMMA JobsAreFinite ==
    ASSUME NEW S \in SUBSET Job
    PROVE  /\ IsFiniteSet(S) /\ Cardinality(S) \in Nat
           /\ \A T \in SUBSET S : Cardinality(T) <= Cardinality(S)
<1>1. IsFiniteSet(Job)
  BY FS_Interval, UnitAllAssumption DEF Job
<1>2. IsFiniteSet(S)
  BY <1>1, FS_Subset
<1> QED BY <1>2, FS_Subset, FS_CardinalityType

PoolWithinLimit == Cardinality(Busy) <= workers

LEMMA LimitStep ==
    ASSUME TypeOK, ProcessInv, PoolWithinLimit, [Next]_vars
    PROVE  PoolWithinLimit'
<1>0. workers' = workers /\ workers \in Nat /\ Busy \in SUBSET Job
  <2>1. workers' = workers
    BY DEF Next, Main, Thread, AcquireLock, NextJob, ForkJob, ForkFails, AssignProcess, JobEnded,
       AllJobsRun, InterruptedJobEnded, Build, Submit, StartCollecting, CollectedAll, CancelQueue,
       SignalProcesses, Drain, Crash, Collect, CollectRaises, Interrupt, Take, Popen, PopenFails,
       Register, Return, ProcessEnds, Over, vars, options
  <2> QED BY <2>1, UnitAllAssumption DEF TypeOK, Busy
<1>1. CASE Busy' \subseteq Busy
  <2>1. Cardinality(Busy') <= Cardinality(Busy) /\ Cardinality(Busy) \in Nat
        /\ Cardinality(Busy') \in Nat
    BY <1>0, <1>1, JobsAreFinite
  <2> QED BY <1>0, <2>1 DEF PoolWithinLimit
<1>2. ASSUME NEW j \in Job, Take(j) PROVE PoolWithinLimit'
  <2>1. Cardinality(Busy) < workers /\ j \notin Busy /\ Busy' = Busy \cup {j}
    BY <1>2 DEF Take, ThreadIsFree, IsNextInQueue, Busy, TypeOK, Returned
  <2>2. Cardinality(Busy \cup {j}) = Cardinality(Busy) + 1 /\ Cardinality(Busy) \in Nat
    BY <1>0, <2>1, JobsAreFinite, FS_AddElement
  <2> QED BY <1>0, <2>1, <2>2 DEF PoolWithinLimit
<1>3. ASSUME NEW j \in Job, Thread(j) PROVE Take(j) \/ Busy' \subseteq Busy
  BY <1>3 DEF Thread, Popen, PopenFails, Register, Return, Busy, TypeOK, Returned
<1>4. ASSUME NEW j \in Job, ProcessEnds(j) PROVE Busy' \subseteq Busy
  BY <1>4 DEF ProcessEnds, Busy
<1>5. ASSUME Main PROVE Busy' \subseteq Busy
  <2>1. CASE ForkFails
    BY <2>1 DEF ForkFails, Busy, TypeOK
  <2>2. CASE Submit
    BY <2>2 DEF Submit, Busy, TypeOK
  <2>3. CASE CancelQueue
    BY <2>3 DEF CancelQueue, Cancelled, Busy, TypeOK
  <2> QED
    BY <1>5, <2>1, <2>2, <2>3 DEF Main, AcquireLock, NextJob, ForkJob, AssignProcess, JobEnded,
       AllJobsRun, InterruptedJobEnded, Build, StartCollecting, CollectedAll, SignalProcesses,
       Drain, Crash, Collect, CollectRaises, pool, Busy
<1>6. ASSUME Interrupt \/ UNCHANGED vars PROVE Busy' \subseteq Busy
  BY <1>6 DEF Interrupt, vars, pool, Busy
<1> QED BY <1>1, <1>2, <1>3, <1>4, <1>5, <1>6 DEF Next, Over

\* At no time, and so not after the end of unit-all.py either, do more unit.py
\* processes run than --jobs allows; without an interrupt none outlives the lock.
THEOREM FewJobsOutlive == Spec => []FewOutlive
<1>1. Init => LossControl /\ PoolWithinLimit
  <2>1. Init => Busy = {}
    BY DEF Init, Busy
  <2> QED BY <2>1, FS_EmptySet, UnitAllAssumption DEF Init, LossControl, PoolWithinLimit
<1>2. IInv /\ LossControl /\ PoolWithinLimit /\ [Next]_vars => (LossControl /\ PoolWithinLimit)'
  BY LossStep, LimitStep DEF IInv
<1>3. IInv /\ LossControl /\ PoolWithinLimit /\ NoJobOutlivesLock => FewOutlive
  <2> SUFFICES ASSUME IInv, LossControl, PoolWithinLimit, NoJobOutlivesLock PROVE FewOutlive
    OBVIOUS
  <2> USE DEF IInv
  <2>0. workers \in Nat \ {0}
    BY UnitAllAssumption DEF TypeOK
  <2>1. CASE IsParallel
    <3>1. Alive \subseteq Busy
      BY <2>1 DEF ProcessInv, PoolFollows, Alive, Busy, TypeOK, Returned
    <3>2. Cardinality(Alive) <= Cardinality(Busy) /\ Cardinality(Alive) \in Nat
          /\ Cardinality(Busy) \in Nat
      BY <3>1, JobsAreFinite DEF Busy, Alive
    <3> QED BY <2>0, <2>1, <3>2 DEF PoolWithinLimit, FewOutlive, NoJobOutlivesLock, Alive, IsParallel
  <2>2. CASE ~IsParallel
    <3>1. Alive \subseteq {submitted}
      BY <2>2 DEF ProcessInv, LoopFollows, Alive, LossControl
    <3>2. Cardinality(Alive) <= 1
      <4>1. Alive = {} \/ Alive = {submitted}
        BY <3>1
      <4>2. Cardinality({}) = 0 /\ Cardinality({submitted}) = 1
        BY FS_EmptySet, FS_Singleton
      <4> QED BY <4>1, <4>2
    <3>3. main = "exited" /\ interrupts = 0 => Alive = {}
      BY UnitAllAssumption DEF NoJobOutlivesLock, LossControl, Alive, TypeOK
    <3>4. Cardinality(Alive) \in Nat
      BY JobsAreFinite DEF Alive
    <3> QED BY <2>0, <3>2, <3>3, <3>4 DEF FewOutlive
  <2> QED BY <2>1, <2>2
<1> QED BY <1>1, <1>2, <1>3, Invariance, LockOutlivesJobs, PTL DEF Spec

=============================================================================
