------------------------------ MODULE UnitAll ------------------------------
(***************************************************************************)
(* tools/unit-all.py.  With --jobs 1 the main thread starts the unit.py    *)
(* processes one after the other; only the first of them builds the        *)
(* emulator.  With more, the main thread builds, submits the jobs to a     *)
(* pool of threads, each of which starts a unit.py process, registers it   *)
(* in the set "processes" and waits for it, and collects the results as    *)
(* they complete.  A signal raises KeyboardInterrupt at any point of the   *)
(* main thread, the interpreter's join of the pool at its end included.    *)
(* What one unit.py does is UnitRunner; here it is a process that ends     *)
(* with a status, unless a signal has hit it: then it may wait for good    *)
(* for children that nobody stops.                                         *)
(***************************************************************************)
EXTENDS FiniteSets, Naturals

CONSTANTS
    Jobs,           \* number of selected jobs
    WorkerCounts,   \* values of --jobs
    BadConfig,      \* jobs whose command cannot be built: no such fullflash
    InterruptLimit  \* bound: interrupts of the main thread

ASSUME UnitAllAssumption ==
    /\ Jobs \in Nat
    /\ WorkerCounts \subseteq Nat \ {0}
    /\ BadConfig \subseteq 1 .. Jobs
    /\ InterruptLimit \in Nat

Job == 1 .. Jobs

VARIABLES
    workers,    \* --jobs
    noBuild,    \* --no-build
    pending,    \* build_pending of the serial loop
    builder,    \* jobs whose unit.py is to build the emulator
    built,      \* the emulator is as the sources want it
    main,       \* control point of the main thread
    submitted,  \* jobs 1 .. submitted have been handled by the loop over jobs
    task,       \* each job's call of run_job_buffered
    process,    \* each job's unit.py
    code,       \* its exit status
    processes,  \* the set of that name
    signalled,  \* processes that got a SIGINT
    passed,     \* jobs counted as passed
    failures,   \* jobs listed as failed
    exitCode,   \* exit status of unit-all.py
    interrupts, \* KeyboardInterrupts so far
    lost        \* ghost: jobs whose process an interrupt took from the serial loop

options == <<workers, noBuild>>
build == <<pending, builder, built>>
pool == <<task, process, code>>
report == <<passed, failures, exitCode>>
vars == <<options, build, main, submitted, pool, processes, signalled, report, interrupts, lost>>

Returned == {"done", "raised"}

TypeOK ==
    /\ workers \in WorkerCounts
    /\ {noBuild, pending, built} \subseteq BOOLEAN
    /\ main \in {"lock", "serial", "popen", "forked", "running", "interrupted", "build", "submit",
                 "collect", "cancel", "signal", "drain", "crash", "exited"}
    /\ submitted \in 0 .. Jobs
    /\ task \in [Job -> {"none", "queued", "popen", "register", "wait", "cancelled"} \cup Returned]
    /\ process \in [Job -> {"none", "alive", "zombie", "reaped"}]
    /\ code \in [Job -> {0, 1}]
    /\ {builder, processes, signalled, passed, failures, lost} \subseteq SUBSET Job
    /\ exitCode \in {0, 1, 2, 130}
    /\ interrupts \in 0 .. InterruptLimit

Init ==
    /\ workers \in WorkerCounts
    /\ noBuild \in BOOLEAN
    /\ pending = ~noBuild
    /\ builder = {}
    /\ built = FALSE
    /\ main = "lock"
    /\ submitted = 0
    /\ task = [j \in Job |-> "none"]
    /\ process = [j \in Job |-> "none"]
    /\ code = [j \in Job |-> 0]
    /\ processes = {}
    /\ signalled = {}
    /\ passed = {}
    /\ failures = {}
    /\ exitCode = 0
    /\ interrupts = 0
    /\ lost = {}

-----------------------------------------------------------------------------
\* Slip: the number of failures becomes the exit status.
SummaryCounts(failed) ==
    IF interrupts > 0 THEN 130 ELSE Cardinality(failed)

\* print_summary decides the exit status.
Summary(failed) ==
    IF interrupts > 0 THEN 130 ELSE IF failed # {} THEN 1 ELSE 0

\* Slip: the status of a job is not looked at.
CountAsPassed(j) == passed' = passed \cup {j} /\ UNCHANGED failures

Count(j) ==
    IF code[j] = 0
    THEN passed' = passed \cup {j} /\ UNCHANGED failures
    ELSE failures' = failures \cup {j} /\ UNCHANGED passed

AcquireLock ==
    /\ main = "lock"
    /\ \/ main' = (IF workers > 1 THEN "build" ELSE "serial") /\ UNCHANGED exitCode
       \/ main' = "exited" /\ exitCode' = 2
    /\ UNCHANGED <<options, build, submitted, pool, processes, signalled, passed, failures,
                   interrupts, lost>>

-----------------------------------------------------------------------------
\* run_jobs, the serial loop.

\* Slip: a job that is not run uses up the build.
ConfigErrorDropsBuild ==
    /\ main = "serial"
    /\ submitted < Jobs
    /\ submitted' = submitted + 1
    /\ pending' = FALSE
    /\ IF submitted' \in BadConfig
       THEN failures' = failures \cup {submitted'} /\ UNCHANGED <<builder, main>>
       ELSE /\ main' = "popen"
            /\ builder' = IF pending THEN builder \cup {submitted'} ELSE builder
            /\ UNCHANGED failures
    /\ UNCHANGED <<options, built, pool, processes, signalled, passed, exitCode, interrupts, lost>>

NextJob ==
    /\ main = "serial"
    /\ submitted < Jobs
    /\ submitted' = submitted + 1
    /\ IF submitted' \in BadConfig
       THEN failures' = failures \cup {submitted'} /\ UNCHANGED <<builder, main>>
       ELSE /\ main' = "popen"
            /\ builder' = IF pending THEN builder \cup {submitted'} ELSE builder
            /\ UNCHANGED failures
    /\ UNCHANGED <<options, pending, built, pool, processes, signalled, passed, exitCode,
                   interrupts, lost>>

\* The process exists before Popen returns to the assignment.
ForkJob ==
    /\ main = "popen"
    /\ process' = [process EXCEPT ![submitted] = "alive"]
    /\ main' = "forked"
    /\ UNCHANGED <<options, build, submitted, task, code, processes, signalled, report, interrupts,
                   lost>>

\* Nothing catches what Popen raises.
ForkFails ==
    /\ main = "popen"
    /\ task' = [task EXCEPT ![submitted] = "raised"]
    /\ main' = "crash"
    /\ UNCHANGED <<options, build, submitted, process, code, processes, signalled, report,
                   interrupts, lost>>

AssignProcess ==
    /\ main = "forked"
    /\ main' = "running"
    /\ UNCHANGED <<options, build, submitted, pool, processes, signalled, report, interrupts, lost>>

\* Whatever the job has come to, the next one does not build.
JobEnded ==
    /\ main = "running"
    /\ process[submitted] = "zombie"
    /\ process' = [process EXCEPT ![submitted] = "reaped"]
    /\ pending' = FALSE
    /\ Count(submitted)
    /\ main' = "serial"
    /\ UNCHANGED <<options, builder, built, submitted, task, code, processes, signalled, exitCode,
                   interrupts, lost>>

AllJobsRun ==
    /\ main = "serial"
    /\ submitted = Jobs
    /\ main' = "exited"
    /\ exitCode' = Summary(failures)
    /\ UNCHANGED <<options, build, submitted, pool, processes, signalled, passed, failures,
                   interrupts, lost>>

\* The handler of the interrupt waits for the process it has signalled.
InterruptedJobEnded ==
    /\ main = "interrupted"
    /\ process[submitted] = "zombie"
    /\ process' = [process EXCEPT ![submitted] = "reaped"]
    /\ failures' = failures \cup {submitted}
    /\ main' = "exited"
    /\ exitCode' = Summary(failures')
    /\ UNCHANGED <<options, build, submitted, task, code, processes, signalled, passed, interrupts,
                   lost>>

-----------------------------------------------------------------------------
\* build_parallel_jobs: when it fails, every job is listed as "BUILD".
Build ==
    /\ main = "build"
    /\ \/ main' = "submit" /\ built' = ~noBuild /\ UNCHANGED <<failures, exitCode>>
       \/ /\ main' = "exited" /\ failures' = Job /\ exitCode' = Summary(Job)
          /\ built' \in {FALSE, ~noBuild}
    /\ UNCHANGED <<options, pending, builder, submitted, pool, processes, signalled, passed,
                   interrupts, lost>>

Submit ==
    /\ main = "submit"
    /\ submitted < Jobs
    /\ LET job == submitted + 1
       IN  IF job \in BadConfig
           THEN failures' = failures \cup {job} /\ UNCHANGED task
           ELSE task' = [task EXCEPT ![job] = "queued"] /\ UNCHANGED failures
    /\ submitted' = submitted + 1
    /\ UNCHANGED <<options, build, main, process, code, processes, signalled, passed, exitCode, interrupts, lost>>

StartCollecting ==
    /\ main = "submit"
    /\ submitted = Jobs
    /\ main' = "collect"
    /\ UNCHANGED <<options, build, submitted, pool, processes, signalled, report, interrupts, lost>>

-----------------------------------------------------------------------------
\* run_job_buffered, on a thread of the pool.
Busy == {j \in Job : task[j] \in {"popen", "register", "wait"}}

ThreadIsFree == Cardinality(Busy) < workers

IsNextInQueue(j) == task[j] = "queued" /\ \A i \in 1 .. j - 1 : task[i] # "queued"

Take(j) ==
    /\ ThreadIsFree
    /\ IsNextInQueue(j)
    /\ task' = [task EXCEPT ![j] = "popen"]
    /\ UNCHANGED <<options, build, main, submitted, process, code, processes, signalled, report, interrupts, lost>>

Popen(j) ==
    /\ task[j] = "popen"
    /\ task' = [task EXCEPT ![j] = "register"]
    /\ process' = [process EXCEPT ![j] = "alive"]
    /\ UNCHANGED <<options, build, main, submitted, code, processes, signalled, report, interrupts, lost>>

PopenFails(j) ==
    /\ task[j] = "popen"
    /\ task' = [task EXCEPT ![j] = "raised"]
    /\ UNCHANGED <<options, build, main, submitted, process, code, processes, signalled, report, interrupts, lost>>

Register(j) ==
    /\ task[j] = "register"
    /\ task' = [task EXCEPT ![j] = "wait"]
    /\ processes' = processes \cup {j}
    /\ UNCHANGED <<options, build, main, submitted, process, code, signalled, report, interrupts, lost>>

\* All output read, process waited for and taken out of the set.
Return(j) ==
    /\ task[j] = "wait"
    /\ process[j] = "zombie"
    /\ process' = [process EXCEPT ![j] = "reaped"]
    /\ processes' = processes \ {j}
    /\ task' = [task EXCEPT ![j] = "done"]
    /\ UNCHANGED <<options, build, main, submitted, code, signalled, report, interrupts, lost>>

\* Status 1 stands for every failure: a build that fails is status 2 of
\* unit.py, and it may fail after the emulator is done.
ProcessEnds(j) ==
    /\ process[j] = "alive"
    /\ process' = [process EXCEPT ![j] = "zombie"]
    /\ \/ /\ code' = [code EXCEPT ![j] = 0]
          /\ built' = (built \/ j \in builder)
       \/ /\ code' = [code EXCEPT ![j] = 1]
          /\ built' \in {built, built \/ j \in builder}
    /\ UNCHANGED <<options, pending, builder, main, submitted, task, processes, signalled, report,
                   interrupts, lost>>

-----------------------------------------------------------------------------
Collected == passed \cup failures

Collect(j) ==
    /\ main = "collect"
    /\ task[j] = "done"
    /\ j \notin Collected
    /\ Count(j)
    /\ UNCHANGED <<options, build, main, submitted, pool, processes, signalled, exitCode, interrupts, lost>>

\* future.result() raises what Popen raised, and nothing catches it.
CollectRaises(j) ==
    /\ main = "collect"
    /\ task[j] = "raised"
    /\ main' = "crash"
    /\ UNCHANGED <<options, build, submitted, pool, processes, signalled, report, interrupts, lost>>

CollectedAll ==
    /\ main = "collect"
    /\ Collected = Job
    /\ main' = "drain"
    /\ UNCHANGED <<options, build, submitted, pool, processes, signalled, report, interrupts, lost>>

\* An interrupt that nothing caught ends the process, another exception gives 1.
CrashCode == IF interrupts > 0 THEN 130 ELSE 1

\* Ctrl-C reaches the process group of the terminal, kill only the main thread.
\* Only the collecting loop and the serial loop's body have a handler.  At the
\* interpreter's join of the pool threads the interrupt is ignored, but not the
\* rest of the join: the process ends, and its threads with it.
Interrupt ==
    /\ interrupts < InterruptLimit
    /\ interrupts' = interrupts + 1
    /\ \E terminal \in BOOLEAN :
          signalled' = signalled \cup {j \in Job :
              /\ process[j] = "alive"
              /\ terminal \/ (main = "running" /\ j = submitted)}
    /\ \/ main = "collect" /\ main' = "cancel" /\ UNCHANGED <<failures, exitCode, lost>>
       \/ main = "running" /\ main' = "interrupted" /\ UNCHANGED <<failures, exitCode, lost>>
       \/ /\ main \in {"popen", "forked"}     \* the variable "process" is still None
          /\ failures' = failures \cup {submitted}
          /\ main' = "exited" /\ exitCode' = 130
          /\ lost' = lost \cup {submitted}
       \/ /\ main \in {"lock", "serial", "build", "submit", "cancel", "signal", "drain"}
          /\ main' = "crash" /\ UNCHANGED <<failures, exitCode, lost>>
       \/ /\ main = "crash" /\ main' = "exited" /\ exitCode' = CrashCode
          /\ UNCHANGED <<failures, lost>>
       \/ /\ main = "interrupted" /\ main' = "crash"
          /\ lost' = lost \cup {submitted}
          /\ UNCHANGED <<failures, exitCode>>
    /\ UNCHANGED <<options, build, submitted, pool, processes, passed>>

\* Slip: the queue is not cancelled.
KeepQueue(j) == task[j]

\* shutdown(wait=False, cancel_futures=True)
Cancelled(j) == IF task[j] = "queued" THEN "cancelled" ELSE task[j]

CancelQueue ==
    /\ main = "cancel"
    /\ task' = [j \in Job |-> Cancelled(j)]
    /\ main' = "signal"
    /\ UNCHANGED <<options, build, submitted, process, code, processes, signalled, report, interrupts, lost>>

SignalProcesses ==
    /\ main = "signal"
    /\ signalled' = signalled \cup {j \in processes : process[j] = "alive"}
    /\ main' = "drain"
    /\ UNCHANGED <<options, build, submitted, pool, processes, report, interrupts, lost>>

\* Slip: shutdown does not wait for the threads.
NoWait == TRUE

\* Slip: a cancelled job is waited for.
WaitsForCancelled == \A j \in Job : task[j] \in {"none"} \cup Returned

PoolIsIdle == \A j \in Job : task[j] \in {"none", "cancelled"} \cup Returned

\* shutdown(wait=True), then the summary.
Drain ==
    /\ main = "drain"
    /\ PoolIsIdle
    /\ main' = "exited"
    /\ exitCode' = Summary(failures)
    /\ UNCHANGED <<options, build, submitted, pool, processes, signalled, passed, failures, interrupts, lost>>

\* An exception that nothing catches: the interpreter joins the threads of the
\* pool, which empty the queue first.
Crash ==
    /\ main = "crash"
    /\ PoolIsIdle
    /\ main' = "exited"
    /\ exitCode' = CrashCode
    /\ UNCHANGED <<options, build, submitted, pool, processes, signalled, passed, failures, interrupts, lost>>

Main ==
    \/ AcquireLock
    \/ NextJob \/ ForkJob \/ ForkFails \/ AssignProcess \/ JobEnded \/ AllJobsRun
    \/ InterruptedJobEnded
    \/ Build \/ Submit \/ StartCollecting
    \/ CollectedAll \/ CancelQueue \/ SignalProcesses \/ Drain \/ Crash
    \/ \E j \in Job : Collect(j) \/ CollectRaises(j)

Thread(j) ==
    /\ main # "exited"
    /\ Take(j) \/ Popen(j) \/ PopenFails(j) \/ Register(j) \/ Return(j)

Over == main = "exited" /\ UNCHANGED vars

Next == Main \/ Interrupt \/ (\E j \in Job : Thread(j) \/ ProcessEnds(j)) \/ Over

Spec == Init /\ [][Next]_vars

\* Threads are scheduled.  A unit.py ends as long as no signal hits a Popen or
\* the cleanup of it (UnitRunner: RunEnds); one that was signalled owes nothing.
FairSpec ==
    /\ Spec
    /\ WF_vars(Main)
    /\ \A j \in Job : WF_vars(Thread(j)) /\ WF_vars(j \notin signalled /\ ProcessEnds(j))

-----------------------------------------------------------------------------
\* The children do not take the lock themselves (LOCK_HELD_ENV), so unit-all.py
\* must not give it up, by exiting, while one of them is alive.  The pool keeps
\* that promise wherever a first interrupt comes; an interrupt of the join at the
\* interpreter's end breaks it, after another one or after a Popen that failed.
\* The serial loop leaves behind the process whose Popen was interrupted, and,
\* at a second interrupt, the one that its handler was waiting for.
NoJobOutlivesLock ==
    main = "exited" => \A j \in Job : process[j] = "alive" =>
        \/ workers = 1 /\ j \in lost
        \/ /\ workers > 1 /\ interrupts > 0
           /\ interrupts > 1 \/ \E i \in Job : task[i] = "raised"

\* A job is reported once, in agreement with the status of its process; a run
\* that was not interrupted reports all of them, and its own status is 0 only
\* if every job passed.
ReportIsExact ==
    /\ passed \cap failures = {}
    /\ \A j \in passed : process[j] = "reaped" /\ code[j] = 0
    /\ main = "exited" /\ exitCode = 0 => passed = Job
    /\ main = "exited" /\ exitCode = 1 =>
          \/ Collected = Job /\ failures # {}
          \/ \E j \in Job : task[j] = "raised"

\* The serial loop asks for a build once and goes on whatever has come of it.
\* A test that passed on an emulator that was to be built and is not must at
\* least share its report with the failure of the job that was to build it.
BuildFailureIsReported ==
    ~noBuild /\ ~built /\ passed # {} => builder \cap failures # {}

\* Once the queue has been cancelled no waiting job is started.
InterruptStopsQueue ==
    [][interrupts > 0 /\ main \in {"signal", "drain"} => \A j \in Job : ~Take(j)]_vars

\* A run ends however the jobs end and whatever part of the queue was cancelled;
\* one that does not is waiting for a unit.py that a signal has hit.
AllJobsEnd ==
    <>[]\/ main = "exited"
        \/ /\ main \in {"interrupted", "drain", "crash"}
           /\ \E j \in signalled : process[j] = "alive"

=============================================================================
