----------------------------- MODULE UnitRunner -----------------------------
(***************************************************************************)
(* One run of tools/unit.py: the main thread starts the emulator (which    *)
(* starts QEMU) and the test (boot.py), a thread reads what the test       *)
(* prints, and the main thread polls both until the test ends, the         *)
(* emulator dies or the time is up, then stops what still runs and gives   *)
(* its verdict.  SIGINT and SIGTERM raise an exception at any point of the *)
(* main thread.  The emulator and the test are sessions of their own, so   *)
(* that only the runner's killpg reaches them.                             *)
(***************************************************************************)
EXTENDS Naturals, Sequences, SequencesExt

CONSTANTS
    LineLimit,      \* bound: lines the test prints
    SignalLimit     \* bound: signals the runner receives

ASSUME RunnerAssumption == {LineLimit, SignalLimit} \subseteq Nat

Child == {"test", "emulator"}

\* Complete lines of the test's output that the runner tells apart: "not ok ",
\* "# result: PASS (0 failed)" and any other "# result: ".
Line == {"notOk", "pass", "fail"}

VARIABLES
    pc,         \* control point of the main thread
    target,     \* the child that stop() is called for
    known,      \* children assigned to the variables "emulator" and "test"
    leader,     \* the children: a terminated one is a zombie until it is reaped
    testCode,   \* exit status of the test
    qemu,       \* QEMU, in the emulator's process group
    late,       \* the deadline of wait_for_test has passed
    printed,    \* lines the test has written to its pipe
    reader,     \* the thread in forward_test_output
    taken,      \* lines the reader has taken from the pipe
    result,     \* result["failed"] and result["passed"]
    status,     \* what wait_for_test returned
    raised,     \* exit code of the exception in flight, 0 for none
    exitCode,   \* exit status of the runner
    signals,    \* bound: signals received so far
    cut         \* ghost: a signal hit a Popen or the cleanup

procs == <<known, leader, testCode, qemu>>
output == <<printed, reader, taken, result>>
verdict == <<status, raised, exitCode>>
ghosts == <<signals, cut>>
vars == <<pc, target, procs, late, output, verdict, ghosts>>

TryBody == {"popenEmulator", "emulatorForked", "popenTest", "testForked", "startReader",
            "pollTest", "pollEmulator", "pollClock"}
Cleanup == {"stop", "term", "wait", "kill", "join"}

TypeOK ==
    /\ pc \in {"lock", "build", "verdict", "shutdown", "exited"} \cup TryBody \cup Cleanup
    /\ target \in Child
    /\ known \subseteq Child
    /\ leader \in [Child -> {"none", "running", "told", "zombie", "reaped"}]
    /\ testCode \in {0, 1}
    /\ qemu \in {"none", "running", "told", "gone"}
    /\ late \in BOOLEAN
    /\ printed \in Seq(Line) /\ Len(printed) <= LineLimit
    /\ reader \in {"none", "reading", "done"}
    /\ taken \in 0 .. Len(printed)
    /\ result \in [failed : BOOLEAN, passed : BOOLEAN]
    /\ status \in {0, 1, 124}
    /\ raised \in {0, 1, 130}
    /\ exitCode \in {0, 1, 2, 124, 130}
    /\ signals \in 0 .. SignalLimit
    /\ cut \in BOOLEAN

Init ==
    /\ pc = "lock"
    /\ target = "test"
    /\ known = {}
    /\ leader = [c \in Child |-> "none"]
    /\ testCode = 0
    /\ qemu = "none"
    /\ late = FALSE
    /\ printed = << >>
    /\ reader = "none"
    /\ taken = 0
    /\ result = [failed |-> FALSE, passed |-> FALSE]
    /\ status = 0
    /\ raised = 0
    /\ exitCode = 0
    /\ signals = 0
    /\ cut = FALSE

Alive(c) == leader[c] \in {"running", "told"}

-----------------------------------------------------------------------------
\* Each of these steps either gives up with exit status 2 or goes on.
ExitWith(code) == pc' = "exited" /\ exitCode' = code

AcquireLock ==
    /\ pc = "lock"
    /\ \/ pc' = "build" /\ UNCHANGED exitCode
       \/ ExitWith(2)
    /\ UNCHANGED <<target, procs, late, output, status, raised, ghosts>>

Build ==
    /\ pc = "build"
    /\ \/ pc' = "popenEmulator" /\ UNCHANGED exitCode
       \/ ExitWith(2)
    /\ UNCHANGED <<target, procs, late, output, status, raised, ghosts>>

\* Popen: the child exists before Popen returns to the assignment.
Fork(c) ==
    /\ leader' = [leader EXCEPT ![c] = "running"]
    /\ qemu' = IF c = "emulator" THEN "running" ELSE qemu
    /\ UNCHANGED <<target, known, testCode, late, output, verdict, ghosts>>

ForkEmulator == pc = "popenEmulator" /\ pc' = "emulatorForked" /\ Fork("emulator")
ForkTest     == pc = "popenTest"     /\ pc' = "testForked"     /\ Fork("test")

Assign(c) ==
    /\ known' = known \cup {c}
    /\ UNCHANGED <<target, leader, testCode, qemu, late, output, verdict, ghosts>>

AssignEmulator == pc = "emulatorForked" /\ pc' = "popenTest"   /\ Assign("emulator")
AssignTest     == pc = "testForked"     /\ pc' = "startReader" /\ Assign("test")

\* Slip: the handler's exit code gets the offset of the signals once more.
RaiseOffset(code) ==
    /\ raised' = 128 + code
    /\ pc' = "stop"
    /\ target' = "test"

\* An exception in the try block: the "finally" part begins with stop(test).
Raise(code) ==
    /\ raised' = code
    /\ pc' = "stop"
    /\ target' = "test"

PopenFails ==
    /\ pc \in {"popenEmulator", "popenTest"}
    /\ Raise(1)
    /\ UNCHANGED <<procs, late, output, status, exitCode, ghosts>>

StartReader ==
    /\ pc = "startReader"
    /\ reader' = "reading"
    /\ pc' = "pollTest"
    /\ UNCHANGED <<target, procs, late, printed, taken, result, verdict, ghosts>>

-----------------------------------------------------------------------------
\* wait_for_test: one poll of the test, of the emulator and of the clock.
Reap(c) == leader' = [leader EXCEPT ![c] = "reaped"]

WaitIsOver(code) ==
    /\ status' = code
    /\ pc' = "stop"
    /\ target' = "test"

PollTest ==
    /\ pc = "pollTest"
    /\ IF leader["test"] = "zombie"
       THEN Reap("test") /\ WaitIsOver(testCode)
       ELSE pc' = "pollEmulator" /\ UNCHANGED <<leader, status, target>>
    /\ UNCHANGED <<known, testCode, qemu, late, output, raised, exitCode, ghosts>>

PollEmulator ==
    /\ pc = "pollEmulator"
    /\ IF leader["emulator"] = "zombie"
       THEN Reap("emulator") /\ WaitIsOver(1)
       ELSE pc' = "pollClock" /\ UNCHANGED <<leader, status, target>>
    /\ UNCHANGED <<known, testCode, qemu, late, output, raised, exitCode, ghosts>>

\* Slip: the time that is left is never looked at.
NoDeadline ==
    /\ pc = "pollClock"
    /\ pc' = "pollTest"
    /\ UNCHANGED <<status, target, procs, late, output, raised, exitCode, ghosts>>

PollClock ==
    /\ pc = "pollClock"
    /\ IF late
       THEN WaitIsOver(124)
       ELSE pc' = "pollTest" /\ UNCHANGED <<status, target>>
    /\ UNCHANGED <<procs, late, output, raised, exitCode, ghosts>>

-----------------------------------------------------------------------------
\* Slip: only the test is stopped.
EmulatorForgotten == pc' = "join" /\ UNCHANGED target

\* The "finally" part: stop(test), stop(emulator), output_thread.join().
NextCleanup ==
    IF target = "test"
    THEN pc' = "stop" /\ target' = "emulator"
    ELSE pc' = "join" /\ UNCHANGED target

\* Slip: a child that has already been reaped is signalled all the same.
StopsReaped(c) == c \in known

\* stop() returns at once for None and for a child that poll() finds ended.
NeedsStop(c) == c \in known /\ leader[c] \notin {"zombie", "reaped"}

Stop ==
    /\ pc = "stop"
    /\ IF NeedsStop(target)
       THEN pc' = "term" /\ UNCHANGED <<leader, target>>
       ELSE /\ NextCleanup
            /\ leader' = [leader EXCEPT ![target] = IF @ = "zombie" /\ target \in known THEN "reaped" ELSE @]
    /\ UNCHANGED <<known, testCode, qemu, late, output, verdict, ghosts>>

\* killpg(SIGTERM) succeeds on a zombie as well.
Term ==
    /\ pc = "term"
    /\ leader' = [leader EXCEPT ![target] = IF Alive(target) THEN "told" ELSE @]
    /\ qemu' = IF target = "emulator" /\ qemu = "running" THEN "told" ELSE qemu
    /\ pc' = "wait"
    /\ UNCHANGED <<target, known, testCode, late, output, verdict, ghosts>>

WaitEnds ==
    /\ pc = "wait"
    /\ leader[target] \in {"zombie", "reaped"}
    /\ Reap(target)
    /\ NextCleanup
    /\ UNCHANGED <<known, testCode, qemu, late, output, verdict, ghosts>>

\* Five seconds are over and the child has not ended.
WaitTimesOut ==
    /\ pc = "wait"
    /\ Alive(target)
    /\ pc' = "kill"
    /\ UNCHANGED <<target, procs, late, output, verdict, ghosts>>

\* killpg(SIGKILL) and wait().
KillGroup ==
    /\ pc = "kill"
    /\ Reap(target)
    /\ qemu' = IF target = "emulator" THEN "gone" ELSE qemu
    /\ NextCleanup
    /\ UNCHANGED <<known, testCode, late, output, verdict, ghosts>>

\* Slip: the verdict does not wait for the reader.
NoJoin == TRUE

ReaderJoined == reader # "reading"

Join ==
    /\ pc = "join"
    /\ ReaderJoined
    /\ IF raised = 0
       THEN pc' = "verdict" /\ UNCHANGED exitCode
       ELSE ExitWith(raised)
    /\ UNCHANGED <<target, procs, late, output, status, raised, ghosts>>

TestPassed == status = 0 /\ result.passed /\ ~result.failed

GiveVerdict ==
    /\ pc = "verdict"
    /\ ExitWith(IF status # 0 THEN status ELSE IF TestPassed THEN 0 ELSE 1)
    /\ UNCHANGED <<target, procs, late, output, status, raised, ghosts>>

-----------------------------------------------------------------------------
\* A signal handler raises in the main thread.
InterruptStart ==
    /\ pc \in {"lock", "build", "verdict"}
    /\ ExitWith(130)
    /\ UNCHANGED <<target, raised, cut>>

\* A child forked but not yet assigned is lost to the cleanup.
InterruptTry ==
    /\ pc \in TryBody
    /\ Raise(130)
    /\ cut' = (cut \/ pc \in {"emulatorForked", "testForked"})
    /\ UNCHANGED exitCode

\* The rest of the cleanup is skipped; the interpreter still waits for the
\* reader, which is not a daemon thread, before it exits.
InterruptCleanup ==
    /\ pc \in Cleanup
    /\ pc' = "shutdown"
    /\ raised' = 130
    /\ cut' = TRUE
    /\ UNCHANGED <<target, exitCode>>

Interrupt ==
    /\ signals < SignalLimit
    /\ signals' = signals + 1
    /\ InterruptStart \/ InterruptTry \/ InterruptCleanup
    /\ UNCHANGED <<procs, late, output, status>>

Shutdown ==
    /\ pc = "shutdown"
    /\ reader # "reading"
    /\ ExitWith(raised)
    /\ UNCHANGED <<target, procs, late, output, status, raised, ghosts>>

-----------------------------------------------------------------------------
\* forward_test_output, for one complete line.
AfterLine(line) ==
    CASE line = "notOk" -> [result EXCEPT !.failed = TRUE]
      [] line = "pass"  -> [result EXCEPT !.passed = TRUE]
      [] line = "fail"  -> [result EXCEPT !.passed = FALSE]

\* The reader takes the lines one after the other, and ends at end of file.
ReadLine ==
    /\ reader = "reading"
    /\ taken < Len(printed)
    /\ taken' = taken + 1
    /\ result' = AfterLine(printed[taken + 1])
    /\ UNCHANGED <<pc, target, procs, late, printed, reader, verdict, ghosts>>

EndOfOutput ==
    /\ reader = "reading"
    /\ taken = Len(printed)
    /\ ~Alive("test")
    /\ reader' = "done"
    /\ UNCHANGED <<pc, target, procs, late, printed, taken, result, verdict, ghosts>>

-----------------------------------------------------------------------------
\* The children and the clock.
TestPrints ==
    /\ Alive("test")
    /\ Len(printed) < LineLimit
    /\ \E line \in Line : printed' = Append(printed, line)
    /\ UNCHANGED <<pc, target, procs, late, reader, taken, result, verdict, ghosts>>

TestEnds ==
    /\ Alive("test")
    /\ leader' = [leader EXCEPT !["test"] = "zombie"]
    /\ testCode' \in {0, 1}
    /\ UNCHANGED <<pc, target, known, qemu, late, output, verdict, ghosts>>

\* The launcher outlives its QEMU unless SIGTERM ends it first.
EmulatorEnds ==
    /\ Alive("emulator")
    /\ leader["emulator"] = "told" \/ qemu = "gone"
    /\ leader' = [leader EXCEPT !["emulator"] = "zombie"]
    /\ UNCHANGED <<pc, target, known, testCode, qemu, late, output, verdict, ghosts>>

QemuEnds ==
    /\ qemu \in {"running", "told"}
    /\ qemu' = "gone"
    /\ UNCHANGED <<pc, target, known, leader, testCode, late, output, verdict, ghosts>>

DeadlinePasses ==
    /\ pc \in {"pollTest", "pollEmulator", "pollClock"}
    /\ ~late
    /\ late' = TRUE
    /\ UNCHANGED <<pc, target, procs, output, verdict, ghosts>>

Main ==
    \/ AcquireLock \/ Build
    \/ ForkEmulator \/ AssignEmulator \/ ForkTest \/ AssignTest \/ PopenFails \/ StartReader
    \/ PollTest \/ PollEmulator \/ PollClock
    \/ Stop \/ Term \/ WaitEnds \/ WaitTimesOut \/ KillGroup \/ Join \/ GiveVerdict \/ Shutdown

Reader == ReadLine \/ EndOfOutput

Children == TestPrints \/ TestEnds \/ EmulatorEnds \/ QemuEnds

\* The run is over; what it left behind may go on.
Over == pc = "exited" /\ UNCHANGED vars

Next == Main \/ Interrupt \/ Reader \/ Children \/ DeadlinePasses \/ Over

Spec == Init /\ [][Next]_vars

\* The runner's threads are scheduled and time passes; the children and the
\* signals are under no obligation.
FairSpec == Spec /\ WF_vars(Main) /\ WF_vars(Reader) /\ WF_vars(DeadlinePasses)

-----------------------------------------------------------------------------
\* Exit status 0 means what the test said: it ended with status 0, all of its
\* lines were read, none of them failed a check and its last result is PASS.
PassIsReal ==
    pc = "exited" /\ exitCode = 0 =>
        /\ testCode = 0
        /\ "notOk" \notin ToSet(printed)
        /\ printed # << >> /\ Last(printed) = "pass"

\* However the run ends, the children have been reaped and QEMU has at least
\* been told to stop, unless a signal hit a Popen or the cleanup itself.
NobodyLeftBehind ==
    pc = "exited" /\ ~cut =>
        /\ \A c \in Child : leader[c] \in {"none", "reaped"}
        /\ qemu # "running"

\* killpg is never called for a child that has been reaped: by then its
\* process group id may belong to somebody else.
NeverSignalsReaped ==
    [][Term \/ KillGroup => leader[target] # "reaped"]_vars

\* A run ends even if test and emulator hang and ignore SIGTERM, unless a
\* signal hit a Popen or the cleanup.
RunEnds == <>(pc = "exited" \/ cut)

=============================================================================
