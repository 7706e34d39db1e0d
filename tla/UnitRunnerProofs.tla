-------------------------- MODULE UnitRunnerProofs --------------------------
(***************************************************************************)
(* Proofs about UnitRunner for any number of lines and signals: exit       *)
(* status 0 is earned, the children are reaped, and no reaped child is     *)
(* signalled.  The invariant follows the main thread through the try body, *)
(* the cleanup and the verdict, and the reader through the lines.          *)
(***************************************************************************)
EXTENDS UnitRunner, TLAPS

Polls == {"pollTest", "pollEmulator", "pollClock"}

Stopping == {"stop", "term", "wait", "kill"}

\* How far the try body has started the children.
ChildrenStarted ==
    /\ pc \in {"lock", "build", "popenEmulator"} => known = {} /\ leader["emulator"] = "none"
    /\ pc \in {"lock", "build", "popenEmulator", "emulatorForked", "popenTest"} => leader["test"] = "none"
    /\ pc = "emulatorForked" => known = {} /\ leader["emulator"] # "none"
    /\ pc = "testForked" => leader["test"] # "none"
    /\ pc \in {"popenTest", "testForked"} => known = {"emulator"}
    /\ pc \in {"startReader"} \cup Polls => known = Child
    /\ \A c \in known : leader[c] # "none"
    /\ ~cut /\ pc \notin {"emulatorForked", "testForked"} => \A c \in Child \ known : leader[c] = "none"

\* A child that has been assigned has been reaped.
Settled(c) == c \in known => leader[c] = "reaped"

\* How far the cleanup has stopped them.
ChildrenStopped ==
    /\ pc \in {"term", "wait", "kill"} => target \in known /\ leader[target] # "reaped"
    /\ pc \in Stopping /\ target = "emulator" => Settled("test")
    /\ pc \in {"join", "verdict"} => Settled("test") /\ Settled("emulator")
    /\ pc = "shutdown" => cut

\* QEMU runs only under an emulator that has not been told to stop.
QemuFollows ==
    /\ leader["emulator"] = "none" => qemu = "none"
    /\ leader["emulator"] \in {"told", "zombie", "reaped"} => qemu # "running"

ProcessInv == ChildrenStarted /\ ChildrenStopped /\ QemuFollows /\ NobodyLeftBehind

\* The flags are those of the lines that have been taken.
LinesTaken ==
    /\ result.failed <=> \E i \in 1 .. taken : printed[i] = "notOk"
    /\ result.passed =>
          \E i \in 1 .. taken : printed[i] = "pass" /\ \A k \in i + 1 .. taken : printed[k] = "notOk"

\* The reader starts after the test, and ends when there is nothing left to read.
ReaderControl ==
    /\ pc \in {"lock", "build", "popenEmulator", "emulatorForked", "popenTest", "testForked", "startReader"} =>
          reader = "none"
    /\ pc \in Polls => reader # "none"
    /\ reader = "done" => taken = Len(printed) /\ ~Alive("test")

\* Without an exception, status 0 is that of a test that has been reaped.
VerdictControl ==
    /\ pc \in Cleanup \cup {"verdict"} /\ raised = 0 =>
          reader # "none" /\ (status = 0 => leader["test"] = "reaped" /\ testCode = 0)
    /\ pc = "verdict" => raised = 0 /\ reader = "done"
    /\ pc = "shutdown" => raised # 0

\* An exit with 0 leaves a test that can change nothing any more.
ExitControl ==
    pc = "exited" /\ exitCode = 0 =>
        /\ reader = "done" /\ leader["test"] = "reaped" /\ testCode = 0
        /\ result.passed /\ ~result.failed

OutputInv == LinesTaken /\ ReaderControl /\ VerdictControl /\ ExitControl

IInv == TypeOK /\ ProcessInv /\ OutputInv

-----------------------------------------------------------------------------
\* Every action keeps the types; the output is a sequence of lines.
LEMMA TypeStep ==
    ASSUME TypeOK, [Next]_vars
    PROVE  TypeOK'
<1> USE DEF TryBody, Cleanup, procs, output, verdict, ghosts, ExitWith, Alive
<1>1. CASE TestPrints
  <2>1. PICK line \in Line : printed' = Append(printed, line)
    BY <1>1 DEF TestPrints
  <2>2. printed' \in Seq(Line) /\ Len(printed') = Len(printed) + 1 /\ Len(printed) \in Nat
    BY <2>1 DEF TypeOK
  <2>3. Len(printed') <= LineLimit /\ taken \in 0 .. Len(printed')
    BY <1>1, <2>2, RunnerAssumption DEF TestPrints, TypeOK
  <2> QED BY <1>1, <2>2, <2>3 DEF TestPrints, TypeOK
<1>2. CASE ReadLine
  <2>1. taken' \in 0 .. Len(printed') /\ result' \in [failed : BOOLEAN, passed : BOOLEAN]
    <3>1. taken + 1 \in 1 .. Len(printed) /\ printed[taken + 1] \in Line
      BY <1>2 DEF ReadLine, TypeOK
    <3>2. AfterLine(printed[taken + 1]) \in [failed : BOOLEAN, passed : BOOLEAN]
      BY <3>1 DEF AfterLine, TypeOK, Line
    <3> QED BY <1>2, <3>1, <3>2 DEF ReadLine, TypeOK
  <2> QED BY <1>2, <2>1 DEF ReadLine, TypeOK
<1>3. CASE EndOfOutput
  BY <1>3 DEF EndOfOutput, TypeOK
<1>4. CASE TestEnds
  BY <1>4 DEF TestEnds, Child, TypeOK
<1>5. CASE EmulatorEnds
  BY <1>5 DEF EmulatorEnds, Child, TypeOK
<1>6. CASE QemuEnds
  BY <1>6 DEF QemuEnds, TypeOK
<1>7. CASE DeadlinePasses
  BY <1>7 DEF DeadlinePasses, TypeOK
<1>8. CASE UNCHANGED vars
  BY <1>8 DEF vars, TypeOK
<1>9. CASE AcquireLock
  BY <1>9 DEF AcquireLock, TypeOK
<1>10. CASE Build
  BY <1>10 DEF Build, TypeOK
<1>11. CASE PopenFails
  BY <1>11 DEF PopenFails, Raise, Child, TypeOK
<1>12. CASE StartReader
  BY <1>12 DEF StartReader, TypeOK
<1>13. CASE Join
  BY <1>13 DEF Join, TypeOK
<1>14. CASE GiveVerdict
  BY <1>14 DEF GiveVerdict, TypeOK
<1>15. CASE Shutdown
  BY <1>15 DEF Shutdown, TypeOK
<1>16. CASE ForkEmulator
  BY <1>16 DEF ForkEmulator, Fork, Child, TypeOK
<1>17. CASE ForkTest
  BY <1>17 DEF ForkTest, Fork, Child, TypeOK
<1>18. CASE AssignEmulator
  BY <1>18 DEF AssignEmulator, Assign, Child, TypeOK
<1>19. CASE AssignTest
  BY <1>19 DEF AssignTest, Assign, Child, TypeOK
<1>20. CASE PollTest
  BY <1>20 DEF PollTest, Reap, WaitIsOver, Child, TypeOK
<1>21. CASE PollEmulator
  BY <1>21 DEF PollEmulator, Reap, WaitIsOver, Child, TypeOK
<1>22. CASE PollClock
  BY <1>22 DEF PollClock, WaitIsOver, Child, TypeOK
<1>23. CASE Stop
  BY <1>23 DEF Stop, NextCleanup, Child, TypeOK
<1>24. CASE Term
  BY <1>24 DEF Term, Child, TypeOK
<1>25. CASE WaitEnds
  BY <1>25 DEF WaitEnds, Reap, NextCleanup, Child, TypeOK
<1>26. CASE WaitTimesOut
  BY <1>26 DEF WaitTimesOut, TypeOK
<1>27. CASE KillGroup
  BY <1>27 DEF KillGroup, Reap, NextCleanup, Child, TypeOK
<1>28. CASE Interrupt
  <2>1. signals' \in 0 .. SignalLimit /\ UNCHANGED <<procs, late, output, status>>
    BY <1>28, RunnerAssumption DEF Interrupt, TypeOK
  <2>2. CASE InterruptStart
    BY <2>1, <2>2 DEF InterruptStart, TypeOK
  <2>3. CASE InterruptTry
    BY <2>1, <2>3 DEF InterruptTry, Raise, TypeOK, Child
  <2>4. CASE InterruptCleanup
    BY <2>1, <2>4 DEF InterruptCleanup, TypeOK
  <2> QED BY <1>28, <2>2, <2>3, <2>4 DEF Interrupt
<1> QED
  BY <1>1, <1>2, <1>3, <1>4, <1>5, <1>6, <1>7, <1>8, <1>9, <1>10, <1>11, <1>12, <1>13, <1>14, <1>15, <1>16, <1>17, <1>18, <1>19, <1>20, <1>21, <1>22, <1>23, <1>24, <1>25, <1>26, <1>27, <1>28
  DEF Next, Main, Reader, Children, Over

-----------------------------------------------------------------------------
\* The children, one action at a time.
LEMMA ProcessStep ==
    ASSUME TypeOK, ProcessInv, [Next]_vars
    PROVE  ProcessInv'
<1> USE DEF TryBody, Cleanup, Polls, Stopping, procs, output, verdict, ghosts, ExitWith, Alive, Settled,
    TypeOK, ProcessInv, ChildrenStarted, ChildrenStopped, QemuFollows, NobodyLeftBehind, Child
<1>1. CASE TestPrints \/ ReadLine \/ EndOfOutput \/ DeadlinePasses \/ UNCHANGED vars
  <2>1. UNCHANGED <<pc, target, known, leader, qemu, cut>>
    BY <1>1 DEF TestPrints, ReadLine, EndOfOutput, DeadlinePasses, vars
  <2> QED BY <2>1
<1>2. CASE TestEnds
  BY <1>2 DEF TestEnds
<1>3. CASE EmulatorEnds
  BY <1>3 DEF EmulatorEnds
<1>4. CASE QemuEnds
  BY <1>4 DEF QemuEnds
<1>5. CASE AcquireLock \/ Build
  BY <1>5 DEF AcquireLock, Build
<1>6. CASE PopenFails \/ StartReader
  <2>1. CASE PopenFails
    BY <2>1 DEF PopenFails, Raise
  <2>2. CASE StartReader
    BY <2>2 DEF StartReader
  <2> QED BY <1>6, <2>1, <2>2
<1>7. CASE ForkEmulator
  BY <1>7 DEF ForkEmulator, Fork
<1>8. CASE ForkTest
  BY <1>8 DEF ForkTest, Fork
<1>9. CASE AssignEmulator
  <2>1. known' = {"emulator"}
    BY <1>9 DEF AssignEmulator, Assign
  <2> QED BY <1>9, <2>1 DEF AssignEmulator, Assign
<1>10. CASE AssignTest
  BY <1>10 DEF AssignTest, Assign
<1>11. CASE PollTest
  BY <1>11 DEF PollTest, Reap, WaitIsOver
<1>12. CASE PollEmulator
  BY <1>12 DEF PollEmulator, Reap, WaitIsOver
<1>13. CASE PollClock
  BY <1>13 DEF PollClock, WaitIsOver
<1>14. CASE Stop
  BY <1>14 DEF Stop, NeedsStop, NextCleanup
<1>15. CASE Term
  BY <1>15 DEF Term
<1>16. CASE WaitEnds
  BY <1>16 DEF WaitEnds, Reap, NextCleanup
<1>17. CASE WaitTimesOut
  BY <1>17 DEF WaitTimesOut
<1>18. CASE KillGroup
  BY <1>18 DEF KillGroup, Reap, NextCleanup
<1>19. CASE Join
  BY <1>19 DEF Join
<1>20. CASE GiveVerdict \/ Shutdown
  <2>1. CASE GiveVerdict
    BY <2>1 DEF GiveVerdict
  <2>2. CASE Shutdown
    BY <2>2 DEF Shutdown
  <2> QED BY <1>20, <2>1, <2>2
<1>21. CASE Interrupt
  <2>1. UNCHANGED <<known, leader, qemu>>
    BY <1>21 DEF Interrupt
  <2>2. CASE InterruptStart
    BY <2>1, <2>2 DEF InterruptStart
  <2>3. CASE InterruptTry
    <3>1. /\ pc' = "stop" /\ target' = "test"
          /\ cut' => cut \/ pc \in {"emulatorForked", "testForked"}
          /\ ~cut' => ~cut /\ pc \notin {"emulatorForked", "testForked"}
      BY <2>3 DEF InterruptTry, Raise
    <3> QED BY <2>1, <3>1
  <2>4. CASE InterruptCleanup
    BY <2>1, <2>4 DEF InterruptCleanup
  <2> QED BY <1>21, <2>2, <2>3, <2>4 DEF Interrupt
<1> QED
  BY <1>1, <1>2, <1>3, <1>4, <1>5, <1>6, <1>7, <1>8, <1>9, <1>10, <1>11, <1>12, <1>13, <1>14,
     <1>15, <1>16, <1>17, <1>18, <1>19, <1>20, <1>21 DEF Next, Main, Reader, Children, Over

-----------------------------------------------------------------------------
\* Taking a line brings the flags up to it.
LEMMA LineStep ==
    ASSUME TypeOK, LinesTaken, ReadLine
    PROVE  LinesTaken'
<1> DEFINE line == printed[taken + 1]
<1>1. /\ taken \in Nat /\ taken' = taken + 1 /\ printed' = printed
      /\ line \in Line /\ result' = AfterLine(line)
      /\ result \in [failed : BOOLEAN, passed : BOOLEAN]
  BY DEF ReadLine, TypeOK
<1> HIDE DEF line
<1>2. \A i \in 1 .. taken + 1 : i = taken + 1 \/ i \in 1 .. taken
  BY <1>1
<1>3. 1 .. taken \subseteq 1 .. taken + 1 /\ taken + 1 \in 1 .. taken + 1
  BY <1>1
<1>4. CASE line = "notOk"
  <2>1. result' = [result EXCEPT !.failed = TRUE]
    BY <1>1, <1>4 DEF AfterLine
  <2>2. printed[taken + 1] = "notOk"
    BY <1>4 DEF line
  <2>3. result'.failed <=> \E i \in 1 .. taken' : printed'[i] = "notOk"
    BY <1>1, <1>3, <2>1, <2>2
  <2>4. ASSUME result'.passed
        PROVE  \E i \in 1 .. taken' : printed'[i] = "pass" /\ \A k \in i + 1 .. taken' : printed'[k] = "notOk"
    <3>1. PICK i \in 1 .. taken : printed[i] = "pass" /\ \A k \in i + 1 .. taken : printed[k] = "notOk"
      BY <1>1, <2>1, <2>4 DEF LinesTaken
    <3>2. \A k \in i + 1 .. taken + 1 : k = taken + 1 \/ k \in i + 1 .. taken
      BY <1>1
    <3>3. \A k \in i + 1 .. taken + 1 : printed[k] = "notOk"
      BY <3>1, <3>2, <2>2
    <3> QED BY <1>1, <1>3, <3>1, <3>3
  <2> QED BY <2>3, <2>4 DEF LinesTaken
<1>5. CASE line # "notOk"
  <2>1. result'.failed = result.failed /\ (result'.passed => line = "pass")
    BY <1>1, <1>5 DEF AfterLine, Line
  <2>2. printed[taken + 1] # "notOk"
    BY <1>5 DEF line
  <2>3. result'.failed <=> \E i \in 1 .. taken' : printed'[i] = "notOk"
    BY <1>1, <1>2, <1>3, <2>1, <2>2 DEF LinesTaken
  <2>4. ASSUME result'.passed
        PROVE  \E i \in 1 .. taken' : printed'[i] = "pass" /\ \A k \in i + 1 .. taken' : printed'[k] = "notOk"
    <3>1. printed[taken + 1] = "pass"
      BY <2>1, <2>4 DEF line
    <3>2. taken + 1 + 1 .. taken + 1 = {}
      BY <1>1
    <3> QED BY <1>1, <1>3, <3>1, <3>2
  <2> QED BY <2>3, <2>4 DEF LinesTaken
<1> QED BY <1>4, <1>5

\* A line that is printed is not taken yet.
LEMMA PrintStep ==
    ASSUME TypeOK, LinesTaken, TestPrints
    PROVE  LinesTaken'
<1>1. PICK line \in Line : printed' = Append(printed, line)
  BY DEF TestPrints
<1>2. UNCHANGED <<taken, result>> /\ taken \in 0 .. Len(printed) /\ printed \in Seq(Line)
  BY DEF TestPrints, TypeOK
<1>3. \A i \in 1 .. Len(printed) : printed'[i] = printed[i]
  BY <1>1, <1>2
<1>4. \A i \in 1 .. taken : printed'[i] = printed[i] /\ \A k \in i + 1 .. taken : printed'[k] = printed[k]
  BY <1>2, <1>3
<1> QED BY <1>2, <1>4 DEF LinesTaken

\* The reader and the verdict, one action at a time.
LEMMA OutputStep ==
    ASSUME IInv, [Next]_vars
    PROVE  OutputInv'
<1>0. /\ TypeOK /\ LinesTaken /\ ReaderControl /\ VerdictControl /\ ExitControl
      /\ ChildrenStarted /\ ChildrenStopped
  BY DEF IInv, ProcessInv, OutputInv
<1>1. CASE ReadLine
  <2>1. LinesTaken'
    BY <1>0, <1>1, LineStep
  <2> QED
    BY <1>0, <1>1, <2>1 DEF ReadLine, procs, verdict, ghosts, OutputInv, ReaderControl, VerdictControl,
       ExitControl, Alive
<1>2. CASE TestPrints
  <2>1. LinesTaken'
    BY <1>0, <1>2, PrintStep
  <2>2. reader # "done" /\ Alive("test")
    BY <1>0, <1>2 DEF TestPrints, ReaderControl
  <2> QED
    BY <1>0, <1>2, <2>1, <2>2 DEF TestPrints, procs, verdict, ghosts, OutputInv, ReaderControl, VerdictControl,
       ExitControl, Alive
<1>3. CASE UNCHANGED <<printed, taken, result>>
  <2>1. LinesTaken'
    BY <1>0, <1>3 DEF LinesTaken
  <2> USE <1>0, <1>3, <2>1 DEF TypeOK, procs, output, verdict, ghosts, OutputInv, ReaderControl, VerdictControl,
       ExitControl, Alive, TryBody, Cleanup, Polls, ExitWith, Child
  <2>2. CASE EndOfOutput \/ TestEnds \/ EmulatorEnds \/ QemuEnds \/ DeadlinePasses \/ UNCHANGED vars
    BY <2>2 DEF EndOfOutput, TestEnds, EmulatorEnds, QemuEnds, DeadlinePasses, vars
  <2>3. CASE AcquireLock \/ Build \/ PopenFails \/ StartReader
    BY <2>3 DEF AcquireLock, Build, PopenFails, Raise, StartReader
  <2>4. CASE ForkEmulator \/ ForkTest \/ AssignEmulator \/ AssignTest
    BY <2>4 DEF ForkEmulator, ForkTest, AssignEmulator, AssignTest, Fork, Assign
  <2>5. CASE PollTest
    BY <2>5 DEF PollTest, Reap, WaitIsOver
  <2>6. CASE PollEmulator \/ PollClock
    BY <2>6 DEF PollEmulator, PollClock, Reap, WaitIsOver
  <2>7. CASE Stop \/ Term
    BY <2>7 DEF Stop, Term, NeedsStop, NextCleanup
  <2>8. CASE WaitEnds \/ WaitTimesOut \/ KillGroup
    BY <2>8 DEF WaitEnds, WaitTimesOut, KillGroup, Reap, NextCleanup
  <2>9. CASE Join
    BY <2>9 DEF Join, ReaderJoined
  <2>10. CASE GiveVerdict
    BY <2>10 DEF GiveVerdict, TestPassed
  <2>11. CASE Shutdown
    BY <2>11 DEF Shutdown
  <2>12. CASE Interrupt
    BY <2>12 DEF Interrupt, InterruptStart, InterruptTry, InterruptCleanup, Raise
  <2>13. ~ReadLine \/ UNCHANGED vars
    BY DEF ReadLine
  <2> QED
    BY <2>2, <2>3, <2>4, <2>5, <2>6, <2>7, <2>8, <2>9, <2>10, <2>11, <2>12, <1>1, <1>2
    DEF Next, Main, Reader, Children, Over
<1> QED
  BY <1>1, <1>2, <1>3 DEF Next, Main, Reader, Children, Over, AcquireLock, Build, ForkEmulator, AssignEmulator,
     ForkTest, AssignTest, Fork, Assign, PopenFails, StartReader, PollTest, PollEmulator, PollClock, Stop, Term,
     WaitEnds, WaitTimesOut, KillGroup, Join, GiveVerdict, Shutdown, Interrupt, EndOfOutput, TestEnds,
     EmulatorEnds, QemuEnds, DeadlinePasses, vars, output

-----------------------------------------------------------------------------
LEMMA IInvInit == Init => IInv
<1> SUFFICES ASSUME Init PROVE IInv
  OBVIOUS
<1>1. printed = << >> /\ Len(printed) = 0 /\ printed \in Seq(Line)
  BY DEF Init
<1>2. TypeOK
  <2>1. LineLimit \in Nat /\ SignalLimit \in Nat
    BY RunnerAssumption
  <2>2. result \in [failed : BOOLEAN, passed : BOOLEAN] /\ leader \in [Child -> {"none", "running", "told", "zombie", "reaped"}]
    BY DEF Init
  <2>3. printed \in Seq(Line) /\ Len(printed) <= LineLimit /\ taken \in 0 .. Len(printed)
    BY <1>1, <2>1 DEF Init
  <2>4. target \in Child /\ known \subseteq Child /\ signals \in 0 .. SignalLimit
    BY <2>1 DEF Init, Child
  <2> QED BY <2>2, <2>3, <2>4 DEF Init, TypeOK
<1>3. ProcessInv
  BY DEF Init, ProcessInv, ChildrenStarted, ChildrenStopped, QemuFollows, NobodyLeftBehind, Stopping, Polls, Child
<1>4. OutputInv
  <2>1. 1 .. taken = {}
    BY DEF Init
  <2>2. LinesTaken
    BY <2>1 DEF Init, LinesTaken
  <2> QED
    BY <2>2 DEF Init, OutputInv, ReaderControl, VerdictControl, ExitControl, Cleanup, Polls
<1> QED BY <1>2, <1>3, <1>4 DEF IInv

LEMMA IInvNext == IInv /\ [Next]_vars => IInv'
<1> SUFFICES ASSUME IInv, [Next]_vars PROVE IInv'
  OBVIOUS
<1>1. TypeOK' /\ ProcessInv'
  BY TypeStep, ProcessStep DEF IInv
<1>2. OutputInv'
  BY OutputStep
<1> QED BY <1>1, <1>2 DEF IInv

LEMMA Invariance == Spec => []IInv
<1> QED BY IInvInit, IInvNext, PTL DEF Spec

\* The runner keeps its types, for any number of lines and signals.
THEOREM RunnerTypeCorrect == Spec => []TypeOK
<1>1. IInv => TypeOK
  BY DEF IInv
<1> QED BY <1>1, Invariance, PTL

\* Exit status 0 means that the test said PASS and failed no check, whatever
\* signals, timeouts and deaths the run went through.
THEOREM PassIsEarned == Spec => []PassIsReal
<1>1. IInv => PassIsReal
  <2> SUFFICES ASSUME IInv, pc = "exited", exitCode = 0
               PROVE  /\ testCode = 0
                      /\ "notOk" \notin ToSet(printed)
                      /\ printed # << >> /\ Last(printed) = "pass"
    BY DEF PassIsReal
  <2>1. /\ testCode = 0 /\ taken = Len(printed) /\ printed \in Seq(Line)
        /\ result.passed /\ ~result.failed
    BY DEF IInv, OutputInv, ExitControl, ReaderControl, TypeOK
  <2>2. \A i \in 1 .. Len(printed) : printed[i] # "notOk"
    BY <2>1 DEF IInv, OutputInv, LinesTaken
  <2>3. PICK i \in 1 .. Len(printed) :
               printed[i] = "pass" /\ \A k \in i + 1 .. Len(printed) : printed[k] = "notOk"
    BY <2>1 DEF IInv, OutputInv, LinesTaken
  <2>4. Len(printed) \in Nat /\ i = Len(printed)
    <3>1. Len(printed) \in Nat
      BY <2>1
    <3>2. i < Len(printed) => Len(printed) \in i + 1 .. Len(printed)
      BY <3>1
    <3>3. Len(printed) \in 1 .. Len(printed)
      BY <3>1, <2>3
    <3> QED BY <3>1, <3>2, <3>3, <2>2, <2>3
  <2>5. printed # << >> /\ Last(printed) = "pass"
    BY <2>1, <2>3, <2>4 DEF Last
  <2>6. "notOk" \notin ToSet(printed)
    BY <2>1, <2>2 DEF ToSet
  <2> QED BY <2>1, <2>5, <2>6
<1> QED BY <1>1, Invariance, PTL

\* The runner leaves no child behind, unless a signal hit a Popen or the cleanup.
THEOREM ChildrenAreReaped == Spec => []NobodyLeftBehind
<1>1. IInv => NobodyLeftBehind
  BY DEF IInv, ProcessInv
<1> QED BY <1>1, Invariance, PTL

\* No process group is signalled after its leader has been reaped.
THEOREM ReapedAreNotSignalled == Spec => NeverSignalsReaped
<1>1. IInv /\ [Next]_vars => [Term \/ KillGroup => leader[target] # "reaped"]_vars
  BY DEF IInv, ProcessInv, ChildrenStopped, Term, KillGroup
<1> QED BY <1>1, Invariance, PTL DEF Spec, NeverSignalsReaped

-----------------------------------------------------------------------------
\* What NobodyLeftBehind excuses takes a signal.
UnsignalledRunCleansUp ==
    pc = "exited" /\ signals = 0 =>
        /\ \A c \in Child : leader[c] \in {"none", "reaped"}
        /\ qemu # "running"

CutNeedsSignal == cut => signals > 0

\* A run that no signal disturbs leaves no child behind, however its children
\* end, fail to start or hang.
THEOREM UnsignalledRunsCleanUp == Spec => []UnsignalledRunCleansUp
<1>1. Init => CutNeedsSignal
  BY DEF Init, CutNeedsSignal
<1>2. IInv /\ CutNeedsSignal /\ [Next]_vars => CutNeedsSignal'
  <2> SUFFICES ASSUME TypeOK, CutNeedsSignal, [Next]_vars PROVE CutNeedsSignal'
    BY DEF IInv
  <2> USE DEF CutNeedsSignal
  <2>1. CASE Interrupt
    BY <2>1, RunnerAssumption DEF Interrupt, TypeOK
  <2>2. CASE ~Interrupt
    <3>1. UNCHANGED ghosts
      BY <2>2 DEF Next, Main, Reader, Children, Over, vars, AcquireLock, Build, ForkEmulator, ForkTest,
         Fork, AssignEmulator, AssignTest, Assign, PopenFails, StartReader, PollTest, PollEmulator,
         PollClock, Stop, Term, WaitEnds, WaitTimesOut, KillGroup, Join, GiveVerdict, Shutdown,
         ReadLine, EndOfOutput, TestPrints, TestEnds, EmulatorEnds, QemuEnds, DeadlinePasses
    <3> QED BY <3>1 DEF ghosts
  <2> QED BY <2>1, <2>2
<1>3. TypeOK /\ NobodyLeftBehind /\ CutNeedsSignal => UnsignalledRunCleansUp
  BY DEF TypeOK, NobodyLeftBehind, CutNeedsSignal, UnsignalledRunCleansUp
<1> QED BY <1>1, <1>2, <1>3, Invariance, RunnerTypeCorrect, ChildrenAreReaped, PTL DEF Spec

=============================================================================
