# TLA+ models of pmb887x-emu

pmb887x-emu launches a patched QEMU that emulates Siemens phones of the X65 and
X85 generations. The emulator itself (QEMU, the BSP with the tests that run
inside it) lives in git submodules; what this repository contains is the
launcher, a library that understands Siemens fullflash images, and the tools
that run the unit tests. These modules describe that code.

Paths below are relative to the repository; `bruteforce.cpp` and the like are in
`src/siemens/`.

## 1. The system

| Part | State | Operations | Talks to |
|---|---|---|---|
| Launcher (`src/main.cpp`) | parsed options, device, OTP words of each flash bank, path or copy of the fullflash, QEMU arguments | check options, find device and board, apply identity, recover, recalculate, assemble the drive, run QEMU | all of the library; QEMU as a child process |
| OTP recovery (`fullflash.cpp`, `otp.cpp`) | the image it has read, the identity found | `recoverOtp`: read, look up cache, search, write cache, encode OTP | ESN search, ESN cache |
| ESN cache (`esn.cpp`) | the file `<fullflash>.esn`, shared by all launches | `readEsnCache`, `writeEsnCache` | the file system, other launches, the user |
| ESN evidence (`bruteforce.cpp`: `recoverEsn*`) | none | try BKEY, HASH, block 5008, markers in this order, with the checks each record has | parallel search |
| Parallel search (`bruteforce.cpp`: `bruteForceEsn`) | relaxed/release atomics `found` and `result`, per-thread position, progress percentage, an exception pointer | spawn, sweep, poll, publish, report, join | progress callback |
| Recalculation (`recalc.cpp`) | the memory image, flags `changed` and `complete` | patch HASH, IMEI and the key blocks | EEPROM parser, ciphers |
| EEPROM parser (`eeprom.cpp`) | layout, map from block id to its place | scan partitions, read entry tables, byte offsets | - |
| Fullflash files (`utils/file.cpp`, `utils/temp_file.cpp`, `utils/process.cpp`) | file, replacement, private copy, QEMU's descriptor | `readFile`, `replaceFile`, `TempFileCopy`, `executeProcess` | kernel, other launches |
| Unit-test runner (`tools/unit.py`) | two child processes in sessions of their own, a reader thread, a result dictionary | build, start, poll, time out, stop, verdict | launcher, `bsp/boot.py`, signals |
| Unit-test scheduler (`tools/unit-all.py`) | run lock, `build_pending` and the current child of the serial loop; queue, thread pool and set of processes of the parallel run | build, start, wait, count; submit, take, register, collect, cancel, signal, drain | `unit.py` as child processes |
| IMEI block and stream cipher (`crypto.cpp`, `buildImeiBlock`, `decodeImeiBlock`, `buildCipherKeyBatch`) | the block, the cipher states of a batch of lanes | build, encrypt, decode and check; schedule, encrypt, decrypt a batch | recalculation writes with them, recovery reads with them |
| MD4, MD5, byte helpers, audio check, build files | none or local | pure functions | - |

Behaviour that is hard here:

* **Threads without locks.** The search shares two atomics between threads, holds
  references to locals of the caller, lets a callback throw in one of them and
  polls a relaxed flag every few batches only.
* **Processes on shared files.** Nothing keeps two launches from using the same
  fullflash and the same cache; both are read, looked up and written in separate
  steps, and a launch may be killed between any two of them.
* **Failure of one step of several.** Replacing a file takes five system calls,
  recalculation twelve writes; the caller sees one result.
* **A phone that writes.** QEMU may write the fullflash under `--rw` while another
  launch has read it and is about to replace it.
* **Inverses written twice.** Recalculation encrypts what recovery decrypts, in other
  files and, for the stream cipher, in several lanes in step.
* **Signals and timeouts.** `unit.py` turns SIGINT and SIGTERM into exceptions
  that may hit it between `fork` and assignment, or within its cleanup;
  `unit-all.py` sends just those signals, and is interrupted itself.
* **Options that interact.** Where the OTP words come from and which file QEMU may
  write depends on a dozen options and on what is found in the image.
* **Arithmetic of layouts.** Strided EEPROM data lies in every other chunk below
  its entry; three formulas have to agree.

`PROJECT.json` lists each hazard at its line with the property that would catch it.

## 2. The modules

| Module | Models | Correspondence |
|---|---|---|
| `EsnSearch` | what `bruteForceEsn` promises | one variable, the answer: pending, then found with a match, not found without one, or failed |
| `EsnSweep` | `bruteForceEsn` (`bruteforce.cpp:40-106`) | `pc[t]` is the position in the lambda `worker`, `caller` the position of the calling thread; `batch[t] * BatchSize` is `firstCandidate`; `Tick`/`PollStops`/`PollContinues` the `ticks` branch, `TestHits` and `Publish` the two stores. The load at line 64 is relaxed, so `MaySee` lets another thread miss a set flag. |
| `EsnEvidence` | `recoverEsn` and the checks of each record | pure operators: `Attempts` is the sequence of methods, `RecoveredEsns` the set of answers the parallel search may give for an image |
| `OtpRecovery` | `recoverOtp` and the cache (`fullflash.cpp:250-300`, `esn.cpp`) | one `pc` per launch, one action per file operation; `Overlay` is two launches writing the same file (what is left below a shorter text may or may not parse), `CutText` the unnoticed full disk; `Kill`, `ReplaceImage`, `DeleteCache` are the environment |
| `Recalc` | `recalculateFullflash` | one action per patched field; content is right or wrong, absent or of another size |
| `Launcher` | `main` from the parsed options to QEMU, launch after launch on one file | an OTP word is abstracted to its origin, an image to the fields of `Recalc`; recalculation is the machine of `Recalc` itself (INSTANCE), run on the file that the earlier launches left; recovery is a step with the outcomes of `OtpRecovery`; `warned` is whether this launch has logged a failed recovery or an incomplete recalculation |
| `Eeprom` | the constructor of `Eeprom` | `offset` is the loop of `parsePartitions`, `index` that of the table being read; one action per branch of the loop bodies. All `throw`s are one end, `thrown`. |
| `FullflashFile` | what a user is promised about the file | content, whether a phone has saved in it, permissions; two actions: `Recalculate` as a whole, `Save` |
| `FlashUpdate` | `readFile`, `replaceFile`, `TempFileCopy`, `executeProcess`, as `main` calls them | inodes with content and mode; `target` is the inode the path names; one action per system call that can fail; `saved` are inodes a QEMU has written |
| `ImeiBlock` | `buildImeiBlock`, `decodeImeiBlock`, the IMEI cipher, the check digit | one action per round of the cipher; a byte is a record of its nibbles, as digits and S-boxes work on nibbles; `Damage` is one byte going bad in between |
| `StreamCipher` | `transformCipher` on its two ways | `writer` is the state of the encryption, `readers[l]` that of lane l; one action per turn of a loop, in all lanes at once as in the code |
| `KeyBlocks` | recalculation writing the IMEI block and a block under the key of ESN and IMEI, recovery reading them | both modules side by side; `TryBatch` joins them: its keys are made of the IMEI that was read |
| `UnitRunner` | `unit.py` | `pc` is the position in `main`/`wait_for_test`/`stop`; `leader` and `qemu` are the kernel's view of the children, `known` the Python variables; `Interrupt` raises at any of these positions |
| `UnitAll` | `unit-all.py`, serial and parallel | `main` is the main thread, `task[j]` the pool's call for job j, `process[j]` its `unit.py`; `pending` is `build_pending`, `built` whether the emulator is what the sources say; an interrupt hits the main thread at any position, the interpreter's join of the pool at its end (`crash`) included |
| `*Proofs` | theorems about the module of that name | `KeyBlocksProofs` also those about `ImeiBlock` and `StreamCipher` |
| `MC*` | constants for TLC | |

The modules build on each other as the code does: `EsnSweep` implements
`EsnSearch`; `EsnEvidence` names the predicates the search is called with, and
`OtpRecovery` extends it with launches and files; `Launcher` runs `Recalc` and
takes the outcomes of `OtpRecovery`; `FlashUpdate` takes from `Recalc` which images
change and implements `FullflashFile`; `KeyBlocks` extends `ImeiBlock` and
`StreamCipher`; `UnitAll` relies on the ending that `UnitRunner` shows (`RunEnds`).

Operators marked "Slip" are plausible mistakes at the place in question. No
specification uses them; putting one in the place of the definition it follows
makes the property it is paired with in `PROJECT.json` fail.

## 3. What the runs show

Every run is exhaustive for its constants. The three runs that expect a violation are
described under "Where code and documentation disagree".

| Run | Bounds | Shows |
|---|---|---|
| `sweep` | 3 threads, 8 batches of 2 ESNs, poll every 2 batches, all predicates with at most 2 matches, callback that may throw, thread creation that may fail | the answer is exact, no worker outlives the call, no batch is held twice, progress runs from 0 to 100, the search implements `EsnSearch`, and it ends |
| `recovery` | 2 launches, images of three phones with various records lost, the environment free to replace, delete, kill and fill the disk | every text that parses pairs HASH and ESN; no launch presents another phone's ESN; cache trouble costs no answer |
| `launch` | up to three launches on one file; every image with three generated blocks, two of them required, in every state of every field; every command line with options that matter | recalculation reports `changed` and `complete` truthfully; only whole recalculations reach the file, under `--rw` alone, and a stored one is final; QEMU starts without a warning only if the OTP words it gets, and under `--siemens-recalc` the required blocks too, fit its image |
| `eeprom` | chunks of 2 bytes, steps of 8; an entry of every size from 0 to 10 in several slots, pairs of entries, broken headers and tables | blocks lie inside the image, their bytes in order; inline data ends right below its entry in chunks of even number |
| `update` | two `--rw` launches and a read-only one, 5 inodes, QEMUs that write, kills and failing system calls | the path always names a whole file with its mode (`ImplementsFile`), QEMU starts on consistent images only, nothing is left behind but by killed launches, and what a phone saved is lost only to a launch that had read the file before it was recalculated |
| `key_blocks` | two IMEIs, both variants of the block, every single byte gone bad in every way; stream cipher with 16 byte values, keys of 3 and blocks of 4 bytes, 2 lanes, 2 ESNs, 3 batches | the IMEI reads back; a bad byte is noticed, but for the last column of the FULL variant; the lane of the right key decrypts; recovery undoes recalculation |
| `unit` | 3 lines of output, 2 signals | exit status 0 is earned; children are reaped unless a signal hit a `Popen` or the cleanup; no reaped group is signalled; the run ends |
| `unit_all` | 4 jobs, the first misconfigured, `--jobs` 1 and 2, with and without `--no-build`, 2 interrupts of the main thread | exact report; no live test outlives the lock but those that an interrupt takes from the serial loop or, once something has gone wrong before it, from the interpreter's join of the pool; a test that passed on a stale emulator shares its report with the failed build; a cancelled queue starts nothing; a run that does not end waits for a `unit.py` that a signal has hit |

Why these bounds are enough. `sweep`: three threads include the caller, a finder
and a bystander, and with eight batches the threads get unequal shares (3, 3, 2)
and poll more than once. `recovery`: the interesting races have two writers of one
file; more launches are symmetric, and the theorems cover any number.
`launch`: the code treats all blocks but the required ones alike, so one
optional block between required ones has every outcome; one launch recalculates
the file, the next finds it recalculated, and `--rw` and `--siemens-recalc` change
from each to the next. `eeprom`: four chunks of
inline data reach the second stride; entries in three of seven slots of a
partition meet its start, middle and end. `update`: a writer, its rival and a
reader; each holds at most a temporary file and an orphaned inode besides the path.
`key_blocks`: S-boxes, round keys and the ten bytes of the IMEI block are the real
ones and all damages are tried; the two IMEIs are the default one and one that the
last column of the FULL variant can turn into another that passes every check. The
stream cipher's loops wrap around their boxes and keys at these sizes. The theorems
cover all IMEIs and sizes. `unit`: a result needs a
failed check, a verdict and a later verdict; the second signal is the one
`unit-all.py` sends. `unit_all`: more jobs than threads, and jobs in every state
when the interrupt comes.

### Fairness

* `EsnSweep!FairSpec`: weak fairness of the caller and of each thread - the
  operating system runs them. It asks nothing of the relaxed load: a thread that
  misses the flag for good still exhausts its class.
* `UnitRunner!FairSpec`: the main thread and the reader are scheduled and time
  passes. Test, emulator and QEMU owe nothing and may hang; SIGKILL works.
* `UnitAll!FairSpec`: main thread and pool threads are scheduled, and a `unit.py`
  that no signal has hit ends, which `RunEnds` shows. A signalled one owes nothing:
  a signal in a `Popen` or in the cleanup leaves it waiting for a test that nobody
  has killed, and `unit-all.py` sends that second signal itself after a Ctrl-C at the
  terminal. `AllJobsEnd` therefore admits a run that waits for such a `unit.py` for
  good, and no other. Interrupts are never owed.

### Where code and documentation disagree

* `recovery_stale`: `docs/recalc-siemens-fullflash.md:13-14` promises that the
  search "only runs once while the fullflash identity remains unchanged".
  `writeEsnCache` never replaces a file, so behind a cache of another image, or an
  empty one, every launch searches again.
* `recovery_no_imei`: lines 44-45 say that recovery "can use BKEY or the bootcore
  HASH with SKEY". Without a readable IMEI the search succeeds, its result is
  cached, and the recovery fails.
* `recalc_known`: lines 23-24 say that recalculation is skipped for the default
  HASH. The code compares every field and patches those that differ.

## 4. What is proved

`EsnSweepProofs`, for every number of threads, batches and lanes, every poll
interval and every predicate (`SweepAssumption`: these numbers are positive):

* `TypeCorrect`, `WorkersJoinedAtExit`, `ReturnExact`, `SplitIsDisjoint`,
  `ProgressAlwaysRunsUp`: `THEOREM Spec => []...` for the five state invariants.
* `Refinement`: `Spec => Search!Spec`.

That the return value is exact is not inductive. `IInv` adds what the workers
know: the position of thread t is congruent to t (`Strided`), the batches of its
class below that position have no match (`PassedBatchesMiss`), a thread stopped
without `found` has passed them all (`StoppedIsExhausted`), `found` without an
error comes with a stored match (`StoredIsMatch`), and the caller reports only
after every worker is done (`CallerControl`). If nothing was found, every batch
belongs to some thread by its remainder, hence was passed, hence has no match.
`Strided` also gives disjointness, as two threads have different remainders.

The progress callback (`ProgressAlwaysRunsUp`) needs more: `ProgressControl`
says that the last percentage reported is the one the caller compares the next with.

`OtpRecoveryProofs`, for every number of launches and any images
(`RecoveryAssumption`: all records of an image belong to the phone its HASH was
made for - the cache, keyed by the HASH, relies on the same):

* `TypeCorrect`, `CacheIsSound`, `AnswersAreRight`, `CacheIsHarmless`.

`IInv` adds that a working launch holds a readable image (`HoldsImage`), that from
the search or the cache hit on its ESN is the one behind that image's HASH
(`HoldsRightEsn`), and that an idle launch holds none. A write over a longer text
leaves that text's tail: the file no longer parses, or it parses and says what the
launch has written, as the keys are sorted and the tail of an image's SKEY comes last.

`LauncherProofs`, for any list of blocks, scenarios and number of launches
(`LauncherAssumption`: the required blocks are among those of the layout):

* `LauncherTypeCorrect`, `ChangedTruthfully`, `CompleteTruthfully`,
  `StoresOnlyRecalculated`, `OtpAlwaysFits`.

`PatchedSoFar` gives the memory image at every point of recalculation as a function
of the loaded one and of the blocks already visited; `ChangedSoFar` and
`CompleteSoFar` are the two flags at that point, and `OtpSoFar` is what main knows
about the image when it chooses the OTP words, and that it has warned of whatever
keeps them from fitting. What main does after the warning is not excluded: it
starts QEMU with the default words and a phone's image, or with a mixture of records.
A later launch without `--siemens-recalc` takes the default words for such a mixture
without a warning; no property forbids that, as its bootcore asks for them.
`RawOtpReachesQemu` adds that recovery, recalculation and the default keys leave raw
words alone (lines 21-22 of the document quoted below).

`FlashUpdateProofs`, for any number of launches and inodes:

* `UpdateTypeCorrect`, `QemuRunsOnConsistentImages`, `LaunchesTidyUp`,
  `PathMovesOnOldReads`, and the refinement `UpdateImplementsFile`.

`TempsArePrivate` gives every temporary file one owner, `TempContent` its content at
each control point, `KnowsContent` what the content a launch has read says about the
file now: nothing turns a recalculated image back.

`KeyBlocksProofs`, about `ImeiBlock`, `StreamCipher` and the two together:

* `KeysTypeCorrect`, `ImeiAlwaysReadsBack`, `DamageAlwaysNoticed`,
  `RightLaneAlwaysReads`, `RecoveryAlwaysUndoes`, for every IMEI of 14 digits, ESN,
  width of a byte, length of key and block, and number of lanes.

Of `^` they use only that it is associative, commutative and cancels
(`XorAssumption`, `CancelAssumption`), of MD4 only that it gives a digest for every
ESN and IMEI. TLC cannot enumerate the latter, so it stands as a hypothesis of the
theorems, `DigestsAreKeys`. In the first part the `Stage`s are the block after
each round of encryption, and decryption passes them backwards; each round keeps the
five columns apart, so a block with one bad byte stays equal to the stage but for
that column (`IsNear`), and the two checksums cannot both survive it.
In the second part the states that the encryption went through are its trail,
quantified existentially in the invariant; a lane with the same key walks along it,
as the byte fed back is the ciphertext on both sides. `KInv`
adds that a batch runs under the IMEI that was read.

`EepromProofs`, for every size of chunk and step and all images
(`EepromAssumption`: headers and entries are in the range their bits have):

* `ParserTypeCorrect`, `BlocksAlwaysReadable`, `InlineAlwaysBelowEntry`.

The arithmetic comes first (`Position`, `InOrder`, `InlinePlace`: byte
`2 * Chunk * a + s` is byte s of the a-th even chunk); the invariant adds that the scan
stands at a multiple of a step (`ScanInv`) and a table belongs to a partition that
lies in the image (`TableInv`), from which the checks of each entry give the bounds.

That two entries of one id are told apart consistently rests on the layout:
`LayoutsDoNotMix` (`TableFollowsLayout`).

`UnitRunnerProofs`, for any number of output lines and signals:

* `RunnerTypeCorrect`, `PassIsEarned`, `ChildrenAreReaped`, `ReapedAreNotSignalled`,
  `UnsignalledRunsCleanUp`.

`ChildrenStarted` and `ChildrenStopped` say at each control point which children can
exist and which can still be alive, provided no signal has hit a Popen or the cleanup
(`cut`); `QemuFollows` ties QEMU to the emulator's process group. For the verdict,
`LinesTaken` says what `result` means: `failed` that a "not ok" is among the lines
taken, `passed` that the last result among them is PASS; `ReaderControl` and
`VerdictControl` carry that past the join, after which no line is left to take.
What the first theorem about children excuses takes a signal (`UnsignalledRunsCleanUp`).

`UnitAllProofs`, for any number of jobs, threads and interrupts:

* `SchedulerTypeCorrect`, `LockOutlivesJobs`, `ReportIsTrue`, `FailedBuildIsReported`,
  `QueueStops`, `FewJobsOutlive`.

The serial loop and the pool share the variables but not the argument. The loop is
followed along `submitted` (`LoopFollows`: one process at a time, that of the current
job, or one that an interrupt took), the pool along each job's task (`PoolFollows`: a
process exists from the Popen of the task on, and is reaped when the task is done).
`QueueControl` says when tasks may be queued, `Reported` what has been counted at each
point, `BuildControl` that the build of the serial loop was the first job's. TypeOK
is not inductive by itself here: that an interrupt lists a job as failed needs to know
that the loop has begun (`ModeControl`). The lock theorem excuses what breaks the
promise in the code: an interrupt takes a process from the serial loop, and an interrupt
of the interpreter's join, which needs an uncaught exception before it, ends
`unit-all.py` under the pool. At most `--jobs` processes can be left behind in this
way, and none without an interrupt (`FewJobsOutlive`).

### How far the documentation holds

Three runs refute a statement of the documentation, and the abstract specification
`FullflashFile` admits a loss. Theorems say where each of them stops:

| statement | run that refutes it | theorem | holds if |
|---|---|---|---|
| the search runs once | `recovery_stale` | `UndisturbedSearchRunsOnce` | launches come one after the other, and nobody replaces the image, deletes the cache, kills a launch or fills the disk |
| BKEY, or HASH with SKEY, is enough | `recovery_no_imei` | `KeyWithImeiSuffices` | the image holds an IMEI |
| a recalculated image is skipped | `recalc_known` | `RecalculatesOnce` | all of its fields are right, not the HASH alone |
| what the phone saved is kept | (`FullflashFile!Recalculate`) | `OneWriterLosesNothing` | one `--rw` launch runs at a time |

The hypotheses of the first are needed one by one: with a second launch, or with any
one of `MayReplace`, `MayDelete`, `MayCrash` and `MayFillDisk` set to TRUE in the
constants of `MCOtpRecoveryStale.cfg`, TLC finds a second search. Its invariant
(`CacheGrowsUp`) says that the cache file is absent until the first search has been
written down, and the image's own from then on. The last rests on
`ReplacesWhatItRead`: the file that the only writer renames over is still the one
that it has read, hence not one that a QEMU has written to.

### What is only model-checked

Liveness (`Terminates`, `RunEnds`, `AllJobsEnd`), which these provers cannot do.
`EsnEvidence` is checked and proved through `OtpRecovery`.

## 5. What is not modelled

* QEMU and the BSP: submodules, absent from the repository. QEMU is a process
  that opens its drive and ends; `boot.py` one that prints lines and ends.
* MD4 and MD5: arithmetic without state, left to the test vectors; MD4 is an arbitrary
  function of ESN and IMEI here. The layout of the cipher keys and the generated blocks
  other than the IMEI block are data that no property tells apart. `EsnEvidence`
  takes the predicates of the records as sets.
* False positives of block 5008 (a 32-bit check over 2^32 candidates): a matter of
  probability.
* Power failure after an unsynced rename, QEMU's own locks on its image, and the
  Windows and macOS branches of the file and process code. In `FlashUpdate` a
  signal that kills a launch takes its QEMU along.
* In `unit-all.py`: the selection of jobs and the configuration files, but for a job
  that cannot be built.
* In `unit.py`: exceptions of the reader thread itself, a last line of output without a newline, which the reader drops, and
  whether QEMU may end together with its test.
* The audio check (signal processing), the pty and SIM bridges, argument assembly
  that touches neither OTP nor drive, output formatting, and the build files.

## 6. Plan

Done, in this order: `EsnSearch`, `EsnSweep` and its proofs; `EsnEvidence`,
`OtpRecovery` and its proofs; `Recalc`; `FlashUpdate`; `Launcher`; `UnitRunner`;
`UnitAll`; `Eeprom`. Then: `Launcher` composed with `Recalc` over several launches;
the serial loop and the interrupts of `UnitAll`; writing phones in `FlashUpdate` and
its abstract specification `FullflashFile`; `ImeiBlock`, `StreamCipher`, `KeyBlocks`;
the proofs about `Launcher`, `FlashUpdate`, the ciphers, `Eeprom`, `UnitRunner` and
`UnitAll`; and the theorems that delimit what the documentation says.

Next:

1. `EsnEvidence` on top of `KeyBlocks`: the markers and checksums of block 5008 as
   predicates on the decrypted bytes.
2. The failure models left out above: loss of unsynced data, a launcher that is
   killed while its QEMU survives.
