--------------------------- MODULE LauncherProofs ---------------------------
(***************************************************************************)
(* Proofs about Launcher for any list of generated blocks, any scenarios   *)
(* and any number of launches: recalculation reports the truth, and main   *)
(* stores nothing but a whole recalculation of the image it has read.      *)
(***************************************************************************)
EXTENDS Launcher, TLAPS

Patchable == {"wrong", "right"}

Patched == {Blocks[k] : k \in 1 .. next - 1}

\* How far the memory image is patched at each point of recalculation.
PatchedSoFar ==
    /\ data.bootcore = loaded.bootcore /\ data.parses = loaded.parses
    /\ data.hash = IF part \in {"enter", "skipped", "hash"} THEN loaded.hash ELSE "right"
    /\ data.imei = IF part \in {"enter", "skipped", "hash", "imei"} THEN loaded.imei ELSE "right"
    /\ \A id \in R!Id :
          data.blocks[id] = IF id \in Patched /\ loaded.blocks[id] \in Patchable
                            THEN "right" ELSE loaded.blocks[id]
    /\ part \notin {"blocks", "returned"} => next = 1
    /\ part = "returned" => next = Len(Blocks) + 1
    /\ part = "skipped" => ~R!IsRecognised(loaded)

\* The report is true at every point, not only at the end.
ChangedSoFar == changed <=> data # loaded

CompleteSoFar ==
    part \notin {"enter", "skipped"} =>
        (complete <=> \A id \in Patched \cap Required : loaded.blocks[id] \in Patchable)

\* The image that QEMU will get, or has got.
Backing == IF copy = None THEN image ELSE copy

\* OtpFitsImage, from the moment the words are chosen.
OtpFits ==
    LauncherChoosesOtp /\ R!IsRecognised(Backing) /\ ~warned =>
        /\ otp0 = WordFor(Backing.hash)
        /\ otp1 = WordFor(Backing.imei)
        /\ options.recalc =>
              /\ Backing.hash = "right" /\ Backing.imei = "right"
              /\ \A id \in Required : Backing.blocks[id] = "right"

\* How main gets to the OTP words that it chooses itself.
OtpSoFar ==
    /\ pc \notin {"drive", "qemu", "exit"} => copy = None
    /\ pc \in {"read", "recalc", "recover"} => otp0 = "default" /\ otp1 = "default"
    /\ pc \in {"read", "recalc"} => options.recalc
    /\ pc = "recover" => ~options.recalc
    /\ pc = "recalc" => loaded = image
    /\ pc = "recalc" /\ part = "returned" /\ ~complete => warned
    /\ pc \in {"drive", "qemu"} => OtpFits
    /\ pc = "qemu" => drive = Drive

Progress == R!TypeOK /\ PatchedSoFar /\ ChangedSoFar /\ CompleteSoFar

IInv == TypeOK /\ Progress /\ OtpSoFar

\* The index of recalculation's loop stays in the list.
LEMMA BlockIds ==
    /\ Len(Blocks) \in Nat
    /\ R!Id = {Blocks[k] : k \in 1 .. Len(Blocks)}
    /\ Required \subseteq R!Id
BY LauncherAssumption DEF R!LayoutIsSound, R!Id

\* Two images are equal if their fields are.
LEMMA SameFields ==
    ASSUME NEW d \in R!FlashData, NEW e \in R!FlashData,
           d.bootcore = e.bootcore, d.hash = e.hash, d.imei = e.imei, d.parses = e.parses,
           \A id \in R!Id : d.blocks[id] = e.blocks[id]
    PROVE  d = e
<1>1. d.blocks = e.blocks
  BY DEF R!FlashData
<1> QED BY <1>1 DEF R!FlashData

LEMMA IInvInit == Init => IInv
<1> SUFFICES ASSUME Init PROVE IInv
  OBVIOUS
<1>1. PICK s \in Scenarios : options = s.options /\ image = s.image
  BY DEF Init
<1>2. options \in CommandLine /\ image \in R!FlashData /\ MaxLaunches \in Nat \ {0}
  BY <1>1, LauncherAssumption DEF R!LayoutIsSound
<1>3. loaded = image /\ data = image /\ part = "enter" /\ next = 1 /\ ~changed /\ ~complete
      /\ changed \in BOOLEAN /\ complete \in BOOLEAN
  BY DEF Init, R!Init
<1>4. R!TypeOK
  BY <1>2, <1>3, BlockIds DEF R!TypeOK
<1>5. TypeOK
  <2>1. device \in {"siemens", "other", ""}
    BY <1>2 DEF Init, CommandLine
  <2>2. drive \in [path : {"none", "file", "copy"}, writable : BOOLEAN]
    BY DEF Init, NoDrive
  <2>3. launches \in 0 .. MaxLaunches
    BY <1>2 DEF Init
  <2> QED BY <1>2, <1>4, <2>1, <2>2, <2>3 DEF Init, TypeOK, OtpSource
<1>6. PatchedSoFar /\ ChangedSoFar /\ CompleteSoFar
  BY <1>3 DEF PatchedSoFar, ChangedSoFar, CompleteSoFar, Patched
<1> QED BY <1>3, <1>4, <1>5, <1>6 DEF Init, IInv, Progress, OtpSoFar

-----------------------------------------------------------------------------
\* One step of recalculation keeps the report true.
\* The block at hand is patched by either kind of step.
LEMMA NextBlock ==
    ASSUME R!TypeOK, part = "blocks", next <= Len(Blocks), next' = next + 1
    PROVE  /\ Blocks[next] \in R!Id
           /\ Patched' = Patched \cup {Blocks[next]}
           /\ next' \in 1 .. Len(Blocks) + 1
<1>1. next \in 1 .. Len(Blocks)
  BY BlockIds DEF R!TypeOK
<1>2. 1 .. next' - 1 = (1 .. next - 1) \cup {next}
  BY <1>1, BlockIds
<1> QED BY <1>1, <1>2, BlockIds DEF Patched

LEMMA SkipBlockStep == Progress /\ R!SkipBlock => Progress'
<1> SUFFICES ASSUME Progress, R!SkipBlock PROVE Progress'
  OBVIOUS
<1> DEFINE b == Blocks[next]
<1>1. /\ part = "blocks" /\ next <= Len(Blocks) /\ next' = next + 1 /\ part' = part
      /\ data' = data /\ loaded' = loaded /\ changed' = changed
      /\ complete' = (complete /\ b \notin Required) /\ data.blocks[b] \notin Patchable
  BY DEF R!SkipBlock, R!Fits, Patchable
<1>2. b \in R!Id /\ Patched' = Patched \cup {b} /\ next' \in 1 .. Len(Blocks) + 1
  BY <1>1, NextBlock DEF Progress
<1>3. loaded.blocks[b] \notin Patchable
  BY <1>1, <1>2 DEF Progress, PatchedSoFar, Patchable
<1>4. R!TypeOK'
  BY <1>1, <1>2 DEF Progress, R!TypeOK
<1>5. PatchedSoFar'
  BY <1>1, <1>2, <1>3 DEF Progress, PatchedSoFar
<1>6. CompleteSoFar'
  BY <1>1, <1>2, <1>3 DEF Progress, CompleteSoFar, R!TypeOK
<1> QED BY <1>1, <1>4, <1>5, <1>6 DEF Progress, ChangedSoFar

LEMMA WriteBlockStep == Progress /\ R!WriteBlock => Progress'
<1> SUFFICES ASSUME Progress, R!WriteBlock PROVE Progress'
  OBVIOUS
<1> DEFINE b == Blocks[next]
<1>1. /\ part = "blocks" /\ next <= Len(Blocks) /\ next' = next + 1 /\ part' = part
      /\ data' = [data EXCEPT !.blocks[b] = "right"] /\ loaded' = loaded
      /\ changed' = (changed \/ data.blocks[b] = "wrong")
      /\ complete' = complete /\ data.blocks[b] \in Patchable
  BY DEF R!WriteBlock, R!Fits, Patchable
<1>2. b \in R!Id /\ Patched' = Patched \cup {b} /\ next' \in 1 .. Len(Blocks) + 1
  BY <1>1, NextBlock DEF Progress
<1>3. loaded.blocks[b] \in Patchable
  BY <1>1, <1>2 DEF Progress, PatchedSoFar, Patchable
<1>4. data \in R!FlashData /\ loaded \in R!FlashData /\ data' \in R!FlashData
  BY <1>1, <1>2 DEF Progress, R!TypeOK, R!FlashData
<1>5. /\ data'.bootcore = data.bootcore /\ data'.hash = data.hash /\ data'.imei = data.imei
      /\ data'.parses = data.parses
      /\ \A id \in R!Id : data'.blocks[id] = IF id = b THEN "right" ELSE data.blocks[id]
  BY <1>1, <1>2, <1>4 DEF R!FlashData
<1>6. R!TypeOK'
  BY <1>1, <1>2, <1>4 DEF Progress, R!TypeOK
<1>7. PatchedSoFar'
  BY <1>1, <1>2, <1>3, <1>5 DEF Progress, PatchedSoFar
<1>8. CompleteSoFar'
  BY <1>1, <1>2, <1>3 DEF Progress, CompleteSoFar, R!TypeOK
<1>9. ChangedSoFar'
  <2>1. CASE data.blocks[b] = "wrong"
    <3>1. loaded.blocks[b] = "wrong" /\ data'.blocks[b] = "right"
      BY <2>1, <1>2, <1>5 DEF Progress, PatchedSoFar
    <3> QED BY <3>1, <2>1, <1>1 DEF ChangedSoFar
  <2>2. CASE data.blocks[b] = "right"
    <3>1. data' = data
      BY <2>2, <1>4, <1>5, SameFields
    <3> QED BY <3>1, <2>2, <1>1 DEF Progress, ChangedSoFar, R!TypeOK
  <2> QED BY <2>1, <2>2, <1>1 DEF Patchable
<1> QED BY <1>6, <1>7, <1>8, <1>9 DEF Progress

LEMMA RecalcStep == Progress /\ R!Step => Progress'
<1> SUFFICES ASSUME Progress, R!Step PROVE Progress'
  OBVIOUS
<1>0. R!TypeOK /\ data \in R!FlashData /\ loaded \in R!FlashData
  BY DEF Progress, R!TypeOK
<1>1. CASE R!Enter
  <2>1. next = 1 /\ data = loaded /\ Patched = {}
    <3>1. next = 1 /\ data.hash = loaded.hash /\ data.imei = loaded.imei
      BY <1>1 DEF R!Enter, Progress, PatchedSoFar
    <3>2. Patched = {}
      BY <3>1 DEF Patched
    <3> QED BY <3>1, <3>2, <1>0, SameFields DEF Progress, PatchedSoFar
  <2>2. part' \in {"hash", "skipped"} /\ R!TypeOK'
    BY <1>1 DEF R!Enter, Progress, R!TypeOK
  <2>3. PatchedSoFar' /\ ChangedSoFar' /\ Patched' = Patched
    BY <1>1, <2>1, <2>2 DEF R!Enter, Progress, PatchedSoFar, ChangedSoFar, Patched
  <2>4. CompleteSoFar'
    BY <1>1, <2>1, <2>3 DEF R!Enter, CompleteSoFar
  <2> QED BY <2>2, <2>3, <2>4 DEF Progress
<1>2. CASE R!PatchHash
  <2>1. /\ data' \in R!FlashData /\ data'.hash = "right" /\ data'.imei = data.imei
        /\ data'.bootcore = data.bootcore /\ data'.parses = data.parses
        /\ data'.blocks = data.blocks
    BY <1>0, <1>2 DEF R!PatchHash, R!FlashData
  <2>2. PatchedSoFar' /\ CompleteSoFar' /\ R!TypeOK'
    BY <1>2, <2>1 DEF R!PatchHash, Progress, R!TypeOK, PatchedSoFar, CompleteSoFar, Patched
  <2>3. ChangedSoFar'
    <3>1. CASE data.hash = "right"
      BY <3>1, <1>0, <1>2, <2>1, SameFields DEF R!PatchHash, Progress, ChangedSoFar, R!TypeOK
    <3>2. CASE data.hash # "right"
      BY <3>2, <1>2, <2>1 DEF R!PatchHash, Progress, PatchedSoFar, ChangedSoFar
    <3> QED BY <3>1, <3>2
  <2> QED BY <2>2, <2>3 DEF Progress
<1>3. CASE R!PatchImei
  <2>1. /\ data' \in R!FlashData /\ data'.imei = "right" /\ data'.hash = data.hash
        /\ data'.bootcore = data.bootcore /\ data'.parses = data.parses
        /\ data'.blocks = data.blocks
    BY <1>0, <1>3 DEF R!PatchImei, R!FlashData
  <2>2. PatchedSoFar' /\ CompleteSoFar' /\ R!TypeOK'
    BY <1>3, <2>1 DEF R!PatchImei, Progress, R!TypeOK, PatchedSoFar, CompleteSoFar, Patched
  <2>3. ChangedSoFar'
    <3>1. CASE data.imei = "right"
      BY <3>1, <1>0, <1>3, <2>1, SameFields DEF R!PatchImei, Progress, ChangedSoFar, R!TypeOK
    <3>2. CASE data.imei # "right"
      BY <3>2, <1>3, <2>1 DEF R!PatchImei, Progress, PatchedSoFar, ChangedSoFar
    <3> QED BY <3>1, <3>2
  <2> QED BY <2>2, <2>3 DEF Progress
<1>4. CASE R!ParseEeprom
  BY <1>4 DEF R!ParseEeprom, Progress, R!TypeOK, PatchedSoFar, ChangedSoFar, CompleteSoFar, Patched
<1>5. CASE R!Return
  BY <1>5, BlockIds DEF R!Return, Progress, R!TypeOK, PatchedSoFar, ChangedSoFar, CompleteSoFar,
     Patched
<1> QED BY <1>1, <1>2, <1>3, <1>4, <1>5, SkipBlockStep, WriteBlockStep DEF R!Step

\* At the end the memory image is the recalculation of the loaded one.
LEMMA ReturnedIsRecalculated ==
    ASSUME Progress, part = "returned"
    PROVE  data = R!Recalculated(loaded)
<1>1. /\ data \in R!FlashData /\ loaded \in R!FlashData /\ Patched = R!Id
  BY BlockIds DEF Progress, PatchedSoFar, Patched, R!TypeOK
<1>2. R!Recalculated(loaded) \in R!FlashData
  BY <1>1 DEF R!Recalculated, R!FlashData
<1>3. /\ data.hash = "right" /\ data.imei = "right"
      /\ data.bootcore = loaded.bootcore /\ data.parses = loaded.parses
      /\ \A id \in R!Id : data.blocks[id] = IF loaded.blocks[id] \in {"wrong", "right"}
                                           THEN "right" ELSE loaded.blocks[id]
  BY <1>1 DEF Progress, PatchedSoFar, Patchable
<1>4. LET r == R!Recalculated(loaded)
      IN  /\ r.hash = "right" /\ r.imei = "right"
          /\ r.bootcore = loaded.bootcore /\ r.parses = loaded.parses
          /\ \A id \in R!Id : r.blocks[id] = IF loaded.blocks[id] \in {"wrong", "right"}
                                           THEN "right" ELSE loaded.blocks[id]
  BY <1>1 DEF R!Recalculated, R!FlashData
<1> QED BY <1>1, <1>2, <1>3, <1>4, SameFields

\* A recalculation that has not warned leaves what the default words bind to.
LEMMA QuietRecalculation ==
    ASSUME Progress, part = "returned", complete
    PROVE  /\ data.hash = "right" /\ data.imei = "right"
           /\ \A id \in Required : data.blocks[id] = "right"
<1>1. Patched = R!Id /\ Required \subseteq R!Id
  BY BlockIds DEF Progress, PatchedSoFar, Patched
<1>2. \A id \in Required : loaded.blocks[id] \in Patchable
  BY <1>1 DEF Progress, CompleteSoFar
<1> QED BY <1>1, <1>2 DEF Progress, PatchedSoFar

-----------------------------------------------------------------------------
LEMMA IInvNext == IInv /\ [Next]_vars => IInv'
<1> SUFFICES ASSUME IInv, [Next]_vars PROVE IInv'
  OBVIOUS
<1>0. TypeOK /\ Progress /\ OtpSoFar
  BY DEF IInv
<1> USE <1>0
<1> DEFINE Same == UNCHANGED recalcVars
<1>a. Same => Progress'
  BY DEF recalcVars, Progress, R!TypeOK, PatchedSoFar, ChangedSoFar, CompleteSoFar, Patched
<1>b. R!TypeOK /\ (Same => R!TypeOK')
  BY <1>a DEF Progress
<1>1. CASE CheckOptions
  BY <1>1, <1>a, <1>b DEF CheckOptions, own, IInv, TypeOK, OtpSoFar
<1>2. CASE FindDevice
  BY <1>2, <1>a, <1>b DEF FindDevice, own, IInv, TypeOK, OtpSoFar
<1>3. CASE FindBoard
  BY <1>3, <1>a, <1>b DEF FindBoard, own, IInv, TypeOK, OtpSoFar
<1>4. CASE ReadOtpOptions
  BY <1>4, <1>a, <1>b DEF ReadOtpOptions, UserOtp, OtpSource, own, IInv, TypeOK, OtpSoFar
<1>5. CASE ApplyIdentity
  BY <1>5, <1>a, <1>b DEF ApplyIdentity, FromIdentity, OtpSource, IInv, TypeOK, OtpSoFar, OtpFits,
     LauncherChoosesOtp, IdentityGiven
<1>6. CASE SkipIdentity
  BY <1>6, <1>a, <1>b DEF SkipIdentity, own, IInv, TypeOK, OtpSoFar, OtpFits, LauncherChoosesOtp,
     HasOtp, IdentityGiven
<1>7. CASE UseDefaultOtp
  BY <1>7, <1>a, <1>b DEF UseDefaultOtp, OtpSource, IInv, TypeOK, OtpSoFar, OtpFits,
     LauncherChoosesOtp
<1>8. CASE ReadImage
  <2>1. Progress'
    <3>1. R!TypeOK'
      <4>1. image \in R!FlashData /\ 1 \in 1 .. Len(Blocks) + 1
        <5>1. image \in R!FlashData
          BY DEF TypeOK
        <5> QED BY <5>1, BlockIds
      <4>2. loaded' = image /\ data' = image /\ part' = "enter" /\ next' = 1 /\ changed' = FALSE
            /\ complete' = FALSE
        BY <1>8 DEF ReadImage
      <4> QED BY <4>1, <4>2 DEF R!TypeOK
    <3>2. PatchedSoFar' /\ ChangedSoFar' /\ CompleteSoFar'
      BY <1>8 DEF ReadImage, PatchedSoFar, ChangedSoFar, CompleteSoFar, Patched
    <3> QED BY <3>1, <3>2 DEF Progress
  <2>2. TypeOK' /\ OtpSoFar'
    BY <1>8, <2>1 DEF ReadImage, own, TypeOK, OtpSoFar, Progress
  <2> QED BY <2>1, <2>2 DEF IInv
<1>9. CASE ReadFails
  BY <1>9, <1>a, <1>b DEF ReadFails, own, IInv, TypeOK, OtpSoFar
<1>10. CASE Recalculate
  <2>1. Progress' /\ loaded' = loaded
    BY <1>10, RecalcStep DEF Recalculate, R!Step, R!Enter, R!PatchHash, R!PatchImei, R!ParseEeprom,
       R!SkipBlock, R!WriteBlock, R!Return
  <2>2. warned' \in BOOLEAN /\ (part' = "returned" /\ ~complete' => warned')
    <3>1. part' = "returned" => complete' = complete
      BY <1>10 DEF Recalculate, R!Step, R!Enter, R!PatchHash, R!PatchImei, R!ParseEeprom,
         R!SkipBlock, R!WriteBlock, R!Return
    <3>2. warned' = (part' = "returned" /\ ~complete)
      BY <1>10 DEF Recalculate
    <3>3. warned' \in BOOLEAN
      BY <3>2, Zenon
    <3>4. complete \in BOOLEAN /\ complete' \in BOOLEAN
      BY <2>1 DEF Progress, R!TypeOK
    <3> QED BY <3>1, <3>2, <3>3, <3>4
  <2>3. TypeOK'
    BY <1>10, <2>1, <2>2 DEF Recalculate, TypeOK, Progress
  <2>4. OtpSoFar'
    BY <1>10, <2>1, <2>2 DEF Recalculate, OtpSoFar
  <2> QED BY <2>1, <2>3, <2>4 DEF IInv
<1>11. CASE KeepResult
  <2>1. data \in R!FlashData /\ data.hash = "right" /\ data.imei = "right" /\ data # None
    BY <1>11 DEF KeepResult, Progress, R!TypeOK, PatchedSoFar, R!FlashData, None
  <2>2. Backing' = data
    BY <1>11, <2>1 DEF KeepResult, Keep, Backing, OtpSoFar
  <2>3. OtpFits'
    <3>1. otp0' = "default" /\ otp1' = "default"
      BY <1>11 DEF KeepResult, OtpSoFar
    <3>2. ~warned' => \A id \in Required : data.blocks[id] = "right"
      BY <1>11, QuietRecalculation DEF KeepResult, OtpSoFar
    <3> QED BY <2>1, <2>2, <3>1, <3>2 DEF OtpFits, WordFor
  <2>4. TypeOK'
    BY <1>11, <2>1, <1>b DEF KeepResult, Keep, TypeOK
  <2>5. OtpSoFar'
    BY <1>11, <2>3 DEF KeepResult, OtpSoFar
  <2> QED BY <1>11, <1>a, <2>4, <2>5 DEF KeepResult, IInv
<1>12. CASE NothingToKeep
  <2>1. OtpFits'
    <3>1. Backing' = image /\ loaded = image /\ otp0' = "default" /\ otp1' = "default"
      BY <1>12 DEF NothingToKeep, own, Backing, OtpSoFar
    <3>2. part = "skipped" => ~R!IsRecognised(image)
      BY <3>1 DEF Progress, PatchedSoFar
    <3>3. part = "returned" /\ ~warned' =>
              /\ image.hash = "right" /\ image.imei = "right"
              /\ \A id \in Required : image.blocks[id] = "right"
      <4>1. part = "returned" => data = image
        BY <1>12, <3>1 DEF NothingToKeep, Progress, ChangedSoFar
      <4>2. part = "returned" /\ ~warned' => complete
        BY <1>12 DEF NothingToKeep, own, OtpSoFar
      <4> QED BY <4>1, <4>2, QuietRecalculation
    <3>4. R!IsRecognised(Backing)' = R!IsRecognised(image)
      BY <3>1 DEF R!IsRecognised
    <3> QED BY <1>12, <3>1, <3>2, <3>3, <3>4 DEF NothingToKeep, OtpFits, WordFor
  <2> QED BY <1>12, <1>a, <1>b, <2>1 DEF NothingToKeep, own, IInv, TypeOK, OtpSoFar
<1>13. CASE RecalcFails
  BY <1>13, <1>a, <1>b DEF RecalcFails, own, IInv, TypeOK, OtpSoFar
<1>14. CASE RecoverFinds
  <2>1. Backing' = image /\ ~options'.recalc
    BY <1>14 DEF RecoverFinds, Backing, OtpSoFar
  <2>2. OtpFits'
    BY <1>14, <2>1 DEF RecoverFinds, OtpFits, WordFor
  <2> QED BY <1>14, <1>a, <1>b, <2>2 DEF RecoverFinds, OtpSource, IInv, TypeOK, OtpSoFar
<1>15. CASE RecoverFails
  BY <1>15, <1>a, <1>b DEF RecoverFails, IInv, TypeOK, OtpSoFar, OtpFits
<1>20. CASE RecoverSkips
  <2>1. Backing' = image /\ image.hash = "erased"
    BY <1>20 DEF RecoverSkips, own, Backing, OtpSoFar
  <2>2. OtpFits'
    BY <2>1 DEF OtpFits, R!IsRecognised
  <2> QED BY <1>20, <1>a, <1>b, <2>2 DEF RecoverSkips, own, IInv, TypeOK, OtpSoFar
<1>16. CASE BuildDrive
  <2>1. OtpFits'
    BY <1>16 DEF BuildDrive, OtpSoFar, OtpFits, LauncherChoosesOtp, IdentityGiven, HasOtp, Backing,
       R!IsRecognised
  <2>2. drive' \in [path : {"none", "file", "copy"}, writable : BOOLEAN] /\ drive' = Drive'
    BY <1>16 DEF BuildDrive, Drive, NoDrive, TypeOK, CommandLine
  <2> QED BY <1>16, <1>a, <1>b, <2>1, <2>2 DEF BuildDrive, IInv, TypeOK, OtpSoFar
<1>17. CASE QemuExits
  BY <1>17, <1>a, <1>b DEF QemuExits, own, IInv, TypeOK, OtpSoFar
<1>18. CASE Relaunch
  <2>1. options' \in CommandLine
    BY <1>18 DEF Relaunch, TypeOK, CommandLine
  <2>2. device' \in {"siemens", "other", ""}
    BY <1>18, <2>1 DEF Relaunch, Fresh, CommandLine
  <2>3. launches' \in 0 .. MaxLaunches
    <3>1. launches \in 0 .. MaxLaunches /\ MaxLaunches \in Nat
      BY LauncherAssumption DEF TypeOK
    <3>2. launches < MaxLaunches /\ launches' = launches + 1
      BY <1>18 DEF Relaunch
    <3> QED BY <3>1, <3>2
  <2>4. drive' \in [path : {"none", "file", "copy"}, writable : BOOLEAN]
    BY <1>18 DEF Relaunch, Fresh, NoDrive
  <2>5. TypeOK'
    BY <1>18, <1>b, <2>1, <2>2, <2>3, <2>4 DEF Relaunch, Fresh, TypeOK, OtpSource
  <2>6. OtpSoFar'
    BY <1>18 DEF Relaunch, Fresh, OtpSoFar
  <2> QED BY <1>18, <1>a, <2>5, <2>6 DEF Relaunch, IInv
<1>19. CASE UNCHANGED vars
  <2>1. TypeOK' /\ Progress'
    BY <1>19, <1>a, <1>b DEF vars, own, TypeOK
  <2>2. OtpFits' = OtpFits /\ Drive' = Drive
    BY <1>19 DEF vars, own, OtpFits, LauncherChoosesOtp, IdentityGiven, HasOtp, Backing, Drive,
       R!IsRecognised
  <2>3. OtpSoFar'
    BY <1>19, <2>2 DEF vars, own, recalcVars, OtpSoFar
  <2> QED BY <2>1, <2>3 DEF IInv
<1> QED BY <1>1, <1>2, <1>3, <1>4, <1>5, <1>6, <1>7, <1>8, <1>9, <1>10, <1>11, <1>12, <1>13, <1>14,
           <1>15, <1>16, <1>17, <1>18, <1>19, <1>20 DEF Next, Exited

LEMMA Invariance == Spec => []IInv
BY IInvInit, IInvNext, PTL DEF Spec

\* main's variables, the images included, always have values of their types.
THEOREM LauncherTypeCorrect == Spec => []TypeOK
<1>1. IInv => TypeOK
  BY DEF IInv
<1> QED BY <1>1, Invariance, PTL

\* recalculateFullflash reports a change exactly when it has made one
\* (recalc.cpp:196-245), for any list of blocks and in any launch.
THEOREM ChangedTruthfully == Spec => []ChangedIsExact
<1>1. IInv => ChangedIsExact
  BY DEF IInv, Progress, ChangedSoFar, ChangedIsExact, R!ChangedIsExact
<1> QED BY <1>1, Invariance, PTL

\* It reports completeness exactly when all required keys are in place
\* (recalc.cpp:224-237).
THEOREM CompleteTruthfully == Spec => []CompleteIsExact
<1>1. IInv => CompleteIsExact
  <2> SUFFICES ASSUME IInv, part = "returned"
               PROVE  complete <=> /\ data.hash = "right" /\ data.imei = "right"
                                   /\ \A id \in Required : data.blocks[id] = "right"
    BY DEF CompleteIsExact, R!CompleteIsExact
  <2>1. Patched = R!Id /\ Required \subseteq R!Id
    BY BlockIds DEF IInv, Progress, PatchedSoFar, Patched
  <2>2. data.hash = "right" /\ data.imei = "right"
    BY DEF IInv, Progress, PatchedSoFar
  <2>3. \A id \in Required : data.blocks[id] = "right" <=> loaded.blocks[id] \in Patchable
    BY <2>1 DEF IInv, Progress, PatchedSoFar, Patchable
  <2>4. complete <=> \A id \in Required : loaded.blocks[id] \in Patchable
    BY <2>1 DEF IInv, Progress, CompleteSoFar
  <2> QED BY <2>2, <2>3, <2>4
<1> QED BY <1>1, Invariance, PTL

\* If QEMU starts without a warning, the OTP words that main has chosen itself
\* (main.cpp:415-457) are those that the bootcore of QEMU's image asks for, and
\* under --siemens-recalc its required blocks are the default identity's, through
\* any number of launches with or without --rw and --siemens-recalc.
THEOREM OtpAlwaysFits == Spec => []OtpFitsImage
<1>1. IInv => OtpFitsImage
  <2> SUFFICES ASSUME IInv, pc = "qemu", LauncherChoosesOtp,
                      R!IsRecognised(DriveImage), ~warned
               PROVE  /\ otp0 = WordFor(DriveImage.hash)
                      /\ otp1 = WordFor(DriveImage.imei)
                      /\ options.recalc =>
                            /\ DriveImage.hash = "right" /\ DriveImage.imei = "right"
                            /\ \A id \in Required : DriveImage.blocks[id] = "right"
    BY DEF OtpFitsImage
  <2>1. drive = Drive /\ OtpFits
    BY DEF IInv, OtpSoFar
  <2>2. DriveImage = Backing
    BY <2>1 DEF Drive, DriveImage, Backing, LauncherChoosesOtp
  <2>3. R!IsRecognised(Backing)
    BY <2>2
  <2> QED BY <2>1, <2>2, <2>3 DEF OtpFits
<1> QED BY <1>1, Invariance, PTL

\* What main stores (main.cpp:435-443) is the whole recalculation of what it
\* has read, differs from it, and goes to the file only under --rw.
THEOREM StoresOnlyRecalculated == Spec => StoredIsRecalculated
<1> DEFINE Stored ==
      /\ image' # image => options.rw /\ image' = R!Recalculated(image)
      /\ copy' \notin {copy, None} =>
            ~options.rw /\ copy' = R!Recalculated(image) /\ copy' # image
<1>1. IInv /\ [Next]_vars => [Stored]_vars
  <2> SUFFICES ASSUME IInv, Next PROVE Stored
    BY DEF vars
  <2>1. CASE KeepResult
    <3>1. data = R!Recalculated(image) /\ data # image
      BY <2>1, ReturnedIsRecalculated DEF KeepResult, IInv, OtpSoFar, Progress, ChangedSoFar
    <3> QED BY <2>1, <3>1 DEF KeepResult, Keep
  <2>2. CASE Relaunch
    BY <2>2 DEF Relaunch, Fresh
  <2>3. CASE ~KeepResult /\ ~Relaunch
    BY <2>3 DEF Next, CheckOptions, FindDevice, FindBoard, ReadOtpOptions, ApplyIdentity, SkipIdentity,
       UseDefaultOtp, ReadImage, ReadFails, Recalculate, NothingToKeep, RecalcFails, RecoverFinds,
       RecoverSkips, RecoverFails, BuildDrive, QemuExits, Exited, own, vars
  <2> QED BY <2>1, <2>2, <2>3
<1> QED BY <1>1, Invariance, PTL DEF Spec, StoredIsRecalculated

-----------------------------------------------------------------------------
(* Two statements of recalc-siemens-fullflash.md: 23-24, as far as it      *)
(* holds of recalculation, and 21-22 on raw OTP words.                     *)

\* "Recovery and recalculation are also skipped when the BCORE HASH is 54F8":
\* a step of recalculation changes nothing in an image in which every field
\* that exists is already right.
SecondRecalculationIsIdle ==
    [][Recalculate /\ loaded = R!Recalculated(loaded) => data' = data]_vars

\* Recalculation of what it has produced itself is idle, wherever the HASH
\* alone does not tell (recalc.cpp:196-245).
THEOREM RecalculatesOnce == Spec => SecondRecalculationIsIdle
<1> DEFINE Idle == loaded = R!Recalculated(loaded) => data = loaded
<1>1. IInv => Idle
  <2> SUFFICES ASSUME Progress, loaded = R!Recalculated(loaded) PROVE data = loaded
    BY DEF IInv
  <2>1. data \in R!FlashData /\ loaded \in R!FlashData
    BY DEF Progress, R!TypeOK
  <2>2. /\ loaded.hash = "right" /\ loaded.imei = "right"
        /\ \A id \in R!Id : loaded.blocks[id] \in Patchable => loaded.blocks[id] = "right"
    BY <2>1 DEF R!Recalculated, R!FlashData, Patchable
  <2>3. /\ data.hash = loaded.hash /\ data.imei = loaded.imei
        /\ \A id \in R!Id : data.blocks[id] = loaded.blocks[id]
    BY <2>2 DEF Progress, PatchedSoFar
  <2> QED BY <2>1, <2>3, SameFields DEF Progress, PatchedSoFar
<1>2. Idle /\ Idle' /\ [Next]_vars =>
         [Recalculate /\ loaded = R!Recalculated(loaded) => data' = data]_vars
  <2> SUFFICES ASSUME Idle, Idle', Recalculate, loaded = R!Recalculated(loaded)
               PROVE  data' = data
    OBVIOUS
  <2>1. loaded' = loaded
    BY DEF Recalculate, R!Step, R!Enter, R!PatchHash, R!PatchImei, R!ParseEeprom, R!SkipBlock,
       R!WriteBlock, R!Return
  <2>2. loaded' = R!Recalculated(loaded')
    BY <2>1 DEF R!Recalculated
  <2>3. R!Recalculated(loaded)' = R!Recalculated(loaded')
    BY DEF R!Recalculated
  <2> QED BY <2>1, <2>2, <2>3
<1> QED BY <1>1, <1>2, Invariance, PTL DEF Spec, SecondRecalculationIsIdle

\* Where the raw OTP words of the command line are on their way to QEMU.
OtpTravels ==
    /\ pc = "identity" => otp0 = UserOtp(options.otp0) /\ otp1 = UserOtp(options.otp1)
    /\ pc \in {"keys", "read", "recalc", "recover"} => ~IdentityGiven /\ ~HasOtp
    /\ pc \in {"drive", "qemu"} =>
          /\ options.otp0 /\ (~IdentityGiven \/ options.esn = "empty") => otp0 = "user"
          /\ options.otp1 /\ (~IdentityGiven \/ options.imei = "empty") => otp1 = "user"

\* "Supplying --siemens-imei, --siemens-esn, or raw OTP data skips both": neither
\* recovery nor recalculation puts its own word in the place of a raw one.  Only
\* an identity option does that, and an empty one does not.
RawOtpAloneIsKept ==
    pc = "qemu" =>
        /\ options.otp0 /\ (~IdentityGiven \/ options.esn = "empty") => otp0 = "user"
        /\ options.otp1 /\ (~IdentityGiven \/ options.imei = "empty") => otp1 = "user"

\* Raw OTP words are not overwritten by recovery, recalculation or the default
\* keys (main.cpp:383-443), through any number of launches.
THEOREM RawOtpReachesQemu == Spec => []RawOtpAloneIsKept
<1>1. Init => OtpTravels
  BY DEF Init, OtpTravels
<1>2. OtpTravels /\ [Next]_vars => OtpTravels'
  <2> SUFFICES ASSUME OtpTravels, [Next]_vars PROVE OtpTravels'
    OBVIOUS
  <2> USE DEF OtpTravels, IdentityGiven, HasOtp, own
  <2>1. CASE ApplyIdentity
    BY <2>1 DEF ApplyIdentity, FromIdentity, UserOtp
  <2>2. CASE SkipIdentity
    BY <2>2 DEF SkipIdentity, UserOtp
  <2>3. CASE UseDefaultOtp
    BY <2>3 DEF UseDefaultOtp
  <2>4. CASE Relaunch
    BY <2>4 DEF Relaunch, Fresh
  <2>5. CASE CheckOptions \/ FindDevice \/ FindBoard \/ ReadOtpOptions
    BY <2>5 DEF CheckOptions, FindDevice, FindBoard, ReadOtpOptions
  <2>6. CASE ReadImage \/ ReadFails \/ Recalculate \/ KeepResult \/ NothingToKeep \/ RecalcFails
    BY <2>6 DEF ReadImage, ReadFails, Recalculate, KeepResult, NothingToKeep, RecalcFails
  <2>7. CASE RecoverFinds \/ RecoverSkips \/ RecoverFails \/ BuildDrive \/ QemuExits
    BY <2>7 DEF RecoverFinds, RecoverSkips, RecoverFails, BuildDrive, QemuExits
  <2>8. CASE UNCHANGED vars
    BY <2>8 DEF vars
  <2> QED BY <2>1, <2>2, <2>3, <2>4, <2>5, <2>6, <2>7, <2>8 DEF Next, Exited
<1>3. OtpTravels => RawOtpAloneIsKept
  BY DEF OtpTravels, RawOtpAloneIsKept
<1> QED BY <1>1, <1>2, <1>3, PTL DEF Spec

=============================================================================
