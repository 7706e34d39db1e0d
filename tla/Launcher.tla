------------------------------ MODULE Launcher ------------------------------
(***************************************************************************)
(* main.cpp from the parsed options to the QEMU process, launch after      *)
(* launch on one fullflash: which OTP values bank 0 of the flash gets,     *)
(* which file backs the flash and whether QEMU may write it.               *)
(* Recalculation is the machine of Recalc, run on the file that the        *)
(* earlier launches have left; recovery has the outcomes that OtpRecovery  *)
(* and EsnEvidence give it, and an OTP value is abstracted to its origin.  *)
(***************************************************************************)
EXTENDS Naturals, Sequences

CONSTANTS
    Blocks,     \* as in Recalc
    Required,
    Scenarios,  \* first command line and fullflash considered
    MaxLaunches \* bound: launches on the same fullflash

Identity == {"unused", "empty", "valid", "invalid"}

CommandLine == [
    device    : {"siemens", "other", ""},           \* --device, "" when absent
    fullflash : BOOLEAN,                            \* --fullflash given
    rw        : BOOLEAN,
    recalc    : BOOLEAN,                            \* --siemens-recalc
    esn       : Identity,                           \* --siemens-esn
    imei      : Identity,                           \* --siemens-imei
    otp0      : BOOLEAN,                            \* --flash-otp0
    otp1      : BOOLEAN,                            \* --flash-otp1
    otherOtp  : BOOLEAN,                            \* OTP or EFA files, other banks
    sim       : {"virtual", "none", "reader", "?"}, \* --sim
    simReader : BOOLEAN,                            \* --sim-reader-name
    simSecret : BOOLEAN,                            \* --sim-ki, pin, puk, storage
    startup   : BOOLEAN ]                           \* --startup not empty

VARIABLES
    options,    \* the parsed command line
    pc,         \* which part of main runs
    device,     \* device, given or detected
    otp0, otp1, \* flashOptions[0].otp0 and otp1
    image,      \* the file at the fullflash path
    copy,       \* fullflashCopy, None if it was not created
    drive,      \* the -drive of QEMU
    warned,     \* this launch has logged that recovery failed or that
                \* recalculation is not complete
    launches,   \* bound: launches so far
    loaded, data, part, next, changed, complete     \* recalculateFullflash

own == <<options, device, otp0, otp1, image, copy, drive, warned, launches>>
recalcVars == <<loaded, data, part, next, changed, complete>>
vars == <<own, pc, recalcVars>>

R == INSTANCE Recalc WITH original <- loaded, pc <- part

ASSUME LauncherAssumption ==
    /\ R!LayoutIsSound
    /\ \A s \in Scenarios : s.options \in CommandLine /\ s.image \in R!FlashData
    /\ MaxLaunches \in Nat \ {0}

OtpSource == {"none", "user", "option", "default", "image"}

None == [none |-> TRUE]

NoDrive == [path |-> "none", writable |-> FALSE]

TypeOK ==
    /\ options \in CommandLine
    /\ pc \in {"options", "device", "board", "otp", "identity", "keys", "read", "recalc",
               "recover", "drive", "qemu", "exit"}
    /\ device \in {"siemens", "other", ""}
    /\ {otp0, otp1} \subseteq OtpSource
    /\ image \in R!FlashData
    /\ copy \in R!FlashData \cup {None}
    /\ drive \in [path : {"none", "file", "copy"}, writable : BOOLEAN]
    /\ warned \in BOOLEAN
    /\ launches \in 0 .. MaxLaunches
    /\ R!TypeOK

\* A new process; its "options" are set by the caller.
Fresh ==
    /\ pc' = "options"
    /\ device' = options'.device
    /\ otp0' = "none"
    /\ otp1' = "none"
    /\ copy' = None
    /\ drive' = NoDrive
    /\ warned' = FALSE

Init ==
    /\ \E s \in Scenarios : options = s.options /\ image = s.image
    /\ pc = "options"
    /\ device = options.device
    /\ otp0 = "none"
    /\ otp1 = "none"
    /\ copy = None
    /\ drive = NoDrive
    /\ warned = FALSE
    /\ launches = 1
    /\ R!Init
    /\ loaded = image

-----------------------------------------------------------------------------
SimOptionsOK ==
    /\ options.sim # "?"
    /\ options.simReader => options.sim = "reader"
    /\ options.simSecret => options.sim = "virtual"

CheckOptions ==
    /\ pc = "options"
    /\ pc' = IF SimOptionsOK /\ options.startup THEN "device" ELSE "exit"
    /\ UNCHANGED <<own, recalcVars>>

\* probeFullflash only knows Siemens images.
FindDevice ==
    /\ pc = "device"
    /\ \/ device # "" /\ pc' = "board" /\ UNCHANGED device
       \/ device = "" /\ options.fullflash /\ device' = "siemens" /\ pc' = "board"
       \/ device = "" /\ pc' = "exit" /\ UNCHANGED device
    /\ UNCHANGED <<options, otp0, otp1, image, copy, drive, warned, launches, recalcVars>>

FindBoard ==
    /\ pc = "board"
    /\ pc' \in {"otp", "exit"}
    /\ UNCHANGED <<own, recalcVars>>

UserOtp(given) == IF given THEN "user" ELSE "none"

ReadOtpOptions ==
    /\ pc = "otp"
    /\ otp0' = UserOtp(options.otp0)
    /\ otp1' = UserOtp(options.otp1)
    /\ pc' = "identity"
    /\ UNCHANGED <<options, device, image, copy, drive, warned, launches, recalcVars>>

IdentityGiven == options.esn # "unused" \/ options.imei # "unused"

\* Slip: an empty option is encoded instead of being passed over.
EmptyIsEncoded(given, current) ==
    CASE given = "unused" -> "default"
      [] given = "empty"  -> given
      [] OTHER            -> "option"

\* --siemens-esn and --siemens-imei have defaults, so either one sets both.
FromIdentity(given, current) ==
    CASE given = "empty"  -> current
      [] given = "unused" -> "default"
      [] OTHER            -> "option"

ApplyIdentity ==
    /\ pc = "identity"
    /\ IdentityGiven
    /\ IF "invalid" \in {options.esn, options.imei}
       THEN /\ pc' = "exit"
            /\ UNCHANGED <<otp0, otp1>>
       ELSE /\ otp0' = FromIdentity(options.esn, otp0)
            /\ otp1' = FromIdentity(options.imei, otp1)
            /\ pc' = "drive"
    /\ UNCHANGED <<options, device, image, copy, drive, warned, launches, recalcVars>>

HasOtp == options.otp0 \/ options.otp1 \/ options.otherOtp

SkipIdentity ==
    /\ pc = "identity"
    /\ ~IdentityGiven
    /\ pc' = IF device = "siemens" /\ ~HasOtp THEN "keys" ELSE "drive"
    /\ UNCHANGED <<own, recalcVars>>

UseDefaultOtp ==
    /\ pc = "keys"
    /\ otp0' = "default"
    /\ otp1' = "default"
    /\ pc' = CASE options.recalc -> "read"
               [] ~options.recalc /\ options.fullflash -> "recover"
               [] OTHER -> "drive"
    /\ UNCHANGED <<options, device, image, copy, drive, warned, launches, recalcVars>>

-----------------------------------------------------------------------------
\* readFile into memory, an argument of recalculateFullflash.
ReadImage ==
    /\ pc = "read"
    /\ options.fullflash
    /\ loaded' = image
    /\ data' = image
    /\ part' = "enter"
    /\ next' = 1
    /\ changed' = FALSE
    /\ complete' = FALSE
    /\ pc' = "recalc"
    /\ UNCHANGED own

\* No fullflash was given, or it cannot be read.
ReadFails ==
    /\ pc = "read"
    /\ pc' = "exit"
    /\ UNCHANGED <<own, recalcVars>>

\* recalculateFullflash warns at its end if a required block was not replaced;
\* main does not look at "complete".
Recalculate ==
    /\ pc = "recalc"
    /\ R!Step
    /\ warned' = (part' = "returned" /\ ~complete)
    /\ UNCHANGED <<options, device, otp0, otp1, image, copy, drive, launches, pc>>

\* The image was patched in memory: replace the file, or make a private copy.
Keep ==
    IF options.rw
    THEN image' = data /\ UNCHANGED copy
    ELSE copy' = data /\ UNCHANGED image

\* Slip: an exception does not keep the patched bootcore from being stored.
KeepAlsoThrown ==
    /\ pc = "recalc"
    /\ part \in {"returned", "thrown"} /\ changed
    /\ Keep
    /\ pc' = "drive"
    /\ UNCHANGED <<options, device, otp0, otp1, drive, warned, launches, recalcVars>>

KeepResult ==
    /\ pc = "recalc"
    /\ part = "returned" /\ changed
    /\ Keep
    /\ pc' = "drive"
    /\ UNCHANGED <<options, device, otp0, otp1, drive, warned, launches, recalcVars>>

\* nullopt, or nothing differed.
NothingToKeep ==
    /\ pc = "recalc"
    /\ part = "skipped" \/ (part = "returned" /\ ~changed)
    /\ pc' = "drive"
    /\ UNCHANGED <<own, recalcVars>>

\* The EEPROM is malformed, or the result cannot be stored.
RecalcFails ==
    /\ pc = "recalc"
    /\ part = "thrown" \/ (part = "returned" /\ changed)
    /\ pc' = "exit"
    /\ UNCHANGED <<own, recalcVars>>

\* The known HASH stands for the default ESN (bruteforce.cpp:310-318); other
\* values come from the records of the image.
RecoverFinds ==
    /\ pc = "recover"
    /\ R!IsRecognised(image) /\ image.parses
    /\ otp0' = IF image.hash = "right" THEN "default" ELSE "image"
    /\ otp1' = IF image.imei = "right" THEN "default" ELSE "image"
    /\ pc' = "drive"
    /\ UNCHANGED <<options, device, image, copy, drive, warned, launches, recalcVars>>

\* Slip: recovery is skipped for any image that it cannot use.
SkipsQuietly ==
    /\ pc = "recover"
    /\ ~(R!IsRecognised(image) /\ image.parses)
    /\ pc' = "drive"
    /\ UNCHANGED <<own, recalcVars>>

\* nullopt: the HASH is erased, there is nothing to recover.
RecoverSkips ==
    /\ pc = "recover"
    /\ image.bootcore /\ image.hash = "erased"
    /\ pc' = "drive"
    /\ UNCHANGED <<own, recalcVars>>

\* An exception is only logged: the default OTP stays.
RecoverFails ==
    /\ pc = "recover"
    /\ warned' = TRUE
    /\ pc' = "drive"
    /\ UNCHANGED <<options, device, otp0, otp1, image, copy, drive, launches, recalcVars>>

-----------------------------------------------------------------------------
\* fullflash names the copy once there is one.
Drive ==
    IF options.fullflash
    THEN [path |-> IF copy = None THEN "file" ELSE "copy", writable |-> options.rw]
    ELSE NoDrive

BuildDrive ==
    /\ pc = "drive"
    /\ drive' = Drive
    /\ pc' = "qemu"
    /\ UNCHANGED <<options, device, otp0, otp1, image, copy, warned, launches, recalcVars>>

\* executeProcess returns QEMU's status or throws.
QemuExits ==
    /\ pc = "qemu"
    /\ pc' = "exit"
    /\ UNCHANGED <<own, recalcVars>>

\* The user starts the emulator again on the same fullflash, with or without
\* --rw and --siemens-recalc.
Relaunch ==
    /\ pc = "exit"
    /\ options.fullflash
    /\ launches < MaxLaunches
    /\ launches' = launches + 1
    /\ \E rw, recalc \in BOOLEAN : options' = [options EXCEPT !.rw = rw, !.recalc = recalc]
    /\ Fresh
    /\ UNCHANGED <<image, recalcVars>>

Exited == pc = "exit" /\ UNCHANGED vars

Next ==
    \/ CheckOptions \/ FindDevice \/ FindBoard
    \/ ReadOtpOptions \/ ApplyIdentity \/ SkipIdentity \/ UseDefaultOtp
    \/ ReadImage \/ ReadFails \/ Recalculate \/ KeepResult \/ NothingToKeep \/ RecalcFails
    \/ RecoverFinds \/ RecoverSkips \/ RecoverFails
    \/ BuildDrive \/ QemuExits
    \/ Relaunch \/ Exited

Spec == Init /\ [][Next]_vars

-----------------------------------------------------------------------------
\* The flags that recalculation reports on the image it was given, in any
\* launch: see ChangedIsExact and CompleteIsExact of Recalc.
ChangedIsExact == R!ChangedIsExact
CompleteIsExact == R!CompleteIsExact

\* Whatever fails, and in whatever order launches with different options come,
\* an image that main stores is the whole recalculation of the one it has read,
\* and differs from it: the file changes only under --rw, no half-patched image
\* gets out, and a recalculated file is never replaced or copied again.
StoredIsRecalculated ==
    [][/\ image' # image => options.rw /\ image' = R!Recalculated(image)
       /\ copy' \notin {copy, None} =>
             ~options.rw /\ copy' = R!Recalculated(image) /\ copy' # image]_vars

DriveImage == IF drive.path = "copy" THEN copy ELSE image

LauncherChoosesOtp ==
    options.fullflash /\ device = "siemens" /\ ~IdentityGiven /\ ~HasOtp

\* The OTP word that a bootcore field asks for.
WordFor(field) == IF field = "right" THEN "default" ELSE "image"

\* If main chooses the OTP words itself and the image QEMU gets has keys to
\* bind, QEMU starts without a warning only if both words are those that the
\* bootcore of that image asks for: the default ones for the default identity,
\* also where an earlier launch has put it, the recovered ones for the phone's
\* own; and under --siemens-recalc only if, besides, every block that the
\* firmware checks is the default identity's.  After a warning (a failed
\* recovery, a block that is missing or misfits) it starts all the same.
OtpFitsImage ==
    /\ pc = "qemu" /\ LauncherChoosesOtp /\ R!IsRecognised(DriveImage) /\ ~warned
    => /\ otp0 = WordFor(DriveImage.hash)
       /\ otp1 = WordFor(DriveImage.imei)
       /\ options.recalc =>
             /\ DriveImage.hash = "right" /\ DriveImage.imei = "right"
             /\ \A id \in Required : DriveImage.blocks[id] = "right"

=============================================================================
