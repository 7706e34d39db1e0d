---------------------------- MODULE OtpRecovery ----------------------------
(***************************************************************************)
(* recoverOtp as run by several launches of the emulator on one fullflash  *)
(* path, sharing the ESN cache file <path>.esn.  Each launch reads the     *)
(* image once, consults the cache, searches, and tries to write the cache; *)
(* meanwhile the user may replace the image or delete the cache, the disk  *)
(* may be full, and a launch may be killed at any step.                    *)
(***************************************************************************)
EXTENDS EsnEvidence, Naturals

CONSTANTS
    Launch,         \* emulator processes
    Images,         \* fullflash images the path may hold
    TextSize,       \* length of the cache text written for an image
    EsnOfHash,      \* the ESN behind each HASH
    MayReplace,     \* the user may put another image at the path
    MayDelete,      \* the user may delete the cache
    MayCrash,       \* launches may be killed
    MayFillDisk     \* writes to the cache may fail

NotErased(i) == i.hash # None

\* The records of an image belong to the phone its HASH was made for.  The
\* code relies on it: the cache is keyed by the HASH alone (esn.cpp:34).
ASSUME RecoveryAssumption ==
    /\ Images \subseteq FlashImage
    /\ TextSize \in [Images -> Nat]
    /\ EsnOfHash \in [Hash -> Esn]
    /\ \A i \in Images : NotErased(i) => RecoveredEsns(i) \subseteq {EsnOfHash[i.hash]}
    /\ {MayReplace, MayDelete, MayCrash, MayFillDisk} \subseteq BOOLEAN

VARIABLES
    image,      \* the fullflash at the path
    file,       \* the cache file
    pc,         \* control point of each launch
    img,        \* the image a launch has read
    esn,        \* the ESN a launch has, from the cache or from a search
    lost,       \* launches whose open cache file has been deleted
    spent       \* ghost: a completed search of the current image is over

vars == <<image, file, pc, img, esn, lost, spent>>

NoFile == [text |-> "absent", hash |-> None, esn |-> None, size |-> 0]
Broken(size) == [text |-> "broken", hash |-> None, esn |-> None, size |-> size]
\* Slip: ESN and HASH change places in the text.
CacheTextSwapped(i, e) == [text |-> "cache", hash |-> e, esn |-> i.hash, size |-> TextSize[i]]

CacheText(i, e) == [text |-> "cache", hash |-> i.hash, esn |-> e, size |-> TextSize[i]]

Working == {"lookup", "search", "exists", "open", "flush", "answer"}
Outcome == {"otp", "skipped", "failed"}

TypeOK ==
    /\ image \in Images
    /\ file \in [text : {"absent", "broken", "cache"}, hash : Hash \cup {None},
                 esn : Esn \cup {None}, size : Nat]
    /\ pc \in [Launch -> {"idle"} \cup Working \cup Outcome]
    /\ img \in [Launch -> Images \cup {None}]
    /\ esn \in [Launch -> Esn \cup {None}]
    /\ lost \subseteq Launch
    /\ spent \in BOOLEAN

Init ==
    /\ image \in Images
    /\ file = NoFile
    /\ pc = [p \in Launch |-> "idle"]
    /\ img = [p \in Launch |-> None]
    /\ esn = [p \in Launch |-> None]
    /\ lost = {}
    /\ spent = FALSE

Goto(p, where) == pc' = [pc EXCEPT ![p] = where]

-----------------------------------------------------------------------------
\* recoverOtp, first half: read the image, recognise it, extract its identity.
AfterRead(i) ==
    CASE ~i.bootcore -> "failed"
      [] i.bootcore /\ ~NotErased(i) -> "skipped"
      [] i.bootcore /\ NotErased(i) /\ ~i.named -> "failed"
      [] OTHER -> "lookup"

ReadImage(p) ==
    /\ pc[p] = "idle"
    /\ img' = [img EXCEPT ![p] = image]
    /\ Goto(p, AfterRead(image))
    /\ UNCHANGED <<image, file, esn, lost, spent>>

ReadImageFails(p) ==
    /\ pc[p] = "idle"
    /\ Goto(p, "failed")
    /\ UNCHANGED <<image, file, img, esn, lost, spent>>

\* Slip: any cache that parses is taken for the image's own.
AnyCache(i) == file.text = "cache"

\* readEsnCache: only a parsable file with the HASH of the image counts.
IsHit(i) == file.text = "cache" /\ file.hash = i.hash

CacheHit(p) ==
    /\ pc[p] = "lookup"
    /\ IsHit(img[p])
    /\ esn' = [esn EXCEPT ![p] = file.esn]
    /\ Goto(p, "answer")
    /\ UNCHANGED <<image, file, img, lost, spent>>

StartSearch(p) ==
    /\ pc[p] = "lookup"
    /\ ~IsHit(img[p])
    /\ Goto(p, "search")
    /\ UNCHANGED <<image, file, img, esn, lost, spent>>

\* Slip: the search opens the path again instead of using the data it has read.
SearchReadsAgain(p) ==
    /\ pc[p] = "search"
    /\ \E e \in RecoveredEsns(image) : esn' = [esn EXCEPT ![p] = e]
    /\ Goto(p, "exists")
    /\ UNCHANGED <<image, file, img, lost, spent>>

SearchFinds(p) ==
    /\ pc[p] = "search"
    /\ \E e \in RecoveredEsns(img[p]) : esn' = [esn EXCEPT ![p] = e]
    /\ Goto(p, "exists")
    /\ UNCHANGED <<image, file, img, lost, spent>>

SearchFails(p) ==
    /\ pc[p] = "search"
    /\ RecoveredEsns(img[p]) = {}
    /\ Goto(p, "failed")
    /\ UNCHANGED <<image, file, img, esn, lost, spent>>

-----------------------------------------------------------------------------
\* writeEsnCache; whatever it throws is logged by recoverIdentity.
CheckExists(p) ==
    /\ pc[p] = "exists"
    /\ Goto(p, IF file = NoFile THEN "open" ELSE "answer")
    /\ UNCHANGED <<image, file, img, esn, lost, spent>>

\* std::ofstream(path, trunc): creates the file or empties an existing one.
OpenCache(p) ==
    /\ pc[p] = "open"
    /\ file' = Broken(0)
    /\ Goto(p, "flush")
    /\ UNCHANGED <<image, img, esn, lost, spent>>

\* Slip: the exception of writeEsnCache is not caught.
OpenFailureEscapes(p) ==
    /\ pc[p] = "open"
    /\ MayFillDisk
    /\ Goto(p, "failed")
    /\ UNCHANGED <<image, file, img, esn, lost, spent>>

OpenFails(p) ==
    /\ pc[p] = "open"
    /\ MayFillDisk
    /\ Goto(p, "answer")
    /\ UNCHANGED <<image, file, img, esn, lost, spent>>

\* The text leaves the stream's buffer when the stream is destroyed, after
\* the last check.  A longer text of another launch keeps its tail.  TOML may
\* still parse: the keys are in alphabetical order, and below a text without
\* IMEI the tail of one with an IMEI is the line KEY='...' of its SKEY.  As all
\* five keys come first, what parses says what the shorter text says.
Overlay(text) ==
    IF file.size > text.size
    THEN {Broken(file.size), [text EXCEPT !.size = file.size]}
    ELSE {text}

Flush(p) ==
    /\ pc[p] = "flush"
    /\ file' \in IF p \in lost THEN {file} ELSE Overlay(CacheText(img[p], esn[p]))
    /\ lost' = lost \ {p}
    /\ Goto(p, "answer")
    /\ UNCHANGED <<image, img, esn, spent>>

\* A full disk cuts the text short and nobody notices.  What is left of it may
\* still parse, if ESN and HASH, which come before IMEI and SKEY, got through.
CutText(p) ==
    IF p \in lost \/ file.size > 0 THEN {file} ELSE {file, CacheText(img[p], esn[p])}

FlushFails(p) ==
    /\ pc[p] = "flush"
    /\ MayFillDisk
    /\ file' \in CutText(p)
    /\ lost' = lost \ {p}
    /\ Goto(p, "answer")
    /\ UNCHANGED <<image, img, esn, spent>>

\* recoverOtp, second half: imeiToOtp throws unless there is an IMEI.
GiveAnswer(p) ==
    /\ pc[p] = "answer"
    /\ Goto(p, IF ImeiOf(img[p]) = None THEN "failed" ELSE "otp")
    /\ spent' = (spent \/ img[p] = image)
    /\ UNCHANGED <<image, file, img, esn, lost>>

-----------------------------------------------------------------------------
\* The emulator is started again.
Relaunch(p) ==
    /\ pc[p] \in Outcome
    /\ Goto(p, "idle")
    /\ img' = [img EXCEPT ![p] = None]
    /\ esn' = [esn EXCEPT ![p] = None]
    /\ UNCHANGED <<image, file, lost, spent>>

\* A kill loses the stream's buffer, not the file it has created.
Kill(p) ==
    /\ MayCrash
    /\ pc[p] \in Working
    /\ Goto(p, "idle")
    /\ img' = [img EXCEPT ![p] = None]
    /\ esn' = [esn EXCEPT ![p] = None]
    /\ lost' = lost \ {p}
    /\ UNCHANGED <<image, file, spent>>

\* The user's own actions.
ReplaceImage ==
    /\ MayReplace
    /\ \E i \in Images \ {image} : image' = i
    /\ spent' = FALSE
    /\ UNCHANGED <<file, pc, img, esn, lost>>

DeleteCache ==
    /\ MayDelete
    /\ file # NoFile
    /\ file' = NoFile
    /\ lost' = lost \cup {p \in Launch : pc[p] = "flush"}
    /\ spent' = FALSE
    /\ UNCHANGED <<image, pc, img, esn>>

Recover(p) ==
    \/ ReadImage(p) \/ ReadImageFails(p)
    \/ CacheHit(p) \/ StartSearch(p) \/ SearchFinds(p) \/ SearchFails(p)
    \/ CheckExists(p) \/ OpenCache(p) \/ OpenFails(p) \/ Flush(p) \/ FlushFails(p)
    \/ GiveAnswer(p)

Next ==
    \/ \E p \in Launch : Recover(p) \/ Relaunch(p) \/ Kill(p)
    \/ ReplaceImage
    \/ DeleteCache

Spec == Init /\ [][Next]_vars

-----------------------------------------------------------------------------
\* A text that parses pairs a HASH with the ESN behind that HASH, whatever
\* launches overwrote each other, were killed or ran out of disk.
CachePairsRight == file.text = "cache" => file.esn = EsnOfHash[file.hash]

\* The OTP a launch presents is that of the phone whose image it has read,
\* even if the image, or the cache, changed while it was at work.
RightEsn ==
    \A p \in Launch : pc[p] \in {"answer", "otp"} => esn[p] = EsnOfHash[img[p].hash]

\* Trouble with the cache file never costs an answer: a launch that has read
\* its image fails only because of what the image holds (fullflash.cpp:278-284).
FailsForTheImage ==
    \A p \in Launch : pc[p] = "failed" /\ img[p] # None =>
        \/ ~img[p].bootcore \/ ~img[p].named
        \/ RecoveredEsns(img[p]) = {}
        \/ ImeiOf(img[p]) = None

\* "The 32-bit search only runs once while the fullflash identity remains
\* unchanged" (recalc-siemens-fullflash.md:13-14): no launch searches an image
\* that a launch has already answered for.
SearchRunsOnce ==
    [][\A p \in Launch : StartSearch(p) /\ img[p] = image => ~spent]_vars

\* "Recovery can use BKEY or the bootcore HASH with SKEY"
\* (recalc-siemens-fullflash.md:44-45): with them, recovery succeeds.
KeyIsEnough ==
    \A p \in Launch : pc[p] = "failed" /\ img[p] # None =>
        ~(img[p].bootcore /\ img[p].named /\ AcceptsKey(img[p]) # {})

=============================================================================
