---------------------------- MODULE FlashUpdate ----------------------------
(***************************************************************************)
(* What --siemens-recalc does to files: each launch reads the fullflash,   *)
(* recalculates it in memory and, if that changed anything, either         *)
(* replaces the file (--rw: replaceFile) or hands QEMU a private copy      *)
(* (TempFileCopy); then it runs QEMU, which writes the file under --rw,    *)
(* and cleans up.  Launches on the same path interleave, any system call   *)
(* may fail and a launch may be killed.                                    *)
(***************************************************************************)
EXTENDS FiniteSets, Naturals

CONSTANTS
    Launch,     \* emulator processes
    Writer,     \* those started with --rw
    Inode,      \* files, memfds included
    None        \* no file

ASSUME UpdateAssumption ==
    /\ Writer \subseteq Launch
    /\ None \notin Inode

VARIABLES
    target,     \* the inode the fullflash path names
    files,      \* content of each inode
    saved,      \* inodes that a QEMU has written to
    mode,       \* permissions of each inode
    pc,         \* control point of each launch
    read,       \* the content a launch has read
    temp,       \* the temporary file (or memfd) of a launch
    isNamed,    \* launches whose temporary file has a directory entry
    qemu,       \* the inode the launch's QEMU has open
    litter      \* ghost: temporary files that killed launches left behind

vars == <<target, files, saved, mode, pc, read, temp, isNamed, qemu, litter>>

\* "original" needs recalculation, "recalculated" does not any more, "unbound"
\* has no keys (recalculateFullflash returns nullopt), "malformed" makes the
\* EEPROM parser throw; "free" inodes do not exist.
Readable == {"original", "recalculated", "unbound", "malformed"}
Content == Readable \cup {"free", "empty", "partial"}

Ended == {"done", "error"}

TypeOK ==
    /\ target \in Inode
    /\ files \in [Inode -> Content]
    /\ saved \subseteq {i \in Inode : files[i] \in {"recalculated", "unbound"}}
    /\ mode \in [Inode -> {"user", "private"}]
    /\ pc \in [Launch -> {"idle", "patch", "create", "write", "mode", "rename", "discard",
                          "copy", "fallback", "start", "qemu"} \cup Ended]
    /\ read \in [Launch -> Content]
    /\ temp \in [Launch -> Inode \cup {None}]
    /\ isNamed \subseteq Launch
    /\ qemu \in [Launch -> Inode \cup {None}]
    /\ litter \subseteq Inode

Init ==
    /\ target \in Inode
    /\ \E c \in Readable : files = [i \in Inode |-> IF i = target THEN c ELSE "free"]
    /\ saved = {}
    /\ mode = [i \in Inode |-> "user"]
    /\ pc = [p \in Launch |-> "idle"]
    /\ read = [p \in Launch |-> "free"]
    /\ temp = [p \in Launch |-> None]
    /\ isNamed = {}
    /\ qemu = [p \in Launch |-> None]
    /\ litter = {}

-----------------------------------------------------------------------------
Goto(p, where) == pc' = [pc EXCEPT ![p] = where]

\* The inodes that still exist for someone: open in a QEMU, or named.
IsOpen(i, byQemu) == \E p \in Launch : byQemu[p] = i

\* readFile; an error here ends the launch (main.cpp:427-428, 444-446).
Read(p) ==
    /\ pc[p] = "idle"
    /\ read' = [read EXCEPT ![p] = files[target]]
    /\ pc' \in {[pc EXCEPT ![p] = "patch"], [pc EXCEPT ![p] = "error"]}
    /\ UNCHANGED <<target, files, saved, mode, temp, isNamed, qemu, litter>>

\* Slip: "changed" is not looked at, what could be recalculated is stored.
AlwaysReplace(p) ==
    CASE read[p] = "malformed" -> "error"
      [] read[p] = "unbound" -> "start"
      [] OTHER -> IF p \in Writer THEN "create" ELSE "copy"

\* recalculateFullflash in memory, see Recalc.
AfterPatch(p) ==
    CASE read[p] = "malformed" -> "error"
      [] read[p] \in {"recalculated", "unbound"} -> "start"
      [] OTHER -> IF p \in Writer THEN "create" ELSE "copy"

Patch(p) ==
    /\ pc[p] = "patch"
    /\ Goto(p, AfterPatch(p))
    /\ UNCHANGED <<target, files, saved, mode, read, temp, isNamed, qemu, litter>>

-----------------------------------------------------------------------------
\* replaceFile.  mkstemp makes a file only its owner can use.
CreateReplacement(p) ==
    /\ pc[p] = "create"
    /\ \E i \in Inode :
          /\ files[i] = "free"
          /\ files' = [files EXCEPT ![i] = "empty"]
          /\ mode' = [mode EXCEPT ![i] = "private"]
          /\ temp' = [temp EXCEPT ![p] = i]
    /\ isNamed' = isNamed \cup {p}
    /\ Goto(p, "write")
    /\ UNCHANGED <<target, saved, read, qemu, litter>>

\* canonical() or mkstemp() failed.
CreateFails(p) ==
    /\ pc[p] = "create"
    /\ Goto(p, "error")
    /\ UNCHANGED <<target, files, saved, mode, read, temp, isNamed, qemu, litter>>

\* Slip: a short write passes for a complete one.
ShortWrite(p) ==
    /\ pc[p] = "write"
    /\ files[temp[p]] = "empty"
    /\ files' = [files EXCEPT ![temp[p]] = "partial"]
    /\ Goto(p, "mode")
    /\ UNCHANGED <<target, saved, mode, read, temp, isNamed, qemu, litter>>

\* writeFile; the data reaches the file in more than one system call.
WriteSome(p) ==
    /\ pc[p] = "write"
    /\ files[temp[p]] = "empty"
    /\ files' = [files EXCEPT ![temp[p]] = "partial"]
    /\ UNCHANGED <<target, saved, mode, pc, read, temp, isNamed, qemu, litter>>

WriteRest(p) ==
    /\ pc[p] = "write"
    /\ files[temp[p]] = "partial"
    /\ files' = [files EXCEPT ![temp[p]] = "recalculated"]
    /\ Goto(p, "mode")
    /\ UNCHANGED <<target, saved, mode, read, temp, isNamed, qemu, litter>>

\* Any later step of replaceFile may fail, too; the replacement is removed.
ReplaceFails(p) ==
    /\ pc[p] \in {"write", "mode", "rename"}
    /\ Goto(p, "discard")
    /\ UNCHANGED <<target, files, saved, mode, read, temp, isNamed, qemu, litter>>

\* Slip: the replacement is not removed when replaceFile fails.
DiscardForgotten(p) ==
    /\ pc[p] = "discard"
    /\ temp' = [temp EXCEPT ![p] = None]
    /\ isNamed' = isNamed \ {p}
    /\ Goto(p, "error")
    /\ UNCHANGED <<target, files, saved, mode, read, qemu, litter>>

Discard(p) ==
    /\ pc[p] = "discard"
    /\ files' = [files EXCEPT ![temp[p]] = "free"]
    /\ temp' = [temp EXCEPT ![p] = None]
    /\ isNamed' = isNamed \ {p}
    /\ Goto(p, "error")
    /\ UNCHANGED <<target, saved, mode, read, qemu, litter>>

CopyMode(p) ==
    /\ pc[p] = "mode"
    /\ mode' = [mode EXCEPT ![temp[p]] = mode[target]]
    /\ Goto(p, "rename")
    /\ UNCHANGED <<target, files, saved, read, temp, isNamed, qemu, litter>>

\* What QEMU wrote goes with the inode.
StillSaved == {i \in saved : files'[i] # "free"}

\* Slip: the name of the replacement is used after it has been moved from.
RenameMovedFrom(p) ==
    /\ pc[p] = "rename"
    /\ target' = None
    /\ files' = [files EXCEPT ![target] = "free"]
    /\ saved' = StillSaved
    /\ temp' = [temp EXCEPT ![p] = None]
    /\ isNamed' = isNamed \ {p}
    /\ Goto(p, "start")
    /\ UNCHANGED <<mode, read, qemu, litter>>

Rename(p) ==
    /\ pc[p] = "rename"
    /\ target' = temp[p]
    /\ files' = [files EXCEPT ![target] = IF IsOpen(target, qemu) THEN @ ELSE "free"]
    /\ saved' = StillSaved
    /\ temp' = [temp EXCEPT ![p] = None]
    /\ isNamed' = isNamed \ {p}
    /\ Goto(p, "start")
    /\ UNCHANGED <<mode, read, qemu, litter>>

-----------------------------------------------------------------------------
\* TempFileCopy::create: a memfd, or else a file in the temporary directory.
CreateCopy(p) ==
    /\ pc[p] = "copy"
    /\ \E i \in Inode :
          /\ files[i] = "free"
          /\ files' = [files EXCEPT ![i] = "recalculated"]
          /\ temp' = [temp EXCEPT ![p] = i]
    /\ Goto(p, "start")
    /\ UNCHANGED <<target, saved, mode, read, isNamed, qemu, litter>>

MemfdFails(p) ==
    /\ pc[p] = "copy"
    /\ Goto(p, "fallback")
    /\ UNCHANGED <<target, files, saved, mode, read, temp, isNamed, qemu, litter>>

CreateTempFile(p) ==
    /\ pc[p] = "fallback"
    /\ \E i \in Inode :
          /\ files[i] = "free"
          /\ files' = [files EXCEPT ![i] = "recalculated"]
          /\ temp' = [temp EXCEPT ![p] = i]
    /\ isNamed' = isNamed \cup {p}
    /\ Goto(p, "start")
    /\ UNCHANGED <<target, saved, mode, read, qemu, litter>>

\* writeFile failed and the temporary file was removed again.
CopyFails(p) ==
    /\ pc[p] = "fallback"
    /\ Goto(p, "error")
    /\ UNCHANGED <<target, files, saved, mode, read, temp, isNamed, qemu, litter>>

-----------------------------------------------------------------------------
\* Slip: the copy is made and then not used.
CopyUnused(p) == target

\* QEMU opens the copy if there is one, the fullflash path otherwise.
DrivePath(p) == IF temp[p] = None THEN target ELSE temp[p]

StartQemu(p) ==
    /\ pc[p] = "start"
    /\ qemu' = [qemu EXCEPT ![p] = DrivePath(p)]
    /\ Goto(p, "qemu")
    /\ UNCHANGED <<target, files, saved, mode, read, temp, isNamed, litter>>

\* The guest writes its flash: QEMU has the drive open for writing under --rw,
\* whatever the path names by now.
QemuWrites(p) ==
    /\ pc[p] = "qemu"
    /\ p \in Writer
    /\ saved' = saved \cup {qemu[p]}
    /\ UNCHANGED <<target, files, mode, pc, read, temp, isNamed, qemu, litter>>

\* What is left of the files once launch p, and its QEMU, let go of them.
\* A file with a name survives unless its launch removes it.
FilesWithout(p, removesTemp) ==
    LET others == [qemu EXCEPT ![p] = None]
        goes(i) == /\ i \in {qemu[p], temp[p]}
                   /\ i # target
                   /\ i = temp[p] /\ p \in isNamed => removesTemp
                   /\ ~IsOpen(i, others)
    IN  [i \in Inode |-> IF goes(i) THEN "free" ELSE files[i]]

\* executeProcess has reaped QEMU; ~TempFileCopy removes the copy.
QemuExits(p) ==
    /\ pc[p] = "qemu"
    /\ files' = FilesWithout(p, TRUE)
    /\ saved' = StillSaved
    /\ qemu' = [qemu EXCEPT ![p] = None]
    /\ temp' = [temp EXCEPT ![p] = None]
    /\ isNamed' = isNamed \ {p}
    /\ Goto(p, "done")
    /\ UNCHANGED <<target, mode, read, litter>>

\* A signal kills the launch, and its QEMU with it: no destructor runs.
Kill(p) ==
    /\ pc[p] \notin Ended \cup {"idle"}
    /\ files' = FilesWithout(p, FALSE)
    /\ saved' = StillSaved
    /\ litter' = litter \cup (IF p \in isNamed THEN {temp[p]} ELSE {})
    /\ qemu' = [qemu EXCEPT ![p] = None]
    /\ temp' = [temp EXCEPT ![p] = None]
    /\ isNamed' = isNamed \ {p}
    /\ Goto(p, "done")
    /\ UNCHANGED <<target, mode, read>>

Relaunch(p) ==
    /\ pc[p] \in Ended
    /\ read' = [read EXCEPT ![p] = "free"]
    /\ Goto(p, "idle")
    /\ UNCHANGED <<target, files, saved, mode, temp, isNamed, qemu, litter>>

Replace(p) ==
    \/ CreateReplacement(p) \/ CreateFails(p) \/ WriteSome(p) \/ WriteRest(p)
    \/ CopyMode(p) \/ Rename(p) \/ ReplaceFails(p) \/ Discard(p)

Copy(p) == CreateCopy(p) \/ MemfdFails(p) \/ CreateTempFile(p) \/ CopyFails(p)

Step(p) == Read(p) \/ Patch(p) \/ Replace(p) \/ Copy(p) \/ StartQemu(p) \/ QemuWrites(p) \/ QemuExits(p)

Next == \E p \in Launch : Step(p) \/ Kill(p) \/ Relaunch(p)

Spec == Init /\ [][Next]_vars

-----------------------------------------------------------------------------
File == INSTANCE FullflashFile WITH content <- files[target], saved <- target \in saved,
                                    permissions <- mode[target]

\* Whenever a launch is killed, and whatever fails, the fullflash path names a
\* complete file with the user's permissions (file.cpp:67-76): for whoever
\* opens the path the file changes in one step from what it held to its
\* recalculated form, or by a QEMU that runs on it.
ImplementsFile == File!Spec

\* QEMU never starts on an image that still needs recalculation, nor on a
\* temporary file that is incomplete, even if another launch replaces the
\* file between this launch's recalculation and its QEMU.
RunsConsistentImage ==
    \A p \in Launch : qemu[p] # None => files[qemu[p]] \in {"recalculated", "unbound"}

\* Every inode that exists is the fullflash, the temporary file of a launch at
\* work, open in a QEMU, or was left behind by a killed launch: a launch that
\* fails on its own removes what it created.
NoStrayFiles ==
    \A i \in Inode : files[i] # "free" =>
        \/ i = target
        \/ i \in litter
        \/ \E p \in Launch : i \in {temp[p], qemu[p]}

\* The path moves to another inode, and with that the phone loses what it has
\* saved in the old one, only through a --rw launch that had read the file
\* before it was recalculated: a launch that starts later leaves it alone.
OnlyOldReadsReplace ==
    [][target' # target =>
          \E p \in Writer : pc[p] = "rename" /\ target' = temp[p] /\ read[p] = "original"]_vars

=============================================================================
