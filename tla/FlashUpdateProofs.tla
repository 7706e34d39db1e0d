------------------------- MODULE FlashUpdateProofs -------------------------
(***************************************************************************)
(* Proofs about FlashUpdate for any number of launches and files: whoever  *)
(* opens the fullflash path finds a complete file that changes atomically, *)
(* QEMU runs on consistent images, and no launch leaves files behind but   *)
(* those that are killed.                                                  *)
(***************************************************************************)
EXTENDS FlashUpdate, TLAPS

Replacing == {"write", "mode", "rename", "discard"}

\* A temporary file belongs to one launch, is no QEMU's but that launch's own,
\* and is not the fullflash.
TempsArePrivate ==
    \A p \in Launch : temp[p] # None =>
        /\ temp[p] # target
        /\ pc[p] \in Replacing \cup {"start", "qemu"}
        /\ \A q \in Launch : temp[q] = temp[p] => q = p
        /\ \A q \in Launch : qemu[q] = temp[p] => q = p /\ pc[p] = "qemu"

\* What a launch knows when it is about to replace or copy the file.
KnowsContent ==
    \A p \in Launch :
        /\ pc[p] \in {"create", "copy", "fallback"} \cup Replacing => read[p] = "original"
        /\ pc[p] \in {"create"} \cup Replacing => p \in Writer
        /\ read[p] = "original" => files[target] \in {"original", "recalculated"}
        /\ read[p] \in Readable \ {"original"} => files[target] = read[p]
        /\ pc[p] = "patch" => read[p] \in Readable

\* How far a replacement or a copy is.
TempContent ==
    \A p \in Launch :
        /\ pc[p] \in Replacing => temp[p] # None /\ p \in isNamed /\ temp[p] \notin saved
        /\ pc[p] = "write" => files[temp[p]] \in {"empty", "partial"}
        /\ pc[p] \in {"mode", "rename"} => files[temp[p]] = "recalculated"
        /\ pc[p] = "rename" => mode[temp[p]] = "user"
        /\ pc[p] = "start" =>
              IF temp[p] = None THEN files[target] \in {"recalculated", "unbound"}
              ELSE files[temp[p]] = "recalculated"
        /\ temp[p] # None => files[temp[p]] # "free"
        /\ p \in isNamed => temp[p] # None
        /\ pc[p] = "qemu" <=> qemu[p] # None

IInv ==
    /\ TypeOK
    /\ files[target] \in Readable
    /\ mode[target] = "user"
    /\ RunsConsistentImage
    /\ NoStrayFiles
    /\ TempsArePrivate
    /\ KnowsContent
    /\ TempContent

\* Before the first launch nothing is open and nothing is temporary.
LEMMA IInvInit == Init => IInv
BY UpdateAssumption DEF Init, IInv, TypeOK, Readable, Content, Replacing, RunsConsistentImage,
   NoStrayFiles, TempsArePrivate, KnowsContent, TempContent

\* The invariant is inductive: under each action, one step per conjunct.
LEMMA IInvNext == IInv /\ [Next]_vars => IInv'
<1> SUFFICES ASSUME IInv, [Next]_vars PROVE IInv'
  OBVIOUS
<1> USE UpdateAssumption DEF IInv, Goto, Replacing, Readable, Content, Ended
<1>1. ASSUME NEW p \in Launch, Read(p) PROVE IInv'
  <2>1. TypeOK'
    BY <1>1 DEF Read, TypeOK, TempContent
  <2>2. files'[target'] \in Readable /\ mode'[target'] = "user"
    BY <1>1 DEF Read, TypeOK, TempsArePrivate, TempContent
  <2>3. RunsConsistentImage'
    BY <1>1 DEF Read, TypeOK, RunsConsistentImage, TempsArePrivate, TempContent
  <2>4. NoStrayFiles'
    BY <1>1 DEF Read, TypeOK, NoStrayFiles, TempsArePrivate, TempContent
  <2>5. TempsArePrivate'
    BY <1>1 DEF Read, TypeOK, RunsConsistentImage, TempsArePrivate, TempContent
  <2>6. KnowsContent'
    BY <1>1 DEF Read, TypeOK, KnowsContent, TempsArePrivate, TempContent
  <2>7. TempContent'
    BY <1>1 DEF Read, TypeOK, RunsConsistentImage, TempsArePrivate, KnowsContent, TempContent
  <2> QED BY <2>1, <2>2, <2>3, <2>4, <2>5, <2>6, <2>7
<1>2. ASSUME NEW p \in Launch, Patch(p) PROVE IInv'
  <2>1. TypeOK'
    BY <1>2 DEF Patch, TypeOK, TempContent, AfterPatch
  <2>2. files'[target'] \in Readable /\ mode'[target'] = "user"
    BY <1>2 DEF Patch, TypeOK, TempsArePrivate, TempContent, AfterPatch
  <2>3. RunsConsistentImage'
    BY <1>2 DEF Patch, TypeOK, RunsConsistentImage, TempsArePrivate, TempContent, AfterPatch
  <2>4. NoStrayFiles'
    BY <1>2 DEF Patch, TypeOK, NoStrayFiles, TempsArePrivate, TempContent, AfterPatch
  <2>5. TempsArePrivate'
    BY <1>2 DEF Patch, TypeOK, RunsConsistentImage, TempsArePrivate, TempContent, AfterPatch
  <2>6. KnowsContent'
    BY <1>2 DEF Patch, TypeOK, KnowsContent, TempsArePrivate, TempContent, AfterPatch
  <2>7. TempContent'
    BY <1>2 DEF Patch, TypeOK, RunsConsistentImage, TempsArePrivate, KnowsContent, TempContent, AfterPatch
  <2> QED BY <2>1, <2>2, <2>3, <2>4, <2>5, <2>6, <2>7
<1>3. ASSUME NEW p \in Launch, CreateReplacement(p) PROVE IInv'
  <2>1. TypeOK'
    BY <1>3 DEF CreateReplacement, TypeOK, TempContent
  <2>2. files'[target'] \in Readable /\ mode'[target'] = "user"
    BY <1>3 DEF CreateReplacement, TypeOK, TempsArePrivate, TempContent
  <2>3. RunsConsistentImage'
    BY <1>3 DEF CreateReplacement, TypeOK, RunsConsistentImage, TempsArePrivate, TempContent
  <2>4. NoStrayFiles'
    BY <1>3 DEF CreateReplacement, TypeOK, NoStrayFiles, TempsArePrivate, TempContent
  <2>5. TempsArePrivate'
    BY <1>3 DEF CreateReplacement, TypeOK, RunsConsistentImage, TempsArePrivate, TempContent
  <2>6. KnowsContent'
    BY <1>3 DEF CreateReplacement, TypeOK, KnowsContent, TempsArePrivate, TempContent
  <2>7. TempContent'
    BY <1>3 DEF CreateReplacement, TypeOK, RunsConsistentImage, TempsArePrivate, KnowsContent, TempContent
  <2> QED BY <2>1, <2>2, <2>3, <2>4, <2>5, <2>6, <2>7
<1>4. ASSUME NEW p \in Launch, CreateFails(p) PROVE IInv'
  <2>1. TypeOK'
    BY <1>4 DEF CreateFails, TypeOK, TempContent
  <2>2. files'[target'] \in Readable /\ mode'[target'] = "user"
    BY <1>4 DEF CreateFails, TypeOK, TempsArePrivate, TempContent
  <2>3. RunsConsistentImage'
    BY <1>4 DEF CreateFails, TypeOK, RunsConsistentImage, TempsArePrivate, TempContent
  <2>4. NoStrayFiles'
    BY <1>4 DEF CreateFails, TypeOK, NoStrayFiles, TempsArePrivate, TempContent
  <2>5. TempsArePrivate'
    BY <1>4 DEF CreateFails, TypeOK, RunsConsistentImage, TempsArePrivate, TempContent
  <2>6. KnowsContent'
    BY <1>4 DEF CreateFails, TypeOK, KnowsContent, TempsArePrivate, TempContent
  <2>7. TempContent'
    BY <1>4 DEF CreateFails, TypeOK, RunsConsistentImage, TempsArePrivate, KnowsContent, TempContent
  <2> QED BY <2>1, <2>2, <2>3, <2>4, <2>5, <2>6, <2>7
<1>5. ASSUME NEW p \in Launch, WriteSome(p) PROVE IInv'
  <2>1. TypeOK'
    BY <1>5 DEF WriteSome, TypeOK, TempContent
  <2>2. files'[target'] \in Readable /\ mode'[target'] = "user"
    BY <1>5 DEF WriteSome, TypeOK, TempsArePrivate, TempContent
  <2>3. RunsConsistentImage'
    BY <1>5 DEF WriteSome, TypeOK, RunsConsistentImage, TempsArePrivate, TempContent
  <2>4. NoStrayFiles'
    BY <1>5 DEF WriteSome, TypeOK, NoStrayFiles, TempsArePrivate, TempContent
  <2>5. TempsArePrivate'
    BY <1>5 DEF WriteSome, TypeOK, RunsConsistentImage, TempsArePrivate, TempContent
  <2>6. KnowsContent'
    BY <1>5 DEF WriteSome, TypeOK, KnowsContent, TempsArePrivate, TempContent
  <2>7. TempContent'
    BY <1>5 DEF WriteSome, TypeOK, RunsConsistentImage, TempsArePrivate, KnowsContent, TempContent
  <2> QED BY <2>1, <2>2, <2>3, <2>4, <2>5, <2>6, <2>7
<1>6. ASSUME NEW p \in Launch, WriteRest(p) PROVE IInv'
  <2>1. TypeOK'
    BY <1>6 DEF WriteRest, TypeOK, TempContent
  <2>2. files'[target'] \in Readable /\ mode'[target'] = "user"
    BY <1>6 DEF WriteRest, TypeOK, TempsArePrivate, TempContent
  <2>3. RunsConsistentImage'
    BY <1>6 DEF WriteRest, TypeOK, RunsConsistentImage, TempsArePrivate, TempContent
  <2>4. NoStrayFiles'
    BY <1>6 DEF WriteRest, TypeOK, NoStrayFiles, TempsArePrivate, TempContent
  <2>5. TempsArePrivate'
    BY <1>6 DEF WriteRest, TypeOK, RunsConsistentImage, TempsArePrivate, TempContent
  <2>6. KnowsContent'
    BY <1>6 DEF WriteRest, TypeOK, KnowsContent, TempsArePrivate, TempContent
  <2>7. TempContent'
    BY <1>6 DEF WriteRest, TypeOK, RunsConsistentImage, TempsArePrivate, KnowsContent, TempContent
  <2> QED BY <2>1, <2>2, <2>3, <2>4, <2>5, <2>6, <2>7
<1>7. ASSUME NEW p \in Launch, ReplaceFails(p) PROVE IInv'
  <2>1. TypeOK'
    BY <1>7 DEF ReplaceFails, TypeOK, TempContent
  <2>2. files'[target'] \in Readable /\ mode'[target'] = "user"
    BY <1>7 DEF ReplaceFails, TypeOK, TempsArePrivate, TempContent
  <2>3. RunsConsistentImage'
    BY <1>7 DEF ReplaceFails, TypeOK, RunsConsistentImage, TempsArePrivate, TempContent
  <2>4. NoStrayFiles'
    BY <1>7 DEF ReplaceFails, TypeOK, NoStrayFiles, TempsArePrivate, TempContent
  <2>5. TempsArePrivate'
    BY <1>7 DEF ReplaceFails, TypeOK, RunsConsistentImage, TempsArePrivate, TempContent
  <2>6. KnowsContent'
    BY <1>7 DEF ReplaceFails, TypeOK, KnowsContent, TempsArePrivate, TempContent
  <2>7. TempContent'
    BY <1>7 DEF ReplaceFails, TypeOK, RunsConsistentImage, TempsArePrivate, KnowsContent, TempContent
  <2> QED BY <2>1, <2>2, <2>3, <2>4, <2>5, <2>6, <2>7
<1>8. ASSUME NEW p \in Launch, Discard(p) PROVE IInv'
  <2>1. TypeOK'
    BY <1>8 DEF Discard, TypeOK, TempContent
  <2>2. files'[target'] \in Readable /\ mode'[target'] = "user"
    BY <1>8 DEF Discard, TypeOK, TempsArePrivate, TempContent
  <2>3. RunsConsistentImage'
    BY <1>8 DEF Discard, TypeOK, RunsConsistentImage, TempsArePrivate, TempContent
  <2>4. NoStrayFiles'
    BY <1>8 DEF Discard, TypeOK, NoStrayFiles, TempsArePrivate, TempContent
  <2>5. TempsArePrivate'
    BY <1>8 DEF Discard, TypeOK, RunsConsistentImage, TempsArePrivate, TempContent
  <2>6. KnowsContent'
    BY <1>8 DEF Discard, TypeOK, KnowsContent, TempsArePrivate, TempContent
  <2>7. TempContent'
    BY <1>8 DEF Discard, TypeOK, RunsConsistentImage, TempsArePrivate, KnowsContent, TempContent
  <2> QED BY <2>1, <2>2, <2>3, <2>4, <2>5, <2>6, <2>7
<1>9. ASSUME NEW p \in Launch, CopyMode(p) PROVE IInv'
  <2>1. TypeOK'
    BY <1>9 DEF CopyMode, TypeOK, TempContent
  <2>2. files'[target'] \in Readable /\ mode'[target'] = "user"
    BY <1>9 DEF CopyMode, TypeOK, TempsArePrivate, TempContent
  <2>3. RunsConsistentImage'
    BY <1>9 DEF CopyMode, TypeOK, RunsConsistentImage, TempsArePrivate, TempContent
  <2>4. NoStrayFiles'
    BY <1>9 DEF CopyMode, TypeOK, NoStrayFiles, TempsArePrivate, TempContent
  <2>5. TempsArePrivate'
    BY <1>9 DEF CopyMode, TypeOK, RunsConsistentImage, TempsArePrivate, TempContent
  <2>6. KnowsContent'
    BY <1>9 DEF CopyMode, TypeOK, KnowsContent, TempsArePrivate, TempContent
  <2>7. TempContent'
    BY <1>9 DEF CopyMode, TypeOK, RunsConsistentImage, TempsArePrivate, KnowsContent, TempContent
  <2> QED BY <2>1, <2>2, <2>3, <2>4, <2>5, <2>6, <2>7
<1>10. ASSUME NEW p \in Launch, Rename(p) PROVE IInv'
  <2>1. TypeOK'
    BY <1>10 DEF Rename, TypeOK, TempContent, StillSaved, IsOpen
  <2>2. files'[target'] \in Readable /\ mode'[target'] = "user"
    BY <1>10 DEF Rename, TypeOK, TempsArePrivate, TempContent, StillSaved, IsOpen
  <2>3. RunsConsistentImage'
    BY <1>10 DEF Rename, TypeOK, RunsConsistentImage, TempsArePrivate, TempContent, StillSaved, IsOpen
  <2>4. NoStrayFiles'
    BY <1>10 DEF Rename, TypeOK, NoStrayFiles, TempsArePrivate, TempContent, StillSaved, IsOpen
  <2>5. TempsArePrivate'
    BY <1>10 DEF Rename, TypeOK, RunsConsistentImage, TempsArePrivate, TempContent, StillSaved, IsOpen
  <2>6. KnowsContent'
    BY <1>10 DEF Rename, TypeOK, KnowsContent, TempsArePrivate, TempContent, StillSaved, IsOpen
  <2>7. TempContent'
    BY <1>10 DEF Rename, TypeOK, RunsConsistentImage, TempsArePrivate, KnowsContent, TempContent, StillSaved, IsOpen
  <2> QED BY <2>1, <2>2, <2>3, <2>4, <2>5, <2>6, <2>7
<1>11. ASSUME NEW p \in Launch, CreateCopy(p) PROVE IInv'
  <2>1. TypeOK'
    BY <1>11 DEF CreateCopy, TypeOK, TempContent
  <2>2. files'[target'] \in Readable /\ mode'[target'] = "user"
    BY <1>11 DEF CreateCopy, TypeOK, TempsArePrivate, TempContent
  <2>3. RunsConsistentImage'
    BY <1>11 DEF CreateCopy, TypeOK, RunsConsistentImage, TempsArePrivate, TempContent
  <2>4. NoStrayFiles'
    BY <1>11 DEF CreateCopy, TypeOK, NoStrayFiles, TempsArePrivate, TempContent
  <2>5. TempsArePrivate'
    BY <1>11 DEF CreateCopy, TypeOK, RunsConsistentImage, TempsArePrivate, TempContent
  <2>6. KnowsContent'
    BY <1>11 DEF CreateCopy, TypeOK, KnowsContent, TempsArePrivate, TempContent
  <2>7. TempContent'
    BY <1>11 DEF CreateCopy, TypeOK, RunsConsistentImage, TempsArePrivate, KnowsContent, TempContent
  <2> QED BY <2>1, <2>2, <2>3, <2>4, <2>5, <2>6, <2>7
<1>12. ASSUME NEW p \in Launch, MemfdFails(p) PROVE IInv'
  <2>1. TypeOK'
    BY <1>12 DEF MemfdFails, TypeOK, TempContent
  <2>2. files'[target'] \in Readable /\ mode'[target'] = "user"
    BY <1>12 DEF MemfdFails, TypeOK, TempsArePrivate, TempContent
  <2>3. RunsConsistentImage'
    BY <1>12 DEF MemfdFails, TypeOK, RunsConsistentImage, TempsArePrivate, TempContent
  <2>4. NoStrayFiles'
    BY <1>12 DEF MemfdFails, TypeOK, NoStrayFiles, TempsArePrivate, TempContent
  <2>5. TempsArePrivate'
    BY <1>12 DEF MemfdFails, TypeOK, RunsConsistentImage, TempsArePrivate, TempContent
  <2>6. KnowsContent'
    BY <1>12 DEF MemfdFails, TypeOK, KnowsContent, TempsArePrivate, TempContent
  <2>7. TempContent'
    BY <1>12 DEF MemfdFails, TypeOK, RunsConsistentImage, TempsArePrivate, KnowsContent, TempContent
  <2> QED BY <2>1, <2>2, <2>3, <2>4, <2>5, <2>6, <2>7
<1>13. ASSUME NEW p \in Launch, CreateTempFile(p) PROVE IInv'
  <2>1. TypeOK'
    BY <1>13 DEF CreateTempFile, TypeOK, TempContent
  <2>2. files'[target'] \in Readable /\ mode'[target'] = "user"
    BY <1>13 DEF CreateTempFile, TypeOK, TempsArePrivate, TempContent
  <2>3. RunsConsistentImage'
    BY <1>13 DEF CreateTempFile, TypeOK, RunsConsistentImage, TempsArePrivate, TempContent
  <2>4. NoStrayFiles'
    BY <1>13 DEF CreateTempFile, TypeOK, NoStrayFiles, TempsArePrivate, TempContent
  <2>5. TempsArePrivate'
    BY <1>13 DEF CreateTempFile, TypeOK, RunsConsistentImage, TempsArePrivate, TempContent
  <2>6. KnowsContent'
    BY <1>13 DEF CreateTempFile, TypeOK, KnowsContent, TempsArePrivate, TempContent
  <2>7. TempContent'
    BY <1>13 DEF CreateTempFile, TypeOK, RunsConsistentImage, TempsArePrivate, KnowsContent, TempContent
  <2> QED BY <2>1, <2>2, <2>3, <2>4, <2>5, <2>6, <2>7
<1>14. ASSUME NEW p \in Launch, CopyFails(p) PROVE IInv'
  <2>1. TypeOK'
    BY <1>14 DEF CopyFails, TypeOK, TempContent
  <2>2. files'[target'] \in Readable /\ mode'[target'] = "user"
    BY <1>14 DEF CopyFails, TypeOK, TempsArePrivate, TempContent
  <2>3. RunsConsistentImage'
    BY <1>14 DEF CopyFails, TypeOK, RunsConsistentImage, TempsArePrivate, TempContent
  <2>4. NoStrayFiles'
    BY <1>14 DEF CopyFails, TypeOK, NoStrayFiles, TempsArePrivate, TempContent
  <2>5. TempsArePrivate'
    BY <1>14 DEF CopyFails, TypeOK, RunsConsistentImage, TempsArePrivate, TempContent
  <2>6. KnowsContent'
    BY <1>14 DEF CopyFails, TypeOK, KnowsContent, TempsArePrivate, TempContent
  <2>7. TempContent'
    BY <1>14 DEF CopyFails, TypeOK, RunsConsistentImage, TempsArePrivate, KnowsContent, TempContent
  <2> QED BY <2>1, <2>2, <2>3, <2>4, <2>5, <2>6, <2>7
<1>15. ASSUME NEW p \in Launch, StartQemu(p) PROVE IInv'
  <2>1. TypeOK'
    BY <1>15 DEF StartQemu, TypeOK, TempContent, DrivePath
  <2>2. files'[target'] \in Readable /\ mode'[target'] = "user"
    BY <1>15 DEF StartQemu, TypeOK, TempsArePrivate, TempContent, DrivePath
  <2>3. RunsConsistentImage'
    BY <1>15 DEF StartQemu, TypeOK, RunsConsistentImage, TempsArePrivate, TempContent, DrivePath
  <2>4. NoStrayFiles'
    BY <1>15 DEF StartQemu, TypeOK, NoStrayFiles, TempsArePrivate, TempContent, DrivePath
  <2>5. TempsArePrivate'
    BY <1>15 DEF StartQemu, TypeOK, RunsConsistentImage, TempsArePrivate, TempContent, DrivePath
  <2>6. KnowsContent'
    BY <1>15 DEF StartQemu, TypeOK, KnowsContent, TempsArePrivate, TempContent, DrivePath
  <2>7. TempContent'
    BY <1>15 DEF StartQemu, TypeOK, RunsConsistentImage, TempsArePrivate, KnowsContent, TempContent, DrivePath
  <2> QED BY <2>1, <2>2, <2>3, <2>4, <2>5, <2>6, <2>7
<1>16. ASSUME NEW p \in Launch, QemuWrites(p) PROVE IInv'
  <2>1. TypeOK'
    BY <1>16 DEF QemuWrites, TypeOK, RunsConsistentImage, TempContent
  <2>2. files'[target'] \in Readable /\ mode'[target'] = "user"
    BY <1>16 DEF QemuWrites, TypeOK, TempsArePrivate, TempContent
  <2>3. RunsConsistentImage'
    BY <1>16 DEF QemuWrites, TypeOK, RunsConsistentImage, TempsArePrivate, TempContent
  <2>4. NoStrayFiles'
    BY <1>16 DEF QemuWrites, TypeOK, NoStrayFiles, TempsArePrivate, TempContent
  <2>5. TempsArePrivate'
    BY <1>16 DEF QemuWrites, TypeOK, RunsConsistentImage, TempsArePrivate, TempContent
  <2>6. KnowsContent'
    BY <1>16 DEF QemuWrites, TypeOK, KnowsContent, TempsArePrivate, TempContent
  <2>7. TempContent'
    BY <1>16 DEF QemuWrites, TypeOK, RunsConsistentImage, TempsArePrivate, KnowsContent, TempContent
  <2> QED BY <2>1, <2>2, <2>3, <2>4, <2>5, <2>6, <2>7
<1>17. ASSUME NEW p \in Launch, QemuExits(p) PROVE IInv'
  <2>1. TypeOK'
    BY <1>17 DEF QemuExits, TypeOK, TempContent, StillSaved, IsOpen, FilesWithout
  <2>2. files'[target'] \in Readable /\ mode'[target'] = "user"
    BY <1>17 DEF QemuExits, TypeOK, TempsArePrivate, TempContent, StillSaved, IsOpen, FilesWithout
  <2>3. RunsConsistentImage'
    BY <1>17 DEF QemuExits, TypeOK, RunsConsistentImage, TempsArePrivate, TempContent, StillSaved, IsOpen, FilesWithout
  <2>4. NoStrayFiles'
    BY <1>17 DEF QemuExits, TypeOK, NoStrayFiles, TempsArePrivate, TempContent, StillSaved, IsOpen, FilesWithout
  <2>5. TempsArePrivate'
    BY <1>17 DEF QemuExits, TypeOK, RunsConsistentImage, TempsArePrivate, TempContent, StillSaved, IsOpen, FilesWithout
  <2>6. KnowsContent'
    BY <1>17 DEF QemuExits, TypeOK, KnowsContent, TempsArePrivate, TempContent, StillSaved, IsOpen, FilesWithout
  <2>7. TempContent'
    BY <1>17 DEF QemuExits, TypeOK, RunsConsistentImage, TempsArePrivate, KnowsContent, TempContent, StillSaved, IsOpen, FilesWithout
  <2> QED BY <2>1, <2>2, <2>3, <2>4, <2>5, <2>6, <2>7
<1>18. ASSUME NEW p \in Launch, Kill(p) PROVE IInv'
  <2>1. TypeOK'
    BY <1>18 DEF Kill, TypeOK, TempContent, StillSaved, IsOpen, FilesWithout
  <2>2. files'[target'] \in Readable /\ mode'[target'] = "user"
    BY <1>18 DEF Kill, TypeOK, TempsArePrivate, TempContent, StillSaved, IsOpen, FilesWithout
  <2>3. RunsConsistentImage'
    BY <1>18 DEF Kill, TypeOK, RunsConsistentImage, TempsArePrivate, TempContent, StillSaved, IsOpen, FilesWithout
  <2>4. NoStrayFiles'
    BY <1>18 DEF Kill, TypeOK, NoStrayFiles, TempsArePrivate, TempContent, StillSaved, IsOpen, FilesWithout
  <2>5. TempsArePrivate'
    BY <1>18 DEF Kill, TypeOK, RunsConsistentImage, TempsArePrivate, TempContent, StillSaved, IsOpen, FilesWithout
  <2>6. KnowsContent'
    BY <1>18 DEF Kill, TypeOK, KnowsContent, TempsArePrivate, TempContent, StillSaved, IsOpen, FilesWithout
  <2>7. TempContent'
    BY <1>18 DEF Kill, TypeOK, RunsConsistentImage, TempsArePrivate, KnowsContent, TempContent, StillSaved, IsOpen, FilesWithout
  <2> QED BY <2>1, <2>2, <2>3, <2>4, <2>5, <2>6, <2>7
<1>19. ASSUME NEW p \in Launch, Relaunch(p) PROVE IInv'
  <2>1. TypeOK'
    BY <1>19 DEF Relaunch, TypeOK, TempContent
  <2>2. files'[target'] \in Readable /\ mode'[target'] = "user"
    BY <1>19 DEF Relaunch, TypeOK, TempsArePrivate, TempContent
  <2>3. RunsConsistentImage'
    BY <1>19 DEF Relaunch, TypeOK, RunsConsistentImage, TempsArePrivate, TempContent
  <2>4. NoStrayFiles'
    BY <1>19 DEF Relaunch, TypeOK, NoStrayFiles, TempsArePrivate, TempContent
  <2>5. TempsArePrivate'
    BY <1>19 DEF Relaunch, TypeOK, RunsConsistentImage, TempsArePrivate, TempContent
  <2>6. KnowsContent'
    BY <1>19 DEF Relaunch, TypeOK, KnowsContent, TempsArePrivate, TempContent
  <2>7. TempContent'
    BY <1>19 DEF Relaunch, TypeOK, RunsConsistentImage, TempsArePrivate, KnowsContent, TempContent
  <2> QED BY <2>1, <2>2, <2>3, <2>4, <2>5, <2>6, <2>7
<1>20. CASE UNCHANGED vars
  BY <1>20 DEF vars, TypeOK, RunsConsistentImage, NoStrayFiles, TempsArePrivate, KnowsContent, TempContent
<1> QED
  BY <1>1, <1>2, <1>3, <1>4, <1>5, <1>6, <1>7, <1>8, <1>9, <1>10, <1>11, <1>12, <1>13, <1>14, <1>15, <1>16, <1>17, <1>18, <1>19, <1>20 DEF Next, Step, Replace, Copy

LEMMA Invariance == Spec => []IInv
BY IInvInit, IInvNext, PTL DEF Spec

-----------------------------------------------------------------------------
\* Files, names and control points always have values of their types.
THEOREM UpdateTypeCorrect == Spec => []TypeOK
<1>1. IInv => TypeOK
  BY DEF IInv
<1> QED BY <1>1, Invariance, PTL

\* No QEMU ever runs on an image that is incomplete or not recalculated,
\* whatever other launches do to the path in the meantime.
THEOREM QemuRunsOnConsistentImages == Spec => []RunsConsistentImage
<1>1. IInv => RunsConsistentImage
  BY DEF IInv
<1> QED BY <1>1, Invariance, PTL

\* A launch that is not killed removes what it has created, also when a step
\* of replaceFile or TempFileCopy fails.
THEOREM LaunchesTidyUp == Spec => []NoStrayFiles
<1>1. IInv => NoStrayFiles
  BY DEF IInv
<1> QED BY <1>1, Invariance, PTL

\* The path moves only through a --rw launch that had read an image which
\* nobody had recalculated yet.
THEOREM PathMovesOnOldReads == Spec => OnlyOldReadsReplace
<1> DEFINE Moves == target' # target =>
      \E p \in Writer : pc[p] = "rename" /\ target' = temp[p] /\ read[p] = "original"
<1>1. IInv /\ [Next]_vars => [Moves]_vars
  <2> SUFFICES ASSUME IInv, Next, target' # target
               PROVE  \E p \in Writer : /\ pc[p] = "rename" /\ target' = temp[p]
                                        /\ read[p] = "original"
    BY DEF vars
  <2>1. PICK p \in Launch : Rename(p)
    BY DEF Next, Step, Replace, Copy, Read, Patch, CreateReplacement, CreateFails, WriteSome,
       WriteRest, ReplaceFails, Discard, CopyMode, CreateCopy, MemfdFails, CreateTempFile,
       CopyFails, StartQemu, QemuWrites, QemuExits, Kill, Relaunch
  <2> QED BY <2>1 DEF Rename, IInv, KnowsContent, Replacing
<1> QED BY <1>1, Invariance, PTL DEF Spec, OnlyOldReadsReplace

\* Every step of every launch is, for the file at the path, a recalculation of
\* the whole file, a write of the phone, or nothing at all.
LEMMA StepsImplementFile == IInv /\ [Next]_vars => [File!Next]_File!vars
<1> SUFFICES ASSUME IInv, [Next]_vars PROVE [File!Next]_File!vars
  OBVIOUS
<1> USE DEF IInv, Goto
<1> DEFINE Stutter == /\ files'[target'] = files[target] /\ mode'[target'] = mode[target]
                      /\ (target' \in saved') = (target \in saved)
<1>1. Stutter => [File!Next]_File!vars
  BY DEF File!vars
<1>2. ASSUME NEW p \in Launch, Rename(p) PROVE File!Recalculate
  <2>1. /\ files[target] \in {"original", "recalculated"} /\ temp[p] # target
        /\ files[temp[p]] = "recalculated" /\ mode[temp[p]] = "user" /\ temp[p] \notin saved
    BY <1>2 DEF Rename, KnowsContent, TempContent, TempsArePrivate, Replacing
  <2>2. files'[target'] = "recalculated" /\ mode'[target'] = "user" /\ target' \notin saved'
    BY <1>2, <2>1 DEF Rename, StillSaved, TypeOK
  <2> QED BY <2>1, <2>2 DEF File!Recalculate
<1>3. ASSUME NEW p \in Launch, QemuWrites(p) PROVE [File!Next]_File!vars
  <2>1. CASE qemu[p] = target
    <3>1. files[target] \in {"recalculated", "unbound"}
      BY <1>3, <2>1, UpdateAssumption DEF QemuWrites, RunsConsistentImage, TypeOK
    <3> QED BY <1>3, <2>1, <3>1 DEF QemuWrites, File!Next, File!Save
  <2>2. CASE qemu[p] # target
    BY <1>1, <1>3, <2>2 DEF QemuWrites
  <2> QED BY <2>1, <2>2
<1>4. ASSUME NEW p \in Launch,
             \/ CreateReplacement(p) \/ WriteSome(p) \/ WriteRest(p) \/ Discard(p) \/ CopyMode(p)
             \/ CreateCopy(p) \/ CreateTempFile(p)
      PROVE  Stutter
  BY <1>4 DEF CreateReplacement, WriteSome, WriteRest, Discard, CopyMode, CreateCopy, CreateTempFile,
     TempsArePrivate, TempContent, Replacing, TypeOK, Readable
<1>5. ASSUME NEW p \in Launch, QemuExits(p) \/ Kill(p) PROVE Stutter
  <2>1. files'[target] = files[target] /\ target' = target /\ saved' = StillSaved
        /\ mode' = mode
    BY <1>5 DEF QemuExits, Kill, FilesWithout, TypeOK
  <2>2. files[target] # "free"
    BY DEF Readable
  <2> QED BY <2>1, <2>2 DEF StillSaved
<1>6. ASSUME NEW p \in Launch,
             \/ Read(p) \/ Patch(p) \/ CreateFails(p) \/ ReplaceFails(p) \/ MemfdFails(p)
             \/ CopyFails(p) \/ StartQemu(p) \/ Relaunch(p)
      PROVE  Stutter
  BY <1>6 DEF Read, Patch, CreateFails, ReplaceFails, MemfdFails, CopyFails, StartQemu, Relaunch
<1>7. CASE UNCHANGED vars
  BY <1>1, <1>7 DEF vars
<1> QED
  BY <1>1, <1>2, <1>3, <1>4, <1>5, <1>6, <1>7 DEF Next, Step, Replace, Copy, File!Next

\* For whoever opens the path, the launches implement a file that changes
\* atomically: the refinement of FullflashFile.
THEOREM UpdateImplementsFile == Spec => ImplementsFile
<1>1. Init => File!Init
  BY DEF Init, File!Init, Readable, File!Readable
<1> QED BY <1>1, StepsImplementFile, Invariance, PTL DEF Spec, ImplementsFile, File!Spec

-----------------------------------------------------------------------------
(* When nothing is lost: FullflashFile admits that a recalculation wipes   *)
(* out what a phone has saved; that takes two launches with --rw.          *)

OneWriter == \A p, q \in Writer : p = q

\* The file that the only writer is about to replace is the one it has read.
ReplacesWhatItRead ==
    \A p \in Writer :
        read[p] = "original" /\ pc[p] \in {"patch", "create"} \cup Replacing =>
            files[target] = "original"

\* What the phone has saved stays in the file at the path.
SavesAreKept == [][(target \in saved) => target' = target /\ target' \in saved']_vars

LEMMA ReplacesWhatItReadNext ==
    ASSUME OneWriter, IInv, ReplacesWhatItRead, [Next]_vars
    PROVE  ReplacesWhatItRead'
<1> USE DEF ReplacesWhatItRead, IInv, TypeOK, Goto, Replacing, Ended
<1>1. ASSUME NEW p \in Launch, Read(p) PROVE ReplacesWhatItRead'
  BY <1>1, UpdateAssumption DEF Read
<1>2. ASSUME NEW p \in Launch, Patch(p) PROVE ReplacesWhatItRead'
  BY <1>2, UpdateAssumption DEF Patch
<1>3. ASSUME NEW p \in Launch, Rename(p) PROVE ReplacesWhatItRead'
  <2>1. p \in Writer
    BY <1>3 DEF Rename, KnowsContent
  <2> QED BY <1>3, <2>1, UpdateAssumption DEF Rename, OneWriter
<1>4. ASSUME NEW p \in Launch, Replace(p), ~Rename(p) PROVE ReplacesWhatItRead'
  <2>1. files'[target] = files[target] /\ target' = target /\ read' = read
    BY <1>4, UpdateAssumption DEF Replace, CreateReplacement, CreateFails, WriteSome, WriteRest,
       CopyMode, ReplaceFails, Discard, TempsArePrivate, TempContent, Readable
  <2>2. \A q \in Launch : pc'[q] \in {"patch", "create"} \cup Replacing =>
            pc[q] \in {"patch", "create"} \cup Replacing
    BY <1>4 DEF Replace, CreateReplacement, CreateFails, WriteSome, WriteRest, CopyMode,
       ReplaceFails, Discard
  <2> QED BY <2>1, <2>2, UpdateAssumption
<1>5. ASSUME NEW p \in Launch, Copy(p) PROVE ReplacesWhatItRead'
  <2>1. files'[target] = files[target] /\ target' = target /\ read' = read
    BY <1>5 DEF Copy, CreateCopy, MemfdFails, CreateTempFile, CopyFails, Readable
  <2>2. \A q \in Launch : pc'[q] \in {"patch", "create"} \cup Replacing =>
            pc[q] \in {"patch", "create"} \cup Replacing
    BY <1>5 DEF Copy, CreateCopy, MemfdFails, CreateTempFile, CopyFails
  <2> QED BY <2>1, <2>2, UpdateAssumption
<1>6. ASSUME NEW p \in Launch, StartQemu(p) \/ QemuWrites(p) PROVE ReplacesWhatItRead'
  BY <1>6, UpdateAssumption DEF StartQemu, QemuWrites
<1>7. ASSUME NEW p \in Launch, QemuExits(p) \/ Kill(p) PROVE ReplacesWhatItRead'
  BY <1>7, UpdateAssumption DEF QemuExits, Kill, FilesWithout
<1>8. ASSUME NEW p \in Launch, Relaunch(p) PROVE ReplacesWhatItRead'
  BY <1>8, UpdateAssumption DEF Relaunch
<1>9. CASE UNCHANGED vars
  BY <1>9 DEF vars
<1> QED BY <1>1, <1>2, <1>3, <1>4, <1>5, <1>6, <1>7, <1>8, <1>9 DEF Next, Step

\* With one --rw launch at a time, and any number of others, the phone loses
\* nothing it has saved, whatever fails or is killed.
THEOREM OneWriterLosesNothing == OneWriter => (Spec => SavesAreKept)
<1> SUFFICES ASSUME OneWriter PROVE Spec => SavesAreKept
  OBVIOUS
<1>1. Init => ReplacesWhatItRead
  BY UpdateAssumption DEF Init, ReplacesWhatItRead, Replacing
<1>2. IInv /\ ReplacesWhatItRead /\ [Next]_vars => ReplacesWhatItRead'
  BY ReplacesWhatItReadNext
<1>3. IInv /\ ReplacesWhatItRead /\ [Next]_vars =>
         [(target \in saved) => target' = target /\ target' \in saved']_vars
  <2> SUFFICES ASSUME IInv, ReplacesWhatItRead, Next, target \in saved
               PROVE  target' = target /\ target' \in saved'
    OBVIOUS
  <2> USE DEF IInv, TypeOK, Readable
  <2>1. PICK p \in Launch : Step(p) \/ Kill(p) \/ Relaunch(p)
    BY DEF Next
  <2>2. ~Rename(p)
    <3> SUFFICES ASSUME Rename(p) PROVE FALSE
      OBVIOUS
    <3>1. p \in Writer /\ read[p] = "original"
      BY DEF Rename, KnowsContent, Replacing
    <3>2. files[target] = "original"
      BY <3>1 DEF Rename, ReplacesWhatItRead, Replacing
    <3> QED BY <3>2
  <2>3. CASE Read(p) \/ Patch(p) \/ Replace(p) \/ Copy(p)
    BY <2>2, <2>3 DEF Read, Patch, Replace, CreateReplacement, CreateFails, WriteSome, WriteRest,
       CopyMode, ReplaceFails, Discard, Copy, CreateCopy, MemfdFails, CreateTempFile, CopyFails
  <2>4. CASE StartQemu(p) \/ QemuWrites(p) \/ Relaunch(p)
    BY <2>4 DEF StartQemu, QemuWrites, Relaunch
  <2>5. CASE QemuExits(p) \/ Kill(p)
    BY <2>5 DEF QemuExits, Kill, FilesWithout, StillSaved
  <2> QED BY <2>1, <2>3, <2>4, <2>5 DEF Step
<1> QED BY <1>1, <1>2, <1>3, Invariance, PTL DEF Spec, SavesAreKept

=============================================================================
