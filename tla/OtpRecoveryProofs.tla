------------------------- MODULE OtpRecoveryProofs -------------------------
(***************************************************************************)
(* Proofs about OtpRecovery for any number of launches, images and phones: *)
(* the cache file never pairs a HASH with another phone's ESN, and every   *)
(* launch presents the ESN of the image it has read.                       *)
(***************************************************************************)
EXTENDS OtpRecovery, TLAPS

\* A launch past the recognition of its image holds a usable image.
HoldsImage ==
    \A p \in Launch : pc[p] \in Working \cup {"otp"} => img[p] \in Images /\ NotErased(img[p])

\* From the end of the search or the cache hit on, a launch has the right ESN.
HoldsRightEsn ==
    \A p \in Launch : pc[p] \in {"exists", "open", "flush", "answer", "otp"} =>
        esn[p] = EsnOfHash[img[p].hash]

\* A launch that has not read the image yet holds none.
IdleHoldsNothing == \A p \in Launch : pc[p] = "idle" => img[p] = None

IInv ==
    /\ TypeOK
    /\ CachePairsRight
    /\ HoldsImage
    /\ HoldsRightEsn
    /\ FailsForTheImage
    /\ IdleHoldsNothing

\* A recovered ESN is the one behind the HASH of the image.
LEMMA SearchIsRight ==
    ASSUME NEW i \in Images, NotErased(i), NEW e \in RecoveredEsns(i)
    PROVE  e = EsnOfHash[i.hash] /\ e \in Esn /\ i.hash \in Hash
<1>1. e = EsnOfHash[i.hash]
  BY RecoveryAssumption
<1>2. i.hash \in Hash
  BY RecoveryAssumption DEF NotErased, FlashImage
<1> QED BY <1>1, <1>2, RecoveryAssumption

\* The text a launch writes pairs its image's HASH with the ESN it holds.
LEMMA TextIsRight ==
    ASSUME TypeOK, CachePairsRight, HoldsImage, HoldsRightEsn, NEW p \in Launch, pc[p] = "flush",
           file' \in {file, CacheText(img[p], esn[p])} \cup Overlay(CacheText(img[p], esn[p]))
    PROVE  /\ file' \in [text : {"absent", "broken", "cache"}, hash : Hash \cup {None},
                         esn : Esn \cup {None}, size : Nat]
           /\ CachePairsRight'
<1>1. img[p] \in Images /\ NotErased(img[p]) /\ esn[p] = EsnOfHash[img[p].hash]
  BY DEF HoldsImage, HoldsRightEsn, Working
<1>2. img[p].hash \in Hash /\ TextSize[img[p]] \in Nat /\ esn[p] \in Esn
  BY <1>1, RecoveryAssumption DEF NotErased, FlashImage
<1>3. CASE file' = file
  BY <1>3 DEF TypeOK, CachePairsRight
<1>4. CASE file' = CacheText(img[p], esn[p])
  BY <1>1, <1>2, <1>4 DEF CacheText, CachePairsRight
<1>5. CASE file' \in Overlay(CacheText(img[p], esn[p]))
  <2>1. CASE file' = Broken(file.size)
    BY <2>1 DEF Broken, CachePairsRight, TypeOK
  <2>2. CASE file' = [CacheText(img[p], esn[p]) EXCEPT !.size = file.size]
    <3>1. file'.text = "cache" /\ file'.hash = img[p].hash /\ file'.esn = esn[p] /\ file.size \in Nat
      BY <2>2 DEF CacheText, TypeOK
    <3>2. file' \in [text : {"absent", "broken", "cache"}, hash : Hash \cup {None},
                     esn : Esn \cup {None}, size : Nat]
      BY <1>2, <2>2, <3>1 DEF CacheText
    <3> QED BY <1>1, <3>1, <3>2 DEF CachePairsRight
  <2> QED BY <1>4, <1>5, <2>1, <2>2 DEF Overlay
<1> QED BY <1>3, <1>4, <1>5

LEMMA IInvInit == Init => IInv
<1> SUFFICES ASSUME Init PROVE IInv
  OBVIOUS
<1>1. TypeOK
  BY DEF Init, TypeOK, NoFile
<1>2. CachePairsRight
  BY DEF Init, NoFile, CachePairsRight
<1> QED
  BY <1>1, <1>2 DEF Init, IInv, HoldsImage, HoldsRightEsn, FailsForTheImage, IdleHoldsNothing, Working

\* Moving one launch to a place where it keeps what it holds keeps the rest.
LEMMA IInvNext == IInv /\ [Next]_vars => IInv'
<1> SUFFICES ASSUME IInv, [Next]_vars PROVE IInv'
  OBVIOUS
<1>0. TypeOK /\ CachePairsRight /\ HoldsImage /\ HoldsRightEsn /\ FailsForTheImage /\ IdleHoldsNothing
  BY DEF IInv
<1> USE <1>0
<1> DEFINE Control == HoldsImage /\ HoldsRightEsn /\ FailsForTheImage /\ IdleHoldsNothing
<1>1. ASSUME NEW p \in Launch, ReadImage(p) PROVE IInv'
  <2>1. image \in Images /\ AfterRead(image) \in {"failed", "skipped", "lookup"}
    BY DEF TypeOK, AfterRead
  <2>2. AfterRead(image) = "lookup" => NotErased(image)
    BY DEF AfterRead
  <2>3. AfterRead(image) = "failed" => ~image.bootcore \/ ~image.named
    BY DEF AfterRead
  <2>4. TypeOK' /\ CachePairsRight'
    BY <1>1, <2>1 DEF ReadImage, Goto, TypeOK, CachePairsRight, Outcome, Working
  <2>5. Control'
    BY <1>1, <2>1, <2>2, <2>3 DEF ReadImage, Goto, TypeOK, HoldsImage, HoldsRightEsn, FailsForTheImage, IdleHoldsNothing, Working
  <2> QED BY <2>4, <2>5 DEF IInv
<1>2. ASSUME NEW p \in Launch, ReadImageFails(p) PROVE IInv'
  BY <1>2 DEF ReadImageFails, Goto, IInv, TypeOK, CachePairsRight, HoldsImage, HoldsRightEsn,
     FailsForTheImage, IdleHoldsNothing, Working, Outcome
<1>3. ASSUME NEW p \in Launch, CacheHit(p) PROVE IInv'
  <2>1. img[p] \in Images /\ NotErased(img[p])
    BY <1>3 DEF CacheHit, HoldsImage, Working
  <2>2. file.esn = EsnOfHash[img[p].hash] /\ file.esn \in Esn
    <3>1. img[p].hash \in Hash
      BY <2>1, RecoveryAssumption DEF NotErased, FlashImage
    <3> QED BY <1>3, <3>1, RecoveryAssumption DEF CacheHit, IsHit, CachePairsRight
  <2>3. TypeOK' /\ CachePairsRight'
    BY <1>3, <2>2 DEF CacheHit, Goto, TypeOK, CachePairsRight, Working
  <2>4. Control'
    BY <1>3, <2>1, <2>2 DEF CacheHit, Goto, TypeOK, HoldsImage, HoldsRightEsn, FailsForTheImage, IdleHoldsNothing, Working
  <2> QED BY <2>3, <2>4 DEF IInv
<1>4. ASSUME NEW p \in Launch, StartSearch(p) PROVE IInv'
  BY <1>4 DEF StartSearch, Goto, IInv, TypeOK, CachePairsRight, HoldsImage, HoldsRightEsn,
     FailsForTheImage, IdleHoldsNothing, Working
<1>5. ASSUME NEW p \in Launch, SearchFinds(p) PROVE IInv'
  <2>1. img[p] \in Images /\ NotErased(img[p])
    BY <1>5 DEF SearchFinds, HoldsImage, Working
  <2>2. PICK e \in RecoveredEsns(img[p]) : esn' = [esn EXCEPT ![p] = e]
    BY <1>5 DEF SearchFinds
  <2>3. e = EsnOfHash[img[p].hash] /\ e \in Esn
    BY <2>1, SearchIsRight
  <2>4. TypeOK' /\ CachePairsRight'
    BY <1>5, <2>2, <2>3 DEF SearchFinds, Goto, TypeOK, CachePairsRight, Working
  <2>5. Control'
    BY <1>5, <2>1, <2>2, <2>3 DEF SearchFinds, Goto, TypeOK, HoldsImage, HoldsRightEsn, FailsForTheImage, IdleHoldsNothing, Working
  <2> QED BY <2>4, <2>5 DEF IInv
<1>6. ASSUME NEW p \in Launch, SearchFails(p) PROVE IInv'
  BY <1>6 DEF SearchFails, Goto, IInv, TypeOK, CachePairsRight, HoldsImage, HoldsRightEsn,
     FailsForTheImage, IdleHoldsNothing, Working, Outcome
<1>7. ASSUME NEW p \in Launch, CheckExists(p) PROVE IInv'
  BY <1>7 DEF CheckExists, Goto, IInv, TypeOK, CachePairsRight, HoldsImage, HoldsRightEsn,
     FailsForTheImage, IdleHoldsNothing, Working
<1>8. ASSUME NEW p \in Launch, OpenCache(p) PROVE IInv'
  <2>1. TypeOK' /\ CachePairsRight'
    BY <1>8 DEF OpenCache, Goto, Broken, TypeOK, CachePairsRight, Working
  <2>2. Control'
    BY <1>8 DEF OpenCache, Goto, TypeOK, HoldsImage, HoldsRightEsn, FailsForTheImage, IdleHoldsNothing, Working
  <2> QED BY <2>1, <2>2 DEF IInv
<1>9. ASSUME NEW p \in Launch, OpenFails(p) PROVE IInv'
  BY <1>9 DEF OpenFails, Goto, IInv, TypeOK, CachePairsRight, HoldsImage, HoldsRightEsn,
     FailsForTheImage, IdleHoldsNothing, Working
<1>10. ASSUME NEW p \in Launch, Flush(p) \/ FlushFails(p) PROVE IInv'
  <2>1. /\ pc[p] = "flush" /\ pc' = [pc EXCEPT ![p] = "answer"]
        /\ UNCHANGED <<image, img, esn, spent>> /\ lost' = lost \ {p}
        /\ file' \in {file, CacheText(img[p], esn[p])} \cup Overlay(CacheText(img[p], esn[p]))
    BY <1>10 DEF Flush, FlushFails, CutText, Goto
  <2>2. TypeOK' /\ CachePairsRight'
    BY <2>1, TextIsRight DEF TypeOK, Working
  <2>3. Control'
    BY <2>1 DEF TypeOK, HoldsImage, HoldsRightEsn, FailsForTheImage, IdleHoldsNothing, Working
  <2> QED BY <2>2, <2>3 DEF IInv
<1>11. ASSUME NEW p \in Launch, GiveAnswer(p) PROVE IInv'
  <2>1. TypeOK' /\ CachePairsRight'
    BY <1>11 DEF GiveAnswer, Goto, TypeOK, CachePairsRight, Outcome
  <2>2. Control'
    BY <1>11 DEF GiveAnswer, Goto, TypeOK, HoldsImage, HoldsRightEsn, FailsForTheImage, IdleHoldsNothing, Working
  <2> QED BY <2>1, <2>2 DEF IInv
<1>12. ASSUME NEW p \in Launch, Relaunch(p) \/ Kill(p) PROVE IInv'
  <2>1. /\ pc' = [pc EXCEPT ![p] = "idle"] /\ img' = [img EXCEPT ![p] = None]
        /\ esn' = [esn EXCEPT ![p] = None] /\ UNCHANGED <<image, file, spent>> /\ lost' \subseteq lost
    BY <1>12 DEF Relaunch, Kill, Goto
  <2> QED
    BY <2>1 DEF IInv, TypeOK, CachePairsRight, HoldsImage, HoldsRightEsn, FailsForTheImage, IdleHoldsNothing, Working
<1>13. CASE ReplaceImage
  BY <1>13 DEF ReplaceImage, IInv, TypeOK, CachePairsRight, HoldsImage, HoldsRightEsn, FailsForTheImage, IdleHoldsNothing
<1>14. CASE DeleteCache
  BY <1>14 DEF DeleteCache, NoFile, IInv, TypeOK, CachePairsRight, HoldsImage, HoldsRightEsn, FailsForTheImage, IdleHoldsNothing
<1>15. CASE UNCHANGED vars
  BY <1>15 DEF vars, IInv, TypeOK, CachePairsRight, HoldsImage, HoldsRightEsn, FailsForTheImage, IdleHoldsNothing
<1> QED
  BY <1>1, <1>2, <1>3, <1>4, <1>5, <1>6, <1>7, <1>8, <1>9, <1>10, <1>11, <1>12, <1>13, <1>14,
     <1>15 DEF Next, Recover

LEMMA Invariance == Spec => []IInv
<1> QED BY IInvInit, IInvNext, PTL DEF Spec

\* The cache file and the launches keep their types.
THEOREM TypeCorrect == Spec => []TypeOK
<1>1. IInv => TypeOK
  BY DEF IInv
<1> QED BY <1>1, Invariance, PTL

\* Whatever a parsable cache file says of a HASH is true of it.
THEOREM CacheIsSound == Spec => []CachePairsRight
<1>1. IInv => CachePairsRight
  BY DEF IInv
<1> QED BY <1>1, Invariance, PTL

\* A launch answers with the ESN of the image it has read.
THEOREM AnswersAreRight == Spec => []RightEsn
<1>1. IInv => RightEsn
  BY DEF IInv, HoldsRightEsn, RightEsn
<1> QED BY <1>1, Invariance, PTL

\* The cache file cannot make a launch fail.
THEOREM CacheIsHarmless == Spec => []FailsForTheImage
<1>1. IInv => FailsForTheImage
  BY DEF IInv
<1> QED BY <1>1, Invariance, PTL

-----------------------------------------------------------------------------
(* How far two statements of the documentation hold (recalc-siemens-       *)
(* fullflash.md:13-14 and 44-45), which fail in general.                   *)

\* A recovered ESN, if there is one, comes from the first search with a hit:
\* a key that accepts an ESN is reason enough for recoverEsn to return one.
LEMMA KeyRecovers ==
    ASSUME NEW i \in Images, AcceptsKey(i) # {}
    PROVE  RecoveredEsns(i) # {}
<1> DEFINE hits == {k \in DOMAIN Attempts(i) : Attempts(i)[k] # {}}
<1>1. CASE i.hash = KnownHash
  BY <1>1 DEF RecoveredEsns
<1>2. CASE i.hash # KnownHash
  <2>1. DOMAIN Attempts(i) \in {1 .. 2, 1 .. 6} /\ Attempts(i)[2] = AcceptsKey(i)
    BY DEF Attempts
  <2>2. 2 \in hits /\ hits \subseteq 1 .. 6
    BY <2>1
  <2>3. \E m \in hits : \A k \in hits : m <= k
    <3>1. CASE 1 \in hits
      BY <2>2, <3>1
    <3>2. CASE 1 \notin hits
      BY <2>2, <3>2
    <3> QED BY <3>1, <3>2
  <2>4. Min(hits) \in hits
    BY <2>3 DEF Min
  <2>5. Attempts(i)[Min(hits)] # {}
    BY <2>4
  <2>6. RecoveredEsns(i) = Attempts(i)[Min(hits)]
    BY <1>2, <2>2 DEF RecoveredEsns
  <2> QED BY <2>5, <2>6
<1> QED BY <1>1, <1>2

\* "Recovery can use BKEY or the bootcore HASH with SKEY": an image for which
\* they identify the phone is turned down only for want of an IMEI.
KeyAndImeiAreEnough ==
    \A p \in Launch : pc[p] = "failed" /\ img[p] # None =>
        ~(img[p].bootcore /\ img[p].named /\ AcceptsKey(img[p]) # {} /\ ImeiOf(img[p]) # None)

\* The key succeeds wherever there is an IMEI (fullflash.cpp:278-284).
THEOREM KeyWithImeiSuffices == Spec => []KeyAndImeiAreEnough
<1>1. ASSUME IInv
      PROVE  KeyAndImeiAreEnough
  <2> SUFFICES ASSUME NEW p \in Launch, pc[p] = "failed", img[p] # None,
                      img[p].bootcore, img[p].named, AcceptsKey(img[p]) # {},
                      ImeiOf(img[p]) # None
               PROVE  FALSE
    BY DEF KeyAndImeiAreEnough
  <2>1. img[p] \in Images
    BY <1>1 DEF IInv, TypeOK
  <2>2. RecoveredEsns(img[p]) # {}
    BY <2>1, KeyRecovers
  <2> QED BY <1>1, <2>2 DEF IInv, FailsForTheImage
<1> QED BY <1>1, Invariance, PTL

\* One launch after the other, with nobody and nothing in their way.
Undisturbed ==
    /\ \A p, q \in Launch : p = q
    /\ ~MayReplace /\ ~MayDelete /\ ~MayCrash /\ ~MayFillDisk

\* The cache file is absent until the first search has been written down, and
\* from then on belongs to the image.
CacheOfImage == file.text = "cache" /\ file.hash = image.hash

CacheGrowsUp ==
    /\ lost = {}
    /\ spent => CacheOfImage
    /\ file = NoFile \/ CacheOfImage \/ \E p \in Launch : pc[p] = "flush"
    /\ \A p \in Launch :
          /\ pc[p] \in Working \cup {"otp"} => img[p] = image
          /\ pc[p] \in {"search", "exists", "open"} => file = NoFile
          /\ pc[p] = "flush" => file = Broken(0)
          /\ pc[p] = "answer" => CacheOfImage

LEMMA CacheGrowsUpNext ==
    ASSUME Undisturbed, IInv, CacheGrowsUp, [Next]_vars
    PROVE  CacheGrowsUp'
<1> USE DEF CacheGrowsUp, CacheOfImage, Working, Undisturbed, Goto
<1>0. TypeOK
  BY DEF IInv
<1>1. ASSUME NEW p \in Launch, ReadImage(p) PROVE CacheGrowsUp'
  <2>1. AfterRead(image) \in {"failed", "skipped", "lookup"}
    BY <1>0 DEF AfterRead, TypeOK
  <2> QED BY <1>0, <1>1, <2>1 DEF ReadImage, TypeOK
<1>2. ASSUME NEW p \in Launch, ReadImageFails(p) PROVE CacheGrowsUp'
  BY <1>0, <1>2 DEF ReadImageFails, TypeOK
<1>3. ASSUME NEW p \in Launch, CacheHit(p) PROVE CacheGrowsUp'
  BY <1>0, <1>3 DEF CacheHit, IsHit, TypeOK
<1>4. ASSUME NEW p \in Launch, StartSearch(p) PROVE CacheGrowsUp'
  BY <1>0, <1>4 DEF StartSearch, IsHit, TypeOK
<1>5. ASSUME NEW p \in Launch, SearchFinds(p) PROVE CacheGrowsUp'
  BY <1>0, <1>5 DEF SearchFinds, TypeOK
<1>6. ASSUME NEW p \in Launch, SearchFails(p) PROVE CacheGrowsUp'
  BY <1>0, <1>6 DEF SearchFails, TypeOK
<1>7. ASSUME NEW p \in Launch, CheckExists(p) PROVE CacheGrowsUp'
  BY <1>0, <1>7 DEF CheckExists, TypeOK
<1>8. ASSUME NEW p \in Launch, OpenCache(p) PROVE CacheGrowsUp'
  BY <1>0, <1>8 DEF OpenCache, TypeOK, NoFile
<1>9. ASSUME NEW p \in Launch, OpenFails(p) \/ FlushFails(p) \/ Kill(p) PROVE CacheGrowsUp'
  BY <1>9 DEF OpenFails, FlushFails, Kill
<1>10. ASSUME NEW p \in Launch, Flush(p) PROVE CacheGrowsUp'
  <2>1. pc[p] = "flush" /\ file = Broken(0) /\ img[p] = image /\ image \in Images /\ lost = {}
    BY <1>0, <1>10 DEF Flush, TypeOK
  <2>2. file' = CacheText(img[p], esn[p])
    BY <1>10, <2>1, RecoveryAssumption DEF Flush, Overlay, CacheText, Broken
  <2> QED BY <1>0, <1>10, <2>1, <2>2 DEF Flush, CacheText, TypeOK
<1>11. ASSUME NEW p \in Launch, GiveAnswer(p) PROVE CacheGrowsUp'
  BY <1>0, <1>11 DEF GiveAnswer, TypeOK
<1>12. ASSUME NEW p \in Launch, Relaunch(p) PROVE CacheGrowsUp'
  BY <1>0, <1>12 DEF Relaunch, Outcome, TypeOK
<1>13. CASE ReplaceImage \/ DeleteCache
  BY <1>13 DEF ReplaceImage, DeleteCache
<1>14. CASE UNCHANGED vars
  BY <1>14 DEF vars
<1> QED
  BY <1>1, <1>2, <1>3, <1>4, <1>5, <1>6, <1>7, <1>8, <1>9, <1>10, <1>11, <1>12, <1>13, <1>14
  DEF Next, Recover

\* "The 32-bit search only runs once while the fullflash identity remains
\* unchanged": true of launches one after the other that nothing disturbs.
THEOREM UndisturbedSearchRunsOnce == Undisturbed => (Spec => SearchRunsOnce)
<1> SUFFICES ASSUME Undisturbed PROVE Spec => SearchRunsOnce
  OBVIOUS
<1>1. Init => CacheGrowsUp
  BY DEF Init, CacheGrowsUp, NoFile, Working
<1>2. IInv /\ CacheGrowsUp /\ [Next]_vars => CacheGrowsUp'
  BY CacheGrowsUpNext
<1>3. IInv /\ CacheGrowsUp /\ [Next]_vars =>
         [\A p \in Launch : StartSearch(p) /\ img[p] = image => ~spent]_vars
  BY DEF CacheGrowsUp, CacheOfImage, StartSearch, IsHit
<1> QED BY <1>1, <1>2, <1>3, Invariance, PTL DEF Spec, SearchRunsOnce

=============================================================================
