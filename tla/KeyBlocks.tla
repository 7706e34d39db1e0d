------------------------------ MODULE KeyBlocks ------------------------------
(***************************************************************************)
(* The way from recalculation to recovery through the two ciphers.         *)
(* recalculateFullflash writes the IMEI block and then a block encrypted   *)
(* under the key of ESN and IMEI (5008); a later launch decodes the IMEI   *)
(* block and, with that IMEI, tries a batch of candidate ESNs on the       *)
(* second one.  Without an IMEI it does not search.                        *)
(***************************************************************************)
EXTENDS ImeiBlock, StreamCipher

CONSTANTS
    LaneCount,      \* CIPHER_BATCH_SIZE
    Esns,           \* ESNs considered
    FirstCandidates,\* where a batch may start
    KeyOf(_, _)     \* md4(buildEepromKey(esn, imei))

ASSUME KeyAssumption ==
    /\ LaneCount \in Nat
    /\ Lane = 0 .. LaneCount - 1
    /\ Esns \subseteq Nat /\ FirstCandidates \subseteq Nat
    /\ \A e \in Esns, i \in Imeis : KeyOf(e, i) \in Digest

VARIABLES
    esn,    \* the ESN of the wanted keys
    first   \* firstCandidate of the batch

vars == <<esn, first, imeiVars, streamVars>>

TypeOK ==
    /\ ImeiTypeOK
    /\ StreamTypeOK
    /\ esn \in Esns
    /\ first \in FirstCandidates \cup {0}

Init ==
    /\ ImeiInit
    /\ StreamInit
    /\ esn \in Esns
    /\ key = KeyOf(esn, imei)
    /\ first = 0

-----------------------------------------------------------------------------
BuildImeiBlock == WriteImei /\ UNCHANGED <<esn, first, streamVars>>

BuildSecondBlock ==
    /\ step = "stored" /\ damaged = Nowhere
    /\ WriteBlock
    /\ UNCHANGED <<esn, first, imeiVars>>

InFlash == pc = "stored"

GoBad ==
    /\ InFlash
    /\ \E n \in 0 .. 9, value \in NibblePair : Damage(n, value)
    /\ UNCHANGED <<esn, first, streamVars>>

ReadImeiBlock ==
    /\ InFlash
    /\ ReadImei
    /\ UNCHANGED <<esn, first, streamVars>>

\* Slip: all lanes get the key of the first candidate.
SameKeyInAllLanes(candidate, i) == [lane \in Lane |-> KeyOf(candidate, i)]

\* buildCipherKeyBatch: the lanes differ in the ESN only.
KeyBatch(candidate, i) == [lane \in Lane |-> KeyOf(candidate + lane, i)]

\* recoverEsn gives up without an IMEI (bruteforce.cpp:336-337).
TryBatch ==
    /\ step = "read"
    /\ read # NoImei
    /\ first' \in FirstCandidates
    /\ StartBatch(KeyBatch(first', read))
    /\ UNCHANGED <<esn, imeiVars>>

SearchBatch == ReadBatch /\ UNCHANGED <<esn, first, imeiVars>>

Ended ==
    /\ step = "read"
    /\ read = NoImei \/ pc = "searched"
    /\ UNCHANGED vars

Next ==
    \/ BuildImeiBlock \/ BuildSecondBlock
    \/ GoBad \/ ReadImeiBlock
    \/ TryBatch \/ SearchBatch
    \/ Ended

Spec == Init /\ [][Next]_vars

-----------------------------------------------------------------------------
\* Recovery undoes recalculation: from intact blocks it decodes the IMEI, and
\* the batch that holds the ESN decrypts the second block in the lane of that
\* ESN, so that the block's checksums and markers are there to be found.
RecoveryUndoesRecalculation ==
    pc = "searched" /\ damaged = Nowhere /\ esn \in first .. first + LaneCount - 1 =>
        copies[esn - first] = plain

=============================================================================
