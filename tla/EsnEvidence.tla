---------------------------- MODULE EsnEvidence ----------------------------
(***************************************************************************)
(* What a fullflash says about the ESN it was made for: the identity that  *)
(* getFullflashInfo extracts and the order in which recoverEsn tries the   *)
(* security records.  A record is abstracted to the set of ESNs that the   *)
(* search over it accepts: {} stands for a record that is absent, erased   *)
(* or of the wrong size, and EsnSweep shows that one search returns one of *)
(* the accepted ESNs, or none only when the set is empty.                  *)
(***************************************************************************)
EXTENDS Sequences, FiniteSetsExt

CONSTANTS
    Esn,            \* electronic serial numbers
    Hash,           \* values of the bootcore HASH
    Imei,           \* IMEIs
    None,           \* an erased HASH, a missing IMEI, a missing BKEY
    KnownHash,      \* RECALCULATED_HASH: what --siemens-recalc leaves behind
    KnownEsn        \* RECALCULATED_ESN

ASSUME EvidenceAssumption ==
    /\ None \notin Hash \cup Imei
    /\ KnownHash \in Hash
    /\ KnownEsn \in Esn

Record == {"5468", "BKEY", "HASH", "5008", "5121", "5123", "5077"}

FlashImage == [
    bootcore : BOOLEAN,                 \* magic, version and size are recognised
    named    : BOOLEAN,                 \* vendor, model and EEPROM are readable
    hash     : Hash \cup {None},        \* bootcore HASH, None when erased
    imeis    : Seq(Imei \cup {None}),   \* bootcore, block 76, block 5009 as decoded
    bkeys    : Seq(Hash \cup {None}),   \* MD5 of the BKEY in block 52, block 320
    skey     : BOOLEAN,                 \* block 5122 holds an SKEY
    verified : SUBSET Esn,              \* ESNs that pass the checksums of a usable 5077,
    has5077  : BOOLEAN,                 \* ... which exists
    accepts  : [Record -> SUBSET Esn] ] \* ESNs that satisfy each search

-----------------------------------------------------------------------------
\* The first usable entry of a list of places, in the order they are consulted.
FirstOf(places, usable) ==
    LET hits == {i \in DOMAIN places : places[i] \in usable}
    IN  IF hits = {} THEN None ELSE places[Min(hits)]

\* getFullflashInfo: the IMEI of the bootcore, else of block 76, else of 5009.
ImeiOf(image) == FirstOf(image.imeis, Imei)

\* getFullflashInfo keeps a BKEY only when its MD5 is the bootcore HASH.
HasBkey(image) == FirstOf(image.bkeys, {image.hash} \ {None}) # None

\* recoverEsnFromBlock5008 double-checks a hit against block 5077 if it can.
Accepts5008(image) ==
    IF image.has5077 THEN image.accepts["5008"] \cap image.verified
                     ELSE image.accepts["5008"]

\* recoverEsnFromBkeyOrHash: BKEY if there is one, the HASH otherwise.
AcceptsKey(image) ==
    IF image.skey THEN image.accepts[IF HasBkey(image) THEN "BKEY" ELSE "HASH"] ELSE {}

AcceptsMarker(image, record) == IF image.skey THEN image.accepts[record] ELSE {}

\* The searches of recoverEsn in the order it runs them.
Attempts(image) ==
    <<image.accepts["5468"], AcceptsKey(image)>> \o
    (IF ImeiOf(image) = None THEN << >> ELSE
        <<Accepts5008(image), AcceptsMarker(image, "5121"),
          AcceptsMarker(image, "5123"), image.accepts["5077"]>>)

\* The ESNs recoverEsn may return for an image; {} means "not found".
RecoveredEsns(image) ==
    IF image.hash = KnownHash THEN {KnownEsn} ELSE
        LET hits == {i \in DOMAIN Attempts(image) : Attempts(image)[i] # {}}
        IN  IF hits = {} THEN {} ELSE Attempts(image)[Min(hits)]

=============================================================================
