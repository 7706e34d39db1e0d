--------------------------- MODULE MCOtpRecovery ---------------------------
(* Images of two phones and of a recalculated fullflash, with some or all  *)
(* of their security records lost.                                         *)
EXTENDS OtpRecovery, TLC

CONSTANTS p1, p2, e1, e2, e3, h1, h2, h3, i1

MCEsnOfHash == h1 :> e1 @@ h2 :> e2 @@ h3 :> e3

\* A genuine image of the phone with this HASH, of which only "kept" survives.
Genuine(hash, kept, imeis) == [
    bootcore |-> TRUE,
    named    |-> TRUE,
    hash     |-> hash,
    imeis    |-> imeis,
    bkeys    |-> <<None, IF "BKEY" \in kept THEN hash ELSE None>>,
    skey     |-> "HASH" \in kept,
    verified |-> {MCEsnOfHash[hash]},
    has5077  |-> "5077" \in kept,
    accepts  |-> [r \in Record |->
        IF r \notin kept THEN {}
        ELSE IF r = "5008" THEN {MCEsnOfHash[hash], e2} ELSE {MCEsnOfHash[hash]}] ]

Blank == [Genuine(h1, {}, <<None, None, None>>) EXCEPT !.hash = None]

AnImei == <<None, i1, None>>
NoImei == <<None, None, None>>

MCImages ==
    {Genuine(h, {"BKEY", "HASH"}, AnImei) : h \in {h1, h2}} \cup
    {Genuine(h1, {"HASH"}, NoImei), Genuine(h1, {"HASH", "5121"}, AnImei), Genuine(h2, {"5077"}, AnImei),
     Genuine(h2, {"5468"}, <<i1, None, None>>),
     Genuine(h1, {"5008", "5077"}, AnImei), Genuine(h2, {}, AnImei),
     Genuine(h3, {}, AnImei), Blank, [Blank EXCEPT !.bootcore = FALSE],
     [Genuine(h2, {"5468"}, AnImei) EXCEPT !.named = FALSE]}

\* The text is shorter when the image has no IMEI, BKEY or SKEY to store.
MCTextSize == [i \in MCImages |->
    1 + (IF HasBkey(i) THEN 2 ELSE 0) + (IF ImeiOf(i) = None THEN 0 ELSE 1)]

MCSymmetry == Permutations(Launch)

=============================================================================
