------------------------------- MODULE Recalc -------------------------------
(***************************************************************************)
(* recalculateFullflash: patches the HASH and the IMEI of the bootcore and *)
(* then the key blocks of the EEPROM, one after the other, in the memory   *)
(* image the caller passed.  The content of a field is abstracted to       *)
(* whether it is the one generated from the wanted keys ("right") or not.  *)
(***************************************************************************)
EXTENDS Sequences, Naturals

CONSTANTS
    Blocks,     \* ids of the generated blocks, in the order they are written
    Required    \* those whose absence makes the result incomplete

\* Required blocks are among those that are written; Launcher assumes it.
LayoutIsSound ==
    /\ Blocks \in Seq(Nat)
    /\ Required \subseteq {Blocks[k] : k \in DOMAIN Blocks}

Id == {Blocks[k] : k \in DOMAIN Blocks}

\* The parts of a fullflash that recalculation looks at.  A block is absent,
\* has another size than the generated one, or holds right or wrong content.
FlashData == [
    bootcore : BOOLEAN,
    hash     : {"erased", "wrong", "right"},
    imei     : {"wrong", "right"},
    parses   : BOOLEAN,
    blocks   : [Id -> {"absent", "misfit", "wrong", "right"}] ]

VARIABLES
    original,   \* the image the caller read from the file
    data,       \* the memory image being patched
    pc,         \* which part of the function runs
    next,       \* index of the next generated block
    changed,    \* result.changed
    complete    \* result.complete

vars == <<original, data, pc, next, changed, complete>>

TypeOK ==
    /\ {original, data} \subseteq FlashData
    /\ pc \in {"enter", "hash", "imei", "eeprom", "blocks", "skipped", "thrown", "returned"}
    /\ next \in 1 .. Len(Blocks) + 1
    /\ {changed, complete} \subseteq BOOLEAN

Init ==
    /\ original \in FlashData
    /\ data = original
    /\ pc = "enter"
    /\ next = 1
    /\ changed = FALSE
    /\ complete = FALSE

-----------------------------------------------------------------------------
IsRecognised(d) == d.bootcore /\ d.hash # "erased"

Enter ==
    /\ pc = "enter"
    /\ IF IsRecognised(data)
       THEN /\ complete' = TRUE
            /\ pc' = "hash"
       ELSE /\ pc' = "skipped"
            /\ UNCHANGED complete
    /\ UNCHANGED <<original, data, next, changed>>

PatchHash ==
    /\ pc = "hash"
    /\ data' = [data EXCEPT !.hash = "right"]
    /\ changed' = (changed \/ data.hash # "right")
    /\ pc' = "imei"
    /\ UNCHANGED <<original, next, complete>>

PatchImei ==
    /\ pc = "imei"
    /\ data' = [data EXCEPT !.imei = "right"]
    /\ changed' = (changed \/ data.imei # "right")
    /\ pc' = "eeprom"
    /\ UNCHANGED <<original, next, complete>>

\* The constructor of Eeprom throws on a partition it cannot parse; by then
\* the bootcore of the memory image has been patched.
ParseEeprom ==
    /\ pc = "eeprom"
    /\ pc' = IF data.parses THEN "blocks" ELSE "thrown"
    /\ UNCHANGED <<original, data, next, changed, complete>>

Fits(id) == data.blocks[id] \in {"wrong", "right"}

\* Slip: only an absent block, not one of the wrong size, spoils completeness.
MisfitIsComplete ==
    /\ pc = "blocks"
    /\ next <= Len(Blocks)
    /\ ~Fits(Blocks[next])
    /\ complete' = (complete /\ ~(data.blocks[Blocks[next]] = "absent" /\ Blocks[next] \in Required))
    /\ next' = next + 1
    /\ UNCHANGED <<original, data, pc, changed>>

SkipBlock ==
    /\ pc = "blocks"
    /\ next <= Len(Blocks)
    /\ ~Fits(Blocks[next])
    /\ complete' = (complete /\ Blocks[next] \notin Required)
    /\ next' = next + 1
    /\ UNCHANGED <<original, data, pc, changed>>

\* Slip: the result of the last block replaces that of the earlier ones.
LastBlockDecides ==
    /\ pc = "blocks"
    /\ next <= Len(Blocks)
    /\ Fits(Blocks[next])
    /\ data' = [data EXCEPT !.blocks[Blocks[next]] = "right"]
    /\ changed' = (data.blocks[Blocks[next]] = "wrong")
    /\ next' = next + 1
    /\ UNCHANGED <<original, pc, complete>>

\* Eeprom::writeBlock returns whether a byte differed.
WriteBlock ==
    /\ pc = "blocks"
    /\ next <= Len(Blocks)
    /\ Fits(Blocks[next])
    /\ data' = [data EXCEPT !.blocks[Blocks[next]] = "right"]
    /\ changed' = (changed \/ data.blocks[Blocks[next]] = "wrong")
    /\ next' = next + 1
    /\ UNCHANGED <<original, pc, complete>>

Return ==
    /\ pc = "blocks"
    /\ next > Len(Blocks)
    /\ pc' = "returned"
    /\ UNCHANGED <<original, data, next, changed, complete>>

Step ==
    \/ Enter \/ PatchHash \/ PatchImei \/ ParseEeprom
    \/ SkipBlock \/ WriteBlock \/ Return

Ended == pc \in {"skipped", "thrown", "returned"} /\ UNCHANGED vars

Next == Step \/ Ended

Spec == Init /\ [][Next]_vars

-----------------------------------------------------------------------------
\* What recalculation is for: each field that exists and has the right size
\* holds what was generated for the wanted keys.
Recalculated(d) ==
    [d EXCEPT !.hash = "right", !.imei = "right",
              !.blocks = [id \in Id |-> IF d.blocks[id] \in {"wrong", "right"}
                                       THEN "right" ELSE d.blocks[id]]]

\* main.cpp replaces or copies the image only when "changed" is reported, so
\* it must be set exactly when a byte of the image has been patched.
ChangedIsExact == pc = "returned" => (changed <=> data # original)

\* "complete" is reported exactly when every key that the firmware checks is
\* in place, also the ones that have been there before.
CompleteIsExact ==
    pc = "returned" =>
        (complete <=> /\ data.hash = "right" /\ data.imei = "right"
                      /\ \A id \in Required : data.blocks[id] = "right")

\* "Recovery and recalculation are also skipped when the BCORE HASH is 54F8...",
\* the HASH of the wanted keys (recalc-siemens-fullflash.md:23-24).
RightHashIsSkipped == [][IsRecognised(original) /\ original.hash = "right" => data' = data]_vars

=============================================================================
