---------------------------- MODULE FullflashFile ----------------------------
(***************************************************************************)
(* What the user sees of the fullflash: a file that changes in two ways    *)
(* only, as a whole into its recalculated form, and by what the phone      *)
(* itself writes once it runs.  FlashUpdate implements it.                 *)
(***************************************************************************)
VARIABLES
    content,        \* which kind of image the file holds
    saved,          \* the phone has written to it
    permissions

vars == <<content, saved, permissions>>

Readable == {"original", "recalculated", "unbound", "malformed"}

Init ==
    /\ content \in Readable
    /\ saved = FALSE
    /\ permissions = "user"

\* From scratch, or once more over a file that somebody else has replaced
\* in the meantime; then what the phone has saved there is gone.
Recalculate ==
    /\ content \in {"original", "recalculated"}
    /\ content' = "recalculated"
    /\ saved' = FALSE
    /\ UNCHANGED permissions

Save ==
    /\ content \in {"recalculated", "unbound"}
    /\ saved' = TRUE
    /\ UNCHANGED <<content, permissions>>

Next == Recalculate \/ Save

Spec == Init /\ [][Next]_vars

=============================================================================
