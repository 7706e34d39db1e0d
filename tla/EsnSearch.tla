----------------------------- MODULE EsnSearch -----------------------------
(***************************************************************************)
(* What one ESN search promises to recoverEsn, whatever the number of      *)
(* threads: a call either returns an ESN that satisfies the predicate it   *)
(* was given, or reports that no ESN does, or fails.  EsnSweep is the      *)
(* multi-threaded search and implements this specification.                *)
(***************************************************************************)
EXTENDS Naturals

CONSTANTS
    EsnCount,   \* number of candidates: the search space is 0 .. EsnCount - 1
    MatchSets   \* the predicates a caller may pass, as sets of matching ESNs

VARIABLES
    matches,    \* the ESNs that satisfy the predicate of this call
    answer      \* what the call has returned so far

vars == <<matches, answer>>

Pending   == [status |-> "pending",  esn |-> 0]
NoneFound == [status |-> "notFound", esn |-> 0]
Failed    == [status |-> "failed",   esn |-> 0]
FoundEsn(esn) == [status |-> "found", esn |-> esn]

Init ==
    /\ matches \in MatchSets
    /\ answer = Pending

ReturnMatch ==
    /\ answer = Pending
    /\ \E esn \in matches : answer' = FoundEsn(esn)
    /\ UNCHANGED matches

ReturnNotFound ==
    /\ answer = Pending
    /\ matches = {}
    /\ answer' = NoneFound
    /\ UNCHANGED matches

Fail ==
    /\ answer = Pending
    /\ answer' = Failed
    /\ UNCHANGED matches

Next == ReturnMatch \/ ReturnNotFound \/ Fail

Spec == Init /\ [][Next]_vars

=============================================================================
