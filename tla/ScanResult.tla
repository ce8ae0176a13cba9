-------------------------- MODULE ScanResult --------------------------------
(***************************************************************************)
(* What a paginated scan promises its caller: each call returns the next   *)
(* slice (possibly empty) of the expected result, and eventually the scan  *)
(* reports no more results having returned exactly the expected cells.     *)
(***************************************************************************)
EXTENDS Sequences, Naturals

VARIABLES
  expected,  \* the full result the scan should produce
  returned,  \* the cells returned so far
  finished   \* has_more_result() is false

vars == <<expected, returned, finished>>

Init == returned = <<>> /\ finished = FALSE

\* A call returns the next slice of the expected result; the call that
\* returns its last cells may also report that nothing more will come.
ReturnSlice ==
  /\ ~finished
  /\ \E n \in Len(returned)..Len(expected) :
       /\ returned' = SubSeq(expected, 1, n)
       /\ finished' \in IF n = Len(expected) THEN BOOLEAN ELSE {FALSE}
  /\ UNCHANGED expected

Next == ReturnSlice

\* Some call eventually makes progress while the scan is not finished.
FairSpec == Init /\ [][Next]_vars /\ WF_vars(Next)
=============================================================================
