------------------------- MODULE MC_ExternalFileList -------------------------
(* Every tree of four entries below the location: files and directories  *)
(* up to three levels deep, with and without a pattern, a trailing "/" on *)
(* the location and directory marker objects.  MAX_VISIT_COUNT of 4 lets  *)
(* the largest trees overflow and the others pass, so both sides of the   *)
(* limit are reached.                                                     *)
EXTENDS ExternalFileList

MCNumEntries == 4
MCMaxVisit == 4
==============================================================================
