--------------------------- MODULE MCEvidenceStore ---------------------------
(***************************************************************************)
(* Instance of EvidenceStore: two processes on two numbers, one of which   *)
(* is protected, so that a number, a name, a start time or all of them may *)
(* be those of another process.  Processes and start times are             *)
(* interchangeable; numbers and names are not, since some are protected.   *)
(***************************************************************************)
EXTENDS EvidenceStore, TLC

Symmetric == Permutations(Process) \cup Permutations(Marker)

==============================================================================
