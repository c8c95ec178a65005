--------------------------- MODULE MCMemoryModel ---------------------------
(***************************************************************************)
(* The programs of MCGraphs, for MemoryModel.                              *)
(***************************************************************************)
EXTENDS MemoryModel, MCGraphs

(* The programs are of the kind the theorem on FilteredNeverRead is about. *)
ASSUME MCHypotheses == CreatedOnce /\ OneReturn
=============================================================================
