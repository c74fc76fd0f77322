----------------------------- MODULE MCCapture -----------------------------
(***************************************************************************)
(* Small instances of Capture.  Descendants are interchangeable, so the    *)
(* safety runs take them as a symmetry set.                                *)
(***************************************************************************)
EXTENDS Capture, TLC

Symmetry == Permutations(Procs)
============================================================================
