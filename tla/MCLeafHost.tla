----------------------------- MODULE MCLeafHost -----------------------------
(***************************************************************************)
(* A small instance of LeafHost: two runs, which have one name or two, the *)
(* names themselves being interchangeable.                                 *)
(***************************************************************************)
EXTENDS LeafHost

OneOrTwo == {[l \in Leaves |-> CHOOSE n \in Names : TRUE],
             CHOOSE f \in [Leaves -> Names] : \A k, l \in Leaves : f[k] = f[l] => k = l}
=============================================================================
