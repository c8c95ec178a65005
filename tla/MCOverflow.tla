----------------------------- MODULE MCOverflow -----------------------------
(***************************************************************************)
(* CartesianProduct with an int too narrow for the product, as 32 bits are *)
(* for 16 loads with 4 choices each.                                       *)
(***************************************************************************)
EXTENDS CartesianProduct

MCRowSizes == {<<3, 3>>, <<4, 4, 5>>}
=============================================================================
