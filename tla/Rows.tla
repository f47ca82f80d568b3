-------------------------------- MODULE Rows --------------------------------
(***************************************************************************)
(* What the components share: the absent value of a nullable column.       *)
(***************************************************************************)
CONSTANT None    \* NULL, or a reference to no row
=============================================================================
