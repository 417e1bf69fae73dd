-------------------------- MODULE MC_CuckooFilter --------------------------
(***************************************************************************)
(* Model-checking instance of CuckooFilter.  The constants are set in the  *)
(* .cfg files: ExpectedNumElements 4 gives 2 buckets of 4 slots (the       *)
(* constructor doubles the single bucket because the fill fraction is 1),  *)
(* so the table fills after 8 inserts and the kick loop and the victim     *)
(* slot are reached.                                                       *)
(***************************************************************************)
EXTENDS CuckooFilter

=============================================================================
