-------------------------------- MODULE Int64 --------------------------------
(***************************************************************************)
(* Amounts are i64 in the programs and BIGINT in Postgres, whose sums fail  *)
(* with "bigint out of range" instead of wrapping around.                   *)
(***************************************************************************)
EXTENDS Integers

CONSTANT I64Max

ASSUME I64Assumption == I64Max \in Nat

I64 == -I64Max .. I64Max
=============================================================================
