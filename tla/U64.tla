-------------------------------- MODULE U64 --------------------------------
(***************************************************************************)
(* The unsigned arithmetic the core uses on sequence numbers and on        *)
(* millisecond stamps.  Rust's u64::saturating_sub is the only operation   *)
(* whose behaviour at the boundary matters: plain subtraction would wrap.  *)
(***************************************************************************)
EXTENDS Integers

SatSub(a, b) == IF a >= b THEN a - b ELSE 0
============================================================================
