--------------------------- MODULE MCServiceRecord ---------------------------
(***************************************************************************)
(* Which connection a caller uses makes no difference.                     *)
(***************************************************************************)
EXTENDS ServiceRecord

ConnSymmetry == Permutations(Conn)
=============================================================================
