----------------------------- MODULE MCBleRelay -----------------------------
(***************************************************************************)
(* The instance of BleRelay that is checked: one bonded phone whose link   *)
(* carries every part of an answer, and one that is not bonded and has a   *)
(* link of the smallest size.                                              *)
(***************************************************************************)
EXTENDS BleRelay, TLC

CONSTANTS p1, p2

MCPayload == (p1 :> 3) @@ (p2 :> 1)
=============================================================================
