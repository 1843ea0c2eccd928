---------------------------- MODULE MCStringMap ----------------------------
(* Four keys that share home slots: k1 and k2 always, k3 with them until the
   table has eight slots; k1, k2 sit in the last slot, so probes wrap around
   to slot 0, the home of k4. *)
EXTENDS StringMap, TLC

CONSTANTS k1, k2, k3, k4, v1, v2

MCKeys   == {k1, k2, k3, k4}
MCValues == {v1, v2}
MCHash   == k1 :> 7 @@ k2 :> 15 @@ k3 :> 3 @@ k4 :> 8
=============================================================================
