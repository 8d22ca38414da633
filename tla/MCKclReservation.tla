-------------------------- MODULE MCKclReservation --------------------------
(* Three fences for src on two contexts (a1 and a2 share one, so a2 can   *)
(* replace a1 in place), and one fence d1 already in dst.                 *)
EXTENDS KclReservation, TLC

CONSTANTS a1, a2, b1, d1

MCCtx == (a1 :> "A") @@ (a2 :> "A") @@ (b1 :> "B") @@ (d1 :> "D")
=============================================================================
