---------------------------- MODULE MCDmPageFlip ----------------------------
(* Model-checking instance of DmPageFlip: two flip ioctls racing the       *)
(* modeset commits on one CRTC.                                            *)
EXTENDS DmPageFlip

CONSTANTS f1, f2
=============================================================================
