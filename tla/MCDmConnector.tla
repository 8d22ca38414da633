--------------------------- MODULE MCDmConnector ----------------------------
(* Model-checking instance of DmConnector: flip ioctls and modeset commits *)
(* on one CRTC, with hotplugs and suspend/resume cycles on its connector.  *)
EXTENDS DmConnector

CONSTANTS f1, f2
=============================================================================
