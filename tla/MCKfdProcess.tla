---------------------------- MODULE MCKfdProcess ----------------------------
(* Model-checking instance of KfdProcess: one device present at creation,  *)
(* one that appears later, and two lookup threads.                         *)
EXTENDS KfdProcess

CONSTANTS g1, g2, t1, t2
=============================================================================
