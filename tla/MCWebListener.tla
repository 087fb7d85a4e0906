---------------------------- MODULE MCWebListener ----------------------------
(***************************************************************************)
(* Instances of WebListener for TLC: up to three listeners, two            *)
(* connections.                                                            *)
(***************************************************************************)
EXTENDS WebListener

CONSTANTS l1, l2, l3, c1, c2
==============================================================================
