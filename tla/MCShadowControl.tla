-------------------------- MODULE MCShadowControl --------------------------
(* Instance of ShadowControl for TLC: one session gives commands, another  *)
(* only asks for the status while the first is in the middle of one.       *)
EXTENDS ShadowControl

CONSTANTS operator, viewer

MCSessions == {operator, viewer}
MCOperators == {operator}
=============================================================================
