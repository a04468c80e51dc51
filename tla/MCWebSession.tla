---------------------------- MODULE MCWebSession ----------------------------
(* Two actors who take turns at one tab.                                   *)
EXTENDS WebSession

CONSTANTS alice, bob
=============================================================================
