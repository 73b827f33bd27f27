------------------------ MODULE MCScenarioLifecycle ------------------------
(* ScenarioLifecycle for TLC: M5 bars alone, and theses of three bars, the *)
(* numbers of the default policy.                                          *)
EXTENDS ScenarioLifecycle

M5Only == {"M5"}
=============================================================================
