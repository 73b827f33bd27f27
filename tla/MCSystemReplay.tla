--------------------------- MODULE MCSystemReplay ---------------------------
(* SystemReplay for TLC: the default policies scaled to a day of a few     *)
(* bars; a thesis has the three bars of the code, and time for two more.   *)
(* The lifecycle of its theses by itself, as it is in live operation, with *)
(* bars between those of the M5, closing facts and crashes.  And           *)
(* Attribution, which tells the experiences of a replay from its records:  *)
(* it has a replay of its own.  A behaviour is about one of the three.     *)
EXTENDS SystemReplay, Attribution

CONSTANTS LiveKinds, LiveFacts, LiveGap, LiveTime, LiveCrashes

Live == INSTANCE ScenarioLifecycle
  WITH Kinds <- LiveKinds, TerminalFacts <- LiveFacts,
       MaxGap <- LiveGap, MaxTime <- LiveTime, MaxCrashes <- LiveCrashes

VARIABLE about

M5Only == {"M5"}

SmallDiscipline ==
  [preventSetup |-> TRUE, preventThesis |-> TRUE, preventDirection |-> TRUE,
   reentry |-> "DISABLED", reentryCooldown |-> 0,
   maxPositions |-> 1, maxPerDay |-> 1, maxPerSession |-> 1,
   cooldown |-> 1, stopCooldown |-> 0, rejectionCooldown |-> 0,
   lossThreshold |-> 2, lossPause |-> 3]

SmallRisk ==
  [emergencyDaily |-> 1, emergencyTotal |-> 1, maxDaily |-> 1, maxTotal |-> 1,
   minMarginLevel |-> 1, maxOpen |-> 1, maxPending |-> 0, maxSpread |-> 0, maxSlippage |-> 0, minStop |-> 1,
   maxVolume |-> 1, maxGross |-> 1, maxNet |-> 1]

DemoManagement ==
  [protect |-> TRUE, breakEven |-> TRUE, minAge |-> 1, maxChange |-> 1,
   exitInvalidated |-> TRUE, exitExpired |-> TRUE, exitScenario |-> TRUE]

DefaultActions == [addMissing |-> TRUE, normalize |-> TRUE]

(* The end of one day, a closed market, and four bars of the next.         *)
TwoDays == {4, 5, 7, 8, 9, 10}

OpenPrices == {7, 10}
ClosePrices == {5, 15}

MCInit == ReplayInit /\ StoryInit /\ about \in {"REPLAY", "LIFECYCLE", "EXPERIENCES"}

MCNext ==
  \/ about = "REPLAY" /\ ReplayBar /\ UNCHANGED <<storyVars, about>>
  \/ about = "LIFECYCLE" /\ Live!Next /\ UNCHANGED <<replayVars, storyVars, about>>
  \/ about = "EXPERIENCES" /\ StoryNext /\ UNCHANGED <<lifecycleVars, replayVars, about>>

MCSpec == MCInit /\ [][MCNext]_<<lifecycleVars, replayVars, storyVars, about>>
=============================================================================
