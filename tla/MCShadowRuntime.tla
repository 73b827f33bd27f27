--------------------------- MODULE MCShadowRuntime ---------------------------
(* Instances for TLC of four views of the shadow runtime that share no     *)
(* state: its loop (LiveShadow), its event stream (RuntimeStream) with two *)
(* of the five specialists, the clock it dates bars by (BrokerClock) with  *)
(* an hour of two bars, and what it journals of a bar (ShadowFunnel) with  *)
(* the five.  A behaviour is about one of them.                            *)
EXTENDS LiveShadow, RuntimeStream, BrokerClock, ShadowFunnel, TLC

VARIABLE about

vars == <<shadowVars, streamVars, clockVars, funnelVars, about>>

TwoAgents == <<"chart", "quant">>
TwoOffsets == {0, Hour}

Says(side, strength) == [side |-> side, strength |-> strength]

FiveAgents == <<"chart", "quant", "historical", "regime", "news">>

(* All agree; or three are opposed by two who are weaker each, and together*)
(* strong enough for a discussion, on the first bar polled.                *)
OneDebate(poll) ==
  {[a \in ToSet(FiveAgents) |-> Says("BULLISH", 1)],
   [a \in ToSet(FiveAgents) |->
      IF poll > 1 THEN Says("BULLISH", 1)
      ELSE IF a \in {"regime", "news"} THEN Says("BEARISH", 2) ELSE Says("BULLISH", 3)]}

(* A setup either way; on the second bar polled one against the structure  *)
(* of the M15.                                                             *)
OneQuiet(poll) ==
  IF poll # 2 THEN {[usable |-> TRUE, bias |-> 0, up |-> {"QUANT"}, down |-> {"STRUCTURE"}]}
  ELSE {[usable |-> TRUE, bias |-> -1, up |-> {"BREAKOUT"}, down |-> {}]}

TwoADay ==
  [preventSetup |-> TRUE, preventThesis |-> TRUE, preventDirection |-> TRUE,
   reentry |-> "AFTER_EXIT_WITH_NEW_SETUP", reentryCooldown |-> 1,
   maxPositions |-> 1, maxPerDay |-> 2, maxPerSession |-> 2,
   cooldown |-> 1, stopCooldown |-> 1, rejectionCooldown |-> 0,
   lossThreshold |-> 3, lossPause |-> 3]

Init ==
  /\ ShadowInit /\ StreamInit /\ ClockInit /\ FunnelInit
  /\ about \in {"LOOP", "STREAM", "CLOCK", "FUNNEL"}
  /\ about # "CLOCK" => offset = 0 /\ env = CHOOSE e \in Environments : TRUE

Next ==
  \/ about = "LOOP" /\ ShadowNext /\ UNCHANGED <<streamVars, clockVars, funnelVars, about>>
  \/ about = "STREAM" /\ StreamNext /\ UNCHANGED <<shadowVars, clockVars, funnelVars, about>>
  \/ about = "CLOCK" /\ ClockNext /\ UNCHANGED <<shadowVars, streamVars, funnelVars, about>>
  \/ about = "FUNNEL" /\ FunnelNext /\ UNCHANGED <<shadowVars, streamVars, clockVars, about>>

Spec == Init /\ [][Next]_vars
=============================================================================
