--------------------------- MODULE MCBrokerClock ---------------------------
(* BrokerClock with an hour of two bars and two plausible offsets.         *)
EXTENDS BrokerClock, TLC

TwoOffsets == {0, Hour}
=============================================================================
