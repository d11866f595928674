---------------------------- MODULE MCCanManager ----------------------------
(* The CAN manager for TLC: two cards, one of them mandatory.  One is a    *)
(* group of its own, the other one together with a GPS receiver.           *)
EXTENDS CanManager, TLC

CONSTANTS gps1, commCard1, riu

MCPartsOf == commCard1 :> <<1, gps1>> @@ riu :> <<2>>
=============================================================================
