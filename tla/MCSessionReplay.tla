--------------------------- MODULE MCSessionReplay ---------------------------
(* Small instances of SessionReplay for TLC; the bounds are in the configs.  *)
EXTENDS SessionReplay

Lengths31 == <<3, 1>>
Lengths2 == <<2>>
TheThird == <<1, 3>>
TheSecond == <<1, 2>>
=============================================================================
