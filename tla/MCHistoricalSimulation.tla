------------------------- MODULE MCHistoricalSimulation -------------------------
(***************************************************************************)
(* An instance of HistoricalSimulation for TLC: two signals, the first     *)
(* received on the minute and the second inside one.                       *)
(***************************************************************************)
EXTENDS HistoricalSimulation

MCReceived == [s \in Signals |-> IF s = 1 THEN 0 ELSE 3]

All == {"entry", "tp", "sl"}

MCMarkets ==
  {m \in [Candles -> {{}, {"entry"}, {"sl"}, All}] :
     /\ m[0] \in {{}, {"entry"}} /\ m[1] \in {{}, All}
     /\ m[2] # {} /\ m[3] # {"entry"}}

MCGaps == {{}, {1}}
===============================================================================
