----------------------------- MODULE MCRiskEngine -----------------------------
(***************************************************************************)
(* Instances of RiskEngine for TLC: two opposite signals on X and one      *)
(* signal on each other symbol.  The short one has no explicit expiry and  *)
(* is cheap (rate below 3 %, so the half-equity cap binds).                *)
(***************************************************************************)
EXTENDS RiskEngine

CONSTANTS x1, x2, y1, z1, w1, X, Y, Z, W

MCSymbolOf == [s \in Signals |->
  CASE s \in {x1, x2} -> X [] s = y1 -> Y [] s = z1 -> Z [] s = w1 -> W]

MCDirectionOf == [s \in Signals |-> IF s = x2 THEN "SHORT" ELSE "LONG"]

MCCombinedRate == [s \in Signals |-> IF s = x2 THEN 20 ELSE 40]

MCExpiryOf == [s \in Signals |-> IF s = x2 THEN NoExpiry ELSE 2]

\* The long signals differ in their names only; a signal and its symbol are
\* exchanged together, which leaves SymbolOf as it is.
Alike == {x1, y1, z1, w1}

MCSymmetry ==
  {[v \in Alike \cup {X, Y, Z, W} |->
      IF v \in Alike THEN p[v]
                     ELSE MCSymbolOf[p[CHOOSE s \in Alike : MCSymbolOf[s] = v]]] :
     p \in {f \in [Alike -> Alike] : {f[s] : s \in Alike} = Alike}}
===============================================================================
