---------------------------- MODULE MCDemoExecution ----------------------------
(***************************************************************************)
(* Instances of DemoExecution and OwnedClose for TLC: a long and a short   *)
(* signal on X and a long one on Y.                                        *)
(***************************************************************************)
EXTENDS OwnedClose

CONSTANTS x1, x2, y1, X, Y

MCSymbolOf == [s \in Signals |-> IF s = y1 THEN Y ELSE X]

MCDirectionOf == [s \in Signals |-> IF s = x2 THEN "SHORT" ELSE "LONG"]

MCCombinedRate == [s \in Signals |-> 40]

MCExpiryOf == [s \in Signals |-> IF s = y1 THEN 1 ELSE 2]

MCEntrySize == [s \in Signals |-> IF s = y1 THEN 2 ELSE 1]

Course(arrivals, happens, times) ==
  [arrivals |-> arrivals, happens |-> happens, times |-> times]

\* A reversal while processes die and are started again.
Crashing == Course(<<x1, x2>>, {"crash", "fill"}, {0})

\* A reversal while answers get lost and entries are turned away or stopped out.
Unanswered == Course(<<x1, x2>>, {"lost_response", "refusal", "fill", "stop"}, {0})

\* One entry of two quantity steps, which may be filled in part.
Piecemeal == Course(<<y1>>, Events \ {"mark", "unavailable", "operator"}, {0, 2})

\* The same entry while questions to the exchange fail.
Unreadable == Course(<<y1>>, {"unavailable", "fill", "refusal", "stop"}, {0, 2})

\* A reversal next to an entry of another symbol, none of which is filled: expiry and
\* falling equity cancel several entries with one decision.
Expiring == Course(<<y1, x1, x2>>, {}, {0, 1})

Falling == Course(<<y1, x1, x2>>, {"mark"}, {0})

\* One entry which the operator may want closed while the equity falls.
ByHand == Course(<<x1>>, {"operator", "fill", "mark", "lost_response", "stop"}, {0})

MCFaults == {Crashing, Unanswered, Piecemeal, Unreadable, Expiring, Falling, ByHand}

\* An entry on its own, and with an operator until it is overdue or stopped out.
MCLive ==
  {Course(<<x1>>, {"fill", "refusal", "stop"}, {0, 2}),
   Course(<<x1>>, {"operator", "fill"}, {0, 2}),
   Course(<<x1>>, {"operator", "fill", "stop"}, {0})}

MCKillClose == {Course(<<x1>>, {"fill", "mark"}, {0})}

MCOtherSymbol == {Course(<<x1, y1>>, {"fill", "mark"}, {0})}

MCRelease == {Course(<<x1, x2>>, {"fill", "unavailable"}, {0})}

MCReversalFill == {Course(<<x1, x2>>, {"fill"}, {0})}
===============================================================================
