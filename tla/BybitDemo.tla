------------------------------- MODULE BybitDemo -------------------------------
(***************************************************************************)
(* The Bybit Demo exchange as src/src/traderrd uses it: an external        *)
(* service, modelled from the requests that DemoExecutionService sends and *)
(* the answers it distinguishes.  One isolated, one-way linear position    *)
(* per symbol; one entry order and one close order per reservation, named  *)
(* by the deterministic orderLinkId.                                       *)
(*                                                                         *)
(* Requests are operators that describe their effect on the exchange; the  *)
(* other actions are what the exchange does on its own.                    *)
(***************************************************************************)
EXTENDS Integers, FiniteSets, FiniteSetsExt, Functions

CONSTANTS Signals, Symbols, SymbolOf, DirectionOf,
          EntrySize   \* the quantity of each signal's entry, in quantity steps

VARIABLES
  orders,      \* [{"entry", "close"} -> [Signals -> OrderState]]
  cancelling,  \* entries whose cancellation was accepted and not yet effected
  exited,      \* quantity of each entry that has been closed again
  stops,       \* the reservation whose TP and SL guard a symbol's position
  reported     \* reservations whose closed PnL has been published

NoStop == "none"

Quantities == {0} \cup UNION {1..EntrySize[s] : s \in Signals}

OrderState ==
  [status : {"none", "new", "partial", "filled", "cancelled", "rejected"},
   filled : Quantities, size : Quantities]

NoOrder == [status |-> "none", filled |-> 0, size |-> 0]

Live(order) == order.status \in {"new", "partial"}

Exposure(s) == orders["entry"][s].filled - exited[s]

\* The signed one-way position that the exposures on a symbol add up to.
Signed(s, quantity) == IF DirectionOf[s] = "LONG" THEN quantity ELSE -quantity

Position(y) ==
  SumFunctionOnSet([s \in Signals |-> Signed(s, Exposure(s))],
                   {s \in Signals : SymbolOf[s] = y})

-------------------------------------------------------------------------------
(* Requests. *)

\* POST /v5/order/create
Created(kind, s, size) ==
  orders' = [orders EXCEPT ![kind][s] = [status |-> "new", filled |-> 0, size |-> size]]

\* POST /v5/order/cancel is accepted for a live order only; the acceptance does not
\* yet end the order.
CancelAccepted(s) ==
  /\ Live(orders["entry"][s])
  /\ cancelling' = cancelling \cup {s}

\* It is refused for an order that is over, and may be for one that is being cancelled.
CancelRefused(s) ==
  /\ ~Live(orders["entry"][s]) \/ s \in cancelling
  /\ UNCHANGED cancelling

\* POST /v5/position/trading-stop replaces the TP and SL of an open position.
StopsSet(s) ==
  /\ Position(SymbolOf[s]) # 0
  /\ stops' = [stops EXCEPT ![SymbolOf[s]] = s]

-------------------------------------------------------------------------------
(* What happens at the exchange. *)

FillEntry(s) ==
  /\ Live(orders["entry"][s])
  /\ \E q \in 1..EntrySize[s] :
       /\ q > orders["entry"][s].filled
       /\ orders' = [orders EXCEPT !["entry"][s].filled = q,
                                   !["entry"][s].status =
                                      IF q = EntrySize[s] THEN "filled" ELSE "partial"]
  /\ cancelling' = IF orders'["entry"][s].status = "filled" THEN cancelling \ {s}
                                                             ELSE cancelling
  /\ UNCHANGED <<exited, stops, reported>>

EffectCancel(s) ==
  /\ s \in cancelling
  /\ orders' = [orders EXCEPT !["entry"][s].status = "cancelled"]
  /\ cancelling' = cancelling \ {s}
  /\ UNCHANGED <<exited, stops, reported>>

\* A PostOnly entry that would take liquidity is turned away.
RefusePostOnly(s) ==
  /\ orders["entry"][s].status = "new"
  /\ \E status \in {"cancelled", "rejected"} :
       orders' = [orders EXCEPT !["entry"][s].status = status]
  /\ cancelling' = cancelling \ {s}
  /\ UNCHANGED <<exited, stops, reported>>

\* The symbol is flat after a closing of the quantity q of s: its TP and SL are gone.
AfterExit(s, q) ==
  /\ exited' = [exited EXCEPT ![s] = @ + q]
  /\ stops' = IF Position(SymbolOf[s]) = Signed(s, q)
              THEN [stops EXCEPT ![SymbolOf[s]] = NoStop] ELSE stops

\* A reduce-only market order closes what is open, at most its own size.
FillClose(s) ==
  /\ Live(orders["close"][s])
  /\ Exposure(s) > 0
  /\ LET size == orders["close"][s].size
         q    == IF size < Exposure(s) THEN size ELSE Exposure(s)
     IN  /\ orders' = [orders EXCEPT !["close"][s].status = "filled",
                                     !["close"][s].filled = q]
         /\ AfterExit(s, q)
  /\ UNCHANGED <<cancelling, reported>>

\* A reduce-only order with nothing left to reduce is cancelled.
LapseClose(s) ==
  /\ Live(orders["close"][s])
  /\ Exposure(s) = 0
  /\ orders' = [orders EXCEPT !["close"][s].status = "cancelled"]
  /\ UNCHANGED <<cancelling, exited, stops, reported>>

\* The take profit or the stop loss closes the whole position.
HitStop(s) ==
  /\ stops[SymbolOf[s]] = s
  /\ Exposure(s) > 0
  /\ AfterExit(s, Exposure(s))
  /\ UNCHANGED <<orders, cancelling, reported>>

\* The closed PnL of an exposure that came to its end is published some time later.
Report(s) ==
  /\ s \notin reported
  /\ orders["entry"][s].filled > 0
  /\ ~Live(orders["entry"][s])
  /\ Exposure(s) = 0
  /\ reported' = reported \cup {s}
  /\ UNCHANGED <<orders, cancelling, exited, stops>>

ExchangeInit ==
  /\ orders = [kind \in {"entry", "close"} |-> [s \in Signals |-> NoOrder]]
  /\ cancelling = {}
  /\ exited = [s \in Signals |-> 0]
  /\ stops = [y \in Symbols |-> NoStop]
  /\ reported = {}

ExchangeTypeOK ==
  /\ orders \in [{"entry", "close"} -> [Signals -> OrderState]]
  /\ cancelling \subseteq Signals
  /\ exited \in [Signals -> Quantities]
  /\ stops \in [Symbols -> Signals \cup {NoStop}]
  /\ reported \subseteq Signals
===============================================================================
