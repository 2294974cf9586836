------------------------------ MODULE RiskEngine ------------------------------
(***************************************************************************)
(* The portfolio risk engine, src/src/traderrd/domain/risk.py: a           *)
(* deterministic state machine that turns equity marks, signals and        *)
(* exchange confirmations into reservations and proposed exchange actions. *)
(*                                                                         *)
(* PortfolioState is kept in two variables: account (the clock, the equity *)
(* marks and the loss boundaries) and book (the mode, the reservations and *)
(* the staged reversals).  One action stands for one RiskCommand with its  *)
(* whole handler: clock advance, optional equity mark, then the command.   *)
(* A command for which the code raises changes nothing and is no step.     *)
(*                                                                         *)
(* Equity is an integer number of account units and risk is counted in     *)
(* 1/RiskScale of a unit, which makes every percentage of the fixed policy *)
(* exact.  Time counts ticks of the America/Lima wall clock, tick 0 being  *)
(* the start of a Monday.                                                  *)
(***************************************************************************)
EXTENDS Integers, FiniteSets, Functions

CONSTANTS
  Signals,        \* signal ids; the reservation of a signal has the same id
  Symbols,        \* traded symbols
  SymbolOf,       \* [Signals -> Symbols], fixed by the signal's text
  DirectionOf,    \* [Signals -> Directions], fixed by the signal's text
  CombinedRate,   \* [Signals -> Nat], entry-to-stop rate plus costs, permille
  ExpiryOf,       \* [Signals -> Int], entry expiry fixed by the signal's age
  Equities,       \* the equity marks a snapshot may carry
  Times,          \* BOUND: the instants at which commands may occur
  PendingTTL,     \* life of an unfilled entry (three hours), in ticks
  DayLength,      \* ticks in a local day
  MaxEpoch        \* BOUND: demo risk epochs an operator may start

Directions == {"LONG", "SHORT"}

ASSUME SignalAssumption ==
  /\ SymbolOf \in [Signals -> Symbols]
  /\ DirectionOf \in [Signals -> Directions]
  /\ CombinedRate \in [Signals -> Nat \ {0}]
  /\ ExpiryOf \in [Signals -> Int]

ASSUME MarkAssumption ==
  /\ Equities \subseteq Nat \ {0}
  /\ Times \subseteq Nat
  /\ PendingTTL \in Nat \ {0}
  /\ DayLength \in Nat \ {0}
  /\ MaxEpoch \in Nat

VARIABLES
  account,    \* marks and loss boundaries of PortfolioState
  book,       \* mode, reservations and reversal intents of PortfolioState
  decision,   \* the RiskDecision of the last command
  requested   \* history: the cancel and close requests emitted so far that
              \* concern a reservation still pending, or still held

vars == <<account, book, decision, requested>>

-------------------------------------------------------------------------------
(* The fixed policy and the vocabulary of the engine. *)

RiskScale       == 2000   \* risk units per account unit
TradePercentX10 == 15     \* target risk of one trade, 1.5 %
MaxReservations == 3
ReservedPercent == 5
DailyPercent    == 6
WeeklyPercent   == 10
DrawdownPercent == 15

Modes    == {"active", "entry_paused", "killed"}
Open     == {"pending", "filled", "close_requested"}
Released == {"cancelled", "closed"}
Statuses == {"absent"} \cup Open \cup Released

NoMark   == 0    \* a confirmation that carries no mark_equity
NoExpiry == -1   \* a proposal without entry_expires_at

NoReversal == [closing |-> "nothing"]

Reversal == [closing : Signals, signal : Signals, entry_expires_at : Int]

Reservation == [status : Statuses, reserved_risk : Nat, expires_at : Int]

Absent == [status |-> "absent", reserved_risk |-> 0, expires_at |-> 0]

Act(type, s) == [type |-> type, reservation |-> s]

Actions == [type : {"create", "cancel", "close"}, reservation : Signals]

-------------------------------------------------------------------------------
(* The equity side: period boundaries, losses and the circuit breakers. *)

DayOf(t) == t \div DayLength

WeekOf(t) == t \div (7 * DayLength)

LossReaches(reference, current, percent) ==
  100 * (reference - current) >= percent * reference

KillReached(a) == LossReaches(a.high_watermark, a.equity, DrawdownPercent)

Halted(a) == a.daily_halted \/ a.weekly_halted

\* Fresh boundaries, as set by initialisation, a re-arm and a new demo epoch.
Rebased(now, equity, epoch) ==
  [as_of |-> now, equity |-> equity, high_watermark |-> equity,
   daily_anchor |-> DayOf(now), daily_start |-> equity, daily_halted |-> FALSE,
   weekly_anchor |-> WeekOf(now), weekly_start |-> equity, weekly_halted |-> FALSE,
   epoch |-> epoch]

\* Mutant: the high-water mark follows the equity down.
PeakLast(high, equity) == equity

Peak(high, equity) == IF equity > high THEN equity ELSE high

\* A mark: a new local day or week restarts its boundary and lifts its halt.
Marked(a, now, equity) ==
  LET sameDay  == DayOf(now) = a.daily_anchor
      sameWeek == WeekOf(now) = a.weekly_anchor
  IN  [a EXCEPT !.as_of          = now,
                !.equity         = equity,
                !.high_watermark = Peak(@, equity),
                !.daily_anchor   = DayOf(now),
                !.daily_start    = IF sameDay THEN @ ELSE equity,
                !.daily_halted   = @ /\ sameDay,
                !.weekly_anchor  = WeekOf(now),
                !.weekly_start   = IF sameWeek THEN @ ELSE equity,
                !.weekly_halted  = @ /\ sameWeek]

\* Mutant: every mark recomputes the halts instead of latching them.
LatchedAnew(a) ==
  [a EXCEPT
    !.daily_halted  = KillReached(a) \/ LossReaches(a.daily_start, a.equity, DailyPercent),
    !.weekly_halted = KillReached(a) \/ LossReaches(a.weekly_start, a.equity, WeeklyPercent)]

\* The halts a mark latches; a tripped kill switch latches both.
Latched(a) ==
  [a EXCEPT
    !.daily_halted  = @ \/ KillReached(a)
                        \/ LossReaches(a.daily_start, a.equity, DailyPercent),
    !.weekly_halted = @ \/ KillReached(a)
                        \/ LossReaches(a.weekly_start, a.equity, WeeklyPercent)]

-------------------------------------------------------------------------------
(* The reservation side. *)

Status(b, s) == b.reservations[s].status

WithStatus(b, s, status) == [b EXCEPT !.reservations[s].status = status]

Active(b) == {s \in Signals : Status(b, s) \in Open}

\* Mutant: an unfilled entry does not occupy its symbol.
ActiveOnHeld(b, symbol) ==
  {s \in Active(b) : SymbolOf[s] = symbol /\ Status(b, s) # "pending"}

ActiveOn(b, symbol) == {s \in Active(b) : SymbolOf[s] = symbol}

InStatus(b, status) == {s \in Signals : Status(b, s) = status}

TotalReservedRisk(b) ==
  SumFunctionOnSet([s \in Signals |-> b.reservations[s].reserved_risk], Active(b))

NoReversals == [y \in Symbols |-> NoReversal]

WithoutReversal(b, symbol) == [b EXCEPT !.reversal_intents[symbol] = NoReversal]

CancelAll(b) == {Act("cancel", s) : s \in InStatus(b, "pending")}

CloseAll(b) == {Act("close", s) : s \in InStatus(b, "filled")}

\* Mutant: off by one, an entry is overdue only after its expiry instant.
ExpiryCancelsLate(b, now) ==
  {Act("cancel", s) :
     s \in {r \in InStatus(b, "pending") : b.reservations[r].expires_at < now}}

\* The advance of the clock asks for the cancellation of every overdue entry
\* and leaves its reservation in place: a fill may still race with the cancel.
ExpiryCancels(b, now) ==
  {Act("cancel", s) :
     s \in {r \in InStatus(b, "pending") : b.reservations[r].expires_at <= now}}

\* Mutant: the kill keeps the staged reversals.
KilledKeepsReversals(b) ==
  [b EXCEPT !.mode = "killed",
            !.reservations = [s \in Signals |->
               IF b.reservations[s].status = "filled"
               THEN [b.reservations[s] EXCEPT !.status = "close_requested"]
               ELSE b.reservations[s]]]

\* Mutant: the kill gives unfilled entries a status that no confirmation knows.
KilledMarksEntries(b) ==
  [b EXCEPT !.mode = "killed",
            !.reversal_intents = NoReversals,
            !.reservations = [s \in Signals |->
               CASE b.reservations[s].status = "filled"
                      -> [b.reservations[s] EXCEPT !.status = "close_requested"]
                 [] b.reservations[s].status = "pending"
                      -> [b.reservations[s] EXCEPT !.status = "cancel_requested"]
                 [] OTHER -> b.reservations[s]]]

\* Mutant: the kill also marks reservations that were released long ago.
KilledClosesReleased(b) ==
  [b EXCEPT !.mode = "killed",
            !.reversal_intents = NoReversals,
            !.reservations = [s \in Signals |->
               IF b.reservations[s].status \in {"filled"} \cup Released
               THEN [b.reservations[s] EXCEPT !.status = "close_requested"]
               ELSE b.reservations[s]]]

\* 15 % drawdown: staged reversals are dropped and every filled position is
\* marked for closing.
Killed(b) ==
  [b EXCEPT !.mode = "killed",
            !.reversal_intents = NoReversals,
            !.reservations = [s \in Signals |->
               IF b.reservations[s].status = "filled"
               THEN [b.reservations[s] EXCEPT !.status = "close_requested"]
               ELSE b.reservations[s]]]

\* 6 % daily or 10 % weekly loss: entries stop, positions are left alone.
Paused(b) ==
  [b EXCEPT !.mode = "entry_paused", !.reversal_intents = NoReversals]

\* Mutant: equity that recovers above the drawdown boundary rearms the switch.
GuardedRecovers(b, a) ==
  CASE KillReached(a)                  -> Killed(b)
    [] ~KillReached(a) /\ Halted(a)    -> Paused(b)
    [] ~KillReached(a) /\ ~Halted(a)   -> [b EXCEPT !.mode = "active"]

\* Mutant: a period halt is looked at before the kill switch.
GuardedPausesFirst(b, a) ==
  CASE b.mode = "killed"                                  -> b
    [] b.mode # "killed" /\ Halted(a)                     -> Paused(b)
    [] b.mode # "killed" /\ ~Halted(a) /\ KillReached(a)  -> Killed(b)
    [] b.mode # "killed" /\ ~Halted(a) /\ ~KillReached(a) -> [b EXCEPT !.mode = "active"]

\* What the circuit breakers make of the book once the account is marked.
Guarded(b, a) ==
  CASE b.mode = "killed"                                    -> b
    [] b.mode # "killed" /\ KillReached(a)                  -> Killed(b)
    [] b.mode # "killed" /\ ~KillReached(a) /\ Halted(a)    -> Paused(b)
    [] b.mode # "killed" /\ ~KillReached(a) /\ ~Halted(a)   -> [b EXCEPT !.mode = "active"]

\* Mutant: a kill asks for the closes and leaves the cancellations to a pause.
BreakerActionsOfOne(b, a) ==
  CASE b.mode # "killed" /\ KillReached(a)                -> CloseAll(b)
    [] b.mode # "killed" /\ ~KillReached(a) /\ Halted(a)  -> CancelAll(b)
    [] OTHER                                              -> {}

BreakerActions(b, a) ==
  (IF b.mode # "killed" /\ (KillReached(a) \/ Halted(a)) THEN CancelAll(b) ELSE {})
    \cup
  (IF b.mode # "killed" /\ KillReached(a) THEN CloseAll(b) ELSE {})

\* The state a command's own handler finds: clock advanced, equity marked when
\* the command carries a mark, circuit breakers applied, and their actions.
Prelude(now, mark) ==
  IF mark = NoMark
  THEN [account |-> [account EXCEPT !.as_of = now],
        book    |-> book,
        actions |-> ExpiryCancels(book, now)]
  ELSE LET m == Marked(account, now, mark)
           a == IF book.mode = "killed" THEN m ELSE Latched(m)
       IN  [account |-> a,
            book    |-> Guarded(book, a),
            actions |-> ExpiryCancels(book, now) \cup BreakerActions(book, a)]

-------------------------------------------------------------------------------
(* Admission of a proposal. *)

\* Notional is sized to lose 1.5 % of equity at the stop and capped at half of
\* equity, so the projected loss is the smaller of 1.5 % of equity and half of
\* equity times the combined rate.
ProjectedRisk(equity, s) ==
  equity * (IF 2 * TradePercentX10 < CombinedRate[s] THEN 2 * TradePercentX10
                                                     ELSE CombinedRate[s])

EntryExpiry(a, expiry) == IF expiry = NoExpiry THEN a.as_of + PendingTTL ELSE expiry

\* Mutant: only the total reserved risk is compared, not the projected losses.
WithinReservedLimit(a, b, s) ==
  100 * (TotalReservedRisk(b) + ProjectedRisk(a.equity, s))
    <= ReservedPercent * RiskScale * a.equity

WithinLimits(a, b, s) ==
  LET risk  == ProjectedRisk(a.equity, s)
      after == RiskScale * a.equity - risk
  IN  /\ 100 * (TotalReservedRisk(b) + risk) <= ReservedPercent * RiskScale * a.equity
      /\ ~LossReaches(RiskScale * a.daily_start, after, DailyPercent)
      /\ ~LossReaches(RiskScale * a.weekly_start, after, WeeklyPercent)
      /\ ~LossReaches(RiskScale * a.high_watermark, after, DrawdownPercent)

\* Mutant: the number of active reservations is not limited.
AdmissibleUncounted(a, b, s, expiry) ==
  /\ b.mode = "active"
  /\ WithinLimits(a, b, s)
  /\ a.as_of < EntryExpiry(a, expiry)
  /\ EntryExpiry(a, expiry) <= a.as_of + PendingTTL

Admissible(a, b, s, expiry) ==
  /\ b.mode = "active"
  /\ Cardinality(Active(b)) < MaxReservations
  /\ WithinLimits(a, b, s)
  /\ a.as_of < EntryExpiry(a, expiry)
  /\ EntryExpiry(a, expiry) <= a.as_of + PendingTTL

Admitted(a, b, s, expiry) ==
  [b EXCEPT !.reservations[s] =
     [status        |-> "pending",
      reserved_risk |-> ProjectedRisk(a.equity, s),
      expires_at    |-> EntryExpiry(a, expiry)]]

\* A released reservation lets the reversal that waited for it in; a reversal
\* that no longer passes admission is dropped, the release stands.
WaitsFor(b, s) ==
  /\ b.reversal_intents[SymbolOf[s]] # NoReversal
  /\ b.reversal_intents[SymbolOf[s]].closing = s

ReversalAdmitted(a, b, s) ==
  LET reversal == b.reversal_intents[SymbolOf[s]]
  IN  /\ WaitsFor(b, s)
      /\ Admissible(a, WithoutReversal(b, SymbolOf[s]),
                    reversal.signal, reversal.entry_expires_at)

AfterRelease(a, b, s) ==
  LET reversal == b.reversal_intents[SymbolOf[s]]
      rest     == WithoutReversal(b, SymbolOf[s])
  IN  IF ReversalAdmitted(a, b, s)
      THEN Admitted(a, rest, reversal.signal, reversal.entry_expires_at)
      ELSE IF WaitsFor(b, s) THEN rest ELSE b

ReleaseActions(a, b, s) ==
  IF ReversalAdmitted(a, b, s)
  THEN {Act("create", b.reversal_intents[SymbolOf[s]].signal)}
  ELSE {}

-------------------------------------------------------------------------------
(* One action per command. *)

\* The decision returned to the caller.
Decide(status, actions) == decision' = [status |-> status, actions |-> actions]

\* A request is on record until its reservation has left the state it is about.
Concerns(x, b) ==
  \/ x.type = "cancel" /\ Status(b, x.reservation) = "pending"
  \/ x.type = "close"  /\ Status(b, x.reservation) \in {"filled", "close_requested"}

Record == requested' = {x \in requested \cup decision'.actions : Concerns(x, book')}

ApplyEquitySnapshot(now, equity) ==
  LET pre == Prelude(now, equity)
  IN  /\ account.as_of <= now
      /\ account' = pre.account
      /\ book' = pre.book
      /\ Decide("accepted", pre.actions)

\* Why a proposal is turned away before its symbol's exposure is looked at.
Refused(b, p) ==
  \/ b.mode # "active"
  \/ b.reversal_intents[SymbolOf[p]] # NoReversal
  \/ Status(b, p) # "absent"
  \/ \E s \in ActiveOn(b, SymbolOf[p]) :
        DirectionOf[s] = DirectionOf[p] \/ Status(b, s) = "close_requested"

ProposeRejected(pre, p) ==
  /\ \/ Refused(pre.book, p)
     \/ /\ ActiveOn(pre.book, SymbolOf[p]) = {}
        /\ ~Admissible(pre.account, pre.book, p, ExpiryOf[p])
  /\ book' = pre.book
  /\ Decide("rejected", pre.actions)

\* The proposal p waits until the reservation s is released.
Staged(b, s, p, expiry) ==
  [b EXCEPT !.reversal_intents[SymbolOf[p]] =
     [closing |-> s, signal |-> p, entry_expires_at |-> expiry]]

\* An opposite signal against a filled position: close first, then reverse.
ProposeStagedOnClose(pre, p) ==
  /\ ~Refused(pre.book, p)
  /\ \E s \in ActiveOn(pre.book, SymbolOf[p]) :
       /\ Status(pre.book, s) = "filled"
       /\ book' = Staged(WithStatus(pre.book, s, "close_requested"), s, p, ExpiryOf[p])
       /\ Decide("staged", pre.actions \cup {Act("close", s)})

\* An opposite signal against an unfilled entry: cancel first, then reverse;
\* the wait counts against the life of the new entry.
ProposeStagedOnCancel(pre, p) ==
  /\ ~Refused(pre.book, p)
  /\ \A s \in ActiveOn(pre.book, SymbolOf[p]) : Status(pre.book, s) = "pending"
  /\ \E s \in ActiveOn(pre.book, SymbolOf[p]) :
       /\ book' = Staged(pre.book, s, p, EntryExpiry(pre.account, ExpiryOf[p]))
       /\ Decide("staged", pre.actions \cup {Act("cancel", s)})

ProposeAdmitted(pre, p) ==
  /\ ~Refused(pre.book, p)
  /\ ActiveOn(pre.book, SymbolOf[p]) = {}
  /\ Admissible(pre.account, pre.book, p, ExpiryOf[p])
  /\ book' = Admitted(pre.account, pre.book, p, ExpiryOf[p])
  /\ Decide("accepted", pre.actions \cup {Act("create", p)})

ProposeRiskReservation(now, equity, p) ==
  LET pre == Prelude(now, equity)
  IN  /\ account.as_of <= now
      /\ account' = pre.account
      /\ \/ ProposeRejected(pre, p)
         \/ ProposeStagedOnClose(pre, p)
         \/ ProposeStagedOnCancel(pre, p)
         \/ ProposeAdmitted(pre, p)

\* Mutant: a fill confirmed after the kill switch tripped is kept.
MustCloseDisplaced(b, s) == WaitsFor(b, s)

\* A fill that the engine no longer wants is turned into a close request.
MustClose(b, s) == b.mode = "killed" \/ WaitsFor(b, s)

ConfirmPendingFill(now, mark, s) ==
  LET pre  == Prelude(now, mark)
      must == MustClose(pre.book, s)
  IN  /\ account.as_of <= now
      /\ account' = pre.account
      /\ \/ /\ Status(pre.book, s) \in {"absent"} \cup Released
            /\ book' = pre.book
            /\ Decide("rejected", pre.actions)
         \/ /\ Status(pre.book, s) \in {"filled", "close_requested"}
            /\ book' = pre.book
            /\ Decide("duplicate", pre.actions)
         \/ /\ Status(pre.book, s) = "pending"
            /\ book' = WithStatus(pre.book, s, IF must THEN "close_requested" ELSE "filled")
            /\ Decide("accepted",
                      pre.actions \cup (IF must THEN {Act("close", s)} ELSE {}))

CancelPendingReservation(now, mark, s) ==
  LET pre  == Prelude(now, mark)
      gone == WithStatus(pre.book, s, "cancelled")
  IN  /\ account.as_of <= now
      /\ account' = pre.account
      /\ \/ /\ Status(pre.book, s) \in {"absent", "filled", "close_requested", "closed"}
            /\ book' = pre.book
            /\ Decide("rejected", pre.actions)
         \/ /\ Status(pre.book, s) = "cancelled"
            /\ book' = pre.book
            /\ Decide("duplicate", pre.actions)
         \/ /\ Status(pre.book, s) = "pending"
            /\ book' = AfterRelease(pre.account, gone, s)
            /\ Decide("accepted",
                      pre.actions \cup ReleaseActions(pre.account, gone, s))

ConfirmPositionClosed(now, equity, s) ==
  LET pre  == Prelude(now, equity)
      gone == WithStatus(pre.book, s, "closed")
  IN  /\ account.as_of <= now
      /\ account' = pre.account
      /\ \/ /\ Status(pre.book, s) \in {"absent", "pending", "cancelled"}
            /\ book' = pre.book
            /\ Decide("rejected", pre.actions)
         \/ /\ Status(pre.book, s) = "closed"
            /\ book' = pre.book
            /\ Decide("duplicate", pre.actions)
         \/ /\ Status(pre.book, s) \in {"filled", "close_requested"}
            /\ book' = AfterRelease(pre.account, gone, s)
            /\ Decide("accepted",
                      pre.actions \cup ReleaseActions(pre.account, gone, s))

\* The operator's explicit close; it also gives up a staged reversal.
RequestPositionClose(now, s) ==
  LET pre == Prelude(now, NoMark)
  IN  /\ account.as_of <= now
      /\ account' = pre.account
      /\ \/ /\ Status(pre.book, s) \notin {"filled", "close_requested"}
            /\ book' = pre.book
            /\ Decide("rejected", pre.actions)
         \/ /\ Status(pre.book, s) \in {"filled", "close_requested"}
            /\ book' = WithoutReversal(WithStatus(pre.book, s, "close_requested"),
                                       SymbolOf[s])
            /\ Decide("accepted", pre.actions \cup {Act("close", s)})

ManualRearm(now, equity) ==
  LET pre == Prelude(now, NoMark)
  IN  /\ account.as_of <= now
      /\ \/ /\ book.mode # "killed" \/ Active(book) # {}
            /\ account' = pre.account
            /\ book' = pre.book
            /\ Decide("rejected", pre.actions)
         \/ /\ book.mode = "killed"
            /\ Active(book) = {}
            /\ account' = Rebased(now, equity, account.epoch)
            /\ book' = [book EXCEPT !.mode = "active"]
            /\ Decide("accepted", pre.actions)

\* The operator's new demo boundary.  An epoch is named by the id of the command
\* that started it, always a fresh one: epochs are numbered in that order.
StartDemoRiskEpoch(now, equity, previous) ==
  /\ account.as_of <= now
  /\ book.mode # "killed"
  /\ Active(book) = {}
  /\ book.reversal_intents = NoReversals
  /\ previous = account.epoch
  /\ previous < MaxEpoch
  /\ ~LossReaches(account.high_watermark, equity, DrawdownPercent)
  /\ account' = Rebased(now, equity, previous + 1)
  /\ book' = [book EXCEPT !.mode = "active"]
  /\ Decide("accepted", {})

-------------------------------------------------------------------------------
Init ==
  /\ \E now \in Times, equity \in Equities :
       account = Rebased(now, equity, 0)
  /\ book = [mode             |-> "active",
             reservations     |-> [s \in Signals |-> Absent],
             reversal_intents |-> NoReversals]
  /\ decision = [status |-> "accepted", actions |-> {}]
  /\ requested = {}

Confirm(now, s) ==
  \/ \E mark \in Equities \cup {NoMark} :
        ConfirmPendingFill(now, mark, s) \/ CancelPendingReservation(now, mark, s)
  \/ \E equity \in Equities : ConfirmPositionClosed(now, equity, s)
  \/ RequestPositionClose(now, s)

Command ==
  \E now \in Times :
    \/ \E equity \in Equities : ApplyEquitySnapshot(now, equity)
    \/ \E equity \in Equities, p \in Signals : ProposeRiskReservation(now, equity, p)
    \/ \E s \in Signals : Confirm(now, s)
    \/ \E equity \in Equities : ManualRearm(now, equity)
    \/ \E equity \in Equities, previous \in 0..MaxEpoch :
          StartDemoRiskEpoch(now, equity, previous)

Next == Command /\ Record

Spec == Init /\ [][Next]_vars

-------------------------------------------------------------------------------
(* Properties. *)

Account ==
  [as_of : Times, equity : Equities, high_watermark : Equities,
   daily_anchor : Int, daily_start : Equities, daily_halted : BOOLEAN,
   weekly_anchor : Int, weekly_start : Equities, weekly_halted : BOOLEAN,
   epoch : 0..MaxEpoch]

Book ==
  [mode : Modes,
   reservations : [Signals -> Reservation],
   reversal_intents : [Symbols -> Reversal \cup {NoReversal}]]

Decisions ==
  [status : {"accepted", "rejected", "staged", "duplicate"}, actions : SUBSET Actions]

\* The state and the decision are well formed.
TypeOK ==
  /\ account \in Account
  /\ book \in Book
  /\ decision \in Decisions
  /\ requested \subseteq Actions

\* Both directions of a symbol are never held, nor reserved, at the same time,
\* whatever order proposals, fills, cancels and closes arrive in: _propose looks
\* only at one reservation per symbol and relies on this.
OneExposurePerSymbol ==
  \A s, t \in Active(book) : SymbolOf[s] = SymbolOf[t] => s = t

\* At most three reservations are active, also right after a staged reversal
\* took the place of the reservation it waited for (_complete_reversal).
ReservationCap == Cardinality(Active(book)) <= MaxReservations

\* A staged reversal waits for a live opposite reservation of its own symbol that
\* is on its way out, its signal owns no reservation that admission would
\* overwrite, and it exists only while entries are allowed.
ReversalIsLive ==
  \A y \in Symbols :
    LET reversal == book.reversal_intents[y]
    IN  reversal # NoReversal =>
          /\ book.mode = "active"
          /\ SymbolOf[reversal.closing] = y /\ SymbolOf[reversal.signal] = y
          /\ DirectionOf[reversal.closing] # DirectionOf[reversal.signal]
          /\ Status(book, reversal.closing) \in {"pending", "close_requested"}
          /\ Status(book, reversal.signal) = "absent"

\* Once the kill switch has tripped no position is held that is not being closed,
\* including one whose fill is confirmed after the trip (_confirm_fill).
KilledHoldsNothing == book.mode = "killed" => InStatus(book, "filled") = {}

\* The mode follows from the marks: entries are open only while no loss boundary is
\* reached at the last mark, and a pause always has a latched halt behind it.
ModeFollowsLosses ==
  /\ book.mode = "active" =>
       /\ ~Halted(account) /\ ~KillReached(account)
       /\ ~LossReaches(account.daily_start, account.equity, DailyPercent)
       /\ ~LossReaches(account.weekly_start, account.equity, WeeklyPercent)
  /\ book.mode = "entry_paused" => Halted(account) /\ ~KillReached(account)
  /\ account.equity <= account.high_watermark

\* Nothing the engine wants out is forgotten: every reservation in close_requested
\* has had its close emitted, and every pending entry that is overdue, caught by a
\* pause or a kill, or displaced by a reversal has had its cancel emitted.
WantedOut(s) ==
  \/ book.mode # "active"
  \/ book.reservations[s].expires_at <= account.as_of
  \/ WaitsFor(book, s)

NothingForgotten ==
  /\ \A s \in InStatus(book, "close_requested") : Act("close", s) \in requested
  /\ \A s \in InStatus(book, "pending") : WantedOut(s) => Act("cancel", s) \in requested

\* Reserved risk stays under 5 % of the equity peak, through any number of marks,
\* re-arms and epochs: admissions are paid from the equity of their own moment.
ReservedRiskUnderPeak ==
  100 * TotalReservedRisk(book) <= ReservedPercent * RiskScale * account.high_watermark

\* The kill switch latches: no snapshot, confirmation or new epoch ever leaves it,
\* only a re-arm, and only when nothing is pending or held.
KillLatches ==
  [][book.mode = "killed" /\ book'.mode # "killed" =>
       /\ book'.mode = "active"
       /\ Active(book) = {} /\ Active(book') = {}
       /\ account'.high_watermark = account'.equity]_vars

\* A reservation only moves forward: a released one is never revived, a held one
\* never becomes an entry or a cancellation again, a close is never taken back.
Successors(status) ==
  CASE status = "absent"          -> {"absent", "pending"}
    [] status = "pending"         -> {"pending", "filled", "close_requested", "cancelled"}
    [] status = "filled"          -> {"filled", "close_requested", "closed"}
    [] status = "close_requested" -> {"close_requested", "closed"}
    [] status \in Released        -> {status}

ReservationsMoveForward ==
  [][\A s \in Signals : Status(book', s) \in Successors(Status(book, s))]_vars

\* A reservation created in a step, by a signal or by a completed reversal, leaves
\* the account short of every boundary should it lose, and comes with a create.
AdmissionIsAffordable ==
  [][\A s \in Signals :
       Status(book, s) = "absent" /\ Status(book', s) = "pending" =>
         LET after == RiskScale * account'.equity - book'.reservations[s].reserved_risk
         IN  /\ book'.mode = "active"
             /\ Act("create", s) \in decision'.actions
             /\ ~LossReaches(RiskScale * account'.daily_start, after, DailyPercent)
             /\ ~LossReaches(RiskScale * account'.weekly_start, after, WeeklyPercent)
             /\ ~LossReaches(RiskScale * account'.high_watermark, after, DrawdownPercent)
             /\ account'.as_of < book'.reservations[s].expires_at]_vars

\* A period halt outlives recoveries of equity: it ends with its local day or week,
\* by a re-arm or by a new epoch, and by nothing else.
HaltsLatch ==
  [][LET reset == account'.epoch # account.epoch
                    \/ (book.mode = "killed" /\ book'.mode = "active")
     IN  /\ account.daily_halted /\ ~account'.daily_halted =>
              reset \/ account'.daily_anchor # account.daily_anchor
         /\ account.weekly_halted /\ ~account'.weekly_halted =>
              reset \/ account'.weekly_anchor # account.weekly_anchor]_vars
===============================================================================
