----------------------------- MODULE DemoExecution -----------------------------
(***************************************************************************)
(* The Demo execution lifecycle: the lifecycle monitor (demo_monitor.py)   *)
(* and the signal worker (demo_worker.py, demo_bridge.py and               *)
(* DemoExecutionService.submit) as two processes, with the exchange, the   *)
(* clock, the strategy equity and crashes as their environment.  Processes *)
(* are cut into steps at their exchange requests and their database        *)
(* transactions.  OwnedClose.tla adds the operator's command, whose        *)
(* process shares the steps below that take a process p.                   *)
(***************************************************************************)
EXTENDS DemoReconcile

\* A request to the exchange or a row changed, nothing else.
Ledgers == <<riskVars, log, cursor, runs, attributed>>

Clocks == <<course, now, funds>>

-------------------------------------------------------------------------------
(* The monitor. *)

\* run_cycle: read the intents to inspect, then the account.
MonitorBegins ==
  /\ job["monitor"] = Idle
  /\ Monitorable # <<>>
  /\ PositionsOwned
  /\ Continue("monitor", Tasks("reconcile", Monitorable) \o <<Task("sweep", NoIntent)>>)
  /\ UNCHANGED <<Ledgers, intents, Clocks, exchangeVars>>

\* Behind the inspected intents come the overdue entries: each is cancelled and
\* reconciled, then each is synchronized.
MonitorSweeps ==
  /\ Doing("monitor", {"sweep"})
  /\ Instead("monitor", Tasks("expire", Expirable) \o Tasks("settle", Expirable))
  /\ UNCHANGED <<Ledgers, intents, Clocks, exchangeVars>>

\* cancel_expired: a refused or failed cancellation ends the cycle.
MonitorExpires ==
  LET p == "monitor"
      s == Owned(p)
  IN  /\ Doing(p, {"expire"})
      /\ \/ /\ CancelAccepted(s)
            /\ Instead(p, <<Task("expired", Item(p))>>)
         \/ /\ CancelRefused(s) \/ CancelLost
            /\ Raise(p)
      /\ UNCHANGED <<Ledgers, intents, Clocks, orders, exited, stops, reported>>

MonitorSettles ==
  LET p == "monitor"
  IN  /\ Doing(p, {"settle"})
      /\ Become(p, [job[p] EXCEPT !.pc = "sync", !.view = intents[Item(p)].state])
      /\ UNCHANGED <<Ledgers, intents, Clocks, exchangeVars>>

\* _sync_risk.  What the state of an intent means for its reservation:
IsEntryKind(i) == intents[i].kind \in {"entry", "cancel_entry"}

\* Mutant: any entry that needs reconciliation is taken for executed.
FilledUnproved(i, view) ==
  IsEntryKind(i) /\ view \in {"filled", "protection_verified", "reconciliation_required"}

Filled(i, view) ==
  /\ IsEntryKind(i)
  /\ \/ view \in {"filled", "protection_verified"}
     \/ view = "reconciliation_required" /\ intents[i].filled # 0
     \* A position that closed before its fill was handed over.
     \/ /\ view = "position_closed_pending"
        /\ intents[i].filled # 0
        /\ Status(book, intents[i].reservation) = "pending"

Ended(i, view) == IsEntryKind(i) /\ view \in {"cancelled", "rejected"}

\* A cancellation whose reservation has been released has nothing to hand over.
Settled(i, view) ==
  /\ Ended(i, view)
  /\ intents[i].kind = "cancel_entry"
  /\ Status(book, intents[i].reservation) \in Released

\* Mutant: only a close order ends a position, a TP or SL does not.
ExitedByOrder(i, view) == intents[i].kind = "close_position" /\ view = "close_confirmed"

Exited(i, view) ==
  /\ ~Filled(i, view)
  /\ \/ intents[i].kind = "entry" /\ view = "position_closed_pending"
     \/ intents[i].kind = "close_position" /\ view = "close_confirmed"

ItemDone(p) == IF job[p].failed THEN Raise(p) ELSE NextTask(p)

PlanNext(p, c) == Become(p, [job[p] EXCEPT !.pc = "plan", !.command = c])

\* A command that the ledger did not accept ends the cycle; its decision stays.
Submitted(p, c, Command_) ==
  /\ Execute(c, Command_)
  /\ IF log'[c].status \in {"accepted", "duplicate"} THEN PlanNext(p, c) ELSE Raise(p)

Synchronize(p) ==
  LET i == Item(p)
      s == Owned(p)
      v == job[p].view
  IN  /\ At(p, "sync")
      /\ \/ /\ Filled(i, v)
            /\ Status(book, s) = "pending"
            /\ Submitted(p, FillOf(i), ConfirmPendingFill(now, funds, s))
            /\ UNCHANGED intents
         \/ /\ Filled(i, v)
            /\ Status(book, s) \in {"filled", "close_requested"}
            \* The fill is handed over once; its plan is completed after a crash.
            /\ IF FillOf(i) \in DOMAIN log THEN PlanNext(p, FillOf(i)) ELSE ItemDone(p)
            /\ UNCHANGED <<riskVars, log, intents>>
         \/ /\ Filled(i, v)
            /\ Status(book, s) \notin Open
            /\ Raise(p)
            /\ UNCHANGED <<riskVars, log, intents>>
         \/ /\ Ended(i, v) /\ ~Settled(i, v)
            /\ Submitted(p, CancelOf(i), CancelPendingReservation(now, funds, s))
            /\ UNCHANGED intents
         \/ /\ Settled(i, v)
            /\ intents' = [intents EXCEPT ![i].synced = TRUE]
            /\ ItemDone(p)
            /\ UNCHANGED <<riskVars, log>>
         \/ /\ Exited(i, v)
            /\ Submitted(p, IF intents[i].kind = "entry" THEN PositionClosedOf(i)
                                                         ELSE CloseOf(i),
                         ConfirmPositionClosed(now, funds, s))
            /\ UNCHANGED intents
         \/ /\ ~Filled(i, v) /\ ~Ended(i, v) /\ ~Exited(i, v)
            /\ ItemDone(p)
            /\ UNCHANGED <<riskVars, log, intents>>
      /\ UNCHANGED <<attributed, cursor, runs, Clocks, exchangeVars>>

\* _materialize_follow_up_actions: one intent at a time, in no order between the
\* symbols (a set in the code); the cancellation of an entry that has ended is not planned.
ToPlan(c) ==
  {a \in Missing(c, Symbols) : ~(a.type = "cancel" /\ EntryEnded(a.reservation))}

PlansFollowUp(p) ==
  LET c == job[p].command
  IN  /\ At(p, "plan")
      /\ \E a \in Foremost(ToPlan(c)) : intents' = Append(intents, IntentFor(c, a))
      /\ UNCHANGED <<job, Ledgers, Clocks, exchangeVars>>

\* Everything is planned: the intent itself can be finished.
FollowedUp(p) ==
  LET i == Item(p)
      v == job[p].view
      c == job[p].command
  IN  /\ At(p, "plan")
      /\ ToPlan(c) = {}
      /\ decision' = NothingDecided
      /\ \/ /\ v = "position_closed_pending" /\ c = FillOf(i)
            /\ Become(p, [job[p] EXCEPT !.pc = "sync", !.command = NoCommand])
            /\ UNCHANGED intents
         \/ /\ v = "position_closed_pending" /\ c # FillOf(i)
            /\ intents' = InState(intents, i, "position_closed")
            /\ ItemDone(p)
         \/ /\ v \in {"cancelled", "rejected", "close_confirmed"}
            /\ intents' = [intents EXCEPT ![i].synced = TRUE]
            /\ ItemDone(p)
         \/ /\ v \in {"filled", "protection_verified", "reconciliation_required"}
            /\ ItemDone(p)
            /\ UNCHANGED intents
      /\ UNCHANGED <<account, book, requested, log, cursor, runs, attributed, Clocks,
                     exchangeVars>>

MonitorStep ==
  \/ MonitorBegins \/ MonitorSweeps \/ MonitorExpires \/ MonitorSettles
  \/ Synchronize("monitor") \/ PlansFollowUp("monitor") \/ FollowedUp("monitor")
  \/ ReconcileStep("monitor") \/ Attribute("monitor")

-------------------------------------------------------------------------------
(* The worker. *)

\* run_cycle: the plans left behind first, then the signals past the cursor.
WorkerBegins ==
  /\ job["worker"] = Idle
  /\ Planned # <<>> \/ cursor < Len(Arrivals)
  /\ Continue("worker", Tasks("retry", Planned) \o <<Task("signals", NoIntent)>>)
  /\ UNCHANGED <<Ledgers, intents, Clocks, exchangeVars>>

\* _retry_planned_intents reads the account anew for every plan.
WorkerRetries ==
  LET p == "worker"
  IN  /\ Doing(p, {"retry"})
      /\ \/ AccountMatches /\ Instead(p, <<Task("submit", Item(p))>>)
         \/ ~AccountMatches /\ Raise(p)
      /\ UNCHANGED <<Ledgers, intents, Clocks, exchangeVars>>

Coming == Arrivals[cursor + 1]

PlansOf(s) == Selected({i \in Intents : intents[i].command = ProposeOf(s)})

\* The plans of the coming signal are submitted, then the cursor moves.
WorkerPlaces ==
  LET p == "worker"
  IN  /\ \/ Doing(p, {"place"})
         \/ /\ Doing(p, {"signals"})
            /\ cursor < Len(Arrivals)
            /\ Coming \in runs
            /\ now <= ExpiryOf[Coming]
      /\ \/ /\ AccountMatches
            /\ Continue(p, Tasks("submit", PlansOf(Coming))
                             \o <<Task("advance", NoIntent), Task("signals", NoIntent)>>)
         \/ ~AccountMatches /\ Raise(p)
      /\ UNCHANGED <<Ledgers, intents, Clocks, exchangeVars>>

\* A signal whose entry window is over is passed without a look at its run.  In the
\* last instant of the window the account is still checked.
WorkerPassesStale ==
  LET p == "worker"
  IN  /\ Doing(p, {"signals"})
      /\ cursor < Len(Arrivals)
      /\ \/ now > ExpiryOf[Coming]
         \/ now = ExpiryOf[Coming] /\ Coming \notin runs /\ AccountMatches
      /\ cursor' = cursor + 1
      /\ UNCHANGED <<job, riskVars, log, runs, attributed, intents, Clocks, exchangeVars>>

\* DemoSignalBridgeService.process up to the risk decision.
WorkerProposes ==
  LET p == "worker"
      s == Coming
  IN  /\ Doing(p, {"signals"})
      /\ cursor < Len(Arrivals)
      /\ s \notin runs
      /\ \/ /\ now < ExpiryOf[s]
            /\ AccountMatches
            /\ Execute(ProposeOf(s), ProposeRiskReservation(now, funds, s))
            /\ PlanNext(p, ProposeOf(s))
         \/ /\ now <= ExpiryOf[s]
            /\ ~AccountMatches
            /\ Raise(p)
            /\ UNCHANGED <<riskVars, log>>
      /\ UNCHANGED <<cursor, runs, attributed, intents, Clocks, exchangeVars>>

\* The bridge plans what the decision asks for on the symbol of the signal.
WorkerPlans ==
  LET p == "worker"
      c == job[p].command
  IN  /\ At(p, "plan")
      /\ \E a \in Foremost(Missing(c, {SymbolOf[Coming]})) :
            intents' = Append(intents, IntentFor(c, a))
      /\ UNCHANGED <<job, Ledgers, Clocks, exchangeVars>>

\* record_run, then the submission of what was planned.
WorkerRecordsRun ==
  LET p == "worker"
  IN  /\ At(p, "plan")
      /\ Missing(job[p].command, {SymbolOf[Coming]}) = {}
      /\ runs' = runs \cup {Coming}
      /\ decision' = NothingDecided
      /\ Continue(p, <<Task(IF PlansOf(Coming) = <<>> THEN "advance" ELSE "place", NoIntent),
                       Task("signals", NoIntent)>>)
      /\ UNCHANGED <<account, book, requested, log, cursor, attributed, intents, Clocks,
                     exchangeVars>>

WorkerAdvances ==
  LET p == "worker"
  IN  /\ Doing(p, {"advance"})
      /\ cursor' = cursor + 1
      /\ NextTask(p)
      /\ UNCHANGED <<riskVars, log, runs, attributed, intents, Clocks, exchangeVars>>

WorkerEnds ==
  LET p == "worker"
  IN  /\ Doing(p, {"signals"})
      /\ cursor = Len(Arrivals)
      /\ NextTask(p)
      /\ UNCHANGED <<Ledgers, intents, Clocks, exchangeVars>>

-------------------------------------------------------------------------------
(* _submit_intent and DemoExecutionService.submit. *)

Submitting(p, kind) ==
  /\ Doing(p, {"submit"})
  /\ intents[Item(p)].state = "planned"
  /\ intents[Item(p)].kind = kind

SubmitsNothing(p) ==
  /\ Doing(p, {"submit"})
  /\ intents[Item(p)].state # "planned"
  /\ NextTask(p)
  /\ UNCHANGED <<Ledgers, intents, Clocks, exchangeVars>>

\* Cancellations of the same decision that are not confirmed yet.
Dependencies(i) ==
  Selected({d \in Intents : /\ intents[d].kind = "cancel_entry"
                            /\ intents[d].command = intents[i].command
                            /\ intents[d].state # "cancelled"})

\* _entry_dependencies_confirmed: the first of them is submitted and reconciled.
SubmitsDependency ==
  LET p == "worker"
      d == Head(Dependencies(Item(p)))
  IN  /\ Submitting(p, "entry")
      /\ Dependencies(Item(p)) # <<>>
      /\ Continue(p, <<Task("submit", d), Task("depend", d)>> \o job[p].todo)
      /\ UNCHANGED <<Ledgers, intents, Clocks, exchangeVars>>

\* An uncertain POST is never repeated: its outcome is looked up.
SubmitsAttempted(p) ==
  LET i == Item(p)
  IN  /\ \/ Submitting(p, "entry") /\ Dependencies(i) = <<>>
         \/ Submitting(p, "close_position")
      /\ Attempted(i)
      /\ Instead(p, <<Task("recover", i)>>)
      /\ UNCHANGED <<Ledgers, intents, Clocks, exchangeVars>>

Blocked(s) == book.mode # "active" \/ WaitsFor(book, s)

SubmitsEntry ==
  LET p == "worker"
      i == Item(p)
      s == Owned(p)
  IN  /\ Submitting(p, "entry")
      /\ Dependencies(i) = <<>>
      /\ ~Attempted(i)
      /\ \/ /\ Overdue(i) \/ (Status(book, s) = "pending" /\ Blocked(s))
            /\ intents' = InState(intents, i, "cancelled")
            /\ NextTask(p)
         \/ /\ ~Overdue(i) /\ Status(book, s) # "pending"
            /\ intents' = InState(intents, i, "reconciliation_required")
            /\ Raise(p)
         \/ /\ ~Overdue(i) /\ Status(book, s) = "pending" /\ ~Blocked(s)
            /\ intents' = [intents EXCEPT ![i].attempted = TRUE]
            /\ Become(p, [job[p] EXCEPT !.pc = "post"])
      /\ UNCHANGED <<Ledgers, Clocks, exchangeVars>>

SubmitsClose(p) ==
  LET i == Item(p)
      s == Owned(p)
      ready == \/ EntryState(s) = "protection_verified"
               \/ EntryState(s) = "filled" /\ orders["entry"][s].status \in Over
  IN  /\ Submitting(p, "close_position")
      /\ ~Attempted(i)
      /\ \/ /\ ready
            /\ intents' = [intents EXCEPT ![i].attempted = TRUE]
            /\ Become(p, [job[p] EXCEPT !.pc = "post"])
         \/ /\ ~ready
            /\ Raise(p)
            /\ UNCHANGED intents
      /\ UNCHANGED <<Ledgers, Clocks, exchangeVars>>

Acknowledge(p) ==
  \/ /\ intents' = InState(intents, Item(p), "acknowledged")
     /\ NextTask(p)
  \/ /\ "lost_response" \in Happens
     /\ Raise(p)
     /\ UNCHANGED intents

\* The POST of an order.  A second order of one orderLinkId is refused, and a reduce-only
\* one without its position.
Post(p) ==
  LET i     == Item(p)
      s     == Owned(p)
      entry == intents[i].kind = "entry"
      taken == orders[OrderKind(i)][s] # NoOrder
  IN  /\ At(p, "post")
      /\ \/ /\ ~taken
            /\ entry \/ Held(s) > 0
            /\ Created(OrderKind(i), s, IF entry THEN EntrySize[s] ELSE ManagedQuantity(EntryOf(s)))
            /\ Acknowledge(p)
         \/ /\ taken \/ (~entry /\ Held(s) <= 0) \/ "lost_request" \in Happens
            /\ Raise(p)
            /\ UNCHANGED <<intents, orders>>
      /\ UNCHANGED <<Ledgers, Clocks, cancelling, exited, stops, reported>>

\* An entry that was never sent is cancelled locally, together with its cancellation.
Unsent(s) ==
  /\ EntryState(s) \in {"planned", "cancelled"}
  /\ ~Attempted(EntryOf(s))

SubmitsCancel ==
  LET p == "worker"
      i == Item(p)
      s == Owned(p)
  IN  /\ Submitting(p, "cancel_entry")
      /\ \/ /\ EntryState(s) = "missing"
            /\ Raise(p)
            /\ UNCHANGED <<intents, cancelling>>
         \/ /\ Unsent(s)
            /\ intents' = InState(InState(intents, EntryOf(s), "cancelled"), i, "cancelled")
            /\ NextTask(p)
            /\ UNCHANGED cancelling
         \/ /\ EntryEnded(s) /\ ~Unsent(s)
            /\ Retire(p)
            /\ UNCHANGED cancelling
         \/ /\ EntryState(s) # "missing" /\ ~EntryEnded(s) /\ ~Unsent(s)
            /\ \/ CancelAccepted(s) /\ Acknowledge(p)
               \/ /\ CancelRefused(s) \/ CancelLost
                  /\ Raise(p)
                  /\ UNCHANGED intents
      /\ UNCHANGED <<Ledgers, Clocks, orders, exited, stops, reported>>

WorkerStep ==
  \/ WorkerBegins \/ WorkerRetries \/ WorkerPlaces \/ WorkerPassesStale \/ WorkerProposes
  \/ WorkerPlans \/ WorkerRecordsRun \/ WorkerAdvances \/ WorkerEnds
  \/ SubmitsNothing("worker") \/ SubmitsDependency \/ SubmitsAttempted("worker")
  \/ SubmitsEntry \/ SubmitsClose("worker") \/ Post("worker") \/ SubmitsCancel
  \/ ReconcileStep("worker")

-------------------------------------------------------------------------------
(* The environment. *)

\* The exchange gets round to cancellations, market orders and closed PnL.
ExchangeWorks(s) ==
  /\ EffectCancel(s) \/ FillClose(s) \/ LapseClose(s) \/ Report(s)
  /\ UNCHANGED <<riskVars, ledgerVars, Clocks, job>>

\* The market may fill a resting entry, turn it away, or reach a TP or SL.
PriceMoves(s) ==
  /\ \/ "fill" \in Happens /\ FillEntry(s)
     \/ "refusal" \in Happens /\ RefusePostOnly(s)
     \/ "stop" \in Happens /\ HitStop(s)
  /\ UNCHANGED <<riskVars, ledgerVars, Clocks, job>>

Tick ==
  /\ now' \in {t \in course.times : t > now /\ \A u \in course.times : u > now => t <= u}
  /\ UNCHANGED <<riskVars, ledgerVars, course, funds, job, exchangeVars>>

\* BOUND: the equity only falls; RiskEngine's own instances let it recover.
Mark ==
  /\ "mark" \in Happens
  /\ funds' \in {equity \in Equities : equity < funds}
  /\ UNCHANGED <<riskVars, ledgerVars, course, now, job, exchangeVars>>

\* A process dies between two of its steps and is started again.
Crash(p) ==
  /\ "crash" \in Happens
  /\ job[p] # Idle
  /\ Raise(p)
  /\ UNCHANGED <<riskVars, ledgerVars, Clocks, exchangeVars>>

ExecutionInit ==
  /\ course \in Courses
  /\ now = 0
  /\ funds = Max(Equities)
  /\ account = Rebased(now, funds, 0)
  /\ book = [mode             |-> "active",
             reservations     |-> [s \in Signals |-> Absent],
             reversal_intents |-> NoReversals]
  /\ decision = NothingDecided
  /\ requested = {}
  /\ log = [c \in {} |-> NothingDecided]
  /\ intents = <<>>
  /\ attributed = {} /\ cursor = 0 /\ runs = {}
  /\ job = [p \in Processes |-> Idle]
  /\ ExchangeInit

ExecutionNext ==
  \/ MonitorStep \/ WorkerStep \/ Tick \/ Mark
  \/ \E s \in Signals : ExchangeWorks(s) \/ PriceMoves(s)
  \/ \E p \in Processes : Crash(p)

ExecutionSpec == ExecutionInit /\ [][ExecutionNext]_allVars

\* Both watch loops keep starting cycles and every request returns, time passes and
\* the exchange does what it accepted.  Prices owe nobody a fill or a stop.
Fairness ==
  /\ WF_allVars(MonitorStep) /\ WF_allVars(WorkerStep) /\ WF_allVars(Tick)
  /\ \A s \in Signals : WF_allVars(ExchangeWorks(s))

FairExecutionSpec == ExecutionSpec /\ Fairness

-------------------------------------------------------------------------------
(* Safety. *)

Intent ==
  [kind : Kinds, reservation : Signals, state : States, filled : Quantities,
   attempted : BOOLEAN, synced : BOOLEAN, command : DOMAIN log]

Job ==
  [pc : {"idle", "next", "resolve", "protect", "remainder", "reread", "attribute",
         "sync", "plan", "post", "prove"},
   todo : Seq([name : {"reconcile", "sweep", "expire", "expired", "settle", "retry",
                       "signals", "place", "advance", "submit", "depend", "recover",
                       "inspect", "request", "order", "confirm", "finish", "drop", "flat"},
               intent : Nat]),
   target : Nat, seen : OrderState, known : Quantities,
   view : States \cup {"none"}, command : DOMAIN log \cup {NoCommand},
   failed : BOOLEAN]

\* The rows, the processes and the exchange are well formed, and every plan names a
\* decision of the ledger.
ExecutionTypeOK ==
  /\ course \in Courses /\ now \in Times /\ funds \in Equities
  /\ account \in Account /\ book \in Book /\ requested = {}
  /\ \A c \in DOMAIN log : log[c] \in Decisions
  /\ intents \in Seq(Intent)
  /\ attributed \subseteq Signals /\ runs \subseteq Signals
  /\ cursor \in 0..Len(Arrivals)
  /\ job \in [Processes -> Job]
  /\ ExchangeTypeOK

\* README.md:495 and 730: no fill is invented.  What the ledger holds filled, and the
\* quantity of an intent, was executed at the exchange.
FillsAreReal ==
  /\ \A i \in Intents :
       intents[i].kind = "entry" =>
         intents[i].filled <= orders["entry"][intents[i].reservation].filled
  /\ \A s \in Signals :
       Status(book, s) \in {"filled", "close_requested", "closed"}
         => orders["entry"][s].filled > 0

\* No two signals of a symbol have the same direction.
OneEachWay ==
  \A s, t \in Signals :
    SymbolOf[s] = SymbolOf[t] /\ DirectionOf[s] = DirectionOf[t] => s = t

\* README.md:730: an entry reported as protected has its own TP and SL on the exchange
\* for as long as it is held.  (A third signal of the symbol could hold a position like
\* the one of an entry that still waits for reconciliation, which would then be taken
\* for the position of that entry.)
ProtectionIsReal ==
  OneEachWay =>
    \A i \in Intents :
      LET s == intents[i].reservation
      IN  intents[i].kind = "entry" /\ intents[i].state = "protection_verified"
            /\ Exposure(s) > 0
          => stops[SymbolOf[s]] = s

\* README.md:740: risk is released only after a complete closed PnL was attributed.
ReleaseIsAttributed ==
  \A s \in Signals : Status(book, s) = "closed" => s \in attributed

\* Attribution comes before the release, whatever happens between the two, but for two
\* cases: the inspection of the row failed, or the row is an overdue entry which the
\* sweep settles.
AttributionComesFirst ==
  [][\A s \in Signals :
       Status(book, s) # "closed" /\ Status(book', s) = "closed" =>
         \/ s \in attributed
         \/ \E p \in Processes :
              /\ At(p, "sync") /\ Owned(p) = s
              /\ job[p].failed \/ Head(job[p].todo).name = "settle"]_allVars

\* README.md:556: a close the ledger asked for becomes an owned close intent: none is
\* missing once both processes have ended their cycles.
ClosesArePlanned ==
  (\A p \in Processes : job[p] = Idle) =>
    \A s \in InStatus(book, "close_requested") : Of("close_position", s) # {}

\* Both processes write their transitions without comparing the state they read, so a
\* stale one may take an intent out of a terminal state.  The monitor then looks at it
\* again, and neither its executed quantity nor its attempt is lost.
IntentsMoveForward ==
  [][\A i \in Intents :
       /\ i \in DOMAIN intents'
       /\ intents[i].filled <= intents'[i].filled
       /\ intents[i].attempted => intents'[i].attempted
       /\ intents[i].state \in {"cancelled", "rejected", "position_closed", "close_confirmed"}
            => \/ intents'[i].state = intents[i].state
               \/ i \in Range(Monitorable')]_allVars

-------------------------------------------------------------------------------
(* The promise of the lifecycle. *)

Ledger ==
  INSTANCE ExposureLedger WITH
    active  <- Active(book),
    settled <- {s \in Signals : Status(book, s) \in Released},
    placed  <- {s \in Signals : orders["entry"][s] # NoOrder},
    offered <- {s \in Signals : Live(orders["entry"][s])},
    held    <- {s \in Signals : Exposure(s) > 0}

\* README.md:285 and 505: ledger, worker, monitor and exchange together reserve risk
\* before they offer an entry, offer it once, and release it for good, only when the
\* entry is over and flat, and only to a reversal of the same symbol.
KeepsThePromise == Ledger!Spec

-------------------------------------------------------------------------------
(* Liveness. *)

\* README.md:505: an entry that is overdue does not rest at the exchange for ever.
OverdueEntriesLeave ==
  \A s \in Signals :
    (Live(orders["entry"][s]) /\ book.reservations[s].expires_at <= now)
      ~> ~Live(orders["entry"][s])

Safeguarded(s) ==
  /\ EntryState(s) = "protection_verified"
  /\ stops[SymbolOf[s]] = s

\* README.md:730: every fill is eventually protected by its TP and SL, or gone again.
FillsGetProtected ==
  \A s \in Signals : Exposure(s) > 0 ~> Safeguarded(s) \/ Exposure(s) = 0

\* README.md:735: a reservation whose position was closed is eventually released.
ClosedPositionsAreReleased ==
  \A s \in Signals :
    (Status(book, s) \in {"filled", "close_requested"} /\ Exposure(s) = 0)
      ~> Status(book, s) = "closed"

\* README.md:727: what the ledger wants closed is eventually flat.
RequestedClosesHappen ==
  \A s \in Signals : Status(book, s) = "close_requested" ~> Exposure(s) = 0
===============================================================================
