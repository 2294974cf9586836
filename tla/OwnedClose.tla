------------------------------- MODULE OwnedClose -------------------------------
(***************************************************************************)
(* demo-reconcile --close-owned-position: the operator closes one owned    *)
(* position (DemoLifecycleMonitor.close_owned_position), again and again   *)
(* until the ledger has released it.  The command holds both locks         *)
(* (DemoRuntime.tla), so worker and monitor were stopped, each wherever it *)
(* was, and stay stopped until it ends; the exchange does not.             *)
(*                                                                         *)
(* The process "operator" goes through the steps of the code with the      *)
(* tasks inspect, request, order, submit, confirm, finish, or drop and     *)
(* flat for a position that turns out to be closed already.                *)
(***************************************************************************)
EXTENDS DemoExecution

Operator == "operator"

Operating == job[Operator] # Idle

Closes(s) == Of("close_position", s)

\* find_close has a plan that was never sent, or none.
NotSent(s) ==
  \A c \in Closes(s) : intents[c].state = "planned" /\ ~Attempted(c)

OperatorCloseOf(i) == <<"operator_close", i>>

\* The runtime is stopped: only the operator's command has something to do.
Alone(todo) ==
  job' = [p \in Processes |->
            IF p = Operator /\ todo # <<>> THEN [Idle EXCEPT !.pc = "next", !.todo = todo]
                                           ELSE Idle]

\* The account, the reservation and the close are read.  A close that may have been
\* sent is only looked up, a position without one is proved first.
Begins(i) ==
  LET s == intents[i].reservation
  IN  /\ "operator" \in Happens
      /\ ~Operating
      /\ intents[i].kind = "entry"
      /\ PositionsOwned
      /\ Cardinality(Closes(s)) <= 1
      /\ \/ /\ Status(book, s) \in Open
            /\ Alone((IF NotSent(s) THEN <<Task("inspect", i)>> ELSE <<>>)
                       \o <<Task("request", i), Task("order", i)>>)
            /\ UNCHANGED intents
         \* A command that was interrupted behind the release is completed.
         \/ /\ Status(book, s) = "closed"
            /\ Position(SymbolOf[s]) = 0
            /\ s \in attributed
            /\ intents' = [c \in Intents |->
                             IF c = i THEN [intents[c] EXCEPT !.state = "position_closed"]
                             ELSE [intents[c] EXCEPT !.synced = @ \/ c \in Closes(s)]]
            /\ Alone(<<>>)
      /\ UNCHANGED <<Ledgers, Clocks, exchangeVars>>

\* reconcile_for_operator_close: an entry that may still execute is not closed.
Inspects ==
  LET p     == Operator
      i     == Item(p)
      order == orders["entry"][Owned(p)]
  IN  /\ Doing(p, {"inspect"})
      /\ \/ /\ ~EntryEnded(Owned(p))
            /\ order.status \in {"filled", "cancelled"}
            /\ Become(p, [job[p] EXCEPT !.pc = "prove", !.target = i, !.seen = order,
                                        !.known = intents[i].filled])
         \/ /\ EntryEnded(Owned(p)) \/ order.status \notin {"filled", "cancelled"}
            /\ Raise(p)
      /\ UNCHANGED <<Ledgers, intents, Clocks, exchangeVars>>

\* Executions and position agree: the fill is handed to the ledger, without a TP or SL.
\* A plan for a position that is flat already will be dropped.
Proves ==
  LET p       == Operator
      i       == Item(p)
      s       == Owned(p)
      verdict == EntryVerdict(s, job[p].known, job[p].seen)
      synced  == [Idle EXCEPT !.pc = "sync", !.view = "filled"]
  IN  /\ At(p, "prove")
      /\ \/ /\ verdict = "filled"
            /\ intents' = [intents EXCEPT ![i].state = "filled",
                                          ![i].filled = job[p].seen.filled]
            /\ Become(p, [synced EXCEPT !.todo = job[p].todo])
         \/ /\ verdict = "position_closed_pending"
            /\ intents' = InState(intents, i, verdict)
            /\ Become(p, [synced EXCEPT !.todo =
                 <<Task("inspect", i), Task("request", i)>>
                   \o Tasks("drop", Selected(Closes(s))) \o <<Task("flat", i)>>])
         \/ /\ verdict \notin {"filled", "position_closed_pending"}
            /\ intents' = InState(intents, i, verdict)
            /\ Raise(p)
      /\ UNCHANGED <<Ledgers, Clocks, exchangeVars>>

\* The durable request, under one command id per entry.
Requests ==
  LET p == Operator
      c == OperatorCloseOf(Item(p))
  IN  /\ Doing(p, {"request"})
      /\ Execute(c, RequestPositionClose(now, Owned(p)))
      /\ IF log'[c].status \in {"accepted", "duplicate"} THEN NextTask(p) ELSE Raise(p)
      /\ UNCHANGED <<attributed, cursor, runs, intents, Clocks, exchangeVars>>

\* Mutant: the request is planned although its position has a close already.
OrdersAnew ==
  LET p      == Operator
      i      == Item(p)
      closes == {c \in Closes(Owned(p)) : intents[c].command = OperatorCloseOf(i)}
  IN  /\ Doing(p, {"order"})
      /\ \/ /\ closes = {}
            /\ Become(p, [job[p] EXCEPT !.pc = "plan", !.command = OperatorCloseOf(i)])
            /\ UNCHANGED decision
         \/ /\ closes # {}
            /\ decision' = NothingDecided
            /\ Continue(p, <<Task("submit", Max(closes)), Task("confirm", Max(closes)),
                             Task("finish", i)>>)
      /\ UNCHANGED <<account, book, requested, log, attributed, cursor, runs, intents,
                     Clocks, exchangeVars>>

\* A close that was planned before is taken over; otherwise the request is planned.
Orders ==
  LET p      == Operator
      i      == Item(p)
      closes == Closes(Owned(p))
      close  == Max(closes)
  IN  /\ Doing(p, {"order"})
      /\ \/ /\ closes = {}
            /\ Become(p, [job[p] EXCEPT !.pc = "plan", !.command = OperatorCloseOf(i)])
            /\ UNCHANGED decision
         \/ /\ closes # {}
            /\ decision' = NothingDecided
            /\ IF Cardinality(closes) > 1 THEN Raise(p)
               ELSE Continue(p, <<Task("submit", close), Task("confirm", close),
                                  Task("finish", i)>>)
      /\ UNCHANGED <<account, book, requested, log, attributed, cursor, runs, intents,
                     Clocks, exchangeVars>>

\* The request has been planned: on with its close.
OrdersPlanned ==
  LET p == Operator
  IN  /\ At(p, "plan")
      /\ Head(job[p].todo).name = "order"
      /\ ToPlan(job[p].command) = {}
      /\ Continue(p, job[p].todo)
      /\ UNCHANGED <<Ledgers, intents, Clocks, exchangeVars>>

\* The position was flat before it was closed: a plan that was never sent is dropped.
Drops ==
  LET p == Operator
  IN  /\ Doing(p, {"drop"})
      /\ intents' = InState(intents, Item(p), "cancelled")
      /\ NextTask(p)
      /\ UNCHANGED <<Ledgers, Clocks, exchangeVars>>

\* The closed PnL, and the account once more if there was an order to close it.
\* Without them the command ends, and the reservation stays.
Accounts ==
  LET p    == Operator
      s    == Owned(p)
      flat == Head(job[p].todo).name = "flat"
  IN  /\ Doing(p, {"flat"}) \/ At(p, "attribute")
      /\ \/ /\ s \in attributed \cup reported
            /\ attributed' = attributed \cup {s}
            /\ IF flat \/ PositionsOwned
               THEN Become(p, [Idle EXCEPT
                      !.pc   = "sync", !.todo = job[p].todo,
                      !.view = IF flat THEN "position_closed_pending" ELSE "close_confirmed"])
               ELSE Raise(p)
         \/ /\ s \notin attributed \cup reported
            /\ Raise(p)
            /\ UNCHANGED attributed
      /\ UNCHANGED <<riskVars, log, cursor, runs, intents, Clocks, exchangeVars>>

Finishes ==
  LET p == Operator
  IN  /\ Doing(p, {"finish"})
      /\ intents' = InState(intents, Item(p), "position_closed")
      /\ NextTask(p)
      /\ UNCHANGED <<Ledgers, Clocks, exchangeVars>>

OperatorStep ==
  \/ Inspects \/ Proves \/ Requests \/ Orders \/ OrdersPlanned \/ Drops \/ Accounts
  \/ Finishes
  \/ Synchronize(Operator) \/ PlansFollowUp(Operator) \/ FollowedUp(Operator)
  \/ SubmitsNothing(Operator) \/ SubmitsAttempted(Operator) \/ SubmitsClose(Operator)
  \/ Post(Operator)
  \/ Reconcile(Operator) \/ Resolve(Operator)

\* A question to the exchange fails, or the operator interrupts the command.
OperatorStops == Operating /\ Raise(Operator)
                   /\ UNCHANGED <<Ledgers, intents, Clocks, exchangeVars>>

RuntimeStep == ~Operating /\ (MonitorStep \/ WorkerStep)

OwnedCloseNext ==
  \/ RuntimeStep
  \/ \E i \in Intents : Begins(i)
  \/ OperatorStep \/ OperatorStops
  \/ Tick \/ Mark
  \/ \E s \in Signals : ExchangeWorks(s) \/ PriceMoves(s)
  \/ \E p \in Processes : Crash(p)

OwnedCloseSpec == ExecutionInit /\ [][OwnedCloseNext]_allVars

\* The fairness of DemoExecution while the runtime is up.  A command that has begun ends,
\* and at some time the operator leaves the runtime alone.
FairOwnedCloseSpec ==
  /\ OwnedCloseSpec
  /\ WF_allVars(~Operating /\ MonitorStep) /\ WF_allVars(~Operating /\ WorkerStep)
  /\ WF_allVars(OperatorStep) /\ WF_allVars(Tick)
  /\ \A s \in Signals : WF_allVars(ExchangeWorks(s))
  /\ <>[][~\E i \in Intents : Begins(i) /\ Operating']_allVars

-------------------------------------------------------------------------------
\* README.md:764: the owned close uses the existing close of a position.  What the fill
\* of an entry asked for and what the operator asks for end in one close intent, however
\* often the command is stopped and repeated and whenever the runtime was stopped.
OperatorTakesOver ==
  \A s \in Signals :
    Cardinality({c \in Closes(s) : intents[c].command \in
                   {FillOf(EntryOf(s)), OperatorCloseOf(EntryOf(s))}}) <= 1
===============================================================================
