------------------------------ MODULE DemoIntents ------------------------------
(***************************************************************************)
(* The state of the Demo execution lifecycle and what its processes        *)
(* read from it.  Worker and monitor share an SQLite database (the risk    *)
(* ledger and the execution intents, execution_repository.py) and talk to  *)
(* Bybit Demo (BybitDemo.tla):                                             *)
(*                                                                         *)
(*   worker    signals -> risk decision -> intents -> orders               *)
(*   monitor   orders and positions -> intents -> risk decision ->         *)
(*             follow-up intents                                           *)
(*                                                                         *)
(* DemoReconcile.tla adds the evidence walk both share, DemoExecution.tla  *)
(* the two processes and the specification, OwnedClose.tla the operator's  *)
(* command, a third process that runs while the two are stopped.           *)
(***************************************************************************)
EXTENDS RiskEngine, SequencesExt

CONSTANTS
  EntrySize,  \* the quantity of each signal's entry, in quantity steps
  Courses     \* BOUND: the courses of events that an instance explores

\* crash            a process stops and is started again
\* lost_request     a POST fails before it reaches the exchange
\* lost_response    a POST takes effect and its answer is lost
\* unavailable      a GET fails: rate limit, transport, malformed answer
\* fill             the market fills a resting entry
\* refusal          the exchange turns a PostOnly entry away
\* stop             the take profit or the stop loss of a position is hit
\* mark             the strategy equity falls
\* operator         the operator closes positions (OwnedClose.tla)
Events ==
  {"crash", "lost_request", "lost_response", "unavailable", "fill", "refusal", "stop",
   "mark", "operator"}

\* The signals in the order of their Telegram message ids, what happens beyond the
\* ordinary, and the instants of the clock.  A behaviour starts at the instant 0 and at
\* the highest equity.
ASSUME ExecutionAssumption ==
  /\ IsFiniteSet(Signals)
  /\ 0 \in Times /\ \E top \in Equities : \A equity \in Equities : equity <= top
  /\ EntrySize \in [Signals -> Nat \ {0}]
  /\ \A c \in Courses :
       c.arrivals \in Seq(Signals) /\ c.happens \subseteq Events /\ c.times \subseteq Times

VARIABLES
  course,      \* the course of events of this behaviour
  now,         \* the clock, the same for every process and the exchange
  funds,       \* strategy equity reported by every account snapshot
  log,         \* risk_engine_commands: command id -> stored decision
  intents,     \* demo_execution_intents in order of creation
  attributed,  \* reservations with an attributed performance outcome
  cursor,      \* worker cursor: signals passed
  runs,        \* signals with a recorded bridge run
  job,         \* the processes
  orders, cancelling, exited, stops, reported

INSTANCE BybitDemo

exchangeVars == <<orders, cancelling, exited, stops, reported>>

riskVars   == <<account, book, decision, requested>>
ledgerVars == <<log, intents, attributed, cursor, runs>>
allVars    == <<riskVars, ledgerVars, course, now, funds, job, exchangeVars>>

Arrivals == course.arrivals

Happens == course.happens

\* The command owned-close is an operator's process; OwnedClose.tla says what it does.
Processes == {"worker", "monitor", "operator"}

Kinds == {"entry", "cancel_entry", "close_position"}

States ==
  {"planned", "acknowledged", "working", "filled", "cancelled", "rejected",
   "close_confirmed", "protection_verified", "position_closed_pending",
   "position_closed", "reconciliation_required"}

-------------------------------------------------------------------------------
(* Intents.  The intent at position i of the table is named by i. *)

Intents == DOMAIN intents

Of(kind, s) == {i \in Intents : intents[i].kind = kind /\ intents[i].reservation = s}

\* find_entry: the owned entry intent of a reservation, NoIntent if there is none.
NoIntent == 0

EntryOf(s) == IF Of("entry", s) = {} THEN NoIntent ELSE Max(Of("entry", s))

EntryState(s) ==
  IF EntryOf(s) = NoIntent THEN "missing" ELSE intents[EntryOf(s)].state

InState(table, i, state) == [table EXCEPT ![i].state = state]

\* Mutant: off by one, an entry is overdue only after its expiry instant.
OverdueLate(i) == book.reservations[intents[i].reservation].expires_at < now

Overdue(i) == book.reservations[intents[i].reservation].expires_at <= now

\* Some rows of the table in order of creation.
Selected(rows) ==
  [k \in 1..Cardinality(rows) |->
     CHOOSE i \in rows : Cardinality({j \in rows : j < i}) = k - 1]

Planned == Selected({i \in Intents : intents[i].state = "planned"})

\* Mutant: an order that was seen resting once is not looked at again.
MonitorableFresh ==
  Selected({i \in Intents :
    \/ intents[i].state \in {"acknowledged", "filled", "protection_verified",
                             "position_closed_pending", "reconciliation_required"}
    \/ /\ ~intents[i].synced
       /\ \/ intents[i].state = "close_confirmed"
          \/ /\ intents[i].state \in {"cancelled", "rejected"}
             /\ intents[i].kind \in {"entry", "cancel_entry"}})

\* monitorable_intents
Monitorable ==
  Selected({i \in Intents :
    \/ intents[i].state \in {"acknowledged", "working", "filled", "protection_verified",
                             "position_closed_pending", "reconciliation_required"}
    \/ /\ ~intents[i].synced
       /\ \/ intents[i].state = "close_confirmed"
          \/ /\ intents[i].state \in {"cancelled", "rejected"}
             /\ intents[i].kind \in {"entry", "cancel_entry"}})

\* has_submission_attempt
Attempted(i) == intents[i].attempted

\* expirable_entries
Expirable ==
  Selected({i \in Intents : /\ intents[i].kind = "entry"
                            /\ intents[i].state \in {"acknowledged", "working"}
                            /\ Overdue(i)})

KindOf(type) ==
  CASE type = "create" -> "entry"
    [] type = "cancel" -> "cancel_entry"
    [] type = "close"  -> "close_position"

\* plan_decision: one intent per action, named by its command, kind and reservation.
IntentFor(c, action) ==
  [kind |-> KindOf(action.type), reservation |-> action.reservation, command |-> c,
   state |-> "planned", filled |-> 0, attempted |-> FALSE, synced |-> FALSE]

\* save_planned leaves an intent that is already stored alone.
Stored(c, action) ==
  \E i \in Of(KindOf(action.type), action.reservation) : intents[i].command = c

-------------------------------------------------------------------------------
(* Account evidence. *)

DirectionHeld(y) == IF Position(y) > 0 THEN "LONG" ELSE "SHORT"

\* DemoLifecycleMonitor._validate_ownership: every position has an owned entry.
PositionsOwned ==
  \A y \in Symbols : Position(y) # 0 =>
    \E i \in Intents :
      /\ intents[i].kind = "entry"
      /\ intents[i].state \notin {"cancelled", "rejected", "position_closed"}
      /\ SymbolOf[intents[i].reservation] = y
      /\ DirectionOf[intents[i].reservation] = DirectionHeld(y)

\* managed_position_intents
Managed ==
  {i \in Intents :
     /\ intents[i].kind = "entry"
     /\ intents[i].state \in {"filled", "protection_verified",
                              "position_closed_pending", "reconciliation_required"}
     /\ \A c \in Of("close_position", intents[i].reservation) :
           intents[c].state # "close_confirmed"}

ManagedQuantity(i) ==
  IF intents[i].filled = 0 THEN EntrySize[intents[i].reservation] ELSE intents[i].filled

\* DemoSignalBridgeService._validate_account_ownership: the account holds exactly
\* what the managed entries say, and each of them still reserves risk.
AccountMatches ==
  /\ \A i \in Managed : Status(book, intents[i].reservation) \in Open
  /\ \A y \in Symbols, d \in Directions :
       LET mine == {i \in Managed : /\ SymbolOf[intents[i].reservation] = y
                                    /\ DirectionOf[intents[i].reservation] = d}
           held == CASE d = "LONG"  /\ Position(y) > 0 -> Position(y)
                     [] d = "SHORT" /\ Position(y) < 0 -> -Position(y)
                     [] OTHER -> 0
       IN  SumFunctionOnSet([i \in mine |-> ManagedQuantity(i)], mine) = held

-------------------------------------------------------------------------------
(* Commands of the risk ledger.  A command id names its purpose and the signal or  *)
(* intent it is about; its first execution is logged with its decision, a repeated *)
(* one is answered from the log and leaves the risk state alone.                   *)

NoCommand == <<>>

ProposeOf(s)        == <<"propose", s>>
FillOf(i)           == <<"fill", i>>
CancelOf(i)         == <<"cancel", i>>
PositionClosedOf(i) == <<"position_closed", i>>
CloseOf(i)          == <<"close", i>>

NothingDecided == [status |-> "accepted", actions |-> {}]

\* SQLiteRiskStateRepository._execute: the state and the log change together.
Execute(c, Command_) ==
  IF c \in DOMAIN log THEN UNCHANGED <<riskVars, log>>
  ELSE /\ Command_
       /\ log' = [d \in DOMAIN log \cup {c} |-> IF d = c THEN decision' ELSE log[d]]
       /\ UNCHANGED requested

\* The actions of a stored decision on some symbols that have no intent yet.
Missing(c, symbols) ==
  {a \in log[c].actions : SymbolOf[a.reservation] \in symbols /\ ~Stored(c, a)}

\* A decision names the cancellation on a symbol before its close or its new entry.
Foremost(actions) ==
  {a \in actions :
     a.type = "cancel" \/ \A b \in actions :
       SymbolOf[b.reservation] = SymbolOf[a.reservation] => b.type # "cancel"}

-------------------------------------------------------------------------------
(* Processes.  A cycle is a list of tasks; pc says where in its first task a       *)
(* process is, the other fields are the local variables of the code.               *)

Task(name, i) == [name |-> name, intent |-> i]

Tasks(name, list) == [n \in DOMAIN list |-> Task(name, list[n])]

Idle ==
  [pc      |-> "idle",
   todo    |-> <<>>,
   target  |-> NoIntent,    \* the intent whose order is being reconciled
   seen    |-> NoOrder,     \* its order as it was read
   known   |-> 0,           \* its filled quantity as it was read
   view    |-> "none",      \* the state handed to the risk ledger
   command |-> NoCommand,   \* the risk command whose plan is being stored
   failed  |-> FALSE]       \* the exception goes on once risk is synchronized

Item(p) == Head(job[p].todo).intent

Owned(p) == intents[Item(p)].reservation

At(p, pc) == job[p].pc = pc

Doing(p, names) == At(p, "next") /\ Head(job[p].todo).name \in names

Become(p, new) == job' = [job EXCEPT ![p] = new]

\* Go on with a list of tasks, or end the cycle when it is empty.
Continue(p, todo) ==
  Become(p, IF todo = <<>> THEN Idle ELSE [Idle EXCEPT !.pc = "next", !.todo = todo])

NextTask(p) == Continue(p, Tail(job[p].todo))

Instead(p, tasks) == Continue(p, tasks \o Tail(job[p].todo))

\* An exception that run_cycle lets through: the watch loop starts a new cycle.
Raise(p) == Become(p, Idle)
===============================================================================
