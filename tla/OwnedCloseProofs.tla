--------------------------- MODULE OwnedCloseProofs ---------------------------
(*****************************************************************************)
(* Theorems of OwnedClose, the lifecycle with its operator, for every set    *)
(* of signals, sizes, instants and courses.  The operator's command keeps    *)
(* the invariant of DemoExecutionProofs as well; that is the refinement of   *)
(* ExposureLedger, and types and fills are part of it.                       *)
(*                                                                           *)
(* The other properties need an argument each on top of the invariant:       *)
(* intents only move forward, protection is real, attribution comes before   *)
(* a release, and the operator takes over a close that was asked for.  The   *)
(* last two have inductive invariants of their own, about the jobs.          *)
(*****************************************************************************)
EXTENDS DemoExecutionProofs

-------------------------------------------------------------------------------
(* The operator's command. *)

\* The operator at one of the command's own tasks.
LEMMA AtOwn ==
  ASSUME ExposureInv, NEW p \in Processes, p = "operator", NEW name, Doing(p, {name}),
         name \in {"inspect", "request", "order", "finish", "drop", "flat"}
  PROVE  /\ job[p].pc = "next" /\ job[p].pc # "idle" /\ job[p].todo # <<>>
         /\ JobOK(p) /\ PlaceOK(p) /\ TodoOK(p, job[p].todo) /\ InTurn(job[p].todo)
         /\ job[p] \in Job /\ job[p].todo \in Seq(TaskType)
         /\ Head(job[p].todo).name = name /\ Head(job[p].todo).intent = Item(p)
         /\ Head(job[p].todo) \in Range(job[p].todo)
         /\ TaskOK(p, Head(job[p].todo))
         /\ Item(p) \in Intents /\ Item(p) \in Nat /\ RowOK(Item(p))
         /\ Owned(p) \in Signals /\ intents[Item(p)].reservation = Owned(p)
         /\ name # "drop" => intents[Item(p)].kind = "entry"
         /\ job[p] = [Idle EXCEPT !.pc = "next", !.todo = job[p].todo]
<1>1. name \notin Tokens /\ (name # "drop" => name \in EntryTasks)
  BY DEF Tokens, EntryTasks
<1>2. /\ job[p].pc = "next" /\ job[p].pc # "idle" /\ job[p].todo # <<>>
      /\ JobOK(p) /\ PlaceOK(p) /\ TodoOK(p, job[p].todo) /\ job[p].todo \in Seq(TaskType)
      /\ Head(job[p].todo).name = name /\ TaskOK(p, Head(job[p].todo))
      /\ Item(p) \in Intents
      /\ job[p] = [Idle EXCEPT !.pc = "next", !.todo = job[p].todo]
  BY Zenon, <1>1, AtOneTask
<1>3. Head(job[p].todo) \in Range(job[p].todo) /\ Head(job[p].todo).intent = Item(p)
  BY <1>2, HeadTail DEF Item
<1>4. /\ RowsTyped /\ EvidenceOK /\ Item(p) \in Nat /\ job[p] \in Job
  BY <1>2, RowType, TableRows DEF ExposureInv, TableOK, JobsOK
<1>5. name # "drop" => intents[Item(p)].kind = "entry"
  BY <1>1, <1>2, <1>3 DEF TaskOK
<1>6. QED BY <1>2, <1>3, <1>4, <1>5 DEF JobOK, RowsTyped, Owned, EvidenceOK

\* An entry that executes no more is read, to be proved.
LEMMA InspectsMoves ==
  ASSUME ExposureInv, Inspects
  PROVE  Advances
<1>1. PICK p \in Processes : p = "operator"
  BY DEF Processes
<1>2. Doing(p, {"inspect"}) /\ UNCHANGED <<Ledgers, intents, Clocks, exchangeVars>>
  BY <1>1 DEF Inspects, Operator
<1>3. PICK i \in Intents : i = Item(p)
  BY Zenon, <1>1, <1>2, AtOwn
<1>4. PICK s \in Signals : s = intents[i].reservation /\ s = Owned(p)
  BY Zenon, <1>1, <1>2, <1>3, AtOwn
<1>5. CASE Raise(p)
  BY <1>2, <1>5, RaisedStep
<1>6. CASE /\ orders["entry"][s].status \in {"filled", "cancelled"}
           /\ Become(p, [job[p] EXCEPT !.pc = "prove", !.target = i, !.seen = orders["entry"][s],
                                       !.known = intents[i].filled])
  <2>1. PICK order \in OrderState : order = orders["entry"][s]
    BY OrderType DEF ExposureInv, OrdersTyped
  <2>2. PICK known \in Nat : known = intents[i].filled /\ known \in Quantities
    BY RowType DEF ExposureInv, RowsTyped
  <2>3. PICK new : new = [job[p] EXCEPT !.pc = "prove", !.target = i, !.seen = order,
                                        !.known = known]
    OBVIOUS
  <2>4. /\ job[p] \in Job /\ i \in Nat /\ job[p].todo # <<>> /\ job[p].pc # "idle"
        /\ Head(job[p].todo).name = "inspect" /\ intents[i].kind = "entry"
    BY Zenon, <1>1, <1>2, <1>3, AtOwn
  <2>5. /\ new \in Job /\ new.pc = "prove" /\ new.todo = job[p].todo /\ new.target = i
        /\ new.seen = order /\ new.known = known
    BY Zenon, <2>2, <2>3, <2>4 DEF Job
  <2>6. /\ UNCHANGED <<account, book, requested, log, course, now, funds, intents, orders, exited>>
        /\ UNCHANGED <<orders, exited, cancelling, stops, reported>>
        /\ decision' = decision /\ UNCHANGED <<attributed, runs, cursor>>
    BY <1>2 DEF Ledgers, riskVars, Clocks, exchangeVars
  <2>7. ExchangeOK'
    BY <2>6, ExchangeStays DEF ExposureInv
  <2>8. SeenOK(order, order) /\ SeenEntry(order)
    <3>1. EntryOrderOK(s) /\ EntrySize[s] \in Nat \ {0} /\ order.filled \in Nat
      BY <2>1, OrderType, ExecutionAssumption DEF ExposureInv, ExchangeOK, OrdersTyped
    <3>2. QED BY <1>6, <2>1, <3>1 DEF SeenOK, SeenEntry, EntryOrderOK
  <2>9. ASSUME job'[p] = new, Progress, TableOK', EvidenceOK'
        PROVE  new \in Job' /\ JobOK(p)'
    <3>1. new \in Job'
      BY <2>5, <2>6 DEF Job
    <3>2. Item(p)' = i /\ Head(job'[p].todo).name = "inspect" /\ i \in Intents'
      BY <1>3, <2>4, <2>5, <2>6, <2>9 DEF Item, Intents
    <3>3. "inspect" \notin Walks /\ "inspect" \in Walks \cup {"inspect"}
      BY DEF Walks
    <3>4. SeenOK(orders["entry"][s], order)' /\ SeenEntry(order)'
      BY <2>1, <2>6, <2>8 DEF SeenOK, SeenEntry
    <3>5. WalkOK(p)'
      <4>1. /\ job'[p].target = i /\ job'[p].seen = order /\ job'[p].known = known
            /\ job'[p].pc = "prove"
        BY <2>5, <2>9
      <4>2. /\ intents'[i].kind = "entry" /\ intents'[i].reservation = s
            /\ intents'[i].filled = known /\ known <= known
        <5>1. intents' = intents
          BY <2>6
        <5>2. intents[i].kind = "entry"
          BY <2>4
        <5>3. intents[i].reservation = s /\ intents[i].filled = known
          BY <1>4, <2>2
        <5>4. known <= known
          BY <2>2
        <5>5. QED BY <5>1, <5>2, <5>3, <5>4
      <4>3. order.status \in {"filled", "cancelled"}
        BY <1>6, <2>1
      <4>4. SeenOK(orders'["entry"][intents'[i].reservation], order) /\ SeenEntry(order)
        BY <2>1, <2>6, <2>8, <4>2
      <4>5. intents'[Item(p)'].reservation = intents'[i].reservation
        BY <3>2
      <4>6. order.status # "none"
        BY <4>3
      <4>7. QED BY <3>2, <3>3, <4>1, <4>2, <4>3, <4>4, <4>5 DEF WalkOK
    <3>6. PlaceOK(p)'
      BY <2>4, <2>5, <2>9, <3>5 DEF PlaceOK
    <3>7. NothingSent
      BY <2>6 DEF NothingSent, Intents
    <3>8. QED BY <2>4, <2>5, <2>6, <2>7, <2>9, <3>1, <3>6, <3>7, SameTaskOK
  <2>10. attributed' \subseteq Signals /\ runs' \subseteq Signals /\ cursor' \in 0..Len(Arrivals)
    BY <2>6 DEF ExposureInv, RestOK, Arrivals
  <2>11. QED BY <1>6, <2>1, <2>2, <2>3, <2>6, <2>7, <2>9, <2>10, LoneStep
<1>7. \/ Raise(p)
      \/ /\ orders["entry"][Owned(p)].status \in {"filled", "cancelled"}
         /\ Become(p, [job[p] EXCEPT !.pc = "prove", !.target = Item(p),
                                     !.seen = orders["entry"][Owned(p)],
                                     !.known = intents[Item(p)].filled])
  BY <1>1 DEF Inspects, Operator
<1>8. QED BY <1>3, <1>4, <1>5, <1>6, <1>7

\* A plan that was never sent is dropped.
LEMMA DropsMoves ==
  ASSUME ExposureInv, Drops
  PROVE  Advances
<1>1. PICK p \in Processes : p = "operator"
  BY DEF Processes
<1>2. /\ Doing(p, {"drop"}) /\ NextTask(p) /\ intents' = InState(intents, Item(p), "cancelled")
      /\ UNCHANGED <<Ledgers, Clocks, exchangeVars>>
  BY <1>1 DEF Drops, Operator
<1>3. PICK i \in Intents : i = Item(p)
  BY Zenon, <1>1, <1>2, AtOwn
<1>4. /\ job[p].pc # "idle" /\ Head(job[p].todo).name = "drop"
      /\ intents[i].kind = "close_position" /\ ~intents[i].attempted
  <2>1. /\ job[p].pc # "idle" /\ Head(job[p].todo).name = "drop"
        /\ TaskOK(p, Head(job[p].todo)) /\ Head(job[p].todo).intent = i
    BY Zenon, <1>1, <1>2, <1>3, AtOwn
  <2>2. "drop" \notin Tokens
    BY DEF Tokens
  <2>3. QED BY <2>1, <2>2 DEF TaskOK
<1>5. PICK state \in States : state = "cancelled"
  BY DEF States
<1>6. TableOK /\ EvidenceOK /\ ExchangeOK
  BY DEF ExposureInv
<1>7. PICK table : table = InState(intents, i, state) /\ intents' = table
  BY <1>2, <1>3, <1>5
<1>8. /\ table = [k \in Intents |-> table[k]]
      /\ table[i] = [intents[i] EXCEPT !.state = state]
      /\ \A k \in Intents \ {i} : table[k] = intents[k]
      /\ \A k \in Intents : table[k].attempted = intents[k].attempted
  BY <1>6, <1>7, OneRow
<1>9. /\ intents' = [k \in Intents |-> intents'[k]]
      /\ intents'[i] = [intents[i] EXCEPT !.state = state]
      /\ \A k \in Intents \ {i} : intents'[k] = intents[k]
      /\ \A k \in Intents : intents'[k].attempted = intents[k].attempted
      /\ Intents' = Intents
  BY <1>7, <1>8 DEF Intents
<1>10. Claim(i, state)
  BY <1>4, <1>5 DEF Claim, CloseClaim
<1>11. Written(i)
  BY <1>5, <1>6, <1>9, <1>10, StateWritten
<1>12. /\ UNCHANGED <<account, book, requested, log, course, now, funds, orders, exited>>
       /\ UNCHANGED <<orders, exited, cancelling, stops, reported>>
       /\ decision' = decision /\ UNCHANGED <<attributed, runs, cursor>>
  BY <1>2 DEF Ledgers, riskVars, Clocks, exchangeVars
<1>13. ExchangeOK'
  BY <1>6, <1>12, ExchangeStays
<1>14. PICK new : Become(p, new) /\ new = NextJob(Tail(job[p].todo))
  BY Zenon, <1>2 DEF NextTask, Continue, NextJob
<1>15. NothingSent
  BY <1>9 DEF NothingSent
<1>16. ASSUME job'[p] = new, Progress PROVE new \in Job' /\ JobOK(p)'
  BY <1>1, <1>4, <1>12, <1>13, <1>14, <1>15, <1>16, NextTaskOK
<1>17. \A k \in Intents : intents'[k] = intents[k] \/ Written(k)
  BY <1>9, <1>11
<1>18. QED BY <1>1, <1>9, <1>12, <1>13, <1>14, <1>16, <1>17, WriteStep

\* The position is closed for good.
LEMMA FinishesMoves ==
  ASSUME ExposureInv, Finishes
  PROVE  Advances
<1>1. PICK p \in Processes : p = "operator"
  BY DEF Processes
<1>2. /\ Doing(p, {"finish"}) /\ NextTask(p)
      /\ intents' = InState(intents, Item(p), "position_closed")
      /\ UNCHANGED <<Ledgers, Clocks, exchangeVars>>
  BY <1>1 DEF Finishes, Operator
<1>3. PICK i \in Intents : i = Item(p)
  BY Zenon, <1>1, <1>2, AtOwn
<1>4. /\ job[p].pc # "idle" /\ Head(job[p].todo).name = "finish"
      /\ intents[i].kind = "entry" /\ Gone(intents[i].reservation)
  <2>1. /\ job[p].pc = "next" /\ job[p].pc # "idle" /\ Head(job[p].todo).name = "finish"
        /\ PlaceOK(p) /\ intents[i].kind = "entry"
    BY Zenon, <1>1, <1>2, <1>3, AtOwn
  <2>2. QED BY <1>3, <2>1 DEF PlaceOK
<1>5. PICK state \in States : state = "position_closed"
  BY DEF States
<1>6. TableOK /\ EvidenceOK /\ ExchangeOK
  BY DEF ExposureInv
<1>7. PICK table : table = InState(intents, i, state) /\ intents' = table
  BY <1>2, <1>3, <1>5
<1>8. /\ table = [k \in Intents |-> table[k]]
      /\ table[i] = [intents[i] EXCEPT !.state = state]
      /\ \A k \in Intents \ {i} : table[k] = intents[k]
      /\ \A k \in Intents : table[k].attempted = intents[k].attempted
  BY <1>6, <1>7, OneRow
<1>9. /\ intents' = [k \in Intents |-> intents'[k]]
      /\ intents'[i] = [intents[i] EXCEPT !.state = state]
      /\ \A k \in Intents \ {i} : intents'[k] = intents[k]
      /\ \A k \in Intents : intents'[k].attempted = intents[k].attempted
      /\ Intents' = Intents
  BY <1>7, <1>8 DEF Intents
<1>10. Claim(i, state)
  BY <1>4, <1>5 DEF Claim, EntryClaim
<1>11. Written(i)
  BY <1>5, <1>6, <1>9, <1>10, StateWritten
<1>12. /\ UNCHANGED <<account, book, requested, log, course, now, funds, orders, exited>>
       /\ UNCHANGED <<orders, exited, cancelling, stops, reported>>
       /\ decision' = decision /\ UNCHANGED <<attributed, runs, cursor>>
  BY <1>2 DEF Ledgers, riskVars, Clocks, exchangeVars
<1>13. ExchangeOK'
  BY <1>6, <1>12, ExchangeStays
<1>14. PICK new : Become(p, new) /\ new = NextJob(Tail(job[p].todo))
  BY <1>2 DEF NextTask, Continue, NextJob
<1>15. NothingSent
  BY <1>9 DEF NothingSent
<1>16. ASSUME job'[p] = new, Progress PROVE new \in Job' /\ JobOK(p)'
  BY <1>1, <1>4, <1>12, <1>13, <1>14, <1>15, <1>16, NextTaskOK
<1>17. \A k \in Intents : intents'[k] = intents[k] \/ Written(k)
  BY <1>9, <1>11
<1>18. QED BY <1>1, <1>9, <1>12, <1>13, <1>14, <1>16, <1>17, WriteStep

\* The operator's request is decided once, and its order comes next.
LEMMA RequestsMoves ==
  ASSUME ExposureInv, Requests
  PROVE  Advances
<1>1. PICK p \in Processes : p = "operator"
  BY DEF Processes
<1>2. PICK c : c = OperatorCloseOf(Item(p))
  OBVIOUS
<1>3. /\ Doing(p, {"request"}) /\ Execute(c, RequestPositionClose(now, Owned(p)))
      /\ IF log'[c].status \in {"accepted", "duplicate"} THEN NextTask(p) ELSE Raise(p)
      /\ UNCHANGED <<attributed, cursor, runs, intents, Clocks, exchangeVars>>
  BY <1>1, <1>2 DEF Requests, Operator
<1>4. PICK s \in Signals : s = Owned(p)
  BY Zenon, <1>1, <1>3, AtOwn
<1>5. job[p].pc # "idle" /\ Head(job[p].todo).name = "request"
  BY Zenon, <1>1, <1>3, AtOwn
<1>6. /\ UNCHANGED <<course, now, funds, attributed, runs, cursor, intents>>
      /\ UNCHANGED <<orders, exited, cancelling, stops, reported>>
      /\ ExchangeOK /\ ExchangeOK' /\ Inv /\ now \in Times
      /\ attributed \subseteq Signals /\ runs \subseteq Signals /\ cursor \in 0..Len(Arrivals)
  BY <1>3, ExchangeStays DEF Clocks, exchangeVars, ExposureInv, RestOK
<1>7. NothingSent
  BY <1>6 DEF NothingSent, Intents
<1>8. PICK new : Become(p, new) /\ (new = NextJob(Tail(job[p].todo)) \/ new = Idle)
  BY Zenon, <1>3 DEF NextTask, Continue, NextJob, Raise
<1>9. ASSUME job'[p] = new, Progress, c \in DOMAIN log' PROVE new \in Job' /\ JobOK(p)'
  <2>1. CASE new = Idle
    BY <1>9, <2>1, IdleOK
  <2>2. CASE new = NextJob(Tail(job[p].todo))
    BY <1>1, <1>2, <1>5, <1>6, <1>7, <1>9, <2>2, NextTaskOK
  <2>3. QED BY <1>8, <2>1, <2>2
<1>10. CASE c \in DOMAIN log
  <2>1. UNCHANGED <<account, book, decision, requested, log>>
    BY <1>3, <1>10 DEF Execute, riskVars
  <2>2. QED BY <1>1, <1>6, <1>8, <1>9, <1>10, <2>1, LoneStep
<1>11. CASE c \notin DOMAIN log
  <2>1. Logged(c) /\ RequestPositionClose(now, s) /\ requested' = requested
    BY <1>3, <1>4, <1>11 DEF Execute, Logged
  <2>2. CreatesEnter /\ \A t \in Signals : Kept(t)
    BY <1>6, <2>1, RequestCloseMoves
  <2>3. Decided(s)
    BY <2>2 DEF Decided
  <2>4. After
    BY <1>6, <2>1, RequestCloseStep
  <2>5. QED BY <1>1, <1>6, <1>8, <1>9, <2>1, <2>2, <2>3, <2>4, DecidingStep
<1>12. QED BY <1>10, <1>11

\* The close of the position is taken over, or the request is planned.
LEMMA OrdersMoves ==
  ASSUME ExposureInv, Orders
  PROVE  Advances
<1>1. PICK p \in Processes : p = "operator"
  BY DEF Processes
<1>2. /\ Doing(p, {"order"})
      /\ UNCHANGED <<account, book, requested, log, attributed, cursor, runs, intents>>
      /\ UNCHANGED <<course, now, funds, orders, exited>>
      /\ UNCHANGED <<orders, exited, cancelling, stops, reported>>
  BY <1>1 DEF Orders, Operator, Clocks, exchangeVars
<1>3. PICK i \in Intents : i = Item(p) /\ i \in Nat
  BY Zenon, <1>1, <1>2, AtOwn
<1>4. PICK s \in Signals : s = intents[i].reservation /\ s = Owned(p)
  BY Zenon, <1>1, <1>2, <1>3, AtOwn
<1>5. PICK closes : closes = Of("close_position", s)
  OBVIOUS
<1>6. /\ ExchangeOK /\ ExchangeOK' /\ TableOK /\ RowsTyped /\ NothingSent
      /\ attributed \subseteq Signals /\ runs \subseteq Signals /\ cursor \in 0..Len(Arrivals)
  BY <1>2, ExchangeStays, RowType DEF ExposureInv, RestOK, NothingSent, Intents
<1>7. /\ job[p] \in Job /\ job[p].pc = "next" /\ job[p].pc # "idle" /\ job[p].todo # <<>>
      /\ Head(job[p].todo).name = "order" /\ PlaceOK(p) /\ intents[i].kind = "entry"
      /\ job[p].view = "none"
  <2>1. /\ job[p] \in Job /\ job[p].pc = "next" /\ job[p].pc # "idle" /\ job[p].todo # <<>>
        /\ Head(job[p].todo).name = "order" /\ PlaceOK(p) /\ intents[i].kind = "entry"
        /\ job[p] = [Idle EXCEPT !.pc = "next", !.todo = job[p].todo]
    BY Zenon, <1>1, <1>2, <1>3, AtOwn
  <2>2. job[p].view = "none"
    BY Zenon, <2>1 DEF Idle
  <2>3. QED BY <2>1, <2>2
<1>8. OperatorCloseOf(i) \in DOMAIN log
  BY <1>3, <1>7 DEF PlaceOK
<1>9. CASE closes = {}
  <2>1. PICK c \in DOMAIN log : c = OperatorCloseOf(i)
    BY <1>8
  <2>2. PICK new : new = [job[p] EXCEPT !.pc = "plan", !.command = c]
    OBVIOUS
  <2>3. Become(p, new) /\ decision' = decision
    BY <1>1, <1>3, <1>4, <1>5, <1>9, <2>1, <2>2 DEF Orders, Operator, Closes
  <2>4. /\ new \in Job /\ new.pc = "plan" /\ new.todo = job[p].todo
        /\ new.command = c /\ new.view = "none"
    BY Zenon, <1>7, <2>2 DEF Job
  <2>5. ASSUME job'[p] = new, Progress, TableOK', EvidenceOK'
        PROVE  new \in Job' /\ JobOK(p)'
    <3>1. new \in Job' /\ c \in DOMAIN log'
      BY <1>2, <2>4 DEF Job
    <3>2. Item(p)' = i /\ Head(job'[p].todo).name = "order"
      BY <1>3, <1>7, <2>4, <2>5 DEF Item
    <3>3. PlanOK(p)'
      <4>1. OperatorCloseOf(Item(p)') = c
        BY <2>1, <3>2
      <4>2. job'[p].command = c /\ job'[p].view = "none"
        BY <2>4, <2>5
      <4>3. p # "worker" /\ p # "monitor"
        BY <1>1
      <4>4. OperatorCloseOf(Item(p))' = c
        BY <4>1 DEF OperatorCloseOf
      <4>5. QED BY <3>1, <3>2, <4>2, <4>3, <4>4 DEF PlanOK
    <3>4. PlaceOK(p)'
      BY <1>7, <2>4, <2>5, <3>3 DEF PlaceOK
    <3>5. QED BY <1>1, <1>6, <1>7, <2>4, <2>5, <3>1, <3>4, SameTaskOK
  <2>6. QED BY <1>1, <1>2, <1>6, <2>3, <2>5, LoneStep
<1>10. CASE closes # {}
  <2>1. PICK close : close = Max(closes)
    OBVIOUS
  <2>2. PICK todo : todo = <<Task("submit", close), Task("confirm", close), Task("finish", i)>>
    BY Zenon
  <2>3. /\ decision' = NothingDecided
        /\ Raise(p) \/ Continue(p, todo)
    BY <1>1, <1>3, <1>4, <1>5, <1>10, <2>1, <2>2 DEF Orders, Operator, Closes
  <2>4. close \in Of("close_position", s)
    BY <1>5, <1>6, <1>10, <2>1, Owning DEF TableOK
  <2>5. close \in Intents /\ close \in Nat
        /\ intents[close].kind = "close_position" /\ intents[close].reservation = s
    <3>1. close \in Intents /\ intents[close].kind = "close_position"
          /\ intents[close].reservation = s
      BY <2>4 DEF Of
    <3>2. QED BY <1>6, <3>1, TableRows DEF TableOK
  <2>6. CASE Raise(p)
    BY <1>1, <1>2, <1>6, <2>3, <2>6, RaiseStep
  <2>7. CASE Continue(p, todo)
    <3>1. PICK a, b, d : /\ a = Task("submit", close) /\ b = Task("confirm", close)
                         /\ d = Task("finish", i)
      OBVIOUS
    <3>2. /\ a \in TaskType /\ b \in TaskType /\ d \in TaskType
          /\ a.name = "submit" /\ b.name = "confirm" /\ d.name = "finish"
          /\ a.intent = close /\ b.intent = close /\ d.intent = i
      BY <1>3, <2>5, <3>1 DEF Task, TaskType
    <3>3. /\ todo \in Seq(TaskType) /\ Range(todo) = {a, b, d} /\ Head(todo) = a
          /\ Len(todo) = 3 /\ todo[1] = a /\ todo[2] = b /\ todo[3] = d
          /\ todo # <<>>
      <4>1. todo = <<a, b, d>>
        BY <2>2, <3>1
      <4>0. a \in TaskType /\ b \in TaskType /\ d \in TaskType
        BY <3>2
      <4>2. /\ <<a, b, d>> \in Seq(TaskType) /\ Range(<<a, b, d>>) = {a, b, d}
            /\ Head(<<a, b, d>>) = a /\ Len(<<a, b, d>>) = 3
        <5>1. \A x, y, z \in TaskType :
                /\ <<x, y, z>> \in Seq(TaskType) /\ Range(<<x, y, z>>) = {x, y, z}
                /\ Head(<<x, y, z>>) = x /\ Len(<<x, y, z>>) = 3
          BY DEF Range
        <5>2. QED BY <4>0, <5>1
      <4>3. <<a, b, d>> # <<>>
        OBVIOUS
      <4>4. todo[1] = a /\ todo[2] = b /\ todo[3] = d
        BY <4>1
      <4>5. QED BY <4>1, <4>2, <4>3, <4>4
    <3>4. TaskOK(p, a) /\ TaskOK(p, b) /\ TaskOK(p, d)
      BY <1>1, <1>3, <1>7, <2>5, <3>2 DEF TaskOK, Names, EntryTasks
    <3>5. TodoOK(p, todo)
      <4>1. \A t \in {a, b, d} : intents[t.intent].reservation = s
        BY Zenon, <1>4, <2>5, <3>2
      <4>2. \A t \in {a, b, d} : t.name \notin {"drop", "inspect"}
        BY <3>2
      <4>3. \A t \in {a, b, d} : t.name \in {"depend", "confirm"} =>
               Head(todo) = Task("submit", t.intent)
        BY <3>1, <3>2, <3>3
      <4>4. \A t \in Range(todo) : t \in {a, b, d}
        BY <3>3
      <4>5. \A t \in Range(todo) : TaskOK(p, t)
        BY <3>4, <4>4
      <4>6. \A t \in Range(todo) : t.name \in {"depend", "confirm"} =>
               Sent(t) \/ Head(todo) = Task("submit", t.intent)
        BY <4>3, <4>4
      <4>7. \A t, u \in Range(todo) :
              /\ intents[t.intent].reservation = intents[u.intent].reservation
              /\ t.name \in {"drop", "inspect"} => u.name # "submit"
        <5>1. SUFFICES ASSUME NEW t \in Range(todo), NEW u \in Range(todo)
                       PROVE  /\ intents[t.intent].reservation = intents[u.intent].reservation
                              /\ t.name \notin {"drop", "inspect"}
          OBVIOUS
        <5>2. t \in {a, b, d} /\ u \in {a, b, d}
          BY <4>4
        <5>3. QED BY <4>1, <4>2, <5>2
      <4>8. QED BY <3>3, <4>5, <4>6, <4>7 DEF TodoOK
    <3>6. InTurn(todo)
      <4>1. DOMAIN todo = 1..3
        BY <3>3
      <4>2. \A k \in 1..3 : k > 1 => k = 2 \/ k = 3
        OBVIOUS
      <4>3. QED BY <3>2, <3>3, <4>1, <4>2 DEF InTurn
    <3>7. Head(todo).name = "submit"
      BY <3>2, <3>3
    <3>8. QED BY <1>1, <1>2, <1>6, <2>3, <2>7, <3>5, <3>6, <3>7, TasksStep
  <2>8. QED BY <2>3, <2>6, <2>7
<1>11. QED BY <1>9, <1>10

\* The request is planned.
LEMMA OrdersPlannedMoves ==
  ASSUME ExposureInv, OrdersPlanned
  PROVE  Advances
<1>1. PICK p \in Processes : p = "operator"
  BY DEF Processes
<1>2. /\ job[p].pc = "plan" /\ job[p].pc # "idle" /\ Head(job[p].todo).name = "order"
      /\ Continue(p, job[p].todo)
      /\ UNCHANGED <<Ledgers, intents, Clocks, exchangeVars>>
  BY <1>1 DEF OrdersPlanned, Operator, At
<1>3. /\ UNCHANGED <<account, book, requested, log, course, now, funds, intents>>
      /\ UNCHANGED <<orders, exited>>
      /\ UNCHANGED <<orders, exited, cancelling, stops, reported>>
      /\ decision' = decision /\ UNCHANGED <<attributed, runs, cursor>>
  BY <1>2 DEF Ledgers, riskVars, Clocks, exchangeVars
<1>4. /\ ExchangeOK /\ ExchangeOK' /\ attributed \subseteq Signals /\ runs \subseteq Signals
      /\ JobOK(p)
  BY <1>3, ExchangeStays DEF ExposureInv, RestOK, JobsOK
<1>5. TodoOK(p, job[p].todo) /\ InTurn(job[p].todo) /\ PlanOK(p)
  BY <1>1, <1>2, <1>4 DEF JobOK, PlaceOK
<1>6. job[p].command = OperatorCloseOf(Item(p)) /\ job[p].command \in DOMAIN log
  <2>1. ~HandOK(p)
    BY <1>2 DEF HandOK
  <2>2. QED BY <1>1, <1>5, <2>1 DEF PlanOK
<1>7. OperatorCloseOf(Head(job[p].todo).intent) \in DOMAIN log
  BY <1>6 DEF Item
<1>8. QED BY <1>1, <1>2, <1>3, <1>4, <1>5, <1>7, TasksStep

\* The operator where the closed PnL is asked for.
LEMMA AtAccount ==
  ASSUME ExposureInv, NEW p \in Processes, p = "operator",
         Doing(p, {"flat"}) \/ At(p, "attribute")
  PROVE  /\ job[p].pc # "idle" /\ job[p].todo # <<>> /\ job[p] \in Job
         /\ Item(p) \in Intents /\ Owned(p) \in Signals
         /\ intents[Item(p)].state # "planned"
         /\ Head(job[p].todo).name \in {"flat", "confirm"}
         /\ Head(job[p].todo).name = "flat" => Claim(Item(p), "position_closed_pending")
         /\ Head(job[p].todo).name = "confirm" => Claim(Item(p), "close_confirmed")
<1>1. CASE Doing(p, {"flat"})
  <2>1. PICK name : name = "flat"
    OBVIOUS
  <2>2. /\ job[p].pc # "idle" /\ job[p].todo # <<>> /\ job[p] \in Job
        /\ Head(job[p].todo).name = name /\ Head(job[p].todo).intent = Item(p)
        /\ TaskOK(p, Head(job[p].todo)) /\ Item(p) \in Intents /\ Owned(p) \in Signals
        /\ intents[Item(p)].kind = "entry"
    BY Zenon, <1>1, <2>1, AtOwn
  <2>3. intents[Item(p)].state # "planned" /\ Gone(intents[Item(p)].reservation)
    <3>1. "flat" \notin Tokens
      BY DEF Tokens
    <3>2. QED BY <2>1, <2>2, <3>1 DEF TaskOK
  <2>4. Claim(Item(p), "position_closed_pending")
    BY <2>2, <2>3 DEF Claim, EntryClaim
  <2>5. QED BY <2>1, <2>2, <2>3, <2>4
<1>2. CASE At(p, "attribute")
  <2>1. /\ job[p].pc # "idle" /\ JobOK(p) /\ job[p] \in Job /\ HandOK(p) /\ job[p].todo # <<>>
    BY Zenon, <1>2 DEF At, ExposureInv, JobsOK, JobOK, PlaceOK
  <2>2. /\ Head(job[p].todo).name \in {"reconcile", "confirm"}
        /\ intents[Item(p)].state # "planned"
        /\ Head(job[p].todo).name = "confirm" => Claim(Item(p), "close_confirmed")
    BY <1>2, <2>1 DEF HandOK, At
  <2>3. TaskOK(p, Head(job[p].todo)) /\ Item(p) \in Intents
    BY <2>1, <2>2, AtWork DEF Tokens
  <2>4. Head(job[p].todo).name = "confirm"
    BY <2>2, <2>3 DEF TaskOK, Names
  <2>5. Owned(p) \in Signals
    BY <2>3, RowType DEF RowsTyped, Owned, ExposureInv
  <2>6. QED BY <2>1, <2>2, <2>3, <2>4, <2>5
<1>3. QED BY <1>1, <1>2

\* The closed PnL of the position is accounted for, and its release handed over.
LEMMA AccountsMoves ==
  ASSUME ExposureInv, Accounts
  PROVE  Advances
<1>1. PICK p \in Processes : p = "operator"
  BY DEF Processes
<1>2. Doing(p, {"flat"}) \/ At(p, "attribute")
  BY <1>1 DEF Accounts, Operator
<1>3. /\ job[p].pc # "idle" /\ job[p].todo # <<>> /\ job[p] \in Job
      /\ Head(job[p].todo).name \in {"flat", "confirm"}
      /\ intents[Item(p)].state # "planned"
  BY <1>1, <1>2, AtAccount
<1>4. PICK i \in Intents : i = Item(p)
  BY <1>1, <1>2, AtAccount
<1>5. PICK s \in Signals : s = Owned(p)
  BY <1>1, <1>2, AtAccount
<1>6. /\ UNCHANGED <<account, book, requested, log, course, now, funds, intents>>
      /\ UNCHANGED <<orders, exited>>
      /\ UNCHANGED <<orders, exited, cancelling, stops, reported>>
      /\ decision' = decision /\ UNCHANGED <<runs, cursor>>
  BY DEF Accounts, riskVars, Clocks, exchangeVars
<1>7. /\ ExchangeOK /\ ExchangeOK' /\ TableOK /\ NothingSent
      /\ attributed \subseteq Signals /\ runs \subseteq Signals /\ cursor \in 0..Len(Arrivals)
  BY <1>6, ExchangeStays DEF ExposureInv, RestOK, NothingSent, Intents
<1>8. PICK name : name = Head(job[p].todo).name /\ name \in {"flat", "confirm"}
  BY <1>3
<1>9. PICK view \in States : /\ view = IF name = "flat" THEN "position_closed_pending"
                                                        ELSE "close_confirmed"
                             /\ view \in {"position_closed_pending", "close_confirmed"}
  BY DEF States
<1>10. Claim(i, view)
  BY <1>1, <1>2, <1>4, <1>8, <1>9, AtAccount
<1>11. /\ attributed' = attributed \/ attributed' = attributed \cup {s}
       /\ Raise(p) \/ Become(p, [Idle EXCEPT !.pc = "sync", !.todo = job[p].todo, !.view = view])
  BY <1>1, <1>5, <1>8, <1>9 DEF Accounts, Operator
<1>12. attributed' \subseteq Signals /\ runs' \subseteq Signals /\ cursor' \in 0..Len(Arrivals)
  BY <1>6, <1>7, <1>11 DEF Arrivals
<1>13. CASE Raise(p)
  <2>1. Become(p, Idle)
    BY <1>13 DEF Raise
  <2>2. job'[p] = Idle => Idle \in Job' /\ JobOK(p)'
    BY IdleOK, IdleType
  <2>3. QED BY <1>6, <1>7, <1>12, <2>1, <2>2, LoneStep
<1>14. CASE Become(p, [Idle EXCEPT !.pc = "sync", !.todo = job[p].todo, !.view = view])
  <2>1. PICK new : /\ new = [Idle EXCEPT !.pc = "sync", !.todo = job[p].todo, !.view = view]
                   /\ Become(p, new)
    BY <1>14
  <2>2. new \in Job /\ new.pc = "sync" /\ new.todo = job[p].todo /\ new.view = view
    <3>1. job[p].todo \in Seq(TaskType)
      BY JobType DEF ExposureInv
    <3>2. \A j \in Job, todo \in Seq(TaskType) :
            LET x == [j EXCEPT !.pc = "sync", !.todo = todo, !.view = view]
            IN  x \in Job /\ x.pc = "sync" /\ x.todo = todo /\ x.view = view
      BY Zenon DEF Job, TaskType
    <3>3. QED BY Zenon, <2>1, <3>1, <3>2, IdleType
  <2>3. ASSUME job'[p] = new, Progress, TableOK', EvidenceOK'
        PROVE  new \in Job' /\ JobOK(p)'
    <3>1. new \in Job'
      BY <1>6, <2>2 DEF Job
    <3>2. Claim(i, view)'
      BY <1>6, <1>7, <1>10, <2>3, ClaimStays
    <3>3. intents'[i].state # "planned"
      BY <1>3, <1>4, <1>6
    <3>4. job'[p].pc = "sync" /\ job'[p].todo = job[p].todo /\ job'[p].view = view
      BY <2>2, <2>3
    <3>5. HandOK(p)'
      BY <1>4, <1>8, <1>9, <3>2, <3>3, <3>4, HandOver
    <3>6. PlaceOK(p)'
      BY <1>3, <3>4, <3>5 DEF PlaceOK
    <3>7. QED BY <1>1, <1>3, <1>7, <2>3, <3>1, <3>4, <3>6, SameTaskOK
  <2>4. QED BY <1>6, <1>7, <1>12, <2>1, <2>3, LoneStep
<1>15. QED BY <1>11, <1>13, <1>14

\* The tasks for a position that was found flat.
FlatTodo(i, closes) ==
  <<Task("inspect", i), Task("request", i)>>
    \o Tasks("drop", Selected(closes)) \o <<Task("flat", i)>>

\* The tasks for a flat position are well formed and in the order they must be done in.
LEMMA FlatTasks ==
  ASSUME TableOK, NEW i \in Intents, NEW closes \in SUBSET Intents, NEW todo,
         todo = FlatTodo(i, closes)
  PROVE  /\ todo \in Seq(TaskType) /\ todo # <<>> /\ Head(todo) = Task("inspect", i)
         /\ \A t \in Range(todo) :
              \/ t \in {Task("inspect", i), Task("request", i), Task("flat", i)}
              \/ \E c \in closes : t = Task("drop", c)
         /\ InTurn(todo)
<1>1. i \in Nat
  BY TableRows DEF TableOK
<1>2. PICK a, b, d : a = Task("inspect", i) /\ b = Task("request", i) /\ d = Task("flat", i)
  OBVIOUS
<1>3. /\ a \in TaskType /\ b \in TaskType /\ d \in TaskType
      /\ a.name = "inspect" /\ b.name = "request" /\ d.name = "flat"
  BY <1>1, <1>2 DEF Task, TaskType
<1>4. PICK drops : drops = Tasks("drop", Selected(closes))
  OBVIOUS
<1>5. /\ drops \in Seq(TaskType)
      /\ \A t \in Range(drops) : \E c \in closes : t = Task("drop", c)
  BY <1>4, TasksSelected
<1>6. PICK first, last : first = <<a, b>> /\ last = <<d>>
  BY Zenon
<1>7. /\ first \in Seq(TaskType) /\ Range(first) = {a, b} /\ Len(first) = 2 /\ Head(first) = a
      /\ last \in Seq(TaskType) /\ Range(last) = {d} /\ Len(last) = 1
  <2>1. /\ <<a, b>> \in Seq(TaskType) /\ Range(<<a, b>>) = {a, b}
        /\ Head(<<a, b>>) = a /\ Len(<<a, b>>) = 2
    <3>1. \A x, y \in TaskType : /\ <<x, y>> \in Seq(TaskType) /\ Range(<<x, y>>) = {x, y}
                                  /\ Head(<<x, y>>) = x /\ Len(<<x, y>>) = 2
      BY DEF Range
    <3>2. QED BY <1>3, <3>1
  <2>2. <<d>> \in Seq(TaskType) /\ Range(<<d>>) = {d} /\ Len(<<d>>) = 1
    BY Zenon, <1>3, ShortSeqs
  <2>3. QED BY <1>6, <2>1, <2>2
<1>8. PICK mid : mid = first \o drops
  BY Zenon
<1>9. todo = mid \o last
  BY <1>2, <1>4, <1>6, <1>8 DEF FlatTodo
<1>10. mid \in Seq(TaskType) /\ Range(mid) \subseteq Range(first) \cup Range(drops)
  BY <1>5, <1>7, <1>8, RangeConcat
<1>11. todo \in Seq(TaskType) /\ Range(todo) \subseteq Range(mid) \cup Range(last)
  <2>1. mid \in Seq(TaskType) /\ last \in Seq(TaskType)
    BY <1>7, <1>10
  <2>2. mid \o last \in Seq(TaskType) /\ Range(mid \o last) \subseteq Range(mid) \cup Range(last)
    BY <2>1, RangeConcat
  <2>3. QED BY <1>9, <2>2
<1>12. ASSUME NEW t \in Range(todo)
       PROVE  t \in {a, b, d} \/ \E c \in closes : t = Task("drop", c)
  <2>1. t \in Range(first) \/ t \in Range(drops) \/ t \in Range(last)
    BY <1>10, <1>11
  <2>2. QED BY <1>5, <1>7, <2>1
<1>13. todo # <<>> /\ Head(todo) = a
  <2>1. /\ Len(mid) = 2 + Len(drops) /\ Len(todo) = Len(mid) + 1 /\ Len(drops) \in Nat
        /\ mid[1] = first[1] /\ todo[1] = mid[1]
    <3>1. Len(mid) = Len(first) + Len(drops) /\ Len(drops) \in Nat
      BY Zenon, <1>5, <1>7, <1>8, ConcatProperties, LenProperties
    <3>2. Len(todo) = Len(mid) + Len(last)
      BY <1>7, <1>9, <1>10, ConcatProperties
    <3>3. 1 \in 1..Len(first) /\ 1 \in 1..Len(mid)
      BY <1>7, <3>1
    <3>4. mid[1] = first[1]
      <4>1. mid[1] = (first \o drops)[1] /\ 1 <= Len(first)
        BY <1>8, <3>3
      <4>2. QED BY Zenon, <1>5, <1>7, <3>1, <3>3, <4>1, ConcatProperties
    <3>5. todo[1] = mid[1]
      BY <1>7, <1>9, <1>10, <3>2, <3>3, ConcatProperties
    <3>6. QED BY <1>7, <3>1, <3>2, <3>4, <3>5
  <2>2. first[1] = a
    BY <1>6
  <2>3. todo # <<>>
    BY <2>1
  <2>4. Head(todo) = todo[1]
    BY <1>11, <2>3, HeadTail
  <2>5. QED BY <2>1, <2>2, <2>3, <2>4
<1>14. InTurn(todo)
  <2>1. SUFFICES ASSUME NEW k \in DOMAIN todo PROVE todo[k].name \notin {"order", "finish"}
    BY DEF InTurn
  <2>2. todo[k] \in Range(todo)
    BY DEF Range
  <2>3. todo[k] \in {a, b, d} \/ \E c \in closes : todo[k] = Task("drop", c)
    BY <1>12, <2>2
  <2>4. \A c : Task("drop", c).name = "drop"
    BY DEF Task
  <2>5. QED BY <1>3, <2>3, <2>4
<1>15. QED BY <1>2, <1>11, <1>12, <1>13, <1>14

\* The operator's proof: what is read, and what it proves.
LEMMA AtProof ==
  ASSUME ExposureInv, NEW p \in Processes, p = "operator", At(p, "prove")
  PROVE  LET i       == Item(p)
             s       == Owned(p)
             verdict == EntryVerdict(s, job[p].known, job[p].seen)
         IN  /\ job[p].pc # "idle" /\ job[p].todo # <<>> /\ job[p] \in Job
             /\ Head(job[p].todo) = Task("inspect", i) /\ TaskOK(p, Head(job[p].todo))
             /\ i \in Intents /\ i \in Nat /\ s \in Signals
             /\ intents[i].kind = "entry" /\ intents[i].reservation = s
             /\ SeenOK(orders["entry"][s], job[p].seen) /\ SeenEntry(job[p].seen)
             /\ verdict \in States \ {"planned"} /\ Claim(i, verdict)
             /\ verdict = "filled" =>
                  job[p].seen.filled = orders["entry"][s].filled /\ Executed(s)
<1>1. /\ job[p].pc = "prove" /\ job[p].pc # "idle"
      /\ JobOK(p) /\ job[p] \in Job /\ job[p].todo # <<>>
  BY Zenon DEF At, ExposureInv, JobsOK, JobOK, PlaceOK
<1>2. PICK i : i = job[p].target
  OBVIOUS
<1>3. WalkOK(p) /\ i \in Intents /\ intents[i].reservation \in Signals
  BY <1>1, <1>2, WalkFacts
<1>4. Head(job[p].todo).name = "inspect" /\ i = Item(p)
  BY <1>1, <1>2, <1>3 DEF WalkOK
<1>5. Head(job[p].todo) = Task("inspect", Item(p)) /\ TaskOK(p, Head(job[p].todo))
  BY <1>1, <1>4, AtWork
<1>6. intents[i].kind = "entry"
  BY <1>4, <1>5 DEF TaskOK, Task, Tokens, EntryTasks
<1>7. PICK s \in Signals : s = intents[i].reservation /\ s = Owned(p)
  BY <1>3, <1>4 DEF Owned
<1>8. PICK seen, known : seen = job[p].seen /\ known = job[p].known
  OBVIOUS
<1>9. SeenOK(orders["entry"][s], seen) /\ SeenEntry(seen)
  BY Zenon, <1>1, <1>2, <1>6, <1>7, <1>8, WalkFacts
<1>10. PICK verdict : verdict = EntryVerdict(s, known, seen)
  OBVIOUS
<1>11. /\ verdict \in States \ {"planned"} /\ EntryClaim(s, verdict)
       /\ verdict = "filled" => seen.filled = orders["entry"][s].filled /\ Executed(s)
  BY <1>9, <1>10, EntryVerdictClaim
<1>12. Claim(i, verdict)
  BY <1>6, <1>7, <1>11 DEF Claim
<1>13. i \in Nat
  BY <1>3, TableRows DEF ExposureInv, TableOK
<1>14. QED BY <1>1, <1>3, <1>4, <1>5, <1>6, <1>7, <1>8, <1>9, <1>10, <1>11, <1>12, <1>13

\* What the operator hands over after its proof.
SyncJob(view, todo) == [Idle EXCEPT !.pc = "sync", !.view = view, !.todo = todo]

\* The operator is in order when it goes on with a row that its proof settled.
LEMMA ProvedOK ==
  ASSUME ExchangeOK', NEW p \in Processes, p = "operator", NEW i, NEW todo, todo # <<>>,
         NEW view \in {"filled", "position_closed_pending"},
         job'[p] = SyncJob(view, todo),
         TodoOK(p, todo)', InTurn(todo)', Head(todo) = Task("inspect", i),
         Claim(i, view)', intents'[i].state # "planned"
  PROVE  job'[p] \in Job' /\ JobOK(p)'
<1>1. todo \in Seq(TaskType)
  BY DEF TodoOK
<1>2. view \in States
  BY DEF States
<1>3. job'[p] \in Job'
  <2>1. \A j \in Job' : [j EXCEPT !.pc = "sync"] \in Job'
    BY DEF Job
  <2>2. \A j \in Job' : [j EXCEPT !.view = view] \in Job'
    BY <1>2 DEF Job
  <2>3. \A j \in Job' : [j EXCEPT !.todo = todo] \in Job'
    BY <1>1 DEF Job, TaskType
  <2>4. job'[p] = [[[Idle EXCEPT !.pc = "sync"] EXCEPT !.view = view] EXCEPT !.todo = todo]
    BY DEF SyncJob
  <2>5. QED BY Zenon, <2>1, <2>2, <2>3, <2>4, IdleType
<1>4. job'[p].pc = "sync" /\ job'[p].view = view /\ job'[p].todo = todo
  BY DEF Idle, SyncJob
<1>5. Head(todo).name = "inspect" /\ Head(todo).intent = i
  BY DEF Task
<1>6. Item(p)' = i
  BY <1>4, <1>5 DEF Item
<1>7. HandOK(p)'
  BY <1>2, <1>4, <1>5, <1>6 DEF HandOK
<1>8. PlaceOK(p)'
  BY <1>4, <1>7 DEF PlaceOK
<1>9. QED BY <1>3, <1>4, <1>8 DEF JobOK

\* A proven fill is written, and handed over.
LEMMA ProvesFillMoves ==
  ASSUME ExposureInv, NEW p \in Processes, p = "operator", At(p, "prove"),
         NEW i \in Intents, i = Item(p), NEW s \in Signals, s = Owned(p),
         EntryVerdict(s, job[p].known, job[p].seen) = "filled",
         intents' = [intents EXCEPT ![i].state = "filled", ![i].filled = job[p].seen.filled],
         Become(p, [[Idle EXCEPT !.pc = "sync", !.view = "filled"] EXCEPT !.todo = job[p].todo]),
         UNCHANGED <<Ledgers, Clocks, exchangeVars>>
  PROVE  Advances
<1>1. PICK seen : seen = job[p].seen
  OBVIOUS
<1>2. PICK todo : todo = job[p].todo
  OBVIOUS
<1>3. /\ job[p].pc # "idle" /\ todo # <<>> /\ job[p] \in Job
      /\ Head(todo) = Task("inspect", i)
      /\ intents[i].kind = "entry" /\ intents[i].reservation = s
      /\ SeenOK(orders["entry"][s], seen) /\ SeenEntry(seen)
      /\ seen.filled = orders["entry"][s].filled /\ Executed(s)
  BY <1>1, <1>2, AtProof
<1>4. /\ TableOK /\ EvidenceOK /\ ExchangeOK /\ RowsTyped /\ RowOK(i) /\ JobOK(p)
  BY RowType DEF ExposureInv, EvidenceOK, JobsOK
<1>5. PICK q \in Quantities : q = seen.filled /\ q \in Nat /\ q = orders["entry"][s].filled
  BY <1>3, SeenType
<1>6. /\ intents' = [k \in Intents |-> intents'[k]]
      /\ intents'[i] = [intents[i] EXCEPT !.state = "filled", !.filled = q]
      /\ \A k \in Intents \ {i} : intents'[k] = intents[k]
      /\ Intents' = Intents
  <2>1. intents = [k \in Intents |-> intents[k]]
    BY <1>4, SameTable
  <2>2. intents' = [intents EXCEPT ![i].state = "filled", ![i].filled = q]
    BY <1>1, <1>5
  <2>3. DOMAIN intents' = DOMAIN intents
    BY <2>2
  <2>4. intents'[i] = [intents[i] EXCEPT !.state = "filled", !.filled = q]
    BY <2>2 DEF Intents
  <2>5. \A k \in Intents \ {i} : intents'[k] = intents[k]
    BY <2>2 DEF Intents
  <2>6. intents' = [k \in Intents |-> intents'[k]]
    BY Zenon, <2>1, <2>2 DEF Intents
  <2>7. QED BY <2>3, <2>4, <2>5, <2>6 DEF Intents
<1>7. Written(i)
  <2>1. intents[i].filled <= orders["entry"][s].filled
    BY <1>3, <1>4 DEF RowOK
  <2>2. /\ intents[i].filled <= q
        /\ q <= orders["entry"][intents[i].reservation].filled
        /\ Executed(intents[i].reservation)
    BY <1>3, <1>5, <2>1
  <2>3. QED BY Zenon, <1>3, <1>4, <1>6, <2>2, FillWritten
<1>8. /\ UNCHANGED <<account, book, requested, log, course, now, funds, orders, exited>>
      /\ UNCHANGED <<orders, exited, cancelling, stops, reported>>
      /\ decision' = decision /\ UNCHANGED <<attributed, runs, cursor>>
  BY DEF Ledgers, riskVars, Clocks, exchangeVars
<1>9. ExchangeOK'
  BY <1>4, <1>8, ExchangeStays
<1>10. PICK new : /\ Become(p, new)
                  /\ new = SyncJob("filled", todo)
  BY <1>2 DEF SyncJob
<1>11. intents'[i].state = "filled" /\ intents'[i].attempted = intents[i].attempted
       /\ intents'[i].kind = "entry" /\ intents'[i].reservation = s
  <2>1. PICK r \in Intent : r = intents[i]
    BY <1>4 DEF RowsTyped
  <2>2. \A x \in Intent : LET y == [x EXCEPT !.state = "filled", !.filled = q]
                         IN  /\ y.state = "filled" /\ y.attempted = x.attempted
                             /\ y.kind = x.kind /\ y.reservation = x.reservation
    BY DEF Intent
  <2>3. PICK y : y = [r EXCEPT !.state = "filled", !.filled = q]
    OBVIOUS
  <2>4. /\ y.state = "filled" /\ y.attempted = r.attempted
        /\ y.kind = r.kind /\ y.reservation = r.reservation
    BY <2>2, <2>3
  <2>5. intents'[i] = y
    BY <1>6, <2>1, <2>3
  <2>6. QED BY <1>3, <2>1, <2>4, <2>5
<1>12. NothingSent
  BY Zenon, <1>6, <1>11 DEF NothingSent
<1>13. ASSUME job'[p] = new, Progress, TableOK', EvidenceOK' PROVE new \in Job' /\ JobOK(p)'
  <2>1. PICK view \in {"filled", "position_closed_pending"} : view = "filled"
    OBVIOUS
  <2>2. TodoOK(p, todo) /\ InTurn(todo)
    BY <1>2, <1>4 DEF JobOK
  <2>3. TodoOK(p, todo)'
    BY <1>4, <1>9, <1>12, <1>13, <2>2, TodoStays
  <2>4. InTurn(todo)'
    BY <2>2 DEF InTurn
  <2>5. Claim(i, view)'
    <3>1. Claim(i, view)
      BY <1>3, <2>1 DEF Claim, EntryClaim
    <3>2. QED BY <1>3, <1>4, <1>9, <1>13, <3>1, ClaimStays
  <2>6. intents'[i].state # "planned"
    BY <1>11
  <2>7. job'[p] = SyncJob(view, todo)
    BY <1>10, <1>13, <2>1
  <2>8. QED BY Zenon, <1>3, <1>9, <1>13, <2>3, <2>4, <2>5, <2>6, <2>7, ProvedOK
<1>14. \A k \in Intents : intents'[k] = intents[k] \/ Written(k)
  BY Zenon, <1>6, <1>7
<1>15. QED BY Zenon, <1>6, <1>8, <1>9, <1>10, <1>13, <1>14, WriteStep

\* A position that is flat is written down as closed, and its plans are dropped.
LEMMA ProvesFlatMoves ==
  ASSUME ExposureInv, NEW p \in Processes, p = "operator", At(p, "prove"),
         NEW i \in Intents, i = Item(p), NEW s \in Signals, s = Owned(p),
         EntryVerdict(s, job[p].known, job[p].seen) = "position_closed_pending",
         intents' = InState(intents, i, "position_closed_pending"),
         NEW todo,
         todo = FlatTodo(i, Of("close_position", s)),
         Become(p, [[Idle EXCEPT !.pc = "sync", !.view = "filled"] EXCEPT !.todo = todo]),
         UNCHANGED <<Ledgers, Clocks, exchangeVars>>
  PROVE  Advances
<1>1. PICK state \in States \ {"planned"} : state = "position_closed_pending"
  BY DEF States
<1>2. /\ job[p].pc # "idle" /\ job[p].todo # <<>> /\ job[p] \in Job
      /\ Head(job[p].todo) = Task("inspect", i) /\ TaskOK(p, Head(job[p].todo))
      /\ intents[i].kind = "entry" /\ intents[i].reservation = s /\ i \in Nat
      /\ Claim(i, state)
  BY <1>1, AtProof
<1>3. /\ TableOK /\ EvidenceOK /\ ExchangeOK /\ RowsTyped
      /\ SeenOK(orders["entry"][s], job[p].seen) /\ SeenEntry(job[p].seen)
  BY RowType, AtProof DEF ExposureInv
<1>4. PICK closes : closes = Of("close_position", s) /\ closes \in SUBSET Intents
  BY DEF Of
<1>5. /\ \A c \in closes : intents[c].kind = "close_position" /\ ~intents[c].attempted
      /\ \A c \in closes : intents[c].reservation = s /\ c \in Nat
  <2>1. \A c \in closes : intents[c].kind = "close_position" /\ intents[c].reservation = s
    BY <1>4 DEF Of
  <2>2. \A c \in Of("close_position", s) : ~intents[c].attempted
    BY <1>2 DEF TaskOK, Task, Tokens
  <2>3. \A c \in closes : c \in Nat
    BY <1>3, <1>4, TableRows DEF TableOK
  <2>4. QED BY <1>4, <2>1, <2>2, <2>3
<1>6. Gone(s)
  BY <1>1, <1>2 DEF Claim, EntryClaim
<1>7. /\ todo \in Seq(TaskType) /\ todo # <<>> /\ Head(todo) = Task("inspect", i)
      /\ \A t \in Range(todo) :
           \/ t \in {Task("inspect", i), Task("request", i), Task("flat", i)}
           \/ \E c \in closes : t = Task("drop", c)
      /\ InTurn(todo)
  <2>1. todo = FlatTodo(i, closes)
    BY <1>4
  <2>2. QED BY <1>3, <1>4, <2>1, FlatTasks
<1>8. PICK table : table = InState(intents, i, state) /\ intents' = table
  BY <1>1
<1>9. /\ table = [k \in Intents |-> table[k]]
      /\ table[i] = [intents[i] EXCEPT !.state = state]
      /\ \A k \in Intents \ {i} : table[k] = intents[k]
      /\ table[i].state = state
      /\ \A k \in Intents : table[k].attempted = intents[k].attempted
  BY <1>3, <1>8, OneRow
<1>10. /\ intents' = [k \in Intents |-> intents'[k]]
       /\ intents'[i] = [intents[i] EXCEPT !.state = state]
       /\ \A k \in Intents \ {i} : intents'[k] = intents[k]
       /\ intents'[i].state = state
       /\ \A k \in Intents : intents'[k].attempted = intents[k].attempted
       /\ Intents' = Intents
  BY <1>8, <1>9 DEF Intents
<1>11. Written(i)
  BY <1>1, <1>2, <1>3, <1>10, StateWritten
<1>12. /\ UNCHANGED <<account, book, requested, log, course, now, funds, orders, exited>>
       /\ UNCHANGED <<orders, exited, cancelling, stops, reported>>
       /\ decision' = decision /\ UNCHANGED <<attributed, runs, cursor>>
  BY DEF Ledgers, riskVars, Clocks, exchangeVars
<1>13. ExchangeOK'
  BY <1>3, <1>12, ExchangeStays
<1>14. PICK new : /\ Become(p, new)
                  /\ new = SyncJob("filled", todo)
  BY DEF SyncJob
<1>15. NothingSent
  BY <1>10 DEF NothingSent
<1>16. ASSUME job'[p] = new, Progress, TableOK', EvidenceOK' PROVE new \in Job' /\ JobOK(p)'
  <2>1. /\ intents'[i].kind = "entry" /\ intents'[i].reservation = s /\ i \in Intents'
        /\ intents'[i].state # "planned"
    BY <1>1, <1>2, <1>10, <1>16 DEF Progress, MovesOn
  <2>2. /\ \A c \in closes : c \in Intents' /\ intents'[c].kind = "close_position"
        /\ \A c \in closes : intents'[c].reservation = s /\ ~intents'[c].attempted
    BY <1>4, <1>5, <1>10, <1>16 DEF Progress, MovesOn
  <2>3. Gone(s)'
    BY <1>3, <1>6, <1>13, <1>16, FactsStay
  <2>4. \A c \in Of("close_position", s)' : ~intents'[c].attempted
    <3>1. SUFFICES ASSUME NEW c \in Of("close_position", s)' PROVE c \in closes
      BY <2>2
    <3>2. c \in Intents /\ intents'[c].kind = "close_position" /\ intents'[c].reservation = s
      BY <1>10 DEF Of
    <3>3. intents[c].kind = "close_position" /\ intents[c].reservation = s
      BY <1>16, <3>2 DEF Progress, MovesOn
    <3>4. QED BY <1>4, <3>2, <3>3 DEF Of
  <2>5. TaskOK(p, Task("inspect", i))'
    BY Zenon, <1>2, <2>1, <2>4 DEF TaskOK, Task, TaskType, Names, Tokens, EntryTasks
  <2>6. TaskOK(p, Task("request", i))'
    BY <1>2, <2>1 DEF TaskOK, Task, TaskType, Names, Tokens, EntryTasks
  <2>7. TaskOK(p, Task("flat", i))'
    BY Zenon, <1>2, <2>1, <2>3 DEF TaskOK, Task, TaskType, Names, Tokens, EntryTasks
  <2>8. \A c \in closes : TaskOK(p, Task("drop", c))'
    <3>1. SUFFICES ASSUME NEW c \in closes PROVE TaskOK(p, Task("drop", c))'
      OBVIOUS
    <3>2. /\ c \in Intents' /\ intents'[c].kind = "close_position" /\ ~intents'[c].attempted
          /\ c \in Nat
      BY <1>5, <2>2
    <3>3. QED BY <3>2 DEF TaskOK, Task, TaskType, Names, Tokens, EntryTasks
  <2>9. ASSUME NEW t \in Range(todo)
        PROVE  /\ TaskOK(p, t)' /\ intents'[t.intent].reservation = s
               /\ t.name \in {"inspect", "request", "flat", "drop"}
    <3>1. CASE t \in {Task("inspect", i), Task("request", i), Task("flat", i)}
      <4>1. t.intent = i /\ t.name \in {"inspect", "request", "flat"}
        BY <3>1 DEF Task
      <4>2. QED BY <2>1, <2>5, <2>6, <2>7, <3>1, <4>1
    <3>2. CASE \E c \in closes : t = Task("drop", c)
      <4>1. PICK c \in closes : t = Task("drop", c)
        BY <3>2
      <4>2. t.intent = c /\ t.name = "drop"
        BY <4>1 DEF Task
      <4>3. QED BY <2>2, <2>8, <4>1, <4>2
    <3>3. QED BY <1>7, <3>1, <3>2
  <2>10. TodoOK(p, todo)'
    BY <1>7, <2>9 DEF TodoOK
  <2>11. InTurn(todo)'
    BY <1>7 DEF InTurn
  <2>12. PICK view \in {"filled", "position_closed_pending"} : view = "filled"
    OBVIOUS
  <2>13. Claim(i, view)'
    <3>1. Executed(s)'
      BY <2>3 DEF Gone, Spent
    <3>2. QED BY <2>1, <2>12, <3>1 DEF Claim, EntryClaim
  <2>14. job'[p] = SyncJob(view, todo)
    BY <1>14, <1>16, <2>12
  <2>15. job'[p] \in Job' /\ JobOK(p)'
    <3>1. todo # <<>> /\ Head(todo) = Task("inspect", i)
      BY <1>7
    <3>2. intents'[i].state # "planned"
      BY <2>1
    <3>3. QED BY <1>13, <2>10, <2>11, <2>13, <2>14, <3>1, <3>2, ProvedOK
  <2>16. QED BY <1>16, <2>15
<1>17. \A k \in Intents : intents'[k] = intents[k] \/ Written(k)
  BY <1>10, <1>11
<1>18. QED BY <1>10, <1>12, <1>13, <1>14, <1>16, <1>17, WriteStep

\* What the operator's proof of an entry writes is proved.
LEMMA ProvesMoves ==
  ASSUME ExposureInv, Proves
  PROVE  Advances
<1>1. PICK p \in Processes : p = "operator"
  BY DEF Processes
<1>2. At(p, "prove") /\ UNCHANGED <<Ledgers, Clocks, exchangeVars>>
  BY <1>1 DEF Proves, Operator
<1>3. PICK i \in Intents : i = Item(p)
  BY <1>1, <1>2, AtProof
<1>4. PICK s \in Signals : s = Owned(p)
  BY <1>1, <1>2, AtProof
<1>5. PICK verdict \in States \ {"planned"} :
        verdict = EntryVerdict(s, job[p].known, job[p].seen) /\ Claim(i, verdict)
  BY <1>1, <1>2, <1>3, <1>4, AtProof
<1>6. CASE verdict = "filled"
  <2>1. /\ intents' = [intents EXCEPT ![i].state = "filled", ![i].filled = job[p].seen.filled]
        /\ Become(p, [[Idle EXCEPT !.pc = "sync", !.view = "filled"] EXCEPT !.todo = job[p].todo])
    BY <1>1, <1>3, <1>4, <1>5, <1>6 DEF Proves, Operator
  <2>2. QED BY Zenon, <1>1, <1>2, <1>3, <1>4, <1>5, <1>6, <2>1, ProvesFillMoves
<1>7. CASE verdict = "position_closed_pending"
  <2>1. PICK todo :
          todo = FlatTodo(i, Of("close_position", s))
    OBVIOUS
  <2>2. /\ intents' = InState(intents, i, "position_closed_pending")
        /\ Become(p, [[Idle EXCEPT !.pc = "sync", !.view = "filled"] EXCEPT !.todo = todo])
    BY <1>1, <1>3, <1>4, <1>5, <1>7, <2>1 DEF Proves, Operator, Closes, FlatTodo
  <2>3. QED BY Zenon, <1>1, <1>2, <1>3, <1>4, <1>5, <1>7, <2>1, <2>2, ProvesFlatMoves
<1>8. CASE verdict \notin {"filled", "position_closed_pending"}
  <2>1. Raise(p)
    BY <1>1, <1>3, <1>4, <1>5, <1>8 DEF Proves, Operator
  <2>2. PICK table : table = InState(intents, i, verdict) /\ intents' = table
    BY <1>1, <1>3, <1>4, <1>5, <1>8 DEF Proves, Operator
  <2>3. /\ TableOK /\ EvidenceOK /\ ExchangeOK
    BY DEF ExposureInv
  <2>4. /\ table = [k \in Intents |-> table[k]]
        /\ table[i] = [intents[i] EXCEPT !.state = verdict]
        /\ \A k \in Intents \ {i} : table[k] = intents[k]
    BY <2>2, <2>3, OneRow
  <2>5. /\ intents' = [k \in Intents |-> intents'[k]]
        /\ intents'[i] = [intents[i] EXCEPT !.state = verdict]
        /\ \A k \in Intents \ {i} : intents'[k] = intents[k]
    BY <2>2, <2>4
  <2>6. Written(i)
    BY <1>5, <2>3, <2>5, StateWritten
  <2>7. /\ UNCHANGED <<account, book, requested, log, course, now, funds, orders, exited>>
        /\ UNCHANGED <<orders, exited, cancelling, stops, reported>>
        /\ decision' = decision /\ UNCHANGED <<attributed, runs, cursor>>
    BY <1>2 DEF Ledgers, riskVars, Clocks, exchangeVars
  <2>8. ExchangeOK'
    BY <2>3, <2>7, ExchangeStays
  <2>9. Become(p, Idle)
    BY <2>1 DEF Raise
  <2>10. job'[p] = Idle => Idle \in Job' /\ JobOK(p)'
    BY IdleOK, IdleType
  <2>11. \A k \in Intents : intents'[k] = intents[k] \/ Written(k)
    BY <2>5, <2>6
  <2>12. QED BY <1>1, <2>5, <2>7, <2>8, <2>9, <2>10, <2>11, WriteStep
<1>9. QED BY <1>6, <1>7, <1>8

\* The first tasks of the command: the close is proved if none was sent, then asked for.
FirstTodo(i, proves) ==
  (IF proves THEN <<Task("inspect", i)>> ELSE <<>>) \o <<Task("request", i), Task("order", i)>>

\* The first tasks of the command are well formed and in the order they must be done in.
LEMMA FirstTasks ==
  ASSUME NEW p, p = "operator", NEW i \in Intents, i \in Nat, NEW proves, NEW todo,
         todo = FirstTodo(i, proves), intents[i].kind = "entry",
         proves => \A c \in Of("close_position", intents[i].reservation) : ~intents[c].attempted
  PROVE  /\ TodoOK(p, todo) /\ InTurn(todo) /\ todo # <<>>
         /\ Head(todo).name \in {"inspect", "request"}
         /\ \A t \in Range(todo) : t.intent = i
         /\ proves => Head(todo) = Task("inspect", i)
<1>1. PICK a, b, d : a = Task("inspect", i) /\ b = Task("request", i) /\ d = Task("order", i)
  OBVIOUS
<1>2. /\ a \in TaskType /\ b \in TaskType /\ d \in TaskType
      /\ a.name = "inspect" /\ b.name = "request" /\ d.name = "order"
      /\ a.intent = i /\ b.intent = i /\ d.intent = i
  BY <1>1 DEF Task, TaskType
<1>3. TaskOK(p, b) /\ TaskOK(p, d) /\ (proves => TaskOK(p, a))
  BY <1>2 DEF TaskOK, Names, EntryTasks, Tokens
<1>4. CASE proves
  <2>1. PICK f, g : f = <<a>> /\ g = <<b, d>> /\ todo = f \o g
    BY Zenon, <1>1, <1>4 DEF FirstTodo
  <2>2. f \in Seq(TaskType) /\ g \in Seq(TaskType) /\ Len(f) = 1 /\ Len(g) = 2
    BY <1>2, <2>1
  <2>3. f[1] = a /\ g[1] = b /\ g[2] = d
    BY <2>1
  <2>4. todo \in Seq(TaskType) /\ Len(todo) = 3 /\ DOMAIN todo = 1..3
    BY <2>1, <2>2, ConcatProperties, LenProperties
  <2>5. todo[1] = a /\ todo[2] = b /\ todo[3] = d
    <3>1. /\ \A k \in 1..3 : k <= 1 => todo[k] = f[k]
          /\ \A k \in 1..3 : k > 1 => todo[k] = g[k - 1]
      BY <2>1, <2>2, ConcatProperties
    <3>2. QED BY <2>3, <3>1
  <2>6. Range(todo) = {a, b, d}
    BY <2>4, <2>5 DEF Range
  <2>7. todo # <<>> /\ Head(todo) = a
    <3>1. todo # <<>>
      <4>1. Len(todo) # 0
        BY <2>4
      <4>2. Len(<<>>) = 0
        BY EmptySeq
      <4>3. QED BY <4>1, <4>2
    <3>2. Head(todo) = todo[1]
      BY <2>4, <3>1, HeadTail
    <3>3. QED BY <2>5, <3>1, <3>2
  <2>8. TodoOK(p, todo)
    <3>1. \A t \in Range(todo) : TaskOK(p, t)
      BY Zenon, <1>3, <1>4, <2>6
    <3>2. \A t \in Range(todo) : t.intent = i /\ t.name \in {"inspect", "request", "order"}
      BY <1>2, <2>6
    <3>3. QED BY <2>4, <3>1, <3>2 DEF TodoOK
  <2>9. InTurn(todo)
    <3>1. SUFFICES ASSUME NEW k \in 1..3, k > 1
                   PROVE  /\ todo[k].name = "order" =>
                               todo[k - 1] = Task("request", todo[k].intent)
                          /\ todo[k].name # "finish"
      BY <2>4 DEF InTurn
    <3>2. CASE k = 2
      BY <1>2, <2>5, <3>2
    <3>3. CASE k = 3
      <4>1. k - 1 = 2 /\ todo[k] = d
        BY <2>5, <3>3
      <4>2. QED BY <1>1, <1>2, <2>5, <4>1
    <3>4. QED BY <3>1, <3>2, <3>3
  <2>10. QED BY <1>1, <1>2, <2>6, <2>7, <2>8, <2>9
<1>5. CASE ~proves
  <2>1. todo = <<b, d>>
    BY <1>1, <1>5 DEF FirstTodo
  <2>2. \A x, y \in TaskType :
          /\ <<x, y>> \in Seq(TaskType) /\ Range(<<x, y>>) = {x, y}
          /\ Len(<<x, y>>) = 2
    BY DEF Range
  <2>3. /\ todo \in Seq(TaskType) /\ Range(todo) = {b, d} /\ Len(todo) = 2
    BY <1>2, <2>1, <2>2
  <2>4. todo[1] = b /\ todo[2] = d /\ Head(todo) = b /\ todo # <<>>
    BY <2>1
  <2>5. TodoOK(p, todo)
    BY <1>2, <1>3, <1>5, <2>3 DEF TodoOK
  <2>6. InTurn(todo)
    <3>1. DOMAIN todo = 1..2 /\ \A k \in 1..2 : k > 1 => k = 2
      BY <2>3
    <3>2. todo[1] = Task("request", todo[2].intent)
      BY <1>1, <1>2, <2>4
    <3>3. todo[2].name = "order" /\ 2 - 1 = 1
      BY <1>2, <2>4
    <3>4. QED BY <3>1, <3>2, <3>3 DEF InTurn
  <2>7. QED BY <1>2, <1>5, <2>3, <2>4, <2>5, <2>6
<1>6. QED BY <1>4, <1>5

\* The runtime is stopped, and the operator has something to do.
LEMMA AloneOK ==
  ASSUME NEW todo, Alone(todo),
         todo # <<>> => /\ TodoOK("operator", todo)' /\ InTurn(todo)'
                        /\ Head(todo).name \notin {"finish", "order"}
  PROVE  JobsOK'
<1>1. job' = [p \in Processes |-> job'[p]]
  BY DEF Alone
<1>2. ASSUME NEW p \in Processes PROVE job'[p] \in Job' /\ JobOK(p)'
  <2>1. CASE p = "operator" /\ todo # <<>>
    <3>1. job'[p] = NextJob(todo)
      BY <2>1 DEF Alone, Operator, NextJob
    <3>2. QED BY <2>1, <3>1, NextJobOK
  <2>2. CASE ~(p = "operator" /\ todo # <<>>)
    <3>1. job'[p] = Idle
      BY <2>2 DEF Alone, Operator
    <3>2. QED BY <3>1, IdleOK
  <2>3. QED BY <2>1, <2>2
<1>3. job' \in [Processes -> Job']
  BY <1>1, <1>2
<1>4. QED BY <1>2, <1>3 DEF JobsOK

\* The command begins, or finds that it has nothing left to do.
LEMMA BeginsMoves ==
  ASSUME ExposureInv, NEW i \in Intents, Begins(i)
  PROVE  Advances
<1>1. /\ intents[i].kind = "entry"
      /\ UNCHANGED <<account, book, requested, log, course, now, funds, orders, exited>>
      /\ UNCHANGED <<orders, exited, cancelling, stops, reported>>
      /\ decision' = decision /\ UNCHANGED <<attributed, runs, cursor>>
  BY DEF Begins, Ledgers, riskVars, Clocks, exchangeVars
<1>2. PICK s \in Signals : s = intents[i].reservation
  BY RowType DEF ExposureInv, RowsTyped
<1>3. /\ RestOK /\ ExchangeOK /\ TableOK /\ EvidenceOK /\ BookOK /\ i \in Nat /\ RowsTyped
      /\ OrdersTyped
  BY RowType, OrderType, TableRows DEF ExposureInv, TableOK
<1>4. ExchangeOK'
  BY <1>1, <1>3, ExchangeStays
<1>5. RestOK' /\ LogOK'
  BY <1>1, <1>3, RestStays DEF RestOK, Arrivals
<1>6. BookOK' /\ Promised
  BY <1>1, <1>3, BookStays, PromisedAtRest
<1>7. \A t \in Signals :
        /\ GoesOn(orders["entry"][t], orders'["entry"][t])
        /\ GoesOn(orders["close"][t], orders'["close"][t])
        /\ exited[t] <= exited'[t]
        /\ Placed("entry", t)' => Placed("entry", t)
  BY <1>1, <1>3 DEF GoesOn, OrdersTyped, Placed
<1>8. CASE /\ Alone((IF NotSent(s) THEN <<Task("inspect", i)>> ELSE <<>>)
                     \o <<Task("request", i), Task("order", i)>>)
           /\ UNCHANGED intents
  <2>1. PICK todo : Alone(todo) /\ todo = FirstTodo(i, NotSent(s))
    BY Zenon, <1>8 DEF FirstTodo
  <2>2. NotSent(s) => \A c \in Of("close_position", s) : ~intents[c].attempted
    BY DEF NotSent, Closes, Attempted
  <2>3. /\ TodoOK("operator", todo) /\ InTurn(todo) /\ todo # <<>>
        /\ Head(todo).name \in {"inspect", "request"}
    BY <1>1, <1>2, <1>3, <2>1, <2>2, FirstTasks
  <2>4. TableOK' /\ Progress /\ EvidenceOK'
    BY <1>1, <1>4, <1>7, <1>8, TableRests
  <2>5. NothingSent
    BY <1>8 DEF NothingSent, Intents
  <2>6. TodoOK("operator", todo)'
    BY <1>3, <1>4, <2>3, <2>4, <2>5, TodoStays
  <2>7. InTurn(todo)'
    BY <2>3 DEF InTurn
  <2>8. JobsOK'
    BY <2>1, <2>3, <2>6, <2>7, AloneOK
  <2>9. QED BY <1>4, <1>5, <1>6, <2>4, <2>8 DEF ExposureInv, Advances
<1>9. CASE /\ Status(book, s) = "closed"
           /\ intents' = [c \in Intents |->
                            IF c = i THEN [intents[c] EXCEPT !.state = "position_closed"]
                            ELSE [intents[c] EXCEPT !.synced = @ \/ c \in Closes(s)]]
           /\ Alone(<<>>)
  <2>1. Gone(s)
    <3>1. Executed(s) /\ s \notin Active(book)
      BY <1>3, <1>9 DEF BookOK, Active, InStatus, Status, Open
    <3>2. ~Live(orders["entry"][s]) /\ ~(Exposure(s) > 0)
      BY <1>3, <3>1 DEF BookOK
    <3>3. Spent(s)
      <4>1. orders["entry"][s] \in OrderState /\ EntryOrderOK(s)
        BY <1>3 DEF OrdersTyped, ExchangeOK
      <4>2. orders["entry"][s].status # "none"
        BY <3>1, <4>1 DEF EntryOrderOK, Executed
      <4>3. QED BY <3>1, <3>2, <4>1, <4>2 DEF Spent, Live, Over, OrderState
    <3>4. Exposure(s) = 0
      BY <3>2, PositionFacts
    <3>5. QED BY <3>3, <3>4, FlatIsGone
  <2>2. /\ intents' = [c \in Intents |-> intents'[c]]
        /\ intents'[i] = [intents[i] EXCEPT !.state = "position_closed"]
        /\ \A c \in Intents \ {i} :
             intents'[c] = [intents[c] EXCEPT !.synced = @ \/ c \in Closes(s)]
    BY <1>9
  <2>3. PICK state \in States : state = "position_closed"
    BY DEF States
  <2>4. Claim(i, state)
    BY <1>1, <1>2, <2>1, <2>3 DEF Claim, EntryClaim
  <2>5. Written(i)
    BY <1>3, <2>2, <2>3, <2>4, StateWritten
  <2>6. ASSUME NEW c \in Intents \ {i} PROVE Written(c)
    <3>1. PICK synced \in BOOLEAN : synced = (intents[c].synced \/ c \in Closes(s))
      BY Zenon, <1>3 DEF RowsTyped
    <3>2. intents'[c] = [intents[c] EXCEPT !.synced = synced]
      BY <2>2, <3>1
    <3>3. QED BY <1>3, <3>2, OnlySyncWritten
  <2>7. \A c \in Intents : intents'[c] = intents[c] \/ Written(c)
    BY <2>5, <2>6
  <2>8. OrdersGoOn
    BY <1>7 DEF OrdersGoOn
  <2>9. TableOK' /\ Progress /\ EvidenceOK'
    BY <1>1, <1>4, <2>2, <2>7, <2>8, TableWrites
  <2>10. JobsOK'
    BY <1>9, AloneOK
  <2>11. QED BY <1>4, <1>5, <1>6, <2>9, <2>10 DEF ExposureInv, Advances
<1>10. QED BY <1>2, <1>8, <1>9 DEF Begins

-------------------------------------------------------------------------------
(* The specification. *)

\* The behaviour starts in order.
LEMMA InitExposure == ExecutionInit => ExposureInv
<1> SUFFICES ASSUME ExecutionInit PROVE ExposureInv
  OBVIOUS
<1>1. /\ course \in Courses /\ now \in Times /\ funds \in Equities /\ requested = {}
      /\ attributed \subseteq Signals /\ runs \subseteq Signals
      /\ cursor \in 0..Len(Arrivals)
  <2>1. funds \in Equities
    <3>1. PICK top \in Equities : \A equity \in Equities : equity <= top
      BY ExecutionAssumption
    <3>2. \A equity \in Equities : top >= equity
      BY <3>1, MarkAssumption
    <3>3. Max(Equities) \in Equities
      BY <3>2 DEF Max
    <3>4. QED BY <3>3 DEF ExecutionInit
  <2>2. course \in Courses /\ Arrivals \in Seq(Signals)
    BY ExecutionAssumption DEF ExecutionInit, Arrivals
  <2>3. 0 \in 0..Len(Arrivals)
    BY <2>2, LenProperties
  <2>4. QED BY <2>1, <2>2, <2>3, ExecutionAssumption DEF ExecutionInit
<1>2. Inv
  <2>1. account \in Account
    <3>1. 0 \in 0..MaxEpoch /\ account = Rebased(now, funds, 0)
      BY MarkAssumption DEF ExecutionInit
    <3>2. QED BY <1>1, <3>1, RebasedType
  <2>2. /\ book.mode = "active"
        /\ book.reversal_intents = [y \in Symbols |-> NoReversal]
        /\ \A s \in Signals : Status(book, s) = "absent"
        /\ book \in Book
    BY DEF ExecutionInit, NoReversals, Absent, Status, Book, Reservation, Statuses, Modes
  <2>3. Active(book) = {}
    BY <2>2 DEF Active, Open
  <2>4. Capped(book)
    BY <2>3, FS_EmptySet DEF Capped, MaxReservations
  <2>5. Sound(book)
    BY <2>2, <2>3, <2>4 DEF Sound, Exclusive, ReversalLive, Flat
  <2>6. decision \in Decisions /\ requested \subseteq Actions
    BY DEF ExecutionInit, NothingDecided, Decisions
  <2>7. QED BY <2>1, <2>5, <2>6 DEF Inv
<1>3. RestOK
  BY <1>1, <1>2 DEF RestOK
<1>4. NoOrder \in OrderState /\ NoOrder.status = "none" /\ NoOrder.filled = 0 /\ NoOrder.size = 0
  BY DEF NoOrder, OrderState, Quantities
<1>5. \A s \in Signals : orders["entry"][s] = NoOrder /\ orders["close"][s] = NoOrder
                         /\ exited[s] = 0
  BY DEF ExecutionInit, ExchangeInit
<1>6. ExchangeOK
  <2>1. ExchangeTypeOK
    BY <1>4 DEF ExecutionInit, ExchangeInit, ExchangeTypeOK, Quantities
  <2>2. \A s \in Signals : EntryOrderOK(s) /\ CloseOrderOK(s)
    BY <1>4, <1>5, ExecutionAssumption DEF EntryOrderOK, CloseOrderOK
  <2>3. QED BY <1>4, <1>5, <2>1, <2>2 DEF ExchangeOK, ExecutionInit, ExchangeInit
<1>7. LogOK
  BY DEF ExecutionInit, LogOK
<1>8. Intents = {} /\ intents = <<>>
  BY DEF ExecutionInit, Intents
<1>9. TableOK
  BY <1>8 DEF TableOK
<1>10. EvidenceOK
  BY <1>4, <1>5, <1>8 DEF EvidenceOK, Placed
<1>11. BookOK
  <2>1. \A s \in Signals : Status(book, s) = "absent"
    BY DEF ExecutionInit, Absent, Status
  <2>2. \A s \in Signals : Exposure(s) = 0 /\ ~Live(orders["entry"][s])
    BY <1>4, <1>5 DEF Exposure, Live
  <2>3. QED BY <2>1, <2>2 DEF BookOK
<1>12. JobsOK
  <2>1. job = [p \in Processes |-> Idle]
    BY DEF ExecutionInit
  <2>2. ASSUME NEW p \in Processes PROVE JobOK(p)
    <3>1. job[p] = Idle /\ Idle.todo = <<>> /\ Idle.pc = "idle"
      BY <2>1, IdleType
    <3>2. <<>> \in Seq(TaskType) /\ (\A t \in Range(<<>>) : FALSE) /\ DOMAIN <<>> = {}
      BY DEF Range
    <3>3. TodoOK(p, <<>>) /\ Counted(<<>>) /\ InTurn(<<>>)
      BY <3>2 DEF TodoOK, Counted, InTurn
    <3>4. PlaceOK(p)
      BY <3>1 DEF PlaceOK
    <3>5. QED BY <3>1, <3>3, <3>4 DEF JobOK
  <2>3. QED BY <2>1, <2>2, IdleType DEF JobsOK
<1>13. QED BY <1>3, <1>6, <1>7, <1>9, <1>10, <1>11, <1>12 DEF ExposureInv

\* Nothing happens.
LEMMA StutterStep ==
  ASSUME ExposureInv, UNCHANGED allVars
  PROVE  Advances
<1>1. /\ UNCHANGED <<account, book, decision, requested, log, intents, attributed, cursor, runs>>
      /\ UNCHANGED <<course, now, funds, job>>
      /\ UNCHANGED <<orders, exited, cancelling, stops, reported>>
  BY DEF allVars, riskVars, ledgerVars, exchangeVars
<1>2. RestOK /\ ExchangeOK /\ OrdersTyped /\ BookOK
  BY OrderType DEF ExposureInv
<1>3. RestOK' /\ LogOK' /\ PendingStays
  BY <1>1, <1>2, RestStays DEF RestOK, Arrivals
<1>4. ExchangeOK'
  BY <1>1, <1>2, ExchangeStays
<1>5. TableOK' /\ Progress /\ EvidenceOK'
  <2>1. \A t \in Signals :
          /\ GoesOn(orders["entry"][t], orders'["entry"][t])
          /\ GoesOn(orders["close"][t], orders'["close"][t])
          /\ exited[t] <= exited'[t]
          /\ Placed("entry", t)' => Placed("entry", t)
    BY <1>1, <1>2 DEF GoesOn, OrdersTyped, Placed
  <2>2. QED BY <1>1, <1>4, <2>1, TableRests
<1>6. BookOK' /\ Promised
  BY <1>1, <1>2, BookStays, PromisedAtRest
<1>7. NothingSent
  BY <1>1 DEF NothingSent, Intents
<1>8. JobsOK'
  BY <1>1, <1>3, <1>4, <1>5, <1>7, AllStay
<1>9. QED BY <1>3, <1>4, <1>5, <1>6, <1>8 DEF ExposureInv, Advances

\* A step of the runtime.
LEMMA RuntimeMoves ==
  ASSUME ExposureInv, job["operator"] = Idle, MonitorStep \/ WorkerStep
  PROVE  Advances
<1>1. "monitor" \in Processes /\ "worker" \in Processes /\ "monitor" \in {"monitor", "operator"}
  BY DEF Processes
<1>2. CASE MonitorStep
  BY <1>1, <1>2, MonitorBeginsMoves, MonitorSweepsMoves, MonitorExpiresMoves,
     MonitorSettlesMoves, SynchronizeMoves, PlansFollowUpMoves, FollowedUpMoves, WalkStep,
     AttributeMoves
     DEF MonitorStep
<1>3. CASE WorkerStep
  <2>1. CASE \/ WorkerBegins \/ WorkerRetries \/ WorkerPlaces \/ WorkerPassesStale
             \/ WorkerProposes \/ WorkerPlans \/ WorkerRecordsRun \/ WorkerAdvances
             \/ WorkerEnds
    BY <2>1, WorkerBeginsMoves, WorkerRetriesMoves, WorkerPlacesMoves, WorkerPassesMoves,
       WorkerProposesMoves, WorkerPlansMoves, WorkerRecordsMoves, WorkerAdvancesMoves,
       WorkerEndsMoves
  <2>2. CASE \/ SubmitsNothing("worker") \/ SubmitsDependency \/ SubmitsAttempted("worker")
             \/ SubmitsEntry \/ SubmitsClose("worker") \/ Post("worker") \/ SubmitsCancel
             \/ ReconcileStep("worker")
    BY <1>1, <2>2, SubmitsNothingMoves, SubmitsDependencyMoves, SubmitsAttemptedMoves,
       SubmitsEntryMoves, SubmitsCloseMoves, PostMoves, SubmitsCancelMoves, WalkStep
  <2>3. QED BY <1>3, <2>1, <2>2 DEF WorkerStep
<1>4. QED BY <1>2, <1>3

\* A step of the operator's command.
LEMMA OperatorMoves ==
  ASSUME ExposureInv, OperatorStep
  PROVE  Advances
<1>1. PICK p \in Processes : p = "operator" /\ p \in {"monitor", "operator"}
  BY DEF Processes
<1>2. CASE \/ Inspects \/ Proves \/ Requests \/ Orders \/ OrdersPlanned \/ Drops \/ Accounts
           \/ Finishes
  BY <1>2, InspectsMoves, ProvesMoves, RequestsMoves, OrdersMoves, OrdersPlannedMoves,
     DropsMoves, AccountsMoves, FinishesMoves
<1>3. CASE \/ Synchronize(p) \/ PlansFollowUp(p) \/ FollowedUp(p)
  BY <1>1, <1>3, SynchronizeMoves, PlansFollowUpMoves, FollowedUpMoves
<1>4. CASE \/ SubmitsNothing(p) \/ SubmitsAttempted(p) \/ SubmitsClose(p) \/ Post(p)
           \/ Reconcile(p) \/ Resolve(p)
  BY <1>1, <1>4, SubmitsNothingMoves, SubmitsAttemptedMoves, SubmitsCloseMoves, PostMoves,
     ReconcileMoves, ResolveMoves
<1>5. QED BY <1>1, <1>2, <1>3, <1>4 DEF OperatorStep, Operator

\* Every step of runtime, operator, clock and exchange keeps the invariant and the promise.
LEMMA NextExposure ==
  ASSUME ExposureInv, [OwnedCloseNext]_allVars
  PROVE  Advances
<1>1. CASE UNCHANGED allVars
  BY <1>1, StutterStep
<1>2. CASE RuntimeStep
  BY <1>2, RuntimeMoves DEF RuntimeStep, Operating, Operator
<1>3. CASE \E i \in Intents : Begins(i)
  BY <1>3, BeginsMoves
<1>4. CASE OperatorStep
  BY <1>4, OperatorMoves
<1>5. CASE OperatorStops \/ \E p \in Processes : Crash(p)
  BY <1>5, CrashStep
<1>6. CASE Tick \/ Mark
  BY <1>6, ClockStep
<1>7. CASE \E s \in Signals : ExchangeWorks(s) \/ PriceMoves(s)
  BY <1>7, ExchangeStep
<1>8. QED BY <1>1, <1>2, <1>3, <1>4, <1>5, <1>6, <1>7 DEF OwnedCloseNext

-------------------------------------------------------------------------------
(* Without the operator's command the runtime is a special case. *)

\* A step of p leaves the other processes where they are.
MovesAlone(p) == \A q \in Processes \ {p} : job'[q] = job[q]

\* What ends a step of one process moves that process only.
LEMMA BecomesAlone ==
  ASSUME job \in [Processes -> Job], NEW p \in Processes
  PROVE  /\ \A new : Become(p, new) => MovesAlone(p)
         /\ \A todo : Continue(p, todo) => MovesAlone(p)
         /\ \A tasks : Instead(p, tasks) => MovesAlone(p)
         /\ NextTask(p) => MovesAlone(p)
         /\ Raise(p) => MovesAlone(p)
         /\ ItemDone(p) => MovesAlone(p)
         /\ \A c : PlanNext(p, c) => MovesAlone(p)
         /\ job' = job => MovesAlone(p)
<1>1. \A new : Become(p, new) => MovesAlone(p)
  BY DEF Become, MovesAlone
<1> HIDE DEF MovesAlone
<1>2. \A todo : Continue(p, todo) => MovesAlone(p)
  BY <1>1 DEF Continue
<1>3. /\ \A tasks : Instead(p, tasks) => MovesAlone(p)
      /\ NextTask(p) => MovesAlone(p)
  BY <1>2 DEF Instead, NextTask
<1>4. Raise(p) => MovesAlone(p)
  BY <1>1 DEF Raise
<1>5. ItemDone(p) => MovesAlone(p)
  BY <1>3, <1>4 DEF ItemDone
<1>6. \A c : PlanNext(p, c) => MovesAlone(p)
  BY <1>1 DEF PlanNext
<1>7. job' = job => MovesAlone(p)
  BY DEF MovesAlone
<1>8. QED BY <1>1, <1>2, <1>3, <1>4, <1>5, <1>6, <1>7

\* The walk of one process moves that process only.
LEMMA WalksAlone ==
  ASSUME job \in [Processes -> Job], NEW p \in Processes
  PROVE  /\ \A table, state : Settle(p, table, state) => MovesAlone(p)
         /\ \A table, i, state : Conclude(p, table, i, state) => MovesAlone(p)
         /\ \A table : Fail(p, table) => MovesAlone(p)
         /\ Retire(p) => MovesAlone(p)
         /\ ReconcileStep(p) => MovesAlone(p)
<1>1. \A table, state : Settle(p, table, state) => MovesAlone(p)
  BY BecomesAlone DEF Settle
<1>2. \A table, i, state : Conclude(p, table, i, state) => MovesAlone(p)
  BY <1>1 DEF Conclude
<1>3. \A table : Fail(p, table) => MovesAlone(p)
  BY BecomesAlone DEF Fail
<1>4. Retire(p) => MovesAlone(p)
  BY <1>1, <1>3 DEF Retire
<1>5. \A i : ReadOrder(p, i) => MovesAlone(p)
  BY <1>3, BecomesAlone DEF ReadOrder
<1>6. Reconcile(p) => MovesAlone(p)
  BY <1>1, <1>2, <1>4, <1>5 DEF Reconcile
<1>7. Resolve(p) => MovesAlone(p)
  BY <1>2, BecomesAlone DEF Resolve
<1>8. Protect(p) => MovesAlone(p)
  BY <1>2, <1>3, BecomesAlone DEF Protect
<1>9. CancelRemainder(p) => MovesAlone(p)
  BY <1>3, BecomesAlone DEF CancelRemainder
<1>10. ReadAgain(p) => MovesAlone(p)
  BY <1>2, BecomesAlone DEF ReadAgain
<1>11. QueryFails(p) => MovesAlone(p)
  BY <1>3 DEF QueryFails
<1>12. QED BY <1>1, <1>2, <1>3, <1>4, <1>6, <1>7, <1>8, <1>9, <1>10, <1>11 DEF ReconcileStep

\* A step of the monitor moves the monitor only.
LEMMA MonitorAlone ==
  ASSUME job \in [Processes -> Job], MonitorStep
  PROVE  MovesAlone("monitor")
<1>1. "monitor" \in Processes
  BY DEF Processes
<1>2. CASE MonitorBegins \/ MonitorSweeps \/ MonitorExpires \/ MonitorSettles
  BY <1>1, <1>2, BecomesAlone
     DEF MonitorBegins, MonitorSweeps, MonitorExpires, MonitorSettles
<1>3. CASE Synchronize("monitor")
  BY <1>1, <1>3, BecomesAlone DEF Synchronize, Submitted
<1>4. CASE PlansFollowUp("monitor") \/ FollowedUp("monitor")
  BY <1>1, <1>4, BecomesAlone DEF PlansFollowUp, FollowedUp
<1>5. CASE ReconcileStep("monitor")
  BY <1>1, <1>5, WalksAlone
<1>6. CASE Attribute("monitor")
  BY <1>1, <1>6, BecomesAlone DEF Attribute
<1>7. QED BY <1>2, <1>3, <1>4, <1>5, <1>6 DEF MonitorStep

\* A step of the worker moves the worker only.
LEMMA WorkerAlone ==
  ASSUME job \in [Processes -> Job], WorkerStep
  PROVE  MovesAlone("worker")
<1>1. "worker" \in Processes
  BY DEF Processes
<1>2. CASE WorkerBegins \/ WorkerRetries \/ WorkerPlaces
  BY <1>1, <1>2, BecomesAlone DEF WorkerBegins, WorkerRetries, WorkerPlaces
<1>3. CASE WorkerPassesStale \/ WorkerProposes \/ WorkerPlans \/ WorkerRecordsRun
  BY <1>1, <1>3, BecomesAlone
     DEF WorkerPassesStale, WorkerProposes, WorkerPlans, WorkerRecordsRun
<1>4. CASE WorkerAdvances \/ WorkerEnds \/ SubmitsNothing("worker") \/ SubmitsDependency
  BY <1>1, <1>4, BecomesAlone
     DEF WorkerAdvances, WorkerEnds, SubmitsNothing, SubmitsDependency
<1>5. CASE SubmitsAttempted("worker") \/ SubmitsEntry \/ SubmitsClose("worker")
  BY <1>1, <1>5, BecomesAlone DEF SubmitsAttempted, SubmitsEntry, SubmitsClose
<1>6. CASE Post("worker") \/ SubmitsCancel
  BY <1>1, <1>6, BecomesAlone, WalksAlone DEF Post, Acknowledge, SubmitsCancel
<1>7. CASE ReconcileStep("worker")
  BY <1>1, <1>7, WalksAlone
<1>8. QED BY <1>2, <1>3, <1>4, <1>5, <1>6, <1>7 DEF WorkerStep

\* A step of the runtime leaves the operator where it is.
LEMMA RuntimeAlone ==
  ASSUME job \in [Processes -> Job], MonitorStep \/ WorkerStep
  PROVE  job'["operator"] = job["operator"]
<1>1. MovesAlone("monitor") \/ MovesAlone("worker")
  BY MonitorAlone, WorkerAlone
<1>2. "operator" \in Processes \ {"monitor", "worker"}
  BY DEF Processes
<1>3. QED BY <1>1, <1>2 DEF MovesAlone

\* The operator is not at work.
Unattended == job["operator"] = Idle

\* Without the operator's command the runtime is the one that runs.
LEMMA RuntimeOnly ==
  ASSUME ExposureInv, Unattended, [ExecutionNext]_allVars
  PROVE  Unattended' /\ [OwnedCloseNext]_allVars
<1>1. job \in [Processes -> Job] /\ "operator" \in Processes
  BY DEF ExposureInv, JobsOK, Processes
<1>2. ~Operating
  BY DEF Unattended, Operating, Operator
<1>3. CASE MonitorStep \/ WorkerStep
  BY <1>1, <1>2, <1>3, RuntimeAlone DEF Unattended, OwnedCloseNext, RuntimeStep
<1>4. CASE Tick \/ Mark
  BY <1>4 DEF OwnedCloseNext, Tick, Mark, Unattended
<1>5. CASE \E s \in Signals : ExchangeWorks(s) \/ PriceMoves(s)
  BY <1>5 DEF OwnedCloseNext, ExchangeWorks, PriceMoves, Unattended
<1>6. CASE \E p \in Processes : Crash(p)
  <2>1. PICK p \in Processes : Crash(p)
    BY <1>6
  <2>2. job' = [job EXCEPT ![p] = Idle]
    BY <2>1 DEF Crash, Raise, Become
  <2>3. QED BY <1>1, <1>6, <2>2 DEF Unattended, OwnedCloseNext
<1>7. CASE UNCHANGED allVars
  BY <1>7 DEF allVars, Unattended
<1>8. QED BY <1>3, <1>4, <1>5, <1>6, <1>7 DEF ExecutionNext

-------------------------------------------------------------------------------
(* Theorems. *)

\* The invariant of the lifecycle holds with the operator's command, and without it.
THEOREM ExposureInvariance == OwnedCloseSpec => []ExposureInv
<1>1. ExposureInv /\ [OwnedCloseNext]_allVars => ExposureInv'
  BY NextExposure DEF Advances
<1>2. QED BY <1>1, InitExposure, PTL DEF OwnedCloseSpec

\* Worker, monitor and exchange without the command behave like a system in which the
\* operator never gives it.
THEOREM RuntimeIsTheOwned == ExecutionSpec => OwnedCloseSpec
<1>1. ExecutionInit => Unattended /\ ExposureInv
  BY InitExposure DEF ExecutionInit, Unattended, Processes
<1>2. ExposureInv /\ Unattended /\ [ExecutionNext]_allVars => Unattended' /\ ExposureInv'
  BY RuntimeOnly, NextExposure DEF Advances
<1>3. ExposureInv /\ Unattended /\ [ExecutionNext]_allVars => [OwnedCloseNext]_allVars
  BY RuntimeOnly
<1>4. QED BY <1>1, <1>2, <1>3, PTL DEF ExecutionSpec, OwnedCloseSpec

\* Every variable keeps its type.
THEOREM ExecutionTypes == OwnedCloseSpec => []ExecutionTypeOK
<1>1. ExposureInv => ExecutionTypeOK
  BY DEF ExposureInv, ExecutionTypeOK, RestOK, Inv, Sound, LogOK, TableOK, JobsOK, ExchangeOK
<1>2. QED BY <1>1, ExposureInvariance, PTL

\* No fill is invented: what the ledger and the intents hold as filled was executed.
THEOREM FillsHappened == OwnedCloseSpec => []FillsAreReal
<1>1. ASSUME ExposureInv PROVE FillsAreReal
  <2>1. \A i \in Intents : RowOK(i)
    BY <1>1 DEF ExposureInv, EvidenceOK
  <2>2. \A s \in Signals :
          Status(book, s) \in {"filled", "close_requested", "closed"} => Executed(s)
    BY <1>1 DEF ExposureInv, BookOK
  <2>3. QED BY <2>1, <2>2 DEF FillsAreReal, RowOK, Executed
<1>2. QED BY <1>1, ExposureInvariance, PTL

\* The behaviour starts as the promise does.
LEMMA PromiseBegins == ExecutionInit => Ledger!Init
<1>1. SUFFICES ASSUME ExecutionInit PROVE Ledger!Init
  OBVIOUS
<1>2. \A s \in Signals : Status(book, s) = "absent"
  BY <1>1 DEF ExecutionInit, Absent, Status
<1>3. \A s \in Signals : orders["entry"][s] = NoOrder /\ exited[s] = 0
  BY <1>1 DEF ExecutionInit, ExchangeInit
<1>4. NoOrder.status = "none" /\ NoOrder.filled = 0
  BY DEF NoOrder
<1>5. \A s \in Signals : Exposure(s) = 0 /\ ~Live(orders["entry"][s])
  BY <1>3, <1>4 DEF Exposure, Live
<1>6. QED BY <1>2, <1>3, <1>5 DEF Ledger!Init, Active, Open, Released

\* Ledger, worker, monitor, exchange and operator together keep the promise of the
\* lifecycle: the detailed specification implements the abstract one.
THEOREM PromiseIsKept == OwnedCloseSpec => KeepsThePromise
<1>1. ExposureInv /\ [OwnedCloseNext]_allVars => [Ledger!Next]_(Ledger!promise)
  BY NextExposure DEF Advances, Promised
<1>2. QED
  BY <1>1, PromiseBegins, ExposureInvariance, PTL
     DEF OwnedCloseSpec, KeepsThePromise, Ledger!Spec

-------------------------------------------------------------------------------
(* Intents only move forward. *)

\* Selected lists every row it is given.
LEMMA SelectsAll ==
  ASSUME NEW rows, rows \subseteq Int, IsFiniteSet(rows)
  PROVE  rows \subseteq Range(Selected(rows))
<1> DEFINE Below(i) == {j \in rows : j < i}
           n == Cardinality(rows)
           list == [k \in 1..n |-> CHOOSE i \in rows : Cardinality(Below(i)) = k - 1]
<1>1. Selected(rows) = list
  BY DEF Selected
<1>2. n \in Nat /\ \A i \in rows : IsFiniteSet(Below(i)) /\ Cardinality(Below(i)) \in Nat
  BY FS_Subset, FS_CardinalityType
<1>3. \A i \in rows : Cardinality(Below(i)) < n
  BY FS_Subset, <1>2
<1>4. \A i, j \in rows : i < j => Cardinality(Below(i)) < Cardinality(Below(j))
  <2>1. SUFFICES ASSUME NEW i \in rows, NEW j \in rows, i < j
                 PROVE  Cardinality(Below(i)) < Cardinality(Below(j))
    OBVIOUS
  <2>2. Below(i) \subseteq Below(j) /\ i \in Below(j) /\ i \notin Below(i)
    <3>1. \A x \in rows : x \in Int
      OBVIOUS
    <3>2. \A x \in rows : x < i => x < j
      BY <2>1, <3>1
    <3>3. ~(i < i)
      BY <3>1
    <3>4. QED BY Zenon, <2>1, <3>2, <3>3
  <2>3. Below(i) # Below(j)
    BY <2>2
  <2>4. PICK A, B : A = Below(i) /\ B = Below(j)
    BY Zenon
  <2>5. IsFiniteSet(B) /\ A \subseteq B /\ A # B
    BY <1>2, <2>2, <2>3, <2>4
  <2>6. Cardinality(A) <= Cardinality(B) /\ Cardinality(A) # Cardinality(B)
    BY <2>5, FS_Subset
  <2>7. Cardinality(A) \in Nat /\ Cardinality(B) \in Nat
    BY <1>2, <2>4
  <2>8. QED BY <2>4, <2>6, <2>7
<1>5. \A i, j \in rows : Cardinality(Below(i)) = Cardinality(Below(j)) => i = j
  <2>1. SUFFICES ASSUME NEW i \in rows, NEW j \in rows, i # j
                 PROVE  Cardinality(Below(i)) # Cardinality(Below(j))
    OBVIOUS
  <2>2. i < j \/ j < i
    BY <2>1
  <2> HIDE DEF Below
  <2>3. QED BY <1>2, <1>4, <2>2
<1>6. SUFFICES ASSUME NEW i \in rows PROVE i \in Range(list)
  BY Zenon, <1>1
<1>7. PICK r : r = Cardinality(Below(i))
  OBVIOUS
<1>8. r \in Nat /\ r + 1 \in 1..n
  BY <1>2, <1>3, <1>7
<1>9. (r + 1) - 1 = r
  BY <1>8
<1>10. list[r + 1] = CHOOSE j \in rows : Cardinality(Below(j)) = r
  BY Zenon, <1>8, <1>9
<1> HIDE DEF Below
<1>11. (CHOOSE j \in rows : Cardinality(Below(j)) = r) = i
  BY <1>5, <1>7
<1>12. r + 1 \in DOMAIN list
  BY <1>8
<1>13. QED BY Zenon, <1>10, <1>11, <1>12 DEF Range

Ends == {"cancelled", "rejected", "position_closed", "close_confirmed"}

\* A row has evidence for one end only.
OneEnd ==
  \A i \in Intents, old, new \in Ends :
    /\ intents[i].kind = "close_position" => intents[i].attempted
    /\ Claim(i, old) /\ Claim(i, new)
    => old = new

\* What an intent that has ended claims contradicts every other end.
LEMMA EndsExclude == ExchangeOK /\ TableOK => OneEnd
<1> SUFFICES ASSUME ExchangeOK, TableOK, NEW i \in Intents, NEW old \in Ends, NEW new \in Ends,
                    intents[i].kind = "close_position" => intents[i].attempted,
                    Claim(i, old), Claim(i, new)
             PROVE  old = new
  BY DEF OneEnd
<1>0. PICK s \in Signals : s = intents[i].reservation /\ intents[i].kind \in Kinds
  BY RowType DEF RowsTyped
<1>1. EntryOrderOK(s) /\ NoOrder.filled = 0
  BY DEF ExchangeOK, NoOrder
<1>2. ~Placed("entry", s) => orders["entry"][s].filled = 0
  BY <1>1 DEF EntryOrderOK, Placed
<1>3. orders["entry"][s].filled \in Nat
  BY OrderType DEF OrdersTyped
<1>4. Executed(s) => ~Withdrawn(s, "cancelled") /\ ~Withdrawn(s, "rejected") /\ ~Unplaced(s)
  BY <1>2, <1>3 DEF Executed, Withdrawn, Unplaced
<1>5. Gone(s) => Executed(s)
  BY DEF Gone, Spent
<1>6. Withdrawn(s, "rejected") => ~Withdrawn(s, "cancelled") /\ ~Unplaced(s)
  BY DEF Withdrawn, Unplaced, Placed
<1>7. CASE intents[i].kind = "entry"
  <2>1. EntryClaim(s, old) /\ EntryClaim(s, new)
    BY <1>0, <1>7 DEF Claim
  <2>2. QED BY <1>4, <1>5, <1>6, <2>1 DEF EntryClaim, Ends
<1>8. CASE intents[i].kind = "cancel_entry"
  <2>1. CancelClaim(s, old) /\ CancelClaim(s, new)
    BY <1>0, <1>8 DEF Claim
  <2>2. QED BY <2>1 DEF CancelClaim, Ends
<1>9. CASE intents[i].kind = "close_position"
  <2>1. CloseClaim(s, old, TRUE) /\ CloseClaim(s, new, TRUE)
    <3>1. CloseClaim(s, old, intents[i].attempted) /\ CloseClaim(s, new, intents[i].attempted)
      BY <1>0, <1>9 DEF Claim
    <3>2. intents[i].attempted = TRUE
      BY <1>9, RowType DEF RowsTyped
    <3>3. QED BY Zenon, <3>1, <3>2
  <2>2. QED BY <2>1 DEF CloseClaim, Ends
<1>10. QED BY <1>0, <1>7, <1>8, <1>9 DEF Kinds

\* One intent, in one step.
LEMMA IntentMovesForward ==
  ASSUME ExposureInv, Advances, NEW i \in Intents
  PROVE  /\ i \in DOMAIN intents'
         /\ intents[i].filled <= intents'[i].filled
         /\ intents[i].attempted => intents'[i].attempted
         /\ intents[i].state \in {"cancelled", "rejected", "position_closed", "close_confirmed"}
              => \/ intents'[i].state = intents[i].state
                 \/ i \in Range(Monitorable')
<1>1. /\ ExchangeOK /\ TableOK /\ EvidenceOK
      /\ ExchangeOK' /\ TableOK' /\ EvidenceOK' /\ Progress
  BY DEF ExposureInv, Advances
<1>2. i \in Intents' /\ MovesOn(intents[i], intents'[i])
  BY <1>1 DEF Progress
<1>3. SUFFICES ASSUME intents[i].state \in {"cancelled", "rejected", "position_closed",
                                            "close_confirmed"},
                      intents'[i].state # intents[i].state
               PROVE  i \in Range(Monitorable')
  BY <1>2 DEF MovesOn, Intents
<1>4. RowsTyped /\ RowsTyped'
  BY <1>1, RowType, PTL
<1>5. PICK old : old = intents[i].state
  OBVIOUS
<1>6. PICK new : new = intents'[i].state
  OBVIOUS
<1>7. /\ old \in {"cancelled", "rejected", "position_closed", "close_confirmed"}
      /\ new \in States /\ new # old /\ new # "planned"
  BY <1>2, <1>3, <1>4, <1>5, <1>6 DEF RowsTyped, MovesOn
<1>8. Claim(i, old)'
  <2>1. Claim(i, old)
    BY <1>1, <1>5 DEF EvidenceOK, RowOK
  <2>2. QED BY <1>1, <1>3, <2>1, ClaimStays
<1>9. Claim(i, new)'
  BY <1>1, <1>2, <1>6 DEF EvidenceOK, RowOK
<1>10. PICK s \in Signals : s = intents'[i].reservation
  BY <1>2, <1>4 DEF RowsTyped
<1>11. intents'[i].kind \in Kinds /\ intents'[i].attempted \in BOOLEAN
       /\ intents[i].attempted \in BOOLEAN
  BY <1>2, <1>4 DEF RowsTyped
<1>12. CASE new \in {"cancelled", "rejected", "position_closed", "close_confirmed"}
  <2>1. intents'[i].kind = "close_position" => intents'[i].attempted
    <3>1. SUFFICES ASSUME intents'[i].kind = "close_position", ~intents'[i].attempted
                   PROVE  FALSE
      BY <1>11
    <3>2. CloseClaim(s, new, FALSE)' /\ CloseClaim(s, old, FALSE)'
      <4>1. intents'[i].attempted = FALSE
        BY <1>11, <3>1
      <4>2. PICK sent : sent = intents'[i].attempted
        OBVIOUS
      <4>3. CloseClaim(s, new, sent)' /\ CloseClaim(s, old, sent)'
        BY <1>8, <1>9, <1>10, <3>1, <4>2 DEF Claim
      <4>4. QED BY Zenon, <4>1, <4>2, <4>3
    <3>4. new = "cancelled" /\ old = "cancelled"
      BY <1>7, <1>12, <3>2 DEF CloseClaim
    <3>5. QED BY <1>7, <3>4
  <2>2. OneEnd'
    BY <1>1, EndsExclude, PTL
  <2>3. QED BY <1>2, <1>7, <1>8, <1>9, <1>12, <2>1, <2>2 DEF OneEnd, Ends
<1>13. CASE new \in {"acknowledged", "working", "filled", "protection_verified",
                     "position_closed_pending", "reconciliation_required"}
  <2>1. PICK rows \in SUBSET Intents' : Monitorable' = Selected(rows) /\ i \in rows
    BY Zenon, <1>2, <1>6, <1>13 DEF Monitorable
  <2>2. intents' \in Seq(Intent')
    BY <1>1 DEF TableOK
  <2>3. rows \subseteq Int /\ IsFiniteSet(rows)
    <3>1. Intents' = 1..Len(intents') /\ Len(intents') \in Nat
      BY <2>2, LenProperties DEF Intents
    <3>2. PICK all : all = Intents'
      OBVIOUS
    <3>3. IsFiniteSet(all) /\ all \subseteq Int /\ rows \in SUBSET all
      BY <3>1, <3>2, FS_Interval
    <3>4. QED BY Zenon, <3>3, FS_Subset
  <2>4. QED BY Zenon, <2>1, <2>3, SelectsAll
<1>14. QED BY <1>7, <1>12, <1>13 DEF States

\* A row keeps its executed quantity and that it was sent, and a row that has ended stays
\* as it ended, unless it is looked at again.
THEOREM IntentsOnlyMoveForward == OwnedCloseSpec => IntentsMoveForward
<1>1. ASSUME ExposureInv, [OwnedCloseNext]_allVars
      PROVE  \A i \in Intents :
               /\ i \in DOMAIN intents'
               /\ intents[i].filled <= intents'[i].filled
               /\ intents[i].attempted => intents'[i].attempted
               /\ intents[i].state \in {"cancelled", "rejected", "position_closed",
                                        "close_confirmed"}
                    => \/ intents'[i].state = intents[i].state
                       \/ i \in Range(Monitorable')
  BY <1>1, NextExposure, IntentMovesForward
<1>2. QED BY <1>1, ExposureInvariance, PTL DEF OwnedCloseSpec, IntentsMoveForward

\* An entry that may still execute and a position that is held have an active
\* reservation, at most one of them per symbol, and a released reservation stays so,
\* however worker, monitor, operator and exchange interleave: the promise says so.
THEOREM RiskCoversTheMarket ==
  OwnedCloseSpec => [](Ledger!Reserved /\ Ledger!OneAtTheExchange /\ Ledger!SettledForGood)
BY PromiseIsKept, Ledger!RiskCoversExposure, Ledger!OneExposure, Ledger!ReleaseIsFinal, PTL
   DEF KeepsThePromise

-------------------------------------------------------------------------------
(* Protection. *)

\* In a step, no row but those of E becomes protected.
Calm(table, E) ==
  \A k \in DOMAIN table \ E :
    table[k].state = "protection_verified"
      => k \in Intents /\ intents[k].state = "protection_verified"

\* Every row has a state.
Stated(table) == \A k \in DOMAIN table : "state" \in DOMAIN table[k]

\* A row is written with another state, or one that is protected already.
LEMMA WritesCalmly ==
  ASSUME NEW table, NEW E, Stated(table), Calm(table, E), NEW i, NEW state,
         state = "protection_verified" =>
           i \in E \/ (i \in Intents /\ intents[i].state = "protection_verified")
  PROVE  Stated(InState(table, i, state)) /\ Calm(InState(table, i, state), E)
<1> DEFINE new == InState(table, i, state)
<1>1. /\ DOMAIN new = DOMAIN table
      /\ \A k \in DOMAIN table : k # i => new[k] = table[k]
      /\ i \in DOMAIN table => new[i] = [table[i] EXCEPT !.state = state]
  BY DEF InState
<1>2. i \in DOMAIN table => "state" \in DOMAIN new[i] /\ new[i].state = state
  BY <1>1 DEF Stated
<1> HIDE DEF new
<1>3. Stated(new) /\ Calm(new, E)
  BY <1>1, <1>2 DEF Stated, Calm
<1>4. QED BY <1>3 DEF new

\* The table as it is.
LEMMA RestsCalmly == TableOK => Stated(intents) /\ \A E : Calm(intents, E)
<1> SUFFICES ASSUME TableOK PROVE Stated(intents) /\ \A E : Calm(intents, E)
  OBVIOUS
<1>1. \A k \in DOMAIN intents : intents[k] \in Intent
  BY RowType DEF RowsTyped, Intents
<1>2. Stated(intents)
  BY <1>1 DEF Stated, Intent
<1>3. QED BY <1>2 DEF Calm, Intents

\* Rows whose executions are being read are not found protected, their protection is set first.
LEMMA EntryVerdictPlain ==
  ASSUME ExposureInv, NEW s \in Signals, NEW known, NEW seen,
         SeenOK(orders["entry"][s], seen), SeenEntry(seen)
  PROVE  EntryVerdict(s, known, seen) # "protection_verified"
<1>1. /\ seen \in OrderState /\ seen.filled \in Nat /\ seen.status # "none"
  <2>1. \A q \in Quantities : q \in Nat
    BY ExecutionAssumption DEF Quantities
  <2>2. QED BY <2>1 DEF SeenOK, OrderState
<1>2. CASE seen.status = "new"
  <2>1. ~(seen.filled > 0) /\ seen.status \notin Over
    BY <1>2 DEF SeenEntry, Over
  <2>2. EntryVerdict(s, known, seen) = "working"
    BY <1>2, <2>1 DEF EntryVerdict
  <2>3. QED BY <2>2
<1>3. CASE seen.filled > 0
  <2>1. seen.status # "new" /\ seen.filled # 0
    BY <1>1, <1>3 DEF SeenEntry
  <2>2. EntryVerdict(s, known, seen) = FilledVerdict(s, known, seen)
    BY <1>1, <1>3, <2>1 DEF EntryVerdict
  <2>3. QED BY <2>2 DEF FilledVerdict
<1>4. CASE seen.status # "new" /\ ~(seen.filled > 0)
  <2>1. seen.filled = 0 /\ seen.status \in Over
    BY <1>1, <1>4 DEF SeenEntry, OrderState, Over
  <2>2. EntryVerdict(s, known, seen)
          = IF Held(s) = 0 /\ known = 0 THEN seen.status ELSE "reconciliation_required"
    BY <1>4, <2>1 DEF EntryVerdict
  <2>3. QED BY <2>1, <2>2 DEF Over
<1>5. QED BY <1>2, <1>3, <1>4

\* The same of a close.
LEMMA VerdictPlain ==
  ASSUME ExposureInv, NEW p \in Processes, job[p].pc \in {"resolve", "prove"}
  PROVE  Verdict(p) # "protection_verified"
<1>1. PICK i \in Intents : i = job[p].target
  BY WalkFacts
<1>2. PICK s \in Signals : s = intents[i].reservation
  BY <1>1, WalkFacts
<1>3. CASE intents[i].kind = "entry"
  <2>1. SeenOK(orders["entry"][s], job[p].seen) /\ SeenEntry(job[p].seen)
    BY <1>1, <1>2, <1>3, WalkFacts
  <2>2. Verdict(p) = EntryVerdict(s, job[p].known, job[p].seen)
    BY <1>1, <1>2, <1>3 DEF Verdict
  <2>3. QED BY <2>1, <2>2, EntryVerdictPlain
<1>4. CASE intents[i].kind = "close_position"
  <2>1. /\ Spent(s) /\ SeenOK(orders["close"][s], job[p].seen)
        /\ job[p].seen.status \in {"new", "filled", "cancelled"}
    BY <1>1, <1>2, <1>4, WalkFacts
  <2>2. Verdict(p) = CloseVerdict(s, job[p].seen)
    BY <1>1, <1>2, <1>4 DEF Verdict
  <2>3. CloseClaim(s, CloseVerdict(s, job[p].seen), TRUE)
    BY Zenon, <2>1, CloseVerdictClaim
  <2>4. QED BY <2>2, <2>3 DEF CloseClaim
<1>5. QED BY <1>1, <1>3, <1>4, WalkFacts

\* The judgement of a cancellation is none of protection.
LEMMA ConcludesCalmly ==
  ASSUME NEW p, NEW table, NEW E, Stated(table), Calm(table, E), NEW i, NEW state,
         Conclude(p, table, i, state)
  PROVE  Calm(intents', E)
<1>1. CancelVerdict(state) # "protection_verified"
  BY DEF CancelVerdict
<1>2. Calm(InState(table, Item(p), CancelVerdict(state)), E)
  BY <1>1, WritesCalmly
<1>3. intents' = table \/ intents' = InState(table, Item(p), CancelVerdict(state))
  BY DEF Conclude, Settle
<1>4. QED BY <1>2, <1>3

\* A row written in two fields.
LEMMA FieldsCalmly ==
  ASSUME TableOK, NEW i, NEW state, state # "protection_verified", NEW v
  PROVE  /\ Calm([intents EXCEPT ![i].state = state, ![i].synced = v], {})
         /\ Calm([intents EXCEPT ![i].state = state, ![i].filled = v], {})
<1>1. \A k \in DOMAIN intents : intents[k] \in Intent
  BY RowType DEF RowsTyped, Intents
<1>2. ASSUME NEW r \in Intent
      PROVE  /\ [r EXCEPT !.state = state, !.synced = v].state = state
             /\ [r EXCEPT !.state = state, !.filled = v].state = state
  BY DEF Intent
<1>3. Calm([intents EXCEPT ![i].state = state, ![i].synced = v], {})
  <2> DEFINE new == [intents EXCEPT ![i].state = state, ![i].synced = v]
  <2>1. /\ DOMAIN new = DOMAIN intents
        /\ \A k \in DOMAIN intents : k # i => new[k] = intents[k]
        /\ i \in DOMAIN intents =>
             new[i] = [intents[i] EXCEPT !.state = state, !.synced = v]
    OBVIOUS
  <2>2. \A k \in DOMAIN intents : new[k].state = intents[k].state \/ new[k].state = state
    BY <1>1, <1>2, <2>1
  <2>3. DOMAIN new = DOMAIN intents
    BY <2>1
  <2> HIDE DEF new
  <2>4. Calm(new, {})
    BY <2>2, <2>3 DEF Calm, Intents
  <2>5. QED BY <2>4 DEF new
<1>4. Calm([intents EXCEPT ![i].state = state, ![i].filled = v], {})
  <2> DEFINE new == [intents EXCEPT ![i].state = state, ![i].filled = v]
  <2>1. /\ DOMAIN new = DOMAIN intents
        /\ \A k \in DOMAIN intents : k # i => new[k] = intents[k]
        /\ i \in DOMAIN intents =>
             new[i] = [intents[i] EXCEPT !.state = state, !.filled = v]
    OBVIOUS
  <2>2. \A k \in DOMAIN intents : new[k].state = intents[k].state \/ new[k].state = state
    BY <1>1, <1>2, <2>1
  <2>3. DOMAIN new = DOMAIN intents
    BY <2>1
  <2> HIDE DEF new
  <2>4. Calm(new, {})
    BY <2>2, <2>3 DEF Calm, Intents
  <2>5. QED BY <2>4 DEF new
<1>5. QED BY <1>3, <1>4

\* A row written in a field beside its state.
LEMMA StampsCalmly ==
  ASSUME TableOK, NEW i, NEW v
  PROVE  /\ Calm([intents EXCEPT ![i].synced = v], {})
         /\ Calm([intents EXCEPT ![i].attempted = v], {})
<1>1. \A k \in DOMAIN intents : intents[k] \in Intent
  BY RowType DEF RowsTyped, Intents
<1>2. ASSUME NEW r \in Intent
      PROVE  /\ [r EXCEPT !.synced = v].state = r.state
             /\ [r EXCEPT !.attempted = v].state = r.state
  BY DEF Intent
<1>3. Calm([intents EXCEPT ![i].synced = v], {})
  <2> DEFINE new == [intents EXCEPT ![i].synced = v]
  <2>1. /\ DOMAIN new = DOMAIN intents
        /\ \A k \in DOMAIN intents : k # i => new[k] = intents[k]
        /\ i \in DOMAIN intents => new[i] = [intents[i] EXCEPT !.synced = v]
    OBVIOUS
  <2>2. \A k \in DOMAIN intents : new[k].state = intents[k].state
    BY <1>1, <1>2, <2>1
  <2>3. DOMAIN new = DOMAIN intents
    BY <2>1
  <2> HIDE DEF new
  <2>4. Calm(new, {})
    BY <2>2, <2>3 DEF Calm, Intents
  <2>5. QED BY <2>4 DEF new
<1>4. Calm([intents EXCEPT ![i].attempted = v], {})
  <2> DEFINE new == [intents EXCEPT ![i].attempted = v]
  <2>1. /\ DOMAIN new = DOMAIN intents
        /\ \A k \in DOMAIN intents : k # i => new[k] = intents[k]
        /\ i \in DOMAIN intents => new[i] = [intents[i] EXCEPT !.attempted = v]
    OBVIOUS
  <2>2. \A k \in DOMAIN intents : new[k].state = intents[k].state
    BY <1>1, <1>2, <2>1
  <2>3. DOMAIN new = DOMAIN intents
    BY <2>1
  <2> HIDE DEF new
  <2>4. Calm(new, {})
    BY <2>2, <2>3 DEF Calm, Intents
  <2>5. QED BY <2>4 DEF new
<1>5. QED BY <1>3, <1>4

\* A row that is finished is written with its final state only.
LEMMA RetiresCalmly ==
  ASSUME TableOK, NEW p, Retire(p)
  PROVE  Calm(intents', {})
<1>1. PICK i : i = Item(p)
  OBVIOUS
<1>2. CASE \E v : intents' = [intents EXCEPT ![i].state = "cancelled", ![i].synced = v]
  <2>1. PICK v : intents' = [intents EXCEPT ![i].state = "cancelled", ![i].synced = v]
    BY Zenon, <1>2
  <2>2. Calm([intents EXCEPT ![i].state = "cancelled", ![i].synced = v], {})
    BY FieldsCalmly
  <2>3. QED BY Zenon, <2>1, <2>2
<1>3. CASE intents' = InState(intents, i, "reconciliation_required")
  BY <1>3, RestsCalmly, WritesCalmly
<1>4. \/ \E v : intents' = [intents EXCEPT ![i].state = "cancelled", ![i].synced = v]
      \/ intents' = InState(intents, i, "reconciliation_required")
  <2>1. CASE Redundant(Owned(p))
    <3>1. PICK gone : gone = (Status(book, Owned(p)) \in Released)
      OBVIOUS
    <3>2. intents' = [intents EXCEPT ![i].state = "cancelled", ![i].synced = @ \/ gone]
      BY <1>1, <2>1, <3>1 DEF Retire, Settle
    <3>3. PICK v : v = (InState(intents, i, "cancelled")[i].synced \/ gone)
      BY Zenon
    <3>4. intents' = [intents EXCEPT ![i].state = "cancelled", ![i].synced = v]
      BY Zenon, <3>2, <3>3 DEF InState
    <3>5. QED BY <3>4
  <2>2. CASE ~Redundant(Owned(p))
    BY <1>1, <2>2 DEF Retire, Fail
  <2>3. QED BY <2>1, <2>2
<1>5. QED BY <1>2, <1>3, <1>4

\* The first reads find a row protected only if it was.
LEMMA ReconcilesCalmly ==
  ASSUME ExposureInv, NEW p \in Processes, Reconcile(p)
  PROVE  Calm(intents', {})
<1>1. TableOK /\ Stated(intents) /\ Calm(intents, {})
  BY RestsCalmly DEF ExposureInv
<1>2. CASE intents' = intents
  BY <1>1, <1>2
<1>3. CASE Retire(p)
  BY <1>1, <1>3, RetiresCalmly
<1>4. PICK i : i = Target(p)
  OBVIOUS
<1>5. CASE /\ intents[i].state \in Protected
           /\ Conclude(p, InState(intents, i, ProtectedVerdict(i)), i, ProtectedVerdict(i))
  <2>1. ProtectedVerdict(i) = "protection_verified" =>
          intents[i].state = "protection_verified"
    BY DEF ProtectedVerdict
  <2>2. Item(p) \in Intents /\ intents[Item(p)].reservation \in Signals
    BY <1>1, WalkStarts, RowType DEF Reconcile, RowsTyped
  <2>3. i \in Intents
    <3>1. CASE intents[Item(p)].kind = "cancel_entry"
      <4>1. intents[Item(p)].state # "planned"
        BY <3>1, WalkStarts DEF Reconcile
      <4>2. Of("entry", intents[Item(p)].reservation) # {}
        BY <2>2, <3>1, <4>1 DEF ExposureInv, EvidenceOK, RowOK, Claim, CancelClaim
      <4>3. EntryOf(intents[Item(p)].reservation) \in Intents
        BY <2>2, <4>2, EntryRow
      <4>4. QED BY <1>4, <3>1, <4>3 DEF Target, Owned
    <3>2. QED BY <1>4, <2>2, <3>1 DEF Target
  <2>4. /\ Stated(InState(intents, i, ProtectedVerdict(i)))
        /\ Calm(InState(intents, i, ProtectedVerdict(i)), {})
    BY <1>1, <2>1, <2>3, WritesCalmly
  <2>5. QED BY <1>5, <2>4, ConcludesCalmly
<1>6. CASE ReadOrder(p, i)
  <2>1. Calm(InState(intents, i, "reconciliation_required"), {})
    BY <1>1, WritesCalmly
  <2>2. \/ intents' = intents
        \/ intents' = InState(intents, i, "reconciliation_required")
    BY <1>6 DEF ReadOrder, Fail
  <2>3. QED BY <1>1, <2>1, <2>2
<1>7. QED BY <1>2, <1>3, <1>4, <1>5, <1>6 DEF Reconcile, Settle

\* A row that becomes protected has its TP and SL from this step on.
Shields ==
  \A k \in Intents' :
    intents'[k].state = "protection_verified" =>
      \/ k \in Intents /\ intents[k].state = "protection_verified"
      \/ stops'[SymbolOf[intents'[k].reservation]] = intents'[k].reservation

\* The TP and SL of a position stay as long as it is held.
KeepsStops ==
  \A t \in Signals :
    Exposure(t) > 0 /\ Exposure(t)' > 0 /\ stops[SymbolOf[t]] = t => stops'[SymbolOf[t]] = t

Guards == Shields /\ (OneEachWay => KeepsStops)

\* A step without news of protection.
LEMMA CalmGuards ==
  ASSUME Calm(intents', {}), UNCHANGED stops
  PROVE  Guards
<1>1. Shields
  BY DEF Calm, Shields, Intents
<1>2. KeepsStops
  BY DEF KeepsStops
<1>3. QED BY <1>1, <1>2 DEF Guards

\* The table stays as it is.
LEMMA StillGuards ==
  ASSUME TableOK, UNCHANGED <<intents, stops>>
  PROVE  Guards
<1>1. Calm(intents, {}) /\ intents' = intents /\ UNCHANGED stops
  BY RestsCalmly
<1>2. Calm(intents', {})
  BY <1>1
<1>3. QED BY <1>1, <1>2, CalmGuards

\* _set_and_verify_protection puts the TP and SL before the row says so, and never on
\* the position of another.
LEMMA ProtectGuards ==
  ASSUME ExposureInv, NEW p \in Processes, Protect(p), Progress
  PROVE  Guards
<1>1. /\ job[p].pc = "protect" /\ TableOK /\ RowsTyped /\ ExchangeTypeOK
  BY RowType DEF Protect, At, ExposureInv, ExchangeOK
<1>2. PICK i \in Intents : i = job[p].target
  BY <1>1, WalkFacts
<1>3. PICK s \in Signals : s = intents[i].reservation
  BY <1>1 DEF RowsTyped
<1>4. CASE Fail(p, intents) /\ UNCHANGED stops
  BY <1>1, <1>4, StillGuards DEF Fail
<1>5. CASE Held(s) > 0 /\ StopsSet(s)
  <2>1. /\ SymbolOf[s] \in Symbols
        /\ stops' = [stops EXCEPT ![SymbolOf[s]] = s] /\ stops \in [Symbols -> Signals \cup {NoStop}]
    BY <1>1, <1>5, SignalAssumption DEF StopsSet, ExchangeTypeOK
  <2>2. stops'[SymbolOf[s]] = s /\ \A y \in Symbols : y # SymbolOf[s] => stops'[y] = stops[y]
    BY <2>1
  <2>3. Stated(intents) /\ Calm(intents, {i})
    BY <1>1, RestsCalmly
  <2>4. Calm(InState(intents, i, "protection_verified"), {i})
        /\ Stated(InState(intents, i, "protection_verified"))
    BY <2>3, WritesCalmly
  <2>5. Calm(intents', {i})
    <3>1. CASE Conclude(p, InState(intents, i, "protection_verified"), i, "protection_verified")
      BY <2>4, <3>1, ConcludesCalmly
    <3>2. CASE intents' = intents
      BY <2>3, <3>2
    <3>3. \/ Conclude(p, InState(intents, i, "protection_verified"), i, "protection_verified")
          \/ intents' = intents
      BY <1>2, <1>3, <1>5 DEF Protect, Fail
    <3>4. QED BY <3>1, <3>2, <3>3
  <2>6. intents'[i].reservation = s
    BY <1>3 DEF Progress, MovesOn
  <2>7. Shields
    BY <2>2, <2>5, <2>6 DEF Calm, Shields, Intents
  <2>8. ASSUME OneEachWay, NEW t \in Signals, Exposure(t) > 0, stops[SymbolOf[t]] = t
        PROVE  stops'[SymbolOf[t]] = t
    <3>1. CASE SymbolOf[t] # SymbolOf[s]
      BY <2>2, <2>8, <3>1, SignalAssumption
    <3>2. CASE SymbolOf[t] = SymbolOf[s]
      <4>1. Held(t) = Exposure(t) /\ Exposure(t) \in Nat
        BY <2>8, PositionFacts
      <4>2. PICK q : q = Position(SymbolOf[s])
        OBVIOUS
      <4>3. Signed(t, q) > 0 /\ Signed(s, q) > 0
        BY <1>5, <2>8, <3>2, <4>1, <4>2 DEF Held
      <4>4. Signed(t, q) \in Nat
        BY <3>2, <4>1, <4>2 DEF Held
      <4>5. q \in Int
        <5>1. q = Signed(t, Exposure(t))
          BY <2>8, <3>2, <4>2, PositionOwned
        <5>2. QED BY <4>1, <5>1 DEF Signed
      <4>6. DirectionOf[t] = DirectionOf[s]
        BY <4>3, <4>5, SignalAssumption DEF Signed, Directions
      <4>7. t = s
        BY <2>8, <3>2, <4>6 DEF OneEachWay
      <4>8. QED BY <2>2, <4>7
    <3>3. QED BY <3>1, <3>2
  <2>9. QED BY <2>7, <2>8 DEF Guards, KeepsStops
<1>6. QED BY <1>2, <1>3, <1>4, <1>5 DEF Protect

\* An exit takes the TP and SL away with the position, and with no other.
LEMMA ExitGuards ==
  ASSUME ExposureInv, NEW s \in Signals, NEW q \in Nat, 0 < q, q <= Exposure(s), AfterExit(s, q),
         UNCHANGED intents, \A t \in Signals : orders'["entry"][t] = orders["entry"][t]
  PROVE  Guards
<1>1. /\ TableOK /\ ExchangeTypeOK /\ OrdersTyped
  BY OrderType DEF ExposureInv, ExchangeOK
<1>2. /\ exited' = [exited EXCEPT ![s] = exited[s] + q]
      /\ exited[s] \in Nat /\ orders["entry"][s].filled \in Nat
      /\ DOMAIN exited = Signals
  BY <1>1 DEF AfterExit, ExchangeTypeOK, OrdersTyped
<1>3. Exposure(s) \in Nat /\ Exposure(s)' = Exposure(s) - q
  BY <1>2, PositionFacts DEF Exposure
<1>4. Position(SymbolOf[s]) = Signed(s, Exposure(s))
      /\ \A t \in Signals \ {s} : SymbolOf[t] = SymbolOf[s] => Exposure(t) = 0
  BY <1>3, PositionOwned
<1>5. Position(SymbolOf[s]) = Signed(s, q) => Exposure(s) = q
  BY <1>3, <1>4 DEF Signed
<1>6. stops \in [Symbols -> Signals \cup {NoStop}] /\ SymbolOf[s] \in Symbols
  BY <1>1, SignalAssumption DEF ExchangeTypeOK
<1>7. KeepsStops
  <2>1. SUFFICES ASSUME NEW t \in Signals, Exposure(t) > 0, Exposure(t)' > 0,
                        stops[SymbolOf[t]] = t
                 PROVE  stops'[SymbolOf[t]] = t
    BY DEF KeepsStops
  <2>2. CASE stops' = stops
    BY <2>1, <2>2
  <2>3. CASE /\ Position(SymbolOf[s]) = Signed(s, q)
             /\ stops' = [stops EXCEPT ![SymbolOf[s]] = NoStop]
    <3>1. Exposure(s)' = 0
      BY <1>3, <1>5, <2>3
    <3>2. t # s
      BY <2>1, <3>1
    <3>3. SymbolOf[t] # SymbolOf[s]
      BY <1>4, <2>1, <3>2
    <3>4. QED BY <1>6, <2>1, <2>3, <3>3, SignalAssumption
  <2>4. QED BY <2>2, <2>3 DEF AfterExit
<1>8. Calm(intents', {})
  <2>1. Calm(intents, {}) /\ intents' = intents
    BY <1>1, RestsCalmly
  <2>2. QED BY <2>1
<1>9. Shields
  BY <1>8 DEF Calm, Shields, Intents
<1>10. QED BY <1>7, <1>9 DEF Guards

\* What happens at the exchange.
LEMMA ExchangeGuards ==
  ASSUME ExposureInv, NEW s \in Signals, ExchangeWorks(s) \/ PriceMoves(s)
  PROVE  Guards
<1>1. TableOK /\ UNCHANGED intents /\ OrdersTyped /\ ExchangeTypeOK
      /\ Exposure(s) \in Nat
  BY OrderType, PositionFacts
     DEF ExposureInv, ExchangeWorks, PriceMoves, ledgerVars, ExchangeOK
<1>2. CASE UNCHANGED stops
  BY <1>1, <1>2, StillGuards
<1>3. CASE FillClose(s)
  <2>1. PICK q : q = IF orders["close"][s].size < Exposure(s) THEN orders["close"][s].size
                                                              ELSE Exposure(s)
    OBVIOUS
  <2>2. /\ orders' = [orders EXCEPT !["close"][s].status = "filled", !["close"][s].filled = q]
        /\ AfterExit(s, q) /\ Exposure(s) > 0
    BY Zenon, <1>3, <2>1 DEF FillClose
  <2>3. q \in Nat /\ q <= Exposure(s)
    BY <1>1, <2>1 DEF OrdersTyped
  <2>4. \A t \in Signals : orders'["entry"][t] = orders["entry"][t]
    BY <1>1, <2>2 DEF ExchangeTypeOK
  <2>5. CASE q = 0
    <3>1. stops' = stops
      <4>1. Position(SymbolOf[s]) = Signed(s, Exposure(s)) /\ Exposure(s) # 0
        BY <2>2, PositionOwned
      <4>2. Position(SymbolOf[s]) # Signed(s, q)
        BY <1>1, <2>5, <4>1 DEF Signed
      <4>3. QED BY <2>2, <4>2 DEF AfterExit
    <3>2. QED BY <1>2, <3>1
  <2>6. CASE q # 0
    <3>1. 0 < q
      BY <2>3, <2>6
    <3>2. QED BY <1>1, <2>2, <2>3, <2>4, <3>1, ExitGuards
  <2>7. QED BY <2>5, <2>6
<1>4. CASE HitStop(s)
  <2>1. /\ AfterExit(s, Exposure(s)) /\ Exposure(s) > 0
        /\ \A t \in Signals : orders'["entry"][t] = orders["entry"][t]
    BY <1>4 DEF HitStop
  <2>2. PICK q \in Nat : q = Exposure(s) /\ 0 < q /\ q <= Exposure(s)
    BY <1>1, <2>1
  <2>3. AfterExit(s, q)
    BY <2>1, <2>2
  <2>4. QED BY <1>1, <2>1, <2>2, <2>3, ExitGuards
<1>5. UNCHANGED stops \/ FillClose(s) \/ HitStop(s)
  BY DEF ExchangeWorks, PriceMoves, EffectCancel, LapseClose, Report, FillEntry, RefusePostOnly
<1>6. QED BY <1>2, <1>3, <1>4, <1>5

\* The walk of any process.
LEMMA WalkGuards ==
  ASSUME ExposureInv, NEW p \in Processes, ReconcileStep(p), Progress
  PROVE  Guards
<1>1. TableOK /\ Stated(intents) /\ Calm(intents, {})
  BY RestsCalmly DEF ExposureInv
<1>2. CASE Reconcile(p)
  BY <1>2, ReconcilesCalmly, CalmGuards DEF Reconcile, exchangeVars
<1>3. CASE Resolve(p)
  <2>1. Calm(intents', {})
    <3>1. PICK i : i = job[p].target
      OBVIOUS
    <3>2. job[p].pc = "resolve"
      BY <1>3 DEF Resolve, At
    <3>3. Verdict(p) # "protection_verified"
      BY <3>2, VerdictPlain
    <3>4. /\ Stated(InState(intents, i, Verdict(p)))
          /\ Calm(InState(intents, i, Verdict(p)), {})
      BY <1>1, <3>3, WritesCalmly
    <3>5. CASE Conclude(p, InState(intents, i, Verdict(p)), i, Verdict(p))
      BY <3>4, <3>5, ConcludesCalmly
    <3>6. CASE intents' = [intents EXCEPT ![i].state = "filled", ![i].filled = job[p].seen.filled]
      <4>1. Calm([intents EXCEPT ![i].state = "filled", ![i].filled = job[p].seen.filled], {})
        BY <1>1, FieldsCalmly
      <4>2. QED BY Zenon, <3>6, <4>1
    <3>7. QED BY <1>3, <3>1, <3>5, <3>6 DEF Resolve
  <2>2. QED BY <1>3, <2>1, CalmGuards DEF Resolve, exchangeVars
<1>4. CASE Protect(p)
  BY <1>4, ProtectGuards
<1>5. CASE CancelRemainder(p) \/ QueryFails(p)
  BY <1>1, <1>5, StillGuards DEF CancelRemainder, QueryFails, Fail, exchangeVars
<1>6. CASE ReadAgain(p)
  <2>1. Calm(intents', {})
    <3>1. PICK i : i = job[p].target
      OBVIOUS
    <3>2. /\ Stated(InState(intents, i, "reconciliation_required"))
          /\ Calm(InState(intents, i, "reconciliation_required"), {})
      BY <1>1, WritesCalmly
    <3>3. CASE Conclude(p, InState(intents, i, "reconciliation_required"), i,
                        "reconciliation_required")
      BY <3>2, <3>3, ConcludesCalmly
    <3>4. CASE intents' = intents
      BY <1>1, <3>4
    <3>5. QED BY <1>6, <3>1, <3>3, <3>4 DEF ReadAgain
  <2>2. QED BY <1>6, <2>1, CalmGuards DEF ReadAgain, exchangeVars
<1>7. QED BY <1>2, <1>3, <1>4, <1>5, <1>6 DEF ReconcileStep

\* A row with its new state, and a new row.
LEMMA OneCalmly ==
  ASSUME TableOK, NEW i, NEW state, state # "protection_verified"
  PROVE  /\ Calm(InState(intents, i, state), {})
         /\ \A k : Calm(InState(InState(intents, k, state), i, state), {})
<1>1. Stated(intents) /\ Calm(intents, {})
  BY RestsCalmly
<1>2. Calm(InState(intents, i, state), {})
  BY <1>1, WritesCalmly
<1>3. ASSUME NEW k PROVE Calm(InState(InState(intents, k, state), i, state), {})
  <2>1. Stated(InState(intents, k, state)) /\ Calm(InState(intents, k, state), {})
    BY <1>1, WritesCalmly
  <2>2. QED BY <2>1, WritesCalmly
<1>4. QED BY <1>2, <1>3

\* A row that is planned is in no order yet, so it is calm.
LEMMA PlansCalmly ==
  ASSUME TableOK, NEW c, NEW a
  PROVE  Calm(Append(intents, IntentFor(c, a)), {})
<1>1. PICK row : row = IntentFor(c, a)
  OBVIOUS
<1>2. row.state = "planned"
  BY <1>1 DEF IntentFor
<1>3. intents \in Seq(Intent)
  BY DEF TableOK
<1>4. /\ DOMAIN Append(intents, row) = DOMAIN intents \cup {Len(intents) + 1}
      /\ \A i \in DOMAIN intents : Append(intents, row)[i] = intents[i]
      /\ Append(intents, row)[Len(intents) + 1] = row
  BY <1>3, AppendProperties, LenProperties
<1>5. QED BY <1>1, <1>2, <1>4 DEF Calm, Intents

\* A step of the monitor.
LEMMA MonitorGuards ==
  ASSUME ExposureInv, MonitorStep, Progress
  PROVE  Guards
<1>1. TableOK /\ Calm(intents, {}) /\ "monitor" \in Processes
  BY RestsCalmly DEF ExposureInv, Processes
<1>2. PICK i : i = Item("monitor")
  OBVIOUS
<1>3. CASE MonitorBegins \/ MonitorSweeps \/ MonitorExpires \/ MonitorSettles
  BY <1>1, <1>3, StillGuards
     DEF MonitorBegins, MonitorSweeps, MonitorExpires, MonitorSettles, exchangeVars
<1>4. CASE Synchronize("monitor")
  <2>1. Calm([intents EXCEPT ![i].synced = TRUE], {})
    BY <1>1, StampsCalmly
  <2>2. intents' = intents \/ intents' = [intents EXCEPT ![i].synced = TRUE]
    BY <1>2, <1>4 DEF Synchronize
  <2>3. Calm(intents', {})
    BY Zenon, <1>1, <2>1, <2>2
  <2>4. QED BY <1>4, <2>3, CalmGuards DEF Synchronize, exchangeVars
<1>5. CASE PlansFollowUp("monitor")
  <2>1. PICK c, a : intents' = Append(intents, IntentFor(c, a))
    BY <1>5 DEF PlansFollowUp
  <2>2. QED BY <1>1, <1>5, <2>1, PlansCalmly, CalmGuards DEF PlansFollowUp, exchangeVars
<1>6. CASE FollowedUp("monitor")
  <2>1. Calm([intents EXCEPT ![i].synced = TRUE], {})
        /\ Calm(InState(intents, i, "position_closed"), {})
    BY <1>1, StampsCalmly, OneCalmly
  <2>2. \/ intents' = intents \/ intents' = [intents EXCEPT ![i].synced = TRUE]
        \/ intents' = InState(intents, i, "position_closed")
    BY <1>2, <1>6 DEF FollowedUp
  <2>3. Calm(intents', {})
    BY Zenon, <1>1, <2>1, <2>2
  <2>4. QED BY <1>6, <2>3, CalmGuards DEF FollowedUp, exchangeVars
<1>7. CASE ReconcileStep("monitor")
  BY <1>1, <1>7, WalkGuards
<1>8. CASE Attribute("monitor")
  BY <1>1, <1>8, StillGuards DEF Attribute, exchangeVars
<1>9. QED BY <1>3, <1>4, <1>5, <1>6, <1>7, <1>8 DEF MonitorStep

\* The POST of an order, and its answer.
LEMMA PostGuards ==
  ASSUME ExposureInv, NEW p, Post(p)
  PROVE  Guards
<1>1. TableOK /\ Calm(intents, {})
  BY RestsCalmly DEF ExposureInv
<1>2. PICK i : i = Item(p)
  OBVIOUS
<1>3. intents' = intents \/ intents' = InState(intents, i, "acknowledged")
  BY <1>2 DEF Post, Acknowledge
<1>4. QED BY <1>1, <1>3, OneCalmly, CalmGuards DEF Post

\* A step of the worker.
LEMMA WorkerGuards ==
  ASSUME ExposureInv, WorkerStep, Progress
  PROVE  Guards
<1>1. TableOK /\ Calm(intents, {}) /\ "worker" \in Processes
  BY RestsCalmly DEF ExposureInv, Processes
<1>2. PICK i : i = Item("worker")
  OBVIOUS
<1>3. CASE WorkerBegins \/ WorkerRetries \/ WorkerPlaces \/ WorkerPassesStale
  BY <1>1, <1>3, StillGuards
     DEF WorkerBegins, WorkerRetries, WorkerPlaces, WorkerPassesStale, exchangeVars
<1>4. CASE WorkerProposes \/ WorkerRecordsRun \/ WorkerAdvances \/ WorkerEnds
  BY <1>1, <1>4, StillGuards
     DEF WorkerProposes, WorkerRecordsRun, WorkerAdvances, WorkerEnds, exchangeVars
<1>5. CASE WorkerPlans
  <2>1. PICK c, a : intents' = Append(intents, IntentFor(c, a))
    BY <1>5 DEF WorkerPlans
  <2>2. QED BY <1>1, <1>5, <2>1, PlansCalmly, CalmGuards DEF WorkerPlans, exchangeVars
<1>6. CASE SubmitsNothing("worker") \/ SubmitsDependency \/ SubmitsAttempted("worker")
  BY <1>1, <1>6, StillGuards DEF SubmitsNothing, SubmitsDependency, SubmitsAttempted, exchangeVars
<1>7. CASE SubmitsEntry
  <2>1. /\ Calm(InState(intents, i, "cancelled"), {})
        /\ Calm(InState(intents, i, "reconciliation_required"), {})
        /\ Calm([intents EXCEPT ![i].attempted = TRUE], {})
    BY <1>1, OneCalmly, StampsCalmly
  <2>2. \/ intents' = InState(intents, i, "cancelled")
        \/ intents' = InState(intents, i, "reconciliation_required")
        \/ intents' = [intents EXCEPT ![i].attempted = TRUE]
    BY <1>2, <1>7 DEF SubmitsEntry
  <2>3. Calm(intents', {})
    BY Zenon, <2>1, <2>2
  <2>4. QED BY <1>7, <2>3, CalmGuards DEF SubmitsEntry, exchangeVars
<1>8. CASE SubmitsClose("worker")
  <2>1. Calm([intents EXCEPT ![i].attempted = TRUE], {})
    BY <1>1, StampsCalmly
  <2>2. intents' = intents \/ intents' = [intents EXCEPT ![i].attempted = TRUE]
    BY <1>2, <1>8 DEF SubmitsClose
  <2>3. Calm(intents', {})
    BY Zenon, <1>1, <2>1, <2>2
  <2>4. QED BY <1>8, <2>3, CalmGuards DEF SubmitsClose, exchangeVars
<1>9. CASE Post("worker")
  BY <1>9, PostGuards
<1>10. CASE SubmitsCancel
  <2>1. PICK k : k = EntryOf(Owned("worker"))
    OBVIOUS
  <2>2. /\ Calm(InState(InState(intents, k, "cancelled"), i, "cancelled"), {})
        /\ Calm(InState(intents, i, "acknowledged"), {})
    BY <1>1, OneCalmly
  <2>3. CASE Retire("worker")
    BY <1>1, <1>10, <2>3, RetiresCalmly, CalmGuards DEF SubmitsCancel
  <2>4. \/ intents' = intents \/ Retire("worker")
        \/ intents' = InState(InState(intents, k, "cancelled"), i, "cancelled")
        \/ intents' = InState(intents, i, "acknowledged")
    BY <1>2, <1>10, <2>1 DEF SubmitsCancel, Acknowledge
  <2>5. UNCHANGED stops
    BY <1>10 DEF SubmitsCancel
  <2>6. QED BY <1>1, <2>2, <2>3, <2>4, <2>5, CalmGuards
<1>11. CASE ReconcileStep("worker")
  BY <1>1, <1>11, WalkGuards
<1>12. QED
  BY <1>3, <1>4, <1>5, <1>6, <1>7, <1>8, <1>9, <1>10, <1>11 DEF WorkerStep

\* The operator's command begins.
LEMMA BeginsGuards ==
  ASSUME ExposureInv, NEW i \in Intents, Begins(i)
  PROVE  Guards
<1>1. TableOK /\ UNCHANGED stops /\ RowsTyped
  BY RowType DEF ExposureInv, Begins, exchangeVars
<1>2. CASE UNCHANGED intents
  BY <1>1, <1>2, StillGuards
<1>3. PICK closes : closes = Closes(intents[i].reservation)
  OBVIOUS
<1>4. CASE intents' = [c \in Intents |->
                         IF c = i THEN [intents[c] EXCEPT !.state = "position_closed"]
                         ELSE [intents[c] EXCEPT !.synced = @ \/ c \in closes]]
  <2>1. Intents' = Intents
    BY <1>4 DEF Intents
  <2>2. ASSUME NEW c \in Intents
        PROVE  intents'[c].state = intents[c].state \/ intents'[c].state = "position_closed"
    <3>1. intents[c] \in Intent
      BY <1>1 DEF RowsTyped
    <3>2. CASE c = i
      <4>1. intents'[c] = [intents[c] EXCEPT !.state = "position_closed"]
        BY <1>4, <3>2
      <4>2. QED BY <3>1, <4>1 DEF Intent
    <3>3. CASE c # i
      <4>1. PICK v : v = (intents[c].synced \/ c \in closes)
        OBVIOUS
      <4>2. intents'[c] = [intents[c] EXCEPT !.synced = v]
        BY <1>4, <3>3, <4>1
      <4>3. QED BY <3>1, <4>2 DEF Intent
    <3>4. QED BY <3>2, <3>3
  <2>3. Calm(intents', {})
    BY <2>1, <2>2 DEF Calm, Intents
  <2>4. QED BY <1>1, <2>3, CalmGuards
<1>5. QED BY <1>2, <1>3, <1>4 DEF Begins

\* The operator's proof of an entry is none of its protection.
LEMMA ProvesGuards ==
  ASSUME ExposureInv, Proves
  PROVE  Guards
<1>1. TableOK /\ UNCHANGED stops
  BY DEF ExposureInv, Proves, exchangeVars
<1>2. PICK p \in Processes : p = "operator"
  BY DEF Processes
<1>3. PICK i : i = Item(p)
  OBVIOUS
<1>4. PICK verdict : verdict = EntryVerdict(Owned(p), job[p].known, job[p].seen)
  OBVIOUS
<1>5. At(p, "prove")
  BY <1>2 DEF Proves, Operator
<1>6. verdict # "protection_verified"
  <2>1. /\ Owned(p) \in Signals /\ SeenEntry(job[p].seen)
        /\ SeenOK(orders["entry"][Owned(p)], job[p].seen)
    BY <1>2, <1>5, AtProof
  <2>2. QED BY <1>4, <2>1, EntryVerdictPlain
<1>7. PICK q : q = job[p].seen.filled
  OBVIOUS
<1>8. \/ intents' = [intents EXCEPT ![i].state = "filled", ![i].filled = q]
      \/ intents' = InState(intents, i, verdict)
  BY Zenon, <1>2, <1>3, <1>4, <1>7 DEF Proves, Operator
<1>9. /\ Calm([intents EXCEPT ![i].state = "filled", ![i].filled = q], {})
      /\ Calm(InState(intents, i, verdict), {})
  BY <1>1, <1>6, FieldsCalmly, OneCalmly
<1>10. Calm(intents', {})
  BY Zenon, <1>8, <1>9
<1>11. QED BY <1>1, <1>10, CalmGuards

\* A step of the operator's command.
LEMMA OperatorGuards ==
  ASSUME ExposureInv, OperatorStep, Progress
  PROVE  Guards
<1>1. TableOK /\ Calm(intents, {})
  BY RestsCalmly DEF ExposureInv
<1>2. PICK p \in Processes : p = "operator"
  BY DEF Processes
<1>3. PICK i : i = Item(p)
  OBVIOUS
<1>4. CASE Inspects \/ Requests \/ Orders \/ OrdersPlanned \/ Accounts
  BY <1>1, <1>4, StillGuards
     DEF Inspects, Requests, Orders, OrdersPlanned, Accounts, exchangeVars
<1>5. CASE Proves
  BY <1>5, ProvesGuards
<1>6. CASE Drops \/ Finishes
  <2>1. \/ intents' = InState(intents, i, "cancelled")
        \/ intents' = InState(intents, i, "position_closed")
    BY <1>2, <1>3, <1>6 DEF Drops, Finishes, Operator
  <2>2. UNCHANGED stops
    BY <1>6 DEF Drops, Finishes, exchangeVars
  <2>3. QED BY <1>1, <2>1, <2>2, OneCalmly, CalmGuards
<1>7. CASE Synchronize(p)
  <2>1. Calm([intents EXCEPT ![i].synced = TRUE], {})
    BY <1>1, StampsCalmly
  <2>2. intents' = intents \/ intents' = [intents EXCEPT ![i].synced = TRUE]
    BY <1>3, <1>7 DEF Synchronize
  <2>3. Calm(intents', {})
    BY Zenon, <1>1, <2>1, <2>2
  <2>4. QED BY <1>7, <2>3, CalmGuards DEF Synchronize, exchangeVars
<1>8. CASE PlansFollowUp(p)
  <2>1. PICK c, a : intents' = Append(intents, IntentFor(c, a))
    BY <1>8 DEF PlansFollowUp
  <2>2. QED BY <1>1, <1>8, <2>1, PlansCalmly, CalmGuards DEF PlansFollowUp, exchangeVars
<1>9. CASE FollowedUp(p)
  <2>1. Calm([intents EXCEPT ![i].synced = TRUE], {})
        /\ Calm(InState(intents, i, "position_closed"), {})
    BY <1>1, StampsCalmly, OneCalmly
  <2>2. \/ intents' = intents \/ intents' = [intents EXCEPT ![i].synced = TRUE]
        \/ intents' = InState(intents, i, "position_closed")
    BY <1>3, <1>9 DEF FollowedUp
  <2>3. Calm(intents', {})
    BY Zenon, <1>1, <2>1, <2>2
  <2>4. QED BY <1>9, <2>3, CalmGuards DEF FollowedUp, exchangeVars
<1>10. CASE SubmitsNothing(p) \/ SubmitsAttempted(p)
  BY <1>1, <1>10, StillGuards DEF SubmitsNothing, SubmitsAttempted, exchangeVars
<1>11. CASE SubmitsClose(p)
  <2>1. Calm([intents EXCEPT ![i].attempted = TRUE], {})
    BY <1>1, StampsCalmly
  <2>2. intents' = intents \/ intents' = [intents EXCEPT ![i].attempted = TRUE]
    BY <1>3, <1>11 DEF SubmitsClose
  <2>3. Calm(intents', {})
    BY Zenon, <1>1, <2>1, <2>2
  <2>4. QED BY <1>11, <2>3, CalmGuards DEF SubmitsClose, exchangeVars
<1>12. CASE Post(p)
  BY <1>12, PostGuards
<1>13. CASE Reconcile(p) \/ Resolve(p)
  BY <1>13, WalkGuards DEF ReconcileStep
<1>14. QED
  BY <1>2, <1>4, <1>5, <1>6, <1>7, <1>8, <1>9, <1>10, <1>11, <1>12, <1>13
     DEF OperatorStep, Operator

\* Every step.
LEMMA StepGuards ==
  ASSUME ExposureInv, [OwnedCloseNext]_allVars, Progress
  PROVE  Guards
<1>1. TableOK
  BY DEF ExposureInv
<1>2. CASE UNCHANGED allVars
  BY <1>1, <1>2, StillGuards DEF allVars, ledgerVars, exchangeVars
<1>3. CASE RuntimeStep
  BY <1>3, MonitorGuards, WorkerGuards DEF RuntimeStep
<1>4. CASE \E i \in Intents : Begins(i)
  BY <1>4, BeginsGuards
<1>5. CASE OperatorStep
  BY <1>5, OperatorGuards
<1>6. CASE OperatorStops \/ (\E p \in Processes : Crash(p)) \/ Tick \/ Mark
  <2>1. UNCHANGED <<intents, stops>>
    BY <1>6 DEF OperatorStops, Crash, Tick, Mark, ledgerVars, exchangeVars
  <2>2. QED BY <1>1, <2>1, StillGuards
<1>7. CASE \E s \in Signals : ExchangeWorks(s) \/ PriceMoves(s)
  BY <1>7, ExchangeGuards
<1>8. QED BY <1>2, <1>3, <1>4, <1>5, <1>6, <1>7 DEF OwnedCloseNext

\* What is protected stays protected for as long as it is held.
LEMMA ProtectionStays ==
  ASSUME ExposureInv, ExposureInv', Progress, Guards, ProtectionIsReal
  PROVE  ProtectionIsReal'
<1>1. SUFFICES ASSUME OneEachWay,
                      NEW i \in Intents', intents'[i].kind = "entry",
                      intents'[i].state = "protection_verified",
                      NEW s \in Signals, s = intents'[i].reservation, Exposure(s)' > 0
               PROVE  stops'[SymbolOf[s]] = s
  <2>1. RowsTyped'
    <3>1. TableOK'
      BY DEF ExposureInv
    <3>2. QED BY <3>1, RowType, PTL
  <2>2. QED BY <2>1 DEF ProtectionIsReal, RowsTyped, OneEachWay
<1>2. CASE stops'[SymbolOf[intents'[i].reservation]] = intents'[i].reservation
  BY <1>1, <1>2
<1>3. CASE i \in Intents /\ intents[i].state = "protection_verified"
  <2>1. intents[i].kind = "entry" /\ intents[i].reservation = s
    BY <1>1, <1>3 DEF Progress, MovesOn
  <2>2. Spent(s)
    BY <1>3, <2>1 DEF ExposureInv, EvidenceOK, RowOK, Claim, EntryClaim
  <2>3. orders'["entry"][s] = orders["entry"][s] /\ exited[s] <= exited'[s]
    BY <2>2 DEF Progress, GoesOn, Spent
  <2>4. exited[s] \in Nat /\ orders["entry"][s].filled \in Nat
    BY OrderType DEF ExposureInv, OrdersTyped
  <2>5. exited'[s] \in Nat
    <3>1. ExchangeOK'
      BY DEF ExposureInv
    <3>2. OrdersTyped'
      BY <3>1, OrderType, PTL
    <3>3. QED BY <3>2 DEF OrdersTyped
  <2>6. Exposure(s) > 0
    BY <1>1, <2>3, <2>4, <2>5 DEF Exposure
  <2>7. stops[SymbolOf[s]] = s
    BY <1>1, <1>3, <2>1, <2>6 DEF ProtectionIsReal
  <2>8. QED BY <1>1, <2>6, <2>7 DEF Guards, KeepsStops
<1>4. QED BY <1>1, <1>2, <1>3 DEF Guards, Shields

\* An entry that is reported as protected has its own TP and SL for as long as it is held.
THEOREM ProtectionHolds == OwnedCloseSpec => []ProtectionIsReal
<1>1. ExecutionInit => ProtectionIsReal
  BY DEF ExecutionInit, ProtectionIsReal, Intents
<1>2. ExposureInv /\ ProtectionIsReal /\ [OwnedCloseNext]_allVars => ProtectionIsReal'
  <2>1. SUFFICES ASSUME ExposureInv, ProtectionIsReal, [OwnedCloseNext]_allVars
                 PROVE  ProtectionIsReal'
    OBVIOUS
  <2>2. ExposureInv' /\ Progress
    BY <2>1, NextExposure DEF Advances
  <2>3. Guards
    BY <2>1, <2>2, StepGuards
  <2>4. QED BY <2>1, <2>2, <2>3, ProtectionStays
<1>3. QED BY <1>1, <1>2, ExposureInvariance, PTL DEF OwnedCloseSpec

-------------------------------------------------------------------------------
(* Attribution comes before the release. *)

\* A process is about to hand a state to the ledger, or has just done so.  (It is neither
\* an inspection that failed nor an overdue entry that the sweep settles.)
Handing(j) ==
  /\ j.pc \in {"sync", "plan"} /\ ~j.failed
  /\ Head(j.todo).name \in {"reconcile", "inspect", "flat", "confirm"}

\* An exit that is handed over has its closed PnL attributed.
AsksFirst(p) ==
  Handing(job[p]) /\ NeedsAttribution(Item(p), job[p].view) => Owned(p) \in attributed

AttributedOK == \A p \in Processes : AsksFirst(p)

Exits == {"position_closed_pending", "close_confirmed"}

\* What a step of p hands over is no exit, or it is about the task p was at, and attributed.
AsksNext(p) ==
  Handing(job'[p]) =>
    \/ job'[p].view \notin Exits
    \/ /\ job[p].pc # "idle" /\ job'[p].todo = job[p].todo
       /\ NeedsAttribution(Item(p), job'[p].view) => Owned(p) \in attributed'

\* A process that goes on with a list of tasks or ends its cycle hands nothing over.
LEMMA EndsAsk ==
  ASSUME job \in [Processes -> Job], NEW p \in Processes
  PROVE  /\ \A new : Become(p, new) /\ ~Handing(new) => AsksNext(p)
         /\ \A todo : Continue(p, todo) => AsksNext(p)
         /\ \A tasks : Instead(p, tasks) => AsksNext(p)
         /\ NextTask(p) => AsksNext(p)
         /\ Raise(p) => AsksNext(p)
         /\ ItemDone(p) => AsksNext(p)
         /\ \A table : Fail(p, table) => AsksNext(p)
<1>1. \A new : Become(p, new) /\ ~Handing(new) => AsksNext(p)
  <2>1. SUFFICES ASSUME NEW new, Become(p, new), ~Handing(new) PROVE AsksNext(p)
    OBVIOUS
  <2>2. job'[p] = new
    BY <2>1 DEF Become
  <2>3. ~Handing(job'[p])
    BY <2>1, <2>2
  <2>4. QED BY <2>3 DEF AsksNext
<1>2. ~Handing(Idle)
  BY DEF Handing, Idle
<1>3. \A todo : ~Handing([Idle EXCEPT !.pc = "next", !.todo = todo])
  BY DEF Handing, Idle
<1>4. \A todo : Continue(p, todo) => AsksNext(p)
  <2>1. SUFFICES ASSUME NEW todo, Continue(p, todo) PROVE AsksNext(p)
    OBVIOUS
  <2>2. \/ Become(p, Idle)
        \/ Become(p, [Idle EXCEPT !.pc = "next", !.todo = todo])
    BY Zenon, <2>1 DEF Continue
  <2>3. QED BY <1>1, <1>2, <1>3, <2>2
<1>5. /\ \A tasks : Instead(p, tasks) => AsksNext(p)
      /\ NextTask(p) => AsksNext(p)
  BY <1>4 DEF Instead, NextTask
<1>6. Raise(p) => AsksNext(p)
  BY <1>1, <1>2 DEF Raise
<1>7. ItemDone(p) => AsksNext(p)
  BY <1>5, <1>6 DEF ItemDone
<1>8. \A table : Fail(p, table) => AsksNext(p)
  <2>1. SUFFICES ASSUME NEW table, Fail(p, table) PROVE AsksNext(p)
    OBVIOUS
  <2>2. PICK todo, view : todo = job[p].todo /\ view = table[Item(p)].state
    OBVIOUS
  <2>3. \/ Raise(p)
        \/ Become(p, [Idle EXCEPT !.pc = "sync", !.todo = todo, !.view = view, !.failed = TRUE])
    BY Zenon, <2>1, <2>2 DEF Fail
  <2>4. ~Handing([Idle EXCEPT !.pc = "sync", !.todo = todo, !.view = view, !.failed = TRUE])
    BY DEF Handing, Idle
  <2>5. QED BY <1>1, <1>6, <2>3, <2>4
<1>9. QED BY <1>1, <1>4, <1>5, <1>6, <1>7, <1>8

\* What reconcile gives is handed over at once only if it needs no attribution.
LEMMA SettleAsks ==
  ASSUME job \in [Processes -> Job], NEW p \in Processes, job[p].pc # "idle",
         NEW table, NEW state, Settle(p, table, state)
  PROVE  AsksNext(p)
<1>1. PICK todo : todo = job[p].todo
  OBVIOUS
<1>2. PICK asks : asks = NeedsAttribution(Item(p), state)
  OBVIOUS
<1>3. CASE asks /\ Become(p, [Idle EXCEPT !.pc = "attribute", !.todo = todo, !.view = state])
  <2>1. ~Handing([Idle EXCEPT !.pc = "attribute", !.todo = todo, !.view = state])
    BY DEF Handing, Idle
  <2>2. QED BY <1>3, <2>1, EndsAsk
<1>4. CASE ~asks /\ Become(p, [Idle EXCEPT !.pc = "sync", !.todo = todo, !.view = state])
  <2>1. job'[p] = [Idle EXCEPT !.pc = "sync", !.todo = todo, !.view = state]
    BY <1>4 DEF Become
  <2>2. job'[p].todo = todo /\ job'[p].view = state
    BY <2>1 DEF Idle
  <2>3. QED BY <1>1, <1>2, <1>4, <2>2 DEF AsksNext
<1>5. CASE Become(p, Idle)
  BY <1>5, EndsAsk DEF Raise
<1>6. CASE NextTask(p) \/ \E tasks : Continue(p, tasks)
  BY <1>6, EndsAsk
<1>7. Settle(p, table, state) =>
        \/ Become(p, [Idle EXCEPT !.pc = IF asks THEN "attribute" ELSE "sync",
                                  !.todo = todo, !.view = state])
        \/ asks /\ Become(p, [Idle EXCEPT !.pc = "attribute", !.todo = todo, !.view = state])
        \/ Become(p, Idle)
        \/ NextTask(p)
        \/ \E tasks : Continue(p, tasks)
  BY Zenon, <1>1, <1>2 DEF Settle
<1>8. QED BY <1>3, <1>4, <1>5, <1>6, <1>7

\* The walk hands a state over at once only if it needs no attribution.
LEMMA WalkAsks ==
  ASSUME job \in [Processes -> Job], NEW p \in Processes, job[p].pc # "idle",
         ReconcileStep(p)
  PROVE  AsksNext(p)
<1>1. \A table, state : Settle(p, table, state) => AsksNext(p)
  BY SettleAsks
<1>2. \A table, i, state : Conclude(p, table, i, state) => AsksNext(p)
  BY <1>1 DEF Conclude
<1>3. \A table : Fail(p, table) => AsksNext(p)
  BY EndsAsk
<1>4. Retire(p) => AsksNext(p)
  BY <1>1, <1>3 DEF Retire
<1>5. \A new : Become(p, new) /\ new.pc \notin {"sync", "plan"} => AsksNext(p)
  BY EndsAsk DEF Handing
<1>6. \A i : ReadOrder(p, i) => AsksNext(p)
  <2>1. SUFFICES ASSUME NEW i, ReadOrder(p, i) PROVE AsksNext(p)
    OBVIOUS
  <2>2. PICK order, known : order = orders[OrderKind(i)][intents[i].reservation]
                            /\ known = intents[i].filled
    OBVIOUS
  <2>3. PICK new : new = [job[p] EXCEPT !.pc = "resolve", !.target = i,
                                        !.seen = order, !.known = known]
    BY Zenon
  <2>4. new.pc = "resolve"
    BY <2>3 DEF Job
  <2>5. Become(p, new) \/ \E table : Fail(p, table)
    BY Zenon, <2>1, <2>2, <2>3 DEF ReadOrder
  <2>6. QED BY <1>3, <1>5, <2>4, <2>5
<1>7. Reconcile(p) => AsksNext(p)
  BY <1>1, <1>2, <1>4, <1>6 DEF Reconcile
<1>8. Resolve(p) => AsksNext(p)
  <2>1. PICK known : known = job[p].seen.filled
    OBVIOUS
  <2>2. [job[p] EXCEPT !.pc = "protect", !.known = known].pc = "protect"
    BY DEF Job
  <2>3. QED BY <1>2, <1>5, <2>1, <2>2 DEF Resolve
<1>9. Protect(p) => AsksNext(p)
  <2>1. [job[p] EXCEPT !.pc = "remainder"].pc = "remainder"
    BY DEF Job
  <2>2. QED BY <1>2, <1>3, <1>5, <2>1 DEF Protect
<1>10. CancelRemainder(p) => AsksNext(p)
  <2>1. [job[p] EXCEPT !.pc = "reread"].pc = "reread"
    BY DEF Job
  <2>2. QED BY <1>3, <1>5, <2>1 DEF CancelRemainder
<1>11. ReadAgain(p) => AsksNext(p)
  <2>1. PICK order : order = orders["entry"][intents[job[p].target].reservation]
    OBVIOUS
  <2>2. [job[p] EXCEPT !.pc = "resolve", !.seen = order].pc = "resolve"
    BY DEF Job
  <2>3. QED BY <1>2, <1>5, <2>1, <2>2 DEF ReadAgain
<1>12. QueryFails(p) => AsksNext(p)
  BY <1>3 DEF QueryFails
<1>13. QED BY <1>7, <1>8, <1>9, <1>10, <1>11, <1>12 DEF ReconcileStep

\* What is handed over stays what it is while it is planned.
LEMMA PlanAsks ==
  ASSUME ExposureInv, NEW p \in Processes, AsksFirst(p), job[p].pc \in {"sync", "plan"},
         attributed' = attributed
  PROVE  /\ \A c : PlanNext(p, c) => AsksNext(p)
         /\ \A c : Become(p, [job[p] EXCEPT !.pc = "sync", !.command = c]) => AsksNext(p)
         /\ job' = job => AsksNext(p)
<1>1. job \in [Processes -> Job] /\ job[p] \in Job
  BY DEF ExposureInv, JobsOK
<1>2. ASSUME NEW new, job'[p] = new, new.todo = job[p].todo, new.view = job[p].view,
             new.failed = job[p].failed
      PROVE  AsksNext(p)
  <2>1. Handing(new) => Handing(job[p])
    BY <1>2 DEF Handing
  <2>2. QED BY <1>2, <2>1 DEF AsksNext, AsksFirst
<1>3. ASSUME NEW pc, NEW c, Become(p, [job[p] EXCEPT !.pc = pc, !.command = c])
      PROVE  AsksNext(p)
  <2>1. PICK new : new = [job[p] EXCEPT !.pc = pc, !.command = c]
    BY Zenon
  <2>2. new.todo = job[p].todo /\ new.view = job[p].view /\ new.failed = job[p].failed
    BY <1>1, <2>1 DEF Job
  <2>3. job'[p] = new
    BY <1>1, <1>3, <2>1 DEF Become
  <2>4. QED BY <1>2, <2>2, <2>3
<1>4. \A c : PlanNext(p, c) => AsksNext(p)
  BY <1>3 DEF PlanNext
<1>5. job' = job => AsksNext(p)
  BY <1>2
<1>6. QED BY <1>3, <1>4, <1>5

\* Who synchronizes a row goes on with what he read of it.
LEMMA SynchronizeAsks ==
  ASSUME ExposureInv, NEW p \in Processes, AsksFirst(p), Synchronize(p)
  PROVE  AsksNext(p)
<1>1. job \in [Processes -> Job] /\ job[p].pc \in {"sync", "plan"} /\ attributed' = attributed
  BY DEF ExposureInv, JobsOK, Synchronize, At
<1>2. \A c : PlanNext(p, c) => AsksNext(p)
  BY <1>1, PlanAsks
<1>3. (Raise(p) => AsksNext(p)) /\ (ItemDone(p) => AsksNext(p))
  BY <1>1, EndsAsk
<1>4. QED BY <1>2, <1>3 DEF Synchronize, Submitted

\* What follows up on a decision.
LEMMA FollowUpAsks ==
  ASSUME ExposureInv, NEW p \in Processes, AsksFirst(p), PlansFollowUp(p) \/ FollowedUp(p)
  PROVE  AsksNext(p)
<1>1. /\ job \in [Processes -> Job] /\ job[p].pc \in {"sync", "plan"}
      /\ attributed' = attributed
  BY DEF ExposureInv, JobsOK, PlansFollowUp, FollowedUp, At, Ledgers
<1>2. /\ \A c : Become(p, [job[p] EXCEPT !.pc = "sync", !.command = c]) => AsksNext(p)
      /\ job' = job => AsksNext(p)
  BY <1>1, PlanAsks
<1>3. ItemDone(p) => AsksNext(p)
  BY <1>1, EndsAsk
<1>4. QED BY <1>2, <1>3 DEF PlansFollowUp, FollowedUp

\* What the monitor hands over.
LEMMA MonitorAsks ==
  ASSUME ExposureInv, AsksFirst("monitor"), MonitorStep
  PROVE  AsksNext("monitor")
<1> DEFINE p == "monitor"
<1>1. p \in Processes /\ job \in [Processes -> Job]
  BY DEF Processes, ExposureInv, JobsOK
<1>2. CASE MonitorBegins \/ MonitorSweeps \/ MonitorExpires
  BY <1>1, <1>2, EndsAsk DEF MonitorBegins, MonitorSweeps, MonitorExpires
<1>3. CASE MonitorSettles
  <2>1. PICK view : view = intents[Item(p)].state
    OBVIOUS
  <2>2. PICK new : new = [job[p] EXCEPT !.pc = "sync", !.view = view]
    BY Zenon
  <2>3. new.todo = job[p].todo
    BY <1>1, <2>2 DEF Job
  <2>4. Head(job[p].todo).name = "settle"
    BY <1>3 DEF MonitorSettles, Doing
  <2>5. ~Handing(new)
    BY <2>3, <2>4 DEF Handing
  <2>6. Become(p, new)
    BY Zenon, <1>3, <2>1, <2>2 DEF MonitorSettles
  <2>7. QED BY <1>1, <2>5, <2>6, EndsAsk
<1>4. CASE Synchronize(p)
  BY <1>1, <1>4, SynchronizeAsks
<1>5. CASE PlansFollowUp(p) \/ FollowedUp(p)
  BY <1>1, <1>5, FollowUpAsks
<1>6. CASE ReconcileStep(p)
  <2>1. job[p].pc # "idle"
    BY <1>6 DEF ReconcileStep, Reconcile, Resolve, Protect, CancelRemainder, ReadAgain,
                QueryFails, Doing, At
  <2>2. QED BY <1>1, <1>6, <2>1, WalkAsks
<1>7. CASE Attribute(p)
  <2>1. job[p].pc = "attribute"
    BY <1>7 DEF Attribute, At
  <2>2. CASE Become(p, [job[p] EXCEPT !.pc = "sync"]) /\ attributed' = attributed \cup {Owned(p)}
    <3>1. job'[p] = [job[p] EXCEPT !.pc = "sync"]
      BY <1>1, <2>2 DEF Become
    <3>2. job'[p].todo = job[p].todo
      BY <1>1, <3>1 DEF Job
    <3>3. QED BY <2>1, <2>2, <3>2 DEF AsksNext
  <2>3. CASE NextTask(p)
    BY <1>1, <2>3, EndsAsk
  <2>4. QED BY <1>7, <2>2, <2>3 DEF Attribute
<1>8. QED BY <1>2, <1>3, <1>4, <1>5, <1>6, <1>7 DEF MonitorStep

\* The worker hands no exit over.
LEMMA WorkerAsks ==
  ASSUME ExposureInv, WorkerStep
  PROVE  AsksNext("worker")
<1> DEFINE p == "worker"
<1>1. p \in Processes /\ job \in [Processes -> Job] /\ JobOK(p)
  BY DEF Processes, ExposureInv, JobsOK
<1>2. ASSUME job' = job
      PROVE  AsksNext(p)
  <2>1. job'[p] = job[p]
    BY <1>2
  <2>2. Handing(job[p]) => FALSE
    <3>1. SUFFICES ASSUME Handing(job[p]) PROVE FALSE
      OBVIOUS
    <3>2. job[p].pc # "idle" /\ Head(job[p].todo).name \in {"reconcile", "inspect", "flat", "confirm"}
      BY <3>1 DEF Handing
    <3>3. TaskOK(p, Head(job[p].todo))
      BY <1>1, <3>2, AtWork
    <3>4. QED BY <3>2, <3>3 DEF TaskOK, Names
  <2>3. QED BY <2>1, <2>2 DEF AsksNext
<1>3. CASE WorkerBegins \/ WorkerRetries \/ WorkerPlaces \/ WorkerRecordsRun \/ WorkerAdvances
             \/ WorkerEnds
  BY <1>1, <1>3, EndsAsk
     DEF WorkerBegins, WorkerRetries, WorkerPlaces, WorkerRecordsRun, WorkerAdvances, WorkerEnds
<1>4. CASE WorkerPassesStale \/ WorkerPlans
  BY <1>2, <1>4 DEF WorkerPassesStale, WorkerPlans
<1>5. CASE WorkerProposes
  <2>1. CASE \E c : PlanNext(p, c)
    <3>1. PICK c : Become(p, [job[p] EXCEPT !.pc = "plan", !.command = c])
      BY <2>1 DEF PlanNext
    <3>2. PICK new : new = [job[p] EXCEPT !.pc = "plan", !.command = c]
      BY Zenon
    <3>3. new.todo = job[p].todo
      BY <1>1, <3>2 DEF Job
    <3>4. Head(job[p].todo).name = "signals"
      BY <1>5 DEF WorkerProposes, Doing
    <3>5. ~Handing(new)
      BY <3>3, <3>4 DEF Handing
    <3>6. QED BY <1>1, <3>1, <3>2, <3>5, EndsAsk
  <2>2. CASE Raise(p)
    BY <1>1, <2>2, EndsAsk
  <2>3. QED BY <1>5, <2>1, <2>2 DEF WorkerProposes
<1>6. CASE SubmitsNothing(p) \/ SubmitsDependency \/ SubmitsAttempted(p)
  BY <1>1, <1>6, EndsAsk DEF SubmitsNothing, SubmitsDependency, SubmitsAttempted
<1>7. ASSUME Become(p, [job[p] EXCEPT !.pc = "post"])
      PROVE  AsksNext(p)
  <2>1. [job[p] EXCEPT !.pc = "post"].pc = "post"
    BY <1>1 DEF Job
  <2>2. ~Handing([job[p] EXCEPT !.pc = "post"])
    BY <2>1 DEF Handing
  <2>3. QED BY <1>1, <1>7, <2>2, EndsAsk
<1>8. CASE SubmitsEntry \/ SubmitsClose(p)
  BY <1>1, <1>7, <1>8, EndsAsk DEF SubmitsEntry, SubmitsClose
<1>9. CASE Post(p)
  BY <1>1, <1>9, EndsAsk DEF Post, Acknowledge
<1>10. CASE SubmitsCancel
  <2>1. job[p].pc # "idle"
    BY <1>10 DEF SubmitsCancel, Submitting, Doing, At
  <2>2. Retire(p) => AsksNext(p)
    <3>1. \A table, state : Settle(p, table, state) => AsksNext(p)
      BY <1>1, <2>1, SettleAsks
    <3>2. QED BY <1>1, <3>1, EndsAsk DEF Retire
  <2>3. QED BY <1>1, <1>10, <2>2, EndsAsk DEF SubmitsCancel, Acknowledge
<1>11. CASE ReconcileStep(p)
  <2>1. job[p].pc # "idle"
    BY <1>11 DEF ReconcileStep, Reconcile, Resolve, Protect, CancelRemainder, ReadAgain,
                 QueryFails, Doing, At
  <2>2. QED BY <1>1, <1>11, <2>1, WalkAsks
<1>12. QED
  BY <1>3, <1>4, <1>5, <1>6, <1>8, <1>9, <1>10, <1>11 DEF WorkerStep

\* The operator's command asks for the closed PnL as well.
LEMMA OperatorAsks ==
  ASSUME ExposureInv, AsksFirst("operator"), OperatorStep
  PROVE  AsksNext("operator")
<1>1. PICK p \in Processes : p = "operator"
  BY DEF Processes
<1>2. job \in [Processes -> Job]
  BY DEF ExposureInv, JobsOK
<1>3. CASE Inspects
  <2>1. PICK i, order, known : i = Item(p) /\ order = orders["entry"][Owned(p)]
                               /\ known = intents[i].filled
    OBVIOUS
  <2>2. PICK new : new = [job[p] EXCEPT !.pc = "prove", !.target = i, !.seen = order,
                                        !.known = known]
    BY Zenon
  <2>3. Become(p, new) \/ Raise(p)
    BY Zenon, <1>1, <1>3, <2>1, <2>2 DEF Inspects, Operator
  <2>4. new.pc = "prove"
    BY <1>2, <2>2 DEF Job
  <2>5. ~Handing(new)
    BY <2>4 DEF Handing
  <2>6. QED BY <1>1, <1>2, <2>3, <2>5, EndsAsk
<1>4. CASE Proves
  <2>1. CASE Raise(p)
    BY <1>1, <1>2, <2>1, EndsAsk
  <2>2. CASE \E todo : Become(p, [[Idle EXCEPT !.pc = "sync", !.view = "filled"]
                                    EXCEPT !.todo = todo])
    <3>1. PICK todo : Become(p, [[Idle EXCEPT !.pc = "sync", !.view = "filled"]
                                   EXCEPT !.todo = todo])
      BY <2>2
    <3>2. job'[p] = [[Idle EXCEPT !.pc = "sync", !.view = "filled"] EXCEPT !.todo = todo]
      BY <1>2, <3>1 DEF Become
    <3>3. job'[p].view = "filled"
      BY <3>2 DEF Idle
    <3>4. QED BY <1>1, <3>3 DEF AsksNext, Exits
  <2>3. QED BY <1>1, <1>4, <2>1, <2>2 DEF Proves, Operator
<1>5. CASE Requests \/ OrdersPlanned \/ Drops \/ Finishes
  BY <1>1, <1>2, <1>5, EndsAsk DEF Requests, OrdersPlanned, Drops, Finishes, Operator
<1>6. CASE Orders
  <2>1. CASE \E c : Become(p, [job[p] EXCEPT !.pc = "plan", !.command = c])
    <3>1. PICK c : Become(p, [job[p] EXCEPT !.pc = "plan", !.command = c])
      BY <2>1
    <3>2. PICK new : new = [job[p] EXCEPT !.pc = "plan", !.command = c]
      BY Zenon
    <3>3. new.todo = job[p].todo
      BY <1>2, <3>2 DEF Job
    <3>4. Head(job[p].todo).name = "order"
      BY <1>1, <1>6 DEF Orders, Operator, Doing
    <3>5. ~Handing(new)
      BY <3>3, <3>4 DEF Handing
    <3>6. QED BY <1>1, <1>2, <3>1, <3>2, <3>5, EndsAsk
  <2>2. CASE Raise(p) \/ \E todo : Continue(p, todo)
    BY <1>1, <1>2, <2>2, EndsAsk
  <2>3. QED BY <1>1, <1>6, <2>1, <2>2 DEF Orders, Operator
<1>7. CASE Accounts
  <2>1. job[p].pc # "idle"
    BY <1>1, <1>7 DEF Accounts, Operator, Doing, At
  <2>2. CASE Raise(p)
    BY <1>1, <1>2, <2>2, EndsAsk
  <2>3. PICK todo : todo = job[p].todo
    OBVIOUS
  <2>4. CASE /\ attributed' = attributed \cup {Owned(p)}
             /\ \E view : Become(p, [Idle EXCEPT !.pc = "sync", !.todo = todo, !.view = view])
    <3>1. PICK view : Become(p, [Idle EXCEPT !.pc = "sync", !.todo = todo, !.view = view])
      BY <2>4
    <3>2. job'[p] = [Idle EXCEPT !.pc = "sync", !.todo = todo, !.view = view]
      BY <1>2, <3>1 DEF Become
    <3>3. job'[p].todo = todo
      BY <3>2 DEF Idle
    <3>4. QED BY <1>1, <2>1, <2>3, <2>4, <3>3 DEF AsksNext
  <2>5. PICK new : new = IF Head(job[p].todo).name = "flat" THEN "position_closed_pending"
                                                            ELSE "close_confirmed"
    OBVIOUS
  <2>6. \/ Raise(p)
        \/ /\ attributed' = attributed \cup {Owned(p)}
           /\ Become(p, [Idle EXCEPT !.pc = "sync", !.todo = todo, !.view = new])
    BY Zenon, <1>1, <1>7, <2>3, <2>5 DEF Accounts, Operator
  <2>7. QED BY <2>2, <2>4, <2>6
<1>8. CASE Synchronize(p)
  BY <1>1, <1>8, SynchronizeAsks
<1>9. CASE PlansFollowUp(p) \/ FollowedUp(p)
  BY <1>1, <1>9, FollowUpAsks
<1>10. CASE SubmitsNothing(p) \/ SubmitsAttempted(p)
  BY <1>1, <1>2, <1>10, EndsAsk DEF SubmitsNothing, SubmitsAttempted
<1>11. CASE SubmitsClose(p)
  <2>1. [job[p] EXCEPT !.pc = "post"].pc = "post"
    BY <1>2 DEF Job
  <2>2. ~Handing([job[p] EXCEPT !.pc = "post"])
    BY <2>1 DEF Handing
  <2>3. QED BY <1>1, <1>2, <1>11, <2>2, EndsAsk DEF SubmitsClose
<1>12. CASE Post(p)
  BY <1>1, <1>2, <1>12, EndsAsk DEF Post, Acknowledge
<1>13. CASE Reconcile(p) \/ Resolve(p)
  <2>1. job[p].pc # "idle"
    BY <1>13 DEF Reconcile, Resolve, Doing, At
  <2>2. QED BY <1>1, <1>2, <1>13, <2>1, WalkAsks DEF ReconcileStep
<1>14. QED
  BY <1>1, <1>3, <1>4, <1>5, <1>6, <1>7, <1>8, <1>9, <1>10, <1>11, <1>12, <1>13
     DEF OperatorStep, Operator

\* A step of the operator's command moves the operator only.
LEMMA OperatorAlone ==
  ASSUME job \in [Processes -> Job], OperatorStep
  PROVE  MovesAlone("operator")
<1>1. "operator" \in Processes
  BY DEF Processes
<1>2. CASE Inspects \/ Proves \/ Requests \/ Orders
  BY <1>1, <1>2, BecomesAlone DEF Inspects, Proves, Requests, Orders, Operator
<1>3. CASE OrdersPlanned \/ Drops \/ Accounts \/ Finishes
  BY <1>1, <1>3, BecomesAlone DEF OrdersPlanned, Drops, Accounts, Finishes, Operator
<1>4. CASE Synchronize(Operator)
  BY <1>1, <1>4, BecomesAlone DEF Synchronize, Submitted, Operator
<1>5. CASE PlansFollowUp(Operator) \/ FollowedUp(Operator)
  BY <1>1, <1>5, BecomesAlone DEF PlansFollowUp, FollowedUp, Operator
<1>6. CASE SubmitsNothing(Operator) \/ SubmitsAttempted(Operator) \/ SubmitsClose(Operator)
  BY <1>1, <1>6, BecomesAlone DEF SubmitsNothing, SubmitsAttempted, SubmitsClose, Operator
<1>7. CASE Post(Operator)
  BY <1>1, <1>7, BecomesAlone DEF Post, Acknowledge, Operator
<1>8. CASE Reconcile(Operator) \/ Resolve(Operator)
  BY <1>1, <1>8, WalksAlone DEF ReconcileStep, Operator
<1>9. QED BY <1>2, <1>3, <1>4, <1>5, <1>6, <1>7, <1>8 DEF OperatorStep

\* A process in order that hands something over is at a row.
LEMMA HandingRow ==
  ASSUME ExposureInv, NEW p \in Processes, job[p].pc # "idle",
         Head(job[p].todo).name \in {"reconcile", "inspect", "flat", "confirm"}
  PROVE  Item(p) \in Intents
<1>1. JobOK(p)
  BY DEF ExposureInv, JobsOK
<1>2. QED BY <1>1, AtWork DEF Tokens

\* What a row needs attributed stays the same.
LEMMA NeedStays ==
  ASSUME Progress, NEW i \in Intents, NEW view
  PROVE  /\ NeedsAttribution(i, view)' => NeedsAttribution(i, view)
         /\ intents'[i].reservation = intents[i].reservation
BY DEF Progress, MovesOn, NeedsAttribution

\* The others have asked before, the process that moves asks in time.
LEMMA AsksOn ==
  ASSUME ExposureInv, Progress, AttributedOK, attributed \subseteq attributed',
         NEW p \in Processes, MovesAlone(p), AsksNext(p)
  PROVE  AttributedOK'
<1>1. SUFFICES ASSUME NEW q \in Processes, Handing(job'[q]),
                      NeedsAttribution(Item(q), job[q].view)'
               PROVE  (Owned(q) \in attributed)'
  BY DEF AttributedOK, AsksFirst
<1>2. /\ job'[q].todo = job[q].todo /\ job[q].pc # "idle"
      /\ NeedsAttribution(Item(q), job'[q].view) => Owned(q) \in attributed'
  <2>1. CASE q = p
    <3>1. job'[q].view \in Exits
      BY <1>1 DEF NeedsAttribution, Exits
    <3>2. QED BY <1>1, <2>1, <3>1 DEF AsksNext
  <2>2. CASE q # p
    <3>1. job'[q] = job[q]
      BY <2>2 DEF MovesAlone
    <3>2. Handing(job[q])
      BY <1>1, <3>1
    <3>3. QED BY <3>1, <3>2 DEF AttributedOK, AsksFirst, Handing
  <2>3. QED BY <2>1, <2>2
<1>3. Head(job[q].todo).name \in {"reconcile", "inspect", "flat", "confirm"}
  BY <1>1, <1>2 DEF Handing
<1>4. PICK i \in Intents : i = Item(q)
  BY <1>2, <1>3, HandingRow
<1>5. Item(q)' = i
  BY <1>2, <1>4 DEF Item
<1>6. PICK view : view = job'[q].view
  OBVIOUS
<1>7. NeedsAttribution(i, view)'
  BY <1>1, <1>5, <1>6 DEF NeedsAttribution
<1>8. Owned(q) \in attributed'
  BY <1>2, <1>4, <1>6, <1>7, NeedStays
<1>9. QED BY <1>4, <1>5, <1>8, NeedStays DEF Owned

\* Where no process hands over more than before.
LEMMA AsksStill ==
  ASSUME ExposureInv, Progress, AttributedOK, attributed \subseteq attributed',
         \A q \in Processes : job'[q] = job[q] \/ ~Handing(job'[q])
  PROVE  AttributedOK'
<1>1. CASE \E q \in Processes : Handing(job'[q])
  <2>1. SUFFICES ASSUME NEW q \in Processes, Handing(job'[q]),
                        NeedsAttribution(Item(q), job[q].view)'
                 PROVE  (Owned(q) \in attributed)'
    BY DEF AttributedOK, AsksFirst
  <2>2. job'[q] = job[q] /\ Handing(job[q])
    BY <2>1
  <2>3. PICK i \in Intents : i = Item(q)
    BY <2>2, HandingRow DEF Handing
  <2>4. PICK view : view = job[q].view
    OBVIOUS
  <2>5. Item(q)' = i /\ job'[q].view = view
    BY <2>2, <2>3, <2>4 DEF Item
  <2>6. NeedsAttribution(i, view)'
    BY <2>1, <2>5 DEF NeedsAttribution
  <2>7. NeedsAttribution(Item(q), job[q].view)
    BY <2>3, <2>4, <2>6, NeedStays
  <2>8. Owned(q) \in attributed
    BY <2>2, <2>7 DEF AttributedOK, AsksFirst
  <2>9. QED BY <2>3, <2>5, <2>8, NeedStays DEF Owned
<1>2. CASE \A q \in Processes : ~Handing(job'[q])
  BY <1>2 DEF AttributedOK, AsksFirst
<1>3. QED BY <1>1, <1>2

\* What is attributed stays attributed.
LEMMA AttributedStays ==
  ASSUME [OwnedCloseNext]_allVars
  PROVE  attributed \subseteq attributed'
<1>1. CASE Accounts
  BY <1>1 DEF Accounts
<1>2. CASE Attribute("monitor")
  BY <1>2 DEF Attribute
<1>3. CASE MonitorStep /\ ~Attribute("monitor")
  BY <1>3 DEF MonitorStep, MonitorBegins, MonitorSweeps, MonitorExpires, MonitorSettles,
              Synchronize, PlansFollowUp, FollowedUp, ReconcileStep, Reconcile, Resolve,
              Protect, CancelRemainder, ReadAgain, QueryFails, Ledgers, Beyond
<1>4. CASE WorkerStep
  <2>1. CASE ReconcileStep("worker")
    BY <2>1 DEF ReconcileStep, Reconcile, Resolve, Protect, CancelRemainder, ReadAgain,
                QueryFails, Beyond
  <2>2. CASE WorkerStep /\ ~ReconcileStep("worker")
    BY <2>2 DEF WorkerStep, WorkerBegins, WorkerRetries, WorkerPlaces, WorkerPassesStale,
                WorkerProposes, WorkerPlans, WorkerRecordsRun, WorkerAdvances, WorkerEnds,
                SubmitsNothing, SubmitsDependency, SubmitsAttempted, SubmitsEntry,
                SubmitsClose, Post, SubmitsCancel, Ledgers
  <2>3. QED BY <1>4, <2>1, <2>2
<1>5. CASE OperatorStep /\ ~Accounts
  BY <1>5 DEF OperatorStep, Inspects, Proves, Requests, Orders, OrdersPlanned, Drops,
              Finishes, Synchronize, PlansFollowUp, FollowedUp, SubmitsNothing,
              SubmitsAttempted, SubmitsClose, Post, Reconcile, Resolve, Ledgers, Beyond
<1>6. CASE OperatorStops \/ Tick \/ Mark \/ (\E i \in Intents : Begins(i))
  BY <1>6 DEF OperatorStops, Tick, Mark, Begins, Ledgers, ledgerVars
<1>7. CASE (\E p \in Processes : Crash(p)) \/ \E s \in Signals : ExchangeWorks(s) \/ PriceMoves(s)
  BY <1>7 DEF Crash, ExchangeWorks, PriceMoves, ledgerVars
<1>8. CASE UNCHANGED allVars
  BY <1>8 DEF allVars, ledgerVars
<1>9. QED BY <1>1, <1>2, <1>3, <1>4, <1>5, <1>6, <1>7, <1>8 DEF OwnedCloseNext, RuntimeStep

\* Every step.
LEMMA NextAsks ==
  ASSUME ExposureInv, AttributedOK, [OwnedCloseNext]_allVars, Progress
  PROVE  AttributedOK'
<1>1. /\ job \in [Processes -> Job] /\ attributed \subseteq attributed'
      /\ \A p \in Processes : AsksFirst(p)
      /\ "monitor" \in Processes /\ "worker" \in Processes /\ "operator" \in Processes
  BY AttributedStays DEF ExposureInv, JobsOK, AttributedOK, Processes
<1>2. CASE MonitorStep
  BY <1>1, <1>2, MonitorAlone, MonitorAsks, AsksOn
<1>3. CASE WorkerStep
  BY <1>1, <1>3, WorkerAlone, WorkerAsks, AsksOn
<1>4. CASE OperatorStep
  BY <1>1, <1>4, OperatorAlone, OperatorAsks, AsksOn
<1>5. ~Handing(Idle)
  BY DEF Handing, Idle
<1>6. CASE \E i \in Intents : Begins(i)
  <2>1. PICK todo : Alone(todo)
    BY <1>6 DEF Begins
  <2>2. ~Handing([Idle EXCEPT !.pc = "next", !.todo = todo])
    BY DEF Handing, Idle
  <2>3. \A q \in Processes : \/ job'[q] = Idle
                             \/ job'[q] = [Idle EXCEPT !.pc = "next", !.todo = todo]
    BY <2>1 DEF Alone
  <2>4. \A q \in Processes : ~Handing(job'[q])
    BY <1>5, <2>2, <2>3
  <2>5. QED BY <1>1, <2>4, AsksStill
<1>7. CASE OperatorStops \/ \E p \in Processes : Crash(p)
  <2>1. PICK p \in Processes : Raise(p)
    BY <1>1, <1>7 DEF OperatorStops, Crash, Operator
  <2>2. job' = [job EXCEPT ![p] = Idle]
    BY <2>1 DEF Raise, Become
  <2>3. \A q \in Processes : job'[q] = job[q] \/ job'[q] = Idle
    BY <1>1, <2>2
  <2>4. QED BY <1>1, <1>5, <2>3, AsksStill
<1>8. CASE \/ Tick \/ Mark \/ UNCHANGED allVars
           \/ \E s \in Signals : ExchangeWorks(s) \/ PriceMoves(s)
  <2>1. job' = job
    BY <1>8 DEF Tick, Mark, allVars, ExchangeWorks, PriceMoves
  <2>2. QED BY <1>1, <2>1, AsksStill
<1>9. QED BY <1>2, <1>3, <1>4, <1>6, <1>7, <1>8 DEF OwnedCloseNext, RuntimeStep

\* A step that closes no reservation.
ClosesNone ==
  \A t \in Signals : Status(book', t) = "closed" => Status(book, t) = "closed"

\* The only reservation that a step closes is s.
ClosesOnly(s) ==
  \A t \in Signals : Status(book', t) = "closed" => Status(book, t) = "closed" \/ t = s

\* A decision closes the reservation that ConfirmPositionClosed is about, and no other.
LEMMA DecisionsClose ==
  ASSUME ExposureInv, NEW s \in Signals
  PROVE  /\ ConfirmPendingFill(now, funds, s) => ClosesNone
         /\ CancelPendingReservation(now, funds, s) => ClosesNone
         /\ ProposeRiskReservation(now, funds, s) => ClosesNone
         /\ RequestPositionClose(now, s) => ClosesNone
         /\ ConfirmPositionClosed(now, funds, s) => ClosesOnly(s)
<1>1. Inv /\ now \in Times /\ funds \in Equities /\ funds \in Equities \cup {NoMark}
  BY DEF ExposureInv, RestOK
<1>2. \A t \in Signals : Kept(t) \/ Enters(t) =>
        (Status(book', t) = "closed" => Status(book, t) = "closed")
  BY DEF Kept, Enters
<1>3. ConfirmPendingFill(now, funds, s) => ClosesNone
  BY <1>1, <1>2, ConfirmFillMoves DEF ClosesNone
<1>4. ProposeRiskReservation(now, funds, s) => ClosesNone
  BY <1>1, <1>2, ProposeMoves DEF ClosesNone
<1>5. RequestPositionClose(now, s) => ClosesNone
  BY <1>1, <1>2, RequestCloseMoves DEF ClosesNone
<1>6. CancelPendingReservation(now, funds, s) => ClosesNone
  BY <1>1, <1>2, CancelMoves DEF ClosesNone, Releases
<1>7. ConfirmPositionClosed(now, funds, s) => ClosesOnly(s)
  BY <1>1, <1>2, ClosedMoves DEF ClosesOnly, Releases
<1>8. QED BY <1>3, <1>4, <1>5, <1>6, <1>7

\* A reservation is closed by handing over its exit, and by nothing else.
LEMMA SynchronizeCloses ==
  ASSUME ExposureInv, NEW p \in Processes, Synchronize(p)
  PROVE  \/ ClosesNone
         \/ ClosesOnly(Owned(p)) /\ NeedsAttribution(Item(p), job[p].view)
<1>1. job[p].pc = "sync" /\ JobOK(p) /\ HandOK(p) /\ TableOK
  BY Zenon DEF ExposureInv, JobsOK, JobOK, PlaceOK, Synchronize, At
<1>2. PICK i \in Intents : i = Item(p)
  BY <1>1, AtWork DEF HandOK, Tokens
<1>3. PICK s \in Signals : s = intents[i].reservation /\ s = Owned(p)
  BY <1>1, <1>2, RowType DEF RowsTyped, Owned
<1>4. PICK v : v = job[p].view
  OBVIOUS
<1>5. ASSUME UNCHANGED riskVars PROVE ClosesNone
  <2>1. book' = book
    BY <1>5 DEF riskVars
  <2>2. QED BY <2>1 DEF ClosesNone
<1>6. /\ ConfirmPendingFill(now, funds, s) => ClosesNone
      /\ CancelPendingReservation(now, funds, s) => ClosesNone
      /\ ConfirmPositionClosed(now, funds, s) => ClosesOnly(s)
  BY DecisionsClose
<1>7. ASSUME NEW c, Submitted(p, c, ConfirmPendingFill(now, funds, s))
      PROVE  ClosesNone
  <2>1. ConfirmPendingFill(now, funds, s) \/ UNCHANGED riskVars
    BY <1>7 DEF Submitted, Execute
  <2>2. QED BY <1>5, <1>6, <2>1
<1>8. ASSUME NEW c, Submitted(p, c, CancelPendingReservation(now, funds, s))
      PROVE  ClosesNone
  <2>1. CancelPendingReservation(now, funds, s) \/ UNCHANGED riskVars
    BY <1>8 DEF Submitted, Execute
  <2>2. QED BY <1>5, <1>6, <2>1
<1>9. ASSUME NEW c, Submitted(p, c, ConfirmPositionClosed(now, funds, s))
      PROVE  ClosesNone \/ ClosesOnly(s)
  <2>1. ConfirmPositionClosed(now, funds, s) \/ UNCHANGED riskVars
    BY <1>9 DEF Submitted, Execute
  <2>2. QED BY <1>5, <1>6, <2>1
<1>10. Exited(i, v) => NeedsAttribution(i, v)
  BY DEF Exited, NeedsAttribution
<1>11. CASE Exited(i, v)
  <2>1. ClosesNone \/ ClosesOnly(s)
    BY <1>2, <1>3, <1>4, <1>5, <1>7, <1>8, <1>9 DEF Synchronize
  <2>2. QED BY <1>2, <1>3, <1>4, <1>10, <1>11, <2>1
<1>12. CASE ~Exited(i, v)
  BY <1>2, <1>3, <1>4, <1>5, <1>7, <1>8, <1>12 DEF Synchronize
<1>13. QED BY <1>11, <1>12

\* The other steps leave the ledger alone.
LEMMA OthersDecide ==
  ASSUME [OwnedCloseNext]_allVars, \A p \in Processes : ~Synchronize(p),
         ~WorkerProposes, ~Requests
  PROVE  book' = book /\ log' = log
<1>1. "monitor" \in Processes /\ "operator" \in Processes
  BY DEF Processes
<1>2. CASE MonitorStep
  BY <1>1, <1>2
     DEF MonitorStep, MonitorBegins, MonitorSweeps, MonitorExpires, MonitorSettles,
         PlansFollowUp, FollowedUp, ReconcileStep, Reconcile, Resolve, Protect,
         CancelRemainder, ReadAgain, QueryFails, Attribute, Ledgers, Beyond, riskVars
<1>3. CASE ReconcileStep("worker")
  BY <1>3 DEF ReconcileStep, Reconcile, Resolve, Protect, CancelRemainder, ReadAgain,
              QueryFails, Beyond, riskVars
<1>4. CASE WorkerStep /\ ~ReconcileStep("worker")
  BY <1>4
     DEF WorkerStep, WorkerBegins, WorkerRetries, WorkerPlaces, WorkerPassesStale,
         WorkerPlans, WorkerRecordsRun, WorkerAdvances, WorkerEnds, SubmitsNothing,
         SubmitsDependency, SubmitsAttempted, SubmitsEntry, SubmitsClose, Post,
         SubmitsCancel, Ledgers, riskVars
<1>5. CASE OperatorStep
  BY <1>1, <1>5
     DEF OperatorStep, Inspects, Proves, Orders, OrdersPlanned, Drops, Accounts, Finishes,
         PlansFollowUp, FollowedUp, SubmitsNothing, SubmitsAttempted, SubmitsClose, Post,
         Reconcile, Resolve, Ledgers, Beyond, riskVars, Operator
<1>6. CASE OperatorStops \/ Tick \/ Mark \/ (\E i \in Intents : Begins(i))
  BY <1>6 DEF OperatorStops, Tick, Mark, Begins, Ledgers, riskVars, ledgerVars
<1>7. CASE \/ \E p \in Processes : Crash(p)
           \/ \E s \in Signals : ExchangeWorks(s) \/ PriceMoves(s)
  BY <1>7 DEF Crash, ExchangeWorks, PriceMoves, riskVars, ledgerVars
<1>8. CASE UNCHANGED allVars
  BY <1>8 DEF allVars, riskVars, ledgerVars
<1>9. QED
  BY <1>2, <1>3, <1>4, <1>5, <1>6, <1>7, <1>8 DEF OwnedCloseNext, RuntimeStep

\* The entry and the reservation that a request of the operator is about.
LEMMA AtRequest ==
  ASSUME ExposureInv, NEW p \in Processes, p = "operator", Requests
  PROVE  /\ job[p].pc = "next" /\ Head(job[p].todo).name = "request" /\ job[p].todo # <<>>
         /\ Item(p) \in Intents /\ Owned(p) \in Signals
         /\ intents[Item(p)].kind = "entry" /\ intents[Item(p)].reservation = Owned(p)
<1>1. Doing(p, {"request"})
  BY DEF Requests, Operator
<1>2. QED BY <1>1, AtOwn

\* They close nothing, nor do the other two that decide.
LEMMA OthersClose ==
  ASSUME ExposureInv, [OwnedCloseNext]_allVars,
         \A p \in Processes : ~Synchronize(p)
  PROVE  ClosesNone
<1>1. CASE book' = book
  BY <1>1 DEF ClosesNone
<1>2. CASE WorkerProposes
  BY <1>1, <1>2, ComingSignal, DecisionsClose DEF WorkerProposes, Execute, riskVars
<1>3. CASE Requests
  <2>1. PICK p \in Processes : p = "operator"
    BY DEF Processes
  <2>2. Owned(p) \in Signals
    BY <1>3, <2>1, AtRequest
  <2>3. \/ UNCHANGED riskVars
        \/ RequestPositionClose(now, Owned(p))
    BY <1>3, <2>1 DEF Requests, Execute, Operator
  <2>4. QED BY <1>1, <2>2, <2>3, DecisionsClose DEF riskVars
<1>4. QED BY <1>1, <1>2, <1>3, OthersDecide

\* A reservation is closed in the ledger when the closed PnL of its position has been
\* attributed; without it only after a failed inspection, and by the sweep of the overdue.
THEOREM AttributionFirst == OwnedCloseSpec => AttributionComesFirst
<1>1. ExecutionInit => AttributedOK
  <2>1. ~Handing(Idle)
    BY DEF Handing, Idle
  <2>2. QED BY <2>1 DEF ExecutionInit, AttributedOK, AsksFirst
<1>2. ExposureInv /\ AttributedOK /\ [OwnedCloseNext]_allVars => AttributedOK'
  BY NextExposure, NextAsks DEF Advances
<1>3. ASSUME ExposureInv, AttributedOK, [OwnedCloseNext]_allVars
      PROVE  \A s \in Signals :
               Status(book, s) # "closed" /\ Status(book', s) = "closed" =>
                 \/ s \in attributed
                 \/ \E p \in Processes :
                      /\ At(p, "sync") /\ Owned(p) = s
                      /\ job[p].failed \/ Head(job[p].todo).name = "settle"
  <2>1. SUFFICES ASSUME NEW s \in Signals, Status(book, s) # "closed",
                        Status(book', s) = "closed", s \notin attributed
                 PROVE  \E p \in Processes :
                          /\ At(p, "sync") /\ Owned(p) = s
                          /\ job[p].failed \/ Head(job[p].todo).name = "settle"
    OBVIOUS
  <2>2. ~ClosesNone
    BY <2>1 DEF ClosesNone
  <2>3. PICK p \in Processes : Synchronize(p)
    BY <1>3, <2>2, OthersClose
  <2>4. ClosesOnly(Owned(p)) /\ NeedsAttribution(Item(p), job[p].view)
    BY <1>3, <2>2, <2>3, SynchronizeCloses
  <2>5. Owned(p) = s
    BY <2>1, <2>4 DEF ClosesOnly
  <2>6. At(p, "sync")
    BY <2>3 DEF Synchronize
  <2>7. Head(job[p].todo).name \in {"reconcile", "settle", "inspect", "flat", "confirm"}
    BY Zenon, <1>3, <2>6 DEF ExposureInv, JobsOK, JobOK, PlaceOK, HandOK, At
  <2>8. ~Handing(job[p])
    BY <1>3, <2>1, <2>4, <2>5 DEF AttributedOK, AsksFirst
  <2>9. job[p].failed \/ Head(job[p].todo).name = "settle"
    BY <2>6, <2>7, <2>8 DEF Handing, At
  <2>10. QED BY <2>5, <2>6, <2>9
<1>4. QED BY <1>1, <1>2, <1>3, ExposureInvariance, PTL DEF OwnedCloseSpec, AttributionComesFirst

-------------------------------------------------------------------------------
(* The operator takes over what the fill of an entry asked for. *)

\* The fill of the reservation has been confirmed, and it stays so.
Taken == {"filled", "close_requested", "closed"}

StaysTaken ==
  \A t \in Signals : Status(book, t) \in Taken => Status(book', t) \in Taken

\* No decision takes a confirmed fill back.
LEMMA DecisionsStay ==
  ASSUME ExposureInv, NEW s \in Signals
  PROVE  /\ ConfirmPendingFill(now, funds, s) => StaysTaken
         /\ CancelPendingReservation(now, funds, s) => StaysTaken
         /\ ProposeRiskReservation(now, funds, s) => StaysTaken
         /\ RequestPositionClose(now, s) => StaysTaken
         /\ ConfirmPositionClosed(now, funds, s) => StaysTaken
<1>1. Inv /\ now \in Times /\ funds \in Equities /\ funds \in Equities \cup {NoMark}
  BY DEF ExposureInv, RestOK
<1>2. \A t \in Signals : Kept(t) \/ Enters(t) =>
        (Status(book, t) \in Taken => Status(book', t) \in Taken)
  BY DEF Kept, Enters, Taken
<1>3. ConfirmPendingFill(now, funds, s) => StaysTaken
  BY <1>1, <1>2, ConfirmFillMoves DEF StaysTaken, Taken
<1>4. ProposeRiskReservation(now, funds, s) => StaysTaken
  BY <1>1, <1>2, ProposeMoves DEF StaysTaken
<1>5. RequestPositionClose(now, s) => StaysTaken
  BY <1>1, <1>2, RequestCloseMoves DEF StaysTaken
<1>6. CancelPendingReservation(now, funds, s) => StaysTaken
  BY <1>1, <1>2, CancelMoves DEF StaysTaken, Releases, Taken
<1>7. ConfirmPositionClosed(now, funds, s) => StaysTaken
  BY <1>1, <1>2, ClosedMoves DEF StaysTaken, Releases, Taken
<1>8. QED BY <1>3, <1>4, <1>5, <1>6, <1>7

\* The request of the operator asks for a close that the ledger then waits for.
LEMMA RequestAsks ==
  ASSUME ExposureInv, NEW s \in Signals, RequestPositionClose(now, s), NEW t \in Signals,
         Act("close", t) \in decision'.actions
  PROVE  Status(book', t) = "close_requested"
<1> DEFINE pre == Prelude(now, NoMark)
           mid == WithStatus(pre.book, s, "close_requested")
<1>1. Inv /\ now \in Times
  BY DEF ExposureInv, RestOK
<1>2. Sound(pre.book)
  BY <1>1, PreludeMoves
<1>3. Act("close", t) \notin pre.actions
  BY DEF Prelude, ExpiryCancels, Act
<1> HIDE DEF pre
<1>4. /\ Status(pre.book, s) \in {"filled", "close_requested"}
      /\ book' = WithoutReversal(mid, SymbolOf[s])
      /\ decision'.actions = pre.actions \cup {Act("close", s)}
  <2>1. \/ decision'.actions = pre.actions
        \/ /\ Status(pre.book, s) \in {"filled", "close_requested"}
           /\ book' = WithoutReversal(mid, SymbolOf[s])
           /\ decision'.actions = pre.actions \cup {Act("close", s)}
    BY DEF RequestPositionClose, Decide, pre
  <2>2. QED BY <1>3, <2>1
<1>5. t = s
  BY <1>3, <1>4 DEF Act
<1>6. mid \in Book /\ Status(mid, s) = "close_requested"
  BY <1>2, <1>4, WithStatusFacts DEF Sound, Statuses, Open
<1> HIDE DEF mid
<1>7. book'.reservations = mid.reservations
  BY <1>4, <1>6, SignalAssumption, WithoutReversalFacts
<1>8. QED BY <1>5, <1>6, <1>7 DEF Status

-------------------------------------------------------------------------------
(* Only planning adds a row. *)

\* Reconciling writes rows, and adds none.
LEMMA WalkKeeps ==
  ASSUME NEW p, ReconcileStep(p)
  PROVE  DOMAIN intents' = DOMAIN intents
<1>1. \A table, i, state : DOMAIN InState(table, i, state) = DOMAIN table
  BY DEF InState
<1>2. \A table, state : Settle(p, table, state) => intents' = table
  BY DEF Settle
<1>3. \A table : Fail(p, table) => intents' = table
  BY DEF Fail
<1>4. \A table, i, state : Conclude(p, table, i, state) => DOMAIN intents' = DOMAIN table
  BY <1>1, <1>2 DEF Conclude
<1>5. Retire(p) => DOMAIN intents' = DOMAIN intents
  BY <1>1, <1>2, <1>3 DEF Retire
<1>6. Reconcile(p) => DOMAIN intents' = DOMAIN intents
  BY <1>1, <1>2, <1>3, <1>4, <1>5 DEF Reconcile, ReadOrder
<1>7. Resolve(p) => DOMAIN intents' = DOMAIN intents
  BY <1>1, <1>4 DEF Resolve
<1>8. Protect(p) \/ CancelRemainder(p) \/ ReadAgain(p) \/ QueryFails(p) =>
        DOMAIN intents' = DOMAIN intents
  BY <1>1, <1>3, <1>4 DEF Protect, CancelRemainder, ReadAgain, QueryFails
<1>9. QED BY <1>6, <1>7, <1>8 DEF ReconcileStep

\* The steps that do not plan.
LEMMA OthersKeep ==
  ASSUME [OwnedCloseNext]_allVars, \A p \in Processes : ~PlansFollowUp(p), ~WorkerPlans
  PROVE  DOMAIN intents' = DOMAIN intents
<1>1. "monitor" \in Processes /\ "operator" \in Processes
  BY DEF Processes
<1>2. \A table, i, state : DOMAIN InState(table, i, state) = DOMAIN table
  BY DEF InState
<1>3. CASE \E p : ReconcileStep(p)
  BY <1>3, WalkKeeps
<1>4. CASE \E p : Synchronize(p) \/ FollowedUp(p)
  BY <1>2, <1>4 DEF Synchronize, FollowedUp
<1>5. CASE MonitorStep
  BY <1>1, <1>3, <1>4, <1>5
     DEF MonitorStep, MonitorBegins, MonitorSweeps, MonitorExpires, MonitorSettles, Attribute
<1>6. CASE \E p : SubmitsNothing(p) \/ SubmitsAttempted(p) \/ SubmitsClose(p) \/ Post(p)
  BY <1>2, <1>6 DEF SubmitsNothing, SubmitsAttempted, SubmitsClose, Post, Acknowledge
<1>7. CASE SubmitsDependency \/ SubmitsEntry
  BY <1>2, <1>7 DEF SubmitsDependency, SubmitsEntry
<1>8. CASE SubmitsCancel
  <2>1. Retire("worker") => DOMAIN intents' = DOMAIN intents
    <3>1. \A table, state : Settle("worker", table, state) => intents' = table
      BY DEF Settle
    <3>2. \A table : Fail("worker", table) => intents' = table
      BY DEF Fail
    <3>3. QED BY <1>2, <3>1, <3>2 DEF Retire
  <2>2. QED BY <1>2, <1>8, <2>1 DEF SubmitsCancel, Acknowledge
<1>9. CASE WorkerStep
  BY <1>3, <1>6, <1>7, <1>8, <1>9
     DEF WorkerStep, WorkerBegins, WorkerRetries, WorkerPlaces, WorkerPassesStale,
         WorkerProposes, WorkerRecordsRun, WorkerAdvances, WorkerEnds
<1>10. CASE OperatorStep
  BY <1>1, <1>2, <1>3, <1>4, <1>6, <1>10
     DEF OperatorStep, Inspects, Proves, Requests, Orders, OrdersPlanned, Drops, Accounts,
         Finishes, Operator, ReconcileStep
<1>11. CASE \/ OperatorStops \/ Tick \/ Mark \/ (\E i \in Intents : Begins(i))
            \/ (\E p \in Processes : Crash(p))
            \/ \E s \in Signals : ExchangeWorks(s) \/ PriceMoves(s)
  BY <1>11 DEF OperatorStops, Tick, Mark, Begins, Crash, ExchangeWorks, PriceMoves, ledgerVars,
               Intents
<1>12. CASE UNCHANGED allVars
  BY <1>12 DEF allVars, ledgerVars
<1>13. QED BY <1>5, <1>9, <1>10, <1>11, <1>12 DEF OwnedCloseNext, RuntimeStep

\* The decision about the fill of an entry asked for a close of its position.
Asked(e) ==
  /\ FillOf(e) \in DOMAIN log
  /\ Act("close", intents[e].reservation) \in log[FillOf(e)].actions

\* What the operator asked for is about a fill that was confirmed before.
RequestsHeld ==
  \A e : OperatorCloseOf(e) \in DOMAIN log =>
    /\ e \in Intents
    /\ \A s \in Signals :
         Act("close", s) \in log[OperatorCloseOf(e)].actions => Status(book, s) \in Taken

\* Where the operator's request became a close, the fill had asked for none.
RequestsAlone ==
  \A e, d \in Intents :
    /\ intents[e].kind = "entry" /\ intents[d].kind = "close_position"
    /\ intents[d].reservation = intents[e].reservation
    /\ intents[d].command = OperatorCloseOf(e)
    => ~Asked(e)

\* The operator's request is planned by the operator's command, at its task "order".
OperatorPlans(p) ==
  job[p].pc = "plan" /\ (\E e : job[p].command = OperatorCloseOf(e)) =>
    p = "operator" /\ Head(job[p].todo).name = "order"

\* It is planned where the fill asked for none.
OrderAlone ==
  job["operator"].pc = "plan" /\ Head(job["operator"].todo).name = "order" =>
    ~Asked(Item("operator"))

\* Commands of different kinds are different.
LEMMA CommandsDiffer ==
  /\ \A d, e : OperatorCloseOf(d) = OperatorCloseOf(e) => d = e
  /\ \A d, e : FillOf(d) = FillOf(e) => d = e
  /\ \A d, e : OperatorCloseOf(d) \notin {FillOf(e), CancelOf(e), PositionClosedOf(e),
                                          CloseOf(e), ProposeOf(e)}
  /\ \A d, e : FillOf(d) \notin {CancelOf(e), PositionClosedOf(e), CloseOf(e), ProposeOf(e)}
  /\ \A e : OperatorCloseOf(e) # NoCommand
BY DEF OperatorCloseOf, FillOf, CancelOf, PositionClosedOf, CloseOf, ProposeOf, NoCommand

\* What handing over a state decides.
LEMMA SynchronizeDecides ==
  ASSUME ExposureInv, NEW p \in Processes, Synchronize(p)
  PROVE  /\ StaysTaken
         /\ \A e : OperatorCloseOf(e) \in DOMAIN log' => OperatorCloseOf(e) \in DOMAIN log
         /\ \A e : FillOf(e) \in DOMAIN log' /\ FillOf(e) \notin DOMAIN log =>
              e \in Intents /\ Status(book, intents[e].reservation) = "pending"
<1>1. job[p].pc = "sync" /\ JobOK(p) /\ HandOK(p) /\ TableOK
  BY Zenon DEF ExposureInv, JobsOK, JobOK, PlaceOK, Synchronize, At
<1>2. PICK i \in Intents : i = Item(p)
  BY <1>1, AtWork DEF HandOK, Tokens
<1>3. PICK s \in Signals : s = intents[i].reservation /\ s = Owned(p)
  BY <1>1, <1>2, RowType DEF RowsTyped, Owned
<1>4. PICK v : v = job[p].view
  OBVIOUS
<1>5. /\ ConfirmPendingFill(now, funds, s) => StaysTaken
      /\ CancelPendingReservation(now, funds, s) => StaysTaken
      /\ ConfirmPositionClosed(now, funds, s) => StaysTaken
  BY DecisionsStay
<1>6. UNCHANGED book => StaysTaken
  BY DEF StaysTaken
<1>7. \/ UNCHANGED <<book, log>>
      \/ /\ Status(book, s) = "pending"
         /\ Submitted(p, FillOf(i), ConfirmPendingFill(now, funds, s))
      \/ Submitted(p, CancelOf(i), CancelPendingReservation(now, funds, s))
      \/ Submitted(p, PositionClosedOf(i), ConfirmPositionClosed(now, funds, s))
      \/ Submitted(p, CloseOf(i), ConfirmPositionClosed(now, funds, s))
  BY <1>2, <1>3, <1>4 DEF Synchronize, riskVars
<1>8. CASE UNCHANGED <<book, log>>
  BY <1>6, <1>8
<1>9. CASE /\ Status(book, s) = "pending"
           /\ Submitted(p, FillOf(i), ConfirmPendingFill(now, funds, s))
  <2>1. /\ StaysTaken
        /\ \A d \in DOMAIN log' : d = FillOf(i) \/ d \in DOMAIN log
    BY <1>5, <1>6, <1>9 DEF Submitted, Execute, riskVars
  <2>2. QED BY <1>3, <1>9, <2>1, CommandsDiffer
<1>10. CASE Submitted(p, CancelOf(i), CancelPendingReservation(now, funds, s))
  <2>1. /\ StaysTaken
        /\ \A d \in DOMAIN log' : d = CancelOf(i) \/ d \in DOMAIN log
    BY <1>5, <1>6, <1>10 DEF Submitted, Execute, riskVars
  <2>2. QED BY <2>1, CommandsDiffer
<1>11. CASE Submitted(p, PositionClosedOf(i), ConfirmPositionClosed(now, funds, s))
  <2>1. /\ StaysTaken
        /\ \A d \in DOMAIN log' : d = PositionClosedOf(i) \/ d \in DOMAIN log
    BY <1>5, <1>6, <1>11 DEF Submitted, Execute, riskVars
  <2>2. QED BY <2>1, CommandsDiffer
<1>12. CASE Submitted(p, CloseOf(i), ConfirmPositionClosed(now, funds, s))
  <2>1. /\ StaysTaken
        /\ \A d \in DOMAIN log' : d = CloseOf(i) \/ d \in DOMAIN log
    BY <1>5, <1>6, <1>12 DEF Submitted, Execute, riskVars
  <2>2. QED BY <2>1, CommandsDiffer
<1>13. QED BY <1>7, <1>8, <1>9, <1>10, <1>11, <1>12

\* What a step decides: only the operator's command logs the operator's request.
LEMMA StepDecides ==
  ASSUME ExposureInv, [OwnedCloseNext]_allVars
  PROVE  /\ StaysTaken
         /\ \A e : OperatorCloseOf(e) \in DOMAIN log' /\ OperatorCloseOf(e) \notin DOMAIN log =>
              Requests /\ e = Item("operator")
         /\ \A e : FillOf(e) \in DOMAIN log' /\ FillOf(e) \notin DOMAIN log =>
              e \in Intents /\ Status(book, intents[e].reservation) = "pending"
<1>1. UNCHANGED book => StaysTaken
  BY DEF StaysTaken
<1>2. CASE book' = book /\ log' = log
  BY <1>1, <1>2
<1>3. CASE \E p \in Processes : Synchronize(p)
  BY <1>3, SynchronizeDecides
<1>4. CASE WorkerProposes
  <2>1. PICK s \in Signals : s = Coming
    BY <1>4, ComingSignal DEF WorkerProposes
  <2>2. \/ UNCHANGED <<book, log>>
        \/ Execute(ProposeOf(s), ProposeRiskReservation(now, funds, s))
    BY <1>4, <2>1 DEF WorkerProposes, riskVars
  <2>3. CASE Execute(ProposeOf(s), ProposeRiskReservation(now, funds, s))
    <3>1. /\ StaysTaken
          /\ \A d \in DOMAIN log' : d = ProposeOf(s) \/ d \in DOMAIN log
      BY <1>1, <2>3, DecisionsStay DEF Execute, riskVars
    <3>2. QED BY <3>1, CommandsDiffer
  <2>4. QED BY <1>2, <2>2, <2>3
<1>5. CASE Requests
  <2>1. PICK p \in Processes : p = "operator"
    BY DEF Processes
  <2>2. PICK s \in Signals : s = Owned(p)
    BY <1>5, <2>1, AtRequest
  <2>3. Execute(OperatorCloseOf(Item(p)), RequestPositionClose(now, s))
    BY <1>5, <2>1, <2>2 DEF Requests, Operator
  <2>4. /\ StaysTaken
        /\ \A d \in DOMAIN log' : d = OperatorCloseOf(Item(p)) \/ d \in DOMAIN log
    BY <1>1, <2>3, DecisionsStay DEF Execute, riskVars
  <2>5. QED BY <1>5, <2>1, <2>4, CommandsDiffer
<1>6. QED BY <1>2, <1>3, <1>4, <1>5, OthersDecide

\* A request is decided about a confirmed fill.
LEMMA RequestsStayHeld ==
  ASSUME ExposureInv, RequestsHeld, [OwnedCloseNext]_allVars, Progress
  PROVE  RequestsHeld'
<1>1. SUFFICES ASSUME NEW e, OperatorCloseOf(e) \in DOMAIN log'
               PROVE  /\ e \in Intents'
                      /\ \A s \in Signals :
                           Act("close", s) \in log'[OperatorCloseOf(e)].actions =>
                             Status(book', s) \in Taken
  BY DEF RequestsHeld
<1>2. StaysTaken /\ \A i \in Intents : i \in Intents'
  BY StepDecides DEF Progress
<1>3. CASE OperatorCloseOf(e) \in DOMAIN log
  <2>1. log'[OperatorCloseOf(e)] = log[OperatorCloseOf(e)]
    BY <1>3 DEF Progress
  <2>2. QED BY <1>2, <1>3, <2>1 DEF RequestsHeld, StaysTaken
<1>4. CASE OperatorCloseOf(e) \notin DOMAIN log
  <2>1. Requests /\ e = Item("operator")
    BY <1>1, <1>4, StepDecides
  <2>2. PICK p \in Processes : p = "operator"
    BY DEF Processes
  <2>3. e \in Intents /\ Owned(p) \in Signals
    BY <2>1, <2>2, AtRequest
  <2>4. PICK s \in Signals : s = Owned(p)
    BY <2>3
  <2>5. Execute(OperatorCloseOf(e), RequestPositionClose(now, s))
    BY <2>1, <2>2, <2>4 DEF Requests, Operator
  <2>6. RequestPositionClose(now, s) /\ log'[OperatorCloseOf(e)] = decision'
    BY <1>1, <1>4, <2>5 DEF Execute
  <2>7. QED BY <1>2, <2>3, <2>6, RequestAsks DEF Taken
<1>5. QED BY <1>3, <1>4

-------------------------------------------------------------------------------
(* Who plans what. *)

\* After the step p is not about to plan, or where it was.
PlansNothing(p) == job'[p].pc = "plan" => job'[p] = job[p]

\* A process that goes on with a list of tasks, ends its cycle or fails plans nothing.
LEMMA EndsPlanNothing ==
  ASSUME job \in [Processes -> Job], NEW p \in Processes
  PROVE  /\ \A new : Become(p, new) /\ new.pc # "plan" => PlansNothing(p)
         /\ \A todo : Continue(p, todo) => PlansNothing(p)
         /\ \A tasks : Instead(p, tasks) => PlansNothing(p)
         /\ NextTask(p) => PlansNothing(p)
         /\ Raise(p) => PlansNothing(p)
         /\ ItemDone(p) => PlansNothing(p)
         /\ \A table : Fail(p, table) => PlansNothing(p)
         /\ job' = job => PlansNothing(p)
<1>1. \A new : Become(p, new) /\ new.pc # "plan" => PlansNothing(p)
  BY DEF Become, PlansNothing
<1>2. Idle.pc # "plan"
  BY DEF Idle
<1>3. \A todo : [Idle EXCEPT !.pc = "next", !.todo = todo].pc # "plan"
  BY DEF Idle
<1>4. \A todo : Continue(p, todo) => PlansNothing(p)
  <2>1. SUFFICES ASSUME NEW todo, Continue(p, todo) PROVE PlansNothing(p)
    OBVIOUS
  <2>2. \/ Become(p, Idle)
        \/ Become(p, [Idle EXCEPT !.pc = "next", !.todo = todo])
    BY Zenon, <2>1 DEF Continue
  <2>3. QED BY <1>1, <1>2, <1>3, <2>2
<1>5. /\ \A tasks : Instead(p, tasks) => PlansNothing(p)
      /\ NextTask(p) => PlansNothing(p)
  BY <1>4 DEF Instead, NextTask
<1>6. Raise(p) => PlansNothing(p)
  BY <1>1, <1>2 DEF Raise
<1>7. ItemDone(p) => PlansNothing(p)
  BY <1>5, <1>6 DEF ItemDone
<1>8. \A table : Fail(p, table) => PlansNothing(p)
  <2>1. SUFFICES ASSUME NEW table, Fail(p, table) PROVE PlansNothing(p)
    OBVIOUS
  <2>2. PICK todo, view : todo = job[p].todo /\ view = table[Item(p)].state
    OBVIOUS
  <2>3. \/ Raise(p)
        \/ Become(p, [Idle EXCEPT !.pc = "sync", !.todo = todo, !.view = view, !.failed = TRUE])
    BY Zenon, <2>1, <2>2 DEF Fail
  <2>4. [Idle EXCEPT !.pc = "sync", !.todo = todo, !.view = view, !.failed = TRUE].pc # "plan"
    BY DEF Idle
  <2>5. QED BY <1>1, <1>6, <2>3, <2>4
<1>9. job' = job => PlansNothing(p)
  BY DEF PlansNothing
<1>10. QED BY <1>1, <1>4, <1>5, <1>6, <1>7, <1>8, <1>9

\* What reconcile gives is not planned for at once.
LEMMA SettlePlansNothing ==
  ASSUME job \in [Processes -> Job], NEW p \in Processes, NEW table, NEW state,
         Settle(p, table, state)
  PROVE  PlansNothing(p)
<1>1. PICK todo : todo = job[p].todo
  OBVIOUS
<1>2. PICK pc : pc = (IF NeedsAttribution(Item(p), state) THEN "attribute" ELSE "sync")
                /\ pc # "plan"
  OBVIOUS
<1>3. \A c : c # "plan" => [Idle EXCEPT !.pc = c, !.todo = todo, !.view = state].pc # "plan"
  BY DEF Idle
<1>4. \/ Become(p, [Idle EXCEPT !.pc = pc, !.todo = todo, !.view = state])
      \/ Become(p, [Idle EXCEPT !.pc = "attribute", !.todo = todo, !.view = state])
      \/ Become(p, Idle)
      \/ NextTask(p)
      \/ \E tasks : Continue(p, tasks)
  BY Zenon, <1>1, <1>2 DEF Settle
<1>5. Become(p, Idle) => PlansNothing(p)
  BY EndsPlanNothing DEF Raise
<1>6. QED BY <1>2, <1>3, <1>4, <1>5, EndsPlanNothing

\* Nor does the walk.
LEMMA WalkPlansNothing ==
  ASSUME job \in [Processes -> Job], NEW p \in Processes, ReconcileStep(p)
  PROVE  PlansNothing(p)
<1>1. \A table, state : Settle(p, table, state) => PlansNothing(p)
  BY SettlePlansNothing
<1>2. \A table, i, state : Conclude(p, table, i, state) => PlansNothing(p)
  BY <1>1 DEF Conclude
<1>3. \A table : Fail(p, table) => PlansNothing(p)
  BY EndsPlanNothing
<1>4. Retire(p) => PlansNothing(p)
  BY <1>1, <1>3 DEF Retire
<1>5. \A new : Become(p, new) /\ new.pc # "plan" => PlansNothing(p)
  BY EndsPlanNothing
<1>6. \A i : ReadOrder(p, i) => PlansNothing(p)
  <2>1. SUFFICES ASSUME NEW i, ReadOrder(p, i) PROVE PlansNothing(p)
    OBVIOUS
  <2>2. PICK order, known : order = orders[OrderKind(i)][intents[i].reservation]
                            /\ known = intents[i].filled
    OBVIOUS
  <2>3. PICK new : new = [job[p] EXCEPT !.pc = "resolve", !.target = i,
                                        !.seen = order, !.known = known]
    BY Zenon
  <2>4. new.pc # "plan"
    BY <2>3 DEF Job
  <2>5. Become(p, new) \/ \E table : Fail(p, table)
    BY Zenon, <2>1, <2>2, <2>3 DEF ReadOrder
  <2>6. QED BY <1>3, <1>5, <2>4, <2>5
<1>7. Reconcile(p) => PlansNothing(p)
  BY <1>1, <1>2, <1>4, <1>6 DEF Reconcile
<1>8. Resolve(p) => PlansNothing(p)
  <2>1. PICK known : known = job[p].seen.filled
    OBVIOUS
  <2>2. [job[p] EXCEPT !.pc = "protect", !.known = known].pc # "plan"
    BY DEF Job
  <2>3. QED BY <1>2, <1>5, <2>1, <2>2 DEF Resolve
<1>9. Protect(p) => PlansNothing(p)
  <2>1. [job[p] EXCEPT !.pc = "remainder"].pc # "plan"
    BY DEF Job
  <2>2. QED BY <1>2, <1>3, <1>5, <2>1 DEF Protect
<1>10. CancelRemainder(p) => PlansNothing(p)
  <2>1. [job[p] EXCEPT !.pc = "reread"].pc # "plan"
    BY DEF Job
  <2>2. QED BY <1>3, <1>5, <2>1 DEF CancelRemainder
<1>11. ReadAgain(p) => PlansNothing(p)
  <2>1. PICK order : order = orders["entry"][intents[job[p].target].reservation]
    OBVIOUS
  <2>2. [job[p] EXCEPT !.pc = "resolve", !.seen = order].pc # "plan"
    BY DEF Job
  <2>3. QED BY <1>2, <1>5, <2>1, <2>2 DEF ReadAgain
<1>12. QueryFails(p) => PlansNothing(p)
  BY <1>3 DEF QueryFails
<1>13. QED BY <1>7, <1>8, <1>9, <1>10, <1>11, <1>12 DEF ReconcileStep

\* Following up does not ask for another plan.
LEMMA FollowUpPlansNothing ==
  ASSUME job \in [Processes -> Job], NEW p \in Processes, PlansFollowUp(p) \/ FollowedUp(p)
  PROVE  PlansNothing(p)
<1>1. job' = job => PlansNothing(p)
  BY EndsPlanNothing
<1>2. ItemDone(p) => PlansNothing(p)
  BY EndsPlanNothing
<1>3. Become(p, [job[p] EXCEPT !.pc = "sync", !.command = NoCommand]) => PlansNothing(p)
  <2>1. [job[p] EXCEPT !.pc = "sync", !.command = NoCommand].pc # "plan"
    BY DEF Job
  <2>2. QED BY <2>1, EndsPlanNothing
<1>4. QED BY <1>1, <1>2, <1>3 DEF PlansFollowUp, FollowedUp

\* What follows up on an order, a submission or an inspection plans nothing.
LEMMA SubmitPlansNothing ==
  ASSUME job \in [Processes -> Job], NEW p \in Processes,
         SubmitsNothing(p) \/ SubmitsAttempted(p) \/ SubmitsClose(p) \/ Post(p)
  PROVE  PlansNothing(p)
<1>1. Become(p, [job[p] EXCEPT !.pc = "post"]) => PlansNothing(p)
  <2>1. [job[p] EXCEPT !.pc = "post"].pc # "plan"
    BY DEF Job
  <2>2. QED BY <2>1, EndsPlanNothing
<1>2. SubmitsNothing(p) \/ SubmitsAttempted(p) => PlansNothing(p)
  BY EndsPlanNothing DEF SubmitsNothing, SubmitsAttempted
<1>3. SubmitsClose(p) => PlansNothing(p)
  BY <1>1, EndsPlanNothing DEF SubmitsClose
<1>4. Post(p) => PlansNothing(p)
  BY EndsPlanNothing DEF Post, Acknowledge
<1>5. QED BY <1>2, <1>3, <1>4

\* After the step p is about to plan the operator's request only at the task "order", or
\* where it was before.
PlansInTurn(p) ==
  \/ PlansNothing(p)
  \/ \A e : job'[p].command # OperatorCloseOf(e)
  \/ p = "operator" /\ Head(job'[p].todo).name = "order"

\* Who synchronizes a row plans what the ledger decides about it.
LEMMA SynchronizePlans ==
  ASSUME job \in [Processes -> Job], NEW p \in Processes, Synchronize(p)
  PROVE  PlansInTurn(p)
<1>1. ASSUME NEW c, PlanNext(p, c), \A e : c # OperatorCloseOf(e)
      PROVE  PlansInTurn(p)
  <2>1. job'[p] = [job[p] EXCEPT !.pc = "plan", !.command = c]
    BY <1>1 DEF PlanNext, Become
  <2>2. job'[p].command = c
    BY <2>1 DEF Job
  <2>3. QED BY <1>1, <2>2 DEF PlansInTurn
<1>2. (ItemDone(p) => PlansInTurn(p)) /\ (Raise(p) => PlansInTurn(p))
  BY EndsPlanNothing DEF PlansInTurn
<1>3. PICK i : i = Item(p)
  OBVIOUS
<1>4. \A e : /\ FillOf(i) # OperatorCloseOf(e) /\ CancelOf(i) # OperatorCloseOf(e)
             /\ PositionClosedOf(i) # OperatorCloseOf(e) /\ CloseOf(i) # OperatorCloseOf(e)
  BY CommandsDiffer
<1>5. \/ ItemDone(p) \/ Raise(p) \/ PlanNext(p, FillOf(i)) \/ PlanNext(p, CancelOf(i))
      \/ PlanNext(p, PositionClosedOf(i)) \/ PlanNext(p, CloseOf(i))
  BY <1>3 DEF Synchronize, Submitted
<1>6. QED BY <1>1, <1>2, <1>4, <1>5

\* The monitor plans what it has handed over.
LEMMA MonitorPlans ==
  ASSUME job \in [Processes -> Job], MonitorStep
  PROVE  PlansInTurn("monitor")
<1> DEFINE p == "monitor"
<1>1. p \in Processes
  BY DEF Processes
<1>2. CASE MonitorBegins \/ MonitorSweeps \/ MonitorExpires
  BY <1>1, <1>2, EndsPlanNothing DEF MonitorBegins, MonitorSweeps, MonitorExpires, PlansInTurn
<1>3. CASE MonitorSettles
  <2>1. PICK view : view = intents[Item(p)].state
    OBVIOUS
  <2>2. PICK new : new = [job[p] EXCEPT !.pc = "sync", !.view = view]
    BY Zenon
  <2>3. new.pc # "plan"
    BY <1>1, <2>2 DEF Job
  <2>4. Become(p, new)
    BY Zenon, <1>3, <2>1, <2>2 DEF MonitorSettles
  <2>5. QED BY <1>1, <2>3, <2>4, EndsPlanNothing DEF PlansInTurn
<1>4. CASE Synchronize(p)
  BY <1>1, <1>4, SynchronizePlans
<1>5. CASE PlansFollowUp(p) \/ FollowedUp(p)
  BY <1>1, <1>5, FollowUpPlansNothing DEF PlansInTurn
<1>6. CASE ReconcileStep(p)
  BY <1>1, <1>6, WalkPlansNothing DEF PlansInTurn
<1>7. CASE Attribute(p)
  <2>1. [job[p] EXCEPT !.pc = "sync"].pc # "plan"
    BY <1>1 DEF Job
  <2>2. Become(p, [job[p] EXCEPT !.pc = "sync"]) \/ NextTask(p)
    BY <1>7 DEF Attribute
  <2>3. QED BY <1>1, <2>1, <2>2, EndsPlanNothing DEF PlansInTurn
<1>8. QED BY <1>2, <1>3, <1>4, <1>5, <1>6, <1>7 DEF MonitorStep

\* The worker plans what the ledger decides about a signal.
LEMMA WorkerPlansSignals ==
  ASSUME job \in [Processes -> Job], WorkerStep
  PROVE  PlansInTurn("worker")
<1> DEFINE p == "worker"
<1>1. p \in Processes
  BY DEF Processes
<1>2. CASE WorkerBegins \/ WorkerRetries \/ WorkerPlaces \/ WorkerRecordsRun \/ WorkerAdvances
             \/ WorkerEnds
  BY <1>1, <1>2, EndsPlanNothing
     DEF WorkerBegins, WorkerRetries, WorkerPlaces, WorkerRecordsRun, WorkerAdvances,
         WorkerEnds, PlansInTurn
<1>3. CASE WorkerPassesStale \/ WorkerPlans
  BY <1>1, <1>3, EndsPlanNothing DEF WorkerPassesStale, WorkerPlans, PlansInTurn
<1>4. CASE WorkerProposes
  <2>1. PICK c : c = ProposeOf(Coming)
    OBVIOUS
  <2>2. CASE PlanNext(p, c)
    <3>1. job'[p] = [job[p] EXCEPT !.pc = "plan", !.command = c]
      BY <1>1, <2>2 DEF PlanNext, Become
    <3>2. job'[p].command = c
      BY <1>1, <3>1 DEF Job
    <3>3. QED BY <2>1, <3>2, CommandsDiffer DEF PlansInTurn
  <2>3. CASE Raise(p)
    BY <1>1, <2>3, EndsPlanNothing DEF PlansInTurn
  <2>4. QED BY <1>4, <2>1, <2>2, <2>3 DEF WorkerProposes
<1>5. CASE SubmitsDependency
  BY <1>1, <1>5, EndsPlanNothing DEF SubmitsDependency, PlansInTurn
<1>6. CASE SubmitsNothing(p) \/ SubmitsAttempted(p) \/ SubmitsClose(p) \/ Post(p)
  BY <1>1, <1>6, SubmitPlansNothing DEF PlansInTurn
<1>7. CASE SubmitsEntry
  <2>1. [job[p] EXCEPT !.pc = "post"].pc # "plan"
    BY <1>1 DEF Job
  <2>2. NextTask(p) \/ Raise(p) \/ Become(p, [job[p] EXCEPT !.pc = "post"])
    BY <1>7 DEF SubmitsEntry
  <2>3. QED BY <1>1, <2>1, <2>2, EndsPlanNothing DEF PlansInTurn
<1>8. CASE SubmitsCancel
  <2>1. Retire(p) => PlansNothing(p)
    <3>1. \A table, state : Settle(p, table, state) => PlansNothing(p)
      BY <1>1, SettlePlansNothing
    <3>2. QED BY <1>1, <3>1, EndsPlanNothing DEF Retire
  <2>2. NextTask(p) \/ Raise(p) \/ Retire(p)
    BY <1>8 DEF SubmitsCancel, Acknowledge
  <2>3. QED BY <1>1, <2>1, <2>2, EndsPlanNothing DEF PlansInTurn
<1>9. CASE ReconcileStep(p)
  BY <1>1, <1>9, WalkPlansNothing DEF PlansInTurn
<1>10. QED
  BY <1>2, <1>3, <1>4, <1>5, <1>6, <1>7, <1>8, <1>9 DEF WorkerStep

\* The operator's command plans where it synchronizes and at its task "order".
LEMMA OperatorPlansNothing ==
  ASSUME job \in [Processes -> Job], OperatorStep, ~Synchronize("operator"), ~Orders
  PROVE  PlansNothing("operator")
<1>1. PICK p \in Processes : p = "operator"
  BY DEF Processes
<1>2. \A new : Become(p, new) /\ new.pc # "plan" => PlansNothing(p)
  BY EndsPlanNothing
<1>3. CASE Inspects
  <2>1. PICK i, order, known : i = Item(p) /\ order = orders["entry"][Owned(p)]
                               /\ known = intents[i].filled
    OBVIOUS
  <2>2. PICK new : new = [job[p] EXCEPT !.pc = "prove", !.target = i, !.seen = order,
                                        !.known = known]
    BY Zenon
  <2>3. Become(p, new) \/ Raise(p)
    BY Zenon, <1>1, <1>3, <2>1, <2>2 DEF Inspects, Operator
  <2>4. new.pc # "plan"
    BY <2>2 DEF Job
  <2>5. QED BY <1>1, <1>2, <2>3, <2>4, EndsPlanNothing
<1>4. CASE Proves
  <2>1. \A todo :
          [[Idle EXCEPT !.pc = "sync", !.view = "filled"] EXCEPT !.todo = todo].pc # "plan"
    BY DEF Idle
  <2>2. \/ Raise(p)
        \/ \E todo : Become(p, [[Idle EXCEPT !.pc = "sync", !.view = "filled"]
                                  EXCEPT !.todo = todo])
    BY <1>1, <1>4 DEF Proves, Operator
  <2>3. QED BY <1>1, <1>2, <2>1, <2>2, EndsPlanNothing
<1>5. CASE Requests \/ OrdersPlanned \/ Drops \/ Finishes
  BY <1>1, <1>5, EndsPlanNothing
     DEF Requests, OrdersPlanned, Drops, Finishes, Operator
<1>6. CASE Accounts
  <2>1. PICK todo, view : /\ todo = job[p].todo
                          /\ view = IF Head(job[p].todo).name = "flat"
                                    THEN "position_closed_pending" ELSE "close_confirmed"
    OBVIOUS
  <2>2. Raise(p) \/ Become(p, [Idle EXCEPT !.pc = "sync", !.todo = todo, !.view = view])
    BY Zenon, <1>1, <1>6, <2>1 DEF Accounts, Operator
  <2>3. [Idle EXCEPT !.pc = "sync", !.todo = todo, !.view = view].pc # "plan"
    BY DEF Idle
  <2>4. QED BY <1>1, <1>2, <2>2, <2>3, EndsPlanNothing
<1>7. CASE PlansFollowUp(p) \/ FollowedUp(p)
  BY <1>1, <1>7, FollowUpPlansNothing
<1>8. CASE SubmitsNothing(p) \/ SubmitsAttempted(p) \/ SubmitsClose(p) \/ Post(p)
  BY <1>1, <1>8, SubmitPlansNothing
<1>9. CASE Reconcile(p) \/ Resolve(p)
  BY <1>1, <1>9, WalkPlansNothing DEF ReconcileStep
<1>10. QED
  BY <1>1, <1>3, <1>4, <1>5, <1>6, <1>7, <1>8, <1>9 DEF OperatorStep, Operator

\* It plans the request at the task "order".
LEMMA OperatorPlansOrder ==
  ASSUME job \in [Processes -> Job], OperatorStep
  PROVE  PlansInTurn("operator")
<1>1. PICK p \in Processes : p = "operator"
  BY DEF Processes
<1>2. CASE Orders
  <2>1. CASE \E c : Become(p, [job[p] EXCEPT !.pc = "plan", !.command = c])
    <3>1. PICK c : Become(p, [job[p] EXCEPT !.pc = "plan", !.command = c])
      BY <2>1
    <3>2. job'[p] = [job[p] EXCEPT !.pc = "plan", !.command = c]
      BY <3>1 DEF Become
    <3>3. job'[p].todo = job[p].todo
      BY <3>2 DEF Job
    <3>4. Head(job[p].todo).name = "order"
      BY <1>1, <1>2 DEF Orders, Operator, Doing
    <3>5. QED BY <1>1, <3>3, <3>4 DEF PlansInTurn
  <2>2. CASE Raise(p) \/ \E todo : Continue(p, todo)
    BY <1>1, <2>2, EndsPlanNothing DEF PlansInTurn
  <2>3. QED BY <1>1, <1>2, <2>1, <2>2 DEF Orders, Operator
<1>3. CASE Synchronize(p)
  BY <1>1, <1>3, SynchronizePlans
<1>4. QED BY <1>1, <1>2, <1>3, OperatorPlansNothing DEF PlansInTurn

\* Whoever moves, the operator's request is planned by the operator at the task "order".
LEMMA NextOrders ==
  ASSUME job \in [Processes -> Job], [OwnedCloseNext]_allVars,
         \A p \in Processes : OperatorPlans(p)
  PROVE  \A p \in Processes : OperatorPlans(p)'
<1>1. /\ "monitor" \in Processes /\ "worker" \in Processes /\ "operator" \in Processes
  BY DEF Processes
<1>2. \A p \in Processes : OperatorPlans(p) /\ PlansInTurn(p) => OperatorPlans(p)'
  BY DEF OperatorPlans, PlansInTurn, PlansNothing, OperatorCloseOf
<1>3. \A p \in Processes : OperatorPlans(p) /\ (job'[p] = job[p] \/ job'[p].pc # "plan") =>
        OperatorPlans(p)'
  BY DEF OperatorPlans, OperatorCloseOf
<1>4. CASE MonitorStep
  BY <1>1, <1>2, <1>3, <1>4, MonitorAlone, MonitorPlans DEF MovesAlone
<1>5. CASE WorkerStep
  BY <1>1, <1>2, <1>3, <1>5, WorkerAlone, WorkerPlansSignals DEF MovesAlone
<1>6. CASE OperatorStep
  BY <1>1, <1>2, <1>3, <1>6, OperatorAlone, OperatorPlansOrder DEF MovesAlone
<1>7. Idle.pc # "plan"
  BY DEF Idle
<1>8. CASE \E i \in Intents : Begins(i)
  <2>1. PICK todo : Alone(todo)
    BY <1>8 DEF Begins
  <2>2. [Idle EXCEPT !.pc = "next", !.todo = todo].pc # "plan"
    BY DEF Idle
  <2>3. \A q \in Processes : \/ job'[q] = Idle
                             \/ job'[q] = [Idle EXCEPT !.pc = "next", !.todo = todo]
    BY <2>1 DEF Alone
  <2>4. \A q \in Processes : job'[q].pc # "plan"
    BY <1>7, <2>2, <2>3
  <2>5. QED BY <1>3, <2>4
<1>9. CASE OperatorStops \/ \E p \in Processes : Crash(p)
  <2>1. PICK p \in Processes : Raise(p)
    BY <1>1, <1>9 DEF OperatorStops, Crash, Operator
  <2>2. job' = [job EXCEPT ![p] = Idle]
    BY <2>1 DEF Raise, Become
  <2>3. \A q \in Processes : job'[q] = job[q] \/ job'[q] = Idle
    BY <2>2
  <2>4. QED BY <1>3, <1>7, <2>3
<1>10. CASE \/ Tick \/ Mark \/ UNCHANGED allVars
            \/ \E s \in Signals : ExchangeWorks(s) \/ PriceMoves(s)
  <2>1. job' = job
    BY <1>10 DEF Tick, Mark, allVars, ExchangeWorks, PriceMoves
  <2>2. QED BY <1>3, <2>1
<1>11. QED BY <1>4, <1>5, <1>6, <1>8, <1>9, <1>10 DEF OwnedCloseNext, RuntimeStep

-------------------------------------------------------------------------------
(* The operator orders a close behind a look at what the fill asked for. *)

\* What the fill of i asked for has its close.
Looked(i) == Asked(i) => Closes(intents[i].reservation) # {}

\* The operator's command is about to look what the fill of i asked for: it proves that
\* i is filled, hands the fill over, and plans what it asked for.
Looking(i) ==
  LET j == job["operator"]
  IN  \/ /\ Head(j.todo) = Task("inspect", i)
         /\ j.pc \in {"next", "prove"} \/ (j.pc = "sync" /\ j.view = "filled")
      \/ j.pc = "plan" /\ j.command = FillOf(i)

\* Before every order comes a look.
OrdersLooked ==
  \A t \in Range(job["operator"].todo) :
    t.name = "order" => Looked(t.intent) \/ Looking(t.intent)

\* The orders on the list after a step were on it before.
NoNewOrder(p) ==
  \A t \in Range(job'[p].todo) : t.name = "order" => t \in Range(job[p].todo)

\* The fill of i is not confirmed in this step.
NoNewFill(i) == FillOf(i) \in DOMAIN log' => FillOf(i) \in DOMAIN log

\* What the fill asked for, and its close, stay.
LEMMA AskedStays ==
  ASSUME ExposureInv, Progress, NEW i \in Intents, NoNewFill(i)
  PROVE  /\ Asked(i)' => Asked(i)
         /\ Looked(i) => Looked(i)'
<1>1. PICK s : s = intents[i].reservation
  OBVIOUS
<1>2. intents'[i].reservation = s
  BY <1>1 DEF Progress, MovesOn
<1>3. FillOf(i) \in DOMAIN log => log'[FillOf(i)] = log[FillOf(i)]
  BY DEF Progress
<1>4. Asked(i)' => Asked(i)
  <2>1. FillOf(i)' = FillOf(i)
    BY DEF FillOf
  <2>2. QED BY <1>1, <1>2, <1>3, <2>1 DEF Asked, NoNewFill, Act
<1>5. Closes(s) # {} => Closes(s)' # {}
  <2>1. \A c : c \in Closes(s) => c \in Closes(s)'
    BY DEF Closes, Of, Progress, MovesOn
  <2>2. QED BY <2>1
<1>6. QED BY <1>1, <1>2, <1>4, <1>5 DEF Looked, Closes

\* Everything that the fill asked for is planned: its close is there.
LEMMA PlannedLooked ==
  ASSUME ExposureInv, NEW i \in Intents, ToPlan(FillOf(i)) = {}
  PROVE  Looked(i)
<1>1. PICK s \in Signals : s = intents[i].reservation
  BY RowType DEF RowsTyped, ExposureInv
<1>2. SUFFICES ASSUME Act("close", s) \in log[FillOf(i)].actions
               PROVE  Closes(s) # {}
  BY <1>1 DEF Looked, Asked
<1>3. PICK a : a = Act("close", s)
  OBVIOUS
<1>4. a.type = "close" /\ a.reservation = s
  BY <1>3 DEF Act
<1>5. SymbolOf[s] \in Symbols
  BY SignalAssumption
<1>6. Stored(FillOf(i), a)
  BY <1>2, <1>3, <1>4, <1>5 DEF ToPlan, Missing
<1>7. QED BY <1>4, <1>6 DEF Stored, KindOf, Closes

\* What the tasks of the operator are about.
LEMMA OperatorTasks ==
  ASSUME ExposureInv, NEW p \in Processes, p = "operator"
  PROVE  /\ job \in [Processes -> Job] /\ job[p] \in Job /\ job[p].todo \in Seq(TaskType)
         /\ \A t \in Range(job[p].todo) : t.intent \in Intents
         /\ job[p].pc # "idle" => /\ job[p].todo # <<>>
                                  /\ Head(job[p].todo) = Task(Head(job[p].todo).name, Item(p))
                                  /\ Head(job[p].todo) \in Range(job[p].todo)
                                  /\ TaskOK(p, Head(job[p].todo)) /\ Item(p) \in Intents
<1>1. JobOK(p) /\ TodoOK(p, job[p].todo) /\ job \in [Processes -> Job]
  BY DEF ExposureInv, JobsOK, JobOK
<1>2. Tokens \cap Names(p) = {}
  BY DEF Tokens, Names
<1>3. \A t : TaskOK(p, t) => t.intent \in Intents /\ t.name \notin Tokens
  BY <1>2 DEF TaskOK
<1>4. job[p].todo \in Seq(TaskType) /\ \A t \in Range(job[p].todo) : t.intent \in Intents
  BY <1>1, <1>3 DEF TodoOK
<1>5. ASSUME job[p].pc # "idle"
      PROVE  /\ job[p].todo # <<>>
             /\ Head(job[p].todo) = Task(Head(job[p].todo).name, Item(p))
             /\ Head(job[p].todo) \in Range(job[p].todo)
             /\ TaskOK(p, Head(job[p].todo)) /\ Item(p) \in Intents
  BY <1>1, <1>3, <1>5, AtWork
<1>6. QED BY <1>1, <1>4, <1>5

\* A step of the operator that adds no order, is at none of the places where it looks and
\* confirms no fill, keeps what was looked at.
LEMMA LookedOn ==
  ASSUME ExposureInv, Progress, OrdersLooked, NEW p \in Processes, p = "operator",
         NoNewOrder(p), \A i : NoNewFill(i),
         \A i : ~Looking(i)
  PROVE  OrdersLooked'
<1>1. SUFFICES ASSUME NEW t \in Range(job'[p].todo), t.name = "order"
               PROVE  Looked(t.intent)'
  BY DEF OrdersLooked
<1>2. t \in Range(job[p].todo)
  BY <1>1 DEF NoNewOrder
<1>3. t.intent \in Intents /\ Looked(t.intent)
  BY <1>1, <1>2, OperatorTasks DEF OrdersLooked
<1>4. PICK i \in Intents : i = t.intent
  BY <1>3
<1>5. Looked(i)'
  BY <1>3, <1>4, AskedStays
<1>6. QED BY <1>4, <1>5

\* Where the operator does not look.
LEMMA LooksElsewhere ==
  ASSUME NEW p, p = "operator",
         \/ job[p].pc = "next" /\ Head(job[p].todo).name # "inspect"
         \/ job[p].pc \in {"idle", "resolve", "attribute", "post"}
  PROVE  \A i : ~Looking(i)
<1>1. \A i : Task("inspect", i).name = "inspect"
  BY DEF Task
<1>2. QED BY <1>1 DEF Looking

\* What ends a step adds no order.
LEMMA EndsInOrder ==
  ASSUME ExposureInv, NEW p \in Processes, p = "operator"
  PROVE  /\ \A new : Become(p, new) /\ new.todo = job[p].todo => NoNewOrder(p)
         /\ \A todo : Continue(p, todo) /\ (\A t \in Range(todo) : t.name = "order" =>
                                              t \in Range(job[p].todo)) => NoNewOrder(p)
         /\ job[p].pc # "idle" =>
              /\ NextTask(p) => NoNewOrder(p)
              /\ ItemDone(p) => NoNewOrder(p)
              /\ \A i, name : Instead(p, <<Task(name, i)>>) /\ name # "order" => NoNewOrder(p)
         /\ Raise(p) => NoNewOrder(p)
         /\ \A table : Fail(p, table) => NoNewOrder(p)
         /\ job' = job => NoNewOrder(p)
<1>1. job \in [Processes -> Job] /\ job[p].todo \in Seq(TaskType)
      /\ (job[p].pc # "idle" => job[p].todo # <<>>)
  BY OperatorTasks
<1>2. \A new : Become(p, new) => job'[p] = new
  BY <1>1 DEF Become
<1>3. Range(Idle.todo) = {}
  BY DEF Idle, Range
<1>4. \A new : Become(p, new) /\ new.todo = job[p].todo => NoNewOrder(p)
  BY <1>2 DEF NoNewOrder
<1>5. Raise(p) => NoNewOrder(p)
  BY <1>2, <1>3 DEF Raise, NoNewOrder
<1>6. ASSUME NEW todo, Continue(p, todo),
             \A t \in Range(todo) : t.name = "order" => t \in Range(job[p].todo)
      PROVE  NoNewOrder(p)
  <2>1. \/ job'[p] = Idle
        \/ job'[p] = [Idle EXCEPT !.pc = "next", !.todo = todo]
    BY Zenon, <1>2, <1>6 DEF Continue
  <2>2. [Idle EXCEPT !.pc = "next", !.todo = todo].todo = todo
    BY DEF Idle
  <2>3. CASE job'[p] = Idle
    BY <1>3, <2>3 DEF NoNewOrder
  <2>4. CASE job'[p] = [Idle EXCEPT !.pc = "next", !.todo = todo]
    <3>1. job'[p].todo = todo
      BY <2>2, <2>4
    <3>2. QED BY <1>6, <3>1 DEF NoNewOrder
  <2>5. QED BY <2>1, <2>3, <2>4
<1>7. ASSUME job[p].pc # "idle"
      PROVE  Tail(job[p].todo) \in Seq(TaskType)
             /\ Range(Tail(job[p].todo)) \subseteq Range(job[p].todo)
  BY <1>1, <1>7, HeadTail
<1>8. job[p].pc # "idle" /\ NextTask(p) => NoNewOrder(p)
  BY <1>6, <1>7 DEF NextTask
<1>9. job[p].pc # "idle" /\ ItemDone(p) => NoNewOrder(p)
  BY <1>5, <1>8 DEF ItemDone
<1>10. ASSUME job[p].pc # "idle", NEW i, NEW name, Instead(p, <<Task(name, i)>>),
              name # "order"
       PROVE  NoNewOrder(p)
  <2>1. PICK a, rest : a = <<Task(name, i)>> /\ rest = Tail(job[p].todo)
    BY Zenon
  <2>2. PICK S : S = TaskType \cup {Task(name, i)}
    BY Zenon
  <2>3. a \in Seq(S) /\ Range(a) = {Task(name, i)}
    BY <2>1, <2>2 DEF Range
  <2>4. rest \in Seq(S) /\ Range(rest) \subseteq Range(job[p].todo)
    BY <1>7, <1>10, <2>1, <2>2
  <2>5. Range(a \o rest) \subseteq Range(a) \cup Range(rest)
    BY <2>3, <2>4, RangeConcat
  <2>6. Continue(p, a \o rest)
    BY <1>10, <2>1 DEF Instead
  <2>7. Task(name, i).name = name
    BY DEF Task
  <2>8. \A t \in Range(a \o rest) : t.name = "order" => t \in Range(job[p].todo)
    BY <1>10, <2>3, <2>4, <2>5, <2>7
  <2>9. QED BY <1>6, <2>6, <2>8
<1>11. ASSUME NEW table, Fail(p, table) PROVE NoNewOrder(p)
  <2>1. PICK todo, view : todo = job[p].todo /\ view = table[Item(p)].state
    OBVIOUS
  <2>2. \/ Raise(p)
        \/ Become(p, [Idle EXCEPT !.pc = "sync", !.todo = todo, !.view = view, !.failed = TRUE])
    BY Zenon, <1>11, <2>1 DEF Fail
  <2>3. [Idle EXCEPT !.pc = "sync", !.todo = todo, !.view = view, !.failed = TRUE].todo = todo
    BY DEF Idle
  <2>4. QED BY <1>4, <1>5, <2>1, <2>2, <2>3
<1>12. job' = job => NoNewOrder(p)
  BY DEF NoNewOrder
<1>13. QED BY <1>4, <1>5, <1>6, <1>8, <1>9, <1>10, <1>11, <1>12

\* Reconciling a close adds no order.
LEMMA WalkInOrder ==
  ASSUME ExposureInv, NEW p \in Processes, p = "operator", Reconcile(p) \/ Resolve(p)
  PROVE  NoNewOrder(p)
<1>1. job[p] \in Job /\ job[p].pc # "idle" /\ TaskOK(p, Head(job[p].todo))
  <2>1. job[p].pc # "idle"
    BY DEF Reconcile, Resolve, Doing, At
  <2>2. QED BY <2>1, OperatorTasks
<1>2. Head(job[p].todo).name # "depend"
  BY <1>1 DEF TaskOK, Names
<1>3. ASSUME NEW table, NEW state, Settle(p, table, state) PROVE NoNewOrder(p)
  <2>1. PICK todo : todo = job[p].todo
    OBVIOUS
  <2>2. PICK pc : pc = IF NeedsAttribution(Item(p), state) THEN "attribute" ELSE "sync"
    OBVIOUS
  <2>3. \A c : [Idle EXCEPT !.pc = c, !.todo = todo, !.view = state].todo = todo
    BY DEF Idle
  <2>4. \/ Become(p, [Idle EXCEPT !.pc = pc, !.todo = todo, !.view = state])
        \/ Become(p, [Idle EXCEPT !.pc = "attribute", !.todo = todo, !.view = state])
        \/ Become(p, Idle)
        \/ NextTask(p)
    BY Zenon, <1>2, <1>3, <2>1, <2>2 DEF Settle
  <2>5. Become(p, Idle) => NoNewOrder(p)
    BY EndsInOrder DEF Raise
  <2>6. QED BY <1>1, <2>1, <2>3, <2>4, <2>5, EndsInOrder
<1>4. \A table, i, state : Conclude(p, table, i, state) => NoNewOrder(p)
  BY <1>3 DEF Conclude
<1>5. \A table : Fail(p, table) => NoNewOrder(p)
  BY EndsInOrder
<1>6. Retire(p) => NoNewOrder(p)
  BY <1>3, <1>5 DEF Retire
<1>7. \A i : ReadOrder(p, i) => NoNewOrder(p)
  <2>1. SUFFICES ASSUME NEW i, ReadOrder(p, i) PROVE NoNewOrder(p)
    OBVIOUS
  <2>2. PICK order, known : order = orders[OrderKind(i)][intents[i].reservation]
                            /\ known = intents[i].filled
    OBVIOUS
  <2>3. PICK new : new = [job[p] EXCEPT !.pc = "resolve", !.target = i,
                                        !.seen = order, !.known = known]
    BY Zenon
  <2>4. new.todo = job[p].todo
    BY <1>1, <2>3 DEF Job
  <2>5. Become(p, new) \/ \E table : Fail(p, table)
    BY Zenon, <2>1, <2>2, <2>3 DEF ReadOrder
  <2>6. QED BY <1>5, <2>4, <2>5, EndsInOrder
<1>8. Reconcile(p) => NoNewOrder(p)
  BY <1>3, <1>4, <1>6, <1>7 DEF Reconcile
<1>9. Resolve(p) => NoNewOrder(p)
  <2>1. PICK known : known = job[p].seen.filled
    OBVIOUS
  <2>2. [job[p] EXCEPT !.pc = "protect", !.known = known].todo = job[p].todo
    BY <1>1 DEF Job
  <2>3. QED BY <1>4, <2>1, <2>2, EndsInOrder DEF Resolve
<1>10. QED BY <1>8, <1>9

\* The operator's command confirms a fill where it synchronizes.
LEMMA OperatorFills ==
  ASSUME OperatorStep, ~Synchronize("operator")
  PROVE  \A i : NoNewFill(i)
<1>1. PICK p \in Processes : p = "operator"
  BY DEF Processes
<1>2. log' = log => \A i : NoNewFill(i)
  BY DEF NoNewFill
<1>3. CASE Requests
  <2>1. PICK c : c = OperatorCloseOf(Item(p))
    OBVIOUS
  <2>2. Execute(c, RequestPositionClose(now, Owned(p)))
    BY <1>1, <1>3, <2>1 DEF Requests, Operator
  <2>3. \A d \in DOMAIN log' : d = c \/ d \in DOMAIN log
    BY <2>2 DEF Execute
  <2>4. QED BY <2>1, <2>3, CommandsDiffer DEF NoNewFill
<1>4. CASE ~Requests
  <2>1. log' = log
    BY <1>1, <1>4
       DEF OperatorStep, Inspects, Proves, Orders, OrdersPlanned, Drops, Accounts, Finishes,
           PlansFollowUp, FollowedUp, SubmitsNothing, SubmitsAttempted, SubmitsClose, Post,
           Reconcile, Resolve, Ledgers, Beyond, Operator
  <2>2. QED BY <1>2, <2>1
<1>5. QED BY <1>3, <1>4

\* The steps of the operator's command that have nothing to do with looking.
LEMMA OthersInOrder ==
  ASSUME ExposureInv, NEW p \in Processes, p = "operator",
         \/ Requests \/ Orders \/ Drops \/ Accounts \/ Finishes
         \/ SubmitsNothing(p) \/ SubmitsAttempted(p) \/ SubmitsClose(p) \/ Post(p)
         \/ Reconcile(p) \/ Resolve(p)
  PROVE  NoNewOrder(p) /\ \A i : ~Looking(i)
<1>1. job \in [Processes -> Job] /\ job[p] \in Job
  BY OperatorTasks
<1>2. ASSUME job[p].pc = "next", Head(job[p].todo).name # "inspect"
      PROVE  job[p].pc # "idle" /\ \A i : ~Looking(i)
  BY <1>2, LooksElsewhere
<1>3. ASSUME job[p].pc \in {"resolve", "attribute", "post"}
      PROVE  job[p].pc # "idle" /\ \A i : ~Looking(i)
  BY <1>3, LooksElsewhere
<1>4. CASE Requests \/ Drops \/ Finishes
  <2>1. job[p].pc = "next" /\ Head(job[p].todo).name # "inspect"
    BY <1>4 DEF Requests, Drops, Finishes, Operator, Doing, At
  <2>2. NextTask(p) \/ Raise(p)
    BY <1>4 DEF Requests, Drops, Finishes, Operator
  <2>3. QED BY <1>2, <2>1, <2>2, EndsInOrder
<1>5. CASE Orders
  <2>1. job[p].pc = "next" /\ Head(job[p].todo).name # "inspect"
    BY <1>5 DEF Orders, Operator, Doing, At
  <2>2. PICK i, close : i = Item(p) /\ close = Max(Closes(Owned(p)))
    OBVIOUS
  <2>3. PICK todo : todo = <<Task("submit", close), Task("confirm", close), Task("finish", i)>>
    BY Zenon
  <2>4. PICK new : new = [job[p] EXCEPT !.pc = "plan", !.command = OperatorCloseOf(i)]
    BY Zenon
  <2>5. Become(p, new) \/ Raise(p) \/ Continue(p, todo)
    BY Zenon, <1>5, <2>2, <2>3, <2>4 DEF Orders, Operator
  <2>6. new.todo = job[p].todo
    BY <1>1, <2>4 DEF Job
  <2>7. \A t \in Range(todo) : t.name # "order"
    <3>1. \A a, b, c : \A t \in Range(<<a, b, c>>) : t \in {a, b, c}
      BY DEF Range
    <3>2. QED BY <2>3, <3>1 DEF Task
  <2>8. QED BY <1>2, <2>1, <2>5, <2>6, <2>7, EndsInOrder
<1>6. CASE Accounts
  <2>1. \/ job[p].pc = "next" /\ Head(job[p].todo).name # "inspect"
        \/ job[p].pc = "attribute"
    BY <1>6 DEF Accounts, Operator, Doing, At
  <2>2. PICK todo, view : /\ todo = job[p].todo
                          /\ view = IF Head(job[p].todo).name = "flat"
                                    THEN "position_closed_pending" ELSE "close_confirmed"
    OBVIOUS
  <2>3. Raise(p) \/ Become(p, [Idle EXCEPT !.pc = "sync", !.todo = todo, !.view = view])
    BY Zenon, <1>6, <2>2 DEF Accounts, Operator
  <2>4. [Idle EXCEPT !.pc = "sync", !.todo = todo, !.view = view].todo = todo
    BY DEF Idle
  <2>5. QED BY <1>2, <1>3, <2>1, <2>2, <2>3, <2>4, EndsInOrder
<1>7. CASE SubmitsNothing(p) \/ SubmitsAttempted(p) \/ SubmitsClose(p)
  <2>1. job[p].pc = "next" /\ Head(job[p].todo).name # "inspect"
    BY <1>7 DEF SubmitsNothing, SubmitsAttempted, SubmitsClose, Submitting, Doing, At
  <2>2. [job[p] EXCEPT !.pc = "post"].todo = job[p].todo
    BY <1>1 DEF Job
  <2>3. \/ NextTask(p) \/ Raise(p) \/ Become(p, [job[p] EXCEPT !.pc = "post"])
        \/ \E i : Instead(p, <<Task("recover", i)>>)
    BY <1>7 DEF SubmitsNothing, SubmitsAttempted, SubmitsClose
  <2>4. QED BY <1>2, <2>1, <2>2, <2>3, EndsInOrder
<1>8. CASE Post(p)
  <2>1. job[p].pc = "post" /\ (NextTask(p) \/ Raise(p))
    BY <1>8 DEF Post, Acknowledge, At
  <2>2. QED BY <1>3, <2>1, EndsInOrder
<1>9. CASE Reconcile(p) \/ Resolve(p)
  <2>1. \/ job[p].pc = "next" /\ Head(job[p].todo).name # "inspect"
        \/ job[p].pc = "resolve"
    BY <1>9 DEF Reconcile, Resolve, Doing, At
  <2>2. QED BY <1>2, <1>3, <1>9, <2>1, WalkInOrder
<1>10. QED BY <1>4, <1>5, <1>6, <1>7, <1>8, <1>9

\* An order that was looked at stays so while no fill is confirmed; for the others it is
\* enough that the command goes on looking.
LEMMA LooksOn ==
  ASSUME ExposureInv, Progress, OrdersLooked, NEW p \in Processes, p = "operator",
         NoNewOrder(p),
         \A i \in Intents : Looked(i) => Looked(i)' \/ Looking(i)',
         \A i \in Intents : Looking(i) => Looked(i)' \/ Looking(i)'
  PROVE  OrdersLooked'
<1>1. SUFFICES ASSUME NEW t \in Range(job'[p].todo), t.name = "order"
               PROVE  Looked(t.intent)' \/ Looking(t.intent)'
  BY DEF OrdersLooked
<1>2. t \in Range(job[p].todo)
  BY <1>1 DEF NoNewOrder
<1>3. PICK i \in Intents : i = t.intent
  BY <1>2, OperatorTasks
<1>4. Looked(i) \/ Looking(i)
  BY <1>1, <1>2, <1>3 DEF OrdersLooked
<1>5. Looked(i)' \/ Looking(i)'
  BY <1>4
<1>6. QED BY <1>3, <1>5

\* The order of the entry is looked up.
LEMMA InspectsLooks ==
  ASSUME ExposureInv, Progress, OrdersLooked, Inspects
  PROVE  OrdersLooked'
<1>1. PICK p \in Processes : p = "operator"
  BY DEF Processes
<1>2. job \in [Processes -> Job] /\ job[p] \in Job
  BY <1>1, OperatorTasks
<1>3. log' = log /\ job[p].pc = "next"
  BY <1>1 DEF Inspects, Ledgers, Operator, Doing, At
<1>4. \A i \in Intents : Looked(i) => Looked(i)'
  BY <1>3, AskedStays DEF NoNewFill
<1>5. PICK i, order, known : i = Item(p) /\ order = orders["entry"][Owned(p)]
                             /\ known = intents[i].filled
  OBVIOUS
<1>6. PICK new : new = [job[p] EXCEPT !.pc = "prove", !.target = i, !.seen = order,
                                      !.known = known]
  BY Zenon
<1>7. Become(p, new) \/ Raise(p)
  BY Zenon, <1>1, <1>5, <1>6 DEF Inspects, Operator
<1>8. new.pc = "prove" /\ new.todo = job[p].todo
  BY <1>2, <1>6 DEF Job
<1>9. CASE Raise(p)
  <2>1. job'[p] = Idle
    BY <1>2, <1>9 DEF Raise, Become
  <2>2. QED BY <1>1, <2>1 DEF OrdersLooked, Idle, Range
<1>10. CASE Become(p, new)
  <2>1. job'[p] = new /\ NoNewOrder(p)
    BY <1>1, <1>2, <1>8, <1>10, EndsInOrder DEF Become
  <2>2. \A e : Looking(e) => Looking(e)'
    BY <1>1, <1>3, <1>8, <2>1 DEF Looking, Task
  <2>3. QED BY <1>1, <1>4, <2>1, <2>2, LooksOn
<1>11. QED BY <1>7, <1>9, <1>10

\* The fill is proved.
LEMMA ProvesLooks ==
  ASSUME ExposureInv, Progress, OrdersLooked, Proves
  PROVE  OrdersLooked'
<1>1. PICK p \in Processes : p = "operator"
  BY DEF Processes
<1>2. job \in [Processes -> Job] /\ job[p] \in Job /\ job[p].pc = "prove"
  BY <1>1, OperatorTasks DEF Proves, Operator, At
<1>3. log' = log
  BY <1>1 DEF Proves, Ledgers, Operator
<1>4. \A i \in Intents : Looked(i) => Looked(i)'
  BY <1>3, AskedStays DEF NoNewFill
<1>5. PICK i \in Intents : i = Item(p)
  BY <1>1, <1>2, OperatorTasks
<1>6. PICK closes, todo, flat : /\ closes = Closes(Owned(p)) /\ todo = job[p].todo
                                /\ flat = FlatTodo(i, closes)
  OBVIOUS
<1>7. \/ Raise(p)
      \/ Become(p, [[Idle EXCEPT !.pc = "sync", !.view = "filled"] EXCEPT !.todo = todo])
      \/ Become(p, [[Idle EXCEPT !.pc = "sync", !.view = "filled"] EXCEPT !.todo = flat])
  BY Zenon, <1>1, <1>5, <1>6 DEF Proves, Operator, FlatTodo
<1>8. ASSUME NEW list,
             Become(p, [[Idle EXCEPT !.pc = "sync", !.view = "filled"] EXCEPT !.todo = list])
      PROVE  job'[p].pc = "sync" /\ job'[p].view = "filled" /\ job'[p].todo = list
  <2>1. job'[p] = [[Idle EXCEPT !.pc = "sync", !.view = "filled"] EXCEPT !.todo = list]
    BY <1>2, <1>8 DEF Become
  <2>2. QED BY <2>1 DEF Idle
<1>9. CASE Raise(p)
  <2>1. job'[p] = Idle
    BY <1>2, <1>9 DEF Raise, Become
  <2>2. QED BY <1>1, <2>1 DEF OrdersLooked, Idle, Range
<1>10. CASE Become(p, [[Idle EXCEPT !.pc = "sync", !.view = "filled"] EXCEPT !.todo = todo])
  <2>1. job'[p].pc = "sync" /\ job'[p].view = "filled" /\ job'[p].todo = job[p].todo
    BY <1>6, <1>8, <1>10
  <2>2. NoNewOrder(p)
    BY <2>1 DEF NoNewOrder
  <2>3. \A e : Looking(e) => Looking(e)'
    BY <1>1, <1>2, <2>1 DEF Looking, Task
  <2>4. QED BY <1>1, <1>4, <2>2, <2>3, LooksOn
<1>11. CASE Become(p, [[Idle EXCEPT !.pc = "sync", !.view = "filled"] EXCEPT !.todo = flat])
  <2>1. job'[p].todo = flat
    BY <1>8, <1>11
  <2>2. closes \in SUBSET Intents /\ TableOK
    BY <1>6 DEF Closes, Of, ExposureInv
  <2>3. \A t \in Range(flat) : t.name # "order"
    <3>1. \A t \in Range(flat) :
            \/ t \in {Task("inspect", i), Task("request", i), Task("flat", i)}
            \/ \E c \in closes : t = Task("drop", c)
      BY <1>5, <1>6, <2>2, FlatTasks
    <3>2. QED BY <3>1 DEF Task
  <2>4. QED BY <1>1, <2>1, <2>3 DEF OrdersLooked
<1>12. QED BY <1>7, <1>9, <1>10, <1>11

\* The fill is handed over, or found handed over: what it asked for is planned next, or it
\* asked for nothing.
LEMMA SynchronizeLooks ==
  ASSUME ExposureInv, Progress, OrdersLooked, NEW p \in Processes, p = "operator",
         Synchronize(p)
  PROVE  OrdersLooked'
<1>1. /\ job \in [Processes -> Job] /\ job[p] \in Job /\ job[p].pc = "sync"
      /\ job[p].pc # "idle"
  BY OperatorTasks DEF Synchronize, At
<1>2. PICK i \in Intents : i = Item(p)
  BY <1>1, OperatorTasks
<1>3. PICK s : s = Owned(p) /\ s = intents[i].reservation
  BY <1>2 DEF Owned
<1>4. PICK v : v = job[p].view
  OBVIOUS
<1>5. ASSUME NEW c, PlanNext(p, c)
      PROVE  job'[p].pc = "plan" /\ job'[p].command = c /\ job'[p].todo = job[p].todo
  <2>1. job'[p] = [job[p] EXCEPT !.pc = "plan", !.command = c]
    BY <1>1, <1>5 DEF PlanNext, Become
  <2>2. QED BY <1>1, <2>1 DEF Job
<1>6. Raise(p) => OrdersLooked'
  <2>1. SUFFICES ASSUME Raise(p) PROVE OrdersLooked'
    OBVIOUS
  <2>2. job'[p] = Idle
    BY <1>1, <2>1 DEF Raise, Become
  <2>3. QED BY <2>2 DEF OrdersLooked, Idle, Range
<1>7. NoNewOrder(p)
  <2>1. \A c : PlanNext(p, c) => NoNewOrder(p)
    BY <1>5 DEF NoNewOrder
  <2>2. (ItemDone(p) => NoNewOrder(p)) /\ (Raise(p) => NoNewOrder(p))
    BY <1>1, EndsInOrder
  <2>3. QED BY <2>1, <2>2 DEF Synchronize, Submitted
<1>8. PlanNext(p, FillOf(i)) => Looking(i)'
  <2>1. FillOf(i)' = FillOf(i)
    BY DEF FillOf
  <2>2. QED BY <1>5, <2>1 DEF Looking
<1>9. ASSUME NEW e \in Intents, ~NoNewFill(e)
      PROVE  e = i /\ (Raise(p) \/ PlanNext(p, FillOf(i)))
  <2>1. \A c : Execute(c, ConfirmPendingFill(now, funds, s))
               \/ Execute(c, CancelPendingReservation(now, funds, s))
               \/ Execute(c, ConfirmPositionClosed(now, funds, s))
               => \A d \in DOMAIN log' : d = c \/ d \in DOMAIN log
    BY DEF Execute
  <2>2. \/ log' = log
        \/ Submitted(p, FillOf(i), ConfirmPendingFill(now, funds, s))
        \/ Submitted(p, CancelOf(i), CancelPendingReservation(now, funds, s))
        \/ Submitted(p, PositionClosedOf(i), ConfirmPositionClosed(now, funds, s))
        \/ Submitted(p, CloseOf(i), ConfirmPositionClosed(now, funds, s))
    BY <1>2, <1>3 DEF Synchronize
  <2>3. FillOf(e) \in DOMAIN log' /\ FillOf(e) \notin DOMAIN log
    BY <1>9 DEF NoNewFill
  <2>4. /\ FillOf(e) \notin {CancelOf(i), PositionClosedOf(i), CloseOf(i)}
        /\ FillOf(e) = FillOf(i) => e = i
    BY CommandsDiffer
  <2>5. CASE Submitted(p, FillOf(i), ConfirmPendingFill(now, funds, s))
    BY <2>1, <2>3, <2>4, <2>5 DEF Submitted
  <2>6. CASE \/ Submitted(p, CancelOf(i), CancelPendingReservation(now, funds, s))
             \/ Submitted(p, PositionClosedOf(i), ConfirmPositionClosed(now, funds, s))
             \/ Submitted(p, CloseOf(i), ConfirmPositionClosed(now, funds, s))
    BY <2>1, <2>3, <2>4, <2>6 DEF Submitted
  <2>7. QED BY <2>2, <2>3, <2>5, <2>6
<1>10. CASE Raise(p)
  BY <1>6, <1>10
<1>11. CASE ~Raise(p)
  <2>1. \A e \in Intents : Looked(e) => Looked(e)' \/ Looking(e)'
    BY <1>8, <1>9, <1>11, AskedStays
  <2>2. ASSUME NEW e \in Intents, Looking(e) PROVE Looked(e)' \/ Looking(e)'
    <3>1. Head(job[p].todo) = Task("inspect", e) /\ v = "filled"
      BY <1>1, <1>4, <2>2 DEF Looking
    <3>2. e = i /\ intents[i].kind = "entry"
      <4>1. Head(job[p].todo).name = "inspect" /\ Head(job[p].todo).intent = e
        BY <3>1 DEF Task
      <4>2. TaskOK(p, Head(job[p].todo))
        BY <1>1, OperatorTasks
      <4>3. QED BY <1>2, <4>1, <4>2 DEF TaskOK, EntryTasks, Tokens, Item
    <3>3. Filled(i, v) /\ ~Ended(i, v) /\ ~Exited(i, v) /\ ~Settled(i, v)
      BY <3>1, <3>2 DEF Filled, IsEntryKind, Ended, Exited, Settled
    <3>4. \/ Submitted(p, FillOf(i), ConfirmPendingFill(now, funds, s))
          \/ FillOf(i) \in DOMAIN log /\ PlanNext(p, FillOf(i))
          \/ FillOf(i) \notin DOMAIN log /\ log' = log
      BY <1>2, <1>3, <1>4, <1>11, <3>3 DEF Synchronize
    <3>5. Submitted(p, FillOf(i), ConfirmPendingFill(now, funds, s)) => PlanNext(p, FillOf(i))
      BY <1>11 DEF Submitted
    <3>6. FillOf(i) \notin DOMAIN log /\ log' = log => Looked(i)'
      <4>1. SUFFICES ASSUME FillOf(i) \notin DOMAIN log, log' = log PROVE Looked(i)'
        OBVIOUS
      <4>2. ~Asked(i) /\ NoNewFill(i)
        BY <4>1 DEF Asked, NoNewFill
      <4>3. Looked(i)
        BY <4>2 DEF Looked
      <4>4. QED BY <4>2, <4>3, AskedStays
    <3>7. QED BY <1>8, <3>2, <3>4, <3>5, <3>6
  <2>3. QED BY <1>7, <2>1, <2>2, LooksOn
<1>12. QED BY <1>10, <1>11

\* What the fill asked for is planned.
LEMMA FollowUpLooks ==
  ASSUME ExposureInv, Progress, OrdersLooked, NEW p \in Processes, p = "operator",
         PlansFollowUp(p) \/ FollowedUp(p) \/ OrdersPlanned
  PROVE  OrdersLooked'
<1>1. job[p] \in Job /\ job[p].pc = "plan" /\ job[p].pc # "idle" /\ log' = log
  BY OperatorTasks DEF PlansFollowUp, FollowedUp, OrdersPlanned, Operator, At, Ledgers
<1>2. \A i \in Intents : Looked(i) => Looked(i)'
  BY <1>1, AskedStays DEF NoNewFill
<1>3. CASE PlansFollowUp(p)
  <2>1. job' = job /\ NoNewOrder(p)
    BY <1>3, EndsInOrder DEF PlansFollowUp
  <2>2. \A i : Looking(i) => Looking(i)'
    BY <2>1 DEF Looking, Task, FillOf
  <2>3. QED BY <1>2, <2>1, <2>2, LooksOn
<1>4. CASE FollowedUp(p) \/ OrdersPlanned
  <2>1. ToPlan(job[p].command) = {}
    BY <1>4 DEF FollowedUp, OrdersPlanned, Operator
  <2>2. \A i \in Intents : Looking(i) => Looked(i)
    BY <1>1, <2>1, PlannedLooked DEF Looking
  <2>3. [job[p] EXCEPT !.pc = "sync", !.command = NoCommand].todo = job[p].todo
    BY <1>1 DEF Job
  <2>4. \/ ItemDone(p) \/ Continue(p, job[p].todo)
        \/ Become(p, [job[p] EXCEPT !.pc = "sync", !.command = NoCommand])
    BY <1>4 DEF FollowedUp, OrdersPlanned, Operator
  <2>5. NoNewOrder(p)
    BY <1>1, <2>3, <2>4, EndsInOrder
  <2>6. QED BY <1>2, <2>2, <2>5, LooksOn
<1>5. QED BY <1>3, <1>4

\* What the operator's command does not do leaves it where it is, or ends it.
LEMMA OthersLook ==
  ASSUME ExposureInv, Progress, OrdersLooked, OrderAlone,
         NEW p \in Processes, p = "operator",
         job'[p] = Idle \/ (job'[p] = job[p] /\ log' = log)
  PROVE  OrdersLooked' /\ OrderAlone'
<1>1. CASE job'[p] = Idle
  BY <1>1 DEF OrdersLooked, OrderAlone, Idle, Range
<1>2. CASE job'[p] = job[p] /\ log' = log
  <2>1. \A i \in Intents : (Looked(i) => Looked(i)') /\ (Asked(i)' => Asked(i))
    BY <1>2, AskedStays DEF NoNewFill
  <2>2. \A i : Looking(i) => Looking(i)'
    BY <1>2 DEF Looking, Task, FillOf
  <2>3. NoNewOrder(p)
    BY <1>2 DEF NoNewOrder
  <2>4. OrdersLooked'
    BY <2>1, <2>2, <2>3, LooksOn
  <2>5. OrderAlone'
    <3>1. SUFFICES ASSUME job[p].pc = "plan", Head(job[p].todo).name = "order"
                   PROVE  ~Asked(Item(p))'
      BY <1>2 DEF OrderAlone, Item
    <3>2. PICK i \in Intents : i = Item(p)
      BY <3>1, OperatorTasks
    <3>3. ~Asked(i)'
      BY <2>1, <3>1, <3>2 DEF OrderAlone
    <3>4. Item(p)' = i
      BY <1>2, <3>2 DEF Item
    <3>5. QED BY <3>3, <3>4
  <2>6. QED BY <2>4, <2>5
<1>3. QED BY <1>1, <1>2

\* The command begins with a look, or behind a close.
LEMMA BeginsLooks ==
  ASSUME ExposureInv, Progress, NEW i \in Intents, Begins(i)
  PROVE  OrdersLooked' /\ OrderAlone'
<1>1. PICK p \in Processes : p = "operator"
  BY DEF Processes
<1>2. PICK s : s = intents[i].reservation
  OBVIOUS
<1>3. PICK todo : todo = FirstTodo(i, NotSent(s))
  OBVIOUS
<1>4. \/ Alone(todo) /\ log' = log /\ intents[i].kind = "entry"
      \/ Alone(<<>>)
  BY <1>2, <1>3 DEF Begins, FirstTodo, Ledgers
<1>5. CASE Alone(<<>>)
  <2>1. job'[p] = Idle
    BY <1>1, <1>5 DEF Alone, Operator
  <2>2. QED BY <1>1, <2>1 DEF OrdersLooked, OrderAlone, Idle, Range
<1>6. CASE Alone(todo) /\ log' = log /\ intents[i].kind = "entry"
  <2>1. i \in Nat
    BY TableRows DEF ExposureInv, TableOK
  <2>2. PICK proves : proves = NotSent(s)
    OBVIOUS
  <2>3. todo = FirstTodo(i, proves)
    BY <1>3, <2>2
  <2>4. proves => \A c \in Of("close_position", intents[i].reservation) : ~intents[c].attempted
    BY <1>2, <2>2 DEF NotSent, Attempted, Closes
  <2>5. /\ todo # <<>> /\ \A t \in Range(todo) : t.intent = i
        /\ proves => Head(todo) = Task("inspect", i)
    BY <1>1, <1>6, <2>1, <2>3, <2>4, FirstTasks
  <2>6. job'[p] = [Idle EXCEPT !.pc = "next", !.todo = todo]
    BY <1>1, <1>6, <2>5 DEF Alone, Operator
  <2>7. job'[p].pc = "next" /\ job'[p].todo = todo
    BY <2>6 DEF Idle
  <2>8. OrderAlone'
    BY <1>1, <2>7 DEF OrderAlone
  <2>9. Looked(i)' \/ Looking(i)'
    <3>1. CASE proves
      BY <1>1, <2>5, <2>7, <3>1 DEF Looking, Task
    <3>2. CASE ~proves
      <4>1. Closes(intents[i].reservation) # {}
        BY <1>2, <2>2, <3>2 DEF NotSent
      <4>2. Looked(i) /\ NoNewFill(i)
        BY <1>6, <4>1 DEF Looked, NoNewFill
      <4>3. QED BY <4>2, AskedStays
    <3>3. QED BY <3>1, <3>2
  <2>10. OrdersLooked'
    BY <1>1, <2>5, <2>7, <2>9 DEF OrdersLooked
  <2>11. QED BY <2>8, <2>10
<1>7. QED BY <1>4, <1>5, <1>6

\* The operator's request is planned where the fill asked for no close: an order that
\* finds no close was looked at.
LEMMA OrderStaysAlone ==
  ASSUME ExposureInv, Progress, OrdersLooked, OrderAlone, OperatorStep
  PROVE  OrderAlone'
<1>1. PICK p \in Processes : p = "operator"
  BY DEF Processes
<1>2. SUFFICES ASSUME job'[p].pc = "plan", Head(job'[p].todo).name = "order"
               PROVE  ~Asked(Item(p))'
  BY <1>1 DEF OrderAlone, Item
<1>3. job \in [Processes -> Job] /\ job[p] \in Job
  BY <1>1, OperatorTasks
<1>4. CASE Synchronize(p)
  <2>1. At(p, "sync") /\ job[p].pc # "idle"
    BY <1>4 DEF Synchronize, At
  <2>2. Head(job[p].todo).name # "order"
    <3>1. HandOK(p)
      BY Zenon, <2>1 DEF ExposureInv, JobsOK, JobOK, PlaceOK, At
    <3>2. QED BY <3>1 DEF HandOK
  <2>3. (ItemDone(p) => PlansNothing(p)) /\ (Raise(p) => PlansNothing(p))
    BY <1>3, EndsPlanNothing
  <2>4. job'[p].todo = job[p].todo
    <3>1. ~PlansNothing(p)
      BY <1>2, <2>1, <2>2 DEF PlansNothing, At
    <3>2. PICK c : PlanNext(p, c)
      BY <1>4, <2>3, <3>1 DEF Synchronize, Submitted
    <3>3. job'[p] = [job[p] EXCEPT !.pc = "plan", !.command = c]
      BY <1>3, <3>2 DEF PlanNext, Become
    <3>4. QED BY <1>3, <3>3 DEF Job
  <2>5. QED BY <1>2, <2>2, <2>4
<1>5. CASE Orders
  <2>1. job[p].pc = "next" /\ job[p].pc # "idle" /\ Head(job[p].todo).name = "order"
    BY <1>1, <1>5 DEF Orders, Operator, Doing, At
  <2>2. PICK i \in Intents : i = Item(p)
    BY <1>1, <2>1, OperatorTasks
  <2>3. Head(job[p].todo) \in Range(job[p].todo) /\ Head(job[p].todo).intent = i
    BY <1>1, <2>1, <2>2, OperatorTasks DEF Item
  <2>4. ~Looking(i)
    BY <1>1, <2>1, LooksElsewhere
  <2>5. Looked(i)
    BY <1>1, <2>1, <2>3, <2>4 DEF OrdersLooked
  <2>6. log' = log
    BY <1>5 DEF Orders
  <2>7. CASE Raise(p) \/ \E todo : Continue(p, todo)
    <3>1. PlansNothing(p)
      BY <1>3, <2>7, EndsPlanNothing
    <3>2. QED BY <1>2, <2>1, <3>1 DEF PlansNothing
  <2>8. CASE /\ Closes(Owned(p)) = {}
             /\ Become(p, [job[p] EXCEPT !.pc = "plan", !.command = OperatorCloseOf(i)])
    <3>1. ~Asked(i)
      BY <2>2, <2>5, <2>8 DEF Looked, Owned
    <3>2. ~Asked(i)'
      BY <2>6, <3>1, AskedStays DEF NoNewFill
    <3>3. PICK c : c = OperatorCloseOf(i)
      OBVIOUS
    <3>4. job'[p] = [job[p] EXCEPT !.pc = "plan", !.command = c]
      BY <1>3, <2>8, <3>3 DEF Become
    <3>5. job'[p].todo = job[p].todo
      BY <1>3, <3>4 DEF Job
    <3>6. Item(p)' = i
      BY <2>2, <3>5 DEF Item
    <3>7. QED BY <3>2, <3>6
  <2>9. QED BY <1>1, <1>5, <2>2, <2>7, <2>8 DEF Orders, Operator
<1>6. CASE ~Synchronize(p) /\ ~Orders
  <2>1. PlansNothing(p) /\ \A e : NoNewFill(e)
    BY <1>1, <1>3, <1>6, OperatorPlansNothing, OperatorFills
  <2>2. job'[p] = job[p]
    BY <1>2, <2>1 DEF PlansNothing
  <2>3. PICK i \in Intents : i = Item(p)
    BY <1>1, <1>2, <2>2, OperatorTasks
  <2>4. ~Asked(i)
    BY <1>1, <1>2, <2>2, <2>3 DEF OrderAlone
  <2>5. ~Asked(i)'
    BY <2>1, <2>4, AskedStays
  <2>6. Item(p)' = i
    BY <2>2, <2>3 DEF Item
  <2>7. QED BY <2>5, <2>6
<1>7. QED BY <1>4, <1>5, <1>6

\* Whoever moves, every order of the operator comes behind a look.
LEMMA NextLooks ==
  ASSUME ExposureInv, Progress, OrdersLooked, OrderAlone, [OwnedCloseNext]_allVars
  PROVE  OrdersLooked' /\ OrderAlone'
<1>1. PICK p \in Processes : p = "operator"
  BY DEF Processes
<1>2. job \in [Processes -> Job]
  BY <1>1, OperatorTasks
<1>3. CASE RuntimeStep
  <2>1. job[p] = Idle
    BY <1>1, <1>3 DEF RuntimeStep, Operating, Operator
  <2>2. job'[p] = job[p]
    BY <1>1, <1>2, <1>3, MonitorAlone, WorkerAlone DEF RuntimeStep, MovesAlone, Processes
  <2>3. QED BY <1>1, <2>1, <2>2, OthersLook
<1>4. CASE \E i \in Intents : Begins(i)
  BY <1>4, BeginsLooks
<1>5. CASE OperatorStep
  <2>1. OrdersLooked'
    <3>1. CASE Inspects \/ Proves \/ Synchronize(p)
      BY <1>1, <3>1, InspectsLooks, ProvesLooks, SynchronizeLooks
    <3>2. CASE PlansFollowUp(p) \/ FollowedUp(p) \/ OrdersPlanned
      BY <1>1, <3>2, FollowUpLooks
    <3>3. CASE ~Synchronize(p) /\
               (\/ Requests \/ Orders \/ Drops \/ Accounts \/ Finishes
                \/ SubmitsNothing(p) \/ SubmitsAttempted(p) \/ SubmitsClose(p) \/ Post(p)
                \/ Reconcile(p) \/ Resolve(p))
      <4>1. NoNewOrder(p) /\ (\A i : ~Looking(i)) /\ \A i : NoNewFill(i)
        BY <1>1, <1>5, <3>3, OthersInOrder, OperatorFills
      <4>2. QED BY <1>1, <4>1, LookedOn
    <3>4. QED BY <1>1, <1>5, <3>1, <3>2, <3>3 DEF OperatorStep, Operator
  <2>2. QED BY <1>5, <2>1, OrderStaysAlone
<1>6. CASE OperatorStops \/ \E q \in Processes : Crash(q)
  <2>1. log' = log /\ \E q \in Processes : Raise(q)
    BY <1>1, <1>6 DEF OperatorStops, Crash, Operator, Ledgers, ledgerVars
  <2>2. job'[p] = job[p] \/ job'[p] = Idle
    BY <1>2, <2>1 DEF Raise, Become
  <2>3. QED BY <1>1, <2>1, <2>2, OthersLook
<1>7. CASE \/ Tick \/ Mark \/ UNCHANGED allVars
           \/ \E s \in Signals : ExchangeWorks(s) \/ PriceMoves(s)
  <2>1. job' = job /\ log' = log
    BY <1>7 DEF Tick, Mark, allVars, ExchangeWorks, PriceMoves, ledgerVars
  <2>2. QED BY <1>1, <2>1, OthersLook
<1>8. QED BY <1>3, <1>4, <1>5, <1>6, <1>7 DEF OwnedCloseNext

\* A row that is new was planned by a follow-up or by the worker, for the command at hand.
LEMMA NewRow ==
  ASSUME ExposureInv, [OwnedCloseNext]_allVars, NEW d \in Intents', d \notin Intents
  PROVE  \E p \in Processes : /\ job[p].pc = "plan" /\ log' = log
                              /\ intents'[d].command = job[p].command
<1>1. PICK p \in Processes : PlansFollowUp(p) \/ (p = "worker" /\ WorkerPlans)
  <2>1. "worker" \in Processes
    BY DEF Processes
  <2>2. DOMAIN intents' # DOMAIN intents
    BY DEF Intents
  <2>3. QED BY <2>1, <2>2, OthersKeep
<1>2. job[p].pc = "plan" /\ log' = log
  BY <1>1 DEF PlansFollowUp, WorkerPlans, At, Ledgers
<1>3. PICK c : c = job[p].command
  OBVIOUS
<1>4. PICK row : intents' = Append(intents, row) /\ row.command = c
  <2>1. PICK a : intents' = Append(intents, IntentFor(c, a))
    BY <1>1, <1>3 DEF PlansFollowUp, WorkerPlans
  <2>2. IntentFor(c, a).command = c
    BY DEF IntentFor
  <2>3. QED BY <2>1, <2>2
<1>5. intents'[d] = row
  <2>1. intents \in Seq(Intent \cup {row}) /\ row \in Intent \cup {row}
    BY DEF ExposureInv, TableOK
  <2>2. QED BY <1>4, <2>1, AppendRow DEF Intents
<1>6. QED BY <1>2, <1>3, <1>4, <1>5

\* Where the operator's request became a close, the fill has asked for none, and will not.
LEMMA RequestsStayAlone ==
  ASSUME ExposureInv, RequestsHeld, RequestsAlone, OrderAlone,
         \A p \in Processes : OperatorPlans(p),
         [OwnedCloseNext]_allVars, Progress
  PROVE  RequestsAlone'
<1>1. SUFFICES ASSUME NEW e \in Intents', NEW d \in Intents',
                      intents'[e].kind = "entry", intents'[d].kind = "close_position",
                      intents'[d].reservation = intents'[e].reservation,
                      intents'[d].command = OperatorCloseOf(e)
               PROVE  ~Asked(e)'
  BY DEF RequestsAlone, OperatorCloseOf
<1>2. CASE d \in Intents
  <2>1. MovesOn(intents[d], intents'[d]) /\ TableOK
    BY <1>2 DEF Progress, ExposureInv
  <2>2. intents[d].kind = "close_position" /\ intents[d].command = OperatorCloseOf(e)
        /\ intents[d].reservation = intents'[d].reservation
    BY <1>1, <2>1 DEF MovesOn
  <2>3. OperatorCloseOf(e) \in DOMAIN log
    BY <1>2, <2>1, <2>2, RowType DEF RowsTyped
  <2>4. e \in Intents
    BY <2>3 DEF RequestsHeld
  <2>5. MovesOn(intents[e], intents'[e])
    BY <2>4 DEF Progress
  <2>6. intents[e].kind = "entry" /\ intents[d].reservation = intents[e].reservation
    BY <1>1, <2>2, <2>5 DEF MovesOn
  <2>7. ~Asked(e)
    BY <1>2, <2>2, <2>4, <2>6 DEF RequestsAlone
  <2>8. NoNewFill(e)
    <3>1. SUFFICES ASSUME FillOf(e) \in DOMAIN log', FillOf(e) \notin DOMAIN log PROVE FALSE
      BY DEF NoNewFill
    <3>2. PICK s \in Signals : s = intents[e].reservation
      BY <2>1, <2>4, RowType DEF RowsTyped
    <3>3. Status(book, s) = "pending"
      BY <3>1, <3>2, StepDecides
    <3>4. Act("close", s) \in log[OperatorCloseOf(e)].actions
      BY <1>2, <2>1, <2>2, <2>6, <3>2 DEF TableOK, ActionOf
    <3>5. Status(book, s) \in Taken
      BY <2>3, <3>4 DEF RequestsHeld
    <3>6. QED BY <3>3, <3>5 DEF Taken
  <2>9. QED BY <2>4, <2>7, <2>8, AskedStays
<1>3. CASE d \notin Intents
  <2>1. PICK p \in Processes : /\ job[p].pc = "plan" /\ log' = log
                               /\ intents'[d].command = job[p].command
    BY <1>3, NewRow
  <2>2. p = "operator" /\ Head(job[p].todo).name = "order" /\ job[p].pc # "idle"
    BY <1>1, <2>1 DEF OperatorPlans
  <2>3. job[p].command = OperatorCloseOf(Item(p))
    <3>1. PlanOK(p)
      BY <2>1 DEF ExposureInv, JobsOK, JobOK, PlaceOK
    <3>2. ~HandOK(p)
      BY <2>2 DEF HandOK
    <3>3. QED BY <2>2, <3>1, <3>2 DEF PlanOK
  <2>4. e = Item(p)
    BY <1>1, <2>1, <2>3, CommandsDiffer
  <2>5. Item(p) \in Intents
    BY <2>2, OperatorTasks
  <2>6. ~Asked(e) /\ NoNewFill(e)
    BY <2>1, <2>2, <2>4 DEF OrderAlone, NoNewFill
  <2>7. QED BY <2>4, <2>5, <2>6, AskedStays
<1>4. QED BY <1>2, <1>3

\* The invariant behind the takeover: what was asked for, by whom, and in which order.
TakeoverInv ==
  /\ RequestsHeld /\ RequestsAlone
  /\ \A p \in Processes : OperatorPlans(p)
  /\ OrderAlone /\ OrdersLooked

\* It says what the operator's command promises.
LEMMA TakesOver ==
  ASSUME ExposureInv, TakeoverInv
  PROVE  OperatorTakesOver
<1>1. SUFFICES ASSUME NEW s \in Signals
               PROVE  Cardinality({c \in Closes(s) : intents[c].command \in
                        {FillOf(EntryOf(s)), OperatorCloseOf(EntryOf(s))}}) <= 1
  BY DEF OperatorTakesOver
<1>2. PICK e : e = EntryOf(s)
  OBVIOUS
<1>3. PICK closes : closes = {c \in Closes(s) :
                                intents[c].command \in {FillOf(e), OperatorCloseOf(e)}}
  OBVIOUS
<1>4. TableOK /\ RowsTyped
  BY RowType DEF ExposureInv
<1>5. \A c \in closes : /\ c \in Intents /\ intents[c].kind = "close_position"
                        /\ intents[c].reservation = s
                        /\ intents[c].command \in DOMAIN log
                        /\ Act("close", s) \in log[intents[c].command].actions
  BY <1>3, <1>4 DEF Closes, Of, TableOK, ActionOf, RowsTyped
<1>6. ASSUME NEW c \in closes, NEW d \in closes,
             intents[c].command = FillOf(e), intents[d].command = OperatorCloseOf(e)
      PROVE  FALSE
  <2>1. e \in Intents
    BY <1>5, <1>6 DEF TakeoverInv, RequestsHeld
  <2>2. e # NoIntent
    BY <1>4, <2>1, TableRows DEF TableOK, NoIntent
  <2>3. intents[e].kind = "entry" /\ intents[e].reservation = s
    BY <1>2, <1>4, <2>2, Owning DEF TableOK, Of
  <2>4. ~Asked(e)
    BY <1>5, <1>6, <2>1, <2>3 DEF TakeoverInv, RequestsAlone
  <2>5. Asked(e)
    BY <1>5, <1>6, <2>3 DEF Asked
  <2>6. QED BY <2>4, <2>5
<1>7. \A c, d \in closes : c = d
  <2>1. SUFFICES ASSUME NEW c \in closes, NEW d \in closes PROVE c = d
    OBVIOUS
  <2>2. intents[c].command = intents[d].command
    BY <1>3, <1>6
  <2>3. QED BY <1>4, <1>5, <2>2 DEF TableOK
<1>8. Cardinality(closes) <= 1
  <2>1. CASE closes = {}
    BY <2>1, FS_EmptySet
  <2>2. CASE closes # {}
    <3>1. PICK c : closes = {c}
      BY <1>7, <2>2
    <3>2. QED BY <3>1, FS_Singleton
  <2>3. QED BY <2>1, <2>2
<1>9. QED BY <1>2, <1>3, <1>8

\* However often the operator's command is stopped and repeated, and whenever the runtime
\* was stopped: the position of an entry has one close for what its fill asked for and what
\* the operator asks for.
THEOREM OperatorTakesOne == OwnedCloseSpec => []OperatorTakesOver
<1>1. ExecutionInit => TakeoverInv
  <2>1. SUFFICES ASSUME ExecutionInit PROVE TakeoverInv
    OBVIOUS
  <2>2. /\ DOMAIN log = {} /\ Intents = {}
        /\ \A p \in Processes : job[p] = Idle
    BY <2>1 DEF ExecutionInit, Intents
  <2>3. "operator" \in Processes /\ Idle.pc # "plan" /\ Range(Idle.todo) = {}
    BY DEF Processes, Idle, Range
  <2>4. QED
    BY <2>2, <2>3 DEF TakeoverInv, RequestsHeld, RequestsAlone, OperatorPlans, OrderAlone,
                      OrdersLooked
<1>2. ExposureInv /\ TakeoverInv /\ [OwnedCloseNext]_allVars => TakeoverInv'
  <2>1. SUFFICES ASSUME ExposureInv, TakeoverInv, [OwnedCloseNext]_allVars
                 PROVE  TakeoverInv'
    OBVIOUS
  <2>2. Progress /\ job \in [Processes -> Job]
    BY <2>1, NextExposure DEF Advances, ExposureInv, JobsOK
  <2>3. RequestsHeld'
    BY <2>1, <2>2, RequestsStayHeld DEF TakeoverInv
  <2>4. RequestsAlone'
    BY <2>1, <2>2, RequestsStayAlone DEF TakeoverInv
  <2>5. \A p \in Processes : OperatorPlans(p)'
    BY <2>1, <2>2, NextOrders DEF TakeoverInv
  <2>6. OrdersLooked' /\ OrderAlone'
    BY <2>1, <2>2, NextLooks DEF TakeoverInv
  <2>7. QED BY <2>3, <2>4, <2>5, <2>6 DEF TakeoverInv, Processes
<1>3. ExposureInv /\ TakeoverInv => OperatorTakesOver
  BY TakesOver
<1>4. QED BY <1>1, <1>2, <1>3, ExposureInvariance, PTL DEF OwnedCloseSpec
===============================================================================
