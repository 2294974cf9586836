----------------------------- MODULE DemoReconcile -----------------------------
(***************************************************************************)
(* DemoExecutionService.reconcile, the walk from exchange evidence to the  *)
(* state of an intent, as the monitor and the worker run it.  An intent is *)
(* read together with its order; executions and position are read in a     *)
(* later step, so the exchange and the other process may move in between.  *)
(* An error of the walk is Fail: what becomes of it depends on the task.   *)
(*                                                                         *)
(* A reconciled cancellation is judged by what reconciling its entry gave; *)
(* both rows are written in one step, the next cycle would redo the pair.  *)
(***************************************************************************)
EXTENDS DemoIntents

Protected == {"protection_verified", "position_closed_pending"}

Over == {"filled", "cancelled", "rejected"}   \* orders that execute no more

\* Everything but the intents, the processes and the exchange.
Beyond == <<riskVars, log, attributed, cursor, runs, course, now, funds>>

\* The monitor hands the state reached so far to the risk ledger before it lets an
\* error through, except for a position that was already protected.
Fail(p, table) ==
  /\ intents' = table
  /\ IF Head(job[p].todo).name = "reconcile" /\ table[Item(p)].state \notin Protected
     THEN Become(p, [Idle EXCEPT !.pc = "sync", !.todo = job[p].todo,
                                 !.view = table[Item(p)].state, !.failed = TRUE])
     ELSE Raise(p)

\* Mutant: a close order that was filled releases risk as soon as it is confirmed.
NeedsAttributionUnasked(i, state) == state = "position_closed_pending"

\* A flat position alone does not release risk: its closed PnL is asked for first.
NeedsAttribution(i, state) ==
  \/ state = "position_closed_pending"
  \/ intents[i].kind = "close_position" /\ state = "close_confirmed"

\* reconcile returned a state for the item: on with the caller.
Settle(p, table, state) ==
  LET name == Head(job[p].todo).name
  IN  /\ intents' = table
      /\ \/ /\ name = "reconcile"
            /\ Become(p, [Idle EXCEPT
                 !.pc   = IF NeedsAttribution(Item(p), state) THEN "attribute" ELSE "sync",
                 !.todo = job[p].todo, !.view = state])
         \/ /\ name \in {"expired", "recover", "submit"}
            /\ NextTask(p)
         \* The operator's command ends, or goes on with the closed PnL.
         \/ /\ name = "confirm"
            /\ Become(p, IF NeedsAttribution(Item(p), state)
                         THEN [Idle EXCEPT !.pc = "attribute", !.todo = job[p].todo,
                                           !.view = state]
                         ELSE Idle)
         \/ /\ name = "depend"
            /\ Continue(p, IF state = "cancelled" THEN Tail(job[p].todo)
                                                  ELSE Tail(Tail(job[p].todo)))

\* Mutant: a cancellation that the exchange accepted counts as done.
CancelVerdictAccepted(entry) ==
  IF entry \in {"filled", "protection_verified"} THEN "filled" ELSE "cancelled"

\* What reconciling the entry says about a cancellation of it.
CancelVerdict(entry) ==
  CASE entry \in {"filled", "protection_verified"}     -> "filled"
    [] entry \in {"cancelled", "position_closed"}      -> "cancelled"
    [] OTHER                                           -> "reconciliation_required"

\* The order or position of the intent i has been reconciled to a state.
Conclude(p, table, i, state) ==
  IF i = Item(p) THEN Settle(p, table, state)
  ELSE Settle(p, InState(table, Item(p), CancelVerdict(state)), CancelVerdict(state))

\* The position on the symbol of s, positive in the direction of s.
Held(s) == Signed(s, Position(SymbolOf[s]))

-------------------------------------------------------------------------------
(* _retire_completed_cancel: the entry has come to its end by itself. *)

EntryEnded(s) == EntryState(s) \in {"cancelled", "rejected", "position_closed"}

Redundant(s) ==
  LET entry  == intents[EntryOf(s)]
      order  == orders["entry"][s]
      closed == entry.state = "position_closed"
  IN  /\ closed => Status(book, s) = "closed" /\ s \in attributed
      /\ \/ order = NoOrder
         \/ closed /\ order.status \in {"filled", "cancelled"} /\ order.filled = entry.filled
         \/ ~closed /\ order.status \in {"cancelled", "rejected"} /\ order.filled = 0
      /\ Position(SymbolOf[s]) = 0
      /\ closed \/ entry.filled = 0

Retire(p) ==
  LET i    == Item(p)
      gone == Status(book, Owned(p)) \in Released
  IN  \/ /\ Redundant(Owned(p))
         /\ Settle(p, [intents EXCEPT ![i].state  = "cancelled",
                                      ![i].synced = @ \/ gone], "cancelled")
      \/ /\ ~Redundant(Owned(p))
         /\ Fail(p, InState(intents, i, "reconciliation_required"))

-------------------------------------------------------------------------------
(* The first reads. *)

Target(p) ==
  IF intents[Item(p)].kind = "cancel_entry" THEN EntryOf(Owned(p)) ELSE Item(p)

\* _reconcile_protected_position
ProtectedVerdict(i) ==
  LET s == intents[i].reservation
  IN  CASE Held(s) = 0 -> "position_closed_pending"
        [] Held(s) # 0 /\ intents[i].state = "protection_verified"
             /\ Held(s) = ManagedQuantity(i) /\ stops[SymbolOf[s]] = s
             -> "protection_verified"
        [] OTHER -> "reconciliation_required"

OrderKind(i) == IF intents[i].kind = "close_position" THEN "close" ELSE "entry"

ReadOrder(p, i) ==
  LET order == orders[OrderKind(i)][intents[i].reservation]
  IN  \/ /\ order # NoOrder
         /\ Become(p, [job[p] EXCEPT !.pc = "resolve", !.target = i,
                                     !.seen = order, !.known = intents[i].filled])
         /\ UNCHANGED intents
      \* An entry whose POST was attempted is never assumed absent (submit).
      \/ /\ order = NoOrder
         /\ Fail(p, IF Head(job[p].todo).name = "recover" /\ intents[i].kind = "entry"
                    THEN InState(intents, i, "reconciliation_required") ELSE intents)

Final == {"position_closed", "close_confirmed", "cancelled", "rejected"}

Reconcile(p) ==
  LET x == intents[Item(p)]
      i == Target(p)
      e == intents[i]
  IN  /\ Doing(p, {"reconcile", "expired", "depend", "recover", "confirm"})
      /\ \/ /\ x.state \in Final
            /\ Settle(p, intents, x.state)
         \/ /\ x.state \notin {"cancelled", "rejected"}
            /\ x.kind = "cancel_entry"
            /\ EntryEnded(x.reservation)
            /\ Retire(p)
         \/ /\ x.state \notin Final
            /\ ~(x.kind = "cancel_entry" /\ EntryEnded(x.reservation))
            /\ \/ /\ e.state \in Protected
                  /\ Conclude(p, InState(intents, i, ProtectedVerdict(i)), i,
                              ProtectedVerdict(i))
               \/ /\ e.state \notin Protected
                  /\ ReadOrder(p, i)
      /\ UNCHANGED <<Beyond, exchangeVars>>

-------------------------------------------------------------------------------
(* From the order to the state of its intent. *)

\* Mutant: the status of the order is taken for the state of the intent.
EntryVerdictVerbatim(s, known, seen) ==
  IF seen.filled = 0 THEN seen.status
  ELSE IF Held(s) = seen.filled THEN "filled" ELSE "reconciliation_required"

\* Mutant: a fill that an earlier cycle recorded is taken for protected.
EntryVerdictOnce(s, known, seen) ==
  CASE seen.status = "new"     -> "working"
    [] seen.filled = 0         -> seen.status
    [] Held(s) # seen.filled   -> "reconciliation_required"
    [] known = seen.filled     -> "protection_verified"
    [] OTHER                   -> "filled"

\* Executions of an entry: they have to agree with the order as it was read, and with
\* the position.
FilledVerdict(s, known, seen) ==
  LET agree == orders["entry"][s].filled = seen.filled /\ known <= seen.filled
  IN  CASE agree /\ Held(s) = 0 /\ known = seen.filled /\ seen.status \in Over
                                            -> "position_closed_pending"
        [] agree /\ Held(s) = seen.filled   -> "filled"
        [] OTHER                            -> "reconciliation_required"

EntryVerdict(s, known, seen) ==
  CASE seen.status = "new" -> "working"
    [] seen.filled = 0 /\ seen.status \in Over ->
         IF Held(s) = 0 /\ known = 0 THEN seen.status ELSE "reconciliation_required"
    [] seen.filled > 0 -> FilledVerdict(s, known, seen)

CloseVerdict(s, seen) ==
  CASE seen.status = "new"       -> "working"
    [] seen.status = "cancelled" -> "cancelled"
    [] seen.status = "filled"    ->
         IF seen.filled = intents[EntryOf(s)].filled /\ Position(SymbolOf[s]) = 0
         THEN "close_confirmed" ELSE "reconciliation_required"

Verdict(p) ==
  LET x == intents[job[p].target]
  IN  IF x.kind = "close_position" THEN CloseVerdict(x.reservation, job[p].seen)
      ELSE EntryVerdict(x.reservation, job[p].known, job[p].seen)

\* A proven fill is recorded, and protected next.
Resolve(p) ==
  LET i == job[p].target
  IN  /\ At(p, "resolve")
      /\ \/ /\ Verdict(p) # "filled"
            /\ Conclude(p, InState(intents, i, Verdict(p)), i, Verdict(p))
         \/ /\ Verdict(p) = "filled"
            /\ intents' = [intents EXCEPT ![i].state = "filled",
                                          ![i].filled = job[p].seen.filled]
            /\ Become(p, [job[p] EXCEPT !.pc = "protect", !.known = job[p].seen.filled])
      /\ UNCHANGED <<Beyond, exchangeVars>>

\* _set_and_verify_protection, then on to the live remainder of a partial fill.
Protect(p) ==
  LET i        == job[p].target
      s        == intents[i].reservation
      verified == Held(s) = job[p].known
  IN  /\ At(p, "protect")
      /\ \/ /\ Held(s) > 0
            /\ StopsSet(s)
            /\ \/ /\ verified /\ job[p].seen.status # "partial"
                  /\ Conclude(p, InState(intents, i, "protection_verified"), i,
                              "protection_verified")
               \/ /\ verified /\ job[p].seen.status = "partial"
                  /\ Become(p, [job[p] EXCEPT !.pc = "remainder"])
                  /\ UNCHANGED intents
               \/ /\ ~verified \/ "lost_response" \in Happens
                  /\ Fail(p, intents)
         \/ /\ Held(s) <= 0 \/ "lost_request" \in Happens
            /\ Fail(p, intents)
            /\ UNCHANGED stops
      /\ UNCHANGED <<Beyond, orders, cancelling, exited, reported>>

\* A POST that never reaches the exchange.
CancelLost == "lost_request" \in Happens /\ UNCHANGED cancelling

CancelRemainder(p) ==
  LET s == intents[job[p].target].reservation
  IN  /\ At(p, "remainder")
      /\ \/ /\ CancelAccepted(s)
            /\ \/ /\ Become(p, [job[p] EXCEPT !.pc = "reread"])
                  /\ UNCHANGED intents
               \/ /\ "lost_response" \in Happens
                  /\ Fail(p, intents)
         \/ /\ CancelRefused(s) \/ CancelLost
            /\ Fail(p, intents)
      /\ UNCHANGED <<Beyond, orders, exited, stops, reported>>

\* Another fill may have raced with the cancellation of the remainder.
ReadAgain(p) ==
  LET i     == job[p].target
      order == orders["entry"][intents[i].reservation]
  IN  /\ At(p, "reread")
      /\ \/ /\ order.status \in Over
            /\ Become(p, [job[p] EXCEPT !.pc = "resolve", !.seen = order])
            /\ UNCHANGED intents
         \/ /\ order.status \notin Over
            /\ Conclude(p, InState(intents, i, "reconciliation_required"), i,
                        "reconciliation_required")
      /\ UNCHANGED <<Beyond, exchangeVars>>

\* attribute_closed_outcome: without a closed PnL the monitor goes on to the next
\* intent and asks again in its next cycle.
Attribute(p) ==
  LET s == Owned(p)
  IN  /\ At(p, "attribute")
      /\ \/ /\ s \in attributed \cup reported
            /\ attributed' = attributed \cup {s}
            /\ Become(p, [job[p] EXCEPT !.pc = "sync"])
         \/ /\ s \notin attributed \cup reported
            /\ NextTask(p)
            /\ UNCHANGED attributed
      /\ UNCHANGED <<riskVars, log, intents, cursor, runs, course, now, funds, exchangeVars>>

\* A GET of the walk is answered with an error.
QueryFails(p) ==
  /\ "unavailable" \in Happens
  /\ \/ /\ Doing(p, {"reconcile", "expired", "depend", "recover", "confirm"})
        /\ intents[Item(p)].state \notin Final
     \/ At(p, "resolve") \/ At(p, "reread")
     \/ At(p, "attribute") /\ Owned(p) \notin attributed
  /\ Fail(p, intents)
  /\ UNCHANGED <<Beyond, exchangeVars>>

ReconcileStep(p) ==
  \/ Reconcile(p) \/ Resolve(p) \/ Protect(p) \/ CancelRemainder(p) \/ ReadAgain(p)
  \/ QueryFails(p)
===============================================================================
