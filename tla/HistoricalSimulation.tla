-------------------------- MODULE HistoricalSimulation --------------------------
(***************************************************************************)
(* simulate-history: for each signal up to the checkpoint of the backfill, *)
(* fetch the one-minute candles after its receipt, page by page from the   *)
(* newest to the oldest, and decide what would have become of it.  A       *)
(* terminal outcome is final: later runs pass over it.                     *)
(*                                                                         *)
(* Time is counted in half minutes, so that a receipt can fall inside a    *)
(* candle.  Of a candle only matters which thresholds its range touches;   *)
(* while it is open, the exchange serves what it has touched so far.       *)
(***************************************************************************)
EXTENDS Integers, FiniteSets, FiniteSetsExt

CONSTANTS
  Signals,      \* message ids of the stored signals
  Received,     \* when each was received, in half minutes
  EntryWindow,
  ExitHorizon,
  Candles,      \* BOUND: the minutes that the market lasts, 0..n
  Markets,      \* BOUND: what the candles may touch in the end
  Times,        \* BOUND: the moments at which anything happens
  Gaps,         \* BOUND: sets of candles that the exchange does not serve
  PageLimit,
  Limits,       \* what --limit is set to; 0 stands for no limit
  MaxFailures   \* BOUND: failed requests and killed runs

Thresholds == {"entry", "tp", "sl"}

ASSUME SimulationAssumption ==
  /\ Signals \subseteq Nat /\ Received \in [Signals -> Nat]
  /\ EntryWindow \in Nat \ {0, 1, 2} /\ ExitHorizon \in {2 * n : n \in 1..100}
  /\ Times \subseteq Nat /\ Times # {} /\ Markets \subseteq [Candles -> SUBSET Thresholds]
  /\ \A m \in Markets : \A c \in Candles : {"tp", "sl"} \subseteq m[c] => "entry" \in m[c]
  /\ IsFiniteSet(Candles) /\ Candles \subseteq Nat
  /\ PageLimit \in Nat \ {0} /\ Limits \subseteq Nat /\ MaxFailures \in Nat

VARIABLES
  now,
  market,      \* what each candle touches in the end
  gaps,        \* the candles that the exchange does not serve
  checkpoint,  \* topic_backfill_checkpoints
  outcome,     \* historical_simulation_outcomes
  unfinished,  \* outcomes decided by a candle that was still open (history variable)
  run,         \* the simulate-history process
  failures

simulationVars == <<now, market, gaps, checkpoint, outcome, unfinished, run, failures>>

Terminal ==
  {"no_entry_before_expiry", "take_profit_first", "stop_loss_first", "no_exit_within_horizon",
   "intrabar_ambiguity"}

NoOutcome == "none"

Insufficient == "insufficient_candle_data"

Opens(c) == 2 * c

Closes(c) == Opens(c) + 2

\* required_range and _ceil_minute
Start(s) == IF Received[s] % 2 = 0 THEN Received[s] ELSE Received[s] + 1

Expiry(s) == Received[s] + EntryWindow

End(s) == Expiry(s) + ExitHorizon

\* What an unfinished candle may have touched: there is no way past the entry.
Ranges == {p \in SUBSET Thresholds : {"tp", "sl"} \subseteq p => "entry" \in p}

-------------------------------------------------------------------------------
(* HistoricalOutcomeSimulator.  rows: candle -> [touches, open]. *)

Eligible(s, rows) == {c \in DOMAIN rows : Opens(c) >= Start(s) /\ Closes(c) <= Expiry(s)}

\* _require_contiguous: every complete minute of the entry window is there.
Contiguous(s, rows) ==
  (Start(s) \div 2)..(Expiry(s) \div 2 - 1) \subseteq DOMAIN rows

Decided(what, candle) == [outcome |-> what, candle |-> candle]

\* Mutant: a candle that touches both thresholds counts as a profit.
BarriersGuessed(touches) ==
  CASE "tp" \in touches -> "take_profit_first"
    [] "sl" \in touches /\ "tp" \notin touches -> "stop_loss_first"
    [] touches \cap {"tp", "sl"} = {} -> NoOutcome

\* _barrier_hits and what follows from it.
Barriers(touches) ==
  CASE {"tp", "sl"} \subseteq touches -> "intrabar_ambiguity"
    [] "tp" \in touches /\ "sl" \notin touches -> "take_profit_first"
    [] "sl" \in touches /\ "tp" \notin touches -> "stop_loss_first"
    [] touches \cap {"tp", "sl"} = {} -> NoOutcome

\* The first candle after the entry that is beyond the horizon, missing, or touches a
\* threshold.
AfterEntry(rows, entry) ==
  LET beyond(c) == Closes(c) > Opens(entry) + ExitHorizon
      last == Min({c \in (entry + 1)..(entry + ExitHorizon) :
                     beyond(c) \/ c \notin DOMAIN rows \/ Barriers(rows[c].touches) # NoOutcome})
  IN  IF beyond(last) THEN Decided("no_exit_within_horizon", last - 1)
      ELSE IF last \notin DOMAIN rows THEN Decided(Insufficient, last)
      ELSE Decided(Barriers(rows[last].touches), last)

Simulate(s, rows) ==
  LET entries == {c \in Eligible(s, rows) : "entry" \in rows[c].touches}
      entry   == Min(entries)
  IN  IF ~Contiguous(s, rows) THEN Decided(Insufficient, 0)
      ELSE IF entries = {} THEN Decided("no_entry_before_expiry", Max(Eligible(s, rows)))
      ELSE IF rows[entry].touches \cap {"tp", "sl"} # {}
           THEN Decided("intrabar_ambiguity", entry)
      ELSE AfterEntry(rows, entry)

-------------------------------------------------------------------------------
(* The market and the backfill. *)

Tick ==
  /\ \E t \in Times : t > now
  /\ now' = Min({t \in Times : t > now})
  /\ UNCHANGED <<market, gaps, checkpoint, outcome, unfinished, run, failures>>

BackfillAdvances(s) ==
  /\ checkpoint < s
  /\ \A n \in Signals : n > checkpoint => s <= n
  /\ checkpoint' = s
  /\ UNCHANGED <<now, market, gaps, outcome, unfinished, run, failures>>

-------------------------------------------------------------------------------
(* HistoricalSimulationService.run *)

NoRows == [c \in {} |-> [touches |-> {}, open |-> FALSE]]

NotRunning ==
  [pc |-> "off", todo |-> {}, limit |-> 0, attempted |-> 0, end |-> 0, asked |-> 0,
   rows |-> NoRows]

\* list_eligible_signals
Starts(limit) ==
  /\ run.pc = "off"
  /\ run' = [NotRunning EXCEPT !.pc = "next", !.limit = limit,
                               !.todo = {s \in Signals : s <= checkpoint}]
  /\ UNCHANGED <<now, market, gaps, checkpoint, outcome, unfinished, failures>>

Current == Min(run.todo)

\* Mutant: outcomes are computed anew in every run.
TerminalIgnored(s) == FALSE

\* Mutant: a signal without its data is not tried again.
FailureIsTerminal(s) == outcome[s] # NoOutcome

HasTerminalOutcome(s) == outcome[s] \in Terminal

Skips ==
  /\ run.pc = "next" /\ run.todo # {}
  /\ HasTerminalOutcome(Current)
  /\ run' = [run EXCEPT !.todo = @ \ {Current}]
  /\ UNCHANGED <<now, market, gaps, checkpoint, outcome, unfinished, failures>>

LimitReached == run.limit # 0 /\ run.attempted >= run.limit

Attempts ==
  /\ run.pc = "next" /\ run.todo # {}
  /\ ~HasTerminalOutcome(Current)
  /\ ~LimitReached
  /\ run' = [run EXCEPT !.pc = "asking", !.attempted = @ + 1, !.end = End(Current),
                        !.asked = now, !.rows = NoRows]
  /\ UNCHANGED <<now, market, gaps, checkpoint, outcome, unfinished, failures>>

Finishes ==
  /\ run.pc = "next"
  /\ run.todo # {} => LimitReached /\ ~HasTerminalOutcome(Current)
  /\ run' = NotRunning
  /\ UNCHANGED <<now, market, gaps, checkpoint, outcome, unfinished, failures>>

\* The exchange answers with the newest candles of the range, the open one included.
Page ==
  LET served == {c \in Candles \ gaps : /\ Opens(c) >= Start(Current)
                                       /\ Opens(c) <= run.end /\ Opens(c) <= now}
  IN  {c \in served : Cardinality({d \in served : d > c}) < PageLimit}

\* Mutant: a full page is taken for the last one.
LastPageAtLimit(page) == Cardinality(page) <= PageLimit

LastPage(page) ==
  \/ Cardinality(page) < PageLimit
  \/ Opens(Min(page)) <= Start(Current)

\* fetch_candles: an open candle shows a part of what it touches in the end.
RequestsPage(page) ==
  /\ run.pc = "asking"
  /\ LET current == {c \in page : now < Closes(c)}
     IN  \E seen \in SUBSET UNION {market[c] : c \in current} :
           LET rows == [c \in page \cup DOMAIN run.rows |->
                          IF c \in current THEN [touches |-> seen, open |-> TRUE]
                          ELSE IF c \in page THEN [touches |-> market[c], open |-> FALSE]
                          ELSE run.rows[c]]
           IN  /\ seen \in Ranges
               /\ run' = IF LastPage(page) THEN [run EXCEPT !.pc = "fetched", !.rows = rows]
                         ELSE [run EXCEPT !.rows = rows, !.end = Opens(Min(page)) - 1]
  /\ UNCHANGED <<now, market, gaps, checkpoint, outcome, unfinished, failures>>

\* Only the rows inside the range are looked at.
Fetched == [c \in {d \in DOMAIN run.rows : Opens(d) < End(Current)} |-> run.rows[c]]

\* Mutant: the error takes the place of the outcome.
RecordedVerbatim(what) == what

Recorded(what) == IF what = Insufficient THEN "data_unavailable" ELSE what

\* simulate, and record_success or record_failure: outcome and attempt in one transaction.
Records(s, result) ==
  /\ outcome' = [outcome EXCEPT ![s] = Recorded(result.outcome)]
  /\ unfinished' = IF result.outcome # Insufficient /\ run.rows[result.candle].open
                   THEN unfinished \cup {s} ELSE unfinished \ {s}
  /\ run' = [run EXCEPT !.pc = "next", !.rows = NoRows, !.todo = @ \ {s}]
  /\ UNCHANGED <<now, market, gaps, checkpoint, failures>>

\* MarketDataError
RequestFails ==
  /\ run.pc = "asking"
  /\ failures < MaxFailures
  /\ failures' = failures + 1
  /\ outcome' = [outcome EXCEPT ![Current] = "data_unavailable"]
  /\ run' = [run EXCEPT !.pc = "next", !.rows = NoRows, !.todo = @ \ {Current}]
  /\ UNCHANGED <<now, market, gaps, checkpoint, unfinished>>

Killed ==
  /\ run.pc # "off"
  /\ failures < MaxFailures
  /\ failures' = failures + 1
  /\ run' = NotRunning
  /\ UNCHANGED <<now, market, gaps, checkpoint, outcome, unfinished>>

-------------------------------------------------------------------------------
SimulationInit ==
  /\ now = Min(Times)
  /\ market \in Markets
  /\ gaps \in Gaps
  /\ checkpoint = 0
  /\ outcome = [s \in Signals |-> NoOutcome]
  /\ unfinished = {}
  /\ run = NotRunning
  /\ failures = 0

RunStep ==
  \/ Skips \/ Attempts \/ Finishes
  \/ run.pc = "asking" /\ \E page \in {Page} : RequestsPage(page)
  \/ /\ run.pc = "fetched"
     /\ \E rows \in {Fetched} : \E result \in {Simulate(Current, rows)} : Records(Current, result)

SimulationNext ==
  \/ Tick
  \/ \E s \in Signals : BackfillAdvances(s)
  \/ \E limit \in Limits : Starts(limit)
  \/ RunStep \/ RequestFails \/ Killed

SimulationSpec == SimulationInit /\ [][SimulationNext]_simulationVars

\* The operator comes back to a run without a limit (README.md:215), and a run that is not
\* killed comes to its end.
FairSimulationSpec ==
  /\ SimulationSpec
  /\ WF_simulationVars(Tick)
  /\ WF_simulationVars(RunStep)
  /\ SF_simulationVars(Starts(0))

-------------------------------------------------------------------------------
(* Properties. *)

SimulationTypeOK ==
  /\ now \in Times /\ market \in Markets /\ gaps \in Gaps
  /\ checkpoint \in Signals \cup {0}
  /\ outcome \in [Signals -> Terminal \cup {NoOutcome, "data_unavailable"}]
  /\ unfinished \subseteq Signals
  /\ run.pc \in {"off", "next", "asking", "fetched"} /\ run.todo \subseteq Signals
  /\ DOMAIN run.rows \subseteq Candles
  /\ failures \in 0..MaxFailures

\* What the finished candles say of a signal.
Truth(s) ==
  LET entries == {c \in Candles : /\ Opens(c) >= Start(s) /\ Closes(c) <= Expiry(s)
                                  /\ "entry" \in market[c]}
      entry == Min(entries)
      exits == {c \in Candles : /\ c >= entry /\ Closes(c) <= Opens(entry) + ExitHorizon
                                /\ market[c] \cap {"tp", "sl"} # {}}
      exit  == Min(exits)
  IN  CASE entries = {} -> "no_entry_before_expiry"
        [] entries # {} /\ exits = {} -> "no_exit_within_horizon"
        [] entries # {} /\ exits # {} ->
             IF exit = entry \/ {"tp", "sl"} \subseteq market[exit] THEN "intrabar_ambiguity"
             ELSE IF "tp" \in market[exit] THEN "take_profit_first" ELSE "stop_loss_first"

\* README.md:222 and 231: an outcome is what the finished candles say, whatever was
\* missing, open or still to come when they were fetched, unless the very candle that
\* decided it was open: then the outcome may be wrong for good.
OutcomesAreTrue ==
  \A s \in Signals : outcome[s] \in Terminal /\ s \notin unfinished => outcome[s] = Truth(s)

\* README.md:237: the pages together hold every candle of the range that was there when
\* the first of them was requested, although the market moves on between them.
PagesCoverTheRange ==
  run.pc = "fetched" =>
    \A c \in Candles \ gaps :
      /\ Opens(c) >= Start(Current) /\ Opens(c) < End(Current)
      /\ Opens(c) <= run.asked
      => c \in DOMAIN run.rows

\* README.md:217: a terminal outcome is never replaced, by whichever run or failure.
TerminalStays ==
  [][\A s \in Signals : outcome[s] \in Terminal => outcome'[s] = outcome[s]]_simulationVars

\* README.md:217: an attempt without its data can be retried: every signal that the
\* backfill has passed, and whose candles are served, gets its outcome, although others
\* before it may never get theirs.
AllGetDecided ==
  \A s \in Signals :
    (/\ s <= checkpoint
     /\ \A c \in gaps : Closes(c) <= Start(s) \/ Opens(c) >= End(s))
      ~> outcome[s] \in Terminal
===============================================================================
