------------------------------ MODULE DemoRuntime -------------------------------
(***************************************************************************)
(* The commands that share one database: demo-run with its three children, *)
(* the applied commands that run on their own, and the two operator        *)
(* commands that need to be alone, the owned close and the risk epoch.     *)
(* Two advisory file locks keep them apart.  Both are tried without        *)
(* waiting, and the kernel frees them when their process ends, however it  *)
(* ends.  A child takes the operation lock itself: it keeps it when the    *)
(* supervisor dies.                                                        *)
(*                                                                         *)
(* A trade is what DemoExecution makes of it, seen from far away: a        *)
(* reservation, an open position, a position closed by the exchange, and   *)
(* nothing again once it is settled.                                       *)
(***************************************************************************)
EXTENDS Integers, FiniteSets

CONSTANTS
  Runtimes,    \* demo-run
  Services,    \* an applied worker, monitor, bridge, execution or replay run by hand
  Closers,     \* demo-reconcile --close-owned-position
  Boundaries,  \* demo-risk-epoch
  Epochs,      \* epoch ids
  EpochOf,     \* the id each demo-risk-epoch is started with
  MaxTrades,   \* BOUND: trades
  MaxFaults    \* BOUND: children that fail of themselves and commands that are killed

Commands == Runtimes \cup Services \cup Closers \cup Boundaries

Roles == {"observer", "worker", "monitor"}

Children == Runtimes \X Roles

ASSUME RuntimeAssumption ==
  /\ EpochOf \in [Boundaries -> Epochs]
  /\ Services \cap (Runtimes \cup Closers \cup Boundaries) = {}
  /\ Runtimes \cap (Closers \cup Boundaries) = {}
  /\ Closers \cap Boundaries = {}
  /\ Commands \cap Children = {}
  /\ MaxTrades \in Nat /\ MaxFaults \in Nat

VARIABLES
  supervisorLock,  \* who holds .traderrd-demo-run.lock
  shared,          \* who holds .traderrd-demo-operation.lock, with others
  exclusive,       \* who holds it alone
  pc,              \* what a command is doing
  child,           \* what has become of a child
  trade,           \* the trade
  equity,          \* the account's equity, which every trade changes
  evidence,        \* the account snapshot of a demo-risk-epoch
  commits,         \* how often an epoch has been committed
  base,            \* the equity that the last epoch starts from
  failures, deaths

lockVars == <<supervisorLock, shared, exclusive>>
tradeVars == <<trade, equity>>
epochVars == <<evidence, commits, base>>
runtimeVars ==
  <<supervisorLock, shared, exclusive, pc, child, trade, equity, evidence, commits, base,
    failures, deaths>>

\* A command is idle until it holds its first lock; it can be started again.
Exclusives == Closers \cup Boundaries

Stages ==
  {"idle", "claimed", "owning", "starting", "supervising", "stopping", "waiting", "terminating",
   "stopped", "released", "checked", "proven", "reported"}

Gone == {"none", "exited"}

Signalled == {"interrupted", "terminated", "killed"}

Live(k) == child[k] \notin Gone

ChildrenOf(s) == {s} \X Roles

NoEvidence == [equity |-> 0, fresh |-> FALSE]

-------------------------------------------------------------------------------
(* The locks. *)

Goes(c, stage) == pc' = [pc EXCEPT ![c] = stage]

\* Mutant: a second demo-run does not find the lock taken.
UnclaimedBy(c) == c \notin supervisorLock

Unclaimed(c) == supervisorLock = {}

\* _exclusive_runtime_lock.  A run that was killed keeps its name while a child of it
\* lives.
Claim(c) ==
  /\ c \notin Services
  /\ pc[c] = "idle"
  /\ \A k \in Children : k[1] = c => ~Live(k)
  /\ Unclaimed(c)
  /\ supervisorLock' = supervisorLock \cup {c}
  /\ Goes(c, "claimed")
  /\ UNCHANGED <<shared, exclusive, child, tradeVars, epochVars, failures, deaths>>

\* Mutant: an operator command shares the operation lock.
FreeOfExclusives(c) == exclusive = {}

\* _demo_operation_lock
Free(c) == exclusive = {} /\ (c \in Exclusives => shared = {})

Own(c) ==
  /\ pc[c] = "claimed"
  /\ Free(c)
  /\ IF c \in Exclusives THEN exclusive' = exclusive \cup {c} /\ UNCHANGED shared
                         ELSE shared' = shared \cup {c} /\ UNCHANGED exclusive
  /\ Goes(c, IF c \in Runtimes THEN "starting" ELSE "owning")
  /\ UNCHANGED <<supervisorLock, child, tradeVars, epochVars, failures, deaths>>

Refused(c) ==
  /\ pc[c] = "claimed"
  /\ ~Free(c)
  /\ supervisorLock' = supervisorLock \ {c}
  /\ Goes(c, "idle")
  /\ UNCHANGED <<shared, exclusive, child, tradeVars, epochVars, failures, deaths>>

\* A command run by hand takes the operation lock only.
Serve(x) ==
  /\ x \in Services /\ pc[x] = "idle"
  /\ Free(x)
  /\ shared' = shared \cup {x}
  /\ Goes(x, "owning")
  /\ UNCHANGED <<supervisorLock, exclusive, child, tradeVars, epochVars, failures, deaths>>

\* The operation lock is released first, the supervisor lock after it.
Leave(c) ==
  /\ \/ pc[c] = "owning" /\ c \notin Boundaries
     \/ pc[c] \in {"stopped", "reported"}
  /\ shared' = shared \ {c} /\ exclusive' = exclusive \ {c}
  /\ Goes(c, IF c \in Services THEN "idle" ELSE "released")
  /\ UNCHANGED <<supervisorLock, child, tradeVars, epochVars, failures, deaths>>

\* The children that have ended are forgotten with their supervisor.
Forget(c) ==
  child' = [k \in Children |-> IF k[1] = c /\ ~Live(k) THEN "none" ELSE child[k]]

Return(c) ==
  /\ pc[c] = "released"
  /\ supervisorLock' = supervisorLock \ {c}
  /\ Goes(c, "idle")
  /\ Forget(c)
  /\ UNCHANGED <<shared, exclusive, tradeVars, epochVars, failures, deaths>>

\* SIGTERM, SIGKILL, a closed terminal, or a second Ctrl-C while the children are being
\* stopped: the locks of this process are free, its children run on.
Die(c) ==
  /\ pc[c] # "idle"
  /\ failures + deaths < MaxFaults
  /\ deaths' = deaths + 1
  /\ supervisorLock' = supervisorLock \ {c}
  /\ shared' = shared \ {c} /\ exclusive' = exclusive \ {c}
  /\ Goes(c, "idle")
  /\ Forget(c)
  /\ UNCHANGED <<tradeVars, epochVars, failures>>

-------------------------------------------------------------------------------
(* DemoRuntimeSupervisor and its children. *)

Becomes(k, state) == child' = [child EXCEPT ![k] = state]

Preceding(r) ==
  CASE r = "observer" -> {}
    [] r = "worker" -> {"observer"}
    [] r = "monitor" -> {"observer", "worker"}

\* _start_children; an error or Ctrl-C on the way stops those that have been started.
StartChild(s, r) ==
  /\ pc[s] = "starting"
  /\ child[<<s, r>>] = "none"
  /\ \A q \in Preceding(r) : child[<<s, q>>] # "none"
  /\ Becomes(<<s, r>>, "starting")
  /\ IF r = "monitor" THEN Goes(s, "supervising") ELSE UNCHANGED pc
  /\ UNCHANGED <<lockVars, tradeVars, epochVars, failures, deaths>>

\* Mutant: only the worker is watched.
WorkerEnded(s) == child[<<s, "worker">>] = "exited"

Ended(s) == \E k \in ChildrenOf(s) : child[k] = "exited"

\* _supervise: a child that has exited, the dashboard's q, or Ctrl-C.
Notice(s) ==
  /\ pc[s] = "supervising"
  /\ Ended(s)
  /\ Goes(s, "stopping")
  /\ UNCHANGED <<lockVars, child, tradeVars, epochVars, failures, deaths>>

Quit(s) ==
  /\ pc[s] \in {"starting", "supervising"}
  /\ Goes(s, "stopping")
  /\ UNCHANGED <<lockVars, child, tradeVars, epochVars, failures, deaths>>

\* A child that is still starting does not survive any of the signals.
Send(s, signal) ==
  child' = [k \in Children |-> IF k \notin ChildrenOf(s) \/ ~Live(k) THEN child[k]
                              ELSE IF child[k] = "starting" THEN "exited" ELSE signal]

\* _stop_children: SIGINT, five seconds for all of them, SIGTERM, another second, SIGKILL.
Interrupt(s) ==
  /\ pc[s] = "stopping"
  /\ Send(s, "interrupted")
  /\ Goes(s, "waiting")
  /\ UNCHANGED <<lockVars, tradeVars, epochVars, failures, deaths>>

Terminate(s) ==
  /\ pc[s] = "waiting"
  /\ Send(s, "terminated")
  /\ Goes(s, "terminating")
  /\ UNCHANGED <<lockVars, tradeVars, epochVars, failures, deaths>>

\* Mutant: the children that do not stop are left to themselves.
SendNothing(s) == UNCHANGED child

\* The end of a killed process is not awaited.
SendKill(s) == Send(s, "killed")

Kill(s) ==
  /\ pc[s] = "terminating"
  /\ SendKill(s)
  /\ Goes(s, "stopped")
  /\ UNCHANGED <<lockVars, tradeVars, epochVars, failures, deaths>>

\* Worker and monitor take their own share of the operation lock, or give up.
Join(k) ==
  /\ child[k] = "starting"
  /\ \/ /\ k[2] = "observer"
        /\ Becomes(k, "running")
        /\ UNCHANGED shared
     \/ /\ k[2] # "observer" /\ exclusive = {}
        /\ Becomes(k, "running")
        /\ shared' = shared \cup {k}
     \/ /\ k[2] # "observer" /\ exclusive # {}
        /\ Becomes(k, IF pc[k[1]] = "idle" THEN "none" ELSE "exited")
        /\ UNCHANGED shared
  /\ UNCHANGED <<supervisorLock, exclusive, pc, tradeVars, epochVars, failures, deaths>>

Exit(k) ==
  /\ Becomes(k, IF pc[k[1]] = "idle" THEN "none" ELSE "exited")
  /\ shared' = shared \ {k}
  /\ UNCHANGED <<supervisorLock, exclusive, pc, tradeVars, epochVars, deaths>>

\* An error ends a child; an orphan ends when it next prints to its broken pipe.
Fail(k) ==
  /\ child[k] \in {"starting", "running"}
  /\ \/ pc[k[1]] # "idle" /\ failures + deaths < MaxFaults /\ failures' = failures + 1
     \/ pc[k[1]] = "idle" /\ UNCHANGED failures
  /\ Exit(k)

\* A child may be too busy to see SIGINT; SIGTERM and SIGKILL end it.
Obey(k) ==
  /\ child[k] \in Signalled
  /\ Exit(k)
  /\ UNCHANGED failures

-------------------------------------------------------------------------------
(* What the holders of the operation lock do to ledger and account. *)

Trading(p) == p \in shared \/ (p \in Closers /\ p \in exclusive)

Workers == (Runtimes \X {"worker"}) \cup Services

Settlers == (Runtimes \X {"monitor"}) \cup Services \cup Closers

Reserve(p) ==
  /\ p \in Workers /\ Trading(p)
  /\ trade = "none" /\ equity < MaxTrades
  /\ trade' = "reserved"
  /\ UNCHANGED <<lockVars, pc, child, equity, epochVars, failures, deaths>>

Open(p) ==
  /\ p \in Workers /\ Trading(p)
  /\ trade = "reserved"
  /\ trade' = "open"
  /\ UNCHANGED <<lockVars, pc, child, equity, epochVars, failures, deaths>>

\* The exchange at its stop or target, or the owned close of an operator.
ClosesAtExchange ==
  /\ trade = "open"
  /\ trade' = "closed" /\ equity' = equity + 1
  /\ UNCHANGED <<lockVars, pc, child, epochVars, failures, deaths>>

Settle(p) ==
  /\ p \in Settlers /\ Trading(p)
  /\ trade = "closed"
  /\ trade' = "none"
  /\ UNCHANGED <<lockVars, pc, child, equity, epochVars, failures, deaths>>

-------------------------------------------------------------------------------
(* run_demo_risk_epoch *)

\* _check_epoch_idle: no reservation and no intent that is not settled.
Idle == trade = "none"

Flat == trade # "open"

\* Mutant: an interrupted epoch is started anew.
CommittedNever(b) == FALSE

Committed(b) == commits[EpochOf[b]] > 0

Consult(b) ==
  /\ b \in Boundaries /\ pc[b] = "owning"
  /\ Goes(b, IF ~Committed(b) /\ Idle THEN "checked" ELSE "reported")
  /\ UNCHANGED <<lockVars, child, tradeVars, epochVars, failures, deaths>>

\* _validate_snapshot
Fetch(b) ==
  /\ pc[b] = "checked"
  /\ evidence' = [evidence EXCEPT ![b] = [equity |-> equity, fresh |-> TRUE]]
  /\ Goes(b, IF Flat THEN "proven" ELSE "reported")
  /\ UNCHANGED <<lockVars, child, tradeVars, commits, base, failures, deaths>>

TenSecondsPass(b) ==
  /\ evidence[b].fresh
  /\ evidence' = [evidence EXCEPT ![b].fresh = FALSE]
  /\ UNCHANGED <<lockVars, pc, child, tradeVars, commits, base, failures, deaths>>

\* start_demo_epoch: everything is looked at again in the transaction of the command.
Commit(b) ==
  /\ pc[b] = "proven"
  /\ IF ~Committed(b) /\ Idle /\ evidence[b].fresh
     THEN /\ commits' = [commits EXCEPT ![EpochOf[b]] = @ + 1]
          /\ base' = evidence[b].equity
     ELSE UNCHANGED <<commits, base>>
  /\ evidence' = [evidence EXCEPT ![b] = NoEvidence]
  /\ Goes(b, "reported")
  /\ UNCHANGED <<lockVars, child, tradeVars, failures, deaths>>

-------------------------------------------------------------------------------
RuntimeInit ==
  /\ supervisorLock = {} /\ shared = {} /\ exclusive = {}
  /\ pc = [c \in Commands |-> "idle"]
  /\ child = [k \in Children |-> "none"]
  /\ trade = "none" /\ equity = 0
  /\ evidence = [b \in Boundaries |-> NoEvidence]
  /\ commits = [e \in Epochs |-> 0] /\ base = 0
  /\ failures = 0 /\ deaths = 0

SupervisorStep(s) ==
  \/ \E r \in Roles : StartChild(s, r)
  \/ Notice(s) \/ Interrupt(s) \/ Terminate(s) \/ Kill(s)

ChildStep(k) == Join(k) \/ Fail(k) \/ Obey(k)

TradeStep ==
  \/ \E p \in Workers : Reserve(p) \/ Open(p)
  \/ ClosesAtExchange
  \/ \E p \in Settlers : Settle(p)

EpochStep(b) == Consult(b) \/ Fetch(b) \/ TenSecondsPass(b) \/ Commit(b)

RuntimeNext ==
  \/ \E c \in Commands :
       Claim(c) \/ Own(c) \/ Refused(c) \/ Serve(c) \/ Leave(c) \/ Return(c) \/ Die(c)
  \/ \E s \in Runtimes : SupervisorStep(s) \/ Quit(s)
  \/ \E k \in Children : ChildStep(k)
  \/ TradeStep
  \/ \E b \in Boundaries : EpochStep(b)

RuntimeSpec == RuntimeInit /\ [][RuntimeNext]_runtimeVars

\* A supervisor that lives goes on, and a child that is terminated or killed ends.  That a
\* child heeds SIGINT, or that one ends of itself, is not assumed.
FairRuntimeSpec ==
  /\ RuntimeSpec
  /\ \A s \in Runtimes : WF_runtimeVars(SupervisorStep(s))
  /\ \A k \in Children : WF_runtimeVars(child[k] \in {"terminated", "killed"} /\ Obey(k))

-------------------------------------------------------------------------------
(* Properties. *)

RuntimeTypeOK ==
  /\ supervisorLock \subseteq Commands /\ Cardinality(supervisorLock) <= 1
  /\ shared \subseteq Commands \cup Children /\ exclusive \subseteq Exclusives
  /\ pc \in [Commands -> Stages]
  /\ child \in [Children -> Gone \cup Signalled \cup {"starting", "running"}]
  /\ trade \in {"none", "reserved", "open", "closed"}
  /\ equity \in 0..MaxTrades
  /\ evidence \in [Boundaries -> [equity : Nat, fresh : BOOLEAN]]
  /\ commits \in [Epochs -> Nat] /\ base \in Nat
  /\ failures \in Nat /\ deaths \in Nat /\ failures + deaths <= MaxFaults

\* README.md:1198: while an operator command is in charge, no other command is, and no
\* worker or monitor runs, be its supervisor dead or alive.
Alone(c) ==
  /\ \A d \in Commands \ {c} : pc[d] \in {"idle", "claimed", "released"}
  /\ \A k \in Children : Live(k) => child[k] = "starting" \/ k[2] = "observer"

InCharge(c) == c \in Exclusives /\ pc[c] \in {"owning", "checked", "proven", "reported"}

ExclusiveMeansAlone == \A c \in Commands : InCharge(c) => Alone(c)

\* README.md:814: unless a supervisor is killed, the children of one demo-run are gone, or
\* at least sent SIGKILL, before another starts its own: there is one worker at a time.
OneRuntimeTrades ==
  deaths = 0 =>
    \A j, k \in Children :
      Live(j) /\ Live(k) /\ child[j] # "killed" /\ child[k] # "killed" => j[1] = k[1]

\* README.md:1250: an epoch that is tried again, after a crash or by two operators, moves
\* the boundary once.
EpochOnce == \A e \in Epochs : commits[e] <= 1

\* README.md:1216: an epoch starts from the equity of that very moment, with nothing
\* reserved and nothing open, although its evidence was fetched before the transaction.
EpochBoundaryIsFlat ==
  [][commits' # commits => Idle /\ Flat /\ base' = equity]_runtimeVars

\* README.md:810: once a child has exited, the supervisor stops all of them, even those
\* that do not heed SIGINT.
ExitStopsAll ==
  \A s \in Runtimes :
    (pc[s] = "supervising" /\ \E k \in ChildrenOf(s) : child[k] = "exited") ~>
      (deaths > 0 \/ \A k \in ChildrenOf(s) : ~Live(k))
===============================================================================
