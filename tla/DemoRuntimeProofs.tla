---------------------------- MODULE DemoRuntimeProofs ---------------------------
(***************************************************************************)
(* Theorems of DemoRuntime for every number of demo-runs, of commands run  *)
(* by hand and of operator commands, and every set of epochs.              *)
(***************************************************************************)
EXTENDS DemoRuntime, FiniteSetTheorems, TLAPS

-------------------------------------------------------------------------------
(* The inductive invariant. *)

RuntimeStages == {"starting", "supervising", "stopping", "waiting", "terminating", "stopped"}

OperatorStages == {"owning", "checked", "proven", "reported"}

Between == {"idle", "claimed", "released"}

ChildStates == Gone \cup Signalled \cup {"starting", "running"}

Types ==
  /\ pc \in [Commands -> Stages]
  /\ child \in [Children -> ChildStates]
  /\ trade \in {"none", "reserved", "open", "closed"}
  /\ equity \in 0..MaxTrades
  /\ trade \in {"reserved", "open"} => equity < MaxTrades
  /\ evidence \in [Boundaries -> [equity : Nat, fresh : BOOLEAN]]
  /\ commits \in [Epochs -> Nat] /\ base \in Nat
  /\ failures \in Nat /\ deaths \in Nat /\ failures + deaths <= MaxFaults

\* Who holds which lock at which stage.
Held ==
  /\ supervisorLock \subseteq Commands /\ shared \subseteq Commands \cup Children
  /\ exclusive \subseteq Exclusives
  /\ \A c \in Services : pc[c] \in {"idle", "owning"} /\ (pc[c] = "owning" => c \in shared)
  /\ \A c \in Runtimes : pc[c] \in Between \cup RuntimeStages
                         /\ (pc[c] \in RuntimeStages => c \in shared)
  /\ \A c \in Exclusives : pc[c] \in Between \cup OperatorStages
                           /\ (pc[c] \in OperatorStages => c \in exclusive)
  /\ \A c \in Commands \ Services : pc[c] # "idle" => c \in supervisorLock

\* Of each lock there is one owner, or there are only shared ones.
Single ==
  /\ \A c, d \in supervisorLock : c = d
  /\ \A c, d \in exclusive : c = d
  /\ exclusive # {} => shared = {}

\* A worker or a monitor that has come past its start holds its share of the lock.
Joined ==
  \A k \in Children :
    Live(k) /\ child[k] # "starting" /\ k[2] # "observer" => k \in shared

\* Children of a supervisor that lives are only alive under its care.
Cared ==
  deaths = 0 =>
    \A k \in Children :
      Live(k) /\ child[k] # "killed" =>
        pc[k[1]] \in {"starting", "supervising", "stopping", "waiting", "terminating"}

\* The evidence of an epoch is what the account still shows.
Proven ==
  \A b \in Boundaries : pc[b] = "proven" => Flat /\ evidence[b].equity = equity

Once == \A e \in Epochs : commits[e] <= 1

Inv == Types /\ Held /\ Single /\ Joined /\ Cared /\ Proven /\ Once

-------------------------------------------------------------------------------
\* A host on which nothing runs satisfies the invariant.
LEMMA InitInv == RuntimeInit => Inv
<1> SUFFICES ASSUME RuntimeInit PROVE Inv
  OBVIOUS
<1> USE RuntimeAssumption DEF RuntimeInit
<1>1. Types
  BY DEF Types, Stages, ChildStates, Gone, NoEvidence
<1>2. Held
  BY DEF Held, Between, RuntimeStages, OperatorStages, Commands, Exclusives
<1>3. Single /\ Joined /\ Cared
  BY DEF Single, Joined, Cared, Live, Gone
<1>4. Proven /\ Once
  BY DEF Proven, Once, Commands
<1>5. QED BY <1>1, <1>2, <1>3, <1>4 DEF Inv

\* Every step keeps the types.
LEMMA TypesHold == Types /\ [RuntimeNext]_runtimeVars => Types'
<1> SUFFICES ASSUME Types, [RuntimeNext]_runtimeVars PROVE Types'
  OBVIOUS
<1> USE RuntimeAssumption DEF Types, Stages, ChildStates, Gone, Signalled, Commands, Children,
                              lockVars, tradeVars, epochVars
<1>1. ASSUME NEW c \in Commands, Claim(c) PROVE Types'
  BY <1>1 DEF Claim, Unclaimed, Goes
<1>2. ASSUME NEW c \in Commands, Own(c) PROVE Types'
  BY <1>2 DEF Own, Free, Goes
<1>3. ASSUME NEW c \in Commands, Refused(c) PROVE Types'
  BY <1>3 DEF Refused, Free, Goes
<1>4. ASSUME NEW c \in Commands, Serve(c) PROVE Types'
  BY <1>4 DEF Serve, Free, Goes
<1>5. ASSUME NEW c \in Commands, Leave(c) PROVE Types'
  BY <1>5 DEF Leave, Goes
<1>6. ASSUME NEW c \in Commands, Return(c) PROVE Types'
  BY <1>6 DEF Return, Goes, Forget
<1>7. ASSUME NEW c \in Commands, Die(c) PROVE Types'
  BY <1>7 DEF Die, Goes, Forget
<1>8. ASSUME NEW s \in Runtimes, Notice(s) PROVE Types'
  BY <1>8 DEF Notice, Goes
<1>9. ASSUME NEW s \in Runtimes, Interrupt(s) PROVE Types'
  BY <1>9 DEF Interrupt, Send, Goes
<1>10. ASSUME NEW s \in Runtimes, Terminate(s) PROVE Types'
  BY <1>10 DEF Terminate, Send, Goes
<1>11. ASSUME NEW s \in Runtimes, Kill(s) PROVE Types'
  BY <1>11 DEF Kill, SendKill, Send, Goes
<1>12. ASSUME NEW s \in Runtimes, Quit(s) PROVE Types'
  BY <1>12 DEF Quit, Goes
<1>13. ASSUME NEW s \in Runtimes, NEW r \in Roles, StartChild(s, r) PROVE Types'
  BY <1>13 DEF StartChild, Becomes, Goes
<1>14. ASSUME NEW k \in Children, Join(k) PROVE Types'
  BY <1>14 DEF Join, Becomes
<1>15. ASSUME NEW k \in Children, Fail(k) PROVE Types'
  BY <1>15 DEF Fail, Exit, Becomes
<1>16. ASSUME NEW k \in Children, Obey(k) PROVE Types'
  BY <1>16 DEF Obey, Exit, Becomes
<1>17. ASSUME NEW p \in Workers, Reserve(p) PROVE Types'
  BY <1>17 DEF Reserve
<1>18. ASSUME NEW p \in Workers, Open(p) PROVE Types'
  BY <1>18 DEF Open
<1>19. ASSUME ClosesAtExchange PROVE Types'
  BY <1>19 DEF ClosesAtExchange
<1>20. ASSUME NEW p \in Settlers, Settle(p) PROVE Types'
  BY <1>20 DEF Settle
<1>21. ASSUME NEW b \in Boundaries, Consult(b) PROVE Types'
  BY <1>21 DEF Consult, Goes
<1>22. ASSUME NEW b \in Boundaries, Fetch(b) PROVE Types'
  BY <1>22 DEF Fetch, Goes
<1>23. ASSUME NEW b \in Boundaries, TenSecondsPass(b) PROVE Types'
  BY <1>23 DEF TenSecondsPass
<1>24. ASSUME NEW b \in Boundaries, Commit(b) PROVE Types'
  BY <1>24 DEF Commit, Goes, NoEvidence
<1>25. CASE UNCHANGED runtimeVars
  BY <1>25 DEF runtimeVars
<1>26. QED
  BY <1>1, <1>2, <1>3, <1>4, <1>5, <1>6, <1>7, <1>8, <1>9, <1>10, <1>11, <1>12, <1>13, <1>14,
     <1>15, <1>16, <1>17, <1>18, <1>19, <1>20, <1>21, <1>22, <1>23, <1>24, <1>25
     DEF RuntimeNext, SupervisorStep, ChildStep, TradeStep, EpochStep

\* Every step takes and leaves the locks with the stages they belong to.
LEMMA HeldHolds == Types /\ Held /\ [RuntimeNext]_runtimeVars => Held'
<1> SUFFICES ASSUME Types /\ Held, [RuntimeNext]_runtimeVars PROVE Held'
  OBVIOUS
<1> USE RuntimeAssumption DEF Types, Held, Between, RuntimeStages, OperatorStages, Commands,
                              Exclusives, lockVars
<1>1. ASSUME NEW c \in Commands, Claim(c) PROVE Held'
  BY <1>1 DEF Claim, Unclaimed, Goes
<1>2. ASSUME NEW c \in Commands, Own(c) PROVE Held'
  BY <1>2 DEF Own, Free, Goes
<1>3. ASSUME NEW c \in Commands, Refused(c) PROVE Held'
  BY <1>3 DEF Refused, Free, Goes
<1>4. ASSUME NEW c \in Commands, Serve(c) PROVE Held'
  BY <1>4 DEF Serve, Free, Goes
<1>5. ASSUME NEW c \in Commands, Leave(c) PROVE Held'
  BY <1>5 DEF Leave, Goes
<1>6. ASSUME NEW c \in Commands, Return(c) PROVE Held'
  BY <1>6 DEF Return, Goes, Forget
<1>7. ASSUME NEW c \in Commands, Die(c) PROVE Held'
  BY <1>7 DEF Die, Goes, Forget
<1>8. ASSUME NEW s \in Runtimes, Notice(s) PROVE Held'
  BY <1>8 DEF Notice, Goes
<1>9. ASSUME NEW s \in Runtimes, Interrupt(s) PROVE Held'
  BY <1>9 DEF Interrupt, Send, Goes
<1>10. ASSUME NEW s \in Runtimes, Terminate(s) PROVE Held'
  BY <1>10 DEF Terminate, Send, Goes
<1>11. ASSUME NEW s \in Runtimes, Kill(s) PROVE Held'
  BY <1>11 DEF Kill, SendKill, Send, Goes
<1>12. ASSUME NEW s \in Runtimes, Quit(s) PROVE Held'
  BY <1>12 DEF Quit, Goes
<1>13. ASSUME NEW s \in Runtimes, NEW r \in Roles, StartChild(s, r) PROVE Held'
  BY <1>13 DEF StartChild, Becomes, Goes
<1>14. ASSUME NEW k \in Children, Join(k) PROVE Held'
  BY <1>14 DEF Join, Becomes
<1>15. ASSUME NEW k \in Children, Fail(k) PROVE Held'
  BY <1>15 DEF Fail, Exit, Becomes
<1>16. ASSUME NEW k \in Children, Obey(k) PROVE Held'
  BY <1>16 DEF Obey, Exit, Becomes
<1>17. ASSUME NEW p \in Workers, Reserve(p) PROVE Held'
  BY <1>17 DEF Reserve
<1>18. ASSUME NEW p \in Workers, Open(p) PROVE Held'
  BY <1>18 DEF Open
<1>19. ASSUME ClosesAtExchange PROVE Held'
  BY <1>19 DEF ClosesAtExchange
<1>20. ASSUME NEW p \in Settlers, Settle(p) PROVE Held'
  BY <1>20 DEF Settle
<1>21. ASSUME NEW b \in Boundaries, Consult(b) PROVE Held'
  BY <1>21 DEF Consult, Goes
<1>22. ASSUME NEW b \in Boundaries, Fetch(b) PROVE Held'
  BY <1>22 DEF Fetch, Goes
<1>23. ASSUME NEW b \in Boundaries, TenSecondsPass(b) PROVE Held'
  BY <1>23 DEF TenSecondsPass
<1>24. ASSUME NEW b \in Boundaries, Commit(b) PROVE Held'
  BY <1>24 DEF Commit, Goes, NoEvidence
<1>25. CASE UNCHANGED runtimeVars
  BY <1>25 DEF runtimeVars
<1>26. QED
  BY <1>1, <1>2, <1>3, <1>4, <1>5, <1>6, <1>7, <1>8, <1>9, <1>10, <1>11, <1>12, <1>13, <1>14,
     <1>15, <1>16, <1>17, <1>18, <1>19, <1>20, <1>21, <1>22, <1>23, <1>24, <1>25
     DEF RuntimeNext, SupervisorStep, ChildStep, TradeStep, EpochStep

\* A lock that is held is not given to another.
LEMMA SingleHolds == Types /\ Held /\ Single /\ [RuntimeNext]_runtimeVars => Single'
<1> SUFFICES ASSUME Types /\ Held /\ Single, [RuntimeNext]_runtimeVars PROVE Single'
  OBVIOUS
<1> USE RuntimeAssumption DEF Types, Held, Single, Between, RuntimeStages, OperatorStages,
                              Exclusives, lockVars
<1>1. ASSUME NEW c \in Commands, Claim(c) PROVE Single'
  BY <1>1 DEF Claim, Unclaimed, Goes
<1>2. ASSUME NEW c \in Commands, Own(c) PROVE Single'
  BY <1>2 DEF Own, Free, Goes
<1>3. ASSUME NEW c \in Commands, Refused(c) PROVE Single'
  BY <1>3 DEF Refused, Free, Goes
<1>4. ASSUME NEW c \in Commands, Serve(c) PROVE Single'
  BY <1>4 DEF Serve, Free, Goes
<1>5. ASSUME NEW c \in Commands, Leave(c) PROVE Single'
  BY <1>5 DEF Leave, Goes
<1>6. ASSUME NEW c \in Commands, Return(c) PROVE Single'
  BY <1>6 DEF Return, Goes, Forget
<1>7. ASSUME NEW c \in Commands, Die(c) PROVE Single'
  BY <1>7 DEF Die, Goes, Forget
<1>8. ASSUME NEW s \in Runtimes, Notice(s) PROVE Single'
  BY <1>8 DEF Notice, Goes
<1>9. ASSUME NEW s \in Runtimes, Interrupt(s) PROVE Single'
  BY <1>9 DEF Interrupt, Send, Goes
<1>10. ASSUME NEW s \in Runtimes, Terminate(s) PROVE Single'
  BY <1>10 DEF Terminate, Send, Goes
<1>11. ASSUME NEW s \in Runtimes, Kill(s) PROVE Single'
  BY <1>11 DEF Kill, SendKill, Send, Goes
<1>12. ASSUME NEW s \in Runtimes, Quit(s) PROVE Single'
  BY <1>12 DEF Quit, Goes
<1>13. ASSUME NEW s \in Runtimes, NEW r \in Roles, StartChild(s, r) PROVE Single'
  BY <1>13 DEF StartChild, Becomes, Goes
<1>14. ASSUME NEW k \in Children, Join(k) PROVE Single'
  BY <1>14 DEF Join, Becomes
<1>15. ASSUME NEW k \in Children, Fail(k) PROVE Single'
  BY <1>15 DEF Fail, Exit, Becomes
<1>16. ASSUME NEW k \in Children, Obey(k) PROVE Single'
  BY <1>16 DEF Obey, Exit, Becomes
<1>17. ASSUME NEW p \in Workers, Reserve(p) PROVE Single'
  BY <1>17 DEF Reserve
<1>18. ASSUME NEW p \in Workers, Open(p) PROVE Single'
  BY <1>18 DEF Open
<1>19. ASSUME ClosesAtExchange PROVE Single'
  BY <1>19 DEF ClosesAtExchange
<1>20. ASSUME NEW p \in Settlers, Settle(p) PROVE Single'
  BY <1>20 DEF Settle
<1>21. ASSUME NEW b \in Boundaries, Consult(b) PROVE Single'
  BY <1>21 DEF Consult, Goes
<1>22. ASSUME NEW b \in Boundaries, Fetch(b) PROVE Single'
  BY <1>22 DEF Fetch, Goes
<1>23. ASSUME NEW b \in Boundaries, TenSecondsPass(b) PROVE Single'
  BY <1>23 DEF TenSecondsPass
<1>24. ASSUME NEW b \in Boundaries, Commit(b) PROVE Single'
  BY <1>24 DEF Commit, Goes, NoEvidence
<1>25. CASE UNCHANGED runtimeVars
  BY <1>25 DEF runtimeVars
<1>26. QED
  BY <1>1, <1>2, <1>3, <1>4, <1>5, <1>6, <1>7, <1>8, <1>9, <1>10, <1>11, <1>12, <1>13, <1>14,
     <1>15, <1>16, <1>17, <1>18, <1>19, <1>20, <1>21, <1>22, <1>23, <1>24, <1>25
     DEF RuntimeNext, SupervisorStep, ChildStep, TradeStep, EpochStep

\* A worker or a monitor keeps its share as long as it lives.
LEMMA JoinedHolds == Types /\ Held /\ Joined /\ [RuntimeNext]_runtimeVars => Joined'
<1> SUFFICES ASSUME Types /\ Held /\ Joined, [RuntimeNext]_runtimeVars PROVE Joined'
  OBVIOUS
<1> USE RuntimeAssumption DEF Types, Joined, Live, Gone, ChildStates, Signalled, Commands,
                              Children, lockVars
<1>1. ASSUME NEW c \in Commands, Claim(c) PROVE Joined'
  BY <1>1 DEF Claim, Unclaimed, Goes
<1>2. ASSUME NEW c \in Commands, Own(c) PROVE Joined'
  BY <1>2 DEF Own, Free, Goes
<1>3. ASSUME NEW c \in Commands, Refused(c) PROVE Joined'
  BY <1>3 DEF Refused, Free, Goes
<1>4. ASSUME NEW c \in Commands, Serve(c) PROVE Joined'
  BY <1>4 DEF Serve, Free, Goes
<1>5. ASSUME NEW c \in Commands, Leave(c) PROVE Joined'
  BY <1>5 DEF Leave, Goes
<1>6. ASSUME NEW c \in Commands, Return(c) PROVE Joined'
  BY <1>6 DEF Return, Goes, Forget
<1>7. ASSUME NEW c \in Commands, Die(c) PROVE Joined'
  BY <1>7 DEF Die, Goes, Forget
<1>8. ASSUME NEW s \in Runtimes, Notice(s) PROVE Joined'
  BY <1>8 DEF Notice, Goes
<1>9. ASSUME NEW s \in Runtimes, Interrupt(s) PROVE Joined'
  BY <1>9 DEF Interrupt, Send, Goes
<1>10. ASSUME NEW s \in Runtimes, Terminate(s) PROVE Joined'
  BY <1>10 DEF Terminate, Send, Goes
<1>11. ASSUME NEW s \in Runtimes, Kill(s) PROVE Joined'
  BY <1>11 DEF Kill, SendKill, Send, Goes
<1>12. ASSUME NEW s \in Runtimes, Quit(s) PROVE Joined'
  BY <1>12 DEF Quit, Goes
<1>13. ASSUME NEW s \in Runtimes, NEW r \in Roles, StartChild(s, r) PROVE Joined'
  BY <1>13 DEF StartChild, Becomes, Goes
<1>14. ASSUME NEW k \in Children, Join(k) PROVE Joined'
  BY <1>14 DEF Join, Becomes
<1>15. ASSUME NEW k \in Children, Fail(k) PROVE Joined'
  BY <1>15 DEF Fail, Exit, Becomes
<1>16. ASSUME NEW k \in Children, Obey(k) PROVE Joined'
  BY <1>16 DEF Obey, Exit, Becomes
<1>17. ASSUME NEW p \in Workers, Reserve(p) PROVE Joined'
  BY <1>17 DEF Reserve
<1>18. ASSUME NEW p \in Workers, Open(p) PROVE Joined'
  BY <1>18 DEF Open
<1>19. ASSUME ClosesAtExchange PROVE Joined'
  BY <1>19 DEF ClosesAtExchange
<1>20. ASSUME NEW p \in Settlers, Settle(p) PROVE Joined'
  BY <1>20 DEF Settle
<1>21. ASSUME NEW b \in Boundaries, Consult(b) PROVE Joined'
  BY <1>21 DEF Consult, Goes
<1>22. ASSUME NEW b \in Boundaries, Fetch(b) PROVE Joined'
  BY <1>22 DEF Fetch, Goes
<1>23. ASSUME NEW b \in Boundaries, TenSecondsPass(b) PROVE Joined'
  BY <1>23 DEF TenSecondsPass
<1>24. ASSUME NEW b \in Boundaries, Commit(b) PROVE Joined'
  BY <1>24 DEF Commit, Goes, NoEvidence
<1>25. CASE UNCHANGED runtimeVars
  BY <1>25 DEF runtimeVars
<1>26. QED
  BY <1>1, <1>2, <1>3, <1>4, <1>5, <1>6, <1>7, <1>8, <1>9, <1>10, <1>11, <1>12, <1>13, <1>14,
     <1>15, <1>16, <1>17, <1>18, <1>19, <1>20, <1>21, <1>22, <1>23, <1>24, <1>25
     DEF RuntimeNext, SupervisorStep, ChildStep, TradeStep, EpochStep

\* A supervisor does not go before its children are sent SIGKILL.
LEMMA CaredHolds == Types /\ Held /\ Cared /\ [RuntimeNext]_runtimeVars => Cared'
<1> SUFFICES ASSUME Types /\ Held /\ Cared, [RuntimeNext]_runtimeVars PROVE Cared'
  OBVIOUS
<1> USE RuntimeAssumption DEF Types, Held, Cared, Live, Gone, ChildStates, Signalled, Commands,
                              Children, ChildrenOf, Between, RuntimeStages, OperatorStages,
                              Exclusives, lockVars
<1>1. ASSUME NEW c \in Commands, Claim(c) PROVE Cared'
  BY <1>1 DEF Claim, Unclaimed, Goes
<1>2. ASSUME NEW c \in Commands, Own(c) PROVE Cared'
  BY <1>2 DEF Own, Free, Goes
<1>3. ASSUME NEW c \in Commands, Refused(c) PROVE Cared'
  BY <1>3 DEF Refused, Free, Goes
<1>4. ASSUME NEW c \in Commands, Serve(c) PROVE Cared'
  BY <1>4 DEF Serve, Free, Goes
<1>5. ASSUME NEW c \in Commands, Leave(c) PROVE Cared'
  BY <1>5 DEF Leave, Goes
<1>6. ASSUME NEW c \in Commands, Return(c) PROVE Cared'
  BY <1>6 DEF Return, Goes, Forget
<1>7. ASSUME NEW c \in Commands, Die(c) PROVE Cared'
  BY <1>7 DEF Die, Goes, Forget
<1>8. ASSUME NEW s \in Runtimes, Notice(s) PROVE Cared'
  BY <1>8 DEF Notice, Goes
<1>9. ASSUME NEW s \in Runtimes, Interrupt(s) PROVE Cared'
  BY <1>9 DEF Interrupt, Send, Goes
<1>10. ASSUME NEW s \in Runtimes, Terminate(s) PROVE Cared'
  BY <1>10 DEF Terminate, Send, Goes
<1>11. ASSUME NEW s \in Runtimes, Kill(s) PROVE Cared'
  BY <1>11 DEF Kill, SendKill, Send, Goes
<1>12. ASSUME NEW s \in Runtimes, Quit(s) PROVE Cared'
  BY <1>12 DEF Quit, Goes
<1>13. ASSUME NEW s \in Runtimes, NEW r \in Roles, StartChild(s, r) PROVE Cared'
  BY <1>13 DEF StartChild, Becomes, Goes
<1>14. ASSUME NEW k \in Children, Join(k) PROVE Cared'
  BY <1>14 DEF Join, Becomes
<1>15. ASSUME NEW k \in Children, Fail(k) PROVE Cared'
  BY <1>15 DEF Fail, Exit, Becomes
<1>16. ASSUME NEW k \in Children, Obey(k) PROVE Cared'
  BY <1>16 DEF Obey, Exit, Becomes
<1>17. ASSUME NEW p \in Workers, Reserve(p) PROVE Cared'
  BY <1>17 DEF Reserve
<1>18. ASSUME NEW p \in Workers, Open(p) PROVE Cared'
  BY <1>18 DEF Open
<1>19. ASSUME ClosesAtExchange PROVE Cared'
  BY <1>19 DEF ClosesAtExchange
<1>20. ASSUME NEW p \in Settlers, Settle(p) PROVE Cared'
  BY <1>20 DEF Settle
<1>21. ASSUME NEW b \in Boundaries, Consult(b) PROVE Cared'
  BY <1>21 DEF Consult, Goes
<1>22. ASSUME NEW b \in Boundaries, Fetch(b) PROVE Cared'
  BY <1>22 DEF Fetch, Goes
<1>23. ASSUME NEW b \in Boundaries, TenSecondsPass(b) PROVE Cared'
  BY <1>23 DEF TenSecondsPass
<1>24. ASSUME NEW b \in Boundaries, Commit(b) PROVE Cared'
  BY <1>24 DEF Commit, Goes, NoEvidence
<1>25. CASE UNCHANGED runtimeVars
  BY <1>25 DEF runtimeVars
<1>26. QED
  BY <1>1, <1>2, <1>3, <1>4, <1>5, <1>6, <1>7, <1>8, <1>9, <1>10, <1>11, <1>12, <1>13, <1>14,
     <1>15, <1>16, <1>17, <1>18, <1>19, <1>20, <1>21, <1>22, <1>23, <1>24, <1>25
     DEF RuntimeNext, SupervisorStep, ChildStep, TradeStep, EpochStep

\* Nobody trades between the evidence and the commit.
LEMMA ProvenHolds == Types /\ Held /\ Single /\ Proven /\ [RuntimeNext]_runtimeVars => Proven'
<1> SUFFICES ASSUME Types /\ Held /\ Single /\ Proven, [RuntimeNext]_runtimeVars PROVE Proven'
  OBVIOUS
<1> USE RuntimeAssumption DEF Types, Held, Single, Proven, Flat, Idle, Trading, Commands,
                              Exclusives, Between, RuntimeStages, OperatorStages, lockVars,
                              tradeVars, epochVars
<1>1. ASSUME NEW c \in Commands, Claim(c) PROVE Proven'
  BY <1>1 DEF Claim, Unclaimed, Goes
<1>2. ASSUME NEW c \in Commands, Own(c) PROVE Proven'
  BY <1>2 DEF Own, Free, Goes
<1>3. ASSUME NEW c \in Commands, Refused(c) PROVE Proven'
  BY <1>3 DEF Refused, Free, Goes
<1>4. ASSUME NEW c \in Commands, Serve(c) PROVE Proven'
  BY <1>4 DEF Serve, Free, Goes
<1>5. ASSUME NEW c \in Commands, Leave(c) PROVE Proven'
  BY <1>5 DEF Leave, Goes
<1>6. ASSUME NEW c \in Commands, Return(c) PROVE Proven'
  BY <1>6 DEF Return, Goes, Forget
<1>7. ASSUME NEW c \in Commands, Die(c) PROVE Proven'
  BY <1>7 DEF Die, Goes, Forget
<1>8. ASSUME NEW s \in Runtimes, Notice(s) PROVE Proven'
  BY <1>8 DEF Notice, Goes
<1>9. ASSUME NEW s \in Runtimes, Interrupt(s) PROVE Proven'
  BY <1>9 DEF Interrupt, Send, Goes
<1>10. ASSUME NEW s \in Runtimes, Terminate(s) PROVE Proven'
  BY <1>10 DEF Terminate, Send, Goes
<1>11. ASSUME NEW s \in Runtimes, Kill(s) PROVE Proven'
  BY <1>11 DEF Kill, SendKill, Send, Goes
<1>12. ASSUME NEW s \in Runtimes, Quit(s) PROVE Proven'
  BY <1>12 DEF Quit, Goes
<1>13. ASSUME NEW s \in Runtimes, NEW r \in Roles, StartChild(s, r) PROVE Proven'
  BY <1>13 DEF StartChild, Becomes, Goes
<1>14. ASSUME NEW k \in Children, Join(k) PROVE Proven'
  BY <1>14 DEF Join, Becomes
<1>15. ASSUME NEW k \in Children, Fail(k) PROVE Proven'
  BY <1>15 DEF Fail, Exit, Becomes
<1>16. ASSUME NEW k \in Children, Obey(k) PROVE Proven'
  BY <1>16 DEF Obey, Exit, Becomes
<1>17. ASSUME NEW p \in Workers, Reserve(p) PROVE Proven'
  BY <1>17 DEF Reserve
<1>18. ASSUME NEW p \in Workers, Open(p) PROVE Proven'
  BY <1>18 DEF Open
<1>19. ASSUME ClosesAtExchange PROVE Proven'
  BY <1>19 DEF ClosesAtExchange
<1>20. ASSUME NEW p \in Settlers, Settle(p) PROVE Proven'
  BY <1>20 DEF Settle
<1>21. ASSUME NEW b \in Boundaries, Consult(b) PROVE Proven'
  BY <1>21 DEF Consult, Goes
<1>22. ASSUME NEW b \in Boundaries, Fetch(b) PROVE Proven'
  BY <1>22 DEF Fetch, Goes
<1>23. ASSUME NEW b \in Boundaries, TenSecondsPass(b) PROVE Proven'
  BY <1>23 DEF TenSecondsPass
<1>24. ASSUME NEW b \in Boundaries, Commit(b) PROVE Proven'
  BY <1>24 DEF Commit, Goes, NoEvidence
<1>25. CASE UNCHANGED runtimeVars
  BY <1>25 DEF runtimeVars
<1>26. QED
  BY <1>1, <1>2, <1>3, <1>4, <1>5, <1>6, <1>7, <1>8, <1>9, <1>10, <1>11, <1>12, <1>13, <1>14,
     <1>15, <1>16, <1>17, <1>18, <1>19, <1>20, <1>21, <1>22, <1>23, <1>24, <1>25
     DEF RuntimeNext, SupervisorStep, ChildStep, TradeStep, EpochStep

\* A committed epoch is not committed again.
LEMMA OnceHolds == Types /\ Once /\ [RuntimeNext]_runtimeVars => Once'
<1> SUFFICES ASSUME Types, Once, [RuntimeNext]_runtimeVars PROVE Once'
  OBVIOUS
<1> USE RuntimeAssumption DEF Types, Once, epochVars
<1>1. ASSUME NEW b \in Boundaries, Commit(b) PROVE Once'
  BY <1>1 DEF Commit, Committed
<1>2. CASE UNCHANGED commits
  BY <1>2
<1>3. UNCHANGED commits \/ \E b \in Boundaries : Commit(b)
  BY DEF RuntimeNext, runtimeVars, Claim, Own, Refused, Serve, Leave, Return, Die,
         SupervisorStep, StartChild, Notice, Interrupt, Terminate, Kill, Quit,
         ChildStep, Join, Fail, Obey, Exit, TradeStep, Reserve, Open, ClosesAtExchange, Settle,
         EpochStep, Consult, Fetch, TenSecondsPass
<1>4. QED BY <1>1, <1>2, <1>3

\* Every step keeps the invariant.
LEMMA NextInv == Inv /\ [RuntimeNext]_runtimeVars => Inv'
BY TypesHold, HeldHolds, SingleHolds, JoinedHolds, CaredHolds, ProvenHolds, OnceHolds DEF Inv

-------------------------------------------------------------------------------
(* The theorems. *)

\* The inductive invariant holds in every reachable state, however many processes
\* contend for the locks.
THEOREM Invariance == RuntimeSpec => []Inv
<1>1. RuntimeInit => Inv
  BY InitInv
<1>2. Inv /\ [RuntimeNext]_runtimeVars => Inv'
  BY NextInv
<1>3. QED BY <1>1, <1>2, PTL DEF RuntimeSpec

\* Locks, stages, children, trade and evidence keep their types; the supervisor lock has
\* one holder at most.
THEOREM TypeCorrect == RuntimeSpec => []RuntimeTypeOK
<1>1. Inv => RuntimeTypeOK
  <2> SUFFICES ASSUME Inv PROVE RuntimeTypeOK
    OBVIOUS
  <2>1. CASE supervisorLock = {}
    BY <2>1, FS_EmptySet, RuntimeAssumption DEF Inv, Types, Held, ChildStates, RuntimeTypeOK
  <2>2. ASSUME NEW c \in supervisorLock PROVE RuntimeTypeOK
    <3>1. supervisorLock = {c}
      BY <2>2 DEF Inv, Single
    <3>2. Cardinality(supervisorLock) = 1
      BY <3>1, FS_Singleton
    <3>3. QED BY <3>2 DEF Inv, Types, Held, ChildStates, RuntimeTypeOK
  <2>3. QED BY <2>1, <2>2
<1>2. QED BY <1>1, Invariance, PTL

\* README.md:1198: the owned close and the risk epoch run without any other command, and
\* without any worker or monitor, also one that a killed supervisor has left behind.
THEOREM OperatorIsAlone == RuntimeSpec => []ExclusiveMeansAlone
<1>1. Inv => ExclusiveMeansAlone
  <2> SUFFICES ASSUME Inv, NEW c \in Commands, InCharge(c) PROVE Alone(c)
    BY DEF ExclusiveMeansAlone
  <2>1. c \in exclusive
    BY DEF Inv, Held, InCharge, OperatorStages
  <2>2. shared = {} /\ \A d \in exclusive : d = c
    BY <2>1 DEF Inv, Single
  <2>3. \A d \in Commands \ {c} : pc[d] \in Between
    BY <2>2, RuntimeAssumption
       DEF Inv, Held, Between, Commands, Exclusives, RuntimeStages, OperatorStages
  <2>4. \A k \in Children : Live(k) => child[k] = "starting" \/ k[2] = "observer"
    BY <2>2 DEF Inv, Joined
  <2>5. QED BY <2>3, <2>4 DEF Alone, Between
<1>2. QED BY <1>1, Invariance, PTL

\* README.md:814: as long as no supervisor is killed, the children that are alive and not
\* sent SIGKILL belong to one demo-run.
THEOREM OneSupervisorTrades == RuntimeSpec => []OneRuntimeTrades
<1>1. Inv => OneRuntimeTrades
  <2> SUFFICES ASSUME Inv, deaths = 0, NEW j \in Children, NEW k \in Children,
                      Live(j), Live(k), child[j] # "killed", child[k] # "killed"
               PROVE  j[1] = k[1]
    BY DEF OneRuntimeTrades
  <2>1. pc[j[1]] # "idle" /\ pc[k[1]] # "idle"
    BY DEF Inv, Cared
  <2>2. j[1] \in Commands \ Services /\ k[1] \in Commands \ Services
    BY RuntimeAssumption DEF Children, Commands
  <2>3. j[1] \in supervisorLock /\ k[1] \in supervisorLock
    BY <2>1, <2>2 DEF Inv, Held
  <2>4. QED BY <2>3 DEF Inv, Single
<1>2. QED BY <1>1, Invariance, PTL

\* README.md:1250: however often an epoch is tried, it moves the boundary once.
THEOREM EpochCommitsOnce == RuntimeSpec => []EpochOnce
<1>1. Inv => EpochOnce
  BY DEF Inv, Once, EpochOnce
<1>2. QED BY <1>1, Invariance, PTL

\* README.md:1216: an epoch starts with nothing reserved, nothing open and the equity of
\* that very moment.
THEOREM EpochsStartFlat == RuntimeSpec => EpochBoundaryIsFlat
<1>1. Inv /\ [RuntimeNext]_runtimeVars =>
        [commits' # commits => Idle /\ Flat /\ base' = equity]_runtimeVars
  <2> SUFFICES ASSUME Inv, [RuntimeNext]_runtimeVars, commits' # commits
               PROVE  Idle /\ Flat /\ base' = equity
    OBVIOUS
  <2>1. PICK b \in Boundaries : Commit(b)
    BY DEF RuntimeNext, runtimeVars, epochVars, Claim, Own, Refused, Serve, Leave, Return, Die,
           SupervisorStep, StartChild, Notice, Interrupt, Terminate, Kill, Quit,
           ChildStep, Join, Fail, Obey, Exit, TradeStep, Reserve, Open, ClosesAtExchange,
           Settle, EpochStep, Consult, Fetch, TenSecondsPass
  <2>2. evidence[b].equity = equity /\ Flat
    BY <2>1 DEF Commit, Inv, Proven
  <2>3. QED BY <2>1, <2>2 DEF Commit
<1>2. QED BY <1>1, Invariance, PTL DEF RuntimeSpec, EpochBoundaryIsFlat
===============================================================================
