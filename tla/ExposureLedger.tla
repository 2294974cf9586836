----------------------------- MODULE ExposureLedger -----------------------------
(***************************************************************************)
(* What the Demo lifecycle as a whole promises about risk, without saying  *)
(* how: an entry is offered to the market only under an active             *)
(* reservation, once; a reservation is released only when its entry can no *)
(* longer execute and nothing is held; a symbol has one reservation at a   *)
(* time.  README.md:285, 505 and 703 say so in prose.  DemoExecution       *)
(* implements it.  The theorems at the end say what the promise is good    *)
(* for, whatever the set of signals and the assignment of symbols.         *)
(***************************************************************************)
EXTENDS TLAPS

CONSTANTS Signals, SymbolOf

VARIABLES
  active,    \* signals with an active reservation
  settled,   \* signals whose reservation was released
  placed,    \* signals whose entry was ever placed
  offered,   \* signals whose entry may still execute
  held       \* signals of which some quantity is held

promise == <<active, settled, placed, offered, held>>

Vacant(symbol, taken) == \A s \in taken : SymbolOf[s] # symbol

Reserve(s) ==
  /\ s \notin active \cup settled
  /\ Vacant(SymbolOf[s], active)
  /\ active' = active \cup {s}
  /\ UNCHANGED <<settled, placed, offered, held>>

Place(s) ==
  /\ s \in active \ placed
  /\ placed' = placed \cup {s}
  /\ offered' = offered \cup {s}
  /\ UNCHANGED <<active, settled, held>>

\* A fill may leave a remainder that can still execute.
Fill(s) ==
  /\ s \in offered
  /\ held' = held \cup {s}
  /\ offered' \in {offered, offered \ {s}}
  /\ UNCHANGED <<active, settled, placed>>

Withdraw(s) ==
  /\ s \in offered
  /\ offered' = offered \ {s}
  /\ UNCHANGED <<active, settled, placed, held>>

Exit(s) ==
  /\ s \in held
  /\ held' = held \ {s}
  /\ UNCHANGED <<active, settled, placed, offered>>

\* The released reservation may give way to the reversal of its symbol.
Release(s) ==
  /\ s \in active \ (offered \cup held)
  /\ \/ active' = active \ {s}
     \/ \E t \in Signals \ (active \cup settled) :
          /\ SymbolOf[t] = SymbolOf[s]
          /\ active' = (active \ {s}) \cup {t}
  /\ settled' = settled \cup {s}
  /\ UNCHANGED <<placed, offered, held>>

Init ==
  /\ active = {} /\ settled = {} /\ placed = {}
  /\ offered = {} /\ held = {}

Next ==
  \E s \in Signals :
    Reserve(s) \/ Place(s) \/ Fill(s) \/ Withdraw(s) \/ Exit(s) \/ Release(s)

Spec == Init /\ [][Next]_promise

-------------------------------------------------------------------------------
\* What can execute, and what is held, is reserved.
Reserved == offered \cup held \subseteq active

\* At most one entry or position per symbol is at the exchange.
OneAtTheExchange ==
  \A s, t \in offered \cup held : SymbolOf[s] = SymbolOf[t] => s = t

\* A released reservation is never active again and never comes back to the market.
SettledForGood ==
  /\ active \cap settled = {}
  /\ (offered \cup held) \cap settled = {}

-------------------------------------------------------------------------------
\* Nothing else keeps two entries of a symbol apart.
Exclusive == \A s, t \in active : SymbolOf[s] = SymbolOf[t] => s = t

\* The inductive invariant: the reservations exclude each other, none of them was
\* released before, and whatever is at the exchange has one.
Inv ==
  /\ active \subseteq Signals
  /\ Exclusive
  /\ active \cap settled = {}
  /\ Reserved

LEMMA InitInv == Init => Inv
BY DEF Init, Inv, Exclusive, Reserved

LEMMA NextInv == Inv /\ [Next]_promise => Inv'
<1> SUFFICES ASSUME Inv, [Next]_promise PROVE Inv'
  OBVIOUS
<1> USE DEF Inv
<1>1. CASE UNCHANGED promise
  BY <1>1 DEF promise, Exclusive, Reserved
<1>2. ASSUME NEW s \in Signals, Reserve(s) PROVE Inv'
  BY <1>2 DEF Reserve, Vacant, Exclusive, Reserved
<1>3. ASSUME NEW s \in Signals, Place(s) PROVE Inv'
  BY <1>3 DEF Place, Exclusive, Reserved
<1>4. ASSUME NEW s \in Signals, Fill(s) PROVE Inv'
  BY <1>4 DEF Fill, Exclusive, Reserved
<1>5. ASSUME NEW s \in Signals, Withdraw(s) PROVE Inv'
  BY <1>5 DEF Withdraw, Exclusive, Reserved
<1>6. ASSUME NEW s \in Signals, Exit(s) PROVE Inv'
  BY <1>6 DEF Exit, Exclusive, Reserved
<1>7. ASSUME NEW s \in Signals, Release(s) PROVE Inv'
  <2>1. CASE active' = active \ {s}
    BY <1>7, <2>1 DEF Release, Exclusive, Reserved
  <2>2. ASSUME NEW t \in Signals \ (active \cup settled),
               SymbolOf[t] = SymbolOf[s], active' = (active \ {s}) \cup {t}
        PROVE  Inv'
    <3>1. Exclusive'
      BY <1>7, <2>2 DEF Release, Exclusive
    <3>2. (active \cap settled = {})'
      BY <1>7, <2>2 DEF Release
    <3>3. Reserved'
      BY <1>7, <2>2 DEF Release, Reserved
    <3>4. QED BY <2>2, <3>1, <3>2, <3>3
  <2>3. QED BY <1>7, <2>1, <2>2 DEF Release
<1>8. QED
  BY <1>1, <1>2, <1>3, <1>4, <1>5, <1>6, <1>7 DEF Next

\* Whatever order the steps of the lifecycle come in, an entry that may execute and
\* a position that is held keep their reservation.
THEOREM RiskCoversExposure == Spec => []Reserved
<1>1. Inv => Reserved
  BY DEF Inv
<1>2. QED BY <1>1, InitInv, NextInv, PTL DEF Spec

\* The two directions of a symbol, or two entries in one direction, never meet at the
\* exchange, although only reservations exclude each other.
THEOREM OneExposure == Spec => []OneAtTheExchange
<1>1. Inv => OneAtTheExchange
  BY DEF Inv, Exclusive, Reserved, OneAtTheExchange
<1>2. QED BY <1>1, InitInv, NextInv, PTL DEF Spec

\* A released reservation stays released, and its entry stays away from the market.
THEOREM ReleaseIsFinal == Spec => []SettledForGood
<1>1. Inv => SettledForGood
  BY DEF Inv, Reserved, SettledForGood
<1>2. QED BY <1>1, InitInv, NextInv, PTL DEF Spec
===============================================================================
