--------------------------- MODULE RiskEngineProofs ---------------------------
(*****************************************************************************)
(* Theorems of RiskEngine for every set of signals and symbols, every set    *)
(* of equity marks and instants, and every length of a day and of an entry.  *)
(*                                                                           *)
(* The first part proves what is true of the book (Sound), the second what   *)
(* is true of the decisions: every command is followed in two strides, its   *)
(* prelude (PreludeShape) and its own handler, which changes the book in one *)
(* of few ways (Handled).  The last part says what a command may move, for   *)
(* the proofs of the Demo lifecycle.                                         *)
(*****************************************************************************)
EXTENDS RiskEngine, FiniteSetTheorems, FiniteSetFacts, TLAPS

-------------------------------------------------------------------------------
(* The invariant, as a predicate of any book so that it can be followed     *)
(* through the intermediate books of one command.                           *)

Exclusive(b) ==
  \A s, t \in Active(b) : SymbolOf[s] = SymbolOf[t] => s = t

ReversalLive(b, y) ==
  b.reversal_intents[y] # NoReversal =>
    /\ b.mode = "active"
    /\ SymbolOf[b.reversal_intents[y].closing] = y
    /\ SymbolOf[b.reversal_intents[y].signal] = y
    /\ DirectionOf[b.reversal_intents[y].closing] # DirectionOf[b.reversal_intents[y].signal]
    /\ Status(b, b.reversal_intents[y].closing) \in {"pending", "close_requested"}
    /\ Status(b, b.reversal_intents[y].signal) = "absent"

Flat(b) == b.mode = "killed" => \A s \in Signals : Status(b, s) # "filled"

Capped(b) == IsFiniteSet(Active(b)) /\ Cardinality(Active(b)) <= MaxReservations

Sound(b) ==
  /\ b \in Book
  /\ Exclusive(b)
  /\ \A y \in Symbols : ReversalLive(b, y)
  /\ Flat(b)
  /\ Capped(b)

-------------------------------------------------------------------------------
(* What the operators of the model return. *)

\* A day and a week index is an integer.
LEMMA PeriodType ==
  ASSUME NEW t \in Times
  PROVE  DayOf(t) \in Int /\ WeekOf(t) \in Int
<1>1. t \in Int /\ DayLength \in Int /\ DayLength > 0 /\ 7 * DayLength \in Int /\ 7 * DayLength > 0
  BY MarkAssumption
<1>2. QED BY <1>1 DEF DayOf, WeekOf

\* An instant is an integer and so is the life of an entry.
LEMMA TimeType ==
  /\ \A t \in Times : t \in Int
  /\ PendingTTL \in Int
BY MarkAssumption

\* Fresh boundaries are a well-formed account.
LEMMA RebasedType ==
  ASSUME NEW now \in Times, NEW equity \in Equities, NEW epoch \in 0..MaxEpoch
  PROVE  Rebased(now, equity, epoch) \in Account
BY PeriodType DEF Rebased, Account

\* Marking an account, and latching its halts, gives a well-formed account.
LEMMA MarkedType ==
  ASSUME NEW a \in Account, NEW now \in Times, NEW equity \in Equities
  PROVE  Marked(a, now, equity) \in Account
BY PeriodType DEF Marked, Peak, Account

\* Latching the halts of an account gives a well-formed account.
LEMMA LatchedType ==
  ASSUME NEW a \in Account
  PROVE  Latched(a) \in Account
BY DEF Latched, Account, KillReached, LossReaches

\* Changing the status of one reservation changes nothing else.
LEMMA WithStatusFacts ==
  ASSUME NEW b \in Book, NEW s \in Signals, NEW status \in Statuses
  PROVE  LET c == WithStatus(b, s, status)
         IN  /\ c \in Book
             /\ c.mode = b.mode
             /\ c.reversal_intents = b.reversal_intents
             /\ Status(c, s) = status
             /\ \A t \in Signals \ {s} : Status(c, t) = Status(b, t)
BY DEF WithStatus, Book, Reservation, Status

\* Dropping the reversal of one symbol leaves the other reversals alone.
LEMMA WithoutReversalFacts ==
  ASSUME NEW b \in Book, NEW y \in Symbols
  PROVE  LET c == WithoutReversal(b, y)
         IN  /\ c \in Book
             /\ c.mode = b.mode
             /\ c.reservations = b.reservations
             /\ c.reversal_intents[y] = NoReversal
             /\ \A z \in Symbols \ {y} : c.reversal_intents[z] = b.reversal_intents[z]
BY DEF WithoutReversal, Book

\* The projected risk of a signal is a natural number.
LEMMA ProjectedRiskType ==
  ASSUME NEW equity \in Equities, NEW s \in Signals
  PROVE  ProjectedRisk(equity, s) \in Nat
<1> DEFINE rate == IF 2 * TradePercentX10 < CombinedRate[s] THEN 2 * TradePercentX10 ELSE CombinedRate[s]
<1>1. rate \in Nat /\ equity \in Nat
  BY SignalAssumption, MarkAssumption DEF TradePercentX10
<1>2. ProjectedRisk(equity, s) = equity * rate
  BY DEF ProjectedRisk
<1> HIDE DEF rate
<1>3. QED BY <1>1, <1>2

\* The expiry an entry is given is an instant.
LEMMA EntryExpiryType ==
  ASSUME NEW a \in Account, NEW expiry \in Int
  PROVE  EntryExpiry(a, expiry) \in Int
<1>1. a.as_of \in Times
  BY DEF Account
<1>2. a.as_of \in Int /\ PendingTTL \in Int
  BY <1>1, TimeType
<1>3. a.as_of + PendingTTL \in Int
  BY <1>2
<1>4. QED BY <1>3 DEF EntryExpiry

\* Admission adds one pending reservation and changes nothing else.
LEMMA AdmittedFacts ==
  ASSUME NEW a \in Account, NEW b \in Book, NEW s \in Signals, NEW expiry \in Int
  PROVE  LET c == Admitted(a, b, s, expiry)
         IN  /\ c \in Book
             /\ c.mode = b.mode
             /\ c.reversal_intents = b.reversal_intents
             /\ Status(c, s) = "pending"
             /\ \A t \in Signals \ {s} : Status(c, t) = Status(b, t)
<1>1. EntryExpiry(a, expiry) \in Int
  BY EntryExpiryType
<1>2. ProjectedRisk(a.equity, s) \in Nat
  BY ProjectedRiskType DEF Account
<1>3. QED
  BY <1>1, <1>2 DEF Admitted, Book, Reservation, Statuses, Open, Status

\* The circuit breakers keep a well-formed book and the set of active
\* reservations; they only drop reversals, close positions and set the mode.
LEMMA GuardedFacts ==
  ASSUME NEW a \in Account, NEW b \in Book
  PROVE  LET c == Guarded(b, a)
         IN  /\ c \in Book
             /\ Active(c) = Active(b)
             /\ c.mode = "killed" => c = b \/ c = Killed(b)
             /\ c.mode # "active" => c = b \/ c.reversal_intents = NoReversals
             /\ \A s \in Signals :
                  \/ Status(c, s) = Status(b, s)
                  \/ Status(b, s) = "filled" /\ Status(c, s) = "close_requested"
             /\ c.reversal_intents \in {b.reversal_intents, NoReversals}
<1> DEFINE c == Guarded(b, a)
<1>1. /\ Killed(b) \in Book
      /\ Killed(b).mode = "killed"
      /\ Killed(b).reversal_intents = NoReversals
      /\ \A s \in Signals : Status(Killed(b), s) =
            (IF Status(b, s) = "filled" THEN "close_requested" ELSE Status(b, s))
  <2>1. NoReversals \in [Symbols -> Reversal \cup {NoReversal}]
    BY DEF NoReversals
  <2> DEFINE closed == [s \in Signals |->
               IF b.reservations[s].status = "filled"
               THEN [b.reservations[s] EXCEPT !.status = "close_requested"]
               ELSE b.reservations[s]]
  <2>2. b.reservations \in [Signals -> Reservation] /\ b \in Book
    BY DEF Book
  <2>3. \A s \in Signals : closed[s] \in Reservation /\ closed[s].status =
            (IF b.reservations[s].status = "filled" THEN "close_requested" ELSE b.reservations[s].status)
    BY <2>2 DEF Reservation, Statuses, Open
  <2>4. closed \in [Signals -> Reservation]
    BY <2>3
  <2>5. Killed(b) = [b EXCEPT !.mode = "killed", !.reversal_intents = NoReversals,
                              !.reservations = closed]
    BY DEF Killed
  <2> HIDE DEF closed
  <2>6. QED BY <2>1, <2>2, <2>3, <2>4, <2>5 DEF Book, Modes, Status
<1>2. /\ Paused(b) \in Book
      /\ Paused(b).mode = "entry_paused"
      /\ Paused(b).reversal_intents = NoReversals
      /\ Paused(b).reservations = b.reservations
  BY DEF Paused, Book, Modes, NoReversals
<1>3. /\ [b EXCEPT !.mode = "active"] \in Book
      /\ [b EXCEPT !.mode = "active"].mode = "active"
      /\ [b EXCEPT !.mode = "active"].reservations = b.reservations
      /\ [b EXCEPT !.mode = "active"].reversal_intents = b.reversal_intents
  BY DEF Book, Modes
<1>4. /\ KillReached(a) \in BOOLEAN
      /\ Halted(a) \in BOOLEAN
  BY DEF KillReached, Halted, LossReaches, Account
<1>5. \/ c = b
      \/ c = Killed(b)
      \/ c = Paused(b)
      \/ c = [b EXCEPT !.mode = "active"]
  BY <1>4 DEF Guarded
<1>6. \A s \in Signals :
         \/ Status(c, s) = Status(b, s)
         \/ Status(b, s) = "filled" /\ Status(c, s) = "close_requested"
  BY <1>1, <1>2, <1>3, <1>5 DEF Status
<1>7. Active(c) = Active(b)
  BY <1>6 DEF Active, Open
<1>8. QED
  BY <1>1, <1>2, <1>3, <1>5, <1>6, <1>7

\* The circuit breakers keep a sound book sound.
LEMMA GuardedSound ==
  ASSUME NEW a \in Account, NEW b, Sound(b)
  PROVE  Sound(Guarded(b, a)) /\ Active(Guarded(b, a)) = Active(b)
<1> DEFINE c == Guarded(b, a)
<1>1. b \in Book BY DEF Sound
<1>2. /\ c \in Book
      /\ Active(c) = Active(b)
      /\ c.mode = "killed" => c = b \/ c = Killed(b)
      /\ c.mode # "active" => c = b \/ c.reversal_intents = NoReversals
      /\ \A s \in Signals :
           \/ Status(c, s) = Status(b, s)
           \/ Status(b, s) = "filled" /\ Status(c, s) = "close_requested"
      /\ c.reversal_intents \in {b.reversal_intents, NoReversals}
  BY <1>1, GuardedFacts
<1> HIDE DEF c
<1>3. Exclusive(c) /\ Capped(c)
  BY <1>2 DEF Sound, Exclusive, Capped
<1>4. Flat(c)
  <2>1. CASE c = b BY <2>1 DEF Sound
  <2>2. CASE c = Killed(b)
    <3>1. \A s \in Signals : Status(c, s) # "filled"
      BY <2>2, <1>1 DEF Killed, Book, Reservation, Status
    <3>2. QED BY <3>1 DEF Flat
  <2>3. CASE c.mode # "killed" BY <2>3 DEF Flat
  <2>4. QED BY <1>2, <2>1, <2>2, <2>3
<1>5. ASSUME NEW y \in Symbols PROVE ReversalLive(c, y)
  <2>1. CASE c = b BY <2>1 DEF Sound
  <2>2. CASE c.reversal_intents = NoReversals
    BY <2>2 DEF ReversalLive, NoReversals
  <2>3. CASE c # b /\ c.reversal_intents # NoReversals
    <3>1. c.mode = "active" /\ c.reversal_intents = b.reversal_intents
      BY <2>3, <1>2
    <3>2. ReversalLive(b, y) BY DEF Sound
    <3>3. SUFFICES ASSUME c.reversal_intents[y] # NoReversal PROVE ReversalLive(c, y)
      BY DEF ReversalLive
    <3>4. b.reversal_intents[y] \in Reversal
      BY <3>1, <3>3, <1>1 DEF Book
    <3>5. /\ Status(c, b.reversal_intents[y].closing) = Status(b, b.reversal_intents[y].closing)
          /\ Status(c, b.reversal_intents[y].signal) = Status(b, b.reversal_intents[y].signal)
      BY <1>2, <3>1, <3>2, <3>3, <3>4 DEF ReversalLive, Reversal
    <3>6. QED BY <3>1, <3>2, <3>3, <3>5 DEF ReversalLive
  <2>4. QED BY <2>1, <2>2, <2>3
<1>6. QED BY <1>2, <1>3, <1>4, <1>5 DEF Sound, c

\* What the handlers of a command find is well formed and sound.
LEMMA PreludeSound ==
  ASSUME account \in Account, Sound(book),
         NEW now \in Times, NEW mark \in Equities \cup {NoMark}
  PROVE  LET pre == Prelude(now, mark)
         IN  /\ pre.account \in Account
             /\ Sound(pre.book)
             /\ pre.actions \subseteq Actions
<1>1. \A s \in Signals : Act("cancel", s) \in Actions /\ Act("close", s) \in Actions
  BY DEF Act, Actions
<1>2. /\ \A b : InStatus(b, "pending") \subseteq Signals
      /\ \A b : InStatus(b, "filled") \subseteq Signals
  BY DEF InStatus
<1>3. /\ ExpiryCancels(book, now) \subseteq Actions
      /\ \A a : BreakerActions(book, a) \subseteq Actions
  BY <1>1, <1>2 DEF ExpiryCancels, BreakerActions, CancelAll, CloseAll
<1>4. CASE mark = NoMark
  <2>1. [account EXCEPT !.as_of = now] \in Account
    BY DEF Account
  <2>2. QED BY <1>3, <1>4, <2>1 DEF Prelude
<1>5. CASE mark # NoMark
  <2> DEFINE m == Marked(account, now, mark)
             a == IF book.mode = "killed" THEN m ELSE Latched(m)
  <2>1. m \in Account
    BY <1>5, MarkedType
  <2>2. a \in Account
    BY <2>1, LatchedType
  <2>3. Prelude(now, mark) = [account |-> a, book |-> Guarded(book, a),
           actions |-> ExpiryCancels(book, now) \cup BreakerActions(book, a)]
    BY <1>5 DEF Prelude
  <2> HIDE DEF a, m
  <2>4. Sound(Guarded(book, a))
    BY <2>2, GuardedSound
  <2>5. QED BY <1>3, <2>2, <2>3, <2>4
<1>6. QED BY <1>4, <1>5

\* Admitting a signal without exposure on its symbol keeps a sound book sound.
LEMMA AdmittedSound ==
  ASSUME NEW a \in Account, NEW b, Sound(b), NEW p \in Signals, NEW expiry \in Int,
         Status(b, p) = "absent",
         ActiveOn(b, SymbolOf[p]) = {},
         b.reversal_intents[SymbolOf[p]] = NoReversal,
         b.mode = "active",
         Cardinality(Active(b)) < MaxReservations
  PROVE  Sound(Admitted(a, b, p, expiry))
<1> DEFINE c == Admitted(a, b, p, expiry)
<1>1. b \in Book BY DEF Sound
<1>2. /\ c \in Book
      /\ c.mode = b.mode
      /\ c.reversal_intents = b.reversal_intents
      /\ Status(c, p) = "pending"
      /\ \A t \in Signals \ {p} : Status(c, t) = Status(b, t)
  BY <1>1, AdmittedFacts
<1> HIDE DEF c
<1>3. Active(c) = Active(b) \cup {p} /\ p \notin Active(b)
  BY <1>2 DEF Active, Open
<1>4. Exclusive(c)
  BY <1>3 DEF Exclusive, Sound, ActiveOn
<1>5. Flat(c)
  BY <1>2 DEF Flat
<1>6. Capped(c)
  <2>1. IsFiniteSet(Active(b)) BY DEF Sound, Capped
  <2>2. /\ IsFiniteSet(Active(c))
        /\ Cardinality(Active(c)) = Cardinality(Active(b)) + 1
    BY <1>3, <2>1, FS_AddElement
  <2>3. Cardinality(Active(b)) \in Nat
    BY <2>1, FS_CardinalityType
  <2>4. QED BY <2>2, <2>3 DEF Capped, MaxReservations
<1>7. ASSUME NEW y \in Symbols PROVE ReversalLive(c, y)
  <2>1. SUFFICES ASSUME c.reversal_intents[y] # NoReversal PROVE ReversalLive(c, y)
    BY DEF ReversalLive
  <2>2. y # SymbolOf[p] /\ ReversalLive(b, y)
    BY <1>2, <2>1 DEF Sound
  <2>3. b.reversal_intents[y] \in Reversal
    BY <1>1, <1>2, <2>1 DEF Book
  <2>4. /\ b.reversal_intents[y].closing \in Signals \ {p}
        /\ b.reversal_intents[y].signal \in Signals \ {p}
    BY <1>2, <2>1, <2>2, <2>3 DEF ReversalLive, Reversal
  <2>5. QED BY <1>2, <2>1, <2>2, <2>4 DEF ReversalLive
<1>8. QED BY <1>2, <1>4, <1>5, <1>6, <1>7 DEF Sound, c

\* Releasing the one reservation of a symbol, and with it the reversal that
\* waited there, keeps a sound book sound and leaves the symbol without exposure.
LEMMA ReleasedSound ==
  ASSUME NEW b, Sound(b), NEW s \in Signals, s \in Active(b),
         NEW c \in Book,
         c.mode = b.mode,
         Status(c, s) \in Released,
         \A t \in Signals \ {s} : Status(c, t) = Status(b, t),
         c.reversal_intents[SymbolOf[s]] = NoReversal,
         \A z \in Symbols \ {SymbolOf[s]} : c.reversal_intents[z] = b.reversal_intents[z]
  PROVE  /\ Sound(c)
         /\ ActiveOn(c, SymbolOf[s]) = {}
<1>1. Active(c) = Active(b) \ {s}
  BY DEF Active, Open, Released
<1>2. Exclusive(c) /\ ActiveOn(c, SymbolOf[s]) = {}
  BY <1>1 DEF Exclusive, ActiveOn, Sound
<1>3. Flat(c)
  BY DEF Flat, Sound, Released
<1>4. Capped(c)
  <2>1. IsFiniteSet(Active(b)) BY DEF Sound, Capped
  <2>2. /\ IsFiniteSet(Active(c))
        /\ Cardinality(Active(c)) = Cardinality(Active(b)) - 1
    BY <1>1, <2>1, FS_RemoveElement
  <2>3. Cardinality(Active(b)) \in Nat
    BY <2>1, FS_CardinalityType
  <2>4. QED BY <2>2, <2>3 DEF Capped, MaxReservations, Sound
<1>5. ASSUME NEW y \in Symbols PROVE ReversalLive(c, y)
  <2>1. SUFFICES ASSUME c.reversal_intents[y] # NoReversal PROVE ReversalLive(c, y)
    BY DEF ReversalLive
  <2>2. y # SymbolOf[s] /\ c.reversal_intents[y] = b.reversal_intents[y]
    BY <2>1
  <2>3. ReversalLive(b, y) /\ c.reversal_intents[y] \in Reversal
    BY <2>1 DEF Sound, Book
  <2>4. /\ b.reversal_intents[y].closing \in Signals \ {s}
        /\ b.reversal_intents[y].signal \in Signals \ {s}
    BY <2>1, <2>2, <2>3 DEF ReversalLive, Reversal
  <2>5. QED BY <2>1, <2>2, <2>3, <2>4 DEF ReversalLive
<1>6. QED BY <1>2, <1>3, <1>4, <1>5 DEF Sound

\* What a release leaves, before the reversal that waited for it is looked at, and
\* what that reversal is: one whose signal nothing owns.
LEMMA ReleaseFacts ==
  ASSUME NEW a \in Account, NEW b, Sound(b), NEW s \in Signals, s \in Active(b),
         NEW status \in Released
  PROVE  LET gone == WithStatus(b, s, status)
             y == SymbolOf[s]
             rest == WithoutReversal(gone, y)
             reversal == gone.reversal_intents[y]
         IN  /\ Sound(rest) /\ ActiveOn(rest, y) = {}
             /\ rest.reversal_intents[y] = NoReversal
             /\ gone \in Book /\ gone.reversal_intents = b.reversal_intents
             /\ ~WaitsFor(gone, s) => Sound(gone)
             /\ reversal # NoReversal =>
                  /\ reversal \in Reversal
                  /\ reversal.closing = s
                  /\ SymbolOf[reversal.signal] = y
                  /\ Status(b, reversal.signal) = "absent"
                  /\ Status(rest, reversal.signal) = "absent"
<1> DEFINE gone == WithStatus(b, s, status)
           y == SymbolOf[s]
           rest == WithoutReversal(gone, y)
           reversal == gone.reversal_intents[y]
<1>1. b \in Book /\ status \in Statuses /\ y \in Symbols
  BY SignalAssumption DEF Sound, Statuses
<1>2. /\ gone \in Book
      /\ gone.mode = b.mode
      /\ gone.reversal_intents = b.reversal_intents
      /\ Status(gone, s) = status
      /\ \A t \in Signals \ {s} : Status(gone, t) = Status(b, t)
  BY <1>1, WithStatusFacts
<1>3. /\ rest \in Book
      /\ rest.mode = b.mode
      /\ rest.reservations = gone.reservations
      /\ rest.reversal_intents[y] = NoReversal
      /\ \A z \in Symbols \ {y} : rest.reversal_intents[z] = b.reversal_intents[z]
  BY <1>1, <1>2, WithoutReversalFacts
<1>4. WaitsFor(gone, s) <=> reversal # NoReversal /\ reversal.closing = s
  BY DEF WaitsFor
<1> HIDE DEF gone, rest
<1>5. \A t \in Signals : Status(rest, t) = Status(gone, t)
  BY <1>3 DEF Status
<1>6. Sound(rest) /\ ActiveOn(rest, y) = {}
  BY <1>1, <1>2, <1>3, <1>5, ReleasedSound
<1>7. reversal # NoReversal =>
         /\ reversal \in Reversal
         /\ reversal.closing = s
         /\ SymbolOf[reversal.signal] = y
         /\ Status(b, reversal.signal) = "absent"
         /\ Status(rest, reversal.signal) = "absent"
  <2>1. SUFFICES ASSUME reversal # NoReversal
                 PROVE  /\ reversal \in Reversal
                        /\ reversal.closing = s
                        /\ SymbolOf[reversal.signal] = y
                        /\ Status(b, reversal.signal) = "absent"
                        /\ Status(rest, reversal.signal) = "absent"
    OBVIOUS
  <2>2. reversal \in Reversal /\ ReversalLive(b, y) /\ reversal = b.reversal_intents[y]
    BY <1>1, <1>2, <2>1 DEF Book, Sound
  <2>3. reversal.closing \in Active(b) /\ SymbolOf[reversal.closing] = y
    BY <2>1, <2>2 DEF ReversalLive, Active, Open, Reversal
  <2>4. reversal.closing = s
    BY <2>3 DEF Sound, Exclusive
  <2>5. reversal.signal \in Signals \ {s} /\ Status(b, reversal.signal) = "absent"
    BY <2>1, <2>2 DEF ReversalLive, Active, Open, Reversal
  <2>6. QED BY <1>2, <1>5, <2>1, <2>2, <2>4, <2>5 DEF ReversalLive
<1>8. ~WaitsFor(gone, s) => Sound(gone)
  <2>1. ~WaitsFor(gone, s) => gone.reversal_intents[y] = NoReversal
    BY <1>4, <1>7
  <2>2. QED BY <1>2, <2>1, ReleasedSound
<1>9. QED BY <1>2, <1>3, <1>6, <1>7, <1>8 DEF gone, rest

\* A release, with the reversal it lets in if there is one, keeps a sound book
\* sound: the new reservation takes the place of the released one.
LEMMA AfterReleaseSound ==
  ASSUME NEW a \in Account, NEW b, Sound(b), NEW s \in Signals, s \in Active(b),
         NEW status \in Released
  PROVE  LET gone == WithStatus(b, s, status)
         IN  /\ Sound(AfterRelease(a, gone, s))
             /\ ReleaseActions(a, gone, s) \subseteq Actions
<1> DEFINE gone == WithStatus(b, s, status)
           y == SymbolOf[s]
           rest == WithoutReversal(gone, y)
           reversal == gone.reversal_intents[y]
<1>1. /\ Sound(rest) /\ ActiveOn(rest, y) = {}
      /\ rest.reversal_intents[y] = NoReversal
      /\ ~WaitsFor(gone, s) => Sound(gone)
      /\ reversal # NoReversal =>
           /\ reversal \in Reversal
           /\ SymbolOf[reversal.signal] = y
           /\ Status(rest, reversal.signal) = "absent"
  BY ReleaseFacts
<1>2. /\ AfterRelease(a, gone, s) =
           IF ReversalAdmitted(a, gone, s)
           THEN Admitted(a, rest, reversal.signal, reversal.entry_expires_at)
           ELSE IF WaitsFor(gone, s) THEN rest ELSE gone
      /\ ReleaseActions(a, gone, s) =
           IF ReversalAdmitted(a, gone, s) THEN {Act("create", reversal.signal)} ELSE {}
  BY DEF AfterRelease, ReleaseActions
<1>3. ReversalAdmitted(a, gone, s) =>
        /\ reversal # NoReversal
        /\ rest.mode = "active"
        /\ Cardinality(Active(rest)) < MaxReservations
  BY DEF ReversalAdmitted, WaitsFor, Admissible
<1> HIDE DEF gone, rest
<1>4. CASE ReversalAdmitted(a, gone, s)
  <2>1. /\ reversal.signal \in Signals
        /\ reversal.entry_expires_at \in Int
        /\ SymbolOf[reversal.signal] = y
        /\ Status(rest, reversal.signal) = "absent"
    BY <1>1, <1>3, <1>4 DEF Reversal
  <2>2. Sound(Admitted(a, rest, reversal.signal, reversal.entry_expires_at))
    BY <1>1, <1>3, <1>4, <2>1, AdmittedSound
  <2>3. Act("create", reversal.signal) \in Actions
    BY <2>1 DEF Act, Actions
  <2>4. QED BY <1>2, <1>4, <2>2, <2>3 DEF gone
<1>5. CASE ~ReversalAdmitted(a, gone, s)
  BY <1>1, <1>2, <1>5 DEF gone
<1>6. QED BY <1>4, <1>5

\* Moving an active reservation on to filled, when neither the kill switch nor a
\* reversal wants it out, or to close_requested, keeps a sound book sound.
LEMMA ForwardSound ==
  ASSUME NEW b, Sound(b), NEW s \in Signals, s \in Active(b),
         NEW status \in {"filled", "close_requested"},
         status = "filled" => ~MustClose(b, s)
  PROVE  Sound(WithStatus(b, s, status))
<1> DEFINE c == WithStatus(b, s, status)
<1>1. b \in Book /\ status \in Statuses
  BY DEF Sound, Statuses, Open
<1>2. /\ c \in Book
      /\ c.mode = b.mode
      /\ c.reversal_intents = b.reversal_intents
      /\ Status(c, s) = status
      /\ \A t \in Signals \ {s} : Status(c, t) = Status(b, t)
  BY <1>1, WithStatusFacts
<1> HIDE DEF c
<1>3. Active(c) = Active(b)
  BY <1>2 DEF Active, Open
<1>4. Exclusive(c) /\ Capped(c)
  BY <1>3 DEF Exclusive, Capped, Sound
<1>5. Flat(c)
  BY <1>2 DEF Flat, Sound, MustClose
<1>6. ASSUME NEW y \in Symbols PROVE ReversalLive(c, y)
  <2>1. SUFFICES ASSUME c.reversal_intents[y] # NoReversal PROVE ReversalLive(c, y)
    BY DEF ReversalLive
  <2>2. ReversalLive(b, y) /\ b.reversal_intents[y] \in Reversal
    BY <1>1, <1>2, <2>1 DEF Sound, Book
  <2>3. b.reversal_intents[y].signal \in Signals \ {s}
    BY <1>2, <2>1, <2>2 DEF ReversalLive, Reversal, Active, Open
  <2>4. b.reversal_intents[y].closing = s => status = "close_requested"
    BY <1>2, <2>1, <2>2 DEF MustClose, WaitsFor, ReversalLive
  <2>5. Status(c, b.reversal_intents[y].closing) \in {"pending", "close_requested"}
    BY <1>2, <2>1, <2>2, <2>4 DEF ReversalLive, Reversal
  <2>6. QED BY <1>2, <2>1, <2>2, <2>3, <2>5 DEF ReversalLive
<1>7. QED BY <1>2, <1>4, <1>5, <1>6 DEF Sound, c

\* Staging a reversal behind an opposite reservation on its way out is sound.
LEMMA StagedSound ==
  ASSUME NEW b, Sound(b), NEW p \in Signals, NEW s \in ActiveOn(b, SymbolOf[p]),
         NEW expiry \in Int,
         b.mode = "active",
         Status(b, p) = "absent",
         DirectionOf[s] # DirectionOf[p],
         Status(b, s) \in {"pending", "close_requested"}
  PROVE  Sound(Staged(b, s, p, expiry))
<1> DEFINE c == Staged(b, s, p, expiry)
           y == SymbolOf[p]
           r == [closing |-> s, signal |-> p, entry_expires_at |-> expiry]
<1>1. b \in Book /\ y \in Symbols /\ s \in Signals /\ SymbolOf[s] = y
  BY SignalAssumption DEF Sound, ActiveOn, Active
<1>2. r \in Reversal /\ r.closing = s /\ r.signal = p
  BY <1>1 DEF Reversal
<1>3. c = [b EXCEPT !.reversal_intents[y] = r]
  BY DEF Staged
<1> HIDE DEF r, c
<1>4. /\ c \in Book
      /\ c.mode = b.mode
      /\ c.reservations = b.reservations
      /\ c.reversal_intents[y] = r
      /\ \A z \in Symbols \ {y} : c.reversal_intents[z] = b.reversal_intents[z]
  BY <1>1, <1>2, <1>3 DEF Book
<1>5. \A t \in Signals : Status(c, t) = Status(b, t)
  BY <1>4 DEF Status
<1>6. Active(c) = Active(b)
  BY <1>5 DEF Active
<1>7. Exclusive(c) /\ Capped(c) /\ Flat(c)
  BY <1>4, <1>5, <1>6 DEF Exclusive, Capped, Flat, Sound
<1>8. ASSUME NEW z \in Symbols PROVE ReversalLive(c, z)
  <2>1. CASE z = y
    BY <1>1, <1>2, <1>4, <1>5, <2>1 DEF ReversalLive
  <2>2. CASE z # y
    <3>1. SUFFICES ASSUME c.reversal_intents[z] # NoReversal PROVE ReversalLive(c, z)
      BY DEF ReversalLive
    <3>2. ReversalLive(b, z) /\ b.reversal_intents[z] \in Reversal
      BY <1>1, <1>4, <2>2, <3>1 DEF Sound, Book
    <3>3. QED BY <1>4, <1>5, <2>2, <3>1, <3>2 DEF ReversalLive, Reversal
  <2>3. QED BY <2>1, <2>2
<1>9. QED BY <1>4, <1>7, <1>8 DEF Sound, c

\* Giving up the reversal of a symbol keeps a sound book sound.
LEMMA DroppedSound ==
  ASSUME NEW b, Sound(b), NEW y \in Symbols
  PROVE  Sound(WithoutReversal(b, y))
<1> DEFINE c == WithoutReversal(b, y)
<1>1. /\ c \in Book
      /\ c.mode = b.mode
      /\ c.reservations = b.reservations
      /\ c.reversal_intents[y] = NoReversal
      /\ \A z \in Symbols \ {y} : c.reversal_intents[z] = b.reversal_intents[z]
  BY WithoutReversalFacts DEF Sound
<1> HIDE DEF c
<1>2. \A t \in Signals : Status(c, t) = Status(b, t)
  BY <1>1 DEF Status
<1>3. Active(c) = Active(b)
  BY <1>2 DEF Active
<1>4. Exclusive(c) /\ Capped(c) /\ Flat(c)
  BY <1>1, <1>2, <1>3 DEF Exclusive, Capped, Flat, Sound
<1>5. ASSUME NEW z \in Symbols PROVE ReversalLive(c, z)
  <2>1. SUFFICES ASSUME c.reversal_intents[z] # NoReversal PROVE ReversalLive(c, z)
    BY DEF ReversalLive
  <2>2. ReversalLive(b, z) /\ b.reversal_intents[z] \in Reversal
    BY <1>1, <2>1 DEF Sound, Book
  <2>3. QED BY <1>1, <1>2, <2>1, <2>2 DEF ReversalLive, Reversal
<1>6. QED BY <1>1, <1>4, <1>5 DEF Sound, c

\* Reopening an empty book keeps it sound.
LEMMA ReopenedSound ==
  ASSUME NEW b, Sound(b), Active(b) = {}
  PROVE  Sound([b EXCEPT !.mode = "active"])
<1> DEFINE c == [b EXCEPT !.mode = "active"]
<1>1. /\ c \in Book
      /\ c.mode = "active"
      /\ c.reservations = b.reservations
      /\ c.reversal_intents = b.reversal_intents
  BY DEF Sound, Book, Modes
<1> HIDE DEF c
<1>2. \A t \in Signals : Status(c, t) = Status(b, t)
  BY <1>1 DEF Status
<1>3. Active(c) = Active(b)
  BY <1>2 DEF Active
<1>4. Exclusive(c) /\ Capped(c) /\ Flat(c)
  BY <1>1, <1>3 DEF Exclusive, Capped, Flat, Sound
<1>5. ASSUME NEW z \in Symbols PROVE ReversalLive(c, z)
  <2>1. SUFFICES ASSUME c.reversal_intents[z] # NoReversal PROVE ReversalLive(c, z)
    BY DEF ReversalLive
  <2>2. ReversalLive(b, z) /\ b.reversal_intents[z] \in Reversal
    BY <1>1, <2>1 DEF Sound, Book
  <2>3. QED BY <1>1, <1>2, <2>1, <2>2 DEF ReversalLive, Reversal
<1>6. QED BY <1>1, <1>4, <1>5 DEF Sound, c

-------------------------------------------------------------------------------
(* The inductive invariant and its preservation, one lemma per command. *)

Inv ==
  /\ account \in Account
  /\ Sound(book)
  /\ decision \in Decisions
  /\ requested \subseteq Actions

After ==
  /\ account' \in Account
  /\ Sound(book')
  /\ decision' \in Decisions

\* A decision over well-formed actions is well formed.
LEMMA DecideType ==
  ASSUME NEW status \in {"accepted", "rejected", "staged", "duplicate"},
         NEW actions \in SUBSET Actions,
         Decide(status, actions)
  PROVE  decision' \in Decisions
BY DEF Decide, Decisions

\* An action about a signal is an action.
LEMMA ActType ==
  \A s \in Signals : /\ Act("create", s) \in Actions
                     /\ Act("cancel", s) \in Actions
                     /\ Act("close", s) \in Actions
BY DEF Act, Actions

\* An equity mark keeps the invariant.
LEMMA SnapshotStep ==
  ASSUME Inv, NEW now \in Times, NEW equity \in Equities, ApplyEquitySnapshot(now, equity)
  PROVE  After
<1> DEFINE pre == Prelude(now, equity)
<1>1. pre.account \in Account /\ Sound(pre.book) /\ pre.actions \subseteq Actions
  BY PreludeSound DEF Inv
<1>2. account' = pre.account /\ book' = pre.book /\ Decide("accepted", pre.actions)
  BY DEF ApplyEquitySnapshot
<1> HIDE DEF pre
<1>3. QED BY <1>1, <1>2, DecideType DEF After

\* A proposal, whatever becomes of it, keeps the invariant.
LEMMA ProposeStep ==
  ASSUME Inv, NEW now \in Times, NEW equity \in Equities, NEW p \in Signals,
         ProposeRiskReservation(now, equity, p)
  PROVE  After
<1> DEFINE pre == Prelude(now, equity)
<1>1. pre.account \in Account /\ Sound(pre.book) /\ pre.actions \subseteq Actions
  BY PreludeSound DEF Inv
<1>2. /\ account' = pre.account
      /\ \/ ProposeRejected(pre, p)
         \/ ProposeStagedOnClose(pre, p)
         \/ ProposeStagedOnCancel(pre, p)
         \/ ProposeAdmitted(pre, p)
  BY DEF ProposeRiskReservation
<1> HIDE DEF pre
<1>3. ~Refused(pre.book, p) =>
        /\ pre.book.mode = "active"
        /\ pre.book.reversal_intents[SymbolOf[p]] = NoReversal
        /\ Status(pre.book, p) = "absent"
        /\ \A s \in ActiveOn(pre.book, SymbolOf[p]) :
             DirectionOf[s] # DirectionOf[p] /\ Status(pre.book, s) # "close_requested"
  BY DEF Refused
<1>4. \A s \in ActiveOn(pre.book, SymbolOf[p]) : s \in Signals /\ s \in Active(pre.book)
  BY DEF ActiveOn, Active
<1>5. ExpiryOf[p] \in Int
  BY SignalAssumption
<1>6. CASE ProposeRejected(pre, p)
  BY <1>1, <1>2, <1>6, DecideType DEF ProposeRejected, After
<1>7. CASE ProposeStagedOnClose(pre, p)
  <2>1. PICK s \in ActiveOn(pre.book, SymbolOf[p]) :
          /\ Status(pre.book, s) = "filled"
          /\ book' = Staged(WithStatus(pre.book, s, "close_requested"), s, p, ExpiryOf[p])
          /\ Decide("staged", pre.actions \cup {Act("close", s)})
    BY <1>7 DEF ProposeStagedOnClose
  <2> DEFINE mid == WithStatus(pre.book, s, "close_requested")
  <2>2. s \in Signals /\ s \in Active(pre.book) /\ s # p
    BY <1>3, <1>4, <1>7, <2>1 DEF ProposeStagedOnClose
  <2>3. Sound(mid)
    BY <1>1, <2>2, ForwardSound
  <2>4. /\ mid.mode = "active"
        /\ Status(mid, p) = "absent"
        /\ Status(mid, s) = "close_requested"
    BY <1>1, <1>3, <1>7, <2>2, WithStatusFacts DEF ProposeStagedOnClose, Sound, Statuses, Open
  <2> HIDE DEF mid
  <2>5. s \in ActiveOn(mid, SymbolOf[p])
    BY <2>2, <2>1, <2>4 DEF ActiveOn, Active, Open
  <2>6. DirectionOf[s] # DirectionOf[p]
    BY <1>3, <1>7 DEF ProposeStagedOnClose
  <2>7. Sound(Staged(mid, s, p, ExpiryOf[p]))
    BY <1>5, <2>3, <2>4, <2>5, <2>6, StagedSound
  <2>8. decision' \in Decisions
    BY <1>1, <2>1, <2>2, ActType, DecideType
  <2>9. QED BY <1>1, <1>2, <2>1, <2>7, <2>8 DEF After, mid
<1>8. CASE ProposeStagedOnCancel(pre, p)
  <2>1. PICK s \in ActiveOn(pre.book, SymbolOf[p]) :
          /\ book' = Staged(pre.book, s, p, EntryExpiry(pre.account, ExpiryOf[p]))
          /\ Decide("staged", pre.actions \cup {Act("cancel", s)})
    BY <1>8 DEF ProposeStagedOnCancel
  <2>2. Status(pre.book, s) = "pending" /\ DirectionOf[s] # DirectionOf[p]
    BY <1>3, <1>8 DEF ProposeStagedOnCancel
  <2>3. EntryExpiry(pre.account, ExpiryOf[p]) \in Int
    BY <1>1, <1>5, EntryExpiryType
  <2>4. Sound(book')
    BY <1>1, <1>3, <1>8, <2>1, <2>2, <2>3, StagedSound DEF ProposeStagedOnCancel
  <2>5. decision' \in Decisions
    BY <1>1, <1>4, <2>1, ActType, DecideType
  <2>6. QED BY <1>1, <1>2, <2>4, <2>5 DEF After
<1>9. CASE ProposeAdmitted(pre, p)
  <2>1. /\ ~Refused(pre.book, p)
        /\ ActiveOn(pre.book, SymbolOf[p]) = {}
        /\ Cardinality(Active(pre.book)) < MaxReservations
        /\ book' = Admitted(pre.account, pre.book, p, ExpiryOf[p])
        /\ Decide("accepted", pre.actions \cup {Act("create", p)})
    BY <1>9 DEF ProposeAdmitted, Admissible
  <2>2. Sound(book')
    BY <1>1, <1>3, <1>5, <2>1, AdmittedSound
  <2>3. decision' \in Decisions
    BY <1>1, <2>1, ActType, DecideType
  <2>4. QED BY <1>1, <1>2, <2>2, <2>3 DEF After
<1>10. QED BY <1>2, <1>6, <1>7, <1>8, <1>9

\* The confirmation of a fill keeps the invariant.
LEMMA ConfirmFillStep ==
  ASSUME Inv, NEW now \in Times, NEW mark \in Equities \cup {NoMark}, NEW s \in Signals,
         ConfirmPendingFill(now, mark, s)
  PROVE  After
<1> DEFINE pre == Prelude(now, mark)
           must == MustClose(pre.book, s)
           next == IF must THEN "close_requested" ELSE "filled"
<1>1. pre.account \in Account /\ Sound(pre.book) /\ pre.actions \subseteq Actions
  BY PreludeSound DEF Inv
<1>2. account' = pre.account
  BY DEF ConfirmPendingFill
<1>3. CASE book' = pre.book /\ \E status \in {"rejected", "duplicate"} : Decide(status, pre.actions)
  BY <1>1, <1>2, <1>3, DecideType DEF After
<1>4. CASE /\ Status(pre.book, s) = "pending"
           /\ book' = WithStatus(pre.book, s, next)
           /\ Decide("accepted", pre.actions \cup (IF must THEN {Act("close", s)} ELSE {}))
  <2>1. next \in {"filled", "close_requested"} /\ (next = "filled" => ~must)
    OBVIOUS
  <2>2. s \in Active(pre.book)
    BY <1>4 DEF Active, Open
  <2> HIDE DEF pre, next
  <2>3. Sound(book')
    BY <1>1, <1>4, <2>1, <2>2, ForwardSound
  <2> HIDE DEF must
  <2>4. decision' \in Decisions
    BY <1>1, <1>4, ActType, DecideType
  <2>5. QED BY <1>1, <1>2, <2>3, <2>4 DEF After
<1>5. QED BY <1>3, <1>4 DEF ConfirmPendingFill

\* The confirmation of a cancellation, and the reversal it lets in, keeps the
\* invariant.
LEMMA CancelStep ==
  ASSUME Inv, NEW now \in Times, NEW mark \in Equities \cup {NoMark}, NEW s \in Signals,
         CancelPendingReservation(now, mark, s)
  PROVE  After
<1> DEFINE pre == Prelude(now, mark)
           gone == WithStatus(pre.book, s, "cancelled")
<1>1. pre.account \in Account /\ Sound(pre.book) /\ pre.actions \subseteq Actions
  BY PreludeSound DEF Inv
<1>2. account' = pre.account
  BY DEF CancelPendingReservation
<1>3. CASE book' = pre.book /\ \E status \in {"rejected", "duplicate"} : Decide(status, pre.actions)
  BY <1>1, <1>2, <1>3, DecideType DEF After
<1>4. CASE /\ Status(pre.book, s) = "pending"
           /\ book' = AfterRelease(pre.account, gone, s)
           /\ Decide("accepted", pre.actions \cup ReleaseActions(pre.account, gone, s))
  <2>1. s \in Active(pre.book) /\ "cancelled" \in Released
    BY <1>4 DEF Active, Open, Released
  <2> HIDE DEF pre
  <2>2. Sound(book') /\ ReleaseActions(pre.account, gone, s) \subseteq Actions
    BY <1>1, <1>4, <2>1, AfterReleaseSound
  <2>3. decision' \in Decisions
    BY <1>1, <1>4, <2>2, DecideType
  <2>4. QED BY <1>1, <1>2, <2>2, <2>3 DEF After
<1>5. QED BY <1>3, <1>4 DEF CancelPendingReservation

\* The confirmation of a close, and the reversal it lets in, keeps the invariant.
LEMMA ClosedStep ==
  ASSUME Inv, NEW now \in Times, NEW equity \in Equities, NEW s \in Signals,
         ConfirmPositionClosed(now, equity, s)
  PROVE  After
<1> DEFINE pre == Prelude(now, equity)
           gone == WithStatus(pre.book, s, "closed")
<1>1. pre.account \in Account /\ Sound(pre.book) /\ pre.actions \subseteq Actions
  BY PreludeSound DEF Inv
<1>2. account' = pre.account
  BY DEF ConfirmPositionClosed
<1>3. CASE book' = pre.book /\ \E status \in {"rejected", "duplicate"} : Decide(status, pre.actions)
  BY <1>1, <1>2, <1>3, DecideType DEF After
<1>4. CASE /\ Status(pre.book, s) \in {"filled", "close_requested"}
           /\ book' = AfterRelease(pre.account, gone, s)
           /\ Decide("accepted", pre.actions \cup ReleaseActions(pre.account, gone, s))
  <2>1. s \in Active(pre.book) /\ "closed" \in Released
    BY <1>4 DEF Active, Open, Released
  <2> HIDE DEF pre
  <2>2. Sound(book') /\ ReleaseActions(pre.account, gone, s) \subseteq Actions
    BY <1>1, <1>4, <2>1, AfterReleaseSound
  <2>3. decision' \in Decisions
    BY <1>1, <1>4, <2>2, DecideType
  <2>4. QED BY <1>1, <1>2, <2>2, <2>3 DEF After
<1>5. QED BY <1>3, <1>4 DEF ConfirmPositionClosed

\* An operator's request to close a position keeps the invariant.
LEMMA RequestCloseStep ==
  ASSUME Inv, NEW now \in Times, NEW s \in Signals, RequestPositionClose(now, s)
  PROVE  After
<1> DEFINE pre == Prelude(now, NoMark)
<1>1. pre.account \in Account /\ Sound(pre.book) /\ pre.actions \subseteq Actions
  BY PreludeSound DEF Inv
<1>2. account' = pre.account
  BY DEF RequestPositionClose
<1>3. CASE book' = pre.book /\ Decide("rejected", pre.actions)
  BY <1>1, <1>2, <1>3, DecideType DEF After
<1>4. CASE /\ Status(pre.book, s) \in {"filled", "close_requested"}
           /\ book' = WithoutReversal(WithStatus(pre.book, s, "close_requested"), SymbolOf[s])
           /\ Decide("accepted", pre.actions \cup {Act("close", s)})
  <2>1. s \in Active(pre.book) /\ SymbolOf[s] \in Symbols
    BY <1>4, SignalAssumption DEF Active, Open
  <2> HIDE DEF pre
  <2>2. Sound(WithStatus(pre.book, s, "close_requested"))
    BY <1>1, <2>1, ForwardSound
  <2>3. Sound(book')
    BY <1>4, <2>1, <2>2, DroppedSound
  <2>4. decision' \in Decisions
    BY <1>1, <1>4, ActType, DecideType
  <2>5. QED BY <1>1, <1>2, <2>3, <2>4 DEF After
<1>5. QED BY <1>3, <1>4 DEF RequestPositionClose

\* A re-arm keeps the invariant.
LEMMA RearmStep ==
  ASSUME Inv, NEW now \in Times, NEW equity \in Equities, ManualRearm(now, equity)
  PROVE  After
<1> DEFINE pre == Prelude(now, NoMark)
<1>1. pre.account \in Account /\ Sound(pre.book) /\ pre.actions \subseteq Actions
  BY PreludeSound DEF Inv
<1>2. CASE account' = pre.account /\ book' = pre.book /\ Decide("rejected", pre.actions)
  BY <1>1, <1>2, DecideType DEF After
<1>3. CASE /\ Active(book) = {}
           /\ account' = Rebased(now, equity, account.epoch)
           /\ book' = [book EXCEPT !.mode = "active"]
           /\ Decide("accepted", pre.actions)
  <2>1. account.epoch \in 0..MaxEpoch
    BY DEF Inv, Account
  <2>2. account' \in Account
    BY <1>3, <2>1, RebasedType
  <2>3. Sound(book')
    BY <1>3, ReopenedSound DEF Inv
  <2> HIDE DEF pre
  <2>4. decision' \in Decisions
    BY <1>1, <1>3, DecideType
  <2>5. QED BY <2>2, <2>3, <2>4 DEF After
<1>4. QED BY <1>2, <1>3 DEF ManualRearm

\* A new demo epoch keeps the invariant.
LEMMA EpochStep ==
  ASSUME Inv, NEW now \in Times, NEW equity \in Equities, NEW previous \in 0..MaxEpoch,
         StartDemoRiskEpoch(now, equity, previous)
  PROVE  After
<1>1. /\ Active(book) = {}
      /\ previous < MaxEpoch
      /\ account' = Rebased(now, equity, previous + 1)
      /\ book' = [book EXCEPT !.mode = "active"]
      /\ Decide("accepted", {})
  BY DEF StartDemoRiskEpoch
<1>2. previous + 1 \in 0..MaxEpoch
  BY <1>1, MarkAssumption
<1>3. account' \in Account
  BY <1>1, <1>2, RebasedType
<1>4. Sound(book')
  BY <1>1, ReopenedSound DEF Inv
<1>5. decision' \in Decisions
  BY <1>1, DecideType
<1>6. QED BY <1>3, <1>4, <1>5 DEF After

-------------------------------------------------------------------------------
(* The theorems. *)

\* The invariant holds of a freshly initialised engine.
LEMMA InitInv == Init => Inv
<1> SUFFICES ASSUME Init PROVE Inv
  OBVIOUS
<1>1. account \in Account
  <2>1. 0 \in 0..MaxEpoch BY MarkAssumption
  <2>2. QED BY <2>1, RebasedType DEF Init
<1>2. /\ book.mode = "active"
      /\ book.reversal_intents = [y \in Symbols |-> NoReversal]
      /\ \A s \in Signals : Status(book, s) = "absent"
      /\ book \in Book
  BY DEF Init, NoReversals, Absent, Status, Book, Reservation, Statuses, Modes
<1>3. Active(book) = {}
  BY <1>2 DEF Active, Open
<1>4. Capped(book)
  BY <1>3, FS_EmptySet DEF Capped, MaxReservations
<1>5. Sound(book)
  BY <1>2, <1>3, <1>4 DEF Sound, Exclusive, ReversalLive, Flat
<1>6. decision \in Decisions /\ requested \subseteq Actions
  BY DEF Init, Decisions
<1>7. QED BY <1>1, <1>5, <1>6 DEF Inv

\* Every command keeps the invariant.
LEMMA CommandStep ==
  ASSUME Inv, Command
  PROVE  After
<1>1. PICK now \in Times :
        \/ \E equity \in Equities : ApplyEquitySnapshot(now, equity)
        \/ \E equity \in Equities, p \in Signals : ProposeRiskReservation(now, equity, p)
        \/ \E s \in Signals : Confirm(now, s)
        \/ \E equity \in Equities : ManualRearm(now, equity)
        \/ \E equity \in Equities, previous \in 0..MaxEpoch :
              StartDemoRiskEpoch(now, equity, previous)
  BY DEF Command
<1>2. ASSUME NEW equity \in Equities, ApplyEquitySnapshot(now, equity) PROVE After
  BY <1>2, SnapshotStep
<1>3. ASSUME NEW equity \in Equities, NEW p \in Signals, ProposeRiskReservation(now, equity, p)
      PROVE After
  BY <1>3, ProposeStep
<1>4. ASSUME NEW s \in Signals, Confirm(now, s) PROVE After
  BY <1>4, ConfirmFillStep, CancelStep, ClosedStep, RequestCloseStep DEF Confirm
<1>5. ASSUME NEW equity \in Equities, ManualRearm(now, equity) PROVE After
  BY <1>5, RearmStep
<1>6. ASSUME NEW equity \in Equities, NEW previous \in 0..MaxEpoch,
             StartDemoRiskEpoch(now, equity, previous)
      PROVE After
  BY <1>6, EpochStep
<1>7. QED BY <1>1, <1>2, <1>3, <1>4, <1>5, <1>6

\* The invariant is inductive.
LEMMA NextInv == Inv /\ [Next]_vars => Inv'
<1> SUFFICES ASSUME Inv, [Next]_vars PROVE Inv'
  OBVIOUS
<1>1. CASE Next
  <2>1. After
    BY <1>1, CommandStep DEF Next
  <2>2. requested' \subseteq Actions
    BY <1>1, <2>1 DEF Next, Record, Inv, After, Decisions
  <2>3. QED BY <2>1, <2>2 DEF Inv, After, Sound, Exclusive, ReversalLive, Flat, Capped, Active, Status
<1>2. CASE UNCHANGED vars
  BY <1>2 DEF vars, Inv, Sound, Exclusive, ReversalLive, Flat, Capped, Active, Status
<1>3. QED BY <1>1, <1>2

\* Every reachable state of the engine satisfies the invariant.
THEOREM Invariance == Spec => []Inv
<1>1. QED BY InitInv, NextInv, PTL DEF Spec

\* The engine's state and its decisions are well formed in every run.
THEOREM TypeCorrect == Spec => []TypeOK
<1>1. Inv => TypeOK
  BY DEF Inv, TypeOK, Sound
<1>2. QED BY <1>1, Invariance, PTL

\* No run ever holds or reserves both directions of a symbol.
THEOREM ExposureIsExclusive == Spec => []OneExposurePerSymbol
<1>1. Inv => OneExposurePerSymbol
  BY DEF Inv, OneExposurePerSymbol, Sound, Exclusive
<1>2. QED BY <1>1, Invariance, PTL

\* No run ever has more than three active reservations.
THEOREM ReservationsAreCapped == Spec => []ReservationCap
<1>1. Inv => ReservationCap
  BY DEF Inv, ReservationCap, Sound, Capped
<1>2. QED BY <1>1, Invariance, PTL

\* In every run a staged reversal waits for a live opposite reservation.
THEOREM ReversalsAreLive == Spec => []ReversalIsLive
<1>1. Inv => ReversalIsLive
  BY DEF Inv, ReversalIsLive, Sound, ReversalLive
<1>2. QED BY <1>1, Invariance, PTL

\* In no run does a killed engine hold a position it has not asked to close.
THEOREM KilledIsFlat == Spec => []KilledHoldsNothing
<1>1. Inv => KilledHoldsNothing
  BY DEF Inv, KilledHoldsNothing, Sound, Flat, InStatus
<1>2. QED BY <1>1, Invariance, PTL

-------------------------------------------------------------------------------
(* What a single command may do to the mode and to a reservation. *)

\* A killed engine's command handlers find the book as it was.
LEMMA KilledPrelude ==
  ASSUME book.mode = "killed", NEW now, NEW mark
  PROVE  Prelude(now, mark).book = book
BY DEF Prelude, Guarded

\* A release changes no mode.
LEMMA AfterReleaseMode ==
  ASSUME NEW a \in Account, NEW b, Sound(b), NEW s \in Signals, NEW status \in Statuses
  PROVE  AfterRelease(a, WithStatus(b, s, status), s).mode = b.mode
<1> DEFINE gone == WithStatus(b, s, status)
           rest == WithoutReversal(gone, SymbolOf[s])
<1>1. gone \in Book /\ gone.mode = b.mode
  BY WithStatusFacts DEF Sound
<1> HIDE DEF gone
<1>2. rest \in Book /\ rest.mode = b.mode
  BY <1>1, WithoutReversalFacts, SignalAssumption
<1>3. \A p, e : Admitted(a, rest, p, e).mode = rest.mode
  BY <1>2 DEF Admitted, Book
<1>4. QED BY <1>1, <1>2, <1>3 DEF AfterRelease, gone

\* A command leaves a killed engine killed, unless it is a re-arm of an empty one.
LEMMA KilledStep ==
  ASSUME Inv, Command, book.mode = "killed", book'.mode # "killed"
  PROVE  /\ Active(book) = {}
         /\ book' = [book EXCEPT !.mode = "active"]
         /\ account'.high_watermark = account'.equity
<1> DEFINE Goal == /\ Active(book) = {}
                   /\ book' = [book EXCEPT !.mode = "active"]
                   /\ account'.high_watermark = account'.equity
<1>1. PICK now \in Times :
        \/ \E equity \in Equities : ApplyEquitySnapshot(now, equity)
        \/ \E equity \in Equities, p \in Signals : ProposeRiskReservation(now, equity, p)
        \/ \E s \in Signals : Confirm(now, s)
        \/ \E equity \in Equities : ManualRearm(now, equity)
        \/ \E equity \in Equities, previous \in 0..MaxEpoch :
              StartDemoRiskEpoch(now, equity, previous)
  BY DEF Command
<1>2. \A mark : Prelude(now, mark).book = book
  BY KilledPrelude
<1>3. book \in Book /\ Sound(book)
  BY DEF Inv, Sound
<1>4. ASSUME NEW equity \in Equities, ApplyEquitySnapshot(now, equity) PROVE FALSE
  BY <1>2, <1>4 DEF ApplyEquitySnapshot
<1>5. ASSUME NEW equity \in Equities, NEW p \in Signals, ProposeRiskReservation(now, equity, p)
      PROVE FALSE
  <2> DEFINE pre == Prelude(now, equity)
  <2>1. pre.book = book /\ Refused(pre.book, p)
    BY <1>2 DEF Refused
  <2>2. book' = pre.book
    BY <1>5, <2>1 DEF ProposeRiskReservation, ProposeRejected, ProposeStagedOnClose,
                      ProposeStagedOnCancel, ProposeAdmitted
  <2>3. QED BY <2>1, <2>2
<1>6. ASSUME NEW s \in Signals, Confirm(now, s) PROVE FALSE
  <2>1. \A status \in Statuses : WithStatus(book, s, status).mode = "killed"
    BY <1>3, WithStatusFacts
  <2>2. \A status \in Statuses :
          WithoutReversal(WithStatus(book, s, status), SymbolOf[s]).mode = "killed"
    BY <1>3, <2>1, WithStatusFacts, WithoutReversalFacts, SignalAssumption
  <2>3. \A status \in Statuses, mark \in Equities \cup {NoMark} :
          AfterRelease(Prelude(now, mark).account, WithStatus(book, s, status), s).mode = "killed"
    BY <1>3, PreludeSound, AfterReleaseMode DEF Inv
  <2>4. {"filled", "close_requested", "cancelled", "closed"} \subseteq Statuses
    BY DEF Statuses, Open, Released
  <2>5. ASSUME NEW mark \in Equities \cup {NoMark}, ConfirmPendingFill(now, mark, s)
        PROVE  FALSE
    BY <1>2, <2>1, <2>4, <2>5 DEF ConfirmPendingFill
  <2>6. ASSUME NEW mark \in Equities \cup {NoMark}, CancelPendingReservation(now, mark, s)
        PROVE  FALSE
    BY <1>2, <2>3, <2>4, <2>6 DEF CancelPendingReservation
  <2>7. ASSUME NEW equity \in Equities, ConfirmPositionClosed(now, equity, s) PROVE FALSE
    BY <1>2, <2>3, <2>4, <2>7 DEF ConfirmPositionClosed
  <2>8. ASSUME RequestPositionClose(now, s) PROVE FALSE
    BY <1>2, <2>2, <2>4, <2>8 DEF RequestPositionClose
  <2>9. QED BY <1>6, <2>5, <2>6, <2>7, <2>8 DEF Confirm
<1>7. ASSUME NEW equity \in Equities, ManualRearm(now, equity) PROVE Goal
  BY <1>2, <1>7 DEF ManualRearm, Rebased
<1>8. ASSUME NEW equity \in Equities, NEW previous \in 0..MaxEpoch,
             StartDemoRiskEpoch(now, equity, previous)
      PROVE Goal
  BY <1>8 DEF StartDemoRiskEpoch
<1>9. QED BY <1>1, <1>4, <1>5, <1>6, <1>7, <1>8

\* The kill switch latches: only a re-arm of an empty engine leaves it.
THEOREM KillSwitchLatches == Spec => KillLatches
<1>1. Inv /\ [Next]_vars =>
        [book.mode = "killed" /\ book'.mode # "killed" =>
           /\ book'.mode = "active"
           /\ Active(book) = {} /\ Active(book') = {}
           /\ account'.high_watermark = account'.equity]_vars
  <2> SUFFICES ASSUME Inv, Next, book.mode = "killed", book'.mode # "killed"
               PROVE  /\ book'.mode = "active"
                      /\ Active(book) = {} /\ Active(book') = {}
                      /\ account'.high_watermark = account'.equity
    OBVIOUS
  <2>1. /\ Active(book) = {}
        /\ book' = [book EXCEPT !.mode = "active"]
        /\ account'.high_watermark = account'.equity
    BY KilledStep DEF Next
  <2>2. book \in Book
    BY DEF Inv, Sound
  <2>3. book'.mode = "active" /\ book'.reservations = book.reservations
    BY <2>1, <2>2 DEF Book
  <2>4. Active(book') = Active(book)
    BY <2>3 DEF Active, Status
  <2>5. QED BY <2>1, <2>3, <2>4
<1>2. QED BY <1>1, Invariance, PTL DEF Spec, KillLatches

-------------------------------------------------------------------------------
(* The first stride: clock, mark and circuit breakers. *)

\* ModeFollowsLosses of any account and book.
Follows(a, b) ==
  /\ b.mode = "active" =>
       /\ ~Halted(a) /\ ~KillReached(a)
       /\ ~LossReaches(a.daily_start, a.equity, DailyPercent)
       /\ ~LossReaches(a.weekly_start, a.equity, WeeklyPercent)
  /\ b.mode = "entry_paused" => Halted(a) /\ ~KillReached(a)
  /\ a.equity <= a.high_watermark

\* An equity mark is a positive natural number.
LEMMA EquityType == \A e \in Equities : e \in Nat /\ e \in Int /\ e > 0
BY MarkAssumption

\* A mark keeps the halts of its own period and raises the high-water mark.
LEMMA MarkedFacts ==
  ASSUME NEW a \in Account, NEW now \in Times, NEW equity \in Equities
  PROVE  LET m == Marked(a, now, equity)
         IN  /\ m.as_of = now /\ m.equity = equity /\ m.epoch = a.epoch
             /\ a.high_watermark <= m.high_watermark /\ equity <= m.high_watermark
             /\ a.daily_halted /\ ~m.daily_halted => m.daily_anchor # a.daily_anchor
             /\ a.weekly_halted /\ ~m.weekly_halted => m.weekly_anchor # a.weekly_anchor
BY MarkAssumption DEF Marked, Peak, Account

\* Latching only adds halts, and adds the one of every boundary that is reached.
LEMMA LatchedFacts ==
  ASSUME NEW a \in Account
  PROVE  LET l == Latched(a)
         IN  /\ l.as_of = a.as_of /\ l.equity = a.equity /\ l.epoch = a.epoch
             /\ l.high_watermark = a.high_watermark
             /\ l.daily_anchor = a.daily_anchor /\ l.weekly_anchor = a.weekly_anchor
             /\ l.daily_start = a.daily_start /\ l.weekly_start = a.weekly_start
             /\ a.daily_halted => l.daily_halted
             /\ a.weekly_halted => l.weekly_halted
             /\ LossReaches(a.daily_start, a.equity, DailyPercent) => l.daily_halted
             /\ LossReaches(a.weekly_start, a.equity, WeeklyPercent) => l.weekly_halted
             /\ KillReached(l) <=> KillReached(a)
BY DEF Latched, KillReached, LossReaches, Account

\* What the breakers make of a book follows the losses of a latched account.
LEMMA GuardedFollows ==
  ASSUME NEW a \in Account, NEW b \in Book,
         a.equity <= a.high_watermark,
         b.mode # "killed" =>
           /\ LossReaches(a.daily_start, a.equity, DailyPercent) => a.daily_halted
           /\ LossReaches(a.weekly_start, a.equity, WeeklyPercent) => a.weekly_halted
  PROVE  Follows(a, Guarded(b, a))
<1>1. /\ Killed(b).mode = "killed"
      /\ Paused(b).mode = "entry_paused"
      /\ [b EXCEPT !.mode = "active"].mode = "active"
  BY DEF Killed, Paused, Book
<1>2. KillReached(a) \in BOOLEAN /\ Halted(a) \in BOOLEAN
  BY DEF KillReached, Halted, LossReaches, Account
<1>3. CASE b.mode = "killed"
  BY <1>3 DEF Guarded, Follows
<1>4. CASE b.mode # "killed" /\ KillReached(a)
  <2>1. Guarded(b, a) = Killed(b)
    BY <1>4 DEF Guarded
  <2>2. QED BY <1>1, <2>1 DEF Follows
<1>5. CASE b.mode # "killed" /\ ~KillReached(a) /\ Halted(a)
  <2>1. Guarded(b, a) = Paused(b)
    BY <1>5 DEF Guarded
  <2>2. QED BY <1>1, <1>5, <2>1 DEF Follows
<1>6. CASE b.mode # "killed" /\ ~KillReached(a) /\ ~Halted(a)
  <2>1. Guarded(b, a) = [b EXCEPT !.mode = "active"]
    BY <1>6 DEF Guarded
  <2>2. ~a.daily_halted /\ ~a.weekly_halted
    BY <1>6 DEF Halted
  <2>3. QED BY <1>1, <1>6, <2>1, <2>2 DEF Follows
<1>7. QED BY <1>2, <1>3, <1>4, <1>5, <1>6

\* What the breakers make of each reservation and ask for.
LEMMA GuardedAsks ==
  ASSUME NEW a \in Account, NEW b \in Book
  PROVE  LET c == Guarded(b, a)
         IN  /\ \A s \in Signals :
                  \/ c.reservations[s] = b.reservations[s]
                  \/ /\ Status(b, s) = "filled"
                     /\ c.reservations[s] = [b.reservations[s] EXCEPT !.status = "close_requested"]
                     /\ Act("close", s) \in BreakerActions(b, a)
             /\ c.mode # "active" /\ b.mode = "active" => CancelAll(b) \subseteq BreakerActions(b, a)
             /\ c.reversal_intents \in {b.reversal_intents, NoReversals}
<1> DEFINE c == Guarded(b, a)
<1>1. /\ Killed(b).reservations = [s \in Signals |->
               IF b.reservations[s].status = "filled"
               THEN [b.reservations[s] EXCEPT !.status = "close_requested"]
               ELSE b.reservations[s]]
      /\ Killed(b).mode = "killed" /\ Killed(b).reversal_intents = NoReversals
      /\ Paused(b).reservations = b.reservations
      /\ Paused(b).mode = "entry_paused" /\ Paused(b).reversal_intents = NoReversals
      /\ [b EXCEPT !.mode = "active"].reservations = b.reservations
      /\ [b EXCEPT !.mode = "active"].mode = "active"
      /\ [b EXCEPT !.mode = "active"].reversal_intents = b.reversal_intents
  BY DEF Killed, Paused, Book
<1>2. CASE b.mode = "killed"
  BY <1>2 DEF Guarded
<1>3. CASE b.mode # "killed" /\ KillReached(a)
  <2>1. c = Killed(b) /\ CancelAll(b) \subseteq BreakerActions(b, a)
                      /\ CloseAll(b) \subseteq BreakerActions(b, a)
    BY <1>3 DEF Guarded, BreakerActions
  <2>2. \A s \in Signals : Status(b, s) = "filled" => Act("close", s) \in CloseAll(b)
    BY DEF CloseAll, InStatus
  <2>3. QED BY <1>1, <2>1, <2>2 DEF Status
<1>4. CASE b.mode # "killed" /\ ~KillReached(a) /\ Halted(a)
  <2>1. c = Paused(b) /\ CancelAll(b) \subseteq BreakerActions(b, a)
    BY <1>4 DEF Guarded, BreakerActions
  <2>2. QED BY <1>1, <2>1
<1>5. CASE b.mode # "killed" /\ ~KillReached(a) /\ ~Halted(a)
  <2>1. c = [b EXCEPT !.mode = "active"]
    BY <1>5 DEF Guarded
  <2>2. QED BY <1>1, <2>1
<1>6. QED BY <1>2, <1>3, <1>4, <1>5

\* The prelude of a command: the account it leaves, and what it does to the book.
PreludeFacts(now, pre) ==
  /\ Follows(pre.account, pre.book)
  /\ pre.account.as_of = now
  /\ pre.account.epoch = account.epoch
  /\ account.high_watermark <= pre.account.high_watermark
  /\ account.daily_halted /\ ~pre.account.daily_halted =>
       pre.account.daily_anchor # account.daily_anchor
  /\ account.weekly_halted /\ ~pre.account.weekly_halted =>
       pre.account.weekly_anchor # account.weekly_anchor
  /\ ExpiryCancels(book, now) \subseteq pre.actions
  /\ pre.book.mode # "active" /\ book.mode = "active" => CancelAll(book) \subseteq pre.actions
  /\ pre.book.reversal_intents \in {book.reversal_intents, NoReversals}
  /\ \A s \in Signals :
       \/ pre.book.reservations[s] = book.reservations[s]
       \/ /\ Status(book, s) = "filled"
          /\ pre.book.reservations[s] = [book.reservations[s] EXCEPT !.status = "close_requested"]
          /\ Act("close", s) \in pre.actions

\* Every prelude (guards at the head of a command) has this shape.
LEMMA PreludeShape ==
  ASSUME account \in Account, book \in Book, Follows(account, book),
         NEW now \in Times, NEW mark \in Equities \cup {NoMark}
  PROVE  PreludeFacts(now, Prelude(now, mark))
<1>1. CASE mark = NoMark
  <2> DEFINE a == [account EXCEPT !.as_of = now]
  <2>1. Prelude(now, mark) = [account |-> a, book |-> book, actions |-> ExpiryCancels(book, now)]
    BY <1>1 DEF Prelude
  <2>2. /\ a.as_of = now /\ a.epoch = account.epoch
        /\ a.high_watermark = account.high_watermark /\ a.equity = account.equity
        /\ a.daily_halted = account.daily_halted /\ a.weekly_halted = account.weekly_halted
        /\ a.daily_start = account.daily_start /\ a.weekly_start = account.weekly_start
    BY DEF Account
  <2>3. account.high_watermark <= account.high_watermark
    <3>1. account.high_watermark \in Equities
      BY DEF Account
    <3>2. account.high_watermark \in Int
      BY <3>1, EquityType
    <3>3. QED BY <3>2
  <2> HIDE DEF a
  <2>4. Follows(a, book)
    BY <2>2 DEF Follows, Halted, KillReached
  <2>5. QED BY <2>1, <2>2, <2>3, <2>4 DEF PreludeFacts
<1>2. CASE mark \in Equities /\ mark # NoMark
  <2> DEFINE m == Marked(account, now, mark)
             a == IF book.mode = "killed" THEN m ELSE Latched(m)
  <2>1. m \in Account /\ a \in Account
    BY <1>2, MarkedType, LatchedType
  <2>2. Prelude(now, mark) = [account |-> a, book |-> Guarded(book, a),
           actions |-> ExpiryCancels(book, now) \cup BreakerActions(book, a)]
    BY <1>2 DEF Prelude
  <2>3. /\ m.as_of = now /\ m.equity = mark /\ m.epoch = account.epoch
        /\ account.high_watermark <= m.high_watermark /\ mark <= m.high_watermark
        /\ account.daily_halted /\ ~m.daily_halted => m.daily_anchor # account.daily_anchor
        /\ account.weekly_halted /\ ~m.weekly_halted => m.weekly_anchor # account.weekly_anchor
    BY <1>2, MarkedFacts
  <2> HIDE DEF m
  <2>4. /\ a.as_of = m.as_of /\ a.epoch = m.epoch /\ a.high_watermark = m.high_watermark
        /\ a.daily_anchor = m.daily_anchor /\ a.weekly_anchor = m.weekly_anchor
        /\ m.daily_halted => a.daily_halted
        /\ m.weekly_halted => a.weekly_halted
        /\ a.equity = m.equity /\ a.daily_start = m.daily_start
        /\ a.weekly_start = m.weekly_start
        /\ book.mode # "killed" =>
             /\ LossReaches(m.daily_start, m.equity, DailyPercent) => a.daily_halted
             /\ LossReaches(m.weekly_start, m.equity, WeeklyPercent) => a.weekly_halted
    BY <2>1, LatchedFacts
  <2> HIDE DEF a
  <2>5. Follows(a, Guarded(book, a))
    BY <2>1, <2>3, <2>4, GuardedFollows
  <2>6. QED BY <2>1, <2>2, <2>3, <2>4, <2>5, GuardedAsks DEF PreludeFacts
<1>3. QED BY <1>1, <1>2

-------------------------------------------------------------------------------
(* The second stride: the command's own handler. *)

\* The moves of a reservation, status by status.
LEMMA SuccessorTable ==
  /\ Successors("absent") = {"absent", "pending"}
  /\ Successors("pending") = {"pending", "filled", "close_requested", "cancelled"}
  /\ Successors("filled") = {"filled", "close_requested", "closed"}
  /\ Successors("close_requested") = {"close_requested", "closed"}
  /\ Successors("cancelled") = {"cancelled"}
  /\ Successors("closed") = {"closed"}
BY DEF Successors, Released

\* A reservation that a handler changes moves one step on, keeps its risk and its
\* expiry, and never becomes a pending entry; a close comes with a request.
Moved(b, c, D, s) ==
  /\ Status(b, s) \in Open
  /\ Status(c, s) \in Successors(Status(b, s)) \ {"pending"}
  /\ c.reservations[s] = [b.reservations[s] EXCEPT !.status = Status(c, s)]
  /\ Status(c, s) = "close_requested" => Act("close", s) \in D

\* A reservation that a handler creates is a pending entry that can be paid for,
\* is not overdue, waits for nobody and comes with a create.
Entered(a, b, c, D, s) ==
  LET after == RiskScale * a.equity - c.reservations[s].reserved_risk
  IN  /\ Status(b, s) = "absent" /\ Status(c, s) = "pending"
      /\ c.mode = "active"
      /\ c.reversal_intents[SymbolOf[s]] = NoReversal
      /\ Act("create", s) \in D
      /\ a.as_of < c.reservations[s].expires_at
      /\ ~LossReaches(RiskScale * a.daily_start, after, DailyPercent)
      /\ ~LossReaches(RiskScale * a.weekly_start, after, WeeklyPercent)
      /\ ~LossReaches(RiskScale * a.high_watermark, after, DrawdownPercent)

\* What a handler makes of the book b it finds, when it asks for the actions D.
Handled(a, b, c, D) ==
  /\ c.mode = b.mode
  /\ \A s \in Signals :
       \/ c.reservations[s] = b.reservations[s]
       \/ Moved(b, c, D, s)
       \/ Entered(a, b, c, D, s)
  /\ \A s \in Signals :
       WaitsFor(c, s) => \/ WaitsFor(b, s)
                        \/ Status(c, s) # "pending"
                        \/ Act("cancel", s) \in D
  /\ \/ TotalReservedRisk(c) <= TotalReservedRisk(b)
     \/ 100 * TotalReservedRisk(c) <= ReservedPercent * RiskScale * a.equity

\* The risks of a well-formed book are a function into the natural numbers.
LEMMA RiskOfType ==
  ASSUME NEW b \in Book
  PROVE  /\ [s \in Signals |-> b.reservations[s].reserved_risk] \in [Signals -> Nat]
         /\ Active(b) \in SUBSET Signals
BY DEF Book, Reservation, Active

\* The total of a sound book is a natural number.
LEMMA TotalType ==
  ASSUME NEW b, Sound(b)
  PROVE  TotalReservedRisk(b) \in Nat
BY RiskOfType, SumType DEF Sound, Capped, TotalReservedRisk

\* The total follows the active reservations and their risks alone.
LEMMA TotalSame ==
  ASSUME NEW b, Sound(b), NEW c, Active(c) = Active(b),
         \A s \in Active(b) : c.reservations[s].reserved_risk = b.reservations[s].reserved_risk
  PROVE  TotalReservedRisk(c) = TotalReservedRisk(b)
<1> DEFINE f == [s \in Signals |-> b.reservations[s].reserved_risk]
           h == [s \in Signals |-> c.reservations[s].reserved_risk]
<1>1. \A s \in Active(b) : h[s] = f[s]
  BY DEF Active
<1>2. TotalReservedRisk(b) = SumFunctionOnSet(f, Active(b)) /\ IsFiniteSet(Active(b))
  BY DEF TotalReservedRisk, Sound, Capped
<1>3. TotalReservedRisk(c) = SumFunctionOnSet(h, Active(b))
  BY DEF TotalReservedRisk
<1> HIDE DEF f, h
<1>4. QED BY <1>1, <1>2, <1>3, SumSame

\* A released reservation takes its risk with it.
LEMMA TotalReleased ==
  ASSUME NEW b, Sound(b), NEW s \in Active(b), NEW c, Active(c) = Active(b) \ {s},
         \A t \in Active(c) : c.reservations[t].reserved_risk = b.reservations[t].reserved_risk
  PROVE  TotalReservedRisk(c) <= TotalReservedRisk(b)
<1> DEFINE f == [t \in Signals |-> b.reservations[t].reserved_risk]
           h == [t \in Signals |-> c.reservations[t].reserved_risk]
           rest == Active(b) \ {s}
<1>1. /\ f \in [Signals -> Nat] /\ rest \in SUBSET Signals /\ s \in Signals
      /\ s \notin rest /\ rest \cup {s} = Active(b)
      /\ \A t \in rest : h[t] = f[t]
  BY RiskOfType DEF Sound
<1>2. IsFiniteSet(rest)
  BY FS_RemoveElement DEF Sound, Capped
<1>3. TotalReservedRisk(b) = SumFunctionOnSet(f, Active(b))
  BY DEF TotalReservedRisk
<1>4. TotalReservedRisk(c) = SumFunctionOnSet(h, rest)
  BY DEF TotalReservedRisk
<1> HIDE DEF f, h, rest
<1>5. SumFunctionOnSet(f, rest \cup {s}) = SumFunctionOnSet(f, rest) + f[s]
  BY <1>1, <1>2, SumAdd
<1>6. SumFunctionOnSet(h, rest) = SumFunctionOnSet(f, rest)
  BY <1>1, <1>2, SumSame
<1>7. SumFunctionOnSet(f, rest) \in Nat /\ f[s] \in Nat
  BY <1>1, <1>2, SumType
<1>8. TotalReservedRisk(b) = TotalReservedRisk(c) + f[s]
  BY <1>1, <1>3, <1>4, <1>5, <1>6
<1>9. TotalReservedRisk(c) \in Nat
  BY <1>4, <1>6, <1>7
<1>10. QED BY <1>7, <1>8, <1>9

\* An admitted reservation adds its risk.
LEMMA TotalAdmitted ==
  ASSUME NEW b, Sound(b), NEW p \in Signals \ Active(b), NEW c \in Book,
         Active(c) = Active(b) \cup {p},
         \A t \in Active(b) : c.reservations[t] = b.reservations[t]
  PROVE  TotalReservedRisk(c) = TotalReservedRisk(b) + c.reservations[p].reserved_risk
<1> DEFINE f == [t \in Signals |-> b.reservations[t].reserved_risk]
           h == [t \in Signals |-> c.reservations[t].reserved_risk]
<1>1. /\ h \in [Signals -> Nat] /\ Active(b) \in SUBSET Signals
      /\ p \in Signals /\ p \notin Active(b) /\ IsFiniteSet(Active(b))
      /\ \A t \in Active(b) : h[t] = f[t]
      /\ h[p] = c.reservations[p].reserved_risk
  BY RiskOfType DEF Sound, Capped
<1>2. /\ TotalReservedRisk(b) = SumFunctionOnSet(f, Active(b))
      /\ TotalReservedRisk(c) = SumFunctionOnSet(h, Active(b) \cup {p})
  BY DEF TotalReservedRisk
<1> HIDE DEF f, h
<1>3. SumFunctionOnSet(h, Active(b) \cup {p}) = SumFunctionOnSet(h, Active(b)) + h[p]
  BY <1>1, SumAdd
<1>4. SumFunctionOnSet(h, Active(b)) = SumFunctionOnSet(f, Active(b))
  BY <1>1, SumSame
<1>5. TotalReservedRisk(c) = TotalReservedRisk(b) + h[p]
  BY <1>2, <1>3, <1>4
<1>6. QED BY <1>1, <1>5

\* A handler that leaves the book as it finds it.
LEMMA HandledSame ==
  ASSUME NEW a \in Account, NEW b, Sound(b), NEW D
  PROVE  Handled(a, b, b, D)
<1>1. TotalReservedRisk(b) <= TotalReservedRisk(b)
  BY TotalType
<1>2. QED BY <1>1 DEF Handled

\* A reservation that moves on while it stays active, or is released, and drops or
\* stages no reversal.
LEMMA HandledMove ==
  ASSUME NEW a \in Account, NEW b, Sound(b), NEW s \in Active(b), NEW status, NEW D,
         status \in Successors(Status(b, s)) \ {"pending"},
         status = "close_requested" => Act("close", s) \in D
  PROVE  Handled(a, b, WithStatus(b, s, status), D)
<1> DEFINE c == WithStatus(b, s, status)
<1>1. b \in Book /\ s \in Signals /\ Status(b, s) \in Open
  BY DEF Sound, Active
<1>2. status \in Statuses
  BY <1>1 DEF Successors, Open, Released, Statuses
<1>3. /\ c.mode = b.mode
      /\ c.reversal_intents = b.reversal_intents
      /\ Status(c, s) = status
      /\ c.reservations[s] = [b.reservations[s] EXCEPT !.status = status]
      /\ \A t \in Signals \ {s} : c.reservations[t] = b.reservations[t]
      /\ \A t \in Signals : c.reservations[t].reserved_risk = b.reservations[t].reserved_risk
  BY <1>1 DEF WithStatus, Book, Reservation, Status
<1> HIDE DEF c
<1>4. Moved(b, c, D, s)
  BY <1>1, <1>3 DEF Moved
<1>5. \A t \in Signals : WaitsFor(c, t) => WaitsFor(b, t)
  BY <1>3 DEF WaitsFor
<1>6. TotalReservedRisk(c) <= TotalReservedRisk(b)
  <2>1. CASE status \in Open
    <3>1. Active(c) = Active(b)
      BY <1>1, <1>3, <2>1 DEF Active, Status
    <3>2. QED BY <1>1, <1>3, <3>1, TotalSame, TotalType DEF Active
  <2>2. CASE status \notin Open
    <3>1. Active(c) = Active(b) \ {s}
      BY <1>1, <1>3, <2>2 DEF Active, Status
    <3>2. QED BY <1>1, <1>3, <3>1, TotalReleased DEF Active
  <2>3. QED BY <2>1, <2>2
<1>7. QED BY <1>3, <1>4, <1>5, <1>6 DEF Handled, c

\* Two books with the same reservations have the same total.
LEMMA TotalOfReservations ==
  ASSUME NEW b, NEW c, c.reservations = b.reservations
  PROVE  TotalReservedRisk(c) = TotalReservedRisk(b)
BY DEF TotalReservedRisk, Active, Status

\* What an admission adds to a book is affordable and stays under the limit.
LEMMA AdmissionFacts ==
  ASSUME NEW a \in Account, NEW b, Sound(b), NEW p \in Signals, NEW expiry \in Int, NEW D,
         Status(b, p) = "absent",
         b.reversal_intents[SymbolOf[p]] = NoReversal,
         Admissible(a, b, p, expiry),
         Act("create", p) \in D
  PROVE  LET c == Admitted(a, b, p, expiry)
         IN  /\ c.mode = b.mode
             /\ c.reversal_intents = b.reversal_intents
             /\ \A t \in Signals \ {p} : c.reservations[t] = b.reservations[t]
             /\ Entered(a, b, c, D, p)
             /\ 100 * TotalReservedRisk(c) <= ReservedPercent * RiskScale * a.equity
<1> DEFINE c == Admitted(a, b, p, expiry)
<1>1. b \in Book
  BY DEF Sound
<1>2. /\ c \in Book
      /\ c.mode = b.mode
      /\ c.reversal_intents = b.reversal_intents
      /\ Status(c, p) = "pending"
  BY <1>1, AdmittedFacts
<1>3. /\ c.reservations[p].reserved_risk = ProjectedRisk(a.equity, p)
      /\ c.reservations[p].expires_at = EntryExpiry(a, expiry)
      /\ \A t \in Signals \ {p} : c.reservations[t] = b.reservations[t]
  BY <1>1 DEF Admitted, Book
<1> HIDE DEF c
<1>4. /\ b.mode = "active"
      /\ a.as_of < EntryExpiry(a, expiry)
      /\ WithinLimits(a, b, p)
  BY DEF Admissible
<1>5. Entered(a, b, c, D, p)
  BY <1>2, <1>3, <1>4 DEF Entered, WithinLimits
<1>6. 100 * TotalReservedRisk(c) <= ReservedPercent * RiskScale * a.equity
  <2>1. p \in Signals \ Active(b) /\ Active(c) = Active(b) \cup {p}
    BY <1>2, <1>3 DEF Active, Open, Status
  <2>2. \A t \in Active(b) : c.reservations[t] = b.reservations[t]
    BY <1>3, <2>1 DEF Active
  <2>3. TotalReservedRisk(c) = TotalReservedRisk(b) + c.reservations[p].reserved_risk
    BY <1>2, <2>1, <2>2, TotalAdmitted
  <2>4. TotalReservedRisk(c) = TotalReservedRisk(b) + ProjectedRisk(a.equity, p)
    BY <1>3, <2>3
  <2>5. 100 * (TotalReservedRisk(b) + ProjectedRisk(a.equity, p))
           <= ReservedPercent * RiskScale * a.equity
    BY <1>4 DEF WithinLimits
  <2>6. QED BY <2>4, <2>5
<1>7. QED BY <1>2, <1>3, <1>5, <1>6 DEF c

\* An admission into a book that a handler has already worked on.
LEMMA HandledAdmission ==
  ASSUME NEW a \in Account, NEW b, NEW c, Sound(c), NEW D, NEW E, D \subseteq E,
         Handled(a, b, c, D),
         NEW p \in Signals, NEW expiry \in Int,
         Status(b, p) = "absent", Status(c, p) = "absent",
         c.reversal_intents[SymbolOf[p]] = NoReversal,
         Admissible(a, c, p, expiry),
         Act("create", p) \in E
  PROVE  Handled(a, b, Admitted(a, c, p, expiry), E)
<1> DEFINE d == Admitted(a, c, p, expiry)
<1>1. /\ d.mode = c.mode
      /\ d.reversal_intents = c.reversal_intents
      /\ \A t \in Signals \ {p} : d.reservations[t] = c.reservations[t]
      /\ Entered(a, c, d, E, p)
      /\ 100 * TotalReservedRisk(d) <= ReservedPercent * RiskScale * a.equity
  BY AdmissionFacts
<1> HIDE DEF d
<1>2. Entered(a, b, d, E, p)
  BY <1>1 DEF Entered
<1>3. ASSUME NEW t \in Signals \ {p}
      PROVE  \/ d.reservations[t] = b.reservations[t]
             \/ Moved(b, d, E, t)
             \/ Entered(a, b, d, E, t)
  <2>1. d.reservations[t] = c.reservations[t] /\ Status(d, t) = Status(c, t)
    BY <1>1 DEF Status
  <2>2. Moved(b, c, D, t) => Moved(b, d, E, t)
    BY <2>1 DEF Moved
  <2>3. Entered(a, b, c, D, t) => Entered(a, b, d, E, t)
    BY <1>1, <2>1 DEF Entered
  <2>4. QED BY <2>1, <2>2, <2>3 DEF Handled
<1>4. ASSUME NEW t \in Signals, WaitsFor(d, t)
      PROVE  WaitsFor(b, t) \/ Status(d, t) # "pending" \/ Act("cancel", t) \in E
  <2>1. t # p
    BY <1>1, <1>4 DEF WaitsFor, Entered
  <2>2. WaitsFor(c, t) /\ Status(d, t) = Status(c, t)
    BY <1>1, <1>4, <2>1 DEF WaitsFor, Status
  <2>3. QED BY <2>2 DEF Handled
<1>5. d.mode = b.mode
  BY <1>1 DEF Handled
<1>6. QED BY <1>1, <1>2, <1>3, <1>4, <1>5 DEF Handled, d

\* Giving up the reversal of a symbol after a handler has worked on the book.
LEMMA HandledDrop ==
  ASSUME NEW a, NEW b, NEW c \in Book, NEW D, Handled(a, b, c, D), NEW y \in Symbols
  PROVE  Handled(a, b, WithoutReversal(c, y), D)
<1> DEFINE d == WithoutReversal(c, y)
<1>1. /\ d.mode = c.mode
      /\ d.reservations = c.reservations
      /\ \A z \in Symbols : d.reversal_intents[z] \in {NoReversal, c.reversal_intents[z]}
  BY DEF WithoutReversal, Book
<1> HIDE DEF d
<1>2. \A s \in Signals : Moved(b, c, D, s) => Moved(b, d, D, s)
  BY <1>1 DEF Moved, Status
<1>3. \A s \in Signals : SymbolOf[s] \in Symbols
  BY SignalAssumption
<1>4. \A s \in Signals : Entered(a, b, c, D, s) => Entered(a, b, d, D, s)
  BY <1>1, <1>3 DEF Entered, Status
<1>5. \A s \in Signals : WaitsFor(d, s) => WaitsFor(c, s)
  BY <1>1, <1>3 DEF WaitsFor
<1>6. TotalReservedRisk(d) = TotalReservedRisk(c)
  BY <1>1, TotalOfReservations
<1>7. \A s \in Signals : Status(d, s) = Status(c, s)
  BY <1>1 DEF Status
<1>8. QED BY <1>1, <1>2, <1>4, <1>5, <1>6, <1>7 DEF Handled, d

\* Staging a reversal behind a reservation that is asked to leave.
LEMMA HandledStaging ==
  ASSUME NEW a, NEW b, NEW c \in Book, NEW D, Handled(a, b, c, D),
         \A t \in Signals : Status(b, t) = "absent" => Status(c, t) = "absent",
         NEW s \in Signals, NEW p \in Signals, NEW expiry,
         Status(c, s) # "pending" \/ Act("cancel", s) \in D
  PROVE  Handled(a, b, Staged(c, s, p, expiry), D)
<1> DEFINE d == Staged(c, s, p, expiry)
           reversal == [closing |-> s, signal |-> p, entry_expires_at |-> expiry]
<1>1. /\ d.mode = c.mode
      /\ d.reservations = c.reservations
      /\ \A z \in Symbols : d.reversal_intents[z] \in {reversal, c.reversal_intents[z]}
  BY DEF Staged, Book
<1> HIDE DEF d
<1>2. \A t \in Signals : Moved(b, c, D, t) => Moved(b, d, D, t)
  BY <1>1 DEF Moved, Status
<1>3. \A t \in Signals : SymbolOf[t] \in Symbols
  BY SignalAssumption
<1>4. \A t \in Signals : ~Entered(a, b, c, D, t)
  BY DEF Entered
<1>5. \A t \in Signals : WaitsFor(d, t) => WaitsFor(c, t) \/ t = s
  BY <1>1, <1>3 DEF WaitsFor
<1>6. TotalReservedRisk(d) = TotalReservedRisk(c)
  BY <1>1, TotalOfReservations
<1>7. \A t \in Signals : Status(d, t) = Status(c, t)
  BY <1>1 DEF Status
<1>8. QED BY <1>1, <1>2, <1>4, <1>5, <1>6, <1>7 DEF Handled, d

\* A release, with the reversal that takes its place if there is one.
LEMMA HandledRelease ==
  ASSUME NEW a \in Account, NEW b, Sound(b), NEW s \in Signals, s \in Active(b),
         NEW status \in Released, status \in Successors(Status(b, s)), NEW D
  PROVE  LET gone == WithStatus(b, s, status)
         IN  Handled(a, b, AfterRelease(a, gone, s), D \cup ReleaseActions(a, gone, s))
<1> DEFINE gone == WithStatus(b, s, status)
           y == SymbolOf[s]
           rest == WithoutReversal(gone, y)
           reversal == gone.reversal_intents[y]
<1>1. /\ Sound(rest) /\ rest.reversal_intents[y] = NoReversal /\ gone \in Book
      /\ reversal # NoReversal =>
           /\ reversal \in Reversal
           /\ SymbolOf[reversal.signal] = y
           /\ Status(b, reversal.signal) = "absent"
           /\ Status(rest, reversal.signal) = "absent"
  BY ReleaseFacts
<1>2. /\ AfterRelease(a, gone, s) =
           IF ReversalAdmitted(a, gone, s)
           THEN Admitted(a, rest, reversal.signal, reversal.entry_expires_at)
           ELSE IF WaitsFor(gone, s) THEN rest ELSE gone
      /\ ReleaseActions(a, gone, s) =
           IF ReversalAdmitted(a, gone, s) THEN {Act("create", reversal.signal)} ELSE {}
  BY DEF AfterRelease, ReleaseActions
<1>3. ReversalAdmitted(a, gone, s) =>
        /\ reversal # NoReversal
        /\ Admissible(a, rest, reversal.signal, reversal.entry_expires_at)
  BY DEF ReversalAdmitted, WaitsFor
<1>4. Handled(a, b, gone, D)
  BY HandledMove DEF Released
<1>5. y \in Symbols
  BY SignalAssumption
<1>6. Handled(a, b, rest, D)
  BY <1>1, <1>4, <1>5, HandledDrop
<1> HIDE DEF gone, rest
<1>7. CASE ReversalAdmitted(a, gone, s)
  <2>1. reversal.signal \in Signals /\ reversal.entry_expires_at \in Int
    BY <1>1, <1>3, <1>7 DEF Reversal
  <2> DEFINE E == D \cup {Act("create", reversal.signal)}
  <2>2. D \subseteq E /\ Act("create", reversal.signal) \in E
    OBVIOUS
  <2> HIDE DEF E
  <2>3. Handled(a, b, Admitted(a, rest, reversal.signal, reversal.entry_expires_at), E)
    BY <1>1, <1>3, <1>6, <1>7, <2>1, <2>2, HandledAdmission
  <2>4. QED BY <1>2, <1>7, <2>3 DEF gone, E
<1>8. CASE ~ReversalAdmitted(a, gone, s)
  BY <1>2, <1>4, <1>6, <1>8 DEF gone
<1>9. QED BY <1>7, <1>8

\* The two strides of a command: the prelude at some instant and mark, and a handler.
Strides(now, mark) ==
  LET pre == Prelude(now, mark)
  IN  /\ account' = pre.account
      /\ pre.actions \subseteq decision'.actions
      /\ Handled(pre.account, pre.book, book', decision'.actions)

\* A handler that turns a command away leaves the book and the actions of the prelude.
LEMMA TurnedAway ==
  ASSUME NEW a \in Account, NEW b, Sound(b), NEW D, NEW status, book' = b, Decide(status, D)
  PROVE  D \subseteq decision'.actions /\ Handled(a, b, book', decision'.actions)
BY HandledSame DEF Decide

\* An equity mark takes the first stride only.
LEMMA SnapshotStrides ==
  ASSUME Inv, NEW now \in Times, NEW equity \in Equities, ApplyEquitySnapshot(now, equity)
  PROVE  Strides(now, equity)
<1> DEFINE pre == Prelude(now, equity)
<1>1. pre.account \in Account /\ Sound(pre.book)
  BY PreludeSound DEF Inv
<1>2. account' = pre.account /\ book' = pre.book /\ Decide("accepted", pre.actions)
  BY DEF ApplyEquitySnapshot
<1> HIDE DEF pre
<1>3. QED BY <1>1, <1>2, TurnedAway DEF Strides, pre

\* A proposal is turned away, staged or admitted.
LEMMA ProposeStrides ==
  ASSUME Inv, NEW now \in Times, NEW equity \in Equities, NEW p \in Signals,
         ProposeRiskReservation(now, equity, p)
  PROVE  Strides(now, equity)
<1> DEFINE pre == Prelude(now, equity)
<1>1. pre.account \in Account /\ Sound(pre.book) /\ pre.book \in Book
  BY PreludeSound DEF Inv, Sound
<1>2. /\ account' = pre.account
      /\ \/ ProposeRejected(pre, p)
         \/ ProposeStagedOnClose(pre, p)
         \/ ProposeStagedOnCancel(pre, p)
         \/ ProposeAdmitted(pre, p)
  BY DEF ProposeRiskReservation
<1> HIDE DEF pre
<1>3. \A s \in ActiveOn(pre.book, SymbolOf[p]) : s \in Signals /\ s \in Active(pre.book)
  BY DEF ActiveOn, Active
<1>4. SUFFICES /\ pre.actions \subseteq decision'.actions
               /\ Handled(pre.account, pre.book, book', decision'.actions)
  BY <1>2 DEF Strides, pre
<1>5. CASE ProposeRejected(pre, p)
  BY <1>1, <1>5, TurnedAway DEF ProposeRejected
<1>6. CASE ProposeStagedOnClose(pre, p)
  <2>1. PICK s \in ActiveOn(pre.book, SymbolOf[p]) :
          /\ Status(pre.book, s) = "filled"
          /\ book' = Staged(WithStatus(pre.book, s, "close_requested"), s, p, ExpiryOf[p])
          /\ Decide("staged", pre.actions \cup {Act("close", s)})
    BY <1>6 DEF ProposeStagedOnClose
  <2> DEFINE mid == WithStatus(pre.book, s, "close_requested")
             D == pre.actions \cup {Act("close", s)}
  <2>2. s \in Signals /\ s \in Active(pre.book)
    BY <1>3
  <2>3. Act("close", s) \in D /\ "close_requested" \in Successors("filled")
    BY SuccessorTable
  <2> HIDE DEF D
  <2>4. Handled(pre.account, pre.book, mid, D)
    BY <1>1, <2>1, <2>2, <2>3, HandledMove
  <2>5. /\ mid \in Book
        /\ Status(mid, s) = "close_requested"
        /\ \A t \in Signals \ {s} : Status(mid, t) = Status(pre.book, t)
    BY <1>1, <2>2, WithStatusFacts DEF Statuses, Open
  <2> HIDE DEF mid
  <2>6. Handled(pre.account, pre.book, Staged(mid, s, p, ExpiryOf[p]), D)
    BY <2>1, <2>2, <2>4, <2>5, HandledStaging
  <2>7. QED BY <2>1, <2>6 DEF mid, D, Decide
<1>7. CASE ProposeStagedOnCancel(pre, p)
  <2>1. PICK s \in ActiveOn(pre.book, SymbolOf[p]) :
          /\ book' = Staged(pre.book, s, p, EntryExpiry(pre.account, ExpiryOf[p]))
          /\ Decide("staged", pre.actions \cup {Act("cancel", s)})
    BY <1>7 DEF ProposeStagedOnCancel
  <2> DEFINE D == pre.actions \cup {Act("cancel", s)}
             expiry == EntryExpiry(pre.account, ExpiryOf[p])
  <2>2. s \in Signals /\ Act("cancel", s) \in D
    BY <1>3
  <2> HIDE DEF D, expiry
  <2>3. Handled(pre.account, pre.book, pre.book, D)
    BY <1>1, HandledSame
  <2>4. Handled(pre.account, pre.book, Staged(pre.book, s, p, expiry), D)
    BY <1>1, <2>2, <2>3, HandledStaging
  <2>5. QED BY <2>1, <2>4 DEF D, expiry, Decide
<1>8. CASE ProposeAdmitted(pre, p)
  <2> DEFINE D == pre.actions \cup {Act("create", p)}
  <2>1. /\ Status(pre.book, p) = "absent"
        /\ pre.book.reversal_intents[SymbolOf[p]] = NoReversal
        /\ Admissible(pre.account, pre.book, p, ExpiryOf[p])
        /\ book' = Admitted(pre.account, pre.book, p, ExpiryOf[p])
        /\ decision'.actions = D
    BY <1>8 DEF ProposeAdmitted, Refused, Decide
  <2>2. D \subseteq D /\ pre.actions \subseteq D /\ Act("create", p) \in D /\ ExpiryOf[p] \in Int
    BY SignalAssumption
  <2> HIDE DEF D
  <2>3. Handled(pre.account, pre.book, pre.book, D)
    BY <1>1, HandledSame
  <2>4. QED BY <1>1, <2>1, <2>2, <2>3, HandledAdmission
<1>9. QED BY <1>2, <1>5, <1>6, <1>7, <1>8

\* A fill is turned away, kept, or turned into a close.
LEMMA ConfirmFillStrides ==
  ASSUME Inv, NEW now \in Times, NEW mark \in Equities \cup {NoMark}, NEW s \in Signals,
         ConfirmPendingFill(now, mark, s)
  PROVE  Strides(now, mark)
<1> DEFINE pre == Prelude(now, mark)
           must == MustClose(pre.book, s)
           next == IF must THEN "close_requested" ELSE "filled"
           D == pre.actions \cup (IF must THEN {Act("close", s)} ELSE {})
<1>1. pre.account \in Account /\ Sound(pre.book)
  BY PreludeSound DEF Inv
<1>2. account' = pre.account
  BY DEF ConfirmPendingFill
<1>3. SUFFICES /\ pre.actions \subseteq decision'.actions
               /\ Handled(pre.account, pre.book, book', decision'.actions)
  BY <1>2 DEF Strides
<1>4. CASE book' = pre.book /\ \E status \in {"rejected", "duplicate"} : Decide(status, pre.actions)
  <2> HIDE DEF pre
  <2>1. QED BY <1>1, <1>4, TurnedAway
<1>5. CASE /\ Status(pre.book, s) = "pending"
           /\ book' = WithStatus(pre.book, s, next)
           /\ Decide("accepted", D)
  <2>1. next = "close_requested" => Act("close", s) \in D
    OBVIOUS
  <2>2. next \in Successors("pending") \ {"pending"}
    BY SuccessorTable
  <2>3. s \in Active(pre.book)
    BY <1>5 DEF Active, Open
  <2>4. pre.actions \subseteq D
    OBVIOUS
  <2> HIDE DEF pre, next, must, D
  <2>5. Handled(pre.account, pre.book, WithStatus(pre.book, s, next), D)
    BY <1>1, <1>5, <2>1, <2>2, <2>3, HandledMove
  <2>6. QED BY <1>5, <2>4, <2>5 DEF Decide
<1>6. QED BY <1>4, <1>5 DEF ConfirmPendingFill

\* A cancellation is turned away or releases its reservation.
LEMMA CancelStrides ==
  ASSUME Inv, NEW now \in Times, NEW mark \in Equities \cup {NoMark}, NEW s \in Signals,
         CancelPendingReservation(now, mark, s)
  PROVE  Strides(now, mark)
<1> DEFINE pre == Prelude(now, mark)
           gone == WithStatus(pre.book, s, "cancelled")
<1>1. pre.account \in Account /\ Sound(pre.book)
  BY PreludeSound DEF Inv
<1>2. account' = pre.account
  BY DEF CancelPendingReservation
<1>3. SUFFICES /\ pre.actions \subseteq decision'.actions
               /\ Handled(pre.account, pre.book, book', decision'.actions)
  BY <1>2 DEF Strides
<1>4. CASE book' = pre.book /\ \E status \in {"rejected", "duplicate"} : Decide(status, pre.actions)
  <2> HIDE DEF pre
  <2>1. QED BY <1>1, <1>4, TurnedAway
<1>5. CASE /\ Status(pre.book, s) = "pending"
           /\ book' = AfterRelease(pre.account, gone, s)
           /\ Decide("accepted", pre.actions \cup ReleaseActions(pre.account, gone, s))
  <2>1. s \in Active(pre.book) /\ "cancelled" \in Released /\ "cancelled" \in Successors("pending")
    BY <1>5, SuccessorTable DEF Active, Open, Released
  <2> HIDE DEF pre
  <2>2. Handled(pre.account, pre.book, AfterRelease(pre.account, gone, s),
                pre.actions \cup ReleaseActions(pre.account, gone, s))
    BY <1>1, <1>5, <2>1, HandledRelease
  <2>3. QED BY <1>5, <2>2 DEF Decide
<1>6. QED BY <1>4, <1>5 DEF CancelPendingReservation

\* A confirmed close is turned away or releases its reservation.
LEMMA ClosedStrides ==
  ASSUME Inv, NEW now \in Times, NEW equity \in Equities, NEW s \in Signals,
         ConfirmPositionClosed(now, equity, s)
  PROVE  Strides(now, equity)
<1> DEFINE pre == Prelude(now, equity)
           gone == WithStatus(pre.book, s, "closed")
<1>1. pre.account \in Account /\ Sound(pre.book)
  BY PreludeSound DEF Inv
<1>2. account' = pre.account
  BY DEF ConfirmPositionClosed
<1>3. SUFFICES /\ pre.actions \subseteq decision'.actions
               /\ Handled(pre.account, pre.book, book', decision'.actions)
  BY <1>2 DEF Strides
<1>4. CASE book' = pre.book /\ \E status \in {"rejected", "duplicate"} : Decide(status, pre.actions)
  <2> HIDE DEF pre
  <2>1. QED BY <1>1, <1>4, TurnedAway
<1>5. CASE /\ Status(pre.book, s) \in {"filled", "close_requested"}
           /\ book' = AfterRelease(pre.account, gone, s)
           /\ Decide("accepted", pre.actions \cup ReleaseActions(pre.account, gone, s))
  <2>1. s \in Active(pre.book) /\ "closed" \in Released /\ "closed" \in Successors(Status(pre.book, s))
    BY <1>5, SuccessorTable DEF Active, Open, Released
  <2> HIDE DEF pre
  <2>2. Handled(pre.account, pre.book, AfterRelease(pre.account, gone, s),
                pre.actions \cup ReleaseActions(pre.account, gone, s))
    BY <1>1, <2>1, HandledRelease
  <2>3. QED BY <1>5, <2>2 DEF Decide
<1>6. QED BY <1>4, <1>5 DEF ConfirmPositionClosed

\* An operator's close is turned away, or asks for the close and gives up the reversal.
LEMMA RequestCloseStrides ==
  ASSUME Inv, NEW now \in Times, NEW s \in Signals, RequestPositionClose(now, s)
  PROVE  Strides(now, NoMark)
<1> DEFINE pre == Prelude(now, NoMark)
           D == pre.actions \cup {Act("close", s)}
           mid == WithStatus(pre.book, s, "close_requested")
<1>1. pre.account \in Account /\ Sound(pre.book)
  BY PreludeSound DEF Inv
<1>2. account' = pre.account
  BY DEF RequestPositionClose
<1>3. SUFFICES /\ pre.actions \subseteq decision'.actions
               /\ Handled(pre.account, pre.book, book', decision'.actions)
  BY <1>2 DEF Strides
<1>4. CASE book' = pre.book /\ Decide("rejected", pre.actions)
  <2> HIDE DEF pre
  <2>1. QED BY <1>1, <1>4, TurnedAway
<1>5. CASE /\ Status(pre.book, s) \in {"filled", "close_requested"}
           /\ book' = WithoutReversal(mid, SymbolOf[s])
           /\ Decide("accepted", D)
  <2>1. /\ s \in Active(pre.book) /\ SymbolOf[s] \in Symbols
        /\ "close_requested" \in Successors(Status(pre.book, s)) \ {"pending"}
    BY <1>5, SuccessorTable, SignalAssumption DEF Active, Open
  <2>2. Act("close", s) \in D /\ pre.actions \subseteq D
    OBVIOUS
  <2> HIDE DEF pre, D
  <2>3. Handled(pre.account, pre.book, mid, D)
    BY <1>1, <2>1, <2>2, HandledMove
  <2>4. mid \in Book
    BY <1>1, WithStatusFacts DEF Sound, Statuses, Open
  <2> HIDE DEF mid
  <2>5. Handled(pre.account, pre.book, WithoutReversal(mid, SymbolOf[s]), D)
    BY <2>1, <2>3, <2>4, HandledDrop
  <2>6. QED BY <1>5, <2>2, <2>5 DEF Decide
<1>6. QED BY <1>4, <1>5 DEF RequestPositionClose

\* A re-arm of an empty killed engine, and a new epoch of an empty one, start over.
Restarted ==
  /\ Active(book) = {}
  /\ \E now \in Times, equity \in Equities, epoch \in 0..MaxEpoch :
       /\ account' = Rebased(now, equity, epoch)
       /\ epoch = account.epoch => book.mode = "killed"
  /\ book' = [book EXCEPT !.mode = "active"]

\* A re-arm is turned away or starts over.
LEMMA RearmStrides ==
  ASSUME Inv, NEW now \in Times, NEW equity \in Equities, ManualRearm(now, equity)
  PROVE  Strides(now, NoMark) \/ Restarted
<1> DEFINE pre == Prelude(now, NoMark)
<1>1. pre.account \in Account /\ Sound(pre.book)
  BY PreludeSound DEF Inv
<1>2. CASE account' = pre.account /\ book' = pre.book /\ Decide("rejected", pre.actions)
  <2> HIDE DEF pre
  <2>1. QED BY <1>1, <1>2, TurnedAway DEF Strides, pre
<1>3. CASE /\ book.mode = "killed"
           /\ Active(book) = {}
           /\ account' = Rebased(now, equity, account.epoch)
           /\ book' = [book EXCEPT !.mode = "active"]
  <2>1. account.epoch \in 0..MaxEpoch
    BY DEF Inv, Account
  <2>2. QED BY <1>3, <2>1 DEF Restarted
<1>4. QED BY <1>2, <1>3 DEF ManualRearm

\* A new epoch starts over.
LEMMA EpochStrides ==
  ASSUME Inv, NEW now \in Times, NEW equity \in Equities, NEW previous \in 0..MaxEpoch,
         StartDemoRiskEpoch(now, equity, previous)
  PROVE  Restarted
<1>1. previous + 1 \in 0..MaxEpoch /\ previous + 1 # previous
  BY MarkAssumption DEF StartDemoRiskEpoch
<1>2. QED BY <1>1 DEF StartDemoRiskEpoch, Restarted

\* Every command takes the two strides or starts over.
LEMMA CommandStrides ==
  ASSUME Inv, Command
  PROVE  \/ \E now \in Times, mark \in Equities \cup {NoMark} : Strides(now, mark)
         \/ Restarted
<1>1. PICK now \in Times :
        \/ \E equity \in Equities : ApplyEquitySnapshot(now, equity)
        \/ \E equity \in Equities, p \in Signals : ProposeRiskReservation(now, equity, p)
        \/ \E s \in Signals : Confirm(now, s)
        \/ \E equity \in Equities : ManualRearm(now, equity)
        \/ \E equity \in Equities, previous \in 0..MaxEpoch :
              StartDemoRiskEpoch(now, equity, previous)
  BY DEF Command
<1> DEFINE Taken == \E mark \in Equities \cup {NoMark} : Strides(now, mark)
<1>2. ASSUME NEW equity \in Equities, ApplyEquitySnapshot(now, equity) PROVE Taken
  BY <1>2, SnapshotStrides
<1>3. ASSUME NEW equity \in Equities, NEW p \in Signals, ProposeRiskReservation(now, equity, p)
      PROVE Taken
  BY <1>3, ProposeStrides
<1>4. ASSUME NEW s \in Signals, Confirm(now, s) PROVE Taken
  BY <1>4, ConfirmFillStrides, CancelStrides, ClosedStrides, RequestCloseStrides DEF Confirm
<1>5. ASSUME NEW equity \in Equities, ManualRearm(now, equity) PROVE Taken \/ Restarted
  BY <1>5, RearmStrides
<1>6. ASSUME NEW equity \in Equities, NEW previous \in 0..MaxEpoch,
             StartDemoRiskEpoch(now, equity, previous)
      PROVE Restarted
  BY <1>6, EpochStrides
<1> HIDE DEF Taken
<1>7. Taken \/ Restarted
  BY <1>1, <1>2, <1>3, <1>4, <1>5, <1>6
<1>8. QED BY <1>7 DEF Taken

-------------------------------------------------------------------------------
(* The invariant of the decisions, and its preservation by the two strides. *)

DecisionInv ==
  /\ Inv
  /\ Follows(account, book)
  /\ NothingForgotten
  /\ ReservedRiskUnderPeak

\* What the prelude does, for the handlers that follow it.
LEMMA StridesPrelude ==
  ASSUME DecisionInv, NEW now \in Times, NEW mark \in Equities \cup {NoMark}
  PROVE  LET pre == Prelude(now, mark)
         IN  /\ PreludeFacts(now, pre)
             /\ pre.account \in Account
             /\ Sound(pre.book)
             /\ book \in Book /\ Sound(book)
BY PreludeShape, PreludeSound DEF DecisionInv, Inv, Sound

\* A reservation as the prelude leaves it.
LEMMA PreludeStatus ==
  ASSUME DecisionInv, NEW now \in Times, NEW mark \in Equities \cup {NoMark}, NEW s \in Signals
  PROVE  LET pre == Prelude(now, mark)
         IN  /\ \/ pre.book.reservations[s] = book.reservations[s]
                \/ /\ Status(book, s) = "filled" /\ Status(pre.book, s) = "close_requested"
                   /\ Act("close", s) \in pre.actions
             /\ pre.book.reservations[s].reserved_risk = book.reservations[s].reserved_risk
             /\ Status(pre.book, s) \in Open <=> Status(book, s) \in Open
<1> DEFINE pre == Prelude(now, mark)
<1>1. /\ PreludeFacts(now, pre) /\ book \in Book
      /\ book.reservations[s] \in Reservation
  BY StridesPrelude DEF Book
<1> HIDE DEF pre
<1>2. CASE pre.book.reservations[s] = book.reservations[s]
  BY <1>2 DEF Status, pre
<1>3. CASE /\ Status(book, s) = "filled"
           /\ pre.book.reservations[s] = [book.reservations[s] EXCEPT !.status = "close_requested"]
           /\ Act("close", s) \in pre.actions
  <2>1. /\ pre.book.reservations[s].status = "close_requested"
        /\ pre.book.reservations[s].reserved_risk = book.reservations[s].reserved_risk
    BY <1>1, <1>3 DEF Reservation
  <2>2. QED BY <1>3, <2>1 DEF Status, Open, pre
<1>4. QED BY <1>1, <1>2, <1>3 DEF PreludeFacts

\* The mode still follows the losses after a handler: it changes neither.
LEMMA StridesFollow ==
  ASSUME DecisionInv, NEW now \in Times, NEW mark \in Equities \cup {NoMark}, Strides(now, mark)
  PROVE  Follows(account', book')
<1> DEFINE pre == Prelude(now, mark)
<1>1. Follows(pre.account, pre.book)
  BY StridesPrelude DEF PreludeFacts
<1>2. account' = pre.account /\ book'.mode = pre.book.mode
  BY DEF Strides, Handled
<1>3. QED BY <1>1, <1>2 DEF Follows

\* What is wanted out after a command was asked for before it, or in it.
LEMMA StridesForgetNothing ==
  ASSUME DecisionInv, NEW now \in Times, NEW mark \in Equities \cup {NoMark}, Strides(now, mark),
         After, Record
  PROVE  NothingForgotten'
<1> DEFINE pre == Prelude(now, mark)
           D == decision'.actions
<1>1. PreludeFacts(now, pre)
  BY StridesPrelude
<1>2. account' = pre.account /\ pre.actions \subseteq D /\ Handled(pre.account, pre.book, book', D)
  BY DEF Strides
<1>3. \A x \in requested \cup D : Concerns(x, book') => x \in requested'
  BY DEF Record
<1>4. ASSUME NEW s \in Signals
      PROVE  /\ \/ pre.book.reservations[s] = book.reservations[s]
                \/ /\ Status(book, s) = "filled" /\ Status(pre.book, s) = "close_requested"
                   /\ Act("close", s) \in pre.actions
  BY PreludeStatus
<1> HIDE DEF pre, D
<1>5. ASSUME NEW s \in Signals, Status(book', s) = "close_requested"
      PROVE  Act("close", s) \in requested'
  <2>1. Act("close", s) \in requested \cup D
    <3>1. \/ book'.reservations[s] = pre.book.reservations[s]
          \/ Moved(pre.book, book', D, s)
          \/ Entered(pre.account, pre.book, book', D, s)
      BY <1>2 DEF Handled
    <3>2. CASE book'.reservations[s] = pre.book.reservations[s]
      <4>1. Status(pre.book, s) = "close_requested"
        BY <1>5, <3>2 DEF Status
      <4>2. CASE pre.book.reservations[s] = book.reservations[s]
        <5>1. s \in InStatus(book, "close_requested")
          BY <4>1, <4>2 DEF InStatus, Status
        <5>2. QED BY <5>1 DEF DecisionInv, NothingForgotten
      <4>3. QED BY <1>2, <1>4, <4>2
    <3>3. CASE Moved(pre.book, book', D, s)
      BY <1>5, <3>3 DEF Moved
    <3>4. CASE Entered(pre.account, pre.book, book', D, s)
      BY <1>5, <3>4 DEF Entered
    <3>5. QED BY <3>1, <3>2, <3>3, <3>4
  <2>2. Concerns(Act("close", s), book')
    BY <1>5 DEF Concerns, Act
  <2>3. QED BY <1>3, <2>1, <2>2
<1>6. ASSUME NEW s \in Signals, Status(book', s) = "pending",
             \/ book'.mode # "active"
             \/ book'.reservations[s].expires_at <= account'.as_of
             \/ WaitsFor(book', s)
      PROVE  Act("cancel", s) \in requested'
  <2>1. Act("cancel", s) \in requested \cup D
    <3>1. \/ book'.reservations[s] = pre.book.reservations[s]
          \/ Moved(pre.book, book', D, s)
          \/ Entered(pre.account, pre.book, book', D, s)
      BY <1>2 DEF Handled
    <3>2. ~Moved(pre.book, book', D, s)
      BY <1>6 DEF Moved
    <3>3. ~Entered(pre.account, pre.book, book', D, s)
      <4>1. SUFFICES ASSUME Entered(pre.account, pre.book, book', D, s) PROVE FALSE
        OBVIOUS
      <4>2. /\ book'.mode = "active"
            /\ book'.reversal_intents[SymbolOf[s]] = NoReversal
            /\ pre.account.as_of < book'.reservations[s].expires_at
        BY <4>1 DEF Entered
      <4>3. pre.account.as_of \in Int /\ book'.reservations[s].expires_at \in Int
        <5>1. pre.account \in Account
          BY StridesPrelude DEF pre
        <5>2. pre.account.as_of \in Int
          BY <5>1, TimeType DEF Account
        <5>3. QED BY <5>2 DEF After, Sound, Book, Reservation
      <4>4. QED BY <1>2, <1>6, <4>2, <4>3 DEF WaitsFor
    <3>4. book'.reservations[s] = pre.book.reservations[s] /\ Status(pre.book, s) = "pending"
      BY <1>6, <3>1, <3>2, <3>3 DEF Status
    <3>5. pre.book.reservations[s] = book.reservations[s] /\ Status(book, s) = "pending"
      BY <1>4, <3>4 DEF Status
    <3>6. s \in InStatus(book, "pending")
      BY <3>5 DEF InStatus
    <3>7. WantedOut(s) => Act("cancel", s) \in requested
      BY <3>6 DEF DecisionInv, NothingForgotten
    <3>8. CASE book'.mode # "active"
      <4>1. pre.book.mode # "active"
        BY <1>2, <3>8 DEF Handled
      <4>2. CASE book.mode = "active"
        <5>1. Act("cancel", s) \in CancelAll(book)
          BY <3>6 DEF CancelAll
        <5>2. QED BY <1>1, <1>2, <4>1, <4>2, <5>1 DEF PreludeFacts
      <4>3. QED BY <3>7, <4>2 DEF WantedOut
    <3>9. CASE book'.reservations[s].expires_at <= account'.as_of
      <4>1. book.reservations[s].expires_at <= now
        BY <1>1, <1>2, <3>4, <3>5, <3>9 DEF PreludeFacts
      <4>2. Act("cancel", s) \in ExpiryCancels(book, now)
        BY <3>6, <4>1 DEF ExpiryCancels
      <4>3. QED BY <1>1, <1>2, <4>2 DEF PreludeFacts
    <3>10. CASE WaitsFor(book', s)
      <4>1. CASE WaitsFor(pre.book, s)
        <5>1. pre.book.reversal_intents \in {book.reversal_intents, NoReversals}
          BY <1>1 DEF PreludeFacts
        <5>2. NoReversals[SymbolOf[s]] = NoReversal
          BY SignalAssumption DEF NoReversals
        <5>3. WaitsFor(book, s)
          BY <4>1, <5>1, <5>2 DEF WaitsFor
        <5>4. QED BY <3>7, <5>3 DEF WantedOut
      <4>2. QED BY <1>2, <1>6, <3>10, <4>1 DEF Handled
    <3>11. QED BY <1>6, <3>8, <3>9, <3>10
  <2>2. Concerns(Act("cancel", s), book')
    BY <1>6 DEF Concerns, Act
  <2>3. QED BY <1>3, <2>1, <2>2
<1>7. QED BY <1>5, <1>6 DEF NothingForgotten, WantedOut, InStatus, WaitsFor, Status

\* What is reserved stays under the limit at the peak, which no stride lowers.
LEMMA StridesRisk ==
  ASSUME DecisionInv, NEW now \in Times, NEW mark \in Equities \cup {NoMark}, Strides(now, mark),
         After
  PROVE  ReservedRiskUnderPeak'
<1> DEFINE pre == Prelude(now, mark)
           D == decision'.actions
           Limit(e) == ReservedPercent * RiskScale * e
<1>1. /\ PreludeFacts(now, pre) /\ pre.account \in Account /\ Sound(pre.book) /\ Sound(book)
  BY StridesPrelude
<1>2. account' = pre.account /\ Handled(pre.account, pre.book, book', D)
  BY DEF Strides
<1>3. /\ \A s \in Signals : pre.book.reservations[s].reserved_risk = book.reservations[s].reserved_risk
      /\ \A s \in Signals : Status(pre.book, s) \in Open <=> Status(book, s) \in Open
  BY PreludeStatus
<1> HIDE DEF pre, D
<1>4. Active(pre.book) = Active(book)
  BY <1>3 DEF Active
<1>5. TotalReservedRisk(pre.book) = TotalReservedRisk(book)
  BY <1>1, <1>3, <1>4, TotalSame DEF Active
<1>6. /\ TotalReservedRisk(book) \in Nat
      /\ TotalReservedRisk(book') \in Nat
  BY <1>1, TotalType DEF After
<1>7. /\ account.high_watermark \in Nat
      /\ account'.high_watermark \in Nat
      /\ account'.equity \in Nat
      /\ account.high_watermark <= account'.high_watermark
      /\ account'.equity <= account'.high_watermark
  BY <1>1, <1>2, EquityType DEF PreludeFacts, Follows, Account, DecisionInv, Inv
<1>8. 100 * TotalReservedRisk(book) <= Limit(account.high_watermark)
  BY DEF DecisionInv, ReservedRiskUnderPeak
<1>9. \/ TotalReservedRisk(book') <= TotalReservedRisk(book)
      \/ 100 * TotalReservedRisk(book') <= Limit(account'.equity)
  BY <1>2, <1>5 DEF Handled
<1>10. 100 * TotalReservedRisk(book') <= Limit(account'.high_watermark)
  BY <1>6, <1>7, <1>8, <1>9 DEF ReservedPercent, RiskScale
<1>11. QED BY <1>10 DEF ReservedRiskUnderPeak, TotalReservedRisk, Active, Status

\* Starting over: an empty book, fresh marks.
LEMMA RestartedFacts ==
  ASSUME DecisionInv, Restarted, After
  PROVE  /\ Follows(account', book')
         /\ book'.reservations = book.reservations
         /\ Active(book') = {}
         /\ account'.equity \in Nat /\ account'.high_watermark = account'.equity
<1>1. PICK now \in Times, equity \in Equities, epoch \in 0..MaxEpoch :
        account' = Rebased(now, equity, epoch)
  BY DEF Restarted
<1>2. equity \in Nat /\ equity > 0
  BY EquityType
<1>3. /\ account'.equity = equity /\ account'.high_watermark = equity
      /\ account'.daily_start = equity /\ account'.weekly_start = equity
      /\ ~account'.daily_halted /\ ~account'.weekly_halted
  BY <1>1 DEF Rebased
<1>4. book'.mode = "active" /\ book'.reservations = book.reservations
  BY DEF Restarted, DecisionInv, Inv, Sound, Book
<1>5. \A percent \in {DailyPercent, WeeklyPercent, DrawdownPercent} :
         ~LossReaches(equity, equity, percent)
  BY <1>2 DEF LossReaches, DailyPercent, WeeklyPercent, DrawdownPercent
<1>6. Follows(account', book')
  BY <1>2, <1>3, <1>4, <1>5 DEF Follows, Halted, KillReached
<1>7. Active(book') = {}
  BY <1>4 DEF Active, Status, Restarted
<1>8. QED BY <1>2, <1>3, <1>4, <1>6, <1>7

\* Nothing is reserved in an empty book, and nothing is wanted out of it.
LEMMA EmptyBook ==
  ASSUME NEW b, Active(b) = {}
  PROVE  /\ TotalReservedRisk(b) = 0
         /\ InStatus(b, "close_requested") = {} /\ InStatus(b, "pending") = {}
<1>1. \A f : SumFunctionOnSet(f, {}) = 0
  BY SumUnfolds, FS_EmptySet DEF Unfolds
<1>2. TotalReservedRisk(b) = 0
  BY <1>1 DEF TotalReservedRisk
<1>3. QED BY <1>2 DEF Active, InStatus, Open

\* The invariant of the decisions is inductive.
LEMMA DecisionStep == DecisionInv /\ [Next]_vars => DecisionInv'
<1> SUFFICES ASSUME DecisionInv, [Next]_vars PROVE DecisionInv'
  OBVIOUS
<1>1. Inv'
  BY NextInv DEF DecisionInv
<1>2. CASE Next
  <2>1. After /\ Record /\ Command
    BY <1>2, CommandStep DEF Next, DecisionInv
  <2>2. CASE \E now \in Times, mark \in Equities \cup {NoMark} : Strides(now, mark)
    <3>1. Follows(account', book') /\ NothingForgotten' /\ ReservedRiskUnderPeak'
      BY <2>1, <2>2, StridesFollow, StridesForgetNothing, StridesRisk
    <3>2. QED BY <1>1, <3>1 DEF DecisionInv, Follows
  <2>3. CASE Restarted
    <3>1. /\ Follows(account', book')
          /\ Active(book') = {}
          /\ account'.equity \in Nat /\ account'.high_watermark = account'.equity
      BY <2>1, <2>3, RestartedFacts
    <3>2. /\ TotalReservedRisk(book') = 0
          /\ InStatus(book', "close_requested") = {} /\ InStatus(book', "pending") = {}
      BY <3>1, EmptyBook
    <3>3. NothingForgotten'
      BY <3>2 DEF NothingForgotten, InStatus, Status
    <3>4. 100 * 0 <= ReservedPercent * RiskScale * account'.high_watermark
      BY <3>1 DEF ReservedPercent, RiskScale
    <3>5. ReservedRiskUnderPeak'
      BY <3>2, <3>4 DEF ReservedRiskUnderPeak, TotalReservedRisk, Active, Status
    <3>6. QED BY <1>1, <3>1, <3>3, <3>5 DEF DecisionInv, Follows
  <2>4. QED BY <2>1, <2>2, <2>3, CommandStrides DEF DecisionInv
<1>3. CASE UNCHANGED vars
  BY <1>1, <1>3 DEF vars, DecisionInv, Follows, NothingForgotten, WantedOut, WaitsFor,
                    ReservedRiskUnderPeak, TotalReservedRisk, InStatus, Active, Status
<1>4. QED BY <1>2, <1>3

\* The invariant of the decisions holds of a freshly initialised engine.
LEMMA DecisionInit == Init => DecisionInv
<1> SUFFICES ASSUME Init PROVE DecisionInv
  OBVIOUS
<1>1. Inv
  BY InitInv
<1>2. PICK now \in Times, equity \in Equities : account = Rebased(now, equity, 0)
  BY DEF Init
<1>3. equity \in Nat /\ equity > 0
  BY EquityType
<1>4. /\ account.equity = equity /\ account.high_watermark = equity
      /\ account.daily_start = equity /\ account.weekly_start = equity
      /\ ~account.daily_halted /\ ~account.weekly_halted
  BY <1>2 DEF Rebased
<1>5. \A percent \in {DailyPercent, WeeklyPercent, DrawdownPercent} :
         ~LossReaches(equity, equity, percent)
  BY <1>3 DEF LossReaches, DailyPercent, WeeklyPercent, DrawdownPercent
<1>6. Follows(account, book)
  BY <1>3, <1>4, <1>5 DEF Follows, Halted, KillReached, Init
<1>7. Active(book) = {}
  BY DEF Init, Active, Status, Open, Absent
<1>8. /\ TotalReservedRisk(book) = 0
      /\ InStatus(book, "close_requested") = {} /\ InStatus(book, "pending") = {}
  BY <1>7, EmptyBook
<1>9. NothingForgotten
  BY <1>8 DEF NothingForgotten
<1>10. ReservedRiskUnderPeak
  BY <1>3, <1>4, <1>8 DEF ReservedRiskUnderPeak, ReservedPercent, RiskScale
<1>11. QED BY <1>1, <1>6, <1>9, <1>10 DEF DecisionInv

-------------------------------------------------------------------------------
(* The theorems. *)

\* Every reachable state of the engine satisfies the invariant of the decisions.
THEOREM DecisionInvariance == Spec => []DecisionInv
<1>1. QED BY DecisionInit, DecisionStep, PTL DEF Spec

\* In every run the mode follows from the marks and the latched halts.
THEOREM ModesFollowLosses == Spec => []ModeFollowsLosses
<1>1. DecisionInv => ModeFollowsLosses
  BY DEF DecisionInv, Follows, ModeFollowsLosses
<1>2. QED BY <1>1, DecisionInvariance, PTL

\* In every run whatever is wanted out has been asked to leave.
THEOREM NothingIsForgotten == Spec => []NothingForgotten
<1>1. DecisionInv => NothingForgotten
  BY DEF DecisionInv
<1>2. QED BY <1>1, DecisionInvariance, PTL

\* In every run the reserved risk stays under 5 % of the equity peak.
THEOREM RiskStaysUnderPeak == Spec => []ReservedRiskUnderPeak
<1>1. DecisionInv => ReservedRiskUnderPeak
  BY DEF DecisionInv
<1>2. QED BY <1>1, DecisionInvariance, PTL

\* A status stays where it is, or takes one step on.
LEMMA SuccessorsReflexive ==
  \A status \in Statuses : status \in Successors(status)
BY SuccessorTable DEF Statuses, Open, Released

\* What a command makes of one reservation.
LEMMA StridesMove ==
  ASSUME DecisionInv, NEW now \in Times, NEW mark \in Equities \cup {NoMark}, Strides(now, mark),
         NEW s \in Signals
  PROVE  Status(book', s) \in Successors(Status(book, s))
<1> DEFINE pre == Prelude(now, mark)
           D == decision'.actions
<1>1. /\ \/ pre.book.reservations[s] = book.reservations[s]
         \/ Status(book, s) = "filled" /\ Status(pre.book, s) = "close_requested"
  BY PreludeStatus
<1>2. \/ book'.reservations[s] = pre.book.reservations[s]
      \/ Moved(pre.book, book', D, s)
      \/ Entered(pre.account, pre.book, book', D, s)
  BY DEF Strides, Handled
<1>3. Status(book, s) \in Statuses /\ Status(pre.book, s) \in Statuses
  BY StridesPrelude DEF Sound, Book, Reservation, Status
<1> HIDE DEF pre, D
<1>4. Status(pre.book, s) \in Successors(Status(book, s))
  BY <1>1, <1>3, SuccessorsReflexive, SuccessorTable DEF Status
<1>5. Status(book', s) \in Successors(Status(pre.book, s))
  BY <1>2, <1>3, SuccessorsReflexive, SuccessorTable DEF Status, Moved, Entered
<1>6. CASE Status(pre.book, s) = Status(book, s)
  BY <1>5, <1>6
<1>7. CASE Status(book, s) = "filled" /\ Status(pre.book, s) = "close_requested"
  BY <1>5, <1>7, SuccessorTable
<1>8. QED BY <1>1, <1>6, <1>7 DEF Status

\* A reservation only ever moves forward.
THEOREM ReservationsOnlyMoveForward == Spec => ReservationsMoveForward
<1>1. DecisionInv /\ [Next]_vars =>
        [\A s \in Signals : Status(book', s) \in Successors(Status(book, s))]_vars
  <2> SUFFICES ASSUME DecisionInv, Next, NEW s \in Signals
               PROVE  Status(book', s) \in Successors(Status(book, s))
    OBVIOUS
  <2>1. CASE \E now \in Times, mark \in Equities \cup {NoMark} : Strides(now, mark)
    BY <2>1, StridesMove
  <2>2. CASE Restarted
    <3>1. After
      BY CommandStep DEF Next, DecisionInv
    <3>2. Status(book', s) = Status(book, s)
      BY <2>2, <3>1, RestartedFacts DEF Status
    <3>3. Status(book, s) \in Statuses
      BY DEF DecisionInv, Inv, Sound, Book, Reservation, Status
    <3>4. QED BY <3>2, <3>3, SuccessorsReflexive
  <2>3. QED BY <2>1, <2>2, CommandStrides DEF Next, DecisionInv
<1>2. QED BY <1>1, DecisionInvariance, PTL DEF Spec, ReservationsMoveForward

\* Whatever enters is affordable at the marks of its own moment.
THEOREM AdmissionsAreAffordable == Spec => AdmissionIsAffordable
<1> DEFINE Affordable(s) ==
      LET after == RiskScale * account'.equity - book'.reservations[s].reserved_risk
      IN  /\ book'.mode = "active"
          /\ Act("create", s) \in decision'.actions
          /\ ~LossReaches(RiskScale * account'.daily_start, after, DailyPercent)
          /\ ~LossReaches(RiskScale * account'.weekly_start, after, WeeklyPercent)
          /\ ~LossReaches(RiskScale * account'.high_watermark, after, DrawdownPercent)
          /\ account'.as_of < book'.reservations[s].expires_at
<1>1. DecisionInv /\ [Next]_vars =>
        [\A s \in Signals :
           Status(book, s) = "absent" /\ Status(book', s) = "pending" => Affordable(s)]_vars
  <2> SUFFICES ASSUME DecisionInv, Next, NEW s \in Signals,
                      Status(book, s) = "absent", Status(book', s) = "pending"
               PROVE  Affordable(s)
    OBVIOUS
  <2>1. ASSUME NEW now \in Times, NEW mark \in Equities \cup {NoMark}, Strides(now, mark)
        PROVE  Affordable(s)
    <3> DEFINE pre == Prelude(now, mark)
    <3>1. Status(pre.book, s) = "absent"
      BY PreludeStatus DEF Status
    <3>2. account' = pre.account
      BY <2>1 DEF Strides
    <3>3. \/ book'.reservations[s] = pre.book.reservations[s]
          \/ Moved(pre.book, book', decision'.actions, s)
          \/ Entered(pre.account, pre.book, book', decision'.actions, s)
      BY <2>1 DEF Strides, Handled
    <3> HIDE DEF pre
    <3>4. Entered(pre.account, pre.book, book', decision'.actions, s)
      BY <3>1, <3>3 DEF Status, Moved
    <3>5. QED BY <3>2, <3>4 DEF Entered
  <2>2. ASSUME Restarted PROVE FALSE
    <3>1. After
      BY CommandStep DEF Next, DecisionInv
    <3>2. QED BY <2>2, <3>1, RestartedFacts DEF Status
  <2>3. QED BY <2>1, <2>2, CommandStrides DEF Next, DecisionInv
<1>2. QED BY <1>1, DecisionInvariance, PTL DEF Spec, AdmissionIsAffordable

\* A period halt ends with its period, by a re-arm or by a new epoch.
THEOREM PeriodHaltsLatch == Spec => HaltsLatch
<1> DEFINE Latches ==
      LET reset == account'.epoch # account.epoch
                    \/ (book.mode = "killed" /\ book'.mode = "active")
      IN  /\ account.daily_halted /\ ~account'.daily_halted =>
               reset \/ account'.daily_anchor # account.daily_anchor
          /\ account.weekly_halted /\ ~account'.weekly_halted =>
               reset \/ account'.weekly_anchor # account.weekly_anchor
<1>1. DecisionInv /\ [Next]_vars => [Latches]_vars
  <2> SUFFICES ASSUME DecisionInv, Next PROVE Latches
    OBVIOUS
  <2>1. ASSUME NEW now \in Times, NEW mark \in Equities \cup {NoMark}, Strides(now, mark)
        PROVE  Latches
    <3> DEFINE pre == Prelude(now, mark)
    <3>1. PreludeFacts(now, pre)
      BY StridesPrelude
    <3>2. account' = pre.account
      BY <2>1 DEF Strides
    <3> HIDE DEF pre
    <3>3. QED BY <3>1, <3>2 DEF PreludeFacts
  <2>2. ASSUME Restarted PROVE Latches
    <3>1. PICK now \in Times, equity \in Equities, epoch \in 0..MaxEpoch :
            /\ account' = Rebased(now, equity, epoch)
            /\ epoch = account.epoch => book.mode = "killed"
      BY <2>2 DEF Restarted
    <3>2. account'.epoch = epoch
      BY <3>1 DEF Rebased
    <3>3. book'.mode = "active"
      BY <2>2 DEF Restarted, DecisionInv, Inv, Sound, Book
    <3>4. QED BY <3>1, <3>2, <3>3
  <2>3. QED BY <2>1, <2>2, CommandStrides DEF Next, DecisionInv
<1>2. QED BY <1>1, DecisionInvariance, PTL DEF Spec, HaltsLatch

-------------------------------------------------------------------------------
(* Which reservations a command may move, and what its creates are about.  The   *)
(* proofs of the Demo lifecycle follow the ledger with these facts.              *)

\* A reservation that is left alone, but for a position the engine wants closed.
Kept(t) ==
  \/ Status(book', t) = Status(book, t)
  \/ Status(book, t) = "filled" /\ Status(book', t) = "close_requested"

Enters(t) == Status(book, t) = "absent" /\ Status(book', t) = "pending"

\* A decision creates the entry of a reservation that enters, and of no other.
CreatesEnter == \A t \in Signals : Act("create", t) \in decision'.actions => Enters(t)

\* The prelude of a command creates nothing and only marks positions for closing.
LEMMA PreludeMoves ==
  ASSUME Inv, NEW now \in Times, NEW mark \in Equities \cup {NoMark}
  PROVE  LET pre == Prelude(now, mark)
         IN  /\ pre.account \in Account /\ Sound(pre.book)
             /\ \A t \in Signals : Act("create", t) \notin pre.actions
             /\ \A t \in Signals :
                  \/ Status(pre.book, t) = Status(book, t)
                  \/ Status(book, t) = "filled" /\ Status(pre.book, t) = "close_requested"
<1> DEFINE pre == Prelude(now, mark)
           a == IF book.mode = "killed" THEN Marked(account, now, mark)
                                        ELSE Latched(Marked(account, now, mark))
<1>1. pre.account \in Account /\ Sound(pre.book) /\ book \in Book
  BY PreludeSound DEF Inv, Sound
<1>2. \A t, n, b, c : /\ Act("create", t) \notin ExpiryCancels(b, n)
                     /\ Act("create", t) \notin BreakerActions(b, c)
  BY DEF Act, ExpiryCancels, BreakerActions, CancelAll, CloseAll
<1>3. CASE mark = NoMark
  BY <1>1, <1>2, <1>3 DEF Prelude
<1>4. CASE mark # NoMark
  <2>1. a \in Account
    BY <1>4, MarkedType, LatchedType DEF Inv
  <2> HIDE DEF a
  <2>2. /\ pre.book = Guarded(book, a)
        /\ pre.actions = ExpiryCancels(book, now) \cup BreakerActions(book, a)
    BY <1>4 DEF Prelude, a
  <2>3. \A t \in Signals :
          \/ Status(Guarded(book, a), t) = Status(book, t)
          \/ Status(book, t) = "filled" /\ Status(Guarded(book, a), t) = "close_requested"
    BY <1>1, <2>1, GuardedFacts
  <2>4. QED BY <1>1, <1>2, <2>2, <2>3
<1>5. QED BY <1>3, <1>4

\* A release moves its reservation, and lets at most the reversal in that waited for it.
LEMMA AfterReleaseMoves ==
  ASSUME NEW a \in Account, NEW b, Sound(b), NEW s \in Signals, s \in Active(b),
         NEW status \in Released
  PROVE  LET c == AfterRelease(a, WithStatus(b, s, status), s)
             D == ReleaseActions(a, WithStatus(b, s, status), s)
         IN  /\ Status(c, s) = status
             /\ \A t \in Signals \ {s} :
                  \/ Status(c, t) = Status(b, t)
                  \/ /\ Status(b, t) = "absent" /\ Status(c, t) = "pending"
                     /\ SymbolOf[t] = SymbolOf[s]
             /\ \A t \in Signals : Act("create", t) \in D =>
                  Status(b, t) = "absent" /\ Status(c, t) = "pending"
<1> DEFINE gone == WithStatus(b, s, status)
           y == SymbolOf[s]
           rest == WithoutReversal(gone, y)
           reversal == gone.reversal_intents[y]
           c == AfterRelease(a, gone, s)
           D == ReleaseActions(a, gone, s)
<1>1. /\ Sound(rest) /\ gone \in Book
      /\ reversal # NoReversal =>
           /\ reversal \in Reversal
           /\ reversal.closing = s
           /\ SymbolOf[reversal.signal] = y
           /\ Status(b, reversal.signal) = "absent"
           /\ Status(rest, reversal.signal) = "absent"
  BY ReleaseFacts
<1>2. /\ c = IF ReversalAdmitted(a, gone, s)
             THEN Admitted(a, rest, reversal.signal, reversal.entry_expires_at)
             ELSE IF WaitsFor(gone, s) THEN rest ELSE gone
      /\ D = IF ReversalAdmitted(a, gone, s) THEN {Act("create", reversal.signal)} ELSE {}
  BY DEF AfterRelease, ReleaseActions
<1>3. ReversalAdmitted(a, gone, s) => reversal # NoReversal
  BY DEF ReversalAdmitted, WaitsFor
<1>4. /\ Status(gone, s) = status
      /\ \A t \in Signals \ {s} : Status(gone, t) = Status(b, t)
  <2>1. b \in Book /\ status \in Statuses
    BY DEF Sound, Statuses
  <2>2. QED BY <2>1, WithStatusFacts
<1>5. \A t \in Signals : Status(rest, t) = Status(gone, t)
  <2>1. rest.reservations = gone.reservations
    BY <1>1, SignalAssumption, WithoutReversalFacts
  <2>2. QED BY <2>1 DEF Status
<1>6. status # "absent" /\ Status(b, s) # "absent"
  BY DEF Released, Active, Open
<1>7. \A t, u : Act("create", t) = Act("create", u) => t = u
  BY DEF Act
<1> HIDE DEF gone, rest, c, D
<1>8. CASE ReversalAdmitted(a, gone, s)
  <2>1. /\ reversal.signal \in Signals /\ reversal.signal # s
        /\ reversal.entry_expires_at \in Int
        /\ SymbolOf[reversal.signal] = y
    BY <1>1, <1>3, <1>6, <1>8 DEF Reversal
  <2>2. /\ Status(c, reversal.signal) = "pending"
        /\ \A t \in Signals \ {reversal.signal} : Status(c, t) = Status(rest, t)
    BY <1>1, <1>2, <1>8, <2>1, AdmittedFacts DEF Sound
  <2>3. D = {Act("create", reversal.signal)}
    BY <1>2, <1>8
  <2>4. Status(b, reversal.signal) = "absent"
    BY <1>1, <1>3, <1>8
  <2>5. QED BY <1>4, <1>5, <1>7, <2>1, <2>2, <2>3, <2>4 DEF c, D, gone
<1>9. CASE ~ReversalAdmitted(a, gone, s)
  <2>1. c \in {rest, gone} /\ D = {}
    BY <1>2, <1>9
  <2>2. Status(c, s) = status /\ \A t \in Signals \ {s} : Status(c, t) = Status(b, t)
    BY <1>4, <1>5, <2>1
  <2>3. QED BY <2>1, <2>2 DEF c, D, gone
<1>10. QED BY <1>8, <1>9

\* A proposal lets at most its own signal in.
LEMMA ProposeMoves ==
  ASSUME Inv, NEW now \in Times, NEW equity \in Equities, NEW p \in Signals,
         ProposeRiskReservation(now, equity, p)
  PROVE  CreatesEnter /\ \A t \in Signals : Kept(t) \/ (t = p /\ Enters(t))
<1> DEFINE pre == Prelude(now, equity)
<1>1. /\ pre.account \in Account /\ Sound(pre.book)
      /\ \A t \in Signals : Act("create", t) \notin pre.actions
      /\ \A t \in Signals :
           \/ Status(pre.book, t) = Status(book, t)
           \/ Status(book, t) = "filled" /\ Status(pre.book, t) = "close_requested"
  BY PreludeMoves
<1>2. \/ ProposeRejected(pre, p)
      \/ ProposeStagedOnClose(pre, p)
      \/ ProposeStagedOnCancel(pre, p)
      \/ ProposeAdmitted(pre, p)
  BY DEF ProposeRiskReservation
<1>3. \A t, u : /\ Act("create", t) = Act("create", u) => t = u
                /\ Act("create", t) # Act("close", u) /\ Act("create", t) # Act("cancel", u)
  BY DEF Act
<1>4. \A b, s, n : \A t \in Signals : Status(Staged(b, s, p, n), t) = Status(b, t)
  BY DEF Staged, Status
<1> HIDE DEF pre
<1>5. CASE ProposeRejected(pre, p)
  BY <1>1, <1>5 DEF ProposeRejected, Decide, CreatesEnter, Kept
<1>6. CASE ProposeStagedOnClose(pre, p)
  <2>1. PICK s \in ActiveOn(pre.book, SymbolOf[p]) :
          /\ Status(pre.book, s) = "filled"
          /\ book' = Staged(WithStatus(pre.book, s, "close_requested"), s, p, ExpiryOf[p])
          /\ decision'.actions = pre.actions \cup {Act("close", s)}
    BY <1>6 DEF ProposeStagedOnClose, Decide
  <2>2. s \in Signals
    BY DEF ActiveOn, Active
  <2>3. /\ Status(WithStatus(pre.book, s, "close_requested"), s) = "close_requested"
        /\ \A t \in Signals \ {s} :
             Status(WithStatus(pre.book, s, "close_requested"), t) = Status(pre.book, t)
    BY <1>1, <2>2, WithStatusFacts DEF Sound, Statuses, Open
  <2>4. QED BY <1>1, <1>3, <1>4, <2>1, <2>2, <2>3 DEF CreatesEnter, Kept
<1>7. CASE ProposeStagedOnCancel(pre, p)
  <2>1. PICK s : /\ book' = Staged(pre.book, s, p, EntryExpiry(pre.account, ExpiryOf[p]))
                 /\ decision'.actions = pre.actions \cup {Act("cancel", s)}
    BY <1>7 DEF ProposeStagedOnCancel, Decide
  <2>2. \A t \in Signals : Status(book', t) = Status(pre.book, t)
    BY <1>4, <2>1
  <2>3. CreatesEnter
    BY <1>1, <1>3, <2>1 DEF CreatesEnter
  <2>4. QED BY <1>1, <2>2, <2>3 DEF Kept
<1>8. CASE ProposeAdmitted(pre, p)
  <2>1. /\ Status(pre.book, p) = "absent"
        /\ book' = Admitted(pre.account, pre.book, p, ExpiryOf[p])
        /\ decision'.actions = pre.actions \cup {Act("create", p)}
    BY <1>8 DEF ProposeAdmitted, Refused, Decide
  <2>2. /\ Status(book', p) = "pending"
        /\ \A t \in Signals \ {p} : Status(book', t) = Status(pre.book, t)
    BY <1>1, <2>1, SignalAssumption, AdmittedFacts DEF Sound
  <2>3. QED BY <1>1, <1>3, <2>1, <2>2 DEF CreatesEnter, Kept, Enters
<1>9. QED BY <1>2, <1>5, <1>6, <1>7, <1>8

\* A confirmed fill moves its pending reservation, and lets nobody in.
LEMMA ConfirmFillMoves ==
  ASSUME Inv, NEW now \in Times, NEW mark \in Equities \cup {NoMark}, NEW s \in Signals,
         ConfirmPendingFill(now, mark, s)
  PROVE  /\ CreatesEnter
         /\ \A t \in Signals :
              \/ Kept(t)
              \/ /\ t = s /\ Status(book, s) = "pending"
                 /\ Status(book', s) \in {"filled", "close_requested"}
<1> DEFINE pre == Prelude(now, mark)
           must == MustClose(pre.book, s)
           next == IF must THEN "close_requested" ELSE "filled"
<1>1. /\ pre.account \in Account /\ Sound(pre.book)
      /\ \A t \in Signals : Act("create", t) \notin pre.actions
      /\ \A t \in Signals :
           \/ Status(pre.book, t) = Status(book, t)
           \/ Status(book, t) = "filled" /\ Status(pre.book, t) = "close_requested"
  BY PreludeMoves
<1>2. \A t, u : Act("create", t) # Act("close", u)
  BY DEF Act
<1>3. CASE book' = pre.book /\ decision'.actions = pre.actions
  <2> HIDE DEF pre
  <2>1. QED BY <1>1, <1>3 DEF CreatesEnter, Kept
<1>4. CASE /\ Status(pre.book, s) = "pending"
           /\ book' = WithStatus(pre.book, s, next)
           /\ decision'.actions = pre.actions \cup (IF must THEN {Act("close", s)} ELSE {})
  <2> HIDE DEF pre
  <2>1. /\ Status(book', s) = next
        /\ \A t \in Signals \ {s} : Status(book', t) = Status(pre.book, t)
    BY <1>1, <1>4, WithStatusFacts DEF Sound, Statuses, Open
  <2> HIDE DEF must
  <2>2. QED BY <1>1, <1>2, <1>4, <2>1 DEF CreatesEnter, Kept
<1>5. QED BY <1>3, <1>4 DEF ConfirmPendingFill, Decide

\* What a release may do: its reservation moves on, others of its symbol may enter.
Releases(s, before, after) ==
  /\ CreatesEnter
  /\ \A t \in Signals \ {s} : Kept(t) \/ (Enters(t) /\ SymbolOf[t] = SymbolOf[s])
  /\ \/ \A t \in Signals : Kept(t)
     \/ Status(book, s) \in before /\ Status(book', s) = after

\* A confirmed cancellation releases its pending reservation.
LEMMA CancelMoves ==
  ASSUME Inv, NEW now \in Times, NEW mark \in Equities \cup {NoMark}, NEW s \in Signals,
         CancelPendingReservation(now, mark, s)
  PROVE  Releases(s, {"pending"}, "cancelled")
<1> DEFINE pre == Prelude(now, mark)
           gone == WithStatus(pre.book, s, "cancelled")
<1>1. /\ pre.account \in Account /\ Sound(pre.book)
      /\ \A t \in Signals : Act("create", t) \notin pre.actions
      /\ \A t \in Signals :
           \/ Status(pre.book, t) = Status(book, t)
           \/ Status(book, t) = "filled" /\ Status(pre.book, t) = "close_requested"
  BY PreludeMoves
<1>2. CASE book' = pre.book /\ decision'.actions = pre.actions
  <2> HIDE DEF pre
  <2>1. QED BY <1>1, <1>2 DEF CreatesEnter, Kept, Releases
<1>3. CASE /\ Status(pre.book, s) = "pending"
           /\ book' = AfterRelease(pre.account, gone, s)
           /\ decision'.actions = pre.actions \cup ReleaseActions(pre.account, gone, s)
  <2>1. s \in Active(pre.book) /\ "cancelled" \in Released
    BY <1>3 DEF Active, Open, Released
  <2> HIDE DEF pre
  <2>2. /\ Status(book', s) = "cancelled"
        /\ \A t \in Signals \ {s} :
             \/ Status(book', t) = Status(pre.book, t)
             \/ /\ Status(pre.book, t) = "absent" /\ Status(book', t) = "pending"
                /\ SymbolOf[t] = SymbolOf[s]
        /\ \A t \in Signals : Act("create", t) \in ReleaseActions(pre.account, gone, s) =>
             Status(pre.book, t) = "absent" /\ Status(book', t) = "pending"
    BY <1>1, <1>3, <2>1, AfterReleaseMoves
  <2> HIDE DEF gone
  <2>3. QED BY <1>1, <1>3, <2>2 DEF CreatesEnter, Kept, Enters, Releases
<1>4. QED BY <1>2, <1>3 DEF CancelPendingReservation, Decide

\* A confirmed close releases its reservation.
LEMMA ClosedMoves ==
  ASSUME Inv, NEW now \in Times, NEW equity \in Equities, NEW s \in Signals,
         ConfirmPositionClosed(now, equity, s)
  PROVE  Releases(s, {"filled", "close_requested"}, "closed")
<1> DEFINE pre == Prelude(now, equity)
           gone == WithStatus(pre.book, s, "closed")
<1>1. /\ pre.account \in Account /\ Sound(pre.book)
      /\ \A t \in Signals : Act("create", t) \notin pre.actions
      /\ \A t \in Signals :
           \/ Status(pre.book, t) = Status(book, t)
           \/ Status(book, t) = "filled" /\ Status(pre.book, t) = "close_requested"
  BY PreludeMoves
<1>2. CASE book' = pre.book /\ decision'.actions = pre.actions
  <2> HIDE DEF pre
  <2>1. QED BY <1>1, <1>2 DEF CreatesEnter, Kept, Releases
<1>3. CASE /\ Status(pre.book, s) \in {"filled", "close_requested"}
           /\ book' = AfterRelease(pre.account, gone, s)
           /\ decision'.actions = pre.actions \cup ReleaseActions(pre.account, gone, s)
  <2>1. s \in Active(pre.book) /\ "closed" \in Released
    BY <1>3 DEF Active, Open, Released
  <2> HIDE DEF pre
  <2>2. /\ Status(book', s) = "closed"
        /\ \A t \in Signals \ {s} :
             \/ Status(book', t) = Status(pre.book, t)
             \/ /\ Status(pre.book, t) = "absent" /\ Status(book', t) = "pending"
                /\ SymbolOf[t] = SymbolOf[s]
        /\ \A t \in Signals : Act("create", t) \in ReleaseActions(pre.account, gone, s) =>
             Status(pre.book, t) = "absent" /\ Status(book', t) = "pending"
    BY <1>1, <1>3, <2>1, AfterReleaseMoves
  <2> HIDE DEF gone
  <2>3. QED BY <1>1, <1>3, <2>2 DEF CreatesEnter, Kept, Enters, Releases
<1>4. QED BY <1>2, <1>3 DEF ConfirmPositionClosed, Decide

\* An operator's close moves nothing that the engine would not.
LEMMA RequestCloseMoves ==
  ASSUME Inv, NEW now \in Times, NEW s \in Signals, RequestPositionClose(now, s)
  PROVE  CreatesEnter /\ \A t \in Signals : Kept(t)
<1> DEFINE pre == Prelude(now, NoMark)
           mid == WithStatus(pre.book, s, "close_requested")
<1>1. /\ Sound(pre.book)
      /\ \A t \in Signals : Act("create", t) \notin pre.actions
      /\ \A t \in Signals :
           \/ Status(pre.book, t) = Status(book, t)
           \/ Status(book, t) = "filled" /\ Status(pre.book, t) = "close_requested"
  BY PreludeMoves
<1>2. \A t, u : Act("create", t) # Act("close", u)
  BY DEF Act
<1>3. CASE book' = pre.book /\ decision'.actions = pre.actions
  <2> HIDE DEF pre
  <2>1. QED BY <1>1, <1>3 DEF CreatesEnter, Kept
<1>4. CASE /\ Status(pre.book, s) \in {"filled", "close_requested"}
           /\ book' = WithoutReversal(mid, SymbolOf[s])
           /\ decision'.actions = pre.actions \cup {Act("close", s)}
  <2> HIDE DEF pre
  <2>1. /\ mid \in Book
        /\ Status(mid, s) = "close_requested"
        /\ \A t \in Signals \ {s} : Status(mid, t) = Status(pre.book, t)
    BY <1>1, WithStatusFacts DEF Sound, Statuses, Open
  <2> HIDE DEF mid
  <2>2. \A t \in Signals : Status(book', t) = Status(mid, t)
    <3>1. book'.reservations = mid.reservations
      BY <1>4, <2>1, SignalAssumption, WithoutReversalFacts
    <3>2. QED BY <3>1 DEF Status
  <2>3. QED BY <1>1, <1>2, <1>4, <2>1, <2>2 DEF CreatesEnter, Kept
<1>5. QED BY <1>3, <1>4 DEF RequestPositionClose, Decide
===============================================================================
