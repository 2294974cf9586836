----------------------- MODULE HistoricalSimulationProofs -----------------------
(***************************************************************************)
(* Theorems of HistoricalSimulation for every market, every set of gaps,   *)
(* every size of a page, every window and every number of failures.        *)
(***************************************************************************)
EXTENDS HistoricalSimulation, FiniteSetFacts

-------------------------------------------------------------------------------
(* The inductive invariant. *)

\* The run is a record of seven fields, of which the rows may be any function.
Shape ==
  /\ run = [pc |-> run.pc, todo |-> run.todo, limit |-> run.limit, attempted |-> run.attempted,
            end |-> run.end, asked |-> run.asked, rows |-> run.rows]
  /\ run.todo \subseteq Signals /\ run.end \in Int /\ run.asked \in Nat
  /\ now \in Nat
  /\ run.pc \in {"off", "next", "asking", "fetched"}
  /\ run.pc \in {"asking", "fetched"} => run.todo # {} /\ run.asked <= now

\* What a run has in work was undecided when it was taken up, and nobody else decides it.
Undecided == run.pc \in {"asking", "fetched"} => ~HasTerminalOutcome(Current)

\* Candles that the run is after.
Wanted(c) ==
  /\ c \in Candles \ gaps
  /\ Opens(c) >= Start(Current) /\ Opens(c) < End(Current) /\ Opens(c) <= run.asked

\* What is wanted has been fetched, or lies in the part of the range that is still to be
\* requested.
Covered ==
  /\ run.pc = "asking" => \A c \in Candles : Wanted(c) => c \in DOMAIN run.rows
                                                          \/ Opens(c) <= run.end
  /\ run.pc = "fetched" => \A c \in Candles : Wanted(c) => c \in DOMAIN run.rows

Inv == Shape /\ Undecided /\ Covered

-------------------------------------------------------------------------------
(* Least elements, and pages. *)

\* A set of numbers has a least element.
LEMMA Least ==
  ASSUME NEW S, S \subseteq Nat, S # {}
  PROVE  \E x \in S : \A y \in S : x <= y
<1> DEFINE R == OpToRel(<, Nat)
<1>1. IsWellFoundedOn(R, Nat)
  BY NatLessThanWellFounded
<1> HIDE DEF R
<1>2. PICK x \in S : \A y \in S : ~(<<y, x>> \in R)
  BY <1>1, WFMin
<1>3. \A y \in S : <<y, x>> \in R <=> y < x
  BY DEF R, OpToRel
<1>4. \A y \in S : ~(y < x)
  BY <1>2, <1>3
<1>5. \A y \in S : y \in Nat /\ x \in Nat
  OBVIOUS
<1>6. QED BY <1>4, <1>5

\* Min finds it.
LEMMA MinFacts ==
  ASSUME NEW S, S \subseteq Nat, S # {}
  PROVE  Min(S) \in S /\ \A y \in S : Min(S) <= y
BY Least DEF Min

\* Of a finite set S of numbers, a page holds the PageLimit largest: what it leaves out is
\* smaller than all that it holds, and a page that is not full leaves nothing out.
LEMMA PageFacts ==
  ASSUME NEW S, IsFiniteSet(S), S \subseteq Nat, NEW page,
         page = {c \in S : Cardinality({d \in S : d > c}) < PageLimit}
  PROVE  /\ \A c \in S \ page : \A d \in page : c < d
         /\ Cardinality(page) < PageLimit => page = S
<1> DEFINE Above(c) == {d \in S : d > c}
<1>1. \A c \in S : IsFiniteSet(Above(c)) /\ Cardinality(Above(c)) \in Nat
  <2>1. \A c \in S : Above(c) \subseteq S
    OBVIOUS
  <2> HIDE DEF Above
  <2>2. QED BY <2>1, FS_Subset, FS_CardinalityType
<1>2. ASSUME NEW c \in S, NEW d \in S, d <= c
      PROVE  Cardinality(Above(c)) <= Cardinality(Above(d))
  <2>1. Above(c) \subseteq Above(d)
    <3> SUFFICES ASSUME NEW e \in S, e > c PROVE e > d
      OBVIOUS
    <3>1. c \in Nat /\ d \in Nat /\ e \in Nat
      OBVIOUS
    <3>2. QED BY <1>2, <3>1
  <2> HIDE DEF Above
  <2>2. QED BY <1>1, <2>1, FS_Subset
<1>3. PageLimit \in Nat
  BY SimulationAssumption
<1>4. ASSUME NEW c \in S \ page, NEW d \in page PROVE c < d
  <2>1. ~(Cardinality(Above(c)) < PageLimit) /\ Cardinality(Above(d)) < PageLimit /\ d \in S
    OBVIOUS
  <2> HIDE DEF Above
  <2>2. ~(d <= c)
    BY <1>1, <1>2, <1>3, <2>1
  <2>3. QED BY <2>1, <2>2
<1>5. ASSUME Cardinality(page) < PageLimit PROVE page = S
  <2> SUFFICES ASSUME page # S PROVE FALSE
    BY <1>5
  <2> DEFINE Left == S \ page
             Sizes == {Cardinality(Above(c)) : c \in Left}
  <2>1. Left # {} /\ Left \subseteq S /\ page \subseteq S
    OBVIOUS
  <2>2. Sizes \subseteq Nat /\ Sizes # {}
    <3> HIDE DEF Above, Left
    <3>1. QED BY <1>1, <2>1
  <2>3. PICK n \in Sizes : \A k \in Sizes : n <= k
    <3> HIDE DEF Sizes
    <3>1. QED BY <2>2, Least
  <2>4. PICK c \in Left : n = Cardinality(Above(c))
    OBVIOUS
  <2>5. Above(c) \subseteq page
    <3> SUFFICES ASSUME NEW d \in Above(c), d \notin page PROVE FALSE
      OBVIOUS
    <3>1. d \in Left /\ c \in S /\ d \in S /\ d > c
      OBVIOUS
    <3>2. Cardinality(Above(d)) >= n
      BY <2>3, <3>1
    <3>3. Above(d) \subseteq Above(c) /\ d \in Above(c) /\ d \notin Above(d)
      <4>1. c \in Nat /\ d \in Nat /\ \A e \in S : e \in Nat
        BY <3>1
      <4>2. ~(d > d) /\ \A e \in S : e > d => e > c
        BY <3>1, <4>1
      <4>3. Above(d) \subseteq Above(c)
        BY <4>2
      <4>4. d \in Above(c)
        OBVIOUS
      <4>5. d \notin Above(d)
        BY <4>2
      <4>6. QED BY <4>3, <4>4, <4>5
    <3>4. Cardinality(Above(d)) < Cardinality(Above(c))
      <4>1. Above(d) # Above(c)
        BY <3>3
      <4> HIDE DEF Above
      <4>2. QED BY <1>1, <3>1, <3>3, <4>1, FS_Subset
    <3>5. Cardinality(Above(c)) \in Nat /\ Cardinality(Above(d)) \in Nat
      BY <1>1, <3>1
    <3> HIDE DEF Above, Left, Sizes
    <3>6. QED BY <2>4, <3>2, <3>4, <3>5
  <2>6. IsFiniteSet(page) /\ Cardinality(page) \in Nat
    BY <2>1, FS_Subset, FS_CardinalityType
  <2>7. Cardinality(Above(c)) <= Cardinality(page)
    <3> HIDE DEF Above
    <3>1. QED BY <2>5, <2>6, FS_Subset
  <2>8. ~(Cardinality(Above(c)) < PageLimit) /\ Cardinality(Above(c)) \in Nat
    BY <1>1, <2>4
  <2> HIDE DEF Above, Left, Sizes
  <2>9. QED BY <1>3, <1>5, <2>6, <2>7, <2>8
<1>6. QED BY <1>4, <1>5

-------------------------------------------------------------------------------
(* The steps. *)

\* The signal in work is one of the signals, and its range is made of numbers.
LEMMA CurrentFacts ==
  ASSUME Shape, run.todo # {}
  PROVE  /\ Current \in run.todo /\ Current \in Signals
         /\ Start(Current) \in Nat /\ End(Current) \in Nat
<1>1. run.todo \subseteq Nat /\ run.todo \subseteq Signals
  BY SimulationAssumption DEF Shape
<1>2. Current \in run.todo /\ Current \in Signals
  BY <1>1, MinFacts DEF Current
<1>3. Received[Current] \in Nat /\ EntryWindow \in Nat /\ ExitHorizon \in Nat
  BY <1>2, SimulationAssumption
<1>4. QED BY <1>2, <1>3 DEF Start, End, Expiry

\* A request gets hold of the newest candles of its range; what it does not get lies
\* in front of them.
LEMMA RequestCovers ==
  ASSUME Inv, run.pc = "asking", RequestsPage(Page)
  PROVE  Inv'
<1>1. Shape /\ Undecided /\ Covered /\ run.todo # {} /\ run.asked <= now
  BY DEF Inv, Shape
<1>2. Start(Current) \in Nat /\ End(Current) \in Nat
  BY <1>1, CurrentFacts
<1> DEFINE served == {c \in Candles \ gaps : /\ Opens(c) >= Start(Current)
                                           /\ Opens(c) <= run.end /\ Opens(c) <= now}
<1>3. Page = {c \in served : Cardinality({d \in served : d > c}) < PageLimit}
  BY DEF Page
<1>4. IsFiniteSet(Candles) /\ Candles \subseteq Nat /\ PageLimit \in Nat \ {0}
  BY SimulationAssumption
<1>5. IsFiniteSet(served) /\ served \subseteq Nat
  BY <1>4, FS_Subset
<1>6. Page \subseteq served
  BY <1>3
<1> HIDE DEF served
<1>7. /\ \A c \in served \ Page : \A d \in Page : c < d
      /\ Cardinality(Page) < PageLimit => Page = served
  BY <1>3, <1>5, PageFacts
<1>8. Page # {} => Min(Page) \in Page /\ (\A d \in Page : Min(Page) <= d) /\ Min(Page) \in Nat
  BY <1>5, <1>6, MinFacts
<1>9. Page = {} => Cardinality(Page) < PageLimit
  BY <1>4, FS_EmptySet
<1>10. PICK rows : /\ DOMAIN rows = Page \cup DOMAIN run.rows
                   /\ run' = IF LastPage(Page) THEN [run EXCEPT !.pc = "fetched", !.rows = rows]
                             ELSE [run EXCEPT !.rows = rows, !.end = Opens(Min(Page)) - 1]
  BY DEF RequestsPage
<1>11. UNCHANGED <<now, gaps, outcome>>
  BY DEF RequestsPage
<1>12. /\ run'.todo = run.todo /\ run'.asked = run.asked /\ run'.rows = rows
       /\ run'.limit = run.limit /\ run'.attempted = run.attempted
       /\ LastPage(Page) => run'.pc = "fetched" /\ run'.end = run.end
       /\ ~LastPage(Page) => run'.pc = "asking" /\ run'.end = Opens(Min(Page)) - 1
  BY <1>1, <1>10 DEF Shape
<1>13. Shape'
  <2>1. run' = [pc |-> run'.pc, todo |-> run'.todo, limit |-> run'.limit,
                attempted |-> run'.attempted, end |-> run'.end, asked |-> run'.asked,
                rows |-> run'.rows]
    BY <1>1, <1>10, <1>12 DEF Shape
  <2>2. run'.end \in Int
    BY <1>1, <1>8, <1>9, <1>12 DEF Shape, LastPage, Opens
  <2>3. QED BY <1>1, <1>11, <1>12, <2>1, <2>2 DEF Shape
<1>14. Current' = Current
  BY <1>12 DEF Current
<1>15. Undecided'
  BY <1>1, <1>11, <1>14 DEF Undecided, HasTerminalOutcome
<1>16. ASSUME NEW c \in Candles, Wanted(c)'
       PROVE  c \in DOMAIN run'.rows \/ (~LastPage(Page) /\ Opens(c) <= run'.end)
  <2>1. Wanted(c)
    BY <1>11, <1>12, <1>14, <1>16 DEF Wanted, Start, End, Expiry
  <2>2. CASE c \in DOMAIN run.rows \/ c \in Page
    BY <2>2, <1>10, <1>12
  <2>3. CASE c \notin DOMAIN run.rows /\ c \notin Page
    <3>1. c \in Nat /\ Opens(c) \in Nat
      BY <1>4 DEF Opens
    <3>2. c \in served
      <4>1. Opens(c) <= run.end
        BY <1>1, <2>1, <2>3 DEF Covered
      <4>2. Opens(c) <= now
        BY <1>1, <2>1, <3>1 DEF Wanted, Shape
      <4>3. QED BY <2>1, <4>1, <4>2 DEF served, Wanted
    <3>3. Page # {} /\ ~(Cardinality(Page) < PageLimit)
      BY <1>7, <1>9, <2>3, <3>2
    <3>4. c < Min(Page) /\ Min(Page) \in Nat
      BY <1>7, <1>8, <2>3, <3>2, <3>3
    <3>5. Opens(c) <= Opens(Min(Page)) - 1
      BY <3>1, <3>4 DEF Opens
    <3>6. ~LastPage(Page)
      BY <1>2, <2>1, <3>1, <3>3, <3>4, <3>5 DEF LastPage, Wanted, Opens
    <3>7. QED BY <1>12, <3>5, <3>6
  <2>4. QED BY <2>2, <2>3
<1>17. Covered'
  BY <1>12, <1>16 DEF Covered
<1>18. QED BY <1>13, <1>15, <1>17 DEF Inv

\* The steps that take nothing up.
LEMMA RestInv ==
  ASSUME Inv, run'.pc \in {"off", "next"}, Shape'
  PROVE  Inv'
BY DEF Inv, Undecided, Covered

\* Taking a signal up.
LEMMA AttemptsInv == ASSUME Inv, Attempts PROVE Inv'
<1>1. Shape /\ run.todo # {} /\ ~HasTerminalOutcome(Current)
  BY DEF Inv, Attempts
<1>2. Start(Current) \in Nat /\ End(Current) \in Nat
  BY <1>1, CurrentFacts
<1>3. UNCHANGED <<now, gaps, outcome>>
  BY DEF Attempts
<1>4. /\ run' = [pc |-> "asking", todo |-> run.todo, limit |-> run.limit,
                 attempted |-> run.attempted + 1, end |-> End(Current), asked |-> now,
                 rows |-> NoRows]
  BY <1>1 DEF Attempts, Shape
<1>5. Shape'
  BY <1>1, <1>2, <1>3, <1>4 DEF Shape
<1>6. Current' = Current
  BY <1>4 DEF Current
<1>7. Undecided'
  BY <1>1, <1>3, <1>6 DEF Undecided, HasTerminalOutcome
<1>8. Covered'
  <2>1. run'.pc = "asking" /\ run'.end = End(Current)
    BY <1>4
  <2>2. ASSUME NEW c \in Candles, Wanted(c)' PROVE Opens(c) <= run'.end
    <3>1. Opens(c) < End(Current)
      BY <1>6, <2>2 DEF Wanted, End, Expiry
    <3>2. Opens(c) \in Nat
      BY SimulationAssumption DEF Opens
    <3>3. QED BY <1>2, <2>1, <3>1, <3>2
  <2>3. QED BY <2>1, <2>2 DEF Covered
<1>9. QED BY <1>5, <1>7, <1>8 DEF Inv

\* A step that leaves the run alone, with time not going back.
LEMMA AroundInv ==
  ASSUME Inv, UNCHANGED <<gaps, outcome, run>>, now' \in Nat, now' >= now
  PROVE  Inv'
<1>1. Shape /\ Undecided /\ Covered
  BY DEF Inv
<1>2. Current' = Current
  BY DEF Current
<1>3. Shape'
  BY <1>1 DEF Shape
<1>4. Undecided'
  BY <1>1, <1>2 DEF Undecided, HasTerminalOutcome
<1>5. \A c : Wanted(c)' = Wanted(c)
  BY <1>2 DEF Wanted, Start, End, Expiry
<1>6. Covered'
  BY <1>1, <1>5 DEF Covered
<1>7. QED BY <1>3, <1>4, <1>6 DEF Inv

\* The run gives up what it was after, or ends.
LEMMA EndsInv ==
  ASSUME Inv, Skips \/ Finishes \/ Killed \/ RequestFails
              \/ (\E limit \in Limits : Starts(limit))
              \/ (\E r : Records(Current, r))
  PROVE  Inv'
<1>1. Shape
  BY DEF Inv
<1>2. UNCHANGED now
  BY DEF Skips, Finishes, Killed, RequestFails, Starts, Records
<1>3. CASE Skips
  <2>1. /\ run' = [run EXCEPT !.todo = run.todo \ {Current}] /\ run.pc = "next"
    BY <1>3 DEF Skips
  <2>2. Shape' /\ run'.pc = "next"
    BY <1>1, <1>2, <2>1 DEF Shape
  <2>3. QED BY <2>2, RestInv
<1>4. CASE Finishes \/ Killed
  <2>1. run' = NotRunning
    BY <1>4 DEF Finishes, Killed
  <2>2. Shape' /\ run'.pc = "off"
    BY <1>1, <1>2, <2>1 DEF Shape, NotRunning
  <2>3. QED BY <2>2, RestInv
<1>5. CASE RequestFails \/ \E r : Records(Current, r)
  <2>1. run' = [run EXCEPT !.pc = "next", !.rows = NoRows, !.todo = run.todo \ {Current}]
    BY <1>5 DEF RequestFails, Records
  <2>2. Shape' /\ run'.pc = "next"
    BY <1>1, <1>2, <2>1 DEF Shape
  <2>3. QED BY <2>2, RestInv
<1>6. CASE \E limit \in Limits : Starts(limit)
  <2>1. PICK limit \in Limits : run' = [NotRunning EXCEPT !.pc = "next", !.limit = limit,
                                           !.todo = {s \in Signals : s <= checkpoint}]
    BY <1>6 DEF Starts
  <2>2. run' = [pc |-> "next", todo |-> {s \in Signals : s <= checkpoint}, limit |-> limit,
                attempted |-> 0, end |-> 0, asked |-> 0, rows |-> NoRows]
    BY <2>1 DEF NotRunning
  <2>3. {s \in Signals : s <= checkpoint} \subseteq Signals
    OBVIOUS
  <2>4. Shape' /\ run'.pc = "next"
    BY <1>1, <1>2, <2>2, <2>3 DEF Shape
  <2>5. QED BY <2>4, RestInv
<1>7. QED BY <1>3, <1>4, <1>5, <1>6

\* Time goes on from one of its moments to the next.
LEMMA TickInv == ASSUME Inv, Tick PROVE Inv'
<1> DEFINE later == {t \in Times : t > now}
<1>1. later \subseteq Nat /\ later # {} /\ now' = Min(later)
  BY SimulationAssumption DEF Tick
<1>2. now' \in later
  BY <1>1, MinFacts
<1>3. now' \in Nat /\ now' > now /\ now \in Nat
  BY <1>1, <1>2 DEF Inv, Shape
<1>4. QED BY <1>3, AroundInv DEF Tick

\* No step breaks the invariant.
LEMMA NextInv == ASSUME Inv, [SimulationNext]_simulationVars PROVE Inv'
<1>1. now \in Nat /\ now >= now
  BY DEF Inv, Shape
<1>2. CASE UNCHANGED simulationVars
  BY <1>1, <1>2, AroundInv DEF simulationVars
<1>3. CASE Tick
  BY <1>3, TickInv
<1>4. ASSUME NEW s \in Signals, BackfillAdvances(s) PROVE Inv'
  BY <1>1, <1>4, AroundInv DEF BackfillAdvances
<1>5. CASE (\E limit \in Limits : Starts(limit)) \/ RequestFails \/ Killed
  BY <1>5, EndsInv
<1>6. CASE RunStep
  <2>1. CASE Skips \/ Finishes
    BY <2>1, EndsInv
  <2>2. CASE Attempts
    BY <2>2, AttemptsInv
  <2>3. CASE run.pc = "asking" /\ RequestsPage(Page)
    BY <2>3, RequestCovers
  <2>4. CASE \E r : Records(Current, r)
    BY <2>4, EndsInv
  <2>5. QED BY <1>6, <2>1, <2>2, <2>3, <2>4 DEF RunStep
<1>7. QED BY <1>2, <1>3, <1>4, <1>5, <1>6 DEF SimulationNext

-------------------------------------------------------------------------------
(* What a simulation decides. *)

\* A least element is the one that Min finds.
LEMMA MinIs ==
  ASSUME NEW S, S \subseteq Nat, NEW x \in S, \A y \in S : x <= y
  PROVE  Min(S) = x
<1>1. Min(S) \in S /\ \A y \in S : Min(S) <= y
  BY MinFacts
<1>2. Min(S) <= x /\ x <= Min(S) /\ x \in Nat /\ Min(S) \in Nat
  BY <1>1
<1>3. QED BY <1>2

\* The greatest candle of finitely many.
LEMMA MaxFacts ==
  ASSUME NEW S, S \subseteq Nat, IsFiniteSet(S), S # {}
  PROVE  Max(S) \in S /\ \A y \in S : y <= Max(S)
<1>1. S \subseteq Int
  OBVIOUS
<1>2. \E x \in S : \A y \in S : y <= x
  BY <1>1, GreatestExists
<1>3. \E x \in S : \A y \in S : x >= y
  BY <1>2
<1>4. QED BY <1>3 DEF Max

\* The thresholds that a candle has touched.
LEMMA BarrierFacts ==
  ASSUME NEW touches
  PROVE  /\ Barriers(touches) = NoOutcome <=> touches \cap {"tp", "sl"} = {}
         /\ Barriers(touches) \in Terminal \cup {NoOutcome}
         /\ touches \cap {"tp", "sl"} # {} =>
              Barriers(touches) = IF {"tp", "sl"} \subseteq touches THEN "intrabar_ambiguity"
                                  ELSE IF "tp" \in touches THEN "take_profit_first"
                                  ELSE "stop_loss_first"
<1>1. CASE {"tp", "sl"} \subseteq touches
  BY <1>1 DEF Barriers, Terminal, NoOutcome
<1>2. CASE "tp" \in touches /\ "sl" \notin touches
  BY <1>2 DEF Barriers, Terminal, NoOutcome
<1>3. CASE "sl" \in touches /\ "tp" \notin touches
  BY <1>3 DEF Barriers, Terminal, NoOutcome
<1>4. CASE touches \cap {"tp", "sl"} = {}
  BY <1>4 DEF Barriers, Terminal, NoOutcome
<1>5. QED BY <1>1, <1>2, <1>3, <1>4

\* Rows that can be trusted: closed candles show what they touch in the end, and only the
\* newest candle can be open.
Trusted(rows) ==
  /\ DOMAIN rows \subseteq Candles
  /\ \A c \in DOMAIN rows : rows[c].open \/ rows[c].touches = market[c]
  /\ \A c, d \in DOMAIN rows : rows[c].open => d <= c

\* The entry window has a complete minute, and the simulation insists on all of them.
LEMMA WindowFacts ==
  ASSUME NEW s \in Signals, NEW rows, DOMAIN rows \subseteq Candles, Contiguous(s, rows)
  PROVE  /\ Eligible(s, rows) # {} /\ IsFiniteSet(Eligible(s, rows))
         /\ Eligible(s, rows) \subseteq DOMAIN rows
         /\ \A c \in Candles : Opens(c) >= Start(s) /\ Closes(c) <= Expiry(s)
                                 => c \in Eligible(s, rows)
<1>1. /\ IsFiniteSet(Candles) /\ Candles \subseteq Nat
      /\ Received[s] \in Nat /\ EntryWindow \in Nat \ {0, 1, 2}
  BY SimulationAssumption
<1>2. PICK k \in Nat : Start(s) = 2 * k
  <2>1. CASE Received[s] % 2 = 0
    <3>1. Received[s] = 2 * (Received[s] \div 2) /\ Received[s] \div 2 \in Nat
      BY <1>1, <2>1
    <3>2. QED BY <2>1, <3>1 DEF Start
  <2>2. CASE Received[s] % 2 # 0
    <3>1. Received[s] + 1 = 2 * (Received[s] \div 2 + 1) /\ Received[s] \div 2 + 1 \in Nat
      BY <1>1, <2>2
    <3>2. QED BY <2>2, <3>1 DEF Start
  <2>3. QED BY <2>1, <2>2
<1>3. Start(s) \div 2 = k /\ Start(s) <= Received[s] + 1
  BY <1>1, <1>2 DEF Start
<1>4. Expiry(s) \in Nat /\ Expiry(s) >= 2 * k + 2
  BY <1>1, <1>2, <1>3 DEF Expiry
<1>5. ASSUME NEW c \in Nat, Opens(c) >= Start(s), Closes(c) <= Expiry(s)
      PROVE  c \in DOMAIN rows
  <2>1. c >= k /\ 2 * c + 2 <= Expiry(s)
    BY <1>2, <1>5 DEF Opens, Closes
  <2>2. c <= Expiry(s) \div 2 - 1
    BY <1>4, <2>1
  <2>3. c \in (Start(s) \div 2)..(Expiry(s) \div 2 - 1)
    BY <1>3, <1>4, <2>1, <2>2
  <2>4. QED BY <2>3 DEF Contiguous
<1>6. Opens(k) >= Start(s) /\ Closes(k) <= Expiry(s)
  BY <1>2, <1>4 DEF Opens, Closes
<1>7. k \in Eligible(s, rows)
  BY <1>5, <1>6 DEF Eligible
<1>8. Eligible(s, rows) \subseteq Candles
  BY DEF Eligible
<1>9. IsFiniteSet(Eligible(s, rows))
  BY <1>1, <1>8, FS_Subset
<1>10. \A c \in Candles : Opens(c) >= Start(s) /\ Closes(c) <= Expiry(s) => c \in Eligible(s, rows)
  BY <1>1, <1>5 DEF Eligible
<1>11. QED BY <1>7, <1>9, <1>10 DEF Eligible

\* Where the walk after the entry halts: within the horizon it has seen nothing but
\* complete rows that touch nothing.
LEMMA WalkFacts ==
  ASSUME NEW rows, DOMAIN rows \subseteq Candles, NEW entry \in Nat
  PROVE  \E last \in Nat :
           /\ last > entry
           /\ \A c \in Nat : entry < c /\ c < last =>
                /\ c \in DOMAIN rows /\ rows[c].touches \cap {"tp", "sl"} = {}
                /\ Closes(c) <= Opens(entry) + ExitHorizon
           /\ \/ /\ Closes(last) > Opens(entry) + ExitHorizon
                 /\ AfterEntry(rows, entry) = Decided("no_exit_within_horizon", last - 1)
              \/ /\ Closes(last) <= Opens(entry) + ExitHorizon
                 /\ last \notin DOMAIN rows
                 /\ AfterEntry(rows, entry) = Decided(Insufficient, last)
              \/ /\ Closes(last) <= Opens(entry) + ExitHorizon
                 /\ last \in DOMAIN rows /\ rows[last].touches \cap {"tp", "sl"} # {}
                 /\ AfterEntry(rows, entry) = Decided(Barriers(rows[last].touches), last)
<1> DEFINE beyond(c) == Closes(c) > Opens(entry) + ExitHorizon
           halts(c) == beyond(c) \/ c \notin DOMAIN rows \/ Barriers(rows[c].touches) # NoOutcome
           H == {c \in (entry + 1)..(entry + ExitHorizon) : halts(c)}
           last == Min(H)
<1>1. ExitHorizon \in Nat /\ ExitHorizon >= 2
  BY SimulationAssumption
<1>2. entry + ExitHorizon \in H
  BY <1>1 DEF Opens, Closes
<1>3. H \subseteq Nat
  BY <1>1
<1>4. last \in H /\ \A c \in H : last <= c
  <2> HIDE DEF H
  <2>1. QED BY <1>2, <1>3, MinFacts
<1>5. last \in Nat /\ last > entry /\ halts(last) /\ last <= entry + ExitHorizon
  BY <1>1, <1>4
<1>6. \A c \in Nat : entry < c /\ c < last => ~halts(c)
  BY <1>1, <1>4, <1>5
<1>7. AfterEntry(rows, entry) =
        IF beyond(last) THEN Decided("no_exit_within_horizon", last - 1)
        ELSE IF last \notin DOMAIN rows THEN Decided(Insufficient, last)
        ELSE Decided(Barriers(rows[last].touches), last)
  BY DEF AfterEntry
<1> HIDE DEF last, H
<1>8. \A c \in Nat : beyond(c) <=> ~(Closes(c) <= Opens(entry) + ExitHorizon)
  BY <1>1 DEF Opens, Closes
<1>9. \A c \in Nat : entry < c /\ c < last =>
        /\ c \in DOMAIN rows /\ rows[c].touches \cap {"tp", "sl"} = {}
        /\ Closes(c) <= Opens(entry) + ExitHorizon
  BY <1>6, <1>8, BarrierFacts
<1>10. CASE beyond(last)
  BY <1>5, <1>7, <1>9, <1>10
<1>11. CASE ~beyond(last) /\ last \notin DOMAIN rows
  BY <1>5, <1>7, <1>8, <1>9, <1>11
<1>12. CASE ~beyond(last) /\ last \in DOMAIN rows
  <2>1. rows[last].touches \cap {"tp", "sl"} # {}
    BY <1>5, <1>12, BarrierFacts
  <2>2. QED BY <1>5, <1>7, <1>8, <1>9, <1>12, <2>1
<1>13. QED BY <1>10, <1>11, <1>12

\* The first entry and the first exit of the finished candles give the truth.
LEMMA TruthOf ==
  ASSUME NEW s \in Signals, NEW entry \in Candles,
         Opens(entry) >= Start(s), Closes(entry) <= Expiry(s), "entry" \in market[entry],
         \A c \in Candles : "entry" \in market[c] /\ Opens(c) >= Start(s) /\ Closes(c) <= Expiry(s)
                         => entry <= c
  PROVE  LET Exit(c) == /\ c >= entry /\ Closes(c) <= Opens(entry) + ExitHorizon
                        /\ market[c] \cap {"tp", "sl"} # {}
         IN  /\ (\A c \in Candles : ~Exit(c)) => Truth(s) = "no_exit_within_horizon"
             /\ \A exit \in Candles :
                  Exit(exit) /\ (\A c \in Candles : Exit(c) => exit <= c) =>
                    Truth(s) = IF exit = entry \/ {"tp", "sl"} \subseteq market[exit]
                               THEN "intrabar_ambiguity"
                               ELSE IF "tp" \in market[exit] THEN "take_profit_first"
                               ELSE "stop_loss_first"
<1> DEFINE entries == {c \in Candles : /\ Opens(c) >= Start(s) /\ Closes(c) <= Expiry(s)
                                       /\ "entry" \in market[c]}
           Exits(e) == {c \in Candles : /\ c >= e /\ Closes(c) <= Opens(e) + ExitHorizon
                                        /\ market[c] \cap {"tp", "sl"} # {}}
<1>1. Candles \subseteq Nat
  BY SimulationAssumption
<1>2. entries # {} /\ Min(entries) = entry
  <2>1. entry \in entries /\ entries \subseteq Nat /\ \A c \in entries : entry <= c
    BY <1>1
  <2> HIDE DEF entries
  <2>2. QED BY <2>1, MinIs
<1>3. Truth(s) =
        CASE entries = {} -> "no_entry_before_expiry"
          [] entries # {} /\ Exits(Min(entries)) = {} -> "no_exit_within_horizon"
          [] entries # {} /\ Exits(Min(entries)) # {} ->
               IF Min(Exits(Min(entries))) = Min(entries)
                    \/ {"tp", "sl"} \subseteq market[Min(Exits(Min(entries)))]
               THEN "intrabar_ambiguity"
               ELSE IF "tp" \in market[Min(Exits(Min(entries)))] THEN "take_profit_first"
               ELSE "stop_loss_first"
  BY DEF Truth
<1>4. Exits(entry) = {} => Truth(s) = "no_exit_within_horizon"
  <2> HIDE DEF entries, Exits
  <2>1. QED BY <1>2, <1>3
<1>5. Exits(entry) # {} =>
        Truth(s) = IF Min(Exits(entry)) = entry \/ {"tp", "sl"} \subseteq market[Min(Exits(entry))]
                   THEN "intrabar_ambiguity"
                   ELSE IF "tp" \in market[Min(Exits(entry))] THEN "take_profit_first"
                   ELSE "stop_loss_first"
  <2> HIDE DEF entries, Exits
  <2>1. QED BY <1>2, <1>3
<1>6. ASSUME NEW exit \in Exits(entry), \A c \in Exits(entry) : exit <= c
      PROVE  Min(Exits(entry)) = exit
  <2>1. Exits(entry) \subseteq Nat
    BY <1>1
  <2> HIDE DEF Exits
  <2>2. QED BY <1>6, <2>1, MinIs
<1>7. \A c \in Candles : c \in Exits(entry) <=> /\ c >= entry
                                               /\ Closes(c) <= Opens(entry) + ExitHorizon
                                               /\ market[c] \cap {"tp", "sl"} # {}
  OBVIOUS
<1>8. Exits(entry) \subseteq Candles
  OBVIOUS
<1> HIDE DEF Exits, entries
<1>9. QED BY <1>4, <1>5, <1>6, <1>7, <1>8

\* A candle up to one that is closed is closed too.
LEMMA ClosedBefore ==
  ASSUME NEW rows, Trusted(rows), NEW k \in DOMAIN rows, ~rows[k].open,
         NEW c \in DOMAIN rows, c <= k
  PROVE  ~rows[c].open /\ rows[c].touches = market[c]
<1>1. c \in Nat /\ k \in Nat
  BY SimulationAssumption DEF Trusted
<1>2. rows[c].open => k <= c
  BY DEF Trusted
<1>3. ~rows[c].open
  <2>1. SUFFICES ASSUME rows[c].open PROVE FALSE
    OBVIOUS
  <2>2. c = k
    BY <1>1, <1>2, <2>1
  <2>3. QED BY <2>1, <2>2
<1>4. QED BY <1>3 DEF Trusted

\* The entry that the simulation finds is the entry of the finished candles, if a closed
\* candle not before it decides.
LEMMA EntryIsTrue ==
  ASSUME NEW s \in Signals, NEW rows, Trusted(rows), Contiguous(s, rows),
         NEW entry \in Eligible(s, rows), "entry" \in rows[entry].touches,
         \A c \in Eligible(s, rows) : "entry" \in rows[c].touches => entry <= c,
         NEW k \in DOMAIN rows, ~rows[k].open, entry <= k
  PROVE  /\ entry \in Candles
         /\ Opens(entry) >= Start(s) /\ Closes(entry) <= Expiry(s) /\ "entry" \in market[entry]
         /\ \A c \in Candles : "entry" \in market[c] /\ Opens(c) >= Start(s) /\ Closes(c) <= Expiry(s)
                            => entry <= c
<1>1. Candles \subseteq Nat /\ DOMAIN rows \subseteq Candles
  BY SimulationAssumption DEF Trusted
<1>2. entry \in DOMAIN rows /\ Opens(entry) >= Start(s) /\ Closes(entry) <= Expiry(s)
  BY DEF Eligible
<1>3. rows[entry].touches = market[entry]
  BY <1>2, ClosedBefore
<1>4. ASSUME NEW c \in Candles, Opens(c) >= Start(s), Closes(c) <= Expiry(s),
             "entry" \in market[c], ~(entry <= c)
      PROVE  FALSE
  <2>1. c \in Eligible(s, rows) /\ c \in DOMAIN rows
    BY <1>1, <1>4, WindowFacts
  <2>2. c <= k
    <3>1. c \in Nat /\ entry \in Nat /\ k \in Nat
      BY <1>1, <1>2
    <3>2. QED BY <1>4, <3>1
  <2>3. rows[c].touches = market[c]
    BY <2>1, <2>2, ClosedBefore
  <2>4. QED BY <1>4, <2>1, <2>3
<1>5. QED BY <1>1, <1>2, <1>3, <1>4

\* A simulation decides or lacks data; what it decides by a closed candle is the truth.
LEMMA SimulateFacts ==
  ASSUME NEW s \in Signals, NEW rows, Trusted(rows), NEW result, result = Simulate(s, rows)
  PROVE  /\ result.outcome \in Terminal \cup {Insufficient}
         /\ result.outcome # Insufficient => result.candle \in DOMAIN rows
         /\ result.outcome # Insufficient /\ ~rows[result.candle].open
              => result.outcome = Truth(s)
<1> DEFINE entries == {c \in Eligible(s, rows) : "entry" \in rows[c].touches}
           entry == Min(entries)
<1>1. Candles \subseteq Nat /\ DOMAIN rows \subseteq Candles /\ ExitHorizon \in Nat
      /\ ExitHorizon >= 2
  BY SimulationAssumption DEF Trusted
<1>2. result = IF ~Contiguous(s, rows) THEN Decided(Insufficient, 0)
               ELSE IF entries = {} THEN Decided("no_entry_before_expiry", Max(Eligible(s, rows)))
               ELSE IF rows[entry].touches \cap {"tp", "sl"} # {}
                    THEN Decided("intrabar_ambiguity", entry)
               ELSE AfterEntry(rows, entry)
  BY DEF Simulate
<1>3. \A what, candle : Decided(what, candle).outcome = what
                        /\ Decided(what, candle).candle = candle
  BY DEF Decided
<1>4. CASE ~Contiguous(s, rows)
  BY <1>2, <1>3, <1>4
<1>5. CASE Contiguous(s, rows) /\ entries = {}
  <2> DEFINE k == Max(Eligible(s, rows))
  <2>1. /\ Eligible(s, rows) # {} /\ IsFiniteSet(Eligible(s, rows))
        /\ Eligible(s, rows) \subseteq DOMAIN rows
        /\ \A c \in Candles : Opens(c) >= Start(s) /\ Closes(c) <= Expiry(s)
                                 => c \in Eligible(s, rows)
    BY <1>1, <1>5, WindowFacts
  <2>2. k \in Eligible(s, rows) /\ \A c \in Eligible(s, rows) : c <= k
    BY <1>1, <2>1, MaxFacts
  <2>3. result.outcome = "no_entry_before_expiry" /\ result.candle = k
    BY <1>2, <1>3, <1>5
  <2> HIDE DEF k
  <2>4. ASSUME ~rows[k].open PROVE Truth(s) = "no_entry_before_expiry"
    <3>1. ASSUME NEW c \in Candles, Opens(c) >= Start(s), Closes(c) <= Expiry(s)
          PROVE  "entry" \notin market[c]
      <4>1. c \in Eligible(s, rows) /\ c \in DOMAIN rows /\ c <= k /\ k \in DOMAIN rows
        BY <2>1, <2>2, <3>1
      <4>2. rows[c].touches = market[c]
        BY <2>4, <4>1, ClosedBefore
      <4>3. QED BY <1>5, <4>1, <4>2
    <3>2. {c \in Candles : /\ Opens(c) >= Start(s) /\ Closes(c) <= Expiry(s)
                           /\ "entry" \in market[c]} = {}
      BY <3>1
    <3>3. QED BY <3>2 DEF Truth
  <2>5. QED BY <2>1, <2>2, <2>3, <2>4 DEF Terminal
<1>6. CASE Contiguous(s, rows) /\ entries # {}
  <2>1. Eligible(s, rows) \subseteq DOMAIN rows
    BY <1>1, <1>6, WindowFacts
  <2>2. entry \in entries /\ \A c \in entries : entry <= c
    <3>1. entries \subseteq Nat
      BY <1>1, <2>1
    <3> HIDE DEF entries
    <3>2. QED BY <1>6, <3>1, MinFacts
  <2>3. /\ entry \in Eligible(s, rows) /\ entry \in DOMAIN rows /\ entry \in Nat
        /\ "entry" \in rows[entry].touches
        /\ \A c \in Eligible(s, rows) : "entry" \in rows[c].touches => entry <= c
    BY <1>1, <2>1, <2>2
  <2>4. result = IF rows[entry].touches \cap {"tp", "sl"} # {}
                 THEN Decided("intrabar_ambiguity", entry)
                 ELSE AfterEntry(rows, entry)
    BY <1>2, <1>6
  <2> HIDE DEF entry, entries
  <2> DEFINE Exit(c) == /\ c >= entry /\ Closes(c) <= Opens(entry) + ExitHorizon
                        /\ market[c] \cap {"tp", "sl"} # {}
  <2>5. ASSUME NEW k \in DOMAIN rows, ~rows[k].open, entry <= k
        PROVE  /\ entry \in Candles
               /\ (\A c \in Candles : ~Exit(c)) => Truth(s) = "no_exit_within_horizon"
               /\ \A exit \in Candles :
                    Exit(exit) /\ (\A c \in Candles : Exit(c) => exit <= c) =>
                      Truth(s) = IF exit = entry \/ {"tp", "sl"} \subseteq market[exit]
                                 THEN "intrabar_ambiguity"
                                 ELSE IF "tp" \in market[exit] THEN "take_profit_first"
                                 ELSE "stop_loss_first"
    <3>1. /\ entry \in Candles
          /\ Opens(entry) >= Start(s) /\ Closes(entry) <= Expiry(s) /\ "entry" \in market[entry]
          /\ \A c \in Candles : "entry" \in market[c] /\ Opens(c) >= Start(s) /\ Closes(c) <= Expiry(s)
                             => entry <= c
      BY <1>6, <2>3, <2>5, EntryIsTrue
    <3>2. QED BY <3>1, TruthOf
  <2>6. CASE rows[entry].touches \cap {"tp", "sl"} # {}
    <3>1. result.outcome = "intrabar_ambiguity" /\ result.candle = entry
      BY <1>3, <2>4, <2>6
    <3>2. ASSUME ~rows[entry].open PROVE Truth(s) = "intrabar_ambiguity"
      <4>1. entry <= entry /\ Closes(entry) <= Opens(entry) + ExitHorizon
        BY <1>1, <2>3 DEF Opens, Closes
      <4>2. rows[entry].touches = market[entry]
        BY <2>3, <3>2 DEF Trusted
      <4>3. Exit(entry) /\ entry \in Candles
        BY <1>1, <2>3, <2>6, <4>1, <4>2
      <4>4. \A c \in Candles : Exit(c) => entry <= c
        BY <1>1, <2>3
      <4> HIDE DEF Exit
      <4>5. QED BY <2>3, <2>5, <3>2, <4>1, <4>3, <4>4
    <3>3. QED BY <2>3, <3>1, <3>2 DEF Terminal
  <2>7. CASE rows[entry].touches \cap {"tp", "sl"} = {}
    <3>1. result = AfterEntry(rows, entry)
      BY <2>4, <2>7
    <3>2. PICK last \in Nat :
           /\ last > entry
           /\ \A c \in Nat : entry < c /\ c < last =>
                /\ c \in DOMAIN rows /\ rows[c].touches \cap {"tp", "sl"} = {}
                /\ Closes(c) <= Opens(entry) + ExitHorizon
           /\ \/ /\ Closes(last) > Opens(entry) + ExitHorizon
                 /\ AfterEntry(rows, entry) = Decided("no_exit_within_horizon", last - 1)
              \/ /\ Closes(last) <= Opens(entry) + ExitHorizon
                 /\ last \notin DOMAIN rows
                 /\ AfterEntry(rows, entry) = Decided(Insufficient, last)
              \/ /\ Closes(last) <= Opens(entry) + ExitHorizon
                 /\ last \in DOMAIN rows /\ rows[last].touches \cap {"tp", "sl"} # {}
                 /\ AfterEntry(rows, entry) = Decided(Barriers(rows[last].touches), last)
      BY <1>1, <2>3, WalkFacts
    <3>3. \A c \in Nat : entry <= c /\ c < last =>
            c \in DOMAIN rows /\ rows[c].touches \cap {"tp", "sl"} = {}
      BY <2>3, <2>7, <3>2
    <3>4. ASSUME NEW k \in DOMAIN rows, ~rows[k].open, last - 1 <= k,
                 NEW c \in Candles, Exit(c)
          PROVE  last <= c
      <4>1. SUFFICES ASSUME c < last PROVE FALSE
        BY <1>1, <3>2
      <4>2. c \in Nat /\ k \in Nat /\ entry <= c
        BY <1>1, <2>3, <3>4
      <4>3. c \in DOMAIN rows /\ rows[c].touches \cap {"tp", "sl"} = {} /\ c <= k
        BY <3>2, <3>3, <3>4, <4>1, <4>2
      <4>4. rows[c].touches = market[c]
        BY <3>4, <4>3, ClosedBefore
      <4>5. QED BY <3>4, <4>3, <4>4
    <3>5. CASE Closes(last) > Opens(entry) + ExitHorizon
               /\ AfterEntry(rows, entry) = Decided("no_exit_within_horizon", last - 1)
      <4>1. last - 1 \in Nat /\ entry <= last - 1 /\ last - 1 < last
        BY <2>3, <3>2
      <4>2. last - 1 \in DOMAIN rows
        BY <3>3, <4>1
      <4>3. result.outcome = "no_exit_within_horizon" /\ result.candle = last - 1
        BY <1>3, <3>1, <3>5
      <4>4. ASSUME ~rows[last - 1].open PROVE Truth(s) = "no_exit_within_horizon"
        <5>1. ASSUME NEW c \in Candles, Exit(c) PROVE FALSE
          <6>1. last <= c
            BY <3>4, <4>1, <4>2, <4>4, <5>1
          <6>2. Closes(last) <= Closes(c)
            BY <1>1, <3>2, <6>1 DEF Opens, Closes
          <6>3. QED BY <1>1, <2>3, <3>2, <3>5, <5>1, <6>2 DEF Opens, Closes
        <5> HIDE DEF Exit
        <5>2. QED BY <2>5, <4>1, <4>2, <4>4, <5>1
      <4>5. QED BY <4>2, <4>3, <4>4 DEF Terminal
    <3>6. CASE AfterEntry(rows, entry) = Decided(Insufficient, last)
      BY <1>3, <3>1, <3>6
    <3>7. CASE /\ Closes(last) <= Opens(entry) + ExitHorizon
               /\ last \in DOMAIN rows /\ rows[last].touches \cap {"tp", "sl"} # {}
               /\ AfterEntry(rows, entry) = Decided(Barriers(rows[last].touches), last)
      <4>1. result.outcome = Barriers(rows[last].touches) /\ result.candle = last
        BY <1>3, <3>1, <3>7
      <4>2. Barriers(rows[last].touches) \in Terminal
        BY <3>7, BarrierFacts
      <4>3. ASSUME ~rows[last].open PROVE Truth(s) = Barriers(rows[last].touches)
        <5>1. rows[last].touches = market[last] /\ last \in Candles
          BY <1>1, <3>7, <4>3 DEF Trusted
        <5>2. entry <= last /\ last # entry /\ last - 1 <= last
          BY <2>3, <3>2
        <5>3. Exit(last)
          BY <2>3, <3>2, <3>7, <5>1, <5>2
        <5>4. \A c \in Candles : Exit(c) => last <= c
          BY <3>4, <3>7, <4>3, <5>2
        <5> HIDE DEF Exit
        <5>5. Truth(s) = IF {"tp", "sl"} \subseteq market[last] THEN "intrabar_ambiguity"
                         ELSE IF "tp" \in market[last] THEN "take_profit_first"
                         ELSE "stop_loss_first"
          BY <2>5, <3>7, <4>3, <5>1, <5>2, <5>3, <5>4
        <5>6. QED BY <3>7, <5>1, <5>5, BarrierFacts
      <4>4. QED BY <3>7, <4>1, <4>2, <4>3
    <3>8. QED BY <3>2, <3>5, <3>6, <3>7
  <2>8. QED BY <2>6, <2>7
<1>7. QED BY <1>4, <1>5, <1>6

-------------------------------------------------------------------------------
(* What is fetched, and what is recorded of it. *)

\* The rows can be trusted, and what is still to be requested lies in front of them, in
\* candles that are complete by now.
Sound ==
  run.pc \in {"asking", "fetched"} =>
    /\ Trusted(run.rows)
    /\ run.pc = "asking" => \A d \in DOMAIN run.rows : run.end < Opens(d) /\ Opens(d) <= now

Kinds ==
  /\ now \in Times /\ market \in Markets /\ gaps \in Gaps
  /\ checkpoint \in Signals \cup {0}
  /\ outcome \in [Signals -> Terminal \cup {NoOutcome, "data_unavailable"}]
  /\ unfinished \subseteq Signals
  /\ DOMAIN run.rows \subseteq Candles
  /\ failures \in 0..MaxFailures

FullInv == Inv /\ Sound /\ Kinds /\ OutcomesAreTrue

\* Each page fits in front of the rows that are there: only the newest candle of the first
\* page can be open, because all the others are followed by a candle that has begun.
LEMMA RequestSound ==
  ASSUME Inv, Sound, run.pc = "asking", RequestsPage(Page)
  PROVE  Sound'
<1>1. Shape /\ run.todo # {} /\ now \in Nat /\ run.end \in Int
  BY DEF Inv, Shape
<1>2. Candles \subseteq Nat /\ PageLimit \in Nat \ {0}
  BY SimulationAssumption
<1>3. /\ Page \subseteq Candles
      /\ \A c \in Page : Opens(c) <= run.end /\ Opens(c) <= now
  BY DEF Page
<1>4. /\ DOMAIN run.rows \subseteq Candles
      /\ \A c \in DOMAIN run.rows : run.rows[c].open \/ run.rows[c].touches = market[c]
      /\ \A c, d \in DOMAIN run.rows : run.rows[c].open => d <= c
      /\ \A d \in DOMAIN run.rows : run.end < Opens(d) /\ Opens(d) <= now
  BY DEF Sound, Trusted
<1> DEFINE current == {c \in Page : now < Closes(c)}
           Rows(seen) == [c \in Page \cup DOMAIN run.rows |->
                            IF c \in current THEN [touches |-> seen, open |-> TRUE]
                            ELSE IF c \in Page THEN [touches |-> market[c], open |-> FALSE]
                            ELSE run.rows[c]]
<1>5. PICK seen : run' = IF LastPage(Page)
                         THEN [run EXCEPT !.pc = "fetched", !.rows = Rows(seen)]
                         ELSE [run EXCEPT !.rows = Rows(seen), !.end = Opens(Min(Page)) - 1]
  BY DEF RequestsPage
<1>6. UNCHANGED <<now, market>>
  BY DEF RequestsPage
<1> DEFINE rows == Rows(seen)
<1>7. /\ DOMAIN rows = Page \cup DOMAIN run.rows
      /\ \A c \in current : rows[c].open
      /\ \A c \in Page \ current : ~rows[c].open /\ rows[c].touches = market[c]
      /\ \A c \in DOMAIN run.rows \ Page : rows[c] = run.rows[c]
  OBVIOUS
<1>8. \A c \in Page, d \in DOMAIN run.rows : c < d /\ c \notin current
  <2> SUFFICES ASSUME NEW c \in Page, NEW d \in DOMAIN run.rows PROVE c < d /\ c \notin current
    OBVIOUS
  <2>1. c \in Nat /\ d \in Nat /\ 2 * c <= run.end /\ run.end < 2 * d /\ 2 * d <= now
    BY <1>2, <1>3, <1>4 DEF Opens
  <2>2. c < d
    BY <1>1, <2>1
  <2>3. ~(now < Closes(c))
    BY <1>1, <2>1, <2>2 DEF Opens, Closes
  <2>4. QED BY <2>2, <2>3
<1>9. \A c \in current, d \in Page : d <= c
  <2> SUFFICES ASSUME NEW c \in current, NEW d \in Page PROVE d <= c
    OBVIOUS
  <2>1. c \in Nat /\ d \in Nat /\ now < 2 * c + 2 /\ 2 * d <= now
    BY <1>2, <1>3 DEF Opens, Closes
  <2>2. QED BY <1>1, <2>1
<1>10. Page \cap DOMAIN run.rows = {}
  <2>1. \A c \in Page : c \in Nat /\ ~(c < c)
    BY <1>2, <1>3
  <2>2. QED BY <1>8, <2>1
<1>11. current \subseteq Page
  OBVIOUS
<1> HIDE DEF rows, current
<1>12. Trusted(rows)
  <2>1. DOMAIN rows \subseteq Candles
    BY <1>3, <1>4, <1>7
  <2>2. \A c \in DOMAIN rows : rows[c].open \/ rows[c].touches = market[c]
    BY <1>4, <1>7, <1>10
  <2>3. ASSUME NEW c \in DOMAIN rows, NEW d \in DOMAIN rows, rows[c].open PROVE d <= c
    <3>1. c \in current \/ c \in DOMAIN run.rows
      BY <1>7, <2>3
    <3>2. CASE c \in current
      BY <1>7, <1>8, <1>9, <3>2, <1>11
    <3>3. CASE c \in DOMAIN run.rows
      <4>1. run.rows[c].open
        BY <1>7, <1>10, <2>3, <3>3
      <4>2. CASE d \in DOMAIN run.rows
        BY <1>4, <3>3, <4>1, <4>2
      <4>3. CASE d \in Page
        <5>1. d < c /\ d \in Nat /\ c \in Nat
          BY <1>2, <1>3, <1>4, <1>8, <3>3, <4>3
        <5>2. QED BY <5>1
      <4>4. QED BY <1>7, <4>2, <4>3
    <3>4. QED BY <3>1, <3>2, <3>3
  <2>4. QED BY <2>1, <2>2, <2>3 DEF Trusted
<1>13. /\ run'.rows = rows
       /\ run'.pc = "asking" => ~LastPage(Page) /\ run'.end = Opens(Min(Page)) - 1
  BY <1>1, <1>5 DEF Shape, rows
<1>14. ASSUME run'.pc = "asking", NEW d \in DOMAIN rows
       PROVE  run'.end < Opens(d) /\ Opens(d) <= now
  <2>1. Page # {}
    <3>1. Page = {} => Cardinality(Page) < PageLimit
      BY <1>2, FS_EmptySet
    <3>2. QED BY <1>13, <1>14, <3>1 DEF LastPage
  <2>2. Min(Page) \in Page /\ \A c \in Page : Min(Page) <= c
    BY <1>2, <1>3, <2>1, MinFacts
  <2>3. Min(Page) \in Nat /\ d \in Nat /\ Min(Page) <= d
    <3>1. CASE d \in Page
      BY <1>2, <1>3, <2>2, <3>1
    <3>2. CASE d \in DOMAIN run.rows
      <4>1. Min(Page) < d /\ Min(Page) \in Nat /\ d \in Nat
        BY <1>2, <1>3, <1>4, <1>8, <2>2, <3>2
      <4>2. QED BY <4>1
    <3>3. QED BY <1>7, <1>14, <3>1, <3>2
  <2>4. Opens(d) <= now
    BY <1>3, <1>4, <1>7, <1>14
  <2>5. QED BY <1>13, <1>14, <2>3, <2>4 DEF Opens
<1>15. Trusted(run.rows)'
  BY <1>6, <1>12, <1>13 DEF Trusted
<1>16. QED BY <1>6, <1>13, <1>14, <1>15 DEF Sound

\* A run that ends or begins has nothing fetched.
LEMMA BlankRun ==
  ASSUME Finishes \/ Killed \/ \E limit \in Limits : Starts(limit)
  PROVE  run'.pc \in {"off", "next"} /\ run'.rows = NoRows
<1>1. CASE Finishes \/ Killed
  BY <1>1 DEF Finishes, Killed, NotRunning
<1>2. CASE \E limit \in Limits : Starts(limit)
  <2>1. PICK limit \in Limits : run' = [NotRunning EXCEPT !.pc = "next", !.limit = limit,
                                           !.todo = {s \in Signals : s <= checkpoint}]
    BY <1>2 DEF Starts
  <2>2. QED BY <2>1 DEF NotRunning
<1>3. QED BY <1>1, <1>2

\* Every other step leaves the rows alone or drops them.
LEMMA NextSound ==
  ASSUME Inv, Sound, [SimulationNext]_simulationVars
  PROVE  Sound'
<1>1. Shape
  BY DEF Inv
<1>2. CASE UNCHANGED <<run, market>> /\ now' \in Nat /\ now' >= now
  <2>1. \A d \in DOMAIN run.rows : Opens(d) <= now =>
          (DOMAIN run.rows \subseteq Candles => Opens(d) <= now')
    <3>1. \A d \in Candles : Opens(d) \in Nat
      BY SimulationAssumption DEF Opens
    <3>2. now \in Nat
      BY <1>1 DEF Shape
    <3>3. QED BY <1>2, <3>1, <3>2
  <2>2. Trusted(run.rows) => Trusted(run.rows)'
    BY <1>2 DEF Trusted
  <2>3. QED BY <1>2, <2>1, <2>2 DEF Sound, Trusted
<1>3. CASE run'.pc \in {"off", "next"}
  BY <1>3 DEF Sound
<1>4. CASE UNCHANGED simulationVars
  BY <1>1, <1>2, <1>4 DEF simulationVars, Shape
<1>5. CASE Tick
  <2> DEFINE later == {t \in Times : t > now}
  <2>1. later \subseteq Nat /\ later # {} /\ now' = Min(later)
    BY <1>5, SimulationAssumption DEF Tick
  <2>2. now' \in later
    BY <2>1, MinFacts
  <2>3. now' \in Nat /\ now' >= now
    BY <1>1, <2>1, <2>2 DEF Shape
  <2>4. QED BY <1>2, <1>5, <2>3 DEF Tick
<1>6. ASSUME NEW s \in Signals, BackfillAdvances(s) PROVE Sound'
  BY <1>1, <1>2, <1>6 DEF BackfillAdvances, Shape
<1>7. CASE Skips
  <2>1. run' = [run EXCEPT !.todo = run.todo \ {Current}] /\ run.pc = "next"
    BY <1>7 DEF Skips
  <2>2. QED BY <1>1, <1>3, <2>1 DEF Shape
<1>8. CASE Finishes \/ Killed \/ \E limit \in Limits : Starts(limit)
  BY <1>3, <1>8, BlankRun
<1>9. CASE RequestFails \/ \E r : Records(Current, r)
  <2>1. run' = [run EXCEPT !.pc = "next", !.rows = NoRows, !.todo = run.todo \ {Current}]
    BY <1>9 DEF RequestFails, Records
  <2>2. QED BY <1>1, <1>3, <2>1 DEF Shape
<1>10. CASE Attempts
  <2>1. /\ run' = [pc |-> "asking", todo |-> run.todo, limit |-> run.limit,
                   attempted |-> run.attempted + 1, end |-> End(Current), asked |-> now,
                   rows |-> NoRows]
    BY <1>1, <1>10 DEF Attempts, Shape
  <2>2. run'.rows = NoRows /\ DOMAIN NoRows = {}
    BY <2>1 DEF NoRows
  <2>3. QED BY <2>2 DEF Sound, Trusted
<1>11. CASE run.pc = "asking" /\ RequestsPage(Page)
  BY <1>11, RequestSound
<1>12. QED BY <1>4, <1>5, <1>6, <1>7, <1>8, <1>9, <1>10, <1>11 DEF SimulationNext, RunStep

\* What a run records of a signal: an outcome that is true, or that an open candle has
\* decided.
LEMMA RecordsTruth ==
  ASSUME Inv, Sound, Kinds, OutcomesAreTrue, run.pc = "fetched",
         NEW result, result = Simulate(Current, Fetched), Records(Current, result)
  PROVE  Kinds' /\ OutcomesAreTrue'
<1>1. Shape /\ run.todo # {} /\ Trusted(run.rows)
  BY DEF Inv, Shape, Sound
<1>2. Current \in Signals
  BY <1>1, CurrentFacts
<1>3. PICK s : s = Current
  OBVIOUS
<1>4. PICK rows : rows = Fetched
  OBVIOUS
<1>5. /\ DOMAIN rows \subseteq DOMAIN run.rows
      /\ \A c \in DOMAIN rows : rows[c] = run.rows[c]
  BY <1>4 DEF Fetched
<1>6. Trusted(rows)
  BY <1>1, <1>5 DEF Trusted
<1>7. /\ result.outcome \in Terminal \cup {Insufficient}
      /\ result.outcome # Insufficient => result.candle \in DOMAIN rows
      /\ result.outcome # Insufficient /\ ~rows[result.candle].open
           => result.outcome = Truth(s)
  BY <1>2, <1>3, <1>4, <1>6, SimulateFacts
<1>8. /\ outcome' = [outcome EXCEPT ![s] = Recorded(result.outcome)]
      /\ unfinished' = IF result.outcome # Insufficient /\ run.rows[result.candle].open
                       THEN unfinished \cup {s} ELSE unfinished \ {s}
      /\ UNCHANGED <<now, market, gaps, checkpoint, failures>>
      /\ run'.rows = NoRows
  BY <1>1, <1>3 DEF Records, Shape
<1>9. Recorded(result.outcome) \in Terminal \cup {"data_unavailable"}
      /\ (Recorded(result.outcome) \in Terminal => result.outcome # Insufficient
                                                    /\ Recorded(result.outcome) = result.outcome)
  BY <1>7 DEF Recorded, Terminal, Insufficient
<1>10. outcome \in [Signals -> Terminal \cup {NoOutcome, "data_unavailable"}] /\ s \in Signals
  BY <1>2, <1>3 DEF Kinds
<1>11. Kinds'
  <2>1. outcome' \in [Signals -> Terminal \cup {NoOutcome, "data_unavailable"}]
    BY <1>8, <1>9, <1>10
  <2>2. unfinished' \subseteq Signals
    BY <1>8, <1>10 DEF Kinds
  <2>3. DOMAIN NoRows \subseteq Candles
    BY DEF NoRows
  <2>4. QED BY <1>8, <2>1, <2>2, <2>3 DEF Kinds
<1>12. ASSUME NEW q \in Signals, outcome'[q] \in Terminal, q \notin unfinished'
       PROVE  outcome'[q] = Truth(q)
  <2>1. CASE q # s
    <3>1. outcome'[q] = outcome[q] /\ q \notin unfinished
      BY <1>8, <1>10, <1>12, <2>1
    <3>2. QED BY <1>12, <3>1 DEF OutcomesAreTrue
  <2>2. CASE q = s
    <3>1. outcome'[q] = Recorded(result.outcome)
      BY <1>8, <1>10, <2>2
    <3>2. result.outcome # Insufficient /\ outcome'[q] = result.outcome
      BY <1>9, <1>12, <3>1
    <3>3. ~run.rows[result.candle].open
      BY <1>8, <1>12, <2>2, <3>2
    <3>4. ~rows[result.candle].open
      BY <1>5, <1>7, <3>2, <3>3
    <3>5. QED BY <1>7, <2>2, <3>2, <3>4
  <2>3. QED BY <2>1, <2>2
<1>13. OutcomesAreTrue'
  <2>1. \A q \in Signals : Truth(q)' = Truth(q)
    BY <1>8 DEF Truth, Start, Expiry
  <2>2. QED BY <1>12, <2>1 DEF OutcomesAreTrue
<1>14. QED BY <1>11, <1>13

\* Truth is about the market, which does not change.
LEMMA TruthStays ==
  ASSUME OutcomesAreTrue, UNCHANGED <<market, unfinished>>,
         \A s \in Signals : outcome'[s] = outcome[s] \/ outcome'[s] \notin Terminal
  PROVE  OutcomesAreTrue'
<1>1. \A q \in Signals : Truth(q)' = Truth(q)
  BY DEF Truth, Start, Expiry
<1>2. QED BY <1>1 DEF OutcomesAreTrue

\* Kinds of values, and the truth of the outcomes, over all steps.
LEMMA NextTruth ==
  ASSUME Inv, Sound, Kinds, OutcomesAreTrue, [SimulationNext]_simulationVars
  PROVE  Kinds' /\ OutcomesAreTrue'
<1>1. Shape /\ MaxFailures \in Nat
  BY SimulationAssumption DEF Inv
<1>2. CASE /\ UNCHANGED <<market, gaps, outcome, unfinished>>
           /\ now' \in Times /\ checkpoint' \in Signals \cup {0}
           /\ failures' = failures \/ (failures < MaxFailures /\ failures' = failures + 1)
           /\ DOMAIN run'.rows \subseteq Candles
  <2>1. failures' \in 0..MaxFailures
    BY <1>1, <1>2 DEF Kinds
  <2>2. QED BY <1>2, <2>1, TruthStays DEF Kinds
<1>3. now \in Times /\ checkpoint \in Signals \cup {0} /\ DOMAIN run.rows \subseteq Candles
  BY DEF Kinds
<1>4. DOMAIN NoRows \subseteq Candles
  BY DEF NoRows
<1>5. CASE UNCHANGED simulationVars
  BY <1>2, <1>3, <1>5 DEF simulationVars
<1>6. CASE Tick
  <2>1. {t \in Times : t > now} # {} /\ {t \in Times : t > now} \subseteq Nat
        /\ now' = Min({t \in Times : t > now})
    BY <1>6, SimulationAssumption DEF Tick
  <2>2. now' \in Times
    BY <2>1, MinFacts
  <2>3. QED BY <1>2, <1>3, <1>6, <2>2 DEF Tick
<1>7. ASSUME NEW s \in Signals, BackfillAdvances(s) PROVE Kinds' /\ OutcomesAreTrue'
  BY <1>2, <1>3, <1>7 DEF BackfillAdvances
<1>8. CASE Finishes \/ Killed \/ \E limit \in Limits : Starts(limit)
  <2>1. run'.rows = NoRows
    BY <1>8, BlankRun
  <2>2. QED BY <1>2, <1>3, <1>4, <1>8, <2>1 DEF Finishes, Killed, Starts
<1>9. CASE Skips \/ Attempts
  <2>1. run'.rows \in {run.rows, NoRows}
    BY <1>1, <1>9 DEF Skips, Attempts, Shape
  <2>2. QED BY <1>2, <1>3, <1>4, <1>9, <2>1 DEF Skips, Attempts
<1>10. CASE run.pc = "asking" /\ RequestsPage(Page)
  <2>1. PICK rows : /\ DOMAIN rows = Page \cup DOMAIN run.rows
                    /\ run' = IF LastPage(Page) THEN [run EXCEPT !.pc = "fetched", !.rows = rows]
                              ELSE [run EXCEPT !.rows = rows, !.end = Opens(Min(Page)) - 1]
    BY <1>10 DEF RequestsPage
  <2>2. run'.rows = rows
    BY <1>1, <2>1 DEF Shape
  <2>3. Page \subseteq Candles
    BY DEF Page
  <2>4. QED BY <1>2, <1>3, <1>10, <2>1, <2>2, <2>3 DEF RequestsPage
<1>11. CASE RequestFails
  <2>1. /\ outcome' = [outcome EXCEPT ![Current] = "data_unavailable"]
        /\ run'.rows = NoRows
        /\ failures < MaxFailures /\ failures' = failures + 1
        /\ UNCHANGED <<now, market, gaps, checkpoint, unfinished>>
    BY <1>1, <1>11 DEF RequestFails, Shape
  <2>2. outcome' \in [Signals -> Terminal \cup {NoOutcome, "data_unavailable"}]
    BY <2>1 DEF Kinds
  <2>3. \A s \in Signals : outcome'[s] = outcome[s] \/ outcome'[s] \notin Terminal
    BY <2>1 DEF Kinds, Terminal
  <2>4. failures' \in 0..MaxFailures
    BY <1>1, <2>1 DEF Kinds
  <2>5. QED BY <1>4, <2>1, <2>2, <2>3, <2>4, TruthStays DEF Kinds
<1>12. CASE run.pc = "fetched" /\ \E rows \in {Fetched} : \E result \in {Simulate(Current, rows)} :
                                    Records(Current, result)
  BY <1>12, RecordsTruth
<1>13. QED BY <1>5, <1>6, <1>7, <1>8, <1>9, <1>10, <1>11, <1>12 DEF SimulationNext, RunStep

-------------------------------------------------------------------------------
(* The theorems. *)

\* The inductive invariant holds in every state that simulate-history reaches, however
\* the market moves on between its requests and however often it is killed.
THEOREM Invariance == SimulationSpec => []FullInv
<1>1. SimulationInit => FullInv
  <2> SUFFICES ASSUME SimulationInit PROVE FullInv
    OBVIOUS
  <2>1. now \in Nat /\ now \in Times
    BY MinFacts, SimulationAssumption DEF SimulationInit
  <2>2. run = NotRunning
    BY DEF SimulationInit
  <2>3. Inv
    BY <2>1, <2>2 DEF Inv, Shape, Undecided, Covered, NotRunning
  <2>4. Sound
    BY <2>2 DEF Sound, NotRunning
  <2>5. Kinds
    <3>1. 0 \in 0..MaxFailures
      BY SimulationAssumption
    <3>2. DOMAIN run.rows = {}
      BY <2>2 DEF NotRunning, NoRows
    <3>3. QED BY <2>1, <3>1, <3>2 DEF Kinds, SimulationInit
  <2>6. OutcomesAreTrue
    BY DEF SimulationInit, OutcomesAreTrue, Terminal, NoOutcome
  <2>7. QED BY <2>3, <2>4, <2>5, <2>6 DEF FullInv
<1>2. FullInv /\ [SimulationNext]_simulationVars => FullInv'
  BY NextInv, NextSound, NextTruth DEF FullInv
<1>3. QED BY <1>1, <1>2, PTL DEF SimulationSpec

\* Every variable of the simulator keeps its type.
THEOREM TypesHold == SimulationSpec => []SimulationTypeOK
<1>1. FullInv => SimulationTypeOK
  BY DEF FullInv, Kinds, Inv, Shape, SimulationTypeOK
<1>2. QED BY <1>1, Invariance, PTL

\* Whatever is missing, open or still to come when the candles are fetched, a terminal
\* outcome is what the finished candles say, unless the candle that decided it was open.
THEOREM TerminalOutcomesAreTrue == SimulationSpec => []OutcomesAreTrue
<1>1. FullInv => OutcomesAreTrue
  BY DEF FullInv
<1>2. QED BY <1>1, Invariance, PTL

\* The pages that fetch_candles puts together hold every candle of the range that was there
\* when the first of them was requested.
THEOREM PagesAreComplete == SimulationSpec => []PagesCoverTheRange
<1>1. FullInv => PagesCoverTheRange
  BY DEF FullInv, Inv, Covered, Wanted, PagesCoverTheRange
<1>2. QED BY <1>1, Invariance, PTL

\* No run and no failure replaces a terminal outcome.
THEOREM OutcomesAreFinal == SimulationSpec => TerminalStays
<1> DEFINE Final == \A s \in Signals : outcome[s] \in Terminal => outcome'[s] = outcome[s]
<1>1. FullInv /\ [SimulationNext]_simulationVars => [Final]_simulationVars
  <2> SUFFICES ASSUME Inv, SimulationNext PROVE Final
    BY DEF FullInv
  <2>1. CASE UNCHANGED outcome
    BY <2>1
  <2>2. ASSUME NEW what, outcome' = [outcome EXCEPT ![Current] = what],
               outcome[Current] \notin Terminal
        PROVE  Final
    BY <2>2
  <2>3. CASE RequestFails \/ \E r : run.pc = "fetched" /\ Records(Current, r)
    <3>1. outcome[Current] \notin Terminal
      BY <2>3 DEF Inv, Undecided, HasTerminalOutcome, RequestFails
    <3>2. QED BY <2>2, <2>3, <3>1 DEF RequestFails, Records
  <2>4. QED BY <2>1, <2>3 DEF SimulationNext, RunStep, Tick, BackfillAdvances, Starts, Skips,
                  Attempts, Finishes, RequestsPage, Killed
<1>2. QED BY <1>1, Invariance, PTL DEF SimulationSpec, TerminalStays
===============================================================================
