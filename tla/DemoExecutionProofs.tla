------------------------- MODULE DemoExecutionProofs -------------------------
(*****************************************************************************)
(* The invariant of the Demo lifecycle (ExposureInv), and why exchange,      *)
(* clock, worker and monitor keep it and do what ExposureLedger promises.    *)
(* First what every process is made of, the walk of DemoReconcile and the    *)
(* decisions of the ledger, then the cycles of monitor and worker.           *)
(* OwnedCloseProofs goes on with the operator and states the theorems.       *)
(*                                                                           *)
(* The invariant joins five tables: what the exchange executed, the rows     *)
(* of the intent store with the evidence behind each state (Claim), the      *)
(* decisions in the log, the book of the engine, and what each process       *)
(* still has to do with what it read.  No step takes evidence back           *)
(* (Progress), so a process that does not move stays in order (JobStays).    *)
(*****************************************************************************)
EXTENDS OwnedClose, RiskEngineProofs, FiniteSetFacts, SequenceTheorems

-------------------------------------------------------------------------------
(* Facts about finite sums, sequences and selected rows. *)

\* The head and the tail of a sequence that is not empty.
LEMMA HeadTail ==
  ASSUME NEW S, NEW seq \in Seq(S), seq # <<>>
  PROVE  /\ Head(seq) \in Range(seq) /\ Head(seq) \in S
         /\ Tail(seq) \in Seq(S)
         /\ Range(Tail(seq)) \subseteq Range(seq)
         /\ Len(Tail(seq)) = Len(seq) - 1
         /\ Head(seq) = seq[1]
         /\ \A k \in DOMAIN Tail(seq) : k + 1 \in DOMAIN seq /\ Tail(seq)[k] = seq[k + 1]
<1>1. PICK t : t = Tail(seq)
  BY Zenon
<1>2. Len(seq) \in Nat \ {0} /\ DOMAIN seq = 1..Len(seq)
  BY EmptySeq, LenProperties
<1>3. /\ Head(seq) \in S /\ t \in Seq(S) /\ Len(t) = Len(seq) - 1
      /\ \A k \in 1..Len(t) : t[k] = seq[k + 1]
      /\ Head(seq) = seq[1]
  BY <1>1, <1>2, HeadTailProperties
<1>4. DOMAIN t = 1..Len(t) /\ Len(t) \in Nat
  BY <1>3, LenProperties
<1>5. \A k \in DOMAIN t : k + 1 \in DOMAIN seq /\ t[k] = seq[k + 1]
  BY <1>2, <1>3, <1>4
<1>6. Range(t) \subseteq Range(seq)
  BY <1>5 DEF Range
<1>7. Head(seq) \in Range(seq)
  BY <1>2, <1>3 DEF Range
<1>8. QED BY <1>1, <1>3, <1>5, <1>6, <1>7

\* The members of a sequence belong to what it is a sequence of.
LEMMA RangeType ==
  ASSUME NEW S, NEW seq \in Seq(S)
  PROVE  Range(seq) \subseteq S
BY LenProperties DEF Range

\* The members of a concatenation.
LEMMA RangeConcat ==
  ASSUME NEW S, NEW s \in Seq(S), NEW t \in Seq(S)
  PROVE  s \o t \in Seq(S) /\ Range(s \o t) \subseteq Range(s) \cup Range(t)
<1>1. PICK u : u = s \o t
  BY Zenon
<1>2. /\ u \in Seq(S) /\ Len(u) = Len(s) + Len(t)
      /\ \A i \in 1..(Len(s) + Len(t)) : u[i] = IF i <= Len(s) THEN s[i] ELSE t[i - Len(s)]
  BY <1>1, ConcatProperties
<1>3. /\ DOMAIN u = 1..Len(u) /\ DOMAIN s = 1..Len(s) /\ DOMAIN t = 1..Len(t)
      /\ Len(s) \in Nat /\ Len(t) \in Nat
  BY <1>2, LenProperties
<1>4. \A i \in DOMAIN u : u[i] \in Range(s) \cup Range(t)
  <2>1. SUFFICES ASSUME NEW i \in DOMAIN u PROVE u[i] \in Range(s) \cup Range(t)
    OBVIOUS
  <2>2. CASE i <= Len(s)
    BY <1>2, <1>3, <2>2 DEF Range
  <2>3. CASE ~(i <= Len(s))
    <3>1. i - Len(s) \in DOMAIN t /\ u[i] = t[i - Len(s)]
      BY <1>2, <1>3, <2>3
    <3>2. QED BY <3>1 DEF Range
  <2>4. QED BY <2>2, <2>3
<1>5. QED BY <1>1, <1>2, <1>4 DEF Range

\* A sequence of one, two or three members.
LEMMA ShortSeqs ==
  ASSUME NEW S, NEW a \in S, NEW b \in S, NEW c \in S
  PROVE  /\ <<a>> \in Seq(S) /\ Range(<<a>>) = {a}
         /\ <<a, b>> \in Seq(S) /\ Range(<<a, b>>) = {a, b}
         /\ <<a, b, c>> \in Seq(S) /\ Range(<<a, b, c>>) = {a, b, c}
         /\ Len(<<a>>) = 1 /\ Len(<<a, b>>) = 2 /\ Len(<<a, b, c>>) = 3
         /\ Head(<<a>>) = a /\ Head(<<a, b>>) = a /\ Head(<<a, b, c>>) = a
BY DEF Range

\* A row more at the end of a table.
LEMMA AppendRow ==
  ASSUME NEW S, NEW seq \in Seq(S), NEW x \in S
  PROVE  LET t == Append(seq, x)
         IN  /\ t \in Seq(S)
             /\ DOMAIN seq \subseteq DOMAIN t /\ Len(t) = Len(seq) + 1
             /\ DOMAIN t = DOMAIN seq \cup {Len(t)} /\ Len(t) \notin DOMAIN seq
             /\ \A i \in DOMAIN seq : t[i] = seq[i]
             /\ t[Len(t)] = x
<1>1. PICK t : t = Append(seq, x)
  BY Zenon
<1>2. /\ t \in Seq(S) /\ Len(t) = Len(seq) + 1
      /\ \A i \in 1..Len(seq) : t[i] = seq[i]
      /\ t[Len(seq) + 1] = x
  BY <1>1, AppendProperties
<1>3. /\ DOMAIN t = 1..Len(t) /\ DOMAIN seq = 1..Len(seq) /\ Len(seq) \in Nat
  BY <1>2, LenProperties
<1>4. QED BY <1>1, <1>2, <1>3

\* The rows of the table.
LEMMA TableRows ==
  ASSUME NEW S, intents \in Seq(S)
  PROVE  /\ Intents = 1..Len(intents) /\ Len(intents) \in Nat
         /\ IsFiniteSet(Intents) /\ Intents \subseteq Nat \ {0}
         /\ \A i \in Intents : intents[i] \in S
<1>1. Intents = 1..Len(intents) /\ Len(intents) \in Nat /\ \A i \in Intents : intents[i] \in S
  BY LenProperties DEF Intents
<1>2. IsFiniteSet(1..Len(intents))
  BY <1>1, FS_Interval
<1>3. QED BY <1>1, <1>2

\* Selected lists rows of the table, and no others.
LEMMA SelectedRows ==
  ASSUME NEW S, intents \in Seq(S), NEW rows \in SUBSET Intents
  PROVE  Selected(rows) \in Seq(rows) /\ Range(Selected(rows)) \subseteq rows
<1>1. rows \subseteq Int /\ IsFiniteSet(rows)
  BY TableRows, FS_Subset
<1>2. PICK n : n = Cardinality(rows)
  OBVIOUS
<1>3. n \in Nat
  BY <1>1, <1>2, FS_CardinalityType
<1> DEFINE Rank(i) == Cardinality({j \in rows : j < i})
           list == [k \in 1..n |-> CHOOSE i \in rows : Rank(i) = k - 1]
<1>4. Selected(rows) = list
  BY <1>2 DEF Selected
<1>5. \A k \in 1..n : list[k] \in rows
  <2>1. \A k \in 1..n : \E i \in rows : Rank(i) = k - 1
    BY Zenon, <1>1, <1>2, Ranked
  <2>2. QED BY Zenon, <2>1
<1>6. list \in [1..n -> rows]
  BY Zenon, <1>5
<1> HIDE DEF list
<1>7. list \in Seq(rows)
  BY <1>3, <1>6, SeqDef
<1>8. QED BY <1>4, <1>6, <1>7 DEF Range

\* A list of tasks of one name is about the members of its list.
LEMMA TasksOf ==
  ASSUME NEW S, NEW list \in Seq(S), NEW name, NEW K, \A x \in S : Task(name, x) \in K
  PROVE  /\ Tasks(name, list) \in Seq(K)
         /\ \A t \in Range(Tasks(name, list)) : \E x \in Range(list) : t = Task(name, x)
<1>1. list \in [1..Len(list) -> S] /\ DOMAIN list = 1..Len(list) /\ Len(list) \in Nat
  BY LenProperties
<1>2. Tasks(name, list) = [n \in 1..Len(list) |-> Task(name, list[n])]
  BY <1>1 DEF Tasks
<1>3. Tasks(name, list) \in [1..Len(list) -> K]
  BY <1>1, <1>2
<1>4. Tasks(name, list) \in Seq(K)
  BY <1>1, <1>3, SeqDef
<1>5. QED BY <1>1, <1>2, <1>4 DEF Range

\* The rows of a kind about a reservation, and the entry that is found.
LEMMA Owning ==
  ASSUME NEW S, intents \in Seq(S), NEW kind, NEW s
  PROVE  /\ Of(kind, s) \subseteq Intents
         /\ Of(kind, s) # {} => Max(Of(kind, s)) \in Of(kind, s)
         /\ EntryOf(s) # NoIntent => EntryOf(s) \in Of("entry", s)
         /\ EntryOf(s) # NoIntent <=> Of("entry", s) # {}
<1>1. \A k : Of(k, s) \subseteq Intents /\ Of(k, s) \subseteq Int /\ IsFiniteSet(Of(k, s))
  <2>1. \A k : Of(k, s) \subseteq Intents
    BY DEF Of
  <2>2. QED BY <2>1, TableRows, FS_Subset
<1>2. \A k : Of(k, s) # {} => Max(Of(k, s)) \in Of(k, s)
  <2>1. ASSUME NEW k, Of(k, s) # {} PROVE Max(Of(k, s)) \in Of(k, s)
    <3>1. PICK A : A = Of(k, s)
      OBVIOUS
    <3>2. PICK m \in A : \A n \in A : n <= m
      BY <1>1, <2>1, <3>1, GreatestExists
    <3>3. \A n \in A : m >= n
      BY <1>1, <3>1, <3>2
    <3>4. Max(A) \in A
      BY <3>2, <3>3 DEF Max
    <3>5. QED BY <3>1, <3>4
  <2>2. QED BY <2>1
<1>3. 0 \notin Intents
  BY TableRows
<1>4. QED BY <1>1, <1>2, <1>3 DEF EntryOf, NoIntent

-------------------------------------------------------------------------------
(* The exchange. *)

Placed(kind, s) == orders[kind][s].status # "none"

EntryOrderOK(s) ==
  LET o == orders["entry"][s]
  IN  /\ o.status = "none" => o = NoOrder
      /\ o.status \in {"none", "new", "rejected"} => o.filled = 0
      /\ o.status = "partial" => o.filled > 0
      /\ o.status = "filled" => o.filled = EntrySize[s]
      /\ o.filled <= EntrySize[s]

CloseOrderOK(s) ==
  LET o == orders["close"][s]
  IN  /\ o.status = "none" => o = NoOrder
      /\ o.status \in {"none", "new", "filled", "cancelled"}
      /\ o.status = "new" => o.filled = 0

ExchangeOK ==
  /\ ExchangeTypeOK
  /\ \A s \in Signals : /\ EntryOrderOK(s) /\ CloseOrderOK(s)
                        /\ exited[s] <= orders["entry"][s].filled
                        /\ s \in cancelling => Live(orders["entry"][s])

-------------------------------------------------------------------------------
(* What is known of an entry at the exchange, and stays true. *)

Executed(s) == orders["entry"][s].filled > 0

Spent(s) == Executed(s) /\ orders["entry"][s].status \in Over

Gone(s) == Spent(s) /\ exited[s] = orders["entry"][s].filled

Withdrawn(s, status) == orders["entry"][s].status = status /\ orders["entry"][s].filled = 0

Unplaced(s) ==
  /\ ~Placed("entry", s)
  /\ \E i \in Of("entry", s) : ~intents[i].attempted /\ intents[i].state # "planned"

Never(s) == Withdrawn(s, "cancelled") \/ Withdrawn(s, "rejected") \/ Unplaced(s)

-------------------------------------------------------------------------------
(* The log and the table. *)

LogOK ==
  /\ \A c \in DOMAIN log : log[c] \in Decisions
  /\ \A c, d \in DOMAIN log, s \in Signals :
       Act("create", s) \in log[c].actions /\ Act("create", s) \in log[d].actions => c = d
  /\ \A c \in DOMAIN log, s \in Signals :
       Act("create", s) \in log[c].actions => Status(book, s) # "absent"

ActionOf(kind) ==
  CASE kind = "entry"          -> "create"
    [] kind = "cancel_entry"   -> "cancel"
    [] kind = "close_position" -> "close"

TableOK ==
  /\ intents \in Seq(Intent)
  /\ \A i, j \in Intents :
       /\ intents[i].kind = intents[j].kind
       /\ intents[i].reservation = intents[j].reservation
       /\ intents[i].command = intents[j].command
       => i = j
  /\ \A i \in Intents :
       Act(ActionOf(intents[i].kind), intents[i].reservation) \in log[intents[i].command].actions

-------------------------------------------------------------------------------
(* The evidence behind the states of the rows. *)

EntryClaim(s, state) ==
  /\ state # "close_confirmed"
  /\ state \in {"acknowledged", "working"} => Placed("entry", s)
  /\ state = "filled" => Executed(s)
  /\ state = "protection_verified" => Spent(s)
  /\ state \in {"position_closed_pending", "position_closed"} => Gone(s)
  /\ state = "cancelled" => Withdrawn(s, "cancelled") \/ Unplaced(s)
  /\ state = "rejected" => Withdrawn(s, "rejected")

CancelClaim(s, state) ==
  /\ state \in {"planned", "acknowledged", "filled", "cancelled", "reconciliation_required"}
  /\ state = "acknowledged" => Placed("entry", s)
  /\ state = "filled" => Executed(s)
  /\ state = "cancelled" => Never(s) \/ Gone(s)
  /\ state # "planned" => Of("entry", s) # {}

CloseClaim(s, state, attempted) ==
  /\ state \in {"planned", "acknowledged", "working", "cancelled", "close_confirmed",
                "reconciliation_required"}
  /\ state \notin {"planned", "cancelled"} => attempted
  /\ state \in {"acknowledged", "working"} => Placed("close", s)
  /\ state = "cancelled" /\ attempted => orders["close"][s].status = "cancelled"
  /\ state = "close_confirmed" => Gone(s) /\ orders["close"][s].status = "filled"

Claim(i, state) ==
  LET kind == intents[i].kind
      s    == intents[i].reservation
  IN  /\ kind = "entry" => EntryClaim(s, state)
      /\ kind = "cancel_entry" => CancelClaim(s, state)
      /\ kind = "close_position" => CloseClaim(s, state, intents[i].attempted)

RowOK(i) ==
  LET r == intents[i]
      s == r.reservation
  IN  /\ Claim(i, r.state)
      /\ r.filled <= orders["entry"][s].filled
      /\ r.kind # "entry" => r.filled = 0
      /\ r.kind = "cancel_entry" => ~r.attempted
      /\ r.kind = "close_position" /\ r.attempted => Spent(s) /\ Of("entry", s) # {}
      /\ r.kind = "entry" /\ Placed("entry", s) => r.attempted

EvidenceOK ==
  /\ \A i \in Intents : RowOK(i)
  /\ \A s \in Signals : Placed("entry", s) => Of("entry", s) # {}

-------------------------------------------------------------------------------
(* The book. *)

BookOK ==
  \A s \in Signals :
    /\ Status(book, s) \in {"filled", "close_requested", "closed"} => Executed(s)
    /\ Live(orders["entry"][s]) \/ Exposure(s) > 0 => s \in Active(book)

-------------------------------------------------------------------------------
(* The processes. *)

Names(p) ==
  CASE p = "monitor"  -> {"reconcile", "sweep", "expire", "expired", "settle"}
    [] p = "worker"   -> {"retry", "signals", "place", "advance", "submit", "depend", "recover"}
    [] p = "operator" -> {"inspect", "request", "order", "confirm", "finish", "drop", "flat",
                          "submit", "recover"}

Tokens == {"sweep", "signals", "place", "advance"}

EntryTasks == {"expire", "expired", "settle", "inspect", "request", "order", "finish", "flat"}

TaskType ==
  [name : {"reconcile", "sweep", "expire", "expired", "settle", "retry",
           "signals", "place", "advance", "submit", "depend", "recover",
           "inspect", "request", "order", "confirm", "finish", "drop", "flat"},
   intent : Nat]

\* A task names a row that it can be about.
TaskOK(p, t) ==
  LET r == intents[t.intent]
  IN  /\ t \in TaskType
      /\ t.name \in Names(p)
      /\ t.name \notin Tokens =>
           /\ t.intent \in Intents
           /\ t.name \in EntryTasks => r.kind = "entry"
           /\ t.name \in {"reconcile", "expire", "expired", "settle", "flat"} =>
                r.state # "planned"
           /\ t.name = "depend" => r.kind = "cancel_entry"
           /\ t.name = "recover" => r.kind \in {"entry", "close_position"} /\ r.attempted
           /\ t.name \in {"confirm", "drop"} => r.kind = "close_position"
           /\ t.name = "submit" /\ p = "operator" => r.kind = "close_position"
           /\ t.name = "drop" => ~r.attempted
           /\ t.name = "inspect" =>
                \A c \in Of("close_position", r.reservation) : ~intents[c].attempted
           /\ t.name = "flat" => Gone(r.reservation)

\* Was sent, or is going to be sent first.
Sent(t) == intents[t.intent].attempted \/ intents[t.intent].state # "planned"

TodoOK(p, todo) ==
  /\ todo \in Seq(TaskType)
  /\ \A t \in Range(todo) : TaskOK(p, t)
  /\ \A t \in Range(todo) :
       t.name \in {"depend", "confirm"} =>
         Sent(t) \/ Head(todo) = Task("submit", t.intent)
  /\ p = "operator" => \A t, u \in Range(todo) :
       /\ intents[t.intent].reservation = intents[u.intent].reservation
       /\ t.name \in {"drop", "inspect"} => u.name # "submit"

\* The worker passes a signal once it has placed it, and looks for the next one last.
Counted(todo) ==
  \A k \in DOMAIN todo :
    /\ todo[k].name \in {"place", "advance"} => k = Len(todo) - 1 /\ cursor < Len(Arrivals)
    /\ todo[k].name = "signals" <=> k = Len(todo)

\* The operator's command asks before it orders, and confirms before it finishes.
InTurn(todo) ==
  \A k \in DOMAIN todo :
    k > 1 => /\ todo[k].name = "order" => todo[k - 1] = Task("request", todo[k].intent)
             /\ todo[k].name = "finish" => todo[k - 1].name = "confirm"

\* An order as it was read: what has happened since.
SeenOK(order, seen) ==
  /\ order.status # "none"
  /\ seen \in OrderState
  /\ seen.status # "none"
  /\ seen.filled <= order.filled
  /\ seen.status \in Over => seen = order

SeenEntry(seen) ==
  /\ seen.status \in {"new", "rejected"} => seen.filled = 0
  /\ seen.status \in {"partial", "filled"} => seen.filled > 0

Walks == {"reconcile", "expired", "depend", "recover", "confirm"}

WalkOK(p) ==
  LET j == job[p]
      i == j.target
      r == intents[i]
      x == intents[Item(p)]
      name == Head(j.todo).name
  IN  /\ name \in Walks \cup {"inspect"}
      /\ i \in Intents
      /\ r.kind \in {"entry", "close_position"}
      /\ r.reservation = x.reservation
      /\ i # Item(p) => r.kind = "entry" /\ x.kind = "cancel_entry" /\ x.state # "planned"
      /\ r.kind = "entry" => /\ SeenOK(orders["entry"][r.reservation], j.seen)
                             /\ SeenEntry(j.seen)
      /\ r.kind = "close_position" =>
           /\ r.attempted
           /\ SeenOK(orders["close"][r.reservation], j.seen)
           /\ j.seen.status \in {"new", "filled", "cancelled"}
      /\ j.known <= r.filled
      /\ j.pc = "prove" <=> name = "inspect"
      /\ j.pc = "prove" => i = Item(p) /\ j.seen.status \in {"filled", "cancelled"}
      /\ j.pc \in {"protect", "remainder", "reread"} =>
           /\ r.kind = "entry" /\ j.known = j.seen.filled /\ j.seen.filled > 0
           /\ j.seen.status \in {"partial"} \cup Over

\* The evidence for what is handed to the ledger.
HandOK(p) ==
  LET j == job[p]
      name == Head(j.todo).name
  IN  /\ j.view \in States
      /\ Claim(Item(p), j.view)
      /\ intents[Item(p)].state # "planned"
      /\ name \in {"reconcile", "settle", "inspect", "flat", "confirm"}
      /\ name = "confirm" => j.view = "close_confirmed"
      /\ name = "flat" => j.view = "position_closed_pending"
      /\ name = "inspect" => j.view \in {"filled", "position_closed_pending"}
      /\ j.pc = "attribute" => name \in {"reconcile", "confirm"}
                               /\ j.view \in {"position_closed_pending", "close_confirmed"}

PlanOK(p) ==
  LET j == job[p]
      name == Head(j.todo).name
  IN  /\ j.command \in DOMAIN log
      /\ p = "worker" => name = "signals" /\ cursor < Len(Arrivals)
      /\ p = "monitor" => HandOK(p)
      /\ p = "operator" =>
           \/ name = "order" /\ j.view = "none" /\ j.command = OperatorCloseOf(Item(p))
           \/ HandOK(p)

PostOK(p) ==
  LET r == intents[Item(p)]
  IN  /\ Head(job[p].todo).name = "submit"
      /\ r.kind \in {"entry", "close_position"}
      /\ r.attempted
      /\ r.kind = "entry" =>
           \/ Placed("entry", r.reservation)
           \/ Status(book, r.reservation) = "pending"

PlaceOK(p) ==
  LET j == job[p]
  IN  /\ j.pc = "idle" => j = Idle
      /\ j.pc # "idle" => j.todo # <<>>
      /\ j.pc \in {"resolve", "protect", "remainder", "reread", "prove"} => WalkOK(p)
      /\ j.pc \in {"attribute", "sync"} => HandOK(p)
      /\ j.pc = "plan" => PlanOK(p)
      /\ j.pc = "post" => PostOK(p)
      /\ j.pc = "next" =>
           /\ j = [Idle EXCEPT !.pc = "next", !.todo = j.todo]
           /\ Head(j.todo).name = "finish" => Gone(intents[Item(p)].reservation)
           /\ Head(j.todo).name = "order" => OperatorCloseOf(Item(p)) \in DOMAIN log

JobOK(p) ==
  /\ TodoOK(p, job[p].todo)
  /\ p = "worker" => Counted(job[p].todo)
  /\ p = "operator" => InTurn(job[p].todo)
  /\ PlaceOK(p)

JobsOK ==
  /\ job \in [Processes -> Job]
  /\ \A p \in Processes : JobOK(p)
-------------------------------------------------------------------------------
(* What every step does: nothing that was evidence is taken back. *)

RestOK ==
  /\ course \in Courses /\ now \in Times /\ funds \in Equities /\ requested = {}
  /\ attributed \subseteq Signals /\ runs \subseteq Signals
  /\ cursor \in 0..Len(Arrivals)
  /\ Inv

ExposureInv ==
  /\ RestOK /\ ExchangeOK /\ LogOK /\ TableOK /\ EvidenceOK /\ BookOK /\ JobsOK

\* An order goes on: it is not replaced, executes no less, and does not change once it
\* is over.
GoesOn(old, new) ==
  /\ old.status # "none" => new.status # "none"
  /\ old.filled <= new.filled
  /\ old.status \in Over => new = old

\* A row keeps what it is about, what it executed and that it was sent; only a plan is
\* sent, and nothing becomes a plan again.
MovesOn(old, new) ==
  /\ new.kind = old.kind /\ new.reservation = old.reservation /\ new.command = old.command
  /\ old.filled <= new.filled
  /\ old.attempted => new.attempted
  /\ new.attempted => old.attempted \/ old.state = "planned"
  /\ old.state # "planned" => new.state # "planned"

Progress ==
  /\ \A s \in Signals :
       /\ GoesOn(orders["entry"][s], orders'["entry"][s])
       /\ GoesOn(orders["close"][s], orders'["close"][s])
       /\ exited[s] <= exited'[s]
       /\ ~Placed("entry", s) /\ Placed("entry", s)' =>
            Of("entry", s) # {} /\ \A i \in Of("entry", s) : intents[i].attempted
  /\ \A i \in Intents : i \in Intents' /\ MovesOn(intents[i], intents'[i])
  /\ \A c \in DOMAIN log : c \in DOMAIN log' /\ log'[c] = log[c]

\* No row is sent in this step.
NothingSent ==
  \A i \in Intents' : intents'[i].attempted => i \in Intents /\ intents[i].attempted

\* The orders and their fields.
OrdersTyped ==
  \A kind \in {"entry", "close"}, s \in Signals :
    /\ orders[kind][s] \in OrderState /\ orders[kind][s].filled \in Nat
    /\ orders[kind][s].size \in Nat
    /\ exited[s] \in Nat

\* Orders of a well formed exchange have their types: the fields of what bybit_demo returns.
LEMMA OrderType == ExchangeOK => OrdersTyped
<1>1. \A q \in Quantities : q \in Nat
  BY ExecutionAssumption DEF Quantities
<1>2. SUFFICES ASSUME ExchangeOK, NEW kind \in {"entry", "close"}, NEW s \in Signals
               PROVE  /\ orders[kind][s] \in OrderState /\ orders[kind][s].filled \in Nat
                      /\ orders[kind][s].size \in Nat
                      /\ exited[s] \in Nat
  BY DEF OrdersTyped
<1>3. orders[kind][s] \in OrderState /\ exited[s] \in Quantities
  <2>1. ExchangeTypeOK
    BY <1>2 DEF ExchangeOK
  <2>2. QED BY <1>2, <2>1 DEF ExchangeTypeOK
<1>4. QED BY <1>1, <1>3 DEF OrderState

\* The rows and their fields.
RowsTyped ==
  \A i \in Intents :
    /\ intents[i] \in Intent /\ intents[i].reservation \in Signals
    /\ intents[i].kind \in Kinds /\ intents[i].state \in States
    /\ intents[i].filled \in Quantities /\ intents[i].filled \in Nat
    /\ intents[i].attempted \in BOOLEAN /\ intents[i].synced \in BOOLEAN
    /\ intents[i].command \in DOMAIN log

\* Rows of a well formed intent store have their types: the columns of execution_repository.
LEMMA RowType == TableOK => RowsTyped
<1>1. \A q \in Quantities : q \in Nat
  BY ExecutionAssumption DEF Quantities
<1>2. TableOK => \A i \in Intents : intents[i] \in Intent
  BY TableRows DEF TableOK
<1>3. QED BY <1>1, <1>2 DEF Intent, RowsTyped

\* What is known of an entry at the exchange stays true.
LEMMA FactsStay ==
  ASSUME ExchangeOK, ExchangeOK', TableOK, Progress, NEW s \in Signals
  PROVE  /\ Executed(s) => Executed(s)'
         /\ Spent(s) => Spent(s)'
         /\ Gone(s) => Gone(s)'
         /\ \A status \in Over : Withdrawn(s, status) => Withdrawn(s, status)'
         /\ Unplaced(s) => Unplaced(s)'
         /\ Never(s) => Never(s)'
         /\ Placed("entry", s) => Placed("entry", s)'
         /\ Placed("close", s) => Placed("close", s)'
         /\ \A kind : Of(kind, s) # {} => (Of(kind, s) # {})'
<1>1. /\ GoesOn(orders["entry"][s], orders'["entry"][s])
      /\ GoesOn(orders["close"][s], orders'["close"][s])
      /\ exited[s] <= exited'[s]
  BY DEF Progress
<1>2. /\ orders["entry"][s].filled \in Nat /\ orders'["entry"][s].filled \in Nat
      /\ exited[s] \in Nat /\ exited'[s] \in Nat
      /\ exited'[s] <= orders'["entry"][s].filled
  <2>1. orders["entry"][s].filled \in Nat /\ exited[s] \in Nat
    BY OrderType DEF OrdersTyped
  <2>2. OrdersTyped'
    BY OrderType, PTL
  <2>3. exited'[s] <= orders'["entry"][s].filled
    BY DEF ExchangeOK
  <2>4. QED BY <2>1, <2>2, <2>3 DEF OrdersTyped
<1>3. Executed(s) => Executed(s)'
  BY <1>1, <1>2 DEF GoesOn, Executed
<1>4. Spent(s) => Spent(s)' /\ orders'["entry"][s] = orders["entry"][s]
  BY <1>1, <1>3 DEF GoesOn, Spent
<1>5. Gone(s) => Gone(s)'
  BY <1>1, <1>2, <1>4 DEF Gone
<1>6. \A status \in Over : Withdrawn(s, status) => Withdrawn(s, status)'
  BY <1>1 DEF GoesOn, Withdrawn
<1>7. /\ Placed("entry", s) => Placed("entry", s)'
      /\ Placed("close", s) => Placed("close", s)'
  BY <1>1 DEF GoesOn, Placed
<1>8. \A kind, i : i \in Of(kind, s) => i \in Of(kind, s)' /\ MovesOn(intents[i], intents'[i])
  BY DEF Progress, Of, MovesOn
<1>9. Unplaced(s) => Unplaced(s)'
  <2>1. SUFFICES ASSUME Unplaced(s) PROVE Unplaced(s)'
    OBVIOUS
  <2>2. PICK i \in Of("entry", s) : ~intents[i].attempted /\ intents[i].state # "planned"
    BY <2>1 DEF Unplaced
  <2>3. ~Placed("entry", s)'
    BY <2>1, <2>2 DEF Progress, Unplaced
  <2>4. i \in Of("entry", s)' /\ ~intents'[i].attempted /\ intents'[i].state # "planned"
    BY <1>8, <2>2 DEF MovesOn
  <2>5. QED BY <2>3, <2>4 DEF Unplaced
<1>10. Never(s) => Never(s)'
  BY <1>6, <1>9 DEF Never, Over
<1>11. QED BY <1>3, <1>4, <1>5, <1>6, <1>7, <1>8, <1>9, <1>10

\* The evidence behind a state stays.  (A close that is cancelled unsent is not sent.)
LEMMA ClaimStays ==
  ASSUME ExchangeOK, ExchangeOK', TableOK, Progress, NEW i \in Intents, NEW state,
         Claim(i, state),
         \/ intents[i].kind # "close_position" \/ state # "cancelled"
         \/ intents[i].state # "planned" \/ intents'[i].attempted = intents[i].attempted
  PROVE  Claim(i, state)'
<1>1. PICK s \in Signals : s = intents[i].reservation
  BY RowType DEF RowsTyped
<1>2. /\ MovesOn(intents[i], intents'[i]) /\ intents'[i].kind = intents[i].kind
      /\ intents'[i].reservation = s
  BY <1>1 DEF Progress, MovesOn
<1>3. /\ Executed(s) => Executed(s)'
      /\ Spent(s) => Spent(s)'
      /\ Gone(s) => Gone(s)'
      /\ Withdrawn(s, "cancelled") => Withdrawn(s, "cancelled")'
      /\ Withdrawn(s, "rejected") => Withdrawn(s, "rejected")'
      /\ Unplaced(s) => Unplaced(s)'
      /\ Never(s) => Never(s)'
      /\ Placed("entry", s) => Placed("entry", s)'
      /\ Placed("close", s) => Placed("close", s)'
      /\ Of("entry", s) # {} => (Of("entry", s) # {})'
  BY FactsStay DEF Over
<1>4. EntryClaim(s, state) => EntryClaim(s, state)'
  BY <1>3 DEF EntryClaim
<1>5. CancelClaim(s, state) => CancelClaim(s, state)'
  BY <1>3 DEF CancelClaim
<1>6. intents[i].kind = "close_position" =>
        (CloseClaim(s, state, intents[i].attempted) => CloseClaim(s, state, intents[i].attempted)')
  <2>1. GoesOn(orders["close"][s], orders'["close"][s])
    BY DEF Progress
  <2>2. /\ orders["close"][s].status = "filled" => orders'["close"][s].status = "filled"
        /\ orders["close"][s].status = "cancelled" => orders'["close"][s].status = "cancelled"
    BY <2>1 DEF GoesOn, Over
  <2>3. /\ intents[i].attempted => intents'[i].attempted
        /\ intents'[i].attempted => intents[i].attempted \/ intents[i].state = "planned"
    BY <1>2 DEF MovesOn
  <2>4. QED BY <1>3, <2>2, <2>3 DEF CloseClaim
<1>7. QED BY <1>1, <1>2, <1>4, <1>5, <1>6 DEF Claim

\* A row that is left alone keeps its evidence.
LEMMA RowStays ==
  ASSUME ExchangeOK, ExchangeOK', TableOK, Progress, NEW i \in Intents, RowOK(i),
         intents'[i] = intents[i]
  PROVE  RowOK(i)'
<1>1. PICK s \in Signals : s = intents[i].reservation
  BY RowType DEF RowsTyped
<1>2. PICK state : state = intents[i].state
  OBVIOUS
<1>3. Claim(i, state)'
  <2>1. Claim(i, state)
    BY <1>2 DEF RowOK
  <2>2. QED BY <2>1, ClaimStays
<1>4. /\ Spent(s) => Spent(s)'
      /\ Of("entry", s) # {} => (Of("entry", s) # {})'
  BY FactsStay
<1>5. intents[i].filled <= orders'["entry"][s].filled
  <2>1. /\ intents[i].filled \in Nat /\ orders["entry"][s].filled \in Nat
        /\ intents[i].filled <= orders["entry"][s].filled
    BY <1>1, RowType, OrderType DEF RowsTyped, OrdersTyped, RowOK
  <2>2. OrdersTyped'
    BY OrderType, PTL
  <2>3. orders["entry"][s].filled <= orders'["entry"][s].filled
    BY DEF Progress, GoesOn
  <2>4. QED BY <2>1, <2>2, <2>3 DEF OrdersTyped
<1>6. intents[i].kind = "entry" /\ Placed("entry", s)' => intents[i].attempted
  <2>1. intents[i].kind = "entry" => i \in Of("entry", s)
    BY <1>1 DEF Of
  <2>2. QED BY <1>1, <2>1 DEF RowOK, Progress
<1>7. QED BY <1>1, <1>2, <1>3, <1>4, <1>5, <1>6 DEF RowOK

\* What a task needs of its row stays, unless it needs it unsent.
LEMMA TaskStays ==
  ASSUME ExchangeOK, ExchangeOK', TableOK, Progress, NEW p, NEW t, TaskOK(p, t),
         t.name \in {"drop", "inspect"} => NothingSent
  PROVE  TaskOK(p, t)'
<1>1. CASE t.name \in Tokens
  BY <1>1 DEF TaskOK
<1>2. CASE t.name \notin Tokens
  <2>1. PICK i \in Intents : i = t.intent
    BY <1>2 DEF TaskOK
  <2>2. PICK s \in Signals : s = intents[i].reservation
    BY RowType DEF RowsTyped
  <2>3. i \in Intents' /\ MovesOn(intents[i], intents'[i])
    BY DEF Progress
  <2>4. Gone(s) => Gone(s)'
    BY FactsStay
  <2>5. t.name = "drop" => (intents'[i].attempted => intents[i].attempted)
    BY <2>3 DEF NothingSent
  <2>6. ASSUME t.name = "inspect", NEW c \in Of("close_position", s)'
        PROVE  ~intents'[c].attempted
    <3>1. intents'[c].attempted => c \in Intents /\ intents[c].attempted
      BY <2>6 DEF NothingSent, Of
    <3>2. c \in Intents => c \in Of("close_position", s)
      BY <2>6 DEF Progress, MovesOn, Of
    <3>3. QED BY <1>2, <2>1, <2>2, <2>6, <3>1, <3>2 DEF TaskOK
  <2>7. intents'[i].reservation = s
    BY <2>2, <2>3 DEF MovesOn
  <2>8. QED BY <1>2, <2>1, <2>2, <2>3, <2>4, <2>5, <2>6, <2>7 DEF TaskOK, MovesOn
<1>3. QED BY <1>1, <1>2

\* A list of tasks stays in order.
LEMMA TodoStays ==
  ASSUME ExchangeOK, ExchangeOK', TableOK, Progress, NEW p, NEW todo, TodoOK(p, todo),
         \A t \in Range(todo) : t.name \in {"drop", "inspect"} => NothingSent
  PROVE  TodoOK(p, todo)'
<1>1. \A t \in Range(todo) : TaskOK(p, t)'
  BY TaskStays DEF TodoOK
<1>2. ASSUME NEW t \in Range(todo), t.name \in {"depend", "confirm"}, Sent(t)
      PROVE  Sent(t)'
  <2>1. PICK i \in Intents : i = t.intent
    BY <1>2 DEF TodoOK, TaskOK, Tokens
  <2>2. MovesOn(intents[i], intents'[i])
    BY DEF Progress
  <2>3. QED BY <1>2, <2>1, <2>2 DEF MovesOn, Sent
<1>3. ASSUME NEW t \in Range(todo), NEW u \in Range(todo), p = "operator"
      PROVE  intents'[t.intent].reservation = intents'[u.intent].reservation
  <2>1. Tokens \cap Names(p) = {}
    BY <1>3 DEF Tokens, Names
  <2>2. t.intent \in Intents /\ u.intent \in Intents
    BY <2>1 DEF TodoOK, TaskOK
  <2>3. intents[t.intent].reservation = intents[u.intent].reservation
    BY <1>3 DEF TodoOK
  <2>4. QED BY <2>2, <2>3 DEF Progress, MovesOn
<1>4. QED BY <1>1, <1>2, <1>3 DEF TodoOK

\* An order that was read stays what it was read as.
LEMMA SeenStays ==
  ASSUME NEW old \in OrderState, NEW new \in OrderState, GoesOn(old, new), NEW seen,
         SeenOK(old, seen)
  PROVE  SeenOK(new, seen)
<1>1. \A q \in Quantities : q \in Nat
  BY ExecutionAssumption DEF Quantities
<1>2. old.filled \in Nat /\ new.filled \in Nat /\ (seen \in OrderState => seen.filled \in Nat)
  BY <1>1 DEF OrderState
<1>3. QED BY <1>2 DEF GoesOn, SeenOK

-------------------------------------------------------------------------------
(* A process that does not move stays in order. *)

\* An entry that was sent stays reserved, or was placed.
PendingStays ==
  \A s \in Signals :
    Status(book, s) = "pending" /\ Status(book', s) # "pending" =>
      Placed("entry", s)' \/ \A i \in Of("entry", s) : ~intents[i].attempted

\* The head of a list of tasks in order, and what is left of it.
LEMMA TodoHead ==
  ASSUME NEW p, NEW todo, TodoOK(p, todo), todo # <<>>
  PROVE  /\ Head(todo) \in Range(todo) /\ TaskOK(p, Head(todo)) /\ Head(todo) \in TaskType
         /\ Tail(todo) \in Seq(TaskType) /\ Range(Tail(todo)) \subseteq Range(todo)
         /\ Len(Tail(todo)) = Len(todo) - 1
         /\ \A k \in DOMAIN Tail(todo) : k + 1 \in DOMAIN todo /\ Tail(todo)[k] = todo[k + 1]
BY HeadTail DEF TodoOK

\* A process at work is at a task, and at a row if the task is about one.
LEMMA AtWork ==
  ASSUME NEW p \in Processes, JobOK(p), job[p].pc # "idle"
  PROVE  /\ job[p].todo # <<>> /\ TaskOK(p, Head(job[p].todo))
         /\ Head(job[p].todo) \in Range(job[p].todo)
         /\ Head(job[p].todo) = Task(Head(job[p].todo).name, Item(p))
         /\ Head(job[p].todo).name \notin Tokens => Item(p) \in Intents
<1>1. job[p].todo # <<>> /\ TodoOK(p, job[p].todo)
  BY DEF JobOK, PlaceOK
<1>2. TaskOK(p, Head(job[p].todo)) /\ Head(job[p].todo) \in Range(job[p].todo)
  BY <1>1, TodoHead
<1>3. QED BY <1>1, <1>2 DEF TaskOK, TaskType, Task, Item

\* A walk stays in order.
LEMMA WalkStays ==
  ASSUME ExchangeOK, ExchangeOK', TableOK, TableOK', Progress, job \in [Processes -> Job],
         NEW p \in Processes, JobOK(p), job'[p] = job[p],
         job[p].pc # "idle", WalkOK(p)
  PROVE  WalkOK(p)'
<1> DEFINE j == job[p]
           i == j.target
           name == Head(j.todo).name
<1>1. name \in Walks \cup {"inspect"} /\ i \in Intents /\ Item(p) \in Intents
  BY AtWork DEF WalkOK, Walks, Tokens
<1>2. PICK s \in Signals : s = intents[i].reservation
  BY <1>1, RowType DEF RowsTyped
<1>3. PICK x \in Intents : x = Item(p)
  BY <1>1
<1>4. MovesOn(intents[i], intents'[i]) /\ MovesOn(intents[x], intents'[x])
      /\ i \in Intents'
  BY <1>1 DEF Progress
<1>5. Item(p)' = x
  BY <1>3 DEF Item
<1>6. SeenOK(orders["entry"][s], j.seen) => SeenOK(orders["entry"][s], j.seen)'
  <2>1. /\ orders["entry"][s] \in OrderState /\ orders'["entry"][s] \in OrderState
        /\ GoesOn(orders["entry"][s], orders'["entry"][s])
    <3>1. OrdersTyped /\ OrdersTyped'
      BY OrderType, PTL
    <3>2. QED BY <3>1 DEF OrdersTyped, Progress
  <2>2. PICK seen : seen = j.seen
    OBVIOUS
  <2>3. SeenOK(orders["entry"][s], seen) => SeenOK(orders'["entry"][s], seen)
    BY <2>1, SeenStays
  <2>4. QED BY <2>2, <2>3 DEF SeenOK
<1>7. SeenOK(orders["close"][s], j.seen) => SeenOK(orders["close"][s], j.seen)'
  <2>1. /\ orders["close"][s] \in OrderState /\ orders'["close"][s] \in OrderState
        /\ GoesOn(orders["close"][s], orders'["close"][s])
    <3>1. OrdersTyped /\ OrdersTyped'
      BY OrderType, PTL
    <3>2. QED BY <3>1 DEF OrdersTyped, Progress
  <2>2. PICK seen : seen = j.seen
    OBVIOUS
  <2>3. SeenOK(orders["close"][s], seen) => SeenOK(orders'["close"][s], seen)
    BY <2>1, SeenStays
  <2>4. QED BY <2>2, <2>3 DEF SeenOK
<1>8. j.known <= intents'[i].filled
  <2>1. /\ intents[i].filled \in Nat /\ j.known <= intents[i].filled
        /\ intents[i].filled <= intents'[i].filled
    BY <1>1, <1>4, RowType DEF RowsTyped, WalkOK, MovesOn
  <2>2. RowsTyped'
    BY RowType, PTL
  <2>3. intents'[i].filled \in Nat
    BY <1>4, <2>2 DEF RowsTyped
  <2>4. j.known \in Nat
    <3>1. \A q \in Quantities : q \in Nat
      BY ExecutionAssumption DEF Quantities
    <3>2. QED BY <3>1 DEF Job
  <2>5. QED BY <2>1, <2>3, <2>4
<1>9. QED BY <1>1, <1>2, <1>3, <1>4, <1>5, <1>6, <1>7, <1>8 DEF WalkOK, MovesOn

\* What is to be handed to the ledger stays proved.
LEMMA HandStays ==
  ASSUME ExchangeOK, ExchangeOK', TableOK, Progress,
         NEW p \in Processes, JobOK(p), job'[p] = job[p],
         job[p].pc # "idle", HandOK(p)
  PROVE  HandOK(p)'
<1>1. Item(p) \in Intents
  BY AtWork DEF HandOK, Tokens
<1>2. PICK i \in Intents : i = Item(p)
  BY <1>1
<1>3. PICK view : view = job[p].view
  OBVIOUS
<1>4. Claim(i, view)'
  BY <1>2, <1>3, ClaimStays DEF HandOK
<1>5. Item(p)' = i
  BY <1>2 DEF Item
<1>6. intents'[i].state # "planned"
  BY <1>2 DEF HandOK, Progress, MovesOn
<1>7. QED BY <1>2, <1>3, <1>4, <1>5, <1>6 DEF HandOK

\* Whatever the others do, a process that does not move stays in order.
LEMMA JobStays ==
  ASSUME ExchangeOK, ExchangeOK', TableOK, TableOK', Progress, job \in [Processes -> Job],
         NEW p \in Processes, JobOK(p), job'[p] = job[p], PendingStays,
         p = "worker" => cursor' = cursor /\ course' = course,
         p = "operator" => job[p] = Idle \/ NothingSent
  PROVE  JobOK(p)'
<1>1. TodoOK(p, job[p].todo)'
  <2>1. PICK todo : todo = job[p].todo
    OBVIOUS
  <2>2. TodoOK(p, todo)
    BY <2>1 DEF JobOK
  <2>3. \A t \in Range(todo) : t.name \in {"drop", "inspect"} => NothingSent
    <3>1. SUFFICES ASSUME NEW t \in Range(todo), t.name \in {"drop", "inspect"}
                   PROVE  NothingSent
      OBVIOUS
    <3>2. p = "operator"
      BY <2>2, <3>1 DEF TodoOK, TaskOK, Names, Processes
    <3>3. job[p] # Idle
      BY <2>1, <3>1 DEF Idle, Range
    <3>4. QED BY <3>2, <3>3
  <2>4. TodoOK(p, todo)'
    BY <2>2, <2>3, TodoStays
  <2>5. QED BY <2>1, <2>4
<1>2. p = "worker" => Counted(job[p].todo)'
  BY DEF JobOK, Counted, Arrivals
<1>12. p = "operator" => InTurn(job[p].todo)'
  BY DEF JobOK, InTurn
<1>3. PlaceOK(p)'
  <2>1. CASE job[p].pc = "idle"
    BY <2>1 DEF JobOK, PlaceOK
  <2>2. CASE job[p].pc # "idle"
    <3>1. PlaceOK(p) /\ job[p].todo # <<>>
      BY <2>2 DEF JobOK, PlaceOK
    <3>2. WalkOK(p) => WalkOK(p)'
      BY <2>2, WalkStays
    <3>3. HandOK(p) => HandOK(p)'
      BY <2>2, HandStays
    <3>4. PlanOK(p) => PlanOK(p)'
      BY <3>3 DEF PlanOK, Progress, Arrivals, Item
    <3>5. job[p].pc = "post" /\ PostOK(p) => PostOK(p)'
      <4>1. SUFFICES ASSUME job[p].pc = "post", PostOK(p) PROVE PostOK(p)'
        OBVIOUS
      <4>2. PICK i \in Intents : i = Item(p)
        BY <2>2, <4>1, AtWork DEF PostOK, Tokens
      <4>3. PICK s \in Signals : s = intents[i].reservation
        BY RowType DEF RowsTyped
      <4>4. MovesOn(intents[i], intents'[i]) /\ Item(p)' = i
        BY <4>2 DEF Progress, Item
      <4>5. Placed("entry", s) => Placed("entry", s)'
        BY FactsStay
      <4>6. intents[i].kind = "entry" => i \in Of("entry", s)
        BY <4>3 DEF Of
      <4>7. QED BY <4>1, <4>2, <4>3, <4>4, <4>5, <4>6 DEF PostOK, PendingStays, MovesOn
    <3>6. job[p].pc = "next" /\ Head(job[p].todo).name = "finish" =>
            (Gone(intents[Item(p)].reservation) => Gone(intents[Item(p)].reservation)')
      <4>1. SUFFICES ASSUME Head(job[p].todo).name = "finish", Gone(intents[Item(p)].reservation)
                     PROVE  Gone(intents[Item(p)].reservation)'
        OBVIOUS
      <4>2. PICK i \in Intents : i = Item(p)
        BY <2>2, <4>1, AtWork DEF Tokens
      <4>3. PICK s \in Signals : s = intents[i].reservation
        BY RowType DEF RowsTyped
      <4>4. MovesOn(intents[i], intents'[i]) /\ Item(p)' = i
        BY <4>2 DEF Progress, Item
      <4>5. Gone(s) => Gone(s)'
        BY FactsStay
      <4>6. intents'[i].reservation = s
        BY <4>3, <4>4 DEF MovesOn
      <4>7. QED BY <4>1, <4>2, <4>3, <4>4, <4>5, <4>6
    <3>7. Item(p)' = Item(p) /\ \A c \in DOMAIN log : c \in DOMAIN log'
      BY DEF Item, Progress
    <3>8. QED BY <2>2, <3>1, <3>2, <3>3, <3>4, <3>5, <3>6, <3>7 DEF PlaceOK
  <2>3. QED BY <2>1, <2>2
<1>4. QED BY <1>1, <1>2, <1>3, <1>12 DEF JobOK

-------------------------------------------------------------------------------
(* Steps in which only one process, or none, moves. *)

\* The processes but one stay where they are.
OthersWait(p) ==
  /\ \A q \in Processes \ {p} : job'[q] = job[q]
  /\ p # "worker" => cursor' = cursor
  /\ course' = course
  /\ p # "operator" => job["operator"] = Idle \/ intents' = intents

\* If the process that moves is in order, all of them are.
LEMMA OthersStay ==
  ASSUME ExposureInv, ExchangeOK', TableOK', Progress, PendingStays,
         NEW p, OthersWait(p), job' = [q \in Processes |-> job'[q]],
         p \in Processes => job'[p] \in Job' /\ JobOK(p)'
  PROVE  JobsOK'
<1>1. ExchangeOK /\ TableOK /\ JobsOK
  BY DEF ExposureInv
<1>2. ASSUME NEW q \in Processes \ {p} PROVE JobOK(q)' /\ job'[q] \in Job'
  <2>1. job \in [Processes -> Job] /\ JobOK(q) /\ job'[q] = job[q]
    BY <1>1, <1>2 DEF JobsOK, OthersWait
  <2>2. /\ q = "worker" => cursor' = cursor /\ course' = course
        /\ q = "operator" => job[q] = Idle \/ NothingSent
    BY <1>2 DEF OthersWait, NothingSent, Intents
  <2>3. JobOK(q)'
    BY <1>1, <1>2, <2>1, <2>2, JobStays
  <2>4. job[q] \in Job'
    <3>1. job[q] \in Job /\ \A c \in DOMAIN log : c \in DOMAIN log'
      BY <1>2, <2>1 DEF Progress
    <3>2. QED BY <3>1 DEF Job
  <2>5. QED BY <2>1, <2>3, <2>4
<1>3. \A q \in Processes : JobOK(q)' /\ job'[q] \in Job'
  BY <1>2
<1>4. job' \in [Processes -> Job']
  BY <1>3
<1>5. QED BY <1>3, <1>4 DEF JobsOK
-------------------------------------------------------------------------------
(* What happens at the exchange. *)

\* The exchange moves on its own: orders and exits go on, no entry is placed, and
\* nothing is live or held that was neither before.
ExchangeMoves ==
  /\ ExchangeOK'
  /\ \A s \in Signals :
       /\ GoesOn(orders["entry"][s], orders'["entry"][s])
       /\ GoesOn(orders["close"][s], orders'["close"][s])
       /\ exited[s] <= exited'[s]
       /\ Placed("entry", s)' => Placed("entry", s)
       /\ (Live(orders["entry"][s]) \/ Exposure(s) > 0)' =>
            Live(orders["entry"][s]) \/ Exposure(s) > 0

\* One entry order changes, and with it at most the pending cancellation.
LEMMA EntryOrderMoves ==
  ASSUME ExchangeOK, NEW s \in Signals, NEW o \in OrderState,
         orders' = [orders EXCEPT !["entry"][s] = o],
         GoesOn(orders["entry"][s], o), Live(orders["entry"][s]),
         (EntryOrderOK(s))', Live(o) \/ s \notin cancelling', cancelling' \subseteq cancelling,
         UNCHANGED <<exited, stops, reported>>
  PROVE  ExchangeMoves
<1>1. /\ orders'["entry"][s] = o /\ orders'["close"] = orders["close"]
      /\ \A t \in Signals \ {s} : orders'["entry"][t] = orders["entry"][t]
      /\ orders' \in [{"entry", "close"} -> [Signals -> OrderState]]
  BY DEF ExchangeOK, ExchangeTypeOK
<1>2. OrdersTyped
  BY OrderType
<1>3. ASSUME NEW t \in Signals
      PROVE  /\ GoesOn(orders["entry"][t], orders'["entry"][t])
             /\ GoesOn(orders["close"][t], orders'["close"][t])
  <2>1. orders["entry"][t].filled \in Nat /\ orders["close"][t].filled \in Nat
    BY <1>2 DEF OrdersTyped
  <2>2. QED BY <1>1, <2>1 DEF GoesOn
<1>4. ASSUME NEW t \in Signals
      PROVE  /\ EntryOrderOK(t)' /\ CloseOrderOK(t)'
             /\ exited'[t] <= orders'["entry"][t].filled
             /\ t \in cancelling' => Live(orders'["entry"][t])
  <2>1. /\ EntryOrderOK(t) /\ CloseOrderOK(t)
        /\ exited[t] <= orders["entry"][t].filled
        /\ t \in cancelling => Live(orders["entry"][t])
    BY DEF ExchangeOK
  <2>2. CASE t = s
    <3>1. /\ orders["entry"][s].filled \in Nat /\ orders["entry"][s].filled <= o.filled
          /\ exited[s] \in Nat /\ o.filled \in Nat
      <4>1. \A q \in Quantities : q \in Nat
        BY ExecutionAssumption DEF Quantities
      <4>2. QED BY <1>2, <4>1 DEF OrdersTyped, GoesOn, OrderState
    <3>2. QED BY <1>1, <2>1, <2>2, <3>1 DEF CloseOrderOK
  <2>3. CASE t # s
    BY <1>1, <2>1, <2>3 DEF EntryOrderOK, CloseOrderOK
  <2>4. QED BY <2>2, <2>3
<1>5. ExchangeOK'
  <2>1. ExchangeTypeOK'
    BY <1>1 DEF ExchangeOK, ExchangeTypeOK
  <2>2. QED BY <1>4, <2>1 DEF ExchangeOK
<1>6. ASSUME NEW t \in Signals
      PROVE  /\ exited[t] <= exited'[t]
             /\ Placed("entry", t)' => Placed("entry", t)
             /\ (Live(orders["entry"][t]) \/ Exposure(t) > 0)' =>
                  Live(orders["entry"][t]) \/ Exposure(t) > 0
  <2>1. exited[t] \in Nat
    BY <1>2 DEF OrdersTyped
  <2>2. CASE t = s
    BY <2>1, <2>2 DEF Live, Placed
  <2>3. CASE t # s
    BY <1>1, <2>1, <2>3 DEF Placed, Exposure
  <2>4. QED BY <2>2, <2>3
<1>7. QED BY <1>3, <1>5, <1>6 DEF ExchangeMoves

\* A close order changes, and a quantity of its entry may be closed with it.
LEMMA ExitMoves ==
  ASSUME ExchangeOK, NEW s \in Signals, NEW o \in OrderState, NEW q \in Nat,
         orders' = [orders EXCEPT !["close"][s] = o],
         GoesOn(orders["close"][s], o), (CloseOrderOK(s))',
         exited' = [exited EXCEPT ![s] = @ + q], q <= Exposure(s),
         stops' \in [Symbols -> Signals \cup {NoStop}],
         UNCHANGED <<cancelling, reported>>
  PROVE  ExchangeMoves
<1>1. /\ orders'["close"][s] = o /\ orders'["entry"] = orders["entry"]
      /\ \A t \in Signals \ {s} : orders'["close"][t] = orders["close"][t]
      /\ orders' \in [{"entry", "close"} -> [Signals -> OrderState]]
  BY DEF ExchangeOK, ExchangeTypeOK
<1>2. OrdersTyped
  BY OrderType
<1>3. ASSUME NEW t \in Signals
      PROVE  /\ GoesOn(orders["entry"][t], orders'["entry"][t])
             /\ GoesOn(orders["close"][t], orders'["close"][t])
  <2>1. orders["entry"][t].filled \in Nat /\ orders["close"][t].filled \in Nat
    BY <1>2 DEF OrdersTyped
  <2>2. QED BY <1>1, <2>1 DEF GoesOn
<1>4. /\ \A t \in Signals \ {s} : exited'[t] = exited[t]
      /\ exited'[s] = exited[s] + q
  BY DEF ExchangeOK, ExchangeTypeOK
<1>5. ASSUME NEW t \in Signals
      PROVE  /\ exited[t] <= exited'[t] /\ exited'[t] <= orders["entry"][t].filled
             /\ exited'[t] \in Nat
             /\ Exposure(t)' <= Exposure(t)
  <2>1. /\ exited[t] \in Nat /\ orders["entry"][t].filled \in Nat
        /\ exited[t] <= orders["entry"][t].filled
    BY <1>2 DEF OrdersTyped, ExchangeOK
  <2>2. CASE t = s
    BY <1>1, <1>4, <2>1, <2>2 DEF Exposure
  <2>3. CASE t # s
    BY <1>1, <1>4, <2>1, <2>3 DEF Exposure
  <2>4. QED BY <2>2, <2>3
<1>6. exited' \in [Signals -> Quantities]
  <2>1. \A t \in Signals : exited'[t] \in Quantities
    <3>1. SUFFICES ASSUME NEW t \in Signals PROVE exited'[t] \in Quantities
      OBVIOUS
    <3>2. exited'[t] <= EntrySize[t] /\ exited'[t] \in Nat /\ EntrySize[t] \in Nat
      <4>1. orders["entry"][t].filled <= EntrySize[t] /\ orders["entry"][t].filled \in Nat
        BY <1>2 DEF ExchangeOK, EntryOrderOK, OrdersTyped
      <4>2. QED BY <1>5, <4>1, ExecutionAssumption
    <3>3. exited'[t] = 0 \/ exited'[t] \in 1..EntrySize[t]
      BY <3>2
    <3>4. QED BY <3>3 DEF Quantities
  <2>2. QED BY <2>1 DEF ExchangeOK, ExchangeTypeOK
<1>7. ExchangeOK'
  <2>1. ExchangeTypeOK'
    BY <1>1, <1>6 DEF ExchangeOK, ExchangeTypeOK
  <2>2. ASSUME NEW t \in Signals
        PROVE  /\ EntryOrderOK(t)' /\ CloseOrderOK(t)'
               /\ exited'[t] <= orders'["entry"][t].filled
               /\ t \in cancelling' => Live(orders'["entry"][t])
    <3>1. /\ EntryOrderOK(t) /\ CloseOrderOK(t)
          /\ t \in cancelling => Live(orders["entry"][t])
      BY DEF ExchangeOK
    <3>2. CloseOrderOK(t)'
      <4>1. CASE t = s
        BY <4>1
      <4>2. CASE t # s
        BY <1>1, <3>1, <4>2 DEF CloseOrderOK
      <4>3. QED BY <4>1, <4>2
    <3>3. QED BY <1>1, <1>5, <3>1, <3>2 DEF EntryOrderOK
  <2>3. QED BY <2>1, <2>2 DEF ExchangeOK
<1>8. ASSUME NEW t \in Signals
      PROVE  /\ Placed("entry", t)' => Placed("entry", t)
             /\ (Live(orders["entry"][t]) \/ Exposure(t) > 0)' =>
                  Live(orders["entry"][t]) \/ Exposure(t) > 0
  <2>1. Exposure(t) \in Int /\ Exposure(t)' \in Int
    BY <1>1, <1>2, <1>5 DEF Exposure, OrdersTyped
  <2>2. QED BY <1>1, <1>5, <2>1 DEF Placed
<1>9. QED BY <1>3, <1>5, <1>7, <1>8 DEF ExchangeMoves

\* An exchange that changes no order and no exit.
LEMMA ExchangeRests ==
  ASSUME ExchangeOK, UNCHANGED <<orders, exited>>,
         cancelling' \subseteq {s \in Signals : Live(orders["entry"][s])},
         stops' \in [Symbols -> Signals \cup {NoStop}], reported' \subseteq Signals
  PROVE  ExchangeMoves
<1>1. OrdersTyped
  BY OrderType
<1>2. ExchangeOK'
  BY DEF ExchangeOK, ExchangeTypeOK, EntryOrderOK, CloseOrderOK
<1>3. QED BY <1>1, <1>2 DEF ExchangeMoves, GoesOn, Placed, Exposure, OrdersTyped

\* Everything the exchange does on its own is such a move.
LEMMA ExchangeActs ==
  ASSUME ExchangeOK, NEW s \in Signals,
         \/ EffectCancel(s) \/ FillClose(s) \/ LapseClose(s) \/ Report(s)
         \/ FillEntry(s) \/ RefusePostOnly(s) \/ HitStop(s)
  PROVE  ExchangeMoves
<1> DEFINE e == orders["entry"][s]
           c == orders["close"][s]
<1>1. \A q \in Quantities : q \in Nat
  BY ExecutionAssumption DEF Quantities
<1>2. /\ e \in OrderState /\ e.filled \in Nat /\ e.filled \in Quantities
      /\ c \in OrderState /\ c.size \in Nat /\ c.size \in Quantities
      /\ c.filled \in Nat /\ c.filled \in Quantities
      /\ exited[s] \in Nat /\ exited[s] <= e.filled
      /\ EntryOrderOK(s) /\ CloseOrderOK(s)
      /\ s \in cancelling => Live(e)
      /\ EntrySize[s] \in Nat \ {0}
  BY OrderType, ExecutionAssumption DEF OrdersTyped, ExchangeOK, OrderState
<1>3. Exposure(s) \in Nat /\ Exposure(s) <= e.filled
  BY <1>2 DEF Exposure
<1>4. \A o \in OrderState :
        orders' = [orders EXCEPT !["entry"][s] = o] => orders'["entry"][s] = o
  BY DEF ExchangeOK, ExchangeTypeOK
<1>5. \A o \in OrderState :
        orders' = [orders EXCEPT !["close"][s] = o] => orders'["close"][s] = o
  BY DEF ExchangeOK, ExchangeTypeOK
<1>6. CASE EffectCancel(s)
  <2> DEFINE o == [e EXCEPT !.status = "cancelled"]
  <2>1. o \in OrderState /\ o.status = "cancelled" /\ o.filled = e.filled
    BY <1>2 DEF OrderState
  <2>2. orders' = [orders EXCEPT !["entry"][s] = o]
    BY <1>6 DEF EffectCancel
  <2>3. GoesOn(e, o) /\ Live(e)
    BY <1>2, <1>6, <2>1 DEF EffectCancel, GoesOn, Live, Over
  <2> HIDE DEF o
  <2>4. EntryOrderOK(s)'
    BY <1>2, <1>4, <2>1, <2>2 DEF EntryOrderOK
  <2>5. QED BY Zenon, <1>6, <2>1, <2>2, <2>3, <2>4, EntryOrderMoves DEF EffectCancel
<1>7. CASE RefusePostOnly(s)
  <2>1. PICK status \in {"cancelled", "rejected"} :
          orders' = [orders EXCEPT !["entry"][s].status = status]
    BY Zenon, <1>7 DEF RefusePostOnly
  <2> DEFINE o == [e EXCEPT !.status = status]
  <2>2. o \in OrderState /\ o.status = status /\ o.filled = e.filled /\ e.filled = 0
    BY <1>2, <1>7 DEF OrderState, RefusePostOnly, EntryOrderOK
  <2>3. orders' = [orders EXCEPT !["entry"][s] = o]
    BY <2>1
  <2>4. GoesOn(e, o) /\ Live(e)
    BY <1>2, <1>7, <2>2 DEF RefusePostOnly, GoesOn, Live, Over
  <2> HIDE DEF o
  <2>5. EntryOrderOK(s)'
    BY <1>2, <1>4, <2>2, <2>3 DEF EntryOrderOK
  <2>6. QED BY Zenon, <1>7, <2>2, <2>3, <2>4, <2>5, EntryOrderMoves DEF RefusePostOnly
<1>8. CASE FillEntry(s)
  <2>1. PICK q \in 1..EntrySize[s] :
          /\ q > e.filled
          /\ orders' = [orders EXCEPT !["entry"][s].filled = q,
                                      !["entry"][s].status =
                                         IF q = EntrySize[s] THEN "filled" ELSE "partial"]
    BY Zenon, <1>8 DEF FillEntry
  <2> DEFINE status == IF q = EntrySize[s] THEN "filled" ELSE "partial"
             o == [e EXCEPT !.filled = q, !.status = status]
  <2>2. q \in Quantities
    BY DEF Quantities
  <2>3. o \in OrderState /\ o.status = status /\ o.filled = q
    BY Zenon, <1>2, <2>2 DEF OrderState
  <2>4. orders' = [orders EXCEPT !["entry"][s] = o]
    BY Zenon, <2>1
  <2>5. GoesOn(e, o) /\ Live(e)
    BY <1>2, <1>8, <2>1, <2>3 DEF FillEntry, GoesOn, Live, Over
  <2>6. Live(o) \/ s \notin cancelling'
    BY Zenon, <1>4, <1>8, <2>3, <2>4 DEF FillEntry, Live
  <2> HIDE DEF o
  <2>7. EntryOrderOK(s)'
    BY <1>2, <1>4, <2>3, <2>4 DEF EntryOrderOK
  <2>8. QED BY Zenon, <1>8, <2>3, <2>4, <2>5, <2>6, <2>7, EntryOrderMoves DEF FillEntry
<1>9. ASSUME NEW q, AfterExit(s, q)
      PROVE  /\ exited' = [exited EXCEPT ![s] = @ + q]
             /\ stops' \in [Symbols -> Signals \cup {NoStop}]
  BY Zenon, <1>9 DEF AfterExit, ExchangeOK, ExchangeTypeOK
<1>10. CASE FillClose(s)
  <2> DEFINE q == IF c.size < Exposure(s) THEN c.size ELSE Exposure(s)
             o == [c EXCEPT !.status = "filled", !.filled = q]
  <2>1. q \in Nat /\ q \in Quantities /\ q <= Exposure(s)
    <3>1. Exposure(s) \in Quantities
      <4>1. e.filled <= EntrySize[s]
        BY <1>2 DEF EntryOrderOK
      <4>2. Exposure(s) = 0 \/ Exposure(s) \in 1..EntrySize[s]
        BY <1>2, <1>3, <4>1
      <4>3. QED BY <4>2 DEF Quantities
    <3>2. QED BY <1>2, <1>3, <3>1
  <2>2. o \in OrderState /\ o.status = "filled"
    BY Zenon, <1>2, <2>1 DEF OrderState
  <2>3. orders' = [orders EXCEPT !["close"][s] = o]
    BY Zenon, <1>10 DEF FillClose
  <2>4. GoesOn(c, o)
    <3>1. c.filled = 0
      BY <1>2, <1>10 DEF FillClose, Live, CloseOrderOK
    <3>2. QED BY <1>2, <1>10, <2>1, <3>1 DEF GoesOn, FillClose, Live, Over
  <2>5. AfterExit(s, q)
    BY <1>10 DEF FillClose
  <2> HIDE DEF o, q
  <2>6. CloseOrderOK(s)'
    BY Zenon, <1>5, <2>2, <2>3 DEF CloseOrderOK
  <2>7. QED BY Zenon, <1>9, <1>10, <2>1, <2>2, <2>3, <2>4, <2>5, <2>6, ExitMoves DEF FillClose
<1>11. CASE LapseClose(s)
  <2> DEFINE o == [c EXCEPT !.status = "cancelled"]
  <2>1. o \in OrderState /\ o.status = "cancelled" /\ o.filled = c.filled
    BY <1>2 DEF OrderState
  <2>2. orders' = [orders EXCEPT !["close"][s] = o]
    BY <1>11 DEF LapseClose
  <2>3. GoesOn(c, o)
    BY <1>2, <1>11, <2>1 DEF LapseClose, GoesOn, Live, Over
  <2> HIDE DEF o
  <2>4. CloseOrderOK(s)'
    BY Zenon, <1>5, <2>1, <2>2 DEF CloseOrderOK
  <2>5. exited' = [exited EXCEPT ![s] = @ + 0]
    BY <1>2, <1>11 DEF LapseClose, ExchangeOK, ExchangeTypeOK
  <2>6. stops' \in [Symbols -> Signals \cup {NoStop}]
    BY <1>11 DEF LapseClose, ExchangeOK, ExchangeTypeOK
  <2>7. 0 <= Exposure(s) /\ 0 \in Nat
    BY <1>3
  <2>8. QED BY Zenon, <1>11, <2>1, <2>2, <2>3, <2>4, <2>5, <2>6, <2>7, ExitMoves DEF LapseClose
<1>12. CASE HitStop(s)
  <2>1. orders' = [orders EXCEPT !["close"][s] = c]
    BY <1>12 DEF HitStop, ExchangeOK, ExchangeTypeOK
  <2>2. GoesOn(c, c)
    BY <1>2 DEF GoesOn
  <2>3. CloseOrderOK(s)'
    BY <1>2, <1>12 DEF HitStop, CloseOrderOK
  <2>4. PICK q \in Nat : q = Exposure(s)
    BY <1>3
  <2>5. AfterExit(s, q) /\ q <= Exposure(s)
    BY <1>3, <1>12, <2>4 DEF HitStop
  <2>6. QED BY Zenon, <1>2, <1>9, <1>12, <2>1, <2>2, <2>3, <2>5, ExitMoves DEF HitStop
<1>13. CASE Report(s)
  BY <1>13, ExchangeRests DEF Report, ExchangeOK, ExchangeTypeOK
<1>14. QED BY <1>6, <1>7, <1>8, <1>10, <1>11, <1>12, <1>13

-------------------------------------------------------------------------------
(* What a step has to show. *)

Promised == Ledger!Next \/ UNCHANGED Ledger!promise

\* The invariant is kept, nothing that was evidence is taken back, and the promise of
\* the lifecycle is kept.
Advances == ExposureInv' /\ Progress /\ Promised

\* The orders and exits of a step that is not the exchange's.
OrdersRest == UNCHANGED <<orders, exited>>

\* Without a fill, an exit, a placement or a decision there is nothing to promise.
LEMMA PromisedAtRest ==
  ASSUME UNCHANGED <<orders, exited, book>>
  PROVE  Promised
BY DEF Promised, Ledger!promise, Active, Status, Live, Exposure

\* The rest of the state in a step that decides nothing.
LEMMA RestStays ==
  ASSUME ExposureInv, UNCHANGED <<account, book, requested, log, course>>,
         decision' = decision \/ decision' = NothingDecided,
         now' \in Times, funds' \in Equities, attributed' \subseteq Signals,
         runs' \subseteq Signals, cursor' \in 0..Len(Arrivals)
  PROVE  RestOK' /\ LogOK' /\ PendingStays
<1>1. RestOK /\ LogOK
  BY DEF ExposureInv
<1>2. decision' \in Decisions
  BY <1>1 DEF RestOK, Inv, NothingDecided, Decisions
<1>3. Inv'
  BY <1>1, <1>2 DEF RestOK, Inv, Sound, Exclusive, ReversalLive, Flat, Capped, Active, Status
<1>4. RestOK'
  BY <1>1, <1>3 DEF RestOK, Arrivals
<1>5. LogOK' /\ PendingStays
  BY <1>1 DEF LogOK, PendingStays, Status
<1>6. QED BY <1>4, <1>5

\* What the book is about stays proved when neither book nor orders nor exits change.
LEMMA BookStays ==
  ASSUME BookOK, UNCHANGED <<orders, exited, book>>
  PROVE  BookOK'
BY DEF BookOK, Status, Executed, Live, Exposure, Active

\* A process that moves, and the others.
LEMMA Moving ==
  ASSUME ExposureInv, NEW p \in Processes, NEW new, Become(p, new)
  PROVE  /\ job'[p] = new
         /\ \A q \in Processes \ {p} : job'[q] = job[q]
         /\ job' = [q \in Processes |-> job'[q]]
BY Zenon DEF ExposureInv, JobsOK, Become

\* A process that is not at work is in order.
LEMMA IdleOK ==
  ASSUME NEW p \in Processes, job'[p] = Idle
  PROVE  job'[p] \in Job' /\ JobOK(p)'
<1>1. NoOrder \in OrderState
  BY DEF NoOrder, OrderState, Quantities
<1>2. <<>> \in Seq(TaskType) /\ \A t \in Range(<<>>) : FALSE
  BY DEF Range
<1>3. Idle \in Job'
  BY <1>1, <1>2 DEF Idle, Job, NoIntent, Quantities, TaskType
<1>4. Idle.todo = <<>> /\ Idle.pc = "idle"
  BY DEF Idle
<1>5. PlaceOK(p)'
  BY <1>4 DEF PlaceOK
<1>6. TodoOK(p, <<>>)' /\ Counted(<<>>)' /\ InTurn(<<>>)'
  BY <1>2 DEF TodoOK, Counted, InTurn
<1>7. QED BY <1>3, <1>4, <1>5, <1>6 DEF JobOK

\* The table is left alone.
LEMMA TableRests ==
  ASSUME ExposureInv, UNCHANGED <<intents, log>>, ExchangeOK',
         \A s \in Signals :
           /\ GoesOn(orders["entry"][s], orders'["entry"][s])
           /\ GoesOn(orders["close"][s], orders'["close"][s])
           /\ exited[s] <= exited'[s]
           /\ Placed("entry", s)' => Placed("entry", s)
  PROVE  TableOK' /\ Progress /\ EvidenceOK'
<1>1. ExchangeOK /\ TableOK /\ EvidenceOK
  BY DEF ExposureInv
<1>2. TableOK'
  BY <1>1 DEF TableOK, Intents, Intent
<1>3. Progress
  <2>1. \A i \in Intents : MovesOn(intents[i], intents[i])
    BY <1>1, RowType DEF MovesOn, RowsTyped
  <2>2. QED BY <2>1 DEF Progress, Intents
<1>4. \A i \in Intents : RowOK(i)'
  BY <1>1, <1>3, RowStays DEF EvidenceOK
<1>5. \A s \in Signals : (Placed("entry", s) => Of("entry", s) # {})'
  BY <1>1, <1>3, FactsStay DEF EvidenceOK
<1>6. QED BY <1>2, <1>3, <1>4, <1>5 DEF EvidenceOK, Intents

\* Steps of the environment and of the clock, crashes, and everything else in which the
\* table, the ledger and the orders stay as they are.
LEMMA QuietStep ==
  ASSUME ExposureInv, UNCHANGED <<account, book, requested, log, course, intents>>,
         decision' = decision \/ decision' = NothingDecided,
         now' \in Times, funds' \in Equities, attributed' \subseteq Signals,
         runs' \subseteq Signals, cursor' \in 0..Len(Arrivals), OrdersRest, ExchangeOK',
         NEW p, OthersWait(p), job' = [q \in Processes |-> job'[q]],
         p \in Processes /\ Progress /\ TableOK' /\ EvidenceOK' => job'[p] \in Job' /\ JobOK(p)'
  PROVE  Advances
<1>1. RestOK' /\ LogOK' /\ PendingStays
  BY RestStays
<1>2. TableOK' /\ Progress /\ EvidenceOK'
  <2>1. OrdersTyped
    BY OrderType DEF ExposureInv
  <2>2. QED BY <2>1, TableRests DEF OrdersRest, GoesOn, Placed, OrdersTyped
<1>3. BookOK'
  BY BookStays DEF ExposureInv, OrdersRest
<1>4. JobsOK'
  BY <1>1, <1>2, OthersStay
<1>5. Promised
  BY PromisedAtRest DEF OrdersRest
<1>6. QED BY <1>1, <1>2, <1>3, <1>4, <1>5 DEF ExposureInv, Advances

-------------------------------------------------------------------------------
(* The environment. *)

\* What the promise says of an entry.
PlacedAsOrdered == \A s \in Signals : orders["entry"][s] # NoOrder <=> Placed("entry", s)

\* At a well formed exchange an entry is placed exactly when it has an order.
LEMMA PlacedOrder == ExchangeOK => PlacedAsOrdered
BY DEF ExchangeOK, EntryOrderOK, Placed, NoOrder, PlacedAsOrdered

\* What happens to one entry at the exchange is a fill, a withdrawal or an exit.
LEMMA PromisedAtExchange ==
  ASSUME ExchangeOK, ExchangeOK', NEW s \in Signals, UNCHANGED book,
         \A t \in Signals \ {s} : /\ orders'["entry"][t] = orders["entry"][t]
                                  /\ Exposure(t)' = Exposure(t),
         Placed("entry", s)' <=> Placed("entry", s),
         \/ /\ Exposure(s)' = Exposure(s) /\ Live(orders["entry"][s]) /\ ~Live(orders["entry"][s])'
         \/ /\ Exposure(s)' > 0 /\ Live(orders["entry"][s])
         \/ /\ Exposure(s) > 0 /\ (Live(orders["entry"][s])' <=> Live(orders["entry"][s]))
         \/ /\ Exposure(s)' = Exposure(s)
            /\ (Live(orders["entry"][s])' <=> Live(orders["entry"][s]))
  PROVE  Promised
<1>1. PlacedAsOrdered /\ PlacedAsOrdered'
  BY PlacedOrder, PTL
<1> DEFINE placed == {t \in Signals : orders["entry"][t] # NoOrder}
           offered == {t \in Signals : Live(orders["entry"][t])}
           held == {t \in Signals : Exposure(t) > 0}
           active == Active(book)
           settled == {t \in Signals : Status(book, t) \in Released}
<1>3. placed' = placed
  BY <1>1 DEF PlacedAsOrdered, Placed
<1>4. active' = active /\ settled' = settled
  BY DEF Active, Status
<1>5. /\ \A t \in Signals \ {s} : (t \in offered' <=> t \in offered) /\ (t \in held' <=> t \in held)
      /\ s \in offered <=> Live(orders["entry"][s])
      /\ s \in offered' <=> Live(orders["entry"][s])'
      /\ s \in held <=> Exposure(s) > 0
      /\ s \in held' <=> Exposure(s)' > 0
      /\ offered \subseteq Signals /\ offered' \subseteq Signals
      /\ held \subseteq Signals /\ held' \subseteq Signals
  BY DEF Live
<1> HIDE DEF placed, offered, held, active, settled
<1>6. \/ /\ held' = held /\ s \in offered /\ offered' = offered \ {s}
      \/ /\ held' = held \cup {s} /\ s \in offered /\ offered' \in {offered, offered \ {s}}
      \/ /\ s \in held /\ held' \in {held, held \ {s}} /\ offered' = offered
      \/ /\ held' = held /\ offered' = offered
  <2>1. CASE Exposure(s)' = Exposure(s) /\ Live(orders["entry"][s]) /\ ~Live(orders["entry"][s])'
    BY <1>5, <2>1
  <2>2. CASE Exposure(s)' > 0 /\ Live(orders["entry"][s])
    BY <1>5, <2>2
  <2>3. CASE Exposure(s) > 0 /\ (Live(orders["entry"][s])' <=> Live(orders["entry"][s]))
    BY <1>5, <2>3
  <2>4. CASE /\ Exposure(s)' = Exposure(s)
             /\ (Live(orders["entry"][s])' <=> Live(orders["entry"][s]))
    BY <1>5, <2>4
  <2>5. QED BY <2>1, <2>2, <2>3, <2>4
<1>7. QED
  BY <1>3, <1>4, <1>6
     DEF Promised, Ledger!Next, Ledger!Fill, Ledger!Withdraw, Ledger!Exit, Ledger!promise,
         placed, offered, held, active, settled

\* The exchange and the market.
LEMMA ExchangeStep ==
  ASSUME ExposureInv, NEW s \in Signals, ExchangeWorks(s) \/ PriceMoves(s)
  PROVE  Advances
<1>1. /\ ExchangeOK /\ TableOK /\ BookOK
      /\ UNCHANGED <<riskVars, ledgerVars, Clocks, job>>
      /\ \/ EffectCancel(s) \/ FillClose(s) \/ LapseClose(s) \/ Report(s)
         \/ FillEntry(s) \/ RefusePostOnly(s) \/ HitStop(s)
  BY DEF ExposureInv, ExchangeWorks, PriceMoves
<1>2. ExchangeMoves
  BY <1>1, ExchangeActs
<1>3. /\ UNCHANGED <<account, book, decision, requested, log, intents, attributed, cursor, runs>>
      /\ UNCHANGED <<course, now, funds, job>>
  BY <1>1 DEF riskVars, ledgerVars, Clocks
<1>4. RestOK' /\ LogOK' /\ PendingStays
  <2>1. RestOK
    BY DEF ExposureInv
  <2>2. QED BY <1>3, <2>1, RestStays DEF RestOK
<1>5. TableOK' /\ Progress /\ EvidenceOK' /\ ExchangeOK'
  BY <1>2, <1>3, TableRests DEF ExchangeMoves
<1>6. BookOK'
  <2>1. \A t \in Signals : Executed(t) => Executed(t)'
    BY <1>1, <1>5, FactsStay
  <2>2. QED BY <1>1, <1>2, <1>3, <2>1 DEF BookOK, ExchangeMoves, Status, Active
<1>7. JobsOK'
  <2>1. OthersWait("nobody") /\ job' = [q \in Processes |-> job'[q]]
    BY <1>3 DEF OthersWait, ExposureInv, JobsOK
  <2>2. "nobody" \notin Processes
    BY DEF Processes
  <2>3. QED BY <1>4, <1>5, <2>1, <2>2, OthersStay
<1>8. Promised
  <2>1. OrdersTyped /\ OrdersTyped'
    BY <1>1, <1>5, OrderType, PTL
  <2>2. /\ \A k \in {"entry", "close"}, t \in Signals : orders[k][t] \in OrderState
        /\ orders \in [{"entry", "close"} -> [Signals -> OrderState]]
        /\ exited \in [Signals -> Quantities]
        /\ \A t \in Signals : EntryOrderOK(t)
    BY <1>1 DEF ExchangeOK, ExchangeTypeOK
  <2>3. \A t \in Signals : Exposure(t) \in Int /\ Exposure(t)' \in Int
    BY <2>1 DEF OrdersTyped, Exposure
  <2>4. Placed("entry", s)' <=> Placed("entry", s)
    BY <1>2 DEF ExchangeMoves, GoesOn, Placed
  <2>5. CASE EffectCancel(s)
    <3>1. /\ \A t \in Signals \ {s} : /\ orders'["entry"][t] = orders["entry"][t]
                                      /\ Exposure(t)' = Exposure(t)
          /\ Exposure(s)' = Exposure(s) /\ ~Live(orders["entry"][s])'
      BY <2>2, <2>5 DEF EffectCancel, Exposure, Live
    <3>2. Live(orders["entry"][s])
      BY <1>1, <2>5 DEF EffectCancel, ExchangeOK
    <3>3. QED BY <1>1, <1>3, <1>5, <2>4, <3>1, <3>2, PromisedAtExchange
  <2>6. CASE RefusePostOnly(s)
    <3>1. /\ \A t \in Signals \ {s} : /\ orders'["entry"][t] = orders["entry"][t]
                                      /\ Exposure(t)' = Exposure(t)
          /\ Exposure(s)' = Exposure(s) /\ ~Live(orders["entry"][s])'
          /\ Live(orders["entry"][s])
      BY <2>2, <2>6 DEF RefusePostOnly, Exposure, Live
    <3>2. QED BY <1>1, <1>3, <1>5, <2>4, <3>1, PromisedAtExchange
  <2>7. CASE FillEntry(s)
    <3>1. /\ \A t \in Signals \ {s} : /\ orders'["entry"][t] = orders["entry"][t]
                                      /\ Exposure(t)' = Exposure(t)
          /\ Live(orders["entry"][s])
      BY <2>2, <2>7 DEF FillEntry, Exposure
    <3>2. Exposure(s)' > 0
      <4>1. orders'["entry"][s].filled > orders["entry"][s].filled
        BY <2>2, <2>7 DEF FillEntry
      <4>2. exited'[s] = exited[s] /\ exited[s] <= orders["entry"][s].filled
        BY <1>1, <2>7 DEF FillEntry, ExchangeOK
      <4>3. QED BY <2>1, <4>1, <4>2 DEF Exposure, OrdersTyped
    <3>3. QED BY <1>1, <1>3, <1>5, <2>4, <3>1, <3>2, PromisedAtExchange
  <2>8. ASSUME NEW q, AfterExit(s, q), orders'["entry"] = orders["entry"], Exposure(s) > 0
        PROVE  Promised
    <3>1. /\ \A t \in Signals \ {s} : /\ orders'["entry"][t] = orders["entry"][t]
                                      /\ Exposure(t)' = Exposure(t)
          /\ Live(orders["entry"][s])' <=> Live(orders["entry"][s])
      BY <2>2, <2>8 DEF AfterExit, Exposure
    <3>2. QED BY <1>1, <1>3, <1>5, <2>4, <2>8, <3>1, PromisedAtExchange
  <2>9. CASE FillClose(s)
    <3>1. PICK q : AfterExit(s, q)
      BY <2>9 DEF FillClose
    <3>2. orders'["entry"] = orders["entry"] /\ Exposure(s) > 0
      BY <2>2, <2>9 DEF FillClose
    <3>3. QED BY <2>8, <3>1, <3>2
  <2>10. CASE HitStop(s)
    <3>1. AfterExit(s, Exposure(s)) /\ orders'["entry"] = orders["entry"] /\ Exposure(s) > 0
      BY <2>10 DEF HitStop
    <3>2. QED BY <2>8, <3>1
  <2>11. CASE LapseClose(s) \/ Report(s)
    <3>1. orders'["entry"] = orders["entry"] /\ exited' = exited
      BY <2>2, <2>11 DEF LapseClose, Report
    <3>2. /\ \A t \in Signals : /\ orders'["entry"][t] = orders["entry"][t]
                                /\ Exposure(t)' = Exposure(t)
          /\ Live(orders["entry"][s])' <=> Live(orders["entry"][s])
      BY <3>1 DEF Exposure
    <3>3. QED BY <1>1, <1>3, <1>5, <2>4, <3>2, PromisedAtExchange
  <2>12. QED BY <1>1, <2>5, <2>6, <2>7, <2>9, <2>10, <2>11
<1>9. QED BY <1>4, <1>5, <1>6, <1>7, <1>8 DEF ExposureInv, Advances

\* The exchange stays in order when nothing happens at it.
LEMMA ExchangeStays ==
  ASSUME ExchangeOK, UNCHANGED <<orders, exited, cancelling, stops, reported>>
  PROVE  ExchangeOK'
BY DEF ExchangeOK, ExchangeTypeOK, EntryOrderOK, CloseOrderOK

\* Time passes, the equity falls.
LEMMA ClockStep ==
  ASSUME ExposureInv, Tick \/ Mark
  PROVE  Advances
<1>1. /\ UNCHANGED <<account, book, decision, requested, log, intents, attributed, cursor, runs>>
      /\ UNCHANGED <<course, job, orders, cancelling, exited, stops, reported>>
      /\ now' \in Times /\ funds' \in Equities
  <2>1. RestOK
    BY DEF ExposureInv
  <2>2. course.times \subseteq Times
    BY <2>1, ExecutionAssumption DEF RestOK
  <2>3. QED BY <2>1, <2>2 DEF Tick, Mark, RestOK, riskVars, ledgerVars, exchangeVars
<1>2. ExchangeOK'
  BY <1>1, ExchangeStays DEF ExposureInv
<1>3. OthersWait("nobody") /\ job' = [q \in Processes |-> job'[q]] /\ "nobody" \notin Processes
  BY <1>1 DEF OthersWait, ExposureInv, JobsOK, Processes
<1>4. attributed' \subseteq Signals /\ runs' \subseteq Signals /\ cursor' \in 0..Len(Arrivals)
  BY <1>1 DEF ExposureInv, RestOK
<1>5. QED BY <1>1, <1>2, <1>3, <1>4, QuietStep DEF OrdersRest

\* A process moves while ledger, table and orders stay as they are.
LEMMA LoneStep ==
  ASSUME ExposureInv, NEW p \in Processes, NEW new, Become(p, new),
         UNCHANGED <<account, book, requested, log, course, now, funds, intents, orders, exited>>,
         decision' = decision \/ decision' = NothingDecided,
         ExchangeOK',
         attributed' \subseteq Signals, runs' \subseteq Signals, cursor' \in 0..Len(Arrivals),
         p # "worker" => cursor' = cursor,
         job'[p] = new /\ Progress /\ TableOK' /\ EvidenceOK' => new \in Job' /\ JobOK(p)'
  PROVE  Advances
<1>1. now' \in Times /\ funds' \in Equities
  BY DEF ExposureInv, RestOK
<1>2. /\ job'[p] = new
      /\ OthersWait(p) /\ job' = [q \in Processes |-> job'[q]]
  <2>1. /\ job'[p] = new
        /\ \A q \in Processes \ {p} : job'[q] = job[q]
        /\ job' = [q \in Processes |-> job'[q]]
    BY Moving
  <2>2. QED BY <2>1 DEF OthersWait
<1>3. QED BY <1>1, <1>2, QuietStep DEF OrdersRest

\* A process ends its cycle, or dies.
LEMMA RaiseStep ==
  ASSUME ExposureInv, NEW p \in Processes, Raise(p),
         UNCHANGED <<account, book, requested, log, course, now, funds, intents, orders, exited>>,
         decision' = decision \/ decision' = NothingDecided,
         ExchangeOK', UNCHANGED <<attributed, runs, cursor>>
  PROVE  Advances
<1>1. /\ attributed' \subseteq Signals /\ runs' \subseteq Signals /\ cursor' \in 0..Len(Arrivals)
  BY DEF ExposureInv, RestOK
<1>2. Become(p, Idle)
  BY DEF Raise
<1>3. QED BY <1>1, <1>2, IdleOK, LoneStep

\* A process that dies (Crash, OperatorStops) keeps the invariant and the promise.
LEMMA CrashStep ==
  ASSUME ExposureInv, (\E p \in Processes : Crash(p)) \/ OperatorStops
  PROVE  Advances
<1>1. PICK p \in Processes :
        /\ Raise(p)
        /\ UNCHANGED <<account, book, decision, requested, log, intents, attributed, cursor, runs>>
        /\ UNCHANGED <<course, now, funds, orders, cancelling, exited, stops, reported>>
  BY DEF Crash, OperatorStops, riskVars, ledgerVars, exchangeVars, Clocks, Ledgers, Operator,
         Processes
<1>2. ExchangeOK'
  BY <1>1, ExchangeStays DEF ExposureInv
<1>3. QED BY <1>1, <1>2, RaiseStep

-------------------------------------------------------------------------------
(* Steps that write the table. *)

\* A row is written with the evidence for its new state, be it from before this step or
\* from this step.  It is marked as sent while it is a plan.
Written(i) ==
  LET old == intents[i]
      new == intents'[i]
      s   == old.reservation
  IN  /\ MovesOn(old, new)
      /\ new \in Intent
      /\ \E state \in States : new.state = state /\ (Claim(i, state) \/ Claim(i, state)')
      /\ new.filled <= orders["entry"][s].filled
      /\ old.kind # "entry" => new.filled = old.filled
      /\ new.attempted # old.attempted =>
           /\ new.state = "planned" /\ old.kind # "cancel_entry"
           /\ old.kind = "close_position" => Spent(s) /\ Of("entry", s) # {}

\* What the orders may do while the table is written.
OrdersGoOn ==
  \A s \in Signals :
    /\ GoesOn(orders["entry"][s], orders'["entry"][s])
    /\ GoesOn(orders["close"][s], orders'["close"][s])
    /\ exited[s] <= exited'[s]
    /\ ~Placed("entry", s) /\ Placed("entry", s)' =>
         Of("entry", s) # {} /\ \A i \in Of("entry", s) : intents[i].attempted

\* Rows rewritten one by one, each with evidence for its state, leave the store in order.
LEMMA TableWrites ==
  ASSUME ExposureInv, UNCHANGED log, ExchangeOK', OrdersGoOn,
         intents' = [i \in Intents |-> intents'[i]],
         \A i \in Intents : intents'[i] = intents[i] \/ Written(i)
  PROVE  TableOK' /\ Progress /\ EvidenceOK'
<1>1. /\ ExchangeOK /\ TableOK /\ EvidenceOK
      /\ Intents' = Intents
  BY DEF ExposureInv, Intents
<1>2. \A i \in Intents : MovesOn(intents[i], intents'[i]) /\ intents'[i] \in Intent
  <2>1. \A i \in Intents : MovesOn(intents[i], intents[i]) /\ intents[i] \in Intent
    BY <1>1, RowType DEF MovesOn, RowsTyped
  <2>2. QED BY <2>1 DEF Written
<1>3. TableOK'
  <2>1. intents' \in Seq(Intent)
    <3>1. Intents = 1..Len(intents) /\ Len(intents) \in Nat
      BY <1>1, TableRows DEF TableOK
    <3>2. intents' \in [1..Len(intents) -> Intent]
      BY <1>2, <3>1
    <3>3. QED BY <3>1, <3>2, SeqDef
  <2>2. intents' \in Seq(Intent)'
    BY <2>1 DEF Intent
  <2>3. QED BY <1>1, <1>2, <2>2 DEF TableOK, MovesOn
<1>4. Progress
  BY <1>1, <1>2 DEF Progress, OrdersGoOn
<1>5. ASSUME NEW i \in Intents, Written(i) PROVE RowOK(i)'
  <2>1. PICK s \in Signals : s = intents[i].reservation
    BY <1>1, RowType DEF RowsTyped
  <2>2. /\ MovesOn(intents[i], intents'[i])
        /\ RowOK(i)
        /\ intents'[i].reservation = s /\ intents'[i].kind = intents[i].kind
    BY <1>1, <1>5, <2>1 DEF Written, EvidenceOK, MovesOn
  <2>3. PICK state \in States : intents'[i].state = state /\ (Claim(i, state) \/ Claim(i, state)')
    BY <1>5 DEF Written
  <2>4. Claim(i, state)'
    <3>1. \/ intents[i].kind # "close_position" \/ state # "cancelled"
          \/ intents[i].state # "planned" \/ intents'[i].attempted = intents[i].attempted
      BY <1>5, <2>3 DEF Written
    <3>2. Claim(i, state) => Claim(i, state)'
      BY <1>1, <1>4, <3>1, ClaimStays
    <3>3. QED BY <2>3, <3>2
  <2>5. intents'[i].filled <= orders'["entry"][s].filled
    <3>1. intents'[i].filled <= orders["entry"][s].filled
      BY <1>5, <2>1 DEF Written
    <3>2. orders["entry"][s].filled <= orders'["entry"][s].filled
      BY DEF OrdersGoOn, GoesOn
    <3>3. OrdersTyped /\ OrdersTyped' /\ RowsTyped'
      BY <1>1, <1>3, OrderType, RowType, PTL
    <3>4. QED BY <1>1, <3>1, <3>2, <3>3 DEF OrdersTyped, RowsTyped
  <2>6. intents'[i].kind # "entry" => intents'[i].filled = 0
    BY <1>5, <2>2 DEF Written, RowOK
  <2>7. intents'[i].kind = "cancel_entry" => ~intents'[i].attempted
    BY <1>5, <2>2 DEF Written, RowOK
  <2>8. intents'[i].kind = "close_position" /\ intents'[i].attempted =>
          Spent(s)' /\ (Of("entry", s) # {})'
    <3>1. (Spent(s) => Spent(s)') /\ (Of("entry", s) # {} => (Of("entry", s) # {})')
      BY <1>1, <1>4, FactsStay
    <3>2. intents[i].kind = "close_position" /\ intents'[i].attempted =>
            Spent(s) /\ Of("entry", s) # {}
      BY <1>5, <2>1, <2>2 DEF Written, RowOK
    <3>3. QED BY <2>2, <3>1, <3>2
  <2>9. intents'[i].kind = "entry" /\ Placed("entry", s)' => intents'[i].attempted
    <3>1. intents[i].kind = "entry" => i \in Of("entry", s)
      BY <2>1 DEF Of
    <3>2. QED BY <2>1, <2>2, <3>1 DEF RowOK, OrdersGoOn, MovesOn
  <2>10. QED BY <2>2, <2>3, <2>4, <2>5, <2>6, <2>7, <2>8, <2>9 DEF RowOK
<1>6. ASSUME NEW i \in Intents, intents'[i] = intents[i] PROVE RowOK(i)'
  BY <1>1, <1>4, <1>6, RowStays DEF EvidenceOK
<1>7. \A s \in Signals : (Placed("entry", s) => Of("entry", s) # {})'
  <2>1. SUFFICES ASSUME NEW s \in Signals, Placed("entry", s)' PROVE (Of("entry", s) # {})'
    OBVIOUS
  <2>2. Of("entry", s) # {}
    BY <1>1, <2>1 DEF EvidenceOK, OrdersGoOn
  <2>3. QED BY <1>1, <1>4, <2>2, FactsStay
<1>8. QED BY <1>1, <1>3, <1>4, <1>5, <1>6, <1>7 DEF EvidenceOK

\* A step of one process that writes rows and leaves ledger, clock and orders alone.
LEMMA WriteStep ==
  ASSUME ExposureInv, NEW p \in Processes, NEW new, Become(p, new),
         UNCHANGED <<account, book, requested, log, course, now, funds, orders, exited>>,
         decision' = decision \/ decision' = NothingDecided,
         UNCHANGED <<attributed, runs, cursor>>, ExchangeOK',
         intents' = [i \in Intents |-> intents'[i]],
         \A i \in Intents : intents'[i] = intents[i] \/ Written(i),
         p # "operator" => job["operator"] = Idle,
         job'[p] = new /\ Progress /\ TableOK' /\ EvidenceOK' => new \in Job' /\ JobOK(p)'
  PROVE  Advances
<1>1. OrdersGoOn
  <2>1. OrdersTyped
    BY OrderType DEF ExposureInv
  <2>2. QED BY <2>1 DEF OrdersGoOn, GoesOn, Placed, OrdersTyped
<1>2. TableOK' /\ Progress /\ EvidenceOK'
  BY <1>1, TableWrites
<1>3. RestOK' /\ LogOK' /\ PendingStays
  <2>1. RestOK
    BY DEF ExposureInv
  <2>2. /\ now' \in Times /\ funds' \in Equities /\ attributed' \subseteq Signals
        /\ runs' \subseteq Signals /\ cursor' \in 0..Len(Arrivals)
    BY <2>1 DEF RestOK
  <2>3. QED BY <2>2, RestStays
<1>4. BookOK'
  BY BookStays DEF ExposureInv
<1>5. JobsOK'
  <2>1. /\ job'[p] = new
        /\ OthersWait(p) /\ job' = [q \in Processes |-> job'[q]]
    <3>1. /\ job'[p] = new
          /\ \A q \in Processes \ {p} : job'[q] = job[q]
          /\ job' = [q \in Processes |-> job'[q]]
      BY Moving
    <3>2. QED BY <3>1 DEF OthersWait
  <2>2. QED BY <1>2, <1>3, <2>1, OthersStay
<1>6. Promised
  BY PromisedAtRest
<1>7. QED BY <1>2, <1>3, <1>4, <1>5, <1>6 DEF ExposureInv, Advances

-------------------------------------------------------------------------------
(* Steps that plan. *)

\* A reservation has one entry: only one decision creates it.
LEMMA EntryOnce ==
  ASSUME TableOK, LogOK, NEW s \in Signals
  PROVE  /\ \A i, j \in Of("entry", s) : i = j
         /\ \A i \in Of("entry", s) : EntryOf(s) = i
<1>1. \A i \in Of("entry", s) : /\ i \in Intents /\ intents[i].command \in DOMAIN log
                                /\ intents[i].kind = "entry" /\ intents[i].reservation = s
                                /\ Act("create", s) \in log[intents[i].command].actions
  BY Zenon, RowType DEF Of, TableOK, RowsTyped, ActionOf
<1>2. \A i, j \in Of("entry", s) : i = j
  BY <1>1 DEF TableOK, LogOK
<1>3. \A i \in Of("entry", s) : EntryOf(s) = i
  <2>1. EntryOf(s) # NoIntent => EntryOf(s) \in Of("entry", s)
    BY Owning DEF TableOK
  <2>2. EntryOf(s) # NoIntent <=> Of("entry", s) # {}
    BY Owning DEF TableOK
  <2>3. QED BY <1>2, <2>1, <2>2
<1>4. QED BY <1>2, <1>3

\* No process moves and no row is sent.
LEMMA AllStay ==
  ASSUME ExposureInv, ExchangeOK', TableOK', Progress, PendingStays,
         UNCHANGED <<job, cursor, course>>, NothingSent
  PROVE  JobsOK'
<1>1. ExchangeOK /\ TableOK /\ JobsOK
  BY DEF ExposureInv
<1>2. ASSUME NEW q \in Processes PROVE JobOK(q)' /\ job'[q] \in Job'
  <2>1. job \in [Processes -> Job] /\ JobOK(q) /\ job'[q] = job[q]
    BY <1>1, <1>2 DEF JobsOK
  <2>2. JobOK(q)'
    BY <1>1, <1>2, <2>1, JobStays
  <2>3. job[q] \in Job'
    <3>1. job[q] \in Job /\ \A c \in DOMAIN log : c \in DOMAIN log'
      BY <1>2, <2>1 DEF Progress
    <3>2. QED BY <3>1 DEF Job
  <2>4. QED BY <2>1, <2>2, <2>3
<1>3. \A q \in Processes : JobOK(q)' /\ job'[q] \in Job'
  BY <1>2
<1>4. job' \in [Processes -> Job']
  <2>1. job' = job /\ job \in [Processes -> Job]
    BY <1>1 DEF JobsOK
  <2>2. QED BY <1>3, <2>1
<1>5. QED BY <1>3, <1>4 DEF JobsOK

\* An action that has no intent yet becomes a plan.
LEMMA PlanStep ==
  ASSUME ExposureInv, NEW c \in DOMAIN log, NEW a \in log[c].actions, ~Stored(c, a),
         intents' = Append(intents, IntentFor(c, a)),
         UNCHANGED <<account, book, decision, requested, log, course, now, funds>>,
         UNCHANGED <<attributed, runs, cursor, job>>,
         UNCHANGED <<orders, exited, cancelling, stops, reported>>
  PROVE  Advances
<1>1. /\ RestOK /\ ExchangeOK /\ LogOK /\ TableOK /\ EvidenceOK /\ BookOK
      /\ ExchangeOK'
  BY ExchangeStays DEF ExposureInv
<1>2. PICK s \in Signals, kind \in Kinds, new \in Intent :
        /\ a = Act(ActionOf(kind), s)
        /\ KindOf(a.type) = kind /\ a.reservation = s
        /\ new = IntentFor(c, a)
        /\ new.kind = kind /\ new.reservation = s /\ new.command = c
        /\ new.state = "planned" /\ new.filled = 0 /\ new.attempted = FALSE
  <2>1. a \in Actions
    BY <1>1 DEF LogOK, Decisions
  <2>2. a.type \in {"create", "cancel", "close"} /\ a.reservation \in Signals
        /\ a = Act(a.type, a.reservation)
    BY <2>1 DEF Actions, Act
  <2>3. KindOf(a.type) \in Kinds /\ ActionOf(KindOf(a.type)) = a.type
    BY <2>2 DEF KindOf, Kinds, ActionOf
  <2>4. IntentFor(c, a) \in Intent
    BY <2>2, <2>3 DEF IntentFor, Intent, States, Quantities
  <2>5. QED BY <2>2, <2>3, <2>4 DEF IntentFor
<1>3. PICK n : n = Len(intents')
  OBVIOUS
<1>4. /\ intents' \in Seq(Intent)
      /\ Intents' = Intents \cup {n} /\ n \notin Intents
      /\ \A i \in Intents : intents'[i] = intents[i]
      /\ intents'[n] = new
  <2>1. intents \in Seq(Intent) /\ intents' = Append(intents, new)
    BY <1>1, <1>2 DEF TableOK
  <2>2. QED BY <1>3, <2>1, AppendRow DEF Intents
<1>5. \A i \in Intents : ~(/\ intents[i].kind = kind /\ intents[i].reservation = s
                           /\ intents[i].command = c)
  BY <1>2 DEF Stored, Of
<1>6. TableOK'
  <2>1. intents' \in Seq(Intent')
    BY <1>4 DEF Intent
  <2>2. \A i, j \in Intents' :
          /\ intents'[i].kind = intents'[j].kind
          /\ intents'[i].reservation = intents'[j].reservation
          /\ intents'[i].command = intents'[j].command
          => i = j
    <3>1. \A i, j \in Intents :
            /\ intents[i].kind = intents[j].kind
            /\ intents[i].reservation = intents[j].reservation
            /\ intents[i].command = intents[j].command
            => i = j
      BY <1>1 DEF TableOK
    <3>2. SUFFICES ASSUME NEW i \in Intents', NEW j \in Intents',
                          intents'[i].kind = intents'[j].kind,
                          intents'[i].reservation = intents'[j].reservation,
                          intents'[i].command = intents'[j].command
                   PROVE  i = j
      BY Zenon
    <3>3. CASE i \in Intents /\ j \in Intents
      BY Zenon, <1>4, <3>1, <3>2, <3>3
    <3>4. CASE i = n /\ j # n
      BY Zenon, <1>2, <1>4, <1>5, <3>2, <3>4
    <3>5. CASE i # n /\ j = n
      BY Zenon, <1>2, <1>4, <1>5, <3>2, <3>5
    <3>6. QED BY <1>4, <3>3, <3>4, <3>5
  <2>3. \A i \in Intents' :
          Act(ActionOf(intents'[i].kind), intents'[i].reservation)
            \in log[intents'[i].command].actions
    <3>1. \A i \in Intents :
            Act(ActionOf(intents[i].kind), intents[i].reservation)
              \in log[intents[i].command].actions
      BY <1>1 DEF TableOK
    <3>2. Act(ActionOf(new.kind), new.reservation) \in log[new.command].actions
      BY <1>2
    <3>3. QED BY Zenon, <1>4, <3>1, <3>2
  <2>4. QED BY Zenon, <2>1, <2>2, <2>3 DEF TableOK
<1>7. Progress
  <2>1. \A i \in Intents : MovesOn(intents[i], intents[i])
    BY <1>1, RowType DEF MovesOn, RowsTyped
  <2>2. \A t \in Signals :
          /\ GoesOn(orders["entry"][t], orders["entry"][t])
          /\ GoesOn(orders["close"][t], orders["close"][t])
          /\ exited[t] <= exited[t]
    BY <1>1, OrderType DEF GoesOn, OrdersTyped
  <2>3. \A t \in Signals : Placed("entry", t)' => Placed("entry", t)
    BY DEF Placed
  <2>4. QED BY Zenon, <1>4, <2>1, <2>2, <2>3 DEF Progress
<1>8. EvidenceOK'
  <2>1. \A i \in Intents : RowOK(i)'
    BY Zenon, <1>1, <1>4, <1>7, RowStays DEF EvidenceOK
  <2>2. RowOK(n)'
    <3>1. Claim(n, "planned")'
      BY <1>2, <1>4 DEF Claim, EntryClaim, CancelClaim, CloseClaim
    <3>2. 0 <= orders'["entry"][s].filled
      BY <1>1, OrderType DEF OrdersTyped
    <3>3. kind = "entry" => ~Placed("entry", s)
      <4>1. SUFFICES ASSUME kind = "entry", Placed("entry", s) PROVE FALSE
        OBVIOUS
      <4>2. PICK j \in Of("entry", s) : TRUE
        BY <1>1, <4>1 DEF EvidenceOK
      <4>3. /\ j \in Intents /\ intents[j].kind = "entry" /\ intents[j].reservation = s
            /\ intents[j].command \in DOMAIN log
        BY <1>1, <4>2, RowType DEF Of, RowsTyped
      <4>4. Act("create", s) \in log[intents[j].command].actions
        BY <1>1, <4>3 DEF TableOK, ActionOf
      <4>5. intents[j].command = c
        BY <1>1, <1>2, <4>1, <4>3, <4>4 DEF LogOK, ActionOf
      <4>6. QED BY <1>5, <4>1, <4>3, <4>5
    <3>4. ~Placed("entry", s) => ~Placed("entry", s)'
      BY DEF Placed
    <3>5. QED BY Zenon, <1>2, <1>4, <3>1, <3>2, <3>3, <3>4 DEF RowOK
  <2>3. \A t \in Signals : (Placed("entry", t) => Of("entry", t) # {})'
    <3>1. SUFFICES ASSUME NEW t \in Signals, Placed("entry", t)' PROVE (Of("entry", t) # {})'
      OBVIOUS
    <3>2. Of("entry", t) # {}
      BY <1>1, <3>1 DEF EvidenceOK, Placed
    <3>3. QED BY <1>1, <1>7, <3>2, FactsStay
  <2>4. \A i \in Intents' : RowOK(i)'
    BY <1>4, <2>1, <2>2
  <2>5. QED BY <2>3, <2>4 DEF EvidenceOK
<1>9. RestOK' /\ LogOK' /\ PendingStays
  <2>1. /\ now' \in Times /\ funds' \in Equities /\ attributed' \subseteq Signals
        /\ runs' \subseteq Signals /\ cursor' \in 0..Len(Arrivals)
    BY <1>1 DEF RestOK
  <2>2. QED BY <2>1, RestStays
<1>10. NothingSent
  BY Zenon, <1>2, <1>4 DEF NothingSent
<1>11. JobsOK'
  BY <1>1, <1>6, <1>7, <1>9, <1>10, AllStay
<1>12. BookOK' /\ Promised
  BY <1>1, BookStays, PromisedAtRest
<1>13. QED BY <1>1, <1>6, <1>7, <1>8, <1>9, <1>11, <1>12 DEF ExposureInv, Advances

-------------------------------------------------------------------------------
(* Processes that go on. *)

\* What Continue makes of a process.
NextJob(todo) == IF todo = <<>> THEN Idle ELSE [Idle EXCEPT !.pc = "next", !.todo = todo]

\* A process that goes on with a list of tasks in order is in order.
LEMMA NextJobOK ==
  ASSUME NEW p \in Processes, NEW todo, job'[p] = NextJob(todo), TodoOK(p, todo)',
         p = "worker" => Counted(todo)', p = "operator" => InTurn(todo)',
         todo # <<>> /\ Head(todo).name = "finish" =>
           Gone(intents[Head(todo).intent].reservation)',
         todo # <<>> /\ Head(todo).name = "order" =>
           OperatorCloseOf(Head(todo).intent) \in DOMAIN log'
  PROVE  job'[p] \in Job' /\ JobOK(p)'
<1>1. CASE todo = <<>>
  BY <1>1, IdleOK DEF NextJob
<1>2. CASE todo # <<>>
  <2>1. todo \in Seq(TaskType)
    BY DEF TodoOK
  <2>2. NoOrder \in OrderState /\ 0 \in Quantities
    BY DEF NoOrder, OrderState, Quantities
  <2>3. job'[p] = [Idle EXCEPT !.pc = "next", !.todo = todo]
    BY <1>2 DEF NextJob
  <2>4. job'[p] \in Job'
    <3>1. Idle \in Job'
      BY <2>2 DEF Idle, Job, NoIntent, NoCommand
    <3>2. \A j \in Job' : [j EXCEPT !.pc = "next", !.todo = todo] \in Job'
      BY Zenon, <2>1 DEF Job, TaskType
    <3>3. QED BY Zenon, <2>3, <3>1, <3>2
  <2>5. job'[p].todo = todo /\ job'[p].pc = "next"
    BY <2>3 DEF Idle
  <2>6. Item(p)' = Head(todo).intent
    BY <2>5 DEF Item
  <2>7. PlaceOK(p)'
    BY <1>2, <2>3, <2>5, <2>6 DEF PlaceOK
  <2>8. QED BY <2>4, <2>5, <2>7 DEF JobOK
<1>3. QED BY <1>1, <1>2

\* A list of tasks without its first one.
LEMMA TailOK ==
  ASSUME NEW p, NEW todo, TodoOK(p, todo)', todo # <<>>,
         Head(todo).name = "submit" =>
           Sent(Head(todo))' \/ intents'[Head(todo).intent].kind = "entry"
  PROVE  TodoOK(p, Tail(todo))'
<1>1. /\ todo \in Seq(TaskType) /\ \A t \in Range(todo) : TaskOK(p, t)'
  BY DEF TodoOK
<1>2. /\ Head(todo) \in Range(todo) /\ Tail(todo) \in Seq(TaskType)
      /\ Range(Tail(todo)) \subseteq Range(todo)
  BY <1>1, HeadTail
<1>3. ASSUME NEW t \in Range(Tail(todo)), t.name \in {"depend", "confirm"}
      PROVE  Sent(t)'
  <2>1. Sent(t)' \/ Head(todo) = Task("submit", t.intent)
    BY <1>2, <1>3 DEF TodoOK
  <2>2. TaskOK(p, t)'
    BY <1>1, <1>2, <1>3
  <2>3. intents'[t.intent].kind # "entry"
    BY <1>3, <2>2 DEF TaskOK, Tokens
  <2>4. Head(todo) = Task("submit", t.intent) => Sent(t)'
    BY <2>3 DEF Task, Sent
  <2>5. QED BY <2>1, <2>4
<1>4. QED BY <1>1, <1>2, <1>3 DEF TodoOK

\* A list of tasks stays in order in a step of its process.
LEMMA TodoGoesOn ==
  ASSUME ExchangeOK, ExchangeOK', TableOK, Progress, NEW p \in Processes, NEW todo,
         TodoOK(p, todo), todo # <<>>, NothingSent \/ Head(todo).name = "submit"
  PROVE  TodoOK(p, todo)'
<1>1. \A t \in Range(todo) : t.name \in {"drop", "inspect"} => NothingSent
  <2>1. SUFFICES ASSUME NEW t \in Range(todo), t.name \in {"drop", "inspect"}
                 PROVE  NothingSent
    OBVIOUS
  <2>2. TaskOK(p, t) /\ Head(todo) \in Range(todo)
    BY Zenon, <2>1, TodoHead DEF TodoOK
  <2>3. p = "operator"
    BY <2>1, <2>2 DEF TaskOK, Names, Processes
  <2>4. Head(todo).name # "submit"
    BY <2>1, <2>2, <2>3 DEF TodoOK
  <2>5. QED BY <2>4
<1>2. QED BY <1>1, TodoStays

\* The order of the tasks without the first one.
LEMMA TailInOrder ==
  ASSUME NEW todo, todo \in Seq(TaskType), todo # <<>>
  PROVE  /\ Counted(todo) /\ cursor' = cursor /\ course' = course => Counted(Tail(todo))'
         /\ InTurn(todo) => InTurn(Tail(todo))'
         /\ InTurn(todo) /\ Tail(todo) # <<>> =>
              /\ Head(Tail(todo)).name = "order" =>
                   Head(todo) = Task("request", Head(Tail(todo)).intent)
              /\ Head(Tail(todo)).name = "finish" => Head(todo).name = "confirm"
<1>1. PICK tail : tail = Tail(todo)
  BY Zenon
<1>2. /\ tail \in Seq(TaskType) /\ Len(tail) = Len(todo) - 1 /\ Head(todo) = todo[1]
      /\ \A k \in DOMAIN tail : k + 1 \in DOMAIN todo /\ tail[k] = todo[k + 1]
  BY <1>1, HeadTail
<1>3. /\ DOMAIN tail = 1..Len(tail) /\ Len(tail) \in Nat
      /\ DOMAIN todo = 1..Len(todo) /\ Len(todo) \in Nat
  BY <1>2, LenProperties
<1>4. Counted(todo) /\ cursor' = cursor /\ course' = course => Counted(tail)'
  <2>1. SUFFICES ASSUME Counted(todo), cursor' = cursor, course' = course,
                        NEW k \in DOMAIN tail
                 PROVE  /\ tail[k].name \in {"place", "advance"} =>
                             k = Len(tail) - 1 /\ cursor' < Len(Arrivals')
                        /\ tail[k].name = "signals" <=> k = Len(tail)
    BY DEF Counted
  <2>2. Arrivals' = Arrivals
    BY <2>1 DEF Arrivals
  <2>3. k \in Nat /\ k + 1 \in DOMAIN todo /\ tail[k] = todo[k + 1]
    BY <1>2, <1>3
  <2>4. /\ todo[k + 1].name \in {"place", "advance"} =>
             k + 1 = Len(todo) - 1 /\ cursor < Len(Arrivals)
        /\ todo[k + 1].name = "signals" <=> k + 1 = Len(todo)
    BY <2>1, <2>3 DEF Counted
  <2>5. QED BY <1>2, <1>3, <2>1, <2>2, <2>3, <2>4
<1>5. InTurn(todo) => InTurn(tail)'
  <2>1. SUFFICES ASSUME InTurn(todo), NEW k \in DOMAIN tail, k > 1
                 PROVE  /\ tail[k].name = "order" => tail[k - 1] = Task("request", tail[k].intent)
                        /\ tail[k].name = "finish" => tail[k - 1].name = "confirm"
    BY DEF InTurn
  <2>2. /\ k \in Nat /\ k + 1 \in DOMAIN todo /\ tail[k] = todo[k + 1]
        /\ k - 1 \in DOMAIN tail /\ tail[k - 1] = todo[k]
    BY <1>2, <1>3, <2>1
  <2>3. QED BY <2>1, <2>2 DEF InTurn
<1>6. InTurn(todo) /\ tail # <<>> =>
        /\ Head(tail).name = "order" => Head(todo) = Task("request", Head(tail).intent)
        /\ Head(tail).name = "finish" => Head(todo).name = "confirm"
  <2>1. SUFFICES ASSUME InTurn(todo), tail # <<>>
                 PROVE  /\ Head(tail).name = "order" =>
                             Head(todo) = Task("request", Head(tail).intent)
                        /\ Head(tail).name = "finish" => Head(todo).name = "confirm"
    OBVIOUS
  <2>2. 1 \in DOMAIN tail /\ Head(tail) = tail[1]
    BY <1>2, <1>3, <2>1, HeadTail, EmptySeq
  <2>3. 2 \in DOMAIN todo /\ tail[1] = todo[2]
    BY <1>2, <2>2
  <2>4. /\ todo[2].name = "order" => todo[2 - 1] = Task("request", todo[2].intent)
        /\ todo[2].name = "finish" => todo[2 - 1].name = "confirm"
    BY <2>1, <2>3 DEF InTurn
  <2>5. QED BY <1>2, <2>2, <2>3, <2>4
<1>7. QED BY <1>1, <1>4, <1>5, <1>6

\* A process goes on with its next task.
LEMMA NextTaskOK ==
  ASSUME ExposureInv, ExchangeOK', Progress, NEW p \in Processes, job[p].pc # "idle",
         job'[p] = NextJob(Tail(job[p].todo)),
         p = "worker" => cursor' = cursor /\ course' = course,
         NothingSent \/ Head(job[p].todo).name = "submit",
         Head(job[p].todo).name = "submit" =>
           intents'[Item(p)].attempted \/ intents'[Item(p)].state # "planned",
         Head(job[p].todo).name = "request" => OperatorCloseOf(Item(p)) \in DOMAIN log',
         Head(job[p].todo).name = "confirm" => Gone(Owned(p))
  PROVE  job'[p] \in Job' /\ JobOK(p)'
<1>1. PICK todo : todo = job[p].todo
  OBVIOUS
<1>2. /\ ExchangeOK /\ TableOK /\ JobOK(p) /\ TodoOK(p, todo) /\ todo # <<>>
      /\ todo \in Seq(TaskType)
      /\ p = "worker" => Counted(todo)
      /\ p = "operator" => InTurn(todo)
  BY Zenon, <1>1 DEF ExposureInv, JobsOK, JobOK, PlaceOK, TodoOK
<1>3. TodoOK(p, todo)'
  BY <1>1, <1>2, TodoGoesOn
<1>4. PICK tail : tail = Tail(todo)
  BY Zenon
<1>5. PICK head : head = Head(todo)
  OBVIOUS
<1>6. TodoOK(p, tail)'
  <2>1. head.name = "submit" => Sent(head)'
    BY <1>1, <1>5 DEF Sent, Item
  <2>2. QED BY <1>2, <1>3, <1>4, <1>5, <2>1, TailOK
<1>7. /\ p = "worker" => Counted(tail)'
      /\ p = "operator" => InTurn(tail)'
      /\ p = "operator" /\ tail # <<>> =>
           /\ Head(tail).name = "order" => head = Task("request", Head(tail).intent)
           /\ Head(tail).name = "finish" => head.name = "confirm"
  BY <1>2, <1>4, <1>5, TailInOrder
<1>8. /\ head \in Range(todo)
      /\ tail # <<>> => Head(tail) \in Range(todo) /\ TaskOK(p, Head(tail))
  <2>1. head \in Range(todo) /\ tail \in Seq(TaskType) /\ Range(tail) \subseteq Range(todo)
    BY <1>2, <1>4, <1>5, TodoHead
  <2>2. tail # <<>> => Head(tail) \in Range(tail)
    BY <2>1, HeadTail
  <2>3. QED BY <1>2, <2>1, <2>2 DEF TodoOK
<1>9. tail # <<>> /\ Head(tail).name \in {"order", "finish"} => p = "operator"
  BY <1>8 DEF TaskOK, Names, Processes
<1>10. tail # <<>> /\ Head(tail).name = "order" => OperatorCloseOf(Head(tail).intent) \in DOMAIN log'
  BY <1>1, <1>5, <1>7, <1>9 DEF Task, Item
<1>11. tail # <<>> /\ Head(tail).name = "finish" => Gone(intents[Head(tail).intent].reservation)'
  <2>1. SUFFICES ASSUME tail # <<>>, Head(tail).name = "finish"
                 PROVE  Gone(intents[Head(tail).intent].reservation)'
    OBVIOUS
  <2>2. PICK i \in Intents : i = Head(tail).intent
    BY <1>8, <2>1 DEF TaskOK, Tokens
  <2>3. PICK s \in Signals : s = intents[i].reservation
    BY <1>2, RowType DEF RowsTyped
  <2>4. Gone(s)
    BY <1>1, <1>2, <1>5, <1>7, <1>8, <1>9, <2>1, <2>2, <2>3 DEF TodoOK, Owned, Item
  <2>5. Gone(s)' /\ intents'[i].reservation = s
    BY <1>2, <2>3, <2>4, FactsStay DEF Progress, MovesOn
  <2>6. QED BY <2>2, <2>5
<1>12. job'[p] = NextJob(tail)
  BY <1>1, <1>4
<1>13. QED BY <1>6, <1>7, <1>10, <1>11, <1>12, NextJobOK

\* A process that stays at its task.
LEMMA SameTaskOK ==
  ASSUME ExposureInv, ExchangeOK', Progress, NEW p \in Processes, job[p].pc # "idle",
         job'[p].todo = job[p].todo,
         p = "worker" => cursor' = cursor /\ course' = course,
         NothingSent \/ Head(job[p].todo).name = "submit",
         PlaceOK(p)'
  PROVE  JobOK(p)'
<1>1. PICK todo : todo = job[p].todo
  OBVIOUS
<1>2. /\ ExchangeOK /\ TableOK /\ TodoOK(p, todo) /\ todo # <<>>
      /\ p = "worker" => Counted(todo)
      /\ p = "operator" => InTurn(todo)
  BY Zenon, <1>1 DEF ExposureInv, JobsOK, JobOK, PlaceOK
<1>3. TodoOK(p, todo)'
  BY <1>1, <1>2, TodoGoesOn
<1>4. p = "worker" => Counted(todo)'
  BY <1>2 DEF Counted, Arrivals
<1>5. p = "operator" => InTurn(todo)'
  BY <1>2 DEF InTurn
<1>6. QED BY <1>1, <1>3, <1>4, <1>5 DEF JobOK

\* A process hands the state of its row to the ledger, with the evidence for it.
LEMMA HandOver ==
  ASSUME NEW p, NEW i, i = Item(p), job'[p].todo = job[p].todo,
         NEW view \in States, job'[p].view = view, Claim(i, view)',
         intents'[i].state # "planned",
         NEW name, name = Head(job[p].todo).name,
         name \in {"reconcile", "settle", "inspect", "flat", "confirm"},
         name = "confirm" => view = "close_confirmed",
         name = "flat" => view = "position_closed_pending",
         name = "inspect" => view \in {"filled", "position_closed_pending"},
         job'[p].pc = "attribute" => /\ name \in {"reconcile", "confirm"}
                                     /\ view \in {"position_closed_pending", "close_confirmed"}
  PROVE  HandOK(p)'
<1>1. Item(p)' = i
  BY DEF Item
<1>2. QED BY <1>1 DEF HandOK

\* The local variables of a process that starts anew.
LEMMA IdleType ==
  /\ Idle \in Job /\ Idle \in Job' /\ Idle.pc = "idle" /\ Idle.todo = <<>> /\ Idle.command = NoCommand
  /\ Idle.view = "none"
<1>1. NoOrder \in OrderState /\ 0 \in Quantities
  BY DEF NoOrder, OrderState, Quantities
<1>2. <<>> \in Seq(TaskType)
  OBVIOUS
<1>3. QED BY <1>1, <1>2 DEF Idle, Job, NoIntent, TaskType

\* A process is a job, and its tasks are tasks.
LEMMA JobType ==
  ASSUME JobsOK, NEW p \in Processes
  PROVE  job[p] \in Job /\ job[p].todo \in Seq(TaskType) /\ JobOK(p)
BY DEF JobsOK, JobOK, TodoOK

\* Some tasks of a list in order, none of which waits for a first one.
LEMMA SomeTodoOK ==
  ASSUME NEW p, NEW todo, TodoOK(p, todo)', todo # <<>>, Head(todo).name # "submit",
         NEW sub \in Seq(TaskType), Range(sub) \subseteq Range(todo)
  PROVE  TodoOK(p, sub)'
<1>1. ASSUME NEW t \in Range(sub), t.name \in {"depend", "confirm"} PROVE Sent(t)'
  <2>1. Sent(t)' \/ Head(todo) = Task("submit", t.intent)
    BY <1>1 DEF TodoOK
  <2>2. QED BY <2>1 DEF Task
<1>2. QED BY <1>1 DEF TodoOK

\* An error of the walk: the monitor may hand over what its row says.
LEMMA FailOK ==
  ASSUME ExposureInv, ExchangeOK', TableOK', Progress, EvidenceOK', UNCHANGED <<cursor, course>>,
         NothingSent, NEW p \in Processes, job[p].pc # "idle",
         NEW table, Fail(p, table)
  PROVE  job'[p] \in Job' /\ JobOK(p)'
<1>1. JobsOK /\ job \in [Processes -> Job] /\ intents' = table
  BY DEF ExposureInv, JobsOK, Fail
<1>2. CASE Raise(p)
  BY <1>1, <1>2, IdleOK DEF Raise, Become
<1>3. CASE /\ Head(job[p].todo).name = "reconcile"
           /\ Become(p, [Idle EXCEPT !.pc = "sync", !.todo = job[p].todo,
                                     !.view = table[Item(p)].state, !.failed = TRUE])
  <2>1. PICK name : name = Head(job[p].todo).name
    OBVIOUS
  <2>2. /\ JobOK(p) /\ TaskOK(p, Head(job[p].todo)) /\ Item(p) \in Intents
        /\ Head(job[p].todo).intent = Item(p)
    BY <1>1, <1>3, AtWork DEF JobsOK, Tokens, Item
  <2>3. PICK i \in Intents : i = Item(p)
    BY <2>2
  <2>4. PICK view : view = intents'[i].state
    OBVIOUS
  <2>5. job'[p] = [Idle EXCEPT !.pc = "sync", !.todo = job[p].todo, !.view = view, !.failed = TRUE]
    BY <1>1, <1>3, <2>3, <2>4 DEF Become
  <2>6. i \in Intents' /\ intents[i].state # "planned"
    BY <1>3, <2>2, <2>3 DEF Progress, TaskOK, Tokens
  <2>7. view \in States /\ view # "planned" /\ Claim(i, view)'
    <3>1. RowsTyped'
      BY RowType, PTL
    <3>2. RowOK(i)'
      BY <2>6 DEF EvidenceOK
    <3>3. QED BY <2>4, <2>6, <3>1, <3>2 DEF RowsTyped, RowOK, Progress, MovesOn
  <2>8. /\ job'[p].pc = "sync" /\ job'[p].todo = job[p].todo /\ job'[p].view = view
    BY <2>5 DEF Idle
  <2>9. HandOK(p)'
    BY <1>3, <2>1, <2>3, <2>4, <2>7, <2>8, HandOver
  <2>10. job'[p] \in Job'
    <3>1. job[p].todo \in Seq(TaskType)
      BY <1>1, JobType
    <3>2. Idle \in Job'
      BY IdleType
    <3>3. \A j \in Job', todo \in Seq(TaskType) :
            [j EXCEPT !.pc = "sync", !.todo = todo, !.view = view, !.failed = TRUE] \in Job'
      BY Zenon, <2>7 DEF Job, TaskType
    <3>4. QED BY Zenon, <2>5, <3>1, <3>2, <3>3
  <2>11. PlaceOK(p)'
    <3>1. job[p].todo # <<>>
      BY <1>1, <2>2, AtWork
    <3>2. QED BY <2>8, <2>9, <3>1 DEF PlaceOK
  <2>12. QED BY <2>8, <2>10, <2>11, SameTaskOK
<1>4. QED BY <1>2, <1>3 DEF Fail

\* Every pair of tasks of the worker that waits for a cancellation has a next task.
LEMMA SkipOK ==
  ASSUME ExposureInv, ExchangeOK', Progress, UNCHANGED <<cursor, course>>, NothingSent,
         NEW p \in Processes, job[p].pc # "idle", Head(job[p].todo).name = "depend",
         job'[p] = NextJob(Tail(Tail(job[p].todo)))
  PROVE  job'[p] \in Job' /\ JobOK(p)'
<1>1. PICK todo : todo = job[p].todo
  OBVIOUS
<1>2. /\ ExchangeOK /\ TableOK /\ JobOK(p) /\ TodoOK(p, todo) /\ todo # <<>>
      /\ todo \in Seq(TaskType) /\ Head(todo).name = "depend"
  BY Zenon, <1>1 DEF ExposureInv, JobsOK, JobOK, PlaceOK, TodoOK
<1>3. p = "worker" /\ Counted(todo)
  <2>1. TaskOK(p, Head(todo))
    BY <1>2, TodoHead
  <2>2. p = "worker"
    BY <1>2, <2>1 DEF TaskOK, Names, Processes
  <2>3. QED BY <1>1, <1>2, <2>2 DEF JobOK
<1>4. PICK tail : tail = Tail(todo)
  BY Zenon
<1>5. /\ tail \in Seq(TaskType) /\ Range(tail) \subseteq Range(todo) /\ Len(tail) = Len(todo) - 1
      /\ Head(todo) = todo[1]
  BY <1>2, <1>4, HeadTail
<1>6. tail # <<>>
  <2>1. Len(todo) \in Nat /\ DOMAIN todo = 1..Len(todo) /\ Len(todo) # 0
    BY <1>2, LenProperties, EmptySeq
  <2>2. 1 # Len(todo)
    BY <1>2, <1>3, <1>5, <2>1 DEF Counted
  <2>3. Len(tail) # 0
    BY <1>5, <2>1, <2>2
  <2>4. QED BY <2>3
<1>7. PICK rest : rest = Tail(tail)
  BY Zenon
<1>8. rest \in Seq(TaskType) /\ Range(rest) \subseteq Range(todo)
  <2>1. rest \in Seq(TaskType) /\ Range(rest) \subseteq Range(tail)
    BY <1>5, <1>6, <1>7, HeadTail
  <2>2. QED BY <1>5, <2>1
<1>9. TodoOK(p, rest)'
  <2>1. TodoOK(p, todo)'
    BY <1>2, TodoGoesOn
  <2>2. QED BY <1>2, <1>8, <2>1, SomeTodoOK
<1>10. Counted(rest)'
  <2>1. Counted(tail)'
    BY <1>2, <1>3, <1>4, TailInOrder
  <2>2. Counted(tail)
    BY <2>1 DEF Counted, Arrivals
  <2>3. QED BY <1>5, <1>6, <1>7, <2>2, TailInOrder
<1>11. rest # <<>> => Head(rest).name \notin {"finish", "order"}
  <2>1. rest # <<>> => Head(rest) \in Range(rest)
    BY <1>8, HeadTail
  <2>2. rest # <<>> => TaskOK(p, Head(rest))
    BY <1>2, <1>8, <2>1 DEF TodoOK
  <2>3. QED BY <1>3, <2>2 DEF TaskOK, Names
<1>12. job'[p] = NextJob(rest)
  BY <1>1, <1>4, <1>7
<1>13. QED BY <1>3, <1>9, <1>10, <1>11, <1>12, NextJobOK

\* A walk that came to a state: the caller goes on with it.
LEMMA SettleOK ==
  ASSUME ExposureInv, ExchangeOK', Progress, UNCHANGED <<cursor, course>>, NothingSent,
         NEW p \in Processes, job[p].pc # "idle",
         NEW table, NEW state \in States, Settle(p, table, state),
         NEW i \in Intents, i = Item(p), Claim(i, state)', intents'[i].state # "planned"
  PROVE  job'[p] \in Job' /\ JobOK(p)'
<1>1. /\ JobsOK /\ job \in [Processes -> Job] /\ job[p].todo \in Seq(TaskType)
      /\ JobOK(p) /\ TableOK /\ ExchangeOK
      /\ job[p].todo # <<>> /\ TaskOK(p, Head(job[p].todo)) /\ Head(job[p].todo).intent = i
  BY JobType, AtWork DEF ExposureInv, JobsOK, Item
<1>2. PICK name : name = Head(job[p].todo).name
  OBVIOUS
<1>3. NeedsAttribution(i, state) => state \in {"position_closed_pending", "close_confirmed"}
  BY DEF NeedsAttribution
<1>4. intents'[i].kind = intents[i].kind /\ intents'[i].reservation = intents[i].reservation
  BY DEF Progress, MovesOn
<1>5. name = "confirm" => state # "position_closed_pending" /\ intents[i].kind = "close_position"
  <2>1. name = "confirm" => intents[i].kind = "close_position"
    BY <1>1, <1>2 DEF TaskOK, Tokens
  <2>2. QED BY <1>4, <2>1 DEF Claim, CloseClaim
<1>6. ASSUME NEW pc \in {"attribute", "sync"}, name \in {"reconcile", "confirm"},
             job'[p] = [Idle EXCEPT !.pc = pc, !.todo = job[p].todo, !.view = state],
             name = "confirm" => state = "close_confirmed",
             pc = "attribute" => state \in {"position_closed_pending", "close_confirmed"}
      PROVE  job'[p] \in Job' /\ JobOK(p)'
  <2>1. job'[p].pc = pc /\ job'[p].todo = job[p].todo /\ job'[p].view = state
    BY <1>6 DEF Idle
  <2>2. HandOK(p)'
    <3>1. /\ name \in {"reconcile", "settle", "inspect", "flat", "confirm"}
          /\ name \notin {"flat", "inspect"}
          /\ name = "confirm" => state = "close_confirmed"
          /\ job'[p].pc = "attribute" =>
               /\ name \in {"reconcile", "confirm"}
               /\ state \in {"position_closed_pending", "close_confirmed"}
      BY <1>6, <2>1
    <3>2. QED BY <1>2, <2>1, <3>1, HandOver
  <2>3. job'[p] \in Job'
    <3>1. Idle \in Job'
      BY IdleType
    <3>2. \A j \in Job', todo \in Seq(TaskType) :
            [j EXCEPT !.pc = pc, !.todo = todo, !.view = state] \in Job'
      BY Zenon, <1>6 DEF Job, TaskType
    <3>3. QED BY Zenon, <1>1, <1>6, <3>1, <3>2
  <2>4. PlaceOK(p)'
    BY <1>1, <1>6, <2>1, <2>2 DEF PlaceOK
  <2>5. QED BY <2>1, <2>3, <2>4, SameTaskOK
<1>7. CASE /\ name = "reconcile"
           /\ Become(p, [Idle EXCEPT
                !.pc   = IF NeedsAttribution(Item(p), state) THEN "attribute" ELSE "sync",
                !.todo = job[p].todo, !.view = state])
  <2>1. PICK pc \in {"attribute", "sync"} :
          pc = IF NeedsAttribution(i, state) THEN "attribute" ELSE "sync"
    OBVIOUS
  <2>2. job'[p] = [Idle EXCEPT !.pc = pc, !.todo = job[p].todo, !.view = state]
    BY <1>1, <1>7, <2>1 DEF Become
  <2>3. QED BY Zenon, <1>3, <1>6, <1>7, <2>1, <2>2
<1>8. ASSUME NEW todo, Continue(p, todo) PROVE job'[p] = NextJob(todo)
  BY <1>1, <1>8 DEF Continue, Become, NextJob
<1>9. CASE name \in {"expired", "recover", "submit"} /\ NextTask(p)
  <2>1. job'[p] = NextJob(Tail(job[p].todo))
    BY <1>8, <1>9 DEF NextTask
  <2>2. QED BY <1>2, <1>9, <2>1, NextTaskOK
<1>10. CASE /\ name = "confirm"
            /\ Become(p, IF NeedsAttribution(Item(p), state)
                         THEN [Idle EXCEPT !.pc = "attribute", !.todo = job[p].todo,
                                           !.view = state]
                         ELSE Idle)
  <2>1. CASE NeedsAttribution(i, state)
    <3>1. job'[p] = [Idle EXCEPT !.pc = "attribute", !.todo = job[p].todo, !.view = state]
      BY <1>1, <1>10, <2>1 DEF Become
    <3>2. QED BY <1>3, <1>5, <1>6, <1>10, <2>1, <3>1
  <2>2. CASE ~NeedsAttribution(i, state)
    BY <1>1, <1>10, <2>2, IdleOK DEF Become
  <2>3. QED BY <2>1, <2>2
<1>11. CASE /\ name = "depend"
            /\ Continue(p, IF state = "cancelled" THEN Tail(job[p].todo)
                                                  ELSE Tail(Tail(job[p].todo)))
  <2>1. CASE state = "cancelled"
    <3>1. job'[p] = NextJob(Tail(job[p].todo))
      BY <1>8, <1>11, <2>1
    <3>2. QED BY <1>2, <1>11, <3>1, NextTaskOK
  <2>2. CASE state # "cancelled"
    <3>1. job'[p] = NextJob(Tail(Tail(job[p].todo)))
      BY <1>8, <1>11, <2>2
    <3>2. QED BY <1>2, <1>11, <3>1, SkipOK
  <2>3. QED BY <2>1, <2>2
<1>12. QED BY <1>2, <1>7, <1>9, <1>10, <1>11 DEF Settle

-------------------------------------------------------------------------------
(* Rows that are written. *)

\* A row keeps what it is about and that it was sent; its new state is proved.
LEMMA RowWritten ==
  ASSUME TableOK, EvidenceOK, NEW i \in Intents, NEW state \in States, NEW row \in Intent,
         intents'[i] = row,
         row.kind = intents[i].kind, row.reservation = intents[i].reservation,
         row.command = intents[i].command, row.attempted = intents[i].attempted,
         row.state = state, Claim(i, state) \/ Claim(i, state)',
         state # "planned" \/ intents[i].state = "planned",
         \/ row.filled = intents[i].filled
         \/ /\ intents[i].kind = "entry" /\ intents[i].filled <= row.filled
            /\ row.filled <= orders["entry"][intents[i].reservation].filled
  PROVE  Written(i)
<1>1. RowOK(i) /\ intents[i].filled \in Nat
  BY RowType DEF EvidenceOK, RowsTyped
<1>2. MovesOn(intents[i], intents'[i])
  BY <1>1 DEF MovesOn
<1>3. row.filled <= orders["entry"][intents[i].reservation].filled
  BY <1>1 DEF RowOK
<1>4. QED BY <1>2, <1>3 DEF Written

\* A row gets a state that is proved.
LEMMA StateWritten ==
  ASSUME TableOK, EvidenceOK, NEW i \in Intents, NEW state \in States,
         intents'[i] = [intents[i] EXCEPT !.state = state],
         Claim(i, state) \/ Claim(i, state)',
         state # "planned" \/ intents[i].state = "planned"
  PROVE  Written(i)
<1>1. PICK old \in Intent : old = intents[i]
  BY RowType DEF RowsTyped
<1>2. PICK row : row = [old EXCEPT !.state = state]
  BY Zenon
<1>3. /\ row \in Intent /\ row.kind = old.kind /\ row.reservation = old.reservation
      /\ row.command = old.command /\ row.attempted = old.attempted
      /\ row.state = state /\ row.filled = old.filled
  BY <1>2 DEF Intent
<1>4. QED BY Zenon, <1>1, <1>2, <1>3, RowWritten

\* A row is marked as handed over, with a state that is proved.
LEMMA SyncWritten ==
  ASSUME TableOK, EvidenceOK, NEW i \in Intents, NEW state \in States, NEW synced \in BOOLEAN,
         intents'[i] = [intents[i] EXCEPT !.state = state, !.synced = synced],
         Claim(i, state) \/ Claim(i, state)',
         state # "planned" \/ intents[i].state = "planned"
  PROVE  Written(i)
<1>1. PICK old \in Intent : old = intents[i]
  BY RowType DEF RowsTyped
<1>2. PICK row : row = [old EXCEPT !.state = state, !.synced = synced]
  OBVIOUS
<1>3. /\ row \in Intent /\ row.kind = old.kind /\ row.reservation = old.reservation
      /\ row.command = old.command /\ row.attempted = old.attempted
      /\ row.state = state /\ row.filled = old.filled
  BY Zenon, <1>2 DEF Intent
<1>4. QED BY Zenon, <1>1, <1>2, <1>3, RowWritten

\* A row is marked as handed over.
LEMMA OnlySyncWritten ==
  ASSUME TableOK, EvidenceOK, NEW i \in Intents, NEW synced \in BOOLEAN,
         intents'[i] = [intents[i] EXCEPT !.synced = synced]
  PROVE  Written(i)
<1>1. PICK old \in Intent : old = intents[i]
  BY RowType DEF RowsTyped
<1>2. PICK row : row = [old EXCEPT !.synced = synced]
  BY Zenon
<1>3. PICK state \in States : state = old.state
  BY <1>1 DEF Intent
<1>4. /\ row \in Intent /\ row.kind = old.kind /\ row.reservation = old.reservation
      /\ row.command = old.command /\ row.attempted = old.attempted
      /\ row.state = state /\ row.filled = old.filled
  BY <1>2, <1>3 DEF Intent
<1>5. Claim(i, state)
  BY <1>1, <1>3 DEF EvidenceOK, RowOK
<1>6. QED BY Zenon, <1>1, <1>2, <1>3, <1>4, <1>5, RowWritten

\* A proven fill is recorded.
LEMMA FillWritten ==
  ASSUME TableOK, EvidenceOK, NEW i \in Intents, NEW q \in Quantities,
         intents'[i] = [intents[i] EXCEPT !.state = "filled", !.filled = q],
         intents[i].kind = "entry", intents[i].filled <= q,
         q <= orders["entry"][intents[i].reservation].filled,
         Executed(intents[i].reservation)
  PROVE  Written(i)
<1>1. PICK old \in Intent : old = intents[i]
  BY RowType DEF RowsTyped
<1>2. PICK row : row = [old EXCEPT !.state = "filled", !.filled = q]
  OBVIOUS
<1>3. "filled" \in States
  BY DEF States
<1>4. /\ row \in Intent /\ row.kind = old.kind /\ row.reservation = old.reservation
      /\ row.command = old.command /\ row.attempted = old.attempted
      /\ row.state = "filled" /\ row.filled = q
  BY Zenon, <1>2, <1>3 DEF Intent
<1>5. Claim(i, "filled")
  BY DEF Claim, EntryClaim
<1>6. QED BY Zenon, <1>1, <1>2, <1>3, <1>4, <1>5, RowWritten

\* The rows are written as a table of the same rows.
LEMMA OneRow ==
  ASSUME TableOK, NEW i \in Intents, NEW state, NEW table, table = InState(intents, i, state)
  PROVE  /\ table = [k \in Intents |-> table[k]]
         /\ table[i] = [intents[i] EXCEPT !.state = state]
         /\ \A k \in Intents \ {i} : table[k] = intents[k]
         /\ table[i].state = state
         /\ \A k \in Intents : table[k].attempted = intents[k].attempted
<1>1. /\ intents = [k \in Intents |-> intents[k]]
      /\ \A k \in Intents : intents[k] \in Intent
  <2>1. Intents = 1..Len(intents) /\ Len(intents) \in Nat /\ \A k \in Intents : intents[k] \in Intent
    BY TableRows DEF TableOK
  <2>2. intents \in [Intents -> Intent]
    BY <2>1, LenProperties DEF TableOK, Intents
  <2>3. QED BY <2>1, <2>2
<1>2. /\ table = [k \in Intents |-> table[k]]
      /\ table[i] = [intents[i] EXCEPT !.state = state]
      /\ \A k \in Intents \ {i} : table[k] = intents[k]
  BY Zenon, <1>1 DEF InState, Intents
<1>3. QED BY <1>1, <1>2 DEF Intent

-------------------------------------------------------------------------------
(* Steps of the walk from exchange evidence to the state of a row. *)

\* A walk comes to a state that is proved.
LEMMA SettleStep ==
  ASSUME ExposureInv, NEW p \in Processes, job[p].pc # "idle",
         p # "operator" => job["operator"] = Idle,
         UNCHANGED <<Beyond, orders, exited>>, ExchangeOK',
         NEW table, NEW state \in States, Settle(p, table, state),
         table = [i \in Intents |-> table[i]],
         \A i \in Intents : table[i].attempted = intents[i].attempted,
         intents' = table => \A i \in Intents : table[i] = intents[i] \/ Written(i),
         NEW x \in Intents, x = Item(p), Claim(x, state), table[x].state # "planned"
  PROVE  Advances
<1>1. /\ intents' = table
      /\ UNCHANGED <<account, book, decision, requested, log, course, now, funds>>
      /\ UNCHANGED <<attributed, runs, cursor>>
  BY DEF Settle, Beyond, riskVars
<1>2. PICK new : Become(p, new)
  BY DEF Settle, NextTask, Continue
<1>3. ASSUME Progress, TableOK', EvidenceOK'
      PROVE  job'[p] \in Job' /\ JobOK(p)'
  <2>1. NothingSent
    BY <1>1 DEF NothingSent, Intents
  <2>2. Claim(x, state)'
    BY <1>1, <1>3, ClaimStays DEF ExposureInv
  <2>3. QED BY <1>1, <1>3, <2>1, <2>2, SettleOK
<1>4. QED BY <1>1, <1>2, <1>3, WriteStep

\* A walk ends in an error.
LEMMA FailStep ==
  ASSUME ExposureInv, NEW p \in Processes, job[p].pc # "idle",
         p # "operator" => job["operator"] = Idle,
         UNCHANGED <<Beyond, orders, exited>>, ExchangeOK',
         NEW table, Fail(p, table),
         table = [i \in Intents |-> table[i]],
         \A i \in Intents : table[i].attempted = intents[i].attempted,
         intents' = table => \A i \in Intents : table[i] = intents[i] \/ Written(i)
  PROVE  Advances
<1>1. /\ intents' = table
      /\ UNCHANGED <<account, book, decision, requested, log, course, now, funds>>
      /\ UNCHANGED <<attributed, runs, cursor>>
  BY DEF Fail, Beyond, riskVars
<1>2. PICK new : Become(p, new)
  BY DEF Fail, Raise
<1>3. ASSUME Progress, TableOK', EvidenceOK'
      PROVE  job'[p] \in Job' /\ JobOK(p)'
  <2>1. NothingSent
    BY <1>1 DEF NothingSent, Intents
  <2>2. QED BY <1>1, <1>3, <2>1, FailOK
<1>4. QED BY <1>1, <1>2, <1>3, WriteStep

-------------------------------------------------------------------------------
(* What the walk may conclude from the exchange. *)

\* The position on the symbol of an entry that holds something is its own.
LEMMA PositionOwned ==
  ASSUME ExposureInv, NEW s \in Signals, Exposure(s) > 0
  PROVE  /\ Exposure(s) \in Nat /\ Position(SymbolOf[s]) = Signed(s, Exposure(s))
         /\ \A t \in Signals \ {s} : SymbolOf[t] = SymbolOf[s] => Exposure(t) = 0
<1> DEFINE f == [t \in Signals |-> Signed(t, Exposure(t))]
           A == {t \in Signals : SymbolOf[t] = SymbolOf[s]}
<1>1. /\ ExchangeOK /\ BookOK /\ Sound(book) /\ OrdersTyped
  BY OrderType DEF ExposureInv, RestOK, Inv
<1>2. \A t \in Signals : Exposure(t) \in Nat
  BY <1>1 DEF ExchangeOK, OrdersTyped, Exposure
<1>3. IsFiniteSet(A) /\ s \in A
  BY ExecutionAssumption, FS_Subset
<1>4. \A t \in A \ {s} : Exposure(t) = 0
  <2>1. \A t, u \in Active(book) : SymbolOf[t] = SymbolOf[u] => t = u
    BY <1>1 DEF Sound, Exclusive
  <2>2. s \in Active(book) /\ \A t \in A : Exposure(t) > 0 => t \in Active(book)
    BY <1>1 DEF BookOK
  <2>3. QED BY <1>2, <2>1, <2>2
<1>5. \A t \in A \ {s} : f[t] = 0
  BY <1>4 DEF Signed
<1>6. f[s] = Signed(s, Exposure(s)) /\ f[s] \in Int
  BY <1>2 DEF Signed
<1>7. Position(SymbolOf[s]) = SumFunctionOnSet(f, A)
  BY DEF Position
<1>8. \A t \in Signals \ {s} : SymbolOf[t] = SymbolOf[s] => Exposure(t) = 0
  BY <1>4
<1> HIDE DEF f, A
<1>9. Position(SymbolOf[s]) = f[s]
  BY <1>3, <1>5, <1>6, <1>7, SumOfOne
<1>10. QED BY <1>2, <1>6, <1>8, <1>9

\* What an entry holds, read from the position on its symbol.
LEMMA PositionFacts ==
  ASSUME ExposureInv, NEW s \in Signals
  PROVE  /\ Exposure(s) \in Nat /\ Exposure(s) <= orders["entry"][s].filled
         /\ Exposure(s) > 0 => Held(s) = Exposure(s)
         /\ Held(s) = 0 => Exposure(s) = 0
         /\ Position(SymbolOf[s]) = 0 => Exposure(s) = 0
<1>1. /\ ExchangeOK /\ OrdersTyped
  BY OrderType DEF ExposureInv
<1>2. Exposure(s) \in Nat /\ Exposure(s) <= orders["entry"][s].filled
  BY <1>1 DEF ExchangeOK, OrdersTyped, Exposure
<1>3. ASSUME Exposure(s) > 0 PROVE Held(s) = Exposure(s) /\ Position(SymbolOf[s]) # 0
  <2>1. Position(SymbolOf[s]) = Signed(s, Exposure(s))
    BY <1>3, PositionOwned
  <2>2. Signed(s, Signed(s, Exposure(s))) = Exposure(s) /\ Signed(s, Exposure(s)) # 0
    BY <1>2, <1>3 DEF Signed
  <2>3. QED BY <2>1, <2>2 DEF Held
<1>4. Held(s) = 0 => Exposure(s) = 0
  BY <1>2, <1>3
<1>5. QED BY <1>2, <1>3, <1>4

\* An entry that executes no more, and of which nothing is held, is gone.
LEMMA FlatIsGone ==
  ASSUME ExposureInv, NEW s \in Signals, Spent(s), Exposure(s) = 0
  PROVE  Gone(s)
<1>1. OrdersTyped
  BY OrderType DEF ExposureInv
<1>2. QED BY <1>1 DEF OrdersTyped, Exposure, Gone

\* What the order and the position say of an entry.
LEMMA EntryVerdictClaim ==
  ASSUME ExposureInv, NEW s \in Signals, NEW known, NEW seen,
         SeenOK(orders["entry"][s], seen), SeenEntry(seen)
  PROVE  LET verdict == EntryVerdict(s, known, seen)
         IN  /\ verdict \in States \ {"planned"} /\ EntryClaim(s, verdict)
             /\ verdict = "filled" => seen.filled = orders["entry"][s].filled /\ Executed(s)
<1> DEFINE verdict == EntryVerdict(s, known, seen)
           order == orders["entry"][s]
<1>1. /\ OrdersTyped /\ order.filled \in Nat /\ order \in OrderState
  BY OrderType DEF ExposureInv, OrdersTyped
<1>2. /\ seen \in OrderState /\ seen.filled \in Nat /\ seen.filled <= order.filled
      /\ seen.status # "none" /\ order.status # "none"
      /\ seen.status \in Over => seen = order
  <2>1. \A q \in Quantities : q \in Nat
    BY ExecutionAssumption DEF Quantities
  <2>2. QED BY <2>1 DEF SeenOK, OrderState
<1>3. CASE seen.status = "new"
  <2>1. verdict = "working"
    <3>1. ~(seen.filled > 0) /\ seen.status \notin Over
      BY <1>3 DEF SeenEntry, Over
    <3>2. QED BY <1>3, <3>1 DEF EntryVerdict
  <2>2. QED BY <1>2, <2>1 DEF EntryClaim, States, Placed
<1>4. CASE seen.status # "new" /\ seen.filled = 0
  <2>1. seen.status \in {"cancelled", "rejected"}
    BY <1>2, <1>4 DEF SeenEntry, OrderState
  <2>2. verdict \in {seen.status, "reconciliation_required"}
    <3>1. seen.status \in Over
      BY <2>1 DEF Over
    <3>2. verdict = IF Held(s) = 0 /\ known = 0 THEN seen.status ELSE "reconciliation_required"
      BY <1>4, <3>1 DEF EntryVerdict
    <3>3. QED BY <3>2
  <2>3. Withdrawn(s, seen.status)
    BY <1>2, <1>4, <2>1 DEF Withdrawn, Over
  <2>4. QED BY <2>1, <2>2, <2>3 DEF EntryClaim, States
<1>5. CASE seen.status # "new" /\ seen.filled > 0
  <2>1. Executed(s)
    BY <1>1, <1>2, <1>5 DEF Executed
  <2>2. /\ verdict \in {"reconciliation_required", "position_closed_pending", "filled"}
        /\ verdict = "filled" => seen.filled = order.filled
        /\ verdict = "position_closed_pending" => Held(s) = 0 /\ seen.status \in Over
    <3>1. verdict = FilledVerdict(s, known, seen)
      BY <1>2, <1>5 DEF EntryVerdict
    <3>2. QED BY <3>1, <1>2, <1>5 DEF FilledVerdict
  <2>3. Held(s) = 0 /\ seen.status \in Over => Gone(s)
    <3>1. SUFFICES ASSUME Held(s) = 0, seen.status \in Over PROVE Gone(s)
      OBVIOUS
    <3>2. Spent(s)
      BY <1>2, <2>1, <3>1 DEF Spent
    <3>3. QED BY <3>1, <3>2, PositionFacts, FlatIsGone
  <2>4. QED BY <2>1, <2>2, <2>3 DEF EntryClaim, States
<1>6. QED BY <1>2, <1>3, <1>4, <1>5

\* What the order and the position say of a close.
LEMMA CloseVerdictClaim ==
  ASSUME ExposureInv, NEW s \in Signals, NEW seen, SeenOK(orders["close"][s], seen),
         seen.status \in {"new", "filled", "cancelled"}, Spent(s)
  PROVE  LET verdict == CloseVerdict(s, seen)
         IN  verdict \in States \ {"planned", "filled"} /\ CloseClaim(s, verdict, TRUE)
<1> DEFINE verdict == CloseVerdict(s, seen)
<1>1. orders["close"][s].status # "none" /\ (seen.status \in Over => seen = orders["close"][s])
  BY DEF SeenOK
<1>2. CASE seen.status = "new"
  <2>1. verdict = "working"
    BY <1>2 DEF CloseVerdict
  <2>2. QED BY <1>1, <2>1 DEF CloseClaim, States, Placed
<1>3. CASE seen.status = "cancelled"
  <2>1. verdict = "cancelled"
    BY <1>3 DEF CloseVerdict
  <2>2. QED BY <1>1, <1>3, <2>1 DEF CloseClaim, States, Over
<1>4. CASE seen.status = "filled"
  <2>1. /\ verdict \in {"close_confirmed", "reconciliation_required"}
        /\ verdict = "close_confirmed" => Position(SymbolOf[s]) = 0
    BY <1>4 DEF CloseVerdict
  <2>2. Position(SymbolOf[s]) = 0 => Gone(s)
    BY PositionFacts, FlatIsGone
  <2>3. QED BY <1>1, <1>4, <2>1, <2>2 DEF CloseClaim, States, Over
<1>5. QED BY Zenon, <1>2, <1>3, <1>4

\* What the position says of an entry that was protected.
LEMMA ProtectedVerdictClaim ==
  ASSUME ExposureInv, NEW i \in Intents, intents[i].state \in Protected,
         intents[i].kind = "entry"
  PROVE  ProtectedVerdict(i) \in States \ {"planned"} /\ Claim(i, ProtectedVerdict(i))
<1>1. PICK s \in Signals : s = intents[i].reservation
  BY RowType DEF ExposureInv, RowsTyped
<1>2. EntryClaim(s, intents[i].state)
  BY <1>1 DEF ExposureInv, EvidenceOK, RowOK, Claim
<1>3. Spent(s)
  BY <1>2 DEF EntryClaim, Gone, Protected
<1>4. /\ ProtectedVerdict(i) \in {"position_closed_pending", "protection_verified",
                                  "reconciliation_required"}
      /\ ProtectedVerdict(i) = "position_closed_pending" => Held(s) = 0
  BY <1>1 DEF ProtectedVerdict
<1>5. Held(s) = 0 => Gone(s)
  BY <1>3, PositionFacts, FlatIsGone
<1>6. EntryClaim(s, ProtectedVerdict(i))
  BY <1>3, <1>4, <1>5 DEF EntryClaim
<1>7. QED BY <1>1, <1>4, <1>6 DEF Claim, States

\* What the state of an entry says of its cancellation.
LEMMA CancelVerdictClaim ==
  ASSUME NEW s, NEW state, EntryClaim(s, state), Of("entry", s) # {}
  PROVE  /\ CancelVerdict(state) \in States \ {"planned"}
         /\ CancelClaim(s, CancelVerdict(state))
<1>1. CASE state \in {"filled", "protection_verified"}
  <2>1. CancelVerdict(state) = "filled" /\ Executed(s)
    BY <1>1 DEF CancelVerdict, EntryClaim, Spent
  <2>2. QED BY <2>1 DEF CancelClaim, States
<1>2. CASE state \in {"cancelled", "position_closed"}
  <2>1. CancelVerdict(state) = "cancelled" /\ (Never(s) \/ Gone(s))
    BY <1>2 DEF CancelVerdict, EntryClaim, Never
  <2>2. QED BY <2>1 DEF CancelClaim, States
<1>3. CASE state \notin {"filled", "protection_verified", "cancelled", "position_closed"}
  <2>1. CancelVerdict(state) = "reconciliation_required"
    BY <1>3 DEF CancelVerdict
  <2>2. QED BY <2>1 DEF CancelClaim, States
<1>4. QED BY <1>1, <1>2, <1>3

-------------------------------------------------------------------------------
(* The walk ends. *)

\* Two rows change their state.
LEMMA TwoRows ==
  ASSUME TableOK, NEW i \in Intents, NEW x \in Intents, i # x, NEW a, NEW b,
         NEW table, table = InState(InState(intents, i, a), x, b)
  PROVE  /\ table = [k \in Intents |-> table[k]]
         /\ table[i] = [intents[i] EXCEPT !.state = a]
         /\ table[x] = [intents[x] EXCEPT !.state = b]
         /\ \A k \in Intents \ {i, x} : table[k] = intents[k]
         /\ table[x].state = b
         /\ \A k \in Intents : table[k].attempted = intents[k].attempted
<1> DEFINE first == InState(intents, i, a)
<1>1. /\ first = [k \in Intents |-> first[k]] /\ DOMAIN first = Intents
      /\ first[i] = [intents[i] EXCEPT !.state = a]
      /\ \A k \in Intents \ {i} : first[k] = intents[k]
  BY Zenon, OneRow DEF InState, Intents
<1>2. /\ table = [k \in Intents |-> table[k]]
      /\ table[x] = [first[x] EXCEPT !.state = b]
      /\ \A k \in Intents \ {x} : table[k] = first[k]
  BY Zenon, <1>1 DEF InState
<1>3. /\ table[i] = [intents[i] EXCEPT !.state = a]
      /\ table[x] = [intents[x] EXCEPT !.state = b]
      /\ \A k \in Intents \ {i, x} : table[k] = intents[k]
  BY <1>1, <1>2
<1>4. \A k \in Intents : intents[k] \in Intent
  BY TableRows DEF TableOK
<1>5. table[x].state = b
  BY <1>3, <1>4 DEF Intent
<1>6. table[i].attempted = intents[i].attempted /\ table[x].attempted = intents[x].attempted
  BY <1>3, <1>4 DEF Intent
<1>7. \A k \in Intents : table[k].attempted = intents[k].attempted
  BY Zenon, <1>3, <1>6
<1>8. QED BY <1>2, <1>3, <1>5, <1>7

\* An order or a position has been reconciled to a state that there is evidence for.
LEMMA ConcludeStep ==
  ASSUME ExposureInv, NEW p \in Processes, job[p].pc # "idle",
         p # "operator" => job["operator"] = Idle,
         UNCHANGED <<Beyond, orders, exited>>, ExchangeOK',
         NEW i \in Intents, NEW state \in States \ {"planned"}, Claim(i, state),
         Conclude(p, InState(intents, i, state), i, state),
         NEW x \in Intents, x = Item(p),
         i # x => /\ intents[i].kind = "entry" /\ intents[x].kind = "cancel_entry"
                  /\ intents[x].reservation = intents[i].reservation
  PROVE  Advances
<1>1. TableOK /\ EvidenceOK
  BY DEF ExposureInv
<1>2. CASE i = x
  <2>1. PICK table : table = InState(intents, i, state)
    OBVIOUS
  <2>2. /\ table = [k \in Intents |-> table[k]]
        /\ table[i] = [intents[i] EXCEPT !.state = state]
        /\ \A k \in Intents \ {i} : table[k] = intents[k]
        /\ table[i].state = state
        /\ \A k \in Intents : table[k].attempted = intents[k].attempted
    BY <1>1, <2>1, OneRow
  <2>3. Settle(p, table, state)
    BY <1>2, <2>1 DEF Conclude
  <2>4. intents' = table => \A k \in Intents : table[k] = intents[k] \/ Written(k)
    <3>1. intents' = table => Written(i)
      BY <1>1, <2>2, StateWritten
    <3>2. QED BY <2>2, <3>1
  <2>5. QED BY <1>2, <2>2, <2>3, <2>4, SettleStep
<1>3. CASE i # x
  <2>1. PICK s : s = intents[i].reservation
    OBVIOUS
  <2>2. EntryClaim(s, state) /\ Of("entry", s) # {}
    BY <1>3, <2>1 DEF Claim, Of
  <2>3. PICK verdict \in States \ {"planned"} : verdict = CancelVerdict(state)
    BY <2>2, CancelVerdictClaim
  <2>4. Claim(x, verdict)
    <3>1. CancelClaim(s, verdict)
      BY <2>2, <2>3, CancelVerdictClaim
    <3>2. QED BY <1>3, <2>1, <3>1 DEF Claim
  <2>5. PICK table : table = InState(InState(intents, i, state), x, verdict)
    OBVIOUS
  <2>6. /\ table = [k \in Intents |-> table[k]]
        /\ table[i] = [intents[i] EXCEPT !.state = state]
        /\ table[x] = [intents[x] EXCEPT !.state = verdict]
        /\ \A k \in Intents \ {i, x} : table[k] = intents[k]
        /\ table[x].state = verdict
        /\ \A k \in Intents : table[k].attempted = intents[k].attempted
    BY <1>1, <1>3, <2>5, TwoRows
  <2>7. Settle(p, table, verdict)
    BY <1>3, <2>3, <2>5 DEF Conclude
  <2>8. intents' = table => \A k \in Intents : table[k] = intents[k] \/ Written(k)
    <3>1. intents' = table => Written(i)
      BY <1>1, <2>6, StateWritten
    <3>2. intents' = table => Written(x)
      BY <1>1, <2>4, <2>6, StateWritten
    <3>3. QED BY <2>6, <3>1, <3>2
  <2>9. QED BY <2>4, <2>6, <2>7, <2>8, SettleStep
<1>4. QED BY <1>2, <1>3

-------------------------------------------------------------------------------
(* The first reads of the walk. *)

\* The table is the function of its rows.
LEMMA SameTable == TableOK => intents = [k \in Intents |-> intents[k]]
<1>1. SUFFICES ASSUME TableOK PROVE intents = [k \in Intents |-> intents[k]]
  OBVIOUS
<1>2. Intents = 1..Len(intents) /\ Len(intents) \in Nat /\ \A k \in Intents : intents[k] \in Intent
  BY <1>1, TableRows DEF TableOK
<1>3. intents \in [Intents -> Intent]
  BY <1>1, <1>2, LenProperties DEF TableOK, Intents
<1>4. QED BY <1>2, <1>3

\* An entry that is known to the table has its row, with the evidence for its state.
LEMMA EntryRow ==
  ASSUME ExposureInv, NEW s \in Signals, EntryState(s) # "missing" \/ Of("entry", s) # {}
  PROVE  /\ Of("entry", s) # {} /\ EntryOf(s) \in Intents
         /\ intents[EntryOf(s)].kind = "entry" /\ intents[EntryOf(s)].reservation = s
         /\ EntryState(s) = intents[EntryOf(s)].state
         /\ EntryClaim(s, EntryState(s))
<1>1. TableOK /\ EvidenceOK
  BY DEF ExposureInv
<1>2. EntryOf(s) # NoIntent /\ EntryOf(s) \in Of("entry", s)
  BY <1>1, Owning DEF EntryState, TableOK
<1>3. QED BY <1>1, <1>2 DEF Of, EntryState, EvidenceOK, RowOK, Claim

\* The entry has come to its end by itself, and its cancellation with it.
LEMMA RetireStep ==
  ASSUME ExposureInv, NEW p \in Processes, job[p].pc # "idle",
         p # "operator" => job["operator"] = Idle,
         UNCHANGED <<Beyond, orders, exited>>, ExchangeOK', Retire(p),
         NEW x \in Intents, x = Item(p), intents[x].kind = "cancel_entry",
         EntryEnded(Owned(p))
  PROVE  Advances
<1>1. TableOK /\ EvidenceOK /\ RowsTyped
  BY RowType DEF ExposureInv
<1>2. PICK s \in Signals : s = intents[x].reservation /\ s = Owned(p)
  BY <1>1 DEF RowsTyped, Owned
<1>3. Of("entry", s) # {} /\ EntryClaim(s, EntryState(s))
  BY <1>2, EntryRow DEF EntryEnded
<1>4. Claim(x, "cancelled") /\ Claim(x, "reconciliation_required")
  BY <1>2, <1>3 DEF EntryEnded, EntryClaim, CancelClaim, Claim, Never
<1>5. CASE Redundant(s)
  <2>1. PICK gone : gone = (Status(book, s) \in Released)
    BY Zenon
  <2>2. PICK synced : synced = (intents[x].synced \/ gone)
    BY Zenon
  <2>3. PICK table : table = [intents EXCEPT ![x].state = "cancelled", ![x].synced = @ \/ gone]
    BY Zenon
  <2>4. /\ table = [k \in Intents |-> table[k]]
        /\ table[x] = [intents[x] EXCEPT !.state = "cancelled", !.synced = synced]
        /\ \A k \in Intents \ {x} : table[k] = intents[k]
    BY Zenon, <1>1, <2>2, <2>3, SameTable
  <2>5. /\ table[x].state = "cancelled" /\ table[x].attempted = intents[x].attempted
        /\ synced \in BOOLEAN
    <3>1. synced \in BOOLEAN
      BY <2>2, SMT
    <3>2. QED BY Zenon, <1>1, <2>4, <3>1 DEF RowsTyped, Intent
  <2>6. Settle(p, table, "cancelled")
    BY Zenon, <1>2, <1>5, <2>1, <2>3 DEF Retire
  <2>7. intents' = table => \A k \in Intents : table[k] = intents[k] \/ Written(k)
    <3>1. intents' = table => Written(x)
      BY Zenon, <1>1, <1>4, <2>4, <2>5, SyncWritten DEF States
    <3>2. QED BY <2>4, <3>1
  <2>8. \A k \in Intents : table[k].attempted = intents[k].attempted
    BY Zenon, <2>4, <2>5
  <2>9. QED BY Zenon, <1>4, <2>4, <2>5, <2>6, <2>7, <2>8, SettleStep DEF States
<1>6. CASE ~Redundant(s)
  <2>1. PICK table : table = InState(intents, x, "reconciliation_required")
    OBVIOUS
  <2>2. Fail(p, table)
    BY <1>2, <1>6, <2>1 DEF Retire
  <2>3. /\ table = [k \in Intents |-> table[k]]
        /\ table[x] = [intents[x] EXCEPT !.state = "reconciliation_required"]
        /\ \A k \in Intents \ {x} : table[k] = intents[k]
        /\ \A k \in Intents : table[k].attempted = intents[k].attempted
    BY <1>1, <2>1, OneRow
  <2>4. intents' = table => \A k \in Intents : table[k] = intents[k] \/ Written(k)
    <3>1. intents' = table => Written(x)
      BY <1>1, <1>4, <2>3, StateWritten DEF States
    <3>2. QED BY <2>3, <3>1
  <2>5. QED BY <2>2, <2>3, <2>4, FailStep
<1>7. QED BY <1>5, <1>6

\* An order that was read is what the exchange holds.
LEMMA ReadIsSeen ==
  ASSUME ExposureInv, NEW s \in Signals
  PROVE  /\ orders["entry"][s] # NoOrder =>
              /\ SeenOK(orders["entry"][s], orders["entry"][s])
              /\ SeenEntry(orders["entry"][s])
         /\ orders["close"][s] # NoOrder =>
              /\ SeenOK(orders["close"][s], orders["close"][s])
              /\ orders["close"][s].status \in {"new", "filled", "cancelled"}
<1>1. ExchangeOK /\ OrdersTyped
  BY OrderType DEF ExposureInv
<1>2. EntryOrderOK(s) /\ CloseOrderOK(s)
  BY <1>1 DEF ExchangeOK
<1>3. EntrySize[s] \in Nat \ {0}
  BY ExecutionAssumption
<1>4. QED BY <1>1, <1>2, <1>3 DEF EntryOrderOK, CloseOrderOK, SeenOK, SeenEntry, OrdersTyped

\* The order of a row is read, or is not found.
LEMMA ReadStep ==
  ASSUME ExposureInv, NEW p \in Processes, job[p].pc = "next",
         Head(job[p].todo).name \in Walks,
         p # "operator" => job["operator"] = Idle,
         UNCHANGED <<Beyond, exchangeVars>>,
         NEW i \in Intents, ReadOrder(p, i),
         NEW x \in Intents, x = Item(p), intents[i].reservation = intents[x].reservation,
         intents[i].kind \in {"entry", "close_position"},
         intents[i].kind = "close_position" => intents[i].attempted,
         i # x => /\ intents[i].kind = "entry" /\ intents[x].kind = "cancel_entry"
                  /\ intents[x].state # "planned"
  PROVE  Advances
<1>1. /\ ExchangeOK /\ TableOK /\ EvidenceOK /\ RowsTyped
      /\ ExchangeOK'
      /\ UNCHANGED <<account, book, decision, requested, log, course, now, funds>>
      /\ UNCHANGED <<attributed, runs, cursor, orders, exited>>
  BY RowType, ExchangeStays DEF ExposureInv, Beyond, riskVars, exchangeVars
<1>2. PICK s \in Signals : s = intents[i].reservation
  BY <1>1 DEF RowsTyped
<1>3. PICK order : order = orders[OrderKind(i)][s]
  OBVIOUS
<1>4. CASE order # NoOrder
  <2>1. PICK new : new = [job[p] EXCEPT !.pc = "resolve", !.target = i, !.seen = order,
                                        !.known = intents[i].filled]
    OBVIOUS
  <2>2. Become(p, new) /\ UNCHANGED intents
    BY <1>2, <1>3, <1>4, <2>1 DEF ReadOrder
  <2>3. /\ order \in OrderState
        /\ intents[i].kind = "entry" =>
             SeenOK(orders["entry"][s], order) /\ SeenEntry(order)
        /\ intents[i].kind = "close_position" =>
             /\ SeenOK(orders["close"][s], order)
             /\ order.status \in {"new", "filled", "cancelled"}
    BY <1>1, <1>3, <1>4, ReadIsSeen, OrderType DEF OrdersTyped, OrderKind
  <2>4. /\ job[p] \in Job /\ JobOK(p)
        /\ job[p] = [Idle EXCEPT !.pc = "next", !.todo = job[p].todo]
        /\ job[p].todo # <<>>
    BY Zenon, JobType DEF ExposureInv, JobOK, PlaceOK
  <2>5. /\ new \in Job /\ new.pc = "resolve" /\ new.todo = job[p].todo /\ new.target = i
        /\ new.seen = order /\ new.known = intents[i].filled
    BY Zenon, <1>1, <2>1, <2>3, <2>4, TableRows DEF Job, RowsTyped, TableOK
  <2>6. ASSUME job'[p] = new, Progress, TableOK', EvidenceOK'
        PROVE  new \in Job' /\ JobOK(p)'
    <3>1. new \in Job'
      BY <1>1, <2>5 DEF Job
    <3>2. Item(p)' = x
      BY <2>5, <2>6 DEF Item
    <3>3. WalkOK(p)'
      <4>1. SeenOK(orders["entry"][s], order)' = SeenOK(orders["entry"][s], order)
            /\ SeenOK(orders["close"][s], order)' = SeenOK(orders["close"][s], order)
        BY <1>1 DEF SeenOK
      <4>2. i \in Intents' /\ intents'[i] = intents[i] /\ intents'[x] = intents[x]
        BY <2>2 DEF Intents
      <4>3. intents[i].filled <= intents[i].filled
        BY <1>1 DEF RowsTyped
      <4>4. QED BY <1>2, <2>3, <2>5, <2>6, <3>2, <4>1, <4>2, <4>3 DEF WalkOK, SeenEntry, Walks
    <3>4. PlaceOK(p)'
      BY <2>4, <2>5, <2>6, <3>3 DEF PlaceOK
    <3>5. NothingSent
      BY <2>2 DEF NothingSent, Intents
    <3>6. QED BY <1>1, <2>5, <2>6, <3>1, <3>4, <3>5, SameTaskOK
  <2>7. QED BY <1>1, <2>2, <2>6, LoneStep DEF ExposureInv, RestOK
<1>5. CASE order = NoOrder
  <2>1. PICK table : table = IF Head(job[p].todo).name = "recover" /\ intents[i].kind = "entry"
                             THEN InState(intents, i, "reconciliation_required") ELSE intents
    OBVIOUS
  <2>2. Fail(p, table)
    BY <1>2, <1>3, <1>5, <2>1 DEF ReadOrder
  <2>3. CASE table = intents
    <3>1. table = [k \in Intents |-> table[k]]
      BY <1>1, <2>3, SameTable
    <3>2. QED BY <1>1, <2>2, <2>3, <3>1, FailStep
  <2>4. CASE /\ intents[i].kind = "entry"
             /\ table = InState(intents, i, "reconciliation_required")
    <3>1. /\ table = [k \in Intents |-> table[k]]
          /\ table[i] = [intents[i] EXCEPT !.state = "reconciliation_required"]
          /\ \A k \in Intents \ {i} : table[k] = intents[k]
          /\ \A k \in Intents : table[k].attempted = intents[k].attempted
      BY <1>1, <2>4, OneRow
    <3>2. Claim(i, "reconciliation_required")
      BY <2>4 DEF Claim, EntryClaim
    <3>3. intents' = table => \A k \in Intents : table[k] = intents[k] \/ Written(k)
      <4>1. intents' = table => Written(i)
        BY <1>1, <3>1, <3>2, StateWritten DEF States
      <4>2. QED BY <3>1, <4>1
    <3>4. QED BY <1>1, <2>2, <3>1, <3>3, FailStep
  <2>5. QED BY <2>1, <2>3, <2>4
<1>6. QED BY <1>4, <1>5

\* What is known of the row that a walk is about before it starts.
LEMMA WalkStarts ==
  ASSUME ExposureInv, NEW p \in Processes,
         Doing(p, {"reconcile", "expired", "depend", "recover", "confirm"})
  PROVE  /\ Item(p) \in Intents /\ RowOK(Item(p))
         /\ intents[Item(p)].kind = "cancel_entry" => intents[Item(p)].state # "planned"
         /\ intents[Item(p)].kind = "close_position" =>
              intents[Item(p)].attempted \/ intents[Item(p)].state # "planned"
<1> DEFINE head == Head(job[p].todo)
<1>1. /\ job[p].pc = "next" /\ head.name \in {"reconcile", "expired", "depend", "recover", "confirm"}
      /\ JobOK(p) /\ EvidenceOK
  BY DEF Doing, At, ExposureInv, JobsOK
<1>2. TaskOK(p, head) /\ Item(p) \in Intents /\ head.intent = Item(p)
      /\ head \in Range(job[p].todo)
  BY <1>1, AtWork DEF Tokens, Item
<1>3. RowOK(Item(p))
  BY <1>1, <1>2 DEF EvidenceOK
<1>4. head.name \in {"depend", "confirm"} => Sent(head)
  <2>1. PICK t : t = head
    OBVIOUS
  <2>2. t.name \in {"depend", "confirm"} => Sent(t) \/ t = Task("submit", t.intent)
    BY <1>1, <1>2, <2>1 DEF JobOK, TodoOK
  <2>3. t = Task("submit", t.intent) => t.name = "submit"
    BY DEF Task
  <2>4. QED BY <2>1, <2>2, <2>3
<1>5. PICK i \in Intents : i = Item(p) /\ i = head.intent
  BY <1>2
<1>6. /\ head.name = "reconcile" => intents[i].state # "planned"
      /\ head.name = "expired" => intents[i].kind = "entry" 
      /\ head.name = "depend" => intents[i].kind = "cancel_entry"
      /\ head.name = "recover" => intents[i].kind # "cancel_entry" /\ intents[i].attempted
      /\ head.name = "confirm" => intents[i].kind = "close_position"
  <2>1. PICK t : t = head
    OBVIOUS
  <2>2. TaskOK(p, t) /\ t.intent = i /\ t.name \notin Tokens
    BY <1>1, <1>2, <1>5, <2>1 DEF Tokens
  <2>3. /\ t.name = "reconcile" => intents[i].state # "planned"
        /\ t.name \in EntryTasks => intents[i].kind = "entry"
        /\ t.name = "depend" => intents[i].kind = "cancel_entry"
        /\ t.name = "recover" => intents[i].kind \in {"entry", "close_position"}
                                 /\ intents[i].attempted
        /\ t.name = "confirm" => intents[i].kind = "close_position"
    BY <2>2 DEF TaskOK
  <2>4. QED BY <2>1, <2>3 DEF EntryTasks
<1>7. intents[i].kind = "cancel_entry" => ~intents[i].attempted
  BY Zenon, <1>3, <1>5 DEF RowOK
<1>8. head.name \in {"depend", "confirm"} => intents[i].attempted \/ intents[i].state # "planned"
  BY <1>4, <1>5 DEF Sent
<1>9. QED BY <1>1, <1>3, <1>5, <1>6, <1>7, <1>8

\* reconcile: a row in a final state is left alone, the cancellation of an entry that has
\* ended is retired, a protected position is looked at, any other order is read.
LEMMA ReconcileMoves ==
  ASSUME ExposureInv, NEW p \in Processes, p # "operator" => job["operator"] = Idle,
         Reconcile(p)
  PROVE  Advances
<1>1. /\ job[p].pc = "next" /\ job[p].pc # "idle"
      /\ Head(job[p].todo).name \in {"reconcile", "expired", "depend", "recover", "confirm"}
  BY DEF Reconcile, Doing, At
<1>2. /\ ExchangeOK /\ TableOK /\ EvidenceOK /\ RowsTyped /\ ExchangeOK'
      /\ UNCHANGED <<Beyond, exchangeVars>> /\ UNCHANGED <<orders, exited>>
  BY RowType, ExchangeStays DEF Reconcile, ExposureInv, exchangeVars
<1>3. PICK x \in Intents : x = Item(p)
  BY WalkStarts DEF Reconcile
<1>4. PICK s \in Signals : s = intents[x].reservation /\ s = Owned(p)
  BY <1>2, <1>3 DEF RowsTyped, Owned
<1>5. /\ RowOK(x)
      /\ intents[x].kind = "cancel_entry" => intents[x].state # "planned"
      /\ intents[x].kind = "close_position" =>
           intents[x].attempted \/ intents[x].state # "planned"
  BY <1>3, WalkStarts DEF Reconcile
<1>6. intents[x].kind \in Kinds /\ intents[x].state \in States
  BY <1>2 DEF RowsTyped
<1>7. CASE intents[x].state \in Final /\ Settle(p, intents, intents[x].state)
  <2>1. intents = [k \in Intents |-> intents[k]]
    BY <1>2, SameTable
  <2>2. PICK state \in States : state = intents[x].state
    BY <1>6
  <2>3. state # "planned" /\ Claim(x, state) /\ Settle(p, intents, state)
    BY <1>5, <1>7, <2>2 DEF Final, RowOK
  <2>4. PICK table : table = intents
    OBVIOUS
  <2>5. QED BY <1>1, <1>2, <1>3, <2>1, <2>2, <2>3, <2>4, SettleStep
<1>8. CASE intents[x].kind = "cancel_entry" /\ EntryEnded(s) /\ Retire(p)
  BY <1>1, <1>2, <1>3, <1>4, <1>8, RetireStep
<1>9. CASE /\ intents[x].state \notin Final
           /\ \/ /\ intents[Target(p)].state \in Protected
                 /\ Conclude(p, InState(intents, Target(p), ProtectedVerdict(Target(p))),
                             Target(p), ProtectedVerdict(Target(p)))
              \/ /\ intents[Target(p)].state \notin Protected
                 /\ ReadOrder(p, Target(p))
  <2>1. intents[x].kind = "cancel_entry" =>
          /\ EntryOf(s) \in Intents /\ intents[EntryOf(s)].kind = "entry"
          /\ intents[EntryOf(s)].reservation = s
    <3>1. SUFFICES ASSUME intents[x].kind = "cancel_entry"
                   PROVE  Of("entry", s) # {}
      BY EntryRow
    <3>2. QED BY <1>4, <1>5, <3>1 DEF RowOK, Claim, CancelClaim
  <2>2. PICK i \in Intents : i = Target(p)
    BY <1>3, <1>4, <2>1 DEF Target
  <2>3. /\ intents[i].reservation = s
        /\ intents[i].kind \in {"entry", "close_position"}
        /\ i # x => /\ intents[i].kind = "entry" /\ intents[x].kind = "cancel_entry"
                    /\ intents[x].state # "planned"
        /\ i = x => intents[x].kind # "cancel_entry"
    BY Zenon, <1>3, <1>4, <1>5, <1>6, <2>1, <2>2 DEF Target, Kinds
  <2>4. intents[i].kind = "close_position" =>
          intents[i].attempted /\ intents[i].state \notin Protected
    <3>1. SUFFICES ASSUME intents[i].kind = "close_position"
                   PROVE  intents[i].attempted /\ intents[i].state \notin Protected
      OBVIOUS
    <3>2. i = x
      BY <2>3, <3>1
    <3>3. CloseClaim(s, intents[x].state, intents[x].attempted)
      BY <1>4, <1>5, <3>1, <3>2 DEF RowOK, Claim
    <3>4. QED BY <1>5, <1>9, <3>1, <3>2, <3>3 DEF CloseClaim, Final, Protected
  <2>5. CASE intents[i].state \in Protected
    <3>1. intents[i].kind = "entry"
      BY <2>3, <2>4, <2>5
    <3>2. PICK state \in States \ {"planned"} : state = ProtectedVerdict(i) /\ Claim(i, state)
      BY <2>5, <3>1, ProtectedVerdictClaim
    <3>3. Conclude(p, InState(intents, i, state), i, state)
      BY <1>9, <2>2, <2>5, <3>2
    <3>4. QED BY Zenon, <1>1, <1>2, <1>3, <1>4, <2>3, <3>2, <3>3, ConcludeStep
  <2>6. CASE intents[i].state \notin Protected
    <3>1. ReadOrder(p, i)
      BY <1>9, <2>2, <2>6
    <3>2. QED BY Zenon, <1>1, <1>2, <1>3, <1>4, <2>3, <2>4, <3>1, ReadStep DEF Walks
  <2>7. QED BY <2>5, <2>6
<1>10. QED BY <1>3, <1>4, <1>7, <1>8, <1>9 DEF Reconcile

-------------------------------------------------------------------------------
(* From the order to the state of its row. *)

\* What is known of a row whose order was read.
LEMMA WalkFacts ==
  ASSUME ExposureInv, NEW p \in Processes,
         job[p].pc \in {"resolve", "protect", "remainder", "reread", "prove"}
  PROVE  LET i == job[p].target
             x == Item(p)
             s == intents[i].reservation
         IN  /\ job[p].pc # "idle" /\ WalkOK(p) /\ job[p] \in Job
             /\ i \in Intents /\ x \in Intents /\ s \in Signals /\ RowOK(i)
             /\ intents[x].reservation = s
             /\ intents[i].kind \in {"entry", "close_position"}
             /\ i # x => intents[i].kind = "entry" /\ intents[x].kind = "cancel_entry"
             /\ intents[i].kind = "entry" => /\ SeenOK(orders["entry"][s], job[p].seen)
                                             /\ SeenEntry(job[p].seen)
             /\ intents[i].kind = "close_position" =>
                  /\ intents[i].attempted /\ Spent(s)
                  /\ SeenOK(orders["close"][s], job[p].seen)
                  /\ job[p].seen.status \in {"new", "filled", "cancelled"}
<1>1. JobOK(p) /\ EvidenceOK /\ RowsTyped /\ job[p] \in Job
  BY RowType DEF ExposureInv, JobsOK
<1>2. WalkOK(p) /\ job[p].pc # "idle"
  BY <1>1 DEF JobOK, PlaceOK
<1>3. Item(p) \in Intents
  BY <1>1, <1>2, AtWork DEF WalkOK, Walks, Tokens
<1>4. PICK i \in Intents : i = job[p].target
  BY <1>2 DEF WalkOK
<1>5. intents[i].reservation \in Signals /\ RowOK(i)
  BY <1>1 DEF RowsTyped, EvidenceOK
<1>6. QED BY <1>1, <1>2, <1>3, <1>4, <1>5 DEF WalkOK, RowOK

\* An order that was read is known from here on.
LEMMA SeenType ==
  ASSUME ExposureInv, NEW s \in Signals, NEW seen, SeenOK(orders["entry"][s], seen),
         SeenEntry(seen)
  PROVE  /\ seen \in OrderState /\ seen.filled \in Nat /\ seen.filled \in Quantities
         /\ seen.filled > 0 => seen.status \in {"partial"} \cup Over
<1>1. \A q \in Quantities : q \in Nat
  BY ExecutionAssumption DEF Quantities
<1>2. seen \in OrderState /\ seen.status # "none"
  BY DEF SeenOK
<1>3. seen.filled \in Nat /\ seen.filled \in Quantities
  BY <1>1, <1>2 DEF OrderState
<1>4. QED BY <1>2, <1>3 DEF OrderState, SeenEntry, Over

\* A walk goes on at its next place, maybe with its order read again.
LEMMA WalkGoesOn ==
  ASSUME ExposureInv, NEW p \in Processes,
         job[p].pc \in {"resolve", "protect", "remainder", "reread"},
         UNCHANGED <<Beyond, intents, orders, exited>>, ExchangeOK',
         NEW pc \in {"resolve", "remainder", "reread"}, NEW seen \in OrderState, NEW i, NEW s,
         Become(p, [job[p] EXCEPT !.pc = pc, !.seen = seen]),
         i = job[p].target, s = intents[i].reservation, intents[i].kind = "entry",
         SeenOK(orders["entry"][s], seen), SeenEntry(seen),
         pc # "resolve" => /\ job[p].known = seen.filled /\ seen.filled > 0
                           /\ seen.status \in {"partial"} \cup Over
  PROVE  Advances
<1>1. /\ ExchangeOK /\ TableOK
      /\ UNCHANGED <<account, book, decision, requested, log, course, now, funds>>
      /\ UNCHANGED <<attributed, runs, cursor>>
  BY DEF ExposureInv, Beyond, riskVars
<1>2. PICK new : new = [job[p] EXCEPT !.pc = pc, !.seen = seen]
  OBVIOUS
<1>3. PICK x : x = Item(p)
  OBVIOUS
<1>4. /\ WalkOK(p) /\ job[p] \in Job /\ i \in Intents /\ x \in Intents /\ s \in Signals
      /\ intents[x].reservation = s
  BY Zenon, <1>3, WalkFacts
<1>5. /\ new \in Job /\ new.pc = pc /\ new.todo = job[p].todo /\ new.target = i
      /\ new.seen = seen /\ new.known = job[p].known
  BY Zenon, <1>2, <1>4 DEF Job
<1>6. ASSUME job'[p] = new, Progress, TableOK', EvidenceOK'
      PROVE  new \in Job' /\ JobOK(p)'
  <2>1. new \in Job'
    BY <1>1, <1>5 DEF Job
  <2>2. Item(p)' = x /\ Head(job'[p].todo) = Head(job[p].todo)
    BY <1>3, <1>5, <1>6 DEF Item
  <2>3. SeenOK(orders["entry"][s], seen)'
    BY DEF SeenOK
  <2>4. i \in Intents' /\ intents'[i] = intents[i] /\ intents'[x] = intents[x]
    BY <1>4 DEF Intents
  <2>5. WalkOK(p)'
    <3>1. PICK name : name = Head(job[p].todo).name
      OBVIOUS
    <3>2. /\ name \in Walks /\ job[p].known <= intents[i].filled
          /\ i # x => intents[x].kind = "cancel_entry" /\ intents[x].state # "planned"
      BY <1>3, <1>4, <3>1 DEF WalkOK
    <3>3. name # "inspect" /\ Head(job'[p].todo).name = name /\ pc # "prove"
      BY <2>2, <3>1, <3>2 DEF Walks
    <3>4. SeenEntry(seen)'
      BY DEF SeenEntry
    <3>5. QED BY <1>4, <1>5, <1>6, <2>2, <2>3, <2>4, <3>2, <3>3, <3>4 DEF WalkOK
  <2>6. job[p].todo # <<>>
    BY Zenon DEF ExposureInv, JobsOK, JobOK, PlaceOK
  <2>7. PlaceOK(p)'
    BY <1>5, <1>6, <2>5, <2>6 DEF PlaceOK
  <2>8. NothingSent
    BY DEF NothingSent, Intents
  <2>9. QED BY <1>1, <1>5, <1>6, <2>1, <2>7, <2>8, SameTaskOK
<1>7. QED BY <1>1, <1>2, <1>6, LoneStep DEF ExposureInv, RestOK

\* What order and position say is proved.
LEMMA VerdictClaim ==
  ASSUME ExposureInv, NEW p \in Processes, job[p].pc \in {"resolve", "prove"},
         NEW i, i = job[p].target, NEW seen, seen = job[p].seen
  PROVE  /\ Verdict(p) \in States \ {"planned"} /\ Claim(i, Verdict(p))
         /\ Verdict(p) = "filled" =>
              /\ intents[i].kind = "entry"
              /\ seen.filled = orders["entry"][intents[i].reservation].filled
              /\ Executed(intents[i].reservation)
<1>1. PICK s \in Signals : s = intents[i].reservation
  BY WalkFacts
<1>2. CASE intents[i].kind = "entry"
  <2>1. SeenOK(orders["entry"][s], seen) /\ SeenEntry(seen)
    BY <1>1, <1>2, WalkFacts
  <2>2. PICK known : known = job[p].known
    OBVIOUS
  <2>3. Verdict(p) = EntryVerdict(s, known, seen)
    BY <1>1, <1>2, <2>2 DEF Verdict
  <2>4. QED BY <1>1, <1>2, <2>1, <2>3, EntryVerdictClaim DEF Claim
<1>3. CASE intents[i].kind = "close_position"
  <2>1. /\ intents[i].attempted /\ Spent(s) /\ SeenOK(orders["close"][s], seen)
        /\ seen.status \in {"new", "filled", "cancelled"}
    BY <1>1, <1>3, WalkFacts
  <2>2. Verdict(p) = CloseVerdict(s, seen)
    BY <1>1, <1>3 DEF Verdict
  <2>3. /\ CloseVerdict(s, seen) \in States \ {"planned", "filled"}
        /\ CloseClaim(s, CloseVerdict(s, seen), TRUE)
    BY Zenon, <2>1, CloseVerdictClaim
  <2>4. intents[i].attempted = TRUE
    <3>1. intents[i].attempted \in BOOLEAN
      BY WalkFacts, RowType DEF ExposureInv, RowsTyped
    <3>2. QED BY <2>1, <3>1
  <2>5. QED BY Zenon, <1>1, <1>3, <2>2, <2>3, <2>4 DEF Claim
<1>4. QED BY <1>2, <1>3, WalkFacts

\* The verdict on a row that was read (Resolve) keeps the invariant and the promise.
LEMMA ResolveMoves ==
  ASSUME ExposureInv, NEW p \in Processes, p # "operator" => job["operator"] = Idle,
         Resolve(p)
  PROVE  Advances
<1>1. /\ job[p].pc = "resolve" /\ job[p].pc # "idle"
      /\ ExchangeOK /\ TableOK /\ EvidenceOK /\ RowsTyped /\ ExchangeOK'
      /\ UNCHANGED <<Beyond, exchangeVars>> /\ UNCHANGED <<orders, exited>>
      /\ UNCHANGED <<account, book, decision, requested, log, course, now, funds>>
      /\ UNCHANGED <<attributed, runs, cursor>>
  BY RowType, ExchangeStays DEF Resolve, At, ExposureInv, exchangeVars, Beyond, riskVars
<1>2. PICK i \in Intents : i = job[p].target
  BY <1>1, WalkFacts
<1>3. PICK x \in Intents : x = Item(p)
  BY <1>1, WalkFacts
<1>4. PICK s \in Signals : s = intents[i].reservation
  BY <1>1 DEF RowsTyped
<1>5. PICK seen : seen = job[p].seen
  OBVIOUS
<1>6. PICK verdict \in States \ {"planned"} : verdict = Verdict(p) /\ Claim(i, verdict)
  BY <1>1, <1>2, <1>5, VerdictClaim
<1>7. CASE verdict # "filled"
  <2>1. Conclude(p, InState(intents, i, verdict), i, verdict)
    BY <1>2, <1>6, <1>7 DEF Resolve
  <2>2. i # x => /\ intents[i].kind = "entry" /\ intents[x].kind = "cancel_entry"
                 /\ intents[x].reservation = intents[i].reservation
    BY <1>1, <1>2, <1>3, WalkFacts
  <2>3. QED BY <1>1, <1>3, <1>6, <2>1, <2>2, ConcludeStep
<1>8. CASE verdict = "filled"
  <2>1. PICK q : q = seen.filled
    OBVIOUS
  <2>2. /\ intents' = [intents EXCEPT ![i].state = "filled", ![i].filled = q]
        /\ Become(p, [job[p] EXCEPT !.pc = "protect", !.known = q])
    BY <1>2, <1>5, <1>6, <1>8, <2>1 DEF Resolve
  <2>3. /\ intents[i].kind = "entry" /\ q = orders["entry"][s].filled /\ Executed(s)
        /\ RowOK(i)
        /\ SeenOK(orders["entry"][s], seen) /\ SeenEntry(seen) /\ WalkOK(p)
        /\ intents[x].reservation = s
    BY Zenon, <1>1, <1>2, <1>3, <1>4, <1>5, <1>6, <1>8, <2>1, VerdictClaim, WalkFacts
  <2>4. /\ q \in Nat /\ q \in Quantities /\ q > 0
        /\ seen \in OrderState /\ seen.status \in {"partial"} \cup Over
    <3>1. seen \in OrderState /\ seen.filled \in Nat /\ seen.filled \in Quantities
          /\ (seen.filled > 0 => seen.status \in {"partial"} \cup Over)
      BY <2>3, SeenType
    <3>2. q > 0
      BY <2>3 DEF Executed
    <3>3. QED BY <2>1, <3>1, <3>2
  <2>5. /\ intents' = [k \in Intents |-> intents'[k]]
        /\ intents'[i] = [intents[i] EXCEPT !.state = "filled", !.filled = q]
        /\ \A k \in Intents \ {i} : intents'[k] = intents[k]
        /\ Intents' = Intents
    <3>1. intents = [k \in Intents |-> intents[k]]
      BY <1>1, SameTable
    <3>2. QED BY Zenon, <2>2, <3>1 DEF Intents
  <2>6. Written(i)
    <3>1. intents[i].filled <= q
      BY <1>4, <2>3 DEF RowOK
    <3>2. q <= orders["entry"][intents[i].reservation].filled
      BY <1>4, <2>3, <2>4
    <3>3. QED BY Zenon, <1>1, <1>4, <2>3, <2>4, <2>5, <3>1, <3>2, FillWritten
  <2>7. PICK new : new = [job[p] EXCEPT !.pc = "protect", !.known = q]
    OBVIOUS
  <2>8. job[p] \in Job /\ new \in Job /\ new.pc = "protect" /\ new.todo = job[p].todo
        /\ new.target = i /\ new.seen = seen /\ new.known = q
    BY Zenon, <1>1, <1>2, <1>5, <2>4, <2>7, WalkFacts DEF Job
  <2>9. ASSUME job'[p] = new, Progress, TableOK', EvidenceOK'
        PROVE  new \in Job' /\ JobOK(p)'
    <3>1. new \in Job'
      BY <1>1, <2>8 DEF Job
    <3>2. Item(p)' = x /\ Head(job'[p].todo) = Head(job[p].todo)
      BY <1>3, <2>8, <2>9 DEF Item
    <3>3. /\ intents'[i].kind = "entry" /\ intents'[i].reservation = s
          /\ intents'[i].filled = q
          /\ intents'[i].attempted = intents[i].attempted
          /\ intents[i] \in Intent
      BY <1>1, <1>4, <2>3, <2>5 DEF RowsTyped, Intent
    <3>4. /\ intents'[x].kind = intents[x].kind /\ intents'[x].reservation = s
          /\ (i # x => intents'[x] = intents[x])
      BY Zenon, <2>3, <2>5, <3>3
    <3>5. PICK name : name = Head(job[p].todo).name
      OBVIOUS
    <3>6. /\ name \in Walks
          /\ i # x => intents[x].kind = "cancel_entry" /\ intents[x].state # "planned"
      BY <1>1, <1>2, <1>3, <2>3, <3>5 DEF WalkOK
    <3>7. name # "inspect" /\ Head(job'[p].todo).name = name
      BY <3>2, <3>5, <3>6 DEF Walks
    <3>8. SeenEntry(seen)' /\ SeenOK(orders["entry"][s], seen)'
      BY <1>1, <2>3 DEF SeenEntry, SeenOK
    <3>9. WalkOK(p)'
      <4>1. q <= q /\ ("protect" # "prove")
        BY <2>4
      <4>2. QED BY Zenon, <2>1, <2>4, <2>5, <2>8, <2>9, <3>2, <3>3, <3>4, <3>6, <3>7, <3>8, <4>1 DEF WalkOK
    <3>10. job[p].todo # <<>>
      BY Zenon, <1>1 DEF ExposureInv, JobsOK, JobOK, PlaceOK
    <3>11. PlaceOK(p)'
      BY <2>8, <2>9, <3>9, <3>10 DEF PlaceOK
    <3>12. NothingSent
      BY Zenon, <2>5, <3>3 DEF NothingSent
    <3>13. QED BY <1>1, <2>8, <2>9, <3>1, <3>11, <3>12, SameTaskOK
  <2>10. QED BY Zenon, <1>1, <2>2, <2>5, <2>6, <2>7, <2>9, WriteStep
<1>9. QED BY <1>7, <1>8

\* A walk whose step fails without a change of the table.
LEMMA WalkFails ==
  ASSUME ExposureInv, NEW p \in Processes, job[p].pc # "idle",
         p # "operator" => job["operator"] = Idle,
         UNCHANGED <<Beyond, orders, exited>>, ExchangeOK', Fail(p, intents)
  PROVE  Advances
<1>1. PICK table : table = intents
  OBVIOUS
<1>2. table = [k \in Intents |-> table[k]]
  BY <1>1, SameTable DEF ExposureInv
<1>3. Fail(p, table) /\ \A k \in Intents : table[k] = intents[k]
  BY <1>1
<1>4. QED BY <1>2, <1>3, FailStep

\* What a walk knows behind its verdict.
LEMMA ProtectFacts ==
  ASSUME ExposureInv, NEW p \in Processes, job[p].pc \in {"protect", "remainder", "reread"},
         NEW i, i = job[p].target, NEW seen, seen = job[p].seen
  PROVE  LET s == intents[i].reservation
         IN  /\ i \in Intents /\ s \in Signals /\ intents[i].kind = "entry"
             /\ SeenOK(orders["entry"][s], seen) /\ SeenEntry(seen)
             /\ job[p].known = seen.filled /\ seen.filled > 0
             /\ seen.status \in {"partial"} \cup Over /\ seen \in OrderState
             /\ Item(p) \in Intents
             /\ i # Item(p) => /\ intents[Item(p)].kind = "cancel_entry"
                               /\ intents[Item(p)].reservation = s
<1>1. WalkOK(p) /\ i \in Intents /\ intents[i].reservation \in Signals
  BY WalkFacts
<1>2. /\ intents[i].kind = "entry" /\ job[p].known = seen.filled /\ seen.filled > 0
      /\ seen.status \in {"partial"} \cup Over
  BY <1>1 DEF WalkOK
<1>3. SeenOK(orders["entry"][intents[i].reservation], seen) /\ SeenEntry(seen)
  BY <1>2, WalkFacts
<1>4. /\ Item(p) \in Intents
      /\ i # Item(p) => /\ intents[Item(p)].kind = "cancel_entry"
                        /\ intents[Item(p)].reservation = intents[i].reservation
  BY WalkFacts
<1>5. QED BY <1>1, <1>2, <1>3, <1>4 DEF SeenOK

\* _set_and_verify_protection
LEMMA ProtectMoves ==
  ASSUME ExposureInv, NEW p \in Processes, p # "operator" => job["operator"] = Idle,
         Protect(p)
  PROVE  Advances
<1>1. /\ job[p].pc = "protect" /\ job[p].pc # "idle" /\ ExchangeOK /\ RowsTyped
      /\ UNCHANGED <<Beyond, orders, exited>> /\ UNCHANGED <<cancelling, reported>>
  BY RowType DEF Protect, At, ExposureInv
<1>2. PICK i \in Intents : i = job[p].target
  BY <1>1, WalkFacts
<1>3. PICK seen : seen = job[p].seen
  OBVIOUS
<1>4. PICK s \in Signals : s = intents[i].reservation
  BY <1>1 DEF RowsTyped
<1>5. ExchangeOK'
  <2>1. StopsSet(s) => stops' \in [Symbols -> Signals \cup {NoStop}]
    BY Zenon, <1>1 DEF StopsSet, ExchangeOK, ExchangeTypeOK
  <2>2. stops' \in [Symbols -> Signals \cup {NoStop}]
    BY <1>1, <1>2, <1>4, <2>1 DEF Protect, ExchangeOK, ExchangeTypeOK
  <2>3. /\ cancelling' \subseteq {t \in Signals : Live(orders["entry"][t])}
        /\ reported' \subseteq Signals
    BY <1>1 DEF ExchangeOK, ExchangeTypeOK
  <2>4. QED BY <1>1, <2>2, <2>3, ExchangeRests DEF ExchangeMoves
<1>6. CASE Fail(p, intents)
  BY <1>1, <1>5, <1>6, WalkFails
<1>7. /\ intents[i].kind = "entry" /\ SeenOK(orders["entry"][s], seen) /\ SeenEntry(seen)
      /\ job[p].known = seen.filled /\ seen.filled > 0
      /\ seen.status \in {"partial"} \cup Over /\ seen \in OrderState
      /\ Item(p) \in Intents
      /\ i # Item(p) => /\ intents[Item(p)].kind = "cancel_entry"
                        /\ intents[Item(p)].reservation = s
  BY <1>1, <1>2, <1>3, <1>4, ProtectFacts
<1>8. CASE /\ seen.status # "partial"
           /\ Conclude(p, InState(intents, i, "protection_verified"), i, "protection_verified")
  <2>1. Spent(s)
    BY <1>7, <1>8 DEF SeenOK, Spent, Executed
  <2>2. Claim(i, "protection_verified")
    BY <1>4, <1>7, <2>1 DEF Claim, EntryClaim
  <2>3. "protection_verified" \in States \ {"planned"}
    BY DEF States
  <2>4. QED BY <1>1, <1>4, <1>5, <1>7, <1>8, <2>2, <2>3, ConcludeStep
<1>9. CASE Become(p, [job[p] EXCEPT !.pc = "remainder"]) /\ UNCHANGED intents
  <2>1. job[p] \in Job
    BY DEF ExposureInv, JobsOK
  <2>2. [job[p] EXCEPT !.pc = "remainder"] = [job[p] EXCEPT !.pc = "remainder", !.seen = seen]
    BY Zenon, <1>3, <2>1 DEF Job
  <2>3. Become(p, [job[p] EXCEPT !.pc = "remainder", !.seen = seen])
    BY <1>9, <2>2
  <2>4. UNCHANGED <<Beyond, intents, orders, exited>>
    BY <1>1, <1>9
  <2>5. QED BY Zenon, <1>1, <1>2, <1>4, <1>5, <1>7, <2>3, <2>4, WalkGoesOn
<1>10. QED BY <1>2, <1>3, <1>6, <1>8, <1>9 DEF Protect

\* The live remainder of a partial fill is cancelled.
LEMMA RemainderMoves ==
  ASSUME ExposureInv, NEW p \in Processes, p # "operator" => job["operator"] = Idle,
         CancelRemainder(p)
  PROVE  Advances
<1>1. /\ job[p].pc = "remainder" /\ job[p].pc # "idle" /\ ExchangeOK /\ RowsTyped
      /\ UNCHANGED <<Beyond, orders, exited>> /\ UNCHANGED <<stops, reported>>
  BY RowType DEF CancelRemainder, At, ExposureInv
<1>2. PICK i \in Intents : i = job[p].target
  BY <1>1, WalkFacts
<1>3. PICK seen : seen = job[p].seen
  OBVIOUS
<1>4. PICK s \in Signals : s = intents[i].reservation
  BY <1>1 DEF RowsTyped
<1>5. ExchangeOK'
  <2>1. /\ cancelling' \subseteq {t \in Signals : Live(orders["entry"][t])}
        /\ reported' \subseteq Signals /\ stops' \in [Symbols -> Signals \cup {NoStop}]
    BY <1>1, <1>2, <1>4
       DEF CancelRemainder, CancelAccepted, CancelRefused, CancelLost, ExchangeOK, ExchangeTypeOK
  <2>2. QED BY <1>1, <2>1, ExchangeRests DEF ExchangeMoves
<1>6. CASE Fail(p, intents)
  BY <1>1, <1>5, <1>6, WalkFails
<1>7. CASE Become(p, [job[p] EXCEPT !.pc = "reread"]) /\ UNCHANGED intents
  <2>1. /\ intents[i].kind = "entry" /\ SeenOK(orders["entry"][s], seen) /\ SeenEntry(seen)
        /\ job[p].known = seen.filled /\ seen.filled > 0
        /\ seen.status \in {"partial"} \cup Over /\ seen \in OrderState
    BY <1>1, <1>2, <1>3, <1>4, ProtectFacts
  <2>2. job[p] \in Job
    BY DEF ExposureInv, JobsOK
  <2>3. [job[p] EXCEPT !.pc = "reread"] = [job[p] EXCEPT !.pc = "reread", !.seen = seen]
    BY Zenon, <1>3, <2>2 DEF Job
  <2>4. Become(p, [job[p] EXCEPT !.pc = "reread", !.seen = seen])
    BY <1>7, <2>3
  <2>5. UNCHANGED <<Beyond, intents, orders, exited>>
    BY <1>1, <1>7
  <2>6. QED BY Zenon, <1>1, <1>2, <1>4, <1>5, <2>1, <2>4, <2>5, WalkGoesOn
<1>8. QED BY <1>6, <1>7 DEF CancelRemainder

\* The order is read again behind the cancellation of its remainder.
LEMMA ReadAgainMoves ==
  ASSUME ExposureInv, NEW p \in Processes, p # "operator" => job["operator"] = Idle,
         ReadAgain(p)
  PROVE  Advances
<1>1. /\ job[p].pc = "reread" /\ job[p].pc # "idle" /\ RowsTyped
      /\ ExchangeOK /\ ExchangeOK'
      /\ UNCHANGED <<Beyond, exchangeVars>> /\ UNCHANGED <<orders, exited>>
  BY RowType, ExchangeStays DEF ReadAgain, At, ExposureInv, exchangeVars
<1>2. PICK i \in Intents : i = job[p].target
  BY <1>1, WalkFacts
<1>3. PICK s \in Signals : s = intents[i].reservation
  BY <1>1 DEF RowsTyped
<1>4. PICK order : order = orders["entry"][s]
  OBVIOUS
<1>5. /\ intents[i].kind = "entry"
      /\ Item(p) \in Intents
      /\ i # Item(p) => /\ intents[Item(p)].kind = "cancel_entry"
                        /\ intents[Item(p)].reservation = s
  BY <1>1, <1>2, <1>3, ProtectFacts
<1>6. CASE order.status \in Over
  <2>1. Become(p, [job[p] EXCEPT !.pc = "resolve", !.seen = order]) /\ UNCHANGED intents
    BY <1>2, <1>3, <1>4, <1>6 DEF ReadAgain
  <2>2. order # NoOrder
    BY <1>6 DEF NoOrder, Over
  <2>3. SeenOK(orders["entry"][s], order) /\ SeenEntry(order) /\ order \in OrderState
    BY <1>4, <2>2, ReadIsSeen DEF SeenOK
  <2>4. UNCHANGED <<Beyond, intents, orders, exited>>
    BY <1>1, <2>1
  <2>5. QED BY Zenon, <1>1, <1>2, <1>3, <1>5, <2>1, <2>3, <2>4, WalkGoesOn
<1>7. CASE order.status \notin Over
  <2>1. Conclude(p, InState(intents, i, "reconciliation_required"), i, "reconciliation_required")
    BY <1>2, <1>3, <1>4, <1>7 DEF ReadAgain
  <2>2. Claim(i, "reconciliation_required")
    BY <1>5 DEF Claim, EntryClaim
  <2>3. "reconciliation_required" \in States \ {"planned"}
    BY DEF States
  <2>4. QED BY <1>1, <1>3, <1>5, <2>1, <2>2, <2>3, ConcludeStep
<1>8. QED BY <1>6, <1>7

\* A question of the walk is answered with an error.
LEMMA QueryMoves ==
  ASSUME ExposureInv, NEW p \in Processes, p # "operator" => job["operator"] = Idle,
         QueryFails(p)
  PROVE  Advances
<1>1. /\ job[p].pc # "idle" /\ ExchangeOK' /\ Fail(p, intents)
      /\ UNCHANGED <<Beyond, exchangeVars>> /\ UNCHANGED <<orders, exited>>
  BY ExchangeStays DEF QueryFails, Doing, At, ExposureInv, exchangeVars
<1>2. QED BY <1>1, WalkFails

\* The walk of any process.
LEMMA WalkStep ==
  ASSUME ExposureInv, NEW p \in Processes, p # "operator" => job["operator"] = Idle,
         ReconcileStep(p)
  PROVE  Advances
BY ReconcileMoves, ResolveMoves, ProtectMoves, RemainderMoves, ReadAgainMoves, QueryMoves
   DEF ReconcileStep

\* attribute_closed_outcome
LEMMA AttributeMoves ==
  ASSUME ExposureInv, job["operator"] = Idle, Attribute("monitor")
  PROVE  Advances
<1> DEFINE p == "monitor"
<1>1. /\ p \in Processes /\ job[p].pc = "attribute" /\ job[p].pc # "idle"
      /\ ExchangeOK /\ ExchangeOK' /\ TableOK
      /\ UNCHANGED <<account, book, decision, requested, log, course, now, funds>>
      /\ UNCHANGED <<intents, runs, cursor, orders, exited>>
  BY ExchangeStays DEF Attribute, At, ExposureInv, exchangeVars, riskVars, Processes
<1>2. /\ JobOK(p) /\ HandOK(p) /\ job[p] \in Job /\ job[p].todo # <<>>
  BY Zenon, <1>1 DEF ExposureInv, JobsOK, JobOK, PlaceOK
<1>3. TaskOK(p, Head(job[p].todo)) /\ Item(p) \in Intents
      /\ Head(job[p].todo).name \in {"reconcile", "confirm"}
  BY <1>1, <1>2, AtWork DEF HandOK, Tokens
<1>4. Head(job[p].todo).name = "reconcile"
  BY <1>3 DEF TaskOK, Names
<1>5. PICK s \in Signals : s = Owned(p)
  BY <1>3, RowType DEF RowsTyped, Owned, ExposureInv
<1>6. NothingSent
  BY <1>1 DEF NothingSent, Intents
<1>7. attributed' \subseteq Signals /\ runs' \subseteq Signals /\ cursor' \in 0..Len(Arrivals)
  BY <1>1, <1>5 DEF Attribute, ExposureInv, RestOK, Arrivals
<1>8. CASE Become(p, [job[p] EXCEPT !.pc = "sync"])
  <2>1. PICK new : new = [job[p] EXCEPT !.pc = "sync"]
    BY Zenon
  <2>2. PICK x \in Intents : x = Item(p)
    BY <1>3
  <2>3. PICK view \in States : view = job[p].view
    BY <1>2 DEF HandOK
  <2>4. new \in Job /\ new.pc = "sync" /\ new.todo = job[p].todo /\ new.view = view
    BY Zenon, <1>2, <2>1, <2>3 DEF Job
  <2>5. ASSUME job'[p] = new, Progress, TableOK', EvidenceOK'
        PROVE  new \in Job' /\ JobOK(p)'
    <3>1. new \in Job'
      BY <1>1, <2>4 DEF Job
    <3>2. Claim(x, view) /\ intents[x].state # "planned"
      BY <1>2, <2>2, <2>3 DEF HandOK
    <3>3. Claim(x, view)'
      BY <1>1, <2>5, <3>2, ClaimStays
    <3>4. PICK name : name = Head(job[p].todo).name
      OBVIOUS
    <3>5. HandOK(p)'
      BY <1>1, <1>4, <2>2, <2>4, <2>5, <3>2, <3>3, <3>4, HandOver
    <3>6. PlaceOK(p)'
      BY <1>2, <2>4, <2>5, <3>5 DEF PlaceOK
    <3>7. QED BY <1>1, <1>6, <2>4, <2>5, <3>1, <3>6, SameTaskOK
  <2>6. QED BY <1>1, <1>7, <1>8, <2>1, <2>5, LoneStep
<1>9. CASE NextTask(p)
  <2>1. Become(p, NextJob(Tail(job[p].todo)))
    BY Zenon, <1>9 DEF NextTask, Continue, NextJob
  <2>2. ASSUME job'[p] = NextJob(Tail(job[p].todo)), Progress, TableOK', EvidenceOK'
        PROVE  job'[p] \in Job' /\ JobOK(p)'
    BY <1>1, <1>4, <1>6, <2>2, NextTaskOK
  <2>3. QED BY <1>1, <1>7, <2>1, <2>2, LoneStep
<1>10. QED BY <1>8, <1>9 DEF Attribute

-------------------------------------------------------------------------------
(* A decision of the risk ledger. *)

\* The exchange knows the end of an entry, the ledger may release its reservation.
Releasable(s, after) ==
  /\ ~Live(orders["entry"][s]) /\ Exposure(s) = 0
  /\ after = "closed" => Executed(s)
  /\ after = "cancelled" =>
       Placed("entry", s) \/ \A i \in Of("entry", s) : ~intents[i].attempted

\* A decision admits an entry, takes note of one that was executed, or releases one that
\* came to its end, and with it admits the reversal.
Decided(s) ==
  \/ \A t \in Signals : Kept(t) \/ (t = s /\ Enters(t))
  \/ \A t \in Signals :
       \/ Kept(t)
       \/ /\ t = s /\ Status(book, s) = "pending" /\ Executed(s)
          /\ Status(book', s) \in {"filled", "close_requested"}
  \/ \E after \in Released :
       /\ Status(book, s) \in Open /\ Status(book', s) = after /\ Releasable(s, after)
       /\ \A t \in Signals \ {s} : Kept(t) \/ (Enters(t) /\ SymbolOf[t] = SymbolOf[s])

Logged(c) ==
  /\ c \notin DOMAIN log
  /\ log' = [d \in DOMAIN log \cup {c} |-> IF d = c THEN decision' ELSE log[d]]

\* What a decision does to each reservation, whatever its form.
LEMMA DecidedFacts ==
  ASSUME ExposureInv, NEW s \in Signals, Decided(s), UNCHANGED <<orders, exited>>
  PROVE  \A t \in Signals :
           /\ Status(book, t) # "absent" => Status(book', t) # "absent"
           /\ Status(book', t) \in {"filled", "close_requested", "closed"} => Executed(t)
           /\ t \in Active(book) =>
                \/ t \in Active(book')
                \/ /\ t = s /\ ~Live(orders["entry"][t]) /\ Exposure(t) = 0
                   /\ Status(book', t) = "cancelled" =>
                        Placed("entry", t) \/ \A i \in Of("entry", t) : ~intents[i].attempted
           /\ Status(book, t) = "pending" /\ Status(book', t) # "pending" =>
                \/ Executed(t)
                \/ t = s /\ Status(book', t) \in Released
<1>1. SUFFICES ASSUME NEW t \in Signals
      PROVE  /\ Status(book, t) # "absent" => Status(book', t) # "absent"
             /\ Status(book', t) \in {"filled", "close_requested", "closed"} => Executed(t)
             /\ t \in Active(book) =>
                  \/ t \in Active(book')
                  \/ /\ t = s /\ ~Live(orders["entry"][t]) /\ Exposure(t) = 0
                     /\ Status(book', t) = "cancelled" =>
                          Placed("entry", t) \/ \A i \in Of("entry", t) : ~intents[i].attempted
             /\ Status(book, t) = "pending" /\ Status(book', t) # "pending" =>
                  \/ Executed(t)
                  \/ t = s /\ Status(book', t) \in Released
  OBVIOUS
<1>2. Status(book, t) \in {"filled", "close_requested", "closed"} => Executed(t)
  BY DEF ExposureInv, BookOK
<1>3. CASE Kept(t) \/ Enters(t)
  BY <1>2, <1>3 DEF Kept, Enters, Active, Open
<1>4. CASE t = s /\ Status(book, s) = "pending" /\ Executed(s)
           /\ Status(book', s) \in {"filled", "close_requested"}
  BY <1>4 DEF Active, Open
<1>5. CASE \E after \in Released :
             t = s /\ Status(book, s) \in Open /\ Status(book', s) = after /\ Releasable(s, after)
  BY <1>5 DEF Released, Releasable, Open, Active
<1>6. QED BY <1>3, <1>4, <1>5 DEF Decided

\* The promise of the lifecycle in a decision.
LEMMA PromisedByDecision ==
  ASSUME ExposureInv, NEW s \in Signals, Decided(s), Exclusive(book'),
         UNCHANGED <<orders, exited>>
  PROVE  Promised
<1> DEFINE placed == {t \in Signals : orders["entry"][t] # NoOrder}
           offered == {t \in Signals : Live(orders["entry"][t])}
           held == {t \in Signals : Exposure(t) > 0}
           active == Active(book)
           settled == {t \in Signals : Status(book, t) \in Released}
<1>1. placed' = placed /\ offered' = offered /\ held' = held
  BY DEF Live, Exposure
<1>2. /\ active \subseteq Signals /\ active' \subseteq Signals
      /\ settled \subseteq Signals /\ settled' \subseteq Signals
      /\ active' = Active(book')
      /\ \A t \in Signals : /\ t \in active <=> Status(book, t) \in Open
                            /\ t \in active' <=> Status(book', t) \in Open
                            /\ t \in settled <=> Status(book, t) \in Released
                            /\ t \in settled' <=> Status(book', t) \in Released
  BY DEF Active, Status
<1>3. \A t, u \in active' : SymbolOf[t] = SymbolOf[u] => t = u
  BY <1>2 DEF Exclusive
<1>4. \A t \in Signals :
        /\ Kept(t) => (t \in active' <=> t \in active) /\ (t \in settled' <=> t \in settled)
        /\ Enters(t) => t \notin active /\ t \notin settled /\ t \in active' /\ t \notin settled'
  BY <1>2 DEF Kept, Enters, Open, Released
<1>5. \/ UNCHANGED <<active, settled>>
      \/ Ledger!Reserve(s)
      \/ Ledger!Release(s)
  <2>1. CASE \A t \in Signals : Kept(t) \/ (t = s /\ Enters(t))
    <3>1. CASE Kept(s)
      <4>1. \A t \in Signals : Kept(t)
        BY <2>1, <3>1
      <4>2. QED BY <1>2, <1>4, <4>1
    <3>2. CASE Enters(s)
      <4>1. \A t \in Signals \ {s} : Kept(t)
        BY <2>1
      <4>2. /\ active' = active \cup {s} /\ settled' = settled
            /\ s \notin active \cup settled
        BY <1>2, <1>4, <3>2, <4>1
      <4>3. \A t \in active : SymbolOf[t] # SymbolOf[s]
        BY <1>3, <4>2
      <4>4. QED BY <1>1, <4>2, <4>3 DEF Ledger!Reserve, Ledger!Vacant
    <3>3. QED BY <2>1, <3>1, <3>2
  <2>2. CASE \A t \in Signals :
               \/ Kept(t)
               \/ /\ t = s /\ Status(book, s) = "pending" /\ Executed(s)
                  /\ Status(book', s) \in {"filled", "close_requested"}
    <3>1. \A t \in Signals : (t \in active' <=> t \in active) /\ (t \in settled' <=> t \in settled)
      BY <1>2, <1>4, <2>2 DEF Open, Released
    <3>2. QED BY <1>2, <3>1
  <2>3. CASE \E after \in Released :
               /\ Status(book, s) \in Open /\ Status(book', s) = after /\ Releasable(s, after)
               /\ \A t \in Signals \ {s} : Kept(t) \/ (Enters(t) /\ SymbolOf[t] = SymbolOf[s])
    <3>1. /\ s \in active /\ s \notin active' /\ s \in settled'
          /\ s \notin offered /\ s \notin held
      BY <1>2, <2>3 DEF Open, Released, Releasable
    <3>2. \A t \in Signals \ {s} : Kept(t) \/ (Enters(t) /\ SymbolOf[t] = SymbolOf[s])
      BY <2>3
    <3>3. settled' = settled \cup {s}
      BY <1>2, <1>4, <3>1, <3>2
    <3>4. CASE \A t \in Signals \ {s} : Kept(t)
      <4>1. active' = active \ {s}
        BY <1>2, <1>4, <3>1, <3>4
      <4>2. QED BY <1>1, <3>1, <3>3, <4>1 DEF Ledger!Release
    <3>5. CASE \E t \in Signals \ {s} : ~Kept(t)
      <4>1. PICK t \in Signals \ {s} : Enters(t) /\ SymbolOf[t] = SymbolOf[s]
        BY <3>2, <3>5
      <4>2. \A u \in Signals \ {s, t} : Kept(u)
        BY <1>3, <1>4, <3>2, <4>1
      <4>3. active' = (active \ {s}) \cup {t}
        BY <1>2, <1>4, <3>1, <4>1, <4>2
      <4>4. t \in Signals \ (active \cup settled)
        BY <1>4, <4>1
      <4>5. QED BY <1>1, <3>1, <3>3, <4>1, <4>3, <4>4 DEF Ledger!Release
    <3>6. QED BY <3>4, <3>5
  <2>4. QED BY <2>1, <2>2, <2>3 DEF Decided
<1>6. QED BY <1>1, <1>5 DEF Promised, Ledger!Next, Ledger!promise

\* A decision is stored with the state it led to.
LEMMA DecisionStored ==
  ASSUME ExposureInv, NEW c, Logged(c), NEW s \in Signals, Decided(s), After, CreatesEnter,
         UNCHANGED <<course, now, funds, requested, attributed, runs, cursor, intents>>,
         UNCHANGED <<orders, exited, cancelling, stops, reported>>
  PROVE  /\ RestOK' /\ ExchangeOK' /\ LogOK' /\ TableOK' /\ EvidenceOK' /\ BookOK'
         /\ Progress /\ PendingStays /\ Promised
         /\ c \in DOMAIN log' /\ log'[c] = decision' /\ NothingSent
<1>1. /\ RestOK /\ ExchangeOK /\ LogOK /\ TableOK /\ EvidenceOK /\ BookOK /\ ExchangeOK'
  BY ExchangeStays DEF ExposureInv
<1>2. /\ DOMAIN log' = DOMAIN log \cup {c} /\ c \notin DOMAIN log
      /\ log'[c] = decision' /\ \A d \in DOMAIN log : log'[d] = log[d]
  BY DEF Logged
<1>3. \A t \in Signals :
        /\ Status(book, t) # "absent" => Status(book', t) # "absent"
        /\ Status(book', t) \in {"filled", "close_requested", "closed"} => Executed(t)
        /\ t \in Active(book) =>
             \/ t \in Active(book')
             \/ /\ t = s /\ ~Live(orders["entry"][t]) /\ Exposure(t) = 0
                /\ Status(book', t) = "cancelled" =>
                     Placed("entry", t) \/ \A i \in Of("entry", t) : ~intents[i].attempted
        /\ Status(book, t) = "pending" /\ Status(book', t) # "pending" =>
             \/ Executed(t)
             \/ t = s /\ Status(book', t) \in Released
  BY DecidedFacts
<1>4. RestOK'
  <2>1. Inv'
    BY <1>1 DEF RestOK, Inv, After, Sound, Exclusive, ReversalLive, Flat, Capped, Active, Status
  <2>2. QED BY <1>1, <2>1 DEF RestOK, Arrivals
<1>5. LogOK'
  <2>1. \A d \in DOMAIN log' : log'[d] \in Decisions
    BY <1>1, <1>2 DEF LogOK, After
  <2>2. \A t \in Signals : Act("create", t) \in log'[c].actions =>
          Status(book, t) = "absent" /\ Status(book', t) = "pending"
    BY <1>2 DEF CreatesEnter, Enters
  <2>3. \A d \in DOMAIN log, t \in Signals : Act("create", t) \in log'[d].actions =>
          Status(book, t) # "absent"
    BY <1>1, <1>2 DEF LogOK
  <2>4. ASSUME NEW d \in DOMAIN log', NEW e \in DOMAIN log', NEW t \in Signals,
               Act("create", t) \in log'[d].actions, Act("create", t) \in log'[e].actions
        PROVE  d = e
    <3>1. CASE d = c /\ e = c
      BY <3>1
    <3>2. CASE d # c /\ e # c
      BY <1>1, <1>2, <2>4, <3>2 DEF LogOK
    <3>3. CASE (d = c /\ e # c) \/ (d # c /\ e = c)
      BY <1>2, <2>2, <2>3, <2>4, <3>3
    <3>4. QED BY <3>1, <3>2, <3>3
  <2>5. \A d \in DOMAIN log', t \in Signals :
          Act("create", t) \in log'[d].actions => Status(book', t) # "absent"
    BY <1>2, <1>3, <2>2, <2>3
  <2>6. QED BY <2>1, <2>4, <2>5 DEF LogOK, Status
<1>6. TableOK'
  <2>1. \A i \in Intents : intents[i] \in Intent
    BY <1>1, TableRows DEF TableOK
  <2>2. Intent \subseteq Intent'
    BY <1>2 DEF Intent
  <2>3. intents' \in Seq(Intent')
    <3>1. /\ Intents = 1..Len(intents) /\ Len(intents) \in Nat
          /\ intents = [i \in Intents |-> intents[i]]
      BY <1>1, TableRows, SameTable DEF TableOK
    <3>2. intents \in [1..Len(intents) -> Intent']
      BY Zenon, <2>1, <2>2, <3>1
    <3>3. QED BY <3>1, <3>2, SeqDef
  <2>4. \A i \in Intents : intents[i].command \in DOMAIN log
    BY <1>1, RowType DEF RowsTyped
  <2>5. QED BY <1>1, <1>2, <2>3, <2>4 DEF TableOK, Intents
<1>7. Progress /\ NothingSent
  <2>1. \A i \in Intents : MovesOn(intents[i], intents[i])
    BY <1>1, RowType DEF MovesOn, RowsTyped
  <2>2. \A t \in Signals :
          /\ GoesOn(orders["entry"][t], orders["entry"][t])
          /\ GoesOn(orders["close"][t], orders["close"][t])
          /\ exited[t] <= exited[t]
    BY <1>1, OrderType DEF GoesOn, OrdersTyped
  <2>3. \A t \in Signals : Placed("entry", t)' => Placed("entry", t)
    BY DEF Placed
  <2>4. QED BY <1>2, <2>1, <2>2, <2>3 DEF Progress, NothingSent, Intents
<1>8. EvidenceOK'
  <2>1. \A i \in Intents : RowOK(i)'
    BY <1>1, <1>7, RowStays DEF EvidenceOK
  <2>2. QED BY <1>1, <2>1 DEF EvidenceOK, Intents, Placed, Of
<1>9. BookOK'
  BY <1>1, <1>3 DEF BookOK, Executed, Live, Exposure, Status, Active
<1>10. PendingStays
  <2>1. SUFFICES ASSUME NEW t \in Signals, Status(book, t) = "pending",
                        Status(book', t) # "pending"
                 PROVE  Placed("entry", t)' \/ \A i \in Of("entry", t) : ~intents[i].attempted
    BY DEF PendingStays
  <2>2. Placed("entry", t)' <=> Placed("entry", t)
    BY DEF Placed
  <2>3. Executed(t) => Placed("entry", t)
    BY <1>1 DEF Executed, Placed, ExchangeOK, EntryOrderOK
  <2>4. Status(book', t) = "closed" => Executed(t)
    BY <1>3
  <2>5. t \in Active(book) /\ (Status(book', t) \in Released => t \notin Active(book'))
    BY <2>1 DEF Active, Open, Released
  <2>6. QED BY <1>3, <2>1, <2>2, <2>3, <2>4, <2>5 DEF Released
<1>11. Promised
  BY PromisedByDecision DEF After, Sound
<1>12. QED BY <1>1, <1>2, <1>4, <1>5, <1>6, <1>7, <1>8, <1>9, <1>10, <1>11

\* A step of one process that has the ledger decide.
LEMMA DecidingStep ==
  ASSUME ExposureInv, NEW p \in Processes, NEW new, Become(p, new),
         NEW c, Logged(c), NEW s \in Signals, Decided(s), After, CreatesEnter,
         UNCHANGED <<course, now, funds, requested, attributed, runs, cursor, intents>>,
         UNCHANGED <<orders, exited, cancelling, stops, reported>>,
         (job'[p] = new /\ Progress /\ ExchangeOK' /\ TableOK' /\ EvidenceOK' /\ NothingSent
            /\ c \in DOMAIN log' /\ log'[c] = decision') => new \in Job' /\ JobOK(p)'
  PROVE  Advances
<1>1. /\ RestOK' /\ ExchangeOK' /\ LogOK' /\ TableOK' /\ EvidenceOK' /\ BookOK'
      /\ Progress /\ PendingStays /\ Promised
      /\ c \in DOMAIN log' /\ log'[c] = decision' /\ NothingSent
  BY DecisionStored
<1>2. JobsOK'
  <2>1. /\ job'[p] = new
        /\ OthersWait(p) /\ job' = [q \in Processes |-> job'[q]]
    <3>1. /\ job'[p] = new
          /\ \A q \in Processes \ {p} : job'[q] = job[q]
          /\ job' = [q \in Processes |-> job'[q]]
      BY Moving
    <3>2. QED BY <3>1 DEF OthersWait
  <2>2. QED BY <1>1, <2>1, OthersStay
<1>3. QED BY <1>1, <1>2 DEF ExposureInv, Advances

-------------------------------------------------------------------------------
(* _sync_risk: the state of a row is handed to the ledger. *)

\* The decision about a row that was handed over is planned next.
LEMMA PlanNextOK ==
  ASSUME ExposureInv, ExchangeOK', TableOK', Progress, NothingSent, UNCHANGED <<cursor, course>>,
         NEW p \in {"monitor", "operator"}, job[p].pc # "idle", HandOK(p),
         NEW c \in DOMAIN log', job'[p] = [job[p] EXCEPT !.pc = "plan", !.command = c]
  PROVE  job'[p] \in Job' /\ JobOK(p)'
<1>1. /\ p \in Processes /\ ExchangeOK /\ TableOK
      /\ job[p] \in Job /\ JobOK(p) /\ job[p].todo # <<>>
  BY Zenon DEF ExposureInv, JobsOK, JobOK, PlaceOK, Processes
<1>2. PICK x \in Intents : x = Item(p)
  BY <1>1, AtWork DEF HandOK, Tokens
<1>3. PICK view \in States : view = job[p].view
  BY DEF HandOK
<1>4. /\ job'[p].pc = "plan" /\ job'[p].todo = job[p].todo /\ job'[p].view = view
      /\ job'[p].command = c
  BY <1>1, <1>3 DEF Job
<1>5. job'[p] \in Job'
  <2>1. \A j \in Job : [j EXCEPT !.pc = "plan", !.command = c] \in Job'
    BY Zenon DEF Job
  <2>2. QED BY Zenon, <1>1, <2>1
<1>6. HandOK(p)'
  <2>1. /\ Claim(x, view) /\ intents[x].state # "planned"
    BY <1>2, <1>3 DEF HandOK
  <2>2. Claim(x, view)'
    <3>1. intents'[x].attempted = intents[x].attempted \/ intents[x].state # "planned"
      BY <2>1
    <3>2. QED BY <1>1, <2>1, <3>1, ClaimStays
  <2>3. intents'[x].state # "planned"
    BY <2>1 DEF Progress, MovesOn
  <2>4. PICK name : name = Head(job[p].todo).name
    OBVIOUS
  <2>5. /\ name \in {"reconcile", "settle", "inspect", "flat", "confirm"}
        /\ name = "confirm" => view = "close_confirmed"
        /\ name = "flat" => view = "position_closed_pending"
        /\ name = "inspect" => view \in {"filled", "position_closed_pending"}
    BY <1>3, <2>4 DEF HandOK
  <2>6. QED BY Zenon, <1>2, <1>4, <2>2, <2>3, <2>4, <2>5, HandOver
<1>7. PlanOK(p)'
  BY <1>4, <1>6 DEF PlanOK
<1>8. PlaceOK(p)'
  BY <1>1, <1>4, <1>7 DEF PlaceOK
<1>9. JobOK(p)'
  BY Zenon, <1>1, <1>4, <1>8, SameTaskOK
<1>10. QED BY <1>5, <1>9

\* A row has been dealt with: on with the next task, or out with the error.
LEMMA DoneStep ==
  ASSUME ExposureInv, NEW p \in {"monitor", "operator"}, p # "operator" => job["operator"] = Idle,
         job[p].pc # "idle", HandOK(p), ItemDone(p),
         UNCHANGED <<account, book, requested, log, course, now, funds, orders, exited>>,
         decision' = decision \/ decision' = NothingDecided,
         UNCHANGED <<attributed, runs, cursor>>, ExchangeOK',
         intents' = [i \in Intents |-> intents'[i]],
         \A i \in Intents : intents'[i] = intents[i] \/ Written(i),
         \A i \in Intents : intents'[i].attempted = intents[i].attempted
  PROVE  Advances
<1>1. p \in Processes /\ JobOK(p) /\ EvidenceOK
  BY DEF Processes, ExposureInv, JobsOK
<1>2. NothingSent
  BY DEF NothingSent, Intents
<1>3. CASE Raise(p)
  <2>1. Become(p, Idle)
    BY <1>3 DEF Raise
  <2>2. QED BY <1>1, <2>1, IdleOK, WriteStep
<1>4. CASE NextTask(p)
  <2>1. Become(p, NextJob(Tail(job[p].todo)))
    BY Zenon, <1>4 DEF NextTask, Continue, NextJob
  <2>2. Head(job[p].todo).name \in {"reconcile", "settle", "inspect", "flat", "confirm"}
    BY DEF HandOK
  <2>3. Head(job[p].todo).name = "confirm" => Gone(Owned(p))
    <3>1. SUFFICES ASSUME Head(job[p].todo).name = "confirm" PROVE Gone(Owned(p))
      OBVIOUS
    <3>2. TaskOK(p, Head(job[p].todo)) /\ Head(job[p].todo).intent = Item(p)
      BY <1>1, AtWork DEF Item
    <3>3. intents[Item(p)].kind = "close_position"
      BY <3>1, <3>2 DEF TaskOK, Tokens
    <3>4. Claim(Item(p), "close_confirmed")
      BY <3>1 DEF HandOK
    <3>5. QED BY <3>3, <3>4 DEF Claim, CloseClaim, Owned
  <2>4. ASSUME job'[p] = NextJob(Tail(job[p].todo)), Progress, TableOK', EvidenceOK'
        PROVE  job'[p] \in Job' /\ JobOK(p)'
    BY <1>1, <1>2, <2>2, <2>3, <2>4, NextTaskOK
  <2>5. QED BY <1>1, <2>1, <2>4, WriteStep
<1>5. QED BY <1>3, <1>4 DEF ItemDone

\* What was handed over is decided now, or was decided before.
LEMMA HandedStep ==
  ASSUME ExposureInv, NEW p \in {"monitor", "operator"}, job[p].pc # "idle", HandOK(p),
         NEW c, PlanNext(p, c) \/ Raise(p),
         UNCHANGED <<course, now, funds, requested, attributed, runs, cursor, intents>>,
         UNCHANGED <<orders, exited, cancelling, stops, reported>>,
         NEW s \in Signals,
         \/ c \in DOMAIN log /\ UNCHANGED <<account, book, decision, log>>
         \/ Logged(c) /\ Decided(s) /\ After /\ CreatesEnter
  PROVE  Advances
<1>1. p \in Processes /\ p # "worker" /\ ExchangeOK /\ ExchangeOK'
  BY ExchangeStays DEF Processes, ExposureInv
<1>2. NothingSent
  BY DEF NothingSent, Intents
<1>3. PICK new : /\ Become(p, new)
                 /\ new = Idle \/ new = [job[p] EXCEPT !.pc = "plan", !.command = c]
  BY DEF PlanNext, Raise
<1>4. ASSUME job'[p] = new, Progress, TableOK', EvidenceOK', c \in DOMAIN log'
      PROVE  new \in Job' /\ JobOK(p)'
  <2>1. CASE new = Idle
    BY <1>1, <1>4, <2>1, IdleOK
  <2>2. CASE new = [job[p] EXCEPT !.pc = "plan", !.command = c]
    BY Zenon, <1>1, <1>2, <1>4, <2>2, PlanNextOK
  <2>3. QED BY <1>3, <2>1, <2>2
<1>5. CASE c \in DOMAIN log /\ UNCHANGED <<account, book, decision, log>>
  BY <1>1, <1>3, <1>4, <1>5, LoneStep DEF ExposureInv, RestOK
<1>6. CASE Logged(c) /\ Decided(s) /\ After /\ CreatesEnter
  BY <1>1, <1>3, <1>4, <1>6, DecidingStep
<1>7. QED BY <1>5, <1>6

\* What is filled was executed, what has ended can be released, and so can what was exited.
LEMMA HandedFacts ==
  ASSUME ExposureInv, NEW i \in Intents, NEW v \in States, Claim(i, v), v # "planned",
         NEW s, s = intents[i].reservation
  PROVE  /\ Filled(i, v) => Executed(s)
         /\ Ended(i, v) => Releasable(s, "cancelled")
         /\ Exited(i, v) => Releasable(s, "closed")
<1>1. /\ ExchangeOK /\ TableOK /\ LogOK /\ RowsTyped /\ OrdersTyped /\ RowOK(i) /\ s \in Signals
      /\ intents[i].kind \in Kinds
  BY RowType, OrderType DEF ExposureInv, EvidenceOK, RowsTyped
<1>2. /\ orders["entry"][s].filled \in Nat /\ exited[s] \in Nat
      /\ exited[s] <= orders["entry"][s].filled /\ intents[i].filled \in Nat
      /\ intents[i].filled <= orders["entry"][s].filled
      /\ orders["entry"][s].status = "none" => orders["entry"][s].filled = 0
  BY <1>1 DEF OrdersTyped, RowsTyped, ExchangeOK, RowOK, EntryOrderOK, NoOrder
<1>3. Gone(s) => Executed(s) /\ Releasable(s, "closed") /\ Releasable(s, "cancelled")
  BY <1>2 DEF Gone, Spent, Executed, Releasable, Live, Over, Exposure, Placed
<1>4. Never(s) => Releasable(s, "cancelled")
  <2>1. CASE Withdrawn(s, "cancelled") \/ Withdrawn(s, "rejected")
    BY <1>2, <2>1 DEF Withdrawn, Releasable, Live, Exposure, Placed
  <2>2. CASE Unplaced(s)
    <3>1. PICK j \in Of("entry", s) : ~intents[j].attempted
      BY <2>2 DEF Unplaced
    <3>2. \A k \in Of("entry", s) : ~intents[k].attempted
      BY <1>1, <3>1, EntryOnce
    <3>3. QED BY <1>2, <2>2, <3>2 DEF Unplaced, Releasable, Live, Exposure, Placed
  <2>3. QED BY <2>1, <2>2 DEF Never
<1>5. CASE intents[i].kind = "entry"
  <2>1. EntryClaim(s, v)
    BY <1>5 DEF Claim
  <2>2. Filled(i, v) => Executed(s)
    <3>1. intents[i].filled # 0 => Executed(s)
      BY <1>2 DEF Executed
    <3>2. QED BY <1>3, <2>1, <3>1 DEF Filled, EntryClaim, Spent
  <2>3. QED BY <1>3, <1>4, <1>5, <2>1, <2>2 DEF Ended, Exited, EntryClaim, Never
<1>6. CASE intents[i].kind = "cancel_entry"
  <2>1. CancelClaim(s, v) /\ intents[i].filled = 0
    BY <1>1, <1>6 DEF Claim, RowOK
  <2>2. QED BY <1>3, <1>4, <1>6, <2>1 DEF Filled, Ended, Exited, CancelClaim
<1>7. CASE intents[i].kind = "close_position"
  <2>1. CloseClaim(s, v, intents[i].attempted)
    BY <1>7 DEF Claim
  <2>2. QED BY <1>3, <1>7, <2>1 DEF Filled, Ended, Exited, IsEntryKind, CloseClaim
<1>8. QED BY <1>1, <1>5, <1>6, <1>7 DEF Kinds

\* The decision about what was handed over.
LEMMA HandedDecisions ==
  ASSUME ExposureInv, NEW s \in Signals
  PROVE  /\ ConfirmPendingFill(now, funds, s) /\ Executed(s) => Decided(s) /\ After /\ CreatesEnter
         /\ CancelPendingReservation(now, funds, s) /\ Releasable(s, "cancelled") =>
              Decided(s) /\ After /\ CreatesEnter
         /\ ConfirmPositionClosed(now, funds, s) /\ Releasable(s, "closed") =>
              Decided(s) /\ After /\ CreatesEnter
<1>1. Inv /\ now \in Times /\ funds \in Equities /\ funds \in Equities \cup {NoMark}
  BY DEF ExposureInv, RestOK
<1>2. ASSUME ConfirmPendingFill(now, funds, s), Executed(s)
      PROVE  Decided(s) /\ After /\ CreatesEnter
  <2>1. CreatesEnter /\ After
    BY <1>1, <1>2, ConfirmFillMoves, ConfirmFillStep
  <2>2. \A t \in Signals :
          \/ Kept(t)
          \/ /\ t = s /\ Status(book, s) = "pending"
             /\ Status(book', s) \in {"filled", "close_requested"}
    BY <1>1, <1>2, ConfirmFillMoves
  <2>3. QED BY <1>2, <2>1, <2>2 DEF Decided
<1>3. ASSUME NEW before \in SUBSET Open, NEW after \in Released, Releases(s, before, after),
             Releasable(s, after)
      PROVE  Decided(s) /\ CreatesEnter
  <2>1. CASE \A t \in Signals : Kept(t)
    BY <1>3, <2>1 DEF Decided, Releases
  <2>2. CASE Status(book, s) \in before /\ Status(book', s) = after
    BY <1>3, <2>2 DEF Decided, Releases
  <2>3. QED BY <1>3, <2>1, <2>2 DEF Releases
<1>4. ASSUME CancelPendingReservation(now, funds, s), Releasable(s, "cancelled")
      PROVE  Decided(s) /\ After /\ CreatesEnter
  <2>1. Releases(s, {"pending"}, "cancelled") /\ After
    BY <1>1, <1>4, CancelMoves, CancelStep
  <2>2. {"pending"} \in SUBSET Open /\ "cancelled" \in Released
    BY DEF Open, Released
  <2>3. QED BY <1>3, <1>4, <2>1, <2>2
<1>5. ASSUME ConfirmPositionClosed(now, funds, s), Releasable(s, "closed")
      PROVE  Decided(s) /\ After /\ CreatesEnter
  <2>1. Releases(s, {"filled", "close_requested"}, "closed") /\ After
    BY <1>1, <1>5, ClosedMoves, ClosedStep
  <2>2. {"filled", "close_requested"} \in SUBSET Open /\ "closed" \in Released
    BY DEF Open, Released
  <2>3. QED BY <1>3, <1>5, <2>1, <2>2
<1>6. QED BY <1>2, <1>4, <1>5

\* Handing a row's state to the ledger (Synchronize) keeps the invariant and the promise.
LEMMA SynchronizeMoves ==
  ASSUME ExposureInv, NEW p \in {"monitor", "operator"}, p # "operator" => job["operator"] = Idle,
         Synchronize(p)
  PROVE  Advances
<1>1. /\ job[p].pc = "sync" /\ job[p].pc # "idle" /\ p \in Processes
      /\ UNCHANGED <<course, now, funds, attributed, cursor, runs>>
      /\ UNCHANGED <<orders, exited, cancelling, stops, reported>>
      /\ TableOK /\ EvidenceOK /\ ExchangeOK'
  BY ExchangeStays DEF Synchronize, At, Processes, Clocks, exchangeVars, ExposureInv
<1>2. JobOK(p) /\ HandOK(p)
  BY Zenon, <1>1 DEF ExposureInv, JobsOK, JobOK, PlaceOK
<1>3. PICK i \in Intents : i = Item(p)
  BY <1>1, <1>2, AtWork DEF HandOK, Tokens
<1>4. PICK s \in Signals : s = intents[i].reservation /\ s = Owned(p)
  BY <1>1, <1>3, RowType DEF RowsTyped, Owned
<1>5. PICK v \in States : v = job[p].view
  BY <1>2 DEF HandOK
<1>6. /\ Filled(i, v) => Executed(s)
      /\ Ended(i, v) => Releasable(s, "cancelled")
      /\ Exited(i, v) => Releasable(s, "closed")
  <2>1. Claim(i, v)
    BY <1>2, <1>3, <1>5 DEF HandOK
  <2>2. CASE v # "planned"
    BY Zenon, <1>4, <2>1, <2>2, HandedFacts
  <2>3. CASE v = "planned"
    BY <2>3 DEF Filled, Ended, Exited
  <2>4. QED BY <2>2, <2>3
<1>7. intents = [k \in Intents |-> intents[k]]
  BY <1>1, SameTable
<1>8. ASSUME NEW c,
             \/ ConfirmPendingFill(now, funds, s) /\ Executed(s)
             \/ CancelPendingReservation(now, funds, s) /\ Releasable(s, "cancelled")
             \/ ConfirmPositionClosed(now, funds, s) /\ Releasable(s, "closed"),
             Logged(c), UNCHANGED requested, UNCHANGED intents, PlanNext(p, c) \/ Raise(p)
      PROVE  Advances
  <2>1. Decided(s) /\ After /\ CreatesEnter
    BY <1>8, HandedDecisions
  <2>2. QED BY <1>1, <1>2, <1>8, <2>1, HandedStep
<1>9. ASSUME NEW c \in DOMAIN log, PlanNext(p, c) \/ Raise(p), UNCHANGED <<riskVars, log, intents>>
      PROVE  Advances
  <2>1. UNCHANGED <<account, book, decision, requested, log, intents>>
    BY <1>9 DEF riskVars
  <2>2. QED BY <1>1, <1>2, <1>4, <1>9, <2>1, HandedStep
<1>10. ASSUME Filled(i, v), Submitted(p, FillOf(i), ConfirmPendingFill(now, funds, s)),
              UNCHANGED intents
       PROVE  Advances
  <2>1. CASE FillOf(i) \in DOMAIN log
    BY <1>9, <1>10, <2>1 DEF Submitted, Execute
  <2>2. CASE FillOf(i) \notin DOMAIN log
    <3>1. ConfirmPendingFill(now, funds, s) /\ Logged(FillOf(i)) /\ UNCHANGED requested
      BY <1>10, <2>2 DEF Submitted, Execute, Logged
    <3>2. PlanNext(p, FillOf(i)) \/ Raise(p)
      BY <1>10 DEF Submitted
    <3>3. QED BY <1>6, <1>8, <1>10, <3>1, <3>2
  <2>3. QED BY <2>1, <2>2
<1>11. ASSUME Ended(i, v), Submitted(p, CancelOf(i), CancelPendingReservation(now, funds, s)),
              UNCHANGED intents
       PROVE  Advances
  <2>1. CASE CancelOf(i) \in DOMAIN log
    BY <1>9, <1>11, <2>1 DEF Submitted, Execute
  <2>2. CASE CancelOf(i) \notin DOMAIN log
    <3>1. CancelPendingReservation(now, funds, s) /\ Logged(CancelOf(i)) /\ UNCHANGED requested
      BY <1>11, <2>2 DEF Submitted, Execute, Logged
    <3>2. PlanNext(p, CancelOf(i)) \/ Raise(p)
      BY <1>11 DEF Submitted
    <3>3. QED BY <1>6, <1>8, <1>11, <3>1, <3>2
  <2>3. QED BY <2>1, <2>2
<1>12. ASSUME NEW c, Exited(i, v), Submitted(p, c, ConfirmPositionClosed(now, funds, s)),
              UNCHANGED intents
       PROVE  Advances
  <2>1. CASE c \in DOMAIN log
    BY <1>9, <1>12, <2>1 DEF Submitted, Execute
  <2>2. CASE c \notin DOMAIN log
    <3>1. ConfirmPositionClosed(now, funds, s) /\ Logged(c) /\ UNCHANGED requested
      BY <1>12, <2>2 DEF Submitted, Execute, Logged
    <3>2. PlanNext(p, c) \/ Raise(p)
      BY <1>12 DEF Submitted
    <3>3. QED BY <1>6, <1>8, <1>12, <3>1, <3>2
  <2>3. QED BY <2>1, <2>2
<1>13. ASSUME ItemDone(p), UNCHANGED <<riskVars, log>>,
              \/ UNCHANGED intents
              \/ intents' = [intents EXCEPT ![i].synced = TRUE]
       PROVE  Advances
  <2>1. UNCHANGED <<account, book, decision, requested, log>>
    BY <1>13 DEF riskVars
  <2>2. CASE UNCHANGED intents
    BY <1>1, <1>2, <1>7, <1>13, <2>1, <2>2, DoneStep
  <2>3. CASE intents' = [intents EXCEPT ![i].synced = TRUE]
    <3>1. /\ intents' = [k \in Intents |-> intents'[k]]
          /\ intents'[i] = [intents[i] EXCEPT !.synced = TRUE]
          /\ \A k \in Intents \ {i} : intents'[k] = intents[k]
      BY Zenon, <1>7, <2>3
    <3>2. intents'[i].attempted = intents[i].attempted
      BY <1>1, <3>1, RowType DEF RowsTyped, Intent
    <3>3. Written(i)
      BY Zenon, <1>1, <3>1, OnlySyncWritten
    <3>4. QED BY Zenon, <1>1, <1>2, <1>13, <2>1, <3>1, <3>2, <3>3, DoneStep
  <2>4. QED BY <1>13, <2>2, <2>3
<1>14. ASSUME Raise(p), UNCHANGED <<riskVars, log, intents>>
       PROVE  Advances
  BY <1>1, <1>14, RaiseStep DEF riskVars
<1>15. CASE /\ Filled(i, v) /\ Status(book, s) \in {"filled", "close_requested"}
            /\ IF FillOf(i) \in DOMAIN log THEN PlanNext(p, FillOf(i)) ELSE ItemDone(p)
            /\ UNCHANGED <<riskVars, log, intents>>
  BY <1>9, <1>13, <1>15
<1>16. QED BY <1>3, <1>4, <1>5, <1>10, <1>11, <1>12, <1>13, <1>14, <1>15 DEF Synchronize

-------------------------------------------------------------------------------
(* Lists of tasks. *)

\* Two lists of tasks, one behind the other.
LEMMA TodoJoined ==
  ASSUME NEW p, NEW a \in Seq(TaskType), NEW b \in Seq(TaskType),
         NEW K, K = Range(a) \cup Range(b),
         \A t \in K : TaskOK(p, t),
         \A t \in K : t.name \in {"depend", "confirm"} =>
           Sent(t) \/ (a # <<>> /\ Head(a) = Task("submit", t.intent)),
         p = "operator" => \A t, u \in K :
           /\ intents[t.intent].reservation = intents[u.intent].reservation
           /\ t.name \in {"drop", "inspect"} => u.name # "submit"
  PROVE  TodoOK(p, a \o b)
<1>1. a \o b \in Seq(TaskType) /\ Range(a \o b) \subseteq K
  BY RangeConcat
<1>2. a # <<>> => Head(a \o b) = Head(a)
  BY ConcatProperties, HeadTail, LenProperties, EmptySeq
<1>3. QED BY <1>1, <1>2 DEF TodoOK

\* What is put before the worker's tasks does not count.
LEMMA CountedJoined ==
  ASSUME NEW a \in Seq(TaskType), NEW b \in Seq(TaskType), b # <<>>, Counted(b),
         \A t \in Range(a) : t.name \notin {"place", "advance", "signals"}
  PROVE  Counted(a \o b)
<1>1. /\ Len(a) \in Nat /\ Len(b) \in Nat /\ Len(b) # 0
      /\ DOMAIN a = 1..Len(a) /\ DOMAIN b = 1..Len(b)
  BY LenProperties, EmptySeq
<1>2. /\ Len(a \o b) = Len(a) + Len(b) /\ DOMAIN (a \o b) = 1..(Len(a) + Len(b))
      /\ \A k \in 1..(Len(a) + Len(b)) :
           (a \o b)[k] = IF k <= Len(a) THEN a[k] ELSE b[k - Len(a)]
  BY ConcatProperties, LenProperties
<1>3. PICK todo : todo = a \o b
  BY Zenon
<1>4. ASSUME NEW k \in DOMAIN todo
      PROVE  /\ todo[k].name \in {"place", "advance"} =>
                  k = Len(todo) - 1 /\ cursor < Len(Arrivals)
             /\ todo[k].name = "signals" <=> k = Len(todo)
  <2>1. k \in Nat /\ k \in 1..(Len(a) + Len(b)) /\ Len(todo) = Len(a) + Len(b)
    BY <1>1, <1>2, <1>3
  <2>2. CASE k <= Len(a)
    <3>1. todo[k] = a[k] /\ a[k] \in Range(a) /\ k # Len(todo)
      BY <1>1, <1>2, <1>3, <2>1, <2>2 DEF Range
    <3>2. QED BY <3>1
  <2>3. CASE ~(k <= Len(a))
    <3>1. todo[k] = b[k - Len(a)] /\ k - Len(a) \in DOMAIN b
      BY <1>1, <1>2, <1>3, <2>1, <2>3
    <3>2. /\ b[k - Len(a)].name \in {"place", "advance"} =>
               k - Len(a) = Len(b) - 1 /\ cursor < Len(Arrivals)
          /\ b[k - Len(a)].name = "signals" <=> k - Len(a) = Len(b)
      BY <3>1 DEF Counted
    <3>3. QED BY <1>1, <2>1, <3>1, <3>2
  <2>4. QED BY <2>2, <2>3
<1>5. QED BY <1>3, <1>4 DEF Counted

\* What is put before the operator's tasks neither orders nor finishes.
LEMMA InTurnJoined ==
  ASSUME NEW a \in Seq(TaskType), NEW b \in Seq(TaskType), InTurn(b),
         b # <<>> => Head(b).name \notin {"order", "finish"},
         \A t \in Range(a) : t.name \notin {"order", "finish"}
  PROVE  InTurn(a \o b)
<1>1. /\ Len(a) \in Nat /\ Len(b) \in Nat
      /\ DOMAIN a = 1..Len(a) /\ DOMAIN b = 1..Len(b)
  BY LenProperties
<1>2. /\ DOMAIN (a \o b) = 1..(Len(a) + Len(b))
      /\ \A k \in 1..(Len(a) + Len(b)) :
           (a \o b)[k] = IF k <= Len(a) THEN a[k] ELSE b[k - Len(a)]
  BY ConcatProperties, LenProperties
<1>3. PICK todo : todo = a \o b
  BY Zenon
<1>4. ASSUME NEW k \in DOMAIN todo, k > 1
      PROVE  /\ todo[k].name = "order" => todo[k - 1] = Task("request", todo[k].intent)
             /\ todo[k].name = "finish" => todo[k - 1].name = "confirm"
  <2>1. k \in Nat /\ k \in 1..(Len(a) + Len(b)) /\ k - 1 \in 1..(Len(a) + Len(b))
    BY <1>1, <1>2, <1>3, <1>4
  <2>2. CASE k <= Len(a)
    <3>1. todo[k] = a[k] /\ a[k] \in Range(a)
      BY <1>1, <1>2, <1>3, <2>1, <2>2 DEF Range
    <3>2. QED BY <3>1
  <2>3. CASE k - Len(a) = 1
    <3>1. todo[k] = b[1] /\ 1 \in DOMAIN b
      BY <1>1, <1>2, <1>3, <2>1, <2>3
    <3>2. b # <<>> /\ Head(b) = b[1]
      BY <3>1, EmptySeq, HeadTail
    <3>3. QED BY <3>1, <3>2
  <2>4. CASE k - Len(a) > 1
    <3>1. /\ todo[k] = b[k - Len(a)] /\ k - Len(a) \in DOMAIN b
          /\ todo[k - 1] = b[(k - Len(a)) - 1]
      BY <1>1, <1>2, <1>3, <2>1, <2>4
    <3>2. QED BY <2>4, <3>1 DEF InTurn
  <2>5. QED BY <1>1, <2>1, <2>2, <2>3, <2>4
<1>5. QED BY Zenon, <1>3, <1>4 DEF InTurn

\* Some rows of the table become the tasks of a name.
LEMMA TasksSelected ==
  ASSUME TableOK, NEW rows \in SUBSET Intents, NEW name,
         name \in {"reconcile", "expire", "settle", "retry", "submit", "drop"}
  PROVE  /\ Tasks(name, Selected(rows)) \in Seq(TaskType)
         /\ \A t \in Range(Tasks(name, Selected(rows))) : \E i \in rows : t = Task(name, i)
<1>1. Selected(rows) \in Seq(rows) /\ Range(Selected(rows)) \subseteq rows
  BY SelectedRows DEF TableOK
<1>2. \A i \in rows : Task(name, i) \in TaskType
  <2>1. \A i \in rows : i \in Nat
    BY TableRows DEF TableOK
  <2>2. QED BY <2>1 DEF Task, TaskType
<1>3. PICK list \in Seq(rows) : list = Selected(rows) /\ Range(list) \subseteq rows
  BY <1>1
<1>4. /\ Tasks(name, list) \in Seq(TaskType)
      /\ \A t \in Range(Tasks(name, list)) : \E x \in Range(list) : t = Task(name, x)
  BY <1>2, TasksOf
<1>5. QED BY <1>3, <1>4

\* A process goes on with a list of tasks that is in order; nothing else happens.
LEMMA TasksStep ==
  ASSUME ExposureInv, NEW p \in Processes, NEW todo, Continue(p, todo),
         UNCHANGED <<account, book, requested, log, course, now, funds, intents>>,
         UNCHANGED <<orders, exited>>, ExchangeOK',
         decision' = decision \/ decision' = NothingDecided,
         attributed' \subseteq Signals, runs' \subseteq Signals, cursor' = cursor,
         TodoOK(p, todo), p = "worker" => Counted(todo), p = "operator" => InTurn(todo),
         todo # <<>> /\ Head(todo).name = "finish" =>
           Gone(intents[Head(todo).intent].reservation),
         todo # <<>> /\ Head(todo).name = "order" =>
           OperatorCloseOf(Head(todo).intent) \in DOMAIN log
  PROVE  Advances
<1>1. Become(p, NextJob(todo))
  BY DEF Continue, NextJob
<1>2. UNCHANGED <<orders, exited>>
  OBVIOUS
<1>3. ExchangeOK /\ ExchangeOK' /\ TableOK /\ cursor' \in 0..Len(Arrivals)
  BY DEF ExposureInv, RestOK
<1>4. NothingSent
  BY DEF NothingSent, Intents
<1>5. ASSUME job'[p] = NextJob(todo), Progress, TableOK', EvidenceOK'
      PROVE  NextJob(todo) \in Job' /\ JobOK(p)'
  <2>1. TodoOK(p, todo)'
    BY <1>3, <1>4, <1>5, TodoStays
  <2>2. p = "worker" => Counted(todo)'
    BY DEF Counted, Arrivals
  <2>3. p = "operator" => InTurn(todo)'
    BY DEF InTurn
  <2>4. todo # <<>> /\ Head(todo).name = "finish" =>
          Gone(intents[Head(todo).intent].reservation)'
    BY <1>2 DEF Gone, Spent, Executed
  <2>5. todo # <<>> /\ Head(todo).name = "order" =>
          OperatorCloseOf(Head(todo).intent) \in DOMAIN log'
    OBVIOUS
  <2>6. job'[p] \in Job' /\ JobOK(p)'
    BY <1>5, <2>1, <2>2, <2>3, <2>4, <2>5, NextJobOK
  <2>7. QED BY <1>5, <2>6
<1>6. QED BY <1>1, <1>2, <1>3, <1>5, LoneStep

\* A process goes on with new tasks before the ones it has.
LEMMA NewTasksStep ==
  ASSUME ExposureInv, NEW p \in Processes, NEW a \in Seq(TaskType), NEW b \in Seq(TaskType),
         Continue(p, a \o b),
         UNCHANGED <<account, book, requested, log, course, now, funds, intents>>,
         UNCHANGED <<orders, exited>>, ExchangeOK',
         decision' = decision \/ decision' = NothingDecided,
         attributed' \subseteq Signals, runs' \subseteq Signals, cursor' = cursor,
         p # "operator",
         \A t \in Range(a) \cup Range(b) :
           /\ TaskOK(p, t)
           /\ t.name \in {"depend", "confirm"} =>
                Sent(t) \/ (a # <<>> /\ Head(a) = Task("submit", t.intent)),
         p = "worker" =>
           /\ b # <<>> /\ Counted(b)
           /\ \A t \in Range(a) : t.name \notin {"place", "advance", "signals"}
  PROVE  Advances
<1>1. TodoOK(p, a \o b)
  BY Zenon, TodoJoined
<1>2. p = "worker" => Counted(a \o b)
  BY CountedJoined
<1>3. PICK todo : todo = a \o b
  BY Zenon
<1>4. todo # <<>> => Head(todo).name \notin {"finish", "order"}
  <2>1. todo # <<>> => TaskOK(p, Head(todo))
    BY Zenon, <1>1, <1>3, TodoHead
  <2>2. QED BY <2>1 DEF TaskOK, Names, Processes
<1>5. QED BY Zenon, <1>1, <1>2, <1>3, <1>4, TasksStep

-------------------------------------------------------------------------------
(* The monitor. *)

\* A process that is asked to do a task is at it.
LEMMA AtTask ==
  ASSUME ExposureInv, NEW p \in Processes, NEW names, Doing(p, names)
  PROVE  /\ job[p].pc = "next" /\ job[p].pc # "idle" /\ job[p].todo # <<>>
         /\ JobOK(p) /\ PlaceOK(p) /\ TodoOK(p, job[p].todo) /\ job[p].todo \in Seq(TaskType)
         /\ Head(job[p].todo).name \in names /\ TaskOK(p, Head(job[p].todo))
         /\ Head(job[p].todo) = Task(Head(job[p].todo).name, Item(p))
         /\ Head(job[p].todo).name \notin Tokens => Item(p) \in Intents
         /\ job[p] = [Idle EXCEPT !.pc = "next", !.todo = job[p].todo]
<1>1. job[p].pc = "next" /\ Head(job[p].todo).name \in names
  BY DEF Doing, At
<1>2. JobOK(p) /\ PlaceOK(p)
  BY DEF ExposureInv, JobsOK, JobOK
<1>3. TodoOK(p, job[p].todo) /\ job[p].todo \in Seq(TaskType)
  BY <1>2 DEF JobOK, TodoOK
<1>4. job[p] = [Idle EXCEPT !.pc = "next", !.todo = job[p].todo]
  BY <1>1, <1>2 DEF PlaceOK
<1>5. QED BY <1>1, <1>2, <1>3, <1>4, AtWork

\* What is known of a process whose next task has a given name.
LEMMA AtOneTask ==
  ASSUME ExposureInv, NEW p \in Processes, NEW name, Doing(p, {name})
  PROVE  /\ job[p].pc = "next" /\ job[p].pc # "idle" /\ job[p].todo # <<>>
         /\ JobOK(p) /\ PlaceOK(p) /\ TodoOK(p, job[p].todo) /\ job[p].todo \in Seq(TaskType)
         /\ Head(job[p].todo).name = name /\ TaskOK(p, Head(job[p].todo))
         /\ Head(job[p].todo) = Task(name, Item(p))
         /\ name \notin Tokens => Item(p) \in Intents
         /\ job[p] = [Idle EXCEPT !.pc = "next", !.todo = job[p].todo]
<1>1. PICK names : names = {name} /\ Doing(p, names)
  OBVIOUS
<1>2. Head(job[p].todo).name = name
  <2>1. Head(job[p].todo).name \in names
    BY Zenon, <1>1, AtTask
  <2>2. QED BY <1>1, <2>1
<1>3. QED BY Zenon, <1>1, <1>2, AtTask

\* What stays of a list of tasks whose first one is replaced.
LEMMA TailFacts ==
  ASSUME NEW p, NEW todo, TodoOK(p, todo), todo # <<>>
  PROVE  /\ Tail(todo) \in Seq(TaskType)
         /\ \A t \in Range(Tail(todo)) :
              /\ TaskOK(p, t)
              /\ t.name \in {"depend", "confirm"} =>
                   Sent(t) \/ (Head(todo).name = "submit" /\ Head(todo).intent = t.intent)
<1>1. Range(Tail(todo)) \subseteq Range(todo) /\ Tail(todo) \in Seq(TaskType)
  BY TodoHead
<1>2. \A t \in Range(todo) :
        Head(todo) = Task("submit", t.intent) =>
          Head(todo).name = "submit" /\ Head(todo).intent = t.intent
  BY DEF Task
<1>3. QED BY <1>1, <1>2 DEF TodoOK

\* A list that is made of the tasks of some rows.
LEMMA EachTask ==
  ASSUME NEW p, NEW list, NEW rows, NEW name,
         \A t \in Range(list) : \E i \in rows : t = Task(name, i),
         \A i \in rows : TaskOK(p, Task(name, i))
  PROVE  \A t \in Range(list) : TaskOK(p, t) /\ t.name = name
<1>1. SUFFICES ASSUME NEW t \in Range(list) PROVE TaskOK(p, t) /\ t.name = name
  OBVIOUS
<1>2. PICK i \in rows : t = Task(name, i)
  OBVIOUS
<1>3. QED BY <1>2 DEF Task

\* A cycle begins with the rows to inspect.
LEMMA MonitorBeginsMoves ==
  ASSUME ExposureInv, MonitorBegins
  PROVE  Advances
<1>1. PICK p : p = "monitor"
  OBVIOUS
<1>2. PICK rows \in SUBSET Intents :
         /\ Monitorable = Selected(rows) /\ \A i \in rows : intents[i].state # "planned"
  <2>1. PICK rows : rows = {i \in Intents :
           \/ intents[i].state \in {"acknowledged", "working", "filled", "protection_verified",
                                    "position_closed_pending", "reconciliation_required"}
           \/ /\ ~intents[i].synced
              /\ \/ intents[i].state = "close_confirmed"
                 \/ /\ intents[i].state \in {"cancelled", "rejected"}
                    /\ intents[i].kind \in {"entry", "cancel_entry"}}
    BY Zenon
  <2>2. Monitorable = Selected(rows)
    BY <2>1 DEF Monitorable
  <2>3. rows \in SUBSET Intents /\ \A i \in rows : intents[i].state # "planned"
    BY <2>1
  <2>4. QED BY <2>2, <2>3
<1>3. TableOK /\ p \in Processes /\ p # "worker" /\ p # "operator"
  BY <1>1 DEF ExposureInv, Processes
<1>4. PICK a \in Seq(TaskType) :
         /\ a = Tasks("reconcile", Monitorable)
         /\ \A t \in Range(a) : \E i \in rows : t = Task("reconcile", i)
  BY <1>2, <1>3, TasksSelected
<1>5. PICK b \in Seq(TaskType) : b = <<Task("sweep", NoIntent)>> /\ Range(b) = {Task("sweep", NoIntent)}
  <2>1. Task("sweep", NoIntent) \in TaskType
    BY DEF Task, TaskType, NoIntent
  <2>2. QED BY Zenon, <2>1, ShortSeqs
<1>6. \A t \in Range(a) \cup Range(b) : TaskOK(p, t) /\ t.name \notin {"depend", "confirm"}
  <2>1. \A i \in rows : TaskOK(p, Task("reconcile", i))
    <3>1. \A i \in rows : i \in Intents /\ i \in Nat
      BY <1>3, TableRows DEF TableOK
    <3>2. QED BY <1>1, <1>2, <3>1 DEF TaskOK, Task, TaskType, Names, EntryTasks, Tokens
  <2>2. TaskOK(p, Task("sweep", NoIntent))
    BY <1>1 DEF TaskOK, Task, TaskType, Names, EntryTasks, Tokens, NoIntent
  <2>3. QED BY <1>4, <1>5, <2>1, <2>2 DEF Task
<1>7. Continue(p, a \o b)
  BY <1>1, <1>4, <1>5 DEF MonitorBegins
<1>8. UNCHANGED <<account, book, requested, log, course, now, funds, intents, decision>>
      /\ UNCHANGED <<orders, exited, cancelling, stops, reported>>
      /\ UNCHANGED <<attributed, runs, cursor>>
  BY DEF MonitorBegins, Ledgers, riskVars, Clocks, exchangeVars
<1>9. ExchangeOK'
  BY <1>8, ExchangeStays DEF ExposureInv
<1>10. attributed \subseteq Signals /\ runs \subseteq Signals
  BY DEF ExposureInv, RestOK
<1>11. QED BY <1>3, <1>6, <1>7, <1>8, <1>9, <1>10, NewTasksStep

\* The overdue entries are cancelled and then handed over.
LEMMA MonitorSweepsMoves ==
  ASSUME ExposureInv, MonitorSweeps
  PROVE  Advances
<1>1. PICK p \in Processes : p = "monitor"
  BY DEF Processes
<1>2. /\ job[p].todo # <<>> /\ TodoOK(p, job[p].todo) /\ TableOK
      /\ Head(job[p].todo).name = "sweep"
  <2>1. Doing(p, {"sweep"})
    BY <1>1 DEF MonitorSweeps
  <2>2. QED BY Zenon, <2>1, AtOneTask DEF ExposureInv
<1>3. PICK rows \in SUBSET Intents :
         /\ Expirable = Selected(rows)
         /\ \A i \in rows : intents[i].state # "planned" /\ intents[i].kind = "entry"
  <2>1. PICK rows : rows = {i \in Intents : /\ intents[i].kind = "entry"
                                            /\ intents[i].state \in {"acknowledged", "working"}
                                            /\ Overdue(i)}
    BY Zenon
  <2>2. Expirable = Selected(rows)
    BY <2>1 DEF Expirable
  <2>3. rows \in SUBSET Intents
        /\ \A i \in rows : intents[i].state # "planned" /\ intents[i].kind = "entry"
    BY <2>1
  <2>4. QED BY <2>2, <2>3
<1>4. PICK first \in Seq(TaskType) :
         /\ first = Tasks("expire", Expirable)
         /\ \A t \in Range(first) : \E i \in rows : t = Task("expire", i)
  BY <1>2, <1>3, TasksSelected
<1>5. PICK second \in Seq(TaskType) :
         /\ second = Tasks("settle", Expirable)
         /\ \A t \in Range(second) : \E i \in rows : t = Task("settle", i)
  BY <1>2, <1>3, TasksSelected
<1>6. PICK a \in Seq(TaskType) :
         a = first \o second /\ Range(a) \subseteq Range(first) \cup Range(second)
  BY Zenon, RangeConcat
<1>7. PICK b \in Seq(TaskType) :
         /\ b = Tail(job[p].todo)
         /\ \A t \in Range(b) : TaskOK(p, t)
         /\ \A t \in Range(b) : t.name \in {"depend", "confirm"} =>
              Sent(t) \/ (Head(job[p].todo).name = "submit" /\ Head(job[p].todo).intent = t.intent)
  BY Zenon, <1>2, TailFacts
<1>8. \A t \in Range(a) : TaskOK(p, t) /\ t.name \notin {"depend", "confirm"}
  <2>1. \A i \in rows : i \in Intents /\ i \in Nat
    BY <1>2, TableRows DEF TableOK
  <2>2. \A i \in rows : TaskOK(p, Task("expire", i)) /\ TaskOK(p, Task("settle", i))
    BY <1>1, <1>3, <2>1 DEF TaskOK, Task, TaskType, Names, EntryTasks, Tokens
  <2>3. \A t \in Range(first) : TaskOK(p, t) /\ t.name = "expire"
    BY <1>4, <2>2, EachTask
  <2>4. \A t \in Range(second) : TaskOK(p, t) /\ t.name = "settle"
    BY <1>5, <2>2, EachTask
  <2>5. QED BY <1>6, <2>3, <2>4
<1>9. \A t \in Range(b) : t.name \in {"depend", "confirm"} => Sent(t)
  BY <1>2, <1>7
<1>10. Continue(p, a \o b)
  BY <1>1, <1>4, <1>5, <1>6, <1>7 DEF MonitorSweeps, Instead
<1>11. UNCHANGED <<account, book, requested, log, course, now, funds, intents, decision>>
      /\ UNCHANGED <<orders, exited, cancelling, stops, reported>>
      /\ UNCHANGED <<attributed, runs, cursor>>
  BY DEF MonitorSweeps, Ledgers, riskVars, Clocks, exchangeVars
<1>12. ExchangeOK'
  BY <1>11, ExchangeStays DEF ExposureInv
<1>13. attributed \subseteq Signals /\ runs \subseteq Signals
  BY DEF ExposureInv, RestOK
<1>14. p # "worker" /\ p # "operator"
  BY <1>1
<1>15. QED BY Zenon, <1>7, <1>8, <1>9, <1>10, <1>11, <1>12, <1>13, <1>14, NewTasksStep

\* A cancellation is accepted, refused or lost.
LEMMA CancelStays ==
  ASSUME ExchangeOK, NEW s \in Signals, CancelAccepted(s) \/ CancelRefused(s) \/ CancelLost,
         UNCHANGED <<orders, exited, stops, reported>>
  PROVE  ExchangeOK'
<1>1. /\ cancelling' \subseteq {t \in Signals : Live(orders["entry"][t])}
      /\ reported' \subseteq Signals /\ stops' \in [Symbols -> Signals \cup {NoStop}]
  BY DEF CancelAccepted, CancelRefused, CancelLost, ExchangeOK, ExchangeTypeOK
<1>2. QED BY <1>1, ExchangeRests DEF ExchangeMoves

\* An overdue entry is cancelled.
LEMMA MonitorExpiresMoves ==
  ASSUME ExposureInv, MonitorExpires
  PROVE  Advances
<1>1. PICK p \in Processes : p = "monitor"
  BY DEF Processes
<1>2. /\ job[p].todo # <<>> /\ TodoOK(p, job[p].todo) /\ TableOK /\ ExchangeOK
      /\ Head(job[p].todo).name = "expire" /\ TaskOK(p, Head(job[p].todo))
      /\ Head(job[p].todo) = Task("expire", Item(p)) /\ Item(p) \in Intents
  <2>1. Doing(p, {"expire"})
    BY <1>1 DEF MonitorExpires
  <2>2. TableOK /\ ExchangeOK /\ "expire" \notin Tokens
    BY DEF ExposureInv, Tokens
  <2>3. QED BY Zenon, <2>1, <2>2, AtOneTask
<1>3. PICK i \in Intents : i = Item(p)
  BY <1>2
<1>4. PICK s \in Signals : s = intents[i].reservation /\ s = Owned(p)
  BY <1>2, <1>3, RowType DEF RowsTyped, Owned
<1>5. UNCHANGED <<account, book, requested, log, course, now, funds, intents, decision>>
      /\ UNCHANGED <<orders, exited, stops, reported>>
      /\ UNCHANGED <<attributed, runs, cursor>>
  BY DEF MonitorExpires, Ledgers, riskVars, Clocks
<1>6. ExchangeOK'
  BY <1>1, <1>2, <1>4, <1>5, CancelStays DEF MonitorExpires
<1>7. CASE Raise(p)
  BY <1>5, <1>6, <1>7, RaiseStep
<1>8. CASE Instead(p, <<Task("expired", i)>>)
  <2>1. PICK t : t = Task("expired", i)
    OBVIOUS
  <2>2. TaskOK(p, t)
    BY <1>1, <1>2, <1>3, <2>1 DEF TaskOK, Task, TaskType, Names, EntryTasks, Tokens
  <2>3. PICK a \in Seq(TaskType) : a = <<t>> /\ Range(a) = {t}
    BY Zenon, <2>2, ShortSeqs DEF TaskOK
  <2>4. PICK b \in Seq(TaskType) :
           /\ b = Tail(job[p].todo)
           /\ \A u \in Range(b) : TaskOK(p, u)
           /\ \A u \in Range(b) : u.name \in {"depend", "confirm"} =>
                Sent(u) \/ (Head(job[p].todo).name = "submit" /\ Head(job[p].todo).intent = u.intent)
    BY Zenon, <1>2, TailFacts
  <2>5. \A u \in Range(b) : u.name \in {"depend", "confirm"} => Sent(u)
    BY <1>2, <2>4
  <2>6. Continue(p, a \o b)
    BY <1>8, <2>1, <2>3, <2>4 DEF Instead
  <2>7. attributed \subseteq Signals /\ runs \subseteq Signals
    BY DEF ExposureInv, RestOK
  <2>8. p # "worker" /\ p # "operator" /\ t.name \notin {"depend", "confirm"}
    BY <1>1, <2>1 DEF Task
  <2>9. QED BY Zenon, <1>5, <1>6, <2>2, <2>3, <2>4, <2>5, <2>6, <2>7, <2>8, NewTasksStep
<1>9. QED BY <1>1, <1>3, <1>7, <1>8 DEF MonitorExpires

\* The state of an overdue entry is handed over as the cancellation left it.
LEMMA MonitorSettlesMoves ==
  ASSUME ExposureInv, MonitorSettles
  PROVE  Advances
<1>1. PICK p \in Processes : p = "monitor"
  BY DEF Processes
<1>2. /\ job[p].pc = "next" /\ job[p].pc # "idle" /\ job[p].todo # <<>> /\ JobOK(p)
      /\ Head(job[p].todo).name = "settle" /\ TaskOK(p, Head(job[p].todo))
      /\ Head(job[p].todo) = Task("settle", Item(p)) /\ Item(p) \in Intents
  <2>1. Doing(p, {"settle"})
    BY <1>1 DEF MonitorSettles
  <2>2. "settle" \notin Tokens
    BY DEF Tokens
  <2>3. QED BY Zenon, <2>1, <2>2, AtOneTask
<1>3. PICK i \in Intents : i = Item(p)
  BY <1>2
<1>4. PICK view \in States : view = intents[i].state /\ view # "planned" /\ Claim(i, view)
  <2>1. intents[i].state \in States /\ RowOK(i)
    BY RowType DEF ExposureInv, RowsTyped, EvidenceOK
  <2>2. intents[i].state # "planned"
    BY <1>2, <1>3 DEF TaskOK, Task, Tokens
  <2>3. QED BY <2>1, <2>2 DEF RowOK
<1>5. PICK new : new = [job[p] EXCEPT !.pc = "sync", !.view = view] /\ Become(p, new)
  BY <1>1, <1>3, <1>4 DEF MonitorSettles
<1>6. /\ UNCHANGED <<account, book, requested, log, course, now, funds, intents, orders, exited>>
      /\ UNCHANGED <<orders, exited, cancelling, stops, reported>>
      /\ decision' = decision /\ UNCHANGED <<attributed, runs, cursor>>
  BY DEF MonitorSettles, Ledgers, riskVars, Clocks, exchangeVars
<1>7. /\ ExchangeOK /\ ExchangeOK' /\ TableOK /\ job[p] \in Job
      /\ attributed \subseteq Signals /\ runs \subseteq Signals /\ cursor \in 0..Len(Arrivals)
  BY <1>6, ExchangeStays DEF ExposureInv, RestOK, JobsOK
<1>8. NothingSent
  BY <1>6 DEF NothingSent, Intents
<1>9. ASSUME job'[p] = new, Progress, TableOK', EvidenceOK'
      PROVE  new \in Job' /\ JobOK(p)'
  <2>1. new \in Job'
    <3>1. \A j \in Job : [j EXCEPT !.pc = "sync", !.view = view] \in Job'
      BY Zenon, <1>6 DEF Job
    <3>2. QED BY Zenon, <1>5, <1>7, <3>1
  <2>2. job'[p].pc = "sync" /\ job'[p].todo = job[p].todo /\ job'[p].view = view
    BY <1>5, <1>7, <1>9 DEF Job
  <2>3. Claim(i, view)'
    BY <1>4, <1>6, <1>7, <1>9, ClaimStays
  <2>4. intents'[i].state # "planned"
    BY <1>4, <1>6
  <2>5. PICK name : name = Head(job[p].todo).name /\ name = "settle"
    BY <1>2
  <2>6. HandOK(p)'
    BY <1>3, <2>2, <2>3, <2>4, <2>5, HandOver
  <2>7. PlaceOK(p)'
    BY <1>2, <2>2, <2>6 DEF PlaceOK
  <2>8. JobOK(p)'
    BY <1>2, <1>6, <1>7, <1>8, <1>9, <2>2, <2>7, SameTaskOK
  <2>9. QED BY <2>1, <2>8
<1>10. QED BY <1>1, <1>5, <1>6, <1>7, <1>9, LoneStep

\* An action of the stored decision becomes a plan.
LEMMA PlansFollowUpMoves ==
  ASSUME ExposureInv, NEW p \in {"monitor", "operator"}, PlansFollowUp(p)
  PROVE  Advances
<1>1. p \in Processes /\ job[p].pc = "plan"
  BY DEF PlansFollowUp, At, Processes
<1>2. PlanOK(p)
  BY Zenon, <1>1 DEF ExposureInv, JobsOK, JobOK, PlaceOK
<1>3. PICK c \in DOMAIN log : c = job[p].command
  BY <1>2 DEF PlanOK
<1>4. PICK a \in Foremost(ToPlan(c)) : intents' = Append(intents, IntentFor(c, a))
  BY <1>3 DEF PlansFollowUp
<1>5. a \in log[c].actions /\ ~Stored(c, a)
  BY <1>4 DEF Foremost, ToPlan, Missing
<1>6. /\ UNCHANGED <<account, book, decision, requested, log, course, now, funds>>
      /\ UNCHANGED <<attributed, runs, cursor, job>>
      /\ UNCHANGED <<orders, exited, cancelling, stops, reported>>
  BY DEF PlansFollowUp, Ledgers, riskVars, Clocks, exchangeVars
<1>7. QED BY <1>3, <1>4, <1>5, <1>6, PlanStep

\* Everything the decision asks for is planned.
LEMMA FollowedUpMoves ==
  ASSUME ExposureInv, NEW p \in {"monitor", "operator"}, p # "operator" => job["operator"] = Idle,
         FollowedUp(p)
  PROVE  Advances
<1>1. /\ p \in Processes /\ p # "worker" /\ job[p].pc = "plan" /\ job[p].pc # "idle"
      /\ decision' = NothingDecided
      /\ UNCHANGED <<account, book, requested, log, course, now, funds, orders, exited>>
      /\ UNCHANGED <<orders, exited, cancelling, stops, reported>>
      /\ UNCHANGED <<attributed, runs, cursor>>
  BY DEF FollowedUp, At, Processes, Clocks, exchangeVars
<1>2. /\ ExchangeOK /\ ExchangeOK' /\ TableOK /\ EvidenceOK /\ job[p] \in Job /\ JobOK(p)
      /\ attributed \subseteq Signals /\ runs \subseteq Signals /\ cursor \in 0..Len(Arrivals)
  BY <1>1, ExchangeStays DEF ExposureInv, RestOK, JobsOK
<1>3. PICK v : v = job[p].view
  OBVIOUS
<1>4. v \in {"position_closed_pending", "cancelled", "rejected", "close_confirmed", "filled",
             "protection_verified", "reconciliation_required"}
  BY <1>3 DEF FollowedUp
<1>5. HandOK(p) /\ v \in States
  <2>1. PlanOK(p)
    BY <1>1, <1>2 DEF JobOK, PlaceOK
  <2>2. HandOK(p)
    BY <1>1, <1>3, <1>4, <2>1 DEF PlanOK
  <2>3. QED BY <1>3, <2>2 DEF HandOK
<1>6. PICK i \in Intents : i = Item(p)
  BY <1>1, <1>2, <1>5, AtWork DEF HandOK, Tokens
<1>7. Claim(i, v) /\ intents[i].state # "planned"
  BY <1>3, <1>5, <1>6 DEF HandOK
<1>8. intents = [k \in Intents |-> intents[k]]
  BY <1>2, SameTable
<1>9. CASE UNCHANGED intents /\ ItemDone(p)
  BY <1>1, <1>2, <1>5, <1>8, <1>9, DoneStep
<1>10. CASE intents' = [intents EXCEPT ![i].synced = TRUE] /\ ItemDone(p)
  <2>1. /\ intents' = [k \in Intents |-> intents'[k]]
        /\ intents'[i] = [intents[i] EXCEPT !.synced = TRUE]
        /\ \A k \in Intents \ {i} : intents'[k] = intents[k]
    BY Zenon, <1>8, <1>10
  <2>2. intents'[i].attempted = intents[i].attempted
    BY <1>2, <2>1, RowType DEF RowsTyped, Intent
  <2>3. Written(i)
    BY Zenon, <1>2, <2>1, OnlySyncWritten
  <2>4. QED BY <1>1, <1>2, <1>5, <1>10, <2>1, <2>2, <2>3, DoneStep
<1>11. CASE /\ v = "position_closed_pending" /\ ItemDone(p)
            /\ intents' = InState(intents, i, "position_closed")
  <2>1. Claim(i, "position_closed")
    <3>1. intents[i].kind \in Kinds
      BY <1>2, RowType DEF RowsTyped
    <3>2. QED BY <1>7, <1>11, <3>1 DEF Claim, EntryClaim, CancelClaim, CloseClaim, Kinds
  <2>2. PICK state \in States : state = "position_closed"
    BY DEF States
  <2>3. PICK table : table = InState(intents, i, state) /\ intents' = table
    BY <1>11, <2>2
  <2>4. /\ table = [k \in Intents |-> table[k]]
        /\ table[i] = [intents[i] EXCEPT !.state = state]
        /\ \A k \in Intents \ {i} : table[k] = intents[k]
        /\ \A k \in Intents : table[k].attempted = intents[k].attempted
    BY <1>2, <2>3, OneRow
  <2>5. Written(i)
    BY <1>2, <2>1, <2>2, <2>3, <2>4, StateWritten
  <2>6. QED BY <1>1, <1>2, <1>5, <1>11, <2>3, <2>4, <2>5, DoneStep
<1>12. CASE /\ Become(p, [job[p] EXCEPT !.pc = "sync", !.command = NoCommand])
            /\ UNCHANGED intents
  <2>1. PICK new : new = [job[p] EXCEPT !.pc = "sync", !.command = NoCommand] /\ Become(p, new)
    BY <1>12
  <2>2. NothingSent
    BY <1>12 DEF NothingSent, Intents
  <2>3. ASSUME job'[p] = new, Progress, TableOK', EvidenceOK'
        PROVE  new \in Job' /\ JobOK(p)'
    <3>1. new \in Job'
      <4>1. \A j \in Job : [j EXCEPT !.pc = "sync", !.command = NoCommand] \in Job'
        BY Zenon, <1>1 DEF Job
      <4>2. QED BY Zenon, <1>2, <2>1, <4>1
    <3>2. job'[p].pc = "sync" /\ job'[p].todo = job[p].todo /\ job'[p].view = v
      BY <1>2, <1>3, <2>1, <2>3 DEF Job
    <3>3. Claim(i, v)'
      BY <1>2, <1>7, <1>12, <2>3, ClaimStays
    <3>4. intents'[i].state # "planned"
      BY <1>7, <1>12
    <3>5. PICK name : name = Head(job[p].todo).name
      OBVIOUS
    <3>6. /\ name \in {"reconcile", "settle", "inspect", "flat", "confirm"}
          /\ name = "confirm" => v = "close_confirmed"
          /\ name = "flat" => v = "position_closed_pending"
          /\ name = "inspect" => v \in {"filled", "position_closed_pending"}
      BY <1>3, <1>5, <3>5 DEF HandOK
    <3>7. HandOK(p)'
      BY <1>5, <1>6, <3>2, <3>3, <3>4, <3>5, <3>6, HandOver
    <3>8. PlaceOK(p)'
      <4>1. job[p].todo # <<>>
        BY <1>1, <1>2 DEF JobOK, PlaceOK
      <4>2. QED BY <3>2, <3>7, <4>1 DEF PlaceOK
    <3>9. JobOK(p)'
      BY <1>1, <1>2, <2>2, <2>3, <3>2, <3>8, SameTaskOK
    <3>10. QED BY <3>1, <3>9
  <2>4. QED BY <1>1, <1>2, <1>12, <2>1, <2>3, LoneStep
<1>13. QED BY <1>3, <1>6, <1>9, <1>10, <1>11, <1>12 DEF FollowedUp

-------------------------------------------------------------------------------
(* The worker. *)

\* The worker's last task looks for the next signal.
LEMMA CountedTail ==
  ASSUME NEW todo \in Seq(TaskType), todo # <<>>, Counted(todo)
  PROVE  /\ Head(todo).name # "signals" => Tail(todo) # <<>> /\ Counted(Tail(todo))
         /\ Head(todo).name = "signals" => Len(todo) = 1 /\ Tail(todo) = <<>>
         /\ Head(todo).name \in {"place", "advance"} => Len(todo) = 2 /\ cursor < Len(Arrivals)
<1>1. PICK tail : tail = Tail(todo)
  BY Zenon
<1>2. /\ tail \in Seq(TaskType) /\ Len(tail) = Len(todo) - 1 /\ Head(todo) = todo[1]
      /\ \A k \in DOMAIN tail : k + 1 \in DOMAIN todo /\ tail[k] = todo[k + 1]
  BY <1>1, HeadTail
<1>3. /\ DOMAIN tail = 1..Len(tail) /\ Len(tail) \in Nat
      /\ DOMAIN todo = 1..Len(todo) /\ Len(todo) \in Nat /\ Len(todo) # 0
  BY <1>2, LenProperties, EmptySeq
<1>4. \A k \in DOMAIN todo :
        /\ todo[k].name \in {"place", "advance"} => k = Len(todo) - 1 /\ cursor < Len(Arrivals)
        /\ todo[k].name = "signals" <=> k = Len(todo)
  BY DEF Counted
<1>5. /\ todo[1].name = "signals" <=> 1 = Len(todo)
      /\ todo[1].name \in {"place", "advance"} => 1 = Len(todo) - 1 /\ cursor < Len(Arrivals)
  BY <1>3, <1>4
<1>6. Head(todo).name # "signals" => tail # <<>>
  BY <1>2, <1>3, <1>5
<1>7. Head(todo).name = "signals" => Len(todo) = 1 /\ tail = <<>>
  BY <1>2, <1>3, <1>5, EmptySeq
<1>8. Counted(tail)
  <2>1. SUFFICES ASSUME NEW k \in DOMAIN tail
                 PROVE  /\ tail[k].name \in {"place", "advance"} =>
                             k = Len(tail) - 1 /\ cursor < Len(Arrivals)
                        /\ tail[k].name = "signals" <=> k = Len(tail)
    BY DEF Counted
  <2>2. k \in Nat /\ k + 1 \in DOMAIN todo /\ tail[k] = todo[k + 1]
    BY <1>2, <1>3
  <2>3. /\ todo[k + 1].name \in {"place", "advance"} =>
             k + 1 = Len(todo) - 1 /\ cursor < Len(Arrivals)
        /\ todo[k + 1].name = "signals" <=> k + 1 = Len(todo)
    BY <1>4, <2>2
  <2>4. QED BY <1>2, <1>3, <2>2, <2>3
<1>9. QED BY <1>1, <1>2, <1>3, <1>5, <1>6, <1>7, <1>8

\* The task that looks for the next signal, alone or behind the one that moves the cursor.
LEMMA LastTasks ==
  /\ Task("signals", NoIntent) \in TaskType
  /\ \A name \in {"advance", "place"} : Task(name, NoIntent) \in TaskType
  /\ \A name \in {"advance", "place", "signals"} : TaskOK("worker", Task(name, NoIntent))
  /\ Counted(<<Task("signals", NoIntent)>>)
  /\ cursor < Len(Arrivals) =>
       \A name \in {"advance", "place"} :
         Counted(<<Task(name, NoIntent), Task("signals", NoIntent)>>)
BY DEF Task, TaskType, NoIntent, TaskOK, Names, Tokens, Counted

\* A cycle begins with the plans that were left behind.
LEMMA WorkerBeginsMoves ==
  ASSUME ExposureInv, WorkerBegins
  PROVE  Advances
<1>1. PICK p \in Processes : p = "worker"
  BY DEF Processes
<1>2. PICK rows \in SUBSET Intents : Planned = Selected(rows)
  <2>1. PICK rows : rows = {i \in Intents : intents[i].state = "planned"}
    BY Zenon
  <2>2. QED BY <2>1 DEF Planned
<1>3. TableOK
  BY DEF ExposureInv
<1>4. PICK a \in Seq(TaskType) :
         /\ a = Tasks("retry", Planned)
         /\ \A t \in Range(a) : \E i \in rows : t = Task("retry", i)
  BY <1>2, <1>3, TasksSelected
<1>5. PICK last : last = Task("signals", NoIntent)
  OBVIOUS
<1>6. last \in TaskType /\ TaskOK(p, last) /\ Counted(<<last>>) /\ last.name = "signals"
  BY <1>1, <1>5, LastTasks DEF Task
<1>7. PICK b \in Seq(TaskType) : b = <<last>> /\ Range(b) = {last} /\ b # <<>>
  BY Zenon, <1>6, ShortSeqs
<1>8. \A t \in Range(a) : TaskOK(p, t) /\ t.name = "retry"
  <2>1. \A i \in rows : TaskOK(p, Task("retry", i))
    <3>1. \A i \in rows : i \in Intents /\ i \in Nat
      BY <1>3, TableRows DEF TableOK
    <3>2. QED BY <1>1, <3>1 DEF TaskOK, Task, TaskType, Names, EntryTasks, Tokens
  <2>2. QED BY <1>4, <2>1, EachTask
<1>9. Continue(p, a \o b)
  BY <1>1, <1>4, <1>5, <1>7 DEF WorkerBegins
<1>10. UNCHANGED <<account, book, requested, log, course, now, funds, intents, decision>>
      /\ UNCHANGED <<orders, exited, cancelling, stops, reported>>
      /\ UNCHANGED <<attributed, runs, cursor>>
  BY DEF WorkerBegins, Ledgers, riskVars, Clocks, exchangeVars
<1>11. ExchangeOK'
  BY <1>10, ExchangeStays DEF ExposureInv
<1>12. attributed \subseteq Signals /\ runs \subseteq Signals
  BY DEF ExposureInv, RestOK
<1>13. p # "operator"
  BY <1>1
<1>14. QED BY Zenon, <1>6, <1>7, <1>8, <1>9, <1>10, <1>11, <1>12, <1>13, NewTasksStep

\* A task is replaced by others about the same row.
LEMMA ReplaceStep ==
  ASSUME ExposureInv, NEW p \in Processes, p # "operator", job[p].todo # <<>>, JobOK(p),
         Head(job[p].todo).name # "signals",
         NEW a \in Seq(TaskType), Instead(p, a),
         \A t \in Range(a) : /\ TaskOK(p, t)
                             /\ t.name \notin {"depend", "confirm", "place", "advance", "signals"},
         Head(job[p].todo).name = "submit" => Sent(Head(job[p].todo)),
         UNCHANGED <<account, book, requested, log, course, now, funds, intents, decision>>,
         UNCHANGED <<orders, exited, cancelling, stops, reported, attributed, runs, cursor>>
  PROVE  Advances
<1>1. PICK todo : todo = job[p].todo
  OBVIOUS
<1>2. TodoOK(p, todo) /\ todo # <<>> /\ (p = "worker" => Counted(todo)) /\ todo \in Seq(TaskType)
  BY <1>1 DEF JobOK, TodoOK
<1>3. PICK b \in Seq(TaskType) :
           /\ b = Tail(todo)
           /\ \A u \in Range(b) : TaskOK(p, u)
           /\ \A u \in Range(b) : u.name \in {"depend", "confirm"} =>
                Sent(u) \/ (Head(todo).name = "submit" /\ Head(todo).intent = u.intent)
  BY Zenon, <1>2, TailFacts
<1>4. \A u \in Range(b) : u.name \in {"depend", "confirm"} => Sent(u)
  BY <1>1, <1>3 DEF Sent
<1>5. p = "worker" => b # <<>> /\ Counted(b)
  BY <1>1, <1>2, <1>3, CountedTail
<1>6. Continue(p, a \o b)
  BY <1>1, <1>3 DEF Instead
<1>7. attributed \subseteq Signals /\ runs \subseteq Signals /\ ExchangeOK'
  BY ExchangeStays DEF ExposureInv, RestOK
<1>8. QED BY Zenon, <1>3, <1>4, <1>5, <1>6, <1>7, NewTasksStep

\* Nothing else happens, and the process is out of its cycle.
LEMMA RaisedStep ==
  ASSUME ExposureInv, NEW p \in Processes, Raise(p),
         UNCHANGED <<Ledgers, intents, Clocks, exchangeVars>>
  PROVE  Advances
<1>1. /\ UNCHANGED <<account, book, requested, log, course, now, funds, intents, orders, exited>>
      /\ UNCHANGED <<orders, exited, cancelling, stops, reported>>
      /\ decision' = decision /\ UNCHANGED <<attributed, runs, cursor>>
  BY DEF Ledgers, riskVars, Clocks, exchangeVars
<1>2. ExchangeOK'
  BY <1>1, ExchangeStays DEF ExposureInv
<1>3. QED BY <1>1, <1>2, RaiseStep

\* A plan that was left behind is submitted.
LEMMA WorkerRetriesMoves ==
  ASSUME ExposureInv, WorkerRetries
  PROVE  Advances
<1>1. PICK p \in Processes : p = "worker"
  BY DEF Processes
<1>2. /\ job[p].todo # <<>> /\ JobOK(p)
      /\ Head(job[p].todo).name = "retry" /\ Item(p) \in Intents
  <2>1. Doing(p, {"retry"})
    BY <1>1 DEF WorkerRetries
  <2>2. "retry" \notin Tokens
    BY DEF Tokens
  <2>3. QED BY Zenon, <2>1, <2>2, AtOneTask
<1>3. CASE Raise(p)
  BY <1>1, <1>3, RaisedStep DEF WorkerRetries
<1>4. CASE Instead(p, <<Task("submit", Item(p))>>)
  <2>1. PICK t : t = Task("submit", Item(p))
    OBVIOUS
  <2>2. Item(p) \in Nat
    BY <1>2, TableRows DEF ExposureInv, TableOK
  <2>3. TaskOK(p, t) /\ t.name = "submit" /\ t \in TaskType
    BY <1>1, <1>2, <2>1, <2>2 DEF TaskOK, Task, TaskType, Names, EntryTasks, Tokens
  <2>4. PICK a \in Seq(TaskType) : a = <<t>> /\ Range(a) = {t}
    BY Zenon, <2>3, ShortSeqs
  <2>5. Instead(p, a)
    BY <1>4, <2>1, <2>4
  <2>6. UNCHANGED <<account, book, requested, log, course, now, funds, intents, decision>>
        /\ UNCHANGED <<orders, exited, cancelling, stops, reported, attributed, runs, cursor>>
    BY DEF WorkerRetries, Ledgers, riskVars, Clocks, exchangeVars
  <2>7. \A u \in Range(a) :
          /\ TaskOK(p, u)
          /\ u.name \notin {"depend", "confirm", "place", "advance", "signals"}
    BY <2>3, <2>4
  <2>8. p # "operator" /\ Head(job[p].todo).name # "signals" /\ Head(job[p].todo).name # "submit"
    BY <1>1, <1>2
  <2>9. QED BY <1>2, <2>5, <2>6, <2>7, <2>8, ReplaceStep
<1>5. QED BY <1>1, <1>3, <1>4 DEF WorkerRetries

\* The plans of a signal are submitted, then the cursor moves.
LEMMA WorkerPlacesMoves ==
  ASSUME ExposureInv, WorkerPlaces
  PROVE  Advances
<1>1. PICK p \in Processes : p = "worker"
  BY DEF Processes
<1>2. CASE Raise(p)
  BY <1>1, <1>2, RaisedStep DEF WorkerPlaces
<1>3. CASE Continue(p, Tasks("submit", PlansOf(Coming))
                         \o <<Task("advance", NoIntent), Task("signals", NoIntent)>>)
  <2>1. cursor < Len(Arrivals)
    <3>1. CASE Doing(p, {"place"})
      <4>1. /\ job[p].todo # <<>> /\ JobOK(p) /\ Head(job[p].todo).name = "place"
            /\ job[p].todo \in Seq(TaskType)
        BY Zenon, <3>1, AtOneTask
      <4>2. Counted(job[p].todo)
        BY <1>1, <4>1 DEF JobOK
      <4>3. QED BY <4>1, <4>2, CountedTail
    <3>2. QED BY <1>1, <3>1 DEF WorkerPlaces
  <2>2. PICK rows \in SUBSET Intents : PlansOf(Coming) = Selected(rows)
    <3>1. PICK rows : rows = {i \in Intents : intents[i].command = ProposeOf(Coming)}
      BY Zenon
    <3>2. QED BY <3>1 DEF PlansOf
  <2>3. TableOK
    BY DEF ExposureInv
  <2>4. PICK a \in Seq(TaskType) :
           /\ a = Tasks("submit", PlansOf(Coming))
           /\ \A t \in Range(a) : \E i \in rows : t = Task("submit", i)
    BY <2>2, <2>3, TasksSelected
  <2>5. PICK last : last = Task("signals", NoIntent)
    OBVIOUS
  <2>6. PICK first : first = Task("advance", NoIntent)
    OBVIOUS
  <2>7. /\ last \in TaskType /\ TaskOK(p, last) /\ first \in TaskType /\ TaskOK(p, first)
        /\ Counted(<<first, last>>) /\ last.name = "signals" /\ first.name = "advance"
    BY <1>1, <2>1, <2>5, <2>6, LastTasks DEF Task
  <2>8. PICK b \in Seq(TaskType) : b = <<first, last>> /\ Range(b) = {first, last} /\ b # <<>>
    BY Zenon, <2>7, ShortSeqs
  <2>9. \A t \in Range(a) : TaskOK(p, t) /\ t.name = "submit"
    <3>1. \A i \in rows : TaskOK(p, Task("submit", i))
      <4>1. \A i \in rows : i \in Intents /\ i \in Nat
        BY <2>3, TableRows DEF TableOK
      <4>2. QED BY <1>1, <4>1 DEF TaskOK, Task, TaskType, Names, EntryTasks, Tokens
    <3>2. QED BY <2>4, <3>1, EachTask
  <2>10. Continue(p, a \o b)
    BY <1>3, <2>4, <2>5, <2>6, <2>8
  <2>11. UNCHANGED <<account, book, requested, log, course, now, funds, intents, decision>>
        /\ UNCHANGED <<orders, exited, cancelling, stops, reported>>
        /\ UNCHANGED <<attributed, runs, cursor>>
    BY DEF WorkerPlaces, Ledgers, riskVars, Clocks, exchangeVars
  <2>12. ExchangeOK'
    BY <2>11, ExchangeStays DEF ExposureInv
  <2>13. attributed \subseteq Signals /\ runs \subseteq Signals
    BY DEF ExposureInv, RestOK
  <2>14. p # "operator"
    BY <1>1
  <2>15. QED BY Zenon, <2>7, <2>8, <2>9, <2>10, <2>11, <2>12, <2>13, <2>14, NewTasksStep
<1>4. QED BY <1>1, <1>2, <1>3 DEF WorkerPlaces

\* The cursor moves past the signal that the worker is at.
LEMMA CursorMoves ==
  ASSUME ExposureInv, NEW p \in Processes, p = "worker", job[p].pc = "next", job[p].todo # <<>>,
         NEW todo, job'[p] = NextJob(todo), Become(p, NextJob(todo)),
         \/ todo = job[p].todo /\ Head(todo).name = "signals"
         \/ todo = Tail(job[p].todo) /\ Head(job[p].todo).name = "advance",
         cursor < Len(Arrivals), cursor' = cursor + 1,
         UNCHANGED <<riskVars, log, runs, attributed, intents, Clocks, exchangeVars>>
  PROVE  Advances
<1>1. /\ UNCHANGED <<account, book, requested, log, course, now, funds, intents, orders, exited>>
      /\ UNCHANGED <<orders, exited, cancelling, stops, reported>>
      /\ decision' = decision /\ UNCHANGED <<attributed, runs>>
  BY DEF riskVars, Clocks, exchangeVars
<1>2. /\ ExchangeOK /\ ExchangeOK' /\ TableOK /\ JobOK(p)
      /\ attributed \subseteq Signals /\ runs \subseteq Signals /\ cursor \in 0..Len(Arrivals)
  BY <1>1, ExchangeStays DEF ExposureInv, RestOK, JobsOK
<1>3. NothingSent
  BY <1>1 DEF NothingSent, Intents
<1>4. Len(Arrivals) \in Nat
  <2>1. Arrivals \in Seq(Signals)
    BY ExecutionAssumption DEF Arrivals, ExposureInv, RestOK
  <2>2. QED BY <2>1, LenProperties
<1>5. cursor' \in 0..Len(Arrivals)
  BY <1>2, <1>4
<1>6. PICK old : old = job[p].todo
  OBVIOUS
<1>7. TodoOK(p, old) /\ Counted(old) /\ old \in Seq(TaskType) /\ old # <<>>
  BY <1>2, <1>6 DEF JobOK, TodoOK
<1>8. ASSUME Progress
      PROVE  TodoOK(p, todo)'
  <2>1. TodoOK(p, old)'
    BY <1>2, <1>3, <1>7, <1>8, TodoGoesOn
  <2>2. CASE todo = old
    BY <2>1, <2>2
  <2>3. CASE todo = Tail(old) /\ Head(old).name = "advance"
    BY <1>7, <2>1, <2>3, TailOK
  <2>4. QED BY <1>6, <2>2, <2>3
<1>9. Counted(todo)' /\ todo \in Seq(TaskType) /\ \A t \in Range(todo) : TaskOK(p, t)
  <2>1. todo \in Seq(TaskType) /\ Range(todo) \subseteq Range(old)
    BY Zenon, <1>6, <1>7, TodoHead
  <2>2. DOMAIN todo = {1} /\ Len(todo) = 1 /\ todo[1].name = "signals"
    <3>1. CASE todo = old /\ Head(old).name = "signals"
      BY <1>7, <3>1, CountedTail, HeadTail, LenProperties
    <3>2. CASE todo = Tail(old) /\ Head(old).name = "advance"
      <4>1. Len(old) = 2 /\ Counted(todo) /\ Len(todo) = 1
        BY <1>7, <3>2, CountedTail, HeadTail
      <4>2. DOMAIN todo = {1}
        BY <2>1, <4>1, LenProperties
      <4>3. QED BY <4>1, <4>2 DEF Counted
    <3>3. QED BY <1>6, <3>1, <3>2
  <2>3. QED BY <1>7, <2>1, <2>2 DEF Counted, TodoOK
<1>10. todo # <<>> => Head(todo).name \notin {"finish", "order"}
  <2>1. todo # <<>> => TaskOK(p, Head(todo))
    BY <1>9, HeadTail
  <2>2. QED BY <2>1 DEF TaskOK, Names
<1>11. PICK new : new = NextJob(todo) /\ Become(p, new)
  OBVIOUS
<1>12. ASSUME Progress
       PROVE  new \in Job' /\ JobOK(p)'
  BY <1>8, <1>9, <1>10, <1>11, <1>12, NextJobOK
<1>13. p # "worker" => cursor' = cursor
  OBVIOUS
<1>14. attributed' \subseteq Signals /\ runs' \subseteq Signals /\ cursor' \in 0..Len(Arrivals)
  BY <1>1, <1>2, <1>5
<1>15. QED BY <1>1, <1>2, <1>11, <1>12, <1>13, <1>14, LoneStep

\* A signal that came too late is passed.
LEMMA WorkerPassesMoves ==
  ASSUME ExposureInv, WorkerPassesStale
  PROVE  Advances
<1>1. PICK p \in Processes : p = "worker"
  BY DEF Processes
<1>2. /\ job[p].todo # <<>> /\ job[p].pc = "next" /\ Head(job[p].todo).name = "signals"
      /\ job[p] = [Idle EXCEPT !.pc = "next", !.todo = job[p].todo]
  <2>1. Doing(p, {"signals"})
    BY <1>1 DEF WorkerPassesStale
  <2>2. QED BY Zenon, <2>1, AtOneTask
<1>3. PICK todo : todo = job[p].todo
  OBVIOUS
<1>4. /\ cursor < Len(Arrivals) /\ cursor' = cursor + 1
      /\ UNCHANGED <<riskVars, log, runs, attributed, intents, Clocks, exchangeVars>>
  BY DEF WorkerPassesStale
<1>9. job' = job
  BY DEF WorkerPassesStale
<1>5. job'[p] = NextJob(todo)
  BY <1>2, <1>3, <1>9 DEF NextJob
<1>6. Become(p, NextJob(todo))
  <2>1. job \in [Processes -> Job]
    BY DEF ExposureInv, JobsOK
  <2>2. job = [job EXCEPT ![p] = job[p]]
    BY <2>1
  <2>3. job[p] = NextJob(todo)
    BY <1>5, <1>9
  <2>4. QED BY <1>9, <2>2, <2>3 DEF Become
<1>7. todo = job[p].todo /\ Head(todo).name = "signals"
  BY <1>2, <1>3
<1>8. QED BY <1>1, <1>2, <1>4, <1>5, <1>6, <1>7, CursorMoves

\* The signal has been dealt with: the cursor moves.
LEMMA WorkerAdvancesMoves ==
  ASSUME ExposureInv, WorkerAdvances
  PROVE  Advances
<1>1. PICK p \in Processes : p = "worker"
  BY DEF Processes
<1>2. /\ job[p].todo # <<>> /\ job[p].pc = "next" /\ Head(job[p].todo).name = "advance"
      /\ JobOK(p) /\ job[p].todo \in Seq(TaskType)
  <2>1. Doing(p, {"advance"})
    BY <1>1 DEF WorkerAdvances
  <2>2. QED BY Zenon, <2>1, AtOneTask
<1>3. PICK todo : todo = Tail(job[p].todo)
  BY Zenon
<1>4. /\ cursor' = cursor + 1 /\ Become(p, NextJob(todo))
      /\ UNCHANGED <<riskVars, log, runs, attributed, intents, Clocks, exchangeVars>>
  BY Zenon, <1>1, <1>3 DEF WorkerAdvances, NextTask, Continue, NextJob
<1>5. job'[p] = NextJob(todo)
  BY <1>4, Moving
<1>6. cursor < Len(Arrivals)
  <2>1. Counted(job[p].todo)
    BY <1>1, <1>2 DEF JobOK
  <2>2. QED BY <1>2, <2>1, CountedTail
<1>7. QED BY Zenon, <1>1, <1>2, <1>3, <1>4, <1>5, <1>6, CursorMoves

\* A process goes on with its next task, and nothing else happens.
LEMMA NextTaskStep ==
  ASSUME ExposureInv, NEW p \in Processes, job[p].pc # "idle", NextTask(p),
         UNCHANGED <<Ledgers, intents, Clocks, exchangeVars>>,
         Head(job[p].todo).name \notin {"request", "confirm"},
         Head(job[p].todo).name = "submit" =>
           intents[Item(p)].attempted \/ intents[Item(p)].state # "planned"
  PROVE  Advances
<1>1. /\ UNCHANGED <<account, book, requested, log, course, now, funds, intents, orders, exited>>
      /\ UNCHANGED <<orders, exited, cancelling, stops, reported>>
      /\ decision' = decision /\ UNCHANGED <<attributed, runs, cursor>>
  BY DEF Ledgers, riskVars, Clocks, exchangeVars
<1>2. /\ ExchangeOK /\ ExchangeOK'
      /\ attributed \subseteq Signals /\ runs \subseteq Signals /\ cursor \in 0..Len(Arrivals)
  BY <1>1, ExchangeStays DEF ExposureInv, RestOK
<1>3. NothingSent
  BY <1>1 DEF NothingSent, Intents
<1>4. PICK new : new = NextJob(Tail(job[p].todo)) /\ Become(p, new)
  BY Zenon DEF NextTask, Continue, NextJob
<1>5. ASSUME job'[p] = new, Progress
      PROVE  new \in Job' /\ JobOK(p)'
  <2>1. job'[p] = NextJob(Tail(job[p].todo))
    BY <1>4, <1>5
  <2>2. intents'[Item(p)] = intents[Item(p)]
    BY <1>1
  <2>3. QED BY <1>1, <1>2, <1>3, <1>5, <2>1, <2>2, NextTaskOK
<1>6. QED BY <1>1, <1>2, <1>4, <1>5, LoneStep

\* No signal is left: the cycle ends.
LEMMA WorkerEndsMoves ==
  ASSUME ExposureInv, WorkerEnds
  PROVE  Advances
<1>1. PICK p \in Processes : p = "worker"
  BY DEF Processes
<1>2. job[p].pc # "idle" /\ Head(job[p].todo).name = "signals"
  <2>1. Doing(p, {"signals"})
    BY <1>1 DEF WorkerEnds
  <2>2. QED BY Zenon, <2>1, AtOneTask
<1>3. QED BY <1>1, <1>2, NextTaskStep DEF WorkerEnds

\* The signal that the worker is at.
LEMMA ComingSignal ==
  ASSUME ExposureInv, cursor < Len(Arrivals)
  PROVE  Coming \in Signals
<1>1. Arrivals \in Seq(Signals)
  BY ExecutionAssumption DEF Arrivals, ExposureInv, RestOK
<1>2. cursor + 1 \in 1..Len(Arrivals) /\ DOMAIN Arrivals = 1..Len(Arrivals)
  BY <1>1, LenProperties DEF ExposureInv, RestOK
<1>3. QED BY <1>1, <1>2, ElementOfSeq DEF Coming

\* The worker plans what was decided about its signal.
LEMMA WorkerPlansMoves ==
  ASSUME ExposureInv, WorkerPlans
  PROVE  Advances
<1>1. PICK p \in Processes : p = "worker" /\ job[p].pc = "plan"
  BY DEF WorkerPlans, At, Processes
<1>2. PlanOK(p)
  BY Zenon, <1>1 DEF ExposureInv, JobsOK, JobOK, PlaceOK
<1>3. PICK c \in DOMAIN log : c = job["worker"].command
  BY <1>1, <1>2 DEF PlanOK
<1>4. PICK y : y = {SymbolOf[Coming]}
  BY Zenon
<1>5. PICK a \in Foremost(Missing(c, y)) : intents' = Append(intents, IntentFor(c, a))
  BY <1>3, <1>4 DEF WorkerPlans
<1>6. a \in log[c].actions /\ ~Stored(c, a)
  BY <1>5 DEF Foremost, Missing
<1>7. /\ UNCHANGED <<account, book, decision, requested, log, course, now, funds>>
      /\ UNCHANGED <<attributed, runs, cursor, job>>
      /\ UNCHANGED <<orders, exited, cancelling, stops, reported>>
  BY DEF WorkerPlans, Ledgers, riskVars, Clocks, exchangeVars
<1>8. QED BY <1>3, <1>5, <1>6, <1>7, PlanStep

\* The run of the signal is recorded.
LEMMA WorkerRecordsMoves ==
  ASSUME ExposureInv, WorkerRecordsRun
  PROVE  Advances
<1>1. PICK p \in Processes : p = "worker" /\ job[p].pc = "plan"
  BY DEF WorkerRecordsRun, At, Processes
<1>2. cursor < Len(Arrivals)
  <2>1. PlanOK(p)
    BY Zenon, <1>1 DEF ExposureInv, JobsOK, JobOK, PlaceOK
  <2>2. QED BY <1>1, <2>1 DEF PlanOK
<1>3. PICK name \in {"advance", "place"} :
         Continue(p, <<Task(name, NoIntent), Task("signals", NoIntent)>>)
  BY <1>1 DEF WorkerRecordsRun
<1>4. PICK last : last = Task("signals", NoIntent)
  OBVIOUS
<1>5. PICK first : first = Task(name, NoIntent)
  OBVIOUS
<1>6. /\ last \in TaskType /\ TaskOK(p, last) /\ first \in TaskType /\ TaskOK(p, first)
      /\ Counted(<<first, last>>) /\ last.name = "signals" /\ first.name = name
  BY <1>1, <1>2, <1>4, <1>5, LastTasks DEF Task
<1>7. PICK todo \in Seq(TaskType) :
         todo = <<first, last>> /\ Range(todo) = {first, last} /\ Head(todo) = first
  BY Zenon, <1>6, ShortSeqs
<1>8. TodoOK(p, todo)
  BY <1>1, <1>6, <1>7 DEF TodoOK
<1>9. Continue(p, todo)
  BY <1>3, <1>4, <1>5, <1>7
<1>10. /\ UNCHANGED <<account, book, requested, log, course, now, funds, intents>>
       /\ UNCHANGED <<orders, exited, cancelling, stops, reported>>
       /\ UNCHANGED <<attributed, cursor>> /\ decision' = NothingDecided
  BY DEF WorkerRecordsRun, Clocks, exchangeVars
<1>11. attributed' \subseteq Signals /\ runs' \subseteq Signals
  <2>1. runs' = runs \cup {Coming} /\ Coming \in Signals
    BY <1>2, ComingSignal DEF WorkerRecordsRun
  <2>2. QED BY <1>10, <2>1 DEF ExposureInv, RestOK
<1>12. ExchangeOK'
  BY <1>10, ExchangeStays DEF ExposureInv
<1>13. p # "operator" /\ Head(todo).name \notin {"finish", "order"} /\ Counted(todo)
  BY <1>1, <1>6, <1>7
<1>14. QED BY <1>8, <1>9, <1>10, <1>11, <1>12, <1>13, TasksStep

\* The decision about a signal is planned next.
LEMMA PlanSignalOK ==
  ASSUME ExposureInv, ExchangeOK', Progress, NothingSent, UNCHANGED <<cursor, course>>,
         NEW p \in Processes, p = "worker", Doing(p, {"signals"}), cursor < Len(Arrivals),
         NEW c \in DOMAIN log', job'[p] = [job[p] EXCEPT !.pc = "plan", !.command = c]
  PROVE  job'[p] \in Job' /\ JobOK(p)'
<1>1. /\ job[p].pc # "idle" /\ job[p].todo # <<>> /\ JobOK(p)
      /\ Head(job[p].todo).name = "signals"
  BY Zenon, AtOneTask
<1>2. job[p] \in Job
  BY DEF ExposureInv, JobsOK
<1>3. job'[p].pc = "plan" /\ job'[p].todo = job[p].todo /\ job'[p].command = c
  BY <1>2 DEF Job
<1>4. job'[p] \in Job'
  <2>1. \A j \in Job : [j EXCEPT !.pc = "plan", !.command = c] \in Job'
    BY Zenon DEF Job
  <2>2. QED BY Zenon, <1>2, <2>1
<1>5. PlanOK(p)'
  BY <1>1, <1>3 DEF PlanOK, Arrivals
<1>6. PlaceOK(p)'
  BY <1>1, <1>3, <1>5 DEF PlaceOK
<1>7. JobOK(p)'
  BY Zenon, <1>1, <1>3, <1>6, SameTaskOK
<1>8. QED BY <1>4, <1>7

\* The reservation of a signal is proposed.
LEMMA WorkerProposesMoves ==
  ASSUME ExposureInv, WorkerProposes
  PROVE  Advances
<1>1. PICK p \in Processes : p = "worker" /\ Doing(p, {"signals"})
  BY DEF WorkerProposes, Processes
<1>2. cursor < Len(Arrivals)
  BY DEF WorkerProposes
<1>3. PICK s \in Signals : s = Coming
  BY <1>2, ComingSignal
<1>4. PICK c : c = ProposeOf(s)
  OBVIOUS
<1>5. /\ UNCHANGED <<cursor, runs, attributed, intents, course, now, funds>>
      /\ UNCHANGED <<orders, exited, cancelling, stops, reported>>
      /\ UNCHANGED exchangeVars
  BY DEF WorkerProposes, Clocks, exchangeVars
<1>6. /\ ExchangeOK /\ ExchangeOK' /\ p # "operator"
      /\ attributed \subseteq Signals /\ runs \subseteq Signals /\ cursor \in 0..Len(Arrivals)
  BY <1>1, <1>5, ExchangeStays DEF ExposureInv, RestOK
<1>7. NothingSent
  BY <1>5 DEF NothingSent, Intents
<1>8. CASE Raise(p) /\ UNCHANGED <<riskVars, log>>
  BY <1>5, <1>8, RaisedStep DEF Ledgers, Clocks
<1>9. CASE Execute(c, ProposeRiskReservation(now, funds, s)) /\ PlanNext(p, c)
  <2>1. PICK new : new = [job[p] EXCEPT !.pc = "plan", !.command = c] /\ Become(p, new)
    BY <1>9 DEF PlanNext
  <2>2. ASSUME job'[p] = new, Progress, c \in DOMAIN log'
        PROVE  new \in Job' /\ JobOK(p)'
    BY Zenon, <1>1, <1>2, <1>5, <1>6, <1>7, <2>1, <2>2, PlanSignalOK
  <2>3. CASE c \in DOMAIN log
    <3>1. UNCHANGED <<account, book, decision, requested, log>>
      BY <1>9, <2>3 DEF Execute, riskVars
    <3>2. QED BY <1>5, <1>6, <2>1, <2>2, <2>3, <3>1, LoneStep
  <2>4. CASE c \notin DOMAIN log
    <3>1. ProposeRiskReservation(now, funds, s) /\ Logged(c) /\ UNCHANGED requested
      BY <1>9, <2>4 DEF Execute, Logged
    <3>2. Inv /\ now \in Times /\ funds \in Equities
      BY DEF ExposureInv, RestOK
    <3>3. After /\ CreatesEnter /\ \A t \in Signals : Kept(t) \/ (t = s /\ Enters(t))
      BY <3>1, <3>2, ProposeStep, ProposeMoves
    <3>4. Decided(s)
      BY <3>3 DEF Decided
    <3>5. QED BY <1>5, <2>1, <2>2, <3>1, <3>3, <3>4, DecidingStep
  <2>5. QED BY <2>3, <2>4
<1>10. QED BY <1>1, <1>3, <1>4, <1>8, <1>9 DEF WorkerProposes

-------------------------------------------------------------------------------
(* _submit_intent and submit. *)

\* A process that submits is at a row.
LEMMA AtSubmit ==
  ASSUME ExposureInv, NEW p \in Processes, Doing(p, {"submit"})
  PROVE  /\ job[p].pc = "next" /\ job[p].pc # "idle" /\ job[p].todo # <<>>
         /\ JobOK(p) /\ TodoOK(p, job[p].todo) /\ job[p].todo \in Seq(TaskType)
         /\ Head(job[p].todo).name = "submit" /\ Head(job[p].todo).intent = Item(p)
         /\ Head(job[p].todo) \in Range(job[p].todo)
         /\ Item(p) \in Intents /\ Item(p) \in Nat
         /\ Owned(p) \in Signals /\ intents[Item(p)].reservation = Owned(p)
         /\ p = "operator" => intents[Item(p)].kind = "close_position"
         /\ job[p] = [Idle EXCEPT !.pc = "next", !.todo = job[p].todo]
<1>1. "submit" \notin Tokens
  BY DEF Tokens
<1>2. /\ job[p].pc = "next" /\ job[p].pc # "idle" /\ job[p].todo # <<>>
      /\ JobOK(p) /\ TodoOK(p, job[p].todo) /\ job[p].todo \in Seq(TaskType)
      /\ Head(job[p].todo).name = "submit" /\ Head(job[p].todo) = Task("submit", Item(p))
      /\ Item(p) \in Intents /\ TaskOK(p, Head(job[p].todo))
      /\ job[p] = [Idle EXCEPT !.pc = "next", !.todo = job[p].todo]
  BY Zenon, <1>1, AtOneTask
<1>3. Head(job[p].todo).intent = Item(p) /\ Head(job[p].todo) \in Range(job[p].todo)
  BY <1>2, HeadTail DEF Item
<1>4. Item(p) \in Nat /\ RowsTyped
  BY <1>2, TableRows, RowType DEF ExposureInv, TableOK
<1>5. p = "operator" => intents[Item(p)].kind = "close_position"
  BY <1>1, <1>2, <1>3 DEF TaskOK
<1>6. QED BY <1>2, <1>3, <1>4, <1>5 DEF RowsTyped, Owned

\* What has been submitted already is left alone.
LEMMA SubmitsNothingMoves ==
  ASSUME ExposureInv, NEW p \in Processes, SubmitsNothing(p)
  PROVE  Advances
<1>1. job[p].pc # "idle" /\ Head(job[p].todo).name = "submit"
  BY Zenon, AtSubmit DEF SubmitsNothing
<1>2. QED BY <1>1, NextTaskStep DEF SubmitsNothing

\* A row that was sent is looked up.
LEMMA SubmitsAttemptedMoves ==
  ASSUME ExposureInv, NEW p \in Processes, SubmitsAttempted(p)
  PROVE  Advances
<1>1. Doing(p, {"submit"}) /\ intents[Item(p)].kind \in {"entry", "close_position"}
      /\ intents[Item(p)].attempted /\ Instead(p, <<Task("recover", Item(p))>>)
      /\ UNCHANGED <<Ledgers, intents, Clocks, exchangeVars>>
  BY DEF SubmitsAttempted, Submitting, Attempted
<1>2. PICK i \in Intents : i = Item(p)
  BY Zenon, <1>1, AtSubmit
<1>3. PICK todo \in Seq(TaskType) : todo = job[p].todo
  BY Zenon, <1>1, AtSubmit
<1>4. /\ todo # <<>> /\ TodoOK(p, todo) /\ JobOK(p) /\ i \in Nat
      /\ Head(todo).name = "submit" /\ Head(todo).intent = i /\ Head(todo) \in Range(todo)
  BY Zenon, <1>1, <1>2, <1>3, AtSubmit
<1>5. p \in {"worker", "operator"}
  <2>1. TaskOK(p, Head(todo))
    BY <1>4 DEF TodoOK
  <2>2. QED BY <1>4, <2>1 DEF TaskOK, Names, Processes
<1>6. PICK t : t = Task("recover", i)
  OBVIOUS
<1>7. TaskOK(p, t) /\ t.name = "recover" /\ t.intent = i /\ t \in TaskType
  BY <1>1, <1>2, <1>4, <1>5, <1>6 DEF TaskOK, Task, TaskType, Names, EntryTasks, Tokens
<1>8. PICK a \in Seq(TaskType) : a = <<t>> /\ Range(a) = {t}
  BY Zenon, <1>7, ShortSeqs
<1>9. PICK b \in Seq(TaskType) :
           /\ b = Tail(todo) /\ Range(b) \subseteq Range(todo)
           /\ \A u \in Range(b) : TaskOK(p, u)
           /\ \A u \in Range(b) : u.name \in {"depend", "confirm"} =>
                Sent(u) \/ (Head(todo).name = "submit" /\ Head(todo).intent = u.intent)
  <2>1. Range(Tail(todo)) \subseteq Range(todo)
    BY <1>4, TodoHead
  <2>2. QED BY Zenon, <1>4, <2>1, TailFacts
<1>10. \A u \in Range(b) : u.name \in {"depend", "confirm"} => Sent(u)
  <2>1. intents[i].attempted
    BY <1>1, <1>2
  <2>2. \A u \in Range(b) : i = u.intent => Sent(u)
    BY <2>1 DEF Sent
  <2>3. QED BY <1>4, <1>9, <2>2
<1>11. Continue(p, a \o b)
  BY <1>1, <1>2, <1>3, <1>6, <1>8, <1>9 DEF Instead
<1>12. /\ UNCHANGED <<account, book, requested, log, course, now, funds, intents, decision>>
       /\ UNCHANGED <<orders, exited, cancelling, stops, reported, attributed, runs, cursor>>
  BY <1>1 DEF Ledgers, riskVars, Clocks, exchangeVars
<1>13. attributed \subseteq Signals /\ runs \subseteq Signals /\ ExchangeOK'
  BY <1>12, ExchangeStays DEF ExposureInv, RestOK
<1>14. PICK K : K = Range(a) \cup Range(b)
  BY Zenon
<1>15. p = "operator" => \A u, w \in K :
         /\ intents[u.intent].reservation = intents[w.intent].reservation
         /\ u.name \in {"drop", "inspect"} => w.name # "submit"
  <2>1. SUFFICES ASSUME p = "operator", NEW u \in K, NEW w \in K
                 PROVE  /\ intents[u.intent].reservation = intents[w.intent].reservation
                        /\ u.name \in {"drop", "inspect"} => w.name # "submit"
    OBVIOUS
  <2>2. \A x, z \in Range(todo) :
          /\ intents[x.intent].reservation = intents[z.intent].reservation
          /\ x.name \in {"drop", "inspect"} => z.name # "submit"
    BY <1>4, <2>1 DEF TodoOK
  <2>3. \A x \in K : \E z \in Range(todo) :
          x.intent = z.intent /\ (x.name = z.name \/ x.name = "recover")
    BY <1>4, <1>7, <1>8, <1>9, <1>14
  <2>4. QED BY <2>2, <2>3
<1>16. TodoOK(p, a \o b)
  <2>1. \A u \in K : TaskOK(p, u)
    BY <1>7, <1>8, <1>9, <1>14
  <2>2. \A u \in K : u.name \in {"depend", "confirm"} =>
          Sent(u) \/ (a # <<>> /\ Head(a) = Task("submit", u.intent))
    BY <1>7, <1>8, <1>10, <1>14
  <2>3. QED BY Zenon, <1>14, <1>15, <2>1, <2>2, TodoJoined
<1>17. p = "worker" => Counted(a \o b)
  <2>1. SUFFICES ASSUME p = "worker" PROVE Counted(a \o b)
    OBVIOUS
  <2>2. Counted(todo)
    BY <1>3, <1>4, <2>1 DEF JobOK
  <2>3. b # <<>> /\ Counted(b)
    BY <1>4, <1>9, <2>2, CountedTail
  <2>4. QED BY Zenon, <1>7, <1>8, <2>3, CountedJoined
<1>18. p = "operator" => InTurn(a \o b)
  <2>1. SUFFICES ASSUME p = "operator" PROVE InTurn(a \o b)
    OBVIOUS
  <2>2. InTurn(todo)
    BY <1>3, <1>4, <2>1 DEF JobOK
  <2>3. /\ InTurn(b)'
        /\ b # <<>> => /\ Head(b).name = "order" => Head(todo) = Task("request", Head(b).intent)
                       /\ Head(b).name = "finish" => Head(todo).name = "confirm"
    BY Zenon, <1>4, <1>9, <2>2, TailInOrder
  <2>4. InTurn(b)
    BY <2>3 DEF InTurn
  <2>5. b # <<>> => Head(b).name \notin {"order", "finish"}
    BY <1>4, <2>3 DEF Task
  <2>6. QED BY Zenon, <1>7, <1>8, <2>4, <2>5, InTurnJoined
<1>19. PICK new : new = a \o b
  BY Zenon
<1>20. new # <<>> => Head(new).name \notin {"finish", "order"}
  <2>1. Head(a \o b) = Head(a)
    BY <1>8, ConcatProperties, LenProperties, HeadTail, ShortSeqs, EmptySeq
  <2>2. QED BY <1>7, <1>8, <1>19, <2>1
<1>21. QED BY Zenon, <1>11, <1>12, <1>13, <1>16, <1>17, <1>18, <1>19, <1>20, TasksStep

\* An unconfirmed cancellation of the same decision is submitted first.
LEMMA SubmitsDependencyMoves ==
  ASSUME ExposureInv, SubmitsDependency
  PROVE  Advances
<1>1. PICK p \in Processes : p = "worker"
  BY DEF Processes
<1>2. /\ Doing(p, {"submit"}) /\ intents[Item(p)].kind = "entry"
      /\ Dependencies(Item(p)) # <<>>
      /\ UNCHANGED <<Ledgers, intents, Clocks, exchangeVars>>
  BY <1>1 DEF SubmitsDependency, Submitting
<1>3. PICK i \in Intents : i = Item(p)
  BY Zenon, <1>2, AtSubmit
<1>4. PICK todo \in Seq(TaskType) : todo = job[p].todo
  BY Zenon, <1>2, AtSubmit
<1>5. /\ todo # <<>> /\ TodoOK(p, todo) /\ JobOK(p) /\ i \in Nat
      /\ Head(todo).name = "submit" /\ Head(todo).intent = i /\ Head(todo) \in Range(todo)
  BY Zenon, <1>2, <1>3, <1>4, AtSubmit
<1>6. PICK d \in Intents : d = Head(Dependencies(i)) /\ intents[d].kind = "cancel_entry"
  <2>1. PICK rows \in SUBSET Intents :
           rows = {x \in Intents : /\ intents[x].kind = "cancel_entry"
                                   /\ intents[x].command = intents[i].command
                                   /\ intents[x].state # "cancelled"}
    BY Zenon
  <2>2. Dependencies(i) = Selected(rows)
    BY <2>1 DEF Dependencies
  <2>3. Selected(rows) \in Seq(rows)
    BY SelectedRows DEF TableOK, ExposureInv
  <2>4. PICK list \in Seq(rows) : list = Dependencies(i)
    BY <2>2, <2>3
  <2>5. Head(list) \in rows
    BY <1>2, <1>3, <2>4, HeadTail
  <2>6. QED BY <2>1, <2>4, <2>5
<1>7. PICK t : t = Task("submit", d)
  OBVIOUS
<1>8. PICK u : u = Task("depend", d)
  OBVIOUS
<1>9. d \in Nat
  BY TableRows DEF ExposureInv, TableOK
<1>10. /\ TaskOK(p, t) /\ t.name = "submit" /\ t.intent = d /\ t \in TaskType
       /\ TaskOK(p, u) /\ u.name = "depend" /\ u.intent = d /\ u \in TaskType
  BY <1>1, <1>6, <1>7, <1>8, <1>9 DEF TaskOK, Task, TaskType, Names, EntryTasks, Tokens
<1>11. PICK a \in Seq(TaskType) : a = <<t, u>> /\ Range(a) = {t, u} /\ Head(a) = t /\ a # <<>>
  BY Zenon, <1>10, ShortSeqs
<1>12. Continue(p, a \o todo)
  BY <1>1, <1>3, <1>4, <1>6, <1>7, <1>8, <1>11 DEF SubmitsDependency
<1>13. /\ UNCHANGED <<account, book, requested, log, course, now, funds, intents, decision>>
       /\ UNCHANGED <<orders, exited, cancelling, stops, reported, attributed, runs, cursor>>
  BY <1>2 DEF Ledgers, riskVars, Clocks, exchangeVars
<1>14. attributed \subseteq Signals /\ runs \subseteq Signals /\ ExchangeOK'
  BY <1>13, ExchangeStays DEF ExposureInv, RestOK
<1>15. ASSUME NEW w \in Range(a) \cup Range(todo)
       PROVE  /\ TaskOK(p, w)
              /\ w.name \in {"depend", "confirm"} =>
                   Sent(w) \/ (a # <<>> /\ Head(a) = Task("submit", w.intent))
  <2>1. CASE w \in Range(a)
    BY <1>7, <1>10, <1>11, <2>1
  <2>2. CASE w \in Range(todo)
    <3>1. TaskOK(p, w)
      BY <1>5, <2>2 DEF TodoOK
    <3>2. w.name \in {"depend", "confirm"} => intents[w.intent].kind # "entry"
      BY <3>1 DEF TaskOK, Tokens
    <3>3. Head(todo) = Task("submit", w.intent) => w.intent = i
      BY <1>5 DEF Task
    <3>4. w.name \in {"depend", "confirm"} => Sent(w)
      BY <1>2, <1>3, <1>5, <2>2, <3>2, <3>3 DEF TodoOK
    <3>5. QED BY <3>1, <3>4
  <2>3. QED BY <1>15, <2>1, <2>2
<1>16. /\ todo # <<>> /\ Counted(todo) /\ p # "operator"
       /\ \A w \in Range(a) : w.name \notin {"place", "advance", "signals"}
  BY <1>1, <1>4, <1>5, <1>10, <1>11 DEF JobOK
<1>17. QED BY <1>12, <1>13, <1>14, <1>15, <1>16, NewTasksStep

\* A plan is marked as sent.
LEMMA SentWritten ==
  ASSUME TableOK, EvidenceOK, NEW i \in Intents,
         intents'[i] = [intents[i] EXCEPT !.attempted = TRUE],
         intents[i].state = "planned", intents[i].kind # "cancel_entry",
         intents[i].kind = "close_position" =>
           Spent(intents[i].reservation) /\ Of("entry", intents[i].reservation) # {}
  PROVE  Written(i)
<1>1. RowsTyped /\ RowOK(i)
  BY RowType DEF EvidenceOK
<1>2. intents[i] \in Intent /\ intents[i].filled \in Nat /\ intents[i].state \in States
  BY <1>1 DEF RowsTyped
<1>3. /\ intents'[i].kind = intents[i].kind /\ intents'[i].reservation = intents[i].reservation
      /\ intents'[i].command = intents[i].command /\ intents'[i].filled = intents[i].filled
      /\ intents'[i].state = intents[i].state /\ intents'[i].attempted = TRUE
      /\ intents'[i] \in Intent
  BY Zenon, <1>2 DEF Intent
<1>4. MovesOn(intents[i], intents'[i])
  BY <1>2, <1>3 DEF MovesOn
<1>5. /\ Claim(i, intents[i].state)
      /\ intents[i].filled <= orders["entry"][intents[i].reservation].filled
  BY <1>1 DEF RowOK
<1>6. QED BY Zenon, <1>2, <1>3, <1>4, <1>5 DEF Written

\* A row that is marked as sent is sent next.
LEMMA PostsNextOK ==
  ASSUME ExposureInv, ExchangeOK', Progress, UNCHANGED <<cursor, course, book>>,
         NEW p \in Processes, Doing(p, {"submit"}), NEW i \in Intents, i = Item(p),
         job'[p] = [job[p] EXCEPT !.pc = "post"], intents'[i].attempted,
         intents[i].kind \in {"entry", "close_position"},
         intents[i].kind = "entry" => Status(book, intents[i].reservation) = "pending"
  PROVE  job'[p] \in Job' /\ JobOK(p)'
<1>1. /\ job[p].pc # "idle" /\ job[p].todo # <<>> /\ JobOK(p)
      /\ Head(job[p].todo).name = "submit"
  BY Zenon, AtSubmit
<1>2. job[p] \in Job /\ job'[p].pc = "post" /\ job'[p].todo = job[p].todo
  BY DEF ExposureInv, JobsOK, Job
<1>3. job'[p] \in Job'
  <2>1. \A c \in DOMAIN log : c \in DOMAIN log'
    BY DEF Progress
  <2>2. \A j \in Job : [j EXCEPT !.pc = "post"] \in Job'
    BY Zenon, <2>1 DEF Job
  <2>3. QED BY <1>2, <2>2
<1>4. PostOK(p)'
  <2>1. Item(p)' = i
    BY <1>2 DEF Item
  <2>2. MovesOn(intents[i], intents'[i])
    BY DEF Progress
  <2>3. QED BY <1>1, <1>2, <2>1, <2>2 DEF PostOK, MovesOn, Status
<1>5. PlaceOK(p)'
  BY <1>1, <1>2, <1>4 DEF PlaceOK
<1>6. JobOK(p)'
  BY Zenon, <1>1, <1>2, <1>5, SameTaskOK
<1>7. QED BY <1>3, <1>6

\* A row is submitted: it is written, and the process goes on, is out, or sends it.
LEMMA SubmitStep ==
  ASSUME ExposureInv, NEW p \in Processes, p # "operator" => job["operator"] = Idle,
         Doing(p, {"submit"}), NEW i \in Intents, i = Item(p),
         UNCHANGED <<Ledgers, Clocks, orders, exited>>, ExchangeOK',
         intents' = [k \in Intents |-> intents'[k]], Written(i),
         \A k \in Intents \ {i} : intents'[k] = intents[k],
         \/ NextTask(p) /\ intents'[i].state # "planned"
         \/ Raise(p)
         \/ /\ Become(p, [job[p] EXCEPT !.pc = "post"]) /\ intents'[i].attempted
            /\ intents[i].kind \in {"entry", "close_position"}
            /\ intents[i].kind = "entry" => Status(book, intents[i].reservation) = "pending"
  PROVE  Advances
<1>1. job[p].pc # "idle" /\ Head(job[p].todo).name = "submit"
  BY Zenon, AtSubmit
<1>2. /\ UNCHANGED <<account, book, requested, log, course, now, funds, orders, exited>>
      /\ decision' = decision /\ UNCHANGED <<attributed, runs, cursor>>
  BY DEF Ledgers, riskVars, Clocks
<1>3. PICK new :
        /\ Become(p, new)
        /\ \/ new = NextJob(Tail(job[p].todo)) /\ intents'[i].state # "planned"
           \/ new = Idle
           \/ /\ new = [job[p] EXCEPT !.pc = "post"] /\ intents'[i].attempted
              /\ intents[i].kind \in {"entry", "close_position"}
              /\ intents[i].kind = "entry" => Status(book, intents[i].reservation) = "pending"
  BY Zenon DEF NextTask, Continue, NextJob, Raise
<1>4. ASSUME job'[p] = new, Progress
      PROVE  new \in Job' /\ JobOK(p)'
  <2>1. CASE new = Idle
    BY <1>4, <2>1, IdleOK
  <2>2. CASE new = NextJob(Tail(job[p].todo)) /\ intents'[i].state # "planned"
    BY <1>1, <1>2, <1>4, <2>2, NextTaskOK
  <2>3. CASE /\ new = [job[p] EXCEPT !.pc = "post"] /\ intents'[i].attempted
             /\ intents[i].kind \in {"entry", "close_position"}
             /\ intents[i].kind = "entry" => Status(book, intents[i].reservation) = "pending"
    BY <1>2, <1>4, <2>3, PostsNextOK
  <2>4. QED BY <1>3, <2>1, <2>2, <2>3
<1>5. \A k \in Intents : intents'[k] = intents[k] \/ Written(k)
  OBVIOUS
<1>6. QED BY <1>2, <1>3, <1>4, <1>5, WriteStep

\* A planned entry is cancelled, refused for good, or sent.
LEMMA SubmitsEntryMoves ==
  ASSUME ExposureInv, job["operator"] = Idle, SubmitsEntry
  PROVE  Advances
<1>1. PICK p \in Processes : p = "worker"
  BY DEF Processes
<1>2. /\ Doing(p, {"submit"}) /\ intents[Item(p)].kind = "entry"
      /\ intents[Item(p)].state = "planned" /\ ~intents[Item(p)].attempted
      /\ UNCHANGED <<Ledgers, Clocks, exchangeVars>>
  BY <1>1 DEF SubmitsEntry, Submitting, Attempted
<1>3. PICK i \in Intents : i = Item(p)
  BY Zenon, <1>2, AtSubmit
<1>4. PICK s \in Signals : s = intents[i].reservation /\ s = Owned(p)
  BY Zenon, <1>2, <1>3, AtSubmit
<1>5. UNCHANGED <<Ledgers, Clocks, orders, exited>>
      /\ UNCHANGED <<orders, exited, cancelling, stops, reported>>
  BY <1>2 DEF exchangeVars
<1>6. TableOK /\ EvidenceOK /\ ExchangeOK /\ ExchangeOK' /\ RowsTyped /\ RowOK(i)
  BY <1>5, ExchangeStays, RowType DEF ExposureInv, EvidenceOK
<1>7. i \in Of("entry", s) /\ ~intents[i].attempted
  BY Zenon, <1>2, <1>3, <1>4 DEF Of
<1>8. CASE intents' = InState(intents, i, "cancelled") /\ NextTask(p)
  <2>1. PICK state \in States : state = "cancelled"
    BY DEF States
  <2>2. PICK table : table = InState(intents, i, state) /\ intents' = table
    BY <1>8, <2>1
  <2>3. /\ table = [k \in Intents |-> table[k]]
        /\ table[i] = [intents[i] EXCEPT !.state = state]
        /\ \A k \in Intents \ {i} : table[k] = intents[k]
        /\ table[i].state = state
        /\ \A k \in Intents : table[k].attempted = intents[k].attempted
    BY <1>6, <2>2, OneRow
  <2>4. intents'[i].kind = "entry" /\ intents'[i].reservation = s
    BY Zenon, <1>2, <1>3, <1>4, <1>6, <2>2, <2>3 DEF RowsTyped, Intent
  <2>5. Intents' = Intents
    BY <1>6, <2>2, <2>3 DEF Intents
  <2>6. Unplaced(s)'
    <3>1. ~Placed("entry", s)
      BY <1>2, <1>3, <1>4, <1>6 DEF RowOK
    <3>2. ~Placed("entry", s)'
      BY <1>5, <3>1 DEF Placed
    <3>3. i \in Of("entry", s)'
      BY <2>4, <2>5 DEF Of
    <3>4. ~intents'[i].attempted /\ intents'[i].state # "planned"
      BY <1>7, <2>1, <2>2, <2>3
    <3>5. QED BY <3>2, <3>3, <3>4 DEF Unplaced
  <2>7. Claim(i, state)'
    BY <2>1, <2>4, <2>6 DEF Claim, EntryClaim
  <2>8. Written(i)
    BY <1>6, <2>1, <2>2, <2>3, <2>7, StateWritten
  <2>9. /\ intents' = [k \in Intents |-> intents'[k]]
        /\ \A k \in Intents \ {i} : intents'[k] = intents[k]
        /\ intents'[i].state # "planned"
    BY <2>1, <2>2, <2>3
  <2>10. QED BY Zenon, <1>1, <1>2, <1>3, <1>5, <1>6, <1>8, <2>8, <2>9, SubmitStep
<1>9. CASE intents' = InState(intents, i, "reconciliation_required") /\ Raise(p)
  <2>1. PICK state \in States : state = "reconciliation_required"
    BY DEF States
  <2>2. PICK table : table = InState(intents, i, state) /\ intents' = table
    BY <1>9, <2>1
  <2>3. /\ table = [k \in Intents |-> table[k]]
        /\ table[i] = [intents[i] EXCEPT !.state = state]
        /\ \A k \in Intents \ {i} : table[k] = intents[k]
    BY <1>6, <2>2, OneRow
  <2>4. Claim(i, state)
    BY <1>2, <1>3, <2>1 DEF Claim, EntryClaim
  <2>5. Written(i)
    BY <1>6, <2>1, <2>2, <2>3, <2>4, StateWritten
  <2>6. /\ intents' = [k \in Intents |-> intents'[k]]
        /\ \A k \in Intents \ {i} : intents'[k] = intents[k]
    BY <2>2, <2>3
  <2>7. QED BY Zenon, <1>1, <1>2, <1>3, <1>5, <1>6, <1>9, <2>5, <2>6, SubmitStep
<1>10. CASE /\ intents' = [intents EXCEPT ![i].attempted = TRUE]
            /\ Status(book, s) = "pending" /\ Become(p, [job[p] EXCEPT !.pc = "post"])
  <2>1. /\ intents' = [k \in Intents |-> intents'[k]]
        /\ intents'[i] = [intents[i] EXCEPT !.attempted = TRUE]
        /\ \A k \in Intents \ {i} : intents'[k] = intents[k]
    BY Zenon, <1>6, <1>10, SameTable
  <2>2. intents'[i].attempted
    BY <1>6, <2>1 DEF RowsTyped, Intent
  <2>3. Written(i)
    BY <1>2, <1>3, <1>6, <2>1, SentWritten
  <2>4. QED BY Zenon, <1>2, <1>3, <1>4, <1>5, <1>6, <1>10, <2>1, <2>2, <2>3, SubmitStep
<1>11. QED BY <1>1, <1>3, <1>4, <1>8, <1>9, <1>10 DEF SubmitsEntry

\* A planned close is sent once its entry executes no more, or is refused.
LEMMA SubmitsCloseMoves ==
  ASSUME ExposureInv, NEW p \in Processes, p # "operator" => job["operator"] = Idle,
         SubmitsClose(p)
  PROVE  Advances
<1>1. /\ Doing(p, {"submit"}) /\ intents[Item(p)].kind = "close_position"
      /\ intents[Item(p)].state = "planned"
      /\ UNCHANGED <<Ledgers, Clocks, exchangeVars>>
  BY DEF SubmitsClose, Submitting
<1>2. PICK i \in Intents : i = Item(p)
  BY Zenon, <1>1, AtSubmit
<1>3. PICK s \in Signals : s = intents[i].reservation /\ s = Owned(p)
  BY Zenon, <1>1, <1>2, AtSubmit
<1>4. UNCHANGED <<Ledgers, Clocks, orders, exited>>
      /\ UNCHANGED <<orders, exited, cancelling, stops, reported>>
  BY <1>1 DEF exchangeVars
<1>5. TableOK /\ EvidenceOK /\ ExchangeOK /\ ExchangeOK' /\ RowsTyped
  BY <1>4, ExchangeStays, RowType DEF ExposureInv
<1>6. CASE Raise(p) /\ UNCHANGED intents
  BY <1>1, <1>6, RaisedStep
<1>7. CASE /\ EntryState(s) = "protection_verified"
              \/ (EntryState(s) = "filled" /\ orders["entry"][s].status \in Over)
           /\ intents' = [intents EXCEPT ![i].attempted = TRUE]
           /\ Become(p, [job[p] EXCEPT !.pc = "post"])
  <2>1. /\ intents' = [k \in Intents |-> intents'[k]]
        /\ intents'[i] = [intents[i] EXCEPT !.attempted = TRUE]
        /\ \A k \in Intents \ {i} : intents'[k] = intents[k]
    BY Zenon, <1>5, <1>7, SameTable
  <2>2. intents'[i].attempted
    BY <1>5, <2>1 DEF RowsTyped, Intent
  <2>3. Spent(s) /\ Of("entry", s) # {}
    <3>1. EntryState(s) # "missing"
      BY <1>7
    <3>2. Of("entry", s) # {} /\ EntryClaim(s, EntryState(s))
      BY <3>1, EntryRow
    <3>3. QED BY <1>7, <3>2 DEF EntryClaim, Spent
  <2>4. Written(i)
    BY Zenon, <1>1, <1>2, <1>3, <1>5, <2>1, <2>3, SentWritten
  <2>5. QED BY Zenon, <1>1, <1>2, <1>3, <1>4, <1>5, <1>7, <2>1, <2>2, <2>4, SubmitStep
<1>8. QED BY <1>2, <1>3, <1>6, <1>7 DEF SubmitsClose

-------------------------------------------------------------------------------
(* The POST of an order. *)

\* A new order rests at the exchange; the others, and what is held, stay as they are.
LEMMA OrderCreated ==
  ASSUME ExchangeOK, NEW kind \in {"entry", "close"}, NEW s \in Signals, NEW size \in Quantities,
         Created(kind, s, size), orders[kind][s] = NoOrder,
         UNCHANGED <<cancelling, exited, stops, reported>>,
         kind = "entry" => Of("entry", s) # {} /\ \A i \in Of("entry", s) : intents[i].attempted
  PROVE  /\ ExchangeOK' /\ OrdersGoOn
         /\ Placed(kind, s)'
         /\ kind = "close" => orders'["entry"] = orders["entry"]
         /\ \A t \in Signals :
              /\ t # s => orders'["entry"][t] = orders["entry"][t]
              /\ Exposure(t)' = Exposure(t)
         /\ kind = "entry" => orders'["entry"][s].status = "new"
<1>1. PICK o : o = [status |-> "new", filled |-> 0, size |-> size]
  BY Zenon
<1>2. o \in OrderState /\ o.status = "new" /\ o.filled = 0
  BY <1>1 DEF OrderState, Quantities
<1>3. orders' = [orders EXCEPT ![kind][s] = o]
  BY <1>1 DEF Created
<1>4. /\ orders' \in [{"entry", "close"} -> [Signals -> OrderState]]
      /\ orders'[kind][s] = o
      /\ \A t \in Signals \ {s} : orders'[kind][t] = orders[kind][t]
      /\ \A k \in {"entry", "close"} \ {kind} : orders'[k] = orders[k]
  BY <1>2, <1>3 DEF ExchangeOK, ExchangeTypeOK
<1>5. orders[kind][s].status = "none" /\ orders[kind][s].filled = 0
  BY DEF NoOrder
<1>6. OrdersTyped
  BY OrderType
<1>7. ASSUME NEW k \in {"entry", "close"}, NEW t \in Signals
      PROVE  /\ GoesOn(orders[k][t], orders'[k][t])
             /\ orders'[k][t].filled = orders[k][t].filled
             /\ orders'[k][t] = orders[k][t] \/ (k = kind /\ t = s)
  <2>1. orders[k][t].filled \in Nat
    BY <1>6 DEF OrdersTyped
  <2>2. CASE k = kind /\ t = s
    BY <1>2, <1>4, <1>5, <2>1, <2>2 DEF GoesOn, Over
  <2>3. CASE ~(k = kind /\ t = s)
    BY <1>4, <2>1, <2>3 DEF GoesOn
  <2>4. QED BY <2>2, <2>3
<1>8. ASSUME NEW t \in Signals
      PROVE  /\ EntryOrderOK(t)' /\ CloseOrderOK(t)'
             /\ exited'[t] <= orders'["entry"][t].filled
             /\ t \in cancelling' => Live(orders'["entry"][t])
  <2>1. /\ EntryOrderOK(t) /\ CloseOrderOK(t)
        /\ exited[t] <= orders["entry"][t].filled
        /\ t \in cancelling => Live(orders["entry"][t])
    BY DEF ExchangeOK
  <2>2. EntryOrderOK(t)'
    <3>1. CASE kind = "entry" /\ t = s
      <4>1. EntrySize[s] \in Nat \ {0}
        BY ExecutionAssumption
      <4>2. QED BY <1>2, <1>4, <3>1, <4>1 DEF EntryOrderOK
    <3>2. CASE ~(kind = "entry" /\ t = s)
      BY <1>7, <2>1, <3>2 DEF EntryOrderOK
    <3>3. QED BY <3>1, <3>2
  <2>3. CloseOrderOK(t)'
    <3>1. CASE kind = "close" /\ t = s
      BY <1>2, <1>4, <3>1 DEF CloseOrderOK
    <3>2. CASE ~(kind = "close" /\ t = s)
      BY <1>7, <2>1, <3>2 DEF CloseOrderOK
    <3>3. QED BY <3>1, <3>2
  <2>4. Live(orders["entry"][t]) => Live(orders'["entry"][t])
    <3>1. CASE kind = "entry" /\ t = s
      BY <1>2, <1>4, <3>1 DEF Live
    <3>2. CASE ~(kind = "entry" /\ t = s)
      BY <1>7, <3>2 DEF Live
    <3>3. QED BY <3>1, <3>2
  <2>5. QED BY <1>7, <2>1, <2>2, <2>3, <2>4
<1>9. ExchangeOK'
  <2>1. ExchangeTypeOK'
    BY <1>4 DEF ExchangeOK, ExchangeTypeOK
  <2>2. QED BY <1>8, <2>1 DEF ExchangeOK
<1>10. OrdersGoOn
  <2>1. \A t \in Signals : exited[t] <= exited'[t]
    BY <1>6 DEF OrdersTyped
  <2>2. \A t \in Signals : Placed("entry", t)' /\ ~Placed("entry", t) => kind = "entry" /\ t = s
    BY <1>7 DEF Placed
  <2>3. QED BY <1>7, <2>1, <2>2 DEF OrdersGoOn
<1>11. Placed(kind, s)' /\ (kind = "entry" => orders'["entry"][s].status = "new")
  BY <1>2, <1>4 DEF Placed
<1>12. \A t \in Signals :
         /\ t # s => orders'["entry"][t] = orders["entry"][t]
         /\ Exposure(t)' = Exposure(t)
  BY <1>7 DEF Exposure
<1>13. kind = "close" => orders'["entry"] = orders["entry"]
  BY <1>4
<1>14. QED BY <1>9, <1>10, <1>11, <1>12, <1>13

\* What the promise says of a new entry: it is offered under its reservation.
LEMMA PromisedByPost ==
  ASSUME ExchangeOK, ExchangeOK', NEW s \in Signals, UNCHANGED book, s \in Active(book),
         ~Placed("entry", s), orders'["entry"][s].status = "new",
         \A t \in Signals : /\ t # s => orders'["entry"][t] = orders["entry"][t]
                            /\ Exposure(t)' = Exposure(t)
  PROVE  Promised
<1>1. PlacedAsOrdered /\ PlacedAsOrdered'
  BY PlacedOrder, PTL
<1> DEFINE placed == {t \in Signals : orders["entry"][t] # NoOrder}
           offered == {t \in Signals : Live(orders["entry"][t])}
           held == {t \in Signals : Exposure(t) > 0}
           active == Active(book)
           settled == {t \in Signals : Status(book, t) \in Released}
<1>2. placed' = placed \cup {s} /\ s \notin placed
  <2>1. \A t \in Signals : t \in placed' <=> Placed("entry", t)'
    BY <1>1 DEF PlacedAsOrdered
  <2>2. \A t \in Signals : t \in placed <=> Placed("entry", t)
    BY <1>1 DEF PlacedAsOrdered
  <2>3. QED BY <2>1, <2>2 DEF Placed
<1>3. offered' = offered \cup {s}
  <2>1. \A t \in Signals : t # s => (t \in offered' <=> t \in offered)
    OBVIOUS
  <2>2. s \in offered'
    BY DEF Live
  <2>3. QED BY <2>1, <2>2
<1>4. active' = active /\ settled' = settled /\ held' = held
  BY DEF Active, Status
<1> HIDE DEF placed, offered, held, active, settled
<1>5. s \in active
  BY DEF active
<1>6. QED
  BY <1>2, <1>3, <1>4, <1>5
     DEF Promised, Ledger!Next, Ledger!Place, placed, offered, held, active, settled
\* The row of a process that sends an order.
LEMMA AtPost ==
  ASSUME ExposureInv, NEW p \in Processes, At(p, "post")
  PROVE  /\ job[p].pc # "idle" /\ Head(job[p].todo).name = "submit" /\ PostOK(p)
         /\ Item(p) \in Intents /\ Owned(p) \in Signals
         /\ intents[Item(p)].kind \in {"entry", "close_position"} /\ intents[Item(p)].attempted
         /\ p # "operator" \/ intents[Item(p)].kind = "close_position"
<1>1. job[p].pc = "post" /\ JobOK(p)
  BY DEF At, ExposureInv, JobsOK
<1>2. PostOK(p) /\ job[p].pc # "idle"
  BY <1>1 DEF JobOK, PlaceOK
<1>3. Head(job[p].todo).name = "submit" /\ "submit" \notin Tokens
  BY <1>2 DEF PostOK, Tokens
<1>4. Item(p) \in Intents /\ TaskOK(p, Head(job[p].todo))
      /\ Head(job[p].todo) = Task(Head(job[p].todo).name, Item(p))
  BY <1>1, <1>2, <1>3, AtWork
<1>5. RowsTyped
  BY RowType DEF ExposureInv
<1>6. Head(job[p].todo).intent = Item(p)
  BY DEF Item
<1>7. p = "operator" => intents[Item(p)].kind = "close_position"
  BY <1>3, <1>4, <1>6 DEF TaskOK
<1>8. QED BY <1>2, <1>3, <1>4, <1>5, <1>7 DEF PostOK, RowsTyped, Owned

\* An order is sent: it is acknowledged, or its answer is lost, or it was never taken.
LEMMA PostMoves ==
  ASSUME ExposureInv, NEW p \in Processes, p # "operator" => job["operator"] = Idle, Post(p)
  PROVE  Advances
<1>1. /\ At(p, "post") /\ job[p].pc # "idle" /\ Head(job[p].todo).name = "submit" /\ PostOK(p)
      /\ Item(p) \in Intents /\ Owned(p) \in Signals
      /\ intents[Item(p)].kind \in {"entry", "close_position"} /\ intents[Item(p)].attempted
  BY AtPost DEF Post
<1>2. PICK i \in Intents : i = Item(p)
  BY <1>1
<1>3. PICK s \in Signals : s = intents[i].reservation /\ s = Owned(p)
  BY <1>1, <1>2 DEF Owned
<1>4. PICK kind \in {"entry", "close"} :
        /\ kind = OrderKind(i)
        /\ kind = "entry" <=> intents[i].kind = "entry"
        /\ kind = "close" <=> intents[i].kind = "close_position"
  BY <1>1, <1>2 DEF OrderKind
<1>5. /\ TableOK /\ EvidenceOK /\ ExchangeOK /\ LogOK /\ BookOK /\ RowOK(i)
      /\ RowsTyped
  BY RowType DEF ExposureInv, EvidenceOK
<1>6. UNCHANGED <<Ledgers, Clocks, cancelling, exited, stops, reported>>
  BY DEF Post
<1>7. CASE Raise(p) /\ UNCHANGED <<intents, orders>>
  BY <1>6, <1>7, RaisedStep DEF exchangeVars
<1>8. CASE /\ orders[kind][s] = NoOrder
           /\ Created(kind, s, IF intents[i].kind = "entry" THEN EntrySize[s]
                                                           ELSE ManagedQuantity(EntryOf(s)))
           /\ Acknowledge(p)
  <2>1. PICK size \in Quantities : Created(kind, s, size)
    <3>1. EntrySize[s] \in Quantities
      <4>1. EntrySize[s] \in 1..EntrySize[s]
        BY ExecutionAssumption
      <4>2. QED BY <4>1 DEF Quantities
    <3>2. intents[i].kind = "close_position" => ManagedQuantity(EntryOf(s)) \in Quantities
      <4>1. SUFFICES ASSUME intents[i].kind = "close_position"
                     PROVE  ManagedQuantity(EntryOf(s)) \in Quantities
        OBVIOUS
      <4>2. Of("entry", s) # {}
        BY <1>1, <1>2, <1>3, <1>5, <4>1 DEF RowOK
      <4>3. EntryOf(s) \in Intents /\ intents[EntryOf(s)].reservation = s
        BY <4>2, EntryRow
      <4>4. intents[EntryOf(s)].filled \in Quantities
        BY <1>5, <4>3 DEF RowsTyped
      <4>5. QED BY <3>1, <4>3, <4>4 DEF ManagedQuantity
    <3>3. QED BY <1>1, <1>2, <1>8, <3>1, <3>2
  <2>2. kind = "entry" => Of("entry", s) # {} /\ \A k \in Of("entry", s) : intents[k].attempted
    <3>1. kind = "entry" => i \in Of("entry", s)
      BY Zenon, <1>3, <1>4 DEF Of
    <3>2. \A j, k \in Of("entry", s) : j = k
      BY <1>5, EntryOnce
    <3>3. QED BY <1>1, <1>2, <3>1, <3>2
  <2>3. /\ ExchangeOK' /\ OrdersGoOn
        /\ Placed(kind, s)'
        /\ kind = "close" => orders'["entry"] = orders["entry"]
        /\ \A t \in Signals : /\ t # s => orders'["entry"][t] = orders["entry"][t]
                              /\ Exposure(t)' = Exposure(t)
        /\ kind = "entry" => orders'["entry"][s].status = "new"
    BY <1>5, <1>6, <1>8, <2>1, <2>2, OrderCreated
  <2>4. /\ intents' = [k \in Intents |-> intents'[k]]
        /\ \A k \in Intents \ {i} : intents'[k] = intents[k]
        /\ \A k \in Intents : intents'[k].attempted = intents[k].attempted
        /\ \/ UNCHANGED intents /\ Raise(p)
           \/ intents'[i] = [intents[i] EXCEPT !.state = "acknowledged"] /\ NextTask(p)
    <3>1. CASE UNCHANGED intents /\ Raise(p)
      BY <1>5, <3>1, SameTable
    <3>2. CASE intents' = InState(intents, i, "acknowledged") /\ NextTask(p)
      BY <1>5, <3>2, OneRow
    <3>3. QED BY <1>2, <1>8, <3>1, <3>2 DEF Acknowledge
  <2>5. ASSUME intents'[i] = [intents[i] EXCEPT !.state = "acknowledged"]
        PROVE  Written(i)
    <3>1. PICK state \in States : state = "acknowledged"
      BY DEF States
    <3>2. /\ intents'[i].kind = intents[i].kind /\ intents'[i].reservation = s
          /\ intents'[i].attempted
      BY Zenon, <1>1, <1>2, <1>3, <1>5, <2>5 DEF RowsTyped, Intent
    <3>3. Claim(i, state)'
      <4>1. CASE intents[i].kind = "entry"
        BY <1>4, <2>3, <3>1, <3>2, <4>1 DEF Claim, EntryClaim
      <4>2. CASE intents[i].kind = "close_position"
        BY <1>4, <2>3, <3>1, <3>2, <4>2 DEF Claim, CloseClaim
      <4>3. QED BY <1>1, <1>2, <4>1, <4>2
    <3>4. intents'[i] = [intents[i] EXCEPT !.state = state]
      BY <2>5, <3>1
    <3>5. QED BY <1>5, <3>1, <3>3, <3>4, StateWritten
  <2>6. \A k \in Intents : intents'[k] = intents[k] \/ Written(k)
    BY <2>4, <2>5
  <2>7. UNCHANGED log
    BY <1>6 DEF Ledgers
  <2>8. TableOK' /\ Progress /\ EvidenceOK'
    BY <2>3, <2>4, <2>6, <2>7, TableWrites
  <2>9. RestOK' /\ LogOK' /\ PendingStays
    <3>1. RestOK
      BY DEF ExposureInv
    <3>2. /\ UNCHANGED <<account, book, requested, log, course>> /\ decision' = decision
          /\ now' \in Times /\ funds' \in Equities /\ attributed' \subseteq Signals
          /\ runs' \subseteq Signals /\ cursor' \in 0..Len(Arrivals)
      BY <1>6, <3>1 DEF RestOK, Ledgers, Clocks, riskVars
    <3>3. QED BY <3>2, RestStays
  <2>10. kind = "entry" => s \in Active(book) /\ ~Placed("entry", s)
    <3>1. ~Placed(kind, s)
      BY <1>8 DEF Placed, NoOrder
    <3>2. kind = "entry" => Status(book, s) = "pending"
      BY <1>1, <1>2, <1>3, <1>4, <3>1 DEF PostOK
    <3>3. Status(book, s) = "pending" => s \in Active(book)
      BY DEF Active, InStatus, Open
    <3>4. QED BY <3>1, <3>2, <3>3
  <2>11. BookOK'
    <3>1. UNCHANGED book
      BY <1>6 DEF Ledgers, riskVars
    <3>2. \A t \in Signals : Executed(t) => Executed(t)'
      BY <1>5, <2>3, <2>8, FactsStay
    <3>3. ASSUME NEW t \in Signals, Live(orders'["entry"][t]) \/ Exposure(t)' > 0
          PROVE  t \in Active(book)
      <4>1. CASE t = s /\ kind = "entry"
        BY <2>10, <4>1
      <4>2. CASE orders'["entry"][t] = orders["entry"][t]
        BY <1>5, <2>3, <3>3, <4>2 DEF BookOK
      <4>3. QED BY <1>4, <2>3, <4>1, <4>2
    <3>4. QED BY <1>5, <3>1, <3>2, <3>3 DEF BookOK, Status, Active
  <2>12. Promised
    <3>1. UNCHANGED book
      BY <1>6 DEF Ledgers, riskVars
    <3>2. CASE kind = "entry"
      <4>1. s \in Active(book) /\ ~Placed("entry", s) /\ orders'["entry"][s].status = "new"
        BY <2>3, <2>10, <3>2
      <4>2. QED BY <1>5, <2>3, <3>1, <4>1, PromisedByPost
    <3>3. CASE kind = "close"
      <4>1. orders'["entry"] = orders["entry"] /\ \A t \in Signals : Exposure(t)' = Exposure(t)
        BY <2>3, <3>3
      <4>2. {t \in Signals : Exposure(t) > 0}' = {t \in Signals : Exposure(t) > 0}
        BY <4>1
      <4>3. QED BY <3>1, <4>1, <4>2 DEF Promised, Ledger!promise, Active, Status, Live
    <3>4. QED BY <3>2, <3>3
  <2>13. JobsOK'
    <3>1. PICK new : Become(p, new)
                     /\ \/ new = Idle
                        \/ /\ new = NextJob(Tail(job[p].todo))
                           /\ intents'[i] = [intents[i] EXCEPT !.state = "acknowledged"]
      BY Zenon, <2>4 DEF NextTask, Continue, NextJob, Raise
    <3>2. /\ job'[p] = new /\ \A q \in Processes \ {p} : job'[q] = job[q]
          /\ job' = [q \in Processes |-> job'[q]]
      BY <3>1, Moving
    <3>3. OthersWait(p)
      BY <1>6, <3>2 DEF OthersWait, Ledgers, Clocks
    <3>4. job'[p] \in Job' /\ JobOK(p)'
      <4>1. CASE new = Idle
        BY <3>2, <4>1, IdleOK
      <4>2. CASE new = NextJob(Tail(job[p].todo))
        <5>1. NothingSent
          BY <2>4 DEF NothingSent, Intents
        <5>2. cursor' = cursor /\ course' = course
          BY <1>6 DEF Ledgers, Clocks
        <5>3. QED BY <1>1, <1>2, <2>3, <2>4, <2>8, <3>2, <4>2, <5>1, <5>2, NextTaskOK
      <4>3. QED BY <3>1, <4>1, <4>2
    <3>5. QED BY <2>3, <2>8, <2>9, <3>2, <3>3, <3>4, OthersStay
  <2>14. QED BY <2>3, <2>8, <2>9, <2>11, <2>12, <2>13 DEF ExposureInv, Advances
<1>9. QED BY <1>2, <1>3, <1>4, <1>7, <1>8 DEF Post

\* A planned cancellation is local, redundant, or sent.
LEMMA SubmitsCancelMoves ==
  ASSUME ExposureInv, job["operator"] = Idle, SubmitsCancel
  PROVE  Advances
<1>1. PICK p \in Processes : p = "worker"
  BY DEF Processes
<1>2. /\ Doing(p, {"submit"}) /\ intents[Item(p)].kind = "cancel_entry"
      /\ intents[Item(p)].state = "planned"
      /\ UNCHANGED <<Ledgers, Clocks, orders, exited, stops, reported>>
  BY <1>1 DEF SubmitsCancel, Submitting
<1>3. PICK i \in Intents : i = Item(p)
  BY Zenon, <1>2, AtSubmit
<1>4. PICK s \in Signals : s = intents[i].reservation /\ s = Owned(p)
  BY Zenon, <1>2, <1>3, AtSubmit
<1>5. /\ TableOK /\ EvidenceOK /\ ExchangeOK /\ RowsTyped /\ LogOK /\ intents[i] \in Intent
      /\ job[p].pc # "idle" /\ Head(job[p].todo).name = "submit"
  BY Zenon, <1>2, AtSubmit, RowType DEF ExposureInv, RowsTyped
<1>6. CASE Raise(p) /\ UNCHANGED <<intents, cancelling>>
  BY <1>2, <1>6, RaisedStep DEF exchangeVars
<1>7. CASE /\ Unsent(s) /\ NextTask(p) /\ UNCHANGED cancelling
           /\ intents' = InState(InState(intents, EntryOf(s), "cancelled"), i, "cancelled")
  <2>1. PICK x \in Intents : /\ x = EntryOf(s) /\ intents[x].kind = "entry"
                             /\ intents[x].reservation = s /\ EntryState(s) = intents[x].state
                             /\ EntryClaim(s, EntryState(s)) /\ Of("entry", s) # {}
    <3>1. EntryState(s) # "missing"
      BY <1>7 DEF Unsent
    <3>2. QED BY <3>1, EntryRow
  <2>2. i # x /\ ~intents[x].attempted /\ intents[x].state \in {"planned", "cancelled"}
    BY <1>2, <1>3, <1>7, <2>1 DEF Unsent, Attempted
  <2>3. PICK state \in States : state = "cancelled"
    BY DEF States
  <2>4. PICK table : table = InState(InState(intents, x, state), i, state) /\ intents' = table
    BY <1>7, <2>1, <2>3
  <2>5. /\ table = [k \in Intents |-> table[k]]
        /\ table[x] = [intents[x] EXCEPT !.state = state]
        /\ table[i] = [intents[i] EXCEPT !.state = state]
        /\ \A k \in Intents \ {x, i} : table[k] = intents[k]
        /\ \A k \in Intents : table[k].attempted = intents[k].attempted
    BY <1>5, <2>2, <2>4, TwoRows
  <2>6. /\ intents' = [k \in Intents |-> intents'[k]]
        /\ intents'[x] = [intents[x] EXCEPT !.state = state]
        /\ intents'[i] = [intents[i] EXCEPT !.state = state]
        /\ \A k \in Intents \ {x, i} : intents'[k] = intents[k]
        /\ \A k \in Intents : intents'[k].attempted = intents[k].attempted
        /\ Intents' = Intents
    BY <2>4, <2>5 DEF Intents
  <2>7. /\ intents'[x].kind = "entry" /\ intents'[x].reservation = s
        /\ intents'[x].state = "cancelled" /\ ~intents'[x].attempted
        /\ intents'[i].kind = "cancel_entry" /\ intents'[i].reservation = s
        /\ intents'[i].state = "cancelled"
    BY Zenon, <1>2, <1>3, <1>4, <1>5, <2>1, <2>2, <2>3, <2>6 DEF RowsTyped, Intent
  <2>8. Unplaced(s)' /\ (Of("entry", s) # {})'
    <3>1. ~Placed("entry", s)
      BY <1>5, <2>1, <2>2 DEF EvidenceOK, RowOK
    <3>2. ~Placed("entry", s)'
      BY <1>2, <3>1 DEF Placed
    <3>3. x \in Of("entry", s)'
      BY Zenon, <2>6, <2>7 DEF Of
    <3>4. QED BY <2>7, <3>2, <3>3 DEF Unplaced
  <2>9. Claim(x, state)' /\ Claim(i, state)'
    <3>1. EntryClaim(s, state)'
      BY <2>3, <2>8 DEF EntryClaim
    <3>2. CancelClaim(s, state)'
      BY <2>3, <2>8 DEF CancelClaim, Never
    <3>3. QED BY <2>7, <3>1, <3>2 DEF Claim
  <2>10. Written(x) /\ Written(i)
    BY <1>5, <2>3, <2>6, <2>9, StateWritten
  <2>11. \A k \in Intents : intents'[k] = intents[k] \/ Written(k)
    BY <2>6, <2>10
  <2>12. PICK new : Become(p, new) /\ new = NextJob(Tail(job[p].todo))
    BY Zenon, <1>7 DEF NextTask, Continue, NextJob
  <2>13. /\ UNCHANGED <<account, book, requested, log, course, now, funds, orders, exited>>
         /\ decision' = decision /\ UNCHANGED <<attributed, runs, cursor>>
    BY <1>2 DEF Ledgers, riskVars, Clocks
  <2>14. ExchangeOK'
    BY <1>2, <1>5, <1>7, ExchangeStays
  <2>15. ASSUME job'[p] = new, Progress PROVE new \in Job' /\ JobOK(p)'
    <3>1. NothingSent
      BY <2>6 DEF NothingSent
    <3>2. cursor' = cursor /\ course' = course
      BY <2>13
    <3>3. intents'[Item(p)].state # "planned"
      BY <1>3, <2>7
    <3>4. QED BY <1>5, <2>12, <2>14, <2>15, <3>1, <3>2, <3>3, NextTaskOK
  <2>16. QED BY <1>1, <2>6, <2>11, <2>12, <2>13, <2>14, <2>15, WriteStep
<1>8. CASE EntryEnded(s) /\ Retire(p) /\ UNCHANGED cancelling
  <2>1. ExchangeOK'
    BY <1>2, <1>5, <1>8, ExchangeStays
  <2>2. UNCHANGED <<Beyond, orders, exited>>
    BY <1>2 DEF Beyond, Ledgers, Clocks
  <2>3. QED BY <1>2, <1>3, <1>4, <1>5, <1>8, <2>1, <2>2, RetireStep
<1>9. CASE /\ EntryState(s) # "missing"
           /\ CancelAccepted(s) /\ Acknowledge(p)
  <2>1. ExchangeOK'
    BY <1>2, <1>5, <1>9, CancelStays
  <2>2. CASE intents' = InState(intents, i, "acknowledged") /\ NextTask(p)
    <3>1. PICK state \in States : state = "acknowledged"
      BY DEF States
    <3>2. PICK table : table = InState(intents, i, state) /\ intents' = table
      BY <2>2, <3>1
    <3>3. /\ table = [k \in Intents |-> table[k]]
          /\ table[i] = [intents[i] EXCEPT !.state = state]
          /\ \A k \in Intents \ {i} : table[k] = intents[k]
          /\ table[i].state = state
      BY <1>5, <3>2, OneRow
    <3>4. Claim(i, state)
      <4>1. Of("entry", s) # {}
        BY <1>9, EntryRow
      <4>2. Placed("entry", s)
        BY <1>9 DEF CancelAccepted, Live, Placed
      <4>3. QED BY <1>2, <1>3, <1>4, <3>1, <4>1, <4>2 DEF Claim, CancelClaim
    <3>5. Written(i)
      BY <1>5, <3>1, <3>2, <3>3, <3>4, StateWritten
    <3>6. /\ intents' = [k \in Intents |-> intents'[k]]
          /\ \A k \in Intents \ {i} : intents'[k] = intents[k]
          /\ intents'[i].state # "planned"
      BY <3>1, <3>2, <3>3
    <3>7. QED BY Zenon, <1>1, <1>2, <1>3, <2>1, <2>2, <3>5, <3>6, SubmitStep
  <2>3. CASE Raise(p) /\ UNCHANGED intents
    <3>1. /\ UNCHANGED <<account, book, requested, log, course, now, funds, intents, orders, exited>>
          /\ decision' = decision /\ UNCHANGED <<attributed, runs, cursor>>
      BY <1>2, <2>3 DEF Ledgers, riskVars, Clocks
    <3>2. QED BY <2>1, <2>3, <3>1, RaiseStep
  <2>4. QED BY <1>3, <1>9, <2>2, <2>3 DEF Acknowledge
<1>10. CASE (CancelRefused(s) \/ CancelLost) /\ Raise(p) /\ UNCHANGED intents
  <2>1. ExchangeOK'
    BY <1>2, <1>5, <1>10, CancelStays
  <2>2. /\ UNCHANGED <<account, book, requested, log, course, now, funds, intents, orders, exited>>
        /\ decision' = decision /\ UNCHANGED <<attributed, runs, cursor>>
    BY <1>2, <1>10 DEF Ledgers, riskVars, Clocks
  <2>3. QED BY <1>10, <2>1, <2>2, RaiseStep
<1>11. QED BY <1>1, <1>3, <1>4, <1>6, <1>7, <1>8, <1>9, <1>10 DEF SubmitsCancel
===============================================================================
