--------------------------- MODULE SignalIntakeProofs ---------------------------
(***************************************************************************)
(* Theorems of SignalIntake for every topic: every set of messages, every  *)
(* number of edits and every sender of them, and every number of failures. *)
(***************************************************************************)
EXTENDS SignalIntake, FiniteSetFacts, SequenceTheorems

-------------------------------------------------------------------------------
(* The inductive invariant. *)

Rows == {NoRow} \cup [text : Texts, outcome : Outcomes]

Types ==
  /\ topic \in Topics
  /\ published \in [Messages -> Nat]
  /\ \A m \in Messages : published[m] <= Len(Versions[m])
  /\ tasks \subseteq [message : Messages, text : Texts, edit : BOOLEAN,
                      found : Texts \cup {Unread, Absent}]
  /\ inbound \in [Messages -> Rows]
  /\ checkpoint \in Nat
  /\ backfill \in [pc : {"off", "scan", "looked", "recorded"}, at : Nat,
                   text : Texts \cup {NoSignal}, edit : BOOLEAN,
                   found : Texts \cup {Unread, Absent}]
  /\ repair \subseteq {m \in Messages : inbound[m] # NoRow}

\* What has been published is no gap in the messages of the topic.
Ascending ==
  \A m, n \in Messages :
    n < m /\ published[m] > 0 /\ Versions[n] # <<>> => published[n] > 0

Handled(m) == Steady(m) => inbound[m] # NoRow /\ m \notin Foreign

\* The checkpoint and the scan have nothing unhandled behind them, and the message in
\* work is what its look-up found.
Behind ==
  /\ \A m \in Messages : m <= checkpoint => Handled(m)
  /\ backfill.pc = "scan" => \A m \in Messages : m <= backfill.at => Handled(m)
  /\ backfill.pc \in {"looked", "recorded"} =>
       /\ backfill.at \in Messages \ Foreign
       /\ \A m \in Messages : m < backfill.at => Handled(m)
  /\ backfill.pc = "looked" => backfill.text \in Texts
  /\ backfill.pc = "looked" /\ backfill.found # Absent => inbound[backfill.at] # NoRow
  /\ backfill.pc = "recorded" => inbound[backfill.at] # NoRow

Inv == Types /\ Ascending /\ Behind

-------------------------------------------------------------------------------
(* What the operators of the model return. *)

\* A topic gives a sequence of texts for each message.
LEMMA TopicType ==
  ASSUME topic \in Topics
  PROVE  /\ Versions \in [Messages -> Seq(Texts)]
         /\ Legacy \subseteq Messages /\ Foreign \subseteq Messages
BY IntakeAssumption DEF Topic, Versions, Legacy, Marked, Foreign

\* Every row that is written is a row, and not the absence of one.
LEMMA StoreFacts ==
  ASSUME inbound \in [Messages -> Rows], NEW m \in Messages, NEW text \in Texts,
         NEW table, Store(m, text, table)
  PROVE  /\ inbound' \in [Messages -> Rows]
         /\ inbound'[m] # NoRow
         /\ \A n \in Messages \ {m} : inbound'[n] = inbound[n]
BY IntakeAssumption DEF Store, Rows, Outcomes, NoRow

\* Recording a message keeps every row, and leaves one for that message unless its
\* transaction was rolled back.
LEMMA RecordFacts ==
  ASSUME inbound \in [Messages -> Rows], NEW m \in Messages, NEW text \in Texts,
         NEW edit, NEW found, RecordEvent(m, text, edit, found)
  PROVE  /\ inbound' \in [Messages -> Rows]
         /\ \A n \in Messages : inbound[n] # NoRow => inbound'[n] # NoRow
         /\ ~Collides(m, found) /\ (found # Absent => inbound[m] # NoRow) => inbound'[m] # NoRow
<1>1. CASE ~Repeated(text, edit, found) /\ ~Collides(m, found)
           /\ Store(m, text, IF found = Absent THEN signals ELSE Without(m))
  BY <1>1, StoreFacts
<1>2. CASE Repeated(text, edit, found) /\ UNCHANGED inbound
  BY <1>2 DEF Repeated
<1>3. CASE Collides(m, found) /\ UNCHANGED inbound
  BY <1>3
<1>4. QED BY <1>1, <1>2, <1>3 DEF RecordEvent

\* Handled messages stay handled as long as no row disappears.
LEMMA HandledStays ==
  ASSUME UNCHANGED topic, NEW m, Handled(m), inbound[m] # NoRow => inbound'[m] # NoRow
  PROVE  Handled(m)'
BY DEF Handled, Steady, Versions, Foreign

\* A step that neither loses a row nor touches the backfill keeps what is behind it.
LEMMA BehindStays ==
  ASSUME Types, Behind, UNCHANGED <<topic, checkpoint, backfill>>,
         \A m \in Messages : inbound[m] # NoRow => inbound'[m] # NoRow
  PROVE  Behind'
<1>1. \A m \in Messages : Handled(m) => Handled(m)'
  BY HandledStays
<1>2. backfill.at \in Messages => (inbound[backfill.at] # NoRow => inbound'[backfill.at] # NoRow)
  OBVIOUS
<1>3. Foreign' = Foreign
  BY DEF Foreign
<1>4. QED BY <1>1, <1>2, <1>3 DEF Behind

\* With nothing published and legacy rows only, nothing is behind the checkpoint.
LEMMA InitInv == IntakeInit => Inv
<1> SUFFICES ASSUME IntakeInit PROVE Inv
  OBVIOUS
<1>1. topic \in Topics /\ Versions \in [Messages -> Seq(Texts)] /\ Legacy \subseteq Messages
  BY TopicType DEF IntakeInit
<1>2. \A m \in Legacy : Versions[m] # <<>> /\ Versions[m][1] \in Texts /\ Len(Versions[m]) >= 1
  <2> SUFFICES ASSUME NEW m \in Legacy
               PROVE  Versions[m] # <<>> /\ Versions[m][1] \in Texts /\ Len(Versions[m]) >= 1
    OBVIOUS
  <2>1. Versions[m] # <<>>
    BY <1>1, IntakeAssumption DEF Versions, Legacy, Marked
  <2>2. Versions[m] \in Seq(Texts)
    BY <1>1
  <2>3. QED BY <2>1, <2>2
<1>3. Types
  BY <1>1, <1>2 DEF IntakeInit, Types, Rows, Outcomes, NoRow, Off, Unread
<1>4. Ascending
  <2> SUFFICES ASSUME NEW m \in Messages, NEW n \in Messages, n < m, m \in Legacy,
                      Versions[n] # <<>>
               PROVE  n \in Legacy
    BY DEF Ascending, IntakeInit
  <2>1. n <= m
    BY IntakeAssumption
  <2>2. QED BY <2>1, <1>1, IntakeAssumption DEF Versions, Legacy, Marked
<1>5. Behind
  <2>1. \A m \in Messages : ~(m <= checkpoint)
    BY IntakeAssumption DEF IntakeInit
  <2>2. backfill.pc = "off"
    BY DEF IntakeInit, Off
  <2>3. QED BY <2>1, <2>2 DEF Behind
<1>6. QED BY <1>3, <1>4, <1>5 DEF Inv

\* A look-up finds a text, or that there is no row.
LEMMA FoundFacts ==
  ASSUME Types, NEW m \in Messages
  PROVE  /\ Found(m) \in Texts \cup {Unread, Absent}
         /\ Found(m) # Absent => inbound[m] # NoRow
<1>1. inbound[m] \in Rows
  BY DEF Types
<1>2. QED BY <1>1 DEF Found, Rows

\* The types of what a step leaves alone.
LEMMA TypesStay ==
  ASSUME Types, UNCHANGED <<topic, published>>,
         inbound' \in [Messages -> Rows],
         \A m \in Messages : inbound[m] # NoRow => inbound'[m] # NoRow,
         tasks' \subseteq [message : Messages, text : Texts, edit : BOOLEAN,
                           found : Texts \cup {Unread, Absent}],
         checkpoint' \in Nat,
         backfill' \in [pc : {"off", "scan", "looked", "recorded"}, at : Nat,
                        text : Texts \cup {NoSignal}, edit : BOOLEAN,
                        found : Texts \cup {Unread, Absent}],
         repair' \subseteq {m \in Messages : inbound'[m] # NoRow}
  PROVE  Types' /\ (Ascending => Ascending')
<1>1. Versions' = Versions
  BY DEF Versions
<1>2. QED BY <1>1 DEF Types, Ascending

\* A step that leaves the store alone, and what the scan has to do with it.
LEMMA OthersInv ==
  ASSUME Inv, UNCHANGED <<topic, published, inbound, checkpoint, backfill>>,
         tasks' \subseteq [message : Messages, text : Texts, edit : BOOLEAN,
                           found : Texts \cup {Unread, Absent}],
         repair' \subseteq {m \in Messages : inbound[m] # NoRow}
  PROVE  Inv'
BY TypesStay, BehindStays DEF Inv, Types

-------------------------------------------------------------------------------
(* The author and the observer. *)

\* What is handed over is a task.
LEMMA DeliverFacts ==
  ASSUME Types, NEW m \in Messages, NEW text \in Texts, NEW edit \in BOOLEAN,
         Deliver(m, text, edit)
  PROVE  tasks' \subseteq [message : Messages, text : Texts, edit : BOOLEAN,
                           found : Texts \cup {Unread, Absent}]
BY DEF Types, Deliver

\* Messages appear in the order of their ids.
LEMMA PublishInv == ASSUME Inv, NEW m \in Messages, Publish(m) PROVE Inv'
<1>1. Types /\ Ascending /\ Behind /\ Versions' = Versions
  BY DEF Inv, Publish, Versions
<1>2. Versions[m] \in Seq(Texts) /\ Versions[m] # <<>>
  BY <1>1, TopicType DEF Types, Publish
<1>3. Versions[m][1] \in Texts /\ 1 <= Len(Versions[m])
  BY <1>2
<1>4. tasks' \subseteq [message : Messages, text : Texts, edit : BOOLEAN,
                        found : Texts \cup {Unread, Absent}]
  BY <1>1, <1>3, DeliverFacts DEF Publish
<1>5. published' = [published EXCEPT ![m] = 1] /\ published \in [Messages -> Nat]
  BY <1>1 DEF Publish, Types
<1>6. Types'
  BY <1>1, <1>3, <1>4, <1>5 DEF Types, Publish
<1>7. Ascending'
  BY <1>1, <1>5 DEF Ascending, Publish
<1>8. Behind'
  BY <1>1, BehindStays DEF Publish
<1>9. QED BY <1>6, <1>7, <1>8 DEF Inv

\* An edit is one of the versions that are left.
LEMMA EditInv == ASSUME Inv, NEW m \in Messages, Edit(m) PROVE Inv'
<1>1. Types /\ Ascending /\ Behind /\ Versions' = Versions
  BY DEF Inv, Edit, Versions
<1>2. Versions[m] \in Seq(Texts)
  BY <1>1, TopicType DEF Types
<1>3. published' = [published EXCEPT ![m] = @ + 1] /\ published \in [Messages -> Nat]
  BY <1>1 DEF Edit, Types
<1>4. Len(Versions[m]) \in Nat /\ published[m] \in 1..(Len(Versions[m]) - 1)
  BY <1>2 DEF Edit
<1>5. published'[m] \in 1..Len(Versions[m])
  BY <1>3, <1>4
<1>6. Versions[m][published'[m]] \in Texts
  BY <1>2, <1>5
<1>7. tasks' \subseteq [message : Messages, text : Texts, edit : BOOLEAN,
                        found : Texts \cup {Unread, Absent}]
  BY <1>1, <1>6, DeliverFacts DEF Edit
<1>8. Types'
  <2>1. \A n \in Messages : published'[n] <= Len(Versions[n])
    BY <1>1, <1>3, <1>4, <1>5 DEF Types
  <2>2. published' \in [Messages -> Nat]
    BY <1>3
  <2>3. QED BY <2>1, <2>2, <1>1, <1>7 DEF Types, Edit
<1>9. Ascending'
  BY <1>1, <1>3 DEF Ascending, Edit
<1>10. Behind'
  BY <1>1, BehindStays DEF Edit
<1>11. QED BY <1>8, <1>9, <1>10 DEF Inv

\* The connection changes tasks only by losing them.
LEMMA ConnectionInv == ASSUME Inv, Connect \/ Disconnect PROVE Inv'
<1>1. CASE Connect
  BY <1>1, OthersInv DEF Connect, Inv, Types
<1>2. CASE Disconnect
  BY <1>2, OthersInv DEF Disconnect, Inv, Types
<1>3. QED BY <1>1, <1>2

\* The look-up of a task.
LEMMA LookInv == ASSUME Inv, NEW t \in tasks, Look(t) PROVE Inv'
<1>1. Types
  BY DEF Inv
<1>2. t.message \in Messages
  BY <1>1 DEF Types
<1>3. [t EXCEPT !.found = Found(t.message)] \in
         [message : Messages, text : Texts, edit : BOOLEAN, found : Texts \cup {Unread, Absent}]
  BY <1>1, <1>2, FoundFacts DEF Types
<1>4. QED BY <1>1, <1>3, OthersInv DEF Look, Types

\* The transaction of a task.
LEMMA IngestInv == ASSUME Inv, NEW t \in tasks, Ingest(t) PROVE Inv'
<1>1. Types /\ Ascending /\ Behind
  BY DEF Inv
<1>2. t.message \in Messages /\ t.text \in Texts
  BY <1>1 DEF Types
<1>3. /\ inbound' \in [Messages -> Rows]
      /\ \A n \in Messages : inbound[n] # NoRow => inbound'[n] # NoRow
  BY <1>1, <1>2, RecordFacts DEF Ingest, Types
<1>4. Types' /\ Ascending'
  BY <1>1, <1>3, TypesStay DEF Ingest, Types
<1>5. Behind'
  BY <1>1, <1>3, BehindStays DEF Ingest
<1>6. QED BY <1>4, <1>5 DEF Inv

-------------------------------------------------------------------------------
(* The backfill. *)

\* Up to the message that comes next, everything is handled: what the scan has passed,
\* and what lies between is never published, because ids ascend.
LEMMA ComingBehind ==
  ASSUME Inv, NEW m \in Messages, Coming(m)
  PROVE  \A k \in Messages : k < m => Handled(k)
<1> SUFFICES ASSUME NEW k \in Messages, k < m PROVE Handled(k)
  OBVIOUS
<1>1. m \in Nat /\ k \in Nat /\ backfill.at \in Nat
  BY IntakeAssumption DEF Inv, Types
<1>2. CASE k <= backfill.at
  BY <1>2 DEF Inv, Behind, Coming
<1>3. CASE k > backfill.at
  <2>1. ~(published[k] > 0)
    BY <1>1, <1>3 DEF Coming
  <2>2. Versions[k] = <<>>
    BY <2>1 DEF Inv, Ascending, Coming
  <2>3. QED BY <2>2 DEF Handled, Steady
<1>4. QED BY <1>1, <1>2, <1>3

\* A message whose text is no signal is not one that always has been.
LEMMA SkippedIsHandled ==
  ASSUME Inv, NEW m \in Messages, Coming(m), ~IsSignal(m)
  PROVE  Handled(m)
<1>1. published[m] \in Nat /\ published[m] > 0 /\ published[m] <= Len(Versions[m])
  BY DEF Inv, Types, Coming
<1>2. Versions[m] \in Seq(Texts)
  BY TopicType DEF Inv, Types
<1>3. published[m] \in DOMAIN Versions[m]
  BY <1>1, <1>2
<1>4. Content[Versions[m][published[m]]] = NoSignal
  BY <1>1 DEF IsSignal, Text
<1>5. QED BY <1>3, <1>4 DEF Handled, Steady

\* Steps of the backfill that leave the store alone.
LEMMA ScanInv ==
  ASSUME Inv, NEW m \in Messages,
         BackfillStarts \/ BackfillEnds \/ BackfillSkips(m) \/ BackfillRefuses(m)
           \/ BackfillLooks(m),
         UNCHANGED <<topic, published, online, tasks, repair, cursor, boundary, batch, runs,
                     failures>>
  PROVE  Inv'
<1>1. Types /\ Ascending /\ Behind /\ UNCHANGED inbound
  BY DEF Inv, BackfillStarts, BackfillEnds, BackfillSkips, BackfillRefuses, BackfillLooks
<1>2. \A k \in Messages : Handled(k) => Handled(k)'
  BY <1>1, HandledStays
<1>3. m \in Nat /\ checkpoint \in Nat /\ Messages \subseteq Nat
  BY <1>1, IntakeAssumption DEF Types
<1>4. CASE BackfillStarts
  <2>1. backfill' = [pc |-> "scan", at |-> checkpoint, text |-> NoSignal, edit |-> FALSE,
                     found |-> Unread] /\ UNCHANGED checkpoint
    BY <1>4 DEF BackfillStarts, Off
  <2>2. Types' /\ Ascending'
    BY <1>1, <1>3, <2>1, TypesStay DEF Types
  <2>3. Behind'
    BY <1>1, <1>2, <2>1 DEF Behind
  <2>4. QED BY <2>2, <2>3 DEF Inv
<1>5. CASE BackfillEnds \/ BackfillRefuses(m)
  <2>1. backfill' = [pc |-> "off", at |-> 0, text |-> NoSignal, edit |-> FALSE,
                     found |-> Unread] /\ UNCHANGED checkpoint
    BY <1>5 DEF BackfillEnds, BackfillRefuses, Off
  <2>2. Types' /\ Ascending'
    BY <1>1, <1>3, <2>1, TypesStay DEF Types
  <2>3. Behind'
    BY <1>1, <1>2, <2>1 DEF Behind
  <2>4. QED BY <2>2, <2>3 DEF Inv
<1>6. CASE BackfillSkips(m)
  <2>1. Coming(m) /\ ~IsSignal(m) /\ checkpoint' \in {m, checkpoint}
    BY <1>6 DEF BackfillSkips, Advanced
  <2>2. \A k \in Messages : k <= m => Handled(k)
    BY <1>3, <2>1, ComingBehind, SkippedIsHandled
  <2>3. backfill' = [backfill EXCEPT !.at = m] /\ backfill.pc = "scan"
    BY <1>6, <2>1 DEF BackfillSkips, Coming
  <2>4. backfill'.pc = "scan" /\ backfill'.at = m
    BY <1>1, <2>3 DEF Types
  <2>5. Types' /\ Ascending'
    BY <1>1, <1>3, <2>1, <2>3, TypesStay DEF Types
  <2>6. Behind'
    BY <1>1, <1>2, <2>1, <2>2, <2>4 DEF Behind
  <2>7. QED BY <2>5, <2>6 DEF Inv
<1>7. CASE BackfillLooks(m)
  <2>1. Coming(m) /\ IsSignal(m) /\ m \notin Foreign /\ UNCHANGED checkpoint
    BY <1>7 DEF BackfillLooks
  <2>2. \A k \in Messages : k < m => Handled(k)
    BY <2>1, ComingBehind
  <2>3. Text(m) \in Texts
    <3>1. published[m] \in Nat /\ published[m] > 0 /\ published[m] <= Len(Versions[m])
      BY <1>1, <2>1 DEF Types, Coming
    <3>2. Versions[m] \in Seq(Texts)
      BY <1>1, TopicType DEF Types
    <3>3. published[m] \in 1..Len(Versions[m])
      BY <3>1, <3>2
    <3>4. QED BY <3>2, <3>3 DEF Text
  <2>4. backfill' = [pc |-> "looked", at |-> m, text |-> Text(m), edit |-> published[m] > 1,
                     found |-> Found(m)]
    BY <1>7 DEF BackfillLooks
  <2>5. /\ Found(m) \in Texts \cup {Unread, Absent}
        /\ Found(m) # Absent => inbound[m] # NoRow
    BY <1>1, FoundFacts
  <2>6. Types' /\ Ascending'
    BY <1>1, <1>3, <2>1, <2>3, <2>4, <2>5, TypesStay DEF Types
  <2>7. Foreign' = Foreign
    BY DEF Foreign
  <2>8. Behind'
    BY <1>1, <1>2, <2>1, <2>2, <2>3, <2>4, <2>5, <2>7 DEF Behind
  <2>9. QED BY <2>6, <2>8 DEF Inv
<1>8. QED BY <1>4, <1>5, <1>6, <1>7

\* The transaction of the backfill leaves a row, or ends the backfill.
LEMMA RecordsInv ==
  ASSUME Inv, BackfillRecords,
         UNCHANGED <<topic, published, online, tasks, repair, cursor, boundary, batch, runs,
                     failures>>
  PROVE  Inv'
<1>1. Types /\ Ascending /\ Behind /\ UNCHANGED checkpoint /\ backfill.pc = "looked"
  BY DEF Inv, BackfillRecords
<1>2. backfill.at \in Messages /\ backfill.text \in Texts
  BY <1>1 DEF Behind
<1>3. /\ inbound' \in [Messages -> Rows]
      /\ \A n \in Messages : inbound[n] # NoRow => inbound'[n] # NoRow
      /\ ~Collides(backfill.at, backfill.found) => inbound'[backfill.at] # NoRow
  BY <1>1, <1>2, RecordFacts DEF BackfillRecords, Types, Behind
<1>4. \A k \in Messages : Handled(k) => Handled(k)'
  BY <1>3, HandledStays
<1>5. Foreign' = Foreign
  BY DEF Foreign
<1>6. repair' \subseteq {m \in Messages : inbound'[m] # NoRow}
  BY <1>1, <1>3 DEF Types
<1>7. CASE Collides(backfill.at, backfill.found)
  <2>1. backfill' = [pc |-> "off", at |-> 0, text |-> NoSignal, edit |-> FALSE, found |-> Unread]
    BY <1>7 DEF BackfillRecords, Off
  <2>2. Types' /\ Ascending'
    BY <1>1, <1>3, <1>6, <2>1, TypesStay DEF Types
  <2>3. Behind'
    BY <1>1, <1>4, <2>1 DEF Behind
  <2>4. QED BY <2>2, <2>3 DEF Inv
<1>8. CASE ~Collides(backfill.at, backfill.found)
  <2>1. backfill' = [backfill EXCEPT !.pc = "recorded"]
    BY <1>8 DEF BackfillRecords
  <2>2. backfill'.pc = "recorded" /\ backfill'.at = backfill.at
    BY <1>1, <2>1 DEF Types
  <2>3. Types' /\ Ascending'
    BY <1>1, <1>3, <1>6, <2>1, TypesStay DEF Types
  <2>4. Behind'
    BY <1>1, <1>3, <1>4, <1>5, <1>8, <2>2 DEF Behind
  <2>5. QED BY <2>3, <2>4 DEF Inv
<1>9. QED BY <1>7, <1>8

\* The checkpoint follows the row.
LEMMA AdvancesInv ==
  ASSUME Inv, BackfillAdvances,
         UNCHANGED <<topic, published, online, tasks, repair, cursor, boundary, batch, runs,
                     failures>>
  PROVE  Inv'
<1>1. Types /\ Ascending /\ Behind /\ UNCHANGED inbound /\ backfill.pc = "recorded"
  BY DEF Inv, BackfillAdvances, Recorded
<1>2. backfill.at \in Messages \ Foreign /\ inbound[backfill.at] # NoRow
  BY <1>1 DEF Behind
<1>3. Messages \subseteq Nat /\ checkpoint \in Nat /\ backfill.at \in Nat
  BY <1>1, IntakeAssumption DEF Types
<1>4. \A k \in Messages : k <= backfill.at => Handled(k)
  BY <1>1, <1>2, <1>3 DEF Behind, Handled
<1>5. \A k \in Messages : Handled(k) => Handled(k)'
  BY <1>1, HandledStays
<1>6. /\ checkpoint' \in {backfill.at, checkpoint}
      /\ backfill' = [pc |-> "scan", at |-> backfill.at, text |-> NoSignal, edit |-> FALSE,
                      found |-> Unread]
  BY DEF BackfillAdvances, Advanced, Off
<1>7. Types' /\ Ascending'
  BY <1>1, <1>3, <1>6, TypesStay DEF Types
<1>8. Behind'
  BY <1>1, <1>4, <1>5, <1>6 DEF Behind
<1>9. QED BY <1>7, <1>8 DEF Inv

\* A failure forgets what was in work.
LEMMA FailsInv == ASSUME Inv, BackfillFails PROVE Inv'
<1>1. Types /\ Ascending /\ Behind
      /\ UNCHANGED <<topic, published, tasks, inbound, checkpoint, repair>>
  BY DEF Inv, BackfillFails
<1>2. \A k \in Messages : Handled(k) => Handled(k)'
  BY <1>1, HandledStays DEF BackfillFails
<1>3. backfill' = [pc |-> "off", at |-> 0, text |-> NoSignal, edit |-> FALSE, found |-> Unread]
  BY DEF BackfillFails, Off
<1>4. Types' /\ Ascending'
  BY <1>1, <1>3, TypesStay DEF Types
<1>5. Behind'
  BY <1>1, <1>2, <1>3 DEF Behind
<1>6. QED BY <1>4, <1>5 DEF Inv

\* Every step of the backfill.
LEMMA BackfillInv == ASSUME Inv, BackfillStep PROVE Inv'
<1>1. UNCHANGED <<topic, published, online, tasks, repair, cursor, boundary, batch, runs, failures>>
  BY DEF BackfillStep
<1>2. CASE BackfillStarts
  <2>1. PICK m \in Messages : m > checkpoint
    BY <1>2 DEF BackfillStarts
  <2>2. QED BY <1>1, <1>2, <2>1, ScanInv
<1>3. CASE BackfillRecords
  BY <1>1, <1>3, RecordsInv
<1>4. CASE BackfillAdvances
  BY <1>1, <1>4, AdvancesInv
<1>5. CASE BackfillEnds
  <2>1. Types /\ Ascending /\ Behind /\ UNCHANGED <<inbound, checkpoint>>
    BY <1>5 DEF Inv, BackfillEnds
  <2>2. \A k \in Messages : Handled(k) => Handled(k)'
    BY <1>1, <2>1, HandledStays
  <2>3. backfill' = [pc |-> "off", at |-> 0, text |-> NoSignal, edit |-> FALSE, found |-> Unread]
    BY <1>5 DEF BackfillEnds, Off
  <2>4. Types' /\ Ascending'
    BY <1>1, <2>1, <2>3, TypesStay DEF Types
  <2>5. Behind'
    BY <2>1, <2>2, <2>3 DEF Behind
  <2>6. QED BY <2>4, <2>5 DEF Inv
<1>6. ASSUME NEW m \in Messages, BackfillSkips(m) \/ BackfillRefuses(m) \/ BackfillLooks(m)
      PROVE  Inv'
  BY <1>1, <1>6, ScanInv
<1>7. QED BY <1>2, <1>3, <1>4, <1>5, <1>6 DEF BackfillStep

-------------------------------------------------------------------------------
(* Reprocessing, the worker, and all steps. *)

\* Reprocessing never takes a row away.
LEMMA RepairInv == ASSUME Inv, RepairStep PROVE Inv'
<1>1. /\ Types /\ Ascending /\ Behind
      /\ UNCHANGED <<topic, published, online, tasks, checkpoint, backfill>>
  BY DEF Inv, RepairStep
<1>2. CASE RepairStarts
  <2>1. \A m \in Messages : inbound[m].outcome \in {"invalid", "duplicate_message"}
                              => inbound[m] # NoRow
    BY DEF NoRow
  <2>2. repair' \subseteq {m \in Messages : inbound[m] # NoRow} /\ UNCHANGED inbound
    BY <1>2, <2>1 DEF RepairStarts, Reprocessable
  <2>3. QED BY <1>1, <2>2, OthersInv DEF Types
<1>3. ASSUME NEW m \in Messages, Reprocess(m) PROVE Inv'
  <2>1. m \in repair /\ repair' = repair \ {m} /\ inbound[m] \in Rows /\ inbound[m] # NoRow
    BY <1>1, <1>3 DEF Reprocess, Types
  <2>2. inbound[m] \in [text : Texts, outcome : Outcomes]
    BY <2>1 DEF Rows
  <2>3. inbound \in [Messages -> Rows]
    BY <1>1 DEF Types
  <2>4. /\ inbound' \in [Messages -> Rows]
        /\ \A n \in Messages : inbound[n] # NoRow => inbound'[n] # NoRow
    <3>1. ASSUME NEW o \in {"stored", "invalid"}, inbound' = [inbound EXCEPT ![m].outcome = o]
          PROVE  /\ inbound' \in [Messages -> Rows]
                 /\ \A n \in Messages : inbound[n] # NoRow => inbound'[n] # NoRow
      <4>1. [inbound[m] EXCEPT !.outcome = o] \in [text : Texts, outcome : Outcomes]
        BY <2>2 DEF Outcomes
      <4>2. [inbound[m] EXCEPT !.outcome = o].outcome = o
        BY <2>2
      <4>3. [inbound[m] EXCEPT !.outcome = o] # NoRow
        BY <4>2 DEF NoRow
      <4>4. inbound' = [inbound EXCEPT ![m] = [inbound[m] EXCEPT !.outcome = o]]
        BY <3>1
      <4>5. QED BY <2>3, <4>1, <4>3, <4>4 DEF Rows
    <3>2. CASE Store(m, inbound[m].text, signals)
      BY <2>2, <2>3, <3>2, StoreFacts
    <3>3. QED BY <1>3, <3>1, <3>2 DEF Reprocess
  <2>5. Types' /\ Ascending'
    BY <1>1, <2>1, <2>4, TypesStay DEF Types
  <2>6. Behind'
    BY <1>1, <2>4, BehindStays
  <2>7. QED BY <2>5, <2>6 DEF Inv
<1>4. QED BY <1>2, <1>3 DEF RepairStep

\* The worker only reads what the others write.
LEMMA WorkerInv == ASSUME Inv, WorkerStep PROVE Inv'
BY OthersInv DEF WorkerStep, Inv, Types

\* No step breaks the invariant.
LEMMA NextInv == ASSUME Inv, [IntakeNext]_intakeVars PROVE Inv'
<1>1. CASE UNCHANGED intakeVars
  BY <1>1, OthersInv DEF intakeVars, Inv, Types
<1>2. CASE IntakeNext
  BY <1>2, PublishInv, EditInv, ConnectionInv, LookInv, IngestInv, BackfillInv, FailsInv, RepairInv,
     WorkerInv DEF IntakeNext
<1>3. QED BY <1>1, <1>2

-------------------------------------------------------------------------------
(* Work in progress: what tasks and backfill carry. *)

\* The text is an edit of the message that has been published.
Edited(m, text) == \E i \in 2..published[m] : Versions[m][i] = text

\* Only texts that the parser accepts are carried, and an edit is one of the author's.
Work ==
  /\ \A t \in tasks : /\ Content[t.text] # NoSignal
                      /\ t.edit => Edited(t.message, t.text)
  /\ backfill.pc = "looked" => /\ Content[backfill.text] # NoSignal
                               /\ backfill.edit => Edited(backfill.at, backfill.text)

\* What has been published stays published.
LEMMA EditedStays ==
  ASSUME Types, UNCHANGED topic, published' \in [Messages -> Nat],
         \A m \in Messages : published[m] <= published'[m],
         NEW m \in Messages, NEW text, Edited(m, text)
  PROVE  Edited(m, text)'
<1>1. Versions' = Versions
  BY DEF Versions
<1>2. PICK i \in 2..published[m] : Versions[m][i] = text
  BY DEF Edited
<1>3. published[m] \in Nat /\ published'[m] \in Nat /\ published[m] <= published'[m]
  BY DEF Types
<1>4. i \in 2..published'[m]
  BY <1>2, <1>3
<1>5. QED BY <1>1, <1>2, <1>4 DEF Edited

\* A step that publishes nothing, adds no task and looks nothing up keeps what is carried.
LEMMA WorkStays ==
  ASSUME Types, Work, UNCHANGED <<topic, published>>,
         \A u \in tasks' : \E t \in tasks : u.text = t.text /\ u.edit = t.edit
                                            /\ u.message = t.message,
         backfill' = backfill \/ backfill'.pc # "looked"
  PROVE  Work'
<1>1. Versions' = Versions
  BY DEF Versions
<1>2. \A m, text : Edited(m, text) => Edited(m, text)'
  BY <1>1 DEF Edited
<1>3. QED BY <1>2 DEF Work

\* A delivery carries the new version.
LEMMA DeliveryWork ==
  ASSUME Types, Work, NEW m \in Messages, NEW text, NEW edit \in BOOLEAN,
         Deliver(m, text, edit), UNCHANGED <<topic, backfill>>,
         published' \in [Messages -> Nat], \A n \in Messages : published[n] <= published'[n],
         edit => Edited(m, text)',
         backfill.pc = "looked" => backfill.at \in Messages
  PROVE  Work'
<1>1. \A n \in Messages : \A other : Edited(n, other) => Edited(n, other)'
  BY EditedStays
<1>2. \A t \in tasks : t.message \in Messages
  BY DEF Types
<1>3. ASSUME NEW t \in tasks'
      PROVE  Content[t.text] # NoSignal /\ (t.edit => Edited(t.message, t.text)')
  <2>1. CASE t \in tasks
    BY <1>1, <1>2, <2>1 DEF Work
  <2>2. CASE t \notin tasks
    <3>1. t = [message |-> m, text |-> text, edit |-> edit, found |-> Unread]
          /\ Content[text] # NoSignal
      BY <2>2 DEF Deliver
    <3>2. QED BY <3>1
  <2>3. QED BY <2>1, <2>2
<1>4. backfill'.pc = "looked" =>
         /\ Content[backfill.text] # NoSignal
         /\ backfill.edit => Edited(backfill.at, backfill.text)'
  BY <1>1 DEF Work
<1>5. QED BY <1>3, <1>4 DEF Work

\* What is carried is never anything but a version that the parser accepts.
LEMMA NextWork == ASSUME Inv, Work, [IntakeNext]_intakeVars PROVE Work'
<1>1. Types /\ Behind
  BY DEF Inv
<1>2. \A m \in Messages : published[m] \in Nat
  BY <1>1 DEF Types
<1>3. backfill.pc = "looked" => backfill.at \in Messages
  BY <1>1 DEF Behind
<1>4. CASE UNCHANGED intakeVars
  BY <1>1, <1>4, WorkStays DEF intakeVars
<1>5. ASSUME NEW m \in Messages, Publish(m) PROVE Work'
  <2>1. published' = [published EXCEPT ![m] = 1] /\ published[m] = 0
    BY <1>5 DEF Publish
  <2>2. published' \in [Messages -> Nat] /\ \A n \in Messages : published[n] <= published'[n]
    BY <1>1, <1>2, <2>1 DEF Types
  <2>3. QED BY <1>1, <1>3, <1>5, <2>2, DeliveryWork DEF Publish
<1>6. ASSUME NEW m \in Messages, Edit(m) PROVE Work'
  <2>1. published' = [published EXCEPT ![m] = @ + 1] /\ published[m] \in 1..(Len(Versions[m]) - 1)
    BY <1>6 DEF Edit
  <2>2. published' \in [Messages -> Nat] /\ \A n \in Messages : published[n] <= published'[n]
    BY <1>1, <1>2, <2>1 DEF Types
  <2>3. published'[m] \in 2..published'[m]
    <3>1. published[m] >= 1
      <4>1. Versions[m] \in Seq(Texts)
        BY <1>1, TopicType DEF Types
      <4>2. QED BY <4>1, <2>1
    <3>2. QED BY <1>1, <1>2, <2>1, <3>1 DEF Types
  <2>4. Versions' = Versions
    BY <1>6 DEF Edit, Versions
  <2>5. PICK text : text = Versions[m][published'[m]]
    OBVIOUS
  <2>6. Edited(m, text)'
    BY <2>3, <2>4, <2>5 DEF Edited
  <2>7. Deliver(m, text, TRUE) /\ UNCHANGED <<topic, backfill>>
    BY <1>6, <2>5 DEF Edit
  <2>8. QED BY <1>1, <1>3, <2>2, <2>6, <2>7, DeliveryWork
<1>7. CASE Connect \/ Disconnect
  BY <1>1, <1>7, WorkStays DEF Connect, Disconnect
<1>8. ASSUME NEW t \in tasks, Look(t) \/ Ingest(t) PROVE Work'
  <2>1. t \in [message : Messages, text : Texts, edit : BOOLEAN, found : Texts \cup {Unread, Absent}]
    BY <1>1 DEF Types
  <2>2. \A u \in tasks' : \E v \in tasks : u.text = v.text /\ u.edit = v.edit
                                           /\ u.message = v.message
    BY <1>8, <2>1 DEF Look, Ingest
  <2>3. QED BY <1>1, <1>8, <2>2, WorkStays DEF Look, Ingest
<1>9. CASE BackfillStep
  <2>1. UNCHANGED <<topic, published, tasks>>
    BY <1>9 DEF BackfillStep
  <2>2. ASSUME NEW m \in Messages, BackfillLooks(m) PROVE Work'
    <3> DEFINE text == backfill'.text
    <3>1. /\ backfill'.at = m /\ text = Text(m) /\ backfill'.edit = (published[m] > 1)
          /\ IsSignal(m)
      BY <2>2 DEF BackfillLooks
    <3>2. Content[text] # NoSignal
      BY <3>1 DEF IsSignal
    <3>3. published[m] > 1 => \E i \in 2..published'[m] : Versions'[m][i] = text
      <4>1. published[m] > 1 => published[m] \in 2..published[m]
        BY <1>2
      <4>2. published' = published /\ Versions' = Versions
        BY <2>1 DEF Versions
      <4>3. QED BY <3>1, <4>1, <4>2 DEF Text
    <3>4. \A n, other : Edited(n, other) => Edited(n, other)'
      BY <2>1 DEF Edited, Versions
    <3>5. \A t \in tasks' : Content[t.text] # NoSignal /\ (t.edit => Edited(t.message, t.text)')
      BY <2>1, <3>4 DEF Work
    <3>6. backfill'.edit => \E i \in 2..published'[backfill'.at] : Versions'[backfill'.at][i] = text
      BY <3>1, <3>3
    <3> HIDE DEF text
    <3>7. QED BY <3>2, <3>5, <3>6 DEF Work, Edited, text
  <2>3. ASSUME NEW m \in Messages, BackfillSkips(m) PROVE Work'
    <3>1. backfill' = [backfill EXCEPT !.at = m] /\ backfill.pc = "scan"
      BY <2>3 DEF BackfillSkips, Coming
    <3>2. backfill'.pc # "looked"
      BY <1>1, <3>1 DEF Types
    <3>3. QED BY <1>1, <2>1, <3>2, WorkStays
  <2>4. CASE BackfillStarts \/ BackfillRecords \/ BackfillAdvances \/ BackfillEnds
             \/ \E m \in Messages : BackfillRefuses(m)
    <3>1. backfill'.pc # "looked"
      BY <1>1, <2>4 DEF BackfillStarts, BackfillRecords, BackfillAdvances, BackfillEnds,
                        BackfillRefuses, Off, Types
    <3>2. QED BY <1>1, <2>1, <3>1, WorkStays
  <2>5. QED BY <1>9, <2>2, <2>3, <2>4 DEF BackfillStep
<1>10. CASE BackfillFails
  <2>1. backfill'.pc # "looked" /\ UNCHANGED <<topic, published, tasks>>
    BY <1>10 DEF BackfillFails, Off
  <2>2. QED BY <1>1, <2>1, WorkStays
<1>11. CASE RepairStep \/ WorkerStep
  BY <1>1, <1>11, WorkStays DEF RepairStep, WorkerStep
<1>12. QED BY <1>4, <1>5, <1>6, <1>7, <1>8, <1>9, <1>10, <1>11 DEF IntakeNext

-------------------------------------------------------------------------------
(* The signals table and the rows of the messages. *)

SignalRow == [message : Messages, print : Range(Content) \ {NoSignal}]

\* No message and no content has two rows.
Distinct(table) ==
  \A i, j \in DOMAIN table :
    table[i].print = table[j].print \/ table[i].message = table[j].message => i = j

\* The message has a signal exactly if its row says so.
Shown(m) ==
  m \in StoredMessages <=>
    inbound[m].outcome \in {"stored"} \cup (IF m \in Marked THEN {"duplicate_message"} ELSE {})

Agreement ==
  /\ signals \in Seq(SignalRow)
  /\ Distinct(signals)
  /\ \A m \in Messages : Shown(m)
  /\ \A row \in Range(signals) : row.print = Content[inbound[row.message].text]

\* The agreement is what the property says, with the type of the table.
LEMMA AgreementAgrees == Agreement => RowsAndSignalsAgree
<1> SUFFICES ASSUME Agreement PROVE RowsAndSignalsAgree
  OBVIOUS
<1>1. \A m \in Messages : Shown(m)
  BY DEF Agreement
<1>2. \A i \in DOMAIN signals : signals[i] \in Range(signals)
  BY DEF Range
<1>3. \A i \in DOMAIN signals : signals[i].print = Content[inbound[signals[i].message].text]
  BY <1>2 DEF Agreement
<1>4. Distinct(signals)
  BY DEF Agreement
<1>5. QED BY <1>1, <1>3, <1>4 DEF RowsAndSignalsAgree, Shown, Distinct

\* The rows of a table are its members.
LEMMA TableFacts ==
  ASSUME NEW S, NEW s \in Seq(S)
  PROVE  /\ DOMAIN s = 1..Len(s) /\ Len(s) \in Nat
         /\ \A row : row \in Range(s) <=> \E i \in 1..Len(s) : s[i] = row
         /\ Range(s) \subseteq S
BY DEF Range

\* A row of the signals table has a message and a content.
LEMMA RowFacts ==
  ASSUME Agreement, NEW row \in Range(signals)
  PROVE  row.message \in Messages /\ row.print \in Range(Content) \ {NoSignal}
<1>1. row \in SignalRow
  BY TableFacts DEF Agreement
<1>2. QED BY <1>1 DEF SignalRow

\* What an insertion adds.
LEMMA AppendFacts ==
  ASSUME NEW S, NEW s \in Seq(S), NEW e \in S
  PROVE  /\ Append(s, e) \in Seq(S)
         /\ Len(Append(s, e)) = Len(s) + 1
         /\ Append(s, e)[Len(s) + 1] = e
         /\ \A i \in 1..Len(s) : Append(s, e)[i] = s[i]
         /\ Range(Append(s, e)) = Range(s) \cup {e}
<1>1. /\ Append(s, e) \in Seq(S) /\ Len(Append(s, e)) = Len(s) + 1 /\ Len(s) \in Nat
      /\ Append(s, e)[Len(s) + 1] = e
      /\ \A i \in 1..Len(s) : Append(s, e)[i] = s[i]
  OBVIOUS
<1>2. PICK t : t = Append(s, e)
  OBVIOUS
<1>3. /\ t \in Seq(S) /\ Len(t) = Len(s) + 1 /\ t[Len(s) + 1] = e
      /\ \A i \in 1..Len(s) : t[i] = s[i]
  BY <1>1, <1>2
<1>4. ASSUME NEW row PROVE row \in Range(t) <=> row \in Range(s) \/ row = e
  <2>1. \A i \in 1..Len(t) : i \in 1..Len(s) \/ i = Len(s) + 1
    BY <1>1, <1>3
  <2>2. \A i \in 1..Len(s) : i \in 1..Len(t)
    BY <1>1, <1>3
  <2>3. Len(s) + 1 \in 1..Len(t)
    BY <1>1, <1>3
  <2>4. QED BY <1>3, <2>1, <2>2, <2>3, TableFacts
<1>5. QED BY <1>1, <1>2, <1>4

\* What a deletion leaves, in the same order.
LEMMA RemoveAtFacts ==
  ASSUME NEW S, NEW s \in Seq(S), NEW k \in 1..Len(s)
  PROVE  /\ RemoveAt(s, k) \in Seq(S)
         /\ Len(RemoveAt(s, k)) = Len(s) - 1
         /\ \A i \in 1..(Len(s) - 1) : RemoveAt(s, k)[i] = s[IF i < k THEN i ELSE i + 1]
<1>1. /\ SubSeq(s, 1, k - 1) \in Seq(S) /\ Len(SubSeq(s, 1, k - 1)) = k - 1
      /\ \A i \in 1..(k - 1) : SubSeq(s, 1, k - 1)[i] = s[i]
  OBVIOUS
<1>2. /\ SubSeq(s, k + 1, Len(s)) \in Seq(S) /\ Len(SubSeq(s, k + 1, Len(s))) = Len(s) - k
      /\ \A i \in 1..(Len(s) - k) : SubSeq(s, k + 1, Len(s))[i] = s[i + k]
  OBVIOUS
<1>3. PICK p, q : p = SubSeq(s, 1, k - 1) /\ q = SubSeq(s, k + 1, Len(s))
  OBVIOUS
<1>4. /\ p \in Seq(S) /\ Len(p) = k - 1 /\ \A i \in 1..(k - 1) : p[i] = s[i]
      /\ q \in Seq(S) /\ Len(q) = Len(s) - k /\ \A i \in 1..(Len(s) - k) : q[i] = s[i + k]
      /\ RemoveAt(s, k) = p \o q
  BY <1>1, <1>2, <1>3 DEF RemoveAt
<1>5. /\ p \o q \in Seq(S) /\ Len(p \o q) = Len(s) - 1
  BY <1>4
<1>6. ASSUME NEW i \in 1..(Len(s) - 1)
      PROVE  (p \o q)[i] = s[IF i < k THEN i ELSE i + 1]
  <2>1. CASE i < k
    BY <1>4, <2>1
  <2>2. CASE ~(i < k)
    <3>1. (p \o q)[i] = q[i - (k - 1)] /\ i - (k - 1) \in 1..(Len(s) - k)
      BY <1>4, <2>2
    <3>2. q[i - (k - 1)] = s[(i - (k - 1)) + k] /\ (i - (k - 1)) + k = i + 1
      BY <1>4, <3>1
    <3>3. QED BY <2>2, <3>1, <3>2
  <2>3. QED BY <2>1, <2>2
<1>7. QED BY <1>4, <1>5, <1>6

\* The rows that are left when the row of a message is deleted.
LEMMA WithoutFacts ==
  ASSUME signals \in Seq(SignalRow), Distinct(signals), NEW m
  PROVE  /\ Without(m) \in Seq(SignalRow)
         /\ Distinct(Without(m))
         /\ \A row : row \in Range(Without(m)) <=> row \in Range(signals) /\ row.message # m
<1>1. DOMAIN signals = 1..Len(signals) /\ Len(signals) \in Nat
      /\ \A row : row \in Range(signals) <=> \E i \in 1..Len(signals) : signals[i] = row
  BY TableFacts
<1>2. CASE m \notin StoredMessages
  BY <1>2 DEF Without, StoredMessages
<1>3. CASE m \in StoredMessages
  <2> DEFINE k == CHOOSE i \in DOMAIN signals : signals[i].message = m
  <2>1. k \in 1..Len(signals) /\ signals[k].message = m
    <3>1. \E i \in DOMAIN signals : signals[i].message = m
      BY <1>1, <1>3 DEF StoredMessages
    <3>2. QED BY <1>1, <3>1
  <2>2. Without(m) = RemoveAt(signals, k)
    BY <1>3 DEF Without
  <2> HIDE DEF k
  <2>3. PICK t : t = RemoveAt(signals, k)
    OBVIOUS
  <2>4. /\ t \in Seq(SignalRow) /\ Len(t) = Len(signals) - 1
        /\ \A i \in 1..(Len(signals) - 1) : t[i] = signals[IF i < k THEN i ELSE i + 1]
    BY <2>1, <2>3, RemoveAtFacts
  <2>5. DOMAIN t = 1..(Len(signals) - 1)
        /\ \A row : row \in Range(t) <=> \E i \in 1..(Len(signals) - 1) : t[i] = row
    BY <2>4, TableFacts
  <2>6. \A i \in 1..(Len(signals) - 1) :
          /\ (IF i < k THEN i ELSE i + 1) \in 1..Len(signals)
          /\ (IF i < k THEN i ELSE i + 1) # k
    BY <1>1, <2>1
  <2>7. Distinct(t)
    <3>1. SUFFICES ASSUME NEW i \in 1..(Len(signals) - 1), NEW j \in 1..(Len(signals) - 1),
                          t[i].print = t[j].print \/ t[i].message = t[j].message
                   PROVE  i = j
      BY <2>5 DEF Distinct
    <3>2. (IF i < k THEN i ELSE i + 1) = (IF j < k THEN j ELSE j + 1)
      BY <1>1, <2>4, <2>6, <3>1 DEF Distinct
    <3>3. QED BY <1>1, <2>1, <3>2
  <2>8. ASSUME NEW row, row \in Range(t) PROVE row \in Range(signals) /\ row.message # m
    <3>1. PICK i \in 1..(Len(signals) - 1) : t[i] = row
      BY <2>5, <2>8
    <3>2. PICK j \in 1..Len(signals) : j # k /\ signals[j] = row
      BY <2>4, <2>6, <3>1
    <3>3. signals[j].message # signals[k].message
      BY <1>1, <2>1, <3>2 DEF Distinct
    <3>4. QED BY <1>1, <2>1, <3>2, <3>3
  <2>9. ASSUME NEW row, row \in Range(signals), row.message # m PROVE row \in Range(t)
    <3>1. PICK j \in 1..Len(signals) : signals[j] = row /\ j # k
      BY <1>1, <2>1, <2>9
    <3>2. PICK i \in 1..(Len(signals) - 1) : j = IF i < k THEN i ELSE i + 1
      <4>1. CASE j < k
        BY <1>1, <2>1, <4>1
      <4>2. CASE j > k
        <5>1. j - 1 \in 1..(Len(signals) - 1) /\ ~(j - 1 < k) /\ (j - 1) + 1 = j
          BY <1>1, <2>1, <4>2
        <5>2. QED BY <5>1
      <4>3. QED BY <1>1, <2>1, <3>1, <4>1, <4>2
    <3>3. t[i] = row
      BY <2>4, <3>1, <3>2
    <3>4. QED BY <2>5, <3>3
  <2>10. QED BY <2>2, <2>3, <2>4, <2>7, <2>8, <2>9
<1>4. QED BY <1>2, <1>3

\* Whose signal is stored, or known to be another message's, has a row that says so.
LEMMA StoreAgrees ==
  ASSUME Types, Agreement, UNCHANGED topic,
         NEW m \in Messages, NEW text \in Texts, Content[text] # NoSignal,
         NEW table \in Seq(SignalRow), Distinct(table),
         \A row : row \in Range(table) <=> row \in Range(signals) /\ row.message # m,
         Store(m, text, table)
  PROVE  Agreement'
<1> DEFINE new == [message |-> m, print |-> Content[text]]
           taken == \E row \in Range(table) : row.print = Content[text]
           shown == [text |-> text, outcome |-> IF taken THEN "duplicate_signal" ELSE "stored"]
<1>1. new \in SignalRow
  BY DEF SignalRow, Range, Texts
<1>2. /\ signals' = IF taken THEN table ELSE Append(table, new)
      /\ inbound' = [inbound EXCEPT ![m] = shown]
  BY DEF Store
<1>3. inbound'[m] = shown /\ \A n \in Messages \ {m} : inbound'[n] = inbound[n]
  BY <1>2 DEF Types
<1>4. DOMAIN table = 1..Len(table) /\ Len(table) \in Nat /\ Range(table) \subseteq SignalRow
      /\ \A i \in 1..Len(table) : table[i] \in Range(table)
  BY TableFacts
<1>5. \A row \in Range(signals) : row.message \in Messages
  BY RowFacts
<1>6. \A n \in Messages \ {m} : \A row : row \in Range(table) /\ row.message = n
                                           <=> row \in Range(signals) /\ row.message = n
  OBVIOUS
<1>7. \A n \in Messages : n \in StoredMessages <=> \E row \in Range(signals) : row.message = n
  BY DEF StoredMessages
<1>8. \A n \in Messages : n \in StoredMessages' <=> \E row \in Range(signals') : row.message = n
  BY DEF StoredMessages
<1>9. Marked' = Marked
  BY DEF Marked
<1>10. \A row \in Range(table) : row.print = Content[inbound'[row.message].text]
  BY <1>3, <1>5 DEF Agreement
<1>11. CASE taken
  <2>1. signals' = table
    BY <1>2, <1>11
  <2>2. \A n \in Messages : Shown(n)'
    <3>1. ASSUME NEW n \in Messages \ {m} PROVE Shown(n)'
      BY <1>3, <1>6, <1>7, <1>8, <1>9, <2>1 DEF Agreement, Shown
    <3>2. Shown(m)'
      BY <1>3, <1>8, <1>11, <2>1 DEF Shown
    <3>3. QED BY <3>1, <3>2
  <2>3. QED BY <1>10, <2>1, <2>2 DEF Agreement, Distinct
<1>12. CASE ~taken
  <2>1. signals' = Append(table, new)
    BY <1>2, <1>12
  <2> HIDE DEF new, taken
  <2>2. /\ signals' \in Seq(SignalRow) /\ Len(signals') = Len(table) + 1
        /\ signals'[Len(table) + 1] = new /\ \A i \in 1..Len(table) : signals'[i] = table[i]
        /\ Range(signals') = Range(table) \cup {new}
    BY <1>1, <2>1, AppendFacts
  <2>3. new.message = m /\ new.print = Content[text] /\ inbound'[m].outcome = "stored"
        /\ inbound'[m].text = text
    BY <1>3, <1>12 DEF new
  <2>4. \A n \in Messages : Shown(n)'
    <3>1. ASSUME NEW n \in Messages \ {m} PROVE Shown(n)'
      BY <1>3, <1>6, <1>7, <1>8, <1>9, <2>2, <2>3 DEF Agreement, Shown
    <3>2. Shown(m)'
      BY <1>8, <2>2, <2>3 DEF Shown
    <3>3. QED BY <3>1, <3>2
  <2>5. \A row \in Range(signals') : row.print = Content[inbound'[row.message].text]
    BY <1>10, <2>2, <2>3
  <2>6. \A i \in 1..Len(table) : table[i].print # Content[text] /\ table[i].message # m
    BY <1>4, <1>12 DEF taken
  <2>7. Distinct(signals')
    <3>1. SUFFICES ASSUME NEW i \in 1..(Len(table) + 1), NEW j \in 1..(Len(table) + 1),
                          signals'[i].print = signals'[j].print
                            \/ signals'[i].message = signals'[j].message
                   PROVE  i = j
      BY <2>2 DEF Distinct
    <3>2. (i \in 1..Len(table) \/ i = Len(table) + 1) /\ (j \in 1..Len(table) \/ j = Len(table) + 1)
      BY <1>4
    <3>3. CASE i \in 1..Len(table) /\ j \in 1..Len(table)
      BY <1>4, <2>2, <3>1, <3>3 DEF Distinct
    <3>4. CASE i = Len(table) + 1 \/ j = Len(table) + 1
      BY <2>2, <2>3, <2>6, <3>1, <3>2, <3>4
    <3>5. QED BY <3>2, <3>3, <3>4
  <2>8. QED BY <2>2, <2>4, <2>5, <2>7 DEF Agreement, Distinct
<1>13. QED BY <1>11, <1>12

\* A table in which a message has no row, for a message that the store does not know.
LEMMA NewcomerTable ==
  ASSUME Agreement, NEW m \in Messages, m \notin StoredMessages
  PROVE  /\ signals \in Seq(SignalRow) /\ Distinct(signals)
         /\ \A row : row \in Range(signals) <=> row \in Range(signals) /\ row.message # m
BY DEF Agreement, StoredMessages

\* record_event keeps rows and signals in agreement.
LEMMA RecordAgrees ==
  ASSUME Types, Agreement, UNCHANGED topic,
         NEW m \in Messages, NEW text \in Texts, Content[text] # NoSignal,
         NEW edit, NEW found, RecordEvent(m, text, edit, found)
  PROVE  Agreement'
<1>1. CASE UNCHANGED <<inbound, signals>>
  BY <1>1 DEF Agreement, Distinct, Shown, StoredMessages, Marked
<1>2. CASE ~Collides(m, found) /\ found = Absent /\ Store(m, text, signals)
  <2>1. inbound[m] = NoRow
    BY <1>2 DEF Collides
  <2>2. m \notin StoredMessages
    BY <2>1 DEF Agreement, Shown, NoRow
  <2>3. QED BY <1>2, <2>2, NewcomerTable, StoreAgrees
<1>3. CASE Store(m, text, Without(m))
  <2>1. signals \in Seq(SignalRow) /\ Distinct(signals)
    BY DEF Agreement
  <2>2. /\ Without(m) \in Seq(SignalRow) /\ Distinct(Without(m))
        /\ \A row : row \in Range(Without(m)) <=> row \in Range(signals) /\ row.message # m
    BY <2>1, WithoutFacts
  <2>3. QED BY <1>3, <2>2, StoreAgrees
<1>4. QED BY <1>1, <1>2, <1>3 DEF RecordEvent

\* reprocess_event keeps rows and signals in agreement.
LEMMA ReprocessAgrees ==
  ASSUME Types, Agreement, UNCHANGED topic, NEW m \in Messages, Reprocess(m)
  PROVE  Agreement'
<1>1. m \in repair /\ inbound \in [Messages -> Rows] /\ inbound[m] # NoRow
  BY DEF Reprocess, Types
<1>2. inbound[m] \in [text : Texts, outcome : Outcomes]
  BY <1>1 DEF Rows
<1>3. ASSUME NEW o \in {"stored", "invalid"}, o = "stored" <=> m \in StoredMessages,
             inbound' = [inbound EXCEPT ![m].outcome = o], UNCHANGED signals
      PROVE  Agreement'
  <2>1. /\ inbound'[m].text = inbound[m].text /\ inbound'[m].outcome = o
        /\ \A n \in Messages \ {m} : inbound'[n] = inbound[n]
    BY <1>1, <1>2, <1>3
  <2>2. StoredMessages' = StoredMessages /\ Marked' = Marked
    BY <1>3 DEF StoredMessages, Marked
  <2>3. \A n \in Messages : Shown(n)'
    BY <1>3, <2>1, <2>2 DEF Agreement, Shown
  <2>4. \A row \in Range(signals) : row.message \in Messages
    BY RowFacts
  <2>5. \A row \in Range(signals) : row.print = Content[inbound'[row.message].text]
    BY <2>1, <2>4 DEF Agreement
  <2>6. QED BY <1>3, <2>3, <2>5 DEF Agreement, Distinct
<1>4. CASE m \notin StoredMessages /\ Content[inbound[m].text] # NoSignal
           /\ Store(m, inbound[m].text, signals)
  BY <1>2, <1>4, NewcomerTable, StoreAgrees
<1>5. QED BY <1>3, <1>4 DEF Reprocess

\* The one transaction, if any, that a step makes.
LEMMA Transactions ==
  ASSUME Inv, Work, [IntakeNext]_intakeVars
  PROVE  /\ UNCHANGED topic
         /\ \/ UNCHANGED <<inbound, signals>>
            \/ \E m \in Messages : Reprocess(m) /\ UNCHANGED published
            \/ \E m \in Messages, text \in Texts, edit \in BOOLEAN, found \in Texts \cup {Unread, Absent} :
                 /\ Content[text] # NoSignal
                 /\ edit => Edited(m, text)
                 /\ RecordEvent(m, text, edit, found)
                 /\ UNCHANGED published
<1>1. Types /\ Behind
  BY DEF Inv
<1>2. ASSUME NEW t \in tasks, Ingest(t)
      PROVE  \E m \in Messages, text \in Texts, edit \in BOOLEAN, found \in Texts \cup {Unread, Absent} :
               /\ Content[text] # NoSignal
               /\ edit => Edited(m, text)
               /\ RecordEvent(m, text, edit, found)
               /\ UNCHANGED published
  <2>1. t.message \in Messages /\ t.text \in Texts /\ t.edit \in BOOLEAN
        /\ t.found \in Texts \cup {Unread, Absent}
    BY <1>1 DEF Types
  <2>2. Content[t.text] # NoSignal /\ (t.edit => Edited(t.message, t.text))
    BY DEF Work
  <2>3. RecordEvent(t.message, t.text, t.edit, t.found) /\ UNCHANGED published
    BY <1>2 DEF Ingest
  <2>4. QED BY <2>1, <2>2, <2>3
<1>3. ASSUME BackfillRecords, UNCHANGED published
      PROVE  \E m \in Messages, text \in Texts, edit \in BOOLEAN, found \in Texts \cup {Unread, Absent} :
               /\ Content[text] # NoSignal
               /\ edit => Edited(m, text)
               /\ RecordEvent(m, text, edit, found)
               /\ UNCHANGED published
  <2>1. backfill.at \in Messages /\ backfill.text \in Texts /\ backfill.edit \in BOOLEAN
        /\ backfill.found \in Texts \cup {Unread, Absent}
    BY <1>1, <1>3 DEF Types, Behind, BackfillRecords
  <2>2. Content[backfill.text] # NoSignal /\ (backfill.edit => Edited(backfill.at, backfill.text))
    BY <1>3 DEF Work, BackfillRecords
  <2>3. RecordEvent(backfill.at, backfill.text, backfill.edit, backfill.found)
    BY <1>3 DEF BackfillRecords
  <2>4. QED BY <1>3, <2>1, <2>2, <2>3
<1>4. UNCHANGED topic
  BY DEF IntakeNext, intakeVars, Publish, Edit, Connect, Disconnect, Look, Ingest, BackfillStep,
         BackfillFails, RepairStep, WorkerStep
<1>5. CASE UNCHANGED intakeVars
  BY <1>4, <1>5 DEF intakeVars
<1>6. CASE \/ \E m \in Messages : Publish(m) \/ Edit(m)
           \/ Connect \/ Disconnect \/ BackfillFails \/ WorkerStep
  BY <1>4, <1>6 DEF Publish, Edit, Connect, Disconnect, BackfillFails, WorkerStep
<1>7. CASE \E t \in tasks : Look(t) \/ Ingest(t)
  BY <1>2, <1>4, <1>7 DEF Look
<1>8. CASE BackfillStep
  <2>1. CASE BackfillRecords
    BY <1>3, <1>4, <1>8, <2>1 DEF BackfillStep
  <2>2. CASE ~BackfillRecords
    BY <1>4, <1>8, <2>2 DEF BackfillStep, BackfillStarts, BackfillAdvances, BackfillEnds,
                            BackfillSkips, BackfillRefuses, BackfillLooks
  <2>3. QED BY <2>1, <2>2
<1>9. CASE RepairStep
  <2>1. CASE RepairStarts
    BY <1>4, <2>1 DEF RepairStarts
  <2>2. CASE \E m \in Messages : Reprocess(m)
    BY <1>4, <1>9, <2>2 DEF RepairStep
  <2>3. QED BY <1>9, <2>1, <2>2 DEF RepairStep
<1>10. QED BY <1>5, <1>6, <1>7, <1>8, <1>9 DEF IntakeNext

\* No step takes rows and signals apart.
LEMMA NextAgreement == ASSUME Inv, Work, Agreement, [IntakeNext]_intakeVars PROVE Agreement'
<1>1. UNCHANGED topic /\ Types
  BY Transactions DEF Inv
<1>2. CASE UNCHANGED <<inbound, signals>>
  BY <1>1, <1>2 DEF Agreement, Distinct, Shown, StoredMessages, Marked
<1>3. CASE \E m \in Messages : Reprocess(m)
  BY <1>1, <1>3, ReprocessAgrees
<1>4. ASSUME NEW m \in Messages, NEW text \in Texts, NEW edit, NEW found,
             Content[text] # NoSignal, RecordEvent(m, text, edit, found)
      PROVE  Agreement'
  BY <1>1, <1>4, RecordAgrees
<1>5. QED BY <1>2, <1>3, <1>4, Transactions

\* A deleted row comes back with the same content unless the text is another.
LEMMA EndedByEdit ==
  ASSUME Types, Agreement,
         NEW m \in Messages, NEW text \in Texts, Content[text] # NoSignal, NEW edit, NEW found,
         RecordEvent(m, text, edit, found), NEW row \in Range(signals) \ Range(signals')
  PROVE  /\ row.message = m /\ edit
         /\ inbound'[m].text = text /\ inbound[m].text # text
<1>1. /\ ~Repeated(text, edit, found)
      /\ Store(m, text, IF found = Absent THEN signals ELSE Without(m))
  BY DEF RecordEvent
<1>2. signals \in Seq(SignalRow) /\ Distinct(signals)
  BY DEF Agreement
<1>3. /\ Without(m) \in Seq(SignalRow) /\ Distinct(Without(m))
      /\ \A r : r \in Range(Without(m)) <=> r \in Range(signals) /\ r.message # m
  BY <1>2, WithoutFacts
<1> DEFINE new == [message |-> m, print |-> Content[text]]
<1>4. new \in SignalRow /\ new.message = m /\ new.print = Content[text]
  BY DEF SignalRow, Range, Texts
<1> HIDE DEF new
<1>5. ASSUME NEW table \in Seq(SignalRow), Store(m, text, table)
      PROVE  /\ Range(table) \subseteq Range(signals')
             /\ (\A r \in Range(table) : r.print # Content[text]) => new \in Range(signals')
  <2>1. Range(Append(table, new)) = Range(table) \cup {new}
    BY <1>4, AppendFacts
  <2>2. signals' = IF \E r \in Range(table) : r.print = Content[text] THEN table
                   ELSE Append(table, new)
    BY <1>5 DEF Store, new
  <2>3. QED BY <2>1, <2>2
<1>6. found # Absent
  BY <1>1, <1>2, <1>5
<1>7. edit /\ row.message = m /\ Store(m, text, Without(m))
  BY <1>1, <1>3, <1>5, <1>6 DEF Repeated
<1>8. inbound'[m].text = text
  BY <1>7 DEF Store, Types
<1>9. ASSUME inbound[m].text = text PROVE FALSE
  <2>1. row.print = new.print /\ row.message = new.message
    BY <1>4, <1>7, <1>9 DEF Agreement
  <2>2. row \in SignalRow
    BY <1>2, TableFacts
  <2>3. row = new
    BY <1>4, <2>1, <2>2 DEF SignalRow
  <2>4. \A r \in Range(signals) : r.print = new.print => r = row
    BY <1>2, <2>1, TableFacts DEF Distinct
  <2>5. \A r \in Range(Without(m)) : r.print # Content[text]
    BY <1>3, <1>4, <1>7, <2>4
  <2>6. QED BY <1>3, <1>5, <1>7, <2>3, <2>5
<1>10. QED BY <1>7, <1>8, <1>9

\* The step behind SignalsEndByEdit.
LEMMA EndStep ==
  ASSUME Inv, Work, Agreement, [IntakeNext]_intakeVars,
         NEW row \in Range(signals) \ Range(signals')
  PROVE  LET m == row.message
         IN  /\ inbound'[m].text # inbound[m].text
             /\ \E i \in 2..published[m] : Versions[m][i] = inbound'[m].text
<1>1. Types
  BY DEF Inv
<1>2. CASE UNCHANGED <<inbound, signals>>
  BY <1>2
<1>3. ASSUME NEW m \in Messages, Reprocess(m) PROVE FALSE
  <2>1. Store(m, inbound[m].text, signals) /\ inbound[m].text \in Texts
        /\ Content[inbound[m].text] # NoSignal
    <3>1. m \in repair /\ inbound \in [Messages -> Rows] /\ inbound[m] # NoRow
      BY <1>1, <1>3 DEF Reprocess, Types
    <3>2. inbound[m] \in [text : Texts, outcome : Outcomes]
      BY <3>1 DEF Rows
    <3>3. QED BY <1>3, <3>2 DEF Reprocess
  <2> DEFINE new == [message |-> m, print |-> Content[inbound[m].text]]
  <2>2. new \in SignalRow
    BY <2>1 DEF SignalRow, Range, Texts
  <2>3. signals' = signals \/ signals' = Append(signals, new)
    BY <2>1 DEF Store
  <2> HIDE DEF new
  <2>4. signals \in Seq(SignalRow)
    BY DEF Agreement
  <2>5. Range(Append(signals, new)) = Range(signals) \cup {new}
    BY <2>2, <2>4, AppendFacts
  <2>6. QED BY <2>3, <2>5
<1>4. ASSUME NEW m \in Messages, NEW text \in Texts, NEW edit \in BOOLEAN, NEW found,
             Content[text] # NoSignal, edit => Edited(m, text), RecordEvent(m, text, edit, found)
      PROVE  /\ inbound'[row.message].text # inbound[row.message].text
             /\ Edited(row.message, inbound'[row.message].text)
  BY <1>1, <1>4, EndedByEdit
<1>5. Edited(row.message, inbound'[row.message].text) =>
        \E i \in 2..published[row.message] :
          Versions[row.message][i] = inbound'[row.message].text
  BY DEF Edited
<1>6. QED BY <1>2, <1>3, <1>4, <1>5, Transactions

\* A finite set as a sequence: each member once.
LEMMA SetToSeqFacts ==
  ASSUME NEW S, IsFiniteSet(S)
  PROVE  /\ SetToSeq(S) \in Seq(S)
         /\ \A i, j \in DOMAIN SetToSeq(S) : SetToSeq(S)[i] = SetToSeq(S)[j] => i = j
         /\ \A x : x \in S <=> x \in Range(SetToSeq(S))
<1>1. Cardinality(S) \in Nat /\ ExistsBijection(1..Cardinality(S), S)
  BY FS_CardinalityType
<1>2. \E f \in [1..Cardinality(S) -> S] : IsInjective(f)
  BY <1>1 DEF ExistsBijection, Bijection, Injection
<1>3. PICK s : s = SetToSeq(S)
  OBVIOUS
<1>4. s \in [1..Cardinality(S) -> S] /\ IsInjective(s)
  BY <1>2, <1>3 DEF SetToSeq
<1>5. s \in Surjection(1..Cardinality(S), S)
  <2>1. s \in Injection(1..Cardinality(S), S)
    BY <1>4 DEF Injection
  <2>2. IsFiniteSet(1..Cardinality(S)) /\ Cardinality(1..Cardinality(S)) = Cardinality(S)
    <3>1. 1 \in Int /\ Cardinality(S) \in Int /\ (1 > Cardinality(S) => Cardinality(S) = 0)
      BY <1>1
    <3>2. QED BY <1>1, <3>1, FS_Interval
  <2>3. QED BY <2>1, <2>2, FS_Injection
<1>6. s \in Seq(S)
  BY <1>1, <1>4
<1>7. \A x : x \in S <=> x \in Range(s)
  BY <1>4, <1>5 DEF Surjection, Range
<1>8. QED BY <1>3, <1>4, <1>6, <1>7 DEF IsInjective

\* A table has finitely many messages.
LEMMA StoredIsFinite ==
  ASSUME Agreement
  PROVE  IsFiniteSet(StoredMessages) /\ StoredMessages \subseteq Messages
<1>1. /\ Len(signals) \in Nat
      /\ \A row : row \in Range(signals) <=> \E i \in 1..Len(signals) : signals[i] = row
  BY TableFacts DEF Agreement
<1> DEFINE f == [i \in 1..Len(signals) |-> signals[i].message]
<1>2. f \in Surjection(1..Len(signals), StoredMessages)
  <2>1. \A i \in 1..Len(signals) : signals[i].message \in StoredMessages
    BY <1>1 DEF StoredMessages
  <2>2. \A m \in StoredMessages : \E i \in 1..Len(signals) : signals[i].message = m
    BY <1>1 DEF StoredMessages
  <2>3. QED BY <2>1, <2>2 DEF Surjection
<1>3. IsFiniteSet(1..Len(signals))
  <2>1. 1 \in Int /\ Len(signals) \in Int
    BY <1>1
  <2>2. QED BY <2>1, FS_Interval
<1> HIDE DEF f
<1>4. IsFiniteSet(StoredMessages)
  BY <1>2, <1>3, FS_Surjection
<1>5. QED BY <1>4, RowFacts DEF StoredMessages

\* The newest stored message, or zero.
LEMMA GreatestStored ==
  ASSUME Agreement
  PROVE  Greatest(StoredMessages) \in Nat
<1>1. IsFiniteSet(StoredMessages) /\ StoredMessages \subseteq Nat
  BY StoredIsFinite, IntakeAssumption
<1>2. CASE StoredMessages = {}
  BY <1>2 DEF Greatest
<1>3. CASE StoredMessages # {}
  <2>1. StoredMessages \subseteq Int
    BY <1>1
  <2>2. \E m \in StoredMessages : \A n \in StoredMessages : n <= m
    BY <1>1, <1>3, <2>1, GreatestExists
  <2>3. QED BY <1>1, <1>3, <2>2 DEF Greatest
<1>4. QED BY <1>2, <1>3

\* The first rows of an earlier release agree with what it recorded.
LEMMA InitAgreement == IntakeInit => Agreement
<1> SUFFICES ASSUME IntakeInit PROVE Agreement
  OBVIOUS
<1> DEFINE row(m) == [message |-> m, print |-> Content[Versions[m][1]]]
           S == {row(m) : m \in Marked}
<1>1. /\ topic \in Topics /\ Versions \in [Messages -> Seq(Texts)] /\ Marked \subseteq Messages
      /\ Marked \subseteq Legacy
  BY TopicType DEF IntakeInit, Legacy
<1>2. \A m, n \in Marked : m = n
  BY <1>1, IntakeAssumption DEF Marked
<1>3. \A m \in Marked : Versions[m] # <<>> /\ Content[Versions[m][1]] # NoSignal
  BY <1>1, IntakeAssumption DEF Marked, Versions
<1>4. \A m \in Marked : Versions[m][1] \in Texts
  <2> SUFFICES ASSUME NEW m \in Marked PROVE Versions[m][1] \in Texts
    OBVIOUS
  <2>1. Versions[m] \in Seq(Texts) /\ Versions[m] # <<>>
    BY <1>1, <1>3
  <2>2. QED BY <2>1
<1>5. S \subseteq SignalRow
  BY <1>1, <1>3, <1>4 DEF SignalRow, Range, Texts
<1>6. IsFiniteSet(S)
  <2>1. CASE Marked = {}
    BY <2>1, FS_EmptySet
  <2>2. CASE Marked # {}
    <3>1. PICK m \in Marked : TRUE
      BY <2>2
    <3>2. S = {row(m)}
      BY <1>2, <3>1
    <3>3. QED BY <3>2, FS_Singleton
  <2>3. QED BY <2>1, <2>2
<1>7. \A r \in S : r.message \in Marked /\ r.print = Content[Versions[r.message][1]]
  OBVIOUS
<1>8. \A m \in Marked : \E r \in S : r.message = m
  <2>1. \A m \in Marked : row(m) \in S /\ row(m).message = m
    OBVIOUS
  <2>2. QED BY <2>1
<1>9. \A r, q \in S : r = q
  BY <1>2
<1>10. signals = SetToSeq(S)
  BY DEF IntakeInit
<1> HIDE DEF S
<1>11. /\ signals \in Seq(S) /\ \A x : x \in S <=> x \in Range(signals)
       /\ \A i, j \in DOMAIN signals : signals[i] = signals[j] => i = j
  BY <1>6, <1>10, SetToSeqFacts
<1>12. signals \in Seq(SignalRow)
  <2>1. DOMAIN signals = 1..Len(signals) /\ \A i \in 1..Len(signals) : signals[i] \in S
    BY <1>11
  <2>2. QED BY <1>5, <1>11, <2>1
<1>13. Distinct(signals)
  <2>1. \A i \in DOMAIN signals : signals[i] \in S
    BY <1>11 DEF Range
  <2>2. QED BY <1>9, <1>11, <2>1 DEF Distinct
<1>14. \A m \in Messages : m \in StoredMessages <=> m \in Marked
  BY <1>7, <1>8, <1>11 DEF StoredMessages
<1>15. \A m \in Messages : Shown(m)
  <2>1. \A m \in Messages :
          inbound[m].outcome = IF m \in Marked THEN "duplicate_message"
                               ELSE IF m \in Legacy THEN "invalid" ELSE "none"
    BY <1>1 DEF IntakeInit, NoRow
  <2>2. QED BY <1>14, <2>1 DEF Shown
<1>16. \A r \in Range(signals) : r.print = Content[inbound[r.message].text]
  BY <1>1, <1>7, <1>11 DEF IntakeInit
<1>17. QED BY <1>12, <1>13, <1>15, <1>16 DEF Agreement

-------------------------------------------------------------------------------
(* The worker's cursor. *)

Cursors ==
  /\ online \in BOOLEAN /\ failures \in 0..MaxFailures
  /\ batch \subseteq Messages
  /\ cursor \in Nat \cup {NotStarted} /\ boundary \in Nat \cup {NotStarted}
  /\ runs \subseteq Range(Content)

\* The cursor, the instants of the connection and the runs keep their types.
LEMMA NextCursors ==
  ASSUME Inv, Agreement, Cursors, [IntakeNext]_intakeVars
  PROVE  Cursors'
<1>1. Messages \subseteq Nat /\ MaxFailures \in Nat
  BY IntakeAssumption
<1>2. CASE UNCHANGED <<online, cursor, boundary, batch, runs, failures>>
  BY <1>2 DEF Cursors
<1>3. CASE UNCHANGED <<cursor, boundary, batch, runs>> /\ online' \in BOOLEAN
           /\ (failures' = failures \/ (failures < MaxFailures /\ failures' = failures + 1))
  BY <1>1, <1>3 DEF Cursors
<1>4. CASE WorkerStep
  <2>1. UNCHANGED online
    BY <1>4 DEF WorkerStep
  <2>2. CASE WorkerInitializes
    BY <2>1, <2>2, GreatestStored DEF WorkerInitializes, Cursors
  <2>3. CASE WorkerLists
    BY <2>1, <2>3, StoredIsFinite DEF WorkerLists, Cursors
  <2>4. ASSUME NEW m \in Messages, WorkerTakes(m) PROVE Cursors'
    <3>1. Taken(m) \subseteq Range(Content)
      BY RowFacts DEF Taken
    <3>2. cursor' = cursor \/ cursor' = m
      BY <2>4 DEF WorkerTakes
    <3>3. batch' \in {{}, batch \ {m}} /\ runs' \in {runs, runs \cup Taken(m)}
          /\ UNCHANGED boundary
      BY <2>4 DEF WorkerTakes
    <3>4. failures' = failures \/ (failures < MaxFailures /\ failures' = failures + 1)
      BY <2>4 DEF WorkerTakes
    <3>5. failures' \in 0..MaxFailures
      BY <1>1, <3>4 DEF Cursors
    <3>6. QED BY <1>1, <2>1, <3>1, <3>2, <3>3, <3>5 DEF Cursors
  <2>5. QED BY <1>4, <2>2, <2>3, <2>4 DEF WorkerStep
<1>5. CASE UNCHANGED intakeVars
  BY <1>2, <1>5 DEF intakeVars
<1>6. CASE Connect \/ Disconnect \/ BackfillFails
  <2>1. online \in BOOLEAN
    BY DEF Cursors
  <2>2. UNCHANGED <<cursor, boundary, batch, runs>>
    BY <1>6 DEF Connect, Disconnect, BackfillFails
  <2>3. failures' = failures \/ (failures < MaxFailures /\ failures' = failures + 1)
    BY <1>6 DEF Connect, Disconnect, BackfillFails
  <2>4. online' \in BOOLEAN
    BY <1>6, <2>1, Zenon DEF Connect, Disconnect, BackfillFails
  <2>5. QED BY <1>3, <2>2, <2>3, <2>4
<1>7. CASE \/ \E m \in Messages : Publish(m) \/ Edit(m)
           \/ \E t \in tasks : Look(t) \/ Ingest(t)
           \/ BackfillStep \/ RepairStep
  BY <1>2, <1>7 DEF Publish, Edit, Look, Ingest, BackfillStep, RepairStep
<1>8. QED BY <1>4, <1>5, <1>6, <1>7 DEF IntakeNext

NoEdits == \A m \in Messages : published[m] <= 1

\* The row was stored before any later message.
Early(i) == \A j \in 1..(i - 1) : signals[j].message < signals[i].message

\* A row beyond the boundary that was stored before any later one has been taken by the
\* time the cursor is past it, and is in the cycle that is about to take a later one.
InTurn(i) ==
  LET m == signals[i].message
  IN  Early(i) /\ boundary < m =>
        /\ m <= cursor => signals[i].print \in runs
        /\ cursor < m /\ (\E n \in batch : m < n) => m \in batch

Turns ==
  NoEdits =>
    /\ batch \subseteq StoredMessages
    /\ cursor = NotStarted => batch = {}
    /\ cursor # NotStarted =>
         /\ cursor = boundary \/ cursor \in StoredMessages
         /\ \A i \in DOMAIN signals : InTurn(i)

\* The turns are what the property says.
LEMMA TurnsAreTaken == Agreement /\ Turns => InOrderSignalsAreTaken
BY DEF Turns, NoEdits, InTurn, Early, InOrderSignalsAreTaken

\* Without edits the table only grows, by rows of messages that had none.
LEMMA TableGrows ==
  ASSUME Inv, Work, Agreement, NoEdits, [IntakeNext]_intakeVars
  PROVE  \/ UNCHANGED signals
         \/ \E row \in SignalRow : signals' = Append(signals, row)
<1>1. ASSUME NEW m \in Messages, NEW text \in Texts, Store(m, text, signals),
             Content[text] # NoSignal
      PROVE  \/ UNCHANGED signals
             \/ \E row \in SignalRow : signals' = Append(signals, row)
  <2>1. [message |-> m, print |-> Content[text]] \in SignalRow
    BY <1>1 DEF SignalRow, Range, Texts
  <2>2. QED BY <1>1, <2>1 DEF Store
<1>2. Types
  BY DEF Inv
<1>3. ASSUME NEW m \in Messages, NEW text \in Texts, NEW edit \in BOOLEAN, NEW found,
             Content[text] # NoSignal, edit => Edited(m, text), RecordEvent(m, text, edit, found)
      PROVE  \/ UNCHANGED signals
             \/ \E row \in SignalRow : signals' = Append(signals, row)
  <2>1. ~Edited(m, text)
    <3>1. published[m] \in Nat /\ published[m] <= 1
      BY <1>2 DEF Types, NoEdits
    <3>2. \A i \in 2..published[m] : FALSE
      BY <3>1
    <3>3. QED BY <3>2 DEF Edited
  <2>2. UNCHANGED signals \/ Store(m, text, signals)
    BY <1>3, <2>1 DEF RecordEvent, Repeated
  <2>3. QED BY <1>1, <1>3, <2>2
<1>4. ASSUME NEW m \in Messages, Reprocess(m)
      PROVE  \/ UNCHANGED signals
             \/ \E row \in SignalRow : signals' = Append(signals, row)
  <2>1. m \in repair /\ inbound \in [Messages -> Rows] /\ inbound[m] # NoRow
    BY <1>2, <1>4 DEF Reprocess, Types
  <2>2. inbound[m] \in [text : Texts, outcome : Outcomes]
    BY <2>1 DEF Rows
  <2>3. QED BY <1>1, <1>4, <2>2 DEF Reprocess
<1>5. QED BY <1>3, <1>4, Transactions

\* A table that only grows keeps the turns: a new row is early only if it is later than
\* the cursor and than the whole cycle.
LEMMA GrowthTurns ==
  ASSUME Agreement, Agreement', Cursors, Turns, NoEdits,
         UNCHANGED <<cursor, boundary, batch, runs>>,
         \/ UNCHANGED signals
         \/ \E row \in SignalRow : signals' = Append(signals, row)
  PROVE  Turns'
<1>1. CASE UNCHANGED signals
  BY <1>1 DEF Turns, InTurn, Early, StoredMessages
<1>2. ASSUME NEW row \in SignalRow, signals' = Append(signals, row) PROVE Turns'
  <2>1. signals \in Seq(SignalRow) /\ Len(signals) \in Nat /\ DOMAIN signals = 1..Len(signals)
    BY TableFacts DEF Agreement
  <2>2. /\ signals' \in Seq(SignalRow) /\ Len(signals') = Len(signals) + 1
        /\ signals'[Len(signals) + 1] = row
        /\ \A i \in 1..Len(signals) : signals'[i] = signals[i]
        /\ Range(signals') = Range(signals) \cup {row}
    <3>1. PICK t : t = Append(signals, row)
      OBVIOUS
    <3>2. /\ t \in Seq(SignalRow) /\ Len(t) = Len(signals) + 1 /\ t[Len(signals) + 1] = row
          /\ \A i \in 1..Len(signals) : t[i] = signals[i]
          /\ Range(t) = Range(signals) \cup {row}
      BY <2>1, <3>1, AppendFacts
    <3>3. signals' = t
      BY <1>2, <3>1
    <3>4. QED BY <3>2, <3>3
  <2>3. DOMAIN signals' = 1..(Len(signals) + 1)
    BY <2>2
  <2>4. StoredMessages \subseteq StoredMessages' /\ StoredMessages \subseteq Messages
    BY <2>2, StoredIsFinite DEF StoredMessages
  <2>5. Messages \subseteq Nat /\ row.message \in Messages
    BY IntakeAssumption DEF SignalRow
  <2>6. ASSUME cursor # NotStarted, NEW i \in DOMAIN signals' PROVE InTurn(i)'
    <3>1. CASE i \in 1..Len(signals)
      <4>1. \A j \in 1..(i - 1) : j \in 1..Len(signals)
        BY <2>1, <3>1
      <4>2. signals'[i] = signals[i] /\ (Early(i)' => Early(i))
        BY <2>2, <3>1, <4>1 DEF Early
      <4>3. InTurn(i)
        BY <2>1, <2>6, <3>1 DEF Turns
      <4>4. QED BY <4>2, <4>3 DEF InTurn
    <3>2. CASE i = Len(signals) + 1
      <4>1. SUFFICES ASSUME Early(i)', boundary < row.message
                     PROVE  /\ row.message <= cursor => row.print \in runs
                            /\ ~\E n \in batch : row.message < n
        BY <2>2, <3>2 DEF InTurn
      <4>2. ASSUME NEW n \in StoredMessages PROVE n < row.message
        <5>1. PICK j \in 1..Len(signals) : signals[j].message = n
          BY <2>1, TableFacts DEF StoredMessages
        <5>2. j \in 1..(i - 1)
          BY <2>1, <3>2, <5>1
        <5>3. QED BY <2>2, <3>2, <4>1, <5>1, <5>2 DEF Early
      <4>3. cursor = boundary \/ cursor \in StoredMessages
        BY <2>6 DEF Turns
      <4>4. batch \subseteq StoredMessages
        BY DEF Turns
      <4>5. cursor \in Nat /\ (\A n \in StoredMessages : n \in Nat) /\ row.message \in Nat
        BY <2>4, <2>5, <2>6 DEF Cursors
      <4>6. cursor < row.message
        BY <4>1, <4>2, <4>3
      <4>7. ~(row.message <= cursor)
        BY <4>5, <4>6
      <4>8. \A n \in batch : ~(row.message < n)
        BY <4>2, <4>4, <4>5
      <4>9. QED BY <4>7, <4>8
    <3>3. QED BY <2>1, <2>3, <3>1, <3>2
  <2>7. batch' \subseteq StoredMessages'
    BY <2>4 DEF Turns
  <2>8. cursor # NotStarted => cursor = boundary \/ cursor \in StoredMessages'
    BY <2>4 DEF Turns
  <2>9. QED BY <2>6, <2>7, <2>8 DEF Turns
<1>3. QED BY <1>1, <1>2

\* The worker takes the rows of a cycle in the order of their messages.
LEMMA WorkerTurns ==
  ASSUME Agreement, Cursors, Turns, NoEdits, WorkerStep
  PROVE  Turns'
<1>1. UNCHANGED <<signals, published>> /\ Messages \subseteq Nat
  BY IntakeAssumption DEF WorkerStep
<1>2. StoredMessages' = StoredMessages /\ StoredMessages \subseteq Messages
      /\ \A i : Early(i)' <=> Early(i)
  BY <1>1, StoredIsFinite DEF StoredMessages, Early
<1>3. ASSUME NEW i \in DOMAIN signals
      PROVE  /\ signals[i].message \in StoredMessages /\ signals[i].message \in Nat
             /\ signals[i].print \in Taken(signals[i].message)
  <2>1. signals[i] \in Range(signals)
    BY DEF Range
  <2>2. QED BY <1>1, <1>2, <2>1 DEF StoredMessages, Taken
<1>4. CASE WorkerInitializes
  <2>1. cursor' = boundary' /\ cursor' \in Nat /\ batch' = {} /\ UNCHANGED runs
    BY <1>4, GreatestStored DEF WorkerInitializes, Turns
  <2>2. ASSUME NEW i \in DOMAIN signals PROVE InTurn(i)'
    <3>1. ~(boundary' < signals[i].message /\ signals[i].message <= cursor')
      BY <1>3, <2>1
    <3>2. QED BY <1>1, <2>1, <3>1 DEF InTurn
  <2>3. QED BY <1>1, <2>1, <2>2 DEF Turns, NotStarted
<1>5. CASE WorkerLists
  <2>1. batch' = {m \in StoredMessages : m > cursor} /\ UNCHANGED <<cursor, boundary, runs>>
        /\ cursor # NotStarted
    BY <1>5 DEF WorkerLists
  <2>2. ASSUME NEW i \in DOMAIN signals PROVE InTurn(i)'
    <3>1. cursor < signals[i].message => signals[i].message \in batch'
      BY <1>3, <2>1
    <3>2. InTurn(i)
      BY <2>1, <2>2 DEF Turns
    <3>3. QED BY <1>1, <1>2, <2>1, <3>1, <3>2 DEF InTurn
  <2>3. QED BY <1>1, <1>2, <2>1, <2>2 DEF Turns
<1>6. ASSUME NEW m \in Messages, WorkerTakes(m) PROVE Turns'
  <2>1. m \in batch /\ (\A n \in batch : m <= n) /\ UNCHANGED boundary /\ cursor # NotStarted
    BY <1>6 DEF WorkerTakes, NextOfBatch, Turns
  <2>2. cursor \in Nat /\ m \in Nat
    BY <1>1, <2>1 DEF Cursors
  <2>3. CASE batch' = {} /\ runs \subseteq runs' /\ UNCHANGED cursor
    <3>1. ASSUME NEW i \in DOMAIN signals PROVE InTurn(i)'
      <4>1. InTurn(i)
        BY <2>1, <3>1 DEF Turns
      <4>2. QED BY <1>1, <1>2, <2>1, <2>3, <4>1 DEF InTurn
    <3>2. QED BY <1>1, <1>2, <2>1, <2>3, <3>1 DEF Turns
  <2>4. CASE m \in StoredMessages /\ runs' = runs \cup Taken(m) /\ batch' = batch \ {m}
             /\ cursor' = IF m > cursor THEN m ELSE cursor
    <3>1. cursor' \in Nat /\ cursor <= cursor' /\ m <= cursor' /\ cursor' \in {m, cursor}
      BY <2>2, <2>4
    <3>2. ASSUME NEW i \in DOMAIN signals PROVE InTurn(i)'
      <4> DEFINE n == signals[i].message
      <4>1. InTurn(i) /\ n \in Nat /\ signals[i].print \in Taken(n)
        BY <1>3, <2>1, <3>2 DEF Turns
      <4> HIDE DEF n
      <4>2. SUFFICES ASSUME Early(i), boundary < n
                     PROVE  /\ n <= cursor' => signals[i].print \in runs'
                            /\ cursor' < n /\ (\E x \in batch' : n < x) => n \in batch'
        BY <1>1, <1>2, <2>1 DEF InTurn, n
      <4>3. /\ n <= cursor => signals[i].print \in runs
            /\ cursor < n /\ (\E x \in batch : n < x) => n \in batch
        BY <4>1, <4>2 DEF InTurn, n
      <4>4. ASSUME n <= cursor' PROVE signals[i].print \in runs'
        <5>1. CASE n <= cursor
          BY <2>4, <4>3, <5>1
        <5>2. CASE n = m
          BY <2>4, <4>1, <5>2
        <5>3. CASE cursor < n /\ n < m
          <6>1. n \in batch
            BY <2>1, <4>3, <5>3
          <6>2. m <= n
            BY <2>1, <6>1
          <6>3. QED BY <2>2, <4>1, <5>3, <6>2
        <5>4. QED BY <2>2, <3>1, <4>1, <4>4, <5>1, <5>2, <5>3
      <4>5. ASSUME cursor' < n, NEW x \in batch', n < x PROVE n \in batch'
        <5>1. cursor < n /\ n # m /\ x \in batch
          BY <2>2, <2>4, <3>1, <4>1, <4>5
        <5>2. QED BY <2>4, <4>3, <4>5, <5>1
      <4>6. QED BY <4>4, <4>5
    <3>3. cursor' # NotStarted
      BY <3>1 DEF NotStarted
    <3>4. batch' \subseteq StoredMessages' /\ (cursor' = boundary' \/ cursor' \in StoredMessages')
      BY <1>2, <2>1, <2>4, <3>1 DEF Turns
    <3>5. QED BY <1>1, <3>2, <3>3, <3>4 DEF Turns
  <2>5. QED BY <1>6, <2>3, <2>4 DEF WorkerTakes
<1>7. QED BY <1>4, <1>5, <1>6 DEF WorkerStep

\* Every step keeps the turns.
LEMMA NextTurns ==
  ASSUME Inv, Work, Agreement, Agreement', Cursors, Turns, [IntakeNext]_intakeVars
  PROVE  Turns'
<1>1. NoEdits' => NoEdits
  <2>1. published' = published
        \/ \E m \in Messages : /\ published[m] \in Nat
                               /\ \/ published' = [published EXCEPT ![m] = 1] /\ published[m] = 0
                                  \/ published' = [published EXCEPT ![m] = @ + 1]
    BY DEF IntakeNext, intakeVars, Publish, Edit, Connect, Disconnect, Look, Ingest, BackfillStep,
           BackfillFails, RepairStep, WorkerStep, Inv, Types
  <2>2. published \in [Messages -> Nat]
    BY DEF Inv, Types
  <2>3. \A m \in Messages : published[m] <= published'[m] /\ published[m] \in Nat
                            /\ published'[m] \in Nat
    BY <2>1, <2>2
  <2>4. QED BY <2>3 DEF NoEdits
<1>2. SUFFICES ASSUME NoEdits PROVE Turns'
  BY <1>1 DEF Turns
<1>3. CASE WorkerStep
  BY <1>2, <1>3, WorkerTurns
<1>4. CASE ~WorkerStep
  <2>1. UNCHANGED <<cursor, boundary, batch, runs>>
    BY <1>4 DEF IntakeNext, intakeVars, Publish, Edit, Connect, Disconnect, Look, Ingest,
                BackfillStep, BackfillFails, RepairStep
  <2>2. QED BY <1>2, <2>1, GrowthTurns, TableGrows
<1>5. QED BY <1>3, <1>4

-------------------------------------------------------------------------------
(* The theorems. *)

\* What holds of the checkpoint, of the work in progress, of the table and of the cursor.
IntakeInv == Inv /\ Work /\ Agreement /\ Cursors /\ Turns

\* The inductive invariant holds in every state that SignalIntake reaches, whatever the
\* observer, the backfill, the reprocessing and the worker do.
THEOREM Invariance == IntakeSpec => []IntakeInv
<1>1. IntakeInit => IntakeInv
  <2>1. IntakeInit => Work
    BY DEF IntakeInit, Work, Off
  <2>2. IntakeInit => Cursors
    <3>1. 0 \in 0..MaxFailures
      BY IntakeAssumption
    <3>2. QED BY <3>1 DEF IntakeInit, Cursors
  <2>3. IntakeInit => Turns
    BY DEF IntakeInit, Turns
  <2>4. QED BY <2>1, <2>2, <2>3, InitInv, InitAgreement DEF IntakeInv
<1>2. IntakeInv /\ [IntakeNext]_intakeVars => IntakeInv'
  BY NextInv, NextWork, NextAgreement, NextCursors, NextTurns DEF IntakeInv
<1>3. QED BY <1>1, <1>2, PTL DEF IntakeSpec

\* Every variable of the intake keeps its type.
THEOREM TypesHold == IntakeSpec => []IntakeTypeOK
<1>1. IntakeInv => IntakeTypeOK
  <2>1. SUFFICES ASSUME IntakeInv PROVE IntakeTypeOK
    OBVIOUS
  <2>2. inbound \in [Messages -> [text : Texts \cup {NoSignal}, outcome : Outcomes]]
    <3>1. Rows \subseteq [text : Texts \cup {NoSignal}, outcome : Outcomes]
      BY DEF Rows, NoRow, Outcomes
    <3>2. QED BY <2>1, <3>1 DEF IntakeInv, Inv, Types
  <2>3. \A i \in DOMAIN signals :
          signals[i].message \in Messages /\ signals[i].print \in Range(Content) \ {NoSignal}
    <3>1. \A i \in DOMAIN signals : signals[i] \in Range(signals)
      BY DEF Range
    <3>2. QED BY <2>1, <3>1, RowFacts DEF IntakeInv
  <2>4. QED BY <2>1, <2>2, <2>3 DEF IntakeTypeOK, IntakeInv, Inv, Types, Cursors
<1>2. QED BY <1>1, Invariance, PTL

\* In whatever order updates, backfill and reprocessing come, a row of the signals table
\* stands for exactly the message and the text whose audit row says so, and no message and
\* no content has two (record_event, reprocess_event).
THEOREM RowsFollowTexts == IntakeSpec => []RowsAndSignalsAgree
<1>1. IntakeInv => RowsAndSignalsAgree
  BY AgreementAgrees DEF IntakeInv
<1>2. QED BY <1>1, Invariance, PTL

\* Without edits, the worker takes each signal that was stored before any later one and
\* beyond the boundary before its cursor is past it.
THEOREM CursorSkipsNothingInOrder == IntakeSpec => []InOrderSignalsAreTaken
<1>1. IntakeInv => InOrderSignalsAreTaken
  BY TurnsAreTaken DEF IntakeInv
<1>2. QED BY <1>1, Invariance, PTL

\* No late, repeated or reprocessed message takes a stored signal away: only an edit of the
\* author does that puts another text in its place.
THEOREM OnlyEditsEndSignals == IntakeSpec => SignalsEndByEdit
<1>1. IntakeInv /\ [IntakeNext]_intakeVars =>
        [\A row \in Range(signals) \ Range(signals') :
           LET m == row.message
           IN  /\ inbound'[m].text # inbound[m].text
               /\ \E i \in 2..published[m] : Versions[m][i] = inbound'[m].text]_intakeVars
  BY EndStep DEF IntakeInv
<1>2. QED BY <1>1, Invariance, PTL DEF IntakeSpec, SignalsEndByEdit

\* The checkpoint of backfill_history never passes a message that has always been a signal
\* of the expected sender without its audit row, nor a signal of another sender.
THEOREM CheckpointIsSafe == IntakeSpec => []CheckpointLeavesNothingBehind
<1>1. IntakeInv => CheckpointLeavesNothingBehind
  BY DEF IntakeInv, Inv, Behind, Handled, CheckpointLeavesNothingBehind
<1>2. QED BY <1>1, Invariance, PTL
===============================================================================
