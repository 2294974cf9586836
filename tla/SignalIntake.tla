------------------------------ MODULE SignalIntake ------------------------------
(***************************************************************************)
(* How a Telegram topic becomes rows of the signal store, and how the      *)
(* worker's cursor passes over them.  Four writers share the SQLite        *)
(* database: the live observer (one task per update, in any order), the    *)
(* backfill, the reprocessing of rows an earlier release left behind, and  *)
(* the worker, which only moves its cursor.                                *)
(*                                                                         *)
(* record_event looks a message up before its transaction begins, so the   *)
(* look-up and the write are separate steps.  The observer and the         *)
(* backfill hand over texts that the parser accepts, and no others.        *)
(* Reprocessing runs with both of them stopped (README.md:906).            *)
(***************************************************************************)
EXTENDS Integers, Sequences, SequencesExt, Functions

CONSTANTS
  Messages,    \* Telegram message ids of the topic
  Content,     \* the fingerprint of each text, or NoSignal
  NoSignal,
  Topics,      \* BOUND: the topics that an instance explores
  MaxFailures  \* BOUND: disconnections, crashes and failed requests

Texts == DOMAIN Content

\* What the author makes of each message (its text, then its edits), the messages of a
\* sender who is not the expected one, those an earlier release recorded as invalid, and
\* those it stored and then marked as a repetition (tests/test_audit_reprocess.py:69).
Topic ==
  [versions : [Messages -> Seq(Texts)], foreign : SUBSET Messages, invalid : SUBSET Messages,
   marked : SUBSET Messages]

ASSUME IntakeAssumption ==
  /\ Messages \subseteq Nat \ {0}
  /\ \A t \in Topics :
       /\ t \in Topic
       /\ t.foreign \cap (t.invalid \cup t.marked) = {} /\ t.invalid \cap t.marked = {}
       /\ \A m \in t.invalid \cup t.marked : \A n \in Messages :
            n <= m => n \in t.invalid \cup t.marked \/ t.versions[n] = <<>>
       /\ \A m \in t.invalid \cup t.marked : t.versions[m] # <<>>
       /\ \A m, n \in t.marked : m = n
       /\ \A m \in t.marked : Content[t.versions[m][1]] # NoSignal
  /\ NoSignal \notin Texts
  /\ MaxFailures \in Nat

VARIABLES
  topic,       \* the topic of this behaviour
  published,   \* how many versions of each message there are by now
  online,      \* the observer is connected
  tasks,       \* updates that the observer is working on
  inbound,     \* inbound_messages: message -> canonical row
  signals,     \* the signals table in order of insertion
  checkpoint,  \* topic_backfill_checkpoints
  backfill,    \* the backfill process
  repair,      \* messages that the reprocessing has yet to do
  cursor,      \* the worker's live cursor, -1 before its first cycle
  boundary,    \* the first value of the cursor (history variable)
  batch,       \* messages of the worker's cycle, still to be taken
  runs,        \* contents that the worker has taken
  failures

intakeVars ==
  <<topic, published, online, tasks, inbound, signals, checkpoint, backfill, repair, cursor,
    boundary, batch, runs, failures>>

Versions == topic.versions

Foreign == topic.foreign

Marked == topic.marked

Legacy == topic.invalid \cup Marked

NoRow == [text |-> NoSignal, outcome |-> "none"]

Outcomes == {"none", "stored", "duplicate_signal", "invalid", "duplicate_message"}

\* What a look-up of the message found.
Unread == "unread"
Absent == "absent"

Text(m) == Versions[m][published[m]]

\* Mutant: every text is handed over.
IsText(m) == published[m] > 0

IsSignal(m) == published[m] > 0 /\ Content[Text(m)] # NoSignal

Found(m) == IF inbound[m] = NoRow THEN Absent ELSE inbound[m].text

StoredMessages == {row.message : row \in Range(signals)}

Greatest(S) == IF S = {} THEN 0 ELSE CHOOSE m \in S : \A n \in S : n <= m

-------------------------------------------------------------------------------
(* The store. *)

\* A message has at most one row, which an edit deletes.
Without(m) ==
  IF m \in StoredMessages
  THEN RemoveAt(signals, CHOOSE i \in DOMAIN signals : signals[i].message = m)
  ELSE signals

\* _store_signal and _update_inbound: a content that another message holds is not
\* stored again.
Store(m, text, table) ==
  LET taken == \E row \in Range(table) : row.print = Content[text]
  IN  /\ signals' = IF taken THEN table
                    ELSE Append(table, [message |-> m, print |-> Content[text]])
      /\ inbound' = [inbound EXCEPT ![m] =
           [text |-> text, outcome |-> IF taken THEN "duplicate_signal" ELSE "stored"]]

\* Only an edit that changes the text replaces what is known of a message.
Repeated(text, edit, found) == found # Absent /\ (~edit \/ found = text)

\* Two writers that both found no row: the second insertion breaks a uniqueness
\* constraint and its transaction is rolled back.
Collides(m, found) == found = Absent /\ inbound[m] # NoRow

\* Mutant: an edit leaves the signal of the earlier text in place.
RecordEventKeeping(m, text, edit, found) ==
  \/ /\ Repeated(text, edit, found) \/ Collides(m, found)
     /\ UNCHANGED <<inbound, signals>>
  \/ /\ ~Repeated(text, edit, found) /\ ~Collides(m, found)
     /\ Store(m, text, signals)

\* Mutant: a repeated message is stored anew like an edit.
RecordEventAnew(m, text, edit, found) ==
  \/ /\ Collides(m, found)
     /\ UNCHANGED <<inbound, signals>>
  \/ /\ ~Collides(m, found)
     /\ signals' = Append(Without(m), [message |-> m, print |-> Content[text]])
     /\ inbound' = [inbound EXCEPT ![m] = [text |-> text, outcome |-> "stored"]]

\* record_event
RecordEvent(m, text, edit, found) ==
  \/ /\ Repeated(text, edit, found) \/ Collides(m, found)
     /\ UNCHANGED <<inbound, signals>>
  \/ /\ ~Repeated(text, edit, found) /\ ~Collides(m, found)
     /\ Store(m, text, IF found = Absent THEN signals ELSE Without(m))

-------------------------------------------------------------------------------
(* The author and the observer. *)

\* ingest_event turns away what is no signal or not from the expected sender; what
\* is published while the observer is away does not reach it any more.
Deliver(m, text, edit) ==
  tasks' = IF online /\ Content[text] # NoSignal /\ m \notin Foreign
           THEN tasks \cup {[message |-> m, text |-> text, edit |-> edit, found |-> Unread]}
           ELSE tasks

\* Message ids ascend in the order of publication.
Publish(m) ==
  /\ published[m] = 0 /\ Versions[m] # <<>>
  /\ \A n \in Messages : n < m /\ Versions[n] # <<>> => published[n] > 0
  /\ published' = [published EXCEPT ![m] = 1]
  /\ Deliver(m, Versions[m][1], FALSE)
  /\ UNCHANGED <<topic, online, inbound, signals, checkpoint, backfill, repair, cursor, boundary,
                 batch, runs, failures>>

Edit(m) ==
  /\ published[m] \in 1..(Len(Versions[m]) - 1)
  /\ published' = [published EXCEPT ![m] = @ + 1]
  /\ Deliver(m, Versions[m][published'[m]], TRUE)
  /\ UNCHANGED <<topic, online, inbound, signals, checkpoint, backfill, repair, cursor, boundary,
                 batch, runs, failures>>

Connect ==
  /\ ~online
  /\ repair = {}
  /\ online' = TRUE
  /\ UNCHANGED <<topic, published, tasks, inbound, signals, checkpoint, backfill, repair, cursor,
                 boundary, batch, runs, failures>>

\* A lost connection leaves the running tasks to their end, a killed process does not.
Disconnect ==
  /\ online
  /\ failures < MaxFailures
  /\ online' = FALSE
  /\ tasks' \in {tasks, {}}
  /\ failures' = failures + 1
  /\ UNCHANGED <<topic, published, inbound, signals, checkpoint, backfill, repair, cursor,
                 boundary, batch, runs>>

Look(t) ==
  /\ t.found = Unread
  /\ tasks' = (tasks \ {t}) \cup {[t EXCEPT !.found = Found(t.message)]}
  /\ UNCHANGED <<topic, published, online, inbound, signals, checkpoint, backfill, repair, cursor,
                 boundary, batch, runs, failures>>

Ingest(t) ==
  /\ t.found # Unread
  /\ RecordEvent(t.message, t.text, t.edit, t.found)
  /\ tasks' = tasks \ {t}
  /\ UNCHANGED <<topic, published, online, checkpoint, backfill, repair, cursor, boundary, batch,
                 runs, failures>>

-------------------------------------------------------------------------------
(* backfill_history: messages beyond the checkpoint, in ascending order. *)

Off(at) == [pc |-> "off", at |-> at, text |-> NoSignal, edit |-> FALSE, found |-> Unread]

\* The next message that the history has to offer.
Coming(m) ==
  /\ backfill.pc = "scan"
  /\ m > backfill.at /\ published[m] > 0
  /\ \A n \in Messages : n > backfill.at /\ published[n] > 0 => m <= n

\* advance_backfill_checkpoint never goes back.
Advanced(m) == IF m > checkpoint THEN m ELSE checkpoint

BackfillStarts ==
  /\ backfill.pc = "off"
  /\ repair = {}
  /\ \E m \in Messages : m > checkpoint /\ published[m] > 0
  /\ backfill' = [Off(checkpoint) EXCEPT !.pc = "scan"]
  /\ UNCHANGED <<inbound, signals, checkpoint>>

BackfillSkips(m) ==
  /\ Coming(m)
  /\ ~IsSignal(m)
  /\ checkpoint' = Advanced(m)
  /\ backfill' = [backfill EXCEPT !.at = m]
  /\ UNCHANGED <<inbound, signals>>

\* A signal of another sender stops the backfill in front of it.
BackfillRefuses(m) ==
  /\ Coming(m)
  /\ IsSignal(m) /\ m \in Foreign
  /\ backfill' = Off(0)
  /\ UNCHANGED <<inbound, signals, checkpoint>>

BackfillLooks(m) ==
  /\ Coming(m)
  /\ IsSignal(m) /\ m \notin Foreign
  /\ backfill' = [pc |-> "looked", at |-> m, text |-> Text(m), edit |-> published[m] > 1,
                  found |-> Found(m)]
  /\ UNCHANGED <<inbound, signals, checkpoint>>

\* An error while the message is recorded stops the backfill before its checkpoint.
BackfillRecords ==
  /\ backfill.pc = "looked"
  /\ RecordEvent(backfill.at, backfill.text, backfill.edit, backfill.found)
  /\ backfill' = IF Collides(backfill.at, backfill.found) THEN Off(0)
                 ELSE [backfill EXCEPT !.pc = "recorded"]
  /\ UNCHANGED checkpoint

\* Mutant: the checkpoint moves before the message is recorded.
AdvancesFrom == {"looked", "recorded"}

Recorded == {"recorded"}

BackfillAdvances ==
  /\ backfill.pc \in Recorded
  /\ checkpoint' = Advanced(backfill.at)
  /\ backfill' = [Off(backfill.at) EXCEPT !.pc = "scan"]
  /\ UNCHANGED <<inbound, signals>>

BackfillEnds ==
  /\ backfill.pc = "scan"
  /\ \A m \in Messages : published[m] > 0 => m <= backfill.at
  /\ backfill' = Off(0)
  /\ UNCHANGED <<inbound, signals, checkpoint>>

BackfillStep ==
  /\ \/ BackfillStarts \/ BackfillRecords \/ BackfillAdvances \/ BackfillEnds
     \/ \E m \in Messages : BackfillSkips(m) \/ BackfillRefuses(m) \/ BackfillLooks(m)
  /\ UNCHANGED <<topic, published, online, tasks, repair, cursor, boundary, batch, runs, failures>>

\* A flood wait, an RPC error, a lost connection, or the process dies.
BackfillFails ==
  /\ backfill.pc # "off"
  /\ failures < MaxFailures
  /\ backfill' = Off(0)
  /\ failures' = failures + 1
  /\ UNCHANGED <<topic, published, online, tasks, inbound, signals, checkpoint, repair, cursor,
                 boundary, batch, runs>>

-------------------------------------------------------------------------------
(* reprocess-audit *)

Reprocessable == {m \in Messages : inbound[m].outcome \in {"invalid", "duplicate_message"}}

RepairStarts ==
  /\ repair = {}
  /\ ~online /\ tasks = {} /\ backfill.pc = "off"
  /\ Reprocessable # {}
  /\ repair' = Reprocessable
  /\ UNCHANGED <<inbound, signals>>

\* reprocess_event, in the order of the ids: a row that has its signal is stored, a
\* text that the parser still refuses stays invalid.
Reprocess(m) ==
  /\ m \in repair
  /\ \A n \in repair : m <= n
  /\ repair' = repair \ {m}
  /\ LET text == inbound[m].text
     IN  \/ /\ m \in StoredMessages
            /\ inbound' = [inbound EXCEPT ![m].outcome = "stored"]
            /\ UNCHANGED signals
         \/ /\ m \notin StoredMessages
            /\ Content[text] = NoSignal
            /\ inbound' = [inbound EXCEPT ![m].outcome = "invalid"]
            /\ UNCHANGED signals
         \/ /\ m \notin StoredMessages
            /\ Content[text] # NoSignal
            /\ Store(m, text, signals)

RepairStep ==
  /\ RepairStarts \/ \E m \in Messages : Reprocess(m)
  /\ UNCHANGED <<topic, published, online, tasks, checkpoint, backfill, cursor, boundary, batch,
                 runs, failures>>

-------------------------------------------------------------------------------
(* The worker's cursor.  How long a signal stays fresh is DemoExecution's subject. *)

NotStarted == -1

\* The first cycle starts behind everything that is already stored.
WorkerInitializes ==
  /\ cursor = NotStarted
  /\ cursor' = Greatest(StoredMessages)
  /\ boundary' = cursor'
  /\ UNCHANGED <<batch, runs, failures>>

\* list_scoped_signals_after
WorkerLists ==
  /\ cursor # NotStarted
  /\ batch = {}
  /\ batch' = {m \in StoredMessages : m > cursor}
  /\ batch' # {}
  /\ UNCHANGED <<cursor, boundary, runs, failures>>

\* Mutant: the messages of a cycle are taken from the newest to the oldest.
FirstOfBatch(m) == \A n \in batch : n <= m

NextOfBatch(m) == \A n \in batch : m <= n

Taken(m) == {row.print : row \in {r \in Range(signals) : r.message = m}}

\* process reads the signal again by its message; an error before or after its run is
\* recorded, or a signal that is gone by now, ends the cycle and leaves the cursor behind.
WorkerTakes(m) ==
  /\ m \in batch
  /\ NextOfBatch(m)
  /\ \/ /\ m \in StoredMessages
        /\ runs' = runs \cup Taken(m)
        /\ cursor' = IF m > cursor THEN m ELSE cursor
        /\ batch' = batch \ {m}
        /\ UNCHANGED failures
     \/ /\ m \in StoredMessages
        /\ failures < MaxFailures
        /\ runs' \in {runs, runs \cup Taken(m)}
        /\ batch' = {}
        /\ failures' = failures + 1
        /\ UNCHANGED cursor
     \/ /\ m \notin StoredMessages
        /\ batch' = {}
        /\ UNCHANGED <<cursor, runs, failures>>
  /\ UNCHANGED boundary

WorkerStep ==
  /\ WorkerInitializes \/ WorkerLists \/ \E m \in Messages : WorkerTakes(m)
  /\ UNCHANGED <<topic, published, online, tasks, inbound, signals, checkpoint, backfill, repair>>

-------------------------------------------------------------------------------
IntakeInit ==
  /\ topic \in Topics
  /\ published = [m \in Messages |-> IF m \in Legacy THEN 1 ELSE 0]
  /\ online = FALSE /\ tasks = {}
  /\ inbound = [m \in Messages |->
       IF m \in Legacy
       THEN [text |-> Versions[m][1],
             outcome |-> IF m \in Marked THEN "duplicate_message" ELSE "invalid"]
       ELSE NoRow]
  /\ signals = SetToSeq({[message |-> m, print |-> Content[Versions[m][1]]] : m \in Marked})
  /\ checkpoint = 0 /\ backfill = Off(0) /\ repair = {}
  /\ cursor = NotStarted /\ boundary = NotStarted /\ batch = {} /\ runs = {}
  /\ failures = 0

IntakeNext ==
  \/ \E m \in Messages : Publish(m) \/ Edit(m)
  \/ Connect \/ Disconnect
  \/ \E t \in tasks : Look(t) \/ Ingest(t)
  \/ BackfillStep \/ BackfillFails
  \/ RepairStep
  \/ WorkerStep

IntakeSpec == IntakeInit /\ [][IntakeNext]_intakeVars

\* The operator runs the backfill again until it has caught up (README.md:164), however
\* often it waits for a reprocessing, which, once begun, comes to its end.
FairIntakeSpec == IntakeSpec /\ SF_intakeVars(BackfillStep) /\ WF_intakeVars(RepairStep)

-------------------------------------------------------------------------------
(* Properties. *)

\* Messages of the topic whose every version is a signal.
Steady(m) == Versions[m] # <<>> /\ \A i \in DOMAIN Versions[m] : Content[Versions[m][i]] # NoSignal

IntakeTypeOK ==
  /\ topic \in Topics
  /\ published \in [Messages -> Nat]
  /\ online \in BOOLEAN
  /\ tasks \subseteq [message : Messages, text : Texts, edit : BOOLEAN,
                      found : Texts \cup {Unread, Absent}]
  /\ inbound \in [Messages -> [text : Texts \cup {NoSignal}, outcome : Outcomes]]
  /\ \A i \in DOMAIN signals :
       signals[i].message \in Messages /\ signals[i].print \in Range(Content) \ {NoSignal}
  /\ checkpoint \in Nat
  /\ backfill \in [pc : {"off", "scan", "looked", "recorded"}, at : Nat,
                   text : Texts \cup {NoSignal}, edit : BOOLEAN,
                   found : Texts \cup {Unread, Absent}]
  /\ repair \subseteq Messages /\ batch \subseteq Messages
  /\ cursor \in Nat \cup {NotStarted} /\ boundary \in Nat \cup {NotStarted}
  /\ runs \subseteq Range(Content) /\ failures \in 0..MaxFailures

\* README.md:43: whatever order updates, backfill and reprocessing arrive in, a row is
\* stored exactly if its message has a signal (but for the mark of an earlier release),
\* that signal is the content of the text the row shows, and no content is stored twice.
RowsAndSignalsAgree ==
  /\ \A m \in Messages :
       m \in StoredMessages <=>
         inbound[m].outcome \in {"stored"} \cup (IF m \in Marked THEN {"duplicate_message"} ELSE {})
  /\ \A i, j \in DOMAIN signals :
       /\ signals[i].print = Content[inbound[signals[i].message].text]
       /\ signals[i].print = signals[j].print \/ signals[i].message = signals[j].message
            => i = j

\* README.md:151: the checkpoint passes a message only once it is handled: a message
\* that has always been a signal of the expected sender has its audit row, and a signal
\* of another sender is not passed, whatever crashed or raced with the backfill.
CheckpointLeavesNothingBehind ==
  \A m \in Messages :
    m <= checkpoint /\ Steady(m) => inbound[m] # NoRow /\ m \notin Foreign

\* README.md:543: without edits, a signal that is stored before any later one, beyond the
\* live boundary, is taken by the worker before the cursor is past it.
InOrderSignalsAreTaken ==
  (\A m \in Messages : published[m] <= 1) =>
    \A i \in DOMAIN signals :
      LET m == signals[i].message
      IN  /\ cursor # NotStarted
          /\ boundary < m /\ m <= cursor
          /\ \A j \in 1..(i - 1) : signals[j].message < m
          => signals[i].print \in runs

\* README.md:43 and 180: a stored signal leaves the store only when an edit has put
\* another text in its place: no late, repeated or reprocessed message takes it away.
SignalsEndByEdit ==
  [][\A row \in Range(signals) \ Range(signals') :
       LET m == row.message
       IN  /\ inbound'[m].text # inbound[m].text
           /\ \E i \in 2..published[m] : Versions[m][i] = inbound'[m].text]_intakeVars

\* README.md:164: as long as the backfill is run again, every message that has always
\* been a signal gets its row, unless a signal of another sender stands in the way.
BackfillCatchesUp ==
  \A m \in Messages :
    (/\ published[m] > 0 /\ Steady(m)
     /\ \A n \in Foreign : n > m \/ (\A i \in DOMAIN Versions[n] :
                                       Content[Versions[n][i]] = NoSignal))
      ~> inbound[m] # NoRow
===============================================================================
