-------------------------- MODULE CallsRecordStore -------------------------
(***************************************************************************)
(* The call history (src/calls-record-store.c, with the deletion of a      *)
(* record in src/calls-history-box.c) and the database it is kept in.      *)
(*                                                                         *)
(* Everything the store asks of the database (libgom) is answered later,   *)
(* in the order it was asked, by a callback.  Opening the database takes   *)
(* an open, a migration, a find and a fetch; a call is recorded by a save, *)
(* and saved again for each stamp.  Meanwhile calls come and go and the    *)
(* user deletes records.  The process may end at any time: app_shutdown()  *)
(* waits 10 s at most.                                                     *)
(*                                                                         *)
(* A record is identified by its call and by the attempt to record it that *)
(* created it.  Abstracted: the times themselves, targets and protocols,   *)
(* the order of the list, and the directory of the database.               *)
(***************************************************************************)
EXTENDS Naturals, Sequences, FiniteSets

CONSTANTS
  Call,
  Old,          \* calls recorded by an earlier run of the program
  FirstStates,  \* bound: the states in which calls are added
  MaxFailures,  \* bound: operations of the database that fail
  MaxRestarts   \* bound: how often the program ends and starts again

CuiState == {"CALLING", "INCOMING", "ACTIVE", "HELD", "DISCONNECTED"}

ASSUME RecordAssumption ==
  /\ Call \intersect Old = {}
  /\ FirstStates \subseteq CuiState
  /\ MaxFailures \in Nat
  /\ MaxRestarts \in Nat

VARIABLES
  call,        \* UI state of a call, "NONE" before and "REMOVED" after it
  watched,     \* calls whose state-changed the store is connected to
  start,       \* calls with "calls-call-start" data
  record,      \* "calls-call-record" data of a call: a record, or NoRecord
  attempts,    \* how often record_call() was called for a call
  adapter,     \* self->adapter is set
  repository,  \* self->repository is set
  busy,        \* self->busy
  list,        \* self->list_store
  ops,         \* operations of the database, in the order they were asked
  rows,        \* the records in the database
  dbDone,      \* CallsApplication.db_done: "db-done" was emitted
  failures,    \* history: number of operations that failed
  restarts,    \* history: number of restarts
  erased,      \* history: records the user deleted
  rang         \* history: calls added before they were answered or ended

callVars  == <<call, watched, start, record, attempts>>
storeVars == <<adapter, repository, busy, list, dbDone>>
history   == <<failures, restarts, erased, rang>>
vars      == <<callVars, storeVars, ops, rows, history>>

-----------------------------------------------------------------------------
Id       == [call: Call \union Old, attempt: Nat]
Record   == [id: Id, answered: BOOLEAN, end: BOOLEAN]
NoRecord == [id |-> "none"]

Item == [id: Id, loaded: BOOLEAN]    \* loaded: its call-delete is connected

Opening == {"open", "migrate", "find", "fetch"}

\* CuiCallState steps a call may take; CALLING covers dialing and alerting.
Successors ==
  [CALLING |-> {"ACTIVE", "DISCONNECTED"}, INCOMING |-> {"ACTIVE", "DISCONNECTED"},
   ACTIVE  |-> {"HELD", "DISCONNECTED"},   HELD     |-> {"ACTIVE", "DISCONNECTED"}]

\* state_to_record_state()
RecordState(s) ==
  IF s \in {"CALLING", "INCOMING"} THEN "STARTED"
  ELSE IF s \in {"ACTIVE", "HELD"} THEN "ANSWERED" ELSE "ENDED"

Ask(op)          == Append(ops, [op |-> op])
AskSave(r, isNew)  == Append(ops, [op |-> "save", row |-> r, new |-> isNew])

-----------------------------------------------------------------------------
(* Calls. *)

\* record_call()
RecordCall(c) ==
  LET r == [id |-> [call |-> c, attempt |-> attempts[c] + 1], answered |-> FALSE, end |-> FALSE]
  IN  /\ record' = [record EXCEPT ![c] = r]
      /\ attempts' = [attempts EXCEPT ![c] = @ + 1]
      /\ ops' = AskSave(r, TRUE)

\* Mutant: the record is stamped, and not saved again.
StampCallUnsaved(c, stamp) ==
  IF record[c][stamp] THEN UNCHANGED <<record, ops>>
  ELSE record' = [record EXCEPT ![c] = [record[c] EXCEPT ![stamp] = TRUE]] /\ UNCHANGED ops

\* stamp_call(): a stamp is given once.
StampCall(c, stamp) ==
  IF record[c][stamp] THEN UNCHANGED <<record, ops>>
  ELSE LET r == [record[c] EXCEPT ![stamp] = TRUE]
       IN  record' = [record EXCEPT ![c] = r] /\ ops' = AskSave(r, FALSE)

\* open_repo()
OpenRepo ==
  IF adapter THEN UNCHANGED <<adapter, busy, ops>>
  ELSE adapter' = TRUE /\ busy' = busy + 1 /\ ops' = Ask("open")

\* call_added_cb(): without a repository it only tries to open one.
AddCall(c) ==
  /\ call[c] = "NONE"
  /\ \E s \in FirstStates :
       /\ call' = [call EXCEPT ![c] = s]
       /\ rang' = IF RecordState(s) = "STARTED" THEN rang \union {c} ELSE rang
  /\ start' = start \union {c}
  /\ IF repository
       THEN /\ RecordCall(c)
            /\ watched' = watched \union {c}
            /\ UNCHANGED <<adapter, busy>>
       ELSE OpenRepo /\ UNCHANGED <<watched, record, attempts>>
  /\ UNCHANGED <<repository, list, dbDone, rows, failures, restarts, erased>>

\* state_changed_cb().  A call that could not be recorded is recorded now, and
\* the change itself leaves no stamp.
StateChanged(c) ==
  /\ call[c] \in DOMAIN Successors
  /\ \E s \in Successors[call[c]] :
       /\ call' = [call EXCEPT ![c] = s]
       /\ \/ c \notin watched /\ UNCHANGED <<record, attempts, ops>>
          \/ /\ c \in watched
             /\ record[c] = NoRecord
             /\ IF c \in start THEN RecordCall(c) ELSE UNCHANGED <<record, attempts, ops>>
          \/ /\ c \in watched
             /\ record[c] # NoRecord
             /\ IF RecordState(s) = RecordState(call[c]) THEN UNCHANGED <<record, ops>>
                ELSE StampCall(c, IF RecordState(s) = "ANSWERED" THEN "answered" ELSE "end")
             /\ UNCHANGED attempts
  /\ UNCHANGED <<watched, start, storeVars, rows, history>>

\* call_removed_cb()
RemoveCall(c) ==
  /\ call[c] \in CuiState
  /\ call' = [call EXCEPT ![c] = "REMOVED"]
  /\ watched' = watched \ {c}
  /\ IF record[c] # NoRecord THEN StampCall(c, "end") ELSE UNCHANGED <<record, ops>>
  /\ UNCHANGED <<start, attempts, storeVars, rows, history>>

-----------------------------------------------------------------------------
(* The user deletes a record: the history box takes it off the list, the   *)
(* store's delete_call_cb() asks the database to delete it.  Only records  *)
(* that were loaded are connected to the latter.                           *)

Connected(i) == i.loaded

DeleteRecord(i) ==
  /\ i \in list
  /\ list' = list \ {i}
  /\ ops' = IF Connected(i) THEN Append(ops, [op |-> "delete", id |-> i.id]) ELSE ops
  /\ erased' = erased \union {i.id}
  /\ UNCHANGED <<callVars, adapter, repository, busy, dbDone, rows, failures, restarts, rang>>

-----------------------------------------------------------------------------
(* The database answers the operation that was asked first.  `more` are    *)
(* the operations its callback asks for in turn.                           *)

Answered(op) == ops # <<>> /\ Head(ops).op = op

Next1(more) == ops' = Tail(ops) \o more
Again(op) == Next1(<<[op |-> op]>>) /\ busy' = busy       \* one more, one less
Finished  == Next1(<<>>) /\ busy' = busy - 1

Succeeds == UNCHANGED failures
Fails    == failures < MaxFailures /\ failures' = failures + 1

\* open_repo_adapter_open_cb(), which goes on to set_up_repo()
Opened ==
  /\ Answered("open")
  /\ \/ /\ Succeeds
        /\ repository' = TRUE
        /\ Again("migrate")
        /\ UNCHANGED <<adapter, dbDone>>
     \/ /\ Fails
        /\ adapter' = FALSE
        /\ dbDone' = TRUE
        /\ Finished
        /\ UNCHANGED repository
  /\ UNCHANGED <<callVars, list, rows, restarts, erased, rang>>

\* Mutant: a failed migration returns before it signals db-done and counts down.
MigratedReturns ==
  /\ Answered("migrate")
  /\ \/ Succeeds /\ dbDone' = TRUE /\ Again("find") /\ UNCHANGED <<adapter, repository>>
     \/ Fails /\ Next1(<<>>) /\ adapter' = FALSE /\ repository' = FALSE /\ UNCHANGED <<busy, dbDone>>
  /\ UNCHANGED <<callVars, list, rows, restarts, erased, rang>>

\* set_up_repo_migrate_cb(), which goes on to load_calls()
Migrated ==
  /\ Answered("migrate")
  /\ dbDone' = TRUE
  /\ \/ Succeeds /\ Again("find") /\ UNCHANGED <<adapter, repository>>
     \/ Fails /\ Finished /\ adapter' = FALSE /\ repository' = FALSE
  /\ UNCHANGED <<callVars, list, rows, restarts, erased, rang>>

\* Mutant: an empty database returns before it counts down.
FoundReturns ==
  /\ Answered("find")
  /\ \/ /\ Succeeds
        /\ IF rows = {} THEN Next1(<<>>) /\ UNCHANGED busy
           ELSE Next1(<<[op |-> "fetch", count |-> Cardinality(rows)]>>) /\ busy' = busy
     \/ Fails /\ Finished
  /\ UNCHANGED <<callVars, adapter, repository, list, dbDone, rows, restarts, erased, rang>>

\* load_calls_find_cb()
Found ==
  /\ Answered("find")
  /\ \/ /\ Succeeds
        /\ IF rows = {} THEN Finished
           ELSE Next1(<<[op |-> "fetch", count |-> Cardinality(rows)]>>) /\ busy' = busy
     \/ Fails /\ Finished
  /\ UNCHANGED <<callVars, adapter, repository, list, dbDone, rows, restarts, erased, rang>>

\* load_calls_fetch_cb().  It fetches as many records as were found; more may
\* have been saved since.
Fetched ==
  /\ Answered("fetch")
  /\ \/ /\ Succeeds
        /\ \E got \in SUBSET rows :
             /\ Cardinality(got) = Head(ops).count
             /\ list' = list \union {[id |-> r.id, loaded |-> TRUE] : r \in got}
     \/ Fails /\ UNCHANGED list
  /\ Finished
  /\ UNCHANGED <<callVars, adapter, repository, dbDone, rows, restarts, erased, rang>>

\* record_call_save_cb() for a new record, update_cb() for a stamp.
Saved ==
  /\ Answered("save")
  /\ LET r == Head(ops).row
         c == r.id.call
     IN  \/ /\ Succeeds
            /\ rows' = {q \in rows : q.id # r.id} \union {r}
            /\ IF Head(ops).new
                 THEN /\ list' = list \union {[id |-> r.id, loaded |-> FALSE]}
                      /\ start' = start \ {c}
                 ELSE UNCHANGED <<list, start>>
            /\ UNCHANGED record
         \/ /\ Fails
            /\ record' = IF Head(ops).new THEN [record EXCEPT ![c] = NoRecord] ELSE record
            /\ UNCHANGED <<rows, list, start>>
  /\ Next1(<<>>)
  /\ UNCHANGED <<call, watched, attempts, adapter, repository, busy, dbDone, restarts, erased, rang>>

\* delete_record_cb()
Deleted ==
  /\ Answered("delete")
  /\ \/ Succeeds /\ rows' = {q \in rows : q.id # Head(ops).id}
     \/ Fails /\ UNCHANGED rows
  /\ Next1(<<>>)
  /\ UNCHANGED <<callVars, storeVars, restarts, erased, rang>>

Answer == Opened \/ Migrated \/ Found \/ Fetched \/ Saved \/ Deleted

-----------------------------------------------------------------------------
(* constructed() opens the database; no call is there yet. *)

Init ==
  /\ call = [c \in Call |-> "NONE"]
  /\ watched = {} /\ start = {}
  /\ record = [c \in Call |-> NoRecord]
  /\ attempts = [c \in Call |-> 0]
  /\ adapter = TRUE /\ repository = FALSE /\ busy = 1
  /\ ops = <<[op |-> "open"]>>
  /\ list = {} /\ dbDone = FALSE
  /\ rows = {[id |-> [call |-> o, attempt |-> 0], answered |-> FALSE, end |-> TRUE] : o \in Old}
  /\ failures = 0 /\ restarts = 0 /\ erased = {} /\ rang = {}

\* The program ends, with whatever it still asked of the database, and starts
\* again.  Its calls end with it.
Restart ==
  /\ restarts < MaxRestarts
  /\ restarts' = restarts + 1
  /\ call' = [c \in Call |-> IF call[c] = "NONE" THEN "NONE" ELSE "REMOVED"]
  /\ watched' = {} /\ start' = {}
  /\ record' = [c \in Call |-> NoRecord]
  /\ adapter' = TRUE /\ repository' = FALSE /\ busy' = 1
  /\ ops' = <<[op |-> "open"]>>
  /\ list' = {} /\ dbDone' = FALSE
  /\ UNCHANGED <<attempts, rows, failures, erased, rang>>

Next ==
  \/ \E c \in Call : AddCall(c) \/ StateChanged(c) \/ RemoveCall(c)
  \/ \E i \in list : DeleteRecord(i)
  \/ Answer
  \/ Restart

\* The database answers.  Nothing makes calls, the user or the system act.
Spec     == Init /\ [][Next]_vars
FairSpec == Spec /\ WF_vars(Answer)

-----------------------------------------------------------------------------
TypeOK ==
  /\ call \in [Call -> CuiState \union {"NONE", "REMOVED"}]
  /\ watched \subseteq Call /\ start \subseteq Call
  /\ record \in [Call -> Record \union {NoRecord}]
  /\ attempts \in [Call -> Nat]
  /\ adapter \in BOOLEAN /\ repository \in BOOLEAN /\ dbDone \in BOOLEAN
  /\ busy \in Nat
  /\ list \subseteq Item
  /\ rows \subseteq Record
  /\ failures \in Nat /\ restarts \in Nat /\ erased \subseteq Id
  /\ rang \subseteq Call

Pending(kinds) == {i \in DOMAIN ops : ops[i].op \in kinds}

\* The counter app_shutdown() waits for is exact for the operations that open
\* the database and load its records, whichever of them fails.
BusyCountsOpening == busy = Cardinality(Pending(Opening))

Quiet == ops = <<>> /\ failures = 0

RowsOf(c) == {r \in rows : r.id.call = c}

\* Without failures, once the database is quiet, it and the list hold exactly
\* one record of every call the store recorded and the user kept, and its
\* stamps say what became of the call, however its changes overlapped with the
\* saves (state_changed_cb, call_removed_cb, stamp_call).
RecordsFaithful ==
  Quiet => \A c \in Call : record[c] # NoRecord =>
    /\ record[c].id \notin erased =>
         RowsOf(c) = {record[c]} /\ \E i \in list : i.id = record[c].id
    /\ record[c].end <=> call[c] \in {"DISCONNECTED", "REMOVED"}
    /\ c \in rang /\ call[c] \in {"ACTIVE", "HELD"} => record[c].answered

\* What app_shutdown() waits for happens without its time limit: the database
\* is done being opened, successfully or not, and the counter returns to zero.
ShutdownProceeds == []<>(dbDone /\ busy = 0)

\* "_Delete Call" of the history's menu: a record the user deleted is deleted
\* from the database once that is quiet.
DeletedIsErased == Quiet => \A r \in rows : r.id \notin erased
=============================================================================
