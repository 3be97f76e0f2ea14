------------------------ MODULE CallsRecordStoreProofs ------------------------
(***************************************************************************)
(* Theorems about CallsRecordStore: for any number of calls, failures and  *)
(* restarts, the counter that the end of the program waits for counts what *)
(* it is to count, and, without failures, the history says what became of  *)
(* each call.                                                              *)
(***************************************************************************)
EXTENDS CallsRecordStore, FiniteSetTheorems, TLAPS

-----------------------------------------------------------------------------
(* The inductive invariant. *)

Op == [op : {"open", "migrate", "find"}]
        \union [op : {"fetch"}, count : {Cardinality(R) : R \in SUBSET Record}]
        \union [op : {"save"}, row : Record, new : BOOLEAN]
        \union [op : {"delete"}, id : Id]

Opens(s) == {i \in DOMAIN s : s[i].op \in Opening}

\* There are n operations in a queue that open the database, and never two.
Counts(s, n) ==
  \/ n = 0 /\ Opens(s) = {}
  \/ n = 1 /\ \E i : Opens(s) = {i}

StoreTypeOK ==
  /\ record \in [Call -> Record \union {NoRecord}]
  /\ attempts \in [Call -> Nat]
  /\ rows \subseteq Record /\ list \subseteq Item
  /\ ops \in Seq(Op)

\* While the database is being opened, it is not opened again.
IInv ==
  /\ StoreTypeOK
  /\ Counts(ops, busy)
  /\ ~adapter => busy = 0

-----------------------------------------------------------------------------
(* The queue of operations. *)

LEMMA AskedLast ==
  ASSUME NEW s \in Seq(Op), NEW n, Counts(s, n), NEW x \in Op
  PROVE  /\ Append(s, x) \in Seq(Op)
         /\ x.op \notin Opening => Counts(Append(s, x), n)
         /\ x.op \in Opening /\ n = 0 => Counts(Append(s, x), 1)
<1>1. /\ Append(s, x) \in Seq(Op) /\ Len(s) \in Nat
      /\ DOMAIN s = 1..Len(s) /\ DOMAIN Append(s, x) = 1..(Len(s) + 1)
      /\ \A i \in 1..Len(s) : Append(s, x)[i] = s[i]
      /\ Append(s, x)[Len(s) + 1] = x
  OBVIOUS
<1>2. ASSUME x.op \notin Opening PROVE Opens(Append(s, x)) = Opens(s)
  BY <1>1, <1>2 DEF Opens
<1>3. ASSUME x.op \in Opening, Opens(s) = {} PROVE Opens(Append(s, x)) = {Len(s) + 1}
  BY <1>1, <1>3 DEF Opens
<1>4. ASSUME x.op \notin Opening PROVE Counts(Append(s, x), n)
  <2>1. Opens(Append(s, x)) = Opens(s)
    BY <1>2, <1>4
  <2> QED BY <2>1 DEF Counts
<1>5. ASSUME x.op \in Opening, n = 0 PROVE Counts(Append(s, x), 1)
  <2>1. Opens(s) = {}
    BY <1>5 DEF Counts
  <2>2. Opens(Append(s, x)) = {Len(s) + 1}
    BY <1>3, <1>5, <2>1
  <2> QED BY <2>2 DEF Counts
<1> QED BY <1>1, <1>4, <1>5

LEMMA AnsweredFirst ==
  ASSUME NEW s \in Seq(Op), s # <<>>, NEW n, Counts(s, n)
  PROVE  /\ Tail(s) \in Seq(Op) /\ Head(s) \in Op
         /\ Head(s).op \in Opening => n = 1 /\ Counts(Tail(s), 0)
         /\ Head(s).op \notin Opening => Counts(Tail(s), n)
<1>1. /\ Tail(s) \in Seq(Op) /\ Len(s) \in Nat /\ Len(s) > 0
      /\ Head(s) = s[1] /\ Head(s) \in Op
      /\ DOMAIN s = 1..Len(s) /\ DOMAIN Tail(s) = 1..(Len(s) - 1)
      /\ \A i \in 1..(Len(s) - 1) : Tail(s)[i] = s[i + 1]
  OBVIOUS
<1>2. \A i \in 1..(Len(s) - 1) : i + 1 \in 1..Len(s) /\ i + 1 # 1
  BY <1>1
<1>3. \A i \in 1..Len(s) : i # 1 => i - 1 \in 1..(Len(s) - 1) /\ (i - 1) + 1 = i
  BY <1>1
<1>4. \A i \in Opens(Tail(s)) : i \in 1..(Len(s) - 1) /\ i + 1 \in Opens(s)
  BY <1>1, <1>2 DEF Opens
<1>5. \A i \in Opens(s) : i \in 1..Len(s) /\ (i # 1 => i - 1 \in Opens(Tail(s)))
  BY <1>1, <1>3 DEF Opens
<1>6. 1 \in Opens(s) <=> Head(s).op \in Opening
  BY <1>1 DEF Opens
<1>7. CASE Head(s).op \in Opening
  <2>1. n = 1 /\ Opens(s) = {1}
    BY <1>6, <1>7 DEF Counts
  <2>2. Opens(Tail(s)) = {}
    BY <1>2, <1>4, <2>1
  <2> QED BY <1>1, <1>7, <2>1, <2>2 DEF Counts
<1>8. CASE Head(s).op \notin Opening
  <2>1. CASE n = 0 /\ Opens(s) = {}
    BY <1>1, <1>4, <1>8, <2>1 DEF Counts
  <2>2. ASSUME n = 1, NEW k, Opens(s) = {k} PROVE Counts(Tail(s), n)
    <3>1. k \in 1..Len(s) /\ k # 1 /\ k - 1 \in Opens(Tail(s))
      BY <1>5, <1>6, <1>8, <2>2
    <3>2. \A i \in Opens(Tail(s)) : i = k - 1
      BY <1>1, <1>4, <2>2, <3>1
    <3>3. Opens(Tail(s)) = {k - 1}
      BY <3>1, <3>2
    <3> QED BY <2>2, <3>3 DEF Counts
  <2> QED BY <1>1, <1>8, <2>1, <2>2 DEF Counts
<1> QED BY <1>7, <1>8

LEMMA CountsExactly ==
  ASSUME NEW n, Counts(ops, n)
  PROVE  n = Cardinality(Pending(Opening))
<1>1. Pending(Opening) = Opens(ops)
  BY DEF Pending, Opens
<1> QED BY <1>1, FS_EmptySet, FS_Singleton DEF Counts

-----------------------------------------------------------------------------
(* The calls, whose records are saved. *)

\* What a step may ask of the database besides opening it.
Saves ==
  \/ UNCHANGED ops
  \/ \E x \in Op : x.op \notin Opening /\ ops' = Append(ops, x)

LEMMA Recording ==
  ASSUME IInv, NEW c \in Call, RecordCall(c)
  PROVE  /\ record' \in [Call -> Record \union {NoRecord}] /\ attempts' \in [Call -> Nat]
         /\ Saves
<1> DEFINE r == [id |-> [call |-> c, attempt |-> attempts[c] + 1], answered |-> FALSE, end |-> FALSE]
           x == [op |-> "save", row |-> r, new |-> TRUE]
<1>1. /\ record \in [Call -> Record \union {NoRecord}] /\ attempts \in [Call -> Nat]
      /\ record' = [record EXCEPT ![c] = r]
      /\ attempts' = [attempts EXCEPT ![c] = @ + 1]
      /\ ops' = Append(ops, x)
  BY DEF IInv, StoreTypeOK, RecordCall, AskSave
<1>2. r \in Record
  BY <1>1 DEF Record, Id
<1>3. x \in Op /\ x.op \notin Opening
  BY <1>2 DEF Op, Opening
<1> HIDE DEF r, x
<1>4. record' \in [Call -> Record \union {NoRecord}] /\ attempts' \in [Call -> Nat]
  BY <1>1, <1>2
<1> QED BY <1>1, <1>3, <1>4 DEF Saves

LEMMA Stamping ==
  ASSUME IInv, NEW c \in Call, record[c] # NoRecord, NEW stamp \in {"answered", "end"},
         StampCall(c, stamp)
  PROVE  record' \in [Call -> Record \union {NoRecord}] /\ Saves
<1> DEFINE r == [record[c] EXCEPT ![stamp] = TRUE]
           x == [op |-> "save", row |-> r, new |-> FALSE]
<1>1. record \in [Call -> Record \union {NoRecord}] /\ record[c] \in Record
  BY DEF IInv, StoreTypeOK
<1>2. r \in Record
  BY <1>1 DEF Record
<1>3. x \in Op /\ x.op \notin Opening
  BY <1>2 DEF Op, Opening
<1>4. UNCHANGED <<record, ops>> \/ (record' = [record EXCEPT ![c] = r] /\ ops' = Append(ops, x))
  BY DEF StampCall, AskSave
<1> QED BY <1>1, <1>2, <1>3, <1>4 DEF Saves

\* A step that saves, and leaves the database as it is.
LEMMA Saving ==
  ASSUME IInv, Saves, record' \in [Call -> Record \union {NoRecord}],
         attempts' \in [Call -> Nat], list' \subseteq Item,
         UNCHANGED <<rows, adapter, busy>>
  PROVE  IInv'
<1>1. ops \in Seq(Op) /\ Counts(ops, busy)
  BY DEF IInv, StoreTypeOK
<1>2. ops' \in Seq(Op) /\ Counts(ops', busy)
  <2>1. CASE UNCHANGED ops
    BY <1>1, <2>1
  <2>2. ASSUME NEW x \in Op, x.op \notin Opening, ops' = Append(ops, x)
        PROVE  ops' \in Seq(Op) /\ Counts(ops', busy)
    BY <1>1, <2>2, AskedLast
  <2> QED BY <2>1, <2>2 DEF Saves
<1> QED BY <1>2 DEF IInv, StoreTypeOK, Counts, Opens

LEMMA Adding ==
  ASSUME IInv, NEW c \in Call, AddCall(c)
  PROVE  IInv'
<1>1. /\ list' = list /\ rows' = rows /\ list \subseteq Item
      /\ record \in [Call -> Record \union {NoRecord}] /\ attempts \in [Call -> Nat]
      /\ ops \in Seq(Op) /\ Counts(ops, busy)
  BY DEF AddCall, IInv, StoreTypeOK
<1>2. CASE repository
  <2>1. RecordCall(c) /\ UNCHANGED <<adapter, busy>>
    BY <1>2 DEF AddCall
  <2>2. /\ record' \in [Call -> Record \union {NoRecord}] /\ attempts' \in [Call -> Nat]
        /\ Saves
    BY <2>1, Recording
  <2> QED BY <1>1, <2>1, <2>2, Saving
<1>3. CASE ~repository
  <2>1. OpenRepo /\ UNCHANGED <<record, attempts>>
    BY <1>3 DEF AddCall
  <2>2. CASE adapter
    <3>1. UNCHANGED <<adapter, busy, ops>>
      BY <2>1, <2>2 DEF OpenRepo
    <3>2. Saves
      BY <3>1 DEF Saves
    <3> QED BY <1>1, <2>1, <3>1, <3>2, Saving
  <2>3. CASE ~adapter
    <3> DEFINE x == [op |-> "open"]
    <3>1. busy = 0 /\ adapter' = TRUE /\ busy' = 1 /\ ops' = Append(ops, x)
      BY <2>1, <2>3 DEF OpenRepo, Ask, IInv
    <3>2. x \in Op /\ x.op \in Opening
      BY DEF Op, Opening
    <3> HIDE DEF x
    <3>3. ops' \in Seq(Op) /\ Counts(ops', busy')
      BY <1>1, <3>1, <3>2, AskedLast
    <3> QED BY <1>1, <2>1, <3>1, <3>3 DEF IInv, StoreTypeOK, Counts, Opens
  <2> QED BY <2>2, <2>3
<1> QED BY <1>2, <1>3

LEMMA Changing ==
  ASSUME IInv, NEW c \in Call, StateChanged(c)
  PROVE  IInv'
<1>1. /\ UNCHANGED <<list, rows, adapter, busy>> /\ list \subseteq Item
      /\ record \in [Call -> Record \union {NoRecord}] /\ attempts \in [Call -> Nat]
  BY DEF StateChanged, storeVars, IInv, StoreTypeOK
<1>2. PICK s : 
        \/ UNCHANGED <<record, attempts, ops>>
        \/ RecordCall(c)
        \/ /\ record[c] # NoRecord
           /\ \/ UNCHANGED <<record, ops>>
              \/ StampCall(c, IF RecordState(s) = "ANSWERED" THEN "answered" ELSE "end")
           /\ UNCHANGED attempts
  <2>1. PICK s \in Successors[call[c]] :
          \/ c \notin watched /\ UNCHANGED <<record, attempts, ops>>
          \/ /\ c \in watched
             /\ record[c] = NoRecord
             /\ IF c \in start THEN RecordCall(c) ELSE UNCHANGED <<record, attempts, ops>>
          \/ /\ c \in watched
             /\ record[c] # NoRecord
             /\ IF RecordState(s) = RecordState(call[c]) THEN UNCHANGED <<record, ops>>
                ELSE StampCall(c, IF RecordState(s) = "ANSWERED" THEN "answered" ELSE "end")
             /\ UNCHANGED attempts
    BY DEF StateChanged
  <2> QED BY <2>1
<1>3. /\ record' \in [Call -> Record \union {NoRecord}] /\ attempts' \in [Call -> Nat]
      /\ Saves
  <2>1. CASE UNCHANGED <<record, attempts, ops>>
    BY <1>1, <2>1 DEF Saves
  <2>2. CASE RecordCall(c)
    BY <2>2, Recording
  <2>3. ASSUME record[c] # NoRecord, UNCHANGED attempts,
               \/ UNCHANGED <<record, ops>>
               \/ StampCall(c, IF RecordState(s) = "ANSWERED" THEN "answered" ELSE "end")
        PROVE  /\ record' \in [Call -> Record \union {NoRecord}] /\ attempts' \in [Call -> Nat]
               /\ Saves
    <3>1. CASE UNCHANGED <<record, ops>>
      BY <1>1, <2>3, <3>1 DEF Saves
    <3>2. CASE StampCall(c, IF RecordState(s) = "ANSWERED" THEN "answered" ELSE "end")
      <4>1. \/ StampCall(c, "answered")
            \/ StampCall(c, "end")
        BY <3>2
      <4> QED BY <1>1, <2>3, <4>1, Stamping
    <3> QED BY <2>3, <3>1, <3>2
  <2> QED BY <1>2, <2>1, <2>2, <2>3
<1> QED BY <1>1, <1>3, Saving

LEMMA Removing ==
  ASSUME IInv, NEW c \in Call, RemoveCall(c)
  PROVE  IInv'
<1>1. /\ UNCHANGED <<list, rows, adapter, busy, attempts>> /\ list \subseteq Item
      /\ record \in [Call -> Record \union {NoRecord}] /\ attempts \in [Call -> Nat]
  BY DEF RemoveCall, storeVars, IInv, StoreTypeOK
<1>2. CASE record[c] # NoRecord
  <2>1. StampCall(c, "end")
    BY <1>2 DEF RemoveCall
  <2>2. record' \in [Call -> Record \union {NoRecord}] /\ Saves
    BY <1>2, <2>1, Stamping
  <2> QED BY <1>1, <2>2, Saving
<1>3. CASE record[c] = NoRecord
  <2>1. UNCHANGED <<record, ops>>
    BY <1>3 DEF RemoveCall
  <2>2. Saves
    BY <2>1 DEF Saves
  <2> QED BY <1>1, <2>1, <2>2, Saving
<1> QED BY <1>2, <1>3

LEMMA Deleting ==
  ASSUME IInv, NEW i \in list, DeleteRecord(i)
  PROVE  IInv'
<1> DEFINE x == [op |-> "delete", id |-> i.id]
<1>1. /\ list' = list \ {i} /\ UNCHANGED <<record, attempts, rows, adapter, busy>>
      /\ ops' = Append(ops, x) \/ UNCHANGED ops
      /\ list \subseteq Item
      /\ record \in [Call -> Record \union {NoRecord}] /\ attempts \in [Call -> Nat]
  BY DEF DeleteRecord, callVars, IInv, StoreTypeOK
<1>2. x \in Op /\ x.op \notin Opening
  BY <1>1 DEF Item, Op, Opening
<1> HIDE DEF x
<1>3. Saves
  BY <1>1, <1>2 DEF Saves
<1> QED BY <1>1, <1>3, Saving

-----------------------------------------------------------------------------
(* The database. *)

\* What an answer that asks for nothing more leaves of the queue.
LEMMA Answering ==
  ASSUME IInv, ops # <<>>, ops' = Tail(ops) \o <<>>
  PROVE  /\ ops' \in Seq(Op) /\ Head(ops) \in Op
         /\ Head(ops).op \in Opening => busy = 1 /\ Counts(ops', 0)
         /\ Head(ops).op \notin Opening => Counts(ops', busy)
<1>1. ops \in Seq(Op) /\ Counts(ops, busy)
  BY DEF IInv, StoreTypeOK
<1>2. Tail(ops) \in Seq(Op)
  BY <1>1, AnsweredFirst
<1>3. ops' = Tail(ops)
  BY <1>2
<1> QED BY <1>1, <1>3, AnsweredFirst

LEMMA AskingAgain ==
  ASSUME IInv, ops # <<>>, Head(ops).op \in Opening, NEW x \in Op, x.op \in Opening,
         ops' = Tail(ops) \o <<x>>, busy' = busy
  PROVE  ops' \in Seq(Op) /\ busy' = 1 /\ Counts(ops', busy')
<1>1. ops \in Seq(Op) /\ Counts(ops, busy)
  BY DEF IInv, StoreTypeOK
<1>2. Tail(ops) \in Seq(Op) /\ busy = 1 /\ Counts(Tail(ops), 0)
  BY <1>1, AnsweredFirst
<1>3. ops' = Append(Tail(ops), x)
  BY <1>2
<1> QED BY <1>2, <1>3, AskedLast

\* A step that answers an operation which opens the database: the next one is
\* asked for, or none.
Proceeds ==
  \/ Finished
  \/ \E x \in Op : x.op \in Opening /\ Next1(<<x>>) /\ busy' = busy

LEMMA Proceeding ==
  ASSUME IInv, ops # <<>>, Head(ops).op \in Opening, Proceeds,
         UNCHANGED <<record, attempts, rows>>, list' \subseteq Item,
         adapter' = adapter \/ Finished
  PROVE  IInv'
<1>1. record' \in [Call -> Record \union {NoRecord}] /\ attempts' \in [Call -> Nat] /\ rows' \subseteq Record
  BY DEF IInv, StoreTypeOK
<1>2. CASE Finished
  <2>1. ops' = Tail(ops) \o <<>> /\ busy' = busy - 1
    BY <1>2 DEF Finished, Next1
  <2>2. ops' \in Seq(Op) /\ busy = 1 /\ Counts(ops', 0)
    BY <2>1, Answering
  <2> QED BY <1>1, <2>1, <2>2 DEF IInv, StoreTypeOK, Counts, Opens
<1>3. ASSUME NEW x \in Op, x.op \in Opening, Next1(<<x>>), busy' = busy, adapter' = adapter
      PROVE  IInv'
  <2>1. ops' = Tail(ops) \o <<x>>
    BY <1>3 DEF Next1
  <2>2. ops' \in Seq(Op) /\ busy' = 1 /\ Counts(ops', busy')
    BY <1>3, <2>1, AskingAgain
  <2>3. adapter
    BY <1>3, <2>2 DEF IInv
  <2> QED BY <1>1, <1>3, <2>2, <2>3 DEF IInv, StoreTypeOK, Counts, Opens
<1> QED BY <1>2, <1>3 DEF Proceeds

LEMMA OpeningOn ==
  ASSUME IInv, Opened \/ Migrated \/ Found \/ Fetched
  PROVE  IInv'
<1>1. list \subseteq Item /\ rows \subseteq Record
  BY DEF IInv, StoreTypeOK
<1>2. CASE Opened
  <2>1. /\ ops # <<>> /\ Head(ops).op \in Opening
        /\ UNCHANGED <<record, attempts, rows, list>>
        /\ (Again("migrate") /\ adapter' = adapter) \/ Finished
    BY <1>2 DEF Opened, Answered, callVars, Opening
  <2>2. [op |-> "migrate"] \in Op /\ [op |-> "migrate"].op \in Opening
    BY DEF Op, Opening
  <2>3. Proceeds /\ (adapter' = adapter \/ Finished)
    BY <2>1, <2>2 DEF Proceeds, Again
  <2> QED BY <1>1, <2>1, <2>3, Proceeding
<1>3. CASE Migrated
  <2>1. /\ ops # <<>> /\ Head(ops).op \in Opening
        /\ UNCHANGED <<record, attempts, rows, list>>
        /\ (Again("find") /\ adapter' = adapter) \/ Finished
    BY <1>3 DEF Migrated, Answered, callVars, Opening
  <2>2. [op |-> "find"] \in Op /\ [op |-> "find"].op \in Opening
    BY DEF Op, Opening
  <2>3. Proceeds /\ (adapter' = adapter \/ Finished)
    BY <2>1, <2>2 DEF Proceeds, Again
  <2> QED BY <1>1, <2>1, <2>3, Proceeding
<1>4. CASE Found
  <2> DEFINE x == [op |-> "fetch", count |-> Cardinality(rows)]
  <2>1. /\ ops # <<>> /\ Head(ops).op \in Opening
        /\ UNCHANGED <<record, attempts, rows, list, adapter>>
        /\ (Next1(<<x>>) /\ busy' = busy) \/ Finished
    BY <1>4 DEF Found, Answered, callVars, Opening
  <2>2. x \in Op /\ x.op \in Opening
    BY <1>1 DEF Op, Opening
  <2> HIDE DEF x
  <2>3. Proceeds
    BY <2>1, <2>2 DEF Proceeds
  <2> QED BY <1>1, <2>1, <2>3, Proceeding
<1>5. CASE Fetched
  <2>1. /\ ops # <<>> /\ Head(ops).op \in Opening
        /\ UNCHANGED <<record, attempts, rows, adapter>>
        /\ Finished
    BY <1>5 DEF Fetched, Answered, callVars, Opening
  <2>2. list' \subseteq Item
    <3>1. ASSUME NEW got \in SUBSET rows,
                 list' = list \union {[id |-> r.id, loaded |-> TRUE] : r \in got}
          PROVE  list' \subseteq Item
      <4>1. \A r \in got : [id |-> r.id, loaded |-> TRUE] \in Item
        BY <1>1 DEF Record, Item
      <4> QED BY <1>1, <3>1, <4>1
    <3>2. UNCHANGED list \/ \E got \in SUBSET rows :
                              list' = list \union {[id |-> r.id, loaded |-> TRUE] : r \in got}
      BY <1>5 DEF Fetched
    <3> QED BY <1>1, <3>1, <3>2
  <2>3. Proceeds
    BY <2>1 DEF Proceeds
  <2> QED BY <2>1, <2>2, <2>3, Proceeding
<1> QED BY <1>2, <1>3, <1>4, <1>5

LEMMA Storing ==
  ASSUME IInv, Saved \/ Deleted
  PROVE  IInv'
<1>1. /\ record \in [Call -> Record \union {NoRecord}] /\ attempts \in [Call -> Nat]
      /\ list \subseteq Item /\ rows \subseteq Record
  BY DEF IInv, StoreTypeOK
<1>2. /\ ops # <<>> /\ Head(ops).op \in {"save", "delete"}
      /\ ops' = Tail(ops) \o <<>>
      /\ UNCHANGED <<attempts, adapter, busy>>
  BY DEF Saved, Deleted, Answered, Next1, callVars, storeVars
<1>3. Head(ops) \in Op /\ ops' \in Seq(Op) /\ Counts(ops', busy)
  BY <1>2, Answering DEF Opening
<1>4. /\ record' \in [Call -> Record \union {NoRecord}]
      /\ list' \subseteq Item /\ rows' \subseteq Record
  <2>1. CASE Saved
    <3>1. Head(ops).op = "save"
      BY <2>1 DEF Saved, Answered
    <3>2. Head(ops).row \in Record /\ Head(ops).row.id \in Id
      BY <1>3, <3>1 DEF Op, Record
    <3>3. [id |-> Head(ops).row.id, loaded |-> FALSE] \in Item
      BY <3>2 DEF Item
    <3>4. rows' = rows \/ rows' = {q \in rows : q.id # Head(ops).row.id} \union {Head(ops).row}
      BY <2>1 DEF Saved
    <3>5. list' = list \/ list' = list \union {[id |-> Head(ops).row.id, loaded |-> FALSE]}
      BY <2>1 DEF Saved
    <3>6. record' = record \/ record' = [record EXCEPT ![Head(ops).row.id.call] = NoRecord]
      BY <2>1 DEF Saved
    <3>7. record' \in [Call -> Record \union {NoRecord}]
      BY <1>1, <3>6
    <3>8. list' \subseteq Item
      BY <1>1, <3>3, <3>5
    <3> QED BY <1>1, <3>2, <3>4, <3>7, <3>8
  <2>2. CASE Deleted
    <3>1. UNCHANGED <<record, list>> /\ rows' \subseteq rows
      BY <2>2 DEF Deleted, callVars, storeVars
    <3> QED BY <1>1, <3>1
  <2> QED BY <2>1, <2>2
<1> QED BY <1>1, <1>2, <1>3, <1>4 DEF IInv, StoreTypeOK, Counts, Opens

-----------------------------------------------------------------------------
(* The start, and the start after an end. *)

LEMMA Opens1 ==
  LET s == <<[op |-> "open"]>> IN s \in Seq(Op) /\ Counts(s, 1)
<1> DEFINE s == <<[op |-> "open"]>>
<1>1. s \in Seq(Op) /\ DOMAIN s = {1} /\ s[1].op \in Opening
  BY DEF Op, Opening
<1>2. Opens(s) = {1}
  BY <1>1 DEF Opens
<1> QED BY <1>1, <1>2 DEF Counts

LEMMA Starting ==
  ASSUME Init
  PROVE  IInv
<1>1. ops \in Seq(Op) /\ Counts(ops, busy) /\ adapter
  BY Opens1 DEF Init
<1>2. \A o \in Old : [id |-> [call |-> o, attempt |-> 0], answered |-> FALSE, end |-> TRUE] \in Record
  BY DEF Record, Id
<1>3. rows \subseteq Record
  BY <1>2 DEF Init
<1>4. record \in [Call -> Record \union {NoRecord}] /\ attempts \in [Call -> Nat] /\ list \subseteq Item
  BY DEF Init
<1> QED BY <1>1, <1>3, <1>4 DEF IInv, StoreTypeOK

LEMMA Restarting ==
  ASSUME IInv, Restart
  PROVE  IInv'
<1>1. /\ ops' = <<[op |-> "open"]>> /\ busy' = 1 /\ adapter'
      /\ record' = [c \in Call |-> NoRecord] /\ list' = {}
      /\ UNCHANGED <<attempts, rows>>
  BY DEF Restart
<1>2. ops' \in Seq(Op) /\ Counts(ops', busy')
  BY <1>1, Opens1
<1>3. record' \in [Call -> Record \union {NoRecord}]
  BY <1>1
<1> QED BY <1>1, <1>2, <1>3 DEF IInv, StoreTypeOK, Counts, Opens

LEMMA Stuttering ==
  ASSUME IInv, UNCHANGED vars
  PROVE  IInv'
BY DEF IInv, StoreTypeOK, Counts, Opens, vars, callVars, storeVars

LEMMA Stepping ==
  ASSUME IInv, [Next]_vars
  PROVE  IInv'
<1>1. ASSUME NEW c \in Call, AddCall(c) \/ StateChanged(c) \/ RemoveCall(c)
      PROVE  IInv'
  BY <1>1, Adding, Changing, Removing
<1>2. ASSUME NEW i \in list, DeleteRecord(i) PROVE IInv'
  BY <1>2, Deleting
<1>3. CASE Answer
  BY <1>3, OpeningOn, Storing DEF Answer
<1>4. CASE Restart
  BY <1>4, Restarting
<1>5. CASE UNCHANGED vars
  BY <1>5, Stuttering
<1> QED BY <1>1, <1>2, <1>3, <1>4, <1>5 DEF Next

\* While the database is being opened, one operation of its opening is on the
\* way, and without a handle none is: open_repo() does not open it twice.
THEOREM Invariance == Spec => []IInv
<1>1. Init => IInv
  BY Starting
<1>2. IInv /\ [Next]_vars => IInv'
  BY Stepping
<1> QED BY <1>1, <1>2, PTL DEF Spec

\* The counter that app_shutdown() waits for is exact, whichever operation
\* fails, however many calls come meanwhile and however often the program is
\* started again.
THEOREM CountedExactly == Spec => []BusyCountsOpening
<1>1. IInv => BusyCountsOpening
  BY CountsExactly DEF IInv, BusyCountsOpening
<1> QED BY <1>1, Invariance, PTL

-----------------------------------------------------------------------------
(* What is recorded.  The queue of operations says what the database will   *)
(* hold once it is quiet: the last save of a call is of its record as it is *)
(* now, and a record no save is pending of was stored.                      *)

\* A record of the call is to be saved.
SavesCall(op, c) == op.op = "save" /\ op.row.id.call = c

\* A call that was not added yet left nothing behind, and never rang.
NewLeftNothing ==
  \A c \in Call : call[c] = "NONE" => record[c] = NoRecord /\ c \notin rang /\ RowsOf(c) = {}

\* The store watches the calls it has a record of, until they are removed.
WatchedRecorded ==
  \A c \in Call : c \in watched <=> record[c] # NoRecord /\ call[c] # "REMOVED"

\* The stamps of a record, before they are saved.
StampsTold ==
  \A c \in Call : record[c] # NoRecord =>
    /\ record[c].id.call = c
    /\ record[c].end <=> call[c] \in {"DISCONNECTED", "REMOVED"}
    /\ c \in rang /\ call[c] \in {"ACTIVE", "HELD"} => record[c].answered

\* A save is one of the record of its call, the last of them of what it is now.
SavesLatest ==
  \A k \in DOMAIN ops : ops[k].op = "save" =>
    LET c == ops[k].row.id.call
    IN  /\ c \in Call /\ record[c] # NoRecord /\ ops[k].row.id = record[c].id
        /\ (\A j \in DOMAIN ops : j > k => ~ SavesCall(ops[j], c)) => ops[k].row = record[c]

\* What is not to be saved any more is in the database; what was not saved for
\* the first time yet is not on the list.
StoredOrAsked ==
  \A c \in Call : record[c] # NoRecord /\ record[c].id \notin erased =>
    /\ (\A k \in DOMAIN ops : ~ SavesCall(ops[k], c)) => record[c] \in rows
    /\ \/ \E i \in list : i.id = record[c].id
       \/ \E k \in DOMAIN ops : SavesCall(ops[k], c) /\ ops[k].new

\* There is one row of a record, and none of another record of its call.
RowsOnce ==
  /\ \A r, q \in rows : r.id = q.id => r = q
  /\ \A r \in rows, c \in Call : r.id.call = c /\ record[c] # NoRecord => r.id = record[c].id

\* What is to be deleted was deleted by the user.
DeletesErased == \A k \in DOMAIN ops : ops[k].op = "delete" => ops[k].id \in erased

Kept == /\ NewLeftNothing /\ WatchedRecorded /\ StampsTold /\ SavesLatest
        /\ StoredOrAsked /\ RowsOnce /\ DeletesErased

FInv ==
  /\ call \in [Call -> CuiState \union {"NONE", "REMOVED"}] /\ failures \in Nat
  /\ failures = 0 => Kept

-----------------------------------------------------------------------------
(* The queue, once more: which operation is where after a step. *)

LEMMA PlacesAppended ==
  ASSUME NEW S, NEW s \in Seq(S), NEW x \in S
  PROVE  LET t == Append(s, x)
             n == Len(s) + 1
         IN  /\ t \in Seq(S) /\ n \in Nat /\ n \in DOMAIN t /\ t[n] = x
             /\ \A k \in DOMAIN s : k \in Nat /\ k < n /\ k \in DOMAIN t /\ t[k] = s[k]
             /\ \A k \in DOMAIN t : k = n \/ (k \in DOMAIN s)
OBVIOUS

LEMMA PlacesTail ==
  ASSUME NEW S, NEW s \in Seq(S), s # <<>>
  PROVE  LET t == Tail(s)
         IN  /\ t \in Seq(S) /\ 1 \in DOMAIN s /\ Head(s) = s[1]
             /\ \A k \in DOMAIN t : k \in Nat /\ k > 0 /\ k + 1 \in DOMAIN s /\ t[k] = s[k + 1]
             /\ \A k \in DOMAIN s : /\ k \in Nat
                                    /\ k # 1 => k > 1 /\ k - 1 \in DOMAIN t /\ t[k - 1] = s[k]
OBVIOUS

\* A step that saves nothing, nor answers a save: what is to be saved moves up
\* by d places.
SameSaves(d) ==
  /\ \A k \in DOMAIN ops' : ops'[k].op = "save" => k + d \in DOMAIN ops /\ ops'[k] = ops[k + d]
  /\ \A k \in DOMAIN ops : k \in Nat /\ (ops[k].op = "save" => k - d \in DOMAIN ops' /\ ops'[k - d] = ops[k])
  /\ \A k \in DOMAIN ops' : k \in Nat
  /\ \A k \in DOMAIN ops' : ops'[k].op = "delete" =>
       ops'[k].id \in erased' \/ (k + d \in DOMAIN ops /\ ops'[k] = ops[k + d])

\* The part of the invariant that is about what is to be saved.
Asked == SavesLatest /\ StoredOrAsked /\ RowsOnce /\ DeletesErased

\* The rows and items that go are those of records the user deleted.
LEMMA SavesMoveUp ==
  ASSUME Asked, NEW d \in {0, 1}, SameSaves(d), record' = record,
         rows' \subseteq rows, \A r \in rows \ rows' : r.id \in erased',
         erased \subseteq erased', \A i \in list \ list' : i.id \in erased'
  PROVE  Asked'
<1> USE DEF Asked
<1>1. ASSUME NEW c
      PROVE  (\A k \in DOMAIN ops' : ~ SavesCall(ops'[k], c)) => (\A k \in DOMAIN ops : ~ SavesCall(ops[k], c))
  <2> SUFFICES ASSUME NEW k \in DOMAIN ops, SavesCall(ops[k], c) PROVE \E j \in DOMAIN ops' : SavesCall(ops'[j], c)
    OBVIOUS
  <2>1. k - d \in DOMAIN ops' /\ ops'[k - d] = ops[k]
    BY DEF SameSaves, SavesCall
  <2>2. QED
    BY <2>1
<1>2. SavesLatest'
  <2> SUFFICES ASSUME NEW k \in DOMAIN ops', ops'[k].op = "save"
               PROVE  LET c == ops'[k].row.id.call
                      IN  /\ c \in Call /\ record[c] # NoRecord /\ ops'[k].row.id = record[c].id
                          /\ (\A j \in DOMAIN ops' : j > k => ~ SavesCall(ops'[j], c)) => ops'[k].row = record[c]
    BY DEF SavesLatest, SavesCall
  <2> DEFINE c == ops'[k].row.id.call
  <2>1. k + d \in DOMAIN ops /\ ops'[k] = ops[k + d] /\ k \in Nat
    BY DEF SameSaves
  <2>2. c \in Call /\ record[c] # NoRecord /\ ops'[k].row.id = record[c].id
    BY <2>1 DEF SavesLatest
  <2>3. ASSUME \A j \in DOMAIN ops' : j > k => ~ SavesCall(ops'[j], c)
        PROVE  \A j \in DOMAIN ops : j > k + d => ~ SavesCall(ops[j], c)
    <3> SUFFICES ASSUME NEW j \in DOMAIN ops, j > k + d, SavesCall(ops[j], c) PROVE FALSE
      OBVIOUS
    <3>1. j \in Nat /\ j - d \in DOMAIN ops' /\ ops'[j - d] = ops[j]
      BY DEF SameSaves, SavesCall
    <3>2. j - d > k
      BY <2>1, <3>1
    <3>3. QED
      BY <2>3, <3>1, <3>2
  <2>4. QED
    BY <2>1, <2>2, <2>3 DEF SavesLatest
<1>3. StoredOrAsked'
  <2> SUFFICES ASSUME NEW c \in Call, record[c] # NoRecord, record[c].id \notin erased'
               PROVE  /\ (\A k \in DOMAIN ops' : ~ SavesCall(ops'[k], c)) => record[c] \in rows'
                      /\ \/ \E i \in list' : i.id = record[c].id
                         \/ \E k \in DOMAIN ops' : SavesCall(ops'[k], c) /\ ops'[k].new
    BY DEF StoredOrAsked, SavesCall
  <2>1. record[c] \in rows => record[c] \in rows'
    OBVIOUS
  <2>2. (\E i \in list : i.id = record[c].id) => \E i \in list' : i.id = record[c].id
    OBVIOUS
  <2>3. ASSUME NEW k \in DOMAIN ops, SavesCall(ops[k], c), ops[k].new
        PROVE  \E j \in DOMAIN ops' : SavesCall(ops'[j], c) /\ ops'[j].new
    <3>1. k - d \in DOMAIN ops' /\ ops'[k - d] = ops[k]
      BY <2>3 DEF SameSaves, SavesCall
    <3>2. QED
      BY <2>3, <3>1
  <2>4. QED
    BY <1>1, <2>1, <2>2, <2>3 DEF StoredOrAsked
<1>4. RowsOnce'
  BY DEF RowsOnce
<1>5. DeletesErased'
  BY DEF DeletesErased, SameSaves
<1>6. QED
  BY <1>2, <1>3, <1>4, <1>5

\* A record is not the absence of one.
LEMMA RecordIsOne == \A r \in Record : r # NoRecord
<1> TAKE r \in Record
<1>1. "end" \in DOMAIN r
  BY DEF Record
<1>2. "end" \notin DOMAIN NoRecord
  BY DEF NoRecord
<1>3. QED
  BY <1>1, <1>2

\* A save asked for, of a record or of a stamp.
LEMMA SaveAsked ==
  ASSUME IInv, Asked, NEW c \in Call, NEW r \in Record, NEW new \in BOOLEAN, r.id.call = c,
         \/ new = FALSE /\ record[c] # NoRecord /\ r.id = record[c].id
         \/ new = TRUE /\ record[c] = NoRecord /\ RowsOf(c) = {},
         record' = [record EXCEPT ![c] = r], ops' = AskSave(r, new),
         UNCHANGED <<rows, list, erased>>
  PROVE  Asked'
<1> DEFINE x == [op |-> "save", row |-> r, new |-> new]
           n == Len(ops) + 1
<1>1. ops \in Seq(Op) /\ record \in [Call -> Record \union {NoRecord}] /\ x \in Op
  BY DEF IInv, StoreTypeOK, Op
<1>2. x.op = "save" /\ x.row = r /\ x.new = new
  OBVIOUS
<1>3. ops' = Append(ops, x)
  BY DEF AskSave
<1> HIDE DEF x
<1>4. /\ n \in Nat /\ n \in DOMAIN ops' /\ ops'[n] = x
      /\ \A k \in DOMAIN ops : k \in Nat /\ k < n /\ k \in DOMAIN ops' /\ ops'[k] = ops[k]
      /\ \A k \in DOMAIN ops' : k = n \/ k \in DOMAIN ops
  BY <1>1, <1>3, PlacesAppended
<1> HIDE DEF n
<1>5. record'[c] = r /\ r # NoRecord /\ \A b \in Call \ {c} : record'[b] = record[b]
  BY <1>1, RecordIsOne
<1>6. SavesCall(ops'[n], c) /\ \A b : SavesCall(ops'[n], b) => b = c
  BY <1>2, <1>4 DEF SavesCall
<1> USE DEF Asked
<1>7. SavesLatest'
  <2> SUFFICES ASSUME NEW k \in DOMAIN ops', ops'[k].op = "save"
               PROVE  LET b == ops'[k].row.id.call
                      IN  /\ b \in Call /\ record'[b] # NoRecord /\ ops'[k].row.id = record'[b].id
                          /\ (\A j \in DOMAIN ops' : j > k => ~ SavesCall(ops'[j], b)) => ops'[k].row = record'[b]
    BY DEF SavesLatest, SavesCall
  <2>1. CASE k = n
    BY <1>2, <1>4, <1>5, <2>1
  <2>2. CASE k \in DOMAIN ops
    <3> DEFINE b == ops[k].row.id.call
    <3>1. ops'[k] = ops[k] /\ k < n
      BY <1>4, <2>2
    <3>2. /\ b \in Call /\ record[b] # NoRecord /\ ops[k].row.id = record[b].id
          /\ (\A j \in DOMAIN ops : j > k => ~ SavesCall(ops[j], b)) => ops[k].row = record[b]
      BY <2>2, <3>1 DEF SavesLatest
    <3>3. CASE b = c
      BY <1>4, <1>5, <1>6, <3>1, <3>2, <3>3
    <3>4. CASE b # c
      <4>1. (\A j \in DOMAIN ops' : j > k => ~ SavesCall(ops'[j], b))
              => (\A j \in DOMAIN ops : j > k => ~ SavesCall(ops[j], b))
        BY <1>4
      <4>2. QED
        BY <1>5, <3>1, <3>2, <3>4, <4>1
    <3>5. QED
      BY <3>3, <3>4
  <2>3. QED
    BY <1>4, <2>1, <2>2
<1>8. StoredOrAsked'
  <2> SUFFICES ASSUME NEW b \in Call, record'[b] # NoRecord, record'[b].id \notin erased
               PROVE  /\ (\A k \in DOMAIN ops' : ~ SavesCall(ops'[k], b)) => record'[b] \in rows
                      /\ \/ \E i \in list : i.id = record'[b].id
                         \/ \E k \in DOMAIN ops' : SavesCall(ops'[k], b) /\ ops'[k].new
    BY DEF StoredOrAsked, SavesCall
  <2>1. \A k \in DOMAIN ops : SavesCall(ops[k], b) => SavesCall(ops'[k], b) /\ ops'[k] = ops[k] /\ k \in DOMAIN ops'
    BY <1>4
  <2>2. CASE b # c
    BY <1>5, <2>1, <2>2 DEF StoredOrAsked
  <2>3. CASE b = c /\ new
    BY <1>2, <1>4, <1>6, <2>3
  <2>4. CASE b = c /\ ~ new
    BY <1>4, <1>5, <1>6, <2>1, <2>4 DEF StoredOrAsked
  <2>5. QED
    BY <2>2, <2>3, <2>4
<1>9. RowsOnce'
  BY <1>5 DEF RowsOnce, RowsOf
<1>10. DeletesErased'
  <2>1. ops'[n].op # "delete"
    BY <1>2, <1>4
  <2>2. QED
    BY <1>4, <2>1 DEF DeletesErased
<1>11. QED
  BY <1>7, <1>8, <1>9, <1>10

\* What stamp_call() does to a record.
LEMMA Stamped ==
  ASSUME IInv, Asked, NEW c \in Call, record[c] # NoRecord, record[c].id.call = c,
         NEW stamp \in {"answered", "end"}, StampCall(c, stamp), UNCHANGED <<rows, list, erased>>
  PROVE  /\ Asked'
         /\ record'[c] # NoRecord /\ record'[c].id = record[c].id
         /\ record'[c].answered = (record[c].answered \/ stamp = "answered")
         /\ record'[c].end = (record[c].end \/ stamp = "end")
         /\ \A b \in Call \ {c} : record'[b] = record[b]
<1> DEFINE r == [record[c] EXCEPT ![stamp] = TRUE]
<1>1. record \in [Call -> Record \union {NoRecord}] /\ record[c] \in Record /\ ops \in Seq(Op)
  BY DEF IInv, StoreTypeOK
<1>2. record[c].answered \in BOOLEAN /\ record[c].end \in BOOLEAN
  BY <1>1 DEF Record
<1>3. r \in Record /\ r.id = record[c].id
  BY <1>1 DEF Record
<1>4. r.answered = (record[c].answered \/ stamp = "answered") /\ r.end = (record[c].end \/ stamp = "end")
  <2>1. CASE stamp = "answered"
    BY <1>1, <1>2, <2>1 DEF Record
  <2>2. CASE stamp = "end"
    BY <1>1, <1>2, <2>2 DEF Record
  <2>3. QED
    BY <2>1, <2>2
<1>5. CASE record[c][stamp]
  <2>1. UNCHANGED <<record, ops>>
    BY <1>5 DEF StampCall
  <2>2. SameSaves(0)
    BY <1>1, <2>1 DEF SameSaves
  <2>3. Asked'
    BY <2>1, <2>2, SavesMoveUp
  <2>4. /\ record[c].answered = (record[c].answered \/ stamp = "answered")
        /\ record[c].end = (record[c].end \/ stamp = "end")
    BY <1>2, <1>5
  <2>5. QED
    BY <2>1, <2>3, <2>4
<1>6. CASE ~ record[c][stamp]
  <2>1. record' = [record EXCEPT ![c] = r] /\ ops' = AskSave(r, FALSE)
    BY <1>6 DEF StampCall
  <2> HIDE DEF r
  <2>2. r.id.call = c /\ r # NoRecord
    BY <1>3, RecordIsOne
  <2>3. Asked'
    BY <1>3, <2>1, <2>2, SaveAsked
  <2>4. record'[c] = r /\ \A b \in Call \ {c} : record'[b] = record[b]
    BY <1>1, <2>1
  <2>5. QED
    BY <1>3, <1>4, <2>2, <2>3, <2>4
<1>7. QED
  BY <1>5, <1>6

-----------------------------------------------------------------------------
(* One lemma per step, for the rest of the invariant. *)

LEMMA AddingKeeps ==
  ASSUME IInv, FInv, failures = 0, "DISCONNECTED" \notin FirstStates, NEW c \in Call, AddCall(c)
  PROVE  FInv'
<1> DEFINE r == [id |-> [call |-> c, attempt |-> attempts[c] + 1], answered |-> FALSE, end |-> FALSE]
<1>1. Kept /\ record \in [Call -> Record \union {NoRecord}] /\ attempts \in [Call -> Nat] /\ ops \in Seq(Op)
  BY DEF FInv, IInv, StoreTypeOK
<1>2. PICK s \in FirstStates :
        /\ call' = [call EXCEPT ![c] = s]
        /\ rang' = IF RecordState(s) = "STARTED" THEN rang \union {c} ELSE rang
  BY DEF AddCall
<1>3. call[c] = "NONE" /\ UNCHANGED <<list, rows, failures, erased>>
  BY DEF AddCall
<1>4. record[c] = NoRecord /\ c \notin rang /\ RowsOf(c) = {} /\ c \notin watched
  BY <1>1, <1>3 DEF Kept, NewLeftNothing, WatchedRecorded
<1>5. s \in CuiState \ {"DISCONNECTED"}
  BY RecordAssumption
<1>6. /\ call' \in [Call -> CuiState \union {"NONE", "REMOVED"}] /\ failures' \in Nat
      /\ call'[c] = s /\ \A b \in Call \ {c} : call'[b] = call[b] /\ (b \in rang' <=> b \in rang)
      /\ c \in rang' => s \in {"CALLING", "INCOMING"}
  BY <1>2, <1>3, <1>4, <1>5 DEF FInv, CuiState, RecordState
<1>7. s \notin {"NONE", "REMOVED", "DISCONNECTED"}
  BY <1>5 DEF CuiState
<1>8. CASE repository
  <2>1. record' = [record EXCEPT ![c] = r] /\ ops' = AskSave(r, TRUE) /\ watched' = watched \union {c}
    BY <1>8 DEF AddCall, RecordCall
  <2>2. r \in Record /\ r.id.call = c /\ r.end = FALSE
    BY <1>1 DEF Record, Id
  <2> HIDE DEF r
  <2>3. Asked'
    BY <1>1, <1>3, <1>4, <2>1, <2>2, SaveAsked DEF Kept, Asked
  <2>4. record'[c] = r /\ r # NoRecord /\ \A b \in Call \ {c} : record'[b] = record[b]
    BY <1>1, <2>1, <2>2, RecordIsOne
  <2>5. NewLeftNothing' /\ WatchedRecorded'
    BY <1>1, <1>3, <1>6, <1>7, <2>1, <2>4 DEF Kept, NewLeftNothing, WatchedRecorded, RowsOf
  <2>6. StampsTold'
    BY <1>1, <1>6, <1>7, <2>2, <2>4 DEF Kept, StampsTold
  <2>7. QED
    BY <1>6, <2>3, <2>5, <2>6 DEF FInv, Kept, Asked
<1>9. CASE ~ repository
  <2>1. OpenRepo /\ record' = record /\ watched' = watched
    BY <1>9 DEF AddCall
  <2>2. SameSaves(0)
    <3>1. CASE ops' = ops
      BY <1>1, <3>1 DEF SameSaves
    <3>2. CASE ops' = Ask("open")
      <4> DEFINE x == [op |-> "open"]
      <4>1. x \in Op /\ x.op = "open"
        BY DEF Op
      <4>2. ops' = Append(ops, x)
        BY <3>2 DEF Ask
      <4> HIDE DEF x
      <4>3. QED
        BY <1>1, <4>1, <4>2, PlacesAppended DEF SameSaves
    <3>3. QED
      BY <2>1, <3>1, <3>2 DEF OpenRepo
  <2>3. Asked'
    BY <1>1, <1>3, <2>1, <2>2, SavesMoveUp DEF Kept, Asked
  <2>4. NewLeftNothing' /\ WatchedRecorded' /\ StampsTold'
    BY <1>1, <1>3, <1>4, <1>6, <1>7, <2>1 DEF Kept, NewLeftNothing, WatchedRecorded, StampsTold, RowsOf
  <2>5. QED
    BY <1>6, <2>3, <2>4 DEF FInv, Kept, Asked
<1>10. QED
  BY <1>8, <1>9

LEMMA ChangingKeeps ==
  ASSUME IInv, FInv, failures = 0, NEW c \in Call, StateChanged(c)
  PROVE  FInv'
<1>1. Kept /\ record \in [Call -> Record \union {NoRecord}] /\ ops \in Seq(Op)
  BY DEF FInv, IInv, StoreTypeOK
<1>2. /\ call[c] \in {"CALLING", "INCOMING", "ACTIVE", "HELD"}
      /\ UNCHANGED <<watched, rows, list, failures, erased, rang>>
  BY DEF StateChanged, Successors, storeVars, history
<1>3. PICK s \in Successors[call[c]] :
        /\ call' = [call EXCEPT ![c] = s]
        /\ \/ c \notin watched /\ UNCHANGED <<record, attempts, ops>>
           \/ /\ c \in watched
              /\ record[c] = NoRecord
              /\ IF c \in start THEN RecordCall(c) ELSE UNCHANGED <<record, attempts, ops>>
           \/ /\ c \in watched
              /\ record[c] # NoRecord
              /\ IF RecordState(s) = RecordState(call[c]) THEN UNCHANGED <<record, ops>>
                 ELSE StampCall(c, IF RecordState(s) = "ANSWERED" THEN "answered" ELSE "end")
              /\ UNCHANGED attempts
  BY DEF StateChanged
<1>4. s \in {"ACTIVE", "HELD", "DISCONNECTED"} /\ (s = "HELD" => call[c] = "ACTIVE")
  BY <1>2 DEF Successors
<1>5. /\ call' \in [Call -> CuiState \union {"NONE", "REMOVED"}] /\ failures' \in Nat
      /\ call'[c] = s /\ \A b \in Call \ {c} : call'[b] = call[b]
  BY <1>2, <1>3, <1>4 DEF FInv, CuiState
<1>6. CASE record[c] = NoRecord
  <2>1. UNCHANGED <<record, ops>>
    BY <1>1, <1>2, <1>3, <1>6 DEF Kept, WatchedRecorded
  <2>2. SameSaves(0)
    BY <1>1, <2>1 DEF SameSaves
  <2>3. Asked'
    BY <1>1, <1>2, <2>1, <2>2, SavesMoveUp DEF Kept, Asked
  <2>4. NewLeftNothing' /\ WatchedRecorded' /\ StampsTold'
    BY <1>1, <1>2, <1>4, <1>5, <1>6, <2>1 DEF Kept, NewLeftNothing, WatchedRecorded, StampsTold, RowsOf
  <2>5. QED
    BY <1>5, <2>3, <2>4 DEF FInv, Kept, Asked
<1>7. CASE record[c] # NoRecord
  <2>1. /\ c \in watched /\ record[c].id.call = c /\ record[c].end = FALSE
        /\ c \in rang /\ call[c] \in {"ACTIVE", "HELD"} => record[c].answered
    <3>1. record[c] \in Record
      BY <1>1, <1>7
    <3>2. record[c].end \in BOOLEAN
      BY <3>1 DEF Record
    <3>3. QED
      BY <1>1, <1>2, <1>7, <3>2 DEF Kept, WatchedRecorded, StampsTold
  <2>2. IF RecordState(s) = RecordState(call[c]) THEN UNCHANGED <<record, ops>>
        ELSE StampCall(c, IF RecordState(s) = "ANSWERED" THEN "answered" ELSE "end")
    BY <1>3, <1>7, <2>1
  <2>3. CASE RecordState(s) = RecordState(call[c])
    <3>1. UNCHANGED <<record, ops>>
      BY <2>2, <2>3
    <3>2. s \in {"ACTIVE", "HELD"} /\ call[c] \in {"ACTIVE", "HELD"}
      BY <1>2, <1>4, <2>3 DEF RecordState
    <3>3. SameSaves(0)
      BY <1>1, <3>1 DEF SameSaves
    <3>4. Asked'
      BY <1>1, <1>2, <3>1, <3>3, SavesMoveUp DEF Kept, Asked
    <3>5. NewLeftNothing' /\ WatchedRecorded' /\ StampsTold'
      BY <1>1, <1>2, <1>5, <2>1, <3>1, <3>2 DEF Kept, NewLeftNothing, WatchedRecorded, StampsTold, RowsOf
    <3>6. QED
      BY <1>5, <3>4, <3>5 DEF FInv, Kept, Asked
  <2>4. CASE RecordState(s) # RecordState(call[c])
    <3> DEFINE stamp == IF RecordState(s) = "ANSWERED" THEN "answered" ELSE "end"
    <3>1. stamp \in {"answered", "end"} /\ StampCall(c, stamp) /\ (stamp = "end" <=> s = "DISCONNECTED")
      BY <1>4, <2>2, <2>4 DEF RecordState
    <3> HIDE DEF stamp
    <3>2. /\ Asked'
          /\ record'[c] # NoRecord /\ record'[c].id = record[c].id
          /\ record'[c].answered = (record[c].answered \/ stamp = "answered")
          /\ record'[c].end = (record[c].end \/ stamp = "end")
          /\ \A b \in Call \ {c} : record'[b] = record[b]
      BY <1>1, <1>2, <1>7, <2>1, <3>1, Stamped DEF Kept, Asked
    <3>3. NewLeftNothing' /\ WatchedRecorded'
      BY <1>1, <1>2, <1>4, <1>5, <1>7, <3>2 DEF Kept, NewLeftNothing, WatchedRecorded, RowsOf
    <3>4. StampsTold'
      <4>1. /\ record'[c].id.call = c
            /\ record'[c].end <=> call'[c] \in {"DISCONNECTED", "REMOVED"}
            /\ call'[c] \in {"ACTIVE", "HELD"} => record'[c].answered
        BY <1>4, <1>5, <2>1, <3>1, <3>2
      <4>2. QED
        BY <1>1, <1>2, <1>5, <3>2, <4>1 DEF Kept, StampsTold
    <3>5. QED
      BY <1>5, <3>2, <3>3, <3>4 DEF FInv, Kept, Asked
  <2>5. QED
    BY <2>3, <2>4
<1>8. QED
  BY <1>6, <1>7

LEMMA RemovingKeeps ==
  ASSUME IInv, FInv, failures = 0, NEW c \in Call, RemoveCall(c)
  PROVE  FInv'
<1>1. Kept /\ record \in [Call -> Record \union {NoRecord}] /\ ops \in Seq(Op)
  BY DEF FInv, IInv, StoreTypeOK
<1>2. /\ call[c] \in CuiState /\ call' = [call EXCEPT ![c] = "REMOVED"] /\ watched' = watched \ {c}
      /\ UNCHANGED <<rows, list, failures, erased, rang>>
  BY DEF RemoveCall, storeVars, history
<1>3. /\ call' \in [Call -> CuiState \union {"NONE", "REMOVED"}] /\ failures' \in Nat
      /\ call'[c] = "REMOVED" /\ \A b \in Call \ {c} : call'[b] = call[b]
  BY <1>2 DEF FInv
<1>4. CASE record[c] = NoRecord
  <2>1. UNCHANGED <<record, ops>>
    BY <1>4 DEF RemoveCall
  <2>2. SameSaves(0)
    BY <1>1, <2>1 DEF SameSaves
  <2>3. Asked'
    BY <1>1, <1>2, <2>1, <2>2, SavesMoveUp DEF Kept, Asked
  <2>4. NewLeftNothing' /\ WatchedRecorded' /\ StampsTold'
    BY <1>1, <1>2, <1>3, <1>4, <2>1 DEF Kept, NewLeftNothing, WatchedRecorded, StampsTold, RowsOf
  <2>5. QED
    BY <1>3, <2>3, <2>4 DEF FInv, Kept, Asked
<1>5. CASE record[c] # NoRecord
  <2>1. record[c].id.call = c
    BY <1>1, <1>5 DEF Kept, StampsTold
  <2>2. StampCall(c, "end")
    BY <1>5 DEF RemoveCall
  <2>3. /\ Asked'
        /\ record'[c] # NoRecord /\ record'[c].id = record[c].id
        /\ record'[c].end = (record[c].end \/ "end" = "end")
        /\ \A b \in Call \ {c} : record'[b] = record[b]
    BY <1>1, <1>2, <1>5, <2>1, <2>2, Stamped DEF Kept, Asked
  <2>4. NewLeftNothing' /\ WatchedRecorded'
    BY <1>1, <1>2, <1>3, <2>3 DEF Kept, NewLeftNothing, WatchedRecorded, RowsOf
  <2>5. StampsTold'
    BY <1>1, <1>2, <1>3, <2>1, <2>3 DEF Kept, StampsTold
  <2>6. QED
    BY <1>3, <2>3, <2>4, <2>5 DEF FInv, Kept, Asked
<1>6. QED
  BY <1>4, <1>5

LEMMA DeletingKeeps ==
  ASSUME IInv, FInv, failures = 0, NEW i \in list, DeleteRecord(i)
  PROVE  FInv'
<1> DEFINE x == [op |-> "delete", id |-> i.id]
<1>1. Kept /\ ops \in Seq(Op) /\ list \subseteq Item
  BY DEF FInv, IInv, StoreTypeOK
<1>2. /\ list' = list \ {i} /\ erased' = erased \union {i.id}
      /\ UNCHANGED <<call, watched, record, rows, failures, rang>>
      /\ ops' = Append(ops, x) \/ ops' = ops
  BY DEF DeleteRecord, callVars
<1>3. x \in Op /\ x.op = "delete" /\ x.id = i.id
  BY <1>1 DEF Item, Op
<1> HIDE DEF x
<1>4. SameSaves(0)
  <2>1. CASE ops' = ops
    BY <1>1, <2>1 DEF SameSaves
  <2>2. CASE ops' = Append(ops, x)
    BY <1>1, <1>2, <1>3, <2>2, PlacesAppended DEF SameSaves
  <2>3. QED
    BY <1>2, <2>1, <2>2
<1>5. Asked'
  <2>1. \A k \in list \ list' : k.id \in erased'
    BY <1>2
  <2>2. QED
    BY <1>1, <1>2, <1>4, <2>1, SavesMoveUp DEF Kept, Asked
<1>6. NewLeftNothing' /\ WatchedRecorded' /\ StampsTold'
  BY <1>1, <1>2 DEF Kept, NewLeftNothing, WatchedRecorded, StampsTold, RowsOf
<1>7. QED
  BY <1>2, <1>5, <1>6 DEF FInv, Kept, Asked

\* An answer of the opening of the database.
LEMMA OpeningKeeps ==
  ASSUME IInv, FInv, failures = 0, failures' = 0, Opened \/ Migrated \/ Found \/ Fetched
  PROVE  FInv'
<1>1. Kept /\ ops \in Seq(Op)
  BY DEF FInv, IInv, StoreTypeOK
<1>2. /\ ops # <<>> /\ Head(ops).op \in Opening /\ UNCHANGED <<callVars, rows, erased, rang>>
      /\ list \subseteq list'
  BY DEF Opened, Migrated, Found, Fetched, Answered, Opening
<1>3. /\ UNCHANGED <<call, watched, record>>
  BY <1>2 DEF callVars
<1>4. Proceeds
  <2>1. [op |-> "migrate"] \in Op /\ [op |-> "find"] \in Op
    BY DEF Op
  <2>2. [op |-> "fetch", count |-> Cardinality(rows)] \in Op
    BY DEF IInv, StoreTypeOK, Op
  <2>3. CASE Opened
    BY <2>1, <2>3 DEF Opened, Proceeds, Again, Opening
  <2>4. CASE Migrated
    BY <2>1, <2>4 DEF Migrated, Proceeds, Again, Opening
  <2>5. CASE Found
    BY <2>2, <2>5 DEF Found, Proceeds, Opening
  <2>6. CASE Fetched
    BY <2>6 DEF Fetched, Proceeds
  <2>7. QED
    BY <2>3, <2>4, <2>5, <2>6
<1>5. /\ Tail(ops) \in Seq(Op) /\ 1 \in DOMAIN ops /\ Head(ops) = ops[1]
      /\ \A k \in DOMAIN Tail(ops) : k \in Nat /\ k > 0 /\ k + 1 \in DOMAIN ops /\ Tail(ops)[k] = ops[k + 1]
      /\ \A k \in DOMAIN ops : /\ k \in Nat
                               /\ k # 1 => k > 1 /\ k - 1 \in DOMAIN Tail(ops) /\ Tail(ops)[k - 1] = ops[k]
  BY <1>1, <1>2, PlacesTail
<1>6. ops[1].op # "save"
  BY <1>2, <1>5 DEF Opening
<1>7. SameSaves(1)
  <2>1. CASE Finished
    <3>1. ops' = Tail(ops)
      BY <1>5, <2>1 DEF Finished, Next1
    <3>2. QED
      BY <1>5, <1>6, <3>1 DEF SameSaves
  <2>2. ASSUME NEW x \in Op, x.op \in Opening, Next1(<<x>>) PROVE SameSaves(1)
    <3>1. ops' = Append(Tail(ops), x)
      BY <1>5, <2>2 DEF Next1
    <3>2. LET n == Len(Tail(ops)) + 1
          IN  /\ n \in Nat /\ n \in DOMAIN ops' /\ ops'[n] = x
              /\ \A k \in DOMAIN Tail(ops) : k \in Nat /\ k < n /\ k \in DOMAIN ops' /\ ops'[k] = Tail(ops)[k]
              /\ \A k \in DOMAIN ops' : k = n \/ k \in DOMAIN Tail(ops)
      BY <1>5, <3>1, PlacesAppended
    <3>3. x.op \notin {"save", "delete"}
      BY <2>2 DEF Opening
    <3>4. QED
      BY <1>5, <1>6, <3>2, <3>3 DEF SameSaves
  <2>3. QED
    BY <1>4, <2>1, <2>2 DEF Proceeds
<1>8. Asked'
  BY <1>1, <1>2, <1>3, <1>7, SavesMoveUp DEF Kept, Asked
<1>9. NewLeftNothing' /\ WatchedRecorded' /\ StampsTold'
  BY <1>1, <1>2, <1>3 DEF Kept, NewLeftNothing, WatchedRecorded, StampsTold, RowsOf
<1>10. QED
  BY <1>3, <1>8, <1>9 DEF FInv, Kept, Asked

\* The answer of a deletion.
LEMMA DeletedKeeps ==
  ASSUME IInv, FInv, failures = 0, failures' = 0, Deleted PROVE FInv'
<1>1. Kept /\ ops \in Seq(Op)
  BY DEF FInv, IInv, StoreTypeOK
<1>2. /\ ops # <<>> /\ Head(ops).op = "delete" /\ ops' = Tail(ops) \o <<>>
      /\ UNCHANGED <<call, watched, record, list, erased, rang>>
      /\ rows' \subseteq rows /\ \A r \in rows \ rows' : r.id = Head(ops).id
  BY DEF Deleted, Answered, Next1, callVars, storeVars
<1>3. /\ Tail(ops) \in Seq(Op) /\ 1 \in DOMAIN ops /\ Head(ops) = ops[1]
      /\ \A k \in DOMAIN Tail(ops) : k \in Nat /\ k > 0 /\ k + 1 \in DOMAIN ops /\ Tail(ops)[k] = ops[k + 1]
      /\ \A k \in DOMAIN ops : /\ k \in Nat
                               /\ k # 1 => k > 1 /\ k - 1 \in DOMAIN Tail(ops) /\ Tail(ops)[k - 1] = ops[k]
  BY <1>1, <1>2, PlacesTail
<1>4. ops' = Tail(ops)
  BY <1>2, <1>3
<1>5. SameSaves(1)
  BY <1>2, <1>3, <1>4 DEF SameSaves
<1>6. \A r \in rows \ rows' : r.id \in erased'
  BY <1>1, <1>2, <1>3 DEF Kept, DeletesErased
<1>7. Asked'
  BY <1>1, <1>2, <1>5, <1>6, SavesMoveUp DEF Kept, Asked
<1>8. NewLeftNothing' /\ WatchedRecorded' /\ StampsTold'
  BY <1>1, <1>2 DEF Kept, NewLeftNothing, WatchedRecorded, StampsTold, RowsOf
<1>9. QED
  BY <1>2, <1>7, <1>8 DEF FInv, Kept, Asked

\* The answer of a save.
LEMMA SavedKeeps ==
  ASSUME IInv, FInv, failures = 0, failures' = 0, Saved PROVE FInv'
<1> DEFINE r == ops[1].row
           c == r.id.call
<1>1. Kept /\ ops \in Seq(Op)
  BY DEF FInv, IInv, StoreTypeOK
<1>2. ops # <<>> /\ Head(ops).op = "save" /\ ops' = Tail(ops) \o <<>> /\ UNCHANGED <<call, watched, erased, rang>>
  BY DEF Saved, Answered, Next1
<1>3. /\ Tail(ops) \in Seq(Op) /\ 1 \in DOMAIN ops /\ Head(ops) = ops[1]
      /\ \A k \in DOMAIN Tail(ops) : k \in Nat /\ k > 0 /\ k + 1 \in DOMAIN ops /\ Tail(ops)[k] = ops[k + 1]
      /\ \A k \in DOMAIN ops : /\ k \in Nat
                               /\ k # 1 => k > 1 /\ k - 1 \in DOMAIN Tail(ops) /\ Tail(ops)[k - 1] = ops[k]
  BY <1>1, <1>2, PlacesTail
<1>4. ops' = Tail(ops)
  BY <1>2, <1>3
<1>5. ~ Fails
  BY DEF Fails
<1>6. /\ rows' = {q \in rows : q.id # r.id} \union {r}
      /\ list' = IF ops[1].new THEN list \union {[id |-> r.id, loaded |-> FALSE]} ELSE list
      /\ record' = record
  BY <1>3, <1>5 DEF Saved
<1>7. /\ c \in Call /\ record[c] # NoRecord /\ r.id = record[c].id
      /\ (\A j \in DOMAIN ops : j > 1 => ~ SavesCall(ops[j], c)) => r = record[c]
  BY <1>1, <1>2, <1>3 DEF Kept, SavesLatest
<1>8. \A b : SavesCall(ops[1], b) <=> b = c
  BY <1>2, <1>3 DEF SavesCall
<1> HIDE DEF r
<1>9. SavesLatest'
  <2> SUFFICES ASSUME NEW k \in DOMAIN ops', ops'[k].op = "save"
               PROVE  LET b == ops'[k].row.id.call
                      IN  /\ b \in Call /\ record[b] # NoRecord /\ ops'[k].row.id = record[b].id
                          /\ (\A j \in DOMAIN ops' : j > k => ~ SavesCall(ops'[j], b)) => ops'[k].row = record[b]
    BY <1>6 DEF SavesLatest, SavesCall
  <2> DEFINE b == ops'[k].row.id.call
  <2>1. k \in Nat /\ k > 0 /\ k + 1 \in DOMAIN ops /\ ops'[k] = ops[k + 1]
    BY <1>3, <1>4
  <2>2. ASSUME \A j \in DOMAIN ops' : j > k => ~ SavesCall(ops'[j], b)
        PROVE  \A j \in DOMAIN ops : j > k + 1 => ~ SavesCall(ops[j], b)
    <3> SUFFICES ASSUME NEW j \in DOMAIN ops, j > k + 1 PROVE ~ SavesCall(ops[j], b)
      OBVIOUS
    <3>1. j \in Nat /\ j - 1 \in DOMAIN ops' /\ ops'[j - 1] = ops[j] /\ j - 1 > k
      BY <1>3, <1>4, <2>1
    <3>2. QED
      BY <2>2, <3>1
  <2>3. QED
    BY <1>1, <2>1, <2>2 DEF Kept, SavesLatest
<1>10. StoredOrAsked'
  <2> SUFFICES ASSUME NEW b \in Call, record[b] # NoRecord, record[b].id \notin erased
               PROVE  /\ (\A k \in DOMAIN ops' : ~ SavesCall(ops'[k], b)) => record[b] \in rows'
                      /\ \/ \E i \in list' : i.id = record[b].id
                         \/ \E k \in DOMAIN ops' : SavesCall(ops'[k], b) /\ ops'[k].new
    BY <1>2, <1>6 DEF StoredOrAsked, SavesCall
  <2>1. ASSUME \A k \in DOMAIN ops' : ~ SavesCall(ops'[k], b)
        PROVE  \A k \in DOMAIN ops : k # 1 => ~ SavesCall(ops[k], b)
    BY <1>3, <1>4, <2>1
  <2>2. ASSUME \A k \in DOMAIN ops' : ~ SavesCall(ops'[k], b) PROVE record[b] \in rows'
    <3>1. CASE b = c
      BY <1>3, <1>6, <1>7, <2>1, <2>2, <3>1
    <3>2. CASE b # c
      <4>1. record[b] \in rows
        BY <1>1, <1>8, <2>1, <2>2, <3>2 DEF Kept, StoredOrAsked
      <4>2. record[b].id.call = b
        BY <1>1 DEF Kept, StampsTold
      <4>3. QED
        BY <1>6, <3>2, <4>1, <4>2
    <3>3. QED
      BY <3>1, <3>2
  <2>3. CASE \E i \in list : i.id = record[b].id
    BY <1>6, <2>2, <2>3
  <2>4. ASSUME NEW k \in DOMAIN ops, SavesCall(ops[k], b), ops[k].new
        PROVE  \/ \E i \in list' : i.id = record[b].id
               \/ \E j \in DOMAIN ops' : SavesCall(ops'[j], b) /\ ops'[j].new
    <3>1. CASE k = 1
      <4>1. b = c /\ [id |-> r.id, loaded |-> FALSE] \in list'
        BY <1>6, <1>8, <2>4, <3>1
      <4>2. [id |-> r.id, loaded |-> FALSE].id = record[b].id
        BY <1>7, <4>1
      <4>3. QED
        BY <4>1, <4>2
    <3>2. CASE k # 1
      BY <1>3, <1>4, <2>4, <3>2
    <3>3. QED
      BY <3>1, <3>2
  <2>5. QED
    BY <1>1, <2>2, <2>3, <2>4 DEF Kept, StoredOrAsked
<1>11. RowsOnce'
  BY <1>1, <1>6, <1>7 DEF Kept, RowsOnce
<1>12. DeletesErased'
  BY <1>1, <1>2, <1>3, <1>4 DEF Kept, DeletesErased
<1>13. NewLeftNothing' /\ WatchedRecorded' /\ StampsTold'
  BY <1>1, <1>2, <1>6, <1>7 DEF Kept, NewLeftNothing, WatchedRecorded, StampsTold, RowsOf
<1>14. QED
  BY <1>2, <1>9, <1>10, <1>11, <1>12, <1>13 DEF FInv, Kept

LEMMA RestartingKeeps ==
  ASSUME FInv, failures = 0, Restart PROVE FInv'
<1>1. /\ call' = [c \in Call |-> IF call[c] = "NONE" THEN "NONE" ELSE "REMOVED"]
      /\ watched' = {} /\ record' = [c \in Call |-> NoRecord] /\ ops' = <<[op |-> "open"]>>
      /\ UNCHANGED <<rows, failures, erased, rang>>
  BY DEF Restart
<1>2. \A k \in DOMAIN ops' : ops'[k].op = "open"
  BY <1>1
<1>3. NewLeftNothing' /\ WatchedRecorded' /\ StampsTold'
  BY <1>1 DEF FInv, Kept, NewLeftNothing, WatchedRecorded, StampsTold, RowsOf
<1>4. SavesLatest' /\ StoredOrAsked' /\ RowsOnce' /\ DeletesErased'
  BY <1>1, <1>2 DEF FInv, Kept, SavesLatest, StoredOrAsked, RowsOnce, DeletesErased
<1>5. call' \in [Call -> CuiState \union {"NONE", "REMOVED"}]
  BY <1>1
<1>6. QED
  BY <1>1, <1>3, <1>4, <1>5 DEF FInv, Kept

LEMMA StartingKeeps == ASSUME Init PROVE FInv
<1>1. /\ call = [c \in Call |-> "NONE"] /\ watched = {} /\ record = [c \in Call |-> NoRecord]
      /\ ops = <<[op |-> "open"]>> /\ failures = 0 /\ rang = {}
      /\ rows = {[id |-> [call |-> o, attempt |-> 0], answered |-> FALSE, end |-> TRUE] : o \in Old}
  BY DEF Init
<1>2. \A k \in DOMAIN ops : ops[k].op = "open"
  BY <1>1
<1>3. \A r \in rows : /\ r.id.call \in Old
                      /\ r = [id |-> [call |-> r.id.call, attempt |-> 0], answered |-> FALSE, end |-> TRUE]
  BY <1>1
<1>4. \A c \in Call : RowsOf(c) = {}
  BY <1>3, RecordAssumption DEF RowsOf
<1>5. NewLeftNothing /\ WatchedRecorded /\ StampsTold
  BY <1>1, <1>4 DEF NewLeftNothing, WatchedRecorded, StampsTold
<1>6. SavesLatest /\ StoredOrAsked /\ DeletesErased
  BY <1>1, <1>2 DEF SavesLatest, StoredOrAsked, DeletesErased
<1>7. RowsOnce
  <2>1. \A r, q \in rows : r.id = q.id => r = q
    BY <1>3
  <2>2. QED
    BY <1>1, <2>1 DEF RowsOnce
<1>8. call \in [Call -> CuiState \union {"NONE", "REMOVED"}]
  BY <1>1
<1>9. QED
  BY <1>1, <1>5, <1>6, <1>7, <1>8 DEF FInv, Kept

\* Failures are counted, and never forgotten: the rest of the invariant says
\* something of the runs without any.
LEMMA FailuresCounted == FInv /\ [Next]_vars => failures' \in Nat /\ failures' >= failures
<1> SUFFICES ASSUME FInv, [Next]_vars PROVE failures' \in Nat /\ failures' >= failures
  OBVIOUS
<1>1. failures \in Nat
  BY DEF FInv
<1>2. failures' = failures \/ failures' = failures + 1
  <2>1. \A c \in Call : AddCall(c) \/ StateChanged(c) \/ RemoveCall(c) => failures' = failures
    BY DEF AddCall, StateChanged, RemoveCall, history
  <2>2. \A i \in list : DeleteRecord(i) => failures' = failures
    BY DEF DeleteRecord
  <2>3. Answer => failures' = failures \/ failures' = failures + 1
    BY DEF Answer, Opened, Migrated, Found, Fetched, Saved, Deleted, Succeeds, Fails
  <2>4. Restart \/ UNCHANGED vars => failures' = failures
    BY DEF Restart, vars, history
  <2>5. QED
    BY <2>1, <2>2, <2>3, <2>4 DEF Next
<1>3. QED
  BY <1>1, <1>2

\* UI states of calls keep their type, failures or not.
LEMMA CallTyped ==
  FInv /\ [Next]_vars => call' \in [Call -> CuiState \union {"NONE", "REMOVED"}]
<1> SUFFICES ASSUME FInv, [Next]_vars PROVE call' \in [Call -> CuiState \union {"NONE", "REMOVED"}]
  OBVIOUS
<1> USE DEF FInv
<1>1. ASSUME NEW c \in Call, AddCall(c) PROVE call' \in [Call -> CuiState \union {"NONE", "REMOVED"}]
  BY <1>1, RecordAssumption DEF AddCall
<1>2. ASSUME NEW c \in Call, StateChanged(c) PROVE call' \in [Call -> CuiState \union {"NONE", "REMOVED"}]
  <2>1. PICK s \in Successors[call[c]] : call' = [call EXCEPT ![c] = s]
    BY <1>2 DEF StateChanged
  <2>2. s \in CuiState
    BY <1>2, <2>1 DEF StateChanged, Successors, CuiState
  <2>3. QED
    BY <2>1, <2>2
<1>3. ASSUME NEW c \in Call, RemoveCall(c) PROVE call' \in [Call -> CuiState \union {"NONE", "REMOVED"}]
  BY <1>3 DEF RemoveCall
<1>4. Restart => call' \in [Call -> CuiState \union {"NONE", "REMOVED"}]
  BY DEF Restart
<1>5. (\E i \in list : DeleteRecord(i)) \/ Answer \/ UNCHANGED vars => call' = call
  BY DEF DeleteRecord, Answer, Opened, Migrated, Found, Fetched, Saved, Deleted, vars, callVars
<1>6. QED
  BY <1>1, <1>2, <1>3, <1>4, <1>5 DEF Next

LEMMA NextKeeps ==
  ASSUME "DISCONNECTED" \notin FirstStates, IInv, FInv, [Next]_vars PROVE FInv'
<1>1. failures \in Nat /\ failures' \in Nat /\ failures' >= failures
  BY FailuresCounted DEF FInv
<1>2. CASE failures' # 0
  BY <1>1, <1>2, CallTyped DEF FInv
<1>3. CASE failures' = 0
  <2>1. failures = 0
    BY <1>1, <1>3
  <2>2. ASSUME NEW c \in Call, AddCall(c) \/ StateChanged(c) \/ RemoveCall(c) PROVE FInv'
    BY <2>1, <2>2, AddingKeeps, ChangingKeeps, RemovingKeeps
  <2>3. ASSUME NEW i \in list, DeleteRecord(i) PROVE FInv'
    BY <2>1, <2>3, DeletingKeeps
  <2>4. CASE Answer
    BY <1>3, <2>1, <2>4, OpeningKeeps, DeletedKeeps, SavedKeeps DEF Answer
  <2>5. CASE Restart
    BY <2>1, <2>5, RestartingKeeps
  <2>6. CASE UNCHANGED vars
    <3>1. UNCHANGED <<call, watched, record, ops, rows, list, failures, erased, rang>>
      BY <2>6 DEF vars, callVars, storeVars, history
    <3>2. NewLeftNothing' /\ WatchedRecorded' /\ StampsTold'
      BY <2>1, <3>1 DEF FInv, Kept, NewLeftNothing, WatchedRecorded, StampsTold, RowsOf
    <3>3. SavesLatest' /\ StoredOrAsked' /\ RowsOnce' /\ DeletesErased'
      BY <2>1, <3>1 DEF FInv, Kept, SavesLatest, StoredOrAsked, RowsOnce, DeletesErased, SavesCall
    <3>4. QED
      BY <3>1, <3>2, <3>3 DEF FInv, Kept
  <2>7. QED
    BY <2>2, <2>3, <2>4, <2>5, <2>6 DEF Next
<1>4. QED
  BY <1>2, <1>3

\* Without failures, a quiet database and the list hold exactly one record of
\* every recorded call the user kept, and its stamps say what became of the
\* call, for any number of calls and restarts and whatever the user deletes.
\* A call that is over when it is added would get no stamp.
THEOREM RecordsFaithfulHolds ==
  ASSUME "DISCONNECTED" \notin FirstStates
  PROVE  Spec => []RecordsFaithful
<1>1. Init => FInv
  BY StartingKeeps
<1>2. IInv /\ FInv /\ [Next]_vars => FInv'
  BY NextKeeps
<1>3. FInv => RecordsFaithful
  <2> SUFFICES ASSUME FInv, Quiet, NEW c \in Call, record[c] # NoRecord
               PROVE  /\ record[c].id \notin erased =>
                           RowsOf(c) = {record[c]} /\ \E i \in list : i.id = record[c].id
                      /\ record[c].end <=> call[c] \in {"DISCONNECTED", "REMOVED"}
                      /\ c \in rang /\ call[c] \in {"ACTIVE", "HELD"} => record[c].answered
    BY DEF RecordsFaithful
  <2>1. Kept /\ ops = <<>>
    BY DEF FInv, Quiet
  <2>2. ASSUME record[c].id \notin erased PROVE RowsOf(c) = {record[c]} /\ \E i \in list : i.id = record[c].id
    <3>1. record[c] \in rows /\ \E i \in list : i.id = record[c].id
      BY <2>1, <2>2 DEF Kept, StoredOrAsked
    <3>2. record[c].id.call = c
      BY <2>1 DEF Kept, StampsTold
    <3>3. \A r \in RowsOf(c) : r = record[c]
      BY <2>1, <3>1 DEF Kept, RowsOnce, RowsOf
    <3>4. QED
      BY <3>1, <3>2, <3>3 DEF RowsOf
  <2>3. QED
    BY <2>1, <2>2 DEF Kept, StampsTold
<1>4. QED
  BY <1>1, <1>2, <1>3, Invariance, PTL DEF Spec

=============================================================================
