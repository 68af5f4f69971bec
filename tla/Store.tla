------------------------------- MODULE Store -------------------------------
(***************************************************************************)
(* The table store (store.rs) and its writer lock (writer_lock.rs): any    *)
(* number of readers and at most one writer per database directory.  A     *)
(* writing call is a sequence of steps, each of which can fail or be cut   *)
(* short: check the token and the role, commit the change to the table,    *)
(* record it in the audit log, reconcile the vectors of the table's        *)
(* embedding column with its text.                                         *)
(*                                                                         *)
(* A table is its live rows, from row id to the text of the embedding      *)
(* column, and the next row id; a vector is named by the text it embeds.   *)
(* The table format commits each change atomically and gives a rewritten   *)
(* row a new id (external).  What the log itself does is in AuditLog; here *)
(* a record is made or fails.                                              *)
(***************************************************************************)
EXTENDS Integers, FiniteSets

CONSTANTS
  Handles,      \* what open_for_writing and new return, one per process
  Tasks,        \* calls in progress; a handle and its clones serve several
  HandleOf,     \* the handle each task uses
  Tables,       \* table names
  AutoTables,   \* those whose schema declares an auto-embedding column
  Texts,        \* values of that column
  Calls,        \* the calls tasks make, a subset of AllCalls
  Grants,       \* tokens of each handle: pairs of a table and a scope
  Embeds,       \* handles opened with an embedder
  Audited,      \* handles that record what they do
  Encrypted,    \* whether the handles were opened with a keyring
  Nobody,       \* the lock's owner when nobody holds it
  None,         \* no assignment, no call
  MaxIds,       \* no call is begun that needs a row id beyond this one
  MaxFaults     \* how often a record or an embedding fails, or a process dies

Scopes == {"read", "write", "schema"}

\* A call names its operation and table; an append stores the text `set', an
\* update sets it in the rows whose text is in `where', a delete removes those.
AllCalls ==
  [op : {"create", "drop"}, table : Tables, where : {{}}, set : {None}]
    \cup [op : {"append"}, table : Tables, where : {{}}, set : Texts]
    \cup [op : {"update"}, table : Tables, where : SUBSET Texts, set : Texts \cup {None}]
    \cup [op : {"delete"}, table : Tables, where : SUBSET Texts, set : {None}]

ASSUME HandlesAssumption ==
  /\ HandleOf \in [Tasks -> Handles]
  /\ Grants \in [Handles -> SUBSET (Tables \X Scopes)]
  /\ Nobody \notin Handles
ASSUME TablesAssumption ==
  /\ AutoTables \subseteq Tables
  /\ None \notin Texts /\ Calls \subseteq AllCalls
ASSUME BoundsAssumption ==
  MaxIds \in Nat /\ MaxFaults \in Nat /\ Encrypted \in BOOLEAN

VARIABLES
  lock,       \* the handle that holds the advisory lock on the lock file
  role,       \* how each handle was opened
  tables,     \* the dataset under each name
  companion,  \* the dataset under each `table.column.vectors'
  logged,     \* the number of rows each table has by the audit log's records
  pc,         \* where each task is in its call
  call,       \* the call it makes
  count,      \* rows it announced (before a delete) or changed (after a commit)
  gathered,   \* the vectors it has read or is about to write
  outcome,    \* what its last call returned
  committed,  \* history: whether its call has changed the table
  gap,        \* history: tables with a change the log has no record of
  unsettled,  \* history: tables whose last change did not end with Ok
  faults      \* faults so far

vars == <<lock, role, tables, companion, logged, pc, call, count, gathered,
          outcome, committed, gap, unsettled, faults>>
handles == <<lock, role>>
data == <<tables, companion>>
work == <<count, gathered>>

-----------------------------------------------------------------------------
(* Datasets. *)

NoRows == [i \in {} |-> None]

\* The name holds no dataset.
NoTable == [there |-> FALSE, rows |-> NoRows, next |-> 0]

Fresh == [there |-> TRUE, rows |-> NoRows, next |-> 0]

\* The companion dataset that holds these vectors.
Holding(vectors) == [there |-> TRUE, rows |-> vectors]

Exists(tb) == tables[tb].there

Live(tb) == tables[tb].rows

Vectors(tb) == companion[tb].rows

Matching(d, where) == {i \in DOMAIN d.rows : d.rows[i] \in where}

Spared(d, where) == DOMAIN d.rows \ Matching(d, where)

Restricted(f, ids) == [i \in ids |-> f[i]]

\* Mutant: the id counter stays where it was.
AppendedSameId(d, text) ==
  [there |-> TRUE,
   rows |-> [i \in DOMAIN d.rows \cup {d.next} |->
               IF i = d.next THEN text ELSE d.rows[i]],
   next |-> d.next]

Appended(d, text) ==
  [there |-> TRUE,
   rows |-> [i \in DOMAIN d.rows \cup {d.next} |->
               IF i = d.next THEN text ELSE d.rows[i]],
   next |-> d.next + 1]

\* Mutant: a rewritten row keeps its id.
UpdatedInPlace(d, where, text) ==
  [d EXCEPT !.rows = [i \in DOMAIN d.rows |->
                        IF d.rows[i] \in where THEN text ELSE d.rows[i]]]

\* An update rewrites the matching rows under new ids.
Updated(d, where, text) ==
  LET next == d.next + Cardinality(Matching(d, where))
  IN [there |-> TRUE,
      rows |-> [i \in Spared(d, where) \cup d.next..next-1 |->
                  IF i \in Spared(d, where) THEN d.rows[i] ELSE text],
      next |-> next]

Deleted(d, where) ==
  [d EXCEPT !.rows = Restricted(d.rows, Spared(d, where))]

-----------------------------------------------------------------------------
(* Opening and closing. *)

Init ==
  /\ lock = Nobody
  /\ role = [h \in Handles |-> "closed"]
  /\ tables = [tb \in Tables |-> NoTable]
  /\ companion = [tb \in Tables |-> [there |-> FALSE, rows |-> NoRows]]
  /\ logged = [tb \in Tables |-> 0]
  /\ pc = [t \in Tasks |-> "idle"]
  /\ call = [t \in Tasks |-> None]
  /\ count = [t \in Tasks |-> 0]
  /\ gathered = [t \in Tasks |-> NoRows]
  /\ outcome = [t \in Tasks |-> "none"]
  /\ committed = [t \in Tasks |-> FALSE]
  /\ gap = {}
  /\ unsettled = {}
  /\ faults = 0

TasksOf(h) == {t \in Tasks : HandleOf[t] = h}

\* Mutant: a lock that is held elsewhere does not stop the opening.
AcquireAnyway(h) ==
  /\ lock' = h
  /\ role' = [role EXCEPT ![h] = "writer"]

\* try_lock takes the free lock or reports that it is held, at once.
Acquire(h) ==
  \/ /\ lock = Nobody
     /\ lock' = h
     /\ role' = [role EXCEPT ![h] = "writer"]
  \/ /\ lock # Nobody
     /\ role' = [role EXCEPT ![h] = "refused"]
     /\ UNCHANGED lock

OpenForWriting(h) ==
  /\ role[h] \in {"closed", "refused"}
  /\ Acquire(h)
  /\ UNCHANGED <<data, logged, pc, call, work, outcome, committed,
                 gap, unsettled, faults>>

OpenForReading(h) ==
  /\ role[h] \in {"closed", "refused"}
  /\ role' = [role EXCEPT ![h] = "reader"]
  /\ UNCHANGED <<lock, data, logged, pc, call, work, outcome, committed,
                 gap, unsettled, faults>>

Release(h) == lock' = IF lock = h THEN Nobody ELSE lock

\* The last clone of the handle is dropped; no call borrows it any more.
Close(h) ==
  /\ role[h] \in {"reader", "writer"}
  /\ \A t \in TasksOf(h) : pc[t] = "idle"
  /\ role' = [role EXCEPT ![h] = "closed"]
  /\ Release(h)
  /\ UNCHANGED <<data, logged, pc, call, work, outcome, committed,
                 gap, unsettled, faults>>

-----------------------------------------------------------------------------
(* Calls. *)

Return(t, o) ==
  /\ pc' = [pc EXCEPT ![t] = "idle"]
  /\ call' = [call EXCEPT ![t] = None]
  /\ count' = [count EXCEPT ![t] = 0]
  /\ gathered' = [gathered EXCEPT ![t] = NoRows]
  /\ outcome' = [outcome EXCEPT ![t] = o]

\* The call ends well: what earlier calls left undone is done as well.
Succeed(t) ==
  /\ Return(t, "ok")
  /\ unsettled' = IF call[t].op = "create" THEN unsettled
                  ELSE unsettled \ {call[t].table}

\* The call ends with an error.
Fail(t, o) ==
  /\ Return(t, o)
  /\ unsettled' = IF committed[t] THEN unsettled \cup {call[t].table} ELSE unsettled

Goto(t, where) == pc' = [pc EXCEPT ![t] = where]

ScopeOf(op) == IF op \in {"create", "drop"} THEN "schema" ELSE "write"

\* require_scope
Permits(h, tb, scope) == <<tb, scope>> \in Grants[h]

\* Mutant: the scope is checked, the write role is not.
RefusalOfToken(h, c) ==
  CASE ~Permits(h, c.table, ScopeOf(c.op)) -> "notpermitted"
    [] c.op = "update" /\ c.set = None -> "nothingtoset"
    [] OTHER -> "none"

\* Mutant: any token for the table will do.
RefusalOfAnyToken(h, c) ==
  CASE ~\E scope \in Scopes : Permits(h, c.table, scope) -> "notpermitted"
    [] role[h] # "writer" -> "readonly"
    [] c.op = "update" /\ c.set = None -> "nothingtoset"
    [] OTHER -> "none"

\* The checks before the table is touched, in their order: the token, the
\* write role, and an update that sets nothing.
Refusal(h, c) ==
  CASE ~Permits(h, c.table, ScopeOf(c.op)) -> "notpermitted"
    [] role[h] # "writer" -> "readonly"
    [] c.op = "update" /\ c.set = None -> "nothingtoset"
    [] OTHER -> "none"

\* The first step after the checks.
FirstStep(op) ==
  CASE op = "drop" -> "record"
    [] op = "delete" -> "count"
    [] OTHER -> "commit"

NeedsIds(c) ==
  CASE c.op = "append" -> 1
    [] c.op = "update" ->
         Cardinality(Matching(tables[c.table], c.where))
    [] OTHER -> 0

Begin(t, c) ==
  /\ pc[t] = "idle"
  /\ role[HandleOf[t]] \in {"reader", "writer"}
  /\ tables[c.table].next + NeedsIds(c) <= MaxIds
  /\ committed' = [committed EXCEPT ![t] = FALSE]
  /\ LET r == Refusal(HandleOf[t], c) IN
       \/ /\ r # "none"
          /\ outcome' = [outcome EXCEPT ![t] = r]
          /\ UNCHANGED <<pc, call>>
       \/ /\ r = "none"
          /\ call' = [call EXCEPT ![t] = c]
          /\ outcome' = [outcome EXCEPT ![t] = "none"]
          /\ Goto(t, FirstStep(c.op))
  /\ UNCHANGED <<handles, data, logged, work, gap, unsettled, faults>>

\* delete opens the table, counts the rows it is going to remove and logs the
\* number as a warning.
Announce(t) ==
  /\ pc[t] = "count"
  /\ LET c == call[t] IN
       \/ ~Exists(c.table) /\ Fail(t, "failed")
       \/ /\ Exists(c.table)
          /\ count' = [count EXCEPT ![t] =
                         Cardinality(Matching(tables[c.table], c.where))]
          /\ Goto(t, "commit")
          /\ UNCHANGED <<call, gathered, outcome, unsettled>>
  /\ UNCHANGED <<handles, data, logged, committed, gap, faults>>

\* The dataset commits version d of the table, having changed n rows.
Commit(t, d, n) ==
  /\ tables' = [tables EXCEPT ![call[t].table] = d]
  /\ count' = [count EXCEPT ![t] = n]
  /\ committed' = [committed EXCEPT ![t] = TRUE]
  /\ gap' = IF HandleOf[t] \in Audited THEN gap ELSE gap \cup {call[t].table}
  /\ Goto(t, "record")
  /\ UNCHANGED <<call, gathered, outcome, unsettled>>

\* Nothing is committed: the table is missing, or already there.
Aborted(t) == Fail(t, "failed") /\ UNCHANGED <<tables, committed, gap>>

\* Mutant: a table of that name is overwritten.
CreateOverwrites(t) == Commit(t, Fresh, 0)

Create(t) ==
  \/ Exists(call[t].table) /\ Aborted(t)
  \/ ~Exists(call[t].table) /\ Commit(t, Fresh, 0)

\* Appending under a name that holds no dataset fails or declares the table
\* from the batch: the format decides (external).
AppendRows(t) ==
  LET c == call[t] IN
  \/ Commit(t, Appended(tables[c.table], c.set), 1)
  \/ ~Exists(c.table) /\ Aborted(t)

UpdateRows(t) ==
  LET c == call[t] IN
  \/ ~Exists(c.table) /\ Aborted(t)
  \/ /\ Exists(c.table)
     /\ Commit(t, Updated(tables[c.table], c.where, c.set),
               Cardinality(Matching(tables[c.table], c.where)))

DeleteRows(t) ==
  LET c == call[t] IN
  \/ ~Exists(c.table) /\ Aborted(t)
  \/ /\ Exists(c.table)
     /\ Commit(t, Deleted(tables[c.table], c.where),
               Cardinality(Matching(tables[c.table], c.where)))

Change(t) ==
  /\ pc[t] = "commit"
  /\ \/ call[t].op = "create" /\ Create(t)
     \/ call[t].op = "append" /\ AppendRows(t)
     \/ call[t].op = "update" /\ UpdateRows(t)
     \/ call[t].op = "delete" /\ DeleteRows(t)
  /\ UNCHANGED <<handles, companion, logged, faults>>

\* What the record of a call says of the number of rows.
RowsAfter(t, n) ==
  CASE call[t].op = "append" -> n + count[t]
    [] call[t].op = "delete" -> n - count[t]
    [] call[t].op = "drop" -> 0
    [] OTHER -> n

AfterRecord(t) ==
  \/ /\ call[t].op = "create"
     /\ Succeed(t)
  \/ /\ call[t].op # "create"
     /\ Goto(t, IF call[t].op = "drop" THEN "remove" ELSE "columns")
     /\ UNCHANGED <<call, work, outcome, unsettled>>

\* The audit log takes the record, if this handle keeps one.
Record(t) ==
  /\ pc[t] = "record"
  /\ logged' = IF HandleOf[t] \in Audited
               THEN [logged EXCEPT ![call[t].table] = RowsAfter(t, @)]
               ELSE logged
  /\ AfterRecord(t)
  /\ UNCHANGED <<handles, data, committed, gap, faults>>

\* The log refuses or cannot be written, and the call fails with it.
RecordFails(t) ==
  /\ pc[t] = "record"
  /\ HandleOf[t] \in Audited
  /\ faults < MaxFaults
  /\ faults' = faults + 1
  /\ gap' = IF committed[t] THEN gap \cup {call[t].table} ELSE gap
  /\ Fail(t, "auditfailed")
  /\ UNCHANGED <<handles, data, logged, committed>>

\* drop_table removes the directory of the table; its companion stays.
Remove(t) ==
  /\ pc[t] = "remove"
  /\ LET tb == call[t].table IN
       \/ /\ ~Exists(tb)
          /\ Fail(t, "failed")
          /\ UNCHANGED <<tables, committed, gap>>
       \/ /\ Exists(tb)
          /\ tables' = [tables EXCEPT ![tb] = NoTable]
          /\ committed' = [committed EXCEPT ![t] = TRUE]
          /\ gap' = IF HandleOf[t] \in Audited THEN gap ELSE gap \cup {tb}
          /\ Succeed(t)
  /\ UNCHANGED <<handles, companion, logged, faults>>

-----------------------------------------------------------------------------
(* Reconciling the vectors with the text. *)

\* reconcile_all: the columns are read from the schema; a table without an
\* embedding column is done.  reconcile then needs an embedder, and reads the
\* vectors there are, which takes a token to read.
ReadVectors(t) ==
  /\ pc[t] = "columns"
  /\ LET tb == call[t].table
         h == HandleOf[t] IN
       \/ ~Exists(tb) /\ Fail(t, "failed")
       \/ Exists(tb) /\ tb \notin AutoTables /\ Succeed(t)
       \/ Exists(tb) /\ tb \in AutoTables /\ h \notin Embeds /\ Fail(t, "noembedder")
       \/ /\ Exists(tb) /\ tb \in AutoTables /\ h \in Embeds
          /\ companion[tb].there /\ ~Permits(h, tb, "read")
          /\ Fail(t, "notpermitted")
       \/ /\ Exists(tb) /\ tb \in AutoTables /\ h \in Embeds
          /\ companion[tb].there => Permits(h, tb, "read")
          /\ gathered' = [gathered EXCEPT ![t] = Vectors(tb)]
          /\ Goto(t, "gather")
          /\ UNCHANGED <<call, count, outcome, unsettled>>
  /\ UNCHANGED <<handles, data, logged, committed, gap, faults>>

\* Mutant: as many vectors as rows is taken for agreement.
InStepByCount(vectors, rows) == Cardinality(DOMAIN vectors) = Cardinality(DOMAIN rows)

\* The rows that have vectors are the live rows: nothing is left to do.
InStep(vectors, rows) == DOMAIN vectors = DOMAIN rows

\* Mutant: the companion is patched, vectors of rows that are gone stay.
ReconciledPatched(vectors, rows) ==
  [i \in DOMAIN rows \cup DOMAIN vectors |->
     IF i \in DOMAIN vectors THEN vectors[i] ELSE rows[i]]

\* A row that has vectors keeps them, the others are embedded, and vectors
\* whose row is gone are left out.
Reconciled(vectors, rows) ==
  [i \in DOMAIN rows |-> IF i \in DOMAIN vectors THEN vectors[i] ELSE rows[i]]

\* One scan of the table.
Gather(t) ==
  /\ pc[t] = "gather"
  /\ LET tb == call[t].table IN
       \/ ~Exists(tb) /\ Fail(t, "failed")
       \/ Exists(tb) /\ InStep(gathered[t], Live(tb)) /\ Succeed(t)
       \/ /\ Exists(tb) /\ ~InStep(gathered[t], Live(tb))
          /\ gathered' = [gathered EXCEPT ![t] = Reconciled(@, Live(tb))]
          /\ Goto(t, "overwrite")
          /\ UNCHANGED <<call, count, outcome, unsettled>>
  /\ UNCHANGED <<handles, data, logged, committed, gap, faults>>

\* The embedder fails on a text or returns vectors of another width.
EmbedFails(t) ==
  /\ pc[t] = "overwrite"
  /\ faults < MaxFaults
  /\ faults' = faults + 1
  /\ Fail(t, "notembedded")
  /\ UNCHANGED <<handles, data, logged, committed, gap>>

\* The companion is rewritten as a whole.  The write is given no session, so
\* the encrypted scheme of an encrypted store is unknown to it.
Overwrite(t) ==
  /\ pc[t] = "overwrite"
  /\ \/ Encrypted /\ Fail(t, "failed") /\ UNCHANGED companion
     \/ /\ ~Encrypted
        /\ companion' = [companion EXCEPT ![call[t].table] = Holding(gathered[t])]
        /\ Succeed(t)
  /\ UNCHANGED <<handles, tables, logged, committed, gap, faults>>

-----------------------------------------------------------------------------
(* The process of a handle dies: the operating system frees its lock, its  *)
(* calls stop between two steps.                                           *)

\* A call cut short here leaves a change without a record, or the record of a
\* drop that did not happen.
Unrecorded(t) ==
  /\ HandleOf[t] \in Audited
  /\ (pc[t] = "record" /\ committed[t]) \/ pc[t] = "remove"

Crash(h) ==
  /\ role[h] \in {"reader", "writer"}
  /\ faults < MaxFaults
  /\ faults' = faults + 1
  /\ role' = [role EXCEPT ![h] = "closed"]
  /\ Release(h)
  /\ LET busy == {t \in TasksOf(h) : pc[t] # "idle"} IN
       /\ pc' = [t \in Tasks |-> IF t \in busy THEN "idle" ELSE pc[t]]
       /\ call' = [t \in Tasks |-> IF t \in busy THEN None ELSE call[t]]
       /\ count' = [t \in Tasks |-> IF t \in busy THEN 0 ELSE count[t]]
       /\ gathered' = [t \in Tasks |-> IF t \in busy THEN NoRows ELSE gathered[t]]
       /\ outcome' = [t \in Tasks |-> IF t \in busy THEN "crashed" ELSE outcome[t]]
       /\ gap' = gap \cup {call[t].table : t \in {u \in busy : Unrecorded(u)}}
       /\ unsettled' = unsettled \cup {call[t].table : t \in {u \in busy : committed[u]}}
  /\ UNCHANGED <<data, logged, committed>>

Step(t) ==
  \/ Announce(t) \/ Change(t) \/ Record(t) \/ Remove(t)
  \/ ReadVectors(t) \/ Gather(t) \/ Overwrite(t)

Next ==
  \/ \E h \in Handles :
        OpenForWriting(h) \/ OpenForReading(h) \/ Close(h) \/ Crash(h)
  \/ \E t \in Tasks :
        \/ \E c \in Calls : Begin(t, c)
        \/ Step(t) \/ RecordFails(t) \/ EmbedFails(t)

Spec == Init /\ [][Next]_vars
\* A call that has been made runs on until it returns; nothing is assumed of
\* the application, which need not call anything.
FairSpec == Spec /\ \A t \in Tasks : WF_vars(Step(t))

-----------------------------------------------------------------------------
(* Properties. *)

IsVectors(v) ==
  /\ v = Restricted(v, DOMAIN v)
  /\ DOMAIN v \subseteq Nat /\ IsFiniteSet(DOMAIN v)
  /\ \A i \in DOMAIN v : v[i] \in Texts

IsDataset(d) ==
  /\ d = [there |-> d.there, rows |-> d.rows, next |-> d.next]
  /\ d.there \in BOOLEAN
  /\ d.next \in Nat
  /\ IsVectors(d.rows)
  /\ DOMAIN d.rows \subseteq 0..d.next-1
  /\ d.there \/ d.next = 0

Outcomes ==
  {"none", "ok", "notpermitted", "readonly", "nothingtoset", "failed",
   "auditfailed", "noembedder", "notembedded", "crashed"}

\* Every variable holds a value of its kind; in particular the live rows of a
\* table have ids below its next one, so that no id is given out twice.
TypeOK ==
  /\ lock \in Handles \cup {Nobody}
  /\ role \in [Handles -> {"closed", "refused", "reader", "writer"}]
  /\ DOMAIN tables = Tables /\ \A tb \in Tables : IsDataset(tables[tb])
  /\ DOMAIN companion = Tables
  /\ \A tb \in Tables :
       /\ companion[tb] = [there |-> companion[tb].there, rows |-> Vectors(tb)]
       /\ companion[tb].there \in BOOLEAN
       /\ IsVectors(Vectors(tb))
  /\ logged \in [Tables -> Int]
  /\ pc \in [Tasks -> {"idle", "count", "commit", "record", "remove",
                       "columns", "gather", "overwrite"}]
  /\ DOMAIN call = Tasks
  /\ \A t \in Tasks : call[t] \in (IF pc[t] = "idle" THEN {None} ELSE Calls)
  /\ count \in [Tasks -> Nat]
  /\ DOMAIN gathered = Tasks /\ \A t \in Tasks : IsVectors(gathered[t])
  /\ outcome \in [Tasks -> Outcomes]
  /\ committed \in [Tasks -> BOOLEAN]
  /\ gap \subseteq Tables /\ unsettled \subseteq Tables
  /\ faults \in 0..MaxFaults

\* A vector filed under the id of a live row embeds the text that row holds,
\* at every moment, whatever was interrupted: reconcile compares ids only and
\* keeps such a vector without looking at the text.
VectorsAreTrue ==
  \A tb \in AutoTables : \A i \in DOMAIN Live(tb) \cap DOMAIN Vectors(tb) :
    Vectors(tb)[i] = Live(tb)[i]

Quiet == \A t \in Tasks : pc[t] = "idle"

\* When the last change of a table ended with Ok, every live row has its
\* vector and no vector is left of a row that is gone, also where an earlier
\* write was interrupted half way ("it is self-healing").
SettledAgree ==
  Quiet => \A tb \in AutoTables :
             Exists(tb) /\ tb \notin unsettled => Vectors(tb) = Live(tb)

\* The records of the audit log account for the rows of every table, unless a
\* change went unrecorded because the log failed or its process died.
LogAccountsForRows ==
  Quiet => \A tb \in Tables \ gap : logged[tb] = Cardinality(DOMAIN Live(tb))

\* The number of rows a delete announces is the number it removes
\* (mutation.rs: "the two can never differ").
AnnouncedIsDeleted ==
  [][\A t \in Tasks :
       pc[t] = "commit" /\ pc'[t] = "record" /\ call[t].op = "delete"
         => count'[t] = count[t]]_vars

\* A table and its vectors only ever change in a call of the handle that holds
\* the writer lock at that moment.
OnlyTheWriterChanges ==
  [][\A tb \in Tables :
       tables'[tb] # tables[tb] \/ companion'[tb] # companion[tb]
         => \E t \in Tasks :
              pc[t] # "idle" /\ call[t].table = tb /\ lock = HandleOf[t]]_vars

\* A table only ever changes in a call whose handle holds a token that names
\* the table and the scope of that operation.
TokenCoversChange ==
  [][\A tb \in Tables :
       tables'[tb] # tables[tb] \/ companion'[tb] # companion[tb]
         => \E t \in Tasks :
              /\ pc[t] # "idle" /\ call[t].table = tb
              /\ Permits(HandleOf[t], tb, ScopeOf(call[t].op))]_vars

\* If the application keeps writing to a table through handles that can embed,
\* its vectors come back into agreement with its text after every disturbance,
\* also after what a handle without an embedder has left behind.
Heals ==
  \A tb \in AutoTables :
    []<>(\E t \in Tasks : /\ pc[t] = "columns" /\ call[t].table = tb
                         /\ HandleOf[t] \in Embeds)
      => (Live(tb) # Vectors(tb) ~> Live(tb) = Vectors(tb))

-----------------------------------------------------------------------------
(* The inductive invariants behind the safety properties. *)

\* Holding the lock is the write role, and only a writer is inside a call.
WriterInv ==
  /\ \A h \in Handles : role[h] = "writer" <=> lock = h
  /\ \A t \in Tasks : pc[t] # "idle" => role[HandleOf[t]] = "writer"

\* What the later steps of a call know of its operation and table.
CallInv ==
  \A t \in Tasks :
    /\ pc[t] = "remove" => call[t].op = "drop"
    /\ pc[t] = "count" => call[t].op = "delete"
    /\ pc[t] = "commit" => call[t].op # "drop"
    /\ pc[t] = "commit" /\ call[t].op = "update" => call[t].set \in Texts
    /\ pc[t] \in {"columns", "gather", "overwrite"} => call[t].op \notin {"create", "drop"}
    /\ pc[t] \in {"gather", "overwrite"} => call[t].table \in AutoTables

\* Every id among these vectors has been given out, and no live row with that
\* id holds another text.
TrueOf(tb, v) ==
  \A i \in DOMAIN v :
    i < tables[tb].next /\ (i \in DOMAIN Live(tb) => v[i] = Live(tb)[i])

\* It holds of the vectors on disk and of those a call has in hand.
VectorInv ==
  /\ \A tb \in AutoTables : TrueOf(tb, Vectors(tb))
  /\ \A t \in Tasks :
       pc[t] \in {"gather", "overwrite"} => TrueOf(call[t].table, gathered[t])

\* What a call has read is still so when it uses it.
SnapshotInv ==
  \A t \in Tasks :
    /\ pc[t] = "commit" /\ call[t].op = "delete" =>
         count[t] = Cardinality(Matching(tables[call[t].table], call[t].where))
    /\ pc[t] = "gather" => gathered[t] = Vectors(call[t].table)
    /\ pc[t] = "overwrite" => gathered[t] = Live(call[t].table)

\* A call got past its checks with a token for its table and operation.
TokenInv ==
  \A t \in Tasks :
    pc[t] # "idle" => Permits(HandleOf[t], call[t].table, ScopeOf(call[t].op))

NumberOfRows(tb) == Cardinality(DOMAIN Live(tb))

\* A call whose change and record are not both made: the change of a drop
\* follows its record, every other change comes first.
Owing(t, tb) ==
  /\ pc[t] # "idle" /\ call[t].table = tb
  /\ \/ pc[t] = "record" /\ call[t].op # "drop"
     \/ pc[t] = "remove" /\ HandleOf[t] \in Audited

\* Where no change went unrecorded, the records account for the rows except
\* while such a call is in progress, and do so once it has made its record or
\* its change.
AccountInv ==
  /\ \A t \in Tasks : pc[t] = "record" /\ call[t].op # "drop" => committed[t]
  /\ \A tb \in Tables \ gap :
       /\ (\A t \in Tasks : ~Owing(t, tb)) => logged[tb] = NumberOfRows(tb)
       /\ \A t \in Tasks :
            Owing(t, tb) =>
              /\ HandleOf[t] \in Audited
              /\ pc[t] = "record" => RowsAfter(t, logged[tb]) = NumberOfRows(tb)
              /\ pc[t] = "remove" => logged[tb] = 0

\* A call that has changed the text of the table and not yet returned.
Changing(t, tb) ==
  pc[t] # "idle" /\ committed[t] /\ call[t].table = tb /\ call[t].op # "create"

\* Vectors and text differ only while such a call is in progress, or after one
\* that failed.
SettledInv ==
  \A tb \in AutoTables :
    tb \notin unsettled /\ (\A t \in Tasks : ~Changing(t, tb))
      => Vectors(tb) = Live(tb)
=============================================================================
