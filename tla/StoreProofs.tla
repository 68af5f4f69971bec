---------------------------- MODULE StoreProofs ----------------------------
(***************************************************************************)
(* Proofs about the table store, for any number of handles, tasks, tables  *)
(* and texts.                                                              *)
(***************************************************************************)
EXTENDS Store, FiniteSetTheorems, TLAPS

\* Version e of a table follows version d: ids are not given out twice, and a
\* row that keeps its id keeps its text.
Grows(d, e) ==
  /\ e.next >= d.next
  /\ \A i \in DOMAIN e.rows :
       i < d.next => i \in DOMAIN d.rows /\ e.rows[i] = d.rows[i]

-----------------------------------------------------------------------------
(* What the operations on datasets return. *)

\* The rows a predicate matches are finitely many.
LEMMA MatchingFinite ==
  ASSUME NEW d, IsDataset(d), NEW where
  PROVE  IsFiniteSet(Matching(d, where)) /\ Cardinality(Matching(d, where)) \in Nat
<1>1. d.next \in Nat /\ DOMAIN d.rows \subseteq 0..d.next-1
  BY DEF IsDataset
<1>2. IsFiniteSet(0..d.next-1)
  BY <1>1, FS_Interval
<1>3. Matching(d, where) \in SUBSET (0..d.next-1)
  BY <1>1 DEF Matching
<1>4. IsFiniteSet(Matching(d, where))
  BY <1>2, <1>3, FS_Subset
<1> QED
  BY <1>4, FS_CardinalityType

\* So are ids below a bound.
LEMMA IdsFinite ==
  ASSUME NEW n \in Nat, NEW ids, ids \subseteq 0..n-1
  PROVE  IsFiniteSet(ids)
<1>1. IsFiniteSet(0..n-1)
  BY FS_Interval
<1> QED
  BY <1>1, FS_Subset

\* No table and a fresh table are datasets without rows.
LEMMA FreshType ==
  /\ IsDataset(NoTable) /\ IsDataset(Fresh) /\ IsVectors(NoRows)
  /\ Grows(NoTable, Fresh)
<1>1. IsFiniteSet(DOMAIN NoRows)
  <2>1. DOMAIN NoRows = {}
    BY DEF NoRows
  <2> QED BY <2>1, FS_EmptySet
<1> QED
  BY <1>1 DEF IsDataset, IsVectors, Restricted, NoTable, Fresh, NoRows, Grows

\* An append gives the new row the next id and leaves the others alone.
LEMMA AppendedGrows ==
  ASSUME NEW d, IsDataset(d), NEW text \in Texts
  PROVE  /\ IsDataset(Appended(d, text)) /\ Grows(d, Appended(d, text))
         /\ Appended(d, text).there
<1> DEFINE e == Appended(d, text)
<1>1. d.next \in Nat /\ DOMAIN d.rows \subseteq 0..d.next-1
      /\ \A i \in DOMAIN d.rows : d.rows[i] \in Texts
  BY DEF IsDataset, IsVectors
<1>2. e.next = d.next + 1 /\ e.there \in BOOLEAN /\ e.there
      /\ e.rows = [i \in DOMAIN d.rows \cup {d.next} |->
                     IF i = d.next THEN text ELSE d.rows[i]]
      /\ e = [there |-> e.there, rows |-> e.rows, next |-> e.next]
  BY DEF Appended
<1>3. DOMAIN e.rows = DOMAIN d.rows \cup {d.next}
  BY <1>2
<1>4. \A i \in DOMAIN e.rows :
        /\ e.rows[i] \in Texts
        /\ i < d.next => i \in DOMAIN d.rows /\ e.rows[i] = d.rows[i]
  BY <1>1, <1>2, <1>3
<1>5. DOMAIN e.rows \subseteq 0..e.next-1 /\ DOMAIN e.rows \subseteq Nat
  BY <1>1, <1>2, <1>3
<1>6. e.rows = Restricted(e.rows, DOMAIN e.rows)
  BY <1>2 DEF Restricted
<1> HIDE DEF e
<1>7. IsVectors(e.rows)
  <2>1. IsFiniteSet(DOMAIN e.rows)
    BY <1>1, <1>2, <1>5, IdsFinite
  <2> QED BY <1>4, <1>5, <1>6, <2>1 DEF IsVectors
<1>8. IsDataset(e)
  BY <1>1, <1>2, <1>5, <1>7 DEF IsDataset
<1>9. Grows(d, e)
  BY <1>1, <1>2, <1>4 DEF Grows
<1> QED
  BY <1>2, <1>8, <1>9 DEF e

\* An update moves the matching rows to new ids and leaves the others alone.
LEMMA UpdatedGrows ==
  ASSUME NEW d, IsDataset(d), NEW where, NEW text \in Texts
  PROVE  /\ IsDataset(Updated(d, where, text)) /\ Grows(d, Updated(d, where, text))
         /\ Updated(d, where, text).there
<1> DEFINE e == Updated(d, where, text)
           kept == Spared(d, where)
           n == Cardinality(Matching(d, where))
<1>1. d.next \in Nat /\ DOMAIN d.rows \subseteq 0..d.next-1
      /\ \A i \in DOMAIN d.rows : d.rows[i] \in Texts
  BY DEF IsDataset, IsVectors
<1>2. n \in Nat
  BY MatchingFinite
<1>a. e = [there |-> TRUE,
           rows |-> [i \in kept \cup d.next..(d.next+n)-1 |->
                       IF i \in kept THEN d.rows[i] ELSE text],
           next |-> d.next + n]
  BY DEF Updated
<1>4. kept \subseteq DOMAIN d.rows
  BY DEF Spared
<1> HIDE DEF e, kept, n
<1>3. e.next = d.next + n /\ e.there \in BOOLEAN /\ e.there
      /\ e.rows = [i \in kept \cup d.next..(d.next+n)-1 |->
                     IF i \in kept THEN d.rows[i] ELSE text]
      /\ e = [there |-> e.there, rows |-> e.rows, next |-> e.next]
  BY <1>a
<1>5. DOMAIN e.rows = kept \cup d.next..(d.next+n)-1
  BY <1>3
<1>6. \A i \in DOMAIN e.rows :
        /\ e.rows[i] \in Texts
        /\ i < d.next => i \in DOMAIN d.rows /\ e.rows[i] = d.rows[i]
  BY <1>1, <1>2, <1>3, <1>4, <1>5
<1>7. DOMAIN e.rows \subseteq 0..e.next-1 /\ DOMAIN e.rows \subseteq Nat
  BY <1>1, <1>2, <1>3, <1>4, <1>5
<1>8. e.rows = Restricted(e.rows, DOMAIN e.rows)
  BY <1>3 DEF Restricted
<1>b. e.next \in Nat /\ e.next >= d.next
  BY <1>1, <1>2, <1>3
<1>9. IsDataset(e)
  <2>1. IsFiniteSet(DOMAIN e.rows)
    BY <1>b, <1>7, IdsFinite
  <2> QED BY <1>b, <1>3, <1>6, <1>7, <1>8, <2>1 DEF IsDataset, IsVectors
<1>10. Grows(d, e)
  BY <1>b, <1>6 DEF Grows
<1> QED
  BY <1>3, <1>9, <1>10 DEF e

\* A delete leaves the rows it does not remove alone.
LEMMA DeletedGrows ==
  ASSUME NEW d, IsDataset(d), NEW where
  PROVE  /\ IsDataset(Deleted(d, where)) /\ Grows(d, Deleted(d, where))
         /\ Deleted(d, where).there = d.there
<1> DEFINE e == Deleted(d, where)
           kept == Spared(d, where)
<1>1. d.next \in Nat /\ DOMAIN d.rows \subseteq 0..d.next-1 /\ d.there \in BOOLEAN
      /\ (d.there \/ d.next = 0)
      /\ \A i \in DOMAIN d.rows : d.rows[i] \in Texts
  BY DEF IsDataset, IsVectors
<1>2. d = [there |-> d.there, rows |-> d.rows, next |-> d.next]
  BY DEF IsDataset
<1>3. e.next = d.next /\ e.there = d.there
      /\ e.rows = [i \in kept |-> d.rows[i]]
      /\ e = [there |-> e.there, rows |-> e.rows, next |-> e.next]
  BY <1>2 DEF Deleted, Restricted
<1>4. kept \subseteq DOMAIN d.rows
  BY DEF Spared
<1> HIDE DEF e, kept
<1>5. DOMAIN e.rows = kept
  BY <1>3
<1>6. \A i \in DOMAIN e.rows :
        e.rows[i] \in Texts /\ i \in DOMAIN d.rows /\ e.rows[i] = d.rows[i]
  BY <1>1, <1>3, <1>4, <1>5
<1>7. DOMAIN e.rows \subseteq 0..e.next-1 /\ DOMAIN e.rows \subseteq Nat
  BY <1>1, <1>3, <1>4, <1>5
<1>8. e.rows = Restricted(e.rows, DOMAIN e.rows)
  BY <1>3 DEF Restricted
<1>9. IsDataset(e)
  <2>1. IsFiniteSet(DOMAIN e.rows)
    BY <1>1, <1>3, <1>7, IdsFinite
  <2> QED BY <1>1, <1>3, <1>6, <1>7, <1>8, <2>1 DEF IsDataset, IsVectors
<1>10. Grows(d, e)
  BY <1>1, <1>3, <1>6 DEF Grows
<1> QED
  BY <1>3, <1>9, <1>10 DEF e

Size(d) == Cardinality(DOMAIN d.rows)

\* A table has finitely many rows, and none where there is no dataset.
LEMMA SizeType ==
  ASSUME NEW d, IsDataset(d)
  PROVE  IsFiniteSet(DOMAIN d.rows) /\ Size(d) \in Nat /\ (~d.there => Size(d) = 0)
<1>1. d.next \in Nat /\ DOMAIN d.rows \in SUBSET (0..d.next-1) /\ (d.there \/ d.next = 0)
  BY DEF IsDataset
<1>2. IsFiniteSet(0..d.next-1)
  BY <1>1, FS_Interval
<1>3. IsFiniteSet(DOMAIN d.rows)
  BY <1>1, <1>2, FS_Subset
<1>4. d.next = 0 => DOMAIN d.rows = {}
  BY <1>1
<1> QED
  BY <1>1, <1>3, <1>4, FS_CardinalityType, FS_EmptySet DEF Size

\* An append adds one row.
LEMMA AppendedSize ==
  ASSUME NEW d, IsDataset(d), NEW text
  PROVE  Size(Appended(d, text)) = Size(d) + 1
<1>1. d.next \in Nat /\ DOMAIN d.rows \subseteq 0..d.next-1
  BY DEF IsDataset
<1>2. d.next \notin DOMAIN d.rows
  BY <1>1
<1>3. DOMAIN Appended(d, text).rows = DOMAIN d.rows \cup {d.next}
  BY DEF Appended
<1>4. IsFiniteSet(DOMAIN d.rows)
  BY SizeType
<1> QED
  BY <1>2, <1>3, <1>4, FS_AddElement DEF Size

\* The rows a predicate spares and those it matches are all the rows.
LEMMA SparedSize ==
  ASSUME NEW d, IsDataset(d), NEW where
  PROVE  /\ IsFiniteSet(Spared(d, where))
         /\ Cardinality(Spared(d, where)) = Size(d) - Cardinality(Matching(d, where))
<1>1. DOMAIN d.rows \cap Matching(d, where) = Matching(d, where)
  BY DEF Matching
<1>2. IsFiniteSet(DOMAIN d.rows)
  BY SizeType
<1> QED
  BY <1>1, <1>2, FS_Difference DEF Spared, Size

\* A delete removes the rows it matches.
LEMMA DeletedSize ==
  ASSUME NEW d, IsDataset(d), NEW where
  PROVE  Size(Deleted(d, where)) = Size(d) - Cardinality(Matching(d, where))
<1>1. d = [there |-> d.there, rows |-> d.rows, next |-> d.next]
  BY DEF IsDataset
<1>2. DOMAIN Deleted(d, where).rows = Spared(d, where)
  BY <1>1 DEF Deleted, Restricted
<1> QED
  BY <1>2, SparedSize DEF Size

\* An update gives as many rows as it matches new ids.
LEMMA UpdatedSize ==
  ASSUME NEW d, IsDataset(d), NEW where, NEW text
  PROVE  Size(Updated(d, where, text)) = Size(d)
<1> DEFINE kept == Spared(d, where)
           n == Cardinality(Matching(d, where))
           new == d.next..(d.next+n)-1
<1>1. d.next \in Nat /\ DOMAIN d.rows \subseteq 0..d.next-1 /\ n \in Nat /\ Size(d) \in Nat
  BY MatchingFinite, SizeType DEF IsDataset
<1>2. DOMAIN Updated(d, where, text).rows = kept \cup new
  BY DEF Updated
<1>3. kept \subseteq DOMAIN d.rows
  BY DEF Spared
<1>4. IsFiniteSet(kept) /\ Cardinality(kept) = Size(d) - n
  BY SparedSize
<1> HIDE DEF kept, n
<1>5. kept \cap new = {}
  BY <1>1, <1>3
<1>6. IsFiniteSet(new) /\ Cardinality(new) = n
  <2>1. d.next \in Int /\ (d.next+n)-1 \in Int
    BY <1>1
  <2>2. IsFiniteSet(new) /\ Cardinality(new) = IF d.next > (d.next+n)-1 THEN 0 ELSE ((d.next+n)-1)-d.next+1
    BY <2>1, FS_Interval
  <2> QED
    BY <1>1, <2>2
<1> HIDE DEF new
<1>7. Cardinality(kept \cup new) = Cardinality(kept) + Cardinality(new) - 0
  BY <1>4, <1>5, <1>6, FS_Union, FS_EmptySet
<1> QED
  BY <1>1, <1>2, <1>4, <1>6, <1>7 DEF Size

\* What reconcile writes are vectors, for exactly the live rows.
LEMMA ReconciledType ==
  ASSUME NEW v, IsVectors(v), NEW rows, IsVectors(rows)
  PROVE  IsVectors(Reconciled(v, rows)) /\ DOMAIN Reconciled(v, rows) = DOMAIN rows
BY DEF IsVectors, Reconciled, Restricted

-----------------------------------------------------------------------------
(* Type correctness and the shape of a call. *)

\* Every call names a table, a predicate over texts and, where its operation
\* stores one, a text.
LEMMA CallFacts ==
  ASSUME NEW c \in Calls
  PROVE  /\ c.op \in {"create", "drop", "append", "update", "delete"}
         /\ c.table \in Tables
         /\ c.op = "append" => c.set \in Texts
         /\ c.op = "update" /\ c.set # None => c.set \in Texts
BY TablesAssumption DEF AllCalls

\* How many of m rows there are after operation op changed n of them.
Counted(op, m, n) ==
  IF op = "append" THEN m + n ELSE IF op = "delete" THEN m - n ELSE m

\* Version d, having changed n rows, is one the table may move to in t's call.
Successor(t, d, n) ==
  LET c == call[t] IN
  /\ IsDataset(d) /\ d.there /\ n \in Nat
  /\ Grows(tables[c.table], d)
  /\ c.op = "create" => ~Exists(c.table) /\ d = Fresh
  /\ c.op = "delete" => n = Cardinality(Matching(tables[c.table], c.where))
  /\ Size(d) = Counted(c.op, Size(tables[c.table]), n)

\* The commit step of a call either commits such a version or nothing.
LEMMA ChangeShape ==
  ASSUME TypeOK, CallInv, NEW t \in Tasks, Change(t)
  PROVE  Aborted(t) \/ \E d, n : Successor(t, d, n) /\ Commit(t, d, n)
<1> DEFINE c == call[t]
<1>1. c \in Calls /\ pc[t] = "commit"
  BY DEF TypeOK, Change
<1>2. c.table \in Tables /\ IsDataset(tables[c.table])
  BY <1>1, CallFacts DEF TypeOK
<1>3. CASE c.op = "create" /\ Create(t)
  <2>1. CASE Aborted(t)
    BY <2>1
  <2>2. CASE ~Exists(c.table) /\ Commit(t, Fresh, 0)
    <3>1. Grows(tables[c.table], Fresh)
      BY <2>2, <1>2 DEF Grows, Fresh, NoRows, IsDataset, Exists
    <3>2. Size(tables[c.table]) = 0 /\ Size(Fresh) = 0
      BY <2>2, <1>2, SizeType, FreshType, FS_EmptySet DEF Exists, Size, Fresh, NoRows
    <3> QED
      BY <2>2, <1>3, <3>1, <3>2, FreshType DEF Successor, Counted, Fresh
  <2> QED
    BY <2>1, <2>2, <1>3 DEF Create
<1>4. CASE c.op = "append" /\ AppendRows(t)
  <2>1. c.set \in Texts
    BY <1>1, <1>4, CallFacts
  <2>2. Successor(t, Appended(tables[c.table], c.set), 1)
    BY <1>2, <1>4, <2>1, AppendedGrows, AppendedSize DEF Successor, Counted
  <2> QED
    BY <1>4, <2>2 DEF AppendRows
<1>5. CASE c.op = "update" /\ UpdateRows(t)
  <2>1. c.set \in Texts
    BY <1>1, <1>5 DEF CallInv
  <2> DEFINE d == Updated(tables[c.table], c.where, c.set)
             n == Cardinality(Matching(tables[c.table], c.where))
  <2>2. Successor(t, d, n)
    BY <1>2, <1>5, <2>1, UpdatedGrows, UpdatedSize, MatchingFinite DEF Successor, Counted
  <2> QED
    BY <1>5, <2>2 DEF UpdateRows
<1>6. CASE c.op = "delete" /\ DeleteRows(t)
  <2> DEFINE d == Deleted(tables[c.table], c.where)
             n == Cardinality(Matching(tables[c.table], c.where))
  <2>1. ASSUME Exists(c.table) PROVE Successor(t, d, n)
    BY <1>2, <1>6, <2>1, DeletedGrows, DeletedSize, MatchingFinite
       DEF Successor, Counted, Exists
  <2> QED
    BY <1>6, <2>1 DEF DeleteRows
<1> QED
  BY <1>3, <1>4, <1>5, <1>6 DEF Change

\* The parts of TypeOK that a call's bookkeeping touches.
CallType ==
  /\ pc \in [Tasks -> {"idle", "count", "commit", "record", "remove",
                       "columns", "gather", "overwrite"}]
  /\ DOMAIN call = Tasks
  /\ \A t \in Tasks : call[t] \in (IF pc[t] = "idle" THEN {None} ELSE Calls)
  /\ count \in [Tasks -> Nat]
  /\ DOMAIN gathered = Tasks /\ \A t \in Tasks : IsVectors(gathered[t])
  /\ outcome \in [Tasks -> Outcomes]

\* Returning keeps them.
LEMMA ReturnType ==
  ASSUME CallType, NEW t \in Tasks, NEW o \in Outcomes, Return(t, o)
  PROVE  CallType'
BY FreshType DEF CallType, Return

\* So does going on to the next step with nothing else changed.
LEMMA GotoType ==
  ASSUME CallType, NEW t \in Tasks, pc[t] # "idle",
         NEW where \in {"commit", "record", "remove", "columns", "gather", "overwrite"},
         Goto(t, where), UNCHANGED <<call, work, outcome>>
  PROVE  CallType'
BY DEF CallType, Goto, work

\* The specification's initial states are well typed.
LEMMA TypeInit == Init => TypeOK /\ CallInv
<1> SUFFICES ASSUME Init PROVE TypeOK /\ CallInv
  OBVIOUS
<1>1. \A tb \in Tables : IsDataset(tables[tb])
  BY FreshType DEF Init
<1>2. \A tb \in Tables : IsVectors(Vectors(tb))
  BY FreshType DEF Init, Vectors
<1>3. \A tb \in Tables : companion[tb] = [there |-> FALSE, rows |-> NoRows]
  BY DEF Init
<1>4. \A tb \in Tables :
       /\ companion[tb] = [there |-> companion[tb].there, rows |-> Vectors(tb)]
       /\ companion[tb].there \in BOOLEAN
  <2> SUFFICES ASSUME NEW tb \in Tables
               PROVE  /\ companion[tb] = [there |-> companion[tb].there, rows |-> Vectors(tb)]
                      /\ companion[tb].there \in BOOLEAN
    OBVIOUS
  <2>1. companion[tb] = [there |-> FALSE, rows |-> NoRows]
    BY <1>3
  <2> QED
    BY <2>1 DEF Vectors
<1>5. CallType /\ CallInv
  BY FreshType DEF Init, CallType, CallInv, Outcomes
<1>6. /\ lock \in Handles \cup {Nobody}
      /\ role \in [Handles -> {"closed", "refused", "reader", "writer"}]
      /\ DOMAIN tables = Tables /\ DOMAIN companion = Tables
      /\ logged \in [Tables -> Int]
      /\ gap \subseteq Tables /\ unsettled \subseteq Tables
      /\ faults \in 0..MaxFaults
  BY BoundsAssumption DEF Init
<1>7. committed \in [Tasks -> BOOLEAN]
  BY DEF Init
<1> QED
  BY <1>1, <1>2, <1>4, <1>5, <1>6, <1>7 DEF TypeOK, CallType

\* Every step keeps the types, and what the steps of a call know of it.
LEMMA TypeStep == TypeOK /\ CallInv /\ [Next]_vars => TypeOK' /\ CallInv'
<1> SUFFICES ASSUME TypeOK, CallInv, [Next]_vars PROVE TypeOK' /\ CallInv'
  OBVIOUS
<1> USE DEF Outcomes
<1>0. CallType
  BY DEF TypeOK, CallType
<1>1. ASSUME NEW h \in Handles, OpenForWriting(h) \/ OpenForReading(h) \/ Close(h)
      PROVE  TypeOK' /\ CallInv'
  BY <1>1 DEF TypeOK, CallInv, OpenForWriting, OpenForReading, Close, Acquire, Release,
              data, work, Vectors
<1>2. ASSUME NEW t \in Tasks, NEW c \in Calls, Begin(t, c)
      PROVE  TypeOK' /\ CallInv'
  <2>1. CASE Refusal(HandleOf[t], c) # "none"
    BY <1>2, <2>1 DEF TypeOK, CallInv, Begin, Refusal, handles, data, work, Vectors
  <2>2. CASE Refusal(HandleOf[t], c) = "none"
    <3>1. c.op = "update" => c.set \in Texts
      BY <2>2, CallFacts DEF Refusal
    <3>2. TypeOK'
      BY <1>2, <2>2 DEF TypeOK, Begin, Goto, FirstStep, handles, data, work, Vectors
    <3>3. /\ pc' = [pc EXCEPT ![t] = FirstStep(c.op)] /\ call' = [call EXCEPT ![t] = c]
          /\ DOMAIN pc = Tasks /\ DOMAIN call = Tasks
      BY <1>2, <2>2 DEF Begin, Goto, TypeOK
    <3>4. CallInv'
      BY <3>1, <3>3 DEF CallInv, FirstStep
    <3> QED
      BY <3>2, <3>4
  <2> QED
    BY <2>1, <2>2
<1> DEFINE Kept == /\ lock \in Handles \cup {Nobody}
                   /\ role \in [Handles -> {"closed", "refused", "reader", "writer"}]
                   /\ logged \in [Tables -> Int]
                   /\ gap \subseteq Tables /\ unsettled \subseteq Tables
                   /\ faults \in 0..MaxFaults
           KeptBools == committed \in [Tasks -> BOOLEAN]
           TablesType == DOMAIN tables = Tables /\ \A tb \in Tables : IsDataset(tables[tb])
           CompanionType ==
             /\ DOMAIN companion = Tables
             /\ \A tb \in Tables :
                  /\ companion[tb] = [there |-> companion[tb].there, rows |-> Vectors(tb)]
                  /\ companion[tb].there \in BOOLEAN
                  /\ IsVectors(Vectors(tb))
<1>a. Kept /\ KeptBools /\ TablesType /\ CompanionType
  BY DEF TypeOK
<1>b. ASSUME CallType', Kept', KeptBools', TablesType', CompanionType' PROVE TypeOK'
  BY <1>b DEF CallType, TypeOK
<1>c. ASSUME UNCHANGED tables PROVE TablesType'
  BY <1>a, <1>c
<1>d. ASSUME UNCHANGED companion PROVE CompanionType'
  BY <1>a, <1>d DEF Vectors
<1>e. ASSUME NEW t \in Tasks, NEW o \in Outcomes, pc[t] # "idle", Fail(t, o)
      PROVE  CallType' /\ unsettled' \subseteq Tables /\ CallInv'
  <2>1. call[t].table \in Tables
    BY <1>0, <1>e, CallFacts DEF CallType
  <2>2. CallType'
    BY <1>0, <1>e, ReturnType DEF Fail
  <2>3. unsettled' \subseteq Tables
    BY <1>a, <2>1, <1>e DEF Fail
  <2>4. CallInv'
    BY <1>0, <1>e DEF Fail, Return, CallInv, CallType
  <2> QED
    BY <2>2, <2>3, <2>4
<1>f. ASSUME NEW t \in Tasks, pc[t] # "idle", Succeed(t)
      PROVE  CallType' /\ unsettled' \subseteq Tables /\ CallInv'
  <2>1. CallType'
    BY <1>0, <1>f, ReturnType DEF Succeed
  <2>2. unsettled' \subseteq Tables
    BY <1>a, <1>f DEF Succeed
  <2>3. CallInv'
    BY <1>0, <1>f DEF Succeed, Return, CallInv, CallType
  <2> QED
    BY <2>1, <2>2, <2>3
<1> HIDE DEF Kept, KeptBools, TablesType, CompanionType
<1>3. ASSUME NEW t \in Tasks, Announce(t)
      PROVE  TypeOK' /\ CallInv'
  <2>1. pc[t] # "idle" /\ call[t] \in Calls /\ call[t].table \in Tables
    BY <1>0, <1>3, CallFacts DEF Announce, CallType
  <2>2. TablesType' /\ CompanionType' /\ KeptBools'
    BY <1>3, <1>a, <1>c, <1>d DEF Announce, data, KeptBools
  <2>3. CASE Fail(t, "failed")
    BY <1>3, <2>1, <2>2, <2>3, <1>a, <1>b, <1>e DEF Announce, handles, Kept
  <2>4. CASE /\ count' = [count EXCEPT ![t] =
                            Cardinality(Matching(tables[call[t].table], call[t].where))]
             /\ Goto(t, "commit")
             /\ UNCHANGED <<call, gathered, outcome, unsettled>>
    <3>1. Cardinality(Matching(tables[call[t].table], call[t].where)) \in Nat
      BY <2>1, <1>a, MatchingFinite DEF TablesType
    <3>2. CallType'
      BY <1>0, <2>1, <2>4, <3>1 DEF CallType, Goto
    <3>3. Kept'
      BY <1>3, <2>4, <1>a DEF Announce, handles, Kept
    <3>4. CallInv'
      BY <1>0, <1>3, <2>4 DEF Announce, Goto, CallInv, CallType
    <3> QED
      BY <1>b, <2>2, <3>2, <3>3, <3>4
  <2> QED
    BY <1>3, <2>3, <2>4 DEF Announce
<1>4. ASSUME NEW t \in Tasks, Change(t)
      PROVE  TypeOK' /\ CallInv'
  <2>1. pc[t] # "idle" /\ call[t] \in Calls /\ call[t].table \in Tables
    BY <1>0, <1>4, CallFacts DEF Change, CallType
  <2>2. UNCHANGED <<handles, companion, logged, faults>>
    BY <1>4 DEF Change
  <2>3. CASE Aborted(t)
    <3>1. TablesType' /\ CompanionType' /\ KeptBools'
      BY <2>2, <2>3, <1>a, <1>c, <1>d DEF Aborted, KeptBools
    <3>2. CallType' /\ CallInv' /\ Kept'
      BY <2>1, <2>2, <2>3, <1>a, <1>e DEF Aborted, handles, Kept
    <3> QED
      BY <1>b, <3>1, <3>2
  <2>4. ASSUME NEW d, NEW n, Successor(t, d, n), Commit(t, d, n)
        PROVE  TypeOK' /\ CallInv'
    <3>1. IsDataset(d) /\ n \in Nat
      BY <2>4 DEF Successor
    <3>2. TablesType'
      BY <2>1, <2>4, <3>1, <1>a DEF Commit, TablesType
    <3>3. CompanionType' /\ KeptBools'
      BY <2>2, <2>4, <1>a, <1>d DEF Commit, KeptBools
    <3>4. CallType'
      BY <1>0, <2>1, <2>4, <3>1 DEF Commit, Goto, CallType
    <3>5. Kept'
      BY <2>1, <2>2, <2>4, <1>a DEF Commit, handles, Kept
    <3>6. CallInv'
      BY <1>0, <2>4 DEF Commit, Goto, CallInv, CallType
    <3> QED
      BY <1>b, <3>2, <3>3, <3>4, <3>5, <3>6
  <2> QED
    BY <1>4, <2>3, <2>4, ChangeShape
<1>5. ASSUME NEW t \in Tasks, Record(t)
      PROVE  TypeOK' /\ CallInv'
  <2>1. pc[t] # "idle" /\ call[t] \in Calls /\ call[t].table \in Tables
    BY <1>0, <1>5, CallFacts DEF Record, CallType
  <2>2. TablesType' /\ CompanionType' /\ KeptBools'
    BY <1>5, <1>a, <1>c, <1>d DEF Record, data, KeptBools
  <2>3. CallType' /\ CallInv' /\ unsettled' \subseteq Tables
    <3>1. CASE call[t].op = "create"
      BY <1>5, <3>1, <2>1, <1>f DEF Record, AfterRecord
    <3>2. CASE call[t].op # "create"
      <4>1. /\ Goto(t, IF call[t].op = "drop" THEN "remove" ELSE "columns")
            /\ UNCHANGED <<call, work, outcome, unsettled>>
        BY <1>5, <3>2 DEF Record, AfterRecord
      <4>2. CallType'
        BY <1>0, <2>1, <4>1, GotoType
      <4>3. CallInv'
        BY <1>0, <3>2, <4>1 DEF Goto, CallInv, CallType, work
      <4> QED
        BY <4>1, <4>2, <4>3, <1>a DEF Kept
    <3> QED
      BY <3>1, <3>2
  <2>4. logged' \in [Tables -> Int]
    BY <1>0, <1>5, <1>a, <2>1 DEF Record, Kept, RowsAfter, CallType
  <2>5. Kept'
    BY <1>5, <2>3, <2>4, <1>a DEF Record, handles, Kept
  <2> QED
    BY <1>b, <2>2, <2>3, <2>5
<1>6. ASSUME NEW t \in Tasks, RecordFails(t)
      PROVE  TypeOK' /\ CallInv'
  <2>1. pc[t] # "idle" /\ call[t] \in Calls /\ call[t].table \in Tables
    BY <1>0, <1>6, CallFacts DEF RecordFails, CallType
  <2>2. TablesType' /\ CompanionType' /\ KeptBools'
    BY <1>6, <1>a, <1>c, <1>d DEF RecordFails, data, KeptBools
  <2>3. CallType' /\ CallInv' /\ unsettled' \subseteq Tables
    BY <1>6, <2>1, <1>e DEF RecordFails
  <2>4. Kept'
    BY <1>6, <2>1, <2>3, <1>a, BoundsAssumption DEF RecordFails, handles, Kept
  <2> QED
    BY <1>b, <2>2, <2>3, <2>4
<1>7. ASSUME NEW t \in Tasks, Remove(t)
      PROVE  TypeOK' /\ CallInv'
  <2>1. pc[t] # "idle" /\ call[t] \in Calls /\ call[t].table \in Tables
    BY <1>0, <1>7, CallFacts DEF Remove, CallType
  <2>2. CompanionType'
    BY <1>7, <1>d DEF Remove
  <2>3. TablesType'
    BY <1>7, <2>1, <1>a, <1>c, FreshType DEF Remove, TablesType
  <2>4. KeptBools'
    BY <1>7, <1>a DEF Remove, KeptBools
  <2>5. CallType' /\ CallInv' /\ unsettled' \subseteq Tables
    BY <1>7, <2>1, <1>e, <1>f DEF Remove
  <2>6. Kept'
    BY <1>7, <2>1, <2>5, <1>a DEF Remove, handles, Kept
  <2> QED
    BY <1>b, <2>2, <2>3, <2>4, <2>5, <2>6
<1>8. ASSUME NEW t \in Tasks, ReadVectors(t)
      PROVE  TypeOK' /\ CallInv'
  <2>1. pc[t] # "idle" /\ call[t] \in Calls /\ call[t].table \in Tables
    BY <1>0, <1>8, CallFacts DEF ReadVectors, CallType
  <2>2. TablesType' /\ CompanionType' /\ KeptBools'
    BY <1>8, <1>a, <1>c, <1>d DEF ReadVectors, data, KeptBools
  <2>3. CallType' /\ CallInv' /\ unsettled' \subseteq Tables
    <3>1. CASE \/ Fail(t, "failed") \/ Succeed(t)
               \/ Fail(t, "noembedder") \/ Fail(t, "notpermitted")
      BY <3>1, <2>1, <1>e, <1>f
    <3>2. CASE /\ call[t].table \in AutoTables
               /\ gathered' = [gathered EXCEPT ![t] = Vectors(call[t].table)]
               /\ Goto(t, "gather")
               /\ UNCHANGED <<call, count, outcome, unsettled>>
      <4>1. IsVectors(Vectors(call[t].table))
        BY <2>1, <1>a DEF CompanionType
      <4>2. CallType'
        BY <1>0, <2>1, <3>2, <4>1 DEF Goto, CallType
      <4>3. CallInv'
        BY <1>0, <1>8, <3>2 DEF ReadVectors, Goto, CallInv, CallType
      <4> QED
        BY <3>2, <4>2, <4>3, <1>a DEF Kept
    <3> QED
      BY <1>8, <3>1, <3>2 DEF ReadVectors
  <2>4. Kept'
    BY <1>8, <2>3, <1>a DEF ReadVectors, handles, Kept
  <2> QED
    BY <1>b, <2>2, <2>3, <2>4
<1>9. ASSUME NEW t \in Tasks, Gather(t)
      PROVE  TypeOK' /\ CallInv'
  <2>1. pc[t] # "idle" /\ call[t] \in Calls /\ call[t].table \in Tables
    BY <1>0, <1>9, CallFacts DEF Gather, CallType
  <2>2. TablesType' /\ CompanionType' /\ KeptBools'
    BY <1>9, <1>a, <1>c, <1>d DEF Gather, data, KeptBools
  <2>3. CallType' /\ CallInv' /\ unsettled' \subseteq Tables
    <3>1. CASE Fail(t, "failed") \/ Succeed(t)
      BY <3>1, <2>1, <1>e, <1>f
    <3>2. CASE /\ gathered' = [gathered EXCEPT ![t] = Reconciled(@, Live(call[t].table))]
               /\ Goto(t, "overwrite")
               /\ UNCHANGED <<call, count, outcome, unsettled>>
      <4>1. IsVectors(Live(call[t].table)) /\ IsVectors(gathered[t])
        BY <1>0, <2>1, <1>a DEF TablesType, IsDataset, Live, CallType
      <4>2. IsVectors(Reconciled(gathered[t], Live(call[t].table)))
        BY <4>1, ReconciledType
      <4>3. CallType'
        BY <1>0, <2>1, <3>2, <4>2 DEF Goto, CallType
      <4>4. CallInv'
        BY <1>0, <1>9, <3>2 DEF Gather, Goto, CallInv, CallType
      <4> QED
        BY <3>2, <4>3, <4>4, <1>a DEF Kept
    <3> QED
      BY <1>9, <3>1, <3>2 DEF Gather
  <2>4. Kept'
    BY <1>9, <2>3, <1>a DEF Gather, handles, Kept
  <2> QED
    BY <1>b, <2>2, <2>3, <2>4
<1>10. ASSUME NEW t \in Tasks, EmbedFails(t)
       PROVE  TypeOK' /\ CallInv'
  <2>1. pc[t] # "idle"
    BY <1>10 DEF EmbedFails
  <2>2. TablesType' /\ CompanionType' /\ KeptBools'
    BY <1>10, <1>a, <1>c, <1>d DEF EmbedFails, data, KeptBools
  <2>3. CallType' /\ CallInv' /\ unsettled' \subseteq Tables
    BY <1>10, <2>1, <1>e DEF EmbedFails
  <2>4. Kept'
    BY <1>10, <2>3, <1>a, BoundsAssumption DEF EmbedFails, handles, Kept
  <2> QED
    BY <1>b, <2>2, <2>3, <2>4
<1>11. ASSUME NEW t \in Tasks, Overwrite(t)
       PROVE  TypeOK' /\ CallInv'
  <2>1. pc[t] # "idle" /\ call[t] \in Calls /\ call[t].table \in Tables
    BY <1>0, <1>11, CallFacts DEF Overwrite, CallType
  <2>2. TablesType' /\ KeptBools'
    BY <1>11, <1>a, <1>c DEF Overwrite, KeptBools
  <2>3. CallType' /\ CallInv' /\ unsettled' \subseteq Tables
    BY <1>11, <2>1, <1>e, <1>f DEF Overwrite
  <2>4. Kept'
    BY <1>11, <2>3, <1>a DEF Overwrite, handles, Kept
  <2>5. CompanionType'
    <3>1. CASE UNCHANGED companion
      BY <3>1, <1>d
    <3>2. CASE companion' = [companion EXCEPT ![call[t].table] = Holding(gathered[t])]
      <4>1. IsVectors(gathered[t])
        BY <1>0 DEF CallType
      <4> DEFINE held == Holding(gathered[t])
      <4>2. held.rows = gathered[t] /\ held.there \in BOOLEAN
            /\ held = [there |-> held.there, rows |-> held.rows]
        BY DEF Holding
      <4> HIDE DEF held
      <4>3. \A tb \in Tables :
              companion'[tb] = IF tb = call[t].table THEN held ELSE companion[tb]
        BY <3>2, <1>a DEF CompanionType, held
      <4>4. DOMAIN companion' = Tables
        BY <3>2, <1>a DEF CompanionType
      <4> QED
        BY <1>a, <4>1, <4>2, <4>3, <4>4 DEF CompanionType, Vectors
    <3> QED
      BY <1>11, <3>1, <3>2 DEF Overwrite
  <2> QED
    BY <1>b, <2>2, <2>3, <2>4, <2>5
<1>12. ASSUME NEW h \in Handles, Crash(h)
       PROVE  TypeOK' /\ CallInv'
  <2>1. TablesType' /\ CompanionType' /\ KeptBools'
    BY <1>12, <1>a, <1>c, <1>d DEF Crash, data, KeptBools
  <2>2. CallType'
    BY <1>0, <1>12, FreshType DEF Crash, CallType
  <2>3. \A t \in Tasks : pc[t] # "idle" => call[t].table \in Tables
    BY <1>0, CallFacts DEF CallType
  <2>4. gap' \subseteq Tables /\ unsettled' \subseteq Tables
    BY <1>12, <1>a, <2>3 DEF Crash, Kept, TasksOf
  <2>5. Kept'
    BY <1>12, <1>a, <2>4, BoundsAssumption DEF Crash, Kept, Release
  <2>6. CallInv'
    BY <1>0, <1>12 DEF Crash, CallInv, CallType
  <2> QED
    BY <1>b, <2>1, <2>2, <2>5, <2>6
<1>13. CASE UNCHANGED vars
  BY <1>13 DEF vars, TypeOK, CallInv, Vectors
<1> QED
  BY <1>1, <1>2, <1>3, <1>4, <1>5, <1>6, <1>7, <1>8, <1>9, <1>10, <1>11, <1>12, <1>13
     DEF Next, Step

\* The store is well typed in every reachable state, for any handles, tasks,
\* tables and calls; in particular row ids are never given out twice.
THEOREM TypeCorrect == Spec => []TypeOK
<1> QED
  BY TypeInit, TypeStep, PTL DEF Spec

\* Types and calls together, for the theorems below.
LEMMA TypeCallAlways == Spec => [](TypeOK /\ CallInv)
<1> QED
  BY TypeInit, TypeStep, PTL DEF Spec

-----------------------------------------------------------------------------
(* One writer. *)

CallStep(t) == Step(t) \/ RecordFails(t) \/ EmbedFails(t)

\* A step of a call leaves the handles, the other calls and the other tables
\* alone.
LEMMA StepShape ==
  ASSUME TypeOK, CallInv, NEW t \in Tasks, CallStep(t)
  PROVE  /\ pc[t] # "idle" /\ UNCHANGED handles
         /\ call[t] \in Calls /\ call[t].table \in Tables
         /\ \A u \in Tasks \ {t} :
              /\ pc'[u] = pc[u] /\ call'[u] = call[u] /\ count'[u] = count[u]
              /\ gathered'[u] = gathered[u] /\ committed'[u] = committed[u]
         /\ pc'[t] # "idle" => call'[t] = call[t]
         /\ \A tb \in Tables \ {call[t].table} :
              tables'[tb] = tables[tb] /\ companion'[tb] = companion[tb]
<1> DEFINE Alone ==
      /\ \A u \in Tasks \ {t} :
           /\ pc'[u] = pc[u] /\ call'[u] = call[u] /\ count'[u] = count[u]
           /\ gathered'[u] = gathered[u]
      /\ pc'[t] # "idle" => call'[t] = call[t]
<1>1. pc[t] # "idle"
  BY DEF CallStep, Step, Announce, Change, Record, Remove, ReadVectors, Gather,
         Overwrite, RecordFails, EmbedFails
<1>2. call[t] \in Calls /\ call[t].table \in Tables
  BY <1>1, CallFacts DEF TypeOK
<1>3. ASSUME NEW o, Return(t, o) PROVE Alone
  BY <1>3 DEF Return, TypeOK
<1>4. ASSUME NEW where, Goto(t, where), UNCHANGED <<call, work>> PROVE Alone
  BY <1>4 DEF Goto, work, TypeOK
<1>5. ASSUME NEW o, Fail(t, o) PROVE Alone
  BY <1>3, <1>5 DEF Fail
<1>6. ASSUME Succeed(t) PROVE Alone
  BY <1>3, <1>6 DEF Succeed
<1>7. Alone
  <2> HIDE DEF Alone
  <2>1. CASE Announce(t)
    <3>1. CASE \E o : Fail(t, o)
      BY <3>1, <1>5
    <3>2. CASE ~\E o : Fail(t, o)
      <4>1. Goto(t, "commit") /\ UNCHANGED <<call, gathered>>
            /\ \E n : count' = [count EXCEPT ![t] = n]
        BY <2>1, <3>2 DEF Announce
      <4> QED
        BY <4>1 DEF Goto, Alone, TypeOK
    <3> QED
      BY <3>1, <3>2
  <2>2. CASE Change(t)
    <3>1. CASE Aborted(t)
      BY <3>1, <1>5 DEF Aborted
    <3>2. CASE \E d, n : Commit(t, d, n)
      BY <3>2 DEF Commit, Goto, Alone, TypeOK
    <3> QED
      BY <2>2, <3>1, <3>2, ChangeShape
  <2>3. CASE Record(t)
    BY <2>3, <1>4, <1>6 DEF Record, AfterRecord
  <2>4. CASE RecordFails(t) \/ EmbedFails(t)
    BY <2>4, <1>5 DEF RecordFails, EmbedFails
  <2>5. CASE Remove(t) \/ Overwrite(t)
    BY <2>5, <1>5, <1>6 DEF Remove, Overwrite
  <2>6. CASE ReadVectors(t)
    <3>1. CASE Succeed(t) \/ \E o : Fail(t, o)
      BY <3>1, <1>5, <1>6
    <3>2. CASE ~(Succeed(t) \/ \E o : Fail(t, o))
      <4>1. Goto(t, "gather") /\ UNCHANGED <<call, count>>
            /\ \E v : gathered' = [gathered EXCEPT ![t] = v]
        BY <2>6, <3>2 DEF ReadVectors
      <4> QED
        BY <4>1 DEF Goto, Alone, TypeOK
    <3> QED
      BY <3>1, <3>2
  <2>7. CASE Gather(t)
    <3>1. CASE Succeed(t) \/ \E o : Fail(t, o)
      BY <3>1, <1>5, <1>6
    <3>2. CASE ~(Succeed(t) \/ \E o : Fail(t, o))
      <4>1. Goto(t, "overwrite") /\ UNCHANGED <<call, count>>
            /\ \E v : gathered' = [gathered EXCEPT ![t] = v]
        BY <2>7, <3>2 DEF Gather
      <4> QED
        BY <4>1 DEF Goto, Alone, TypeOK
    <3> QED
      BY <3>1, <3>2
  <2> QED
    BY <2>1, <2>2, <2>3, <2>4, <2>5, <2>6, <2>7 DEF CallStep, Step
<1>8. /\ UNCHANGED handles
      /\ \A u \in Tasks \ {t} : committed'[u] = committed[u]
      /\ \A tb \in Tables \ {call[t].table} :
           tables'[tb] = tables[tb] /\ companion'[tb] = companion[tb]
  <2>1. CASE Change(t)
    <3>1. CASE Aborted(t)
      BY <2>1, <3>1 DEF Change, Aborted
    <3>2. CASE \E d, n : Commit(t, d, n)
      BY <2>1, <3>2 DEF Change, Commit, TypeOK
    <3> QED
      BY <2>1, <3>1, <3>2, ChangeShape
  <2>2. CASE Remove(t)
    BY <2>2 DEF Remove, TypeOK
  <2>3. CASE Overwrite(t)
    BY <2>3 DEF Overwrite, TypeOK
  <2>4. CASE Announce(t) \/ Record(t) \/ ReadVectors(t) \/ Gather(t)
             \/ RecordFails(t) \/ EmbedFails(t)
    BY <2>4 DEF Announce, Record, ReadVectors, Gather, RecordFails, EmbedFails, data
  <2> QED
    BY <2>1, <2>2, <2>3, <2>4 DEF CallStep, Step
<1> QED
  BY <1>1, <1>2, <1>7, <1>8

\* The step of Next that a handle or a task takes.
LEMMA NextCases ==
  ASSUME Next
  PROVE  \/ \E h \in Handles : OpenForWriting(h) \/ OpenForReading(h) \/ Close(h)
         \/ \E h \in Handles : Crash(h)
         \/ \E t \in Tasks, c \in Calls : Begin(t, c)
         \/ \E t \in Tasks : CallStep(t)
BY DEF Next, CallStep

\* Every step keeps the lock with the one writer, and calls with the writer.
LEMMA WriterStep ==
  TypeOK /\ CallInv /\ WriterInv /\ [Next]_vars => WriterInv'
<1> SUFFICES ASSUME TypeOK, CallInv, WriterInv, [Next]_vars PROVE WriterInv'
  OBVIOUS
<1> USE HandlesAssumption
<1>1. ASSUME NEW h \in Handles, OpenForWriting(h)
      PROVE  WriterInv'
  BY <1>1 DEF TypeOK, WriterInv, OpenForWriting, Acquire
<1>2. ASSUME NEW h \in Handles, OpenForReading(h)
      PROVE  WriterInv'
  BY <1>2 DEF TypeOK, WriterInv, OpenForReading
<1>3. ASSUME NEW h \in Handles, Close(h)
      PROVE  WriterInv'
  BY <1>3 DEF TypeOK, WriterInv, Close, Release, TasksOf
<1>4. ASSUME NEW h \in Handles, Crash(h)
      PROVE  WriterInv'
  <2>1. \A g \in Handles : role'[g] = IF g = h THEN "closed" ELSE role[g]
    BY <1>4 DEF Crash, TypeOK
  <2>2. lock' = IF lock = h THEN Nobody ELSE lock
    BY <1>4 DEF Crash, Release
  <2>3. \A t \in Tasks : pc'[t] # "idle" => pc[t] # "idle" /\ HandleOf[t] # h
    BY <1>4 DEF Crash, TasksOf, TypeOK
  <2> QED
    BY <2>1, <2>2, <2>3 DEF WriterInv
<1>5. ASSUME NEW t \in Tasks, NEW c \in Calls, Begin(t, c)
      PROVE  WriterInv'
  <2>1. UNCHANGED handles
    BY <1>5 DEF Begin
  <2>2. \A u \in Tasks : pc'[u] # pc[u] => role[HandleOf[u]] = "writer"
    BY <1>5 DEF Begin, Goto, Refusal, TypeOK
  <2> QED
    BY <2>1, <2>2 DEF WriterInv, handles
<1>6. ASSUME NEW t \in Tasks, CallStep(t)
      PROVE  WriterInv'
  <2>1. UNCHANGED handles /\ \A u \in Tasks : pc'[u] # "idle" => pc[u] # "idle"
    BY <1>6, StepShape
  <2> QED
    BY <2>1 DEF WriterInv, handles
<1>7. CASE UNCHANGED vars
  BY <1>7 DEF vars, WriterInv
<1> QED
  BY <1>1, <1>2, <1>3, <1>4, <1>5, <1>6, <1>7, NextCases

\* Initially there is no writer.
LEMMA WriterInit == Init => WriterInv
BY HandlesAssumption DEF Init, WriterInv

\* A step that changes a table is a step of a call of the writer on it.
LEMMA OnlyWriterStep ==
  ASSUME TypeOK, CallInv, WriterInv, [Next]_vars, NEW tb \in Tables,
         tables'[tb] # tables[tb] \/ companion'[tb] # companion[tb]
  PROVE  \E t \in Tasks : pc[t] # "idle" /\ call[t].table = tb /\ lock = HandleOf[t]
<1>1. ASSUME UNCHANGED data PROVE FALSE
  BY <1>1 DEF data
<1>2. ASSUME NEW t \in Tasks, CallStep(t)
      PROVE  pc[t] # "idle" /\ call[t].table = tb /\ lock = HandleOf[t]
  BY <1>2, StepShape, HandlesAssumption DEF WriterInv
<1>3. \A h \in Handles :
        OpenForWriting(h) \/ OpenForReading(h) \/ Close(h) \/ Crash(h) => UNCHANGED data
  BY DEF OpenForWriting, OpenForReading, Close, Crash
<1>4. \A t \in Tasks, c \in Calls : Begin(t, c) => UNCHANGED data
  BY DEF Begin
<1>5. UNCHANGED vars => UNCHANGED data
  BY DEF vars, data
<1> QED
  BY <1>1, <1>2, <1>3, <1>4, <1>5, NextCases

\* At most one handle writes at a time, and a table or its vectors change only
\* in a call of that handle, whatever processes open, close and die meanwhile.
THEOREM OneWriter == Spec => OnlyTheWriterChanges
<1>1. TypeOK /\ CallInv /\ WriterInv /\ [Next]_vars =>
        [\A tb \in Tables :
           tables'[tb] # tables[tb] \/ companion'[tb] # companion[tb]
             => \E t \in Tasks :
                  pc[t] # "idle" /\ call[t].table = tb /\ lock = HandleOf[t]]_vars
  BY OnlyWriterStep
<1> QED
  BY <1>1, TypeCallAlways, WriterInit, WriterStep, PTL DEF Spec, OnlyTheWriterChanges

-----------------------------------------------------------------------------
(* Nothing changes without a token. *)

\* A call gets past its checks only with a token, and keeps its operation and
\* table to its end.
LEMMA TokenStep ==
  TypeOK /\ CallInv /\ TokenInv /\ [Next]_vars => TokenInv'
<1> SUFFICES ASSUME TypeOK, CallInv, TokenInv, [Next]_vars,
                    NEW u \in Tasks, pc'[u] # "idle"
             PROVE  Permits(HandleOf[u], call'[u].table, ScopeOf(call'[u].op))
  BY DEF TokenInv, Permits, ScopeOf
<1>a. ASSUME pc[u] # "idle", call'[u] = call[u]
      PROVE  Permits(HandleOf[u], call'[u].table, ScopeOf(call'[u].op))
  BY <1>a DEF TokenInv
<1>1. CASE \E h \in Handles : OpenForWriting(h) \/ OpenForReading(h) \/ Close(h)
  BY <1>1, <1>a DEF OpenForWriting, OpenForReading, Close
<1>2. CASE \E h \in Handles : Crash(h)
  BY <1>2, <1>a DEF Crash
<1>3. ASSUME NEW t \in Tasks, NEW c \in Calls, Begin(t, c)
      PROVE  Permits(HandleOf[u], call'[u].table, ScopeOf(call'[u].op))
  <2>1. CASE Refusal(HandleOf[t], c) # "none" \/ u # t
    BY <1>3, <1>a, <2>1 DEF Begin, Goto, TypeOK
  <2>2. CASE Refusal(HandleOf[t], c) = "none" /\ u = t
    <3>1. call'[u] = c
      BY <1>3, <2>2 DEF Begin, TypeOK
    <3>2. Permits(HandleOf[t], c.table, ScopeOf(c.op))
      BY <2>2 DEF Refusal
    <3> QED
      BY <2>2, <3>1, <3>2
  <2> QED
    BY <2>1, <2>2
<1>4. ASSUME NEW t \in Tasks, CallStep(t)
      PROVE  Permits(HandleOf[u], call'[u].table, ScopeOf(call'[u].op))
  BY <1>4, <1>a, StepShape
<1>5. CASE UNCHANGED vars
  BY <1>5, <1>a DEF vars
<1> QED
  BY <1>1, <1>2, <1>3, <1>4, <1>5, NextCases

\* A table or its vectors change only in a call whose handle was granted a
\* token for that table and for the scope of the call's operation, for any
\* grants, handles and interleaving of calls.
THEOREM TokensGate == Spec => TokenCoversChange
<1>1. Init => TokenInv
  BY DEF Init, TokenInv
<1>2. ASSUME TypeOK, CallInv, WriterInv, TokenInv, [Next]_vars, NEW tb \in Tables,
             tables'[tb] # tables[tb] \/ companion'[tb] # companion[tb]
      PROVE  \E t \in Tasks : /\ pc[t] # "idle" /\ call[t].table = tb
                              /\ Permits(HandleOf[t], tb, ScopeOf(call[t].op))
  BY <1>2, OnlyWriterStep DEF TokenInv
<1>3. TypeOK /\ CallInv /\ WriterInv /\ TokenInv /\ [Next]_vars =>
        [\A tb \in Tables :
           tables'[tb] # tables[tb] \/ companion'[tb] # companion[tb]
             => \E t \in Tasks :
                  /\ pc[t] # "idle" /\ call[t].table = tb
                  /\ Permits(HandleOf[t], tb, ScopeOf(call[t].op))]_vars
  BY <1>2
<1> QED
  BY <1>1, <1>3, TypeCallAlways, WriterInit, WriterStep, TokenStep, PTL
     DEF Spec, TokenCoversChange

-----------------------------------------------------------------------------
(* The vectors filed under a live id embed that row's text. *)

\* Nobody drops a table with an embedding column.
NeverDropped == \A c \in Calls : c.op = "drop" => c.table \notin AutoTables

\* Vectors that are true of a table stay true when it moves on to a version
\* that grows from the one before.
LEMMA TrueOfGrows ==
  ASSUME NEW tb \in Tables, NEW v, DOMAIN v \subseteq Nat, TrueOf(tb, v),
         IsDataset(tables[tb]), IsDataset(tables'[tb]), Grows(tables[tb], tables'[tb])
  PROVE  \A i \in DOMAIN v :
           i < tables'[tb].next /\ (i \in DOMAIN tables'[tb].rows => v[i] = tables'[tb].rows[i])
BY DEF TrueOf, Grows, Live, IsDataset

\* What reconcile is about to write is true of the table.
LEMMA ReconciledTrue ==
  ASSUME NEW tb \in Tables, NEW v, IsDataset(tables[tb]), TrueOf(tb, v)
  PROVE  TrueOf(tb, Reconciled(v, Live(tb)))
<1>1. \A i \in DOMAIN Live(tb) : i < tables[tb].next
  BY DEF IsDataset, Live
<1> QED
  BY <1>1 DEF TrueOf, Reconciled

\* The invariant holds where no table has rows or vectors.
LEMMA VectorInit == Init => VectorInv
BY TablesAssumption DEF Init, VectorInv, TrueOf, Vectors, NoRows

\* A table moves from version to version, and only a drop ends that.
LEMMA TableStep ==
  ASSUME TypeOK, CallInv, [Next]_vars, NEW tb \in Tables
  PROVE  \/ Grows(tables[tb], tables'[tb]) /\ (Exists(tb) => tables'[tb].there)
         \/ /\ \E t \in Tasks : call[t] \in Calls /\ call[t].op = "drop" /\ call[t].table = tb
            /\ Exists(tb) /\ ~tables'[tb].there
<1> DEFINE Moves == Grows(tables[tb], tables'[tb]) /\ (Exists(tb) => tables'[tb].there)
<1>1. ASSUME tables'[tb] = tables[tb] PROVE Moves
  BY <1>1 DEF Grows, Exists, TypeOK, IsDataset
<1>2. ASSUME NEW t \in Tasks, Change(t) PROVE Moves
  <2>1. call[t].table \in Tables
    BY <1>2, StepShape DEF CallStep, Step
  <2>2. CASE Aborted(t)
    BY <1>1, <2>2 DEF Aborted
  <2>3. ASSUME NEW d, NEW n, Successor(t, d, n), Commit(t, d, n) PROVE Moves
    <3>1. tables'[tb] = IF tb = call[t].table THEN d ELSE tables[tb]
      BY <2>1, <2>3 DEF Commit, TypeOK
    <3> QED
      BY <1>1, <2>3, <3>1 DEF Successor
  <2> QED
    BY <1>2, <2>2, <2>3, ChangeShape
<1>3. ASSUME NEW t \in Tasks, Remove(t)
      PROVE  \/ tables'[tb] = tables[tb]
             \/ /\ call[t] \in Calls /\ call[t].op = "drop" /\ call[t].table = tb
                /\ Exists(tb) /\ ~tables'[tb].there
  <2>1. call[t] \in Calls /\ call[t].table \in Tables /\ call[t].op = "drop"
    BY <1>3, StepShape DEF CallStep, Step, Remove, CallInv
  <2>2. CASE UNCHANGED tables
    BY <2>2
  <2>3. CASE Exists(call[t].table) /\ tables' = [tables EXCEPT ![call[t].table] = NoTable]
    <3>1. tables'[tb] = IF tb = call[t].table THEN NoTable ELSE tables[tb]
      BY <2>1, <2>3 DEF TypeOK
    <3>2. ~NoTable.there
      BY DEF NoTable
    <3> QED
      BY <2>1, <2>3, <3>1, <3>2
  <2> QED
    BY <1>3, <2>2, <2>3 DEF Remove
<1>4. ASSUME NEW t \in Tasks, CallStep(t), ~Change(t), ~Remove(t) PROVE Moves
  <2>1. UNCHANGED tables
    BY <1>4 DEF CallStep, Step, Announce, Record, RecordFails, ReadVectors, Gather,
                Overwrite, EmbedFails, data
  <2> QED
    BY <1>1, <2>1
<1>5. ASSUME NEW h \in Handles, OpenForWriting(h) \/ OpenForReading(h) \/ Close(h) \/ Crash(h)
      PROVE  Moves
  BY <1>1, <1>5 DEF OpenForWriting, OpenForReading, Close, Crash, data
<1>6. ASSUME NEW t \in Tasks, NEW c \in Calls, Begin(t, c) PROVE Moves
  BY <1>1, <1>6 DEF Begin, data
<1>7. CASE UNCHANGED vars
  BY <1>1, <1>7 DEF vars
<1> QED
  BY <1>1, <1>2, <1>3, <1>4, <1>5, <1>6, <1>7, NextCases

\* The vectors of one table, on disk and in the hands of calls, are true of it.
TrueAt(tb) ==
  /\ TrueOf(tb, Vectors(tb))
  /\ \A t \in Tasks :
       pc[t] \in {"gather", "overwrite"} /\ call[t].table = tb => TrueOf(tb, gathered[t])

\* Every step keeps it so, unless it drops the table.
LEMMA TrueAtStep ==
  ASSUME TypeOK, TypeOK', CallInv, [Next]_vars, NEW tb \in Tables, TrueAt(tb),
         ~Exists(tb) \/ tables'[tb].there
  PROVE  TrueAt(tb)'
<1> DEFINE TrueThen(v) ==
      \A i \in DOMAIN v :
        i < tables'[tb].next /\ (i \in DOMAIN tables'[tb].rows => v[i] = tables'[tb].rows[i])
<1>0. /\ IsDataset(tables[tb]) /\ IsDataset(tables'[tb])
      /\ IsVectors(Vectors(tb)) /\ TrueOf(tb, Vectors(tb))
  BY DEF TypeOK, TrueAt
<1>1. Grows(tables[tb], tables'[tb])
  BY TableStep
<1>2. ASSUME NEW v, IsVectors(v), TrueOf(tb, v) PROVE TrueThen(v)
  <2>1. DOMAIN v \subseteq Nat
    BY <1>2 DEF IsVectors
  <2> QED
    BY <1>0, <1>1, <1>2, <2>1, TrueOfGrows
<1>3. ASSUME NEW v, NEW w, v = w, TrueThen(v) PROVE TrueThen(w)
  BY <1>3
<1>4. SUFFICES /\ TrueThen(companion'[tb].rows)
               /\ \A u \in Tasks :
                    pc'[u] \in {"gather", "overwrite"} /\ call'[u].table = tb
                      => TrueThen(gathered'[u])
  BY DEF TrueAt, TrueOf, Live, Vectors
<1> HIDE DEF TrueThen
\* What is read stays true, and so does what a call already holds.
<1>5. TrueThen(Vectors(tb))
  BY <1>0, <1>2
<1>6. ASSUME NEW u \in Tasks, pc[u] \in {"gather", "overwrite"}, call[u].table = tb
      PROVE  TrueThen(gathered[u]) /\ TrueOf(tb, gathered[u]) /\ IsVectors(gathered[u])
  <2>1. TrueOf(tb, gathered[u]) /\ IsVectors(gathered[u])
    BY <1>6 DEF TrueAt, TypeOK
  <2> QED
    BY <1>2, <2>1
<1>7. TrueThen(companion'[tb].rows)
  <2>1. CASE companion'[tb] = companion[tb]
    BY <1>5, <2>1 DEF Vectors
  <2>2. ASSUME NEW t \in Tasks, Overwrite(t), companion'[tb] # companion[tb]
        PROVE  TrueThen(companion'[tb].rows)
    <3>1. pc[t] = "overwrite" /\ call[t].table = tb /\ companion'[tb].rows = gathered[t]
      BY <2>2 DEF Overwrite, TypeOK, Holding
    <3> QED
      BY <1>6, <3>1
  <2>3. ASSUME NEW t \in Tasks, CallStep(t), ~Overwrite(t) PROVE UNCHANGED companion
    BY <2>3 DEF CallStep, Step, Announce, Change, Record, RecordFails, Remove, ReadVectors,
                Gather, EmbedFails, data
  <2>4. ASSUME NEW h \in Handles, OpenForWriting(h) \/ OpenForReading(h) \/ Close(h) \/ Crash(h)
        PROVE  UNCHANGED companion
    BY <2>4 DEF OpenForWriting, OpenForReading, Close, Crash, data
  <2>5. ASSUME NEW t \in Tasks, NEW c \in Calls, Begin(t, c) PROVE UNCHANGED companion
    BY <2>5 DEF Begin, data
  <2>6. UNCHANGED vars => UNCHANGED companion
    BY DEF vars
  <2> QED
    BY <2>1, <2>2, <2>3, <2>4, <2>5, <2>6, NextCases
<1>8. ASSUME NEW u \in Tasks, pc'[u] \in {"gather", "overwrite"}, call'[u].table = tb
      PROVE  TrueThen(gathered'[u])
  <2>1. CASE pc'[u] = pc[u] /\ call'[u] = call[u] /\ gathered'[u] = gathered[u]
    BY <1>6, <1>8, <2>1
  <2>2. ASSUME NEW t \in Tasks, CallStep(t) PROVE TrueThen(gathered'[u])
    <3>1. CASE u # t
      BY <2>1, <2>2, <3>1, StepShape
    <3>2. CASE u = t /\ ReadVectors(t)
      BY <1>5, <1>8, <2>2, <3>2, StepShape
         DEF ReadVectors, Fail, Succeed, Return, Goto, TypeOK
    <3>3. CASE u = t /\ Gather(t)
      <4>1. pc[t] = "gather" /\ call[t].table = tb
        BY <1>8, <2>2, <3>3, StepShape DEF Gather
      <4>2. gathered'[t] = Reconciled(gathered[t], Live(tb))
        BY <1>8, <3>3, <4>1 DEF Gather, Fail, Succeed, Return, Goto, TypeOK
      <4>3. TrueOf(tb, gathered[t]) /\ IsVectors(gathered[t])
        BY <1>6, <4>1
      <4>4. IsVectors(Live(tb))
        BY <1>0 DEF IsDataset, Live
      <4>5. TrueOf(tb, Reconciled(gathered[t], Live(tb)))
            /\ IsVectors(Reconciled(gathered[t], Live(tb)))
        BY <1>0, <4>3, <4>4, ReconciledTrue, ReconciledType
      <4> QED
        BY <1>2, <3>3, <4>2, <4>5
    <3>4. CASE u = t /\ Change(t)
      <4>1. CASE Aborted(t)
        BY <1>8, <3>4, <4>1 DEF Aborted, Fail, Return, TypeOK
      <4>2. CASE \E d, n : Commit(t, d, n)
        BY <1>8, <3>4, <4>2 DEF Commit, Goto, TypeOK
      <4> QED
        BY <3>4, <4>1, <4>2, ChangeShape
    <3>5. CASE u = t /\ ~ReadVectors(t) /\ ~Gather(t) /\ ~Change(t)
      BY <1>8, <2>2, <3>5 DEF CallStep, Step, Announce, Record, AfterRecord, RecordFails,
         Remove, Overwrite, EmbedFails, Fail, Succeed, Return, Goto, TypeOK
    <3> QED
      BY <3>1, <3>2, <3>3, <3>4, <3>5
  <2>3. ASSUME NEW h \in Handles, OpenForWriting(h) \/ OpenForReading(h) \/ Close(h)
        PROVE  TrueThen(gathered'[u])
    BY <2>1, <2>3 DEF OpenForWriting, OpenForReading, Close, work
  <2>4. ASSUME NEW h \in Handles, Crash(h) PROVE TrueThen(gathered'[u])
    BY <1>8, <2>1, <2>4 DEF Crash
  <2>5. ASSUME NEW t \in Tasks, NEW c \in Calls, Begin(t, c) PROVE TrueThen(gathered'[u])
    <3>1. pc'[t] \notin {"gather", "overwrite"}
      BY <2>5 DEF Begin, Goto, FirstStep, TypeOK
    <3> QED
      BY <1>8, <2>1, <2>5, <3>1 DEF Begin, Goto, work, TypeOK
  <2>6. CASE UNCHANGED vars
    BY <2>1, <2>6 DEF vars
  <2> QED
    BY <2>2, <2>3, <2>4, <2>5, <2>6, NextCases
<1> QED
  BY <1>7, <1>8

\* Every step keeps the invariant, as long as no such table is dropped.
LEMMA VectorStep ==
  ASSUME NeverDropped
  PROVE  TypeOK /\ TypeOK' /\ CallInv /\ CallInv' /\ VectorInv /\ [Next]_vars => VectorInv'
<1> SUFFICES ASSUME TypeOK, TypeOK', CallInv, CallInv', VectorInv, [Next]_vars
             PROVE  VectorInv'
  OBVIOUS
<1>1. ASSUME NEW tb \in AutoTables PROVE TrueAt(tb)'
  <2>1. tb \in Tables /\ TrueAt(tb)
    BY TablesAssumption DEF VectorInv, TrueAt
  <2>2. ~Exists(tb) \/ tables'[tb].there
    BY <2>1, TableStep DEF NeverDropped
  <2> QED
    BY <2>1, <2>2, TrueAtStep
<1> QED
  BY <1>1 DEF VectorInv, TrueAt, CallInv

\* However many tasks share a handle and wherever a call is cut short, a
\* vector filed under the id of a live row embeds the text that row holds: the
\* shortcut of reconcile, which compares ids only, is sound while no table
\* with an embedding column is dropped.
THEOREM VectorsTrue ==
  ASSUME NeverDropped
  PROVE  Spec => []VectorsAreTrue
<1>1. VectorInv => VectorsAreTrue
  BY DEF VectorInv, VectorsAreTrue, TrueOf
<1> QED
  BY <1>1, TypeCallAlways, VectorInit, VectorStep, PTL DEF Spec

-----------------------------------------------------------------------------
(* With one task per handle, the writer lock makes a call's snapshot last. *)

\* No handle serves two calls at once.
OneTaskEach == \A t, u \in Tasks : HandleOf[t] = HandleOf[u] => t = u

\* Then there is at most one call in progress.
LEMMA OneCall ==
  ASSUME OneTaskEach, WriterInv, NEW t \in Tasks, NEW u \in Tasks,
         pc[t] # "idle", pc[u] # "idle"
  PROVE  t = u
BY HandlesAssumption DEF OneTaskEach, WriterInv

\* Reconciling vectors that are true of a table gives its text.
LEMMA ReconciledIsLive ==
  ASSUME NEW tb \in Tables, NEW v, IsDataset(tables[tb]), TrueOf(tb, v)
  PROVE  Reconciled(v, Live(tb)) = Live(tb)
<1>1. Live(tb) = [i \in DOMAIN Live(tb) |-> Live(tb)[i]]
  BY DEF IsDataset, IsVectors, Restricted, Live
<1>2. \A i \in DOMAIN Live(tb) :
        (IF i \in DOMAIN v THEN v[i] ELSE Live(tb)[i]) = Live(tb)[i]
  BY DEF TrueOf
<1> QED
  BY <1>1, <1>2 DEF Reconciled

\* True vectors with the ids of the live rows are the text.
LEMMA InStepIsLive ==
  ASSUME NEW tb \in Tables, NEW v, IsVectors(v), IsDataset(tables[tb]),
         TrueOf(tb, v), InStep(v, Live(tb))
  PROVE  v = Live(tb)
<1>1. Live(tb) = [i \in DOMAIN Live(tb) |-> Live(tb)[i]]
  BY DEF IsDataset, IsVectors, Restricted, Live
<1>2. v = [i \in DOMAIN v |-> v[i]]
  BY DEF IsVectors, Restricted
<1>3. DOMAIN v = DOMAIN Live(tb) /\ \A i \in DOMAIN v : v[i] = Live(tb)[i]
  BY DEF InStep, TrueOf
<1> QED
  BY <1>1, <1>2, <1>3

\* What a delete has counted is still so when it commits.
CountKept ==
  \A t \in Tasks :
    pc[t] = "commit" /\ call[t].op = "delete" =>
      count[t] = Cardinality(Matching(tables[call[t].table], call[t].where))

\* What a call has read of the vectors and the text of tb is still so.
ReadAt(tb) ==
  \A t \in Tasks :
    /\ pc[t] = "gather" /\ call[t].table = tb => gathered[t] = Vectors(tb)
    /\ pc[t] = "overwrite" /\ call[t].table = tb => gathered[t] = Live(tb)

\* Together, over the tables that have vectors, they are the invariant.
LEMMA SnapshotParts ==
  ASSUME CallInv
  PROVE  SnapshotInv <=> CountKept /\ \A tb \in AutoTables : ReadAt(tb)
BY DEF SnapshotInv, CountKept, ReadAt, CallInv

\* While one handle's call takes a step, no other call is in progress.
LEMMA OthersIdle ==
  ASSUME OneTaskEach, TypeOK, CallInv, WriterInv, NEW t \in Tasks, CallStep(t)
  PROVE  /\ pc[t] # "idle" /\ call[t] \in Calls
         /\ \A u \in Tasks \ {t} : pc[u] = "idle" /\ pc'[u] = "idle"
BY OneCall, StepShape

\* A step that neither touches a table nor brings a call to where it uses what
\* it has read.
SnapshotStays ==
  /\ UNCHANGED data
  /\ \A u \in Tasks : pc'[u] \in {"commit", "gather", "overwrite"} =>
       \/ /\ pc'[u] = pc[u] /\ call'[u] = call[u]
          /\ count'[u] = count[u] /\ gathered'[u] = gathered[u]
       \/ pc'[u] = "commit" /\ call'[u].op # "delete"

LEMMA OthersStay ==
  ASSUME TypeOK, [Next]_vars
  PROVE  (\E t \in Tasks : CallStep(t)) \/ SnapshotStays
<1>2. ASSUME NEW h \in Handles, OpenForWriting(h) \/ OpenForReading(h) \/ Close(h)
      PROVE  SnapshotStays
  BY <1>2 DEF OpenForWriting, OpenForReading, Close, work, SnapshotStays
<1>3. ASSUME NEW h \in Handles, Crash(h)
      PROVE  SnapshotStays
  BY <1>3 DEF Crash, SnapshotStays
<1>4. ASSUME NEW t \in Tasks, NEW c \in Calls, Begin(t, c)
      PROVE  SnapshotStays
  <2>1. pc'[t] \in {"commit", "gather", "overwrite"} =>
          \/ pc'[t] = "commit" /\ call'[t].op # "delete"
          \/ pc'[t] = pc[t] /\ call'[t] = call[t]
    BY <1>4 DEF Begin, Goto, FirstStep, TypeOK
  <2>2. \A u \in Tasks \ {t} : pc'[u] = pc[u] /\ call'[u] = call[u]
    BY <1>4 DEF Begin, Goto, TypeOK
  <2> QED
    BY <1>4, <2>1, <2>2 DEF Begin, work, SnapshotStays
<1>5. CASE UNCHANGED vars
  BY <1>5 DEF vars, data, work, SnapshotStays
<1> QED
  BY <1>2, <1>3, <1>4, <1>5, NextCases

\* Every step keeps what a delete has counted,
LEMMA CountStep ==
  ASSUME OneTaskEach
  PROVE  TypeOK /\ CallInv /\ WriterInv /\ CountKept /\ [Next]_vars => CountKept'
<1> SUFFICES ASSUME TypeOK, CallInv, WriterInv, CountKept, [Next]_vars
             PROVE  CountKept'
  OBVIOUS
<1>1. ASSUME NEW t \in Tasks, CallStep(t)
      PROVE  CountKept'
  <2>1. pc'[t] = "commit" /\ call[t].op = "delete" =>
          count'[t] = Cardinality(Matching(tables'[call[t].table], call[t].where))
    <3>1. CASE Announce(t)
      BY <3>1 DEF Announce, Fail, Return, Goto, data, TypeOK
    <3>2. CASE Change(t)
      <4>1. CASE Aborted(t)
        BY <4>1 DEF Aborted, Fail, Return, TypeOK
      <4>2. CASE \E d, n : Commit(t, d, n)
        BY <4>2 DEF Commit, Goto, TypeOK
      <4> QED
        BY <3>2, <4>1, <4>2, ChangeShape
    <3>3. CASE ~Announce(t) /\ ~Change(t)
      BY <1>1, <3>3 DEF CallStep, Step, Record, AfterRecord, RecordFails, EmbedFails, Remove,
         Overwrite, ReadVectors, Gather, Fail, Succeed, Return, Goto, TypeOK
    <3> QED
      BY <3>1, <3>2, <3>3
  <2>2. pc'[t] # "idle" => call'[t] = call[t]
    BY <1>1, StepShape
  <2> QED
    BY <1>1, <2>1, <2>2, OthersIdle DEF CountKept
<1>2. CASE SnapshotStays
  BY <1>2 DEF SnapshotStays, CountKept, data
<1> QED
  BY <1>1, <1>2, OthersStay

\* and, in a table whose vectors are true, what a call has read.
LEMMA ReadAtStep ==
  ASSUME OneTaskEach, TypeOK, CallInv, WriterInv, [Next]_vars,
         NEW tb \in Tables, TrueAt(tb), ReadAt(tb)
  PROVE  ReadAt(tb)'
<1>1. ASSUME NEW t \in Tasks, CallStep(t)
      PROVE  ReadAt(tb)'
  <2>1. CASE call[t].table = tb
    <3>1. /\ pc'[t] = "gather" => gathered'[t] = companion'[tb].rows
          /\ pc'[t] = "overwrite" => gathered'[t] = tables'[tb].rows
      <4>1. CASE Change(t)
        <5>1. CASE Aborted(t)
          BY <5>1 DEF Aborted, Fail, Return, TypeOK
        <5>2. CASE \E d, n : Commit(t, d, n)
          BY <5>2 DEF Commit, Goto, TypeOK
        <5> QED
          BY <4>1, <5>1, <5>2, ChangeShape
      <4>2. CASE Announce(t) \/ Record(t) \/ RecordFails(t) \/ EmbedFails(t) \/ Remove(t)
                 \/ Overwrite(t)
        BY <4>2 DEF Announce, Record, AfterRecord, RecordFails, EmbedFails, Remove,
                    Overwrite, Fail, Succeed, Return, Goto, TypeOK
      <4>3. CASE ReadVectors(t)
        BY <2>1, <4>3 DEF ReadVectors, Fail, Succeed, Return, Goto, data, TypeOK, Vectors
      <4>4. CASE Gather(t)
        <5>1. IsDataset(tables[tb]) /\ TrueOf(tb, gathered[t])
          BY <2>1, <4>4 DEF TypeOK, Gather, TrueAt
        <5>2. Reconciled(gathered[t], Live(tb)) = Live(tb)
          BY <5>1, ReconciledIsLive
        <5> QED
          BY <2>1, <4>4, <5>2 DEF Gather, Fail, Succeed, Return, Goto, data, TypeOK, Live
      <4> QED
        BY <1>1, <4>1, <4>2, <4>3, <4>4 DEF CallStep, Step
    <3> QED
      BY <1>1, <3>1, OthersIdle DEF ReadAt, Vectors, Live
  <2>2. CASE call[t].table # tb
    <3>1. pc'[t] # "idle" => call'[t] = call[t]
      BY <1>1, StepShape
    <3> QED
      BY <1>1, <2>2, <3>1, OthersIdle DEF ReadAt
  <2> QED
    BY <2>1, <2>2
<1>2. CASE SnapshotStays
  BY <1>2 DEF SnapshotStays, ReadAt, data, Vectors, Live
<1> QED
  BY <1>1, <1>2, OthersStay

\* Every step keeps what a call has read as it was read.
LEMMA SnapshotStep ==
  ASSUME OneTaskEach
  PROVE  TypeOK /\ CallInv /\ CallInv' /\ WriterInv /\ VectorInv /\ SnapshotInv
           /\ [Next]_vars => SnapshotInv'
<1> SUFFICES ASSUME TypeOK, CallInv, CallInv', WriterInv, VectorInv, SnapshotInv, [Next]_vars
             PROVE  SnapshotInv'
  OBVIOUS
<1>1. CountKept'
  BY CountStep, SnapshotParts
<1>2. ASSUME NEW tb \in AutoTables PROVE ReadAt(tb)'
  <2>1. tb \in Tables /\ TrueAt(tb) /\ ReadAt(tb)
    BY TablesAssumption, SnapshotParts DEF VectorInv, TrueAt
  <2> QED
    BY <2>1, ReadAtStep
<1> QED
  BY <1>1, <1>2 DEF SnapshotInv, CountKept, ReadAt, CallInv

\* Every step keeps vectors and text together, except while a call is changing
\* them or after one that failed.
SettledAt(tb) ==
  tb \notin unsettled /\ (\A t \in Tasks : ~Changing(t, tb)) => Vectors(tb) = Live(tb)

LEMMA SettledAtStep ==
  ASSUME OneTaskEach, TypeOK, CallInv, WriterInv, [Next]_vars, NEW tb \in AutoTables,
         TrueAt(tb), ReadAt(tb), SettledAt(tb), ~Exists(tb) \/ tables'[tb].there
  PROVE  SettledAt(tb)'
<1> SUFFICES ASSUME tb \notin unsettled', \A t \in Tasks : ~Changing(t, tb)'
             PROVE  companion'[tb].rows = tables'[tb].rows
  BY DEF SettledAt, Vectors, Live
<1>0. tb \in Tables
  BY TablesAssumption
<1>a. ASSUME companion'[tb] = companion[tb], tables'[tb] = tables[tb],
             tb \notin unsettled, \A t \in Tasks : ~Changing(t, tb)
      PROVE  companion'[tb].rows = tables'[tb].rows
  BY <1>a DEF SettledAt, Vectors, Live
<1>b. ASSUME UNCHANGED data, tb \notin unsettled, \A t \in Tasks : ~Changing(t, tb)
      PROVE  companion'[tb].rows = tables'[tb].rows
  BY <1>a, <1>b DEF data
<1>1. ASSUME NEW t \in Tasks, CallStep(t)
      PROVE  companion'[tb].rows = tables'[tb].rows
  <2>1. pc[t] # "idle" /\ call[t] \in Calls
        /\ \A u \in Tasks \ {t} : pc[u] = "idle"
    BY <1>1, OneCall, StepShape
  <2>2. ASSUME ~Changing(t, tb) PROVE \A u \in Tasks : ~Changing(u, tb)
    BY <2>1, <2>2 DEF Changing
  <2>3. CASE tb # call[t].table
    <3>1. companion'[tb] = companion[tb] /\ tables'[tb] = tables[tb]
      BY <1>0, <1>1, <2>3, StepShape
    <3>2. tb \notin unsettled
      <4>1. CASE Change(t)
        <5>1. CASE Aborted(t)
          BY <5>1, <2>3 DEF Aborted, Fail
        <5>2. CASE \E d, n : Commit(t, d, n)
          BY <5>2 DEF Commit
        <5> QED
          BY <4>1, <5>1, <5>2, ChangeShape
      <4>2. CASE ~Change(t)
        BY <1>1, <2>3, <4>2 DEF CallStep, Step, Announce, Record, AfterRecord, Remove,
             ReadVectors, Gather, Overwrite, RecordFails, EmbedFails, Fail, Succeed
      <4> QED
        BY <4>1, <4>2
    <3>3. ~Changing(t, tb)
      BY <2>3 DEF Changing
    <3> QED
      BY <1>a, <2>2, <3>1, <3>2, <3>3
  <2>4. CASE tb = call[t].table
    <3>a. ASSUME NEW o, Fail(t, o), UNCHANGED data
          PROVE  companion'[tb].rows = tables'[tb].rows
      <4>1. ~committed[t] /\ tb \notin unsettled
        BY <2>4, <3>a DEF Fail
      <4> QED
        BY <1>b, <2>2, <3>a, <4>1 DEF Changing
    <3>b. ASSUME NEW where \in {"commit", "remove", "columns", "gather", "overwrite"},
                 Goto(t, where), UNCHANGED data, UNCHANGED <<call, committed, unsettled>>
          PROVE  companion'[tb].rows = tables'[tb].rows
      <4>1. Changing(t, tb) => Changing(t, tb)'
        BY <3>b DEF Changing, Goto, TypeOK
      <4> QED
        BY <1>b, <2>2, <3>b, <4>1
    <3>1. CASE Announce(t)
      BY <3>1, <3>a, <3>b DEF Announce
    <3>2. CASE Change(t)
      <4>1. UNCHANGED companion
        BY <3>2 DEF Change
      <4>2. CASE Aborted(t)
        BY <4>1, <4>2, <3>a DEF Aborted, data
      <4>3. ASSUME NEW d, NEW n, Successor(t, d, n), Commit(t, d, n)
            PROVE  companion'[tb].rows = tables'[tb].rows
        <5>1. tables'[tb] = d /\ pc'[t] # "idle" /\ committed'[t] /\ call'[t] = call[t]
              /\ unsettled' = unsettled
          BY <1>0, <2>4, <4>3 DEF Commit, Goto, TypeOK
        <5>2. call[t].op = "create"
          BY <2>4, <5>1 DEF Changing
        <5>3. ~Exists(tb) /\ d = Fresh
          BY <2>4, <4>3, <5>2 DEF Successor
        <5>4. tables[tb].rows = NoRows
          <6>1. IsDataset(tables[tb])
            BY <1>0 DEF TypeOK
          <6>2. DOMAIN tables[tb].rows = {}
            BY <5>3, <6>1 DEF IsDataset, Exists
          <6> QED
            BY <6>1, <6>2 DEF IsDataset, IsVectors, Restricted, NoRows
        <5>5. companion[tb].rows = tables[tb].rows
          BY <2>2, <5>1, <5>2 DEF Changing, SettledAt, Vectors, Live
        <5> QED
          BY <4>1, <5>1, <5>3, <5>4, <5>5 DEF Fresh
      <4> QED
        BY <3>2, <4>2, <4>3, ChangeShape
    <3>3. CASE Record(t)
      <4>1. CASE call[t].op = "create"
        BY <1>b, <2>2, <3>3, <4>1 DEF Record, AfterRecord, Succeed, Changing
      <4>2. CASE call[t].op # "create"
        BY <3>3, <3>b, <4>2 DEF Record, AfterRecord
      <4> QED
        BY <4>1, <4>2
    <3>4. CASE RecordFails(t) \/ EmbedFails(t)
      BY <3>4, <3>a DEF RecordFails, EmbedFails
    <3>5. CASE Remove(t)
      <4>1. ~Exists(tb)
        BY <1>0, <2>4, <3>5 DEF Remove, TypeOK, NoTable
      <4> QED
        BY <2>4, <3>5, <4>1, <3>a DEF Remove, data
    <3>6. CASE ReadVectors(t)
      BY <2>4, <3>6, <3>a, <3>b DEF ReadVectors
    <3>7. CASE Gather(t)
      <4>1. CASE InStep(gathered[t], Live(tb)) /\ UNCHANGED data
        <5>1. gathered[t] = Vectors(tb) /\ TrueOf(tb, gathered[t]) /\ IsVectors(gathered[t])
              /\ IsDataset(tables[tb])
          BY <1>0, <2>4, <3>7 DEF Gather, ReadAt, TrueAt, TypeOK
        <5>2. gathered[t] = Live(tb)
          BY <1>0, <4>1, <5>1, InStepIsLive
        <5> QED
          BY <4>1, <5>1, <5>2 DEF Vectors, Live, data
      <4> QED
        BY <2>4, <3>7, <4>1, <3>a, <3>b DEF Gather
    <3>8. CASE Overwrite(t)
      <4>1. CASE Fail(t, "failed") /\ UNCHANGED companion
        BY <3>8, <4>1, <3>a DEF Overwrite, data
      <4>2. CASE companion' = [companion EXCEPT ![call[t].table] = Holding(gathered[t])]
        <5>1. companion'[tb].rows = gathered[t]
          BY <1>0, <2>4, <4>2 DEF TypeOK, Holding
        <5>2. gathered[t] = Live(tb)
          BY <2>4, <3>8 DEF Overwrite, ReadAt
        <5> QED
          BY <3>8, <5>1, <5>2 DEF Overwrite, Live
      <4> QED
        BY <3>8, <4>1, <4>2 DEF Overwrite
    <3> QED
      BY <1>1, <3>1, <3>2, <3>3, <3>4, <3>5, <3>6, <3>7, <3>8 DEF CallStep, Step
  <2> QED
    BY <2>3, <2>4
<1>2. ASSUME NEW h \in Handles, OpenForWriting(h) \/ OpenForReading(h) \/ Close(h)
      PROVE  companion'[tb].rows = tables'[tb].rows
  BY <1>2, <1>b DEF OpenForWriting, OpenForReading, Close, Changing
<1>3. ASSUME NEW h \in Handles, Crash(h)
      PROVE  companion'[tb].rows = tables'[tb].rows
  <2>1. tb \notin unsettled /\ UNCHANGED data
    BY <1>3 DEF Crash
  <2>2. ASSUME NEW u \in Tasks, Changing(u, tb) PROVE FALSE
    <3>1. CASE u \in TasksOf(h)
      BY <1>3, <2>2, <3>1 DEF Crash, Changing
    <3>2. CASE u \notin TasksOf(h)
      BY <1>3, <2>2, <3>2 DEF Crash, Changing
    <3> QED
      BY <3>1, <3>2
  <2> QED
    BY <1>b, <2>1, <2>2
<1>4. ASSUME NEW t \in Tasks, NEW c \in Calls, Begin(t, c)
      PROVE  companion'[tb].rows = tables'[tb].rows
  <2>1. \A u \in Tasks : Changing(u, tb) => Changing(u, tb)'
    BY <1>4 DEF Begin, Goto, Changing, TypeOK
  <2> QED
    BY <1>4, <1>b, <2>1 DEF Begin
<1>5. CASE UNCHANGED vars
  BY <1>5, <1>b DEF vars, data, Changing
<1> QED
  BY <1>1, <1>2, <1>3, <1>4, <1>5, NextCases

LEMMA SettledStep ==
  ASSUME OneTaskEach, NeverDropped
  PROVE  TypeOK /\ CallInv /\ WriterInv /\ VectorInv /\ SnapshotInv /\ SettledInv
           /\ [Next]_vars => SettledInv'
<1> SUFFICES ASSUME TypeOK, CallInv, WriterInv, VectorInv, SnapshotInv, SettledInv,
                    [Next]_vars, NEW tb \in AutoTables
             PROVE  SettledAt(tb)'
  BY DEF SettledInv, SettledAt
<1>1. tb \in Tables /\ TrueAt(tb) /\ ReadAt(tb) /\ SettledAt(tb)
  BY TablesAssumption, SnapshotParts DEF VectorInv, TrueAt, SettledInv, SettledAt
<1>2. ~Exists(tb) \/ tables'[tb].there
  BY <1>1, TableStep DEF NeverDropped
<1> QED
  BY <1>1, <1>2, SettledAtStep

\* Where nothing has been stored, nothing has been read and nothing differs.
LEMMA SettledInit == Init => SnapshotInv /\ SettledInv
BY TablesAssumption DEF Init, SnapshotInv, SettledInv, Vectors, Live, NoTable

\* All parts of the inductive invariant together.
LEMMA InvariantAlways ==
  ASSUME OneTaskEach, NeverDropped
  PROVE  Spec => [](TypeOK /\ CallInv /\ WriterInv /\ VectorInv /\ SnapshotInv /\ SettledInv)
<1> QED
  BY TypeInit, TypeStep, WriterInit, WriterStep, VectorInit, VectorStep,
     SettledInit, SnapshotStep, SettledStep, PTL DEF Spec

\* When every handle serves one call at a time and no table with an embedding
\* column is dropped: a table whose last change ended with Ok has a vector for
\* every live row and none besides, also after crashes and failed records.
THEOREM SettledTogether ==
  ASSUME OneTaskEach, NeverDropped
  PROVE  Spec => []SettledAgree
<1>1. SettledInv => SettledAgree
  BY DEF SettledInv, SettledAgree, Quiet, Changing
<1> QED
  BY <1>1, InvariantAlways, PTL

\* When every handle serves one call at a time, a delete removes as many rows as
\* it announced, whatever else is written, dropped or cut short.
THEOREM Announced ==
  ASSUME OneTaskEach
  PROVE  Spec => AnnouncedIsDeleted
<1>1. ASSUME TypeOK, CallInv, WriterInv, CountKept, [Next]_vars, NEW t \in Tasks,
             pc[t] = "commit", pc'[t] = "record", call[t].op = "delete"
      PROVE  count'[t] = count[t]
  <2>1. ASSUME NEW u \in Tasks, CallStep(u) PROVE Change(t)
    <3>1. u = t
      BY <1>1, <2>1, StepShape
    <3> QED
      BY <1>1, <2>1, <3>1 DEF CallStep, Step, Announce, Record, Remove, ReadVectors,
         Gather, Overwrite, RecordFails, EmbedFails
  <2>2. Change(t)
    <3>1. CASE \E h \in Handles : OpenForWriting(h) \/ OpenForReading(h) \/ Close(h)
      BY <1>1, <3>1 DEF OpenForWriting, OpenForReading, Close
    <3>2. CASE \E h \in Handles : Crash(h)
      BY <1>1, <3>2 DEF Crash
    <3>3. CASE \E u \in Tasks, c \in Calls : Begin(u, c)
      BY <1>1, <3>3 DEF Begin, Goto, TypeOK
    <3>4. CASE UNCHANGED vars
      BY <1>1, <3>4 DEF vars
    <3> QED
      BY <1>1, <2>1, <3>1, <3>2, <3>3, <3>4, NextCases
  <2>3. CASE Aborted(t)
    BY <1>1, <2>3 DEF Aborted, Fail, Return, TypeOK
  <2>4. ASSUME NEW d, NEW n, Successor(t, d, n), Commit(t, d, n)
        PROVE  count'[t] = count[t]
    <3>1. count'[t] = n
      BY <1>1, <2>4 DEF Commit, TypeOK
    <3> QED
      BY <1>1, <2>4, <3>1 DEF Successor, CountKept
  <2> QED
    BY <1>1, <2>2, <2>3, <2>4, ChangeShape
<1>2. TypeOK /\ CallInv /\ WriterInv /\ CountKept /\ [Next]_vars =>
        [\A t \in Tasks :
           pc[t] = "commit" /\ pc'[t] = "record" /\ call[t].op = "delete"
             => count'[t] = count[t]]_vars
  BY <1>1
<1>3. Init => CountKept
  BY DEF Init, CountKept
<1> QED
  BY <1>2, <1>3, TypeInit, TypeStep, WriterInit, WriterStep, CountStep, PTL
     DEF Spec, AnnouncedIsDeleted

-----------------------------------------------------------------------------
(* The audit log accounts for the rows. *)

\* What the record of a committed call says is what the commit did.
LEMMA RecordCounts ==
  ASSUME TypeOK, NEW t \in Tasks, pc[t] # "idle", call[t].op # "drop", NEW m
  PROVE  RowsAfter(t, m) = Counted(call[t].op, m, count[t])
<1>1. call[t].op \in {"create", "drop", "append", "update", "delete"}
  BY CallFacts DEF TypeOK
<1> QED
  BY <1>1 DEF RowsAfter, Counted

\* Every step of a call keeps the account of its own table.
LEMMA AccountCallStep ==
  ASSUME OneTaskEach, TypeOK, CallInv, WriterInv, AccountInv, NEW t \in Tasks, CallStep(t)
  PROVE  AccountInv'
<1> DEFINE c == call[t]
           Table == c.table
<1>0. /\ pc[t] # "idle" /\ c \in Calls /\ Table \in Tables
      /\ \A u \in Tasks \ {t} : pc[u] = "idle" /\ pc'[u] = "idle"
      /\ pc'[t] # "idle" => call'[t] = c
      /\ \A tb \in Tables \ {Table} : tables'[tb] = tables[tb]
      /\ c.op \in {"create", "drop", "append", "update", "delete"}
      /\ IsDataset(tables[Table])
  BY OneCall, StepShape, CallFacts DEF TypeOK
\* What has to be shown of the one call in progress.
<1> DEFINE Owed == pc'[t] = "record" /\ c.op # "drop"
           OwedRemoval == pc'[t] = "remove" /\ HandleOf[t] \in Audited
           Rows == Size(tables'[Table])
<1>s. ASSUME gap \subseteq gap', \A tb \in Tables \ {Table} : logged'[tb] = logged[tb],
             Owed => committed'[t],
             Table \notin gap' =>
               /\ ~Owed /\ ~OwedRemoval => logged'[Table] = Rows
               /\ Owed => HandleOf[t] \in Audited
                          /\ Counted(c.op, logged'[Table], count'[t]) = Rows
               /\ OwedRemoval => logged'[Table] = 0
      PROVE  AccountInv'
  <2>1. \A u \in Tasks : pc'[u] = "record" /\ call'[u].op # "drop" => committed'[u]
    BY <1>0, <1>s
  <2>2. \A u \in Tasks, tb \in Tables : Owing(u, tb)' =>
          u = t /\ tb = Table /\ (Owed \/ OwedRemoval) /\ (pc'[t] = "record" => Owed)
          /\ (pc'[t] = "remove" => OwedRemoval)
    BY <1>0 DEF Owing
  <2>3. \A tb \in Tables : NumberOfRows(tb)' = Size(tables'[tb])
    BY DEF NumberOfRows, Live, Size
  <2>4. ASSUME NEW tb \in Tables \ gap', tb # Table
        PROVE  logged'[tb] = NumberOfRows(tb)'
    <3>1. \A u \in Tasks : ~Owing(u, tb)
      BY <1>0, <2>4 DEF Owing
    <3>2. logged[tb] = NumberOfRows(tb)
      BY <1>s, <2>4, <3>1 DEF AccountInv
    <3> QED
      BY <1>0, <1>s, <2>4, <3>2 DEF NumberOfRows, Live
  <2>5. \A tb \in Tables : tb = Table /\ (Owed \/ OwedRemoval) => Owing(t, tb)'
    BY <1>0 DEF Owing
  <2>6. \A tb \in Tables :
          Owed => RowsAfter(t, logged[tb])' = Counted(c.op, logged'[tb], count'[t])
    BY <1>0 DEF RowsAfter, Counted
  <2>7. ASSUME NEW tb \in Tables \ gap', \A u \in Tasks : ~Owing(u, tb)'
        PROVE  logged'[tb] = NumberOfRows(tb)'
    BY <1>s, <2>3, <2>4, <2>5, <2>7
  <2>8. ASSUME NEW tb \in Tables \ gap', NEW u \in Tasks, Owing(u, tb)'
        PROVE  /\ HandleOf[u] \in Audited
               /\ pc'[u] = "record" => RowsAfter(u, logged[tb])' = NumberOfRows(tb)'
               /\ pc'[u] = "remove" => logged'[tb] = 0
    BY <1>s, <2>2, <2>3, <2>6, <2>8
  <2> QED
    BY <2>1, <2>7, <2>8 DEF AccountInv
\* What is known of it before the step.
<1>b. /\ pc[t] = "record" /\ c.op # "drop" => committed[t]
      /\ Table \notin gap =>
           /\ \/ pc[t] = "record" /\ c.op # "drop"
              \/ pc[t] = "remove" /\ HandleOf[t] \in Audited
              \/ logged[Table] = Size(tables[Table])
           /\ pc[t] = "record" /\ c.op # "drop" =>
                HandleOf[t] \in Audited
                /\ Counted(c.op, logged[Table], count[t]) = Size(tables[Table])
           /\ pc[t] = "remove" /\ HandleOf[t] \in Audited => logged[Table] = 0
  <2>1. NumberOfRows(Table) = Size(tables[Table])
    BY DEF NumberOfRows, Live, Size
  <2>2. \A u \in Tasks : Owing(u, Table) => u = t
    BY <1>0 DEF Owing
  <2>3. pc[t] = "record" /\ c.op # "drop" =>
          RowsAfter(t, logged[Table]) = Counted(c.op, logged[Table], count[t])
    BY <1>0, RecordCounts
  <2> QED
    BY <1>0, <2>1, <2>2, <2>3 DEF AccountInv, Owing
<1> HIDE DEF Owed, OwedRemoval, Rows
<1>n. ASSUME pc'[t] \notin {"record", "remove"} PROVE ~Owed /\ ~OwedRemoval
  BY <1>n DEF Owed, OwedRemoval
\* A step that is neither a change nor a record.
<1>u. ASSUME UNCHANGED <<tables, logged, gap>>, pc[t] \notin {"record", "remove"},
             pc'[t] \notin {"record", "remove"}
      PROVE  AccountInv'
  <2>1. Table \notin gap' => logged'[Table] = Rows
    BY <1>u, <1>b DEF Rows
  <2> QED
    BY <1>u, <1>n, <1>s, <2>1
<1>1. CASE Announce(t)
  BY <1>1, <1>u DEF Announce, data, Fail, Return, Goto, TypeOK
<1>2. CASE Change(t)
  <2>1. pc[t] = "commit" /\ logged' = logged
    BY <1>2 DEF Change
  <2>2. CASE Aborted(t)
    BY <2>1, <2>2, <1>u DEF Aborted, Fail, Return, TypeOK
  <2>3. ASSUME NEW d, NEW n, Successor(t, d, n), Commit(t, d, n)
        PROVE  AccountInv'
    <3>1. /\ tables'[Table] = d /\ count'[t] = n /\ committed'[t]
          /\ gap \subseteq gap' /\ (Table \notin gap' => HandleOf[t] \in Audited /\ Table \notin gap)
          /\ pc'[t] = "record"
      BY <1>0, <2>3 DEF Commit, Goto, TypeOK
    <3>2. c.op # "drop" /\ Size(d) = Counted(c.op, Size(tables[Table]), n)
      BY <2>1, <2>3 DEF Successor, CallInv
    <3>3. Owed /\ ~OwedRemoval /\ Rows = Size(d)
      BY <3>1, <3>2 DEF Owed, OwedRemoval, Rows
    <3>4. Table \notin gap' =>
            HandleOf[t] \in Audited /\ Counted(c.op, logged'[Table], count'[t]) = Rows
      BY <1>b, <2>1, <3>1, <3>2, <3>3
    <3> QED
      BY <1>s, <2>1, <3>1, <3>3, <3>4
  <2> QED
    BY <1>2, <2>2, <2>3, ChangeShape
<1>3. CASE Record(t)
  <2>1. /\ pc[t] = "record" /\ UNCHANGED <<tables, gap, committed>>
        /\ logged' = IF HandleOf[t] \in Audited
                     THEN [logged EXCEPT ![Table] = RowsAfter(t, logged[Table])] ELSE logged
        /\ pc'[t] # "record" /\ (pc'[t] = "remove" <=> c.op = "drop")
    BY <1>3 DEF Record, AfterRecord, data, Succeed, Return, Goto, TypeOK
  <2>2. Rows = Size(tables[Table]) /\ ~Owed
    BY <2>1 DEF Rows, Owed
  <2>3. \A tb \in Tables \ {Table} : logged'[tb] = logged[tb]
    BY <2>1 DEF TypeOK
  <2>4. HandleOf[t] \in Audited => logged'[Table] = RowsAfter(t, logged[Table])
    BY <1>0, <2>1 DEF TypeOK
  <2>5. CASE c.op = "drop"
    <3>1. HandleOf[t] \in Audited => logged'[Table] = 0
      BY <2>4, <2>5 DEF RowsAfter
    <3>2. OwedRemoval <=> HandleOf[t] \in Audited
      BY <2>1, <2>5 DEF OwedRemoval
    <3>3. HandleOf[t] \notin Audited /\ Table \notin gap => logged'[Table] = Rows
      BY <1>b, <2>1, <2>2, <2>5
    <3> QED
      BY <1>s, <2>1, <2>2, <2>3, <3>1, <3>2, <3>3
  <2>6. CASE c.op # "drop"
    <3>1. ~OwedRemoval
      BY <2>1, <2>6 DEF OwedRemoval
    <3>2. RowsAfter(t, logged[Table]) = Counted(c.op, logged[Table], count[t])
      BY <1>0, <2>6, RecordCounts
    <3>3. Table \notin gap => logged'[Table] = Rows
      BY <1>b, <2>1, <2>2, <2>4, <2>6, <3>2
    <3> QED
      BY <1>s, <2>1, <2>2, <2>3, <3>1, <3>3
  <2> QED
    BY <2>5, <2>6
<1>4. CASE RecordFails(t)
  <2>1. /\ pc[t] = "record" /\ UNCHANGED <<tables, logged>> /\ pc'[t] = "idle"
        /\ gap' = IF committed[t] THEN gap \cup {Table} ELSE gap
    BY <1>4 DEF RecordFails, data, Fail, Return, TypeOK
  <2>2. Table \notin gap' => logged'[Table] = Rows
    BY <1>b, <2>1 DEF Rows
  <2>3. gap \subseteq gap'
    BY <2>1
  <2> QED
    BY <1>n, <1>s, <2>1, <2>2, <2>3
<1>5. CASE Remove(t)
  <2>1. pc[t] = "remove" /\ logged' = logged /\ pc'[t] = "idle" /\ gap \subseteq gap'
    BY <1>5 DEF Remove, Fail, Succeed, Return, TypeOK
  <2>2. Table \notin gap' => logged'[Table] = Rows
    <3>1. CASE ~Exists(Table) /\ UNCHANGED <<tables, gap>>
      <4>1. Size(tables[Table]) = 0 /\ Rows = Size(tables[Table])
        BY <1>0, <3>1, SizeType DEF Exists, Rows
      <4> QED
        BY <1>b, <2>1, <3>1, <4>1
    <3>2. CASE tables' = [tables EXCEPT ![Table] = NoTable]
               /\ gap' = IF HandleOf[t] \in Audited THEN gap ELSE gap \cup {Table}
      <4>1. tables'[Table] = NoTable
        BY <1>0, <3>2 DEF TypeOK
      <4>2. Rows = 0
        BY <4>1, FreshType, SizeType DEF Rows, NoTable
      <4> QED
        BY <1>b, <2>1, <3>2, <4>2
    <3> QED
      BY <1>5, <3>1, <3>2 DEF Remove
  <2> QED
    BY <1>n, <1>s, <2>1, <2>2
<1>6. CASE ReadVectors(t)
  BY <1>6, <1>u DEF ReadVectors, data, Fail, Succeed, Return, Goto, TypeOK
<1>7. CASE Gather(t)
  BY <1>7, <1>u DEF Gather, data, Fail, Succeed, Return, Goto, TypeOK
<1>8. CASE Overwrite(t) \/ EmbedFails(t)
  BY <1>8, <1>u DEF Overwrite, EmbedFails, data, Fail, Succeed, Return, TypeOK
<1> QED
  BY <1>1, <1>2, <1>3, <1>4, <1>5, <1>6, <1>7, <1>8 DEF CallStep, Step

\* Every other step leaves the account as it is, or notes the gap that a dying
\* process leaves in it.
LEMMA AccountStep ==
  ASSUME OneTaskEach
  PROVE  TypeOK /\ CallInv /\ WriterInv /\ AccountInv /\ [Next]_vars => AccountInv'
<1> SUFFICES ASSUME TypeOK, CallInv, WriterInv, AccountInv, [Next]_vars PROVE AccountInv'
  OBVIOUS
<1>a. ASSUME UNCHANGED <<tables, logged, committed>>, gap \subseteq gap',
             \A u \in Tasks : pc'[u] \in {"record", "remove"} =>
               pc'[u] = pc[u] /\ call'[u] = call[u] /\ count'[u] = count[u],
             \A u \in Tasks, tb \in Tables \ gap' : Owing(u, tb) =>
               pc'[u] = pc[u] /\ call'[u] = call[u] /\ count'[u] = count[u]
      PROVE  AccountInv'
  <2>1. \A u \in Tasks : pc'[u] = "record" /\ call'[u].op # "drop" => committed'[u]
    BY <1>a DEF AccountInv
  <2>2. \A u \in Tasks, tb \in Tables \ gap' : Owing(u, tb)' <=> Owing(u, tb)
    BY <1>a DEF Owing
  <2>3. \A tb \in Tables : NumberOfRows(tb)' = NumberOfRows(tb)
    BY <1>a DEF NumberOfRows, Live
  <2>4. \A u \in Tasks, tb \in Tables \ gap' :
          Owing(u, tb) => RowsAfter(u, logged[tb])' = RowsAfter(u, logged[tb])
    BY <1>a DEF RowsAfter
  <2>5. \A tb \in Tables \ gap' : tb \in Tables \ gap /\ logged'[tb] = logged[tb]
    BY <1>a
  <2> QED
    BY <1>a, <2>1, <2>2, <2>3, <2>4, <2>5 DEF AccountInv
<1>1. ASSUME NEW t \in Tasks, CallStep(t) PROVE AccountInv'
  BY <1>1, AccountCallStep
<1>2. ASSUME NEW h \in Handles, OpenForWriting(h) \/ OpenForReading(h) \/ Close(h)
      PROVE  AccountInv'
  BY <1>2, <1>a DEF OpenForWriting, OpenForReading, Close, work, data
<1>3. ASSUME NEW h \in Handles, Crash(h)
      PROVE  AccountInv'
  <2> DEFINE busy == {t \in TasksOf(h) : pc[t] # "idle"}
  <2>1. /\ UNCHANGED <<tables, logged, committed>>
        /\ \A u \in Tasks \ busy : pc'[u] = pc[u] /\ call'[u] = call[u] /\ count'[u] = count[u]
        /\ \A u \in Tasks \cap busy : pc'[u] = "idle"
        /\ gap' = gap \cup {call[t].table : t \in {u \in busy : Unrecorded(u)}}
    BY <1>3 DEF Crash, data
  <2>2. ASSUME NEW u \in Tasks, NEW tb \in Tables \ gap', Owing(u, tb) PROVE u \notin busy
    <3>1. tb \in Tables \ gap
      BY <2>1, <2>2
    <3>2. HandleOf[u] \in Audited /\ (pc[u] = "record" => committed[u]) /\ call[u].table = tb
          /\ pc[u] \in {"record", "remove"}
      BY <2>2, <3>1 DEF AccountInv, Owing
    <3>3. Unrecorded(u)
      BY <3>2 DEF Unrecorded
    <3> QED
      BY <2>1, <2>2, <3>2, <3>3
  <2> QED
    BY <1>a, <2>1, <2>2
<1>4. ASSUME NEW t \in Tasks, NEW c \in Calls, Begin(t, c)
      PROVE  AccountInv'
  <2>1. /\ pc[t] = "idle" /\ UNCHANGED <<tables, logged, gap, count>>
        /\ \A u \in Tasks \ {t} :
             pc'[u] = pc[u] /\ call'[u] = call[u] /\ committed'[u] = committed[u]
        /\ pc'[t] # "remove"
        /\ pc'[t] = "record" => call'[t].op = "drop"
    BY <1>4 DEF Begin, data, work, Goto, FirstStep, TypeOK
  <2>2. \A u \in Tasks : pc'[u] = "record" /\ call'[u].op # "drop" => committed'[u]
    BY <2>1 DEF AccountInv
  <2>3. \A u \in Tasks, tb \in Tables : Owing(u, tb)' <=> Owing(u, tb)
    BY <2>1 DEF Owing
  <2>4. \A u \in Tasks, tb \in Tables :
          Owing(u, tb) => pc'[u] = pc[u] /\ RowsAfter(u, logged[tb])' = RowsAfter(u, logged[tb])
    BY <2>1 DEF RowsAfter, Owing
  <2>5. \A tb \in Tables : NumberOfRows(tb)' = NumberOfRows(tb)
    BY <2>1 DEF NumberOfRows, Live
  <2> QED
    BY <2>1, <2>2, <2>3, <2>4, <2>5 DEF AccountInv
<1>5. CASE UNCHANGED vars
  BY <1>5, <1>a DEF vars
<1> QED
  BY <1>1, <1>2, <1>3, <1>4, <1>5, NextCases

\* When every handle serves one call at a time: whatever is created, changed
\* and dropped, by handles that keep a log and handles that do not, and
\* wherever calls fail and processes die, the records of the log add up to the
\* rows of every table that no unrecorded change has touched.
THEOREM Accounted ==
  ASSUME OneTaskEach
  PROVE  Spec => []LogAccountsForRows
<1>1. Init => AccountInv
  <2> SUFFICES ASSUME Init PROVE AccountInv
    OBVIOUS
  <2>1. \A tb \in Tables : NumberOfRows(tb) = 0
    BY FreshType, SizeType DEF Init, NumberOfRows, Live, Size, NoTable
  <2> QED
    BY <2>1 DEF Init, AccountInv, Owing
<1>2. AccountInv => LogAccountsForRows
  BY DEF AccountInv, LogAccountsForRows, Quiet, Owing, NumberOfRows
<1> QED
  BY <1>1, <1>2, TypeCallAlways, WriterInit, WriterStep, AccountStep, PTL DEF Spec
=============================================================================
