---------------------------- MODULE QueryProofs ----------------------------
(***************************************************************************)
(* Proofs about the requests that read beside the writes, for any number   *)
(* of handles, tasks, readers, tables, texts and requests.                 *)
(***************************************************************************)
EXTENDS Query, StoreProofs, FusionProofs

-----------------------------------------------------------------------------
(* What a step is to the tables. *)

\* A reader's fault is no step of the table store, which it leaves alone.
StillStore ==
  UNCHANGED <<lock, role, tables, companion, logged, pc, call, count, gathered,
              outcome, committed, gap, unsettled>>

\* What a reader does in one step.
ReaderStep(r) == (\E q \in Requests : Ask(r, q) \/ EmbedQueryFails(r, q)) \/ QueryStep(r)

\* What a handle does in one step.
HandleStep(h) ==
  \/ (OpenForWriting(h) \/ OpenForReading(h)) /\ UNCHANGED reading
  \/ CloseUnused(h) \/ CrashAll(h)

\* Every step is one of the table store that the indexes and requests follow,
\* one of a handle, one of a reader, or none.
LEMMA QueryCases ==
  ASSUME [QueryNext]_queryVars
  PROVE  \/ Next /\ Follow
         \/ \E h \in Handles : HandleStep(h)
         \/ \E r \in Readers : ReaderStep(r)
         \/ UNCHANGED queryVars
BY DEF QueryNext, Next, HandleStep, ReaderStep

\* A handle's step is one of the table store that changes no table.
LEMMA HandleShape ==
  ASSUME NEW h \in Handles, HandleStep(h)
  PROVE  /\ Next /\ UNCHANGED <<data, indexes, dropped>>
         /\ \/ UNCHANGED query
            \/ query' = [r \in Readers |->
                 IF r \in ReadersOf(h) /\ Running(r) THEN Resting ELSE query[r]]
BY DEF HandleStep, CloseUnused, CrashAll, OpenForWriting, OpenForReading, Close, Crash,
       Next, reading

\* A reader's step leaves the table store alone, but for its count of faults.
LEMMA ReaderLeavesStore ==
  ASSUME NEW r \in Readers, ReaderStep(r)
  PROVE  /\ StillStore /\ UNCHANGED dropped /\ vectorIndex \subseteq vectorIndex'
         /\ faults' = faults \/ (faults < MaxFaults /\ faults' = faults + 1)
BY DEF ReaderStep, Ask, EmbedQueryFails, QueryStep, ReadIds, Analyse, Candidates,
       SearchVectors, SearchText, FuseBoth, RecordRead, RecordReadFails, IndexTable,
       IndexVectors, StillStore, vars, data, work, indexes

\* To the table store, every step is one of its own or changes nothing but the
\* count of faults.
LEMMA StoreCases ==
  ASSUME [QueryNext]_queryVars
  PROVE  \/ [Next]_vars
         \/ StillStore /\ (faults' = faults \/ (faults < MaxFaults /\ faults' = faults + 1))
<1>1. UNCHANGED queryVars => UNCHANGED vars
  BY DEF queryVars
<1> QED
  BY <1>1, QueryCases, HandleShape, ReaderLeavesStore

\* The types of the table store hold beside the requests too.
LEMMA StoreTypeStep ==
  TypeOK /\ CallInv /\ [QueryNext]_queryVars => TypeOK' /\ CallInv'
<1> SUFFICES ASSUME TypeOK, CallInv, [QueryNext]_queryVars PROVE TypeOK' /\ CallInv'
  OBVIOUS
<1>1. CASE [Next]_vars
  BY <1>1, TypeStep
<1>2. CASE StillStore /\ (faults' = faults \/ (faults < MaxFaults /\ faults' = faults + 1))
  <2>1. faults' \in 0..MaxFaults
    BY <1>2, BoundsAssumption DEF TypeOK
  <2> QED
    BY <1>2, <2>1 DEF StillStore, TypeOK, CallInv, Vectors
<1> QED
  BY <1>1, <1>2, StoreCases

\* A table that was there and is not any more has been dropped, and the history
\* says so; every other step moves a table on to a version that grows from the
\* one before.
LEMMA QueryTableStep ==
  ASSUME TypeOK, CallInv, [QueryNext]_queryVars, NEW tb \in Tables
  PROVE  /\ dropped \subseteq dropped'
         /\ \/ Grows(tables[tb], tables'[tb]) /\ (~Exists(tb) \/ tables'[tb].there)
            \/ tb \in dropped' /\ tb \in Gone /\ Next /\ Follow
<1>1. ASSUME UNCHANGED tables PROVE Grows(tables[tb], tables'[tb]) /\ (~Exists(tb) \/ tables'[tb].there)
  BY <1>1 DEF Grows, Exists, TypeOK, IsDataset
<1>2. CASE Next /\ Follow
  BY <1>2, TableStep DEF Follow, Gone
<1>3. CASE \E h \in Handles : HandleStep(h)
  BY <1>1, <1>3, HandleShape DEF data
<1>4. CASE \E r \in Readers : ReaderStep(r)
  BY <1>1, <1>4, ReaderLeavesStore DEF StillStore
<1>5. CASE UNCHANGED queryVars
  BY <1>1, <1>5 DEF queryVars, vars, reading
<1> QED
  BY <1>2, <1>3, <1>4, <1>5, QueryCases

-----------------------------------------------------------------------------
(* What a step is to a request. *)

Steps ==
  {"ids", "analyse", "record", "candidates", "vectors", "text", "fuse", "key_index",
   "text_index", "vector_index"}

Fields ==
  {"req", "todo", "outcome", "sets", "semantic", "lexical", "fused", "first", "intact"}

\* The record of a request.
IsRecord(q) == q = [x \in Fields |-> q[x]]

\* A request is such a record; while it runs it is one of those that are made,
\* and has no outcome.
Shaped(q) ==
  /\ IsRecord(q) /\ q.todo \in Seq(Steps) /\ q.intact \in BOOLEAN
  /\ q.todo # <<>> => q.req \in Requests /\ q.outcome = "none"

ShapeInv == DOMAIN query = Readers /\ \A r \in Readers : Shaped(query[r])

\* The plan of a request is a list of steps.
LEMMA PlanType ==
  ASSUME NEW q \in Requests
  PROVE  Plan(q) \in Seq(Steps)
<1> DEFINE n == Len(q.where)
           ids == [i \in 1..n |-> "ids"]
<1>1. q.op \in AllOps /\ n \in Nat
  BY QueryAssumption DEF IsRequest
<1>2. ids \in Seq(Steps)
  <2> HIDE DEF n
  <2> QED BY <1>1 DEF Steps
<1>3. ids \o <<"candidates">> \in Seq(Steps)
  <2>1. <<"candidates">> \in Seq(Steps)
    BY DEF Steps
  <2> HIDE DEF ids
  <2> QED BY <1>2, <2>1
<1>4. /\ <<"ids", "analyse">> \in Seq(Steps) /\ <<"ids", "record">> \in Seq(Steps)
      /\ <<"vectors", "record">> \in Seq(Steps) /\ <<"text", "record">> \in Seq(Steps)
      /\ <<"vectors", "record", "text", "record", "fuse", "record">> \in Seq(Steps)
      /\ <<"key_index">> \in Seq(Steps)
      /\ <<"text_index", "record">> \in Seq(Steps) /\ <<"vector_index", "record">> \in Seq(Steps)
  BY DEF Steps
<1> HIDE DEF ids, n
<1>5. CASE q.op \in {"row_ids_all", "row_ids_any"}
  <2>1. Plan(q) = ids
    BY <1>5 DEF Plan, ids, n
  <2> QED BY <1>2, <2>1
<1>6. CASE q.op = "filtered_search"
  <2>1. Plan(q) = ids \o <<"candidates">>
    BY <1>6 DEF Plan, ids, n
  <2> QED BY <1>3, <2>1
<1>7. CASE q.op \notin {"row_ids_all", "row_ids_any", "filtered_search"}
  BY <1>1, <1>4, <1>7 DEF Plan, AllOps, PredicateOps, SearchOps, IndexOps, OtherOps
<1> QED
  BY <1>5, <1>6, <1>7

\* A request that has ended holds nothing but its outcome.
Closed(o) == [Resting EXCEPT !.outcome = o]

Results == {"none", "ok", "refused", "failed"}

\* No step has found anything yet, or nothing any more.
FoundNothing(q) ==
  q.sets = <<>> /\ q.semantic = <<>> /\ q.lexical = <<>> /\ q.fused = NoFusion

\* A request that has ended has the shape of one.
LEMMA RestingShape ==
  ASSUME NEW o, NEW q, q = Closed(o)
  PROVE  Shaped(q) /\ q.todo = <<>> /\ q.outcome = o /\ q.req = None /\ FoundNothing(q)
<1> DEFINE z == Resting
<1>1. /\ IsRecord(z) /\ z.todo = <<>> /\ z.intact = FALSE /\ z.req = None /\ z.sets = <<>>
      /\ z.semantic = <<>> /\ z.lexical = <<>> /\ z.fused = NoFusion
  BY DEF Resting, IsRecord, Fields
<1>2. q = [z EXCEPT !.outcome = o]
  BY DEF Closed
<1> HIDE DEF z
<1>3. /\ IsRecord(q) /\ q.todo = z.todo /\ q.intact = z.intact /\ q.outcome = o
      /\ q.req = z.req /\ q.sets = z.sets /\ q.semantic = z.semantic
      /\ q.lexical = z.lexical /\ q.fused = z.fused
  BY <1>1, <1>2 DEF IsRecord, Fields
<1>4. <<>> \in Seq(Steps)
  OBVIOUS
<1> QED
  BY <1>1, <1>3, <1>4 DEF Shaped, FoundNothing

\* A reader that asks nothing.
LEMMA RestingItself == Resting = Closed("none")
<1> DEFINE z == Resting
<1>1. IsRecord(z) /\ z.outcome = "none"
  BY DEF Resting, IsRecord, Fields
<1> HIDE DEF z
<1>2. z = [z EXCEPT !.outcome = "none"]
  BY <1>1 DEF IsRecord, Fields
<1> QED
  BY <1>2 DEF z, Closed

\* A request that has been accepted has its plan before it.
Accepted(q, b) == [Resting EXCEPT !.req = q, !.todo = Plan(q), !.intact = b]

\* So has one that begins.
LEMMA AskedShape ==
  ASSUME NEW q \in Requests, NEW b \in BOOLEAN, NEW e,
         e = Accepted(q, b)
  PROVE  /\ Shaped(e) /\ e.req = q /\ e.todo = Plan(q) /\ e.intact = b
         /\ e.outcome = "none" /\ FoundNothing(e)
<1> DEFINE z == Resting
           p == Plan(q)
<1>1. /\ IsRecord(z) /\ z.outcome = "none" /\ z.sets = <<>> /\ z.semantic = <<>>
      /\ z.lexical = <<>> /\ z.fused = NoFusion
  BY DEF Resting, IsRecord, Fields
<1>2. e = [z EXCEPT !.req = q, !.todo = p, !.intact = b]
  BY DEF Accepted
<1>3. p \in Seq(Steps)
  BY PlanType
<1> HIDE DEF z, p
<1>4. /\ IsRecord(e) /\ e.req = q /\ e.todo = p /\ e.intact = b /\ e.outcome = z.outcome
      /\ e.sets = z.sets /\ e.semantic = z.semantic
      /\ e.lexical = z.lexical /\ e.fused = z.fused
  BY <1>1, <1>2 DEF IsRecord, Fields
<1>5. Shaped(e)
  BY <1>1, <1>3, <1>4 DEF Shaped
<1> QED
  BY <1>1, <1>4, <1>5 DEF p, FoundNothing

\* What one step of a request finds: the rows of a predicate, candidates, the
\* nearest vectors, matching text or a fused ranking, and nothing else is
\* touched.
Finds(r, f) ==
  LET q == query[r]
      tb == q.req.table IN
  /\ IsRecord(f)
  /\ f.req = q.req /\ f.todo = q.todo /\ f.outcome = q.outcome /\ f.intact = q.intact
  /\ At(r, "ids") =>
       /\ Exists(tb)
       /\ f.sets = Append(q.sets, Matching(tables[tb], Asked(q)))
       /\ f.first = IF q.sets = <<>> THEN Live(tb) ELSE q.first
  /\ ~At(r, "ids") => f.first = q.first
  /\ ~At(r, "ids") /\ ~At(r, "candidates") => f.sets = q.sets
  /\ At(r, "vectors") => f.semantic \in Nearest(tb, Breadth(q.req))
  /\ ~At(r, "vectors") => f.semantic = q.semantic
  /\ At(r, "text") =>
       f.lexical \in Orders(Matching(tables[tb], q.req.where[1]), Breadth(q.req))
  /\ ~At(r, "text") => f.lexical = q.lexical
  /\ At(r, "fuse") =>
       f.fused = Fuse(RowsOf(q.semantic), q.lexical, Cardinality(DOMAIN Live(tb)), q.req.limit)
  /\ ~At(r, "fuse") => f.fused = q.fused

\* The rows of a predicate, as a finding.
LEMMA WithIdsFinds ==
  ASSUME NEW r, Shaped(query[r]), At(r, "ids"), Exists(query[r].req.table)
  PROVE  Finds(r, WithIds(query[r]))
<1> DEFINE q == query[r]
           tb == q.req.table
           b == Begun(q, Live(tb))
           f == WithIds(q)
           m == Matching(tables[tb], Asked(q))
<1>1. IsRecord(q)
  BY DEF Shaped
<1>2. /\ IsRecord(b) /\ b.req = q.req /\ b.todo = q.todo /\ b.outcome = q.outcome
      /\ b.intact = q.intact /\ b.sets = q.sets /\ b.semantic = q.semantic
      /\ b.lexical = q.lexical /\ b.fused = q.fused
      /\ b.first = IF q.sets = <<>> THEN Live(tb) ELSE q.first
  <2> HIDE DEF q, tb
  <2>1. CASE q.sets = <<>>
    BY <1>1, <2>1 DEF Begun, IsRecord, Fields
  <2>2. CASE q.sets # <<>>
    BY <1>1, <2>2 DEF Begun
  <2> QED BY <2>1, <2>2
<1>3. f = [b EXCEPT !.sets = Append(@, m)]
  BY DEF WithIds
<1> HIDE DEF b, f, m
<1>4. /\ IsRecord(f) /\ f.req = b.req /\ f.todo = b.todo /\ f.outcome = b.outcome
      /\ f.intact = b.intact /\ f.sets = Append(b.sets, m) /\ f.semantic = b.semantic
      /\ f.first = b.first /\ f.lexical = b.lexical /\ f.fused = b.fused
  BY <1>2, <1>3 DEF IsRecord, Fields
<1>5. ~At(r, "vectors") /\ ~At(r, "text") /\ ~At(r, "fuse")
  BY DEF At
<1> QED
  BY <1>2, <1>4, <1>5 DEF Finds, f, m

\* A request ends: with an answer only after its last step has found something.
Ends(r, o) ==
  /\ query' = [query EXCEPT ![r] = Closed(o)] /\ o \in Results
  /\ Running(r) /\ o = "ok" => Len(query[r].todo) = 1 /\ \E f : Finds(r, f)

\* A request is accepted, a search as intact only where the table is settled.
Starts(r, q, b) ==
  /\ ~Running(r) /\ role[ReaderOf[r]] \in {"reader", "writer"}
  /\ b /\ q.op \in SearchOps => Settled(q.table)
  /\ query' = [query EXCEPT ![r] = Accepted(q, b)]

\* A request goes on to its next step.
GoesOn(r, f) ==
  /\ Running(r) /\ Finds(r, f) /\ Len(f.todo) # 1
  /\ query' = [query EXCEPT ![r] = [f EXCEPT !.todo = Tail(@)]]

\* One of these three is what a reader's step does to its request.
LEMMA ReaderShape ==
  ASSUME ShapeInv, NEW r \in Readers, ReaderStep(r)
  PROVE  \/ \E o : Ends(r, o)
         \/ \E q \in Requests, b \in BOOLEAN : Starts(r, q, b)
         \/ \E f : GoesOn(r, f)
<1> DEFINE q == query[r]
           tb == q.req.table
           Goal == \/ \E o : Ends(r, o)
                   \/ \E x \in Requests, b \in BOOLEAN : Starts(r, x, b)
                   \/ \E f : GoesOn(r, f)
<1>0. Shaped(q) /\ IsRecord(q)
  BY DEF ShapeInv, Shaped
<1>1. ASSUME Broken(r) PROVE Goal
  <2>1. Ends(r, "failed")
    BY <1>1 DEF Broken, Ends, Closed, Results
  <2> QED BY <2>1
<1>2. ASSUME NEW f, Running(r), Finds(r, f), Proceed(r, f) PROVE Goal
  <2>1. CASE Len(f.todo) = 1
    <3>1. Ends(r, "ok")
      BY <1>2, <2>1 DEF Proceed, Ends, Finds, Closed, Results
    <3> QED BY <3>1
  <2>2. CASE Len(f.todo) # 1
    <3>1. GoesOn(r, f)
      BY <1>2, <2>2 DEF Proceed, GoesOn
    <3> QED BY <3>1
  <2> QED BY <2>1, <2>2
<1>3. ASSUME ~At(r, "ids"), ~At(r, "vectors"), ~At(r, "text"), ~At(r, "fuse")
      PROVE  Finds(r, q)
  BY <1>0, <1>3 DEF Finds
<1>4. ASSUME NEW x \in Requests, Ask(r, x) PROVE Goal
  <2> DEFINE b == x.op \in SearchOps => Settled(x.table)
  <2>1. b \in BOOLEAN /\ ~Running(r)
    BY <1>4 DEF Ask
  <2>2. CASE Refused(ReaderOf[r], x)
    <3>1. Ends(r, "refused")
      BY <1>4, <2>1, <2>2 DEF Ask, Ends, Closed, Results
    <3> QED BY <3>1
  <2>3. CASE ~Refused(ReaderOf[r], x)
    <3>1. Starts(r, x, b)
      BY <1>4, <2>3 DEF Ask, Starts, Accepted
    <3> HIDE DEF b
    <3> QED BY <2>1, <3>1
  <2> QED BY <2>2, <2>3
<1>5. ASSUME NEW x \in Requests, EmbedQueryFails(r, x) PROVE Goal
  BY <1>1, <1>5 DEF EmbedQueryFails, Broken
<1>6. CASE ReadIds(r)
  <2>1. At(r, "ids") /\ Running(r)
    BY <1>6 DEF ReadIds, At
  <2>2. CASE Exists(tb) /\ Proceed(r, WithIds(q))
    <3>1. Finds(r, WithIds(q))
      BY <1>0, <2>1, <2>2, WithIdsFinds
    <3> QED BY <1>2, <2>1, <2>2, <3>1
  <2> QED BY <1>1, <1>6, <2>2 DEF ReadIds
<1>7. CASE Analyse(r) \/ RecordRead(r) \/ RecordReadFails(r) \/ IndexTable(r) \/ IndexVectors(r)
  <2>1. Running(r) /\ ~At(r, "ids") /\ ~At(r, "vectors") /\ ~At(r, "text") /\ ~At(r, "fuse")
    BY <1>7 DEF Analyse, RecordRead, RecordReadFails, IndexTable, IndexVectors, At
  <2>2. Broken(r) \/ Proceed(r, q)
    BY <1>7 DEF Analyse, RecordRead, RecordReadFails, IndexTable, IndexVectors
  <2> QED BY <1>1, <1>2, <1>3, <2>1, <2>2
<1>8. CASE Candidates(r)
  <2>1. /\ Running(r) /\ ~At(r, "ids") /\ ~At(r, "vectors") /\ At(r, "candidates")
        /\ ~At(r, "text") /\ ~At(r, "fuse")
    BY <1>8 DEF Candidates, At
  <2>2. PICK rows : Proceed(r, [q EXCEPT !.sets = Append(@, rows)])
    BY <1>8 DEF Candidates
  <2> DEFINE f == [q EXCEPT !.sets = Append(@, rows)]
  <2>3. Finds(r, f)
    <3>1. /\ IsRecord(f) /\ f.req = q.req /\ f.todo = q.todo /\ f.outcome = q.outcome
          /\ f.intact = q.intact /\ f.first = q.first /\ f.semantic = q.semantic
          /\ f.lexical = q.lexical /\ f.fused = q.fused
      <4> HIDE DEF q
      <4> QED BY <1>0 DEF IsRecord, Fields
    <3> QED BY <2>1, <3>1 DEF Finds
  <2> QED BY <1>2, <2>1, <2>2, <2>3
<1>9. CASE SearchVectors(r)
  <2>1. Running(r) /\ ~At(r, "ids") /\ At(r, "vectors") /\ ~At(r, "text") /\ ~At(r, "fuse")
    BY <1>9 DEF SearchVectors, At
  <2>2. CASE \E found \in Nearest(tb, Breadth(q.req)) :
               Proceed(r, [q EXCEPT !.semantic = found])
    <3>1. PICK found \in Nearest(tb, Breadth(q.req)) :
            Proceed(r, [q EXCEPT !.semantic = found])
      BY <2>2
    <3> DEFINE f == [q EXCEPT !.semantic = found]
    <3>2. /\ IsRecord(f) /\ f.req = q.req /\ f.todo = q.todo /\ f.outcome = q.outcome
          /\ f.intact = q.intact /\ f.first = q.first /\ f.sets = q.sets /\ f.semantic = found
          /\ f.lexical = q.lexical /\ f.fused = q.fused
      <4> HIDE DEF q
      <4> QED BY <1>0 DEF IsRecord, Fields
    <3>3. Finds(r, f)
      BY <2>1, <3>1, <3>2 DEF Finds
    <3> QED BY <1>2, <2>1, <3>1, <3>3
  <2> QED BY <1>1, <1>9, <2>2 DEF SearchVectors
<1>10. CASE SearchText(r)
  <2> DEFINE matches == Orders(Matching(tables[tb], q.req.where[1]), Breadth(q.req))
  <2>1. Running(r) /\ ~At(r, "ids") /\ ~At(r, "vectors") /\ At(r, "text") /\ ~At(r, "fuse")
    BY <1>10 DEF SearchText, At
  <2>2. CASE \E found \in matches : Proceed(r, [q EXCEPT !.lexical = found])
    <3>1. PICK found \in matches : Proceed(r, [q EXCEPT !.lexical = found])
      BY <2>2
    <3> DEFINE f == [q EXCEPT !.lexical = found]
    <3>2. /\ IsRecord(f) /\ f.req = q.req /\ f.todo = q.todo /\ f.outcome = q.outcome
          /\ f.intact = q.intact /\ f.first = q.first /\ f.sets = q.sets
          /\ f.semantic = q.semantic /\ f.lexical = found /\ f.fused = q.fused
      <4> HIDE DEF q
      <4> QED BY <1>0 DEF IsRecord, Fields
    <3>3. Finds(r, f)
      BY <2>1, <3>1, <3>2 DEF Finds
    <3> QED BY <1>2, <2>1, <3>1, <3>3
  <2> QED BY <1>1, <1>10, <2>2 DEF SearchText
<1>11. CASE FuseBoth(r)
  <2> DEFINE found == Fuse(RowsOf(q.semantic), q.lexical, Cardinality(DOMAIN Live(tb)),
                           q.req.limit)
             f == [q EXCEPT !.fused = found]
  <2>1. Running(r) /\ ~At(r, "ids") /\ ~At(r, "vectors") /\ ~At(r, "text") /\ At(r, "fuse")
    BY <1>11 DEF FuseBoth, At
  <2>2. Broken(r) \/ Proceed(r, f)
    BY <1>11 DEF FuseBoth
  <2>3. Finds(r, f)
    <3>1. /\ IsRecord(f) /\ f.req = q.req /\ f.todo = q.todo /\ f.outcome = q.outcome
          /\ f.intact = q.intact /\ f.first = q.first /\ f.sets = q.sets
          /\ f.semantic = q.semantic /\ f.lexical = q.lexical /\ f.fused = found
      <4> HIDE DEF q, found
      <4> QED BY <1>0 DEF IsRecord, Fields
    <3> QED BY <2>1, <3>1 DEF Finds
  <2> QED BY <1>1, <1>2, <2>1, <2>2, <2>3
<1> QED
  BY <1>4, <1>5, <1>6, <1>7, <1>8, <1>9, <1>10, <1>11 DEF ReaderStep, QueryStep

\* The version of a table and of its vectors stands, and so does the index.
Stands(tb) ==
  /\ tables'[tb] = tables[tb] /\ companion'[tb] = companion[tb]
  /\ tb \in vectorIndex => tb \in vectorIndex'

\* The four things a step may do to one request.  It leaves the request where it
\* is, intact only if its table has not gone and, for a search, stands;
Kept(r) ==
  LET q == query[r]
      n == query'[r] IN
  /\ n.req = q.req /\ n.todo = q.todo /\ n.outcome = q.outcome /\ n.sets = q.sets
  /\ n.semantic = q.semantic /\ n.first = q.first
  /\ n.lexical = q.lexical /\ n.fused = q.fused
  /\ n.intact /\ Running(r) =>
       /\ q.intact /\ q.req.table \notin Gone
       /\ q.req.op \in SearchOps => Stands(q.req.table)

\* it ends it, with an answer only after its last step;
Ended(r) ==
  /\ query'[r].todo = <<>> /\ query'[r].req = None /\ query'[r].outcome \in Results
  /\ FoundNothing(query'[r])
  /\ Running(r) /\ query'[r].outcome = "ok" =>
       Len(query[r].todo) = 1 /\ \E f : Finds(r, f)

\* it accepts it;
Started(r) ==
  LET n == query'[r] IN
  /\ ~Running(r) /\ n.req \in Requests /\ n.todo = Plan(n.req)
  /\ role[ReaderOf[r]] \in {"reader", "writer"}
  /\ n.outcome = "none" /\ FoundNothing(n)
  /\ n.intact /\ n.req.op \in SearchOps => Settled(n.req.table)

\* or it lets it go on to its next step.
WentOn(r) ==
  LET q == query[r]
      n == query'[r] IN
  /\ Running(r)
  /\ \E f :
       /\ Finds(r, f) /\ Len(f.todo) # 1
       /\ n.req = f.req /\ n.todo = Tail(f.todo) /\ n.outcome = f.outcome
       /\ n.sets = f.sets /\ n.semantic = f.semantic /\ n.first = f.first
       /\ n.intact = f.intact /\ n.lexical = f.lexical /\ n.fused = f.fused

\* What a reader's step does to any request: its own goes on, another's stays.
LEMMA ReaderRequest ==
  ASSUME ShapeInv, NEW s \in Readers, ReaderStep(s), NEW r \in Readers
  PROVE  /\ DOMAIN query' = Readers /\ Shaped(query'[r])
         /\ Kept(r) \/ Ended(r) \/ Started(r) \/ WentOn(r)
<1>0. DOMAIN query = Readers /\ Shaped(query[r])
  BY DEF ShapeInv
<1>t. Gone = {} /\ \A tb : Stands(tb)
  BY ReaderLeavesStore DEF StillStore, Gone, Exists, Stands
<1>1. ASSUME r # s, DOMAIN query' = Readers, query'[r] = query[r]
      PROVE  Shaped(query'[r]) /\ Kept(r)
  BY <1>0, <1>1, <1>t DEF Kept
<1>2. ASSUME NEW o, Ends(s, o)
      PROVE  DOMAIN query' = Readers /\ Shaped(query'[r]) /\ (Kept(r) \/ Ended(r))
  <2>1. DOMAIN query' = Readers /\ (r # s => query'[r] = query[r])
        /\ (r = s => query'[r] = Closed(o))
    BY <1>0, <1>2 DEF Ends
  <2>2. CASE r = s
    <3>1. query'[r] = Closed(o)
      BY <2>1, <2>2
    <3>2. /\ Shaped(query'[r]) /\ query'[r].todo = <<>> /\ query'[r].outcome = o
          /\ query'[r].req = None /\ FoundNothing(query'[r])
      BY ONLY <3>1, RestingShape
    <3> QED BY <1>2, <2>1, <2>2, <3>2 DEF Ended, Ends
  <2> QED BY <1>1, <2>1, <2>2
<1>3. ASSUME NEW q \in Requests, NEW b \in BOOLEAN, Starts(s, q, b)
      PROVE  DOMAIN query' = Readers /\ Shaped(query'[r]) /\ (Kept(r) \/ Started(r))
  <2>1. DOMAIN query' = Readers /\ (r # s => query'[r] = query[r])
        /\ (r = s => query'[r] = Accepted(q, b))
    BY <1>0, <1>3 DEF Starts
  <2>2. CASE r = s
    <3> DEFINE e == query'[r]
    <3>1. /\ q \in Requests /\ b \in BOOLEAN
          /\ e = Accepted(q, b)
      BY <1>3, <2>1, <2>2
    <3> HIDE DEF e
    <3>2. /\ Shaped(e) /\ e.req = q /\ e.todo = Plan(q) /\ FoundNothing(e)
          /\ e.outcome = "none" /\ e.intact = b
      BY ONLY <3>1, AskedShape
    <3> QED BY <1>3, <2>1, <2>2, <3>2 DEF Started, Starts, e
  <2> QED BY <1>1, <2>1, <2>2
<1>4. ASSUME NEW f, GoesOn(s, f)
      PROVE  DOMAIN query' = Readers /\ Shaped(query'[r]) /\ (Kept(r) \/ WentOn(r))
  <2>1. DOMAIN query' = Readers /\ (r # s => query'[r] = query[r])
        /\ (r = s => query'[r] = [f EXCEPT !.todo = Tail(@)])
    BY <1>0, <1>4 DEF GoesOn
  <2>2. CASE r = s
    <3> DEFINE e == query'[r]
               tail == Tail(f.todo)
    <3>1. e = [f EXCEPT !.todo = tail] /\ IsRecord(f)
      BY <1>4, <2>1, <2>2 DEF GoesOn, Finds
    <3>2. /\ f.todo \in Seq(Steps) /\ f.todo # <<>> /\ f.intact \in BOOLEAN
          /\ f.req \in Requests /\ f.outcome = "none"
      BY <1>0, <1>4, <2>2 DEF GoesOn, Finds, Shaped, Running
    <3>3. tail \in Seq(Steps)
      BY <3>2
    <3> HIDE DEF e, tail
    <3>4. /\ IsRecord(e) /\ e.req = f.req /\ e.todo = tail /\ e.outcome = f.outcome
          /\ e.sets = f.sets /\ e.semantic = f.semantic /\ e.first = f.first
          /\ e.intact = f.intact /\ e.lexical = f.lexical /\ e.fused = f.fused
      BY <3>1 DEF IsRecord, Fields
    <3>5. Shaped(e)
      BY <3>2, <3>3, <3>4 DEF Shaped
    <3> QED BY <1>4, <2>1, <2>2, <3>4, <3>5 DEF WentOn, GoesOn, e, tail
  <2> QED BY <1>1, <2>1, <2>2
<1> QED
  BY <1>2, <1>3, <1>4, ReaderShape

\* A table that a call neither changes nor writes the vectors of stands.
LEMMA ChangedStands ==
  ASSUME TypeOK, CallInv, Next, Follow, NEW tb \in Tables, tb \notin Changed
  PROVE  Stands(tb)
<1>1. tables'[tb] = tables[tb]
  BY DEF Changed
<1>2. tb \in vectorIndex => tb \in vectorIndex'
  BY DEF Follow, IndexesGo, Changed
<1>3. companion'[tb] = companion[tb]
  <2>1. ASSUME NEW t \in Tasks, Overwrite(t) PROVE companion'[tb] = companion[tb]
    <3>1. CASE UNCHANGED companion
      BY <3>1
    <3>2. CASE companion' = [companion EXCEPT ![call[t].table] = Holding(gathered[t])]
                 /\ Succeed(t) /\ pc[t] = "overwrite"
      <4>1. outcome'[t] = "ok"
        BY <3>2 DEF Succeed, Return, TypeOK
      <4>2. call[t].table # tb
        BY <3>2, <4>1 DEF Changed, Rewritten
      <4> QED BY <3>2, <4>2 DEF TypeOK
    <3> QED BY <2>1, <3>1, <3>2 DEF Overwrite
  <2>2. ASSUME NEW t \in Tasks, CallStep(t), ~Overwrite(t) PROVE UNCHANGED companion
    BY <2>2 DEF CallStep, Step, Announce, Change, Record, Remove, ReadVectors, Gather,
                RecordFails, EmbedFails, data
  <2>3. ASSUME NEW h \in Handles, OpenForWriting(h) \/ OpenForReading(h) \/ Close(h) \/ Crash(h)
        PROVE  UNCHANGED companion
    BY <2>3 DEF OpenForWriting, OpenForReading, Close, Crash, data
  <2>4. ASSUME NEW t \in Tasks, NEW c \in Calls, Begin(t, c) PROVE UNCHANGED companion
    BY <2>4 DEF Begin, data
  <2> QED
    BY <2>1, <2>2, <2>3, <2>4 DEF Next, CallStep
<1> QED
  BY <1>1, <1>2, <1>3 DEF Stands

\* The same of every step there is, those of writes and handles included.
LEMMA RequestStep ==
  ASSUME TypeOK, CallInv, ShapeInv, [QueryNext]_queryVars, NEW r \in Readers
  PROVE  /\ DOMAIN query' = Readers /\ Shaped(query'[r])
         /\ \/ Kept(r)
            \/ /\ StillStore /\ UNCHANGED dropped /\ vectorIndex \subseteq vectorIndex'
               /\ Started(r) \/ WentOn(r)
            \/ Ended(r)
<1> DEFINE q == query[r]
<1>0. DOMAIN query = Readers /\ Shaped(q) /\ IsRecord(q)
  BY DEF ShapeInv, Shaped
<1>1. ASSUME UNCHANGED <<tables, companion, vectorIndex>>,
             DOMAIN query' = Readers, query'[r] = query[r]
      PROVE  Shaped(query'[r]) /\ Kept(r)
  BY <1>0, <1>1 DEF Kept, Gone, Exists, Stands
<1>2. CASE Next /\ Follow
  <2>1. DOMAIN query' = Readers
    BY <1>2 DEF Follow
  <2>2. CASE ~Running(r)
    BY <1>0, <1>2, <2>1, <2>2 DEF Follow, Kept
  <2>3. CASE Running(r)
    <3> DEFINE b == q.intact /\ q.req.table \notin
                      (IF q.req.op \in SearchOps THEN Changed ELSE Gone)
               e == query'[r]
    <3>1. e = [q EXCEPT !.intact = b] /\ b \in BOOLEAN
      BY <1>2, <2>3 DEF Follow
    <3>2. b => /\ q.intact /\ q.req.table \notin Gone
               /\ q.req.op \in SearchOps => Stands(q.req.table)
      <4>1. q.req.table \in Tables
        BY <1>0, <2>3, QueryAssumption DEF Shaped, Running, IsRequest
      <4>2. q.req.table \notin Changed => Stands(q.req.table)
        BY <1>2, <4>1, ChangedStands
      <4> QED BY <4>2 DEF Changed, Gone, Exists
    <3> HIDE DEF e, b, q
    <3>3. /\ IsRecord(e) /\ e.req = q.req /\ e.todo = q.todo /\ e.outcome = q.outcome
          /\ e.sets = q.sets /\ e.semantic = q.semantic /\ e.first = q.first /\ e.intact = b
          /\ e.lexical = q.lexical /\ e.fused = q.fused
      BY <1>0, <3>1 DEF IsRecord, Fields
    <3>4. Shaped(e)
      BY <1>0, <3>1, <3>3 DEF Shaped
    <3> QED BY <2>1, <3>2, <3>3, <3>4 DEF Kept, e, q
  <2> QED BY <2>2, <2>3
<1>3. CASE \E h \in Handles : HandleStep(h)
  <2>1. PICK h \in Handles : HandleStep(h)
    BY <1>3
  <2>2. UNCHANGED <<tables, companion, vectorIndex>>
    BY <2>1, HandleShape DEF data, indexes
  <2>3. /\ DOMAIN query' = Readers
        /\ query'[r] = query[r] \/ query'[r] = Resting
    BY <2>1, <1>0, HandleShape
  <2>4. CASE query'[r] = Resting
    <3>1. query'[r] = Closed("none")
      BY <2>4, RestingItself
    <3>2. /\ Shaped(query'[r]) /\ query'[r].todo = <<>> /\ query'[r].outcome = "none"
          /\ query'[r].req = None /\ FoundNothing(query'[r])
      BY <3>1, RestingShape
    <3> QED BY <2>2, <2>3, <3>2 DEF Ended, Results
  <2> QED
    BY <1>1, <2>2, <2>3, <2>4
<1>4. CASE \E s \in Readers : ReaderStep(s)
  BY <1>4, ReaderRequest, ReaderLeavesStore DEF StillStore
<1>5. CASE UNCHANGED queryVars
  BY <1>0, <1>1, <1>5 DEF queryVars, vars, data, reading, indexes
<1> QED
  BY <1>2, <1>3, <1>4, <1>5, QueryCases

\* Types, calls and the shape of the requests.
BaseInv == TypeOK /\ CallInv /\ ShapeInv

LEMMA BaseInit == QueryInit => BaseInv
<1> SUFFICES ASSUME QueryInit PROVE BaseInv
  OBVIOUS
<1>1. TypeOK /\ CallInv
  BY TypeInit DEF QueryInit
<1>2. ASSUME NEW r \in Readers PROVE Shaped(query[r])
  <2>1. query[r] = Closed("none")
    BY RestingItself DEF QueryInit
  <2> QED BY <2>1, RestingShape
<1> QED
  BY <1>1, <1>2 DEF BaseInv, ShapeInv, QueryInit

LEMMA BaseStep == BaseInv /\ [QueryNext]_queryVars => BaseInv'
<1> SUFFICES ASSUME BaseInv, [QueryNext]_queryVars PROVE BaseInv'
  OBVIOUS
<1>1. TypeOK' /\ CallInv'
  BY StoreTypeStep DEF BaseInv
<1>2. ASSUME NEW r \in Readers PROVE Shaped(query'[r])
  BY RequestStep DEF BaseInv
<1>3. DOMAIN query' = Readers
  <2>1. CASE Readers = {}
    <3>1. (Next /\ Follow) \/ UNCHANGED query
      BY <2>1, QueryCases, HandleShape DEF queryVars, reading, BaseInv, ShapeInv
    <3> QED BY <3>1 DEF Follow, BaseInv, ShapeInv
  <2>2. CASE Readers # {}
    BY <2>2, RequestStep DEF BaseInv
  <2> QED BY <2>1, <2>2
<1> QED
  BY <1>1, <1>2, <1>3 DEF BaseInv, ShapeInv, Shaped, IsRecord

-----------------------------------------------------------------------------
(* Hits are true. *)

\* A hit names a row that was given out, and if it is live, for its text.
TrueHit(tb, hit) ==
  /\ hit[1] \in Nat /\ hit[1] < tables[tb].next
  /\ hit[1] \in DOMAIN Live(tb) => hit[2] = Live(tb)[hit[1]]

\* Until a table is dropped its vectors are true, and so are the hits of every
\* search that is under way in it.
TrueInv == \A tb \in Tables \ dropped : TrueAt(tb)

HitsInv ==
  \A r \in Readers :
    Running(r) /\ query[r].req.table \notin dropped =>
      \A p \in DOMAIN query[r].semantic : TrueHit(query[r].req.table, query[r].semantic[p])

\* What a search returns is one of the vectors there are.
LEMMA NearestTrue ==
  ASSUME TypeOK, NEW tb \in Tables, TrueOf(tb, Vectors(tb)), NEW n,
         NEW found \in Nearest(tb, n)
  PROVE  \A p \in DOMAIN found : TrueHit(tb, found[p])
<1> DEFINE v == Vectors(tb)
<1>1. ASSUME NEW m, NEW s \in Orders(Chunks(tb), m), NEW p \in DOMAIN s
      PROVE  s[p][1] \in DOMAIN v
  <2>1. s[p] \in Chunks(tb)
    BY <1>1 DEF Orders
  <2>2. PICK i \in DOMAIN v : s[p] \in {i} \X (1..ChunksOf[v[i]])
    BY <2>1 DEF Chunks
  <2> QED BY <2>2
<1>2. PICK m, s : /\ s \in Orders(Chunks(tb), m)
                  /\ found = [p \in DOMAIN s |-> <<s[p][1], v[s[p][1]]>>]
  BY DEF Nearest
<1>3. ASSUME NEW p \in DOMAIN found PROVE TrueHit(tb, found[p])
  <2>1. s[p][1] \in DOMAIN v
    BY <1>1, <1>2, <1>3
  <2>2. found[p][1] = s[p][1] /\ found[p][2] = v[s[p][1]]
    BY <1>2, <1>3
  <2>3. DOMAIN v \subseteq Nat
    BY DEF TypeOK, IsVectors
  <2> QED BY <2>1, <2>2, <2>3 DEF TrueHit, TrueOf
<1> QED
  BY <1>3

LEMMA TrueInit == QueryInit => TrueInv /\ HitsInv
<1> SUFFICES ASSUME QueryInit PROVE TrueInv /\ HitsInv
  OBVIOUS
<1>1. TrueInv
  BY FreshType DEF QueryInit, Init, TrueInv, TrueAt, TrueOf, Vectors, NoTable, NoRows
<1>2. Resting.todo = <<>>
  BY DEF Resting
<1> QED
  BY <1>1, <1>2 DEF QueryInit, HitsInv, Running

LEMMA TrueStep ==
  BaseInv /\ BaseInv' /\ TrueInv /\ [QueryNext]_queryVars => TrueInv'
<1> SUFFICES ASSUME BaseInv, BaseInv', TrueInv, [QueryNext]_queryVars,
                    NEW tb \in Tables, tb \notin dropped'
             PROVE  TrueAt(tb)'
  BY DEF TrueInv
<1>1. /\ tb \notin dropped /\ (~Exists(tb) \/ tables'[tb].there)
  BY QueryTableStep DEF BaseInv
<1>2. TrueAt(tb)
  BY <1>1 DEF TrueInv
<1>3. CASE [Next]_vars
  BY <1>1, <1>2, <1>3, TrueAtStep DEF BaseInv
<1>4. CASE StillStore
  BY <1>2, <1>4 DEF StillStore, TrueAt, TrueOf, Vectors, Live
<1> QED
  BY <1>3, <1>4, StoreCases

LEMMA HitsStep ==
  BaseInv /\ BaseInv' /\ TrueInv /\ HitsInv /\ [QueryNext]_queryVars => HitsInv'
<1> SUFFICES ASSUME BaseInv, BaseInv', TrueInv, HitsInv, [QueryNext]_queryVars,
                    NEW r \in Readers, Running(r)', query'[r].req.table \notin dropped',
                    NEW p \in DOMAIN query'[r].semantic
             PROVE  TrueHit(query[r].req.table, query[r].semantic[p])'
  BY DEF HitsInv
<1> DEFINE tb == query'[r].req.table
           hit == query'[r].semantic[p]
<1>1. tb \in Tables /\ Shaped(query[r])
  BY QueryAssumption DEF BaseInv, ShapeInv, Shaped, Running, IsRequest
<1>2. /\ tb \notin dropped /\ Grows(tables[tb], tables'[tb])
  BY <1>1, QueryTableStep DEF BaseInv
<1>3. ASSUME TrueHit(tb, hit) PROVE TrueHit(query[r].req.table, query[r].semantic[p])'
  <2>1. IsDataset(tables[tb]) /\ IsDataset(tables'[tb])
    BY <1>1 DEF BaseInv, TypeOK
  <2> HIDE DEF tb, hit
  <2>2. /\ hit[1] < tables'[tb].next
        /\ hit[1] \in DOMAIN tables'[tb].rows => hit[2] = tables'[tb].rows[hit[1]]
    BY <1>2, <1>3, <2>1 DEF TrueHit, Grows, IsDataset, Live
  <2> QED BY <1>3, <2>2 DEF TrueHit, Live, tb, hit
<1>4. CASE Kept(r)
  <2>1. Running(r) /\ query[r].req.table = tb /\ query[r].semantic = query'[r].semantic
    BY <1>4 DEF Kept, Running
  <2> QED BY <1>2, <1>3, <2>1 DEF HitsInv
<1>5. CASE Ended(r)
  BY <1>5 DEF Ended, Running
<1>6. CASE Started(r)
  BY <1>6 DEF Started, FoundNothing
<1>7. CASE WentOn(r)
  <2>1. PICK f : /\ Finds(r, f) /\ query'[r].req = f.req /\ query'[r].semantic = f.semantic
    BY <1>7 DEF WentOn
  <2>2. query[r].req.table = tb /\ Running(r)
    BY <1>7, <2>1 DEF Finds, WentOn
  <2>3. CASE At(r, "vectors")
    <3>1. f.semantic \in Nearest(tb, Breadth(query[r].req))
      BY <2>1, <2>2, <2>3 DEF Finds
    <3>2. TrueOf(tb, Vectors(tb))
      BY <1>1, <1>2 DEF TrueInv, TrueAt
    <3>3. TrueHit(tb, hit)
      BY <1>1, <2>1, <3>1, <3>2, NearestTrue DEF BaseInv
    <3> QED BY <1>3, <3>3
  <2>4. CASE ~At(r, "vectors")
    <3>1. query'[r].semantic = query[r].semantic
      BY <2>1, <2>4 DEF Finds
    <3> QED BY <1>2, <1>3, <2>2, <3>1 DEF HitsInv
  <2> QED BY <2>3, <2>4
<1> QED
  BY <1>4, <1>5, <1>6, <1>7, RequestStep DEF BaseInv

\* However searches and writes overlap and writes are cut short, the vector by
\* which a search returns a row that is still live is one of that row's text,
\* until the table is dropped.
THEOREM FoundForItsText == QuerySpec => HitsAreTrue
<1>1. BaseInv /\ HitsInv /\ [QueryNext]_queryVars =>
        [\A r \in Readers :
           Answers(r, {"semantic_search", "hybrid_search"}) =>
             LET q == query[r]
                 tb == q.req.table
             IN tb \notin dropped =>
                  \A p \in DOMAIN q.semantic :
                    LET row == q.semantic[p][1]
                    IN row \in DOMAIN Live(tb) => q.semantic[p][2] = Live(tb)[row]]_queryVars
  BY DEF HitsInv, Answers, TrueHit
<1> QED
  BY <1>1, BaseInit, BaseStep, TrueInit, TrueStep, HitsStep, PTL DEF QuerySpec, HitsAreTrue

-----------------------------------------------------------------------------
(* One question. *)

\* What several reads have found, as the table d is now.  The rows of the first
\* read have their ids for good and, where they are live, their texts; no set
\* holds one of them against its predicate, and each holds all of them that
\* match it and are still live.
Reads(first, sets, where, d) ==
  /\ \A i \in DOMAIN first :
       i \in Nat /\ i < d.next /\ (i \in DOMAIN d.rows => d.rows[i] = first[i])
  /\ sets[1] \subseteq DOMAIN first
  /\ \A n \in 1..Len(sets) : \A i \in DOMAIN first :
       /\ i \in sets[n] => first[i] \in where[n]
       /\ i \in DOMAIN d.rows /\ first[i] \in where[n] => i \in sets[n]

Combining == {"row_ids_all", "row_ids_any"}

ReadsInv ==
  \A r \in Readers :
    LET q == query[r] IN
    Running(r) /\ q.req.op \in Combining =>
      /\ \A n \in 1..Len(q.todo) : q.todo[n] = "ids"
      /\ q.sets \in Seq(SUBSET Nat)
      /\ Len(q.sets) + Len(q.todo) = Len(q.req.where)
      /\ q.intact /\ q.sets # <<>> =>
           Reads(q.first, q.sets, q.req.where, tables[q.req.table])

\* Versions that grow from one another leave it so.
LEMMA ReadsGrow ==
  ASSUME NEW first, NEW sets, NEW where, NEW d, NEW e, IsDataset(d), IsDataset(e),
         Grows(d, e), Reads(first, sets, where, d)
  PROVE  Reads(first, sets, where, e)
<1>1. ASSUME NEW i \in DOMAIN first
      PROVE  /\ i \in Nat /\ i < e.next
             /\ i \in DOMAIN e.rows => i \in DOMAIN d.rows /\ e.rows[i] = first[i]
  BY <1>1 DEF Reads, Grows, IsDataset
<1> QED
  BY <1>1 DEF Reads

\* It is so after the first read,
LEMMA ReadsFirst ==
  ASSUME NEW d, IsDataset(d), NEW where
  PROVE  Reads(d.rows, <<Matching(d, where[1])>>, where, d)
<1> DEFINE m == Matching(d, where[1])
           sets == <<m>>
<1>1. Len(sets) = 1 /\ sets[1] = m
  OBVIOUS
<1>2. m = {i \in DOMAIN d.rows : d.rows[i] \in where[1]}
  BY DEF Matching
<1>3. \A i \in DOMAIN d.rows : i \in Nat /\ i < d.next
  BY DEF IsDataset
<1> HIDE DEF m, sets
<1>4. Reads(d.rows, sets, where, d)
  BY <1>1, <1>2, <1>3 DEF Reads
<1> QED
  BY <1>4 DEF sets, m

\* and after each one that follows.
LEMMA ReadsAdd ==
  ASSUME NEW first, NEW sets \in Seq(SUBSET Nat), NEW where, NEW d, IsDataset(d),
         sets # <<>>, Reads(first, sets, where, d)
  PROVE  Reads(first, Append(sets, Matching(d, where[Len(sets) + 1])), where, d)
<1> DEFINE k == Len(sets)
           m == Matching(d, where[k + 1])
           more == Append(sets, m)
<1>1. m \in SUBSET Nat /\ m = {i \in DOMAIN d.rows : d.rows[i] \in where[k + 1]}
  BY DEF Matching, IsDataset
<1>2. k \in Nat /\ k >= 1
  OBVIOUS
<1> HIDE DEF m
<1>3. Len(more) = k + 1 /\ more[k + 1] = m /\ \A n \in 1..k : more[n] = sets[n]
  BY <1>1
<1> HIDE DEF k, more
<1>4. \A n \in 1..Len(more) : n = k + 1 \/ n \in 1..k
  BY <1>2, <1>3
<1>5. more[1] = sets[1]
  BY <1>2, <1>3
<1>6. \A n \in 1..k : \A i \in DOMAIN first :
        /\ i \in more[n] => first[i] \in where[n]
        /\ i \in DOMAIN d.rows /\ first[i] \in where[n] => i \in more[n]
  BY <1>3 DEF Reads, k
<1>7. \A i \in DOMAIN first :
        /\ i \in more[k + 1] => first[i] \in where[k + 1]
        /\ i \in DOMAIN d.rows /\ first[i] \in where[k + 1] => i \in more[k + 1]
  BY <1>1, <1>3 DEF Reads
<1>8. Reads(first, more, where, d)
  BY <1>4, <1>5, <1>6, <1>7 DEF Reads
<1> QED
  BY <1>8 DEF more, m, k

\* When the last set has been read, the sets answer the question.
AnswersAt(first, sets, where, d) ==
  /\ IntersectAll(sets) =
       {i \in DOMAIN first : \A n \in DOMAIN where : first[i] \in where[n]} \cap DOMAIN d.rows
  /\ {i \in DOMAIN first : \E n \in DOMAIN where : first[i] \in where[n]} \cap DOMAIN d.rows
       \subseteq UnionAll(sets)
  /\ UnionAll(sets) \cap DOMAIN first
       \subseteq {i \in DOMAIN first : \E n \in DOMAIN where : first[i] \in where[n]}

\* When the last predicate has been read, this is the answer to one question.
LEMMA ReadsAnswer ==
  ASSUME NEW first, NEW sets \in Seq(SUBSET Nat), NEW where \in Seq(SUBSET Texts), NEW d,
         IsDataset(d), Reads(first, sets, where, d),
         sets # <<>>, Len(sets) = Len(where),
         sets[Len(where)] = Matching(d, where[Len(where)])
  PROVE  AnswersAt(first, sets, where, d)
<1> DEFINE k == Len(where)
<1>1. /\ k \in Nat /\ k >= 1 /\ Len(sets) = k /\ DOMAIN where = 1..k /\ DOMAIN sets = 1..k
  OBVIOUS
<1> HIDE DEF k
<1>2. \A i : i \in UnionAll(sets) <=> \E n \in 1..k : i \in sets[n]
  BY <1>1 DEF UnionAll, Members
<1>3. \A i : i \in IntersectAll(sets) <=> \A n \in 1..k : i \in sets[n]
  BY <1>1 DEF IntersectAll
<1>4. \A i \in sets[k] : i \in DOMAIN d.rows
  BY DEF Matching, k
<1>5. /\ sets[1] \subseteq DOMAIN first
      /\ \A n \in 1..k : \A i \in DOMAIN first :
           /\ i \in sets[n] => first[i] \in where[n]
           /\ i \in DOMAIN d.rows /\ first[i] \in where[n] => i \in sets[n]
  BY <1>1 DEF Reads
<1>6. 1 \in 1..k /\ k \in 1..k
  BY <1>1
<1> QED
  BY <1>1, <1>2, <1>3, <1>4, <1>5, <1>6, Zenon DEF AnswersAt

LEMMA ReadsInit == QueryInit => ReadsInv
<1>1. Resting.todo = <<>>
  BY DEF Resting
<1> QED
  BY <1>1 DEF QueryInit, ReadsInv, Running

\* The read of the next predicate, as the request has it before and after.
LEMMA NextRead ==
  ASSUME BaseInv, ReadsInv, NEW r \in Readers, Running(r), query[r].req.op \in Combining,
         NEW f, Finds(r, f)
  PROVE  /\ At(r, "ids") /\ f.sets \in Seq(SUBSET Nat)
         /\ Len(f.sets) = Len(query[r].sets) + 1
         /\ f.sets[Len(f.sets)] =
              Matching(tables[query[r].req.table], query[r].req.where[Len(f.sets)])
         /\ query[r].intact =>
              Reads(f.first, f.sets, query[r].req.where, tables[query[r].req.table])
<1> DEFINE q == query[r]
           where == q.req.where
           d == tables[q.req.table]
           k == Len(q.sets)
           m == Matching(d, where[k + 1])
<1>1. /\ q.todo \in Seq(Steps) /\ q.todo # <<>>
      /\ q.req \in Requests /\ q.req.table \in Tables
  BY QueryAssumption DEF BaseInv, ShapeInv, Shaped, Running, IsRequest
<1>2. IsDataset(d)
  BY <1>1 DEF BaseInv, TypeOK
<1>3. /\ \A n \in 1..Len(q.todo) : q.todo[n] = "ids"
      /\ q.sets \in Seq(SUBSET Nat)
      /\ q.intact /\ q.sets # <<>> => Reads(q.first, q.sets, where, d)
  BY DEF ReadsInv
<1>4. At(r, "ids")
  <2>1. Head(q.todo) = q.todo[1] /\ 1 \in 1..Len(q.todo)
    BY <1>1
  <2> QED BY <1>3, <2>1 DEF At
<1>5. f.sets = Append(q.sets, m) /\ f.first = IF q.sets = <<>> THEN d.rows ELSE q.first
  BY <1>4 DEF Finds, Asked, Live
<1>6. m \in SUBSET Nat
  <2>1. DOMAIN d.rows \subseteq Nat
    <3> HIDE DEF d
    <3> QED BY <1>2 DEF IsDataset, IsVectors
  <2>2. m \subseteq DOMAIN d.rows
    BY DEF Matching
  <2> HIDE DEF m, d
  <2> QED BY <2>1, <2>2
<1>7. f.sets \in Seq(SUBSET Nat) /\ Len(f.sets) = k + 1 /\ f.sets[k + 1] = m
  <2> HIDE DEF m, q
  <2> QED BY <1>3, <1>5, <1>6
<1>8. ASSUME q.intact PROVE Reads(f.first, f.sets, where, d)
  <2>1. CASE q.sets = <<>>
    <3>1. k = 0
      BY <2>1
    <3>2. f.sets = <<Matching(d, where[1])>>
      <4>1. m = Matching(d, where[1])
        BY <3>1
      <4> HIDE DEF m
      <4>2. Append(<<>>, m) = <<m>>
        OBVIOUS
      <4> QED BY <1>5, <2>1, <4>1, <4>2
    <3>3. Reads(d.rows, <<Matching(d, where[1])>>, where, d)
      BY <1>2, ReadsFirst
    <3> QED BY <1>5, <2>1, <3>2, <3>3
  <2>2. CASE q.sets # <<>>
    <3>1. Reads(q.first, q.sets, where, d)
      BY <1>3, <1>8, <2>2
    <3>2. Reads(q.first, Append(q.sets, m), where, d)
      BY <1>2, <1>3, <2>2, <3>1, ReadsAdd
    <3> QED BY <1>5, <2>2, <3>2
  <2> QED BY <2>1, <2>2
<1> QED
  BY <1>4, <1>7, <1>8

LEMMA ReadsStep ==
  BaseInv /\ BaseInv' /\ ReadsInv /\ [QueryNext]_queryVars => ReadsInv'
<1> SUFFICES ASSUME BaseInv, BaseInv', ReadsInv, [QueryNext]_queryVars, NEW r \in Readers,
                    Running(r)', query'[r].req.op \in Combining
             PROVE  LET n == query'[r] IN
                    /\ \A i \in 1..Len(n.todo) : n.todo[i] = "ids"
                    /\ n.sets \in Seq(SUBSET Nat)
                    /\ Len(n.sets) + Len(n.todo) = Len(n.req.where)
                    /\ n.intact /\ n.sets # <<>> =>
                         Reads(n.first, n.sets, n.req.where, tables'[n.req.table])
  BY DEF ReadsInv
<1> DEFINE q == query[r]
           n == query'[r]
           tb == n.req.table
<1>1. n.req \in Requests /\ tb \in Tables /\ n.req.where \in Seq(SUBSET Texts) /\ Shaped(q)
  BY QueryAssumption DEF BaseInv, ShapeInv, Shaped, Running, IsRequest
<1>2. IsDataset(tables[tb]) /\ IsDataset(tables'[tb])
  BY <1>1 DEF BaseInv, TypeOK
<1>3. CASE Kept(r)
  <2>1. Running(r) /\ q.req = n.req /\ q.todo = n.todo /\ q.sets = n.sets /\ q.first = n.first
    BY <1>3 DEF Kept, Running
  <2>2. /\ \A i \in 1..Len(n.todo) : n.todo[i] = "ids"
        /\ n.sets \in Seq(SUBSET Nat)
        /\ Len(n.sets) + Len(n.todo) = Len(n.req.where)
        /\ q.intact /\ n.sets # <<>> => Reads(n.first, n.sets, n.req.where, tables[tb])
    BY <2>1 DEF ReadsInv
  <2>3. ASSUME n.intact, n.sets # <<>>
        PROVE  Reads(n.first, n.sets, n.req.where, tables'[tb])
    <3>1. q.intact /\ tb \notin Gone
      BY <1>3, <2>1, <2>3 DEF Kept
    <3>2. Grows(tables[tb], tables'[tb])
      BY <1>1, <3>1, QueryTableStep DEF BaseInv
    <3>3. Reads(n.first, n.sets, n.req.where, tables[tb])
      BY <2>2, <2>3, <3>1
    <3> HIDE DEF n, tb
    <3> QED BY <1>2, <3>2, <3>3, ReadsGrow
  <2> QED BY <2>2, <2>3
<1>4. CASE Ended(r)
  BY <1>4 DEF Ended, Running
<1>5. CASE Started(r)
  <2>1. n.todo = [i \in 1..Len(n.req.where) |-> "ids"] /\ n.sets = <<>>
    BY <1>5 DEF Started, Plan, Combining, FoundNothing
  <2>2. n.sets \in Seq(SUBSET Nat) /\ Len(n.sets) = 0
    BY <2>1
  <2> DEFINE k == Len(n.req.where)
  <2>3. k \in Nat
    BY <1>1
  <2>4. Len(n.todo) = k /\ \A i \in 1..k : n.todo[i] = "ids"
    <3>1. n.todo = [i \in 1..k |-> "ids"]
      BY <2>1
    <3> HIDE DEF k, n
    <3> QED BY <2>3, <3>1
  <2> QED BY <2>1, <2>2, <2>3, <2>4
<1>6. CASE WentOn(r) /\ StillStore
  <2>1. PICK f : /\ Finds(r, f) /\ n.req = f.req /\ n.todo = Tail(f.todo)
                 /\ n.sets = f.sets /\ n.first = f.first /\ n.intact = f.intact
    BY <1>6 DEF WentOn
  <2>2. /\ Running(r) /\ q.req = n.req /\ n.todo = Tail(q.todo) /\ n.intact = q.intact
    BY <1>6, <2>1 DEF WentOn, Finds
  <2>3. /\ f.sets \in Seq(SUBSET Nat) /\ Len(f.sets) = Len(q.sets) + 1
        /\ q.intact => Reads(f.first, f.sets, n.req.where, tables[tb])
    BY <2>1, <2>2, NextRead
  <2>4. /\ \A i \in 1..Len(q.todo) : q.todo[i] = "ids"
        /\ Len(q.sets) + Len(q.todo) = Len(n.req.where)
        /\ q.sets \in Seq(SUBSET Nat)
    BY <2>2 DEF ReadsInv
  <2>5. q.todo \in Seq(Steps) /\ q.todo # <<>>
    BY <1>1, <2>2 DEF Shaped, Running
  <2>6. /\ Len(n.todo) = Len(q.todo) - 1 /\ Len(q.todo) \in Nat
        /\ \A i \in 1..Len(n.todo) : n.todo[i] = q.todo[i + 1]
    <3> DEFINE todo == q.todo
               tail == n.todo
    <3>1. todo \in Seq(Steps) /\ todo # <<>> /\ tail = Tail(todo)
      BY <2>2, <2>5
    <3> HIDE DEF todo, tail
    <3>2. /\ Len(tail) = Len(todo) - 1 /\ Len(todo) \in Nat
          /\ \A i \in 1..Len(tail) : tail[i] = todo[i + 1]
      BY <3>1
    <3> QED BY <3>2 DEF todo, tail
  <2>7. /\ \A i \in 1..Len(n.todo) : n.todo[i] = "ids"
        /\ Len(n.sets) + Len(n.todo) = Len(n.req.where)
    <3>1. Len(q.sets) \in Nat /\ Len(n.sets) = Len(q.sets) + 1
      BY <2>1, <2>3, <2>4
    <3>2. Len(n.sets) + Len(n.todo) = Len(n.req.where)
      <4> DEFINE had == Len(q.sets)
                 has == Len(n.sets)
                 left == Len(q.todo)
                 leaves == Len(n.todo)
                 all == Len(n.req.where)
      <4>1. had \in Nat /\ has = had + 1 /\ left \in Nat /\ leaves = left - 1 /\ had + left = all
        BY <2>4, <2>6, <3>1
      <4> HIDE DEF had, has, left, leaves, all
      <4>2. has + leaves = all
        BY <4>1
      <4> QED BY <4>2 DEF has, leaves, all
    <3>3. \A i \in 1..Len(n.todo) : i + 1 \in 1..Len(q.todo)
      BY <2>6
    <3>4. \A i \in 1..Len(n.todo) : n.todo[i] = "ids"
      BY <2>4, <2>6, <3>3
    <3> QED BY <3>2, <3>4
  <2> QED BY <1>6, <2>1, <2>2, <2>3, <2>7 DEF StillStore
<1> QED
  BY <1>3, <1>4, <1>5, <1>6, RequestStep DEF BaseInv

\* Whatever is written while a request of several predicates reads the table
\* once for each, its answer is that of one question: row_ids_all returns the
\* rows that were there from the first read to the last and match every
\* predicate, and row_ids_any misses none that was there throughout.
THEOREM AnswersOneQuestion == QuerySpec => OneQuestion
<1> DEFINE Right(r) ==
      LET q == WithIds(query[r])
          where == q.req.where
          now == DOMAIN Live(q.req.table)
          every == {i \in DOMAIN q.first : \A n \in DOMAIN where : q.first[i] \in where[n]}
          some == {i \in DOMAIN q.first : \E n \in DOMAIN where : q.first[i] \in where[n]}
      IN IF q.req.op = "row_ids_all"
         THEN IntersectAll(q.sets) = every \cap now
         ELSE /\ some \cap now \subseteq UnionAll(q.sets)
              /\ UnionAll(q.sets) \cap DOMAIN q.first \subseteq some
<1>1. ASSUME BaseInv, ReadsInv, [QueryNext]_queryVars, NEW r \in Readers,
             Answers(r, {"row_ids_all", "row_ids_any"}), query[r].intact
      PROVE  Right(r)
  <2> DEFINE q == query[r]
             f == WithIds(q)
             d == tables[q.req.table]
  <2>1. Running(r) /\ q.req.op \in Combining /\ query'[r].outcome = "ok"
    BY <1>1 DEF Answers, Combining
  <2>2. Shaped(q) /\ q.outcome = "none" /\ q.req \in Requests /\ q.req.table \in Tables
        /\ q.req.where \in Seq(SUBSET Texts)
    BY <1>1, <2>1, QueryAssumption DEF BaseInv, ShapeInv, Shaped, Running, IsRequest
  <2>3. Len(q.todo) = 1 /\ \E g : Finds(r, g)
    <3>1. ~Kept(r) /\ ~Started(r) /\ ~WentOn(r)
      BY <2>1, <2>2 DEF Kept, Started, WentOn, Finds
    <3> QED BY <1>1, <2>1, <3>1, RequestStep DEF BaseInv, Ended
  <2>4. At(r, "ids") /\ Exists(q.req.table)
    <3>1. PICK g : Finds(r, g)
      BY <2>3
    <3>2. At(r, "ids")
      BY <1>1, <2>1, <3>1, NextRead
    <3> QED BY <3>1, <3>2 DEF Finds
  <2>5. Finds(r, f)
    BY <2>2, <2>4, WithIdsFinds
  <2>6. /\ f.sets \in Seq(SUBSET Nat) /\ Len(f.sets) = Len(q.sets) + 1
        /\ f.sets[Len(f.sets)] = Matching(d, q.req.where[Len(f.sets)])
        /\ Reads(f.first, f.sets, q.req.where, d)
    BY <1>1, <2>1, <2>5, NextRead
  <2>7. f.req = q.req
    BY <2>5 DEF Finds
  <2>8. Len(f.sets) = Len(q.req.where)
    BY <1>1, <2>1, <2>3, <2>6 DEF ReadsInv
  <2>9. f.sets # <<>> /\ IsDataset(d)
    <3>1. q.sets \in Seq(SUBSET Nat)
      BY <1>1, <2>1 DEF ReadsInv
    <3>2. Len(f.sets) # 0
      BY <2>6, <3>1
    <3> QED BY <1>1, <2>2, <3>2 DEF BaseInv, TypeOK
  <2> DEFINE first == f.first
             sets == f.sets
             where == q.req.where
  <2>10. /\ sets \in Seq(SUBSET Nat) /\ where \in Seq(SUBSET Texts)
         /\ IsDataset(d) /\ Reads(first, sets, where, d)
         /\ sets # <<>> /\ Len(sets) = Len(where)
         /\ sets[Len(where)] = Matching(d, where[Len(where)])
    BY <2>2, <2>6, <2>8, <2>9
  <2>11. AnswersAt(first, sets, where, d)
    <3> HIDE DEF sets, where, first, d
    <3> QED BY ONLY <2>10, ReadsAnswer
  <2> HIDE DEF f
  <2> QED BY <2>7, <2>11 DEF AnswersAt, Live, f
<1> HIDE DEF Right
<1>2. BaseInv /\ ReadsInv /\ [QueryNext]_queryVars =>
        [\A r \in Readers :
           Answers(r, {"row_ids_all", "row_ids_any"}) /\ query[r].intact => Right(r)]_queryVars
  BY <1>1
<1> QED
  BY <1>2, BaseInit, BaseStep, ReadsInit, ReadsStep, PTL DEF QuerySpec, OneQuestion, Right

-----------------------------------------------------------------------------
(* Searches find what is there. *)

\* Where the vectors are those of the rows, there are finitely many chunks.
LEMMA ChunksFinite ==
  ASSUME NEW tb, IsFiniteSet(DOMAIN Vectors(tb)),
         \A i \in DOMAIN Vectors(tb) : Vectors(tb)[i] \in Texts
  PROVE  IsFiniteSet(Chunks(tb))
<1> DEFINE D == DOMAIN Vectors(tb)
           of(i) == {i} \X (1..ChunksOf[Vectors(tb)[i]])
           f == [i \in D |-> of(i)]
           T == {of(i) : i \in D}
<1>1. f \in Surjection(D, T)
  <2> HIDE DEF D
  <2> QED BY DEF Surjection
<1>2. IsFiniteSet(T)
  <2> HIDE DEF f, T, D
  <2> QED BY <1>1, FS_Surjection DEF D
<1>3. ASSUME NEW i \in D PROVE IsFiniteSet(of(i))
  <2> DEFINE k == ChunksOf[Vectors(tb)[i]]
  <2>1. k \in Nat
    BY <1>3, QueryAssumption
  <2> HIDE DEF k
  <2>2. IsFiniteSet({i})
    BY FS_Singleton
  <2>a. 1 \in Int /\ k \in Int
    BY <2>1
  <2>b. IsFiniteSet(1..k)
    BY ONLY <2>a, FS_Interval
  <2>3. IsFiniteSet({i} \X (1..k))
    BY ONLY <2>2, <2>b, FS_Product
  <2> QED BY <2>3 DEF k
<1>4. \A x \in T : IsFiniteSet(x)
  BY <1>3
<1>5. IsFiniteSet(UNION T)
  <2> HIDE DEF T
  <2> QED BY <1>2, <1>4, FS_UNION
<1> QED
  BY <1>5 DEF Chunks

\* As many different members of a finite set as it has are all of them.
LEMMA AllOfThem ==
  ASSUME NEW S, IsFiniteSet(S), NEW s \in [1..Cardinality(S) -> S], Distinct(s), NEW c \in S
  PROVE  \E p \in 1..Cardinality(S) : s[p] = c
<1> DEFINE k == Cardinality(S)
<1>1. k \in Nat
  BY FS_CardinalityType
<1>2. Len(s) = k
  <2> HIDE DEF k
  <2>1. s \in [1..k -> S]
    BY DEF k
  <2> QED BY <1>1, <2>1
<1> SUFFICES ASSUME \A p \in 1..k : s[p] # c PROVE FALSE
  OBVIOUS
<1>3. s \in [1..k -> S \ {c}]
  <2>1. s \in [1..k -> S]
    OBVIOUS
  <2> HIDE DEF k
  <2> QED BY <2>1
<1>4. IsFiniteSet(S \ {c}) /\ Cardinality(S \ {c}) = k - 1
  BY FS_RemoveElement
<1>5. IsFiniteSet(1..k) /\ Cardinality(1..k) = k
  <2> HIDE DEF k
  <2> QED BY <1>1, FS_Interval
<1>6. Cardinality(S \ {c}) < Cardinality(1..k)
  <2> HIDE DEF k
  <2> QED BY <1>1, <1>4, <1>5
<1>7. \E x, y \in 1..k : x # y /\ s[x] = s[y]
  <2> DEFINE A == 1..k
             B == S \ {c}
  <2>1. IsFiniteSet(A) /\ IsFiniteSet(B) /\ Cardinality(B) < Cardinality(A) /\ s \in [A -> B]
    BY <1>3, <1>4, <1>5, <1>6
  <2> HIDE DEF A, B
  <2>2. \E x, y \in A : x # y /\ s[x] = s[y]
    BY <2>1, FS_PigeonHole
  <2> QED BY <2>2 DEF A
<1> QED
  BY <1>2, <1>7 DEF Distinct

\* The rows of these hits are rows that have vectors, and all of them if there
\* are fewer hits than were asked for.
Complete(semantic, vectors, n) ==
  /\ Members(RowsOf(semantic)) \subseteq DOMAIN vectors
  /\ Len(semantic) < n => Members(RowsOf(semantic)) = DOMAIN vectors

\* A search that returns fewer hits than it may has returned every chunk.
LEMMA NearestComplete ==
  ASSUME NEW tb, IsFiniteSet(DOMAIN Vectors(tb)), tb \notin vectorIndex,
         \A i \in DOMAIN Vectors(tb) : Vectors(tb)[i] \in Texts,
         NEW n \in Nat, NEW found \in Nearest(tb, n)
  PROVE  Complete(found, Vectors(tb), n)
<1> DEFINE v == Vectors(tb)
           S == Chunks(tb)
           size == IF n < Cardinality(S) THEN n ELSE Cardinality(S)
<1>1. IsFiniteSet(S) /\ Cardinality(S) \in Nat
  BY ChunksFinite, FS_CardinalityType
<1>2. PICK s \in [1..size -> S] : Distinct(s) /\
             found = [p \in DOMAIN s |-> <<s[p][1], v[s[p][1]]>>]
  BY DEF Nearest, Orders
<1>3. size \in Nat
  <2> HIDE DEF S
  <2> QED BY <1>1
<1>4. \A c \in S : c[1] \in DOMAIN v
  BY DEF Chunks
<1>5. \A i \in DOMAIN v : \E c \in S : c[1] = i
  <2> SUFFICES ASSUME NEW i \in DOMAIN v PROVE \E c \in S : c[1] = i
    OBVIOUS
  <2>1. 1 \in 1..ChunksOf[v[i]]
    <3> DEFINE k == ChunksOf[v[i]]
    <3>1. k \in Nat \ {0}
      BY QueryAssumption
    <3> HIDE DEF k
    <3>2. 1 \in 1..k
      BY <3>1
    <3> QED BY <3>2 DEF k
  <2>2. <<i, 1>> \in S
    BY <2>1 DEF Chunks
  <2> QED BY <2>2
<1> HIDE DEF size, S
<1>6. /\ DOMAIN found = 1..size /\ Len(found) = size
      /\ \A p \in 1..size : found[p][1] = s[p][1] /\ s[p] \in S
  <2>1. DOMAIN s = 1..size
    BY <1>2
  <2>2. DOMAIN found = 1..size /\ \A p \in 1..size : found[p][1] = s[p][1]
    BY <1>2, <2>1
  <2>3. Len(found) = size
    <3>1. found = [p \in 1..size |-> <<s[p][1], v[s[p][1]]>>]
      BY <1>2, <2>1
    <3> HIDE DEF v
    <3> QED BY <1>3, <3>1
  <2> QED BY <1>2, <2>2, <2>3
<1>7. Len(RowsOf(found)) = size /\ \A p \in 1..size : RowsOf(found)[p] = s[p][1]
  <2>1. RowsOf(found) = [p \in 1..size |-> s[p][1]]
    BY <1>6 DEF RowsOf
  <2> QED BY <1>3, <2>1
<1>8. Members(RowsOf(found)) = {s[p][1] : p \in 1..size}
  BY <1>7 DEF Members
<1>9. Members(RowsOf(found)) \subseteq DOMAIN v
  BY <1>4, <1>6, <1>8
<1>10. ASSUME Len(found) < n, NEW i \in DOMAIN v PROVE i \in Members(RowsOf(found))
  <2>1. size = Cardinality(S)
    BY <1>1, <1>6, <1>10 DEF size
  <2>2. PICK c \in S : c[1] = i
    BY <1>5, <1>10
  <2>3. IsFiniteSet(S) /\ s \in [1..Cardinality(S) -> S] /\ Distinct(s) /\ c \in S
    BY <1>1, <1>2, <2>1, <2>2
  <2>4. \E p \in 1..Cardinality(S) : s[p] = c
    BY ONLY <2>3, AllOfThem
  <2> QED BY <1>8, <2>1, <2>2, <2>4
<1> QED
  BY <1>9, <1>10 DEF Complete

\* Until a table is dropped its vectors are true, what calls have read of it is
\* still so, and text and vectors agree where it is settled.
AgreeInv ==
  /\ WriterInv
  /\ \A tb \in AutoTables \ dropped : TrueAt(tb) /\ ReadAt(tb) /\ SettledAt(tb)

LEMMA AgreeInit == QueryInit => AgreeInv
<1> SUFFICES ASSUME QueryInit PROVE AgreeInv
  OBVIOUS
<1>1. WriterInv
  BY WriterInit DEF QueryInit
<1>2. \A tb \in Tables : TrueAt(tb)
  BY TrueInit DEF TrueInv, QueryInit
<1>3. \A tb \in Tables : ReadAt(tb) /\ SettledAt(tb)
  BY DEF QueryInit, Init, ReadAt, SettledAt, Vectors, Live, NoTable
<1> QED
  BY <1>1, <1>2, <1>3, TablesAssumption DEF AgreeInv

LEMMA AgreeStep ==
  ASSUME OneTaskEach
  PROVE  BaseInv /\ BaseInv' /\ AgreeInv /\ [QueryNext]_queryVars => AgreeInv'
<1> SUFFICES ASSUME BaseInv, BaseInv', AgreeInv, [QueryNext]_queryVars PROVE AgreeInv'
  OBVIOUS
<1>1. WriterInv'
  <2>1. CASE [Next]_vars
    BY <2>1, WriterStep DEF AgreeInv, BaseInv
  <2>2. CASE StillStore
    BY <2>2 DEF StillStore, AgreeInv, WriterInv
  <2> QED BY <2>1, <2>2, StoreCases
<1>2. ASSUME NEW tb \in AutoTables, tb \notin dropped'
      PROVE  (TrueAt(tb) /\ ReadAt(tb) /\ SettledAt(tb))'
  <2>1. tb \in Tables
    BY TablesAssumption
  <2>2. /\ tb \notin dropped /\ (~Exists(tb) \/ tables'[tb].there)
    BY <1>2, <2>1, QueryTableStep DEF BaseInv
  <2>3. TrueAt(tb) /\ ReadAt(tb) /\ SettledAt(tb) /\ WriterInv
    BY <2>2 DEF AgreeInv
  <2>4. CASE [Next]_vars
    BY <2>1, <2>2, <2>3, <2>4, TrueAtStep, ReadAtStep, SettledAtStep DEF BaseInv
  <2>5. CASE StillStore
    BY <2>3, <2>5 DEF StillStore, TrueAt, TrueOf, ReadAt, SettledAt, Changing, Vectors, Live
  <2> QED BY <2>4, <2>5, StoreCases
<1> QED
  BY <1>1, <1>2 DEF AgreeInv

VectorOps == {"semantic_search", "hybrid_search"}

\* A search reads the vectors in its first step only.  While it is intact they
\* are those of the rows, and once it has read them its hits are complete.
SearchInv ==
  \A r \in Readers :
    LET q == query[r]
        tb == q.req.table IN
    Running(r) /\ q.req.op \in VectorOps =>
      /\ \A n \in 2..Len(q.todo) : q.todo[n] # "vectors"
      /\ q.todo[1] = "vectors" => Len(q.todo) # 1
      /\ q.intact /\ tb \in AutoTables \ dropped =>
           /\ Vectors(tb) = Live(tb)
           /\ q.todo[1] # "vectors" /\ tb \notin vectorIndex =>
                Complete(q.semantic, Vectors(tb), Breadth(q.req))

LEMMA SearchInit == QueryInit => SearchInv
<1>1. Resting.todo = <<>>
  BY DEF Resting
<1> QED
  BY <1>1 DEF QueryInit, SearchInv, Running

LEMMA SearchStep ==
  BaseInv /\ BaseInv' /\ AgreeInv /\ SearchInv /\ [QueryNext]_queryVars => SearchInv'
<1> SUFFICES ASSUME BaseInv, BaseInv', AgreeInv, SearchInv, [QueryNext]_queryVars,
                    NEW r \in Readers, Running(r)', query'[r].req.op \in VectorOps
             PROVE  LET n == query'[r]
                        tb == n.req.table IN
                    /\ \A i \in 2..Len(n.todo) : n.todo[i] # "vectors"
                    /\ n.todo[1] = "vectors" => Len(n.todo) # 1
                    /\ n.intact /\ tb \in AutoTables \ dropped' =>
                         /\ companion'[tb].rows = tables'[tb].rows
                         /\ n.todo[1] # "vectors" /\ tb \notin vectorIndex' =>
                              Complete(n.semantic, companion'[tb].rows, Breadth(n.req))
  BY DEF SearchInv, Vectors, Live
<1> DEFINE q == query[r]
           n == query'[r]
           tb == n.req.table
<1>1. n.req \in Requests /\ tb \in Tables /\ n.req.limit \in Nat /\ Shaped(q)
  BY QueryAssumption DEF BaseInv, ShapeInv, Shaped, Running, IsRequest
<1>2. IsDataset(tables[tb]) /\ dropped \subseteq dropped'
  BY <1>1, QueryTableStep DEF BaseInv, TypeOK
<1>3. CASE Kept(r)
  <2>1. /\ Running(r) /\ q.req = n.req /\ q.todo = n.todo /\ q.semantic = n.semantic
    BY <1>3 DEF Kept, Running
  <2>2. n.intact => q.intact /\ Stands(tb)
    BY <1>3, <2>1 DEF Kept, VectorOps, SearchOps
  <2> QED BY <1>2, <2>1, <2>2 DEF SearchInv, Stands, Vectors, Live
<1>4. CASE Ended(r)
  BY <1>4 DEF Ended, Running
<1>5. CASE Started(r) /\ StillStore
  <2>1. n.todo = Plan(n.req) /\ (n.intact => Settled(tb))
    BY <1>5 DEF Started, VectorOps, SearchOps
  <2>2. /\ n.todo[1] = "vectors" /\ Len(n.todo) # 1
        /\ \A i \in 2..Len(n.todo) : n.todo[i] # "vectors"
    <3>1. CASE n.req.op = "semantic_search"
      <4>1. n.todo = <<"vectors", "record">>
        BY <2>1, <3>1 DEF Plan
      <4> QED BY <4>1
    <3>2. CASE n.req.op = "hybrid_search"
      <4>1. n.todo = <<"vectors", "record", "text", "record", "fuse", "record">>
        BY <2>1, <3>2 DEF Plan
      <4> QED BY <4>1
    <3> QED BY <3>1, <3>2 DEF VectorOps
  <2>3. ASSUME n.intact, tb \in AutoTables \ dropped' PROVE Vectors(tb) = Live(tb)
    BY <1>2, <2>1, <2>3 DEF AgreeInv, SettledAt, Settled
  <2> QED BY <1>5, <2>2, <2>3 DEF StillStore, Vectors, Live
<1>6. CASE WentOn(r) /\ StillStore /\ UNCHANGED dropped /\ vectorIndex \subseteq vectorIndex'
  <2>1. PICK f : /\ Finds(r, f) /\ n.req = f.req /\ n.todo = Tail(f.todo)
                 /\ n.semantic = f.semantic /\ n.intact = f.intact
    BY <1>6 DEF WentOn
  <2>2. /\ Running(r) /\ q.req = n.req /\ n.todo = Tail(q.todo) /\ n.intact = q.intact
    BY <1>6, <2>1 DEF WentOn, Finds
  <2>3. q.todo \in Seq(Steps) /\ q.todo # <<>> /\ n.todo # <<>>
    BY <1>1, <2>2 DEF Shaped, Running
  <2>4. \A i \in 1..Len(n.todo) : n.todo[i] = q.todo[i + 1] /\ i + 1 \in 2..Len(q.todo)
    <3> DEFINE todo == q.todo
               tail == n.todo
    <3>1. todo \in Seq(Steps) /\ todo # <<>> /\ tail = Tail(todo)
      BY <2>2, <2>3
    <3> HIDE DEF todo, tail
    <3>2. \A i \in 1..Len(tail) : tail[i] = todo[i + 1] /\ i + 1 \in 2..Len(todo)
      BY <3>1
    <3> QED BY <3>2 DEF todo, tail
  <2>5. \A i \in 1..Len(n.todo) : n.todo[i] # "vectors"
    BY <2>2, <2>4 DEF SearchInv
  <2>6. n.todo[1] # "vectors"
    <3>1. 1 \in 1..Len(n.todo)
      <4> DEFINE tail == n.todo
      <4>1. tail \in Seq(Steps) /\ tail # <<>>
        BY <2>2, <2>3
      <4> HIDE DEF tail
      <4>2. 1 \in 1..Len(tail)
        BY <4>1
      <4> QED BY <4>2 DEF tail
    <3> QED BY <2>5, <3>1
  <2>7. \A i \in 2..Len(n.todo) : n.todo[i] # "vectors"
    BY <2>5
  <2>8. Head(q.todo) = q.todo[1]
    BY <2>3
  <2>9. ASSUME n.intact, tb \in AutoTables, tb \notin dropped'
        PROVE  /\ Vectors(tb) = Live(tb)
               /\ tb \notin vectorIndex' => Complete(n.semantic, Vectors(tb), Breadth(n.req))
    <3>1. /\ Vectors(tb) = Live(tb)
          /\ q.todo[1] # "vectors" /\ tb \notin vectorIndex =>
               Complete(q.semantic, Vectors(tb), Breadth(q.req))
      BY <1>2, <2>2, <2>9 DEF SearchInv
    <3>2. ASSUME tb \notin vectorIndex' PROVE Complete(n.semantic, Vectors(tb), Breadth(n.req))
      <4>1. tb \notin vectorIndex
        BY <1>6, <3>2
      <4>2. CASE At(r, "vectors")
        <5>1. n.semantic \in Nearest(tb, Breadth(n.req))
          BY <2>1, <2>2, <4>2 DEF Finds
        <5>2. IsFiniteSet(DOMAIN Vectors(tb))
              /\ \A i \in DOMAIN Vectors(tb) : Vectors(tb)[i] \in Texts
          <6>1. Vectors(tb) = tables[tb].rows
            BY <3>1 DEF Live
          <6>2. IsFiniteSet(DOMAIN tables[tb].rows)
            BY <1>2, SizeType
          <6> QED BY <1>2, <6>1, <6>2 DEF IsDataset, IsVectors
        <5>3. Breadth(n.req) \in Nat
          BY <1>1 DEF Breadth
        <5> QED BY <4>1, <5>1, <5>2, <5>3, NearestComplete
      <4>3. CASE ~At(r, "vectors")
        <5>1. n.semantic = q.semantic /\ q.todo[1] # "vectors"
          BY <2>1, <2>2, <2>8, <4>3 DEF Finds, At
        <5> QED BY <2>2, <3>1, <4>1, <5>1
      <4> QED BY <4>2, <4>3
    <3> QED BY <3>1, <3>2
  <2> QED BY <1>6, <2>6, <2>7, <2>9 DEF StillStore, Vectors, Live
<1> QED
  BY <1>3, <1>4, <1>5, <1>6, RequestStep DEF BaseInv

\* When every handle serves one call at a time: a search that met its table
\* settled and was not overtaken by a change returns no row that is gone, and
\* if it returns fewer hits than it was asked for it has found every row,
\* whatever interrupted writes went before, until the table is dropped or its
\* vectors are searched through an index.
THEOREM FindsAll ==
  ASSUME OneTaskEach
  PROVE  QuerySpec => SearchFindsAll
<1>1. ASSUME BaseInv, SearchInv, [QueryNext]_queryVars, NEW r \in Readers,
             Answers(r, {"semantic_search", "hybrid_search"}), query[r].intact,
             query[r].req.table \in AutoTables \ (dropped \cup vectorIndex)
      PROVE  /\ Vectors(query[r].req.table) = Live(query[r].req.table)
             /\ Complete(query[r].semantic, Vectors(query[r].req.table), Breadth(query[r].req))
  <2> DEFINE q == query[r]
  <2>1. Running(r) /\ q.req.op \in VectorOps /\ query'[r].outcome = "ok"
    BY <1>1 DEF Answers, VectorOps
  <2>2. q.outcome = "none"
    BY <1>1, <2>1 DEF BaseInv, ShapeInv, Shaped, Running
  <2>3. Len(q.todo) = 1
    <3>1. ~Kept(r) /\ ~Started(r) /\ ~WentOn(r)
      BY <2>1, <2>2 DEF Kept, Started, WentOn, Finds
    <3> QED BY <1>1, <2>1, <3>1, RequestStep DEF BaseInv, Ended
  <2> QED BY <1>1, <2>1, <2>3 DEF SearchInv
<1>2. BaseInv /\ SearchInv /\ [QueryNext]_queryVars =>
        [\A r \in Readers :
           LET q == query[r]
               tb == q.req.table
               found == Members(RowsOf(q.semantic))
           IN /\ Answers(r, {"semantic_search", "hybrid_search"})
              /\ q.intact
              /\ tb \in AutoTables \ (dropped \cup vectorIndex)
              => /\ found \subseteq DOMAIN Live(tb)
                 /\ Len(q.semantic) < Breadth(q.req) => found = DOMAIN Live(tb)]_queryVars
  BY <1>1 DEF Complete
<1> QED
  BY <1>2, BaseInit, BaseStep, AgreeInit, AgreeStep, SearchInit, SearchStep, PTL
     DEF QuerySpec, SearchFindsAll

-----------------------------------------------------------------------------
(* Types. *)

\* Every step is one of a call, of a handle or of a reader, or none.
LEMMA ActorCases ==
  ASSUME [QueryNext]_queryVars
  PROVE  \/ \E t \in Tasks : ((\E c \in Calls : Begin(t, c)) \/ CallStep(t)) /\ Follow
         \/ \E h \in Handles : HandleStep(h)
         \/ \E r \in Readers : ReaderStep(r)
         \/ UNCHANGED queryVars
BY DEF QueryNext, CallStep, HandleStep, ReaderStep

\* A request that runs holds its handle open.
RoleInv == \A r \in Readers : Running(r) => role[ReaderOf[r]] \in {"reader", "writer"}

LEMMA RoleInit == QueryInit => RoleInv
<1>1. Resting.todo = <<>>
  BY DEF Resting
<1> QED
  BY <1>1 DEF QueryInit, RoleInv, Running

LEMMA RoleStep == BaseInv /\ RoleInv /\ [QueryNext]_queryVars => RoleInv'
<1> SUFFICES ASSUME BaseInv, RoleInv, [QueryNext]_queryVars, NEW r \in Readers, Running(r)'
             PROVE  role'[ReaderOf[r]] \in {"reader", "writer"}
  BY DEF RoleInv
<1> DEFINE g == ReaderOf[r]
<1>0. g \in Handles /\ role \in [Handles -> {"closed", "refused", "reader", "writer"}]
  BY QueryAssumption DEF BaseInv, TypeOK
<1>1. Running(r) \/ role[g] \in {"reader", "writer"}
  BY RequestStep DEF BaseInv, Kept, Ended, Started, WentOn, Running
<1>2. role[g] \in {"reader", "writer"}
  BY <1>1 DEF RoleInv
<1>3. CASE \E t \in Tasks : (\E c \in Calls : Begin(t, c)) \/ CallStep(t)
  <2>1. UNCHANGED role
    BY <1>3, StepShape DEF BaseInv, Begin, handles
  <2> QED BY <1>2, <2>1
<1>4. ASSUME NEW h \in Handles, HandleStep(h) PROVE role'[g] \in {"reader", "writer"}
  <2>1. CASE OpenForWriting(h) \/ OpenForReading(h)
    BY <1>0, <1>2, <2>1 DEF OpenForWriting, OpenForReading, Acquire
  <2>2. CASE CloseUnused(h)
    <3>1. query' = query
      BY <2>2 DEF CloseUnused, reading
    <3>2. Running(r)
      BY <3>1 DEF Running
    <3>3. g # h
      BY <2>2, <3>2 DEF CloseUnused, ReadersOf
    <3> QED BY <1>0, <1>2, <2>2, <3>3 DEF CloseUnused, Close
  <2>3. CASE CrashAll(h)
    <3>1. Resting.todo = <<>>
      BY DEF Resting
    <3>2. g # h
      BY <2>3, <3>1 DEF CrashAll, ReadersOf, Running
    <3> QED BY <1>0, <1>2, <2>3, <3>2 DEF CrashAll, Crash
  <2> QED BY <1>4, <2>1, <2>2, <2>3 DEF HandleStep
<1>5. CASE \E s \in Readers : ReaderStep(s)
  BY <1>2, <1>5, ReaderLeavesStore DEF StillStore
<1>6. CASE UNCHANGED queryVars
  BY <1>2, <1>6 DEF queryVars, vars
<1> QED
  BY <1>3, <1>4, <1>5, <1>6, ActorCases

\* An index is one of a dataset that is there.
IndexInv ==
  /\ textIndex \subseteq {tb \in Tables : Exists(tb)}
  /\ vectorIndex \subseteq {tb \in Tables : companion[tb].there}
  /\ dropped \subseteq Tables

\* A companion table that is there stays there.
LEMMA CompanionStays ==
  ASSUME TypeOK, CallInv, [QueryNext]_queryVars, NEW tb \in Tables, companion[tb].there
  PROVE  companion'[tb].there
<1>1. ASSUME UNCHANGED companion PROVE companion'[tb].there
  BY <1>1
<1>2. ASSUME NEW t \in Tasks, Overwrite(t) PROVE companion'[tb].there
  <2>1. CASE companion' = [companion EXCEPT ![call[t].table] = Holding(gathered[t])]
    BY <2>1 DEF Holding, TypeOK
  <2> QED BY <1>1, <1>2, <2>1 DEF Overwrite
<1>3. ASSUME NEW t \in Tasks, CallStep(t), ~Overwrite(t) PROVE UNCHANGED companion
  BY <1>3 DEF CallStep, Step, Announce, Change, Record, Remove, ReadVectors, Gather,
              RecordFails, EmbedFails, data
<1>4. ASSUME NEW t \in Tasks, NEW c \in Calls, Begin(t, c) PROVE UNCHANGED companion
  BY <1>4 DEF Begin, data
<1>5. ASSUME NEW h \in Handles, HandleStep(h) PROVE UNCHANGED companion
  BY <1>5, HandleShape DEF data
<1>6. ASSUME NEW r \in Readers, ReaderStep(r) PROVE UNCHANGED companion
  BY <1>6, ReaderLeavesStore DEF StillStore
<1>7. CASE UNCHANGED queryVars
  BY <1>1, <1>7 DEF queryVars, vars, data
<1> QED
  BY <1>1, <1>2, <1>3, <1>4, <1>5, <1>6, <1>7, ActorCases

\* A reader adds an index only to a dataset that is there.
LEMMA ReaderIndexes ==
  ASSUME BaseInv, NEW r \in Readers, ReaderStep(r)
  PROVE  /\ textIndex' \subseteq textIndex \cup {tb \in Tables : Exists(tb)}
         /\ vectorIndex' \subseteq vectorIndex \cup {tb \in Tables : companion[tb].there}
<1> DEFINE tb == query[r].req.table
<1>1. Running(r) => tb \in Tables
  BY QueryAssumption DEF BaseInv, ShapeInv, Shaped, Running, IsRequest
<1>2. CASE IndexTable(r)
  <2>1. Running(r) /\ UNCHANGED vectorIndex
    BY <1>2 DEF IndexTable, At
  <2> QED BY <1>1, <1>2, <2>1 DEF IndexTable
<1>3. CASE IndexVectors(r)
  <2>1. Running(r) /\ UNCHANGED textIndex
    BY <1>3 DEF IndexVectors, At
  <2> QED BY <1>1, <1>3, <2>1 DEF IndexVectors
<1>4. CASE ~IndexTable(r) /\ ~IndexVectors(r)
  <2>1. UNCHANGED indexes
    BY <1>4 DEF ReaderStep, Ask, EmbedQueryFails, QueryStep, ReadIds, Analyse, Candidates,
                SearchVectors, SearchText, FuseBoth, RecordRead, RecordReadFails
  <2> QED BY <2>1 DEF indexes
<1> QED
  BY <1>2, <1>3, <1>4

LEMMA IndexInit == QueryInit => IndexInv
BY DEF QueryInit, IndexInv

LEMMA IndexStep == BaseInv /\ IndexInv /\ [QueryNext]_queryVars => IndexInv'
<1> SUFFICES ASSUME BaseInv, IndexInv, [QueryNext]_queryVars PROVE IndexInv'
  OBVIOUS
<1>1. \A tb \in Tables : companion[tb].there => companion'[tb].there
  BY CompanionStays DEF BaseInv
<1>2. CASE Follow
  BY <1>1, <1>2 DEF Follow, IndexesGo, Gone, IndexInv, Exists
<1>3. CASE \E h \in Handles : HandleStep(h)
  BY <1>3, HandleShape DEF IndexInv, data, indexes, Exists
<1>4. CASE \E r \in Readers : ReaderStep(r)
  BY <1>4, ReaderIndexes, ReaderLeavesStore DEF StillStore, IndexInv, Exists
<1>5. CASE UNCHANGED queryVars
  BY <1>5 DEF IndexInv, queryVars, vars, reading, data, indexes, Exists
<1> QED
  BY <1>2, <1>3, <1>4, <1>5, ActorCases

\* Orders of a set of rows, and how a search returns them, are sequences.
LEMMA OrdersType ==
  ASSUME NEW S, IsFiniteSet(S), NEW n \in Nat, NEW s \in Orders(S, n)
  PROVE  s \in Seq(S) /\ Distinct(s)
<1> DEFINE size == IF n < Cardinality(S) THEN n ELSE Cardinality(S)
<1>1. size \in Nat
  BY FS_CardinalityType
<1>2. s \in [1..size -> S] /\ Distinct(s)
  BY DEF Orders
<1> HIDE DEF size
<1> QED
  BY <1>1, <1>2

LEMMA NearestType ==
  ASSUME TypeOK, NEW tb \in Tables, NEW n \in Nat, NEW found \in Nearest(tb, n)
  PROVE  found \in Seq(Nat \X Texts)
<1> DEFINE v == Vectors(tb)
           S == Chunks(tb)
<1>1. DOMAIN v \subseteq Nat /\ IsFiniteSet(DOMAIN v) /\ \A i \in DOMAIN v : v[i] \in Texts
  BY DEF TypeOK, IsVectors
<1>2. IsFiniteSet(S)
  BY <1>1, ChunksFinite
<1>3. \A c \in S : c[1] \in DOMAIN v
  BY DEF Chunks
<1>4. PICK m, s : /\ m \in Nat /\ s \in Orders(S, m)
                  /\ found = [p \in DOMAIN s |-> <<s[p][1], v[s[p][1]]>>]
  <2>1. 0..n \subseteq Nat
    OBVIOUS
  <2> QED BY <2>1 DEF Nearest
<1> HIDE DEF S, v
<1>5. s \in Seq(S)
  BY <1>2, <1>4, OrdersType
<1>6. DOMAIN s = 1..Len(s) /\ Len(s) \in Nat /\ \A p \in DOMAIN s : s[p] \in S
  BY <1>5
<1>7. \A p \in 1..Len(s) : <<s[p][1], v[s[p][1]]>> \in Nat \X Texts
  BY <1>1, <1>3, <1>6
<1>8. found \in [1..Len(s) -> Nat \X Texts]
  BY <1>4, <1>6, <1>7
<1> QED
  BY <1>6, <1>8

\* What is left after a step that is not the last.
LEMMA TailFacts ==
  ASSUME NEW todo \in Seq(Steps), todo # <<>>, Len(todo) # 1
  PROVE  /\ Len(todo) \in Nat /\ Len(todo) >= 2 /\ Head(todo) = todo[1]
         /\ Len(Tail(todo)) = Len(todo) - 1
         /\ \A i \in 1..Len(todo)-1 : Tail(todo)[i] = todo[i + 1]
<1>1. Len(todo) \in Nat /\ Len(todo) # 0
  OBVIOUS
<1>2. Len(todo) >= 2
  <2> DEFINE k == Len(todo)
  <2>1. k \in Nat /\ k # 0 /\ k # 1
    BY <1>1
  <2> HIDE DEF k
  <2>2. k >= 2
    BY <2>1
  <2> QED BY <2>2 DEF k
<1>3. Head(todo) = todo[1] /\ Len(Tail(todo)) = Len(todo) - 1
  OBVIOUS
<1>4. \A i \in 1..Len(todo)-1 : Tail(todo)[i] = todo[i + 1]
  OBVIOUS
<1> QED
  BY <1>1, <1>2, <1>3, <1>4

\* The rows of the hits are a sequence of row ids.
LEMMA RowsOfType ==
  ASSUME NEW semantic \in Seq(Nat \X Texts)
  PROVE  RowsOf(semantic) \in Seq(Nat)
<1>1. Len(semantic) \in Nat /\ DOMAIN semantic = 1..Len(semantic)
      /\ \A p \in 1..Len(semantic) : semantic[p] \in Nat \X Texts
  OBVIOUS
<1>2. \A p \in 1..Len(semantic) : semantic[p][1] \in Nat
  BY <1>1
<1> DEFINE k == Len(semantic)
           rows == RowsOf(semantic)
<1>3. k \in Nat /\ rows \in [1..k -> Nat]
  BY <1>1, <1>2 DEF RowsOf
<1> HIDE DEF k, rows
<1>4. rows \in Seq(Nat)
  BY <1>3
<1> QED
  BY <1>4 DEF rows

\* What a request has found has its type, a fused ranking keeps to the limit,
\* and the candidates are asked for in the last step only.
Found(q) ==
  /\ q.req = None \/ q.req \in Requests
  /\ q.outcome \in Results
  /\ Len(q.fused.rows) <= (IF q.req = None THEN 0 ELSE q.req.limit)
  /\ q.sets \in Seq(SUBSET Nat)
  /\ q.semantic \in Seq(Nat \X Texts)
  /\ q.lexical \in Seq(Nat) /\ Distinct(q.lexical)
  /\ \A i \in 1..Len(q.todo)-1 : q.todo[i] # "candidates"

FoundInv == \A r \in Readers : Found(query[r])

\* A request that has found nothing.
LEMMA NothingFound ==
  ASSUME NEW q, FoundNothing(q), q.outcome \in Results, q.req = None \/ q.req \in Requests,
         \A i \in 1..Len(q.todo)-1 : q.todo[i] # "candidates"
  PROVE  Found(q)
<1>1. /\ q.sets \in Seq(SUBSET Nat) /\ q.semantic \in Seq(Nat \X Texts)
      /\ q.lexical \in Seq(Nat) /\ Distinct(q.lexical)
  BY DEF FoundNothing, Distinct
<1>2. Len(q.fused.rows) = 0
  BY DEF FoundNothing, NoFusion
<1>3. 0 <= (IF q.req = None THEN 0 ELSE q.req.limit)
  BY QueryAssumption DEF IsRequest
<1> QED
  BY <1>1, <1>2, <1>3 DEF Found

\* The length of two sequences joined, and where the first of them is.
LEMMA JoinFacts ==
  ASSUME NEW S, NEW s \in Seq(S), NEW t \in Seq(S)
  PROVE  Len(s \o t) = Len(s) + Len(t) /\ \A j \in 1..Len(s) : (s \o t)[j] = s[j]
OBVIOUS

\* Only the last step of a plan asks for candidates.
LEMMA PlanCandidates ==
  ASSUME NEW q \in Requests, NEW i \in 1..Len(Plan(q))-1
  PROVE  Plan(q)[i] # "candidates"
<1> DEFINE n == Len(q.where)
           ids == [j \in 1..n |-> "ids"]
<1>1. q.op \in AllOps /\ n \in Nat
  BY QueryAssumption DEF IsRequest
<1>2. ids \in Seq({"ids"}) /\ Len(ids) = n /\ \A j \in 1..n : ids[j] = "ids"
  <2> HIDE DEF n
  <2> QED BY <1>1
<1> HIDE DEF ids, n
<1>3. CASE q.op \in {"row_ids_all", "row_ids_any"}
  <2>1. Plan(q) = ids
    BY <1>3 DEF Plan, ids, n
  <2> QED BY <1>1, <1>2, <2>1
<1>4. CASE q.op = "filtered_search"
  <2>1. Plan(q) = ids \o <<"candidates">>
    BY <1>4 DEF Plan, ids, n
  <2>2. ids \in Seq({"ids", "candidates"}) /\ <<"candidates">> \in Seq({"ids", "candidates"})
    BY <1>2
  <2> DEFINE S == {"ids", "candidates"}
             last == <<"candidates">>
             plan == Plan(q)
  <2>3. /\ ids \in Seq(S) /\ last \in Seq(S) /\ Len(last) = 1 /\ Len(ids) = n
        /\ plan = ids \o last
    BY <1>2, <2>1, <2>2
  <2> HIDE DEF S, last, plan
  <2>4. Len(plan) = n + 1 /\ \A j \in 1..n : plan[j] = ids[j]
    <3>1. Len(ids \o last) = Len(ids) + Len(last)
          /\ \A j \in 1..Len(ids) : (ids \o last)[j] = ids[j]
      BY ONLY <2>3, JoinFacts
    <3> DEFINE joined == ids \o last
    <3>2. /\ Len(joined) = n + 1 /\ (\A j \in 1..n : joined[j] = ids[j])
          /\ plan = joined
      BY <2>3, <3>1
    <3> HIDE DEF joined
    <3> QED BY <3>2
  <2>5. Len(Plan(q)) = n + 1 /\ \A j \in 1..n : Plan(q)[j] = ids[j]
    BY <2>4 DEF plan
  <2> QED BY <1>1, <1>2, <2>5
<1>5. CASE q.op \notin {"row_ids_all", "row_ids_any", "filtered_search"}
  <2>1. \A j \in 1..Len(Plan(q)) : Plan(q)[j] # "candidates"
    BY <1>1, <1>5 DEF Plan, AllOps, PredicateOps, SearchOps, IndexOps, OtherOps
  <2>2. Len(Plan(q)) \in Nat
    BY PlanType
  <2> QED BY <2>1, <2>2
<1> QED
  BY <1>3, <1>4, <1>5

LEMMA FoundInit == QueryInit => FoundInv
<1> SUFFICES ASSUME QueryInit, NEW r \in Readers PROVE Found(query[r])
  BY DEF FoundInv
<1>1. query[r] = Closed("none")
  BY RestingItself DEF QueryInit
<1>2. /\ query[r].todo = <<>> /\ query[r].outcome = "none" /\ query[r].req = None
      /\ FoundNothing(query[r])
  BY <1>1, RestingShape
<1> QED
  BY <1>2, NothingFound DEF Results

LEMMA FoundStep == BaseInv /\ BaseInv' /\ FoundInv /\ [QueryNext]_queryVars => FoundInv'
<1> SUFFICES ASSUME BaseInv, BaseInv', FoundInv, [QueryNext]_queryVars, NEW r \in Readers
             PROVE  Found(query'[r])
  BY DEF FoundInv
<1> DEFINE q == query[r]
           n == query'[r]
<1>0. Shaped(q) /\ Found(q)
  BY DEF BaseInv, ShapeInv, FoundInv
<1>1. CASE Kept(r)
  <2> HIDE DEF q, n
  <2> QED BY <1>0, <1>1 DEF Kept, Found, q, n
<1>2. CASE Ended(r)
  BY <1>2, NothingFound DEF Ended
<1>3. CASE Started(r)
  BY <1>3, NothingFound, PlanCandidates DEF Started, Results
<1>4. CASE WentOn(r)
  <2> DEFINE tb == q.req.table
  <2>1. PICK f : /\ Finds(r, f) /\ Len(f.todo) # 1 /\ n.req = f.req /\ n.todo = Tail(f.todo)
                 /\ n.outcome = f.outcome /\ n.sets = f.sets /\ n.semantic = f.semantic
                 /\ n.lexical = f.lexical /\ n.fused = f.fused
    BY <1>4 DEF WentOn
  <2>2. /\ q.todo \in Seq(Steps) /\ q.todo # <<>> /\ q.req \in Requests
        /\ n.req = q.req /\ n.todo = Tail(q.todo) /\ n.outcome = q.outcome
        /\ Len(q.todo) # 1
    BY <1>0, <1>4, <2>1 DEF WentOn, Running, Shaped, Finds
  <2>3. /\ tb \in Tables /\ q.req.limit \in Nat /\ IsDataset(tables[tb]) /\ q.req # None
        /\ Breadth(q.req) \in Nat
    BY <2>2, QueryAssumption DEF IsRequest, BaseInv, TypeOK, Breadth
  <2>4. Head(q.todo) = q.todo[1] /\ 1 \in 1..Len(q.todo)-1 /\ Len(n.todo) = Len(q.todo) - 1
        /\ \A i \in 1..Len(n.todo)-1 : n.todo[i] = q.todo[i + 1] /\ i + 1 \in 1..Len(q.todo)-1
    <3> DEFINE todo == q.todo
               tail == n.todo
    <3>1. todo \in Seq(Steps) /\ todo # <<>> /\ tail = Tail(todo) /\ Len(todo) # 1
      BY <2>2
    <3> HIDE DEF todo, tail
    <3>2. Head(todo) = todo[1] /\ 1 \in 1..Len(todo)-1 /\ Len(tail) = Len(todo) - 1
          /\ \A i \in 1..Len(tail)-1 : tail[i] = todo[i + 1] /\ i + 1 \in 1..Len(todo)-1
      BY <3>1, TailFacts
    <3> QED BY <3>2 DEF todo, tail
  <2>5. \A i \in 1..Len(n.todo)-1 : n.todo[i] # "candidates"
    BY <1>0, <2>4 DEF Found
  <2>6. ~At(r, "candidates")
    BY <1>0, <2>4 DEF Found, At
  <2>7. n.sets \in Seq(SUBSET Nat)
    <3>1. CASE At(r, "ids")
      <4> DEFINE m == Matching(tables[tb], Asked(q))
      <4>1. m \in SUBSET Nat
        BY <2>3 DEF Matching, IsDataset, IsVectors
      <4>2. n.sets = Append(q.sets, m)
        BY <2>1, <3>1 DEF Finds
      <4> HIDE DEF m, q, n
      <4> QED BY <1>0, <4>1, <4>2 DEF Found
    <3> QED BY <1>0, <2>1, <2>6, <3>1 DEF Finds, Found
  <2>8. n.semantic \in Seq(Nat \X Texts)
    <3>1. CASE At(r, "vectors")
      <4>1. n.semantic \in Nearest(tb, Breadth(q.req))
        BY <2>1, <3>1 DEF Finds
      <4> QED BY <2>3, <4>1, NearestType DEF BaseInv
    <3> QED BY <1>0, <2>1, <3>1 DEF Finds, Found
  <2>9. n.lexical \in Seq(Nat) /\ Distinct(n.lexical)
    <3>1. CASE At(r, "text")
      <4> DEFINE m == Matching(tables[tb], q.req.where[1])
                 l == n.lexical
      <4>1. l \in Orders(m, Breadth(q.req))
        BY <2>1, <3>1 DEF Finds
      <4>2. IsFiniteSet(m) /\ m \subseteq Nat
        BY <2>3, MatchingFinite DEF Matching, IsDataset, IsVectors
      <4> HIDE DEF m, l
      <4>3. l \in Seq(m) /\ Distinct(l)
        BY <2>3, <4>1, <4>2, OrdersType
      <4>4. l \in Seq(Nat)
        <5>1. Len(l) \in Nat /\ l \in [1..Len(l) -> m]
          BY <4>3
        <5>2. l \in [1..Len(l) -> Nat]
          BY <4>2, <5>1
        <5> QED BY <5>1, <5>2
      <4> QED BY <4>3, <4>4 DEF l
    <3> QED BY <1>0, <2>1, <3>1 DEF Finds, Found
  <2>10. Len(n.fused.rows) <= q.req.limit
    <3>1. CASE At(r, "fuse")
      <4> DEFINE v == RowsOf(q.semantic)
                 docs == Cardinality(DOMAIN Live(tb))
      <4>1. v \in Seq(Nat) /\ q.lexical \in Seq(Nat)
        BY <1>0, RowsOfType DEF Found
      <4>2. n.fused = Fuse(v, q.lexical, docs, q.req.limit)
        BY <2>1, <3>1 DEF Finds
      <4> DEFINE ranking == Fuse(v, q.lexical, docs, q.req.limit)
      <4> HIDE DEF v, docs
      <4>3. IsFused(v, q.lexical, Hits(v, q.lexical, EffectiveK(docs)), q.req.limit, ranking)
        BY <2>3, <4>1, FuseFacts
      <4> HIDE DEF ranking
      <4>4. Len(ranking.rows) <= q.req.limit
        BY <4>3 DEF IsFused
      <4> QED BY <4>2, <4>4 DEF ranking
    <3> QED BY <1>0, <2>1, <2>3, <3>1 DEF Finds, Found
  <2> QED BY <1>0, <2>2, <2>3, <2>5, <2>7, <2>8, <2>9, <2>10 DEF Found
<1> QED
  BY <1>1, <1>2, <1>3, <1>4, RequestStep DEF BaseInv

\* Whatever is asked, written and dropped in whatever order, and wherever
\* processes die: every request has a value of its kind, a fused ranking keeps
\* to the limit of its request, a request that runs holds its handle open, and
\* an index is one of a dataset that is there.
THEOREM QueryTypeCorrect == QuerySpec => []QueryTypeOK
<1>1. BaseInv /\ RoleInv /\ IndexInv /\ FoundInv => QueryTypeOK
  <2> SUFFICES ASSUME BaseInv, RoleInv, IndexInv, FoundInv PROVE QueryTypeOK
    OBVIOUS
  <2>1. ASSUME NEW r \in Readers
        PROVE  LET q == query[r] IN
               /\ q.req = None \/ q.req \in Requests
               /\ Running(r) => q.req # None /\ role[ReaderOf[r]] \in {"reader", "writer"}
               /\ q.outcome \in {"none", "ok", "refused", "failed"}
               /\ Len(q.fused.rows) <= (IF q.req = None THEN 0 ELSE q.req.limit)
               /\ \A n \in 1..Len(q.sets) : q.sets[n] \subseteq Nat
               /\ q.semantic \in Seq(Nat \X Texts) /\ q.lexical \in Seq(Nat)
    <3>1. Found(query[r]) /\ Shaped(query[r])
      BY <2>1 DEF FoundInv, BaseInv, ShapeInv
    <3>2. \A n \in 1..Len(query[r].sets) : query[r].sets[n] \subseteq Nat
      BY <3>1 DEF Found
    <3>3. Running(r) => query[r].req # None
      BY <3>1, QueryAssumption DEF Shaped, Running
    <3> QED BY <2>1, <3>1, <3>2, <3>3 DEF Found, RoleInv, Results
  <2> QED BY <2>1 DEF QueryTypeOK, IndexInv, BaseInv, ShapeInv
<1> QED
  BY <1>1, BaseInit, BaseStep, RoleInit, RoleStep, IndexInit, IndexStep, FoundInit,
     FoundStep, PTL DEF QuerySpec

-----------------------------------------------------------------------------
(* The fused ranking. *)

\* A hybrid search fuses in the last step but one, and what it has then is the
\* fusion of what it has found.
FuseInv ==
  \A r \in Readers :
    LET q == query[r] IN
    Running(r) /\ q.req.op = "hybrid_search" =>
      /\ Len(q.todo) >= 2 => q.todo[Len(q.todo) - 1] = "fuse"
      /\ Len(q.todo) = 1 =>
           \E docs : q.fused = Fuse(RowsOf(q.semantic), q.lexical, docs, q.req.limit)

LEMMA FuseInit == QueryInit => FuseInv
<1>1. Resting.todo = <<>>
  BY DEF Resting
<1> QED
  BY <1>1 DEF QueryInit, FuseInv, Running

LEMMA FuseStep == BaseInv /\ FuseInv /\ [QueryNext]_queryVars => FuseInv'
<1> SUFFICES ASSUME BaseInv, FuseInv, [QueryNext]_queryVars, NEW r \in Readers,
                    Running(r)', query'[r].req.op = "hybrid_search"
             PROVE  LET n == query'[r] IN
                    /\ Len(n.todo) >= 2 => n.todo[Len(n.todo) - 1] = "fuse"
                    /\ Len(n.todo) = 1 =>
                         \E docs : n.fused = Fuse(RowsOf(n.semantic), n.lexical, docs, n.req.limit)
  BY DEF FuseInv
<1> DEFINE q == query[r]
           n == query'[r]
<1>1. CASE Kept(r)
  <2>1. /\ Running(r) /\ n.req = q.req /\ n.todo = q.todo /\ n.semantic = q.semantic
        /\ n.lexical = q.lexical /\ n.fused = q.fused
    BY <1>1 DEF Kept, Running
  <2> QED BY <2>1 DEF FuseInv
<1>2. CASE Ended(r)
  BY <1>2 DEF Ended, Running
<1>3. CASE Started(r)
  <2>1. n.todo = <<"vectors", "record", "text", "record", "fuse", "record">>
    BY <1>3 DEF Started, Plan
  <2> QED BY <2>1
<1>4. CASE WentOn(r)
  <2>1. PICK f : /\ Finds(r, f) /\ Len(f.todo) # 1 /\ n.req = f.req /\ n.todo = Tail(f.todo)
                 /\ n.semantic = f.semantic /\ n.lexical = f.lexical /\ n.fused = f.fused
    BY <1>4 DEF WentOn
  <2>2. /\ q.todo \in Seq(Steps) /\ q.todo # <<>> /\ n.todo = Tail(q.todo) /\ Len(q.todo) # 1
        /\ n.req = q.req /\ Running(r)
    BY <1>4, <2>1 DEF WentOn, Running, Shaped, Finds, BaseInv, ShapeInv
  <2> DEFINE todo == q.todo
             tail == n.todo
  <2>3. /\ Len(todo) \in Nat /\ Len(todo) >= 2 /\ Len(tail) = Len(todo) - 1
        /\ Head(todo) = todo[1] /\ \A i \in 1..Len(tail) : tail[i] = todo[i + 1]
    <3>1. todo \in Seq(Steps) /\ todo # <<>> /\ tail = Tail(todo) /\ Len(todo) # 1
      BY <2>2
    <3> HIDE DEF todo, tail
    <3> QED BY <3>1, TailFacts
  <2>4. todo[Len(todo) - 1] = "fuse"
    BY <2>2, <2>3 DEF FuseInv
  <2>5. ASSUME Len(tail) >= 2 PROVE tail[Len(tail) - 1] = "fuse"
    <3>1. Len(tail) - 1 \in 1..Len(tail) /\ (Len(tail) - 1) + 1 = Len(todo) - 1
      BY <2>3, <2>5
    <3> QED BY <2>3, <2>4, <3>1
  <2>6. ASSUME Len(tail) = 1
        PROVE  \E docs : n.fused = Fuse(RowsOf(n.semantic), n.lexical, docs, n.req.limit)
    <3>1. Len(todo) - 1 = 1
      BY <2>3, <2>6
    <3>2. Head(q.todo) = "fuse"
      BY <2>3, <2>4, <3>1
    <3>3. At(r, "fuse") /\ ~At(r, "vectors") /\ ~At(r, "text")
      BY <2>2, <3>2 DEF At
    <3>4. n.fused = Fuse(RowsOf(q.semantic), q.lexical,
                         Cardinality(DOMAIN Live(q.req.table)), q.req.limit)
          /\ n.semantic = q.semantic /\ n.lexical = q.lexical
      BY <2>1, <3>3 DEF Finds
    <3> QED BY <2>2, <3>4
  <2> QED BY <2>5, <2>6
<1> QED
  BY <1>1, <1>2, <1>3, <1>4, RequestStep DEF BaseInv

\* A hybrid search that answers returns the fusion of the two lists it found.
LEMMA AnswersFused ==
  ASSUME BaseInv, FoundInv, FuseInv, [QueryNext]_queryVars, NEW r \in Readers,
         Answers(r, {"hybrid_search"})
  PROVE  /\ RowsOf(query[r].semantic) \in Seq(Nat)
         /\ query[r].lexical \in Seq(Nat) /\ Distinct(query[r].lexical)
         /\ query[r].req.limit \in Nat
         /\ \E docs : query[r].fused =
              Fuse(RowsOf(query[r].semantic), query[r].lexical, docs, query[r].req.limit)
<1> DEFINE q == query[r]
<1>1. Running(r) /\ q.req.op = "hybrid_search" /\ query'[r].outcome = "ok"
  BY DEF Answers
<1>2. q.outcome = "none" /\ q.req.limit \in Nat
  BY <1>1, QueryAssumption DEF BaseInv, ShapeInv, Shaped, Running, IsRequest
<1>3. Len(q.todo) = 1
  <2>1. ~Kept(r) /\ ~Started(r) /\ ~WentOn(r)
    BY <1>1, <1>2 DEF Kept, Started, WentOn, Finds
  <2> QED BY <1>1, <2>1, RequestStep DEF BaseInv, Ended
<1>4. Found(q)
  BY DEF FoundInv
<1>5. RowsOf(q.semantic) \in Seq(Nat)
  BY <1>4, RowsOfType DEF Found
<1> QED
  BY <1>1, <1>2, <1>3, <1>4, <1>5 DEF FuseInv, Found

\* AC-37, of what a hybrid search returns, for every limit, k and list: where no
\* row is near in two of its chunks, each score is the sum of 1 / (k + rank)
\* over the lists that hold the row, the ranks are its places, and the ranking
\* is by score and then by row id.
THEOREM FusedRight == QuerySpec => FusedByFormula
<1>1. ASSUME BaseInv, FoundInv, FuseInv, [QueryNext]_queryVars, NEW r \in Readers,
             Answers(r, {"hybrid_search"}), Distinct(RowsOf(query[r].semantic))
      PROVE  ByFormula(RowsOf(query[r].semantic), query[r].lexical, query[r].fused)
  BY <1>1, AnswersFused, FuseByFormula
<1>2. BaseInv /\ FoundInv /\ FuseInv /\ [QueryNext]_queryVars =>
        [\A r \in Readers :
           Answers(r, {"hybrid_search"}) =>
             LET q == query[r]
                 v == RowsOf(q.semantic)
             IN Distinct(v) => ByFormula(v, q.lexical, q.fused)]_queryVars
  BY <1>1
<1> QED
  BY <1>2, BaseInit, BaseStep, FoundInit, FoundStep, FuseInit, FuseStep, PTL
     DEF QuerySpec, FusedByFormula

\* Of what a hybrid search returns, a row that both sides ranked no lower than
\* k + 1 comes before every row that one side found in one place.
THEOREM BothBeat == QuerySpec => BothBeatOne
<1>1. ASSUME BaseInv, FoundInv, FuseInv, [QueryNext]_queryVars, NEW r \in Readers,
             Answers(r, {"hybrid_search"})
      PROVE  BothFirst(RowsOf(query[r].semantic), query[r].lexical, query[r].fused)
  BY <1>1, AnswersFused, FusePrefersBoth
<1>2. BaseInv /\ FoundInv /\ FuseInv /\ [QueryNext]_queryVars =>
        [\A r \in Readers :
           Answers(r, {"hybrid_search"}) =>
             BothFirst(RowsOf(query[r].semantic), query[r].lexical, query[r].fused)]_queryVars
  BY <1>1
<1> QED
  BY <1>2, BaseInit, BaseStep, FoundInit, FoundStep, FuseInit, FuseStep, PTL
     DEF QuerySpec, BothBeatOne
=============================================================================
