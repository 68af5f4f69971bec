------------------------------- MODULE Query -------------------------------
(***************************************************************************)
(* The reading half of the table store (store.rs, database.rs): scans, row *)
(* ids of several predicates, searches of vectors and of text, their       *)
(* fusion, and the building of indexes, beside the writes of Store.        *)
(*                                                                         *)
(* A request is a sequence of steps.  Each step that touches a table opens *)
(* the newest version of it, so the steps of one request may see different *)
(* versions; each record may fail, and the request fails with it.  How the *)
(* format orders what it finds (BM25, distance) is its own: any order.     *)
(***************************************************************************)
EXTENDS Store, Fusion

CONSTANTS
  Readers,      \* requests in progress
  ReaderOf,     \* the handle each one uses
  Requests,     \* the requests they make, a subset of AllRequests
  ChunksOf      \* the number of vectors of each text

PredicateOps == {"row_ids_all", "row_ids_any", "filtered_search"}
SearchOps == {"semantic_search", "text_search", "hybrid_search"}
IndexOps == {"create_index", "create_text_index", "create_vector_index"}
OtherOps == {"scan", "row_ids_measured"}
AllOps == PredicateOps \cup SearchOps \cup IndexOps \cup OtherOps

\* A request names its operation and table, its predicates (or, for a search of
\* the text, the texts its words occur in) and how many hits it wants.
IsRequest(q) ==
  /\ q = [op |-> q.op, table |-> q.table, where |-> q.where, limit |-> q.limit]
  /\ q.op \in AllOps /\ q.table \in Tables /\ q.limit \in Nat
  /\ q.where \in Seq(SUBSET Texts)
  /\ q.op \in OtherOps \cup {"text_search", "hybrid_search"} => q.where # <<>>

ASSUME QueryAssumption ==
  /\ ReaderOf \in [Readers -> Handles]
  /\ None \notin Requests /\ \A q \in Requests : IsRequest(q)
  /\ ChunksOf \in [Texts -> Nat \ {0}]

VARIABLES
  textIndex,    \* tables with a full-text index
  vectorIndex,  \* tables whose companion has a vector index
  query,        \* each reader's request and what it has found
  dropped       \* history: tables that have been dropped

indexes == <<textIndex, vectorIndex>>
reading == <<indexes, query, dropped>>
queryVars == <<vars, reading>>

-----------------------------------------------------------------------------
(* Requests. *)

\* The steps of a request after its checks.
Plan(q) ==
  CASE q.op \in {"row_ids_all", "row_ids_any"} -> [i \in 1..Len(q.where) |-> "ids"]
    [] q.op = "filtered_search" ->
         [i \in 1..Len(q.where) |-> "ids"] \o <<"candidates">>
    [] q.op = "row_ids_measured" -> <<"ids", "analyse">>
    [] q.op = "scan" -> <<"ids", "record">>
    [] q.op = "semantic_search" -> <<"vectors", "record">>
    [] q.op = "text_search" -> <<"text", "record">>
    [] q.op = "hybrid_search" ->
         <<"vectors", "record", "text", "record", "fuse", "record">>
    [] q.op = "create_index" -> <<"key_index">>
    [] q.op = "create_text_index" -> <<"text_index", "record">>
    [] q.op = "create_vector_index" -> <<"vector_index", "record">>

NoFusion == [rows |-> <<>>, hits |-> <<>>, effective_k |-> 0]

\* A reader that has asked nothing yet.
Resting ==
  [req |-> None, todo |-> <<>>, outcome |-> "none", sets |-> <<>>,
   semantic |-> <<>>, lexical |-> <<>>, fused |-> NoFusion,
   first |-> NoRows, intact |-> FALSE]

Running(r) == query[r].todo # <<>>

\* No call is changing the table, and the last one that did ended with Ok.
Settled(tb) == tb \notin unsettled /\ \A t \in Tasks : ~Changing(t, tb)

\* The checks before anything is read: the facade embeds the query of a search
\* first (NoEmbedder); an empty list of predicates is refused
\* (NothingToCombine); then the token, and for an index the write role.
Refused(h, q) ==
  \/ q.op \in {"semantic_search", "hybrid_search"} /\ h \notin Embeds
  \/ q.op \in PredicateOps /\ q.where = <<>>
  \/ ~Permits(h, q.table, IF q.op \in IndexOps THEN "schema" ELSE "read")
  \/ q.op \in IndexOps /\ role[h] # "writer"

\* A request begins.  History: a search is intact if it meets the table settled
\* and nothing changes until it returns, the others if the table is not dropped.
Ask(r, q) ==
  /\ ~Running(r)
  /\ role[ReaderOf[r]] \in {"reader", "writer"}
  /\ query' = [query EXCEPT ![r] =
       IF Refused(ReaderOf[r], q) THEN [Resting EXCEPT !.outcome = "refused"]
       ELSE [Resting EXCEPT !.req = q, !.todo = Plan(q),
                            !.intact = q.op \in SearchOps => Settled(q.table)]]
  /\ UNCHANGED <<vars, indexes, dropped>>

\* The embedder fails on the text of the query.
EmbedQueryFails(r, q) ==
  /\ ~Running(r)
  /\ role[ReaderOf[r]] \in {"reader", "writer"}
  /\ q.op \in {"semantic_search", "hybrid_search"} /\ ReaderOf[r] \in Embeds
  /\ faults < MaxFaults
  /\ faults' = faults + 1
  /\ query' = [query EXCEPT ![r] = [Resting EXCEPT !.outcome = "failed"]]
  /\ UNCHANGED <<lock, role, data, logged, pc, call, work, outcome, committed,
                 gap, unsettled, indexes, dropped>>

\* The request of r is at this step.
At(r, step) == Running(r) /\ Head(query[r].todo) = step

\* The step is done, with these results; after the last one the request is, and
\* they are the caller's.
Proceed(r, found) ==
  query' = [query EXCEPT ![r] =
              IF Len(found.todo) = 1 THEN [Resting EXCEPT !.outcome = "ok"]
              ELSE [found EXCEPT !.todo = Tail(@)]]

\* An error ends the request, and nothing of what it found is returned.
Broken(r) == query' = [query EXCEPT ![r] = [Resting EXCEPT !.outcome = "failed"]]

\* The first of several reads keeps a copy of the rows (history).
Begun(q, rows) == IF q.sets = <<>> THEN [q EXCEPT !.first = rows] ELSE q

\* The predicate the next read answers; a scan has none, so its one predicate
\* holds of every text.
Asked(q) == q.req.where[Len(q.sets) + 1]

\* The request with the rows that match its next predicate.
WithIds(q) ==
  [Begun(q, Live(q.req.table)) EXCEPT
     !.sets = Append(@, Matching(tables[q.req.table], Asked(q)))]

\* row_ids, once for each predicate, and scan.
ReadIds(r) ==
  /\ At(r, "ids")
  /\ \/ ~Exists(query[r].req.table) /\ Broken(r)
     \/ Exists(query[r].req.table) /\ Proceed(r, WithIds(query[r]))
  /\ UNCHANGED <<vars, indexes, dropped>>

\* row_ids_measured and scan_ordered_measured open the table again and run the
\* plan a second time, for its metrics only.
Analyse(r) ==
  /\ At(r, "analyse")
  /\ \/ ~Exists(query[r].req.table) /\ Broken(r)
     \/ Exists(query[r].req.table) /\ Proceed(r, query[r])
  /\ UNCHANGED <<vars, indexes, dropped>>

\* Mutant: the sets are united.
IntersectAllUnites(sets) == UNION Members(sets)

\* Every row that is in all of the sets.
IntersectAll(sets) == {i \in sets[1] : \A n \in 1..Len(sets) : i \in sets[n]}

\* Every row that is in any of the sets.
UnionAll(sets) == UNION Members(sets)

\* filtered_search hands the filtered rows to the candidate source, which
\* returns some of them (its contract).
Candidates(r) ==
  /\ At(r, "candidates")
  /\ \E rows \in SUBSET IntersectAll(query[r].sets) :
       /\ Cardinality(rows) <= query[r].req.limit
       /\ Proceed(r, [query[r] EXCEPT !.sets = Append(@, rows)])
  /\ UNCHANGED <<vars, indexes, dropped>>

\* The sequences of n members of S, or of all of them if they are fewer.
Orders(S, n) ==
  LET size == IF n < Cardinality(S) THEN n ELSE Cardinality(S)
  IN {s \in [1..size -> S] : Distinct(s)}

\* The vectors in a companion table, one for each chunk of each row.
Chunks(tb) == UNION {{i} \X (1..ChunksOf[Vectors(tb)[i]]) : i \in DOMAIN Vectors(tb)}

\* A search of the vectors returns the nearest n in order, each with its row and
\* the text it embeds; through an index, which approximates, it may miss some.
Nearest(tb, n) ==
  LET orders == IF tb \in vectorIndex
                THEN UNION {Orders(Chunks(tb), m) : m \in 0..n}
                ELSE Orders(Chunks(tb), n)
  IN {[p \in DOMAIN s |-> <<s[p][1], Vectors(tb)[s[p][1]]>>] : s \in orders}

\* hybrid_search asks both sides for twice as many as the caller wants.
Breadth(q) == IF q.op = "hybrid_search" THEN 2 * q.limit ELSE q.limit

\* nearest
SearchVectors(r) ==
  /\ At(r, "vectors")
  /\ LET q == query[r]
         tb == q.req.table IN
       \/ ~companion[tb].there /\ Broken(r)
       \/ /\ companion[tb].there
          /\ \E found \in Nearest(tb, Breadth(q.req)) :
               Proceed(r, [q EXCEPT !.semantic = found])
  /\ UNCHANGED <<vars, indexes, dropped>>

\* search_text: without an index the format refuses; with one, rows that came
\* after it are found as well.
SearchText(r) ==
  /\ At(r, "text")
  /\ LET q == query[r]
         tb == q.req.table IN
       \/ (~Exists(tb) \/ tb \notin textIndex) /\ Broken(r)
       \/ /\ Exists(tb) /\ tb \in textIndex
          /\ \E found \in Orders(Matching(tables[tb], q.req.where[1]), Breadth(q.req)) :
               Proceed(r, [q EXCEPT !.lexical = found])
  /\ UNCHANGED <<vars, indexes, dropped>>

\* The rows of the hits, in order, with a row for every chunk that was near.
RowsOf(semantic) == [p \in DOMAIN semantic |-> semantic[p][1]]

\* hybrid_search counts the rows of the table and fuses the two rankings.
FuseBoth(r) ==
  /\ At(r, "fuse")
  /\ LET q == query[r]
         tb == q.req.table IN
       \/ ~Exists(tb) /\ Broken(r)
       \/ /\ Exists(tb)
          /\ Proceed(r, [q EXCEPT !.fused =
               Fuse(RowsOf(q.semantic), q.lexical, Cardinality(DOMAIN Live(tb)),
                    q.req.limit)])
  /\ UNCHANGED <<vars, indexes, dropped>>

\* The read is recorded, if this handle records anything.
RecordRead(r) ==
  /\ At(r, "record")
  /\ Proceed(r, query[r])
  /\ UNCHANGED <<vars, indexes, dropped>>

\* A failing log fails the read.
RecordReadFails(r) ==
  /\ At(r, "record")
  /\ ReaderOf[r] \in Audited
  /\ faults < MaxFaults
  /\ faults' = faults + 1
  /\ Broken(r)
  /\ UNCHANGED <<lock, role, data, logged, pc, call, work, outcome, committed,
                 gap, unsettled, indexes, dropped>>

\* create_index and create_text_index.  An index over a column changes which
\* rows a lookup examines and not which it returns, so none is kept here; a
\* search of the text needs its index.
IndexTable(r) ==
  /\ At(r, "key_index") \/ At(r, "text_index")
  /\ LET tb == query[r].req.table IN
       \/ ~Exists(tb) /\ Broken(r) /\ UNCHANGED textIndex
       \/ /\ Exists(tb)
          /\ textIndex' = IF At(r, "text_index") THEN textIndex \cup {tb} ELSE textIndex
          /\ Proceed(r, query[r])
  /\ UNCHANGED <<vars, vectorIndex, dropped>>

\* create_vector_index: over the companion table, if it has enough vectors for
\* the format to train an index on.
IndexVectors(r) ==
  /\ At(r, "vector_index")
  /\ LET tb == query[r].req.table IN
       \/ Broken(r) /\ UNCHANGED vectorIndex
       \/ /\ companion[tb].there /\ Chunks(tb) # {}
          /\ vectorIndex' = vectorIndex \cup {tb}
          /\ Proceed(r, query[r])
  /\ UNCHANGED <<vars, textIndex, dropped>>

-----------------------------------------------------------------------------
(* What the writes of Store do to the indexes and to requests in progress. *)

\* Tables whose vectors this step writes anew.
Rewritten ==
  {call[t].table : t \in {u \in Tasks : pc[u] = "overwrite" /\ outcome'[u] = "ok"}}

Gone == {tb \in Tables : Exists(tb) /\ ~tables'[tb].there}

Changed == Rewritten \cup {tb \in Tables : tables'[tb] # tables[tb]}

\* An index lives in its dataset: it goes when the table is dropped, and the
\* vector index when the companion is overwritten.
IndexesGo ==
  /\ textIndex' = textIndex \ Gone
  /\ vectorIndex' = vectorIndex \ Rewritten

\* What a running request has read may no longer be so (history).
Follow ==
  /\ IndexesGo
  /\ dropped' = dropped \cup Gone
  /\ query' = [r \in Readers |->
       IF ~Running(r) THEN query[r]
       ELSE [query[r] EXCEPT !.intact =
               @ /\ query[r].req.table \notin
                      (IF query[r].req.op \in SearchOps THEN Changed ELSE Gone)]]

ReadersOf(h) == {r \in Readers : ReaderOf[r] = h}

\* A request borrows its handle.
CloseUnused(h) ==
  /\ \A r \in ReadersOf(h) : ~Running(r)
  /\ Close(h)
  /\ UNCHANGED reading

\* The requests of a process die with it.
CrashAll(h) ==
  /\ Crash(h)
  /\ query' = [r \in Readers |->
       IF r \in ReadersOf(h) /\ Running(r) THEN Resting
       ELSE query[r]]
  /\ UNCHANGED <<indexes, dropped>>

QueryInit ==
  /\ Init
  /\ textIndex = {} /\ vectorIndex = {}
  /\ query = [r \in Readers |-> Resting]
  /\ dropped = {}

QueryStep(r) ==
  \/ ReadIds(r) \/ Analyse(r) \/ Candidates(r)
  \/ SearchVectors(r) \/ SearchText(r) \/ FuseBoth(r)
  \/ RecordRead(r) \/ RecordReadFails(r) \/ IndexTable(r) \/ IndexVectors(r)

QueryNext ==
  \/ \E h \in Handles :
        \/ (OpenForWriting(h) \/ OpenForReading(h)) /\ UNCHANGED reading
        \/ CloseUnused(h) \/ CrashAll(h)
  \/ \E t \in Tasks :
        /\ (\E c \in Calls : Begin(t, c)) \/ Step(t) \/ RecordFails(t) \/ EmbedFails(t)
        /\ Follow
  \/ \E r \in Readers :
        \/ \E q \in Requests : Ask(r, q) \/ EmbedQueryFails(r, q)
        \/ QueryStep(r)

QuerySpec == QueryInit /\ [][QueryNext]_queryVars

-----------------------------------------------------------------------------
(* Properties. *)

\* Every request has a value of its kind at every step: a running one holds its
\* handle open and what it has found are row ids, a fused ranking has no more
\* rows than were asked for, and an index is one of a dataset that is there.
QueryTypeOK ==
  /\ textIndex \subseteq {tb \in Tables : Exists(tb)}
  /\ vectorIndex \subseteq {tb \in Tables : companion[tb].there}
  /\ dropped \subseteq Tables
  /\ DOMAIN query = Readers
  /\ \A r \in Readers :
       LET q == query[r] IN
       /\ q.req = None \/ q.req \in Requests
       /\ Running(r) => q.req # None /\ role[ReaderOf[r]] \in {"reader", "writer"}
       /\ q.outcome \in {"none", "ok", "refused", "failed"}
       /\ Len(q.fused.rows) <= (IF q.req = None THEN 0 ELSE q.req.limit)
       /\ \A n \in 1..Len(q.sets) : q.sets[n] \subseteq Nat
       /\ q.semantic \in Seq(Nat \X Texts) /\ q.lexical \in Seq(Nat)

\* The request of r returns in this step, with an answer.
Answers(r, ops) ==
  /\ Running(r) /\ query[r].req.op \in ops
  /\ query'[r].outcome = "ok"

\* row_ids_all and row_ids_any open the table anew for each predicate.  The
\* answer is still that of one question, whatever is written in between, unless
\* the table is dropped meanwhile.  The first returns the rows that were there
\* from the first read to the last and match every predicate; the second misses
\* none that was there throughout and matches one, and of the rows that were
\* there at the start it returns no other.
OneQuestion ==
  [][\A r \in Readers :
       Answers(r, {"row_ids_all", "row_ids_any"}) /\ query[r].intact =>
         LET q == WithIds(query[r])
             where == q.req.where
             now == DOMAIN Live(q.req.table)
             every == {i \in DOMAIN q.first : \A n \in DOMAIN where : q.first[i] \in where[n]}
             some == {i \in DOMAIN q.first : \E n \in DOMAIN where : q.first[i] \in where[n]}
         IN IF q.req.op = "row_ids_all"
            THEN IntersectAll(q.sets) = every \cap now
            ELSE /\ some \cap now \subseteq UnionAll(q.sets)
                 /\ UnionAll(q.sets) \cap DOMAIN q.first \subseteq some]_queryVars

\* A vector search finds what is there, once the last write has returned Ok: no
\* hit is of a row that is gone, and a search that returns fewer hits than it
\* was asked for has found every row, also after writes that were interrupted
\* and made good by a later one, and after an index was overwritten.
SearchFindsAll ==
  [][\A r \in Readers :
       LET q == query[r]
           tb == q.req.table
           found == Members(RowsOf(q.semantic))
       IN /\ Answers(r, {"semantic_search", "hybrid_search"})
          /\ q.intact
          /\ tb \in AutoTables \ (dropped \cup vectorIndex)
          => /\ found \subseteq DOMAIN Live(tb)
             /\ Len(q.semantic) < Breadth(q.req) => found = DOMAIN Live(tb)]_queryVars

\* A row is never found for a text it does not hold: if the row of a hit is
\* there when the search returns, the vector that was near is one of its text,
\* however the search and the writes overlapped.
HitsAreTrue ==
  [][\A r \in Readers :
       Answers(r, {"semantic_search", "hybrid_search"}) =>
         LET q == query[r]
             tb == q.req.table
         IN tb \notin dropped =>
              \A p \in DOMAIN q.semantic :
                LET row == q.semantic[p][1]
                IN row \in DOMAIN Live(tb) => q.semantic[p][2] = Live(tb)[row]]_queryVars

\* AC-37: where no list names a row twice, the score of every hit is the sum
\* of 1 / (k + rank) over the lists that hold it, the ranks it reports are its
\* places, and the ranking is by score, equal scores by row id.
FusedByFormula ==
  [][\A r \in Readers :
       Answers(r, {"hybrid_search"}) =>
         LET q == query[r]
             v == RowsOf(q.semantic)
         IN Distinct(v) => ByFormula(v, q.lexical, q.fused)]_queryVars

\* Fusion's purpose: a row that both sides ranked no lower than k + 1 comes
\* before every row that only one side found, in one place, however high.
BothBeatOne ==
  [][\A r \in Readers :
       Answers(r, {"hybrid_search"}) =>
         BothFirst(RowsOf(query[r].semantic), query[r].lexical, query[r].fused)]_queryVars
=============================================================================
