------------------------------ MODULE MCQuery ------------------------------
(* A small instance of the queries beside the writes they read. *)
EXTENDS Query

OneTask == {"t1"}
TaskOnFirst == [t \in Tasks |-> "h1"]
OnlyH1 == {"h1"}
OneReader == {"r1"}
ReaderOnFirst == [r \in Readers |-> "h1"]
JustDocs == {"docs"}
TwoTexts == {"a", "b"}
\* The first text is long enough for two chunks.
TwoChunksOfA == [x \in Texts |-> IF x = "a" THEN 2 ELSE 1]
AllGranted == [h \in Handles |-> Tables \X Scopes]

Call(op, where, set) == [op |-> op, table |-> "docs", where |-> where, set |-> set]

SomeCalls ==
  {Call("create", {}, None), Call("append", {}, "a"),
   Call("update", {"a"}, "b"), Call("delete", {"b"}, None), Call("drop", {}, None)}

Request(op, where, limit) ==
  [op |-> op, table |-> "docs", where |-> where, limit |-> limit]

AllKinds ==
  {Request("scan", <<Texts>>, 0), Request("row_ids_all", <<Texts, {"a"}>>, 0),
   Request("row_ids_any", <<{"a"}, {"b"}>>, 0), Request("row_ids_any", <<>>, 0),
   Request("filtered_search", <<{"b"}>>, 1), Request("row_ids_measured", <<{"a"}>>, 0),
   Request("semantic_search", <<>>, 3), Request("text_search", <<{"a"}>>, 1),
   Request("hybrid_search", <<Texts>>, 2), Request("hybrid_search", <<Texts>>, 1),
   Request("create_index", <<>>, 0),
   Request("create_text_index", <<>>, 0), Request("create_vector_index", <<>>, 0)}
=============================================================================
