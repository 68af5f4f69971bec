------------------------------ MODULE MCStore ------------------------------
(* Small instances of the table store. *)
EXTENDS Store

TwoHandles == {"h1", "h2"}
OneHandle == {"h1"}
TwoTasks == {"t1", "t2"}
OneTask == {"t1"}
OneTaskEach == [t \in Tasks |-> IF t = "t1" THEN "h1" ELSE "h2"]
AllOnOne == [t \in Tasks |-> "h1"]
DocsAndNotes == {"docs", "notes"}
JustDocs == {"docs"}
TwoTexts == {"a", "b"}
OnlyH1 == {"h1"}

AllGranted == [h \in Handles |-> Tables \X Scopes]
\* h1 is the authority's own handle; h2 may do anything with notes, and write to
\* docs without reading it.
OneGranted ==
  [h \in Handles |-> IF h = "h1" THEN Tables \X Scopes
                    ELSE ({"notes"} \X Scopes) \cup {<<"docs", "write">>}]

Call(op, tb, where, set) == [op |-> op, table |-> tb, where |-> where, set |-> set]

Writing(tb) ==
  {Call("create", tb, {}, None), Call("append", tb, {}, "a"),
   Call("update", tb, {"a"}, "b"), Call("update", tb, {"a"}, None),
   Call("delete", tb, {"b"}, None), Call("delete", tb, {"a", "b"}, None)}

\* Everything on the embedding table, except that it is never dropped, beside a
\* plain one that is.
UsualCalls ==
  Writing("docs")
    \cup {Call("create", "notes", {}, None), Call("append", "notes", {}, "a"),
          Call("drop", "notes", {}, None)}

DocsCalls == Writing("docs")

AppendCalls == {Call("create", "docs", {}, None), Call("append", "docs", {}, "a")}

DropCalls == AppendCalls \cup {Call("drop", "docs", {}, None), Call("append", "docs", {}, "b")}
=============================================================================
