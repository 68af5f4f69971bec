------------------------------- MODULE Schema -------------------------------
(***************************************************************************)
(* The declared shape of a table (schema.rs), the compression that is      *)
(* written onto it (compression.rs, definition.rs) and taken off again     *)
(* when rows are read.  A schema is a sequence of fields; the metadata of  *)
(* a field maps keys to values.                                            *)
(***************************************************************************)
EXTENDS Integers, Sequences

AUTO_EMBEDDING_KEY == "euledb:auto-embedding"
COMPRESSION_KEY == "lance-encoding:compression"
LEVEL_KEY == "lance-encoding:compression-level"

EncodingKeys == {COMPRESSION_KEY, LEVEL_KEY}

\* A field with other metadata.
WithMetadata(field, metadata) ==
  [name |-> field.name, type |-> field.type, nullable |-> field.nullable,
   metadata |-> metadata]

IsField(field) ==
  /\ field = WithMetadata(field, field.metadata)
  /\ field.metadata = [key \in DOMAIN field.metadata |-> field.metadata[key]]

IsSchema(schema) ==
  /\ schema = [i \in DOMAIN schema |-> schema[i]]
  /\ \A i \in DOMAIN schema : IsField(schema[i])

\* HashMap::extend: what is there already is overwritten.
Extended(map, more) ==
  [key \in DOMAIN map \cup DOMAIN more |->
     IF key \in DOMAIN more THEN more[key] ELSE map[key]]

Without(map, keys) == [key \in DOMAIN map \ keys |-> map[key]]

-----------------------------------------------------------------------------
(* Columns that embed themselves. *)

AutoEmbedding(schema, column) ==
  [i \in DOMAIN schema |->
     IF schema[i].name # column THEN schema[i]
     ELSE WithMetadata(schema[i],
            Extended(schema[i].metadata, [key \in {AUTO_EMBEDDING_KEY} |-> "true"]))]

AutoEmbeddingColumns(schema) ==
  {schema[i].name : i \in {n \in DOMAIN schema :
                             AUTO_EMBEDDING_KEY \in DOMAIN schema[n].metadata}}

-----------------------------------------------------------------------------
(* Compression. *)

\* ZstdLevel::new
Level(n) == n \in 1..22

\* A compression is its kind, and a level if it is zstd.
Metadata(compression) ==
  IF compression.kind = "zstd"
  THEN [key \in EncodingKeys |->
          IF key = COMPRESSION_KEY THEN "zstd" ELSE compression.level]
  ELSE [key \in {COMPRESSION_KEY} |-> "none"]

\* create_table declares the dataset with the compression on every column.
AppliedTo(compression, schema) ==
  [i \in DOMAIN schema |->
     WithMetadata(schema[i], Extended(schema[i].metadata, Metadata(compression)))]

\* Every read takes the keys off again.
StrippedFrom(schema) ==
  [i \in DOMAIN schema |->
     WithMetadata(schema[i], Without(schema[i].metadata, EncodingKeys))]

\* The caller's own schema does not use the keys of the encoding.
Plain(schema) == \A i \in DOMAIN schema : DOMAIN schema[i].metadata \cap EncodingKeys = {}

-----------------------------------------------------------------------------
(* Checking a batch against the declaration. *)

Names(schema) == {schema[i].name : i \in DOMAIN schema}

\* column_with_name: the first column of that name.
ColumnWithName(schema, name) ==
  schema[CHOOSE i \in DOMAIN schema :
           /\ schema[i].name = name
           /\ \A j \in DOMAIN schema : schema[j].name = name => i <= j]

\* A column of the batch is what the declaration asks for, or stricter.
Fits(declared, found) ==
  found.type = declared.type /\ (found.nullable => declared.nullable)

\* What validate says of the column the declaration names at i.
Mismatch(schema, batch, i) ==
  LET declared == schema[i]
      found == ColumnWithName(batch, declared.name)
  IN CASE declared.name \notin Names(batch) -> "missing"
       [] declared.name \in Names(batch) /\ found.type # declared.type -> "type"
       [] /\ declared.name \in Names(batch) /\ found.type = declared.type
          /\ found.nullable /\ ~declared.nullable -> "nullability"
       [] OTHER -> "none"

\* validate: every declared column in turn, then every column of the batch.
Validates(schema, batch) ==
  /\ \A i \in DOMAIN schema : Mismatch(schema, batch, i) = "none"
  /\ \A j \in DOMAIN batch : batch[j].name \in Names(schema)

DistinctNames(schema) ==
  \A i, j \in DOMAIN schema : schema[i].name = schema[j].name => i = j
=============================================================================
