---------------------------- MODULE SchemaProofs ----------------------------
(* What writing and reading a schema keeps, and what validate lets through. *)
EXTENDS Schema, TLAPS

\* The keys of the metadata a compression adds are those of the encoding.
LEMMA MetadataKeys ==
  ASSUME NEW compression
  PROVE  DOMAIN Metadata(compression) \subseteq EncodingKeys
BY DEF Metadata, EncodingKeys

\* Metadata that uses none of these keys is the same after they have been added
\* and removed.
LEMMA ExtendedWithout ==
  ASSUME NEW map, map = [key \in DOMAIN map |-> map[key]],
         NEW more, NEW keys,
         DOMAIN more \subseteq keys, DOMAIN map \cap keys = {}
  PROVE  Without(Extended(map, more), keys) = map
<1> DEFINE extended == Extended(map, more)
<1>1. DOMAIN extended = DOMAIN map \cup DOMAIN more
  BY DEF Extended
<1>2. DOMAIN extended \ keys = DOMAIN map
  BY <1>1
<1>3. \A key \in DOMAIN map : extended[key] = map[key]
  BY DEF Extended
<1>4. Without(extended, keys) = [key \in DOMAIN map |-> extended[key]]
  BY <1>2 DEF Without
<1>5. QED
  BY <1>3, <1>4

\* A caller gets back the schema they declared: the keys create_table writes onto
\* every column are taken off by every read, and nothing else is
\* (compression.rs: "has to get *their* schema").
THEOREM ReadBack ==
  ASSUME NEW schema, IsSchema(schema), Plain(schema), NEW compression
  PROVE  StrippedFrom(AppliedTo(compression, schema)) = schema
<1> DEFINE applied == AppliedTo(compression, schema)
<1>1. DOMAIN applied = DOMAIN schema
  BY DEF AppliedTo
<1>2. ASSUME NEW i \in DOMAIN schema
      PROVE  WithMetadata(applied[i], Without(applied[i].metadata, EncodingKeys)) = schema[i]
  <2>1. applied[i] = WithMetadata(schema[i], Extended(schema[i].metadata, Metadata(compression)))
    BY DEF AppliedTo
  <2>2. Without(Extended(schema[i].metadata, Metadata(compression)), EncodingKeys)
          = schema[i].metadata
    <3>1. schema[i].metadata = [key \in DOMAIN schema[i].metadata |-> schema[i].metadata[key]]
      BY DEF IsSchema, IsField
    <3>2. DOMAIN schema[i].metadata \cap EncodingKeys = {}
      BY DEF Plain
    <3>3. DOMAIN Metadata(compression) \subseteq EncodingKeys
      BY MetadataKeys
    <3>4. QED
      BY <3>1, <3>2, <3>3, ExtendedWithout
  <2>3. /\ applied[i].metadata = Extended(schema[i].metadata, Metadata(compression))
        /\ applied[i].name = schema[i].name
        /\ applied[i].type = schema[i].type
        /\ applied[i].nullable = schema[i].nullable
    BY <2>1 DEF WithMetadata
  <2>4. WithMetadata(applied[i], schema[i].metadata) = schema[i]
    BY <2>3 DEF WithMetadata, IsSchema, IsField
  <2>5. QED
    BY <2>2, <2>3, <2>4
<1>3. StrippedFrom(applied) = [i \in DOMAIN schema |->
         WithMetadata(applied[i], Without(applied[i].metadata, EncodingKeys))]
  BY <1>1 DEF StrippedFrom
<1>4. StrippedFrom(applied) = [i \in DOMAIN schema |-> schema[i]]
  BY <1>2, <1>3
<1>5. QED
  BY <1>4 DEF IsSchema

\* The mark of the embedding is not one of the keys of the encoding.
LEMMA KeysDiffer == AUTO_EMBEDDING_KEY \notin EncodingKeys
BY DEF AUTO_EMBEDDING_KEY, EncodingKeys, COMPRESSION_KEY, LEVEL_KEY

\* Whatever compression a table is created with, the columns that embed
\* themselves are the ones that were declared to, when the stored schema is read
\* by reconcile as well as when it is handed back to a caller.
THEOREM EmbeddingKept ==
  ASSUME NEW schema, NEW compression
  PROVE  /\ AutoEmbeddingColumns(AppliedTo(compression, schema))
              = AutoEmbeddingColumns(schema)
         /\ AutoEmbeddingColumns(StrippedFrom(schema)) = AutoEmbeddingColumns(schema)
<1> DEFINE applied == AppliedTo(compression, schema)
           stripped == StrippedFrom(schema)
<1>1. DOMAIN applied = DOMAIN schema /\ DOMAIN stripped = DOMAIN schema
  BY DEF AppliedTo, StrippedFrom
<1>2. ASSUME NEW i \in DOMAIN schema
      PROVE  /\ applied[i].name = schema[i].name /\ stripped[i].name = schema[i].name
             /\ AUTO_EMBEDDING_KEY \in DOMAIN applied[i].metadata
                  <=> AUTO_EMBEDDING_KEY \in DOMAIN schema[i].metadata
             /\ AUTO_EMBEDDING_KEY \in DOMAIN stripped[i].metadata
                  <=> AUTO_EMBEDDING_KEY \in DOMAIN schema[i].metadata
  <2>1. /\ applied[i].name = schema[i].name
        /\ applied[i].metadata = Extended(schema[i].metadata, Metadata(compression))
    BY DEF AppliedTo, WithMetadata
  <2>2. /\ stripped[i].name = schema[i].name
        /\ stripped[i].metadata = Without(schema[i].metadata, EncodingKeys)
    BY DEF StrippedFrom, WithMetadata
  <2>3. DOMAIN applied[i].metadata = DOMAIN schema[i].metadata \cup DOMAIN Metadata(compression)
    BY <2>1 DEF Extended
  <2>4. DOMAIN stripped[i].metadata = DOMAIN schema[i].metadata \ EncodingKeys
    BY <2>2 DEF Without
  <2>5. QED
    BY <2>1, <2>2, <2>3, <2>4, MetadataKeys, KeysDiffer
<1>3. QED
  BY <1>1, <1>2 DEF AutoEmbeddingColumns

\* The first column of a name, where names are distinct, is the column of that
\* name.
LEMMA OnlyColumn ==
  ASSUME NEW batch, DOMAIN batch \subseteq Int, DistinctNames(batch),
         NEW j \in DOMAIN batch
  PROVE  ColumnWithName(batch, batch[j].name) = batch[j]
<1> DEFINE P(i) == /\ batch[i].name = batch[j].name
                   /\ \A k \in DOMAIN batch : batch[k].name = batch[j].name => i <= k
<1>1. P(j)
  BY DEF DistinctNames
<1>2. \A i \in DOMAIN batch : P(i) => i = j
  BY DEF DistinctNames
<1>3. (CHOOSE i \in DOMAIN batch : P(i)) = j
  BY <1>1, <1>2
<1>4. QED
  BY <1>3 DEF ColumnWithName

\* validate lets a batch with distinct column names through exactly when it has
\* the declared columns and no others, each of the declared type and nullable
\* only where the declaration is, in whatever order they come ("matched by name
\* rather than by position").
THEOREM ValidatesExactly ==
  ASSUME NEW schema, NEW batch, DOMAIN batch \subseteq Int, DistinctNames(batch)
  PROVE  Validates(schema, batch) <=>
           /\ Names(batch) = Names(schema)
           /\ \A i \in DOMAIN schema, j \in DOMAIN batch :
                batch[j].name = schema[i].name => Fits(schema[i], batch[j])
<1>1. ASSUME NEW i \in DOMAIN schema
      PROVE  Mismatch(schema, batch, i) = "none" <=>
               \E j \in DOMAIN batch :
                 batch[j].name = schema[i].name /\ Fits(schema[i], batch[j])
  <2>1. CASE schema[i].name \notin Names(batch)
    BY <2>1 DEF Mismatch, Names
  <2>2. CASE schema[i].name \in Names(batch)
    <3>1. PICK j \in DOMAIN batch : batch[j].name = schema[i].name
      BY <2>2 DEF Names
    <3>2. ColumnWithName(batch, schema[i].name) = batch[j]
      BY <3>1, OnlyColumn
    <3>3. Mismatch(schema, batch, i) = "none" <=> Fits(schema[i], batch[j])
      BY <2>2, <3>2 DEF Mismatch, Fits
    <3>4. \A k \in DOMAIN batch : batch[k].name = schema[i].name => k = j
      BY <3>1 DEF DistinctNames
    <3>5. QED
      BY <3>1, <3>3, <3>4
  <2>3. QED
    BY <2>1, <2>2
<1>2. ASSUME Validates(schema, batch)
      PROVE  /\ Names(batch) = Names(schema)
             /\ \A i \in DOMAIN schema, j \in DOMAIN batch :
                  batch[j].name = schema[i].name => Fits(schema[i], batch[j])
  <2>1. \A i \in DOMAIN schema : \E j \in DOMAIN batch :
          batch[j].name = schema[i].name /\ Fits(schema[i], batch[j])
    BY <1>1, <1>2 DEF Validates
  <2>2. Names(batch) = Names(schema)
    BY <1>2, <2>1 DEF Validates, Names
  <2>3. QED
    BY <2>1, <2>2 DEF DistinctNames
<1>3. ASSUME Names(batch) = Names(schema),
             \A i \in DOMAIN schema, j \in DOMAIN batch :
               batch[j].name = schema[i].name => Fits(schema[i], batch[j])
      PROVE  Validates(schema, batch)
  <2>1. \A i \in DOMAIN schema : \E j \in DOMAIN batch : batch[j].name = schema[i].name
    BY <1>3 DEF Names
  <2>2. \A j \in DOMAIN batch : batch[j].name \in Names(schema)
    BY <1>3 DEF Names
  <2>3. QED
    BY <1>1, <1>3, <2>1, <2>2 DEF Validates
<1>4. QED
  BY <1>2, <1>3
=============================================================================
