# A TLA+ model of EuleDB

EuleDB is an embedded database: tables kept as datasets of the lance format
under one directory, written by at most one process and read by many, with an
optional audit log, encryption at rest, capability tokens and text columns that
embed themselves. This directory holds TLA+ modules that model it, TLC
configurations that check them on small instances, and proofs that TLAPS checks
for every instance. Paths below are relative to `src/crates/euledb-storage/src`
unless they start with `src/`.

## The system

| Component | State | Operations | What is hard | What makes it correct |
|---|---|---|---|---|
| audit log (`audit.rs`) | one text file, one line per operation, hash-chained | `append`, `reanchor`, `verify`, `records` | every handle of every process appends; a write may stop part-way; the file may be edited | gapless numbering, no lost acknowledgement, a broken chain takes no record |
| writer lock (`writer_lock.rs`) | advisory lock on a file | `acquire`, drop | two processes at once; death of the holder | one writer at a time, released in every case |
| table store (`store.rs`, `mutation.rs`) | one dataset per table | create, append, update, delete, drop, scan, row-id queries | each write is a commit, a record and a reconcile, any of which may fail or be cut off | the log accounts for the rows; only the writer changes anything; an announced delete is the delete |
| auto-embedding (`reconcile`, `embedding.rs`) | a companion dataset of vectors per embedding column | `reconcile_all` after every write | interrupted writes, row ids that move, clones that write at once | no vector of another text; agreement after every write that returned Ok; healing |
| capability tokens (`crypto/capability.rs`) | a gate per handle | `grant`, `gated`, `require_scope` | checks in the middle of an operation | nothing changes without the token for it |
| keyring (`crypto/keyring.rs`) | data keys, the key wrapping them, the wrapped set | `create`, `open`, `to_keyfile`, `rotate_data_key`, `change_passphrase` | failures between two assignments; any order of changes and saves | the keyfile opens, no key is lost, no nonce is used twice |
| block frame (`crypto/frame.rs`) | none | `seal`, `open_span`, `ciphertext_span`, `plaintext_len` | boundaries of blocks | lengths invert, spans cover their range, nothing exchanged passes |
| encrypting object store (`crypto/store.rs`) | uploads in progress | put, upload in parts, ranged get, copy, delete, list | an object replaced between the two requests of a read; parts of any size; handles with older keys | reads return what was stored, or fail |
| provider (`crypto/provider.rs`) | none | registers the encrypted scheme with a session | writes that are given no session | modelled where it matters, in `Store!Overwrite` |
| indexes and search (`store.rs`, `search.rs`, `measurement.rs`) | indexes inside datasets | row ids of several predicates, filtered, semantic, text and hybrid search, building an index | every step of a request opens the newest version; writes, crashes and overwritten indexes come in between | an answer put together from several versions is that of one question; a search finds what is there and no row for a text it does not hold |
| rank fusion (`fusion.rs`) | none | `fuse` | ties, rows on one side only, rows named twice, the size that decides k | the scores and the order of the formula |
| schema, definition, compression (`schema.rs`, `definition.rs`, `compression.rs`) | metadata on the columns of a dataset | `validate`, `auto_embedding`, `applied_to`, `stripped_from` | keys of two owners in one map | a caller reads back their own schema; the mark of an embedding column survives |
| embedding model (`src/crates/euledb-embed`) | a cache of compiled plans under a mutex | `embed_passage`, `embed_query` | boundaries of chunks and buckets; threads that compile at once; a panic under the lock | nothing is left out of a chunk or truncated; a plan is compiled once; every call returns |
| facade (`src/crates/euledb`) | the store and a configuration | delegation | — | through `Store` and `Query` |
| corpus, crash writer | none | test data, a process to kill | — | not modelled |

How they interact: the facade calls the table store. A write checks the gate and
the write role, commits to the dataset (through the encrypting store if the
handle has a keyring), appends to the audit log (a blocking lock of its own,
shared with readers) and reconciles the vectors (through the embedder). The
keyring gives each handle a copy of its keys when the handle is opened and signs
the tokens. A request to read checks the gate, opens the newest version of the
table or of its vectors at each of its steps, and appends to the audit log before
it returns; reconcile and the searches call the embedder, which threads of one
process share. Nothing runs in the background; concurrency comes from several
processes, from several tasks on clones of one handle, and from the death of a
process between two steps.

## Modules

| Module | Models | State and actions |
|---|---|---|
| `AuditLog` | `audit.rs` | `lines`, `tail` are the file and `Seen` what a reader of it is given; `lock` the lock on it; `pc`, `want`, `sealed`, `result` each process's call. `AppendCall`, `AppendLock`, `AppendRead`, `WriteBegin`, `WriteEnd` are the steps of `append`; `ReanchorRead`, `ReanchorLock` then the same writes are `reanchor`. `WriteTorn`, `Stop`, `Damage` are the faults; `clipped` remembers that a last line was removed. |
| `OperationLog` | the promise of the log | a list that grows by one operation per step, until it is harmed or re-anchored |
| `Store` | `writer_lock.rs`, the writing half of `store.rs`, the gate | `lock`, `role` per handle; `tables`, `companion` the datasets; `pc`, `call`, `count`, `gathered` each task's call. `Begin` (checks), `Announce`, `Change`, `Record`/`RecordFails`, `Remove`, `ReadVectors`, `Gather`, `Overwrite`/`EmbedFails` are the points at which a call yields or can fail; `Crash` ends the process between any two. |
| `Query` | the reading half of `store.rs`, the facade, `search.rs`, `measurement.rs`; extends `Store` and `Fusion` | `query` is each reader's request: the steps it still has to do (`Plan`) and what it has found; `textIndex`, `vectorIndex` the indexes there are. `Ask`, `ReadIds`, `Candidates`, `Analyse`, `SearchVectors`, `SearchText`, `FuseBoth`, `RecordRead`, `IndexTable`, `IndexVectors` and their failures are one step each, and `Follow` is what a step of a write does to indexes. |
| `Fusion` | `fusion.rs` | operators only; scores are exact fractions |
| `Embedder` | `src/crates/euledb-embed/src/lib.rs` | `job` per thread, `plans`, `mutex`, `poisoned`. `EmbedPassage` and `Walk` cut a text into chunks, `NextChunk`, `LockPlans`, `FindPlan`, `MissPlan`, `BuildPlan`, `Run` embed each of them; `ChunksFail`, `BuildFails`, `BuildPanics`, `CallFails` are the faults. |
| `Schema` | `schema.rs`, `compression.rs`, `definition.rs` | operators only |
| `FrameLayout` | the arithmetic of `frame.rs` | operators only |
| `EncryptedStore` | `frame.rs` and `crypto/store.rs`, with handles that keep an older frame | `objects` hold sealed bytes as cells; `upload`, `read` are operations in progress; `PutOpts`, `PutMultipart`, `PutPart`, `Complete`, `Abort`, `CopyOpts`, `Delete`, `GetHead`, `GetRanges`, `RotateDataKey`, `OpenHandle`, and the faults |
| `Keyring` | `keyring.rs` and granting and verifying of `capability.rs` | `ring` per owner, `keyfile` on disk; `Create`, `Open`, `RotateDataKey`, `ChangePassphrase`, `Save`, `SealObject`, `Grant`, `Drop`, and failures at each assignment |
| `AuditLogProofs`, `StoreProofs`, `QueryProofs`, `FusionProofs`, `EncryptedStoreProofs`, `KeyringProofs`, `EmbedderProofs`, `SchemaProofs` | — | theorems and their proofs |
| `MCAuditLog`, `MCStore`, `MCQuery`, `MCEmbedder`, `MCEncryptedStore`, `MCKeyring` | — | small instances |

Abstractions. A hash is the tuple it is computed from (SHA-256 without
collisions); an incomplete line of the log, whether it is still being
written or its writer has stopped, is `open` (only the newline is missing), `short`
(it stops within the plan, the last field, so it parses as a record whose hash does
not match) or `cut` (it stops before that and does not parse), and what is written
after it becomes part of it (`Glue`). A row is its id and the text of its embedding
column; a vector is named by the text it embeds, one column per table. A sealed
byte is a cell that knows the block it was sealed in, so a run of cells opens
exactly when it is one whole block under the same associated data. A predicate is
the set of texts it holds of, a text search the set of texts its words occur in;
the rows that match come in any order, since ranking is the format's. A score is
a whole number over the common denominator of the ranks in use, so the rounding of
`f32` is left out. For the embedder a text is its tokens, each blank or not, and a
vector is the chunk it came from and how many of its tokens were pooled. Random values
are numbers not drawn before, derivation and encryption are injective.

External behaviour, taken from how the code uses it: a dataset commits a version
atomically; an update writes the changed rows under new row ids (pinned by
`tests/auto_embedding.rs:154-188`); appending under a name without a dataset
either fails or creates one; an index belongs to the dataset it
was built in, so it is gone when that is overwritten or dropped, a full-text
search without one is refused, and rows that came after it are found all the same;
a search of the vectors through an index may miss some; a piece of text may gain
`Drift` tokens when it is tokenised on its own; a mutex whose holder panics is
released and poisoned; the store under the encryption replaces an object in
one step; the operating system frees the locks of a dead process; the format
gives an upload up after an error; an application saves the keyfile after a
change before it writes on, gives up a keyring whose change failed, and has one
place that rotates.

Definitions whose comment begins with "Mutant" are deliberate faults. They are
used nowhere in the specifications; substituting one for the definition that
follows it makes TLC report the property `PROJECT.json` names with it, which
shows that the property depends on that piece of the code.

## Runs

| Run | Asks | Bounds |
|---|---|---|
| `AuditShared` | Is the log, written by three processes, free of gaps until its file is harmed, and a list that grows one operation at a time until it is re-anchored; does a broken chain refuse operations and a chain that verifies go on verifying; is every lost acknowledgement visible, but for the end of the file? | 3 processes, 1 operator, operations begun up to 3 lines, one outside alteration of any line, one torn write; operations, and the processes that are no operators, are interchangeable (symmetry, sound for these safety properties) |
| `AuditLive` | Does every append return, and does a broken log recover? | 2 processes, 1 operator, 2 lines, one alteration, one failed call, no torn write |
| `AuditMisread` (violation) | Is a log that verifies never re-anchored? | 2 processes, 1 operator, no fault of any kind |
| `StoreWriters` | Two processes that take turns as writer: vectors, log, announced deletes, the lock, the tokens | 2 handles with one task each, one of them with unequal grants, an embedding table and a plain one, 2 texts, row ids up to 2, one fault |
| `StoreHeals` | Are interrupted writes healed by the process that can embed? | 2 handles of which one embeds and records, 2 faults |
| `StoreRecreate` (violation) | Do text and vectors agree after a drop and a new table of that name? | 1 handle |
| `SealedUploads` | Streaming, sizes, reads and damage of one object | blocks of 2 bytes, header 2, overhead 1; objects up to 6 bytes, every range kind, one damage, one fault, two keys |
| `SealedShared` | Two handles, two objects, replaced during reads, keys rotated: is every key kept and every read authentic? | objects of one and two full blocks, two keys; handles and paths are interchangeable (symmetry, sound for these invariants) |
| `SealedTruncated` (violation) | Is a truncation always noticed? | one object, one damage |
| `Queries` | Requests of every kind beside writes: combined answers, searches, fusion | 1 handle, 1 writing task, 1 request at a time of 13, 2 texts of which one has two chunks, row ids up to 2, one fault; k of 1 below two rows and 2 above |
| `Embedder` | Chunks, the cache of plans | 2 threads, 7 texts, a window of 8, buckets of 4 and 8, a budget of 5, a drift of 1, one fault |
| `KeyringRotates` | Keyfiles, keys, nonces, tokens | 2 owners of whom one rotates, 3 data keys of which a set can declare 2, 9 random values, one failed change, one damaged file |

Why the bounds are enough for the cases to happen. Three lines hold a break, a
record after it and a re-anchor; one alteration and one torn write meet in every
order. With two row ids a row can be updated (under a new id), deleted, or joined
by another while a reconcile is half done. Three blocks of two bytes give first,
middle and last block, exact multiples and remainders, and parts of 1, 2 and 3
bytes cut them everywhere. Three data keys exhaust an id space of three and exceed the count of two. A hybrid search takes six steps and
a write may commit, fail or overwrite the vectors between any two of them; two rows,
one of them with two chunks, give lists with ties, rows on one side only and rows
named twice, and both values of k. The texts of `Embedder` fit the window, just
fit, need a piece for a single token, fill two pieces, and are blank in the middle,
at the end and throughout; two threads meet at the lock in every order. Each
fault budget is named (`MaxDamages`, `MaxTears`, `MaxStops`, `MaxFaults`,
`MaxFailures`).

Deadlock is checked except in `KeyringRotates`, where the budget of random values
may run out.

Fairness. A call that has been made runs on: its thread is scheduled (weak
fairness of the steps of a call). The lock on the log is granted in the end to
whoever keeps waiting for it (strong fairness of taking it), which the blocking
lock of the operating system provides as long as each holder is brief; every
holder is, since each append ends in finitely many steps. For `Recovers` an
operator comes back to re-anchor between its other calls (strong fairness of
`ReanchorRead`), which AC-30 asks of a person. Nothing is assumed about how often an
application writes: `Heals` is conditional on a process that can embed writing to
the table. In `Embedder` a thread that has been called runs on (weak fairness) and a
waiting one is given the mutex in the end (strong fairness), since every holder
compiles for a finite time and then releases it, by a panic too.

## What is proved

For any sets of processes, handles, tasks, tables, texts and calls and any bounds:

* `AuditLogProofs`. `TypeCorrect`; `FailClosed`: whatever is damaged or torn, an
  operation's record is only added to a file that parses and verifies; `Gapless`,
  `Durable`, `NoneRefused`: until the file is harmed no number is skipped, the log
  verifies whenever nobody writes to it, no acknowledged record is lost, no append is
  refused because of another; `Implements`: until it is harmed or re-anchored, the log
  implements `OperationLog`. The inductive invariant `IInv` says that whoever reads for
  an append or writes holds the lock, that a process about to write has sealed a record,
  that what an append checked under the lock still holds (`CheckedInv`), and, of an
  unharmed log (`ChainInv`), that each record is sealed onto its predecessor or is a
  re-anchor whose number was due by then, that the numbers are the places until there is
  such a re-anchor, and that a writer's record is the one that comes next or a re-anchor
  of that kind (`Misled`: `reanchor` reads without the lock and may have met a line that
  was `short`). `GaplessChain` alone is not inductive: it says nothing of the record a
  process is about to write. `NoSilentLoss`: an acknowledged record that is no longer in
  the file as it was sealed has left a log that does not verify or holds a re-anchor, or
  it went with the end of the file, for any number of alterations and torn writes. The
  argument follows no alteration. A hash covers the hash before it, so of all logs that
  verify and were never re-anchored those that end in one hash are one log, and
  `HistoryInv` says that every such log ending in the hash of the last line holds all
  acknowledged records (`Vouches`), unless a last line was removed or that line has run
  together with another and verifies no more. `StaysSound`: a chain that verifies goes on
  verifying until the file is altered or a write torn, in a log that has been damaged and
  re-anchored too, with any number of operators; a re-anchor sealed before the lock was
  held starts a chain wherever it comes to stand (`WrittenVerifies`), and a line is
  incomplete only while it is being written (`TornInv`).
* `StoreProofs`. `TypeCorrect`, which includes that no row id is given out twice;
  `OneWriter`: only a call of the lock's holder changes a table or its vectors;
  `TokensGate`: and only with a token for that table and the scope of the operation;
  `VectorsTrue`, if no table with an embedding column is dropped (`NeverDropped`);
  `Announced` (a delete removes as many rows as it announced) and `Accounted` (where no
  change went unrecorded, the records add up to the rows), if no handle serves two
  calls at once (`OneTaskEach`); `SettledTogether`, under both. The invariants behind
  them: holding the lock is the write role (`WriterInv`); a call past its checks has
  its token (`TokenInv`); the vectors on disk and in hand are those of given-out ids
  and never of another text than the live row's (`VectorInv`); what a call has read is
  still so when it uses it (`SnapshotInv`); the records are right but for a call that
  has made one of its change and its record, and will be once it has made the other
  (`AccountInv`); vectors and text differ only while a call is in progress or after one
  that failed (`SettledInv`). Both assumptions are needed: the disagreements below are
  what happens without them. The steps are proved table by table (`TrueAt`, `ReadAt`,
  `SettledAt`), so that a table nobody has dropped keeps them whatever happens to others.
* `QueryProofs`, on top of these. `FoundForItsText`: however searches and writes overlap,
  the vector by which a search returns a row that is still live is one of its text;
  `AnswersOneQuestion`: a request that reads the table once per predicate, with writes in
  between, answers one question; `FindsAll`, with `OneTaskEach`: a search that met its
  table settled and was not overtaken by a change returns no row that is gone, and every
  row if it returns fewer than it may. Tables that have been dropped are excluded, by the
  properties themselves; no assumption on the calls is made. The properties speak of the
  step in which a request returns, the invariants of requests under way: the hits so far
  are true of the table as it is now (`HitsInv`, with `TrueInv` for the vectors); each set
  of ids so far holds, of the rows of the first read, none that does not match its
  predicate and all that do and are still live (`ReadsInv`: row ids are not given out
  twice and a row that keeps its id keeps its text, so no later version can undo this);
  while a search is undisturbed the vectors are those of the rows, and its hits are
  complete once it has read them (`SearchInv`, from `AgreeInv`; as many different chunks
  as there are, are all of them, `AllOfThem`). `QueryTypeCorrect`, from `RoleInv` (a
  request that runs holds its handle open), `IndexInv` (an index is one of a dataset that
  is there; a companion table that is there stays) and `FoundInv` (what each step finds).
  `FusedRight` and `BothBeat`: the two theorems below, of what a hybrid search returns;
  `FuseInv` says that it fuses in its last step but one, what it has found by then.
* `FusionProofs`, for any two lists of rows, any k, corpus and limit. `FuseByFormula`:
  where no list names a row twice, `fuse` scores every row by the formula, reports its
  places and orders the rows by score and id; `FusePrefersBoth`: a row that both lists
  place no lower than k + 1 comes before every row that has one place in one of them,
  also where lists name rows twice. The recursive functions of `Fusion` are reached by
  `Counting`: a set that holds 0, and with each number the next, has no least number it
  misses. So the denominator is a multiple of every k + rank (`ShareExact`), and after m
  places of a list a score has grown by the share of each of the row's places
  (`GrownNext`, `Contributed`). A ranking is defined by the number of rows ahead of each;
  no two rows have the same number, so each number below that of the rows belongs to one
  (`RankingFacts`).
* `EncryptedStoreProofs`, for every block size, header and overhead, every set of
  handles, locations, parts and ranges, and any number of keys and faults; an object
  is altered at most once between two writes of it, in one of four ways (cut, two blocks
  exchanged, a byte altered, its key renamed), so a block repeated or taken from another
  object is not among them. First the arithmetic of `FrameLayout`: `LengthsInverse`, the length of a
  sealed object gives back the length of its plaintext; `SpanCovers`, the span fetched
  for a range starts on a block, lies within the object and holds every block of the
  range. Then the store: `UploadsSealTheSame`: however an upload is cut into parts, the object
  is byte for byte what one put leaves; `SizesReported` and `KeysStayKept`: the size
  and the key of an intact object; `ReadBytesAuthentic`: where an object is
  altered in one of these ways, or replaced, before a read or between its two requests, the bytes returned are stored bytes of
  the range reported; `IntactReadsSucceed`: an undisturbed read of an intact object is
  not refused, whatever its range; `TypeCorrect`. None of these is inductive, since
  they speak of finished objects and results only. `StoreInv` adds that an intact
  object is cell by cell its content sealed under a key the keyring holds (`Whole`,
  `IsSealed`); that an altered one still holds only cells of blocks of its content, at
  the place their associated data names, and no more bytes than the whole
  (`Remains`), which is why a run that authenticates as block i is block i; that what
  an upload has sent is the header and the full blocks of what it was given and that
  the buffer is the rest (`Uploading`); that a read under way has its span from its
  range, and from the true length if nothing has touched the object (`Reading`); and
  that frames are earlier states of a keyring that only grows (`KeysGrow`). The lemmas
  below it are about the operators: what `Chunk`, `FullBlocks`, `Seal` and `Drained`
  return at each place, that two objects sealed from one plaintext under one key are
  equal, and what `OpenSpan` makes of any cells (`OpenSpanSound`) and of intact ones
  (`OpenSpanWhole`). Cryptography enters only through `Authentic`.
* `KeyringProofs`. `NoncesAreFresh`: no key and nonce wrap two different sets, through
  any rotations, changes, copies and failures; `TokensFollow`; `OpensAgain`: a keyfile
  opens with the passphrase of its keyring and no other, and gives the same keyring,
  exactly as long as the number of keys fits the count the set declares, and is refused
  as malformed beyond; `NoKeyIsLost`: if there is one owner that rotates
  (`OneRotator`), the key of everything sealed is in that owner's keyring and in the
  keyfile. `KeyringInv` says that every salt and nonce in use has been drawn
  (`Drawn`), that the wrapped set of a keyring not spoiled by a failed change is its
  own (`Sealed`), and under which key its tokens were granted (`Granted`); `Lineage`
  that the keyring in memory extends the one on disk, and what was sealed lies within
  both. `OneRotator` is the assumption on the application stated above; two owners
  that rotate copies give one id to two keys, and TLC shows the loss at once.
* `EmbedderProofs`. `PlansCompiledOnce`, from `CacheInv`: whoever looks up or builds
  holds the mutex, and a bucket that is being built is not in the cache.
  `PassagesWhole`, from `PassageInv`: at each point of the walk the pieces cut so far
  lie in order before the start of the next one, each fits the budget, and every
  token before that start that is not blank is in one of them; then, that the vectors
  so far are those of the first pieces, each cut by the drift at most. Both hold for
  every text, window, set of buckets and number of threads.
* `SchemaProofs`. `ReadBack`: for every schema and compression, what every read
  strips is what `create_table` wrote, so a caller gets their own schema back, as
  long as they did not use the encoding's keys themselves; `EmbeddingKept`: neither
  changes which columns embed themselves, so `reconcile`, which reads the stored
  schema, sees the declared ones; `ValidatesExactly`: `validate`, which walks the
  declared columns and then those of the batch, accepts a batch with distinct column
  names exactly when the two agree, in any order.

Only model-checked: the liveness properties (`Recovers`, `AppendReturns`, `Heals`, and
`CallsReturn` of `Embedder`), which are out of the prover's reach. Every other property of
the passing runs is the statement of a theorem. Where a theorem has a hypothesis
(`OneTaskEach`, `NeverDropped`, `OneRotator`) the instance of the run that checks the
property satisfies it. Encrypted stores and several tasks on one handle are in no run of
`Store`: the theorems without those hypotheses cover them, and the disagreements below
say what fails there.

## Disagreements between the code and what is said of it

Shown by a run:

* `AuditMisread`: `reanchor` reads without the lock (`audit.rs:394`). A line another
  process is writing, there up to the middle of its plan, parses with a hash that does
  not match, and a log that verifies is re-anchored, by a record whose number an append
  may have used meanwhile, against `audit.rs:391-392`. What holds all the same is
  `GaplessChain` and `RecoveryLasts`.
* `StoreRecreate`: `drop_table` leaves the vectors, and a new table of the same
  name takes them for its own (`store.rs:1428`).
* `SealedTruncated`: an object cut to its header and one overhead has a plaintext of
  length 0 by its size, and a read of it returns no bytes, Ok, before it has opened a
  block (`crypto/store.rs:146-156`, against `crypto/frame.rs:25-27` and `363-364`).

Met while modelling; each appears as a counterexample when the run named, or its
property, is changed as described:

* `AckedKept` with `damages = 0` in place of `Unharmed` (`AuditShared`): an append
  after a line without its newline returns Ok and its record is part of that line
  (`audit.rs:297-316`), against `store.rs:1210-1211`. `LossIsVisible` is what remains.
* `LossIsVisible` without its last disjunct (`AuditShared`): once the last line of the
  file is removed, the shorter chain verifies (`audit.rs:364-381`) and nothing shows that
  a record is gone, against `audit.rs:1` and `audit.rs:41`.
* `Recovers` with a torn write (`AuditLive`, `MaxTears = 1`): a line cut before its
  last field makes `append` and `reanchor` refuse for good, against AC-30
  (`src/docs/specs/spec.md:237`).
* `SettledAgree` with two tasks on clones of a writing handle (`StoreRecreate`,
  `Tasks <- TwoTasks`, `Calls <- AppendCalls`): the older scan may be written last
  although both calls return Ok, against AC-31 (`src/docs/specs/spec.md:243`).
* `Heals` in an encrypted store (`StoreHeals`, `Encrypted = TRUE`): the write of the
  vectors is given no session (`store.rs:1134-1138`) and fails every time, against
  `store.rs:1007-1008`.
* A refusal for a missing embedder (`store.rs:1013`) or for a missing token to read
  (`store.rs:563`) and the failure of the log (`store.rs:1331`) come after the rows
  are committed, against `store.rs:526`, `1244` and `1210`; a process that dies
  there leaves rows without vectors until the next write, against AC-69
  (`src/docs/specs/spec.md:195`). In the model these are the tables in `unsettled` and
  `gap`.
* `Reopens` without its exception for failed changes (`KeyringRotates`): a rotation
  or change of passphrase that fails half way leaves the keyring changed and its
  wrapped set as it was, against `crypto/keyring.rs:94`.
* `Reopens` without its last case (`KeyringRotates`): the set declares its size in 16
  bits and saturates (`crypto/keyring.rs:324`), so the 65536th key makes a keyfile that
  is refused, against `crypto/keyring.rs:229`.
* `FusedByFormula` without `Distinct(v)` (`Queries`): a text of several chunks is in the
  semantic list once per near chunk, each place adds to its score, and the rank
  reported is the last (`fusion.rs:75-83`), against AC-37 (`src/docs/specs/spec.md:256`)
  and `fusion.rs:53`. `semantic_search` returns such a row as often.
* `OneQuestion` without its restriction to rows that were there from the first
  read to the last (`Queries`): a row that is updated between two predicates has a new
  id and is missing from the answer, although it matches before and after, against
  `measurement.rs:5` ("Stable for as long as the row exists").

Read in the source; no property here is about them:

* `row_ids` and its combinations, `scan_ordered`, `vectors_of`, `create_index` and
  `vector_index_kind` make no record, against `store.rs:1192` ("Record every operation").
* `TableSchema::validate` is called by no code outside the tests, against
  `schema.rs:1` ("the gate every insert passes through"); what refuses a batch is the
  table format. Given two columns of one name it looks at the first only.
* A missing vector index is no error of a hybrid search: `nearest` then compares every
  vector, against
  `src/crates/euledb/src/database.rs:220` and `store.rs:799`.
* An index over the vectors is gone after the next write to the table, until a caller
  builds it again, against AC-31 as `src/docs/specs/spec.md:51` puts it ("kept
  consistent with its vector index without a caller step").
* Inputs of up to 8 tokens are padded to 16, twice their size or more, against
  `src/crates/euledb-embed/src/lib.rs:38-40`.
* A ranking with a larger limit need not begin with the one of a smaller limit: both
  sides are asked for twice the limit, and rows further down change the scores
  (`store.rs:813`, `fusion.rs:96-97` speaks of pages).

## What is not modelled

The corpus and the crash writer, which are test tools (the kill is `Crash`); the
encrypting provider, which is plumbing; reading a row count back out of a printed
plan (`measurement.rs:142-190`) and the two diagnostics that name the vector index or
read the plan of a search; ranking itself, distances, BM25, stemming and the floats
of a vector; the rounding of scores; which rows an index over a column lets a lookup
examine (it changes the cost and not the answer); the wording of records and errors;
the arithmetic of widths beyond the key count. Store gives every text a vector: a
long text of blanks only, which has no chunk, is reached in `Embedder` alone. Names
of tables are atoms, so a caller's table cannot carry the name of a companion. Two
processes that rotate their own copies of one keyring are excluded by an assumption
on the application, and so is an upload that goes on after an error. `PROJECT.json`
lists these among the hazards.

## Plan

1. Done: `AuditLog` and `OperationLog`, `Store`, `FrameLayout` and `EncryptedStore`,
   `Keyring`; then `Fusion` and `Query` on top of `Store`, `Embedder`, `Schema`; proofs about
   each of them, of every safety property that a run checks.
2. Next: an abstract table with its vectors that `Store` implements when no handle serves
   two calls at once; `EncryptedStore` composed with `Keyring` (handles that load frames
   from saved keyfiles).
