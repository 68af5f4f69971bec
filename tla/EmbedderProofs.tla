--------------------------- MODULE EmbedderProofs ---------------------------
(***************************************************************************)
(* Proofs about the embedding model, for any number of threads, any texts, *)
(* any window with its buckets and any number of faults.                   *)
(***************************************************************************)
EXTENDS Embedder, WellFoundedInduction, TLAPS

-----------------------------------------------------------------------------
(* Buckets. *)

\* A set of numbers that is not empty has a least one.
LEMMA LeastExists ==
  ASSUME NEW S \in SUBSET Nat, S # {}
  PROVE  Least(S) \in S /\ \A y \in S : Least(S) <= y
<1> DEFINE R == OpToRel(<, Nat)
<1>1. \A x, y \in Nat : <<y, x>> \in R <=> y < x
  BY DEF OpToRel
<1>2. \E x \in S : \A y \in S : ~(<<y, x>> \in R)
  <2>1. IsWellFoundedOn(R, Nat)
    BY NatLessThanWellFounded
  <2> HIDE DEF R
  <2>2. QED BY <2>1, WFMin
<1> HIDE DEF R
<1>3. \E x \in S : \A y \in S : x <= y
  <2>1. PICK x \in S : \A y \in S : ~(<<y, x>> \in R)
    BY <1>2
  <2>2. \A y \in S : y \in Nat /\ x \in Nat /\ ~(y < x)
    BY <1>1, <2>1
  <2>3. \A y \in S : x <= y
    BY <2>2
  <2>4. QED BY <2>3
<1>4. QED BY <1>3 DEF Least

\* Every input has a bucket, and of an input that is longer than the window by
\* no more than d at most d tokens do not fit.
LEMMA BucketFacts ==
  ASSUME NEW real \in Nat
  PROVE  /\ Bucket(real) \in BUCKETS /\ Bucket(real) \in Nat
         /\ Bucket(real) >= real \/ Bucket(real) = TOKEN_LIMIT
<1> DEFINE fitting == {b \in BUCKETS : b >= real}
<1>1. BUCKETS \subseteq Nat /\ TOKEN_LIMIT \in BUCKETS
  BY WindowAssumption
<1>2. fitting # {} => Least(fitting) \in fitting
  BY <1>1, LeastExists
<1>3. QED BY <1>1, <1>2 DEF Bucket

-----------------------------------------------------------------------------
(* The cache of plans. *)

\* A thread about to compile a plan found none, and nobody has added one since.
Missing == \A t \in Threads : pc[t] = "build" => Bucket(job[t].real) \notin plans

\* A thread that is idle works on nothing.
Idle == \A t \in Threads : pc[t] = "idle" => job[t].kind = "none"

\* The walk has a token left, and whoever runs the graph a chunk.
Working ==
  \A t \in Threads :
    /\ pc[t] = "walk" => job[t].index < Len(job[t].text)
    /\ pc[t] \in {"lock", "plan", "build", "run"} => job[t].next <= Len(job[t].chunks)

CacheInv == TypeOK /\ Missing /\ Idle /\ Working /\ CompiledOnce

\* The piece of a text from one offset to another is a chunk.
LEMMA ChunkType ==
  ASSUME NEW a \in Nat, NEW b \in Nat, a <= b
  PROVE  <<a, b>> \in Chunks /\ <<a, b>>[1] = a /\ <<a, b>>[2] = b
BY DEF Chunks

\* What a call starts with.
LEMMA StartedFacts ==
  ASSUME NEW kind \in {"none", "passage", "query"}, NEW text \in Seq(BOOLEAN),
         NEW chunks \in Seq(Chunks)
  PROVE  LET j == Job(kind, text, chunks) IN
           /\ j \in Jobs /\ j.kind = kind /\ j.text = text /\ j.chunks = chunks
           /\ j.start = 0 /\ j.index = 0 /\ j.next = 1 /\ j.vectors = <<>>
<1>1. <<>> \in Seq(Vectors)
  OBVIOUS
<1>2. QED BY <1>1 DEF Job, Jobs

\* The job of a call that has returned.
LEMMA NoJobFacts ==
  ASSUME NEW o \in {"none", "ok", "tokenizer", "inference", "panicked"}
  PROVE  LET j == [NoJob EXCEPT !.outcome = o] IN
           /\ j \in Jobs /\ j.kind = "none" /\ j.start = 0 /\ j.index = 0
           /\ j.text = <<>> /\ j.chunks = <<>> /\ j.next = 1
<1> DEFINE e == <<>>
<1>1. e \in Seq(BOOLEAN) /\ e \in Seq(Chunks) /\ NoJob = Job("none", e, e)
  BY DEF NoJob
<1> HIDE DEF e
<1>2. /\ NoJob \in Jobs /\ NoJob.kind = "none" /\ NoJob.start = 0 /\ NoJob.index = 0
      /\ NoJob.text = e /\ NoJob.chunks = e /\ NoJob.next = 1
  BY <1>1, StartedFacts
<1> USE DEF e
<1>3. QED BY <1>2 DEF Jobs

\* What a token of the walk makes of a job.
LEMMA WalkedFacts ==
  ASSUME NEW j \in Jobs, j.start <= j.index, NEW q, q = Walked(j)
  PROVE  /\ q \in Jobs /\ q.kind = j.kind /\ q.text = j.text /\ q.index = j.index + 1
         /\ q.next = j.next /\ q.vectors = j.vectors
         /\ ~Cut(j) => q.start = j.start /\ q.chunks = j.chunks
         /\ Cut(j) =>
              /\ q.start = j.index + 1
              /\ q.chunks = IF Says(j.text, j.start, j.index + 1)
                            THEN Append(j.chunks, <<j.start, j.index + 1>>) ELSE j.chunks
<1>1. j.index \in Nat /\ j.start \in Nat /\ j.chunks \in Seq(Chunks)
  BY DEF Jobs
<1>2. <<j.start, j.index + 1>> \in Chunks
  BY <1>1, ChunkType
<1> DEFINE c == IF Says(j.text, j.start, j.index + 1)
                THEN Append(j.chunks, <<j.start, j.index + 1>>) ELSE j.chunks
<1>3. c \in Seq(Chunks)
  <2> DEFINE e == <<j.start, j.index + 1>>
  <2> HIDE DEF e
  <2>1. e \in Chunks
    BY <1>2 DEF e
  <2>2. Append(j.chunks, e) \in Seq(Chunks)
    BY <1>1, <2>1
  <2>3. QED BY <1>1, <2>2 DEF e
<1>4. CASE Cut(j)
  <2>1. q = [j EXCEPT !.index = j.index + 1, !.start = j.index + 1, !.chunks = c]
    BY <1>4 DEF Piece, Walked
  <2> HIDE DEF c
  <2>2. q = [kind |-> j.kind, text |-> j.text, start |-> j.index + 1, index |-> j.index + 1,
             chunks |-> c, next |-> j.next, real |-> j.real, vectors |-> j.vectors,
             outcome |-> j.outcome]
    BY <2>1 DEF Jobs
  <2>3. j.index + 1 \in Nat
    BY <1>1
  <2>4. /\ q \in Jobs /\ q.kind = j.kind /\ q.text = j.text /\ q.index = j.index + 1
        /\ q.next = j.next /\ q.vectors = j.vectors
        /\ q.start = j.index + 1 /\ q.chunks = c
    BY ONLY <1>3, <2>2, <2>3, j \in Jobs DEF Jobs
  <2>5. QED BY <1>4, <2>4 DEF c
<1>5. CASE ~Cut(j)
  <2>1. q = [kind |-> j.kind, text |-> j.text, start |-> j.start, index |-> j.index + 1,
             chunks |-> j.chunks, next |-> j.next, real |-> j.real, vectors |-> j.vectors,
             outcome |-> j.outcome]
    BY <1>5 DEF Jobs, Walked
  <2>2. QED BY <1>1, <1>5, <2>1 DEF Jobs
<1>6. QED BY <1>4, <1>5

\* The vector of a chunk: all of its tokens, or as many as the window holds.
LEMMA VectorFacts ==
  ASSUME NEW j \in Jobs, j.next \in 1..Len(j.chunks)
  PROVE  /\ Vector(j) \in Vectors
         /\ Vector(j).chunk = j.chunks[j.next] /\ Vector(j).real = j.real
         /\ Vector(j).pooled \in Nat
         /\ Vector(j).pooled = j.real \/ Vector(j).pooled = TOKEN_LIMIT
<1>1. j.real \in Nat /\ j.chunks \in Seq(Chunks) /\ j.next \in Nat
  BY DEF Jobs
<1>2. Bucket(j.real) \in BUCKETS /\ Bucket(j.real) \in Nat
      /\ (Bucket(j.real) >= j.real \/ Bucket(j.real) = TOKEN_LIMIT)
  BY <1>1, BucketFacts
<1>3. j.chunks[j.next] \in Chunks
  BY <1>1
<1> DEFINE p == IF j.real < Bucket(j.real) THEN j.real ELSE Bucket(j.real)
<1>4. p \in Nat /\ (p = j.real \/ p = TOKEN_LIMIT)
  BY <1>1, <1>2
<1>5. Vector(j) = [chunk |-> j.chunks[j.next], bucket |-> Bucket(j.real), real |-> j.real,
                   pooled |-> p]
  BY DEF Vector
<1> HIDE DEF p
<1>6. QED BY <1>1, <1>2, <1>3, <1>4, <1>5 DEF Vectors

\* What the run of one chunk makes of a job.
LEMMA RanFacts ==
  ASSUME NEW j \in Jobs, j.next \in 1..Len(j.chunks), NEW q, q = WithVector(j)
  PROVE  /\ q \in Jobs /\ q.kind = j.kind /\ q.text = j.text /\ q.chunks = j.chunks
         /\ q.start = j.start /\ q.index = j.index
         /\ q.next = j.next + 1 /\ q.vectors = Append(j.vectors, Vector(j))
<1> DEFINE v == Vector(j)
<1>1. v \in Vectors
  BY VectorFacts
<1> HIDE DEF v
<1>2. j.vectors \in Seq(Vectors) /\ j.next \in Nat
  BY DEF Jobs
<1> DEFINE s == Append(j.vectors, v)
<1>3. s \in Seq(Vectors)
  BY <1>1, <1>2
<1>4. q = [j EXCEPT !.vectors = s, !.next = j.next + 1]
  BY DEF Jobs, v, WithVector
<1> HIDE DEF s
<1>5. q = [kind |-> j.kind, text |-> j.text, start |-> j.start, index |-> j.index,
           chunks |-> j.chunks, next |-> j.next + 1, real |-> j.real, vectors |-> s,
           outcome |-> j.outcome]
  BY <1>4 DEF Jobs
<1>6. j.next + 1 \in Nat
  BY <1>2
<1>7. /\ q \in Jobs /\ q.kind = j.kind /\ q.text = j.text /\ q.chunks = j.chunks
      /\ q.start = j.start /\ q.index = j.index /\ q.next = j.next + 1 /\ q.vectors = s
  BY ONLY <1>3, <1>5, <1>6, j \in Jobs DEF Jobs
<1>8. QED BY <1>7 DEF s, v

\* What measuring a chunk makes of a job.
LEMMA MeasuredFacts ==
  ASSUME NEW j \in Jobs, NEW n \in Nat, NEW q, q = [j EXCEPT !.real = n]
  PROVE  /\ q \in Jobs /\ q.kind = j.kind /\ q.text = j.text /\ q.chunks = j.chunks
         /\ q.start = j.start /\ q.index = j.index
         /\ q.next = j.next /\ q.vectors = j.vectors /\ q.real = n
BY DEF Jobs

\* A step of a thread outside the lock keeps the cache as it is.
LEMMA OutsideStep ==
  ASSUME CacheInv, NEW t \in Threads, NEW where \in {"idle", "walk", "next", "lock", "run"},
         pc[t] \notin {"plan", "build"}, NEW j \in Jobs,
         pc' = [pc EXCEPT ![t] = where], job' = [job EXCEPT ![t] = j],
         j.start <= j.index, j.index <= Len(j.text), j.next \in 1..Len(j.chunks) + 1,
         where = "idle" => j.kind = "none",
         where = "walk" => j.index < Len(j.text),
         where \in {"lock", "run"} => j.next <= Len(j.chunks),
         faults' \in 0..MaxFaults, UNCHANGED cache
  PROVE  CacheInv'
<1> USE DEF CacheInv
<1>1. UNCHANGED <<plans, mutex, poisoned, compiled>>
  BY DEF cache
<1>2. \A c \in Threads :
        /\ pc'[c] = (IF c = t THEN where ELSE pc[c])
        /\ job'[c] = (IF c = t THEN j ELSE job[c])
  BY DEF TypeOK
<1>3. /\ pc' \in [Threads -> {"idle", "walk", "next", "lock", "plan", "build", "run"}]
      /\ job' \in [Threads -> Jobs]
  BY DEF TypeOK
<1>4. \A c \in Threads : pc'[c] \in {"plan", "build"} <=> mutex' = c
  BY <1>1, <1>2 DEF TypeOK
<1>5. \A c \in Threads :
        /\ job'[c].start <= job'[c].index /\ job'[c].index <= Len(job'[c].text)
        /\ job'[c].next \in 1..Len(job'[c].chunks) + 1
  BY <1>2 DEF TypeOK
<1>6. TypeOK'
  BY <1>1, <1>3, <1>4, <1>5 DEF TypeOK
<1>7. Missing' /\ Idle' /\ Working'
  BY <1>1, <1>2 DEF Missing, Idle, Working
<1>8. CompiledOnce'
  BY <1>1 DEF CompiledOnce
<1>9. QED BY <1>6, <1>7, <1>8

\* A step of a thread that leaves the lock.
LEMMA LeaveStep ==
  ASSUME CacheInv, NEW t \in Threads, NEW where \in {"idle", "run"},
         pc[t] \in {"plan", "build"}, NEW j \in Jobs,
         pc' = [pc EXCEPT ![t] = where], job' = [job EXCEPT ![t] = j],
         j.start <= j.index, j.index <= Len(j.text), j.next \in 1..Len(j.chunks) + 1,
         where = "idle" => j.kind = "none",
         where = "walk" => j.index < Len(j.text),
         where \in {"lock", "run"} => j.next <= Len(j.chunks),
         faults' \in 0..MaxFaults, mutex' = Nobody, poisoned' \in BOOLEAN,
         plans' \subseteq BUCKETS, compiled' \in [BUCKETS -> Nat], CompiledOnce'
  PROVE  CacheInv'
<1> USE DEF CacheInv
<1>1. \A c \in Threads :
        /\ pc'[c] = (IF c = t THEN where ELSE pc[c])
        /\ job'[c] = (IF c = t THEN j ELSE job[c])
  BY DEF TypeOK
<1>2. /\ pc' \in [Threads -> {"idle", "walk", "next", "lock", "plan", "build", "run"}]
      /\ job' \in [Threads -> Jobs]
  BY DEF TypeOK
<1>3. mutex = t
  BY DEF TypeOK
<1>4. \A c \in Threads : pc'[c] \notin {"plan", "build"} /\ mutex' # c
  BY <1>1, <1>3, EmbedderBoundsAssumption DEF TypeOK
<1>5. \A c \in Threads :
        /\ job'[c].start <= job'[c].index /\ job'[c].index <= Len(job'[c].text)
        /\ job'[c].next \in 1..Len(job'[c].chunks) + 1
  BY <1>1 DEF TypeOK
<1>6. TypeOK'
  BY <1>2, <1>4, <1>5 DEF TypeOK
<1>7. Missing' /\ Idle' /\ Working'
  BY <1>1, <1>4 DEF Missing, Idle, Working
<1>8. QED BY <1>6, <1>7

\* A call that returns leaves no job behind.
LEMMA ReturnFacts ==
  ASSUME CacheInv, NEW t \in Threads,
         NEW o \in {"none", "ok", "tokenizer", "inference", "panicked"}, Return(t, o)
  PROVE  \E j \in Jobs :
           /\ pc' = [pc EXCEPT ![t] = "idle"] /\ job' = [job EXCEPT ![t] = j]
           /\ j.start <= j.index /\ j.index <= Len(j.text) /\ j.next \in 1..Len(j.chunks) + 1
           /\ j.kind = "none"
<1> DEFINE j == [NoJob EXCEPT !.outcome = o]
<1>1. /\ j \in Jobs /\ j.kind = "none" /\ j.start = 0 /\ j.index = 0
      /\ j.text = <<>> /\ j.chunks = <<>> /\ j.next = 1
  BY NoJobFacts
<1>2. pc' = [pc EXCEPT ![t] = "idle"] /\ job' = [job EXCEPT ![t] = j]
  BY DEF Return, Goto
<1> HIDE DEF j
<1>3. Len(j.text) = 0 /\ Len(j.chunks) = 0
  BY <1>1
<1>4. j.start <= j.index /\ j.index <= Len(j.text) /\ j.next \in 1..Len(j.chunks) + 1
  BY <1>1, <1>3
<1>5. QED BY <1>1, <1>2, <1>4

\* A call is made.
LEMMA CallStep ==
  ASSUME CacheInv, NEW t \in Threads, NEW text \in Texts,
         EmbedPassage(t, text) \/ EmbedQuery(t, text)
  PROVE  CacheInv'
<1>1. /\ pc[t] = "idle" /\ UNCHANGED cache /\ UNCHANGED faults
      /\ faults' \in 0..MaxFaults
  BY DEF EmbedPassage, EmbedQuery, CacheInv, TypeOK
<1>2. text \in Seq(BOOLEAN) /\ Len(text) \in Nat
  BY TextsAssumption
<1>3. Budget \in Nat /\ Budget > 0
  BY WindowAssumption DEF Budget
<1> DEFINE one == <<<<0, Len(text)>>>>
<1>4. one \in Seq(Chunks) /\ Len(one) = 1
  <2> DEFINE e == <<0, Len(text)>>
  <2>1. e \in Chunks
    BY <1>2, ChunkType
  <2> HIDE DEF e
  <2>2. <<e>> \in Seq(Chunks) /\ Len(<<e>>) = 1
    BY <2>1
  <2>3. QED BY <2>2 DEF e
<1>5. ASSUME NEW kind \in {"passage", "query"}, Goto(t, "next"),
             job' = [job EXCEPT ![t] = Job(kind, text, one)]
      PROVE  CacheInv'
  <2> DEFINE j == Job(kind, text, one)
  <2> HIDE DEF one
  <2>1. /\ j \in Jobs /\ j.text = text /\ j.chunks = one
        /\ j.start = 0 /\ j.index = 0 /\ j.next = 1
    BY <1>2, <1>4, StartedFacts
  <2>2. pc' = [pc EXCEPT ![t] = "next"] /\ job' = [job EXCEPT ![t] = j]
    BY <1>5 DEF Goto
  <2> HIDE DEF j
  <2>3. j.start <= j.index /\ j.index <= Len(j.text) /\ j.next \in 1..Len(j.chunks) + 1
    BY <1>2, <1>4, <2>1
  <2>4. QED BY <1>1, <2>1, <2>2, <2>3, OutsideStep
<1>6. ASSUME Len(text) > Budget, Goto(t, "walk"),
             job' = [job EXCEPT ![t] = Job("passage", text, <<>>)]
      PROVE  CacheInv'
  <2> DEFINE e == <<>>
             k == "passage"
             j == Job(k, text, e)
  <2>0. k \in {"none", "passage", "query"} /\ e \in Seq(Chunks) /\ Len(e) = 0
    OBVIOUS
  <2>1. pc' = [pc EXCEPT ![t] = "walk"] /\ job' = [job EXCEPT ![t] = j]
    BY <1>6 DEF Goto
  <2> HIDE DEF e, k
  <2>2. /\ j \in Jobs /\ j.text = text /\ j.chunks = e
        /\ j.start = 0 /\ j.index = 0 /\ j.next = 1
    <3>1. <<>> \in Seq(Vectors)
      OBVIOUS
    <3>2. QED BY ONLY <1>2, <2>0, <3>1 DEF Job, Jobs
  <2> HIDE DEF j
  <2>3. /\ j.start <= j.index /\ j.index < Len(j.text) /\ j.index <= Len(j.text)
        /\ j.next \in 1..Len(j.chunks) + 1
    BY <1>2, <1>3, <1>6, <2>0, <2>2
  <2>4. QED BY <1>1, <2>1, <2>2, <2>3, OutsideStep
<1>7. QED BY <1>5, <1>6 DEF EmbedPassage, EmbedQuery

\* A call fails outside the lock.
LEMMA FaultStep ==
  ASSUME CacheInv, NEW t \in Threads, ChunksFail(t) \/ CallFails(t)
  PROVE  CacheInv'
<1>1. PICK o \in {"tokenizer", "inference"} : Fault(t, o)
  BY DEF ChunksFail, CallFails
<1>2. pc[t] \notin {"plan", "build"} /\ UNCHANGED cache
  BY DEF ChunksFail, CallFails
<1>3. faults' \in 0..MaxFaults
  BY <1>1, EmbedderBoundsAssumption DEF Fault, CacheInv, TypeOK
<1>4. PICK j \in Jobs :
        /\ pc' = [pc EXCEPT ![t] = "idle"] /\ job' = [job EXCEPT ![t] = j]
        /\ j.start <= j.index /\ j.index <= Len(j.text) /\ j.next \in 1..Len(j.chunks) + 1
        /\ j.kind = "none"
  BY <1>1, ReturnFacts DEF Fault
<1>5. QED BY <1>2, <1>3, <1>4, OutsideStep

\* One token of the walk.
LEMMA WalkStep ==
  ASSUME CacheInv, NEW t \in Threads, Walk(t)
  PROVE  CacheInv'
<1> DEFINE j == job[t]
           q == Walked(j)
           where == IF j.index + 1 = Len(j.text) THEN "next" ELSE "walk"
<1>1. /\ pc[t] = "walk" /\ UNCHANGED cache /\ faults' \in 0..MaxFaults
      /\ pc' = [pc EXCEPT ![t] = where]
  BY DEF Walk, Goto, CacheInv, TypeOK
<1>2. job' = [job EXCEPT ![t] = q]
  BY DEF Walk
<1>3. j \in Jobs /\ j.start <= j.index /\ j.index < Len(j.text)
      /\ j.next \in 1..Len(j.chunks) + 1
  BY <1>1 DEF CacheInv, TypeOK, Working
<1> HIDE DEF j
<1>4. j.start \in Nat /\ j.index \in Nat /\ Len(j.text) \in Nat /\ j.chunks \in Seq(Chunks)
      /\ j.next \in Nat
  BY <1>3 DEF Jobs
<1>5. /\ q \in Jobs /\ q.text = j.text /\ q.index = j.index + 1 /\ q.next = j.next
      /\ q.start = j.start \/ q.start = j.index + 1
      /\ q.chunks = j.chunks \/ q.chunks = Append(j.chunks, <<j.start, j.index + 1>>)
  BY <1>3, WalkedFacts
<1> HIDE DEF q
<1>6. Len(q.chunks) \in Nat /\ Len(q.chunks) >= Len(j.chunks)
  <2> DEFINE e == <<j.start, j.index + 1>>
  <2>1. e \in Chunks
    <3>1. j.start <= j.index + 1 /\ j.index + 1 \in Nat
      BY <1>3, <1>4
    <3>2. QED BY <1>4, <3>1, ChunkType
  <2> HIDE DEF e
  <2>2. Len(Append(j.chunks, e)) = Len(j.chunks) + 1 /\ Len(j.chunks) \in Nat
    BY <1>4, <2>1
  <2>3. QED BY <1>5, <2>2 DEF e
<1>7. /\ q.start <= q.index /\ q.index <= Len(q.text) /\ q.next \in 1..Len(q.chunks) + 1
      /\ where = "walk" => q.index < Len(q.text)
  <2>1. q.start <= q.index /\ q.index <= Len(q.text)
    BY <1>3, <1>4, <1>5
  <2>2. q.next \in 1..Len(q.chunks) + 1
    BY <1>3, <1>4, <1>5, <1>6
  <2>3. where = "walk" => q.index < Len(q.text)
    BY <1>3, <1>4, <1>5
  <2>4. QED BY <2>1, <2>2, <2>3
<1>8. where \in {"next", "walk"}
  OBVIOUS
<1> HIDE DEF where
<1>9. QED BY <1>1, <1>2, <1>5, <1>7, <1>8, OutsideStep

\* The number of tokens of a chunk on its own.
LEMMA MeasuredSize ==
  ASSUME NEW j \in Jobs, j.next \in 1..Len(j.chunks) + 1, j.next <= Len(j.chunks),
         NEW d \in 0..Drift
  PROVE  SizeOf(j.chunks[j.next]) + Prefix(j.kind) + Special + d \in Nat
<1> DEFINE c == j.chunks[j.next]
<1>1. j.chunks \in Seq(Chunks) /\ j.next \in Nat
  BY DEF Jobs
<1>2. c \in Chunks
  BY <1>1
<1> HIDE DEF c
<1>3. SizeOf(c) \in Nat
  BY <1>2 DEF SizeOf, Chunks
<1>4. Prefix(j.kind) \in Nat /\ Special \in Nat /\ d \in Nat
  BY WindowAssumption, EmbedderBoundsAssumption DEF Prefix
<1>5. QED BY <1>3, <1>4 DEF c

\* The next chunk is measured, or the call returns.
LEMMA NextChunkStep ==
  ASSUME CacheInv, NEW t \in Threads, NextChunk(t)
  PROVE  CacheInv'
<1> DEFINE j == job[t]
<1>1. pc[t] = "next" /\ UNCHANGED cache /\ faults' \in 0..MaxFaults
  BY DEF NextChunk, CacheInv, TypeOK
<1>2. /\ j \in Jobs /\ j.start <= j.index /\ j.index <= Len(j.text)
      /\ j.next \in 1..Len(j.chunks) + 1
  BY DEF CacheInv, TypeOK
<1>3. CASE Return(t, "ok")
  <2>1. PICK q \in Jobs :
          /\ pc' = [pc EXCEPT ![t] = "idle"] /\ job' = [job EXCEPT ![t] = q]
          /\ q.start <= q.index /\ q.index <= Len(q.text) /\ q.next \in 1..Len(q.chunks) + 1
          /\ q.kind = "none"
    BY <1>3, ReturnFacts
  <2>2. QED BY <1>1, <2>1, OutsideStep
<1>4. ASSUME j.next <= Len(j.chunks), NEW d \in 0..Drift, Goto(t, "lock"),
             job' = [job EXCEPT ![t].real =
                       SizeOf(j.chunks[j.next]) + Prefix(j.kind) + Special + d]
      PROVE  CacheInv'
  <2> DEFINE n == SizeOf(j.chunks[j.next]) + Prefix(j.kind) + Special + d
             q == [j EXCEPT !.real = n]
  <2>1. pc' = [pc EXCEPT ![t] = "lock"] /\ job' = [job EXCEPT ![t] = q]
    BY <1>4 DEF Goto
  <2> HIDE DEF j
  <2>2. n \in Nat
    BY <1>2, <1>4, MeasuredSize
  <2> HIDE DEF n
  <2>3. /\ q \in Jobs /\ q.text = j.text /\ q.chunks = j.chunks
        /\ q.start = j.start /\ q.index = j.index /\ q.next = j.next
    BY <1>2, <2>2, MeasuredFacts
  <2> HIDE DEF q
  <2>4. QED BY <1>1, <1>2, <1>4, <2>1, <2>3, OutsideStep
<1>5. QED BY <1>3, <1>4 DEF NextChunk

\* The graph is run over a chunk.
LEMMA RunStep ==
  ASSUME CacheInv, NEW t \in Threads, Run(t)
  PROVE  CacheInv'
<1> DEFINE j == job[t]
           q == WithVector(j)
<1>1. /\ pc[t] = "run" /\ UNCHANGED cache /\ faults' \in 0..MaxFaults
      /\ pc' = [pc EXCEPT ![t] = "next"] /\ job' = [job EXCEPT ![t] = q]
  BY DEF Run, Goto, CacheInv, TypeOK
<1>2. /\ j \in Jobs /\ j.start <= j.index /\ j.index <= Len(j.text)
      /\ j.next \in 1..Len(j.chunks) + 1 /\ j.next <= Len(j.chunks)
  BY <1>1 DEF CacheInv, TypeOK, Working
<1> HIDE DEF j
<1>3. j.next \in 1..Len(j.chunks) /\ Len(j.chunks) \in Nat /\ j.next + 1 \in 1..Len(j.chunks) + 1
  BY <1>2 DEF Jobs
<1>4. /\ q \in Jobs /\ q.text = j.text /\ q.chunks = j.chunks
      /\ q.start = j.start /\ q.index = j.index /\ q.next = j.next + 1
  BY <1>2, <1>3, RanFacts
<1> HIDE DEF q
<1>5. QED BY <1>1, <1>2, <1>3, <1>4, OutsideStep

\* The lock is taken.
LEMMA LockStep ==
  ASSUME CacheInv, NEW t \in Threads, LockPlans(t)
  PROVE  CacheInv'
<1>1. /\ pc[t] = "lock" /\ mutex = Nobody /\ faults' \in 0..MaxFaults
      /\ UNCHANGED <<plans, poisoned, compiled, faults>>
  BY DEF LockPlans, CacheInv, TypeOK
<1>2. CASE Return(t, "inference") /\ UNCHANGED mutex
  <2>1. PICK j \in Jobs :
          /\ pc' = [pc EXCEPT ![t] = "idle"] /\ job' = [job EXCEPT ![t] = j]
          /\ j.start <= j.index /\ j.index <= Len(j.text) /\ j.next \in 1..Len(j.chunks) + 1
          /\ j.kind = "none"
    BY <1>2, ReturnFacts
  <2>2. UNCHANGED cache
    BY <1>1, <1>2 DEF cache
  <2>3. QED BY <1>1, <2>1, <2>2, OutsideStep
<1>3. CASE mutex' = t /\ Goto(t, "plan") /\ UNCHANGED job
  <2>1. \A c \in Threads : pc'[c] = IF c = t THEN "plan" ELSE pc[c]
    BY <1>3 DEF Goto, CacheInv, TypeOK
  <2>2. pc' \in [Threads -> {"idle", "walk", "next", "lock", "plan", "build", "run"}]
    BY <1>3 DEF Goto, CacheInv, TypeOK
  <2>3. \A c \in Threads : pc[c] \notin {"plan", "build"}
    BY <1>1, EmbedderBoundsAssumption DEF CacheInv, TypeOK
  <2>4. TypeOK'
    BY <1>1, <1>3, <2>1, <2>2, <2>3 DEF CacheInv, TypeOK
  <2>5. Missing' /\ Idle' /\ Working'
    BY <1>1, <1>3, <2>1 DEF CacheInv, Missing, Idle, Working
  <2>6. CompiledOnce'
    BY <1>1 DEF CacheInv, CompiledOnce
  <2>7. QED BY <2>4, <2>5, <2>6 DEF CacheInv
<1>4. QED BY <1>2, <1>3 DEF LockPlans

\* Under the lock the plan is found, or it is missing.
LEMMA LookupStep ==
  ASSUME CacheInv, NEW t \in Threads, FindPlan(t) \/ MissPlan(t)
  PROVE  CacheInv'
<1>1. /\ pc[t] = "plan" /\ UNCHANGED <<job, plans, poisoned, compiled, faults>>
      /\ faults' \in 0..MaxFaults
  BY DEF FindPlan, MissPlan, cache, CacheInv, TypeOK
<1>2. /\ job[t] \in Jobs /\ job[t].start <= job[t].index /\ job[t].index <= Len(job[t].text)
      /\ job[t].next \in 1..Len(job[t].chunks) + 1 /\ job[t].next <= Len(job[t].chunks)
      /\ job' = [job EXCEPT ![t] = job[t]]
  BY <1>1 DEF CacheInv, TypeOK, Working
<1>3. poisoned' \in BOOLEAN /\ plans' \subseteq BUCKETS /\ compiled' \in [BUCKETS -> Nat]
      /\ CompiledOnce'
  BY <1>1 DEF CacheInv, TypeOK, CompiledOnce
<1>4. CASE FindPlan(t)
  <2>1. mutex' = Nobody /\ pc' = [pc EXCEPT ![t] = "run"]
    BY <1>4 DEF FindPlan, Goto
  <2>2. QED BY <1>1, <1>2, <1>3, <2>1, LeaveStep
<1>5. CASE MissPlan(t)
  <2>1. /\ UNCHANGED mutex /\ pc' = [pc EXCEPT ![t] = "build"]
        /\ Bucket(job[t].real) \notin plans
    BY <1>5 DEF MissPlan, Goto, cache
  <2>2. \A c \in Threads : pc'[c] = IF c = t THEN "build" ELSE pc[c]
    BY <2>1 DEF CacheInv, TypeOK
  <2>3. pc' \in [Threads -> {"idle", "walk", "next", "lock", "plan", "build", "run"}]
    BY <2>1 DEF CacheInv, TypeOK
  <2>4. TypeOK'
    BY <1>1, <2>1, <2>2, <2>3 DEF CacheInv, TypeOK
  <2>5. Missing'
    BY <1>1, <2>1, <2>2 DEF CacheInv, Missing
  <2>6. Idle' /\ Working'
    BY <1>1, <1>2, <2>2 DEF CacheInv, Idle, Working
  <2>7. QED BY <1>3, <2>4, <2>5, <2>6 DEF CacheInv
<1>6. QED BY <1>4, <1>5

\* The plan is compiled and cached.
LEMMA BuildStep ==
  ASSUME CacheInv, NEW t \in Threads, BuildPlan(t)
  PROVE  CacheInv'
<1> DEFINE b == Bucket(job[t].real)
<1>1. /\ pc[t] = "build" /\ UNCHANGED <<job, poisoned, faults>>
      /\ plans' = plans \cup {b} /\ compiled' = [compiled EXCEPT ![b] = @ + 1]
      /\ mutex' = Nobody /\ pc' = [pc EXCEPT ![t] = "run"]
      /\ faults' \in 0..MaxFaults /\ poisoned' \in BOOLEAN
  BY DEF BuildPlan, Goto, CacheInv, TypeOK
<1>2. /\ job[t] \in Jobs /\ job[t].start <= job[t].index /\ job[t].index <= Len(job[t].text)
      /\ job[t].next \in 1..Len(job[t].chunks) + 1 /\ job[t].next <= Len(job[t].chunks)
      /\ job' = [job EXCEPT ![t] = job[t]]
  BY <1>1 DEF CacheInv, TypeOK, Working
<1>3. job[t].real \in Nat
  BY <1>2 DEF Jobs
<1>4. b \in BUCKETS
  BY <1>3, BucketFacts
<1>5. b \notin plans
  BY <1>1 DEF CacheInv, Missing
<1> HIDE DEF b
<1>6. plans' \subseteq BUCKETS /\ compiled' \in [BUCKETS -> Nat]
  BY <1>1, <1>4 DEF CacheInv, TypeOK
<1>7. CompiledOnce'
  BY <1>1, <1>4, <1>5 DEF CacheInv, TypeOK, CompiledOnce
<1>8. QED BY <1>1, <1>2, <1>6, <1>7, LeaveStep

\* Compiling fails or panics.
LEMMA BuildFailsStep ==
  ASSUME CacheInv, NEW t \in Threads, BuildFails(t) \/ BuildPanics(t)
  PROVE  CacheInv'
<1>1. PICK o \in {"inference", "panicked"} : Fault(t, o)
  BY DEF BuildFails, BuildPanics
<1>2. /\ pc[t] = "build" /\ mutex' = Nobody /\ UNCHANGED <<plans, compiled>>
      /\ poisoned' \in BOOLEAN
  BY DEF BuildFails, BuildPanics, CacheInv, TypeOK
<1>3. faults' \in 0..MaxFaults
  BY <1>1, EmbedderBoundsAssumption DEF Fault, CacheInv, TypeOK
<1>4. PICK j \in Jobs :
        /\ pc' = [pc EXCEPT ![t] = "idle"] /\ job' = [job EXCEPT ![t] = j]
        /\ j.start <= j.index /\ j.index <= Len(j.text) /\ j.next \in 1..Len(j.chunks) + 1
        /\ j.kind = "none"
  BY <1>1, ReturnFacts DEF Fault
<1>5. plans' \subseteq BUCKETS /\ compiled' \in [BUCKETS -> Nat] /\ CompiledOnce'
  BY <1>2 DEF CacheInv, TypeOK, CompiledOnce
<1>6. QED BY <1>2, <1>3, <1>4, <1>5, LeaveStep

\* The invariant of the cache holds at the start and every step keeps it.
THEOREM CacheInvariant == Spec => []CacheInv
<1>1. Init => CacheInv
  <2> SUFFICES ASSUME Init PROVE CacheInv
    OBVIOUS
  <2>1. /\ NoJob \in Jobs /\ NoJob.kind = "none" /\ NoJob.start = 0 /\ NoJob.index = 0
        /\ NoJob.text = <<>> /\ NoJob.chunks = <<>> /\ NoJob.next = 1
    <3> DEFINE e == <<>>
    <3>1. e \in Seq(BOOLEAN) /\ e \in Seq(Chunks) /\ NoJob = Job("none", e, e)
      BY DEF NoJob
    <3> HIDE DEF e
    <3>2. /\ NoJob \in Jobs /\ NoJob.kind = "none" /\ NoJob.start = 0 /\ NoJob.index = 0
          /\ NoJob.text = e /\ NoJob.chunks = e /\ NoJob.next = 1
      BY <3>1, StartedFacts
    <3>3. QED BY <3>2 DEF e
  <2>2. Len(NoJob.text) = 0 /\ Len(NoJob.chunks) = 0
    BY <2>1
  <2>3. TypeOK
    <3>1. 0 \in 0..MaxFaults
      BY EmbedderBoundsAssumption
    <3>2. \A t \in Threads : pc[t] = "idle" /\ job[t] = NoJob
      BY DEF Init
    <3>3. /\ job \in [Threads -> Jobs] /\ compiled \in [BUCKETS -> Nat]
          /\ pc \in [Threads -> {"idle", "walk", "next", "lock", "plan", "build", "run"}]
      BY <2>1 DEF Init
    <3>4. \A t \in Threads : mutex # t
      BY EmbedderBoundsAssumption DEF Init
    <3>5. \A t \in Threads :
            /\ job[t].start <= job[t].index /\ job[t].index <= Len(job[t].text)
            /\ job[t].next \in 1..Len(job[t].chunks) + 1
      BY <2>1, <2>2, <3>2
    <3>6. QED BY <3>1, <3>2, <3>3, <3>4, <3>5 DEF Init, TypeOK
  <2>4. Missing /\ Idle /\ Working
    BY <2>1 DEF Init, Missing, Idle, Working
  <2>5. CompiledOnce
    BY DEF Init, CompiledOnce
  <2>6. QED BY <2>3, <2>4, <2>5 DEF CacheInv
<1>2. CacheInv /\ [Next]_vars => CacheInv'
  <2> SUFFICES ASSUME CacheInv, [Next]_vars PROVE CacheInv'
    OBVIOUS
  <2>1. CASE UNCHANGED vars
    BY <2>1 DEF vars, CacheInv, TypeOK, Missing, Idle, Working, CompiledOnce
  <2>2. CASE Next
    BY <2>2, CallStep, FaultStep, WalkStep, NextChunkStep, RunStep, LockStep, LookupStep,
       BuildStep, BuildFailsStep DEF Next, Step
  <2>3. QED BY <2>1, <2>2
<1>3. QED BY <1>1, <1>2, PTL DEF Spec

\* Every variable holds a value of its kind, and whoever looks up or compiles
\* a plan is the one thread that holds the lock.
THEOREM TypeCorrect == Spec => []TypeOK
BY CacheInvariant, PTL DEF CacheInv

\* plan: however many threads need a bucket at once, and whatever failed or
\* panicked before, its graph is compiled once.
THEOREM PlansCompiledOnce == Spec => []CompiledOnce
BY CacheInvariant, PTL DEF CacheInv

-----------------------------------------------------------------------------
(* Passages are embedded whole. *)

\* The pieces come in order, and each fits the window with its prefix.
Pieces(j) ==
  /\ \A i \in 1..Len(j.chunks) : SizeOf(j.chunks[i]) <= Budget
  /\ \A i \in 1..Len(j.chunks) - 1 : j.chunks[i][2] <= j.chunks[i + 1][1]

\* Every token up to here that says something is in some piece.
Covered(j, to) ==
  \A k \in 1..to : j.text[k] => \E i \in 1..Len(j.chunks) : InChunk(k, j.chunks[i])

\* The pieces before the next one have their vectors, with at most the drift lost.
Embedded(j) ==
  /\ Len(j.vectors) = j.next - 1
  /\ \A i \in 1..j.next - 1 :
       /\ j.vectors[i].chunk = j.chunks[i]
       /\ j.vectors[i].real - j.vectors[i].pooled <= Drift

\* A passage at each point of its call: the walk has pieces up to its start and
\* less than a budget taken since, and what is run exceeds the window by no
\* more than the drift.
PassageOK(j, where) ==
  /\ Pieces(j) /\ Embedded(j)
  /\ where = "walk" =>
       /\ Covered(j, j.start)
       /\ \A i \in 1..Len(j.chunks) : j.chunks[i][2] <= j.start
       /\ j.index - j.start < Budget
  /\ where # "walk" => Covered(j, Len(j.text))
  /\ where \in {"lock", "plan", "build", "run"} => j.real <= TOKEN_LIMIT + Drift

PassageInv == \A t \in Threads : job[t].kind = "passage" => PassageOK(job[t], pc[t])

\* A step of one thread leaves the passages of the others alone.
LEMMA PassageStep ==
  ASSUME CacheInv, PassageInv, NEW t \in Threads, NEW where, NEW j,
         pc' = [pc EXCEPT ![t] = where], job' = [job EXCEPT ![t] = j],
         j.kind = "passage" => PassageOK(j, where)
  PROVE  PassageInv'
<1>1. \A c \in Threads :
        /\ pc'[c] = (IF c = t THEN where ELSE pc[c])
        /\ job'[c] = (IF c = t THEN j ELSE job[c])
  BY DEF CacheInv, TypeOK
<1>2. \A c \in Threads : job'[c].kind = "passage" => PassageOK(job'[c], pc'[c])
  BY <1>1 DEF PassageInv
<1>3. QED BY <1>2 DEF PassageInv, PassageOK, Pieces, Covered, Embedded

\* The numbers of a job, and its chunks.
LEMMA JobNumbers ==
  ASSUME NEW j \in Jobs
  PROVE  /\ j.start \in Nat /\ j.index \in Nat /\ j.next \in Nat /\ j.real \in Nat
         /\ j.text \in Seq(BOOLEAN) /\ Len(j.text) \in Nat
         /\ j.chunks \in Seq(Chunks) /\ Len(j.chunks) \in Nat
         /\ j.vectors \in Seq(Vectors) /\ Len(j.vectors) \in Nat
         /\ \A i \in 1..Len(j.chunks) :
              /\ j.chunks[i] \in Chunks /\ j.chunks[i][1] \in Nat /\ j.chunks[i][2] \in Nat
              /\ j.chunks[i][1] <= j.chunks[i][2]
<1>1. /\ j.start \in Nat /\ j.index \in Nat /\ j.next \in Nat /\ j.real \in Nat
      /\ j.text \in Seq(BOOLEAN) /\ j.chunks \in Seq(Chunks) /\ j.vectors \in Seq(Vectors)
  BY DEF Jobs
<1>2. Len(j.text) \in Nat /\ Len(j.chunks) \in Nat /\ Len(j.vectors) \in Nat
  BY <1>1
<1>3. \A i \in 1..Len(j.chunks) : j.chunks[i] \in Chunks
  BY <1>1
<1>4. \A c \in Chunks : c[1] \in Nat /\ c[2] \in Nat /\ c[1] <= c[2]
  BY DEF Chunks
<1>5. QED BY <1>1, <1>2, <1>3, <1>4

\* The budget is what the window leaves beside the prefix.
LEMMA BudgetFacts == Budget \in Nat /\ Budget > 0 /\ Budget + PassagePrefix + Special = TOKEN_LIMIT
BY WindowAssumption DEF Budget

\* A text that fits is one piece.
LEMMA WholePassage ==
  ASSUME NEW text \in Seq(BOOLEAN), Len(text) <= Budget
  PROVE  PassageOK(Job("passage", text, <<<<0, Len(text)>>>>), "next")
<1> DEFINE e == <<0, Len(text)>>
           one == <<e>>
           j == Job("passage", text, one)
<1>1. Len(text) \in Nat
  OBVIOUS
<1>2. e \in Chunks /\ e[1] = 0 /\ e[2] = Len(text)
  BY <1>1, ChunkType
<1> HIDE DEF e
<1>3. one \in Seq(Chunks) /\ Len(one) = 1 /\ one[1] = e
  BY <1>2
<1> HIDE DEF one
<1>4. /\ j.text = text /\ j.chunks = one /\ j.next = 1 /\ j.vectors = <<>>
  BY DEF Job
<1> HIDE DEF j
<1>a. Len(j.chunks) = 1 /\ j.chunks[1] = e
  BY <1>3, <1>4, Zenon
<1>5. Pieces(j)
  <2>1. \A i \in 1..Len(j.chunks) : j.chunks[i] = e
    BY ONLY <1>a
  <2>2. SizeOf(e) <= Budget
    BY <1>1, <1>2 DEF SizeOf
  <2>3. Len(j.chunks) - 1 = 0
    BY ONLY <1>a
  <2>4. \A i \in 1..Len(j.chunks) : SizeOf(j.chunks[i]) <= Budget
    BY <2>1, <2>2, Zenon
  <2>5. QED BY <2>3, <2>4 DEF Pieces
<1>6. Covered(j, Len(j.text))
  <2>1. \A k \in 1..Len(text) : InChunk(k, e)
    BY <1>1, <1>2 DEF InChunk
  <2>2. 1 \in 1..Len(j.chunks) /\ j.chunks[1] = e
    BY ONLY <1>a
  <2>3. \A k \in 1..Len(text) : \E i \in 1..Len(j.chunks) : InChunk(k, j.chunks[i])
    BY <2>1, <2>2, Zenon
  <2>4. QED BY <1>4, <2>3 DEF Covered
<1>7. Embedded(j)
  <2>1. Len(j.vectors) = 0
    BY <1>4
  <2>2. QED BY <1>4, <2>1 DEF Embedded
<1>8. QED BY <1>5, <1>6, <1>7 DEF PassageOK, j, one, e

\* A text that does not fit is walked from its start.
LEMMA LongPassage ==
  ASSUME NEW text \in Seq(BOOLEAN)
  PROVE  PassageOK(Job("passage", text, <<>>), "walk")
<1> DEFINE j == Job("passage", text, <<>>)
<1>1. /\ j.start = 0 /\ j.index = 0 /\ j.next = 1 /\ j.vectors = <<>> /\ j.chunks = <<>>
  BY DEF Job
<1> HIDE DEF j
<1>2. Len(j.vectors) = 0 /\ Len(j.chunks) = 0
  BY <1>1
<1>3. Pieces(j) /\ Embedded(j) /\ Covered(j, j.start)
  BY <1>1, <1>2 DEF Pieces, Embedded, Covered
<1>4. j.index - j.start < Budget
  BY <1>1, BudgetFacts
<1>5. QED BY <1>2, <1>3, <1>4 DEF PassageOK, j

\* The walk over one token of a passage.
LEMMA WalkedPassage ==
  ASSUME NEW j \in Jobs, j.start <= j.index, j.index < Len(j.text),
         j.next \in 1..Len(j.chunks) + 1, PassageOK(j, "walk"),
         NEW q, q = Walked(j)
  PROVE  PassageOK(q, IF j.index + 1 = Len(j.text) THEN "next" ELSE "walk")
<1> DEFINE n == j.index + 1
           e == <<j.start, n>>
           m == Len(j.chunks)
<1>1. /\ j.start \in Nat /\ j.index \in Nat /\ j.next \in Nat
      /\ j.text \in Seq(BOOLEAN) /\ Len(j.text) \in Nat
      /\ j.chunks \in Seq(Chunks) /\ m \in Nat
      /\ \A i \in 1..m :
           /\ j.chunks[i] \in Chunks /\ j.chunks[i][1] \in Nat /\ j.chunks[i][2] \in Nat
           /\ j.chunks[i][1] <= j.chunks[i][2]
  BY JobNumbers
<1>2. /\ q.text = j.text /\ q.index = n /\ q.next = j.next /\ q.vectors = j.vectors
      /\ ~Cut(j) => q.start = j.start /\ q.chunks = j.chunks
      /\ Cut(j) =>
           /\ q.start = n
           /\ q.chunks = IF Says(j.text, j.start, n) THEN Append(j.chunks, e) ELSE j.chunks
  BY WalkedFacts
<1>3. /\ Pieces(j) /\ Embedded(j) /\ Covered(j, j.start)
      /\ \A i \in 1..m : j.chunks[i][2] <= j.start
      /\ j.index - j.start < Budget
  BY DEF PassageOK
<1>4. n \in Nat /\ j.start <= n /\ n <= Len(j.text) /\ n - j.start <= Budget
  BY <1>1, <1>3, BudgetFacts
<1>5. e \in Chunks /\ e[1] = j.start /\ e[2] = n
  BY <1>1, <1>4, ChunkType
<1> HIDE DEF e
<1>6. CASE ~Cut(j)
  <2>1. n - j.start < Budget /\ n # Len(j.text)
    BY <1>1, <1>4, <1>6, BudgetFacts DEF Cut
  <2>2. Pieces(q) /\ Embedded(q) /\ Covered(q, q.start)
    BY <1>2, <1>3, <1>6 DEF Pieces, Embedded, Covered
  <2>3. QED BY <1>2, <1>3, <1>6, <2>1, <2>2 DEF PassageOK
<1>7. CASE Cut(j) /\ ~Says(j.text, j.start, n)
  <2>1. q.chunks = j.chunks /\ q.start = n
    BY <1>2, <1>7
  <2>2. Pieces(q) /\ Embedded(q)
    BY <1>2, <1>3, <2>1 DEF Pieces, Embedded
  <2>3. Covered(q, n)
    <3>1. ASSUME NEW k \in 1..n, j.text[k] PROVE k \in 1..j.start
      BY <1>1, <1>4, <1>7, <3>1 DEF Says
    <3>2. QED BY <1>2, <1>3, <2>1, <3>1 DEF Covered
  <2>4. \A i \in 1..Len(q.chunks) : q.chunks[i][2] <= q.start
    BY <1>1, <1>3, <1>4, <2>1
  <2>5. q.index - q.start < Budget
    BY <1>2, <1>4, <2>1, BudgetFacts
  <2>6. QED BY <1>2, <2>1, <2>2, <2>3, <2>4, <2>5 DEF PassageOK
<1>8. CASE Cut(j) /\ Says(j.text, j.start, n)
  <2>1. q.chunks = Append(j.chunks, e) /\ q.start = n
    BY <1>2, <1>8
  <2>2. /\ Len(q.chunks) = m + 1 /\ q.chunks[m + 1] = e
        /\ \A i \in 1..m : q.chunks[i] = j.chunks[i]
    BY <1>1, <1>5, <2>1
  <2>3. SizeOf(e) <= Budget
    BY <1>4, <1>5 DEF SizeOf
  <2>4. Pieces(q)
    <3>1. ASSUME NEW i \in 1..m + 1 PROVE SizeOf(q.chunks[i]) <= Budget
      <4>1. i \in 1..m \/ i = m + 1
        BY <1>1
      <4>2. QED BY <1>3, <2>2, <2>3, <4>1 DEF Pieces
    <3>2. ASSUME NEW i \in 1..m PROVE q.chunks[i][2] <= q.chunks[i + 1][1]
      <4>1. CASE i = m
        BY <1>3, <1>5, <2>2, <4>1
      <4>2. CASE i # m
        <5>1. i \in 1..m - 1 /\ i + 1 \in 1..m
          BY <1>1, <4>2
        <5>2. QED BY <1>3, <2>2, <5>1 DEF Pieces
      <4>3. QED BY <4>1, <4>2
    <3>3. m + 1 - 1 = m
      BY <1>1
    <3>4. QED BY <2>2, <3>1, <3>2, <3>3 DEF Pieces
  <2>5. Embedded(q)
    <3>1. \A i \in 1..j.next - 1 : i \in 1..m
      BY <1>1
    <3>2. QED BY <1>2, <1>3, <2>2, <3>1 DEF Embedded
  <2>6. Covered(q, n)
    <3>1. ASSUME NEW k \in 1..n, q.text[k]
          PROVE  \E i \in 1..m + 1 : InChunk(k, q.chunks[i])
      <4>1. CASE k \in 1..j.start
        <5>1. PICK i \in 1..m : InChunk(k, j.chunks[i])
          BY <1>2, <1>3, <3>1, <4>1 DEF Covered
        <5>2. i \in 1..m + 1 /\ q.chunks[i] = j.chunks[i]
          BY <1>1, <2>2
        <5>3. QED BY <5>1, <5>2
      <4>2. CASE k \notin 1..j.start
        <5>1. InChunk(k, e) /\ m + 1 \in 1..m + 1
          BY <1>1, <1>4, <1>5, <4>2 DEF InChunk
        <5>2. QED BY <2>2, <5>1
      <4>3. QED BY <4>1, <4>2
    <3>2. QED BY <2>2, <3>1 DEF Covered
  <2>7. \A i \in 1..Len(q.chunks) : q.chunks[i][2] <= q.start
    <3>1. ASSUME NEW i \in 1..m + 1 PROVE q.chunks[i][2] <= n
      <4>1. i \in 1..m \/ i = m + 1
        BY <1>1
      <4>2. CASE i = m + 1
        BY <1>4, <1>5, <2>2, <4>2
      <4>3. CASE i \in 1..m
        <5>1. j.chunks[i][2] \in Nat /\ j.chunks[i][2] <= j.start /\ q.chunks[i] = j.chunks[i]
          BY <1>1, <1>3, <2>2, <4>3
        <5>2. QED BY <1>1, <1>4, <5>1
      <4>4. QED BY <4>1, <4>2, <4>3
    <3>2. QED BY <2>1, <2>2, <3>1
  <2>8. q.index - q.start < Budget
    BY <1>2, <1>4, <2>1, BudgetFacts
  <2>9. QED BY <1>2, <2>1, <2>4, <2>5, <2>6, <2>7, <2>8 DEF PassageOK
<1>9. QED BY <1>6, <1>7, <1>8

\* A chunk is run: no more than the drift is lost.
LEMMA RanPassage ==
  ASSUME NEW j \in Jobs, j.next \in 1..Len(j.chunks), PassageOK(j, "run"),
         NEW q, q = WithVector(j)
  PROVE  PassageOK(q, "next")
<1> DEFINE v == Vector(j)
           m == j.next
<1>1. /\ j.next \in Nat /\ j.real \in Nat /\ j.vectors \in Seq(Vectors)
      /\ Len(j.vectors) \in Nat
  BY JobNumbers
<1>2. /\ v \in Vectors /\ v.chunk = j.chunks[m] /\ v.real = j.real /\ v.pooled \in Nat
      /\ v.pooled = j.real \/ v.pooled = TOKEN_LIMIT
  BY VectorFacts
<1>3. /\ q.text = j.text /\ q.chunks = j.chunks
      /\ q.next = m + 1 /\ q.vectors = Append(j.vectors, v)
  BY RanFacts
<1> HIDE DEF v
<1>4. Pieces(j) /\ Embedded(j) /\ Covered(j, Len(j.text)) /\ j.real <= TOKEN_LIMIT + Drift
  BY DEF PassageOK
<1>5. v.real - v.pooled <= Drift
  BY <1>1, <1>2, <1>4, WindowAssumption, EmbedderBoundsAssumption
<1>6. Len(j.vectors) = m - 1
  BY <1>4 DEF Embedded
<1>7. /\ Len(q.vectors) = m /\ q.vectors[m] = v
      /\ \A i \in 1..m - 1 : q.vectors[i] = j.vectors[i]
  BY <1>1, <1>2, <1>3, <1>6
<1>8. Embedded(q)
  <2>1. ASSUME NEW i \in 1..m
        PROVE  q.vectors[i].chunk = j.chunks[i]
               /\ q.vectors[i].real - q.vectors[i].pooled <= Drift
    <3>1. CASE i = m
      BY <1>2, <1>5, <1>7, <3>1
    <3>2. CASE i # m
      <4>1. i \in 1..m - 1
        BY <1>1, <3>2
      <4>2. QED BY <1>4, <1>7, <4>1 DEF Embedded
    <3>3. QED BY <3>1, <3>2
  <2>2. m + 1 - 1 = m
    BY <1>1
  <2>3. QED BY <1>3, <1>7, <2>1, <2>2 DEF Embedded
<1>9. Pieces(q) /\ Covered(q, Len(q.text))
  BY <1>3, <1>4 DEF Pieces, Covered
<1>10. QED BY <1>8, <1>9 DEF PassageOK

\* A chunk is measured: it fits the window but for the drift.
LEMMA MeasuredPassage ==
  ASSUME NEW j \in Jobs, j.kind = "passage", j.next \in 1..Len(j.chunks), PassageOK(j, "next"),
         NEW d \in 0..Drift, NEW n \in Nat,
         n = SizeOf(j.chunks[j.next]) + Prefix(j.kind) + Special + d,
         NEW q, q = [j EXCEPT !.real = n]
  PROVE  PassageOK(q, "lock")
<1>1. /\ q.text = j.text /\ q.chunks = j.chunks /\ q.next = j.next
      /\ q.vectors = j.vectors /\ q.real = n
  BY MeasuredFacts
<1>2. Pieces(j) /\ Embedded(j) /\ Covered(j, Len(j.text))
  BY DEF PassageOK
<1>3. Pieces(q) /\ Embedded(q) /\ Covered(q, Len(q.text))
  BY <1>1, <1>2 DEF Pieces, Embedded, Covered
<1>4. SizeOf(j.chunks[j.next]) <= Budget
  BY <1>2 DEF Pieces
<1>5. SizeOf(j.chunks[j.next]) \in Int
  <2> DEFINE e == j.chunks[j.next]
  <2>1. e[1] \in Nat /\ e[2] \in Nat
    BY JobNumbers, Zenon
  <2> HIDE DEF e
  <2>2. SizeOf(e) \in Int
    BY <2>1 DEF SizeOf
  <2>3. QED BY <2>2 DEF e
<1>6. n <= TOKEN_LIMIT + Drift
  <2> DEFINE z == SizeOf(j.chunks[j.next])
  <2>1. n = z + PassagePrefix + Special + d /\ z \in Int /\ z <= Budget
    BY <1>4, <1>5 DEF Prefix
  <2> HIDE DEF z
  <2>2. PassagePrefix \in Nat /\ Special \in Nat /\ TOKEN_LIMIT \in Nat /\ Drift \in Nat
    BY WindowAssumption, EmbedderBoundsAssumption
  <2>3. QED BY <2>1, <2>2, BudgetFacts
<1>7. QED BY <1>1, <1>3, <1>6 DEF PassageOK

\* Every passage is in order at each point of its call.
THEOREM PassageInvariant == Spec => []PassageInv
<1>1. Init => PassageInv
  <2> SUFFICES ASSUME Init, NEW t \in Threads PROVE job[t].kind # "passage"
    BY DEF PassageInv
  <2>1. job[t] = NoJob
    BY DEF Init
  <2>2. NoJob.kind = "none"
    BY DEF NoJob, Job
  <2>3. QED BY <2>1, <2>2
<1>2. CacheInv /\ PassageInv /\ [Next]_vars => PassageInv'
  <2> SUFFICES ASSUME CacheInv, PassageInv, [Next]_vars PROVE PassageInv'
    OBVIOUS
  <2>1. ASSUME NEW t \in Threads, NEW text \in Texts, EmbedPassage(t, text)
        PROVE  PassageInv'
    <3>1. text \in Seq(BOOLEAN)
      BY TextsAssumption
    <3>2. CASE /\ Len(text) <= Budget /\ Goto(t, "next")
               /\ job' = [job EXCEPT ![t] = Job("passage", text, <<<<0, Len(text)>>>>)]
      BY <3>1, <3>2, WholePassage, PassageStep DEF Goto
    <3>3. CASE /\ Goto(t, "walk")
               /\ job' = [job EXCEPT ![t] = Job("passage", text, <<>>)]
      BY <3>1, <3>3, LongPassage, PassageStep DEF Goto
    <3>4. QED BY <2>1, <3>2, <3>3 DEF EmbedPassage
  <2>2. ASSUME NEW t \in Threads, NEW text \in Texts, EmbedQuery(t, text)
        PROVE  PassageInv'
    <3> DEFINE j == Job("query", text, <<<<0, Len(text)>>>>)
    <3>1. j.kind = "query"
      BY DEF Job
    <3>2. pc' = [pc EXCEPT ![t] = "next"] /\ job' = [job EXCEPT ![t] = j]
      BY <2>2 DEF EmbedQuery, Goto
    <3> HIDE DEF j
    <3>3. QED BY <3>1, <3>2, PassageStep
  <2>3. ASSUME NEW t \in Threads, NEW o \in {"none", "ok", "tokenizer", "inference", "panicked"},
               Return(t, o)
        PROVE  PassageInv'
    <3>1. PICK j \in Jobs :
            pc' = [pc EXCEPT ![t] = "idle"] /\ job' = [job EXCEPT ![t] = j] /\ j.kind = "none"
      BY <2>3, ReturnFacts
    <3>2. QED BY <3>1, PassageStep
  <2>4. ASSUME NEW t \in Threads, Walk(t) PROVE PassageInv'
    <3> DEFINE j == job[t]
               where == IF j.index + 1 = Len(j.text) THEN "next" ELSE "walk"
               q == Walked(j)
    <3>1. /\ pc[t] = "walk" /\ pc' = [pc EXCEPT ![t] = where]
          /\ job' = [job EXCEPT ![t] = q]
      BY <2>4 DEF Walk, Goto
    <3>2. /\ j \in Jobs /\ j.start <= j.index /\ j.index < Len(j.text)
          /\ j.next \in 1..Len(j.chunks) + 1
          /\ j.kind = "passage" => PassageOK(j, "walk")
      BY <3>1 DEF CacheInv, TypeOK, Working, PassageInv
    <3> HIDE DEF j
    <3>3. q.kind = j.kind
      BY <3>2, WalkedFacts
    <3>4. q.kind = "passage" => PassageOK(q, where)
      BY <3>2, <3>3, WalkedPassage
    <3> HIDE DEF q, where
    <3>5. QED BY <3>1, <3>4, PassageStep
  <2>5. ASSUME NEW t \in Threads, Run(t) PROVE PassageInv'
    <3> DEFINE j == job[t]
               q == WithVector(j)
    <3>1. /\ pc[t] = "run" /\ pc' = [pc EXCEPT ![t] = "next"]
          /\ job' = [job EXCEPT ![t] = q]
      BY <2>5 DEF Run, Goto
    <3>2. /\ j \in Jobs /\ j.next \in 1..Len(j.chunks) + 1 /\ j.next <= Len(j.chunks)
          /\ j.kind = "passage" => PassageOK(j, "run")
      BY <3>1 DEF CacheInv, TypeOK, Working, PassageInv
    <3> HIDE DEF j
    <3>3. j.next \in 1..Len(j.chunks)
      BY <3>2, JobNumbers
    <3>4. q.kind = j.kind
      BY <3>2, <3>3, RanFacts
    <3>5. q.kind = "passage" => PassageOK(q, "next")
      BY <3>2, <3>3, <3>4, RanPassage
    <3> HIDE DEF q
    <3>6. QED BY <3>1, <3>5, PassageStep
  <2>6. ASSUME NEW t \in Threads, NextChunk(t) PROVE PassageInv'
    <3> DEFINE j == job[t]
    <3>1. CASE Return(t, "ok")
      BY <2>3, <3>1
    <3>2. ASSUME j.next <= Len(j.chunks), NEW d \in 0..Drift, Goto(t, "lock"),
                 job' = [job EXCEPT ![t].real =
                           SizeOf(j.chunks[j.next]) + Prefix(j.kind) + Special + d]
          PROVE  PassageInv'
      <4> DEFINE n == SizeOf(j.chunks[j.next]) + Prefix(j.kind) + Special + d
                 q == [j EXCEPT !.real = n]
      <4>1. pc' = [pc EXCEPT ![t] = "lock"] /\ job' = [job EXCEPT ![t] = q]
        BY <3>2 DEF Goto
      <4>2. /\ j \in Jobs /\ j.next \in 1..Len(j.chunks) + 1
            /\ j.kind = "passage" => PassageOK(j, "next")
        BY <2>6 DEF CacheInv, TypeOK, PassageInv, NextChunk
      <4> HIDE DEF j
      <4>3. j.next \in 1..Len(j.chunks)
        BY <3>2, <4>2, JobNumbers
      <4>4. n \in Nat
        BY <3>2, <4>2, MeasuredSize
      <4>5. q.kind = j.kind
        BY <4>2, <4>4, MeasuredFacts
      <4>6. q.kind = "passage" => PassageOK(q, "lock")
        BY <4>2, <4>3, <4>4, <4>5, MeasuredPassage
      <4> HIDE DEF q
      <4>7. QED BY <4>1, <4>6, PassageStep
    <3>3. QED BY <2>6, <3>1, <3>2 DEF NextChunk
  <2>7. ASSUME NEW t \in Threads, NEW where \in {"plan", "build", "run"},
               pc[t] \in {"lock", "plan", "build"}, Goto(t, where), UNCHANGED job
        PROVE  PassageInv'
    <3>1. job' = [job EXCEPT ![t] = job[t]] /\ pc' = [pc EXCEPT ![t] = where]
      BY <2>7 DEF Goto, CacheInv, TypeOK
    <3>2. job[t].kind = "passage" => PassageOK(job[t], where)
      BY <2>7 DEF PassageInv, PassageOK
    <3>3. QED BY <3>1, <3>2, PassageStep
  <2>8. ASSUME NEW t \in Threads,
               LockPlans(t) \/ FindPlan(t) \/ MissPlan(t) \/ BuildPlan(t)
        PROVE  PassageInv'
    BY <2>3, <2>7, <2>8 DEF LockPlans, FindPlan, MissPlan, BuildPlan
  <2>9. ASSUME NEW t \in Threads,
               BuildFails(t) \/ BuildPanics(t) \/ ChunksFail(t) \/ CallFails(t)
        PROVE  PassageInv'
    <3>1. PICK o \in {"none", "ok", "tokenizer", "inference", "panicked"} : Return(t, o)
      BY <2>9 DEF BuildFails, BuildPanics, ChunksFail, CallFails, Fault
    <3>2. QED BY <2>3, <3>1
  <2>10. CASE UNCHANGED vars
    BY <2>10 DEF vars, PassageInv, PassageOK, Pieces, Covered, Embedded
  <2>11. QED
    BY <2>1, <2>2, <2>4, <2>5, <2>6, <2>8, <2>9, <2>10 DEF Next, Step
<1>3. QED BY <1>1, <1>2, CacheInvariant, PTL DEF Spec

\* chunks, embed_passage and run: a passage of any length, however its blanks
\* lie, comes back with a vector for every piece, in order, and every token that
\* says something is in a piece of which at most the drift was cut off.
THEOREM PassagesWhole == Spec => []EmbeddedWhole
<1>1. ASSUME CacheInv, PassageInv PROVE EmbeddedWhole
  <2> SUFFICES ASSUME NEW t \in Threads, job[t].kind = "passage", pc[t] = "next",
                      job[t].next > Len(job[t].chunks)
               PROVE  LET j == job[t]
                          n == Len(j.chunks) IN
                        /\ Len(j.vectors) = n
                        /\ \A i \in 1..n : j.vectors[i].chunk = j.chunks[i]
                        /\ \A i \in 1..n-1 : j.chunks[i][2] <= j.chunks[i + 1][1]
                        /\ \A k \in 1..Len(j.text) : j.text[k] =>
                             \E i \in 1..n :
                               /\ InChunk(k, j.chunks[i])
                               /\ j.vectors[i].real - j.vectors[i].pooled <= Drift
    BY DEF EmbeddedWhole
  <2> DEFINE j == job[t]
             n == Len(j.chunks)
  <2>1. j \in Jobs /\ j.next \in 1..n + 1 /\ PassageOK(j, "next")
    BY <1>1 DEF CacheInv, TypeOK, PassageInv
  <2>2. n \in Nat /\ j.next \in Nat
    BY <2>1, JobNumbers
  <2>3. j.next - 1 = n
    BY <2>1, <2>2
  <2> HIDE DEF j, n
  <2>4. /\ Len(j.vectors) = n
        /\ \A i \in 1..n : /\ j.vectors[i].chunk = j.chunks[i]
                           /\ j.vectors[i].real - j.vectors[i].pooled <= Drift
    BY <2>1, <2>3 DEF PassageOK, Embedded
  <2>5. /\ \A i \in 1..n-1 : j.chunks[i][2] <= j.chunks[i + 1][1]
        /\ \A k \in 1..Len(j.text) : j.text[k] => \E i \in 1..n : InChunk(k, j.chunks[i])
    BY <2>1 DEF PassageOK, Pieces, Covered, n
  <2>6. QED BY <2>4, <2>5 DEF j, n
<1>2. QED BY <1>1, CacheInvariant, PassageInvariant, PTL

=============================================================================
