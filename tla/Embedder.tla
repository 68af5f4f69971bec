------------------------------ MODULE Embedder ------------------------------
(***************************************************************************)
(* The embedding model (euledb-embed): text is cut into chunks that fit    *)
(* the model's window, each chunk is padded to a bucket and run through a  *)
(* graph compiled for that bucket.  Threads share one embedder and its     *)
(* cache of compiled plans, which a mutex guards.                          *)
(*                                                                         *)
(* A text is its tokens, and a token is blank or not; a chunk is an        *)
(* interval of tokens.  Numbers stand for the components of a vector: how  *)
(* many of the tokens that went in were pooled and how many were lost.     *)
(***************************************************************************)
EXTENDS Integers, Sequences, FiniteSets

CONSTANTS
  Threads,
  Texts,          \* a text is a sequence of tokens, TRUE where not blank
  TOKEN_LIMIT,    \* the model's window
  BUCKETS,        \* the lengths the graph is compiled for
  PassagePrefix,  \* tokens of the prefix on stored text
  QueryPrefix,    \* tokens of the prefix on a query
  Special,        \* tokens the graph adds around every input
  Drift,          \* tokens a piece may gain when it is tokenised on its own
  Nobody,         \* the mutex is free
  MaxFaults       \* how often a step fails

ASSUME TextsAssumption == \A text \in Texts : text \in Seq(BOOLEAN)
ASSUME WindowAssumption ==
  /\ TOKEN_LIMIT \in Nat /\ BUCKETS \subseteq 1..TOKEN_LIMIT
  /\ TOKEN_LIMIT \in BUCKETS
  /\ PassagePrefix \in Nat /\ QueryPrefix \in Nat /\ Special \in Nat
  /\ PassagePrefix + Special < TOKEN_LIMIT
ASSUME EmbedderBoundsAssumption ==
  Nobody \notin Threads /\ Drift \in Nat /\ MaxFaults \in Nat

VARIABLES
  pc,        \* where each thread is in its call
  job,       \* what it embeds and what it has so far
  plans,     \* the buckets that have a compiled plan
  mutex,     \* the thread that holds the lock on the plans
  poisoned,  \* a thread panicked while it held the lock
  compiled,  \* history: how often each bucket was compiled
  faults     \* faults so far

vars == <<pc, job, plans, mutex, poisoned, compiled, faults>>
cache == <<plans, mutex, poisoned, compiled>>

\* The tokens of a piece that fits the window once its prefix is added.
Budget == TOKEN_LIMIT - (PassagePrefix + Special)

\* A piece of a text, what became of one, and what a thread works on.
Chunks == {c \in Nat \X Nat : c[1] <= c[2]}
Vectors == [chunk : Chunks, bucket : BUCKETS, real : Nat, pooled : Nat]
Jobs ==
  [kind : {"none", "passage", "query"}, text : Seq(BOOLEAN), start : Nat, index : Nat,
   chunks : Seq(Chunks), next : Nat, real : Nat, vectors : Seq(Vectors),
   outcome : {"none", "ok", "tokenizer", "inference", "panicked"}]

\* A call that has these chunks to embed.
Job(kind, text, chunks) ==
  [kind |-> kind, text |-> text, start |-> 0, index |-> 0, chunks |-> chunks,
   next |-> 1, real |-> 0, vectors |-> <<>>, outcome |-> "none"]

NoJob == Job("none", <<>>, <<>>)

Init ==
  /\ pc = [t \in Threads |-> "idle"]
  /\ job = [t \in Threads |-> NoJob]
  /\ plans = {}
  /\ mutex = Nobody
  /\ poisoned = FALSE
  /\ compiled = [b \in BUCKETS |-> 0]
  /\ faults = 0

Goto(t, where) == pc' = [pc EXCEPT ![t] = where]

\* The call returns: its vectors are the caller's, or an error discards them.
Return(t, o) ==
  /\ Goto(t, "idle")
  /\ job' = [job EXCEPT ![t] = [NoJob EXCEPT !.outcome = o]]

\* A step that cannot be modelled further fails: the tokenizer, the compiler
\* of the graph or its evaluation.
Fault(t, o) ==
  /\ faults < MaxFaults
  /\ faults' = faults + 1
  /\ Return(t, o)

-----------------------------------------------------------------------------
(* Chunking. *)

\* embed_passage tokenises the text and keeps it whole if it fits.
EmbedPassage(t, text) ==
  /\ pc[t] = "idle"
  /\ \/ /\ Len(text) <= Budget
        /\ Goto(t, "next")
        /\ job' = [job EXCEPT ![t] = Job("passage", text, <<<<0, Len(text)>>>>)]
     \/ /\ Len(text) > Budget
        /\ Goto(t, "walk")
        /\ job' = [job EXCEPT ![t] = Job("passage", text, <<>>)]
  /\ UNCHANGED <<cache, faults>>

\* The prefix or the text cannot be tokenised for chunking.
ChunksFail(t) ==
  /\ pc[t] = "idle"
  /\ Fault(t, "tokenizer")
  /\ UNCHANGED cache

\* embed_query: the text is never chunked.
EmbedQuery(t, text) ==
  /\ pc[t] = "idle"
  /\ Goto(t, "next")
  /\ job' = [job EXCEPT ![t] = Job("query", text, <<<<0, Len(text)>>>>)]
  /\ UNCHANGED <<cache, faults>>

\* The tokens from + 1 .. to are not all blank.
Says(text, from, to) == \E i \in from+1..to : text[i]

\* Mutant: the last piece is only kept if it is full.
CutWhenFull(j) == j.index + 1 - j.start >= Budget

\* A piece ends when it has used up the budget, or with the text.
Cut(j) == j.index + 1 - j.start >= Budget \/ j.index + 1 = Len(j.text)

\* The piece is kept unless it is blank, and the next one starts where it ends.
Piece(j) ==
  [j EXCEPT !.index = j.index + 1, !.start = j.index + 1,
            !.chunks = IF Says(j.text, j.start, j.index + 1)
                       THEN Append(@, <<j.start, j.index + 1>>) ELSE @]

Walked(j) == IF Cut(j) THEN Piece(j) ELSE [j EXCEPT !.index = @ + 1]

\* One token of the walk over the offsets.
Walk(t) ==
  /\ pc[t] = "walk"
  /\ job' = [job EXCEPT ![t] = Walked(job[t])]
  /\ Goto(t, IF job[t].index + 1 = Len(job[t].text) THEN "next" ELSE "walk")
  /\ UNCHANGED <<cache, faults>>

-----------------------------------------------------------------------------
(* Running the graph over one chunk. *)

Prefix(kind) == IF kind = "passage" THEN PassagePrefix ELSE QueryPrefix

SizeOf(chunk) == chunk[2] - chunk[1]

\* run tokenises the next chunk with its prefix; the tokens of a piece on its
\* own need not be those it had within the text.  Without a chunk left the
\* call returns its vectors.
NextChunk(t) ==
  /\ pc[t] = "next"
  /\ LET j == job[t] IN
       \/ j.next > Len(j.chunks) /\ Return(t, "ok")
       \/ /\ j.next <= Len(j.chunks)
          /\ \E d \in 0..Drift :
               job' = [job EXCEPT ![t].real =
                         SizeOf(j.chunks[j.next]) + Prefix(j.kind) + Special + d]
          /\ Goto(t, "lock")
  /\ UNCHANGED <<cache, faults>>

Least(S) == CHOOSE x \in S : \A y \in S : x <= y

\* The smallest bucket that holds the tokens, or the window.
Bucket(real) ==
  LET fitting == {b \in BUCKETS : b >= real}
  IN IF fitting = {} THEN TOKEN_LIMIT ELSE Least(fitting)

\* Mutant: the cache is looked up without waiting for the lock.
LockPlansUnguarded(t) ==
  /\ pc[t] = "lock"
  /\ \/ poisoned /\ Return(t, "inference") /\ UNCHANGED mutex
     \/ ~poisoned /\ mutex' = t /\ Goto(t, "plan") /\ UNCHANGED job
  /\ UNCHANGED <<plans, poisoned, compiled, faults>>

\* The lock on the plans; a poisoned one is an error of every later call.
LockPlans(t) ==
  /\ pc[t] = "lock"
  /\ mutex = Nobody
  /\ \/ poisoned /\ Return(t, "inference") /\ UNCHANGED mutex
     \/ ~poisoned /\ mutex' = t /\ Goto(t, "plan") /\ UNCHANGED job
  /\ UNCHANGED <<plans, poisoned, compiled, faults>>

\* Under the lock: the plan is there.
FindPlan(t) ==
  /\ pc[t] = "plan"
  /\ Bucket(job[t].real) \in plans
  /\ mutex' = Nobody
  /\ Goto(t, "run")
  /\ UNCHANGED <<job, plans, poisoned, compiled, faults>>

\* Under the lock: it is not, and the graph is compiled.
MissPlan(t) ==
  /\ pc[t] = "plan"
  /\ Bucket(job[t].real) \notin plans
  /\ Goto(t, "build")
  /\ UNCHANGED <<job, cache, faults>>

BuildPlan(t) ==
  /\ pc[t] = "build"
  /\ LET b == Bucket(job[t].real) IN
       /\ plans' = plans \cup {b}
       /\ compiled' = [compiled EXCEPT ![b] = @ + 1]
  /\ mutex' = Nobody
  /\ Goto(t, "run")
  /\ UNCHANGED <<job, poisoned, faults>>

\* The graph cannot be compiled: nothing is cached, the lock is released.
BuildFails(t) ==
  /\ pc[t] = "build"
  /\ Fault(t, "inference")
  /\ mutex' = Nobody
  /\ UNCHANGED <<plans, poisoned, compiled>>

\* Mutant: a panic leaves the lock held.
BuildPanicsHolding(t) ==
  /\ pc[t] = "build"
  /\ Fault(t, "panicked")
  /\ poisoned' = TRUE
  /\ UNCHANGED <<plans, mutex, compiled>>

\* The compiler panics: unwinding releases the lock and poisons it.
BuildPanics(t) ==
  /\ pc[t] = "build"
  /\ Fault(t, "panicked")
  /\ mutex' = Nobody
  /\ poisoned' = TRUE
  /\ UNCHANGED <<plans, compiled>>

\* The tokens of the input that fit the bucket are run and pooled, the others
\* are lost.
Vector(j) ==
  LET bucket == Bucket(j.real)
      pooled == IF j.real < bucket THEN j.real ELSE bucket
  IN [chunk |-> j.chunks[j.next], bucket |-> bucket, real |-> j.real,
      pooled |-> pooled]

WithVector(j) == [j EXCEPT !.vectors = Append(@, Vector(j)), !.next = @ + 1]

Run(t) ==
  /\ pc[t] = "run"
  /\ Goto(t, "next")
  /\ job' = [job EXCEPT ![t] = WithVector(job[t])]
  /\ UNCHANGED <<cache, faults>>

\* The chunk cannot be tokenised with its prefix, or the graph not evaluated.
CallFails(t) ==
  /\ pc[t] \in {"next", "run"}
  /\ Fault(t, IF pc[t] = "next" THEN "tokenizer" ELSE "inference")
  /\ UNCHANGED cache

Step(t) == Walk(t) \/ NextChunk(t) \/ FindPlan(t) \/ MissPlan(t) \/ BuildPlan(t) \/ Run(t)

Next ==
  \E t \in Threads :
    \/ \E text \in Texts : EmbedPassage(t, text) \/ EmbedQuery(t, text)
    \/ Step(t) \/ LockPlans(t)
    \/ BuildFails(t) \/ BuildPanics(t) \/ ChunksFail(t) \/ CallFails(t)

\* A thread that has been called runs on, and a waiting one is given the lock
\* in the end, since every holder releases it.
Fairness == \A t \in Threads : WF_vars(Step(t)) /\ SF_vars(LockPlans(t))

Spec == Init /\ [][Next]_vars
FairSpec == Spec /\ Fairness

-----------------------------------------------------------------------------
(* Properties. *)

\* Every variable holds a value of its kind, and whoever looks up or compiles
\* a plan is the one thread that holds the lock.
TypeOK ==
  /\ pc \in [Threads -> {"idle", "walk", "next", "lock", "plan", "build", "run"}]
  /\ plans \subseteq BUCKETS
  /\ mutex \in Threads \cup {Nobody}
  /\ \A t \in Threads : pc[t] \in {"plan", "build"} <=> mutex = t
  /\ poisoned \in BOOLEAN
  /\ compiled \in [BUCKETS -> Nat]
  /\ faults \in 0..MaxFaults
  /\ job \in [Threads -> Jobs]
  /\ \A t \in Threads :
       /\ job[t].start <= job[t].index /\ job[t].index <= Len(job[t].text)
       /\ job[t].next \in 1..Len(job[t].chunks) + 1

InChunk(i, chunk) == chunk[1] < i /\ i <= chunk[2]

\* However long a passage is and wherever it is blank, a call that is about to
\* return has a vector for each of its pieces, in order and without overlap, and
\* every token that says something went into one of them, untruncated but for
\* what tokenising a piece on its own may add ("truncating loses the end of
\* every long document silently").
EmbeddedWhole ==
  \A t \in Threads :
    LET j == job[t]
        n == Len(j.chunks) IN
    j.kind = "passage" /\ pc[t] = "next" /\ j.next > n =>
      /\ Len(j.vectors) = n
      /\ \A i \in 1..n : j.vectors[i].chunk = j.chunks[i]
      /\ \A i \in 1..n-1 : j.chunks[i][2] <= j.chunks[i + 1][1]
      /\ \A k \in 1..Len(j.text) : j.text[k] =>
           \E i \in 1..n : /\ InChunk(k, j.chunks[i])
                           /\ j.vectors[i].real - j.vectors[i].pooled <= Drift

\* Threads that need the same plan at once compile it once: "building it on
\* first use" holds under contention, after failures and after a panic.
CompiledOnce == \A b \in BUCKETS : compiled[b] = (IF b \in plans THEN 1 ELSE 0)

\* Every call returns, also the ones that wait for a thread that is compiling,
\* fails to, or panics.
CallsReturn == \A t \in Threads : pc[t] # "idle" ~> pc[t] = "idle"
=============================================================================
