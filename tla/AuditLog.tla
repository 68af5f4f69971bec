------------------------------ MODULE AuditLog ------------------------------
(***************************************************************************)
(* The hash-chained audit log of one database (audit.rs): one text file,   *)
(* one line per operation, written by every handle of every process that   *)
(* has the database open, each append under a short exclusive lock on the  *)
(* file.  An append reads the whole file under the lock, refuses when the  *)
(* chain is broken, and writes one line that names its predecessor.  A     *)
(* re-anchor reads WITHOUT the lock and then writes under it.              *)
(*                                                                         *)
(* Text is abstracted to what the code tells apart: a record is the tuple  *)
(* of its fields, the query is an operation name or a re-anchor marker,    *)
(* plan and row count are one field `body', and SHA-256 is taken to be     *)
(* collision free (Digest).  A body is "sealed" when the line still holds  *)
(* what was hashed, "garbled" when it parses as something else, and        *)
(* "unreadable" when it does not parse.                                    *)
(***************************************************************************)
EXTENDS Integers, Sequences

CONSTANTS
  Procs,       \* threads or processes that hold a handle on the log
  Operators,   \* those among them that may call reanchor
  Ops,         \* the operations that get recorded
  Nobody,      \* the lock's owner when nobody holds it
  None,        \* a process that was asked for, or has sealed, nothing
  MaxLines,    \* no operation is begun once the file has this many lines
  MaxDamages,  \* how often the file is altered from outside
  MaxTears,    \* how often a write stops part-way (disk full, crash)
  MaxStops     \* how often a call fails or dies before it has written

ASSUME ProcsAssumption == Nobody \notin Procs /\ Operators \subseteq Procs
ASSUME BoundsAssumption ==
  MaxLines \in Nat /\ MaxDamages \in Nat /\ MaxTears \in Nat /\ MaxStops \in Nat

VARIABLES
  lines,    \* the file's lines in order; the last one may be incomplete
  tail,     \* how the last line ends: "whole", "open" (the newline is
            \* missing), "short" (it stops within its last field, the
            \* plan), "cut" (it stops before that)
  lock,     \* owner of the exclusive lock on the file
  pc,       \* where each process is in its call
  want,     \* the operation an append was called with
  sealed,   \* the record a process is about to write
  result,   \* what a process's last call returned
  acked,    \* history: the records whose append returned Ok
  damages,  \* outside alterations so far
  tears,    \* writes that stopped part-way so far
  stops,    \* calls that failed or died earlier than that so far
  clipped   \* history: a last line has been removed from outside

vars == <<lines, tail, lock, pc, want, sealed, result, acked,
          damages, tears, stops, clipped>>
file == <<lines, tail>>
faults == <<damages, tears, stops, clipped>>

-----------------------------------------------------------------------------
(* Records and the chain. *)

Op(op) == [kind |-> "op", of |-> op]
Reanchor(at) == [kind |-> "reanchor", of |-> at]
Query == [kind : {"op"}, of : Ops] \cup [kind : {"reanchor"}, of : Nat]

\* The predecessor of a record that starts a chain: all zeros, the hash of no
\* record.
ANCHOR == <<>>

\* SHA-256 over previous, sequence, query, plan and rows.
Digest(previous, sequence, query, body) == <<previous, sequence, query, body>>

Sealed(sequence, previous, query) ==
  [sequence |-> sequence, previous |-> previous, query |-> query,
   body |-> "sealed",
   hash |-> Digest(previous, sequence, query, "sealed")]

\* Mutant: only the links are checked, not each record's own content.
RecomputeTrusting(r) == r.hash

Recompute(r) == Digest(r.previous, r.sequence, r.query, r.body)

\* Mutant: a record's number is one less than the count of those before it.
NextSequenceOfLength(recs) == Len(recs) - 1

NextSequence(recs) ==
  IF recs = <<>> THEN 0 ELSE recs[Len(recs)].sequence + 1

\* Mutant: the predecessor's hash is not carried, every record anchors.
LastHashForgotten(recs) == ANCHOR

LastHash(recs) == IF recs = <<>> THEN ANCHOR ELSE recs[Len(recs)].hash

\* The positions of the chain being appended to: no re-anchor comes after them.
CurrentChain(recs) ==
  {i \in 1..Len(recs) :
     \A j \in i+1..Len(recs) : recs[j].query.kind # "reanchor"}

\* A chain starts at the top of the file or at a re-anchor.
StartsChain(recs, i) == i = 1 \/ recs[i].query.kind = "reanchor"

LinkBroken(recs, i) ==
  \/ recs[i].previous # IF StartsChain(recs, i) THEN ANCHOR ELSE recs[i-1].hash
  \/ recs[i].hash # Recompute(recs[i])

BrokenLinks(recs) == {i \in CurrentChain(recs) : LinkBroken(recs, i)}

\* The position first_break reports, by its record's own sequence number; the
\* set is empty when the chain verifies.
FirstBreak(recs) ==
  {i \in BrokenLinks(recs) : \A j \in BrokenLinks(recs) : i <= j}

\* parse fails as soon as one line is not a record.
Malformed ==
  tail = "cut" \/ \E i \in 1..Len(lines) : lines[i].body = "unreadable"

\* The records a reader is given: a line that stops within its plan parses, as
\* a record with another plan than was hashed.
Seen ==
  IF tail = "short" THEN [lines EXCEPT ![Len(lines)].body = "garbled"] ELSE lines

Sound == BrokenLinks(Seen) = {}

-----------------------------------------------------------------------------
(* Steps.  A call ends by dropping the file handle, which unlocks it. *)

Init ==
  /\ lines = <<>>
  /\ tail = "whole"
  /\ lock = Nobody
  /\ pc = [p \in Procs |-> "idle"]
  /\ want = [p \in Procs |-> None]
  /\ sealed = [p \in Procs |-> None]
  /\ result = [p \in Procs |-> "none"]
  /\ acked = {}
  /\ damages = 0
  /\ tears = 0
  /\ stops = 0
  /\ clipped = FALSE

\* Mutant: the handle outlives the call, and with it the lock.
UnlockForgotten(p) == UNCHANGED lock

Unlock(p) == lock' = IF lock = p THEN Nobody ELSE lock

Return(p, r) ==
  /\ pc' = [pc EXCEPT ![p] = "idle"]
  /\ want' = [want EXCEPT ![p] = None]
  /\ sealed' = [sealed EXCEPT ![p] = None]
  /\ result' = [result EXCEPT ![p] = r]
  /\ Unlock(p)

\* append is called and opens the file.
AppendCall(p, op) ==
  /\ pc[p] = "idle"
  /\ Len(lines) < MaxLines
  /\ pc' = [pc EXCEPT ![p] = "waiting"]
  /\ want' = [want EXCEPT ![p] = op]
  /\ result' = [result EXCEPT ![p] = "none"]
  /\ UNCHANGED <<file, lock, sealed, acked, faults>>

\* Mutant: the handle goes on without the lock when it is held elsewhere.
AppendLockIgnored(p) ==
  /\ pc[p] = "waiting"
  /\ lock' = p
  /\ pc' = [pc EXCEPT ![p] = "reading"]
  /\ UNCHANGED <<file, want, sealed, result, acked, faults>>

\* file.lock() blocks until the lock is free.
AppendLock(p) ==
  /\ pc[p] = "waiting"
  /\ lock = Nobody
  /\ lock' = p
  /\ pc' = [pc EXCEPT ![p] = "reading"]
  /\ UNCHANGED <<file, want, sealed, result, acked, faults>>

\* Mutant: a broken chain no longer refuses the append.
AppendReadTrusting(p) ==
  /\ pc[p] = "reading"
  /\ sealed' = [sealed EXCEPT ![p] =
                  Sealed(NextSequence(Seen), LastHash(Seen), Op(want[p]))]
  /\ pc' = [pc EXCEPT ![p] = "writing"]
  /\ UNCHANGED <<lock, result, file, want, acked, faults>>

\* Under the lock: read, parse, check the chain, seal the next record.
AppendRead(p) ==
  /\ pc[p] = "reading"
  /\ \/ Malformed /\ Return(p, "malformed")
     \/ ~Malformed /\ ~Sound /\ Return(p, "broken")
     \/ /\ ~Malformed /\ Sound
        /\ sealed' = [sealed EXCEPT ![p] =
                        Sealed(NextSequence(Seen), LastHash(Seen), Op(want[p]))]
        /\ pc' = [pc EXCEPT ![p] = "writing"]
        /\ UNCHANGED <<lock, want, result>>
  /\ UNCHANGED <<file, acked, faults>>

\* Mutant: a broken log is refused here as it is by an append.
ReanchorReadRefusing(p) ==
  /\ pc[p] = "idle" /\ p \in Operators
  /\ Return(p, CASE Malformed -> "unreadable" [] Sound -> "nothing" [] OTHER -> "broken")
  /\ UNCHANGED <<file, acked, faults>>

\* Mutant: a re-anchor names the record before it instead of the anchor.
ReanchorReadLinked(p) ==
  /\ pc[p] = "idle" /\ p \in Operators
  /\ ~Malformed
  /\ \E i \in FirstBreak(Seen) :
       sealed' = [sealed EXCEPT ![p] =
                    Sealed(NextSequence(Seen), LastHash(Seen), Reanchor(Seen[i].sequence))]
  /\ result' = [result EXCEPT ![p] = "none"]
  /\ pc' = [pc EXCEPT ![p] = "locking"]
  /\ UNCHANGED <<lock, file, want, acked, faults>>

\* reanchor reads and checks the file without taking the lock, whoever may be
\* writing to it meanwhile.
ReanchorRead(p) ==
  /\ pc[p] = "idle" /\ p \in Operators
  /\ \/ Malformed /\ Return(p, "unreadable")
     \/ ~Malformed /\ Sound /\ Return(p, "nothing")
     \/ /\ ~Malformed
        /\ \E i \in FirstBreak(Seen) :
             sealed' = [sealed EXCEPT ![p] =
                          Sealed(NextSequence(Seen), ANCHOR, Reanchor(Seen[i].sequence))]
        /\ result' = [result EXCEPT ![p] = "none"]
        /\ pc' = [pc EXCEPT ![p] = "locking"]
        /\ UNCHANGED <<lock, want>>
  /\ UNCHANGED <<file, acked, faults>>

ReanchorLock(p) ==
  /\ pc[p] = "locking"
  /\ lock = Nobody
  /\ lock' = p
  /\ pc' = [pc EXCEPT ![p] = "writing"]
  /\ UNCHANGED <<file, want, sealed, result, acked, faults>>

\* Bytes that follow an incomplete line become part of that line.
Glue(body) ==
  lines' = [lines EXCEPT ![Len(lines)].body =
              IF @ = "unreadable" THEN @ ELSE body]

\* How much of a line may be there while it is being written, or once its
\* writer has stopped.  A re-anchor has no plan to stop within.
Cuts(r) ==
  IF r.query.kind = "op" THEN {"cut", "short", "open"} ELSE {"cut", "open"}

\* Some bytes of the line reach the end of the file.
WriteBegin(p) ==
  /\ pc[p] = "writing"
  /\ \/ /\ tail = "whole"
        /\ lines' = Append(lines, sealed[p])
        /\ tail' \in Cuts(sealed[p])
     \/ /\ tail \in {"short", "open"}
        /\ Glue("garbled")
        /\ tail' = "open"
     \/ /\ tail = "cut"
        /\ \E body \in {"garbled", "unreadable"} : Glue(body)
        /\ tail' = "open"
  /\ pc' = [pc EXCEPT ![p] = "tearing"]
  /\ UNCHANGED <<lock, want, sealed, result, acked, faults>>

\* The rest of the line and its newline follow; the call returns Ok.
WriteEnd(p) ==
  /\ pc[p] = "tearing"
  /\ tail' = "whole"
  /\ acked' = acked \cup {sealed[p]}
  /\ Return(p, "ok")
  /\ UNCHANGED <<lines, faults>>

\* write_all fails, or the process dies, part-way through the line: no further
\* than it is there already, or further on.
WriteTorn(p) ==
  /\ pc[p] = "tearing"
  /\ tears < MaxTears
  /\ tears' = tears + 1
  /\ tail' \in IF tail = "cut" THEN Cuts(sealed[p]) ELSE {tail, "open"}
  /\ \E r \in {"unavailable", "crashed"} : Return(p, r)
  /\ UNCHANGED <<lines, acked, damages, stops, clipped>>

\* A call fails or its process dies before any byte is written; the
\* operating system releases the lock of a dead process.
Stop(p) ==
  /\ pc[p] \in {"waiting", "reading", "locking", "writing"}
  /\ stops < MaxStops
  /\ stops' = stops + 1
  /\ \E r \in {"unavailable", "crashed"} : Return(p, r)
  /\ UNCHANGED <<file, acked, damages, tears, clipped>>

-----------------------------------------------------------------------------
(* The outside world edits or removes a record of an idle log, the two     *)
(* kinds of damage the tests of the repository inflict; any line may be    *)
(* the one, the last too.                                                  *)

EditLine(i, op) ==
  lines' = [lines EXCEPT ![i].query = Op(op)]

RemoveLine(i) ==
  lines' = [j \in 1..Len(lines)-1 |-> lines[IF j < i THEN j ELSE j + 1]]

Damage ==
  /\ lock = Nobody /\ tail = "whole"
  /\ damages < MaxDamages
  /\ damages' = damages + 1
  /\ \E i \in 1..Len(lines) :
        \/ /\ \E op \in Ops : lines[i].query # Op(op) /\ EditLine(i, op)
           /\ UNCHANGED clipped
        \/ /\ RemoveLine(i)
           /\ clipped' = (clipped \/ i = Len(lines))
  /\ UNCHANGED <<tail, lock, pc, want, sealed, result, acked, tears, stops>>

Next ==
  \/ \E p \in Procs :
        \/ \E op \in Ops : AppendCall(p, op)
        \/ AppendLock(p) \/ AppendRead(p)
        \/ ReanchorRead(p) \/ ReanchorLock(p)
        \/ WriteBegin(p) \/ WriteEnd(p) \/ WriteTorn(p) \/ Stop(p)
  \/ Damage

Spec == Init /\ [][Next]_vars

\* A call that has been made runs on: its thread is scheduled, and the lock is
\* granted in the end to whoever keeps waiting for it.  Only finitely many
\* calls fail (MaxStops).  Appends need not be called at all; an operator
\* comes back to re-anchor between whatever else that process does.
Fairness ==
  /\ \A p \in Procs :
        /\ WF_vars(AppendRead(p) \/ WriteBegin(p) \/ WriteEnd(p))
        /\ SF_vars(AppendLock(p))
        /\ SF_vars(ReanchorLock(p))
  /\ \A p \in Operators : SF_vars(ReanchorRead(p))

FairSpec == Spec /\ Fairness

-----------------------------------------------------------------------------
(* Properties. *)

IsSeq(s) == s \in Seq({s[i] : i \in 1..Len(s)})

IsRecord(r) ==
  /\ r = [sequence |-> r.sequence, previous |-> r.previous,
          query |-> r.query, body |-> r.body, hash |-> r.hash]
  /\ r.sequence \in Nat
  /\ r.query \in Query
  /\ r.body \in {"sealed", "garbled", "unreadable"}

Results ==
  {"none", "ok", "malformed", "broken", "unreadable", "nothing",
   "unavailable", "crashed"}

\* Every variable holds a value of its kind: the file is a sequence of
\* records, a process waits, reads, locks or writes, and the faults stay
\* within their bounds.
TypeOK ==
  /\ IsSeq(lines)
  /\ \A i \in 1..Len(lines) : IsRecord(lines[i])
  /\ tail \in {"whole", "open", "short", "cut"}
  /\ lock \in Procs \cup {Nobody}
  /\ pc \in [Procs -> {"idle", "waiting", "reading", "locking", "writing", "tearing"}]
  /\ want \in [Procs -> Ops \cup {None}]
  /\ DOMAIN sealed = Procs
  /\ \A p \in Procs : sealed[p] = None \/ IsRecord(sealed[p])
  /\ result \in [Procs -> Results]
  /\ damages \in 0..MaxDamages
  /\ tears \in 0..MaxTears
  /\ stops \in 0..MaxStops
  /\ clipped \in BOOLEAN

\* Nothing but the log's own code has touched the file and no write stopped
\* part-way.
Unharmed == damages = 0 /\ tears = 0

Reanchored == \E i \in 1..Len(lines) : lines[i].query.kind = "reanchor"

\* However the appends of several processes interleave, an unharmed log starts
\* at 0 and numbers every operation one after the record before it, verifies
\* whenever nobody is writing to it, and skips no number: the only record that
\* may repeat one is a re-anchor, whose number was chosen before it had the
\* lock (audit.rs: "Gapless, so a removed entry is visible as a jump").
GaplessChain ==
  Unharmed =>
    /\ \A i \in 1..Len(lines) :
         IF lines[i].query.kind = "op"
         THEN lines[i].sequence = IF i = 1 THEN 0 ELSE lines[i-1].sequence + 1
         ELSE lines[i].sequence < i
    /\ tail = "whole" => Sound

\* A record whose append returned Ok is in the file of an unharmed log, as it
\* was sealed: appends of several processes never overwrite or run into one
\* another's records.
AckedKept ==
  Unharmed => \A r \in acked : \E i \in 1..Len(lines) : lines[i] = r

\* An acknowledged record goes missing silently in one way only.  When the file
\* no longer holds it as it was sealed, whether a line was edited, removed or
\* run together with the next one, the log does not verify, or has been
\* re-anchored, which is itself a record of the break; or else the end of the
\* file was taken away, and no record that names the missing one is left.
LossIsVisible ==
  \A r \in acked :
    (\A i \in 1..Len(lines) : lines[i] # r)
      => \/ ~Sound \/ Malformed \/ Reanchored
         \/ clipped /\ \A i \in 1..Len(lines) : lines[i].previous # r.hash

\* An append is never refused on account of another append in progress: in an
\* unharmed log no process is told the chain is broken or a line malformed.
NoFalseAlarm ==
  Unharmed => \A p \in Procs : result[p] \notin {"broken", "malformed"}

Grew(kind) ==
  /\ Len(lines') = Len(lines) + 1
  /\ lines'[Len(lines')].query.kind = kind

\* Fail closed (AC-30): an operation's record is only ever added to a log
\* whose lines all parse and whose current chain verifies.
BrokenRefusesAppends == [][Grew("op") => Sound /\ ~Malformed]_vars

\* The chain holds, taking a line that is being written as it will be.
Verifies == BrokenLinks(lines) = {}

\* A chain that verifies, from the start or since a re-anchor, goes on verifying
\* whatever the processes do, until the file is altered or a write torn: an
\* append links to the line it read under the lock, and a re-anchor that was
\* decided on before it had the lock starts a chain wherever it comes to stand.
RecoveryLasts ==
  [][tears = 0 /\ UNCHANGED <<damages, tears>> /\ Verifies => Verifies']_vars

\* What audit.rs says of reanchor: "NothingToReanchor when the chain verifies --
\* re-anchoring a sound log would obscure it for nothing".  It does happen:
\* reanchor reads without the lock, and takes a line that is there up to the
\* middle of its plan for a broken link.
SoundNotReanchored == Unharmed => ~Reanchored

\* A log that has stopped accepting records is sound again once an operator
\* has re-anchored it.
Recovers == (~Sound \/ Malformed) ~> (Sound /\ ~Malformed)

\* Every append that is called returns.
AppendReturns ==
  \A p \in Procs : pc[p] = "waiting" ~> pc[p] = "idle"

-----------------------------------------------------------------------------
(* The inductive invariant behind the safety properties. *)

\* Whoever reads for an append or writes holds the lock.
LockInv ==
  \A p \in Procs : pc[p] \in {"reading", "writing", "tearing"} <=> lock = p

\* A process that is going to write has sealed a record.
SealedInv ==
  \A p \in Procs :
    /\ pc[p] \in {"waiting", "reading"} => want[p] \in Ops
    /\ pc[p] \in {"locking", "writing", "tearing"} => IsRecord(sealed[p])
    /\ pc[p] = "locking" => sealed[p].query.kind = "reanchor"

\* What an append read under the lock still holds when it writes.
CheckedInv ==
  \A p \in Procs :
    pc[p] = "writing" /\ sealed[p].query.kind = "op" => Sound /\ ~Malformed

\* Record i of an unharmed log is sealed onto its predecessor, unless it is a
\* re-anchor, and its number is one that was due by then.
ChainedAt(i) ==
  /\ lines[i].sequence < i
  /\ \/ lines[i] = Sealed(IF i = 1 THEN 0 ELSE lines[i-1].sequence + 1,
                          IF i = 1 THEN ANCHOR ELSE lines[i-1].hash,
                          Op(lines[i].query.of))
     \/ lines[i] = Sealed(lines[i].sequence, ANCHOR, Reanchor(lines[i].query.of))

\* What a process seals that re-anchors an unharmed log, having seen a line that
\* was not complete.
Misled(p) ==
  /\ sealed[p] = Sealed(sealed[p].sequence, ANCHOR, Reanchor(sealed[p].query.of))
  /\ sealed[p].sequence <= Len(lines)

\* An unharmed log is a chain that may be re-anchored, and is numbered by place
\* until it is; its last line is incomplete only while its writer is still
\* writing it, and a writer's record is the one that comes next or such a
\* re-anchor.
ChainInv ==
  /\ \A i \in 1..Len(lines) : ChainedAt(i)
  /\ Reanchored \/ \A i \in 1..Len(lines) : lines[i].sequence = i - 1
  /\ tail # "whole" => \E p \in Procs : pc[p] = "tearing"
  /\ \A p \in Procs :
       /\ pc[p] = "locking" => Misled(p)
       /\ pc[p] = "writing" =>
            \/ /\ want[p] \in Ops
               /\ sealed[p] = Sealed(NextSequence(lines), LastHash(lines), Op(want[p]))
            \/ Misled(p)
       /\ pc[p] = "tearing" =>
            tail # "whole" /\ Len(lines) > 0 /\ sealed[p] = lines[Len(lines)]
       /\ result[p] \notin {"broken", "malformed"}
  /\ \A r \in acked : \E i \in 1..Len(lines) : lines[i] = r

IInv ==
  TypeOK /\ LockInv /\ SealedInv /\ CheckedInv /\ (Unharmed => ChainInv)

-----------------------------------------------------------------------------
(* The promise this log implements while nothing harms its file and nobody *)
(* re-anchors it: a line counts as recorded once it is complete.           *)

Committed == IF tail = "whole" THEN Len(lines) ELSE Len(lines) - 1

Entries ==
  [i \in 1..Committed |->
     [sequence |-> lines[i].sequence, of |-> lines[i].query.of]]

Promise ==
  INSTANCE OperationLog WITH entries <- Entries, harmed <- ~Unharmed \/ Reanchored

\* Each append takes effect in one step of the list of operations, at the
\* moment its line is complete, whatever the other processes are doing, until
\* the file is harmed or a re-anchor is written to it.
ImplementsOperationLog == Promise!Spec
=============================================================================
