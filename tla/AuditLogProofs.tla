--------------------------- MODULE AuditLogProofs ---------------------------
(***************************************************************************)
(* Proofs about the audit log, for any set of processes and operations and *)
(* any number of outside alterations, torn writes and failed calls.        *)
(***************************************************************************)
EXTENDS AuditLog, TLAPS

-----------------------------------------------------------------------------
(* The file as a sequence of lines. *)

\* A function over 1..n is a sequence of its own values, of length n.
LEMMA SeqOfFunction ==
  ASSUME NEW s, NEW n \in Nat, s = [i \in 1..n |-> s[i]]
  PROVE  IsSeq(s) /\ Len(s) = n
<1> DEFINE V == {s[i] : i \in 1..n}
<1>1. s \in [1..n -> V]
  OBVIOUS
<1>2. s \in Seq(V)
  BY <1>1
<1>3. Len(s) = n
  BY <1>1, <1>2
<1>4. QED BY <1>2, <1>3 DEF IsSeq

\* A sequence over any set is a sequence of its own values.
LEMMA SeqOfSeq ==
  ASSUME NEW S, NEW s \in Seq(S)
  PROVE  IsSeq(s)
<1>1. Len(s) \in Nat /\ s = [i \in 1..Len(s) |-> s[i]]
  OBVIOUS
<1>2. QED BY <1>1, SeqOfFunction

\* The length of the file is a number and its lines are the values it has.
LEMMA SeqFacts ==
  ASSUME NEW s, IsSeq(s)
  PROVE  Len(s) \in Nat /\ DOMAIN s = 1..Len(s) /\ s = [i \in 1..Len(s) |-> s[i]]
BY DEF IsSeq

\* A line written at the end comes after the others and changes none of them.
LEMMA AppendFacts ==
  ASSUME NEW s, IsSeq(s), NEW e
  PROVE  /\ IsSeq(Append(s, e))
         /\ Len(Append(s, e)) = Len(s) + 1
         /\ \A i \in 1..Len(s) : Append(s, e)[i] = s[i]
         /\ Append(s, e)[Len(s) + 1] = e
<1> DEFINE S == {s[i] : i \in 1..Len(s)} \cup {e}
<1> DEFINE t == Append(s, e)
<1>1. s \in Seq(S) /\ Len(s) \in Nat
  BY SeqFacts DEF IsSeq
<1>2. t \in Seq(S) /\ Len(t) = Len(s) + 1
  BY <1>1
<1>3. \A i \in 1..Len(s) : t[i] = s[i]
  BY <1>1
<1>4. t[Len(s) + 1] = e
  BY <1>1
<1>5. IsSeq(t)
  <2> HIDE DEF t, S
  <2>1. QED BY <1>2, SeqOfSeq
<1>6. QED BY <1>2, <1>3, <1>4, <1>5

-----------------------------------------------------------------------------
(* Records. *)

\* What sealed() fills in, for any fields.
LEMMA SealedFields ==
  ASSUME NEW n, NEW h, NEW q, NEW r, r = Sealed(n, h, q)
  PROVE  /\ r.sequence = n /\ r.previous = h /\ r.query = q /\ r.body = "sealed"
         /\ r.hash = Recompute(r)
BY DEF Sealed, Recompute

\* What sealed() builds is a record, and it is the record its fields say.
LEMMA SealedIsRecord ==
  ASSUME NEW n \in Nat, NEW h, NEW q \in Query
  PROVE  /\ IsRecord(Sealed(n, h, q))
         /\ Sealed(n, h, q).sequence = n
         /\ Sealed(n, h, q).previous = h
         /\ Sealed(n, h, q).query = q
         /\ Sealed(n, h, q).body = "sealed"
         /\ Sealed(n, h, q).hash = Recompute(Sealed(n, h, q))
BY DEF Sealed, IsRecord, Recompute

\* Operation names and re-anchor markers are queries, told apart by their kind.
LEMMA QueryFacts ==
  /\ \A op \in Ops : Op(op) \in Query /\ Op(op).kind = "op" /\ Op(op).of = op
  /\ \A n \in Nat : Reanchor(n) \in Query /\ Reanchor(n).kind = "reanchor"
BY DEF Op, Reanchor, Query

LinesOK == IsSeq(lines) /\ \A i \in 1..Len(lines) : IsRecord(lines[i])

\* What a reader is given differs from the lines in the plan of the last one, if
\* at all: its numbers and hashes are those in the file.
LEMMA SeenFacts ==
  ASSUME LinesOK
  PROVE  /\ IsSeq(Seen) /\ Len(Seen) = Len(lines)
         /\ \A i \in 1..Len(lines) :
              /\ IsRecord(Seen[i])
              /\ Seen[i].sequence = lines[i].sequence /\ Seen[i].hash = lines[i].hash
              /\ Seen[i].previous = lines[i].previous /\ Seen[i].query = lines[i].query
         /\ tail # "short" => Seen = lines
         /\ tail = "short" /\ Len(lines) > 0 => Seen[Len(lines)].body = "garbled"
         /\ NextSequence(Seen) = NextSequence(lines) /\ LastHash(Seen) = LastHash(lines)
<1>1. Len(lines) \in Nat /\ DOMAIN lines = 1..Len(lines)
      /\ lines = [i \in 1..Len(lines) |-> lines[i]]
  BY SeqFacts DEF LinesOK
<1>2. Seen = [i \in 1..Len(lines) |-> Seen[i]]
  BY <1>1 DEF Seen
<1>3. IsSeq(Seen) /\ Len(Seen) = Len(lines)
  BY <1>1, <1>2, SeqOfFunction
<1>4. ASSUME NEW i \in 1..Len(lines)
      PROVE  \/ Seen[i] = lines[i]
             \/ tail = "short" /\ i = Len(lines) /\ Seen[i] = [lines[i] EXCEPT !.body = "garbled"]
  BY <1>1 DEF Seen
<1>5. ASSUME NEW i \in 1..Len(lines)
      PROVE  /\ IsRecord(Seen[i])
             /\ Seen[i].sequence = lines[i].sequence /\ Seen[i].hash = lines[i].hash
             /\ Seen[i].previous = lines[i].previous /\ Seen[i].query = lines[i].query
  <2>1. IsRecord(lines[i])
    BY DEF LinesOK
  <2>2. QED BY <1>4, <2>1 DEF IsRecord
<1>6. tail = "short" /\ Len(lines) > 0 => Seen[Len(lines)].body = "garbled"
  <2> SUFFICES ASSUME tail = "short", Len(lines) > 0 PROVE Seen[Len(lines)].body = "garbled"
    OBVIOUS
  <2>1. Len(lines) \in 1..Len(lines)
    BY <1>1
  <2>2. IsRecord(lines[Len(lines)])
    BY <2>1 DEF LinesOK
  <2>3. Seen[Len(lines)] = [lines[Len(lines)] EXCEPT !.body = "garbled"]
    BY <1>1, <2>1 DEF Seen
  <2>4. QED BY <2>2, <2>3 DEF IsRecord
<1>7. NextSequence(Seen) = NextSequence(lines) /\ LastHash(Seen) = LastHash(lines)
  <2>1. CASE Len(lines) = 0
    <3>1. lines = <<>> /\ Seen = <<>>
      BY <1>1, <1>2, <2>1
    <3>2. QED BY <3>1
  <2>2. CASE Len(lines) # 0
    <3>1. Len(lines) \in 1..Len(lines)
      BY <1>1, <2>2
    <3>2. lines # <<>> /\ Seen # <<>>
      BY <1>3, <2>2
    <3>3. QED BY <1>3, <1>5, <3>1, <3>2 DEF NextSequence, LastHash
  <2>3. QED BY <2>1, <2>2
<1>8. QED BY <1>3, <1>5, <1>6, <1>7 DEF Seen

\* The next record's number is a number.
LEMMA NextSequenceType ==
  ASSUME TypeOK
  PROVE  NextSequence(lines) \in Nat /\ NextSequence(Seen) \in Nat
<1>1. Len(lines) \in Nat /\ DOMAIN lines = 1..Len(lines)
  BY SeqFacts DEF TypeOK
<1>2. lines # <<>> => Len(lines) \in 1..Len(lines)
  BY <1>1, SeqFacts DEF TypeOK
<1>3. lines # <<>> => lines[Len(lines)].sequence \in Nat
  BY <1>2 DEF TypeOK, IsRecord
<1>4. QED BY <1>3, SeenFacts DEF NextSequence, TypeOK, LinesOK

-----------------------------------------------------------------------------
(* Each way the file changes keeps it a sequence of records. *)

\* Writing a record at the end of the file.
LEMMA AppendKeepsLines ==
  ASSUME LinesOK, NEW r, IsRecord(r), lines' = Append(lines, r)
  PROVE  /\ LinesOK'
         /\ Len(lines') = Len(lines) + 1
         /\ \A i \in 1..Len(lines) : lines'[i] = lines[i]
         /\ lines'[Len(lines) + 1] = r
<1>1. /\ IsSeq(lines') /\ Len(lines) \in Nat
      /\ Len(lines') = Len(lines) + 1
      /\ \A i \in 1..Len(lines) : lines'[i] = lines[i]
      /\ lines'[Len(lines) + 1] = r
  BY AppendFacts, SeqFacts DEF LinesOK
<1>2. \A i \in 1..Len(lines') : IsRecord(lines'[i])
  <2> TAKE i \in 1..Len(lines')
  <2>1. i \in 1..Len(lines) \/ i = Len(lines) + 1
    BY <1>1
  <2>2. QED BY <2>1, <1>1 DEF LinesOK
<1>3. QED BY <1>1, <1>2 DEF LinesOK

\* Bytes that run into an incomplete line.
LEMMA GlueKeepsLines ==
  ASSUME LinesOK, NEW b \in {"garbled", "unreadable"}, Glue(b)
  PROVE  LinesOK' /\ Len(lines') = Len(lines)
<1>1. Len(lines) \in Nat /\ DOMAIN lines = 1..Len(lines)
      /\ lines = [i \in 1..Len(lines) |-> lines[i]]
  BY SeqFacts DEF LinesOK
<1>2. lines' = [i \in 1..Len(lines) |-> lines'[i]]
  BY <1>1 DEF Glue
<1>3. IsSeq(lines') /\ Len(lines') = Len(lines)
  BY <1>1, <1>2, SeqOfFunction
<1>4. \A i \in 1..Len(lines) : IsRecord(lines'[i])
  <2> SUFFICES ASSUME NEW i \in 1..Len(lines) PROVE IsRecord(lines'[i])
    OBVIOUS
  <2>1. IsRecord(lines[i])
    BY DEF LinesOK
  <2>2. \/ lines'[i] = lines[i]
        \/ \E c \in {"sealed", "garbled", "unreadable"} : lines'[i] = [lines[i] EXCEPT !.body = c]
    BY <1>1, <2>1 DEF Glue, IsRecord
  <2>3. QED BY <2>1, <2>2 DEF IsRecord
<1>5. QED BY <1>3, <1>4 DEF LinesOK

\* A line edited or removed from outside.
LEMMA DamageKeepsLines ==
  ASSUME LinesOK, Damage
  PROVE  LinesOK'
<1>1. Len(lines) \in Nat /\ DOMAIN lines = 1..Len(lines)
      /\ lines = [i \in 1..Len(lines) |-> lines[i]]
  BY SeqFacts DEF LinesOK
<1>2. ASSUME NEW k \in 1..Len(lines), NEW op \in Ops, EditLine(k, op)
      PROVE  LinesOK'
  <2>1. lines' = [i \in 1..Len(lines) |-> lines'[i]]
    BY <1>1, <1>2 DEF EditLine
  <2>2. IsSeq(lines') /\ Len(lines') = Len(lines)
    BY <1>1, <2>1, SeqOfFunction
  <2>3. ASSUME NEW i \in 1..Len(lines) PROVE IsRecord(lines'[i])
    <3>1. IsRecord(lines[i]) /\ Op(op) \in Query
      BY QueryFacts DEF LinesOK
    <3>2. lines'[i] = lines[i] \/ lines'[i] = [lines[i] EXCEPT !.query = Op(op)]
      BY <1>1, <1>2 DEF EditLine
    <3>3. QED BY <3>1, <3>2 DEF IsRecord
  <2>4. QED BY <2>2, <2>3 DEF LinesOK
<1>3. ASSUME NEW k \in 1..Len(lines), RemoveLine(k)
      PROVE  LinesOK'
  <2>1. Len(lines) - 1 \in Nat
    BY <1>1, <1>3
  <2>2. lines' = [i \in 1..Len(lines)-1 |-> lines'[i]]
    BY <1>3 DEF RemoveLine
  <2>3. IsSeq(lines') /\ Len(lines') = Len(lines) - 1
    BY <2>1, <2>2, SeqOfFunction
  <2>4. ASSUME NEW i \in 1..Len(lines)-1 PROVE IsRecord(lines'[i])
    <3>1. (IF i < k THEN i ELSE i + 1) \in 1..Len(lines)
      BY <1>1, <2>4
    <3>2. lines'[i] = lines[IF i < k THEN i ELSE i + 1]
      BY <1>3, <2>4 DEF RemoveLine
    <3>3. QED BY <3>1, <3>2 DEF LinesOK
  <2>5. QED BY <2>3, <2>4 DEF LinesOK
<1>4. QED BY <1>2, <1>3 DEF Damage

-----------------------------------------------------------------------------
(* Type correctness and the lock, action by action. *)

\* Every step keeps the types, the lock's discipline and the rule that a
\* process has sealed a record before it writes.
TypeLock == TypeOK /\ LockInv /\ SealedInv

\* The empty log of idle processes.
LEMMA TypeLockInit == Init => TypeLock
<1> SUFFICES ASSUME Init PROVE TypeLock
  OBVIOUS
<1>1. IsSeq(<<>>) /\ Len(<<>>) = 0
  BY DEF IsSeq
<1>c. clipped \in BOOLEAN
  BY Zenon DEF Init
<1>2. TypeOK
  BY <1>1, <1>c, BoundsAssumption DEF Init, TypeOK, Results
<1>3. LockInv /\ SealedInv
  BY ProcsAssumption DEF Init, LockInv, SealedInv
<1>4. QED BY <1>2, <1>3 DEF TypeLock

\* One case per action; whatever ends a call goes through Return.
LEMMA TypeLockStep == TypeLock /\ [Next]_vars => TypeLock'
<1> SUFFICES ASSUME TypeOK, LockInv, SealedInv, [Next]_vars
             PROVE  TypeOK' /\ LockInv' /\ SealedInv'
  BY DEF TypeLock
<1> USE ProcsAssumption, BoundsAssumption
<1>0. LinesOK
  BY DEF TypeOK, LinesOK
<1>1. ASSUME NEW p \in Procs, NEW op \in Ops, AppendCall(p, op)
      PROVE  TypeOK' /\ LockInv' /\ SealedInv'
  <2>1. TypeOK'
    BY <1>1 DEF AppendCall, TypeOK, Results, file, faults
  <2>2. LockInv' /\ SealedInv'
    BY <1>1 DEF AppendCall, TypeOK, LockInv, SealedInv, file, faults
  <2>3. QED BY <2>1, <2>2
<1>2. ASSUME NEW p \in Procs, AppendLock(p)
      PROVE  TypeOK' /\ LockInv' /\ SealedInv'
  <2>1. TypeOK'
    BY <1>2 DEF AppendLock, TypeOK, file, faults
  <2>2. LockInv' /\ SealedInv'
    BY <1>2 DEF AppendLock, TypeOK, LockInv, SealedInv, file, faults
  <2>3. QED BY <2>1, <2>2
<1>r. ASSUME NEW p \in Procs, NEW r \in Results, Return(p, r),
             LinesOK', tail' \in {"whole", "open", "short", "cut"}, clipped' \in BOOLEAN,
             damages' \in 0..MaxDamages, tears' \in 0..MaxTears, stops' \in 0..MaxStops
      PROVE  TypeOK' /\ LockInv' /\ SealedInv'
  <2>1. TypeOK'
    BY <1>r DEF Return, Unlock, TypeOK, LinesOK
  <2>2. LockInv'
    BY <1>r DEF Return, Unlock, TypeOK, LockInv
  <2>3. SealedInv'
    BY <1>r DEF Return, TypeOK, SealedInv
  <2>4. QED BY <2>1, <2>2, <2>3
<1>3. ASSUME NEW p \in Procs, AppendRead(p)
      PROVE  TypeOK' /\ LockInv' /\ SealedInv'
  <2>1. CASE \E r \in {"malformed", "broken"} : Return(p, r)
    BY <2>1, <1>r, <1>0, <1>3 DEF AppendRead, file, faults, LinesOK, TypeOK, Results
  <2>2. CASE UNCHANGED <<lock, want, result>>
    <3>1. want[p] \in Ops /\ NextSequence(Seen) \in Nat
      BY <1>3, NextSequenceType DEF AppendRead, SealedInv
    <3> DEFINE s == Sealed(NextSequence(Seen), LastHash(Seen), Op(want[p]))
    <3>2. IsRecord(s) /\ Op(want[p]) \in Query
      BY <3>1, QueryFacts, SealedIsRecord
    <3> HIDE DEF s
    <3>3. CASE sealed' = [sealed EXCEPT ![p] = s] /\ pc' = [pc EXCEPT ![p] = "writing"]
      <4>1. TypeOK'
        BY <1>3, <2>2, <3>2, <3>3 DEF AppendRead, TypeOK, file, faults
      <4>2. LockInv' /\ SealedInv'
        BY <1>3, <2>2, <3>2, <3>3 DEF AppendRead, TypeOK, LockInv, SealedInv, file, faults
      <4>3. QED BY <4>1, <4>2
    <3>4. QED BY <1>3, <3>3, <2>1 DEF AppendRead, s
  <2>3. QED BY <1>3, <2>1, <2>2 DEF AppendRead
<1>4. ASSUME NEW p \in Procs, ReanchorRead(p)
      PROVE  TypeOK' /\ LockInv' /\ SealedInv'
  <2>1. CASE \E r \in {"unreadable", "nothing"} : Return(p, r)
    BY <2>1, <1>r, <1>0, <1>4 DEF ReanchorRead, file, faults, LinesOK, TypeOK, Results
  <2>2. ASSUME NEW i \in FirstBreak(Seen), NEW s,
               s = Sealed(NextSequence(Seen), ANCHOR, Reanchor(Seen[i].sequence)),
               sealed' = [sealed EXCEPT ![p] = s],
               result' = [result EXCEPT ![p] = "none"],
               pc' = [pc EXCEPT ![p] = "locking"],
               UNCHANGED <<lock, want>>
        PROVE  TypeOK' /\ LockInv' /\ SealedInv'
    <3>1. Seen[i].sequence \in Nat
      BY <1>0, SeenFacts DEF FirstBreak, BrokenLinks, CurrentChain, IsRecord
    <3>2. IsRecord(s) /\ s.query.kind = "reanchor"
      BY <3>1, <2>2, NextSequenceType, QueryFacts, SealedIsRecord
    <3>3. TypeOK'
      BY <1>4, <2>2, <3>2 DEF ReanchorRead, TypeOK, file, faults, Results
    <3>4. LockInv' /\ SealedInv'
      BY <1>4, <2>2, <3>2 DEF ReanchorRead, TypeOK, LockInv, SealedInv, file, faults
    <3>5. QED BY <3>3, <3>4
  <2>3. QED BY <1>4, <2>1, <2>2 DEF ReanchorRead
<1>5. ASSUME NEW p \in Procs, ReanchorLock(p)
      PROVE  TypeOK' /\ LockInv' /\ SealedInv'
  <2>1. TypeOK'
    BY <1>5 DEF ReanchorLock, TypeOK, file, faults
  <2>2. LockInv' /\ SealedInv'
    BY <1>5 DEF ReanchorLock, TypeOK, LockInv, SealedInv, file, faults
  <2>3. QED BY <2>1, <2>2
<1>6. ASSUME NEW p \in Procs, WriteBegin(p)
      PROVE  TypeOK' /\ LockInv' /\ SealedInv'
  <2>1. LinesOK'
    <3>1. IsRecord(sealed[p])
      BY <1>6 DEF WriteBegin, SealedInv
    <3>2. QED BY <1>0, <1>6, <3>1, AppendKeepsLines, GlueKeepsLines DEF WriteBegin
  <2>2. TypeOK'
    BY <1>6, <2>1 DEF WriteBegin, Cuts, TypeOK, LinesOK, faults
  <2>3. LockInv' /\ SealedInv'
    BY <1>6 DEF WriteBegin, TypeOK, LockInv, SealedInv, faults
  <2>4. QED BY <2>2, <2>3
<1>7. ASSUME NEW p \in Procs, WriteEnd(p)
      PROVE  TypeOK' /\ LockInv' /\ SealedInv'
  BY <1>7, <1>r, <1>0 DEF WriteEnd, TypeOK, LinesOK, Results, faults
<1>8. ASSUME NEW p \in Procs, WriteTorn(p)
      PROVE  TypeOK' /\ LockInv' /\ SealedInv'
  <2>1. LinesOK'
    BY <1>0, <1>8 DEF WriteTorn, LinesOK
  <2>2. QED BY <1>8, <1>r, <2>1 DEF WriteTorn, Cuts, TypeOK, Results
<1>9. ASSUME NEW p \in Procs, Stop(p)
      PROVE  TypeOK' /\ LockInv' /\ SealedInv'
  BY <1>9, <1>r, <1>0 DEF Stop, TypeOK, LinesOK, Results, file
<1>10. CASE Damage
  <2>1. LinesOK'
    BY <1>0, <1>10, DamageKeepsLines
  <2>2. clipped' \in BOOLEAN
    BY <1>10, Zenon DEF Damage, TypeOK
  <2>3. /\ damages < MaxDamages /\ damages' = damages + 1
        /\ UNCHANGED <<tail, lock, pc, want, sealed, result, tears, stops>>
    BY <1>10 DEF Damage
  <2>4. QED BY <2>1, <2>2, <2>3 DEF TypeOK, LockInv, SealedInv, LinesOK
<1>11. CASE UNCHANGED vars
  BY <1>11 DEF vars, TypeOK, LockInv, SealedInv
<1>12. QED
  BY <1>1, <1>2, <1>3, <1>4, <1>5, <1>6, <1>7, <1>8, <1>9, <1>10, <1>11 DEF Next

\* Every reachable state is well typed, however many processes, lines and
\* faults there are.
THEOREM TypeCorrect == Spec => []TypeOK
<1>1. Spec => []TypeLock
  BY TypeLockInit, TypeLockStep, PTL DEF Spec
<1>2. TypeLock => TypeOK
  BY DEF TypeLock
<1>3. QED BY <1>1, <1>2, PTL

-----------------------------------------------------------------------------
(* What an append checked under the lock still holds when it writes. *)

\* Whether the chain verifies depends on the file alone.
LEMMA SameFile ==
  ASSUME UNCHANGED file
  PROVE  Sound' = Sound /\ Malformed' = Malformed
BY DEF file, Sound, Seen, Malformed, BrokenLinks, CurrentChain, LinkBroken, StartsChain, Recompute

\* Nobody but the writer changes a file that somebody is about to write to, so
\* what AppendRead found of it stays so.
LEMMA CheckedStep == TypeLock /\ CheckedInv /\ [Next]_vars => CheckedInv'
<1> SUFFICES ASSUME TypeOK, LockInv, SealedInv, CheckedInv, [Next]_vars,
                    NEW q \in Procs, pc'[q] = "writing", sealed'[q].query.kind = "op"
             PROVE  (Sound /\ ~Malformed)'
  BY DEF TypeLock, CheckedInv
<1> USE ProcsAssumption
<1>s. ASSUME UNCHANGED file, pc[q] = "writing", sealed'[q] = sealed[q]
      PROVE  (Sound /\ ~Malformed)'
  BY <1>s, SameFile DEF CheckedInv
<1>r. ASSUME NEW p \in Procs, NEW r, Return(p, r)
      PROVE  pc[q] = "writing" /\ sealed'[q] = sealed[q] /\ p # q
  BY <1>r DEF Return, TypeOK
<1>l. ASSUME NEW p \in Procs, p # q, pc[p] \in {"writing", "tearing"}, pc[q] = "writing"
      PROVE  FALSE
  BY <1>l DEF LockInv
<1>1. ASSUME NEW p \in Procs, NEW op \in Ops, AppendCall(p, op)
      PROVE  (Sound /\ ~Malformed)'
  BY <1>1, <1>s DEF AppendCall, TypeOK
<1>2. ASSUME NEW p \in Procs, AppendLock(p)
      PROVE  (Sound /\ ~Malformed)'
  BY <1>2, <1>s DEF AppendLock, TypeOK
<1>3. ASSUME NEW p \in Procs, AppendRead(p)
      PROVE  (Sound /\ ~Malformed)'
  <2>1. CASE \E r \in {"malformed", "broken"} : Return(p, r)
    BY <1>3, <2>1, <1>r, <1>s DEF AppendRead
  <2>2. CASE ~Malformed /\ Sound
    BY <1>3, <2>2, SameFile DEF AppendRead
  <2>3. QED BY <1>3, <2>1, <2>2 DEF AppendRead
<1>4. ASSUME NEW p \in Procs, ReanchorRead(p)
      PROVE  (Sound /\ ~Malformed)'
  <2>1. CASE \E r \in {"unreadable", "nothing"} : Return(p, r)
    BY <1>4, <2>1, <1>r, <1>s DEF ReanchorRead
  <2>2. CASE pc' = [pc EXCEPT ![p] = "locking"]
             /\ \E s : sealed' = [sealed EXCEPT ![p] = s]
    BY <1>4, <2>2, <1>s DEF ReanchorRead, TypeOK
  <2>3. QED BY <1>4, <2>1, <2>2 DEF ReanchorRead
<1>5. ASSUME NEW p \in Procs, ReanchorLock(p)
      PROVE  (Sound /\ ~Malformed)'
  <2>1. p # q
    BY <1>5 DEF ReanchorLock, SealedInv
  <2>2. QED BY <1>5, <2>1, <1>s DEF ReanchorLock, TypeOK
<1>6. ASSUME NEW p \in Procs, WriteBegin(p)
      PROVE  (Sound /\ ~Malformed)'
  BY <1>6, <1>l DEF WriteBegin, TypeOK
<1>7. ASSUME NEW p \in Procs, WriteEnd(p)
      PROVE  (Sound /\ ~Malformed)'
  BY <1>7, <1>l, <1>r DEF WriteEnd
<1>8. ASSUME NEW p \in Procs, WriteTorn(p)
      PROVE  (Sound /\ ~Malformed)'
  BY <1>8, <1>l, <1>r DEF WriteTorn
<1>9. ASSUME NEW p \in Procs, Stop(p)
      PROVE  (Sound /\ ~Malformed)'
  BY <1>9, <1>s, <1>r DEF Stop
<1>10. CASE Damage
  BY <1>10 DEF Damage, LockInv
<1>11. CASE UNCHANGED vars
  BY <1>11, <1>s DEF vars, file
<1>12. QED
  BY <1>1, <1>2, <1>3, <1>4, <1>5, <1>6, <1>7, <1>8, <1>9, <1>10, <1>11 DEF Next

\* The types, the lock and what the lock protects hold in every state.
LEMMA CheckedAlways == Spec => [](TypeLock /\ CheckedInv)
<1>1. Init => TypeLock /\ CheckedInv
  BY TypeLockInit DEF Init, CheckedInv
<1>2. QED BY <1>1, TypeLockStep, CheckedStep, PTL DEF Spec

-----------------------------------------------------------------------------
(* Fail closed. *)

\* The file only grows by the record of a process that writes.
LEMMA GrowsByWriter ==
  ASSUME TypeOK, LockInv, SealedInv, NEW kind, Next, Grew(kind)
  PROVE  \E p \in Procs :
           /\ pc[p] = "writing" /\ IsRecord(sealed[p]) /\ sealed[p].query.kind = kind
           /\ lines'[Len(lines')] = sealed[p]
<1> DEFINE Goal == \E p \in Procs :
                     /\ pc[p] = "writing" /\ IsRecord(sealed[p]) /\ sealed[p].query.kind = kind
                     /\ lines'[Len(lines')] = sealed[p]
<1>0. LinesOK /\ Len(lines) \in Nat
  BY SeqFacts DEF TypeOK, LinesOK
<1>1. lines' # lines
  BY <1>0 DEF Grew
<1>2. CASE Damage
  <2>1. ASSUME NEW k \in 1..Len(lines), NEW op \in Ops, EditLine(k, op)
        PROVE  Len(lines') = Len(lines)
    <3>1. lines' = [i \in 1..Len(lines) |-> lines'[i]]
      BY <2>1, <1>0, SeqFacts DEF EditLine, LinesOK
    <3>2. QED BY <3>1, <1>0, SeqOfFunction
  <2>2. ASSUME NEW k \in 1..Len(lines), RemoveLine(k)
        PROVE  Len(lines') = Len(lines) - 1
    <3>1. Len(lines) - 1 \in Nat /\ lines' = [i \in 1..Len(lines)-1 |-> lines'[i]]
      BY <2>2, <1>0 DEF RemoveLine
    <3>2. QED BY <3>1, SeqOfFunction
  <2>3. QED BY <1>2, <2>1, <2>2, <1>0 DEF Damage, Grew
<1>3. ASSUME NEW p \in Procs, WriteBegin(p)
      PROVE  Goal
  <2>1. IsRecord(sealed[p]) /\ pc[p] = "writing"
    BY <1>3 DEF WriteBegin, SealedInv
  <2>2. CASE \E b \in {"garbled", "unreadable"} : Glue(b)
    BY <2>2, <1>0, GlueKeepsLines DEF Grew
  <2>3. CASE lines' = Append(lines, sealed[p])
    <3>1. lines'[Len(lines')] = sealed[p]
      BY <2>1, <2>3, <1>0, AppendKeepsLines
    <3>2. QED BY <2>1, <3>1 DEF Grew
  <2>4. QED BY <1>3, <2>2, <2>3 DEF WriteBegin
<1>4. QED
  BY <1>1, <1>2, <1>3 DEF Next, AppendCall, AppendLock, AppendRead, ReanchorRead,
     ReanchorLock, WriteEnd, WriteTorn, Stop, file

\* The one who writes an operation's record has checked the file under the lock.
LEMMA FailClosedStep ==
  TypeLock /\ CheckedInv /\ [Next]_vars => [Grew("op") => Sound /\ ~Malformed]_vars
<1> SUFFICES ASSUME TypeOK, LockInv, SealedInv, CheckedInv, Next, Grew("op")
             PROVE  Sound /\ ~Malformed
  BY DEF TypeLock
<1>1. QED BY GrowsByWriter DEF CheckedInv

\* Fail closed: whatever the interleaving, the faults and the damage, an
\* operation's record is only ever added to a file whose lines all parse and
\* whose current chain verifies.
THEOREM FailClosed == Spec => BrokenRefusesAppends
<1>1. Spec => [][Next]_vars
  BY DEF Spec
<1>2. QED BY <1>1, CheckedAlways, FailClosedStep, PTL DEF BrokenRefusesAppends

-----------------------------------------------------------------------------
(* Loss is visible.  A record's hash covers its predecessor's, so the last *)
(* line vouches for every record before it: whatever was done to the lines *)
(* above, only one way of filling them in verifies.  The argument needs no *)
(* account of the damage, only what the last line's hash commits to; a     *)
(* last line that is taken away vouches for nothing any more.              *)

\* A log that verifies and was never re-anchored.
CleanChain(c) ==
  /\ IsSeq(c) /\ Len(c) > 0
  /\ \A i \in 1..Len(c) :
       IsRecord(c[i]) /\ c[i].query.kind = "op" /\ ~LinkBroken(c, i)

\* Every such log that ends in hash h holds all records of K.
Vouches(h, K) ==
  \A c : CleanChain(c) /\ c[Len(c)].hash = h
           => \A r \in K : \E i \in 1..Len(c) : c[i] = r

\* h is the hash of some sealed record.
IsHash(h) == \E previous, sequence, query : h = Digest(previous, sequence, query, "sealed")

Last == lines[Len(lines)]

\* Unless a last line was taken away, the last line vouches for all
\* acknowledged records, or has run together with another and can never verify.
\* A writer's record is sealed, onto the last line if it is an operation's and
\* onto the anchor if it is not; once it is being written it is the last line.
HistoryInv ==
  /\ \A i \in 1..Len(lines) : IsHash(lines[i].hash)
  /\ \A r \in acked : IsRecord(r) /\ r.hash = Recompute(r) /\ IsHash(r.hash)
  /\ Len(lines) = 0 => tail = "whole"
  /\ ~clipped =>
       /\ Len(lines) = 0 => acked = {}
       /\ Len(lines) > 0 => Last.body # "sealed" \/ Vouches(Last.hash, acked)
  /\ \A p \in Procs :
       /\ pc[p] \in {"locking", "writing", "tearing"} =>
            sealed[p].body = "sealed" /\ sealed[p].hash = Recompute(sealed[p])
       /\ pc[p] = "writing" /\ sealed[p].query.kind = "op" =>
            sealed[p].previous = LastHash(lines)
       /\ pc[p] \in {"locking", "writing"} /\ sealed[p].query.kind = "reanchor" =>
            sealed[p].previous = ANCHOR
       /\ pc[p] = "tearing" =>
            Len(lines) > 0 /\ (Last.body # "sealed" \/ Last = sealed[p])

\* The hash of a record says all of its fields: a record that verifies under
\* the hash of a sealed one is that record.
LEMMA HashCommits ==
  ASSUME NEW r, IsRecord(r), r.hash = Recompute(r),
         NEW s, IsRecord(s), s.hash = Recompute(s), r.hash = s.hash
  PROVE  r = s
<1>1. r.previous = s.previous /\ r.sequence = s.sequence /\ r.query = s.query /\ r.body = s.body
  BY DEF Recompute, Digest
<1>2. QED BY <1>1 DEF IsRecord

\* A hash is never the anchor.
LEMMA HashIsNoAnchor ==
  ASSUME NEW h, IsHash(h)
  PROVE  h # ANCHOR
BY DEF IsHash, Digest, ANCHOR

\* A line that has run together with another does not verify.
LEMMA OnlySealedVerifies ==
  ASSUME NEW r, IsHash(r.hash), r.hash = Recompute(r)
  PROVE  r.body = "sealed"
BY DEF IsHash, Digest, Recompute

\* Without its last record a clean chain is one still, and ends in the hash
\* that record names.
LEMMA CleanFront ==
  ASSUME NEW c, CleanChain(c), Len(c) > 1
  PROVE  \E d : /\ CleanChain(d)
                /\ d[Len(d)].hash = c[Len(c)].previous
                /\ \A i \in 1..Len(d) : i \in 1..Len(c) /\ d[i] = c[i]
<1> DEFINE n == Len(c)
<1> DEFINE d == [i \in 1..n-1 |-> c[i]]
<1>1. n \in Nat /\ n - 1 \in Nat /\ n - 1 > 0
  BY SeqFacts DEF CleanChain
<1>2. d = [i \in 1..n-1 |-> d[i]] /\ \A i \in 1..n-1 : d[i] = c[i] /\ i \in 1..n
  BY <1>1
<1>3. IsSeq(d) /\ Len(d) = n - 1
  <2> HIDE DEF d
  <2> QED BY <1>1, <1>2, SeqOfFunction
<1> HIDE DEF d
<1>4. ASSUME NEW i \in 1..n-1
      PROVE  IsRecord(d[i]) /\ d[i].query.kind = "op" /\ ~LinkBroken(d, i)
  <2>1. d[i] = c[i] /\ i \in 1..n /\ (i # 1 => d[i-1] = c[i-1])
    BY <1>1, <1>2
  <2>2. IsRecord(c[i]) /\ c[i].query.kind = "op" /\ ~LinkBroken(c, i)
    BY <2>1 DEF CleanChain
  <2>3. QED BY <2>1, <2>2 DEF LinkBroken, StartsChain
<1>5. CleanChain(d)
  BY <1>1, <1>3, <1>4 DEF CleanChain
<1>6. d[n-1].hash = c[n].previous
  <2>1. n \in 1..n /\ n # 1 /\ n - 1 \in 1..n-1
    <3> HIDE DEF n
    <3> QED BY <1>1
  <2>2. c[n].query.kind = "op" /\ ~LinkBroken(c, n)
    BY <2>1 DEF CleanChain
  <2>3. QED BY <2>1, <2>2, <1>2 DEF LinkBroken, StartsChain
<1>7. QED BY <1>2, <1>3, <1>5, <1>6

\* A record of an operation sealed onto a line that vouches for the past
\* vouches for it too.
LEMMA VouchesOn ==
  ASSUME NEW K, NEW r, IsRecord(r), r.hash = Recompute(r), IsHash(r.previous), Vouches(r.previous, K)
  PROVE  Vouches(r.hash, K)
<1> SUFFICES ASSUME NEW c, CleanChain(c), c[Len(c)].hash = r.hash, NEW a \in K
             PROVE  \E i \in 1..Len(c) : c[i] = a
  BY DEF Vouches
<1> DEFINE n == Len(c)
<1>1. n \in Nat /\ n > 0 /\ n \in 1..n
  BY SeqFacts DEF CleanChain
<1>2. IsRecord(c[n]) /\ c[n].query.kind = "op" /\ ~LinkBroken(c, n)
  BY <1>1 DEF CleanChain
<1>3. c[n].hash = Recompute(c[n])
  BY <1>2 DEF LinkBroken
<1>4. c[n] = r
  BY <1>2, <1>3, HashCommits
<1>5. n > 1
  <2> SUFFICES ASSUME n = 1 PROVE FALSE
    <3> HIDE DEF n
    <3> QED BY <1>1
  <2>1. c[n].previous = ANCHOR
    BY <1>2 DEF LinkBroken, StartsChain
  <2>2. QED BY <2>1, <1>4, HashIsNoAnchor
<1>6. PICK d : /\ CleanChain(d)
               /\ d[Len(d)].hash = c[Len(c)].previous
               /\ \A i \in 1..Len(d) : i \in 1..Len(c) /\ d[i] = c[i]
  BY <1>5, CleanFront
<1>7. PICK i \in 1..Len(d) : d[i] = a
  BY <1>4, <1>6 DEF Vouches
<1>8. QED BY <1>6, <1>7

\* No clean chain ends in a re-anchor.
LEMMA ReanchorVouches ==
  ASSUME NEW K, NEW r, IsRecord(r), r.hash = Recompute(r), r.query.kind # "op"
  PROVE  Vouches(r.hash, K)
<1> SUFFICES ASSUME NEW c, CleanChain(c), c[Len(c)].hash = r.hash
             PROVE  FALSE
  BY DEF Vouches
<1>1. Len(c) \in 1..Len(c)
  BY SeqFacts DEF CleanChain
<1>2. IsRecord(c[Len(c)]) /\ c[Len(c)].query.kind = "op" /\ c[Len(c)].hash = Recompute(c[Len(c)])
  BY <1>1 DEF CleanChain, LinkBroken
<1>3. QED BY <1>2, HashCommits

\* A record that is the last line when it is acknowledged is in every clean
\* chain that ends there.
LEMMA VouchesForItself ==
  ASSUME NEW K, NEW r, IsRecord(r), r.hash = Recompute(r), Vouches(r.hash, K)
  PROVE  Vouches(r.hash, K \cup {r})
<1> SUFFICES ASSUME NEW c, CleanChain(c), c[Len(c)].hash = r.hash, NEW a \in K \cup {r}
             PROVE  \E i \in 1..Len(c) : c[i] = a
  BY DEF Vouches
<1>1. Len(c) \in 1..Len(c)
  BY SeqFacts DEF CleanChain
<1>2. IsRecord(c[Len(c)]) /\ c[Len(c)].hash = Recompute(c[Len(c)])
  BY <1>1 DEF CleanChain, LinkBroken
<1>3. c[Len(c)] = r
  BY <1>2, HashCommits
<1>4. CASE a = r
  BY <1>1, <1>3, <1>4
<1>5. CASE a \in K
  BY <1>5 DEF Vouches
<1>6. QED BY <1>4, <1>5

\* The last line of a sound file is a sealed record, re-anchored or not, and
\* complete but for its newline.
LEMMA SoundEndsSealed ==
  ASSUME LinesOK, HistoryInv, Sound, Len(lines) > 0
  PROVE  Last.body = "sealed" /\ Seen = lines
<1>1. Len(lines) \in Nat /\ Len(lines) \in 1..Len(lines) /\ Len(Seen) = Len(lines)
  BY SeqFacts, SeenFacts DEF LinesOK
<1>2. Len(lines) \in CurrentChain(Seen)
  BY <1>1 DEF CurrentChain
<1>3. ~LinkBroken(Seen, Len(lines))
  BY <1>2 DEF Sound, BrokenLinks
<1> DEFINE r == Seen[Len(lines)]
<1>4. IsHash(r.hash) /\ r.hash = Recompute(r)
  <2>1. r.hash = lines[Len(lines)].hash
    BY <1>1, SeenFacts
  <2>2. QED BY <1>1, <1>3, <2>1 DEF HistoryInv, LinkBroken
<1>5. r.body = "sealed"
  <2> HIDE DEF r
  <2> QED BY <1>4, OnlySealedVerifies
<1>6. tail # "short"
  BY <1>5, SeenFacts
<1>7. QED BY <1>5, <1>6, SeenFacts DEF Last

\* A log that verifies and holds no re-anchor is a clean chain.
LEMMA SoundIsClean ==
  ASSUME LinesOK, HistoryInv, Sound, Len(lines) > 0, ~Reanchored
  PROVE  CleanChain(lines) /\ Last.body = "sealed"
<1>1. Len(lines) \in Nat /\ Len(lines) \in 1..Len(lines)
  BY SeqFacts DEF LinesOK
<1>2. Last.body = "sealed" /\ BrokenLinks(lines) = {}
  BY SoundEndsSealed DEF Sound
<1>3. ASSUME NEW i \in 1..Len(lines)
      PROVE  IsRecord(lines[i]) /\ lines[i].query.kind = "op" /\ ~LinkBroken(lines, i)
  <2>1. i \in CurrentChain(lines)
    BY <1>1 DEF CurrentChain, Reanchored
  <2>2. ~LinkBroken(lines, i)
    BY <1>2, <2>1 DEF BrokenLinks
  <2>3. QED BY <2>2 DEF LinesOK, IsRecord, Query, Reanchored
<1>4. QED BY <1>2, <1>3 DEF CleanChain, LinesOK

\* In a clean chain the record that another one names is there.
LEMMA NamedIsThere ==
  ASSUME NEW c, CleanChain(c), NEW i \in 1..Len(c),
         NEW r, IsRecord(r), r.hash = Recompute(r), IsHash(r.hash), c[i].previous = r.hash
  PROVE  \E j \in 1..Len(c) : c[j] = r
<1>1. Len(c) \in Nat
  BY SeqFacts DEF CleanChain
<1>2. c[i].query.kind = "op" /\ ~LinkBroken(c, i)
  BY DEF CleanChain
<1>3. i # 1
  BY <1>2, HashIsNoAnchor DEF LinkBroken, StartsChain
<1>4. i - 1 \in 1..Len(c)
  BY <1>1, <1>3
<1>5. c[i-1].hash = r.hash
  BY <1>2, <1>3 DEF LinkBroken, StartsChain
<1>6. IsRecord(c[i-1]) /\ c[i-1].hash = Recompute(c[i-1])
  BY <1>4 DEF CleanChain, LinkBroken
<1>7. QED BY <1>4, <1>5, <1>6, HashCommits

\* Bytes that run into the last line leave the others, and the hashes, alone.
LEMMA GlueSpoils ==
  ASSUME LinesOK, Len(lines) > 0, NEW b \in {"garbled", "unreadable"}, Glue(b)
  PROVE  /\ Len(lines') = Len(lines)
         /\ Last'.body # "sealed"
         /\ \A i \in 1..Len(lines) : lines'[i].hash = lines[i].hash
<1>1. Len(lines) \in Nat /\ DOMAIN lines = 1..Len(lines) /\ Len(lines) \in 1..Len(lines)
      /\ lines = [i \in 1..Len(lines) |-> lines[i]]
  BY SeqFacts DEF LinesOK
<1>2. Len(lines') = Len(lines)
  BY GlueKeepsLines
<1>3. IsRecord(Last)
  BY <1>1 DEF LinesOK, Last
<1>4. PICK x \in {"garbled", "unreadable"} :
        lines' = [lines EXCEPT ![Len(lines)] = [Last EXCEPT !.body = x]]
  BY <1>1 DEF Glue, Last
<1>5. lines'[Len(lines)] = [Last EXCEPT !.body = x]
      /\ \A i \in 1..Len(lines) : i # Len(lines) => lines'[i] = lines[i]
  BY <1>1, <1>4
<1>6. [Last EXCEPT !.body = x].body = x /\ [Last EXCEPT !.body = x].hash = Last.hash
  BY <1>3 DEF IsRecord
<1>7. Last' = lines'[Len(lines)]
  BY <1>2 DEF Last
<1>8. QED BY <1>2, <1>5, <1>6, <1>7 DEF Last

\* Editing or removing lines leaves the hashes alone, and those of the last line
\* as long as it is not the one removed: its body and what it vouches for stay.
LEMMA DamageKeepsLast ==
  ASSUME LinesOK, \A i \in 1..Len(lines) : IsHash(lines[i].hash), Damage
  PROVE  /\ \A i \in 1..Len(lines') : IsHash(lines'[i].hash)
         /\ ~clipped' => /\ ~clipped /\ Len(lines) > 0 /\ Len(lines') > 0
                         /\ Last'.body = Last.body /\ Last'.hash = Last.hash
<1> DEFINE n == Len(lines)
<1>1. n \in Nat /\ DOMAIN lines = 1..n /\ lines = [i \in 1..n |-> lines[i]]
  BY SeqFacts DEF LinesOK
<1>2. ASSUME NEW k \in 1..n, NEW op \in Ops, EditLine(k, op)
      PROVE  /\ Len(lines') = n
             /\ \A i \in 1..n : lines'[i].hash = lines[i].hash /\ lines'[i].body = lines[i].body
  <2>1. lines' = [i \in 1..n |-> lines'[i]]
    BY <1>1, <1>2 DEF EditLine
  <2>2. Len(lines') = n
    BY <1>1, <2>1, SeqOfFunction
  <2>3. ASSUME NEW i \in 1..n
        PROVE  lines'[i].hash = lines[i].hash /\ lines'[i].body = lines[i].body
    <3>1. lines'[i] = lines[i] \/ lines'[i] = [lines[i] EXCEPT !.query = Op(op)]
      BY <1>1, <1>2 DEF EditLine
    <3>2. IsRecord(lines[i])
      BY DEF LinesOK
    <3>3. QED BY <3>1, <3>2 DEF IsRecord
  <2>4. QED BY <2>2, <2>3
<1>3. ASSUME NEW k \in 1..n, RemoveLine(k)
      PROVE  /\ Len(lines') = n - 1
             /\ k # n => n - 1 \in 1..n-1 /\ lines'[n - 1] = lines[n]
             /\ \A i \in 1..n-1 : \E j \in 1..n : lines'[i] = lines[j]
  <2>1. n - 1 \in Nat /\ (k # n => n - 1 \in 1..n-1 /\ ~(n - 1 < k))
    BY <1>1, <1>3
  <2>2. lines' = [i \in 1..n-1 |-> lines'[i]]
    BY <1>3 DEF RemoveLine
  <2>3. Len(lines') = n - 1
    BY <2>1, <2>2, SeqOfFunction
  <2>4. \A i \in 1..n-1 : lines'[i] = lines[IF i < k THEN i ELSE i + 1]
    BY <1>3 DEF RemoveLine
  <2>5. k # n => lines'[n - 1] = lines[n]
    BY <2>1, <2>4, <1>1
  <2>6. ASSUME NEW i \in 1..n-1 PROVE \E j \in 1..n : lines'[i] = lines[j]
    BY <2>4, <1>1
  <2>7. QED BY <2>1, <2>3, <2>5, <2>6
<1>4. CASE (\E k \in 1..n, op \in Ops : EditLine(k, op)) /\ UNCHANGED clipped
  <2>1. /\ Len(lines') = n /\ n > 0 /\ n \in 1..n
        /\ \A i \in 1..n : lines'[i].hash = lines[i].hash /\ lines'[i].body = lines[i].body
    BY <1>1, <1>2, <1>4
  <2>2. QED BY <1>4, <2>1 DEF Last
<1>5. ASSUME NEW k \in 1..n, RemoveLine(k), clipped' = (clipped \/ k = n)
      PROVE  /\ \A i \in 1..Len(lines') : IsHash(lines'[i].hash)
             /\ ~clipped' => /\ ~clipped /\ Len(lines) > 0 /\ Len(lines') > 0
                             /\ Last'.body = Last.body /\ Last'.hash = Last.hash
  <2>1. \A i \in 1..Len(lines') : IsHash(lines'[i].hash)
    BY <1>3, <1>5
  <2>2. ASSUME ~clipped'
        PROVE  /\ ~clipped /\ n > 0 /\ Len(lines') > 0
               /\ Last'.body = Last.body /\ Last'.hash = Last.hash
    <3>1. ~clipped /\ k # n
      BY <1>5, <2>2
    <3>2. Len(lines') = n - 1 /\ n - 1 \in 1..n-1 /\ lines'[n - 1] = lines[n]
      BY <1>3, <1>5, <3>1
    <3>3. n > 0 /\ n - 1 > 0
      BY <3>2, <1>1
    <3>4. QED BY <3>1, <3>2, <3>3 DEF Last
  <2>3. QED BY <2>1, <2>2
<1>6. QED BY <1>4, <1>5 DEF Damage

\* Whatever a step does, the last line goes on vouching for what was
\* acknowledged.
LEMMA HistoryStep ==
  TypeLock /\ CheckedInv /\ HistoryInv /\ [Next]_vars => HistoryInv'
<1> SUFFICES ASSUME TypeOK, LockInv, SealedInv, CheckedInv, HistoryInv, [Next]_vars
             PROVE  HistoryInv'
  BY DEF TypeLock
<1> USE ProcsAssumption
<1> DEFINE n == Len(lines)
           WriterOK(q) ==
             /\ pc[q] \in {"locking", "writing", "tearing"} =>
                  sealed[q].body = "sealed" /\ sealed[q].hash = Recompute(sealed[q])
             /\ pc[q] = "writing" /\ sealed[q].query.kind = "op" =>
                  sealed[q].previous = LastHash(lines)
             /\ pc[q] \in {"locking", "writing"} /\ sealed[q].query.kind = "reanchor" =>
                  sealed[q].previous = ANCHOR
             /\ pc[q] = "tearing" =>
                  Len(lines) > 0 /\ (Last.body # "sealed" \/ Last = sealed[q])
           FileOK ==
             /\ \A i \in 1..Len(lines) : IsHash(lines[i].hash)
             /\ \A r \in acked : IsRecord(r) /\ r.hash = Recompute(r) /\ IsHash(r.hash)
             /\ Len(lines) = 0 => tail = "whole"
             /\ ~clipped =>
                  /\ Len(lines) = 0 => acked = {}
                  /\ Len(lines) > 0 => Last.body # "sealed" \/ Vouches(Last.hash, acked)
<1>0. LinesOK /\ n \in Nat
  BY SeqFacts DEF TypeOK, LinesOK
<1>h. FileOK /\ \A q \in Procs : WriterOK(q)
  BY DEF HistoryInv
<1>g. ASSUME FileOK', \A q \in Procs : WriterOK(q)' PROVE HistoryInv'
  BY <1>g DEF HistoryInv
\* A step that leaves the file alone.
<1>f. ASSUME UNCHANGED file, UNCHANGED acked, UNCHANGED clipped PROVE FileOK'
  BY <1>f, <1>h DEF file, Last, Recompute
<1>w. ASSUME UNCHANGED file, NEW q \in Procs, pc'[q] = pc[q], sealed'[q] = sealed[q]
      PROVE  WriterOK(q)'
  BY <1>w, <1>h DEF file, Last, LastHash, Recompute
\* A process without a record.
<1>i. ASSUME NEW q \in Procs, pc'[q] \notin {"locking", "writing", "tearing"} PROVE WriterOK(q)'
  BY <1>i
\* Only one process writes, and while it does the others do not.
<1>l. ASSUME NEW p \in Procs, NEW q \in Procs, p # q, lock = p
      PROVE  pc[q] \notin {"reading", "writing", "tearing"}
  BY <1>l DEF LockInv
<1>o. ASSUME NEW q \in Procs, pc'[q] = pc[q], sealed'[q] = sealed[q],
             pc[q] \notin {"writing", "tearing"}
      PROVE  WriterOK(q)'
  BY <1>o, <1>h DEF Recompute
<1>r. ASSUME NEW p \in Procs, NEW r, Return(p, r)
      PROVE  pc'[p] = "idle" /\ \A q \in Procs : q # p => pc'[q] = pc[q] /\ sealed'[q] = sealed[q]
  BY <1>r DEF Return, TypeOK
\* A call that returns without writing.
<1>e. ASSUME NEW p \in Procs, NEW r, Return(p, r), UNCHANGED file, UNCHANGED acked,
             UNCHANGED clipped
      PROVE  HistoryInv'
  BY <1>e, <1>r, <1>f, <1>w, <1>i, <1>g
<1>1. ASSUME NEW p \in Procs, NEW op \in Ops, AppendCall(p, op)
      PROVE  HistoryInv'
  <2>1. pc'[p] = "waiting" /\ \A q \in Procs : q # p => pc'[q] = pc[q] /\ sealed'[q] = sealed[q]
    BY <1>1 DEF AppendCall, TypeOK
  <2>2. UNCHANGED file /\ UNCHANGED acked /\ UNCHANGED clipped
    BY <1>1 DEF AppendCall, faults
  <2>3. QED BY <2>1, <2>2, <1>f, <1>w, <1>i, <1>g
<1>2. ASSUME NEW p \in Procs, AppendLock(p)
      PROVE  HistoryInv'
  <2>1. pc'[p] = "reading" /\ \A q \in Procs : q # p => pc'[q] = pc[q] /\ sealed'[q] = sealed[q]
    BY <1>2 DEF AppendLock, TypeOK
  <2>2. UNCHANGED file /\ UNCHANGED acked /\ UNCHANGED clipped
    BY <1>2 DEF AppendLock, faults
  <2>3. QED BY <2>1, <2>2, <1>f, <1>w, <1>i, <1>g
<1>3. ASSUME NEW p \in Procs, AppendRead(p)
      PROVE  HistoryInv'
  <2>0. UNCHANGED file /\ UNCHANGED acked /\ UNCHANGED clipped
    BY <1>3 DEF AppendRead, faults
  <2>1. CASE \E r \in {"malformed", "broken"} : Return(p, r)
    BY <2>0, <2>1, <1>e
  <2>2. ASSUME NEW s, s = Sealed(NextSequence(Seen), LastHash(Seen), Op(want[p])),
               sealed' = [sealed EXCEPT ![p] = s], pc' = [pc EXCEPT ![p] = "writing"]
        PROVE  HistoryInv'
    <3>1. /\ s.body = "sealed" /\ s.hash = Recompute(s) /\ s.previous = LastHash(lines)
          /\ s.query.kind = "op"
      BY <2>2, <1>0, SealedFields, SeenFacts DEF Op
    <3>2. sealed'[p] = s /\ pc'[p] = "writing"
          /\ \A q \in Procs : q # p => pc'[q] = pc[q] /\ sealed'[q] = sealed[q]
      BY <2>2 DEF TypeOK
    <3>3. WriterOK(p)'
      BY <2>0, <3>1, <3>2 DEF file, LastHash, Recompute
    <3>4. QED BY <2>0, <3>2, <3>3, <1>f, <1>w, <1>g
  <2>3. QED BY <1>3, <2>1, <2>2 DEF AppendRead
<1>4. ASSUME NEW p \in Procs, ReanchorRead(p)
      PROVE  HistoryInv'
  <2>0. UNCHANGED file /\ UNCHANGED acked /\ UNCHANGED clipped
    BY <1>4 DEF ReanchorRead, faults
  <2>1. CASE \E r \in {"unreadable", "nothing"} : Return(p, r)
    BY <2>0, <2>1, <1>e
  <2>2. ASSUME NEW k, NEW s, s = Sealed(NextSequence(Seen), ANCHOR, k),
               sealed' = [sealed EXCEPT ![p] = s], pc' = [pc EXCEPT ![p] = "locking"]
        PROVE  HistoryInv'
    <3>1. s.body = "sealed" /\ s.hash = Recompute(s) /\ s.previous = ANCHOR
      BY <2>2, SealedFields
    <3>2. sealed'[p] = s /\ pc'[p] = "locking"
          /\ \A q \in Procs : q # p => pc'[q] = pc[q] /\ sealed'[q] = sealed[q]
      BY <2>2 DEF TypeOK
    <3>3. WriterOK(p)'
      BY <3>1, <3>2 DEF Recompute
    <3>4. QED BY <2>0, <3>2, <3>3, <1>f, <1>w, <1>g
  <2>3. QED BY <1>4, <2>1, <2>2 DEF ReanchorRead
<1>5. ASSUME NEW p \in Procs, ReanchorLock(p)
      PROVE  HistoryInv'
  <2>1. /\ pc[p] = "locking" /\ pc'[p] = "writing" /\ sealed' = sealed
        /\ \A q \in Procs : q # p => pc'[q] = pc[q] /\ sealed'[q] = sealed[q]
    BY <1>5 DEF ReanchorLock, TypeOK
  <2>2. UNCHANGED file /\ UNCHANGED acked /\ UNCHANGED clipped
    BY <1>5 DEF ReanchorLock, faults
  <2>3. WriterOK(p)'
    BY <2>1, <1>h DEF SealedInv, Recompute
  <2>4. QED BY <2>1, <2>2, <2>3, <1>f, <1>w, <1>g
<1>6. ASSUME NEW p \in Procs, WriteBegin(p)
      PROVE  HistoryInv'
  <2>0. /\ pc[p] = "writing" /\ lock = p /\ pc'[p] = "tearing" /\ sealed' = sealed
        /\ acked' = acked /\ clipped' = clipped /\ IsRecord(sealed[p])
        /\ sealed[p].body = "sealed" /\ sealed[p].hash = Recompute(sealed[p])
        /\ \A q \in Procs : q # p => pc'[q] = pc[q] /\ sealed'[q] = sealed[q]
    BY <1>6, <1>h DEF WriteBegin, TypeOK, LockInv, SealedInv, faults
  <2>1. \A q \in Procs : q # p => WriterOK(q)'
    BY <2>0, <1>l, <1>o
  <2>2. CASE tail = "whole" /\ lines' = Append(lines, sealed[p])
    <3>1. /\ Len(lines') = n + 1
          /\ \A i \in 1..n : lines'[i] = lines[i]
          /\ lines'[n + 1] = sealed[p]
      BY <2>0, <2>2, <1>0, AppendKeepsLines
    <3>2. Len(lines') > 0 /\ Last' = sealed[p]
      BY <3>1, <1>0 DEF Last
    <3>3. IsHash(sealed[p].hash)
      BY <2>0 DEF IsHash, Recompute
    <3>4. \A i \in 1..Len(lines') : IsHash(lines'[i].hash)
      BY <3>1, <3>3, <1>0, <1>h
    <3>5. ASSUME ~clipped PROVE Vouches(sealed[p].hash, acked)
      <4>1. CASE sealed[p].query.kind # "op"
        BY <4>1, <2>0, ReanchorVouches
      <4>2. CASE sealed[p].query.kind = "op" /\ n > 0
        <5>1. Sound /\ sealed[p].previous = LastHash(lines)
          BY <4>2, <2>0, <1>h DEF CheckedInv
        <5>2. Last.body = "sealed"
          BY <5>1, <4>2, <1>0, SoundEndsSealed
        <5>3. LastHash(lines) = Last.hash /\ n \in 1..n
          BY <4>2, <1>0 DEF LastHash, Last
        <5>4. IsHash(sealed[p].previous) /\ Vouches(sealed[p].previous, acked)
          BY <5>1, <5>2, <5>3, <4>2, <3>5, <1>h DEF Last
        <5>5. QED BY <5>4, <2>0, VouchesOn
      <4>3. CASE n = 0
        BY <4>3, <3>5, <1>h DEF Vouches
      <4>4. QED BY <4>1, <4>2, <4>3, <1>0
    <3>6. FileOK'
      BY <3>2, <3>4, <3>5, <2>0, <1>h DEF Recompute
    <3>7. WriterOK(p)'
      BY <3>2, <2>0 DEF Recompute
    <3>8. QED BY <3>6, <3>7, <2>1, <1>g
  <2>3. CASE tail # "whole" /\ \E b \in {"garbled", "unreadable"} : Glue(b)
    <3>1. n > 0
      BY <2>3, <1>0, <1>h
    <3>2. /\ Len(lines') = n /\ Last'.body # "sealed"
          /\ \A i \in 1..n : lines'[i].hash = lines[i].hash
      BY <2>3, <3>1, <1>0, GlueSpoils
    <3>3. FileOK'
      BY <3>1, <3>2, <2>0, <1>h DEF Recompute
    <3>4. WriterOK(p)'
      BY <3>1, <3>2, <2>0 DEF Recompute
    <3>5. QED BY <3>3, <3>4, <2>1, <1>g
  <2>4. QED BY <1>6, <2>2, <2>3 DEF WriteBegin
<1>7. ASSUME NEW p \in Procs, WriteEnd(p)
      PROVE  HistoryInv'
  <2>0. /\ pc[p] = "tearing" /\ lock = p /\ lines' = lines /\ tail' = "whole"
        /\ clipped' = clipped
        /\ acked' = acked \cup {sealed[p]} /\ IsRecord(sealed[p])
        /\ sealed[p].body = "sealed" /\ sealed[p].hash = Recompute(sealed[p])
        /\ n > 0 /\ (Last.body # "sealed" \/ Last = sealed[p])
    BY <1>7, <1>h DEF WriteEnd, TypeOK, LockInv, SealedInv, faults
  <2>1. \A q \in Procs : WriterOK(q)'
    BY <1>7, <2>0, <1>l, <1>o, <1>r, <1>i DEF WriteEnd
  <2>2. Last' = Last
    BY <2>0 DEF Last
  <2>3. ~clipped => Last.body # "sealed" \/ Vouches(Last.hash, acked')
    BY <2>0, <1>h, VouchesForItself
  <2>4. IsHash(sealed[p].hash)
    BY <2>0 DEF IsHash, Recompute
  <2>5. \A r \in acked' : IsRecord(r) /\ r.hash = Recompute(r) /\ IsHash(r.hash)
    BY <2>0, <2>4, <1>h
  <2>6. FileOK'
    BY <2>0, <2>2, <2>3, <2>5, <1>h, <1>0 DEF Recompute
  <2>7. QED BY <2>1, <2>6, <1>g
<1>8. ASSUME NEW p \in Procs, WriteTorn(p)
      PROVE  HistoryInv'
  <2>0. /\ pc[p] = "tearing" /\ lock = p /\ n > 0
        /\ acked' = acked /\ lines' = lines /\ clipped' = clipped
    BY <1>8, <1>h DEF WriteTorn, LockInv
  <2>1. \A q \in Procs : WriterOK(q)'
    BY <1>8, <2>0, <1>l, <1>o, <1>r, <1>i DEF WriteTorn
  <2>2. Last' = Last
    BY <2>0 DEF Last
  <2>3. FileOK'
    BY <2>0, <2>2, <1>h, <1>0 DEF Recompute
  <2>4. QED BY <2>1, <2>3, <1>g
<1>9. ASSUME NEW p \in Procs, Stop(p)
      PROVE  HistoryInv'
  BY <1>9, <1>e DEF Stop
<1>10. CASE Damage
  <2>1. /\ \A i \in 1..Len(lines') : IsHash(lines'[i].hash)
        /\ ~clipped' => /\ ~clipped /\ n > 0 /\ Len(lines') > 0
                        /\ Last'.body = Last.body /\ Last'.hash = Last.hash
    BY <1>10, <1>0, <1>h, DamageKeepsLast
  <2>2. lock = Nobody /\ tail' = "whole" /\ UNCHANGED <<pc, sealed, acked>>
    BY <1>10 DEF Damage
  <2>3. FileOK'
    BY <2>1, <2>2, <1>h DEF Recompute
  <2>4. \A q \in Procs : WriterOK(q)'
    BY <2>2, <1>o DEF LockInv
  <2>5. QED BY <2>3, <2>4, <1>g
<1>11. CASE UNCHANGED vars
  BY <1>11, <1>f, <1>w, <1>g DEF vars, file
<1>12. QED
  BY <1>1, <1>2, <1>3, <1>4, <1>5, <1>6, <1>7, <1>8, <1>9, <1>10, <1>11 DEF Next

\* What a log that verifies still vouches for holds in every state.
LEMMA HistoryAlways == Spec => [](TypeLock /\ CheckedInv /\ HistoryInv)
<1>1. Init => HistoryInv
  BY DEF Init, HistoryInv
<1>2. QED BY <1>1, CheckedAlways, HistoryStep, PTL DEF Spec

\* However often lines are edited or removed, writes torn and records run
\* together, by however many processes: as long as the file verifies and holds
\* no re-anchor, every record whose append returned Ok is in it as it was
\* sealed, unless the end of the file has been taken away, and then still every
\* one that a remaining record names.
THEOREM NoSilentLoss == Spec => []LossIsVisible
<1>1. TypeLock /\ HistoryInv => LossIsVisible
  <2> SUFFICES ASSUME TypeLock, HistoryInv, Sound, ~Reanchored, NEW a \in acked,
                      ~clipped \/ \E i \in 1..Len(lines) : lines[i].previous = a.hash
               PROVE  \E i \in 1..Len(lines) : lines[i] = a
    BY DEF LossIsVisible
  <2>1. LinesOK /\ Len(lines) \in Nat
    BY SeqFacts DEF TypeLock, TypeOK, LinesOK
  <2>2. Len(lines) > 0
    BY <2>1 DEF HistoryInv
  <2>3. CleanChain(lines) /\ Last.body = "sealed"
    BY <2>1, <2>2, SoundIsClean
  <2>4. CASE ~clipped
    <3>1. Vouches(Last.hash, acked)
      BY <2>2, <2>3, <2>4 DEF HistoryInv
    <3>2. QED BY <2>3, <3>1 DEF Vouches, Last
  <2>5. CASE \E i \in 1..Len(lines) : lines[i].previous = a.hash
    <3>1. IsRecord(a) /\ a.hash = Recompute(a) /\ IsHash(a.hash)
      BY DEF HistoryInv
    <3>2. QED BY <2>3, <2>5, <3>1, NamedIsThere
  <2>6. QED BY <2>4, <2>5
<1>2. QED BY <1>1, HistoryAlways, PTL

-----------------------------------------------------------------------------
(* An unharmed log is a chain, re-anchored or not. *)

\* Every record of such a chain is sealed, an operation's onto the record before
\* it, any other onto the anchor.
LEMMA ChainedFields ==
  ASSUME NEW i \in 1..Len(lines), ChainedAt(i)
  PROVE  /\ lines[i].body = "sealed" /\ lines[i].hash = Recompute(lines[i])
         /\ lines[i].sequence < i
         /\ \/ /\ lines[i].query.kind = "op"
               /\ lines[i].sequence = IF i = 1 THEN 0 ELSE lines[i-1].sequence + 1
               /\ lines[i].previous = IF i = 1 THEN ANCHOR ELSE lines[i-1].hash
            \/ /\ lines[i].query.kind = "reanchor"
               /\ lines[i].previous = ANCHOR
<1>1. CASE lines[i] = Sealed(IF i = 1 THEN 0 ELSE lines[i-1].sequence + 1,
                             IF i = 1 THEN ANCHOR ELSE lines[i-1].hash,
                             Op(lines[i].query.of))
  <2>1. /\ lines[i].sequence = IF i = 1 THEN 0 ELSE lines[i-1].sequence + 1
        /\ lines[i].previous = IF i = 1 THEN ANCHOR ELSE lines[i-1].hash
        /\ lines[i].query = Op(lines[i].query.of)
        /\ lines[i].body = "sealed" /\ lines[i].hash = Recompute(lines[i])
    BY <1>1, SealedFields
  <2>2. Op(lines[i].query.of).kind = "op"
    BY DEF Op
  <2>3. lines[i].query.kind = "op"
    BY <2>1, <2>2
  <2>4. QED BY <2>1, <2>3 DEF ChainedAt
<1>2. CASE lines[i] = Sealed(lines[i].sequence, ANCHOR, Reanchor(lines[i].query.of))
  <2>1. /\ lines[i].previous = ANCHOR
        /\ lines[i].query = Reanchor(lines[i].query.of)
        /\ lines[i].body = "sealed" /\ lines[i].hash = Recompute(lines[i])
    BY <1>2, SealedFields
  <2>2. Reanchor(lines[i].query.of).kind = "reanchor"
    BY DEF Reanchor
  <2>3. lines[i].query.kind = "reanchor"
    BY <2>1, <2>2
  <2>4. QED BY <2>1, <2>3 DEF ChainedAt
<1>3. QED BY <1>1, <1>2 DEF ChainedAt

\* Such a chain verifies, as soon as its last line is complete, and the next
\* number is one that is due.
LEMMA ChainVerifies ==
  ASSUME LinesOK, \A i \in 1..Len(lines) : ChainedAt(i)
  PROVE  /\ tail # "short" => Sound
         /\ \A i \in 1..Len(lines) : lines[i].body = "sealed"
         /\ NextSequence(lines) \in Nat /\ NextSequence(lines) <= Len(lines)
<1>0. Len(lines) \in Nat /\ DOMAIN lines = 1..Len(lines)
  BY SeqFacts DEF LinesOK
<1>1. ASSUME NEW i \in 1..Len(lines) PROVE ~LinkBroken(lines, i)
  <2>1. lines[i].hash = Recompute(lines[i])
    BY ChainedFields
  <2>2. lines[i].previous = IF StartsChain(lines, i) THEN ANCHOR ELSE lines[i-1].hash
    BY ChainedFields DEF StartsChain
  <2>3. QED BY <2>1, <2>2 DEF LinkBroken
<1>2. BrokenLinks(lines) = {}
  BY <1>1 DEF BrokenLinks, CurrentChain
<1>3. NextSequence(lines) \in Nat /\ NextSequence(lines) <= Len(lines)
  <2>1. CASE lines = <<>>
    BY <2>1, <1>0 DEF NextSequence
  <2>2. CASE lines # <<>>
    <3>1. Len(lines) \in 1..Len(lines)
      BY <2>2, <1>0, SeqFacts DEF LinesOK
    <3>2. lines[Len(lines)].sequence < Len(lines) /\ lines[Len(lines)].sequence \in Nat
      BY <3>1 DEF ChainedAt, LinesOK, IsRecord
    <3>3. QED BY <2>2, <3>2, <1>0 DEF NextSequence
  <2>3. QED BY <2>1, <2>2
<1>4. \A i \in 1..Len(lines) : lines[i].body = "sealed"
  BY ChainedFields
<1>5. QED BY <1>2, <1>3, <1>4, SeenFacts DEF Sound

\* While one process is inside its append, no line is left incomplete by
\* another: an unharmed file parses for whoever holds the lock.
LEMMA HolderReadsWholeLines ==
  ASSUME TypeLock, ChainInv, NEW p \in Procs, pc[p] \in {"reading", "writing"}
  PROVE  tail = "whole" /\ ~Malformed /\ Sound
<1>1. tail = "whole"
  BY DEF ChainInv, TypeLock, LockInv, TypeOK
<1>2. QED BY <1>1, ChainVerifies DEF Malformed, ChainInv, TypeLock, TypeOK, LinesOK

\* A step that harms nothing keeps the log a chain.
LEMMA ChainStep ==
  TypeLock /\ (Unharmed => ChainInv) /\ [Next]_vars => (Unharmed => ChainInv)'
<1> SUFFICES ASSUME TypeLock, Unharmed => ChainInv, [Next]_vars, Unharmed'
             PROVE  ChainInv'
  OBVIOUS
<1> USE ProcsAssumption, BoundsAssumption
<1> DEFINE n == Len(lines)
           FileOK ==
             /\ \A i \in 1..Len(lines) : ChainedAt(i)
             /\ Reanchored \/ \A i \in 1..Len(lines) : lines[i].sequence = i - 1
             /\ \A r \in acked : \E i \in 1..Len(lines) : lines[i] = r
           ProcOK(q) ==
             /\ pc[q] = "locking" => Misled(q)
             /\ pc[q] = "writing" =>
                  \/ /\ want[q] \in Ops
                     /\ sealed[q] = Sealed(NextSequence(lines), LastHash(lines), Op(want[q]))
                  \/ Misled(q)
             /\ pc[q] = "tearing" =>
                  tail # "whole" /\ Len(lines) > 0 /\ sealed[q] = lines[Len(lines)]
             /\ result[q] \notin {"broken", "malformed"}
           TailOK == tail # "whole" => \E q \in Procs : pc[q] = "tearing"
<1>0. TypeOK /\ LockInv /\ SealedInv /\ LinesOK /\ n \in Nat
  BY SeqFacts DEF TypeLock, TypeOK, LinesOK
<1>u. Unharmed /\ ~Damage /\ ~\E p \in Procs : WriteTorn(p)
  BY <1>0 DEF Unharmed, Next, vars, AppendCall, AppendLock, AppendRead, ReanchorRead,
     ReanchorLock, WriteBegin, WriteEnd, WriteTorn, Stop, Damage, faults, TypeOK
<1>c. ChainInv /\ FileOK /\ TailOK /\ \A q \in Procs : ProcOK(q)
  BY <1>u DEF ChainInv
<1>g. ASSUME FileOK', TailOK', \A q \in Procs : ProcOK(q)' PROVE ChainInv'
  BY <1>g DEF ChainInv
\* A step that leaves the file alone keeps the chain.
<1>f. ASSUME UNCHANGED file, UNCHANGED acked PROVE FileOK'
  BY <1>c, <1>f DEF ChainedAt, Reanchored, file
\* A process that does nothing, in a file that stays.
<1>o. ASSUME UNCHANGED file, NEW q \in Procs, pc'[q] = pc[q], sealed'[q] = sealed[q],
             want'[q] = want[q], result'[q] = result[q]
      PROVE  ProcOK(q)'
  BY <1>c, <1>o DEF Misled, NextSequence, LastHash, file
\* A process without a record.
<1>i. ASSUME NEW q \in Procs, pc'[q] \notin {"locking", "writing", "tearing"},
             result'[q] \notin {"broken", "malformed"}
      PROVE  ProcOK(q)'
  BY <1>i
\* A step that nobody takes who is writing a line.
<1>t. ASSUME UNCHANGED file, NEW p \in Procs, pc[p] # "tearing",
             \A q \in Procs : q # p => pc'[q] = pc[q]
      PROVE  TailOK'
  BY <1>c, <1>t DEF file
<1>1. ASSUME NEW p \in Procs, NEW op \in Ops, AppendCall(p, op)
      PROVE  ChainInv'
  <2>1. /\ pc[p] = "idle" /\ pc'[p] = "waiting" /\ result'[p] = "none"
        /\ UNCHANGED file /\ UNCHANGED acked
        /\ \A q \in Procs : q # p => /\ pc'[q] = pc[q] /\ sealed'[q] = sealed[q]
                                     /\ want'[q] = want[q] /\ result'[q] = result[q]
    BY <1>0, <1>1 DEF AppendCall, TypeOK
  <2>2. QED BY <2>1, <1>f, <1>t, <1>o, <1>i, <1>g
<1>2. ASSUME NEW p \in Procs, AppendLock(p)
      PROVE  ChainInv'
  <2>1. /\ pc[p] = "waiting" /\ pc'[p] = "reading" /\ result'[p] = result[p]
        /\ UNCHANGED file /\ UNCHANGED acked
        /\ \A q \in Procs : q # p => /\ pc'[q] = pc[q] /\ sealed'[q] = sealed[q]
                                     /\ want'[q] = want[q] /\ result'[q] = result[q]
    BY <1>0, <1>2 DEF AppendLock, TypeOK
  <2>2. ProcOK(p)'
    BY <2>1, <1>c, <1>i
  <2>3. QED BY <2>1, <2>2, <1>f, <1>t, <1>o, <1>g
\* What a call that returns leaves the others.
<1>r. ASSUME NEW p \in Procs, NEW r, Return(p, r)
      PROVE  /\ pc'[p] = "idle" /\ result'[p] = r
             /\ \A q \in Procs : q # p => /\ pc'[q] = pc[q] /\ sealed'[q] = sealed[q]
                                          /\ want'[q] = want[q] /\ result'[q] = result[q]
  BY <1>0, <1>r DEF Return, TypeOK
\* A call that returns without writing.
<1>e. ASSUME NEW p \in Procs, NEW r \in Results \ {"broken", "malformed"}, Return(p, r),
             pc[p] # "tearing", UNCHANGED file, UNCHANGED acked
      PROVE  ChainInv'
  <2>1. ProcOK(p)'
    BY <1>e, <1>r, <1>i
  <2>2. QED BY <2>1, <1>e, <1>r, <1>f, <1>t, <1>o, <1>g
<1>3. ASSUME NEW p \in Procs, AppendRead(p)
      PROVE  ChainInv'
  <2>1. ~Malformed /\ Sound /\ pc[p] = "reading"
    BY <1>3, <1>c, HolderReadsWholeLines DEF AppendRead
  <2>2. want[p] \in Ops
    BY <1>0, <1>3 DEF AppendRead, SealedInv
  <2>3. /\ sealed' = [sealed EXCEPT ![p] = Sealed(NextSequence(lines), LastHash(lines), Op(want[p]))]
        /\ pc' = [pc EXCEPT ![p] = "writing"]
        /\ UNCHANGED <<lock, want, result, lines, tail, acked>>
    BY <1>0, <1>3, <2>1, SeenFacts DEF AppendRead, file
  <2>4. ProcOK(p)'
    BY <2>2, <2>3, <1>0, <1>c DEF TypeOK, NextSequence, LastHash
  <2>5. /\ UNCHANGED file
        /\ \A q \in Procs : q # p => pc'[q] = pc[q] /\ sealed'[q] = sealed[q]
    BY <2>3, <1>0 DEF TypeOK, file
  <2>6. QED BY <2>1, <2>3, <2>4, <2>5, <1>f, <1>t, <1>o, <1>g
<1>4. ASSUME NEW p \in Procs, ReanchorRead(p)
      PROVE  ChainInv'
  <2>1. pc[p] = "idle" /\ UNCHANGED file /\ UNCHANGED acked
    BY <1>4 DEF ReanchorRead
  <2>2. CASE \E r \in {"unreadable", "nothing"} : Return(p, r)
    BY <2>1, <2>2, <1>e DEF Results
  <2>3. ASSUME NEW at, NEW s, s = Sealed(NextSequence(Seen), ANCHOR, Reanchor(at)),
               sealed' = [sealed EXCEPT ![p] = s],
               result' = [result EXCEPT ![p] = "none"],
               pc' = [pc EXCEPT ![p] = "locking"], UNCHANGED want
        PROVE  ChainInv'
    <3>1. s.sequence = NextSequence(lines) /\ s.query = Reanchor(at)
      BY <2>3, <1>0, SealedFields, SeenFacts
    <3>2. s.query.of = at
      BY <3>1 DEF Reanchor
    <3>3. s.sequence <= n /\ s = Sealed(s.sequence, ANCHOR, Reanchor(s.query.of))
      BY <2>3, <3>1, <3>2, <1>0, <1>c, SeenFacts, ChainVerifies
    <3>4. /\ pc'[p] = "locking" /\ sealed'[p] = s /\ result'[p] = "none"
          /\ \A q \in Procs : q # p => /\ pc'[q] = pc[q] /\ sealed'[q] = sealed[q]
                                       /\ want'[q] = want[q] /\ result'[q] = result[q]
      BY <2>3, <1>0 DEF TypeOK
    <3>5. ProcOK(p)'
      BY <2>1, <3>3, <3>4 DEF Misled, file
    <3>6. QED BY <2>1, <3>4, <3>5, <1>f, <1>t, <1>o, <1>g
  <2>4. QED BY <1>4, <2>2, <2>3 DEF ReanchorRead
<1>5. ASSUME NEW p \in Procs, ReanchorLock(p)
      PROVE  ChainInv'
  <2>1. /\ pc[p] = "locking" /\ pc'[p] = "writing"
        /\ UNCHANGED <<sealed, want, result, acked>> /\ UNCHANGED file
        /\ \A q \in Procs : q # p => pc'[q] = pc[q]
    BY <1>0, <1>5 DEF ReanchorLock, TypeOK
  <2>2. ProcOK(p)'
    BY <2>1, <1>c DEF Misled, file
  <2>3. QED BY <2>1, <2>2, <1>f, <1>t, <1>o, <1>g
<1>6. ASSUME NEW p \in Procs, WriteBegin(p)
      PROVE  ChainInv'
  <2>0. pc[p] = "writing" /\ tail = "whole" /\ IsRecord(sealed[p]) /\ lock = p
    BY <1>6, <1>c, <1>0, HolderReadsWholeLines DEF WriteBegin, SealedInv, LockInv
  <2>m. PICK m \in Nat : m = n
    BY <1>0
  <2> USE <2>m
  <2>1. lines' = Append(lines, sealed[p]) /\ tail' # "whole"
    BY <1>6, <2>0 DEF WriteBegin, Cuts
  <2>2. /\ Len(lines') = m + 1
        /\ \A i \in 1..m : lines'[i] = lines[i]
        /\ lines'[m + 1] = sealed[p]
    BY <2>0, <2>1, <1>0, AppendKeepsLines
  <2>3. ASSUME NEW i \in 1..m PROVE ChainedAt(i)'
    <3>1. i = 1 \/ i - 1 \in 1..m
      BY <1>0
    <3>2. QED BY <3>1, <2>2, <1>c DEF ChainedAt
  <2>4. ChainedAt(m + 1)' /\ (Reanchored' \/ \A i \in 1..m+1 : lines'[i].sequence = i - 1)
    <3>1. CASE Misled(p)
      <4>1. sealed[p].sequence < m + 1 /\ sealed[p].query = Reanchor(sealed[p].query.of)
        <5>1. sealed[p].sequence \in Nat /\ sealed[p].sequence <= m
          BY <2>0, <3>1 DEF Misled, IsRecord
        <5>2. sealed[p].query = Reanchor(sealed[p].query.of)
          BY <3>1, SealedFields DEF Misled
        <5>3. QED BY <5>1, <5>2, <1>0
      <4>2. Reanchor(sealed[p].query.of).kind = "reanchor"
        BY DEF Reanchor
      <4>3. Reanchored'
        BY <4>1, <4>2, <2>2, <1>0 DEF Reanchored
      <4>4. QED BY <3>1, <4>1, <4>3, <2>2 DEF Misled, ChainedAt
    <3>2. CASE sealed[p] = Sealed(NextSequence(lines), LastHash(lines), Op(want[p]))
      <4>1. /\ sealed[p].sequence = NextSequence(lines)
            /\ sealed[p].query = Op(want[p])
        BY <3>2, SealedFields
      <4>2. sealed[p].query.of = want[p]
        BY <4>1 DEF Op
      <4>3. NextSequence(lines) < m + 1
        BY <1>0, <1>c, ChainVerifies
      <4>4. CASE m = 0
        <5>0. Len(lines) = 0
          BY <4>4
        <5>1. lines = <<>>
          BY <5>0, <1>0, SeqFacts DEF LinesOK
        <5>2. NextSequence(lines) = 0 /\ LastHash(lines) = ANCHOR
          BY <5>1 DEF NextSequence, LastHash
        <5>3. ChainedAt(m + 1)'
          BY <3>2, <4>1, <4>2, <4>3, <4>4, <5>2, <2>2 DEF ChainedAt
        <5>4. \A i \in 1..m+1 : lines'[i].sequence = i - 1
          BY <4>1, <4>4, <5>2, <2>2
        <5>5. QED BY <5>3, <5>4
      <4>5. CASE m # 0
        <5>1. m \in 1..m /\ lines # <<>> /\ m + 1 # 1 /\ (m + 1) - 1 = m
          BY <4>5, <1>0
        <5>2. NextSequence(lines) = lines'[m].sequence + 1 /\ LastHash(lines) = lines'[m].hash
          BY <5>1, <2>2 DEF NextSequence, LastHash
        <5>3. ChainedAt(m + 1)'
          <6>1. lines'[m + 1] = Sealed(lines'[m].sequence + 1, lines'[m].hash,
                                       Op(lines'[m + 1].query.of))
            BY <3>2, <4>2, <5>2, <2>2
          <6>2. QED BY <4>1, <4>3, <5>1, <6>1, <2>2 DEF ChainedAt
        <5>4. CASE Reanchored
          <6>1. PICK i \in 1..m : lines[i].query.kind = "reanchor"
            BY <5>4 DEF Reanchored
          <6>2. i \in 1..Len(lines') /\ lines'[i].query.kind = "reanchor"
            BY <6>1, <2>2, <1>0
          <6>3. QED BY <5>3, <6>2 DEF Reanchored
        <5>5. CASE \A i \in 1..m : lines[i].sequence = i - 1
          <6>1. lines'[m + 1].sequence = m
            BY <4>1, <5>1, <5>2, <5>5, <2>2, <1>0
          <6>2. ASSUME NEW i \in 1..m+1 PROVE lines'[i].sequence = i - 1
            <7>1. i \in 1..m \/ i = m + 1
              BY <1>0
            <7>2. QED BY <7>1, <6>1, <5>5, <2>2, <1>0
          <6>3. QED BY <5>3, <6>2
        <5>6. QED BY <5>4, <5>5, <1>c
      <4>6. QED BY <4>4, <4>5
    <3>3. QED BY <3>1, <3>2, <2>0, <1>c
  <2>5. ASSUME NEW r \in acked' PROVE \E i \in 1..Len(lines') : lines'[i] = r
    <3>1. PICK i \in 1..m : lines[i] = r
      BY <1>6, <1>c DEF WriteBegin
    <3>2. QED BY <3>1, <2>2, <1>0
  <2>6. FileOK'
    <3>1. ASSUME NEW i \in 1..Len(lines') PROVE ChainedAt(i)'
      <4>1. i \in 1..m \/ i = m + 1
        BY <2>2, <1>0
      <4>2. QED BY <4>1, <2>3, <2>4
    <3>2. QED BY <3>1, <2>2, <2>4, <2>5
  <2>7. /\ pc'[p] = "tearing" /\ UNCHANGED <<sealed, want, result>>
        /\ \A q \in Procs : q # p => pc'[q] = pc[q]
    BY <1>6, <1>0 DEF WriteBegin, TypeOK
  <2>8. ProcOK(p)'
    BY <2>1, <2>2, <2>7, <1>0, <1>c
  <2>9. ASSUME NEW q \in Procs, q # p PROVE ProcOK(q)'
    <3>1. pc[q] \notin {"writing", "tearing"}
      BY <2>0, <2>9, <1>0 DEF LockInv
    <3>2. CASE pc[q] = "locking"
      <4>1. sealed[q].sequence \in Nat
        BY <3>2, <1>0 DEF SealedInv, IsRecord
      <4>2. Misled(q)'
        BY <3>2, <4>1, <2>2, <2>7, <1>0, <1>c DEF Misled
      <4>3. QED BY <3>1, <4>2, <2>7, <2>9, <1>c
    <3>3. CASE pc[q] # "locking"
      BY <3>1, <3>3, <2>7, <2>9, <1>c, <1>i
    <3>4. QED BY <3>2, <3>3
  <2>10. QED BY <2>6, <2>7, <2>8, <2>9, <1>g
<1>7. ASSUME NEW p \in Procs, WriteEnd(p)
      PROVE  ChainInv'
  <2>1. n > 0 /\ sealed[p] = lines[n] /\ pc[p] = "tearing" /\ lock = p
    BY <1>7, <1>0, <1>c DEF WriteEnd, LockInv
  <2>2. lines' = lines /\ tail' = "whole" /\ acked' = acked \cup {sealed[p]} /\ Return(p, "ok")
    BY <1>7 DEF WriteEnd
  <2>3. FileOK'
    <3>1. n \in 1..n
      BY <2>1, <1>0
    <3>2. \A r \in acked' : \E i \in 1..Len(lines') : lines'[i] = r
      BY <2>1, <2>2, <3>1, <1>c
    <3>3. QED BY <2>2, <3>2, <1>c DEF ChainedAt, Reanchored
  <2>4. ASSUME NEW q \in Procs, q # p PROVE ProcOK(q)'
    <3>1. pc[q] \notin {"writing", "tearing"}
      BY <2>1, <2>4, <1>0 DEF LockInv
    <3>2. QED BY <3>1, <2>2, <2>4, <1>r, <1>c DEF Misled
  <2>5. ProcOK(p)'
    BY <2>2, <1>r, <1>i
  <2>6. QED BY <2>2, <2>3, <2>4, <2>5, <1>g
<1>8. ASSUME NEW p \in Procs, Stop(p)
      PROVE  ChainInv'
  BY <1>8, <1>e DEF Stop, Results
<1>9. CASE UNCHANGED vars
  BY <1>9, <1>f, <1>o, <1>c, <1>g DEF vars, file
<1>10. QED
  BY <1>u, <1>1, <1>2, <1>3, <1>4, <1>5, <1>6, <1>7, <1>8, <1>9 DEF Next

\* The inductive invariant holds in every reachable state.
THEOREM Invariant == Spec => []IInv
<1>1. Init => (Unharmed => ChainInv)
  BY DEF Init, ChainInv
<1>2. Spec => [](TypeLock /\ (Unharmed => ChainInv))
  BY <1>1, TypeLockInit, TypeLockStep, ChainStep, PTL DEF Spec
<1>3. TypeLock /\ CheckedInv /\ (Unharmed => ChainInv) => IInv
  BY DEF TypeLock, IInv
<1>4. QED BY <1>2, <1>3, CheckedAlways, PTL

\* However many processes append and re-anchor, and however they interleave,
\* crash and fail, a log that nothing else touched and no write was torn in
\* starts at 0, numbers every operation one after the record before it, skips no
\* number at a re-anchor, and verifies as soon as its last line is complete.
THEOREM Gapless == Spec => []GaplessChain
<1>1. IInv => GaplessChain
  <2> SUFFICES ASSUME IInv, Unharmed
               PROVE  /\ \A i \in 1..Len(lines) :
                           IF lines[i].query.kind = "op"
                           THEN lines[i].sequence = IF i = 1 THEN 0 ELSE lines[i-1].sequence + 1
                           ELSE lines[i].sequence < i
                      /\ tail = "whole" => Sound
    BY DEF GaplessChain
  <2>1. LinesOK /\ \A i \in 1..Len(lines) : ChainedAt(i)
    BY DEF IInv, TypeOK, LinesOK, ChainInv
  <2>2. tail = "whole" => Sound
    BY <2>1, ChainVerifies
  <2>3. ASSUME NEW i \in 1..Len(lines)
        PROVE  IF lines[i].query.kind = "op"
               THEN lines[i].sequence = IF i = 1 THEN 0 ELSE lines[i-1].sequence + 1
               ELSE lines[i].sequence < i
    BY <2>1, ChainedFields
  <2>4. QED BY <2>2, <2>3
<1>2. QED BY <1>1, Invariant, PTL

\* A record whose append returned Ok is in the file of such a log for good.
THEOREM Durable == Spec => []AckedKept
<1>1. IInv => AckedKept
  BY DEF IInv, ChainInv, AckedKept
<1>2. QED BY <1>1, Invariant, PTL

\* Nobody who appends to such a log is told it is broken or malformed.
THEOREM NoneRefused == Spec => []NoFalseAlarm
<1>1. IInv => NoFalseAlarm
  BY DEF IInv, ChainInv, NoFalseAlarm
<1>2. QED BY <1>1, Invariant, PTL

-----------------------------------------------------------------------------
(* The log implements its promise. *)

\* A step that harms nothing is a step of the promised list, or leaves that
\* alone; about the others nothing is promised.
LEMMA PromiseStep ==
  IInv /\ [Next]_vars => [Promise!Next]_<<Entries, ~Unharmed \/ Reanchored>>
<1> SUFFICES ASSUME IInv, [Next]_vars, Unharmed', ~Reanchored'
             PROVE  Promise!Next \/ UNCHANGED <<Entries, ~Unharmed \/ Reanchored>>
  BY DEF Promise!Next, Promise!Harm
<1>u. Unharmed /\ ~Damage /\ ~\E p \in Procs : WriteTorn(p)
  BY DEF Unharmed, Next, vars, AppendCall, AppendLock, AppendRead, ReanchorRead,
     ReanchorLock, WriteBegin, WriteEnd, WriteTorn, Stop, Damage, faults, IInv, TypeOK
<1>0. TypeLock /\ LinesOK /\ Len(lines) \in Nat /\ ChainInv
  BY <1>u, SeqFacts DEF IInv, TypeLock, TypeOK, LinesOK
\* The lines that were there are there still.
<1>k. ~Reanchored
  <2>1. CASE lines' = lines
    BY <2>1 DEF Reanchored
  <2>2. ASSUME NEW p \in Procs, WriteBegin(p) PROVE ~Reanchored
    <3>1. IsRecord(sealed[p]) /\ lines' = Append(lines, sealed[p])
      BY <2>2, <1>0, HolderReadsWholeLines DEF WriteBegin, TypeLock, SealedInv
    <3>2. Len(lines') = Len(lines) + 1 /\ \A i \in 1..Len(lines) : lines'[i] = lines[i]
      BY <3>1, <1>0, AppendKeepsLines
    <3>3. 1..Len(lines) \subseteq 1..Len(lines')
      BY <3>2, <1>0
    <3>4. QED BY <3>2, <3>3 DEF Reanchored
  <2>3. QED
    BY <2>1, <2>2, <1>u DEF Next, vars, file, AppendCall, AppendLock,
       AppendRead, ReanchorRead, ReanchorLock, WriteEnd, Stop
<1> SUFFICES Promise!Next \/ Entries' = Entries
  BY <1>u, <1>k
<1>1. CASE UNCHANGED file
  BY <1>1 DEF file, Entries, Committed
<1>2. ASSUME NEW p \in Procs, WriteBegin(p)
      PROVE  Entries' = Entries
  <2>1. tail = "whole" /\ IsRecord(sealed[p])
    BY <1>2, <1>0, HolderReadsWholeLines DEF WriteBegin, TypeLock, SealedInv
  <2>2. /\ tail' # "whole"
        /\ Len(lines') = Len(lines) + 1
        /\ \A i \in 1..Len(lines) : lines'[i] = lines[i]
    <3>1. tail' # "whole" /\ lines' = Append(lines, sealed[p])
      BY <1>2, <2>1 DEF WriteBegin, Cuts
    <3>2. QED BY <3>1, <1>0, <2>1, AppendKeepsLines
  <2>3. Committed' = Len(lines) /\ Committed = Len(lines)
    BY <2>1, <2>2, <1>0 DEF Committed
  <2>4. QED BY <2>2, <2>3 DEF Entries
<1>3. ASSUME NEW p \in Procs, WriteEnd(p)
      PROVE  Promise!Next
  <2> DEFINE n == Len(lines)
  <2>1. tail # "whole" /\ n > 0 /\ tail' = "whole" /\ lines' = lines
    BY <1>3, <1>0 DEF WriteEnd, ChainInv
  <2>2. Committed = n - 1 /\ Committed' = n /\ n \in 1..n
    BY <2>1, <1>0 DEF Committed
  <2>3. lines[n].sequence = n - 1 /\ lines[n].query.kind = "op"
    <3>1. ChainedAt(n) /\ lines[n].query.kind # "reanchor" /\ lines[n].sequence = n - 1
      BY <2>2, <1>0, <1>k DEF ChainInv, Reanchored
    <3>2. QED BY <2>2, <3>1, ChainedFields
  <2>4. lines[n].query.of \in Ops
    BY <2>2, <2>3, <1>0 DEF LinesOK, IsRecord, Query
  <2> DEFINE e(i) == [sequence |-> lines[i].sequence, of |-> lines[i].query.of]
  <2>5. Entries = [i \in 1..n-1 |-> e(i)] /\ Entries' = [i \in 1..n |-> e(i)]
    BY <2>1, <2>2 DEF Entries
  <2>6. Len(Entries) = n - 1 /\ n - 1 \in Nat
    BY <2>2, <2>5, <1>0
  <2>7. Entries' = Append(Entries, e(n))
    <3> DEFINE S == {e(i) : i \in 1..n}
    <3>1. Entries \in Seq(S) /\ e(n) \in S
      <4> HIDE DEF e
      <4>1. Entries \in [1..n-1 -> S]
        BY <2>5, <2>2, <1>0
      <4>2. QED BY <4>1, <2>6, <2>2
    <3>2. /\ Append(Entries, e(n)) = [i \in 1..n |-> Append(Entries, e(n))[i]]
          /\ \A i \in 1..n-1 : Append(Entries, e(n))[i] = Entries[i]
          /\ Append(Entries, e(n))[n] = e(n)
      <4> HIDE DEF e, S
      <4>1. IsSeq(Entries)
        BY <3>1, SeqOfSeq
      <4> DEFINE t == Append(Entries, e(n))
      <4>2. /\ IsSeq(t) /\ Len(t) = n
            /\ \A i \in 1..n-1 : t[i] = Entries[i]
            /\ t[n] = e(n)
        BY <4>1, <2>6, <2>2, AppendFacts
      <4>3. t = [i \in 1..Len(t) |-> t[i]]
        <5> HIDE DEF t
        <5> QED BY <4>2, SeqFacts
      <4>4. QED BY <4>2, <4>3
    <3>3. \A i \in 1..n : Append(Entries, e(n))[i] = e(i)
      <4> HIDE DEF e
      <4> TAKE i \in 1..n
      <4>1. i \in 1..n-1 \/ i = n
        BY <2>2, <1>0
      <4>2. QED BY <4>1, <3>2, <2>5
    <3>4. QED BY <3>2, <3>3, <2>5
  <2>8. e(n) = [sequence |-> Len(Entries), of |-> lines[n].query.of]
    BY <2>3, <2>6
  <2>9. QED
    <3> HIDE DEF e
    <3>1. Promise!Record(lines[n].query.of)
      BY <1>u, <1>k, <2>7, <2>8 DEF Promise!Record
    <3>2. QED BY <3>1, <2>4 DEF Promise!Next
<1>4. QED
  BY <1>1, <1>2, <1>3, <1>u DEF Next, vars, file, AppendCall, AppendLock,
     AppendRead, ReanchorRead, ReanchorLock, Stop

\* Until something alters the file from outside, a write is torn or a re-anchor
\* is written, the lock, the read and the two-part write of every append together
\* behave as one indivisible step of a gapless list of operations, for any number
\* of processes that append, fail and die.
THEOREM Implements == Spec => ImplementsOperationLog
<1>1. Init => Promise!Init
  <2> SUFFICES ASSUME Init PROVE Entries = <<>> /\ Unharmed /\ ~Reanchored
    BY DEF Promise!Init
  <2>1. Committed = 0 /\ Len(lines) = 0
    BY DEF Init, Committed
  <2>2. Entries = <<>> /\ Unharmed
    BY <2>1 DEF Entries, Init, Unharmed
  <2>3. QED BY <2>1, <2>2 DEF Reanchored
<1>2. IInv /\ [Next]_vars => [Promise!Next]_<<Entries, ~Unharmed \/ Reanchored>>
  BY PromiseStep
<1>3. QED
  BY <1>1, <1>2, Invariant, PTL DEF Spec, ImplementsOperationLog, Promise!Spec

-----------------------------------------------------------------------------
(* A chain that verifies goes on verifying. *)

\* As long as no write was torn, a line is incomplete only while its writer is
\* still writing it, in a damaged log too.
TornInv == tears = 0 /\ tail # "whole" => \E p \in Procs : pc[p] = "tearing"

LEMMA TornStep == TypeLock /\ TornInv /\ [Next]_vars => TornInv'
<1> SUFFICES ASSUME TypeOK, TornInv, [Next]_vars, tears' = 0, tail' # "whole"
             PROVE  \E p \in Procs : pc'[p] = "tearing"
  BY DEF TornInv, TypeLock
<1>1. ASSUME NEW p \in Procs, WriteBegin(p) PROVE pc'[p] = "tearing"
  BY <1>1 DEF WriteBegin, TypeOK
<1>2. ASSUME NEW p \in Procs, WriteTorn(p) PROVE FALSE
  BY <1>2 DEF WriteTorn, TypeOK
<1>3. ASSUME NEW p \in Procs, WriteEnd(p) PROVE FALSE
  BY <1>3 DEF WriteEnd
\* A step of a process that is not writing.
<1>s. ASSUME NEW p \in Procs, pc[p] # "tearing", UNCHANGED <<tail, tears>>,
             \A q \in Procs : q # p => pc'[q] = pc[q]
      PROVE  \E q \in Procs : pc'[q] = "tearing"
  BY <1>s DEF TornInv
<1>4. ASSUME NEW p \in Procs,
             \/ \E op \in Ops : AppendCall(p, op)
             \/ AppendLock(p) \/ AppendRead(p) \/ ReanchorRead(p) \/ ReanchorLock(p) \/ Stop(p)
      PROVE  \E q \in Procs : pc'[q] = "tearing"
  <2>1. pc[p] # "tearing" /\ UNCHANGED <<tail, tears>>
    BY <1>4 DEF AppendCall, AppendLock, AppendRead, ReanchorRead, ReanchorLock, Stop,
       file, faults
  <2>2. \A q \in Procs : q # p => pc'[q] = pc[q]
    BY <1>4 DEF AppendCall, AppendLock, AppendRead, ReanchorRead, ReanchorLock, Stop,
       Return, TypeOK
  <2>3. QED BY <2>1, <2>2, <1>s
<1>5. CASE Damage \/ UNCHANGED vars
  BY <1>5 DEF Damage, vars, TornInv
<1>6. QED BY <1>1, <1>2, <1>3, <1>4, <1>5 DEF Next

\* A record sealed onto the last line, or onto the anchor to start a chain anew,
\* leaves a chain that verifies verifying.
LEMMA WrittenVerifies ==
  ASSUME LinesOK, NEW r, IsRecord(r), r.hash = Recompute(r),
         lines' = Append(lines, r), Verifies,
         \/ r.query.kind = "op" /\ r.previous = LastHash(lines)
         \/ r.query.kind = "reanchor" /\ r.previous = ANCHOR
  PROVE  Verifies'
<1>0. Len(lines) \in Nat
  BY SeqFacts DEF LinesOK
<1>m. PICK n \in Nat : n = Len(lines)
  BY <1>0
<1>1. /\ Len(lines') = n + 1
      /\ \A i \in 1..n : lines'[i] = lines[i]
      /\ lines'[n + 1] = r
  BY <1>m, AppendKeepsLines
<1>2. ~LinkBroken(lines', n + 1)
  <2>1. r.previous = IF StartsChain(lines', n + 1) THEN ANCHOR ELSE lines'[(n + 1) - 1].hash
    <3>1. CASE r.query.kind = "reanchor"
      BY <3>1, <1>1 DEF StartsChain
    <3>2. CASE r.query.kind = "op" /\ n = 0
      <4>1. lines = <<>>
        BY <3>2, <1>m, SeqFacts DEF LinesOK
      <4>2. QED BY <3>2, <4>1 DEF StartsChain, LastHash
    <3>3. CASE r.query.kind = "op" /\ n # 0
      <4>1. n \in 1..n /\ (n + 1) - 1 = n /\ n + 1 # 1 /\ lines # <<>>
        BY <3>3, <1>m
      <4>2. QED BY <3>3, <4>1, <1>1, <1>m DEF StartsChain, LastHash
    <3>4. QED BY <3>1, <3>2, <3>3
  <2>2. QED BY <2>1, <1>1 DEF LinkBroken
<1>3. ASSUME NEW i \in 1..n, i \in CurrentChain(lines') PROVE ~LinkBroken(lines', i)
  <2>1. \A j \in i+1..n+1 : lines'[j].query.kind # "reanchor"
    BY <1>3, <1>1 DEF CurrentChain
  <2>2. \A j \in i+1..n : lines[j].query.kind # "reanchor"
    BY <2>1, <1>1
  <2>3. i \in CurrentChain(lines)
    BY <2>2, <1>m DEF CurrentChain
  <2>4. ~LinkBroken(lines, i)
    BY <2>3 DEF Verifies, BrokenLinks
  <2>5. lines'[i] = lines[i] /\ (i = 1 \/ lines'[i-1] = lines[i-1])
    BY <1>1
  <2>6. QED BY <2>4, <2>5 DEF LinkBroken, StartsChain
<1>4. ASSUME NEW i \in CurrentChain(lines') PROVE ~LinkBroken(lines', i)
  <2>1. i \in 1..n \/ i = n + 1
    BY <1>1 DEF CurrentChain
  <2>2. QED BY <2>1, <1>2, <1>3
<1>5. QED BY <1>4 DEF Verifies, BrokenLinks

\* What a step of the log's own code does to a chain that verifies.
LEMMA LastingStep ==
  TypeLock /\ HistoryInv /\ TornInv /\ [Next]_vars
    => [tears = 0 /\ UNCHANGED <<damages, tears>> /\ Verifies => Verifies']_vars
<1> SUFFICES ASSUME TypeLock, HistoryInv, TornInv, Next,
                    tears = 0, UNCHANGED <<damages, tears>>, Verifies
             PROVE  Verifies'
  OBVIOUS
<1>0. LinesOK
  BY DEF TypeLock, TypeOK, LinesOK
<1>1. CASE lines' = lines
  BY <1>1 DEF Verifies, BrokenLinks, CurrentChain, LinkBroken, StartsChain, Recompute
<1>2. ASSUME NEW p \in Procs, WriteBegin(p) PROVE Verifies'
  <2>1. pc[p] = "writing" /\ IsRecord(sealed[p]) /\ sealed[p].hash = Recompute(sealed[p])
    BY <1>2 DEF WriteBegin, TypeLock, SealedInv, HistoryInv
  <2>2. tail = "whole"
    BY <2>1, ProcsAssumption DEF TornInv, TypeLock, LockInv
  <2>3. lines' = Append(lines, sealed[p])
    BY <1>2, <2>2 DEF WriteBegin
  <2>4. sealed[p].query.kind \in {"op", "reanchor"}
    BY <2>1 DEF IsRecord, Query
  <2>5. \/ sealed[p].query.kind = "op" /\ sealed[p].previous = LastHash(lines)
        \/ sealed[p].query.kind = "reanchor" /\ sealed[p].previous = ANCHOR
    BY <2>1, <2>4 DEF HistoryInv
  <2>6. QED BY <2>1, <2>3, <2>5, <1>0, WrittenVerifies
<1>3. ~Damage
  BY DEF Damage, TypeLock, TypeOK
<1>4. QED
  BY <1>1, <1>2, <1>3 DEF Next, file, AppendCall, AppendLock, AppendRead, ReanchorRead,
     ReanchorLock, WriteEnd, WriteTorn, Stop

\* From the start, or from the re-anchor of a damaged log on, the chain goes on
\* verifying however many processes append and re-anchor at once, fail and die,
\* until the file is altered or a write torn: no order of an unlocked read, an
\* append and a locked write breaks it.
THEOREM StaysSound == Spec => RecoveryLasts
<1>1. Init => TornInv
  BY DEF Init, TornInv
<1>2. Spec => [](TypeLock /\ HistoryInv /\ TornInv)
  BY <1>1, TornStep, HistoryAlways, PTL DEF Spec
<1>3. Spec => [][Next]_vars
  BY DEF Spec
<1>4. QED BY <1>2, <1>3, LastingStep, PTL DEF RecoveryLasts
=============================================================================
