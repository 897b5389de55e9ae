-------------------------- MODULE RTHitQueueProofs --------------------------
(***************************************************************************)
(* Theorems about RTHitQueue for every ring size, every number of CPUs and *)
(* readers and every bound.  The argument is one inductive invariant,      *)
(* IInv; the arithmetic of the ring is in four lemmas about %.             *)
(***************************************************************************)
EXTENDS RTHitQueue, SequenceTheorems, TLAPS

-----------------------------------------------------------------------------
(* Arithmetic of the ring *)

\* An index taken modulo the size of the ring is a slot ((head + count) % MAX_HITS).
LEMMA ModRange ==
  ASSUME NEW m \in Nat \ {0}, NEW a \in Nat
  PROVE  a % m \in 0..(m - 1)
  BY SMT

\* Below the size, the index is the slot.
LEMMA ModSmall ==
  ASSUME NEW m \in Nat \ {0}, NEW a \in 0..(m - 1)
  PROVE  a % m = a
  BY SMT

\* Past the end of the array the index wraps once.
LEMMA ModWrap ==
  ASSUME NEW m \in Nat \ {0}, NEW a \in m..(2 * m - 1)
  PROVE  a % m = a - m
  BY SMT

\* Advancing the head by a and looking b further is looking a + b further.
LEMMA ModShift ==
  ASSUME NEW m \in Nat \ {0}, NEW h \in 0..(m - 1), NEW a \in 0..m, NEW b \in Nat,
         a + b < m \/ b = 0
  PROVE  (((h + a) % m) + b) % m = (h + a + b) % m
<1>1. CASE h + a < m
  <2>1. (h + a) % m = h + a  BY <1>1, ModSmall
  <2> QED BY <2>1
<1>2. CASE h + a >= m
  <2>1. (h + a) % m = h + a - m  BY <1>2, ModWrap
  <2>2. (h + a - m) + b \in 0..(m - 1)  BY <1>2
  <2>3. ((h + a - m) + b) % m = h + a + b - m  BY <2>2, ModSmall
  <2>4. \A c \in m..(2 * m - 1) : c % m = c - m  BY ModWrap
  <2>5. h + a + b \in m..(2 * m - 1)  BY <1>2
  <2>6. (h + a + b) % m = h + a + b - m  BY <2>4, <2>5
  <2> QED BY <2>1, <2>3, <2>6
<1> QED BY <1>1, <1>2

\* The same when the position wraps past the end of the queue's window.
LEMMA ModShiftWrap ==
  ASSUME NEW m \in Nat \ {0}, NEW h \in 0..(m - 1), NEW a \in 0..m, NEW b \in 0..(m - 1),
         a + b >= m
  PROVE  (((h + a) % m) + b) % m = (h + (a + b - m)) % m
<1> DEFINE w == \A c \in m..(2 * m - 1) : c % m = c - m
<1>1. w  BY ModWrap
<1>2. CASE h + a < m
  <2>1. (h + a) % m = h + a  BY <1>2, ModSmall
  <2>2. h + a + b \in m..(2 * m - 1)  BY <1>2
  <2>3. (h + a + b) % m = h + a + b - m  BY <1>1, <2>2
  <2>4. h + (a + b - m) \in 0..(m - 1)  BY <1>2
  <2>5. (h + (a + b - m)) % m = h + (a + b - m)  BY <2>4, ModSmall
  <2> QED BY <2>1, <2>3, <2>5
<1>3. CASE h + a >= m
  <2>1. h + a \in m..(2 * m - 1)  BY <1>3
  <2>2. (h + a) % m = h + a - m  BY <1>1, <2>1
  <2>3. (h + a - m) + b = h + (a + b - m)  OBVIOUS
  <2> QED BY <2>2, <2>3
<1> QED BY <1>2, <1>3

\* Two positions of the queue never share a slot.
LEMMA ModInjective ==
  ASSUME NEW m \in Nat \ {0}, NEW h \in 0..(m - 1),
         NEW i \in 0..(m - 1), NEW j \in 0..(m - 1), (h + i) % m = (h + j) % m
  PROVE  i = j
<1>1. (h + i) % m = IF h + i < m THEN h + i ELSE h + i - m  BY ModSmall, ModWrap
<1>2. (h + j) % m = IF h + j < m THEN h + j ELSE h + j - m  BY ModSmall, ModWrap
<1> QED BY <1>1, <1>2

-----------------------------------------------------------------------------
(* The inductive invariant *)

\* The first k queued stamps, which is what a snapshot of k records copies.
Front(k) == [i \in 1..k |-> hits[Slot(i - 1)]]

Inside == ReaderStates \ {"idle", "wait"}

\* What a reader inside the ioctl relies on: it owns the mutex, its n records are
\* still queued, and its copies of them are what the ring holds.
Holds(r) ==
  /\ pc[r] \in Inside => mutex = r
  /\ pc[r] \in {"validate", "snap", "copy", "report", "commit"} => n[r] <= count
  /\ pc[r] = "copy" => snapshot[r] = Front(n[r])
  /\ pc[r] \in {"report", "commit"} /\ n[r] > 0 =>
       snapshot[r] = Front(n[r]) /\ buffer[r] = Front(n[r])

ReadInv == \A r \in Readers : Holds(r)

IInv == TypeOK /\ ReadInv

\* Every position of the queue is a slot of the ring.
LEMMA SlotType ==
  ASSUME head \in Slots, NEW k \in Nat
  PROVE  Slot(k) \in Slots
<1>1. head + k \in Nat  BY MaxHitsAssumption DEF Slots
<1> QED BY <1>1, ModRange, MaxHitsAssumption DEF Slot, Slots

\* A snapshot of k records is a sequence of k stamps.
LEMMA FrontType ==
  ASSUME hits \in [Slots -> Nat], head \in Slots, NEW k \in Nat
  PROVE  Front(k) \in Seq(Nat) /\ Len(Front(k)) = k
<1>1. \A i \in 1..k : hits[Slot(i - 1)] \in Nat
  <2>1. \A i \in 1..k : i - 1 \in Nat  OBVIOUS
  <2> QED BY <2>1, SlotType
<1>2. Front(k) \in [1..k -> Nat]  BY <1>1 DEF Front
<1> QED BY <1>2, SeqDef, LenProperties

\* A shorter front is a prefix of a longer one.
LEMMA FrontPrefix ==
  ASSUME hits \in [Slots -> Nat], head \in Slots, NEW m \in Nat, NEW k \in 0..m
  PROVE  SubSeq(Front(m), 1, k) = Front(k)
<1>1. /\ Front(k) \in Seq(Nat) /\ Len(Front(k)) = k
      /\ Front(m) \in Seq(Nat) /\ Len(Front(m)) = m
  BY FrontType
<1>2. \A i \in 1..k : i \in 1..m  OBVIOUS
<1>3. \A i \in 1..k : Front(m)[i] \in Nat  BY <1>1, <1>2, ElementOfSeq
<1>4. /\ SubSeq(Front(m), 1, k) \in Seq(Nat)
      /\ Len(SubSeq(Front(m), 1, k)) = k
      /\ \A i \in 1..k : SubSeq(Front(m), 1, k)[i] = Front(m)[i]
  BY <1>3, SubSeqProperties
<1>5. \A i \in 1..k : Front(k)[i] = Front(m)[i]  BY <1>2 DEF Front
<1> QED BY <1>1, <1>4, <1>5, SeqEqual

\* A hit recorded behind the queue leaves every older record where it was.
LEMMA RecordKeepsFront ==
  ASSUME TypeOK, NEW c \in CPUs, Record(c), NEW k \in 0..count
  PROVE  Front(k)' = Front(k)
<1>1. CASE count = MaxHits
  BY <1>1 DEF Record, Recording, Enqueue, CountLoss, Front, Slot, ring
<1>2. CASE count # MaxHits
  <2>1. head' = head /\ hits' = [hits EXCEPT ![Slot(count)] = clock + 1]
    BY <1>2 DEF Record, Recording, Enqueue, CountLoss
  <2>2. \A i \in 1..k : hits'[Slot(i - 1)] = hits[Slot(i - 1)]
    <3> SUFFICES ASSUME NEW i \in 1..k PROVE hits'[Slot(i - 1)] = hits[Slot(i - 1)]
      OBVIOUS
    <3>1. i - 1 \in 0..(MaxHits - 1) /\ count \in 0..(MaxHits - 1) /\ i - 1 # count
      BY <1>2, MaxHitsAssumption DEF TypeOK
    <3>2. Slot(i - 1) # Slot(count)
      BY <3>1, ModInjective, MaxHitsAssumption DEF Slot, Slots, TypeOK
    <3>3. Slot(i - 1) \in Slots  BY <3>1, SlotType DEF TypeOK
    <3> QED BY <2>1, <3>2, <3>3 DEF TypeOK
  <2> QED BY <2>1, <2>2 DEF Front, Slot
<1> QED BY <1>1, <1>2

\* The loss counter saturates and the error counter wraps, inside their ranges.
LEMMA CounterRange ==
  ASSUME dropped \in 0..MaxDropped
  PROVE  /\ (IF dropped = MaxDropped THEN dropped ELSE dropped + 1) \in 0..MaxDropped
         /\ \A e \in Nat : e % ErrorsMod \in 0..(ErrorsMod - 1)
BY CounterAssumption, ModRange

\* The invariant holds when the descriptor is opened.
LEMMA InitInv == Init => IInv
<1> SUFFICES ASSUME Init PROVE IInv
  OBVIOUS
<1>1. TypeOK
  BY MaxHitsAssumption, CounterAssumption, EmptySeq
     DEF Init, TypeOK, Slots, ReaderStates, Zeroed
<1>2. ReadInv  BY DEF Init, ReadInv, Holds, Inside
<1> QED BY <1>1, <1>2 DEF IInv

\* Every step of a callback keeps the invariant, whatever the reader is doing.
LEMMA CallbackInv ==
  ASSUME IInv, NEW c \in CPUs, Callback(c)
  PROVE  IInv'
<1> USE DEF IInv
<1>1. ASSUME Trap(c) \/ CheckIdentity(c) \/ CallbackError(c)  PROVE IInv'
  <2>1. UNCHANGED <<ring, reading, received, clock, dropped>>
    BY <1>1 DEF Trap, CheckIdentity, CallbackError, counters
  <2>2. cb' \in [CPUs -> {"idle", "error", "check", "record"}] /\ traps' \in Nat
    <3>1. \E next \in {"idle", "error", "check", "record"} : cb' = [cb EXCEPT ![c] = next]
      BY <1>1 DEF Trap, CheckIdentity, CallbackError
    <3>2. cb' \in [CPUs -> {"idle", "error", "check", "record"}]  BY <3>1 DEF TypeOK
    <3>3. traps' \in Nat  BY <1>1 DEF Trap, CheckIdentity, CallbackError, TypeOK
    <3> QED BY <3>2, <3>3
  <2>3. callback_errors' \in 0..(ErrorsMod - 1)
    <3>1. callback_errors + 1 \in Nat  BY DEF TypeOK
    <3> QED BY <1>1, <3>1, CounterRange
            DEF Trap, CheckIdentity, CallbackError, TypeOK, counters
  <2>4. TypeOK'  BY <2>1, <2>2, <2>3 DEF TypeOK, ring, reading
  <2>5. ReadInv'  BY <2>1 DEF ReadInv, Holds, ring, reading, Front, Slot
  <2> QED BY <2>4, <2>5
<1>2. ASSUME Record(c)  PROVE IInv'
  <2>1. UNCHANGED <<callback_errors, reading, traps, received>>
        /\ clock' = clock + 1 /\ cb' = [cb EXCEPT ![c] = "idle"] /\ head' = head
    BY <1>2 DEF Record, Recording, Enqueue, CountLoss, ring
  <2>2. count' \in 0..MaxHits /\ count <= count' /\ hits' \in [Slots -> Nat]
    <3>1. CASE count = MaxHits  BY <1>2, <3>1 DEF Record, Recording, Enqueue, CountLoss, ring, TypeOK
    <3>2. CASE count # MaxHits
      <4>1. count' = count + 1 /\ hits' = [hits EXCEPT ![Slot(count)] = clock + 1]
        BY <1>2, <3>2 DEF Record, Recording, Enqueue, CountLoss
      <4>2. count + 1 \in 0..MaxHits /\ count <= count + 1
        BY <3>2, MaxHitsAssumption DEF TypeOK
      <4>3. clock + 1 \in Nat  BY DEF TypeOK
      <4>4. hits' \in [Slots -> Nat]  BY <4>1, <4>3 DEF TypeOK
      <4> QED BY <4>1, <4>2, <4>4
    <3> QED BY <3>1, <3>2
  <2>3. dropped' \in 0..MaxDropped
    BY <1>2, CounterRange DEF Record, Recording, Enqueue, CountLoss, TypeOK
  <2>4. TypeOK'  BY <2>1, <2>2, <2>3 DEF TypeOK, reading
  <2>5. ReadInv'
    <3>1. \A k \in 0..count : Front(k)' = Front(k)  BY <1>2, RecordKeepsFront
    <3>2. \A r \in Readers : pc[r] \in {"validate", "snap", "copy", "report", "commit"} =>
            Front(n[r])' = Front(n[r])
      BY <3>1, <2>1 DEF ReadInv, Holds, TypeOK, reading
    <3>3. \A r \in Readers : Front(n[r])' = [i \in 1..n[r] |-> hits[Slot(i - 1)]]'
      BY DEF Front
    <3> QED BY <3>2, <2>1, <2>2 DEF ReadInv, Holds, TypeOK, reading
  <2> QED BY <2>4, <2>5
<1> QED BY <1>1, <1>2 DEF Callback

\* A reader's steps up to the commit leave the ring and the counters alone, and
\* whatever it did to its own fields, no other reader's fields changed.
LEMMA ReaderFrame ==
  ASSUME NEW r \in Readers, Read(r), ~Commit(r), TypeOK
  PROVE  /\ UNCHANGED <<hits, head, count, counters, cb, clock, traps, received>>
         /\ \A k : Front(k)' = Front(k)
         /\ \A q \in Readers \ {r} :
              pc'[q] = pc[q] /\ n'[q] = n[q] /\ snapshot'[q] = snapshot[q]
              /\ buffer'[q] = buffer[q]
<1>1. UNCHANGED <<hits, head, count, counters, cb, clock, traps, received>>
  BY DEF Read, InsideRead, Call, Interrupted, Lock, Size, Validate, Snap, CopyHits,
         CopyHitsFaults, ReportCount, Fail, Unlock, untouched
<1>2. \A q \in Readers \ {r} : pc'[q] = pc[q]
  BY DEF Read, InsideRead, Call, Interrupted, Lock, Size, Validate, Snap, CopyHits,
         CopyHitsFaults, ReportCount, Fail, Unlock, Goto, TypeOK
<1>3. \A q \in Readers \ {r} : n'[q] = n[q]
  BY DEF Read, InsideRead, Call, Interrupted, Lock, Size, Validate, Snap, CopyHits,
         CopyHitsFaults, ReportCount, Fail, Unlock, TypeOK
<1>4. \A q \in Readers \ {r} : snapshot'[q] = snapshot[q] /\ buffer'[q] = buffer[q]
  BY DEF Read, InsideRead, Call, Interrupted, Lock, Size, Validate, Snap, CopyHits,
         CopyHitsFaults, ReportCount, Fail, Unlock, TypeOK
<1>5. \A k : Front(k)' = Front(k)  BY <1>1 DEF Front, Slot
<1> QED BY <1>1, <1>2, <1>3, <1>4, <1>5

\* Types are kept by the reader's steps before the commit.
LEMMA ReaderType ==
  ASSUME IInv, NEW r \in Readers, Read(r), ~Commit(r)
  PROVE  TypeOK'
<1> USE DEF IInv
<1>1. UNCHANGED <<hits, head, count, counters, cb, clock, traps, received>>
  BY ReaderFrame
<1>2. mutex' \in Readers \cup {None}
  BY DEF Read, InsideRead, Call, Interrupted, Lock, Size, Validate, Snap, CopyHits,
         CopyHitsFaults, ReportCount, Fail, Unlock, TypeOK
<1>3. \E next \in ReaderStates : pc' = [pc EXCEPT ![r] = next]
  BY DEF Read, InsideRead, Call, Interrupted, Lock, Size, Validate, Snap, CopyHits,
         CopyHitsFaults, ReportCount, Fail, Unlock, Goto, ReaderStates
<1>4. pc' \in [Readers -> ReaderStates]  BY <1>3 DEF TypeOK
<1>5. n' \in [Readers -> 0..MaxHits]
  <2>1. CASE Size(r)
    <3>1. PICK capacity \in 0..(MaxHits + 1) :
            n' = [n EXCEPT ![r] = IF capacity < count THEN capacity ELSE count]
      BY <2>1 DEF Size
    <3>2. (IF capacity < count THEN capacity ELSE count) \in 0..MaxHits
      BY MaxHitsAssumption DEF TypeOK
    <3> QED BY <3>1, <3>2 DEF TypeOK
  <2>2. CASE Unlock(r)  BY <2>2, MaxHitsAssumption DEF Unlock, TypeOK
  <2>3. CASE ~Size(r) /\ ~Unlock(r)
    BY <2>3 DEF Read, InsideRead, Call, Interrupted, Lock, Validate, Snap, CopyHits,
           CopyHitsFaults, ReportCount, Fail, TypeOK
  <2> QED BY <2>1, <2>2, <2>3
<1>6. snapshot' \in [Readers -> Seq(Nat)]
  <2>1. CASE Snap(r)
    <3>1. n[r] \in Nat  BY DEF TypeOK
    <3>2. snapshot' = [snapshot EXCEPT ![r] = Front(n[r])]
      BY <2>1 DEF Snap, Front
    <3>3. Front(n[r]) \in Seq(Nat)  BY <3>1, FrontType DEF TypeOK
    <3> QED BY <3>2, <3>3 DEF TypeOK
  <2>2. CASE Unlock(r)  BY <2>2, EmptySeq DEF Unlock, TypeOK
  <2>3. CASE ~Snap(r) /\ ~Unlock(r)
    BY <2>3 DEF Read, InsideRead, Call, Interrupted, Lock, Size, Validate, CopyHits,
           CopyHitsFaults, ReportCount, Fail, TypeOK
  <2> QED BY <2>1, <2>2, <2>3
<1>7. buffer' \in [Readers -> Seq(Nat)]
  <2>1. CASE CopyHitsFaults(r)
    <3>1. PICK k \in 0..(n[r] - 1) :
            buffer' = [buffer EXCEPT ![r] = SubSeq(snapshot[r], 1, k)]
      BY <2>1 DEF CopyHitsFaults
    <3>2. n[r] \in Nat  BY DEF TypeOK
    <3>3. snapshot[r] \in Seq(Nat) /\ Len(snapshot[r]) = n[r]
      BY <2>1, <3>2, FrontType DEF CopyHitsFaults, ReadInv, Holds, TypeOK
    <3>4. \A i \in 1..k : i \in 1..Len(snapshot[r])  BY <3>2, <3>3
    <3>5. \A i \in 1..k : snapshot[r][i] \in Nat  BY <3>3, <3>4, ElementOfSeq
    <3>6. SubSeq(snapshot[r], 1, k) \in Seq(Nat)  BY <3>2, <3>5, SubSeqProperties
    <3> QED BY <3>1, <3>6 DEF TypeOK
  <2>2. CASE Call(r)  BY <2>2, EmptySeq DEF Call, TypeOK
  <2>3. CASE CopyHits(r)  BY <2>3 DEF CopyHits, TypeOK
  <2>4. CASE ~CopyHitsFaults(r) /\ ~Call(r) /\ ~CopyHits(r)
    BY <2>4 DEF Read, InsideRead, Interrupted, Lock, Size, Validate, Snap,
           ReportCount, Fail, Unlock, TypeOK
  <2> QED BY <2>1, <2>2, <2>3, <2>4
<1> QED BY <1>1, <1>2, <1>4, <1>5, <1>6, <1>7 DEF TypeOK, counters

\* What a reader relies on is kept by its own steps and by those of the others,
\* because only the owner of the mutex is inside.
LEMMA ReaderReadInv ==
  ASSUME IInv, NEW r \in Readers, Read(r), ~Commit(r)
  PROVE  ReadInv'
<1> USE DEF IInv
<1>0. count \in Nat /\ \A q \in Readers : n[q] \in Nat
  BY DEF TypeOK
<1>1. \A q \in Readers : Holds(q)  BY DEF ReadInv
<1>2. UNCHANGED count /\ \A k : Front(k)' = Front(k)
  BY ReaderFrame
<1>3. \/ mutex' = mutex
      \/ mutex = None /\ Lock(r)
      \/ Unlock(r) /\ mutex = r
  BY <1>1 DEF Read, InsideRead, Call, Interrupted, Lock, Size, Validate, Snap, CopyHits,
              CopyHitsFaults, ReportCount, Fail, Unlock, Holds, Inside, ReaderStates
<1>4. ASSUME NEW q \in Readers \ {r}  PROVE Holds(q)'
  <2>1. pc'[q] = pc[q] /\ n'[q] = n[q] /\ snapshot'[q] = snapshot[q]
        /\ buffer'[q] = buffer[q]
    BY ReaderFrame
  <2>2. pc[q] \in Inside => mutex = q  BY <1>1 DEF Holds
  <2>3. pc[q] \in Inside => mutex' = mutex
    BY <1>3, <2>2, NoneAssumption
  <2>4. Front(n[q])' = Front(n[q]) /\ Front(n'[q]) = Front(n[q])
    BY <1>2, <2>1 DEF Front, Slot
  <2> QED BY <1>1, <1>2, <2>1, <2>3, <2>4 DEF Holds
<1>5. Holds(r)'
  <2>0. pc \in [Readers -> ReaderStates]  BY DEF TypeOK
  <2>1. CASE Call(r) \/ Interrupted(r) \/ Fail(r) \/ Unlock(r) \/ CopyHitsFaults(r)
    <3>1. pc'[r] \in {"idle", "wait"} \/ (pc'[r] = "unlock" /\ pc[r] \in Inside /\ mutex' = mutex)
      BY <2>1, <2>0 DEF Call, Interrupted, Fail, Unlock, CopyHitsFaults, Goto, Inside, ReaderStates
    <3> QED BY <3>1, <1>1 DEF Holds, Inside
  <2>2. CASE Lock(r)
    BY <2>2, <2>0 DEF Lock, Goto, Holds
  <2>3. CASE Size(r)
    <3>1. PICK capacity \in 0..(MaxHits + 1) :
            LET take == IF capacity < count THEN capacity ELSE count IN
            /\ n' = [n EXCEPT ![r] = take]
            /\ pc' = [pc EXCEPT ![r] = IF take = 0 THEN "report" ELSE "validate"]
      BY <2>3 DEF Size, Goto
    <3>2. n'[r] = IF capacity < count THEN capacity ELSE count  BY <3>1 DEF TypeOK
    <3>3. pc'[r] = IF n'[r] = 0 THEN "report" ELSE "validate"  BY <3>1, <3>2, <2>0
    <3>4. n'[r] \in Nat /\ n'[r] <= count  BY <3>2, <1>0, MaxHitsAssumption
    <3>5. mutex' = mutex /\ pc[r] \in Inside  BY <2>3 DEF Size, Inside, ReaderStates
    <3> QED BY <3>3, <3>4, <3>5, <1>1, <1>2 DEF Holds
  <2>4. CASE Validate(r)
    BY <2>4, <2>0, <1>1, <1>2 DEF Validate, Goto, Holds, Inside, ReaderStates
  <2>5. CASE Snap(r)
    <3>1. snapshot' = [snapshot EXCEPT ![r] = Front(n[r])]  BY <2>5 DEF Snap, Front
    <3>2. snapshot'[r] = Front(n[r]) /\ n' = n  BY <3>1, <2>5 DEF TypeOK, Snap
    <3>3. Front(n[r])' = Front(n[r])  BY <1>2, <3>2 DEF Front, Slot
    <3>4. pc'[r] = "copy" /\ pc[r] = "snap" /\ mutex' = mutex  BY <2>5, <2>0 DEF Snap, Goto
    <3> QED BY <3>2, <3>3, <3>4, <1>1, <1>2 DEF Holds, Inside, ReaderStates
  <2>6. CASE CopyHits(r)
    <3>1. buffer'[r] = snapshot[r] /\ n' = n /\ snapshot' = snapshot
      BY <2>6 DEF CopyHits, TypeOK
    <3>2. Front(n[r])' = Front(n[r])
      BY <3>1, ReaderFrame DEF Front, Slot
    <3>3. pc'[r] = "report" /\ pc[r] = "copy" /\ mutex' = mutex
      BY <2>6, <2>0 DEF CopyHits, Goto
    <3> QED BY <3>1, <3>2, <3>3, <1>1, <1>2 DEF Holds, Inside, ReaderStates
  <2>7. CASE ReportCount(r)
    <3>1. n' = n /\ snapshot' = snapshot /\ buffer' = buffer /\ mutex' = mutex
      BY <2>7 DEF ReportCount
    <3>2. Front(n[r])' = Front(n[r])
      BY <3>1, ReaderFrame DEF Front, Slot
    <3>3. pc'[r] = "commit" /\ pc[r] = "report"  BY <2>7, <2>0 DEF ReportCount, Goto
    <3> QED BY <3>1, <3>2, <3>3, <1>1, <1>2 DEF Holds, Inside, ReaderStates
  <2> QED BY <2>1, <2>2, <2>3, <2>4, <2>5, <2>6, <2>7 DEF Read, InsideRead
<1> QED BY <1>4, <1>5 DEF ReadInv

\* At the commit the reader's buffer is the front of the queue, whole.
LEMMA CommitBuffer ==
  ASSUME IInv, NEW r \in Readers, Commit(r)
  PROVE  /\ n[r] \in 0..count
         /\ SubSeq(buffer[r], 1, n[r]) = Front(n[r])
         /\ Front(n[r]) \in Seq(Nat)
<1> USE DEF IInv
<1>1. pc[r] = "commit" /\ Holds(r)  BY DEF Commit, Committing, EraseFront, ReadInv
<1>2. n[r] \in 0..count  BY <1>1 DEF Holds, TypeOK
<1>3. Front(n[r]) \in Seq(Nat) /\ Len(Front(n[r])) = n[r]
  BY <1>2, FrontType DEF TypeOK
<1>4. CASE n[r] > 0
  <2>1. buffer[r] = Front(n[r])  BY <1>1, <1>4 DEF Holds
  <2>2. SubSeq(Front(n[r]), 1, Len(Front(n[r]))) = Front(n[r])  BY <1>3, SubSeqFull
  <2> QED BY <1>2, <1>3, <2>1, <2>2
<1>5. CASE n[r] = 0
  <2>1. SubSeq(buffer[r], 1, 0) = <<>>  BY SubSeqEmpty
  <2>2. Front(0) = <<>>
    <3>1. Front(0) \in Seq(Nat) /\ Len(Front(0)) = 0  BY FrontType DEF TypeOK
    <3> QED BY <3>1, EmptySeq
  <2> QED BY <1>2, <1>3, <1>5, <2>1, <2>2
<1> QED BY <1>2, <1>4, <1>5

\* Consuming the records keeps the invariant: nobody else is inside.
LEMMA CommitInv ==
  ASSUME IInv, NEW r \in Readers, Commit(r)
  PROVE  IInv'
<1> USE DEF IInv
<1>1. n[r] \in 0..count /\ count \in 0..MaxHits /\ MaxHits \in Nat
  BY CommitBuffer, MaxHitsAssumption DEF TypeOK
<1>2. head' \in Slots /\ count' \in 0..MaxHits
  <2>1. Slot(n[r]) \in Slots  BY <1>1, SlotType DEF TypeOK
  <2> QED BY <2>1, <1>1 DEF Commit, Committing, EraseFront
<1>3. hits' \in [Slots -> Nat]
  BY DEF Commit, Committing, EraseFront, TypeOK, Zeroed
<1>4. received' \in Seq(Nat)
  <2>1. SubSeq(buffer[r], 1, n[r]) \in Seq(Nat)  BY CommitBuffer
  <2> QED BY <2>1, ConcatProperties DEF Commit, Committing, EraseFront, TypeOK
<1>5. pc' = [pc EXCEPT ![r] = "unlock"]
      /\ UNCHANGED <<mutex, n, snapshot, buffer, counters, cb, clock, traps>>
  BY DEF Commit, Committing, EraseFront, Goto
<1>6. TypeOK'
  BY <1>2, <1>3, <1>4, <1>5 DEF TypeOK, counters, ReaderStates
<1>7. ASSUME NEW q \in Readers  PROVE Holds(q)'
  <2>1. mutex = r  BY DEF Commit, Committing, EraseFront, ReadInv, Holds, Inside, ReaderStates
  <2>2. CASE q = r
    <3>1. pc'[r] = "unlock"  BY <1>5 DEF TypeOK
    <3> QED BY <2>1, <2>2, <3>1, <1>5 DEF Holds
  <2>3. CASE q # r
    <3>1. pc'[q] = pc[q] /\ pc[q] \notin Inside
      BY <1>5, <2>1, <2>3 DEF TypeOK, ReadInv, Holds
    <3> QED BY <3>1 DEF Holds, Inside, ReaderStates
  <2> QED BY <2>2, <2>3
<1> QED BY <1>6, <1>7 DEF ReadInv

\* IInv is inductive.
LEMMA StepInv == IInv /\ [Next]_vars => IInv'
<1> SUFFICES ASSUME IInv, [Next]_vars PROVE IInv'
  OBVIOUS
<1>1. ASSUME NEW c \in CPUs, Callback(c) PROVE IInv'  BY <1>1, CallbackInv
<1>2. ASSUME NEW r \in Readers, Read(r) PROVE IInv'
  <2>1. CASE Commit(r)  BY <2>1, CommitInv
  <2>2. CASE ~Commit(r)  BY <1>2, <2>2, ReaderType, ReaderReadInv DEF IInv
  <2> QED BY <2>1, <2>2
<1>3. CASE UNCHANGED vars
  BY <1>3 DEF vars, ring, counters, reading, IInv, TypeOK, ReadInv, Holds, Front, Slot
<1> QED BY <1>1, <1>2, <1>3 DEF Next

\* The inductive invariant holds of every behaviour.
THEOREM Invariant == Spec => []IInv
BY InitInv, StepInv, PTL DEF Spec

\* The ring's indices, the counters and the queues stay in their ranges, whatever the
\* interleaving of exceptions and reads.
THEOREM TypeCorrect == Spec => []TypeOK
<1>1. IInv => TypeOK  BY DEF IInv
<1> QED BY <1>1, Invariant, PTL

\* From the snapshot to the commit the reader's copy is the front of the queue: no
\* producer overwrites what a reader is copying to user memory, and no second reader
\* drains it.
THEOREM SnapshotStaysFront == Spec => []SnapshotIsFront
<1>1. IInv => SnapshotIsFront
  <2> SUFFICES ASSUME IInv, NEW r \in Readers, pc[r] \in {"copy", "report", "commit"}
               PROVE  n[r] <= count /\ (n[r] > 0 => snapshot[r] = SubSeq(Pending, 1, n[r]))
    BY DEF SnapshotIsFront
  <2> USE DEF IInv
  <2>1. Holds(r) /\ n[r] \in Nat /\ count \in Nat  BY DEF ReadInv, TypeOK
  <2>2. n[r] <= count  BY <2>1 DEF Holds
  <2>3. ASSUME n[r] > 0  PROVE snapshot[r] = SubSeq(Pending, 1, n[r])
    <3>1. snapshot[r] = Front(n[r])  BY <2>1, <2>3 DEF Holds
    <3>2. Pending = Front(count)  BY DEF Pending, Front
    <3>3. hits \in [Slots -> Nat] /\ head \in Slots  BY DEF TypeOK
    <3>4. n[r] \in 0..count  BY <2>1, <2>2
    <3>5. SubSeq(Front(count), 1, n[r]) = Front(n[r])  BY <3>3, <3>4, <2>1, FrontPrefix
    <3> QED BY <3>1, <3>2, <3>5
  <2> QED BY <2>2, <2>3
<1> QED BY <1>1, Invariant, PTL

-----------------------------------------------------------------------------
(* Refinement of the abstract queue *)

\* The queue is the front of all its count positions.
LEMMA PendingIsFront == Pending = Front(count)
BY DEF Pending, Front

\* Consuming n records leaves the rest of the queue as it was.
LEMMA CommitPending ==
  ASSUME IInv, NEW r \in Readers, Commit(r)
  PROVE  Pending' = SubSeq(Pending, n[r] + 1, Len(Pending))
<1> USE DEF IInv
<1> DEFINE k == n[r]
<1>1. k \in 0..count /\ count \in 0..MaxHits /\ MaxHits \in Nat \ {0} /\ head \in Slots
  BY CommitBuffer, MaxHitsAssumption DEF TypeOK
<1>2. Pending \in Seq(Nat) /\ Len(Pending) = count
  BY <1>1, PendingIsFront, FrontType DEF TypeOK
<1>3. IInv'  BY CommitInv
<1>4. count' = count - k /\ head' = Slot(k)  BY DEF Commit, Committing, EraseFront
<1>5. Pending' \in Seq(Nat) /\ Len(Pending') = count - k
  <2>1. \A i \in 1..count' : hits'[(head' + (i - 1)) % MaxHits] \in Nat
    <3>1. hits' \in [Slots -> Nat] /\ head' \in Slots  BY <1>3 DEF TypeOK
    <3> SUFFICES ASSUME NEW i \in 1..count'
                 PROVE  hits'[(head' + (i - 1)) % MaxHits] \in Nat
      OBVIOUS
    <3>2. head' + (i - 1) \in Nat  BY <3>1, <1>1, <1>4 DEF Slots
    <3> QED BY <3>1, <3>2, <1>1, ModRange DEF Slots
  <2>2. Pending' \in [1..count' -> Nat]  BY <2>1 DEF Pending, Slot
  <2>3. count' \in Nat  BY <1>1, <1>4
  <2>4. Pending' \in Seq(Nat)  BY <2>2, <2>3, SeqDef
  <2>5. DOMAIN Pending' = 1..count'  BY DEF Pending
  <2> QED BY <2>3, <2>4, <2>5, <1>4, LenProperties
<1>6. \A i \in (k + 1)..count : Pending[i] \in Nat
  <2>1. \A i \in (k + 1)..count : i \in 1..Len(Pending)  BY <1>1, <1>2
  <2> QED BY <2>1, <1>2, ElementOfSeq
<1>7. /\ SubSeq(Pending, k + 1, count) \in Seq(Nat)
      /\ Len(SubSeq(Pending, k + 1, count)) = count - k
      /\ \A i \in 1..(count - k) : SubSeq(Pending, k + 1, count)[i] = Pending[k + i]
  <2>1. k + 1 \in Int /\ count \in Int /\ count - (k + 1) + 1 = count - k
        /\ \A i \in Int : (k + 1) + i - 1 = k + i
    BY <1>1
  <2>2. /\ SubSeq(Pending, k + 1, count) \in Seq(Nat)
        /\ Len(SubSeq(Pending, k + 1, count))
             = IF k + 1 <= count THEN count - (k + 1) + 1 ELSE 0
        /\ \A i \in 1..(count - (k + 1) + 1) :
             SubSeq(Pending, k + 1, count)[i] = Pending[(k + 1) + i - 1]
    BY <2>1, <1>6, SubSeqProperties
  <2> QED BY <2>1, <2>2, <1>1
<1>8. \A i \in 1..(count - k) : Pending'[i] = Pending[k + i]
  <2> SUFFICES ASSUME NEW i \in 1..(count - k) PROVE Pending'[i] = Pending[k + i]
    OBVIOUS
  <2>1. Pending'[i] = hits'[(head' + (i - 1)) % MaxHits]  BY <1>4 DEF Pending, Slot
  <2>2. k + i \in 1..count /\ k + i - 1 = k + (i - 1) /\ i - 1 \in Nat
        /\ k + (i - 1) \in 0..(MaxHits - 1)
    BY <1>1
  <2>3. Pending[k + i] = hits[Slot(k + (i - 1))]
    <3>1. \A j \in 1..count : Pending[j] = hits[Slot(j - 1)]  BY DEF Pending
    <3>2. Pending[k + i] = hits[Slot((k + i) - 1)]  BY <3>1, <2>2
    <3>3. (k + i) - 1 = k + (i - 1)  BY <1>1
    <3> QED BY <3>2, <3>3, Zenon
  <2>4. (head' + (i - 1)) % MaxHits = Slot(k + (i - 1))
    <3>1. (((head + k) % MaxHits) + (i - 1)) % MaxHits = (head + k + (i - 1)) % MaxHits
      <4>1. k \in 0..MaxHits /\ k + (i - 1) < MaxHits  BY <1>1, <2>2
      <4>2. head \in 0..(MaxHits - 1)  BY <1>1 DEF Slots
      <4> QED BY <4>1, <4>2, <1>1, <2>2, ModShift
    <3>2. head + k + (i - 1) = head + (k + (i - 1))  BY <1>1 DEF Slots
    <3> QED BY <3>1, <3>2, <1>4 DEF Slot
  <2>5. Slot(k + (i - 1)) \notin {Slot(j) : j \in 0..(k - 1)}
    <3> SUFFICES ASSUME NEW j \in 0..(k - 1), Slot(k + (i - 1)) = Slot(j) PROVE FALSE
      OBVIOUS
    <3>1. j \in 0..(MaxHits - 1) /\ j # k + (i - 1)  BY <1>1, <2>2
    <3> QED BY <3>1, <2>2, <1>1, ModInjective DEF Slot, Slots
  <2>6. Slot(k + (i - 1)) \in Slots  BY <2>2, <1>1, SlotType
  <2>7. hits'[Slot(k + (i - 1))] = hits[Slot(k + (i - 1))]
    BY <2>5, <2>6 DEF Commit, Committing, EraseFront
  <2> QED BY <2>1, <2>3, <2>4, <2>7
<1> QED BY <1>2, <1>5, <1>7, <1>8, SeqEqual

\* A recorded hit is appended to the queue.
LEMMA RecordPending ==
  ASSUME IInv, NEW c \in CPUs, Record(c), count # MaxHits
  PROVE  Pending' = Append(Pending, clock')
<1> USE DEF IInv
<1>1. count \in 0..(MaxHits - 1) /\ MaxHits \in Nat \ {0} /\ head \in Slots
  BY MaxHitsAssumption DEF TypeOK
<1>2. head' = head /\ count' = count + 1 /\ clock' = clock + 1
      /\ hits' = [hits EXCEPT ![Slot(count)] = clock']
  BY DEF Record, Recording, Enqueue, CountLoss
<1>3. Pending \in Seq(Nat) /\ Len(Pending) = count
  BY <1>1, PendingIsFront, FrontType DEF TypeOK
<1>4. clock' \in Nat  BY <1>2 DEF TypeOK
<1>5. \A i \in 1..count : hits'[Slot(i - 1)] = Pending[i]
  <2> SUFFICES ASSUME NEW i \in 1..count PROVE hits'[Slot(i - 1)] = Pending[i]
    OBVIOUS
  <2>3. i - 1 \in 0..(MaxHits - 1) /\ i - 1 # count  BY <1>1
  <2>4. Slot(i - 1) # Slot(count)  BY <2>3, <1>1, ModInjective DEF Slot, Slots
  <2>5. Slot(i - 1) \in Slots  BY <2>3, <1>1, SlotType
  <2> QED BY <2>4, <2>5, <1>2 DEF Pending, TypeOK
<1>6. hits'[Slot(count)] = clock'
  <2>1. Slot(count) \in Slots  BY <1>1, SlotType
  <2> QED BY <2>1, <1>2 DEF TypeOK
<1>7. Pending' = [i \in 1..(count + 1) |-> hits'[Slot(i - 1)]]
  BY <1>2 DEF Pending, Slot
<1>8. \A i \in 1..(count + 1) :
        hits'[Slot(i - 1)] = IF i <= count THEN Pending[i] ELSE clock'
  <2> SUFFICES ASSUME NEW i \in 1..(count + 1)
               PROVE  hits'[Slot(i - 1)] = IF i <= count THEN Pending[i] ELSE clock'
    OBVIOUS
  <2>1. CASE i <= count  BY <2>1, <1>5, <1>1
  <2>2. CASE ~(i <= count)
    <3>1. i - 1 = count  BY <2>2, <1>1
    <3> QED BY <3>1, <2>2, <1>6
  <2> QED BY <2>1, <2>2
<1>9. /\ Append(Pending, clock') \in Seq(Nat)
      /\ Len(Append(Pending, clock')) = count + 1
      /\ \A i \in 1..count : Append(Pending, clock')[i] = Pending[i]
      /\ Append(Pending, clock')[count + 1] = clock'
  BY <1>3, <1>4, AppendProperties
<1>10. \A i \in 1..(count + 1) : hits'[Slot(i - 1)] \in Nat
  <2> SUFFICES ASSUME NEW i \in 1..(count + 1) PROVE hits'[Slot(i - 1)] \in Nat
    OBVIOUS
  <2>1. \A j \in 1..count : Pending[j] \in Nat  BY <1>3, ElementOfSeq
  <2>2. CASE i <= count  BY <2>1, <2>2, <1>8, <1>1
  <2>3. CASE ~(i <= count)  BY <2>3, <1>8, <1>4
  <2> QED BY <2>2, <2>3
<1>11. Pending' \in Seq(Nat) /\ Len(Pending') = count + 1
  <2>1. Pending' \in [1..(count + 1) -> Nat]  BY <1>7, <1>10
  <2>2. count + 1 \in Nat  BY <1>1
  <2>3. Pending' \in Seq(Nat)  BY <2>1, <2>2, SeqDef
  <2> QED BY <2>1, <2>2, <2>3, LenProperties
<1>12. \A i \in 1..(count + 1) : Pending'[i] = Append(Pending, clock')[i]
  <2> SUFFICES ASSUME NEW i \in 1..(count + 1)
               PROVE  Pending'[i] = Append(Pending, clock')[i]
    OBVIOUS
  <2>1. Pending'[i] = IF i <= count THEN Pending[i] ELSE clock'  BY <1>7, <1>8
  <2>2. i \in 1..count \/ i = count + 1  BY <1>1
  <2> QED BY <2>1, <2>2, <1>9, <1>1
<1> QED BY <1>9, <1>11, <1>12, SeqEqual

\* Initially the ring is the empty queue.
LEMMA InitRefines == Init => Abstract!Init
<1> SUFFICES ASSUME Init PROVE Abstract!Init
  OBVIOUS
<1>1. hits \in [Slots -> Nat] /\ head \in Slots /\ count = 0
  BY MaxHitsAssumption DEF Init, Slots, Zeroed
<1>2. Pending \in Seq(Nat) /\ Len(Pending) = 0
  BY <1>1, PendingIsFront, FrontType
<1>3. Pending = <<>>  BY <1>2, EmptySeq
<1> QED BY <1>3 DEF Abstract!Init, Init

\* Every step of the code is a step of the abstract queue, or none at all: a record is
\* Accept or Lose, a commit of n > 0 records is Deliver(n), everything else stutters.
LEMMA StepRefines == IInv /\ [Next]_vars => [Abstract!Next]_(Abstract!vars)
<1> SUFFICES ASSUME IInv, [Next]_vars PROVE [Abstract!Next]_(Abstract!vars)
  OBVIOUS
<1> DEFINE same == UNCHANGED <<clock, hits, head, count, dropped, received>>
<1>1. count \in Nat /\ Len(Pending) = count /\ Pending \in Seq(Nat)
  BY PendingIsFront, FrontType DEF IInv, TypeOK
<1>2. ASSUME same PROVE UNCHANGED Abstract!vars
  BY <1>2 DEF Abstract!vars, Pending, Slot
<1>3. ASSUME NEW c \in CPUs, Callback(c) PROVE [Abstract!Next]_(Abstract!vars)
  <2>1. CASE ~Record(c)
    <3>1. same  BY <1>3, <2>1 DEF Callback, Trap, CallbackError, CheckIdentity, ring, counters
    <3> QED BY <3>1, <1>2
  <2>2. CASE Record(c) /\ count = MaxHits
    <3>1. UNCHANGED <<hits, head, count, received>>  BY <2>2 DEF Record, Recording, Enqueue, CountLoss, ring
    <3>2. Pending' = Pending  BY <3>1 DEF Pending, Slot
    <3>3. Abstract!Lose  BY <2>2, <3>1, <3>2, <1>1 DEF Record, Recording, Enqueue, CountLoss, Abstract!Lose
    <3> QED BY <3>3 DEF Abstract!Next
  <2>3. CASE Record(c) /\ count # MaxHits
    <3>1. Pending' = Append(Pending, clock')  BY <2>3, RecordPending
    <3>2. clock' = clock + 1 /\ UNCHANGED <<dropped, received>>  BY <2>3 DEF Record, Recording, Enqueue, CountLoss
    <3>3. Len(Pending) < MaxHits  BY <2>3, <1>1, MaxHitsAssumption DEF IInv, TypeOK
    <3>4. Abstract!Accept  BY <3>1, <3>2, <3>3 DEF Abstract!Accept
    <3> QED BY <3>4 DEF Abstract!Next
  <2> QED BY <2>1, <2>2, <2>3
<1>4. ASSUME NEW r \in Readers, Read(r) PROVE [Abstract!Next]_(Abstract!vars)
  <2>1. CASE ~Commit(r)
    <3>1. same  BY <1>4, <2>1, ReaderFrame DEF IInv, counters
    <3> QED BY <3>1, <1>2
  <2>2. CASE Commit(r) /\ n[r] = 0
    <3>1. Pending' = SubSeq(Pending, 1, Len(Pending))  BY <2>2, CommitPending
    <3>2. Pending' = Pending  BY <3>1, <1>1, SubSeqFull
    <3>3. received' = received
      <4>1. received' = received \o SubSeq(buffer[r], 1, 0)  BY <2>2 DEF Commit, Committing, EraseFront
      <4>2. SubSeq(buffer[r], 1, 0) = <<>>  BY SubSeqEmpty
      <4> QED BY <4>1, <4>2, ConcatEmptySeq DEF IInv, TypeOK
    <3>4. UNCHANGED <<clock, dropped>>  BY <2>2 DEF Commit, Committing, EraseFront, counters
    <3> QED BY <3>2, <3>3, <3>4 DEF Abstract!vars
  <2>3. CASE Commit(r) /\ n[r] # 0
    <3>1. n[r] \in 1..Len(Pending) /\ n[r] \in 0..count
      BY <2>3, <1>1, CommitBuffer
    <3>2. SubSeq(Pending, 1, n[r]) = SubSeq(buffer[r], 1, n[r])
      BY <2>3, <3>1, <1>1, CommitBuffer, FrontPrefix, PendingIsFront DEF IInv, TypeOK
    <3>3. Pending' = SubSeq(Pending, n[r] + 1, Len(Pending))  BY <2>3, CommitPending
    <3>4. received' = received \o SubSeq(Pending, 1, n[r]) /\ UNCHANGED <<clock, dropped>>
      BY <2>3, <3>2 DEF Commit, Committing, EraseFront, counters
    <3>5. Abstract!Deliver(n[r])  BY <3>1, <3>3, <3>4 DEF Abstract!Deliver
    <3> QED BY <3>1, <3>5 DEF Abstract!Next
  <2> QED BY <2>1, <2>2, <2>3
<1>5. CASE UNCHANGED vars
  BY <1>5, <1>2 DEF vars, ring, counters
<1> QED BY <1>3, <1>4, <1>5 DEF Next

\* The descriptor's ring, with reads that fail anywhere and callbacks that overtake
\* them, is the bounded queue of HitQueue, for every ring size and number of threads.
THEOREM RefinesHitQueue == Spec => ImplementsHitQueue
<1>1. Spec => Abstract!Init /\ [][Abstract!Next]_(Abstract!vars)
  BY InitRefines, StepRefines, Invariant, PTL DEF Spec
<1> QED BY <1>1 DEF ImplementsHitQueue, Abstract!Spec

-----------------------------------------------------------------------------
(* Nothing that was read stays in kernel memory *)

\* An opened descriptor's ring is all zero (kzalloc).
LEMMA InitErased == Init => DrainedSlotsAreErased
<1> SUFFICES ASSUME Init, NEW i \in Slots PROVE hits[Slot(i)] = Zeroed /\ ~(i < count)
  BY DEF DrainedSlotsAreErased
<1>1. Slot(i) \in Slots
  BY SlotType, MaxHitsAssumption DEF Init, Slots
<1> QED BY <1>1 DEF Init, Slots

\* A record fills the one slot that joins the queue; a commit erases those that leave.
LEMMA StepErased == IInv /\ DrainedSlotsAreErased /\ [Next]_vars => DrainedSlotsAreErased'
<1> SUFFICES ASSUME IInv, DrainedSlotsAreErased, [Next]_vars PROVE DrainedSlotsAreErased'
  OBVIOUS
<1>0. /\ MaxHits \in Nat \ {0} /\ head \in Slots /\ count \in 0..MaxHits
      /\ Slots = 0..(MaxHits - 1) /\ hits \in [Slots -> Nat]
  BY MaxHitsAssumption DEF IInv, TypeOK, Slots
<1>1. ASSUME UNCHANGED <<hits, head, count>>  PROVE DrainedSlotsAreErased'
  BY <1>1 DEF DrainedSlotsAreErased, Slot
<1>2. ASSUME NEW c \in CPUs, Callback(c)  PROVE DrainedSlotsAreErased'
  <2>1. CASE ~Record(c) \/ count = MaxHits
    <3>1. UNCHANGED <<hits, head, count>>
      BY <1>2, <2>1 DEF Callback, Trap, CallbackError, CheckIdentity, Record, Recording, Enqueue, CountLoss, ring
    <3> QED BY <3>1, <1>1
  <2>2. CASE Record(c) /\ count # MaxHits
    <3>1. head' = head /\ count' = count + 1 /\ count \in Slots
          /\ hits' = [hits EXCEPT ![Slot(count)] = clock + 1] /\ clock + 1 # Zeroed
      BY <2>2, <1>0 DEF Record, Recording, Enqueue, CountLoss, IInv, TypeOK, Zeroed
    <3> SUFFICES ASSUME NEW i \in Slots
                 PROVE  (hits'[Slot(i)] # Zeroed) <=> (i < count + 1)
      BY <3>1 DEF DrainedSlotsAreErased, Slot
    <3>2. Slot(i) \in Slots /\ Slot(count) \in Slots
      <4>1. i \in Nat /\ count \in Nat  BY <1>0
      <4> QED BY <4>1, <1>0, SlotType
    <3>3. CASE i = count
      <4>1. hits'[Slot(i)] = clock + 1  BY <3>1, <3>2, <3>3, <1>0
      <4>2. i < count + 1  BY <3>3, <1>0
      <4> QED BY <4>1, <4>2, <3>1
    <3>4. CASE i # count
      <4>1. Slot(i) # Slot(count)
        BY <3>1, <3>4, <1>0, ModInjective DEF Slot
      <4>2. hits'[Slot(i)] = hits[Slot(i)]  BY <4>1, <3>1, <3>2, <1>0
      <4>3. (hits[Slot(i)] # Zeroed) <=> (i < count)  BY DEF DrainedSlotsAreErased
      <4>4. (i < count) <=> (i < count + 1)  BY <3>4, <1>0
      <4> QED BY <4>2, <4>3, <4>4
    <3> QED BY <3>3, <3>4
  <2> QED BY <2>1, <2>2
<1>3. ASSUME NEW r \in Readers, Read(r)  PROVE DrainedSlotsAreErased'
  <2>1. CASE ~Commit(r)
    <3>1. UNCHANGED <<hits, head, count>>  BY <1>3, <2>1, ReaderFrame DEF IInv
    <3> QED BY <3>1, <1>1
  <2>2. CASE Commit(r)
    <3> DEFINE k == n[r]
               erased == {Slot(j) : j \in 0..(k - 1)}
    <3>1. k \in 0..count /\ k \in 0..MaxHits /\ k \in Nat  BY <2>2, <1>0, CommitBuffer
    <3>2. /\ hits' = [s \in Slots |-> IF s \in erased THEN Zeroed ELSE hits[s]]
          /\ head' = (head + k) % MaxHits /\ count' = count - k
      BY <2>2 DEF Commit, Committing, EraseFront, Slot
    <3> HIDE DEF k
    <3> SUFFICES ASSUME NEW i \in Slots
                 PROVE  (hits'[(head' + i) % MaxHits] # Zeroed) <=> (i < count - k)
      BY <3>2 DEF DrainedSlotsAreErased, Slot
    <3>3. CASE k + i < MaxHits
      <4>1. k + i \in Slots /\ i \in Nat  BY <3>3, <3>1, <1>0
      <4>2. (((head + k) % MaxHits) + i) % MaxHits = (head + k + i) % MaxHits
        BY <4>1, <3>1, <3>3, <1>0, ModShift
      <4>3. (head' + i) % MaxHits = Slot(k + i)
        <5>1. (head + k) + i = head + (k + i)  BY <3>1, <1>0
        <5> QED BY <4>2, <3>2, <5>1 DEF Slot
      <4>4. Slot(k + i) \notin erased
        <5> SUFFICES ASSUME NEW j \in 0..(k - 1), Slot(k + i) = Slot(j) PROVE FALSE
          OBVIOUS
        <5>1. j \in 0..(MaxHits - 1) /\ j # k + i  BY <3>1, <1>0
        <5> QED BY <5>1, <4>1, <1>0, ModInjective DEF Slot
      <4>5. Slot(k + i) \in Slots  BY <4>1, <1>0, SlotType
      <4>6. hits'[Slot(k + i)] = hits[Slot(k + i)]  BY <4>4, <4>5, <3>2
      <4>7. (hits[Slot(k + i)] # Zeroed) <=> (k + i < count)
        BY <4>1 DEF DrainedSlotsAreErased
      <4>8. (k + i < count) <=> (i < count - k)  BY <3>1, <4>1, <1>0
      <4> QED BY <4>3, <4>6, <4>7, <4>8
    <3>4. CASE k + i >= MaxHits
      <4>1. k + i - MaxHits \in 0..(k - 1)  BY <3>4, <3>1, <1>0
      <4>2. (((head + k) % MaxHits) + i) % MaxHits = (head + (k + i - MaxHits)) % MaxHits
        BY <3>4, <3>1, <1>0, ModShiftWrap
      <4>3. (head' + i) % MaxHits = Slot(k + i - MaxHits)  BY <4>2, <3>2 DEF Slot
      <4>4. Slot(k + i - MaxHits) \in erased  BY <4>1
      <4>5. Slot(k + i - MaxHits) \in Slots
        <5>1. k + i - MaxHits \in Nat  BY <4>1, <3>1
        <5> QED BY <5>1, <1>0, SlotType
      <4>6. hits'[(head' + i) % MaxHits] = Zeroed  BY <4>3, <4>4, <4>5, <3>2
      <4>7. ~(i < count - k)  BY <3>4, <3>1, <1>0
      <4> QED BY <4>6, <4>7
    <3> QED BY <3>3, <3>4, <3>1, <1>0
  <2> QED BY <2>1, <2>2
<1>4. CASE UNCHANGED vars  BY <1>4, <1>1 DEF vars, ring
<1> QED BY <1>2, <1>3, <1>4 DEF Next

\* A slot of the ring is non-zero exactly while its hit is queued: registers that were
\* read, and only those, are gone from kernel memory.
THEOREM Erased == Spec => []DrainedSlotsAreErased
BY InitErased, StepErased, Invariant, PTL DEF Spec

-----------------------------------------------------------------------------
(* Every hit is accounted for *)

\* Stamps are handed out in order, and a queue or a caller holds only past ones.
Kept == received \o Pending

\* Accounted, with what makes it inductive: no stamp is ahead of the clock.
KeptInv ==
  /\ \A i \in 1..Len(Kept) : Kept[i] <= clock
  /\ Accounted

\* Concatenation of stamp sequences is associative.
LEMMA StampsAssociative ==
  ASSUME NEW s \in Seq(Nat), NEW t \in Seq(Nat), NEW u \in Seq(Nat)
  PROVE  (s \o t) \o u = s \o (t \o u)
  BY ConcatAssociative, SMT

\* What was received and what is queued are sequences of stamps.
LEMMA KeptType ==
  ASSUME IInv
  PROVE  Kept \in Seq(Nat) /\ Len(Kept) \in Nat /\ Pending \in Seq(Nat)
         /\ Len(Pending) = count
<1>1. Pending \in Seq(Nat) /\ Len(Pending) = count
  BY PendingIsFront, FrontType DEF IInv, TypeOK
<1> QED BY <1>1, ConcatProperties, LenProperties DEF Kept, IInv, TypeOK

\* Nothing has been offered, so nothing is missing.
LEMMA InitKept == Init => KeptInv
<1> SUFFICES ASSUME Init PROVE KeptInv
  OBVIOUS
<1>1. Pending = <<>>  BY InitRefines DEF Abstract!Init
<1>2. Kept = <<>>  BY <1>1, EmptySeq, ConcatEmptySeq DEF Init, Kept
<1>3. Len(Kept) = 0  BY <1>2
<1> QED BY <1>2, <1>3 DEF KeptInv, Accounted, Init, Kept

\* Seen from the abstract queue: Accept appends the newest stamp, Lose counts, and
\* Deliver moves a prefix from one sequence to the other.
LEMMA StepKept == IInv /\ KeptInv /\ [Abstract!Next]_(Abstract!vars) => KeptInv'
<1> SUFFICES ASSUME IInv, KeptInv, [Abstract!Next]_(Abstract!vars) PROVE KeptInv'
  OBVIOUS
<1>0. Kept \in Seq(Nat) /\ Len(Kept) \in Nat /\ Pending \in Seq(Nat) /\ Len(Pending) = count
      /\ clock \in Nat /\ dropped \in 0..MaxDropped /\ received \in Seq(Nat)
      /\ Len(received) \in Nat /\ count \in Nat /\ MaxDropped \in Nat
  BY KeptType, LenProperties, CounterAssumption DEF IInv, TypeOK
<1>1. /\ \A i \in 1..Len(Kept) : Kept[i] <= clock
      /\ \A i \in 1..Len(Kept) : \A j \in 1..Len(Kept) : i < j => Kept[i] < Kept[j]
      /\ dropped < MaxDropped => clock = Len(Kept) + dropped
  BY DEF KeptInv, Accounted, Kept
<1>2. ASSUME /\ \A i \in 1..Len(Kept') : Kept'[i] <= clock'
             /\ \A i \in 1..Len(Kept') : \A j \in 1..Len(Kept') :
                  i < j => Kept'[i] < Kept'[j]
             /\ dropped' < MaxDropped => clock' = Len(Kept') + dropped'
      PROVE  KeptInv'
  BY <1>2 DEF KeptInv, Accounted, Kept
<1>3. CASE UNCHANGED Abstract!vars
  <2>1. Kept' = Kept /\ UNCHANGED <<clock, dropped>>  BY <1>3 DEF Abstract!vars, Kept
  <2> QED BY <2>1, <1>1, <1>2
<1>4. CASE Abstract!Accept
  <2>1. clock' = clock + 1 /\ dropped' = dropped /\ received' = received
        /\ Pending' = Append(Pending, clock + 1)
    BY <1>4 DEF Abstract!Accept
  <2>2. /\ Pending' \in Seq(Nat) /\ Len(Pending') = count + 1
        /\ \A i \in 1..count : Pending'[i] = Pending[i]
        /\ Pending'[count + 1] = clock + 1
    <3>1. clock + 1 \in Nat  BY <1>0
    <3> QED BY <3>1, <2>1, <1>0, AppendProperties
  <2>3. /\ Len(Kept) = Len(received) + count
        /\ \A i \in 1..Len(Kept) :
             Kept[i] = IF i <= Len(received) THEN received[i] ELSE Pending[i - Len(received)]
    BY <1>0, ConcatProperties DEF Kept
  <2>4. Kept' = received \o Pending'  BY <2>1 DEF Kept
  <2>5. /\ Len(Kept') = Len(received) + (count + 1)
        /\ \A i \in 1..Len(Kept') :
             Kept'[i] = IF i <= Len(received) THEN received[i] ELSE Pending'[i - Len(received)]
    <3>1. \A t \in Seq(Nat) :
            /\ Len(received \o t) = Len(received) + Len(t)
            /\ \A i \in 1..(Len(received) + Len(t)) :
                 (received \o t)[i] = IF i <= Len(received) THEN received[i]
                                      ELSE t[i - Len(received)]
      BY <1>0, ConcatProperties
    <3> QED BY <3>1, <2>2, <2>4
  <2>6. \A i \in 1..Len(Kept') : Kept'[i] = IF i <= Len(Kept) THEN Kept[i] ELSE clock + 1
    <3> SUFFICES ASSUME NEW i \in 1..Len(Kept')
                 PROVE  Kept'[i] = IF i <= Len(Kept) THEN Kept[i] ELSE clock + 1
      OBVIOUS
    <3>1. CASE i <= Len(received)
      <4>1. i \in 1..Len(Kept)  BY <3>1, <2>3, <1>0
      <4> QED BY <4>1, <3>1, <2>3, <2>5, <1>0
    <3>2. CASE i > Len(received) /\ i <= Len(Kept)
      <4>1. i \in 1..Len(Kept) /\ i - Len(received) \in 1..count  BY <3>2, <2>3, <1>0
      <4> QED BY <4>1, <3>2, <2>2, <2>3, <2>5, <1>0
    <3>3. CASE i > Len(Kept)
      <4>1. i - Len(received) = count + 1 /\ ~(i <= Len(received)) /\ ~(i <= Len(Kept))
        <5>1. i \in 1..(Len(received) + (count + 1)) /\ i > Len(received) + count
          BY <3>3, <2>3, <2>5
        <5>2. \A a, b \in Nat : \A x \in 1..(a + (b + 1)) :
                x > a + b => x - a = b + 1 /\ ~(x <= a) /\ ~(x <= a + b)
          OBVIOUS
        <5>3. i - Len(received) = count + 1 /\ ~(i <= Len(received))
              /\ ~(i <= Len(received) + count)
          BY <5>1, <5>2, <1>0
        <5> QED BY <5>3, <2>3
      <4> QED BY <4>1, <2>2, <2>5
    <3> QED BY <3>1, <3>2, <3>3, <1>0
  <2>7. Len(Kept') = Len(Kept) + 1  BY <2>3, <2>5, <1>0
  <2>8. \A i \in 1..Len(Kept') : Kept'[i] <= clock'
    <3> SUFFICES ASSUME NEW i \in 1..Len(Kept') PROVE Kept'[i] <= clock + 1
      BY <2>1
    <3>1. CASE i <= Len(Kept)
      <4>1. i \in 1..Len(Kept)  BY <3>1, <1>0
      <4>2. Kept[i] \in Nat /\ Kept[i] <= clock  BY <4>1, <1>0, <1>1, ElementOfSeq
      <4> QED BY <4>1, <4>2, <2>6, <1>0
    <3>2. CASE ~(i <= Len(Kept))  BY <3>2, <2>6, <1>0
    <3> QED BY <3>1, <3>2
  <2>9. \A i \in 1..Len(Kept') : \A j \in 1..Len(Kept') : i < j => Kept'[i] < Kept'[j]
    <3> SUFFICES ASSUME NEW i \in 1..Len(Kept'), NEW j \in 1..Len(Kept'), i < j
                 PROVE  Kept'[i] < Kept'[j]
      OBVIOUS
    <3>1. i \in 1..Len(Kept) /\ Kept'[i] = Kept[i] /\ Kept[i] \in Nat
      <4>1. i \in 1..Len(Kept)  BY <2>7, <1>0
      <4> QED BY <4>1, <2>6, <1>0, ElementOfSeq
    <3>2. CASE j <= Len(Kept)
      <4>1. j \in 1..Len(Kept) /\ Kept'[j] = Kept[j]  BY <3>2, <2>6, <1>0
      <4> QED BY <4>1, <3>1, <1>1
    <3>3. CASE ~(j <= Len(Kept))
      <4>1. Kept'[j] = clock + 1  BY <3>3, <2>6
      <4>2. Kept[i] <= clock  BY <3>1, <1>1
      <4> QED BY <4>1, <4>2, <3>1, <1>0
    <3> QED BY <3>2, <3>3
  <2>10. dropped' < MaxDropped => clock' = Len(Kept') + dropped'
    BY <2>1, <2>7, <1>0, <1>1
  <2> QED BY <2>8, <2>9, <2>10, <1>2
<1>5. CASE Abstract!Lose
  <2>1. /\ clock' = clock + 1 /\ Kept' = Kept
        /\ dropped' = IF dropped = MaxDropped THEN dropped ELSE dropped + 1
    BY <1>5 DEF Abstract!Lose, Kept
  <2>2. \A i \in 1..Len(Kept) : Kept[i] <= clock + 1
    <3>1. \A i \in 1..Len(Kept) : Kept[i] \in Nat  BY <1>0, ElementOfSeq
    <3> QED BY <3>1, <1>0, <1>1
  <2>3. dropped' < MaxDropped => clock' = Len(Kept') + dropped'  BY <2>1, <1>0, <1>1
  <2> QED BY <2>1, <2>2, <2>3, <1>1, <1>2
<1>6. ASSUME NEW k \in 1..Len(Pending), Abstract!Deliver(k) PROVE KeptInv'
  <2>1. /\ received' = received \o SubSeq(Pending, 1, k)
        /\ Pending' = SubSeq(Pending, k + 1, Len(Pending))
        /\ UNCHANGED <<clock, dropped>>
    BY <1>6 DEF Abstract!Deliver
  <2>2. SubSeq(Pending, 1, k) \o SubSeq(Pending, k + 1, Len(Pending))
          = SubSeq(Pending, 1, Len(Pending))
    BY <1>0, ConcatAdjacentSubSeq
  <2>3. SubSeq(Pending, 1, Len(Pending)) = Pending  BY <1>0, SubSeqFull
  <2>4. SubSeq(Pending, 1, k) \in Seq(Nat) /\ SubSeq(Pending, k + 1, Len(Pending)) \in Seq(Nat)
    <3>1. \A i \in 1..Len(Pending) : Pending[i] \in Nat  BY <1>0, ElementOfSeq
    <3>2. \A i \in 1..k : Pending[i] \in Nat  BY <3>1, <1>0
    <3>3. \A i \in (k + 1)..Len(Pending) : Pending[i] \in Nat  BY <3>1, <1>0
    <3>4. SubSeq(Pending, 1, k) \in Seq(Nat)  BY <3>2, <1>0, SubSeqProperties
    <3>5. k + 1 \in Int /\ Len(Pending) \in Int  BY <1>0
    <3>6. SubSeq(Pending, k + 1, Len(Pending)) \in Seq(Nat)  BY <3>3, <3>5, SubSeqProperties
    <3> QED BY <3>4, <3>6
  <2>5. Kept' = (received \o SubSeq(Pending, 1, k)) \o SubSeq(Pending, k + 1, Len(Pending))
    BY <2>1 DEF Kept
  <2>6. Kept' = received \o (SubSeq(Pending, 1, k) \o SubSeq(Pending, k + 1, Len(Pending)))
    <3>1. (received \o SubSeq(Pending, 1, k)) \o SubSeq(Pending, k + 1, Len(Pending))
            = received \o (SubSeq(Pending, 1, k) \o SubSeq(Pending, k + 1, Len(Pending)))
      BY <2>4, <1>0, StampsAssociative
    <3> QED BY <3>1, <2>5
  <2>7. Kept' = Kept  BY <2>2, <2>3, <2>6 DEF Kept
  <2> QED BY <2>1, <2>7, <1>1, <1>2
<1> QED BY <1>3, <1>4, <1>5, <1>6 DEF Abstract!Next

\* Every hit that reached the queue is, forever, received, queued or counted as
\* dropped; no read, failing or not, duplicates or reorders one.
THEOREM NothingUnaccounted == Spec => []Accounted
<1>1. KeptInv => Accounted  BY DEF KeptInv
<1> QED BY <1>1, InitKept, StepKept, StepRefines, Invariant, PTL DEF Spec
=============================================================================
