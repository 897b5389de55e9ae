----------------------------- MODULE RTHitQueue -----------------------------
(***************************************************************************)
(* The hit ring of one descriptor (rt_breakpoints.c): CPUs in a breakpoint *)
(* exception append under a raw spinlock, threads sharing the descriptor   *)
(* read under the session mutex.  A read takes the spinlock three times    *)
(* (size, snapshot, commit) and copies to user memory in between, where it *)
(* may sleep, fail, or be overtaken by new hits.                           *)
(*                                                                         *)
(* Every access to the ring is made under the raw spinlock with interrupts *)
(* off, so each critical section is one step here.                         *)
(*                                                                         *)
(* Bound: MaxTraps breakpoint exceptions in a behaviour.                   *)
(***************************************************************************)
EXTENDS Naturals, Sequences, FiniteSetsExt

CONSTANTS
  MaxHits,       \* RT_A17_MAX_HITS: slots of the ring
  MaxDropped,    \* U64_MAX: the loss counter saturates there
  ErrorsMod,     \* 2^32: the error counter wraps there
  CPUs,          \* processors that may be inside rt_bp_hit
  Readers,       \* threads that call BP_GET_HITS on the descriptor
  None,          \* no thread holds the session mutex
  MaxTraps       \* bound on the exceptions of a behaviour

ASSUME MaxHitsAssumption == MaxHits \in Nat \ {0}
ASSUME CounterAssumption == MaxDropped \in Nat /\ ErrorsMod \in Nat \ {0}
ASSUME NoneAssumption == None \notin Readers
ASSUME MaxTrapsAssumption == MaxTraps \in Nat

VARIABLES
  hits,             \* the ring: a stamp, or Zeroed
  head, count,      \* first queued slot, and how many are queued
  dropped, callback_errors,
  mutex,            \* the reader inside rt_bp_ioctl, or None
  cb,               \* where each CPU is in rt_bp_hit
  pc,               \* where each reader is in rt_bp_ioctl / rt_bp_get_hits
  n,                \* rt_bp_get_hits: records this read takes
  snapshot,         \* rt_bp_get_hits: the kmalloc'd copy
  buffer,           \* what the reader's user buffer holds
  clock, traps,     \* stamps given out and exceptions taken
  received          \* what successful reads have handed to user space

ring == <<hits, head, count>>
counters == <<dropped, callback_errors>>
reading == <<mutex, pc, n, snapshot, buffer>>
vars == <<ring, counters, reading, cb, clock, traps, received>>

Zeroed == 0                       \* what memzero_explicit leaves in a slot
Slots == 0..(MaxHits - 1)
Slot(i) == (head + i) % MaxHits

\* The queued stamps, oldest first.
Pending == [i \in 1..count |-> hits[Slot(i - 1)]]

ReaderStates ==
  {"idle", "wait", "size", "validate", "snap", "copy", "report", "commit", "unlock"}

Init ==
  /\ hits = [s \in Slots |-> Zeroed]
  /\ head = 0 /\ count = 0 /\ dropped = 0 /\ callback_errors = 0
  /\ mutex = None
  /\ cb = [c \in CPUs |-> "idle"]
  /\ pc = [r \in Readers |-> "idle"]
  /\ n = [r \in Readers |-> 0]
  /\ snapshot = [r \in Readers |-> <<>>]
  /\ buffer = [r \in Readers |-> <<>>]
  /\ clock = 0 /\ traps = 0
  /\ received = <<>>

-----------------------------------------------------------------------------
(* rt_bp_hit on CPU c *)

\* Disarming the event either fails ("error") or leaves the identity check.
Trap(c) ==
  /\ cb[c] = "idle"
  /\ traps < MaxTraps
  /\ traps' = traps + 1
  /\ \E outcome \in {"error", "check"} : cb' = [cb EXCEPT ![c] = outcome]
  /\ UNCHANGED <<ring, counters, reading, clock, received>>

CallbackError(c) ==
  /\ cb[c] = "error"
  /\ cb' = [cb EXCEPT ![c] = "idle"]
  /\ callback_errors' = (callback_errors + 1) % ErrorsMod
  /\ UNCHANGED <<ring, dropped, reading, clock, traps, received>>

\* Another mm, another credential, a compat or a kernel frame: nothing is kept.
CheckIdentity(c) ==
  /\ cb[c] = "check"
  /\ \E next \in {"idle", "record"} : cb' = [cb EXCEPT ![c] = next]
  /\ UNCHANGED <<ring, counters, reading, clock, traps, received>>

Recording(c) ==
  /\ cb[c] = "record"
  /\ cb' = [cb EXCEPT ![c] = "idle"]
  /\ clock' = clock + 1
  /\ UNCHANGED <<callback_errors, reading, traps, received>>

Enqueue ==
  /\ hits' = [hits EXCEPT ![Slot(count)] = clock']
  /\ count' = count + 1
  /\ UNCHANGED <<head, dropped>>

CountLoss ==
  /\ dropped' = IF dropped = MaxDropped THEN dropped ELSE dropped + 1
  /\ UNCHANGED ring

\* Fault: a full ring overwrites its oldest hit instead of losing the new one.
RecordOverwriting(c) ==
  /\ Recording(c)
  /\ IF count < MaxHits
       THEN Enqueue
       ELSE /\ hits' = [hits EXCEPT ![head] = clock']
            /\ head' = Slot(1)
            /\ UNCHANGED <<count, dropped>>

\* Fault: the loss of a hit is not counted.
RecordUncounted(c) ==
  Recording(c) /\ IF count = MaxHits THEN UNCHANGED <<ring, dropped>> ELSE Enqueue

\* Fault: the callback sleeps on the session mutex.
RecordUnderMutex(c) ==
  mutex = None /\ Recording(c) /\ IF count = MaxHits THEN CountLoss ELSE Enqueue

\* The new hit goes behind the queued ones, or is dropped when the ring is full.
Record(c) ==
  Recording(c) /\ IF count = MaxHits THEN CountLoss ELSE Enqueue

-----------------------------------------------------------------------------
(* rt_bp_ioctl and rt_bp_get_hits in reader r *)

untouched == <<hits, head, count, counters, cb, clock, traps, received>>

Goto(r, state) == pc' = [pc EXCEPT ![r] = state]

Call(r) ==
  /\ pc[r] = "idle"
  /\ Goto(r, "wait")
  /\ buffer' = [buffer EXCEPT ![r] = <<>>]
  /\ UNCHANGED <<mutex, n, snapshot, untouched>>

\* mutex_lock_interruptible ended by a signal
Interrupted(r) ==
  /\ pc[r] = "wait"
  /\ Goto(r, "idle")
  /\ UNCHANGED <<mutex, n, snapshot, buffer, untouched>>

\* Fault: a second thread enters while the mutex is held.
LockIgnored(r) ==
  /\ pc[r] = "wait"
  /\ mutex' = r
  /\ Goto(r, "size")
  /\ UNCHANGED <<n, snapshot, buffer, untouched>>

Lock(r) ==
  /\ pc[r] = "wait"
  /\ mutex = None
  /\ mutex' = r
  /\ Goto(r, "size")
  /\ UNCHANGED <<n, snapshot, buffer, untouched>>

\* First critical section: n = min(req.count, count).
Size(r) ==
  /\ pc[r] = "size"
  /\ \E capacity \in 0..(MaxHits + 1) :
       LET take == IF capacity < count THEN capacity ELSE count IN
       /\ n' = [n EXCEPT ![r] = take]
       /\ Goto(r, IF take = 0 THEN "report" ELSE "validate")
  /\ UNCHANGED <<mutex, snapshot, buffer, untouched>>

\* The user buffer is acceptable and kmalloc succeeds.
Validate(r) ==
  /\ pc[r] = "validate"
  /\ Goto(r, "snap")
  /\ UNCHANGED <<mutex, n, snapshot, buffer, untouched>>

\* Second critical section: copy the first n records out of the ring.
Snap(r) ==
  /\ pc[r] = "snap"
  /\ snapshot' = [snapshot EXCEPT ![r] = [i \in 1..n[r] |-> hits[Slot(i - 1)]]]
  /\ Goto(r, "copy")
  /\ UNCHANGED <<mutex, n, buffer, untouched>>

CopyHits(r) ==
  /\ pc[r] = "copy"
  /\ buffer' = [buffer EXCEPT ![r] = snapshot[r]]
  /\ Goto(r, "report")
  /\ UNCHANGED <<mutex, n, snapshot, untouched>>

\* A fault part of the way: some of the records reach the buffer.
CopyHitsFaults(r) ==
  /\ pc[r] = "copy"
  /\ \E k \in 0..(n[r] - 1) :
       buffer' = [buffer EXCEPT ![r] = SubSeq(snapshot[r], 1, k)]
  /\ Goto(r, "unlock")
  /\ UNCHANGED <<mutex, n, snapshot, untouched>>

ReportCount(r) ==
  /\ pc[r] = "report"
  /\ Goto(r, "commit")
  /\ UNCHANGED <<mutex, n, snapshot, buffer, untouched>>

\* Every error that leaves before a record reaches user memory, and the fault
\* on the request's count after the records did.
Fail(r) ==
  /\ pc[r] \in {"size", "validate", "report"}
  /\ Goto(r, "unlock")
  /\ UNCHANGED <<mutex, n, snapshot, buffer, untouched>>

Committing(r) ==
  /\ pc[r] = "commit"
  /\ count' = count - n[r]
  /\ received' = received \o SubSeq(buffer[r], 1, n[r])
  /\ Goto(r, "unlock")
  /\ UNCHANGED <<mutex, n, snapshot, buffer, counters, cb, clock, traps>>

EraseFront(k) ==
  hits' = [s \in Slots |-> IF s \in {Slot(i) : i \in 0..(k - 1)} THEN Zeroed ELSE hits[s]]

\* Fault: the drained slots keep their registers.
CommitWithoutErasing(r) == Committing(r) /\ head' = Slot(n[r]) /\ UNCHANGED hits

\* Fault: the head is advanced and not wrapped.
CommitUnwrapped(r) == Committing(r) /\ EraseFront(n[r]) /\ head' = head + n[r]

\* Third critical section: erase and consume.  The ioctl returns 0, so from here
\* the caller owns the first n records of its buffer.
Commit(r) == Committing(r) /\ EraseFront(n[r]) /\ head' = Slot(n[r])

\* Fault: the error path forgets the mutex.
UnlockLeaked(r) ==
  /\ pc[r] = "unlock"
  /\ mutex' = IF buffer[r] = snapshot[r] THEN None ELSE mutex
  /\ Goto(r, "idle")
  /\ n' = [n EXCEPT ![r] = 0]
  /\ snapshot' = [snapshot EXCEPT ![r] = <<>>]
  /\ UNCHANGED <<buffer, untouched>>

\* kfree_sensitive(snapshot), mutex_unlock, return
Unlock(r) ==
  /\ pc[r] = "unlock"
  /\ mutex' = None
  /\ Goto(r, "idle")
  /\ n' = [n EXCEPT ![r] = 0]
  /\ snapshot' = [snapshot EXCEPT ![r] = <<>>]
  /\ UNCHANGED <<buffer, untouched>>

-----------------------------------------------------------------------------
Callback(c) == Trap(c) \/ CallbackError(c) \/ CheckIdentity(c) \/ Record(c)

InsideRead(r) ==
  \/ Size(r) \/ Validate(r) \/ Snap(r) \/ CopyHits(r) \/ CopyHitsFaults(r)
  \/ ReportCount(r) \/ Fail(r) \/ Commit(r) \/ Unlock(r)

Read(r) == Call(r) \/ Interrupted(r) \/ Lock(r) \/ InsideRead(r)

Next == (\E c \in CPUs : Callback(c)) \/ (\E r \in Readers : Read(r))

Spec == Init /\ [][Next]_vars

(* A CPU in the exception handler runs to its end; a reader inside the ioctl is
   scheduled and its copies end, with or without a fault; the mutex is handed to
   a waiter that keeps losing it (mutex_lock's handoff), hence SF. *)
Fairness ==
  /\ \A c \in CPUs : WF_vars(CallbackError(c) \/ CheckIdentity(c) \/ Record(c))
  /\ \A r \in Readers : WF_vars(InsideRead(r)) /\ SF_vars(Lock(r))

FairSpec == Spec /\ Fairness

-----------------------------------------------------------------------------
\* Types: the ring's indices stay inside the ring whatever the traffic.
TypeOK ==
  /\ hits \in [Slots -> Nat]
  /\ head \in Slots
  /\ count \in 0..MaxHits
  /\ dropped \in 0..MaxDropped
  /\ callback_errors \in 0..(ErrorsMod - 1)
  /\ mutex \in Readers \cup {None}
  /\ cb \in [CPUs -> {"idle", "error", "check", "record"}]
  /\ pc \in [Readers -> ReaderStates]
  /\ n \in [Readers -> 0..MaxHits]
  /\ snapshot \in [Readers -> Seq(Nat)]
  /\ buffer \in [Readers -> Seq(Nat)]
  /\ clock \in Nat
  /\ traps \in Nat
  /\ received \in Seq(Nat)

\* A slot holds registers exactly while it is queued: what has been read, and what
\* was never written, is zero (memzero_explicit in rt_bp_get_hits).
DrainedSlotsAreErased ==
  \A i \in Slots : (hits[Slot(i)] # Zeroed) <=> (i < count)

\* From the snapshot to the commit the reader's copy is still the front of the
\* queue, although hits keep arriving while it copies to user memory: the claim of
\* the comment in rt_bp_get_hits that producers keep the snapshot valid.
SnapshotIsFront ==
  \A r \in Readers :
    pc[r] \in {"copy", "report", "commit"} =>
      /\ n[r] <= count
      /\ n[r] > 0 => snapshot[r] = SubSeq(Pending, 1, n[r])

\* Every recorded hit is received, queued or counted as dropped; nothing arrives
\* twice or out of order, whatever reads failed half way.
Accounted ==
  LET kept == received \o Pending IN
  /\ \A i \in 1..Len(kept) : \A j \in 1..Len(kept) : i < j => kept[i] < kept[j]
  /\ dropped < MaxDropped => clock = Len(kept) + dropped

Abstract == INSTANCE HitQueue WITH Capacity <- MaxHits, queue <- Pending

\* The ring with its failing, overtaken reads is the bounded queue of HitQueue: a
\* read that fails anywhere changes nothing, one that succeeds takes what it hands over.
ImplementsHitQueue == Abstract!Spec

\* An ioctl in progress returns: no error path keeps the session mutex.
ReadReturns == \A r \in Readers : pc[r] # "idle" ~> pc[r] = "idle"

\* The exception handler never waits for a reader, even one that sleeps in
\* copy_to_user: the comment that the mutex is never acquired by the callback.
CallbackReturns == \A c \in CPUs : cb[c] # "idle" ~> cb[c] = "idle"
=============================================================================
