------------------------------ MODULE HitQueue ------------------------------
(***************************************************************************)
(* What one descriptor of /dev/rt_a17 promises about breakpoint hits, with *)
(* no ring, lock or system call in sight: a bounded first-in first-out     *)
(* queue.  A hit offered to a full queue is the one that is lost, and the  *)
(* loss is counted.  A read takes a prefix of the queue and the caller     *)
(* receives exactly that prefix, in order.                                 *)
(*                                                                         *)
(* A hit is named by its stamp, the number of hits offered up to it.  The  *)
(* stamp stands for the record's timestamp, taken inside the queue's lock. *)
(***************************************************************************)
EXTENDS Naturals, Sequences

CONSTANTS
  Capacity,    \* hits the queue can hold
  MaxDropped   \* the value at which the loss counter stays

VARIABLES
  clock,       \* hits offered so far
  queue,       \* stamps waiting to be read, oldest first
  dropped,     \* hits lost to a full queue, saturating
  received     \* every stamp a successful read has handed over

vars == <<clock, queue, dropped, received>>

Init ==
  /\ clock = 0
  /\ queue = <<>>
  /\ dropped = 0
  /\ received = <<>>

Accept ==
  /\ Len(queue) < Capacity
  /\ clock' = clock + 1
  /\ queue' = Append(queue, clock')
  /\ UNCHANGED <<dropped, received>>

Lose ==
  /\ Len(queue) = Capacity
  /\ clock' = clock + 1
  /\ dropped' = IF dropped = MaxDropped THEN dropped ELSE dropped + 1
  /\ UNCHANGED <<queue, received>>

Deliver(n) ==
  /\ n \in 1..Len(queue)
  /\ received' = received \o SubSeq(queue, 1, n)
  /\ queue' = SubSeq(queue, n + 1, Len(queue))
  /\ UNCHANGED <<clock, dropped>>

Next == Accept \/ Lose \/ \E n \in 1..Len(queue) : Deliver(n)

Spec == Init /\ [][Next]_vars
=============================================================================
