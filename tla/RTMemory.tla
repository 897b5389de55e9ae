------------------------------ MODULE RTMemory ------------------------------
(***************************************************************************)
(* READ_MEM, WRITE_MEM and MODULE_BASE of /dev/rt_a17 (rt_main.c): threads *)
(* copy bytes from and to a target task or look a mapping up in it, while  *)
(* the target changes its mappings, execs and exits.  A caller may be a    *)
(* thread of the target itself.                                            *)
(*                                                                         *)
(* Bytes are not modelled, only where each one came from and went to.      *)
(* Kernel services are external: mmap_lock is fair (a waiting writer stops *)
(* new readers), a user copy that faults takes mmap_lock of the caller's   *)
(* own mm, pinning checks the mappings and may stop at any page, an mm is  *)
(* torn down with its last user.                                           *)
(*                                                                         *)
(* Bounds: MaxMms address spaces; Layouts, the mappings one may have.      *)
(***************************************************************************)
EXTENDS Naturals, FiniteSets

CONSTANTS
  Callers,          \* threads calling ioctl
  Threads,          \* those that are threads of the target
  NumPages,         \* pages of a user address space (mm->task_size)
  PageSize,
  Width,            \* 2^64: addresses are taken modulo this
  MaxTransfer,      \* RT_A17_MAX_TRANSFER
  Layouts,          \* possible mappings: Pages -> Kinds
  Addrs, Sizes,     \* requests
  AccessErrors,     \* what rt_access_mm may refuse with, mm_access included
  PinErrors,        \* what pinning may fail with
  MaxMms

Pages == 0..(NumPages - 1)
Mms == 1..MaxMms                  \* 0 is NULL
TaskSize == NumPages * PageSize
Kinds == {"hole", "guard", "data", "file", "lib", "jit", "device"}
Hole == [p \in Pages |-> "hole"]

Readable(k) == k \in {"data", "file", "lib", "jit", "device"}
Writable(k) == k \in {"data", "jit", "device"}
Executable(k) == k = "jit"
Special(k) == k = "device"        \* VM_IO, VM_PFNMAP
FileBacked(k) == k \in {"file", "lib"}
Named(k) == k = "lib"             \* the file that MODULE_BASE asks for

ASSUME SizesAssumption ==
  /\ NumPages \in Nat \ {0} /\ PageSize \in Nat \ {0}
  /\ MaxTransfer \in Nat /\ MaxMms \in Nat \ {0}
  /\ Width \in Nat /\ TaskSize < Width
ASSUME RequestsAssumption ==
  /\ IsFiniteSet(Callers) /\ Threads \subseteq Callers
  /\ Layouts \subseteq [Pages -> Kinds] /\ Layouts # {}
  /\ Addrs \subseteq 0..(Width - 1) /\ Sizes \subseteq 0..(Width - 1)
  /\ "ok" \notin AccessErrors \cup PinErrors

VARIABLES
  current,          \* the target's mm
  layout, users,    \* each mm: its mappings, mm_users
  readers, waiting, \* each mm's mmap_lock: readers, a writer waiting?
  pins,             \* each page's pins
  pc, req, mm,      \* callers: where, the request, the mm accessed
  cursor,           \* callers: the address a walk over the mappings has reached
  page, done,       \* callers: i and done of the copying loop; after a partial pin page is pinned
  moved,            \* callers: bytes copied, as <<index in the buffer, address>>
  base, ret         \* callers: results

target == <<current, layout, waiting>>
locals == <<cursor, page, done, moved, base>>
vars == <<target, users, readers, pins, pc, req, mm, locals, ret>>

NoRequest == [op |-> "none", addr |-> 0, size |-> 0, absent |-> FALSE]

Init ==
  /\ current = 1
  /\ layout \in [Mms -> {Hole} \cup Layouts]
  /\ layout[1] \in Layouts /\ \A m \in Mms \ {1} : layout[m] = Hole
  /\ users = [m \in Mms |-> IF m = 1 THEN 1 ELSE 0]
  /\ readers = [m \in Mms |-> {}] /\ waiting = [m \in Mms |-> FALSE]
  /\ pins = [m \in Mms |-> [p \in Pages |-> 0]]
  /\ pc = [c \in Callers |-> "idle"] /\ req = [c \in Callers |-> NoRequest]
  /\ mm = [c \in Callers |-> 0] /\ cursor = [c \in Callers |-> 0]
  /\ page = [c \in Callers |-> 0] /\ done = [c \in Callers |-> 0]
  /\ moved = [c \in Callers |-> {}]
  /\ base = [c \in Callers |-> 0] /\ ret = [c \in Callers |-> "ok"]

-----------------------------------------------------------------------------
(* The target *)

\* The last user of an mm tears it down.
TornDown(l) == [m \in Mms |-> IF users'[m] = 0 THEN Hole ELSE l[m]]
Drop(m) == users' = [users EXCEPT ![m] = @ - 1] /\ layout' = TornDown(layout)

\* mmap, munmap or mprotect waits for mmap_lock.
MapWait ==
  /\ current # 0 /\ ~waiting[current]
  /\ waiting' = [waiting EXCEPT ![current] = TRUE]
  /\ UNCHANGED <<current, layout, users, readers, pins, pc, req, mm, locals, ret>>

Map ==
  /\ current # 0 /\ waiting[current] /\ readers[current] = {}
  /\ \E l \in Layouts : layout' = [layout EXCEPT ![current] = l]
  /\ waiting' = [waiting EXCEPT ![current] = FALSE]
  /\ UNCHANGED <<current, users, readers, pins, pc, req, mm, locals, ret>>

\* exec and exit come after the other threads of the target have left the kernel.
Alone == current # 0 /\ ~waiting[current] /\ \A c \in Threads : pc[c] = "idle"

Exec ==
  /\ Alone /\ current < MaxMms
  /\ current' = current + 1
  /\ users' = [users EXCEPT ![current] = @ - 1, ![current'] = 1]
  /\ \E l \in Layouts : layout' = TornDown([layout EXCEPT ![current'] = l])
  /\ UNCHANGED <<waiting, readers, pins, pc, req, mm, locals, ret>>

Exit ==
  /\ Alone
  /\ current' = 0
  /\ Drop(current)
  /\ UNCHANGED <<waiting, readers, pins, pc, req, mm, locals, ret>>

-----------------------------------------------------------------------------
(* A call of rt_copy_memory or rt_module_base *)

Goto(c, state) == pc' = [pc EXCEPT ![c] = state]
Outcome(c, r) == ret' = [ret EXCEPT ![c] = r]
Copying(c) == req[c].op \in {"read", "write"}
End(c) == (req[c].addr + req[c].size) % Width

\* A user copy by c that faults needs mmap_lock of its own mm.
UserCopy(c) == req[c].absent /\ c \in Threads => ~waiting[current]

Call(c) ==
  /\ pc[c] = "idle"
  /\ c \in Threads => current # 0
  /\ \E b \in BOOLEAN :
       \/ req' = [req EXCEPT ![c] = [op |-> "base", addr |-> 0, size |-> 0, absent |-> b]]
       \/ \E op \in {"read", "write"}, a \in Addrs, n \in Sizes :
            req' = [req EXCEPT ![c] = [op |-> op, addr |-> a, size |-> n, absent |-> b]]
  /\ Goto(c, "validate")
  /\ UNCHANGED <<target, users, readers, pins, mm, locals, ret>>

\* Fault: the size of the request is not limited.
AcceptableAnySize(c) ==
  req[c].size # 0 /\ req[c].addr # 0 /\ req[c].addr + req[c].size < Width

Acceptable(c) ==
  /\ req[c].size \in 1..MaxTransfer
  /\ req[c].addr # 0 /\ req[c].addr + req[c].size < Width

\* The request, its buffer and the allocation; a write stages its source.
Validate(c) ==
  /\ pc[c] = "validate" /\ Copying(c)
  /\ UserCopy(c)
  /\ \/ \E r \in {"EINVAL", "EFAULT", "ENOMEM"} : Outcome(c, r) /\ Goto(c, "done")
     \/ Acceptable(c) /\ Goto(c, "access") /\ UNCHANGED ret
  /\ UNCHANGED <<target, users, readers, pins, req, mm, locals>>

\* The request of MODULE_BASE, the name it asks for and the allocation.
ValidateName(c) ==
  /\ pc[c] = "validate" /\ ~Copying(c)
  /\ UserCopy(c)
  /\ \/ \E r \in {"EINVAL", "EFAULT", "ENOMEM", "ENAMETOOLONG"} : Outcome(c, r) /\ Goto(c, "done")
     \/ Goto(c, "access") /\ UNCHANGED ret
  /\ UNCHANGED <<target, users, readers, pins, req, mm, locals>>

\* rt_access_mm: refused, by it or by mm_access, or a reference on the mm of a live target.
Access(c) ==
  /\ pc[c] = "access"
  /\ \/ /\ \E r \in AccessErrors : Outcome(c, r)
        /\ Goto(c, "done") /\ UNCHANGED <<mm, users>>
     \/ /\ current # 0
        /\ mm' = [mm EXCEPT ![c] = current]
        /\ users' = [users EXCEPT ![current] = @ + 1]
        /\ Goto(c, "lock") /\ UNCHANGED ret
  /\ UNCHANGED <<target, readers, pins, req, locals>>

\* Fault: mmap_lock is not kept from the check to the copy.
LockNotKept(c) ==
  LET m == mm[c] IN
  /\ pc[c] = "lock"
  /\ ~waiting[m]
  /\ cursor' = [cursor EXCEPT ![c] = req[c].addr]
  /\ IF Copying(c) /\ End(c) > TaskSize
       THEN Outcome(c, "EFAULT") /\ Goto(c, "unlock")
       ELSE Goto(c, IF Copying(c) THEN "check" ELSE "search") /\ UNCHANGED ret
  /\ UNCHANGED <<target, users, readers, pins, req, mm, page, done, moved, base>>

\* mmap_read_lock_killable, then the bound of a copy.
Lock(c) ==
  LET m == mm[c] IN
  /\ pc[c] = "lock"
  /\ \/ Outcome(c, "EINTR") /\ Goto(c, "put") /\ UNCHANGED <<readers, cursor>>
     \/ /\ ~waiting[m]
        /\ readers' = [readers EXCEPT ![m] = @ \cup {c}]
        /\ cursor' = [cursor EXCEPT ![c] = req[c].addr]
        /\ IF Copying(c) /\ End(c) > TaskSize
             THEN Outcome(c, "EFAULT") /\ Goto(c, "unlock")
             ELSE Goto(c, IF Copying(c) THEN "check" ELSE "search") /\ UNCHANGED ret
  /\ UNCHANGED <<target, users, pins, req, mm, page, done, moved, base>>

\* A VMA: a longest run of pages mapped alike.
Vmas(l) ==
  {v \in [first : Pages, last : Pages, kind : Kinds \ {"hole"}] :
     /\ v.first <= v.last
     /\ \A p \in v.first..v.last : l[p] = v.kind
     /\ v.first = 0 \/ l[v.first - 1] # v.kind
     /\ v.last = NumPages - 1 \/ l[v.last + 1] # v.kind}
Start(v) == v.first * PageSize
Limit(v) == (v.last + 1) * PageSize

\* find_vma: the first VMA that ends above the address; at most one.
FindVma(l, a) ==
  {v \in Vmas(l) : Limit(v) > a /\ \A o \in Vmas(l) : Limit(o) > a => v.first <= o.first}

Refusal(k, op) ==
  IF Special(k) \/ (op = "write" /\ Executable(k)) THEN "EOPNOTSUPP"
  ELSE IF (IF op = "write" THEN Writable(k) ELSE Readable(k)) THEN "ok" ELSE "EACCES"

Refuse(c, r) == Outcome(c, r) /\ Goto(c, "unlock") /\ UNCHANGED cursor

\* One iteration of rt_check_vmas, on the mapping found, if any.
Walk(c, found) ==
  /\ pc[c] = "check"
  /\ \/ cursor[c] >= End(c) /\ Goto(c, "pin") /\ UNCHANGED <<cursor, ret>>
     \/ cursor[c] < End(c) /\ found = {} /\ Refuse(c, "EFAULT")
     \/ \E v \in found :
          LET r == Refusal(v.kind, req[c].op) IN
          /\ cursor[c] < End(c)
          /\ \/ r # "ok" /\ Refuse(c, r)
             \/ /\ r = "ok"
                /\ cursor' = [cursor EXCEPT ![c] = IF Limit(v) < End(c) THEN Limit(v) ELSE End(c)]
                /\ UNCHANGED <<pc, ret>>
  /\ UNCHANGED <<target, users, readers, pins, req, mm, page, done, moved, base>>

\* Fault: a gap before the mapping found goes unnoticed.
CheckGapMissed(c) == Walk(c, FindVma(layout[mm[c]], cursor[c]))

Check(c) == Walk(c, {v \in FindVma(layout[mm[c]], cursor[c]) : Start(v) <= cursor[c]})

DivRoundUp(n, d) == (n + d - 1) \div d
Offset(c) == req[c].addr % PageSize

\* Fault: a transfer that starts inside a page may need one page more.
CountAligned(c) == DivRoundUp(req[c].size, PageSize)

Count(c) == DivRoundUp(Offset(c) + req[c].size, PageSize)
PageAt(c, i) == (req[c].addr \div PageSize) + i
\* What pinning accepts: mapped, not special, and permitted as mapped.
Pinnable(c, p) ==
  /\ p \in Pages
  /\ LET k == layout[mm[c]][p] IN
     ~Special(k) /\ IF req[c].op = "write" THEN Writable(k) ELSE Readable(k)

\* The first n pages of a request.
FirstPages(c, n) == {PageAt(c, i) : i \in 0..(n - 1)}
PagesOf(c) == FirstPages(c, Count(c))

PinPages(c, S) ==
  pins' = [pins EXCEPT ![mm[c]] = [p \in Pages |-> IF p \in S THEN @[p] + 1 ELSE @[p]]]
UnpinPages(c, S) ==
  pins' = [pins EXCEPT ![mm[c]] = [p \in Pages |-> IF p \in S THEN @[p] - 1 ELSE @[p]]]

PinResult(c, n) ==
  \/ n = Count(c) /\ PinPages(c, PagesOf(c)) /\ Goto(c, "copy") /\ UNCHANGED ret
  \/ n \in 1..(Count(c) - 1) /\ PinPages(c, FirstPages(c, n)) /\ Goto(c, "unpin") /\ UNCHANGED ret
  \/ n = 0 /\ (\E r \in {"EFAULT"} \cup PinErrors : Outcome(c, r)) /\ Goto(c, "unlock") /\ UNCHANGED pins

\* pin_user_pages_remote: all the pages; or those before one that fails; or, when that is the
\* first, none, or an error, which the call returns as it is.
Pin(c) ==
  /\ pc[c] = "pin"
  /\ \E n \in 0..Count(c) :
       /\ \A p \in FirstPages(c, n) : Pinnable(c, p)
       /\ PinResult(c, n)
       /\ page' = [page EXCEPT ![c] = IF n = Count(c) THEN 0 ELSE n]
  /\ done' = [done EXCEPT ![c] = 0]
  /\ UNCHANGED <<target, users, readers, req, mm, cursor, moved, base>>

\* Fault: what a partial pin did pin is kept.
UnpinPartialForgotten(c) ==
  /\ pc[c] = "unpin"
  /\ Outcome(c, "EFAULT") /\ Goto(c, "unlock")
  /\ UNCHANGED <<target, users, readers, pins, req, mm, locals>>

\* Fault: the pages pinned are copied although some are missing.
UnpinPartialCopied(c) ==
  /\ pc[c] = "unpin"
  /\ UnpinPages(c, FirstPages(c, page[c]))
  /\ moved' = [moved EXCEPT ![c] = {<<0, req[c].addr>>}]
  /\ Outcome(c, "EFAULT") /\ Goto(c, "unlock")
  /\ UNCHANGED <<target, users, readers, req, mm, cursor, page, done, base>>

\* unpin_user_pages of a partial pin
UnpinPartial(c) ==
  /\ pc[c] = "unpin"
  /\ UnpinPages(c, FirstPages(c, page[c]))
  /\ Outcome(c, "EFAULT") /\ Goto(c, "unlock")
  /\ UNCHANGED <<target, users, readers, req, mm, locals>>

\* The bytes that index i of the loop copies.
Chunk(c) ==
  LET offset == IF page[c] = 0 THEN Offset(c) ELSE 0
      remaining == req[c].size - done[c] IN
  IF remaining < PageSize - offset THEN remaining ELSE PageSize - offset

\* Fault: every page is entered at the offset of the first.
CopyPageOffsetKept(c) ==
  LET bytes == IF req[c].size - done[c] < PageSize - Offset(c) THEN req[c].size - done[c]
               ELSE PageSize - Offset(c) IN
  /\ pc[c] = "copy" /\ page[c] < Count(c)
  /\ moved' = [moved EXCEPT ![c] = @ \cup
       {<<done[c] + k, PageAt(c, page[c]) * PageSize + Offset(c) + k>> : k \in 0..(bytes - 1)}]
  /\ done' = [done EXCEPT ![c] = @ + bytes]
  /\ page' = [page EXCEPT ![c] = @ + 1]
  /\ UNCHANGED <<target, users, readers, pins, pc, req, mm, cursor, base, ret>>

\* One iteration of the copying loop, reading or writing the mapped page.
CopyPage(c) ==
  LET offset == IF page[c] = 0 THEN Offset(c) ELSE 0 IN
  /\ pc[c] = "copy" /\ page[c] < Count(c)
  /\ moved' = [moved EXCEPT ![c] = @ \cup
       {<<done[c] + k, PageAt(c, page[c]) * PageSize + offset + k>> : k \in 0..(Chunk(c) - 1)}]
  /\ done' = [done EXCEPT ![c] = @ + Chunk(c)]
  /\ page' = [page EXCEPT ![c] = @ + 1]
  /\ UNCHANGED <<target, users, readers, pins, pc, req, mm, cursor, base, ret>>

\* unpin_user_pages_dirty_lock
Unpin(c) ==
  /\ pc[c] = "copy" /\ page[c] = Count(c)
  /\ UnpinPages(c, PagesOf(c))
  /\ Outcome(c, "ok") /\ Goto(c, "unlock")
  /\ UNCHANGED <<target, users, readers, req, mm, locals>>

\* Fault: the search ends at the last mapping of the file.
SearchLast(c) ==
  /\ pc[c] = "search"
  /\ LET found == FindVma(layout[mm[c]], cursor[c]) IN
     \/ found = {} /\ Refuse(c, "ok") /\ UNCHANGED base
     \/ \E v \in found :
          /\ base' = IF Named(v.kind) THEN [base EXCEPT ![c] = Start(v)] ELSE base
          /\ cursor' = [cursor EXCEPT ![c] = Limit(v)] /\ UNCHANGED <<pc, ret>>
  /\ UNCHANGED <<target, users, readers, pins, req, mm, page, done, moved>>

\* One iteration of the walk of rt_module_base; d_path may fail.
Search(c) ==
  /\ pc[c] = "search"
  /\ LET found == FindVma(layout[mm[c]], cursor[c]) IN
     \/ found = {} /\ Refuse(c, "ok") /\ UNCHANGED base
     \/ \E v \in found :
          \/ FileBacked(v.kind) /\ Refuse(c, "ENAMETOOLONG") /\ UNCHANGED base
          \/ Named(v.kind) /\ base' = [base EXCEPT ![c] = Start(v)] /\ Refuse(c, "ok")
          \/ /\ ~Named(v.kind)
             /\ cursor' = [cursor EXCEPT ![c] = Limit(v)] /\ UNCHANGED <<pc, ret, base>>
  /\ UNCHANGED <<target, users, readers, pins, req, mm, page, done, moved>>

\* Fault: the buffer is copied out before mmap_lock is released.
UnlockAfterCopy(c) ==
  /\ pc[c] = "unlock"
  /\ UserCopy(c)
  /\ readers' = [readers EXCEPT ![mm[c]] = @ \ {c}]
  /\ Goto(c, "put")
  /\ UNCHANGED <<target, users, pins, req, mm, locals, ret>>

\* Fault: a refused request leaves with mmap_lock held.
UnlockForgotten(c) ==
  /\ pc[c] = "unlock"
  /\ readers' = IF ret[c] = "EACCES" THEN readers ELSE [readers EXCEPT ![mm[c]] = @ \ {c}]
  /\ Goto(c, "put")
  /\ UNCHANGED <<target, users, pins, req, mm, locals, ret>>

\* mmap_read_unlock
Unlock(c) ==
  /\ pc[c] = "unlock"
  /\ readers' = [readers EXCEPT ![mm[c]] = @ \ {c}]
  /\ Goto(c, "put")
  /\ UNCHANGED <<target, users, pins, req, mm, locals, ret>>

\* Fault: when the lock is not taken the mm is put by the error path and again at the end.
PutTwice(c) ==
  /\ pc[c] = "put"
  /\ users' = [users EXCEPT ![mm[c]] = IF ret[c] = "EINTR" THEN @ - 2 ELSE @ - 1]
  /\ layout' = TornDown(layout)
  /\ mm' = [mm EXCEPT ![c] = 0]
  /\ Goto(c, IF ret[c] = "ok" /\ req[c].op # "write" THEN "reply" ELSE "done")
  /\ UNCHANGED <<current, waiting, readers, pins, req, locals, ret>>

\* mmput
Put(c) ==
  /\ pc[c] = "put"
  /\ Drop(mm[c])
  /\ mm' = [mm EXCEPT ![c] = 0]
  /\ Goto(c, IF ret[c] = "ok" /\ req[c].op # "write" THEN "reply" ELSE "done")
  /\ UNCHANGED <<current, waiting, readers, pins, req, locals, ret>>

\* copy_to_user
Reply(c) ==
  /\ pc[c] = "reply"
  /\ UserCopy(c)
  /\ UNCHANGED ret \/ Outcome(c, "EFAULT")
  /\ Goto(c, "done")
  /\ UNCHANGED <<target, users, readers, pins, req, mm, locals>>

\* kfree_sensitive and return
Return(c) ==
  /\ pc[c] = "done"
  /\ Goto(c, "idle")
  /\ req' = [req EXCEPT ![c] = NoRequest] /\ Outcome(c, "ok")
  /\ cursor' = [cursor EXCEPT ![c] = 0] /\ page' = [page EXCEPT ![c] = 0]
  /\ done' = [done EXCEPT ![c] = 0] /\ moved' = [moved EXCEPT ![c] = {}]
  /\ base' = [base EXCEPT ![c] = 0]
  /\ UNCHANGED <<target, users, readers, pins, mm>>

-----------------------------------------------------------------------------
Target == MapWait \/ Map \/ Exec \/ Exit
Step(c) ==
  \/ Validate(c) \/ ValidateName(c) \/ Access(c) \/ Lock(c) \/ Check(c) \/ Pin(c)
  \/ UnpinPartial(c) \/ CopyPage(c) \/ Unpin(c) \/ Search(c) \/ Unlock(c) \/ Put(c) \/ Reply(c) \/ Return(c)

Next == Target \/ \E c \in Callers : Call(c) \/ Step(c)

Spec == Init /\ [][Next]_vars

(* Callers in a call are scheduled.  mmap_lock is handed in order to those who wait,
   so a caller that may take it again and again does: hence SF where it is taken. *)
Fairness ==
  /\ WF_vars(Map)
  /\ \A c \in Callers :
       /\ SF_vars(Validate(c) \/ ValidateName(c)) /\ SF_vars(Lock(c)) /\ SF_vars(Reply(c))
       /\ WF_vars(Step(c))

FairSpec == Spec /\ Fairness

-----------------------------------------------------------------------------
CallerStates ==
  {"idle", "validate", "access", "lock", "check", "pin", "unpin", "copy", "search", "unlock",
   "put", "reply", "done"}
Results ==
  {"ok", "EINVAL", "ENOMEM", "EINTR", "EFAULT", "EACCES", "EOPNOTSUPP", "ENAMETOOLONG"}
    \cup AccessErrors \cup PinErrors

TypeOK ==
  /\ current \in {0} \cup Mms
  /\ layout \in [Mms -> [Pages -> Kinds]]
  /\ users \in [Mms -> Nat] /\ waiting \in [Mms -> BOOLEAN]
  /\ readers \in [Mms -> SUBSET Callers]
  /\ pins \in [Mms -> [Pages -> Nat]]
  /\ pc \in [Callers -> CallerStates] /\ ret \in [Callers -> Results]
  /\ req \in [Callers -> [op : {"none", "read", "write", "base"}, addr : 0..(Width - 1),
                          size : 0..(Width - 1), absent : BOOLEAN]]
  /\ mm \in [Callers -> {0} \cup Mms]
  /\ cursor \in [Callers -> 0..(Width - 1)] /\ base \in [Callers -> 0..(TaskSize - 1)]
  /\ page \in [Callers -> Nat] /\ done \in [Callers -> Nat]
  /\ moved \in [Callers -> SUBSET ((0..(MaxTransfer - 1)) \X (0..(TaskSize - 1)))]

KindAt(m, a) == IF a < TaskSize THEN layout[m][a \div PageSize] ELSE "hole"
Permitted(m, a, op) ==
  LET k == KindAt(m, a) IN
  IF op = "write" THEN k = "data" ELSE k \in {"data", "file", "lib", "jit"}
Verdict(m, a, op) ==
  IF KindAt(m, a) = "hole" THEN "EFAULT" ELSE Refusal(KindAt(m, a), op)
Bytes(c) == req[c].addr..(req[c].addr + req[c].size - 1)

\* While a caller holds pins or is about to, every byte of its request is mapped with the
\* permission it needs and, for a write, not executable: nothing changed since the check.
OnlyPermitted ==
  \A c \in Callers : pc[c] \in {"pin", "unpin", "copy"} =>
    \A a \in Bytes(c) : Permitted(mm[c], a, req[c].op)

\* Once the range lies in the task: a transfer with a byte that may not be touched ends with
\* the verdict on the lowest such byte and with nothing else, and one without ends well or with
\* an error of the pin (rt_main.c:69-88, 137-151).  The refusals before that are not in it.
RefusedForAReason ==
  \A c \in Callers : pc[c] = "unlock" /\ Copying(c) /\ End(c) <= TaskSize =>
    LET bad == {a \in Bytes(c) : ~Permitted(mm[c], a, req[c].op)} IN
    \/ bad = {} /\ ret[c] \in {"ok", "EFAULT"} \cup PinErrors
    \/ \E a \in bad : (\A b \in bad : a <= b) /\ ret[c] = Verdict(mm[c], a, req[c].op)

\* A write that fails, for any reason, has not touched the target (README.md of the
\* runtime: a failed validation, source copy or partial pin modifies no page).
FailedWriteTouchesNothing ==
  \A c \in Callers : req[c].op = "write" /\ pc[c] = "done" /\ ret[c] # "ok" => moved[c] = {}

\* A transfer that succeeds moved each of its bytes, between the right places, and no other.
CompleteOnSuccess ==
  \A c \in Callers : Copying(c) /\ pc[c] = "done" /\ ret[c] = "ok" =>
    moved[c] = {<<k, req[c].addr + k>> : k \in 0..(req[c].size - 1)}

\* The pages of a request fit the array on the stack of rt_copy_memory.
PagesFit ==
  \A c \in Callers : pc[c] \in {"pin", "copy"} => Count(c) <= DivRoundUp(MaxTransfer, PageSize) + 1

\* MODULE_BASE finds the lowest mapping of the file, as the mappings are under the lock.
BaseIsLowest ==
  \A c \in Callers : pc[c] = "unlock" /\ req[c].op = "base" /\ ret[c] = "ok" =>
    LET starts == {p \in Pages : Named(layout[mm[c]][p])} IN
    \/ starts = {} /\ base[c] = 0
    \/ \E p \in starts : (\A o \in starts : p <= o) /\ base[c] = p * PageSize

\* The pages a caller has pinned, all of its request or those before the one that failed.
Pinned(c) ==
  IF pc[c] = "copy" THEN PagesOf(c)
  ELSE IF pc[c] = "unpin" THEN FirstPages(c, page[c]) ELSE {}

\* References, locks and pins are exactly those of the calls in progress.
NothingLeaked ==
  \A m \in Mms :
    /\ users[m] = Cardinality({c \in Callers : mm[c] = m}) + (IF current = m THEN 1 ELSE 0)
    /\ readers[m] =
         {c \in Callers :
            mm[c] = m /\ pc[c] \in {"check", "pin", "unpin", "copy", "search", "unlock"}}
    /\ \A p \in Pages :
         pins[m][p] = Cardinality({c \in Callers : mm[c] = m /\ p \in Pinned(c)})

\* Every call returns, though its own process may be waiting to change its mappings.
CallReturns == \A c \in Callers : pc[c] # "idle" ~> pc[c] = "idle"

\* The target is never kept from changing its mappings for good.
MapperProceeds == \A m \in Mms : waiting[m] ~> ~waiting[m]
=============================================================================
