--------------------------- MODULE RTBreakpoints ---------------------------
(***************************************************************************)
(* Life of the hardware breakpoints of /dev/rt_a17 (rt_breakpoints.c):     *)
(* threads call BP_CONTROL, BP_GET_HITS on descriptors they may share, the *)
(* last close releases a descriptor, and the target tasks meanwhile trap,  *)
(* exec, change credentials, exit, and leave their TID to another task.    *)
(*                                                                         *)
(* Kernel services are external: perf keeps an event armed on one task,    *)
(* detaches it on exec (remove_on_exec) and exit, and unregisters          *)
(* synchronously; a descriptor is released only after its last ioctl.      *)
(* The queue of hits is the one HitQueue promises (RTHitQueue proves it of *)
(* the ring), without its counters.                                        *)
(*                                                                         *)
(* Bound: MaxIds identities (address spaces and credentials) are created.  *)
(***************************************************************************)
EXTENDS Naturals, Sequences, FiniteSets, FiniteSetsExt

CONSTANTS
  Fds,              \* descriptors of the device
  Callers,          \* threads calling ioctl
  Tasks, PidOf,     \* target tasks, and the TID each one has
  Addrs,            \* watched addresses
  MaxBreakpoints,   \* RT_A17_MAX_BREAKPOINTS, per descriptor
  MaxGlobal,        \* RT_A17_MAX_BREAKPOINTS_GLOBAL
  MaxHits,          \* RT_A17_MAX_HITS, per descriptor
  MaxIds,           \* bound on the identities created
  None

Slots == 1..MaxBreakpoints
Entries == Fds \X Slots           \* an rt_bp_entry: descriptor and index
EntriesOf(f) == {f} \X Slots
Pids == {PidOf[t] : t \in Tasks}
Ids == 0..MaxIds                  \* 0 is NULL

ASSUME LimitsAssumption ==
  MaxBreakpoints \in Nat \ {0} /\ MaxGlobal \in Nat /\ MaxHits \in Nat /\ MaxIds \in Nat
ASSUME SetsAssumption ==
  /\ IsFiniteSet(Fds) /\ IsFiniteSet(Callers)
  /\ None \notin Fds \cup Callers \cup Tasks \cup Entries \cup Pids \cup Addrs
  /\ PidOf \in [Tasks -> Pids]

VARIABLES
  life, mm, cred, ids,      \* targets: alive?, address space, credential; ids created
  handler, trapped,         \* each target's rt_bp_hit: where, and on which entry
  execReaders,              \* holders of task->signal->exec_update_lock for reading
  phase, mutex, entry,      \* sessions: lifetime, owner of the mutex, entries
  queue,                    \* sessions: identities of the queued hits
  perf,                     \* the perf event behind each entry
  total,                    \* rt_bp_total
  credRefs, mmGrabs, mmUsers,       \* references this driver holds
  pc, fd, pid, addr,        \* callers: where, and the request
  slot, task, gotMm, gotCred,       \* callers: rt_bp_add's locals
  granted                   \* history: identities mm_access let a descriptor watch

targets == <<life, mm, cred, ids>>
callbacks == <<handler, trapped>>
sessions == <<phase, mutex, entry, perf>>
refs == <<credRefs, mmGrabs, mmUsers, execReaders>>
callers == <<pc, fd, pid, addr, slot, task, gotMm, gotCred>>
vars == <<targets, callbacks, sessions, queue, total, refs, callers, granted>>

NoEntry == [event |-> FALSE, pid |-> None, addr |-> None, mm |-> 0, cred |-> 0]
NoEvent == [state |-> "none", task |-> None, hits |-> 0]

Init ==
  /\ life = [t \in Tasks |-> "unborn"]
  /\ mm = [t \in Tasks |-> 0] /\ cred = [t \in Tasks |-> 0] /\ ids = 0
  /\ handler = [t \in Tasks |-> "user"] /\ trapped = [t \in Tasks |-> None]
  /\ execReaders = [t \in Tasks |-> {}]
  /\ phase = [f \in Fds |-> "closed"] /\ mutex = [f \in Fds |-> None]
  /\ entry = [e \in Entries |-> NoEntry] /\ perf = [e \in Entries |-> NoEvent]
  /\ queue = [f \in Fds |-> <<>>]
  /\ total = 0 /\ credRefs = 0 /\ mmGrabs = 0 /\ mmUsers = 0
  /\ pc = [c \in Callers |-> "idle"] /\ fd = [c \in Callers |-> None]
  /\ pid = [c \in Callers |-> None] /\ addr = [c \in Callers |-> None]
  /\ slot = [c \in Callers |-> None] /\ task = [c \in Callers |-> None]
  /\ gotMm = [c \in Callers |-> 0] /\ gotCred = [c \in Callers |-> 0]
  /\ granted = {}

-----------------------------------------------------------------------------
(* Target tasks *)

InUser(t) == life[t] = "alive" /\ handler[t] = "user"

DetachFrom(t) ==
  perf' = [e \in Entries |-> IF perf[e].task = t /\ perf[e].state # "none"
                               THEN [perf[e] EXCEPT !.state = "detached"] ELSE perf[e]]

\* A new task takes its TID, free by now.
Spawn(t) ==
  /\ life[t] = "unborn"
  /\ \A u \in Tasks : PidOf[u] = PidOf[t] => life[u] # "alive"
  /\ ids < MaxIds
  /\ ids' = ids + 1
  /\ life' = [life EXCEPT ![t] = "alive"]
  /\ mm' = [mm EXCEPT ![t] = ids']
  /\ cred' = [cred EXCEPT ![t] = ids']
  /\ UNCHANGED <<callbacks, sessions, queue, total, refs, callers, granted>>

\* exec holds exec_update_lock for writing, installs a fresh mm, possibly a new
\* credential, and removes the events.
Exec(t) ==
  /\ InUser(t)
  /\ execReaders[t] = {}
  /\ ids < MaxIds
  /\ ids' = ids + 1
  /\ mm' = [mm EXCEPT ![t] = ids']
  /\ cred' \in {cred, [cred EXCEPT ![t] = ids']}
  /\ DetachFrom(t)
  /\ UNCHANGED <<life, callbacks, phase, mutex, entry, queue, total, refs, callers, granted>>

\* setuid and the like: commit_creds takes no lock the driver holds.
SetCred(t) ==
  /\ InUser(t)
  /\ ids < MaxIds
  /\ ids' = ids + 1
  /\ cred' = [cred EXCEPT ![t] = ids']
  /\ UNCHANGED <<life, mm, callbacks, sessions, queue, total, refs, callers, granted>>

Exit(t) ==
  /\ InUser(t)
  /\ life' = [life EXCEPT ![t] = "dead"]
  /\ mm' = [mm EXCEPT ![t] = 0]
  /\ DetachFrom(t)
  /\ UNCHANGED <<cred, ids, callbacks, phase, mutex, entry, queue, total, refs, callers, granted>>

-----------------------------------------------------------------------------
(* rt_bp_hit, in the context of target t *)

Trap(t) ==
  /\ InUser(t)
  /\ \E e \in Entries :
       /\ perf[e].state = "armed" /\ perf[e].task = t
       /\ trapped' = [trapped EXCEPT ![t] = e]
  /\ handler' = [handler EXCEPT ![t] = "disarm"]
  /\ UNCHANGED <<targets, sessions, queue, total, refs, callers, granted>>

Leave(t) ==
  /\ handler' = [handler EXCEPT ![t] = "user"]
  /\ trapped' = [trapped EXCEPT ![t] = None]

\* Fault: the event is not disarmed before its hit is recorded.
DisarmForgotten(t) ==
  /\ handler[t] = "disarm"
  /\ handler' = [handler EXCEPT ![t] = "check"]
  /\ UNCHANGED <<trapped, targets, sessions, queue, total, refs, callers, granted>>

\* modify_user_hw_breakpoint; on error the callback counts it and returns.
Disarm(t) ==
  /\ handler[t] = "disarm"
  /\ \/ /\ perf' = [perf EXCEPT ![trapped[t]].state = "disarmed"]
        /\ handler' = [handler EXCEPT ![t] = "check"]
        /\ UNCHANGED trapped
     \/ Leave(t) /\ UNCHANGED perf
  /\ UNCHANGED <<targets, phase, mutex, entry, queue, total, refs, callers, granted>>

\* Fault: the credential of the trapping task is not compared.
CheckIdentityMmOnly(t) ==
  /\ handler[t] = "check"
  /\ IF mm[t] = entry[trapped[t]].mm
       THEN handler' = [handler EXCEPT ![t] = "record"] /\ UNCHANGED trapped
       ELSE Leave(t)
  /\ UNCHANGED <<targets, sessions, queue, total, refs, callers, granted>>

CheckIdentity(t) ==
  /\ handler[t] = "check"
  /\ IF mm[t] = entry[trapped[t]].mm /\ cred[t] = entry[trapped[t]].cred
       THEN handler' = [handler EXCEPT ![t] = "record"] /\ UNCHANGED trapped
       ELSE Leave(t)
  /\ UNCHANGED <<targets, sessions, queue, total, refs, callers, granted>>

Record(t) ==
  LET e == trapped[t]  f == trapped[t][1] IN
  /\ handler[t] = "record"
  /\ Leave(t)
  /\ perf' = [perf EXCEPT ![e].hits = @ + 1]
  /\ queue' = IF Len(queue[f]) = MaxHits THEN queue
              ELSE [queue EXCEPT ![f] = Append(@, [task |-> t, mm |-> mm[t], cred |-> cred[t]])]
  /\ UNCHANGED <<targets, phase, mutex, entry, total, refs, callers, granted>>

-----------------------------------------------------------------------------
(* Sessions: rt_bp_open, rt_bp_release, and dropping an entry (rt_bp_drop) *)

Open(f) ==
  /\ phase[f] = "closed"
  /\ phase' = [phase EXCEPT ![f] = "open"]
  /\ UNCHANGED <<mutex, entry, perf, targets, callbacks, queue, total, refs, callers, granted>>

\* The last reference to the file is gone, so no ioctl is in progress.
Close(f) ==
  /\ phase[f] = "open"
  /\ \A c \in Callers : fd[c] # f
  /\ phase' = [phase EXCEPT ![f] = "closing"]
  /\ UNCHANGED <<mutex, entry, perf, targets, callbacks, queue, total, refs, callers, granted>>

\* Fault: the callback that is still running is not waited for.
UnregisterAsync(e) ==
  /\ entry[e].event /\ perf[e].state # "none"
  /\ perf' = [perf EXCEPT ![e] = NoEvent]

\* Fault: an event that has fired is taken for one already gone.
UnregisterArmedOnly(e) ==
  /\ entry[e].event /\ perf[e].state = "armed"
  /\ \A t \in Tasks : trapped[t] # e
  /\ perf' = [perf EXCEPT ![e] = NoEvent]

\* unregister_hw_breakpoint: synchronous with the callback of the event.
Unregister(e) ==
  /\ entry[e].event /\ perf[e].state # "none"
  /\ \A t \in Tasks : trapped[t] # e
  /\ perf' = [perf EXCEPT ![e] = NoEvent]

\* The rest of rt_bp_drop.
FreeEntry(e) ==
  /\ entry[e].event /\ perf[e].state = "none"
  /\ entry' = [entry EXCEPT ![e] = NoEntry]
  /\ credRefs' = credRefs - 1
  /\ mmGrabs' = mmGrabs - 1
  /\ total' = total - 1
  /\ UNCHANGED <<mmUsers, execReaders>>

Releasing(f, e) == phase[f] = "closing" /\ e \in EntriesOf(f)

ReleaseUnregister(f) ==
  /\ \E e \in Entries : Releasing(f, e) /\ Unregister(e)
  /\ UNCHANGED <<phase, mutex, entry, targets, callbacks, queue, total, refs, callers, granted>>

ReleaseFree(f) ==
  /\ \E e \in Entries : Releasing(f, e) /\ FreeEntry(e)
  /\ UNCHANGED <<phase, mutex, perf, targets, callbacks, queue, callers, granted>>

\* Fault: the loop over the entries stops one short.
ReleaseDoneShort(f) ==
  /\ phase[f] = "closing"
  /\ \A i \in 1..(MaxBreakpoints - 1) : ~entry[<<f, i>>].event
  /\ phase' = [phase EXCEPT ![f] = "closed"]
  /\ queue' = [queue EXCEPT ![f] = <<>>]
  /\ granted' = {g \in granted : g.fd # f}
  /\ UNCHANGED <<mutex, entry, perf, targets, callbacks, total, refs, callers>>

\* kfree_sensitive(session)
ReleaseDone(f) ==
  /\ phase[f] = "closing"
  /\ \A e \in EntriesOf(f) : ~entry[e].event
  /\ phase' = [phase EXCEPT ![f] = "closed"]
  /\ queue' = [queue EXCEPT ![f] = <<>>]
  /\ granted' = {g \in granted : g.fd # f}
  /\ UNCHANGED <<mutex, entry, perf, targets, callbacks, total, refs, callers>>

-----------------------------------------------------------------------------
(* rt_bp_ioctl in caller c *)

Goto(c, state) == pc' = [pc EXCEPT ![c] = state]

Call(c) ==
  /\ pc[c] = "idle"
  /\ \E f \in Fds : phase[f] = "open" /\ fd' = [fd EXCEPT ![c] = f]
  /\ Goto(c, "wait")
  /\ UNCHANGED <<pid, addr, slot, task, gotMm, gotCred,
                 targets, callbacks, sessions, queue, total, refs, granted>>

\* mutex_lock_interruptible ended by a signal, and the checks before it
Refused(c) ==
  /\ pc[c] = "wait"
  /\ Goto(c, "idle")
  /\ fd' = [fd EXCEPT ![c] = None]
  /\ UNCHANGED <<pid, addr, slot, task, gotMm, gotCred,
                 targets, callbacks, sessions, queue, total, refs, granted>>

\* The session is locked and the request copied in.
Lock(c) ==
  /\ pc[c] = "wait"
  /\ mutex[fd[c]] = None
  /\ mutex' = [mutex EXCEPT ![fd[c]] = c]
  /\ \/ Goto(c, "drain") /\ UNCHANGED <<pid, addr>>
     \/ /\ \E op \in {"add", "remove"} : Goto(c, op)
        /\ \E p \in Pids : pid' = [pid EXCEPT ![c] = p]
        /\ \E a \in Addrs : addr' = [addr EXCEPT ![c] = a]
  /\ UNCHANGED <<fd, slot, task, gotMm, gotCred,
                 phase, entry, perf, targets, callbacks, queue, total, refs, granted>>

\* rt_bp_get_hits: a prefix of the queue, empty when it fails or nothing is queued.
Drain(c) ==
  /\ pc[c] = "drain"
  /\ \E k \in 0..Len(queue[fd[c]]) :
       queue' = [queue EXCEPT ![fd[c]] = SubSeq(@, k + 1, Len(@))]
  /\ Goto(c, "unlock")
  /\ UNCHANGED <<fd, pid, addr, slot, task, gotMm, gotCred,
                 targets, callbacks, sessions, total, refs, granted>>

Matching(c) ==
  {e \in EntriesOf(fd[c]) : entry[e].event /\ entry[e].pid = pid[c] /\ entry[e].addr = addr[c]}

RemoveFind(c) ==
  /\ pc[c] = "remove"
  /\ IF Matching(c) = {}
       THEN Goto(c, "unlock") /\ UNCHANGED slot
       ELSE /\ \E e \in Matching(c) : slot' = [slot EXCEPT ![c] = e]
            /\ Goto(c, "unregister")
  /\ UNCHANGED <<fd, pid, addr, task, gotMm, gotCred,
                 targets, callbacks, sessions, queue, total, refs, granted>>

RemoveUnregister(c) ==
  /\ pc[c] = "unregister"
  /\ Unregister(slot[c])
  /\ Goto(c, "free")
  /\ UNCHANGED <<fd, pid, addr, slot, task, gotMm, gotCred,
                 phase, mutex, entry, targets, callbacks, queue, total, refs, granted>>

RemoveFree(c) ==
  /\ pc[c] = "free"
  /\ FreeEntry(slot[c])
  /\ Goto(c, "unlock")
  /\ UNCHANGED <<fd, pid, addr, slot, task, gotMm, gotCred,
                 phase, mutex, perf, targets, callbacks, queue, granted>>

\* Fault: one way out returns with the session locked.
UnlockForgotten(c) ==
  /\ pc[c] = "unlock"
  /\ mutex' = [mutex EXCEPT ![fd[c]] = IF slot[c] = None /\ addr[c] # None THEN c ELSE None]
  /\ Goto(c, "idle")
  /\ fd' = [fd EXCEPT ![c] = None]
  /\ pid' = [pid EXCEPT ![c] = None]
  /\ addr' = [addr EXCEPT ![c] = None]
  /\ slot' = [slot EXCEPT ![c] = None]
  /\ UNCHANGED <<task, gotMm, gotCred,
                 phase, entry, perf, targets, callbacks, queue, total, refs, granted>>

\* mutex_unlock and return
Unlock(c) ==
  /\ pc[c] = "unlock"
  /\ mutex' = [mutex EXCEPT ![fd[c]] = None]
  /\ Goto(c, "idle")
  /\ fd' = [fd EXCEPT ![c] = None]
  /\ pid' = [pid EXCEPT ![c] = None]
  /\ addr' = [addr EXCEPT ![c] = None]
  /\ slot' = [slot EXCEPT ![c] = None]
  /\ UNCHANGED <<task, gotMm, gotCred,
                 phase, entry, perf, targets, callbacks, queue, total, refs, granted>>

-----------------------------------------------------------------------------
(* rt_bp_add in caller c, under the session mutex *)

FreeSlots(f) == {e \in EntriesOf(f) : ~entry[e].event}
FirstFree(f) == {e \in FreeSlots(f) : \A o \in FreeSlots(f) : e[2] <= o[2]}   \* at most one

\* Fault: the search for a duplicate ends at the first free slot.
AddFindHasty(c) ==
  /\ pc[c] = "add"
  /\ LET seen == {e \in Matching(c) : \A o \in FreeSlots(fd[c]) : e[2] < o[2]} IN
     \/ /\ Goto(c, "unlock")
        /\ UNCHANGED <<slot, task, gotCred, credRefs>>
     \/ /\ seen = {}
        /\ \E e \in FirstFree(fd[c]) : slot' = [slot EXCEPT ![c] = e]
        /\ \E t \in Tasks :
             /\ life[t] = "alive" /\ PidOf[t] = pid[c]
             /\ task' = [task EXCEPT ![c] = t]
             /\ gotCred' = [gotCred EXCEPT ![c] = cred[t]]
        /\ credRefs' = credRefs + 1
        /\ Goto(c, "access")
  /\ UNCHANGED <<fd, pid, addr, gotMm, targets, callbacks, sessions, queue, total,
                 mmGrabs, mmUsers, execReaders, granted>>

\* The arguments, EEXIST, the first free slot or ENOSPC, the task or ESRCH, and its
\* credential of this moment.
AddFind(c) ==
  /\ pc[c] = "add"
  /\ \/ /\ Goto(c, "unlock")
        /\ UNCHANGED <<slot, task, gotCred, credRefs>>
     \/ /\ Matching(c) = {}
        /\ \E e \in FirstFree(fd[c]) : slot' = [slot EXCEPT ![c] = e]
        /\ \E t \in Tasks :
             /\ life[t] = "alive" /\ PidOf[t] = pid[c]
             /\ task' = [task EXCEPT ![c] = t]
             /\ gotCred' = [gotCred EXCEPT ![c] = cred[t]]
        /\ credRefs' = credRefs + 1
        /\ Goto(c, "access")
  /\ UNCHANGED <<fd, pid, addr, gotMm, targets, callbacks, sessions, queue, total,
                 mmGrabs, mmUsers, execReaders, granted>>

\* mm_access: denied, or the mm of a live task that the caller may trace now.
AddAccess(c) ==
  LET t == task[c] IN
  /\ pc[c] = "access"
  /\ \/ Goto(c, "put") /\ UNCHANGED <<gotMm, mmUsers, granted>>
     \/ /\ mm[t] # 0
        /\ gotMm' = [gotMm EXCEPT ![c] = mm[t]]
        /\ mmUsers' = mmUsers + 1
        /\ granted' = granted \cup {[fd |-> fd[c], task |-> t, mm |-> mm[t], cred |-> cred[t]]}
        /\ Goto(c, "exec_lock")
  /\ UNCHANGED <<fd, pid, addr, slot, task, gotCred, targets, callbacks, sessions, queue,
                 total, credRefs, mmGrabs, execReaders>>

\* down_read_killable(&task->signal->exec_update_lock)
AddExecLock(c) ==
  /\ pc[c] = "exec_lock"
  /\ \/ Goto(c, "put") /\ UNCHANGED execReaders
     \/ /\ execReaders' = [execReaders EXCEPT ![task[c]] = @ \cup {c}]
        /\ Goto(c, "recheck")
  /\ UNCHANGED <<fd, pid, addr, slot, task, gotMm, gotCred, targets, callbacks, sessions,
                 queue, total, credRefs, mmGrabs, mmUsers, granted>>

\* Fault: the authorization is not checked again under exec_update_lock.
AddRecheckForgotten(c) ==
  /\ pc[c] = "recheck"
  /\ Goto(c, "quota")
  /\ UNCHANGED <<fd, pid, addr, slot, task, gotMm, gotCred, targets, callbacks, sessions,
                 queue, total, refs, granted>>

\* mm and credential are still the authorized ones (else EAGAIN), the task is not
\* compat and the mapping will do (else an error): both are the caller's bad luck.
AddRecheck(c) ==
  /\ pc[c] = "recheck"
  /\ \/ Goto(c, "put")
     \/ /\ mm[task[c]] = gotMm[c] /\ cred[task[c]] = gotCred[c]
        /\ Goto(c, "quota")
  /\ UNCHANGED <<fd, pid, addr, slot, task, gotMm, gotCred, targets, callbacks, sessions,
                 queue, total, refs, granted>>

\* Fault: the limit is compared before the increment, one too late.
AddQuotaLate(c) ==
  /\ pc[c] = "quota"
  /\ total' = total + 1
  /\ Goto(c, IF total > MaxGlobal THEN "over_quota" ELSE "register")
  /\ UNCHANGED <<fd, pid, addr, slot, task, gotMm, gotCred, targets, callbacks, sessions,
                 queue, refs, granted>>

\* atomic_inc_return(&rt_bp_total) > RT_A17_MAX_BREAKPOINTS_GLOBAL
AddQuota(c) ==
  /\ pc[c] = "quota"
  /\ total' = total + 1
  /\ Goto(c, IF total' > MaxGlobal THEN "over_quota" ELSE "register")
  /\ UNCHANGED <<fd, pid, addr, slot, task, gotMm, gotCred, targets, callbacks, sessions,
                 queue, refs, granted>>

\* Fault: the refused registration keeps its unit of the quota.
AddOverQuotaKept(c) ==
  /\ pc[c] = "over_quota"
  /\ Goto(c, "put")
  /\ UNCHANGED <<fd, pid, addr, slot, task, gotMm, gotCred, targets, callbacks, sessions,
                 queue, total, refs, granted>>

AddOverQuota(c) ==
  /\ pc[c] = "over_quota"
  /\ total' = total - 1
  /\ Goto(c, "put")
  /\ UNCHANGED <<fd, pid, addr, slot, task, gotMm, gotCred, targets, callbacks, sessions,
                 queue, refs, granted>>

Filled(c) ==
  [event |-> FALSE, pid |-> pid[c], addr |-> addr[c], mm |-> gotMm[c], cred |-> gotCred[c]]

\* Fill the entry, then register: from here the event may fire, before the entry
\* knows its event.  perf refuses a task that is gone, or has no slot to give.
AddRegister(c) ==
  /\ pc[c] = "register"
  /\ mmGrabs' = mmGrabs + 1
  /\ entry' = [entry EXCEPT ![slot[c]] = Filled(c)]
  /\ \/ /\ life[task[c]] = "alive"
        /\ perf' = [perf EXCEPT ![slot[c]] = [state |-> "armed", task |-> task[c], hits |-> 0]]
        /\ Goto(c, "store")
     \/ Goto(c, "roll_back") /\ UNCHANGED perf
  /\ UNCHANGED <<fd, pid, addr, slot, task, gotMm, gotCred, targets, callbacks, phase, mutex,
                 queue, total, credRefs, mmUsers, execReaders, granted>>

AddRollBack(c) ==
  /\ pc[c] = "roll_back"
  /\ mmGrabs' = mmGrabs - 1
  /\ entry' = [entry EXCEPT ![slot[c]] = NoEntry]
  /\ total' = total - 1
  /\ Goto(c, "put")
  /\ UNCHANGED <<fd, pid, addr, slot, task, gotMm, gotCred, targets, callbacks, phase, mutex,
                 perf, queue, credRefs, mmUsers, execReaders, granted>>

\* entry->event = event; the entry now owns the credential reference.
AddStore(c) ==
  /\ pc[c] = "store"
  /\ entry' = [entry EXCEPT ![slot[c]].event = TRUE]
  /\ gotCred' = [gotCred EXCEPT ![c] = 0]
  /\ Goto(c, "put")
  /\ UNCHANGED <<fd, pid, addr, slot, task, gotMm, targets, callbacks, phase, mutex, perf,
                 queue, total, refs, granted>>

\* Fault: the credential is put although the entry owns it.
AddPutTwice(c) ==
  /\ pc[c] = "put"
  /\ execReaders' = [execReaders EXCEPT ![task[c]] = @ \ {c}]
  /\ mmUsers' = IF gotMm[c] # 0 THEN mmUsers - 1 ELSE mmUsers
  /\ credRefs' = credRefs - 1
  /\ gotMm' = [gotMm EXCEPT ![c] = 0]
  /\ gotCred' = [gotCred EXCEPT ![c] = 0]
  /\ task' = [task EXCEPT ![c] = None]
  /\ Goto(c, "unlock")
  /\ UNCHANGED <<fd, pid, addr, slot, targets, callbacks, sessions, queue, total, mmGrabs,
                 granted>>

\* Fault: leaving without up_read when nothing was registered.
AddPutLocked(c) ==
  /\ pc[c] = "put"
  /\ execReaders' = IF gotCred[c] = 0 THEN [execReaders EXCEPT ![task[c]] = @ \ {c}]
                    ELSE execReaders
  /\ mmUsers' = IF gotMm[c] # 0 THEN mmUsers - 1 ELSE mmUsers
  /\ credRefs' = IF gotCred[c] # 0 THEN credRefs - 1 ELSE credRefs
  /\ gotMm' = [gotMm EXCEPT ![c] = 0]
  /\ gotCred' = [gotCred EXCEPT ![c] = 0]
  /\ task' = [task EXCEPT ![c] = None]
  /\ Goto(c, "unlock")
  /\ UNCHANGED <<fd, pid, addr, slot, targets, callbacks, sessions, queue, total, mmGrabs,
                 granted>>

\* unlock_exec, put_mm, put_task: release what this call still holds.
AddPut(c) ==
  /\ pc[c] = "put"
  /\ execReaders' = [execReaders EXCEPT ![task[c]] = @ \ {c}]
  /\ mmUsers' = IF gotMm[c] # 0 THEN mmUsers - 1 ELSE mmUsers
  /\ credRefs' = IF gotCred[c] # 0 THEN credRefs - 1 ELSE credRefs
  /\ gotMm' = [gotMm EXCEPT ![c] = 0]
  /\ gotCred' = [gotCred EXCEPT ![c] = 0]
  /\ task' = [task EXCEPT ![c] = None]
  /\ Goto(c, "unlock")
  /\ UNCHANGED <<fd, pid, addr, slot, targets, callbacks, sessions, queue, total, mmGrabs,
                 granted>>

-----------------------------------------------------------------------------
Target(t) == Spawn(t) \/ Exec(t) \/ SetCred(t) \/ Exit(t)
Hit(t) == Disarm(t) \/ CheckIdentity(t) \/ Record(t)
Release(f) == ReleaseUnregister(f) \/ ReleaseFree(f) \/ ReleaseDone(f)
Add(c) ==
  \/ AddFind(c) \/ AddAccess(c) \/ AddExecLock(c) \/ AddRecheck(c) \/ AddQuota(c)
  \/ AddOverQuota(c) \/ AddRegister(c) \/ AddRollBack(c) \/ AddStore(c) \/ AddPut(c)
Remove(c) == RemoveFind(c) \/ RemoveUnregister(c) \/ RemoveFree(c)
Ioctl(c) == Call(c) \/ Refused(c) \/ Lock(c) \/ Drain(c) \/ Add(c) \/ Remove(c) \/ Unlock(c)

Next ==
  \/ \E t \in Tasks : Target(t) \/ Trap(t) \/ Hit(t)
  \/ \E f \in Fds : Open(f) \/ Close(f) \/ Release(f)
  \/ \E c \in Callers : Ioctl(c)

Spec == Init /\ [][Next]_vars

(* Callers and the closing thread are scheduled; an exception handler runs to its
   end; the mutex reaches a waiter that keeps losing it.  Unregistering waits for
   an interrupt on the target's CPU, which is taken on return from the exception,
   before the instruction can trap again: hence SF where the handler may recur. *)
Fairness ==
  /\ \A t \in Tasks : WF_vars(Hit(t))
  /\ \A f \in Fds : SF_vars(ReleaseUnregister(f)) /\ WF_vars(ReleaseFree(f) \/ ReleaseDone(f))
  /\ \A c \in Callers :
       /\ SF_vars(Lock(c))
       /\ SF_vars(RemoveUnregister(c))
       /\ WF_vars(Drain(c) \/ Add(c) \/ RemoveFind(c) \/ RemoveFree(c) \/ Unlock(c))

FairSpec == Spec /\ Fairness

-----------------------------------------------------------------------------
CallerStates ==
  {"idle", "wait", "drain", "remove", "unregister", "free", "unlock", "add", "access",
   "exec_lock", "recheck", "quota", "over_quota", "register", "roll_back", "store", "put"}

Identity == [fd : Fds, task : Tasks, mm : Ids, cred : Ids]
HitRecords == [task : Tasks, mm : Ids, cred : Ids]
EntryRecords ==
  [event : BOOLEAN, pid : Pids \cup {None}, addr : Addrs \cup {None}, mm : Ids, cred : Ids]
EventRecords ==
  [state : {"none", "armed", "disarmed", "detached"}, task : Tasks \cup {None}, hits : Nat]

TargetsOK ==
  /\ life \in [Tasks -> {"unborn", "alive", "dead"}]
  /\ mm \in [Tasks -> Ids] /\ cred \in [Tasks -> Ids] /\ ids \in Ids
  /\ handler \in [Tasks -> {"user", "disarm", "check", "record"}]
  /\ trapped \in [Tasks -> Entries \cup {None}]
  /\ execReaders \in [Tasks -> SUBSET Callers]

SessionsOK ==
  /\ phase \in [Fds -> {"closed", "open", "closing"}]
  /\ mutex \in [Fds -> Callers \cup {None}]
  /\ entry \in [Entries -> EntryRecords]
  /\ perf \in [Entries -> EventRecords]
  /\ queue \in [Fds -> Seq(HitRecords)]
  /\ granted \subseteq Identity

CallersOK ==
  /\ pc \in [Callers -> CallerStates]
  /\ fd \in [Callers -> Fds \cup {None}]
  /\ pid \in [Callers -> Pids \cup {None}] /\ addr \in [Callers -> Addrs \cup {None}]
  /\ slot \in [Callers -> Entries \cup {None}] /\ task \in [Callers -> Tasks \cup {None}]
  /\ gotMm \in [Callers -> Ids] /\ gotCred \in [Callers -> Ids]

CountersOK == total \in Nat /\ credRefs \in Nat /\ mmGrabs \in Nat /\ mmUsers \in Nat

\* Types, and counters that unbalanced references would take below zero.
TypeOK == TargetsOK /\ SessionsOK /\ CallersOK /\ CountersOK

Live(e) == perf[e].state # "none"
Held == {e \in Entries : entry[e].event}
CallersAt(states) == {c \in Callers : pc[c] \in states}

\* rt_bp_total and the references count what is held, at every step and not only when
\* the driver is idle: the invariant behind balanced() of test_breakpoints.c.
ReferencesBalanced ==
  /\ total = Cardinality(Held)
             + Cardinality(CallersAt({"over_quota", "register", "roll_back", "store"}))
  /\ credRefs = Cardinality(Held) + Cardinality({c \in Callers : gotCred[c] # 0})
  /\ mmGrabs = Cardinality(Held) + Cardinality(CallersAt({"roll_back", "store"}))
  /\ mmUsers = Cardinality({c \in Callers : gotMm[c] # 0})

\* However many callers overshoot rt_bp_total at once, no more events exist than the
\* global limit.
EventsWithinQuota == Cardinality({e \in Entries : Live(e)}) <= MaxGlobal

\* An event stays attached only to the address space and credential that mm_access
\* let this descriptor watch, through every exec and credential change of the target.
AttachedAsAuthorized ==
  \A e \in Entries : perf[e].state \in {"armed", "disarmed"} =>
    /\ mm[perf[e].task] = entry[e].mm
    /\ [fd |-> e[1], task |-> perf[e].task, mm |-> entry[e].mm, cred |-> entry[e].cred]
         \in granted

\* A queued hit shows registers of an identity this session was allowed to watch.
HitsAuthorized ==
  \A f \in Fds : \A i \in 1..Len(queue[f]) :
    LET h == queue[f][i] IN
    [fd |-> f, task |-> h.task, mm |-> h.mm, cred |-> h.cred] \in granted

\* A callback in progress still has its event, its filled entry and its session: none
\* of them is freed or reused under it by REMOVE or by the close.
CallbackHasItsEntry ==
  \A t \in Tasks : handler[t] # "user" =>
    LET e == trapped[t] IN
    /\ e \in Entries
    /\ Live(e) /\ perf[e].task = t
    /\ entry[e].pid = PidOf[t] /\ entry[e].mm # 0
    /\ phase[e[1]] # "closed"

\* One registration records at most one hit.
OneHitPerRegistration == \A e \in Entries : perf[e].hits <= 1

\* A descriptor never has two registrations of the same TID and address.
UniqueRegistrations ==
  \A e \in Held : \A o \in Held :
    e[1] = o[1] /\ entry[e].pid = entry[o].pid /\ entry[e].addr = entry[o].addr => e = o

\* A closed descriptor leaves no event, no entry and no hit behind.
ClosedIsClean ==
  \A f \in Fds : phase[f] = "closed" =>
    queue[f] = <<>> /\ \A e \in EntriesOf(f) : ~Live(e) /\ entry[e] = NoEntry

\* Every ioctl returns, waiting for callbacks and other threads as it may.
CallReturns == \A c \in Callers : pc[c] # "idle" ~> pc[c] = "idle"

\* Every close ends, even while the events it removes keep firing.
CloseEnds == \A f \in Fds : phase[f] = "closing" ~> phase[f] = "closed"

\* The target's exec is never blocked for good by a registration.
ExecUnblocked == \A t \in Tasks : \A c \in Callers : c \in execReaders[t] ~> c \notin execReaders[t]
=============================================================================
