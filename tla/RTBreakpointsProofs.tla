------------------------ MODULE RTBreakpointsProofs ------------------------
(***************************************************************************)
(* Proofs about RTBreakpoints, for any number of descriptors, callers,     *)
(* targets, addresses and slots.                                           *)
(***************************************************************************)
EXTENDS RTBreakpoints, FiniteSetTheorems, TLAPS

Shape == TargetsOK /\ SessionsOK /\ CallersOK

Filling == {"roll_back", "store"}
Checked == {"quota", "over_quota", "register"} \cup Filling
Locked == {"recheck"} \cup Checked
Adding == {"access", "exec_lock"} \cup Locked

\* Inside an ioctl the caller owns the session, which is open.
Owning(c) ==
  /\ pc[c] = "idle" => fd[c] = None
  /\ pc[c] # "idle" => fd[c] \in Fds /\ phase[fd[c]] = "open"
  /\ pc[c] \notin {"idle", "wait"} => mutex[fd[c]] = c

\* The slot a caller fills stays free of a registration, and of any other like its own.
Placed(c) ==
  /\ pc[c] \in Adding =>
       /\ slot[c] \in EntriesOf(fd[c]) /\ ~entry[slot[c]].event
       /\ \A o \in EntriesOf(fd[c]) :
            entry[o].event => entry[o].pid # pid[c] \/ entry[o].addr # addr[c]
  /\ pc[c] \in Adding \ {"store"} => ~Live(slot[c])
  /\ pc[c] = "store" => Live(slot[c]) /\ entry[slot[c]] = Filled(c)
  /\ pc[c] \in {"unregister", "free"} => slot[c] \in EntriesOf(fd[c])

Grant(f, t, m, k) == [fd |-> f, task |-> t, mm |-> m, cred |-> k]

\* What rt_bp_add holds of its target, and what mm_access allowed.
Targeting(c) ==
  /\ pc[c] \in Adding \cup {"put"} => task[c] \in Tasks /\ life[task[c]] # "unborn"
  /\ pc[c] \in Adding =>
       pid[c] = PidOf[task[c]] /\ gotCred[c] # 0 /\ gotCred[c] <= cred[task[c]]
  /\ pc[c] \in {"exec_lock"} \cup Locked => gotMm[c] # 0
  /\ pc[c] \in {"exec_lock", "recheck"} =>
       \E k \in Ids : /\ gotCred[c] <= k /\ k <= cred[task[c]]
                      /\ Grant(fd[c], task[c], gotMm[c], k) \in granted
  /\ pc[c] \in Checked =>
       /\ Grant(fd[c], task[c], gotMm[c], gotCred[c]) \in granted
       /\ life[task[c]] = "alive" => mm[task[c]] = gotMm[c]
  /\ pc[c] \in Locked => c \in execReaders[task[c]]

\* Credentials only move forward.
Born == \A t \in Tasks : cred[t] <= ids /\ (life[t] # "unborn" => cred[t] # 0)

\* An entry without its event is blank, or being filled.
Vacant == \A e \in Entries : ~entry[e].event =>
  (entry[e] = NoEntry /\ ~Live(e)) \/ \E c \in Callers : pc[c] \in Filling /\ slot[c] = e

\* Events and the entries behind them.
Watched(e) ==
  /\ ~Live(e) => perf[e].hits = 0
  /\ perf[e].state = "armed" => perf[e].hits = 0
  /\ perf[e].hits <= 1
  /\ Live(e) =>
       /\ perf[e].task \in Tasks /\ life[perf[e].task] # "unborn"
       /\ entry[e].pid = PidOf[perf[e].task] /\ entry[e].mm # 0
       /\ Grant(e[1], perf[e].task, entry[e].mm, entry[e].cred) \in granted
       /\ phase[e[1]] # "closed"
  /\ perf[e].state \in {"armed", "disarmed"} =>
       life[perf[e].task] = "alive" /\ mm[perf[e].task] = entry[e].mm

\* A running callback works on the event that trapped its task.
Firing(t) ==
  /\ handler[t] = "user" => trapped[t] = None
  /\ handler[t] # "user" =>
       /\ life[t] = "alive" /\ trapped[t] \in Entries /\ perf[trapped[t]].task = t
  /\ handler[t] = "disarm" => perf[trapped[t]].state = "armed"
  /\ handler[t] \in {"check", "record"} =>
       perf[trapped[t]].state = "disarmed" /\ perf[trapped[t]].hits = 0
  /\ handler[t] = "record" =>
       mm[t] = entry[trapped[t]].mm /\ cred[t] = entry[trapped[t]].cred

Closed == \A f \in Fds : phase[f] = "closed" =>
  queue[f] = <<>> /\ \A e \in EntriesOf(f) : ~entry[e].event

AllOwning == \A c \in Callers : Owning(c)
AllPlaced == \A c \in Callers : Placed(c)
AllTargeting == \A c \in Callers : Targeting(c)
AllWatched == \A e \in Entries : Watched(e)
AllFiring == \A t \in Tasks : Firing(t)

SInv ==
  /\ Shape /\ Born
  /\ AllOwning /\ AllPlaced /\ AllTargeting
  /\ Vacant /\ AllWatched /\ AllFiring
  /\ HitsAuthorized /\ UniqueRegistrations /\ Closed

-----------------------------------------------------------------------------
(* Types *)

\* An entry belongs to one descriptor.
LEMMA EntryFd ==
  /\ \A e \in Entries : e[1] \in Fds /\ e \in EntriesOf(e[1])
  /\ \A f \in Fds : \A e \in EntriesOf(f) : e \in Entries /\ e[1] = f
BY DEF Entries, EntriesOf

\* What memset leaves is an entry, what perf frees an event.
LEMMA Blanks == 0 \in Ids /\ NoEntry \in EntryRecords /\ NoEvent \in EventRecords
<1>1. 0 \in Ids  BY LimitsAssumption DEF Ids
<1> QED BY <1>1 DEF NoEntry, NoEvent, EntryRecords, EventRecords

\* The driver starts with well-formed variables.
LEMMA InitShape == Init => Shape
<1> SUFFICES ASSUME Init PROVE Shape  OBVIOUS
<1>1. TargetsOK  BY Blanks DEF Init, TargetsOK
<1>2. SessionsOK  BY Blanks DEF Init, SessionsOK
<1>3. CallersOK  BY Blanks DEF Init, CallersOK, CallerStates
<1> QED BY <1>1, <1>2, <1>3 DEF Shape

\* Detaching a task's events leaves events.
LEMMA DetachShape ==
  ASSUME SessionsOK, NEW t \in Tasks, DetachFrom(t)
  PROVE  perf' \in [Entries -> EventRecords]
<1>1. \A e \in Entries : [perf[e] EXCEPT !.state = "detached"] \in EventRecords
  BY DEF SessionsOK, EventRecords
<1> QED BY <1>1 DEF DetachFrom, SessionsOK

\* Targets' own steps keep the types.
LEMMA TargetShape == ASSUME Shape, NEW t \in Tasks, Target(t) PROVE Shape'
<1> USE LimitsAssumption DEF Shape, callbacks, sessions, refs, callers
<1>0. ids < MaxIds => ids + 1 \in Ids  BY DEF TargetsOK, Ids
<1>1. CASE Spawn(t)  BY <1>1, <1>0 DEF Spawn, TargetsOK, SessionsOK, CallersOK
<1>2. CASE Exec(t)
  <2>1. cred' \in [Tasks -> Ids]  BY <1>2, <1>0 DEF Exec, TargetsOK
  <2> QED BY <1>2, <1>0, <2>1, DetachShape DEF Exec, TargetsOK, SessionsOK, CallersOK
<1>3. CASE SetCred(t)  BY <1>3, <1>0 DEF SetCred, TargetsOK, SessionsOK, CallersOK
<1>4. CASE Exit(t)
  BY <1>4, Blanks, DetachShape DEF Exit, TargetsOK, SessionsOK, CallersOK
<1> QED BY <1>1, <1>2, <1>3, <1>4 DEF Target

\* rt_bp_hit keeps the types.
LEMMA HandlerShape ==
  ASSUME Shape, AllFiring, NEW t \in Tasks, Trap(t) \/ Hit(t) PROVE Shape'
<1> USE DEF Shape, targets, callbacks, sessions, refs, callers, Leave
<1>0. handler[t] # "user" => trapped[t] \in Entries  BY DEF AllFiring, Firing
<1>1. CASE Trap(t)  BY <1>1 DEF Trap, TargetsOK, SessionsOK, CallersOK
<1>2. CASE Disarm(t)
  <2>1. trapped[t] \in Entries  BY <1>2, <1>0 DEF Disarm
  <2>2. [perf[trapped[t]] EXCEPT !.state = "disarmed"] \in EventRecords
    BY <2>1 DEF SessionsOK, EventRecords
  <2> QED BY <1>2, <2>1, <2>2 DEF Disarm, TargetsOK, SessionsOK, CallersOK
<1>3. CASE CheckIdentity(t)  BY <1>3 DEF CheckIdentity, TargetsOK, SessionsOK, CallersOK
<1>4. CASE Record(t)
  <2> DEFINE e == trapped[t]  hit == [task |-> t, mm |-> mm[t], cred |-> cred[t]]
  <2>1. e \in Entries /\ e[1] \in Fds  BY <1>4, <1>0, EntryFd DEF Record
  <2>a. perf[e] \in EventRecords  BY <2>1 DEF SessionsOK
  <2>b. \A p \in EventRecords : [p EXCEPT !.hits = @ + 1] \in EventRecords
    BY DEF EventRecords
  <2>2. [perf[e] EXCEPT !.hits = @ + 1] \in EventRecords  BY <2>a, <2>b
  <2>3. hit \in HitRecords  BY DEF TargetsOK, HitRecords
  <2>4. Append(queue[e[1]], hit) \in Seq(HitRecords)  BY <2>1, <2>3 DEF SessionsOK
  <2> QED BY <1>4, <2>1, <2>2, <2>4 DEF Record, TargetsOK, SessionsOK, CallersOK
<1> QED BY <1>1, <1>2, <1>3, <1>4 DEF Hit

\* Opening and closing keep the types.
LEMMA SessionShape ==
  ASSUME Shape, NEW f \in Fds, Open(f) \/ Close(f) \/ Release(f) PROVE Shape'
<1> USE Blanks DEF Shape, targets, callbacks, sessions, refs, callers
<1>1. CASE Open(f)  BY <1>1 DEF Open, TargetsOK, SessionsOK, CallersOK
<1>2. CASE Close(f)  BY <1>2 DEF Close, TargetsOK, SessionsOK, CallersOK
<1>3. CASE ReleaseUnregister(f)
  BY <1>3 DEF ReleaseUnregister, Unregister, TargetsOK, SessionsOK, CallersOK
<1>4. CASE ReleaseFree(f)
  BY <1>4 DEF ReleaseFree, FreeEntry, TargetsOK, SessionsOK, CallersOK
<1>5. CASE ReleaseDone(f)
  BY <1>5 DEF ReleaseDone, TargetsOK, SessionsOK, CallersOK
<1> QED BY <1>1, <1>2, <1>3, <1>4, <1>5 DEF Release

\* The ioctls other than ADD keep the types.
LEMMA IoctlShape ==
  ASSUME Shape, AllOwning, NEW c \in Callers,
         Call(c) \/ Refused(c) \/ Lock(c) \/ Drain(c) \/ Remove(c) \/ Unlock(c)
  PROVE  Shape'
<1> USE Blanks DEF Shape, targets, callbacks, sessions, refs, Goto
<1>0. pc[c] # "idle" => fd[c] \in Fds  BY DEF AllOwning, Owning
<1>1. CASE Call(c)  BY <1>1 DEF Call, TargetsOK, SessionsOK, CallersOK, CallerStates
<1>2. CASE Refused(c)  BY <1>2 DEF Refused, TargetsOK, SessionsOK, CallersOK, CallerStates
<1>3. CASE Lock(c)
  <2>1. TargetsOK' /\ SessionsOK'  BY <1>3, <1>0 DEF Lock, TargetsOK, SessionsOK
  <2>2. \E next \in {"drain", "add", "remove"} : pc' = [pc EXCEPT ![c] = next]
    BY <1>3 DEF Lock
  <2>3. pid' \in [Callers -> Pids \cup {None}] /\ addr' \in [Callers -> Addrs \cup {None}]
    BY <1>3 DEF Lock, CallersOK
  <2> QED BY <1>3, <2>1, <2>2, <2>3 DEF Lock, CallersOK, CallerStates
<1>4. CASE Drain(c)
  <2>1. fd[c] \in Fds  BY <1>4, <1>0 DEF Drain
  <2>2. ASSUME NEW k \in 0..Len(queue[fd[c]])
        PROVE  SubSeq(queue[fd[c]], k + 1, Len(queue[fd[c]])) \in Seq(HitRecords)
    BY <2>1 DEF SessionsOK
  <2> QED BY <1>4, <2>1, <2>2 DEF Drain, TargetsOK, SessionsOK, CallersOK, CallerStates
<1>5. CASE RemoveFind(c)
  <2>1. \A e \in Matching(c) : e \in Entries  BY <1>5, <1>0, EntryFd DEF RemoveFind, Matching
  <2>2. TargetsOK' /\ SessionsOK'  BY <1>5 DEF RemoveFind, TargetsOK, SessionsOK
  <2>3. \E next \in {"unlock", "unregister"} : pc' = [pc EXCEPT ![c] = next]
    BY <1>5 DEF RemoveFind
  <2>4. slot' \in [Callers -> Entries \cup {None}]  BY <1>5, <2>1 DEF RemoveFind, CallersOK
  <2> QED BY <1>5, <2>2, <2>3, <2>4 DEF RemoveFind, CallersOK, CallerStates
<1>6. CASE RemoveUnregister(c)
  BY <1>6 DEF RemoveUnregister, Unregister, TargetsOK, SessionsOK, CallersOK, CallerStates
<1>7. CASE RemoveFree(c)
  BY <1>7 DEF RemoveFree, FreeEntry, TargetsOK, SessionsOK, CallersOK, CallerStates
<1>8. CASE Unlock(c)
  BY <1>8, <1>0 DEF Unlock, TargetsOK, SessionsOK, CallersOK, CallerStates
<1> QED BY <1>1, <1>2, <1>3, <1>4, <1>5, <1>6, <1>7, <1>8 DEF Remove

\* ADD keeps the types.
LEMMA AddShape ==
  ASSUME Shape, AllOwning, AllTargeting, AllPlaced, NEW c \in Callers, Add(c) PROVE Shape'
<1> USE Blanks DEF Shape, targets, callbacks, sessions, refs, Goto
<1>0. pc[c] # "idle" => fd[c] \in Fds  BY DEF AllOwning, Owning
<1>a. pc[c] \in Adding \cup {"put"} => task[c] \in Tasks  BY DEF AllTargeting, Targeting
<1>b. pc[c] \in Adding => slot[c] \in Entries
  BY <1>0, EntryFd DEF AllPlaced, Placed, Adding, Locked, Checked, Filling
<1>1. CASE AddFind(c)
  <2>1. \A e \in FirstFree(fd[c]) : e \in Entries
    BY <1>1, <1>0, EntryFd DEF AddFind, FirstFree, FreeSlots
  <2>2. TargetsOK' /\ SessionsOK'  BY <1>1 DEF AddFind, TargetsOK, SessionsOK
  <2>3. \E next \in {"unlock", "access"} : pc' = [pc EXCEPT ![c] = next]  BY <1>1 DEF AddFind
  <2>4. slot' \in [Callers -> Entries \cup {None}]  BY <1>1, <2>1 DEF AddFind, CallersOK
  <2>5. task' \in [Callers -> Tasks \cup {None}]  BY <1>1 DEF AddFind, CallersOK
  <2>6. gotCred' \in [Callers -> Ids]  BY <1>1 DEF AddFind, CallersOK, TargetsOK
  <2> QED BY <1>1, <2>2, <2>3, <2>4, <2>5, <2>6 DEF AddFind, CallersOK, CallerStates
<1>2. CASE AddAccess(c)
  <2>1. task[c] \in Tasks /\ fd[c] \in Fds  BY <1>2, <1>0, <1>a DEF AddAccess, Adding
  <2>2. [fd |-> fd[c], task |-> task[c], mm |-> mm[task[c]], cred |-> cred[task[c]]] \in Identity
    BY <2>1 DEF Identity, TargetsOK
  <2>3. TargetsOK' /\ SessionsOK'  BY <1>2, <2>2 DEF AddAccess, TargetsOK, SessionsOK
  <2>4. \E next \in {"put", "exec_lock"} : pc' = [pc EXCEPT ![c] = next]  BY <1>2 DEF AddAccess
  <2>5. gotMm' \in [Callers -> Ids]  BY <1>2, <2>1 DEF AddAccess, CallersOK, TargetsOK
  <2> QED BY <1>2, <2>3, <2>4, <2>5 DEF AddAccess, CallersOK, CallerStates
<1>3. CASE AddExecLock(c)
  <2>1. execReaders' \in [Tasks -> SUBSET Callers]
    BY <1>3, <1>a DEF AddExecLock, Adding, TargetsOK
  <2>2. TargetsOK' /\ SessionsOK'  BY <1>3, <2>1 DEF AddExecLock, TargetsOK, SessionsOK
  <2>3. \E next \in {"put", "recheck"} : pc' = [pc EXCEPT ![c] = next]  BY <1>3 DEF AddExecLock
  <2> QED BY <1>3, <2>2, <2>3 DEF AddExecLock, CallersOK, CallerStates
<1>4. CASE AddRecheck(c)  BY <1>4 DEF AddRecheck, TargetsOK, SessionsOK, CallersOK, CallerStates
<1>5. CASE AddQuota(c)  BY <1>5 DEF AddQuota, TargetsOK, SessionsOK, CallersOK, CallerStates
<1>6. CASE AddOverQuota(c)
  BY <1>6 DEF AddOverQuota, TargetsOK, SessionsOK, CallersOK, CallerStates
<1>7. CASE AddRegister(c)
  <2>1. task[c] \in Tasks /\ slot[c] \in Entries
    BY <1>7, <1>a, <1>b DEF AddRegister, Adding, Locked, Checked
  <2>2. Filled(c) \in EntryRecords  BY DEF Filled, EntryRecords, CallersOK
  <2>3. [state |-> "armed", task |-> task[c], hits |-> 0] \in EventRecords
    BY <2>1 DEF EventRecords
  <2>4. perf' \in [Entries -> EventRecords]  BY <1>7, <2>1, <2>3 DEF AddRegister, SessionsOK
  <2>5. TargetsOK' /\ SessionsOK'  BY <1>7, <2>1, <2>2, <2>4 DEF AddRegister, TargetsOK, SessionsOK
  <2>6. \E next \in {"store", "roll_back"} : pc' = [pc EXCEPT ![c] = next]  BY <1>7 DEF AddRegister
  <2> QED BY <1>7, <2>5, <2>6 DEF AddRegister, CallersOK, CallerStates
<1>8. CASE AddRollBack(c)
  BY <1>8 DEF AddRollBack, TargetsOK, SessionsOK, CallersOK, CallerStates
<1>9. CASE AddStore(c)
  <2>1. slot[c] \in Entries  BY <1>9, <1>b DEF AddStore, Adding, Locked, Checked, Filling
  <2>2. [entry[slot[c]] EXCEPT !.event = TRUE] \in EntryRecords
    BY <2>1 DEF SessionsOK, EntryRecords
  <2> QED BY <1>9, <2>1, <2>2 DEF AddStore, TargetsOK, SessionsOK, CallersOK, CallerStates
<1>10. CASE AddPut(c)
  BY <1>10, <1>a DEF AddPut, TargetsOK, SessionsOK, CallersOK, CallerStates
<1> QED BY <1>1, <1>2, <1>3, <1>4, <1>5, <1>6, <1>7, <1>8, <1>9, <1>10 DEF Add

-----------------------------------------------------------------------------
(* Who changes what *)

Of(c) == <<pc[c], fd[c], pid[c], addr[c], slot[c], task[c], gotMm[c], gotCred[c]>>

\* A target changes nothing of the driver but through its events and the queue.
LEMMA TargetFrame ==
  ASSUME NEW t \in Tasks, Target(t) \/ Trap(t) \/ Hit(t)
  PROVE  UNCHANGED <<phase, mutex, entry, total, refs, callers, granted>>
<1> USE DEF targets, callbacks, sessions, refs, callers
<1>1. CASE Target(t)  BY <1>1 DEF Target, Spawn, Exec, SetCred, Exit
<1>2. CASE Trap(t)  BY <1>2 DEF Trap
<1>3. CASE Hit(t)  BY <1>3 DEF Hit, Disarm, CheckIdentity, Record, Leave
<1> QED BY <1>1, <1>2, <1>3

\* Open and close change no caller and no target.
LEMMA SessionFrame ==
  ASSUME NEW f \in Fds, Open(f) \/ Close(f) \/ Release(f)
  PROVE  UNCHANGED <<targets, callbacks, mutex, callers, execReaders, mmUsers>>
<1> USE DEF targets, callbacks, sessions, refs, callers
<1>1. CASE Open(f)  BY <1>1 DEF Open
<1>2. CASE Close(f)  BY <1>2 DEF Close
<1>3. CASE Release(f)
  BY <1>3 DEF Release, ReleaseUnregister, ReleaseFree, ReleaseDone, Unregister, FreeEntry
<1> QED BY <1>1, <1>2, <1>3

\* An ioctl changes no target, no phase and no other caller.
LEMMA IoctlFrame ==
  ASSUME CallersOK, NEW c \in Callers, Ioctl(c)
  PROVE  /\ UNCHANGED <<targets, callbacks, phase>>
         /\ \A d \in Callers \ {c} : UNCHANGED Of(d)
<1> USE DEF targets, callbacks, sessions, refs, Goto, CallersOK, Of
<1>1. CASE Call(c)  BY <1>1 DEF Call
<1>2. CASE Refused(c)  BY <1>2 DEF Refused
<1>3. CASE Lock(c)  BY <1>3 DEF Lock
<1>4. CASE Drain(c)  BY <1>4 DEF Drain
<1>5. CASE Remove(c)
  BY <1>5 DEF Remove, RemoveFind, RemoveUnregister, RemoveFree, Unregister, FreeEntry
<1>6. CASE Unlock(c)  BY <1>6 DEF Unlock
<1>7. CASE Add(c)
  <2>1. CASE AddFind(c)  BY <2>1 DEF AddFind
  <2>2. CASE AddAccess(c)  BY <2>2 DEF AddAccess
  <2>3. CASE AddExecLock(c)  BY <2>3 DEF AddExecLock
  <2>4. CASE AddRecheck(c)  BY <2>4 DEF AddRecheck
  <2>5. CASE AddQuota(c)  BY <2>5 DEF AddQuota
  <2>6. CASE AddOverQuota(c)  BY <2>6 DEF AddOverQuota
  <2>7. CASE AddRegister(c)  BY <2>7 DEF AddRegister
  <2>8. CASE AddRollBack(c)  BY <2>8 DEF AddRollBack
  <2>9. CASE AddStore(c)  BY <2>9 DEF AddStore
  <2>10. CASE AddPut(c)  BY <2>10 DEF AddPut
  <2> QED BY <1>7, <2>1, <2>2, <2>3, <2>4, <2>5, <2>6, <2>7, <2>8, <2>9, <2>10 DEF Add
<1> QED BY <1>1, <1>2, <1>3, <1>4, <1>5, <1>6, <1>7 DEF Ioctl

\* The session mutex: one caller is inside a descriptor's ioctl.
LEMMA OneInside ==
  ASSUME AllOwning, NEW c \in Callers, NEW d \in Callers, fd[c] = fd[d],
         pc[c] \notin {"idle", "wait"}, pc[d] \notin {"idle", "wait"}
  PROVE  c = d
BY DEF AllOwning, Owning

\* Entries of the session in which c is are nobody else's slot.
LEMMA SlotMine ==
  ASSUME AllOwning, AllPlaced, NEW c \in Callers, NEW d \in Callers \ {c},
         pc[c] \notin {"idle", "wait"}, pc[d] \in Adding \cup {"unregister", "free"}
  PROVE  slot[d] \notin EntriesOf(fd[c])
<1>1. pc[d] \notin {"idle", "wait"}  BY DEF Adding, Locked, Checked, Filling
<1>2. slot[d] \in EntriesOf(fd[d])  BY DEF AllPlaced, Placed
<1>3. fd[c] # fd[d]  BY <1>1, OneInside
<1>4. fd[d] \in Fds /\ fd[c] \in Fds  BY <1>1 DEF AllOwning, Owning
<1> QED BY <1>2, <1>3, <1>4, EntryFd

\* A session that is closing or closed has no slot of a caller.
LEMMA NoSlotIfNotOpen ==
  ASSUME AllOwning, AllPlaced, NEW f \in Fds, phase[f] # "open", NEW d \in Callers,
         pc[d] \in Adding \cup {"unregister", "free"}
  PROVE  slot[d] \notin EntriesOf(f) /\ fd[d] # f
<1>1. pc[d] # "idle"  BY DEF Adding, Locked, Checked, Filling
<1>2. slot[d] \in EntriesOf(fd[d])  BY DEF AllPlaced, Placed
<1>3. fd[d] \in Fds /\ phase[fd[d]] = "open"  BY <1>1 DEF AllOwning, Owning
<1> QED BY <1>2, <1>3, EntryFd

-----------------------------------------------------------------------------
(* The session mutex *)

\* Every step keeps callers inside open sessions they own.
LEMMA OwningStep == ASSUME Shape, AllOwning, Next PROVE AllOwning'
<1> USE DEF Shape, AllOwning, Owning
<1>1. ASSUME NEW t \in Tasks, Target(t) \/ Trap(t) \/ Hit(t) PROVE AllOwning'
  BY <1>1, TargetFrame DEF callers
<1>2. ASSUME NEW f \in Fds, Open(f) \/ Close(f) \/ Release(f) PROVE AllOwning'
  <2>0. UNCHANGED <<mutex, pc, fd>>  BY <1>2, SessionFrame DEF callers
  <2>1. CASE Open(f)  BY <2>0, <2>1 DEF Open, SessionsOK
  <2>2. CASE Close(f)  BY <2>0, <2>2 DEF Close, SessionsOK
  <2>3. CASE ReleaseUnregister(f) \/ ReleaseFree(f)
    BY <2>0, <2>3 DEF ReleaseUnregister, ReleaseFree
  <2>4. CASE ReleaseDone(f)  BY <2>0, <2>4 DEF ReleaseDone, SessionsOK
  <2> QED BY <1>2, <2>1, <2>2, <2>3, <2>4 DEF Release
<1>3. ASSUME NEW c \in Callers, Ioctl(c) PROVE AllOwning'
  <2> USE SetsAssumption DEF sessions, Goto, CallersOK, SessionsOK
  <2>1. CASE Call(c)  BY <2>1 DEF Call
  <2>2. CASE Refused(c)  BY <2>2 DEF Refused
  <2>3. CASE Lock(c)  BY <2>3 DEF Lock
  <2>4. CASE Drain(c)  BY <2>4 DEF Drain
  <2>5. CASE RemoveFind(c)  BY <2>5 DEF RemoveFind
  <2>6. CASE RemoveUnregister(c) \/ RemoveFree(c)
    BY <2>6 DEF RemoveUnregister, RemoveFree
  <2>7. CASE Unlock(c)
    <3>1. Owning(c)'  BY <2>7 DEF Unlock
    <3>2. ASSUME NEW d \in Callers \ {c} PROVE Owning(d)'
      <4>1. pc'[d] = pc[d] /\ fd'[d] = fd[d] /\ UNCHANGED phase  BY <2>7 DEF Unlock
      <4>2. pc[d] \notin {"idle", "wait"} => fd[d] # fd[c]  BY <2>7, OneInside DEF Unlock
      <4>3. pc[d] \notin {"idle", "wait"} => mutex'[fd[d]] = d  BY <2>7, <4>2 DEF Unlock
      <4> QED BY <4>1, <4>3
    <3> QED BY <3>1, <3>2
  <2>8. CASE Add(c)
    <3>1. \E next \in CallerStates \ {"idle", "wait"} : pc' = [pc EXCEPT ![c] = next]
      BY <2>8 DEF Add, AddFind, AddAccess, AddExecLock, AddRecheck, AddQuota, AddOverQuota,
         AddRegister, AddRollBack, AddStore, AddPut, CallerStates
    <3>2. pc[c] \notin {"idle", "wait"}
      BY <2>8 DEF Add, AddFind, AddAccess, AddExecLock, AddRecheck, AddQuota, AddOverQuota,
         AddRegister, AddRollBack, AddStore, AddPut
    <3>3. UNCHANGED <<fd, phase, mutex>>
      BY <2>8 DEF Add, AddFind, AddAccess, AddExecLock, AddRecheck, AddQuota, AddOverQuota,
         AddRegister, AddRollBack, AddStore, AddPut
    <3> QED BY <3>1, <3>2, <3>3
  <2> QED BY <1>3, <2>1, <2>2, <2>3, <2>4, <2>5, <2>6, <2>7, <2>8 DEF Ioctl, Remove
<1> QED BY <1>1, <1>2, <1>3 DEF Next

-----------------------------------------------------------------------------
(* The slot a registration is made in *)

\* What DetachFrom does to an event.
LEMMA Detached ==
  ASSUME SessionsOK, NEW t \in Tasks, DetachFrom(t), NEW e \in Entries
  PROVE  /\ perf'[e].task = perf[e].task /\ perf'[e].hits = perf[e].hits
         /\ perf'[e].state = IF perf[e].task = t /\ perf[e].state # "none"
                               THEN "detached" ELSE perf[e].state
<1>1. perf[e] \in EventRecords  BY DEF SessionsOK
<1>2. perf'[e] = IF perf[e].task = t /\ perf[e].state # "none"
                   THEN [perf[e] EXCEPT !.state = "detached"] ELSE perf[e]
  BY DEF DetachFrom
<1> QED BY <1>1, <1>2 DEF EventRecords

\* Targets may detach events and count hits; no event appears or goes away by it.
LEMMA TargetEvents ==
  ASSUME Shape, AllFiring, NEW t \in Tasks, Target(t) \/ Trap(t) \/ Hit(t)
  PROVE  \A e \in Entries : Live(e)' <=> Live(e)
<1> USE DEF Shape, SessionsOK, Live, sessions
<1>0. handler[t] # "user" => trapped[t] \in Entries /\ perf[trapped[t]].state # "none"
  BY DEF AllFiring, Firing, TargetsOK
<1>1. CASE Target(t)
  <2>1. DetachFrom(t) \/ UNCHANGED perf  BY <1>1 DEF Target, Spawn, Exec, SetCred, Exit
  <2> QED BY <2>1, Detached
<1>2. CASE Trap(t)  BY <1>2 DEF Trap
<1>3. CASE Hit(t)
  <2>1. CASE Disarm(t)  BY <2>1, <1>0 DEF Disarm, EventRecords
  <2>2. CASE CheckIdentity(t)  BY <2>2 DEF CheckIdentity
  <2>3. CASE Record(t)  BY <2>3, <1>0 DEF Record, EventRecords
  <2> QED BY <1>3, <2>1, <2>2, <2>3 DEF Hit
<1> QED BY <1>1, <1>2, <1>3

\* What is in a slot changes only by its caller, or once the session is closing.
LEMMA PlacedFrame ==
  ASSUME NEW c \in Callers, Placed(c), UNCHANGED Of(c),
         pc[c] \in Adding \cup {"unregister", "free"} =>
           \A e \in EntriesOf(fd[c]) : (Live(e)' <=> Live(e)) /\ entry'[e] = entry[e]
  PROVE  Placed(c)'
<1>1. pc[c] \in Adding => slot[c] \in EntriesOf(fd[c])  BY DEF Placed
<1>2. EntriesOf(fd'[c]) = EntriesOf(fd[c])  BY DEF Of, EntriesOf
<1>3. Filled(c)' = Filled(c)  BY DEF Of, Filled
<1>4. pc'[c] = pc[c] /\ fd'[c] = fd[c] /\ slot'[c] = slot[c] /\ pid'[c] = pid[c] /\ addr'[c] = addr[c]
  BY DEF Of
<1>5. CASE pc[c] \in Adding \cup {"unregister", "free"}
  BY <1>1, <1>2, <1>3, <1>4, <1>5 DEF Placed, Adding
<1>6. CASE pc[c] \notin Adding \cup {"unregister", "free"}
  BY <1>4, <1>6 DEF Placed, Adding, Locked, Checked, Filling
<1> QED BY <1>5, <1>6

\* The slots stay as they must through every step.
LEMMA PlacedStep ==
  ASSUME Shape, AllOwning, AllPlaced, AllTargeting, Vacant, AllFiring, Next
  PROVE  AllPlaced'
<1> USE DEF AllPlaced
<1>1. ASSUME NEW t \in Tasks, Target(t) \/ Trap(t) \/ Hit(t) PROVE AllPlaced'
  <2> SUFFICES ASSUME NEW d \in Callers PROVE Placed(d)'  OBVIOUS
  <2>1. UNCHANGED Of(d) /\ UNCHANGED entry  BY <1>1, TargetFrame DEF Of, callers
  <2>2. pc[d] \in Adding \cup {"unregister", "free"} => fd[d] \in Fds
    BY DEF AllOwning, Owning, Adding, Locked, Checked, Filling
  <2> QED BY <2>1, <2>2, <1>1, TargetEvents, PlacedFrame, EntryFd
<1>2. ASSUME NEW f \in Fds, Open(f) \/ Close(f) \/ Release(f) PROVE AllPlaced'
  <2> SUFFICES ASSUME NEW d \in Callers PROVE Placed(d)'  OBVIOUS
  <2>1. UNCHANGED Of(d)  BY <1>2, SessionFrame DEF Of, callers
  <2>2. \A e \in Entries : e[1] # f => entry'[e] = entry[e] /\ perf'[e] = perf[e]
    BY <1>2, EntryFd DEF Open, Close, Release, ReleaseUnregister, ReleaseFree, ReleaseDone,
       Releasing, Unregister, FreeEntry, Shape, SessionsOK
  <2>3. phase[f] # "open" \/ UNCHANGED <<entry, perf>>
    BY <1>2 DEF Open, Close, Release, ReleaseUnregister, ReleaseFree, ReleaseDone, Releasing
  <2>4. pc[d] \in Adding \cup {"unregister", "free"} => fd[d] \in Fds
    BY DEF AllOwning, Owning, Adding, Locked, Checked, Filling
  <2>5. pc[d] \in Adding \cup {"unregister", "free"} =>
          \A e \in EntriesOf(fd[d]) : (Live(e)' <=> Live(e)) /\ entry'[e] = entry[e]
    BY <2>2, <2>3, <2>4, NoSlotIfNotOpen, EntryFd DEF Live
  <2> QED BY <2>1, <2>5, PlacedFrame
<1>3. ASSUME NEW c \in Callers, Ioctl(c) PROVE AllPlaced'
  <2> USE DEF Shape
  <2>1. ASSUME NEW d \in Callers \ {c} PROVE Placed(d)'
    <3>1. UNCHANGED Of(d)  BY <1>3, IoctlFrame
    <3>2. ASSUME NEW e \in Entries, entry'[e] # entry[e] \/ perf'[e] # perf[e]
          PROVE  e = slot[c] /\ pc[c] \in Adding \cup {"unregister", "free"}
      BY <1>3, <3>2 DEF Ioctl, Call, Refused, Lock, Drain, Remove, RemoveFind, RemoveUnregister,
         RemoveFree, Unregister, FreeEntry, Unlock, Add, AddFind, AddAccess, AddExecLock,
         AddRecheck, AddQuota, AddOverQuota, AddRegister, AddRollBack, AddStore, AddPut,
         sessions, SessionsOK, Adding, Locked, Checked, Filling
    <3>3. ASSUME pc[d] \in Adding \cup {"unregister", "free"}, NEW e \in EntriesOf(fd[d])
          PROVE  entry'[e] = entry[e] /\ perf'[e] = perf[e]
      <4>1. fd[d] \in Fds /\ pc[d] \notin {"idle", "wait"}
        BY <3>3 DEF AllOwning, Owning, Adding, Locked, Checked, Filling
      <4>2. SUFFICES ASSUME pc[c] \in Adding \cup {"unregister", "free"}
                     PROVE  e # slot[c]
        BY <3>2, <4>1, EntryFd
      <4> QED BY <4>1, <4>2, SlotMine
    <3> QED BY <3>1, <3>3, PlacedFrame DEF Live
  <2>2. Placed(c)'
    <3> USE DEF Placed, Goto, CallersOK
    <3>0. pc[c] # "idle" => fd[c] \in Fds  BY DEF AllOwning, Owning
    <3>1. CASE \E next \in CallerStates \ (Adding \cup {"unregister", "free"}) :
                 pc' = [pc EXCEPT ![c] = next]
      BY <3>1 DEF Adding, Locked, Checked, Filling
    <3>2. CASE pc[c] \in Adding \ {"register", "roll_back", "store"}
               /\ UNCHANGED <<fd, slot, pid, addr, entry, perf>>
               /\ \E next \in Adding \ {"store"} : pc' = [pc EXCEPT ![c] = next]
      BY <3>2 DEF Live, Filled, Adding, Locked, Checked, Filling
    <3>3. CASE AddFind(c) /\ pc' = [pc EXCEPT ![c] = "access"]
      <4>1. PICK e \in FirstFree(fd[c]) : slot' = [slot EXCEPT ![c] = e]
        BY <3>3 DEF AddFind
      <4>2. e \in EntriesOf(fd[c]) /\ ~entry[e].event /\ e \in Entries
        BY <3>3, <3>0, <4>1, EntryFd DEF AddFind, FirstFree, FreeSlots
      <4>3. ~Live(e)
        <5>1. SUFFICES ASSUME NEW d \in Callers, pc[d] \in Filling, slot[d] = e PROVE FALSE
          BY <4>2 DEF Vacant
        <5>2. d # c  BY <5>1, <3>3 DEF AddFind, Filling
        <5> QED BY <5>1, <5>2, <4>2, <3>3, SlotMine
            DEF AddFind, Adding, Locked, Checked, Filling
      <4>4. UNCHANGED <<fd, pid, addr, entry, perf>> /\ Matching(c) = {}
        BY <3>3 DEF AddFind, sessions
      <4>5. \A o \in EntriesOf(fd[c]) :
              entry[o].event => entry[o].pid # pid[c] \/ entry[o].addr # addr[c]
        BY <4>4 DEF Matching
      <4> QED BY <3>3, <4>1, <4>2, <4>3, <4>4, <4>5
          DEF Live, Filled, Adding, Locked, Checked, Filling
    <3>4. CASE AddRegister(c)
      <4>1. pc[c] = "register" /\ slot[c] \in EntriesOf(fd[c]) /\ slot[c] \in Entries
        BY <3>4, <3>0, EntryFd DEF AddRegister, Adding, Locked, Checked, Filling
      <4>2. UNCHANGED <<fd, slot, pid, addr, gotMm, gotCred>>
        BY <3>4 DEF AddRegister
      <4>3. entry'[slot[c]] = Filled(c) /\ Filled(c)' = Filled(c) /\ ~Filled(c).event
        BY <3>4, <4>1, <4>2 DEF AddRegister, Filled, SessionsOK
      <4>4. \A o \in EntriesOf(fd[c]) : entry'[o] = entry[o] \/ ~entry'[o].event
        BY <3>4, <4>1, <4>3, <3>0, EntryFd DEF AddRegister, SessionsOK
      <4>5. \A o \in EntriesOf(fd[c]) :
              entry'[o].event => entry'[o].pid # pid[c] \/ entry'[o].addr # addr[c]
        BY <4>1, <4>4 DEF Adding, Locked, Checked
      <4>6. \/ pc' = [pc EXCEPT ![c] = "store"] /\ Live(slot[c])'
            \/ pc' = [pc EXCEPT ![c] = "roll_back"] /\ ~Live(slot[c])'
        BY <3>4, <4>1, <4>2 DEF AddRegister, Live, SessionsOK, Adding, Locked, Checked
      <4>7. EntriesOf(fd'[c]) = EntriesOf(fd[c])  BY <4>2 DEF EntriesOf
      <4> QED BY <4>1, <4>2, <4>3, <4>5, <4>6, <4>7 DEF Adding, Locked, Checked, Filling
    <3>5. CASE RemoveFind(c) /\ pc' = [pc EXCEPT ![c] = "unregister"]
      BY <3>5 DEF RemoveFind, Matching, Adding, Locked, Checked, Filling
    <3>6. CASE RemoveUnregister(c)
      BY <3>6 DEF RemoveUnregister, Adding, Locked, Checked, Filling
    <3> QED BY <1>3, <3>1, <3>2, <3>3, <3>4, <3>5, <3>6
      DEF Ioctl, Call, Refused, Lock, Drain, Remove, RemoveFind, 
         RemoveFree, Unlock, Add, AddFind, AddAccess, AddExecLock,
         AddRecheck, AddQuota, AddOverQuota, AddRollBack, AddStore, AddPut,
         sessions, CallerStates, Adding, Locked, Checked, Filling
  <2> QED BY <2>1, <2>2
<1> QED BY <1>1, <1>2, <1>3 DEF Next

-----------------------------------------------------------------------------
(* Authorization during ADD *)

\* A task that has been born keeps its TID's identity; its credential only grows.
LEMMA Monotone ==
  ASSUME Shape, Born, NEW t \in Tasks, Target(t), NEW u \in Tasks
  PROVE  /\ life[u] # "unborn" => life'[u] # "unborn"
         /\ cred[u] <= cred'[u]
         /\ cred'[u] <= ids'
         /\ life'[u] # "unborn" => cred'[u] # 0
<1> USE DEF Shape, TargetsOK, Born, Ids
<1>1. CASE Spawn(t)  BY <1>1 DEF Spawn
<1>2. CASE Exec(t)  BY <1>2 DEF Exec, InUser
<1>3. CASE SetCred(t)  BY <1>3 DEF SetCred, InUser
<1>4. CASE Exit(t)  BY <1>4 DEF Exit, InUser
<1> QED BY <1>1, <1>2, <1>3, <1>4 DEF Target

\* Every step keeps credentials below the last identity given out.
LEMMA BornStep == ASSUME Shape, Born, Next PROVE Born'
<1>1. ASSUME NEW t \in Tasks, Target(t) PROVE Born'  BY <1>1, Monotone DEF Born
<1>2. ASSUME NEW t \in Tasks, Trap(t) \/ Hit(t) PROVE Born'
  BY <1>2 DEF Born, Trap, Hit, Disarm, CheckIdentity, Record, targets
<1>3. ASSUME NEW f \in Fds, Open(f) \/ Close(f) \/ Release(f) PROVE Born'
  BY <1>3, SessionFrame DEF Born, targets
<1>4. ASSUME NEW c \in Callers, Ioctl(c) PROVE Born'
  BY <1>4, IoctlFrame DEF Born, targets, Shape
<1> QED BY <1>1, <1>2, <1>3, <1>4 DEF Next

\* The authorization a caller relies on survives what others do.
LEMMA TargetingFrame ==
  ASSUME Shape, Shape', NEW c \in Callers, Targeting(c), UNCHANGED Of(c),
         \A g \in granted : g.fd = fd[c] => g \in granted',
         \A u \in Tasks : life[u] # "unborn" =>
                          /\ life'[u] # "unborn"
                          /\ cred[u] <= cred'[u]
                          /\ c \in execReaders[u] =>
                               /\ c \in execReaders'[u]
                               /\ life'[u] = "alive" => life[u] = "alive" /\ mm'[u] = mm[u]
  PROVE  Targeting(c)'
<1> DEFINE t == task[c]
<1>0. pc'[c] = pc[c] /\ fd'[c] = fd[c] /\ pid'[c] = pid[c] /\ task'[c] = task[c]
      /\ gotMm'[c] = gotMm[c] /\ gotCred'[c] = gotCred[c]
  BY DEF Of
<1>1. \A m, k : Grant(fd[c], t, m, k) \in granted => Grant(fd[c], t, m, k) \in granted'
  BY DEF Grant
<1>2. pc[c] \in Adding \cup {"put"} => t \in Tasks /\ life[t] # "unborn"  BY DEF Targeting
<1>3. gotCred[c] \in Nat /\ (t \in Tasks => cred[t] \in Nat /\ cred'[t] \in Nat)
  BY DEF Shape, TargetsOK, CallersOK, Ids
<1>4. pc[c] \in {"exec_lock", "recheck"} =>
        \E k \in Ids : gotCred[c] <= k /\ k <= cred'[t] /\ Grant(fd[c], t, gotMm[c], k) \in granted'
  <2> SUFFICES ASSUME pc[c] \in {"exec_lock", "recheck"}
               PROVE  \E k \in Ids : /\ gotCred[c] <= k /\ k <= cred'[t]
                                     /\ Grant(fd[c], t, gotMm[c], k) \in granted'
    OBVIOUS
  <2>1. PICK k \in Ids : gotCred[c] <= k /\ k <= cred[t] /\ Grant(fd[c], t, gotMm[c], k) \in granted
    BY DEF Targeting
  <2>2. t \in Tasks /\ life[t] # "unborn"  BY <1>2 DEF Adding, Locked, Checked, Filling
  <2>3. k <= cred'[t]  BY <2>1, <2>2, <1>3 DEF Ids
  <2> QED BY <2>1, <2>3, <1>1
<1>5. pc[c] \in Adding => gotCred[c] <= cred'[t]  BY <1>2, <1>3 DEF Targeting
<1> QED BY <1>0, <1>1, <1>2, <1>4, <1>5 DEF Targeting, Adding, Locked, Checked

\* Every step keeps what ADD holds of its target, and its authorization.
LEMMA TargetingStep ==
  ASSUME Shape, Shape', Born, AllOwning, AllTargeting, Next
  PROVE  AllTargeting'
<1> USE DEF AllTargeting
<1>1. ASSUME NEW t \in Tasks, Target(t) PROVE AllTargeting'
  <2> SUFFICES ASSUME NEW c \in Callers PROVE Targeting(c)'  OBVIOUS
  <2>1. UNCHANGED Of(c) /\ UNCHANGED <<granted, execReaders>>
    BY <1>1, TargetFrame DEF Of, callers, refs
  <2>2. ASSUME NEW u \in Tasks, c \in execReaders[u]
        PROVE  life[u] # "unborn" /\ life'[u] = "alive" => life[u] = "alive" /\ mm'[u] = mm[u]
    BY <1>1, <2>2 DEF Target, Spawn, Exec, SetCred, Exit, InUser, Shape, TargetsOK
  <2> QED BY <1>1, <2>1, <2>2, Monotone, TargetingFrame
<1>2. ASSUME NEW t \in Tasks, Trap(t) \/ Hit(t) PROVE AllTargeting'
  <2>1. UNCHANGED <<targets, callers, granted, execReaders>>
    BY <1>2, TargetFrame DEF refs, Trap, Hit, Disarm, CheckIdentity, Record, targets
  <2> QED BY <2>1 DEF Targeting, targets, callers
<1>3. ASSUME NEW f \in Fds, Open(f) \/ Close(f) \/ Release(f) PROVE AllTargeting'
  <2> SUFFICES ASSUME NEW c \in Callers PROVE Targeting(c)'  OBVIOUS
  <2>1. UNCHANGED Of(c) /\ UNCHANGED <<life, mm, cred, execReaders>>
    BY <1>3, SessionFrame DEF Of, callers, targets
  <2>2. \/ UNCHANGED granted
        \/ phase[f] = "closing" /\ granted' = {g \in granted : g.fd # f}
    BY <1>3 DEF Open, Close, Release, ReleaseUnregister, ReleaseFree, ReleaseDone
  <2>3. CASE \A g \in granted : g.fd = fd[c] => g \in granted'
    BY <2>1, <2>3, TargetingFrame DEF Shape, TargetsOK, Ids
  <2>4. CASE phase[f] = "closing" /\ fd[c] = f
    <3>1. pc[c] = "idle"  BY <2>4 DEF AllOwning, Owning
    <3> QED BY <2>1, <3>1 DEF Targeting, Of, Adding, Locked, Checked, Filling
  <2> QED BY <2>2, <2>3, <2>4
<1>4. ASSUME NEW c \in Callers, Ioctl(c) PROVE AllTargeting'
  <2>0. UNCHANGED <<life, mm, cred, ids>>  BY <1>4, IoctlFrame DEF targets, Shape
  <2>1. granted \subseteq granted'
    BY <1>4 DEF Ioctl, Call, Refused, Lock, Drain, Remove, RemoveFind, RemoveUnregister,
       RemoveFree, Unlock, Add, AddFind, AddAccess, AddExecLock, AddRecheck, AddQuota,
       AddOverQuota, AddRegister, AddRollBack, AddStore, AddPut
  <2>2. ASSUME NEW d \in Callers \ {c} PROVE Targeting(d)'
    <3>1. UNCHANGED Of(d)  BY <1>4, IoctlFrame DEF Shape
    <3>2. \A u \in Tasks : d \in execReaders[u] => d \in execReaders'[u]
      BY <1>4 DEF Ioctl, Call, Refused, Lock, Drain, Remove, RemoveFind, RemoveUnregister,
         RemoveFree, FreeEntry, Unlock, Add, AddFind, AddAccess, AddExecLock, AddRecheck,
         AddQuota, AddOverQuota, AddRegister, AddRollBack, AddStore, AddPut, refs,
         Shape, TargetsOK
    <3> QED BY <2>0, <2>1, <3>1, <3>2, TargetingFrame DEF Shape, TargetsOK, Ids
  <2>3. Targeting(c)'
    <3> USE DEF Targeting, Goto, Shape, CallersOK
    <3>1. CASE \E next \in CallerStates \ (Adding \cup {"put"}) : pc' = [pc EXCEPT ![c] = next]
      BY <3>1 DEF Adding, Locked, Checked, Filling
    <3>2. CASE AddFind(c) /\ pc' = [pc EXCEPT ![c] = "access"]
      <4>1. PICK t \in Tasks : /\ life[t] = "alive" /\ PidOf[t] = pid[c]
                               /\ task' = [task EXCEPT ![c] = t]
                               /\ gotCred' = [gotCred EXCEPT ![c] = cred[t]]
        BY <3>2 DEF AddFind
      <4>2. cred[t] # 0 /\ cred[t] \in Nat  BY <4>1 DEF Born, TargetsOK, Ids
      <4> QED BY <2>0, <3>2, <4>1, <4>2 DEF AddFind, Adding, Locked, Checked, Filling
    <3>3. CASE AddAccess(c) /\ pc' = [pc EXCEPT ![c] = "exec_lock"]
      <4> DEFINE t == task[c]
      <4>1. pc[c] = "access" /\ t \in Tasks  BY <3>3 DEF AddAccess, Adding
      <4>2. /\ gotMm' = [gotMm EXCEPT ![c] = mm[t]] /\ mm[t] # 0
            /\ Grant(fd[c], t, mm[t], cred[t]) \in granted'
            /\ UNCHANGED <<fd, pid, task, gotCred>>
        BY <3>3, <4>1 DEF AddAccess, Grant, Adding, Locked, Checked, Filling
      <4>3. cred[t] \in Ids /\ cred[t] <= cred[t]  BY <4>1 DEF TargetsOK, Ids
      <4> QED BY <2>0, <3>3, <4>1, <4>2, <4>3 DEF Adding, Locked, Checked, Filling
    <3>4. CASE AddExecLock(c) /\ pc' = [pc EXCEPT ![c] = "recheck"]
      <4>1. pc[c] = "exec_lock" /\ task[c] \in Tasks  BY <3>4 DEF AddExecLock, Adding
      <4>2. c \in execReaders'[task[c]] /\ UNCHANGED <<fd, pid, task, gotMm, gotCred>>
        BY <3>4, <4>1 DEF AddExecLock, TargetsOK, Adding, Locked, Checked, Filling
      <4> QED BY <2>0, <2>1, <3>4, <4>1, <4>2 DEF Adding, Locked, Checked, Filling
    <3>5. CASE AddRecheck(c) /\ pc' = [pc EXCEPT ![c] = "quota"]
      <4>1. /\ pc[c] = "recheck" /\ task[c] \in Tasks
            /\ mm[task[c]] = gotMm[c] /\ cred[task[c]] = gotCred[c]
            /\ UNCHANGED <<fd, pid, task, gotMm, gotCred, granted, execReaders>>
        BY <3>5 DEF AddRecheck, Adding, Locked, Checked, Filling, refs
      <4>2. PICK k \in Ids : /\ gotCred[c] <= k /\ k <= cred[task[c]]
                             /\ Grant(fd[c], task[c], gotMm[c], k) \in granted
        BY <4>1
      <4>3. k = gotCred[c]  BY <4>1, <4>2 DEF Ids
      <4> QED BY <2>0, <3>5, <4>1, <4>2, <4>3 DEF Adding, Locked, Checked, Filling
    <3>6. CASE /\ pc[c] \in Checked \ {"roll_back", "store"}
               /\ \E next \in Checked : pc' = [pc EXCEPT ![c] = next]
               /\ UNCHANGED <<fd, pid, task, gotMm, gotCred, granted, execReaders>>
      BY <2>0, <3>6 DEF Adding, Locked, Checked, Filling
    <3>7. CASE /\ pc[c] \in Adding /\ pc' = [pc EXCEPT ![c] = "put"] /\ UNCHANGED task
      BY <2>0, <3>7 DEF Adding, Locked, Checked, Filling
    <3> QED BY <1>4, <3>1, <3>2, <3>3, <3>4, <3>5, <3>6, <3>7
        DEF Ioctl, Call, Refused, Lock, Drain, Remove, RemoveFind, RemoveUnregister, RemoveFree,
            Unlock, Add, AddFind, AddAccess, AddExecLock, AddRecheck, AddQuota, AddOverQuota,
            AddRegister, AddRollBack, AddStore, AddPut, refs, CallerStates, Adding, Locked,
            Checked, Filling
  <2> QED BY <2>2, <2>3
<1> QED BY <1>1, <1>2, <1>3, <1>4 DEF Next

-----------------------------------------------------------------------------
(* Entries without an event *)

\* Every step leaves an entry without its event blank, or in the hands of ADD.
LEMMA VacantStep ==
  ASSUME Shape, AllOwning, AllPlaced, Vacant, AllFiring, Next
  PROVE  Vacant'
<1> USE DEF Vacant
<1>1. ASSUME NEW t \in Tasks, Target(t) \/ Trap(t) \/ Hit(t) PROVE Vacant'
  <2>1. UNCHANGED <<entry, pc, slot>>  BY <1>1, TargetFrame DEF callers
  <2> QED BY <1>1, <2>1, TargetEvents
<1>2. ASSUME NEW f \in Fds, Open(f) \/ Close(f) \/ Release(f) PROVE Vacant'
  <2>1. UNCHANGED <<pc, slot>>  BY <1>2, SessionFrame DEF callers
  <2>2. ASSUME NEW e \in Entries, entry'[e] # entry[e] \/ perf'[e] # perf[e]
        PROVE  entry'[e].event \/ (entry'[e] = NoEntry /\ ~Live(e)')
    <3>1. CASE ReleaseUnregister(f)
      <4>1. entry' = entry  BY <3>1 DEF ReleaseUnregister
      <4>2. PICK o \in Entries : entry[o].event /\ perf' = [perf EXCEPT ![o] = NoEvent]
        BY <3>1 DEF ReleaseUnregister, Unregister
      <4>3. e = o  BY <2>2, <4>1, <4>2 DEF Shape, SessionsOK
      <4> QED BY <4>1, <4>2, <4>3
    <3>2. CASE ReleaseFree(f)
      BY <2>2, <3>2 DEF ReleaseFree, FreeEntry, Shape, SessionsOK, Live
    <3> QED BY <1>2, <2>2, <3>1, <3>2 DEF Open, Close, Release, ReleaseDone
  <2> QED BY <2>1, <2>2 DEF Live
<1>3. ASSUME NEW c \in Callers, Ioctl(c) PROVE Vacant'
  <2> USE DEF Shape
  <2> SUFFICES ASSUME NEW e \in Entries, ~entry'[e].event
               PROVE  \/ entry'[e] = NoEntry /\ ~Live(e)'
                      \/ \E d \in Callers : pc'[d] \in Filling /\ slot'[d] = e
    OBVIOUS
  <2>0. \A d \in Callers \ {c} : pc'[d] = pc[d] /\ slot'[d] = slot[d]
    BY <1>3, IoctlFrame DEF Of
  <2>1. CASE AddRegister(c)
    <3>1. pc'[c] \in Filling /\ slot'[c] = slot[c] /\ pc[c] \notin Filling
      BY <2>1 DEF AddRegister, Goto, CallersOK, Filling
    <3>2. e # slot[c] => entry'[e] = entry[e] /\ perf'[e] = perf[e]
      BY <2>1 DEF AddRegister, SessionsOK
    <3> QED BY <2>0, <3>1, <3>2 DEF Live
  <2>2. CASE AddRollBack(c)
    <3>1. ~Live(slot[c])
      BY <2>2 DEF AddRollBack, AllPlaced, Placed, Adding, Locked, Checked, Filling
    <3>2. perf' = perf /\ slot' = slot  BY <2>2 DEF AddRollBack
    <3>3. CASE e = slot[c]  BY <2>2, <3>1, <3>2, <3>3 DEF AddRollBack, SessionsOK, Live
    <3>4. CASE e # slot[c]  BY <2>0, <2>2, <3>2, <3>4 DEF AddRollBack, SessionsOK, Live
    <3> QED BY <3>3, <3>4
  <2>3. CASE AddStore(c)
    <3>1. e # slot[c]  BY <2>3 DEF AddStore, SessionsOK, EntryRecords
    <3> QED BY <2>0, <2>3, <3>1 DEF AddStore, SessionsOK, Live
  <2>4. CASE RemoveUnregister(c)
    BY <2>0, <2>4 DEF RemoveUnregister, Unregister, SessionsOK, Live, Filling
  <2>5. CASE RemoveFree(c)
    BY <2>0, <2>5 DEF RemoveFree, FreeEntry, SessionsOK, Live, Filling
  <2>6. CASE UNCHANGED <<entry, perf>> /\ pc[c] \notin Filling
    BY <2>0, <2>6 DEF Live
  <2> QED BY <1>3, <2>1, <2>2, <2>3, <2>4, <2>5, <2>6
      DEF Ioctl, Call, Refused, Lock, Drain, Remove, RemoveFind, Unlock, Add, AddFind, AddAccess,
          AddExecLock, AddRecheck, AddQuota, AddOverQuota, AddPut, sessions, Filling
<1> QED BY <1>1, <1>2, <1>3 DEF Next

-----------------------------------------------------------------------------
(* Events and callbacks *)

\* Events stay with the target and the identity their entry records.
LEMMA WatchedStep ==
  ASSUME Shape, AllOwning, AllPlaced, AllTargeting, Vacant, AllFiring, AllWatched, Next
  PROVE  AllWatched'
<1> USE DEF AllWatched
<1>1. ASSUME NEW t \in Tasks, Target(t) PROVE AllWatched'
  <2> SUFFICES ASSUME NEW e \in Entries PROVE Watched(e)'  OBVIOUS
  <2> USE DEF Shape, Watched, Live
  <2>0. UNCHANGED <<entry, granted, phase>>  BY <1>1, TargetFrame
  <2>1. CASE Spawn(t)
    BY <2>0, <2>1 DEF Spawn, TargetsOK, sessions
  <2>2. CASE Exec(t)
    <3>1. \A u \in Tasks \ {t} : life'[u] = life[u] /\ mm'[u] = mm[u]
      BY <2>2 DEF Exec, TargetsOK
    <3>2. life' = life /\ DetachFrom(t)  BY <2>2 DEF Exec
    <3> QED BY <2>0, <3>1, <3>2, Detached
  <2>3. CASE SetCred(t)
    BY <2>0, <2>3 DEF SetCred, sessions
  <2>4. CASE Exit(t)
    <3>1. \A u \in Tasks \ {t} : life'[u] = life[u] /\ mm'[u] = mm[u]
      BY <2>4 DEF Exit, TargetsOK
    <3>2. life'[t] = "dead" /\ DetachFrom(t)  BY <2>4 DEF Exit, TargetsOK
    <3> QED BY <2>0, <3>1, <3>2, Detached
  <2> QED BY <1>1, <2>1, <2>2, <2>3, <2>4 DEF Target
<1>2. ASSUME NEW t \in Tasks, Trap(t) \/ Hit(t) PROVE AllWatched'
  <2> SUFFICES ASSUME NEW e \in Entries PROVE Watched(e)'  OBVIOUS
  <2> USE DEF Shape, Watched, Live, Firing
  <2>0. UNCHANGED <<entry, granted, phase, life, mm>>
    BY <1>2, TargetFrame DEF Trap, Hit, Disarm, CheckIdentity, Record, targets
  <2>a. Firing(t) /\ perf[e] \in EventRecords  BY DEF AllFiring, SessionsOK
  <2>1. CASE Trap(t) \/ CheckIdentity(t)
    BY <2>0, <2>1 DEF Trap, CheckIdentity, sessions
  <2>2. CASE Disarm(t)
    <3>1. CASE e # trapped[t]  BY <2>0, <2>2, <3>1 DEF Disarm, SessionsOK
    <3>2. CASE e = trapped[t]
      <4>1. \/ perf'[e] = perf[e]
            \/ perf'[e].state = "disarmed" /\ perf'[e].task = perf[e].task /\ perf'[e].hits = perf[e].hits
        BY <2>2, <2>a, <3>2 DEF Disarm, SessionsOK, EventRecords
      <4>2. perf[e].state = "armed"  BY <2>2, <2>a, <3>2 DEF Disarm
      <4> QED BY <2>0, <4>1, <4>2
    <3> QED BY <3>1, <3>2
  <2>3. CASE Record(t)
    <3>1. CASE e # trapped[t]  BY <2>0, <2>3, <3>1 DEF Record, SessionsOK
    <3>2. CASE e = trapped[t]
      <4>1. /\ perf'[e].state = perf[e].state /\ perf'[e].task = perf[e].task
            /\ perf'[e].hits = perf[e].hits + 1
        BY <2>3, <2>a, <3>2 DEF Record, SessionsOK, EventRecords
      <4>2. perf[e].state = "disarmed" /\ perf[e].hits = 0  BY <2>3, <2>a, <3>2 DEF Record
      <4> QED BY <2>0, <4>1, <4>2
    <3> QED BY <3>1, <3>2
  <2> QED BY <1>2, <2>1, <2>2, <2>3 DEF Hit
<1>3. ASSUME NEW f \in Fds, Open(f) \/ Close(f) \/ Release(f) PROVE AllWatched'
  <2> SUFFICES ASSUME NEW e \in Entries PROVE Watched(e)'  OBVIOUS
  <2> USE DEF Shape, SessionsOK
  <2>0. UNCHANGED <<life, mm>>  BY <1>3, SessionFrame DEF targets
  <2>1. CASE Open(f) \/ Close(f)
    BY <2>0, <2>1, EntryFd DEF Open, Close, Watched, Live
  <2>2. CASE ReleaseUnregister(f)
    <3>1. perf'[e] = perf[e] \/ perf'[e] = NoEvent  BY <2>2 DEF ReleaseUnregister, Unregister
    <3>2. UNCHANGED <<entry, granted, phase>>  BY <2>2 DEF ReleaseUnregister
    <3> QED BY <2>0, <3>1, <3>2 DEF Watched, Live, NoEvent
  <2>3. CASE ReleaseFree(f)
    <3>1. entry'[e] = entry[e] \/ ~Live(e)  BY <2>3 DEF ReleaseFree, FreeEntry, Live
    <3>2. UNCHANGED <<perf, granted, phase>>  BY <2>3 DEF ReleaseFree
    <3> QED BY <2>0, <3>1, <3>2 DEF Watched, Live
  <2>4. CASE ReleaseDone(f)
    <3>1. UNCHANGED <<entry, perf>> /\ granted' = {g \in granted : g.fd # f} /\ phase[f] = "closing"
      BY <2>4 DEF ReleaseDone
    <3>2. CASE e[1] # f
      <4>1. phase'[e[1]] = phase[e[1]]  BY <2>4, <3>2, EntryFd DEF ReleaseDone
      <4>2. \A u, m, k : Grant(e[1], u, m, k) \in granted => Grant(e[1], u, m, k) \in granted'
        BY <3>1, <3>2 DEF Grant
      <4> QED BY <2>0, <3>1, <4>1, <4>2 DEF Watched, Live
    <3>3. CASE e[1] = f
      <4>1. e \in EntriesOf(f) /\ ~entry[e].event  BY <2>4, <3>3, EntryFd DEF ReleaseDone
      <4>2. ~\E c \in Callers : pc[c] \in Filling /\ slot[c] = e
        BY <3>1, <4>1, NoSlotIfNotOpen DEF Adding, Locked, Checked
      <4>3. ~Live(e)  BY <4>1, <4>2 DEF Vacant
      <4> QED BY <3>1, <4>3 DEF Watched, Live
    <3> QED BY <3>2, <3>3
  <2> QED BY <1>3, <2>1, <2>2, <2>3, <2>4 DEF Release
<1>4. ASSUME NEW c \in Callers, Ioctl(c) PROVE AllWatched'
  <2> SUFFICES ASSUME NEW e \in Entries PROVE Watched(e)'  OBVIOUS
  <2> USE DEF Shape, SessionsOK
  <2>0. UNCHANGED <<life, mm, phase>>  BY <1>4, IoctlFrame DEF targets
  <2>1. granted \subseteq granted'
    BY <1>4 DEF Ioctl, Call, Refused, Lock, Drain, Remove, RemoveFind, RemoveUnregister,
       RemoveFree, Unlock, Add, AddFind, AddAccess, AddExecLock, AddRecheck, AddQuota,
       AddOverQuota, AddRegister, AddRollBack, AddStore, AddPut
  <2>2. CASE perf'[e] = perf[e] /\ (entry'[e] = entry[e] \/ ~Live(e))
    BY <2>0, <2>1, <2>2 DEF Watched, Live
  <2>3. CASE RemoveUnregister(c)
    <3>1. perf'[e] = perf[e] \/ perf'[e] = NoEvent  BY <2>3 DEF RemoveUnregister, Unregister
    <3>2. UNCHANGED <<entry, granted>>  BY <2>3 DEF RemoveUnregister
    <3> QED BY <2>0, <3>1, <3>2 DEF Watched, Live, NoEvent
  <2>4. CASE RemoveFree(c)
    BY <2>2, <2>4 DEF RemoveFree, FreeEntry, Live
  <2>5. CASE AddRegister(c)
    <3>0. fd[c] \in Fds /\ phase[fd[c]] = "open"
      BY <2>5 DEF AddRegister, AllOwning, Owning
    <3>1. slot[c] \in Entries /\ slot[c][1] = fd[c] /\ ~Live(slot[c])
      BY <2>5, <3>0, EntryFd DEF AddRegister, AllPlaced, Placed, Adding, Locked, Checked
    <3>2. CASE e # slot[c]  BY <2>2, <2>5, <3>2 DEF AddRegister
    <3>3. CASE e = slot[c] /\ perf'[e] = perf[e]  BY <2>2, <3>1, <3>3
    <3>4. CASE /\ e = slot[c] /\ life[task[c]] = "alive"
               /\ perf'[e] = [state |-> "armed", task |-> task[c], hits |-> 0]
      <4>1. /\ task[c] \in Tasks /\ pid[c] = PidOf[task[c]] /\ gotMm[c] # 0
            /\ Grant(fd[c], task[c], gotMm[c], gotCred[c]) \in granted
            /\ mm[task[c]] = gotMm[c]
        BY <2>5, <3>4 DEF AddRegister, AllTargeting, Targeting, Adding, Locked, Checked
      <4>2. entry'[e].pid = pid[c] /\ entry'[e].mm = gotMm[c] /\ entry'[e].cred = gotCred[c]
        BY <2>5, <3>1, <3>4 DEF AddRegister, Filled
      <4> QED BY <2>0, <2>1, <3>0, <3>1, <3>4, <4>1, <4>2 DEF Watched, Live
    <3> QED BY <2>5, <3>1, <3>2, <3>3, <3>4 DEF AddRegister
  <2>6. CASE AddRollBack(c)
    <3>1. ~Live(slot[c])
      BY <2>6 DEF AddRollBack, AllPlaced, Placed, Adding, Locked, Checked, Filling
    <3> QED BY <2>2, <2>6, <3>1 DEF AddRollBack
  <2>7. CASE AddStore(c)
    <3>1. /\ entry'[e].pid = entry[e].pid /\ entry'[e].mm = entry[e].mm
          /\ entry'[e].cred = entry[e].cred /\ UNCHANGED perf
      BY <2>7 DEF AddStore, EntryRecords
    <3> QED BY <2>0, <2>1, <3>1 DEF Watched, Live
  <2> QED BY <1>4, <2>2, <2>3, <2>4, <2>5, <2>6, <2>7
      DEF Ioctl, Call, Refused, Lock, Drain, Remove, RemoveFind, Unlock, Add, AddFind, AddAccess,
          AddExecLock, AddRecheck, AddQuota, AddOverQuota, AddPut, sessions
<1> QED BY <1>1, <1>2, <1>3, <1>4 DEF Next

\* A callback is not disturbed by what leaves its task, event and entry alone.
LEMMA FiringFrame ==
  ASSUME NEW u \in Tasks, Firing(u),
         UNCHANGED <<handler[u], trapped[u], life[u], mm[u], cred[u]>>,
         handler[u] # "user" => /\ perf'[trapped[u]] = perf[trapped[u]]
                                /\ entry'[trapped[u]].mm = entry[trapped[u]].mm
                                /\ entry'[trapped[u]].cred = entry[trapped[u]].cred
  PROVE  Firing(u)'
BY DEF Firing

\* Every step leaves running callbacks with the event that trapped them.
LEMMA FiringStep ==
  ASSUME Shape, AllOwning, AllPlaced, AllWatched, AllFiring, Next
  PROVE  AllFiring'
<1> USE DEF AllFiring, Shape
<1>0. \A u \in Tasks : handler[u] # "user" => trapped[u] \in Entries /\ Live(trapped[u])
  BY DEF Firing, Live, TargetsOK
<1>1. ASSUME NEW t \in Tasks, Target(t) PROVE AllFiring'
  <2>1. UNCHANGED <<handler, trapped, entry>>
    BY <1>1, TargetFrame DEF Target, Spawn, Exec, SetCred, Exit, callbacks
  <2>2. handler[t] = "user"
    BY <1>1 DEF Target, Spawn, Exec, SetCred, Exit, InUser, Firing
  <2>3. Firing(t)'  BY <2>1, <2>2 DEF Firing
  <2>4. ASSUME NEW u \in Tasks \ {t} PROVE Firing(u)'
    <3>1. UNCHANGED <<life[u], mm[u], cred[u]>>
      BY <1>1 DEF Target, Spawn, Exec, SetCred, Exit, TargetsOK
    <3>2. handler[u] # "user" => perf'[trapped[u]] = perf[trapped[u]]
      BY <1>1, <1>0 DEF Target, Spawn, Exec, SetCred, Exit, DetachFrom, sessions, Firing
    <3> QED BY <2>1, <3>1, <3>2, FiringFrame
  <2> QED BY <2>3, <2>4
<1>2. ASSUME NEW t \in Tasks, Trap(t) \/ Hit(t) PROVE AllFiring'
  <2>0. UNCHANGED <<entry, life, mm, cred>>
    BY <1>2, TargetFrame DEF Trap, Hit, Disarm, CheckIdentity, Record, targets
  <2>1. ASSUME NEW u \in Tasks \ {t} PROVE Firing(u)'
    <3>1. handler'[u] = handler[u] /\ trapped'[u] = trapped[u]
      BY <1>2 DEF Trap, Hit, Disarm, CheckIdentity, Record, Leave, TargetsOK
    <3>2. handler[u] # "user" /\ handler[t] # "user" => trapped[u] # trapped[t]
      BY DEF Firing
    <3>3. handler[u] # "user" => perf'[trapped[u]] = perf[trapped[u]]
      <4>1. UNCHANGED perf \/ handler[t] # "user"
        BY <1>2 DEF Trap, Hit, Disarm, CheckIdentity, Record, sessions
      <4>2. \A e \in Entries : e # trapped[t] => perf'[e] = perf[e]
        BY <1>2 DEF Trap, Hit, Disarm, CheckIdentity, Record, sessions, SessionsOK
      <4> QED BY <1>0, <3>2, <4>1, <4>2
    <3> QED BY <2>0, <3>1, <3>3, FiringFrame
  <2>2. Firing(t)'
    <3> USE DEF Firing, TargetsOK
    <3>1. CASE Trap(t)
      <4>1. /\ handler'[t] = "disarm" /\ trapped'[t] \in Entries /\ UNCHANGED perf
            /\ perf[trapped'[t]].state = "armed" /\ perf[trapped'[t]].task = t /\ life[t] = "alive"
        BY <3>1 DEF Trap, sessions, InUser
      <4> QED BY <2>0, <4>1
    <3>2. CASE handler'[t] = "user" /\ trapped'[t] = None  BY <3>2
    <3>3. CASE Disarm(t) /\ handler'[t] = "check"
      <4>1. trapped'[t] = trapped[t] /\ perf' = [perf EXCEPT ![trapped[t]].state = "disarmed"]
        BY <3>3 DEF Disarm, Leave
      <4>2. trapped[t] \in Entries /\ perf[trapped[t]] \in EventRecords
        BY <3>3, <1>0 DEF Disarm, SessionsOK
      <4>3. perf'[trapped[t]].state = "disarmed" /\ perf'[trapped[t]].task = perf[trapped[t]].task
            /\ perf'[trapped[t]].hits = perf[trapped[t]].hits
        BY <4>1, <4>2 DEF EventRecords, SessionsOK
      <4>4. perf[trapped[t]].hits = 0
        BY <3>3, <4>2 DEF Disarm, AllWatched, Watched
      <4> QED BY <2>0, <3>3, <4>1, <4>2, <4>3, <4>4 DEF Disarm
    <3>4. CASE CheckIdentity(t) /\ handler'[t] = "record"
      BY <2>0, <3>4 DEF CheckIdentity, Leave, sessions
    <3> QED BY <1>2, <3>1, <3>2, <3>3, <3>4 DEF Hit, Disarm, CheckIdentity, Record, Leave
  <2> QED BY <2>1, <2>2
<1>3. ASSUME NEW f \in Fds, Open(f) \/ Close(f) \/ Release(f) PROVE AllFiring'
  <2> SUFFICES ASSUME NEW u \in Tasks PROVE Firing(u)'  OBVIOUS
  <2>1. UNCHANGED <<handler, trapped, life, mm, cred>>
    BY <1>3, SessionFrame DEF targets, callbacks
  <2>2. ASSUME handler[u] # "user"
        PROVE  perf'[trapped[u]] = perf[trapped[u]] /\ entry'[trapped[u]] = entry[trapped[u]]
    BY <1>0, <1>3, <2>2 DEF Open, Close, Release, ReleaseUnregister, ReleaseFree, ReleaseDone,
       Unregister, FreeEntry, Live, SessionsOK
  <2> QED BY <2>1, <2>2, FiringFrame
<1>4. ASSUME NEW c \in Callers, Ioctl(c) PROVE AllFiring'
  <2> SUFFICES ASSUME NEW u \in Tasks PROVE Firing(u)'  OBVIOUS
  <2>1. UNCHANGED <<handler, trapped, life, mm, cred>>
    BY <1>4, IoctlFrame DEF targets, callbacks
  <2>2. ASSUME handler[u] # "user"
        PROVE  /\ perf'[trapped[u]] = perf[trapped[u]]
               /\ entry'[trapped[u]].mm = entry[trapped[u]].mm
               /\ entry'[trapped[u]].cred = entry[trapped[u]].cred
    <3>1. pc[c] \in {"register", "roll_back"} => trapped[u] # slot[c]
      BY <1>0, <2>2 DEF AllPlaced, Placed, Adding, Locked, Checked, Filling
    <3>2. trapped[u] \in Entries /\ Live(trapped[u])  BY <1>0, <2>2
    <3>3. CASE RemoveUnregister(c) \/ RemoveFree(c)
      BY <3>2, <3>3 DEF RemoveUnregister, RemoveFree, Unregister, FreeEntry, Live, SessionsOK
    <3>4. CASE AddRegister(c) \/ AddRollBack(c)
      BY <3>1, <3>2, <3>4 DEF AddRegister, AddRollBack, SessionsOK
    <3>5. CASE AddStore(c)  BY <3>2, <3>5 DEF AddStore, SessionsOK, EntryRecords
    <3>6. CASE UNCHANGED <<entry, perf>>  BY <3>6
    <3> QED BY <1>4, <3>3, <3>4, <3>5, <3>6
        DEF Ioctl, Call, Refused, Lock, Drain, Remove, RemoveFind, Unlock, Add, AddFind, AddAccess,
            AddExecLock, AddRecheck, AddQuota, AddOverQuota, AddPut, sessions
  <2> QED BY <2>1, <2>2, FiringFrame
<1> QED BY <1>1, <1>2, <1>3, <1>4 DEF Next

-----------------------------------------------------------------------------
(* Hits, duplicates, closed descriptors *)

\* Every step keeps queued hits within what their descriptor may see.
LEMMA HitsStep ==
  ASSUME Shape, AllFiring, AllWatched, HitsAuthorized, Next
  PROVE  HitsAuthorized'
<1> USE DEF Shape, SessionsOK
<1> DEFINE Seen(f, h) == [fd |-> f, task |-> h.task, mm |-> h.mm, cred |-> h.cred]
<1>0. \A f \in Fds : \A i \in 1..Len(queue[f]) : Seen(f, queue[f][i]) \in granted
  BY DEF HitsAuthorized
<1>1. ASSUME granted \subseteq granted',
             \A f \in Fds : \/ queue'[f] = queue[f]
                            \/ \E k \in 0..Len(queue[f]) : queue'[f] = SubSeq(queue[f], k + 1, Len(queue[f]))
      PROVE  HitsAuthorized'
  <2> SUFFICES ASSUME NEW f \in Fds, NEW i \in 1..Len(queue'[f])
               PROVE  Seen(f, queue'[f][i]) \in granted'
    BY DEF HitsAuthorized
  <2>1. CASE queue'[f] = queue[f]  BY <1>0, <1>1, <2>1
  <2>2. ASSUME NEW k \in 0..Len(queue[f]), queue'[f] = SubSeq(queue[f], k + 1, Len(queue[f]))
        PROVE  Seen(f, queue'[f][i]) \in granted'
    <3>1. queue[f] \in Seq(HitRecords)  OBVIOUS
    <3>2. queue'[f][i] = queue[f][k + i] /\ k + i \in 1..Len(queue[f])  BY <2>2, <3>1
    <3> QED BY <1>0, <1>1, <3>2
  <2> QED BY <1>1, <2>1, <2>2
<1>2. ASSUME NEW t \in Tasks, Record(t) PROVE HitsAuthorized'
  <2> DEFINE e == trapped[t]  f == e[1]
             hit == [task |-> t, mm |-> mm[t], cred |-> cred[t]]
  <2>1. /\ e \in Entries /\ f \in Fds /\ perf[e].task = t /\ Live(e)
        /\ mm[t] = entry[e].mm /\ cred[t] = entry[e].cred
    BY <1>2, EntryFd DEF Record, AllFiring, Firing, Live
  <2>2. Seen(f, hit) \in granted  BY <2>1 DEF AllWatched, Watched, Grant
  <2>3. granted' = granted  BY <1>2 DEF Record
  <2>4. ASSUME queue' = [queue EXCEPT ![f] = Append(@, hit)] PROVE HitsAuthorized'
    <3>1. queue[f] \in Seq(HitRecords) /\ hit \in HitRecords
      BY <2>1 DEF TargetsOK, HitRecords
    <3>2. /\ Len(queue'[f]) = Len(queue[f]) + 1
          /\ \A i \in 1..Len(queue[f]) : queue'[f][i] = queue[f][i]
          /\ queue'[f][Len(queue[f]) + 1] = hit
      <4> HIDE DEF hit, f
      <4> QED BY <2>1, <2>4, <3>1
    <3>3. \A o \in Fds \ {f} : queue'[o] = queue[o]  BY <2>4
    <3> SUFFICES ASSUME NEW o \in Fds, NEW i \in 1..Len(queue'[o])
                 PROVE  Seen(o, queue'[o][i]) \in granted'
      BY DEF HitsAuthorized
    <3>4. CASE o # f  BY <1>0, <2>3, <3>3, <3>4
    <3>5. CASE o = f /\ i = Len(queue[f]) + 1  BY <2>2, <2>3, <3>2, <3>5
    <3>6. CASE o = f /\ i # Len(queue[f]) + 1
      <4>1. i \in 1..Len(queue[f])  BY <3>1, <3>2, <3>6
      <4> QED BY <1>0, <2>1, <2>3, <3>2, <3>6, <4>1
    <3> QED BY <3>4, <3>5, <3>6
  <2>5. CASE queue' = queue  BY <1>1, <2>3, <2>5
  <2> QED BY <1>2, <2>4, <2>5 DEF Record
<1>3. ASSUME NEW f \in Fds, ReleaseDone(f) PROVE HitsAuthorized'
  <2> SUFFICES ASSUME NEW o \in Fds, NEW i \in 1..Len(queue'[o])
               PROVE  Seen(o, queue'[o][i]) \in granted'
    BY DEF HitsAuthorized
  <2>1. CASE o = f
    <3>1. queue'[o] = <<>>  BY <1>3, <2>1 DEF ReleaseDone
    <3> QED BY <3>1
  <2>2. CASE o # f
    <3>1. queue'[o] = queue[o] /\ granted' = {g \in granted : g.fd # f}
      BY <1>3, <2>2 DEF ReleaseDone
    <3> QED BY <1>0, <2>2, <3>1
  <2> QED BY <2>1, <2>2
<1>4. ASSUME NEW c \in Callers, Drain(c) PROVE HitsAuthorized'
  <2>1. granted' = granted  BY <1>4 DEF Drain
  <2>2. \A f \in Fds : \/ queue'[f] = queue[f]
                       \/ \E k \in 0..Len(queue[f]) : queue'[f] = SubSeq(queue[f], k + 1, Len(queue[f]))
    BY <1>4 DEF Drain
  <2> QED BY <1>1, <2>1, <2>2
<1>5. CASE granted \subseteq granted' /\ queue' = queue  BY <1>1, <1>5
<1>6. ASSUME NEW t \in Tasks, Target(t) \/ Trap(t) \/ Disarm(t) \/ CheckIdentity(t) PROVE HitsAuthorized'
  BY <1>5, <1>6 DEF Target, Spawn, Exec, SetCred, Exit, Trap, Disarm, CheckIdentity
<1>7. ASSUME NEW f \in Fds, Open(f) \/ Close(f) \/ ReleaseUnregister(f) \/ ReleaseFree(f)
      PROVE  HitsAuthorized'
  BY <1>5, <1>7 DEF Open, Close, ReleaseUnregister, ReleaseFree
<1>8. ASSUME NEW c \in Callers, Ioctl(c) PROVE HitsAuthorized'
  BY <1>4, <1>5, <1>8 DEF Ioctl, Call, Refused, Lock, Remove, RemoveFind, RemoveUnregister,
     RemoveFree, Unlock, Add, AddFind, AddAccess, AddExecLock, AddRecheck, AddQuota, AddOverQuota,
     AddRegister, AddRollBack, AddStore, AddPut
<1> QED BY <1>2, <1>3, <1>6, <1>7, <1>8 DEF Next, Hit, Release

\* Every step keeps registrations of a descriptor distinct.
LEMMA UniqueStep ==
  ASSUME Shape, AllOwning, AllPlaced, UniqueRegistrations, Next
  PROVE  UniqueRegistrations'
<1> USE DEF Shape, SessionsOK
<1>1. CASE \A e \in Entries : entry'[e] = entry[e] \/ ~entry'[e].event
  BY <1>1 DEF UniqueRegistrations, Held
<1>2. ASSUME NEW c \in Callers, AddStore(c) PROVE UniqueRegistrations'
  <2> DEFINE s == slot[c]
  <2>1. pc[c] = "store" /\ fd[c] \in Fds  BY <1>2 DEF AddStore, AllOwning, Owning
  <2>2. /\ s \in EntriesOf(fd[c]) /\ entry[s] = Filled(c)
        /\ \A o \in EntriesOf(fd[c]) : entry[o].event => entry[o].pid # pid[c] \/ entry[o].addr # addr[c]
    BY <2>1 DEF AllPlaced, Placed, Adding, Locked, Checked, Filling
  <2>3. s \in Entries /\ s[1] = fd[c]  BY <2>1, <2>2, EntryFd
  <2>4. /\ \A e \in Entries : e # s => entry'[e] = entry[e]
        /\ entry'[s].pid = pid[c] /\ entry'[s].addr = addr[c]
    BY <1>2, <2>2, <2>3 DEF AddStore, Filled
  <2>5. \A o \in Entries \ {s} : o[1] = s[1] /\ entry[o].event =>
          entry'[o].pid # entry'[s].pid \/ entry'[o].addr # entry'[s].addr
    BY <2>2, <2>3, <2>4, EntryFd
  <2> QED BY <2>3, <2>4, <2>5 DEF UniqueRegistrations, Held
<1>3. ASSUME NEW t \in Tasks, Target(t) \/ Trap(t) \/ Hit(t) PROVE UniqueRegistrations'
  BY <1>1, <1>3, TargetFrame
<1>4. ASSUME NEW f \in Fds, Open(f) \/ Close(f) \/ Release(f) PROVE UniqueRegistrations'
  BY <1>1, <1>4 DEF Open, Close, Release, ReleaseUnregister, ReleaseFree, ReleaseDone, FreeEntry, NoEntry
<1>5. ASSUME NEW c \in Callers, Ioctl(c) PROVE UniqueRegistrations'
  <2>1. CASE RemoveFree(c)  BY <1>1, <2>1 DEF RemoveFree, FreeEntry, NoEntry
  <2>2. CASE AddRegister(c)  BY <1>1, <2>2 DEF AddRegister, Filled
  <2>3. CASE AddRollBack(c)  BY <1>1, <2>3 DEF AddRollBack, NoEntry
  <2>4. CASE UNCHANGED entry  BY <1>1, <2>4
  <2> QED BY <1>2, <1>5, <2>1, <2>2, <2>3, <2>4
      DEF Ioctl, Call, Refused, Lock, Drain, Remove, RemoveFind, RemoveUnregister, Unlock, Add,
          AddFind, AddAccess, AddExecLock, AddRecheck, AddQuota, AddOverQuota, AddPut, sessions
<1> QED BY <1>3, <1>4, <1>5 DEF Next

\* Every step leaves closed descriptors empty.
LEMMA ClosedStep ==
  ASSUME Shape, AllOwning, AllWatched, AllFiring, AllPlaced, Closed, Next
  PROVE  Closed'
<1> USE DEF Shape, SessionsOK
<1>1. ASSUME NEW t \in Tasks, Target(t) \/ Trap(t) \/ Hit(t) PROVE Closed'
  <2>1. UNCHANGED <<phase, entry>>  BY <1>1, TargetFrame
  <2>2. \A f \in Fds : phase[f] = "closed" => queue'[f] = queue[f]
    <3>1. CASE Record(t)
      <4>1. trapped[t] \in Entries /\ phase[trapped[t][1]] # "closed"
        BY <3>1 DEF Record, AllFiring, Firing, AllWatched, Watched, Live
      <4> QED BY <3>1, <4>1 DEF Record
    <3>2. CASE UNCHANGED queue  BY <3>2
    <3> QED BY <1>1, <3>1, <3>2
        DEF Target, Spawn, Exec, SetCred, Exit, Trap, Hit, Disarm, CheckIdentity
  <2> QED BY <2>1, <2>2 DEF Closed
<1>2. ASSUME NEW f \in Fds, Open(f) \/ Close(f) \/ Release(f) PROVE Closed'
  <2>1. CASE Open(f) \/ Close(f)  BY <2>1 DEF Open, Close, Closed
  <2>2. CASE ReleaseUnregister(f)  BY <2>2 DEF ReleaseUnregister, Closed
  <2>3. CASE ReleaseFree(f)
    <3>1. \A e \in Entries : entry'[e].event => entry[e].event
      BY <2>3 DEF ReleaseFree, FreeEntry, NoEntry
    <3> QED BY <2>3, <3>1, EntryFd DEF ReleaseFree, Closed
  <2>4. CASE ReleaseDone(f)  BY <2>4 DEF ReleaseDone, Closed
  <2> QED BY <1>2, <2>1, <2>2, <2>3, <2>4 DEF Release
<1>3. ASSUME NEW c \in Callers, Ioctl(c) PROVE Closed'
  <2>0. UNCHANGED phase  BY <1>3, IoctlFrame
  <2>1. pc[c] # "idle" => fd[c] \in Fds /\ phase[fd[c]] = "open"  BY DEF AllOwning, Owning
  <2>2. \A f \in Fds : f # fd[c] => queue'[f] = queue[f]
    BY <1>3 DEF Ioctl, Call, Refused, Lock, Drain, Remove, RemoveFind, RemoveUnregister,
       RemoveFree, Unlock, Add, AddFind, AddAccess, AddExecLock, AddRecheck, AddQuota,
       AddOverQuota, AddRegister, AddRollBack, AddStore, AddPut
  <2>3. \A e \in Entries : entry'[e] = entry[e] \/ ~entry'[e].event
                           \/ (pc[c] = "store" /\ e = slot[c])
    BY <1>3 DEF Ioctl, Call, Refused, Lock, Drain, Remove, RemoveFind, RemoveUnregister,
       RemoveFree, FreeEntry, Unlock, Add, AddFind, AddAccess, AddExecLock, AddRecheck, AddQuota,
       AddOverQuota, AddRegister, AddRollBack, AddStore, AddPut, sessions, NoEntry, Filled
  <2>4. pc[c] = "store" => slot[c] \in EntriesOf(fd[c])
    BY DEF AllPlaced, Placed, Adding, Locked, Checked, Filling
  <2>5. queue' = queue \/ pc[c] # "idle"
    BY <1>3 DEF Ioctl, Call, Refused, Lock, Drain, Remove, RemoveFind, RemoveUnregister,
       RemoveFree, Unlock, Add, AddFind, AddAccess, AddExecLock, AddRecheck, AddQuota,
       AddOverQuota, AddRegister, AddRollBack, AddStore, AddPut
  <2>6. \A f \in Fds : phase[f] = "closed" => f # fd[c] \/ queue' = queue  BY <2>1, <2>5
  <2> QED BY <2>0, <2>1, <2>2, <2>3, <2>4, <2>6, EntryFd DEF Closed
<1> QED BY <1>1, <1>2, <1>3 DEF Next

-----------------------------------------------------------------------------
(* The inductive invariant and what follows *)

\* A driver just loaded satisfies the invariant.
LEMMA InitInv == Init => SInv
<1> SUFFICES ASSUME Init PROVE SInv  OBVIOUS
<1>1. Shape  BY InitShape
<1>2. Born  BY <1>1 DEF Init, Born, Shape, TargetsOK, Ids
<1>3. AllOwning /\ AllPlaced /\ AllTargeting
  BY DEF Init, AllOwning, Owning, AllPlaced, Placed, AllTargeting, Targeting, Adding, Locked,
     Checked, Filling
<1>4. Vacant /\ AllWatched  BY DEF Init, Vacant, AllWatched, Watched, Live, NoEvent, NoEntry
<1>5. AllFiring  BY DEF Init, AllFiring, Firing
<1>6. HitsAuthorized /\ UniqueRegistrations /\ Closed
  BY DEF Init, HitsAuthorized, UniqueRegistrations, Held, Closed, NoEntry, Entries, EntriesOf
<1> QED BY <1>1, <1>2, <1>3, <1>4, <1>5, <1>6 DEF SInv

\* Every step keeps the types.
LEMMA ShapeStep == ASSUME SInv, Next PROVE Shape'
BY TargetShape, HandlerShape, SessionShape, IoctlShape, AddShape DEF SInv, Next, Ioctl

\* Every step, and every step of something else, keeps the invariant.
LEMMA StepInv == SInv /\ [Next]_vars => SInv'
<1> SUFFICES ASSUME SInv, [Next]_vars PROVE SInv'  OBVIOUS
<1>1. CASE Next
  <2>1. Shape'  BY <1>1, ShapeStep
  <2>2. AllOwning' /\ AllPlaced'  BY <1>1, OwningStep, PlacedStep DEF SInv
  <2>3. Born' /\ AllTargeting'  BY <1>1, <2>1, BornStep, TargetingStep DEF SInv
  <2>4. Vacant' /\ AllWatched'  BY <1>1, VacantStep, WatchedStep DEF SInv
  <2>5. AllFiring'  BY <1>1, FiringStep DEF SInv
  <2>6. HitsAuthorized' /\ UniqueRegistrations' /\ Closed'
    BY <1>1, HitsStep, UniqueStep, ClosedStep DEF SInv
  <2> QED BY <2>1, <2>2, <2>3, <2>4, <2>5, <2>6 DEF SInv
<1>2. CASE UNCHANGED vars
  <2> USE <1>2 DEF vars, targets, callbacks, sessions, refs, callers
  <2>1. Shape' /\ Born'  BY DEF SInv, Shape, TargetsOK, SessionsOK, CallersOK, Born
  <2>2. AllOwning' /\ AllPlaced'
    BY DEF SInv, AllOwning, Owning, AllPlaced, Placed, Live, Filled
  <2>3. AllTargeting'  BY DEF SInv, AllTargeting, Targeting
  <2>4. Vacant' /\ AllWatched'  BY DEF SInv, Vacant, AllWatched, Watched, Live
  <2>5. AllFiring'  BY DEF SInv, AllFiring, Firing
  <2>6. HitsAuthorized' /\ UniqueRegistrations' /\ Closed'
    BY DEF SInv, HitsAuthorized, UniqueRegistrations, Held, Closed
  <2> QED BY <2>1, <2>2, <2>3, <2>4, <2>5, <2>6 DEF SInv
<1> QED BY <1>1, <1>2

\* The invariant holds of every behaviour.
THEOREM Safety == Spec => []SInv
BY InitInv, StepInv, PTL DEF Spec

\* No exec, credential change, exit or TID reuse leaves an event on an identity that
\* mm_access did not let its descriptor watch.
THEOREM Authorized == Spec => []AttachedAsAuthorized
<1>1. SInv => AttachedAsAuthorized
  BY DEF SInv, AttachedAsAuthorized, AllWatched, Watched, Live, Grant
<1> QED BY <1>1, Safety, PTL

\* Registers reach a descriptor only from an identity it was allowed to watch.
THEOREM HitsStayAuthorized == Spec => []HitsAuthorized
<1>1. SInv => HitsAuthorized  BY DEF SInv
<1> QED BY <1>1, Safety, PTL

\* Neither REMOVE nor a close frees or reuses an entry under the callback using it.
THEOREM CallbackSafe == Spec => []CallbackHasItsEntry
<1>1. SInv => CallbackHasItsEntry
  <2> SUFFICES ASSUME SInv, NEW t \in Tasks, handler[t] # "user"
               PROVE  /\ trapped[t] \in Entries
                      /\ Live(trapped[t]) /\ perf[trapped[t]].task = t
                      /\ entry[trapped[t]].pid = PidOf[t] /\ entry[trapped[t]].mm # 0
                      /\ phase[trapped[t][1]] # "closed"
    BY DEF CallbackHasItsEntry
  <2>1. trapped[t] \in Entries /\ Live(trapped[t]) /\ perf[trapped[t]].task = t
    BY DEF SInv, Shape, TargetsOK, AllFiring, Firing, Live
  <2> QED BY <2>1 DEF SInv, AllWatched, Watched
<1> QED BY <1>1, Safety, PTL

\* A registration never yields a second hit, though its instruction runs again.
THEOREM OneShot == Spec => []OneHitPerRegistration
<1>1. SInv => OneHitPerRegistration  BY DEF SInv, AllWatched, Watched, OneHitPerRegistration
<1> QED BY <1>1, Safety, PTL

\* A descriptor holds no two registrations of one TID and address.
THEOREM NoDuplicates == Spec => []UniqueRegistrations
<1>1. SInv => UniqueRegistrations  BY DEF SInv
<1> QED BY <1>1, Safety, PTL

\* A close leaves no event attached, no entry filled and no hit queued.
THEOREM CloseIsClean == Spec => []ClosedIsClean
<1>1. SInv => ClosedIsClean
  <2> SUFFICES ASSUME SInv, NEW f \in Fds, phase[f] = "closed"
               PROVE  queue[f] = <<>> /\ \A e \in EntriesOf(f) : ~Live(e) /\ entry[e] = NoEntry
    BY DEF ClosedIsClean
  <2>1. queue[f] = <<>> /\ \A e \in EntriesOf(f) : ~entry[e].event  BY DEF SInv, Closed
  <2>2. \A e \in EntriesOf(f) : ~\E c \in Callers : pc[c] \in Filling /\ slot[c] = e
    BY NoSlotIfNotOpen DEF SInv, Adding, Locked, Checked
  <2> QED BY <2>1, <2>2, EntryFd DEF SInv, Vacant
<1> QED BY <1>1, Safety, PTL

=============================================================================
