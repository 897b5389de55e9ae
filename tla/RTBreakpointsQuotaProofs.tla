--------------------- MODULE RTBreakpointsQuotaProofs ---------------------
(***************************************************************************)
(* Proofs about what RTBreakpoints counts: the references it holds and the *)
(* quota shared by its descriptors, for any number of each.                *)
(***************************************************************************)
EXTENDS RTBreakpointsProofs

Unit(x, S) == IF x \in S THEN 1 ELSE 0
Owed(n) == IF n # 0 THEN 1 ELSE 0                      \* a reference, if n is one

InQuota == {"over_quota", "register"} \cup Filling     \* holding a unit of rt_bp_total
Allowed == {"register"} \cup Filling                   \* of those, within the limit
Idle == {"idle", "wait", "drain", "remove", "unregister", "free", "unlock", "add"}

NumHeld == Cardinality(Held)
NumInQuota == Cardinality(CallersAt(InQuota))
NumAllowed == Cardinality(CallersAt(Allowed))
NumFilling == Cardinality(CallersAt(Filling))
CredHolders == {c \in Callers : gotCred[c] # 0}
MmHolders == {c \in Callers : gotMm[c] # 0}
NumCred == Cardinality(CredHolders)
NumMm == Cardinality(MmHolders)

\* A caller holds references only between taking them and putting them.
Released(c) ==
  /\ pc[c] \notin Adding \cup {"put"} => gotCred[c] = 0
  /\ pc[c] \notin {"exec_lock", "put"} \cup Locked => gotMm[c] = 0

AllReleased == \A c \in Callers : Released(c)

Ledger ==
  /\ total = NumHeld + NumInQuota
  /\ credRefs = NumHeld + NumCred
  /\ mmGrabs = NumHeld + NumFilling
  /\ mmUsers = NumMm
  /\ NumHeld + NumAllowed <= MaxGlobal

CInv == SInv /\ AllReleased /\ Ledger

-----------------------------------------------------------------------------
(* Counting *)

\* Changing the membership of one element changes the count by one.
LEMMA OneDiffers ==
  ASSUME NEW U, IsFiniteSet(U), NEW A \in SUBSET U, NEW B \in SUBSET U, NEW x \in U,
         \A y \in U \ {x} : y \in A <=> y \in B
  PROVE  /\ Cardinality(A) \in Nat /\ Cardinality(B) \in Nat
         /\ Cardinality(B) = Cardinality(A) + Unit(x, B) - Unit(x, A)
<1>1. IsFiniteSet(A) /\ IsFiniteSet(B)  BY FS_Subset
<1>2. Cardinality(A) \in Nat /\ Cardinality(B) \in Nat  BY <1>1, FS_CardinalityType
<1>3. CASE (x \in A) <=> (x \in B)
  <2>1. A = B  BY <1>3
  <2> QED BY <1>2, <1>3, <2>1 DEF Unit
<1>4. CASE x \in A /\ x \notin B
  <2>1. B = A \ {x}  BY <1>4
  <2>2. Cardinality(B) = Cardinality(A) - 1  BY <1>1, <1>4, <2>1, FS_RemoveElement
  <2> QED BY <1>2, <1>4, <2>2 DEF Unit
<1>5. CASE x \notin A /\ x \in B
  <2>1. B = A \cup {x}  BY <1>5
  <2>2. Cardinality(B) = Cardinality(A) + 1  BY <1>1, <1>5, <2>1, FS_AddElement
  <2> QED BY <1>2, <1>5, <2>2 DEF Unit
<1> QED BY <1>3, <1>4, <1>5

\* There are finitely many entries.
LEMMA FiniteEntries == IsFiniteSet(Entries)
<1>1. IsFiniteSet(Slots)  BY FS_Interval, LimitsAssumption DEF Slots
<1> QED BY <1>1, FS_Product, SetsAssumption DEF Entries

\* The counts are numbers.
LEMMA Numbers ==
  /\ NumHeld \in Nat /\ NumInQuota \in Nat /\ NumAllowed \in Nat /\ NumFilling \in Nat
  /\ NumCred \in Nat /\ NumMm \in Nat
<1>1. \A S \in SUBSET Callers : Cardinality(S) \in Nat
  BY SetsAssumption, FS_Subset, FS_CardinalityType
<1>2. IsFiniteSet(Held)  BY FiniteEntries, FS_Subset DEF Held
<1> QED BY <1>1, <1>2, FS_CardinalityType
  DEF NumHeld, NumInQuota, NumAllowed, NumFilling, NumCred, NumMm, CallersAt, CredHolders, MmHolders

\* A caller that moves on.
LEMMA Moved ==
  ASSUME CallersOK, NEW c \in Callers, NEW next, pc' = [pc EXCEPT ![c] = next]
  PROVE  /\ NumInQuota' = NumInQuota + Unit(next, InQuota) - Unit(pc[c], InQuota)
         /\ NumAllowed' = NumAllowed + Unit(next, Allowed) - Unit(pc[c], Allowed)
         /\ NumFilling' = NumFilling + Unit(next, Filling) - Unit(pc[c], Filling)
<1>1. pc'[c] = next /\ \A d \in Callers \ {c} : pc'[d] = pc[d]  BY DEF CallersOK
<1>2. ASSUME NEW S
      PROVE  Cardinality(CallersAt(S)') = Cardinality(CallersAt(S)) + Unit(next, S) - Unit(pc[c], S)
  <2>1. CallersAt(S) \in SUBSET Callers /\ CallersAt(S)' \in SUBSET Callers  BY DEF CallersAt
  <2>2. \A d \in Callers \ {c} : d \in CallersAt(S) <=> d \in CallersAt(S)'
    BY <1>1 DEF CallersAt
  <2>3. Cardinality(CallersAt(S)')
          = Cardinality(CallersAt(S)) + Unit(c, CallersAt(S)') - Unit(c, CallersAt(S))
    BY <2>1, <2>2, OneDiffers, SetsAssumption
  <2>4. (c \in CallersAt(S)' <=> next \in S) /\ (c \in CallersAt(S) <=> pc[c] \in S)
    BY <1>1 DEF CallersAt
  <2> QED BY <2>3, <2>4 DEF Unit
<1> QED BY <1>2 DEF NumInQuota, NumAllowed, NumFilling

\* A caller that takes or gives back references.
LEMMA CredMoved ==
  ASSUME CallersOK, NEW c \in Callers, NEW n, gotCred' = [gotCred EXCEPT ![c] = n]
  PROVE  NumCred' = NumCred + Owed(n) - Owed(gotCred[c])
<1>1. gotCred'[c] = n /\ \A d \in Callers \ {c} : gotCred'[d] = gotCred[d]  BY DEF CallersOK
<1>2. \A d \in Callers \ {c} : d \in CredHolders <=> d \in CredHolders'
  BY <1>1 DEF CredHolders
<1>3. (c \in CredHolders' <=> n # 0) /\ (c \in CredHolders <=> gotCred[c] # 0)
  BY <1>1 DEF CredHolders
<1>4. CredHolders \in SUBSET Callers /\ CredHolders' \in SUBSET Callers  BY DEF CredHolders
<1>5. NumCred' = NumCred + Unit(c, CredHolders') - Unit(c, CredHolders)
  BY <1>2, <1>4, OneDiffers, SetsAssumption DEF NumCred
<1> QED BY <1>3, <1>5 DEF Unit, Owed

LEMMA MmMoved ==
  ASSUME CallersOK, NEW c \in Callers, NEW n, gotMm' = [gotMm EXCEPT ![c] = n]
  PROVE  NumMm' = NumMm + Owed(n) - Owed(gotMm[c])
<1>1. gotMm'[c] = n /\ \A d \in Callers \ {c} : gotMm'[d] = gotMm[d]  BY DEF CallersOK
<1>2. \A d \in Callers \ {c} : d \in MmHolders <=> d \in MmHolders'  BY <1>1 DEF MmHolders
<1>3. (c \in MmHolders' <=> n # 0) /\ (c \in MmHolders <=> gotMm[c] # 0)  BY <1>1 DEF MmHolders
<1>4. MmHolders \in SUBSET Callers /\ MmHolders' \in SUBSET Callers  BY DEF MmHolders
<1>5. NumMm' = NumMm + Unit(c, MmHolders') - Unit(c, MmHolders)
  BY <1>2, <1>4, OneDiffers, SetsAssumption DEF NumMm
<1> QED BY <1>3, <1>5 DEF Unit, Owed

\* An entry that gets or loses its event.
LEMMA HeldMoved ==
  ASSUME NEW e \in Entries, \A o \in Entries \ {e} : entry'[o] = entry[o]
  PROVE  NumHeld' = NumHeld + Unit(e, Held') - Unit(e, Held)
<1>1. Held \in SUBSET Entries /\ Held' \in SUBSET Entries  BY DEF Held
<1>2. \A o \in Entries \ {e} : o \in Held <=> o \in Held'  BY DEF Held
<1> QED BY <1>1, <1>2, OneDiffers, FiniteEntries DEF NumHeld
\* Where a caller holds a unit of the quota.
LEMMA Table ==
  /\ \A s \in CallerStates \ InQuota :
       Unit(s, InQuota) = 0 /\ Unit(s, Allowed) = 0 /\ Unit(s, Filling) = 0
  /\ Unit("over_quota", InQuota) = 1 /\ Unit("over_quota", Allowed) = 0
  /\ Unit("over_quota", Filling) = 0
  /\ Unit("register", InQuota) = 1 /\ Unit("register", Allowed) = 1
  /\ Unit("register", Filling) = 0
  /\ \A s \in Filling : Unit(s, InQuota) = 1 /\ Unit(s, Allowed) = 1 /\ Unit(s, Filling) = 1
  /\ CallerStates \ InQuota = Idle \cup {"access", "exec_lock", "recheck", "quota", "put"}
BY DEF Unit, CallerStates, InQuota, Allowed, Filling, Idle

-----------------------------------------------------------------------------
(* The steps *)

\* A caller between two points where it counts nothing.
LEMMA Quiet ==
  ASSUME Shape, AllReleased, Ledger, NEW c \in Callers, NEW next \in Idle,
         pc' = [pc EXCEPT ![c] = next], pc[c] \in Idle,
         UNCHANGED <<gotMm, gotCred, entry, total, refs>>
  PROVE  AllReleased' /\ Ledger'
<1> USE DEF Shape, refs
<1>1. NumInQuota' = NumInQuota /\ NumAllowed' = NumAllowed /\ NumFilling' = NumFilling
  <2>1. /\ NumInQuota' = NumInQuota + Unit(next, InQuota) - Unit(pc[c], InQuota)
        /\ NumAllowed' = NumAllowed + Unit(next, Allowed) - Unit(pc[c], Allowed)
        /\ NumFilling' = NumFilling + Unit(next, Filling) - Unit(pc[c], Filling)
    BY Moved
  <2> QED BY <2>1, Table, Numbers
<1>2. NumHeld' = NumHeld /\ NumCred' = NumCred /\ NumMm' = NumMm
  BY DEF NumHeld, Held, NumCred, CredHolders, NumMm, MmHolders
<1>3. \A d \in Callers : pc'[d] # pc[d] => d = c /\ pc'[c] = next  BY DEF CallersOK
<1>4. pc[c] \notin Adding \cup {"put"}  BY DEF Idle, Adding, Locked, Checked, Filling
<1>5. AllReleased'
  BY <1>3, <1>4 DEF AllReleased, Released, Adding
<1> QED BY <1>1, <1>2, <1>5 DEF Ledger

\* Callers within the limit are among those that hold a unit.
LEMMA AllowedCounted == NumAllowed <= NumInQuota
<1>1. IsFiniteSet(CallersAt(InQuota))
  BY SetsAssumption, FS_Subset DEF CallersAt
<1>2. CallersAt(Allowed) \in SUBSET CallersAt(InQuota)  BY DEF CallersAt, InQuota, Allowed
<1> QED BY <1>1, <1>2, FS_Subset DEF NumAllowed, NumInQuota

\* Freeing an entry gives back one of everything.
LEMMA Freed ==
  ASSUME Shape, Ledger, NEW e \in Entries, FreeEntry(e),
         UNCHANGED <<gotMm, gotCred>>,
         UNCHANGED <<NumInQuota, NumAllowed, NumFilling>>
  PROVE  Ledger'
<1>1. entry'[e].event = FALSE /\ \A o \in Entries \ {e} : entry'[o] = entry[o]
  BY DEF FreeEntry, Shape, SessionsOK, NoEntry
<1>2. entry[e].event  BY DEF FreeEntry
<1>3. NumHeld' = NumHeld - 1  BY <1>1, <1>2, HeldMoved, Numbers DEF Unit, Held
<1>4. NumCred' = NumCred /\ NumMm' = NumMm  BY DEF NumCred, CredHolders, NumMm, MmHolders
<1> QED BY <1>3, <1>4, Numbers, LimitsAssumption DEF Ledger, FreeEntry

\* Nothing else but a caller's step counts.
LEMMA OthersLedger ==
  ASSUME SInv, AllReleased, Ledger,
         \/ \E t \in Tasks : Target(t) \/ Trap(t) \/ Hit(t)
         \/ \E f \in Fds : Open(f) \/ Close(f) \/ Release(f)
  PROVE  AllReleased' /\ Ledger'
<1> USE DEF callers, refs, sessions
<1>1. ASSUME UNCHANGED <<entry, total, refs, callers>> PROVE AllReleased' /\ Ledger'
  BY <1>1 DEF AllReleased, Released, Ledger, NumHeld, Held, NumInQuota, NumAllowed, NumFilling,
     CallersAt, NumCred, CredHolders, NumMm, MmHolders
<1>2. ASSUME NEW t \in Tasks, Target(t) \/ Trap(t) \/ Hit(t) PROVE AllReleased' /\ Ledger'
  BY <1>1, <1>2, TargetFrame
<1>3. ASSUME NEW f \in Fds, Open(f) \/ Close(f) \/ Release(f) PROVE AllReleased' /\ Ledger'
  <2>1. CASE Open(f) \/ Close(f)  BY <1>1, <2>1 DEF Open, Close
  <2>2. CASE ReleaseUnregister(f)  BY <1>1, <2>2 DEF ReleaseUnregister
  <2>3. CASE ReleaseFree(f)
    <3>1. UNCHANGED callers  BY <2>3 DEF ReleaseFree
    <3>2. AllReleased'  BY <3>1 DEF AllReleased, Released
    <3>3. UNCHANGED <<NumInQuota, NumAllowed, NumFilling>>
      BY <3>1 DEF NumInQuota, NumAllowed, NumFilling, CallersAt
    <3>4. Ledger'  BY <2>3, <3>1, <3>3, Freed DEF ReleaseFree, SInv
    <3> QED BY <3>2, <3>4
  <2>4. CASE ReleaseDone(f)  BY <1>1, <2>4 DEF ReleaseDone
  <2> QED BY <1>3, <2>1, <2>2, <2>3, <2>4 DEF Release
<1> QED BY <1>2, <1>3

\* An ioctl other than ADD.
LEMMA IoctlLedger ==
  ASSUME SInv, AllReleased, Ledger, NEW c \in Callers,
         Call(c) \/ Refused(c) \/ Lock(c) \/ Drain(c) \/ Remove(c) \/ Unlock(c)
  PROVE  AllReleased' /\ Ledger'
<1> USE DEF SInv, sessions, Goto
<1>1. CASE RemoveFree(c)
  <2>1. slot[c] \in Entries
    <3>1. fd[c] \in Fds  BY <1>1 DEF AllOwning, Owning, RemoveFree
    <3> QED BY <1>1, <3>1, EntryFd DEF AllPlaced, Placed, RemoveFree
  <2>2. pc' = [pc EXCEPT ![c] = "unlock"] /\ pc[c] = "free"  BY <1>1 DEF RemoveFree
  <2>3. NumInQuota' = NumInQuota /\ NumAllowed' = NumAllowed /\ NumFilling' = NumFilling
    <3>1. /\ NumInQuota' = NumInQuota + Unit("unlock", InQuota) - Unit(pc[c], InQuota)
          /\ NumAllowed' = NumAllowed + Unit("unlock", Allowed) - Unit(pc[c], Allowed)
          /\ NumFilling' = NumFilling + Unit("unlock", Filling) - Unit(pc[c], Filling)
      BY <2>2, Moved DEF Shape
    <3>2. {"free", "unlock"} \subseteq CallerStates \ InQuota  BY Table DEF Idle
    <3> QED BY <2>2, <3>1, <3>2, Table, Numbers
  <2>4. UNCHANGED <<gotMm, gotCred>>  BY <1>1 DEF RemoveFree
  <2>5. Ledger'  BY <1>1, <2>1, <2>3, <2>4, Freed DEF RemoveFree
  <2>6. AllReleased'
    BY <2>2, <2>4 DEF AllReleased, Released, Adding, Locked, Checked, Filling, Shape, CallersOK
  <2> QED BY <2>5, <2>6
<1>2. CASE ~RemoveFree(c)
  <2>1. pc[c] \in Idle /\ \E next \in Idle : pc' = [pc EXCEPT ![c] = next]
    BY <1>2 DEF Call, Refused, Lock, Drain, Remove, RemoveFind, RemoveUnregister, Unlock, Idle
  <2>2. UNCHANGED <<gotMm, gotCred, entry, total, refs>>
    BY <1>2 DEF Call, Refused, Lock, Drain, Remove, RemoveFind, RemoveUnregister, Unlock
  <2> QED BY <2>1, <2>2, Quiet
<1> QED BY <1>1, <1>2

\* ADD, step by step.
LEMMA AddLedger ==
  ASSUME SInv, AllReleased, Ledger, NEW c \in Callers, Add(c)
  PROVE  AllReleased' /\ Ledger'
<1> USE DEF SInv, Shape, sessions, refs, Goto
<1>a. ASSUME NEW next, pc' = [pc EXCEPT ![c] = next]
      PROVE  /\ NumInQuota' = NumInQuota + Unit(next, InQuota) - Unit(pc[c], InQuota)
             /\ NumAllowed' = NumAllowed + Unit(next, Allowed) - Unit(pc[c], Allowed)
             /\ NumFilling' = NumFilling + Unit(next, Filling) - Unit(pc[c], Filling)
  BY <1>a, Moved
<1>b. UNCHANGED entry => NumHeld' = NumHeld  BY DEF NumHeld, Held
<1>c. UNCHANGED gotCred => NumCred' = NumCred  BY DEF NumCred, CredHolders
<1>d. UNCHANGED gotMm => NumMm' = NumMm  BY DEF NumMm, MmHolders
<1>e. pc[c] \in Adding => slot[c] \in Entries /\ ~entry[slot[c]].event
  <2>1. pc[c] \in Adding => fd[c] \in Fds
    BY DEF AllOwning, Owning, Adding, Locked, Checked, Filling
  <2> QED BY <2>1, EntryFd DEF AllPlaced, Placed
<1>f. \A d \in Callers \ {c} : UNCHANGED Of(d)  BY IoctlFrame DEF Ioctl
<1>g. \A d \in Callers \ {c} : Released(d)'
  BY <1>f DEF AllReleased, Released, Of
<1>i. \A s \in {"add", "access", "exec_lock", "recheck", "quota", "put", "unlock"} :
        Unit(s, InQuota) = 0 /\ Unit(s, Allowed) = 0 /\ Unit(s, Filling) = 0
  BY Table DEF Idle
<1>j. ASSUME NEW s \in {"add", "access", "exec_lock", "recheck", "put"}, pc[c] = s,
             NEW next \in {"access", "exec_lock", "recheck", "quota", "put", "unlock"},
             pc' = [pc EXCEPT ![c] = next]
      PROVE  NumInQuota' = NumInQuota /\ NumAllowed' = NumAllowed /\ NumFilling' = NumFilling
  <2>1. /\ Unit(s, InQuota) = 0 /\ Unit(s, Allowed) = 0 /\ Unit(s, Filling) = 0
        /\ Unit(next, InQuota) = 0 /\ Unit(next, Allowed) = 0 /\ Unit(next, Filling) = 0
    BY <1>i
  <2>2. /\ NumInQuota' = NumInQuota + Unit(next, InQuota) - Unit(s, InQuota)
        /\ NumAllowed' = NumAllowed + Unit(next, Allowed) - Unit(s, Allowed)
        /\ NumFilling' = NumFilling + Unit(next, Filling) - Unit(s, Filling)
    BY <1>a, <1>j
  <2> QED BY <2>1, <2>2, Numbers
<1> USE DEF AllReleased, Released
<1>1. CASE AddFind(c)
  <2>0. pc[c] = "add" /\ gotCred[c] = 0 /\ gotMm[c] = 0
    BY <1>1 DEF AddFind, Adding, Locked, Checked, Filling
  <2>1. CASE pc' = [pc EXCEPT ![c] = "unlock"] /\ UNCHANGED <<gotCred, credRefs>>
    BY <1>1, <2>0, <2>1, Quiet DEF AddFind, Idle
  <2>2. CASE pc' = [pc EXCEPT ![c] = "access"] /\ credRefs' = credRefs + 1
             /\ \E t \in Tasks : life[t] = "alive" /\ gotCred' = [gotCred EXCEPT ![c] = cred[t]]
    <3>1. NumInQuota' = NumInQuota /\ NumAllowed' = NumAllowed /\ NumFilling' = NumFilling
      BY <2>0, <2>2, <1>j
    <3>2. NumCred' = NumCred + 1
      <4>1. PICK t \in Tasks : life[t] = "alive" /\ gotCred' = [gotCred EXCEPT ![c] = cred[t]]
        BY <2>2
      <4>2. cred[t] # 0  BY <4>1 DEF Born
      <4>3. NumCred' = NumCred + Owed(cred[t]) - Owed(0)  BY <2>0, <4>1, CredMoved
      <4> QED BY <4>2, <4>3, Numbers DEF Owed
    <3>3. UNCHANGED <<total, entry, mmGrabs, mmUsers, gotMm>>  BY <1>1 DEF AddFind
    <3>4. Released(c)'
      BY <2>0, <2>2, <3>3 DEF Adding, Locked, Checked, Filling, CallersOK
    <3>5. Ledger'  BY <3>1, <3>2, <3>3, <2>2, <1>b, <1>d, Numbers DEF Ledger
    <3> QED BY <3>4, <3>5, <1>g
  <2> QED BY <1>1, <2>1, <2>2 DEF AddFind
<1>2. CASE AddAccess(c)
  <2>0. pc[c] = "access" /\ gotMm[c] = 0
    BY <1>2 DEF AddAccess, Locked, Checked, Filling
  <2>1. UNCHANGED <<total, credRefs, mmGrabs, entry, gotCred>>  BY <1>2 DEF AddAccess
  <2>2. CASE pc' = [pc EXCEPT ![c] = "put"] /\ UNCHANGED <<gotMm, mmUsers>>
    <3>1. Released(c)'  BY <2>0, <2>2 DEF CallersOK
    <3>2. Ledger'  BY <2>0, <2>1, <2>2, <1>b, <1>c, <1>d, <1>j DEF Ledger
    <3> QED BY <3>1, <3>2, <1>g
  <2>3. CASE /\ pc' = [pc EXCEPT ![c] = "exec_lock"] /\ mmUsers' = mmUsers + 1
             /\ mm[task[c]] # 0 /\ gotMm' = [gotMm EXCEPT ![c] = mm[task[c]]]
    <3>1. Released(c)'  BY <2>0, <2>1, <2>3 DEF CallersOK, Adding
    <3>2. NumMm' = NumMm + Owed(mm[task[c]]) - Owed(0)  BY <2>0, <2>3, MmMoved
    <3>3. NumMm' = NumMm + 1  BY <2>3, <3>2, Numbers DEF Owed
    <3>4. Ledger'  BY <2>0, <2>1, <2>3, <3>3, <1>b, <1>c, <1>j DEF Ledger
    <3> QED BY <3>1, <3>4, <1>g
  <2> QED BY <1>2, <2>2, <2>3 DEF AddAccess
<1>3. CASE AddExecLock(c) \/ AddRecheck(c)
  <2>1. \E s \in {"exec_lock", "recheck"} : pc[c] = s  BY <1>3 DEF AddExecLock, AddRecheck
  <2>2. \E next \in {"recheck", "quota", "put"} : pc' = [pc EXCEPT ![c] = next]
    BY <1>3 DEF AddExecLock, AddRecheck
  <2>3. UNCHANGED <<total, credRefs, mmGrabs, mmUsers, entry, gotCred, gotMm>>
    BY <1>3 DEF AddExecLock, AddRecheck
  <2>4. Released(c)'  BY <2>2, <2>3 DEF CallersOK, Adding, Locked, Checked
  <2>5. NumInQuota' = NumInQuota /\ NumAllowed' = NumAllowed /\ NumFilling' = NumFilling
    BY <2>1, <2>2, <1>j
  <2>6. Ledger'  BY <2>3, <2>5, <1>b, <1>c, <1>d DEF Ledger
  <2> QED BY <2>4, <2>6, <1>g
<1>4. CASE AddQuota(c)
  <2>1. pc[c] = "quota" /\ total' = total + 1  BY <1>4 DEF AddQuota
  <2>2. UNCHANGED <<credRefs, mmGrabs, mmUsers, entry, gotCred, gotMm>>  BY <1>4 DEF AddQuota
  <2>3. CASE pc' = [pc EXCEPT ![c] = "over_quota"]
    <3>1. NumInQuota' = NumInQuota + 1 /\ NumAllowed' = NumAllowed /\ NumFilling' = NumFilling
      <4>1. /\ NumInQuota' = NumInQuota + Unit("over_quota", InQuota) - Unit("quota", InQuota)
            /\ NumAllowed' = NumAllowed + Unit("over_quota", Allowed) - Unit("quota", Allowed)
            /\ NumFilling' = NumFilling + Unit("over_quota", Filling) - Unit("quota", Filling)
        BY <2>1, <2>3, <1>a
      <4> QED BY <4>1, <1>i, Table, Numbers
    <3>2. Released(c)'  BY <2>2, <2>3 DEF CallersOK, Adding, Locked, Checked
    <3>3. Ledger'  BY <2>1, <2>2, <3>1, <1>b, <1>c, <1>d, Numbers DEF Ledger
    <3> QED BY <3>2, <3>3, <1>g
  <2>4. CASE pc' = [pc EXCEPT ![c] = "register"] /\ total + 1 <= MaxGlobal
    <3>1. NumInQuota' = NumInQuota + 1 /\ NumAllowed' = NumAllowed + 1 /\ NumFilling' = NumFilling
      <4>1. /\ NumInQuota' = NumInQuota + Unit("register", InQuota) - Unit("quota", InQuota)
            /\ NumAllowed' = NumAllowed + Unit("register", Allowed) - Unit("quota", Allowed)
            /\ NumFilling' = NumFilling + Unit("register", Filling) - Unit("quota", Filling)
        BY <2>1, <2>4, <1>a
      <4> QED BY <4>1, <1>i, Table, Numbers
    <3>2. Released(c)'  BY <2>2, <2>4 DEF CallersOK, Adding, Locked, Checked
    <3>3. NumHeld + NumAllowed + 1 <= MaxGlobal
      BY <2>4, AllowedCounted, Numbers, LimitsAssumption DEF Ledger
    <3>4. Ledger'
      BY <2>1, <2>2, <3>1, <3>3, <1>b, <1>c, <1>d, Numbers, LimitsAssumption DEF Ledger
    <3> QED BY <3>2, <3>4, <1>g
  <2>5. total \in Nat  BY Numbers DEF Ledger
  <2>6. pc' = [pc EXCEPT ![c] = IF total + 1 > MaxGlobal THEN "over_quota" ELSE "register"]
    BY <1>4, <2>1 DEF AddQuota
  <2>7. total + 1 > MaxGlobal \/ total + 1 <= MaxGlobal  BY <2>5, LimitsAssumption
  <2> QED BY <2>3, <2>4, <2>6, <2>7
<1>5. CASE AddOverQuota(c)
  <2>1. /\ pc[c] = "over_quota" /\ pc' = [pc EXCEPT ![c] = "put"]
        /\ total' = total - 1
        /\ UNCHANGED <<credRefs, mmGrabs, mmUsers, entry, gotCred, gotMm>>
    BY <1>5 DEF AddOverQuota
  <2>2. NumInQuota' = NumInQuota - 1 /\ NumAllowed' = NumAllowed /\ NumFilling' = NumFilling
    <3>1. /\ NumInQuota' = NumInQuota + Unit("put", InQuota) - Unit("over_quota", InQuota)
          /\ NumAllowed' = NumAllowed + Unit("put", Allowed) - Unit("over_quota", Allowed)
          /\ NumFilling' = NumFilling + Unit("put", Filling) - Unit("over_quota", Filling)
      BY <2>1, <1>a
    <3> QED BY <3>1, <1>i, Table, Numbers
  <2>3. Released(c)'  BY <2>1 DEF CallersOK
  <2>4. Ledger'  BY <2>1, <2>2, <1>b, <1>c, <1>d, Numbers DEF Ledger
  <2> QED BY <2>3, <2>4, <1>g
<1>6. CASE AddRegister(c)
  <2>0. pc[c] = "register"  BY <1>6 DEF AddRegister
  <2>1. /\ mmGrabs' = mmGrabs + 1 /\ entry' = [entry EXCEPT ![slot[c]] = Filled(c)]
        /\ UNCHANGED <<total, credRefs, mmUsers, gotCred, gotMm>>
    BY <1>6 DEF AddRegister
  <2>2. PICK next \in Filling : pc' = [pc EXCEPT ![c] = next]  BY <1>6 DEF AddRegister, Filling
  <2>3. NumInQuota' = NumInQuota /\ NumAllowed' = NumAllowed /\ NumFilling' = NumFilling + 1
    <3>1. /\ NumInQuota' = NumInQuota + Unit(next, InQuota) - Unit("register", InQuota)
          /\ NumAllowed' = NumAllowed + Unit(next, Allowed) - Unit("register", Allowed)
          /\ NumFilling' = NumFilling + Unit(next, Filling) - Unit("register", Filling)
      BY <2>0, <2>2, <1>a
    <3> QED BY <3>1, Table, Numbers
  <2>4. Released(c)'  BY <2>1, <2>2 DEF CallersOK, Adding, Locked, Checked
  <2>5. NumHeld' = NumHeld
    <3>1. slot[c] \in Entries /\ ~entry[slot[c]].event
      BY <2>0, <1>e DEF Adding, Locked, Checked
    <3>2. Held' = Held  BY <2>1, <3>1 DEF Held, Filled, SessionsOK
    <3> QED BY <3>2 DEF NumHeld
  <2>6. Ledger'  BY <2>1, <2>3, <2>5, <1>c, <1>d, Numbers DEF Ledger
  <2> QED BY <2>4, <2>6, <1>g
<1>7. CASE AddRollBack(c)
  <2>1. /\ pc[c] = "roll_back" /\ pc' = [pc EXCEPT ![c] = "put"]
        /\ mmGrabs' = mmGrabs - 1 /\ total' = total - 1
        /\ entry' = [entry EXCEPT ![slot[c]] = NoEntry]
        /\ UNCHANGED <<credRefs, mmUsers, gotCred, gotMm>>
    BY <1>7 DEF AddRollBack
  <2>2. /\ NumInQuota' = NumInQuota - 1 /\ NumAllowed' = NumAllowed - 1
        /\ NumFilling' = NumFilling - 1
    <3>1. /\ NumInQuota' = NumInQuota + Unit("put", InQuota) - Unit("roll_back", InQuota)
          /\ NumAllowed' = NumAllowed + Unit("put", Allowed) - Unit("roll_back", Allowed)
          /\ NumFilling' = NumFilling + Unit("put", Filling) - Unit("roll_back", Filling)
      BY <2>1, <1>a
    <3>2. "roll_back" \in Filling  BY DEF Filling
    <3> QED BY <3>1, <3>2, <1>i, Table, Numbers
  <2>3. Released(c)'  BY <2>1 DEF CallersOK
  <2>4. NumHeld' = NumHeld
    <3>1. slot[c] \in Entries /\ ~entry[slot[c]].event
      BY <2>1, <1>e DEF Adding, Locked, Checked, Filling
    <3>2. Held' = Held  BY <2>1, <3>1 DEF Held, NoEntry, SessionsOK
    <3> QED BY <3>2 DEF NumHeld
  <2>5. Ledger'  BY <2>1, <2>2, <2>4, <1>c, <1>d, Numbers, LimitsAssumption DEF Ledger
  <2> QED BY <2>3, <2>5, <1>g
<1>8. CASE AddStore(c)
  <2>1. /\ pc[c] = "store" /\ pc' = [pc EXCEPT ![c] = "put"]
        /\ entry' = [entry EXCEPT ![slot[c]].event = TRUE]
        /\ gotCred' = [gotCred EXCEPT ![c] = 0]
        /\ UNCHANGED <<total, credRefs, mmGrabs, mmUsers, gotMm>>
    BY <1>8 DEF AddStore, refs
  <2>2. /\ NumInQuota' = NumInQuota - 1 /\ NumAllowed' = NumAllowed - 1
        /\ NumFilling' = NumFilling - 1
    <3>1. /\ NumInQuota' = NumInQuota + Unit("put", InQuota) - Unit("store", InQuota)
          /\ NumAllowed' = NumAllowed + Unit("put", Allowed) - Unit("store", Allowed)
          /\ NumFilling' = NumFilling + Unit("put", Filling) - Unit("store", Filling)
      BY <2>1, <1>a
    <3>2. "store" \in Filling  BY DEF Filling
    <3> QED BY <3>1, <3>2, <1>i, Table, Numbers
  <2>3. Released(c)'  BY <2>1 DEF CallersOK
  <2>4. slot[c] \in Entries /\ ~entry[slot[c]].event
    BY <2>1, <1>e DEF Adding, Locked, Checked, Filling
  <2>5. NumHeld' = NumHeld + 1
    <3>1. \A o \in Entries \ {slot[c]} : entry'[o] = entry[o]  BY <2>1, <2>4 DEF SessionsOK
    <3>2. entry'[slot[c]].event  BY <2>1, <2>4 DEF SessionsOK, EntryRecords
    <3>3. NumHeld' = NumHeld + Unit(slot[c], Held') - Unit(slot[c], Held)
      BY <2>4, <3>1, HeldMoved
    <3> QED BY <2>4, <3>2, <3>3, Numbers DEF Unit, Held
  <2>6. NumCred' = NumCred - 1
    <3>1. gotCred[c] # 0  BY <2>1 DEF AllTargeting, Targeting, Adding, Locked, Checked, Filling
    <3>2. NumCred' = NumCred + Owed(0) - Owed(gotCred[c])  BY <2>1, CredMoved
    <3> QED BY <3>1, <3>2, Numbers DEF Owed
  <2>7. Ledger'  BY <2>1, <2>2, <2>5, <2>6, <1>d, Numbers, LimitsAssumption DEF Ledger
  <2> QED BY <2>3, <2>7, <1>g
<1>9. CASE AddPut(c)
  <2>1. /\ pc[c] = "put" /\ pc' = [pc EXCEPT ![c] = "unlock"]
        /\ mmUsers' = (IF gotMm[c] # 0 THEN mmUsers - 1 ELSE mmUsers)
        /\ credRefs' = (IF gotCred[c] # 0 THEN credRefs - 1 ELSE credRefs)
        /\ gotMm' = [gotMm EXCEPT ![c] = 0] /\ gotCred' = [gotCred EXCEPT ![c] = 0]
        /\ UNCHANGED <<total, mmGrabs, entry>>
    BY <1>9 DEF AddPut
  <2>2. Released(c)'  BY <2>1 DEF CallersOK
  <2>3. NumCred' = NumCred + Owed(0) - Owed(gotCred[c])  BY <2>1, CredMoved
  <2>4. NumMm' = NumMm + Owed(0) - Owed(gotMm[c])  BY <2>1, MmMoved
  <2>5. NumInQuota' = NumInQuota /\ NumAllowed' = NumAllowed /\ NumFilling' = NumFilling
    BY <2>1, <1>j
  <2>6. Ledger'  BY <2>1, <2>3, <2>4, <2>5, <1>b, Numbers DEF Ledger, Owed
  <2> QED BY <2>2, <2>6, <1>g
<1> QED BY <1>1, <1>2, <1>3, <1>4, <1>5, <1>6, <1>7, <1>8, <1>9 DEF Add

-----------------------------------------------------------------------------
(* The invariant and what follows *)

\* A driver just loaded owes nothing.
LEMMA InitLedger == Init => CInv
<1> SUFFICES ASSUME Init PROVE CInv  OBVIOUS
<1>1. SInv  BY InitInv
<1>2. AllReleased  BY DEF Init, AllReleased, Released
<1>3. Held = {} /\ CredHolders = {} /\ MmHolders = {}
  BY DEF Init, Held, NoEntry, CredHolders, MmHolders
<1>4. CallersAt(InQuota) = {} /\ CallersAt(Allowed) = {} /\ CallersAt(Filling) = {}
  BY DEF Init, CallersAt, InQuota, Allowed, Filling
<1>5. /\ NumHeld = 0 /\ NumCred = 0 /\ NumMm = 0
      /\ NumInQuota = 0 /\ NumAllowed = 0 /\ NumFilling = 0
  BY <1>3, <1>4, FS_EmptySet DEF NumHeld, NumCred, NumMm, NumInQuota, NumAllowed, NumFilling
<1>6. Ledger  BY <1>5, LimitsAssumption DEF Ledger, Init
<1> QED BY <1>1, <1>2, <1>6 DEF CInv

\* Every step keeps the books.
LEMMA StepLedger == CInv /\ [Next]_vars => CInv'
<1> SUFFICES ASSUME CInv, [Next]_vars PROVE CInv'  OBVIOUS
<1>1. SInv'  BY StepInv DEF CInv
<1>2. CASE Next
  <2>1. AllReleased' /\ Ledger'
    BY <1>2, OthersLedger, IoctlLedger, AddLedger DEF Next, CInv, Ioctl
  <2> QED BY <1>1, <2>1 DEF CInv
<1>3. CASE UNCHANGED vars
  <2>1. AllReleased' /\ Ledger'
    BY <1>3 DEF CInv, vars, sessions, refs, callers, AllReleased, Released, Ledger, NumHeld, Held,
       NumInQuota, NumAllowed, NumFilling, CallersAt, NumCred, CredHolders, NumMm, MmHolders
  <2> QED BY <1>1, <2>1 DEF CInv
<1> QED BY <1>2, <1>3

\* The books are right in every reachable state.
THEOREM BooksKept == Spec => []CInv
BY InitLedger, StepLedger, PTL DEF Spec

\* rt_bp_total and every reference count what is held, neither leaked nor put twice.
THEOREM Balanced == Spec => []ReferencesBalanced
<1>1. CInv => ReferencesBalanced
  <2> SUFFICES ASSUME CInv PROVE ReferencesBalanced  OBVIOUS
  <2>1. InQuota = {"over_quota", "register", "roll_back", "store"}  BY DEF InQuota, Filling
  <2> QED BY <2>1 DEF CInv, Ledger, ReferencesBalanced, NumHeld, NumInQuota, NumCred, CredHolders,
       NumFilling, NumMm, MmHolders, Filling
<1> QED BY <1>1, BooksKept, PTL

\* Types hold, and no counter falls below zero.
THEOREM TypeCorrect == Spec => []TypeOK
<1>1. CInv => TypeOK
  BY Numbers DEF CInv, SInv, Shape, Ledger, TypeOK, CountersOK
<1> QED BY <1>1, BooksKept, PTL

\* Every event is behind an entry that holds it, or in the hands of its registrar.
LEMMA LiveOwned ==
  ASSUME SInv, NEW e \in Entries, Live(e), e \notin Held
  PROVE  \E c \in CallersAt(Filling) : slot[c] = e
BY DEF SInv, Vacant, Held, CallersAt

\* However many callers overshoot rt_bp_total at once, the events stay within the limit.
THEOREM WithinQuota == Spec => []EventsWithinQuota
<1>1. CInv => EventsWithinQuota
  <2> SUFFICES ASSUME CInv PROVE Cardinality({e \in Entries : Live(e)}) <= MaxGlobal
    BY DEF EventsWithinQuota
  <2> USE DEF CInv
  <2> DEFINE Registrars == CallersAt(Filling)
             Slot == [c \in Registrars |-> slot[c]]
             Taken == Range(Slot)
             Events == {e \in Entries : Live(e)}
  <2>1. Registrars \in SUBSET Callers  BY DEF CallersAt
  <2>2. IsFiniteSet(Registrars)  BY <2>1, SetsAssumption, FS_Subset
  <2>3. Slot \in Surjection(Registrars, Taken)  BY DEF Surjection, Range
  <2>4. IsFiniteSet(Taken) /\ Cardinality(Taken) <= NumFilling
    BY <2>2, <2>3, FS_Surjection DEF NumFilling
  <2>5. Events \subseteq Held \cup Taken
    BY LiveOwned DEF Range
  <2>6. IsFiniteSet(Held)  BY FiniteEntries, FS_Subset DEF Held
  <2>7. Cardinality(Events) <= Cardinality(Held) + Cardinality(Taken)
    <3>1. IsFiniteSet(Held \cup Taken) /\ Cardinality(Held \cup Taken)
            = Cardinality(Held) + Cardinality(Taken) - Cardinality(Held \cap Taken)
      BY <2>4, <2>6, FS_Union
    <3>2. Cardinality(Events) <= Cardinality(Held \cup Taken) /\ IsFiniteSet(Events)
      BY <2>5, <3>1, FS_Subset
    <3>3. Cardinality(Held \cap Taken) \in Nat
      BY <2>6, FS_Intersection, FS_CardinalityType
    <3>4. Cardinality(Held) \in Nat /\ Cardinality(Taken) \in Nat /\ Cardinality(Events) \in Nat
      BY <2>4, <2>6, <3>2, FS_CardinalityType
    <3> QED BY <3>1, <3>2, <3>3, <3>4
  <2>8. NumFilling <= NumAllowed
    <3>1. Registrars \in SUBSET CallersAt(Allowed) /\ IsFiniteSet(CallersAt(Allowed))
      BY SetsAssumption, FS_Subset DEF CallersAt, Allowed
    <3> QED BY <3>1, FS_Subset DEF NumFilling, NumAllowed
  <2>9. Cardinality(Events) \in Nat /\ Cardinality(Taken) \in Nat
    BY <2>4, FiniteEntries, FS_Subset, FS_CardinalityType
  <2> QED BY <2>4, <2>7, <2>8, <2>9, Numbers, LimitsAssumption DEF Ledger, NumHeld
<1> QED BY <1>1, BooksKept, PTL

=============================================================================
