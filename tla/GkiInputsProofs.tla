---------------------------- MODULE GkiInputsProofs ----------------------------
(***************************************************************************)
(* Proofs about GkiInputs, for any files, projects and number of workers:  *)
(* the evidence file says what is beside it, and the workspace is given    *)
(* published content only, whatever fails and whenever the process dies.   *)
(*                                                                         *)
(* The disk survives a kill and the threads do not, so the invariant says  *)
(* of the disk what holds at any time (HEAD is at the pinned revision only *)
(* over the official files), of every job what it has established so far,  *)
(* and of the main thread what the pools it has joined and the steps it    *)
(* has made have left on the disk.                                         *)
(***************************************************************************)
EXTENDS GkiInputs, TLAPS

\* The files stay as the downloads left them, the clones as the second pool did.
Downloaded == MainPc \ {"download"}
Cloned     == Downloaded \ {"compare", "clone"}
HookPc     == {"hook", "hooking", "rehooking"}

\* No job is in a pool the main thread has not opened or has joined.
TasksOK == /\ \A f \in File : /\ pc = "compare" => task[f] = "ok"
                              /\ pc \notin {"download", "compare"} => task[f] = "none"
           /\ \A p \in Project : /\ pc \in Cloned => task[p] = "ok"
                                 /\ pc \notin Cloned \cup {"clone"} => task[p] = "none"

\* What a download has established at each of its steps.
FileOK(f) == /\ task[f] \in {"fetch", "store"} => cache[f] # "good"
             /\ task[f] \in {"place", "placing"} => cache[f] = "good"
             /\ task[f] = "ok" \/ pc \in Downloaded => local[f] = "good"

\* HEAD moves after the files, so it never names a tree that is not there; and
\* what a clone has established.
CloneOK(p) == /\ AtRevision(p) => repo[p].tree = "official"
              /\ task[p] \in {"checkout", "writing"} => ~AtRevision(p)
              /\ task[p] \in {"link", "ok"} => AtRevision(p)
              /\ task[p] = "ok" => repo[p].link # "wrong"

\* What the steps of the main thread have left.
MainOK == /\ script \in {"ddk", "kernel"} /\ agrees \in BOOLEAN
          /\ pc \in Cloned \cup {"clone"} => agrees
          /\ pc \in HookPc => script = "kernel"
          /\ pc \in HookPc \cup {"evidence"} => package = "whole"
          /\ pc = "toolchain" /\ script = "ddk" => package = "whole"
          /\ pc \notin HookPc \cup {"evidence"} => hook = 1
          /\ pc \in HookPc /\ hook = 2 => HasHook(1)
          /\ pc = "evidence" /\ script = "kernel" => HasHook(1) /\ HasHook(2)
          /\ pc \in {"hooking", "rehooking"} => misc[hook] = "torn"
          /\ pc = "rehooking" => hook \in cut
          /\ \A h \in Hook : misc[h] \in {"torn", "lost"} =>
                 h \in cut \/ (h = hook /\ pc = "hooking")

IInv == /\ TypeOK /\ TasksOK /\ MainOK
        /\ \A f \in File : FileOK(f)
        /\ \A p \in Project : CloneOK(p)

(***************************************************************************)
(* The initial states and the pools                                        *)
(***************************************************************************)
LEMMA InitInvariant == Init => IInv
  <1> SUFFICES ASSUME Init PROVE IInv
    OBVIOUS
  <1>1. ASSUME NEW p \in Project
        PROVE  /\ repo[p] \in Clone /\ ~AtRevision(p)
    BY DEF Init, NewRepo, OlderRepo, Clone, AtRevision
  <1>2. repo \in [Project -> Clone]
    BY <1>1 DEF Init
  <1>3. TypeOK
    <2>1. cache \in [File -> Content] /\ local \in [File -> Content]
      BY DEF Init, Content
    <2>2. misc \in [Hook -> HookState] /\ hook \in Hook /\ task \in [Job -> TaskPc]
      BY DEF Init, Hook, HookState, TaskPc
    <2> QED
      BY <1>2, <2>1, <2>2 DEF Init, TypeOK
  <1>4. TasksOK /\ MainOK
    BY DEF Init, TasksOK, MainOK, Job, Downloaded, Cloned, HookPc, MainPc
  <1>5. \A f \in File : FileOK(f)
    BY DEF Init, FileOK, Job, Downloaded, MainPc
  <1>6. \A p \in Project : CloneOK(p)
    BY <1>1 DEF Init, CloneOK, Job
  <1> QED
    BY <1>3, <1>4, <1>5, <1>6 DEF IInv

\* A step of a download touches its own file only, while the first pool runs.
LEMMA DownloadSteps ==
    ASSUME IInv, NEW f \in File, DownloadOne(f)
    PROVE  IInv'
  <1> DEFINE Own == /\ cache' \in [File -> Content] /\ local' \in [File -> Content]
                    /\ \A g \in File \ {f} : cache'[g] = cache[g] /\ local'[g] = local[g]
                    /\ \E where \in TaskPc : task' = [task EXCEPT ![f] = where]
                    /\ UNCHANGED <<script, agrees, repo, package, misc, evidence, cut, pc,
                                   hook>>
  <1>t. TypeOK /\ TasksOK /\ MainOK /\ FileOK(f) /\ f \in Job /\ f \notin Project
    BY JobsAssumption DEF IInv, Job
  <1>1. pc = "download"
    <2>1. task[f] \notin {"none", "ok"}
      BY DEF DownloadOne, Take, ReadCache, Fetch, StoreOpens, StoreCloses, PlaceOpens,
             PlaceCloses, At
    <2> QED
      BY <1>t, <2>1 DEF TasksOK
  <1>2. Own /\ FileOK(f)'
    <2> SUFFICES Own /\ FileOK(f)'
      OBVIOUS
    <2> USE <1>t, <1>1 DEF TypeOK, FileOK, Downloaded, MainPc, MainKeeps, Go, At, TaskPc,
                           FilePc, Ended, Content
    <2>1. CASE Take(f, "read")
      BY <2>1 DEF Take, disk
    <2>2. CASE ReadCache(f)
      BY <2>2 DEF ReadCache, Verifies
    <2>3. CASE Fetch(f)
      BY <2>3 DEF Fetch
    <2>4. CASE StoreOpens(f)
      BY <2>4 DEF StoreOpens
    <2>5. CASE StoreCloses(f)
      BY <2>5 DEF StoreCloses
    <2>6. CASE PlaceOpens(f)
      BY <2>6 DEF PlaceOpens
    <2>7. CASE PlaceCloses(f)
      BY <2>7 DEF PlaceCloses
    <2> QED
      BY <2>1, <2>2, <2>3, <2>4, <2>5, <2>6, <2>7 DEF DownloadOne
  <1> HIDE DEF Own
  <1>3. /\ task' \in [Job -> TaskPc]
        /\ \A j \in Job \ {f} : task'[j] = task[j]
    BY <1>t, <1>2 DEF Own, TypeOK
  <1>4. TypeOK'
    BY <1>t, <1>2, <1>3 DEF Own, TypeOK
  <1>5. TasksOK' /\ MainOK'
    BY <1>t, <1>1, <1>2, <1>3 DEF Own, TasksOK, MainOK, Job, Downloaded, Cloned,
       HookPc, MainPc, HasHook
  <1>6. \A g \in File : FileOK(g)'
    BY <1>2, <1>3 DEF Own, IInv, FileOK, Job
  <1>7. \A p \in Project : CloneOK(p)'
    BY <1>t, <1>2, <1>3 DEF Own, IInv, CloneOK, AtRevision, Job
  <1> QED
    BY <1>4, <1>5, <1>6, <1>7 DEF IInv

\* A step of a clone touches its own project only, while the second pool runs.
LEMMA CloneSteps ==
    ASSUME IInv, NEW p \in Project, CloneProject(p)
    PROVE  IInv'
  <1> DEFINE Own == /\ repo' \in [Project -> Clone]
                    /\ \A q \in Project \ {p} : repo'[q] = repo[q]
                    /\ \E where \in TaskPc : task' = [task EXCEPT ![p] = where]
                    /\ UNCHANGED <<script, agrees, cache, local, package, misc, evidence, cut,
                                   pc, hook>>
  <1>t. TypeOK /\ TasksOK /\ MainOK /\ CloneOK(p) /\ p \in Job /\ p \notin File
    BY JobsAssumption DEF IInv, Job
  <1>1. pc = "clone"
    <2>1. task[p] \notin {"none", "ok"}
      BY DEF CloneProject, Take, GitInit, GitRemote, ReadHead, GitFetch, GitSparse,
             GitCheckout, GitMovesHead, VerifyHead, Link, At
    <2> QED
      BY <1>t, <2>1 DEF TasksOK
  <1>2. Own /\ CloneOK(p)'
    <2> SUFFICES Own /\ CloneOK(p)'
      OBVIOUS
    <2>r. repo[p] \in Clone
      BY <1>t DEF TypeOK
    <2> USE <1>t, <2>r DEF TypeOK, CloneOK, AtRevision, MainKeeps, Go, At, TaskPc,
                           ProjectPc, Ended, Clone
    <2>1. CASE Take(p, "init")
      BY <2>1 DEF Take, disk
    <2>2. CASE GitInit(p)
      BY <2>2 DEF GitInit
    <2>3. CASE GitRemote(p)
      BY <2>3 DEF GitRemote
    <2>4. CASE ReadHead(p)
      BY <2>4 DEF ReadHead
    <2>5. CASE GitFetch(p)
      BY <2>5 DEF GitFetch
    <2>6. CASE GitSparse(p)
      BY <2>6 DEF GitSparse
    <2>7. CASE GitCheckout(p)
      BY <2>7 DEF GitCheckout
    <2>8. CASE GitMovesHead(p)
      BY <2>8 DEF GitMovesHead
    <2>9. CASE VerifyHead(p)
      BY <2>9 DEF VerifyHead
    <2>10. CASE Link(p)
      BY <2>10 DEF Link
    <2> QED
      BY <2>1, <2>2, <2>3, <2>4, <2>5, <2>6, <2>7, <2>8, <2>9, <2>10 DEF CloneProject
  <1> HIDE DEF Own
  <1>3. /\ task' \in [Job -> TaskPc]
        /\ \A j \in Job \ {p} : task'[j] = task[j]
    BY <1>t, <1>2 DEF Own, TypeOK
  <1>4. TypeOK'
    BY <1>t, <1>2, <1>3 DEF Own, TypeOK
  <1>5. TasksOK' /\ MainOK'
    BY <1>t, <1>1, <1>2, <1>3 DEF Own, TasksOK, MainOK, Job, Downloaded, Cloned,
       HookPc, MainPc, HasHook
  <1>6. \A f \in File : FileOK(f)'
    BY <1>t, <1>2, <1>3 DEF Own, IInv, FileOK, Job
  <1>7. \A q \in Project : CloneOK(q)'
    BY <1>2, <1>3 DEF Own, IInv, CloneOK, AtRevision, Job
  <1> QED
    BY <1>4, <1>5, <1>6, <1>7 DEF IInv
\* A job that fails leaves the disk as it is and has established nothing.
LEMMA JobFailures ==
    ASSUME IInv, NEW j \in Job, JobFails(j)
    PROVE  IInv'
  <1>t. TypeOK /\ TasksOK /\ MainOK
    BY DEF IInv
  <1>1. /\ task' = [task EXCEPT ![j] = "failed"] /\ task[j] \notin {"none", "ok"}
        /\ UNCHANGED <<script, agrees, cache, local, repo, package, misc, evidence, cut, pc,
                                   hook>>
    BY DEF JobFails, Busy, Go, disk, FilePc, ProjectPc
  <1>2. /\ task' \in [Job -> TaskPc] /\ task'[j] = "failed"
        /\ \A k \in Job : k # j => task'[k] = task[k]
    BY <1>t, <1>1 DEF TypeOK, TaskPc, Ended
  <1>3. TypeOK'
    BY <1>t, <1>1, <1>2 DEF TypeOK
  <1>4. TasksOK'
    BY <1>t, <1>1, <1>2 DEF TasksOK, Job
  <1>5. MainOK'
    BY <1>t, <1>1 DEF MainOK, HasHook
  <1>6. \A f \in File : FileOK(f)'
    BY <1>1, <1>2 DEF IInv, FileOK, Job
  <1>7. \A p \in Project : CloneOK(p)'
    BY <1>1, <1>2 DEF IInv, CloneOK, AtRevision, Job
  <1> QED
    BY <1>3, <1>4, <1>5, <1>6, <1>7 DEF IInv

(***************************************************************************)
(* The main thread                                                         *)
(***************************************************************************)
\* Ending a run, at any step and with whatever it leaves on the disk.
LEMMA DiesKeeps ==
    ASSUME IInv, Dies, UNCHANGED <<script, agrees, cache, local, repo, package, misc>>,
           evidence' \in BOOLEAN
    PROVE  IInv'
  <1>1. /\ task' \in [Job -> TaskPc] /\ pc' = "idle" /\ hook' = 1
        /\ \A j \in Job : task'[j] = "none"
    BY DEF Dies, Exit, TaskPc
  <1>2. TypeOK'
    BY <1>1 DEF IInv, TypeOK, Hook, Dies
  <1>3. TasksOK'
    BY <1>1 DEF IInv, TasksOK, Cloned, Downloaded, MainPc, Job
  <1>c. \A h \in Hook : misc'[h] \in {"torn", "lost"} => h \in cut'
    BY DEF IInv, MainOK, Dies
  <1>m. MainOK'
    BY <1>1, <1>c DEF IInv, MainOK, Downloaded, Cloned, HookPc, MainPc
  <1>4. \A f \in File : FileOK(f)'
    BY <1>1 DEF IInv, FileOK, Downloaded, MainPc, Job
  <1>5. \A p \in Project : CloneOK(p)'
    BY <1>1 DEF IInv, CloneOK, AtRevision, Job
  <1> QED
    BY <1>2, <1>3, <1>m, <1>4, <1>5 DEF IInv

\* A run that ends outside write_text truncates nothing.
LEMMA ExitKeeps ==
    ASSUME IInv, Exit, UNCHANGED <<script, agrees, cache, local, repo, package, misc, cut>>,
           evidence' \in BOOLEAN, pc \notin {"hooking", "rehooking"}
    PROVE  IInv'
  BY DiesKeeps DEF Dies

\* A step of the main thread that leaves the jobs, the downloads and the clones
\* alone keeps what they have established.
LEMMA MainKeepsJobs ==
    ASSUME IInv, UNCHANGED <<script, agrees, cache, local, repo, task>>,
           pc' \in Downloaded => pc \in Downloaded \/ \A f \in File : task[f] = "ok"
    PROVE  /\ \A f \in File : FileOK(f)'
           /\ \A p \in Project : CloneOK(p)'
  <1>1. \A f \in File : FileOK(f)'
    BY DEF IInv, FileOK
  <1>2. \A p \in Project : CloneOK(p)'
    BY DEF IInv, CloneOK, AtRevision
  <1> QED
    BY <1>1, <1>2

LEMMA StartStep ==
    ASSUME IInv, Start
    PROVE  IInv'
  <1>1. /\ task' = [j \in Job |-> IF j \in File THEN "queued" ELSE "none"]
        /\ pc = "idle" /\ pc' = "download" /\ hook' = hook
        /\ UNCHANGED <<script, agrees, cache, local, repo, package, misc, evidence, cut>>
    BY DEF Start, Submit, disk
  <1>2. /\ task' \in [Job -> TaskPc]
        /\ \A f \in File : task'[f] = "queued"
        /\ \A p \in Project : task'[p] = "none"
    BY <1>1, JobsAssumption DEF TaskPc, Job
  <1>3. TypeOK'
    BY <1>1, <1>2 DEF IInv, TypeOK, MainPc
  <1>4. TasksOK' /\ MainOK'
    BY <1>1, <1>2 DEF IInv, TasksOK, MainOK, Downloaded, Cloned, HookPc, MainPc
  <1>5. \A f \in File : FileOK(f)'
    BY <1>1, <1>2 DEF IInv, FileOK, Downloaded
  <1>6. \A p \in Project : CloneOK(p)'
    BY <1>1, <1>2 DEF IInv, CloneOK, AtRevision
  <1> QED
    BY <1>3, <1>4, <1>5, <1>6 DEF IInv

\* The pool is left with every file in place, or the run ends.
LEMMA JoinDownloadsStep ==
    ASSUME IInv, JoinDownloads
    PROVE  IInv'
  <1>1. CASE Succeeded(File)
    <2>1. /\ pc = "download" /\ pc' = "compare" /\ \A f \in File : task[f] = "ok"
          /\ UNCHANGED <<script, agrees, cache, local, repo, package, misc, evidence, cut,
                         task, hook>>
      BY <1>1 DEF JoinDownloads, Succeeded, disk
    <2>2. TypeOK'
      BY <2>1 DEF IInv, TypeOK, MainPc
    <2>3. TasksOK' /\ MainOK'
      BY <2>1 DEF IInv, TasksOK, MainOK, Downloaded, Cloned, HookPc, MainPc, HasHook
    <2> QED
      BY <2>1, <2>2, <2>3, MainKeepsJobs DEF IInv
  <1>2. CASE ~Succeeded(File)
    BY <1>2, ExitKeeps DEF JoinDownloads, disk, IInv, TypeOK
  <1> QED
    BY <1>1, <1>2

\* The second pool is opened on files that are all in place.
LEMMA CompareLockStep ==
    ASSUME IInv, CompareLock
    PROVE  IInv'
  <1>1. CASE agrees
    <2>1. /\ task' = [j \in Job |-> IF j \in Project THEN "queued" ELSE "none"]
          /\ pc = "compare" /\ pc' = "clone" /\ hook' = hook
          /\ UNCHANGED <<script, agrees, cache, local, repo, package, misc, evidence, cut>>
      BY <1>1 DEF CompareLock, Submit, disk
    <2>2. /\ task' \in [Job -> TaskPc]
          /\ \A p \in Project : task'[p] = "queued"
          /\ \A f \in File : task'[f] = "none"
      BY <2>1, JobsAssumption DEF TaskPc, Job
    <2>3. TypeOK'
      BY <2>1, <2>2 DEF IInv, TypeOK, MainPc
    <2>4. TasksOK'
      BY <2>1, <2>2 DEF IInv, TasksOK, Downloaded, Cloned, MainPc
    <2>5. MainOK'
      BY <1>1, <2>1 DEF IInv, MainOK, Downloaded, Cloned, HookPc, MainPc
    <2>6. \A f \in File : FileOK(f)'
      BY <2>1, <2>2 DEF IInv, FileOK, Downloaded, MainPc
    <2>7. \A p \in Project : CloneOK(p)'
      BY <2>1, <2>2 DEF IInv, CloneOK, AtRevision
    <2> QED
      BY <2>3, <2>4, <2>5, <2>6, <2>7 DEF IInv
  <1>2. CASE ~agrees
    BY <1>2, ExitKeeps DEF CompareLock, disk, IInv, TypeOK
  <1> QED
    BY <1>1, <1>2

LEMMA JoinClonesStep ==
    ASSUME IInv, JoinClones
    PROVE  IInv'
  <1>1. CASE Succeeded(Project)
    <2>1. /\ pc = "clone" /\ \A p \in Project : task[p] = "ok"
          /\ pc' = IF script = "kernel" THEN "toolchain" ELSE "assemble"
          /\ UNCHANGED <<script, agrees, cache, local, repo, package, misc, evidence, cut,
                         task, hook>>
      BY <1>1 DEF JoinClones, Succeeded, disk
    <2>2. TypeOK'
      BY <2>1 DEF IInv, TypeOK, MainPc
    <2>3. TasksOK' /\ MainOK'
      BY <2>1 DEF IInv, TasksOK, MainOK, Downloaded, Cloned, HookPc, MainPc, HasHook
    <2>4. pc \in Downloaded
      BY <2>1 DEF Downloaded, MainPc
    <2> QED
      BY <2>1, <2>2, <2>3, <2>4, MainKeepsJobs DEF IInv
  <1>2. CASE ~Succeeded(Project)
    BY <1>2, ExitKeeps DEF JoinClones, disk, IInv, TypeOK
  <1> QED
    BY <1>1, <1>2

\* From the toolchain on the pools are over: only the package, the hooks and the
\* evidence change.
LEMMA AfterThePools ==
    ASSUME IInv, pc \in Cloned, pc' \in Cloned,
           UNCHANGED <<script, agrees, cache, local, repo, cut, task>>,
           package' \in {"none", "torn", "whole"}, misc' \in [Hook -> HookState],
           evidence' \in BOOLEAN, hook' \in Hook, MainOK'
    PROVE  IInv'
  <1>1. pc \in Downloaded /\ pc' \in MainPc
    BY DEF Cloned, Downloaded
  <1>2. TypeOK'
    BY <1>1 DEF IInv, TypeOK
  <1>3. TasksOK'
    BY DEF IInv, TasksOK, Cloned, Downloaded, MainPc
  <1> QED
    BY <1>1, <1>2, <1>3, MainKeepsJobs DEF IInv

LEMMA MainSteps ==
    ASSUME IInv, Main
    PROVE  IInv'
  <1> SUFFICES IInv'
    OBVIOUS
  <1> DEFINE Steps == Toolchain \/ Assemble \/ Assembled \/ SkipHook \/ OpenHook \/ CloseHook
  <1>t. TypeOK /\ MainOK
    BY DEF IInv
  <1>1. ASSUME Steps PROVE IInv'
    <2> SUFFICES IInv'
      OBVIOUS
    <2> USE <1>t DEF TypeOK, MainOK, Cloned, Downloaded, HookPc, MainPc, HasHook, disk, Hook,
                     HookState
    <2> DEFINE Keeps == /\ pc \in Cloned /\ pc' \in Cloned
                        /\ UNCHANGED <<script, agrees, cache, local, repo, cut, task>>
                        /\ package' \in {"none", "torn", "whole"}
                        /\ misc' \in [Hook -> HookState]
                        /\ evidence' \in BOOLEAN /\ hook' \in Hook /\ MainOK'
    <2>1. CASE Toolchain
      <3>1. Keeps
        BY <2>1 DEF Toolchain
      <3> QED
        BY <3>1, AfterThePools
    <2>2. CASE Assemble
      <3>1. Keeps
        BY <2>2 DEF Assemble
      <3> QED
        BY <3>1, AfterThePools
    <2>3. CASE Assembled
      <3>1. Keeps
        BY <2>3 DEF Assembled
      <3> QED
        BY <3>1, AfterThePools
    <2>4. CASE SkipHook
      <3>1. Keeps
        BY <2>4 DEF SkipHook, NextHook
      <3> QED
        BY <3>1, AfterThePools
    <2>5. CASE OpenHook
      <3>1. Keeps
        BY <2>5 DEF OpenHook
      <3> QED
        BY <3>1, AfterThePools
    <2>6. CASE CloseHook
      <3>1. Keeps
        BY <2>6 DEF CloseHook, NextHook
      <3> QED
        BY <3>1, AfterThePools
    <2> QED
      BY <1>1, <2>1, <2>2, <2>3, <2>4, <2>5, <2>6
  <1>2. ASSUME WriteEvidence PROVE IInv'
    BY <1>2, ExitKeeps DEF WriteEvidence
  <1> QED
    BY <1>1, <1>2, JoinDownloadsStep, CompareLockStep, JoinClonesStep DEF Main

LEMMA StepKeepsInvariant == IInv /\ [Next]_vars => IInv'
  <1> SUFFICES ASSUME IInv, [Next]_vars PROVE IInv'
    OBVIOUS
  <1>1. CASE Start \/ Main
    BY <1>1, StartStep, MainSteps
  <1>2. CASE MainFails \/ Kill
    BY <1>2, DiesKeeps DEF MainFails, Kill, disk, IInv, TypeOK
  <1>3. CASE \E j \in Job : Step(j) \/ JobFails(j)
    BY <1>3, DownloadSteps, CloneSteps, JobFailures DEF Step
  <1>4. CASE UNCHANGED vars
    BY <1>4 DEF vars, disk, IInv, TypeOK, TasksOK, MainOK, FileOK, CloneOK, AtRevision,
       HasHook
  <1> QED
    BY <1>1, <1>2, <1>3, <1>4 DEF Next
(***************************************************************************)
(* What holds for every number of files, projects and workers              *)
(***************************************************************************)
\* IInv holds in every reachable state, kills and restarts included.
THEOREM Invariant == Spec => []IInv
  <1>1. Init /\ [][Next]_vars => []IInv
    BY InitInvariant, StepKeepsInvariant, PTL
  <1> QED
    BY <1>1, PTL DEF Spec

\* Every variable keeps its type.
THEOREM TypeCorrect == Spec => []TypeOK
  <1>1. IInv => TypeOK
    BY DEF IInv
  <1> QED
    BY <1>1, Invariant, PTL

\* The evidence file is written only beside inputs that are the published ones,
\* clones at their pinned revisions with the official files and, for the kernel,
\* both hooks, whatever earlier runs were killed.  What else is in the two files
\* of the hooks is only claimed if no run ended inside their write_text
\* (prepare_gki_ddk.py:140, prepare_gki_kernel.py:33-38, 74).
THEOREM EvidenceSaysWhatIsThere == Spec => EvidenceIsPinned
  <1> DEFINE Pinned == /\ agrees /\ package = "whole"
                       /\ \A f \in File : local[f] = "good"
                       /\ \A p \in Project : /\ repo[p].head = "pinned"
                                             /\ repo[p].tree = "official"
                                             /\ repo[p].link # "wrong"
                       /\ script = "kernel" =>
                              \A h \in Hook : /\ HasHook(h)
                                               /\ misc[h] = "lost" => h \in cut
  <1>1. ASSUME IInv, WriteEvidence PROVE Pinned
    <2>1. pc = "evidence" /\ pc \in Cloned /\ pc \in Downloaded
      BY <1>1 DEF WriteEvidence, Cloned, Downloaded, MainPc
    <2>2. agrees /\ package = "whole"
      BY <1>1, <2>1 DEF IInv, MainOK
    <2>3. \A f \in File : local[f] = "good"
      BY <1>1, <2>1 DEF IInv, FileOK
    <2>4. \A p \in Project : /\ repo[p].head = "pinned" /\ repo[p].tree = "official"
                             /\ repo[p].link # "wrong"
      BY <1>1, <2>1 DEF IInv, TasksOK, CloneOK, AtRevision
    <2>5. script = "kernel" => \A h \in Hook : HasHook(h) /\ (misc[h] = "lost" => h \in cut)
      <3>1. \A h \in Hook : h = 1 \/ h = 2
        BY DEF Hook
      <3> QED
        BY <1>1, <2>1, <3>1 DEF IInv, MainOK
    <2> QED
      BY <2>2, <2>3, <2>4, <2>5
  <1>2. IInv /\ [Next]_vars => [WriteEvidence => Pinned]_vars
    BY <1>1
  <1>3. Spec => [][WriteEvidence => Pinned]_vars
    <2> HIDE DEF Pinned
    <2> QED
      BY <1>2, Invariant, PTL DEF Spec
  <1> QED
    BY <1>3 DEF EvidenceIsPinned

\* Only published content reaches the workspace, and a whole file stays whole in
\* the cache, however runs were killed (prepare_gki_ddk.py:31-47).
THEOREM PublishedContentOnly == Spec => OnlyPublishedSpreads
  <1> DEFINE Spreads == \A f \in File :
                            /\ cache[f] = "good" => cache'[f] = "good"
                            /\ local[f] # local'[f] => /\ cache[f] = "good"
                                                       /\ local'[f] \in {"torn", "good"}
  <1>1. ASSUME IInv, Next PROVE Spreads
    <2>1. CASE UNCHANGED <<cache, local>>
      BY <2>1
    <2>2. CASE \E f \in File : DownloadOne(f)
      <3>1. PICK f \in File : DownloadOne(f)
        BY <2>2
      <3>2. FileOK(f) /\ cache \in [File -> Content] /\ local \in [File -> Content]
        BY <1>1 DEF IInv, TypeOK
      <3> QED
        BY <3>1, <3>2 DEF DownloadOne, Take, ReadCache, Fetch, StoreOpens, StoreCloses,
           PlaceOpens, PlaceCloses, At, FileOK, disk
    <2>3. Next => UNCHANGED <<cache, local>> \/ \E f \in File : DownloadOne(f)
      <3>1. Start \/ Main \/ MainFails \/ Kill => UNCHANGED <<cache, local>>
        BY DEF Start, Main, MainFails, Kill, JoinDownloads, CompareLock, JoinClones,
           Toolchain, Assemble, Assembled, SkipHook, OpenHook, CloseHook, WriteEvidence, disk
      <3>2. \A j \in Job : JobFails(j) => UNCHANGED <<cache, local>>
        BY DEF JobFails, disk
      <3>3. \A p \in Project : CloneProject(p) => UNCHANGED <<cache, local>>
        BY DEF CloneProject, Take, GitInit, GitRemote, ReadHead, GitFetch, GitSparse,
           GitCheckout, GitMovesHead, VerifyHead, Link, disk
      <3> QED
        BY <3>1, <3>2, <3>3 DEF Next, Step
    <2> QED
      BY <1>1, <2>1, <2>2, <2>3
  <1>2. IInv /\ [Next]_vars => [Spreads]_vars
    BY <1>1
  <1>3. Spec => [][Spreads]_vars
    <2> HIDE DEF Spreads
    <2> QED
      BY <1>2, Invariant, PTL DEF Spec
  <1> QED
    BY <1>3 DEF OnlyPublishedSpreads
================================================================================
