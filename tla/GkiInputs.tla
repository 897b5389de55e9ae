------------------------------- MODULE GkiInputs -------------------------------
(***************************************************************************)
(* scripts/prepare_gki_ddk.py and scripts/prepare_gki_kernel.py: pinned    *)
(* files are downloaded by a pool of threads through a cache, projects are *)
(* cloned at the revisions of the downloaded manifest by a second pool,    *)
(* the RT sources are staged, and an evidence file says what was prepared. *)
(* The process may be killed at any step and run again on what it left.    *)
(*                                                                         *)
(* Files and revisions have no contents: a file is whole or torn, the      *)
(* published one or another; what git does is external.                    *)
(***************************************************************************)
EXTENDS Naturals, FiniteSets

CONSTANTS
    File,       \* the published files the lock names
    Project,    \* the projects of the manifest
    Workers     \* max_workers of the pools

ASSUME InputsAssumption == Workers \in Nat \ {0}

ASSUME JobsAssumption == File \cap Project = {}

VARIABLES
    script,     \* which of the two preparers the workspace belongs to
    agrees,     \* the lock's commit and configuration are those of its files
    cache,      \* file -> its content in the cache
    local,      \* file -> its content in the workspace
    repo,       \* project -> the state of its clone
    package,    \* the RT sources and DDK files copied into the workspace
    misc,       \* hook -> drivers/misc/Kconfig, drivers/misc/Makefile of the clone
    cut,        \* history: the hooked files that an ended run has left truncated
    evidence,   \* the evidence file exists
    pc,         \* where the main thread is; "idle" between runs
    task,       \* file or project -> where its task in the pool is
    hook        \* the file being hooked

disk == <<cache, local, repo, package, misc, evidence>>
vars == <<script, agrees, disk, cut, pc, task, hook>>

Content == {"absent", "torn", "good", "other"}
Clone   == [git : {"none", "init", "origin"}, head : {"none", "pinned", "other"},
            tree : {"empty", "torn", "official", "other"},
            link : {"none", "right", "wrong", "file"}]
Hook    == 1..2
HookState == {"official", "torn", "hooked", "lost"}

FilePc    == {"read", "fetch", "store", "storing", "place", "placing"}
ProjectPc == {"init", "remote", "head", "fetch", "sparse", "checkout", "writing",
              "verify", "link"}
Ended     == {"ok", "failed"}
TaskPc    == {"none", "queued"} \cup FilePc \cup ProjectPc \cup Ended
MainPc    == {"download", "compare", "clone", "toolchain", "assemble", "assembling",
              "hook", "hooking", "rehooking", "evidence"}

Job == File \cup Project

NewRepo   == [git |-> "none", head |-> "none", tree |-> "empty", link |-> "none"]
OlderRepo == [git |-> "origin", head |-> "other", tree |-> "other", link |-> "none"]

\* An empty workspace or one of an older lock, where a path a manifest link
\* needs may be taken; a cache that may hold a damaged file.
Init == /\ script \in {"ddk", "kernel"} /\ agrees \in BOOLEAN
        /\ cache \in [File -> {"absent", "good", "other"}]
        /\ local = [f \in File |-> "absent"]
        /\ repo \in [Project -> {[r EXCEPT !.link = l] : r \in {NewRepo, OlderRepo},
                                                         l \in {"none", "wrong", "file"}}]
        /\ package = "none" /\ misc = [h \in Hook |-> "official"] /\ cut = {}
        /\ evidence = FALSE /\ pc = "idle" /\ hook = 1
        /\ task = [j \in Job |-> "none"]

(***************************************************************************)
(* The pool                                                                *)
(***************************************************************************)
\* Fault: a job that failed keeps its worker.
BusyWithFailed == {j \in Job : task[j] \in FilePc \cup ProjectPc \cup {"failed"}}

Busy == {j \in Job : task[j] \in FilePc \cup ProjectPc}

\* A worker takes the next job; it is free again when the job has ended.
Take(j, first) == /\ task[j] = "queued" /\ Cardinality(Busy) < Workers
                  /\ task' = [task EXCEPT ![j] = first]
                  /\ UNCHANGED <<script, agrees, disk, cut, pc, hook>>

Go(j, where) == task' = [task EXCEPT ![j] = where]

At(j, where) == task[j] = where

\* What a job changes besides its own place.
MainKeeps == UNCHANGED <<script, agrees, package, misc, evidence, cut, pc, hook>>

\* An error of the network, of git or of the file system ends the job only.
JobFails(j) == /\ j \in Busy
               /\ Go(j, "failed")
               /\ UNCHANGED <<script, agrees, disk, cut, pc, hook>>

(***************************************************************************)
(* download_one                                                            *)
(***************************************************************************)
\* Fault: a file that is there is taken for the published one.
VerifiesPresence(content) == content # "absent"

\* verify: size, MD5 and, where the lock has one, SHA-256.
Verifies(content) == content = "good"

ReadCache(f) == /\ At(f, "read")
                /\ \/ cache[f] = "absent" /\ Go(f, "fetch")
                   \/ Verifies(cache[f]) /\ Go(f, "place")
                   \/ cache[f] # "absent" /\ ~Verifies(cache[f]) /\ Go(f, "failed")
                /\ UNCHANGED <<cache, local, repo>> /\ MainKeeps

\* Only data that verify accepts goes on to the cache.
Fetch(f) == /\ At(f, "fetch")
            /\ \E data \in {"torn", "good", "other"} : Verifies(data)
            /\ Go(f, "store")
            /\ UNCHANGED <<cache, local, repo>> /\ MainKeeps

StoreOpens(f) == /\ At(f, "store")
                 /\ Go(f, "storing")
                 /\ cache' = [cache EXCEPT ![f] = "torn"]
                 /\ UNCHANGED <<local, repo>> /\ MainKeeps

StoreCloses(f) == /\ At(f, "storing")
                  /\ Go(f, "place")
                  /\ cache' = [cache EXCEPT ![f] = "good"]
                  /\ UNCHANGED <<local, repo>> /\ MainKeeps

PlaceOpens(f) == /\ At(f, "place")
                 /\ Go(f, "placing")
                 /\ local' = [local EXCEPT ![f] = "torn"]
                 /\ UNCHANGED <<cache, repo>> /\ MainKeeps

\* What the job holds in memory is what it read or stored.
PlaceCloses(f) == /\ At(f, "placing")
                  /\ Go(f, "ok")
                  /\ local' = [local EXCEPT ![f] = cache[f]]
                  /\ UNCHANGED <<cache, repo>> /\ MainKeeps

DownloadOne(f) == \/ Take(f, "read") \/ ReadCache(f) \/ Fetch(f)
                  \/ StoreOpens(f) \/ StoreCloses(f) \/ PlaceOpens(f) \/ PlaceCloses(f)

(***************************************************************************)
(* clone_project                                                           *)
(***************************************************************************)
GitInit(p) == /\ At(p, "init")
              /\ IF repo[p].git = "none"
                 THEN repo' = [repo EXCEPT ![p].git = "init"] /\ Go(p, "remote")
                 ELSE UNCHANGED repo /\ Go(p, "head")
              /\ UNCHANGED <<cache, local>> /\ MainKeeps

GitRemote(p) == /\ At(p, "remote")
                /\ repo' = [repo EXCEPT ![p].git = "origin"] /\ Go(p, "head")
                /\ UNCHANGED <<cache, local>> /\ MainKeeps

AtRevision(p) == repo[p].head = "pinned"

ReadHead(p) == /\ At(p, "head")
               /\ Go(p, IF AtRevision(p) THEN "sparse" ELSE "fetch")
               /\ UNCHANGED <<cache, local, repo>> /\ MainKeeps

\* Without a remote, which a kill before "remote add" leaves, it fails for ever.
GitFetch(p) == /\ At(p, "fetch")
               /\ Go(p, IF repo[p].git = "origin" THEN "sparse" ELSE "failed")
               /\ UNCHANGED <<cache, local, repo>> /\ MainKeeps

GitSparse(p) == /\ At(p, "sparse")
                /\ Go(p, IF AtRevision(p) THEN "verify" ELSE "checkout")
                /\ UNCHANGED <<cache, local, repo>> /\ MainKeeps

\* git moves HEAD after it has written the files.
GitCheckout(p) == /\ At(p, "checkout")
                  /\ repo' = [repo EXCEPT ![p].tree = "torn"] /\ Go(p, "writing")
                  /\ UNCHANGED <<cache, local>> /\ MainKeeps

GitMovesHead(p) == /\ At(p, "writing")
                   /\ repo' = [repo EXCEPT ![p].tree = "official", ![p].head = "pinned"]
                   /\ Go(p, "verify")
                   /\ UNCHANGED <<cache, local>> /\ MainKeeps

VerifyHead(p) == /\ At(p, "verify") /\ AtRevision(p)
                 /\ Go(p, "link")
                 /\ UNCHANGED <<cache, local, repo>> /\ MainKeeps

\* A file of that name that is not a link is left as it is.
Link(p) == /\ At(p, "link")
           /\ repo' = [repo EXCEPT ![p].link = IF @ = "none" THEN "right" ELSE @]
           /\ Go(p, IF repo[p].link = "wrong" THEN "failed" ELSE "ok")
           /\ UNCHANGED <<cache, local>> /\ MainKeeps

CloneProject(p) == \/ Take(p, "init") \/ GitInit(p) \/ GitRemote(p) \/ ReadHead(p)
                   \/ GitFetch(p) \/ GitSparse(p) \/ GitCheckout(p) \/ GitMovesHead(p)
                   \/ VerifyHead(p) \/ Link(p)

(***************************************************************************)
(* The main thread                                                         *)
(***************************************************************************)
Submit(jobs) == task' = [j \in Job |-> IF j \in jobs THEN "queued" ELSE "none"]

Exit == pc' = "idle" /\ hook' = 1 /\ task' = [j \in Job |-> "none"]

\* A run that ends inside write_text leaves the file truncated.
Dies == /\ Exit
        /\ cut' = IF pc \in {"hooking", "rehooking"} THEN cut \cup {hook} ELSE cut

Start == /\ pc = "idle"
         /\ pc' = "download" /\ Submit(File)
         /\ UNCHANGED <<script, agrees, disk, cut, hook>>

\* Leaving the "with" block waits for every job, failed ones or not.
Joined(jobs) == \A j \in jobs : task[j] \in Ended

\* Fault: the jobs are not asked for their results.
SucceededUnasked(jobs) == Joined(jobs)

Succeeded(jobs) == \A j \in jobs : task[j] = "ok"

JoinDownloads == /\ pc = "download" /\ Joined(File)
                 /\ IF Succeeded(File)
                    THEN pc' = "compare" /\ UNCHANGED <<task, hook>>
                    ELSE Exit
                 /\ UNCHANGED <<script, agrees, disk, cut>>

\* The configuration of the device (DDK) and the commit of the manifest.
CompareLock == /\ pc = "compare"
               /\ IF agrees THEN pc' = "clone" /\ Submit(Project) /\ UNCHANGED hook
                            ELSE Exit
               /\ UNCHANGED <<script, agrees, disk, cut>>

JoinClones == /\ pc = "clone" /\ Joined(Project)
              /\ IF Succeeded(Project)
                 THEN /\ pc' = IF script = "kernel" THEN "toolchain" ELSE "assemble"
                      /\ UNCHANGED <<task, hook>>
                 ELSE Exit
              /\ UNCHANGED <<script, agrees, disk, cut>>

\* The compiler's version is that of the revision checked out.  The kernel's
\* preparer asks for it before it stages the sources, the other one at the end.
Toolchain == /\ pc = "toolchain"
             /\ pc' = IF script = "kernel" THEN "assemble" ELSE "evidence"
             /\ UNCHANGED <<script, agrees, disk, cut, task, hook>>

Assemble == /\ pc = "assemble"
            /\ package' = "torn" /\ pc' = "assembling"
            /\ UNCHANGED <<script, agrees, cache, local, repo, misc, evidence, cut, task,
                           hook>>

\* Copies over whatever an earlier run left; the kernel then gets its hooks.
Assembled == /\ pc = "assembling"
             /\ package' = "whole"
             /\ pc' = IF script = "kernel" THEN "hook" ELSE "toolchain"
             /\ UNCHANGED <<script, agrees, cache, local, repo, misc, evidence, cut, task,
                           hook>>

\* The hook's line is there; the rest of the file is not looked at.
HasHook(h) == misc[h] \in {"hooked", "lost"}

NextHook == IF hook = 1 THEN hook' = 2 /\ pc' = "hook"
                        ELSE UNCHANGED hook /\ pc' = "evidence"

SkipHook == /\ pc = "hook" /\ HasHook(hook)
            /\ NextHook
            /\ UNCHANGED <<script, agrees, disk, cut, task>>

\* write_text truncates the file it has just read; a kill before it is written
\* again leaves a stump the next run takes for the contents.
OpenHook == /\ pc = "hook" /\ ~HasHook(hook)
            /\ pc' = IF misc[hook] = "official" THEN "hooking" ELSE "rehooking"
            /\ misc' = [misc EXCEPT ![hook] = "torn"]
            /\ UNCHANGED <<script, agrees, cache, local, repo, package, evidence, cut, task,
                           hook>>

CloseHook == /\ pc \in {"hooking", "rehooking"}
             /\ misc' = [misc EXCEPT ![hook] = IF pc = "hooking" THEN "hooked" ELSE "lost"]
             /\ NextHook
             /\ UNCHANGED <<script, agrees, cache, local, repo, package, evidence, cut,
                           task>>

WriteEvidence == /\ pc = "evidence"
                 /\ evidence' = TRUE
                 /\ Exit
                 /\ UNCHANGED <<script, agrees, cache, local, repo, package, misc, cut>>

(***************************************************************************)
(* Specification                                                           *)
(***************************************************************************)
\* Any step of the main thread may fail and end the run outside the pools.
MainFails == /\ pc \in MainPc \ {"download", "clone"}
             /\ Dies
             /\ UNCHANGED <<script, agrees, disk>>

\* The process dies with all its threads; the disk stays as it is.
Kill == /\ pc # "idle"
        /\ Dies
        /\ UNCHANGED <<script, agrees, disk>>

Main == \/ JoinDownloads \/ CompareLock \/ JoinClones \/ Toolchain \/ Assemble
        \/ Assembled \/ SkipHook \/ OpenHook \/ CloseHook \/ WriteEvidence

Step(j) == (j \in File /\ DownloadOne(j)) \/ (j \in Project /\ CloneProject(j))

Next == \/ Start \/ Main \/ MainFails \/ Kill
        \/ \E j \in Job : Step(j) \/ JobFails(j)

\* Threads of a running process are scheduled, and a request of the network or
\* of git ends, with an answer or an error.
Spec == /\ Init /\ [][Next]_vars
        /\ WF_vars(Main) /\ \A j \in Job : WF_vars(Step(j) \/ JobFails(j))

(***************************************************************************)
(* Properties                                                              *)
(***************************************************************************)
\* Every variable has its type.
TypeOK == /\ cache \in [File -> Content] /\ local \in [File -> Content]
          /\ repo \in [Project -> Clone]
          /\ package \in {"none", "torn", "whole"} /\ misc \in [Hook -> HookState]
          /\ evidence \in BOOLEAN /\ hook \in Hook /\ cut \subseteq Hook
          /\ pc \in {"idle"} \cup MainPc /\ task \in [Job -> TaskPc]

\* Evidence is written only beside inputs that are the published ones and
\* clones at their pinned revisions with the official files, whatever earlier
\* runs were killed.  The kernel has both its hooks; the two files they are in,
\* drivers/misc/Kconfig and Makefile, are the official ones with the hook added
\* unless a run ended inside their write_text: then nothing is said of what else
\* is in them (prepare_gki_ddk.py:140, prepare_gki_kernel.py:33-38, 74).
EvidenceIsPinned ==
    [][WriteEvidence => /\ agrees /\ package = "whole"
                        /\ \A f \in File : local[f] = "good"
                        /\ \A p \in Project : /\ repo[p].head = "pinned"
                                              /\ repo[p].tree = "official"
                                              /\ repo[p].link # "wrong"
                        /\ script = "kernel" =>
                               \A h \in Hook : /\ HasHook(h)
                                                /\ misc[h] = "lost" => h \in cut]_vars

\* Whatever is in the cache, and however runs were killed or their jobs failed,
\* only published content is ever put in the workspace, whole or in part, and a
\* cached file that is whole stays so (prepare_gki_ddk.py:31-47).
OnlyPublishedSpreads ==
    [][\A f \in File : /\ cache[f] = "good" => cache'[f] = "good"
                       /\ local[f] # local'[f] => /\ cache[f] = "good"
                                                  /\ local'[f] \in {"torn", "good"}]_vars

\* A run ends, although jobs fail and there are more of them than workers.
RunEnds == pc # "idle" ~> pc = "idle"
================================================================================
