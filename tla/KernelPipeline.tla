----------------------------- MODULE KernelPipeline ----------------------------
(***************************************************************************)
(* From a request pushed to main to a verified artifact: the three         *)
(* resolvers that decide whether a push asks for a build                   *)
(* (resolve_*_request.py), the kernel build of rt-taipei-kernel.yml with   *)
(* ci_build_gki_kernel.sh, and rt-taipei-kernel-verify.yml, which checks   *)
(* the artifact of a run with verify_gki_kernel.py at what is by then the  *)
(* head of main.  Pushes, runs and verifications interleave; a newer run   *)
(* of the kernel workflow cancels the older one.                           *)
(*                                                                         *)
(* A commit is the version of the RT sources it holds and the requests     *)
(* that exist in it; the history is linear and a push may bring several    *)
(* commits.                                                                *)
(***************************************************************************)
EXTENDS Naturals, Sequences, FiniteSets

CONSTANTS
    Version,        \* versions of the RT sources
    RequestsFor(_), \* the requests that may be added on top of a commit
    MaxCommits,     \* bound: commits on main
    MaxRuns         \* bound: workflow runs

ASSUME BoundsAssumption == MaxCommits \in Nat \ {0} /\ MaxRuns \in Nat

VARIABLES
    commits,    \* main, oldest first: [rt, requests]
    runs,       \* workflow runs, oldest first
    verify      \* run -> the verification it has triggered

vars == <<commits, runs, verify>>

Kind  == {"kernel", "gki", "rt"}
Gates == {"config", "crcs", "image", "linked", "modules"}

Tip == Len(commits)

NoRun == [kind |-> "kernel", event |-> "push", before |-> 0, after |-> 0, mode |-> "none",
          step |-> "none", conclusion |-> "none", source |-> 0, staged |-> "none",
          image |-> FALSE, faults |-> {}]
NoVerify == [step |-> "none", head |-> 0, outcome |-> "none", published |-> "none"]

Init == /\ \E v \in Version : commits = <<[rt |-> v, requests |-> {}]>>
        /\ runs = << >>
        /\ verify = [r \in 1..MaxRuns |-> NoVerify]

(***************************************************************************)
(* The resolvers                                                           *)
(***************************************************************************)
\* git diff --name-status: requests added, and the sources if they differ.
Changes(before, after) ==
    {[status |-> "A", request |-> q] :
        q \in commits[after].requests \ commits[before].requests}
    \cup {[status |-> "M", request |-> q] : q \in
            IF commits[before].rt = commits[after].rt THEN {} ELSE {"sources"}}

\* Fault: other changes of the push are not looked at.
OneAddedAmong(changes, q) == [status |-> "A", request |-> q] \in changes

\* Exactly one change, and it adds the request.
OneAdded(changes, q) == changes = {[status |-> "A", request |-> q]}

Pinned(q, before) == q.pins = before /\ q.base

ResolveKernel(changes, before, q) == /\ OneAdded(changes, q) /\ q.named
                                     /\ Pinned(q, before)
                                     /\ q.builtin /\ q.mode \in {"preflight", "kernel"}

ResolveGki(changes, before, q) == /\ OneAdded(changes, q) /\ q.named
                                  /\ Pinned(q, before) /\ q.mode \in {"preflight", "modules"}

\* The mode that a request for a part of RT has to ask for.
RtMode == [diag |-> "kernel_and_rt_diag", port |-> "kernel_and_rt_port"]

\* The mode has to be that of the file name; no baseline is named.
ResolveRt(changes, before, q) == /\ OneAdded(changes, q) /\ q.named
                                 /\ q.pins = before
                                 /\ q.part \in DOMAIN RtMode /\ q.mode = RtMode[q.part]

Resolves(kind, changes, before, q) ==
    CASE kind = "kernel" -> ResolveKernel(changes, before, q)
      [] kind = "gki"    -> ResolveGki(changes, before, q)
      [] kind = "rt"     -> ResolveRt(changes, before, q)

(***************************************************************************)
(* main and the runs it triggers                                           *)
(***************************************************************************)
Running(r) == r.step \notin {"none", "done"}

\* cancel-in-progress of the kernel workflow: the steps that always run are
\* left to it.  In the other two a new run cancels none that is in progress;
\* that it waits for it changes nothing here, since they share no state.
Superseded(r) == IF r.kind = "kernel" /\ Running(r)
                 THEN [r EXCEPT !.step = "upload", !.conclusion = "cancelled"] ELSE r

NewRun(kind, event, before, after, mode) ==
    [NoRun EXCEPT !.kind = kind, !.event = event, !.before = before, !.after = after,
                  !.mode = mode, !.step = "validate"]

Trigger(run) ==
    runs' = Append(IF run.kind = "kernel" THEN [i \in DOMAIN runs |-> Superseded(runs[i])]
                                          ELSE runs, run)

\* One or two commits; the last may add a request, which triggers the
\* workflow whose path filter its file name matches.
Push == /\ Len(runs) < MaxRuns
        /\ \E n \in 1..2 : \E rt \in [1..n -> Version] :
              /\ Tip + n <= MaxCommits
              /\ \E q \in RequestsFor(Tip) :
                    /\ commits' = commits \o [i \in 1..n |->
                          [rt |-> rt[i],
                           requests |-> commits[Tip].requests \cup IF i = n THEN {q} ELSE {}]]
                    /\ Trigger(NewRun(q.kind, "push", Tip, Tip + n, "none"))
        /\ UNCHANGED verify

\* An ordinary push builds nothing.
PushSources == /\ Tip < MaxCommits
               /\ \E v \in Version :
                     commits' = Append(commits, [commits[Tip] EXCEPT !.rt = v])
               /\ UNCHANGED <<runs, verify>>

\* workflow_dispatch: the head of main, without a request.
Dispatch == /\ Len(runs) < MaxRuns
            /\ \E mode \in {"preflight", "kernel"} :
                  Trigger(NewRun("kernel", "dispatch", Tip, Tip, mode))
            /\ UNCHANGED <<commits, verify>>

(***************************************************************************)
(* A run                                                                   *)
(***************************************************************************)
Becomes(i, run) == runs' = [runs EXCEPT ![i] = run] /\ UNCHANGED <<commits, verify>>

At(i, kinds, step) == runs[i].kind \in kinds /\ runs[i].step = step

Failed(run) == [run EXCEPT !.step = "upload", !.conclusion = "failure"]

Validate(i) == /\ At(i, Kind, "validate")
               /\ Becomes(i, [runs[i] EXCEPT
                       !.step = IF runs[i].event = "push" THEN "resolve" ELSE "prepare"])

\* The one request of the push decides the mode.
Resolve(i) == /\ At(i, Kind, "resolve")
              /\ LET run == runs[i]
                     changes == Changes(run.before, run.after)
                 IN Becomes(i,
                      IF \E c \in changes : /\ c.status = "A"
                                            /\ Resolves(run.kind, changes, run.before, c.request)
                      THEN [run EXCEPT !.step = "prepare",
                              !.mode = (CHOOSE c \in changes : c.status = "A").request.mode]
                      ELSE Failed(run))

\* prepare_gki_kernel.py stages the sources of the checkout.
Prepare(i) == /\ At(i, {"kernel"}, "prepare")
              /\ Becomes(i, [runs[i] EXCEPT !.step = "config", !.source = runs[i].after,
                                            !.staged = commits[runs[i].after].rt])

\* The configuration may change only where RT does.
ConfigGate(i) == /\ At(i, {"kernel"}, "config")
                 /\ Becomes(i, IF runs[i].mode = "kernel"
                               THEN [runs[i] EXCEPT !.step = "build"]
                               ELSE [runs[i] EXCEPT !.step = "upload", !.conclusion = "success"])

\* Bound: what the gates may find wrong of a kernel is one thing.
Build(i) == /\ At(i, {"kernel"}, "build")
            /\ \E faults \in {{}} \cup {{g} : g \in Gates} :
                  Becomes(i, [runs[i] EXCEPT !.step = "verify", !.faults = faults,
                                             !.image = TRUE])

(***************************************************************************)
(* verify_gki_kernel.verify: the staged sources are those of the checkout  *)
(* that verifies, then one gate after the other                            *)
(***************************************************************************)
\* Fault: the sources are compared with those of the run's own commit.
SourceCurrentAtBuild(run, checkout) == run.staged = commits[run.after].rt

SourceCurrent(run, checkout) == run.staged = commits[checkout].rt

Passes(run, checkout) == SourceCurrent(run, checkout) /\ run.faults = {}

VerifyInRun(i) == /\ At(i, {"kernel"}, "verify")
                  /\ Becomes(i, IF Passes(runs[i], runs[i].after)
                                THEN [runs[i] EXCEPT !.step = "upload", !.conclusion = "success"]
                                ELSE Failed(runs[i]))

\* A failing step, a timeout, a lost runner; an artifact is uploaded regardless.
Fail(i) == /\ runs[i].step \in {"validate", "resolve", "prepare", "config", "build", "verify"}
           /\ Becomes(i, Failed(runs[i]))

\* What the other two workflows build is modelled in ModuleKit.
BuildModules(i) == /\ At(i, {"gki", "rt"}, "prepare")
                   /\ Becomes(i, [runs[i] EXCEPT !.step = "upload", !.source = runs[i].after,
                                                 !.conclusion = "success"])

\* The run is completed; that triggers the verification, unless it was cancelled.
Complete(i) == /\ runs[i].step = "upload"
               /\ runs' = [runs EXCEPT ![i].step = "done"]
               /\ verify' = IF runs[i].kind = "kernel" /\ runs[i].conclusion # "cancelled"
                            THEN [verify EXCEPT ![i].step = "checkout"] ELSE verify
               /\ UNCHANGED commits

(***************************************************************************)
(* rt-taipei-kernel-verify.yml                                             *)
(***************************************************************************)
VerifyBecomes(i, v) == verify' = [verify EXCEPT ![i] = v] /\ UNCHANGED <<commits, runs>>

\* workflow_run checks out the head main has by then, whatever the run was
\* built from.
Checkout(i) == /\ verify[i].step = "checkout"
               /\ VerifyBecomes(i, [verify[i] EXCEPT !.step = "source", !.head = Tip])

\* Provenance, and whether there is an image to verify.
CheckSource(i) == /\ verify[i].step = "source"
                  /\ VerifyBecomes(i, [verify[i] EXCEPT
                        !.step = IF runs[i].source = runs[i].after /\ runs[i].image
                                 THEN "check" ELSE "done"])

CheckBinary(i) == /\ verify[i].step = "check"
                  /\ \E outcome \in {"success", "failure"} :
                        /\ outcome = "success" => Passes(runs[i], verify[i].head)
                        /\ VerifyBecomes(i, [verify[i] EXCEPT !.step = "publish",
                                                              !.outcome = outcome])

Publish(i) == /\ verify[i].step = "publish"
              /\ VerifyBecomes(i, [verify[i] EXCEPT !.step = "done",
                    !.published = IF verify[i].outcome = "success" THEN "verified"
                                                                  ELSE "diagnostic"])

(***************************************************************************)
(* Specification                                                           *)
(***************************************************************************)
RunStep(i) == \/ Validate(i) \/ Resolve(i) \/ Prepare(i) \/ ConfigGate(i) \/ Build(i)
              \/ VerifyInRun(i) \/ Fail(i) \/ BuildModules(i) \/ Complete(i)

VerifyStep(i) == Checkout(i) \/ CheckSource(i) \/ CheckBinary(i) \/ Publish(i)

Next == \/ Push \/ PushSources \/ Dispatch
        \/ \E i \in 1..Len(runs) : RunStep(i) \/ VerifyStep(i)

Spec == Init /\ [][Next]_vars

(***************************************************************************)
(* Properties                                                              *)
(***************************************************************************)
\* A commit is built on request only when its tree is that of the commit the
\* request pins with the request added, however many commits the push had and
\* whatever they did (resolve_*_request.py).
BuiltTreeIsPinned ==
    \A i \in 1..Len(runs) :
        runs[i].event = "push" /\ runs[i].source # 0 =>
            \E q \in commits[runs[i].after].requests :
                /\ q.pins \in 1..(runs[i].after - 1)
                /\ commits[runs[i].after] =
                     [commits[q.pins] EXCEPT !.requests = @ \cup {q}]

\* An artifact published as verified has passed every gate, was not cancelled,
\* comes from the commit of its run, and holds the RT sources main had when it
\* was verified, although main moves at any time
\* (verify_gki_kernel.py:52-95, rt-taipei-kernel-verify.yml).
VerifiedArtifactIsCurrent ==
    \A i \in 1..Len(runs) :
        verify[i].published = "verified" =>
            /\ runs[i].conclusion # "cancelled" /\ runs[i].faults = {}
            /\ runs[i].source = runs[i].after
            /\ commits[runs[i].source].rt = commits[verify[i].head].rt
================================================================================
