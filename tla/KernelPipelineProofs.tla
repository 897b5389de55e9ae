-------------------------- MODULE KernelPipelineProofs -------------------------
(***************************************************************************)
(* Proofs about KernelPipeline, for any history of main, any requests and  *)
(* any number of runs: what a request builds, and what a verification      *)
(* publishes.                                                              *)
(*                                                                         *)
(* Runs and verifications overlap with pushes, so what is said of them is  *)
(* said of the commits they name, which stay in the history: the parts of  *)
(* the invariant take the history as an argument, and hold of any longer   *)
(* one.  A run has been resolved, staged and built as far as its step says *)
(* or is cancelled on the way; a verification goes on only over a run that *)
(* is done, so that nothing it has checked can change under it.            *)
(***************************************************************************)
EXTENDS KernelPipeline, SequenceTheorems, TLAPS

Request == UNION {RequestsFor(n) : n \in Nat}
Commit  == [rt : Version, requests : SUBSET Request]
Kinds   == Kind \cup {q.kind : q \in Request}
Run     == [kind : Kinds, event : {"push", "dispatch"},
            before : Nat, after : Nat,
            mode : {"none", "preflight", "kernel"} \cup {q.mode : q \in Request},
            step : {"none", "validate", "resolve", "prepare", "config", "build", "verify",
                    "upload", "done"},
            conclusion : {"none", "success", "failure", "cancelled"}, source : Nat,
            staged : Version \cup {"none"}, image : BOOLEAN, faults : SUBSET Gates]
Verification == [step : {"none", "checkout", "source", "check", "publish", "done"}, head : Nat,
                 outcome : {"none", "success", "failure"},
                 published : {"none", "verified", "diagnostic"}]

TypeOK == /\ commits \in Seq(Commit) /\ Tip >= 1
          /\ runs \in Seq(Run) /\ Len(runs) <= MaxRuns
          /\ verify \in [1..MaxRuns -> Verification]

\* A request, once added, stays.
HistoryOK(history) ==
    \A a, b \in 1..Len(history) : a <= b => history[a].requests \subseteq history[b].requests

\* The commit the run was started for is the one before the push and the request.
PinnedTree(run, history) ==
    \E q \in history[run.after].requests :
        /\ q.pins = run.before
        /\ history[run.after] = [history[run.before] EXCEPT !.requests = @ \cup {q}]

RunOK(run, history) ==
    /\ run.before \in 1..Len(history) /\ run.after \in 1..Len(history)
    /\ run.event = "push" => run.before < run.after
    /\ run.source \in {0, run.after}
    /\ run.source # 0 /\ run.kind = "kernel" => run.staged = history[run.after].rt
    /\ /\ run.event = "push"
       /\ run.step \in {"prepare", "config", "build", "verify"} \/ run.source # 0
       => PinnedTree(run, history)

\* The artifact of the run holds the sources of the commit the verifier checked out.
Current(v, run, history) == /\ v.head \in 1..Len(history)
                            /\ run.source = run.after /\ run.faults = {}
                            /\ run.staged = history[v.head].rt

VerifyOK(v, run, history) ==
    /\ v.step # "none" => run.step = "done" /\ run.kind = "kernel" /\ run.conclusion # "cancelled"
    /\ v.step \in {"source", "check", "publish"} => v.head \in 1..Len(history)
    /\ v.step \in {"check", "publish"} => run.source = run.after
    /\ v.step \in {"checkout", "source", "check"} => v.outcome = "none"
    /\ v.outcome = "success" => Current(v, run, history)
    /\ v.published # "none" => v.step = "done"
    /\ v.published = "verified" => v.outcome = "success"

\* A verification belongs to a run.
Idle == \A i \in 1..MaxRuns : i > Len(runs) \/ verify[i].step = "none" => verify[i] = NoVerify

IInv == /\ TypeOK /\ HistoryOK(commits) /\ Idle
        /\ \A i \in 1..Len(runs) : RunOK(runs[i], commits)
        /\ \A i \in 1..Len(runs) : VerifyOK(verify[i], runs[i], commits)

(***************************************************************************)
(* The history only grows                                                  *)
(***************************************************************************)
Extends(longer, history) == /\ Len(longer) >= Len(history)
                            /\ \A n \in 1..Len(history) : longer[n] = history[n]

\* What is said of a run, or of a verification, holds of any longer history.
LEMMA RunOfLonger ==
    ASSUME NEW history \in Seq(Commit), NEW longer \in Seq(Commit), Extends(longer, history),
           NEW run, RunOK(run, history)
    PROVE  RunOK(run, longer)
  <1>1. /\ Len(history) \in Nat /\ Len(longer) \in Nat
        /\ 1..Len(history) \subseteq 1..Len(longer)
    BY LenProperties DEF Extends
  <1>2. longer[run.before] = history[run.before] /\ longer[run.after] = history[run.after]
    BY DEF RunOK, Extends
  <1> QED
    BY <1>1, <1>2 DEF RunOK, PinnedTree

LEMMA VerifyOfLonger ==
    ASSUME NEW history \in Seq(Commit), NEW longer \in Seq(Commit), Extends(longer, history),
           NEW v, NEW run, VerifyOK(v, run, history)
    PROVE  VerifyOK(v, run, longer)
  <1>1. /\ Len(history) \in Nat /\ Len(longer) \in Nat
        /\ 1..Len(history) \subseteq 1..Len(longer)
    BY LenProperties DEF Extends
  <1>2. v.head \in 1..Len(history) => longer[v.head] = history[v.head]
    BY DEF Extends
  <1> QED
    BY <1>1, <1>2 DEF VerifyOK, Current

\* One commit on top of the head, which takes no request away.
LEMMA CommitExtends ==
    ASSUME NEW history \in Seq(Commit), Len(history) >= 1, HistoryOK(history),
           NEW c \in Commit, history[Len(history)].requests \subseteq c.requests
    PROVE  /\ Append(history, c) \in Seq(Commit)
           /\ Len(Append(history, c)) = Len(history) + 1
           /\ Append(history, c)[Len(history) + 1] = c
           /\ Extends(Append(history, c), history) /\ HistoryOK(Append(history, c))
  <1> DEFINE longer == Append(history, c)
  <1>1. Len(history) \in Nat
    BY LenProperties
  <1>2. /\ longer \in Seq(Commit) /\ Len(longer) = Len(history) + 1
        /\ \A n \in 1..Len(history) : longer[n] = history[n]
        /\ longer[Len(history) + 1] = c
    BY AppendProperties
  <1> HIDE DEF longer
  <1>3. Extends(longer, history)
    BY <1>1, <1>2 DEF Extends
  <1>4. HistoryOK(longer)
    <2> SUFFICES ASSUME NEW a \in 1..Len(longer), NEW b \in 1..Len(longer), a <= b
                 PROVE  longer[a].requests \subseteq longer[b].requests
      BY DEF HistoryOK
    <2>1. CASE b \in 1..Len(history)
      BY <1>1, <1>2, <2>1 DEF HistoryOK
    <2>2. CASE b = Len(history) + 1 /\ a \in 1..Len(history)
      <3>1. history[a].requests \subseteq history[Len(history)].requests
        BY <1>1, <2>2 DEF HistoryOK
      <3> QED
        BY <1>2, <2>2, <3>1
    <2>3. CASE b = Len(history) + 1 /\ a = Len(history) + 1
      BY <2>3
    <2> QED
      BY <1>1, <1>2, <2>1, <2>2, <2>3
  <1> QED
    BY <1>2, <1>3, <1>4 DEF longer

\* The same of the commits of one push.
LEMMA CommitsExtend ==
    ASSUME NEW history \in Seq(Commit), Len(history) >= 1, HistoryOK(history),
           NEW added \in Seq(Commit), HistoryOK(added),
           \A n \in 1..Len(added) : history[Len(history)].requests \subseteq added[n].requests
    PROVE  /\ history \o added \in Seq(Commit)
           /\ Len(history \o added) = Len(history) + Len(added)
           /\ Extends(history \o added, history) /\ HistoryOK(history \o added)
  <1> DEFINE longer == history \o added
  <1>1. Len(history) \in Nat /\ Len(added) \in Nat
    BY LenProperties
  <1>2. /\ longer \in Seq(Commit) /\ Len(longer) = Len(history) + Len(added)
        /\ \A n \in 1..Len(history) : longer[n] = history[n]
        /\ \A n \in 1..Len(longer) :
               n > Len(history) => /\ n - Len(history) \in 1..Len(added)
                                   /\ longer[n] = added[n - Len(history)]
    <2>1. /\ longer \in Seq(Commit) /\ Len(longer) = Len(history) + Len(added)
          /\ \A n \in 1..Len(longer) : longer[n] = IF n <= Len(history) THEN history[n]
                                                   ELSE added[n - Len(history)]
      BY ConcatProperties
    <2> HIDE DEF longer
    <2> QED
      BY <1>1, <2>1
  <1> HIDE DEF longer
  <1>3. Extends(longer, history)
    BY <1>1, <1>2 DEF Extends
  <1>4. HistoryOK(longer)
    <2> SUFFICES ASSUME NEW a \in 1..Len(longer), NEW b \in 1..Len(longer), a <= b
                 PROVE  longer[a].requests \subseteq longer[b].requests
      BY DEF HistoryOK
    <2>1. CASE a <= Len(history) /\ b <= Len(history)
      <3>1. a \in 1..Len(history) /\ b \in 1..Len(history)
        BY <1>1, <1>2, <2>1
      <3> QED
        BY <1>2, <3>1 DEF HistoryOK
    <2>2. CASE a <= Len(history) /\ b > Len(history)
      <3>1. a \in 1..Len(history) /\ Len(history) \in 1..Len(history)
        BY <1>1, <1>2, <2>2
      <3>2. history[a].requests \subseteq history[Len(history)].requests
        BY <2>2, <3>1 DEF HistoryOK
      <3>3. b - Len(history) \in 1..Len(added) /\ longer[b] = added[b - Len(history)]
        BY <1>2, <2>2
      <3>4. history[Len(history)].requests \subseteq added[b - Len(history)].requests
        BY <3>3
      <3> QED
        BY <1>2, <3>1, <3>2, <3>3, <3>4
    <2>3. CASE a > Len(history)
      <3>1. b > Len(history) /\ a - Len(history) <= b - Len(history)
        BY <1>1, <1>2, <2>3
      <3>2. /\ a - Len(history) \in 1..Len(added) /\ longer[a] = added[a - Len(history)]
            /\ b - Len(history) \in 1..Len(added) /\ longer[b] = added[b - Len(history)]
        BY <1>2, <2>3, <3>1
      <3> QED
        BY <3>1, <3>2 DEF HistoryOK
    <2> QED
      BY <1>1, <1>2, <2>1, <2>2, <2>3
  <1> QED
    BY <1>2, <1>3, <1>4 DEF longer

(***************************************************************************)
(* The resolvers                                                           *)
(***************************************************************************)
LEMMA WithRequest ==
    ASSUME NEW c \in Commit, NEW q
    PROVE  [c EXCEPT !.requests = @ \cup {q}] =
               [rt |-> c.rt, requests |-> c.requests \cup {q}]
  BY DEF Commit

LEMMA AddedIsRequest ==
    ASSUME NEW before, NEW after, NEW c \in Changes(before, after), c.status = "A"
    PROVE  \E q \in commits[after].requests \ commits[before].requests :
               c = [status |-> "A", request |-> q]
  BY DEF Changes

\* Whatever the kind, what resolves is one request added to the sources of the
\* commit it pins.
LEMMA ResolvedIsPinned ==
    ASSUME commits \in Seq(Commit), HistoryOK(commits), NEW run, run.kind \in Kind,
           run.before \in 1..Len(commits), run.after \in 1..Len(commits),
           run.before < run.after,
           NEW c \in Changes(run.before, run.after), c.status = "A",
           Resolves(run.kind, Changes(run.before, run.after), run.before, c.request)
    PROVE  PinnedTree(run, commits)
  <1> DEFINE q == c.request
             before == run.before
             after == run.after
  <1>1. /\ Changes(before, after) = {[status |-> "A", request |-> q]} /\ q.pins = before
    BY DEF Resolves, ResolveKernel, ResolveGki, ResolveRt, OneAdded, Pinned, Kind
  <1>2. PICK r \in commits[after].requests \ commits[before].requests :
            c = [status |-> "A", request |-> r]
    BY AddedIsRequest
  <1>3. q = r
    BY <1>2
  <1>4. \A r2 \in commits[after].requests \ commits[before].requests : r2 = q
    <2> SUFFICES ASSUME NEW r2 \in commits[after].requests \ commits[before].requests
                 PROVE  r2 = q
      OBVIOUS
    <2>1. [status |-> "A", request |-> r2] \in Changes(before, after)
      BY DEF Changes
    <2>2. [status |-> "A", request |-> r2] = [status |-> "A", request |-> q]
      BY <1>1, <2>1
    <2> QED
      BY <2>2
  <1>5. commits[before].rt = commits[after].rt
    <2> SUFFICES ASSUME commits[before].rt # commits[after].rt PROVE FALSE
      OBVIOUS
    <2>1. [status |-> "M", request |-> "sources"] \in Changes(before, after)
      BY DEF Changes
    <2>2. [status |-> "M", request |-> "sources"] = [status |-> "A", request |-> q]
      BY <1>1, <2>1
    <2> QED
      BY <2>2
  <1>6. /\ commits[before] \in Commit /\ commits[after] \in Commit
        /\ commits[before].requests \subseteq commits[after].requests
    BY ElementOfSeq DEF HistoryOK
  <1>7. commits[after].requests = commits[before].requests \cup {q}
    BY <1>2, <1>3, <1>4, <1>6
  <1>8. commits[after] = [commits[before] EXCEPT !.requests = @ \cup {q}]
    <2>1. commits[after] = [rt |-> commits[after].rt, requests |-> commits[after].requests]
      BY <1>6 DEF Commit
    <2> HIDE DEF q
    <2>2. [commits[before] EXCEPT !.requests = @ \cup {q}] =
              [rt |-> commits[before].rt, requests |-> commits[before].requests \cup {q}]
      BY <1>6, WithRequest
    <2> QED
      BY <1>5, <1>7, <2>1, <2>2
  <1>9. q \in commits[after].requests
    BY <1>2, <1>3
  <1> QED
    BY <1>1, <1>8, <1>9 DEF PinnedTree
(***************************************************************************)
(* main                                                                    *)
(***************************************************************************)
LEMMA InitInvariant == Init => IInv
  <1> SUFFICES ASSUME Init PROVE IInv
    OBVIOUS
  <1>1. PICK v \in Version : commits = <<[rt |-> v, requests |-> {}]>>
    BY DEF Init
  <1>2. commits \in Seq(Commit) /\ Len(commits) = 1 /\ runs \in Seq(Run) /\ Len(runs) = 0
    <2>1. [rt |-> v, requests |-> {}] \in Commit
      BY DEF Commit
    <2> HIDE DEF Commit, Run
    <2>2. commits \in Seq(Commit) /\ Len(commits) = 1
      BY <1>1, <2>1
    <2>3. runs \in Seq(Run) /\ Len(runs) = 0
      BY DEF Init
    <2> QED
      BY <2>2, <2>3
  <1>3. verify = [i \in 1..MaxRuns |-> NoVerify] /\ NoVerify \in Verification
    BY DEF Init, NoVerify, Verification
  <1>4. TypeOK
    BY <1>2, <1>3, BoundsAssumption DEF TypeOK, Tip
  <1>5. HistoryOK(commits)
    BY <1>2 DEF HistoryOK
  <1>6. Idle
    BY <1>3 DEF Idle
  <1> QED
    BY <1>2, <1>4, <1>5, <1>6 DEF IInv

\* A longer history leaves everything said of the runs standing.
LEMMA HistoryGrows ==
    ASSUME IInv, commits' \in Seq(Commit), Extends(commits', commits), HistoryOK(commits')
    PROVE  /\ Tip' >= 1
           /\ \A i \in 1..Len(runs) : RunOK(runs[i], commits')
           /\ \A i \in 1..Len(runs) : VerifyOK(verify[i], runs[i], commits')
  <1>1. commits \in Seq(Commit) /\ Tip >= 1 /\ Len(commits) \in Nat /\ Len(commits') \in Nat
    BY LenProperties DEF IInv, TypeOK
  <1>2. Tip' >= 1
    BY <1>1 DEF Tip, Extends
  <1>3. ASSUME NEW i \in 1..Len(runs) PROVE RunOK(runs[i], commits')
    BY <1>1, RunOfLonger DEF IInv
  <1>4. ASSUME NEW i \in 1..Len(runs) PROVE VerifyOK(verify[i], runs[i], commits')
    BY <1>1, VerifyOfLonger DEF IInv
  <1> QED
    BY <1>2, <1>3, <1>4

LEMMA PushSourcesStep ==
    ASSUME IInv, PushSources
    PROVE  IInv'
  <1>1. PICK v \in Version : commits' = Append(commits, [commits[Tip] EXCEPT !.rt = v])
    BY DEF PushSources
  <1> DEFINE c == [commits[Tip] EXCEPT !.rt = v]
  <1>2. commits \in Seq(Commit) /\ Tip >= 1 /\ Tip \in Nat /\ HistoryOK(commits)
    BY LenProperties DEF IInv, TypeOK, Tip
  <1>3. commits[Tip] \in Commit
    BY <1>2, ElementOfSeq DEF Tip
  <1>4. c \in Commit /\ commits[Tip].requests \subseteq c.requests
    BY <1>3 DEF Commit
  <1> HIDE DEF c
  <1>5. commits' \in Seq(Commit) /\ Extends(commits', commits) /\ HistoryOK(commits')
    BY <1>1, <1>2, <1>4, CommitExtends DEF Tip, c
  <1>6. UNCHANGED <<runs, verify>>
    BY DEF PushSources
  <1>7. TypeOK'
    BY <1>5, <1>6, HistoryGrows DEF IInv, TypeOK
  <1> QED
    BY <1>5, <1>6, <1>7, HistoryGrows DEF IInv, Idle

\* A new run is the last one; the runs it supersedes are over but for the steps
\* that always run.
LEMMA TriggerStep ==
    ASSUME IInv, commits' \in Seq(Commit), Extends(commits', commits), HistoryOK(commits'),
           Len(runs) < MaxRuns, UNCHANGED verify,
           NEW run \in Run, run.step = "validate", run.source = 0, RunOK(run, commits'),
           Trigger(run)
    PROVE  IInv'
  <1> DEFINE older == IF run.kind = "kernel" THEN [i \in DOMAIN runs |-> Superseded(runs[i])]
                                             ELSE runs
  <1>1. runs \in Seq(Run) /\ Len(runs) \in Nat /\ DOMAIN runs = 1..Len(runs)
    BY LenProperties DEF IInv, TypeOK
  <1>2. ASSUME NEW i \in 1..Len(runs)
        PROVE  /\ runs[i] \in Run /\ Superseded(runs[i]) \in Run
               /\ RunOK(Superseded(runs[i]), commits')
               /\ VerifyOK(verify[i], Superseded(runs[i]), commits')
    <2>1. runs[i] \in Run
      BY <1>1, ElementOfSeq
    <2>2. RunOK(runs[i], commits') /\ VerifyOK(verify[i], runs[i], commits')
      BY HistoryGrows
    <2>3. CASE runs[i].kind = "kernel" /\ Running(runs[i])
      <3>1. Superseded(runs[i]) =
                [runs[i] EXCEPT !.step = "upload", !.conclusion = "cancelled"]
        BY <2>3 DEF Superseded
      <3>2. Superseded(runs[i]) \in Run
        BY <2>1, <3>1 DEF Run
      <3>3. RunOK(Superseded(runs[i]), commits')
        <4> DEFINE over == Superseded(runs[i])
        <4>1. /\ over.step = "upload" /\ over.kind = runs[i].kind
              /\ over.event = runs[i].event /\ over.source = runs[i].source
              /\ over.before = runs[i].before /\ over.after = runs[i].after
              /\ over.staged = runs[i].staged
          BY <2>1, <3>1 DEF Run
        <4> HIDE DEF over
        <4>2. RunOK(over, commits')
          BY <2>2, <4>1 DEF RunOK, PinnedTree
        <4> QED
          BY <4>2 DEF over
      <3>4. VerifyOK(verify[i], Superseded(runs[i]), commits')
        BY <2>1, <2>2, <2>3, <3>1 DEF Run, Running, VerifyOK, Current
      <3> QED
        BY <2>1, <3>2, <3>3, <3>4
    <2>4. CASE ~(runs[i].kind = "kernel" /\ Running(runs[i]))
      BY <2>1, <2>2, <2>4 DEF Superseded
    <2> QED
      BY <2>3, <2>4
  <1>3. /\ older \in Seq(Run) /\ Len(older) = Len(runs)
        /\ \A i \in 1..Len(runs) : /\ RunOK(older[i], commits')
                                   /\ VerifyOK(verify[i], older[i], commits')
    <2>1. CASE run.kind = "kernel"
      <3>1. older = [i \in 1..Len(runs) |-> Superseded(runs[i])]
        BY <1>1, <2>1
      <3> HIDE DEF older
      <3>2. older \in Seq(Run) /\ Len(older) = Len(runs)
        BY <1>1, <1>2, <3>1
      <3> QED
        BY <1>2, <3>1, <3>2
    <2>2. CASE run.kind # "kernel"
      <3>1. older = runs
        BY <2>2
      <3> HIDE DEF older
      <3> QED
        BY <1>1, <3>1, HistoryGrows
    <2> QED
      BY <2>1, <2>2
  <1>4. runs' = Append(older, run)
    BY DEF Trigger
  <1> HIDE DEF older
  <1>5. /\ runs' \in Seq(Run) /\ Len(runs') = Len(runs) + 1
        /\ \A i \in 1..Len(runs) : runs'[i] = older[i]
        /\ runs'[Len(runs) + 1] = run
    BY <1>3, <1>4, AppendProperties
  <1>6. TypeOK' /\ Idle'
    BY <1>1, <1>5, HistoryGrows, BoundsAssumption DEF IInv, TypeOK, Idle
  <1>7. verify[Len(runs) + 1] = NoVerify
    BY <1>1, BoundsAssumption DEF IInv, Idle
  <1>8. VerifyOK(NoVerify, run, commits')
    BY DEF VerifyOK, NoVerify
  <1>9. \A i \in 1..Len(runs') : RunOK(runs'[i], commits')
    BY <1>1, <1>3, <1>5
  <1>10. \A i \in 1..Len(runs') : VerifyOK(verify'[i], runs'[i], commits')
    BY <1>1, <1>3, <1>5, <1>7, <1>8
  <1> QED
    BY <1>6, <1>9, <1>10 DEF IInv

LEMMA NewRunTyped ==
    ASSUME NEW kind \in Kinds, NEW event \in {"push", "dispatch"},
           NEW before \in Nat, NEW after \in Nat,
           NEW mode \in {"none", "preflight", "kernel"},
           NEW run, run = NewRun(kind, event, before, after, mode)
    PROVE  /\ run \in Run /\ run.step = "validate" /\ run.source = 0
           /\ run.before = before /\ run.after = after /\ run.event = event
  <1>1. NoRun \in Run /\ NoRun.source = 0
    BY DEF NoRun, Run, Kinds, Kind
  <1>2. run = [NoRun EXCEPT !.kind = kind, !.event = event, !.before = before,
                            !.after = after, !.mode = mode, !.step = "validate"]
    BY DEF NewRun
  <1> QED
    BY <1>1, <1>2 DEF Run

LEMMA DispatchStep ==
    ASSUME IInv, Dispatch
    PROVE  IInv'
  <1>1. PICK mode \in {"preflight", "kernel"} :
            Trigger(NewRun("kernel", "dispatch", Tip, Tip, mode))
    BY DEF Dispatch
  <1> DEFINE run == NewRun("kernel", "dispatch", Tip, Tip, mode)
  <1>2. commits \in Seq(Commit) /\ Tip \in Nat /\ Tip >= 1 /\ Len(commits) = Tip
    BY LenProperties DEF IInv, TypeOK, Tip
  <1>3. /\ run \in Run /\ run.step = "validate" /\ run.source = 0
        /\ run.before = Tip /\ run.after = Tip /\ run.event = "dispatch"
    BY <1>2 DEF NewRun, NoRun, Run, Kinds, Kind
  <1>4. RunOK(run, commits)
    <2> HIDE DEF run
    <2> QED
      BY <1>2, <1>3 DEF RunOK
  <1>5. commits' = commits /\ UNCHANGED verify /\ Len(runs) < MaxRuns /\ Trigger(run)
    BY <1>1 DEF Dispatch
  <1>6. Extends(commits, commits) /\ HistoryOK(commits)
    BY <1>2 DEF Extends, IInv
  <1> HIDE DEF run
  <1> QED
    BY <1>2, <1>3, <1>4, <1>5, <1>6, TriggerStep
LEMMA PushStep ==
    ASSUME IInv, Push
    PROVE  IInv'
  <1>n. PICK n \in 1..2 :
            \E rt \in [1..n -> Version] : \E q \in RequestsFor(Tip) :
                /\ commits' = commits \o [i \in 1..n |->
                      [rt |-> rt[i],
                       requests |-> commits[Tip].requests \cup IF i = n THEN {q} ELSE {}]]
                /\ Trigger(NewRun(q.kind, "push", Tip, Tip + n, "none"))
    BY DEF Push
  <1>1. PICK rt \in [1..n -> Version], q \in RequestsFor(Tip) :
            /\ commits' = commits \o [i \in 1..n |->
                  [rt |-> rt[i],
                   requests |-> commits[Tip].requests \cup IF i = n THEN {q} ELSE {}]]
            /\ Trigger(NewRun(q.kind, "push", Tip, Tip + n, "none"))
    BY <1>n
  <1> DEFINE added == [i \in 1..n |->
                          [rt |-> rt[i], requests |-> commits[Tip].requests \cup
                                                      IF i = n THEN {q} ELSE {}]]
             run   == NewRun(q.kind, "push", Tip, Tip + n, "none")
  <1>2. /\ commits \in Seq(Commit) /\ Tip \in Nat /\ Tip >= 1 /\ Len(commits) = Tip
        /\ HistoryOK(commits)
    BY LenProperties DEF IInv, TypeOK, Tip
  <1>3. commits[Tip] \in Commit /\ q \in Request
    BY <1>2, ElementOfSeq DEF Request
  <1>4. \A i \in 1..n : added[i] \in Commit
    BY <1>3 DEF Commit
  <1>5. added \in Seq(Commit) /\ Len(added) = n
    <2> HIDE DEF Commit
    <2> QED
      BY <1>4
  <1>6. HistoryOK(added)
    BY <1>5 DEF HistoryOK
  <1>7. \A i \in 1..n : commits[Len(commits)].requests \subseteq added[i].requests
    BY <1>2
  <1>8. commits' = commits \o added /\ Trigger(run)
    BY <1>1
  <1>9. /\ run \in Run /\ run.step = "validate" /\ run.source = 0
        /\ run.before = Tip /\ run.after = Tip + n /\ run.event = "push"
    <2>1. q.kind \in Kinds /\ Tip \in Nat /\ Tip + n \in Nat
      BY <1>2, <1>3 DEF Kinds
    <2>2. run = NewRun(q.kind, "push", Tip, Tip + n, "none")
      OBVIOUS
    <2> HIDE DEF run, added
    <2> QED
      BY <2>1, <2>2, NewRunTyped
  <1> HIDE DEF added, run
  <1>10. /\ commits' \in Seq(Commit) /\ Len(commits') = Tip + n
         /\ Extends(commits', commits) /\ HistoryOK(commits')
    BY <1>2, <1>5, <1>6, <1>7, <1>8, CommitsExtend
  <1>11. RunOK(run, commits')
    BY <1>2, <1>9, <1>10 DEF RunOK
  <1>12. UNCHANGED verify /\ Len(runs) < MaxRuns
    BY DEF Push
  <1> QED
    BY <1>8, <1>9, <1>10, <1>11, <1>12, TriggerStep

(***************************************************************************)
(* A run                                                                   *)
(***************************************************************************)
\* A run that is not done has no verification that could be disturbed.
LEMMA BecomesStep ==
    ASSUME IInv, NEW i \in 1..Len(runs), runs[i].step # "done",
           NEW run \in Run, RunOK(run, commits), Becomes(i, run)
    PROVE  IInv'
  <1>1. /\ runs \in Seq(Run) /\ Len(runs) \in Nat /\ UNCHANGED <<commits, verify>>
        /\ runs' = [runs EXCEPT ![i] = run]
    BY LenProperties DEF IInv, TypeOK, Becomes
  <1>2. /\ runs' \in Seq(Run) /\ Len(runs') = Len(runs) /\ runs'[i] = run
        /\ \A k \in 1..Len(runs) : k # i => runs'[k] = runs[k]
    BY <1>1, ExceptSeq
  <1>3. verify[i] = NoVerify
    <2>1. verify[i].step = "none"
      BY DEF IInv, VerifyOK
    <2>2. i \in 1..MaxRuns
      BY <1>1, BoundsAssumption DEF IInv, TypeOK
    <2> QED
      BY <2>1, <2>2 DEF IInv, Idle
  <1>4. VerifyOK(verify[i], run, commits)
    BY <1>3 DEF VerifyOK, NoVerify
  <1>5. TypeOK' /\ HistoryOK(commits)' /\ Idle'
    BY <1>1, <1>2 DEF IInv, TypeOK, HistoryOK, Idle, Tip
  <1> QED
    BY <1>1, <1>2, <1>4, <1>5 DEF IInv

LEMMA RunTyped ==
    ASSUME IInv, NEW i \in 1..Len(runs)
    PROVE  /\ runs[i] \in Run /\ RunOK(runs[i], commits)
           /\ VerifyOK(verify[i], runs[i], commits)
           /\ commits \in Seq(Commit) /\ commits[runs[i].after] \in Commit
           /\ commits[runs[i].before] \in Commit
           /\ i \in 1..MaxRuns /\ verify[i] \in Verification
           /\ Len(commits) \in Nat /\ Len(commits) >= 1
  <1>1. runs[i] \in Run /\ commits \in Seq(Commit) /\ RunOK(runs[i], commits)
    BY ElementOfSeq DEF IInv, TypeOK
  <1>2. commits[runs[i].after] \in Commit /\ commits[runs[i].before] \in Commit
    BY <1>1, ElementOfSeq DEF RunOK
  <1>3. i \in 1..MaxRuns
    BY BoundsAssumption, LenProperties DEF IInv, TypeOK
  <1> QED
    BY <1>1, <1>2, <1>3, LenProperties DEF IInv, TypeOK, Tip

\* What a step may do to a run without anything to show for it: end the work on
\* it, or go on where no request decides.
LEMMA RunMoves ==
    ASSUME IInv, NEW i \in 1..Len(runs), NEW run \in Run,
           run.before = runs[i].before, run.after = runs[i].after, run.event = runs[i].event,
           run.kind = runs[i].kind, run.source = runs[i].source, run.staged = runs[i].staged,
           run.event = "push" /\ run.step \in {"prepare", "config", "build", "verify"} =>
               PinnedTree(runs[i], commits)
    PROVE  RunOK(run, commits)
  <1>1. RunOK(runs[i], commits)
    BY RunTyped
  <1> QED
    BY <1>1 DEF RunOK, PinnedTree
LEMMA RunSteps ==
    ASSUME IInv, NEW i \in 1..Len(runs), RunStep(i), ~Complete(i)
    PROVE  IInv'
  <1> SUFFICES IInv'
    OBVIOUS
  <1>t. /\ runs[i] \in Run /\ RunOK(runs[i], commits) /\ commits[runs[i].after] \in Commit
        /\ commits \in Seq(Commit)
    BY RunTyped
  <1>f. Failed(runs[i]) \in Run /\ RunOK(Failed(runs[i]), commits)
    <2>1. /\ Failed(runs[i]) \in Run
          /\ Failed(runs[i]).before = runs[i].before /\ Failed(runs[i]).after = runs[i].after
          /\ Failed(runs[i]).event = runs[i].event /\ Failed(runs[i]).kind = runs[i].kind
          /\ Failed(runs[i]).source = runs[i].source
          /\ Failed(runs[i]).staged = runs[i].staged /\ Failed(runs[i]).step = "upload"
      BY <1>t DEF Failed, Run
    <2> QED
      BY <2>1, RunMoves
  <1>1. CASE Validate(i)
    <2> DEFINE run == [runs[i] EXCEPT
                          !.step = IF runs[i].event = "push" THEN "resolve" ELSE "prepare"]
    <2>1. /\ run \in Run
          /\ run.before = runs[i].before /\ run.after = runs[i].after
          /\ run.event = runs[i].event /\ run.kind = runs[i].kind
          /\ run.source = runs[i].source /\ run.staged = runs[i].staged
          /\ run.event = "push" => run.step = "resolve"
      BY <1>t DEF Run
    <2>2. Becomes(i, run) /\ runs[i].step # "done"
      BY <1>1 DEF Validate, At
    <2> HIDE DEF run
    <2>3. RunOK(run, commits)
      BY <2>1, RunMoves
    <2> QED
      BY <2>1, <2>2, <2>3, BecomesStep
  <1>2. CASE Resolve(i)
    <2> DEFINE changes == Changes(runs[i].before, runs[i].after)
               Resolved == \E c \in changes :
                              /\ c.status = "A"
                              /\ Resolves(runs[i].kind, changes, runs[i].before, c.request)
               chosen == CHOOSE c \in changes : c.status = "A"
               asked == chosen.request.mode
               run == [runs[i] EXCEPT !.step = "prepare", !.mode = asked]
    <2>1. /\ runs[i].kind \in Kind /\ runs[i].step # "done"
          /\ Becomes(i, IF Resolved THEN run ELSE Failed(runs[i]))
      BY <1>2 DEF Resolve, At
    <2>2. CASE Resolved
      <3>1. asked \in {q.mode : q \in Request}
        <4>1. chosen \in changes /\ chosen.status = "A"
          BY <2>2
        <4> HIDE DEF chosen
        <4>2. PICK q \in commits[runs[i].after].requests :
                  chosen = [status |-> "A", request |-> q]
          BY <4>1, AddedIsRequest
        <4>3. q \in Request
          BY <1>t DEF Commit
        <4>4. asked = q.mode
          BY <4>2
        <4> QED
          BY <4>3, <4>4
      <3> HIDE DEF asked
      <3>2. /\ run \in Run
            /\ run.before = runs[i].before /\ run.after = runs[i].after
            /\ run.event = runs[i].event /\ run.kind = runs[i].kind
            /\ run.source = runs[i].source /\ run.staged = runs[i].staged
        BY <1>t, <3>1 DEF Run
      <3>3. run.event = "push" => PinnedTree(runs[i], commits)
        <4> SUFFICES ASSUME run.event = "push" PROVE PinnedTree(runs[i], commits)
          OBVIOUS
        <4>1. PICK c \in changes :
                  /\ c.status = "A"
                  /\ Resolves(runs[i].kind, changes, runs[i].before, c.request)
          BY <2>2
        <4>2. /\ runs[i].before \in 1..Len(commits) /\ runs[i].after \in 1..Len(commits)
              /\ runs[i].before < runs[i].after
          BY <1>t, <3>2 DEF RunOK
        <4>3. HistoryOK(commits)
          BY DEF IInv
        <4> HIDE DEF run, chosen
        <4> QED
          BY <1>t, <2>1, <4>1, <4>2, <4>3, ResolvedIsPinned
      <3> HIDE DEF run
      <3>4. RunOK(run, commits)
        BY <3>2, <3>3, RunMoves
      <3> HIDE DEF Resolved
      <3> QED
        BY <2>1, <2>2, <3>2, <3>4, BecomesStep
    <2>3. CASE ~Resolved
      <3> HIDE DEF Resolved, run
      <3> QED
        BY <1>f, <2>1, <2>3, BecomesStep
    <2> QED
      BY <2>2, <2>3
  <1>3. CASE Prepare(i)
    <2> DEFINE run == [runs[i] EXCEPT !.step = "config", !.source = runs[i].after,
                                      !.staged = commits[runs[i].after].rt]
    <2>1. commits[runs[i].after].rt \in Version
      BY <1>t DEF Commit
    <2>2. /\ run \in Run
          /\ run.before = runs[i].before /\ run.after = runs[i].after
          /\ run.event = runs[i].event /\ run.kind = runs[i].kind
          /\ run.source = runs[i].after /\ run.staged = commits[runs[i].after].rt
      BY <1>t, <2>1 DEF Run
    <2>3. Becomes(i, run) /\ runs[i].step = "prepare"
      BY <1>3 DEF Prepare, At
    <2> HIDE DEF run
    <2>4. RunOK(run, commits)
      BY <1>t, <2>2, <2>3 DEF RunOK, PinnedTree
    <2> QED
      BY <2>2, <2>3, <2>4, BecomesStep
  <1>4. CASE ConfigGate(i)
    <2> DEFINE run == IF runs[i].mode = "kernel"
                      THEN [runs[i] EXCEPT !.step = "build"]
                      ELSE [runs[i] EXCEPT !.step = "upload", !.conclusion = "success"]
    <2>1. /\ run \in Run
          /\ run.before = runs[i].before /\ run.after = runs[i].after
          /\ run.event = runs[i].event /\ run.kind = runs[i].kind
          /\ run.source = runs[i].source /\ run.staged = runs[i].staged
      BY <1>t DEF Run
    <2>2. Becomes(i, run) /\ runs[i].step = "config"
      BY <1>4 DEF ConfigGate, At
    <2> HIDE DEF run
    <2>3. RunOK(run, commits)
      BY <1>t, <2>1, <2>2, RunMoves DEF RunOK
    <2> QED
      BY <2>1, <2>2, <2>3, BecomesStep
  <1>5. CASE Build(i)
    <2>1. PICK faults \in {{}} \cup {{g} : g \in Gates} :
              Becomes(i, [runs[i] EXCEPT !.step = "verify", !.faults = faults, !.image = TRUE])
      BY <1>5 DEF Build
    <2> DEFINE run == [runs[i] EXCEPT !.step = "verify", !.faults = faults, !.image = TRUE]
    <2>2. faults \in SUBSET Gates /\ runs[i].step = "build"
      BY <1>5 DEF Build, At
    <2>3. /\ run \in Run
          /\ run.before = runs[i].before /\ run.after = runs[i].after
          /\ run.event = runs[i].event /\ run.kind = runs[i].kind
          /\ run.source = runs[i].source /\ run.staged = runs[i].staged
      BY <1>t, <2>2 DEF Run
    <2> HIDE DEF run
    <2>4. RunOK(run, commits)
      BY <1>t, <2>2, <2>3, RunMoves DEF RunOK
    <2> QED
      BY <2>1, <2>2, <2>3, <2>4, BecomesStep DEF run
  <1>6. CASE VerifyInRun(i)
    <2> DEFINE run == [runs[i] EXCEPT !.step = "upload", !.conclusion = "success"]
    <2>1. /\ run \in Run /\ run.step = "upload"
          /\ run.before = runs[i].before /\ run.after = runs[i].after
          /\ run.event = runs[i].event /\ run.kind = runs[i].kind
          /\ run.source = runs[i].source /\ run.staged = runs[i].staged
      BY <1>t DEF Run
    <2>2. runs[i].step # "done" /\ (Becomes(i, run) \/ Becomes(i, Failed(runs[i])))
      BY <1>6 DEF VerifyInRun, At
    <2> HIDE DEF run
    <2>3. RunOK(run, commits)
      BY <2>1, RunMoves
    <2> QED
      BY <1>f, <2>1, <2>2, <2>3, BecomesStep
  <1>7. CASE Fail(i)
    BY <1>f, <1>7, BecomesStep DEF Fail
  <1>8. CASE BuildModules(i)
    <2> DEFINE run == [runs[i] EXCEPT !.step = "upload", !.source = runs[i].after,
                                      !.conclusion = "success"]
    <2>1. /\ run \in Run
          /\ run.before = runs[i].before /\ run.after = runs[i].after
          /\ run.event = runs[i].event /\ run.kind = runs[i].kind
          /\ run.source = runs[i].after /\ run.staged = runs[i].staged
      BY <1>t DEF Run
    <2>2. Becomes(i, run) /\ runs[i].step = "prepare" /\ runs[i].kind # "kernel"
      BY <1>8 DEF BuildModules, At
    <2> HIDE DEF run
    <2>3. RunOK(run, commits)
      BY <1>t, <2>1, <2>2 DEF RunOK, PinnedTree
    <2> QED
      BY <2>1, <2>2, <2>3, BecomesStep
  <1> QED
    BY <1>1, <1>2, <1>3, <1>4, <1>5, <1>6, <1>7, <1>8 DEF RunStep
\* The run is over; the verification it starts has checked nothing yet.
LEMMA CompleteStep ==
    ASSUME IInv, NEW i \in 1..Len(runs), Complete(i)
    PROVE  IInv'
  <1> DEFINE run == [runs[i] EXCEPT !.step = "done"]
  <1>t. /\ runs[i] \in Run /\ RunOK(runs[i], commits) /\ i \in 1..MaxRuns
        /\ VerifyOK(verify[i], runs[i], commits) /\ runs[i].step = "upload"
        /\ runs \in Seq(Run) /\ Len(runs) \in Nat /\ verify \in [1..MaxRuns -> Verification]
    BY RunTyped, LenProperties DEF Complete, IInv, TypeOK
  <1>1. /\ run \in Run /\ run.step = "done" /\ run.conclusion = runs[i].conclusion
        /\ run.before = runs[i].before /\ run.after = runs[i].after
        /\ run.event = runs[i].event /\ run.kind = runs[i].kind
        /\ run.source = runs[i].source /\ run.staged = runs[i].staged
    BY <1>t DEF Run
  <1>2. runs' = [runs EXCEPT ![i] = run] /\ commits' = commits
    BY DEF Complete
  <1> HIDE DEF run
  <1>3. /\ runs' \in Seq(Run) /\ Len(runs') = Len(runs) /\ runs'[i] = run
        /\ \A k \in 1..Len(runs) : k # i => runs'[k] = runs[k]
    BY <1>t, <1>1, <1>2, ExceptSeq
  <1>4. verify[i] = NoVerify
    BY <1>t DEF IInv, Idle, VerifyOK
  <1>5. RunOK(run, commits)
    BY <1>1, RunMoves
  <1>6. /\ verify' \in [1..MaxRuns -> Verification]
        /\ \A k \in 1..MaxRuns : k # i => verify'[k] = verify[k]
        /\ \/ verify'[i] = NoVerify
           \/ /\ run.kind = "kernel" /\ run.conclusion # "cancelled"
              /\ verify'[i].step = "checkout" /\ verify'[i].outcome = "none"
              /\ verify'[i].published = "none"
    <2>1. CASE runs[i].kind = "kernel" /\ runs[i].conclusion # "cancelled"
      <3>1. verify' = [verify EXCEPT ![i] = [NoVerify EXCEPT !.step = "checkout"]]
        BY <1>4, <2>1 DEF Complete
      <3>2. /\ [NoVerify EXCEPT !.step = "checkout"] \in Verification
            /\ [NoVerify EXCEPT !.step = "checkout"].step = "checkout"
            /\ [NoVerify EXCEPT !.step = "checkout"].outcome = "none"
            /\ [NoVerify EXCEPT !.step = "checkout"].published = "none"
        BY DEF NoVerify, Verification
      <3> QED
        BY <1>t, <1>1, <2>1, <3>1, <3>2
    <2>2. CASE ~(runs[i].kind = "kernel" /\ runs[i].conclusion # "cancelled")
      <3>1. verify' = verify
        BY <2>2 DEF Complete
      <3> QED
        BY <1>t, <1>4, <3>1
    <2> QED
      BY <2>1, <2>2
  <1>7. VerifyOK(verify'[i], run, commits)
    BY <1>1, <1>6 DEF VerifyOK, NoVerify
  <1>8. TypeOK' /\ HistoryOK(commits)'
    BY <1>2, <1>3, <1>6 DEF IInv, TypeOK, HistoryOK, Tip
  <1>9. Idle'
    BY <1>t, <1>3, <1>6 DEF IInv, Idle
  <1>10. \A k \in 1..Len(runs') : RunOK(runs'[k], commits')
    BY <1>2, <1>3, <1>5 DEF IInv
  <1>11. \A k \in 1..Len(runs') : VerifyOK(verify'[k], runs'[k], commits')
    <2> SUFFICES ASSUME NEW k \in 1..Len(runs) PROVE VerifyOK(verify'[k], runs'[k], commits)
      BY <1>2, <1>3
    <2>1. k \in 1..MaxRuns
      BY RunTyped
    <2> QED
      BY <1>3, <1>6, <1>7, <2>1 DEF IInv
  <1> QED
    BY <1>8, <1>9, <1>10, <1>11 DEF IInv

(***************************************************************************)
(* A verification                                                          *)
(***************************************************************************)
LEMMA VerifyBecomesStep ==
    ASSUME IInv, NEW i \in 1..Len(runs), NEW v \in Verification, v.step # "none",
           VerifyOK(v, runs[i], commits), VerifyBecomes(i, v)
    PROVE  IInv'
  <1>1. /\ verify' = [verify EXCEPT ![i] = v] /\ UNCHANGED <<commits, runs>>
        /\ i \in 1..MaxRuns /\ Len(runs) \in Nat
        /\ verify \in [1..MaxRuns -> Verification]
    BY RunTyped, LenProperties DEF VerifyBecomes, IInv, TypeOK
  <1>2. TypeOK' /\ HistoryOK(commits)' /\ Idle'
    BY <1>1 DEF IInv, TypeOK, HistoryOK, Idle, Tip
  <1>3. \A k \in 1..Len(runs) : VerifyOK(verify'[k], runs[k], commits)
    <2> SUFFICES ASSUME NEW k \in 1..Len(runs) PROVE VerifyOK(verify'[k], runs[k], commits)
      OBVIOUS
    <2>1. k \in 1..MaxRuns
      BY RunTyped
    <2> QED
      BY <1>1, <2>1 DEF IInv
  <1> QED
    BY <1>1, <1>2, <1>3 DEF IInv

LEMMA VerifySteps ==
    ASSUME IInv, NEW i \in 1..Len(runs), VerifyStep(i)
    PROVE  IInv'
  <1> SUFFICES IInv'
    OBVIOUS
  <1>t. /\ verify[i] \in Verification /\ VerifyOK(verify[i], runs[i], commits)
        /\ Tip \in 1..Len(commits) /\ Tip \in Nat
    BY RunTyped DEF Tip
  <1>1. CASE Checkout(i)
    <2> DEFINE v == [verify[i] EXCEPT !.step = "source", !.head = Tip]
    <2>1. /\ v \in Verification /\ v.step = "source" /\ v.head = Tip
          /\ v.outcome = verify[i].outcome /\ v.published = verify[i].published
      BY <1>t DEF Verification
    <2>2. VerifyBecomes(i, v) /\ verify[i].step = "checkout"
      BY <1>1 DEF Checkout
    <2> HIDE DEF v
    <2>3. VerifyOK(v, runs[i], commits)
      BY <1>t, <2>1, <2>2 DEF VerifyOK
    <2> QED
      BY <2>1, <2>2, <2>3, VerifyBecomesStep
  <1>2. CASE CheckSource(i)
    <2> DEFINE v == [verify[i] EXCEPT
                        !.step = IF runs[i].source = runs[i].after /\ runs[i].image
                                 THEN "check" ELSE "done"]
    <2>1. /\ v \in Verification /\ v.head = verify[i].head
          /\ v.step = IF runs[i].source = runs[i].after /\ runs[i].image
                      THEN "check" ELSE "done"
          /\ v.outcome = verify[i].outcome /\ v.published = verify[i].published
      BY <1>t DEF Verification
    <2>2. VerifyBecomes(i, v) /\ verify[i].step = "source"
      BY <1>2 DEF CheckSource
    <2> HIDE DEF v
    <2>3. VerifyOK(v, runs[i], commits)
      BY <1>t, <2>1, <2>2 DEF VerifyOK
    <2> QED
      BY <2>1, <2>2, <2>3, VerifyBecomesStep
  <1>3. CASE CheckBinary(i)
    <2>1. PICK outcome \in {"success", "failure"} :
              /\ outcome = "success" => Passes(runs[i], verify[i].head)
              /\ VerifyBecomes(i, [verify[i] EXCEPT !.step = "publish", !.outcome = outcome])
      BY <1>3 DEF CheckBinary
    <2> DEFINE v == [verify[i] EXCEPT !.step = "publish", !.outcome = outcome]
    <2>2. /\ v \in Verification /\ v.step = "publish" /\ v.head = verify[i].head
          /\ v.outcome = outcome /\ v.published = verify[i].published
      BY <1>t DEF Verification
    <2>3. VerifyBecomes(i, v) /\ verify[i].step = "check"
      BY <1>3, <2>1 DEF CheckBinary
    <2> HIDE DEF v
    <2>4. v.outcome = "success" => Current(v, runs[i], commits)
      BY <1>t, <2>1, <2>2, <2>3 DEF Passes, SourceCurrent, Current, VerifyOK
    <2>5. VerifyOK(v, runs[i], commits)
      BY <1>t, <2>2, <2>3, <2>4 DEF VerifyOK
    <2> QED
      BY <2>2, <2>3, <2>5, VerifyBecomesStep
  <1>4. CASE Publish(i)
    <2> DEFINE v == [verify[i] EXCEPT !.step = "done",
                        !.published = IF verify[i].outcome = "success" THEN "verified"
                                                                      ELSE "diagnostic"]
    <2>1. /\ v \in Verification /\ v.step = "done" /\ v.head = verify[i].head
          /\ v.outcome = verify[i].outcome
          /\ v.published = IF verify[i].outcome = "success" THEN "verified" ELSE "diagnostic"
      BY <1>t DEF Verification
    <2>2. VerifyBecomes(i, v) /\ verify[i].step = "publish"
      BY <1>4 DEF Publish
    <2> HIDE DEF v
    <2>3. VerifyOK(v, runs[i], commits)
      BY <1>t, <2>1, <2>2 DEF VerifyOK, Current
    <2> QED
      BY <2>1, <2>2, <2>3, VerifyBecomesStep
  <1> QED
    BY <1>1, <1>2, <1>3, <1>4 DEF VerifyStep

LEMMA StepKeepsInvariant == IInv /\ [Next]_vars => IInv'
  <1> SUFFICES ASSUME IInv, [Next]_vars PROVE IInv'
    OBVIOUS
  <1>1. CASE Push \/ PushSources \/ Dispatch
    BY <1>1, PushStep, PushSourcesStep, DispatchStep
  <1>2. CASE \E i \in 1..Len(runs) : RunStep(i) \/ VerifyStep(i)
    BY <1>2, RunSteps, CompleteStep, VerifySteps
  <1>3. CASE UNCHANGED vars
    BY <1>3 DEF vars, IInv, TypeOK, HistoryOK, Idle, Tip
  <1> QED
    BY <1>1, <1>2, <1>3 DEF Next

(***************************************************************************)
(* What holds for every history, request and number of runs                *)
(***************************************************************************)
\* IInv holds in every reachable state.
THEOREM Invariant == Spec => []IInv
  <1> QED
    BY InitInvariant, StepKeepsInvariant, PTL DEF Spec

\* Every variable keeps its type.
THEOREM TypeCorrect == Spec => []TypeOK
  <1>1. IInv => TypeOK
    BY DEF IInv
  <1> QED
    BY <1>1, Invariant, PTL

\* What is built on request is the commit the request pins with the request
\* added, and nothing else (resolve_*_request.py).
THEOREM BuildsWhatIsPinned == Spec => []BuiltTreeIsPinned
  <1>1. IInv => BuiltTreeIsPinned
    <2> SUFFICES ASSUME IInv, NEW i \in 1..Len(runs),
                        runs[i].event = "push" /\ runs[i].source # 0
                 PROVE  \E q \in commits[runs[i].after].requests :
                            /\ q.pins \in 1..(runs[i].after - 1)
                            /\ commits[runs[i].after] =
                                 [commits[q.pins] EXCEPT !.requests = @ \cup {q}]
      BY DEF BuiltTreeIsPinned
    <2>1. /\ RunOK(runs[i], commits) /\ Len(commits) \in Nat
      BY RunTyped
    <2>2. PICK q \in commits[runs[i].after].requests :
              /\ q.pins = runs[i].before
              /\ commits[runs[i].after] =
                     [commits[runs[i].before] EXCEPT !.requests = @ \cup {q}]
      BY <2>1 DEF RunOK, PinnedTree
    <2>3. runs[i].before \in 1..(runs[i].after - 1)
      BY <2>1 DEF RunOK
    <2> QED
      BY <2>2, <2>3
  <1> QED
    BY <1>1, Invariant, PTL

\* What is published as verified passed every gate, was not cancelled, comes from
\* the commit of its run and holds the sources main had when it was verified
\* (verify_gki_kernel.py:52-95, rt-taipei-kernel-verify.yml).
THEOREM PublishesWhatIsCurrent == Spec => []VerifiedArtifactIsCurrent
  <1>1. IInv => VerifiedArtifactIsCurrent
    <2> SUFFICES ASSUME IInv, NEW i \in 1..Len(runs), verify[i].published = "verified"
                 PROVE  /\ runs[i].conclusion # "cancelled" /\ runs[i].faults = {}
                        /\ runs[i].source = runs[i].after
                        /\ commits[runs[i].source].rt = commits[verify[i].head].rt
      BY DEF VerifiedArtifactIsCurrent
    <2>1. RunOK(runs[i], commits) /\ VerifyOK(verify[i], runs[i], commits)
      BY RunTyped
    <2>2. /\ Current(verify[i], runs[i], commits) /\ runs[i].kind = "kernel"
          /\ runs[i].conclusion # "cancelled"
      BY <2>1 DEF VerifyOK
    <2>3. runs[i].staged = commits[runs[i].after].rt
      BY <2>1, <2>2 DEF RunOK, Current
    <2> QED
      BY <2>2, <2>3 DEF Current
  <1> QED
    BY <1>1, Invariant, PTL
================================================================================
