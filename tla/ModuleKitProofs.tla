---------------------------- MODULE ModuleKitProofs ----------------------------
(***************************************************************************)
(* Proofs about ModuleKit, for every set of symbols, every kernel and      *)
(* every outcome of a build: what is passed loads, and what is certain of  *)
(* a kit that is offered as a candidate.                                   *)
(***************************************************************************)
EXTENDS ModuleKit, TLAPS

(***************************************************************************)
(* The checks                                                              *)
(***************************************************************************)
\* What rt612.inspect_module accepts the module loader of that kernel takes.
THEOREM InspectedLoads ==
    ASSUME NEW m, NEW k, NEW name, Inspect(m, k, name)
    PROVE  Loads(m, k)
<1>1. m.elf /\ m.magic = Vermagic(k) /\ ~m.depends
  BY DEF Inspect, Identified
<1>2. SameMagic(m, k)
  <2>1. m.magic.tokens = Tokens(k.config)
    BY <1>1 DEF Vermagic
  <2> QED BY <1>1, <2>1 DEF SameMagic
<1>3. ASSUME Has(k, "MODVERSIONS")
      PROVE  /\ Covered(Versions(m)) # {}
             /\ \A s \in m.imports \cap Covered(Versions(m)) : Versions(m)[s] = k.crc[s]
  BY <1>3 DEF Inspect, Versioned, Matches
<1>4. Resolves(m, k)
  BY <1>1, <1>3 DEF Resolves, Inspect
<1> QED BY <1>1, <1>2, <1>4 DEF Loads, Inspect, SignedAsRequired

\* What verify_rt_diag.py leaves open: a module none of its checks finds a fault
\* in loads if its table also lists every import, which verify_module_crc.sh
\* does not ask, if no second table says otherwise, and if it is signed where
\* that is forced (verify_rt_diag.py:90-138, verify_module_crc.sh).
THEOREM DiagnosedLoads ==
    ASSUME NEW m, NEW k, NEW name,
           \A check \in DiagChecks : ~DiagFinds(check, m, k, name),
           m.imports \subseteq Covered(m.basic), TablesAgree(m), SignedAsRequired(m, k)
    PROVE  Loads(m, k)
<1>1. m.elf /\ m.magic = Vermagic(k) /\ ~m.depends /\ CrcScript(m, k)
  <2>1. /\ ~DiagFinds("elf", m, k, name) /\ ~DiagFinds("config_and_release", m, k, name)
        /\ ~DiagFinds("dependencies", m, k, name) /\ ~DiagFinds("crc", m, k, name)
    BY DEF DiagChecks
  <2> QED BY <2>1 DEF DiagFinds
<1>2. Covered(m.basic) # {} /\ \A s \in Covered(m.basic) : m.basic[s] = k.crc[s]
  BY <1>1 DEF CrcScript, Matches
<1>3. Versions(m) = m.basic
  BY <1>2 DEF Versions, TablesAgree
<1>4. m.imports \subseteq Exported(k)
  BY <1>2 DEF Covered, Exported
<1>5. SameMagic(m, k)
  BY <1>1 DEF SameMagic, Vermagic
<1>6. Resolves(m, k)
  BY <1>1, <1>2, <1>3, <1>4 DEF Resolves
<1> QED BY <1>1, <1>5, <1>6 DEF Loads, SignedAsRequired

\* What verify_gki_rt.py accepts loads as well: it inspects first.
LEMMA GkiLoads ==
    ASSUME NEW m, NEW k, NEW name, GkiAccepts(m, k, name)
    PROVE  Loads(m, k)
  BY InspectedLoads DEF GkiAccepts

Inspecting == tool \in {"build", "gki", "bundle"}

AllAccepted == \A n \in Names : Accepts(n)

LEMMA AcceptedLoads ==
    ASSUME Inspecting, AllAccepted
    PROVE  \A n \in Names : Loads(made[n], target)
<1> TAKE n \in Names
<1>1. Accepts(n)
  BY DEF AllAccepted
<1>2. CASE tool = "gki"
  <2>1. GkiAccepts(made[n], target, n)
    BY <1>1, <1>2 DEF Accepts
  <2> QED BY <2>1, GkiLoads
<1>3. CASE tool \in {"build", "bundle"}
  <2>1. Inspect(made[n], target, n)
    BY <1>1, <1>3 DEF Accepts
  <2> QED BY <2>1, InspectedLoads
<1> QED BY <1>2, <1>3 DEF Inspecting

(***************************************************************************)
(* Which modules have been accepted                                        *)
(***************************************************************************)
\* Where each program can be.
Placed == /\ tool \in Tools
          /\ pc \in {"preflight", "make", "record"} => tool \in {"build", "gki"}
          /\ pc \in {"archive", "open", "close"} => tool = "bundle"
          /\ pc = "inputs" => tool = "gki"
          /\ pc \in {"preflight", "make"} => tool = "build"
          /\ pc = "inspect" => Inspecting
          /\ pc \in {"checks", "report"} => tool = "diag"
          /\ pc \in {"preflight", "make", "inputs", "archive"} => at = 1

\* The loop has accepted the modules before the one it is at; after it, both.
Inspected == /\ pc = "inspect" => at \in {1, 2} /\ (at = 2 => Accepts(Module(1)))
             /\ pc \in {"record", "open", "close"} => AllAccepted
             /\ verdict = "passed" /\ tool \in {"build", "gki"} => AllAccepted

AcceptInv == Placed /\ Inspected

LEMMA BothAccepted ==
    ASSUME tool \in Tools, Accepts(Module(1)), Accepts(Module(2))
    PROVE  AllAccepted
<1>1. {Module(1), Module(2)} = Names
  BY DEF Module, Order, Names
<1> QED BY <1>1 DEF AllAccepted

LEMMA AcceptedInit == Init => AcceptInv
<1> SUFFICES ASSUME Init PROVE AcceptInv
  OBVIOUS
<1>1. pc = First[tool] /\ tool \in Tools /\ at = 1 /\ verdict = "none"
  BY DEF Init
<1>2. /\ tool = "build" => pc = "preflight"
      /\ tool = "gki" => pc = "inputs"
      /\ tool = "diag" => pc = "checks"
      /\ tool = "bundle" => pc = "archive"
  BY <1>1 DEF First
<1> QED BY <1>1, <1>2 DEF AcceptInv, Placed, Inspected, Tools

LEMMA SameInputs ==
    ASSUME inputs' = inputs
    PROVE  /\ tool' = tool /\ Inspecting' = Inspecting /\ AllAccepted' = AllAccepted
           /\ Accepts(Module(1))' = Accepts(Module(1))
  BY DEF inputs, Inspecting, AllAccepted, Accepts, Module

LEMMA AcceptedStep == AcceptInv /\ [Next]_vars => AcceptInv'
<1> SUFFICES ASSUME AcceptInv, [Next]_vars PROVE AcceptInv'
  OBVIOUS
<1>0. inputs' = inputs
  BY DEF Next, vars, Preflight, Make, InspectModule, RejectModule, RecordPass, GkiInputs,
         RunChecks, WriteDiag, CheckArchive, OpenFile, CloseFile, Die, Damage, CheckKernel
<1> USE DEF AcceptInv, Placed, Inspected
<1>s. /\ tool' = tool /\ Inspecting' = Inspecting /\ AllAccepted' = AllAccepted
      /\ Accepts(Module(1))' = Accepts(Module(1))
  BY <1>0, SameInputs
<1>1. CASE Preflight
  BY <1>1, <1>s DEF Preflight
<1>2. CASE Make
  BY <1>2, <1>s DEF Make, Record, Inspecting
<1>3. CASE InspectModule
  <2>1. at \in {1, 2} /\ Accepts(Module(at)) /\ verdict' = verdict
    BY <1>3 DEF InspectModule
  <2>2. CASE at = 1
    <3>1. at' = 2 /\ pc' = "inspect" /\ Accepts(Module(1))
      BY <1>3, <2>1, <2>2 DEF InspectModule
    <3> QED BY <1>s, <1>3, <2>1, <3>1 DEF InspectModule
  <2>3. CASE at = 2
    <3>1. AllAccepted
      BY <1>3, <2>1, <2>3, BothAccepted DEF InspectModule
    <3>2. pc' = IF tool = "bundle" THEN "open" ELSE "record"
      BY <1>3, <2>3 DEF InspectModule
    <3> QED BY <1>s, <1>3, <2>1, <3>1, <3>2 DEF InspectModule, Inspecting
  <2> QED BY <2>1, <2>2, <2>3
<1>4. CASE RejectModule
  BY <1>4, <1>s DEF RejectModule, Record
<1>5. CASE RecordPass
  BY <1>5, <1>s DEF RecordPass, Record
<1>6. CASE GkiInputs
  BY <1>6, <1>s DEF GkiInputs, Record, Inspecting
<1>7. CASE RunChecks
  BY <1>7, <1>s DEF RunChecks
<1>8. CASE WriteDiag
  BY <1>8, <1>s DEF WriteDiag, Record
<1>9. CASE CheckArchive
  BY <1>9, <1>s DEF CheckArchive, Inspecting
<1>10. CASE OpenFile
  BY <1>10, <1>s DEF OpenFile
<1>11. CASE CloseFile
  BY <1>11, <1>s DEF CloseFile
<1>12. CASE Die \/ Damage \/ CheckKernel
  BY <1>12, <1>s DEF Die, Damage, CheckKernel, kit
<1>13. CASE UNCHANGED vars
  BY <1>13, <1>s DEF vars
<1> QED BY <1>1, <1>2, <1>3, <1>4, <1>5, <1>6, <1>7, <1>8, <1>9, <1>10, <1>11, <1>12, <1>13
        DEF Next

\* In every reachable state: a module is on record as passed, and a file of a
\* kit is being written, only after both modules have been accepted
\* (rt612.py:205-284, verify_gki_rt.py:52-109).
THEOREM AcceptedFirst == Spec => []AcceptInv
  BY AcceptedInit, AcceptedStep, PTL DEF Spec

\* What a verification file calls passed the kernel's loader takes
\* (rt612.py:208-213, verify_gki_rt.py:58-69).
THEOREM Passed == Spec => []PassedLoads
<1>1. AcceptInv => PassedLoads
  <2> SUFFICES ASSUME AcceptInv, verdict = "passed", tool \in {"build", "gki"}
               PROVE  \A n \in Names : Loads(made[n], target)
    BY DEF PassedLoads
  <2>1. Inspecting /\ AllAccepted
    BY DEF AcceptInv, Inspected, Inspecting
  <2> QED BY <2>1, AcceptedLoads
<1> QED BY <1>1, AcceptedFirst, PTL

(***************************************************************************)
(* The kit that bundle writes                                              *)
(***************************************************************************)
Position == 1..12

\* What SHA256SUMS lists, once it is opened.
Listed == {KitOrder[i] : i \in 1..10}

\* Where a program has no file of a kit.
Unwritten == {"preflight", "inputs", "archive", "make", "inspect"}

\* The files before the one being written are whole, those after it are not
\* there.
Written == /\ out \in [KitFiles -> {"none", "torn", "whole"}]
           /\ pc \in Unwritten => \A f \in KitFiles : out[f] = "none"
           /\ pc \in {"open", "close"} =>
                 /\ at \in Position
                 /\ \A i \in Position : /\ i < at => out[KitOrder[i]] = "whole"
                                        /\ i > at => out[KitOrder[i]] = "none"
           /\ pc = "open" => out[KitOrder[at]] = "none"
           /\ pc = "close" => out[KitOrder[at]] = "torn"

\* Whoever finds a file of the kit knows that the modules were accepted, and
\* whoever finds a whole list of checksums knows what it covers, killed or
\* damaged as the rest of the kit may be.
Covering == /\ (\E f \in KitFiles : out[f] # "none") => tool = "bundle" /\ AllAccepted
            /\ out["SHA256SUMS"] = "whole" => sums = Listed

Answered == /\ answer.state # "none" => pc = "end"
            /\ answer.state = "candidate" =>
                  /\ \E f \in KitFiles : out[f] # "none"
                  /\ out["kernel.release"] = "whole" => answer.release = target.release
                  /\ out["SHA256SUMS"] = "whole" =>
                        \A f \in KitFiles \ {"package"} : out[f] = "whole"

KitInv == Written /\ Covering /\ Answered

LEMMA KitPositions ==
    /\ Len(KitOrder) = 12
    /\ \A i \in Position : KitOrder[i] \in KitFiles
    /\ \A f \in KitFiles : \E i \in Position : f = KitOrder[i]
    /\ \A i, j \in Position : KitOrder[i] = KitOrder[j] => i = j
    /\ KitOrder[11] = "SHA256SUMS" /\ KitOrder[12] = "package"
    /\ {"kernel.release", "architecture", "device.model", "SHA256SUMS", "package"}
          \subseteq KitFiles
<1>1. Len(KitOrder) = 12
  BY DEF KitOrder
<1>2. KitFiles = {KitOrder[i] : i \in Position}
  BY <1>1 DEF KitFiles, Position
<1>3. \A i, j \in Position : KitOrder[i] = KitOrder[j] => i = j
  BY SMTT(60) DEF KitOrder, Position
<1>4. /\ KitOrder[5] = "kernel.release" /\ KitOrder[6] = "architecture"
      /\ KitOrder[7] = "device.model"
      /\ KitOrder[11] = "SHA256SUMS" /\ KitOrder[12] = "package"
  BY DEF KitOrder
<1>5. {5, 6, 7, 11, 12} \subseteq Position
  BY DEF Position
<1> QED BY <1>1, <1>2, <1>3, <1>4, <1>5

\* The checksums and the files they list are the whole of a target.
LEMMA ListedIsTarget == KitFiles \ {"package"} = Listed \cup {"SHA256SUMS"}
<1>1. 1..10 \subseteq Position /\ Position = 1..10 \cup {11, 12} /\ 11 \notin 1..10 /\ 12 \notin 1..11
  BY DEF Position
<1> QED BY <1>1, KitPositions DEF Listed

LEMMA KitInit == Init => KitInv
<1> SUFFICES ASSUME Init PROVE KitInv
  OBVIOUS
<1>1. out = [f \in KitFiles |-> "none"] /\ answer.state = "none" /\ pc = First[tool] /\ tool \in Tools
  BY DEF Init
<1>2. pc \notin {"open", "close"}
  BY <1>1 DEF First, Tools
<1> QED BY <1>1, <1>2, KitPositions DEF KitInv, Written, Covering, Answered

\* A candidate has passed every comparison of check_kernel.sh.
LEMMA CandidateMatches ==
    ASSUME NEW family \in BOOLEAN, NEW arm64 \in BOOLEAN, NEW matched \in BOOLEAN,
           NEW sound \in BOOLEAN, NEW same \in BOOLEAN,
           StateFor(family, arm64, matched, sound, same) = "candidate"
    PROVE  matched /\ sound
<1>1. CASE ~family
  BY <1>1 DEF StateFor
<1>2. CASE family /\ ~arm64
  BY <1>2 DEF StateFor
<1>3. CASE family /\ arm64 /\ ~matched
  BY <1>3 DEF StateFor
<1>4. CASE family /\ arm64 /\ matched /\ ~sound
  BY <1>4 DEF StateFor
<1>5. CASE family /\ arm64 /\ matched /\ sound
  BY <1>5
<1> QED BY <1>1, <1>2, <1>3, <1>4, <1>5

\* What a comparison and a check of the list have found.
LEMMA ComparesOnlyWhatIsThere ==
    ASSUME NEW f \in KitFiles, out[f] \in {"none", "torn", "whole"}, NEW equal \in BOOLEAN,
           NEW found \in Compares(f, equal)
    PROVE  /\ found \in BOOLEAN
           /\ found => out[f] # "none"
           /\ found /\ out[f] = "whole" => equal
<1>1. CASE out[f] = "whole"
  BY <1>1 DEF Compares
<1>2. CASE out[f] = "torn"
  BY <1>2 DEF Compares
<1>3. CASE out[f] = "none"
  BY <1>3 DEF Compares
<1> QED BY <1>1, <1>2, <1>3

LEMMA SumsCheckListed ==
    ASSUME NEW sound \in SumsCheck
    PROVE  /\ sound \in BOOLEAN
           /\ sound => \A f \in sums : out[f] = "whole"
  BY DEF SumsCheck

LEMMA KitStep == AcceptInv /\ KitInv /\ [Next]_vars => KitInv'
<1> SUFFICES ASSUME AcceptInv, KitInv, [Next]_vars PROVE KitInv'
  OBVIOUS
<1>0. inputs' = inputs
  BY DEF Next, vars, Preflight, Make, InspectModule, RejectModule, RecordPass, GkiInputs,
         RunChecks, WriteDiag, CheckArchive, OpenFile, CloseFile, Die, Damage, CheckKernel
<1>s. tool' = tool /\ target' = target /\ AllAccepted' = AllAccepted
  BY <1>0, SameInputs DEF inputs
<1>i. Written /\ Covering /\ Answered
  BY DEF KitInv
<1>k. ASSUME kit' = kit, pc # "end", pc' \in Unwritten => pc \in Unwritten,
             pc' \notin {"open", "close"}
      PROVE  KitInv'
  BY <1>k, <1>s, <1>i DEF kit, KitInv, Written, Covering, Answered
<1>1. CASE Preflight \/ Make \/ RejectModule \/ RecordPass
  BY <1>1, <1>k DEF Preflight, Make, RejectModule, RecordPass, Record, Unwritten
<1>2. CASE GkiInputs \/ RunChecks \/ WriteDiag \/ CheckArchive \/ Die
  BY <1>2, <1>k DEF GkiInputs, RunChecks, WriteDiag, CheckArchive, Die, Record, Unwritten
<1>3. CASE InspectModule
  <2>1. /\ pc = "inspect" /\ kit' = kit
        /\ pc' = "inspect" \/ pc' = "record" \/ (pc' = "open" /\ at' = 1)
    BY <1>3 DEF InspectModule
  <2>2. \A f \in KitFiles : out[f] = "none"
    BY <2>1, <1>i DEF Written, Unwritten
  <2>3. 1 \in Position /\ \A i \in Position : ~(i < 1)
    BY DEF Position
  <2> QED BY <1>s, <1>i, <2>1, <2>2, <2>3, KitPositions
          DEF kit, KitInv, Written, Covering, Answered, Unwritten
<1>4. CASE OpenFile
  <2> DEFINE file == KitOrder[at]
  <2>1. /\ pc = "open" /\ pc' = "close" /\ at' = at /\ answer' = answer
        /\ out' = [out EXCEPT ![file] = "torn"]
    BY <1>4 DEF OpenFile
  <2>2. /\ at \in Position /\ file \in KitFiles
        /\ \A i \in Position : i # at => KitOrder[i] # file /\ out'[KitOrder[i]] = out[KitOrder[i]]
    BY <2>1, <1>i, KitPositions DEF Written
  <2>3. tool = "bundle" /\ AllAccepted /\ answer.state = "none"
    <3>1. pc = "open" /\ AcceptInv /\ Answered
      BY <2>1, <1>i
    <3> QED BY <3>1 DEF AcceptInv, Placed, Inspected, Answered
  <2>4. Written'
    <3>1. \A i \in Position : i < at \/ i > at => i # at
      BY <2>2 DEF Position
    <3> QED BY <1>i, <2>1, <2>2, <3>1 DEF Written, Unwritten
  <2>5. out'["SHA256SUMS"] = "whole" => sums' = Listed
    <3>1. CASE file = "SHA256SUMS"
      BY <3>1, <1>i, <2>1, <2>2 DEF Written
    <3>2. CASE file # "SHA256SUMS"
      BY <1>4, <3>2, <1>i, <2>1, <2>2, KitPositions DEF OpenFile, Covering, Written
    <3> QED BY <3>1, <3>2
  <2> QED BY <1>s, <2>1, <2>3, <2>4, <2>5 DEF KitInv, Covering, Answered
<1>5. CASE CloseFile
  <2> DEFINE file == KitOrder[at]
  <2>1. /\ pc = "close" /\ answer' = answer
        /\ sums' = IF file = "SHA256SUMS" THEN WholeFiles ELSE sums
        /\ out' = [out EXCEPT ![file] = "whole"]
        /\ IF at < 12 THEN at' = at + 1 /\ pc' = "open" ELSE at' = 1 /\ pc' = "end"
    BY <1>5, KitPositions DEF CloseFile
  <2>2. /\ at \in Position /\ file \in KitFiles
        /\ \A i \in Position : i # at => KitOrder[i] # file /\ out'[KitOrder[i]] = out[KitOrder[i]]
    BY <2>1, <1>i, KitPositions DEF Written
  <2>3. tool = "bundle" /\ AllAccepted /\ answer.state = "none"
    <3>1. pc = "close" /\ AcceptInv /\ Answered
      BY <2>1, <1>i
    <3> QED BY <3>1 DEF AcceptInv, Placed, Inspected, Answered
  <2>4. Written'
    <3>1. CASE at < 12
      <4>1. at + 1 \in Position /\ \A i \in Position : /\ i < at + 1 <=> i < at \/ i = at
                                                       /\ i < at \/ i > at => i # at
                                                       /\ i > at + 1 => i > at
        BY <2>2, <3>1 DEF Position
      <4>2. at' = at + 1 /\ pc' = "open" /\ at + 1 > at /\ at + 1 # at
        BY <2>1, <2>2, <3>1 DEF Position
      <4>3. out'[file] = "whole" /\ out' \in [KitFiles -> {"none", "torn", "whole"}]
        BY <1>i, <2>1, <2>2 DEF Written
      <4>4. \A i \in Position : /\ i < at => out[KitOrder[i]] = "whole"
                                /\ i > at => out[KitOrder[i]] = "none"
        BY <1>i, <2>1 DEF Written
      <4> QED BY <2>2, <4>1, <4>2, <4>3, <4>4 DEF Written, Unwritten
    <3>2. CASE ~(at < 12)
      BY <1>i, <2>1, <2>2, <3>2 DEF Written, Unwritten
    <3> QED BY <3>1, <3>2
  <2>5. out'["SHA256SUMS"] = "whole" => sums' = Listed
    <3>1. CASE file = "SHA256SUMS"
      <4>1. at = 11
        BY <2>2, <3>1, KitPositions DEF Position
      <4>2. \A i \in Position : out[KitOrder[i]] = "whole" <=> i \in 1..10
        BY <1>i, <2>1, <4>1 DEF Written, Position
      <4> QED BY <2>1, <3>1, <4>2, KitPositions DEF Listed, Position, WholeFiles
    <3>2. CASE file # "SHA256SUMS"
      BY <3>2, <1>i, <2>1, <2>2, KitPositions DEF Covering, Written
    <3> QED BY <3>1, <3>2
  <2> QED BY <1>s, <2>1, <2>3, <2>4, <2>5 DEF KitInv, Covering, Answered
<1>6. CASE Damage
  <2>1. pc = "end" /\ pc' = "end" /\ answer.state = "none" /\ answer' = answer
    BY <1>6 DEF Damage
  <2>2. PICK f \in KitFiles, to \in {"none", "torn"} :
          /\ out[f] # "none" /\ out' = [out EXCEPT ![f] = to]
          /\ f # "SHA256SUMS" => sums' = sums
    BY <1>6 DEF Damage
  <2>3. Written' /\ tool = "bundle" /\ AllAccepted
    BY <1>i, <2>1, <2>2 DEF Written, Covering, Unwritten
  <2>4. out'["SHA256SUMS"] = "whole" => sums' = Listed
    BY <1>i, <2>2, KitPositions DEF Written, Covering
  <2> QED BY <1>s, <2>1, <2>3, <2>4 DEF KitInv, Covering, Answered
<1>7. CASE CheckKernel
  <2>1. /\ pc = "end" /\ pc' = "end" /\ out' = out /\ sums' = sums
    BY <1>7 DEF CheckKernel
  <2>2. PICK release \in {target.release, "other", "outside"}, arm64 \in BOOLEAN,
             model \in {"same", "other", "unknown"} :
          \E exact \in Compares("kernel.release", release = target.release),
             aarch64 \in Compares("architecture", TRUE), sound \in SumsCheck,
             same \in IF model = "unknown" THEN {TRUE}
                     ELSE Compares("device.model", model = "same") :
             answer' = [state |-> StateFor(release # "outside", arm64, exact /\ aarch64,
                                           sound, same),
                        release |-> release]
    BY <1>7 DEF CheckKernel
  <2>3. PICK exact \in Compares("kernel.release", release = target.release),
             aarch64 \in Compares("architecture", TRUE), sound \in SumsCheck,
             same \in IF model = "unknown" THEN {TRUE}
                     ELSE Compares("device.model", model = "same") :
             answer' = [state |-> StateFor(release # "outside", arm64, exact /\ aarch64,
                                           sound, same),
                        release |-> release]
    BY <2>2
  <2>t. \A f \in KitFiles : out[f] \in {"none", "torn", "whole"}
    BY <1>i DEF Written
  <2>e. /\ exact \in BOOLEAN /\ (exact => out["kernel.release"] # "none")
        /\ exact /\ out["kernel.release"] = "whole" => release = target.release
    BY <2>t, KitPositions, ComparesOnlyWhatIsThere
  <2>a. aarch64 \in BOOLEAN
    BY <2>t, KitPositions, ComparesOnlyWhatIsThere
  <2>m. same \in BOOLEAN
    BY <2>t, KitPositions, ComparesOnlyWhatIsThere
  <2>s. sound \in BOOLEAN /\ (sound => \A f \in sums : out[f] = "whole")
    BY SumsCheckListed
  <2>4. ASSUME answer'.state = "candidate"
        PROVE  /\ \E f \in KitFiles : out[f] # "none"
               /\ out["kernel.release"] = "whole" => answer'.release = target.release
               /\ out["SHA256SUMS"] = "whole" =>
                     \A f \in KitFiles \ {"package"} : out[f] = "whole"
    <3>1. StateFor(release # "outside", arm64, exact /\ aarch64, sound, same) = "candidate"
      BY <2>3, <2>4
    <3>2. exact /\ sound
      BY <3>1, <2>e, <2>a, <2>m, <2>s, CandidateMatches
    <3>3. out["SHA256SUMS"] = "whole" => sums = Listed
      BY <1>i DEF Covering
    <3> QED BY <2>3, <2>e, <2>s, <3>2, <3>3, ListedIsTarget, KitPositions
  <2> QED BY <1>s, <1>i, <2>1, <2>4 DEF KitInv, Written, Covering, Answered, Unwritten
<1>8. CASE UNCHANGED vars
  BY <1>8, <1>s, <1>i DEF vars, kit, KitInv, Written, Covering, Answered
<1> QED BY <1>1, <1>2, <1>3, <1>4, <1>5, <1>6, <1>7, <1>8 DEF Next

\* A kit is only offered as a candidate if its modules load, wherever bundle was
\* killed and whatever was damaged since; for the exact release of the device
\* unless the file that names it was cut, and with all its files unless the list
\* of checksums was: a list that was cut is believed by check_kernel.sh
\* (rt612.py:256-284, check_kernel.sh:12-33).
THEOREM Offered == Spec => []CandidateIsIntact
<1>1. Init => AcceptInv /\ KitInv
  BY AcceptedInit, KitInit
<1>2. (AcceptInv /\ KitInv) /\ [Next]_vars => (AcceptInv /\ KitInv)'
  BY AcceptedStep, KitStep
<1>3. AcceptInv /\ KitInv => CandidateIsIntact
  <2> SUFFICES ASSUME AcceptInv, KitInv, answer.state = "candidate"
               PROVE  CandidateIsIntact
    BY DEF CandidateIsIntact
  <2>1. tool = "bundle" /\ AllAccepted
    BY DEF KitInv, Answered, Covering
  <2>2. \A n \in Names : Loads(made[n], target)
    BY <2>1, AcceptedLoads DEF Inspecting
  <2> QED BY <2>2 DEF CandidateIsIntact, KitInv, Answered
<1> QED BY <1>1, <1>2, <1>3, PTL DEF Spec
================================================================================
