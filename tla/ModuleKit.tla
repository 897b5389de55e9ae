------------------------------- MODULE ModuleKit -------------------------------
(***************************************************************************)
(* The programs that pass judgement on a compiled module: rt612.py build   *)
(* and bundle, verify_gki_rt.py and verify_rt_diag.py, each run once on a  *)
(* kernel and on two modules, and killed at any step; then the kit that    *)
(* bundle wrote, damaged on its way to a device, and check_kernel.sh that  *)
(* chooses from it there.                                                  *)
(***************************************************************************)
EXTENDS ModuleChecks, Naturals, Sequences

CONSTANTS
    Kernels,        \* kernels that are built for
    Builds(_),      \* what a build for a kernel may come to: name -> module
    MaxDamaged      \* bound: a kit with so many files damaged gets no more damage

ASSUME DamageAssumption == MaxDamaged \in Nat

VARIABLES
    tool,       \* the program that runs
    target,     \* the kernel it is given
    agrees,     \* its generated headers, or the digests a profile or lock has
                \* of it, are those of its configuration and symbols
    made,       \* module name -> what the build made of it
    pc,         \* where the program is; "end" when it is over
    at,         \* its position in a loop
    errors,     \* verify_rt_diag: the checks that failed
    verdict,    \* its verification file: "none", "failed", "passed"
    out,        \* file of the kit -> "none", "torn", "whole"
    sums,       \* the files SHA256SUMS still has a whole line for
    answer      \* of check_kernel.sh, with the release of the device

inputs == <<tool, target, agrees, made>>
kit    == <<out, sums, answer>>
vars   == <<inputs, pc, at, errors, verdict, kit>>

Names == {"rt_a17", "rt_a17_diag"}
Tools == {"build", "gki", "diag", "bundle"}

\* The order in which each program takes the modules.
Order(t) == IF t = "build" THEN <<"rt_a17_diag", "rt_a17">> ELSE <<"rt_a17", "rt_a17_diag">>

\* Fault: the checksums are written before the tools.
KitOrderSumsEarly == <<"rt_a17.ko", "rt_a17_diag.ko", "Module.symvers", "kernel.config",
                       "kernel.release", "architecture", "device.model",
                       "verification.json", "evidence", "SHA256SUMS", "tools", "package">>

\* The files of a target, in the order they are written, and then the rest.
KitOrder == <<"rt_a17.ko", "rt_a17_diag.ko", "Module.symvers", "kernel.config",
              "kernel.release", "architecture", "device.model", "verification.json",
              "evidence", "tools", "SHA256SUMS", "package">>

KitFiles == {KitOrder[i] : i \in 1..Len(KitOrder)}

\* The order of the lines of SHA256SUMS: the files by their paths.
SumsOrder == <<"Module.symvers", "architecture", "device.model", "kernel.config",
               "kernel.release", "evidence", "rt_a17.ko", "rt_a17_diag.ko", "tools",
               "verification.json">>

\* What a list of these files still lists when it has been cut somewhere.
Cuts(files) == {files \cap {SumsOrder[i] : i \in 1..n} : n \in 0..Len(SumsOrder)}

First == [build |-> "preflight", gki |-> "inputs", diag |-> "checks", bundle |-> "archive"]

Init == /\ tool \in Tools /\ target \in Kernels
        /\ agrees \in BOOLEAN /\ made \in Builds(target)
        /\ pc = First[tool] /\ at = 1 /\ errors = {} /\ verdict = "none"
        /\ out = [f \in KitFiles |-> "none"] /\ sums = {}
        /\ answer = [state |-> "none", release |-> "none"]

(***************************************************************************)
(* rt612.py build                                                          *)
(***************************************************************************)
RequiredExports == Sym \cap
    {"mm_access", "pin_user_pages_remote", "get_task_mm", "get_task_cred",
     "register_user_hw_breakpoint", "modify_user_hw_breakpoint", "unregister_hw_breakpoint"}

\* Before anything is written: the tree is one finished 6.12 build.
Preflight == /\ pc = "preflight"
             /\ pc' = IF ConfigUsable(target) /\ agrees /\ RequiredExports \subseteq Exported(target)
                      THEN "make" ELSE "end"
             /\ UNCHANGED <<inputs, at, errors, verdict, kit>>

\* The try block of build: whatever fails in it, the verification file says so.
Record(v) == verdict' = v /\ pc' = "end"

Make == /\ pc = "make"
        /\ \/ pc' = "inspect" /\ UNCHANGED verdict
           \/ Record("failed")
        /\ UNCHANGED <<inputs, at, errors, kit>>

Module(i) == Order(tool)[i]

Accepts(n) == CASE tool = "gki"    -> GkiAccepts(made[n], target, n)
                [] tool = "build"  -> Inspect(made[n], target, n)
                [] tool = "bundle" -> Inspect(made[n], target, n)

\* One turn of the loop over the two modules, in three of the programs.
InspectModule == /\ pc = "inspect" /\ Accepts(Module(at))
                 /\ IF at < 2 THEN at' = at + 1 /\ UNCHANGED pc
                              ELSE at' = 1 /\ pc' = IF tool = "bundle" THEN "open" ELSE "record"
                 /\ UNCHANGED <<inputs, errors, verdict, kit>>

\* bundle has written nothing yet; the other two leave the failure on record.
RejectModule == /\ pc = "inspect" /\ ~Accepts(Module(at))
                /\ IF tool = "bundle" THEN pc' = "end" /\ UNCHANGED verdict
                                      ELSE Record("failed")
                /\ UNCHANGED <<inputs, at, errors, kit>>

\* The copies beside the modules, and then the verification file.
RecordPass == /\ pc = "record"
              /\ \E v \in {"passed", "failed"} : Record(v)
              /\ UNCHANGED <<inputs, at, errors, kit>>

(***************************************************************************)
(* verify_gki_rt.py                                                        *)
(***************************************************************************)
\* The release of the build, the digests of configuration and symbols.
GkiInputs == /\ pc = "inputs"
             /\ IF agrees /\ ConfigUsable(target)
                THEN pc' = "inspect" /\ UNCHANGED verdict
                ELSE Record("failed")
             /\ UNCHANGED <<inputs, at, errors, kit>>

(***************************************************************************)
(* verify_rt_diag.py                                                       *)
(***************************************************************************)
\* Every check is made; those that find a fault, or whose tools
\* are missing, are noted.
RunChecks == /\ pc = "checks"
             /\ \/ errors' = {c \in DiagChecks :
                                 DiagFinds(c, made[Module(at)], target, Module(at))}
                \/ errors' = DiagChecks
             /\ pc' = "report"
             /\ UNCHANGED <<inputs, at, verdict, kit>>

\* A run is for one module; CI asks for the next when the first has passed.
WriteDiag == /\ pc = "report"
             /\ IF errors # {} THEN Record("failed") /\ UNCHANGED at
                ELSE IF at = 2 THEN Record("passed") /\ UNCHANGED at
                ELSE at' = 2 /\ pc' = "checks" /\ UNCHANGED verdict
             /\ UNCHANGED <<inputs, errors, kit>>

(***************************************************************************)
(* rt612.py bundle                                                         *)
(***************************************************************************)
\* The archive, the sources and the files in it by digest; the release, the
\* vermagic, the commit and the tools as the profile has them.
CheckArchive == /\ pc = "archive"
                /\ pc' = IF agrees /\ ConfigUsable(target) THEN "inspect" ELSE "end"
                /\ UNCHANGED <<inputs, at, errors, verdict, kit>>

WholeFiles == {f \in KitFiles : out[f] = "whole"}

OpenFile == /\ pc = "open"
            /\ out' = [out EXCEPT ![KitOrder[at]] = "torn"]
            /\ IF KitOrder[at] = "SHA256SUMS" THEN sums' \in Cuts(WholeFiles)
                                              ELSE UNCHANGED sums
            /\ pc' = "close"
            /\ UNCHANGED <<inputs, at, errors, verdict, answer>>

CloseFile == /\ pc = "close"
             /\ out' = [out EXCEPT ![KitOrder[at]] = "whole"]
             /\ sums' = IF KitOrder[at] = "SHA256SUMS" THEN WholeFiles ELSE sums
             /\ IF at < Len(KitOrder) THEN at' = at + 1 /\ pc' = "open"
                                      ELSE at' = 1 /\ pc' = "end"
             /\ UNCHANGED <<inputs, errors, verdict, answer>>

(***************************************************************************)
(* The kit on a device                                                     *)
(***************************************************************************)
\* A kill, or an error nothing catches: what is written stays.
Die == /\ pc # "end"
       /\ pc' = "end"
       /\ UNCHANGED <<inputs, at, errors, verdict, kit>>

\* A file of a kit is lost or cut short on its way to the device, the list of
\* checksums no less than the others.
Damage == /\ pc = "end" /\ answer.state = "none"
          /\ Cardinality(KitFiles \ WholeFiles) < MaxDamaged
          /\ \E f \in KitFiles, to \in {"none", "torn"} :
                /\ out[f] # "none"
                /\ out' = [out EXCEPT ![f] = to]
                /\ sums' \in IF f # "SHA256SUMS" THEN {sums}
                             ELSE IF to = "none" THEN {{}} ELSE Cuts(sums)
          /\ UNCHANGED <<inputs, pc, at, errors, verdict, answer>>

\* What a comparison with a file of the kit comes to: what is left of one that
\* was cut short may be anything.
Compares(f, equal) == CASE out[f] = "whole" -> {equal}
                        [] out[f] = "torn"  -> BOOLEAN
                        [] out[f] = "none"  -> {FALSE}

\* sha256sum -c asks for one line at least and compares the files it reads a
\* line of; a line that was cut in two it passes over or refuses.
SumsCheck == IF sums = {} \/ \E f \in sums : out[f] # "whole" THEN {FALSE}
             ELSE IF out["SHA256SUMS"] = "whole" THEN {TRUE} ELSE BOOLEAN

StateFor(family, arm64, matched, sound, same) ==
    CASE ~family                                     -> "outside_6.12_family"
      [] family /\ ~arm64                            -> "unsupported_architecture"
      [] family /\ arm64 /\ ~matched                 -> "build_required"
      [] family /\ arm64 /\ matched /\ ~sound        -> "integrity_error"
      [] family /\ arm64 /\ matched /\ sound /\ ~same -> "model_requires_validation"
      [] family /\ arm64 /\ matched /\ sound /\ same  -> "candidate"

\* check_kernel.sh on a device of that release, architecture and model, where
\* "unknown" is a device that does not tell.
CheckKernel == /\ pc = "end" /\ tool = "bundle" /\ answer.state = "none"
               /\ \E release \in {target.release, "other", "outside"}, arm64 \in BOOLEAN,
                     model \in {"same", "other", "unknown"} :
                  \E exact \in Compares("kernel.release", release = target.release),
                     aarch64 \in Compares("architecture", TRUE), sound \in SumsCheck,
                     same \in IF model = "unknown" THEN {TRUE}
                             ELSE Compares("device.model", model = "same") :
                     answer' = [state |-> StateFor(release # "outside", arm64,
                                                   exact /\ aarch64, sound, same),
                                release |-> release]
               /\ UNCHANGED <<inputs, pc, at, errors, verdict, out, sums>>

Next == \/ Preflight \/ Make \/ InspectModule \/ RejectModule \/ RecordPass
        \/ GkiInputs \/ RunChecks \/ WriteDiag
        \/ CheckArchive \/ OpenFile \/ CloseFile
        \/ Die \/ Damage \/ CheckKernel

Spec == Init /\ [][Next]_vars

(***************************************************************************)
(* Properties                                                              *)
(***************************************************************************)
\* A verification file that says a build passed is about modules the loader
\* of that kernel takes, trust in their signature aside
\* (rt612.py:208-213, verify_gki_rt.py:58-69).
PassedLoads == verdict = "passed" /\ tool \in {"build", "gki"}
                  => \A n \in Names : Loads(made[n], target)

\* A kit is only offered as a candidate if its modules load, however its writing
\* was killed.  Whatever of it was damaged later, it is for the exact release of
\* the device unless the file that names the release was cut, and it is complete
\* but for the files around the target unless the list of checksums itself was:
\* of a list that was cut short check_kernel.sh only checks what is left
\* (rt612.py:256-284, check_kernel.sh:12-33).
CandidateIsIntact ==
    answer.state = "candidate" =>
        /\ \A n \in Names : Loads(made[n], target)
        /\ out["kernel.release"] = "whole" => answer.release = target.release
        /\ out["SHA256SUMS"] = "whole" => \A f \in KitFiles \ {"package"} : out[f] = "whole"

\* What verify_rt_diag.py:138 says of a module without dependencies: its
\* imported kernel symbols are checked by CRC.
ImportsCheckedByCrc == verdict = "passed" /\ tool = "diag"
                          => \A n \in Names : \A s \in made[n].imports :
                                 made[n].basic[s] = target.crc[s]
================================================================================
