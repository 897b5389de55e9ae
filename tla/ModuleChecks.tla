------------------------------ MODULE ModuleChecks -----------------------------
(***************************************************************************)
(* What multikernel/rt612.py, scripts/verify_gki_rt.py and                 *)
(* scripts/verify_rt_diag.py compare of a compiled module and of the       *)
(* kernel it is for, and what the kernel's module loader asks, which is    *)
(* external.  Nothing here has state.                                      *)
(*                                                                         *)
(* A kernel is [release, config, crc]: config is the set of its options    *)
(* that are set, crc gives the checksum of each symbol it exports and      *)
(* Absent for the others.  A module is [elf, name, version, magic,         *)
(* depends, gpl, imports, basic, ext, signed]: basic and ext are its two   *)
(* tables of checksums, which cover the symbols they do not map to Absent; *)
(* an empty table is no table.                                             *)
(***************************************************************************)
EXTENDS FiniteSets

CONSTANTS
    Sym,        \* symbols a kernel may export and a module import
    Allowed     \* those of the GKI symbol list

Absent == 0

Required == {"ARM64", "64BIT", "MMU", "MODULES", "PERF_EVENTS", "HAVE_HW_BREAKPOINT"}
DiagRequired == {"ARM64", "MODULES", "MODVERSIONS", "CFI_CLANG", "MODULE_SIG"}

(***************************************************************************)
(* The kernel                                                              *)
(***************************************************************************)
Has(k, option) == option \in k.config

Exported(k) == {s \in Sym : k.crc[s] # Absent}

\* The layout seed of a randomized kernel is not in the profile.
ConfigUsable(k) == Required \subseteq k.config /\ ~Has(k, "RANDSTRUCT")

Tokens(config) ==
    (config \cap {"SMP", "PREEMPT_BUILD", "MODULE_UNLOAD", "MODVERSIONS"})
    \cup (IF "PREEMPT_BUILD" \in config THEN {} ELSE config \cap {"PREEMPT_RT"})

Vermagic(k) == [release |-> k.release, tokens |-> Tokens(k.config)]

(***************************************************************************)
(* rt612.inspect_module                                                    *)
(***************************************************************************)
Covered(table) == {s \in Sym : table[s] # Absent}

TablesAgree(m) == Covered(m.basic) = {} \/ Covered(m.ext) = {} \/ m.basic = m.ext

Versions(m) == IF Covered(m.ext) # {} THEN m.ext ELSE m.basic

Matches(table, k) == \A s \in Covered(table) : table[s] = k.crc[s]

Identified(m, k, name) ==
    /\ m.elf /\ m.name = name /\ m.magic = Vermagic(k) /\ ~m.depends /\ m.gpl
    /\ name = "rt_a17" => m.version \in {"0.2", "0.3-memory"}

\* Fault: the CRCs that are there are compared, not whether they are all there.
VersionedPartly(m, k) ==
    IF Has(k, "MODVERSIONS")
    THEN Covered(Versions(m)) # {} /\ Matches(m.basic, k)
    ELSE Covered(Versions(m)) = {}

Versioned(m, k) ==
    IF Has(k, "MODVERSIONS")
    THEN /\ Covered(Versions(m)) # {} /\ m.imports \subseteq Covered(Versions(m))
         /\ Matches(Versions(m), k)
    ELSE Covered(Versions(m)) = {}

\* The trailer is looked for; who signed is for the device to say.
SignedAsRequired(m, k) == Has(k, "SIG_FORCE") => m.signed

Inspect(m, k, name) ==
    /\ Identified(m, k, name)
    /\ m.imports \subseteq Exported(k)
    /\ TablesAgree(m) /\ Versioned(m, k)
    /\ SignedAsRequired(m, k)

(***************************************************************************)
(* verify_module_crc.sh: the symbols of the module's basic table, not its  *)
(* imports                                                                 *)
(***************************************************************************)
CrcScript(m, k) == Covered(m.basic) # {} /\ Matches(m.basic, k)

(***************************************************************************)
(* verify_gki_rt                                                           *)
(***************************************************************************)
GkiAccepts(m, k, name) ==
    /\ Inspect(m, k, name)
    /\ m.imports \subseteq Allowed
    /\ CrcScript(m, k)
    /\ name = "rt_a17" => m.version = "0.3-memory"

(***************************************************************************)
(* verify_rt_diag: one operator per check that can find a fault            *)
(***************************************************************************)
DiagChecks == {"elf", "config_and_release", "dependencies", "runtime_profile", "crc"}

DiagFinds(check, m, k, name) ==
    CASE check = "elf" -> ~m.elf
      [] check = "config_and_release" -> \/ ~(DiagRequired \subseteq k.config)
                                         \/ m.magic # Vermagic(k)
      [] check = "dependencies" -> m.name # name \/ m.depends
      [] check = "runtime_profile" -> name = "rt_a17" /\ m.version \notin {"0.1", "0.2"}
      [] check = "crc" -> ~CrcScript(m, k)

(***************************************************************************)
(* The module loader of the kernel                                         *)
(***************************************************************************)
\* With checksums the release in the vermagic is not compared.
SameMagic(m, k) == IF Has(k, "MODVERSIONS") /\ Covered(Versions(m)) # {}
                   THEN m.magic.tokens = Tokens(k.config)
                   ELSE m.magic = Vermagic(k)

\* An import without a checksum is let through with a warning, a module
\* without any is not.
Resolves(m, k) == /\ m.imports \subseteq Exported(k) /\ ~m.depends
                  /\ Has(k, "MODVERSIONS") =>
                        /\ Covered(Versions(m)) # {}
                        /\ \A s \in m.imports \cap Covered(Versions(m)) :
                              Versions(m)[s] = k.crc[s]

\* All but the trust in a signature.
Loads(m, k) == /\ m.elf /\ SameMagic(m, k) /\ Resolves(m, k)
               /\ Has(k, "SIG_FORCE") => m.signed
================================================================================
