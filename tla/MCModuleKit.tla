------------------------------- MODULE MCModuleKit -----------------------------
(***************************************************************************)
(* ModuleKit on two symbols, of which the GKI list allows one; one has two *)
(* checksums; one of the two modules is as it should be, the other varies  *)
(* in its imports, its tables and its vermagic, or has one other flaw.     *)
(***************************************************************************)
EXTENDS ModuleKit, TLC

MCSym == {"mm_access", "printk"}
MCAllowed == {"mm_access"}

Table(a, b) == ("mm_access" :> a) @@ ("printk" :> b)
Tables == {Table(a, b) : a \in {Absent, 1, 2}, b \in {Absent, 1}}
NoTable == Table(Absent, Absent)

Base == Required \cup {"SMP", "PREEMPT_BUILD", "CFI_CLANG", "MODULE_SIG"}
Configs == {Base \cup {"MODVERSIONS"}, Base \cup {"MODVERSIONS", "SIG_FORCE"}, Base,
            Base \cup {"MODVERSIONS", "RANDSTRUCT"}}

MCKernels == {[release |-> "6.12.38", config |-> c, crc |-> t] :
                c \in Configs, t \in Tables \ {NoTable}}

Version(n) == IF n = "rt_a17" THEN "0.2" ELSE "1"

\* The module a build for k should come to.
Clean(k, n, v) ==
    LET t == IF Has(k, "MODVERSIONS") THEN k.crc ELSE NoTable
    IN [elf |-> TRUE, name |-> n, version |-> v, magic |-> Vermagic(k), depends |-> FALSE,
        gpl |-> TRUE, imports |-> Exported(k), basic |-> t, ext |-> t,
        signed |-> Has(k, "SIG_FORCE")]

OtherMagic(k) == [release |-> k.release, tokens |-> Tokens(k.config) \ {"SMP"}]

Varied(k, m) ==
    {[m EXCEPT !.imports = i, !.basic = b, !.ext = e, !.magic = g, !.signed = s] :
        i \in SUBSET MCSym, b \in Tables, e \in Tables,
        g \in {Vermagic(k), OtherMagic(k)}, s \in BOOLEAN}

Flawed(m) == {[m EXCEPT !.elf = FALSE], [m EXCEPT !.name = "other"],
              [m EXCEPT !.version = "9"], [m EXCEPT !.depends = TRUE],
              [m EXCEPT !.gpl = FALSE]}

Intended(k, v) == [n \in Names |-> Clean(k, n, IF n = "rt_a17" THEN v ELSE "1")]

MCBuilds(k) ==
    UNION {{[Intended(k, v) EXCEPT ![n] = m] :
               m \in Varied(k, Intended(k, v)[n]) \cup Flawed(Intended(k, v)[n])}
           : v \in {"0.2", "0.3-memory"}, n \in Names}
================================================================================
