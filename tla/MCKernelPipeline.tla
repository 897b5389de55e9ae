---------------------------- MODULE MCKernelPipeline ---------------------------
\* KernelPipeline on two versions of the sources and requests with one flaw.
EXTENDS KernelPipeline

Valid(kind, mode, pins) == [kind |-> kind, mode |-> mode, pins |-> pins, named |-> TRUE,
                            base |-> TRUE, builtin |-> TRUE,
                            part |-> IF kind = "rt" THEN "port" ELSE "none"]

Requests(before) ==
    LET good == {Valid("kernel", "preflight", before), Valid("kernel", "kernel", before),
                 Valid("gki", "modules", before), Valid("rt", "kernel_and_rt_port", before)}
        k == Valid("kernel", "kernel", before)
        r == Valid("rt", "kernel_and_rt_port", before)
    IN good \cup {[k EXCEPT !.pins = @ - 1], [k EXCEPT !.pins = @ + 1],
                  [k EXCEPT !.named = FALSE], [k EXCEPT !.base = FALSE],
                  [k EXCEPT !.builtin = FALSE], [k EXCEPT !.mode = "other"],
                  [r EXCEPT !.part = "diag"]}
================================================================================
