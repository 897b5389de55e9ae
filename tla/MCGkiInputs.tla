------------------------------- MODULE MCGkiInputs -----------------------------
\* GkiInputs with more files than workers.
EXTENDS GkiInputs
CONSTANTS f1, f2, f3, p1
================================================================================
