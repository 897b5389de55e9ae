------------------------------ MODULE MCSourceTree -----------------------------
\* SourceTree on small archives and a two-file overlay.
EXTENDS SourceTree
================================================================================
