---------------------------- MODULE MCRTHitQueue ----------------------------
(* RTHitQueue on a ring of two slots: it wraps, fills and overflows within  *)
(* five exceptions; the loss counter saturates at two.                      *)
EXTENDS RTHitQueue, TLC
=============================================================================
