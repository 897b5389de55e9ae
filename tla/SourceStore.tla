------------------------------ MODULE SourceStore ------------------------------
(***************************************************************************)
(* What the download of the source archives promises about the directory   *)
(* it fills, whatever is interrupted and however often it is run again:    *)
(* under its final name an archive is missing, verified or rejected, a     *)
(* verified archive stays, a file that was already there is never          *)
(* overwritten, and success is reported with every archive verified.       *)
(***************************************************************************)

CONSTANTS
    Archive,    \* the archives of one source package
    Fragile     \* those an interrupted run may leave half written

VARIABLES
    store,      \* what stands under the final name of each archive
    reported    \* the last run reported success

vars == <<store, reported>>

Standing == {"missing", "verified", "rejected"}

Init == /\ store \in [Archive -> Standing]
        /\ reported = FALSE

AllVerified == \A a \in Archive : store[a] = "verified"

\* A missing archive appears, whole and verified, in one step; with the last
\* one the run may report success.
Publish(a) == /\ store[a] = "missing"
              /\ store' = [store EXCEPT ![a] = "verified"]
              /\ reported' \in {reported, AllVerified'}

\* An interrupted run leaves a file that every later run refuses.
Spoil(a) == /\ a \in Fragile
            /\ store[a] = "missing"
            /\ store' = [store EXCEPT ![a] = "rejected"]
            /\ UNCHANGED reported

\* Only its owner removes a file that is refused.
Discard(a) == /\ store[a] = "rejected"
              /\ store' = [store EXCEPT ![a] = "missing"]
              /\ UNCHANGED reported

Report == /\ AllVerified
          /\ reported' = TRUE
          /\ UNCHANGED store

Restart == /\ reported' = FALSE
           /\ UNCHANGED store

Next == \/ \E a \in Archive : Publish(a) \/ Spoil(a) \/ Discard(a)
        \/ Report \/ Restart

Spec == Init /\ [][Next]_vars
================================================================================
