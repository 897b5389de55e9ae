------------------------------- MODULE SourceTree ------------------------------
(***************************************************************************)
(* scripts/prepare_official_a17.sh and scripts/apply_samsung_czi4.py on    *)
(* the archives SourceDownload left: the base is extracted to a fresh      *)
(* directory, the overlay is applied file by file with a backup of what it *)
(* replaces, the build configuration is generated and a report written.    *)
(* The owner may also apply the overlay directly, on whatever tree stands  *)
(* there.  One script runs at a time and may be killed at every step.      *)
(***************************************************************************)
EXTENDS SourceDownload

CONSTANTS
    EntryCount, \* files of the overlay, in the order of its archive
    Existing,   \* those the base has too
    MaxSecond   \* bound: backup directories are named by the second

Entry  == 1..EntryCount
Second == 1..MaxSecond

ASSUME TreeAssumption == /\ EntryCount \in Nat \ {0} /\ MaxSecond \in Nat \ {0}
                         /\ Existing \subseteq Entry

VARIABLES
    base,       \* the extracted base: "none", "partial", "whole"
    entry,      \* overlay file -> its content in the tree
    backup,     \* second -> the backup directory of that name
    second,     \* the clock
    at,         \* the overlay file being applied
    zip,        \* the overlay archive the running application has read
    caller,     \* who started it: "prepare" or "owner"
    config,     \* build.config has been generated
    report      \* prepare-report.txt has been written

treeVars == <<base, entry, backup, second, at, zip, caller, config, report>>
vars == <<downloadVars, treeVars>>

FileState == {"none", "old", "torn", "new", "foreign"}
NoBackup  == [made |-> FALSE, saved |-> [e \in Entry |-> "none"], manifest |-> FALSE]
PreparePc == {"archives", "extract", "root", "save", "saving", "write", "writing",
              "manifest", "config", "report"}

IsFile(e) == entry[e] # "none"

DestExists == base # "none"

TreeInit == /\ base = "none" /\ entry = [e \in Entry |-> "none"]
            /\ backup = [s \in Second |-> NoBackup] /\ second = 1
            /\ at = 1 /\ zip = "absent" /\ caller = "prepare"
            /\ config = FALSE /\ report = FALSE

Init == DownloadInit /\ TreeInit

Leave == pc' = "idle" /\ at' = 1 /\ zip' = "absent" /\ caller' = "prepare"

download == <<files, part, item, attempt, total, sound, reported>>

(***************************************************************************)
(* prepare_official_a17.sh                                                 *)
(***************************************************************************)
StartPrepare == /\ pc = "idle"
                /\ pc' = "archives"
                /\ UNCHANGED <<download, treeVars>>

\* Fault: the digest of the overlay is not compared.
ArchivesAcceptedBase == DigestMatches(files["base"]) /\ files["overlay"] # "absent"

ArchivesAccepted == DigestMatches(files["base"]) /\ DigestMatches(files["overlay"])

\* Both archives by digest, then a destination that does not exist.
RefusePrepare == /\ pc = "archives"
                 /\ ~ArchivesAccepted \/ DestExists
                 /\ Leave
                 /\ UNCHANGED <<download, base, entry, backup, second, config, report>>

\* Whatever part of the files an interrupted extraction has written.
StartExtract == /\ pc = "archives"
                /\ ArchivesAccepted /\ ~DestExists
                /\ pc' = "extract" /\ base' = "partial"
                /\ \E out \in SUBSET Existing :
                      entry' = [e \in Entry |-> IF e \in out THEN "old" ELSE entry[e]]
                /\ UNCHANGED <<download, backup, second, at, zip, caller, config, report>>

\* The version tests on the Makefile hold of the base they were written for.
FinishExtract == /\ pc = "extract"
                 /\ pc' = "root" /\ base' = "whole" /\ zip' = files["overlay"]
                 /\ entry' = [e \in Entry |-> IF e \in Existing THEN "old" ELSE entry[e]]
                 /\ UNCHANGED <<download, backup, second, at, caller, config, report>>

GenerateConfig == /\ pc = "config"
                  /\ pc' = "report" /\ config' = TRUE
                  /\ UNCHANGED <<download, base, entry, backup, second, at, zip, caller, report>>

WriteReport == /\ pc = "report"
               /\ report' = TRUE
               /\ Leave
               /\ UNCHANGED <<download, base, entry, backup, second, config>>

(***************************************************************************)
(* apply_samsung_czi4.py --apply                                           *)
(***************************************************************************)
\* The digest of the archive is only warned about here; a file that is not an
\* archive of regular files with proper paths cannot be read.
StartApply == /\ pc = "idle" /\ files["overlay"] \in {"good", "other"}
              /\ pc' = "root" /\ caller' = "owner" /\ zip' = files["overlay"]
              /\ UNCHANGED <<download, base, entry, backup, second, at, config, report>>

\* The two files source_root looks for may be missing from a partial tree.
RefuseApply == /\ pc = "root"
               /\ base # "whole" \/ backup[second].made
               /\ Leave
               /\ UNCHANGED <<download, base, entry, backup, second, config, report>>

\* Fault: the directory of an earlier application in the same second is used.
MakeBackupReused == /\ pc = "root" /\ base # "none"
                    /\ pc' = "save"
                    /\ backup' = [backup EXCEPT ![second].made = TRUE]
                    /\ UNCHANGED <<download, base, entry, second, at, zip, caller, config, report>>

MakeBackup == /\ pc = "root" /\ base # "none" /\ ~backup[second].made
              /\ pc' = "save"
              /\ backup' = [backup EXCEPT ![second].made = TRUE]
              /\ UNCHANGED <<download, base, entry, second, at, zip, caller, config, report>>

SkipSave == /\ pc = "save" /\ ~IsFile(at)
            /\ pc' = "write"
            /\ UNCHANGED <<download, treeVars>>

BeginSave == /\ pc = "save" /\ IsFile(at)
             /\ pc' = "saving"
             /\ backup' = [backup EXCEPT ![second].saved[at] = "torn"]
             /\ UNCHANGED <<download, base, entry, second, at, zip, caller, config, report>>

EndSave == /\ pc = "saving"
           /\ pc' = "write"
           /\ backup' = [backup EXCEPT ![second].saved[at] = entry[at]]
           /\ UNCHANGED <<download, base, entry, second, at, zip, caller, config, report>>

BeginWrite == /\ pc = "write"
              /\ pc' = "writing"
              /\ entry' = [entry EXCEPT ![at] = "torn"]
              /\ UNCHANGED <<download, base, backup, second, at, zip, caller, config, report>>

Written == IF zip = "good" THEN "new" ELSE "foreign"

\* Fault: the last file of the overlay is not recognized as the last.
EndWritePastLast == /\ pc = "writing"
                    /\ entry' = [entry EXCEPT ![at] = Written]
                    /\ IF at <= EntryCount THEN pc' = "save" /\ at' = at + 1
                                           ELSE pc' = "manifest" /\ UNCHANGED at
                    /\ UNCHANGED <<download, base, backup, second, zip, caller, config, report>>

EndWrite == /\ pc = "writing"
            /\ entry' = [entry EXCEPT ![at] = Written]
            /\ IF at < EntryCount THEN pc' = "save" /\ at' = at + 1
                                  ELSE pc' = "manifest" /\ UNCHANGED at
            /\ UNCHANGED <<download, base, backup, second, zip, caller, config, report>>

WriteManifest == /\ pc = "manifest"
                 /\ backup' = [backup EXCEPT ![second].manifest = TRUE]
                 /\ IF caller = "prepare"
                    THEN pc' = "config" /\ UNCHANGED <<at, zip, caller>>
                    ELSE Leave
                 /\ UNCHANGED <<download, base, entry, second, config, report>>

(***************************************************************************)
(* Failures and the owner                                                  *)
(***************************************************************************)
\* Killed, or an error that ends the script (set -e, an exception): a step
\* that had begun to write has left a torn file.
PrepareDies == /\ pc \in PreparePc
               /\ Leave
               /\ UNCHANGED <<download, base, entry, backup, second, config, report>>

\* The owner deletes the destination, backups included, to prepare again.
DiscardTree == /\ pc = "idle" /\ DestExists
               /\ base' = "none" /\ entry' = [e \in Entry |-> "none"]
               /\ backup' = [s \in Second |-> NoBackup]
               /\ config' = FALSE /\ report' = FALSE
               /\ UNCHANGED <<download, pc, second, at, zip, caller>>

Tick == /\ pc = "idle" /\ second < MaxSecond
        /\ second' = second + 1
        /\ UNCHANGED <<downloadVars, base, entry, backup, at, zip, caller, config, report>>

(***************************************************************************)
(* Specification                                                           *)
(***************************************************************************)
Downloading == DownloadStep /\ UNCHANGED treeVars

PrepareStep == \/ RefusePrepare \/ StartExtract \/ FinishExtract
               \/ GenerateConfig \/ WriteReport

ApplyStep == \/ RefuseApply \/ MakeBackup \/ SkipSave \/ BeginSave \/ EndSave
             \/ BeginWrite \/ EndWrite \/ WriteManifest

OwnerStep == \/ (StartDownload \/ RemoveRefused \/ DownloadDies) /\ UNCHANGED treeVars
             \/ StartPrepare \/ StartApply \/ PrepareDies \/ DiscardTree \/ Tick

Next == Downloading \/ PrepareStep \/ ApplyStep \/ OwnerStep

Spec == Init /\ [][Next]_vars

(***************************************************************************)
(* Properties                                                              *)
(***************************************************************************)
\* Every variable has its type.
TypeOK == /\ DownloadTypeOK
          /\ pc \in {"idle"} \cup DownloadPc \cup PreparePc
          /\ base \in {"none", "partial", "whole"}
          /\ entry \in [Entry -> FileState]
          /\ backup \in [Second -> [made : BOOLEAN, saved : [Entry -> FileState],
                                    manifest : BOOLEAN]]
          /\ second \in Second /\ at \in Entry /\ zip \in Content
          /\ caller \in {"prepare", "owner"}
          /\ config \in BOOLEAN /\ report \in BOOLEAN

\* The report is only written beside a whole base that carries every file of
\* the genuine overlay, with a manifest and a configuration, however many runs
\* were killed before (prepare_official_a17.sh:28-74).
PreparedIsWhole ==
    [][report' /\ ~report => /\ base = "whole" /\ config
                             /\ \A e \in Entry : entry[e] = "new"
                             /\ \E s \in Second : backup[s].manifest
                             /\ files["base"] = "good"]_vars

\* No sequence of applications, killed at any step and repeated in the same
\* second or later, loses the original of a file the overlay replaces
\* (apply_samsung_czi4.py:86-112).
OriginalsKept ==
    base = "whole" => \A e \in Existing : \/ entry[e] = "old"
                                          \/ \E s \in Second : backup[s].saved[e] = "old"

(***************************************************************************)
(* Refinement                                                              *)
(***************************************************************************)
\* A copy in progress is not there yet; what no run accepts is rejected.
Standing(a) == IF Missing(a) \/ (a = "overlay" /\ pc \in {"copy", "recheck"}) THEN "missing"
               ELSE IF Verified(a) THEN "verified" ELSE "rejected"

Store == INSTANCE SourceStore WITH
            Fragile <- {"overlay"},
            store <- [a \in Archive |-> Standing(a)]

\* The download promises SourceStore: a verified archive stays, nothing that
\* was there is overwritten, and only the overlay can be left half written.
ImplementsStore == Store!Spec
================================================================================
