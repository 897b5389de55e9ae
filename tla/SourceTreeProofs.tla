--------------------------- MODULE SourceTreeProofs ----------------------------
(***************************************************************************)
(* Proofs about SourceTree, for all archives and overlays: the download    *)
(* implements SourceStore, a report stands beside a whole tree, and no     *)
(* sequence of interrupted applications loses an original file.            *)
(***************************************************************************)
EXTENDS SourceTree, TLAPS

(***************************************************************************)
(* The inductive invariant                                                 *)
(***************************************************************************)
Attempting == {"page", "open", "body", "verify"}    \* an archive is being fetched
Unpacking  == {"unpack", "copy", "recheck"}         \* both archives are there
Applying   == {"save", "saving", "write", "writing", "manifest"}
Finishing  == {"config", "report"}                  \* the overlay is applied

Good(a) == files[a] = "good"

\* What the running download has found or fetched stands until it ends; it has
\* not reported anything yet.
DownloadOK ==
    /\ pc \notin DownloadPc => item = 1
    /\ pc \in DownloadPc => ~reported
    /\ pc \in DownloadPc /\ item = 2 => Good("bundle")
    /\ pc \in Attempting => files[Order[item]] = "absent"
    /\ pc \in Unpacking => item = 2 /\ Good("bundle") /\ Good("base")
    /\ pc = "copy" => files["overlay"] = "partial"
    /\ pc = "recheck" => Good("overlay")

\* A backup directory is filled by one application only, file by file, and a
\* file that is about to be overwritten is in it.
ApplyOK ==
    /\ pc \notin Applying => at = 1 \/ pc \in Finishing
    /\ \A s \in Second : ~backup[s].made => \A e \in Entry : backup[s].saved[e] = "none"
    /\ pc \in Applying =>
         /\ backup[second].made
         /\ \A e \in Entry : e > at => backup[second].saved[e] = "none"
         /\ pc = "save" => backup[second].saved[at] = "none"
         /\ pc = "saving" => backup[second].saved[at] = "torn"
         /\ pc \in {"write", "writing"} => entry[at] # "old" \/ backup[second].saved[at] = "old"

\* A preparation works on accepted archives and has applied what it has passed.
PrepareOK ==
    /\ pc \notin {"root"} \cup Applying => caller = "prepare"
    /\ pc = "extract" => Good("base") /\ Good("overlay")
    /\ pc \in {"root"} \cup Applying \cup Finishing /\ caller = "prepare" =>
         base = "whole" /\ Good("base") /\ zip = "good"
    /\ pc \in Applying /\ caller = "prepare" => \A e \in Entry : e < at => entry[e] = "new"
    /\ pc = "manifest" => at = EntryCount /\ (caller = "prepare" => entry[at] = "new")
    /\ pc \in Finishing => (\A e \in Entry : entry[e] = "new") /\ backup[second].manifest
    /\ pc = "report" => config

IInv == TypeOK /\ DownloadOK /\ ApplyOK /\ PrepareOK /\ OriginalsKept

-----------------------------------------------------------------------------
(* Types *)

LEMMA OrderShape ==
    Len(Order) = 2 /\ Order[1] = "bundle" /\ Order[2] = "base"
  BY DEF Order

LEMMA ItemFetched ==
  ASSUME TypeOK
  PROVE  /\ item \in {1, 2} /\ Order[item] \in Fetched /\ Order[item] \in Archive
         /\ Order[item] # "overlay" /\ Received \in Content
         /\ Order[item] = IF item = 1 THEN "bundle" ELSE "base"
<1>1. item \in {1, 2}
  BY OrderShape DEF TypeOK, DownloadTypeOK
<1>2. Order[item] = IF item = 1 THEN "bundle" ELSE "base"
  BY <1>1, OrderShape
<1> QED BY <1>1, <1>2 DEF Fetched, Archive, Received, Content

\* The steps of a download, and the rest.
DownloadMove == /\ UNCHANGED treeVars
                /\ DownloadStep \/ StartDownload \/ RemoveRefused \/ DownloadDies
TreeMove == \/ StartPrepare \/ StartApply \/ PrepareDies \/ DiscardTree \/ Tick
            \/ PrepareStep \/ ApplyStep

LEMMA Moves == Next => DownloadMove \/ TreeMove
  BY DEF Next, Downloading, OwnerStep, DownloadMove, TreeMove

LEMMA DownloadTypes ==
  ASSUME TypeOK, DownloadMove
  PROVE  /\ TypeOK'
         /\ pc \in {"idle"} \cup DownloadPc /\ pc' \in {"idle"} \cup DownloadPc
         /\ UNCHANGED <<base, entry, backup, second, at, zip, caller, config, report>>
<1>1. UNCHANGED <<base, entry, backup, second, at, zip, caller, config, report>>
  BY DEF DownloadMove, treeVars
<1>2. /\ DownloadTypeOK /\ item \in {1, 2} /\ Order[item] \in Fetched /\ Order[item] \in Archive
      /\ Received \in Content /\ Len(Order) = 2
      /\ Attempts \in Nat /\ Size \in Nat /\ Limit \in Nat /\ 1 <= Attempts
      /\ 1 \in 1..Len(Order) /\ 1 \in 1..Attempts /\ 0 \in 0..(Limit + 1)
  BY ItemFetched, OrderShape, DownloadAssumption DEF TypeOK
<1>0. Stop(TRUE) \/ Stop(FALSE) =>
        /\ item' = 1 /\ attempt' = 1 /\ total' = 0 /\ sound' = TRUE
        /\ reported' \in BOOLEAN /\ pc' = "idle"
  BY DEF Stop
<1> DEFINE Fits == /\ DownloadTypeOK' /\ pc \in {"idle"} \cup DownloadPc
                   /\ pc' \in {"idle"} \cup DownloadPc
<1> SUFFICES Fits
  BY <1>1 DEF TypeOK
<1>3. CASE StartDownload
  BY <1>2, <1>3 DEF StartDownload, DownloadTypeOK, DownloadPc
<1>4. CASE CheckPresent
  BY <1>2, <1>4 DEF CheckPresent, NextItem, DownloadTypeOK, DownloadPc
<1>5. CASE CheckRefused
  BY <1>0, <1>2, <1>5 DEF CheckRefused, DownloadTypeOK, DownloadPc
<1>6. CASE BeginAttempt
  BY <1>2, <1>6 DEF BeginAttempt, DownloadTypeOK, DownloadPc
<1>7. CASE ReadPage
  BY <1>2, <1>7 DEF ReadPage, DownloadTypeOK, DownloadPc
<1>8. CASE OpenPart
  BY <1>2, <1>8 DEF OpenPart, DownloadTypeOK, DownloadPc
<1>9. CASE ReadBlock
  BY <1>2, <1>9 DEF ReadBlock, TooLarge, DownloadTypeOK, DownloadPc
<1>10. CASE EndOfBody
  BY <1>2, <1>10 DEF EndOfBody, DownloadTypeOK, DownloadPc
<1>11. CASE Publish
  BY <1>2, <1>11 DEF Publish, NextItem, DownloadTypeOK, DownloadPc
<1>12. CASE Retry
  BY <1>2, <1>12 DEF Retry, InAttempt, DownloadTypeOK, DownloadPc
<1>13. CASE GiveUp
  BY <1>0, <1>2, <1>13 DEF GiveUp, InAttempt, DownloadTypeOK, DownloadPc
<1>14. CASE OverlayPresent \/ OverlayRefused
  BY <1>0, <1>2, <1>14 DEF OverlayPresent, OverlayRefused, DownloadTypeOK, DownloadPc
<1>15. CASE OpenOverlay \/ CopyOverlay
  BY <1>2, <1>15 DEF OpenOverlay, CopyOverlay, DownloadTypeOK, DownloadPc, Content, Archive, Fetched
<1>16. CASE OverlayVerified \/ OverlayUnlinked
  BY <1>0, <1>2, <1>16 DEF OverlayVerified, OverlayUnlinked, DownloadTypeOK, DownloadPc, Content
<1>17. CASE DownloadDies
  BY <1>0, <1>2, <1>17 DEF DownloadDies, DownloadTypeOK, DownloadPc
<1>18. CASE RemoveRefused
  BY <1>2, <1>18 DEF RemoveRefused, DownloadTypeOK, DownloadPc, Content
<1> QED
  BY <1>3, <1>4, <1>5, <1>6, <1>7, <1>8, <1>9, <1>10, <1>11, <1>12, <1>13, <1>14, <1>15, <1>16,
     <1>17, <1>18 DEF DownloadMove, DownloadStep

LEMMA TreeTypes ==
  ASSUME TypeOK, TreeMove
  PROVE  /\ TypeOK'
         /\ UNCHANGED <<files, part, item, attempt, total, sound, reported>>
         /\ pc \in {"idle"} \cup PreparePc /\ pc' \in {"idle"} \cup PreparePc
<1>1. UNCHANGED <<files, part, item, attempt, total, sound, reported>>
  BY DEF TreeMove, PrepareStep, ApplyStep, StartPrepare, StartApply, PrepareDies, DiscardTree, Tick,
         RefusePrepare, StartExtract, FinishExtract, GenerateConfig, WriteReport, RefuseApply,
         MakeBackup, SkipSave, BeginSave, EndSave, BeginWrite, EndWrite, WriteManifest, download,
         downloadVars
<1>2. DownloadTypeOK /\ DownloadTypeOK'
  BY <1>1 DEF TypeOK, DownloadTypeOK
<1>3. /\ EntryCount \in Nat \ {0} /\ MaxSecond \in Nat \ {0} /\ Existing \subseteq Entry
      /\ 1 \in Entry /\ 1 \in Second /\ "absent" \in Content
  BY TreeAssumption DEF Entry, Second, Content
<1>4. CASE StartPrepare
  BY <1>1, <1>2, <1>4 DEF StartPrepare, TypeOK, PreparePc, treeVars
<1>5. CASE StartApply
  BY <1>1, <1>2, <1>5 DEF StartApply, TypeOK, PreparePc, Content
<1>6. CASE PrepareDies
  BY <1>1, <1>2, <1>3, <1>6 DEF PrepareDies, Leave, TypeOK, PreparePc
<1>7. CASE DiscardTree
  BY <1>1, <1>2, <1>7 DEF DiscardTree, TypeOK, PreparePc, FileState, NoBackup
<1>8. CASE Tick
  BY <1>1, <1>2, <1>3, <1>8 DEF Tick, TypeOK, PreparePc, Second, downloadVars
<1>9. CASE RefusePrepare
  BY <1>1, <1>2, <1>3, <1>9 DEF RefusePrepare, Leave, TypeOK, PreparePc
<1>10. CASE StartExtract
  BY <1>1, <1>2, <1>10 DEF StartExtract, TypeOK, PreparePc, FileState
<1>11. CASE FinishExtract
  <2>1. files["overlay"] \in Content
    BY <1>2 DEF DownloadTypeOK, Archive
  <2> QED BY <1>1, <1>2, <1>11, <2>1 DEF FinishExtract, TypeOK, PreparePc, FileState
<1>12. CASE GenerateConfig
  BY <1>1, <1>2, <1>12 DEF GenerateConfig, TypeOK, PreparePc
<1>13. CASE WriteReport
  BY <1>1, <1>2, <1>3, <1>13 DEF WriteReport, Leave, TypeOK, PreparePc
<1>14. CASE RefuseApply
  BY <1>1, <1>2, <1>3, <1>14 DEF RefuseApply, Leave, TypeOK, PreparePc
<1>15. CASE MakeBackup
  BY <1>1, <1>2, <1>15 DEF MakeBackup, TypeOK, PreparePc
<1>16. CASE SkipSave
  BY <1>1, <1>2, <1>16 DEF SkipSave, TypeOK, PreparePc, treeVars
<1>17. CASE BeginSave
  BY <1>1, <1>2, <1>17 DEF BeginSave, TypeOK, PreparePc, FileState
<1>18. CASE EndSave
  BY <1>1, <1>2, <1>18 DEF EndSave, TypeOK, PreparePc
<1>19. CASE BeginWrite
  BY <1>1, <1>2, <1>19 DEF BeginWrite, TypeOK, PreparePc, FileState
<1>20. CASE EndWrite
  BY <1>1, <1>2, <1>3, <1>20 DEF EndWrite, Written, TypeOK, PreparePc, FileState, Entry
<1>21. CASE WriteManifest
  BY <1>1, <1>2, <1>3, <1>21 DEF WriteManifest, Leave, TypeOK, PreparePc
<1> QED
  BY <1>4, <1>5, <1>6, <1>7, <1>8, <1>9, <1>10, <1>11, <1>12, <1>13, <1>14, <1>15, <1>16, <1>17,
     <1>18, <1>19, <1>20, <1>21 DEF TreeMove, PrepareStep, ApplyStep

-----------------------------------------------------------------------------
(* The download *)

LEMMA DownloadKept ==
  ASSUME TypeOK, DownloadOK, DownloadMove
  PROVE  DownloadOK'
<1>1. /\ files \in [Archive -> Content] /\ item \in {1, 2} /\ Order[item] \in Archive
      /\ Order[item] = IF item = 1 THEN "bundle" ELSE "base"
      /\ "bundle" \in Archive /\ "base" \in Archive /\ "overlay" \in Archive /\ Len(Order) = 2
  BY ItemFetched, OrderShape DEF TypeOK, DownloadTypeOK, Archive, Fetched
<1>2. Stop(TRUE) \/ Stop(FALSE) => item' = 1 /\ pc' = "idle"
  BY DEF Stop
<1>3. CASE pc' = "idle" /\ item' = 1
  BY <1>3 DEF DownloadOK, DownloadPc, Attempting, Unpacking
<1>4. CASE StartDownload
  BY <1>4 DEF StartDownload, DownloadOK, DownloadPc, Attempting, Unpacking, Good
<1>5. CASE CheckPresent
  BY <1>1, <1>5
  DEF CheckPresent, Verified, NextItem, DownloadOK, DownloadPc, Attempting, Unpacking, Good
<1>6. CASE BeginAttempt
  BY <1>1, <1>6 DEF BeginAttempt, Missing, DownloadOK, DownloadPc, Attempting, Unpacking, Good
<1>7. CASE ReadPage \/ OpenPart \/ ReadBlock \/ EndOfBody \/ Retry
  BY <1>1, <1>7
  DEF ReadPage, OpenPart, ReadBlock, EndOfBody, Retry, InAttempt, DownloadOK, DownloadPc, Attempting,
      Unpacking, Good
<1>8. CASE Publish
  BY <1>1, <1>8
  DEF Publish, DigestMatches, NextItem, DownloadOK, DownloadPc, Attempting, Unpacking, Good
<1>9. CASE OpenOverlay \/ CopyOverlay
  BY <1>1, <1>9
  DEF OpenOverlay, CopyOverlay, DownloadOK, DownloadPc, Attempting, Unpacking, Good
<1>10. CASE RemoveRefused
  BY <1>10 DEF RemoveRefused, DownloadOK, DownloadPc, Attempting, Unpacking
<1> QED
  BY <1>2, <1>3, <1>4, <1>5, <1>6, <1>7, <1>8, <1>9, <1>10
  DEF DownloadMove, DownloadStep, CheckRefused, GiveUp, OverlayPresent, OverlayRefused,
      OverlayVerified, OverlayUnlinked, DownloadDies

LEMMA DownloadIdle ==
  ASSUME TypeOK, DownloadOK, TreeMove
  PROVE  DownloadOK'
<1>1. /\ UNCHANGED <<files, item, reported>>
      /\ pc \in {"idle"} \cup PreparePc /\ pc' \in {"idle"} \cup PreparePc
  BY TreeTypes
<1>2. pc \notin DownloadPc /\ pc' \notin DownloadPc
  BY <1>1 DEF PreparePc, DownloadPc
<1> QED BY <1>1, <1>2 DEF DownloadOK, DownloadPc, Attempting, Unpacking

-----------------------------------------------------------------------------
(* Backups *)

LEMMA ApplyKept ==
  ASSUME TypeOK, ApplyOK, TreeMove
  PROVE  ApplyOK'
<1>1. /\ second \in Second /\ at \in Entry /\ at \in Nat /\ Entry \subseteq Nat
      /\ backup \in [Second -> [made : BOOLEAN, saved : [Entry -> FileState], manifest : BOOLEAN]]
      /\ entry \in [Entry -> FileState]
  BY DEF TypeOK, Entry
<1>2. CASE StartPrepare
  BY <1>2 DEF StartPrepare, ApplyOK, Applying, Finishing, treeVars
<1>3. CASE StartApply
  BY <1>3 DEF StartApply, ApplyOK, Applying, Finishing
<1>4. CASE Leave /\ UNCHANGED backup
  BY <1>4 DEF Leave, ApplyOK, Applying, Finishing
<1>5. CASE DiscardTree
  BY <1>5 DEF DiscardTree, ApplyOK, Applying, Finishing, NoBackup
<1>6. CASE Tick
  BY <1>6 DEF Tick, ApplyOK, Applying, Finishing, downloadVars
<1>7. CASE StartExtract \/ FinishExtract \/ GenerateConfig
  BY <1>7 DEF StartExtract, FinishExtract, GenerateConfig, ApplyOK, Applying, Finishing
<1>8. CASE MakeBackup
  <2>1. \A s \in Second : backup'[s].saved = backup[s].saved
                          /\ backup'[s].made = (backup[s].made \/ s = second)
    BY <1>1, <1>8 DEF MakeBackup
  <2>2. \A e \in Entry : backup[second].saved[e] = "none"
    BY <1>1, <1>8 DEF MakeBackup, ApplyOK
  <2> QED BY <1>1, <1>8, <2>1, <2>2 DEF MakeBackup, ApplyOK, Applying, Finishing
<1>9. CASE SkipSave
  BY <1>9 DEF SkipSave, IsFile, ApplyOK, Applying, Finishing, treeVars
<1>10. CASE BeginSave \/ EndSave
  <2>1. PICK what \in {"torn", entry[at]} : backup' = [backup EXCEPT ![second].saved[at] = what]
    BY <1>10 DEF BeginSave, EndSave
  <2>2. \A s \in Second, e \in Entry :
          /\ backup'[s].saved[e] = IF s = second /\ e = at THEN what ELSE backup[s].saved[e]
          /\ backup'[s].made = backup[s].made
    BY <1>1, <2>1
  <2> QED BY <1>1, <1>10, <2>1, <2>2 DEF BeginSave, EndSave, ApplyOK, Applying, Finishing
<1>11. CASE BeginWrite
  BY <1>11 DEF BeginWrite, ApplyOK, Applying, Finishing
<1>12. CASE EndWrite
  <2>1. at < EntryCount => at + 1 \in Entry /\ at + 1 > at
    BY <1>1, TreeAssumption DEF Entry
  <2>2. \A e \in Entry : e > at + 1 => e > at
    BY <1>1
  <2> QED BY <1>12, <2>1, <2>2 DEF EndWrite, ApplyOK, Applying, Finishing
<1>13. CASE WriteManifest
  <2>1. \A s \in Second : backup'[s].saved = backup[s].saved /\ backup'[s].made = backup[s].made
    BY <1>1, <1>13 DEF WriteManifest
  <2> QED BY <1>1, <1>13, <2>1 DEF WriteManifest, Leave, ApplyOK, Applying, Finishing
<1> QED
  BY <1>2, <1>3, <1>4, <1>5, <1>6, <1>7, <1>8, <1>9, <1>10, <1>11, <1>12, <1>13
  DEF TreeMove, PrepareStep, ApplyStep, PrepareDies, RefusePrepare, WriteReport, RefuseApply

-----------------------------------------------------------------------------
(* The preparation *)

LEMMA PrepareKept ==
  ASSUME TypeOK, ApplyOK, PrepareOK, TreeMove
  PROVE  PrepareOK'
<1>1. /\ second \in Second /\ at \in Entry /\ at \in Nat /\ Entry \subseteq Nat
      /\ backup \in [Second -> [made : BOOLEAN, saved : [Entry -> FileState], manifest : BOOLEAN]]
      /\ entry \in [Entry -> FileState] /\ UNCHANGED files
      /\ caller \in {"prepare", "owner"}
  BY TreeTypes DEF TypeOK, Entry
<1>2. CASE StartPrepare
  BY <1>2 DEF StartPrepare, PrepareOK, Applying, Finishing, treeVars
<1>3. CASE StartApply
  BY <1>3 DEF StartApply, PrepareOK, Applying, Finishing
<1>4. CASE Leave
  BY <1>4 DEF Leave, PrepareOK, Applying, Finishing
<1>5. CASE DiscardTree \/ Tick
  BY <1>5 DEF DiscardTree, Tick, PrepareOK, Applying, Finishing, downloadVars
<1>6. CASE StartExtract
  BY <1>1, <1>6
  DEF StartExtract, ArchivesAccepted, DigestMatches, PrepareOK, Applying, Finishing, Good
<1>7. CASE FinishExtract
  BY <1>1, <1>7 DEF FinishExtract, PrepareOK, Applying, Finishing, Good
<1>8. CASE GenerateConfig
  BY <1>1, <1>8 DEF GenerateConfig, PrepareOK, Applying, Finishing, Good
<1>9. CASE MakeBackup
  <2>1. at = 1 /\ \A e \in Entry : ~(e < at)
    BY <1>1, <1>9 DEF MakeBackup, ApplyOK, Applying, Finishing, Entry
  <2> QED BY <1>1, <1>9, <2>1 DEF MakeBackup, PrepareOK, Applying, Finishing, Good
<1>10. CASE SkipSave \/ BeginSave \/ EndSave
  BY <1>1, <1>10
  DEF SkipSave, BeginSave, EndSave, PrepareOK, Applying, Finishing, Good, treeVars
<1>11. CASE BeginWrite
  <2>1. \A e \in Entry : e < at => entry'[e] = entry[e]
    BY <1>1, <1>11 DEF BeginWrite
  <2> QED BY <1>1, <1>11, <2>1 DEF BeginWrite, PrepareOK, Applying, Finishing, Good
<1>12. CASE EndWrite
  <2>1. \A e \in Entry : entry'[e] = IF e = at THEN Written ELSE entry[e]
    BY <1>1, <1>12 DEF EndWrite
  <2>2. caller = "prepare" => Written = "new"
    BY <1>12 DEF EndWrite, PrepareOK, Applying, Written
  <2>3. \A e \in Entry : e < at + 1 => e = at \/ e < at
    BY <1>1
  <2>4. ~(at < EntryCount) => at = EntryCount
    BY <1>1, TreeAssumption DEF Entry
  <2> QED BY <1>1, <1>12, <2>1, <2>2, <2>3, <2>4 DEF EndWrite, PrepareOK, Applying, Finishing, Good
<1>13. CASE WriteManifest /\ ~Leave
  <2>1. backup'[second].manifest
    BY <1>1, <1>13 DEF WriteManifest
  <2>2. /\ pc = "manifest" /\ caller = "prepare" /\ at = EntryCount /\ entry[at] = "new"
        /\ \A e \in Entry : e < at => entry[e] = "new"
    BY <1>13 DEF WriteManifest, PrepareOK, Applying
  <2>3. \A e \in Entry : e < at \/ e = at
    BY <1>1, <2>2, TreeAssumption DEF Entry
  <2> QED BY <1>1, <1>13, <2>1, <2>2, <2>3 DEF WriteManifest, PrepareOK, Applying, Finishing, Good
<1> QED
  BY <1>2, <1>3, <1>4, <1>5, <1>6, <1>7, <1>8, <1>9, <1>10, <1>11, <1>12, <1>13
  DEF TreeMove, PrepareStep, ApplyStep, PrepareDies, RefusePrepare, WriteReport, RefuseApply

\* Whoever overwrites a file has its original in a backup.
LEMMA OriginalsStay ==
  ASSUME TypeOK, ApplyOK, OriginalsKept, TreeMove
  PROVE  OriginalsKept'
<1>1. /\ second \in Second /\ at \in Entry /\ Existing \subseteq Entry
      /\ backup \in [Second -> [made : BOOLEAN, saved : [Entry -> FileState], manifest : BOOLEAN]]
      /\ entry \in [Entry -> FileState]
  BY TreeAssumption DEF TypeOK
<1>2. CASE UNCHANGED <<base, entry, backup>>
  BY <1>2 DEF OriginalsKept
<1>3. CASE DiscardTree \/ StartExtract
  BY <1>3 DEF DiscardTree, StartExtract, OriginalsKept
<1>4. CASE FinishExtract
  BY <1>1, <1>4 DEF FinishExtract, OriginalsKept
<1>5. CASE MakeBackup \/ WriteManifest
  <2>1. \A s \in Second : backup'[s].saved = backup[s].saved
    BY <1>1, <1>5 DEF MakeBackup, WriteManifest
  <2> QED BY <1>5, <2>1 DEF MakeBackup, WriteManifest, OriginalsKept
<1>6. CASE BeginSave \/ EndSave
  <2>1. PICK what : backup' = [backup EXCEPT ![second].saved[at] = what]
    BY <1>6 DEF BeginSave, EndSave
  <2>2. \A s \in Second, e \in Entry :
          backup'[s].saved[e] = IF s = second /\ e = at THEN what ELSE backup[s].saved[e]
    BY <1>1, <2>1
  <2>3. backup[second].saved[at] # "old"
    BY <1>6 DEF BeginSave, EndSave, ApplyOK, Applying
  <2>4. \A s \in Second, e \in Entry : backup[s].saved[e] = "old" => backup'[s].saved[e] = "old"
    BY <2>2, <2>3
  <2> QED BY <1>1, <1>6, <2>4 DEF BeginSave, EndSave, OriginalsKept
<1>7. CASE BeginWrite \/ EndWrite
  <2>1. \A e \in Entry : e # at => entry'[e] = entry[e]
    BY <1>1, <1>7 DEF BeginWrite, EndWrite
  <2>2. UNCHANGED <<base, backup>> /\ (pc = "write" \/ pc = "writing")
    BY <1>7 DEF BeginWrite, EndWrite
  <2>3. entry[at] # "old" \/ backup[second].saved[at] = "old"
    BY <2>2 DEF ApplyOK, Applying
  <2> QED BY <1>1, <2>1, <2>2, <2>3 DEF OriginalsKept
<1> QED
  BY <1>2, <1>3, <1>4, <1>5, <1>6, <1>7
  DEF TreeMove, PrepareStep, ApplyStep, StartPrepare, StartApply, PrepareDies, Tick, RefusePrepare,
      GenerateConfig, WriteReport, RefuseApply, SkipSave, treeVars

-----------------------------------------------------------------------------
(* The invariant *)

LEMMA InitIInv == Init => IInv
<1> SUFFICES ASSUME Init PROVE IInv
  OBVIOUS
<1>1. /\ 1 \in Entry /\ 1 \in Second /\ 1 \in 1..Attempts /\ 0 \in 0..(Limit + 1) /\ 1 \in 1..Len(Order)
  BY TreeAssumption, DownloadAssumption, OrderShape DEF Entry, Second
<1>2. TypeOK
  BY <1>1
  DEF Init, DownloadInit, TreeInit, TypeOK, DownloadTypeOK, Content, FileState, NoBackup
<1>3. DownloadOK /\ ApplyOK /\ PrepareOK /\ OriginalsKept
  BY DEF Init, DownloadInit, TreeInit, DownloadOK, ApplyOK, PrepareOK, OriginalsKept, NoBackup,
         DownloadPc, Attempting, Unpacking, Applying, Finishing
<1> QED BY <1>2, <1>3 DEF IInv

LEMMA NextIInv == IInv /\ [Next]_vars => IInv'
<1> SUFFICES ASSUME IInv, [Next]_vars PROVE IInv'
  OBVIOUS
<1>1. CASE DownloadMove
  <2>1. /\ TypeOK' /\ UNCHANGED <<base, entry, backup, second, at, zip, caller, config, report>>
        /\ pc \in {"idle"} \cup DownloadPc /\ pc' \in {"idle"} \cup DownloadPc
    BY <1>1, DownloadTypes DEF IInv
  <2>2. DownloadOK'
    BY <1>1, DownloadKept DEF IInv
  <2>3. ApplyOK'
    BY <2>1 DEF IInv, ApplyOK, Applying, Finishing, DownloadPc
  <2>4. PrepareOK'
    BY <2>1 DEF IInv, PrepareOK, Applying, Finishing, DownloadPc
  <2>5. OriginalsKept'
    BY <2>1 DEF IInv, OriginalsKept
  <2> QED BY <2>1, <2>2, <2>3, <2>4, <2>5 DEF IInv
<1>2. CASE TreeMove
  BY <1>2, TreeTypes, DownloadIdle, ApplyKept, PrepareKept, OriginalsStay DEF IInv
<1>3. CASE UNCHANGED vars
  BY <1>3
  DEF vars, downloadVars, treeVars, IInv, TypeOK, DownloadTypeOK, DownloadOK, ApplyOK, PrepareOK,
      OriginalsKept, Good
<1> QED BY <1>1, <1>2, <1>3, Moves

\* What the download, the preparation and the application of the overlay keep true, whatever is killed.
THEOREM Invariant == Spec => []IInv
  BY InitIInv, NextIInv, PTL DEF Spec

-----------------------------------------------------------------------------
(* The properties *)

\* Contents, positions and backups keep their types through every kill and every repetition.
THEOREM TypeCorrect == Spec => []TypeOK
<1>1. IInv => TypeOK
  BY DEF IInv
<1> QED BY <1>1, Invariant, PTL

\* apply_samsung_czi4.py makes a directory of its own for each application and copies a file there
\* before it writes over it: the original of every file of the base survives.
THEOREM OriginalsSurvive == Spec => []OriginalsKept
<1>1. IInv => OriginalsKept
  BY DEF IInv
<1> QED BY <1>1, Invariant, PTL

\* prepare_official_a17.sh writes its report after everything the report says: only of accepted
\* archives, a whole base, the whole overlay, a manifest and a configuration.
THEOREM ReportsAWholeTree == Spec => PreparedIsWhole
<1> DEFINE Whole == report' /\ ~report => /\ base = "whole" /\ config
                                          /\ \A e \in Entry : entry[e] = "new"
                                          /\ \E s \in Second : backup[s].manifest
                                          /\ files["base"] = "good"
<1>1. IInv /\ [Next]_vars => [Whole]_vars
  <2> SUFFICES ASSUME IInv, Next PROVE Whole
    OBVIOUS
  <2>1. CASE DownloadMove
    BY <2>1 DEF DownloadMove, treeVars
  <2>2. CASE TreeMove /\ ~WriteReport
    BY <2>2
    DEF TreeMove, PrepareStep, ApplyStep, StartPrepare, StartApply, PrepareDies, DiscardTree, Tick,
        RefusePrepare, StartExtract, FinishExtract, GenerateConfig, RefuseApply, MakeBackup, SkipSave,
        BeginSave, EndSave, BeginWrite, EndWrite, WriteManifest, treeVars
  <2>3. CASE WriteReport
    <3>1. pc = "report" /\ second \in Second
      BY <2>3 DEF WriteReport, IInv, TypeOK
    <3> QED BY <3>1 DEF IInv, PrepareOK, Finishing, Applying, Good
  <2> QED BY <2>1, <2>2, <2>3, Moves
<1> QED BY <1>1, Invariant, PTL DEF Spec, PreparedIsWhole

-----------------------------------------------------------------------------
(* The download implements SourceStore *)

Contents == [a \in Archive |-> Standing(a)]

\* What stands under the final names, and how a step may change it.
LEMMA StandingShape ==
  ASSUME NEW a \in Archive
  PROVE  /\ Contents[a] = Standing(a) /\ Contents'[a] = Standing(a)'
         /\ Standing(a) \in {"missing", "verified", "rejected"}
  BY DEF Contents, Standing

LEMMA OneStanding ==
  ASSUME NEW a \in Archive, NEW v, Standing(a)' = v,
         \A b \in Archive \ {a} : Standing(b)' = Standing(b)
  PROVE  Contents' = [Contents EXCEPT ![a] = v]
  BY DEF Contents

LEMMA SameStanding ==
  ASSUME \A b \in Archive : Standing(b)' = Standing(b)
  PROVE  Contents' = Contents
  BY DEF Contents

LEMMA Appears ==
  ASSUME NEW a \in Archive, Standing(a) = "missing", Standing(a)' = "verified",
         \A b \in Archive \ {a} : Standing(b)' = Standing(b),
         reported' = reported \/ (reported' = TRUE /\ \A b \in Archive : Standing(b)' = "verified")
  PROVE  Store!Next
<1>1. Contents' = [Contents EXCEPT ![a] = "verified"] /\ Contents[a] = "missing"
  BY OneStanding, StandingShape
<1>2. reported' \in {reported, Store!AllVerified'}
  <2>1. CASE reported' = reported
    BY <2>1
  <2>2. CASE reported' = TRUE /\ \A b \in Archive : Standing(b)' = "verified"
    <3>1. Store!AllVerified' = TRUE
      BY <2>2 DEF Store!AllVerified
    <3> QED BY <2>2, <3>1
  <2> QED BY <2>1, <2>2
<1>3. Store!Publish(a)
  BY <1>1, <1>2 DEF Store!Publish, Contents
<1> QED BY <1>3 DEF Store!Next

LEMMA Restarts ==
  ASSUME reported' = FALSE, \A b \in Archive : Standing(b)' = Standing(b)
  PROVE  Store!Next
<1>1. Contents' = Contents
  BY SameStanding
<1> QED BY <1>1 DEF Store!Next, Store!Restart, Contents

LEMMA Stays ==
  ASSUME reported' = reported, \A b \in Archive : Standing(b)' = Standing(b)
  PROVE  UNCHANGED Store!vars
<1>1. Contents' = Contents
  BY SameStanding
<1> QED BY <1>1 DEF Store!vars, Contents

LEMMA StepImplements == IInv /\ [Next]_vars => [Store!Next]_(Store!vars)
<1> SUFFICES ASSUME IInv, [Next]_vars PROVE Store!Next \/ UNCHANGED Store!vars
  OBVIOUS
<1>1. /\ files \in [Archive -> Content] /\ Order[item] \in Archive /\ Order[item] # "overlay"
      /\ "bundle" \in Archive /\ "base" \in Archive /\ "overlay" \in Archive
      /\ Archive = {"bundle", "base", "overlay"} /\ DownloadOK
  BY ItemFetched DEF IInv, TypeOK, DownloadTypeOK, Archive, Fetched
<1>2. /\ Stop(TRUE) => pc' = "idle" /\ reported' = TRUE
      /\ Stop(FALSE) => pc' = "idle" /\ reported' = FALSE
  BY DEF Stop
<1> DEFINE Same == \A b \in Archive : Standing(b)' = Standing(b)
<1>3. UNCHANGED files /\ pc \notin {"copy", "recheck"} /\ pc' \notin {"copy", "recheck"} => Same
  BY DEF Standing, Missing, Verified
<1>4. CASE StartDownload \/ CheckRefused \/ GiveUp \/ OverlayRefused
  <2>1. /\ UNCHANGED files /\ reported' = FALSE
        /\ pc \notin {"copy", "recheck"} /\ pc' \notin {"copy", "recheck"}
    BY <1>2, <1>4 DEF StartDownload, CheckRefused, GiveUp, InAttempt, OverlayRefused
  <2> QED BY <1>3, <2>1, Restarts
<1>5. CASE CheckPresent \/ BeginAttempt \/ ReadPage \/ OpenPart \/ ReadBlock \/ EndOfBody \/ Retry
  <2>1. /\ UNCHANGED <<files, reported>>
        /\ pc \notin {"copy", "recheck"} /\ pc' \notin {"copy", "recheck"}
    BY <1>5
    DEF CheckPresent, NextItem, BeginAttempt, ReadPage, OpenPart, ReadBlock, EndOfBody, Retry, InAttempt
  <2> QED BY <1>3, <2>1, Stays
<1>6. CASE Publish
  <2>1. PICK a \in Archive : a = Order[item] /\ a # "overlay"
    BY <1>1
  <2>2. /\ files' = [files EXCEPT ![a] = "good"] /\ files[a] = "absent" /\ reported' = reported
        /\ pc = "verify" /\ pc' \in {"check", "unpack"}
    BY <1>1, <1>6, <2>1 DEF Publish, DigestMatches, NextItem, DownloadOK, Attempting
  <2>3. Standing(a) = "missing" /\ Standing(a)' = "verified"
    BY <1>1, <2>1, <2>2 DEF Standing, Missing, Verified
  <2>4. \A b \in Archive \ {a} : files'[b] = files[b]
    BY <1>1, <2>2
  <2>5. \A b \in Archive \ {a} : Standing(b)' = Standing(b)
    BY <2>2, <2>4 DEF Standing, Missing, Verified
  <2>6. reported' = reported
    BY <2>2
  <2> QED BY <2>3, <2>5, <2>6, Appears
<1>7. CASE OverlayPresent
  <2>1. /\ UNCHANGED files /\ reported' = TRUE /\ pc = "unpack" /\ pc' = "idle"
        /\ \A b \in Archive : files[b] = "good"
    BY <1>1, <1>2, <1>7 DEF OverlayPresent, Verified, DownloadOK, Unpacking, Good
  <2>2. \A b \in Archive : Standing(b) = "verified"
    BY <2>1 DEF Standing, Missing, Verified
  <2>3. Contents' = Contents
    BY <1>3, <2>1, SameStanding
  <2> QED BY <2>1, <2>2, <2>3 DEF Store!Next, Store!Report, Store!AllVerified, Contents
<1>8. CASE OpenOverlay \/ CopyOverlay
  <2>1. /\ reported' = reported /\ \A b \in Archive \ {"overlay"} : files'[b] = files[b]
        /\ pc' \in {"copy", "recheck"} /\ (pc = "copy" \/ files["overlay"] = "absent")
    BY <1>1, <1>8 DEF OpenOverlay, CopyOverlay, Missing
  <2>2. Same
    BY <2>1 DEF Standing, Missing, Verified
  <2> QED BY <2>1, <2>2, Stays
<1>9. CASE OverlayVerified
  <2>1. /\ UNCHANGED files /\ reported' = TRUE /\ pc = "recheck" /\ pc' = "idle"
        /\ \A b \in Archive : files[b] = "good"
    BY <1>1, <1>2, <1>9 DEF OverlayVerified, DownloadOK, Unpacking, Good
  <2>2. Standing("overlay") = "missing" /\ \A b \in Archive : Standing(b)' = "verified"
    BY <2>1 DEF Standing, Missing, Verified
  <2>3. \A b \in Archive \ {"overlay"} : Standing(b)' = Standing(b)
    BY <2>1 DEF Standing, Missing, Verified
  <2> QED BY <1>1, <2>1, <2>2, <2>3, Appears
<1>10. CASE OverlayUnlinked
  <2>1. /\ \A b \in Archive \ {"overlay"} : files'[b] = files[b]
        /\ files'["overlay"] = "absent" /\ reported' = FALSE /\ pc = "recheck"
    BY <1>1, <1>2, <1>10 DEF OverlayUnlinked
  <2>2. Same
    BY <2>1 DEF Standing, Missing, Verified
  <2> QED BY <2>1, <2>2, Restarts
<1>11. CASE DownloadDies
  <2>1. UNCHANGED files /\ reported' = FALSE /\ reported' = reported /\ pc' = "idle"
    BY <1>1, <1>2, <1>11 DEF DownloadDies, DownloadOK, IInv, TypeOK, DownloadTypeOK
  <2>2. \A b \in Archive \ {"overlay"} : Standing(b)' = Standing(b)
    BY <2>1 DEF Standing, Missing, Verified
  <2>3. CASE pc = "copy"
    <3>1. Standing("overlay") = "missing" /\ Standing("overlay")' = "rejected"
      BY <1>1, <2>1, <2>3 DEF Standing, Missing, Verified, DownloadOK
    <3>2. Contents' = [Contents EXCEPT !["overlay"] = "rejected"] /\ Contents["overlay"] = "missing"
      BY <1>1, <2>2, <3>1, OneStanding, StandingShape
    <3>3. Store!Spoil("overlay")
      BY <2>1, <3>2 DEF Store!Spoil, Contents
    <3> QED BY <1>1, <3>3 DEF Store!Next
  <2>4. CASE pc = "recheck"
    <3>1. Standing("overlay") = "missing" /\ Standing("overlay")' = "verified"
      BY <1>1, <2>1, <2>4 DEF Standing, Missing, Verified, DownloadOK, Good
    <3> QED BY <1>1, <2>1, <2>2, <3>1, Appears
  <2>5. CASE pc \notin {"copy", "recheck"}
    BY <1>3, <2>1, <2>5, Restarts
  <2> QED BY <2>3, <2>4, <2>5
<1>12. CASE RemoveRefused
  <2>1. PICK a \in Archive : Refused(a) /\ files' = [files EXCEPT ![a] = "absent"]
    BY <1>12 DEF RemoveRefused
  <2>2. pc = "idle" /\ pc' = "idle" /\ reported' = reported
    BY <1>12 DEF RemoveRefused
  <2>3. Standing(a) = "rejected" /\ Standing(a)' = "missing"
    BY <1>1, <2>1, <2>2 DEF Standing, Missing, Verified, Refused
  <2>4. \A b \in Archive \ {a} : Standing(b)' = Standing(b)
    BY <1>1, <2>1, <2>2 DEF Standing, Missing, Verified
  <2>5. Contents' = [Contents EXCEPT ![a] = "missing"] /\ Contents[a] = "rejected"
    BY <2>3, <2>4, OneStanding, StandingShape
  <2>6. Store!Discard(a)
    BY <2>2, <2>5 DEF Store!Discard, Contents
  <2> QED BY <2>6 DEF Store!Next
<1>13. CASE TreeMove
  <2>1. UNCHANGED <<files, reported>> /\ pc \notin {"copy", "recheck"} /\ pc' \notin {"copy", "recheck"}
    BY <1>13, TreeTypes DEF IInv, PreparePc
  <2> QED BY <1>3, <2>1, Stays
<1>14. CASE UNCHANGED vars
  <2>1. Same /\ reported' = reported
    BY <1>14 DEF vars, downloadVars, Standing, Missing, Verified
  <2> QED BY <2>1, Stays
<1> QED
  BY <1>4, <1>5, <1>6, <1>7, <1>8, <1>9, <1>10, <1>11, <1>12, <1>13, <1>14, Moves
  DEF DownloadMove, DownloadStep

LEMMA InitImplements == Init => Store!Init
<1> SUFFICES ASSUME Init PROVE Store!Init
  OBVIOUS
<1>1. \A a \in Archive : Contents[a] \in {"missing", "verified", "rejected"}
  BY StandingShape
<1>2. Contents \in [Archive -> {"missing", "verified", "rejected"}]
  BY <1>1 DEF Contents
<1> QED BY <1>2 DEF Store!Init, Store!Standing, Contents, Init, DownloadInit

\* download_mediafire_sources.py, as the store it promises: a digest is right before a name is given,
\* what stands is never overwritten, and success is reported with all archives verified.
THEOREM ImplementsSourceStore == Spec => ImplementsStore
<1>1. Spec => Store!Init /\ [][Store!Next]_(Store!vars)
  BY InitImplements, StepImplements, Invariant, PTL DEF Spec
<1> QED BY <1>1 DEF ImplementsStore, Store!Spec
================================================================================
