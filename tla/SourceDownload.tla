----------------------------- MODULE SourceDownload ----------------------------
(***************************************************************************)
(* scripts/download_mediafire_sources.py: a bundle and a base archive are  *)
(* fetched, each under a ".part" name that is renamed once its digest is   *)
(* right, and the overlay is then unpacked from the bundle.  A run may be  *)
(* killed at any step and started again on what it left.                   *)
(*                                                                         *)
(* The bytes of an archive are blocks of 1 MiB; a block is right or wrong, *)
(* and the digest is right when exactly the right blocks have arrived.     *)
(***************************************************************************)
EXTENDS Naturals, Sequences

CONSTANTS
    Size,       \* blocks of each archive
    Limit,      \* blocks max_bytes allows
    Attempts    \* attempts for each archive (the code's 3)

ASSUME DownloadAssumption == /\ Size \in Nat /\ Limit \in Nat /\ Attempts \in Nat
                             /\ 1 <= Size /\ Size <= Limit /\ 1 <= Attempts

VARIABLES
    files,      \* archive -> content under its final name
    part,       \* archive -> a ".part" file exists
    pc,         \* where the running script is; "idle" between scripts
    item,       \* position in Order of the archive being fetched
    attempt,    \* attempt for it
    total,      \* blocks received in this attempt, at most Limit + 1
    sound,      \* every block received so far is the right one
    reported    \* the last download ended with success

downloadVars == <<files, part, pc, item, attempt, total, sound, reported>>

Order    == <<"bundle", "base">>
Fetched  == {"bundle", "base"}
Archive  == Fetched \cup {"overlay"}
Content  == {"absent", "partial", "good", "other"}
DownloadPc == {"check", "page", "open", "body", "verify", "unpack", "copy", "recheck"}

\* Names a page may link to: the share pages, the servers of the files, others.
Hosts == {"mediafire", "download", "usercontent", "elsewhere"}

(***************************************************************************)
(* Links                                                                   *)
(***************************************************************************)
HostAllowed(h) == h # "elsewhere"

DirectLink(h) == HostAllowed(h) /\ h \in {"download", "usercontent"}

\* A page without a direct link (captcha, limit, changed template) is an error.
OffersDownload(links) == \E h \in links : DirectLink(h)

(***************************************************************************)
(* Files                                                                   *)
(***************************************************************************)
Missing(a)  == files[a] = "absent"
Verified(a) == files[a] = "good"
Refused(a)  == ~Missing(a) /\ ~Verified(a)

\* What the blocks of this attempt amount to.
Received == IF ~sound \/ total > Size THEN "other"
            ELSE IF total = Size THEN "good" ELSE "partial"

TooLarge(n) == n > Limit

\* Fault: any complete archive passes.
DigestMatchesAny(content) == content # "partial"

DigestMatches(content) == content = "good"

(***************************************************************************)
(* The run                                                                 *)
(***************************************************************************)
DownloadInit == /\ files \in [Archive -> {"absent", "good", "other"}]
                /\ part \in [Fetched -> BOOLEAN]
                /\ pc = "idle" /\ item = 1 /\ attempt = 1
                /\ total = 0 /\ sound = TRUE /\ reported = FALSE

\* The script ends, with success or not, and its variables with it.
Stop(success) == /\ pc' = "idle" /\ item' = 1 /\ attempt' = 1
                 /\ total' = 0 /\ sound' = TRUE
                 /\ reported' = success

NextItem == IF item < Len(Order)
            THEN pc' = "check" /\ item' = item + 1
            ELSE pc' = "unpack" /\ UNCHANGED item

StartDownload == /\ pc = "idle"
                 /\ pc' = "check" /\ reported' = FALSE
                 /\ UNCHANGED <<files, part, item, attempt, total, sound>>

CheckPresent == /\ pc = "check" /\ Verified(Order[item])
                /\ NextItem
                /\ UNCHANGED <<files, part, attempt, total, sound, reported>>

CheckRefused == /\ pc = "check" /\ Refused(Order[item])
                /\ Stop(FALSE)
                /\ UNCHANGED <<files, part>>

\* A leftover of an earlier run is removed before the page is opened.
BeginAttempt == /\ pc = "check" /\ Missing(Order[item])
                /\ pc' = "page"
                /\ part' = [part EXCEPT ![Order[item]] = FALSE]
                /\ UNCHANGED <<files, item, attempt, total, sound, reported>>

ReadPage == /\ pc = "page"
            /\ \E links \in SUBSET Hosts : OffersDownload(links)
            /\ pc' = "open"
            /\ UNCHANGED <<files, part, item, attempt, total, sound, reported>>

OpenPart == /\ pc = "open"
            /\ pc' = "body" /\ total' = 0 /\ sound' = TRUE
            /\ part' = [part EXCEPT ![Order[item]] = TRUE]
            /\ UNCHANGED <<files, item, attempt, reported>>

\* A block beyond the limit is counted and not written: the attempt fails.
ReadBlock == /\ pc = "body" /\ ~TooLarge(total)
             /\ \E right \in BOOLEAN : sound' = (sound /\ right)
             /\ total' = IF total > Limit THEN total ELSE total + 1
             /\ UNCHANGED <<files, part, pc, item, attempt, reported>>

\* The server may close the connection after any block.
EndOfBody == /\ pc = "body" /\ ~TooLarge(total)
             /\ pc' = "verify"
             /\ UNCHANGED <<files, part, item, attempt, total, sound, reported>>

Publish == /\ pc = "verify" /\ DigestMatches(Received)
           /\ files' = [files EXCEPT ![Order[item]] = Received]
           /\ part' = [part EXCEPT ![Order[item]] = FALSE]
           /\ NextItem
           /\ attempt' = 1 /\ total' = 0 /\ sound' = TRUE
           /\ UNCHANGED reported

\* What the handler catches: network and file errors at any step, a page
\* without a direct link, an oversize or a wrong file.
InAttempt == pc \in {"page", "open", "body", "verify"}

Retry == /\ InAttempt /\ attempt < Attempts
         /\ part' = [part EXCEPT ![Order[item]] = FALSE]
         /\ pc' = "page" /\ attempt' = attempt + 1 /\ total' = 0 /\ sound' = TRUE
         /\ UNCHANGED <<files, item, reported>>

GiveUp == /\ InAttempt /\ attempt = Attempts
          /\ part' = [part EXCEPT ![Order[item]] = FALSE]
          /\ Stop(FALSE)
          /\ UNCHANGED files

\* The overlay: present and right, present and refused, or unpacked.
OverlayPresent == /\ pc = "unpack" /\ Verified("overlay")
                  /\ Stop(TRUE)
                  /\ UNCHANGED <<files, part>>

\* A refused overlay, or a bundle that cannot be read or does not hold it.
OverlayRefused == /\ pc = "unpack" /\ ~Verified("overlay")
                  /\ Stop(FALSE)
                  /\ UNCHANGED <<files, part>>

\* The copy goes straight to the final name, outside the handler.
OpenOverlay == /\ pc = "unpack" /\ Missing("overlay")
               /\ pc' = "copy"
               /\ files' = [files EXCEPT !["overlay"] = "partial"]
               /\ UNCHANGED <<part, item, attempt, total, sound, reported>>

CopyOverlay == /\ pc = "copy"
               /\ pc' = "recheck"
               /\ files' = [files EXCEPT !["overlay"] = files["bundle"]]
               /\ UNCHANGED <<part, item, attempt, total, sound, reported>>

OverlayVerified == /\ pc = "recheck" /\ DigestMatches(files["overlay"])
                   /\ Stop(TRUE)
                   /\ UNCHANGED <<files, part>>

\* A wrong digest, or an error while the copy is read back.
OverlayUnlinked == /\ pc = "recheck"
                   /\ files' = [files EXCEPT !["overlay"] = "absent"]
                   /\ Stop(FALSE)
                   /\ UNCHANGED part

\* Killed, or ended by an exception nothing catches (http.client's own errors
\* in an attempt, any error of the copy): what is on disk stays.
DownloadDies == /\ pc \in DownloadPc
                /\ Stop(FALSE)
                /\ UNCHANGED <<files, part>>

\* The owner removes a file the script refuses to overwrite.
RemoveRefused == /\ pc = "idle"
                 /\ \E a \in Archive : /\ Refused(a)
                                       /\ files' = [files EXCEPT ![a] = "absent"]
                 /\ UNCHANGED <<part, pc, item, attempt, total, sound, reported>>

DownloadStep == \/ CheckPresent \/ CheckRefused \/ BeginAttempt \/ ReadPage
                \/ OpenPart \/ ReadBlock \/ EndOfBody \/ Publish \/ Retry \/ GiveUp
                \/ OverlayPresent \/ OverlayRefused \/ OpenOverlay \/ CopyOverlay
                \/ OverlayVerified \/ OverlayUnlinked

DownloadTypeOK == /\ files \in [Archive -> Content]
                  /\ part \in [Fetched -> BOOLEAN]
                  /\ item \in 1..Len(Order) /\ attempt \in 1..Attempts
                  /\ total \in 0..(Limit + 1)
                  /\ sound \in BOOLEAN /\ reported \in BOOLEAN
================================================================================
