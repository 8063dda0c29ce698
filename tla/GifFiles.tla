------------------------------ MODULE GifFiles ------------------------------
(***************************************************************************)
(* The files of uploaded GIFs (meme-storage.service.ts): an upload waits   *)
(* in quarantine, is converted into a temporary directory, moved to its    *)
(* final places and then gets its row (memes.service.ts); a timer removes  *)
(* what failed uploads and crashes leave behind.                           *)
(***************************************************************************)
EXTENDS FiniteSets

CONSTANTS Uploads

Places == {"upload", "temp", "renditions", "original"}

VARIABLES
    files,          \* upload -> the places where it has files
    hasRow,         \* uploads with a row in memes
    pc,             \* upload -> its next step, "none" before it arrives and "done" after
    busy,           \* the conversion under way (processingQueue runs one at a time)
    aged,           \* uploads whose files are older than the grace period
    slow,           \* history: uploads whose files grew old before they had a row
    cleaner,        \* the clean-up under way: next step, keys listed and old, keys without a row
    up              \* the process runs

vars == <<files, hasRow, pc, busy, aged, slow, cleaner, up>>

Resting == [pc |-> "idle", keys |-> {}, orphans |-> {}]
Waiting == {"queued", "convert", "rename", "original", "insert", "withdraw"}

Init ==
    /\ files = [u \in Uploads |-> {}] /\ hasRow = {} /\ pc = [u \in Uploads |-> "none"]
    /\ busy = {} /\ aged = {} /\ slow = {} /\ cleaner = Resting /\ up = TRUE

Goto(u, to) == pc' = [pc EXCEPT ![u] = to]
Add(u, place) == files' = [files EXCEPT ![u] = @ \cup {place}]
Move(u, from, to) == files' = [files EXCEPT ![u] = (@ \ {from}) \cup {to}]

\* multer stores the upload in quarantine and processUpload queues it.
Upload(u) ==
    /\ up /\ pc[u] = "none"
    /\ Add(u, "upload") /\ Goto(u, "queued")
    /\ UNCHANGED <<hasRow, busy, aged, slow, cleaner, up>>

\* stat and readFile need the file, which the quarantine's clean-up may have removed.
Begin(u) ==
    /\ up /\ pc[u] = "queued" /\ busy = {}
    /\ busy' = {u}
    /\ Goto(u, IF "upload" \in files[u] THEN "convert" ELSE "fail")
    /\ UNCHANGED <<files, hasRow, aged, slow, cleaner, up>>

\* The checks and the conversion into the temporary directory.
Convert(u) ==
    /\ up /\ pc[u] = "convert"
    /\ Add(u, "temp") /\ Goto(u, "rename")
    /\ UNCHANGED <<hasRow, busy, aged, slow, cleaner, up>>

\* Both of them, one after the other: without a row nobody reads the one that is there first.
MoveRenditions(u) ==
    /\ up /\ pc[u] = "rename"
    /\ IF "temp" \in files[u] THEN Add(u, "renditions") /\ Goto(u, "original") ELSE Goto(u, "fail") /\ UNCHANGED files
    /\ UNCHANGED <<hasRow, busy, aged, slow, cleaner, up>>

\* The upload becomes the original, with the time stamp it was stored with; the temporary
\* directory goes; the next upload is taken from the queue.
MoveOriginal(u) ==
    /\ up /\ pc[u] = "original"
    /\ IF "upload" \in files[u]
       THEN /\ files' = [files EXCEPT ![u] = (@ \ {"upload", "temp"}) \cup {"original"}]
            /\ Goto(u, "insert") /\ busy' = {}
       ELSE Goto(u, "fail") /\ UNCHANGED <<files, busy>>
    /\ UNCHANGED <<hasRow, aged, slow, cleaner, up>>

\* A check, a conversion or a rename fails: everything of this upload is removed.
Refuse(u) ==
    /\ up /\ pc[u] \in {"convert", "rename", "original"}
    /\ Goto(u, "fail")
    /\ UNCHANGED <<files, hasRow, busy, aged, slow, cleaner, up>>

RemoveAll(u) ==
    /\ up /\ pc[u] = "fail"
    /\ files' = [files EXCEPT ![u] = {}] /\ Goto(u, "done") /\ busy' = {}
    /\ UNCHANGED <<hasRow, aged, slow, cleaner, up>>

\* upload: the row, or without it the removal of original and renditions.
InsertRow(u) ==
    /\ up /\ pc[u] = "insert"
    /\ hasRow' = hasRow \cup {u} /\ Goto(u, "done")
    /\ UNCHANGED <<files, busy, aged, slow, cleaner, up>>

InsertFails(u) ==
    /\ up /\ pc[u] = "insert"
    /\ files' = [files EXCEPT ![u] = @ \ {"original", "renditions"}] /\ Goto(u, "done")
    /\ UNCHANGED <<hasRow, busy, aged, slow, cleaner, up>>

----------------------------------------------------------------------------
(* cleanupQuarantine and cleanupFinalOrphans, at the start and every hour. *)

ListedOfAnyAge == {u \in Uploads : "original" \in files[u]}
Listed == {u \in aged : "original" \in files[u]}

\* Old uploads and temporary directories go; the originals that may be too old are listed.  The
\* limit is computed when the clean-up starts.
CleanQuarantine ==
    /\ up /\ cleaner.pc = "idle"
    /\ files' = [u \in Uploads |-> IF u \in aged THEN files[u] \ {"upload", "temp"} ELSE files[u]]
    /\ cleaner' = [pc |-> "rows", keys |-> Listed, orphans |-> {}]
    /\ UNCHANGED <<hasRow, pc, busy, aged, slow, up>>

FindOrphans ==
    /\ up /\ cleaner.pc = "rows"
    /\ cleaner' = [cleaner EXCEPT !.pc = "remove", !.orphans = cleaner.keys \ hasRow]
    /\ UNCHANGED <<files, hasRow, pc, busy, aged, slow, up>>

RemoveOrphans ==
    /\ up /\ cleaner.pc = "remove"
    /\ files' = [u \in Uploads |-> IF u \in cleaner.orphans
                                   THEN files[u] \ {"original", "renditions"} ELSE files[u]]
    /\ cleaner' = Resting
    /\ UNCHANGED <<hasRow, pc, busy, aged, slow, up>>

\* The grace period of the files of one upload ends.
GrowOld(u) ==
    /\ files[u] # {} /\ u \notin aged
    /\ aged' = aged \cup {u}
    /\ slow' = IF pc[u] \in Waiting THEN slow \cup {u} ELSE slow
    /\ UNCHANGED <<files, hasRow, pc, busy, cleaner, up>>

Crash ==
    /\ up
    /\ up' = FALSE
    /\ pc' = [u \in Uploads |-> IF pc[u] = "none" THEN "none" ELSE "done"]
    /\ busy' = {} /\ cleaner' = Resting
    /\ UNCHANGED <<files, hasRow, aged, slow>>

\* onModuleInit cleans before it sets the timer.
Restart ==
    /\ ~up
    /\ up' = TRUE
    /\ UNCHANGED <<files, hasRow, pc, busy, aged, slow, cleaner>>

UploadStep(u) ==
    \/ Begin(u) \/ Convert(u) \/ MoveRenditions(u) \/ MoveOriginal(u) \/ RemoveAll(u) \/ InsertRow(u)

Next ==
    \/ \E u \in Uploads : Upload(u) \/ UploadStep(u) \/ Refuse(u) \/ InsertFails(u) \/ GrowOld(u)
    \/ CleanQuarantine \/ FindOrphans \/ RemoveOrphans \/ Crash \/ Restart

Spec == Init /\ [][Next]_vars

----------------------------------------------------------------------------
\* A GIF that has a row has its original and its renditions - crashes, failures and clean-ups at
\* any moment notwithstanding - unless its upload took longer than the grace period.
RowsHaveFiles ==
    \A u \in hasRow : {"original", "renditions"} \subseteq files[u] \/ u \in slow
=============================================================================
