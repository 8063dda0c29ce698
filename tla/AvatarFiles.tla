----------------------------- MODULE AvatarFiles -----------------------------
(***************************************************************************)
(* The picture of one member: the reference in the row and the files it    *)
(* names (member-center.service.ts uploadAvatar, selectAvatar and          *)
(* removeAvatar; avatar-storage.service.ts).  A call reads the reference,  *)
(* writes its own and removes the file of the one it read, in three steps  *)
(* without a transaction.  Uploads wait in a directory of the quarantine,  *)
(* which the clean-up of GIFs (meme-storage.service.ts) removes as a whole *)
(* when nothing has been added to it for long.                             *)
(***************************************************************************)
EXTENDS FiniteSets, SequencesExt

CONSTANTS
    Calls,
    Earlier,     \* an upload of before
    Nothing

VARIABLES
    avatar,      \* a preset, the upload that the row names, or Nothing
    files,       \* uploads whose picture is in its final place
    waiting,     \* upload -> what it has in quarantine
    directory,   \* the quarantine of uploads: "gone", "fresh" or "old"
    queue,       \* uploads that processUpload converts one after the other
    pc, kind, seen,
    sweeping,    \* the clean-up has found the quarantine to be old
    up,
    undone,      \* history: uploads removed because their call failed after it wrote the row
    stray        \* history: files nobody will remove, since a crash, an overlap, or a failed read or removal

vars == <<avatar, files, waiting, directory, queue, pc, kind, seen, sweeping, up, undone, stray>>

Goto(c, to) == pc' = [pc EXCEPT ![c] = to]
Running(c) == up /\ pc[c] \notin {"none", "done"}
Hold(c, things) == waiting' = [waiting EXCEPT ![c] = things] /\ directory' = "fresh"
IsUpload(ref) == ref \in Calls \cup {Earlier}

(***************************************************************************)
(* An upload on its way to its final place.                                *)
(***************************************************************************)
\* multer creates the directory when there is none.
Upload(c) ==
    /\ up /\ pc[c] = "none"
    /\ Goto(c, "queued") /\ kind' = [kind EXCEPT ![c] = "upload"] /\ queue' = Append(queue, c) /\ Hold(c, {"upload"})
    /\ UNCHANGED <<avatar, files, seen, sweeping, up, undone, stray>>

First(c) == Running(c) /\ queue # <<>> /\ Head(queue) = c

Convert(c) ==
    /\ First(c) /\ pc[c] = "queued" /\ "upload" \in waiting[c]
    /\ Goto(c, "rename") /\ Hold(c, {"upload", "temporary"})
    /\ UNCHANGED <<avatar, files, queue, kind, seen, sweeping, up, undone, stray>>

Rename(c) ==
    /\ First(c) /\ pc[c] = "rename" /\ "temporary" \in waiting[c]
    /\ files' = files \cup {c} /\ Goto(c, "clear") /\ Hold(c, {"upload"})
    /\ UNCHANGED <<avatar, queue, kind, seen, sweeping, up, undone, stray>>

\* The picture is not accepted, or is not in quarantine any more.
Refuse(c) ==
    /\ First(c) /\ pc[c] \in {"queued", "rename"} /\ Goto(c, "clear")
    /\ UNCHANGED <<avatar, files, waiting, directory, queue, kind, seen, sweeping, up, undone, stray>>

\* What is left in quarantine goes, and the next upload is processed.
Clear(c) ==
    /\ First(c) /\ pc[c] = "clear" /\ queue' = Tail(queue)
    /\ IF waiting[c] = {} THEN UNCHANGED <<waiting, directory>> ELSE Hold(c, {})
    /\ Goto(c, IF c \in files THEN "read" ELSE "done")
    /\ UNCHANGED <<avatar, files, kind, seen, sweeping, up, undone, stray>>

(***************************************************************************)
(* The row.                                                                *)
(***************************************************************************)
Choose(c, k) ==
    /\ up /\ pc[c] = "none" /\ k \in {"select", "remove"}
    /\ Goto(c, "read") /\ kind' = [kind EXCEPT ![c] = k]
    /\ UNCHANGED <<avatar, files, waiting, directory, queue, seen, sweeping, up, undone, stray>>

Read(c) ==
    /\ Running(c) /\ pc[c] = "read" /\ Goto(c, "write") /\ seen' = [seen EXCEPT ![c] = avatar]
    /\ UNCHANGED <<avatar, files, waiting, directory, queue, kind, sweeping, up, undone, stray>>

\* uploadAvatar reads outside of its try: a picture that is in its place already is not removed.
ReadFails(c) ==
    /\ Running(c) /\ pc[c] = "read" /\ Goto(c, "done")
    /\ stray' = IF kind[c] = "upload" THEN stray \cup {c} ELSE stray
    /\ UNCHANGED <<avatar, files, waiting, directory, queue, kind, seen, sweeping, up, undone>>

Reference(c) == CASE kind[c] = "upload" -> c [] kind[c] = "select" -> "preset" [] kind[c] = "remove" -> Nothing
\* Whoever wrote since c read overlaps with it: nobody will remove that one's file.
Overlapped(c) == {avatar} \ {seen[c]}

WriteRow(c) == Running(c) /\ pc[c] = "write" /\ avatar' = Reference(c)

Write(c) ==
    /\ WriteRow(c) /\ Goto(c, "drop") /\ stray' = stray \cup Overlapped(c)
    /\ UNCHANGED <<files, waiting, directory, queue, kind, seen, sweeping, up, undone>>

\* The row is written, and yet the call fails: what it replaced is never removed, and an upload is.
WriteUnconfirmed(c) ==
    /\ WriteRow(c) /\ stray' = stray \cup Overlapped(c) \cup {seen[c]}
    /\ IF kind[c] = "upload" THEN Goto(c, "undo") /\ undone' = undone \cup {c}
       ELSE Goto(c, "done") /\ UNCHANGED undone
    /\ UNCHANGED <<files, waiting, directory, queue, kind, seen, sweeping, up>>

WriteFails(c) ==
    /\ Running(c) /\ pc[c] = "write" /\ Goto(c, IF kind[c] = "upload" THEN "undo" ELSE "done")
    /\ UNCHANGED <<avatar, files, waiting, directory, queue, kind, seen, sweeping, up, undone, stray>>

Undo(c) ==
    /\ Running(c) /\ pc[c] = "undo" /\ Goto(c, "done") /\ files' = files \ {c}
    /\ UNCHANGED <<avatar, waiting, directory, queue, kind, seen, sweeping, up, undone, stray>>

Drop(c) ==
    /\ Running(c) /\ pc[c] = "drop" /\ Goto(c, "done") /\ files' = files \ {seen[c]}
    /\ UNCHANGED <<avatar, waiting, directory, queue, kind, seen, sweeping, up, undone, stray>>

RemovalFails(c) ==
    /\ Running(c) /\ pc[c] \in {"drop", "undo"} /\ Goto(c, "done")
    /\ stray' = stray \cup {IF pc[c] = "drop" THEN seen[c] ELSE c}
    /\ UNCHANGED <<avatar, files, waiting, directory, queue, kind, seen, sweeping, up, undone>>

(***************************************************************************)
(* The clean-up of the quarantine, crashes and restarts.                   *)
(***************************************************************************)
GrowOld ==
    /\ directory = "fresh" /\ directory' = "old"
    /\ UNCHANGED <<avatar, files, waiting, queue, pc, kind, seen, sweeping, up, undone, stray>>

FindOld ==
    /\ up /\ directory = "old" /\ ~sweeping /\ sweeping' = TRUE
    /\ UNCHANGED <<avatar, files, waiting, directory, queue, pc, kind, seen, up, undone, stray>>

\* It may have been added to since.
RemoveOld ==
    /\ up /\ sweeping /\ sweeping' = FALSE
    /\ directory' = "gone" /\ waiting' = [c \in Calls |-> {}]
    /\ UNCHANGED <<avatar, files, queue, pc, kind, seen, up, undone, stray>>

Crash ==
    /\ up /\ up' = FALSE /\ sweeping' = FALSE /\ queue' = <<>>
    /\ pc' = [c \in Calls |-> IF pc[c] = "none" THEN "none" ELSE "done"]
    /\ stray' = stray \cup (files \ {avatar})
    /\ UNCHANGED <<avatar, files, waiting, directory, kind, seen, undone>>

Restart ==
    /\ ~up /\ up' = TRUE /\ directory' = IF directory = "gone" THEN "fresh" ELSE directory
    /\ UNCHANGED <<avatar, files, waiting, queue, pc, kind, seen, sweeping, undone, stray>>

Init ==
    /\ avatar \in {Nothing, "preset", Earlier} /\ files = {avatar} \cap {Earlier} /\ waiting = [c \in Calls |-> {}] /\ directory = "fresh" /\ queue = <<>>
    /\ pc = [c \in Calls |-> "none"] /\ kind = [c \in Calls |-> "none"] /\ seen = [c \in Calls |-> Nothing]
    /\ sweeping = FALSE /\ up = TRUE /\ undone = {} /\ stray = {}

Step(c) ==
    \/ Convert(c) \/ Rename(c) \/ Refuse(c) \/ Clear(c)
    \/ Read(c) \/ ReadFails(c) \/ Write(c) \/ WriteUnconfirmed(c) \/ WriteFails(c) \/ Undo(c) \/ Drop(c) \/ RemovalFails(c)

Next ==
    \/ \E c \in Calls : Upload(c) \/ Choose(c, "select") \/ Choose(c, "remove") \/ Step(c)
    \/ GrowOld \/ FindOld \/ RemoveOld \/ Crash \/ Restart

-----------------------------------------------------------------------------
\* The row names a picture that is there, unless its call failed after it wrote the row; and a picture
\* the row does not name is about to be named or removed, unless calls overlapped, failed half way or
\* crashed.
AvatarHasFile ==
    /\ IsUpload(avatar) => avatar \in files \cup undone
    /\ \A f \in files \ {avatar} : f \in stray \/ \E c \in Calls : Running(c) /\ f \in {c, seen[c]}
=============================================================================
