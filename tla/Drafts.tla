------------------------------- MODULE Drafts -------------------------------
(***************************************************************************)
(* The saved drafts and templates of one member (drafts.service.ts).  Each *)
(* call checks, then writes, in separate statements.                       *)
(***************************************************************************)
EXTENDS Naturals, FiniteSets

CONSTANTS
    Rows,           \* rows the member may come to have
    Calls,          \* API requests under way
    Nothing,        \* no row
    MaxRows,        \* MAX_DRAFTS_PER_USER and MAX_TEMPLATES_PER_USER, which are equal
    MaxCalls        \* bound: creates and updates that arrive

VARIABLES
    saved,          \* row -> "none", "draft" or "template"
    call,           \* requests under way
    raced,          \* history: kind -> writes whose count was no longer true
    turned,         \* history: templates turned back into drafts
    calls           \* bounded number of creates and updates so far

vars == <<saved, call, raced, turned, calls>>

SavedKinds == {"draft", "template"}
Having(kind) == {d \in Rows : saved[d] = kind}
Resting == [pc |-> "idle", row |-> Nothing, kind |-> "draft"]

Init ==
    /\ saved \in [Rows -> SavedKinds \cup {"none"}]
    /\ \A k \in SavedKinds : Cardinality(Having(k)) <= MaxRows
    /\ call = [c \in Calls |-> Resting]
    /\ raced = [k \in SavedKinds |-> 0] /\ turned = 0 /\ calls = 0

Ready(c, d, kind) == call' = [call EXCEPT ![c] = [pc |-> "write", row |-> d, kind |-> kind]]
Finished(c) == call' = [call EXCEPT ![c] = Resting]

\* assertUnderLimit
UnderLimit(kind) == Cardinality(Having(kind)) < MaxRows
\* create counts the rows of its kind; the row is written later.
Create(c, kind) ==
    /\ call[c].pc = "idle" /\ UnderLimit(kind)
    /\ Ready(c, Nothing, kind)
    /\ calls < MaxCalls /\ calls' = calls + 1
    /\ UNCHANGED <<saved, raced, turned>>

\* update counts only to make a draft a template.
Update(c, d, kind) ==
    /\ call[c].pc = "idle" /\ saved[d] # "none"
    /\ kind = "template" /\ saved[d] = "draft" => UnderLimit("template")
    /\ Ready(c, d, kind)
    /\ calls < MaxCalls /\ calls' = calls + 1
    /\ UNCHANGED <<saved, raced, turned>>

Counted(kind, new) ==
    raced' = IF new /\ Cardinality(Having(kind)) >= MaxRows THEN [raced EXCEPT ![kind] = @ + 1] ELSE raced

\* The insert or the update; an update fails when its row is gone.  Turning a template into a draft
\* is never refused.
Write(c) ==
    /\ call[c].pc = "write"
    /\ LET kind == call[c].kind IN
       \/ /\ call[c].row = Nothing
          /\ \E d \in Rows : saved[d] = "none" /\ saved' = [saved EXCEPT ![d] = kind]
          /\ Counted(kind, TRUE) /\ UNCHANGED turned
       \/ /\ call[c].row # Nothing /\ saved[call[c].row] # "none"
          /\ saved' = [saved EXCEPT ![call[c].row] = kind]
          /\ Counted(kind, kind = "template" /\ saved[call[c].row] = "draft")
          /\ turned' = IF saved[call[c].row] = "template" /\ kind = "draft" THEN turned + 1 ELSE turned
       \/ /\ call[c].row # Nothing /\ saved[call[c].row] = "none"
          /\ UNCHANGED <<saved, raced, turned>>
    /\ Finished(c)
    /\ UNCHANGED calls

Remove(d) ==
    /\ saved[d] # "none"
    /\ saved' = [saved EXCEPT ![d] = "none"]
    /\ UNCHANGED <<call, raced, turned, calls>>

Next ==
    \/ \E c \in Calls, kind \in SavedKinds : Create(c, kind) \/ \E d \in Rows : Update(c, d, kind)
    \/ \E c \in Calls : Write(c)
    \/ \E d \in Rows : Remove(d)

Spec == Init /\ [][Next]_vars

----------------------------------------------------------------------------
\* The limit is passed only by saves that overlapped, each by one, and by templates that were
\* turned back into drafts.
LimitPassedByRaces ==
    /\ Cardinality(Having("template")) <= MaxRows + raced["template"]
    /\ Cardinality(Having("draft")) <= MaxRows + raced["draft"] + turned
=============================================================================
