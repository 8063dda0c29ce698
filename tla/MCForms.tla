------------------------------- MODULE MCForms -------------------------------
(***************************************************************************)
(* The forms for questions, the form for formal topics and the lists of    *)
(* drafts, apart from each other: a behaviour is about one of them.        *)
(***************************************************************************)
EXTENDS QuestionForms

CONSTANTS
    MaxChanges,
    Saves, None, PageSize, MaxMoves     \* the lists of drafts

VARIABLES
    scope,
    page, queued, filling, applied, changes,
    rows, clock, screen, reads, latest, missed, moves

FileRow(label, match, weight) == [label |-> label, match |-> match, weight |-> weight]
SomeWeights == {Blank, NaN, 0, 1, 3}
SomeFiles ==
    {[type |-> "SPIN_WHEEL", rows |-> [k \in 1..2 |-> FileRow(k, 0, Blank)]],
     [type |-> "SPIN_WHEEL", rows |-> [k \in 1..2 |-> FileRow(k, 0, k - 2)]],
     [type |-> "MULTI_SELECT", maxSelections |-> 3, rows |-> [k \in 1..3 |-> FileRow(k, 0, Blank)]],
     [type |-> "MULTI_SELECT", maxSelections |-> 4, rows |-> [k \in 1..3 |-> FileRow(k, 0, Blank)]],
     [type |-> "OPTION", maxSelections |-> 9, rows |-> [k \in 1..2 |-> FileRow(1, 0, Blank)]],
     [type |-> "OPTION", maxSelections |-> 9, rows |-> [k \in 1..10 |-> FileRow(k, 0, Blank)]],
     [type |-> "MATCHING", rows |-> [k \in 1..2 |-> FileRow(k, 3 - k, 1)]],
     [type |-> "MATCHING", rows |-> [k \in 1..2 |-> FileRow(k, 1, Blank)]],
     [type |-> "SCRATCH", mode |-> "PER_RESULT", rows |-> [k \in 1..2 |-> FileRow(k, 0, k)]],
     [type |-> "LIKERT", points |-> 10], [type |-> "LIKERT", points |-> 11], [type |-> "LIKERT", min |-> 1, max |-> 1],
     [type |-> "IMAGE_RANK", rows |-> [k \in 1..50 |-> FileRow(0, 0, Blank)]]}

\* Files and drafts: a description that a pad of 90 brings to 2040, and blocks likewise.
Source(type, texts, blocks, pad) ==
    [type |-> type, texts |-> texts, blocks |-> blocks, title |-> 20, description |-> 0, pad |-> pad]
TopicFile(type, texts, blocks, stances, pad) == Source(type, texts, blocks, pad) @@ ("stances" :> stances)
Block(url, source) == [type |-> "SOURCE", title |-> 20, content |-> 20, url |-> url, source |-> source]
UpTo(n) == [k \in 1..n |-> k]
SomeTopicFiles ==
    {TopicFile("BINARY", texts, <<>>, "none", 0) : texts \in {<<1, 2>>, <<6, 0, 7>>, <<1, 1>>, UpTo(3), <<1, 51>>}} \cup
    {TopicFile("MULTIPLE", texts, <<>>, "none", 0) : texts \in {UpTo(6) \o <<0>>, UpTo(7)}} \cup
    {TopicFile("MULTIPLE", UpTo(6), <<Block(url, "fine")>>, "none", 0) : url \in {"none", "site", "local", "text"}} \cup
    {[TopicFile("SPECTRUM", <<>>, <<Block("site", "odd")>>, "none", pad) EXCEPT !.description = 1950] : pad \in {0, 51, 90}} \cup
    {TopicFile("SPECTRUM", <<>>, <<>>, stances, 0) : stances \in {"five", "six", "many", "wide", "silent", "padded"}}
SomeTopicDrafts ==
    {[Source(type, <<3, 2>>, <<[Block("none", "fine") EXCEPT !.type = "BACKGROUND"]>>, pad) EXCEPT !.description = 20] :
        type \in {"BINARY", "MULTIPLE"}, pad \in {0, 101}}

Proposal == INSTANCE TopicForm WITH Lengths <- {9, 20, 30}, Taken <- 30, TopicFiles <- SomeTopicFiles, TopicDrafts <- SomeTopicDrafts

Pages == INSTANCE DraftPages WITH page <- screen, requests <- reads, MaxPending <- 3

\* What the pages let their authors submit, the API accepts and stores as it is shown, but for what each
\* module names (questionPayload, validateTopicInput, CreateTopicDto).
OffersAreAccepted == /\ scope = "question" => AcceptedIfOffered /\ StoredAsShown
                     /\ scope = "topic" => Proposal!TopicAcceptedIfOffered

\* A form comes back from its draft as it was (draftSerializer.ts), and the pages list the drafts there
\* are (refresh, refreshDraftOptions).
DraftsComeBack == (scope = "question" => FormsComeBack) /\ (scope = "lists" => Pages!ListsSettle)

\* A file that is imported, or a draft of the assistant that is applied, is what the page sends
\* (onApplyImport, applyAiTopicDraft, watch(topicType)).
ImportIsSent == scope = "topic" => Proposal!AppliedIsSent

FormsInit == /\ scope \in {"question", "topic", "lists"}
             /\ Init /\ Proposal!Init /\ Pages!Init
             /\ scope # "question" => form.page = "quick"
             /\ scope # "topic" => page.role = "senior"
             /\ scope # "lists" => rows[1] = None

topicVars == <<page, queued, filling, applied, changes>>
listVars == <<rows, clock, screen, reads, latest, missed, moves>>
FormsNext ==
    \/ scope = "question" /\ Next /\ UNCHANGED <<scope, topicVars, listVars>>
    \/ scope = "topic" /\ Proposal!Next /\ UNCHANGED <<scope, form, edits, listVars>>
    \/ scope = "lists" /\ Pages!Next /\ UNCHANGED <<scope, form, edits, topicVars>>
FormsSpec == FormsInit /\ [][FormsNext]_<<scope, form, edits, topicVars, listVars>>

=============================================================================
