----------------------------- MODULE DraftPages -----------------------------
(***************************************************************************)
(* The pages of the web client that list drafts and templates              *)
(* (me/drafts.vue) and that save and load them (topics/quick.vue and       *)
(* topics/survey.vue, with useDrafts.ts), over the rows of one member      *)
(* (drafts.service.ts, whose limits are in Drafts).  Every change is       *)
(* followed by reading the list anew; nothing tells an answer that was     *)
(* overtaken from the latest, and only the first page of a list is read.   *)
(***************************************************************************)
EXTENDS Naturals, FiniteSets

CONSTANTS
    Saves,                   \* rows there may be, numbers
    None,
    PageSize,                \* how many rows the API lists when no limit is asked for: 20
    MaxMoves, MaxPending     \* bound what the user does, and the requests at a time

VARIABLES
    rows,       \* row -> [kind, template, updated], None while there is none
    clock,      \* numbers the writes, and the requests by their beginning
    page,       \* what is on the screen
    requests,
    latest,     \* history: the requests begun up to here are answered, overtaken or failed
    missed,     \* history: no answer has told the page what its rows are now
    moves

vars == <<rows, clock, page, requests, latest, missed, moves>>

Kinds == {"QUICK", "SURVEY"}
Matching(kind, template) ==
    {d \in Saves : rows[d] # None /\ rows[d].kind = kind /\ template \in {None, rows[d].template}}
\* The API lists what was updated last first, and no more than a page of it.
Listed(kind, template) ==
    LET all == Matching(kind, template)
    IN  [d \in {e \in all : Cardinality({f \in all : rows[f].updated > rows[e].updated}) < PageSize} |-> rows[d]]

\* The page of one's drafts or templates, and a page that creates topics and was opened to load a row.
ListPage == [name |-> "list", kind |-> "QUICK", template |-> FALSE, items |-> <<>>, loading |-> TRUE, editing |-> None,
             busy |-> None]
CreatePage(kind, wanted) ==
    [name |-> "create", kind |-> kind, template |-> None, items |-> <<>>, selected |-> None, busy |-> None,
     wanted |-> wanted, content |-> "blank"]

\* A read, whose answer may also end what keeps a row busy (ends); a write asks for what the row is not
\* on the screen (template); a request of a page that was left has no answer to give (left).
Read(p, ends) == [op |-> "read", begun |-> clock, row |-> None, kind |-> p.kind, template |-> p.template,
                  ends |-> ends, left |-> FALSE, answer |-> None]
Write(op, d, p) == [op |-> op, begun |-> clock, row |-> d, kind |-> p.kind,
                    template |-> op = "toggle" /\ ~p.items[d].template, ends |-> TRUE, left |-> FALSE, answer |-> None]

Do == moves < MaxMoves /\ moves' = moves + 1 /\ UNCHANGED <<rows, latest>>
Ask(pending, r) == Cardinality(pending) < MaxPending /\ requests' = pending \cup {r} /\ clock' = clock + 1
Stay == UNCHANGED <<requests, clock, missed>>

\* Reads of a page that is left are lost; its writes go on.
Enter(p) ==
    /\ page' = p /\ UNCHANGED missed
    /\ Ask({[r EXCEPT !.left = TRUE] : r \in {q \in requests : q.op # "read" /\ q.answer = None}}, Read(p, FALSE))

(***************************************************************************)
(* The page of drafts and templates.                                       *)
(***************************************************************************)
OnList == page.name = "list"
\* A row that can be acted on; the enter key renames one that is busy, too.
Shown(d) == OnList /\ ~page.loading /\ d \in DOMAIN page.items
Idle(d) == Shown(d) /\ page.busy # d

\* Every read of the list closes the name that is edited.
Refreshing(p) == [p EXCEPT !.editing = None, !.loading = TRUE]

Choose(kind, template) ==
    /\ OnList /\ <<kind, template>> # <<page.kind, page.template>> /\ Do
    /\ page' = Refreshing([page EXCEPT !.kind = kind, !.template = template])
    /\ Ask(requests, Read(page', FALSE)) /\ UNCHANGED missed

StartRename(d) == Idle(d) /\ page.editing # d /\ Do /\ page' = [page EXCEPT !.editing = d] /\ Stay
CancelRename == OnList /\ page.editing # None /\ Shown(page.editing) /\ Do /\ page' = [page EXCEPT !.editing = None] /\ Stay

Change(op, d) ==
    /\ Shown(d) /\ Do
    /\ IF op = "rename" THEN page.editing = d ELSE page.busy # d
    /\ page' = [page EXCEPT !.busy = d]
    /\ Ask(requests, Write(op, d, page)) /\ UNCHANGED missed

\* The link of an item leads to the page that can load it.
Open(d) == Shown(d) /\ Do /\ Enter(CreatePage(page.items[d].kind, d))

(***************************************************************************)
(* The pages that create topics.                                           *)
(***************************************************************************)
OnCreate == page.name = "create"
Fill == OnCreate /\ page.content = "blank" /\ Do /\ page' = [page EXCEPT !.content = "own"] /\ Stay
SaveCurrentDraft ==
    /\ OnCreate /\ page.busy = None /\ Do
    /\ page' = [page EXCEPT !.busy = "saving"]
    /\ Ask(requests, Write("create", None, page)) /\ UNCHANGED missed
SelectDraft(d) ==
    /\ OnCreate /\ d \in DOMAIN page.items \ {page.selected} /\ Do /\ page' = [page EXCEPT !.selected = d] /\ Stay

\* Content is written over only when the user agrees.
Applied(p) == {[p EXCEPT !.content = "draft"]} \cup (IF p.content = "blank" THEN {} ELSE {p})
ApplySelectedDraft == OnCreate /\ page.selected # None /\ Do /\ page' \in Applied(page) /\ Stay
BackToList == OnCreate /\ Do /\ Enter(ListPage)

(***************************************************************************)
(* The API.                                                                *)
(***************************************************************************)
Row(kind, template) == [kind |-> kind, template |-> template, updated |-> clock]

\* How many rows there may be is modelled in Drafts: here a write may be refused in any state.
Written(r) ==
    \/ /\ r.op = "create"
       /\ \E d \in Saves : rows[d] = None /\ rows' = [rows EXCEPT ![d] = Row(r.kind, FALSE)]
    \/ /\ r.op # "create" /\ rows[r.row] # None
       /\ rows' = [rows EXCEPT ![r.row] = CASE r.op = "remove" -> None
                                            [] r.op = "rename" -> Row(@.kind, @.template)
                                            [] r.op = "toggle" -> Row(@.kind, r.template)]

\* A write of a page that was left tells nobody.
ServeWrite(r) ==
    /\ r.op # "read" /\ r.answer = None /\ Written(r) /\ clock' = clock + 1
    /\ requests' = (requests \ {r}) \cup (IF r.left THEN {} ELSE {[r EXCEPT !.answer = "done"]})
    /\ IF r.left THEN missed' = TRUE /\ latest' = clock ELSE UNCHANGED <<missed, latest>>
    /\ UNCHANGED <<page, moves>>

ServeRead(r) ==
    /\ r.op = "read" /\ r.answer = None
    /\ requests' = (requests \ {r}) \cup {[r EXCEPT !.answer = Listed(r.kind, r.template)]}
    /\ UNCHANGED <<rows, clock, page, latest, missed, moves>>

(***************************************************************************)
(* The answers.                                                            *)
(***************************************************************************)
Ended(p, r) == IF r.ends THEN [p EXCEPT !.busy = None] ELSE p
Overtaken(r) == r.begun < latest
Told(r) ==
    /\ missed' = Overtaken(r) /\ latest' = IF Overtaken(r) THEN latest ELSE r.begun
    /\ UNCHANGED <<rows, clock, moves>>

\* A selection that is not listed any more is dropped.
Refreshed(p, items) ==
    IF p.name = "list" THEN [p EXCEPT !.items = items, !.loading = FALSE]
    ELSE [p EXCEPT !.items = items, !.selected = IF p.selected \in DOMAIN items THEN @ ELSE None]

\* The first answer loads the row that the page was opened for, when it is listed.
LoadsWanted(p) ==
    IF p.name = "create" /\ p.wanted \in DOMAIN p.items
    THEN Applied([p EXCEPT !.selected = p.wanted, !.wanted = None])
    ELSE {IF p.name = "create" THEN [p EXCEPT !.wanted = None] ELSE p}
Arrived(r, items) == IF r.ends THEN {Ended(Refreshed(page, items), r)} ELSE LoadsWanted(Refreshed(page, items))

DeliverRead(r) ==
    /\ r.op = "read" /\ r.answer # None
    /\ page' \in Arrived(r, r.answer) /\ requests' = requests \ {r} /\ Told(r)

\* The list is left as it was.
DeliverUnread(r) ==
    /\ r.op # "read" /\ r.answer # None
    /\ page' = Ended(page, r)
    /\ requests' = requests \ {r} /\ UNCHANGED <<rows, clock, latest, missed, moves>>

\* What was written is read anew.
DeliverWrite(r) ==
    /\ r.op # "read" /\ r.answer # None
    /\ page' = IF OnList THEN Refreshing(page) ELSE page
    /\ Ask(requests \ {r}, Read(page, TRUE)) /\ UNCHANGED <<rows, latest, missed, moves>>

\* A request fails before or after it was served; a list that could not be read is shown empty, with
\* a message.
Fail(r) ==
    /\ requests' = requests \ {r}
    /\ page' \in IF r.left THEN {page} ELSE IF r.op = "read" THEN Arrived(r, <<>>) ELSE {Ended(page, r)}
    /\ IF r.op = "read" \/ r.answer # None
       THEN missed' = TRUE /\ latest' = clock ELSE UNCHANGED <<missed, latest>>
    /\ UNCHANGED <<rows, clock, moves>>

(***************************************************************************)
(* Specification.                                                          *)
(***************************************************************************)
Init ==
    /\ rows \in {[d \in Saves |-> None], [d \in Saves |-> [kind |-> "QUICK", template |-> FALSE, updated |-> d]]}
    /\ clock = Cardinality(Saves) + 1
    /\ page = ListPage /\ latest = 0 /\ missed = TRUE /\ moves = 0
    /\ requests = {[Read(ListPage, FALSE) EXCEPT !.begun = 0]}

Next ==
    \/ \E kind \in Kinds, template \in BOOLEAN : Choose(kind, template)
    \/ \E d \in Saves : \/ StartRename(d)
                       \/ \E op \in {"rename", "toggle", "remove"} : Change(op, d)
                       \/ Open(d)
                       \/ SelectDraft(d)
    \/ CancelRename \/ Fill \/ SaveCurrentDraft \/ ApplySelectedDraft \/ BackToList
    \/ \E r \in requests : ServeWrite(r) \/ ServeRead(r) \/ DeliverRead(r) \/ DeliverWrite(r) \/ Fail(r)

Spec == Init /\ [][Next]_vars

\* A page with no request under way shows what the API would list, with nothing left waiting, unless its
\* last answers came out of order or not at all, or a page that was left has changed a row; and what is
\* selected is listed: the refreshes after every change (refresh, refreshDraftOptions) suffice.
ListsSettle ==
    /\ (\A r \in requests : r.left) /\ ~missed =>
           /\ page.items = Listed(page.kind, page.template)
           /\ page.busy = None /\ (OnList => ~page.loading)
    /\ OnCreate => page.selected \in DOMAIN page.items \cup {None}
=============================================================================
