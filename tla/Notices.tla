------------------------------- MODULE Notices -------------------------------
(***************************************************************************)
(* The notifications of one member and the three places of the web client  *)
(* that count the unread ones: the header (app.vue), the menu of the       *)
(* member center (me.vue), and the page that lists them and marks them as  *)
(* read (me/notifications.vue, over notifications.controller.ts).  The     *)
(* page passes its own count on to the other two; nothing else tells them. *)
(***************************************************************************)
EXTENDS Integers, FiniteSets

CONSTANTS
    Unknown,
    MaxNotes, MaxMoves, MaxPending    \* bound the notifications, what the member does, and requests at a time

VARIABLES
    notes,      \* the rows
    unread,     \* those that have not been read
    header, menu,
    page,       \* the list, and whether its page is open
    requests,   \* those under way
    stale,      \* history: the counts that need not be right
    moves

vars == <<notes, unread, header, menu, page, requests, stale, moves>>

Counts == {"header", "menu", "page"}
Unread == Cardinality(unread)
Minus(a, b) == IF a > b THEN a - b ELSE 0

(***************************************************************************)
(* Requests.  A read is crossed by a write that is under way at the same   *)
(* time, and by a notification that arrives.                               *)
(***************************************************************************)
Slots == 1..MaxPending
Reads == Counts
Writes == {"read", "all"}
Request(op, note, filter, crossed) ==
    [op |-> op, note |-> note, filter |-> filter, crossed |-> crossed, answer |-> Unknown]
None == Request("none", 0, "all", FALSE)
\* A request takes the first slot that is free.
Ask(pending, i) == pending[i].op = "none" /\ \A j \in 1..(i - 1) : pending[j].op # "none"

Crossing(pending) == [k \in Slots |-> [pending[k] EXCEPT !.crossed = pending[k].op # "none"]]
Read(pending, i, op, filter) ==
    [pending EXCEPT ![i] = Request(op, 0, filter, \E j \in Slots : pending[j].op \in Writes)]
Write(pending, i, op, note) == [Crossing(pending) EXCEPT ![i] = Request(op, note, "all", FALSE)]

(***************************************************************************)
(* What the member does.                                                   *)
(***************************************************************************)
Do == moves < MaxMoves /\ moves' = moves + 1 /\ UNCHANGED <<notes, unread>>
Blank == [open |-> TRUE, filter |-> "all", items |-> {}, read |-> {}, unread |-> 0, loading |-> TRUE, failed |-> FALSE]
Closed == [Blank EXCEPT !.open = FALSE, !.loading = FALSE]

\* What the page knows to be its count goes to the header and, when it has loaded, to the menu.
SyncUnread(shown, right) ==
    /\ header' = shown /\ menu' = (IF menu = Unknown THEN Unknown ELSE shown)
    /\ stale' = IF right THEN stale \ {"header", "menu"} ELSE Counts

Enter(within) ==
    /\ Do /\ ~page.open /\ page' = Blank
    /\ \E i \in Slots :
          /\ Ask(requests, i)
          /\ LET pending == Read(requests, i, "page", "all") IN
             \/ within /\ requests' = pending
             \/ ~within /\ \E j \in Slots : Ask(pending, j) /\ requests' = Read(pending, j, "menu", "all")
    /\ UNCHANGED <<header, menu, stale>>

\* The list that is under way for a page that is left has nowhere to go.
Left(pending) == [k \in Slots |-> IF pending[k].op = "page" THEN None ELSE pending[k]]
Leave == Do /\ page.open /\ page' = Closed /\ requests' = Left(requests) /\ UNCHANGED <<header, menu, stale>>

Choose(filter) ==
    /\ Do /\ page.open /\ page' = [page EXCEPT !.filter = filter, !.loading = TRUE, !.failed = FALSE]
    /\ \E i \in Slots : Ask(requests, i) /\ requests' = Read(requests, i, "page", filter)
    /\ UNCHANGED <<header, menu, stale>>

\* The item is a link: the page is left for what it is about, or not when that opens in a window of its own.
MarkRead(k, leaves) ==
    /\ Do /\ page.open /\ ~page.loading /\ ~page.failed /\ k \in page.items \ page.read
    /\ LET shown == Minus(page.unread, 1)
       IN  /\ page' = IF leaves THEN Closed ELSE [page EXCEPT !.read = @ \cup {k}, !.unread = shown]
           /\ SyncUnread(shown, "page" \notin stale)
    /\ LET pending == IF leaves THEN Left(requests) ELSE requests
       IN  \E i \in Slots : Ask(pending, i) /\ requests' = Write(pending, i, "read", k)

ReadAll ==
    /\ Do /\ page.open /\ page.unread > 0
    /\ \E i \in Slots : Ask(requests, i) /\ requests' = Write(requests, i, "all", 0)
    /\ UNCHANGED <<header, menu, page, stale>>

(***************************************************************************)
(* The API.                                                                *)
(***************************************************************************)
Arrive ==
    /\ \E k \in 1..MaxNotes :
          /\ notes = 1..(k - 1) /\ notes' = notes \cup {k} /\ unread' = unread \cup {k}
    /\ requests' = Crossing(requests) /\ stale' = Counts /\ UNCHANGED <<header, menu, page, moves>>

Listed(filter) == IF filter = "all" THEN notes ELSE unread
\* A write is answered, and its answer says nothing.
Answer(r) == IF r.op \in Reads THEN [items |-> Listed(r.filter), read |-> Listed(r.filter) \ unread, count |-> Unread]
             ELSE [items |-> {}, read |-> {}, count |-> 0]
Marked(r) == IF r.op = "read" THEN {r.note} ELSE IF r.op = "all" THEN notes ELSE {}

Serve(i) ==
    /\ requests[i].op # "none" /\ requests[i].answer = Unknown
    /\ requests' = [requests EXCEPT ![i].answer = Answer(requests[i])]
    /\ unread' = unread \ Marked(requests[i])
    /\ UNCHANGED <<notes, header, menu, page, stale, moves>>

(***************************************************************************)
(* The answers.                                                            *)
(***************************************************************************)
Rest(i) == [requests EXCEPT ![i] = None]
Told(r) == stale' = IF r.crossed THEN stale \cup {r.op} ELSE stale \ {r.op}

DeliverCount(i) ==
    LET r == requests[i] IN
    /\ r.answer # Unknown /\ r.op \in Reads /\ Told(r) /\ requests' = Rest(i)
    /\ \/ r.op = "header" /\ header' = r.answer.count /\ UNCHANGED <<menu, page>>
       \/ r.op = "menu" /\ menu' = r.answer.count /\ UNCHANGED <<header, page>>
       \/ /\ r.op = "page" /\ UNCHANGED <<header, menu>>
          /\ page' = [page EXCEPT !.items = r.answer.items, !.read = r.answer.read, !.unread = r.answer.count,
                                  !.loading = FALSE]
    /\ UNCHANGED <<notes, unread, moves>>

DeliverRead(i) ==
    /\ requests[i].answer # Unknown /\ requests[i].op = "read" /\ requests' = Rest(i)
    /\ UNCHANGED <<notes, unread, header, menu, page, stale, moves>>

\* Everything that is listed by then counts as read, also by a page that was left; unread items are
\* listed anew.
DeliverAll(i) ==
    LET r == requests[i]
        again == page.open /\ page.filter = "unread"
    IN
    /\ r.answer # Unknown /\ r.op = "all"
    /\ header' = 0 /\ menu' = (IF menu = Unknown THEN Unknown ELSE 0)
    /\ stale' = IF r.crossed THEN Counts ELSE {}
    /\ page' = IF page.open THEN [page EXCEPT !.read = page.items, !.unread = 0, !.loading = @ \/ again,
                                              !.failed = @ /\ ~again]
               ELSE page
    /\ \/ ~again /\ requests' = Rest(i)
       \/ again /\ \E j \in Slots : Ask(Rest(i), j) /\ requests' = Read(Rest(i), j, "page", "unread")
    /\ UNCHANGED <<notes, unread, moves>>

\* A request fails before or after it was served: the header counts none, the menu nothing, and what
\* was marked stays marked on the screen.
Fail(i) ==
    LET r == requests[i] IN
    /\ r.op # "none" /\ requests' = Rest(i)
    /\ header' = IF r.op = "header" THEN 0 ELSE header
    /\ menu' = IF r.op = "menu" THEN Unknown ELSE menu
    /\ page' = IF r.op = "page" THEN [page EXCEPT !.loading = FALSE, !.failed = TRUE] ELSE page
    /\ stale' = stale \cup (IF r.op \in Reads THEN {r.op} ELSE Counts)
    /\ UNCHANGED <<notes, unread, moves>>

Init ==
    /\ notes = 1..2 /\ unread \in SUBSET notes
    /\ header = 0 /\ menu = Unread /\ page = Blank
    /\ stale = {"header", "page"} /\ moves = 0
    /\ requests = [k \in Slots |-> IF k = 1 THEN Request("page", 0, "all", FALSE)
                                   ELSE IF k = 2 THEN Request("header", 0, "all", FALSE) ELSE None]

Next ==
    \/ \E within \in BOOLEAN : Enter(within)
    \/ Leave \/ ReadAll \/ Arrive
    \/ \E filter \in {"all", "unread"} : Choose(filter)
    \/ \E k \in notes, leaves \in BOOLEAN : MarkRead(k, leaves)
    \/ \E i \in Slots : Serve(i) \/ DeliverCount(i) \/ DeliverRead(i) \/ DeliverAll(i) \/ Fail(i)

-----------------------------------------------------------------------------
\* With no request under way every place that counts unread notifications shows how many there are,
\* unless one arrived since, an answer crossed a change, or a request failed (syncUnread, readAll, load,
\* loadUnreadCount).
BadgesAgree ==
    requests = [k \in Slots |-> None] =>
        /\ "header" \in stale \/ header = Unread
        /\ "menu" \in stale \/ menu \in {Unknown, Unread}
        /\ ~page.open \/ "page" \in stale \/ (/\ page.unread = Unread
                                              /\ page.items \ page.read \subseteq unread)
=============================================================================
