--------------------------- MODULE TopicLifecycle ---------------------------
(***************************************************************************)
(* How a topic comes to be and opens (topics.service.ts): members and      *)
(* editors create it, its author edits it while it waits, a reviewer       *)
(* decides, an editorial draft is published, editors feature it.  Each     *)
(* request reads and checks first and writes in a later transaction.       *)
(***************************************************************************)
EXTENDS Integers, FiniteSets, Sequences

CONSTANTS
    Topics,         \* identifiers of rows, 1..n
    Titles,         \* titles, compared without case
    Requests,       \* API requests under way
    MaxFeatured,    \* MAX_FEATURED_TOPICS
    MaxVersion,     \* bound: versions of a topic's content
    MaxRequests     \* bound: requests that arrive

NoTopic == 0
Unlisted == -1      \* featured_order NULL
\* Editors create topics of their own ("editorial", or open at once: "imported"), and from proposals of
\* one member ("proposed", or open at once: "adopted").
Kinds == {"formal", "quick", "private", "editorial", "imported", "proposed", "adopted"}
Ops == {"create", "update", "approve", "reject", "publish", "feature"}

VARIABLES
    topic,          \* rows: moderation and vote status, title, version of the content, and
                    \* whether an author's followers are to hear of it
    featured,       \* featured_order of each topic
    told,           \* topic -> notifications each follower has about it
    reopened,       \* history: publications of a topic that another one had already opened
    mixed,          \* history: two setFeatured transactions overlapped since the last one that ran alone
    req, arrived

rows == <<topic, featured, told, reopened, mixed>>
vars == <<rows, req, arrived>>

NoRow == [moderation |-> "NONE", status |-> "NONE", title |-> "none", version |-> 0, tells |-> FALSE]
Idle == [op |-> "none", pc |-> "idle", topic |-> NoTopic, title |-> "none", kind |-> "none",
         list |-> <<>>, seen |-> {}]

Exists(t) == topic[t].moderation # "NONE"
Open(t) == topic[t].moderation = "APPROVED" /\ topic[t].status = "OPEN"
Featured == {t \in Topics : featured[t] # Unlisted}

Init ==
    /\ topic = [t \in Topics |-> NoRow]
    /\ featured = [t \in Topics |-> Unlisted]
    /\ told = [t \in Topics |-> 0] /\ reopened = [t \in Topics |-> 0] /\ mixed = FALSE
    /\ req = [r \in Requests |-> Idle] /\ arrived = 0

At(r, op, pc) == req[r].op = op /\ req[r].pc = pc
Goto(r, pc) == req' = [req EXCEPT ![r].pc = pc]
Done(r) == req' = [req EXCEPT ![r] = Idle]

Arrive(r, q) ==
    /\ req[r].pc = "idle" /\ arrived < MaxRequests
    /\ req' = [req EXCEPT ![r] = q]
    /\ arrived' = arrived + 1
    /\ UNCHANGED rows

\* The process dies, or an input is refused, between the statements of a request.
Fail(r) ==
    /\ req[r].pc # "idle"
    /\ Done(r)
    /\ UNCHANGED <<rows, arrived>>

----------------------------------------------------------------------------
(* Creation. *)

Taken(title, self) == \E t \in Topics \ {self} :
    Exists(t) /\ topic[t].title = title /\ topic[t].moderation # "REJECTED"

CheckTitle(r) ==
    /\ req[r].pc = "title"
    /\ IF Taken(req[r].title, req[r].topic) THEN Done(r) ELSE Goto(r, "write")
    /\ UNCHANGED <<rows, arrived>>

\* importEditorial, and createEditorial without proposals of a member: a draft, or open at once, and
\* there is nobody whose followers would hear of it.
Imports == {"editorial", "imported"}

\* What each way of creating a topic inserts.
NewRow(kind, title) ==
    [moderation |-> IF kind = "formal" THEN "PENDING_REVIEW" ELSE "APPROVED",
     status     |-> IF kind \in {"quick", "private", "imported", "adopted"} THEN "OPEN" ELSE "DRAFT",
     title      |-> title, version |-> 1,
     tells      |-> kind \notin {"private"} \cup Imports]

\* fanOutChannelNewTopic, in the transaction that opens the topic.
FanOut(t) == told' = [told EXCEPT ![t] = @ + 1]

\* create waits for review; createQuick, createSurvey and createStaged open at once and tell the
\* followers unless the topic is for holders of its link; createEditorial and importEditorial leave
\* a draft unless it is to be published at once.
Insert(r) ==
    /\ At(r, "create", "write")
    /\ \E t \in Topics :
          /\ ~Exists(t) /\ \A u \in Topics : ~Exists(u) => t <= u
          /\ topic' = [topic EXCEPT ![t] = NewRow(req[r].kind, req[r].title)]
          /\ IF Open(t)' /\ topic'[t].tells THEN FanOut(t) ELSE UNCHANGED told
    /\ Done(r)
    /\ UNCHANGED <<featured, reopened, mixed, arrived>>

----------------------------------------------------------------------------
(* The author edits, the reviewer decides. *)

CheckPending(r) ==
    /\ At(r, "update", "check")
    /\ LET t == topic[req[r].topic] IN
       IF t.status = "DRAFT" /\ t.moderation = "PENDING_REVIEW" THEN Goto(r, "title") ELSE Done(r)
    /\ UNCHANGED <<rows, arrived>>

\* updatePending replaces options, blocks and fields by id, whatever has become of the topic.
WriteUpdate(r) ==
    /\ At(r, "update", "write")
    /\ topic[req[r].topic].version < MaxVersion
    /\ topic' = [topic EXCEPT ![req[r].topic].title = req[r].title, ![req[r].topic].version = @ + 1]
    /\ Done(r)
    /\ UNCHANGED <<featured, told, reopened, mixed, arrived>>

CheckUndecided(r) ==
    /\ req[r].op \in {"approve", "reject"} /\ req[r].pc = "check"
    /\ IF topic[req[r].topic].moderation = "PENDING_REVIEW" THEN Goto(r, "write") ELSE Done(r)
    /\ UNCHANGED <<rows, arrived>>

Decided(t, op) ==
    [t EXCEPT !.moderation = IF op = "approve" THEN "APPROVED" ELSE "REJECTED",
              !.status = IF op = "approve" THEN "OPEN" ELSE "CANCELLED"]

ReviewAnyway(r) ==
    /\ req[r].op \in {"approve", "reject"} /\ req[r].pc = "write"
    /\ topic' = [topic EXCEPT ![req[r].topic] = Decided(@, req[r].op)]
    /\ IF req[r].op = "approve" THEN FanOut(req[r].topic) ELSE UNCHANGED told
    /\ Done(r)
    /\ UNCHANGED <<featured, reopened, mixed, arrived>>

\* review: only a topic that is still pending is decided; then the followers of its author hear of it.
Review(r) ==
    /\ req[r].op \in {"approve", "reject"} /\ req[r].pc = "write"
    /\ LET t == req[r].topic IN
       IF topic[t].moderation = "PENDING_REVIEW"
       THEN /\ topic' = [topic EXCEPT ![t] = Decided(@, req[r].op)]
            /\ IF req[r].op = "approve" THEN FanOut(t) ELSE UNCHANGED told
       ELSE UNCHANGED <<topic, told>>
    /\ Done(r)
    /\ UNCHANGED <<featured, reopened, mixed, arrived>>

----------------------------------------------------------------------------
(* Editorial drafts. *)

CheckDraft(r) ==
    /\ At(r, "publish", "check")
    /\ LET t == topic[req[r].topic] IN
       IF t.status = "DRAFT" /\ t.moderation = "APPROVED" THEN Goto(r, "write") ELSE Done(r)
    /\ UNCHANGED <<rows, arrived>>

\* publishEditorial updates by id: a second publication that had read the draft repeats everything.
Publish(r) ==
    /\ At(r, "publish", "write")
    /\ LET t == req[r].topic IN
       /\ topic' = [topic EXCEPT ![t].status = "OPEN"]
       /\ reopened' = IF Open(t) THEN [reopened EXCEPT ![t] = @ + 1] ELSE reopened
       /\ IF topic[t].tells THEN FanOut(t) ELSE UNCHANGED told
    /\ Done(r)
    /\ UNCHANGED <<featured, mixed, arrived>>

----------------------------------------------------------------------------
(* Featured topics: a validation, then one transaction of several statements. *)

Elements(list) == {list[i] : i \in 1..Len(list)}

CheckFeaturable(r) ==
    /\ At(r, "feature", "check")
    /\ IF Len(req[r].list) <= MaxFeatured /\ \A t \in Elements(req[r].list) : Open(t)
       THEN Goto(r, "clear") ELSE Done(r)
    /\ UNCHANGED <<rows, arrived>>

\* updateMany sees the rows that are featured when it starts; the rest of it is done at commit.
ClearFeatured(r) ==
    /\ At(r, "feature", "clear")
    /\ req' = [req EXCEPT ![r].pc = "commit", ![r].seen = Featured]
    /\ UNCHANGED <<rows, arrived>>

\* This transaction's order, as the others' commits and its own statements leave it.
Reordered(list, cleared) == [t \in Topics |->
    IF t \in Elements(list) THEN (CHOOSE i \in 1..Len(list) : list[i] = t) - 1
    ELSE IF t \in cleared THEN Unlisted ELSE featured[t]]

CommitKeepingOld(r) ==
    /\ At(r, "feature", "commit")
    /\ featured' = Reordered(req[r].list, {})
    /\ mixed' = (Featured # req[r].seen)
    /\ Done(r)
    /\ UNCHANGED <<topic, told, reopened, arrived>>

CommitFeatured(r) ==
    /\ At(r, "feature", "commit")
    /\ featured' = Reordered(req[r].list, req[r].seen)
    /\ mixed' = (Featured # req[r].seen)
    /\ Done(r)
    /\ UNCHANGED <<topic, told, reopened, arrived>>

Step(r) ==
    \/ CheckTitle(r) \/ Insert(r) \/ CheckPending(r) \/ WriteUpdate(r) \/ CheckUndecided(r) \/ Review(r)
    \/ CheckDraft(r) \/ Publish(r) \/ CheckFeaturable(r) \/ ClearFeatured(r) \/ CommitFeatured(r) \/ Fail(r)

\* What clients ask for: any kind of topic, anything about a topic that exists.
Lists == {l \in UNION {[1..n -> Topics] : n \in 0..2} : Len(l) = Cardinality(Elements(l))}
Asking(ops, pc, about, titles, kinds, lists) ==
    [op : ops, pc : {pc}, topic : about, title : titles, kind : kinds, list : lists, seen : {{}}]
Known == {t \in Topics : Exists(t)}
Wanted ==
    Asking({"create"}, "title", {NoTopic}, Titles, Kinds, {<<>>})
    \cup Asking({"update"}, "check", Known, Titles, {"none"}, {<<>>})
    \cup Asking({"approve", "reject", "publish"}, "check", Known, {"none"}, {"none"}, {<<>>})
    \cup Asking({"feature"}, "check", {NoTopic}, {"none"}, {"none"}, Lists)

Next == \E r \in Requests : Step(r) \/ \E q \in Wanted : Arrive(r, q)

Spec == Init /\ [][Next]_vars

----------------------------------------------------------------------------
(* What must hold. *)

\* The followers of an author hear of each of his public topics when it opens, once - and once
\* more for each publication that overlapped the one that opened it.
FollowersToldOnce ==
    \A t \in Topics : Exists(t) =>
        told[t] = IF Open(t) /\ topic[t].tells THEN 1 + reopened[t] ELSE 0

\* The featured topics are the list that was saved last, in its order, unless the transactions of
\* two editors overlapped: then both lists may remain.
FeaturedIsOneList ==
    ~mixed => {featured[t] : t \in Featured} = 0..(Cardinality(Featured) - 1)
              /\ Cardinality(Featured) <= MaxFeatured
=============================================================================
