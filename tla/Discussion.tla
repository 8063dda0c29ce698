----------------------------- MODULE Discussion -----------------------------
(***************************************************************************)
(* The posts of a stance and the replies to one of them, on the topic page *)
(* of one member (components/Discussion.vue, over the lists and writes of  *)
(* posts.service.ts).  Every write is followed by reading again what it    *)
(* changed; nothing tells an answer that was overtaken from the latest,    *)
(* and the stance and the open post may change while a request is under    *)
(* way.  What the API checks before it writes is in StanceTree and         *)
(* VoteTransactions: here a write may be refused in any state.             *)
(***************************************************************************)
EXTENDS Naturals, FiniteSets, SequencesExt

CONSTANTS
    StanceIds, None,
    PageSize,                \* how many posts or replies are read: 50
    MaxMoves, MaxPending     \* bound what the member does, and the requests at a time

VARIABLES
    posts,      \* the rows, oldest first: [stance, text, liked]
    comments,   \* [post, typed], the post that a reply belongs to and the one it was typed under
    page,       \* what is on the screen
    requests,   \* under way, in the order in which they were sent
    missed,     \* history: the lists of which the page has not been told what it should show
    lost,       \* history: an answer to a post was lost after it was written
    moves

vars == <<posts, comments, page, requests, missed, lost, moves>>

(***************************************************************************)
(* What the API lists: the newest posts of a stance with the number of     *)
(* their replies, and the oldest replies to a post.                        *)
(***************************************************************************)
RepliesTo(p) == {c \in DOMAIN comments : comments[c].post = p}
ListPosts(s) ==
    LET all == {p \in DOMAIN posts : posts[p].stance = s}
    IN  [p \in {q \in all : Cardinality({r \in all : r > q}) < PageSize} |->
            [liked |-> posts[p].liked, replies |-> Cardinality(RepliesTo(p))]]
ListComments(p) == {c \in RepliesTo(p) : Cardinality({d \in RepliesTo(p) : d < c}) < PageSize}

(***************************************************************************)
(* Requests: reads of posts or comments, and writes.  The answer to a      *)
(* read may also release the button (ends), or be followed by a read of    *)
(* the posts (then); it is overtaken when a read that was sent later has   *)
(* been answered, or has told nothing.                                     *)
(***************************************************************************)
Request(op, about, text) ==
    [op |-> op, about |-> about, text |-> text, ends |-> FALSE, then |-> FALSE, overtaken |-> FALSE, answer |-> None]
LoadPosts(s) == Request("posts", s, None)
LoadComments(p) == Request("comments", p, None)
IsRead(r) == r.op \in {"posts", "comments"}

Ask(pending, r) == Len(pending) < MaxPending /\ requests' = Append(pending, r)
Without(i) == RemoveAt(requests, i)

(***************************************************************************)
(* What the member does.                                                   *)
(***************************************************************************)
Do == moves < MaxMoves /\ moves' = moves + 1 /\ UNCHANGED <<posts, comments, missed, lost>>
Shown(p) == p \in DOMAIN page.posts

\* A post that is being written goes along to the next stance; so does the post that is open.
SelectStance(s) == Do /\ s # page.stance /\ page' = [page EXCEPT !.stance = s] /\ Ask(requests, LoadPosts(s))

TypePost == Do /\ page.newPost = None /\ page' = [page EXCEPT !.newPost = Len(posts) + 1] /\ UNCHANGED requests
TypeComment ==
    /\ Do /\ Shown(page.open) /\ page.newComment = None
    /\ page' = [page EXCEPT !.newComment = page.open] /\ UNCHANGED requests

\* The comments of the post that was open stay until those of the next arrive.
ToggleComments(p) ==
    /\ Do /\ Shown(p)
    /\ IF page.open = p THEN page' = [page EXCEPT !.open = None, !.newComment = None] /\ UNCHANGED requests
       ELSE page' = [page EXCEPT !.open = p, !.newComment = None] /\ Ask(requests, LoadComments(p))

SubmitPost ==
    /\ Do /\ page.newPost # None /\ ~page.posting /\ page' = [page EXCEPT !.posting = TRUE]
    /\ Ask(requests, Request("post", page.stance, page.newPost))
SubmitComment ==
    /\ Do /\ Shown(page.open) /\ page.newComment # None /\ UNCHANGED page
    /\ Ask(requests, Request("reply", page.open, page.newComment))
Like(p) == Do /\ Shown(p) /\ UNCHANGED page /\ Ask(requests, Request("like", p, None))

(***************************************************************************)
(* The API serves a request.                                               *)
(***************************************************************************)
Answer(i, a) == requests' = [requests EXCEPT ![i].answer = a] /\ UNCHANGED <<page, missed, lost, moves>>

Serve(i) ==
    LET r == requests[i] IN
    /\ r.answer = None
    /\ \/ /\ r.op = "posts" /\ Answer(i, ListPosts(r.about)) /\ UNCHANGED <<posts, comments>>
       \/ /\ r.op = "comments" /\ Answer(i, ListComments(r.about)) /\ UNCHANGED <<posts, comments>>
       \/ /\ r.op = "post" /\ Answer(i, {}) /\ UNCHANGED comments
          /\ posts' = Append(posts, [stance |-> r.about, text |-> r.text, liked |-> FALSE])
       \/ /\ r.op = "reply" /\ Answer(i, {}) /\ UNCHANGED posts
          /\ comments' = Append(comments, [post |-> r.about, typed |-> r.text])
       \/ /\ r.op = "like" /\ Answer(i, {}) /\ UNCHANGED comments
          /\ posts' = [posts EXCEPT ![r.about].liked = ~@]

(***************************************************************************)
(* The answers.                                                            *)
(***************************************************************************)
Overtake(pending, ops) == [k \in DOMAIN pending |->
    IF pending[k].op \in ops THEN [pending[k] EXCEPT !.overtaken = TRUE] ELSE pending[k]]
\* What is left when request i is answered: the reads of its list that were sent before are overtaken.
Others(i) == Overtake(SubSeq(requests, 1, i - 1), {requests[i].op}) \o SubSeq(requests, i + 1, Len(requests))

\* Replies that are read after one was sent may be those of a post that is not open any more.
Strays(r) == r.then /\ r.about # page.open
Told(r) == missed' = IF r.overtaken \/ Strays(r) THEN missed \cup {r.op} ELSE missed \ {r.op}

Released(p, r) == IF r.ends THEN [p EXCEPT !.posting = FALSE] ELSE p
Continue(r, pending) == IF r.then THEN Ask(pending, LoadPosts(page.stance)) ELSE requests' = pending

DeliverRead(i) ==
    LET r == requests[i] IN
    /\ IsRead(r) /\ r.answer # None
    /\ page' = Released(IF r.op = "posts" THEN [page EXCEPT !.posts = r.answer]
                        ELSE [page EXCEPT !.comments = r.answer], r)
    /\ Continue(r, Others(i)) /\ Told(r) /\ UNCHANGED <<posts, comments, lost, moves>>

DeliverWrite(i) ==
    LET r == requests[i] IN
    /\ ~IsRead(r) /\ r.answer # None
    /\ \/ /\ r.op = "post" /\ page' = [page EXCEPT !.newPost = None]
          /\ Ask(Without(i), [LoadPosts(page.stance) EXCEPT !.ends = TRUE])
       \/ /\ r.op = "reply" /\ page' = [page EXCEPT !.newComment = None]
          /\ Ask(Without(i), [LoadComments(r.about) EXCEPT !.then = TRUE])
       \/ r.op = "like" /\ UNCHANGED page /\ Ask(Without(i), LoadPosts(page.stance))
    /\ UNCHANGED <<posts, comments, missed, lost, moves>>

\* A request fails before or after it was served; what was on the screen stays there.
Fail(i) ==
    LET r == requests[i]
        untold == IF IsRead(r) THEN {r.op} ELSE IF r.answer = None THEN {} ELSE {"posts", "comments"}
    IN  /\ page' = IF r.op = "post" THEN [page EXCEPT !.posting = FALSE] ELSE Released(page, r)
        /\ Continue(r, IF IsRead(r) THEN Others(i) ELSE Overtake(Without(i), untold)) /\ missed' = missed \cup untold
        /\ lost' = (lost \/ (r.op = "post" /\ r.answer # None))
        /\ UNCHANGED <<posts, comments, moves>>

(***************************************************************************)
(* Specification: the page has been opened at a stance with two posts, to  *)
(* one of which there is a reply.                                          *)
(***************************************************************************)
Init ==
    \E s \in StanceIds :
        /\ posts = <<[stance |-> s, text |-> 1, liked |-> FALSE], [stance |-> s, text |-> 2, liked |-> TRUE]>>
        /\ comments = <<[post |-> 1, typed |-> 1]>>
        /\ missed = {"posts", "comments"} /\ lost = FALSE /\ moves = 0
        /\ page = [stance |-> s, posts |-> <<>>, open |-> None, comments |-> {}, newPost |-> None,
                   newComment |-> None, posting |-> FALSE]
        /\ requests = <<LoadPosts(s)>>

Next ==
    \/ \E s \in StanceIds : SelectStance(s)
    \/ TypePost \/ TypeComment \/ SubmitPost \/ SubmitComment
    \/ \E p \in DOMAIN posts : ToggleComments(p) \/ Like(p)
    \/ \E i \in DOMAIN requests : Serve(i) \/ DeliverRead(i) \/ DeliverWrite(i) \/ Fail(i)

-----------------------------------------------------------------------------
\* With no request under way the page shows the posts of its stance, and under the open post the replies
\* to it, unless answers came out of order or not at all, or a reply was sent to a post that was closed
\* meanwhile: the reads after every change (submitPost, submitComment, like, toggleComments, the watch of
\* the stance) suffice.
PageSettles ==
    requests = <<>> =>
        /\ "posts" \in missed \/ page.posts = ListPosts(page.stance)
        /\ "comments" \in missed \/ page.open = None \/ page.comments = ListComments(page.open)
        /\ ~page.posting

\* A reply belongs to the post it was typed under (toggleComments), and a text is posted once unless its
\* author was not told that it was posted.
TextsArrive ==
    /\ \A c \in DOMAIN comments : comments[c].post = comments[c].typed
    /\ lost \/ \A p, q \in DOMAIN posts : posts[p].text = posts[q].text => p = q
=============================================================================
