---------------------------- MODULE ShareAccess ----------------------------
(***************************************************************************)
(* Who may see one restricted topic, and who listens to its room.          *)
(* Share links are rotated, disabled and redeemed                          *)
(* (topic-access.service.ts), followers come and go (channels.service.ts), *)
(* sockets join the room after checks of their own and are put out of it   *)
(* after a revocation (realtime.gateway.ts).  A request is a process: each *)
(* statement or transaction is a step, and so is each await of the         *)
(* gateway.  A crash of the process closes every socket; the rows stay.    *)
(***************************************************************************)
EXTENDS Naturals, FiniteSets

CONSTANTS
    Users,          \* members other than the owner
    Owner,          \* audienceOwnerId of the topic
    Sockets,        \* connections
    UserOf,         \* the member a socket's token was issued to
    Requests,       \* API requests under way
    MaxTokens,      \* bound: tokens ever issued for the link
    MaxRequests     \* bound: requests that arrive

VARIABLES
    private,        \* visibility = PRIVATE_LINK, else PUBLIC
    followersOnly,  \* audience = FOLLOWERS_ONLY, else MEMBER_ONLY
    link,           \* row of topic_share_links: the number of its token, and enabled
    grants,         \* rows of topic_share_grants: the token redeemed, 0 for no row
    overtaken,      \* history: grants written when the token was no longer the link's
    follows,        \* rows of channel_follows of the owner's channel
    room,           \* sockets in topic:<id>
    known,          \* sockets with client.data.userId
    expired,        \* sockets whose JWT has expired
    timers,         \* sockets with a timer of scheduleRoomExpiry
    joining,        \* where the topic:join of a socket is
    late,           \* history: sockets that entered when they could no longer view
    request,        \* API requests under way
    arrived         \* bounded number of requests so far

rows == <<private, followersOnly, link, grants, overtaken, follows>>
sockets == <<room, known, expired, timers, joining, late>>
vars == <<rows, sockets, request, arrived>>

Idle == [op |-> "none", user |-> Owner, token |-> 0, pc |-> "idle", targets |-> {}]
Ops == {"rotate", "disable", "redeem", "follow", "unfollow"}
Restricted == private \/ followersOnly

\* A private topic is created together with an enabled link (createShareLink).
Init ==
    /\ private \in BOOLEAN /\ followersOnly \in BOOLEAN
    /\ link = [token |-> IF private THEN 1 ELSE 0, enabled |-> private]
    /\ grants = [u \in Users |-> 0] /\ overtaken = {}
    /\ follows \in SUBSET Users
    /\ room = {} /\ known = {} /\ expired = {} /\ timers = {} /\ late = {}
    /\ joining = [s \in Sockets |-> "idle"]
    /\ request = [r \in Requests |-> Idle] /\ arrived = 0

----------------------------------------------------------------------------
(* What the rows say now. *)

\* assertFollower
IsFollower(u) == u = Owner \/ u \in follows
\* A row of topic_share_grants under an enabled link; the owner needs none.
HasGrant(u) == u = Owner \/ (grants[u] # 0 /\ link.enabled)
\* assertCanView, and the checks of topic:join.
MayView(u) == (private => HasGrant(u)) /\ (followersOnly => IsFollower(u))

----------------------------------------------------------------------------
(* Requests of the API. *)

Arrive(r, op, u, t) ==
    /\ request[r].pc = "idle" /\ arrived < MaxRequests
    /\ op \in {"rotate", "disable"} => u = Owner    \* ownedQuick
    /\ op = "rotate" => private
    /\ op \in {"follow", "unfollow", "redeem"} => u # Owner
    /\ t \in (IF op = "redeem" THEN 1..link.token ELSE {0})
    /\ request' = [request EXCEPT ![r] = [op |-> op, user |-> u, token |-> t, pc |-> "begin", targets |-> {}]]
    /\ arrived' = arrived + 1
    /\ UNCHANGED <<rows, sockets>>

Done(r) == request' = [request EXCEPT ![r] = Idle]
Goto(r, pc) == request' = [request EXCEPT ![r].pc = pc]

RotateKeepingGrants(r) ==
    /\ request[r].op = "rotate" /\ request[r].pc = "begin" /\ link.token < MaxTokens
    /\ link' = [token |-> link.token + 1, enabled |-> TRUE]
    /\ Goto(r, "evict")
    /\ UNCHANGED <<private, followersOnly, grants, overtaken, follows, sockets, arrived>>

\* rotateShareLink: grants are deleted and the token replaced in one transaction, here one step, the
\* commit.  A grant written between its statements, which the delete has not seen, is one that is written
\* after the step by a redeem that found the link before it (WriteGrant).
Rotate(r) ==
    /\ request[r].op = "rotate" /\ request[r].pc = "begin" /\ link.token < MaxTokens
    /\ grants' = [u \in Users |-> 0] /\ overtaken' = {}
    /\ link' = [token |-> link.token + 1, enabled |-> TRUE]
    /\ Goto(r, "evict")
    /\ UNCHANGED <<private, followersOnly, follows, sockets, arrived>>

\* disableShareLink, one step for the same reason; without a link the transaction does nothing.
Disable(r) ==
    /\ request[r].op = "disable" /\ request[r].pc = "begin"
    /\ IF link.token = 0
       THEN UNCHANGED <<grants, overtaken, link>>
       ELSE /\ grants' = [u \in Users |-> 0] /\ overtaken' = {}
            /\ link' = [link EXCEPT !.enabled = FALSE]
    /\ Goto(r, "evict")
    /\ UNCHANGED <<private, followersOnly, follows, sockets, arrived>>

\* redeem, first statements: the link of this token, enabled, and the follower check.
FindLink(r) ==
    /\ request[r].op = "redeem" /\ request[r].pc = "begin"
    /\ IF link.token = request[r].token /\ link.enabled /\ (followersOnly => IsFollower(request[r].user))
       THEN Goto(r, "write") ELSE Done(r)
    /\ UNCHANGED <<rows, sockets, arrived>>

\* redeem, last statement: upsert of the grant by the id of the link, which a rotation keeps.
WriteGrant(r) ==
    /\ request[r].op = "redeem" /\ request[r].pc = "write"
    /\ LET u == request[r].user IN
       IF grants[u] # 0 THEN UNCHANGED <<grants, overtaken>>
       ELSE /\ grants' = [grants EXCEPT ![u] = request[r].token]
            /\ overtaken' = IF link.token = request[r].token /\ link.enabled THEN overtaken ELSE overtaken \cup {u}
    /\ Done(r)
    /\ UNCHANGED <<private, followersOnly, link, follows, sockets, arrived>>

Follow(r) ==
    /\ request[r].op = "follow" /\ request[r].pc = "begin"
    /\ follows' = follows \cup {request[r].user}
    /\ Done(r)
    /\ UNCHANGED <<private, followersOnly, link, grants, overtaken, sockets, arrived>>

\* unfollow: the row first, then the restricted topics of the owner, whose rooms the user leaves.
Unfollow(r) ==
    /\ request[r].op = "unfollow" /\ request[r].pc = "begin"
    /\ follows' = follows \ {request[r].user}
    /\ IF followersOnly THEN Goto(r, "evict") ELSE Done(r)
    /\ UNCHANGED <<private, followersOnly, link, grants, overtaken, sockets, arrived>>

\* fetchSockets: of the room for evictTopic (all but the owner's), of the server for
\* evictUserFromTopics (those known to be the user's).
Listed(r) == LET u == request[r].user IN
    IF request[r].op = "unfollow" THEN {s \in known : UserOf[s] = u}
    ELSE {s \in room : s \notin known \/ UserOf[s] # u}

FetchSockets(r) ==
    /\ request[r].pc = "evict"
    /\ request' = [request EXCEPT ![r].pc = "leave", ![r].targets = Listed(r)]
    /\ UNCHANGED <<rows, sockets, arrived>>

LeaveRooms(r) ==
    /\ request[r].pc = "leave"
    /\ room' = room \ request[r].targets
    /\ late' = late \ request[r].targets
    /\ Done(r)
    /\ UNCHANGED <<rows, known, expired, timers, joining, arrived>>

----------------------------------------------------------------------------
(* The gateway: topic:join and topic:leave. *)

\* A public topic is joined at once; otherwise authenticateSocketUser verifies the JWT.
Join(s) ==
    /\ joining[s] = "idle"
    /\ \/ /\ ~Restricted
          /\ room' = room \cup {s}
          /\ UNCHANGED <<known, joining>>
       \/ /\ Restricted /\ s \notin expired
          /\ known' = known \cup {s}
          /\ joining' = [joining EXCEPT ![s] = "grant"]
          /\ UNCHANGED room
    /\ UNCHANGED <<rows, expired, timers, late, request, arrived>>

\* Two reads, one after the other; a failed check ends the join silently.
CheckJoin(s) ==
    /\ joining[s] \in {"grant", "follow"}
    /\ joining' = [joining EXCEPT ![s] =
           IF joining[s] = "grant" THEN IF private => HasGrant(UserOf[s]) THEN "follow" ELSE "idle"
           ELSE IF followersOnly => IsFollower(UserOf[s]) THEN "enter" ELSE "idle"]
    /\ UNCHANGED <<rows, room, known, expired, timers, late, request, arrived>>

\* client.join, then scheduleRoomExpiry: an expired session leaves at once.
Enter(s) ==
    /\ joining[s] = "enter"
    /\ joining' = [joining EXCEPT ![s] = "idle"]
    /\ IF s \in expired
       THEN /\ room' = room \ {s}
            /\ late' = late \ {s}
            /\ UNCHANGED timers
       ELSE /\ room' = room \cup {s}
            /\ timers' = timers \cup {s}
            /\ late' = IF MayView(UserOf[s]) \/ s \in room THEN late ELSE late \cup {s}
    /\ UNCHANGED <<rows, known, expired, request, arrived>>

Leave(s) ==
    /\ s \in room
    /\ room' = room \ {s} /\ late' = late \ {s}
    /\ UNCHANGED <<rows, known, expired, timers, joining, request, arrived>>

\* The session of a socket ends; its timer fires some time later.
Expire(s) ==
    /\ s \notin expired
    /\ expired' = expired \cup {s}
    /\ UNCHANGED <<rows, room, known, timers, joining, late, request, arrived>>

TimerFires(s) ==
    /\ s \in timers \cap expired
    /\ timers' = timers \ {s}
    /\ room' = room \ {s} /\ late' = late \ {s}
    /\ UNCHANGED <<rows, known, expired, joining, request, arrived>>

\* The process restarts: sockets reconnect with a new handshake, requests are lost.
Crash ==
    /\ room' = {} /\ known' = {} /\ timers' = {} /\ late' = {} /\ expired' = {}
    /\ joining' = [s \in Sockets |-> "idle"]
    /\ request' = [r \in Requests |-> Idle]
    /\ UNCHANGED <<rows, arrived>>

RequestStep(r) ==
    \/ Rotate(r) \/ Disable(r) \/ FindLink(r) \/ WriteGrant(r) \/ Follow(r) \/ Unfollow(r)
    \/ FetchSockets(r) \/ LeaveRooms(r)
SocketStep(s) == Join(s) \/ CheckJoin(s) \/ Enter(s) \/ Leave(s) \/ Expire(s) \/ TimerFires(s)

Next ==
    \/ \E r \in Requests: RequestStep(r)
    \/ \E r \in Requests, op \in Ops, u \in Users \cup {Owner}, t \in 0..MaxTokens: Arrive(r, op, u, t)
    \/ \E s \in Sockets: SocketStep(s)
    \/ Crash

Spec == Init /\ [][Next]_vars

----------------------------------------------------------------------------
\* A grant was given for the token the link has now, unless the link changed between the two
\* statements of redeem: rotating a link takes access from everybody who had it before.
OnlyOvertakenGrants ==
    \A u \in Users: grants[u] # 0 => u \in overtaken \/ (link.enabled /\ grants[u] = link.token)

\* An eviction that is decided but not carried out and would remove s.
BeingEvicted(s) == \E r \in Requests:
    \/ request[r].pc = "evict" /\ s \in Listed(r)
    \/ request[r].pc = "leave" /\ s \in request[r].targets

\* Whoever listens to a room may view its topic, is being put out of it, or entered after the
\* revocation with checks made before it; and a session that has ended listens to a room it could
\* join only with it no longer than until the timer set at its entry fires.
OnlyLateJoinersStay ==
    /\ \A s \in room: MayView(UserOf[s]) \/ BeingEvicted(s) \/ s \in late
    /\ \A s \in room \cap expired: Restricted => s \in timers

\* Access that outlasts its revocation was given, or its room entered, while it was revoked.
OnlyLateAccess == OnlyOvertakenGrants /\ OnlyLateJoinersStay
=============================================================================
