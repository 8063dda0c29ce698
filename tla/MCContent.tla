------------------------------ MODULE MCContent ------------------------------
(***************************************************************************)
(* Small instances of the parts of the API that share no row: topics and   *)
(* their review, rate limits, AI authoring, GIFs and their files, drafts,  *)
(* the picture of a member, notifications.  A behaviour is about one of    *)
(* them; the others rest in an initial state.                              *)
(***************************************************************************)
EXTENDS Integers, Sequences, FiniteSets, TLC

CONSTANTS
    Requests, NoOne,
    Topics, Titles, MaxFeatured, MaxVersion, MaxTopicRequests,
    Counters, Discipline, Limit, MaxLimited,
    Generations, LockTicks, ModelTicks, MaxGenerations,
    Gifs, Users, Actors, Creator, ActorLimit, CreatorLimit, MaxGifRequests,
    Uploads,
    Saved, MaxRows, MaxCalls,
    Earlier,
    MaxNotes, MaxMoves, MaxPending

ASSUME RequestAssumption == IsFiniteSet(Requests) /\ NoOne \notin Requests
ASSUME TopicAssumption == IsFiniteSet(Topics) /\ Topics \subseteq Nat \ {0} /\ MaxFeatured \in Nat
\* "plain", "scripted" and "cooldown" are the ways in which the API counts.
ASSUME LimitAssumption == Discipline \in [Counters -> {"plain", "scripted", "cooldown"}] /\ Limit \in Nat
\* An attempt of the model ends before the lock does: 25 seconds, the default of
\* AI_AUTHORING_TIMEOUT_MS (nothing keeps it below the lock), and 40.
ASSUME LockAssumption ==
    /\ NoOne \notin Generations
    /\ LockTicks \in Nat /\ ModelTicks \in Nat /\ ModelTicks < LockTicks
ASSUME GifAssumption ==
    /\ Creator \in [Gifs -> Users] /\ Actors \subseteq Users
    /\ ActorLimit \in Nat /\ CreatorLimit \in Nat
ASSUME DraftAssumption == IsFiniteSet(Saved) /\ NoOne \notin Saved /\ MaxRows \in Nat
ASSUME PictureAssumption == /\ Earlier \notin Requests \cup {NoOne}
                            /\ "preset" \notin Requests \cup {Earlier}
ASSUME NoticeAssumption == MaxPending \in Nat \ {0, 1}

VARIABLES
    scope,
    topic, featured, told, reopened, mixed, topicReq, topicsArrived,
    count, expiring, cooling, passed, sinceCooldown, orphaned, limitReq, limitArrived,
    drafts, alive, holder, lockAge, generations, pc, attempt, age, twice, arrived,
    official, status, collected, collections, report, lateReport, rewarded, points, gifLock, userLock,
    gifReq, gifArrived,
    files, hasRow, uploadPc, busy, aged, slow, cleaner, up,
    saved, call, raced, turned, calls,
    avatar, pictures, waiting, directory, queue, avatarPc, kind, seen, sweeping, running, undone, stray,
    notes, unread, header, menu, page, asked, stale, moves

topicVars == <<topic, featured, told, reopened, mixed, topicReq, topicsArrived>>
limitVars == <<count, expiring, cooling, passed, sinceCooldown, orphaned, limitReq, limitArrived>>
authoringVars == <<drafts, alive, holder, lockAge, generations, pc, attempt, age, twice, arrived>>
gifVars == <<official, status, collected, collections, report, lateReport, rewarded, points, gifLock, userLock,
             gifReq, gifArrived>>
fileVars == <<files, hasRow, uploadPc, busy, aged, slow, cleaner, up>>
draftVars == <<saved, call, raced, turned, calls>>
avatarVars == <<avatar, pictures, waiting, directory, queue, avatarPc, kind, seen, sweeping, running, undone, stray>>
noteVars == <<notes, unread, header, menu, page, asked, stale, moves>>

Lifecycle == INSTANCE TopicLifecycle
    WITH MaxRequests <- MaxTopicRequests, req <- topicReq, arrived <- topicsArrived
Limits == INSTANCE RateLimits
    WITH Keys <- Counters, MaxRequests <- MaxLimited,
         req <- limitReq, arrived <- limitArrived
Authoring == INSTANCE AuthoringSession WITH Requests <- Generations, MaxRequests <- MaxGenerations
GifRows == INSTANCE Gifs
    WITH Nobody <- NoOne, MaxRequests <- MaxGifRequests, req <- gifReq, arrived <- gifArrived
Files == INSTANCE GifFiles WITH pc <- uploadPc
Saves == INSTANCE Drafts WITH Rows <- Saved, Calls <- Requests, Nothing <- NoOne
Pictures == INSTANCE AvatarFiles
    WITH Calls <- Requests, Nothing <- NoOne, files <- pictures, pc <- avatarPc, up <- running
Notes == INSTANCE Notices WITH Unknown <- NoOne, requests <- asked

\* Followers hear of a topic once for each time it opens (publishEditorial, review), and the client
\* counts what its user has not read (me/notifications.vue, app.vue, me.vue).
FollowersToldOnce ==
    /\ scope = "topics" => Lifecycle!FollowersToldOnce
    /\ scope = "notices" => Notes!BadgesAgree
\* The featured topics are one list (setFeatured).
FeaturedIsOneList == Lifecycle!FeaturedIsOneList
\* A session is generated once, but for retries of the model that outlast the lock (authoring.service.ts).
OneGeneratorWithoutRetries == Authoring!OneGeneratorWithoutRetries
\* A takedown settles what hangs on a GIF (memes.service.ts takedown).
TakedownsSettle == GifRows!TakedownsSettle
\* Every row has its files (meme-storage.service.ts, avatar-storage.service.ts).
RowsHaveFiles ==
    /\ scope = "files" => Files!RowsHaveFiles
    /\ scope = "avatars" => Pictures!AvatarHasFile
\* Counters limit what they count (rate-limit.service.ts), rewards stay within the limits of a day
\* (memes.service.ts recordUsage), and only calls that overlap pass the limit on drafts (drafts.service.ts).
LimitsHold == Limits!CountersLimit /\ GifRows!RewardsWithinLimits /\ Saves!LimitPassedByRaces

ContentInit ==
    /\ scope \in {"topics", "limits", "authoring", "gifs", "files", "drafts", "avatars", "notices"}
    /\ Lifecycle!Init /\ Limits!Init /\ Authoring!Init /\ GifRows!Init /\ Files!Init /\ Saves!Init
    /\ Pictures!Init /\ Notes!Init
    /\ scope # "gifs" => official = {} /\ \A g \in Gifs : status[g] = "APPROVED"
    /\ scope # "avatars" => avatar = NoOne
    /\ scope # "notices" => unread = {}
    /\ scope # "drafts" => \A d \in Saved : saved[d] = "none"

ContentNext ==
    /\ UNCHANGED scope
    /\ \/ scope = "topics" /\ Lifecycle!Next
          /\ UNCHANGED <<limitVars, authoringVars, gifVars, fileVars, draftVars, avatarVars, noteVars>>
       \/ scope = "limits" /\ Limits!Next
          /\ UNCHANGED <<topicVars, authoringVars, gifVars, fileVars, draftVars, avatarVars, noteVars>>
       \/ scope = "authoring" /\ Authoring!Next
          /\ UNCHANGED <<topicVars, limitVars, gifVars, fileVars, draftVars, avatarVars, noteVars>>
       \/ scope = "gifs" /\ GifRows!Next
          /\ UNCHANGED <<topicVars, limitVars, authoringVars, fileVars, draftVars, avatarVars, noteVars>>
       \/ scope = "files" /\ Files!Next
          /\ UNCHANGED <<topicVars, limitVars, authoringVars, gifVars, draftVars, avatarVars, noteVars>>
       \/ scope = "drafts" /\ Saves!Next
          /\ UNCHANGED <<topicVars, limitVars, authoringVars, gifVars, fileVars, avatarVars, noteVars>>
       \/ scope = "avatars" /\ Pictures!Next
          /\ UNCHANGED <<topicVars, limitVars, authoringVars, gifVars, fileVars, draftVars, noteVars>>
       \/ scope = "notices" /\ Notes!Next
          /\ UNCHANGED <<topicVars, limitVars, authoringVars, gifVars, fileVars, draftVars, avatarVars>>

contentVars ==
    <<scope, topicVars, limitVars, authoringVars, gifVars, fileVars, draftVars, avatarVars, noteVars>>
ContentSpec == ContentInit /\ [][ContentNext]_contentVars

-----------------------------------------------------------------------------
(* The instance that is checked. *)
ByName == [k \in Counters |-> k]
EachItsOwn == ("g1" :> "u1") @@ ("g2" :> "u2")

\* Overlapping requests are interchangeable, and so are titles.
Symmetry == Permutations(Requests) \cup Permutations(Titles)
=============================================================================
