# Windcock in TLA+

Windcock is an opinion-polling platform: a NestJS API over PostgreSQL (through Prisma, READ
COMMITTED unless said otherwise), Redis and Socket.IO, and a Nuxt web client.  One API process
serves all requests (`docs/architecture.md`), but requests, transactions, fetches and socket
messages interleave freely.  This directory holds TLA+ modules for the parts that change
shared state, TLC configurations that check them on small instances, and proofs, checked by
TLAPS, of what matters most.

Contents: 1 inventory, 2 how the project is laid out and what is left of the plan, 3 modules,
4 runs and bounds, 5 fairness, 6 proofs, 7 findings and known deviations, 8 what is not
modelled.

## 1. Inventory

Paths are below `src/apps/api/src/` unless they start with `web/` (`src/apps/web/`).

### The API

| component | source | state | operations | what is hard | what makes it correct |
|---|---|---|---|---|---|
| Voting | `topics/topics.service.ts` | `votes`, `vote_selections`, `topic_rank_results`; counters of `topics` and `topic_options`; `point_transactions`, `users.points_balance` | vote, scratchDraw, gameDraw, revote, withdrawVote, saveRank, withdrawRank | requests of one user and of many interleave; counters are increments; a survey's own vote depends on the answers to all its questions; the reward is read, added, written | counters equal the rows; one answer per person and topic; the survey vote marks exactly the complete; no credit lost; a closed round is final; no deadlock among votes |
| Staged rounds | `topics/topics.service.ts` | status of the parent and of its rounds, `sort_order`, `round_feedback` | createStaged, publishRound, finishStaged | both operations decide on a read made outside their transaction | one open round while the topic is open, none afterwards; feedback exactly on closed rounds; what is closed stays closed |
| Live counts | `topics/topics.service.ts`, `realtime/`, `web/pages/topic/[id].vue`, `web/composables/useRealtime.ts` | spectrum statistics, rooms, ticks under way, the page and its fetches | recomputeSpectrum, totals, broadcastTopicVotes, topic:join, load, applyUpdate | everything after the commit runs outside any transaction; fetches answer out of order; the user moves on | a page shows its own topic, a refresh includes what it was told of, the page catches up |
| Topic lifecycle | `topics/topics.service.ts` | status, options, audience and featured order of topics; notifications | create, createQuick, createSurvey, createStaged, createEditorial, updatePending, review, publishEditorial, setFeatured | the status is checked outside the statement that acts on it; several editors at once | followers are told exactly once and only of open topics; the featured list is one list somebody saved |
| Topic proposals | `identity/topic-applications.service.ts`, createEditorial | `topic_applications`, revisions, results | submit, updateMine, review, createEditorial | some checks before the transaction, some inside; locks in different orders | decisions are on what the decider saw, final, and adopted at most once |
| Stance proposals | `identity/stance-applications.service.ts` | `stance_applications`, revisions, results | submit, updateMine, withdrawMine, review, publish, resolve | several proposals at once; the topic may close and the parent stance be taken down | the same, and published only on an open target |
| Stances | `topics/stances.service.ts` | `topic_stance_signals`, two counts, the tree, reports | toggleSignal, create, remove, report, takedown, restore | SERIALIZABLE with retries; children counted before the delete cascades; a report filed after a takedown | counts equal the rows; a commit toggles; retries end; a removal loses no more than newcomers; reports of a stance that is down are closed, except late ones |
| Comments, posts, likes | `posts/posts.service.ts`, `web/components/Discussion.vue` | posts, comments, likes, `like_count` | createPost, createComment, toggleLike, the lists | three statements without a transaction; lists that overlap and are paged | counters equal rows unless a like was overtaken; the page settles on what is stored |
| Share links, rooms | `topics/topic-access.service.ts`, `channels/`, `realtime/realtime.gateway.ts` | link token, grants, follows, sockets in rooms | rotate, disable, redeem, follow, unfollow, join, evict, expire | grant written after the link was read; join finishes after the eviction | only late ones keep access |
| Demographic consent | `profiles/demographic-profiles.service.ts`, createDemographicSnapshot | profile, guardian consent, code and two counters in Redis, snapshots | update, remove, sendGuardianOtp, verifyGuardianOtp, snapshot of a vote | two tables and Redis; keys expire apart; snapshots are written after the vote | a verified minor has both consents; a code works once; a withdrawal removes the snapshots |
| Topic analytics | `topics/topic-analytics.service.ts` | reads votes, snapshots, signals, counters | trends, demographics, stances, compare, availability | a group below the threshold could be computed from the others; reads a statement apart | what is hidden cannot be computed; parts add up |
| GIFs | `memes/` | files, rows, collections, reports, usage events | upload, review, takedown, collect, report, recordUsage, clean-up | files and rows; two transactions on one row; daily limits of rewards | a row in use has its files; nothing is left of what was taken down |
| Avatars, option images | `avatars/`, `member-center/` | files, `avatar_url` | uploadAvatar, selectAvatar, removeAvatar, clean-up | read, write and remove without a transaction | the row's file exists |
| Drafts | `topics/drafts.service.ts` | rows | create, update, delete | count, then create | limits of 20 |
| Rate limits | `redis/redis.service.ts` and its users | Redis counters | INCR and EXPIRE, one script, cooldown of topic creation | a crash in between; expiry | limits hold; nobody is locked out for good |
| AI authoring | `authoring/` | session, lock, drafts in Redis | generate, its two attempts, retries | a lock that expires under a slow generation | one generation per session |
| Policy, authentication, test identities | `identity/policy.service.ts`, `auth/`, `identity/dev-identity.service.ts`, `web/stores/auth.ts`, `web/composables/useApi.ts` | roles, grants, assignments, seniority; token and user of the page | assertions, capability summary, login, registration, logout, assume, release, 401 | the same rules thrice, in the assertions, the summary and the page; answers that arrive after the user is somebody else | what a page offers the API grants; a session ends for a cause |
| Notifications | `notifications/`, `web/pages/me/notifications.vue`, header | rows with `read_at` | list, markRead, readAll, counts | counts kept in three places | they agree once reads are done |

### The web client

| component | source | state | what is hard | what makes it correct |
|---|---|---|---|---|
| Vote panels | `web/components/quick/`, `web/composables/useVoteMutation.ts`, `useVotingGate.ts` | the question shown, the draft or game of its panel, requests, fetches | a request answered after the topic was replaced; animations; 409 and retry; a reload that unmounts | an unanswered question can be answered; the last answer given is the one stored and shown |
| Explorer of stances | `web/components/StanceTree.vue`, `web/pages/topic/[id].vue` | what is open in the explorer, the page, the URL; dialog, edit | three copies with watchers; awaits after which something else is open | what is shown is what was opened last |
| Discussion | `web/components/Discussion.vue` | posts, replies, texts typed | requests without guards | a text that was sent arrives; lists settle |
| Forms of questions and topics | `web/pages/topics/`, `web/components/topics/`, `web/utils/`, `topics/dto/` | the form, its drafts and files | four sets of rules | what a page submits the API accepts; drafts come back; what was imported is what is sent |
| Pages of drafts | `web/pages/me/drafts.vue`, `web/composables/useDrafts.ts` | a list and what is busy in it | reads that overlap | the list settles; nothing stays busy |

Categories, the reads of the member center and pages that only present are in section 8.

### How the components interact

* A vote locks its topic row; publishRound and finishStaged update the same row, and so does a
  comment.  A vote's reward and a GIF reward update the same `users` row.
* A vote on a question of a survey inserts the vote on the survey itself.
* After its commit a vote starts the snapshot of the voter's profile, the recomputation of the
  statistics and the broadcast; the page fetches the topic again on the broadcast.  Its panel,
  explorer and discussion react to that fetch.
* Editors turn proposals into topics and stances; a stance or topic that goes down closes the
  target of other proposals.  Stances carry signals.
* A topic that opens notifies the followers of its channel; grants and follows decide who may
  view it and who is in its room.
* Forms produce drafts, requests and files; the DTO and the service check them again.
* The capability summary decides what the pages offer, the assertions what the API does.

## 2. Layout and plan

Each component has a module; where two operations matter as much as their interleaving there
is one with atomic operations (the contract) and one with a statement per step that implements
it.  Small components share a run: an MC module instantiates several of them, a variable
`scope` chosen by the initial state says which one a behaviour is about, and the variables of
the others stay as they are.  Components in one MC module do not interact in the code except
where a scope combines them, so a run still looks at all their behaviours.

Done, in this order: voting, staged rounds, live counts, both kinds of proposals, signals,
consent; access, topic lifecycle, the tree of stances; GIFs and their files, limits, AI
sessions, drafts; analytics; forms; panels, explorer, policy and sessions; discussion,
pictures of members, notifications.

Proved, in this order: `Tally` and the other contracts, signals and consent; that
`VoteTransactions` implements `Tally`; access to restricted topics; the parts of `MCContent`;
`StagedRounds` and `LiveCounts`; both kinds of proposals against their contract and their
deadlocks; policy and sessions, the tree of stances, the discussion; statistics of members, the
panels, the explorer.

Left: nothing of the plan but what section 6 leaves to TLC.

## 3. Modules

`Ballot` holds what is fixed while answers come in: kinds, types, parents and options of the
topics, which answers a type allows, when a survey is complete.  Two modules build on it.

* **`Tally`** — each operation one step: status of topics, the sets of voters (`votes`), of
  selections (`picks`) and rankings (`ranks`), the three counters as the code increments and
  decrements them, rewards and balances.  `Vote`, `Draw`, `Revote`, `WithdrawVote`, `SaveRank`,
  `WithdrawRank` are the six operations, `Publish`, `OpenRound`, `FinishStaged` the lifecycle
  they depend on, `EarnElsewhere` the GIF reward of an account.
* **`VoteTransactions`** — the same operations a SQL statement per step with the locks of the
  code: advisory lock on the user, `FOR UPDATE` on the topic, `FOR UPDATE` on the user; reads
  see what is committed; a transaction may roll back anywhere; PostgreSQL aborts a deadlock
  victim.  One statement of `createComment`
  with a GIF is included because it takes the same two locks in the other order.  It
  implements `Tally` (`T == INSTANCE Tally WITH ...`).

| module | code | state and actions |
|---|---|---|
| `StagedTopic` | createStaged, publishRound, finishStaged | the contract: rounds with status and feedback, each operation atomic |
| `StagedRounds` | the same | `ReadForPublish`, `ReadForFinish` before the transaction, then a statement per step with row locks; refines `StagedTopic` until requests overlap (`overlapped`) |
| `LiveCounts` | recomputeSpectrum, broadcast, gateway, topic page | per request aggregate, update, total, broadcast; the page's `Navigate`, `Reload`, `Deliver`, `TimerFires`, `Answer`, `Receive`, `Fail`, `JoinAfter` |
| `ApplicationLifecycle` | both proposal services | the contract: status and revisions, `Submit`, `Resubmit`, `Review`, `Withdraw`, `Adopt` |
| `StanceApplications` | stance proposals | arrive with what was seen, lock in id order, recheck, hold or read the target, commit; refines `ApplicationLifecycle` |
| `TopicApplications` | topic proposals and their adoption | as above, with the reads before the transaction and the locks of revisions; refines `ApplicationLifecycle` until a decision is overtaken |
| `StanceSignals` | toggleSignal and the moderation of a stance | snapshot, row locks, serialization failures, retries |
| `StanceTree` | the rest of `stances.service.ts`, posts and likes | rows with parents; each call checks in one step and writes in another; foreign keys cascade or refuse; `lateReport`, `drift` are what overtaken writes leave |
| `Discussion` | lists and writes of posts and replies, `Discussion.vue` | two lists read again after each write, answers in any order |
| `TopicLifecycle` | creation, edit, review, publication, featuring of topics | check, transaction, fan-out of notifications as steps of a request |
| `ShareAccess` | links, grants, follows, sockets | a statement or an await per step; `Crash` empties the rooms; `late` are the grants and joins an earlier check still let in |
| `DemographicConsent` | profile, guardian code, snapshots | transactions under the profile's advisory lock are one step; Redis commands, checks and inserts of snapshots are separate steps |
| `TopicAnalytics` | the partner's and staff's statistics | people as a bag of rows; a request reads counters first and rows later; every figure of an answer as the service computes it |
| `Gifs` | GIF rows | a statement per step with its row locks: review, takedown, collect, report, use |
| `GifFiles` | GIF files | quarantine, temporary directory, the renditions moved in one step and then the original, row; hourly clean-up, `Crash`, `Restart` |
| `AvatarFiles` | picture of a member | reference read, row written, old file removed, in three steps, each of which may fail; crashes; the clean-up of the shared quarantine |
| `RateLimits` | all counters of INCR and EXPIRE | a Redis command per step; `Die` between any two; `WindowEnds`, `CooldownEnds` |
| `AuthoringSession` | AI session | lock, model call of one or two attempts, store, unlock; `Tick` is five seconds |
| `Drafts` | drafts service | check and write apart |
| `DraftPages` | the pages that list, save and load drafts | two lists, reads that overlap, rows that are busy |
| `QuestionForms` | forms quick, survey, staged; DTO and prepareQuickQuestion | edits of the form, import, draft and its loading; the request a form yields and what the API makes of it, sensitive words and titles already taken included, as functions |
| `TopicForm` | the formal topic's form, its import of a file, the assistant's draft | edits; `Apply` fills in the texts and the type and queues the watcher on it, `Watch` runs the watcher, `Fill` the rest after nextTick |
| `VotePanel` | panels of every kind, useVoteMutation | user steps, answers and losses of requests, animations, refreshes and reloads |
| `StanceExplorer` | `StanceTree.vue`, topic page | explorer, page and URL, with watchers flushed after each step and `router.replace` later |
| `Policy` | assertions, capability summary, getters of the store | no state: operators over an account's row |
| `Sessions` | token, test identity, 401s | one page; each request keeps the token it was sent with |
| `Notices` | notifications | rows and three counts; requests in `MaxPending` slots, so that each is told from the others |

The `MC...` modules instantiate these, where a run combines several or needs more than constants;
the modules named `...Proofs` hold the proofs (section 6).  Operators
whose name says what they leave out (`LockAdvisoryNone`, `RemoveUncounted`, ...) are wrong variants
of an operator beside them, kept to check that the properties notice the difference;
no specification uses them.

Data is abstracted to what is told apart: a median, a total or a fetched page is the number of
committed changes it was computed from; `updated_at` is the number of changes of a proposal;
the text of proposals, comments and feedback is left out; a text of a form is a number (its
length, or 0 when blank, equal numbers for equal texts); a birth date is the age class that
follows from it; people who did the same are counted, not named.

## 4. Runs and bounds

| run | question | instance and why it is enough |
|---|---|---|
| `tally` | do counters, answers, survey marks, balances and closed rounds stay right after any sequence of steps?  Can an open question be answered, and is the last answer the one stored?  Does the explorer show what was opened last? | two users; one scope: a survey of a drawn and a ranked question, two formal topics, a multi-select; another: a staged topic with two rounds and a ranking; topics of the two share no row but the accounts.  The panel: every kind at every place that shows it, two choices, two rounds, two requests at a time, one event from outside.  The explorer: a stance and one derived from it, two proposals, four moves: one to open, one to act, two to go elsewhere while it is answered |
| `voting` | is every commit a `Tally` step, do votes ever wait in a circle, is a credit lost? | up to three requests; workloads: two users on two questions of a survey, votes and GIF rewards of one account, one user's own requests on polls and draws, two users on a ranking, votes against publishRound and finishStaged.  The workloads bring together the operations that write the same rows; across workloads they only share accounts |
| `staged` | do the rounds follow the contract until requests overlap, what survives an overlap, and does every request end? | three rounds, three requests.  Beside them, for `EveryRequestEnds`, votes and comments of one account (the workload with deadlocks) and the toggles of one stance with three attempts |
| `live` | does a page show its topic, what it was told of, and catch up; are statistics repaired? | two topics, two requests, `MaxEvents` = 3 commits, navigations and reloads together: enough for two recomputations that overlap and a third after them, or a move away and back |
| `applications` | is every commit a step of the lifecycle on what the user saw; what is published where; who deadlocks? | stances: two proposals, two requests, three changes each, daily limit 2; topics: two proposals, three requests, `MaxLoad` = 4 proposals and requests together, four versions |
| `signals` | do counts follow signals and likes, what do removals take along, do the pages offer what the API grants, why does a session end, does the discussion settle? | two users and two overlapping toggles with the three attempts of the code; three stances, a post, two overlapping calls of four; two accounts, four test identities, four requests sent and two waiting; four moves in the discussion, which is one to open, one to write, two to go elsewhere |
| `members` | both consents, codes used once, what a withdrawal leaves; who keeps access; what the statistics give away | two verifications, two codes, one vote, limits of one: a counter below, at and above its limit; two tokens, two users, one socket, four requests; three to five people with thresholds of two and three |
| `content` | who hears of a topic, which lists, limits and files hold | two requests of five on two topics; three counters of limit two, one of each way the API counts, and six requests on them; four calls of an AI session against a lock of eight ticks and a model of five; three transactions on two GIFs; two uploads; four saves of drafts with limits of one; two changes of a picture; three notifications, two slots for requests and three moves |
| `forms` | does the API take what the pages offer, do drafts come back, is what was imported what is sent? | every type of question, texts blank, short, at and over their limit, the example files, and files and drafts at the limits and beyond what the page checks (blank options, labels over 50, blanks around texts, odd sources, trees too wide), four edits.  Lists of two rows a page and three drafts: a row beyond the page; three moves |
| `voter_count_people` | does `voter_count` count people? | one user on one ranking: it does not |
| `consent_withdrawn` | is no snapshot left without consent? | one vote: one may be |
| `matching_pair` | can a matching question be answered whose matches belong to the labels in their own rows? | the panel alone: it cannot |

Bounds: `MaxCredits` (GIF rewards per account), `MaxEvents`, `MaxChanges`, `MaxVersions`,
`MaxLoad`, `MaxCalls`, `MaxAsked`, `MaxSent`, `MaxReads`, `MaxPending`, `MaxMoves`, `MaxTokens`, `MaxRequests`,
`MaxTopicRequests`, `MaxLimited`, `MaxGenerations`, `MaxGifRequests`, `MaxNotes`, `MaxEdits`,
`MaxAlone` and `MaxRows` (questions and rows up to which a form is edited one input at a time),
the sets `Workloads` and `Scopes`, and the finite sets of codes, requests and lengths.  They only
disable steps that begin something new.  Deadlock is not checked where the system may really come
to rest: all topics answered or closed, a bound reached, a stance removed.

Some properties hold up to something that went wrong on the way, and say so with a history
variable or predicate, each set by exactly the step it is named for: `overlapped` (a staged
request read while another was in progress), `excused` (the last recomputation of a topic
overlapped another or failed), `Overtaken` (a decision is committed on a proposal that changed
since it was read), `lateReport` and `drift` (a report, a like, that was overtaken), `late`
(a socket that entered a room when it could no longer view it), `lapses` (what was refused, dropped
or overtaken in a panel), `missed` (a list no answer has told the page about), `lost` (an answer to
a post was lost after it was written), `stray` and `undone` (files left by a crash, a failed
removal or a failed read, and pictures removed by a failure after the row was written), `applied` (the file or draft
a form was last filled with, until an edit).  What lies beyond is in section 7.

## 5. Fairness

* Transactions: strong fairness of a request's statements.  A row lock or advisory lock of
  PostgreSQL is granted in the order of its queue, so a waiter is not passed over for ever
  although the lock is taken again in between; statements themselves are bounded.  A deadlock is
  detected and its victim aborted (weak fairness of `AbortVictim`).
* Refusals (exceptions of the code) roll back: weak fairness.
* Requests never have to arrive; roll backs never have to happen.
* Live counts: weak fairness of what the server does after a commit and of the delivery of
  messages that were sent to a connected socket.  Nothing is assumed of the user; fetches may
  stay without answer.
* The safety properties need no fairness; that the client "settles" is stated as an invariant of
  states with nothing under way.

## 6. Proofs

TLAPS proves the theorems below for every value of the constants that meets the assumptions of
the modules.  These say that sets are finite and not empty, ids and bounds numbers, markers like `NoReq`
or `None` not members of the sets they mark, and how a survey, a staged topic or a GIF is related to its
parts.
Three say more.  `ProposalsAssumption`: proposals are locked in the order of their ids, modelled
as numbers.  `NoticeAssumption`: at least two requests may be under way.  `LockAssumption`: an
attempt of the model is shorter than the lock of its session, true of the default of
`AI_AUTHORING_TIMEOUT_MS`, but not enforced by the code.
Those of the web client and of the statistics are few: no answer is not one of the answers, no stance
none of the stances, every stance has at most one parent, TAP questions come on cards
and FORMAL ones on pages (`PanelAssumption`, `ExplorerAssumption`, in `MCTally`); thresholds are natural
numbers (`AnalyticsAssumption`, in `MCMembers`).  Theorems about the parts of an `MC...` module
are about its specification: any part may be the one that moves.

Each proof rests on one inductive invariant, TLC-checked on the run's instance before it was proved.

* **`TallyProofs`**.  Types and counters are proved together as `Counting`: that a decrement stays
  in `Nat` needs the counters to equal the rows, and that removing a vote removes its
  selections needs `PicksHaveVotes` (only voters select).  On top of it `AnswersStayWellFormed`;
  `MarkersTellCompletion`, where completion by one user's answer must be local
  (`CompletionIsLocal`); `BalancesFollowLedger`; `LockedRoundsStayFinal`, from `Lifecycle` (only
  rounds are ever locked, and no question is published before its parent).
  Panels, `PanelInv`: whatever locks a panel is awaited by a request, a timer or a fetch that takes
  the lock back (`VotingIsAsked`, `BusyIsAwaited`); a card keeps its one round (`CardStays`); a
  result that is revealed or a pair that is joined stands for an answer stored or under way (`ScratchStands`,
  `MatchStands`): `OpenQuestionsStayPlayable`.  On top of it `AnswersInOrder`, which holds as long as nothing
  happened that the property excuses (`Orderly`).  Then every step has one of few forms (`Steps`), no
  request fails (`Flowing`) and a page is loaded once at a time (`Loads`).  Where an answer is final,
  what is meant is stored or on its way, unless the API is about to refuse a request, which is excused
  (`FinalMeant`); where one request at a time locks the panel, that request or the row has what is meant (`Locked`,
  `SingleMeant`); a scratch card asks for one draw at a time and then shows its result (`ScratchOne`,
  `ScratchMeant`, `ScratchShown`).  What a panel keeps beside the answer of its topic, a ranking, ticked
  boxes or a text, agrees with it (`RankShown`, `MultiShown`, `ShortKept`, `ShortShown`): `LastAnswersAreStored`.
  Explorer, `ExplorerInv`: the page is where the navigation under way leads, or else where the URL
  is (`Addressed`); unless what was opened was overtaken, the view shows it (`Known`) and no answer still
  awaited can close it (`Unmoved`): `ExplorerShowsLastOpened`.
* **`VoteTransactionsProofs`**, any requests, users, topics and workloads.  `TransactionsAreSound`
  says of each transaction what its path so far implies about its record (`WellFormed`), which
  locks it has (`Held`), and that what it read under them is still true (`Faithful`): the last is what
  makes it inductive, because a statement is harmless to another only through the lock they share.
  `ReadsStayTrue`.  `NoCreditIsLost`: a balance is read under the lock of its user.
  `VotesWaitInOrder`: advisory lock, a question before its survey, user: whoever is furthest on this
  path waits for nobody.
  `CommitsAreAtomic`: each commit is one step of `Tally`, every other statement a stutter, one lemma
  per operation.
* **`StagedRoundsProofs`**.  Of the contract, `Ordered` (one open round and it is the last, feedback on
  exactly the locked ones, at most `TotalRounds`): `OneOpenRound`, `RoundsComplete`, `HistoryStaysFinal`.
  Of the requests, `RoundsAreSound`: until two overlap at most one is under way, what it decided
  outside its transaction still holds when it commits, and the rounds are as the contract has them;
  after an overlap only that a feedback comes with the lock of its round.  `RoundsStayInOrder`,
  `RoundsImplementContract`.
* **`LiveCountsProofs`**.  `LiveIsSound`: of a topic that is not excused at most one request still has to
  write the statistics, and if it has counted already, it has counted every change (`OneWriter`); every
  number under way - counted, announced, in a timer, in an answer - is at most the number of changes
  committed (`NothingAhead`).  `StatsAreRepaired`, `PageStaysCurrent`.
* **`ApplicationsProofs`**.  Of the contract, `Consistent` (status is that of the last revision,
  adopted exactly if approved): `StatusFollowsRevision`, `AdoptedMeansApproved`, `DecisionsStayFinal`.
  Of stance proposals, `StancesAreSound`: the rows a request holds come before those it waits for; from
  its recheck on it holds all of them and they are as its user saw them; of one proposal one
  submission is under way.  Of topic proposals, `TopicsAreSound`: what was read before the transaction
  is true of the version it was read in, revisions are locked after their proposals except by
  reviews.  `CommitsAreSteps` shows step by step that both implement `ApplicationLifecycle`, where a topic
  decision may be `Overtaken`; `RequestsSeeTheState`; `ReviewsAloneDeadlock`: in a circle without
  reviews only proposals are awaited, and whoever holds the greatest one awaited waits for a greater.
* **`StanceSignalsProofs`**, a part per section. Toggles: `Inv` adds to the properties
  `OnlyHolderCommits` (a request about to commit holds the row and its snapshot is fresh) and
  `FreshSeesSignals` (a fresh snapshot is what is committed). `TypeCorrect`, `NobodyHoldsBoth`,
  `CountsStayRight`, `TogglesAreAtomic`. Policy: `OffersAgree`, about operators only, for every row
  of an account and every test identity: what the page reads from a summary is what the assertions
  grant. Sessions: `SessionsInv` says that whoever acts, asks or is remembered is registered, and
  that the summary in the browser was given to its token or is known to be late
  (`PagesOfferWhatIsGranted`, `SessionsAreKept`). Tree: `TreeInv` says that a row hangs below a row
  that is there, that a removal knows every row that was there when it counted and that none of them
  hung below its stance (`RemoversKnow`), and that the counter of likes differs from the rows by
  what requests still owe (`Balanced`): `RemovalsAreOfNewcomers`. Discussion: `PageInv` says that of
  each list the last read under way answers what the page shows, or a write is under way that
  another read will follow (`Follows`), that the button is held by exactly one request, and that the
  text sent is the next one (`NextText`). With the tree: `EverythingSettles`.
* **`MembersProofs`**.  Consent: `FreshCode` (the stored code is issued and unused, a code not yet issued
  is unused) for `CodesWorkOnce`; `WritersAreLate` for `WithdrawalLeavesLateOnes`;
  `VerifiedMinorsHaveGuardians`.  Access: `AccessIsSound` says that whoever is in the room may view the topic, is
  being evicted or entered late, that every grant is for the current token or was overtaken, and
  that the room only has sockets the gateway knows, with a timer that ends their stay;
  `RevokedAccessEnds`.  Statistics: `AnalyticsSound` says that the rows of people are finite and counted
  (`PeopleAreCounted`) and that a read has been audited when it comes to the snapshots (`ReadingGoesOn`);
  the fold that counts people is the cardinality of a set (`FoldIsMass`, by a least counterexample instead of an
  induction), and disjoint groups add up: `HiddenGroupsCannotBeComputed`.
* **`ContentProofs`**, a part per section.  `FilesAreSafe`: an upload has the places its step needs, and
  whatever the clean-up has listed and not removed yet is of an upload known as slow, or has no row.
  `PicturesAreSound`: a reference that was replaced never returns to the row, and a picture the row does
  not name is about to be removed or stray (both: `FilesAreThere`).  `GeneratorsHoldLock`: whoever generates
  without a second attempt has the lock, which is as old as its attempt (`OneGenerates`).
  `CountersAreSound`: those that passed and those that are about to are no more than the counter and no more
  than the limit; `SavesAreCounted`: rows exceed the limit by no more than have raced or turned into drafts;
  `GifsAreSound`: between its lock and its end nobody changes what a request has read, and collections,
  reports and payments agree with the counts (`LimitsAreKept`, `TakedownsAreSettled`).  `TopicsAreSound`: what a
  request has checked of its topic still holds when it writes, and a topic is opened first out of a
  state nobody has heard of (`FeaturedAreTheList`); `NoticesAreSound`: every place that is not stale counts
  what will be unread once the marks under way have arrived (`TopicsAreToldOnce`).

Only model-checked:

* All liveness (`EveryRequestEnds`, `PageCatchesUp`): fairness and ENABLED are beyond the prover.
* `ResultsAddUp`: it relates what several folds over sorted sequences compute (days, quartiles, changes of
  the lead); what such a fold computes for every input needs induction over data, which the installed
  provers cannot do.
* `OffersAreAccepted`, `ImportIsSent` and `DraftsComeBack` for the same reason (forms are checked over
  sequences of questions), and because they compare large functions of a form case by case.

## 7. Findings and known deviations

Three disagreements with what the repository says of itself have a run that shows them.

* `voter_count_people`: `docs/database.md` says that `voter_count` counts people; whoever votes on an
  IMAGE_RANK topic and ranks it too is counted twice.
* `consent_withdrawn`: `privacy.vue` promises that a withdrawal deletes existing snapshots; one whose
  writer had read the profile before is inserted afterwards and stays.
* `matching_pair`: `MatchingGame.vue` asks to join the pairs that belong together.  The form stores the match an author
  typed beside a label with that label's option, and the game refuses to join an option to itself; it joins two
  options only where the match of one is the label of the other.  A question whose matches are the
  counterparts of the labels beside them, which is what the builder asks for, has no pair and cannot be
  answered; one whose author typed the label of another row can.

The other deviations are excluded from the properties by the histories of section 4 or by the
words of the property, and each is reached by the module named.

Server:

* `StagedRounds`: two overlapping publishRound requests publish more rounds than announced, or two
  open ones; publishRound that read before finishStaged committed leaves an open round under a
  settled topic.
* `LiveCounts`: two overlapping recomputations leave statistics that miss a vote until the next
  one; a vote broadcast between the first fetch and the joining of the room is not shown until
  the next tick.
* `TopicApplications`: a review that read a proposal before it was adopted rejects it although it
  has become a topic; an adoption marks the revision number it read earlier.
* `TopicLifecycle`: the audience of an adopted topic is that read before the lock; two overlapping
  setFeatured leave the union of their lists; an updatePending that was overtaken by the review
  replaces the options of an open topic; a review uses the duration and content it read before;
  two publications of one draft tell the followers twice; overlapping creations make duplicate titles.
* `StanceApplications`: resolve reads its target without holding it and can publish below a stance
  taken down meanwhile; overlapping submissions pass the daily limit.
* `StanceSignals`, `StanceTree`: a toggle that arrived before a takedown is recorded after it; a report
  that arrived before it stays open; a stance published below one that is being removed goes with
  it; a like that fails between its statements leaves `like_count` off by one.
* `ShareAccess`: a grant is written for a token that was rotated meanwhile; a socket that joined
  late stays in the room until it leaves, is evicted again or expires.
* `DemographicConsent`: after too many failures the counter of attempts outlives the code, so a
  newly requested code is deleted by the first attempt to enter it.
* `RateLimits`: a crash between INCR and EXPIRE locks out whom the counter counts, for good.
* `AuthoringSession`: the lock of 40 seconds is shorter than two attempts of 25 seconds, and a
  retry that read the session before the drafts were stored generates them again.  The 25 seconds
  are a default: nothing keeps `AI_AUTHORING_TIMEOUT_MS` below the 40 of the lock, and above them a
  single attempt outlives its lock (the run and the theorem assume it is below).
* `Gifs`, `GifFiles`, `AvatarFiles`: a crash between two renames leaves renditions nobody removes; a
  failure of the read of the session after the row was written removes the picture the row names;
  a failed read of the reference after the conversion, overlapping changes, failed
  removals and crashes leave pictures nobody removes; the
  clean-up of GIFs removes the whole quarantine directory of avatars after an idle hour, and an upload
  that meets it fails.
* `Drafts`: overlapping saves, and a template that becomes a draft again, pass the limit of 20 of
  `docs/architecture.md`.
* `TopicAnalytics`: two hidden groups together may be smaller than the minimum; configuration may set
  the cohort above the total; a hidden unvotedAgree can be deduced and counts the voters of a SPECTRUM
  topic as not having voted; the fastest growing option may be shrinking; coverage and support may
  exceed 100 % when a vote came between two reads; availability always uses the threshold of REGION.
* `Policy`: quick and survey pages are offered to STAFF and PARTNER, which assertSeniorMember refuses;
  assignments scoped to an organization or topic are offered what needs GLOBAL ones; CapabilityGuard takes any numeric
  `:id` for that of a topic; distinctTopicsVoted counts votes; a member is promoted by being looked at.

Web client:

* `VotePanel`: a SPECTRUM topic that is FORMAL cannot be submitted; an unanswered SPECTRUM shows 50 as
  one's own choice; a short answer shows the text typed, a voted multi-select the boxes ticked; a
  wheel is stuck when its topic is replaced while it spins, a ranking after a refused submission;
  matching and puzzle keep their landing after a withdrawal; a scratch card reveals a withdrawn
  result; the timer of an unmounted panel still submits; a withdrawal during a replay loses the ranking;
  answering one question of a survey remounts the others and loses what was typed; overlapping
  refreshes of a card skip the retry after a 409.
* `StanceExplorer`: a proposal opened from a stance closes at once; a save or an addition that is
  answered late closes the edit or dialog of something else; a withdrawal answered late moves the
  user; a failed read of the list hides one's own proposals.
* `Discussion`: the replies of the previous post are shown until those of the next arrive, and stay when
  that read fails; a reply sent while another post was opened loads the former's replies; overlapping reads
  after a change of stance may leave another stance's posts; only the 50 oldest replies and
  newest posts are ever read; a double click replies twice; text typed while a post is sent is lost.
* `DraftPages`: rows beyond the 20 that were changed last cannot be loaded, although `me/drafts.vue` says all are
  listed; an overtaken answer is shown, possibly of another tab; a refresh discards the name being
  typed; a failed read says that there are none.
* `Notices`: a failed markRead stays marked on screen; a failed read of the header shows 0; a readAll of a
  page that was left still sets the counts; the page's count overwrites newer ones.
* `Sessions`: the second 401 of an expired test identity logs the operator out, and so does a
  reload with it; any failure of `/auth/me` at the start, a wrong password while signed in, and a 401 to a
  request of an earlier session log out; a summary of capabilities that arrives late is shown
  until the next; a login answered after a logout signs in again.
* `QuestionForms`: a weight of 2^48 in scratch cards is accepted and cannot be drawn; a wheel left without
  weights, a title that another topic has and sensitive words pass the page and are refused; the prompt of a
  short answer is not looked through for such words.
* `TopicForm` (`Differs` names them all): the page lets through and the API refuses links without a domain; sources of
  a file with a label over 100 or no date; texts that exceed a limit with the blanks around them; labels
  over 50; blank options of a file that the author then fills - a third of a BINARY, a seventh of a MULTIPLE
  one -; trees with more than 60 roots or 20 children, or a rationale that is blank or too long with its
  blanks; titles of other topics, which only an editorial and an import are compared with.  A draft of the
  assistant filled in after an import keeps the stances of the file and is still sent as an import.  Formal
  topics are not looked through for sensitive words.  A proposal does not store the images of options.

## 8. Not modelled, and why

* Categories: a table of names.  The reads of the member center, lists of topics, searches and
  profiles: they only read.  The pages, charts and canvases that show what others decide.
* Option images: processed like avatars, never removed, and no row of theirs is shared.  The statistics,
  share dialog and follow button of the topic page: their server sides are in `TopicAnalytics`
  and `ShareAccess`.
* Passwords, Turnstile and text messages are outcomes of a request; the language model is
  external and answers anything in time or too late; conversions of pictures succeed or fail.
* The topic form when it edits a topic that is pending (`create.vue`, `?edit=`): it is filled once while nothing
  can be clicked.  What such an edit writes is `WriteUpdate` of `TopicLifecycle`.  That a category is
  active and that the member may use an endpoint is asked of neither form.
* Rows, columns and wording that no property tells apart; paging where a page is never followed
  by another.
* Loss of the database or of Redis.  A crash of the process is a rollback of every open
  transaction (`Rollback`), and where files, counters or rooms outlive it, a `Crash` or `Die` of
  that module.  A crash between a commit and its broadcast is not modelled: the tick is lost and the page
  shows the vote at its next fetch; `PageCatchesUp` presumes that there is none.
