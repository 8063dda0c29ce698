--------------------------- MODULE MCStanceSignals ---------------------------
(***************************************************************************)
(* Small instances of the two models of stances - the toggles on one       *)
(* stance, in full detail, and the tree of stances with its reports and    *)
(* posts - of the sessions of the web client, and of the discussion below  *)
(* a stance.  One behaviour exercises one of them.                         *)
(***************************************************************************)
EXTENDS StanceSignals, TLC

CONSTANTS
    Stances, Posts, Members, Calls, MaxDepth, MaxCalls,    \* the tree
    Accounts, Population, MaxAsked, MaxSent, MaxChanges,   \* the sessions
    Organizations, Partners, Topics, SourceOf, RequiredDays, RequiredVotes,
    StanceIds, PageSize, MaxReads, MaxMoves,               \* the discussion
    None,
    o, n                                                   \* two accounts

ASSUME TreeAssumption == IsFiniteSet(Calls) /\ 0 \notin Stances
ASSUME DiscussionAssumption == None \notin Nat /\ None # {}

VARIABLES
    scope,
    menu, row, official, proposed, report, lateReport, post, likes, likeCount, drift, open, call, called,
    account, expiredTokens, client, asked, sent, altered,
    posts, comments, page, reads, missed, lost, moves

Menus == { {"submit", "publish", "resolve", "remove", "post", "close"},
           {"report", "takedown", "restore"},
           {"like"} }

treeVars == <<menu, row, official, proposed, report, lateReport, post, likes, likeCount, drift, open, call, called>>
sessionVars == <<account, expiredTokens, client, asked, sent, altered>>
pageVars == <<posts, comments, page, reads, missed, lost, moves>>

Tree == INSTANCE StanceTree WITH stance <- row

Browser == INSTANCE Sessions
    WITH Users <- Accounts, Nobody <- None, MaxPending <- MaxAsked, expired <- expiredTokens, changes <- altered,
         requests <- asked
Below == INSTANCE Discussion WITH MaxPending <- MaxReads, requests <- reads

\* What the database may hold of an account, and the browser of a session.
Rows == [admin : BOOLEAN, senior : BOOLEAN, days : Nat, votes : Nat, team : SUBSET Browser!Scopes,
         organizations : SUBSET Organizations]
Tokens == [user : Accounts, profile : Browser!Profiles \cup {"none"}]
Summaries ==
    [of : Tokens, at : Rows, late : BOOLEAN,
     says : [senior : BOOLEAN, capabilities : SUBSET Browser!Capability, participation : SUBSET Browser!Things,
             analytics : BOOLEAN]]

\* There is something to grant, and nobody is an account.
ASSUME AccountAssumption ==
    /\ Organizations # {} /\ Topics # {} /\ Partners \subseteq Organizations
    /\ None \notin Accounts \cup Rows \cup Tokens \cup Summaries
    /\ Population \in [Accounts -> SUBSET (Rows \cup {None})]

\* An operator of test identities who belongs to a partner; and members who are not registered yet,
\* about to be promoted, of the topic team everywhere, for an organization or for a topic, and partners.
Account(isAdmin, isSenior, days, scopes, memberships) ==
    [admin |-> isAdmin, senior |-> isSenior, days |-> days, votes |-> 0, team |-> scopes, organizations |-> memberships]
Scope(kind, id) == [scope |-> kind, id |-> id]
OperatorAndMembers == [u \in {o, n} |->
    IF u = o THEN {Account(TRUE, FALSE, 0, {}, {1})}
    ELSE {None, Account(FALSE, FALSE, 1, {}, {}), Account(FALSE, TRUE, 0, {Scope("GLOBAL", 0)}, {1}),
          Account(FALSE, TRUE, 0, {}, {1, 2}), Account(FALSE, FALSE, 0, {Scope("ORGANIZATION", 1)}, {1, 2}),
          Account(FALSE, FALSE, 0, {Scope("TOPIC", 1)}, {})}]
FromTheFirst == <<1>>

\* The reports of a stance are settled with it (takedown), and the counter of likes follows the likes
\* (toggleLike), up to what came late or was lost on the way; and so does what the page shows below a
\* stance (Discussion.vue), where texts arrive once and where they were typed.
StancesSettle ==
    /\ scope = "tree" => Tree!OpenReportsAreLate /\ Tree!LikeCountsFollowLikes
    /\ scope = "discussion" => Below!PageSettles /\ Below!TextsArrive

\* What remove takes along was placed there after it counted.
RemovalsTakeOnlyNewcomers == Tree!RemovalsTakeOnlyNewcomers

\* The pages offer what the API grants (policy.service.ts), once they know who their user is.
OffersAreGranted == scope = "sessions" => Browser!OffersAreGranted

\* A session is given up for a cause (useApi.ts, auth.client.ts).
SessionsEndForCause == [][scope = "sessions" => Browser!EndsForCause]_<<scope, client, asked>>

\* What is not explored stands still, in one of its initial states.
StancesInit ==
    /\ scope \in {"signals", "tree", "sessions", "discussion"}
    /\ Init /\ Tree!Init /\ Browser!Init /\ Below!Init /\ page.stance = CHOOSE s \in StanceIds : TRUE
    /\ scope # "tree" => menu = {"like"} /\ Cardinality(Tree!Live) = 1
    /\ scope # "sessions" => client = Browser!Blank /\ account = [u \in Accounts |-> CHOOSE a \in Population[u] : TRUE]

StancesNext ==
    \/ scope = "signals" /\ Next /\ UNCHANGED <<scope, treeVars, sessionVars, pageVars>>
    \/ scope = "tree" /\ Tree!Next /\ UNCHANGED <<scope, vars, sessionVars, pageVars>>
    \/ scope = "sessions" /\ Browser!Next /\ UNCHANGED <<scope, vars, treeVars, pageVars>>
    \/ scope = "discussion" /\ Below!Next /\ UNCHANGED <<scope, vars, treeVars, sessionVars>>

StancesSpec == StancesInit /\ [][StancesNext]_<<scope, vars, treeVars, sessionVars, pageVars>>

\* Which users, requests and members these are makes no difference.
Symmetry == Permutations(Users) \cup Permutations(Requests) \cup Permutations(Members) \cup Permutations(Calls)
=============================================================================
