------------------------------ MODULE MCMembers ------------------------------
(***************************************************************************)
(* What concerns single members: the consent to the analysis of their      *)
(* profile, what they may see of a restricted topic, and what is shown of  *)
(* them in the analytics.  The parts share no row, and a behaviour is      *)
(* about one of them.  The member has one socket; the owner, who always    *)
(* may view the topic, none.                                               *)
(***************************************************************************)
EXTENDS DemographicConsent, TLC

CONSTANTS
    Owner, Users, Sockets, UserOf, Requests, MaxTokens, MaxRequests,   \* of ShareAccess
    Options, Groups, Values, Environments, TotalMin, CohortMin, DistrictTotalMin, DistrictCohortMin,
    StanceCohortMin, CommonGroundMin, MaxPeople, MaxTime, MaxChanges   \* of TopicAnalytics

\* A socket's token was issued to the owner or to another member; requests arrive one by one.
ASSUME AccessAssumption ==
    /\ Owner \notin Users
    /\ UserOf \in [Sockets -> Users \cup {Owner}]
    /\ MaxTokens \in Nat
    /\ MaxRequests \in Nat

VARIABLES
    scope,
    private, followersOnly, link, grants, overtaken, follows, room, known, expired, timers, joining, lateSockets,
    request, arrived,
    subject, environment, people, now, reading, answer

accessVars == <<private, followersOnly, link, grants, overtaken, follows, room, known, expired, timers, joining,
                lateSockets, request, arrived>>
analyticsVars == <<subject, environment, people, now, reading, answer>>

Access == INSTANCE ShareAccess WITH late <- lateSockets

Analytics == INSTANCE TopicAnalytics WITH request <- reading

\* What is configured, and the minimum in production, are numbers.
ASSUME AnalyticsAssumption ==
    /\ \A e \in Environments : {e.total, e.cohort} \subseteq Nat \cup {None}
    /\ {TotalMin, CohortMin, DistrictTotalMin, DistrictCohortMin} \subseteq Nat

\* Only grants and joins that overlap a rotation, or the end of a follow, outlast it (redeem, topic:join).
OnlyLateAccess == Access!OnlyLateAccess
\* No hidden group can be computed from what is shown of the others (demographics).
HiddenGroupsStayHidden == Analytics!HiddenGroupsStayHidden
\* The figures of an answer agree with each other (trends, stanceInsights, comparison).
ResultsAddUp == Analytics!ResultsAddUp

MembersInit ==
    /\ scope \in {"consent", "access", "analytics"}
    /\ Init /\ Access!Init
    /\ \/ scope = "analytics" /\ Analytics!Init
       \/ /\ scope # "analytics"
          /\ subject = None /\ environment = None /\ people = <<>> /\ now = 0 /\ reading = None /\ answer = None
    /\ scope # "access" => private /\ ~followersOnly /\ follows = {}
    /\ scope # "consent" => profile = None
MembersNext ==
    \/ scope = "consent" /\ Next /\ UNCHANGED <<scope, accessVars, analyticsVars>>
    \/ scope = "access" /\ Access!Next /\ UNCHANGED <<scope, vars, analyticsVars>>
    \/ scope = "analytics" /\ Analytics!Next /\ UNCHANGED <<scope, vars, accessVars>>
MembersSpec == MembersInit /\ [][MembersNext]_<<scope, vars, accessVars, analyticsVars>>

-----------------------------------------------------------------------------
\* Every socket is one member's.
OneUser == [s \in Sockets |-> CHOOSE u \in Users : TRUE]

\* Three groups, thresholds that let two be shown and one hidden, and so many members as that takes.  The
\* environments: thresholds configured below and above the production minimum, above the whole, and nonsense.
SomeEnvironments == {[mode |-> "production", total |-> None, cohort |-> 1],
                     [mode |-> "production", total |-> None, cohort |-> 3],
                     [mode |-> "development", total |-> None, cohort |-> 2],
                     [mode |-> "development", total |-> 0, cohort |-> None]}
FewPeople == [trend |-> 4, group |-> 5, scale |-> 4, stance |-> 4, opinion |-> 3]

\* Which votes, verifications, codes, phones and overlapping requests makes no difference.
Symmetry == Permutations(Votes) \cup Permutations(Verifiers) \cup Permutations(Codes) \cup Permutations(Phones)
MembersSymmetry == Symmetry \cup Permutations(Requests)
=============================================================================
