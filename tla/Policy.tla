------------------------------- MODULE Policy -------------------------------
(***************************************************************************)
(* What an account may do (see policy.service.ts): the assertions each     *)
(* operation of the API begins with, the summary of them that the API      *)
(* gives to the web client, and what the client offers on the strength of  *)
(* that summary.  The summary is written apart from the assertions, and    *)
(* the getters of the client apart from both.                              *)
(*                                                                         *)
(* A row is what the database holds of an account: [admin, senior, days,   *)
(* votes, team, organizations], where team are the scopes of the           *)
(* assignments to the topic team that are active and have not expired, and *)
(* organizations the active ones it is an active member of.                *)
(***************************************************************************)
EXTENDS Naturals

CONSTANTS
    Organizations, Partners,     \* Partners are the organizations with isPartner
    Topics, SourceOf,            \* the organization whose proposal became the topic, if any
    RequiredDays, RequiredVotes  \* 30 and 10

Profiles == {"new-member", "senior-member", "partner-owner", "topic-team"}

Global == [scope |-> "GLOBAL", id |-> 0]
OfOrganization(o) == [scope |-> "ORGANIZATION", id |-> o]
OfTopic(t) == [scope |-> "TOPIC", id |-> t]
Scopes == {Global} \cup {OfOrganization(o) : o \in Organizations} \cup {OfTopic(t) : t \in Topics}
Nowhere == [scope |-> "NONE", id |-> 0]

TopicTeam == {"TOPIC_APPLICATION_READ", "TOPIC_DRAFT", "TOPIC_PUBLISH", "FORMAL_TOPIC_AUTHOR", "CATEGORY_MANAGE",
              "TOPIC_FEATURE"}
Capability == TopicTeam \cup {"ADMIN"}

\* An account as it is judged: an assignment for an organization one is no longer a member of is void,
\* and a test identity replaces what it stands for ("none" is no test identity).
LoadContext(row, profile) ==
    LET member == [row EXCEPT !.admin = FALSE, !.senior = FALSE, !.team = {}, !.organizations = {}] IN
    CASE profile = "new-member"    -> member
      [] profile = "senior-member" -> [member EXCEPT !.senior = TRUE]
      [] profile = "partner-owner" -> [member EXCEPT !.organizations = row.organizations \cap Partners]
      [] profile = "topic-team"    -> [member EXCEPT !.senior = TRUE, !.team = {Global}]
      [] OTHER -> [row EXCEPT !.team = {s \in @ : s.scope = "ORGANIZATION" => s.id \in row.organizations}]

ParticipationMode(who) ==
    CASE who.admin                              -> "ADMIN"
      [] ~who.admin /\ who.team # {}            -> "STAFF"
      [] ~who.admin /\ who.team = {} /\ who.organizations \cap Partners # {} -> "PARTNER"
      [] OTHER                                  -> "MEMBER"

\* Who was ever found eligible stays a senior member; looking is what promotes (see Evaluated).
Eligible(row) == row.days >= RequiredDays /\ row.votes >= RequiredVotes
IsSenior(row, profile) ==
    IF profile = "none" THEN row.senior \/ Eligible(row) ELSE profile \in {"senior-member", "topic-team"}
Evaluated(row, profile) == [row EXCEPT !.senior = @ \/ (profile = "none" /\ Eligible(row))]

(***************************************************************************)
(* The assertions.                                                         *)
(***************************************************************************)
ScopeMatches(assignment, where) == assignment = Global \/ assignment = where
Can(row, profile, capability, where) ==
    LET who == LoadContext(row, profile)
    IN  who.admin \/ (capability \in TopicTeam /\ \E s \in who.team : ScopeMatches(s, where))

\* What the CapabilityGuard asks for on a route: an :id is taken for that of a topic.
Guarded(row, profile, capability, id) ==
    Can(row, profile, capability, IF id = 0 THEN Nowhere ELSE OfTopic(id))

AssertPublicAction(row, profile, action) ==
    LET mode == ParticipationMode(LoadContext(row, profile))
    IN  mode = "ADMIN" \/ (mode = "MEMBER" /\ (action = "report" => IsSenior(row, profile)))

AssertSeniorMember(row, profile) ==
    LET mode == ParticipationMode(LoadContext(row, profile))
    IN  mode = "ADMIN" \/ (mode = "MEMBER" /\ IsSenior(row, profile))

\* The membership is asked of the row, whatever identity is tried on.
AssertPartnerMember(row, profile, organization) ==
    /\ ParticipationMode(LoadContext(row, profile)) \in {"PARTNER", "ADMIN"}
    /\ organization \in row.organizations \cap Partners

AssertCanSubmitStanceApplication(row, profile) ==
    LET mode == ParticipationMode(LoadContext(row, profile))
    IN  mode = "ADMIN" \/ (mode = "MEMBER" /\ IsSenior(row, profile))

\* The proposals of topics one may read: all, those of some organizations, or none, which is refused.
ApplicationOrganizationScope(row, profile) ==
    LET who == LoadContext(row, profile)
    IN  IF who.admin \/ Global \in who.team THEN Organizations ELSE {o \in Organizations : OfOrganization(o) \in who.team}

\* The topics whose stance proposals one may read: only assignments to topics count.
EditorialScopes(row, profile) ==
    LET who == LoadContext(row, profile)
    IN  IF who.admin \/ Global \in who.team THEN Topics ELSE {t \in Topics : OfTopic(t) \in who.team}

CanViewTopicAnalytics(row, profile, topic) ==
    LET who == LoadContext(row, profile)
    IN  \/ who.admin \/ Global \in who.team \/ OfTopic(topic) \in who.team
        \/ OfOrganization(SourceOf[topic]) \in who.team
        \/ SourceOf[topic] \in who.organizations \cap Partners

CanViewAnalytics(row, profile) == ParticipationMode(LoadContext(row, profile)) # "MEMBER"

Things == {"vote", "signal", "discuss", "report", "stance", "quick", "proposal", "formal", "feature", "categories",
           "topic proposals", "stance proposals", "moderation", "analytics"}

\* Whether the API lets an account do a thing at all, in some place.
Granted(row, profile, thing) ==
    CASE thing \in {"vote", "signal", "discuss", "report"} -> AssertPublicAction(row, profile, thing)
      [] thing = "stance"     -> AssertCanSubmitStanceApplication(row, profile)
      [] thing = "quick"      -> AssertSeniorMember(row, profile)
      [] thing = "proposal"   -> \/ AssertSeniorMember(row, profile) \/ Can(row, profile, "FORMAL_TOPIC_AUTHOR", Nowhere)
                                 \/ \E o \in Organizations : AssertPartnerMember(row, profile, o)
      [] thing = "formal"     -> Can(row, profile, "FORMAL_TOPIC_AUTHOR", Nowhere)
      [] thing = "feature"    -> Can(row, profile, "TOPIC_FEATURE", Nowhere)
      [] thing = "categories" -> Guarded(row, profile, "CATEGORY_MANAGE", 0)
      [] thing = "topic proposals"  -> ApplicationOrganizationScope(row, profile) # {}
      [] thing = "stance proposals" -> EditorialScopes(row, profile) # {}
      [] thing = "moderation" -> Guarded(row, profile, "ADMIN", 0)
      [] thing = "analytics"  -> \/ CanViewAnalytics(row, profile)
                                 \/ \E t \in Topics : CanViewTopicAnalytics(row, profile, t)

(***************************************************************************)
(* The summary, and what the client makes of it.                           *)
(***************************************************************************)
ParticipationFor(who, senior) ==
    LET mode == ParticipationMode(who)
    IN  {a \in {"vote", "signal", "discuss"} : mode \in {"ADMIN", "MEMBER"}} \cup
        {a \in {"report", "stance"} : mode = "ADMIN" \/ (mode = "MEMBER" /\ senior)} \cup
        {a \in {"proposal"} : mode \in {"ADMIN", "PARTNER"} \/ (mode = "MEMBER" /\ senior)}

Capabilities(row, profile) ==
    LET who == LoadContext(row, profile)
    IN  [senior        |-> IsSenior(row, profile),
         capabilities  |-> IF who.admin THEN Capability ELSE IF who.team # {} THEN TopicTeam ELSE {},
         participation |-> ParticipationFor(who, IsSenior(row, profile)),
         analytics     |-> ParticipationMode(who) \in {"ADMIN", "STAFF", "PARTNER"}]

Offered(summary, thing) ==
    LET authors == "FORMAL_TOPIC_AUTHOR" \in summary.capabilities IN
    CASE thing \in {"vote", "signal", "discuss", "report", "stance"} -> thing \in summary.participation
      [] thing = "quick"      -> authors \/ summary.senior
      [] thing = "proposal"   -> authors \/ "proposal" \in summary.participation
      [] thing = "formal"     -> authors
      [] thing = "feature"    -> "TOPIC_FEATURE" \in summary.capabilities
      [] thing = "categories" -> "CATEGORY_MANAGE" \in summary.capabilities
      [] thing \in {"topic proposals", "stance proposals"} -> "TOPIC_APPLICATION_READ" \in summary.capabilities
      [] thing = "moderation" -> "ADMIN" \in summary.capabilities
      [] thing = "analytics"  -> summary.analytics

\* What is offered although it is refused: to the topic team and to partners, who do not take part
\* themselves, the quick questions and surveys of senior members; and to those assigned to single
\* topics or organizations, what takes an assignment without limits.
Overstated(row, profile, thing) ==
    LET who == LoadContext(row, profile)
    IN  \/ thing = "quick" /\ ParticipationMode(who) \in {"STAFF", "PARTNER"}
        \/ thing \in {"formal", "proposal", "feature", "categories"} /\ who.team # {} /\ Global \notin who.team
        \/ thing = "topic proposals" /\ who.team # {} /\ \A s \in who.team : s.scope = "TOPIC"
        \/ thing = "stance proposals" /\ who.team # {} /\ \A s \in who.team : s.scope = "ORGANIZATION"

\* The client offers what the API grants, all of it and no more, but for Overstated.
OffersWhatIsGranted(row, profile, summary) ==
    \A thing \in Things : /\ Granted(row, profile, thing) => Offered(summary, thing)
                          /\ Offered(summary, thing) => Granted(row, profile, thing) \/ Overstated(row, profile, thing)
=============================================================================
