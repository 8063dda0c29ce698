--------------------------- MODULE TopicAnalytics ---------------------------
(***************************************************************************)
(* What partners and staff are shown about the votes on a topic (see       *)
(* TopicAnalyticsService): the trend of the votes, the groups of members   *)
(* behind them, the supporters of a stance, and the comparison of topics.  *)
(* A request reads the counters of the topic first and the rows in later   *)
(* statements; votes and signals come and go in between.  A behaviour is   *)
(* about one subject.                                                      *)
(*                                                                         *)
(* Members who did the same are interchangeable: people is the bag of what *)
(* their votes, snapshots and signals are.  Time passes in halves of a     *)
(* day, shares are tenths of a percent.                                    *)
(***************************************************************************)
EXTENDS Integers, Sequences, SequencesExt

CONSTANTS
    Options,             \* the number of options, which are 1..Options
    Groups,              \* values of one field of the profile
    Values,              \* positions on the scale of a SPECTRUM
    Environments,        \* NODE_ENV and the thresholds configured: None, or a number, 0 for nonsense
    TotalMin, CohortMin, DistrictTotalMin, DistrictCohortMin, StanceCohortMin,
    CommonGroundMin,     \* COMMON_GROUND_MIN
    MaxPeople, MaxTime,  \* bounds; MaxPeople for each subject
    MaxChanges,          \* bounds the votes and signals that overlap a request
    None

VARIABLES
    subject,             \* what the behaviour is about
    environment,
    people,              \* a bag of rows
    now,
    request,             \* the request in progress: its next step, and what it has read
    answer               \* the answer just given

vars == <<subject, environment, people, now, request, answer>>

OptionIds == 1..Options
Blank == [choice |-> {}, value |-> None, at |-> 0, group |-> None, legacy |-> FALSE, signal |-> None, seen |-> FALSE]
Voted(r) == r.choice # {} \/ r.value # None

Chose(c, t) == [Blank EXCEPT !.choice = c, !.at = t]
Placed(v, g) == [Blank EXCEPT !.value = v, !.group = g]
Signalled(c, v, s, n) == [Blank EXCEPT !.choice = c, !.value = v, !.signal = s, !.seen = n]

\* What a member may have done, other than nothing; seen marks those who agreed when a request read the signals.
TimedVotes == {Chose(c, t) : c \in SUBSET OptionIds \ {{}}, t \in 0..MaxTime}
GroupVotes == {[Chose({1}, 0) EXCEPT !.group = g] : g \in Groups}
                \cup {[Chose({Options}, 0) EXCEPT !.group = g, !.legacy = TRUE] : g \in Groups \ {CHOOSE h \in Groups : TRUE}}
                \cup {Chose({Options}, 0)}
Positions == {Placed(v, g) : v \in Values, g \in Groups}
Supporters == {Signalled(c, None, s, n) :
                  c \in {{o} : o \in OptionIds} \cup {{}}, s \in {"AGREE", "DISAGREE", None}, n \in BOOLEAN}
Opinions == {Signalled({}, v, s, n) : v \in {CHOOSE w \in Values : TRUE, None}, s \in {"AGREE", None}, n \in BOOLEAN}
Rows ==
    CASE subject = "trend" -> TimedVotes
      [] subject = "group" -> GroupVotes
      [] subject = "scale" -> Positions
      [] subject = "stance" -> Supporters \ {Blank}
      [] subject = "opinion" -> Opinions \ {Blank}

Copies(r) == IF r \in DOMAIN people THEN people[r] ELSE 0
Number(S) == MapThenSumSet(Copies, S)
VoteRows == {r \in DOMAIN people : Voted(r)}
Total == Number(VoteRows)
Count(S, o) == Number({r \in S : o \in r.choice})
Counts(S) == [o \in OptionIds |-> Count(S, o)]

(***************************************************************************)
(* The arithmetic of the service.                                          *)
(***************************************************************************)
percentage(count, total) == IF total = 0 THEN 0 ELSE (2000 * count + total) \div (2 * total)
WholePercent(count, total) == IF total = 0 THEN 0 ELSE (200 * count + total) \div (2 * total)
Shares(counts, total) == [o \in OptionIds |-> percentage(counts[o], total)]

\* The values in S in ascending order, each as often as members chose it.
Sorted(S) ==
    LET UpTo(v) == Number({r \in S : r.value # None /\ r.value <= v})
        n == Number({r \in S : r.value # None})
    IN  [i \in 1..n |-> Min({v \in Values : UpTo(v) >= i})]

\* Twice the median, four times the quantile k/4.
median(s) == LET m == Len(s) \div 2 IN
    IF s = <<>> THEN None ELSE IF Len(s) % 2 = 1 THEN 2 * s[m + 1] ELSE s[m] + s[m + 1]
quantile(s, k) ==
    IF s = <<>> THEN None
    ELSE LET lower == ((Len(s) - 1) * k) \div 4 + 1
             fraction == ((Len(s) - 1) * k) % 4
         IN  IF lower = Len(s) THEN 4 * s[lower] ELSE 4 * s[lower] + fraction * (s[lower + 1] - s[lower])
Bin(s, b) == Cardinality({i \in DOMAIN s : s[i] >= 10 * b /\ IF b = 9 THEN s[i] <= 100 ELSE s[i] < 10 * (b + 1)})
spectrumSummary(s) == [median |-> median(s), q1 |-> quantile(s, 1), q3 |-> quantile(s, 3),
                       bins |-> [b \in 0..9 |-> Bin(s, b)]]

\* A configured threshold may be low outside production, never below the minimum in production.  What
\* is no positive integer counts as the minimum everywhere; nothing configured, as 1 in development.
privacyThreshold(value, productionMinimum) ==
    LET set == IF value = None /\ environment.mode = "development" THEN 1
               ELSE IF value \in {None, 0} THEN productionMinimum ELSE value
    IN  IF environment.mode = "production" THEN Max({set, productionMinimum}) ELSE set
demographicThresholds(dimension) ==
    IF dimension = "DISTRICT"
    THEN [total |-> privacyThreshold(environment.total, DistrictTotalMin),
          cohort |-> privacyThreshold(environment.cohort, DistrictCohortMin)]
    ELSE [total |-> privacyThreshold(environment.total, TotalMin),
          cohort |-> privacyThreshold(environment.cohort, CohortMin)]
STANCE_COHORT_MIN == privacyThreshold(environment.cohort, StanceCohortMin)

\* Snapshots taken under the first consent cover the first six fields of the profile only.
consentVersions(dimension) == IF dimension = "DISTRICT" THEN {FALSE} ELSE {TRUE, FALSE}
Samples(dimension) == {r \in VoteRows : r.group # None /\ r.legacy \in consentVersions(dimension)}

(***************************************************************************)
(* The trend.                                                              *)
(***************************************************************************)
taipeiDate(t) == t \div 2
Recent == {r \in VoteRows : r.at > now - 2}
Previous == {r \in VoteRows : r.at > now - 4 /\ r.at <= now - 2}

timeline ==
    LET days == SetToSortSeq({taipeiDate(r.at) : r \in VoteRows}, <)
        On(i) == {r \in VoteRows : taipeiDate(r.at) = days[i]}
        cumulative[i \in 0..Len(days)] ==
            IF i = 0 THEN [votes |-> 0, counts |-> [o \in OptionIds |-> 0]]
            ELSE [votes |-> cumulative[i - 1].votes + Number(On(i)),
                  counts |-> [o \in OptionIds |-> cumulative[i - 1].counts[o] + Count(On(i), o)]]
    IN  [i \in 1..Len(days) |-> [date |-> days[i], votes |-> Number(On(i)), total |-> cumulative[i].votes,
                                 counts |-> cumulative[i].counts]]

\* The option that leads alone, if one does.
Leader(counts) == LET lead == {o \in OptionIds : \A p \in OptionIds \ {o} : counts[p] < counts[o]}
                  IN  IF lead = {} THEN 0 ELSE CHOOSE o \in lead : TRUE
\* A mutant: a day without a leader ends the lead.
LeadLost(points) ==
    FoldLeft(LAMBDA acc, point :
                LET leader == Leader(point.counts) IN
                [leader |-> leader,
                 crossover |-> IF leader = 0 \/ acc.leader \in {0, leader} THEN acc.crossover
                               ELSE <<point.date, acc.leader, leader>>],
             [leader |-> 0, crossover |-> <<>>], points).crossover
latestCrossover(points) ==
    FoldLeft(LAMBDA acc, point :
                LET leader == Leader(point.counts) IN
                IF leader = 0 THEN acc
                ELSE [leader |-> leader,
                      crossover |-> IF acc.leader \in {0, leader} THEN acc.crossover
                                    ELSE <<point.date, acc.leader, leader>>],
             [leader |-> 0, crossover |-> <<>>], points).crossover

ShareChange == [o \in OptionIds |-> percentage(Count(Recent, o), Number(Recent))
                                      - percentage(Count(Previous, o), Number(Previous))]
Before(o, p) ==
    \/ ShareChange[o] > ShareChange[p]
    \/ ShareChange[o] = ShareChange[p] /\ Count(Recent, o) > Count(Recent, p)
    \/ ShareChange[o] = ShareChange[p] /\ Count(Recent, o) = Count(Recent, p) /\ o < p
fastestGrowing ==
    IF Number(Recent) = 0 THEN 0 ELSE CHOOSE o \in OptionIds : \A p \in OptionIds \ {o} : Before(o, p)

\* The first of the days with most votes.
peakDay(points) == LET peaks == {i \in DOMAIN points : \A j \in DOMAIN points : points[j].votes <= points[i].votes}
                   IN  IF points = <<>> THEN None ELSE points[Min(peaks)].date

trends == [
    question |-> "trends", total |-> Total, counts |-> Counts(VoteRows), shares |-> Shares(Counts(VoteRows), Total),
    velocity |-> <<Number(Recent), Number(Previous)>>, change |-> ShareChange, fastest |-> fastestGrowing,
    timeline |-> timeline, crossover |-> latestCrossover(timeline), peak |-> peakDay(timeline),
    spectrum |-> IF subject = "scale" THEN spectrumSummary(Sorted(VoteRows)) ELSE None]

(***************************************************************************)
(* The groups of one dimension.                                            *)
(***************************************************************************)
demographicGroup(S) ==
    IF subject = "scale" THEN [count |-> Number(S), median |-> median(Sorted(S)), shares |-> <<>>]
    ELSE [count |-> Number(S), median |-> None, shares |-> Shares(Counts(S), Number(S))]

Cohort(dimension, g) == {r \in Samples(dimension) : r.group = g}
Cohorts(dimension) == {g \in Groups : Number(Cohort(dimension, g)) > 0}

\* A mutant: only the small groups are hidden.
OnlySmallHidden(dimension) ==
    {{g \in Cohorts(dimension) : Number(Cohort(dimension, g)) >= demographicThresholds(dimension).cohort}}

\* Groups that may be shown: the ones large enough, and when one group alone would be hidden not the smallest of them.
Shown(dimension) ==
    LET cohort == demographicThresholds(dimension).cohort
        size(g) == Number(Cohort(dimension, g))
        visible == {g \in Cohorts(dimension) : size(g) >= cohort}
        smallest == {g \in visible : \A h \in visible : size(g) <= size(h)}
    IN  IF Cardinality(Cohorts(dimension) \ visible) = 1 /\ visible # {}
        THEN {visible \ {g} : g \in smallest}
        ELSE {visible}

Unavailable(dimension) == [
    question |-> "demographics", dimension |-> dimension, available |-> FALSE, suppressed |-> Number(Samples(dimension)) > 0,
    votes |-> Number(Samples(dimension)), baseline |-> None, groups |-> <<>>, hidden |-> Cohorts(dimension),
    coverage |-> WholePercent(Number(Samples(dimension)), request.total), changes |-> request.changes,
    audited |-> request.audited, profile |-> request.profile]
Breakdown(dimension, shown) == [Unavailable(dimension) EXCEPT
    !.available = shown # {}, !.suppressed = Cohorts(dimension) # shown,
    !.baseline = demographicGroup(Samples(dimension)),
    !.groups = [g \in shown |-> demographicGroup(Cohort(dimension, g))], !.hidden = Cohorts(dimension) \ shown]

(***************************************************************************)
(* The supporters of a stance.                                             *)
(***************************************************************************)
Agreeing == {r \in DOMAIN people : r.signal = "AGREE"}
Disagreeing == {r \in DOMAIN people : r.signal = "DISAGREE"}
Seen == {r \in DOMAIN people : r.seen}

\* The camps are those of single options; who voted without naming one counts as not having voted.
campOptions == IF subject = "stance" THEN OptionIds ELSE {}
Camps == [o \in campOptions |-> [count |-> Count(Seen, o), voters |-> request.counts[o],
                                  support |-> percentage(Count(Seen, o), request.counts[o])]]
StanceNode ==
    LET agreed == request.signals[1]
        disagreed == request.signals[2]
        unvoted == Number({r \in Seen : r.choice = {}})
        campsVisible == \A o \in campOptions :
            Camps[o].voters >= STANCE_COHORT_MIN /\ Camps[o].count >= STANCE_COHORT_MIN
        signalsVisible == agreed + disagreed >= STANCE_COHORT_MIN
    IN  [question |-> "stances", changes |-> request.changes,
         agreed |-> IF signalsVisible THEN agreed ELSE None,
         disagreed |-> IF signalsVisible THEN disagreed ELSE None,
         commonGround |-> campsVisible /\ Cardinality(campOptions) = 2
                            /\ \A o \in campOptions : Camps[o].count >= CommonGroundMin,
         unvoted |-> IF signalsVisible /\ unvoted >= STANCE_COHORT_MIN THEN unvoted ELSE None,
         camps |-> IF campsVisible THEN Camps ELSE <<>>,
         suppressed |-> ~signalsVisible \/ ~campsVisible]

(***************************************************************************)
(* Members.                                                                *)
(***************************************************************************)
Idle == [at |-> "idle", dimension |-> None, total |-> 0, counts |-> <<>>, signals |-> <<>>, audited |-> FALSE,
         profile |-> None, changes |-> 0]

Init ==
    /\ subject \in {"trend", "group", "scale", "stance", "opinion"}
    /\ environment \in Environments
    /\ subject # "group" => environment = CHOOSE e \in Environments : TRUE
    /\ people = EmptyBag
    /\ now = 0
    /\ request = Idle
    /\ answer = None

\* A member's row changes from r to q; members who did nothing are not counted.
One(r) == IF r = Blank THEN EmptyBag ELSE SetToBag({r})
Becomes(r, q) ==
    /\ answer = None
    /\ r = Blank => BagCardinality(people) < MaxPeople[subject]
    /\ request.changes < MaxChanges
    /\ people' = (people (-) One(r)) (+) One(q)
    /\ request' = IF request.at = "idle" THEN request ELSE [request EXCEPT !.changes = @ + 1]
    /\ UNCHANGED <<subject, environment, now, answer>>

Cast(r, q) ==
    /\ ~Voted(r) /\ Voted(q) /\ q.signal = r.signal /\ q.seen = r.seen
    /\ subject = "trend" => q.at = now
    /\ Becomes(r, q)
Withdraw(r, q) ==
    /\ Voted(r) /\ ~Voted(q) /\ q.signal = r.signal /\ q.seen = r.seen
    /\ Becomes(r, q)
Signal(r, q) ==
    /\ r.signal # q.signal /\ [r EXCEPT !.signal = q.signal] = q
    /\ Becomes(r, q)

HalfDay ==
    /\ subject = "trend" /\ answer = None /\ request = Idle
    /\ now < MaxTime
    /\ now' = now + 1
    /\ UNCHANGED <<subject, environment, people, request, answer>>

(***************************************************************************)
(* Requests of someone who may see the analytics of the topic.             *)
(***************************************************************************)
StillPeople == UNCHANGED <<subject, environment, people, now>>
Steps(at) == request' = [request EXCEPT !.at = at] /\ UNCHANGED answer
Answers(a) == answer' = a /\ request' = Idle

\* requireModule, comparison: the topic and its counters.
Ask(at, dimension) ==
    /\ request = Idle /\ answer = None
    /\ request' = [Idle EXCEPT !.at = at, !.dimension = dimension, !.total = Total, !.counts = Counts(VoteRows)]
    /\ UNCHANGED answer /\ StillPeople

AskTrends == subject \in {"trend", "scale"} /\ Ask("trends", None)
AskDemographics == \E d \in {"REGION", "DISTRICT"} : subject \in {"group", "scale"} /\ Ask("audit", d)
AskStances == subject \in {"stance", "opinion"} /\ Ask("stances", None)
AskComparison == \E d \in {"REGION", "DISTRICT"} : subject = "group" /\ Ask("samples", d)
AskAccess == subject = "group" /\ Ask("access", None)

ReadTrends == request.at = "trends" /\ Answers(trends) /\ StillPeople

\* access: whether there are snapshots enough, of any dimension.
CountSamples ==
    /\ request.at = "access"
    /\ LET samples == Number({r \in VoteRows : r.group # None})
       IN  Answers([question |-> "access", samples |-> samples,
                    available |-> samples >= demographicThresholds("REGION").total])
    /\ StillPeople

\* The reading is on record before anything is read.
Audit ==
    /\ request.at = "audit"
    /\ request' = [request EXCEPT !.at = "snapshots", !.audited = TRUE]
    /\ UNCHANGED answer /\ StillPeople

ReadSnapshots ==
    /\ request.at = "snapshots"
    /\ IF Number(Samples(request.dimension)) < demographicThresholds(request.dimension).total
       THEN Answers(Unavailable(request.dimension))
       ELSE \E shown \in Shown(request.dimension) : Answers(Breakdown(request.dimension, shown))
    /\ StillPeople

\* comparison counts the samples first and asks for the groups, as a request of its own, if they are enough.
Compare ==
    /\ request.at = "samples"
    /\ LET samples == Number(Samples(request.dimension))
           read == [request EXCEPT !.profile = WholePercent(samples, request.total)]
       IN  IF samples >= demographicThresholds(request.dimension).total
           THEN request' = [read EXCEPT !.at = "audit", !.total = Total] /\ UNCHANGED answer
           ELSE Answers([question |-> "comparison", demographic |-> None, profile |-> read.profile,
                         changes |-> request.changes])
    /\ StillPeople

\* The bag of the members, each changed by Change.
BagOf(Change(_)) ==
    LET changed == {Change(r) : r \in DOMAIN people} \ {Blank}
    IN  [q \in changed |-> Number({r \in DOMAIN people : Change(r) = q})]

\* StancesService.list with analytics: the stances, who agreed, then the votes of those.
ReadStances ==
    /\ request.at = "stances"
    /\ request' = [request EXCEPT !.at = "signals", !.signals = <<Number(Agreeing), Number(Disagreeing)>>]
    /\ UNCHANGED answer /\ StillPeople
ReadSignals ==
    /\ request.at = "signals"
    /\ people' = BagOf(LAMBDA r : [r EXCEPT !.seen = r.signal = "AGREE"])
    /\ Steps("votes")
    /\ UNCHANGED <<subject, environment, now>>
ReadVotes ==
    /\ request.at = "votes"
    /\ Answers(StanceNode)
    /\ people' = BagOf(LAMBDA r : [r EXCEPT !.seen = FALSE])
    /\ UNCHANGED <<subject, environment, now>>

Done == answer # None /\ answer' = None /\ UNCHANGED request /\ StillPeople

Next ==
    \/ \E r \in DOMAIN people \cup {Blank}, q \in Rows \cup {Blank} : Cast(r, q) \/ Withdraw(r, q) \/ Signal(r, q)
    \/ HalfDay
    \/ AskTrends \/ AskDemographics \/ AskStances \/ AskComparison \/ AskAccess
    \/ ReadTrends \/ CountSamples \/ Audit \/ ReadSnapshots \/ Compare
    \/ ReadStances \/ ReadSignals \/ ReadVotes
    \/ Done

Spec == Init /\ [][Next]_vars
(***************************************************************************)
(* Properties.                                                             *)
(***************************************************************************)
SumOf(f) == MapThenSumSet(LAMBDA x : f[x], DOMAIN f)

\* What is shown of the groups never tells how many members one hidden group has (demographics: "Hide one additional
\* small visible cohort when only one category is suppressed"), unless the environment asks for groups larger than
\* the whole; in production groups below the minimum are hidden whatever is configured; and all of it is on record.
\* Between the counters, the samples and the rows votes come and go: a comparison still shows no breakdown of too few.
HiddenGroupsStayHidden ==
    (answer # None /\ answer.question = "demographics") =>
    LET d == answer.dimension
        thresholds == demographicThresholds(d)
    IN  /\ answer.audited
        /\ answer.baseline # None => answer.baseline.count >= thresholds.total
        /\ environment.mode = "production" =>
              \A g \in DOMAIN answer.groups :
                  answer.groups[g].count >= (IF d = "DISTRICT" THEN DistrictCohortMin ELSE CohortMin)
        /\ answer.baseline # None /\ thresholds.cohort <= thresholds.total =>
              \A g \in Cohorts(d) \ DOMAIN answer.groups :
                  Number(Cohort(d, g)) # answer.baseline.count - SumOf([h \in DOMAIN answer.groups |-> answer.groups[h].count])

\* The figures of one answer agree with each other, and unless a vote or a signal overlapped the request no share of the
\* members exceeds the whole: the groups are parts of the baseline, the days of the timeline add up to the results, the last crossover
\* ends with the present leader, the bins hold every value once, the supporters of a stance are voters of their option.
ResultsAddUp ==
    answer # None =>
    CASE answer.question = "trends" ->
            LET points == answer.timeline
                lead == {i \in DOMAIN points : Leader(points[i].counts) # 0}
                final == Leader(answer.counts)
            IN  /\ SumOf([i \in DOMAIN points |-> points[i].votes]) = answer.total
                /\ points # <<>> => /\ points[Len(points)].counts = answer.counts
                                    /\ points[Len(points)].total = answer.total
                                    /\ answer.peak \in {points[i].date : i \in DOMAIN points}
                /\ answer.crossover = <<>> <=>
                        \A i, j \in lead : Leader(points[i].counts) = Leader(points[j].counts)
                /\ answer.crossover # <<>> /\ final # 0 => answer.crossover[3] = final
                /\ (\A r \in VoteRows : Cardinality(r.choice) = 1) /\ answer.fastest # 0
                        => answer.change[answer.fastest] >= 0
                /\ subject = "scale" =>
                        /\ SumOf(answer.spectrum.bins) = answer.total
                        /\ answer.total > 0 => /\ answer.spectrum.q1 <= 2 * answer.spectrum.median
                                               /\ 2 * answer.spectrum.median <= answer.spectrum.q3
      [] answer.question = "demographics" ->
            /\ answer.changes = 0 => answer.coverage <= 100
            /\ answer.baseline # None => answer.baseline.count = answer.votes
            /\ subject = "scale" /\ answer.available /\ answer.hidden = {} =>
                    \E g \in DOMAIN answer.groups : answer.groups[g].median <= answer.baseline.median
      [] answer.question = "comparison" -> answer.changes = 0 => answer.profile <= 100
      [] answer.question = "access" -> answer.available => Total >= answer.samples
      [] answer.question = "stances" ->
            /\ answer.commonGround => \A o \in campOptions : answer.camps[o].count >= STANCE_COHORT_MIN
            /\ answer.changes = 0 =>
                    /\ \A o \in DOMAIN answer.camps : answer.camps[o].support <= 1000
                    /\ answer.agreed # None /\ ~answer.suppressed =>
                            answer.agreed = SumOf([o \in campOptions |-> answer.camps[o].count])
                                              + Number({r \in Agreeing : r.choice = {}})
=============================================================================
