------------------------------ MODULE VotePanel ------------------------------
(***************************************************************************)
(* One question in the web client: the panel of its kind (QuickVotePanel   *)
(* and the components below it, ImageRankVotePanel, the vote of a formal   *)
(* topic in pages/topic/[id].vue, QuickPollCard), the requests of          *)
(* useVoteMutation, and the place that shows it.  A page answers `refreshed'*)
(* by loading again, which unmounts the panel; a card replaces the topic   *)
(* under the panel; on a page every vote of anybody replaces it too, and   *)
(* on the page of a staged topic that may bring the next round.            *)
(*                                                                         *)
(* An answer is a pair of the round it was made for and a choice.          *)
(***************************************************************************)
EXTENDS Naturals, FiniteSets

CONSTANTS
    None,
    Choices,
    Middle,        \* the choice a spectrum starts on
    Forms,         \* [kind, place, match]; match gives the other option whose label is an option's match text, or itself
    MaxRequests,   \* bound: requests of the user and landings
    MaxEvents      \* bound: ticks, reloads by others, another tab, requests and loads that fail

VARIABLES
    form,          \* the question: its kind, where it is shown ("page", "sub" on a page, "card")
    server,        \* the round that is open, the answer stored for each round
    shown,         \* the topic of the page or card: a round and the user's answer
    page,          \* "ready", "loading" or "error"
    panel,         \* voting, busy (drawing, spinning, submitting), what it keeps, its phase
    requests,      \* from the user's click to its last effect
    fetches,       \* GETs of the topic in flight
    asked,         \* requests so far
    events,        \* such events so far
    lapses,        \* history: what happened that an exception below is about
    meant          \* history: round -> the last answer the panel asked for

vars == <<form, server, shown, page, panel, requests, fetches, asked, events, lapses, meant>>

Rounds == 1..2
Answers == Rounds \X Choices
ChoicesOf(r) == {r} \X Choices
Anything == <<0, Middle>>     \* what a draw asks for

PanelKind == form.kind
IsSub == form.place = "sub"
Landing == PanelKind \in {"MATCHING", "PUZZLE"}
Drafting == PanelKind \in {"MULTI", "SPECTRUM", "SHORT"}
Spinning == PanelKind \in {"LOTTERY", "WHEEL"}
Voted == shown.answer # None

View(s) == [round |-> s.round, answer |-> s.answers[s.round]]

\* The panel of a topic when it is mounted.  A spectrum does not look at the stored answer.
Mounted(t) ==
    [voting |-> FALSE, busy |-> FALSE,
     kept   |-> IF PanelKind = "SPECTRUM" THEN <<1, Middle>>
                ELSE IF PanelKind \in {"MULTI", "SHORT", "SCRATCH", "RANK"} THEN t.answer ELSE None,
     phase  |-> IF t.answer # None /\ PanelKind \in {"SCRATCH", "RANK"} THEN "done" ELSE "idle"]

\* (plausible bug) clearing a panel forgets what it is busy with
ClearedBusy(p) == [p EXCEPT !.kept = None, !.phase = "idle"]

Cleared(p) == [p EXCEPT !.busy = FALSE, !.kept = None, !.phase = "idle"]

\* The watchers of a mounted panel when its topic is replaced.
Watched(p, old, new) ==
    LET moved == new.round # old.round IN
    CASE PanelKind = "MULTI" ->
            [p EXCEPT !.kept = IF moved \/ new.answer # None \/ old.answer # None THEN new.answer ELSE @]
      [] PanelKind = "SPECTRUM" ->
            [p EXCEPT !.kept = IF new.answer \notin {None, old.answer} THEN new.answer ELSE @]
      [] PanelKind = "SHORT" ->
            [p EXCEPT !.kept = IF new.answer # old.answer /\ @ = None THEN new.answer ELSE @]
      [] PanelKind = "SCRATCH" ->
            LET cleared == IF moved \/ (old.answer # None /\ new.answer = None) THEN Cleared(p) ELSE p IN
            IF new.answer = None THEN cleared ELSE [cleared EXCEPT !.kept = new.answer, !.phase = "done"]
      [] PanelKind = "LOTTERY" /\ moved -> [p EXCEPT !.busy = FALSE]
      [] PanelKind \in {"WHEEL", "MATCHING", "PUZZLE"} /\ moved -> [p EXCEPT !.kept = None]
      [] PanelKind = "RANK" /\ moved -> [Mounted(new) EXCEPT !.voting = p.voting]
      [] OTHER -> p

\* (plausible bug) unmounting a panel aborts its requests
Aborted(rs) == {}

\* The requests of a panel that is unmounted, or of a drawing that was cleared, are nobody's; a
\* landing still knows the last topic of its panel.
Disowned(rs) ==
    {[r EXCEPT !.mine = FALSE,
               !.op   = IF r.stage = "landing" THEN IF Voted THEN "patch" ELSE "post" ELSE @,
               !.to   = IF r.stage = "landing" THEN shown.round ELSE @] : r \in rs}

Forgotten(rs) == {[r EXCEPT !.mine = @ /\ r.op # "draw"] : r \in rs}
ForgetsIn(rs) == IF \E r \in rs : r.mine /\ r.op = "draw" THEN {"forgotten"} ELSE {}

Fetch(by) == [by |-> by, at |-> <<asked, events>>, got |-> None]

\* emit('refreshed') of a mounted panel that is left as p with the requests rs.
Refreshed(p, rs) ==
    IF form.place = "card"
    THEN /\ panel' = p
         /\ requests' = rs
         /\ fetches' = fetches \cup {Fetch("card")}
         /\ UNCHANGED page
    ELSE /\ panel' = p
         /\ page' = "loading"
         /\ requests' = IF PanelKind = "FORMAL" THEN rs ELSE Disowned(rs)
         /\ fetches' = fetches \cup {Fetch("load")}

Unrefreshed(p, rs) == panel' = p /\ requests' = rs /\ UNCHANGED <<page, fetches>>

Init ==
    /\ form \in Forms
    /\ \E a \in ChoicesOf(1) \cup {None} :
          /\ server = [round |-> 1, answers |-> [r \in Rounds |-> IF r = 1 THEN a ELSE None]]
          /\ meant = server.answers
    /\ shown = View(server)
    /\ page = "ready"
    /\ panel = Mounted(shown)
    /\ requests = {} /\ fetches = {}
    /\ asked = 0 /\ events = 0
    /\ lapses = {}

-----------------------------------------------------------------------------
(* The user.  Nothing can be touched while the page loads.                  *)

Untouched == UNCHANGED <<form, server, shown, page, fetches, events>>

Request(op, to, a, stage) ==
    [op |-> op, to |-> to, answer |-> a, stage |-> stage, mine |-> TRUE, n |-> asked + 1]

Asking == page = "ready" /\ asked < MaxRequests

\* The request itself; the caller gives the panel and what the user means by it.
Ask(op, a, m) ==
    /\ Asking
    /\ asked' = asked + 1
    /\ requests' = requests \cup {Request(op, shown.round, a, "sent")}
    /\ meant' = [meant EXCEPT ![shown.round] = m]
    /\ UNCHANGED lapses
    /\ Untouched

\* onOptionVote, onChangeVote, onTap: another option is a change once an answer is shown.
Choose(a) ==
    /\ PanelKind \in {"PICK", "TAP"}
    /\ ~panel.voting /\ ~(IsSub /\ Voted)
    /\ a \in ChoicesOf(shown.round) \ {shown.answer}
    /\ Ask(IF Voted THEN "patch" ELSE "post", a, a)
    /\ panel' = [panel EXCEPT !.voting = TRUE]

\* The formal vote: an option is selected and confirmed, and cannot be changed.
Select(a) ==
    /\ PanelKind = "FORMAL" /\ page = "ready" /\ ~Voted /\ ~panel.voting
    /\ a \in ChoicesOf(shown.round) \cup {None}
    /\ panel' = [panel EXCEPT !.kept = a]
    /\ UNCHANGED <<requests, asked, lapses, meant>>
    /\ Untouched

Confirm ==
    /\ PanelKind = "FORMAL" /\ ~Voted /\ ~panel.voting /\ panel.kept # None
    /\ Ask("post", panel.kept, panel.kept)
    /\ panel' = [panel EXCEPT !.voting = TRUE]

\* Boxes, slider and text.  The slider and the text are not disabled while a request is under way.
Draft(a) ==
    /\ Drafting /\ page = "ready"
    /\ a \in ChoicesOf(shown.round) \cup IF PanelKind = "SPECTRUM" THEN {} ELSE {None}
    /\ a # panel.kept
    /\ IF PanelKind = "MULTI" THEN ~panel.voting /\ ~(IsSub /\ Voted) ELSE ~Voted
    /\ panel' = [panel EXCEPT !.kept = a]
    /\ lapses' = lapses \cup IF Voted \/ requests \cup fetches # {} \/ shown # View(server) THEN {"drafted"} ELSE {}
    /\ UNCHANGED <<requests, asked, meant>>
    /\ Untouched

Submit ==
    /\ Drafting /\ ~Voted /\ ~panel.voting /\ panel.kept # None
    /\ Ask("post", panel.kept, panel.kept)
    /\ panel' = [panel EXCEPT !.voting = TRUE]

\* The reset button, and a tap on one's own option.  A ranking offers it in its results.
Withdraw ==
    /\ PanelKind # "FORMAL" /\ ~IsSub
    /\ ~panel.voting /\ (PanelKind = "MATCHING" \/ ~panel.busy)
    /\ IF PanelKind \in {"SCRATCH", "RANK"} THEN panel.phase = "done" ELSE Voted
    /\ Ask("delete", None, None)
    /\ panel' = [panel EXCEPT !.voting = TRUE]

MayDraw == ~panel.voting /\ ~panel.busy /\ ~Voted

\* shakeLottery, spinWheel
Spin ==
    /\ Spinning /\ MayDraw
    /\ Ask("draw", None, Anything)
    /\ panel' = [panel EXCEPT !.busy = TRUE, !.kept = None]

\* The first touch of a scratch card draws; scratching goes on while the answer is awaited.
Touch ==
    /\ PanelKind = "SCRATCH" /\ panel.phase # "done" /\ ~panel.busy /\ panel.kept = None
    /\ Ask("draw", None, Anything)
    /\ panel' = [panel EXCEPT !.busy = TRUE]

Scratch ==
    /\ PanelKind = "SCRATCH" /\ page = "ready" /\ panel.phase = "idle" /\ (panel.busy \/ panel.kept # None)
    /\ IF panel.kept = None
       THEN Unrefreshed([panel EXCEPT !.phase = "scratched"], requests)
       ELSE Refreshed([panel EXCEPT !.phase = "done"], requests)
    /\ UNCHANGED <<form, server, shown, asked, events, lapses, meant>>

\* onMatchingRight joins a label to the match text of another option, and refuses an option's own: a
\* pair can be joined only where the author typed the label of one option as the match of another.
MayPair == \E a \in Choices : form.match[a] # a

\* onMatchingRight, onPuzzleTile: the answer that is complete is submitted by a timer.
Land(a) ==
    /\ Landing /\ Asking
    /\ ~panel.voting /\ ~(IsSub /\ Voted)
    /\ a \in ChoicesOf(shown.round)
    /\ IF PanelKind = "MATCHING" THEN ~panel.busy /\ panel.kept = None /\ form.match[a[2]] # a[2]
       ELSE panel.kept # a
    /\ panel' = [panel EXCEPT !.kept = a, !.busy = (PanelKind = "MATCHING")]
    /\ asked' = asked + 1
    /\ requests' = requests \cup {Request("post", shown.round, a, "landing")}
    /\ UNCHANGED <<lapses, meant>>
    /\ Untouched

\* resetMatching
Rematch ==
    /\ PanelKind = "MATCHING" /\ page = "ready" /\ panel.kept # None /\ Voted /\ ~IsSub
    /\ panel' = [panel EXCEPT !.kept = None]
    /\ UNCHANGED <<requests, asked, lapses, meant>>
    /\ Untouched

\* start, replay; the button is not disabled while a withdrawal is under way.
Play ==
    /\ PanelKind = "RANK" /\ page = "ready" /\ ~panel.busy
    /\ panel.phase = "idle" \/ (panel.phase = "done" /\ ~IsSub)
    /\ panel' = [panel EXCEPT !.phase = "playing", !.kept = None]
    /\ lapses' = lapses \cup IF panel.voting THEN {"replayed"} ELSE {}
    /\ UNCHANGED <<requests, asked, meant>>
    /\ Untouched

\* The last comparison of the game.
Rank(a) ==
    /\ PanelKind = "RANK" /\ panel.phase = "playing" /\ a \in ChoicesOf(shown.round)
    /\ Ask("save", a, a)
    /\ panel' = [panel EXCEPT !.phase = "over", !.busy = TRUE]

-----------------------------------------------------------------------------
(* Timers and the service.                                                  *)

Elsewhere == UNCHANGED <<form, shown, page, panel, fetches, asked>>

Event == events < MaxEvents /\ events' = events + 1

\* submitLanded; the refused cases leave what has landed where it is.
LandingEnds(r) ==
    /\ r \in requests /\ r.stage = "landing"
    /\ LET op    == IF r.mine THEN IF Voted THEN "patch" ELSE "post" ELSE r.op
           to    == IF r.mine THEN shown.round ELSE r.to
           drops == r.mine /\ (panel.voting \/ r.answer = shown.answer \/ (IsSub /\ Voted))
           freed == [panel EXCEPT !.busy = FALSE,
                                  !.kept = IF PanelKind = "MATCHING" /\ Voted THEN None ELSE @]
       IN /\ requests' = (requests \ {r})
                         \cup IF drops THEN {} ELSE {[r EXCEPT !.op = op, !.to = to, !.stage = "sent"]}
          /\ meant' = IF drops THEN meant ELSE [meant EXCEPT ![to] = r.answer]
          /\ lapses' = lapses \cup IF drops THEN {"dropped"} ELSE IF r.mine THEN {} ELSE {"orphaned"}
          /\ panel' = IF r.mine THEN [freed EXCEPT !.voting = @ \/ ~drops] ELSE panel
    /\ UNCHANGED <<form, server, shown, page, fetches, asked, events>>

\* An option belongs to its topic; a number or a text does not.
Belongs(r) == r.answer \in ChoicesOf(r.to) \/ PanelKind \in {"SPECTRUM", "SHORT"}

\* scratchDraw and gameDraw give the result drawn before, or draw one.
DrawOutcomes(r) ==
    LET had == server.answers[r.to] IN {<<"ok", a>> : a \in IF had # None THEN {had} ELSE ChoicesOf(r.to)}

\* What the service does with a request: the outcome and the answer it leaves.
Outcomes(r) ==
    LET had == server.answers[r.to] IN
    IF r.to # server.round THEN {<<"failed", had>>}
    ELSE CASE r.op = "post" -> {IF had # None THEN <<"conflict", had>>
                                ELSE IF Belongs(r) THEN <<"ok", r.answer>> ELSE <<"failed", had>>}
           [] r.op = "patch" -> {IF had = None \/ IsSub \/ ~Belongs(r) THEN <<"failed", had>> ELSE <<"ok", r.answer>>}
           [] r.op = "delete" -> {IF had = None \/ IsSub THEN <<"failed", had>> ELSE <<"ok", None>>}
           [] r.op = "save" -> {IF had # None /\ IsSub THEN <<"failed", had>> ELSE <<"ok", r.answer>>}
           [] r.op = "draw" -> DrawOutcomes(r)

Handle(r) ==
    /\ r \in requests /\ r.stage = "sent"
    /\ \E o \in Outcomes(r) :
          /\ requests' = (requests \ {r})
                 \cup {[r EXCEPT !.stage = o[1], !.answer = IF r.op = "draw" THEN o[2] ELSE @]}
          /\ server' = [server EXCEPT !.answers[r.to] = o[2]]
          /\ lapses' = lapses \cup IF o[1] = "failed" THEN {"refused"} ELSE {}
    /\ UNCHANGED <<events, meant>>
    /\ Elsewhere

\* The network: the request, or its answer, is lost.
Lose(r) ==
    /\ r \in requests /\ r.stage \in {"sent", "ok"} /\ Event
    /\ requests' = (requests \ {r}) \cup {[r EXCEPT !.stage = "failed"]}
    /\ lapses' = lapses \cup {"refused"}
    /\ UNCHANGED <<server, meant>>
    /\ Elsewhere

\* Another tab of the same user.
OtherTab(a) ==
    /\ Event
    /\ a \in ChoicesOf(server.round) \cup {None}
    /\ a # server.answers[server.round]
    /\ IsSub => server.answers[server.round] = None
    /\ server' = [server EXCEPT !.answers[server.round] = a]
    /\ lapses' = lapses \cup {"elsewhere"}
    /\ UNCHANGED <<requests, meant>>
    /\ Elsewhere

OpenRound ==
    /\ IsSub /\ server.round = 1
    /\ server' = [server EXCEPT !.round = 2]
    /\ UNCHANGED <<requests, events, lapses, meant>>
    /\ Elsewhere

-----------------------------------------------------------------------------
(* The answer of a request.                                                 *)

Retries == Landing \/ PanelKind \in {"PICK", "TAP", "MULTI"}

\* 409 on a first vote: the vote is changed instead, of the topic that is shown by then unless
\* the panel is the one of several boxes.
Retry(r) ==
    /\ r.stage = "conflict" /\ Retries
    /\ IF r.answer = shown.answer /\ PanelKind \notin {"MULTI", "TAP"} /\ r.mine
       THEN /\ Unrefreshed([panel EXCEPT !.voting = FALSE], requests \ {r})
            /\ lapses' = lapses \cup {"skipped"}
       ELSE /\ Unrefreshed(panel, (requests \ {r})
                  \cup {[r EXCEPT !.op = "patch", !.stage = "sent",
                                  !.to = IF PanelKind = "MULTI" \/ ~r.mine THEN @ ELSE shown.round]})
            /\ UNCHANGED lapses

\* An error is shown.  The page of a formal topic loads again.  A draw of an earlier topic is
\* left alone.
Complain(r) ==
    LET late == r.op = "draw" /\ r.to # shown.round
        free == [panel EXCEPT !.voting = @ /\ r.op \in {"draw", "save"},
                              !.busy = @ /\ r.op \notin {"draw", "save"}]
    IN /\ r.stage = "failed" \/ (r.stage = "conflict" /\ ~Retries)
       /\ lapses' = lapses \cup IF late THEN {"overtaken"} ELSE {"refused"}
       /\ IF PanelKind = "FORMAL" THEN Refreshed([panel EXCEPT !.kept = None], requests \ {r})
          ELSE Unrefreshed(IF late THEN panel ELSE free, requests \ {r})

\* A card's own options and the formal vote stay locked until the topic has been fetched.
Accept(r) ==
    /\ r.stage = "ok" /\ r.op \in {"post", "patch"}
    /\ Refreshed([panel EXCEPT !.voting = PanelKind \in {"TAP", "FORMAL"},
                               !.kept = IF PanelKind = "FORMAL" THEN None ELSE @], requests \ {r})
    /\ UNCHANGED lapses

\* withdrawVote, withdrawRank and what the panel clears after them
Withdrawn(r) ==
    LET free == [panel EXCEPT !.voting = PanelKind = "TAP"] IN
    /\ r.stage = "ok" /\ r.op = "delete"
    /\ Refreshed(IF Landing \/ PanelKind \in {"SPECTRUM", "MULTI"} THEN free ELSE Cleared(free),
                 IF PanelKind = "SCRATCH" THEN Forgotten(requests \ {r}) ELSE requests \ {r})
    /\ lapses' = lapses \cup {"withdrawn"} \cup IF PanelKind = "SCRATCH" THEN ForgetsIn(requests) ELSE {}

\* The result of a draw: an animation first, or a card that is scratched.
Drawn(r) ==
    /\ r.stage = "ok" /\ r.op = "draw"
    /\ IF r.to # shown.round
       THEN Unrefreshed(panel, requests \ {r}) /\ lapses' = lapses \cup {"overtaken"}
       ELSE /\ UNCHANGED lapses
            /\ IF Spinning
               THEN Unrefreshed(panel, (requests \ {r}) \cup {[r EXCEPT !.stage = "turning"]})
               ELSE LET held == [panel EXCEPT !.kept = r.answer, !.busy = FALSE] IN
                    IF panel.phase = "scratched" THEN Refreshed([held EXCEPT !.phase = "done"], requests \ {r})
                    ELSE Unrefreshed(held, requests \ {r})

\* The animation is over.
Stops(r) ==
    /\ r.stage = "turning"
    /\ IF r.to # shown.round
       THEN Unrefreshed(panel, requests \ {r}) /\ lapses' = lapses \cup {"overtaken"}
       ELSE Refreshed([panel EXCEPT !.busy = FALSE, !.kept = r.answer], requests \ {r}) /\ UNCHANGED lapses

\* submitRanking does not look whether the topic is still the one it was played on.
Saved(r) ==
    /\ r.stage = "ok" /\ r.op = "save"
    /\ Refreshed([panel EXCEPT !.kept = r.answer, !.phase = "done", !.busy = FALSE], requests \ {r})
    /\ UNCHANGED lapses

\* Nobody is left to see the answer; an error is still shown.
Unseen(r) ==
    /\ ~r.mine /\ r.stage \notin {"sent", "landing"} /\ ~(r.stage = "conflict" /\ Retries)
    /\ Unrefreshed(panel, requests \ {r})
    /\ lapses' = lapses \cup IF r.stage \in {"failed", "conflict"} THEN {"refused"} ELSE {}

Receive(r) ==
    /\ r \in requests
    /\ \/ Retry(r)
       \/ r.mine /\ (Complain(r) \/ Accept(r) \/ Withdrawn(r) \/ Drawn(r) \/ Stops(r) \/ Saved(r))
       \/ Unseen(r)
    /\ UNCHANGED <<form, server, shown, asked, events, meant>>

-----------------------------------------------------------------------------
(* The page or the card.                                                    *)

Idle == UNCHANGED <<form, server, asked, meant>>

\* Somebody's vote reaches the page, which fetches without a sign of loading.
Tick ==
    /\ form.place # "card" /\ Event
    /\ fetches' = fetches \cup {Fetch("tick")}
    /\ UNCHANGED <<shown, page, panel, requests, lapses>>
    /\ Idle

\* Another question of the page was answered, or the author did something: the page loads.
Neighbour ==
    /\ IsSub /\ page = "ready" /\ Event
    /\ Refreshed(panel, requests)
    /\ UNCHANGED <<shown, lapses>>
    /\ Idle

Read(f) ==
    /\ f \in fetches /\ f.got = None
    /\ fetches' = (fetches \ {f}) \cup {[f EXCEPT !.got = View(server)]}
    /\ UNCHANGED <<shown, page, panel, requests, events, lapses>>
    /\ Idle

\* load mounts the panel anew; a tick and a card replace the topic of the panel that is there.
Return(f) ==
    LET watched == Watched(panel, shown, f.got)
        open    == [watched EXCEPT !.voting = @ /\ PanelKind # "TAP"]
        reset   == PanelKind = "SCRATCH" /\ (f.got.round # shown.round \/ (Voted /\ f.got.answer = None))
    IN /\ f \in fetches /\ f.got # None
       /\ fetches' = fetches \ {f}
       /\ shown' = f.got
       /\ IF f.by = "load"
          THEN /\ page' = "ready"
               /\ panel' = IF PanelKind = "FORMAL" THEN [panel EXCEPT !.voting = FALSE] ELSE Mounted(f.got)
               /\ UNCHANGED <<requests, lapses>>
          ELSE /\ panel' = IF page # "ready" THEN panel ELSE IF f.by = "card" THEN open ELSE watched
               /\ requests' = IF reset THEN Forgotten(requests) ELSE requests
               /\ lapses' = lapses \cup IF reset THEN ForgetsIn(requests) ELSE {}
               /\ UNCHANGED page
       /\ UNCHANGED events
       /\ Idle

\* A page that could not load says so; a card and a tick leave everything as it is.
Miss(f) ==
    /\ f \in fetches /\ Event
    /\ fetches' = fetches \ {f}
    /\ lapses' = lapses \cup {"missed"}
    /\ page' = IF f.by = "load" THEN "error" ELSE page
    /\ panel' = IF <<f.by, PanelKind>> \in {<<"load", "FORMAL">>, <<"card", "TAP">>}
                THEN [panel EXCEPT !.voting = FALSE] ELSE panel
    /\ UNCHANGED <<shown, requests>>
    /\ Idle

Reload ==
    /\ page = "error"
    /\ page' = "loading"
    /\ fetches' = fetches \cup {Fetch("load")}
    /\ UNCHANGED <<shown, panel, requests, events, lapses>>
    /\ Idle

Next ==
    \/ \E a \in Answers \cup {None} : Choose(a) \/ Select(a) \/ Draft(a) \/ Land(a) \/ Rank(a) \/ OtherTab(a)
    \/ Confirm \/ Submit \/ Withdraw \/ Spin \/ Touch \/ Scratch \/ Rematch \/ Play
    \/ \E r \in requests : LandingEnds(r) \/ Handle(r) \/ Lose(r) \/ Receive(r)
    \/ OpenRound \/ Tick \/ Neighbour \/ Reload
    \/ \E f \in fetches : Read(f) \/ Return(f) \/ Miss(f)

Spec == Init /\ [][Next]_vars

-----------------------------------------------------------------------------

AtRest == requests = {} /\ fetches = {} /\ page = "ready"

\* The user can go on to an answer.
MayAnswer ==
    CASE PanelKind = "RANK" -> panel.phase # "over" /\ ~panel.busy
      [] PanelKind = "SCRATCH" -> ~panel.busy /\ (panel.phase = "done" => server.answers[shown.round] # None)
      [] PanelKind = "MATCHING" -> ~panel.voting /\ ~panel.busy /\ panel.kept = None /\ MayPair
      [] Spinning -> MayDraw
      [] OTHER -> ~panel.voting

\* The ways the code has to leave a panel locked: the wheel spins on when its topic is replaced;
\* a matched pair stays when its vote was refused, dropped, skipped or withdrawn, and a matching question none
\* of whose match texts is another option's label has no pair at all; a ranking that could not be saved is over;
\* a scratch card reveals what another tab has withdrawn.
KnownLock ==
    \/ PanelKind = "WHEEL" /\ "overtaken" \in lapses
    \/ PanelKind = "MATCHING" /\ (~MayPair \/ lapses \cap {"refused", "dropped", "withdrawn", "skipped", "missed", "elsewhere"} # {})
    \/ PanelKind = "RANK" /\ "refused" \in lapses
    \/ PanelKind = "SCRATCH" /\ lapses \cap {"refused", "elsewhere"} # {}

\* When nothing is under way, an open question that shows no answer can be answered, except in the
\* known ways.  Every flag that locks a panel is taken back by an answer, a timer or a watcher, in
\* whatever order answers, rounds and reloads arrive.
PlayableOrKnown == AtRest /\ ~Voted /\ shown.round = server.round => MayAnswer \/ KnownLock

\* "First the item on the left, then its counterpart on the right; a right pair is the vote"
\* (MatchingGame.vue): a matching question nothing has happened to can be answered.  It cannot when every
\* match text only belongs to the label in its own row, which is what the builder's form asks for.
PairsCanBeJoined == PanelKind = "MATCHING" /\ AtRest /\ ~Voted /\ lapses = {} => MayAnswer

\* What a panel shows as the user's own answer.
Display == IF Drafting \/ (PanelKind \in {"SCRATCH", "RANK"} /\ panel.phase = "done") THEN panel.kept ELSE shown.answer

\* A spectrum that is mounted with an answer shows the middle as the user's choice.
ShowsAnother == PanelKind = "SPECTRUM"

\* When nothing is under way and nothing was refused or lost, the stored answer is the last one the
\* panel asked for, first votes that became changes included, and a question that shows an answer
\* shows it as the user's own.  Excepted: a timer that submits a word completed on a panel that is
\* gone by then, a ranking played while one is withdrawn, a change that an outdated card takes for
\* the answer there already is, and a draw whose result a scratch card forgot when it was cleared.
LastAnswerCounts ==
    AtRest /\ lapses \cap {"refused", "missed", "elsewhere", "orphaned", "forgotten", "replayed", "skipped"} = {} =>
        /\ \A r \in Rounds : meant[r] \in {Anything, server.answers[r]}
        /\ Voted /\ shown = View(server) /\ "drafted" \notin lapses => Display = shown.answer \/ ShowsAnother
=============================================================================
