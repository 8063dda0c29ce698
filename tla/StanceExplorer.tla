--------------------------- MODULE StanceExplorer ---------------------------
(***************************************************************************)
(* The explorer of stances on the topic page of the web client (see        *)
(* StanceTree.vue and the page that holds it): the stance or the proposal  *)
(* of one's own that is open, the dialog for a new proposal, the edit of a *)
(* proposal, and the requests whose answers arrive while the user moves    *)
(* on.  What is open is kept three times: in the explorer, in the page and *)
(* in the URL, which router.replace brings up to date later.  A step is    *)
(* what runs between two awaits, with the watchers flushed after it.       *)
(*                                                                         *)
(* The user is signed in and may propose; the tree of stances stands.      *)
(***************************************************************************)
EXTENDS Naturals, FiniteSets, Functions

CONSTANTS
    Stances, Parent,     \* the tree: Parent[s] is None for a root
    Depth, MaxDepth,     \* depth of a stance, depth where no stance is derived any more
    Applications,        \* proposals of the user there may be
    MaxMoves,            \* bounds what the user does
    None

VARIABLES
    page,                \* activeSection and selectedStance of the page
    url,                 \* section, stance and tab of the URL
    target,              \* the navigation in progress
    view,                \* what the explorer holds, None while it is not mounted
    tree,                \* whether the tree has been loaded
    privateApplications, \* the list of the explorer: proposal -> the stance it is below
    mine,                \* the proposals of the user, on the server
    work,                \* requests of the explorer, by kind
    left,                \* requests not yet handled whose explorer is gone
    opened,              \* what the user, or the answer waited for, opened last
    moves

vars == <<page, url, target, view, tree, privateApplications, mine, work, left, opened, moves>>
server == <<mine, left>>

Kinds == {"add", "save", "withdraw", "toggle", "report", "tree", "list"}
Closed == [node |-> None, application |-> None, tab |-> "DETAIL", editing |-> FALSE, report |-> FALSE,
           proposal |-> "closed"]

Mounted == view # None
Busy(k) == work[k] # None

\* Stances and proposals that are not found are not shown, and nothing is without the tree.
selectedApplication == IF tree /\ view.application \in DOMAIN privateApplications THEN view.application ELSE None
selectedNode == IF tree THEN view.node ELSE None
Panel == IF selectedApplication # None THEN selectedApplication ELSE selectedNode
OnStance == selectedNode # None /\ selectedApplication = None
OnDetail == OnStance /\ view.tab = "DETAIL"

(***************************************************************************)
(* The page.                                                               *)
(***************************************************************************)
Go(section, stance, tab) == target' = [section |-> section, stance |-> stance, tab |-> tab]

\* The watchers of the explorer: the property selected wins over what is open, and a new stance takes
\* the report form of the former with it.
Flush(v, selected) ==
    LET w == IF selected = page.stance THEN v ELSE [v EXCEPT !.application = None, !.node = selected]
    IN  IF w.node = view.node THEN w ELSE [w EXCEPT !.report = FALSE]

\* emit('select', stance): selectStance of the page.
Emit(v, stance) ==
    /\ view' = Flush(v, stance)
    /\ page' = [page EXCEPT !.stance = stance]
    /\ Go("stances", stance, "DETAIL")

(***************************************************************************)
(* What opens and closes.                                                  *)
(***************************************************************************)
\* A mutant: the proposal that is open stays open.
NodeBehind(v, s) == [v EXCEPT !.node = s, !.tab = "DETAIL"]
selectNode(v, s) == [v EXCEPT !.application = None, !.node = s, !.tab = "DETAIL"]
selectApplication(v, a) == [v EXCEPT !.application = a, !.node = None, !.tab = "DETAIL", !.editing = FALSE]

Open(panel, editing) ==
    [panel |-> panel, dialog |-> "closed", editing |-> editing, report |-> view.report /\ panel = Panel,
     fromStance |-> FALSE, overtaken |-> FALSE]

\* The user acts in the explorer; while the dialog is open nothing else can be reached.  An answer that
\* comes later finds the user elsewhere.
Move ==
    /\ Mounted /\ moves < MaxMoves
    /\ moves' = moves + 1
    /\ work' = [k \in Kinds |-> IF Busy(k) THEN [work[k] EXCEPT !.moved = TRUE] ELSE None]
Browse == Move /\ tree /\ view.proposal = "closed"
Still == UNCHANGED <<url, tree, privateApplications, server>>
Quiet == UNCHANGED <<page, target>>

SelectNode(s) ==
    /\ Browse
    /\ Emit(selectNode(view, s), s)
    /\ opened' = Open(s, FALSE)
    /\ Still

SelectApplication(a) ==
    /\ Browse
    /\ a \in DOMAIN privateApplications
    /\ privateApplications[a] \in {None, selectedNode}
    /\ Emit(selectApplication(view, a), None)
    /\ opened' = [Open(a, FALSE) EXCEPT !.fromStance = page.stance # None]
    /\ Still

ReturnPrevious ==
    /\ Browse /\ (selectedApplication # None \/ OnDetail)
    /\ LET up == IF selectedApplication # None THEN privateApplications[selectedApplication] ELSE Parent[selectedNode]
       IN  Emit(selectNode(view, up), up) /\ opened' = Open(up, FALSE)
    /\ Still

\* From the discussion of a stance back to all of them.
ClearStance ==
    /\ Browse /\ OnStance /\ view.tab = "DISCUSSION"
    /\ Emit(selectNode(view, None), None) /\ opened' = Open(None, FALSE)
    /\ Still

SelectDetailTab(t) ==
    /\ Browse
    /\ OnStance
    /\ view' = [view EXCEPT !.tab = t]
    /\ Go("stances", page.stance, t)
    /\ UNCHANGED <<page, opened>> /\ Still

StartPrivateEdit ==
    /\ Browse /\ selectedApplication # None /\ ~view.editing
    /\ view' = [view EXCEPT !.editing = TRUE]
    /\ opened' = Open(Panel, TRUE)
    /\ Quiet /\ Still

CancelPrivateEdit ==
    /\ Browse /\ selectedApplication # None /\ view.editing
    /\ view' = [view EXCEPT !.editing = FALSE]
    /\ opened' = Open(Panel, FALSE)
    /\ Quiet /\ Still

OpenProposal(parent) ==
    /\ Move /\ view.proposal = "closed"
    /\ parent # None => OnDetail /\ parent = selectedNode /\ Depth[parent] < MaxDepth
    /\ view' = [view EXCEPT !.proposal = parent]
    /\ opened' = [opened EXCEPT !.dialog = parent]
    /\ Quiet /\ Still

CloseProposal ==
    /\ Move /\ view.proposal # "closed"
    /\ view' = [view EXCEPT !.proposal = "closed"]
    /\ opened' = [opened EXCEPT !.dialog = "closed"]
    /\ Quiet /\ Still

ToggleReport ==
    /\ Browse /\ OnDetail
    /\ view' = [view EXCEPT !.report = ~@]
    /\ opened' = [opened EXCEPT !.report = ~view.report]
    /\ Quiet /\ Still

(***************************************************************************)
(* What sends a request: its kind, and what it is about.                   *)
(***************************************************************************)
Send(k, about, below) ==
    /\ Mounted /\ ~Busy(k) /\ moves < MaxMoves
    /\ moves' = moves + 1
    /\ work' = [work EXCEPT ![k] = [at |-> "sent", about |-> about, below |-> below, list |-> <<>>,
                                    ok |-> TRUE, moved |-> FALSE]]
    /\ UNCHANGED <<view, opened>> /\ Quiet /\ Still

AddStance == \E a \in Applications :
    /\ Mounted /\ view.proposal # "closed"
    /\ a \notin DOMAIN mine /\ ~\E w \in left : w.about = a
    /\ Send("add", a, view.proposal)
SavePrivateApplication ==
    /\ Mounted /\ view.proposal = "closed" /\ selectedApplication # None /\ view.editing
    /\ Send("save", selectedApplication, None)
WithdrawPrivateApplication ==
    /\ Mounted /\ view.proposal = "closed" /\ selectedApplication # None /\ ~view.editing
    /\ Send("withdraw", selectedApplication, privateApplications[selectedApplication])
ToggleSignal ==
    /\ Mounted /\ view.proposal = "closed" /\ OnDetail
    /\ Send("toggle", selectedNode, None)
SubmitReport ==
    /\ Mounted /\ view.proposal = "closed" /\ OnDetail /\ view.report
    /\ Send("report", selectedNode, None)

(***************************************************************************)
(* The server.                                                             *)
(***************************************************************************)
Effect(k, about, below) ==
    mine' = CASE k = "add" -> [a \in DOMAIN mine \cup {about} |-> IF a = about THEN below ELSE mine[a]]
              [] k = "withdraw" -> Restrict(mine, DOMAIN mine \ {about})
              [] OTHER -> mine

\* Accepted, or refused for any of the reasons of the API.
Serve(k) ==
    /\ Busy(k) /\ work[k].at = "sent"
    /\ \E ok \in BOOLEAN :
          /\ k \in {"save", "withdraw"} /\ work[k].about \notin DOMAIN mine => ~ok
          /\ work' = [work EXCEPT ![k].at = "answer", ![k].ok = ok]
          /\ IF ok THEN Effect(k, work[k].about, work[k].below) ELSE UNCHANGED mine
    /\ UNCHANGED <<page, url, target, view, tree, privateApplications, left, opened, moves>>

\* loadPrivateApplications and load: what the server answers now; a failure empties the list.
ServeRead(k) ==
    /\ Busy(k) /\ work[k].at = "load"
    /\ \E ok \in BOOLEAN :
          work' = [work EXCEPT ![k].at = "loaded", ![k].ok = ok, ![k].list = IF ok THEN mine ELSE <<>>]
    /\ UNCHANGED <<page, url, target, view, tree, privateApplications, server, opened, moves>>

\* What was sent by an explorer that is gone has its effect, and no answer.
ServeLeft(w) ==
    /\ left' = left \ {w}
    /\ Effect(w.kind, w.about, w.below) \/ UNCHANGED mine
    /\ UNCHANGED <<page, url, target, view, tree, privateApplications, work, opened, moves>>

(***************************************************************************)
(* The answers.  The answer of a request opens what it is about; if the    *)
(* user has moved on meanwhile it moves the user.                          *)
(***************************************************************************)
Opens(k, panel) ==
    opened' = IF work[k].moved \/ opened.overtaken THEN [opened EXCEPT !.overtaken = TRUE]
              ELSE [Open(panel, FALSE) EXCEPT !.fromStance = k = "add" /\ page.stance # None]

\* Refused: a message says so.  A report that is accepted closes its form.
Answered(k) ==
    /\ Mounted /\ Busy(k) /\ work[k].at = "answer" /\ (k = "report" \/ ~work[k].ok)
    /\ work' = [work EXCEPT ![k] = None]
    /\ IF k = "report" /\ work[k].ok
       THEN /\ view' = [view EXCEPT !.report = FALSE]
            /\ opened' = [opened EXCEPT !.report = FALSE, !.overtaken = @ \/ Panel # work[k].about]
       ELSE UNCHANGED <<view, opened>>
    /\ Quiet /\ Still /\ UNCHANGED moves

\* Accepted: the list, or the tree, is read again.
Accepted(k) ==
    /\ Mounted /\ Busy(k) /\ k # "report" /\ work[k].at = "answer" /\ work[k].ok
    /\ work' = [work EXCEPT ![k].at = "load"]
    /\ Quiet /\ Still /\ UNCHANGED <<view, opened, moves>>

Loaded(k) ==
    /\ Mounted /\ Busy(k) /\ work[k].at = "loaded"
    /\ work' = [work EXCEPT ![k] = None]
    /\ UNCHANGED <<url, server, moves>>

\* The list is shown as it was read last, whichever reading that is.
Listed(k) == Loaded(k) /\ privateApplications' = work[k].list /\ UNCHANGED tree

Added ==
    /\ Listed("add")
    /\ Opens("add", work["add"].about)
    /\ Emit([selectApplication(view, work["add"].about) EXCEPT !.proposal = "closed"], None)

Saved ==
    /\ Listed("save")
    /\ Opens("save", work["save"].about)
    /\ view' = [view EXCEPT !.editing = FALSE]
    /\ Quiet

\* To the stance the proposal was below, or to none.
Withdrawn ==
    /\ Listed("withdraw")
    /\ Opens("withdraw", work["withdraw"].below)
    /\ Emit(selectNode(view, work["withdraw"].below), work["withdraw"].below)

\* onMounted.
MountedList == Listed("list") /\ UNCHANGED <<view, opened>> /\ Quiet

\* toggleSignal, onMounted: the tree; what fails to load leaves the former.
LoadedTree(k) ==
    /\ k \in {"toggle", "tree"} /\ Loaded(k)
    /\ tree' = (tree \/ work[k].ok)
    /\ UNCHANGED <<view, opened, privateApplications>> /\ Quiet

(***************************************************************************)
(* The sections and the URL.                                               *)
(***************************************************************************)
NoWork == [k \in Kinds |-> None]
Mounting == [k \in Kinds |->
    IF k \in {"tree", "list"}
    THEN [at |-> "load", about |-> None, below |-> None, list |-> <<>>, ok |-> TRUE, moved |-> FALSE]
    ELSE None]
MountedAt(stance, tab) == [Closed EXCEPT !.node = stance, !.tab = tab]

\* activeSection becomes s: the explorer is mounted, with what page and URL say, or is gone.
Show(s, stance, tab) ==
    IF s = "stances" /\ ~Mounted
    THEN /\ view' = MountedAt(stance, tab)
         /\ work' = Mounting
         /\ tree' = FALSE /\ privateApplications' = <<>>
         /\ opened' = [panel |-> stance, dialog |-> "closed", editing |-> FALSE, report |-> FALSE,
                       fromStance |-> FALSE, overtaken |-> FALSE]
         /\ UNCHANGED left
    ELSE IF s = "vote" /\ Mounted
    THEN /\ view' = None
         /\ work' = NoWork
         /\ left' = left \cup {[kind |-> k, about |-> work[k].about, below |-> work[k].below] :
                                 k \in {j \in {"add", "withdraw"} : Busy(j) /\ work[j].at = "sent"}}
         /\ UNCHANGED <<tree, privateApplications, opened>>
    ELSE UNCHANGED <<view, work, tree, privateApplications, opened, left>>

SetSection(s) ==
    /\ moves < MaxMoves /\ s # page.section
    /\ Mounted => view.proposal = "closed"
    /\ moves' = moves + 1
    /\ page' = [page EXCEPT !.section = s]
    /\ Show(s, page.stance, url.tab)
    /\ IF s = "stances" THEN Go(s, page.stance, url.tab) ELSE Go(s, None, "DETAIL")
    /\ UNCHANGED <<url, mine>>

\* The navigation ends; the watchers of the query and of the tab.
Arrive ==
    /\ target # None
    /\ url' = target /\ target' = None
    /\ LET section == IF target.section = url.section THEN page.section ELSE target.section
           stance == IF target.stance = url.stance THEN page.stance ELSE target.stance
           v == IF target.tab = url.tab THEN view ELSE [view EXCEPT !.tab = target.tab]
       IN  /\ page' = [section |-> section, stance |-> stance]
           /\ IF section # page.section \/ ~Mounted THEN Show(section, stance, target.tab)
              ELSE view' = Flush(v, stance) /\ UNCHANGED <<work, tree, privateApplications, opened, left>>
    /\ UNCHANGED <<mine, moves>>

(***************************************************************************)
(* The whole.                                                              *)
(***************************************************************************)
Init ==
    /\ \E s \in Stances \cup {None} : page = [section |-> "stances", stance |-> s]
    /\ \E t \in {"DETAIL", "DISCUSSION"} : url = [section |-> "stances", stance |-> page.stance, tab |-> t]
    /\ page.stance = None => url.tab = "DETAIL"
    /\ target = None
    /\ view = MountedAt(url.stance, url.tab)
    /\ tree = FALSE /\ privateApplications = <<>>
    /\ mine \in [{CHOOSE a \in Applications : TRUE} -> {None} \cup Stances]
    /\ work = Mounting
    /\ left = {}
    /\ opened = [panel |-> page.stance, dialog |-> "closed", editing |-> FALSE, report |-> FALSE,
                 fromStance |-> FALSE, overtaken |-> FALSE]
    /\ moves = 0

Next ==
    \/ \E s \in Stances : SelectNode(s)
    \/ \E a \in Applications : SelectApplication(a)
    \/ ReturnPrevious \/ ClearStance \/ StartPrivateEdit \/ CancelPrivateEdit
    \/ \E t \in {"DETAIL", "DISCUSSION"} : SelectDetailTab(t)
    \/ \E s \in Stances \cup {None} : OpenProposal(s)
    \/ CloseProposal \/ ToggleReport
    \/ AddStance \/ SavePrivateApplication \/ WithdrawPrivateApplication \/ ToggleSignal \/ SubmitReport
    \/ \E k \in Kinds : Serve(k) \/ ServeRead(k) \/ Answered(k) \/ Accepted(k) \/ LoadedTree(k)
    \/ \E w \in left : ServeLeft(w)
    \/ Added \/ Saved \/ Withdrawn \/ MountedList
    \/ \E s \in {"vote", "stances"} : SetSection(s)
    \/ Arrive

Spec == Init /\ [][Next]_vars

\* Once nothing is on its way, what is open is what the user opened last, or what the answer of the user's last request
\* opened; the URL says the same.  The exceptions: an answer that arrives after the user has moved on moves the user
\* (addStance, savePrivateApplication and withdrawPrivateApplication go on after their awaits); a proposal opened or made
\* at a stance is closed at once by the watcher of the property selected; and a proposal missing from the list
\* that was shown last, because reading it failed or it was read too early, is not shown.
ShowsWhatWasOpened ==
    (Mounted /\ target = None /\ ~opened.overtaken) =>
        /\ \/ Panel = opened.panel
           \/ opened.fromStance /\ view.application = None
           \/ Panel = None /\ opened.panel \in Applications \ DOMAIN privateApplications
           \/ Panel = None /\ ~tree
        /\ view.proposal = opened.dialog
        /\ selectedApplication # None => view.editing = opened.editing
        /\ OnStance => view.report = opened.report
        /\ url.section = "stances" /\ url.stance = page.stance /\ page.stance = view.node
        /\ view.node # None => url.tab = view.tab
=============================================================================
