------------------------------ MODULE TopicForm ------------------------------
(***************************************************************************)
(* The page that writes a new formal topic (topics/create.vue), the import *)
(* of a JSON file (TopicJsonImporter.vue) and of a draft the assistant     *)
(* wrote into it, and the three endpoints it submits to: an author         *)
(* publishes or imports, others make a proposal.  Text is a number: its    *)
(* length for titles and contents, blanks around it included; an option is *)
(* 0 when blank, and equal numbers are equal texts.  A change of the type  *)
(* queues the watcher on it, and an import goes on after nextTick: both    *)
(* run before the next click or key.                                       *)
(***************************************************************************)
EXTENDS Integers, Sequences, FiniteSets, Functions

CONSTANTS
    Lengths,        \* lengths of the titles, descriptions and contents that are typed
    Taken,          \* the title of this length is the one of a topic that exists
    TopicFiles,     \* JSON files offered to the import
    TopicDrafts,    \* drafts offered by the assistant
    MaxChanges      \* bound: edits of the page

VARIABLES
    page,           \* the page
    queued,         \* the type before the change that the watcher on the type has yet to see
    filling,        \* what onApplyImport or applyAiTopicDraft has yet to fill in: a set of at most one
    applied,        \* history: what was filled in last, until an edit
    changes         \* bounded number of edits so far

vars == <<page, queued, filling, applied, changes>>

TopicTypes == {"BINARY", "MULTIPLE", "IMAGE_MULTIPLE", "SPECTRUM"}
NoType == "none"
BlockTypes == {"BACKGROUND", "SOURCE"}
Long == 51                                      \* an option longer than 50, blanks included
Option(text) == [text |-> text, image |-> 0]
\* The labels a type starts with: 1 and 2 are agree and disagree, 3 to 5 the options one, two, other.
DefaultOptions(texts) == [k \in DOMAIN texts |-> Option(texts[k])]

\* A partner who is no senior member always speaks for an organisation.
Init ==
    /\ \E role \in {"author", "senior", "partner", "senior partner"} :
          page = [role |-> role, title |-> 0, description |-> 0, type |-> "BINARY", options |-> DefaultOptions(<<1, 2>>),
                  blocks |-> <<>>, audience |-> "MEMBER_ONLY", org |-> role = "partner",
                  stances |-> "none", imported |-> FALSE]
    /\ queued = NoType /\ filling = {} /\ applied = {}
    /\ changes = 0

\* A click or a key: what the one before it queued has run.
Idle == queued = NoType /\ filling = {}
Event == Idle /\ changes < MaxChanges /\ changes' = changes + 1 /\ applied' = {}
Change == Event /\ UNCHANGED <<queued, filling>>
DropAt(s, k) == SubSeq(s, 1, k - 1) \o SubSeq(s, k + 1, Len(s))

ChooseType(type) ==
    /\ type # page.type /\ Event
    /\ page' = [page EXCEPT !.type = type] /\ queued' = page.type
    /\ UNCHANGED filling

\* watch(topicType)
OptionsAfter(previous, type, options) ==
    CASE type = "SPECTRUM" -> <<>>
      [] type = "BINARY" -> DefaultOptions(<<1, 2>>)
      [] type = "IMAGE_MULTIPLE" -> DefaultOptions(<<0, 0>>)
      [] type = "MULTIPLE" /\ previous = "SPECTRUM" -> DefaultOptions(<<3, 4, 5>>)
      [] OTHER -> options
Watch ==
    /\ queued # NoType
    /\ page' = [page EXCEPT !.options = OptionsAfter(queued, page.type, @)]
    /\ queued' = NoType
    /\ UNCHANGED <<filling, applied, changes>>

AddOption == /\ page.type \notin {"BINARY", "SPECTRUM"} /\ Len(page.options) < 6 /\ Change
             /\ page' = [page EXCEPT !.options = Append(@, Option(0))]
RemoveOption(k) == /\ page.type \notin {"BINARY", "SPECTRUM"} /\ Len(page.options) > 2 /\ Change
                   /\ page' = [page EXCEPT !.options = DropAt(@, k)]
EditOption(k) ==
    /\ page.type # "SPECTRUM" /\ Change
    /\ \/ \E text \in 0..2 : page' = [page EXCEPT !.options[k].text = text]
       \/ \E image \in 0..1 : page.type = "IMAGE_MULTIPLE" /\ page' = [page EXCEPT !.options[k].image = image]
\* Every option gets a text of its own, and a picture where the type has pictures.
FillOptions ==
    /\ page.type # "SPECTRUM" /\ Change
    /\ page' = [page EXCEPT !.options = [k \in DOMAIN @ |-> [text |-> k, image |-> IF page.type = "IMAGE_MULTIPLE"
                                                                                THEN 1 ELSE @[k].image]]]

TypeText(n) == /\ Change
               /\ page' \in {[page EXCEPT !.title = n], [page EXCEPT !.description = n]}

\* Choosing an organisation takes the choice of an audience away (watch(canUseFollowersAudience), with
\* nothing between).
ChooseOrg == /\ page.role = "senior partner" /\ Change
             /\ page' = [page EXCEPT !.org = ~@, !.audience = IF page.org THEN @ ELSE "MEMBER_ONLY"]
ChooseAudience(audience) == /\ page.role # "author" /\ ~page.org /\ Change
                            /\ page' = [page EXCEPT !.audience = audience]

\* The source of a block is odd when its label is longer than 100, or its date none: only files have such.
NewBlock(type) == [type |-> type, title |-> 0, content |-> 0, url |-> "none", source |-> "fine"]
AddBlock(type) == /\ Len(page.blocks) < 8 /\ Change
                  /\ page' = [page EXCEPT !.blocks = Append(@, NewBlock(type))]
RemoveBlock(k) == Change /\ page' = [page EXCEPT !.blocks = DropAt(@, k)]
EditBlock(k) ==
    /\ Change
    /\ \/ \E n \in Lengths : page' = [page EXCEPT !.blocks[k].title = n, !.blocks[k].content = n]
       \/ \E url \in {"none", "site", "local", "text"} : page' = [page EXCEPT !.blocks[k].url = url]
       \/ page' = [page EXCEPT !.blocks[k].source = "fine"]

----------------------------------------------------------------------------
\* TopicJsonImporter.validate: lengths are taken without the blanks around a text, of which a file
\* has pad more.

LinkOpens(url) == url \in {"none", "site", "local"}     \* new URL() and its protocol
NotBlank(texts) == SelectSeq(texts, LAMBDA text : text # 0)

LinkGiven(block) == (block.type = "SOURCE" => block.url # "none") /\ LinkOpens(block.url)
Sized(block) == block.title \in 3..120 /\ block.content \in 10..2000

\* Trees of proposed stances: how deep, how many roots, how many under one parent, and the length of a
\* rationale that is given, and of the blanks around it.
NoStances == "none"
Tree(depth, roots, width, rationale, pad) ==
    [depth |-> depth, roots |-> roots, width |-> width, rationale |-> rationale, pad |-> pad]
Trees == [five |-> Tree(5, 1, 2, 10, 0), six |-> Tree(6, 1, 1, 10, 0), many |-> Tree(1, 61, 0, 10, 0),
          wide |-> Tree(2, 1, 21, 10, 0), silent |-> Tree(1, 1, 0, 0, 0), padded |-> Tree(1, 1, 0, 190, 20)]

\* validateStances: at most five levels, 0 to MAX_DEPTH.
StancesValid(stances) == stances # NoStances => Trees[stances].depth <= 5 /\ Trees[stances].rationale <= 200

FileValid(file) ==
    LET texts == NotBlank(file.texts) IN
    /\ file.title \in 10..100
    /\ file.description = 0 \/ file.description \in 20..2000
    /\ file.type = "SPECTRUM" => texts = <<>>
    /\ file.type = "BINARY" => Len(texts) = 2
    /\ file.type = "MULTIPLE" => Len(texts) \in 2..6
    /\ IsInjective(texts)
    /\ Len(file.blocks) <= 8 /\ \A k \in DOMAIN file.blocks : Sized(file.blocks[k]) /\ LinkGiven(file.blocks[k])
    /\ StancesValid(file.stances)

\* validateTopicForm of the API: texts that differ in blanks only pass as different.
DraftValid(draft) ==
    /\ draft.title \in 10..100 /\ draft.description \in 20..2000
    /\ CASE draft.type = "BINARY" -> Len(draft.texts) = 2
         [] draft.type = "MULTIPLE" -> Len(draft.texts) \in 2..6
         [] OTHER -> draft.texts = <<>>
    /\ 0 \notin Range(draft.texts) /\ (draft.pad = 0 => Long \notin Range(draft.texts) /\ IsInjective(draft.texts))
    /\ Len(draft.blocks) <= 8 /\ \A k \in DOMAIN draft.blocks : draft.blocks[k].type # "SOURCE" /\ Sized(draft.blocks[k])

----------------------------------------------------------------------------
\* onApplyImport and applyAiTopicDraft: the texts and the type at once, the rest after nextTick, when
\* the watcher has answered.

TextLength(source, n) == IF n = 0 THEN 0 ELSE n + source.pad
BlocksOf(source) ==
    [k \in DOMAIN source.blocks |-> [source.blocks[k] EXCEPT !.title = TextLength(source, @),
                                                             !.content = TextLength(source, @)]]
IsFile(source) == "stances" \in DOMAIN source

Apply(source) ==
    /\ Event
    /\ page' = [page EXCEPT !.title = TextLength(source, source.title), !.type = source.type,
                            !.description = TextLength(source, source.description)]
    /\ queued' = IF source.type = page.type THEN NoType ELSE page.type
    /\ filling' = {source}

Import(file) == page.role = "author" /\ FileValid(file) /\ Apply(file)
ApplyAiTopicDraft(draft) == DraftValid(draft) /\ Apply(draft)

FillIn(source) ==
    /\ page' = [page EXCEPT !.options = DefaultOptions(source.texts), !.blocks = BlocksOf(source),
                            !.stances = IF IsFile(source) THEN source.stances ELSE @,
                            !.imported = IsFile(source) \/ @]
    /\ filling' = {} /\ applied' = {source}
    /\ UNCHANGED <<queued, changes>>
Fill(source) == queued = NoType /\ FillIn(source)

----------------------------------------------------------------------------
\* validateForm

TextsOf(options) == [k \in DOMAIN options |-> options[k].text]

OptionsComplete(p) ==
    IF p.type = "IMAGE_MULTIPLE"
      THEN Len(p.options) >= 2 /\ \A k \in DOMAIN p.options : p.options[k].image # 0
      ELSE 0 \notin Range(TextsOf(p.options)) /\ IsInjective(TextsOf(p.options))

\* No length has a maximum here: the inputs have, and files and drafts get past them.
Submittable(p) ==
    /\ p.title >= 10
    /\ p.description = 0 \/ p.description >= 20
    /\ p.type # "SPECTRUM" => OptionsComplete(p)
    /\ \A k \in DOMAIN p.blocks : p.blocks[k].title >= 3 /\ p.blocks[k].content >= 10 /\ LinkGiven(p.blocks[k])

----------------------------------------------------------------------------
\* payload and submit: what is sent, and to whom.

Endpoint(p) == CASE p.role = "author" /\ p.imported -> "import"
                 [] p.role = "author" -> "editorial"
                 [] OTHER -> "application"

Payload(p) ==
    [title |-> p.title, description |-> p.description, type |-> p.type,
     texts |-> IF p.type = "SPECTRUM" THEN <<>> ELSE TextsOf(p.options),
     images |-> IF p.type = "IMAGE_MULTIPLE" THEN [k \in DOMAIN p.options |-> p.options[k].image] ELSE <<>>,
     blocks |-> p.blocks, audience |-> p.audience,
     stances |-> IF Endpoint(p) = "import" THEN p.stances ELSE NoStances]

----------------------------------------------------------------------------
\* The API: CreateTopicDto, then each endpoint.  Whether the member may use it, and the category still
\* exists, is not asked here.

BlockAccepted(block) == Sized(block) /\ block.url \in {"none", "site"} /\ block.source = "fine"  \* IsUrl wants a domain

DtoAccepts(dto) ==
    /\ dto.title \in 10..100
    /\ dto.description = 0 \/ dto.description \in 20..2000
    /\ dto.type # "SPECTRUM" => Len(dto.texts) \in 2..6 /\ Long \notin Range(dto.texts)
    /\ Len(dto.blocks) <= 8 /\ \A k \in DOMAIN dto.blocks : BlockAccepted(dto.blocks[k])

\* validateTopicInput and assertOptionImagesLength
TopicInputValid(dto) ==
    LET image == dto.type = "IMAGE_MULTIPLE" IN
    /\ image \/ (0 \notin Range(dto.texts) /\ IsInjective(dto.texts))
    /\ dto.type = "SPECTRUM" => dto.texts = <<>>
    /\ dto.type = "BINARY" => Len(dto.texts) = 2
    /\ dto.type \in {"MULTIPLE", "IMAGE_MULTIPLE"} => Len(dto.texts) \in 2..6
    /\ \A k \in DOMAIN dto.blocks : dto.blocks[k].type = "SOURCE" => dto.blocks[k].url # "none"
    /\ IF image THEN Len(dto.images) = Len(dto.texts) /\ 0 \notin Range(dto.images) ELSE Range(dto.images) \subseteq {0}

\* ImportTopicDto, for its roots and its children, and assertStanceTreeDepth
StancesAccepted(stances) ==
    stances # NoStances =>
        LET tree == Trees[stances] IN
        /\ tree.depth - 1 <= 4 /\ tree.roots <= 60 /\ tree.width <= 20
        /\ tree.rationale + tree.pad \in 1..200

\* createEditorial and importEditorial refuse the title of another topic, submit of a proposal does not.
Accepted(endpoint, dto, org) ==
    /\ DtoAccepts(dto)
    /\ CASE endpoint = "application" -> org => dto.audience # "FOLLOWERS_ONLY"
         [] endpoint = "editorial" -> /\ TopicInputValid(dto) /\ dto.title # Taken
                                      /\ dto.audience # "FOLLOWERS_ONLY"
         [] OTHER -> TopicInputValid(dto) /\ dto.title # Taken /\ StancesAccepted(dto.stances)

Next ==
    \/ \E type \in TopicTypes : ChooseType(type)
    \/ AddOption \/ FillOptions \/ ChooseOrg \/ Watch
    \/ \E k \in DOMAIN page.options : RemoveOption(k) \/ EditOption(k)
    \/ \E n \in Lengths : TypeText(n)
    \/ \E audience \in {"MEMBER_ONLY", "FOLLOWERS_ONLY"} : ChooseAudience(audience)
    \/ \E type \in BlockTypes : AddBlock(type)
    \/ \E k \in DOMAIN page.blocks : RemoveBlock(k) \/ EditBlock(k)
    \/ \E file \in TopicFiles : Import(file)
    \/ \E draft \in TopicDrafts : ApplyAiTopicDraft(draft)
    \/ \E source \in filling : Fill(source)

Spec == Init /\ [][Next]_vars

----------------------------------------------------------------------------
\* Where the page and the API differ, each at a line of its own: links that open but are no IsUrl; odd
\* sources; texts that are too long with the blanks around them; a label of a file longer than 50; the
\* blank options of a file, filled by the author - a third of two, a seventh of six -, trees with too
\* many roots or children, or a rationale that is empty, or too long with its blanks; a title that
\* another topic has.
Differs(p) ==
    LET labels == TextsOf(p.options)
        tree == Trees[p.stances] IN
    \/ \E k \in DOMAIN p.blocks : p.blocks[k].url = "local"
    \/ \E k \in DOMAIN p.blocks : p.blocks[k].source = "odd"
    \/ p.title > 100 \/ p.description > 2000
    \/ \E k \in DOMAIN p.blocks : p.blocks[k].title > 120 \/ p.blocks[k].content > 2000
    \/ p.type # "SPECTRUM" /\ Long \in Range(labels)
    \/ p.type # "SPECTRUM" /\ Len(labels) > 6
    \/ p.type = "BINARY" /\ Len(labels) > 2
    \/ p.stances # NoStances /\ (tree.roots > 60 \/ tree.width > 20)
    \/ p.stances # NoStances /\ tree.rationale + tree.pad \notin 1..200
    \/ p.title = Taken /\ Endpoint(p) # "application"

\* What the page lets its author submit, the API accepts, but for what Differs names, all of which it
\* refuses.
TopicAcceptedIfOffered ==
    Idle /\ Submittable(page) => (Accepted(Endpoint(page), Payload(page), page.org) <=> ~Differs(page))

\* Until the author edits it, what the page sends is the file or the draft that was applied last, with
\* the stances of the last file, whatever type the page had before and however the watcher answers.
AppliedIsSent ==
    Idle => \A source \in applied :
        LET sent == Payload(page) IN
        /\ sent.type = source.type /\ sent.blocks = BlocksOf(source)
        /\ source.type # "SPECTRUM" => sent.texts = source.texts /\ sent.images = <<>>
        /\ IsFile(source) => Endpoint(page) = "import" /\ sent.stances = source.stances
=============================================================================
