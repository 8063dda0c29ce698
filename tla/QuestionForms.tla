---------------------------- MODULE QuestionForms ----------------------------
(***************************************************************************)
(* The forms that write quick questions, surveys and staged topics, and    *)
(* what the API makes of them.  A form (pages quick, survey, staged) holds *)
(* questions edited in TopicQuestionBuilder; questionPayload turns each    *)
(* into a request, the DTO and prepareQuickQuestion accept or refuse it.   *)
(* The rules are written four times - builder, import, DTO, service - and  *)
(* must agree.  Text is a number: 0 is blank, equal numbers equal texts.   *)
(***************************************************************************)
EXTENDS Integers, Sequences, FiniteSets, Functions, TLC

CONSTANTS
    TitleLengths,   \* lengths of titles that are typed
    Sensitive,      \* a text with one of SENSITIVE_WORDS in it; as a title, it is that long
    Taken,          \* the title of this length is the one of a topic that exists
    Weights,        \* what is typed as a weight: Blank, NaN or an integer
    Files,          \* JSON files offered to the import
    Touched,        \* bound: the rows that are edited one by one
    MaxAlone,       \* bound: questions of a survey up to which the first one is edited
    MaxRows,        \* bound: rows of a question up to which they are edited one by one
    MaxEdits        \* bound: edits of a form; rows and questions are added early, and not counted

VARIABLES
    form,           \* the form on the page
    edits           \* bounded number of edits so far

vars == <<form, edits>>

Blank == -1
NaN == -2

\* BUILDER_RULES and DEFAULT_COUNT: rows allowed, and rows a new question starts with.
Rule(min, max, seed) == [min |-> min, max |-> max, seed |-> seed]
BUILDER_RULES ==
    [OPTION |-> Rule(2, 10, 2), IMAGE_OPTION |-> Rule(2, 10, 2), IMAGE_RANK |-> Rule(4, 50, 8),
     MATCHING |-> Rule(2, 6, 3), PUZZLE |-> Rule(2, 4, 3), SCRATCH |-> Rule(2, 9, 4),
     SPIN_WHEEL |-> Rule(2, 8, 4), LOTTERY |-> Rule(2, 10, 5), MULTI_SELECT |-> Rule(2, 10, 3),
     SPECTRUM |-> Rule(0, 0, 0), SHORT_ANSWER |-> Rule(0, 0, 0), STAR_RATING |-> Rule(0, 0, 0),
     LIKERT |-> Rule(0, 0, 0)]

Types == DOMAIN BUILDER_RULES
UsesRows(type) == BUILDER_RULES[type].max > 0
IsImage(type) == type \in {"IMAGE_OPTION", "IMAGE_RANK"}
Least(a, b) == IF a < b THEN a ELSE b

NewRow == [label |-> 0, match |-> 0, weight |-> Blank, image |-> 0]
SeedRows(type) == [i \in 1..BUILDER_RULES[type].seed |-> NewRow]
NewCard == [mode |-> "SHARED", shared |-> 0]
NewQuestion ==
    [title |-> 0, type |-> "OPTION", rows |-> SeedRows("OPTION"), prompt |-> 0, points |-> 5, min |-> 0, max |-> 0,
     maxSelections |-> 1, card |-> NewCard]

\* Surveys start with two questions; the question of the quick page has no title of its own.
NewForm(page) ==
    [page |-> page, title |-> 0, rounds |-> 3,
     questions |-> [i \in 1..(IF page = "survey" THEN 2 ELSE 1) |-> NewQuestion]]

Init ==
    /\ \E page \in {"quick", "survey", "staged"} : form = NewForm(page)
    /\ edits = 0

----------------------------------------------------------------------------
\* Editing.

Spend == edits < MaxEdits /\ edits' = edits + 1
WithQuestion(i, q) == form' = [form EXCEPT !.questions[i] = q]
Reached(i) == i = 1 /\ Len(form.questions) <= MaxAlone
Edited(i) == Reached(i) /\ Len(form.questions[i].rows) <= MaxRows
Drop(s, i) == SubSeq(s, 1, i - 1) \o SubSeq(s, i + 1, Len(s))

TypeTitle(n) == Spend /\ form' = [form EXCEPT !.title = n]
TypeRounds(n) == Spend /\ form.page = "staged" /\ form' = [form EXCEPT !.rounds = n]

\* onBuilderTypeChange: new rows; the number of selections is brought within them.
ChangeType(i, type) ==
    LET q == form.questions[i]
        rows == SeedRows(type) IN
    /\ Reached(i) /\ type # q.type /\ Spend
    /\ WithQuestion(i, [q EXCEPT !.type = type, !.rows = rows,
                                 !.maxSelections = IF type = "MULTI_SELECT" THEN Least(@, Len(rows)) ELSE @])

AddRow(i) ==
    LET q == form.questions[i] IN
    /\ Reached(i) /\ edits <= 1 /\ Len(q.rows) < BUILDER_RULES[q.type].max
    /\ WithQuestion(i, [q EXCEPT !.rows = Append(@, NewRow)])
    /\ UNCHANGED edits

RemoveRow(i, k) ==
    LET q == form.questions[i] IN
    /\ Edited(i) /\ Len(q.rows) > BUILDER_RULES[q.type].min /\ k \in 1..Least(Touched, Len(q.rows)) /\ Spend
    /\ WithQuestion(i, [q EXCEPT !.rows = Drop(@, k),
                                 !.maxSelections = IF q.type = "MULTI_SELECT" THEN Least(@, Len(q.rows) - 1) ELSE @])

\* reorderRows, of the first two.
SwapRows(i) ==
    LET q == form.questions[i] IN
    /\ Edited(i) /\ Len(q.rows) >= 2 /\ Spend
    /\ WithQuestion(i, [q EXCEPT !.rows = [@ EXCEPT ![1] = q.rows[2], ![2] = q.rows[1]]])

\* All the inputs of the questions are filled, with different texts and pictures.
Filled(q) ==
    [q EXCEPT !.title = IF form.page = "quick" THEN @ ELSE 2,
              !.min = IF q.type = "LIKERT" THEN 1 ELSE @, !.max = IF q.type = "LIKERT" THEN 2 ELSE @,
              !.rows = [k \in DOMAIN @ |-> [@[k] EXCEPT !.label = k,
                                               !.match = IF q.type = "MATCHING" THEN k ELSE @,
                                               !.image = IF IsImage(q.type) THEN k ELSE @]]]
FillIn == /\ Spend
          /\ form' = [form EXCEPT !.questions = [i \in DOMAIN @ |-> Filled(@[i])]]

\* One input of one row; the inputs shown depend on the type.
EditRow(i, k) ==
    LET q == form.questions[i]
        Put(row) == WithQuestion(i, [q EXCEPT !.rows[k] = row]) IN
    /\ Edited(i) /\ k \in 1..Least(Touched, Len(q.rows)) /\ Spend
    /\ \/ \E text \in (0..Touched) \cup {Sensitive} : Put([q.rows[k] EXCEPT !.label = text])
       \/ \E text \in (0..Touched) \cup {Sensitive} : q.type = "MATCHING" /\ Put([q.rows[k] EXCEPT !.match = text])
       \/ \E w \in Weights : q.type \in {"SPIN_WHEEL", "SCRATCH"} /\ Put([q.rows[k] EXCEPT !.weight = w])
       \/ \E picture \in 0..Touched :
             /\ IsImage(q.type) \/ (q.type = "SCRATCH" /\ q.card.mode = "PER_RESULT")
             /\ Put([q.rows[k] EXCEPT !.image = picture])

\* The settings of the other types.
EditSettings(i) ==
    LET q == form.questions[i] IN
    /\ Edited(i) /\ Spend
    /\ \/ \E n \in TitleLengths : form.page # "quick" /\ WithQuestion(i, [q EXCEPT !.title = n])
       \/ q.type = "LIKERT" /\ \E n \in 3..10 : WithQuestion(i, [q EXCEPT !.points = n])
       \/ q.type = "LIKERT" /\ \E text \in (0..2) \cup {Sensitive} : WithQuestion(i, [q EXCEPT !.max = text])
       \/ q.type = "MULTI_SELECT" /\ \E n \in 1..Len(q.rows) : WithQuestion(i, [q EXCEPT !.maxSelections = n])
       \/ q.type = "SHORT_ANSWER" /\ \E text \in {1, Sensitive} : WithQuestion(i, [q EXCEPT !.prompt = text])
       \/ q.type = "SCRATCH" /\ \E mode \in {"SHARED", "PER_RESULT"} : WithQuestion(i, [q EXCEPT !.card.mode = mode])
       \/ q.type = "SCRATCH" /\ q.card.mode = "SHARED" /\ WithQuestion(i, [q EXCEPT !.card.shared = 1])

AddQuestion ==
    /\ form.page = "survey" /\ edits <= 1 /\ Len(form.questions) < 20
    /\ form' = [form EXCEPT !.questions = Append(@, NewQuestion)]
    /\ UNCHANGED edits

RemoveQuestion(i) ==
    /\ form.page = "survey" /\ Len(form.questions) > 2 /\ Spend
    /\ form' = [form EXCEPT !.questions = Drop(@, i)]

----------------------------------------------------------------------------
\* Drafts (draftSerializer.ts): quick and survey forms are saved under a version and a name of form.

Saved(f) == [version |-> 1, form |-> f.page, title |-> f.title, questions |-> f.questions]

LoadedQuestion(q) == [q EXCEPT !.maxSelections = IF @ < 1 THEN 1 ELSE @]
\* applyQuickPayload and applySurveyPayload refuse what they do not know.
Loadable(saved, page) ==
    /\ saved.version = 1 /\ saved.form = page
    /\ Len(saved.questions) \in 1..20
    /\ \A i \in DOMAIN saved.questions :
          UsesRows(saved.questions[i].type) => Len(saved.questions[i].rows) > 0

Loaded(saved) ==
    [NewForm(saved.form) EXCEPT !.title = saved.title,
                                !.questions = [i \in DOMAIN saved.questions |-> LoadedQuestion(saved.questions[i])]]

----------------------------------------------------------------------------
\* Import (parseQuickImport): a file gives a type, rows without pictures and some of the settings.

Given(record, field, otherwise) == IF field \in DOMAIN record THEN record[field] ELSE otherwise

FileRowsValid(file) ==
    LET rows == Given(file, "rows", <<>>)
        labels == [i \in DOMAIN rows |-> rows[i].label]
        matches == [i \in DOMAIN rows |-> rows[i].match] IN
    /\ Len(rows) \in BUILDER_RULES[file.type].min..BUILDER_RULES[file.type].max
    /\ IsImage(file.type) \/ (0 \notin Range(labels) /\ IsInjective(labels))
    /\ file.type = "MATCHING" => 0 \notin Range(matches) /\ IsInjective(matches)
    /\ file.type \in {"SPIN_WHEEL", "SCRATCH"} =>
          (\A i \in DOMAIN rows : rows[i].weight = Blank) \/ (\A i \in DOMAIN rows : rows[i].weight > 0)

FileValid(file) ==
    LET ends == {f \in {"min", "max"} : f \in DOMAIN file} IN
    /\ UsesRows(file.type) => FileRowsValid(file)
    /\ Given(file, "points", 5) \in 3..10
    /\ ends # {} => Cardinality(ends) = 2 /\ file.min # 0 /\ file.max # 0 /\ file.min # file.max
    /\ Given(file, "maxSelections", 1) >= 1
    /\ file.type = "MULTI_SELECT" => Given(file, "maxSelections", 1) <= Len(file.rows)

Imported(file) ==
    LET weighted == file.type \in {"SPIN_WHEEL", "SCRATCH"}
        rows == IF UsesRows(file.type) THEN file.rows ELSE <<>> IN
    [NewQuestion EXCEPT
        !.type = file.type,
        !.rows = [i \in DOMAIN rows |-> [NewRow EXCEPT !.label = rows[i].label,
                                            !.match = IF file.type = "MATCHING" THEN rows[i].match ELSE 0,
                                            !.weight = IF weighted THEN rows[i].weight ELSE Blank]],
        !.points = Given(file, "points", 5),
        !.min = Given(file, "min", 0), !.max = Given(file, "max", 0),
        !.maxSelections = Given(file, "maxSelections", 1),
        !.card.mode = IF file.type = "SCRATCH" THEN Given(file, "mode", "SHARED") ELSE "SHARED"]

Import(file) ==
    /\ form.page = "quick" /\ FileValid(file) /\ Spend
    /\ form' = [form EXCEPT !.title = Given(file, "title", @), !.questions[1] = Imported(file)]

\* buildQuickImportExample: the file a member may download for a type.
Example(type) ==
    [title |-> 11, type |-> type] @@
    (IF UsesRows(type)
       THEN [rows |-> [i \in 1..BUILDER_RULES[type].seed |->
                         [label |-> i, match |-> IF type = "MATCHING" THEN i ELSE 0,
                          weight |-> IF type \in {"SPIN_WHEEL", "SCRATCH"} THEN 1 ELSE Blank]]]
       ELSE <<>>) @@
    (IF type = "LIKERT" THEN [points |-> 5, min |-> 1, max |-> 2] ELSE <<>>) @@
    (IF type = "MULTI_SELECT" THEN [maxSelections |-> 2] ELSE <<>>)

Examples == {Example(type) : type \in Types}

Next ==
    \/ \E n \in TitleLengths : TypeTitle(n)
    \/ \E n \in {2, 10} : TypeRounds(n)
    \/ AddQuestion \/ FillIn
    \/ \E file \in Files \cup Examples : Import(file)
    \/ \E i \in DOMAIN form.questions :
          \/ AddRow(i) \/ SwapRows(i) \/ EditSettings(i) \/ RemoveQuestion(i)
          \/ \E t \in Types : ChangeType(i, t)
          \/ \E k \in 1..Touched : RemoveRow(i, k) \/ EditRow(i, k)

Spec == Init /\ [][Next]_vars

----------------------------------------------------------------------------
\* What the page submits (TopicQuestionBuilder.validate and validateForm of the pages).

LabelsOf(rows) == [k \in DOMAIN rows |-> rows[k].label]
MatchesOf(rows) == [k \in DOMAIN rows |-> rows[k].match]
WeightsOf(rows) == [k \in DOMAIN rows |-> rows[k].weight]
ImagesOf(rows) == [k \in DOMAIN rows |-> rows[k].image]

RowsComplete(q) ==
    /\ Len(q.rows) \in BUILDER_RULES[q.type].min..BUILDER_RULES[q.type].max
    /\ IF IsImage(q.type) THEN 0 \notin Range(ImagesOf(q.rows))
                          ELSE 0 \notin Range(LabelsOf(q.rows)) /\ IsInjective(LabelsOf(q.rows))
    /\ q.type = "MATCHING" => 0 \notin Range(MatchesOf(q.rows)) /\ IsInjective(MatchesOf(q.rows))
    /\ q.type = "SPIN_WHEEL" =>
          Range(WeightsOf(q.rows)) = {Blank} \/ (\A w \in Range(WeightsOf(q.rows)) : w >= 1)
    /\ q.type = "SCRATCH" => \A w \in Range(WeightsOf(q.rows)) : w = Blank \/ w >= 1

Complete(q, titled) ==
    /\ titled => q.title >= 2
    /\ q.type = "LIKERT" => q.points \in 3..10 /\ q.min # 0 /\ q.max # 0 /\ q.min # q.max
    /\ UsesRows(q.type) => RowsComplete(q)
    /\ q.type = "MULTI_SELECT" => q.maxSelections \in 1..Len(q.rows)

Submittable(f) ==
    /\ f.title >= 5
    /\ f.page = "staged" => f.rounds \in 2..10
    /\ \A i \in DOMAIN f.questions : Complete(f.questions[i], f.page # "quick")

----------------------------------------------------------------------------
\* The request (questionPayload).  A field that is not sent is not in its domain.

BackendType(q) ==
    CASE q.type = "OPTION" -> IF Cardinality({k \in DOMAIN q.rows : q.rows[k].label # 0}) = 2
                                THEN "BINARY" ELSE "MULTIPLE"
      [] q.type = "IMAGE_OPTION" -> "IMAGE_MULTIPLE"
      [] OTHER -> q.type

\* Number(''): a blank weight is the number 0.
AsNumber(w) == IF w = Blank THEN 0 ELSE w

Sent(condition, field, value) == IF condition THEN field :> value ELSE <<>>

ScratchResultWithImage(q, k) ==
    [label |-> q.rows[k].label] @@
    Sent(q.rows[k].image # 0, "image", q.rows[k].image) @@
    Sent(q.rows[k].weight > 0, "weight", q.rows[k].weight)

ScratchResult(q, k) ==
    [label |-> q.rows[k].label] @@
    Sent(q.card.mode = "PER_RESULT" /\ q.rows[k].image # 0, "image", q.rows[k].image) @@
    Sent(q.rows[k].weight > 0, "weight", q.rows[k].weight)
ScratchCard(q) ==
    [mode |-> q.card.mode, results |-> [k \in DOMAIN q.rows |-> ScratchResult(q, k)]] @@
    Sent(q.card.mode = "SHARED" /\ q.card.shared # 0, "shared", q.card.shared)

Payload(q) ==
    LET numbers == [k \in DOMAIN q.rows |-> AsNumber(q.rows[k].weight)] IN
    [title |-> q.title, topicType |-> BackendType(q)] @@
    Sent(UsesRows(q.type) /\ q.type # "SCRATCH", "options", LabelsOf(q.rows)) @@
    Sent(IsImage(q.type), "optionImages", ImagesOf(q.rows)) @@
    Sent(q.type = "MATCHING", "matches", MatchesOf(q.rows)) @@
    Sent(q.type = "SPIN_WHEEL" /\ NaN \notin Range(numbers), "weights", numbers) @@
    Sent(q.type = "SHORT_ANSWER" /\ q.prompt # 0, "prompt", q.prompt) @@
    Sent(q.type = "LIKERT", "scale", <<q.points, q.min, q.max>>) @@
    Sent(q.type = "MULTI_SELECT", "maxSelections", q.maxSelections) @@
    Sent(q.type = "SCRATCH", "scratchCard", ScratchCard(q))

\* submit: the body that is posted to /topics/quick, /topics/surveys or /topics/staged.
Request(f) ==
    [page |-> f.page, title |-> f.title, rounds |-> f.rounds,
     questions |-> [i \in DOMAIN f.questions |-> Payload(f.questions[i])]]

----------------------------------------------------------------------------
\* What the API accepts: CreateQuickTopicDto and CreateSurveyQuestionDto, then prepareQuickQuestion.

CardDtoAccepts(card) ==
    /\ Len(card.results) \in 2..9
    /\ \A k \in DOMAIN card.results : card.results[k].label # 0 /\ Given(card.results[k], "weight", 1) >= 1

DtoAccepts(dto) ==
    /\ Len(Given(dto, "options", <<>>)) <= 50
    /\ Len(Given(dto, "matches", <<>>)) <= 10 /\ 0 \notin Range(Given(dto, "matches", <<>>))
    /\ Len(Given(dto, "weights", <<>>)) <= 10
    /\ \A w \in Range(Given(dto, "weights", <<>>)) : w >= 1
    /\ "scale" \in DOMAIN dto => dto.scale[1] \in 3..10
    /\ Given(dto, "maxSelections", 1) \in 1..10
    /\ "scratchCard" \in DOMAIN dto => CardDtoAccepts(dto.scratchCard)

\* How many options each type may have.
OptionLimits(type) ==
    CASE type = "BINARY" -> 2..2
      [] type = "MATCHING" -> 2..6
      [] type = "PUZZLE" -> 2..4
      [] type = "SPIN_WHEEL" -> 2..8
      [] type = "IMAGE_RANK" -> 4..50
      [] type \in {"SPECTRUM", "SHORT_ANSWER"} -> 0..0
      [] OTHER -> 2..10

\* assertClean, of several texts
Clean(texts) == Sensitive \notin texts

\* prepareScratchCard
PrepareCard(dto) ==
    LET card == dto.scratchCard
        results == card.results IN
    /\ {"options", "optionImages", "matches", "weights"} \cap DOMAIN dto = {}
    /\ card.mode = "PER_RESULT" => Given(card, "shared", 0) = 0
    /\ card.mode = "SHARED" => \A k \in DOMAIN results : Given(results[k], "image", 0) = 0
    /\ Clean({results[k].label : k \in DOMAIN results})
    /\ IsInjective([k \in DOMAIN results |-> results[k].label])

\* Filtered by what is sent: labels and matches that are not blank, weights above 0.
Nonzero(s) == SelectSeq(s, LAMBDA x : x > 0)
IsImageDto(dto) == dto.topicType \in {"IMAGE_MULTIPLE", "IMAGE_RANK"}

OptionLabels(dto) ==
    CASE dto.topicType = "STAR_RATING" -> [k \in 1..5 |-> k]
      [] dto.topicType = "LIKERT" -> [k \in 1..dto.scale[1] |-> k]
      [] OTHER -> Given(dto, "options", <<>>)

\* assertOptionImagesLength
ImagesAccepted(dto) ==
    LET images == Given(dto, "optionImages", <<>>) IN
    IF IsImageDto(dto) THEN Len(images) = Len(Given(dto, "options", <<>>)) /\ 0 \notin Range(images)
                       ELSE Range(images) \subseteq {0}

PrepareOptions(dto) ==
    LET labels == OptionLabels(dto)
        matches == Nonzero(Given(dto, "matches", <<>>))
        weights == Nonzero(Given(dto, "weights", <<>>)) IN
    /\ "scratchCard" \notin DOMAIN dto
    /\ Clean(Range(labels))
    /\ IsImageDto(dto) \/ (0 \notin Range(labels) /\ IsInjective(labels))
    /\ ImagesAccepted(dto)
    /\ Len(labels) \in OptionLimits(dto.topicType)
    /\ dto.topicType = "LIKERT" => /\ dto.scale[2] # 0 /\ dto.scale[3] # 0 /\ dto.scale[2] # dto.scale[3]
                                   /\ Clean({dto.scale[2], dto.scale[3]})
    /\ dto.topicType = "MULTI_SELECT" => Given(dto, "maxSelections", 0) \in 1..Len(labels)
    /\ dto.topicType = "MATCHING" => Len(matches) = Len(labels) /\ Clean(Range(matches))
    /\ dto.topicType = "SPIN_WHEEL" => Len(weights) \in {0, Len(labels)}
    /\ IsInjective(matches)

QuestionAccepted(dto) ==
    DtoAccepts(dto) /\ IF dto.topicType = "SCRATCH" THEN PrepareCard(dto) ELSE PrepareOptions(dto)

\* CreateQuickTopicDto, CreateSurveyDto and CreateStagedTopicDto, then createQuick, createSurvey and
\* createStaged, for a senior member while the category exists.
Accepted(request) ==
    /\ request.title \in 5..100 /\ Clean({request.title}) /\ request.title # Taken
    /\ request.page = "survey" => Len(request.questions) \in 2..20
    /\ request.page = "staged" => request.rounds \in 2..10
    /\ \A i \in DOMAIN request.questions :
          /\ request.page # "quick" => request.questions[i].title \in 2..100 /\ Clean({request.questions[i].title})
          /\ QuestionAccepted(request.questions[i])

\* The rows prepareQuickQuestion and prepareScratchCard return.
Stored(dto) ==
    IF dto.topicType = "SCRATCH"
      THEN LET card == dto.scratchCard IN
           [k \in DOMAIN card.results |->
              [label |-> card.results[k].label, match |-> 0, weight |-> Given(card.results[k], "weight", 1),
               image |-> IF card.mode = "SHARED" THEN Given(card, "shared", 0) ELSE Given(card.results[k], "image", 0)]]
      ELSE LET labels == OptionLabels(dto)
               matches == Nonzero(Given(dto, "matches", <<>>))
               weights == Nonzero(Given(dto, "weights", <<>>)) IN
           [k \in DOMAIN labels |->
              [label |-> labels[k],
               match |-> IF ~IsImageDto(dto) /\ Len(matches) = Len(labels) THEN matches[k] ELSE 0,
               weight |-> IF ~IsImageDto(dto) /\ Len(weights) = Len(labels) THEN weights[k] ELSE 0,
               image |-> IF IsImageDto(dto) THEN dto.optionImages[k] ELSE 0]]

----------------------------------------------------------------------------
\* The builder tells the author that a wheel may be left without weights.
BlankWheel(q) == q.type = "SPIN_WHEEL" /\ Range(WeightsOf(q.rows)) = {Blank}

\* The texts of a question that are looked through for sensitive words: all that answers it, and its
\* own title; the prompt of a short answer is not.
Texts(q) ==
    UNION {Range(LabelsOf(q.rows)),
           IF form.page # "quick" THEN {q.title} ELSE {},
           IF q.type = "MATCHING" THEN Range(MatchesOf(q.rows)) ELSE {},
           IF q.type = "LIKERT" THEN {q.min, q.max} ELSE {}}

\* What a page lets its author submit, the API accepts, but for what the pages cannot know or do not say:
\* a wheel without weights, which the page offers and the API refuses, a title that another topic has,
\* and sensitive words.
AcceptedIfOffered ==
    Submittable(form) =>
        (Accepted(Request(form)) <=>
            /\ Sensitive \notin {form.title} \cup UNION {Texts(form.questions[i]) : i \in DOMAIN form.questions}
            /\ form.title # Taken
            /\ \A i \in DOMAIN form.questions : ~BlankWheel(form.questions[i]))

\* What is stored is what the rows of the form show, row by row: each label keeps its own match,
\* weight and picture; pictures that the mode of a scratch card hides are not stored.
RowsShown(q) ==
    [k \in DOMAIN q.rows |->
        [label |-> q.rows[k].label, match |-> q.rows[k].match,
         weight |-> CASE q.type = "SCRATCH" /\ q.rows[k].weight = Blank -> 1
                      [] q.type \in {"SPIN_WHEEL", "SCRATCH"} -> q.rows[k].weight
                      [] OTHER -> 0,
         image |-> IF q.type = "SCRATCH" /\ q.card.mode = "SHARED" THEN q.card.shared ELSE q.rows[k].image]]

StoredAsShown ==
    Submittable(form) /\ Accepted(Request(form)) => \A i \in DOMAIN form.questions :
        LET q == form.questions[i] IN
        UsesRows(q.type) => Stored(Payload(q)) = RowsShown(q)

\* A form that is saved can be loaded again on its own page, as it was; a file that is imported
\* lacks nothing but pictures, the title and the ends of the scale; the examples can be imported.
Lacks(q) == IsImage(q.type) \/ (q.type = "LIKERT" /\ q.min = 0)
FilesFit ==
    /\ \A file \in Examples : FileValid(file)
    /\ \A file \in Files : FileValid(file) => Lacks(Imported(file)) \/ Complete(Imported(file), FALSE)
FormsComeBack ==
    /\ edits = 0 => FilesFit          \* about constants: once is enough
    /\ form.page # "staged" => Loadable(Saved(form), form.page) /\ Loaded(Saved(form)) = form
=============================================================================
