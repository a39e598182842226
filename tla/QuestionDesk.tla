--------------------------- MODULE QuestionDesk ---------------------------
(***************************************************************************)
(* The dashboard's question pages and the endpoints of the MVP server they *)
(* call: an administrator has a template generated, edits it, saves it to  *)
(* the bank, and hands in the file of a field test, which a timer turns    *)
(* into parameters.                                                        *)
(*                                                                         *)
(*   admin-dashboard/src/app/admin/questions/{generate,calibrate}/page.tsx *)
(*   admin-dashboard/src/lib/stores/question-store.ts                      *)
(*   mvp-server.js (question endpoints)                                    *)
(*                                                                         *)
(* One tab.  The generated template is in a store that outlives the page;  *)
(* whether it is being edited, and the edited text, are the page's own.    *)
(* Fetches are answered in any order, also after their page was left.  A  *)
(* text is known by the template it was written for, however it is edited. *)
(***************************************************************************)
EXTENDS Naturals, FiniteSets

CONSTANTS
    QuestionIds,    \* the ids the server may draw
    Fetches,        \* what the tab asks of the server, each once
    Absent,
    MaxPages, MaxDeleted    \* bounds: pages opened, questions deleted

\* What the server keeps of a question.
QuestionRecords ==
    [text : QuestionIds, formula : QuestionIds,
     calibration : {"pending", "field_testing", "calibrated"},
     params : BOOLEAN, deleted : BOOLEAN]

\* Absent is null: neither an id nor a question.
ASSUME DeskAssumption ==
    /\ Absent \notin QuestionIds /\ Absent \notin QuestionRecords
    /\ MaxPages \in Nat /\ MaxDeleted \in Nat

VARIABLES
    questions,  \* db.questions
    tests,      \* per question: the timers of field tests that still run
    open, page, \* the page that is open and its number
    template,   \* generatedTemplate of the store
    editing, edited, filled,    \* isEditing, editedText, is the form filled in
    listed,     \* the templates the calibration page has in its table
    uploading, picking, latest, \* uploadingTemplateId, is the file dialog open,
                                \* the last upload of this page
    request,
    overtaken   \* history: a template of a page that was left came in under an edit
form == <<editing, edited, filled>>
table == <<listed, uploading, picking, latest>>
desk == <<questions, tests, open, page, template, form, table, request, overtaken>>

Question(text, formula) ==
    [text |-> text, formula |-> formula, calibration |-> "pending", params |-> FALSE,
     deleted |-> FALSE]

Exists(id) == questions[id] # Absent /\ ~ questions[id].deleted

DeskInit ==
    /\ questions = [id \in QuestionIds |-> Absent] /\ tests = [id \in QuestionIds |-> 0]
    /\ open = "generate" /\ page = 1
    /\ template = Absent /\ editing = FALSE /\ edited = Absent /\ filled = FALSE
    /\ listed = {} /\ uploading = Absent /\ picking = FALSE /\ latest = Absent
    /\ request = [c \in Fetches |-> Absent]
    /\ overtaken = FALSE

----------------------------------------------------------------------------
(* Fetches.                                                                *)

Send(c, kind, text, formula, state) ==
    /\ request[c] = Absent
    /\ request' = [request EXCEPT ![c] =
           [kind |-> kind, page |-> page, text |-> text, formula |-> formula,
            state |-> state, cut |-> FALSE]]

\* isPending, of the page that is open.
Waits(c) == request[c] # Absent /\ request[c].page = page
                /\ request[c].state # "over" /\ ~ request[c].cut
Busy(kind) == \E c \in Fetches : Waits(c) /\ request[c].kind = kind

\* Nothing of a fetch is kept once it is over.
Over == [kind |-> "generate", page |-> 1, text |-> Absent, formula |-> Absent,
         state |-> "over", cut |-> FALSE]

\* The server has answered; nobody hears the answer of one that was cut.
Replied(r, state) == IF r.cut THEN Over ELSE [r EXCEPT !.state = state]

\* The connection fails: the page is told at once, the server may go on.
Cut(c) ==
    /\ request[c] # Absent /\ request[c].state # "over" /\ ~ request[c].cut
    /\ request' = [request EXCEPT ![c] =
           IF request[c].state = "sent" THEN [request[c] EXCEPT !.cut = TRUE] ELSE Over]
    /\ UNCHANGED <<questions, tests, open, page, template, form, table, overtaken>>

----------------------------------------------------------------------------
(* The generation page.                                                     *)

OpenPage(name) ==
    /\ page < MaxPages
    /\ page' = page + 1 /\ open' = name
    /\ editing' = FALSE /\ edited' = Absent /\ filled' = FALSE
    /\ uploading' = Absent /\ picking' = FALSE /\ latest' = Absent
    /\ UNCHANGED <<questions, tests, template, listed, request, overtaken>>

FillForm ==
    /\ open = "generate" /\ filled' = ~filled
    /\ UNCHANGED <<questions, tests, open, page, template, editing, edited, table, request,
                   overtaken>>

\* The form's button validates; Regenerate sends the form as it stands, and
\* the server refuses an empty one.
Generate(c) ==
    /\ open = "generate" /\ ~Busy("generate") /\ (filled \/ template # Absent)
    /\ Send(c, "generate", Absent, Absent, IF filled THEN "sent" ELSE "refused")
    /\ UNCHANGED <<questions, tests, open, page, template, form, table, overtaken>>

Edit ==
    /\ open = "generate" /\ template # Absent /\ ~editing
    /\ edited' = template.text /\ editing' = TRUE
    /\ UNCHANGED <<questions, tests, open, page, template, filled, table, request, overtaken>>

SaveEdit ==
    /\ open = "generate" /\ template # Absent /\ editing
    /\ template' = [template EXCEPT !.text = edited]
    /\ editing' = FALSE
    /\ UNCHANGED <<questions, tests, open, page, edited, filled, table, request, overtaken>>

CancelEdit ==
    /\ open = "generate" /\ template # Absent /\ editing
    /\ editing' = FALSE
    /\ UNCHANGED <<questions, tests, open, page, template, edited, filled, table, request,
                   overtaken>>

\* handleApprove: what is saved is a new question, not the one generated.
ApproveAndSave(c) ==
    /\ open = "generate" /\ template # Absent /\ ~Busy("save")
    /\ Send(c, "save", IF editing THEN edited ELSE template.text, template.formula, "sent")
    /\ UNCHANGED <<questions, tests, open, page, template, form, table, overtaken>>

----------------------------------------------------------------------------
(* The calibration page.                                                    *)

\* The two lists of templates that are not calibrated, fetched again.
ListUncalibrated ==
    /\ open = "calibrate"
    /\ listed' = {id \in QuestionIds :
          Exists(id) /\ questions[id].calibration \in {"pending", "field_testing"}}
    /\ UNCHANGED <<questions, tests, open, page, template, form, uploading, picking, latest,
                   request, overtaken>>

ChooseTemplate(id) ==
    /\ open = "calibrate" /\ ~picking /\ id \in listed
    /\ ~(uploading = id /\ latest # Absent /\ Waits(latest))
    /\ uploading' = id /\ picking' = TRUE
    /\ UNCHANGED <<questions, tests, open, page, template, form, listed, latest, request,
                   overtaken>>

\* The file is dropped when an earlier upload was answered under the dialog.
ChooseFile(c) ==
    /\ picking /\ picking' = FALSE
    /\ IF uploading # Absent
       THEN Send(c, "upload", uploading, Absent, "sent") /\ latest' = c
       ELSE UNCHANGED <<request, latest>>
    /\ UNCHANGED <<questions, tests, open, page, template, form, listed, uploading, overtaken>>

CancelFile ==
    /\ picking /\ picking' = FALSE
    /\ UNCHANGED <<questions, tests, open, page, template, form, listed, uploading, latest,
                   request, overtaken>>

----------------------------------------------------------------------------
(* The server.                                                              *)

Generated(r, id) == Replied([r EXCEPT !.text = id, !.formula = id], "answered")

\* From Gemini or, when that fails, from the stock: stored either way.
HandleGenerate(c) ==
    /\ request[c].kind = "generate"
    /\ \E id \in QuestionIds :
          /\ questions[id] = Absent
          /\ questions' = [questions EXCEPT ![id] = Question(id, id)]
          /\ request' = [request EXCEPT ![c] = Generated(request[c], id)]
    /\ UNCHANGED tests

\* What Gemini answered is no template at all.
GenerationFails(c) ==
    /\ request[c].kind = "generate"
    /\ request' = [request EXCEPT ![c] = Replied(request[c], "refused")]
    /\ UNCHANGED <<questions, tests>>

HandleSave(c) ==
    /\ request[c].kind = "save"
    /\ \E id \in QuestionIds :
          /\ questions[id] = Absent
          /\ questions' = [questions EXCEPT ![id] = Question(request[c].text, request[c].formula)]
    /\ request' = [request EXCEPT ![c] = Replied(request[c], "answered")]
    /\ UNCHANGED tests

HandleUpload(c) ==
    LET id == request[c].text IN
    /\ request[c].kind = "upload"
    /\ IF Exists(id)
       THEN /\ questions' = [questions EXCEPT ![id].calibration = "field_testing"]
            /\ tests' = [tests EXCEPT ![id] = @ + 1]
            /\ request' = [request EXCEPT ![c] = Replied(request[c], "answered")]
       ELSE /\ request' = [request EXCEPT ![c] = Replied(request[c], "refused")]
            /\ UNCHANGED <<questions, tests>>

Handle(c) ==
    /\ request[c] # Absent /\ request[c].state = "sent"
    /\ HandleGenerate(c) \/ GenerationFails(c) \/ HandleSave(c) \/ HandleUpload(c)
    /\ UNCHANGED <<open, page, template, form, table, overtaken>>

\* The timer of a field test, whatever has become of the question meanwhile.
TestEnds(id) ==
    /\ tests[id] > 0
    /\ tests' = [tests EXCEPT ![id] = @ - 1]
    /\ questions' = [questions EXCEPT ![id].calibration = "calibrated", ![id].params = TRUE]
    /\ UNCHANGED <<open, page, template, form, table, request, overtaken>>

\* Mutant: approving leaves the parameters to the field test.
ApproveUntested(id) ==
    /\ Exists(id)
    /\ questions' = [questions EXCEPT ![id].calibration = "calibrated"]
    /\ UNCHANGED <<tests, open, page, template, form, table, request, overtaken>>

\* Two endpoints that the pages do not call.
ApproveQuestion(id) ==
    /\ Exists(id)
    /\ questions' = [questions EXCEPT ![id].calibration = "calibrated", ![id].params = TRUE]
    /\ UNCHANGED <<tests, open, page, template, form, table, request, overtaken>>

DeleteQuestion(id) ==
    /\ questions[id] # Absent
    /\ Cardinality({q \in QuestionIds : questions[q] # Absent /\ ~ Exists(q)}) < MaxDeleted
    /\ questions' = [questions EXCEPT ![id].deleted = TRUE]
    /\ UNCHANGED <<tests, open, page, template, form, table, request, overtaken>>

----------------------------------------------------------------------------
(* Answers: the callbacks of a page that was left still write the store.    *)

\* Mutant: the answer of a generation leaves the page in its edit.
ShowsUnderEdit(c) ==
    /\ request[c].kind = "generate"
    /\ template' = [text |-> request[c].text, formula |-> request[c].formula]
    /\ overtaken' = (overtaken \/ (request[c].page # page /\ editing))
    /\ UNCHANGED <<form, uploading>>

ShowTemplate(c) ==
    /\ request[c].kind = "generate"
    /\ template' = [text |-> request[c].text, formula |-> request[c].formula]
    /\ editing' = (editing /\ request[c].page # page)
    /\ overtaken' = (overtaken \/ (request[c].page # page /\ editing))
    /\ UNCHANGED <<edited, filled, uploading>>

ClearTemplate(c) ==
    /\ request[c].kind = "save"
    /\ template' = Absent
    /\ filled' = (filled /\ request[c].page # page)
    /\ UNCHANGED <<editing, edited, uploading, overtaken>>

EndUpload(c) ==
    /\ request[c].kind = "upload"
    /\ uploading' = IF request[c].page = page THEN Absent ELSE uploading
    /\ UNCHANGED <<template, form, overtaken>>

Hear(c) ==
    /\ request[c] # Absent
    /\ \/ request[c].state = "answered" /\ (ShowTemplate(c) \/ ClearTemplate(c) \/ EndUpload(c))
       \/ request[c].state = "refused" /\ UNCHANGED <<template, form, uploading, overtaken>>
    /\ request' = [request EXCEPT ![c] = Over]
    /\ UNCHANGED <<questions, tests, open, page, listed, picking, latest>>

DeskNext ==
    \/ \E name \in {"generate", "calibrate"} : OpenPage(name)
    \/ FillForm \/ Edit \/ SaveEdit \/ CancelEdit \/ ListUncalibrated \/ CancelFile
    \/ \E id \in QuestionIds : \/ ChooseTemplate(id) \/ TestEnds(id)
                               \/ ApproveQuestion(id) \/ DeleteQuestion(id)
    \/ \E c \in Fetches : \/ Generate(c) \/ ApproveAndSave(c) \/ ChooseFile(c)
                           \/ Handle(c) \/ Hear(c) \/ Cut(c)

DeskSpec == DeskInit /\ [][DeskNext]_desk

----------------------------------------------------------------------------
(* Properties.                                                              *)

Text == QuestionIds \union {Absent}

DeskTypeOK ==
    /\ questions \in [QuestionIds -> {Absent} \union QuestionRecords]
    /\ tests \in [QuestionIds -> Nat]
    /\ open \in {"generate", "calibrate"} /\ page \in 1 .. MaxPages + 1
    /\ template \in {Absent} \union [text : QuestionIds, formula : QuestionIds]
    /\ editing \in BOOLEAN /\ edited \in Text /\ filled \in BOOLEAN
    /\ listed \subseteq QuestionIds /\ uploading \in Text /\ picking \in BOOLEAN
    /\ latest \in Fetches \union {Absent}
    /\ request \in [Fetches -> {Absent} \union
           [kind : {"generate", "save", "upload"}, page : 1 .. MaxPages + 1,
            text : Text, formula : Text,
            state : {"sent", "answered", "refused", "over"}, cut : BOOLEAN]]
    /\ overtaken \in BOOLEAN

\* What is in the bank was made in one piece, however generations, edits and
\* saves, and the pages they were asked on, interleave: a question's text was
\* written for the formula it has, unless the answer of a page that was left
\* came in under an edit (generate/page.tsx); one that counts as calibrated
\* has parameters; and one in a field test has a timer that will end it.
BankIsWhole ==
    \A id \in QuestionIds :
        LET q == questions[id] IN
        q # Absent =>
            /\ q.text = q.formula \/ overtaken
            /\ q.calibration = "calibrated" => q.params
            /\ q.calibration = "field_testing" => tests[id] > 0
=============================================================================
