---------------------------- MODULE AnswerSheet -----------------------------
(***************************************************************************)
(* The answer sheet of the exam terminal: the part of exam-store that      *)
(* keeps the candidate's place and answers, and the components that show   *)
(* it (QuestionDisplay, QuestionGrid, SubmitDialog, ExamTimer in the       *)
(* ExamTerminal component of app/exam/page.tsx).                           *)
(*                                                                         *)
(* A component is drawn again only when a part of the store it selects     *)
(* changes, or when its parent is drawn again.  QuestionDisplay selects    *)
(* the responses and is never out of date.  The grid selects the place and *)
(* the section, the dialog nothing that changes, and both read the         *)
(* statuses through functions of the store: they show the statuses of the  *)
(* moment they were drawn.  Their parent is drawn again with every second  *)
(* on the clock, every popup, and the state of the calculator, the proctor *)
(* and the language, which are one action here, Redraw.                    *)
(*                                                                         *)
(* Abstractions: questions are numbered from 1 and sent under that number, *)
(* as the servers number positions; time spent, which nothing adds, and    *)
(* wording, colours and the screen reader's announcements are left out;    *)
(* the checkpoints, the proctor and the network are ExamTerminal's and     *)
(* ProctoredExam's subject, here a submission only succeeds or fails.      *)
(***************************************************************************)
EXTENDS Naturals, FiniteSets

CONSTANTS
    Sections,     \* section of each question, a sequence
    Options,      \* labels of each question's options, a sequence of sets
    Duration,     \* seconds of the exam
    MaxFailures,  \* bound on failed submissions
    NoChoice      \* selectedChoice: null

Questions == DOMAIN Sections

ASSUME SheetAssumption ==
    /\ 1 \in Questions /\ Questions = 1..Cardinality(Questions)
    /\ DOMAIN Options = Questions
    /\ \A q \in Questions : NoChoice \notin Options[q]
    /\ Duration \in Nat /\ MaxFailures \in Nat

Statuses == {"not-visited", "not-answered", "answered", "review", "review-answered"}

VARIABLES
    screen,         \* active, submitting, submitted or error
    current,        \* currentQuestionIndex
    visited,        \* visitedQuestions
    responses,      \* response of each question that has one
    activeSection,  \* the section whose questions the grid lists
    time,           \* timeRemainingSeconds
    dialog,         \* showSubmitDialog
    grid,           \* statuses the grid shows
    counts,         \* statuses the dialog counts
    sent,           \* payload of the submission under way
    touched,        \* questions answered or reached since the clock moved
    failures        \* what MaxFailures bounds

sheet == <<screen, current, visited, responses, activeSection, time, dialog, grid,
          counts, sent, touched, failures>>

Response(q) ==
    IF q \in DOMAIN responses THEN responses[q]
                              ELSE [choice |-> NoChoice, marked |-> FALSE]

\* getQuestionStatus
StatusIn(seen, given, q) ==
    LET answered == q \in DOMAIN given /\ given[q].choice # NoChoice
        marked == q \in DOMAIN given /\ given[q].marked
    IN  CASE q \notin seen \union DOMAIN given -> "not-visited"
          [] marked /\ answered -> "review-answered"
          [] marked /\ ~answered -> "review"
          [] ~marked /\ answered -> "answered"
          [] OTHER -> "not-answered"

\* getStatusCounts, before it counts.
AllStatuses(seen, given) == [q \in Questions |-> StatusIn(seen, given, q)]

\* getSectionQuestionIndices
Listed == {q \in Questions : Sections[q] = activeSection}

\* The grid is drawn, or the parent with the grid and the dialog in it.
DrawGrid == grid' = AllStatuses(visited', responses')
Draw == DrawGrid /\ counts' = AllStatuses(visited', responses')

\* initializeExam
SheetInit ==
    /\ screen = "active"
    /\ current = 1 /\ visited = {1}
    /\ responses = <<>>
    /\ activeSection = Sections[1]
    /\ time = Duration
    /\ dialog = FALSE
    /\ grid = AllStatuses(visited, responses)
    /\ counts = grid
    /\ sent = <<>>
    /\ touched = {}
    /\ failures = 0

(***************************************************************************)
(* Moving about.  Every move visits the question it reaches.               *)
(***************************************************************************)
\* Mutant of GoTo: the grid does not follow the current question.
GoToUndrawn(q) ==
    /\ current' = q
    /\ visited' = visited \union {q}
    /\ touched' = touched \union {q}
    /\ UNCHANGED <<screen, responses, activeSection, time, dialog, grid, counts, sent, failures>>

GoTo(q) ==
    /\ current' = q
    /\ visited' = visited \union {q}
    /\ touched' = touched \union {q}
    /\ UNCHANGED <<screen, responses, activeSection, time, dialog, counts, sent, failures>>
    /\ IF q = current THEN UNCHANGED grid ELSE DrawGrid

GoToQuestion(q) == screen = "active" /\ GoTo(q)

\* nextQuestion and saveAndNext.
NextQuestion == screen = "active" /\ current + 1 \in Questions /\ GoTo(current + 1)

PreviousQuestion == screen = "active" /\ current - 1 \in Questions /\ GoTo(current - 1)

\* A tab of the grid: it does not leave the current question.
SetActiveSection(section) ==
    /\ screen = "active"
    /\ activeSection' = section
    /\ UNCHANGED <<screen, current, visited, responses, time, dialog, counts, sent, touched,
                   failures>>
    /\ IF section = activeSection THEN UNCHANGED grid ELSE DrawGrid

(***************************************************************************)
(* Answering, at the current question only.                                *)
(***************************************************************************)
Respond(response) ==
    /\ screen = "active"
    /\ responses' = [q \in DOMAIN responses \union {current} |->
                        IF q = current THEN response ELSE responses[q]]
    /\ touched' = touched \union {current}
    /\ UNCHANGED <<screen, current, visited, activeSection, time, dialog, grid, counts,
                   sent, failures>>

SelectChoice(label) == Respond([Response(current) EXCEPT !.choice = label])

ClearResponse == Respond([Response(current) EXCEPT !.choice = NoChoice])

ToggleMarkForReview == Respond([Response(current) EXCEPT !.marked = ~@])

(***************************************************************************)
(* The clock, the parent's other state, and the submission.                *)
(***************************************************************************)
\* A clock that stands at zero draws nothing.
TickTimer ==
    /\ screen = "active" /\ time > 0
    /\ time' = time - 1
    /\ touched' = {}
    /\ UNCHANGED <<screen, current, visited, responses, activeSection, dialog, sent, failures>>
    /\ Draw

Redraw ==
    /\ screen = "active"
    /\ UNCHANGED <<screen, current, visited, responses, activeSection, time, dialog, sent,
                   touched, failures>>
    /\ Draw

\* The "Submit Exam" button, and the ways to close the dialog.  Neither keeps
\* the keyboard away from the question behind it.
ShowDialog(open) ==
    /\ screen = "active"
    /\ dialog' = open
    /\ UNCHANGED <<screen, current, visited, responses, activeSection, time, sent, touched,
                   failures>>
    /\ IF open = dialog THEN UNCHANGED <<grid, counts>> ELSE Draw

\* handleSubmit, from the dialog, the clock or the proctor: the screen is
\* unmounted, and the responses are taken from the store as they are.
HandleSubmit ==
    /\ screen = "active"
    /\ screen' = "submitting"
    /\ sent' = responses
    /\ dialog' = FALSE
    /\ UNCHANGED <<current, visited, responses, activeSection, time, grid, counts, touched,
                   failures>>

SubmissionSucceeds ==
    /\ screen = "submitting"
    /\ screen' = "submitted"
    /\ UNCHANGED <<current, visited, responses, activeSection, time, dialog, grid, counts,
                   sent, touched, failures>>

SubmissionFails ==
    /\ screen = "submitting"
    /\ failures < MaxFailures
    /\ failures' = failures + 1
    /\ screen' = "error"
    /\ sent' = <<>>
    /\ UNCHANGED <<current, visited, responses, activeSection, time, dialog, grid, counts,
                   touched>>

\* "Return to Exam" mounts the screen again over the same store.
RemountScreen ==
    /\ screen = "error"
    /\ screen' = "active"
    /\ UNCHANGED <<current, visited, responses, activeSection, time, dialog, sent, touched,
                   failures>>
    /\ Draw

(***************************************************************************)
(* What the candidate does it with.                                        *)
(***************************************************************************)
\* handleKeyDown: the letter of an option, with or without Ctrl, M without it,
\* and Ctrl with an arrow key.
KeyDown ==
    \/ \E label \in Options[current] : SelectChoice(label)
    \/ ToggleMarkForReview
    \/ NextQuestion
    \/ PreviousQuestion

\* The buttons around the question.  A radio button that is selected does
\* nothing, and Clear is disabled while none is.
QuestionButton ==
    \/ \E label \in Options[current] \ {Response(current).choice} : SelectChoice(label)
    \/ Response(current).choice # NoChoice /\ ClearResponse
    \/ ToggleMarkForReview
    \/ NextQuestion
    \/ PreviousQuestion

GridButton ==
    \/ \E q \in Listed : GoToQuestion(q)
    \/ \E q \in Questions : SetActiveSection(Sections[q])

SheetNext ==
    \/ KeyDown
    \/ QuestionButton
    \/ GridButton
    \/ TickTimer
    \/ Redraw
    \/ \E open \in BOOLEAN : ShowDialog(open)
    \/ HandleSubmit
    \/ SubmissionSucceeds
    \/ SubmissionFails
    \/ RemountScreen

SheetSpec == SheetInit /\ [][SheetNext]_sheet
----------------------------------------------------------------------------
\* What the candidate sees is what is sent.  Away from the current question
\* the grid is never out of date, although it does not follow the responses;
\* the dialog is out of date by what was done since the clock last moved, by
\* the keyboard behind it, and by nothing older; and a submission answers,
\* away from the current question, exactly what the grid showed as answered.
\* Relates exam-store.ts, QuestionGrid.tsx, SubmitDialog.tsx and handleSubmit.
SheetIsShown ==
    LET statuses == AllStatuses(visited, responses)
        answered == {q \in Questions : grid[q] \in {"answered", "review-answered"}}
    IN
    /\ screen = "active" =>
           /\ \A q \in Questions \ {current} : grid[q] = statuses[q]
           /\ \A q \in Questions \ touched : counts[q] = statuses[q]
    /\ screen \in {"submitting", "submitted"} =>
           \A q \in Questions \ {current} :
               q \in answered <=> q \in DOMAIN sent /\ sent[q].choice # NoChoice
=============================================================================
