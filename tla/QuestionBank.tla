---------------------------- MODULE QuestionBank ----------------------------
(***************************************************************************)
(* The bank of question templates: the service that validates, stores and  *)
(* changes them, and the calibrator it hands them to for field testing.    *)
(*                                                                         *)
(*   packages/question-service/src/templates/templates.service.ts          *)
(*   packages/question-service/src/validation/validation.service.ts        *)
(*                                                                         *)
(* A request reads, checks and writes with awaits between, so requests     *)
(* interleave at them.  A template's content is a function on Content: its *)
(* text, the range of its parameter, its answer formula and the formulas   *)
(* of its distractors.  A formula is a function from the parameter to a    *)
(* value, None where evaluateFormula finds no finite number.               *)
(***************************************************************************)
EXTENDS Calibration

CONSTANTS
    Clients,        \* requests served at a time
    Ids,            \* template ids create may draw
    NewTemplates,   \* what is created: functions on Content and "topic"
    Edits,          \* what is updated: functions on some of the fields
    SimilarTexts,   \* pairs of texts with a cosine similarity of 0.92 or more
    BadTexts,       \* texts with a placeholder no parameter has
    SampleCount,    \* SAMPLE_COUNT: parameter values drawn, beside the bounds
    Plans,          \* the endpoints used in a behaviour
    MaxRequests     \* bound: requests

Content == {"text", "range", "answer", "distractors"}
Fields == Content \union {"topic", "status", "deleted"}

ASSUME BankAssumption ==
    /\ None \notin Ids
    /\ \A t \in NewTemplates : DOMAIN t = Content \union {"topic"} /\ t["range"] \in Int \X Int
    /\ \A e \in Edits : /\ DOMAIN e \subseteq Fields \ {"deleted"}
                        /\ "range" \in DOMAIN e => e["range"] \in Int \X Int

VARIABLES
    plan,       \* the endpoints used (chosen once)
    docs,       \* questions/{id}: a function on Fields, None before create
    req,        \* what every client waits for, None when idle
    requests, writes,   \* history: requests made, documents written
    overlapped, \* history: templates written after someone else had written
    moved       \* history: templates given a topic without their content
bank == <<docs, req, requests, writes, overlapped, moved>>
vars == <<plan, calVars, bank>>

Init ==
    /\ CalInit
    /\ plan \in Plans
    /\ docs = [id \in Ids |-> None]
    /\ req = [c \in Clients |-> None]
    /\ requests = 0 /\ writes = 0 /\ overlapped = {} /\ moved = {}

----------------------------------------------------------------------------
(* Validation                                                               *)

\* generateSamples: how often each parameter value is drawn; the bounds once
\* more than chance has it.
Samples(range) ==
    LET lo == range[1]  hi == range[2]
    IN  {w \in [lo..hi -> 0..(SampleCount + 2)] :
            /\ SumFunction(w) = SampleCount + 2
            /\ w[lo] >= 1 /\ w[hi] >= 1}

Weight(w, S) == SumFunctionOnSet(w, S)

Drawn(w) == {x \in DOMAIN w : w[x] > 0}
Alike(w, f, g) == {x \in Drawn(w) : f[x] # None /\ f[x] = g[x]}

\* validateTemplate for a sample: the range, the answer, the distractors
\* (three, never the answer, no two alike in over nine tenths of the draws),
\* the placeholders.
Valid(t, w) ==
    LET wrong == t["distractors"]
    IN  /\ t["range"][1] < t["range"][2]
        /\ \A x \in Drawn(w) : t["answer"][x] # None
        /\ Len(wrong) = 3
        /\ \A d \in DOMAIN wrong : /\ Alike(w, t["answer"], wrong[d]) = {}
                                   /\ \E x \in Drawn(w) : wrong[d][x] # None
        /\ \A d, e \in DOMAIN wrong :
               d < e => 10 * Weight(w, Alike(w, wrong[d], wrong[e])) <= 9 * (SampleCount + 2)
        /\ t["text"] \notin BadTexts

Similar(t, u) == t = u \/ <<t, u>> \in SimilarTexts \/ <<u, t>> \in SimilarTexts

\* checkDuplicates: the templates of the topic that are not deleted.
Duplicates(text, topic, self) ==
    {id \in Ids \ {self} : /\ docs[id] # None
                           /\ ~ docs[id]["deleted"] /\ docs[id]["topic"] = topic
                           /\ Similar(docs[id]["text"], text)}

----------------------------------------------------------------------------
(* Requests                                                                 *)

Begin(c, request) ==
    /\ req[c] = None /\ requests < MaxRequests
    /\ req' = [req EXCEPT ![c] = request]
    /\ requests' = requests + 1
    /\ UNCHANGED <<plan, calVars, docs, writes, overlapped, moved>>

Reach(c, step) == req' = [req EXCEPT ![c].step = step]
End(c) == req' = [req EXCEPT ![c] = None]

Get(id) == docs[id] # None /\ ~ docs[id]["deleted"]

\* create: validated as it arrives (a request that fails changes nothing).
Create(c) ==
    /\ "create" \in plan
    /\ \E id \in Ids, t \in NewTemplates :
           /\ docs[id] = None /\ \A d \in Clients : req[d] # None => req[d].id # id
           /\ \E w \in Samples(t["range"]) : Valid(t, w)
           /\ Begin(c, [op |-> "create", id |-> id, step |-> "check", dto |-> t,
                        base |-> None, seen |-> writes])

\* As if a new range of the parameter were not a change of the content.
RevalidatedPartly(dto) == DOMAIN dto \intersect {"text", "answer", "distractors"} # {}

\* The updates that are validated again.
Revalidated(dto) == DOMAIN dto \intersect Content # {}

\* update, delete and field test begin with getById.
Read(c, op) ==
    /\ op \in plan
    /\ \E id \in Ids, dto \in (IF op = "update" THEN Edits ELSE {<<>>}) :
           /\ Get(id)
           /\ op = "fieldTest" => docs[id]["status"] \in {"draft", "review"}
           /\ Begin(c, [op |-> op, id |-> id, dto |-> dto, base |-> docs[id], seen |-> writes,
                        step |-> IF Revalidated(dto) THEN "validate" ELSE "write"])

\* The content an update is validated as: new pieces over those it has read.
Merged(r) == [f \in Fields |-> IF f \in DOMAIN r.dto THEN r.dto[f] ELSE r.base[f]]

Validate(c) ==
    /\ req[c] # None /\ req[c].step = "validate"
    /\ \E w \in Samples(Merged(req[c])["range"]) :
           IF Valid(Merged(req[c]), w) THEN Reach(c, "check") ELSE End(c)
    /\ UNCHANGED <<plan, calVars, docs, requests, writes, overlapped, moved>>

Check(c) ==
    /\ req[c] # None /\ req[c].step = "check"
    /\ LET r == req[c]
           new == IF r.op = "create" THEN r.dto ELSE Merged(r)
           self == IF r.op = "create" THEN None ELSE r.id
       IN  IF Duplicates(new["text"], new["topic"], self) = {} THEN Reach(c, "write") ELSE End(c)
    /\ UNCHANGED <<plan, calVars, docs, requests, writes, overlapped, moved>>

\* What the request writes: create a whole document, the others their fields
\* of whatever the document is by now.
Written(r) ==
    LET now == docs[r.id]
    IN  CASE r.op = "create" -> [f \in Fields |-> IF f \in DOMAIN r.dto THEN r.dto[f]
                                                  ELSE IF f = "status" THEN "draft" ELSE FALSE]
          [] r.op = "update" -> [f \in Fields |-> IF f \in DOMAIN r.dto THEN r.dto[f] ELSE now[f]]
          [] r.op = "delete" -> [now EXCEPT !["deleted"] = TRUE]
          [] r.op = "fieldTest" -> [now EXCEPT !["status"] = "field_testing"]

Write(c) ==
    /\ req[c] # None /\ req[c].step = "write"
    /\ LET r == req[c]
       IN  /\ docs' = [docs EXCEPT ![r.id] = Written(r)]
           /\ overlapped' = IF writes # r.seen THEN overlapped \union {r.id} ELSE overlapped
           /\ moved' = IF "topic" \in DOMAIN r.dto /\ DOMAIN r.dto \intersect Content = {}
                       THEN moved \union {r.id} ELSE moved
           /\ IF r.op = "fieldTest" THEN Reach(c, "publish") ELSE End(c)
    /\ writes' = writes + 1
    /\ UNCHANGED <<plan, calVars, requests>>

\* triggerFieldTest publishes last; a failure leaves the status as it is.
PublishFieldTest(c) ==
    /\ req[c] # None /\ req[c].step = "publish"
    /\ \/ \E m \in CalMsgs :
              /\ mail[m].state = "none"
              /\ mail' = [mail EXCEPT ![m].state = "sent"]
       \/ UNCHANGED mail
    /\ End(c)
    /\ UNCHANGED <<plan, fielded, worker, stores, calFaults, docs, requests, writes, overlapped, moved>>

\* The service stops in the middle of a request, or a store refuses a call.
Break(c) ==
    /\ req[c] # None
    /\ End(c)
    /\ UNCHANGED <<plan, calVars, docs, requests, writes, overlapped, moved>>

BankNext ==
    \E c \in Clients :
        \/ Create(c) \/ (\E op \in {"update", "delete", "fieldTest"} : Read(c, op))
        \/ Validate(c) \/ Check(c) \/ Write(c) \/ PublishFieldTest(c) \/ Break(c)

Next == \/ BankNext
        \/ CalWork /\ UNCHANGED <<plan, bank>>
        \/ "calibrate" \in plan /\ CalInput /\ UNCHANGED <<plan, bank>>

\* Pub/Sub redelivers every message again and again, those that were sent
\* back too, and the worker handles what it takes.
Fairness ==
    /\ WF_vars(CalStep /\ UNCHANGED <<plan, bank>>)
    /\ \A m \in CalMsgs : /\ SF_vars(TakeMail(m) /\ UNCHANGED <<plan, bank>>)
                          /\ SF_vars(DropMail(m) /\ UNCHANGED <<plan, bank>>)

Spec == Init /\ [][Next]_vars /\ Fairness

----------------------------------------------------------------------------
(* Properties *)

\* Requests that do not overlap leave a bank that can be used: a template's
\* answer has a value at both ends of its range and no distractor equals it
\* there, however its pieces were changed one at a time; and no two templates
\* of one topic read alike, unless one was moved there without its content.
BankIsSound ==
    \A a \in Ids \ overlapped : Get(a) =>
        /\ \A x \in Range(docs[a]["range"]) :
              /\ docs[a]["answer"][x] # None
              /\ \A d \in DOMAIN docs[a]["distractors"] :
                    docs[a]["distractors"][d][x] # docs[a]["answer"][x]
        /\ \A b \in Duplicates(docs[a]["text"], docs[a]["topic"], a) \ overlapped :
              a \in moved \/ b \in moved

\* When no calibration is half done, the stores tell one story: every
\* instantiation's document has the parameters and the profile of the same
\* field test, is flagged if and only if the template's verdict lists it, and
\* if none is flagged their parameters lie within the tolerances.
FlagsFollowFits ==
    phase = "idle" /\ (\A m \in CalMsgs : mail[m].state # "nacked") =>
        \A t \in Templates : verdict[t] # None =>
            LET written == {i \in Insts[t] : instDoc[i] # None} IN
            /\ written # {}
            /\ \A i \in written : /\ instDoc[i].irt = Fits[profile[i]][i]
                                  /\ instDoc[i].flagged <=> i \in verdict[t].flagged
            /\ verdict[t].flagged = {} =>
                  \A i, j \in written, k \in DOMAIN Epsilon :
                      instDoc[i].irt[k] - instDoc[j].irt[k] <= Epsilon[k]

\* A trigger that was published is settled, through failures, crashes and
\* templates without answers, except while only one instantiation of the
\* template has been fitted: that message comes back for ever.
CalibrationSettles ==
    \A m \in CalMsgs :
        mail[m].state = "sent" ~>
            \/ mail[m].state = "acked"
            \/ mail[m].template # None /\ Cardinality(Fitted(mail[m].template, fielded)) = 1

============================================================================
