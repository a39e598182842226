---------------------------- MODULE Calibration ----------------------------
(***************************************************************************)
(* The IRT calibrator: for a question template it fits the parameters of   *)
(* every instantiation from the field-test answers, judges whether the     *)
(* instantiations are equivalent, flags those that are not, and writes the *)
(* results to two tables and to one document per instantiation and one of  *)
(* the template, in that order and with no transaction around them.        *)
(*                                                                         *)
(*   workers/irt-calibrator/src/{main,calibrator,distractor_profile,       *)
(*   irt_model}.py                                                         *)
(*                                                                         *)
(* Parameters are whole numbers.  What the numerical fit makes of the      *)
(* answers is the constant Fits; profiles are known by the data they came  *)
(* from.                                                                   *)
(***************************************************************************)
EXTENDS Integers, FiniteSets, SequencesExt

CONSTANTS
    Insts,          \* the instantiations of every template, a set each
    Fits,           \* after each field test: what fit_3pl returns for every
                    \* instantiation, None with too few answers or no fit
    Epsilon,        \* epsilon_a, epsilon_b, epsilon_c
    CalMsgs,        \* identities of Pub/Sub messages
    MaxCalFaults,   \* bound: exceptions and crashes of the worker
    None

Templates == DOMAIN Insts
AllInsts == UNION {Insts[t] : t \in Templates}

\* An instantiation is of one template; more answers do not undo a fit.
ASSUME CalibrationAssumption ==
    /\ MaxCalFaults \in Nat
    /\ \A t, u \in Templates : t # u => Insts[t] \intersect Insts[u] = {}
    /\ \A t \in Templates : IsFiniteSet(Insts[t])
    /\ Fits \in Seq([AllInsts -> {None} \union [DOMAIN Epsilon -> Int]])
    /\ \A k \in DOMAIN Epsilon : Epsilon[k] \in Int
    /\ None \notin [irt : [DOMAIN Epsilon -> Int], flagged : BOOLEAN] \union Templates
    /\ \A v \in 1..(Len(Fits) - 1), i \in AllInsts : Fits[v][i] # None => Fits[v + 1][i] # None

VARIABLES
    fielded,    \* how many field tests the table of answers holds
    mail,       \* every message: [state, template]
    phase, letter, data, done, \* the worker: phase, message, the field test it
                \* has loaded, the instantiations written in this phase
    irtRows,    \* the rows of irt_parameters: <<instantiation, parameters>>
    profile,    \* instantiations/{i}.distractorProfile: the field test it shows
    verdict,    \* questions/{t}: [equivalent, flagged], None until written
    instDoc,    \* instantiations/{i}: [irt, flagged], None until written
    calFaults
worker == <<phase, letter, data, done>>
stores == <<irtRows, profile, verdict, instDoc>>
calVars == <<fielded, mail, worker, stores, calFaults>>

CalInit ==
    /\ fielded = 0
    /\ mail = [m \in CalMsgs |-> [state |-> "none", template |-> None]]
    /\ phase = "idle" /\ letter = None /\ data = 0 /\ done = {}
    /\ irtRows = {}
    /\ profile = [i \in AllInsts |-> 0]
    /\ verdict = [t \in Templates |-> None]
    /\ instDoc = [i \in AllInsts |-> None]
    /\ calFaults = 0

----------------------------------------------------------------------------
(* Fits and what is made of them.                                           *)

\* The keys of params_by_inst.
Fitted(t, v) == {i \in Insts[t] : v > 0 /\ Fits[v][i] # None}

Spread(S, v, k) == LET of == {Fits[v][i][k] : i \in S}
                   IN  (CHOOSE n \in of : \A m \in of : m <= n) - (CHOOSE n \in of : \A m \in of : n <= m)

\* verify_isomorphic_equivalence, for two instantiations or more.
Equivalent(S, v) == \A k \in DOMAIN Epsilon : Spread(S, v, k) < Epsilon[k]

\* Twice the median: of the values at or below which lies half of them, or more
\* than half, the least ones.
AtMost(S, v, k, n) == Cardinality({i \in S : Fits[v][i][k] <= n})
Least(P) == CHOOSE n \in P : \A m \in P : n <= m
Median2(S, v, k) ==
    LET of == {Fits[v][i][k] : i \in S}
    IN  Least({n \in of : 2 * AtMost(S, v, k, n) >= Cardinality(S)})
        + Least({n \in of : 2 * AtMost(S, v, k, n) > Cardinality(S)})

\* As if the whole tolerance were allowed on either side of the median.
FlaggedWide(S, v) ==
    {i \in S : \E k \in DOMAIN Epsilon :
        LET off == 2 * Fits[v][i][k] - Median2(S, v, k)
        IN  (IF off < 0 THEN -off ELSE off) > 2 * Epsilon[k]}

\* _identify_flagged_instantiations: half the tolerance.
Flagged(S, v) ==
    {i \in S : \E k \in DOMAIN Epsilon :
        LET off == 2 * Fits[v][i][k] - Median2(S, v, k)
        IN  (IF off < 0 THEN -off ELSE off) > Epsilon[k]}

----------------------------------------------------------------------------
(* Around the worker: answers are collected, triggers published.  The one   *)
(* the question service publishes nests its templateId in a payload.        *)

FieldTestRuns ==
    /\ fielded < Len(Fits)
    /\ fielded' = fielded + 1
    /\ UNCHANGED <<mail, worker, stores, calFaults>>

PublishToIrtCalibration(m, t) ==
    /\ mail[m].state = "none"
    /\ mail' = [mail EXCEPT ![m] = [state |-> "sent", template |-> t]]
    /\ UNCHANGED <<fielded, worker, stores, calFaults>>

----------------------------------------------------------------------------
(* The worker.                                                              *)

\* Flow control hands it one message at a time; a stream that fails is opened
\* again, and a shutdown ends like a crash.
Free == phase = "idle"

Settle(state) ==
    /\ mail' = [mail EXCEPT ![letter].state = state]
    /\ phase' = "idle" /\ letter' = None /\ data' = 0 /\ done' = {}

DropMail(m) ==
    /\ Free /\ mail[m].state = "sent" /\ mail[m].template = None
    /\ mail' = [mail EXCEPT ![m].state = "acked"]
    /\ UNCHANGED <<fielded, worker, stores, calFaults>>

TakeMail(m) ==
    /\ Free /\ mail[m].state \in {"sent", "nacked"} /\ mail[m].template # None
    /\ mail' = [mail EXCEPT ![m].state = "taken"]
    /\ phase' = "load" /\ letter' = m
    /\ UNCHANGED <<fielded, data, done, stores, calFaults>>

\* The answers are read once and fitted.
Load ==
    /\ phase = "load" /\ Cardinality(Fitted(mail[letter].template, fielded)) > 1
    /\ data' = fielded /\ phase' = "parameters"
    /\ UNCHANGED <<fielded, mail, letter, done, stores, calFaults>>

\* As if nothing fitted were a reason to try again.
NothingFittedRetried ==
    /\ phase = "load" /\ Fitted(mail[letter].template, fielded) = {}
    /\ Settle("nacked")
    /\ UNCHANGED <<fielded, stores, calFaults>>

\* No answers, or no fit: an error result, and an acknowledgement.
NothingFitted ==
    /\ phase = "load" /\ Fitted(mail[letter].template, fielded) = {}
    /\ Settle("acked")
    /\ UNCHANGED <<fielded, stores, calFaults>>

\* One instantiation: the details lack the ranges the log line wants, and the
\* KeyError sends the message back, every time.
LoneInstantiation ==
    /\ phase = "load" /\ Cardinality(Fitted(mail[letter].template, fielded)) = 1
    /\ Settle("nacked")
    /\ UNCHANGED <<fielded, stores, calFaults>>

Current == Fitted(mail[letter].template, data)

\* The rows are appended, next to those of earlier runs.
WriteParameters ==
    /\ phase = "parameters"
    /\ irtRows' = irtRows \union {<<i, Fits[data][i]>> : i \in Current}
    /\ phase' = "profiles"
    /\ UNCHANGED <<fielded, mail, letter, data, done, profile, verdict, instDoc, calFaults>>

\* One turn of a loop over params_by_inst, in any order; after the last turn
\* comes the next phase.
Handled(i, next) ==
    /\ i \in Current \ done
    /\ done' = IF Current \subseteq done \union {i} THEN {} ELSE done \union {i}
    /\ phase' = IF Current \subseteq done \union {i} THEN next ELSE phase

\* The profile of an instantiation, for its document (and, in one insert
\* before, for the table the collusion detector reads).
WriteProfile ==
    /\ phase = "profiles"
    /\ \E i \in AllInsts : /\ Handled(i, "verdict")
                           /\ profile' = [profile EXCEPT ![i] = data]
    /\ UNCHANGED <<fielded, mail, letter, data, irtRows, verdict, instDoc, calFaults>>

WriteVerdict ==
    /\ phase = "verdict"
    /\ verdict' = [verdict EXCEPT ![mail[letter].template] =
                      [equivalent |-> Equivalent(Current, data),
                       flagged |-> Flagged(Current, data)]]
    /\ phase' = "instantiations"
    /\ UNCHANGED <<fielded, mail, letter, data, done, irtRows, profile, instDoc, calFaults>>

WriteInstantiation ==
    /\ phase = "instantiations"
    /\ \E i \in AllInsts :
          /\ Handled(i, "ack")
          /\ instDoc' = [instDoc EXCEPT ![i] =
                 [irt |-> Fits[data][i], flagged |-> i \in Flagged(Current, data)]]
    /\ UNCHANGED <<fielded, mail, letter, data, irtRows, profile, verdict, calFaults>>

AckMail ==
    /\ phase = "ack"
    /\ Settle("acked")
    /\ UNCHANGED <<fielded, stores, calFaults>>

\* An exception (an insert error among them) or a crash: the message comes
\* again, what was written stays.
Fail ==
    /\ phase # "idle" /\ calFaults < MaxCalFaults
    /\ Settle("nacked") /\ calFaults' = calFaults + 1
    /\ UNCHANGED <<fielded, stores>>

CalStep ==
    \/ Load \/ NothingFitted \/ LoneInstantiation
    \/ WriteParameters \/ WriteProfile \/ WriteVerdict \/ WriteInstantiation \/ AckMail

CalInput ==
    \/ FieldTestRuns
    \/ \E m \in CalMsgs, t \in Templates : PublishToIrtCalibration(m, t)

CalWork == (\E m \in CalMsgs : DropMail(m) \/ TakeMail(m)) \/ CalStep \/ Fail

============================================================================
