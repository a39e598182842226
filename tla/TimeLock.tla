------------------------------ MODULE TimeLock ------------------------------
(***************************************************************************)
(* Time-lock puzzles, the fallback for the release through the KMS: a      *)
(* worker seals a question's key behind t sequential squarings modulo      *)
(* n = p q, t chosen so that they end a safety margin before the target.   *)
(*                                                                         *)
(*   packages/crypto-lifecycle/src/tlp/tlp.service.ts                      *)
(*   workers/tlp-generator/src/{main,tlp,puzzle_verifier}.py               *)
(*                                                                         *)
(* Two callbacks run at a time in one process and share the cached rate.   *)
(* Time is in units of the shortest puzzle (a second in the code).         *)
(***************************************************************************)
EXTENDS Integers, FiniteSets

CONSTANTS
    Workers,        \* the callbacks running at a time (max_messages = 2)
    Msgs,           \* identities of Pub/Sub messages
    Key,            \* the key of every question, as the integer of its bytes
    SafePrimes,     \* the safe primes that may be drawn
    Bases,          \* the random bases that may be drawn
    Rates,          \* squarings per unit of time a benchmark may measure
    Target,         \* target_release_time
    Margin,         \* safety_margin_seconds
    Horizon,        \* bound: the last moment
    MaxFaults,      \* bound: exceptions and crashes
    None

Questions == DOMAIN Key

\* What the constants are assumed to be; the instance for TLC states it.
TimeLockAssumption ==
    /\ Rates \subseteq Nat \ {0} /\ Bases \subseteq Nat /\ Margin \in Nat
    /\ \A p, q \in SafePrimes : p # q => \A k \in Questions : Key[k] < p * q

VARIABLES
    now,
    topic,          \* messages: "none", "exam" and "taken", <<"sent", q>>, "acked"
    status,         \* tlpStatus/current: "none" or "pending"
    service,        \* triggerTlpGeneration: "idle" or "published"
    cached,         \* _squarings_per_sec of the process, None until known
    calibration,    \* exams/{exam}.tlpCalibration.squaringsPerSec
    pc, lease, rate, draft, \* of every callback: phase, message, its rate, puzzle
    puzzles,        \* tlpPuzzles/{question}
    faults
callback == <<pc, lease, rate, draft>>
vars == <<now, topic, status, service, cached, calibration, callback, puzzles, faults>>

Init ==
    /\ now = 0
    /\ topic = [m \in Msgs |-> [state |-> "none", question |-> None]]
    /\ status = "none" /\ service = "idle"
    /\ cached = None
    /\ calibration \in {None} \union Rates
    /\ pc = [w \in Workers |-> "idle"]
    /\ lease = [w \in Workers |-> None]
    /\ rate = [w \in Workers |-> None]
    /\ draft = [w \in Workers |-> None]
    /\ puzzles = [q \in Questions |-> None]
    /\ faults = 0

Tick ==
    /\ now < Horizon
    /\ now' = now + 1
    /\ UNCHANGED <<topic, status, service, cached, calibration, callback, puzzles, faults>>

----------------------------------------------------------------------------
(* The puzzle.                                                              *)

Power(b, e, n) == LET f[k \in 0..e] == IF k = 0 THEN 1 % n ELSE (f[k - 1] * b) % n IN f[e]
Squared(a, t, n) == LET g[k \in 0..t] == IF k = 0 THEN a ELSE (g[k - 1] * g[k - 1]) % n IN g[t]

\* As if the totient were computed as for one prime.
TotientHalf(p, q) == (p - 1) * q

Totient(p, q) == (p - 1) * (q - 1)

\* generate_time_lock_puzzle after the primes are found: the trapdoor reduces
\* the exponent; t was fixed by the time `made`, before the search.
Puzzle(key, p, q, a, t, made, speed) ==
    LET n == p * q
        e == (2 ^ t) % Totient(p, q)
    IN  [n |-> n, a |-> a, t |-> t, cipher |-> (key + Power(a, e, n)) % n,
         made |-> made, rate |-> speed]

\* solve_time_lock_puzzle: t squarings, one after the other.
Solve(z) == (z.cipher - Squared(z.a, z.t, z.n)) % z.n

Squarings(made, speed) ==
    speed * (IF Target - made - Margin > 1 THEN Target - made - Margin ELSE 1)

----------------------------------------------------------------------------
(* Who asks.  Nothing in the repository publishes the message per question  *)
(* the worker reads; TlpService publishes one per exam, without its fields. *)

Publish(m, q) ==
    /\ topic[m].state = "none"
    /\ topic' = [topic EXCEPT ![m] = [state |-> "sent", question |-> q]]
    /\ UNCHANGED <<now, status, service, cached, calibration, callback, puzzles, faults>>

TriggerTlpGeneration(m) ==
    /\ service = "idle" /\ topic[m].state = "none"
    /\ topic' = [topic EXCEPT ![m].state = "sent"]
    /\ service' = "published"
    /\ UNCHANGED <<now, status, cached, calibration, callback, puzzles, faults>>

\* The status follows the message; the worker never writes it again.
RecordStatus ==
    /\ service = "published"
    /\ status' = "pending" /\ service' = "idle"
    /\ UNCHANGED <<now, topic, cached, calibration, callback, puzzles, faults>>

----------------------------------------------------------------------------
(* The worker.                                                              *)

\* Flow control allows as many messages as there are callbacks; a stream that
\* fails is opened again, and a shutdown ends like a crash.
Free(w) == pc[w] = "idle"

Drop(m) ==
    /\ topic[m].state = "sent" /\ topic[m].question = None
    /\ \E w \in Workers : Free(w)
    /\ topic' = [topic EXCEPT ![m].state = "acked"]
    /\ UNCHANGED <<now, status, service, cached, calibration, callback, puzzles, faults>>

Take(w, m) ==
    /\ Free(w) /\ topic[m].state = "sent" /\ topic[m].question # None
    /\ topic' = [topic EXCEPT ![m].state = "taken"]
    /\ lease' = [lease EXCEPT ![w] = m]
    /\ pc' = [pc EXCEPT ![w] = "calibrate"]
    /\ UNCHANGED <<now, status, service, cached, calibration, rate, draft, puzzles, faults>>

\* _get_squarings_per_sec: the cache, the exam's document, or a benchmark,
\* which both callbacks may run at once.
UseCached(w) ==
    /\ pc[w] = "calibrate" /\ cached # None
    /\ rate' = [rate EXCEPT ![w] = cached]
    /\ pc' = [pc EXCEPT ![w] = "clock"]
    /\ UNCHANGED <<now, topic, status, service, cached, calibration, lease, draft, puzzles, faults>>

ReadCalibration(w) ==
    /\ pc[w] = "calibrate" /\ cached = None
    /\ IF calibration # None
       THEN /\ cached' = calibration /\ rate' = [rate EXCEPT ![w] = calibration]
            /\ pc' = [pc EXCEPT ![w] = "clock"]
       ELSE pc' = [pc EXCEPT ![w] = "benchmark"] /\ UNCHANGED <<cached, rate>>
    /\ UNCHANGED <<now, topic, status, service, calibration, lease, draft, puzzles, faults>>

Benchmark(w) ==
    /\ pc[w] = "benchmark"
    /\ cached' \in Rates
    /\ pc' = [pc EXCEPT ![w] = "record"]
    /\ UNCHANGED <<now, topic, status, service, calibration, lease, rate, draft, puzzles, faults>>

\* The global is read again, for the document and for the result.
RecordBenchmark(w) ==
    /\ pc[w] = "record"
    /\ calibration' = cached /\ rate' = [rate EXCEPT ![w] = cached]
    /\ pc' = [pc EXCEPT ![w] = "clock"]
    /\ UNCHANGED <<now, topic, status, service, cached, lease, draft, puzzles, faults>>

Idle(w) ==
    /\ pc' = [pc EXCEPT ![w] = "idle"] /\ lease' = [lease EXCEPT ![w] = None]
    /\ rate' = [rate EXCEPT ![w] = None] /\ draft' = [draft EXCEPT ![w] = None]

\* The clock is read before the primes are searched for.
ReadClock(w) ==
    /\ pc[w] = "clock" /\ now < Target
    /\ draft' = [draft EXCEPT ![w] = now]
    /\ pc' = [pc EXCEPT ![w] = "primes"]
    /\ UNCHANGED <<now, topic, status, service, cached, calibration, lease, rate, puzzles, faults>>

\* "Target time must be in the future": a ValueError, which is acknowledged.
TooLate(w) ==
    /\ pc[w] = "clock" /\ now >= Target
    /\ topic' = [topic EXCEPT ![lease[w]].state = "acked"]
    /\ Idle(w)
    /\ UNCHANGED <<now, status, service, cached, calibration, puzzles, faults>>

\* Two primes, a base; the document of the question is replaced.
Store(w) ==
    /\ pc[w] = "primes"
    /\ \E p, q \in SafePrimes, a \in Bases :
           /\ p # q /\ a < p * q
           /\ LET question == topic[lease[w]].question
              IN  puzzles' = [puzzles EXCEPT ![question] =
                      Puzzle(Key[question], p, q, a, Squarings(draft[w], rate[w]), draft[w], rate[w])]
    /\ pc' = [pc EXCEPT ![w] = "stored"]
    /\ UNCHANGED <<now, topic, status, service, cached, calibration, lease, rate, draft, faults>>

Acknowledge(w) ==
    /\ pc[w] = "stored"
    /\ topic' = [topic EXCEPT ![lease[w]].state = "acked"]
    /\ Idle(w)
    /\ UNCHANGED <<now, status, service, cached, calibration, puzzles, faults>>

\* Any other exception: nack, the message comes again.
Fail(w) ==
    /\ pc[w] # "idle" /\ faults < MaxFaults
    /\ topic' = [topic EXCEPT ![lease[w]].state = "sent"]
    /\ Idle(w) /\ faults' = faults + 1
    /\ UNCHANGED <<now, status, service, cached, calibration, puzzles>>

\* A crash takes both callbacks and the cached rate with it.
Crash ==
    /\ faults < MaxFaults
    /\ topic' = [m \in Msgs |-> IF topic[m].state = "taken" THEN [topic[m] EXCEPT !.state = "sent"]
                                ELSE topic[m]]
    /\ cached' = None
    /\ pc' = [w \in Workers |-> "idle"] /\ lease' = [w \in Workers |-> None]
    /\ rate' = [w \in Workers |-> None] /\ draft' = [w \in Workers |-> None]
    /\ faults' = faults + 1
    /\ UNCHANGED <<now, status, service, calibration, puzzles>>

Next ==
    \/ Tick
    \/ \E m \in Msgs, q \in Questions : Publish(m, q)
    \/ \E m \in Msgs : TriggerTlpGeneration(m) \/ Drop(m)
    \/ RecordStatus
    \/ \E w \in Workers, m \in Msgs : Take(w, m)
    \/ \E w \in Workers :
          \/ UseCached(w) \/ ReadCalibration(w) \/ Benchmark(w) \/ RecordBenchmark(w)
          \/ ReadClock(w) \/ TooLate(w) \/ Store(w) \/ Acknowledge(w) \/ Fail(w)
    \/ Crash

Spec == Init /\ [][Next]_vars

----------------------------------------------------------------------------
(* Property *)

\* Whatever puzzle a question has, after redeliveries, races for the rate and
\* late starts: the squarings give back exactly the question's key, although
\* the generator took the shortcut through the totient; and a solver at the
\* rate it was made for who starts as its clock was read is done neither
\* before the target less the margin nor, unless the minimum of one unit
\* forces it, after it.
PuzzleSealsKey ==
    \A q \in Questions : puzzles[q] # None =>
        LET z == puzzles[q]
            opens == z.rate * z.made + z.t      \* in squarings
        IN  /\ Solve(z) = Key[q]
            /\ z.made < Target
            /\ opens >= z.rate * (Target - Margin)
            /\ opens > z.rate * (Target - Margin) => z.t = z.rate

============================================================================
