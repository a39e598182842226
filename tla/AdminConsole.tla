---------------------------- MODULE AdminConsole ----------------------------
(***************************************************************************)
(* A page of the admin dashboard that starts a job of the MVP server and    *)
(* watches it until it is done: the matrix, the encryption or the collusion *)
(* page, whichever job the plan names.                                      *)
(*                                                                          *)
(*   packages/admin-dashboard/src/app/admin/exams/[id]/                     *)
(*       {matrix,encrypt,collusion}/page.tsx                                *)
(*   packages/admin-dashboard/src/lib/api.ts, components/providers.tsx      *)
(*                                                                          *)
(* The page owns a query (the status, kept in a cache that outlives the     *)
(* page) and a mutation (the trigger); other tabs and people trigger the    *)
(* job too.  No server of the repository has a socket for its live updates. *)
(* Of the status only what the page decides by is kept.                     *)
(***************************************************************************)
EXTENDS MvpExam

CONSTANT MaxConsoleFaults   \* bound: requests that fail after their retries

VARIABLES
    open,           \* the page is mounted
    data,           \* the cached status, None before the first answer
    invalidated,    \* the cache has been told that the status is out of date
    fetch,          \* the query's request: "none", "asked" or the answer under way
    calls,          \* trigger requests in flight: [handled, own]
    told,           \* history: a trigger was answered and the status asked for
    lost,           \* history: a request failed and nothing asks again
    consoleFaults
page == <<open, data, invalidated, fetch, calls, told, lost, consoleFaults>>

Pages == {"matrix", "encrypt", "collusion"}
Job == CHOOSE j \in Pages : j \in plan
Watched == "console" \in plan

Steps == {EncryptSteps[i] : i \in DOMAIN EncryptSteps}
Unfinished == ({"running"} \union Steps) \ {"completed"}
Statuses == Unfinished \union {"idle", "completed"}

ConsoleInit ==
    /\ Init
    /\ open = FALSE /\ data = None /\ invalidated = FALSE /\ fetch = "none"
    /\ calls = <<>> /\ told = FALSE /\ lost = FALSE /\ consoleFaults = 0

-----------------------------------------------------------------------------
(* The server's side.                                                      *)

AfterEncryption ==
    {"ENCRYPTED", "DISTRIBUTED", "ACTIVE", "COMPLETED", "COLLUSION_CHECK", "EQUATING",
     "RESULTS_PUBLISHED"}
AfterMatrix == AfterEncryption \union {"MATRIX_COMPLETE", "ENCRYPTING"}

\* Without a job record the exam's status is what there is to go by.
Inferred(later) == IF status \in later THEN "completed" ELSE "idle"

\* GET matrix/status, keys/status and collusion/results.
Reported ==
    CASE Job = "matrix"    -> IF matrix = None THEN Inferred(AfterMatrix) ELSE matrix.state
      [] Job = "encrypt"   -> IF encryption = None THEN Inferred(AfterEncryption)
                              ELSE encryption.step
      [] Job = "collusion" -> IF collusion = None THEN "idle" ELSE collusion

ServeFetch ==
    /\ fetch = "asked" /\ fetch' = Reported
    /\ UNCHANGED <<vars, open, data, invalidated, calls, told, lost, consoleFaults>>

\* POST matrix, encrypt and collusion/run.
ServeTrigger(i) ==
    /\ ~calls[i].handled
    /\ \/ Job = "matrix" /\ TriggerMatrix
       \/ Job = "encrypt" /\ TriggerEncrypt
       \/ Job = "collusion" /\ TriggerCollusion
    /\ calls' = [calls EXCEPT ![i].handled = TRUE]
    /\ UNCHANGED <<open, data, invalidated, fetch, told, lost, consoleFaults>>

-----------------------------------------------------------------------------
(* The query.                                                              *)

\* Mounting asks, unless a request is under way or the cache is fresh: less
\* than 30 seconds old and not invalidated.
OpenPage ==
    /\ Watched /\ ~open /\ open' = TRUE
    /\ \/ fetch' = IF fetch = "none" THEN "asked" ELSE fetch
       \/ data # None /\ ~invalidated /\ fetch' = fetch
    /\ lost' = FALSE
    /\ UNCHANGED <<vars, data, invalidated, calls, told, consoleFaults>>

\* The requests go on without the page; its trigger is no longer its own.
ClosePage ==
    /\ open /\ open' = FALSE
    /\ calls' = [i \in DOMAIN calls |-> [calls[i] EXCEPT !.own = FALSE]]
    /\ told' = FALSE
    /\ UNCHANGED <<vars, data, invalidated, fetch, lost, consoleFaults>>

\* After five minutes without a page the cache drops the status.
Collect ==
    /\ ~open /\ fetch = "none" /\ data # None
    /\ data' = None /\ invalidated' = FALSE
    /\ UNCHANGED <<vars, open, fetch, calls, told, lost, consoleFaults>>

\* Mutant of RefetchInterval: only the first step of a job is watched.
RefetchFirstStep(d) == d \in {"running", "encrypting"}

\* refetchInterval: the encryption page also asks again without any data.
RefetchInterval(d) == d \in Unfinished \/ (d = None /\ Job = "encrypt")

Poll ==
    /\ open /\ fetch = "none" /\ RefetchInterval(data)
    /\ fetch' = "asked" /\ lost' = FALSE
    /\ UNCHANGED <<vars, open, data, invalidated, calls, told, consoleFaults>>

FetchArrives ==
    /\ fetch \in Statuses
    /\ data' = fetch /\ fetch' = "none" /\ invalidated' = FALSE /\ told' = FALSE
    /\ UNCHANGED <<vars, open, calls, lost, consoleFaults>>

\* The request and its two retries fail: the cached status stays.
FetchFails ==
    /\ fetch # "none" /\ consoleFaults < MaxConsoleFaults
    /\ consoleFaults' = consoleFaults + 1
    /\ fetch' = "none" /\ told' = FALSE
    /\ lost' = ~RefetchInterval(data)
    /\ UNCHANGED <<vars, open, data, invalidated, calls>>

-----------------------------------------------------------------------------
(* The mutation.                                                           *)

\* The button: not while this page's trigger is pending or a job runs.
Press ==
    /\ open /\ data \in {None, "idle"}
    /\ \A i \in DOMAIN calls : ~calls[i].own
    /\ triggers[Job] + Len(SelectSeq(calls, LAMBDA c : ~c.handled)) < MaxJobs
    /\ calls' = Append(calls, [handled |-> FALSE, own |-> TRUE])
    /\ UNCHANGED <<vars, open, data, invalidated, fetch, told, lost, consoleFaults>>

\* onSuccess invalidates the query.  A page that is open asks again, and gives
\* up an older request, but not its very first one: that answer it keeps.
TriggerAnswered(i) ==
    /\ calls[i].handled /\ calls' = RemoveAt(calls, i)
    /\ invalidated' = (data # None \/ fetch # "none")
    /\ IF open /\ (data # None \/ fetch = "none")
       THEN fetch' = "asked" /\ told' = TRUE
       ELSE UNCHANGED <<fetch, told>>
    /\ UNCHANGED <<vars, open, data, lost, consoleFaults>>

\* A trigger is not sent again; it may have reached the server.
TriggerFails(i) ==
    /\ consoleFaults < MaxConsoleFaults /\ consoleFaults' = consoleFaults + 1
    /\ calls' = RemoveAt(calls, i)
    /\ UNCHANGED <<vars, open, data, invalidated, fetch, told, lost>>

-----------------------------------------------------------------------------
ConsoleNext ==
    \/ Next /\ UNCHANGED page
    \/ ServeFetch \/ OpenPage \/ ClosePage \/ Collect
    \/ Poll \/ FetchArrives \/ FetchFails \/ Press
    \/ \E i \in DOMAIN calls : ServeTrigger(i) \/ TriggerAnswered(i) \/ TriggerFails(i)

\* The page's timer fires while it is open and requests are answered.
ConsoleFairness ==
    /\ Fairness
    /\ WF_<<vars, page>>(Poll) /\ WF_<<vars, page>>(ServeFetch) /\ WF_<<vars, page>>(FetchArrives)

ConsoleSpec == ConsoleInit /\ [][ConsoleNext]_<<vars, page>> /\ ConsoleFairness

-----------------------------------------------------------------------------
\* A page that shows an unfinished job, or has had its trigger answered and
\* asked for the status, comes to show the job completed, whoever triggers it
\* again meanwhile and however answers and intervals cross: it does not stop
\* asking at a step in between or hold on to a status from before the trigger.
\* A request that fails when nothing asks again is the only way out.
ConsoleSettles ==
    (open /\ (data \in Unfinished \/ told)) ~> (~open \/ data = "completed" \/ lost)
=============================================================================
