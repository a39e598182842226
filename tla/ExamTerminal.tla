---------------------------- MODULE ExamTerminal ----------------------------
(***************************************************************************)
(* One exam terminal (candidate-portal in a browser, with its service      *)
(* worker), the network, and the exam-session endpoints it talks to.       *)
(* Browser code runs between awaits; pc[c] names what caller c awaits:     *)
(* one of the overlapping runs of performCheckpoint or processSyncQueue,   *)
(* or the run of handleSubmit.                                             *)
(*                                                                         *)
(* Abstractions: a candidate's answers are the number of edits made in the *)
(* session; login, seat check and loading are the phase "idle"; all of     *)
(* IndexedDB but the sync queue is left out, because nothing reads it; the *)
(* item count shown next to the sync button is only zero or not.           *)
(***************************************************************************)
EXTENDS Naturals, Sequences, SequencesExt

CONSTANTS
    Checkpoints,  \* runs of performCheckpoint that can overlap
    Syncs,        \* runs of processSyncQueue that can overlap
    MaxSessions,  \* bound on sessions started
    MaxEdits,     \* bound on edits in a session
    MaxTicks,     \* bound on firings of the checkpoint interval
    MaxOutages,   \* bound on losses of the link
    MaxFaults     \* bound on failed fetches, storage failures and restarts

ASSUME TerminalAssumption ==
    /\ {MaxSessions, MaxEdits, MaxTicks, MaxOutages, MaxFaults} \subseteq Nat
    /\ "submit" \notin Checkpoints \union Syncs
    /\ Checkpoints \intersect Syncs = {}

Sessions == 1..MaxSessions
Versions == 0..MaxEdits

NoSnapshot == [id |-> 0, session |-> 0, ver |-> 0]

Callers == Checkpoints \union Syncs \union {"submit"}

VARIABLES
    phase, session, timeUp,      \* exam-store: phase, sessionId, no time left
    ver,                         \* edits of each session (responses)
    isOnline, pending, hash,     \* exam-store; hash is what it vouches for
    autoFired, syncing, ownRuns, \* refs and state of the mounted components
    ticking,                     \* the checkpoint interval is set
    local, queue, stamp,         \* localStorage, sync queue, its last key
    pc, payload, todo,           \* per caller: what it awaits, sends, has left
    sw, link,                    \* service worker in control, network up
    started, cp, received, subs, \* server: sessions, checkpoints, submissions
    ticks, outages, faults       \* what the bounds count

store   == <<phase, session, timeUp, ver, isOnline, pending, hash>>
ui      == <<autoFired, syncing, ownRuns, ticking>>
storage == <<local, queue, stamp>>
runs    == <<pc, payload, todo>>
server  == <<started, cp, received, subs>>
bounds  == <<ticks, outages, faults>>
vars == <<store, ui, storage, runs, sw, link, server, bounds>>

Init ==
    /\ phase = "idle" /\ session = 0 /\ timeUp = FALSE
    /\ ver = [s \in Sessions |-> 0]
    /\ isOnline = TRUE /\ pending = FALSE /\ hash = {}
    /\ autoFired = FALSE /\ syncing = FALSE /\ ownRuns = {} /\ ticking = FALSE
    /\ local = <<0, 0>> /\ queue = <<>> /\ stamp = 0
    /\ pc = [c \in Callers |-> "idle"]
    /\ payload = [c \in Callers |-> NoSnapshot]
    /\ todo = [c \in Syncs |-> <<>>]
    /\ sw = FALSE /\ link = TRUE
    /\ started = 0
    /\ cp = [s \in Sessions |-> 0]
    /\ received = {}
    /\ subs = [s \in Sessions |-> {}]
    /\ ticks = 0 /\ outages = 0 /\ faults = 0

(***************************************************************************)
(* Helpers.                                                                *)
(***************************************************************************)
Await(c, what) == pc' = [pc EXCEPT ![c] = what]

Fault ==
    /\ faults < MaxFaults
    /\ faults' = faults + 1
    /\ UNCHANGED <<ticks, outages>>

\* saveToLocalStorage
SaveLocally == local' = <<session, ver[session]>>

\* The screen of the running exam is mounted again with fresh refs, and its
\* OfflineIndicator takes the online status from the browser.
Mount ==
    /\ autoFired' = FALSE
    /\ syncing' = FALSE
    /\ ownRuns' = {}
    /\ isOnline' = link

(***************************************************************************)
(* The candidate.                                                          *)
(***************************************************************************)
\* Every start makes a session of its own, and initializeExam begins with no
\* answers: neither the server's checkpoint nor the local one is loaded.
Start ==
    /\ phase = "idle" /\ link
    /\ started < MaxSessions
    /\ started' = started + 1
    /\ session' = started + 1
    /\ phase' = "active"
    /\ timeUp' = FALSE
    /\ hash' = {}
    /\ ticking' = TRUE
    /\ Mount
    /\ UNCHANGED <<ver, pending, storage, runs, sw, link, cp, received, subs,
                   bounds>>

\* The session exists on the server, but the terminal does not learn of it.
StartLost ==
    /\ phase = "idle" /\ link
    /\ started < MaxSessions
    /\ started' = started + 1
    /\ Fault
    /\ UNCHANGED <<store, ui, storage, runs, sw, link, cp, received, subs>>

Edit ==
    /\ phase = "active"
    /\ ver[session] < MaxEdits
    /\ ver' = [ver EXCEPT ![session] = @ + 1]
    /\ UNCHANGED <<phase, session, timeUp, isOnline, pending, hash, ui, storage,
                   runs, sw, link, server, bounds>>

TimeUp ==
    /\ phase = "active" /\ ~timeUp
    /\ timeUp' = TRUE
    /\ UNCHANGED <<phase, session, ver, isOnline, pending, hash, ui, storage,
                   runs, sw, link, server, bounds>>

\* Mutant of ReturnToExam: the guard of the automatic submission outlives the
\* screen it belongs to.
ReturnUnarmed ==
    /\ phase = "error"
    /\ phase' = "active"
    /\ ticking' = TRUE
    /\ syncing' = FALSE
    /\ ownRuns' = {}
    /\ isOnline' = link
    /\ UNCHANGED <<session, timeUp, ver, pending, hash, autoFired, storage,
                   runs, sw, link, server, bounds>>

\* The "Return to Exam" button of ErrorState.
ReturnToExam ==
    /\ phase = "error"
    /\ phase' = "active"
    /\ ticking' = TRUE
    /\ Mount
    /\ UNCHANGED <<session, timeUp, ver, pending, hash, storage, runs, sw, link,
                   server, bounds>>

(***************************************************************************)
(* performCheckpoint.                                                      *)
(***************************************************************************)
Tick(c) ==
    /\ ticking
    /\ pc[c] = "idle"
    /\ ticks < MaxTicks
    /\ ticks' = ticks + 1
    /\ SaveLocally
    /\ Await(c, "save")
    /\ UNCHANGED <<store, ui, queue, stamp, payload, todo, sw, link, server,
                   outages, faults>>

\* The answers as they are now, on their way to the server.
SendAnswers(c) ==
    payload' = [payload EXCEPT ![c] =
                   [id |-> 0, session |-> session, ver |-> ver[session]]]

\* saveToIndexedDB has ended; sendCheckpointToServer runs to its first await.
SendCheckpoint(c) ==
    /\ pc[c] = "save"
    /\ phase = "active"
    /\ Await(c, IF isOnline THEN "send" ELSE "put")
    /\ SendAnswers(c)
    /\ UNCHANGED <<store, ui, storage, todo, sw, link, server, bounds>>

SkipCheckpoint(c) ==
    /\ pc[c] = "save"
    /\ phase # "active"
    /\ Await(c, "idle")
    /\ UNCHANGED <<store, ui, storage, payload, todo, sw, link, server, bounds>>

\* addToSyncQueue under a key that grows with the clock.
PutInQueue(c) ==
    /\ pc[c] = "put"
    /\ stamp' = stamp + 1
    /\ queue' = Append(queue, [payload[c] EXCEPT !.id = stamp + 1])
    /\ pending' = TRUE
    /\ Await(c, "idle")
    /\ UNCHANGED <<phase, session, timeUp, ver, isOnline, hash, ui, local,
                   payload, todo, sw, link, server, bounds>>

(***************************************************************************)
(* Requests: submitCheckpoint and submitExam through the service worker.   *)
(***************************************************************************)
\* The server's handler runs without interruption.
Arrive(c) ==
    /\ pc[c] = "send" /\ link
    /\ Await(c, "arrived")
    /\ LET p == payload[c] IN
       IF c = "submit"
       THEN /\ subs' = [subs EXCEPT ![p.session] = @ \union {p.ver}]
            /\ UNCHANGED <<cp, received>>
       ELSE /\ cp' = [cp EXCEPT ![p.session] = p.ver]
            /\ received' = received \union {<<p.session, p.ver>>}
            /\ UNCHANGED subs
    /\ UNCHANGED <<store, ui, storage, payload, todo, sw, link, started, bounds>>

Answered(c) ==
    /\ pc[c] = "arrived"
    /\ UNCHANGED bounds

\* The request is lost on its way, or its answer is.
NetworkError(c) ==
    /\ pc[c] \in {"send", "arrived"}
    /\ \/ ~link /\ UNCHANGED bounds
       \/ link /\ Fault

\* A gateway in front of the handler answers with an error status.
Refused(c) ==
    /\ pc[c] = "send" /\ link
    /\ Fault

\* handleQueueableRequest turns a network error into {saved: true}, status
\* 200; the message it posts for the queue has no listener.
Faked(c) == sw /\ NetworkError(c)

Rejected(c) == Refused(c) \/ (~sw /\ NetworkError(c))

CheckpointDone(c) ==
    /\ Answered(c) \/ Faked(c)
    /\ Await(c, "idle")
    /\ UNCHANGED <<store, ui, storage, payload, todo, sw, link, server>>

CheckpointRejected(c) ==
    /\ Rejected(c)
    /\ Await(c, "put")
    /\ UNCHANGED <<store, ui, storage, payload, todo, sw, link, server>>

(***************************************************************************)
(* handleSubmit: the candidate's button, the third violation seen by the   *)
(* proctor, or the timer.                                                  *)
(***************************************************************************)
\* Mutant of Submit: the screen is not taken away from the candidate.
SubmitUnlocked ==
    /\ phase = "active"
    /\ pc["submit"] = "idle"
    /\ SaveLocally
    /\ Await("submit", "save")
    /\ UNCHANGED <<store, ui, queue, stamp, payload, todo, sw, link, server,
                   bounds>>

Submit ==
    /\ phase = "active"
    /\ phase' = "submitting"
    /\ SaveLocally
    /\ Await("submit", "save")
    /\ UNCHANGED <<session, timeUp, ver, isOnline, pending, hash, ui, queue,
                   stamp, payload, todo, sw, link, server, bounds>>

AutoSubmit ==
    /\ timeUp /\ ~autoFired
    /\ phase = "active"
    /\ autoFired' = TRUE
    /\ phase' = "submitting"
    /\ SaveLocally
    /\ Await("submit", "save")
    /\ UNCHANGED <<session, timeUp, ver, isOnline, pending, hash, syncing,
                   ownRuns, ticking, queue, stamp, payload, todo, sw, link,
                   server, bounds>>

SendSubmission ==
    /\ pc["submit"] = "save"
    /\ ticking' = FALSE
    /\ Await("submit", "send")
    /\ SendAnswers("submit")
    /\ UNCHANGED <<store, autoFired, syncing, ownRuns, storage, todo, sw, link,
                   server, bounds>>

\* setSubmissionResult, with no hash when the answer was made up.
Submitted(h) ==
    /\ phase' = "submitted"
    /\ hash' = h
    /\ local' = <<0, 0>>
    /\ Await("submit", "clear")
    /\ UNCHANGED <<session, timeUp, ver, isOnline, pending, ui, queue, stamp,
                   payload, todo, sw, link, server>>

SubmissionAnswered == Answered("submit") /\ Submitted({payload["submit"].ver})
SubmissionFaked    == Faked("submit") /\ Submitted({})

\* The catch of handleSubmit.
SubmitFails ==
    /\ phase' = "error"
    /\ ticking' = TRUE
    /\ Await("submit", "idle")
    /\ UNCHANGED <<session, timeUp, ver, isOnline, pending, hash, autoFired,
                   syncing, ownRuns, storage, payload, todo, sw, link, server>>

SubmissionRejected == Rejected("submit") /\ SubmitFails

\* clearAllOfflineData
ClearOfflineData ==
    /\ pc["submit"] = "clear"
    /\ queue' = <<>>
    /\ Await("submit", "idle")
    /\ UNCHANGED <<store, ui, local, stamp, payload, todo, sw, link, server,
                   bounds>>

(***************************************************************************)
(* processSyncQueue.                                                       *)
(***************************************************************************)
\* The loop goes on with the items it read, or counts what is left and ends.
NextItem(c, items, left) ==
    IF items = <<>>
    THEN /\ Await(c, "idle")
         /\ pending' = (left # <<>>)
         /\ syncing' = IF c \in ownRuns THEN FALSE ELSE syncing
         /\ UNCHANGED <<payload, todo>>
    ELSE /\ Await(c, "send")
         /\ payload' = [payload EXCEPT ![c] = Head(items)]
         /\ todo' = [todo EXCEPT ![c] = Tail(items)]
         /\ UNCHANGED <<pending, syncing>>

\* The button is shown and enabled; the online event starts a run as well,
\* see LinkUp.
SyncClick(c) ==
    /\ phase = "active" /\ isOnline /\ pending /\ ~syncing
    /\ pc[c] = "idle"
    /\ syncing' = TRUE
    /\ ownRuns' = ownRuns \union {c}
    /\ Await(c, "read")
    /\ UNCHANGED <<store, autoFired, ticking, storage, payload, todo, sw, link,
                   server, bounds>>

ReadQueue(c) ==
    /\ pc[c] = "read"
    /\ NextItem(c, queue, queue)
    /\ UNCHANGED <<phase, session, timeUp, ver, isOnline, hash, autoFired,
                   ownRuns, ticking, storage, sw, link, server, bounds>>

SyncDone(c) ==
    /\ Answered(c) \/ Faked(c)
    /\ Await(c, "remove")
    /\ UNCHANGED <<store, ui, storage, payload, todo, sw, link, server>>

\* Mutant of SyncRejected: the item is removed whatever the outcome was.
SyncRejectedDropped(c) ==
    /\ Rejected(c)
    /\ Await(c, "remove")
    /\ UNCHANGED <<store, ui, storage, payload, todo, sw, link, server>>

\* The item stays in the queue for the next run.
SyncRejected(c) ==
    /\ Rejected(c)
    /\ NextItem(c, todo[c], queue)
    /\ UNCHANGED <<phase, session, timeUp, ver, isOnline, hash, autoFired,
                   ownRuns, ticking, storage, sw, link, server>>

\* removeFromSyncQueue: the record under the item's key, if it is still there.
RemoveItem(c) ==
    /\ pc[c] = "remove"
    /\ IF \E i \in DOMAIN queue : queue[i].id = payload[c].id
       THEN \E i \in DOMAIN queue :
               queue[i].id = payload[c].id /\ queue' = RemoveAt(queue, i)
       ELSE UNCHANGED queue
    /\ NextItem(c, todo[c], queue')
    /\ UNCHANGED <<phase, session, timeUp, ver, isOnline, hash, autoFired,
                   ownRuns, ticking, local, stamp, sw, link, server, bounds>>

(***************************************************************************)
(* The environment.                                                        *)
(***************************************************************************)
\* IndexedDB rejects an operation.
StorageFailsCheckpoint(c) ==
    /\ pc[c] \in {"save", "put"}
    /\ Fault
    /\ Await(c, "idle")
    /\ UNCHANGED <<store, ui, storage, payload, todo, sw, link, server>>

StorageFailsSubmit ==
    /\ pc["submit"] \in {"save", "clear"}
    /\ Fault
    /\ SubmitFails

StorageFailsSync(c) ==
    /\ Fault
    /\ \/ /\ pc[c] = "read"
          /\ Await(c, "idle")
          /\ syncing' = IF c \in ownRuns THEN FALSE ELSE syncing
          /\ UNCHANGED <<pending, payload, todo>>
       \/ /\ pc[c] = "remove"
          /\ NextItem(c, todo[c], queue)
    /\ UNCHANGED <<phase, session, timeUp, ver, isOnline, hash, autoFired,
                   ownRuns, ticking, storage, sw, link, server>>

LinkDown ==
    /\ link
    /\ outages < MaxOutages
    /\ outages' = outages + 1
    /\ link' = FALSE
    /\ isOnline' = IF phase = "active" THEN FALSE ELSE isOnline
    /\ UNCHANGED <<phase, session, timeUp, ver, pending, hash, ui, storage,
                   runs, sw, server, ticks, faults>>

\* The online event is heard by a mounted OfflineIndicator only, and its
\* handler never sees a run in progress: it closed over the first render.
LinkUp ==
    /\ ~link
    /\ link' = TRUE
    /\ isOnline' = IF phase = "active" THEN TRUE ELSE isOnline
    /\ \/ /\ phase = "active"
          /\ \E c \in Syncs : /\ pc[c] = "idle"
                              /\ Await(c, "read")
                              /\ ownRuns' = ownRuns \union {c}
          /\ syncing' = TRUE
       \/ /\ \/ phase # "active"
             \/ \A c \in Syncs : pc[c] # "idle"
          /\ UNCHANGED <<pc, ownRuns, syncing>>
    /\ UNCHANGED <<phase, session, timeUp, ver, pending, hash, autoFired,
                   ticking, storage, payload, todo, sw, server, bounds>>

\* clients.claim() of a worker that has just been installed.
ClaimClients ==
    /\ ~sw
    /\ sw' = TRUE
    /\ UNCHANGED <<store, ui, storage, runs, link, server, bounds>>

\* A new page: the store is empty and the old page's runs are gone.
NewPage ==
    /\ phase' = "idle" /\ session' = 0 /\ timeUp' = FALSE
    /\ isOnline' = TRUE /\ pending' = FALSE /\ hash' = {}
    /\ autoFired' = FALSE /\ syncing' = FALSE /\ ownRuns' = {} /\ ticking' = FALSE
    /\ pc' = [c \in Callers |-> "idle"]
    /\ payload' = [c \in Callers |-> NoSnapshot]
    /\ todo' = [c \in Syncs |-> <<>>]
    /\ UNCHANGED <<ver, stamp, link, server>>

\* The candidate leaves the last screen, the next one sits down.
NextCandidate ==
    /\ phase = "submitted"
    /\ NewPage
    /\ UNCHANGED <<local, queue, sw, bounds>>

\* The terminal crashes or the page is reloaded; the kiosk's browser runs
\* incognito and keeps nothing.
Restart(kept) ==
    /\ Fault
    /\ NewPage
    /\ IF kept
       THEN UNCHANGED <<local, queue, sw>>
       ELSE local' = <<0, 0>> /\ queue' = <<>> /\ sw' = FALSE

(***************************************************************************)
(* Specification.                                                          *)
(***************************************************************************)
CheckpointStep(c) ==
    \/ Tick(c) \/ SendCheckpoint(c) \/ SkipCheckpoint(c) \/ PutInQueue(c)
    \/ Arrive(c) \/ CheckpointDone(c) \/ CheckpointRejected(c)
    \/ StorageFailsCheckpoint(c)

SyncStep(c) ==
    \/ SyncClick(c) \/ ReadQueue(c) \/ Arrive(c) \/ SyncDone(c)
    \/ SyncRejected(c) \/ RemoveItem(c) \/ StorageFailsSync(c)

\* What handleSubmit does once it was called.
SubmitStep ==
    \/ SendSubmission \/ Arrive("submit")
    \/ SubmissionAnswered \/ SubmissionFaked \/ SubmissionRejected
    \/ ClearOfflineData

Next ==
    \/ \E c \in Checkpoints : CheckpointStep(c)
    \/ \E c \in Syncs : SyncStep(c)
    \/ Submit \/ AutoSubmit \/ SubmitStep \/ StorageFailsSubmit
    \/ Start \/ StartLost \/ Edit \/ TimeUp \/ ReturnToExam \/ NextCandidate
    \/ LinkDown \/ LinkUp \/ ClaimClients
    \/ \E kept \in BOOLEAN : Restart(kept)

Spec == Init /\ [][Next]_vars

\* The event loop runs what is ready, the link comes back, and the candidate
\* or an invigilator presses the only button of the error screen.
Fairness ==
    /\ WF_vars(AutoSubmit)
    /\ WF_vars(SubmitStep)
    /\ WF_vars(LinkUp)
    /\ WF_vars(ReturnToExam)

FairSpec == Spec /\ Fairness

(***************************************************************************)
(* Properties.                                                             *)
(***************************************************************************)
\* The hash the last screen shows vouches for a submission the server holds,
\* and that submission has every edit of the candidate: what handleSubmit
\* sends after its awaits is still what the candidate left, also after
\* failed attempts and lost answers.  And when the error screen says that the
\* responses are saved locally, localStorage holds this session with its last
\* edit, unless the submission went through - or a made-up answer was taken
\* for it - and only the clean-up after it failed.
SubmissionFaithful ==
    /\ phase = "submitted" =>
          \A v \in hash : v = ver[session] /\ v \in subs[session]
    /\ phase = "error" =>
          \/ local = <<session, ver[session]>>
          \/ ver[session] \in subs[session]
          \/ sw /\ local = <<0, 0>>

\* Checkpoints are neither mixed up nor lost.  One stored for a session only
\* has edits of that session, although queued checkpoints outlive the session,
\* the page and the candidate; and without a service worker in control, a
\* checkpoint leaves the sync queue only after the server has had it, with the
\* rest of the offline data after a submission, or with the browser's storage:
\* a failed replay keeps it.
CheckpointsArrive ==
    [][/\ \A s \in Sessions : cp'[s] <= ver'[s]
       /\ \A item \in ToSet(queue) \ ToSet(queue') :
             \/ sw
             \/ phase = "submitted"
             \/ phase' = "idle"
             \/ <<item.session, item.ver>> \in received]_vars

\* A candidate whose time is up gets to the last screen, or the page is gone:
\* a failed automatic submission is tried again when the exam is returned to.
TimeUpSubmits ==
    timeUp /\ phase = "active" ~> phase \in {"submitted", "idle"}
=============================================================================
