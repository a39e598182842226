-------------------------- MODULE EmergencyRelease --------------------------
(***************************************************************************)
(* The emergency release of one exam's KEK by ShamirService: holders hand  *)
(* in fragments (collectFragment), an administrator asks for the           *)
(* reconstruction (attemptReconstruction).  The fragments are in the       *)
(* memory of the replica that was asked; every await is an interleaving    *)
(* point, as in KeyRelease.                                                *)
(*                                                                         *)
(* Abstractions: of a fragment's bytes it matters whether they are the     *)
(* share the holder was given, other bytes of the same or of another       *)
(* length, or zero; Shamir.tla is about the bytes.  Answers to the callers *)
(* are left out.                                                           *)
(***************************************************************************)
EXTENDS Naturals, Sequences, FiniteSets

CONSTANTS
    Replicas,     \* pods of the service
    Slots,        \* requests one replica has in flight at a time
    Holders,      \* fragment indices, one for each holder
    Wrong,        \* holders who hand in other bytes
    Short,        \* holders who hand in bytes of another length
    MaxFragments, \* bound on fragments handed in
    MaxAttempts,  \* bound on requests for the reconstruction
    MaxFaults     \* bound on failed calls, lost audit events and crashes

ASSUME HoldersAssumption ==
    /\ IsFiniteSet(Holders)
    /\ Wrong \subseteq Holders
    /\ Short \subseteq Holders

\* 3 of the 5 fragments rebuild the key.
Threshold == 3

Handlers == Replicas \X Slots

\* CollectedFragment: index and data.
Fragments == [index : Holders, data : {"share", "wrong", "short", "zero"}]

VARIABLES
    lists,      \* per replica: the fragment lists made since it started
    entry,      \* pendingFragments: which of them the map has, 0 for none
    kek,        \* status in keySchedule/kek, "none" when no document
    emergency,  \* emergencyRelease in keySchedule/kek
    hashed,     \* emergencyFragments/fragment-{index} documents
    collected,  \* recorded fragment_collected events, by index
    rebuilt,    \* recorded key_reconstructed events, by indices
    step,       \* next external call of each handler
    mine,       \* of a collecting handler: its fragment's index, as a set
    held,       \* of a reconstructing handler: its list
    used, key,  \* ... the indices it used, what it rebuilt
    fragments, attempts, faults

memory   == <<lists, entry>>
docs     == <<kek, emergency, hashed>>
ledger   == <<collected, rebuilt>>
handlers == <<step, mine, held, used, key>>
bounds   == <<fragments, attempts, faults>>
vars == <<memory, docs, ledger, handlers, bounds>>

Init ==
    /\ lists = [r \in Replicas |-> <<>>]
    /\ entry = [r \in Replicas |-> 0]
    /\ kek = "none" /\ emergency = FALSE /\ hashed = {}
    /\ collected = {} /\ rebuilt = {}
    /\ step = [h \in Handlers |-> "idle"]
    /\ mine = [h \in Handlers |-> {}]
    /\ held = [h \in Handlers |-> 0]
    /\ used = [h \in Handlers |-> {}]
    /\ key = [h \in Handlers |-> "none"]
    /\ fragments = 0 /\ attempts = 0 /\ faults = 0

(***************************************************************************)
(* Helpers.                                                                *)
(***************************************************************************)
\* What the holder of index i hands in.
Data(i) == CASE i \in Wrong -> "wrong"
             [] i \in Short -> "short"
             [] OTHER       -> "share"

Indices(list) == {list[k].index : k \in DOMAIN list}

\* The list of the map, if it has one.
Pending(r) == IF entry[r] = 0 THEN <<>> ELSE lists[r][entry[r]]

Fault ==
    /\ faults < MaxFaults
    /\ faults' = faults + 1
    /\ UNCHANGED <<fragments, attempts>>

Goto(h, from, to) ==
    /\ step[h] = from
    /\ step' = [step EXCEPT ![h] = to]
    /\ UNCHANGED <<mine, held, used, key>>

Finish(h, from) ==
    /\ step[h] = from
    /\ step' = [step EXCEPT ![h] = "idle"]
    /\ mine' = [mine EXCEPT ![h] = {}]
    /\ held' = [held EXCEPT ![h] = 0]
    /\ used' = [used EXCEPT ![h] = {}]
    /\ key' = [key EXCEPT ![h] = "none"]

\* generateExamKek, see KeyRelease.
GenerateKek ==
    /\ kek = "none"
    /\ kek' = "generated"
    /\ UNCHANGED <<memory, emergency, hashed, ledger, handlers, bounds>>

(***************************************************************************)
(* collectFragment.                                                        *)
(***************************************************************************)
\* A second fragment of the same index is refused while the first is pending.
NotYet(r, i) == i \notin Indices(Pending(r))

\* The fragment is kept before anything is awaited.
Keep(r, i) ==
    LET fragment == [index |-> i, data |-> Data(i)] IN
    IF entry[r] = 0
    THEN /\ lists' = [lists EXCEPT ![r] = Append(@, <<fragment>>)]
         /\ entry' = [entry EXCEPT ![r] = Len(lists[r]) + 1]
    ELSE /\ lists' = [lists EXCEPT ![r][entry[r]] = Append(@, fragment)]
         /\ UNCHANGED entry

CollectFragment(h, i) ==
    /\ step[h] = "idle"
    /\ NotYet(h[1], i)
    /\ fragments < MaxFragments
    /\ fragments' = fragments + 1
    /\ Keep(h[1], i)
    /\ step' = [step EXCEPT ![h] = "hash"]
    /\ mine' = [mine EXCEPT ![h] = {i}]
    /\ UNCHANGED <<docs, ledger, held, used, key, attempts, faults>>

StoreHash(h) ==
    /\ Goto(h, "hash", "event")
    /\ hashed' = hashed \union mine[h]
    /\ UNCHANGED <<memory, kek, emergency, ledger, bounds>>

\* recordBlockchainEvent resolves whether the event was recorded or not.
LogCollected(h) ==
    /\ Finish(h, "event")
    /\ \/ collected' = collected \union mine[h] /\ UNCHANGED bounds
       \/ UNCHANGED collected /\ Fault
    /\ UNCHANGED <<memory, docs, rebuilt>>

(***************************************************************************)
(* attemptReconstruction.                                                  *)
(***************************************************************************)
\* Mutant of Enough: off by one.
EnoughButOne(list) == Len(list) >= Threshold - 1

Enough(list) == Len(list) >= Threshold

\* reconstructKey throws on fragments of different lengths and on an index
\* that is there twice.
Consistent(list) ==
    /\ \A j, k \in DOMAIN list : list[j].data = "short" => list[k].data = "short"
    /\ \A j, k \in DOMAIN list : list[j].index = list[k].index => j = k

\* It returns the key when all fragments are shares; it cannot tell.
ReconstructKey(list) ==
    IF \A k \in DOMAIN list : list[k].data = "share" THEN "right" ELSE "wrong"

AttemptReconstruction(h) ==
    /\ step[h] = "idle"
    /\ attempts < MaxAttempts
    /\ attempts' = attempts + 1
    /\ LET list == Pending(h[1]) IN
       /\ Enough(list)
       /\ Consistent(list)
       /\ used' = [used EXCEPT ![h] = Indices(list)]
       /\ key' = [key EXCEPT ![h] = ReconstructKey(list)]
    /\ held' = [held EXCEPT ![h] = entry[h[1]]]
    /\ step' = [step EXCEPT ![h] = "recEvent"]
    /\ UNCHANGED <<memory, docs, ledger, mine, fragments, faults>>

LogReconstructed(h) ==
    /\ Goto(h, "recEvent", "recMark")
    /\ \/ rebuilt' = rebuilt \union {used[h]} /\ UNCHANGED bounds
       \/ UNCHANGED rebuilt /\ Fault
    /\ UNCHANGED <<memory, docs, collected>>

MarkReleased(h) ==
    /\ kek # "none"
    /\ Goto(h, "recMark", "wipe")
    /\ kek' = "released"
    /\ emergency' = TRUE
    /\ UNCHANGED <<memory, hashed, ledger, bounds>>

\* Mutant of MarkMissing: the fragments are dropped when the update throws.
MarkMissingDropped(h) ==
    /\ kek = "none"
    /\ Finish(h, "recMark")
    /\ entry' = [entry EXCEPT ![h[1]] = 0]
    /\ UNCHANGED <<lists, docs, ledger, bounds>>

MarkMissing(h) ==
    /\ kek = "none"
    /\ Finish(h, "recMark")
    /\ UNCHANGED <<memory, docs, ledger, bounds>>

Zeroed(list) == [k \in DOMAIN list |-> [list[k] EXCEPT !.data = "zero"]]

\* Mutant of Wipe: the map keeps the list that was filled with zeros.
WipeKept(h) ==
    /\ Finish(h, "wipe")
    /\ lists' = [lists EXCEPT ![h[1]][held[h]] = Zeroed(@)]
    /\ UNCHANGED <<entry, docs, ledger, bounds>>

\* The list this handler holds is filled with zeros, and whatever list the
\* map has by now is dropped.
Wipe(h) ==
    /\ Finish(h, "wipe")
    /\ lists' = [lists EXCEPT ![h[1]][held[h]] = Zeroed(@)]
    /\ entry' = [entry EXCEPT ![h[1]] = 0]
    /\ UNCHANGED <<docs, ledger, bounds>>

(***************************************************************************)
(* Failures.                                                               *)
(***************************************************************************)
\* A call is rejected, or the answer of the one before it is lost: the
\* handler throws.
Fail(h) ==
    /\ step[h] # "idle"
    /\ Finish(h, step[h])
    /\ Fault
    /\ UNCHANGED <<memory, docs, ledger>>

\* A replica goes down and is replaced; what it kept in memory is gone.
Crash(r) ==
    /\ Fault
    /\ lists' = [lists EXCEPT ![r] = <<>>]
    /\ entry' = [entry EXCEPT ![r] = 0]
    /\ step' = [h \in Handlers |-> IF h[1] = r THEN "idle" ELSE step[h]]
    /\ mine' = [h \in Handlers |-> IF h[1] = r THEN {} ELSE mine[h]]
    /\ held' = [h \in Handlers |-> IF h[1] = r THEN 0 ELSE held[h]]
    /\ used' = [h \in Handlers |-> IF h[1] = r THEN {} ELSE used[h]]
    /\ key' = [h \in Handlers |-> IF h[1] = r THEN "none" ELSE key[h]]
    /\ UNCHANGED <<docs, ledger>>

(***************************************************************************)
(* Specification.                                                          *)
(***************************************************************************)
Next ==
    \/ GenerateKek
    \/ \E h \in Handlers :
          \/ \E i \in Holders : CollectFragment(h, i)
          \/ StoreHash(h) \/ LogCollected(h)
          \/ AttemptReconstruction(h) \/ LogReconstructed(h)
          \/ MarkReleased(h) \/ MarkMissing(h) \/ Wipe(h)
          \/ Fail(h)
    \/ \E r \in Replicas : Crash(r)

Spec == Init /\ [][Next]_vars

(***************************************************************************)
(* Properties.                                                             *)
(***************************************************************************)
\* Every variable keeps to the values its store, field or handler can hold.
TypeOK ==
    /\ lists \in [Replicas -> Seq(Seq(Fragments))]
    /\ entry \in [Replicas -> Nat]
    /\ \A r \in Replicas : entry[r] \in {0, Len(lists[r])}
    /\ kek \in {"none", "generated", "released"}
    /\ emergency \in BOOLEAN
    /\ hashed \subseteq Holders
    /\ collected \subseteq Holders
    /\ rebuilt \subseteq SUBSET Holders
    /\ step \in [Handlers -> {"idle", "hash", "event", "recEvent", "recMark",
                              "wipe"}]
    /\ mine \in [Handlers -> SUBSET Holders]
    /\ held \in [Handlers -> Nat]
    /\ \A h \in Handlers : step[h] \in {"recEvent", "recMark", "wipe"} =>
                               held[h] \in DOMAIN lists[h[1]]
    /\ used \in [Handlers -> SUBSET Holders]
    /\ key \in [Handlers -> {"none", "right", "wrong"}]
    /\ fragments \in Nat /\ attempts \in Nat /\ faults \in Nat

\* A key is rebuilt wrong only from a fragment that was handed in wrong:
\* reconstructKey never sees a buffer that an earlier or a concurrent
\* reconstruction has filled with zeros.
WrongOnlyFromWrong ==
    \A h \in Handlers :
        key[h] = "wrong" => used[h] \intersect (Wrong \union Short) # {}

\* Holders who race or repeat themselves never block the reconstruction:
\* reconstructKey refuses the pending fragments only for their lengths.
NotBlocked ==
    \A r \in Replicas :
        Indices(Pending(r)) \intersect Short = {} => Consistent(Pending(r))

\* A fragment that is pending is lost only by a restart of its replica or to
\* a release: a reconstruction that failed, or whose KEK document was
\* missing, can be asked for again.
KeptUntilReleased ==
    [][~emergency' =>
          \A r \in Replicas : Crash(r) \/ \A k \in DOMAIN Pending(r) :
              k \in DOMAIN Pending(r)' /\ Pending(r)'[k] = Pending(r)[k]]_vars

\* Who has handed in a fragment to each replica since it started.
Approvals ==
    [r \in Replicas |-> UNION {Indices(lists[r][n]) : n \in DOMAIN lists[r]}]

Approval == INSTANCE EmergencyApproval WITH approvals <- Approvals

\* The KEK is released only with three different holders' fragments in one
\* replica's memory, see EmergencyApproval.
ImplementsApproval == Approval!ApprovalSpec
=============================================================================
