----------------------- MODULE EmergencyReleaseProofs -----------------------
(***************************************************************************)
(* The properties of EmergencyRelease, for any number of replicas, slots   *)
(* and holders, and any mixture of true and false fragments.               *)
(***************************************************************************)
EXTENDS EmergencyRelease, FiniteSetTheorems, SequenceTheorems, TLAPS

\* No buffer of a pending list has been filled with zeros.
Intact ==
    \A r \in Replicas : \A k \in DOMAIN Pending(r) :
        Pending(r)[k].data = Data(Pending(r)[k].index)

\* No index is pending twice.
Unique ==
    \A r \in Replicas : \A j, k \in DOMAIN Pending(r) :
        Pending(r)[j].index = Pending(r)[k].index => j = k

\* Before it marks the document, a reconstruction has the fragments of enough
\* holders, all of them handed in to its replica since that started.
StepsSound ==
    \A h \in Handlers :
        step[h] \in {"recEvent", "recMark"} =>
            /\ used[h] \subseteq Approvals[h[1]]
            /\ Cardinality(used[h]) >= Threshold

\* A reconstruction wipes its list only once the document is marked.
WipeAfterMark == \A h \in Handlers : step[h] = "wipe" => emergency

IInv ==
    /\ TypeOK
    /\ Intact
    /\ Unique
    /\ StepsSound
    /\ WrongOnlyFromWrong
    /\ WipeAfterMark

(***************************************************************************)
(* Lists.                                                                  *)
(***************************************************************************)
\* A list without a repeated index has as many indices as fragments.
LEMMA CountIndices ==
    ASSUME NEW list \in Seq(Fragments),
           \A j, k \in DOMAIN list : list[j].index = list[k].index => j = k
    PROVE  Cardinality(Indices(list)) = Len(list)
<1> DEFINE f == [k \in 1 .. Len(list) |-> list[k].index]
<1>1. DOMAIN list = 1 .. Len(list) /\ Len(list) \in Nat
    BY LenProperties
<1>2. f \in Bijection(1 .. Len(list), Indices(list))
    <2>1. f \in Injection(1 .. Len(list), Indices(list))
        BY <1>1 DEF Injection, IsInjective, Indices
    <2>2. f \in Surjection(1 .. Len(list), Indices(list))
        BY <1>1 DEF Surjection, Indices
    <2> QED BY <2>1, <2>2 DEF Bijection
<1>3. ExistsBijection(1 .. Len(list), Indices(list))
    BY <1>2 DEF ExistsBijection
<1> QED BY <1>1, <1>3, FS_CountingElements

\* What appending a fragment does to the indices of a list.
LEMMA AppendIndices ==
    ASSUME NEW list \in Seq(Fragments), NEW f \in Fragments
    PROVE  /\ Append(list, f) \in Seq(Fragments)
           /\ Indices(Append(list, f)) = Indices(list) \union {f.index}
<1>1. /\ Append(list, f) \in Seq(Fragments)
      /\ DOMAIN Append(list, f) = 1 .. Len(list) + 1
      /\ \A k \in 1 .. Len(list) : Append(list, f)[k] = list[k]
      /\ Append(list, f)[Len(list) + 1] = f
    BY AppendProperties, LenProperties
<1>2. DOMAIN list = 1 .. Len(list) /\ Len(list) \in Nat
    BY LenProperties
<1> QED BY <1>1, <1>2 DEF Indices

\* Filling a list with zeros keeps its indices.
LEMMA ZeroedIndices ==
    ASSUME NEW list \in Seq(Fragments)
    PROVE  /\ Zeroed(list) \in Seq(Fragments)
           /\ Indices(Zeroed(list)) = Indices(list)
<1>1. DOMAIN list = 1 .. Len(list) /\ Len(list) \in Nat
    BY LenProperties
<1>2. \A k \in DOMAIN list : list[k] \in Fragments
    BY <1>1, ElementOfSeq
<1>3. \A k \in DOMAIN list : /\ Zeroed(list)[k] \in Fragments
                             /\ Zeroed(list)[k].index = list[k].index
    BY <1>2 DEF Zeroed, Fragments
<1>4. Zeroed(list) \in Seq(Fragments)
    BY <1>1, <1>3, IsASeq DEF Zeroed
<1> QED BY <1>3, <1>4 DEF Indices, Zeroed

(***************************************************************************)
(* The memory of a replica.                                                *)
(***************************************************************************)
\* The pending list is a list, and its indices are among the approvals.
LEMMA PendingType ==
    ASSUME TypeOK, NEW r \in Replicas
    PROVE  /\ Pending(r) \in Seq(Fragments)
           /\ lists[r] \in Seq(Seq(Fragments))
           /\ Len(lists[r]) \in Nat /\ DOMAIN lists[r] = 1 .. Len(lists[r])
           /\ entry[r] = 0 \/ entry[r] \in DOMAIN lists[r]
           /\ Indices(Pending(r)) \subseteq Approvals[r]
           /\ Approvals[r] \subseteq Holders
<1>1. lists[r] \in Seq(Seq(Fragments))
    BY DEF TypeOK
<1>2. Len(lists[r]) \in Nat /\ DOMAIN lists[r] = 1 .. Len(lists[r])
    BY <1>1, LenProperties
<1>3. entry[r] = 0 \/ entry[r] \in DOMAIN lists[r]
    BY <1>2 DEF TypeOK
<1>4. \A n \in DOMAIN lists[r] : lists[r][n] \in Seq(Fragments)
    BY <1>1, <1>2, ElementOfSeq
<1>5. Pending(r) \in Seq(Fragments)
    BY <1>3, <1>4, EmptySeq DEF Pending
<1>6. Indices(<<>>) = {}
    BY DEF Indices
<1>7. Approvals[r] = UNION {Indices(lists[r][n]) : n \in DOMAIN lists[r]}
    BY DEF Approvals
<1>8. \A n \in DOMAIN lists[r] : Indices(lists[r][n]) \subseteq Holders
    <2> TAKE n \in DOMAIN lists[r]
    <2>1. \A k \in DOMAIN lists[r][n] : lists[r][n][k] \in Fragments
        BY <1>4, ElementOfSeq, LenProperties
    <2> QED BY <2>1 DEF Indices, Fragments
<1>9. Indices(Pending(r)) \subseteq Approvals[r]
    BY <1>3, <1>6, <1>7 DEF Pending
<1> QED BY <1>1, <1>2, <1>3, <1>5, <1>7, <1>8, <1>9

\* What collectFragment does to the memory of its replica.
LEMMA KeepStep ==
    ASSUME TypeOK, NEW r \in Replicas, NEW i \in Holders, Keep(r, i)
    PROVE  /\ lists' \in [Replicas -> Seq(Seq(Fragments))]
           /\ entry' \in [Replicas -> Nat]
           /\ \A q \in Replicas : entry'[q] \in {0, Len(lists'[q])}
           /\ \A q \in Replicas : Len(lists'[q]) >= Len(lists[q])
           /\ Pending(r)' = Append(Pending(r), [index |-> i, data |-> Data(i)])
           /\ \A q \in Replicas \ {r} : Pending(q)' = Pending(q)
           /\ Approvals' = [Approvals EXCEPT ![r] = @ \union {i}]
<1> DEFINE f == [index |-> i, data |-> Data(i)]
           L == lists[r]
<1>0. f \in Fragments
    BY DEF Fragments, Data
<1>1. /\ L \in Seq(Seq(Fragments)) /\ Len(L) \in Nat /\ DOMAIN L = 1 .. Len(L)
      /\ entry[r] = 0 \/ entry[r] \in DOMAIN L
    BY PendingType
<1>2. lists \in [Replicas -> Seq(Seq(Fragments))] /\ entry \in [Replicas -> Nat]
    BY DEF TypeOK
<1>3. \A n \in DOMAIN L : L[n] \in Seq(Fragments)
    BY <1>1, ElementOfSeq
<1>4. \A q \in Replicas \ {r} : lists'[q] = lists[q] /\ entry'[q] = entry[q]
    BY <1>2 DEF Keep
<1>5. \A q \in Replicas \ {r} :
          /\ Pending(q)' = Pending(q)
          /\ Approvals'[q] = Approvals[q]
    BY <1>4 DEF Pending, Approvals
<1>a. \A x : x \in Approvals[r] <=> \E n \in DOMAIN L : x \in Indices(L[n])
    BY DEF Approvals
<1>b. \A x : x \in Approvals'[r] <=>
               \E n \in DOMAIN lists'[r] : x \in Indices(lists'[r][n])
    BY DEF Approvals
<1>6. ASSUME entry[r] = 0
      PROVE  /\ lists'[r] \in Seq(Seq(Fragments))
             /\ lists' = [lists EXCEPT ![r] = lists'[r]]
             /\ entry' \in [Replicas -> Nat]
             /\ Len(lists'[r]) >= Len(L)
             /\ entry'[r] = Len(lists'[r])
             /\ Pending(r)' = Append(Pending(r), f)
             /\ Approvals'[r] = Approvals[r] \union {i}
    <2> DEFINE M == Append(L, <<f>>)
    <2>1. lists' = [lists EXCEPT ![r] = M] /\ entry' = [entry EXCEPT ![r] = Len(L) + 1]
        BY <1>6 DEF Keep
    <2>2. lists'[r] = M /\ entry'[r] = Len(L) + 1 /\ entry' \in [Replicas -> Nat]
        BY <2>1, <1>1, <1>2
    <2>3. <<f>> \in Seq(Fragments)
        BY <1>0
    <2>4. /\ M \in Seq(Seq(Fragments)) /\ Len(M) = Len(L) + 1
          /\ DOMAIN M = 1 .. Len(L) + 1
          /\ \A n \in 1 .. Len(L) : M[n] = L[n]
          /\ M[Len(L) + 1] = <<f>>
        BY <2>3, <1>1, AppendProperties, LenProperties
    <2>5. Pending(r) = <<>> /\ Pending(r)' = <<f>>
        BY <1>6, <1>1, <2>2, <2>4 DEF Pending
    <2>6. Append(<<>>, f) = <<f>>
        OBVIOUS
    <2>7. Indices(<<f>>) = {i}
        BY DEF Indices
    <2> HIDE DEF M
    <2>8. \A x : x \in Approvals'[r] <=> x \in Approvals[r] \/ x = i
        <3>1. /\ \A n \in 1 .. Len(L) : Indices(M[n]) = Indices(L[n])
              /\ Indices(M[Len(L) + 1]) = {i}
            BY <2>4, <2>7
        <3>2. \A x : (\E n \in DOMAIN M : x \in Indices(M[n])) <=>
                         \/ \E n \in 1 .. Len(L) : x \in Indices(M[n])
                         \/ x \in Indices(M[Len(L) + 1])
            <4>1. DOMAIN M = (1 .. Len(L)) \union {Len(L) + 1}
                BY <2>4, <1>1
            <4> QED BY <4>1, Zenon
        <3>3. \A x : x \in Approvals'[r] <=> \E n \in DOMAIN M : x \in Indices(M[n])
            BY <1>b, <2>2
        <3>4. \A x : x \in Approvals[r] <=>
                         \E n \in 1 .. Len(L) : x \in Indices(M[n])
            BY <1>a, <1>1, <3>1
        <3> QED BY <3>1, <3>2, <3>3, <3>4
    <2>9. Approvals'[r] = Approvals[r] \union {i}
        BY <2>8
    <2>10. lists' = [lists EXCEPT ![r] = lists'[r]]
        BY <2>1, <2>2
    <2> QED BY <2>2, <2>4, <2>5, <2>6, <2>9, <2>10, <1>1
<1>7. ASSUME entry[r] # 0
      PROVE  /\ lists'[r] \in Seq(Seq(Fragments))
             /\ lists' = [lists EXCEPT ![r] = lists'[r]]
             /\ entry' \in [Replicas -> Nat]
             /\ Len(lists'[r]) >= Len(L)
             /\ entry'[r] = Len(lists'[r])
             /\ Pending(r)' = Append(Pending(r), f)
             /\ Approvals'[r] = Approvals[r] \union {i}
    <2> DEFINE e == entry[r]
               M == [L EXCEPT ![e] = Append(L[e], f)]
    <2>1. lists' = [lists EXCEPT ![r] = M] /\ entry' = entry
        BY <1>7, <1>2 DEF Keep
    <2>2. lists'[r] = M
        BY <2>1, <1>2
    <2>3. e \in 1 .. Len(L) /\ e = Len(L)
        BY <1>7, <1>1 DEF TypeOK
    <2>4. /\ Append(L[e], f) \in Seq(Fragments)
          /\ Indices(Append(L[e], f)) = Indices(L[e]) \union {i}
        BY <1>0, <1>3, <1>1, <2>3, AppendIndices
    <2>5. /\ M \in Seq(Seq(Fragments)) /\ Len(M) = Len(L)
          /\ DOMAIN M = DOMAIN L
          /\ \A n \in 1 .. Len(L) : M[n] = IF n = e THEN Append(L[e], f) ELSE L[n]
        BY <2>3, <2>4, <1>1, ExceptSeq
    <2>6. Pending(r) = L[e] /\ Pending(r)' = Append(L[e], f)
        BY <1>7, <2>1, <2>2, <2>3, <2>5 DEF Pending
    <2> HIDE DEF M
    <2>7. \A x : x \in Approvals'[r] <=> x \in Approvals[r] \/ x = i
        BY <1>a, <1>b, <2>2, <2>3, <2>4, <2>5, <1>1
    <2>8. Approvals'[r] = Approvals[r] \union {i}
        BY <2>7
    <2>9. lists' = [lists EXCEPT ![r] = lists'[r]]
        BY <2>1, <2>2
    <2> QED BY <2>1, <2>2, <2>3, <2>5, <2>6, <2>8, <2>9, <1>1, <1>2
<1>8. /\ lists'[r] \in Seq(Seq(Fragments))
      /\ lists' = [lists EXCEPT ![r] = lists'[r]]
      /\ entry' \in [Replicas -> Nat]
      /\ Len(lists'[r]) >= Len(L)
      /\ entry'[r] = Len(lists'[r])
      /\ Pending(r)' = Append(Pending(r), f)
      /\ Approvals'[r] = Approvals[r] \union {i}
    BY <1>6, <1>7
<1>9. lists' \in [Replicas -> Seq(Seq(Fragments))]
    BY <1>8, <1>2
<1>10. \A q \in Replicas : Len(lists'[q]) >= Len(lists[q])
    <2> TAKE q \in Replicas
    <2>1. Len(lists[q]) \in Nat
        BY PendingType
    <2>2. CASE q = r
        BY <2>2, <1>8
    <2>3. CASE q # r
        BY <2>1, <2>3, <1>4
    <2> QED BY <2>2, <2>3
<1>11. \A q \in Replicas : entry'[q] \in {0, Len(lists'[q])}
    BY <1>4, <1>8 DEF TypeOK
<1>12. Approvals' = [Approvals EXCEPT ![r] = @ \union {i}]
    BY <1>5, <1>8 DEF Approvals
<1> QED BY <1>5, <1>8, <1>9, <1>10, <1>11, <1>12

\* What the end of a reconstruction does to the memory of its replica: the
\* map is empty there, and who has approved is not forgotten.
LEMMA WipeStep ==
    ASSUME TypeOK, NEW h \in Handlers, Wipe(h)
    PROVE  /\ lists' \in [Replicas -> Seq(Seq(Fragments))]
           /\ entry' \in [Replicas -> Nat]
           /\ \A q \in Replicas : entry'[q] \in {0, Len(lists'[q])}
           /\ \A q \in Replicas : Len(lists'[q]) >= Len(lists[q])
           /\ Pending(h[1])' = <<>>
           /\ \A q \in Replicas \ {h[1]} : Pending(q)' = Pending(q)
           /\ Approvals' = Approvals
<1> DEFINE r == h[1]
           n == held[h]
           L == lists[r]
           M == [L EXCEPT ![n] = Zeroed(L[n])]
<1>1. r \in Replicas
    BY DEF Handlers
<1>2. /\ L \in Seq(Seq(Fragments)) /\ Len(L) \in Nat /\ DOMAIN L = 1 .. Len(L)
    BY <1>1, PendingType
<1>3. lists \in [Replicas -> Seq(Seq(Fragments))] /\ entry \in [Replicas -> Nat]
    BY DEF TypeOK
<1>4. n \in 1 .. Len(L)
    BY <1>2 DEF TypeOK, Wipe, Finish
<1>5. lists' = [lists EXCEPT ![r] = M] /\ entry' = [entry EXCEPT ![r] = 0]
    BY <1>1, <1>3 DEF Wipe
<1>6. L[n] \in Seq(Fragments)
    BY <1>2, <1>4, ElementOfSeq
<1>7. Zeroed(L[n]) \in Seq(Fragments) /\ Indices(Zeroed(L[n])) = Indices(L[n])
    BY <1>6, ZeroedIndices
<1>8. /\ M \in Seq(Seq(Fragments)) /\ Len(M) = Len(L) /\ DOMAIN M = DOMAIN L
      /\ \A m \in 1 .. Len(L) : M[m] = IF m = n THEN Zeroed(L[n]) ELSE L[m]
    BY <1>2, <1>4, <1>7, ExceptSeq
<1> HIDE DEF M
<1>9. lists'[r] = M /\ entry'[r] = 0
    BY <1>1, <1>3, <1>5
<1>10. \A q \in Replicas \ {r} : lists'[q] = lists[q] /\ entry'[q] = entry[q]
    BY <1>3, <1>5
<1>11. \A m \in DOMAIN M : Indices(M[m]) = Indices(L[m])
    BY <1>2, <1>7, <1>8
<1>12. Approvals' = Approvals
    <2>1. Approvals'[r] = Approvals[r]
        <3>1. Approvals'[r] = UNION {Indices(M[m]) : m \in DOMAIN M}
            BY <1>1, <1>9 DEF Approvals
        <3>2. Approvals[r] = UNION {Indices(L[m]) : m \in DOMAIN L}
            BY <1>1 DEF Approvals
        <3>3. {Indices(M[m]) : m \in DOMAIN M} = {Indices(L[m]) : m \in DOMAIN L}
            BY <1>8, <1>11
        <3> QED BY <3>1, <3>2, <3>3
    <2>2. \A q \in Replicas \ {r} : Approvals'[q] = Approvals[q]
        BY <1>10 DEF Approvals
    <2> QED BY <2>1, <2>2 DEF Approvals
<1>13. lists' \in [Replicas -> Seq(Seq(Fragments))] /\ entry' \in [Replicas -> Nat]
    BY <1>3, <1>5, <1>8
<1>14. \A q \in Replicas : entry'[q] \in {0, Len(lists'[q])}
    BY <1>9, <1>10 DEF TypeOK
<1>15. \A q \in Replicas : Len(lists'[q]) >= Len(lists[q])
    <2> TAKE q \in Replicas
    <2>1. Len(lists[q]) \in Nat
        BY PendingType
    <2>2. CASE q = r
        BY <2>2, <1>2, <1>8, <1>9
    <2>3. CASE q # r
        BY <2>1, <2>3, <1>10
    <2> QED BY <2>2, <2>3
<1>16. Pending(r)' = <<>>
    BY <1>9 DEF Pending
<1>17. \A q \in Replicas \ {r} : Pending(q)' = Pending(q)
    BY <1>10 DEF Pending
<1> QED BY <1>12, <1>13, <1>14, <1>15, <1>16, <1>17

\* A restart empties the memory of its replica.
LEMMA CrashStep ==
    ASSUME TypeOK, NEW r \in Replicas, Crash(r)
    PROVE  /\ lists' \in [Replicas -> Seq(Seq(Fragments))]
           /\ entry' \in [Replicas -> Nat]
           /\ \A q \in Replicas : entry'[q] \in {0, Len(lists'[q])}
           /\ Pending(r)' = <<>>
           /\ \A q \in Replicas \ {r} :
                  lists'[q] = lists[q] /\ Pending(q)' = Pending(q)
           /\ Approvals' = [Approvals EXCEPT ![r] = {}]
<1>1. lists \in [Replicas -> Seq(Seq(Fragments))] /\ entry \in [Replicas -> Nat]
    BY DEF TypeOK
<1>2. lists' = [lists EXCEPT ![r] = <<>>] /\ entry' = [entry EXCEPT ![r] = 0]
    BY DEF Crash
<1>3. lists'[r] = <<>> /\ entry'[r] = 0
    BY <1>1, <1>2
<1>4. \A q \in Replicas \ {r} : lists'[q] = lists[q] /\ entry'[q] = entry[q]
    BY <1>1, <1>2
<1>5. Approvals'[r] = {}
    BY <1>3 DEF Approvals
<1>6. \A q \in Replicas \ {r} : Approvals'[q] = Approvals[q]
    BY <1>4 DEF Approvals
<1>7. Approvals' = [Approvals EXCEPT ![r] = {}]
    BY <1>5, <1>6 DEF Approvals
<1>8. lists' \in [Replicas -> Seq(Seq(Fragments))] /\ entry' \in [Replicas -> Nat]
    BY <1>1, <1>2, EmptySeq
<1>9. \A q \in Replicas : entry'[q] \in {0, Len(lists'[q])}
    BY <1>3, <1>4 DEF TypeOK
<1> QED BY <1>3, <1>4, <1>7, <1>8, <1>9 DEF Pending

\* The steps that leave the memory alone.
LEMMA SameMemory ==
    ASSUME UNCHANGED memory
    PROVE  /\ \A q \in Replicas : Pending(q)' = Pending(q)
           /\ Approvals' = Approvals
BY DEF memory, Pending, Approvals

(***************************************************************************)
(* Type correctness.                                                       *)
(***************************************************************************)
\* What TypeOK says of the handlers.
HandlerTypes ==
    /\ step \in [Handlers -> {"idle", "hash", "event", "recEvent", "recMark",
                              "wipe"}]
    /\ mine \in [Handlers -> SUBSET Holders]
    /\ held \in [Handlers -> Nat]
    /\ used \in [Handlers -> SUBSET Holders]
    /\ key \in [Handlers -> {"none", "right", "wrong"}]

\* What TypeOK says of the rest, apart from the memory.
RestTypes ==
    /\ kek \in {"none", "generated", "released"}
    /\ emergency \in BOOLEAN
    /\ hashed \subseteq Holders
    /\ collected \subseteq Holders
    /\ rebuilt \subseteq SUBSET Holders
    /\ fragments \in Nat /\ attempts \in Nat /\ faults \in Nat

\* A handler that reconstructs holds a list of its replica.
HoldsList ==
    \A h \in Handlers : step[h] \in {"recEvent", "recMark", "wipe"} =>
                            held[h] \in DOMAIN lists[h[1]]

\* What TypeOK says of the memory.
MemoryTypes ==
    /\ lists \in [Replicas -> Seq(Seq(Fragments))]
    /\ entry \in [Replicas -> Nat]
    /\ \A r \in Replicas : entry[r] \in {0, Len(lists[r])}

\* TypeOK in its parts.
LEMMA TypeParts == TypeOK <=> MemoryTypes /\ HandlerTypes /\ RestTypes /\ HoldsList
BY DEF TypeOK, MemoryTypes, HandlerTypes, RestTypes, HoldsList

\* Ending a handler disturbs nothing the others hold.
LEMMA FinishStep ==
    ASSUME HandlerTypes, NEW h \in Handlers, NEW from, Finish(h, from)
    PROVE  /\ HandlerTypes'
           /\ step'[h] = "idle" /\ key'[h] = "none" /\ used'[h] = {}
           /\ \A g \in Handlers \ {h} :
                  /\ step'[g] = step[g] /\ held'[g] = held[g]
                  /\ used'[g] = used[g] /\ key'[g] = key[g]
BY DEF HandlerTypes, Finish

\* Going on to the next call changes a handler's step only.
LEMMA GotoStep ==
    ASSUME HandlerTypes, NEW h \in Handlers, NEW from,
           NEW to \in {"event", "recMark", "wipe"}, Goto(h, from, to)
    PROVE  /\ HandlerTypes'
           /\ step'[h] = to
           /\ \A g \in Handlers \ {h} : step'[g] = step[g]
           /\ UNCHANGED <<held, used, key>>
BY DEF HandlerTypes, Goto

\* The initial state has its types.
LEMMA TypeInit == Init => TypeOK
<1> SUFFICES ASSUME Init PROVE TypeOK
    OBVIOUS
<1>1. MemoryTypes
    <2>1. <<>> \in Seq(Seq(Fragments)) /\ Len(<<>>) = 0
        BY EmptySeq
    <2> QED BY <2>1 DEF Init, MemoryTypes
<1>2. HandlerTypes /\ RestTypes /\ HoldsList
    BY DEF Init, HandlerTypes, RestTypes, HoldsList
<1> QED BY <1>1, <1>2, TypeParts

\* Every step keeps the types.
LEMMA TypeStep == TypeOK /\ [Next]_vars => TypeOK'
<1> SUFFICES ASSUME TypeOK, [Next]_vars PROVE TypeOK'
    OBVIOUS
<1>1. MemoryTypes /\ HandlerTypes /\ RestTypes /\ HoldsList
    BY TypeParts
<1> SUFFICES MemoryTypes' /\ HandlerTypes' /\ RestTypes' /\ HoldsList'
    BY DEF TypeOK, MemoryTypes, HandlerTypes, RestTypes, HoldsList
<1>2. ASSUME UNCHANGED memory PROVE MemoryTypes'
    BY <1>1, <1>2 DEF MemoryTypes, memory
<1>3. \A h \in Handlers : h[1] \in Replicas
    BY DEF Handlers
<1>4. \A r \in Replicas : Len(lists[r]) \in Nat /\ DOMAIN lists[r] = 1 .. Len(lists[r])
    BY PendingType
<1>5. CASE UNCHANGED vars
    BY <1>1, <1>5 DEF vars, memory, docs, ledger, handlers, bounds, MemoryTypes,
                      HandlerTypes, RestTypes, HoldsList
<1>6. CASE GenerateKek
    BY <1>1, <1>2, <1>6 DEF GenerateKek, memory, handlers, ledger, bounds,
                            HandlerTypes, RestTypes, HoldsList
<1>7. ASSUME NEW h \in Handlers, NEW i \in Holders, CollectFragment(h, i)
      PROVE  MemoryTypes' /\ HandlerTypes' /\ RestTypes' /\ HoldsList'
    <2>1. /\ MemoryTypes'
          /\ \A q \in Replicas : Len(lists'[q]) >= Len(lists[q])
        BY <1>3, <1>7, KeepStep DEF CollectFragment, MemoryTypes
    <2>2. HandlerTypes'
        BY <1>1, <1>7 DEF CollectFragment, HandlerTypes
    <2>3. RestTypes'
        BY <1>1, <1>7 DEF CollectFragment, RestTypes, docs, ledger
    <2>4. HoldsList'
        <3> SUFFICES ASSUME NEW g \in Handlers,
                            step'[g] \in {"recEvent", "recMark", "wipe"}
                     PROVE  held'[g] \in DOMAIN lists'[g[1]]
            BY DEF HoldsList
        <3>1. step[g] \in {"recEvent", "recMark", "wipe"} /\ held'[g] = held[g]
            BY <1>1, <1>7 DEF CollectFragment, HandlerTypes
        <3>2. held[g] \in 1 .. Len(lists[g[1]])
            BY <1>1, <1>3, <1>4, <3>1 DEF HoldsList
        <3>3. Len(lists'[g[1]]) \in Nat /\ DOMAIN lists'[g[1]] = 1 .. Len(lists'[g[1]])
            BY <2>1, <1>3, LenProperties DEF MemoryTypes
        <3> QED BY <1>3, <1>4, <2>1, <3>1, <3>2, <3>3
    <2> QED BY <2>1, <2>2, <2>3, <2>4
<1>8. ASSUME NEW h \in Handlers, StoreHash(h) \/ LogReconstructed(h) \/ MarkReleased(h)
      PROVE  MemoryTypes' /\ HandlerTypes' /\ RestTypes' /\ HoldsList'
    <2>1. MemoryTypes'
        BY <1>2, <1>8 DEF StoreHash, LogReconstructed, MarkReleased
    <2>2. HandlerTypes' /\ HoldsList'
        <3>1. CASE StoreHash(h)
            <4>1. Goto(h, "hash", "event") /\ UNCHANGED lists
                BY <3>1 DEF StoreHash, memory
            <4> QED BY <1>1, <4>1, GotoStep DEF HoldsList
        <3>2. CASE LogReconstructed(h)
            <4>1. Goto(h, "recEvent", "recMark") /\ UNCHANGED lists
                BY <3>2 DEF LogReconstructed, memory
            <4> QED BY <1>1, <4>1, GotoStep DEF HoldsList, Goto
        <3>3. CASE MarkReleased(h)
            <4>1. Goto(h, "recMark", "wipe") /\ UNCHANGED lists
                BY <3>3 DEF MarkReleased, memory
            <4> QED BY <1>1, <4>1, GotoStep DEF HoldsList, Goto
        <3> QED BY <1>8, <3>1, <3>2, <3>3
    <2>3. RestTypes'
        <3>1. CASE StoreHash(h)
            BY <1>1, <3>1 DEF StoreHash, RestTypes, HandlerTypes, ledger, bounds
        <3>2. CASE LogReconstructed(h)
            <4>1. used[h] \in SUBSET Holders
                BY <1>1 DEF HandlerTypes
            <4>2. rebuilt' \subseteq SUBSET Holders
                BY <1>1, <3>2, <4>1 DEF LogReconstructed, RestTypes
            <4> QED BY <1>1, <3>2, <4>2 DEF LogReconstructed, RestTypes, docs,
                                            bounds, Fault
        <3>3. CASE MarkReleased(h)
            BY <1>1, <3>3 DEF MarkReleased, RestTypes, ledger, bounds
        <3> QED BY <1>8, <3>1, <3>2, <3>3
    <2> QED BY <2>1, <2>2, <2>3
<1>9. ASSUME NEW h \in Handlers, LogCollected(h) \/ MarkMissing(h) \/ Fail(h)
      PROVE  MemoryTypes' /\ HandlerTypes' /\ RestTypes' /\ HoldsList'
    <2>1. MemoryTypes' /\ UNCHANGED lists
        BY <1>2, <1>9 DEF LogCollected, MarkMissing, Fail, memory
    <2>2. Finish(h, step[h])
        BY <1>9 DEF LogCollected, MarkMissing, Fail, Finish
    <2>3. HandlerTypes' /\ HoldsList'
        BY <1>1, <2>1, <2>2, FinishStep DEF HoldsList
    <2>4. RestTypes'
        BY <1>1, <1>9 DEF LogCollected, MarkMissing, Fail, RestTypes,
                          HandlerTypes, ledger, docs, bounds, Fault
    <2> QED BY <2>1, <2>3, <2>4
<1>10. ASSUME NEW h \in Handlers, AttemptReconstruction(h)
       PROVE  MemoryTypes' /\ HandlerTypes' /\ RestTypes' /\ HoldsList'
    <2>1. MemoryTypes' /\ UNCHANGED lists
        BY <1>2, <1>10 DEF AttemptReconstruction, memory
    <2>2. /\ Indices(Pending(h[1])) \subseteq Holders
          /\ entry[h[1]] \in Nat
          /\ entry[h[1]] = 0 \/ entry[h[1]] \in DOMAIN lists[h[1]]
        BY <1>1, <1>3, PendingType DEF MemoryTypes
    <2>3. entry[h[1]] # 0
        BY <1>10 DEF AttemptReconstruction, Enough, Threshold, Pending
    <2>4. HandlerTypes'
        BY <1>1, <1>10, <2>2 DEF AttemptReconstruction, HandlerTypes, ReconstructKey
    <2>5. HoldsList'
        BY <1>1, <1>10, <2>1, <2>2, <2>3 DEF AttemptReconstruction, HandlerTypes, HoldsList
    <2>6. RestTypes'
        BY <1>1, <1>10 DEF AttemptReconstruction, RestTypes, docs, ledger
    <2> QED BY <2>1, <2>4, <2>5, <2>6
<1>11. ASSUME NEW h \in Handlers, Wipe(h)
       PROVE  MemoryTypes' /\ HandlerTypes' /\ RestTypes' /\ HoldsList'
    <2>1. /\ MemoryTypes'
          /\ \A q \in Replicas : Len(lists'[q]) >= Len(lists[q])
        BY <1>11, WipeStep DEF MemoryTypes
    <2>2. Finish(h, "wipe")
        BY <1>11 DEF Wipe
    <2>3. HandlerTypes'
        BY <1>1, <2>2, FinishStep
    <2>4. RestTypes'
        BY <1>1, <1>11 DEF Wipe, RestTypes, docs, ledger, bounds
    <2>5. HoldsList'
        <3> SUFFICES ASSUME NEW g \in Handlers,
                            step'[g] \in {"recEvent", "recMark", "wipe"}
                     PROVE  held'[g] \in DOMAIN lists'[g[1]]
            BY DEF HoldsList
        <3>1. step[g] \in {"recEvent", "recMark", "wipe"} /\ held'[g] = held[g]
            BY <1>1, <2>2, FinishStep
        <3>2. held[g] \in 1 .. Len(lists[g[1]])
            BY <1>1, <1>3, <1>4, <3>1 DEF HoldsList
        <3>3. Len(lists'[g[1]]) \in Nat /\ DOMAIN lists'[g[1]] = 1 .. Len(lists'[g[1]])
            BY <2>1, <1>3, LenProperties DEF MemoryTypes
        <3> QED BY <1>3, <1>4, <2>1, <3>1, <3>2, <3>3
    <2> QED BY <2>1, <2>3, <2>4, <2>5
<1>12. ASSUME NEW r \in Replicas, Crash(r)
       PROVE  MemoryTypes' /\ HandlerTypes' /\ RestTypes' /\ HoldsList'
    <2>1. /\ MemoryTypes'
          /\ \A q \in Replicas \ {r} : lists'[q] = lists[q]
        BY <1>12, CrashStep DEF MemoryTypes
    <2>2. HandlerTypes'
        BY <1>1, <1>12 DEF Crash, HandlerTypes
    <2>3. RestTypes'
        BY <1>1, <1>12 DEF Crash, RestTypes, docs, ledger, Fault
    <2>4. HoldsList'
        BY <1>1, <1>3, <1>12, <2>1 DEF Crash, HoldsList
    <2> QED BY <2>1, <2>2, <2>3, <2>4
<1> QED
    BY <1>5, <1>6, <1>7, <1>8, <1>9, <1>10, <1>11, <1>12 DEF Next

(***************************************************************************)
(* The pending lists.                                                      *)
(***************************************************************************)
\* What is pending stays as it is, grows by a fragment of a new index, or is
\* dropped.
LEMMA PendingStep ==
    ASSUME TypeOK, [Next]_vars, NEW r \in Replicas
    PROVE  \/ Pending(r)' = Pending(r)
           \/ \E i \in Holders :
                  /\ NotYet(r, i)
                  /\ Pending(r)' = Append(Pending(r),
                                          [index |-> i, data |-> Data(i)])
           \/ Pending(r)' = <<>> /\ (Crash(r) \/ \E h \in Handlers : Wipe(h))
<1>1. ASSUME UNCHANGED memory PROVE Pending(r)' = Pending(r)
    BY <1>1, SameMemory
<1>2. \A h \in Handlers : h[1] \in Replicas
    BY DEF Handlers
<1>3. CASE UNCHANGED vars
    BY <1>1, <1>3 DEF vars
<1>4. CASE GenerateKek
    BY <1>1, <1>4 DEF GenerateKek
<1>5. ASSUME NEW h \in Handlers, NEW i \in Holders, CollectFragment(h, i)
      PROVE  \/ Pending(r)' = Pending(r)
             \/ /\ NotYet(r, i)
                /\ Pending(r)' = Append(Pending(r), [index |-> i, data |-> Data(i)])
    <2>1. Keep(h[1], i) /\ NotYet(h[1], i) /\ h[1] \in Replicas
        BY <1>2, <1>5 DEF CollectFragment
    <2> QED BY <2>1, KeepStep
<1>6. ASSUME NEW h \in Handlers,
             \/ StoreHash(h) \/ LogCollected(h) \/ AttemptReconstruction(h)
             \/ LogReconstructed(h) \/ MarkReleased(h) \/ MarkMissing(h) \/ Fail(h)
      PROVE  Pending(r)' = Pending(r)
    BY <1>1, <1>6 DEF StoreHash, LogCollected, AttemptReconstruction,
                      LogReconstructed, MarkReleased, MarkMissing, Fail
<1>7. ASSUME NEW h \in Handlers, Wipe(h)
      PROVE  Pending(r)' = Pending(r) \/ Pending(r)' = <<>>
    BY <1>7, WipeStep
<1>8. ASSUME NEW q \in Replicas, Crash(q)
      PROVE  Pending(r)' = Pending(r) \/ (Pending(r)' = <<>> /\ Crash(r))
    BY <1>8, CrashStep
<1> QED
    BY <1>3, <1>4, <1>5, <1>6, <1>7, <1>8 DEF Next

\* Pending fragments stay intact and their indices different.
LEMMA ListsStep ==
    TypeOK /\ Intact /\ Unique /\ [Next]_vars => Intact' /\ Unique'
<1> SUFFICES ASSUME TypeOK, Intact, Unique, [Next]_vars, NEW r \in Replicas
             PROVE  /\ \A k \in DOMAIN Pending(r)' :
                           Pending(r)'[k].data = Data(Pending(r)'[k].index)
                    /\ \A j, k \in DOMAIN Pending(r)' :
                           Pending(r)'[j].index = Pending(r)'[k].index => j = k
    BY DEF Intact, Unique, Data
<1> DEFINE P == Pending(r)
           Q == Pending(r)'
<1>1. /\ P \in Seq(Fragments) /\ DOMAIN P = 1 .. Len(P) /\ Len(P) \in Nat
      /\ \A k \in DOMAIN P : P[k].data = Data(P[k].index)
      /\ \A j, k \in DOMAIN P : P[j].index = P[k].index => j = k
    BY PendingType, LenProperties DEF Intact, Unique
<1>2. CASE Q = P
    BY <1>1, <1>2
<1>3. CASE Q = <<>>
    BY <1>3
<1>4. ASSUME NEW i \in Holders, NotYet(r, i),
             Q = Append(P, [index |-> i, data |-> Data(i)])
      PROVE  /\ \A k \in DOMAIN Q : Q[k].data = Data(Q[k].index)
             /\ \A j, k \in DOMAIN Q : Q[j].index = Q[k].index => j = k
    <2> DEFINE f == [index |-> i, data |-> Data(i)]
    <2>1. f \in Fragments
        BY DEF Fragments, Data
    <2> HIDE DEF P, Q
    <2>2. /\ DOMAIN Q = 1 .. Len(P) + 1
          /\ \A k \in 1 .. Len(P) : Q[k] = P[k]
          /\ Q[Len(P) + 1] = f
        BY <1>1, <1>4, <2>1, AppendProperties, LenProperties
    <2>3. \A k \in DOMAIN P : P[k].index # i
        BY <1>4 DEF NotYet, Indices, P
    <2>4. \A k \in DOMAIN Q : \/ k \in DOMAIN P /\ Q[k] = P[k]
                              \/ k = Len(P) + 1 /\ Q[k] = f
        BY <1>1, <2>2
    <2>5. f.index = i /\ f.data = Data(i)
        OBVIOUS
    <2> HIDE DEF f
    <2>6. \A k \in DOMAIN Q : Q[k].data = Data(Q[k].index)
        BY <1>1, <2>4, <2>5
    <2>7. \A j, k \in DOMAIN Q : Q[j].index = Q[k].index => j = k
        BY <1>1, <2>3, <2>4, <2>5
    <2> QED BY <2>6, <2>7
<1> QED
    BY <1>2, <1>3, <1>4, PendingStep

(***************************************************************************)
(* The reconstructions.                                                    *)
(***************************************************************************)
\* What a reconstruction has rebuilt when it starts to wait.
LEMMA AttemptStep ==
    ASSUME TypeOK, Intact, Unique, NEW h \in Handlers, AttemptReconstruction(h)
    PROVE  /\ used'[h] \subseteq Approvals[h[1]]
           /\ Cardinality(used'[h]) >= Threshold
           /\ key'[h] = "wrong" => used'[h] \intersect (Wrong \union Short) # {}
<1> DEFINE list == Pending(h[1])
<1>1. h[1] \in Replicas
    BY DEF Handlers
<1>2. /\ list \in Seq(Fragments)
      /\ Indices(list) \subseteq Approvals[h[1]]
    BY <1>1, PendingType
<1>3. /\ \A k \in DOMAIN list : list[k].data = Data(list[k].index)
      /\ \A j, k \in DOMAIN list : list[j].index = list[k].index => j = k
    BY <1>1 DEF Intact, Unique
<1>4. /\ used'[h] = Indices(list)
      /\ key'[h] = ReconstructKey(list)
      /\ Len(list) >= Threshold
    BY DEF AttemptReconstruction, Enough, TypeOK
<1> HIDE DEF list
<1>5. Cardinality(Indices(list)) = Len(list)
    BY <1>2, <1>3, CountIndices
<1>6. ASSUME key'[h] = "wrong"
      PROVE  Indices(list) \intersect (Wrong \union Short) # {}
    <2>1. PICK k \in DOMAIN list : list[k].data # "share"
        BY <1>4, <1>6 DEF ReconstructKey
    <2>2. list[k].index \in Wrong \union Short
        BY <1>3, <2>1 DEF Data
    <2>3. list[k].index \in Indices(list)
        BY DEF Indices
    <2> QED BY <2>2, <2>3
<1> QED BY <1>2, <1>4, <1>5, <1>6

\* Reconstructions stay sound to the moment the document is marked.
LEMMA SoundStep == IInv /\ [Next]_vars => StepsSound' /\ WrongOnlyFromWrong'
<1> SUFFICES ASSUME IInv, [Next]_vars PROVE StepsSound' /\ WrongOnlyFromWrong'
    OBVIOUS
<1> USE DEF IInv
<1>1. HandlerTypes
    BY TypeParts
<1>2. \A g \in Handlers : g[1] \in Replicas
    BY DEF Handlers
<1>3. \A q \in Replicas : q \in DOMAIN Approvals
    BY DEF Approvals
<1>4. ASSUME Approvals' = Approvals, UNCHANGED <<step, used, key>>
      PROVE  StepsSound' /\ WrongOnlyFromWrong'
    BY <1>4 DEF StepsSound, WrongOnlyFromWrong
<1>5. ASSUME NEW h \in Handlers, Finish(h, step[h]), Approvals' = Approvals
      PROVE  StepsSound' /\ WrongOnlyFromWrong'
    BY <1>1, <1>5, FinishStep DEF StepsSound, WrongOnlyFromWrong
<1>6. CASE UNCHANGED vars
    BY <1>4, <1>6, SameMemory DEF vars, handlers
<1>7. CASE GenerateKek
    BY <1>4, <1>7, SameMemory DEF GenerateKek, handlers
<1>8. ASSUME NEW h \in Handlers, NEW i \in Holders, CollectFragment(h, i)
      PROVE  StepsSound' /\ WrongOnlyFromWrong'
    <2>1. Approvals' = [Approvals EXCEPT ![h[1]] = @ \union {i}]
        BY <1>2, <1>8, KeepStep DEF CollectFragment
    <2>2. \A q \in Replicas : Approvals[q] \subseteq Approvals'[q]
        BY <2>1, <1>3
    <2>3. /\ step' = [step EXCEPT ![h] = "hash"]
          /\ UNCHANGED <<used, key>>
        BY <1>8 DEF CollectFragment
    <2>4. WrongOnlyFromWrong'
        BY <2>3 DEF WrongOnlyFromWrong
    <2>5. \A g \in Handlers : step'[g] \in {"recEvent", "recMark"} => step'[g] = step[g]
        BY <1>1, <2>3 DEF HandlerTypes
    <2>6. StepsSound'
        BY <1>2, <2>2, <2>3, <2>5 DEF StepsSound
    <2> QED BY <2>4, <2>6
<1>9. ASSUME NEW h \in Handlers,
             StoreHash(h) \/ LogReconstructed(h) \/ MarkReleased(h)
      PROVE  StepsSound' /\ WrongOnlyFromWrong'
    <2>1. Approvals' = Approvals
        BY <1>9, SameMemory DEF StoreHash, LogReconstructed, MarkReleased
    <2>2. /\ UNCHANGED <<used, key>>
          /\ \A g \in Handlers : step'[g] \in {"recEvent", "recMark"} =>
                                     step[g] \in {"recEvent", "recMark"}
        <3>1. CASE StoreHash(h)
            BY <1>1, <3>1, GotoStep DEF StoreHash
        <3>2. CASE LogReconstructed(h)
            <4>1. Goto(h, "recEvent", "recMark") /\ step[h] = "recEvent"
                BY <3>2 DEF LogReconstructed, Goto
            <4> QED BY <1>1, <4>1, GotoStep
        <3>3. CASE MarkReleased(h)
            BY <1>1, <3>3, GotoStep DEF MarkReleased
        <3> QED BY <1>9, <3>1, <3>2, <3>3
    <2> QED BY <2>1, <2>2 DEF StepsSound, WrongOnlyFromWrong
<1>10. ASSUME NEW h \in Handlers, LogCollected(h) \/ MarkMissing(h) \/ Fail(h)
       PROVE  StepsSound' /\ WrongOnlyFromWrong'
    <2>1. Approvals' = Approvals
        BY <1>10, SameMemory DEF LogCollected, MarkMissing, Fail
    <2>2. Finish(h, step[h])
        BY <1>10 DEF LogCollected, MarkMissing, Fail, Finish
    <2> QED BY <1>5, <2>1, <2>2
<1>11. ASSUME NEW h \in Handlers, AttemptReconstruction(h)
       PROVE  StepsSound' /\ WrongOnlyFromWrong'
    <2>1. Approvals' = Approvals
        BY <1>11, SameMemory DEF AttemptReconstruction
    <2>2. /\ used'[h] \subseteq Approvals[h[1]]
          /\ Cardinality(used'[h]) >= Threshold
          /\ key'[h] = "wrong" => used'[h] \intersect (Wrong \union Short) # {}
        BY <1>11, AttemptStep
    <2>3. \A g \in Handlers \ {h} :
              step'[g] = step[g] /\ used'[g] = used[g] /\ key'[g] = key[g]
        BY <1>1, <1>11 DEF AttemptReconstruction, HandlerTypes
    <2>4. StepsSound'
        BY <2>1, <2>2, <2>3 DEF StepsSound
    <2>5. WrongOnlyFromWrong'
        BY <2>2, <2>3 DEF WrongOnlyFromWrong
    <2> QED BY <2>4, <2>5
<1>12. ASSUME NEW h \in Handlers, Wipe(h)
       PROVE  StepsSound' /\ WrongOnlyFromWrong'
    <2>1. Approvals' = Approvals /\ Finish(h, step[h])
        BY <1>12, WipeStep DEF Wipe, Finish
    <2> QED BY <1>5, <2>1
<1>13. ASSUME NEW r \in Replicas, Crash(r)
       PROVE  StepsSound' /\ WrongOnlyFromWrong'
    <2>1. Approvals' = [Approvals EXCEPT ![r] = {}]
        BY <1>13, CrashStep
    <2>2. \A g \in Handlers :
              IF g[1] = r THEN step'[g] = "idle" /\ key'[g] = "none"
                          ELSE /\ step'[g] = step[g] /\ used'[g] = used[g]
                               /\ key'[g] = key[g]
        BY <1>13 DEF Crash
    <2>3. \A g \in Handlers : g[1] # r => Approvals'[g[1]] = Approvals[g[1]]
        BY <1>2, <1>3, <2>1
    <2>4. StepsSound'
        BY <2>2, <2>3 DEF StepsSound
    <2>5. WrongOnlyFromWrong'
        <3> SUFFICES ASSUME NEW g \in Handlers, key'[g] = "wrong"
                     PROVE  used'[g] \intersect (Wrong \union Short) # {}
            BY DEF WrongOnlyFromWrong
        <3>1. key[g] = "wrong" /\ used'[g] = used[g]
            BY <2>2
        <3> QED BY <3>1 DEF WrongOnlyFromWrong
    <2> QED BY <2>4, <2>5
<1> QED
    BY <1>6, <1>7, <1>8, <1>9, <1>10, <1>11, <1>12, <1>13 DEF Next

\* The document stays marked, and only marking it leads to the wiping.
LEMMA MarkStep == TypeOK /\ WipeAfterMark /\ [Next]_vars => WipeAfterMark'
<1> SUFFICES ASSUME TypeOK, WipeAfterMark, [Next]_vars,
                    NEW g \in Handlers, step'[g] = "wipe"
             PROVE  emergency'
    BY DEF WipeAfterMark
<1>1. HandlerTypes
    BY TypeParts
<1>2. CASE UNCHANGED <<step, emergency>>
    BY <1>2 DEF WipeAfterMark
<1>3. ASSUME NEW h \in Handlers, Finish(h, step[h]), UNCHANGED emergency
      PROVE  emergency'
    BY <1>1, <1>3, FinishStep DEF WipeAfterMark
<1>4. CASE UNCHANGED vars \/ GenerateKek
    BY <1>2, <1>4 DEF vars, handlers, docs, GenerateKek
<1>5. ASSUME NEW h \in Handlers, NEW i \in Holders, CollectFragment(h, i)
      PROVE  emergency'
    BY <1>1, <1>5 DEF CollectFragment, WipeAfterMark, HandlerTypes, docs
<1>6. ASSUME NEW h \in Handlers, StoreHash(h) \/ LogReconstructed(h)
      PROVE  emergency'
    BY <1>1, <1>6, GotoStep DEF StoreHash, LogReconstructed, WipeAfterMark, docs
<1>7. ASSUME NEW h \in Handlers, MarkReleased(h) PROVE emergency'
    BY <1>7 DEF MarkReleased
<1>8. ASSUME NEW h \in Handlers,
             LogCollected(h) \/ MarkMissing(h) \/ Wipe(h) \/ Fail(h)
      PROVE  emergency'
    <2>1. Finish(h, step[h]) /\ UNCHANGED emergency
        BY <1>8 DEF LogCollected, MarkMissing, Wipe, Fail, Finish, docs
    <2> QED BY <1>3, <2>1
<1>9. ASSUME NEW h \in Handlers, AttemptReconstruction(h) PROVE emergency'
    BY <1>1, <1>9 DEF AttemptReconstruction, WipeAfterMark, HandlerTypes, docs
<1>10. ASSUME NEW r \in Replicas, Crash(r) PROVE emergency'
    BY <1>10 DEF Crash, WipeAfterMark, docs
<1> QED
    BY <1>4, <1>5, <1>6, <1>7, <1>8, <1>9, <1>10 DEF Next

(***************************************************************************)
(* The invariant and what follows from it.                                 *)
(***************************************************************************)
\* IInv holds in every reachable state.
LEMMA Invariance == Spec => []IInv
<1>1. Init => IInv
    <2> SUFFICES ASSUME Init PROVE IInv
        OBVIOUS
    <2>1. TypeOK
        BY TypeInit
    <2>2. \A r \in Replicas : Pending(r) = <<>>
        BY DEF Init, Pending
    <2>3. Intact /\ Unique
        BY <2>2 DEF Intact, Unique
    <2>4. StepsSound /\ WrongOnlyFromWrong /\ WipeAfterMark
        BY DEF Init, StepsSound, WrongOnlyFromWrong, WipeAfterMark
    <2> QED BY <2>1, <2>3, <2>4 DEF IInv
<1>2. IInv /\ [Next]_vars => IInv'
    BY TypeStep, ListsStep, SoundStep, MarkStep DEF IInv
<1> QED BY <1>1, <1>2, PTL DEF Spec

\* The stores, the memory and the handlers keep to their types.
THEOREM TypeCorrect == Spec => []TypeOK
<1>1. IInv => TypeOK
    BY DEF IInv
<1> QED BY <1>1, Invariance, PTL

\* A key is wrong only if a fragment was: nobody reads a wiped buffer.
THEOREM RebuiltFromIntact == Spec => []WrongOnlyFromWrong
<1>1. IInv => WrongOnlyFromWrong
    BY DEF IInv
<1> QED BY <1>1, Invariance, PTL

\* reconstructKey refuses pending fragments only for their lengths.
THEOREM RacesDoNotBlock == Spec => []NotBlocked
<1>1. IInv => NotBlocked
    <2> SUFFICES ASSUME IInv, NEW r \in Replicas,
                        Indices(Pending(r)) \intersect Short = {}
                 PROVE  Consistent(Pending(r))
        BY DEF NotBlocked
    <2>1. \A k \in DOMAIN Pending(r) :
              /\ Pending(r)[k].data = Data(Pending(r)[k].index)
              /\ Pending(r)[k].index \notin Short
        BY DEF IInv, Intact, Indices
    <2>2. \A k \in DOMAIN Pending(r) : Pending(r)[k].data # "short"
        BY <2>1 DEF Data
    <2> QED BY <2>2 DEF IInv, Unique, Consistent
<1> QED BY <1>1, Invariance, PTL

\* Only a restart or a release loses a pending fragment.
THEOREM FragmentsAreKept == Spec => KeptUntilReleased
<1> DEFINE A == ~emergency' =>
                   \A r \in Replicas : Crash(r) \/ \A k \in DOMAIN Pending(r) :
                       k \in DOMAIN Pending(r)' /\ Pending(r)'[k] = Pending(r)[k]
<1>1. IInv /\ [Next]_vars => [A]_vars
    <2> SUFFICES ASSUME IInv, [Next]_vars, ~emergency',
                        NEW r \in Replicas, ~Crash(r)
                 PROVE  \A k \in DOMAIN Pending(r) :
                            k \in DOMAIN Pending(r)' /\ Pending(r)'[k] = Pending(r)[k]
        OBVIOUS
    <2>1. \A h \in Handlers : ~Wipe(h)
        BY DEF IInv, WipeAfterMark, Wipe, Finish, docs
    <2>2. CASE Pending(r)' = Pending(r)
        BY <2>2
    <2>3. ASSUME NEW i \in Holders,
                 Pending(r)' = Append(Pending(r), [index |-> i, data |-> Data(i)])
          PROVE  \A k \in DOMAIN Pending(r) :
                     k \in DOMAIN Pending(r)' /\ Pending(r)'[k] = Pending(r)[k]
        <3> DEFINE P == Pending(r)
                   f == [index |-> i, data |-> Data(i)]
        <3>1. f \in Fragments
            BY DEF Fragments, Data
        <3>2. P \in Seq(Fragments)
            BY PendingType DEF IInv
        <3>3. DOMAIN P = 1 .. Len(P) /\ Len(P) \in Nat
            BY <3>2, LenProperties
        <3> HIDE DEF P, f
        <3>4. /\ DOMAIN Append(P, f) = 1 .. Len(P) + 1
              /\ \A k \in 1 .. Len(P) : Append(P, f)[k] = P[k]
            BY <3>1, <3>2, AppendProperties, LenProperties
        <3>5. \A k \in DOMAIN P : k \in DOMAIN Append(P, f) /\ Append(P, f)[k] = P[k]
            BY <3>3, <3>4
        <3> QED BY <2>3, <3>5 DEF P, f
    <2> QED BY <2>1, <2>2, <2>3, PendingStep DEF IInv
<1> QED BY <1>1, Invariance, PTL DEF Spec, KeptUntilReleased

(***************************************************************************)
(* The refinement.                                                         *)
(***************************************************************************)
\* Every step of the service is a step of EmergencyApproval or leaves its
\* variables.
LEMMA StepImplementsApproval ==
    ASSUME IInv, [Next]_vars
    PROVE  [Approval!ApprovalNext]_(Approval!approvalVars)
<1> USE DEF IInv, Approval!ApprovalNext, Approval!approvalVars
<1>1. \A h \in Handlers : h[1] \in Replicas
    BY DEF Handlers
<1>2. CASE UNCHANGED <<memory, kek, emergency>>
    BY <1>2, SameMemory
<1>3. CASE UNCHANGED vars
    BY <1>2, <1>3 DEF vars, docs
<1>4. CASE GenerateKek
    <2>1. Approvals' = Approvals
        BY <1>4, SameMemory DEF GenerateKek
    <2> QED BY <1>4, <2>1 DEF GenerateKek, Approval!Generate
<1>5. ASSUME NEW h \in Handlers, NEW i \in Holders, CollectFragment(h, i)
      PROVE  [Approval!ApprovalNext]_(Approval!approvalVars)
    <2>1. Approvals' = [Approvals EXCEPT ![h[1]] = @ \union {i}]
        BY <1>1, <1>5, KeepStep DEF CollectFragment
    <2>2. Approval!Approve(h[1], i)
        BY <1>5, <2>1 DEF CollectFragment, docs, Approval!Approve
    <2> QED BY <1>1, <2>2
<1>6. ASSUME NEW h \in Handlers,
             \/ StoreHash(h) \/ LogCollected(h) \/ AttemptReconstruction(h)
             \/ LogReconstructed(h) \/ MarkMissing(h) \/ Fail(h)
      PROVE  [Approval!ApprovalNext]_(Approval!approvalVars)
    BY <1>2, <1>6 DEF StoreHash, LogCollected, AttemptReconstruction,
                      LogReconstructed, MarkMissing, Fail, docs
<1>7. ASSUME NEW h \in Handlers, MarkReleased(h)
      PROVE  [Approval!ApprovalNext]_(Approval!approvalVars)
    <2>1. Approvals' = Approvals
        BY <1>7, SameMemory DEF MarkReleased
    <2>2. /\ used[h] \subseteq Approvals[h[1]]
          /\ Cardinality(used[h]) >= Threshold
        BY <1>7 DEF StepsSound, MarkReleased, Goto
    <2>3. IsFiniteSet(Approvals[h[1]])
        BY <1>1, PendingType, HoldersAssumption, FS_Subset
    <2>4. /\ Cardinality(used[h]) \in Nat /\ Cardinality(Approvals[h[1]]) \in Nat
          /\ Cardinality(used[h]) <= Cardinality(Approvals[h[1]])
        BY <2>2, <2>3, FS_Subset, FS_CardinalityType
    <2>5. Cardinality(Approvals[h[1]]) >= Threshold
        BY <2>2, <2>4 DEF Threshold
    <2>6. Approval!Cardinality(Approvals[h[1]]) = Cardinality(Approvals[h[1]])
        BY DEF Approval!Cardinality, Cardinality
    <2>7. Approval!Release(h[1])
        BY <1>7, <2>1, <2>5, <2>6 DEF MarkReleased, Approval!Release
    <2> QED BY <1>1, <2>7
<1>8. ASSUME NEW h \in Handlers, Wipe(h)
      PROVE  [Approval!ApprovalNext]_(Approval!approvalVars)
    BY <1>8, WipeStep DEF Wipe, docs
<1>9. ASSUME NEW r \in Replicas, Crash(r)
      PROVE  [Approval!ApprovalNext]_(Approval!approvalVars)
    <2>1. Approval!Forget(r)
        BY <1>9, CrashStep DEF Crash, docs, Approval!Forget
    <2> QED BY <2>1
<1> QED
    BY <1>3, <1>4, <1>5, <1>6, <1>7, <1>8, <1>9 DEF Next

\* The KEK is marked only while a replica has the fragments of Threshold
\* different holders.
THEOREM ThresholdHeld == Spec => ImplementsApproval
<1>1. Init => Approval!ApprovalInit
    <2> SUFFICES ASSUME Init PROVE Approvals = [r \in Replicas |-> {}]
        BY DEF Init, Approval!ApprovalInit
    <2>1. \A r \in Replicas : lists[r] = <<>>
        BY DEF Init
    <2>2. \A r \in Replicas :
              UNION {Indices(lists[r][n]) : n \in DOMAIN lists[r]} = {}
        BY <2>1
    <2> QED BY <2>2 DEF Approvals
<1>2. IInv /\ [Next]_vars => [Approval!ApprovalNext]_(Approval!approvalVars)
    BY StepImplementsApproval
<1> QED
    BY <1>1, <1>2, Invariance, PTL
       DEF Spec, ImplementsApproval, Approval!ApprovalSpec
=============================================================================
