------------------------ MODULE MatchDecisionsProofs ------------------------
(***************************************************************************)
(* Theorems about MatchDecisions for every catalogue, every score and any  *)
(* number of web threads.                                                  *)
(***************************************************************************)
EXTENDS MatchDecisions, FiniteSetTheorems, TLAPS, WellFoundedInduction

-----------------------------------------------------------------------------
(* Types *)

\* The step tells what a thread is serving.
LEMMA StepKind ==
    ASSUME TypeOK, NEW w \in Threads
    PROVE  /\ request[w].step \in {"checked", "read"} => request[w] \in Decision
           /\ request[w].step \in {"rejected", "saved"} => request[w] \in View
           /\ request[w] = Idle <=> request[w].step = "idle"
  <1>1. request[w] \in {Idle} \cup Decision \cup View
    BY DEF TypeOK
  <1>2. \A d \in Decision : d.step \in {"checked", "read"}
    BY DEF Decision
  <1>3. \A v \in View : v.step \in {"rejected", "saved"}
    BY DEF View
  <1>4. Idle.step = "idle"
    BY DEF Idle
  <1> QED BY <1>1, <1>2, <1>3, <1>4

LEMMA PairParts ==
    ASSUME NEW p \in Pairs
    PROVE  p[1] \in Refs /\ p[2] \in Targets /\ p = <<p[1], p[2]>>
  <1>1. p \in Refs \X Targets
    BY ConstantsAssumption
  <1> QED BY <1>1

LEMMA RequestTyped ==
    ASSUME TypeOK, NEW w \in Threads,
           NEW x \in {Idle} \cup Decision \cup View,
           request' = [request EXCEPT ![w] = x]
    PROVE  /\ request' \in [Threads -> {Idle} \cup Decision \cup View]
           /\ request'[w] = x
           /\ \A u \in Threads \ {w} : request'[u] = request[u]
  <1>1. request \in [Threads -> {Idle} \cup Decision \cup View]
    BY DEF TypeOK
  <1> HIDE DEF Idle
  <1> QED BY <1>1

LEMMA TypeInit == Init => TypeOK
  BY DEF Init, TypeOK

LEMMA AnnounceTyped ==
    ASSUME NEW p \in Pairs, NEW S, TypeOK, Announce(p, S)
    PROVE  /\ news' \in [Threads -> SUBSET Pairs]
           /\ \A w \in Threads \ S : request[w] # Idle =>
                  news'[w] = news[w] \cup {p}
  BY DEF Announce, TypeOK

\* What a step does to the thread that takes it.
LEMMA DecideCheckThread ==
    ASSUME TypeOK, NEW w \in Threads, NEW p \in Pairs, NEW s \in Statuses,
           DecideCheck(w, p, s)
    PROVE  /\ request'[w] \in Decision /\ request'[w].step = "checked"
           /\ request'[w].pair = p /\ request'[w].status = s
           /\ request' \in [Threads -> {Idle} \cup Decision \cup View]
           /\ \A u \in Threads \ {w} : request'[u] = request[u]
  <1> DEFINE d == [step |-> "checked", pair |-> p, status |-> s,
                   seen |-> "none", gone |-> FALSE]
  <1>1. d \in Decision
    BY DEF Decision
  <1>2. request' = [request EXCEPT ![w] = d]
    BY DEF DecideCheck
  <1>3. d.step = "checked" /\ d.pair = p /\ d.status = s
    OBVIOUS
  <1> HIDE DEF d
  <1> QED BY <1>1, <1>2, <1>3, RequestTyped

LEMMA DecideReadThread ==
    ASSUME TypeOK, NEW w \in Threads, DecideRead(w)
    PROVE  /\ request[w] \in Decision /\ request'[w] \in Decision
           /\ request'[w].step = "read"
           /\ request'[w].pair = request[w].pair
           /\ request'[w].status = request[w].status
           /\ request' \in [Threads -> {Idle} \cup Decision \cup View]
           /\ \A u \in Threads \ {w} : request'[u] = request[u]
  <1> DEFINE d == [request[w] EXCEPT !.step = "read",
                                     !.seen = mapping[request[w].pair]]
  <1>1. request[w] \in Decision
    BY StepKind DEF DecideRead
  <1>2. mapping[request[w].pair] \in Statuses \cup {"none"}
    BY <1>1 DEF Decision, TypeOK
  <1>3. /\ d \in Decision /\ d.step = "read" /\ d.pair = request[w].pair
        /\ d.status = request[w].status
    BY <1>1, <1>2 DEF Decision
  <1>4. request' = [request EXCEPT ![w] = d]
    BY <1>1 DEF DecideRead, Decision, TypeOK
  <1> HIDE DEF d
  <1> QED BY <1>1, <1>3, <1>4, RequestTyped

LEMMA EndThread ==
    ASSUME TypeOK, NEW w \in Threads,
           request' = [request EXCEPT ![w] = Idle]
    PROVE  /\ request'[w] = Idle
           /\ request' \in [Threads -> {Idle} \cup Decision \cup View]
           /\ \A u \in Threads \ {w} : request'[u] = request[u]
  BY RequestTyped

\* A deletion tells who has read the row and changes nothing else.
LEMMA DeleteThreads ==
    ASSUME TypeOK, NEW p \in Pairs, DeletePair(p)
    PROVE  /\ request' \in [Threads -> {Idle} \cup Decision \cup View]
           /\ \A u \in Threads :
                 \/ request'[u] = request[u]
                 \/ /\ request[u] \in Decision /\ request'[u] \in Decision
                    /\ request'[u].step = request[u].step
                    /\ request'[u].pair = request[u].pair
                    /\ request'[u].status = request[u].status
  <1> DEFINE f(u) == IF request[u].step = "read" /\ request[u].pair = p
                           /\ request[u].seen # "none"
                     THEN [request[u] EXCEPT !.gone = TRUE] ELSE request[u]
  <1>1. request' = [u \in Threads |-> f(u)]
    BY DEF DeletePair
  <1>2. ASSUME NEW u \in Threads
        PROVE  /\ f(u) \in {Idle} \cup Decision \cup View
               /\ \/ f(u) = request[u]
                  \/ /\ request[u] \in Decision /\ f(u) \in Decision
                     /\ f(u).step = request[u].step
                     /\ f(u).pair = request[u].pair
                     /\ f(u).status = request[u].status
    <2>1. CASE request[u].step = "read" /\ request[u].pair = p
                  /\ request[u].seen # "none"
      <3>1. request[u] \in Decision
        BY <2>1, StepKind
      <3>2. f(u) = [request[u] EXCEPT !.gone = TRUE]
        BY <2>1
      <3>3. /\ f(u) \in Decision
            /\ f(u).step = request[u].step /\ f(u).pair = request[u].pair
            /\ f(u).status = request[u].status
        BY <3>1, <3>2 DEF Decision
      <3> QED BY <3>1, <3>3
    <2>2. CASE ~(request[u].step = "read" /\ request[u].pair = p
                    /\ request[u].seen # "none")
      <3>1. f(u) = request[u]
        BY <2>2
      <3> HIDE DEF f
      <3> QED BY <3>1 DEF TypeOK
    <2> QED BY <2>1, <2>2
  <1> HIDE DEF f
  <1> QED BY <1>1, <1>2

LEMMA CompareRejectedThread ==
    ASSUME TypeOK, NEW w \in Threads, NEW c \in RefCats,
           NEW cats \in SUBSET TgtCats, CompareRejected(w, c, cats)
    PROVE  /\ request'[w] \in View /\ request'[w].step = "rejected"
           /\ request'[w].cat = c
           /\ request'[w].rejected =
                 {p \in Pairs : RefCat[p[1]] = c /\ mapping[p] = "rejected"}
           /\ request' \in [Threads -> {Idle} \cup Decision \cup View]
           /\ \A u \in Threads \ {w} : request'[u] = request[u]
  <1> DEFINE R == {p \in Pairs : RefCat[p[1]] = c /\ mapping[p] = "rejected"}
             v == [step |-> "rejected", cat |-> c, cats |-> cats,
                   rejected |-> R, taken |-> {}, todo |-> {}, saved |-> {}]
  <1>1. request' = [request EXCEPT ![w] = v]
    BY DEF CompareRejected
  <1>2. v \in View /\ v.step = "rejected" /\ v.cat = c /\ v.rejected = R
    <2>1. R \in SUBSET Pairs
      OBVIOUS
    <2> HIDE DEF R
    <2> QED BY <2>1 DEF View
  <1> HIDE DEF v
  <1> QED BY <1>1, <1>2, RequestTyped

LEMMA CompareTakenThread ==
    ASSUME TypeOK, NEW w \in Threads, CompareTaken(w)
    PROVE  /\ request[w] \in View /\ request'[w] \in View
           /\ request'[w].step = "saved"
           /\ request'[w].cat = request[w].cat
           /\ request'[w].cats = request[w].cats
           /\ request'[w].rejected = request[w].rejected
           /\ request'[w].todo = RefsOf(request[w])
           /\ request'[w].taken =
                 {t \in TargetsOf(request[w]) :
                      \E p \in Pairs : p[2] = t /\ mapping[p] = "confirmed"}
           /\ request' \in [Threads -> {Idle} \cup Decision \cup View]
           /\ \A u \in Threads \ {w} : request'[u] = request[u]
  <1> DEFINE K == {t \in TargetsOf(request[w]) :
                      \E p \in Pairs : p[2] = t /\ mapping[p] = "confirmed"}
             D == RefsOf(request[w])
             v == [request[w] EXCEPT !.step = "saved", !.taken = K, !.todo = D]
  <1>1. request[w] \in View
    BY StepKind DEF CompareTaken
  <1>2. K \in SUBSET Targets /\ D \in SUBSET Refs
    BY DEF TargetsOf, RefsOf
  <1>3. request' = [request EXCEPT ![w] = v]
    BY <1>1 DEF CompareTaken, View, TypeOK
  <1>4. /\ v \in View /\ v.step = "saved" /\ v.cat = request[w].cat
        /\ v.cats = request[w].cats /\ v.rejected = request[w].rejected
        /\ v.todo = D /\ v.taken = K
    <2> HIDE DEF K, D
    <2> QED BY <1>1, <1>2 DEF View
  <1> HIDE DEF v
  <1> QED BY <1>1, <1>3, <1>4, RequestTyped

LEMMA CompareSavedThread ==
    ASSUME TypeOK, NEW w \in Threads, CompareSaved(w)
    PROVE  /\ request[w] \in View /\ request'[w] \in View
           /\ request'[w].step = "saved"
           /\ request'[w].cat = request[w].cat
           /\ request'[w].cats = request[w].cats
           /\ request'[w].rejected = request[w].rejected
           /\ request'[w].taken = request[w].taken
           /\ \E r \in request[w].todo :
                 /\ request'[w].todo = request[w].todo \ {r}
                 /\ request'[w].saved = request[w].saved \cup
                       {p \in Pairs : p[1] = r /\ mapping[p] = "confirmed"}
           /\ request' \in [Threads -> {Idle} \cup Decision \cup View]
           /\ \A u \in Threads \ {w} : request'[u] = request[u]
  <1>1. request[w] \in View
    BY StepKind DEF CompareSaved
  <1>2. PICK r \in request[w].todo :
           request' = [request EXCEPT
                  ![w].todo = @ \ {r},
                  ![w].saved = @ \cup {p \in Pairs : /\ p[1] = r
                                                     /\ mapping[p] = "confirmed"}]
    BY DEF CompareSaved
  <1> DEFINE S == request[w].saved \cup
                      {p \in Pairs : p[1] = r /\ mapping[p] = "confirmed"}
             v == [request[w] EXCEPT !.todo = request[w].todo \ {r}, !.saved = S]
  <1>3. request' = [request EXCEPT ![w] = v]
    BY <1>1, <1>2 DEF View, TypeOK
  <1>4. request[w].step = "saved"
    BY DEF CompareSaved
  <1>5. S \in SUBSET Pairs
    BY <1>1 DEF View
  <1>6. /\ v \in View /\ v.step = "saved" /\ v.cat = request[w].cat
        /\ v.cats = request[w].cats /\ v.rejected = request[w].rejected
        /\ v.taken = request[w].taken
        /\ v.todo = request[w].todo \ {r} /\ v.saved = S
    <2> HIDE DEF S
    <2> QED BY <1>1, <1>4, <1>5 DEF View
  <1> HIDE DEF v
  <1> QED BY <1>1, <1>3, <1>6, RequestTyped

-----------------------------------------------------------------------------
(* The invariant.  A request knows every conflict that is not news to it,  *)
(* and the snapshots of a comparison agree with the table on every pair    *)
(* that is not news to it.                                                 *)

DecisionOk(w) ==
    request[w].step \in {"checked", "read"} /\ request[w].status = "confirmed" =>
        \A q \in Pairs :
            q[2] = request[w].pair[2] /\ q[1] # request[w].pair[1]
                /\ mapping[q] = "confirmed" => q \in news[w]

RejectedOk(w) ==
    request[w].step \in {"rejected", "saved"} =>
        \A p \in Pairs \ news[w] : RefCat[p[1]] = request[w].cat =>
            (p \in request[w].rejected <=> mapping[p] = "rejected")

TakenOk(w) ==
    request[w].step = "saved" =>
        \A p \in Pairs \ news[w] :
            mapping[p] = "confirmed" /\ p[2] \in TargetsOf(request[w]) =>
                p[2] \in request[w].taken

SavedOk(w) ==
    request[w].step = "saved" =>
        \A p \in Pairs \ news[w] :
            mapping[p] = "confirmed"
                /\ p[1] \in RefsOf(request[w]) \ request[w].todo =>
                p \in request[w].saved

ThreadOk(w) == DecisionOk(w) /\ RejectedOk(w) /\ TakenOk(w) /\ SavedOk(w)

SnapshotInv == \A w \in Threads : ThreadOk(w)

IInv == TypeOK /\ SnapshotInv

\* An idle thread has nothing to respect.
LEMMA IdleOk ==
    ASSUME NEW w \in Threads, request'[w] = Idle
    PROVE  ThreadOk(w)'
  <1>1. request'[w].step = "idle"
    BY DEF Idle
  <1> QED BY <1>1 DEF ThreadOk, DecisionOk, RejectedOk, TakenOk, SavedOk

\* A thread that neither moves nor misses a write keeps what it knows.
LEMMA FrameOk ==
    ASSUME NEW w \in Threads, ThreadOk(w), request'[w] = request[w],
           mapping' = mapping, news'[w] = news[w]
    PROVE  ThreadOk(w)'
  BY DEF ThreadOk, DecisionOk, RejectedOk, TakenOk, SavedOk, RefsOf, TargetsOf

\* A write of p changes nothing that is not news.
LEMMA WriteOk ==
    ASSUME TypeOK, NEW w \in Threads, ThreadOk(w), NEW p \in Pairs, NEW s,
           mapping' = [mapping EXCEPT ![p] = s],
           request[w] # Idle => news'[w] = news[w] \cup {p},
           \/ request'[w] = request[w]
           \/ /\ request[w] \in Decision /\ request'[w] \in Decision
              /\ request'[w].step = request[w].step
              /\ request'[w].pair = request[w].pair
              /\ request'[w].status = request[w].status
    PROVE  ThreadOk(w)'
  <1>1. CASE request'[w] = Idle
    BY <1>1, IdleOk
  <1>2. CASE request'[w] # Idle
    <2>1. request[w] # Idle
      <3>1. \A d \in Decision : d.step # "idle"
        BY DEF Decision
      <3>2. Idle.step = "idle"
        BY DEF Idle
      <3> QED BY <1>2, <3>1, <3>2
    <2>2. \A q \in Pairs \ news'[w] :
             q \in Pairs \ news[w] /\ mapping'[q] = mapping[q]
      BY <2>1 DEF TypeOK
    <2>3. DecisionOk(w)'
      <3>1. \A q \in Pairs : q \notin news'[w] =>
               q \notin news[w] /\ mapping'[q] = mapping[q]
        BY <2>2
      <3> QED BY <3>1 DEF ThreadOk, DecisionOk
    <2>4. CASE request'[w] = request[w]
      <3>1. RejectedOk(w)'
        BY <2>2, <2>4 DEF ThreadOk, RejectedOk
      <3>2. TakenOk(w)'
        BY <2>2, <2>4 DEF ThreadOk, TakenOk, TargetsOf
      <3>3. SavedOk(w)'
        BY <2>2, <2>4 DEF ThreadOk, SavedOk, RefsOf
      <3> QED BY <2>3, <3>1, <3>2, <3>3 DEF ThreadOk
    <2>5. CASE request'[w] \in Decision
      <3>1. request'[w].step \in {"checked", "read"}
        BY <2>5 DEF Decision
      <3> QED BY <2>3, <3>1 DEF ThreadOk, RejectedOk, TakenOk, SavedOk
    <2> QED BY <2>4, <2>5
  <1> QED BY <1>1, <1>2

LEMMA DecideCheckStep ==
    ASSUME IInv, NEW w \in Threads, NEW p \in Pairs, NEW s \in Statuses,
           DecideCheck(w, p, s)
    PROVE  IInv'
  <1>1. TypeOK'
    BY DecideCheckThread DEF IInv, TypeOK, DecideCheck
  <1>2. ThreadOk(w)'
    <2>1. s = "confirmed" => ~Conflict(p)
      BY DEF DecideCheck
    <2>2. DecisionOk(w)'
      BY <2>1, DecideCheckThread DEF IInv, DecisionOk, Conflict, DecideCheck
    <2> QED BY <2>2, DecideCheckThread
            DEF IInv, ThreadOk, RejectedOk, TakenOk, SavedOk
  <1>3. \A u \in Threads \ {w} : ThreadOk(u)'
    BY FrameOk, DecideCheckThread DEF IInv, SnapshotInv, DecideCheck
  <1> QED BY <1>1, <1>2, <1>3 DEF IInv, SnapshotInv

LEMMA DecideReadStep ==
    ASSUME IInv, NEW w \in Threads, DecideRead(w)
    PROVE  IInv'
  <1>1. TypeOK'
    BY DecideReadThread DEF IInv, TypeOK, DecideRead
  <1>2. ThreadOk(w)'
    <2>1. request[w].step = "checked" /\ mapping' = mapping /\ news' = news
      BY DEF DecideRead
    <2>2. DecisionOk(w)'
      BY <2>1, DecideReadThread DEF IInv, SnapshotInv, ThreadOk, DecisionOk
    <2> QED BY <2>2, DecideReadThread
            DEF IInv, ThreadOk, RejectedOk, TakenOk, SavedOk
  <1>3. \A u \in Threads \ {w} : ThreadOk(u)'
    BY FrameOk, DecideReadThread DEF IInv, SnapshotInv, DecideRead
  <1> QED BY <1>1, <1>2, <1>3 DEF IInv, SnapshotInv

LEMMA DecideWriteStep ==
    ASSUME IInv, NEW w \in Threads, DecideWrite(w)
    PROVE  IInv'
  <1> DEFINE p == request[w].pair
             s == request[w].status
  <1>1. p \in Pairs /\ s \in Statuses
    BY StepKind DEF IInv, DecideWrite, Decision
  <1>2. /\ mapping' = [mapping EXCEPT ![p] = s]
        /\ request' = [request EXCEPT ![w] = Idle]
        /\ Announce(p, {w})
    BY DEF DecideWrite
  <1> HIDE DEF p, s
  <1>3. TypeOK'
    BY <1>1, <1>2, EndThread, AnnounceTyped DEF IInv, TypeOK
  <1>4. ThreadOk(w)'
    BY <1>2, EndThread, IdleOk DEF IInv
  <1>5. ASSUME NEW u \in Threads \ {w}
        PROVE  ThreadOk(u)'
    <2>1. request'[u] = request[u]
      BY <1>2, EndThread DEF IInv
    <2>2. request[u] # Idle => news'[u] = news[u] \cup {p}
      BY <1>1, <1>2, AnnounceTyped DEF IInv
    <2> QED BY <1>1, <1>2, <2>1, <2>2, WriteOk DEF IInv, SnapshotInv
  <1> QED BY <1>3, <1>4, <1>5 DEF IInv, SnapshotInv

\* A request that ends leaves the others alone.
LEMMA EndStep ==
    ASSUME IInv, NEW w \in Threads, mapping' = mapping,
           request' = [request EXCEPT ![w] = Idle],
           news' = [news EXCEPT ![w] = {}]
    PROVE  IInv'
  <1>1. TypeOK'
    BY EndThread DEF IInv, TypeOK
  <1>2. ThreadOk(w)'
    BY EndThread, IdleOk DEF IInv
  <1>3. \A u \in Threads \ {w} : ThreadOk(u)'
    BY FrameOk, EndThread DEF IInv, SnapshotInv, TypeOK
  <1> QED BY <1>1, <1>2, <1>3 DEF IInv, SnapshotInv

LEMMA DeleteStep ==
    ASSUME IInv, NEW p \in Pairs, DeletePair(p)
    PROVE  IInv'
  <1>1. mapping' = [mapping EXCEPT ![p] = "none"] /\ Announce(p, {})
    BY DEF DeletePair
  <1>2. TypeOK'
    BY <1>1, DeleteThreads, AnnounceTyped DEF IInv, TypeOK
  <1>3. ASSUME NEW u \in Threads
        PROVE  ThreadOk(u)'
    <2>1. request[u] # Idle => news'[u] = news[u] \cup {p}
      BY <1>1, AnnounceTyped DEF IInv
    <2> QED BY <1>1, <2>1, DeleteThreads, WriteOk DEF IInv, SnapshotInv
  <1> QED BY <1>2, <1>3 DEF IInv, SnapshotInv

LEMMA CompareRejectedStep ==
    ASSUME IInv, NEW w \in Threads, NEW c \in RefCats,
           NEW cats \in SUBSET TgtCats, CompareRejected(w, c, cats)
    PROVE  IInv'
  <1>1. TypeOK'
    BY CompareRejectedThread DEF IInv, TypeOK, CompareRejected
  <1>2. ThreadOk(w)'
    <2>1. mapping' = mapping
      BY DEF CompareRejected
    <2>2. RejectedOk(w)'
      BY <2>1, CompareRejectedThread DEF IInv, RejectedOk
    <2> QED BY <2>2, CompareRejectedThread
            DEF IInv, ThreadOk, DecisionOk, TakenOk, SavedOk
  <1>3. \A u \in Threads \ {w} : ThreadOk(u)'
    BY FrameOk, CompareRejectedThread DEF IInv, SnapshotInv, CompareRejected
  <1> QED BY <1>1, <1>2, <1>3 DEF IInv, SnapshotInv

LEMMA CompareTakenStep ==
    ASSUME IInv, NEW w \in Threads, CompareTaken(w)
    PROVE  IInv'
  <1>1. TypeOK'
    BY CompareTakenThread DEF IInv, TypeOK, CompareTaken
  <1>2. ThreadOk(w)'
    <2>1. request[w].step = "rejected" /\ mapping' = mapping /\ news' = news
      BY DEF CompareTaken
    <2>2. RejectedOk(w)'
      BY <2>1, CompareTakenThread DEF IInv, SnapshotInv, ThreadOk, RejectedOk
    <2>3. TakenOk(w)'
      BY <2>1, CompareTakenThread DEF IInv, TakenOk, TargetsOf
    <2>4. SavedOk(w)'
      BY CompareTakenThread DEF IInv, SavedOk, RefsOf
    <2> QED BY <2>2, <2>3, <2>4, CompareTakenThread
            DEF IInv, ThreadOk, DecisionOk
  <1>3. \A u \in Threads \ {w} : ThreadOk(u)'
    BY FrameOk, CompareTakenThread DEF IInv, SnapshotInv, CompareTaken
  <1> QED BY <1>1, <1>2, <1>3 DEF IInv, SnapshotInv

LEMMA CompareSavedStep ==
    ASSUME IInv, NEW w \in Threads, CompareSaved(w)
    PROVE  IInv'
  <1>1. TypeOK'
    BY CompareSavedThread DEF IInv, TypeOK, CompareSaved
  <1>2. ThreadOk(w)'
    <2>1. request[w].step = "saved" /\ mapping' = mapping /\ news' = news
      BY DEF CompareSaved
    <2>2. RejectedOk(w)'
      BY <2>1, CompareSavedThread DEF IInv, SnapshotInv, ThreadOk, RejectedOk
    <2>3. TakenOk(w)'
      BY <2>1, CompareSavedThread
      DEF IInv, SnapshotInv, ThreadOk, TakenOk, TargetsOf
    <2>4. SavedOk(w)'
      <3>1. RefsOf(request[w])' = RefsOf(request[w])
        BY CompareSavedThread DEF IInv, RefsOf
      <3>2. PICK r \in request[w].todo :
               /\ request'[w].todo = request[w].todo \ {r}
               /\ request'[w].saved = request[w].saved \cup
                     {p \in Pairs : p[1] = r /\ mapping[p] = "confirmed"}
        BY CompareSavedThread DEF IInv
      <3>3. SavedOk(w)
        BY DEF IInv, SnapshotInv, ThreadOk
      <3> QED BY <2>1, <3>1, <3>2, <3>3 DEF SavedOk
    <2> QED BY <2>2, <2>3, <2>4, CompareSavedThread
            DEF IInv, ThreadOk, DecisionOk
  <1>3. \A u \in Threads \ {w} : ThreadOk(u)'
    BY FrameOk, CompareSavedThread DEF IInv, SnapshotInv, CompareSaved
  <1> QED BY <1>1, <1>2, <1>3 DEF IInv, SnapshotInv

LEMMA InvInit == Init => IInv
  <1> SUFFICES ASSUME Init PROVE IInv
    OBVIOUS
  <1>1. \A w \in Threads : request[w].step = "idle"
    BY DEF Init, Idle
  <1> QED BY <1>1, TypeInit
      DEF IInv, SnapshotInv, ThreadOk, DecisionOk, RejectedOk, TakenOk, SavedOk

LEMMA InvNext == IInv /\ [Next]_vars => IInv'
  <1> SUFFICES ASSUME IInv, [Next]_vars PROVE IInv'
    OBVIOUS
  <1>1. ASSUME NEW w \in Threads, NEW p \in Pairs, NEW s \in Statuses,
               DecideCheck(w, p, s)
        PROVE  IInv'
    BY <1>1, DecideCheckStep
  <1>2. ASSUME NEW w \in Threads, DecideRead(w) PROVE IInv'
    BY <1>2, DecideReadStep
  <1>3. ASSUME NEW w \in Threads, DecideWrite(w) PROVE IInv'
    BY <1>3, DecideWriteStep
  <1>4. ASSUME NEW w \in Threads, DecideEnd(w) \/ CompareEnd(w) PROVE IInv'
    BY <1>4, EndStep DEF DecideEnd, CompareEnd
  <1>5. ASSUME NEW w \in Threads, NEW c \in RefCats, NEW cats \in SUBSET TgtCats,
               CompareRejected(w, c, cats)
        PROVE  IInv'
    BY <1>5, CompareRejectedStep
  <1>6. ASSUME NEW w \in Threads, CompareTaken(w) PROVE IInv'
    BY <1>6, CompareTakenStep
  <1>7. ASSUME NEW w \in Threads, CompareSaved(w) PROVE IInv'
    BY <1>7, CompareSavedStep
  <1>8. ASSUME NEW p \in Pairs, DeletePair(p) PROVE IInv'
    BY <1>8, DeleteStep
  <1>9. CASE UNCHANGED vars
    <2>1. TypeOK'
      BY <1>9 DEF IInv, TypeOK, vars
    <2>2. \A w \in Threads : ThreadOk(w)'
      BY <1>9, FrameOk DEF IInv, SnapshotInv, vars
    <2> QED BY <2>1, <2>2 DEF IInv, SnapshotInv
  <1> QED BY <1>1, <1>2, <1>3, <1>4, <1>5, <1>6, <1>7, <1>8, <1>9 DEF Next

LEMMA InvAlways == Spec => []IInv
  <1> QED BY InvInit, InvNext, PTL DEF Spec

\* Every variable of the model keeps its type.
THEOREM TypeCorrect == Spec => []TypeOK
  <1>1. IInv => TypeOK
    BY DEF IInv
  <1> QED BY <1>1, InvAlways, PTL

-----------------------------------------------------------------------------
(* Decisions *)

LEMMA RaceStep ==
    ASSUME IInv, [Next]_vars, NEW p \in Pairs,
           mapping[p] # "confirmed", mapping'[p] = "confirmed",
           NEW q \in Pairs, q[2] = p[2], q[1] # p[1], mapping[q] = "confirmed"
    PROVE  \E w \in Threads : /\ request[w].step = "read"
                              /\ request[w].pair = p
                              /\ q \in news[w]
  <1>1. PICK w \in Threads : DecideWrite(w)
    <2>1. mapping' # mapping
      OBVIOUS
    <2>2. ASSUME NEW r \in Pairs, DeletePair(r) PROVE FALSE
      BY <2>2 DEF DeletePair, IInv, TypeOK
    <2> QED BY <2>1, <2>2
        DEF Next, vars, DecideCheck, DecideRead, DecideEnd, CompareRejected,
            CompareTaken, CompareSaved, CompareEnd
  <1>2. /\ request[w].step = "read" /\ request[w] \in Decision
        /\ mapping' = [mapping EXCEPT ![request[w].pair] = request[w].status]
    BY <1>1, StepKind DEF DecideWrite, IInv
  <1>3. request[w].pair = p /\ request[w].status = "confirmed"
    BY <1>2 DEF IInv, TypeOK, Decision
  <1>4. q \in news[w]
    BY <1>2, <1>3 DEF IInv, SnapshotInv, ThreadOk, DecisionOk
  <1> QED BY <1>2, <1>3, <1>4

\* A second confirmation of a target is always the result of a race: without
\* another write between its check and its write a request is safe, whatever
\* the catalogue and the number of threads.
THEOREM RaceOnly == Spec => SecondOnlyByRace
  <1>1. IInv /\ [Next]_vars =>
        [\A p \in Pairs : mapping[p] # "confirmed" /\ mapping'[p] = "confirmed" =>
           \A q \in Pairs :
               q[2] = p[2] /\ q[1] # p[1] /\ mapping[q] = "confirmed" =>
                   \E w \in Threads : /\ request[w].step = "read"
                                      /\ request[w].pair = p
                                      /\ q \in news[w]]_vars
    BY RaceStep
  <1> QED BY <1>1, InvAlways, PTL DEF Spec, SecondOnlyByRace

-----------------------------------------------------------------------------
(* Comparisons *)

LEMMA LeastNat ==
    ASSUME NEW S \in SUBSET Nat, S # {}
    PROVE  \E n \in S : \A k \in S : n <= k
  <1>1. PICK n \in S : \A k \in S : ~(<<k, n>> \in OpToRel(<, Nat))
    BY NatLessThanWellFounded, WFMin
  <1>2. \A k \in S : ~(k < n)
    BY <1>1 DEF OpToRel
  <1> QED BY <1>2

\* A saved pair of the compared categories gives its target a stored match,
\* though not always its own: the first reference product wins.
LEMMA StoredExists ==
    ASSUME NEW v \in View, NEW p \in Pairs, p \in v.saved,
           p[1] \in RefsOf(v), p[2] \in TargetsOf(v)
    PROVE  \E q \in Stored(v) : q[2] = p[2]
  <1> DEFINE S == {r \in RefsOf(v) : <<r, p[2]>> \in v.saved}
  <1>1. p[1] \in S
    BY PairParts
  <1>2. S \in SUBSET Nat
    BY ConstantsAssumption DEF RefsOf
  <1>3. PICK r \in S : \A k \in S : r <= k
    BY <1>1, <1>2, LeastNat
  <1>4. <<r, p[2]>> \in Stored(v)
    BY <1>3 DEF Stored
  <1> QED BY <1>4

LEMMA StoredOnce ==
    ASSUME NEW v \in View, NEW p \in Stored(v), NEW q \in Stored(v), p[2] = q[2]
    PROVE  p = q
  <1>1. p \in Pairs /\ q \in Pairs
    BY DEF Stored, View
  <1>2. p[1] <= q[1] /\ q[1] <= p[1]
    BY <1>1, PairParts DEF Stored
  <1>3. p[1] \in Nat /\ q[1] \in Nat
    BY <1>1, PairParts, ConstantsAssumption
  <1> QED BY <1>1, <1>2, <1>3, PairParts

-----------------------------------------------------------------------------
(* Scores *)

LEMMA PointsType == ASSUME NEW c, NEW n \in Nat PROVE Points(c, n) \in Nat
  BY DEF Points

LEMMA Weights ==
    /\ Gains.numeric = 10 /\ Gains.alpha = 4 /\ Gains.kind = 5 /\ Gains.sport = 3
    /\ Gains.goalie = 4 /\ Gains.series = 8 /\ Gains.curve = 6 /\ Gains.hand = 5
    /\ Gains.flex = 4 /\ Gains.fit = 6
    /\ Costs.flex = 40 /\ Costs.hand = 60 /\ Costs.level = 25 /\ Costs.curve = 20
    /\ Costs.fit = 30 /\ Costs.size = 15
  BY DEF Gains, Costs

\* The tokens of two products are finitely many.
LEMMA SharedType ==
    ASSUME NEW a \in Items, NEW b \in Items
    PROVE  /\ Cardinality(Shared(a, b) \cap Numeric) \in Nat
           /\ Cardinality(Shared(a, b) \ Numeric) \in Nat
           /\ Cardinality(Shared(a, b) \cap Series) \in Nat
  <1>1. Shared(a, b) \subseteq Tokens
    BY DEF Shared, Items
  <1>2. /\ IsFiniteSet(Shared(a, b) \cap Numeric)
        /\ IsFiniteSet(Shared(a, b) \ Numeric)
        /\ IsFiniteSet(Shared(a, b) \cap Series)
    BY <1>1, TokensAssumption, FS_Subset
  <1> QED BY <1>2, FS_CardinalityType

LEMMA ItemParts ==
    ASSUME NEW a \in Items
    PROVE  /\ a.goalie \in BOOLEAN /\ a.extra \in BOOLEAN /\ a.core \in BOOLEAN
           /\ a.price \in Nat \cup {Unknown}
           /\ a.words \cap GoalieWords # {} => a.goalie
  BY DEF Items

LEMMA PriceType ==
    ASSUME NEW a \in Items, NEW b \in Items
    PROVE  /\ Uah(a) \in Nat
           /\ PriceModifier(a, b) \in Int
  <1>1. Uah(a) \in Nat /\ Uah(b) \in Nat
    BY ItemParts DEF Uah, Known
  <1> QED BY <1>1 DEF PriceModifier

LEMMA PairScoreType ==
    ASSUME NEW a \in Items, NEW b \in Items, NEW ratio \in Int
    PROVE  PairScore(a, b, ratio) \in Int
  <1>0. /\ Cardinality(Shared(a, b) \cap Numeric) \in Nat
        /\ Cardinality(Shared(a, b) \ Numeric) \in Nat
        /\ Cardinality(Shared(a, b) \cap Series) \in Nat
    BY SharedType, Zenon
  <1>1. TokenBonus(a, b) \in Int
    <2>1. Gains.numeric \in Int /\ Gains.alpha \in Int
      BY Weights
    <2>2. \A i, j, k, l \in Int : i * j + k * l \in Int
      OBVIOUS
    <2>3. /\ Cardinality(Shared(a, b) \cap Numeric) \in Int
          /\ Cardinality(Shared(a, b) \ Numeric) \in Int
      BY <1>0
    <2> QED BY <2>1, <2>2, <2>3 DEF TokenBonus
  <1>2. Penalty(a, b) \in Int
    <2>1. /\ Points(Clash(a.level, b.level), Costs.level) \in Nat
          /\ Points(Clash(a.flex, b.flex), Costs.flex) \in Nat
          /\ Points(Clash(a.hand, b.hand), Costs.hand) \in Nat
          /\ Points(Clash(a.curve, b.curve), Costs.curve) \in Nat
          /\ Points(Clash(a.fit, b.fit), Costs.fit) \in Nat
          /\ Points(a.sizes # {} /\ b.sizes # {} /\ a.sizes \cap b.sizes = {}, Costs.size)
                \in Nat
      BY Weights, PointsType
    <2> QED BY <2>1 DEF Penalty
  <1>3. DomainBonus(a, b) \in Int
    <2>1. /\ Points(Agree(Kind(a), Kind(b)), Gains.kind) \in Nat
          /\ Points(Agree(a.sport, b.sport), Gains.sport) \in Nat
          /\ Points(a.goalie /\ b.goalie, Gains.goalie) \in Nat
          /\ Points(Agree(a.curve, b.curve), Gains.curve) \in Nat
          /\ Points(Agree(a.hand, b.hand), Gains.hand) \in Nat
          /\ Points(Agree(a.flex, b.flex), Gains.flex) \in Nat
          /\ Points(Agree(a.fit, b.fit), Gains.fit) \in Nat
      BY Weights, PointsType
    <2>2. Gains.series * Cardinality(Shared(a, b) \cap Series) \in Nat
      BY Weights, <1>0
    <2> QED BY <2>1, <2>2 DEF DomainBonus
  <1>4. PriceModifier(a, b) \in Int
    BY PriceType
  <1>5. Impossible \in Int /\ Point \in Int
    BY DEF Impossible, Point
  <1> QED BY <1>1, <1>2, <1>3, <1>4, <1>5 DEF PairScore

LEMMA ScoreType == \A p \in Refs \X Targets : Score[p] \in Int
  <1> SUFFICES ASSUME NEW p \in Refs \X Targets PROVE Score[p] \in Int
    OBVIOUS
  <1>1. RefItem[p[1]] \in Items /\ TgtItem[p[2]] \in Items
    <2>1. p[1] \in Refs /\ p[2] \in Targets
      OBVIOUS
    <2> QED BY <2>1, ConstantsAssumption, Zenon
  <1>2. Ratio[p] \in Int
    <2>1. Ratio[p] \in 0 .. 100 * Point
      BY ConstantsAssumption, Zenon
    <2> QED BY <2>1 DEF Point
  <1>3. PairScore(RefItem[p[1]], TgtItem[p[2]], Ratio[p]) \in Int
    BY <1>1, <1>2, PairScoreType
  <1>4. Score[p] = PairScore(RefItem[p[1]], TgtItem[p[2]], Ratio[p])
    BY DEF Score
  <1> QED BY <1>3, <1>4

LEMMA PercentType == ASSUME NEW score \in Int PROVE Percent(score) \in Int
  BY DEF Percent, Point

LEMMA PoolOpen ==
    ASSUME NEW v, NEW r
    PROVE  Pool(v, r) \subseteq OpenTargets(v)
  BY DEF Pool

LEMMA ClearBestOnce ==
    ASSUME NEW v \in View, NEW r \in Refs, NEW t, NEW u,
           ClearBest(v, r, t), ClearBest(v, r, u)
    PROVE  t = u
  <1> SUFFICES ASSUME t # u PROVE FALSE
    OBVIOUS
  <1>1. t \in Pool(v, r) /\ u \in Pool(v, r)
    BY DEF ClearBest
  <1>2. t \in Targets /\ u \in Targets
    BY <1>1, PoolOpen DEF OpenTargets, TargetsOf
  <1>3. Score[<<r, t>>] \in Int /\ Score[<<r, u>>] \in Int
    BY <1>2, ScoreType
  <1>4. /\ Score[<<r, t>>] - Score[<<r, u>>] >= MinGap
        /\ Score[<<r, u>>] - Score[<<r, t>>] >= MinGap
    BY <1>1 DEF ClearBest
  <1> QED BY <1>3, <1>4 DEF MinGap, Point

LEMMA MatchedParts ==
    ASSUME NEW v \in View, NEW p \in Matched(v)
    PROVE  /\ p[1] \in OpenRefs(v) /\ p[2] \in OpenTargets(v)
           /\ p[1] \in Refs /\ p[2] \in Targets
           /\ p = <<p[1], p[2]>> /\ ClearBest(v, p[1], p[2])
           /\ Score[p] \in Int
  <1>1. /\ p \in OpenRefs(v) \X OpenTargets(v)
        /\ ClearBest(v, p[1], p[2])
    BY DEF Matched
  <1>2. OpenRefs(v) \subseteq Refs /\ OpenTargets(v) \subseteq Targets
    BY DEF OpenRefs, OpenTargets, RefsOf, TargetsOf
  <1>3. p[1] \in Refs /\ p[2] \in Targets /\ p = <<p[1], p[2]>>
    BY <1>1, <1>2
  <1>4. Score[p] \in Int
    <2>1. p \in Refs \X Targets
      BY <1>3
    <2> QED BY <2>1, ScoreType
  <1> QED BY <1>1, <1>3, <1>4

LEMMA MatchedOnce ==
    ASSUME NEW v \in View, NEW p \in Matched(v), NEW q \in Matched(v),
           p[1] = q[1]
    PROVE  p = q
  <1>1. p[2] = q[2]
    BY MatchedParts, ClearBestOnce
  <1> QED BY <1>1, MatchedParts

\* Whatever is suggested or offered lies in the heuristic phase.
LEMMA OffersOpen ==
    ASSUME NEW v \in View, NEW p \in HighConfidence(v) \cup Shown(v)
    PROVE  /\ p[1] \in OpenRefs(v) /\ p[2] \in OpenTargets(v)
           /\ p \notin v.rejected
  <1>1. CASE p \in HighConfidence(v) \cup Lower(v)
    BY <1>1, MatchedParts DEF HighConfidence, Lower
  <1>2. CASE p \in Near(v) \ v.rejected
    BY <1>2 DEF Near, Ambiguous
  <1> QED BY <1>1, <1>2 DEF Shown

LEMMA CompleteKind ==
    ASSUME IInv, NEW w \in Threads, Complete(w)
    PROVE  /\ request[w] \in View /\ request[w].step = "saved"
           /\ RejectedOk(w) /\ TakenOk(w)
           /\ \A p \in Pairs \ news[w] :
                 mapping[p] = "confirmed" /\ p[1] \in RefsOf(request[w]) =>
                     p \in request[w].saved
  BY StepKind DEF IInv, SnapshotInv, ThreadOk, SavedOk, Complete

LEMMA RespectedNow == IInv => DecisionsRespected
  <1> SUFFICES ASSUME IInv, NEW w \in Threads, Complete(w),
                      NEW p \in Pairs \ news[w]
               PROVE  /\ mapping[p] = "rejected" =>
                            p \notin HighConfidence(request[w]) \cup Shown(request[w])
                      /\ /\ mapping[p] = "confirmed"
                         /\ p[1] \in RefsOf(request[w])
                         /\ p[2] \in TargetsOf(request[w])
                         => \E q \in Stored(request[w]) : q[2] = p[2]
    BY DEF DecisionsRespected
  <1>1. ASSUME mapping[p] = "rejected",
               p \in HighConfidence(request[w]) \cup Shown(request[w])
        PROVE  FALSE
    <2>1. p[1] \in OpenRefs(request[w]) /\ p \notin request[w].rejected
      BY <1>1, CompleteKind, OffersOpen
    <2>2. RefCat[p[1]] = request[w].cat
      BY <2>1 DEF OpenRefs, RefsOf
    <2> QED BY <1>1, <2>1, <2>2, CompleteKind DEF RejectedOk
  <1>2. ASSUME mapping[p] = "confirmed", p[1] \in RefsOf(request[w]),
               p[2] \in TargetsOf(request[w])
        PROVE  \E q \in Stored(request[w]) : q[2] = p[2]
    BY <1>2, CompleteKind, StoredExists
  <1> QED BY <1>1, <1>2

\* A comparison whose queries see different states of the table still
\* respects every decision that is older than the request.
THEOREM Respected == Spec => []DecisionsRespected
  BY RespectedNow, InvAlways, PTL

LEMMA OfferNow == IInv => OfferAcceptable
  <1> SUFFICES ASSUME IInv, NEW w \in Threads, Complete(w),
                      NEW p \in Acceptable(request[w]),
                      NEW q \in Pairs \ news[w],
                      mapping[q] = "confirmed", q[2] = p[2]
               PROVE  FALSE
    BY DEF OfferAcceptable
  <1>1. p[2] \in OpenTargets(request[w]) /\ p[2] \notin request[w].taken
    BY CompleteKind, OffersOpen DEF Acceptable
  <1>2. q[2] \in TargetsOf(request[w])
    BY <1>1 DEF OpenTargets
  <1> QED BY <1>1, <1>2, CompleteKind DEF TakenOk

\* Accepting what a comparison offers meets no conflict older than it.
THEOREM OfferSafe == Spec => []OfferAcceptable
  BY OfferNow, InvAlways, PTL

LEMMA GapNow == IInv => GapSound
  <1> SUFFICES ASSUME IInv, NEW w \in Threads, Complete(w),
                      NEW t \in TargetOnly(request[w])
               PROVE  /\ \A p \in Pairs \ news[w] :
                            p[2] = t /\ p[1] \in RefsOf(request[w]) =>
                                mapping[p] # "confirmed"
                      /\ \A p \in HighConfidence(request[w]) \cup Shown(request[w]) :
                            p[2] # t
    BY DEF GapSound
  <1>1. ASSUME NEW p \in Pairs \ news[w], p[2] = t,
               p[1] \in RefsOf(request[w]), mapping[p] = "confirmed"
        PROVE  FALSE
    <2>1. p \in request[w].saved /\ p[2] \in TargetsOf(request[w])
      BY <1>1, CompleteKind DEF TargetOnly
    <2>2. \E q \in Stored(request[w]) : q[2] = t
      BY <1>1, <2>1, CompleteKind, StoredExists
    <2> QED BY <2>2 DEF TargetOnly
  <1>2. \A p \in HighConfidence(request[w]) \cup Shown(request[w]) : p[2] # t
    BY DEF TargetOnly, Shown
  <1> QED BY <1>1, <1>2

\* The gap view lists no target that an older decision has confirmed.
THEOREM GapSafe == Spec => []GapSound
  BY GapNow, InvAlways, PTL

Chosen(v) == {p[1] : p \in Stored(v) \cup HighConfidence(v)}

\* Where a reference product ends up follows from its candidates.
LEMMA OpenRefSections ==
    ASSUME NEW v \in View, NEW r \in OpenRefs(v)
    PROVE  /\ r \in Chosen(v) <=>
                 \E p \in HighConfidence(v) : p[1] = r
           /\ \/ r \in Chosen(v) \/ r \in Groups(v) \/ r \in ReferenceOnly(v)
           /\ ~(r \in Chosen(v) /\ r \in Groups(v))
           /\ ~(r \in Chosen(v) /\ r \in ReferenceOnly(v))
           /\ ~(r \in Groups(v) /\ r \in ReferenceOnly(v))
  <1>1. \A p \in Stored(v) : p[1] # r
    BY DEF OpenRefs
  <1>2. r \in Chosen(v) <=> \E p \in HighConfidence(v) : p[1] = r
    BY <1>1 DEF Chosen
  <1>3. CASE \E p \in Matched(v) : p[1] = r
    <2>1. PICK p \in Matched(v) : p[1] = r
      BY <1>3
    <2>2. \A q \in Matched(v) : q[1] = r => q = p
      BY <2>1, MatchedOnce
    <2>3. ClearBest(v, r, p[2]) /\ Score[p] \in Int /\ p[2] \in OpenTargets(v)
      BY <2>1, MatchedParts
    <2>4. r \notin Ambiguous(v) /\ Candidates(v, r) # {}
      BY <2>3 DEF Ambiguous, ClearBest, Candidates
    <2>5. r \in Chosen(v) <=> p \notin v.rejected /\ Percent(Score[p]) >= HighConfidenceScore
      BY <1>2, <2>1, <2>2 DEF HighConfidence
    <2>6. r \in Groups(v) <=> p \notin v.rejected /\ Percent(Score[p]) < HighConfidenceScore
      BY <2>1, <2>2, <2>4 DEF Groups, Lower
    <2>7. r \in ReferenceOnly(v) <=> p \in v.rejected
      BY <2>1, <2>2, <2>4 DEF ReferenceOnly
    <2>8. Percent(Score[p]) >= HighConfidenceScore <=> ~(Percent(Score[p]) < HighConfidenceScore)
      BY <2>3, PercentType DEF HighConfidenceScore
    <2> QED BY <1>2, <2>5, <2>6, <2>7, <2>8
  <1>4. CASE ~\E p \in Matched(v) : p[1] = r
    <2>1. \A t \in OpenTargets(v) : ~ClearBest(v, r, t)
      <3> SUFFICES ASSUME NEW t \in OpenTargets(v), ClearBest(v, r, t)
                   PROVE  FALSE
        OBVIOUS
      <3>1. <<r, t>> \in Matched(v)
        BY DEF Matched
      <3> QED BY <1>4, <3>1
    <2>2. r \in Ambiguous(v) <=> Candidates(v, r) # {}
      BY <2>1 DEF Ambiguous
    <2>3. r \notin Chosen(v)
      BY <1>2, <1>4 DEF HighConfidence
    <2>4. r \in Groups(v) <=> r \in Ambiguous(v)
      BY <1>4 DEF Groups, Lower
    <2>5. r \in ReferenceOnly(v) <=> Candidates(v, r) = {}
      BY <1>4 DEF ReferenceOnly
    <2> QED BY <1>2, <2>2, <2>3, <2>4, <2>5
  <1> QED BY <1>3, <1>4

LEMMA SectionsNow == TypeOK => SectionsDisjoint
  <1> SUFFICES ASSUME TypeOK, NEW w \in Threads, Complete(w), NEW v,
                      v = request[w]
               PROVE  /\ Chosen(v) \cup Groups(v) \cup ReferenceOnly(v) = RefsOf(v)
                      /\ Chosen(v) \cap Groups(v) = {}
                      /\ (Chosen(v) \cup Groups(v)) \cap ReferenceOnly(v) = {}
                      /\ \A p \in Stored(v) :
                           \A q \in Stored(v) \cup HighConfidence(v) \cup Shown(v) :
                               q[2] = p[2] => q = p
    BY DEF SectionsDisjoint, Chosen
  <1>1. v \in View
    BY StepKind DEF Complete
  <1>2. OpenRefs(v) \subseteq RefsOf(v)
    BY DEF OpenRefs
  <1>3. Groups(v) \subseteq OpenRefs(v) /\ ReferenceOnly(v) \subseteq OpenRefs(v)
    BY <1>1, MatchedParts DEF Groups, ReferenceOnly, Lower, Ambiguous
  <1>4. Chosen(v) \subseteq RefsOf(v)
    BY <1>1, <1>2, MatchedParts DEF Chosen, Stored, HighConfidence
  <1>5. \A r \in RefsOf(v) \ OpenRefs(v) : r \in Chosen(v)
    BY DEF OpenRefs, Chosen
  <1>6. \A p \in Stored(v), q \in HighConfidence(v) \cup Shown(v) : q[2] # p[2]
    BY <1>1, OffersOpen DEF OpenTargets
  <1>7. \A p \in Stored(v), q \in Stored(v) : q[2] = p[2] => q = p
    BY <1>1, StoredOnce
  <1>8. /\ Chosen(v) \cup Groups(v) \cup ReferenceOnly(v) = RefsOf(v)
        /\ Chosen(v) \cap Groups(v) = {}
        /\ (Chosen(v) \cup Groups(v)) \cap ReferenceOnly(v) = {}
    <2> HIDE DEF Chosen
    <2> QED BY <1>1, <1>2, <1>3, <1>4, <1>5, OpenRefSections
  <1> QED BY <1>6, <1>7, <1>8

\* Every reference product is in exactly one section, for every table of
\* decisions, every score and every mix of snapshots.
THEOREM SectionsSafe == Spec => []SectionsDisjoint
  BY SectionsNow, TypeCorrect, PTL

-----------------------------------------------------------------------------
(* What the scores mean *)

PlayerKinds == {"STICK", "SKATES", "GLOVES", "HELMET", "PANTS"}

\* A word for a goalie and the kind of equipment go together.
LEMMA KindOfGoalie ==
    ASSUME NEW a \in Items, Known(Kind(a))
    PROVE  /\ a.goalie => Kind(a) \notin PlayerKinds
           /\ ~a.goalie => Kind(a) \notin GoalieWords
  <1> DEFINE first == CHOOSE i \in Fitting(a) : \A j \in Fitting(a) : i <= j
  <1>1. Fitting(a) # {} /\ Fitting(a) \subseteq Nat
    BY DEF Kind, Known, Fitting, Kinds
  <1>2. \E i \in Fitting(a) : \A j \in Fitting(a) : i <= j
    BY <1>1, LeastNat
  <1>3. first \in Fitting(a)
    BY <1>2
  <1>4. Kinds[first] \in a.words
    BY <1>3 DEF Fitting
  <1>5. Kind(a) = IF a.goalie THEN GoalieKind(Kinds[first]) ELSE Kinds[first]
    BY <1>1 DEF Kind
  <1>6. \A kind : GoalieKind(kind) \notin PlayerKinds
    BY DEF GoalieKind, PlayerKinds
  <1>7. ~a.goalie => Kinds[first] \notin GoalieWords
    BY <1>4, ItemParts
  <1> HIDE DEF first
  <1> QED BY <1>5, <1>6, <1>7

\* A pair that is not excluded is of compatible kinds, and those of two kinds
\* are a glove and a trapper.
LEMMA NotExcluded ==
    ASSUME NEW a \in Items, NEW b \in Items, ~Excluded(a, b)
    PROVE  /\ ~Clash(a.brand, b.brand) /\ ~Clash(a.sport, b.sport)
           /\ Clash(Kind(a), Kind(b)) =>
                 /\ {Kind(a), Kind(b)} = {"GLOVES", "GOALIE_GLOVE"}
                 /\ ~a.goalie /\ ~b.goalie
  <1>1. ~Clash(a.brand, b.brand) /\ ~Clash(a.sport, b.sport)
    BY DEF Excluded
  <1>2. ASSUME Clash(Kind(a), Kind(b))
        PROVE  /\ {Kind(a), Kind(b)} = {"GLOVES", "GOALIE_GLOVE"}
               /\ ~a.goalie /\ ~b.goalie
    <2>1. Known(Kind(a)) /\ Known(Kind(b))
      BY <1>2 DEF Clash
    <2>2. {Kind(a), Kind(b)} \in Compatible
      BY <1>2 DEF Excluded, KindConflict
    <2>3. a.goalie = b.goalie
      BY <2>1 DEF Excluded, GoalieConflict
    <2>4. PICK player \in PlayerKinds : player \in {Kind(a), Kind(b)}
      BY <2>2 DEF Compatible, PlayerKinds
    <2>5. ~a.goalie /\ ~b.goalie
      <3>1. a.goalie \in BOOLEAN /\ b.goalie \in BOOLEAN
        BY ItemParts
      <3>2. CASE Kind(a) = player
        BY <2>1, <2>3, <3>1, <3>2, KindOfGoalie
      <3>3. CASE Kind(b) = player
        BY <2>1, <2>3, <3>1, <3>3, KindOfGoalie
      <3> QED BY <2>4, <3>2, <3>3
    <2>6. Kind(a) \notin GoalieWords /\ Kind(b) \notin GoalieWords
      BY <2>1, <2>5, KindOfGoalie
    <2>7. {Kind(a), Kind(b)} = {"GLOVES", "GOALIE_GLOVE"}
      BY <2>2, <2>6 DEF Compatible, GoalieWords
    <2> QED BY <2>5, <2>7
  <1> QED BY <1>1, <1>2

\* What is shown has passed the threshold, and comes from the pool.
LEMMA OffersPass ==
    ASSUME NEW v \in View, NEW p \in HighConfidence(v) \cup Shown(v)
    PROVE  /\ p \in Refs \X Targets
           /\ p[2] \in Pool(v, p[1])
           /\ Score[p] >= MinCandidateScore
  <1>1. p[1] \in OpenRefs(v) /\ p[2] \in OpenTargets(v)
    BY OffersOpen
  <1>2. CASE p \in HighConfidence(v) \cup Lower(v)
    <2>1. p \in Matched(v)
      BY <1>2 DEF HighConfidence, Lower
    <2>2. p = <<p[1], p[2]>> /\ ClearBest(v, p[1], p[2]) /\ p[1] \in Refs /\ p[2] \in Targets
      BY <2>1, MatchedParts
    <2> QED BY <2>2 DEF ClearBest
  <1>3. CASE p \in Near(v)
    <2>1. p = <<p[1], p[2]>> /\ p[2] \in Candidates(v, p[1])
      BY <1>3 DEF Near
    <2>2. p[1] \in Refs /\ p[2] \in Targets
      BY <1>1 DEF OpenRefs, OpenTargets, RefsOf, TargetsOf
    <2> QED BY <2>1, <2>2 DEF Candidates
  <1> QED BY <1>2, <1>3 DEF Shown

LEMMA PlausibleNow == TypeOK => SuggestionsPlausible
  <1> SUFFICES ASSUME TypeOK, NEW w \in Threads, Complete(w), NEW v, v = request[w],
                      NEW p \in HighConfidence(v) \cup Shown(v),
                      NEW a, a = RefItem[p[1]], NEW b, b = TgtItem[p[2]]
               PROVE  /\ ~Clash(a.brand, b.brand) /\ ~Clash(a.sport, b.sport)
                      /\ Clash(Kind(a), Kind(b)) =>
                            /\ {Kind(a), Kind(b)} = {"GLOVES", "GOALIE_GLOVE"}
                            /\ ~a.goalie /\ ~b.goalie
                      /\ Known(a.brand) /\ ~Known(b.brand) =>
                            \A t \in OpenTargets(v) : TgtItem[t].brand # a.brand
    BY DEF SuggestionsPlausible
  <1>1. v \in View
    BY StepKind DEF Complete
  <1>2. p \in Refs \X Targets /\ p[2] \in Pool(v, p[1]) /\ Score[p] >= MinCandidateScore
    BY <1>1, OffersPass
  <1>3. a \in Items /\ b \in Items
    <2>1. p[1] \in Refs /\ p[2] \in Targets
      BY <1>2
    <2> QED BY <2>1, ConstantsAssumption, Zenon
  <1>4. ~Excluded(a, b)
    BY <1>2 DEF Score, PairScore, Impossible, MinCandidateScore, Point
  <1>5. ASSUME Known(a.brand), ~Known(b.brand), NEW t \in OpenTargets(v),
               TgtItem[t].brand = a.brand
        PROVE  FALSE
    BY <1>2, <1>5 DEF Pool, Agree, Known
  <1> QED BY <1>3, <1>4, <1>5, NotExcluded

\* Whatever is decided, in whatever order: no comparison suggests a pair of two
\* brands, sports or kinds, and other targets only for want of the brand.
THEOREM Plausible == Spec => []SuggestionsPlausible
  BY PlausibleNow, TypeCorrect, PTL

\* The score does not depend on which store is the reference store, if the
\* fuzzy ratio does not.
THEOREM ScoreSymmetric ==
    ASSUME NEW a \in Items, NEW b \in Items, NEW ratio
    PROVE  PairScore(a, b, ratio) = PairScore(b, a, ratio)
  <1>1. \A x, y : (Clash(x, y) <=> Clash(y, x)) /\ (Agree(x, y) <=> Agree(y, x))
    BY DEF Clash, Agree, Known
  <1>2. Excluded(a, b) <=> Excluded(b, a)
    <2>1. {Kind(a), Kind(b)} = {Kind(b), Kind(a)}
      OBVIOUS
    <2> QED BY <1>1, <2>1 DEF Excluded, GoalieConflict, KindConflict
  <1>3. Shared(a, b) = Shared(b, a)
    BY DEF Shared
  <1>4. Penalty(a, b) = Penalty(b, a)
    <2>1. a.sizes \cap b.sizes = b.sizes \cap a.sizes
      OBVIOUS
    <2> QED BY <1>1, <2>1 DEF Penalty, Points
  <1>5. DomainBonus(a, b) = DomainBonus(b, a)
    BY <1>1, <1>3 DEF DomainBonus, Points
  <1>6. PriceModifier(a, b) = PriceModifier(b, a)
    BY PriceType DEF PriceModifier
  <1> QED BY <1>2, <1>3, <1>4, <1>5, <1>6 DEF PairScore, TokenBonus

\* The percentage that is shown follows the order of the scores, and a match counts as
\* confident from 84.6 on: 84.5 is rounded to the even 84.  Who is good enough to be
\* suggested shows at least 65 (normalize.py:733, comparison_service.py:340).
THEOREM PercentOrdered ==
    /\ \A s, t \in Int : s <= t => Percent(s) <= Percent(t)
    /\ \A s \in Int : /\ Percent(s) \in 0 .. 100
                      /\ Percent(s) >= HighConfidenceScore <=> s > 845
                      /\ s >= MinCandidateScore => Percent(s) >= 65
  <1> DEFINE near(s) == IF s % 10 > 5 \/ (s % 10 = 5 /\ (s \div 10) % 2 = 1)
                        THEN s \div 10 + 1 ELSE s \div 10
  <1>1. ASSUME NEW s \in Int
        PROVE  /\ s \div 10 \in Int /\ s % 10 \in 0 .. 9
               /\ s = 10 * (s \div 10) + (s % 10)
    BY <1>1
  <1>2. ASSUME NEW s \in Int
        PROVE  /\ near(s) \in Int
               /\ 10 * near(s) - 5 <= s /\ s <= 10 * near(s) + 5
               /\ s = 845 => near(s) = 84
    BY <1>1
  <1>3. ASSUME NEW s \in Int, NEW t \in Int, s <= t
        PROVE  near(s) <= near(t)
    <2>1. CASE s \div 10 = t \div 10
      <3>1. s % 10 <= t % 10
        BY <1>1, <1>3, <2>1
      <3> QED BY <1>1, <2>1, <3>1
    <2>2. CASE s \div 10 < t \div 10
      BY <1>1, <2>2
    <2> QED BY <1>1, <1>3, <2>1, <2>2
  <1>4. \A s \in Int : Percent(s) = CASE near(s) < 0   -> 0
                                     [] near(s) > 100 -> 100
                                     [] OTHER         -> near(s)
    BY DEF Percent, Point
  <1> HIDE DEF near
  <1>5. ASSUME NEW s \in Int, NEW t \in Int, s <= t
        PROVE  Percent(s) <= Percent(t)
    BY <1>2, <1>3, <1>4, <1>5
  <1>6. ASSUME NEW s \in Int
        PROVE  /\ Percent(s) \in 0 .. 100
               /\ Percent(s) >= HighConfidenceScore <=> s > 845
               /\ s >= MinCandidateScore => Percent(s) >= 65
    <2>1. near(s) >= 85 <=> s > 845
      <3>1. CASE s = 845
        BY <1>2, <3>1
      <3>2. CASE s < 845
        BY <1>2, <3>2
      <3>3. CASE s > 845
        BY <1>2, <3>3
      <3> QED BY <3>1, <3>2, <3>3
    <2>2. s >= 650 => near(s) >= 65
      BY <1>2
    <2>3. near(s) \in Int
      BY <1>2
    <2>4. Percent(s) = IF near(s) < 0 THEN 0 ELSE IF near(s) > 100 THEN 100 ELSE near(s)
      BY <1>4, <2>3
    <2> QED BY <2>1, <2>2, <2>3, <2>4 DEF HighConfidenceScore, MinCandidateScore, Point
  <1> QED BY <1>5, <1>6

-----------------------------------------------------------------------------
(* What a comparison does not overlook *)

LEMMA ScoreParts ==
    ASSUME NEW a \in Items, NEW b \in Items
    PROVE  /\ TokenBonus(a, b) \in Nat /\ Penalty(a, b) \in Nat
           /\ DomainBonus(a, b) \in Nat /\ PriceModifier(a, b) \in {-5, 0, 3}
  <1>1. /\ Cardinality(Shared(a, b) \cap Numeric) \in Nat
        /\ Cardinality(Shared(a, b) \ Numeric) \in Nat
        /\ Cardinality(Shared(a, b) \cap Series) \in Nat
    BY SharedType, Zenon
  <1>2. TokenBonus(a, b) \in Nat
    BY <1>1, Weights DEF TokenBonus
  <1>3. Penalty(a, b) \in Nat
    <2>1. /\ Points(Clash(a.level, b.level), Costs.level) \in Nat
          /\ Points(Clash(a.flex, b.flex), Costs.flex) \in Nat
          /\ Points(Clash(a.hand, b.hand), Costs.hand) \in Nat
          /\ Points(Clash(a.curve, b.curve), Costs.curve) \in Nat
          /\ Points(Clash(a.fit, b.fit), Costs.fit) \in Nat
          /\ Points(a.sizes # {} /\ b.sizes # {} /\ a.sizes \cap b.sizes = {}, Costs.size)
                \in Nat
      BY Weights, PointsType
    <2> QED BY <2>1 DEF Penalty
  <1>4. DomainBonus(a, b) \in Nat
    <2>1. /\ Points(Agree(Kind(a), Kind(b)), Gains.kind) \in Nat
          /\ Points(Agree(a.sport, b.sport), Gains.sport) \in Nat
          /\ Points(a.goalie /\ b.goalie, Gains.goalie) \in Nat
          /\ Points(Agree(a.curve, b.curve), Gains.curve) \in Nat
          /\ Points(Agree(a.hand, b.hand), Gains.hand) \in Nat
          /\ Points(Agree(a.flex, b.flex), Gains.flex) \in Nat
          /\ Points(Agree(a.fit, b.fit), Gains.fit) \in Nat
      BY Weights, PointsType
    <2>2. Gains.series * Cardinality(Shared(a, b) \cap Series) \in Nat
      BY Weights, <1>1
    <2> QED BY <2>1, <2>2 DEF DomainBonus
  <1>5. PriceModifier(a, b) \in {-5, 0, 3}
    BY DEF PriceModifier
  <1> QED BY <1>2, <1>3, <1>4, <1>5

\* Every bonus for two products one gets for twice the first of them, too.
LEMMA BonusOfTwin ==
    ASSUME NEW a \in Items, NEW b \in Items
    PROVE  /\ TokenBonus(a, b) <= TokenBonus(a, a)
           /\ DomainBonus(a, b) <= DomainBonus(a, a)
           /\ PriceModifier(a, b) <= PriceModifier(a, a)
           /\ PriceModifier(a, a) \in {0, 3}
  <1>1. /\ Cardinality(Shared(a, b) \cap Numeric) <= Cardinality(Shared(a, a) \cap Numeric)
        /\ Cardinality(Shared(a, b) \ Numeric) <= Cardinality(Shared(a, a) \ Numeric)
        /\ Cardinality(Shared(a, b) \cap Series) <= Cardinality(Shared(a, a) \cap Series)
    <2>1. Shared(a, a) \subseteq Tokens /\ Shared(a, b) \subseteq Shared(a, a)
      BY DEF Shared, Items
    <2>2. /\ IsFiniteSet(Shared(a, a) \cap Numeric)
          /\ IsFiniteSet(Shared(a, a) \ Numeric)
          /\ IsFiniteSet(Shared(a, a) \cap Series)
      BY <2>1, TokensAssumption, FS_Subset
    <2>3. /\ Shared(a, b) \cap Numeric \subseteq Shared(a, a) \cap Numeric
          /\ Shared(a, b) \ Numeric \subseteq Shared(a, a) \ Numeric
          /\ Shared(a, b) \cap Series \subseteq Shared(a, a) \cap Series
      BY <2>1
    <2> QED BY <2>2, <2>3, FS_Subset
  <1>2. /\ Cardinality(Shared(a, b) \cap Numeric) \in Nat
        /\ Cardinality(Shared(a, b) \ Numeric) \in Nat
        /\ Cardinality(Shared(a, b) \cap Series) \in Nat
        /\ Cardinality(Shared(a, a) \cap Numeric) \in Nat
        /\ Cardinality(Shared(a, a) \ Numeric) \in Nat
        /\ Cardinality(Shared(a, a) \cap Series) \in Nat
    BY SharedType, Zenon
  <1>3. TokenBonus(a, b) <= TokenBonus(a, a)
    BY <1>1, <1>2, Weights DEF TokenBonus
  <1>4. DomainBonus(a, b) <= DomainBonus(a, a)
    <2>1. ASSUME NEW x, NEW y, NEW n \in Nat
          PROVE  Points(Agree(x, y), n) <= Points(Agree(x, x), n)
      BY DEF Points, Agree
    <2>2. /\ Points(Agree(Kind(a), Kind(b)), Gains.kind)
                 <= Points(Agree(Kind(a), Kind(a)), Gains.kind)
          /\ Points(Agree(a.sport, b.sport), Gains.sport)
                 <= Points(Agree(a.sport, a.sport), Gains.sport)
          /\ Points(Agree(a.curve, b.curve), Gains.curve)
                 <= Points(Agree(a.curve, a.curve), Gains.curve)
          /\ Points(Agree(a.hand, b.hand), Gains.hand)
                 <= Points(Agree(a.hand, a.hand), Gains.hand)
          /\ Points(Agree(a.flex, b.flex), Gains.flex)
                 <= Points(Agree(a.flex, a.flex), Gains.flex)
          /\ Points(Agree(a.fit, b.fit), Gains.fit)
                 <= Points(Agree(a.fit, a.fit), Gains.fit)
      BY <2>1, Weights
    <2>3. Points(a.goalie /\ b.goalie, Gains.goalie)
              <= Points(a.goalie /\ a.goalie, Gains.goalie)
      BY Weights DEF Points
    <2>4. Gains.series * Cardinality(Shared(a, b) \cap Series)
              <= Gains.series * Cardinality(Shared(a, a) \cap Series)
      BY <1>1, <1>2, Weights
    <2>5. \A c : /\ Points(c, Gains.kind) \in Nat /\ Points(c, Gains.sport) \in Nat
                 /\ Points(c, Gains.goalie) \in Nat /\ Points(c, Gains.curve) \in Nat
                 /\ Points(c, Gains.hand) \in Nat /\ Points(c, Gains.flex) \in Nat
                 /\ Points(c, Gains.fit) \in Nat
      BY Weights, PointsType
    <2>6. /\ Gains.series * Cardinality(Shared(a, b) \cap Series) \in Nat
          /\ Gains.series * Cardinality(Shared(a, a) \cap Series) \in Nat
      BY <1>2, Weights
    <2> QED BY <2>2, <2>3, <2>4, <2>5, <2>6 DEF DomainBonus
  <1>5. PriceModifier(a, b) <= PriceModifier(a, a) /\ PriceModifier(a, a) \in {0, 3}
    <2>1. Uah(a) \in Nat /\ Uah(b) \in Nat
      BY PriceType
    <2>2. CASE Uah(a) = 0
      <3>1. \A n \in Nat : (IF n < 0 THEN n ELSE 0) = 0 /\ (IF 0 < n THEN 0 ELSE n) = 0
        OBVIOUS
      <3>2. PriceModifier(a, b) = 0 /\ PriceModifier(a, a) = 0
        BY <2>1, <2>2, <3>1 DEF PriceModifier
      <3> QED BY <3>2
    <2>3. CASE Uah(a) # 0
      <3>1. Uah(a) > 0 /\ 10 * Uah(a) >= 9 * Uah(a)
        BY <2>1, <2>3
      <3>2. PriceModifier(a, a) = 3
        BY <2>1, <3>1 DEF PriceModifier
      <3> QED BY <3>2, ScoreParts
    <2> QED BY <2>2, <2>3
  <1> QED BY <1>3, <1>4, <1>5

\* No product scores better with another one than with its twin, whose price and
\* title it has; and the twin is as good as a match can be.
THEOREM TwinScoresBest ==
    ASSUME NEW a \in Items, NEW b \in Items, NEW ratio \in 0 .. 100 * Point
    PROVE  /\ PairScore(a, b, ratio) <= PairScore(a, a, 100 * Point)
           /\ PairScore(a, a, 100 * Point) >= 100 * Point
           /\ Percent(PairScore(a, a, 100 * Point)) = 100
  <1>1. ~Excluded(a, a)
    <2>1. \A x : ~Clash(x, x)
      BY DEF Clash
    <2> QED BY <2>1 DEF Excluded, GoalieConflict, KindConflict
  <1>2. Penalty(a, a) = 0
    <2>1. \A x, n : Points(Clash(x, x), n) = 0
      BY DEF Points, Clash
    <2>2. \A n : Points(a.sizes # {} /\ a.sizes # {} /\ a.sizes \cap a.sizes = {}, n) = 0
      BY DEF Points
    <2> QED BY <2>1, <2>2 DEF Penalty
  <1>3. /\ TokenBonus(a, a) \in Nat /\ DomainBonus(a, a) \in Nat
        /\ TokenBonus(a, b) \in Nat /\ DomainBonus(a, b) \in Nat
        /\ Penalty(a, b) \in Nat /\ PriceModifier(a, b) \in Int
    BY ScoreParts
  <1>4. PriceModifier(a, a) \in Nat
    BY BonusOfTwin
  <1>5. PairScore(a, a, 100 * Point)
            = 1000 + 10 * (TokenBonus(a, a) + DomainBonus(a, a) + PriceModifier(a, a))
    BY <1>1, <1>2, <1>3, <1>4 DEF PairScore, Point
  <1>6. PairScore(a, a, 100 * Point) \in Int /\ PairScore(a, a, 100 * Point) >= 1000
    BY <1>3, <1>4, <1>5
  <1>7. PairScore(a, b, ratio) <= PairScore(a, a, 100 * Point)
    <2>1. CASE Excluded(a, b)
      BY <1>6, <2>1 DEF PairScore, Impossible
    <2>2. CASE ~Excluded(a, b)
      <3>1. PairScore(a, b, ratio) = ratio + 10 * (TokenBonus(a, b) + DomainBonus(a, b)
                                         - Penalty(a, b) + PriceModifier(a, b))
        BY <2>2 DEF PairScore, Point
      <3>2. ratio \in Nat /\ ratio <= 1000
        BY DEF Point
      <3> QED BY <1>3, <1>4, <1>5, <3>1, <3>2, BonusOfTwin
    <2> QED BY <2>1, <2>2
  <1>8. Percent(PairScore(a, a, 100 * Point)) = 100
    <2> DEFINE s == PairScore(a, a, 100 * Point)
    <2>1. Percent(1000) <= Percent(s) /\ Percent(s) \in 0 .. 100
      <3>1. 1000 \in Int /\ s \in Int /\ 1000 <= s
        BY <1>6
      <3> HIDE DEF s
      <3> QED BY <3>1, PercentOrdered
    <2>2. Percent(1000) = 100
      <3>1. 1000 \div 10 = 100 /\ 1000 % 10 = 0
        OBVIOUS
      <3> QED BY <3>1 DEF Percent, Point
    <2> HIDE DEF s
    <2>3. Percent(s) = 100
      BY <2>1, <2>2
    <2> QED BY <2>3 DEF s
  <1> QED BY <1>6, <1>7, <1>8 DEF Point

\* The twin of a reference product is in the pool of its candidates, and no other
\* target is a clear best one.
LEMMA TwinLeads ==
    ASSUME NEW v \in View, NEW r \in OpenRefs(v), NEW t \in OpenTargets(v),
           RefItem[r] = TgtItem[t], Ratio[<<r, t>>] = 100 * Point
    PROVE  /\ t \in Candidates(v, r)
           /\ Percent(Score[<<r, t>>]) = 100
           /\ \A u \in OpenTargets(v) : ClearBest(v, r, u) => u = t
  <1>1. r \in Refs /\ t \in Targets /\ OpenTargets(v) \subseteq Targets
    BY DEF OpenRefs, OpenTargets, RefsOf, TargetsOf
  <1>2. RefItem[r] \in Items /\ \A u \in Targets : TgtItem[u] \in Items
    BY <1>1, ConstantsAssumption, Zenon
  <1>3. Score[<<r, t>>] = PairScore(RefItem[r], RefItem[r], 100 * Point)
    <2>1. <<r, t>> \in Refs \X Targets
      BY <1>1
    <2> QED BY <2>1 DEF Score
  <1>4. /\ Score[<<r, t>>] >= 1000
        /\ Percent(Score[<<r, t>>]) = 100
    <2>1. 0 \in 0 .. 100 * Point
      BY DEF Point
    <2> QED BY <1>2, <1>3, <2>1, TwinScoresBest DEF Point
  <1>5. t \in Pool(v, r)
    BY DEF Pool, Agree
  <1>6. t \in Candidates(v, r)
    BY <1>1, <1>4, <1>5, ScoreType DEF Candidates, MinCandidateScore, Point
  <1>7. ASSUME NEW u \in OpenTargets(v), ClearBest(v, r, u), u # t
        PROVE  FALSE
    <2>1. <<r, u>> \in Refs \X Targets /\ <<r, t>> \in Refs \X Targets
      BY <1>1
    <2>2. Ratio[<<r, u>>] \in 0 .. 100 * Point
      BY <2>1, ConstantsAssumption, Zenon
    <2>3. Score[<<r, u>>] <= Score[<<r, t>>]
      <3>1. Score[<<r, u>>] = PairScore(RefItem[r], TgtItem[u], Ratio[<<r, u>>])
        BY <2>1 DEF Score
      <3>2. RefItem[r] \in Items /\ TgtItem[u] \in Items
        BY <1>1, <1>2
      <3> QED BY <1>3, <2>2, <3>1, <3>2, TwinScoresBest
    <2>4. Score[<<r, u>>] \in Int /\ Score[<<r, t>>] \in Int
      BY <2>1, ScoreType
    <2>5. Score[<<r, u>>] - Score[<<r, t>>] >= MinGap
      BY <1>5, <1>7 DEF ClearBest
    <2> QED BY <2>3, <2>4, <2>5 DEF MinGap, Point
  <1> QED BY <1>4, <1>6, <1>7

\* An open product whose twin is open, too, is matched with it for sure or has it
\* among its candidates, unless somebody has rejected the pair.
TwinsFound ==
    \A w \in Threads : Complete(w) =>
        LET v == request[w] IN
        \A r \in OpenRefs(v), t \in OpenTargets(v) :
            RefItem[r] = TgtItem[t] /\ Ratio[<<r, t>>] = 100 * Point =>
                \/ <<r, t>> \in HighConfidence(v) \cup Shown(v)
                \/ /\ <<r, t>> \in Pairs
                   /\ mapping[<<r, t>>] = "rejected" \/ <<r, t>> \in news[w]

\* What a comparison knows as rejected is so, unless it is news.
LEMMA RejectedNow ==
    ASSUME IInv, NEW w \in Threads, Complete(w), NEW p \in request[w].rejected,
           p[1] \in RefsOf(request[w])
    PROVE  p \in Pairs /\ (mapping[p] = "rejected" \/ p \in news[w])
  <1>1. p \in Pairs
    BY CompleteKind DEF View
  <1>2. RefCat[p[1]] = request[w].cat
    BY DEF RefsOf
  <1> QED BY <1>1, <1>2, CompleteKind DEF RejectedOk

LEMMA TwinsNow == IInv => TwinsFound
  <1> SUFFICES ASSUME IInv, NEW w \in Threads, Complete(w), NEW v, v = request[w],
                      NEW r \in OpenRefs(v), NEW t \in OpenTargets(v),
                      RefItem[r] = TgtItem[t], Ratio[<<r, t>>] = 100 * Point,
                      NEW p, p = <<r, t>>
               PROVE  \/ p \in HighConfidence(v) \cup Shown(v)
                      \/ p \in Pairs /\ (mapping[p] = "rejected" \/ p \in news[w])
    BY DEF TwinsFound
  <1>1. v \in View
    BY CompleteKind
  <1>2. /\ t \in Candidates(v, r) /\ Percent(Score[p]) = 100
        /\ \A u \in OpenTargets(v) : ClearBest(v, r, u) => u = t
    BY <1>1, TwinLeads
  <1>3. CASE p \in v.rejected
    <2>1. p[1] \in RefsOf(request[w])
      BY DEF OpenRefs
    <2> QED BY <1>3, <2>1, RejectedNow
  <1>4. CASE p \notin v.rejected /\ ClearBest(v, r, t)
    <2>1. p \in Matched(v)
      BY <1>4 DEF Matched
    <2> QED BY <1>2, <1>4, <2>1 DEF HighConfidence, HighConfidenceScore
  <1>5. CASE p \notin v.rejected /\ ~ClearBest(v, r, t)
    <2>1. r \in Ambiguous(v)
      BY <1>2, <1>5 DEF Ambiguous
    <2>2. p \in Near(v)
      BY <1>2, <2>1 DEF Near
    <2> QED BY <1>5, <2>2 DEF Shown
  <1> QED BY <1>3, <1>4, <1>5

\* The heuristic does not overlook a twin: not for a rival that scores better, not for
\* a missing brand or price, and not for what is decided while the queries run.
THEOREM TwinsSafe == Spec => []TwinsFound
  BY TwinsNow, InvAlways, PTL

\* What the gap view is short of (GapComplete): a target that no section of the
\* comparison has is a near candidate of an ambiguous product, and the pair has
\* been rejected.
GapShortOfRejected ==
    \A w \in Threads : Complete(w) =>
        LET v == request[w]
            elsewhere == {p[2] : p \in Stored(v) \cup HighConfidence(v) \cup Shown(v)}
        IN  \A t \in TargetsOf(v) \ (TargetOnly(v) \cup elsewhere) :
                \E p \in Near(v) \cap Pairs :
                    p[2] = t /\ (mapping[p] = "rejected" \/ p \in news[w])

LEMMA GapShortNow == IInv => GapShortOfRejected
  <1> SUFFICES ASSUME IInv, NEW w \in Threads, Complete(w), NEW v, v = request[w],
                      NEW t \in TargetsOf(v), t \notin TargetOnly(v),
                      \A p \in Stored(v) \cup HighConfidence(v) \cup Shown(v) : p[2] # t
               PROVE  \E p \in Near(v) \cap Pairs :
                          p[2] = t /\ (mapping[p] = "rejected" \/ p \in news[w])
    BY DEF GapShortOfRejected
  <1>1. PICK p \in Stored(v) \cup HighConfidence(v) \cup Lower(v) \cup Near(v) : p[2] = t
    BY DEF TargetOnly
  <1>2. p \in Near(v) /\ p \in v.rejected
    BY <1>1 DEF Shown
  <1>3. p[1] \in RefsOf(v)
    BY <1>2 DEF Near, Ambiguous, OpenRefs
  <1> QED BY <1>1, <1>2, <1>3, RejectedNow

\* The gap view misses no target for any other reason, so it is complete where
\* nobody has rejected anything.
THEOREM GapShort == Spec => []GapShortOfRejected
  BY GapShortNow, InvAlways, PTL
=============================================================================
