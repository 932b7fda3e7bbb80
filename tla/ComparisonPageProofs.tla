------------------------- MODULE ComparisonPageProofs -------------------------
(***************************************************************************)
(* Theorems about ComparisonPage for any products, categories, scores and   *)
(* number of requests in flight.                                           *)
(***************************************************************************)
EXTENDS ComparisonPage, TLAPS

-----------------------------------------------------------------------------
(* The inductive invariant *)

\* What view v offers was decided only by news n, if at all (table m).
Undecided(v, m, n) == \A p \in Offered(v) : m[p] = "none" \/ p \in n

Scoped(v) == \A p \in Offered(v) : TgtCatOf[p[2]] \in MappedTo[RefCatOf[p[1]]]

\* The rejections that a comparison has read are those of the table, but news.
ReadOk(c, m, n) ==
    /\ c.step \in {"rejected", "taken"} =>
         /\ InScope(c)
         /\ \A p \in Pairs : m[p] = "rejected" /\ RefCatOf[p[1]] = c.cat
                               => p \in c.rejected \cup n
    /\ c.step = "answered" => Undecided(c.view, m, n) /\ Scoped(c.view)

\* A result is on the page or on its way.
ResultInv ==
    /\ ReadOk(cmp, mapping, news)
    /\ Undecided(view, mapping, news) /\ Scoped(view)
    /\ view.shown => cmp.step = "none"
    /\ VanishedIsStored

SaveInv ==
    \A k \in 1 .. Saves :
        /\ save[k].step # "none" => save[k].pair \in Pairs
        /\ save[k].step = "stored" => save[k].pair \in mine

\* A search that is not left over is one for the product of the drawer.
PickInv ==
    /\ Open => \A k \in 1 .. Searches :
                 search[k].step = "sent" /\ ~search[k].left => search[k].ref = drawer.ref
    /\ ListedForProduct

IInv == TypeOK /\ ResultInv /\ SaveInv /\ PickInv

-----------------------------------------------------------------------------
(* What the steps leave alone *)

LEMMA ResultKept ==
    ASSUME ResultInv, UNCHANGED <<mapping, cmp, view, history>>
    PROVE  ResultInv'
  BY DEF ResultInv, ReadOk, Undecided, Scoped, VanishedIsStored, InScope, Offered,
         history

LEMMA SaveKept ==
    ASSUME SaveInv, UNCHANGED <<save, mine>>
    PROVE  SaveInv'
  BY DEF SaveInv

LEMMA PickKept ==
    ASSUME PickInv, UNCHANGED picking
    PROVE  PickInv'
  BY DEF PickInv, picking, Open, ListedForProduct

\* A write of the pair q is news.
LEMMA WriteKept ==
    ASSUME TypeOK, ResultInv, NEW q \in Pairs, NEW s, NEW n,
           news \subseteq n, s = mapping[q] \/ q \in n,
           mapping' = [mapping EXCEPT ![q] = s], news' = n, UNCHANGED <<cmp, view, origin>>,
           mine \subseteq mine'
    PROVE  ResultInv'
  <1>1. \A p \in Pairs : mapping'[p] = mapping[p] \/ p \in n
    BY DEF TypeOK
  <1>2. ASSUME NEW v \in Views, Undecided(v, mapping, news)
        PROVE  Undecided(v, mapping', news')
    BY <1>1, <1>2 DEF Undecided, Offered, Views
  <1>3. ReadOk(cmp, mapping', news')
    <2>1. cmp.view \in Views
      BY DEF TypeOK
    <2> QED BY <1>1, <1>2, <2>1 DEF ResultInv, ReadOk
  <1>4. Undecided(view, mapping', news')
    BY <1>2 DEF ResultInv, TypeOK
  <1>5. VanishedIsStored'
    BY DEF ResultInv, VanishedIsStored, Offered
  <1> QED BY <1>3, <1>4, <1>5 DEF ResultInv, ReadOk, Undecided, Scoped, InScope, Offered

-----------------------------------------------------------------------------
(* Scope *)

FormType == [cat : RefCats \cup {None}, store : SUBSET TargetCats, cats : SUBSET TargetCats]
AskType == [cat : RefCats, store : SUBSET TargetCats]

LEMMA ScopeKept ==
    ASSUME IInv, UNCHANGED <<mapping, cmp, view, deciding, picking, history>>,
           events' \in 0 .. MaxEvents, form' \in FormType, asked' \subseteq AskType
    PROVE  IInv'
  <1>1. TypeOK'
    BY DEF IInv, TypeOK, FormType, AskType, deciding, picking, history
  <1> QED BY <1>1, ResultKept, SaveKept, PickKept DEF IInv, deciding, history

LEMMA EventTyped ==
    ASSUME TypeOK, Event
    PROVE  events' \in 0 .. MaxEvents
  BY ComparisonAssumption DEF Event, TypeOK

LEMMA ScopeStep ==
    ASSUME IInv,
           \/ \E c \in RefCats : SelectRefCategory(c)
           \/ \E s \in Stores : SetTargetStore(s)
           \/ \E a \in asked : MappedTargets(a)
    PROVE  IInv'
  <1>0. TypeOK /\ form \in FormType /\ asked \subseteq AskType
    BY DEF IInv, TypeOK, FormType, AskType
  <1>1. ASSUME NEW c \in RefCats, SelectRefCategory(c)
        PROVE  IInv'
    <2>1. form' \in FormType
      <3>1. [form EXCEPT !.cat = c] \in FormType
        BY <1>0 DEF FormType
      <3>2. PICK f \in FormType : form' = [f EXCEPT !.cats = {}]
        BY <1>1, <3>1, Zenon DEF SelectRefCategory
      <3> QED BY <3>2 DEF FormType
    <2>2. asked' \subseteq AskType
      <3>1. asked' = asked \cup {[cat |-> c, store |-> form.store]}
        BY <1>1, Zenon DEF SelectRefCategory, Ask
      <3> QED BY <1>0, <3>1 DEF FormType, AskType
    <2>3. events' \in 0 .. MaxEvents
      BY <1>0, <1>1, EventTyped DEF SelectRefCategory, PageEvent
    <2>4. UNCHANGED <<mapping, cmp, view, deciding, picking, history>>
      BY <1>1 DEF SelectRefCategory
    <2> QED BY <2>1, <2>2, <2>3, <2>4, ScopeKept
  <1>2. ASSUME NEW s \in Stores, SetTargetStore(s)
        PROVE  IInv'
    <2>0. s \subseteq TargetCats
      BY ComparisonAssumption
    <2>1. form' \in FormType
      <3>1. [form EXCEPT !.store = s] \in FormType
        BY <1>0, <2>0 DEF FormType
      <3>2. PICK f \in FormType : form' = [f EXCEPT !.cats = {}]
        BY <1>2, <3>1, Zenon DEF SetTargetStore
      <3> QED BY <3>2 DEF FormType
    <2>2. asked' \subseteq AskType
      <3>1. \/ asked' = asked
            \/ /\ form.cat # None
               /\ asked' = asked \cup {[cat |-> form.cat, store |-> s]}
        <4>1. IF form.cat = None THEN UNCHANGED asked ELSE Ask(form.cat, s)
          BY <1>2, Zenon DEF SetTargetStore
        <4> QED BY <4>1, Zenon DEF Ask
      <3> QED BY <1>0, <2>0, <3>1 DEF FormType, AskType
    <2>3. events' \in 0 .. MaxEvents
      BY <1>0, <1>2, EventTyped DEF SetTargetStore, PageEvent
    <2>4. UNCHANGED <<mapping, cmp, view, deciding, picking, history>>
      BY <1>2 DEF SetTargetStore
    <2> QED BY <2>1, <2>2, <2>3, <2>4, ScopeKept
  <1>3. ASSUME NEW a \in asked, MappedTargets(a)
        PROVE  IInv'
    <2>1. MappedTo[a.cat] \cap a.store \in SUBSET TargetCats
      BY <1>0 DEF AskType
    <2>2. PICK cats \in {MappedTo[a.cat] \cap a.store, {}} :
            form' = [form EXCEPT !.cats = cats]
      BY <1>3 DEF MappedTargets
    <2>3. cats \subseteq TargetCats
      BY <2>1, <2>2
    <2>4. form' \in FormType
      BY <1>0, <2>2, <2>3 DEF FormType
    <2>5. asked' \subseteq AskType /\ events' \in 0 .. MaxEvents
      BY <1>0, <1>3 DEF MappedTargets, TypeOK
    <2> QED BY <1>3, <2>4, <2>5, ScopeKept DEF MappedTargets
  <1> QED BY <1>1, <1>2, <1>3

-----------------------------------------------------------------------------
(* Comparison *)

\* What a comparison has found, and what it says of it.
LEMMA ResultTyped ==
    ASSUME TypeOK
    PROVE  Result(cmp) \in Views
  <1>1. OpenRefs(cmp) \subseteq Refs /\ OpenTargets(cmp) \subseteq Targets
    BY DEF OpenRefs, OpenTargets
  <1>2. Near(cmp) \subseteq Pairs /\ Clear(cmp) \subseteq Near(cmp)
        /\ Ambiguous(cmp) \subseteq Near(cmp)
    BY <1>1 DEF Near, Clear, Ambiguous, Pairs
  <1>3. \A p \in Near(cmp) : p[1] \in Refs
    BY <1>1, <1>2 DEF Pairs
  <1>4. cmp.taken \subseteq Targets
    BY DEF TypeOK
  <1> HIDE DEF Near, Clear, Ambiguous, OpenRefs
  <1> QED BY <1>1, <1>2, <1>3, <1>4 DEF Result, Views

LEMMA ResultOk ==
    ASSUME TypeOK, ResultInv, cmp.step = "taken"
    PROVE  Undecided(Result(cmp), mapping, news) /\ Scoped(Result(cmp))
  <1> SUFFICES ASSUME NEW p \in Offered(Result(cmp))
               PROVE  /\ mapping[p] = "none" \/ p \in news
                      /\ TgtCatOf[p[2]] \in MappedTo[RefCatOf[p[1]]]
    BY DEF Undecided, Scoped
  <1>1. p \in Near(cmp) /\ p \notin cmp.rejected
    BY DEF Offered, Result, Clear, Ambiguous
  <1>2. /\ p \in Pairs /\ p[1] \in Refs /\ p[2] \in Targets
        /\ p[1] \in OpenRefs(cmp) /\ p[2] \in OpenTargets(cmp)
    BY <1>1 DEF Near, OpenRefs, OpenTargets, Pairs
  <1>3. RefCatOf[p[1]] = cmp.cat /\ TgtCatOf[p[2]] \in cmp.cats
    BY <1>2 DEF OpenRefs, OpenTargets
  <1>4. mapping[p] # "confirmed"
    BY <1>2, <1>3 DEF OpenTargets, ScopePairs, Confirmed
  <1>5. mapping[p] = "rejected" => p \in news
    BY <1>1, <1>2, <1>3 DEF ResultInv, ReadOk
  <1>6. mapping[p] \in {"none", "confirmed", "rejected"}
    BY <1>2 DEF TypeOK, Statuses
  <1>7. cmp.cats \subseteq MappedTo[cmp.cat]
    BY DEF ResultInv, ReadOk, InScope
  <1> QED BY <1>3, <1>4, <1>5, <1>6, <1>7

LEMMA NoViewOk == NoView \in Views /\ Offered(NoView) = {} /\ ~NoView.shown
  BY DEF NoView, Views, Offered

LEMMA CompareOk ==
    ASSUME IInv, Compare
    PROVE  IInv'
  <1>1. events' \in 0 .. MaxEvents
    BY ComparisonAssumption DEF Compare, PageEvent, Event, IInv, TypeOK
  <1>2. /\ view' = NoView /\ origin' = NoView /\ cmp'.step = "sent" /\ news' = {}
        /\ UNCHANGED <<mapping, scoping, deciding, picking, mine>>
    BY DEF Compare, NoCompare
  <1>3. cmp' \in [step : {"none", "sent", "rejected", "taken", "answered"},
                  cat : RefCats \cup {None}, cats : SUBSET TargetCats,
                  rejected : SUBSET Pairs, taken : SUBSET Targets, view : Views]
    BY NoViewOk DEF Compare, NoCompare, IInv, TypeOK
  <1>4. TypeOK'
    BY <1>1, <1>2, <1>3, NoViewOk DEF IInv, TypeOK, scoping, deciding, picking
  <1>5. ResultInv'
    BY <1>2, NoViewOk DEF ResultInv, ReadOk, Undecided, Scoped, VanishedIsStored
  <1> QED BY <1>2, <1>4, <1>5, SaveKept, PickKept DEF IInv, deciding

CmpType == [step : {"none", "sent", "rejected", "taken", "answered"},
            cat : RefCats \cup {None}, cats : SUBSET TargetCats,
            rejected : SUBSET Pairs, taken : SUBSET Targets, view : Views]

\* A step of the comparison changes cmp alone.
LEMMA CompareKept ==
    ASSUME IInv, CompareStep, cmp' \in CmpType, ReadOk(cmp', mapping, news),
           cmp.step # "none"
    PROVE  IInv'
  <1>1. TypeOK'
    BY DEF IInv, TypeOK, CmpType, CompareStep, scoping, deciding, picking, history
  <1>2. ReadOk(cmp, mapping, news)'
    BY DEF CompareStep, history
  <1>3. ~view.shown
    BY DEF IInv, ResultInv
  <1>4. ResultInv'
    BY <1>2, <1>3 DEF IInv, ResultInv, Undecided, Scoped, VanishedIsStored, Offered,
                      CompareStep, history
  <1> QED BY <1>1, <1>4, SaveKept, PickKept DEF IInv, CompareStep, deciding, history

LEMMA ComparisonStep ==
    ASSUME IInv, Comparison
    PROVE  IInv'
  <1>1. CASE ReadRejected
    <2> DEFINE rejected == {p \in Pairs : RefCatOf[p[1]] = cmp.cat /\ mapping[p] = "rejected"}
    <2>1. cmp' = [cmp EXCEPT !.step = "rejected", !.rejected = rejected]
      BY <1>1 DEF ReadRejected
    <2>2. rejected \subseteq Pairs
      OBVIOUS
    <2>3. \A p \in Pairs : mapping[p] = "rejected" /\ RefCatOf[p[1]] = cmp.cat => p \in rejected
      OBVIOUS
    <2> HIDE DEF rejected
    <2>4. /\ cmp' \in CmpType /\ cmp'.step = "rejected" /\ cmp'.rejected = rejected
          /\ cmp'.cat = cmp.cat /\ cmp'.cats = cmp.cats
      BY <2>1, <2>2 DEF IInv, TypeOK, CmpType
    <2>5. ReadOk(cmp', mapping, news)
      BY <1>1, <2>3, <2>4 DEF ReadOk, ReadRejected, InScope
    <2> QED BY <1>1, <2>4, <2>5, CompareKept DEF ReadRejected
  <1>2. CASE ReadTaken
    <2> DEFINE taken == {p[2] : p \in {q \in Pairs : Confirmed(q)}}
    <2>1. cmp' = [cmp EXCEPT !.step = "taken", !.taken = taken]
      BY <1>2 DEF ReadTaken
    <2>2. taken \subseteq Targets
      BY DEF Pairs
    <2> HIDE DEF taken
    <2>3. /\ cmp' \in CmpType /\ cmp'.step = "taken" /\ cmp'.rejected = cmp.rejected
          /\ cmp'.cat = cmp.cat /\ cmp'.cats = cmp.cats
      BY <2>1, <2>2 DEF IInv, TypeOK, CmpType
    <2>4. ReadOk(cmp', mapping, news)
      BY <1>2, <2>3 DEF ReadOk, ReadTaken, InScope, IInv, ResultInv
    <2> QED BY <1>2, <2>3, <2>4, CompareKept DEF ReadTaken
  <1>3. CASE ReadSaved
    <2>1. Result(cmp) \in Views
      BY ResultTyped DEF IInv
    <2>2. /\ cmp' \in CmpType /\ cmp'.step = "answered" /\ cmp'.view = Result(cmp)
      <3> DEFINE found == Result(cmp)
      <3> HIDE DEF found
      <3>1. cmp' = [NoCompare EXCEPT !.step = "answered", !.cat = cmp.cat,
                                     !.cats = cmp.cats, !.view = found]
        BY <1>3 DEF ReadSaved, found
      <3>2. found \in Views
        BY <2>1 DEF found
      <3>3. cmp' \in CmpType /\ cmp'.step = "answered" /\ cmp'.view = found
        BY <3>1, <3>2 DEF NoCompare, IInv, TypeOK, CmpType
      <3> QED BY <3>3 DEF found
    <2>3. Undecided(cmp'.view, mapping, news) /\ Scoped(cmp'.view)
      BY <1>3, <2>2, ResultOk DEF ReadSaved, IInv
    <2>4. ReadOk(cmp', mapping, news)
      BY <2>2, <2>3 DEF ReadOk
    <2> QED BY <1>3, <2>2, <2>4, CompareKept DEF ReadSaved
  <1>4. CASE CompareFails
    <2>1. cmp' = NoCompare
      BY <1>4 DEF CompareFails
    <2>2. NoCompare \in CmpType /\ NoCompare.step = "none"
      BY NoViewOk DEF NoCompare, CmpType
    <2>3. ReadOk(cmp', mapping, news)
      BY <2>1, <2>2 DEF ReadOk
    <2> QED BY <1>4, <2>1, <2>2, <2>3, CompareKept DEF CompareFails
  <1>5. CASE ShowResult
    <2>1. /\ cmp' = NoCompare /\ view' = cmp.view /\ origin' = cmp.view
          /\ UNCHANGED <<mapping, scoping, deciding, picking, events, news, mine>>
      BY <1>5 DEF ShowResult
    <2>2. NoCompare \in CmpType /\ NoCompare.step = "none" /\ cmp.view \in Views
      BY NoViewOk DEF NoCompare, CmpType, IInv, TypeOK
    <2>3. TypeOK'
      BY <2>1, <2>2 DEF IInv, TypeOK, CmpType, scoping, deciding, picking
    <2>4. Undecided(cmp.view, mapping, news) /\ Scoped(cmp.view)
      BY <1>5 DEF ShowResult, IInv, ResultInv, ReadOk
    <2>5. Undecided(view, mapping, news)' /\ Scoped(view)'
      BY <2>1, <2>4 DEF Undecided, Scoped, Offered
    <2>6. ResultInv'
      BY <2>1, <2>2, <2>5 DEF ResultInv, ReadOk, VanishedIsStored
    <2> QED BY <2>1, <2>3, <2>6, SaveKept, PickKept DEF IInv, deciding
  <1> QED BY <1>1, <1>2, <1>3, <1>4, <1>5 DEF Comparison

-----------------------------------------------------------------------------
(* Decisions *)

SaveType == [step : {"none", "sent", "checked", "stored", "failed"},
             pair : Pairs \cup {None}, status : Statuses, cats : SUBSET TargetCats]

LEMMA ElsewhereStep ==
    ASSUME IInv, NEW p \in Others, DecideElsewhere(p)
    PROVE  IInv'
  <1>1. p \in Pairs
    BY ComparisonAssumption
  <1>2. PICK s \in Statuses \cup {"none"} : mapping' = [mapping EXCEPT ![p] = s]
    BY DEF DecideElsewhere
  <1>3. /\ news' = news \cup {p}
        /\ UNCHANGED <<scoping, cmp, view, deciding, picking, mine, origin>>
    BY DEF DecideElsewhere
  <1>4. events' \in 0 .. MaxEvents
    BY EventTyped DEF DecideElsewhere, IInv
  <1>5. TypeOK'
    BY <1>1, <1>2, <1>3, <1>4 DEF IInv, TypeOK, scoping, deciding, picking
  <1>6. ResultInv'
    BY <1>1, <1>2, <1>3, WriteKept DEF IInv
  <1> QED BY <1>3, <1>5, <1>6, SaveKept, PickKept DEF IInv, deciding

\* A decision that is sent changes nothing but its slot and the buttons.
LEMMA MadeKept ==
    ASSUME IInv, NEW p \in Pairs, NEW s \in Statuses, MakeDecision(p, s),
           UNCHANGED <<mapping, scoping, cmp, view, history>>
    PROVE  /\ save' \in [1 .. Saves -> SaveType] /\ pending' \in Pairs
           /\ ResultInv' /\ SaveInv'
  <1>1. PICK k \in 1 .. Saves :
          save' = [save EXCEPT ![k] = [step |-> "sent", pair |-> p, status |-> s,
                                       cats |-> form.cats]]
    BY DEF MakeDecision
  <1>2. form.cats \subseteq TargetCats /\ save \in [1 .. Saves -> SaveType]
    BY DEF IInv, TypeOK, SaveType
  <1>3. save' \in [1 .. Saves -> SaveType] /\ pending' \in Pairs
    BY <1>1, <1>2 DEF MakeDecision, SaveType
  <1>4. SaveInv'
    BY <1>1, <1>2 DEF IInv, SaveInv, history
  <1> QED BY <1>3, <1>4, ResultKept DEF IInv

LEMMA DecideStep ==
    ASSUME IInv, NEW p \in Pairs, NEW s \in Statuses, Decide(p, s)
    PROVE  IInv'
  <1>1. UNCHANGED <<mapping, scoping, cmp, view, picking, history>> /\ MakeDecision(p, s)
    BY DEF Decide
  <1>2. events' \in 0 .. MaxEvents
    BY EventTyped DEF Decide, PageEvent, IInv
  <1>3. /\ save' \in [1 .. Saves -> SaveType] /\ pending' \in Pairs
        /\ ResultInv' /\ SaveInv'
    BY <1>1, MadeKept
  <1>4. TypeOK'
    BY <1>1, <1>2, <1>3 DEF IInv, TypeOK, SaveType, scoping, picking, history
  <1> QED BY <1>1, <1>3, <1>4, PickKept DEF IInv

\* The slot of a request moves on, and nothing else.
LEMMA AdvanceOk ==
    ASSUME IInv, NEW k \in 1 .. Saves, NEW s \in {"checked", "failed"}, Advance(k, s),
           save[k].step # "none", UNCHANGED <<mapping, news, mine>>
    PROVE  IInv'
  <1>1. save \in [1 .. Saves -> SaveType]
    BY DEF IInv, TypeOK, SaveType
  <1>2. save' \in [1 .. Saves -> SaveType]
    BY <1>1 DEF Advance, SaveType
  <1>3. /\ \A i \in 1 .. Saves : save'[i].pair = save[i].pair
        /\ \A i \in 1 .. Saves \ {k} : save'[i].step = save[i].step
        /\ save'[k].step = s
    BY <1>1 DEF Advance, SaveType
  <1>4. UNCHANGED <<scoping, cmp, view, pending, picking, events, origin>>
    BY DEF Advance
  <1>5. TypeOK'
    BY <1>2, <1>4 DEF IInv, TypeOK, SaveType, scoping, picking
  <1>6. SaveInv'
    BY <1>3 DEF IInv, SaveInv
  <1>7. ResultInv'
    BY <1>4, ResultKept DEF IInv, history
  <1> QED BY <1>4, <1>5, <1>6, <1>7, PickKept DEF IInv

LEMMA StoreOk ==
    ASSUME IInv, NEW k \in 1 .. Saves, StoreDecision(k)
    PROVE  IInv'
  <1> DEFINE d == save[k]
  <1>1. save \in [1 .. Saves -> SaveType] /\ d \in SaveType
    BY DEF IInv, TypeOK, SaveType
  <1>2. d.pair \in Pairs /\ d.status \in Statuses
    BY <1>1 DEF StoreDecision, IInv, SaveInv, SaveType
  <1>3. /\ mapping' = [mapping EXCEPT ![d.pair] = d.status]
        /\ news' = IF mapping[d.pair] = d.status THEN news ELSE news \cup {d.pair}
        /\ mine' = mine \cup {d.pair}
        /\ save' = [save EXCEPT ![k].step = "stored"]
        /\ UNCHANGED <<scoping, cmp, view, pending, picking, events, origin>>
    BY DEF StoreDecision, Advance
  <1>4. save' \in [1 .. Saves -> SaveType]
    BY <1>1, <1>3 DEF SaveType
  <1>5. /\ \A i \in 1 .. Saves : save'[i].pair = save[i].pair
        /\ \A i \in 1 .. Saves \ {k} : save'[i].step = save[i].step
    BY <1>1, <1>3 DEF SaveType
  <1>6. SaveInv'
    BY <1>2, <1>3, <1>5 DEF IInv, SaveInv
  <1>7. ResultInv'
    <2> DEFINE n == IF mapping[d.pair] = d.status THEN news ELSE news \cup {d.pair}
    <2>1. news \subseteq n /\ (d.status = mapping[d.pair] \/ d.pair \in n)
      OBVIOUS
    <2>2. news' = n
      BY <1>3
    <2>3. mine \subseteq mine' /\ UNCHANGED <<cmp, view, origin>>
      BY <1>3
    <2> HIDE DEF n
    <2> QED BY <1>2, <1>3, <2>1, <2>2, <2>3, WriteKept DEF IInv
  <1>8. TypeOK'
    <2>1. mapping' \in [Pairs -> Statuses \cup {"none"}]
      BY <1>2, <1>3 DEF IInv, TypeOK
    <2>2. news' \subseteq Pairs /\ mine' \subseteq Pairs
      BY <1>2, <1>3 DEF IInv, TypeOK
    <2> QED BY <1>3, <1>4, <2>1, <2>2 DEF IInv, TypeOK, SaveType, scoping, picking
  <1> QED BY <1>3, <1>6, <1>7, <1>8, PickKept DEF IInv

\* A slot that is free again owes nothing.
LEMMA EndOk ==
    ASSUME IInv, NEW k \in 1 .. Saves, EndDecision(k), view' \in Views,
           news' \subseteq Pairs, ResultInv'
    PROVE  IInv'
  <1>1. save \in [1 .. Saves -> SaveType]
    BY DEF IInv, TypeOK, SaveType
  <1>2. /\ save' = [save EXCEPT ![k] = NoSave] /\ pending' = None
        /\ UNCHANGED <<mapping, scoping, cmp, picking, events, mine, origin>>
    BY DEF EndDecision
  <1>3. NoSave \in SaveType /\ NoSave.step = "none"
    BY DEF NoSave, SaveType, Statuses
  <1>4. save' \in [1 .. Saves -> SaveType]
    BY <1>1, <1>2, <1>3
  <1>5. TypeOK'
    BY <1>2, <1>4 DEF IInv, TypeOK, SaveType, scoping, picking
  <1>6. SaveInv'
    BY <1>1, <1>2, <1>3 DEF IInv, SaveInv
  <1> QED BY <1>2, <1>5, <1>6, PickKept DEF IInv

LEMMA PatchTyped ==
    ASSUME NEW v \in Views, NEW p \in Pairs
    PROVE  /\ Patch(v, p) \in Views
           /\ Patch(v, p).shown = v.shown
           /\ Offered(Patch(v, p)) = Offered(v) \ {p}
           /\ Patch(v, p).refOnly = v.refOnly \ {p[1]}
  BY DEF Patch, Views, Offered

LEMMA DoneOk ==
    ASSUME IInv, NEW k \in 1 .. Saves, DecisionDone(k)
    PROVE  IInv'
  <1> DEFINE p == save[k].pair
  <1>1. p \in Pairs /\ p \in mine /\ view \in Views
    BY DEF DecisionDone, IInv, SaveInv, TypeOK
  <1>2. EndDecision(k) /\ UNCHANGED <<mapping, cmp, mine, origin>>
    BY DEF DecisionDone, EndDecision
  <1>3. CASE view.shown
    <2>1. view' = Patch(view, p) /\ news' = news \ {p}
      BY <1>3 DEF DecisionDone
    <2>2. /\ view' \in Views /\ view'.shown
          /\ Offered(view') = Offered(view) \ {p}
          /\ view'.refOnly = view.refOnly \ {p[1]}
      BY <1>1, <1>3, <2>1, PatchTyped
    <2>3. Undecided(view, mapping, news)' /\ Scoped(view)'
      BY <1>2, <2>1, <2>2 DEF IInv, ResultInv, Undecided, Scoped, Offered
    <2>4. VanishedIsStored'
      BY <1>1, <1>2, <1>3, <2>2 DEF IInv, ResultInv, VanishedIsStored, Offered
    <2>5. ReadOk(cmp, mapping, news)' /\ cmp'.step = "none"
      BY <1>2, <1>3 DEF IInv, ResultInv, ReadOk
    <2>6. ResultInv'
      BY <2>3, <2>4, <2>5 DEF ResultInv
    <2>7. news' \subseteq Pairs
      BY <2>1 DEF IInv, TypeOK
    <2> QED BY <1>2, <2>2, <2>6, <2>7, EndOk
  <1>4. CASE ~view.shown
    <2>1. UNCHANGED <<view, news>>
      BY <1>4 DEF DecisionDone
    <2>2. ResultInv'
      BY <1>2, <2>1, ResultKept DEF IInv, history
    <2>3. view' \in Views /\ news' \subseteq Pairs
      BY <1>1, <2>1 DEF IInv, TypeOK
    <2> QED BY <1>2, <2>2, <2>3, EndOk
  <1> QED BY <1>3, <1>4

LEMMA ServeStep ==
    ASSUME IInv, NEW k \in 1 .. Saves, Serve(k)
    PROVE  IInv'
  <1>1. CASE CheckDecision(k)
    BY <1>1, AdvanceOk DEF CheckDecision
  <1>2. CASE StoreDecision(k)
    BY <1>2, StoreOk
  <1>3. CASE DecisionFails(k)
    BY <1>3, AdvanceOk DEF DecisionFails
  <1>4. CASE DecisionDone(k)
    BY <1>4, DoneOk
  <1>5. CASE DecisionError(k)
    <2>1. EndDecision(k) /\ UNCHANGED <<view, news>>
      BY <1>5 DEF DecisionError
    <2>2. ResultInv'
      BY <2>1, ResultKept DEF EndDecision, IInv, history
    <2>3. view' \in Views /\ news' \subseteq Pairs
      BY <2>1 DEF IInv, TypeOK
    <2> QED BY <2>1, <2>2, <2>3, EndOk
  <1> QED BY <1>1, <1>2, <1>3, <1>4, <1>5 DEF Serve

-----------------------------------------------------------------------------
(* The drawer *)

DrawerType == [ref : Refs \cup {None}, cats : SUBSET TargetCats]
PickerType == [text : BOOLEAN, include : BOOLEAN, timer : BOOLEAN,
               listed : SUBSET Targets, chosen : Targets \cup {None},
               searching : BOOLEAN, error : BOOLEAN,
               of : Refs \cup {None}, stray : BOOLEAN]
SearchType == [step : {"none", "sent"}, ref : Refs \cup {None},
               cats : SUBSET TargetCats, include : BOOLEAN, left : BOOLEAN]

LEMMA PickingTyped ==
    ASSUME TypeOK
    PROVE  drawer \in DrawerType /\ picker \in PickerType /\ search \in [1 .. Searches -> SearchType]
  BY DEF TypeOK, DrawerType, PickerType, SearchType

LEMMA Blank == /\ NoDrawer \in DrawerType /\ NoDrawer.ref = None
               /\ NoPicker \in PickerType /\ NoPicker.listed = {}
               /\ NoSearch \in SearchType /\ NoSearch.step = "none"
  BY DEF NoDrawer, DrawerType, NoPicker, PickerType, NoSearch, SearchType

\* A step of the drawer changes its own state alone.
LEMMA PickerKept ==
    ASSUME IInv, PickerStep, events' \in 0 .. MaxEvents, drawer' \in DrawerType,
           picker' \in PickerType, search' \in [1 .. Searches -> SearchType], PickInv'
    PROVE  IInv'
  <1>1. UNCHANGED <<mapping, scoping, cmp, view, deciding, history>>
    BY DEF PickerStep
  <1>2. TypeOK'
    BY <1>1 DEF IInv, TypeOK, scoping, deciding, history, DrawerType, PickerType, SearchType
  <1> QED BY <1>1, <1>2, ResultKept, SaveKept DEF IInv, deciding, history

\* What is listed stays, or the list is emptied, while the same searches are
\* in flight.
LEMMA ListKept ==
    ASSUME PickInv, UNCHANGED <<drawer, search>>,
           \/ picker'.listed = {}
           \/ /\ picker'.listed = picker.listed
              /\ picker'.of = picker.of /\ picker'.stray = picker.stray
    PROVE  PickInv'
  BY DEF PickInv, ListedForProduct, Open

\* The steps that change nothing but the state of the picker.
LEMMA InputStep ==
    ASSUME IInv,
           \/ \E long \in BOOLEAN : SearchInput(long)
           \/ SetIncludeRejected \/ TimerClears
           \/ \E t \in Targets : Choose(t)
    PROVE  IInv'
  <1>1. /\ PickerStep /\ UNCHANGED <<drawer, search>>
        /\ Event \/ events' = events
    BY DEF SearchInput, SetIncludeRejected, TimerClears, Choose
  <1>2. events' \in 0 .. MaxEvents
    BY <1>1, EventTyped DEF IInv, TypeOK
  <1> DEFINE Kept ==
        /\ picker' \in PickerType
        /\ \/ picker'.listed = {}
           \/ /\ picker'.listed = picker.listed
              /\ picker'.of = picker.of /\ picker'.stray = picker.stray
  <1>3. Kept
    <2>0. picker \in PickerType
      BY PickingTyped DEF IInv
    <2>1. ASSUME NEW long \in BOOLEAN, SearchInput(long) PROVE  Kept
      BY <2>0, <2>1 DEF SearchInput, PickerType
    <2>2. CASE SetIncludeRejected
      BY <2>0, <2>2 DEF SetIncludeRejected, PickerType
    <2>3. CASE TimerClears
      BY <2>0, <2>3 DEF TimerClears, PickerType
    <2>4. ASSUME NEW t \in Targets, Choose(t) PROVE  Kept
      BY <2>0, <2>4 DEF Choose, PickerType
    <2> QED BY <2>1, <2>2, <2>3, <2>4
  <1>4. PickInv'
    BY <1>1, <1>3, ListKept DEF IInv
  <1> QED BY <1>1, <1>2, <1>3, <1>4, PickingTyped, PickerKept DEF IInv

LEMMA OpenStep ==
    ASSUME IInv, NEW r \in Refs, OpenDrawer(r)
    PROVE  IInv'
  <1>1. /\ PickerStep /\ drawer' = [ref |-> r, cats |-> form.cats]
        /\ picker' = NoPicker /\ search' = Left
    BY DEF OpenDrawer
  <1>2. events' \in 0 .. MaxEvents
    BY EventTyped DEF OpenDrawer, PageEvent, IInv
  <1>3. drawer' \in DrawerType
    BY <1>1 DEF IInv, TypeOK, DrawerType
  <1>4. /\ search' \in [1 .. Searches -> SearchType]
        /\ \A k \in 1 .. Searches : search'[k].step = "sent" => search'[k].left
    <2>0. search \in [1 .. Searches -> SearchType]
      BY PickingTyped DEF IInv
    <2>1. ASSUME NEW k \in 1 .. Searches
          PROVE  /\ search'[k] \in SearchType
                 /\ search'[k].step = "sent" => search'[k].left
      <3>1. search[k] \in SearchType
        BY <2>0
      <3>2. search'[k] = [search[k] EXCEPT !.left = search[k].left \/ search[k].step # "none"]
        BY <1>1 DEF Left
      <3>3. CASE search[k].step = "none"
        <4>1. search'[k].step = "none" /\ search'[k] \in SearchType
          BY <3>1, <3>2, <3>3 DEF SearchType
        <4> QED BY <4>1
      <3>4. CASE search[k].step # "none"
        <4>1. search'[k] = [search[k] EXCEPT !.left = TRUE]
          BY <3>2, <3>4
        <4> QED BY <3>1, <4>1 DEF SearchType
      <3> QED BY <3>3, <3>4
    <2> QED BY <1>1, <2>1 DEF Left
  <1>5. PickInv'
    BY <1>1, <1>4, Blank DEF PickInv, ListedForProduct
  <1> QED BY <1>1, <1>2, <1>3, <1>4, <1>5, Blank, PickerKept

LEMMA CloseStep ==
    ASSUME IInv, CloseDrawer
    PROVE  IInv'
  <1>1. /\ PickerStep /\ drawer' = NoDrawer /\ UNCHANGED <<picker, search, events>>
    BY DEF CloseDrawer
  <1>2. PickInv'
    BY <1>1, Blank DEF PickInv, ListedForProduct, Open
  <1>3. events' \in 0 .. MaxEvents
    BY <1>1 DEF IInv, TypeOK
  <1> QED BY <1>1, <1>2, <1>3, Blank, PickingTyped, PickerKept DEF IInv

LEMMA TimerStep ==
    ASSUME IInv, TimerSearches
    PROVE  IInv'
  <1>0. drawer \in DrawerType /\ picker \in PickerType /\ search \in [1 .. Searches -> SearchType]
    BY PickingTyped DEF IInv
  <1>1. /\ PickerStep /\ UNCHANGED <<drawer, events>>
        /\ picker' = [picker EXCEPT !.timer = FALSE, !.searching = TRUE, !.error = FALSE]
    BY DEF TimerSearches
  <1>2. PICK k \in 1 .. Searches : search' = [search EXCEPT ![k] =
                 [step |-> "sent", ref |-> drawer.ref, cats |-> drawer.cats,
                  include |-> picker.include, left |-> FALSE]]
    BY DEF TimerSearches
  <1>3. /\ picker' \in PickerType /\ picker'.listed = picker.listed
        /\ picker'.of = picker.of /\ picker'.stray = picker.stray
    BY <1>0, <1>1 DEF PickerType
  <1>4. /\ search' \in [1 .. Searches -> SearchType]
        /\ search'[k].ref = drawer.ref
        /\ \A i \in 1 .. Searches \ {k} : search'[i] = search[i]
    BY <1>0, <1>2 DEF SearchType, DrawerType, PickerType
  <1>5. PickInv'
    BY <1>1, <1>3, <1>4 DEF IInv, PickInv, ListedForProduct, Open
  <1>6. events' \in 0 .. MaxEvents
    BY <1>1 DEF IInv, TypeOK
  <1> QED BY <1>0, <1>1, <1>3, <1>4, <1>5, <1>6, PickerKept

LEMMA SearchStep ==
    ASSUME IInv, NEW k \in 1 .. Searches, Search(k)
    PROVE  IInv'
  <1> DEFINE q == search[k]
  <1>0. /\ drawer \in DrawerType /\ picker \in PickerType
        /\ search \in [1 .. Searches -> SearchType] /\ q \in SearchType
    BY PickingTyped DEF IInv
  <1>1. /\ EndSearch(k) /\ q.step = "sent"
    BY DEF Search, SearchAnswers, SearchFails
  <1>2. /\ PickerStep /\ UNCHANGED <<drawer, events>> /\ search' = [search EXCEPT ![k] = NoSearch]
    BY <1>1 DEF EndSearch
  <1>3. /\ search' \in [1 .. Searches -> SearchType]
        /\ \A i \in 1 .. Searches : search'[i].step = "sent" => search'[i] = search[i]
    BY <1>0, <1>2, Blank
  <1>4. picker' \in PickerType /\ ListedForProduct'
    <2>1. CASE SearchAnswers(k)
      <3>1. PICK found \in SUBSET Eligible(q) :
              picker' = [picker EXCEPT !.listed = found, !.searching = FALSE,
                                       !.of = q.ref, !.stray = q.left]
        BY <2>1 DEF SearchAnswers
      <3>2. /\ found \subseteq Targets
            /\ \A t \in found : TgtCatOf[t] \in q.cats
        BY DEF Eligible
      <3>3. /\ picker' \in PickerType
            /\ picker'.listed = found /\ picker'.of = q.ref /\ picker'.stray = q.left
        BY <1>0, <3>1, <3>2 DEF PickerType, SearchType
      <3>4. q.cats \subseteq MappedTo[RefCatOf[q.ref]]
        BY <2>1 DEF SearchAnswers
      <3>5. Open /\ ~q.left => q.ref = drawer.ref
        BY <1>1 DEF IInv, PickInv
      <3> QED BY <1>2, <3>2, <3>3, <3>4, <3>5 DEF ListedForProduct, Open
    <2>2. CASE SearchFails(k)
      <3>1. picker' = [picker EXCEPT !.listed = {}, !.searching = FALSE, !.error = TRUE]
        BY <2>2 DEF SearchFails
      <3>2. picker' \in PickerType /\ picker'.listed = {}
        BY <1>0, <3>1 DEF PickerType
      <3> QED BY <3>2 DEF ListedForProduct
    <2> QED BY <2>1, <2>2 DEF Search
  <1>5. PickInv'
    BY <1>2, <1>3, <1>4 DEF IInv, PickInv, Open
  <1>6. events' \in 0 .. MaxEvents
    BY <1>2 DEF IInv, TypeOK
  <1> QED BY <1>0, <1>2, <1>3, <1>4, <1>5, <1>6, PickerKept

LEMMA PickStep ==
    ASSUME IInv, Pick
    PROVE  IInv'
  <1> DEFINE p == <<drawer.ref, picker.chosen>>
  <1>0. drawer \in DrawerType /\ picker \in PickerType /\ search \in [1 .. Searches -> SearchType]
    BY PickingTyped DEF IInv
  <1>1. /\ MakeDecision(p, "confirmed") /\ drawer' = NoDrawer
        /\ picker' = [picker EXCEPT !.chosen = None]
        /\ UNCHANGED <<mapping, scoping, cmp, view, search, events, history>>
    BY DEF Pick
  <1>2. p \in Pairs /\ "confirmed" \in Statuses
    BY <1>0 DEF Pick, Open, DrawerType, PickerType, Pairs, Statuses
  <1>3. /\ save' \in [1 .. Saves -> SaveType] /\ pending' \in Pairs
        /\ ResultInv' /\ SaveInv'
    <2> HIDE DEF p
    <2> QED BY <1>1, <1>2, MadeKept
  <1>4. picker' \in PickerType
    BY <1>0, <1>1 DEF PickerType
  <1>5. TypeOK'
    BY <1>0, <1>1, <1>3, <1>4, Blank DEF IInv, TypeOK, SaveType, DrawerType, PickerType,
           SearchType, scoping, history
  <1>6. PickInv'
    BY <1>1, Blank DEF PickInv, ListedForProduct, Open
  <1> QED BY <1>3, <1>5, <1>6 DEF IInv

-----------------------------------------------------------------------------

LEMMA Initial == Init => IInv
  <1> SUFFICES ASSUME Init
               PROVE  IInv
    OBVIOUS
  <1>1. /\ mapping \in [Pairs -> Statuses \cup {"none"}]
        /\ form \in FormType /\ asked = {} /\ events \in 0 .. MaxEvents
        /\ news = {} /\ mine = {} /\ view = NoView /\ origin = NoView
        /\ pending = None /\ drawer = NoDrawer /\ picker = NoPicker
    BY ComparisonAssumption DEF Init, FormType
  <1>2. cmp \in CmpType /\ cmp.step = "none"
    BY NoViewOk DEF Init, NoCompare, CmpType
  <1>3. /\ save \in [1 .. Saves -> SaveType]
        /\ \A k \in 1 .. Saves : save[k].step = "none"
    BY DEF Init, NoSave, SaveType, Statuses
  <1>4. search \in [1 .. Searches -> SearchType]
    BY Blank DEF Init
  <1>5. TypeOK
    BY <1>1, <1>2, <1>3, <1>4, NoViewOk, Blank DEF TypeOK, FormType, CmpType, SaveType,
           DrawerType, PickerType, SearchType
  <1>6. ResultInv
    BY <1>1, <1>2, NoViewOk DEF ResultInv, ReadOk, Undecided, Scoped, VanishedIsStored
  <1>7. SaveInv
    BY <1>3 DEF SaveInv
  <1>8. PickInv
    BY <1>1, Blank DEF PickInv, ListedForProduct, Open
  <1> QED BY <1>5, <1>6, <1>7, <1>8 DEF IInv

LEMMA Inductive == IInv /\ [Next]_vars => IInv'
  <1> SUFFICES ASSUME IInv, [Next]_vars
               PROVE  IInv'
    OBVIOUS
  <1>1. ASSUME NEW p \in Others, DecideElsewhere(p) PROVE IInv'
    BY <1>1, ElsewhereStep
  <1>2. ASSUME \/ \E c \in RefCats : SelectRefCategory(c)
               \/ \E s \in Stores : SetTargetStore(s)
               \/ \E a \in asked : MappedTargets(a)
        PROVE  IInv'
    BY <1>2, ScopeStep
  <1>3. CASE Compare \/ Comparison
    BY <1>3, CompareOk, ComparisonStep
  <1>4. ASSUME NEW p \in Pairs, NEW s \in Statuses, Decide(p, s) PROVE IInv'
    BY <1>4, DecideStep
  <1>5. ASSUME NEW k \in 1 .. Saves, Serve(k) PROVE IInv'
    BY <1>5, ServeStep
  <1>6. ASSUME NEW r \in Refs, OpenDrawer(r) PROVE IInv'
    BY <1>6, OpenStep
  <1>7. CASE CloseDrawer
    BY <1>7, CloseStep
  <1>8. ASSUME \/ \E long \in BOOLEAN : SearchInput(long)
               \/ SetIncludeRejected \/ TimerClears
               \/ \E t \in Targets : Choose(t)
        PROVE  IInv'
    BY <1>8, InputStep
  <1>9. CASE TimerSearches
    BY <1>9, TimerStep
  <1>10. ASSUME NEW k \in 1 .. Searches, Search(k) PROVE IInv'
    BY <1>10, SearchStep
  <1>11. CASE Pick
    BY <1>11, PickStep
  <1>12. CASE UNCHANGED vars
    <2>1. UNCHANGED <<mapping, form, asked, cmp, view, save, pending, drawer, picker, search,
                      events, news, mine, origin>>
      BY <1>12 DEF vars, scoping, deciding, picking, history
    <2>2. TypeOK'
      BY <2>1 DEF IInv, TypeOK
    <2> QED BY <2>1, <2>2, ResultKept, SaveKept, PickKept DEF IInv, history, picking
  <1> QED BY <1>1, <1>2, <1>3, <1>4, <1>5, <1>6, <1>7, <1>8, <1>9, <1>10, <1>11, <1>12
          DEF Next

-----------------------------------------------------------------------------
(* Theorems *)

\* Every variable keeps its type.
THEOREM TypeCorrect == Spec => []TypeOK
  <1>1. IInv => TypeOK
    BY DEF IInv
  <1> QED BY <1>1, Initial, Inductive, PTL DEF Spec

\* A pair that the page offers is undecided, but for the decisions stored since
\* the comparison was sent that the page has not been told of: no interleaving
\* of comparisons, decisions, patches and the writes of others brings back what
\* the page has seen decided (useComparisonPage makeDecision, runComparison).
THEOREM OffersUndecided == Spec => []OfferedUndecided
  <1>1. IInv => OfferedUndecided
    BY DEF IInv, ResultInv, Undecided, OfferedUndecided
  <1> QED BY <1>1, Initial, Inductive, PTL DEF Spec

\* Late answers to loadMappedTargets never bring pairs outside the mapping of
\* the product's category to the page: the server checks the scope once more
\* (validate_target_scope).
THEOREM OffersInScope == Spec => []OfferedInScope
  <1>1. IInv => OfferedInScope
    BY DEF IInv, ResultInv, Scoped, OfferedInScope
  <1> QED BY <1>1, Initial, Inductive, PTL DEF Spec

\* Nothing vanishes from a result without a stored decision of this page, of
\* any number in flight (applyDecisionPatch after the answer only).
THEOREM VanishesStored == Spec => []VanishedIsStored
  <1>1. IInv => VanishedIsStored
    BY DEF IInv, ResultInv
  <1> QED BY <1>1, Initial, Inductive, PTL DEF Spec

\* The list of the drawer belongs to its product, unless a search from before
\* it was opened has answered last (useManualPicker reset, doSearch).
THEOREM ListsForProduct == Spec => []ListedForProduct
  <1>1. IInv => ListedForProduct
    BY DEF IInv, PickInv
  <1> QED BY <1>1, Initial, Inductive, PTL DEF Spec
=============================================================================
