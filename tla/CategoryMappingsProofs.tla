------------------------ MODULE CategoryMappingsProofs ------------------------
(***************************************************************************)
(* Theorems about CategoryMappings for any stores, names, catalogues and   *)
(* number of threads.                                                      *)
(***************************************************************************)
EXTENDS CategoryMappings, FiniteSetTheorems, TLAPS, WellFoundedInduction

-----------------------------------------------------------------------------
(* The inductive invariant *)

\* p is a pair that the auto-link l may map, given the categories of the table.
Mine(l, p, cats) ==
    /\ p \in Pair /\ p[1] \in cats /\ p[2] \in cats
    /\ p[1][1] = l.ref /\ p[2][1] = l.tgt
    /\ SameName(p[1], p[2])

\* The pair of the two categories that l is about to look at again or to write.
Pending(l) == l.step \in {"reread", "write"}

\* What l knows of the tables: the lists it has read hold every category that was
\* there when it began, and whatever it has written was not mapped at that time.
ListsOk(l, cats) ==
    /\ l.old \subseteq cats
    /\ \A c \in l.refs : c \in cats /\ c[1] = l.ref
    /\ l.step # "references" => \A c \in l.old : c[1] = l.ref => c \in l.refs
    /\ l.step \in {"references", "targets"} => l.todo = {} /\ l.written = {}
    /\ \A p \in l.todo \cup l.written : Mine(l, p, cats)
    /\ Pending(l) => Mine(l, l.at, cats)

FreshOk(l, map) ==
    /\ \A p \in l.written : map[p] = Absent \/ p \in l.news
    /\ Pending(l) => map[l.at] = Absent \/ l.at \in l.news
    /\ l.step = "write" => l.found = Absent \/ l.at \in l.news

DoneOk(l, map) ==
    l.step \in {"read", "reread", "write"} =>
        \A p \in Pair :
            /\ p[1] \in l.old /\ p[1][1] = l.ref
            /\ p[2] \in l.old /\ p[2][1] = l.tgt
            /\ SameName(p[1], p[2])
            => \/ p \in l.todo \/ p \in l.written \/ p \in l.news
               \/ map[p] # Absent
               \/ Pending(l) /\ p = l.at

LinkOk(l, cats, map) == ListsOk(l, cats) /\ FreshOk(l, map) /\ DoneOk(l, map)

LinksOk == \A w \in Threads : link[w] # Idle => LinkOk(link[w], categories, mapping)

EditsOk == \A w \in Threads : edit[w] # Idle => Legal(edit[w].pair)

IInv == TypeOK /\ MappingsLegal /\ LinksOk /\ EditsOk

-----------------------------------------------------------------------------
(* Kinds of steps *)

LEMMA Kinds ==
    ASSUME TypeOK, NEW w \in Threads
    PROVE  /\ sync[w] # Idle => sync[w] \in Syncing
           /\ link[w] # Idle => link[w] \in Linking
           /\ edit[w] # Idle => edit[w] \in Editing
           /\ \A p \in Pair : mapping[p] \in Types \cup {Absent}
  BY DEF TypeOK

LEMMA MineLegal ==
    ASSUME NEW l \in Linking, NEW p, Mine(l, p, categories)
    PROVE  Legal(p)
  BY DEF Mine, Legal, Linking

\* m is the auto-link l, which may have learnt of other requests.
Follows(l, m) ==
    /\ m.ref = l.ref /\ m.tgt = l.tgt /\ m.step = l.step
    /\ m.refs = l.refs /\ m.todo = l.todo /\ m.at = l.at
    /\ m.found = l.found /\ m.written = l.written /\ m.old = l.old
    /\ l.news \subseteq m.news

\* Categories stay, and an auto-link learns of each mapping that others change.
LEMMA FollowsOk ==
    ASSUME NEW l \in Linking, NEW m \in Linking,
           NEW cats, NEW cats2, NEW map, NEW map2,
           LinkOk(l, cats, map), cats \subseteq cats2, Follows(l, m),
           \A p \in Pair : map2[p] # map[p] => p \in m.news
    PROVE  LinkOk(m, cats2, map2)
  <1>1. \A p : Mine(l, p, cats) => Mine(m, p, cats2)
    BY DEF Mine, Follows
  <1>2. Pending(m) <=> Pending(l)
    BY DEF Pending, Follows
  <1>3. ListsOk(m, cats2)
    BY <1>1, <1>2 DEF LinkOk, ListsOk, Follows
  <1>4. FreshOk(m, map2)
    <2>1. \A p \in l.written : p \in Pair
      BY DEF Linking
    <2>2. Pending(l) => l.at \in Pair
      BY DEF LinkOk, ListsOk, Mine
    <2> QED BY <2>1, <2>2, <1>2 DEF LinkOk, FreshOk, Follows
  <1>5. DoneOk(m, map2)
    BY <1>2 DEF LinkOk, DoneOk, Follows
  <1> QED BY <1>3, <1>4, <1>5 DEF LinkOk

LEMMA OtherLink ==
    ASSUME TypeOK, TypeOK', LinksOk, categories \subseteq categories',
           NEW t \in Threads, link'[t] # Idle,
           link[t] # Idle, Follows(link[t], link'[t]),
           \A p \in Pair : mapping'[p] # mapping[p] => p \in link'[t].news
    PROVE  LinkOk(link'[t], categories', mapping')
  <1>1. link[t] \in Linking /\ link'[t] \in Linking
    BY DEF TypeOK
  <1>2. LinkOk(link[t], categories, mapping)
    BY DEF LinksOk
  <1> QED BY <1>1, <1>2, FollowsOk

-----------------------------------------------------------------------------
(* Types *)

LEMMA SyncType ==
    ASSUME TypeOK, NEW w \in Threads, categories' \subseteq Category,
           sync' \in [Threads -> Syncing \cup {Idle}],
           \A t \in Threads \ {w} : sync'[t] = sync[t],
           sync[w] # Idle \/ Free(w), UNCHANGED <<mapping, link, edit>>
    PROVE  TypeOK'
  BY DEF TypeOK, Free

LEMMA LinkType ==
    ASSUME TypeOK, NEW w \in Threads, mapping' \in [Pair -> Types \cup {Absent}],
           link' \in [Threads -> Linking \cup {Idle}],
           \A t \in Threads \ {w} : link[t] = Idle => link'[t] = Idle,
           link[w] # Idle \/ Free(w), UNCHANGED <<categories, sync, edit>>
    PROVE  TypeOK'
  BY DEF TypeOK, Free

LEMMA EditType ==
    ASSUME TypeOK, NEW w \in Threads, mapping' \in [Pair -> Types \cup {Absent}],
           link' \in [Threads -> Linking \cup {Idle}],
           \A t \in Threads : link[t] = Idle => link'[t] = Idle,
           edit' \in [Threads -> Editing \cup {Idle}],
           \A t \in Threads \ {w} : edit[t] = Idle => edit'[t] = Idle,
           edit[w] # Idle \/ Free(w), UNCHANGED <<categories, sync>>
    PROVE  TypeOK'
  BY DEF TypeOK, Free

\* Steps of a synchronisation.
Syncs(w) ==
    \/ \E s \in Stores, job \in BOOLEAN : SyncStart(w, s, job)
    \/ \E c \in Category : CategoryLookup(w, c)
    \/ CategoryWrite(w) \/ SyncFinish(w) \/ SyncFail(w) \/ CategoryWriteFails(w)

\* They only add categories.
LEMMA SyncStep ==
    ASSUME TypeOK, NEW w \in Threads, Syncs(w)
    PROVE  /\ TypeOK' /\ categories \subseteq categories'
           /\ UNCHANGED <<mapping, link, edit>>
  <1> USE Kinds
  <1>1. CASE \E s \in Stores, job \in BOOLEAN : SyncStart(w, s, job)
    <2>1. PICK s \in Stores, job \in BOOLEAN : SyncStart(w, s, job)
      BY <1>1
    <2>2. sync' \in [Threads -> Syncing \cup {Idle}]
      BY <2>1 DEF SyncStart, TypeOK, Syncing
    <2>3. /\ categories' = categories /\ Free(w)
          /\ \A t \in Threads \ {w} : sync'[t] = sync[t]
      BY <2>1 DEF SyncStart, TypeOK
    <2> QED BY <2>1, <2>2, <2>3, SyncType DEF SyncStart, TypeOK
  <1>2. CASE \E c \in Category : CategoryLookup(w, c)
    <2>1. PICK c \in Category : CategoryLookup(w, c)
      BY <1>2
    <2>2. sync[w] \in Syncing
      BY <2>1 DEF CategoryLookup, Between
    <2>4. [sync[w] EXCEPT !.at = c, !.new = c \notin categories] \in Syncing
      BY <2>2, Zenon DEF Syncing
    <2>5. sync' \in [Threads -> Syncing \cup {Idle}]
      BY <2>1, <2>4 DEF CategoryLookup, TypeOK
    <2>3. /\ categories' = categories /\ sync[w] # Idle
          /\ \A t \in Threads \ {w} : sync'[t] = sync[t]
      BY <2>1 DEF CategoryLookup, Between, TypeOK
    <2> QED BY <2>1, <2>5, <2>3, SyncType DEF CategoryLookup, TypeOK
  <1>3. CASE CategoryWrite(w)
    <2>1. sync[w] \in Syncing /\ sync[w].at \in Category
      BY <1>3 DEF CategoryWrite, AtCategory, Syncing
    <2>2. sync' \in [Threads -> Syncing \cup {Idle}]
      BY <1>3, <2>1 DEF CategoryWrite, TypeOK, Syncing
    <2>3. /\ categories' = categories /\ sync[w] # Idle
          /\ \A t \in Threads \ {w} : sync'[t] = sync[t]
      BY <1>3 DEF CategoryWrite, AtCategory, TypeOK
    <2> QED BY <1>3, <2>2, <2>3, SyncType DEF CategoryWrite, TypeOK
  <1>4. ASSUME SyncCommit(w) \/ SyncRollback(w), sync[w] # Idle
        PROVE  /\ TypeOK' /\ categories \subseteq categories'
               /\ UNCHANGED <<mapping, link, edit>>
    <2>1. sync[w].written \subseteq Category
      BY <1>4 DEF Syncing
    <2>2. /\ categories' \subseteq Category
          /\ categories \subseteq categories'
          /\ UNCHANGED <<mapping, link, edit>>
      BY <1>4, <2>1 DEF SyncCommit, SyncRollback, SyncEnd, TypeOK
    <2>3. /\ sync' \in [Threads -> Syncing \cup {Idle}]
          /\ \A t \in Threads \ {w} : sync'[t] = sync[t]
      BY <1>4 DEF SyncCommit, SyncRollback, SyncEnd, TypeOK
    <2> QED BY <1>4, <2>2, <2>3, SyncType
  <1>5. CASE SyncFinish(w) \/ SyncFail(w)
    BY <1>4, <1>5 DEF SyncFinish, SyncFail, Between
  <1>6. CASE CategoryWriteFails(w)
    BY <1>4, <1>6 DEF CategoryWriteFails, AtCategory
  <1> QED BY <1>1, <1>2, <1>3, <1>5, <1>6 DEF Syncs

-----------------------------------------------------------------------------
(* Steps of auto-link *)

\* A step of an auto-link, before its commit, concerns the auto-link only.
LEMMA LinkOnly ==
    ASSUME IInv, NEW w \in Threads, UNCHANGED <<categories, mapping, sync, edit>>,
           link[w] # Idle \/ Free(w), NEW m \in Linking,
           LinkOk(m, categories, mapping), link' = [link EXCEPT ![w] = m]
    PROVE  IInv'
  <1>1. /\ \A t \in Threads \ {w} : link'[t] = link[t]
        /\ link'[w] = m
        /\ link' \in [Threads -> Linking \cup {Idle}]
    BY DEF IInv, TypeOK
  <1>2. TypeOK'
    BY <1>1, LinkType DEF IInv, TypeOK
  <1>3. LinksOk'
    BY <1>1 DEF IInv, LinksOk
  <1> QED BY <1>2, <1>3 DEF IInv, MappingsLegal, EditsOk, Legal

LEMMA LinkGone ==
    ASSUME IInv, NEW w \in Threads, LinkRollback(w), link[w] # Idle
    PROVE  IInv'
  <1>1. /\ \A t \in Threads \ {w} : link'[t] = link[t]
        /\ link'[w] = Idle
        /\ link' \in [Threads -> Linking \cup {Idle}]
    BY DEF IInv, TypeOK, LinkRollback
  <1>2. TypeOK'
    BY <1>1, LinkType DEF IInv, TypeOK, LinkRollback
  <1>3. LinksOk'
    BY <1>1 DEF IInv, LinksOk, LinkRollback
  <1> QED BY <1>2, <1>3 DEF IInv, MappingsLegal, EditsOk, Legal, LinkRollback

LEMMA LinkStartOk ==
    ASSUME IInv, NEW w \in Threads, NEW r \in Reference, NEW t \in Stores \ Reference,
           LinkStart(w, r, t)
    PROVE  IInv'
  <1> DEFINE m == [ref |-> r, tgt |-> t, step |-> "references",
            refs |-> {}, todo |-> {}, at |-> NoPair, found |-> Absent,
            gone |-> FALSE, written |-> {}, old |-> categories, news |-> {}]
  <1>1. m \in Linking
    BY DEF Linking, IInv, TypeOK
  <1>2. LinkOk(m, categories, mapping)
    BY DEF LinkOk, ListsOk, FreshOk, DoneOk, Pending
  <1>3. link' = [link EXCEPT ![w] = m]
    BY DEF LinkStart
  <1> HIDE DEF m
  <1> QED BY <1>1, <1>2, <1>3, LinkOnly DEF LinkStart

\* What is known of the auto-link of w at a step.
LEMMA LinkAt ==
    ASSUME IInv, NEW w \in Threads, NEW step, Linked(w, step)
    PROVE  /\ link[w] # Idle /\ link[w] \in Linking /\ link[w].step = step
           /\ LinkOk(link[w], categories, mapping)
           /\ \A p \in Pair : mapping[p] \in Types \cup {Absent}
  BY Kinds DEF IInv, Linked, LinksOk

LEMMA LinkReferencesOk ==
    ASSUME IInv, NEW w \in Threads, LinkReferences(w)
    PROVE  IInv'
  <1> DEFINE l == link[w]
             m == [l EXCEPT !.step = "targets", !.refs = OfStore(l.ref)]
  <1>1. l # Idle /\ l \in Linking /\ l.step = "references" /\ LinkOk(l, categories, mapping)
    BY LinkAt DEF LinkReferences
  <1>2. OfStore(l.ref) \subseteq Category
    BY DEF OfStore, IInv, TypeOK
  <1>3. m \in Linking
    BY <1>1, <1>2 DEF Linking
  <1>4. /\ m.ref = l.ref /\ m.tgt = l.tgt /\ m.old = l.old /\ m.step = "targets"
        /\ m.refs = OfStore(l.ref) /\ m.todo = l.todo /\ m.written = l.written
    BY <1>1 DEF Linking
  <1>5. link' = [link EXCEPT ![w] = m]
    BY DEF LinkReferences, IInv, TypeOK
  <1> HIDE DEF l, m
  <1>6. LinkOk(m, categories, mapping)
    BY <1>1, <1>4 DEF LinkOk, ListsOk, FreshOk, DoneOk, Pending, OfStore
  <1> QED BY <1>1, <1>3, <1>5, <1>6, LinkOnly DEF LinkReferences, l

LEMMA LinkTargetsOk ==
    ASSUME IInv, NEW w \in Threads, LinkTargets(w)
    PROVE  IInv'
  <1> DEFINE l == link[w]
             S == {p \in l.refs \X OfStore(l.tgt) : SameName(p[1], p[2])}
             m == [l EXCEPT !.step = "read", !.todo = S]
  <1>1. l # Idle /\ l \in Linking /\ l.step = "targets" /\ LinkOk(l, categories, mapping)
    BY LinkAt DEF LinkTargets
  <1>2. \A p \in S : Mine(l, p, categories)
    BY <1>1 DEF OfStore, IInv, TypeOK, Mine, LinkOk, ListsOk, Pair
  <1>3. \A p \in Pair : /\ p[1] \in l.old /\ p[1][1] = l.ref
                        /\ p[2] \in l.old /\ p[2][1] = l.tgt
                        /\ SameName(p[1], p[2])
                        => p \in S
    BY <1>1 DEF OfStore, LinkOk, ListsOk, Pair
  <1>4. S \subseteq Pair
    BY <1>2 DEF Mine
  <1>5. link' = [link EXCEPT ![w] = m]
    BY DEF LinkTargets, IInv, TypeOK
  <1> HIDE DEF S
  <1>6. m \in Linking
    BY <1>1, <1>4 DEF Linking
  <1>7. /\ m.ref = l.ref /\ m.tgt = l.tgt /\ m.old = l.old /\ m.step = "read"
        /\ m.refs = l.refs /\ m.todo = S /\ m.written = l.written /\ m.news = l.news
    BY <1>1 DEF Linking
  <1> HIDE DEF l, m
  <1>8. ListsOk(m, categories)
    BY <1>1, <1>2, <1>7 DEF LinkOk, ListsOk, Pending, Mine
  <1>9. LinkOk(m, categories, mapping)
    BY <1>1, <1>3, <1>7, <1>8 DEF LinkOk, ListsOk, FreshOk, DoneOk, Pending
  <1> QED BY <1>1, <1>5, <1>6, <1>9, LinkOnly DEF LinkTargets, l

LEMMA LinkReadOk ==
    ASSUME IInv, NEW w \in Threads, NEW p \in Pair, LinkRead(w, p)
    PROVE  IInv'
  <1> DEFINE l == link[w]
             n == [l EXCEPT !.todo = @ \ {p}]
             m == [l EXCEPT !.todo = @ \ {p}, !.at = p, !.step = "reread"]
  <1>1. l # Idle /\ l \in Linking /\ l.step = "read" /\ LinkOk(l, categories, mapping)
    BY LinkAt DEF LinkRead
  <1>2. p \in l.todo
    BY DEF LinkRead, IsFirst
  <1>3. Mine(l, p, categories)
    BY <1>1, <1>2 DEF LinkOk, ListsOk
  <1>4. CASE mapping[p] # Absent
    <2>1. link' = [link EXCEPT ![w] = n]
      BY <1>4 DEF LinkRead, IInv, TypeOK
    <2>2. n \in Linking
      BY <1>1 DEF Linking
    <2>3. /\ n.ref = l.ref /\ n.tgt = l.tgt /\ n.old = l.old /\ n.step = "read"
          /\ n.refs = l.refs /\ n.todo = l.todo \ {p} /\ n.written = l.written
          /\ n.news = l.news
      BY <1>1 DEF Linking
    <2> HIDE DEF l, n
    <2>4. ListsOk(n, categories) /\ FreshOk(n, mapping)
      BY <1>1, <2>3 DEF LinkOk, ListsOk, FreshOk, Pending, Mine
    <2>5. DoneOk(n, mapping)
      BY <1>1, <1>4, <2>3 DEF LinkOk, DoneOk, Pending
    <2> QED BY <1>1, <2>1, <2>2, <2>4, <2>5, LinkOnly DEF LinkRead, LinkOk, l
  <1>5. CASE mapping[p] = Absent
    <2>1. link' = [link EXCEPT ![w] = m]
      BY <1>5 DEF LinkRead, IInv, TypeOK
    <2>2. m \in Linking
      BY <1>1 DEF Linking
    <2>3. /\ m.ref = l.ref /\ m.tgt = l.tgt /\ m.old = l.old /\ m.step = "reread"
          /\ m.refs = l.refs /\ m.todo = l.todo \ {p} /\ m.written = l.written
          /\ m.news = l.news /\ m.at = p
      BY <1>1 DEF Linking
    <2> HIDE DEF l, m
    <2>4. ListsOk(m, categories)
      BY <1>1, <1>3, <2>3 DEF LinkOk, ListsOk, Pending, Mine
    <2>5. FreshOk(m, mapping)
      BY <1>1, <1>5, <2>3 DEF LinkOk, FreshOk
    <2>6. DoneOk(m, mapping)
      BY <1>1, <2>3 DEF LinkOk, DoneOk, Pending
    <2> QED BY <1>1, <2>1, <2>2, <2>4, <2>5, <2>6, LinkOnly DEF LinkRead, LinkOk, l
  <1> QED BY <1>4, <1>5

LEMMA LinkRereadOk ==
    ASSUME IInv, NEW w \in Threads, LinkReread(w)
    PROVE  IInv'
  <1> DEFINE l == link[w]
             m == [l EXCEPT !.step = "write", !.gone = FALSE, !.found = mapping[l.at]]
  <1>1. l # Idle /\ l \in Linking /\ l.step = "reread" /\ LinkOk(l, categories, mapping)
    BY LinkAt DEF LinkReread
  <1>2. Mine(l, l.at, categories) /\ l.at \in Pair
    BY <1>1 DEF LinkOk, ListsOk, Pending, Mine
  <1>3. mapping[l.at] \in Types \cup {Absent}
    BY <1>2 DEF IInv, TypeOK
  <1>4. link' = [link EXCEPT ![w] = m]
    BY DEF LinkReread, IInv, TypeOK
  <1>5. m \in Linking
    BY <1>1, <1>3 DEF Linking
  <1>6. /\ m.ref = l.ref /\ m.tgt = l.tgt /\ m.old = l.old /\ m.step = "write"
        /\ m.refs = l.refs /\ m.todo = l.todo /\ m.written = l.written
        /\ m.news = l.news /\ m.at = l.at /\ m.found = mapping[l.at]
    BY <1>1 DEF Linking
  <1> HIDE DEF l, m
  <1>7. ListsOk(m, categories)
    BY <1>1, <1>2, <1>6 DEF LinkOk, ListsOk, Pending, Mine
  <1>8. FreshOk(m, mapping)
    BY <1>1, <1>6 DEF LinkOk, FreshOk, Pending
  <1>9. DoneOk(m, mapping)
    BY <1>1, <1>6 DEF LinkOk, DoneOk, Pending
  <1> QED BY <1>1, <1>4, <1>5, <1>7, <1>8, <1>9, LinkOnly DEF LinkReread, LinkOk, l

LEMMA LinkWriteOk ==
    ASSUME IInv, NEW w \in Threads, LinkWrite(w)
    PROVE  IInv'
  <1> DEFINE l == link[w]
             W == IF l.found = "exact" THEN l.written ELSE l.written \cup {l.at}
             m == [l EXCEPT !.step = "read", !.at = NoPair, !.written = W]
  <1>1. l # Idle /\ l \in Linking /\ l.step = "write" /\ LinkOk(l, categories, mapping)
    BY LinkAt DEF LinkWrite
  <1>2. Mine(l, l.at, categories) /\ l.at \in Pair
    BY <1>1 DEF LinkOk, ListsOk, Pending, Mine
  <1>3. W \subseteq Pair /\ l.written \subseteq W /\ W \subseteq l.written \cup {l.at}
    BY <1>1, <1>2 DEF Linking
  <1>4. l.at \in W \/ l.at \in l.news
    BY <1>1 DEF LinkOk, FreshOk, Absent
  <1>5. link' = [link EXCEPT ![w] = m]
    BY DEF LinkWrite, IInv, TypeOK
  <1> HIDE DEF W
  <1>6. m \in Linking
    BY <1>1, <1>3 DEF Linking
  <1>7. /\ m.ref = l.ref /\ m.tgt = l.tgt /\ m.old = l.old /\ m.step = "read"
        /\ m.refs = l.refs /\ m.todo = l.todo /\ m.written = W /\ m.news = l.news
    BY <1>1 DEF Linking
  <1> HIDE DEF l, m
  <1>8. ListsOk(m, categories)
    BY <1>1, <1>2, <1>3, <1>7 DEF LinkOk, ListsOk, Pending, Mine
  <1>9. FreshOk(m, mapping)
    BY <1>1, <1>3, <1>7 DEF LinkOk, FreshOk, Pending
  <1>10. DoneOk(m, mapping)
    BY <1>1, <1>3, <1>4, <1>7 DEF LinkOk, DoneOk, Pending
  <1> QED BY <1>1, <1>5, <1>6, <1>8, <1>9, <1>10, LinkOnly DEF LinkWrite, LinkOk, l

\* What a commit of an auto-link writes.
LEMMA LinkCommitWrites ==
    ASSUME IInv, NEW w \in Threads, LinkCommit(w)
    PROVE  /\ link[w] # Idle /\ link[w] \in Linking /\ link[w].todo = {}
           /\ link[w].step = "read" /\ LinkOk(link[w], categories, mapping)
           /\ \A p \in Pair : mapping'[p] = IF p \in link[w].written THEN "exact"
                                                                    ELSE mapping[p]
           /\ \A p \in link[w].written : p \in Pair /\ Mine(link[w], p, categories)
           /\ mapping' \in [Pair -> Types \cup {Absent}]
  <1>1. /\ link[w] # Idle /\ link[w] \in Linking /\ link[w].todo = {}
        /\ link[w].step = "read" /\ LinkOk(link[w], categories, mapping)
    BY LinkAt DEF LinkCommit
  <1>2. mapping' = [p \in Pair |-> IF p \in link[w].written THEN "exact" ELSE mapping[p]]
    BY DEF LinkCommit
  <1>3. \A p \in link[w].written : p \in Pair /\ Mine(link[w], p, categories)
    BY <1>1 DEF LinkOk, ListsOk, Mine
  <1>4. mapping' \in [Pair -> Types \cup {Absent}]
    BY <1>2 DEF IInv, TypeOK, Types
  <1> QED BY <1>1, <1>2, <1>3, <1>4

LEMMA LinkCommitOk ==
    ASSUME IInv, NEW w \in Threads, LinkCommit(w)
    PROVE  IInv'
  <1> DEFINE told(t) == [link[t] EXCEPT !.news = @ \cup link[w].written]
  <1>1. link[w].written \subseteq Pair
    BY LinkCommitWrites
  <1>2. ASSUME NEW t \in Threads \ {w}, link[t] # Idle
        PROVE  /\ link'[t] = told(t) /\ told(t) \in Linking
               /\ Follows(link[t], told(t))
               /\ told(t).news = link[t].news \cup link[w].written
    <2>1. link[t] \in Linking
      BY <1>2 DEF IInv, TypeOK
    <2>2. link'[t] = told(t)
      BY <1>2 DEF LinkCommit
    <2> QED BY <2>1, <2>2, <1>1 DEF Linking, Follows
  <1> HIDE DEF told
  <1>3. link'[w] = Idle /\ \A t \in Threads : link[t] = Idle => link'[t] = Idle
    BY DEF LinkCommit
  <1>4. link' \in [Threads -> Linking \cup {Idle}]
    <2>1. DOMAIN link' = Threads /\ link' = [t \in Threads |-> link'[t]]
      BY DEF LinkCommit
    <2>2. \A t \in Threads : link'[t] \in Linking \cup {Idle}
      BY <1>2, <1>3
    <2> QED BY <2>1, <2>2
  <1>5. TypeOK'
    BY <1>3, <1>4, LinkCommitWrites, LinkType DEF LinkCommit, IInv
  <1>6. LinksOk'
    <2>1. SUFFICES ASSUME NEW t \in Threads, link'[t] # Idle
                   PROVE  LinkOk(link'[t], categories', mapping')
      BY DEF LinksOk
    <2>2. t # w /\ link[t] # Idle
      BY <2>1, <1>3
    <2>3. Follows(link[t], link'[t]) /\ link[w].written \subseteq link'[t].news
      BY <1>2, <2>2
    <2>4. \A p \in Pair : mapping'[p] # mapping[p] => p \in link'[t].news
      BY <2>3, LinkCommitWrites
    <2> QED BY <2>1, <2>2, <2>3, <2>4, <1>5, OtherLink DEF IInv, LinkCommit
  <1>7. MappingsLegal'
    <2>1. \A p \in Pair : mapping'[p] # Absent => Legal(p)
      BY LinkCommitWrites, MineLegal DEF IInv, MappingsLegal, Legal
    <2> QED BY <2>1 DEF MappingsLegal, Legal, LinkCommit
  <1> QED BY <1>5, <1>6, <1>7 DEF IInv, EditsOk, Legal, LinkCommit

-----------------------------------------------------------------------------
(* Steps of operators and crashes *)

\* A request of an operator ends or goes on, with one mapping changed or none, of
\* which each auto-link in progress is told.
LEMMA EditStep ==
    ASSUME IInv, NEW w \in Threads, UNCHANGED <<categories, sync>>,
           mapping' \in [Pair -> Types \cup {Absent}],
           \A p \in Pair : mapping'[p] # Absent => Legal(p),
           edit' \in [Threads -> Editing \cup {Idle}],
           \A t \in Threads \ {w} : edit[t] = Idle => edit'[t] = Idle,
           \A t \in Threads : edit'[t] # Idle => Legal(edit'[t].pair),
           edit[w] # Idle \/ Free(w),
           link' \in [Threads -> Linking \cup {Idle}],
           \A t \in Threads : link[t] = Idle => link'[t] = Idle,
           \A t \in Threads : link[t] # Idle =>
               /\ Follows(link[t], link'[t])
               /\ \A p \in Pair : mapping'[p] # mapping[p] => p \in link'[t].news
    PROVE  IInv'
  <1>1. TypeOK'
    BY EditType DEF IInv
  <1>2. LinksOk'
    BY <1>1, OtherLink DEF IInv, LinksOk
  <1>3. \A p : Legal(p) => Legal(p)'
    BY DEF Legal
  <1> QED BY <1>1, <1>2, <1>3 DEF IInv, MappingsLegal, EditsOk, Legal

LEMMA SameLinks ==
    ASSUME IInv, UNCHANGED <<mapping, link>>
    PROVE  /\ mapping' \in [Pair -> Types \cup {Absent}]
           /\ link' \in [Threads -> Linking \cup {Idle}]
           /\ \A t \in Threads : link[t] = Idle => link'[t] = Idle
           /\ \A t \in Threads : link[t] # Idle =>
                  /\ Follows(link[t], link'[t])
                  /\ \A p \in Pair : mapping'[p] # mapping[p] => p \in link'[t].news
           /\ \A p \in Pair : mapping'[p] # Absent => Legal(p)
  BY DEF IInv, TypeOK, Follows, MappingsLegal, Legal

LEMMA EditStartOk ==
    ASSUME IInv, NEW w \in Threads, NEW op \in {"create", "update"},
           NEW p \in Pair, NEW t \in Types, Legal(p), EditStart(w, op, p, t)
    PROVE  IInv'
  <1> DEFINE e == [op |-> op, pair |-> p, type |-> t,
                   found |-> mapping[p], gone |-> FALSE]
  <1>1. e \in Editing /\ e.pair = p
    BY DEF Editing, IInv, TypeOK
  <1>2. edit' = [edit EXCEPT ![w] = e]
    BY DEF EditStart
  <1> HIDE DEF e
  <1>3. /\ edit' \in [Threads -> Editing \cup {Idle}]
        /\ edit'[w] = e /\ \A u \in Threads \ {w} : edit'[u] = edit[u]
    BY <1>1, <1>2 DEF IInv, TypeOK
  <1>4. \A u \in Threads : edit'[u] # Idle => Legal(edit'[u].pair)
    BY <1>1, <1>3 DEF IInv, EditsOk
  <1> QED BY <1>3, <1>4, SameLinks, EditStep DEF EditStart

LEMMA EditEndOk ==
    ASSUME IInv, NEW w \in Threads, EditEnd(w), edit[w] # Idle
    PROVE  IInv'
  <1>1. /\ edit' \in [Threads -> Editing \cup {Idle}]
        /\ edit'[w] = Idle /\ \A u \in Threads \ {w} : edit'[u] = edit[u]
    BY DEF EditEnd, IInv, TypeOK
  <1>2. \A u \in Threads : edit'[u] # Idle => Legal(edit'[u].pair)
    BY <1>1 DEF IInv, EditsOk
  <1> QED BY <1>1, <1>2, SameLinks, EditStep DEF EditEnd

LEMMA EditPublishOk ==
    ASSUME IInv, NEW w \in Threads, NEW p \in Pair, NEW type \in Types \cup {Absent},
           EditPublish(w, p, type), edit[w] # Idle, Legal(p)
    PROVE  IInv'
  <1>1. /\ mapping' \in [Pair -> Types \cup {Absent}]
        /\ \A q \in Pair : q # p => mapping'[q] = mapping[q]
    BY DEF EditPublish, IInv, TypeOK
  <1>2. \A q \in Pair : mapping'[q] # Absent => Legal(q)
    BY <1>1 DEF IInv, MappingsLegal, Legal
  <1>3. /\ edit' \in [Threads -> Editing \cup {Idle}]
        /\ edit'[w] = Idle /\ \A u \in Threads \ {w} : edit'[u] = edit[u]
    BY DEF EditPublish, IInv, TypeOK
  <1>4. \A u \in Threads : edit'[u] # Idle => Legal(edit'[u].pair)
    BY <1>3 DEF IInv, EditsOk
  <1> DEFINE told(t) == [link[t] EXCEPT !.news = @ \cup {p}]
  <1>5. ASSUME NEW t \in Threads, link[t] # Idle
        PROVE  /\ link'[t] = told(t) /\ told(t) \in Linking
               /\ Follows(link[t], told(t)) /\ p \in told(t).news
    <2>1. link[t] \in Linking
      BY <1>5 DEF IInv, TypeOK
    <2>2. link'[t] = told(t)
      BY <1>5 DEF EditPublish
    <2> QED BY <2>1, <2>2 DEF Linking, Follows
  <1> HIDE DEF told
  <1>6. \A t \in Threads : link[t] = Idle => link'[t] = Idle
    BY DEF EditPublish
  <1>7. link' \in [Threads -> Linking \cup {Idle}]
    <2>1. link' = [t \in Threads |-> link'[t]]
      BY DEF EditPublish
    <2> QED BY <2>1, <1>5, <1>6
  <1>8. \A t \in Threads : link[t] # Idle =>
            /\ Follows(link[t], link'[t])
            /\ \A q \in Pair : mapping'[q] # mapping[q] => q \in link'[t].news
    BY <1>1, <1>5
  <1> QED BY <1>1, <1>2, <1>3, <1>4, <1>6, <1>7, <1>8, EditStep DEF EditPublish

LEMMA EditsStep ==
    ASSUME IInv, NEW w \in Threads,
           CreateWrite(w) \/ CreateFails(w) \/ UpdateWrite(w) \/ UpdateFails(w)
    PROVE  IInv'
  <1>1. edit[w] # Idle
    BY DEF CreateWrite, CreateFails, UpdateWrite, UpdateFails, Edits
  <1>2. edit[w] \in Editing
    BY <1>1 DEF IInv, TypeOK
  <1>3. /\ edit[w].pair \in Pair /\ edit[w].type \in Types
        /\ mapping[edit[w].pair] \in Types \cup {Absent} /\ Legal(edit[w].pair)
    BY <1>1, <1>2 DEF Editing, IInv, TypeOK, EditsOk
  <1>4. CASE CreateWrite(w)
    BY <1>1, <1>3, <1>4, EditEndOk, EditPublishOk DEF CreateWrite
  <1>5. CASE CreateFails(w) \/ UpdateFails(w)
    BY <1>1, <1>5, EditEndOk DEF CreateFails, UpdateFails
  <1>6. CASE UpdateWrite(w)
    <2> DEFINE type == IF edit[w].type \in {"untyped", edit[w].found}
                       THEN mapping[edit[w].pair] ELSE edit[w].type
    <2>1. type \in Types \cup {Absent}
      BY <1>3
    <2>2. EditPublish(w, edit[w].pair, type)
      BY <1>6 DEF UpdateWrite
    <2> HIDE DEF type
    <2> QED BY <1>1, <1>3, <2>1, <2>2, EditPublishOk
  <1> QED BY <1>4, <1>5, <1>6

LEMMA DeleteOk ==
    ASSUME IInv, NEW w \in Threads, NEW p \in Pair, DeleteMapping(w, p)
    PROVE  IInv'
  <1>1. /\ mapping' \in [Pair -> Types \cup {Absent}]
        /\ mapping'[p] = Absent
        /\ \A q \in Pair : q # p => mapping'[q] = mapping[q]
    BY DEF DeleteMapping, IInv, TypeOK
  <1>2. \A q \in Pair : mapping'[q] # Absent => Legal(q)
    BY <1>1 DEF IInv, MappingsLegal, Legal
  <1> DEFINE told(t) == [link[t] EXCEPT !.news = @ \cup {p}, !.gone = @ \/ link[t].at = p]
             warned(t) == [edit[t] EXCEPT !.gone = @ \/ edit[t].pair = p]
  <1>3. ASSUME NEW t \in Threads, link[t] # Idle
        PROVE  /\ link'[t] = told(t) /\ told(t) \in Linking
               /\ Follows(link[t], told(t)) /\ p \in told(t).news
    <2>1. link[t] \in Linking
      BY <1>3 DEF IInv, TypeOK
    <2>2. link'[t] = told(t)
      BY <1>3 DEF DeleteMapping, Tell
    <2>3. (link[t].gone \/ link[t].at = p) \in BOOLEAN
      OBVIOUS
    <2> QED BY <2>1, <2>2, <2>3 DEF Linking, Follows
  <1>4. ASSUME NEW t \in Threads, edit[t] # Idle
        PROVE  edit'[t] = warned(t) /\ warned(t) \in Editing /\ warned(t).pair = edit[t].pair
    <2>1. edit[t] \in Editing
      BY <1>4 DEF IInv, TypeOK
    <2>2. edit'[t] = warned(t)
      BY <1>4 DEF DeleteMapping, Tell
    <2> QED BY <2>1, <2>2 DEF Editing
  <1> HIDE DEF told, warned
  <1>5. /\ \A t \in Threads : link[t] = Idle => link'[t] = Idle
        /\ \A t \in Threads : edit[t] = Idle => edit'[t] = Idle
    BY DEF DeleteMapping, Tell
  <1>6. /\ link' \in [Threads -> Linking \cup {Idle}]
        /\ edit' \in [Threads -> Editing \cup {Idle}]
    <2>1. link' = [t \in Threads |-> link'[t]] /\ edit' = [t \in Threads |-> edit'[t]]
      BY DEF DeleteMapping, Tell
    <2> QED BY <2>1, <1>3, <1>4, <1>5
  <1>7. \A t \in Threads : link[t] # Idle =>
            /\ Follows(link[t], link'[t])
            /\ \A q \in Pair : mapping'[q] # mapping[q] => q \in link'[t].news
    BY <1>1, <1>3
  <1>8. \A t \in Threads : edit'[t] # Idle => Legal(edit'[t].pair)
    BY <1>4, <1>5 DEF IInv, EditsOk
  <1> QED BY <1>1, <1>2, <1>5, <1>6, <1>7, <1>8, EditStep DEF DeleteMapping

LEMMA CrashOk ==
    ASSUME IInv, NEW w \in Threads, Crash(w)
    PROVE  IInv'
  <1>1. /\ sync' = [sync EXCEPT ![w] = Idle]
        /\ link' = [link EXCEPT ![w] = Idle]
        /\ edit' = [edit EXCEPT ![w] = Idle]
        /\ UNCHANGED <<categories, mapping>>
    BY DEF Crash
  <1>2. TypeOK'
    BY <1>1 DEF IInv, TypeOK
  <1>3. LinksOk' /\ EditsOk'
    BY <1>1 DEF IInv, TypeOK, LinksOk, EditsOk, Legal
  <1> QED BY <1>1, <1>2, <1>3 DEF IInv, MappingsLegal, Legal

LEMMA SyncsOk ==
    ASSUME IInv, NEW w \in Threads, Syncs(w)
    PROVE  IInv'
  <1>1. /\ TypeOK' /\ categories \subseteq categories'
        /\ UNCHANGED <<mapping, link, edit>>
    BY SyncStep DEF IInv
  <1>2. LinksOk'
    <2>1. \A t \in Threads : Follows(link[t], link'[t])
      BY <1>1 DEF Follows
    <2> QED BY <1>1, <2>1, OtherLink DEF IInv, LinksOk
  <1> QED BY <1>1, <1>2 DEF IInv, MappingsLegal, EditsOk, Legal

-----------------------------------------------------------------------------
(* Who waits for whom *)

\* The row of a mapping that w is about to insert or to update.
Wants(w, p) ==
    \/ Linked(w, "write") /\ p = link[w].at /\ link[w].found # "exact"
    \/ Edits(w, "create") /\ p = edit[w].pair /\ edit[w].found # edit[w].type
    \/ Edits(w, "update") /\ p = edit[w].pair

\* w waits for t to end, an auto-link that has written a mapping that w wants; or
\* for a synchronisation.
WaitsRow(w, t) == t # w /\ link[t] # Idle /\ \E p \in link[t].written : Wants(w, p)
WaitsAny(w, t) == Waits(w, t) \/ WaitsRow(w, t)

\* Each of D waits for one of D, and one of D waits for it.
Stuck(D) == \A t \in D : (\E r \in D : WaitsAny(t, r)) /\ (\E r \in D : WaitsAny(r, t))

\* Only synchronisations deadlock, and the database ends one of those: whatever
\* requests run at the same time, no auto-link and no edit is part of a cycle of
\* requests that wait for each other's rows (category_matching_service.py:118-140).
OnlySyncsDeadlock ==
    \A D \in SUBSET Threads : Stuck(D) =>
        \A t \in D : sync[t] # Idle /\ Deadlocked(t)

\* The alphabetical order of pairs of categories of the same two stores.
Before(p, q) ==
    \/ p[1][2] < q[1][2]
    \/ p[1][2] = q[1][2] /\ p[2][2] < q[2][2]

\* An auto-link takes rows in that order.
OrderOk(l) ==
    /\ \A p \in l.written, q \in l.todo : Before(p, q)
    /\ Pending(l) => /\ \A p \in l.written : Before(p, l.at)
                     /\ \A q \in l.todo : Before(l.at, q)

OrderInv == \A w \in Threads : link[w] # Idle => OrderOk(link[w])

\* A request that learns of another leaves its rows and their order alone.
LEMMA OrderFollows ==
    ASSUME NEW l, NEW m, OrderOk(l), Follows(l, m)
    PROVE  OrderOk(m)
  BY DEF OrderOk, Follows, Pending

\* The first of the pairs that are left comes before each other.
LEMMA FirstBefore ==
    ASSUME IInv, NEW l \in Linking, LinkOk(l, categories, mapping),
           NEW p \in l.todo, IsFirst(p, l.todo), NEW q \in l.todo \ {p}
    PROVE  Before(p, q)
  <1>1. Mine(l, p, categories) /\ Mine(l, q, categories)
    BY DEF LinkOk, ListsOk
  <1>2. /\ p[1] \in Category /\ p[2] \in Category /\ q[1] \in Category /\ q[2] \in Category
        /\ p = <<p[1], p[2]>> /\ q = <<q[1], q[2]>>
        /\ p[1][1] = q[1][1] /\ p[2][1] = q[2][1]
    BY <1>1 DEF Mine, Pair
  <1>3. \A c \in Category : c = <<c[1], c[2]>> /\ c[2] \in Nat
    <2>1. \A c \in Stores \X Names : c = <<c[1], c[2]>> /\ c[2] \in Names
      OBVIOUS
    <2> QED BY <2>1, ConstantsAssumption
  <1>4. ~(p[1][2] = q[1][2] /\ p[2][2] = q[2][2])
    BY <1>2, <1>3
  <1> QED BY <1>2, <1>3, <1>4 DEF IsFirst, Before

LEMMA BeforeTransitive ==
    ASSUME NEW p \in Pair, NEW q \in Pair, NEW r \in Pair, Before(p, q), Before(q, r)
    PROVE  Before(p, r)
  <1>1. \A c \in Category : c[2] \in Nat
    BY ConstantsAssumption
  <1> QED BY <1>1 DEF Before, Pair

\* The auto-link of w has become m, and the others have learnt at most.
LEMMA OrderStep ==
    ASSUME OrderInv, NEW w \in Threads,
           link'[w] # Idle => OrderOk(link'[w]),
           \A t \in Threads \ {w} : link'[t] # Idle =>
               link[t] # Idle /\ Follows(link[t], link'[t])
    PROVE  OrderInv'
  BY OrderFollows DEF OrderInv

LEMMA OrderLink ==
    ASSUME IInv, OrderInv, NEW w \in Threads,
           \/ LinkReferences(w) \/ LinkTargets(w)
           \/ \E p \in Pair : LinkRead(w, p)
           \/ LinkReread(w) \/ LinkWrite(w)
    PROVE  OrderInv'
  <1> DEFINE l == link[w]
  <1>1. l # Idle /\ l \in Linking /\ LinkOk(l, categories, mapping) /\ OrderOk(l)
    BY LinkAt DEF LinkReferences, LinkTargets, LinkRead, LinkReread, LinkWrite, OrderInv
  <1>2. \A t \in Threads \ {w} : link'[t] = link[t]
    BY DEF LinkReferences, LinkTargets, LinkRead, LinkReread, LinkWrite, IInv, TypeOK
  <1>3. SUFFICES OrderOk(link'[w])
    <2>1. \A t \in Threads \ {w} : Follows(link[t], link'[t])
      BY <1>2 DEF Follows
    <2> QED BY <1>2, <2>1, OrderStep
  <1>4. l.written \subseteq Pair /\ l.todo \subseteq Pair
    BY <1>1 DEF Linking
  <1>5. CASE LinkReferences(w) \/ LinkTargets(w)
    <2>1. l.written = {}
      BY <1>1, <1>5 DEF LinkReferences, LinkTargets, Linked, LinkOk, ListsOk
    <2>2. link'[w].written = {} /\ ~Pending(link'[w])
      BY <1>1, <1>5, <2>1 DEF LinkReferences, LinkTargets, Linking, IInv, TypeOK, Pending
    <2> QED BY <2>2 DEF OrderOk
  <1>6. ASSUME NEW p \in Pair, LinkRead(w, p)
        PROVE  OrderOk(link'[w])
    <2>1. l.step = "read" /\ p \in l.todo /\ IsFirst(p, l.todo)
      BY <1>6 DEF LinkRead, Linked, IsFirst
    <2>2. /\ link'[w].written = l.written /\ link'[w].todo = l.todo \ {p}
          /\ \/ link'[w].step = "read"
             \/ link'[w].step = "reread" /\ link'[w].at = p
      <3>1. \/ link'[w] = [l EXCEPT !.todo = @ \ {p}]
            \/ link'[w] = [l EXCEPT !.todo = @ \ {p}, !.at = p, !.step = "reread"]
        BY <1>6 DEF LinkRead, IInv, TypeOK
      <3> HIDE DEF l
      <3> QED BY <1>1, <2>1, <3>1 DEF Linking
    <2>3. \A q \in l.todo \ {p} : Before(p, q)
      BY <1>1, <2>1, FirstBefore
    <2>4. \A q \in l.written : Before(q, p)
      BY <1>1, <2>1 DEF OrderOk
    <2> QED BY <1>1, <2>2, <2>3, <2>4 DEF OrderOk, Pending
  <1>7. CASE LinkReread(w)
    <2>1. /\ link'[w].written = l.written /\ link'[w].todo = l.todo
          /\ link'[w].at = l.at /\ l.step = "reread"
      BY <1>1, <1>7 DEF LinkReread, Linked, Linking, IInv, TypeOK
    <2> QED BY <1>1, <2>1 DEF OrderOk, Pending
  <1>8. CASE LinkWrite(w)
    <2>1. /\ link'[w].written \subseteq l.written \cup {l.at}
          /\ link'[w].todo = l.todo /\ link'[w].step = "read" /\ l.step = "write"
      BY <1>1, <1>8 DEF LinkWrite, Linked, Linking, IInv, TypeOK
    <2> QED BY <1>1, <2>1 DEF OrderOk, Pending
  <1> QED BY <1>5, <1>6, <1>7, <1>8

\* An auto-link that is told of other requests.
LEMMA Told ==
    ASSUME NEW l \in Linking, NEW N, NEW g, NEW m,
           \/ m = [l EXCEPT !.news = @ \cup N]
           \/ m = [l EXCEPT !.news = @ \cup N, !.gone = @ \/ g]
    PROVE  m # Idle /\ Follows(l, m)
  <1>1. CASE m = [l EXCEPT !.news = @ \cup N]
    BY <1>1 DEF Follows, Linking, Idle
  <1>2. CASE m = [l EXCEPT !.news = @ \cup N, !.gone = @ \/ g]
    BY <1>2 DEF Follows, Linking, Idle
  <1> QED BY <1>1, <1>2

\* Who changes mappings tells the auto-links in progress, and does nothing else to them.
LEMMA TellsOthers ==
    ASSUME IInv, NEW w \in Threads,
           \/ \E p \in Pair : DeleteMapping(w, p)
           \/ LinkCommit(w) \/ CreateWrite(w) \/ UpdateWrite(w),
           NEW t \in Threads
    PROVE  /\ link[t] = Idle => link'[t] = Idle
           /\ link[t] # Idle =>
                  \/ t = w /\ link'[t] = Idle
                  \/ link'[t] # Idle /\ Follows(link[t], link'[t])
  <1>1. link[t] = Idle => link'[t] = Idle
    BY DEF DeleteMapping, Tell, LinkCommit, CreateWrite, UpdateWrite, EditPublish, EditEnd
  <1>2. ASSUME link[t] # Idle
        PROVE  \/ t = w /\ link'[t] = Idle
               \/ link'[t] # Idle /\ Follows(link[t], link'[t])
    <2>1. link[t] \in Linking
      BY <1>2 DEF IInv, TypeOK
    <2>2. \/ t = w /\ link'[t] = Idle
          \/ link'[t] = link[t]
          \/ \E N : link'[t] = [link[t] EXCEPT !.news = @ \cup N]
          \/ \E N, g : link'[t] = [link[t] EXCEPT !.news = @ \cup N, !.gone = @ \/ g]
      <3>1. CASE \E p \in Pair : DeleteMapping(w, p)
        <4>1. PICK p \in Pair : DeleteMapping(w, p)
          BY <3>1
        <4>2. link'[t] = [link[t] EXCEPT !.news = @ \cup {p}, !.gone = @ \/ link[t].at = p]
          BY <1>2, <4>1 DEF DeleteMapping, Tell
        <4> QED BY <4>2
      <3>2. CASE LinkCommit(w)
        <4>1. \/ t = w /\ link'[t] = Idle
              \/ link'[t] = [link[t] EXCEPT !.news = @ \cup link[w].written]
          BY <1>2, <3>2 DEF LinkCommit
        <4> QED BY <4>1
      <3>3. CASE CreateWrite(w) \/ UpdateWrite(w)
        <4>1. \/ link'[t] = link[t]
              \/ link'[t] = [link[t] EXCEPT !.news = @ \cup {edit[w].pair}]
          BY <1>2, <3>3 DEF CreateWrite, UpdateWrite, EditPublish, EditEnd
        <4> QED BY <4>1
      <3> QED BY <3>1, <3>2, <3>3
    <2>3. CASE link'[t] = link[t]
      BY <1>2, <2>3 DEF Follows
    <2>4. CASE \E N : link'[t] = [link[t] EXCEPT !.news = @ \cup N]
      <3>1. PICK N : link'[t] = [link[t] EXCEPT !.news = @ \cup N]
        BY <2>4
      <3> QED BY <2>1, <3>1, Told
    <2>5. CASE \E N, g : link'[t] = [link[t] EXCEPT !.news = @ \cup N, !.gone = @ \/ g]
      <3>1. PICK N, g : link'[t] = [link[t] EXCEPT !.news = @ \cup N, !.gone = @ \/ g]
        BY <2>5
      <3> QED BY <2>1, <3>1, Told
    <2> QED BY <2>2, <2>3, <2>4, <2>5
  <1> QED BY <1>1, <1>2

LEMMA OrderPreserved ==
    ASSUME IInv, OrderInv, [Next]_vars
    PROVE  OrderInv'
  <1>1. ASSUME UNCHANGED link
        PROVE  OrderInv'
    BY <1>1 DEF OrderInv
  <1>2. CASE UNCHANGED vars
    BY <1>1, <1>2 DEF vars
  <1>3. CASE Next
    <2>1. PICK w \in Threads : Accept(w) \/ Proceed(w) \/ Crash(w)
      BY <1>3 DEF Next
    <2>2. CASE Syncs(w)
      BY <1>1, <2>2, SyncStep DEF IInv
    <2>3. CASE \E r \in Reference, t \in Stores \ Reference : LinkStart(w, r, t)
      <3>1. /\ link'[w].written = {} /\ link'[w].step = "references"
            /\ \A t \in Threads \ {w} : link'[t] = link[t]
        BY <2>3 DEF LinkStart, IInv, TypeOK
      <3> QED BY <3>1, OrderStep DEF OrderOk, Pending, Follows
    <2>4. CASE \/ \E p \in Choices, t \in Entered : CreateRead(w, p, t) \/ UpdateRead(w, p, t)
               \/ CreateFails(w) \/ UpdateFails(w)
      BY <1>1, <2>4 DEF CreateRead, UpdateRead, EditStart, CreateFails, UpdateFails, EditEnd
    <2>5. CASE LinkWriteFails(w) \/ Crash(w)
      <3>1. link'[w] = Idle /\ \A t \in Threads \ {w} : link'[t] = link[t]
        BY <2>5 DEF LinkWriteFails, LinkRollback, Crash, IInv, TypeOK
      <3> QED BY <3>1, OrderStep DEF Follows
    <2>6. CASE \/ LinkReferences(w) \/ LinkTargets(w)
               \/ \E p \in Pair : LinkRead(w, p)
               \/ LinkReread(w) \/ LinkWrite(w)
      BY <2>6, OrderLink
    <2>7. CASE \/ \E p \in Pair : DeleteMapping(w, p)
               \/ LinkCommit(w) \/ CreateWrite(w) \/ UpdateWrite(w)
      <3>1. \A t \in Threads : link'[t] # Idle =>
                link[t] # Idle /\ Follows(link[t], link'[t])
        BY <2>7, TellsOthers
      <3> QED BY <3>1, OrderFollows DEF OrderInv
    <2> QED BY <2>1, <2>2, <2>3, <2>4, <2>5, <2>6, <2>7 DEF Accept, Proceed, Syncs
  <1> QED BY <1>2, <1>3

LEMMA LeastNat ==
    ASSUME NEW S \in SUBSET Nat, S # {}
    PROVE  \E n \in S : \A k \in S : n <= k
  <1>1. PICK n \in S : \A k \in S : ~(<<k, n>> \in OpToRel(<, Nat))
    BY NatLessThanWellFounded, WFMin
  <1>2. \A k \in S : ~(k < n)
    BY <1>1 DEF OpToRel
  <1> QED BY <1>2

\* Of some pairs, one has no other before it.
LEMMA FirstPair ==
    ASSUME NEW S \in SUBSET Pair, S # {}
    PROVE  \E p \in S : \A q \in S : ~Before(q, p)
  <1>1. \A p \in Pair : p[1][2] \in Nat /\ p[2][2] \in Nat
    BY ConstantsAssumption DEF Pair
  <1> DEFINE N == {p[1][2] : p \in S}
  <1>2. PICK n \in N : \A k \in N : n <= k
    <2>1. N \in SUBSET Nat /\ N # {}
      BY <1>1
    <2> QED BY <2>1, LeastNat
  <1> DEFINE M == {p[2][2] : p \in {q \in S : q[1][2] = n}}
  <1>3. PICK m \in M : \A k \in M : m <= k
    <2>1. M \in SUBSET Nat /\ M # {}
      BY <1>1
    <2> QED BY <2>1, LeastNat
  <1>4. PICK p \in S : p[1][2] = n /\ p[2][2] = m
    OBVIOUS
  <1>5. ASSUME NEW q \in S
        PROVE  ~Before(q, p)
    <2>1. n <= q[1][2] /\ (q[1][2] = n => m <= q[2][2])
      BY <1>2, <1>3
    <2> QED BY <1>1, <1>4, <2>1 DEF Before
  <1> QED BY <1>5

\* Who waits for an auto-link is at a mapping that the auto-link has written; if it
\* is an auto-link itself, the other one is further.
LEMMA WaitsBehind ==
    ASSUME IInv, OrderInv, NEW w \in Threads, NEW t \in Threads, WaitsRow(w, t),
           Linked(w, "write"), Linked(t, "write")
    PROVE  Before(link[w].at, link[t].at)
  <1>1. link[w].at \in link[t].written
    BY DEF WaitsRow, Wants, Linked, Edits, IInv, TypeOK
  <1> QED BY <1>1 DEF OrderInv, OrderOk, Linked, Pending

\* Only a synchronisation waits for one, and only one that writes waits.
LEMMA WhoWaits ==
    ASSUME IInv, NEW w \in Threads, NEW t \in Threads, WaitsAny(w, t)
    PROVE  \/ sync[w] # Idle /\ sync[t] # Idle /\ Waits(w, t)
           \/ /\ link[t] # Idle /\ WaitsRow(w, t)
              /\ Linked(w, "write") \/ edit[w] # Idle
  BY DEF WaitsAny, Waits, WaitsRow, Wants, Edits

LEMMA OrderSuffices == IInv /\ OrderInv => OnlySyncsDeadlock
  <1> SUFFICES ASSUME IInv, OrderInv, NEW D \in SUBSET Threads, Stuck(D), NEW u \in D
               PROVE  sync[u] # Idle /\ Deadlocked(u)
    BY DEF OnlySyncsDeadlock
  <1> DEFINE L == {w \in D : link[w] # Idle}
  <1>1. \A w \in Threads : /\ sync[w] # Idle => link[w] = Idle /\ edit[w] = Idle
                           /\ link[w] # Idle => edit[w] = Idle
    BY DEF IInv, TypeOK
  <1>2. ASSUME NEW w \in D
        PROVE  \/ sync[w] # Idle
               \/ Linked(w, "write") /\ \E r \in L : WaitsRow(r, w)
    <2>1. PICK r \in D, t \in D : WaitsAny(r, w) /\ WaitsAny(w, t)
      BY DEF Stuck
    <2>2. CASE link[w] # Idle
      <3>1. Linked(w, "write")
        BY <1>1, <2>1, <2>2, WhoWaits
      <3>2. WaitsRow(r, w)
        BY <1>1, <2>1, <2>2, WhoWaits
      <3>3. PICK q \in D : WaitsAny(q, r)
        BY DEF Stuck
      <3>4. link[r] # Idle
        BY <1>1, <2>1, <2>2, <3>3, WhoWaits DEF Linked
      <3> QED BY <3>1, <3>2, <3>4
    <2> QED BY <2>1, <2>2, WhoWaits
  <1>3. L = {}
    <2>1. SUFFICES ASSUME L # {}
                   PROVE  FALSE
      OBVIOUS
    <2>2. \A w \in L : Linked(w, "write") /\ \E r \in L : WaitsRow(r, w)
      BY <1>1, <1>2
    <2> DEFINE A == {link[w].at : w \in L}
    <2>3. A \in SUBSET Pair /\ A # {}
      <3>1. ASSUME NEW w \in L
            PROVE  link[w].at \in Pair
        BY <2>2, LinkAt DEF LinkOk, ListsOk, Pending, Mine
      <3> QED BY <2>1, <3>1
    <2>4. PICK w \in L : \A r \in L : ~Before(link[r].at, link[w].at)
      BY <2>3, FirstPair
    <2> QED BY <2>2, <2>4, WaitsBehind
  <1>4. \A w \in D : sync[w] # Idle
    BY <1>2, <1>3
  <1>5. \A w \in D : \A t \in D : WaitsAny(w, t) => Waits(w, t)
    BY <1>1, <1>4, WhoWaits
  <1>6. \A w \in D : (\E r \in D : Waits(w, r)) /\ (\E r \in D : Waits(r, w))
    BY <1>5 DEF Stuck
  <1> QED BY <1>4, <1>6 DEF Deadlocked

\* Where each of finitely many waits for another, some form a cycle.
LEMMA Cycle ==
    ASSUME NEW T, IsFiniteSet(T), T # {}, NEW R,
           \A t \in T : \E r \in T : r # t /\ <<t, r>> \in R
    PROVE  \E D \in SUBSET T :
               /\ D # {}
               /\ \A t \in D : (\E r \in D : <<t, r>> \in R) /\ (\E r \in D : <<r, t>> \in R)
  <1> DEFINE closed(S) == S # {} /\ \A t \in S : \E r \in S : r # t /\ <<t, r>> \in R
             Sizes == {Cardinality(S) : S \in {S \in SUBSET T : closed(S)}}
  <1>1. \A S \in SUBSET T : IsFiniteSet(S) /\ Cardinality(S) \in Nat
    BY FS_Subset, FS_CardinalityType
  <1>2. Sizes \in SUBSET Nat /\ Sizes # {}
    BY <1>1
  <1>3. PICK n \in Sizes : \A k \in Sizes : n <= k
    BY <1>2, LeastNat
  <1>4. PICK D \in SUBSET T : closed(D) /\ Cardinality(D) = n
    OBVIOUS
  <1>5. ASSUME NEW t \in D, \A r \in D : <<r, t>> \notin R
        PROVE  FALSE
    <2> DEFINE E == D \ {t}
    <2>1. closed(E)
      <3>1. E # {}
        BY <1>4
      <3>2. ASSUME NEW u \in E
            PROVE  \E r \in E : r # u /\ <<u, r>> \in R
        BY <1>4, <1>5
      <3> QED BY <3>1, <3>2
    <2>2. Cardinality(E) = n - 1 /\ n \in Nat
      BY <1>1, <1>4, FS_RemoveElement
    <2>3. Cardinality(E) \in Sizes
      BY <2>1
    <2> HIDE DEF E, Sizes
    <2>4. n <= Cardinality(E)
      BY <1>3, <2>3
    <2> QED BY <2>2, <2>4
  <1> QED BY <1>4, <1>5

-----------------------------------------------------------------------------
(* Theorems *)

LEMMA InitOk == Init => IInv
  BY DEF Init, IInv, TypeOK, MappingsLegal, LinksOk, EditsOk, Legal

LEMMA StepOk ==
    ASSUME IInv, [Next]_vars
    PROVE  IInv'
  <1>1. CASE UNCHANGED vars
    <2>1. UNCHANGED <<categories, mapping, sync, link, edit>>
      BY <1>1 DEF vars
    <2> QED BY <2>1 DEF IInv, TypeOK, MappingsLegal, LinksOk, EditsOk, Legal
  <1>2. CASE Next
    <2>1. PICK w \in Threads : Accept(w) \/ Proceed(w) \/ Crash(w)
      BY <1>2 DEF Next
    <2>2. CASE Syncs(w)
      BY <2>2, SyncsOk
    <2>3. CASE \E r \in Reference, t \in Stores \ Reference : LinkStart(w, r, t)
      BY <2>3, LinkStartOk
    <2>4. CASE \E p \in Choices, t \in Entered : CreateRead(w, p, t) \/ UpdateRead(w, p, t)
      <3>1. PICK p \in Choices, t \in Entered : CreateRead(w, p, t) \/ UpdateRead(w, p, t)
        BY <2>4
      <3>2. p \in Pair /\ t \in Types
        BY ConstantsAssumption DEF Pair, Types
      <3>3. Legal(p)
        BY <3>1, <3>2 DEF CreateRead, UpdateRead, IInv, MappingsLegal, Legal
      <3> QED BY <3>1, <3>2, <3>3, EditStartOk DEF CreateRead, UpdateRead
    <2>5. CASE \E p \in Pair : DeleteMapping(w, p)
      BY <2>5, DeleteOk
    <2>6. CASE \/ LinkReferences(w) \/ LinkTargets(w)
               \/ \E p \in Pair : LinkRead(w, p)
               \/ LinkReread(w) \/ LinkWrite(w) \/ LinkCommit(w)
      BY <2>6, LinkReferencesOk, LinkTargetsOk, LinkReadOk, LinkRereadOk,
         LinkWriteOk, LinkCommitOk
    <2>7. CASE LinkWriteFails(w)
      BY <2>7, LinkGone DEF LinkWriteFails, Linked
    <2>8. CASE CreateWrite(w) \/ CreateFails(w) \/ UpdateWrite(w) \/ UpdateFails(w)
      BY <2>8, EditsStep
    <2>9. CASE Crash(w)
      BY <2>9, CrashOk
    <2> QED BY <2>1, <2>2, <2>3, <2>4, <2>5, <2>6, <2>7, <2>8, <2>9
            DEF Accept, Proceed, Syncs
  <1> QED BY <1>1, <1>2

LEMMA Invariance == Spec => []IInv
  BY InitOk, StepOk, PTL DEF Spec

\* Whatever requests run at the same time, the tables and what each request knows
\* have their types (models.py:117-152).
THEOREM TypeCorrect == Spec => []TypeOK
  BY Invariance, PTL DEF IInv

\* Every mapping leads from a category of a reference store to one of another store
\* (mapping_service.py:29-40).
THEOREM Legality == Spec => []MappingsLegal
  BY Invariance, PTL DEF IInv

\* An auto-link changes only mappings that somebody has touched since it began
\* (category_matching_service.py:126-140).
THEOREM KeepsOlder == Spec => LinkKeepsOlder
  <1>1. ASSUME IInv, NEW w \in Threads, LinkCommit(w), NEW p \in Pair,
               mapping[p] # Absent, mapping'[p] # mapping[p]
        PROVE  p \in link[w].news
    BY <1>1, LinkCommitWrites DEF LinkOk, FreshOk
  <1>2. IInv => [\A w \in Threads : LinkCommit(w) =>
           \A p \in Pair :
               mapping[p] # Absent /\ mapping'[p] # mapping[p] => p \in link[w].news]_vars
    BY <1>1
  <1> QED BY <1>2, Invariance, PTL DEF LinkKeepsOlder

\* A successful auto-link has mapped the pairs of the same, not empty, normalized
\* name and no other pair (category_matching_service.py:51-56).
THEOREM Faithful == Spec => LinkFaithful
  <1> DEFINE same(w, p) ==
                 /\ p[1][1] = link[w].ref /\ p[2][1] = link[w].tgt
                 /\ Norm[p[1][2]] = Norm[p[2][2]] /\ Norm[p[1][2]] # NoNorm
  <1>1. ASSUME IInv, NEW w \in Threads, LinkCommit(w), NEW p \in Pair
        PROVE  /\ mapping'[p] # mapping[p] => same(w, p)
               /\ same(w, p) /\ p[1] \in link[w].old /\ p[2] \in link[w].old
                       /\ p \notin link[w].news => mapping'[p] # Absent
    <2>1. mapping'[p] # mapping[p] => Mine(link[w], p, categories)
      BY <1>1, LinkCommitWrites
    <2>2. mapping'[p] # mapping[p] => same(w, p)
      BY <2>1 DEF Mine, SameName
    <2>3. p \in link[w].written => mapping'[p] # Absent
      BY <1>1, LinkCommitWrites DEF Absent
    <2>4. p \notin link[w].written => mapping'[p] = mapping[p]
      BY <1>1, LinkCommitWrites
    <2>5. DoneOk(link[w], mapping) /\ link[w].step = "read" /\ link[w].todo = {}
      BY <1>1, LinkCommitWrites DEF LinkOk
    <2> QED BY <2>2, <2>3, <2>4, <2>5 DEF DoneOk, Pending, SameName
  <1>2. IInv => [\A w \in Threads : LinkCommit(w) =>
           \A p \in Pair :
               LET s == /\ p[1][1] = link[w].ref /\ p[2][1] = link[w].tgt
                        /\ Norm[p[1][2]] = Norm[p[2][2]] /\ Norm[p[1][2]] # NoNorm
               IN  /\ mapping'[p] # mapping[p] => s
                   /\ s /\ p[1] \in link[w].old /\ p[2] \in link[w].old
                        /\ p \notin link[w].news => mapping'[p] # Absent]_vars
    BY <1>1
  <1> QED BY <1>2, Invariance, PTL DEF LinkFaithful

\* Whatever requests run at the same time, an auto-link is never part of a deadlock,
\* because all take the rows of mappings in alphabetical order, and an edit never is,
\* because it writes one row; syncs may be, and the database ends one of them
\* (category_matching_service.py:107-140, category_repository.py:42).
THEOREM DeadlocksOfSyncs == Spec => []OnlySyncsDeadlock
  <1>1. Init => OrderInv
    BY DEF Init, OrderInv
  <1>2. OrderInv /\ IInv /\ [Next]_vars => OrderInv'
    BY OrderPreserved
  <1> QED BY <1>1, <1>2, OrderSuffices, Invariance, PTL DEF Spec

\* Of the requests in progress, one waits for nobody, or is a synchronisation that
\* the database ends.
SomeoneProceeds ==
    (\E w \in Threads : ~Free(w)) =>
        \E w \in Threads : /\ ~Free(w)
                           /\ Deadlocked(w) \/ \A t \in Threads : ~WaitsAny(w, t)

\* Requests never come to a standstill all together, however many there are: to end
\* the cycles of syncs is enough (category_repository.py:42, 72).
THEOREM NoStandstill ==
    ASSUME IsFiniteSet(Threads)
    PROVE  Spec => []SomeoneProceeds
  <1>1. ASSUME IInv, OnlySyncsDeadlock
        PROVE  SomeoneProceeds
    <2> DEFINE B == {w \in Threads : ~Free(w)}
               R == {e \in B \X B : WaitsAny(e[1], e[2])}
    <2>1. SUFFICES ASSUME B # {}, \A w \in B : \E t \in Threads : WaitsAny(w, t)
                   PROVE  \E w \in B : Deadlocked(w)
      BY DEF SomeoneProceeds
    <2>2. IsFiniteSet(B)
      BY FS_Subset
    <2>3. ASSUME NEW w \in B, NEW t \in Threads, WaitsAny(w, t)
          PROVE  t \in B /\ t # w /\ <<w, t>> \in R
      BY <2>3 DEF WaitsAny, Waits, WaitsRow, Free
    <2>4. \A w \in B : \E t \in B : t # w /\ <<w, t>> \in R
      BY <2>1, <2>3
    <2> HIDE DEF B
    <2>5. PICK D \in SUBSET B :
              /\ D # {}
              /\ \A t \in D : (\E r \in D : <<t, r>> \in R) /\ (\E r \in D : <<r, t>> \in R)
      BY <2>1, <2>2, <2>4, Cycle
    <2>6. Stuck(D)
      BY <2>5 DEF Stuck
    <2>7. D \in SUBSET Threads
      BY DEF B
    <2> QED BY <1>1, <2>5, <2>6, <2>7 DEF OnlySyncsDeadlock
  <1> QED BY <1>1, DeadlocksOfSyncs, Invariance, PTL

-----------------------------------------------------------------------------
(* Progress of a request *)

\* The sync m has written more than l, or has come to a category and l has not.
SyncFurther(l, m) ==
    /\ l # Idle /\ m # Idle /\ l.written \subseteq m.written
    /\ \/ l.written # m.written
       \/ l.at = NoCategory /\ m.at # NoCategory

\* The auto-link m has read a list more than l, has fewer pairs left, or is further
\* with the same pair.
LinkFurther(l, m) ==
    /\ l # Idle /\ m # Idle
    /\ \/ <<l.step, m.step>> \in {<<"references", "targets">>, <<"targets", "read">>}
       \/ /\ l.step = "read" /\ m.step \in {"read", "reread"}
          /\ m.todo \subseteq l.todo /\ m.todo # l.todo
       \/ /\ <<l.step, m.step>> \in {<<"reread", "write">>, <<"write", "read">>}
          /\ m.todo = l.todo

Further(w) == SyncFurther(sync[w], sync'[w]) \/ LinkFurther(link[w], link'[w])

\* What a request has done and has left to do is as it was.
SameProgress(w) ==
    /\ sync'[w] = sync[w]
    /\ link[w] = Idle <=> link'[w] = Idle
    /\ link[w] # Idle => Follows(link[w], link'[w])
    /\ edit[w] = Idle <=> edit'[w] = Idle

\* A request that takes a step ends or gets further, and nobody else sets it back.  As
\* categories and pairs are finitely many, it can take finitely many steps only
\* (category_matching_service.py:118, category_repository.py:38).
RequestAdvances ==
    [][\A w \in Threads :
           /\ Proceed(w) => Free(w)' \/ Further(w)
           /\ ~Free(w) => Free(w)' \/ Further(w) \/ SameProgress(w)]_vars

\* What a sync is about to write it has not written yet.
AtInv == \A w \in Threads : AtCategory(w) => sync[w].at \notin sync[w].written

LEMMA CategoryIsPair == ASSUME NEW c \in Category PROVE c # NoCategory
  <1>1. c \in Stores \X Names
    BY ConstantsAssumption
  <1>2. \A d \in Stores \X Names : d # <<>>
    OBVIOUS
  <1> QED BY <1>1, <1>2 DEF NoCategory

LEMMA SyncProgress ==
    ASSUME TypeOK, AtInv, NEW w \in Threads,
           \/ \E c \in Category : CategoryLookup(w, c)
           \/ CategoryWrite(w) \/ SyncFinish(w) \/ SyncFail(w) \/ CategoryWriteFails(w)
    PROVE  /\ Free(w)' \/ SyncFurther(sync[w], sync'[w])
           /\ AtCategory(w)' => sync'[w].at \notin sync'[w].written
           /\ \A t \in Threads \ {w} : sync'[t] = sync[t]
           /\ UNCHANGED <<link, edit>>
  <1>1. ASSUME NEW c \in Category, CategoryLookup(w, c)
        PROVE  /\ SyncFurther(sync[w], sync'[w])
               /\ AtCategory(w)' => sync'[w].at \notin sync'[w].written
               /\ \A t \in Threads \ {w} : sync'[t] = sync[t]
               /\ UNCHANGED <<link, edit>>
    <2>1. sync[w] \in Syncing /\ sync[w].at = NoCategory /\ c \notin sync[w].written
      BY <1>1, Kinds DEF CategoryLookup, Between
    <2>2. sync'[w] = [sync[w] EXCEPT !.at = c, !.new = c \notin categories]
      BY <1>1 DEF CategoryLookup, TypeOK
    <2>3. sync'[w].at = c /\ sync'[w].written = sync[w].written /\ sync'[w] # Idle
      BY <2>1, <2>2 DEF Syncing, Idle
    <2> QED BY <1>1, <2>1, <2>3, CategoryIsPair DEF SyncFurther, CategoryLookup, Between, TypeOK
  <1>2. CASE CategoryWrite(w)
    <2>1. sync[w] \in Syncing /\ sync[w].at \notin sync[w].written
      BY <1>2, Kinds DEF CategoryWrite, AtCategory, AtInv
    <2>2. sync'[w] = [sync[w] EXCEPT !.at = NoCategory, !.written = @ \cup {sync[w].at}]
      BY <1>2 DEF CategoryWrite, TypeOK
    <2>3. /\ sync'[w].at = NoCategory /\ sync'[w] # Idle
          /\ sync'[w].written = sync[w].written \cup {sync[w].at}
      BY <2>1, <2>2 DEF Syncing, Idle
    <2> QED BY <1>2, <2>1, <2>3 DEF SyncFurther, CategoryWrite, AtCategory, TypeOK
  <1>3. CASE SyncFinish(w) \/ SyncFail(w) \/ CategoryWriteFails(w)
    <2>1. sync[w] # Idle /\ SyncEnd(w)
      BY <1>3 DEF SyncFinish, SyncFail, CategoryWriteFails, SyncCommit, SyncRollback,
                  Between, AtCategory
    <2>2. sync'[w] = Idle /\ \A t \in Threads \ {w} : sync'[t] = sync[t]
      BY <2>1 DEF SyncEnd, TypeOK
    <2> QED BY <2>1, <2>2 DEF SyncEnd, Free, AtCategory, TypeOK
  <1> QED BY <1>1, <1>2, <1>3

LEMMA LinkProgress ==
    ASSUME IInv, NEW w \in Threads,
           \/ LinkReferences(w) \/ LinkTargets(w)
           \/ \E p \in Pair : LinkRead(w, p)
           \/ LinkReread(w) \/ LinkWrite(w)
    PROVE  /\ LinkFurther(link[w], link'[w])
           /\ \A t \in Threads \ {w} : link'[t] = link[t]
           /\ UNCHANGED <<sync, edit>>
  <1> DEFINE l == link[w]
             m == link'[w]
  <1>1. l # Idle /\ l \in Linking
    BY LinkAt DEF LinkReferences, LinkTargets, LinkRead, LinkReread, LinkWrite
  <1>2. /\ \A t \in Threads \ {w} : link'[t] = link[t]
        /\ UNCHANGED <<sync, edit>>
    BY DEF LinkReferences, LinkTargets, LinkRead, LinkReread, LinkWrite, IInv, TypeOK
  <1>3. ASSUME NEW p \in Pair, LinkRead(w, p)
        PROVE  LinkFurther(l, m)
    <2>1. l.step = "read" /\ p \in l.todo
      BY <1>3 DEF LinkRead, Linked, IsFirst
    <2>2. \/ m = [l EXCEPT !.todo = @ \ {p}]
          \/ m = [l EXCEPT !.todo = @ \ {p}, !.at = p, !.step = "reread"]
      BY <1>3 DEF LinkRead, IInv, TypeOK
    <2> HIDE DEF l, m
    <2>3. m # Idle /\ m.todo = l.todo \ {p} /\ m.step \in {"read", "reread"}
      BY <1>1, <2>1, <2>2 DEF Linking, Idle
    <2> QED BY <1>1, <2>1, <2>3 DEF LinkFurther
  <1>4. CASE LinkReferences(w) \/ LinkTargets(w)
    <2>1. /\ m # Idle
          /\ \/ l.step = "references" /\ m.step = "targets"
             \/ l.step = "targets" /\ m.step = "read"
      BY <1>1, <1>4 DEF LinkReferences, LinkTargets, Linked, IInv, TypeOK, Linking, Idle
    <2> QED BY <1>1, <1>2, <2>1 DEF LinkFurther
  <1>5. CASE LinkReread(w) \/ LinkWrite(w)
    <2>1. /\ m # Idle /\ m.todo = l.todo
          /\ \/ l.step = "reread" /\ m.step = "write"
             \/ l.step = "write" /\ m.step = "read"
      BY <1>1, <1>5 DEF LinkReread, LinkWrite, Linked, IInv, TypeOK, Linking, Idle
    <2> QED BY <1>1, <1>2, <2>1 DEF LinkFurther
  <1> QED BY <1>2, <1>3, <1>4, <1>5

LEMMA ProceedFurther ==
    ASSUME IInv, AtInv, NEW w \in Threads, Proceed(w)
    PROVE  Free(w)' \/ Further(w)
  <1>1. /\ link[w] # Idle => sync[w] = Idle /\ edit[w] = Idle
        /\ edit[w] # Idle => sync[w] = Idle /\ link[w] = Idle
    BY DEF IInv, TypeOK
  <1>2. CASE \/ \E c \in Category : CategoryLookup(w, c)
             \/ CategoryWrite(w) \/ SyncFinish(w) \/ SyncFail(w) \/ CategoryWriteFails(w)
    BY <1>2, SyncProgress DEF IInv, Further
  <1>3. CASE \/ LinkReferences(w) \/ LinkTargets(w)
             \/ \E p \in Pair : LinkRead(w, p)
             \/ LinkReread(w) \/ LinkWrite(w)
    BY <1>3, LinkProgress DEF Further
  <1>4. CASE LinkCommit(w) \/ LinkWriteFails(w)
    <2>1. link[w] # Idle /\ link'[w] = Idle /\ UNCHANGED <<sync, edit>>
      BY <1>4 DEF LinkCommit, LinkWriteFails, LinkRollback, Linked, IInv, TypeOK
    <2> QED BY <1>1, <2>1 DEF Free
  <1>5. CASE CreateWrite(w) \/ CreateFails(w) \/ UpdateWrite(w) \/ UpdateFails(w)
    <2>1. /\ edit[w] # Idle /\ edit'[w] = Idle
          /\ UNCHANGED sync /\ (link[w] = Idle => link'[w] = Idle)
      BY <1>5 DEF CreateWrite, CreateFails, UpdateWrite, UpdateFails, Edits, EditEnd,
                  EditPublish, IInv, TypeOK
    <2> QED BY <1>1, <2>1 DEF Free
  <1> QED BY <1>2, <1>3, <1>4, <1>5 DEF Proceed

LEMMA OthersSame ==
    ASSUME IInv, AtInv, NEW w \in Threads, Accept(w) \/ Proceed(w) \/ Crash(w),
           NEW t \in Threads \ {w}
    PROVE  SameProgress(t)
  <1>1. ASSUME sync'[t] = sync[t], link'[t] = link[t], edit'[t] = edit[t]
        PROVE  SameProgress(t)
    BY <1>1 DEF SameProgress, Follows
  <1>2. CASE \/ \E c \in Category : CategoryLookup(w, c)
             \/ CategoryWrite(w) \/ SyncFinish(w) \/ SyncFail(w) \/ CategoryWriteFails(w)
    BY <1>1, <1>2, SyncProgress DEF IInv
  <1>3. CASE \/ LinkReferences(w) \/ LinkTargets(w)
             \/ \E p \in Pair : LinkRead(w, p)
             \/ LinkReread(w) \/ LinkWrite(w)
    BY <1>1, <1>3, LinkProgress
  <1>4. CASE \/ \E p \in Pair : DeleteMapping(w, p)
             \/ LinkCommit(w) \/ CreateWrite(w) \/ UpdateWrite(w)
    <2>1. /\ link[t] = Idle <=> link'[t] = Idle
          /\ link[t] # Idle => Follows(link[t], link'[t])
      BY <1>4, TellsOthers
    <2>2. sync'[t] = sync[t]
      BY <1>4 DEF DeleteMapping, LinkCommit, CreateWrite, UpdateWrite, EditPublish, EditEnd
    <2>3. edit[t] = Idle <=> edit'[t] = Idle
      <3>1. edit[t] # Idle => edit[t] \in Editing
        BY Kinds DEF IInv
      <3>2. CASE \E p \in Pair : DeleteMapping(w, p)
        <4>1. PICK p \in Pair : DeleteMapping(w, p)
          BY <3>2
        <4>2. edit'[t] = IF edit[t] = Idle THEN Idle
                         ELSE [edit[t] EXCEPT !.gone = @ \/ edit[t].pair = p]
          BY <4>1 DEF DeleteMapping, Tell
        <4> QED BY <3>1, <4>2 DEF Editing, Idle
      <3>3. CASE LinkCommit(w) \/ CreateWrite(w) \/ UpdateWrite(w)
        BY <3>3 DEF LinkCommit, CreateWrite, UpdateWrite, EditPublish, EditEnd, IInv, TypeOK
      <3> QED BY <1>4, <3>2, <3>3
    <2> QED BY <2>1, <2>2, <2>3 DEF SameProgress
  <1>5. CASE \/ \E s \in Stores, job \in BOOLEAN : SyncStart(w, s, job)
             \/ \E r \in Reference, u \in Stores \ Reference : LinkStart(w, r, u)
             \/ \E p \in Choices, u \in Entered : CreateRead(w, p, u) \/ UpdateRead(w, p, u)
    BY <1>1, <1>5 DEF SyncStart, LinkStart, CreateRead, UpdateRead, EditStart, IInv, TypeOK
  <1>6. CASE LinkWriteFails(w) \/ CreateFails(w) \/ UpdateFails(w) \/ Crash(w)
    BY <1>1, <1>6 DEF LinkWriteFails, LinkRollback, CreateFails, UpdateFails, EditEnd, Crash,
                      IInv, TypeOK
  <1> QED BY <1>2, <1>3, <1>4, <1>5, <1>6 DEF Accept, Proceed

LEMMA AtStep ==
    ASSUME IInv, AtInv, [Next]_vars
    PROVE  AtInv'
  <1>1. CASE UNCHANGED vars
    BY <1>1 DEF vars, AtInv, AtCategory
  <1>2. ASSUME NEW w \in Threads, Accept(w) \/ Proceed(w) \/ Crash(w), NEW t \in Threads,
               AtCategory(t)'
        PROVE  sync'[t].at \notin sync'[t].written
    <2>1. ASSUME sync'[t] = sync[t]
          PROVE  sync'[t].at \notin sync'[t].written
      BY <1>2, <2>1 DEF AtInv, AtCategory
    <2>2. CASE t # w
      BY <1>2, <2>1, <2>2, OthersSame DEF SameProgress
    <2>3. CASE t = w /\ (\/ \E c \in Category : CategoryLookup(w, c)
                         \/ CategoryWrite(w) \/ SyncFinish(w) \/ SyncFail(w)
                         \/ CategoryWriteFails(w))
      BY <1>2, <2>3, SyncProgress DEF IInv
    <2>4. CASE t = w /\ \E s \in Stores, job \in BOOLEAN : SyncStart(w, s, job)
      BY <1>2, <2>4 DEF SyncStart, AtCategory, IInv, TypeOK
    <2>5. CASE t = w /\ Crash(w)
      BY <1>2, <2>5 DEF Crash, AtCategory, IInv, TypeOK
    <2>6. CASE UNCHANGED sync
      BY <2>1, <2>6
    <2>7. \/ Syncs(w) \/ Crash(w) \/ UNCHANGED sync
      BY <1>2 DEF Accept, Proceed, Syncs, LinkStart, LinkReferences, LinkTargets, LinkRead,
                  LinkReread, LinkWrite, LinkCommit, LinkWriteFails, LinkRollback,
                  CreateRead, UpdateRead, EditStart, CreateWrite, CreateFails, UpdateWrite,
                  UpdateFails, EditPublish, EditEnd, DeleteMapping
    <2> QED BY <2>2, <2>3, <2>4, <2>5, <2>6, <2>7 DEF Syncs
  <1> QED BY <1>1, <1>2 DEF Next, AtInv

\* Every request, once accepted, only gets further towards its end, whatever the others
\* do meanwhile: with NoStandstill this is all of RequestEnds but fairness.
THEOREM Advance == Spec => RequestAdvances
  <1>1. Init => AtInv
    BY DEF Init, AtInv, AtCategory
  <1>2. IInv /\ AtInv /\ [Next]_vars => AtInv'
    BY AtStep
  <1>3. ASSUME IInv, AtInv, Next, NEW w \in Threads
        PROVE  /\ Proceed(w) => Free(w)' \/ Further(w)
               /\ ~Free(w) => Free(w)' \/ Further(w) \/ SameProgress(w)
    <2>1. PICK u \in Threads : Accept(u) \/ Proceed(u) \/ Crash(u)
      BY <1>3 DEF Next
    <2>2. CASE u = w
      <3>1. Accept(w) => Free(w)
        BY DEF Accept, SyncStart, LinkStart, CreateRead, UpdateRead, EditStart, DeleteMapping
      <3>2. Crash(w) => Free(w)'
        BY <1>3 DEF Crash, Free, IInv, TypeOK
      <3> QED BY <1>3, <2>1, <2>2, <3>1, <3>2, ProceedFurther
    <2>3. CASE u # w
      BY <1>3, <2>1, <2>3, ProceedFurther, OthersSame
    <2> QED BY <2>2, <2>3
  <1>4. IInv /\ AtInv =>
          [\A w \in Threads :
               /\ Proceed(w) => Free(w)' \/ Further(w)
               /\ ~Free(w) => Free(w)' \/ Further(w) \/ SameProgress(w)]_vars \/ ~[Next]_vars
    BY <1>3
  <1> QED BY <1>1, <1>2, <1>4, Invariance, PTL DEF Spec, RequestAdvances
=============================================================================
