--------------------------- MODULE CategoryMappings ---------------------------
(***************************************************************************)
(* Categories of stores and the mappings of reference categories to target *)
(* categories.  Syncs enter categories under their name, operators create, *)
(* change and delete mappings, and auto-link maps all categories of two    *)
(* stores that have the same normalized name.  Each thread serves one      *)
(* request in one transaction; the database is PostgreSQL (see             *)
(* ProductSync).                                                           *)
(***************************************************************************)
EXTENDS Naturals

CONSTANTS
    Stores,
    Reference,    \* those of Stores that are reference stores
    Names,        \* names of categories, numbered alphabetically
    Category,     \* the categories that shops may report: a store and a name each
    Norm,         \* the normalized form of each name
    NoNorm,       \* a normalized name of which nothing is left
    Choices,      \* pairs of categories that operators map by hand
    Entered,      \* match types that operators enter
    Threads       \* those who serve requests and jobs at the same time

ASSUME ConstantsAssumption ==
    /\ Reference \subseteq Stores
    /\ Names \subseteq Nat
    /\ Category \subseteq Stores \X Names
    /\ Choices \subseteq Category \X Category
    /\ Entered \subseteq {"exact", "manual", "untyped"}

VARIABLES
    categories,   \* categories: the committed rows
    mapping,      \* category_mappings: match type of each pair, or "none"
    sync,         \* the synchronisation of categories that a thread is doing
    link,         \* the auto-link that a thread is doing
    edit          \* the mapping that a thread is creating or changing

vars == <<categories, mapping, sync, link, edit>>

Pair == Category \X Category

\* match_type of a mapping; operators may leave it out.
Types == {"exact", "manual", "untyped"}
Absent == "none"

Idle == [doing |-> "nothing"]
NoCategory == <<>>
NoPair == <<>>

Syncing ==
    [store: Stores, job: BOOLEAN, at: Category \cup {NoCategory}, new: BOOLEAN,
     written: SUBSET Category]

Linking ==
    [ref: Reference, tgt: Stores \ Reference,
     step: {"references", "targets", "read", "reread", "write"},
     refs: SUBSET Category, todo: SUBSET Pair, at: Pair \cup {NoPair},
     found: Types \cup {Absent}, gone: BOOLEAN, written: SUBSET Pair,
     old: SUBSET Category,    \* history: categories when the request began
     news: SUBSET Pair]       \* history: pairs that others have written since

Editing ==
    [op: {"create", "update"}, pair: Pair, type: Types,
     found: Types \cup {Absent}, gone: BOOLEAN]

Free(w) == sync[w] = Idle /\ link[w] = Idle /\ edit[w] = Idle

-----------------------------------------------------------------------------
(* Row locks *)

\* s waits for t to end: t has written the category that s is about to write.
Waits(s, t) ==
    /\ s # t /\ sync[s] # Idle /\ sync[t] # Idle
    /\ sync[s].at \in sync[t].written

\* s is one of a cycle of waiting transactions.
Deadlocked(s) ==
    \E D \in SUBSET Threads :
        /\ s \in D
        /\ \A t \in D : (\E r \in D : Waits(t, r)) /\ (\E r \in D : Waits(r, t))

\* An auto-link other than that of w has written the mapping of p.
Locked(w, p) == \E t \in Threads \ {w} : link[t] # Idle /\ p \in link[t].written

-----------------------------------------------------------------------------
Init ==
    /\ categories = {}
    /\ mapping = [p \in Pair |-> Absent]
    /\ sync = [w \in Threads |-> Idle]
    /\ link = [w \in Threads |-> Idle]
    /\ edit = [w \in Threads |-> Idle]

(* Synchronisation of the categories of a store *)

\* An operator's request, or a job that a worker has taken.
SyncStart(w, s, job) ==
    /\ Free(w)
    /\ sync' = [sync EXCEPT ![w] =
           [store |-> s, job |-> job, at |-> NoCategory, new |-> FALSE, written |-> {}]]
    /\ UNCHANGED <<categories, mapping, link, edit>>

Between(w) == sync[w] # Idle /\ sync[w].at = NoCategory
AtCategory(w) == sync[w] # Idle /\ sync[w].at # NoCategory

\* The next category of the shop is looked up by its name.  That the shop repeats
\* one that this transaction has written is left out: the row is updated again.
CategoryLookup(w, c) ==
    /\ Between(w)
    /\ c[1] = sync[w].store
    /\ c \notin sync[w].written
    /\ sync' = [sync EXCEPT ![w].at = c,
                            ![w].new = c \notin categories]
    /\ UNCHANGED <<categories, mapping, link, edit>>

\* upsert_category: insert, or update, which sets updated_at in any case.
CategoryWrite(w) ==
    /\ AtCategory(w)
    /\ \A t \in Threads : ~Waits(w, t)
    /\ sync[w].new => sync[w].at \notin categories
    /\ sync' = [sync EXCEPT ![w].at = NoCategory,
                            ![w].written = @ \cup {sync[w].at}]
    /\ UNCHANGED <<categories, mapping, link, edit>>

SyncEnd(w) == sync' = [sync EXCEPT ![w] = Idle] /\ UNCHANGED <<mapping, link, edit>>

SyncCommit(w) == SyncEnd(w) /\ categories' = categories \cup sync[w].written
SyncRollback(w) == SyncEnd(w) /\ UNCHANGED categories

SyncFinish(w) == Between(w) /\ SyncCommit(w)

\* The shop or a category raises an exception: the route rolls back, a worker
\* commits what has been written.
SyncFail(w) ==
    /\ Between(w)
    /\ IF sync[w].job THEN SyncCommit(w) ELSE SyncRollback(w)

\* Mutant: two syncs that wait for each other do so for ever.
CategoryWriteFailsConflict(w) ==
    /\ AtCategory(w)
    /\ \A t \in Threads : ~Waits(w, t)
    /\ sync[w].new /\ sync[w].at \in categories
    /\ SyncRollback(w)

\* The database refuses the write: the name has been entered meanwhile, or the
\* transaction is the victim of a deadlock.
CategoryWriteFails(w) ==
    /\ AtCategory(w)
    /\ \/ Deadlocked(w)
       \/ /\ \A t \in Threads : ~Waits(w, t)
          /\ sync[w].new /\ sync[w].at \in categories
    /\ SyncRollback(w)

-----------------------------------------------------------------------------
(* Auto-link of two stores *)

\* Mutant: the names as the shops write them are compared.
SameNameRaw(c, d) == c[2] = d[2] /\ Norm[c[2]] # NoNorm

\* Two categories whose normalized names are equal and not empty.
SameName(c, d) == Norm[c[2]] = Norm[d[2]] /\ Norm[c[2]] # NoNorm

LinkStart(w, r, t) ==
    /\ Free(w)
    /\ link' = [link EXCEPT ![w] =
           [ref |-> r, tgt |-> t, step |-> "references",
            refs |-> {}, todo |-> {}, at |-> NoPair, found |-> Absent,
            gone |-> FALSE, written |-> {}, old |-> categories, news |-> {}]]
    /\ UNCHANGED <<categories, mapping, sync, edit>>

Linked(w, step) == link[w] # Idle /\ link[w].step = step

OfStore(s) == {c \in categories : c[1] = s}

LinkReferences(w) ==
    /\ Linked(w, "references")
    /\ link' = [link EXCEPT ![w].step = "targets", ![w].refs = OfStore(link[w].ref)]
    /\ UNCHANGED <<categories, mapping, sync, edit>>

LinkTargets(w) ==
    /\ Linked(w, "targets")
    /\ link' = [link EXCEPT ![w].step = "read",
           ![w].todo = {p \in link[w].refs \X OfStore(link[w].tgt) : SameName(p[1], p[2])}]
    /\ UNCHANGED <<categories, mapping, sync, edit>>

\* p comes first in the alphabetical order of both lists.
IsFirst(p, S) ==
    /\ p \in S
    /\ \A q \in S : \/ p[1][2] < q[1][2]
                    \/ p[1][2] = q[1][2] /\ p[2][2] <= q[2][2]

\* Mutant: an existing mapping is not skipped.
LinkReadAll(w, p) ==
    /\ Linked(w, "read")
    /\ IsFirst(p, link[w].todo)
    /\ link' = [link EXCEPT ![w].todo = @ \ {p}, ![w].at = p, ![w].step = "reread"]
    /\ UNCHANGED <<categories, mapping, sync, edit>>

\* auto_link looks whether the pair is mapped and skips it if so.
LinkRead(w, p) ==
    /\ Linked(w, "read")
    /\ IsFirst(p, link[w].todo)
    /\ IF mapping[p] # Absent
       THEN link' = [link EXCEPT ![w].todo = @ \ {p}]
       ELSE link' = [link EXCEPT ![w].todo = @ \ {p}, ![w].at = p, ![w].step = "reread"]
    /\ UNCHANGED <<categories, mapping, sync, edit>>

\* create_category_mapping looks again.
LinkReread(w) ==
    /\ Linked(w, "reread")
    /\ link' = [link EXCEPT ![w].step = "write", ![w].gone = FALSE,
                            ![w].found = mapping[link[w].at]]
    /\ UNCHANGED <<categories, mapping, sync, edit>>

\* What the transaction of w that has read found may do to the row of p, which
\* may be gone since: insert it, leave it alone, or update it.
CanWrite(w, p, found, type, gone) ==
    \/ found = Absent /\ ~Locked(w, p) /\ mapping[p] = Absent
    \/ found = type
    \/ found \notin {Absent, type} /\ ~Locked(w, p) /\ ~gone

\* The row of p is there though it was not, or not any more.
CannotWrite(w, p, found, type, gone) ==
    \/ found = Absent /\ ~Locked(w, p) /\ mapping[p] # Absent
    \/ found \notin {Absent, type} /\ ~Locked(w, p) /\ gone

LinkWrite(w) ==
    LET l == link[w] IN
    /\ Linked(w, "write")
    /\ CanWrite(w, l.at, l.found, "exact", l.gone)
    /\ link' = [link EXCEPT ![w].step = "read", ![w].at = NoPair,
           ![w].written = IF l.found = "exact" THEN @ ELSE @ \cup {l.at}]
    /\ UNCHANGED <<categories, mapping, sync, edit>>

\* The row of p is deleted: an auto-link in progress may have seen it, and who is
\* about to update it will fail.
Tell(p) ==
    /\ link' = [t \in Threads |->
           IF link[t] = Idle THEN Idle
           ELSE [link[t] EXCEPT !.news = @ \cup {p},
                                !.gone = @ \/ link[t].at = p]]
    /\ edit' = [t \in Threads |->
           IF edit[t] = Idle THEN Idle
           ELSE [edit[t] EXCEPT !.gone = @ \/ edit[t].pair = p]]

LinkCommit(w) ==
    /\ Linked(w, "read")
    /\ link[w].todo = {}
    /\ mapping' = [p \in Pair |-> IF p \in link[w].written THEN "exact" ELSE mapping[p]]
    /\ link' = [t \in Threads |->
           IF t = w \/ link[t] = Idle THEN Idle
           ELSE [link[t] EXCEPT !.news = @ \cup link[w].written]]
    /\ UNCHANGED <<categories, sync, edit>>

LinkRollback(w) ==
    /\ link' = [link EXCEPT ![w] = Idle]
    /\ UNCHANGED <<categories, mapping, sync, edit>>

LinkWriteFails(w) ==
    /\ Linked(w, "write")
    /\ CannotWrite(w, link[w].at, link[w].found, "exact", link[w].gone)
    /\ LinkRollback(w)

-----------------------------------------------------------------------------
(* Mappings entered by operators *)

\* Mutant: the first category may be of any store.
LegalAnyReference(p) == p[1] \in categories /\ p[2] \in categories /\ p[2][1] \notin Reference

\* MappingService: a category of a reference store and one of another store.
Legal(p) ==
    /\ p[1] \in categories /\ p[2] \in categories
    /\ p[1][1] \in Reference /\ p[2][1] \notin Reference

EditStart(w, op, p, t) ==
    /\ Free(w)
    /\ edit' = [edit EXCEPT ![w] =
           [op |-> op, pair |-> p, type |-> t, found |-> mapping[p], gone |-> FALSE]]
    /\ UNCHANGED <<categories, mapping, sync, link>>

CreateRead(w, p, t) == Legal(p) /\ EditStart(w, "create", p, t)
UpdateRead(w, p, t) == mapping[p] # Absent /\ EditStart(w, "update", p, t)

Edits(w, op) == edit[w] # Idle /\ edit[w].op = op

EditEnd(w) ==
    /\ edit' = [edit EXCEPT ![w] = Idle]
    /\ UNCHANGED <<categories, mapping, sync, link>>

\* The mapping of p is committed with this type, which ends the request of w.
EditPublish(w, p, type) ==
    /\ mapping' = [mapping EXCEPT ![p] = type]
    /\ link' = [t \in Threads |->
           IF link[t] = Idle THEN Idle ELSE [link[t] EXCEPT !.news = @ \cup {p}]]
    /\ edit' = [edit EXCEPT ![w] = Idle]
    /\ UNCHANGED <<categories, sync>>

\* A new mapping, or a new type of an existing one, even no type.
CreateWrite(w) ==
    LET e == edit[w] IN
    /\ Edits(w, "create")
    /\ CanWrite(w, e.pair, e.found, e.type, e.gone)
    /\ IF e.found = e.type THEN EditEnd(w) ELSE EditPublish(w, e.pair, e.type)

CreateFails(w) ==
    LET e == edit[w] IN
    /\ Edits(w, "create")
    /\ CannotWrite(w, e.pair, e.found, e.type, e.gone)
    /\ EditEnd(w)

\* A type that is left out, or is the one that was read, is not written.
UpdateWrite(w) ==
    LET e == edit[w] IN
    /\ Edits(w, "update")
    /\ ~Locked(w, e.pair) /\ ~e.gone
    /\ EditPublish(w, e.pair,
                   IF e.type \in {"untyped", e.found} THEN mapping[e.pair] ELSE e.type)

UpdateFails(w) ==
    /\ Edits(w, "update")
    /\ ~Locked(w, edit[w].pair) /\ edit[w].gone
    /\ EditEnd(w)

\* One statement on one id.
DeleteMapping(w, p) ==
    /\ Free(w)
    /\ mapping[p] # Absent /\ ~Locked(w, p)
    /\ mapping' = [mapping EXCEPT ![p] = Absent]
    /\ Tell(p)
    /\ UNCHANGED <<categories, sync>>

-----------------------------------------------------------------------------
\* The process dies, or its connection breaks.
Crash(w) ==
    /\ ~Free(w)
    /\ sync' = [sync EXCEPT ![w] = Idle]
    /\ link' = [link EXCEPT ![w] = Idle]
    /\ edit' = [edit EXCEPT ![w] = Idle]
    /\ UNCHANGED <<categories, mapping>>

\* A request, once accepted, goes on.
Proceed(w) ==
    \/ \E c \in Category : CategoryLookup(w, c)
    \/ CategoryWrite(w) \/ SyncFinish(w) \/ SyncFail(w) \/ CategoryWriteFails(w)
    \/ LinkReferences(w) \/ LinkTargets(w)
    \/ \E p \in Pair : LinkRead(w, p)
    \/ LinkReread(w) \/ LinkWrite(w) \/ LinkCommit(w) \/ LinkWriteFails(w)
    \/ CreateWrite(w) \/ CreateFails(w) \/ UpdateWrite(w) \/ UpdateFails(w)

Accept(w) ==
    \/ \E s \in Stores, job \in BOOLEAN : SyncStart(w, s, job)
    \/ \E r \in Reference, t \in Stores \ Reference : LinkStart(w, r, t)
    \/ \E p \in Choices, t \in Entered : CreateRead(w, p, t) \/ UpdateRead(w, p, t)
    \/ \E p \in Pair : DeleteMapping(w, p)

Next == \E w \in Threads : Accept(w) \/ Proceed(w) \/ Crash(w)

Spec == Init /\ [][Next]_vars

\* Lists are finite, and who waits for a row is the next to get it when it is
\* released: the database queues for a row.
FairSpec == Spec /\ \A w \in Threads : SF_vars(Proceed(w))

-----------------------------------------------------------------------------
(* Properties *)

\* Type invariant: what the tables hold and what a request in progress knows,
\* with each thread serving one request (models.py:117-152).
TypeOK ==
    /\ categories \subseteq Category
    /\ mapping \in [Pair -> Types \cup {Absent}]
    /\ sync \in [Threads -> Syncing \cup {Idle}]
    /\ link \in [Threads -> Linking \cup {Idle}]
    /\ edit \in [Threads -> Editing \cup {Idle}]
    /\ \A w \in Threads :
           /\ sync[w] # Idle => link[w] = Idle /\ edit[w] = Idle
           /\ link[w] # Idle => edit[w] = Idle

\* Whoever creates a mapping, it leads from a category of a reference store to a
\* category of a store that is not one, and both exist
\* (mapping_service.py:29-40, category_matching_service.py:92-103).
MappingsLegal ==
    \A p \in Pair : mapping[p] # Absent =>
        /\ p[1] \in categories /\ p[2] \in categories
        /\ p[1][1] \in Reference /\ p[2][1] \notin Reference

\* auto_link changes no mapping that was there when it began and that nobody has
\* touched since (category_matching_service.py:126-140); it may overwrite one that
\* an operator enters while it runs.
LinkKeepsOlder ==
    [][\A w \in Threads : LinkCommit(w) =>
           \A p \in Pair :
               mapping[p] # Absent /\ mapping'[p] # mapping[p] => p \in link[w].news]_vars

\* A successful auto_link has mapped the pairs of categories that were there when it
\* began and have the same normalized name, those excepted that others wrote
\* meanwhile, and it changes no mapping of any other pair
\* (category_matching_service.py:51-56).
LinkFaithful ==
    [][\A w \in Threads : LinkCommit(w) =>
           \A p \in Pair :
               LET same == /\ p[1][1] = link[w].ref /\ p[2][1] = link[w].tgt
                           /\ Norm[p[1][2]] = Norm[p[2][2]] /\ Norm[p[1][2]] # NoNorm
               IN  /\ mapping'[p] # mapping[p] => same
                   /\ same /\ p[1] \in link[w].old /\ p[2] \in link[w].old
                           /\ p \notin link[w].news => mapping'[p] # Absent]_vars

\* Every request ends: no two syncs, auto-links and edits wait for each other for
\* ever (category_repository.py:42, 72).
RequestEnds == \A w \in Threads : ~Free(w) ~> Free(w)
=============================================================================
