------------------------------ MODULE PageCrawl ------------------------------
(***************************************************************************)
(* The crawls of the shop adapters and the page cache they share.  A       *)
(* synchronisation asks an adapter for the products of a category; the     *)
(* adapter reads the category page by page through HttpClient.safe_get,    *)
(* which answers from a file per address while the file is young and       *)
(* writes it again otherwise.  Workers and web threads share the files and *)
(* nothing locks them: a file is truncated when it is opened and grows in  *)
(* several writes.                                                         *)
(*                                                                         *)
(* A page is cut into chunks 1 .. LastChunk in the order they are written; *)
(* the menu stands in the first one, the pager in the last one, and every  *)
(* chunk has products.  A missing chunk is the end of a file not yet       *)
(* written, or the hole left when another writer truncated it.  What a     *)
(* page says does not change during a behaviour, and a file that was never *)
(* written is one that is too old.                                         *)
(***************************************************************************)
EXTENDS Integers, Sequences, FiniteSets

CONSTANTS
    Workers,         \* processes and threads that crawl
    Urls,            \* addresses
    NoPage,          \* the absence of a link
    Root,            \* the home page of the shop
    Sites,           \* possible shops: the pager of each address
    Dead,            \* addresses that have no page
    Numbered,        \* addresses of the form /category/<number>
    NotNumbered,     \* the address hockeyshans makes of any other one
    Found,           \* what the home page links to for a category address
    Matching,        \* products whose text holds the name of the category
    Menu,            \* links of the menu: [local, category], by address
    Jobs,            \* categories that each worker may crawl: [shop, start]
    MenuShops,       \* shops whose menu each worker may read
    LastChunk,       \* number of chunks of a page
    PageLimit,       \* max_pages of each adapter, scaled down
    TtlSeconds,      \* PARSER_CACHE_TTL_SECONDS, Unset or Garbled
    TtlDays,         \* PARSER_CACHE_MAX_AGE_DAYS, Unset or Garbled
    Unset, Garbled,  \* a setting that is absent, or not an integer
    SecondsPerDay,   \* 86400
    DefaultTtl       \* _DEFAULT_CACHE_TTL_SECONDS

Shops == {"hockeyshop", "hockeyworld", "prohockey", "hockeyshans"}
Chunks == 1 .. LastChunk
Products == Urls \X Chunks

AtLeastOne(n) == IF n < 1 THEN 1 ELSE n

\* The setting in seconds wins, then the one in days, then the default.
Ttl ==
    IF TtlSeconds \notin {Unset, Garbled} THEN AtLeastOne(TtlSeconds)
    ELSE IF TtlDays \notin {Unset, Garbled} THEN AtLeastOne(TtlDays * SecondsPerDay)
    ELSE DefaultTtl

-----------------------------------------------------------------------------
(* Pagers: sequences of [num, current, label, href], num 0 without a number *)

First(S) == CHOOSE i \in S : \A j \in S : i <= j
Last(S) == CHOOSE i \in S : \A j \in S : j <= i

Linked(p) == {i \in DOMAIN p : p[i].href # NoPage}

\* hockeyshop: the first later entry with a greater number than the current
\* page's.
NextByNumber(p) ==
    LET at == {i \in DOMAIN p : p[i].current}
        later == {i \in Linked(p) : i > First(at) /\ p[i].num > p[First(at)].num}
    IN  IF at = {} \/ p[First(at)].num = 0 \/ later = {} THEN NoPage
        ELSE p[First(later)].href

\* hockeyworld: the last link, if it says "forward".
NextByLastLink(p) ==
    IF Linked(p) # {} /\ p[Last(Linked(p))].label = "forward"
    THEN p[Last(Linked(p))].href ELSE NoPage

\* prohockey: the last entry, unless it is disabled.
NextByLastEntry(p) ==
    IF p # <<>> /\ p[Len(p)].label = "forward" THEN p[Len(p)].href ELSE NoPage

\* hockeyshans reads one page only.
NextPage(shop, p) ==
    CASE shop = "hockeyshop"  -> NextByNumber(p)
      [] shop = "hockeyworld" -> NextByLastLink(p)
      [] shop = "prohockey"   -> NextByLastEntry(p)
      [] OTHER                -> NoPage

ASSUME CrawlAssumption ==
    /\ LastChunk \in Nat \ {0}
    /\ PageLimit \in [Shops -> Nat \ {0}]
    /\ Ttl \in Nat \ {0}
    /\ {Root, NotNumbered} \cup Numbered \cup Dead \subseteq Urls
    /\ NoPage \notin Urls
    /\ NotNumbered \in Dead
    /\ Jobs \in [Workers -> SUBSET [shop : Shops, start : Urls]]
    /\ MenuShops \in [Workers -> SUBSET Shops]
    /\ Found \in [Urls -> Urls \cup {NoPage}]
    /\ Menu \in [Urls -> [local : BOOLEAN, category : BOOLEAN]]
    /\ Matching \subseteq Products

\* The links of a shop lead to addresses of the shop.
ASSUME LinksAssumption ==
    \A s \in Sites, u \in Urls, shop \in Shops :
        NextPage(shop, s[u]) \in Urls \cup {NoPage}

VARIABLES
    site,       \* the shop's pagers
    file,       \* chunks in the cache file of each address
    age,        \* time since the last write of each file, Ttl when too old
    spoiled,    \* history: the last opener of the file did not finish it
    step,       \* where each worker's safe_get or adapter is
    job,        \* category it crawls
    want,       \* what it reads the page for
    url,        \* page it reads
    got,        \* chunks of the response
    written,    \* chunks it has saved
    trail,      \* pages of the category it has visited, in order
    result,     \* products (or categories) found so far
    cut         \* history: it was refused, or served an incomplete page

cache == <<site, file, age, spoiled>>
crawl == <<step, job, want, url, got, written, trail, result, cut>>
vars == <<cache, crawl>>

Steps == {"idle", "check", "load", "request", "open", "write", "parse",
          "refused", "raised", "done"}
Wants == {"none", "menu", "find", "page", "single", "products", "pager"}
NoJob == [shop |-> "none", start |-> NoPage]

Init ==
    /\ site \in Sites
    /\ file = [u \in Urls |-> {}]
    /\ age = [u \in Urls |-> Ttl]
    /\ spoiled = [u \in Urls |-> FALSE]
    /\ step = [w \in Workers |-> "idle"]
    /\ job = [w \in Workers |-> NoJob]
    /\ want = [w \in Workers |-> "none"]
    /\ url = [w \in Workers |-> NoPage]
    /\ got = [w \in Workers |-> {}]
    /\ written = [w \in Workers |-> 0]
    /\ trail = [w \in Workers |-> <<>>]
    /\ result = [w \in Workers |-> {}]
    /\ cut = [w \in Workers |-> FALSE]

Tick ==
    /\ age' = [u \in Urls |-> IF age[u] < Ttl THEN age[u] + 1 ELSE Ttl]
    /\ UNCHANGED <<site, file, spoiled, crawl>>

-----------------------------------------------------------------------------
(* What a worker asks for *)

\* Worker w starts to read page u.
Fetch(w, u, purpose) ==
    /\ url' = [url EXCEPT ![w] = u]
    /\ want' = [want EXCEPT ![w] = purpose]
    /\ step' = [step EXCEPT ![w] = "check"]
    /\ got' = [got EXCEPT ![w] = {}]
    /\ written' = [written EXCEPT ![w] = 0]

\* get_products_by_category of hockeyshop and hockeyworld.
StartCrawl(w, j) ==
    /\ step[w] = "idle"
    /\ j.shop \in {"hockeyshop", "hockeyworld"}
    /\ job' = [job EXCEPT ![w] = j]
    /\ Fetch(w, j.start, "page")
    /\ trail' = [trail EXCEPT ![w] = <<j.start>>]
    /\ UNCHANGED <<cache, result, cut>>

\* prohockey looks for a link to the category on the home page first.
StartSearch(w, j) ==
    /\ step[w] = "idle"
    /\ j.shop = "prohockey"
    /\ job' = [job EXCEPT ![w] = j]
    /\ Fetch(w, Root, "find")
    /\ UNCHANGED <<cache, trail, result, cut>>

\* hockeyshans puts the number of the category, or else all of its address,
\* behind /category/.
SinglePage(u) == IF u \in Numbered THEN u ELSE NotNumbered

StartSingle(w, j) ==
    /\ step[w] = "idle"
    /\ j.shop = "hockeyshans"
    /\ job' = [job EXCEPT ![w] = j]
    /\ Fetch(w, SinglePage(j.start), "single")
    /\ trail' = [trail EXCEPT ![w] = <<SinglePage(j.start)>>]
    /\ UNCHANGED <<cache, result, cut>>

StartMenu(w, shop) ==
    /\ step[w] = "idle"
    /\ job' = [job EXCEPT ![w] = [shop |-> shop, start |-> Root]]
    /\ Fetch(w, Root, "menu")
    /\ UNCHANGED <<cache, trail, result, cut>>

-----------------------------------------------------------------------------
(* safe_get *)

Young(u) == age[u] < Ttl

CheckCache(w) ==
    /\ step[w] = "check"
    /\ step' = [step EXCEPT ![w] = IF Young(url[w]) THEN "load" ELSE "request"]
    /\ UNCHANGED <<cache, job, want, url, got, written, trail, result, cut>>

\* What another writer has left of the file by now is the page, unless the
\* file is empty ...
LoadPage(w) ==
    /\ step[w] = "load"
    /\ file[url[w]] # {}
    /\ got' = [got EXCEPT ![w] = file[url[w]]]
    /\ cut' = [cut EXCEPT ![w] = @ \/ file[url[w]] # Chunks]
    /\ step' = [step EXCEPT ![w] = "parse"]
    /\ UNCHANGED <<cache, job, want, url, written, trail, result>>

\* ... or cannot be read.
LoadNothing(w) ==
    /\ step[w] = "load"
    /\ step' = [step EXCEPT ![w] = "request"]
    /\ UNCHANGED <<cache, job, want, url, got, written, trail, result, cut>>

\* The shop answers 200 with the whole page, which is decoded.
Answer(w) ==
    /\ step[w] = "request"
    /\ url[w] \notin Dead
    /\ got' = [got EXCEPT ![w] = Chunks]
    /\ step' = [step EXCEPT ![w] = "open"]
    /\ UNCHANGED <<cache, job, want, url, written, trail, result, cut>>

\* No response after the retries, 400, 403 or 429 (None), or any other error
\* status, whose response counts as false.
Refuse(w) ==
    /\ step[w] = "request"
    /\ cut' = [cut EXCEPT ![w] = TRUE]
    /\ step' = [step EXCEPT ![w] = "refused"]
    /\ UNCHANGED <<cache, job, want, url, got, written, trail, result>>

\* open(..., 'wb') truncates the file under readers and other writers.
OpenFile(w) ==
    /\ step[w] = "open"
    /\ file' = [file EXCEPT ![url[w]] = {}]
    /\ age' = [age EXCEPT ![url[w]] = 0]
    /\ spoiled' = [spoiled EXCEPT ![url[w]] = FALSE]
    /\ step' = [step EXCEPT ![w] = "write"]
    /\ UNCHANGED <<site, job, want, url, got, written, trail, result, cut>>

\* Mutant: only the first write is made.
WriteFirst(w) ==
    /\ step[w] = "write"
    /\ file' = [file EXCEPT ![url[w]] = @ \cup {written[w] + 1}]
    /\ age' = [age EXCEPT ![url[w]] = 0]
    /\ written' = [written EXCEPT ![w] = @ + 1]
    /\ step' = [step EXCEPT ![w] = "parse"]
    /\ UNCHANGED <<site, spoiled, job, want, url, got, trail, result, cut>>

WriteChunk(w) ==
    /\ step[w] = "write"
    /\ file' = [file EXCEPT ![url[w]] = @ \cup {written[w] + 1}]
    /\ age' = [age EXCEPT ![url[w]] = 0]
    /\ written' = [written EXCEPT ![w] = @ + 1]
    /\ step' = [step EXCEPT ![w] = IF written[w] + 1 = LastChunk THEN "parse" ELSE "write"]
    /\ UNCHANGED <<site, spoiled, job, want, url, got, trail, result, cut>>

\* A failure to save is logged, and the response used all the same.
SaveFails(w) ==
    /\ step[w] \in {"open", "write"}
    /\ spoiled' = [spoiled EXCEPT ![url[w]] = @ \/ step[w] = "write"]
    /\ step' = [step EXCEPT ![w] = "parse"]
    /\ UNCHANGED <<site, file, age, job, want, url, got, written, trail, result, cut>>

-----------------------------------------------------------------------------
(* The adapters *)

RangeOf(s) == {s[i] : i \in DOMAIN s}

\* What the list of a crawl keeps: hockeyworld drops a product whose name and
\* address do not hold the name of the category.
Kept(shop, found) == IF shop = "hockeyworld" THEN found \cap Matching ELSE found

Finish(w, found) ==
    /\ step' = [step EXCEPT ![w] = "done"]
    /\ result' = [result EXCEPT ![w] = Kept(job[w].shop, found)]
    /\ url' = [url EXCEPT ![w] = NoPage]
    /\ got' = [got EXCEPT ![w] = {}]
    /\ written' = [written EXCEPT ![w] = 0]
    /\ UNCHANGED <<want, trail>>

\* Mutant: one page more than max_pages.
StopsOneLate(w, next) ==
    \/ next = NoPage
    \/ next \in RangeOf(trail[w])
    \/ Len(trail[w]) > PageLimit[job[w].shop]

\* Mutant: neither the pages visited nor their number ends the loop.
StopsLate(w, next) == next = NoPage

\* The loop over the pages stops without a link, at a page already visited,
\* and after max_pages.
Stops(w, next) ==
    \/ next = NoPage
    \/ next \in RangeOf(trail[w])
    \/ Len(trail[w]) = PageLimit[job[w].shop]

FirstWant(shop) == IF shop = "prohockey" THEN "products" ELSE "page"

Follow(w, found, next) ==
    IF Stops(w, next) THEN Finish(w, found)
    ELSE /\ Fetch(w, next, FirstWant(job[w].shop))
         /\ trail' = [trail EXCEPT ![w] = Append(@, next)]
         /\ result' = [result EXCEPT ![w] = found]

\* The link the adapter finds in what it has of the page.
PagerOf(w) ==
    IF LastChunk \in got[w] THEN NextPage(job[w].shop, site[url[w]]) ELSE NoPage

ProductsOf(w) == {url[w]} \X got[w]

\* hockeyshop and hockeyworld read a page once.
ReadPage(w) ==
    /\ want[w] = "page" /\ step[w] \in {"parse", "refused"}
    /\ IF step[w] = "parse" THEN Follow(w, result[w] \cup ProductsOf(w), PagerOf(w))
       ELSE Finish(w, result[w])
    /\ UNCHANGED <<cache, job, cut>>

\* hockeyshans reads one.
ReadSingle(w) ==
    /\ want[w] = "single" /\ step[w] \in {"parse", "refused"}
    /\ Finish(w, IF step[w] = "parse" THEN ProductsOf(w) ELSE {})
    /\ UNCHANGED <<cache, job, cut>>

\* prohockey reads it for the products, and goes on without them ...
ReadProducts(w) ==
    /\ want[w] = "products" /\ step[w] \in {"parse", "refused"}
    /\ result' = [result EXCEPT ![w] =
           IF step[w] = "parse" THEN @ \cup ProductsOf(w) ELSE @]
    /\ Fetch(w, url[w], "pager")
    /\ UNCHANGED <<cache, job, trail, cut>>

\* ... and again for the pager.
ReadPager(w) ==
    /\ want[w] = "pager" /\ step[w] \in {"parse", "refused"}
    /\ IF step[w] = "parse" THEN Follow(w, result[w], PagerOf(w))
       ELSE Finish(w, result[w])
    /\ UNCHANGED <<cache, job, cut>>

\* A link on the home page, if it was read and has one, replaces the address.
BaseOf(w) ==
    IF step[w] = "parse" /\ 1 \in got[w] /\ Found[job[w].start] # NoPage
    THEN Found[job[w].start] ELSE job[w].start

FindCategory(w) ==
    /\ want[w] = "find" /\ step[w] \in {"parse", "refused"}
    /\ Fetch(w, BaseOf(w), "products")
    /\ trail' = [trail EXCEPT ![w] = <<BaseOf(w)>>]
    /\ UNCHANGED <<cache, job, result, cut>>

\* Links of the menu to categories of the same host.
Categories == {u \in Urls : Menu[u].local /\ Menu[u].category}

EndMenu(w, ending) ==
    /\ step' = [step EXCEPT ![w] = ending]
    /\ result' = [result EXCEPT ![w] =
           IF step[w] = "parse" /\ 1 \in got[w] THEN Categories ELSE {}]
    /\ url' = [url EXCEPT ![w] = NoPage]
    /\ got' = [got EXCEPT ![w] = {}]
    /\ written' = [written EXCEPT ![w] = 0]
    /\ UNCHANGED <<cache, job, want, trail, cut>>

\* get_categories of hockeyworld and prohockey: without a response or a menu
\* there are no categories.
ReadMenu(w) ==
    /\ want[w] = "menu" /\ step[w] \in {"parse", "refused"}
    /\ job[w].shop \in {"hockeyworld", "prohockey"}
    /\ EndMenu(w, "done")

\* hockeyshop and hockeyshans raise when the page has no menu.
ReadNeededMenu(w) ==
    /\ want[w] = "menu" /\ step[w] \in {"parse", "refused"}
    /\ job[w].shop \in {"hockeyshop", "hockeyshans"}
    /\ EndMenu(w, IF step[w] = "parse" /\ 1 \notin got[w] THEN "raised" ELSE "done")

Forget(w) ==
    /\ step' = [step EXCEPT ![w] = "idle"]
    /\ job' = [job EXCEPT ![w] = NoJob]
    /\ want' = [want EXCEPT ![w] = "none"]
    /\ url' = [url EXCEPT ![w] = NoPage]
    /\ got' = [got EXCEPT ![w] = {}]
    /\ written' = [written EXCEPT ![w] = 0]
    /\ trail' = [trail EXCEPT ![w] = <<>>]
    /\ result' = [result EXCEPT ![w] = {}]
    /\ cut' = [cut EXCEPT ![w] = FALSE]

\* The synchronisation takes the list, or the exception.
Return(w) ==
    /\ step[w] \in {"done", "raised"}
    /\ Forget(w)
    /\ UNCHANGED cache

\* The process ends, perhaps between two writes.
Crash(w) ==
    /\ step[w] # "idle"
    /\ spoiled' = [u \in Urls |-> spoiled[u] \/ (step[w] = "write" /\ url[w] = u)]
    /\ Forget(w)
    /\ UNCHANGED <<site, file, age>>

Proceed(w) ==
    \/ CheckCache(w) \/ LoadPage(w) \/ LoadNothing(w)
    \/ Answer(w) \/ Refuse(w)
    \/ OpenFile(w) \/ WriteChunk(w) \/ SaveFails(w)
    \/ ReadPage(w) \/ ReadSingle(w) \/ ReadProducts(w) \/ ReadPager(w)
    \/ FindCategory(w) \/ ReadMenu(w) \/ ReadNeededMenu(w) \/ Return(w)

Next ==
    \/ \E w \in Workers :
          \/ \E j \in Jobs[w] :
                StartCrawl(w, j) \/ StartSearch(w, j) \/ StartSingle(w, j)
          \/ \E shop \in MenuShops[w] : StartMenu(w, shop)
          \/ Proceed(w)
          \/ Crash(w)
    \/ Tick

Spec == Init /\ [][Next]_vars

-----------------------------------------------------------------------------
(* Properties *)

\* Every variable has its type.
TypeOK ==
    /\ site \in Sites
    /\ file \in [Urls -> SUBSET Chunks]
    /\ age \in [Urls -> 0 .. Ttl]
    /\ spoiled \in [Urls -> BOOLEAN]
    /\ step \in [Workers -> Steps]
    /\ job \in [Workers -> [shop : Shops, start : Urls] \cup {NoJob}]
    /\ want \in [Workers -> Wants]
    /\ url \in [Workers -> Urls \cup {NoPage}]
    /\ got \in [Workers -> SUBSET Chunks]
    /\ written \in [Workers -> 0 .. LastChunk]
    /\ trail \in [Workers -> Seq(Urls)]
    /\ result \in [Workers -> SUBSET (Products \cup Urls)]
    /\ cut \in [Workers -> BOOLEAN]

Writing(w, u) == step[w] = "write" /\ url[w] = u

\* The cache settles (_save_to_cache without lock or rename): however writers
\* of one page overlap, the file is whole once none of them is at work, unless
\* one was stopped between two writes after the file was last opened.
CacheSettles ==
    \A u \in Urls :
        file[u] \in {{}, Chunks} \/ spoiled[u] \/ \E w \in Workers : Writing(w, u)

\* The path of links from p[1], to its end, to a page it has been to, or to
\* the limit of the adapter.
IsPath(p, shop) ==
    /\ Len(p) \in 1 .. PageLimit[shop]
    /\ \A i \in 1 .. Len(p) - 1 : p[i + 1] = NextPage(shop, site[p[i]])
    /\ \A i, j \in DOMAIN p : p[i] = p[j] => i = j
    /\ \/ Len(p) = PageLimit[shop]
       \/ NextPage(shop, site[p[Len(p)]]) \in RangeOf(p) \cup {NoPage}

Expected(j) ==
    CASE j.shop = "prohockey" /\ Found[j.start] # NoPage -> Found[j.start]
      [] j.shop = "hockeyshans" -> SinglePage(j.start)
      [] OTHER -> j.start

\* A crawl that no refusal and no incomplete cache file has cut short, whatever
\* other crawls did to the cache meanwhile, returns the products of all pages
\* on the path from the category, each page once (the loops of scrape_url and
\* scrape_category over safe_get); a menu so read gives all its categories.
CrawlWhole ==
    \A w \in Workers : step[w] \in {"done", "raised"} /\ ~cut[w] =>
        /\ step[w] = "done"
        /\ want[w] = "menu" => result[w] = Categories
        /\ want[w] # "menu" =>
               /\ IsPath(trail[w], job[w].shop)
               /\ trail[w][1] = Expected(job[w])
               /\ result[w] = Kept(job[w].shop, RangeOf(trail[w]) \X Chunks)

\* What is left of a call: pages, readings of the page, steps, writes.
PagesLeft(w) ==
    IF want[w] \in {"menu", "find"} THEN PageLimit[job[w].shop]
    ELSE IF Len(trail[w]) < PageLimit[job[w].shop]
    THEN PageLimit[job[w].shop] - Len(trail[w]) ELSE 0

ReadingsLeft(w) ==
    CASE want[w] \in {"menu", "find"} -> 2
      [] want[w] = "products" -> 1
      [] OTHER -> 0

StepsLeft(w) ==
    CASE step[w] = "check" -> 7   [] step[w] = "load" -> 6
      [] step[w] = "request" -> 5 [] step[w] = "open" -> 4
      [] step[w] = "write" -> 3   [] step[w] \in {"parse", "refused"} -> 2
      [] step[w] \in {"done", "raised"} -> 1
      [] OTHER -> 0

Left(w) == <<PagesLeft(w), ReadingsLeft(w), StepsLeft(w), LastChunk - written[w]>>

\* Less in the first number that differs.
Less(a, b) ==
    \E i \in 1 .. 4 : a[i] < b[i] /\ \A k \in 1 .. i - 1 : a[k] = b[k]

\* Every step of a call leaves less of it to do, in an order of tuples of
\* natural numbers: no cycle of pagers, expired or broken cache files, refusals
\* or other crawls make a call of an adapter run for ever.
CrawlAdvances ==
    [][\A w \in Workers : Proceed(w) /\ step'[w] # "idle" =>
           Less(Left(w)', Left(w)) /\ \A i \in 1 .. 4 : Left(w)'[i] >= 0]_vars
=============================================================================
