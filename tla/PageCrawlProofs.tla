--------------------------- MODULE PageCrawlProofs ---------------------------
(***************************************************************************)
(* Theorems about PageCrawl for any shops, pagers, addresses, limits and   *)
(* number of workers.                                                      *)
(***************************************************************************)
EXTENDS PageCrawl, SequenceTheorems, TLAPS

-----------------------------------------------------------------------------
(* The inductive invariant *)

Crawl == [shop : Shops, start : Urls]

\* Steps at which a worker has a page to read.
Reading == {"check", "load", "request", "open", "write", "parse", "refused"}

\* Worker w follows the pages of a category.
Walking(w) == want[w] \in {"page", "single", "products", "pager"}

\* The pages before the last one.
Before(s) == {s[i] : i \in 1 .. Len(s) - 1}

\* What belongs to each step.
StepOk(w) ==
    /\ step[w] = "idle" =>
           want[w] = "none" /\ trail[w] = <<>> /\ result[w] = {} /\ cut[w] = FALSE
    /\ step[w] # "idle" => job[w] \in Crawl /\ want[w] # "none"
    /\ step[w] \in Reading => url[w] \in Urls
    /\ step[w] \in {"check", "load", "request", "open"} => written[w] = 0
    /\ step[w] = "write" => written[w] < LastChunk

\* What belongs to each adapter.
ShopOk(w) ==
    /\ want[w] = "page" => job[w].shop \in {"hockeyshop", "hockeyworld"}
    /\ want[w] = "single" => job[w].shop = "hockeyshans"
    /\ want[w] \in {"find", "products", "pager"} => job[w].shop = "prohockey"

\* The trail is a path of links without repetitions, within the limit.
TrailOk(w) ==
    Walking(w) =>
        /\ Len(trail[w]) \in 1 .. PageLimit[job[w].shop]
        /\ want[w] = "single" => Len(trail[w]) = 1
        /\ step[w] \in Reading => url[w] = trail[w][Len(trail[w])]
        /\ \A i \in 1 .. Len(trail[w]) - 1 :
              trail[w][i + 1] = NextPage(job[w].shop, site[trail[w][i]])
        /\ \A i, j \in DOMAIN trail[w] : trail[w][i] = trail[w][j] => i = j

\* What a crawl that was not cut short has so far.
FoundOk(w) ==
    ~cut[w] =>
        /\ step[w] \in {"open", "write", "parse"} => got[w] = Chunks
        /\ step[w] # "refused"
        /\ Walking(w) => trail[w][1] = Expected(job[w])
        /\ step[w] \in Reading =>
               /\ want[w] = "find" => result[w] = {}
               /\ want[w] \in {"page", "products"} => result[w] = Before(trail[w]) \X Chunks
               /\ want[w] = "pager" => result[w] = RangeOf(trail[w]) \X Chunks

\* What it returns.
DoneOk(w) ==
    step[w] \in {"done", "raised"} /\ ~cut[w] =>
        /\ step[w] = "done"
        /\ want[w] = "menu" => result[w] = Categories
        /\ want[w] # "menu" =>
               /\ IsPath(trail[w], job[w].shop)
               /\ trail[w][1] = Expected(job[w])
               /\ result[w] = Kept(job[w].shop, RangeOf(trail[w]) \X Chunks)

WorkerOk(w) == StepOk(w) /\ ShopOk(w) /\ TrailOk(w) /\ FoundOk(w) /\ DoneOk(w)

\* A chunk is missing only if a writer still has to write it, unless the file
\* was never opened, or its last opener was stopped.
Settled(u) ==
    \/ file[u] = {} /\ \A w \in Workers : ~Writing(w, u)
    \/ spoiled[u]
    \/ \A j \in Chunks \ file[u] : \E w \in Workers : Writing(w, u) /\ written[w] < j

IInv ==
    /\ TypeOK
    /\ \A w \in Workers : WorkerOk(w)
    /\ \A u \in Urls : Settled(u)

-----------------------------------------------------------------------------
(* Constants *)

LEMMA Constant ==
    /\ LastChunk \in Nat \ {0} /\ 1 \in Chunks /\ LastChunk \in Chunks
    /\ \A shop \in Shops : PageLimit[shop] \in Nat \ {0}
    /\ Ttl \in Nat \ {0} /\ Root \in Urls /\ NoPage \notin Urls
    /\ \A u \in Urls : SinglePage(u) \in Urls
    /\ \A u \in Urls : Found[u] \in Urls \cup {NoPage}
    /\ Categories \subseteq Urls
  BY CrawlAssumption DEF Chunks, SinglePage, Categories

\* Every link of a pager is an address.
LEMMA Links ==
    ASSUME TypeOK, NEW u \in Urls, NEW shop \in Shops
    PROVE  NextPage(shop, site[u]) \in Urls \cup {NoPage}
  BY LinksAssumption DEF TypeOK

-----------------------------------------------------------------------------
(* Sequences *)

LEMMA RangeBefore ==
    ASSUME NEW s \in Seq(Urls), Len(s) >= 1
    PROVE  RangeOf(s) = Before(s) \cup {s[Len(s)]}
  <1>1. DOMAIN s = 1 .. Len(s) /\ Len(s) \in Nat
    BY LenProperties
  <1>2. \A i : i \in 1 .. Len(s) <=> i \in 1 .. Len(s) - 1 \/ i = Len(s)
    BY <1>1
  <1> QED BY <1>1, <1>2, Zenon DEF RangeOf, Before

LEMMA BeforeAppend ==
    ASSUME NEW s \in Seq(Urls), NEW x \in Urls
    PROVE  /\ Append(s, x) \in Seq(Urls)
           /\ Len(Append(s, x)) = Len(s) + 1
           /\ Append(s, x)[Len(s) + 1] = x
           /\ \A i \in 1 .. Len(s) : Append(s, x)[i] = s[i]
           /\ Before(Append(s, x)) = RangeOf(s)
  <1>1. /\ Append(s, x) \in Seq(Urls)
        /\ Len(Append(s, x)) = Len(s) + 1
        /\ Append(s, x)[Len(s) + 1] = x
        /\ \A i \in 1 .. Len(s) : Append(s, x)[i] = s[i]
    BY AppendProperties
  <1>2. DOMAIN s = 1 .. Len(s) /\ Len(s) \in Nat
    BY LenProperties
  <1> QED BY <1>1, <1>2 DEF RangeOf, Before

-----------------------------------------------------------------------------
(* A step concerns one worker *)

Starts(w) ==
    \/ \E j \in Jobs[w] : StartCrawl(w, j) \/ StartSearch(w, j) \/ StartSingle(w, j)
    \/ \E shop \in MenuShops[w] : StartMenu(w, shop)

Saves(w) == OpenFile(w) \/ WriteChunk(w) \/ SaveFails(w)

\* Worker w neither begins nor continues nor stops to write.
Elsewhere(w) ==
    /\ step[w] # "write" /\ step'[w] # "write"
    /\ UNCHANGED <<file, spoiled>>

\* Worker v is not concerned.
Same(v) ==
    /\ step'[v] = step[v] /\ job'[v] = job[v] /\ want'[v] = want[v]
    /\ url'[v] = url[v] /\ got'[v] = got[v] /\ written'[v] = written[v]
    /\ trail'[v] = trail[v] /\ result'[v] = result[v] /\ cut'[v] = cut[v]

LEMMA SameOk ==
    ASSUME NEW v \in Workers, WorkerOk(v), Same(v), UNCHANGED site
    PROVE  WorkerOk(v)'
  <1> USE DEF Same
  <1>1. StepOk(v)' /\ ShopOk(v)'
    BY DEF WorkerOk, StepOk, ShopOk
  <1>2. Walking(v)' <=> Walking(v)
    BY DEF Walking
  <1>3. TrailOk(v)'
    BY <1>2 DEF WorkerOk, TrailOk
  <1>4. FoundOk(v)'
    BY <1>2 DEF WorkerOk, FoundOk
  <1>5. IsPath(trail[v], job[v].shop)' <=> IsPath(trail[v], job[v].shop)
    BY DEF IsPath
  <1>6. DoneOk(v)'
    BY <1>5 DEF WorkerOk, DoneOk
  <1> QED BY <1>1, <1>3, <1>4, <1>6 DEF WorkerOk

\* The functions of the workers change at w only.
Local(w) ==
    /\ step' = [step EXCEPT ![w] = step'[w]]
    /\ job' = [job EXCEPT ![w] = job'[w]]
    /\ want' = [want EXCEPT ![w] = want'[w]]
    /\ url' = [url EXCEPT ![w] = url'[w]]
    /\ got' = [got EXCEPT ![w] = got'[w]]
    /\ written' = [written EXCEPT ![w] = written'[w]]
    /\ trail' = [trail EXCEPT ![w] = trail'[w]]
    /\ result' = [result EXCEPT ![w] = result'[w]]
    /\ cut' = [cut EXCEPT ![w] = cut'[w]]
    /\ UNCHANGED site

\* The types of what worker w has.
Typed(w) ==
    /\ step[w] \in Steps /\ job[w] \in Crawl \cup {NoJob} /\ want[w] \in Wants
    /\ url[w] \in Urls \cup {NoPage} /\ got[w] \in SUBSET Chunks
    /\ written[w] \in 0 .. LastChunk /\ trail[w] \in Seq(Urls)
    /\ result[w] \in SUBSET (Products \cup Urls) /\ cut[w] \in BOOLEAN

CacheTyped ==
    /\ file \in [Urls -> SUBSET Chunks]
    /\ age \in [Urls -> 0 .. Ttl]
    /\ spoiled \in [Urls -> BOOLEAN]

LEMMA LocalOk ==
    ASSUME TypeOK, NEW w \in Workers, \A v \in Workers : WorkerOk(v), Local(w),
           Typed(w)', CacheTyped', WorkerOk(w)'
    PROVE  TypeOK' /\ \A v \in Workers : WorkerOk(v)'
  <1>1. \A v \in Workers \ {w} : Same(v)
    BY DEF TypeOK, Local, Same
  <1>2. \A v \in Workers : WorkerOk(v)'
    BY <1>1, SameOk DEF Local
  <1>3. TypeOK'
    BY DEF TypeOK, Local, Typed, CacheTyped, Crawl
  <1> QED BY <1>2, <1>3

LEMMA AllTyped ==
    ASSUME TypeOK, NEW w \in Workers
    PROVE  Typed(w) /\ CacheTyped
  BY DEF TypeOK, Typed, CacheTyped, Crawl

-----------------------------------------------------------------------------
(* Reading through the cache *)

\* What a step of w must establish.
Keeps(w) == Local(w) /\ Typed(w)' /\ CacheTyped' /\ WorkerOk(w)'

\* A step of safe_get leaves the call as it is.
LEMMA Served ==
    ASSUME TypeOK, NEW w \in Workers, WorkerOk(w), Local(w), Typed(w)', CacheTyped',
           step[w] \in Reading, step'[w] \in Reading,
           job'[w] = job[w], want'[w] = want[w], url'[w] = url[w],
           trail'[w] = trail[w], result'[w] = result[w],
           ~cut'[w] => ~cut[w],
           step'[w] \in {"check", "load", "request", "open"} => written'[w] = 0,
           step'[w] = "write" => written'[w] < LastChunk,
           ~cut'[w] /\ step'[w] \in {"open", "write", "parse"} => got'[w] = Chunks,
           ~cut'[w] => step'[w] # "refused"
    PROVE  Keeps(w)
  <1>1. StepOk(w)' /\ ShopOk(w)'
    BY DEF WorkerOk, StepOk, ShopOk, Reading
  <1>2. Walking(w)' <=> Walking(w)
    BY DEF Walking
  <1>3. TrailOk(w)'
    BY <1>2 DEF WorkerOk, TrailOk, Local
  <1>4. FoundOk(w)'
    BY <1>2 DEF WorkerOk, FoundOk
  <1>5. DoneOk(w)'
    BY DEF DoneOk, Reading
  <1> QED BY <1>1, <1>3, <1>4, <1>5 DEF WorkerOk, Keeps

LEMMA ReadStep ==
    ASSUME TypeOK, NEW w \in Workers, WorkerOk(w),
           CheckCache(w) \/ LoadPage(w) \/ LoadNothing(w) \/ Answer(w) \/ Refuse(w)
    PROVE  Keeps(w) /\ Elsewhere(w)
  <1> USE Constant, AllTyped DEF WorkerOk, StepOk, FoundOk, Reading, Elsewhere
  <1>1. url[w] \in Urls /\ step[w] \in Reading /\ UNCHANGED <<cache, job, want, url, trail, result>>
    BY DEF CheckCache, LoadPage, LoadNothing, Answer, Refuse
  <1>2. CacheTyped'
    BY <1>1 DEF cache, CacheTyped
  <1>3. CASE CheckCache(w)
    <2>1. Local(w) /\ Typed(w)'
      BY <1>3 DEF CheckCache, cache, Local, Typed, TypeOK, Steps
    <2>2. /\ step'[w] \in {"load", "request"} /\ written'[w] = written[w]
          /\ step[w] = "check" /\ cut'[w] = cut[w]
      BY <1>3 DEF CheckCache, TypeOK
    <2> QED BY <1>1, <1>2, <2>1, <2>2, Served DEF cache
  <1>4. CASE LoadPage(w)
    <2>1. Local(w) /\ Typed(w)'
      BY <1>1, <1>4 DEF LoadPage, cache, Local, Typed, TypeOK, Steps
    <2>2. /\ step'[w] = "parse" /\ step[w] = "load"
          /\ cut'[w] = (cut[w] \/ file[url[w]] # Chunks) /\ got'[w] = file[url[w]]
      BY <1>4 DEF LoadPage, TypeOK
    <2> QED BY <1>1, <1>2, <2>1, <2>2, Served DEF cache
  <1>5. CASE LoadNothing(w)
    <2>1. Local(w) /\ Typed(w)'
      BY <1>5 DEF LoadNothing, cache, Local, Typed, TypeOK, Steps
    <2>2. /\ step'[w] = "request" /\ written'[w] = written[w]
          /\ step[w] = "load" /\ cut'[w] = cut[w]
      BY <1>5 DEF LoadNothing, TypeOK
    <2> QED BY <1>1, <1>2, <2>1, <2>2, Served DEF cache
  <1>6. CASE Answer(w)
    <2>1. Local(w) /\ Typed(w)'
      BY <1>6 DEF Answer, cache, Local, Typed, TypeOK, Steps
    <2>2. /\ step'[w] = "open" /\ step[w] = "request" /\ cut'[w] = cut[w]
          /\ got'[w] = Chunks /\ written'[w] = written[w]
      BY <1>6 DEF Answer, TypeOK
    <2> QED BY <1>1, <1>2, <2>1, <2>2, Served DEF cache
  <1>7. CASE Refuse(w)
    <2>1. Local(w) /\ Typed(w)'
      BY <1>7 DEF Refuse, cache, Local, Typed, TypeOK, Steps
    <2>2. step'[w] = "refused" /\ step[w] = "request" /\ cut'[w] = TRUE
      BY <1>7 DEF Refuse, TypeOK
    <2> QED BY <1>1, <1>2, <2>1, <2>2, Served DEF cache
  <1> QED BY <1>3, <1>4, <1>5, <1>6, <1>7

LEMMA SaveStep ==
    ASSUME TypeOK, NEW w \in Workers, WorkerOk(w), Saves(w)
    PROVE  Keeps(w)
  <1> USE Constant, AllTyped DEF WorkerOk, StepOk, FoundOk, Reading
  <1>1. /\ url[w] \in Urls /\ step[w] \in {"open", "write"}
        /\ UNCHANGED <<site, job, want, url, got, trail, result, cut>>
    BY DEF Saves, OpenFile, WriteChunk, SaveFails
  <1>0. /\ url'[w] = url[w] /\ job'[w] = job[w] /\ want'[w] = want[w]
        /\ trail'[w] = trail[w] /\ result'[w] = result[w] /\ cut'[w] = cut[w]
        /\ ~cut'[w] => got'[w] = Chunks
    BY <1>1
  <1>2. CASE OpenFile(w)
    <2>1. Local(w) /\ Typed(w)'
      BY <1>2 DEF OpenFile, Local, Typed, TypeOK, Steps
    <2>2. CacheTyped'
      BY <1>1, <1>2 DEF OpenFile, CacheTyped
    <2>3. step'[w] = "write" /\ written'[w] = 0 /\ 0 < LastChunk
      BY <1>1, <1>2 DEF OpenFile, TypeOK
    <2> HIDE DEF WorkerOk, StepOk, FoundOk
    <2> QED BY <1>0, <1>1, <2>1, <2>2, <2>3, Served DEF Keeps
  <1>3. CASE WriteChunk(w)
    <2>1. written[w] \in Nat /\ written[w] < LastChunk /\ written[w] + 1 \in Chunks
      BY <1>3 DEF WriteChunk, Typed, Chunks
    <2>2. Local(w) /\ Typed(w)'
      BY <1>3, <2>1 DEF WriteChunk, Local, Typed, TypeOK, Steps, Chunks
    <2>3. CacheTyped'
      BY <1>1, <1>3, <2>1 DEF WriteChunk, CacheTyped
    <2>4. /\ step'[w] = IF written[w] + 1 = LastChunk THEN "parse" ELSE "write"
          /\ written'[w] = written[w] + 1
      BY <1>3 DEF WriteChunk, TypeOK
    <2>5. /\ step'[w] \in {"write", "parse"}
          /\ step'[w] = "write" => written'[w] < LastChunk
      BY <2>1, <2>4
    <2> HIDE DEF WorkerOk, StepOk, FoundOk
    <2> QED BY <1>0, <1>1, <2>2, <2>3, <2>5, Served
  <1>4. CASE SaveFails(w)
    <2>1. Local(w) /\ Typed(w)'
      BY <1>4 DEF SaveFails, Local, Typed, TypeOK, Steps
    <2>2. CacheTyped'
      BY <1>1, <1>4 DEF SaveFails, CacheTyped
    <2>3. step'[w] = "parse"
      BY <1>4 DEF SaveFails, TypeOK
    <2> QED BY <1>0, <1>1, <2>1, <2>2, <2>3, Served DEF Keeps
  <1> QED BY <1>2, <1>3, <1>4 DEF Saves

-----------------------------------------------------------------------------
(* The files *)

\* Who is not writing, before and after, changes no file's state.
LEMMA ElsewhereSettled ==
    ASSUME TypeOK, NEW w \in Workers, Local(w), Elsewhere(w), NEW u \in Urls, Settled(u)
    PROVE  Settled(u)'
  <1>1. \A v \in Workers : Writing(v, u)' <=> Writing(v, u)
    BY DEF TypeOK, Local, Elsewhere, Writing
  <1>2. \A v \in Workers : Writing(v, u) => written'[v] = written[v]
    BY DEF TypeOK, Local, Elsewhere, Writing
  <1> QED BY <1>1, <1>2 DEF Settled, Elsewhere

LEMMA SaveSettled ==
    ASSUME TypeOK, NEW w \in Workers, WorkerOk(w), Saves(w), NEW u \in Urls, Settled(u)
    PROVE  Settled(u)'
  <1>1. url[w] \in Urls /\ UNCHANGED url
    BY DEF Saves, OpenFile, WriteChunk, SaveFails, WorkerOk, StepOk, Reading
  <1>2. \A v \in Workers \ {w} : /\ Writing(v, u)' <=> Writing(v, u)
                                 /\ written'[v] = written[v]
    BY <1>1 DEF TypeOK, Saves, OpenFile, WriteChunk, SaveFails, Writing
  <1>3. CASE u # url[w]
    <2>1. ~Writing(w, u) /\ ~Writing(w, u)'
      BY <1>1, <1>3 DEF Writing
    <2>2. file'[u] = file[u] /\ spoiled'[u] = spoiled[u]
      BY <1>1, <1>3 DEF TypeOK, Saves, OpenFile, WriteChunk, SaveFails
    <2> QED BY <1>2, <2>1, <2>2 DEF Settled
  <1>4. CASE u = url[w] /\ OpenFile(w)
    <2>1. Writing(w, u)'
      BY <1>1, <1>4 DEF TypeOK, OpenFile, Writing
    <2>2. written'[w] = 0
      BY <1>4 DEF OpenFile, WorkerOk, StepOk
    <2>3. \A j \in Chunks : 0 < j
      BY DEF Chunks
    <2> QED BY <2>1, <2>2, <2>3 DEF Settled
  <1>5. CASE u = url[w] /\ WriteChunk(w)
    <2>1. Writing(w, u) /\ written[w] \in Nat /\ written'[w] = written[w] + 1
      BY <1>5 DEF TypeOK, WriteChunk, Writing
    <2>2. /\ file'[u] = file[u] \cup {written[w] + 1}
          /\ spoiled'[u] = spoiled[u]
      BY <1>5 DEF TypeOK, WriteChunk
    <2>3. CASE spoiled[u]
      BY <2>2, <2>3 DEF Settled
    <2>4. ASSUME ~spoiled[u], NEW j \in Chunks \ file'[u]
          PROVE  \E v \in Workers : Writing(v, u)' /\ written'[v] < j
      <3>1. PICK v \in Workers : Writing(v, u) /\ written[v] < j
        BY <2>1, <2>2, <2>4 DEF Settled
      <3>2. CASE v # w
        BY <1>2, <3>1, <3>2
      <3>3. CASE v = w
        <4>1. written[w] + 1 < j /\ j <= LastChunk
          BY <2>1, <2>2, <2>4, <3>1, <3>3 DEF Chunks
        <4>2. step'[w] = "write"
          BY <1>5, <2>1, <4>1, Constant DEF TypeOK, WriteChunk, Chunks
        <4> QED BY <1>1, <1>5, <2>1, <4>1, <4>2 DEF Writing
      <3> QED BY <3>2, <3>3
    <2> QED BY <2>3, <2>4 DEF Settled
  <1>6. CASE u = url[w] /\ SaveFails(w)
    <2>1. file' = file /\ ~Writing(w, u)'
      BY <1>6 DEF TypeOK, SaveFails, Writing
    <2>2. CASE step[w] = "write"
      BY <1>6, <2>2 DEF TypeOK, SaveFails, Settled
    <2>3. CASE step[w] # "write"
      <3>1. spoiled'[u] = spoiled[u] /\ ~Writing(w, u)
        BY <1>6, <2>3 DEF TypeOK, SaveFails, Writing
      <3> QED BY <1>2, <2>1, <3>1 DEF Settled
    <2> QED BY <2>2, <2>3
  <1> QED BY <1>3, <1>4, <1>5, <1>6 DEF Saves

LEMMA CrashSettled ==
    ASSUME TypeOK, NEW w \in Workers, Crash(w), NEW u \in Urls, Settled(u)
    PROVE  Settled(u)'
  <1>1. /\ file' = file /\ ~Writing(w, u)'
        /\ spoiled'[u] = (spoiled[u] \/ Writing(w, u))
    BY DEF TypeOK, Crash, Forget, Writing
  <1>2. \A v \in Workers \ {w} : /\ Writing(v, u)' <=> Writing(v, u)
                                 /\ written'[v] = written[v]
    BY DEF TypeOK, Crash, Forget, Writing
  <1> QED BY <1>1, <1>2 DEF Settled

-----------------------------------------------------------------------------
(* The adapters *)

LEMMA FetchOk ==
    ASSUME TypeOK, NEW w \in Workers, NEW u \in Urls, NEW purpose \in Wants,
           Fetch(w, u, purpose),
           job' = [job EXCEPT ![w] = job'[w]], job'[w] \in Crawl,
           trail' = [trail EXCEPT ![w] = trail'[w]], trail'[w] \in Seq(Urls),
           result' = [result EXCEPT ![w] = result'[w]],
           result'[w] \in SUBSET (Products \cup Urls),
           UNCHANGED <<cache, cut>>
    PROVE  /\ Local(w) /\ Typed(w)' /\ CacheTyped'
           /\ step'[w] = "check" /\ url'[w] = u /\ want'[w] = purpose
           /\ written'[w] = 0
  BY Constant, AllTyped DEF TypeOK, Fetch, Local, Typed, CacheTyped, Steps, cache

LEMMA FinishOk ==
    ASSUME TypeOK, NEW w \in Workers, WorkerOk(w), step[w] \in {"parse", "refused"},
           NEW found \in SUBSET (Products \cup Urls), Finish(w, found),
           UNCHANGED <<cache, job, cut>>
    PROVE  /\ Local(w) /\ Typed(w)' /\ CacheTyped'
           /\ job[w] \in Crawl /\ job'[w] = job[w] /\ cut'[w] = cut[w]
           /\ step'[w] = "done" /\ want'[w] = want[w] /\ trail'[w] = trail[w]
           /\ result'[w] = Kept(job[w].shop, found)
  <1>1. /\ job[w] \in Crawl /\ job'[w] = job[w] /\ cut'[w] = cut[w]
        /\ step'[w] = "done" /\ want'[w] = want[w] /\ trail'[w] = trail[w]
        /\ result'[w] = Kept(job[w].shop, found)
    BY DEF TypeOK, Finish, WorkerOk, StepOk
  <1>2. Local(w)
    BY DEF TypeOK, Finish, Local, cache
  <1>3. Kept(job[w].shop, found) \in SUBSET (Products \cup Urls)
    BY DEF Kept
  <1>4. Typed(w)'
    BY <1>3, Constant, AllTyped DEF TypeOK, Finish, Typed, Steps
  <1>5. CacheTyped'
    BY AllTyped DEF CacheTyped, cache
  <1> QED BY <1>1, <1>2, <1>4, <1>5

\* The list at the end of a crawl.
LEMMA FinishKeeps ==
    ASSUME TypeOK, NEW w \in Workers, WorkerOk(w), step[w] \in {"parse", "refused"},
           NEW found \in SUBSET (Products \cup Urls), Finish(w, found),
           UNCHANGED <<cache, job, cut>>, Walking(w),
           ~cut[w] => /\ IsPath(trail[w], job[w].shop)
                      /\ found = RangeOf(trail[w]) \X Chunks
    PROVE  Keeps(w) /\ Elsewhere(w)
  <1>1. /\ Local(w) /\ Typed(w)' /\ CacheTyped'
        /\ job[w] \in Crawl /\ job'[w] = job[w] /\ cut'[w] = cut[w]
        /\ step'[w] = "done" /\ want'[w] = want[w] /\ trail'[w] = trail[w]
        /\ result'[w] = Kept(job[w].shop, found)
    BY FinishOk
  <1>2. Walking(w)' <=> Walking(w)
    BY <1>1 DEF Walking
  <1>3. StepOk(w)' /\ ShopOk(w)'
    BY <1>1 DEF WorkerOk, StepOk, ShopOk, Reading
  <1>4. TrailOk(w)'
    BY <1>1, <1>2 DEF WorkerOk, TrailOk, Reading, Local
  <1>5. FoundOk(w)'
    BY <1>1, <1>2 DEF WorkerOk, FoundOk, Reading
  <1>6. IsPath(trail[w], job[w].shop)' <=> IsPath(trail[w], job[w].shop)
    BY <1>1 DEF IsPath, Local
  <1>7. DoneOk(w)'
    BY <1>1, <1>6 DEF WorkerOk, FoundOk, DoneOk, Walking
  <1>8. Elsewhere(w)
    BY <1>1 DEF Elsewhere, cache
  <1> QED BY <1>1, <1>3, <1>4, <1>5, <1>7, <1>8 DEF Keeps, WorkerOk

\* A crawl goes on at the page behind the link.
LEMMA FetchKeeps ==
    ASSUME TypeOK, NEW w \in Workers, WorkerOk(w), step[w] \in {"parse", "refused"},
           want[w] \in {"page", "pager"},
           NEW next \in Urls, next = NextPage(job[w].shop, site[url[w]]),
           ~Stops(w, next), NEW found \in SUBSET (Products \cup Urls),
           ~cut[w] => found = RangeOf(trail[w]) \X Chunks,
           Fetch(w, next, FirstWant(job[w].shop)),
           trail' = [trail EXCEPT ![w] = Append(@, next)],
           result' = [result EXCEPT ![w] = found],
           UNCHANGED <<cache, job, cut>>
    PROVE  Keeps(w) /\ Elsewhere(w)
  <1> DEFINE s == trail[w]
             shop == job[w].shop
             purpose == FirstWant(shop)
  <1>1. /\ s \in Seq(Urls) /\ job[w] \in Crawl /\ shop \in Shops
        /\ purpose \in {"page", "products"} /\ purpose \in Wants
        /\ Walking(w) /\ step[w] \in Reading
    BY DEF TypeOK, WorkerOk, StepOk, Crawl, FirstWant, Walking, Reading, Wants
  <1>2. /\ Len(s) \in 1 .. PageLimit[shop] /\ url[w] = s[Len(s)]
        /\ \A i \in 1 .. Len(s) - 1 : s[i + 1] = NextPage(shop, site[s[i]])
        /\ \A i, j \in DOMAIN s : s[i] = s[j] => i = j
    BY <1>1 DEF WorkerOk, TrailOk
  <1>3. /\ trail'[w] = Append(s, next) /\ result'[w] = found
        /\ job'[w] = job[w] /\ cut'[w] = cut[w] /\ site' = site
    BY DEF TypeOK, cache
  <1>4. /\ Append(s, next) \in Seq(Urls)
        /\ Len(Append(s, next)) = Len(s) + 1
        /\ Append(s, next)[Len(s) + 1] = next
        /\ \A i \in 1 .. Len(s) : Append(s, next)[i] = s[i]
        /\ Before(Append(s, next)) = RangeOf(s)
    BY <1>1, BeforeAppend
  <1>5. /\ job' = [job EXCEPT ![w] = job'[w]] /\ job'[w] \in Crawl
        /\ trail' = [trail EXCEPT ![w] = trail'[w]] /\ trail'[w] \in Seq(Urls)
        /\ result' = [result EXCEPT ![w] = result'[w]]
        /\ result'[w] \in SUBSET (Products \cup Urls)
    BY <1>1, <1>3, <1>4 DEF TypeOK
  <1>6. /\ Local(w) /\ Typed(w)' /\ CacheTyped'
        /\ step'[w] = "check" /\ url'[w] = next /\ want'[w] = purpose
        /\ written'[w] = 0
    BY <1>1, <1>5, FetchOk
  <1>7. StepOk(w)'
    BY <1>1, <1>3, <1>6 DEF StepOk, Reading
  <1>8. ShopOk(w)'
    BY <1>1, <1>3, <1>6 DEF ShopOk, FirstWant, WorkerOk
  <1>9. TrailOk(w)'
    <2> DEFINE t == trail'[w]
    <2>1. DOMAIN s = 1 .. Len(s) /\ DOMAIN t = 1 .. Len(s) + 1 /\ Len(s) \in Nat
      BY <1>1, <1>3, <1>4, LenProperties
    <2>2. Len(t) \in 1 .. PageLimit[shop]
      BY <1>1, <1>2, <1>3, <1>4, <2>1, Constant DEF Stops
    <2>3. \A i \in 1 .. Len(t) - 1 : t[i + 1] = NextPage(shop, site[t[i]])
      BY <1>2, <1>3, <1>4, <2>1
    <2>4. \A i \in DOMAIN s : s[i] # next
      BY DEF Stops, RangeOf
    <2>5. \A i, j \in DOMAIN t : t[i] = t[j] => i = j
      BY <1>2, <1>3, <1>4, <2>1, <2>4
    <2>6. url'[w] = t[Len(t)]
      BY <1>3, <1>4, <1>6
    <2>7. want'[w] # "single"
      BY <1>1, <1>6
    <2> QED BY <1>3, <2>2, <2>3, <2>5, <2>6, <2>7 DEF TrailOk
  <1>10. FoundOk(w)'
    <2>1. trail'[w][1] = s[1]
      BY <1>1, <1>2, <1>3, <1>4
    <2>2. purpose \in {"page", "products"}
      BY <1>1
    <2> HIDE DEF purpose, shop
    <2>3. ~cut[w] => s[1] = Expected(job[w])
      BY <1>1 DEF WorkerOk, FoundOk
    <2> QED BY <1>3, <1>4, <1>6, <2>1, <2>2, <2>3 DEF FoundOk
  <1>11. DoneOk(w)'
    BY <1>6 DEF DoneOk
  <1>12. Elsewhere(w)
    BY <1>6 DEF Elsewhere, cache
  <1> QED BY <1>6, <1>7, <1>8, <1>9, <1>10, <1>11, <1>12 DEF Keeps, WorkerOk

\* What is known of a page that has been read.
LEMMA AtPage ==
    ASSUME TypeOK, NEW w \in Workers, WorkerOk(w), step[w] \in {"parse", "refused"},
           Walking(w)
    PROVE  /\ url[w] \in Urls /\ job[w] \in Crawl /\ job[w].shop \in Shops
           /\ url[w] = trail[w][Len(trail[w])]
           /\ RangeOf(trail[w]) = Before(trail[w]) \cup {url[w]}
           /\ RangeOf(trail[w]) \subseteq Urls
           /\ got[w] \subseteq Chunks
           /\ ProductsOf(w) \subseteq Products
           /\ PagerOf(w) \in Urls \cup {NoPage}
           /\ PagerOf(w) # NoPage => PagerOf(w) = NextPage(job[w].shop, site[url[w]])
           /\ ~cut[w] => /\ step[w] = "parse" /\ got[w] = Chunks
                         /\ PagerOf(w) = NextPage(job[w].shop, site[url[w]])
  <1>1. /\ url[w] \in Urls /\ job[w] \in Crawl /\ job[w].shop \in Shops
        /\ trail[w] \in Seq(Urls) /\ Len(trail[w]) >= 1
        /\ url[w] = trail[w][Len(trail[w])]
        /\ got[w] \subseteq Chunks
        /\ ~cut[w] => step[w] = "parse" /\ got[w] = Chunks
    BY DEF TypeOK, WorkerOk, StepOk, TrailOk, FoundOk, Reading, Crawl
  <1>2. RangeOf(trail[w]) = Before(trail[w]) \cup {url[w]}
    BY <1>1, RangeBefore
  <1>3. RangeOf(trail[w]) \subseteq Urls
    BY <1>1 DEF RangeOf
  <1>4. ProductsOf(w) \subseteq Products
    BY <1>1 DEF ProductsOf, Products
  <1>5. NextPage(job[w].shop, site[url[w]]) \in Urls \cup {NoPage}
    BY <1>1, Links
  <1>6. /\ PagerOf(w) \in Urls \cup {NoPage}
        /\ PagerOf(w) # NoPage => PagerOf(w) = NextPage(job[w].shop, site[url[w]])
        /\ ~cut[w] => PagerOf(w) = NextPage(job[w].shop, site[url[w]])
    BY <1>1, <1>5, Constant DEF PagerOf
  <1> QED BY <1>1, <1>2, <1>3, <1>4, <1>6

\* A path that the loop leaves.
LEMMA StopsPath ==
    ASSUME TypeOK, NEW w \in Workers, WorkerOk(w), Walking(w),
           step[w] \in {"parse", "refused"},
           Stops(w, NextPage(job[w].shop, site[url[w]]))
    PROVE  IsPath(trail[w], job[w].shop)
  BY AtPage DEF WorkerOk, TrailOk, Reading, Stops, IsPath

\* What Follow keeps.
LEMMA FollowKeeps ==
    ASSUME TypeOK, NEW w \in Workers, WorkerOk(w), step[w] = "parse",
           want[w] \in {"page", "pager"},
           NEW found \in SUBSET (Products \cup Urls),
           ~cut[w] => found = RangeOf(trail[w]) \X Chunks,
           Follow(w, found, PagerOf(w)),
           UNCHANGED <<cache, job, cut>>
    PROVE  Keeps(w) /\ Elsewhere(w)
  <1>1. Walking(w)
    BY DEF Walking
  <1>2. CASE Stops(w, PagerOf(w))
    <2>1. Finish(w, found)
      BY <1>2 DEF Follow
    <2>2. ~cut[w] => IsPath(trail[w], job[w].shop)
      BY <1>1, <1>2, AtPage, StopsPath
    <2> QED BY <1>1, <2>1, <2>2, FinishKeeps
  <1>3. CASE ~Stops(w, PagerOf(w))
    <2>1. PagerOf(w) # NoPage
      BY <1>3 DEF Stops
    <2>2. /\ PagerOf(w) \in Urls
          /\ PagerOf(w) = NextPage(job[w].shop, site[url[w]])
      BY <1>1, <2>1, AtPage
    <2>3. /\ Fetch(w, PagerOf(w), FirstWant(job[w].shop))
          /\ trail' = [trail EXCEPT ![w] = Append(@, PagerOf(w))]
          /\ result' = [result EXCEPT ![w] = found]
      BY <1>3 DEF Follow
    <2> QED BY <1>3, <2>2, <2>3, FetchKeeps
  <1> QED BY <1>2, <1>3

LEMMA ReadPageOk ==
    ASSUME TypeOK, NEW w \in Workers, WorkerOk(w), ReadPage(w)
    PROVE  Keeps(w) /\ Elsewhere(w)
  <1>1. /\ want[w] = "page" /\ step[w] \in {"parse", "refused"} /\ Walking(w)
        /\ UNCHANGED <<cache, job, cut>>
    BY DEF ReadPage, Walking
  <1>2. /\ result[w] \in SUBSET (Products \cup Urls)
        /\ result[w] \cup ProductsOf(w) \in SUBSET (Products \cup Urls)
    BY <1>1, AtPage, AllTyped DEF Typed
  <1>3. CASE step[w] = "parse"
    <2>1. ~cut[w] => result[w] = Before(trail[w]) \X Chunks
      BY <1>1 DEF WorkerOk, FoundOk, Reading
    <2>2. ~cut[w] => ProductsOf(w) = {url[w]} \X Chunks
      BY <1>1, AtPage DEF ProductsOf
    <2>3. ~cut[w] => result[w] \cup ProductsOf(w) = RangeOf(trail[w]) \X Chunks
      BY <1>1, <2>1, <2>2, AtPage
    <2>4. Follow(w, result[w] \cup ProductsOf(w), PagerOf(w))
      BY <1>3 DEF ReadPage
    <2> QED BY <1>1, <1>2, <1>3, <2>3, <2>4, FollowKeeps
  <1>4. CASE step[w] = "refused"
    <2>1. Finish(w, result[w]) /\ cut[w]
      BY <1>1, <1>4, AtPage DEF ReadPage
    <2> QED BY <1>1, <1>2, <2>1, FinishKeeps
  <1> QED BY <1>1, <1>3, <1>4

LEMMA ReadPagerOk ==
    ASSUME TypeOK, NEW w \in Workers, WorkerOk(w), ReadPager(w)
    PROVE  Keeps(w) /\ Elsewhere(w)
  <1>1. /\ want[w] = "pager" /\ step[w] \in {"parse", "refused"} /\ Walking(w)
        /\ UNCHANGED <<cache, job, cut>>
    BY DEF ReadPager, Walking
  <1>2. result[w] \in SUBSET (Products \cup Urls)
    BY AllTyped DEF Typed
  <1>3. CASE step[w] = "parse"
    <2>1. ~cut[w] => result[w] = RangeOf(trail[w]) \X Chunks
      BY <1>1 DEF WorkerOk, FoundOk, Reading
    <2>2. Follow(w, result[w], PagerOf(w))
      BY <1>3 DEF ReadPager
    <2> QED BY <1>1, <1>2, <1>3, <2>1, <2>2, FollowKeeps
  <1>4. CASE step[w] = "refused"
    <2>1. Finish(w, result[w]) /\ cut[w]
      BY <1>1, <1>4, AtPage DEF ReadPager
    <2> QED BY <1>1, <1>2, <2>1, FinishKeeps
  <1> QED BY <1>1, <1>3, <1>4

LEMMA ReadSingleOk ==
    ASSUME TypeOK, NEW w \in Workers, WorkerOk(w), ReadSingle(w)
    PROVE  Keeps(w) /\ Elsewhere(w)
  <1> DEFINE found == IF step[w] = "parse" THEN ProductsOf(w) ELSE {}
  <1>1. /\ want[w] = "single" /\ step[w] \in {"parse", "refused"} /\ Walking(w)
        /\ Finish(w, found) /\ UNCHANGED <<cache, job, cut>>
    BY DEF ReadSingle, Walking
  <1>2. found \in SUBSET (Products \cup Urls)
    BY <1>1, AtPage
  <1>3. Len(trail[w]) = 1 /\ job[w].shop = "hockeyshans"
    BY <1>1 DEF WorkerOk, TrailOk, ShopOk
  <1>4. Before(trail[w]) = {}
    BY <1>3 DEF Before
  <1>5. NextPage(job[w].shop, site[url[w]]) = NoPage
    BY <1>3 DEF NextPage
  <1>6. IsPath(trail[w], job[w].shop)
    BY <1>1, <1>5, StopsPath DEF Stops
  <1>7. ~cut[w] => found = RangeOf(trail[w]) \X Chunks
    BY <1>1, <1>4, AtPage DEF ProductsOf
  <1> QED BY <1>1, <1>2, <1>6, <1>7, FinishKeeps

LEMMA ReadProductsOk ==
    ASSUME TypeOK, NEW w \in Workers, WorkerOk(w), ReadProducts(w)
    PROVE  Keeps(w) /\ Elsewhere(w)
  <1> DEFINE found == IF step[w] = "parse" THEN result[w] \cup ProductsOf(w) ELSE result[w]
  <1>1. /\ want[w] = "products" /\ step[w] \in {"parse", "refused"} /\ Walking(w)
        /\ Fetch(w, url[w], "pager") /\ UNCHANGED <<cache, job, trail, cut>>
        /\ result' = [result EXCEPT ![w] = found]
    BY DEF ReadProducts, Walking, TypeOK
  <1>2. found \in SUBSET (Products \cup Urls)
    BY <1>1, AtPage, AllTyped DEF Typed
  <1>3. /\ job' = [job EXCEPT ![w] = job'[w]] /\ job'[w] = job[w] /\ job[w] \in Crawl
        /\ trail' = [trail EXCEPT ![w] = trail'[w]] /\ trail'[w] \in Seq(Urls)
        /\ result' = [result EXCEPT ![w] = result'[w]] /\ result'[w] = found
        /\ trail'[w] = trail[w] /\ cut'[w] = cut[w] /\ site' = site
    BY <1>1, AtPage DEF TypeOK, cache
  <1>4. url[w] \in Urls /\ "pager" \in Wants
    BY <1>1, AtPage DEF Wants
  <1>5. /\ Local(w) /\ Typed(w)' /\ CacheTyped'
        /\ step'[w] = "check" /\ url'[w] = url[w] /\ want'[w] = "pager"
        /\ written'[w] = 0
    BY <1>1, <1>2, <1>3, <1>4, FetchOk
  <1>6. ~cut[w] => found = RangeOf(trail[w]) \X Chunks
    <2>1. ~cut[w] => /\ result[w] = Before(trail[w]) \X Chunks
                     /\ ProductsOf(w) = {url[w]} \X Chunks
                     /\ step[w] = "parse"
      BY <1>1, AtPage DEF WorkerOk, FoundOk, Reading, ProductsOf
    <2> QED BY <1>1, <2>1, AtPage
  <1>7. StepOk(w)'
    BY <1>3, <1>4, <1>5 DEF StepOk, Reading
  <1>8. ShopOk(w)'
    BY <1>1, <1>3, <1>5 DEF ShopOk, WorkerOk
  <1>9. TrailOk(w)'
    BY <1>1, <1>3, <1>5, AtPage DEF TrailOk, WorkerOk
  <1> HIDE DEF found
  <1>10. FoundOk(w)'
    BY <1>1, <1>3, <1>5, <1>6 DEF FoundOk, WorkerOk
  <1>11. DoneOk(w)' /\ Elsewhere(w)
    BY <1>1, <1>5 DEF DoneOk, Elsewhere, cache
  <1> QED BY <1>5, <1>7, <1>8, <1>9, <1>10, <1>11 DEF Keeps, WorkerOk

\* A crawl of one page so far.
LEMMA BeginOk ==
    ASSUME TypeOK, NEW w \in Workers, NEW u \in Urls,
           NEW purpose \in {"page", "single", "products"},
           Fetch(w, u, purpose),
           job' = [job EXCEPT ![w] = job'[w]], job'[w] \in Crawl,
           trail' = [trail EXCEPT ![w] = <<u>>],
           UNCHANGED <<cache, result, cut>>,
           step[w] # "write", ShopOk(w)',
           ~cut[w] => u = Expected(job'[w]) /\ result[w] = {}
    PROVE  Keeps(w) /\ Elsewhere(w)
  <1>1. /\ trail'[w] = <<u>> /\ <<u>> \in Seq(Urls) /\ Len(<<u>>) = 1 /\ <<u>>[1] = u
        /\ trail' = [trail EXCEPT ![w] = trail'[w]]
        /\ result' = [result EXCEPT ![w] = result'[w]] /\ result'[w] = result[w]
        /\ cut'[w] = cut[w] /\ purpose \in Wants
    BY DEF TypeOK, Wants
  <1>2. result'[w] \in SUBSET (Products \cup Urls)
    BY <1>1, AllTyped DEF Typed
  <1>3. /\ Local(w) /\ Typed(w)' /\ CacheTyped'
        /\ step'[w] = "check" /\ url'[w] = u /\ want'[w] = purpose
        /\ written'[w] = 0
    BY <1>1, <1>2, FetchOk
  <1>4. StepOk(w)'
    BY <1>3 DEF StepOk, Reading
  <1>5. TrailOk(w)'
    <2> DEFINE t == trail'[w]
    <2>1. PageLimit[job'[w].shop] \in Nat \ {0}
      BY Constant DEF Crawl
    <2>2. Len(t) = 1 /\ t[1] = u /\ DOMAIN t = {1}
      BY <1>1
    <2> HIDE DEF t
    <2>3. /\ Len(t) \in 1 .. PageLimit[job'[w].shop]
          /\ \A i \in 1 .. Len(t) - 1 : t[i + 1] = NextPage(job'[w].shop, site'[t[i]])
          /\ \A i, j \in DOMAIN t : t[i] = t[j] => i = j
      BY <2>1, <2>2
    <2> QED BY <1>3, <2>2, <2>3 DEF TrailOk, t
  <1>6. Before(<<u>>) \X Chunks = {}
    BY <1>1 DEF Before
  <1>7. FoundOk(w)'
    BY <1>1, <1>3, <1>6 DEF FoundOk
  <1>8. DoneOk(w)' /\ Elsewhere(w)
    BY <1>3 DEF DoneOk, Elsewhere, cache
  <1> QED BY <1>3, <1>4, <1>5, <1>7, <1>8 DEF Keeps, WorkerOk

LEMMA FindCategoryOk ==
    ASSUME TypeOK, NEW w \in Workers, WorkerOk(w), FindCategory(w)
    PROVE  Keeps(w) /\ Elsewhere(w)
  <1>1. /\ want[w] = "find" /\ step[w] \in {"parse", "refused"}
        /\ Fetch(w, BaseOf(w), "products")
        /\ trail' = [trail EXCEPT ![w] = <<BaseOf(w)>>]
        /\ UNCHANGED <<cache, job, result, cut>>
    BY DEF FindCategory
  <1>2. job[w] \in Crawl /\ job[w].shop = "prohockey"
    BY <1>1 DEF WorkerOk, StepOk, ShopOk
  <1>3. BaseOf(w) \in Urls
    BY <1>2, Constant DEF BaseOf, Crawl
  <1>4. ~cut[w] => BaseOf(w) = Expected(job[w]) /\ result[w] = {}
    <2>1. ~cut[w] => step[w] = "parse" /\ got[w] = Chunks /\ result[w] = {}
      BY <1>1 DEF WorkerOk, FoundOk, Reading
    <2> QED BY <1>2, <2>1, Constant DEF BaseOf, Expected
  <1>5. /\ job' = [job EXCEPT ![w] = job'[w]] /\ job'[w] = job[w]
        /\ want'[w] = "products"
    BY <1>1 DEF TypeOK, Fetch
  <1>6. ShopOk(w)'
    BY <1>2, <1>5 DEF ShopOk
  <1> QED BY <1>1, <1>2, <1>3, <1>4, <1>5, <1>6, BeginOk

\* A worker that begins has nothing yet.
LEMMA AtIdle ==
    ASSUME TypeOK, NEW w \in Workers, WorkerOk(w), step[w] = "idle"
    PROVE  trail[w] = <<>> /\ result[w] = {} /\ cut[w] = FALSE /\ step[w] # "write"
  BY DEF WorkerOk, StepOk

\* A search for a category, and a menu, have no trail yet.
LEMMA LookOk ==
    ASSUME TypeOK, NEW w \in Workers, WorkerOk(w), step[w] = "idle",
           NEW purpose \in {"find", "menu"}, Fetch(w, Root, purpose),
           job' = [job EXCEPT ![w] = job'[w]], job'[w] \in Crawl,
           purpose = "find" => job'[w].shop = "prohockey",
           UNCHANGED <<cache, trail, result, cut>>
    PROVE  Keeps(w) /\ Elsewhere(w)
  <1>1. /\ trail' = [trail EXCEPT ![w] = trail'[w]] /\ trail'[w] \in Seq(Urls)
        /\ result' = [result EXCEPT ![w] = result'[w]] /\ result'[w] = {}
        /\ purpose \in Wants
    BY AtIdle DEF TypeOK, Wants
  <1>2. /\ Local(w) /\ Typed(w)' /\ CacheTyped'
        /\ step'[w] = "check" /\ url'[w] = Root /\ want'[w] = purpose
        /\ written'[w] = 0
    BY <1>1, FetchOk, Constant
  <1>3. StepOk(w)' /\ ShopOk(w)' /\ TrailOk(w)' /\ DoneOk(w)'
    BY <1>2, Constant DEF StepOk, ShopOk, TrailOk, DoneOk, Walking, Reading
  <1>4. FoundOk(w)'
    BY <1>1, <1>2 DEF FoundOk, Walking
  <1> QED BY <1>2, <1>3, <1>4, AtIdle DEF Keeps, WorkerOk, Elsewhere, cache

LEMMA StartsOk ==
    ASSUME TypeOK, NEW w \in Workers, WorkerOk(w), Starts(w)
    PROVE  Keeps(w) /\ Elsewhere(w)
  <1>1. step[w] = "idle"
    BY DEF Starts, StartCrawl, StartSearch, StartSingle, StartMenu
  <1>2. ASSUME NEW j \in Jobs[w], StartCrawl(w, j)
        PROVE  Keeps(w) /\ Elsewhere(w)
    <2>1. j \in Crawl /\ j.start \in Urls /\ j.shop \in {"hockeyshop", "hockeyworld"}
      BY <1>2, CrawlAssumption DEF StartCrawl, Crawl
    <2>2. /\ job'[w] = j /\ job' = [job EXCEPT ![w] = job'[w]]
          /\ Fetch(w, j.start, "page") /\ want'[w] = "page"
          /\ trail' = [trail EXCEPT ![w] = <<j.start>>]
          /\ UNCHANGED <<cache, result, cut>>
      BY <1>2 DEF StartCrawl, TypeOK, Fetch
    <2>3. ShopOk(w)' /\ j.start = Expected(j)
      BY <2>1, <2>2 DEF ShopOk, Expected
    <2> QED BY <1>1, <2>1, <2>2, <2>3, AtIdle, BeginOk
  <1>3. ASSUME NEW j \in Jobs[w], StartSearch(w, j)
        PROVE  Keeps(w) /\ Elsewhere(w)
    <2>1. j \in Crawl /\ j.shop = "prohockey"
      BY <1>3, CrawlAssumption DEF StartSearch, Crawl
    <2>2. /\ job'[w] = j /\ job' = [job EXCEPT ![w] = job'[w]]
          /\ Fetch(w, Root, "find")
          /\ UNCHANGED <<cache, trail, result, cut>>
      BY <1>3 DEF StartSearch, TypeOK
    <2> QED BY <1>1, <2>1, <2>2, LookOk
  <1>4. ASSUME NEW j \in Jobs[w], StartSingle(w, j)
        PROVE  Keeps(w) /\ Elsewhere(w)
    <2>1. j \in Crawl /\ SinglePage(j.start) \in Urls /\ j.shop = "hockeyshans"
      BY <1>4, CrawlAssumption, Constant DEF StartSingle, Crawl
    <2>2. /\ job'[w] = j /\ job' = [job EXCEPT ![w] = job'[w]]
          /\ Fetch(w, SinglePage(j.start), "single") /\ want'[w] = "single"
          /\ trail' = [trail EXCEPT ![w] = <<SinglePage(j.start)>>]
          /\ UNCHANGED <<cache, result, cut>>
      BY <1>4 DEF StartSingle, TypeOK, Fetch
    <2>3. ShopOk(w)' /\ SinglePage(j.start) = Expected(j)
      BY <2>1, <2>2 DEF ShopOk, Expected
    <2> QED BY <1>1, <2>1, <2>2, <2>3, AtIdle, BeginOk
  <1>5. ASSUME NEW shop \in MenuShops[w], StartMenu(w, shop)
        PROVE  Keeps(w) /\ Elsewhere(w)
    <2>1. [shop |-> shop, start |-> Root] \in Crawl
      BY CrawlAssumption, Constant DEF Crawl
    <2>2. /\ job'[w] = [shop |-> shop, start |-> Root]
          /\ job' = [job EXCEPT ![w] = job'[w]]
          /\ Fetch(w, Root, "menu")
          /\ UNCHANGED <<cache, trail, result, cut>>
      BY <1>5 DEF StartMenu, TypeOK
    <2> QED BY <1>1, <2>1, <2>2, LookOk
  <1> QED BY <1>2, <1>3, <1>4, <1>5 DEF Starts

LEMMA MenuOk ==
    ASSUME TypeOK, NEW w \in Workers, WorkerOk(w), ReadMenu(w) \/ ReadNeededMenu(w)
    PROVE  Keeps(w) /\ Elsewhere(w)
  <1>1. /\ want[w] = "menu" /\ step[w] \in {"parse", "refused"} /\ job[w] \in Crawl
        /\ ~cut[w] => step[w] = "parse" /\ got[w] = Chunks
    BY DEF ReadMenu, ReadNeededMenu, WorkerOk, StepOk, FoundOk
  <1>2. PICK ending \in {"done", "raised"} :
            EndMenu(w, ending) /\ (~cut[w] => ending = "done")
    BY <1>1, Constant DEF ReadMenu, ReadNeededMenu
  <1>3. /\ step'[w] = ending /\ job'[w] = job[w] /\ want'[w] = "menu"
        /\ cut'[w] = cut[w]
        /\ result'[w] = IF step[w] = "parse" /\ 1 \in got[w] THEN Categories ELSE {}
    BY <1>1, <1>2 DEF TypeOK, EndMenu
  <1>4. Local(w)
    BY <1>2 DEF TypeOK, EndMenu, Local, cache
  <1>5. Typed(w)'
    BY <1>2, <1>3, Constant, AllTyped DEF EndMenu, Typed, TypeOK, Steps
  <1>6. CacheTyped' /\ Elsewhere(w)
    BY <1>1, <1>2, <1>3, AllTyped DEF EndMenu, CacheTyped, cache, Elsewhere
  <1>7. StepOk(w)' /\ ShopOk(w)' /\ TrailOk(w)' /\ FoundOk(w)'
    BY <1>1, <1>3 DEF StepOk, ShopOk, TrailOk, FoundOk, Walking, Reading
  <1>8. DoneOk(w)'
    BY <1>1, <1>2, <1>3, Constant DEF DoneOk
  <1> QED BY <1>4, <1>5, <1>6, <1>7, <1>8 DEF Keeps, WorkerOk

LEMMA ForgetOk ==
    ASSUME TypeOK, NEW w \in Workers, Forget(w), UNCHANGED <<site, file, age>>,
           spoiled' \in [Urls -> BOOLEAN]
    PROVE  Keeps(w)
  <1>1. /\ step'[w] = "idle" /\ want'[w] = "none" /\ trail'[w] = <<>>
        /\ result'[w] = {} /\ cut'[w] = FALSE
    BY DEF TypeOK, Forget
  <1>2. Local(w) /\ Typed(w)' /\ CacheTyped'
    BY Constant, AllTyped DEF TypeOK, Forget, Local, Typed, CacheTyped, Steps, Wants
  <1>3. WorkerOk(w)'
    BY <1>1 DEF WorkerOk, StepOk, ShopOk, TrailOk, FoundOk, DoneOk, Walking, Reading
  <1> QED BY <1>2, <1>3 DEF Keeps

LEMMA ReturnOk ==
    ASSUME TypeOK, NEW w \in Workers, Return(w)
    PROVE  Keeps(w) /\ Elsewhere(w)
  <1>1. UNCHANGED <<site, file, age, spoiled>> /\ Forget(w)
    BY DEF Return, cache
  <1>2. spoiled' \in [Urls -> BOOLEAN]
    BY <1>1 DEF TypeOK
  <1>3. Elsewhere(w)
    BY <1>1 DEF Return, Forget, Elsewhere, TypeOK
  <1> QED BY <1>1, <1>2, <1>3, ForgetOk

LEMMA CrashOk ==
    ASSUME TypeOK, NEW w \in Workers, Crash(w)
    PROVE  Keeps(w)
  <1>1. spoiled' \in [Urls -> BOOLEAN]
    BY DEF TypeOK, Crash
  <1> QED BY <1>1, ForgetOk DEF Crash

-----------------------------------------------------------------------------
(* The invariant *)

\* Steps that write no file.
Quiet(w) ==
    \/ CheckCache(w) \/ LoadPage(w) \/ LoadNothing(w) \/ Answer(w) \/ Refuse(w)
    \/ ReadPage(w) \/ ReadSingle(w) \/ ReadProducts(w) \/ ReadPager(w)
    \/ FindCategory(w) \/ ReadMenu(w) \/ ReadNeededMenu(w) \/ Return(w)

LEMMA Initially == Init => IInv
  <1> SUFFICES ASSUME Init PROVE IInv
    OBVIOUS
  <1>1. TypeOK
    BY Constant DEF Init, TypeOK, Steps, Wants
  <1>2. \A w \in Workers : WorkerOk(w)
    BY DEF Init, WorkerOk, StepOk, ShopOk, TrailOk, FoundOk, DoneOk, Walking, Reading
  <1>3. \A u \in Urls : Settled(u)
    BY DEF Init, Settled, Writing
  <1> QED BY <1>1, <1>2, <1>3 DEF IInv

LEMMA Inductive == IInv /\ [Next]_vars => IInv'
  <1> SUFFICES ASSUME IInv, [Next]_vars PROVE IInv'
    OBVIOUS
  <1>1. TypeOK /\ (\A w \in Workers : WorkerOk(w)) /\ (\A u \in Urls : Settled(u))
    BY DEF IInv
  <1>2. ASSUME NEW w \in Workers, Keeps(w), \A u \in Urls : Settled(u)'
        PROVE  IInv'
    BY <1>1, <1>2, LocalOk DEF IInv, Keeps
  <1>3. ASSUME NEW w \in Workers, Keeps(w), Elsewhere(w)
        PROVE  IInv'
    BY <1>1, <1>2, <1>3, ElsewhereSettled DEF Keeps
  <1>4. ASSUME NEW w \in Workers, Quiet(w)
        PROVE  IInv'
    BY <1>1, <1>3, <1>4, ReadStep, ReadPageOk, ReadSingleOk, ReadProductsOk,
       ReadPagerOk, FindCategoryOk, MenuOk, ReturnOk DEF Quiet
  <1>5. ASSUME NEW w \in Workers, Saves(w)
        PROVE  IInv'
    BY <1>1, <1>2, <1>5, SaveStep, SaveSettled
  <1>6. ASSUME NEW w \in Workers, Crash(w)
        PROVE  IInv'
    BY <1>1, <1>2, <1>6, CrashOk, CrashSettled
  <1>7. ASSUME NEW w \in Workers, Starts(w)
        PROVE  IInv'
    BY <1>1, <1>3, <1>7, StartsOk
  <1>8. ASSUME Tick \/ UNCHANGED vars
        PROVE  IInv'
    <2>1. TypeOK'
      BY <1>1, <1>8, Constant DEF TypeOK, Tick, vars, cache, crawl
    <2>2. /\ \A w \in Workers : Same(w)
          /\ UNCHANGED <<site, file, spoiled, step, url, written>>
      BY <1>8 DEF Tick, vars, cache, crawl, Same
    <2>3. \A u \in Urls : Settled(u)'
      BY <1>1, <2>2 DEF Settled, Writing
    <2> QED BY <1>1, <2>1, <2>2, <2>3, SameOk DEF IInv
  <1> QED BY <1>4, <1>5, <1>6, <1>7, <1>8 DEF Next, Proceed, Starts, Quiet, Saves

LEMMA Invariant == Spec => []IInv
  BY Initially, Inductive, PTL DEF Spec

\* Every variable has its type.
THEOREM TypeCorrect == Spec => []TypeOK
  <1>1. IInv => TypeOK
    BY DEF IInv
  <1> QED BY <1>1, Invariant, PTL

\* Files are whole when nobody writes them, unless a writer was stopped
\* (_save_to_cache).
THEOREM Settles == Spec => []CacheSettles
  <1>1. IInv => CacheSettles
    BY DEF IInv, Settled, CacheSettles, TypeOK
  <1> QED BY <1>1, Invariant, PTL

\* A crawl that was not cut short returns every page of its path (the loops of
\* the adapters).
THEOREM Whole == Spec => []CrawlWhole
  <1>1. IInv => CrawlWhole
    BY DEF IInv, WorkerOk, DoneOk, CrawlWhole
  <1> QED BY <1>1, Invariant, PTL

-----------------------------------------------------------------------------
(* Progress *)

LEMMA LessTuple ==
    ASSUME NEW a1 \in Nat, NEW a2 \in Nat, NEW a3 \in Nat, NEW a4 \in Nat,
           NEW b1 \in Nat, NEW b2 \in Nat, NEW b3 \in Nat, NEW b4 \in Nat,
           \/ a1 < b1
           \/ a1 = b1 /\ a2 < b2
           \/ a1 = b1 /\ a2 = b2 /\ a3 < b3
           \/ a1 = b1 /\ a2 = b2 /\ a3 = b3 /\ a4 < b4
    PROVE  /\ Less(<<a1, a2, a3, a4>>, <<b1, b2, b3, b4>>)
           /\ \A i \in 1 .. 4 : <<a1, a2, a3, a4>>[i] >= 0
  <1> DEFINE a == <<a1, a2, a3, a4>>
             b == <<b1, b2, b3, b4>>
  <1>1. /\ a[1] = a1 /\ a[2] = a2 /\ a[3] = a3 /\ a[4] = a4
        /\ b[1] = b1 /\ b[2] = b2 /\ b[3] = b3 /\ b[4] = b4
    OBVIOUS
  <1> HIDE DEF a, b
  <1>2. \A i \in 1 .. 4 : i = 1 \/ i = 2 \/ i = 3 \/ i = 4
    OBVIOUS
  <1>3. \A i \in 1 .. 4 : a[i] >= 0
    BY <1>1, <1>2
  <1>4. \E i \in 1 .. 4 : a[i] < b[i] /\ \A k \in 1 .. i - 1 : a[k] = b[k]
    <2>1. CASE a1 < b1
      BY <1>1, <2>1
    <2>2. CASE a1 = b1 /\ a2 < b2
      BY <1>1, <2>2
    <2>3. CASE a1 = b1 /\ a2 = b2 /\ a3 < b3
      BY <1>1, <2>3
    <2>4. CASE a1 = b1 /\ a2 = b2 /\ a3 = b3 /\ a4 < b4
      BY <1>1, <2>4
    <2> QED BY <2>1, <2>2, <2>3, <2>4
  <1> QED BY <1>3, <1>4 DEF Less, a, b

\* The numbers of a call are natural.
LEMMA LeftNat ==
    ASSUME TypeOK, NEW w \in Workers, step[w] # "idle", WorkerOk(w)
    PROVE  /\ PagesLeft(w) \in Nat /\ ReadingsLeft(w) \in Nat
           /\ StepsLeft(w) \in Nat /\ LastChunk - written[w] \in Nat
  <1>1. /\ PageLimit[job[w].shop] \in Nat /\ Len(trail[w]) \in Nat
        /\ written[w] \in 0 .. LastChunk /\ LastChunk \in Nat
    BY Constant, LenProperties DEF TypeOK, WorkerOk, StepOk, Crawl
  <1> QED BY <1>1 DEF PagesLeft, ReadingsLeft, StepsLeft

\* What a step of a call leaves to do.
Advances(w) ==
    \/ PagesLeft(w)' < PagesLeft(w)
    \/ PagesLeft(w)' = PagesLeft(w) /\ ReadingsLeft(w)' < ReadingsLeft(w)
    \/ /\ PagesLeft(w)' = PagesLeft(w) /\ ReadingsLeft(w)' = ReadingsLeft(w)
       /\ StepsLeft(w)' < StepsLeft(w)
    \/ /\ PagesLeft(w)' = PagesLeft(w) /\ ReadingsLeft(w)' = ReadingsLeft(w)
       /\ StepsLeft(w)' = StepsLeft(w)
       /\ LastChunk - written'[w] < LastChunk - written[w]

\* The next step of the same reading of the same page.
LEMMA StepAdvances ==
    ASSUME TypeOK, NEW w \in Workers, StepsLeft(w)' < StepsLeft(w),
           job'[w] = job[w], want'[w] = want[w], trail'[w] = trail[w]
    PROVE  Advances(w)
  BY DEF Advances, PagesLeft, ReadingsLeft

LEMMA CacheAdvances ==
    ASSUME TypeOK, NEW w \in Workers, WorkerOk(w),
           \/ CheckCache(w) \/ LoadPage(w) \/ LoadNothing(w)
           \/ Answer(w) \/ Refuse(w) \/ Saves(w)
    PROVE  Advances(w)
  <1>1. job'[w] = job[w] /\ want'[w] = want[w] /\ trail'[w] = trail[w]
    BY DEF CheckCache, LoadPage, LoadNothing, Answer, Refuse, Saves, OpenFile,
       WriteChunk, SaveFails
  <1>2. CASE ~WriteChunk(w)
    <2>1. StepsLeft(w)' < StepsLeft(w)
      BY <1>2 DEF TypeOK, CheckCache, LoadPage, LoadNothing, Answer, Refuse, Saves,
         OpenFile, SaveFails, StepsLeft
    <2> QED BY <1>1, <2>1, StepAdvances
  <1>3. CASE WriteChunk(w)
    <2>1. /\ step[w] = "write" /\ step'[w] \in {"parse", "write"}
          /\ written'[w] = written[w] + 1 /\ written[w] \in Nat
      BY <1>3 DEF TypeOK, WriteChunk
    <2>2. CASE step'[w] = "parse"
      BY <1>1, <2>1, <2>2, StepAdvances DEF StepsLeft
    <2>3. CASE step'[w] = "write"
      BY <1>1, <2>1, <2>3, Constant DEF Advances, PagesLeft, ReadingsLeft, StepsLeft
    <2> QED BY <2>1, <2>2, <2>3
  <1> QED BY <1>2, <1>3

\* The end of a call.
LEMMA EndAdvances ==
    ASSUME TypeOK, NEW w \in Workers, step[w] \in {"parse", "refused"},
           step'[w] \in {"done", "raised"},
           job'[w] = job[w], want'[w] = want[w], trail'[w] = trail[w]
    PROVE  Advances(w)
  <1>1. StepsLeft(w)' < StepsLeft(w)
    BY DEF StepsLeft
  <1> QED BY <1>1, StepAdvances

LEMMA FollowAdvances ==
    ASSUME TypeOK, NEW w \in Workers, WorkerOk(w), step[w] \in {"parse", "refused"},
           want[w] \in {"page", "pager"}, NEW found, NEW next \in Urls \cup {NoPage},
           Follow(w, found, next), UNCHANGED job
    PROVE  Advances(w)
  <1>1. CASE Stops(w, next)
    BY <1>1, EndAdvances DEF TypeOK, Follow, Finish
  <1>2. CASE ~Stops(w, next)
    <2>1. /\ Len(trail[w]) \in 1 .. PageLimit[job[w].shop]
          /\ PageLimit[job[w].shop] \in Nat /\ trail[w] \in Seq(Urls)
      BY Constant DEF TypeOK, WorkerOk, TrailOk, StepOk, Walking, Crawl
    <2>2. Len(trail[w]) < PageLimit[job[w].shop]
      BY <1>2, <2>1 DEF Stops
    <2>3. next \in Urls
      BY <1>2 DEF Stops
    <2>4. Len(trail'[w]) = Len(trail[w]) + 1
      BY <1>2, <2>1, <2>3, BeforeAppend DEF TypeOK, Follow
    <2>5. want'[w] \in {"page", "products"} /\ job'[w] = job[w]
      BY <1>2 DEF TypeOK, Follow, Fetch, FirstWant
    <2>6. PagesLeft(w)' < PagesLeft(w)
      BY <2>1, <2>2, <2>4, <2>5 DEF PagesLeft
    <2> QED BY <2>6 DEF Advances
  <1> QED BY <1>1, <1>2

LEMMA AdapterAdvances ==
    ASSUME TypeOK, NEW w \in Workers, WorkerOk(w),
           \/ ReadPage(w) \/ ReadSingle(w) \/ ReadProducts(w) \/ ReadPager(w)
           \/ FindCategory(w) \/ ReadMenu(w) \/ ReadNeededMenu(w)
    PROVE  Advances(w)
  <1>1. ASSUME NEW found, Finish(w, found), step[w] \in {"parse", "refused"}, UNCHANGED job
        PROVE  Advances(w)
    BY <1>1, EndAdvances DEF TypeOK, Finish
  <1>2. CASE ReadPage(w) \/ ReadPager(w)
    <2>1. /\ step[w] \in {"parse", "refused"} /\ want[w] \in {"page", "pager"}
          /\ UNCHANGED job /\ Walking(w)
      BY <1>2 DEF ReadPage, ReadPager, Walking
    <2>2. PagerOf(w) \in Urls \cup {NoPage}
      BY <2>1, AtPage
    <2>3. \E found : Finish(w, found) \/ Follow(w, found, PagerOf(w))
      BY <1>2 DEF ReadPage, ReadPager
    <2> QED BY <1>1, <2>1, <2>2, <2>3, FollowAdvances
  <1>3. CASE ReadSingle(w)
    BY <1>1, <1>3 DEF ReadSingle
  <1>4. CASE ReadProducts(w)
    <2>1. /\ want[w] = "products" /\ want'[w] = "pager"
          /\ job'[w] = job[w] /\ trail'[w] = trail[w]
      BY <1>4 DEF TypeOK, ReadProducts, Fetch
    <2> QED BY <2>1 DEF Advances, PagesLeft, ReadingsLeft
  <1>5. CASE FindCategory(w)
    <2>1. /\ want[w] = "find" /\ want'[w] = "products"
          /\ job'[w] = job[w] /\ trail'[w] = <<BaseOf(w)>>
      BY <1>5 DEF TypeOK, FindCategory, Fetch
    <2>2. PageLimit[job[w].shop] \in Nat \ {0}
      BY <1>5, Constant DEF FindCategory, WorkerOk, StepOk, Crawl
    <2>3. PagesLeft(w)' < PagesLeft(w)
      BY <2>1, <2>2 DEF PagesLeft
    <2> QED BY <2>3 DEF Advances
  <1>6. CASE ReadMenu(w) \/ ReadNeededMenu(w)
    <2>1. /\ step[w] \in {"parse", "refused"} /\ step'[w] \in {"done", "raised"}
          /\ job'[w] = job[w] /\ want'[w] = want[w] /\ trail'[w] = trail[w]
      BY <1>6 DEF TypeOK, ReadMenu, ReadNeededMenu, EndMenu
    <2> QED BY <2>1, EndAdvances
  <1> QED BY <1>2, <1>3, <1>4, <1>5, <1>6

LEMMA ProceedAdvances ==
    ASSUME IInv, IInv', NEW w \in Workers, Proceed(w), step'[w] # "idle"
    PROVE  Less(Left(w)', Left(w)) /\ \A i \in 1 .. 4 : Left(w)'[i] >= 0
  <1>1. TypeOK /\ WorkerOk(w) /\ TypeOK' /\ WorkerOk(w)'
    BY DEF IInv
  <1>2. ~Return(w)
    BY <1>1 DEF Return, Forget, TypeOK
  <1>3. Advances(w)
    BY <1>1, <1>2, CacheAdvances, AdapterAdvances DEF Proceed, Saves
  <1>4. step[w] # "idle"
    BY DEF Proceed, CheckCache, LoadPage, LoadNothing, Answer, Refuse, OpenFile,
       WriteChunk, SaveFails, ReadPage, ReadSingle, ReadProducts, ReadPager,
       FindCategory, ReadMenu, ReadNeededMenu, Return
  <1>5. /\ PagesLeft(w) \in Nat /\ ReadingsLeft(w) \in Nat
        /\ StepsLeft(w) \in Nat /\ LastChunk - written[w] \in Nat
    BY <1>1, <1>4, LeftNat
  <1>6. /\ PagesLeft(w)' \in Nat /\ ReadingsLeft(w)' \in Nat
        /\ StepsLeft(w)' \in Nat /\ LastChunk - written'[w] \in Nat
    <2>1. /\ PageLimit[job'[w].shop] \in Nat /\ Len(trail'[w]) \in Nat
          /\ written'[w] \in 0 .. LastChunk /\ LastChunk \in Nat
      BY <1>1, Constant, LenProperties DEF TypeOK, WorkerOk, StepOk, Crawl
    <2> QED BY <2>1 DEF PagesLeft, ReadingsLeft, StepsLeft
  <1> QED BY <1>3, <1>5, <1>6, LessTuple DEF Left, Advances

\* No call of an adapter runs for ever: each of its steps leaves less to do
\* (pages, readings of a page, steps of safe_get, writes).
THEOREM Advance == Spec => CrawlAdvances
  <1>1. IInv /\ IInv' /\ [Next]_vars =>
            [\A w \in Workers : Proceed(w) /\ step'[w] # "idle" =>
                Less(Left(w)', Left(w)) /\ \A i \in 1 .. 4 : Left(w)'[i] >= 0]_vars
    BY ProceedAdvances
  <1> QED BY <1>1, Invariant, PTL DEF CrawlAdvances, Spec
=============================================================================
