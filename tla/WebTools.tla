-------------------------------- MODULE WebTools --------------------------------
(***************************************************************************)
(* The tools web.search and web.fetch of src/internal/tool/handlers.go,    *)
(* with the two lruCaches and the rateLimiter they share: turns of         *)
(* several agents call them at the same time, and a cache's lock is        *)
(* released while the request is on its way.                               *)
(*                                                                         *)
(* A page's text is not kept: a cache maps a key to the time of its entry. *)
(* The parameters that only shape the text (max_chars, extract_mode,       *)
(* max_results) are left out.                                              *)
(*                                                                         *)
(* A definition marked "Mutant" is a wrong version of the one after it;    *)
(* it is used only to show that the property it breaks can fail.           *)
(***************************************************************************)
EXTENDS Integers, Sequences, FiniteSets, SequencesExt

CONSTANTS
  Turns,      \* turns that may call a tool at the same time
  Queries,    \* cache keys of web.search
  URLs,       \* cache keys of web.fetch
  Host,       \* URL -> domain
  CacheMax,   \* newLRUCache's max: 100
  TTL,        \* newLRUCache's ttl: 5 minutes
  RateMax,    \* newRateLimiter's max: 10
  Interval,   \* newRateLimiter's interval: 1 minute
  MaxNow,     \* bound: the clock
  MaxCalls    \* bound: calls made

ASSUME WebAssumption ==
  /\ CacheMax \in Nat \ {0} /\ RateMax \in Nat \ {0}
  /\ TTL \in Nat /\ Interval \in Nat /\ MaxNow \in Nat /\ MaxCalls \in Nat
  /\ Queries \cap URLs = {}

Domains == {Host[u] : u \in URLs}

VARIABLES
  now,       \* the clock
  webCache,  \* web.search's lruCache: [entries, order]
  fetchCache,\* web.fetch's
  windows,   \* domainRL: domain -> rateWindow; one over at -1 if never asked
  turn,      \* turn -> [pc, key]
  made,      \* calls made so far
  asked      \* history: the requests domainRL let through, [domain, at]

webVars == <<now, webCache, fetchCache, windows, turn, made, asked>>

NewCache == [entries |-> [k \in {} |-> 0], order |-> <<>>]

-----------------------------------------------------------------------------
(***************************************************************************)
(* lruCache.                                                               *)
(***************************************************************************)
Cached(c) == DOMAIN c.entries

Drop(c, k) == [e \in Cached(c) \ {k} |-> c.entries[e]]

Expired(c, k) == k \in Cached(c) /\ now - c.entries[k] > TTL

Hits(c, k) == k \in Cached(c) /\ ~Expired(c, k)

\* Mutant: an entry that expired takes the head of order with it.
GetPops(c, k) ==
  IF Expired(c, k) THEN [entries |-> Drop(c, k), order |-> Tail(c.order)] ELSE c

\* lruCache.Get, for the cache: an entry that expired leaves the map and
\* stays in order.
Get(c, k) == IF Expired(c, k) THEN [c EXCEPT !.entries = Drop(c, k)] ELSE c

\* lruCache.Set: makes room even for a key it has, and the head of order
\* may have left the map, or be back in it under a later place of order.
Set(c, k) ==
  LET full == Cardinality(Cached(c)) >= CacheMax
      left == IF full THEN Drop(c, Head(c.order)) ELSE c.entries
      rest == IF full THEN Tail(c.order) ELSE c.order
  IN [entries |-> [e \in DOMAIN left \cup {k} |-> IF e = k THEN now ELSE left[e]],
      order |-> Append(rest, k)]

-----------------------------------------------------------------------------
(***************************************************************************)
(* rateLimiter.                                                            *)
(***************************************************************************)
Fresh(d) == now > windows[d].resetAt

\* Mutant: the window that is open at its last request gets one more.
AllowOneMore(d) == Fresh(d) \/ windows[d].count <= RateMax

\* rateLimiter.Allow, for its answer.
Allow(d) == Fresh(d) \/ windows[d].count < RateMax

\* rateLimiter.Allow, for the window of a request that is let through.
Counted(d) ==
  IF Fresh(d) THEN [count |-> 1, resetAt |-> now + Interval]
  ELSE [windows[d] EXCEPT !.count = @ + 1]

-----------------------------------------------------------------------------
WebInit ==
  /\ now = 0
  /\ webCache = NewCache /\ fetchCache = NewCache
  /\ windows = [d \in Domains |-> [count |-> 0, resetAt |-> -1]]
  /\ turn = [t \in Turns |-> [pc |-> "idle", key |-> "none"]]
  /\ made = 0
  /\ asked = <<>>

At(t, pc) == turn[t].pc = pc

Become(t, pc, k) == turn' = [turn EXCEPT ![t] = [pc |-> pc, key |-> k]]

Return(t) == Become(t, "idle", "none")

\* WebSearch.Execute to its request: a hit answers at once.
Search(t, q) ==
  /\ At(t, "idle") /\ made < MaxCalls
  /\ made' = made + 1
  /\ webCache' = Get(webCache, q)
  /\ IF Hits(webCache, q) THEN Return(t) ELSE Become(t, "searching", q)
  /\ UNCHANGED <<now, fetchCache, windows, asked>>

\* The request is answered, whatever it says ("No results found" is kept
\* like the rest).
SearchAnswered(t) ==
  /\ At(t, "searching")
  /\ webCache' = Set(webCache, turn[t].key)
  /\ Return(t)
  /\ UNCHANGED <<now, fetchCache, windows, made, asked>>

\* The request fails: the cache is asked again, as another turn may have
\* filled it.
SearchUnavailable(t) ==
  /\ At(t, "searching")
  /\ webCache' = Get(webCache, turn[t].key)
  /\ Return(t)
  /\ UNCHANGED <<now, fetchCache, windows, made, asked>>

\* WebFetch.Execute: the cache, then the limiter (each under its own lock).
Fetch(t, u) ==
  /\ At(t, "idle") /\ made < MaxCalls
  /\ made' = made + 1
  /\ fetchCache' = Get(fetchCache, u)
  /\ IF Hits(fetchCache, u) THEN Return(t) ELSE Become(t, "limit", u)
  /\ UNCHANGED <<now, webCache, windows, asked>>

FetchAllowed(t) ==
  LET d == Host[turn[t].key]
  IN /\ At(t, "limit") /\ Allow(d)
     /\ windows' = [windows EXCEPT ![d] = Counted(d)]
     /\ asked' = Append(asked, [domain |-> d, at |-> now])
     /\ Become(t, "fetching", turn[t].key)
     /\ UNCHANGED <<now, webCache, fetchCache, made>>

\* "Rate limited: too many requests to this domain".
FetchLimited(t) ==
  /\ At(t, "limit") /\ ~Allow(Host[turn[t].key])
  /\ Return(t)
  /\ UNCHANGED <<now, webCache, fetchCache, windows, made, asked>>

FetchAnswered(t) ==
  /\ At(t, "fetching")
  /\ fetchCache' = Set(fetchCache, turn[t].key)
  /\ Return(t)
  /\ UNCHANGED <<now, webCache, windows, made, asked>>

\* "Web fetch unavailable": the request stays counted.
FetchUnavailable(t) ==
  /\ At(t, "fetching")
  /\ Return(t)
  /\ UNCHANGED <<now, webCache, fetchCache, windows, made, asked>>

Tick ==
  /\ now < MaxNow
  /\ now' = now + 1
  /\ UNCHANGED <<webCache, fetchCache, windows, turn, made, asked>>

WebNext ==
  \/ Tick
  \/ \E t \in Turns :
       \/ \E q \in Queries : Search(t, q)
       \/ \E u \in URLs : Fetch(t, u)
       \/ SearchAnswered(t) \/ SearchUnavailable(t)
       \/ FetchAllowed(t) \/ FetchLimited(t)
       \/ FetchAnswered(t) \/ FetchUnavailable(t)

WebSpec == WebInit /\ [][WebNext]_webVars

-----------------------------------------------------------------------------
CacheType(c, keys) ==
  /\ c.entries \in [Cached(c) -> 0..MaxNow] /\ Cached(c) \subseteq keys
  /\ c.order \in Seq(keys)

\* The type of the state.
WebTypeOK ==
  /\ now \in 0..MaxNow /\ made \in 0..MaxCalls
  /\ CacheType(webCache, Queries) /\ CacheType(fetchCache, URLs)
  /\ windows \in [Domains -> [count : 0..RateMax, resetAt : -1..MaxNow + Interval]]
  /\ turn \in [Turns -> [pc : {"idle", "searching", "limit", "fetching"},
                         key : Queries \cup URLs \cup {"none"}]]
  /\ asked \in Seq([domain : Domains, at : 0..MaxNow])

\* Every key of a cache is somewhere in its order, however often entries
\* expired, were set twice by two turns or were dropped through an older
\* place of the order: a full cache always has a head of order to drop, so
\* Set never indexes an empty slice, and no entry is out of Set's reach.
CachedIsOrdered ==
  \A c \in {webCache, fetchCache} : Cached(c) \subseteq ToSet(c.order)

\* However requests fail, repeat and overlap, no stretch of Interval holds as
\* many requests to a domain as two windows let through: where one window ends
\* and the next begins it may hold one less ("10/min" is up to 19 in a minute),
\* as the request that opened the first is always older (Allow).
WindowsRespectLimit ==
  \A d \in Domains, s \in 0..now :
    Cardinality({i \in DOMAIN asked : /\ asked[i].domain = d
                                      /\ asked[i].at \in s..s + Interval}) < 2 * RateMax
=============================================================================
