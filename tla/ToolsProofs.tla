------------------------------ MODULE ToolsProofs ------------------------------
(***************************************************************************)
(* TLAPS proofs about the tools that share memory (WebTools) and those     *)
(* that share the disk (Sandbox), for any turns, keys, domains, limits,    *)
(* files and calls.  The two have no state in common.                      *)
(***************************************************************************)
EXTENDS WebTools, Sandbox, FiniteSetTheorems, TLAPS

-----------------------------------------------------------------------------
(***************************************************************************)
(* The caches.                                                             *)
(***************************************************************************)
\* A cache is a record of its type whose keys are all in its order.
CacheInv(c, keys) ==
  /\ c = [entries |-> c.entries, order |-> c.order]
  /\ CacheType(c, keys)
  /\ Cached(c) \subseteq ToSet(c.order)

\* Members of a sequence without its head were in it; an appended one is.
LEMMA OrderFact ==
  ASSUME NEW keys, NEW s \in Seq(keys)
  PROVE  /\ ToSet(s) = {s[i] : i \in 1..Len(s)}
         /\ s # <<>> => /\ Head(s) \in keys /\ Tail(s) \in Seq(keys)
                        /\ ToSet(s) \ {Head(s)} \subseteq ToSet(Tail(s))
         /\ \A k \in keys : Append(s, k) \in Seq(keys) /\ ToSet(Append(s, k)) = ToSet(s) \cup {k}
<1>1. \A q \in Seq(keys) : ToSet(q) = {q[i] : i \in 1..Len(q)}
  BY DEF ToSet
<1>2. ASSUME s # <<>>
      PROVE  /\ Head(s) \in keys /\ Tail(s) \in Seq(keys)
             /\ ToSet(s) \ {Head(s)} \subseteq ToSet(Tail(s))
  <2>1. /\ Len(s) \in Nat /\ Len(s) >= 1 /\ Head(s) = s[1] /\ Head(s) \in keys
        /\ Tail(s) \in Seq(keys) /\ Len(Tail(s)) = Len(s) - 1
        /\ \A i \in 1..Len(s) - 1 : Tail(s)[i] = s[i + 1]
    BY <1>2
  <2>2. ASSUME NEW i \in 1..Len(s), s[i] # Head(s) PROVE s[i] \in ToSet(Tail(s))
    <3>1. i - 1 \in 1..Len(s) - 1 /\ (i - 1) + 1 = i
      BY <2>1, <2>2
    <3>2. Tail(s)[i - 1] = s[i]
      BY <2>1, <3>1
    <3>3. QED
      BY <1>1, <2>1, <3>1, <3>2
  <2>3. QED
    BY <1>1, <2>1, <2>2
<1>3. ASSUME NEW k \in keys
      PROVE  Append(s, k) \in Seq(keys) /\ ToSet(Append(s, k)) = ToSet(s) \cup {k}
  <2>1. PICK q \in Seq(keys) : q = Append(s, k)
    <3>1. Append(s, k) \in Seq(keys)
      OBVIOUS
    <3>2. QED
      BY <3>1
  <2>2. /\ Len(s) \in Nat /\ Len(q) = Len(s) + 1 /\ q[Len(s) + 1] = k
        /\ \A i \in 1..Len(s) : q[i] = s[i]
    BY <2>1
  <2>3. {q[i] : i \in 1..Len(q)} = {s[i] : i \in 1..Len(s)} \cup {k}
    BY <2>2
  <2>4. QED
    BY <1>1, <2>1, <2>3
<1>4. QED
  BY <1>1, <1>2, <1>3

LEMMA DropFact ==
  ASSUME NEW c, NEW keys, CacheType(c, keys), NEW k
  PROVE  Drop(c, k) \in [Cached(c) \ {k} -> 0..MaxNow]
BY DEF Drop, CacheType

\* Looking something up keeps the cache in order.
LEMMA GetFact ==
  ASSUME NEW c, NEW keys, CacheInv(c, keys), NEW k
  PROVE  CacheInv(Get(c, k), keys)
<1>1. CASE ~Expired(c, k)
  BY <1>1 DEF Get
<1>2. CASE Expired(c, k)
  <2>1. Drop(c, k) \in [Cached(c) \ {k} -> 0..MaxNow]
    BY DropFact DEF CacheInv
  <2>2. PICK e \in [Cached(c) \ {k} -> 0..MaxNow] : e = Drop(c, k)
    BY <2>1
  <2>3. Get(c, k) = [entries |-> e, order |-> c.order]
    <3>1. Get(c, k) = [c EXCEPT !.entries = e]
      BY <1>2, <2>2 DEF Get
    <3>2. PICK f, o : c = [entries |-> f, order |-> o]
      BY DEF CacheInv
    <3>3. [c EXCEPT !.entries = e] = [entries |-> e, order |-> o] /\ c.order = o
      BY <3>2
    <3>4. QED
      BY <3>1, <3>3
  <2>4. PICK g : g = Get(c, k)
    OBVIOUS
  <2>5. g.entries = e /\ g.order = c.order /\ g = [entries |-> g.entries, order |-> g.order]
    BY <2>3, <2>4
  <2>6. Cached(g) = Cached(c) \ {k}
    BY <2>5 DEF Cached
  <2>7. g.entries \in [Cached(g) -> 0..MaxNow] /\ Cached(g) \subseteq keys
        /\ g.order \in Seq(keys) /\ Cached(g) \subseteq ToSet(g.order)
    BY <2>5, <2>6 DEF CacheInv, CacheType
  <2>8. CacheInv(g, keys)
    BY <2>5, <2>7 DEF CacheInv, CacheType
  <2>9. QED
    BY <2>4, <2>8
<1>3. QED
  BY <1>1, <1>2

\* A full cache is not empty, so there is a head of its order to drop.
LEMMA SetFact ==
  ASSUME WebTypeOK, NEW c, NEW keys, CacheInv(c, keys), NEW k \in keys
  PROVE  /\ CacheInv(Set(c, k), keys)
         /\ Cardinality(Cached(c)) >= CacheMax => c.order # <<>>
<1> DEFINE full == Cardinality(Cached(c)) >= CacheMax
           left == IF full THEN Drop(c, Head(c.order)) ELSE c.entries
           rest == IF full THEN Tail(c.order) ELSE c.order
<1>1. /\ c.entries \in [Cached(c) -> 0..MaxNow] /\ Cached(c) \subseteq keys
      /\ c.order \in Seq(keys) /\ Cached(c) \subseteq ToSet(c.order)
      /\ now \in 0..MaxNow
  BY DEF CacheInv, CacheType, WebTypeOK
<1>2. full => c.order # <<>>
  <2> SUFFICES ASSUME full, c.order = <<>> PROVE FALSE
    OBVIOUS
  <2>1. ToSet(c.order) = {}
    BY DEF ToSet
  <2>2. Cached(c) = {}
    BY <1>1, <2>1
  <2>3. Cardinality(Cached(c)) = 0 /\ CacheMax \in Nat \ {0}
    BY <2>2, FS_EmptySet, WebAssumption
  <2>4. QED
    BY <2>3
<1>3. left \in [DOMAIN left -> 0..MaxNow] /\ rest \in Seq(keys)
      /\ DOMAIN left \subseteq keys /\ DOMAIN left \subseteq ToSet(rest)
  <2>1. CASE full
    <3>1. left = Drop(c, Head(c.order)) /\ rest = Tail(c.order)
      BY <2>1
    <3>2. Drop(c, Head(c.order)) \in [Cached(c) \ {Head(c.order)} -> 0..MaxNow]
      BY DropFact DEF CacheInv
    <3>3. Tail(c.order) \in Seq(keys) /\ ToSet(c.order) \ {Head(c.order)} \subseteq ToSet(Tail(c.order))
      BY <1>1, <1>2, <2>1, OrderFact
    <3> HIDE DEF left, rest, full
    <3>4. QED
      BY <1>1, <3>1, <3>2, <3>3
  <2>2. CASE ~full
    <3>1. left = c.entries /\ rest = c.order
      BY <2>2
    <3> HIDE DEF left, rest, full
    <3>2. QED
      BY <1>1, <3>1
  <2>3. QED
    BY <2>1, <2>2
<1>4. PICK g : g = Set(c, k)
  OBVIOUS
<1>5. /\ g.entries = [e \in DOMAIN left \cup {k} |-> IF e = k THEN now ELSE left[e]]
      /\ g.order = Append(rest, k)
      /\ g = [entries |-> g.entries, order |-> g.order]
  <2>1. g = [entries |-> [e \in DOMAIN left \cup {k} |-> IF e = k THEN now ELSE left[e]],
             order |-> Append(rest, k)]
    BY <1>4 DEF Set
  <2> HIDE DEF left, rest, full
  <2>2. QED
    BY <2>1
<1> HIDE DEF left, rest
<1>6. Cached(g) = DOMAIN left \cup {k}
  BY <1>5 DEF Cached
<1>7. g.entries \in [Cached(g) -> 0..MaxNow] /\ Cached(g) \subseteq keys
  BY <1>1, <1>3, <1>5, <1>6
<1>8. g.order \in Seq(keys) /\ Cached(g) \subseteq ToSet(g.order)
  BY <1>3, <1>5, <1>6, OrderFact
<1>9. CacheInv(g, keys)
  BY <1>5, <1>7, <1>8 DEF CacheInv, CacheType
<1>10. QED
  BY <1>2, <1>4, <1>9

-----------------------------------------------------------------------------
(***************************************************************************)
(* The windows of the limiter.                                             *)
(***************************************************************************)
Request == [domain : Domains, at : 0..MaxNow]
Window == [count : 0..RateMax, resetAt : -1..MaxNow + Interval]

\* The requests of q to d, of those from lo to hi, and of those from lo on.
Of(q, d) == {i \in DOMAIN q : q[i].domain = d}
Between(q, d, lo, hi) == {i \in Of(q, d) : q[i].at \in lo..hi}
Since(q, d, lo) == {i \in Of(q, d) : q[i].at >= lo}

\* q, and a request to e at n.
Asking(q, e, n) == Append(q, [domain |-> e, at |-> n])

\* What the window w of d says of the requests q to d until n: it counts those
\* since it was opened, by one of them, and less than a window's worth is left
\* in the stretch of Interval before any request it may still take.
WindowOf(q, d, w, n) ==
  LET opened == w.resetAt - Interval IN
  /\ \A i \in Of(q, d) : q[i].at <= n /\ q[i].at <= w.resetAt
  /\ w.count = 0 => Of(q, d) = {} /\ w.resetAt = -1
  /\ w.count > 0 =>
       /\ opened <= n
       /\ Cardinality(Since(q, d, opened)) = w.count
       /\ \E i \in Of(q, d) : q[i].at = opened
       /\ \A s \in Int : s + Interval >= opened =>
            Cardinality(Between(q, d, s, opened - 1)) <= RateMax - 1
  /\ \A s \in Int : Cardinality(Between(q, d, s, s + Interval)) < 2 * RateMax

LEMMA RequestsTimed ==
  ASSUME NEW q \in Seq(Request), NEW d
  PROVE  \A i \in Of(q, d) : q[i].at \in Nat
<1>1. DOMAIN q = 1..Len(q) /\ Len(q) \in Nat /\ \A i \in DOMAIN q : q[i] \in Request
  OBVIOUS
<1>2. QED
  BY <1>1, WebAssumption DEF Of, Request

LEMMA RequestsFinite ==
  ASSUME NEW q \in Seq(Request), NEW d, NEW lo \in Int, NEW hi \in Int
  PROVE  /\ IsFiniteSet(Of(q, d))
         /\ IsFiniteSet(Between(q, d, lo, hi)) /\ Cardinality(Between(q, d, lo, hi)) \in Nat
         /\ IsFiniteSet(Since(q, d, lo)) /\ Cardinality(Since(q, d, lo)) \in Nat
<1>1. DOMAIN q = 1..Len(q) /\ Len(q) \in Nat /\ \A i \in DOMAIN q : q[i] \in Request
  OBVIOUS
<1>2. IsFiniteSet(DOMAIN q)
  BY <1>1, FS_Interval
<1>3. Of(q, d) \subseteq DOMAIN q /\ Between(q, d, lo, hi) \subseteq DOMAIN q
      /\ Since(q, d, lo) \subseteq DOMAIN q
  BY DEF Of, Between, Since
<1>4. IsFiniteSet(Of(q, d)) /\ IsFiniteSet(Between(q, d, lo, hi)) /\ IsFiniteSet(Since(q, d, lo))
  BY <1>2, <1>3, FS_Subset
<1>5. QED
  BY <1>4, FS_CardinalityType

\* A request more, at n.
LEMMA RequestAdded ==
  ASSUME NEW q \in Seq(Request), NEW d, NEW e \in Domains, NEW n \in 0..MaxNow,
         NEW p, p = Asking(q, e, n)
  PROVE  /\ p \in Seq(Request)
         /\ Len(q) + 1 \notin Of(q, d)
         /\ Of(p, d) = IF e = d THEN Of(q, d) \cup {Len(q) + 1} ELSE Of(q, d)
         /\ \A i \in Of(q, d) : p[i] = q[i]
         /\ p[Len(q) + 1].at = n
<1>1. PICK r \in Request : r = [domain |-> e, at |-> n]
  BY DEF Request
<1>2. r.domain = e /\ r.at = n
  BY <1>1
<1>3. /\ p \in Seq(Request) /\ Len(q) \in Nat /\ DOMAIN p = 1..Len(q) + 1
      /\ DOMAIN q = 1..Len(q)
      /\ p[Len(q) + 1] = r /\ \A i \in 1..Len(q) : p[i] = q[i]
  BY <1>1 DEF Asking
<1>4. QED
  BY <1>2, <1>3 DEF Of

\* Between two windows' worth: what is left of the first, and the second.
LEMMA TwoWindows ==
  ASSUME NEW q \in Seq(Request), NEW d, NEW opened \in Int, NEW count \in 0..RateMax,
         Cardinality(Since(q, d, opened)) = count,
         \A s \in Int : s + Interval >= opened =>
           Cardinality(Between(q, d, s, opened - 1)) <= RateMax - 1,
         NEW s \in Int, s + Interval >= opened
  PROVE  Cardinality(Between(q, d, s, s + Interval)) < 2 * RateMax
<1>1. RateMax \in Nat \ {0} /\ Interval \in Nat /\ s + Interval \in Int /\ opened - 1 \in Int
  BY WebAssumption
<1>2. PICK A, B, C : /\ A = Since(q, d, opened) /\ B = Between(q, d, s, opened - 1)
                     /\ C = Between(q, d, s, s + Interval)
  OBVIOUS
<1>3. /\ IsFiniteSet(A) /\ IsFiniteSet(B) /\ IsFiniteSet(C)
      /\ Cardinality(A) \in Nat /\ Cardinality(B) \in Nat /\ Cardinality(C) \in Nat
  BY <1>1, <1>2, RequestsFinite
<1>4. C \subseteq A \cup B
  <2>1. \A i \in Of(q, d) : q[i].at \in Nat
    BY RequestsTimed
  <2>2. QED
    BY <1>1, <1>2, <2>1 DEF Since, Between
<1>5. Cardinality(A \cup B) <= Cardinality(A) + Cardinality(B) /\ IsFiniteSet(A \cup B)
      /\ Cardinality(A \cup B) \in Nat
  <2>1. /\ IsFiniteSet(A \cup B) /\ IsFiniteSet(A \cap B)
        /\ Cardinality(A \cup B) = Cardinality(A) + Cardinality(B) - Cardinality(A \cap B)
    BY <1>3, FS_Union, FS_Intersection
  <2>2. Cardinality(A \cap B) \in Nat /\ Cardinality(A \cup B) \in Nat
    BY <2>1, FS_CardinalityType
  <2>3. QED
    BY <1>3, <2>1, <2>2
<1>6. Cardinality(C) <= Cardinality(A \cup B)
  BY <1>4, <1>5, FS_Subset
<1>7. Cardinality(A) = count /\ Cardinality(B) <= RateMax - 1
  BY <1>2
<1>8. QED
  BY <1>1, <1>2, <1>3, <1>5, <1>6, <1>7

\* Time passes.
LEMMA WindowTicks ==
  ASSUME NEW q \in Seq(Request), NEW d, NEW w \in Window, NEW n \in Int, WindowOf(q, d, w, n)
  PROVE  WindowOf(q, d, w, n + 1)
<1>1. \A i \in Of(q, d) : q[i].at \in Nat
  BY RequestsTimed
<1>2. w.resetAt - Interval \in Int
  BY WebAssumption DEF Window
<1>3. PICK o \in Int : o = w.resetAt - Interval
  BY <1>2
<1>4. \A i \in Of(q, d) : q[i].at <= n + 1 /\ q[i].at <= w.resetAt
  BY <1>1 DEF WindowOf
<1>5. o <= n => o <= n + 1
  OBVIOUS
<1>6. QED
  BY <1>3, <1>4, <1>5 DEF WindowOf

\* A stretch that the request that was added is not in is as before.
LEMMA SameBetween ==
  ASSUME NEW q \in Seq(Request), NEW d, NEW e \in Domains, NEW n \in 0..MaxNow,
         NEW p, p = Asking(q, e, n), NEW lo \in Int, NEW hi \in Int, e # d \/ hi < n
  PROVE  Between(p, d, lo, hi) = Between(q, d, lo, hi)
<1>1. /\ Len(q) + 1 \notin Of(q, d)
      /\ Of(p, d) = IF e = d THEN Of(q, d) \cup {Len(q) + 1} ELSE Of(q, d)
      /\ \A i \in Of(q, d) : p[i] = q[i]
      /\ p[Len(q) + 1].at = n
  BY RequestAdded
<1>2. n \in Int
  BY WebAssumption
<1>3. ~(n \in lo..hi) \/ e # d
  BY <1>2
<1>4. QED
  BY <1>1, <1>3 DEF Between

LEMMA SinceGrows ==
  ASSUME NEW q \in Seq(Request), NEW d \in Domains, NEW n \in 0..MaxNow,
         NEW p, p = Asking(q, d, n), NEW lo \in Int, lo <= n
  PROVE  Since(p, d, lo) = Since(q, d, lo) \cup {Len(q) + 1}
<1>1. /\ Len(q) + 1 \notin Of(q, d)
      /\ Of(p, d) = Of(q, d) \cup {Len(q) + 1}
      /\ \A i \in Of(q, d) : p[i] = q[i]
      /\ p[Len(q) + 1].at = n
  BY RequestAdded
<1>2. n >= lo
  BY WebAssumption
<1>3. QED
  BY <1>1, <1>2 DEF Since

\* A request to another domain.
LEMMA WindowOfOther ==
  ASSUME NEW q \in Seq(Request), NEW d, NEW e \in Domains, NEW n \in 0..MaxNow,
         NEW p, p = Asking(q, e, n), e # d,
         NEW w \in Window, WindowOf(q, d, w, n)
  PROVE  WindowOf(p, d, w, n)
<1>1. Of(p, d) = Of(q, d) /\ \A i \in Of(q, d) : p[i] = q[i]
  BY RequestAdded
<1>2. /\ \A lo, hi \in Int : Between(p, d, lo, hi) = Between(q, d, lo, hi)
      /\ \A lo \in Int : Since(p, d, lo) = Since(q, d, lo)
  <2>1. ASSUME NEW lo \in Int, NEW hi \in Int PROVE Between(p, d, lo, hi) = Between(q, d, lo, hi)
    BY SameBetween
  <2>2. \A lo \in Int : Since(p, d, lo) = Since(q, d, lo)
    BY <1>1 DEF Since
  <2>3. QED
    BY <2>1, <2>2
<1>3. Interval \in Int /\ w.resetAt \in Int
  BY WebAssumption DEF Window
<1>4. PICK o \in Int : o = w.resetAt - Interval
  BY <1>3
<1>5. o - 1 \in Int /\ \A s \in Int : s + Interval \in Int
  BY <1>3
<1>6. QED
  BY ZenonT(60), <1>1, <1>2, <1>4, <1>5 DEF WindowOf

\* A request that opens a window: the last one was over.
LEMMA WindowOpens ==
  ASSUME NEW q \in Seq(Request), NEW d \in Domains, NEW n \in 0..MaxNow,
         NEW p, p = Asking(q, d, n),
         NEW w \in Window, WindowOf(q, d, w, n), n > w.resetAt
  PROVE  WindowOf(p, d, [count |-> 1, resetAt |-> n + Interval], n)
<1>1. /\ RateMax \in Nat \ {0} /\ Interval \in Nat /\ n \in Nat
      /\ w.resetAt \in Int /\ w.count \in 0..RateMax /\ (w.count # 0 => w.count > 0)
  BY WebAssumption DEF Window
<1>2. PICK o \in Int : o = w.resetAt - Interval
  BY <1>1
<1>3. \A i \in Of(q, d) : q[i].at \in Nat
  BY RequestsTimed
<1>4. /\ p \in Seq(Request) /\ Len(q) + 1 \notin Of(q, d)
      /\ Of(p, d) = Of(q, d) \cup {Len(q) + 1}
      /\ \A i \in Of(q, d) : p[i] = q[i]
      /\ p[Len(q) + 1].at = n
  BY SMTT(30), RequestAdded
<1>5. /\ \A lo, hi \in Int : hi < n => Between(p, d, lo, hi) = Between(q, d, lo, hi)
      /\ Since(p, d, n) = Since(q, d, n) \cup {Len(q) + 1}
  <2>1. n \in Int /\ n <= n
    BY <1>1
  <2>2. ASSUME NEW lo \in Int, NEW hi \in Int, hi < n
        PROVE  Between(p, d, lo, hi) = Between(q, d, lo, hi)
    BY <2>2, SameBetween
  <2>3. ASSUME NEW lo \in Int, lo <= n PROVE Since(p, d, lo) = Since(q, d, lo) \cup {Len(q) + 1}
    BY <2>3, SinceGrows
  <2>4. QED
    BY <2>1, <2>2, <2>3
<1>6. /\ \A i \in Of(q, d) : q[i].at <= n /\ q[i].at <= w.resetAt
      /\ w.count = 0 => Of(q, d) = {}
      /\ w.count > 0 => /\ Cardinality(Since(q, d, o)) = w.count
                        /\ \E i \in Of(q, d) : q[i].at = o
      /\ \A s \in Int : Cardinality(Between(q, d, s, s + Interval)) < 2 * RateMax
  BY <1>2 DEF WindowOf
<1>7. \A i \in Of(p, d) : p[i].at <= n /\ p[i].at <= n + Interval
  <2>1. ASSUME NEW i \in Of(q, d) PROVE p[i].at <= n /\ p[i].at <= n + Interval
    <3>1. q[i].at \in Nat /\ q[i].at <= n /\ p[i] = q[i]
      BY <1>3, <1>4, <1>6
    <3>2. QED
      BY <1>1, <3>1
  <2>2. n <= n /\ n <= n + Interval
    BY <1>1
  <2>3. QED
    BY <1>4, <2>1, <2>2
<1>8. Cardinality(Since(p, d, n)) = 1
  <2>1. ASSUME NEW i \in Of(q, d) PROVE ~(q[i].at >= n)
    <3>1. q[i].at \in Nat /\ q[i].at <= w.resetAt
      BY <1>3, <1>6
    <3>2. QED
      BY <1>1, <3>1
  <2>2. Since(q, d, n) = {}
    BY <2>1 DEF Since
  <2>3. Since(p, d, n) = {Len(q) + 1}
    BY <1>5, <2>2
  <2>4. QED
    BY <2>3, FS_Singleton
<1>9. ASSUME NEW s \in Int, s + Interval >= n
      PROVE  Cardinality(Between(p, d, s, n - 1)) <= RateMax - 1
  <2>1. n - 1 \in Int /\ n - 1 < n
    BY <1>1
  <2>2. PICK B : B = Between(q, d, s, n - 1)
    OBVIOUS
  <2>3. Between(p, d, s, n - 1) = B
    BY <1>5, <2>1, <2>2
  <2>4. CASE w.count = 0
    <3>1. B = {}
      BY <1>6, <2>2, <2>4 DEF Between
    <3>2. Cardinality(B) = 0
      BY <3>1, FS_EmptySet
    <3>3. QED
      BY <1>1, <2>3, <3>2
  <2>5. CASE w.count # 0
    <3>1. PICK i \in Of(q, d) : q[i].at = o
      BY <1>1, <1>6, <2>5
    <3>2. PICK A : A = Since(q, d, o)
      OBVIOUS
    <3>3. o < s /\ o <= o
      BY <1>1, <1>2, <1>9
    <3>4. i \in A
      BY <3>1, <3>2, <3>3 DEF Since
    <3>5. B \subseteq A \ {i}
      BY <1>3, <2>1, <2>2, <3>1, <3>2, <3>3 DEF Since, Between
    <3>6. IsFiniteSet(A) /\ Cardinality(A) = w.count
      <4>1. IsFiniteSet(A) /\ w.count > 0
        BY <1>1, <2>5, <3>2, RequestsFinite
      <4>2. QED
        BY <1>6, <3>2, <4>1
    <3>7. IsFiniteSet(A \ {i}) /\ Cardinality(A \ {i}) = w.count - 1
      BY <3>4, <3>6, FS_RemoveElement
    <3>8. Cardinality(B) <= w.count - 1 /\ Cardinality(B) \in Nat
      BY <3>5, <3>7, FS_Subset, FS_CardinalityType
    <3>9. QED
      BY <1>1, <2>3, <3>8
  <2>6. QED
    BY <2>4, <2>5
<1>10. ASSUME NEW s \in Int PROVE Cardinality(Between(p, d, s, s + Interval)) < 2 * RateMax
  <2>1. CASE s + Interval >= n
    <3>1. n \in Int /\ 1 \in 0..RateMax
      BY <1>1
    <3>2. QED
      BY <1>4, <1>8, <1>9, <2>1, <3>1, TwoWindows
  <2>2. CASE s + Interval < n
    <3>1. s + Interval \in Int
      BY <1>1
    <3>2. QED
      BY <1>5, <1>6, <2>2, <3>1
  <2>3. QED
    BY <1>1, <2>1, <2>2
<1>11. PICK v : v = [count |-> 1, resetAt |-> n + Interval]
  OBVIOUS
<1>12. v.count = 1 /\ v.resetAt = n + Interval /\ v.resetAt - Interval = n
  BY <1>1, <1>11
<1>13. \E i \in Of(p, d) : p[i].at = n
  BY <1>4
<1>14. v.count > 0 /\ v.count # 0 /\ n <= n
  BY <1>1, <1>12
<1>15. WindowOf(p, d, v, n)
  BY <1>7, <1>8, <1>9, <1>10, <1>12, <1>13, <1>14 DEF WindowOf
<1>16. QED
  BY <1>11, <1>15

\* A request the open window takes.
LEMMA WindowFills ==
  ASSUME NEW q \in Seq(Request), NEW d \in Domains, NEW n \in 0..MaxNow,
         NEW p, p = Asking(q, d, n),
         NEW w \in Window, WindowOf(q, d, w, n), ~(n > w.resetAt), w.count < RateMax,
         NEW v, v.count = w.count + 1, v.resetAt = w.resetAt
  PROVE  WindowOf(p, d, v, n)
<1>1. /\ RateMax \in Nat \ {0} /\ Interval \in Nat /\ n \in Nat
      /\ w.resetAt \in Int /\ w.count \in 0..RateMax
  BY WebAssumption DEF Window
<1>2. PICK o \in Int : o = w.resetAt - Interval
  BY <1>1
<1>3. \A i \in Of(q, d) : q[i].at \in Nat
  BY RequestsTimed
<1>4. /\ p \in Seq(Request) /\ Len(q) + 1 \notin Of(q, d)
      /\ Of(p, d) = Of(q, d) \cup {Len(q) + 1}
      /\ \A i \in Of(q, d) : p[i] = q[i]
      /\ p[Len(q) + 1].at = n
  BY RequestAdded
<1>5. w.count > 0
  <2>1. w.count = 0 => w.resetAt = -1
    BY DEF WindowOf
  <2>2. QED
    BY <1>1, <2>1
<1>6. /\ \A i \in Of(q, d) : q[i].at <= n /\ q[i].at <= w.resetAt
      /\ o <= n /\ Cardinality(Since(q, d, o)) = w.count
      /\ \E i \in Of(q, d) : q[i].at = o
      /\ \A s \in Int : s + Interval >= o => Cardinality(Between(q, d, s, o - 1)) <= RateMax - 1
      /\ \A s \in Int : Cardinality(Between(q, d, s, s + Interval)) < 2 * RateMax
  BY <1>2, <1>5 DEF WindowOf
<1>7. /\ \A lo, hi \in Int : hi < n => Between(p, d, lo, hi) = Between(q, d, lo, hi)
      /\ Since(p, d, o) = Since(q, d, o) \cup {Len(q) + 1}
  <2>1. n \in Int /\ o <= n
    BY <1>1, <1>6
  <2>2. ASSUME NEW lo \in Int, NEW hi \in Int, hi < n
        PROVE  Between(p, d, lo, hi) = Between(q, d, lo, hi)
    BY <2>2, SameBetween
  <2>3. ASSUME NEW lo \in Int, lo <= n PROVE Since(p, d, lo) = Since(q, d, lo) \cup {Len(q) + 1}
    BY <2>3, SinceGrows
  <2>4. QED
    BY <2>1, <2>2, <2>3
<1>8. \A i \in Of(p, d) : p[i].at <= n /\ p[i].at <= w.resetAt
  <2>1. ASSUME NEW i \in Of(q, d) PROVE p[i].at <= n /\ p[i].at <= w.resetAt
    BY <1>4, <1>6
  <2>2. n <= n /\ n <= w.resetAt
    BY <1>1
  <2>3. QED
    BY <1>4, <2>1, <2>2
<1>9. Cardinality(Since(p, d, o)) = w.count + 1
  <2>1. IsFiniteSet(Since(q, d, o)) /\ Len(q) + 1 \notin Since(q, d, o)
    BY <1>4, RequestsFinite DEF Since
  <2>2. PICK A : A = Since(q, d, o)
    OBVIOUS
  <2>3. Cardinality(A \cup {Len(q) + 1}) = Cardinality(A) + 1
    BY <2>1, <2>2, FS_AddElement
  <2>4. QED
    BY <1>6, <1>7, <2>2, <2>3
<1>10. ASSUME NEW s \in Int, s + Interval >= o
       PROVE  Cardinality(Between(p, d, s, o - 1)) <= RateMax - 1
  <2>1. o - 1 \in Int /\ o - 1 < n
    <3>1. o <= n
      BY <1>6
    <3>2. QED
      BY <1>1, <3>1
  <2>2. QED
    BY <1>6, <1>7, <1>10, <2>1
<1>11. ASSUME NEW s \in Int PROVE Cardinality(Between(p, d, s, s + Interval)) < 2 * RateMax
  <2>1. CASE s + Interval >= o
    <3>1. PICK k \in 0..RateMax : k = w.count + 1
      BY <1>1
    <3>2. QED
      BY <1>4, <1>9, <1>10, <2>1, <3>1, TwoWindows
  <2>2. CASE s + Interval < o
    <3>1. s + Interval \in Int /\ s + Interval < n
      BY <1>1, <1>6, <2>2
    <3>2. QED
      BY <1>6, <1>7, <3>1
  <2>3. QED
    BY <1>1, <2>1, <2>2
<1>12. v.resetAt - Interval = o /\ v.count > 0 /\ v.count # 0
  BY <1>1, <1>2, <1>5
<1>13. \E i \in Of(p, d) : p[i].at = o
  BY <1>4, <1>6
<1>14. \A i \in Of(p, d) : p[i].at <= n /\ p[i].at <= v.resetAt
  BY <1>8
<1>15. v.count > 0 => /\ o <= n
                     /\ Cardinality(Since(p, d, o)) = v.count
                     /\ \E i \in Of(p, d) : p[i].at = o
                     /\ \A s \in Int : s + Interval >= o =>
                          Cardinality(Between(p, d, s, o - 1)) <= RateMax - 1
  BY <1>6, <1>9, <1>10, <1>13
<1>16. QED
  BY <1>11, <1>12, <1>14, <1>15 DEF WindowOf

-----------------------------------------------------------------------------
(***************************************************************************)
(* The tools that share memory.                                            *)
(***************************************************************************)
TurnKeys ==
  \A t \in Turns : /\ At(t, "searching") => turn[t].key \in Queries
                   /\ At(t, "limit") \/ At(t, "fetching") => turn[t].key \in URLs

CachesInv == CacheInv(webCache, Queries) /\ CacheInv(fetchCache, URLs)

WindowsInv == \A d \in Domains : WindowOf(asked, d, windows[d], now)

WebInv == WebTypeOK /\ TurnKeys /\ CachesInv /\ WindowsInv

LEMMA WebInitInv == WebInit => WebInv
<1> SUFFICES ASSUME WebInit PROVE WebInv
  OBVIOUS
<1> USE DEF WebInit
<1>1. CacheInv(webCache, Queries) /\ CacheInv(fetchCache, URLs)
  <2>1. PICK f : f = [k \in {} |-> 0]
    OBVIOUS
  <2>2. DOMAIN f = {} /\ f \in [{} -> 0..MaxNow]
    BY <2>1
  <2>3. PICK c : c = [entries |-> f, order |-> <<>>]
    OBVIOUS
  <2>4. webCache = c /\ fetchCache = c /\ c.entries = f /\ c.order = <<>>
        /\ c = [entries |-> c.entries, order |-> c.order]
    BY <2>1, <2>3 DEF NewCache
  <2>5. Cached(c) = {}
    BY <2>2, <2>4 DEF Cached
  <2>6. \A keys : CacheInv(c, keys)
    BY <2>2, <2>4, <2>5 DEF CacheInv, CacheType
  <2>7. QED
    BY <2>4, <2>6
<1>2. now \in 0..MaxNow /\ made \in 0..MaxCalls
  BY WebAssumption
<1>3. windows \in [Domains -> Window]
  BY WebAssumption DEF Window
<1>4. turn \in [Turns -> [pc : {"idle", "searching", "limit", "fetching"},
                         key : Queries \cup URLs \cup {"none"}]]
  OBVIOUS
<1>5. asked \in Seq(Request) /\ DOMAIN asked = {}
  OBVIOUS
<1>6. TurnKeys
  BY DEF TurnKeys, At
<1>7. ASSUME NEW d \in Domains PROVE WindowOf(asked, d, windows[d], now)
  <2>1. Of(asked, d) = {}
    BY <1>5 DEF Of
  <2>2. windows[d].count = 0 /\ windows[d].resetAt = -1
    OBVIOUS
  <2>3. ASSUME NEW s \in Int PROVE Cardinality(Between(asked, d, s, s + Interval)) < 2 * RateMax
    <3>1. Between(asked, d, s, s + Interval) = {}
      BY <2>1 DEF Between
    <3>2. Cardinality(Between(asked, d, s, s + Interval)) = 0
      BY <3>1, FS_EmptySet
    <3>3. QED
      BY <3>2, WebAssumption
  <2>4. ~(windows[d].count > 0)
    BY <2>2
  <2>5. QED
    BY <2>1, <2>2, <2>3, <2>4 DEF WindowOf
<1>8. QED
  BY <1>1, <1>2, <1>3, <1>4, <1>5, <1>6, <1>7
     DEF WebInv, WebTypeOK, CachesInv, WindowsInv, CacheInv, Request, Window

\* A turn that becomes what it may become.
LEMMA TurnMoves ==
  ASSUME WebTypeOK, TurnKeys, NEW t \in Turns, NEW pc, NEW k,
         \/ pc = "idle" /\ k = "none"
         \/ pc = "searching" /\ k \in Queries
         \/ pc \in {"limit", "fetching"} /\ k \in URLs,
         Become(t, pc, k)
  PROVE  /\ TurnKeys'
         /\ turn' \in [Turns -> [pc : {"idle", "searching", "limit", "fetching"},
                                 key : Queries \cup URLs \cup {"none"}]]
<1>1. turn' = [turn EXCEPT ![t] = [pc |-> pc, key |-> k]]
  BY DEF Become
<1>2. turn \in [Turns -> [pc : {"idle", "searching", "limit", "fetching"},
                          key : Queries \cup URLs \cup {"none"}]]
  BY DEF WebTypeOK
<1>3. turn' \in [Turns -> [pc : {"idle", "searching", "limit", "fetching"},
                           key : Queries \cup URLs \cup {"none"}]]
  BY <1>1, <1>2
<1>4. TurnKeys'
  BY <1>1, <1>2 DEF TurnKeys, At
<1>5. QED
  BY <1>3, <1>4

LEMMA WebStepInv == WebInv /\ [WebNext]_webVars => WebInv'
<1> SUFFICES ASSUME WebInv, [WebNext]_webVars PROVE WebInv'
  OBVIOUS
<1>1. /\ now \in 0..MaxNow /\ made \in 0..MaxCalls
      /\ CacheType(webCache, Queries) /\ CacheType(fetchCache, URLs)
      /\ windows \in [Domains -> Window] /\ asked \in Seq(Request)
      /\ turn \in [Turns -> [pc : {"idle", "searching", "limit", "fetching"},
                             key : Queries \cup URLs \cup {"none"}]]
      /\ MaxNow \in Nat /\ MaxCalls \in Nat
  BY WebAssumption DEF WebInv, WebTypeOK, Window, Request
<1>2. WebTypeOK /\ TurnKeys /\ CacheInv(webCache, Queries) /\ CacheInv(fetchCache, URLs)
      /\ \A d \in Domains : WindowOf(asked, d, windows[d], now)
  BY DEF WebInv, CachesInv, WindowsInv
<1> DEFINE TurnsOK == /\ TurnKeys'
                      /\ turn' \in [Turns -> [pc : {"idle", "searching", "limit", "fetching"},
                                              key : Queries \cup URLs \cup {"none"}]]
<1>3. ASSUME now' \in 0..MaxNow, made' \in 0..MaxCalls, windows' \in [Domains -> Window],
             asked' \in Seq(Request), TurnsOK,
             CacheInv(webCache', Queries), CacheInv(fetchCache', URLs),
             \A d \in Domains : WindowOf(asked', d, windows'[d], now')
      PROVE  WebInv'
  BY <1>3 DEF WebInv, WebTypeOK, CachesInv, WindowsInv, CacheInv, Request, Window
<1>4. ASSUME UNCHANGED <<now, windows, asked>>, made' \in 0..MaxCalls, TurnsOK,
             CacheInv(webCache', Queries), CacheInv(fetchCache', URLs)
      PROVE  WebInv'
  <2>1. \A d \in Domains : WindowOf(asked', d, windows'[d], now')
    BY <1>2, <1>4
  <2>2. QED
    BY <1>1, <1>3, <1>4, <2>1
<1>5. CASE Tick
  <2>1. now' = now + 1 /\ now' \in 0..MaxNow
    BY <1>1, <1>5 DEF Tick
  <2>2. /\ webCache' = webCache /\ fetchCache' = fetchCache /\ windows' = windows
        /\ turn' = turn /\ made' = made /\ asked' = asked
    BY <1>5 DEF Tick
  <2>3. ASSUME NEW d \in Domains PROVE WindowOf(asked, d, windows[d], now + 1)
    <3>1. windows[d] \in Window /\ now \in Int /\ WindowOf(asked, d, windows[d], now)
      BY <1>1, <1>2
    <3>2. QED
      BY <1>1, <3>1, WindowTicks
  <2>4. TurnsOK
    BY <1>1, <1>2, <2>2 DEF TurnKeys, At
  <2>5. QED
    BY <1>1, <1>2, <1>3, <2>1, <2>2, <2>3, <2>4
<1>6. ASSUME NEW t \in Turns, NEW q \in Queries, Search(t, q) PROVE WebInv'
  <2>1. /\ made' \in 0..MaxCalls /\ webCache' = Get(webCache, q) /\ fetchCache' = fetchCache
        /\ UNCHANGED <<now, windows, asked>>
    BY <1>1, <1>6 DEF Search
  <2>2. CacheInv(webCache', Queries) /\ CacheInv(fetchCache', URLs)
    BY <1>2, <2>1, GetFact
  <2>3. Become(t, "idle", "none") \/ Become(t, "searching", q)
    BY <1>6 DEF Search, Return
  <2>4. TurnsOK
    BY <1>2, <2>3, TurnMoves
  <2>5. QED
    BY <1>4, <2>1, <2>2, <2>4
<1>7. ASSUME NEW t \in Turns, NEW u \in URLs, Fetch(t, u) PROVE WebInv'
  <2>1. /\ made' \in 0..MaxCalls /\ fetchCache' = Get(fetchCache, u) /\ webCache' = webCache
        /\ UNCHANGED <<now, windows, asked>>
    BY <1>1, <1>7 DEF Fetch
  <2>2. CacheInv(webCache', Queries) /\ CacheInv(fetchCache', URLs)
    BY <1>2, <2>1, GetFact
  <2>3. Become(t, "idle", "none") \/ Become(t, "limit", u)
    BY <1>7 DEF Fetch, Return
  <2>4. TurnsOK
    BY <1>2, <2>3, TurnMoves
  <2>5. QED
    BY <1>4, <2>1, <2>2, <2>4
<1>8. ASSUME NEW t \in Turns, Return(t), UNCHANGED <<now, windows, asked, made>>,
             CacheInv(webCache', Queries), CacheInv(fetchCache', URLs)
      PROVE  WebInv'
  <2>1. TurnsOK
    BY <1>2, <1>8, TurnMoves DEF Return
  <2>2. QED
    BY <1>1, <1>4, <1>8, <2>1
<1>9. ASSUME NEW t \in Turns, SearchAnswered(t) PROVE WebInv'
  <2>1. turn[t].key \in Queries /\ webCache' = Set(webCache, turn[t].key)
        /\ fetchCache' = fetchCache /\ UNCHANGED <<now, windows, asked, made>> /\ Return(t)
    BY <1>2, <1>9 DEF SearchAnswered, TurnKeys
  <2>2. CacheInv(webCache', Queries)
    BY <1>2, <2>1, SetFact
  <2>3. QED
    BY <1>2, <1>8, <2>1, <2>2
<1>10. ASSUME NEW t \in Turns, SearchUnavailable(t) PROVE WebInv'
  <2>1. webCache' = Get(webCache, turn[t].key)
        /\ fetchCache' = fetchCache /\ UNCHANGED <<now, windows, asked, made>> /\ Return(t)
    BY <1>10 DEF SearchUnavailable
  <2>2. CacheInv(webCache', Queries)
    BY <1>2, <2>1, GetFact
  <2>3. QED
    BY <1>2, <1>8, <2>1, <2>2
<1>11. ASSUME NEW t \in Turns, FetchAllowed(t) PROVE WebInv'
  <2>1. PICK k \in URLs : k = turn[t].key
    BY <1>2, <1>11 DEF FetchAllowed, TurnKeys
  <2>2. PICK d \in Domains : d = Host[k]
    BY <2>1 DEF Domains
  <2>3. /\ Allow(d) /\ windows' = [windows EXCEPT ![d] = Counted(d)]
        /\ asked' = Asking(asked, d, now) /\ Become(t, "fetching", k)
        /\ UNCHANGED <<now, webCache, fetchCache, made>>
    BY <1>11, <2>1, <2>2 DEF FetchAllowed, Asking
  <2>4. PICK p : p = Asking(asked, d, now)
    OBVIOUS
  <2>5. p \in Seq(Request)
    BY <1>1, <2>4, RequestAdded
  <2>6. PICK w \in Window : w = windows[d]
    BY <1>1
  <2>7. w.count \in 0..RateMax /\ w.resetAt \in -1..MaxNow + Interval /\ RateMax \in Nat \ {0}
        /\ Interval \in Nat /\ WindowOf(asked, d, w, now)
    BY <1>2, <2>6, WebAssumption DEF Window
  <2>8. Counted(d) \in Window /\ WindowOf(p, d, Counted(d), now)
    <3>1. CASE now > w.resetAt
      <4>1. Counted(d) = [count |-> 1, resetAt |-> now + Interval]
        BY <2>6, <3>1 DEF Counted, Fresh
      <4>2. 1 \in 0..RateMax /\ now + Interval \in -1..MaxNow + Interval
        BY <1>1, <2>7
      <4>3. [count |-> 1, resetAt |-> now + Interval] \in Window
        BY <4>2 DEF Window
      <4>4. WindowOf(p, d, [count |-> 1, resetAt |-> now + Interval], now)
        BY <1>1, <2>4, <2>7, <3>1, WindowOpens
      <4>5. QED
        BY <4>1, <4>3, <4>4
    <3>2. CASE ~(now > w.resetAt)
      <4>1. w.count < RateMax
        BY <2>3, <2>6, <3>2 DEF Allow, Fresh
      <4>2. Counted(d) = [w EXCEPT !.count = w.count + 1]
        BY <2>6, <3>2 DEF Counted, Fresh
      <4>3. PICK v : v = [w EXCEPT !.count = w.count + 1]
        OBVIOUS
      <4>4. w.count + 1 \in 0..RateMax
        BY <2>7, <4>1
      <4>5. v \in Window /\ v.count = w.count + 1 /\ v.resetAt = w.resetAt
        BY <4>3, <4>4 DEF Window
      <4>6. WindowOf(p, d, v, now)
        BY <1>1, <2>4, <2>7, <3>2, <4>1, <4>5, WindowFills
      <4>7. QED
        BY <4>2, <4>3, <4>5, <4>6
    <3>3. QED
      BY <3>1, <3>2
  <2>9. PICK v \in Window : v = Counted(d)
    BY <2>8
  <2>10. windows' = [windows EXCEPT ![d] = v]
    BY <2>3, <2>9
  <2>11. windows' \in [Domains -> Window] /\ windows'[d] = v
         /\ \A e \in Domains \ {d} : windows'[e] = windows[e]
    BY <1>1, <2>10
  <2>12. ASSUME NEW e \in Domains PROVE WindowOf(p, e, windows'[e], now)
    <3>1. CASE e = d
      BY <2>8, <2>9, <2>11, <3>1
    <3>2. CASE e # d
      <4>1. PICK x \in Window : x = windows[e]
        BY <1>1
      <4>2. WindowOf(asked, e, x, now)
        BY <1>2, <4>1
      <4>3. WindowOf(p, e, x, now)
        BY <1>1, <2>4, <3>2, <4>2, WindowOfOther
      <4>4. windows'[e] = x
        BY <2>11, <3>2, <4>1
      <4>5. QED
        BY <4>3, <4>4
    <3>3. QED
      BY <3>1, <3>2
  <2>13. TurnsOK
    BY <1>2, <2>3, TurnMoves
  <2>14. QED
    <3>1. now' = now /\ made' = made /\ asked' = p /\ webCache' = webCache /\ fetchCache' = fetchCache
      BY <2>3, <2>4
    <3>2. \A e \in Domains : WindowOf(asked', e, windows'[e], now')
      BY <2>12, <3>1
    <3>3. CacheInv(webCache', Queries) /\ CacheInv(fetchCache', URLs)
      BY <1>2, <3>1
    <3>4. now' \in 0..MaxNow /\ made' \in 0..MaxCalls /\ asked' \in Seq(Request)
      BY <1>1, <2>5, <3>1
    <3>5. QED
      BY <1>3, <2>11, <2>13, <3>2, <3>3, <3>4
<1>12. ASSUME NEW t \in Turns, FetchLimited(t) PROVE WebInv'
  BY <1>2, <1>8, <1>12 DEF FetchLimited
<1>13. ASSUME NEW t \in Turns, FetchAnswered(t) PROVE WebInv'
  <2>1. turn[t].key \in URLs /\ fetchCache' = Set(fetchCache, turn[t].key)
        /\ webCache' = webCache /\ UNCHANGED <<now, windows, asked, made>> /\ Return(t)
    BY <1>2, <1>13 DEF FetchAnswered, TurnKeys
  <2>2. CacheInv(fetchCache', URLs)
    BY <1>2, <2>1, SetFact
  <2>3. QED
    BY <1>2, <1>8, <2>1, <2>2
<1>14. ASSUME NEW t \in Turns, FetchUnavailable(t) PROVE WebInv'
  BY <1>2, <1>8, <1>14 DEF FetchUnavailable
<1>15. CASE UNCHANGED webVars
  <2>1. /\ UNCHANGED <<now, windows, asked>>
        /\ made' = made /\ turn' = turn /\ webCache' = webCache /\ fetchCache' = fetchCache
    BY <1>15 DEF webVars
  <2>2. TurnsOK
    BY <1>1, <1>2, <2>1 DEF TurnKeys, At
  <2>3. CacheInv(webCache', Queries) /\ CacheInv(fetchCache', URLs)
    BY <1>2, <2>1
  <2>4. QED
    BY <1>1, <1>4, <2>1, <2>2, <2>3
<1>16. QED
  BY <1>5, <1>6, <1>7, <1>9, <1>10, <1>11, <1>12, <1>13, <1>14, <1>15 DEF WebNext

LEMMA WebInvAlways == WebSpec => []WebInv
<1>1. WebInv /\ [WebNext]_webVars => WebInv'
  BY WebStepInv
<1>2. QED
  BY WebInitInv, <1>1, PTL DEF WebSpec

\* The caches, the windows, the turns and the requests keep their types.
THEOREM WebTypes == WebSpec => []WebTypeOK
<1>1. WebInv => WebTypeOK
  BY DEF WebInv
<1>2. QED
  BY WebInvAlways, <1>1, PTL

\* Set finds a head of order to drop in every full cache, for any CacheMax.
THEOREM CachedIsOrderedAlways == WebSpec => []CachedIsOrdered
<1>1. WebInv => CachedIsOrdered
  BY DEF WebInv, CachesInv, CacheInv, CachedIsOrdered
<1>2. QED
  BY WebInvAlways, <1>1, PTL

\* No stretch of Interval holds two windows' worth of requests to a domain.
THEOREM WindowsRespectLimitAlways == WebSpec => []WindowsRespectLimit
<1>1. ASSUME WebInv PROVE WindowsRespectLimit
  <2>1. \A s \in 0..now : s \in Int
    OBVIOUS
  <2>2. \A d \in Domains, s \in 0..now :
          Cardinality(Between(asked, d, s, s + Interval)) < 2 * RateMax
    BY <1>1, <2>1 DEF WebInv, WindowsInv, WindowOf
  <2>3. \A d \in Domains, s \in 0..now :
          Between(asked, d, s, s + Interval) = {i \in DOMAIN asked : /\ asked[i].domain = d
                                                                  /\ asked[i].at \in s..s + Interval}
    BY DEF Between, Of
  <2>4. QED
    BY <2>2, <2>3 DEF WindowsRespectLimit
<1>2. QED
  BY WebInvAlways, <1>1, PTL

-----------------------------------------------------------------------------
(***************************************************************************)
(* The tools that share the disk: what holds of each call, file and inode. *)
(***************************************************************************)
Stages == {"idle", "truncate", "write", "append", "rename", "done"}

CallRecord == [pc : Stages, path : Files \cup {NoFile}, ino : Calls \cup {NoFile},
               dest : TrashNames \cup {NoTrash}, at : 0..MaxClock, saw : SUBSET Calls]

DiskTypes ==
  /\ SandboxTypeOK
  /\ call \in [Calls -> CallRecord]
  /\ taken \in [DOMAIN taken -> 0..MaxClock]
  /\ appended \in [DOMAIN appended -> DOMAIN inodes]
  /\ inodes \in [DOMAIN inodes -> Seq(Calls)]

\* Inodes that a name or an open file holds exist, and a call that has not
\* opened a file has made none.
InodesInv ==
  /\ \A f \in Files : files[f] # NoFile => Born(files[f])
  /\ \A n \in TrashNames : trash[n] # NoFile => trash[n] \in DOMAIN taken
  /\ \A c \in Calls :
       /\ ~In(c, "idle") => Path(c) \in Files
       /\ In(c, "write") \/ In(c, "append") => Born(call[c].ino)
       /\ In(c, "idle") \/ In(c, "truncate") => ~Born(c)

\* A create_new that goes on to truncate does not find what it saw.
SawInv ==
  \A c \in Calls : /\ In(c, "idle") => call[c].saw = {}
                   /\ In(c, "truncate") => /\ call[c].saw \subseteq DOMAIN inodes
                                           /\ files[Path(c)] \notin call[c].saw

\* d is in the pieces once.
Once(pieces, d) == \E k \in DOMAIN pieces : \A m \in DOMAIN pieces : pieces[m] = d <=> m = k

PiecesInv ==
  /\ \A i \in DOMAIN inodes : \A k \in DOMAIN inodes[i] : In(inodes[i][k], "done")
  /\ \A d \in DOMAIN appended : In(d, "done")
  /\ \A d \in DOMAIN appended \ clobbered : Once(inodes[appended[d]], d)

\* Whatever a stamped name holds was moved in that second or later; a delete
\* that goes to a plain name found it free.
TrashInv ==
  /\ \A i \in DOMAIN taken : taken[i] <= clock
  /\ \A n \in TrashNames : trash[n] # NoFile /\ n[2] # NoStamp => n[2] <= taken[trash[n]]
  /\ \A c \in Calls : In(c, "rename") =>
       LET to == call[c].dest IN
       /\ to \in TrashNames
       /\ call[c].at <= clock
       /\ to[2] # NoStamp => to[2] = call[c].at
       /\ to[2] = NoStamp /\ trash[to] # NoFile => call[c].at <= taken[trash[to]]

DiskInv == DiskTypes /\ InodesInv /\ SawInv /\ PiecesInv /\ TrashInv

LEMMA DiskConstants ==
  /\ NoFile \notin Calls /\ MaxClock \in Nat
  /\ \A n \in Titles : SafeName[n] \in Files
  /\ \A p \in Paths : p \in Files /\ Base[p] \in Bases
  /\ \A b \in Bases : <<b, NoStamp>> \in TrashNames
                      /\ \A s \in 0..MaxClock : <<b, s>> \in TrashNames /\ s # NoStamp
  /\ TrashNames = Bases \X (0..MaxClock \cup {NoStamp})
BY SandboxAssumption DEF Files, Notes, Bases, TrashNames, NoStamp

LEMMA DiskInit == SandboxInit => DiskInv
<1> SUFFICES ASSUME SandboxInit PROVE DiskInv
  OBVIOUS
<1> USE DiskConstants DEF SandboxInit
<1>1. \A c \in Calls : call[c] = [pc |-> "idle", path |-> NoFile, ino |-> NoFile,
                                 dest |-> NoTrash, at |-> 0, saw |-> {}]
  OBVIOUS
<1>2. [pc |-> "idle", path |-> NoFile, ino |-> NoFile, dest |-> NoTrash, at |-> 0, saw |-> {}]
        \in CallRecord
  BY DEF CallRecord, Stages
<1>3. DiskTypes
  <2>1. DOMAIN inodes = {} /\ DOMAIN taken = {} /\ DOMAIN appended = {}
    OBVIOUS
  <2>2. call \in [Calls -> CallRecord]
    BY <1>2
  <2>3. \A c \in Calls : call[c].pc \in Stages
    BY <1>1 DEF Stages
  <2>4. clock \in 0..MaxClock
    OBVIOUS
  <2>5. files \in [Files -> Calls \cup {NoFile}] /\ trash \in [TrashNames -> Calls \cup {NoFile}]
    OBVIOUS
  <2>6. taken \in [{} -> 0..MaxClock] /\ appended \in [{} -> {}] /\ inodes \in [{} -> Seq(Calls)]
    OBVIOUS
  <2>7. QED
    BY <2>1, <2>2, <2>3, <2>4, <2>5, <2>6 DEF DiskTypes, SandboxTypeOK, Stages
<1>4. InodesInv
  BY <1>1 DEF InodesInv, In, Born
<1>5. SawInv
  BY <1>1 DEF SawInv, In
<1>6. PiecesInv
  BY DEF PiecesInv
<1>7. TrashInv
  BY <1>1 DEF TrashInv, In
<1>8. QED
  BY <1>3, <1>4, <1>5, <1>6, <1>7 DEF DiskInv

\* The types, of one call after a step.
LEMMA CallStep ==
  ASSUME call \in [Calls -> CallRecord], NEW c \in Calls, NEW r \in CallRecord,
         call' = [call EXCEPT ![c] = r]
  PROVE  /\ call' \in [Calls -> CallRecord]
         /\ call'[c] = r /\ \A d \in Calls \ {c} : call'[d] = call[d]
         /\ \A d \in Calls : call'[d].pc \in Stages
BY DEF CallRecord

\* Steps that only move a call on.
LEMMA CallOnly ==
  ASSUME DiskInv, UNCHANGED <<clock, files, trash, inodes, taken, clobbered, appended>>,
         NEW c \in Calls, NEW r \in CallRecord, call' = [call EXCEPT ![c] = r],
         ~In(c, "done"), r.path \in Files,
         \/ r.pc = "done"
         \/ /\ r.pc = "truncate" /\ In(c, "idle")
            /\ r.saw \subseteq DOMAIN inodes /\ files[r.path] \notin r.saw
         \/ /\ r.pc = "rename"
            /\ r.dest \in TrashNames /\ r.at <= clock
            /\ r.dest[2] # NoStamp => r.dest[2] = r.at
            /\ r.dest[2] = NoStamp /\ trash[r.dest] # NoFile => r.at <= taken[trash[r.dest]]
  PROVE  DiskInv'
<1>1. /\ call' \in [Calls -> CallRecord]
      /\ call'[c] = r /\ \A d \in Calls \ {c} : call'[d] = call[d]
      /\ \A d \in Calls : call'[d].pc \in Stages
  BY CallStep DEF DiskInv, DiskTypes
<1>2. DiskTypes'
  BY <1>1 DEF DiskInv, DiskTypes, SandboxTypeOK, Stages
<1>3. InodesInv'
  BY <1>1 DEF DiskInv, InodesInv, In, Path, Born
<1>4. SawInv'
  BY <1>1 DEF DiskInv, SawInv, In, Path
<1>5. PiecesInv'
  <2>1. /\ \A d \in Calls : In(d, "done") => In(d, "done")'
        /\ DOMAIN appended \subseteq Calls
        /\ \A i \in DOMAIN inodes : inodes[i] \in Seq(Calls)
    BY <1>1 DEF In, DiskInv, DiskTypes, SandboxTypeOK
  <2>2. \A i \in DOMAIN inodes : \A k \in DOMAIN inodes[i] : inodes[i][k] \in Calls
    BY <2>1
  <2>3. QED
    BY <2>1, <2>2 DEF DiskInv, PiecesInv
<1>6. TrashInv'
  BY <1>1 DEF DiskInv, TrashInv, In
<1>7. QED
  BY <1>2, <1>3, <1>4, <1>5, <1>6 DEF DiskInv

LEMMA WriteKeeps ==
  ASSUME DiskInv, NEW c \in Calls, NEW p \in Files, Write(c, p)
  PROVE  DiskInv'
<1>1. call[c] \in CallRecord /\ In(c, "idle")
      /\ UNCHANGED <<clock, files, trash, inodes, taken, clobbered, appended>>
  BY DEF DiskInv, DiskTypes, Write, Begins
<1>2. PICK r : r = [call[c] EXCEPT !.pc = "truncate", !.path = p]
  OBVIOUS
<1>3. r \in CallRecord /\ r.pc = "truncate" /\ r.path = p /\ r.saw = call[c].saw
  BY <1>1, <1>2 DEF CallRecord, Stages
<1>4. call' = [call EXCEPT ![c] = r]
  BY <1>2 DEF Write, Begins, DiskInv, DiskTypes
<1>5. r.saw = {} /\ ~In(c, "done")
  BY <1>1, <1>3 DEF DiskInv, SawInv, In
<1>6. QED
  BY <1>1, <1>3, <1>4, <1>5, CallOnly

LEMMA CreateNewKeeps ==
  ASSUME DiskInv, NEW c \in Calls, NEW p \in Paths, CreateNew(c, p)
  PROVE  DiskInv'
<1>1. call[c] \in CallRecord /\ In(c, "idle") /\ p \in Files /\ DOMAIN inodes \subseteq Calls
      /\ UNCHANGED <<clock, files, trash, inodes, taken, clobbered, appended>>
  BY DiskConstants DEF DiskInv, DiskTypes, SandboxTypeOK, CreateNew
<1>2. PICK r : r = [call[c] EXCEPT !.pc = IF files[p] = NoFile THEN "truncate" ELSE "done",
                                   !.path = p, !.saw = DOMAIN inodes]
  OBVIOUS
<1>3. /\ r \in CallRecord /\ r.pc = (IF files[p] = NoFile THEN "truncate" ELSE "done")
      /\ r.path = p /\ r.saw = DOMAIN inodes
  BY <1>1, <1>2 DEF CallRecord, Stages
<1>4. call' = [call EXCEPT ![c] = r]
  BY <1>2 DEF CreateNew
<1>5. ~In(c, "done") /\ (r.pc = "done" \/ (r.pc = "truncate" /\ files[r.path] \notin r.saw))
  <2>1. ~In(c, "done")
    BY <1>1 DEF In
  <2>2. NoFile \notin r.saw
    BY <1>1, <1>3, DiskConstants
  <2>3. CASE files[p] = NoFile
    <3>1. r.pc = "truncate" /\ files[r.path] = NoFile
      BY <1>3, <2>3
    <3>2. QED
      BY <2>1, <2>2, <3>1
  <2>4. CASE files[p] # NoFile
    <3>1. r.pc = "done"
      BY <1>3, <2>4
    <3>2. QED
      BY <2>1, <3>1
  <2>5. QED
    BY <2>3, <2>4
<1>6. QED
  BY <1>1, <1>3, <1>4, <1>5, CallOnly

LEMMA DeleteKeeps ==
  ASSUME DiskInv, NEW c \in Calls, NEW p \in Paths, Delete(c, p)
  PROVE  DiskInv'
<1>1. call[c] \in CallRecord /\ In(c, "idle") /\ p \in Files /\ Base[p] \in Bases
      /\ clock \in 0..MaxClock
      /\ UNCHANGED <<clock, files, trash, inodes, taken, clobbered, appended>>
  BY DiskConstants DEF DiskInv, DiskTypes, SandboxTypeOK, Delete
<1>2. PICK to : to = Dest(p)
  OBVIOUS
<1>3. /\ to \in TrashNames
      /\ to[2] # NoStamp => to[2] = clock
      /\ to[2] = NoStamp => trash[to] = NoFile
  BY <1>1, <1>2, DiskConstants DEF Dest
<1>4. PICK r : r = [call[c] EXCEPT !.pc = "rename", !.path = p, !.dest = to, !.at = clock]
  OBVIOUS
<1>5. r \in CallRecord /\ r.pc = "rename" /\ r.path = p /\ r.dest = to /\ r.at = clock
  BY <1>1, <1>3, <1>4 DEF CallRecord, Stages
<1>6. call' = [call EXCEPT ![c] = r]
  BY <1>2, <1>4 DEF Delete
<1>7. ~In(c, "done") /\ r.at <= clock
  BY <1>1, <1>5 DEF In
<1>8. QED
  BY <1>1, <1>3, <1>5, <1>6, <1>7, CallOnly

LEMMA RenameFailsKeeps ==
  ASSUME DiskInv, NEW c \in Calls, RenameFails(c)
  PROVE  DiskInv'
<1>1. call[c] \in CallRecord /\ In(c, "rename")
      /\ UNCHANGED <<clock, files, trash, inodes, taken, clobbered, appended>>
  BY DEF DiskInv, DiskTypes, RenameFails
<1>2. PICK r : r = [call[c] EXCEPT !.pc = "done"]
  OBVIOUS
<1>3. r \in CallRecord /\ r.pc = "done" /\ r.path = Path(c)
  BY <1>1, <1>2 DEF CallRecord, Stages, Path
<1>4. call' = [call EXCEPT ![c] = r]
  BY <1>2 DEF RenameFails, Goes
<1>5. ~In(c, "done") /\ Path(c) \in Files
  BY <1>1 DEF In, DiskInv, InodesInv
<1>6. QED
  BY <1>1, <1>3, <1>4, <1>5, CallOnly

\* Steps that change the pieces of an inode, and perhaps bind a free name to it.
LEMMA InodeStep ==
  ASSUME DiskInv, UNCHANGED <<clock, trash, taken>>,
         NEW c \in Calls, NEW r \in CallRecord, call' = [call EXCEPT ![c] = r],
         r.pc \in {"write", "append", "done"}, r.path \in Files, r.ino \in Calls,
         NEW pieces \in Seq(Calls), inodes' = Bind(r.ino, pieces),
         \/ files' = files /\ Born(r.ino)
         \/ /\ files' = [files EXCEPT ![r.path] = r.ino]
            /\ In(c, "idle") \/ In(c, "truncate")
            /\ r.ino = IF files[r.path] = NoFile THEN c ELSE files[r.path],
         appended' \in [DOMAIN appended' -> DOMAIN inodes'],
         DOMAIN appended' \subseteq Calls, clobbered' \subseteq DOMAIN appended'
  PROVE  DiskTypes' /\ InodesInv' /\ SawInv' /\ TrashInv'
<1>1. /\ call' \in [Calls -> CallRecord]
      /\ call'[c] = r /\ \A d \in Calls \ {c} : call'[d] = call[d]
      /\ \A d \in Calls : call'[d].pc \in Stages
  BY CallStep DEF DiskInv, DiskTypes
<1>2. /\ DOMAIN inodes' = DOMAIN inodes \cup {r.ino}
      /\ inodes'[r.ino] = pieces /\ \A i \in DOMAIN inodes \ {r.ino} : inodes'[i] = inodes[i]
  BY DEF Bind
<1>3. /\ files \in [Files -> Calls \cup {NoFile}] /\ DOMAIN inodes \subseteq Calls
      /\ \A i \in DOMAIN inodes : inodes[i] \in Seq(Calls)
      /\ DOMAIN taken \subseteq DOMAIN inodes /\ clock \in 0..MaxClock
      /\ trash \in [TrashNames -> Calls \cup {NoFile}]
      /\ taken \in [DOMAIN taken -> 0..MaxClock]
  BY DEF DiskInv, DiskTypes, SandboxTypeOK
<1>4. files' \in [Files -> Calls \cup {NoFile}]
  BY <1>3
<1>5. DiskTypes'
  <2>1. inodes' \in [DOMAIN inodes' -> Seq(Calls)]
    BY <1>2, <1>3 DEF Bind
  <2>2. QED
    BY <1>1, <1>2, <1>3, <1>4, <2>1 DEF DiskTypes, SandboxTypeOK, Stages
<1>6. Born(r.ino) \/ (r.ino = c /\ ~Born(c) /\ (In(c, "idle") \/ In(c, "truncate")))
  <2>1. files[r.path] # NoFile => Born(files[r.path])
    BY DEF DiskInv, InodesInv
  <2>2. In(c, "idle") \/ In(c, "truncate") => ~Born(c)
    BY DEF DiskInv, InodesInv
  <2>3. QED
    BY <2>1, <2>2
<1>7. InodesInv'
  <2>1. ASSUME NEW f \in Files, files'[f] # NoFile PROVE files'[f] \in DOMAIN inodes'
    <3>1. files[f] # NoFile => files[f] \in DOMAIN inodes
      BY DEF DiskInv, InodesInv, Born
    <3>2. files'[f] = files[f] \/ files'[f] = r.ino
      BY <1>3
    <3>3. QED
      BY <1>2, <2>1, <3>1, <3>2
  <2>2. \A n \in TrashNames : trash'[n] # NoFile => trash'[n] \in DOMAIN taken'
    BY DEF DiskInv, InodesInv
  <2>3. ASSUME NEW d \in Calls
        PROVE  /\ ~In(d, "idle")' => Path(d)' \in Files
               /\ In(d, "write")' \/ In(d, "append")' => call'[d].ino \in DOMAIN inodes'
               /\ In(d, "idle")' \/ In(d, "truncate")' => d \notin DOMAIN inodes'
    <3>1. CASE d = c
      BY <1>1, <1>2, <3>1 DEF In, Path
    <3>2. CASE d # c
      <4>1. call'[d] = call[d]
        BY <1>1, <3>2
      <4>2. Born(d) \/ d \notin DOMAIN inodes'
        BY <1>2, <1>6, <3>2 DEF Born
      <4>3. QED
        BY <1>2, <4>1, <4>2 DEF In, Path, DiskInv, InodesInv, Born
    <3>3. QED
      BY <3>1, <3>2
  <2>4. QED
    BY <2>1, <2>2, <2>3 DEF InodesInv, Born
<1>8. SawInv'
  <2>1. ASSUME NEW d \in Calls
        PROVE  /\ In(d, "idle")' => call'[d].saw = {}
               /\ In(d, "truncate")' => /\ call'[d].saw \subseteq DOMAIN inodes'
                                        /\ files'[Path(d)'] \notin call'[d].saw
    <3>1. CASE d = c
      BY <1>1, <3>1 DEF In
    <3>2. CASE d # c
      <4>1. call'[d] = call[d]
        BY <1>1, <3>2
      <4>2. In(d, "idle") => call[d].saw = {}
        BY DEF DiskInv, SawInv
      <4>3. ASSUME In(d, "truncate")
            PROVE  call[d].saw \subseteq DOMAIN inodes' /\ files'[Path(d)] \notin call[d].saw
        <5>1. /\ call[d].saw \subseteq DOMAIN inodes /\ files[Path(d)] \notin call[d].saw
              /\ Path(d) \in Files
          BY <4>3 DEF DiskInv, SawInv, InodesInv, In
        <5>2. files'[Path(d)] = files[Path(d)] \/ files'[Path(d)] \notin DOMAIN inodes
          BY <1>3, <1>6, <5>1 DEF DiskInv, InodesInv, Born
        <5>3. QED
          BY <1>2, <5>1, <5>2
      <4>4. QED
        BY <4>1, <4>2, <4>3 DEF In, Path
    <3>3. QED
      BY <3>1, <3>2
  <2>2. QED
    BY <2>1 DEF SawInv
<1>9. TrashInv'
  BY <1>1 DEF DiskInv, TrashInv, In
<1>10. QED
  BY <1>5, <1>7, <1>8, <1>9

\* What the pieces of an inode must keep: those there were, or the piece of a
\* call that is done now; and an append that is not overwritten, once.
Adds(c, r, ino, pieces) ==
  /\ \A k \in DOMAIN pieces :
       \/ pieces[k] = c /\ r.pc = "done"
       \/ Born(ino) /\ \E m \in DOMAIN inodes[ino] : pieces[k] = inodes[ino][m]
  /\ \A d \in DOMAIN appended' : d \in DOMAIN appended \/ (d = c /\ r.pc = "done")

Keeps(ino, pieces) ==
  \A d \in DOMAIN appended' \ clobbered' :
    \/ d \in DOMAIN appended \ clobbered /\ appended'[d] = appended[d] /\ appended[d] # ino
    \/ appended'[d] = ino /\ Once(pieces, d)

LEMMA PiecesStep ==
  ASSUME DiskInv, NEW c \in Calls, NEW r \in CallRecord, call' = [call EXCEPT ![c] = r],
         ~In(c, "done"), NEW ino \in Calls, NEW pieces \in Seq(Calls),
         inodes' = Bind(ino, pieces),
         Adds(c, r, ino, pieces), Keeps(ino, pieces)
  PROVE  PiecesInv'
<1>1. /\ call'[c] = r /\ \A d \in Calls \ {c} : call'[d] = call[d]
  BY CallStep DEF DiskInv, DiskTypes
<1>2. /\ DOMAIN inodes' = DOMAIN inodes \cup {ino}
      /\ inodes'[ino] = pieces /\ \A i \in DOMAIN inodes \ {ino} : inodes'[i] = inodes[i]
  BY DEF Bind
<1>3. /\ \A i \in DOMAIN inodes : inodes[i] \in Seq(Calls)
      /\ appended \in [DOMAIN appended -> DOMAIN inodes] /\ DOMAIN appended \subseteq Calls
  BY DEF DiskInv, DiskTypes, SandboxTypeOK
<1>4. \A d \in Calls : In(d, "done") => In(d, "done")'
  BY <1>1 DEF In
<1>5. r.pc = "done" => call'[c].pc = "done"
  BY <1>1
<1>6. \A i \in DOMAIN inodes : \A k \in DOMAIN inodes[i] : call'[inodes[i][k]].pc = "done"
  <2>1. \A i \in DOMAIN inodes : \A k \in DOMAIN inodes[i] :
          inodes[i][k] \in Calls /\ call[inodes[i][k]].pc = "done"
    BY <1>3 DEF DiskInv, PiecesInv, In
  <2>2. \A d \in Calls : call[d].pc = "done" => call'[d].pc = "done"
    BY <1>4 DEF In
  <2>3. QED
    BY <2>1, <2>2
<1>7. \A k \in DOMAIN pieces : call'[pieces[k]].pc = "done"
  BY <1>5, <1>6 DEF Born, Adds
<1>8. \A i \in DOMAIN inodes' : \A k \in DOMAIN inodes'[i] : call'[inodes'[i][k]].pc = "done"
  <2>1. ASSUME NEW i \in DOMAIN inodes', i = ino
        PROVE  \A k \in DOMAIN inodes'[i] : call'[inodes'[i][k]].pc = "done"
    BY <1>2, <1>7, <2>1
  <2>2. ASSUME NEW i \in DOMAIN inodes', i # ino
        PROVE  \A k \in DOMAIN inodes'[i] : call'[inodes'[i][k]].pc = "done"
    BY <1>2, <1>6, <2>2
  <2>3. QED
    BY <2>1, <2>2
<1>9. \A d \in DOMAIN appended' : call'[d].pc = "done"
  BY <1>3, <1>4, <1>5 DEF DiskInv, PiecesInv, In, Adds
<1>10. ASSUME NEW d \in DOMAIN appended' \ clobbered' PROVE Once(inodes'[appended'[d]], d)
  <2>1. CASE d \in DOMAIN appended \ clobbered /\ appended'[d] = appended[d] /\ appended[d] # ino
    BY <1>2, <1>3, <2>1 DEF DiskInv, PiecesInv
  <2>2. CASE appended'[d] = ino /\ Once(pieces, d)
    BY <1>2, <2>2
  <2>3. QED
    BY <2>1, <2>2 DEF Keeps
<1>11. QED
  BY <1>8, <1>9, <1>10 DEF PiecesInv, In

LEMMA TruncateKeeps ==
  ASSUME DiskInv, NEW c \in Calls, Truncate(c)
  PROVE  DiskInv'
<1>1. PICK ino : ino = IF files[Path(c)] = NoFile THEN c ELSE files[Path(c)]
  OBVIOUS
<1>2. /\ In(c, "truncate") /\ UNCHANGED <<clock, trash, taken, appended>>
      /\ files' = [files EXCEPT ![Path(c)] = ino] /\ inodes' = Bind(ino, <<>>)
      /\ clobbered' = IF ino \in call[c].saw THEN clobbered ELSE clobbered \cup AppendedTo(ino)
      /\ call' = [call EXCEPT ![c].pc = "write", ![c].ino = ino]
  BY <1>1 DEF Truncate
<1>3. /\ call \in [Calls -> CallRecord] /\ Path(c) \in Files
      /\ files \in [Files -> Calls \cup {NoFile}]
      /\ appended \in [DOMAIN appended -> DOMAIN inodes]
      /\ DOMAIN appended \subseteq Calls /\ clobbered \subseteq DOMAIN appended
      /\ call[c].saw \subseteq DOMAIN inodes /\ files[Path(c)] \notin call[c].saw
      /\ c \notin DOMAIN inodes
  BY <1>2 DEF DiskInv, DiskTypes, SandboxTypeOK, InodesInv, SawInv, In, Born
<1>4. ino \in Calls /\ ino \notin call[c].saw
  BY <1>1, <1>3
<1>5. clobbered' = clobbered \cup AppendedTo(ino)
  BY <1>2, <1>4
<1>6. PICK r : r = [call[c] EXCEPT !.pc = "write", !.ino = ino]
  OBVIOUS
<1>7. r \in CallRecord /\ r.pc = "write" /\ r.path = Path(c) /\ r.ino = ino
  <2>1. call[c] \in CallRecord
    BY <1>3
  <2>2. QED
    BY <1>4, <1>6, <2>1 DEF CallRecord, Stages, Path
<1>8. call' = [call EXCEPT ![c] = r]
  BY <1>2, <1>3, <1>6
<1>9. <<>> \in Seq(Calls) /\ ~In(c, "done")
  BY <1>2 DEF In
<1>10. clobbered' \subseteq DOMAIN appended' /\ appended' \in [DOMAIN appended' -> DOMAIN inodes']
       /\ DOMAIN appended' \subseteq Calls
  <2>1. DOMAIN inodes \subseteq DOMAIN inodes'
    BY <1>2 DEF Bind
  <2>2. QED
    BY <1>2, <1>3, <1>5, <2>1 DEF AppendedTo
<1>11. DiskTypes' /\ InodesInv' /\ SawInv' /\ TrashInv'
  <2>1. /\ files' = [files EXCEPT ![r.path] = r.ino]
        /\ In(c, "idle") \/ In(c, "truncate")
        /\ r.ino = IF files[r.path] = NoFile THEN c ELSE files[r.path]
    BY <1>1, <1>2, <1>7
  <2>2. inodes' = Bind(r.ino, <<>>) /\ r.ino \in Calls /\ r.path \in Files
        /\ r.pc \in {"write", "append", "done"} /\ UNCHANGED <<clock, trash, taken>>
    BY <1>2, <1>3, <1>4, <1>7
  <2>3. QED
    BY <1>7, <1>8, <1>9, <1>10, <2>1, <2>2, InodeStep
<1>12. \A d \in DOMAIN appended' \ clobbered' :
         d \in DOMAIN appended \ clobbered /\ appended'[d] = appended[d] /\ appended[d] # ino
  BY <1>2, <1>5 DEF AppendedTo
<1>13. PiecesInv'
  <2>1. DOMAIN <<>> = {} /\ DOMAIN appended' = DOMAIN appended
    BY <1>2
  <2>2. Adds(c, r, ino, <<>>) /\ Keeps(ino, <<>>)
    BY <1>12, <2>1 DEF Adds, Keeps
  <2>3. QED
    BY <1>2, <1>4, <1>7, <1>8, <1>9, <2>2, PiecesStep
<1>14. QED
  BY <1>11, <1>13 DEF DiskInv

LEMMA WriteAtStartKeeps ==
  ASSUME DiskInv, NEW c \in Calls, WriteAtStart(c)
  PROVE  DiskInv'
<1>1. PICK ino : ino = call[c].ino
  OBVIOUS
<1>2. /\ In(c, "write") /\ UNCHANGED <<clock, files, trash, taken, appended>>
      /\ inodes' = Bind(ino, OverFirst(inodes[ino], c))
      /\ clobbered' = clobbered \cup AppendedTo(ino)
      /\ call' = [call EXCEPT ![c].pc = "done"]
  BY <1>1 DEF WriteAtStart, Goes
<1>3. /\ call \in [Calls -> CallRecord] /\ Path(c) \in Files
      /\ appended \in [DOMAIN appended -> DOMAIN inodes]
      /\ DOMAIN appended \subseteq Calls /\ clobbered \subseteq DOMAIN appended
      /\ Born(ino) /\ DOMAIN inodes \subseteq Calls
      /\ \A i \in DOMAIN inodes : inodes[i] \in Seq(Calls)
  <2>1. ~In(c, "idle")
    BY <1>2 DEF In
  <2>2. QED
    BY <1>1, <1>2, <2>1 DEF DiskInv, DiskTypes, SandboxTypeOK, InodesInv
<1>4. ino \in Calls /\ inodes[ino] \in Seq(Calls)
  BY <1>3 DEF Born
<1>5. PICK pieces : pieces = OverFirst(inodes[ino], c)
  OBVIOUS
<1>6. /\ pieces \in Seq(Calls)
      /\ \A k \in DOMAIN pieces : pieces[k] = c \/ \E m \in DOMAIN inodes[ino] : pieces[k] = inodes[ino][m]
  <2>1. PICK s \in Seq(Calls) : s = inodes[ino]
    BY <1>4
  <2>2. PICK u \in Seq(Calls) : /\ u = IF s = <<>> THEN <<>> ELSE Tail(s)
                                /\ \A k \in DOMAIN u : \E m \in DOMAIN s : u[k] = s[m]
    <3>1. CASE s = <<>>
      <4>1. <<>> \in Seq(Calls) /\ DOMAIN <<>> = {}
        OBVIOUS
      <4>2. QED
        BY <3>1, <4>1
    <3>2. CASE s # <<>>
      <4>1. Tail(s) \in Seq(Calls) /\ Len(Tail(s)) = Len(s) - 1 /\ Len(s) \in Nat
            /\ \A k \in 1..Len(s) - 1 : Tail(s)[k] = s[k + 1]
        BY <3>2
      <4>2. PICK v \in Seq(Calls) : v = Tail(s)
        BY <4>1
      <4>3. \A k \in DOMAIN v : k + 1 \in DOMAIN s /\ v[k] = s[k + 1]
        BY <4>1, <4>2
      <4>4. QED
        BY <3>2, <4>2, <4>3
    <3>3. QED
      BY <3>1, <3>2
  <2>3. pieces = <<c>> \o u
    BY <1>5, <2>1, <2>2 DEF OverFirst
  <2>4. /\ pieces \in Seq(Calls) /\ Len(pieces) = Len(u) + 1 /\ Len(u) \in Nat /\ pieces[1] = c
        /\ \A k \in 1..Len(u) : pieces[k + 1] = u[k]
    BY <2>3
  <2>5. ASSUME NEW k \in DOMAIN pieces, k # 1 PROVE \E m \in DOMAIN s : pieces[k] = s[m]
    <3>1. k - 1 \in 1..Len(u) /\ (k - 1) + 1 = k
      BY <2>4, <2>5
    <3>2. pieces[k] = u[k - 1] /\ k - 1 \in DOMAIN u
      BY <2>4, <3>1
    <3>3. QED
      BY <2>2, <3>2
  <2>6. QED
    BY <2>1, <2>4, <2>5
<1>7. PICK r : r = [call[c] EXCEPT !.pc = "done"]
  OBVIOUS
<1>8. r \in CallRecord /\ r.pc = "done" /\ r.path = Path(c) /\ r.ino = ino
  <2>1. call[c] \in CallRecord
    BY <1>3
  <2>2. QED
    BY <1>1, <1>7, <2>1 DEF CallRecord, Stages, Path
<1>9. call' = [call EXCEPT ![c] = r]
  BY <1>2, <1>3, <1>7
<1>10. clobbered' \subseteq DOMAIN appended' /\ appended' \in [DOMAIN appended' -> DOMAIN inodes']
       /\ DOMAIN appended' \subseteq Calls
  <2>1. DOMAIN inodes \subseteq DOMAIN inodes'
    BY <1>2 DEF Bind
  <2>2. QED
    BY <1>2, <1>3, <2>1 DEF AppendedTo
<1>11. DiskTypes' /\ InodesInv' /\ SawInv' /\ TrashInv'
  BY ZenonT(60), <1>2, <1>3, <1>4, <1>5, <1>6, <1>8, <1>9, <1>10, InodeStep
<1>12. \A d \in DOMAIN appended' \ clobbered' :
         d \in DOMAIN appended \ clobbered /\ appended'[d] = appended[d] /\ appended[d] # ino
  BY <1>2 DEF AppendedTo
<1>13. PiecesInv'
  <2>1. DOMAIN appended' = DOMAIN appended /\ ~In(c, "done")
    BY <1>2 DEF In
  <2>2. inodes' = Bind(ino, pieces)
    BY <1>2, <1>5
  <2>3. \A k \in DOMAIN pieces :
          \/ pieces[k] = c /\ r.pc = "done"
          \/ Born(ino) /\ \E m \in DOMAIN inodes[ino] : pieces[k] = inodes[ino][m]
    BY <1>3, <1>6, <1>8
  <2>4. \A d \in DOMAIN appended' : d \in DOMAIN appended \/ (d = c /\ r.pc = "done")
    BY <2>1
  <2>5. \A d \in DOMAIN appended' \ clobbered' :
          \/ d \in DOMAIN appended \ clobbered /\ appended'[d] = appended[d] /\ appended[d] # ino
          \/ appended'[d] = ino /\ Once(pieces, d)
    BY <1>12
  <2>6. QED
    <3>1. Adds(c, r, ino, pieces) /\ Keeps(ino, pieces)
      BY <2>3, <2>4, <2>5 DEF Adds, Keeps
    <3>2. QED
      BY <1>4, <1>6, <1>8, <1>9, <2>1, <2>2, <3>1, PiecesStep
<1>14. QED
  BY <1>11, <1>13 DEF DiskInv

LEMMA OpenAppendKeeps ==
  ASSUME DiskInv, NEW c \in Calls, NEW p \in Paths, OpenAppend(c, p)
  PROVE  DiskInv'
<1>1. PICK ino : ino = IF files[p] = NoFile THEN c ELSE files[p]
  OBVIOUS
<1>2. /\ In(c, "idle") /\ UNCHANGED <<clock, trash, taken, clobbered, appended>>
      /\ files' = [files EXCEPT ![p] = ino]
      /\ inodes' = IF Born(ino) THEN inodes ELSE Bind(ino, <<>>)
      /\ call' = [call EXCEPT ![c] = [call[c] EXCEPT !.pc = "append", !.path = p, !.ino = ino]]
  BY <1>1 DEF OpenAppend
<1>3. /\ call[c] \in CallRecord /\ p \in Files
      /\ files \in [Files -> Calls \cup {NoFile}]
      /\ appended \in [DOMAIN appended -> DOMAIN inodes]
      /\ DOMAIN appended \subseteq Calls /\ clobbered \subseteq DOMAIN appended
      /\ inodes \in [DOMAIN inodes -> Seq(Calls)] /\ ~Born(c)
  BY <1>2, DiskConstants DEF DiskInv, DiskTypes, SandboxTypeOK, InodesInv
<1>4. ino \in Calls
  BY <1>1, <1>3
<1>5. PICK pieces \in Seq(Calls) : /\ Born(ino) => pieces = inodes[ino]
                                   /\ ~Born(ino) => pieces = <<>>
  <2>1. CASE Born(ino)
    BY <1>3, <2>1 DEF Born
  <2>2. CASE ~Born(ino)
    <3>1. <<>> \in Seq(Calls)
      OBVIOUS
    <3>2. QED
      BY <2>2, <3>1
  <2>3. QED
    BY <2>1, <2>2
<1>6. inodes' = Bind(ino, pieces)
  <2>1. CASE Born(ino)
    <3>1. inodes' = inodes /\ DOMAIN inodes \cup {ino} = DOMAIN inodes
      BY <1>2, <2>1 DEF Born
    <3>2. \A j \in DOMAIN inodes : (IF j = ino THEN pieces ELSE inodes[j]) = inodes[j]
      BY <1>5, <2>1
    <3>3. inodes = [j \in DOMAIN inodes |-> IF j = ino THEN pieces ELSE inodes[j]]
      BY <1>3, <3>2
    <3>4. QED
      BY <3>1, <3>3 DEF Bind
  <2>2. CASE ~Born(ino)
    BY <1>2, <1>5, <2>2
  <2>3. QED
    BY <2>1, <2>2
<1>7. PICK r : r = [call[c] EXCEPT !.pc = "append", !.path = p, !.ino = ino]
  OBVIOUS
<1>8. r \in CallRecord /\ r.pc = "append" /\ r.path = p /\ r.ino = ino
  BY <1>3, <1>4, <1>7 DEF CallRecord, Stages
<1>9. call' = [call EXCEPT ![c] = r] /\ ~In(c, "done")
  BY <1>2, <1>7 DEF In
<1>10. clobbered' \subseteq DOMAIN appended' /\ appended' \in [DOMAIN appended' -> DOMAIN inodes']
       /\ DOMAIN appended' \subseteq Calls
  <2>1. DOMAIN inodes \subseteq DOMAIN inodes'
    BY <1>6 DEF Bind
  <2>2. QED
    BY <1>2, <1>3, <2>1
<1>11. DiskTypes' /\ InodesInv' /\ SawInv' /\ TrashInv'
  <2>1. /\ files' = [files EXCEPT ![r.path] = r.ino]
        /\ In(c, "idle") \/ In(c, "truncate")
        /\ r.ino = IF files[r.path] = NoFile THEN c ELSE files[r.path]
    BY <1>1, <1>2, <1>8
  <2>2. inodes' = Bind(r.ino, pieces) /\ r.ino \in Calls /\ r.path \in Files
        /\ r.pc \in {"write", "append", "done"} /\ UNCHANGED <<clock, trash, taken>>
    BY <1>2, <1>3, <1>4, <1>6, <1>8
  <2>3. QED
    BY <1>5, <1>8, <1>9, <1>10, <2>1, <2>2, InodeStep
<1>12. PiecesInv'
  <2>1. \A k \in DOMAIN pieces :
          \/ pieces[k] = c /\ r.pc = "done"
          \/ Born(ino) /\ \E m \in DOMAIN inodes[ino] : pieces[k] = inodes[ino][m]
    <3>1. DOMAIN <<>> = {}
      OBVIOUS
    <3>2. QED
      BY <1>5, <3>1
  <2>2. \A d \in DOMAIN appended' : d \in DOMAIN appended \/ (d = c /\ r.pc = "done")
    BY <1>2
  <2>3. \A d \in DOMAIN appended' \ clobbered' :
          \/ d \in DOMAIN appended \ clobbered /\ appended'[d] = appended[d] /\ appended[d] # ino
          \/ appended'[d] = ino /\ Once(pieces, d)
    <3>1. \A d \in DOMAIN appended : appended[d] \in DOMAIN inodes
      BY <1>3
    <3>2. QED
      BY <1>2, <1>5, <3>1 DEF Born, DiskInv, PiecesInv
  <2>4. QED
    <3>1. Adds(c, r, ino, pieces) /\ Keeps(ino, pieces)
      BY <2>1, <2>2, <2>3 DEF Adds, Keeps
    <3>2. QED
      BY <1>4, <1>5, <1>6, <1>8, <1>9, <3>1, PiecesStep
<1>13. QED
  BY <1>11, <1>12 DEF DiskInv

LEMMA AppendAtEndKeeps ==
  ASSUME DiskInv, NEW c \in Calls, AppendAtEnd(c)
  PROVE  DiskInv'
<1>1. PICK ino : ino = call[c].ino
  OBVIOUS
<1>2. /\ In(c, "append") /\ UNCHANGED <<clock, files, trash, taken, clobbered>>
      /\ inodes' = Bind(ino, Append(inodes[ino], c))
      /\ appended' = [d \in DOMAIN appended \cup {c} |-> IF d = c THEN ino ELSE appended[d]]
      /\ call' = [call EXCEPT ![c].pc = "done"]
  BY <1>1 DEF AppendAtEnd, Appends, Goes
<1>3. /\ call \in [Calls -> CallRecord] /\ Path(c) \in Files
      /\ appended \in [DOMAIN appended -> DOMAIN inodes]
      /\ DOMAIN appended \subseteq Calls /\ clobbered \subseteq DOMAIN appended
      /\ Born(ino) /\ DOMAIN inodes \subseteq Calls
      /\ \A i \in DOMAIN inodes : inodes[i] \in Seq(Calls)
      /\ ~In(c, "done")
  <2>1. ~In(c, "idle") /\ ~In(c, "done")
    BY <1>2 DEF In
  <2>2. QED
    BY <1>1, <1>2, <2>1 DEF DiskInv, DiskTypes, SandboxTypeOK, InodesInv
<1>4. ino \in Calls /\ inodes[ino] \in Seq(Calls)
  BY <1>3 DEF Born
<1>5. PICK s \in Seq(Calls) : s = inodes[ino]
  BY <1>4
<1>6. PICK pieces \in Seq(Calls) : pieces = Append(s, c)
  <2>1. Append(s, c) \in Seq(Calls)
    OBVIOUS
  <2>2. QED
    BY <2>1
<1>7. /\ DOMAIN s = 1..Len(s) /\ DOMAIN pieces = 1..Len(s) + 1 /\ Len(s) \in Nat
      /\ pieces[Len(s) + 1] = c /\ \A k \in 1..Len(s) : pieces[k] = s[k]
  BY <1>6
<1>8. PICK r : r = [call[c] EXCEPT !.pc = "done"]
  OBVIOUS
<1>9. r \in CallRecord /\ r.pc = "done" /\ r.path = Path(c) /\ r.ino = ino
  <2>1. call[c] \in CallRecord
    BY <1>3
  <2>2. QED
    BY <1>1, <1>8, <2>1 DEF CallRecord, Stages, Path
<1>10. call' = [call EXCEPT ![c] = r] /\ inodes' = Bind(ino, pieces)
  BY <1>2, <1>3, <1>5, <1>6, <1>8
<1>11. DOMAIN appended' = DOMAIN appended \cup {c} /\ appended'[c] = ino
       /\ \A d \in DOMAIN appended \ {c} : appended'[d] = appended[d]
  BY <1>2
<1>12. clobbered' \subseteq DOMAIN appended' /\ appended' \in [DOMAIN appended' -> DOMAIN inodes']
       /\ DOMAIN appended' \subseteq Calls
  <2>1. DOMAIN inodes \cup {ino} \subseteq DOMAIN inodes'
    BY <1>2 DEF Bind
  <2>2. \A d \in DOMAIN appended' : appended'[d] \in DOMAIN inodes'
    BY <1>3, <1>11, <2>1
  <2>3. appended' \in [DOMAIN appended' -> DOMAIN inodes']
    BY <1>2, <2>2
  <2>4. QED
    BY <1>2, <1>3, <1>11, <2>3
<1>13. DiskTypes' /\ InodesInv' /\ SawInv' /\ TrashInv'
  <2>1. files' = files /\ Born(r.ino) /\ r.ino \in Calls /\ r.path \in Files
        /\ r.pc \in {"write", "append", "done"} /\ UNCHANGED <<clock, trash, taken>>
        /\ inodes' = Bind(r.ino, pieces)
    BY <1>2, <1>3, <1>4, <1>9, <1>10
  <2>2. QED
    BY <1>6, <1>9, <1>10, <1>12, <2>1, InodeStep
<1>14. PiecesInv'
  <2>1. \A k \in DOMAIN pieces :
          \/ pieces[k] = c /\ r.pc = "done"
          \/ Born(ino) /\ \E m \in DOMAIN inodes[ino] : pieces[k] = inodes[ino][m]
    <3>1. ASSUME NEW k \in 1..Len(s) + 1 PROVE k \in 1..Len(s) \/ k = Len(s) + 1
      BY <1>7
    <3>2. QED
      BY <1>3, <1>5, <1>7, <1>9, <3>1
  <2>2. \A d \in DOMAIN appended' : d \in DOMAIN appended \/ (d = c /\ r.pc = "done")
    BY <1>9, <1>11
  <2>3. c \notin DOMAIN appended /\ \A k \in 1..Len(s) : s[k] # c
    <3>1. \A k \in DOMAIN s : In(s[k], "done")
      BY <1>3, <1>5 DEF DiskInv, PiecesInv, Born
    <3>2. QED
      BY <1>3, <1>7, <3>1 DEF DiskInv, PiecesInv
  <2>4. Once(pieces, c)
    <3>1. \A m \in DOMAIN pieces : pieces[m] = c <=> m = Len(s) + 1
      BY <1>7, <2>3
    <3>2. Len(s) + 1 \in DOMAIN pieces
      BY <1>7
    <3>3. QED
      BY <3>1, <3>2 DEF Once
  <2>5. ASSUME NEW d \in DOMAIN appended \ clobbered, appended[d] = ino PROVE Once(pieces, d)
    <3>1. Once(s, d) /\ d # c
      BY <1>5, <2>3, <2>5 DEF DiskInv, PiecesInv
    <3>2. PICK k \in DOMAIN s : \A m \in DOMAIN s : s[m] = d <=> m = k
      BY <3>1 DEF Once
    <3>3. ASSUME NEW m \in DOMAIN pieces PROVE pieces[m] = d <=> m = k
      <4>1. m \in 1..Len(s) \/ m = Len(s) + 1
        BY <1>7
      <4>2. CASE m \in 1..Len(s)
        BY <1>7, <3>2, <4>2
      <4>3. CASE m = Len(s) + 1
        <5>1. k # m
          BY <1>7, <4>3
        <5>2. QED
          BY <1>7, <3>1, <4>3, <5>1
      <4>4. QED
        BY <4>1, <4>2, <4>3
    <3>4. k \in DOMAIN pieces
      BY <1>7
    <3>5. QED
      BY <3>3, <3>4 DEF Once
  <2>6. \A d \in DOMAIN appended' \ clobbered' :
          \/ d \in DOMAIN appended \ clobbered /\ appended'[d] = appended[d] /\ appended[d] # ino
          \/ appended'[d] = ino /\ Once(pieces, d)
    BY <1>2, <1>11, <2>3, <2>4, <2>5
  <2>7. QED
    <3>1. Adds(c, r, ino, pieces) /\ Keeps(ino, pieces)
      BY <2>1, <2>2, <2>6 DEF Adds, Keeps
    <3>2. QED
      BY <1>3, <1>4, <1>6, <1>9, <1>10, <3>1, PiecesStep
<1>15. QED
  BY <1>13, <1>14 DEF DiskInv

\* Steps that take a name away, and perhaps give its inode one in .trash.
LEMMA UnbindStep ==
  ASSUME DiskInv, UNCHANGED <<clock, inodes, clobbered, appended>>,
         NEW c \in Calls, NEW r \in CallRecord, call' = [call EXCEPT ![c] = r],
         ~In(c, "done"), r.pc = "done", r.path \in Files,
         NEW f \in Files, files' = [files EXCEPT ![f] = NoFile],
         trash' \in [TrashNames -> Calls \cup {NoFile}],
         taken' \in [DOMAIN taken' -> 0..MaxClock], DOMAIN taken' \subseteq DOMAIN inodes,
         \A n \in TrashNames : trash'[n] # NoFile => trash'[n] \in DOMAIN taken'
  PROVE  DiskTypes' /\ InodesInv' /\ SawInv' /\ PiecesInv'
<1>1. /\ call' \in [Calls -> CallRecord]
      /\ call'[c] = r /\ \A d \in Calls \ {c} : call'[d] = call[d]
      /\ \A d \in Calls : call'[d].pc \in Stages
  BY CallStep DEF DiskInv, DiskTypes
<1>2. /\ files \in [Files -> Calls \cup {NoFile}] /\ DOMAIN inodes \subseteq Calls
      /\ \A i \in DOMAIN inodes : inodes[i] \in Seq(Calls)
      /\ DOMAIN appended \subseteq Calls
  BY DEF DiskInv, DiskTypes, SandboxTypeOK
<1>3. /\ files' \in [Files -> Calls \cup {NoFile}]
      /\ \A g \in Files : files'[g] = NoFile \/ files'[g] = files[g]
  BY <1>2
<1>4. DiskTypes'
  BY <1>1, <1>3 DEF DiskInv, DiskTypes, SandboxTypeOK, Stages
<1>5. InodesInv'
  BY <1>1, <1>3 DEF DiskInv, InodesInv, In, Path, Born
<1>6. SawInv'
  <2>1. ASSUME NEW d \in Calls
        PROVE  /\ call'[d].pc = "idle" => call'[d].saw = {}
               /\ call'[d].pc = "truncate" => /\ call'[d].saw \subseteq DOMAIN inodes
                                              /\ files'[call'[d].path] \notin call'[d].saw
    <3>1. CASE d = c
      BY <1>1, <3>1
    <3>2. CASE d # c
      <4>1. call'[d] = call[d]
        BY <1>1, <3>2
      <4>2. /\ call[d].pc = "idle" => call[d].saw = {}
            /\ call[d].pc = "truncate" => /\ call[d].saw \subseteq DOMAIN inodes
                                          /\ files[call[d].path] \notin call[d].saw
                                          /\ call[d].path \in Files
        BY DEF DiskInv, SawInv, InodesInv, In, Path
      <4>3. NoFile \notin DOMAIN inodes
        BY <1>2, DiskConstants
      <4>4. QED
        BY <1>3, <4>1, <4>2, <4>3
    <3>3. QED
      BY <3>1, <3>2
  <2>2. QED
    BY <2>1 DEF SawInv, In, Path
<1>7. PiecesInv'
  <2>1. \A d \in Calls : call[d].pc = "done" => call'[d].pc = "done"
    BY <1>1 DEF In
  <2>2. \A i \in DOMAIN inodes : \A k \in DOMAIN inodes[i] : inodes[i][k] \in Calls
    BY <1>2
  <2>3. QED
    BY <1>2, <2>1, <2>2 DEF DiskInv, PiecesInv, In
<1>8. QED
  BY <1>4, <1>5, <1>6, <1>7

LEMMA RemoveAllKeeps ==
  ASSUME DiskInv, NEW c \in Calls, NEW p \in Paths, RemoveAll(c, p)
  PROVE  DiskInv'
<1>1. /\ In(c, "idle") /\ UNCHANGED <<clock, trash, inodes, taken, clobbered, appended>>
      /\ files' = [files EXCEPT ![p] = NoFile]
      /\ call' = [call EXCEPT ![c].pc = "done", ![c].path = p]
  BY DEF RemoveAll, Begins
<1>2. call[c] \in CallRecord /\ p \in Files /\ call \in [Calls -> CallRecord]
  BY DiskConstants DEF DiskInv, DiskTypes
<1>3. PICK r : r = [call[c] EXCEPT !.pc = "done", !.path = p]
  OBVIOUS
<1>4. r \in CallRecord /\ r.pc = "done" /\ r.path = p
  BY <1>2, <1>3 DEF CallRecord, Stages
<1>5. call' = [call EXCEPT ![c] = r] /\ ~In(c, "done")
  BY <1>1, <1>2, <1>3 DEF In
<1>6. /\ trash' \in [TrashNames -> Calls \cup {NoFile}]
      /\ taken' \in [DOMAIN taken' -> 0..MaxClock] /\ DOMAIN taken' \subseteq DOMAIN inodes
      /\ \A n \in TrashNames : trash'[n] # NoFile => trash'[n] \in DOMAIN taken'
  BY <1>1 DEF DiskInv, DiskTypes, SandboxTypeOK, InodesInv
<1>7. DiskTypes' /\ InodesInv' /\ SawInv' /\ PiecesInv'
  BY <1>1, <1>2, <1>4, <1>5, <1>6, UnbindStep
<1>8. \A d \in Calls : call'[d].pc = "rename" => call'[d] = call[d]
  BY <1>2, <1>4, <1>5, CallStep
<1>9. TrashInv'
  BY ZenonT(60), <1>1, <1>8 DEF DiskInv, TrashInv, In
<1>10. QED
  BY <1>7, <1>9 DEF DiskInv

\* What a rename replaces was moved no earlier than the delete looked.
LEMMA RenameKeeps ==
  ASSUME DiskInv, NEW c \in Calls, Rename(c)
  PROVE  /\ DiskInv'
         /\ \A n \in TrashNames :
              trash[n] \notin {NoFile, trash'[n]} => call[c].at <= taken[trash[n]]
<1>1. PICK ino : ino = files[Path(c)]
  OBVIOUS
<1>2. PICK to : to = call[c].dest
  OBVIOUS
<1>3. /\ In(c, "rename") /\ ino # NoFile /\ UNCHANGED <<clock, inodes, clobbered, appended>>
      /\ files' = [files EXCEPT ![Path(c)] = NoFile]
      /\ trash' = [trash EXCEPT ![to] = ino]
      /\ taken' = [i \in DOMAIN taken \cup {ino} |-> IF i = ino THEN clock ELSE taken[i]]
      /\ call' = [call EXCEPT ![c].pc = "done"]
  BY <1>1, <1>2 DEF Rename, Goes
<1>4. /\ call \in [Calls -> CallRecord] /\ Path(c) \in Files
      /\ files \in [Files -> Calls \cup {NoFile}]
      /\ trash \in [TrashNames -> Calls \cup {NoFile}]
      /\ taken \in [DOMAIN taken -> 0..MaxClock]
      /\ DOMAIN taken \subseteq DOMAIN inodes /\ clock \in 0..MaxClock
      /\ ino \in DOMAIN inodes /\ ino \in Calls
  <2>1. ~In(c, "idle")
    BY <1>3 DEF In
  <2>2. QED
    BY <1>1, <1>3, <2>1 DEF DiskInv, DiskTypes, SandboxTypeOK, InodesInv, Born
<1>5. PICK r : r = [call[c] EXCEPT !.pc = "done"]
  OBVIOUS
<1>6. r \in CallRecord /\ r.pc = "done" /\ r.path = Path(c)
  <2>1. call[c] \in CallRecord
    BY <1>4
  <2>2. QED
    BY <1>5, <2>1 DEF CallRecord, Stages, Path
<1>7. call' = [call EXCEPT ![c] = r] /\ ~In(c, "done")
  BY <1>3, <1>4, <1>5 DEF In
<1>8. /\ to \in TrashNames /\ call[c].at <= clock /\ call[c].at \in 0..MaxClock
      /\ to[2] # NoStamp => to[2] = call[c].at
      /\ to[2] = NoStamp /\ trash[to] # NoFile => call[c].at <= taken[trash[to]]
  <2>1. call[c] \in CallRecord
    BY <1>4
  <2>2. call[c].at \in 0..MaxClock
    BY <2>1 DEF CallRecord
  <2>3. QED
    BY <1>2, <1>3, <2>2 DEF DiskInv, TrashInv
<1>9. /\ DOMAIN taken' = DOMAIN taken \cup {ino} /\ taken'[ino] = clock
      /\ \A i \in DOMAIN taken \ {ino} : taken'[i] = taken[i]
  BY <1>3
<1>10. /\ trash'[to] = ino /\ \A n \in TrashNames \ {to} : trash'[n] = trash[n]
       /\ trash' \in [TrashNames -> Calls \cup {NoFile}]
  BY <1>3, <1>4, <1>8
<1>11. /\ taken' \in [DOMAIN taken' -> 0..MaxClock] /\ DOMAIN taken' \subseteq DOMAIN inodes
       /\ \A n \in TrashNames : trash'[n] # NoFile => trash'[n] \in DOMAIN taken'
  <2>1. \A i \in DOMAIN taken' : taken'[i] \in 0..MaxClock
    BY <1>4, <1>9
  <2>2. taken' \in [DOMAIN taken' -> 0..MaxClock]
    BY <1>3, <2>1
  <2>3. \A n \in TrashNames : trash[n] # NoFile => trash[n] \in DOMAIN taken
    BY DEF DiskInv, InodesInv
  <2>4. QED
    BY <1>4, <1>9, <1>10, <2>2, <2>3
<1>12. DiskTypes' /\ InodesInv' /\ SawInv' /\ PiecesInv'
  <2>1. PICK f \in Files : f = Path(c)
    BY <1>4
  <2>2. files' = [files EXCEPT ![f] = NoFile]
    BY <1>3, <2>1
  <2>3. /\ UNCHANGED <<clock, inodes, clobbered, appended>>
        /\ r.path \in Files /\ r.pc = "done"
        /\ trash' \in [TrashNames -> Calls \cup {NoFile}]
    BY <1>3, <1>4, <1>6, <1>10
  <2>4. QED
    BY <1>6, <1>7, <1>11, <2>2, <2>3, UnbindStep
<1>13. \A i \in DOMAIN taken : taken[i] <= taken'[i] /\ taken'[i] <= clock
  <2>1. \A i \in DOMAIN taken : taken[i] \in 0..MaxClock /\ taken[i] <= clock
    BY <1>4 DEF DiskInv, TrashInv
  <2>2. clock <= clock
    BY <1>4
  <2>3. ASSUME NEW i \in DOMAIN taken PROVE taken[i] <= taken'[i] /\ taken'[i] <= clock
    <3>1. taken[i] <= taken[i]
      BY <2>1
    <3>2. QED
      BY <1>9, <2>1, <2>2, <3>1
  <2>4. QED
    BY <2>3
<1>14. TrashInv'
  <2>1. \A i \in DOMAIN taken' : taken'[i] <= clock'
    <3>1. clock <= clock
      BY <1>4
    <3>2. QED
      BY <1>3, <1>9, <1>13, <3>1
  <2>2. ASSUME NEW n \in TrashNames, trash'[n] # NoFile, n[2] # NoStamp
        PROVE  n[2] <= taken'[trash'[n]]
    <3>1. CASE n = to
      BY <1>8, <1>9, <1>10, <2>2, <3>1
    <3>2. CASE n # to
      <4>1. trash'[n] = trash[n]
        BY <1>10, <3>2
      <4>2. n[2] <= taken[trash[n]] /\ trash[n] \in DOMAIN taken
        BY <2>2, <4>1 DEF DiskInv, TrashInv, InodesInv
      <4>3. n[2] \in 0..MaxClock
        BY <2>2, DiskConstants
      <4>4. taken[trash[n]] \in Int /\ taken'[trash[n]] \in Int
        BY <1>4, <1>9, <1>11, <4>2
      <4>5. QED
        BY <1>13, <4>1, <4>2, <4>3, <4>4
    <3>3. QED
      BY <3>1, <3>2
  <2>3. ASSUME NEW d \in Calls, call'[d].pc = "rename"
        PROVE  /\ call'[d].dest \in TrashNames /\ call'[d].at <= clock'
               /\ call'[d].dest[2] # NoStamp => call'[d].dest[2] = call'[d].at
               /\ call'[d].dest[2] = NoStamp /\ trash'[call'[d].dest] # NoFile
                    => call'[d].at <= taken'[trash'[call'[d].dest]]
    <3>1. call'[d] = call[d]
      BY <1>4, <1>6, <1>7, <2>3, CallStep
    <3>2. PICK x : x = call[d].dest
      OBVIOUS
    <3>3. /\ x \in TrashNames /\ call[d].at <= clock
          /\ x[2] # NoStamp => x[2] = call[d].at
          /\ x[2] = NoStamp /\ trash[x] # NoFile => call[d].at <= taken[trash[x]]
      BY <2>3, <3>1, <3>2 DEF DiskInv, TrashInv, In
    <3>4. call[d] \in CallRecord
      BY <1>4
    <3>5. call[d].at \in 0..MaxClock
      BY <3>4 DEF CallRecord
    <3>6. ASSUME x[2] = NoStamp, trash'[x] # NoFile PROVE call[d].at <= taken'[trash'[x]]
      <4>1. CASE x = to
        BY <1>9, <1>10, <3>3, <4>1
      <4>2. CASE x # to
        <5>1. trash'[x] = trash[x]
          BY <1>10, <3>3, <4>2
        <5>2. trash[x] \in DOMAIN taken /\ call[d].at <= taken[trash[x]]
          BY <3>3, <3>6, <5>1 DEF DiskInv, InodesInv
        <5>3. taken[trash[x]] \in Int /\ taken'[trash[x]] \in Int
          BY <1>4, <1>9, <1>11, <5>2
        <5>4. QED
          BY <1>13, <3>5, <5>1, <5>2, <5>3
      <4>3. QED
        BY <4>1, <4>2
    <3>7. QED
      BY <1>3, <3>1, <3>2, <3>3, <3>6
  <2>4. QED
    BY <2>1, <2>2, <2>3 DEF TrashInv, In
<1>15. ASSUME NEW n \in TrashNames, trash[n] \notin {NoFile, trash'[n]}
       PROVE  call[c].at <= taken[trash[n]]
  <2>1. n = to
    BY <1>10, <1>15
  <2>2. CASE to[2] = NoStamp
    BY <1>8, <1>15, <2>1, <2>2
  <2>3. CASE to[2] # NoStamp
    BY <1>8, <1>15, <2>1, <2>3 DEF DiskInv, TrashInv
  <2>4. QED
    BY <2>2, <2>3
<1>16. QED
  BY <1>12, <1>14, <1>15 DEF DiskInv

LEMMA SecondKeeps ==
  ASSUME DiskInv, Second
  PROVE  DiskInv'
<1>1. clock' = clock + 1 /\ clock < MaxClock
      /\ UNCHANGED <<files, trash, inodes, call, taken, clobbered, appended>>
  BY DEF Second
<1>2. clock \in 0..MaxClock /\ MaxClock \in Nat /\ clock' \in 0..MaxClock
  BY <1>1, DiskConstants DEF DiskInv, DiskTypes, SandboxTypeOK
<1>3. DiskTypes'
  BY <1>1, <1>2 DEF DiskInv, DiskTypes, SandboxTypeOK
<1>4. InodesInv' /\ SawInv' /\ PiecesInv'
  BY <1>1 DEF DiskInv, InodesInv, SawInv, PiecesInv, In, Path, Born
<1>5. \A i \in DOMAIN taken : taken[i] <= clock'
  <2>1. \A i \in DOMAIN taken : taken[i] \in 0..MaxClock /\ taken[i] <= clock
    BY DEF DiskInv, DiskTypes, TrashInv
  <2>2. QED
    BY <1>1, <1>2, <2>1
<1>6. \A d \in Calls : In(d, "rename") => call[d].at <= clock'
  <2>1. ASSUME NEW d \in Calls, In(d, "rename") PROVE call[d].at <= clock'
    <3>1. call[d] \in CallRecord
      BY DEF DiskInv, DiskTypes
    <3>2. call[d].at \in 0..MaxClock /\ call[d].at <= clock
      BY <2>1, <3>1 DEF CallRecord, DiskInv, TrashInv
    <3>3. QED
      BY <1>1, <1>2, <3>2
  <2>2. QED
    BY <2>1
<1>7. TrashInv'
  BY <1>1, <1>5, <1>6 DEF DiskInv, TrashInv, In
<1>8. QED
  BY <1>3, <1>4, <1>7 DEF DiskInv

LEMMA DiskStep == DiskInv /\ [SandboxNext]_sandboxVars => DiskInv'
<1> SUFFICES ASSUME DiskInv, [SandboxNext]_sandboxVars PROVE DiskInv'
  OBVIOUS
<1>1. CASE Second
  BY <1>1, SecondKeeps
<1>2. ASSUME NEW c \in Calls, NEW p \in Paths,
             \/ Write(c, p) \/ CreateNew(c, p) \/ OpenAppend(c, p) \/ RemoveAll(c, p) \/ Delete(c, p)
      PROVE  DiskInv'
  <2>1. p \in Files
    BY DiskConstants
  <2>2. QED
    BY <1>2, <2>1, WriteKeeps, CreateNewKeeps, OpenAppendKeeps, RemoveAllKeeps, DeleteKeeps
<1>3. ASSUME NEW c \in Calls, NEW n \in Titles, CreateNote(c, n) PROVE DiskInv'
  <2>1. SafeName[n] \in Files
    BY DiskConstants
  <2>2. QED
    BY <1>3, <2>1, WriteKeeps DEF CreateNote
<1>4. ASSUME NEW c \in Calls,
             Truncate(c) \/ WriteAtStart(c) \/ AppendAtEnd(c) \/ Rename(c) \/ RenameFails(c)
      PROVE  DiskInv'
  BY <1>4, TruncateKeeps, WriteAtStartKeeps, AppendAtEndKeeps, RenameKeeps, RenameFailsKeeps
<1>5. CASE UNCHANGED sandboxVars
  BY <1>5 DEF sandboxVars, DiskInv, DiskTypes, SandboxTypeOK, InodesInv, SawInv, PiecesInv,
              TrashInv, In, Path, Born
<1>6. QED
  BY <1>1, <1>2, <1>3, <1>4, <1>5 DEF SandboxNext

LEMMA DiskInvAlways == SandboxSpec => []DiskInv
<1>1. DiskInv /\ [SandboxNext]_sandboxVars => DiskInv'
  BY DiskStep
<1>2. QED
  BY DiskInit, <1>1, PTL DEF SandboxSpec

\* The names, the inodes, the calls and what is recorded of them keep their types.
THEOREM SandboxTypes == SandboxSpec => []SandboxTypeOK
<1>1. DiskInv => SandboxTypeOK
  BY DEF DiskInv, DiskTypes
<1>2. QED
  BY DiskInvAlways, <1>1, PTL

\* Every append that was answered is in its file once, unless it was overwritten.
THEOREM AppendsKeptAlways == SandboxSpec => []AppendsKept
<1>1. ASSUME DiskInv PROVE AppendsKept
  <2>1. ASSUME NEW d \in DOMAIN appended \ clobbered
        PROVE  Cardinality({k \in DOMAIN inodes[appended[d]] : inodes[appended[d]][k] = d}) = 1
    <3>1. PICK s : s = inodes[appended[d]]
      OBVIOUS
    <3>2. Once(s, d)
      BY <1>1, <3>1 DEF DiskInv, PiecesInv
    <3>3. PICK k \in DOMAIN s : \A m \in DOMAIN s : s[m] = d <=> m = k
      BY <3>2 DEF Once
    <3>4. {m \in DOMAIN s : s[m] = d} = {k}
      BY <3>3
    <3>5. Cardinality({m \in DOMAIN s : s[m] = d}) = 1
      BY <3>4, FS_Singleton
    <3>6. QED
      BY <3>1, <3>5
  <2>2. QED
    BY <2>1 DEF AppendsKept
<1>2. QED
  BY DiskInvAlways, <1>1, PTL

\* A delete takes the place of nothing that was in .trash before it looked.
THEOREM TrashKeepsWhatItHadAlways == SandboxSpec => TrashKeepsWhatItHad
<1> DEFINE Kept == \A n \in TrashNames :
                     trash[n] \notin {NoFile, trash'[n]} =>
                       \E c \in Calls : In(c, "rename") /\ ~In(c, "rename")' /\ call[c].at <= taken[trash[n]]
<1>1. ASSUME DiskInv, SandboxNext PROVE Kept
  <2>1. CASE trash' = trash
    BY <2>1
  <2>2. ASSUME NEW c \in Calls, Rename(c) PROVE Kept
    <3>1. In(c, "rename") /\ call' = [call EXCEPT ![c].pc = "done"]
      BY <2>2 DEF Rename, Goes
    <3>2. call \in [Calls -> CallRecord] /\ call[c] \in CallRecord
      BY <1>1 DEF DiskInv, DiskTypes
    <3>3. call'[c].pc = "done"
      BY <3>1, <3>2 DEF CallRecord
    <3>4. ~In(c, "rename")'
      BY <3>3 DEF In
    <3>5. QED
      BY <1>1, <2>2, <3>1, <3>4, RenameKeeps
  <2>3. trash' = trash \/ \E c \in Calls : Rename(c)
    BY <1>1 DEF SandboxNext, Second, Write, CreateNew, OpenAppend, RemoveAll, Delete, CreateNote,
                Truncate, WriteAtStart, AppendAtEnd, Appends, RenameFails
  <2>4. QED
    BY <2>1, <2>2, <2>3
<1>2. DiskInv /\ [SandboxNext]_sandboxVars => [Kept]_sandboxVars
  BY <1>1
<1>3. QED
  BY DiskInvAlways, <1>2, PTL DEF SandboxSpec, TrashKeepsWhatItHad
=============================================================================
