--------------------------- MODULE Research_proofs ---------------------------
(***************************************************************************)
(* Proofs about Research, for every value of its constants: no unfinished  *)
(* candle is stored and a fetch advances, for any number of updates; every *)
(* decision to buy is answered once, the accounts of every scenario agree  *)
(* and the labels tell their trades, in any market; no fit learns from the *)
(* future, and a purge refuses no split that has the rows.                 *)
(***************************************************************************)
EXTENDS Research, Fractions, FiniteSetTheorems, WellFoundedInduction, TLAPS

-----------------------------------------------------------------------------
(* What the instances take from the libraries is what this module takes.   *)
LEMMA SameInSplits ==
    \A S : /\ Splits!Cardinality(S) = Cardinality(S)
          /\ Splits!IsFiniteSet(S) = IsFiniteSet(S)
          /\ Splits!Max(S) = Max(S)
BY Zenon DEF Splits!Cardinality, Cardinality, Splits!IsFiniteSet, IsFiniteSet, Splits!Max, Max

-----------------------------------------------------------------------------
(* Sets of naturals and increasing sequences. *)

Below == {pair \in Nat \X Nat : pair[1] < pair[2]}

LEMMA LeastElement ==
    ASSUME NEW T, T \subseteq Nat, T # {}
    PROVE  \E x \in T : \A y \in T : x <= y
<1>1. IsWellFoundedOn(Below, Nat)
  BY NatLessThanWellFounded DEF OpToRel, Below
<1>2. PICK x \in T : \A y \in T : ~(<<y, x>> \in Below)
  BY <1>1, WFMin
<1>3. ASSUME NEW y \in T PROVE x <= y
  <2>1. x \in Nat /\ y \in Nat /\ <<y, x>> \notin Below
    BY <1>2
  <2>2. ~(y < x)
    BY <2>1 DEF Below
  <2> QED
    BY <2>1, <2>2
<1> QED
  BY <1>3

\* Max of a set of naturals that is bounded and not empty is its greatest element.
LEMMA Greatest ==
    ASSUME NEW n \in Nat, NEW S, S \subseteq 0..n, S # {}
    PROVE  Max(S) \in S /\ \A y \in S : Max(S) >= y
<1> DEFINE T == {k \in Nat : n - k \in S}
<1>1. T \subseteq Nat /\ T # {}
  <2>1. PICK y \in S : TRUE
    OBVIOUS
  <2>2. n - y \in T
    BY <2>1
  <2> QED
    BY <2>2
<1>2. PICK x \in T : \A y \in T : x <= y
  <2> HIDE DEF T
  <2> QED
    BY <1>1, LeastElement
<1>3. n - x \in S /\ \A y \in S : n - x >= y
  <2>1. ASSUME NEW y \in S PROVE n - x >= y
    <3>1. n - y \in T /\ y \in Nat /\ n - y \in Nat /\ x \in Nat
      BY <1>2 
    <3>2. x <= n - y
      <4> HIDE DEF T
      <4> QED
        BY <1>2, <3>1
    <3> QED
      BY <3>1, <3>2
  <2> QED
    BY <1>2, <2>1
<1> QED
  BY <1>3 DEF Max

Increasing(s) == \A i, j \in 1..Len(s) : i < j => s[i] < s[j]

\* An increasing sequence of naturals gains one at least in every place.
LEMMA Gap ==
    ASSUME NEW s \in Seq(Nat), Increasing(s),
           NEW i \in 1..Len(s), NEW j \in 1..Len(s), i <= j
    PROVE  s[j] - s[i] >= j - i
<1> SUFFICES ASSUME s[j] - s[i] < j - i PROVE FALSE
  <2>1. s[i] \in Nat /\ s[j] \in Nat
    OBVIOUS
  <2> QED
    BY <2>1
<1> DEFINE T == {k \in Nat : i + k \in 1..Len(s) /\ s[i + k] - s[i] < k}
<1>1. T \subseteq Nat /\ T # {}
  <2>1. j - i \in T
    BY i + (j - i) = j
  <2> QED
    BY <2>1
<1>2. PICK x \in T : \A y \in T : x <= y
  <2> HIDE DEF T
  <2> QED
    BY <1>1, LeastElement
<1>3. /\ x \in Nat /\ i + x \in 1..Len(s) /\ s[i + x] - s[i] < x
      /\ s[i] \in Nat /\ s[i + x] \in Nat /\ Len(s) \in Nat /\ i \in Nat
  BY <1>2
<1>4. x # 0
  BY <1>3
<1> DEFINE y == i + (x - 1)
<1>5. x - 1 \in Nat /\ y \in 1..Len(s) /\ y < i + x
  BY <1>3, <1>4
<1>8. s[y] \in Nat
  <2> HIDE DEF y
  <2> QED
    BY <1>5
<1>6. s[y] < s[i + x]
  <2> HIDE DEF y
  <2> QED
    BY <1>3, <1>5 DEF Increasing
<1>9. s[y] - s[i] < x - 1
  <2> HIDE DEF y
  <2>1. \A a, b, c \in Nat : a < b /\ b - c < x => a - c < x - 1
    BY <1>3
  <2> QED
    BY <1>3, <1>8, <1>6, <2>1
<1>7. x - 1 \in T
  BY <1>5, <1>9
<1> QED
  BY <1>2, <1>3, <1>7

\* The elements of a finite set of naturals before one of them.
Before(S, o) == {p \in S : p < o}

LEMMA BeforeGrows ==
    ASSUME NEW S, S \subseteq Nat, IsFiniteSet(S), NEW a \in S, NEW b \in S, a < b
    PROVE  Cardinality(Before(S, a)) < Cardinality(Before(S, b))
<1>1. Before(S, b) \in SUBSET S /\ Before(S, a) \in SUBSET Before(S, b)
  <2>1. \A c \in S : c < a => c < b
    <3>1. S \subseteq Int /\ a \in Int /\ b \in Int
      OBVIOUS
    <3> QED
      BY <3>1
  <2> QED
    BY <2>1 DEF Before
<1>2. IsFiniteSet(Before(S, b))
  BY <1>1, FS_Subset
<1>3. a \in Before(S, b) /\ a \notin Before(S, a)
  BY DEF Before
<1>4. /\ Cardinality(Before(S, a)) <= Cardinality(Before(S, b))
      /\ Cardinality(Before(S, a)) # Cardinality(Before(S, b))
      /\ IsFiniteSet(Before(S, a))
  BY <1>1, <1>2, <1>3, FS_Subset
<1> QED
  BY <1>2, <1>4, FS_CardinalityType

\* What TLC is given as the ordinals in order is what a sorted frame holds.
LEMMA InOrderIncreases ==
    ASSUME NEW S, S \subseteq Nat, IsFiniteSet(S), S # {}
    PROVE  /\ Splits!InOrder(S) \in Seq(Nat)
           /\ Len(Splits!InOrder(S)) = Cardinality(S)
           /\ Len(Splits!InOrder(S)) >= 1
           /\ Increasing(Splits!InOrder(S))
<1> DEFINE n == Cardinality(S)
           f == [o \in S |-> Cardinality(Before(S, o))]
           s == Splits!InOrder(S)
<1>1. n \in Nat /\ n # 0
  BY FS_CardinalityType, FS_EmptySet
<1>2. \A o \in S : f[o] \in 0..(n - 1)
  <2> SUFFICES ASSUME NEW o \in S PROVE f[o] \in 0..(n - 1)
    OBVIOUS
  <2>1. Before(S, o) \in SUBSET S /\ o \notin Before(S, o)
    BY DEF Before
  <2>2. /\ Cardinality(Before(S, o)) <= n /\ Cardinality(Before(S, o)) # n
        /\ IsFiniteSet(Before(S, o))
    BY <2>1, FS_Subset
  <2>3. Cardinality(Before(S, o)) \in Nat
    BY <2>2, FS_CardinalityType
  <2> QED
    BY <1>1, <2>2, <2>3
<1>3. \A a, b \in S : f[a] = f[b] => a = b
  <2> SUFFICES ASSUME NEW a \in S, NEW b \in S, a # b PROVE f[a] # f[b]
    OBVIOUS
  <2>0. a \in Nat /\ b \in Nat /\ f[a] \in Int /\ f[b] \in Int
    BY <1>1, <1>2
  <2>1. CASE a < b
    <3>1. f[a] < f[b]
      BY <2>1, BeforeGrows
    <3> HIDE DEF f
    <3> QED
      BY <2>0, <3>1
  <2>2. CASE b < a
    <3>1. f[b] < f[a]
      BY <2>2, BeforeGrows
    <3> HIDE DEF f
    <3> QED
      BY <2>0, <3>1
  <2> QED
    BY <2>0, <2>1, <2>2
<1>4. f \in Injection(S, 0..(n - 1))
  BY <1>2, <1>3 DEF Injection, IsInjective
<1>5. IsFiniteSet(0..(n - 1)) /\ Cardinality(0..(n - 1)) = n
  BY <1>1, FS_Interval
<1>6. f \in Surjection(S, 0..(n - 1))
  <2> HIDE DEF f
  <2> QED
    BY <1>4, <1>5, FS_Injection
<1>7. \A k \in 0..(n - 1) : \E o \in S : Cardinality(Before(S, o)) = k
  BY <1>6 DEF Surjection
<1>8. \A i \in 1..n : s[i] \in S /\ Cardinality(Before(S, s[i])) = i - 1
  <2> DEFINE Place(i, o) == Splits!Cardinality({p \in S : p < o}) = i - 1
  <2>1. \A i, o : Place(i, o) <=> Cardinality(Before(S, o)) = i - 1
    BY SameInSplits, Zenon DEF Before
  <2>2. \A i \in 1..n : s[i] = CHOOSE o \in S : Place(i, o)
    BY SameInSplits DEF Splits!InOrder
  <2>3. ASSUME NEW i \in 1..n
        PROVE  s[i] \in S /\ Cardinality(Before(S, s[i])) = i - 1
    <3>0. i - 1 \in 0..(n - 1)
      BY <1>1
    <3>1. \E o \in S : Place(i, o)
      <4> HIDE DEF Place
      <4> QED
        BY <1>7, <2>1, <3>0
    <3>2. s[i] = CHOOSE o \in S : Place(i, o)
      BY <2>2
    <3> HIDE DEF s, Place
    <3>3. s[i] \in S /\ Place(i, s[i])
      BY <3>1, <3>2
    <3> QED
      BY <2>1, <3>3
  <2> QED
    BY <2>3
<1>9. s \in Seq(Nat) /\ Len(s) = n
  <2> DEFINE Chosen(i) == CHOOSE o \in S : Splits!Cardinality({p \in S : p < o}) = i - 1
  <2>0. s = [i \in 1..n |-> Chosen(i)]
    BY SameInSplits DEF Splits!InOrder
  <2> HIDE DEF s, n, Chosen
  <2>1. s = [i \in 1..n |-> s[i]]
    BY <2>0
  <2>2. \A i \in 1..n : s[i] \in Nat
    BY <1>8
  <2> QED
    BY <1>1, <2>1, <2>2
<1>10. ASSUME NEW i \in 1..n, NEW j \in 1..n, i < j PROVE s[i] < s[j]
  <2>1. /\ s[i] \in S /\ s[j] \in S /\ s[i] \in Nat /\ s[j] \in Nat
        /\ Cardinality(Before(S, s[i])) = i - 1
        /\ Cardinality(Before(S, s[j])) = j - 1
    BY <1>8
  <2>2. CASE s[j] = s[i]
    BY <2>1, <2>2, <1>10
  <2>3. CASE s[j] < s[i]
    <3>1. Cardinality(Before(S, s[j])) < Cardinality(Before(S, s[i]))
      BY <2>1, <2>3, BeforeGrows
    <3> QED
      BY <1>10, <2>1, <3>1
  <2> QED
    BY <2>1, <2>2, <2>3
<1> HIDE DEF s
<1>11. Increasing(s) /\ Len(s) = Cardinality(S) /\ Len(s) >= 1 /\ s \in Seq(Nat)
  BY <1>1, <1>9, <1>10 DEF Increasing
<1> QED
  BY <1>11 DEF s

-----------------------------------------------------------------------------
(* The market data. *)

\* A file of closed candles only.
Sound(d) ==
    /\ DOMAIN d \subseteq Candles
    /\ \A t \in DOMAIN d : d[t] # "forming"

Fields == {"now", "since", "cursor", "prev", "failures", "existing", "rows", "data"}

\* What an update has in memory: a candle it saw unfinished had not closed when
\* the update read the clock, so that `Finished` leaves it out.
CallInv(c) ==
    /\ DOMAIN c = Fields
    /\ c.now \in Int /\ c.now <= clock
    /\ Sound(c.existing) /\ Sound(c.data)
    /\ c.cursor \in Int /\ c.failures \in Nat
    /\ DOMAIN c.rows \subseteq Candles
    /\ \A t \in DOMAIN c.rows : c.rows[t] = "forming" => ~Closed(t, c.now)

\* The inductive invariant: the files are sound, and so is what will be stored.
MarketInv ==
    /\ clock \in Nat
    /\ call = [p \in Procs |-> call[p]]
    /\ latest # None => Sound(latest)
    /\ \A d \in replaced : d # None => Sound(d)
    /\ \A d \in DOMAIN snapshots : Sound(d)
    /\ \A p \in Procs : CallInv(call[p])

-----------------------------------------------------------------------------
\* What has closed by one reading of the clock has closed by a later one.
LEMMA StaysClosed ==
    ASSUME MarketAssumption, NEW t \in Int, NEW a \in Int, NEW b \in Int, a <= b, Closed(t, a)
    PROVE  Closed(t, b)
<1> DEFINE end == (t + 1) * Span
<1>1. end \in Int
  BY DEF MarketAssumption
<1>2. end <= a
  BY DEF Closed
<1> HIDE DEF end
<1>3. end <= b
  BY <1>1, <1>2
<1> QED
  BY <1>3 DEF Closed, end

\* An update that has nothing in memory.
LEMMA NoCallInv ==
    ASSUME clock \in Nat
    PROVE  CallInv(NoCall)
BY DEF CallInv, NoCall, NoRows, Sound, Fields

LEMMA InitInv == ASSUME MarketAssumption PROVE Init => MarketInv
<1> SUFFICES ASSUME Init PROVE MarketInv
  OBVIOUS
<1>1. clock \in Nat
  BY DEF Init, MarketAssumption
<1>2. \A p \in Procs : CallInv(call[p])
  BY <1>1, NoCallInv DEF Init
<1> QED
  BY <1>1, <1>2 DEF Init, MarketInv

\* A step that leaves the files and gives one update other things to remember.
LEMMA OneCall ==
    ASSUME MarketInv, NEW p \in Procs, NEW c, UNCHANGED clock,
           call' = [call EXCEPT ![p] = c], CallInv(c),
           latest' # None => Sound(latest)', \A d \in replaced' : d # None => Sound(d),
           \A d \in DOMAIN snapshots' : Sound(d)
    PROVE  MarketInv'
<1>1. \A q \in Procs : CallInv(call[q])'
  <2> SUFFICES ASSUME NEW q \in Procs PROVE CallInv(call[q])'
    OBVIOUS
  <2>1. call'[q] = IF q = p THEN c ELSE call[q]
    BY DEF MarketInv
  <2>2. CallInv(call'[q])
    BY <2>1 DEF MarketInv
  <2> QED
    BY <2>2 DEF CallInv, Closed
<1>2. call' = [q \in Procs |-> call'[q]]
  BY DEF MarketInv
<1> QED
  BY <1>1, <1>2 DEF MarketInv

\* A step that leaves what the updates remember.
LEMMA SameCalls ==
    ASSUME MarketInv, UNCHANGED <<clock, call>>,
           latest' # None => Sound(latest)', \A d \in replaced' : d # None => Sound(d),
           \A d \in DOMAIN snapshots' : Sound(d)
    PROVE  MarketInv'
BY DEF MarketInv, CallInv, Closed

\* An update forgets everything when it ends.
LEMMA Leaving ==
    ASSUME MarketInv, NEW p \in Procs, Leave(p), UNCHANGED clock,
           latest' # None => Sound(latest)', \A d \in replaced' : d # None => Sound(d),
           \A d \in DOMAIN snapshots' : Sound(d)
    PROVE  MarketInv'
<1>1. CallInv(NoCall)
  BY NoCallInv DEF MarketInv
<1> QED
  BY <1>1, OneCall DEF Leave

-----------------------------------------------------------------------------
\* The latest candle of some is one of them.
LEMMA LatestCandle ==
    ASSUME MarketAssumption, NEW S, S \subseteq Candles, S # {}
    PROVE  Max(S) \in S /\ Max(S) \in Int
<1>1. MaxClock \div Span \in Nat
  BY DEF MarketAssumption
<1>2. Max(S) \in S
  BY <1>1, Greatest DEF Candles
<1>3. Max(S) \in Candles
  BY <1>2
<1>4. Candles \subseteq Int
  BY DEF Candles
<1> QED
  BY <1>2, <1>3, <1>4

\* One lemma for each kind of step.
LEMMA BeginInv ==
    ASSUME MarketAssumption, MarketInv, NEW p \in Procs, Begin(p)
    PROVE  MarketInv'
<1> DEFINE since == IF latest = None THEN (clock - Lookback) \div Span ELSE Max(DOMAIN latest) + 1
           c == [NoCall EXCEPT !.now = clock, !.since = since, !.cursor = since,
                               !.existing = IF latest = None THEN NoRows ELSE latest]
<1>1. call' = [call EXCEPT ![p] = c] /\ UNCHANGED <<clock, latest, replaced, snapshots>>
  BY DEF Begin
<1>3. since \in Int
  <2>1. CASE latest = None
    <3>1. (clock - Lookback) \div Span \in Int
      BY DEF MarketAssumption, MarketInv
    <3> QED
      BY <2>1, <3>1
  <2>2. CASE latest # None
    <3>1. DOMAIN latest # {} /\ DOMAIN latest \subseteq Candles
      BY <2>2 DEF Begin, Valid, MarketInv, Sound
    <3>2. Max(DOMAIN latest) \in Int
      BY <3>1, LatestCandle
    <3> QED
      BY <2>2, <3>2
  <2> QED
    BY <2>1, <2>2
<1> HIDE DEF since
<1>4. /\ DOMAIN c = Fields /\ c.now = clock /\ c.cursor = since /\ c.failures = 0
      /\ c.rows = NoRows /\ c.data = NoRows
      /\ c.existing = IF latest = None THEN NoRows ELSE latest
  BY DEF NoCall, Fields
<1>5. Sound(NoRows) /\ (latest # None => Sound(latest))
  BY DEF Sound, NoRows, MarketInv
<1>6. Sound(c.existing) /\ Sound(c.data) /\ DOMAIN c.rows = {}
  BY <1>4, <1>5 DEF NoRows
<1> HIDE DEF c
<1>2. CallInv(c)
  BY <1>3, <1>4, <1>6 DEF CallInv, MarketInv
<1> QED
  BY <1>1, <1>2, OneCall DEF MarketInv

\* Later rows win: a row is the page's or an older one.
LEMMA PageInv ==
    ASSUME MarketAssumption, MarketInv, NEW p \in Procs, NEW page \in Pages, Page(p, page)
    PROVE  MarketInv'
<1> DEFINE old == call[p]
           next == Max(page) + 1
           stalled == next <= old.cursor \/ next = old.prev
           eligible == {t \in page : t >= old.since /\ t * Span < old.now}
           seen == Over([t \in eligible |-> Served(t)], old.rows)
           prev == IF stalled THEN old.prev ELSE old.cursor
           cursor == IF stalled THEN old.cursor ELSE next
           c == [old EXCEPT !.rows = seen, !.failures = 0, !.prev = prev, !.cursor = cursor]
<1>0. CallInv(old)
  BY DEF MarketInv
<1>1. call' = [call EXCEPT ![p] = c] /\ UNCHANGED <<clock, latest, replaced, snapshots>>
  BY DEF Page, MarketInv
<1>7. page \subseteq Candles /\ page # {}
  BY Zenon DEF Pages
<1>2. eligible \subseteq Candles /\ eligible \subseteq Int
  <2>1. \A t \in Candles : t \in Int
    BY DEF Candles
  <2> QED
    BY <1>7, <2>1
<1>8. cursor \in Int
  <2>1. Max(page) \in Int
    BY <1>7, LatestCandle
  <2>2. next \in Int
    BY <2>1
  <2> QED
    BY <1>0, <2>2 DEF CallInv
<1>3. /\ DOMAIN seen = eligible \cup DOMAIN old.rows
      /\ \A t \in DOMAIN seen :
            seen[t] = IF t \in eligible THEN Served(t) ELSE old.rows[t]
  <2> HIDE DEF eligible
  <2> QED
    BY DEF Over
<1>4. \A t \in eligible : Served(t) = "forming" => ~Closed(t, old.now)
  <2> SUFFICES ASSUME NEW t \in eligible, Closed(t, old.now) PROVE Closed(t, clock)
    BY DEF Served
  <2>1. t \in Int /\ old.now \in Int /\ clock \in Int /\ old.now <= clock
    BY <1>0, <1>2 DEF CallInv, MarketInv
  <2> QED
    BY <2>1, StaysClosed
<1> HIDE DEF seen, eligible, prev, cursor, next, stalled
<1>5. /\ DOMAIN c = Fields /\ c.rows = seen /\ c.now = old.now
      /\ c.existing = old.existing /\ c.data = old.data
      /\ c.cursor = cursor /\ c.failures = 0
  BY <1>0 DEF CallInv, Fields
<1>6. CallInv(c)
  BY <1>0, <1>2, <1>3, <1>4, <1>5, <1>8 DEF CallInv
<1> QED
  BY <1>1, <1>6, OneCall DEF MarketInv

LEMMA FetchingInv ==
    ASSUME MarketAssumption, MarketInv, NEW p \in Procs, Fetching(p)
    PROVE  MarketInv'
<1>1. CASE LastPage(p)
  BY <1>1, SameCalls DEF LastPage, MarketInv
<1>2. CASE PageFails(p)
  <2> DEFINE c == [call[p] EXCEPT !.failures = @ + 1]
  <2>1. UNCHANGED <<clock, latest, replaced, snapshots>>
    BY <1>2 DEF PageFails
  <2>2. CASE Leave(p)
    BY <2>1, <2>2, Leaving DEF MarketInv
  <2>3. CASE call' = [call EXCEPT ![p].failures = @ + 1]
    <3>1. call' = [call EXCEPT ![p] = c]
      BY <2>3
    <3>2. CallInv(c)
      BY DEF CallInv, Fields, MarketInv
    <3> QED
      BY <2>1, <3>1, <3>2, OneCall DEF MarketInv
  <2> QED
    BY <1>2, <2>2, <2>3 DEF PageFails
<1> QED
  BY <1>1, <1>2, PageInv DEF Fetching

\* What is persisted was merged of sound rows, and filtered once more.
LEMMA MergeInv ==
    ASSUME MarketInv, NEW p \in Procs, Merge(p)
    PROVE  MarketInv'
<1> DEFINE old == call[p]
           fetched == Finished(old.rows, old.now)
           both == Over(fetched, old.existing)
           merged == Finished(both, old.now)
           c == [NoCall EXCEPT !.data = merged]
<1>0. CallInv(old)
  BY DEF MarketInv
<1>1. call' = [call EXCEPT ![p] = c] /\ UNCHANGED <<clock, latest, replaced, snapshots>>
  BY DEF Merge
<1>2. Sound(fetched)
  BY <1>0 DEF Sound, Finished, Restrict, CallInv
<1> HIDE DEF fetched
<1>3. Sound(both)
  BY <1>0, <1>2 DEF Sound, Over, CallInv
<1> HIDE DEF both
<1>4. Sound(merged)
  BY <1>3 DEF Sound, Finished, Restrict
<1> HIDE DEF merged
<1>5. CallInv(c)
  BY <1>4 DEF CallInv, NoCall, NoRows, Sound, Fields, MarketInv
<1> QED
  BY <1>1, <1>5, OneCall DEF MarketInv

\* A snapshot that is stored keeps the others, and one that is removed too.
LEMMA StoreSound ==
    ASSUME MarketInv, NEW d, NEW state, Sound(d), Store(d, state)
    PROVE  \A e \in DOMAIN snapshots' : Sound(e)
BY DEF Store, Over, MarketInv

LEMMA RemoveSound ==
    ASSUME MarketInv, NEW d, Remove(d)
    PROVE  \A e \in DOMAIN snapshots' : Sound(e)
BY DEF Remove, Restrict, MarketInv

\* The snapshot and the latest file are what the update merged.
LEMMA PersistingInv ==
    ASSUME MarketInv, NEW p \in Procs, Persisting(p)
    PROVE  MarketInv'
<1>0. Sound(call[p].data)
  BY DEF MarketInv, CallInv
<1>1. CASE ReuseSnapshot(p)
  BY <1>1, SameCalls DEF ReuseSnapshot, MarketInv
<1>2. CASE CreateSnapshot(p)
  BY <1>0, <1>2, StoreSound, SameCalls DEF CreateSnapshot, MarketInv, Sound
<1>3. CASE CopySnapshot(p)
  BY <1>0, <1>3, StoreSound, SameCalls DEF CopySnapshot, MarketInv, Sound
<1>4. CASE SyncSnapshot(p)
  BY <1>0, <1>4, StoreSound, SameCalls DEF SyncSnapshot, MarketInv, Sound
<1>5. CASE ReplaceLatest(p)
  BY <1>0, <1>5, Leaving DEF ReplaceLatest, MarketInv, Sound
<1> QED
  BY <1>1, <1>2, <1>3, <1>4, <1>5 DEF Persisting

\* An error may remove the snapshot; a killed process removes nothing.
LEMMA EndingInv ==
    ASSUME MarketInv, NEW p \in Procs, Fail(p) \/ Kill(p)
    PROVE  MarketInv'
<1>1. Leave(p) /\ UNCHANGED <<clock, latest, replaced>>
  BY DEF Fail, Kill
<1>2. \A d \in DOMAIN snapshots' : Sound(d)
  BY RemoveSound DEF Fail, Kill, MarketInv
<1> QED
  BY <1>1, <1>2, Leaving DEF MarketInv, Sound

\* A torn file holds candles of the file, and a cut one.
LEMMA TornSound ==
    ASSUME NEW d, Sound(d), NEW e \in Torn(d)
    PROVE  Sound(e)
<1>1. CASE e \in {d, NoRows}
  BY <1>1 DEF Sound, NoRows
<1>2. CASE \E m \in DOMAIN d, v \in {"cut", "final"} :
             e = [t \in {u \in DOMAIN d : u <= m} |-> IF t = m THEN v ELSE d[t]]
  <2>1. PICK m \in DOMAIN d, v \in {"cut", "final"} :
               e = [t \in {u \in DOMAIN d : u <= m} |-> IF t = m THEN v ELSE d[t]]
    BY <1>2
  <2>2. DOMAIN e \subseteq DOMAIN d /\ \A t \in DOMAIN e : e[t] = IF t = m THEN v ELSE d[t]
    BY <2>1
  <2> QED
    BY <2>1, <2>2 DEF Sound
<1> QED
  BY <1>1, <1>2 DEF Torn

LEMMA HostCrashInv ==
    ASSUME MarketInv, HostCrash
    PROVE  MarketInv'
<1>1. latest' # None => Sound(latest')
  <2> DEFINE shown == replaced \cup {latest}
  <2>1. \A d \in shown \ {None} : Sound(d)
    BY DEF MarketInv
  <2>2. latest' \in (shown \cap {None}) \cup UNION {Torn(d) : d \in shown \ {None}}
    BY DEF HostCrash
  <2> HIDE DEF shown
  <2>3. \A d \in shown \ {None} : \A e \in Torn(d) : Sound(e)
    BY <2>1, TornSound
  <2> QED
    BY <2>2, <2>3
<1>2. \A d \in DOMAIN snapshots' : Sound(d)
  BY DEF HostCrash, MarketInv
<1>3. /\ CallInv(NoCall) /\ UNCHANGED clock /\ call' = [p \in Procs |-> NoCall]
      /\ replaced' = {}
  BY NoCallInv DEF MarketInv, HostCrash
<1>4. \A p \in Procs : CallInv(call[p])'
  BY <1>3 DEF CallInv, Closed
<1> QED
  BY <1>1, <1>2, <1>3, <1>4 DEF MarketInv, Sound

\* The clock moves on, and what an update read of it stays in the past.
LEMMA TickInv == ASSUME MarketInv, Tick PROVE MarketInv'
<1>1. \A p \in Procs : CallInv(call[p])'
  BY DEF MarketInv, CallInv, Closed, Tick
<1> QED
  BY <1>1 DEF MarketInv, Tick, Sound

-----------------------------------------------------------------------------
LEMMA NextInv ==
    ASSUME MarketAssumption, MarketInv, [Next]_vars
    PROVE  MarketInv'
<1>1. CASE \E p \in Procs : Begin(p) \/ Fetching(p) \/ Merge(p) \/ Persisting(p) \/ Fail(p) \/ Kill(p)
  BY <1>1, BeginInv, FetchingInv, MergeInv, PersistingInv, EndingInv
<1>2. CASE HostCrash
  BY <1>2, HostCrashInv
<1>3. CASE Tick
  BY <1>3, TickInv
<1>4. CASE UNCHANGED vars
  BY <1>4, SameCalls DEF vars, MarketInv, Sound
<1> QED
  BY <1>1, <1>2, <1>3, <1>4 DEF Next

\* Every update is at a place.
Placed == pc = [p \in Procs |-> pc[p]]

LEMMA PlacedNext ==
    ASSUME Placed, [Next]_vars
    PROVE  Placed'
<1>1. ASSUME NEW p \in Procs, NEW place, Goto(p, place) PROVE Placed'
  BY <1>1 DEF Goto, Placed
<1>2. ASSUME NEW p \in Procs, Leave(p) PROVE Placed'
  BY <1>1, <1>2 DEF Leave
<1>3. ASSUME NEW p \in Procs, NEW page, Page(p, page) PROVE Placed'
  BY <1>1, <1>3 DEF Page
<1>4. ASSUME NEW p \in Procs, Fetching(p) PROVE Placed'
  BY <1>1, <1>2, <1>3, <1>4 DEF Fetching, LastPage, PageFails, Placed
<1>5. ASSUME NEW p \in Procs, Persisting(p) PROVE Placed'
  BY <1>1, <1>2, <1>5 DEF Persisting, ReuseSnapshot, CreateSnapshot, CopySnapshot, SyncSnapshot,
     ReplaceLatest
<1>6. ASSUME NEW p \in Procs, Begin(p) \/ Merge(p) \/ Fail(p) \/ Kill(p) PROVE Placed'
  BY <1>1, <1>2, <1>6 DEF Begin, Merge, Fail, Kill
<1>7. CASE HostCrash \/ Tick \/ UNCHANGED vars
  BY <1>7 DEF HostCrash, Tick, vars, Placed
<1> QED
  BY <1>4, <1>5, <1>6, <1>7 DEF Next

\* One page brings a fetch that goes on to a later candle before its end; an
\* error is counted, up to the last.
LEMMA FetchStep ==
    ASSUME MarketAssumption, MarketInv, Placed, Next, NEW p \in Procs,
           pc[p] = "fetch", pc'[p] = "fetch", call'[p] # call[p]
    PROVE  \/ call'[p].cursor > call[p].cursor /\ call'[p].cursor * Span < call[p].now
           \/ /\ call'[p].cursor = call[p].cursor
              /\ call'[p].failures \in call[p].failures + 1 .. MaxRetries
<1>1. ASSUME NEW q \in Procs, Leave(q) PROVE FALSE
  <2>1. pc'[q] = "idle" /\ (q # p => call'[p] = call[p])
    BY <1>1 DEF Leave, Goto, Placed, MarketInv
  <2> QED
    BY <2>1
<1>2. ASSUME NEW q \in Procs, NEW c, call' = [call EXCEPT ![q] = c] PROVE q = p /\ call'[p] = c
  BY <1>2 DEF MarketInv
<1>3. CASE Fetching(p)
  <2>1. CASE LastPage(p)
    BY <2>1 DEF LastPage
  <2>2. CASE PageFails(p)
    <3>1. call' = [call EXCEPT ![p].failures = @ + 1] /\ call[p].failures < MaxRetries
      BY <1>1, <2>2 DEF PageFails
    <3>2. call'[p] = [call[p] EXCEPT !.failures = @ + 1]
      BY <3>1 DEF MarketInv
    <3>3. CallInv(call[p])
      BY DEF MarketInv
    <3>4. /\ call'[p].cursor = call[p].cursor
          /\ call'[p].failures = call[p].failures + 1 /\ call[p].failures \in Nat
      BY <3>2, <3>3 DEF CallInv, Fields
    <3>5. MaxRetries \in Nat
      BY DEF MarketAssumption
    <3> QED
      BY <3>1, <3>4, <3>5
  <2>3. CASE \E page \in Pages : Page(p, page)
    <3>1. PICK page \in Pages : Page(p, page)
      BY <2>3
    <3> DEFINE old == call[p]
               next == Max(page) + 1
               stalled == next <= old.cursor \/ next = old.prev
               eligible == {t \in page : t >= old.since /\ t * Span < old.now}
    <3>2. /\ call' = [call EXCEPT ![p].rows = Over([t \in eligible |-> Served(t)], @),
                                  ![p].failures = 0,
                                  ![p].prev = IF stalled THEN @ ELSE old.cursor,
                                  ![p].cursor = IF stalled THEN @ ELSE next]
          /\ pc' = [pc EXCEPT ![p] = IF stalled \/ next * Span >= old.now THEN "merge" ELSE "fetch"]
      BY <3>1 DEF Page, Goto
    <3>3. ~(stalled \/ next * Span >= old.now)
      <4> HIDE DEF stalled, next, old
      <4> QED
        BY <3>2 DEF Placed
    <3>4. CallInv(old)
      BY DEF MarketInv
    <3>5. call'[p].cursor = next
      <4> HIDE DEF stalled, eligible, next
      <4>1. call'[p] = [old EXCEPT !.rows = Over([t \in eligible |-> Served(t)], @),
                                   !.failures = 0,
                                   !.prev = IF stalled THEN @ ELSE old.cursor,
                                   !.cursor = IF stalled THEN @ ELSE next]
        BY <3>2 DEF MarketInv
      <4> QED
        BY <3>3, <3>4, <4>1 DEF CallInv, Fields
    <3>6. page \subseteq Candles /\ page # {}
      BY Zenon DEF Pages
    <3>7. next \in Int /\ old.cursor \in Int /\ old.now \in Int /\ Span \in Int
      BY <3>4, <3>6, LatestCandle DEF CallInv, MarketAssumption
    <3>8. next * Span \in Int
      BY <3>7
    <3>9. next > old.cursor /\ next * Span < old.now
      <4> HIDE DEF next, old
      <4> QED
        BY <3>3, <3>7, <3>8
    <3> HIDE DEF next
    <3> QED
      BY <3>5, <3>9
  <2> QED
    BY <1>3, <2>1, <2>2, <2>3 DEF Fetching
<1>4. ASSUME NEW q \in Procs, q # p, Fetching(q) PROVE FALSE
  BY <1>1, <1>4 DEF Fetching, LastPage, PageFails, Page, MarketInv
<1>5. ASSUME NEW q \in Procs, Begin(q) \/ Merge(q) PROVE FALSE
  BY <1>2, <1>5 DEF Begin, Merge
<1>6. ASSUME NEW q \in Procs, Persisting(q) \/ Fail(q) \/ Kill(q) PROVE FALSE
  BY <1>1, <1>6 DEF Persisting, ReuseSnapshot, CreateSnapshot, CopySnapshot, SyncSnapshot,
     ReplaceLatest, Fail, Kill
<1>7. CASE HostCrash \/ Tick
  BY <1>7 DEF HostCrash, Tick
<1> QED
  BY <1>3, <1>4, <1>5, <1>6, <1>7 DEF Next

-----------------------------------------------------------------------------
(* The splits. *)

LEMMA AtLeastOne ==
    ASSUME NEW x \in Int
    PROVE  Splits!Max({1, x}) \in Int /\ Splits!Max({1, x}) >= 1
<1>1. \E y \in {1, x} : \A z \in {1, x} : y >= z
  <2>1. CASE x >= 1
    BY <2>1
  <2>2. CASE ~(x >= 1)
    BY <2>2
  <2> QED
    BY <2>1, <2>2
<1>2. Max({1, x}) \in {1, x} /\ Max({1, x}) >= 1
  BY <1>1 DEF Max
<1> QED
  BY <1>2, SameInSplits

LEMMA Product ==
    ASSUME NEW a \in Nat, NEW b \in Nat, NEW c \in Nat, a <= b
    PROVE  a * c \in Nat /\ b * c \in Nat /\ a * c <= b * c /\ (a + 1) * c = a * c + c
<1>1. PICK d \in Nat : b = a + d
  <2>1. b - a \in Nat /\ b = a + (b - a)
    OBVIOUS
  <2> QED
    BY <2>1
<1>2. b * c = a * c + d * c /\ d * c \in Nat /\ a * c \in Nat
  BY <1>1
<1> QED
  BY <1>2

Lookahead == Horizon + 1

\* Where the block of fold k begins.
Start(k) == Splits!FirstBlock + (k - 1) * size

\* A fold learns from labels that are decided before its block opens.
FoldInv(k) ==
    LET fold == folds[k]
    IN /\ fold.training \subseteq 0..(dev - 1)
       /\ fold.validation = Start(k)..(Start(k) + size - 1)
       /\ Start(k) \in Nat /\ Start(k) + size <= dev
       /\ \A i \in fold.training : rows[i + 1] + Lookahead < rows[Start(k) + 1]
       /\ phase = 2 =>
            fold.training = {i \in 0..(dev - 1) : rows[i + 1] < rows[Start(k) + 1] - Lookahead}

SplitsShape ==
    /\ phase \in {1, 2}
    /\ rows \in Seq(Nat) /\ Len(rows) >= 1 /\ Increasing(rows)
    /\ phase = 1 => \A i \in 1..Len(rows) : rows[i] = i - 1
    /\ size \in Nat /\ dev \in 0..Len(rows) /\ held \in Nat
    /\ phase = 2 => size >= 1
    /\ folds \in Seq([training : SUBSET Nat, validation : SUBSET Nat]) /\ Len(folds) <= Folds
    /\ fits \in Seq([learnt : SUBSET Nat, scored : SUBSET Nat])
    /\ status = "new" => dev = 0 /\ folds = <<>> /\ fits = <<>>
    /\ status \in {"split", "planned", "scored"} =>
         /\ size >= 1
         /\ phase = 1 => dev > 0 /\ held = dev + Lookahead
         /\ phase = 2 => dev = Len(rows)
    /\ status = "planned" => Len(folds) = Folds
    /\ status = "scored" => phase = 1

SplitsInv ==
    /\ SplitsShape
    /\ \A k \in 1..Len(folds) : FoldInv(k)
    /\ Splits!NothingFromTheFuture
    /\ Splits!PurgeSuffices

-----------------------------------------------------------------------------
LEMMA SplitsInitInv ==
    ASSUME Splits!SplitsAssumption, Splits!Init \/ SplitsWait
    PROVE  SplitsInv
<1>1. /\ folds = <<>> /\ fits = <<>> /\ status = "new" /\ dev = 0
      /\ phase \in {1, 2}
  BY DEF Splits!Init, SplitsWait
<1>2. /\ rows \in Seq(Nat) /\ Len(rows) >= 1 /\ Increasing(rows)
      /\ phase = 1 => \A i \in 1..Len(rows) : rows[i] = i - 1
  <2>1. CASE phase = 1 /\ \E n \in 1..Splits!Cardinality(Ordinals) : rows = [i \in 1..n |-> i - 1]
    <3>1. Splits!Cardinality(Ordinals) \in Nat
      BY SameInSplits, FS_CardinalityType DEF Splits!SplitsAssumption
    <3>2. PICK n \in 1..Splits!Cardinality(Ordinals) : rows = [i \in 1..n |-> i - 1]
      BY <2>1
    <3>3. n \in Nat /\ n >= 1
      BY <3>1
    <3>4. rows \in Seq(Nat) /\ Len(rows) = n /\ \A i \in 1..n : rows[i] = i - 1
      BY <3>2, <3>3
    <3> QED
      BY <3>3, <3>4 DEF Increasing
  <2>2. CASE phase = 2 /\ \E set \in (SUBSET Ordinals) \ {{}} : rows = Splits!InOrder(set)
    <3>1. PICK set \in (SUBSET Ordinals) \ {{}} : rows = Splits!InOrder(set)
      BY <2>2
    <3>2. set \subseteq Nat /\ set # {} /\ IsFiniteSet(set)
      <4>1. set \in SUBSET Ordinals /\ IsFiniteSet(Ordinals) /\ Ordinals \subseteq Nat
        BY <3>1, SameInSplits DEF Splits!SplitsAssumption
      <4> QED
        BY <3>1, <4>1, FS_Subset
    <3>3. rows \in Seq(Nat) /\ Len(rows) >= 1 /\ Increasing(rows)
      BY <3>1, <3>2, InOrderIncreases
    <3> QED
      BY <2>2, <3>3
  <2>3. CASE SplitsWait
    <3>1. rows = <<0>> /\ rows \in Seq(Nat) /\ Len(rows) = 1 /\ rows[1] = 0
      BY <2>3 DEF SplitsWait
    <3>2. 1..Len(rows) = {1}
      BY <3>1
    <3> QED
      BY <3>1, <3>2 DEF Increasing
  <2> QED
    BY <2>1, <2>2, <2>3 DEF Splits!Init
<1>3. size \in Nat /\ held \in Nat /\ (phase = 2 => size >= 1)
  <2>1. Len(rows) \in Nat
    BY <1>2
  <2>2. CASE SplitsWait
    BY <2>2 DEF SplitsWait
  <2>3. CASE held = Len(rows) /\ ((phase = 1 /\ size = 0) \/ size \in TestRows)
    <3>1. TestRows \subseteq Nat \ {0}
      BY DEF Splits!SplitsAssumption
    <3>2. size \in Nat /\ (phase = 2 => size # 0)
      <4>1. CASE phase = 1 /\ size = 0
        BY <4>1
      <4>2. CASE size \in TestRows
        BY <3>1, <4>2
      <4> QED
        BY <2>3, <4>1, <4>2
    <3> QED
      BY <2>1, <2>3, <3>2
  <2> QED
    BY <2>2, <2>3 DEF Splits!Init
<1>4. SplitsShape
  BY <1>1, <1>2, <1>3 DEF SplitsShape, Splits!SplitsAssumption
<1> QED
  BY <1>1, <1>4 DEF SplitsInv, Splits!NothingFromTheFuture, Splits!PurgeSuffices

\* A refusal that has a reason.
LEMMA RefuseInv ==
    ASSUME SplitsInv, Splits!Refuse, Splits!TooFew \/ (phase = 2 /\ size <= Splits!Lookahead)
    PROVE  SplitsInv'
<1>1. /\ UNCHANGED <<phase, rows, size, dev, held, folds, fits>> /\ status' = "refused"
  BY DEF Splits!Refuse
<1>2. SplitsShape'
  BY <1>1 DEF SplitsInv, SplitsShape
<1>3. \A k \in 1..Len(folds') : FoldInv(k)'
  BY <1>1 DEF SplitsInv, FoldInv, Start, Splits!FirstBlock
<1>4. Splits!NothingFromTheFuture'
  BY <1>1 DEF SplitsInv, Splits!NothingFromTheFuture
<1>5. Splits!PurgeSuffices'
  BY <1>1 DEF Splits!PurgeSuffices, Splits!TooFew, Splits!HoldoutStart, Splits!Lookahead
<1> QED
  BY <1>2, <1>3, <1>4, <1>5 DEF SplitsInv

\* The purge of Phase 1 is one row longer than a trade, in a frame without holes.
LEMMA SplitHoldoutInv ==
    ASSUME Splits!SplitsAssumption, SplitsInv, Splits!SplitHoldout
    PROVE  SplitsInv'
<1> DEFINE start == Splits!HoldoutStart
           purge == start - Splits!Lookahead
           block == Splits!Max({1, purge \div TestShare})
<1>0. /\ Horizon \in Nat /\ Horizon > 0 /\ HoldoutShare \in Nat /\ HoldoutShare # 0
      /\ TestShare \in Nat /\ TestShare # 0
  BY DEF Splits!SplitsAssumption
<1>1. /\ phase = 1 /\ status = "new" /\ SplitsShape /\ dev = 0
      /\ Len(rows) \in Nat /\ folds = <<>> /\ fits = <<>>
  BY DEF Splits!SplitHoldout, SplitsInv, SplitsShape
<1>2. start \in Int /\ start < Len(rows)
  <2>1. (Len(rows) + HoldoutShare - 1) \div HoldoutShare \in Int
    BY <1>0, <1>1
  <2>2. /\ Splits!Max({1, (Len(rows) + HoldoutShare - 1) \div HoldoutShare}) \in Int
        /\ Splits!Max({1, (Len(rows) + HoldoutShare - 1) \div HoldoutShare}) >= 1
    BY <2>1, AtLeastOne
  <2> QED
    BY <1>1, <2>2 DEF Splits!HoldoutStart
<1>3. purge \in Int /\ Splits!Lookahead = Horizon + 1 /\ start = purge + Horizon + 1
  BY <1>0, <1>2 DEF Splits!Lookahead
<1> HIDE DEF start
<1>4. CASE purge <= 0
  <2>1. Splits!Refuse
    BY <1>4, <1>1 DEF Splits!SplitHoldout, start
  <2>2. Splits!TooFew
    BY <1>0, <1>1, <1>2, <1>3, <1>4 DEF Splits!TooFew, start
  <2> QED
    BY <2>1, <2>2, RefuseInv
<1>5. CASE purge > 0
  <2>1. rows[purge] = purge - 1 /\ rows[start + 1] = start
    <3>1. purge \in 1..Len(rows) /\ start + 1 \in 1..Len(rows)
      BY <1>0, <1>1, <1>2, <1>3, <1>5
    <3> HIDE DEF purge
    <3> QED
      BY <1>1, <1>2, <3>1 DEF SplitsShape
  <2>2. ~(Splits!Exit(rows[purge]) >= rows[start + 1])
    BY <1>0, <1>2, <1>3, <1>5, <2>1 DEF Splits!Exit
  <2>3. /\ dev' = purge /\ held' = start /\ size' = block
        /\ status' = "split" /\ UNCHANGED <<phase, rows, folds, fits>>
    BY <1>3, <1>5, <2>2 DEF Splits!SplitHoldout, start
  <2>4. block \in Nat /\ block >= 1
    <3>1. purge \div TestShare \in Int
      BY <1>0, <1>3
    <3> QED
      BY <3>1, AtLeastOne
  <2> HIDE DEF purge, block
  <2>5. SplitsShape'
    BY <1>0, <1>1, <1>2, <1>3, <1>5, <2>3, <2>4 DEF SplitsShape, Lookahead
  <2>6. /\ Splits!NothingFromTheFuture' /\ Splits!PurgeSuffices'
        /\ \A k \in 1..Len(folds') : FoldInv(k)'
    BY <1>1, <2>3 DEF Splits!NothingFromTheFuture, Splits!PurgeSuffices
  <2> QED
    BY <2>5, <2>6 DEF SplitsInv
<1> QED
  BY <1>3, <1>4, <1>5

LEMMA TakeAllInv ==
    ASSUME SplitsInv, Splits!TakeAll
    PROVE  SplitsInv'
<1>1. /\ phase = 2 /\ status = "new" /\ dev' = Len(rows) /\ status' = "split"
      /\ UNCHANGED <<phase, rows, size, held, folds, fits>>
  BY DEF Splits!TakeAll
<1>2. SplitsShape /\ folds = <<>> /\ fits = <<>> /\ Len(rows) \in Nat
  BY <1>1 DEF SplitsInv, SplitsShape
<1>3. SplitsShape'
  BY <1>1, <1>2 DEF SplitsShape
<1>4. /\ Splits!NothingFromTheFuture' /\ Splits!PurgeSuffices'
      /\ \A k \in 1..Len(folds') : FoldInv(k)'
  BY <1>1, <1>2 DEF Splits!NothingFromTheFuture, Splits!PurgeSuffices
<1> QED
  BY <1>3, <1>4 DEF SplitsInv

\* The next block is of development, and follows the one before it.
LEMMA BlockGeometry ==
    ASSUME Splits!SplitsAssumption, SplitsShape, Len(folds) < Folds
    PROVE  /\ Len(folds) \in Nat /\ Folds \in Nat /\ Horizon \in Nat
           /\ Len(rows) \in Nat /\ dev \in Nat /\ size \in Nat
           /\ Splits!FirstBlock = dev - Folds * size /\ Splits!FirstBlock \in Int
           /\ Splits!BlockStart = Start(Len(folds) + 1)
           /\ Splits!BlockStart \in Int
           /\ Splits!BlockStart >= Splits!FirstBlock
           /\ Splits!BlockStart + size <= dev
           /\ Len(folds) >= 1 => Splits!BlockStart = Start(Len(folds)) + size
<1> DEFINE n == Len(folds)
<1>1. /\ n \in Nat /\ Folds \in Nat /\ n + 1 <= Folds /\ Horizon \in Nat
      /\ Len(rows) \in Nat /\ dev \in Nat /\ size \in Nat
  BY DEF SplitsShape, Splits!SplitsAssumption
<1> HIDE DEF n
<1>2. /\ n * size \in Nat /\ Folds * size \in Nat /\ (n + 1) * size = n * size + size
      /\ n * size + size <= Folds * size
  <2>1. n + 1 \in Nat
    BY <1>1
  <2> QED
    BY <1>1, <2>1, Product
<1>3. n >= 1 => n * size = (n - 1) * size + size /\ (n - 1) * size \in Nat
  <2> SUFFICES ASSUME n >= 1 PROVE n * size = (n - 1) * size + size /\ (n - 1) * size \in Nat
    OBVIOUS
  <2>1. n - 1 \in Nat /\ (n - 1) + 1 = n
    BY <1>1
  <2> QED
    BY <1>1, <2>1, Product
<1>4. (n + 1) - 1 = n
  BY <1>1
<1>5. /\ Splits!FirstBlock = dev - Folds * size
      /\ Splits!BlockStart = Splits!FirstBlock + n * size
      /\ Start(n + 1) = Splits!FirstBlock + n * size
      /\ Start(n) = Splits!FirstBlock + (n - 1) * size
  BY <1>4 DEF Splits!FirstBlock, Splits!BlockStart, Start, n
<1> DEFINE f == Folds * size
           g == n * size
           h == (n - 1) * size
<1>6. /\ f \in Nat /\ g \in Nat /\ g + size <= f /\ (n >= 1 => g = h + size /\ h \in Nat)
      /\ Splits!FirstBlock = dev - f /\ Splits!BlockStart = Splits!FirstBlock + g
      /\ Start(n + 1) = Splits!FirstBlock + g /\ Start(n) = Splits!FirstBlock + h
  BY <1>2, <1>3, <1>5
<1> HIDE DEF f, g, h
<1>7. /\ Splits!FirstBlock \in Int /\ Splits!BlockStart \in Int
      /\ Splits!BlockStart >= Splits!FirstBlock
      /\ Splits!BlockStart + size <= dev
      /\ Splits!BlockStart = Start(n + 1)
      /\ n >= 1 => Splits!BlockStart = Start(n) + size
  BY <1>1, <1>6
<1> QED
  BY <1>1, <1>5, <1>7 DEF n

\* In a frame without holes no fold is refused that has rows left of the purge.
LEMMA PhaseOneReason ==
    ASSUME Splits!SplitsAssumption, SplitsInv, status = "split", Len(folds) < Folds,
           phase = 1, Splits!FirstBlock > Splits!Lookahead
    PROVE  ~Splits!FoldRefused
<1> DEFINE B == Splits!BlockStart
<1>0. /\ Horizon \in Nat /\ Horizon > 0 /\ Splits!Lookahead = Horizon + 1
      /\ B \in Int /\ B >= Splits!FirstBlock /\ Splits!FirstBlock \in Int
  BY BlockGeometry DEF SplitsInv, Splits!SplitsAssumption, Splits!Lookahead
<1>1. /\ Horizon \in Nat /\ Horizon > 0 /\ Splits!Lookahead = Horizon + 1
      /\ B \in Int /\ B > Splits!Lookahead /\ B + size <= dev /\ Splits!FirstBlock \in Int
      /\ dev \in Nat /\ dev <= Len(rows) /\ Len(rows) \in Nat /\ size \in Nat /\ size >= 1
      /\ \A i \in 1..Len(rows) : rows[i] = i - 1
  <2>1. B > Splits!Lookahead
    <3> HIDE DEF B
    <3>1. Splits!Lookahead \in Int
      BY <1>0
    <3> QED
      BY <1>0, <3>1
  <2> QED
    BY <1>0, <2>1, BlockGeometry DEF SplitsInv, SplitsShape
<1> HIDE DEF B
<1>2. Splits!TrainingRows = 0..(B - Splits!Lookahead - 1)
  BY DEF Splits!TrainingRows, Splits!Positions, B
<1>3. Splits!TrainingRows # {}
  <2>1. 0 \in 0..(B - Splits!Lookahead - 1)
    BY <1>1
  <2> QED
    BY <1>2, <2>1
<1>4. ~(Splits!FirstBlock - Splits!Lookahead <= 0)
  BY <1>1
<1>5. ASSUME NEW i \in Splits!TrainingRows
      PROVE  ~(Splits!Exit(rows[i + 1]) >= rows[B + 1])
  <2>1. i + 1 \in 1..Len(rows) /\ B + 1 \in 1..Len(rows) /\ i < B - Splits!Lookahead /\ i \in Int
    BY <1>1, <1>2
  <2>2. rows[i + 1] = i /\ rows[B + 1] = B
    BY <1>1, <2>1
  <2> QED
    BY <1>1, <2>1, <2>2 DEF Splits!Exit
<1>6. phase # 2
  OBVIOUS
<1> QED
  BY <1>3, <1>4, <1>5, <1>6 DEF Splits!FoldRefused, B

\* Where decisions are missing the purge still keeps every label out, and a
\* block longer than it adds a row to what the next fold learns from.
LEMMA PhaseTwoReason ==
    ASSUME Splits!SplitsAssumption, SplitsInv, status = "split", Len(folds) < Folds,
           phase = 2, Splits!FirstBlock > 0, size > Splits!Lookahead,
           rows[1] < rows[Splits!FirstBlock + 1] - Splits!Lookahead
    PROVE  ~Splits!FoldRefused
<1> DEFINE B == Splits!BlockStart
           n == Len(folds)
<1>1. /\ Horizon \in Nat /\ Horizon > 0 /\ Splits!Lookahead = Horizon + 1
      /\ B \in Int /\ B >= Splits!FirstBlock /\ B + size <= dev
      /\ Splits!FirstBlock \in Int
      /\ dev \in Nat /\ dev = Len(rows) /\ size \in Nat /\ size >= 1
      /\ n \in Nat
      /\ n >= 1 => B = Start(n) + size
  BY BlockGeometry DEF SplitsInv, SplitsShape, Splits!SplitsAssumption, Splits!Lookahead
<1>2. rows \in Seq(Nat) /\ Increasing(rows)
  BY DEF SplitsInv, SplitsShape
<1>3. Splits!TrainingRows = {i \in 0..(dev - 1) : rows[i + 1] < rows[B + 1] - Splits!Lookahead}
  <2>1. phase # 1
    OBVIOUS
  <2> QED
    BY <2>1 DEF Splits!TrainingRows, Splits!Positions
<1> HIDE DEF B
<1>4. /\ B + 1 \in 1..Len(rows) /\ Splits!FirstBlock + 1 \in 1..Len(rows) /\ 1 \in 1..Len(rows)
      /\ rows[B + 1] \in Nat /\ rows[Splits!FirstBlock + 1] \in Nat /\ rows[1] \in Nat
  <2>1. /\ B + 1 \in 1..Len(rows) /\ Splits!FirstBlock + 1 \in 1..Len(rows)
        /\ 1 \in 1..Len(rows)
    BY <1>1
  <2> QED
    BY <1>2, <2>1
<1>5. Splits!TrainingRows # {}
  <2>1. rows[B + 1] >= rows[Splits!FirstBlock + 1]
    <3>1. CASE B = Splits!FirstBlock
      BY <1>4, <3>1
    <3>2. CASE B # Splits!FirstBlock
      <4>1. Splits!FirstBlock + 1 < B + 1
        BY <1>1, <3>2
      <4> QED
        BY <1>2, <1>4, <4>1 DEF Increasing
    <3> QED
      BY <3>1, <3>2
  <2>2. rows[1] < rows[B + 1] - Splits!Lookahead
    BY <1>1, <1>4, <2>1
  <2>3. 0 \in 0..(dev - 1) /\ 0 + 1 = 1
    BY <1>1
  <2> QED
    BY <1>3, <2>2, <2>3
<1>6. ASSUME NEW i \in Splits!TrainingRows
      PROVE  ~(Splits!Exit(rows[i + 1]) >= rows[B + 1])
  <2>1. i \in 0..(dev - 1) /\ rows[i + 1] < rows[B + 1] - Splits!Lookahead
    BY <1>3
  <2>2. rows[i + 1] \in Nat
    <3>1. i + 1 \in 1..Len(rows)
      BY <1>1, <2>1
    <3> QED
      BY <1>2, <3>1
  <2> QED
    BY <1>1, <1>4, <2>1, <2>2 DEF Splits!Exit
<1>7. ASSUME folds # <<>>
      PROVE  ~(Splits!Cardinality(Splits!TrainingRows) <= Splits!Cardinality(folds[n].training))
  <2> DEFINE P == Start(n)
             old == folds[n].training
  <2>1. n >= 1 /\ n \in 1..Len(folds)
    BY <1>7 DEF SplitsInv, SplitsShape
  <2>2. /\ P \in Nat /\ P + size <= dev /\ B = P + size
        /\ old = {i \in 0..(dev - 1) : rows[i + 1] < rows[P + 1] - Lookahead}
    BY <1>1, <2>1 DEF SplitsInv, FoldInv
  <2> HIDE DEF P, old, n
  <2>3. Lookahead = Splits!Lookahead
    BY DEF Lookahead, Splits!Lookahead
  <2>4. P + 1 \in 1..Len(rows) /\ rows[P + 1] \in Nat /\ P \in 0..(dev - 1) /\ P + 1 <= B + 1
    <3>1. P + 1 \in 1..Len(rows) /\ P \in 0..(dev - 1) /\ P + 1 <= B + 1
      BY <1>1, <2>2
    <3> QED
      BY <1>2, <3>1
  <2>5. rows[B + 1] - rows[P + 1] >= size
    <3>1. rows[B + 1] - rows[P + 1] >= (B + 1) - (P + 1)
      BY <1>2, <1>4, <2>4, Gap
    <3> QED
      BY <1>1, <1>4, <2>2, <2>4, <3>1
  <2>6. P \in Splits!TrainingRows /\ P \notin old
    <3>1. rows[P + 1] < rows[B + 1] - Splits!Lookahead
      BY <1>1, <1>4, <2>4, <2>5
    <3>2. ~(rows[P + 1] < rows[P + 1] - Lookahead)
      BY <1>1, <2>3, <2>4
    <3> QED
      BY <1>3, <2>2, <2>4, <3>1, <3>2
  <2>7. old \in SUBSET Splits!TrainingRows
    <3>1. ASSUME NEW i \in old PROVE i \in Splits!TrainingRows
      <4>1. i \in 0..(dev - 1) /\ rows[i + 1] < rows[P + 1] - Lookahead
        BY <2>2
      <4>2. rows[i + 1] \in Nat
        <5>1. i + 1 \in 1..Len(rows)
          BY <1>1, <4>1
        <5> QED
          BY <1>2, <5>1
      <4>3. rows[P + 1] <= rows[B + 1] /\ Lookahead \in Nat
        BY <1>1, <1>4, <2>3, <2>4, <2>5
      <4>4. rows[i + 1] < rows[B + 1] - Lookahead
        <5> DEFINE x == rows[i + 1]
                   y == rows[P + 1]
                   z == rows[B + 1]
                   d == Lookahead
        <5>1. x < y - d /\ y <= z /\ x \in Nat /\ y \in Nat /\ z \in Nat /\ d \in Nat
          BY <1>4, <2>4, <4>1, <4>2, <4>3
        <5> HIDE DEF x, y, z, d
        <5>2. x < z - d
          BY <5>1
        <5> QED
          BY <5>2 DEF x, z, d
      <4> QED
        BY <1>3, <2>3, <4>1, <4>4
    <3> QED
      BY <3>1
  <2>8. IsFiniteSet(Splits!TrainingRows)
    <3>1. IsFiniteSet(0..(dev - 1))
      BY <1>1, FS_Interval
    <3>2. Splits!TrainingRows \in SUBSET (0..(dev - 1))
      BY <1>3
    <3> QED
      BY <3>1, <3>2, FS_Subset
  <2>9. /\ Cardinality(old) <= Cardinality(Splits!TrainingRows)
        /\ Cardinality(old) # Cardinality(Splits!TrainingRows)
        /\ IsFiniteSet(old)
    BY <2>6, <2>7, <2>8, FS_Subset
  <2>10. ~(Cardinality(Splits!TrainingRows) <= Cardinality(old))
    BY <2>8, <2>9, FS_CardinalityType
  <2> QED
    BY <2>10, SameInSplits DEF old
<1>8. phase # 1
  OBVIOUS
<1> QED
  BY <1>5, <1>6, <1>7, <1>8 DEF Splits!FoldRefused, B, n

\* One turn plans the fold, or refuses it for a reason.
LEMMA PlanFoldInv ==
    ASSUME Splits!SplitsAssumption, SplitsInv, Splits!PlanFold
    PROVE  SplitsInv'
<1> DEFINE B == Splits!BlockStart
           n == Len(folds)
           first == Splits!FirstBlock
           fold == [training |-> Splits!TrainingRows, validation |-> Splits!Validation]
<1>1. status = "split" /\ Len(folds) < Folds /\ SplitsShape /\ dev <= Len(rows)
  BY DEF Splits!PlanFold, SplitsInv, SplitsShape
<1>2. /\ n \in Nat /\ Folds \in Nat /\ Horizon \in Nat /\ Horizon > 0
      /\ Len(rows) \in Nat /\ dev \in Nat /\ size \in Nat
      /\ first \in Int
      /\ B = Start(n + 1) /\ B \in Int /\ B >= first /\ B + size <= dev
      /\ Splits!Lookahead = Horizon + 1 /\ Lookahead = Horizon + 1
      /\ size >= 1 /\ phase \in {1, 2}
  BY <1>1, BlockGeometry DEF SplitsShape, Splits!SplitsAssumption, Splits!Lookahead, Lookahead
<1>5. first = dev - Folds * size
  BY <1>1, BlockGeometry
<1> HIDE DEF B, first
<1>3. CASE Splits!Refuse /\ (first <= 0 \/ Splits!FoldRefused)
  <2> SUFFICES ASSUME ~Splits!TooFew, ~(phase = 2 /\ size <= Splits!Lookahead) PROVE FALSE
    BY <1>3, RefuseInv
  <2>1. CASE phase = 1
    <3>1. dev # 0
      BY <1>1, <2>1 DEF SplitsShape
    <3>2. first > Splits!Lookahead
      <4>1. ~(first <= Splits!Lookahead)
        BY <1>2, <1>5, <2>1, <3>1 DEF Splits!TooFew
      <4>2. Splits!Lookahead \in Int
        BY <1>2
      <4> QED
        BY <1>2, <4>1, <4>2
    <3>3. ~Splits!FoldRefused
      BY <1>1, <2>1, <3>2, PhaseOneReason DEF first
    <3>4. ~(first <= 0)
      BY <1>2, <3>2
    <3> QED
      BY <1>3, <3>3, <3>4
  <2>2. CASE phase = 2
    <3>0. dev = Len(rows) /\ phase # 1
      BY <1>1, <2>2 DEF SplitsShape
    <3>1. /\ ~(Len(rows) <= Folds * size)
          /\ ~(rows[1] >= rows[Len(rows) - Folds * size + 1] - Splits!Lookahead)
      BY <3>0 DEF Splits!TooFew
    <3>2. first > 0 /\ first + 1 \in 1..Len(rows) /\ first + 1 = Len(rows) - Folds * size + 1
      <4> DEFINE f == Folds * size
      <4>1. f \in Nat
        BY <1>2, Product
      <4>2. first = Len(rows) - f /\ ~(Len(rows) <= f)
        BY <1>2, <1>5, <3>0, <3>1
      <4> HIDE DEF f
      <4>0. Len(rows) \in Nat /\ first \in Int /\ first + 1 <= Len(rows)
        BY <1>2, <3>0
      <4>3. first > 0 /\ first + 1 \in 1..Len(rows) /\ first + 1 = Len(rows) - f + 1
        BY <4>0, <4>1, <4>2
      <4> QED
        BY <4>3 DEF f
    <3>3. rows[1] < rows[first + 1] - Splits!Lookahead
      <4>1. rows[1] \in Nat /\ rows[first + 1] \in Nat /\ Splits!Lookahead \in Int
        <5>1. 1 \in 1..Len(rows) /\ rows \in Seq(Nat)
          BY <1>1, <1>2 DEF SplitsShape
        <5>2. rows[1] \in Nat
          BY <5>1
        <5>3. rows[first + 1] \in Nat
          BY <5>1, <3>2
        <5> QED
          BY <1>2, <5>2, <5>3
      <4>2. ~(rows[1] >= rows[first + 1] - Splits!Lookahead)
        BY <3>1, <3>2
      <4> QED
        BY <4>1, <4>2
    <3>4. size > Splits!Lookahead
      BY <1>2, <2>2
    <3>5. ~Splits!FoldRefused
      BY <1>1, <2>2, <3>2, <3>3, <3>4, PhaseTwoReason DEF first
    <3>6. ~(first <= 0)
      BY <1>2, <3>2
    <3> QED
      BY <1>3, <3>5, <3>6
  <2> QED
    BY <1>2, <2>1, <2>2
<1>4. CASE /\ ~(first <= 0) /\ ~Splits!FoldRefused
           /\ folds' = Append(folds, fold)
           /\ status' = IF Len(folds') = Folds THEN "planned" ELSE "split"
           /\ UNCHANGED <<phase, rows, size, dev, held, fits>>
  <2>1. /\ B \in Nat /\ Splits!Validation = B..(B + size - 1)
        /\ fold.validation = B..(B + size - 1) /\ fold.training = Splits!TrainingRows
    <3>1. B \in Nat
      BY <1>2, <1>4
    <3>2. Splits!Validation = B..((B + size) - 1)
      BY DEF Splits!Validation, Splits!Positions, B
    <3>3. (B + size) - 1 = B + size - 1
      BY <1>2
    <3>4. Splits!Validation = B..(B + size - 1)
      BY <3>2, <3>3
    <3> QED
      BY <3>1, <3>4
  <2>2. Splits!TrainingRows \subseteq 0..(dev - 1)
    <3>1. CASE phase = 1
      <4>1. Splits!TrainingRows = 0..(B - Splits!Lookahead - 1)
        BY <3>1 DEF Splits!TrainingRows, Splits!Positions, B
      <4> QED
        BY <1>2, <4>1
    <3>2. CASE phase # 1
      BY <3>2 DEF Splits!TrainingRows, Splits!Positions
    <3> QED
      BY <3>1, <3>2
  <2>3. \A i \in Splits!TrainingRows : rows[i + 1] + Lookahead < rows[B + 1]
    <3> SUFFICES ASSUME NEW i \in Splits!TrainingRows
                 PROVE  rows[i + 1] + Lookahead < rows[B + 1]
      OBVIOUS
    <3>1. ~(Splits!Exit(rows[i + 1]) >= rows[B + 1])
      BY <1>4 DEF Splits!FoldRefused, B
    <3>2. i + 1 \in 1..Len(rows) /\ B + 1 \in 1..Len(rows)
      BY <1>1, <1>2, <2>1, <2>2
    <3>3. rows[i + 1] \in Nat /\ rows[B + 1] \in Nat
      BY <1>1, <3>2 DEF SplitsShape
    <3>4. Horizon \in Nat /\ Lookahead = Horizon + 1
      BY <1>2
    <3>5. rows[i + 1] + Horizon + 1 < rows[B + 1]
      BY <3>1, <3>3, <3>4 DEF Splits!Exit
    <3> QED
      BY <3>3, <3>4, <3>5
  <2>4. phase = 2 =>
          Splits!TrainingRows = {i \in 0..(dev - 1) : rows[i + 1] < rows[B + 1] - Lookahead}
    <3> SUFFICES ASSUME phase = 2
                 PROVE  Splits!TrainingRows
                          = {i \in 0..(dev - 1) : rows[i + 1] < rows[B + 1] - Lookahead}
      OBVIOUS
    <3>1. phase # 1 /\ Splits!Lookahead = Lookahead
      BY <1>2
    <3> QED
      BY <3>1 DEF Splits!TrainingRows, Splits!Positions, B
  <2>5. fold \in [training : SUBSET Nat, validation : SUBSET Nat]
    <3>1. Splits!TrainingRows \in SUBSET Nat /\ Splits!Validation \in SUBSET Nat
      BY <1>2, <2>1, <2>2
    <3> QED
      BY <3>1
  <2> HIDE DEF fold
  <2>6. /\ folds' \in Seq([training : SUBSET Nat, validation : SUBSET Nat])
        /\ Len(folds') = n + 1
        /\ folds'[n + 1] = fold
        /\ \A k \in 1..n : folds'[k] = folds[k]
    BY <1>1, <1>4, <2>5 DEF SplitsShape
  <2>7. SplitsShape'
    <3>1. status' \in {"split", "planned"} /\ (status' = "planned" => Len(folds') = Folds)
      BY <1>4
    <3>2. Len(folds') <= Folds
      BY <1>1, <1>2, <2>6
    <3> HIDE DEF n
    <3> QED
      BY <1>1, <1>4, <2>6, <3>1, <3>2 DEF SplitsShape
  <2>8. ASSUME NEW k \in 1..Len(folds') PROVE FoldInv(k)'
    <3>1. /\ Splits!FirstBlock' = Splits!FirstBlock
          /\ Start(k)' = Start(k)
      BY <1>4 DEF Splits!FirstBlock, Start
    <3>2. CASE k \in 1..n
      <4>1. FoldInv(k)
        BY <3>2 DEF SplitsInv
      <4> QED
        BY <1>4, <2>6, <3>1, <3>2, <4>1 DEF FoldInv
    <3>3. CASE k = n + 1
      <4>1. Start(k)' = B /\ folds'[k] = fold
        BY <1>2, <2>6, <3>1, <3>3
      <4> QED
        BY <1>2, <1>4, <2>1, <2>2, <2>3, <2>4, <4>1 DEF FoldInv
    <3> QED
      BY <1>2, <2>6, <3>2, <3>3
  <2>9. Splits!NothingFromTheFuture'
    BY <1>4 DEF SplitsInv, Splits!NothingFromTheFuture
  <2>10. Splits!PurgeSuffices'
    BY <1>4 DEF Splits!PurgeSuffices
  <2> QED
    BY <2>7, <2>8, <2>9, <2>10 DEF SplitsInv
<1> QED
  BY <1>3, <1>4 DEF Splits!PlanFold, first

\* A fit that has not seen what decides what it is scored on joins the others.
LEMMA FitInv ==
    ASSUME SplitsInv, NEW fit \in [learnt : SUBSET Nat, scored : SUBSET Nat],
           \A o \in fit.learnt, p \in fit.scored : Splits!Exit(o) < p,
           fits' = Append(fits, fit), UNCHANGED <<phase, rows, size, dev, held, folds>>,
           status \in {"planned", "scored"}, status' \in {"planned", "scored", "done"},
           status' = "planned" => status = "planned", status' = "scored" => phase = 1
    PROVE  SplitsInv'
<1>1. /\ fits' \in Seq([learnt : SUBSET Nat, scored : SUBSET Nat])
      /\ \A i \in DOMAIN fits' :
            IF i = Len(fits) + 1 THEN fits'[i] = fit ELSE i \in DOMAIN fits /\ fits'[i] = fits[i]
  BY DEF SplitsInv, SplitsShape
<1>3. SplitsShape'
  <2>1. SplitsShape
    BY DEF SplitsInv
  <2> QED
    BY <1>1, <2>1 DEF SplitsShape
<1>4. \A k \in 1..Len(folds') : FoldInv(k)'
  BY DEF SplitsInv, FoldInv, Start, Splits!FirstBlock
<1>5. Splits!NothingFromTheFuture'
  BY <1>1 DEF SplitsInv, Splits!NothingFromTheFuture, Splits!Exit
<1>6. Splits!PurgeSuffices'
  BY DEF SplitsInv, Splits!PurgeSuffices
<1> QED
  BY <1>3, <1>4, <1>5, <1>6 DEF SplitsInv

\* A fold is scored on its block, whose first row opens after every label it
\* has learnt from is decided.
LEMMA ScoreFoldInv ==
    ASSUME Splits!SplitsAssumption, SplitsInv, Splits!ScoreFold
    PROVE  SplitsInv'
<1> DEFINE k == Len(fits) + 1
           fold == folds[k]
           fit == [learnt |-> Splits!Learnt(fold), scored |-> Splits!At(fold.validation)]
<1>1. /\ status = "planned" /\ Len(fits) < Folds /\ fits' = Append(fits, fit)
      /\ status' = IF Len(fits') < Folds THEN "planned" ELSE IF phase = 1 THEN "scored" ELSE "done"
      /\ UNCHANGED <<phase, rows, size, dev, held, folds>>
  BY DEF Splits!ScoreFold
<1>2. /\ SplitsShape /\ rows \in Seq(Nat) /\ Increasing(rows) /\ Len(rows) \in Nat
      /\ dev \in Nat /\ dev <= Len(rows) /\ size \in Nat /\ size >= 1 /\ Len(folds) = Folds
      /\ Len(fits) \in Nat
  BY <1>1 DEF SplitsInv, SplitsShape
<1>3. k \in 1..Len(folds) /\ FoldInv(k)
  <2>1. k \in 1..Len(folds)
    BY <1>1, <1>2 DEF SplitsShape
  <2> QED
    BY <2>1 DEF SplitsInv
<1> DEFINE start == Start(k)
<1>4. /\ fold.training \subseteq 0..(dev - 1) /\ fold.validation = start..(start + size - 1)
      /\ start \in Nat /\ start + size <= dev
      /\ \A i \in fold.training : rows[i + 1] + Lookahead < rows[start + 1]
  BY <1>3 DEF FoldInv
<1> HIDE DEF start, fold, k
<1>5. fit.learnt = {rows[i + 1] : i \in fold.training}
  BY DEF Splits!Learnt, Splits!At
<1>6. fit.scored = {rows[i + 1] : i \in fold.validation}
  BY DEF Splits!At
<1>7. \A i \in fold.training : i + 1 \in 1..Len(rows) /\ rows[i + 1] \in Nat
  <2> SUFFICES ASSUME NEW i \in fold.training PROVE i + 1 \in 1..Len(rows) /\ rows[i + 1] \in Nat
    OBVIOUS
  <2>0. i \in 0..(dev - 1)
    BY <1>4
  <2>1. i + 1 \in 1..Len(rows)
    BY <1>2, <2>0
  <2> QED
    BY <1>2, <2>1
<1>8. \A i \in fold.validation : /\ i + 1 \in 1..Len(rows) /\ rows[i + 1] \in Nat
                                 /\ i >= start
  <2> SUFFICES ASSUME NEW i \in fold.validation
               PROVE  i + 1 \in 1..Len(rows) /\ rows[i + 1] \in Nat /\ i >= start
    OBVIOUS
  <2>1. i + 1 \in 1..Len(rows) /\ i >= start
    BY <1>2, <1>4
  <2> QED
    BY <1>2, <2>1
<1>9. fit \in [learnt : SUBSET Nat, scored : SUBSET Nat]
  BY <1>5, <1>6, <1>7, <1>8
<1>10. ASSUME NEW o \in fit.learnt, NEW p \in fit.scored PROVE Splits!Exit(o) < p
  <2>1. PICK i \in fold.training : o = rows[i + 1]
    BY <1>5
  <2>2. PICK j \in fold.validation : p = rows[j + 1]
    BY <1>6
  <2>3. start + 1 \in 1..Len(rows) /\ rows[start + 1] \in Nat
    <3>1. start + 1 \in 1..Len(rows)
      BY <1>2, <1>4
    <3> QED
      BY <1>2, <3>1
  <2>4. rows[start + 1] <= rows[j + 1]
    <3>0. j \in Int /\ j >= start /\ j + 1 \in 1..Len(rows) /\ rows[j + 1] \in Nat
      BY <1>4, <1>8
    <3>1. CASE j = start
      BY <2>3, <3>1
    <3>2. CASE j # start
      <4>1. start + 1 < j + 1
        BY <1>4, <3>0, <3>2
      <4> QED
        BY <1>2, <2>3, <3>0, <4>1 DEF Increasing
    <3> QED
      BY <3>1, <3>2
  <2>5. rows[i + 1] \in Nat /\ rows[j + 1] \in Nat /\ rows[i + 1] + Lookahead < rows[start + 1]
    BY <1>4, <1>7, <1>8
  <2>6. Horizon \in Nat
    BY DEF Splits!SplitsAssumption
  <2>7. Splits!Exit(o) = rows[i + 1] + Lookahead /\ Lookahead \in Nat
    BY <2>1, <2>5, <2>6 DEF Splits!Exit, Lookahead
  <2> QED
    BY <2>2, <2>3, <2>4, <2>5, <2>7
<1> HIDE DEF fit
<1> QED
  BY <1>1, <1>9, <1>10, FitInv

\* The holdout begins a purge after development.
LEMMA ScoreHoldoutInv ==
    ASSUME Splits!SplitsAssumption, SplitsInv, Splits!ScoreHoldout
    PROVE  SplitsInv'
<1> DEFINE fit == [learnt |-> Splits!At(Splits!Positions(0, dev)),
                   scored |-> Splits!At(Splits!Positions(held, Len(rows)))]
<1>1. /\ status = "scored" /\ status' = "done" /\ fits' = Append(fits, fit)
      /\ UNCHANGED <<phase, rows, size, dev, held, folds>>
  BY DEF Splits!ScoreHoldout
<1>2. /\ phase = 1 /\ held = dev + Lookahead /\ rows \in Seq(Nat) /\ Len(rows) \in Nat
      /\ dev \in Nat /\ dev <= Len(rows) /\ held \in Nat
      /\ \A i \in 1..Len(rows) : rows[i] = i - 1
  BY <1>1 DEF SplitsInv, SplitsShape
<1>3. fit.learnt = {rows[i + 1] : i \in 0..(dev - 1)}
  BY DEF Splits!At, Splits!Positions
<1>4. fit.scored = {rows[i + 1] : i \in held..(Len(rows) - 1)}
  BY DEF Splits!At, Splits!Positions
<1>5. \A i \in 0..(Len(rows) - 1) : rows[i + 1] = i
  <2> SUFFICES ASSUME NEW i \in 0..(Len(rows) - 1) PROVE rows[i + 1] = i
    OBVIOUS
  <2>1. i + 1 \in 1..Len(rows) /\ (i + 1) - 1 = i
    BY <1>2
  <2> QED
    BY <1>2, <2>1
<1> HIDE DEF fit
<1>6. \A o \in fit.learnt : o \in Nat /\ o < dev
  <2> SUFFICES ASSUME NEW o \in fit.learnt PROVE o \in Nat /\ o < dev
    OBVIOUS
  <2>1. PICK i \in 0..(dev - 1) : o = rows[i + 1]
    BY <1>3
  <2>2. i \in 0..(Len(rows) - 1) /\ i < dev /\ i \in Nat
    BY <1>2
  <2> QED
    BY <1>5, <2>1, <2>2
<1>7. \A p \in fit.scored : p \in Nat /\ p >= held
  <2> SUFFICES ASSUME NEW p \in fit.scored PROVE p \in Nat /\ p >= held
    OBVIOUS
  <2>1. PICK i \in held..(Len(rows) - 1) : p = rows[i + 1]
    BY <1>4
  <2>2. i \in 0..(Len(rows) - 1) /\ i >= held /\ i \in Nat
    BY <1>2
  <2> QED
    BY <1>5, <2>1, <2>2
<1>8. Horizon \in Nat
  BY DEF Splits!SplitsAssumption
<1>9. \A o \in fit.learnt, p \in fit.scored : Splits!Exit(o) < p
  <2> SUFFICES ASSUME NEW o \in fit.learnt, NEW p \in fit.scored PROVE Splits!Exit(o) < p
    OBVIOUS
  <2>1. o \in Nat /\ o < dev /\ p \in Nat /\ p >= dev + Horizon + 1
    BY <1>2, <1>6, <1>7, <1>8 DEF Lookahead
  <2> QED
    BY <1>2, <1>8, <2>1 DEF Splits!Exit
<1>10. fit \in [learnt : SUBSET Nat, scored : SUBSET Nat]
  <2>1. fit = [learnt |-> fit.learnt, scored |-> fit.scored]
    BY DEF fit
  <2> QED
    BY <1>6, <1>7, <2>1
<1> QED
  BY <1>1, <1>9, <1>10, FitInv

LEMMA SplitsNextInv ==
    ASSUME Splits!SplitsAssumption, SplitsInv, Splits!Next \/ UNCHANGED splitsVars
    PROVE  SplitsInv'
<1>1. CASE UNCHANGED splitsVars
  <2>1. UNCHANGED <<phase, rows, size, dev, held, folds, fits, status>>
    BY <1>1 DEF splitsVars
  <2>2. SplitsShape'
    BY <2>1 DEF SplitsInv, SplitsShape
  <2>3. \A k \in 1..Len(folds') : FoldInv(k)'
    BY <2>1 DEF SplitsInv, FoldInv, Start, Splits!FirstBlock
  <2>4. Splits!NothingFromTheFuture'
    BY <2>1 DEF SplitsInv, Splits!NothingFromTheFuture
  <2>5. Splits!PurgeSuffices'
    BY <2>1 DEF SplitsInv, Splits!PurgeSuffices, Splits!TooFew, Splits!HoldoutStart,
                Splits!Lookahead
  <2> QED
    BY <2>2, <2>3, <2>4, <2>5 DEF SplitsInv
<1> QED
  BY <1>1, SplitHoldoutInv, TakeAllInv, PlanFoldInv, ScoreFoldInv, ScoreHoldoutInv
  DEF Splits!Next

-----------------------------------------------------------------------------
(* Euclid's algorithm. *)

Pos == Nat \ {0}

\* f is what Gcd computes for a second number up to n.
Euclid(f, n) ==
    \A a \in Nat : /\ f[<<a, 0>>] = a
                   /\ \A b \in 1..n : f[<<a, b>>] = f[<<b, a % b>>]

LEMMA Remainder ==
    ASSUME NEW a \in Nat, NEW b \in Pos
    PROVE  /\ a % b \in 0..(b - 1) /\ a % b \in Nat /\ a % b < b
           /\ a \div b \in Nat /\ a = ((a \div b) * b) + (a % b)
BY DEF Pos

LEMMA EuclidExists == \A n \in Nat : \E f : Euclid(f, n)
<1> DEFINE T == {n \in Nat : ~\E f : Euclid(f, n)}
<1> SUFFICES T = {}
  OBVIOUS
<1> SUFFICES ASSUME T # {} PROVE FALSE
  OBVIOUS
<1>1. PICK n \in T : \A m \in T : n <= m
  <2> HIDE DEF T
  <2>1. T \subseteq Nat
    BY DEF T
  <2> QED
    BY <2>1, LeastElement
<1>2. CASE n = 0
  <2> DEFINE f == [p \in Nat \X Nat |-> p[1]]
  <2>1. \A a \in Nat : f[<<a, 0>>] = a
    OBVIOUS
  <2> HIDE DEF f
  <2>2. 1..n = {}
    BY <1>2
  <2>3. Euclid(f, n)
    BY <2>1, <2>2 DEF Euclid
  <2> QED
    BY <2>3
<1>3. CASE n # 0
  <2>1. n \in Pos /\ n - 1 \in Nat /\ n - 1 \notin T
    BY <1>1, <1>3 DEF Pos
  <2>2. PICK g : Euclid(g, n - 1)
    BY <2>1
  <2> DEFINE f == [p \in Nat \X Nat |-> IF p[2] = n THEN g[<<n, p[1] % n>>] ELSE g[p]]
  <2>3. ASSUME NEW a \in Nat, NEW b \in Nat
        PROVE  f[<<a, b>>] = IF b = n THEN g[<<n, a % n>>] ELSE g[<<a, b>>]
    OBVIOUS
  <2> HIDE DEF f
  <2>4. ASSUME NEW a \in Nat, NEW b \in 1..n PROVE f[<<a, b>>] = f[<<b, a % b>>]
    <3>1. b \in Pos /\ b \in Nat /\ a % b \in Nat /\ a % b # n
      <4>1. b \in Pos /\ b <= n
        BY DEF Pos
      <4>2. a % b < b /\ a % b \in Nat
        BY <4>1, Remainder
      <4> QED
        BY <4>1, <4>2 DEF Pos
    <3>2. f[<<b, a % b>>] = g[<<b, a % b>>]
      BY <2>3, <3>1
    <3>3. CASE b = n
      BY <2>3, <3>1, <3>2, <3>3
    <3>4. CASE b # n
      <4>1. b \in 1..(n - 1)
        BY <3>4
      <4>2. g[<<a, b>>] = g[<<b, a % b>>]
        BY <2>2, <4>1 DEF Euclid
      <4> QED
        BY <2>3, <3>1, <3>2, <3>4, <4>2
    <3> QED
      BY <3>3, <3>4
  <2>5. ASSUME NEW a \in Nat PROVE f[<<a, 0>>] = a
    BY <1>3, <2>2, <2>3 DEF Euclid
  <2>6. Euclid(f, n)
    BY <2>4, <2>5 DEF Euclid
  <2> QED
    BY <2>6
<1> QED
  BY <1>2, <1>3

LEMMA EuclidUnique ==
    ASSUME NEW n \in Nat, NEW m \in Nat, NEW f, NEW g, Euclid(f, n), Euclid(g, m),
           NEW a \in Nat, NEW b \in Nat, b <= n, b <= m
    PROVE  f[<<a, b>>] = g[<<a, b>>]
<1> DEFINE T == {c \in Nat : c <= n /\ c <= m /\ \E e \in Nat : f[<<e, c>>] # g[<<e, c>>]}
<1> SUFFICES ASSUME T # {} PROVE FALSE
  OBVIOUS
<1>1. PICK c \in T : \A d \in T : c <= d
  <2> HIDE DEF T
  <2>1. T \subseteq Nat
    BY DEF T
  <2> QED
    BY <2>1, LeastElement
<1>2. PICK e \in Nat : f[<<e, c>>] # g[<<e, c>>]
  BY <1>1
<1>3. c # 0
  BY <1>2 DEF Euclid
<1>4. c \in Pos /\ c \in 1..n /\ c \in 1..m
  BY <1>1, <1>3 DEF Pos
<1>5. e % c \in Nat /\ e % c < c
  BY <1>4, Remainder
<1>6. f[<<c, e % c>>] # g[<<c, e % c>>]
  BY <1>2, <1>4 DEF Euclid
<1>7. e % c \in T
  <2>1. e % c <= n /\ e % c <= m
    BY <1>4, <1>5
  <2> QED
    BY <1>1, <1>4, <1>5, <1>6, <2>1
<1> QED
  <2> HIDE DEF T
  <2>1. c <= e % c /\ c \in Nat
    BY <1>1, <1>7 DEF T
  <2> QED
    BY <1>5, <2>1

\* What the recursion says of Gcd.
LEMMA GcdIs ==
    /\ \A a \in Nat : Gcd[<<a, 0>>] = a
    /\ \A a \in Nat, b \in Pos : Gcd[<<a, b>>] = Gcd[<<b, a % b>>]
<1> DEFINE F(n) == CHOOSE f : Euclid(f, n)
           h == [p \in Nat \X Nat |-> F(p[2])[p]]
<1>1. \A n \in Nat : Euclid(F(n), n)
  BY EuclidExists
<1> HIDE DEF F
<1>2. \A a \in Nat, b \in Nat : h[<<a, b>>] = F(b)[<<a, b>>]
  OBVIOUS
<1>3. \A a \in Nat : h[<<a, 0>>] = a
  BY <1>1, <1>2 DEF Euclid
<1>4. ASSUME NEW a \in Nat, NEW b \in Pos PROVE h[<<a, b>>] = h[<<b, a % b>>]
  <2>1. b \in Nat /\ b \in 1..b /\ a % b \in Nat /\ a % b < b
    BY Remainder DEF Pos
  <2>2. F(b)[<<a, b>>] = F(b)[<<b, a % b>>]
    BY <1>1, <2>1 DEF Euclid
  <2>3. F(b)[<<b, a % b>>] = F(a % b)[<<b, a % b>>]
    <3>1. a % b <= b /\ a % b <= a % b
      BY <2>1
    <3>2. Euclid(F(b), b) /\ Euclid(F(a % b), a % b)
      BY <1>1, <2>1
    <3> QED
      BY <2>1, <3>1, <3>2, EuclidUnique
  <2> QED
    BY <1>2, <2>1, <2>2, <2>3
<1>5. h = [p \in Nat \X Nat |-> IF p[2] = 0 THEN p[1] ELSE h[<<p[2], p[1] % p[2]>>]]
  <2>1. ASSUME NEW p \in Nat \X Nat
        PROVE  h[p] = IF p[2] = 0 THEN p[1] ELSE h[<<p[2], p[1] % p[2]>>]
    <3> DEFINE a == p[1]
               b == p[2]
    <3>1. a \in Nat /\ b \in Nat /\ p = <<a, b>>
      OBVIOUS
    <3> HIDE DEF a, b
    <3>2. b # 0 => b \in Pos
      BY <3>1 DEF Pos
    <3>3. h[<<a, b>>] = IF b = 0 THEN a ELSE h[<<b, a % b>>]
      BY <1>3, <1>4, <3>1, <3>2
    <3>4. h[p] = IF b = 0 THEN a ELSE h[<<b, a % b>>]
      BY <3>1, <3>3, Zenon
    <3> QED
      BY <3>4 DEF a, b
  <2>2. h = [p \in Nat \X Nat |-> h[p]]
    OBVIOUS
  <2> HIDE DEF h
  <2> QED
    BY <2>1, <2>2
<1> HIDE DEF h
<1>6. \E f : f = [p \in Nat \X Nat |-> IF p[2] = 0 THEN p[1] ELSE f[<<p[2], p[1] % p[2]>>]]
  BY <1>5
<1>7. Gcd = [p \in Nat \X Nat |-> IF p[2] = 0 THEN p[1] ELSE Gcd[<<p[2], p[1] % p[2]>>]]
  BY <1>6, Zenon DEF Gcd
<1> HIDE DEF Gcd
<1> QED
  BY <1>7 DEF Pos

\* Gcd divides both.
Divides(g, a, b) == g \in Nat /\ \E p, q \in Nat : a = p * g /\ b = q * g

LEMMA GcdDivides == \A a, b \in Nat : Divides(Gcd[<<a, b>>], a, b)
<1> DEFINE T == {b \in Nat : \E a \in Nat : ~Divides(Gcd[<<a, b>>], a, b)}
<1> SUFFICES ASSUME T # {} PROVE FALSE
  OBVIOUS
<1>1. PICK b \in T : \A d \in T : b <= d
  <2> HIDE DEF T
  <2>1. T \subseteq Nat
    BY DEF T
  <2> QED
    BY <2>1, LeastElement
<1>2. PICK a \in Nat : ~Divides(Gcd[<<a, b>>], a, b)
  BY <1>1
<1>3. CASE b = 0
  <2>1. a = 1 * a /\ 0 = 0 * a /\ 0 \in Nat /\ 1 \in Nat
    OBVIOUS
  <2>2. Gcd[<<a, b>>] = a
    BY <1>3, GcdIs
  <2> QED
    BY <1>2, <1>3, <2>1, <2>2 DEF Divides
<1>4. CASE b # 0
  <2> DEFINE r == a % b
             k == a \div b
             g == Gcd[<<b, r>>]
  <2>1. b \in Pos /\ b \in Nat
    BY <1>1, <1>4 DEF Pos
  <2>2. r \in Nat /\ r < b /\ k \in Nat /\ a = (k * b) + r
    BY <2>1, Remainder
  <2>3. Gcd[<<a, b>>] = g
    BY <2>1, GcdIs
  <2> HIDE DEF r, k, g
  <2>4. r \notin T
    BY <1>1, <2>1, <2>2
  <2>5. Divides(g, b, r)
    BY <2>1, <2>2, <2>4 DEF g
  <2>6. PICK p, q \in Nat : b = p * g /\ r = q * g
    BY <2>5 DEF Divides
  <2>7. g \in Nat /\ a = ((k * p) + q) * g /\ (k * p) + q \in Nat
    <3>1. g \in Nat
      BY <2>5 DEF Divides
    <3>2. a = (k * (p * g)) + (q * g)
      BY <2>2, <2>6
    <3> QED
      BY <2>2, <3>1, <3>2
  <2>8. Divides(g, a, b)
    BY <2>6, <2>7 DEF Divides
  <2> QED
    BY <1>2, <2>3, <2>8
<1> QED
  BY <1>3, <1>4

\* A common factor comes out of Gcd.
LEMMA RemainderScales ==
    ASSUME NEW a \in Nat, NEW b \in Pos, NEW k \in Pos
    PROVE  (a * k) % (b * k) = (a % b) * k /\ b * k \in Pos
<1> DEFINE q == a \div b
           r == a % b
<1>1. r \in Nat /\ r < b /\ q \in Nat /\ a = (q * b) + r /\ k \in Nat /\ k > 0 /\ b \in Nat
  BY Remainder DEF Pos
<1> HIDE DEF q, r
<1>2. a * k = (q * (b * k)) + (r * k)
  BY <1>1
<1>3. r * k < b * k /\ r * k \in Nat /\ b * k \in Pos
  <2>1. (b - r) * k > 0
    BY <1>1
  <2>2. (b - r) * k = b * k - r * k
    BY <1>1
  <2>3. b * k \in Nat /\ r * k \in Nat
    BY <1>1
  <2> QED
    BY <2>1, <2>2, <2>3 DEF Pos
<1>4. \A x \in Nat, y \in Pos, z \in Nat, w \in Nat :
          x = (z * y) + w /\ w < y => x % y = w
  BY DEF Pos
<1>5. a * k \in Nat
  BY <1>1
<1>6. (a * k) % (b * k) = r * k
  <2> DEFINE x == a * k
             y == b * k
             w == r * k
  <2>1. x = (q * y) + w /\ w < y /\ x \in Nat /\ y \in Pos /\ w \in Nat
    BY <1>2, <1>3, <1>5
  <2> HIDE DEF x, y, w
  <2>2. x % y = w
    BY <1>1, <1>4, <2>1
  <2> QED
    BY <2>2 DEF x, y, w
<1> QED
  BY <1>3, <1>6 DEF r

LEMMA GcdScales ==
    ASSUME NEW k \in Pos
    PROVE  \A a, b \in Nat : Gcd[<<a * k, b * k>>] = Gcd[<<a, b>>] * k
<1> DEFINE T == {b \in Nat : \E a \in Nat : Gcd[<<a * k, b * k>>] # Gcd[<<a, b>>] * k}
<1> SUFFICES ASSUME T # {} PROVE FALSE
  OBVIOUS
<1>0. k \in Nat
  BY DEF Pos
<1>1. PICK b \in T : \A d \in T : b <= d
  <2> HIDE DEF T
  <2>1. T \subseteq Nat
    BY DEF T
  <2> QED
    BY <2>1, LeastElement
<1>2. PICK a \in Nat : Gcd[<<a * k, b * k>>] # Gcd[<<a, b>>] * k
  BY <1>1
<1>3. a * k \in Nat
  BY <1>0
<1>4. CASE b = 0
  <2>1. b * k = 0
    BY <1>0, <1>4
  <2>2. Gcd[<<a * k, 0>>] = a * k /\ Gcd[<<a, 0>>] = a
    BY <1>3, GcdIs
  <2> QED
    BY <1>2, <1>4, <2>1, <2>2
<1>5. CASE b # 0
  <2>1. b \in Pos
    BY <1>1, <1>5 DEF Pos
  <2> DEFINE r == a % b
  <2>2. r \in Nat /\ r < b
    BY <2>1, Remainder
  <2>3. b * k \in Pos /\ (a * k) % (b * k) = r * k
    BY <2>1, RemainderScales
  <2>4. Gcd[<<a * k, b * k>>] = Gcd[<<b * k, r * k>>]
    BY <1>3, <2>3, GcdIs
  <2>5. Gcd[<<a, b>>] = Gcd[<<b, r>>]
    BY <2>1, GcdIs
  <2> HIDE DEF r
  <2>6. r \notin T
    <3> HIDE DEF T
    <3> QED
      BY <1>1, <2>1, <2>2 DEF Pos
  <2>7. Gcd[<<b * k, r * k>>] = Gcd[<<b, r>>] * k
    BY <2>1, <2>2, <2>6 DEF Pos
  <2> QED
    BY <1>2, <2>4, <2>5, <2>7
<1> QED
  BY <1>4, <1>5

-----------------------------------------------------------------------------
(* Fractions in lowest terms. *)

LEMMA Quotient ==
    ASSUME NEW k \in Int, NEW g \in Pos
    PROVE  (k * g) \div g = k
BY DEF Pos

\* A fraction is its numerator and denominator over their greatest divisor.
LEMMA FracIs ==
    ASSUME NEW n \in Int, NEW d \in Pos
    PROVE  \E g, q \in Pos, p \in Int :
              n = p * g /\ d = q * g /\ g = Gcd[<<Abs(n), d>>] /\ Frac(n, d) = <<p, q>>
<1> DEFINE g == Gcd[<<Abs(n), d>>]
<1>1. Abs(n) \in Nat /\ d \in Nat /\ d > 0
  BY DEF Abs, Pos
<1>2. Divides(g, Abs(n), d)
  BY <1>1, GcdDivides
<1>3. Frac(n, d) = <<n \div g, d \div g>>
  BY DEF Frac
<1> SUFFICES \E q \in Pos, p \in Int : g \in Pos /\ n = p * g /\ d = q * g /\ Frac(n, d) = <<p, q>>
  OBVIOUS
<1> HIDE DEF g
<1>4. PICK m, q \in Nat : Abs(n) = m * g /\ d = q * g
  BY <1>2 DEF Divides
<1>5. g \in Pos /\ q \in Pos
  <2>1. g \in Nat
    BY <1>2 DEF Divides
  <2>2. g # 0 /\ q # 0
    BY <1>1, <1>4, <2>1
  <2> QED
    BY <2>1, <2>2 DEF Pos
<1>6. PICK p \in Int : n = p * g
  <2>1. CASE n < 0
    <3>1. n = (-m) * g /\ -m \in Int
      BY <1>4, <1>5, <2>1 DEF Abs, Pos
    <3> QED
      BY <3>1
  <2>2. CASE ~(n < 0)
    BY <1>4, <2>2 DEF Abs
  <2> QED
    BY <2>1, <2>2
<1>7. n \div g = p /\ d \div g = q
  <2>1. q \in Int
    BY <1>5 DEF Pos
  <2> QED
    BY <1>4, <1>5, <1>6, <2>1, Quotient
<1> QED
  BY <1>3, <1>4, <1>5, <1>6, <1>7

LEMMA FracScales ==
    ASSUME NEW n \in Int, NEW d \in Pos, NEW k \in Pos
    PROVE  Frac(n * k, d * k) = Frac(n, d)
<1>1. PICK g \in Pos, q \in Pos, p \in Int :
          n = p * g /\ d = q * g /\ g = Gcd[<<Abs(n), d>>] /\ Frac(n, d) = <<p, q>>
  BY FracIs
<1>2. /\ Abs(n) \in Nat /\ d \in Nat /\ k \in Nat /\ k > 0 /\ g \in Nat /\ g > 0 /\ q \in Int
      /\ Abs(n * k) = Abs(n) * k
  <2>1. Abs(n) \in Nat /\ d \in Nat /\ k \in Nat /\ k > 0 /\ g \in Nat /\ g > 0 /\ q \in Int
    BY DEF Abs, Pos
  <2>2. CASE n < 0
    <3>1. n * k < 0 /\ -(n * k) = (-n) * k
      BY <2>1, <2>2
    <3> QED
      BY <2>1, <2>2, <3>1 DEF Abs
  <2>3. CASE ~(n < 0)
    <3>1. ~(n * k < 0)
      BY <2>1, <2>3
    <3> QED
      BY <2>3, <3>1, <2>1 DEF Abs
  <2> QED
    BY <2>1, <2>2, <2>3
<1>3. Gcd[<<Abs(n * k), d * k>>] = g * k
  BY <1>1, <1>2, GcdScales
<1>4. g * k \in Pos /\ n * k = p * (g * k) /\ d * k = q * (g * k)
  BY <1>1, <1>2 DEF Pos
<1>5. (n * k) \div (g * k) = p /\ (d * k) \div (g * k) = q
  <2> DEFINE h == g * k
             x == n * k
             y == d * k
  <2>1. h \in Pos /\ x = p * h /\ y = q * h
    BY <1>4
  <2> HIDE DEF h, x, y
  <2>2. x \div h = p /\ y \div h = q
    BY <1>2, <2>1, Quotient
  <2> QED
    BY <2>2 DEF h, x, y
<1>6. Frac(n * k, d * k) = <<(n * k) \div (g * k), (d * k) \div (g * k)>>
  BY <1>3 DEF Frac
<1> QED
  BY <1>1, <1>5, <1>6

\* Frac(n, d) depends on the value of n / d only.
LEMMA SameValue ==
    ASSUME NEW n \in Int, NEW d \in Pos, NEW m \in Int, NEW e \in Pos, n * e = m * d
    PROVE  Frac(n, d) = Frac(m, e)
<1>1. Frac(n * e, d * e) = Frac(n, d) /\ Frac(m * d, e * d) = Frac(m, e)
  BY FracScales
<1>2. d * e = e * d
  BY DEF Pos
<1> QED
  BY <1>1, <1>2

\* The numbers, and those above and from zero.
Rational(x)    == \E n \in Int, d \in Pos : x = Frac(n, d)
Positive(x)    == Rational(x) /\ x[1] > 0
NonNegative(x) == Rational(x) /\ x[1] >= 0
AtMost(x, y)   == ~(x \succ y)

LEMMA Positivity == \A n \in Pos : n \in Nat /\ n \in Int /\ n > 0
BY DEF Pos

LEMMA RationalIs ==
    ASSUME NEW x, Rational(x)
    PROVE  /\ x[1] \in Int /\ x[2] \in Pos /\ x[2] \in Int /\ x[2] > 0
           /\ x = <<x[1], x[2]>> /\ x = Frac(x[1], x[2])
<1>1. PICK n \in Int, d \in Pos : x = Frac(n, d)
  BY DEF Rational
<1>2. PICK g \in Pos, q \in Pos, p \in Int :
          n = p * g /\ d = q * g /\ g = Gcd[<<Abs(n), d>>] /\ Frac(n, d) = <<p, q>>
  BY FracIs
<1>3. x[1] = p /\ x[2] = q /\ x = <<p, q>>
  BY <1>1, <1>2
<1>4. p * d = n * q
  BY <1>2 DEF Pos
<1>5. Frac(p, q) = Frac(n, d)
  BY <1>4, SameValue
<1>6. x = Frac(x[1], x[2]) /\ x = <<x[1], x[2]>>
  BY <1>1, <1>3, <1>5
<1>7. x[1] \in Int /\ x[2] \in Pos
  BY <1>3
<1> HIDE DEF Rational
<1> QED
  BY <1>6, <1>7, Positivity

\* The value and the sign of a fraction.
LEMMA FracValue ==
    ASSUME NEW n \in Int, NEW d \in Pos
    PROVE  /\ Rational(Frac(n, d))
           /\ Frac(n, d)[1] * d = n * Frac(n, d)[2]
           /\ Frac(n, d)[1] > 0 <=> n > 0
           /\ Frac(n, d)[1] >= 0 <=> n >= 0
<1>1. PICK g \in Pos, q \in Pos, p \in Int :
          n = p * g /\ d = q * g /\ g = Gcd[<<Abs(n), d>>] /\ Frac(n, d) = <<p, q>>
  BY FracIs
<1>2. Frac(n, d)[1] = p /\ Frac(n, d)[2] = q
  BY <1>1
<1>3. g \in Nat /\ g > 0 /\ q \in Nat
  BY DEF Pos
<1>4. p * d = n * q
  BY <1>1, <1>3
<1>5. (p > 0 <=> n > 0) /\ (p >= 0 <=> n >= 0)
  BY <1>1, <1>3
<1>6. Rational(Frac(n, d))
  BY DEF Rational
<1> QED
  BY <1>2, <1>4, <1>5, <1>6

LEMMA TimesPos == \A a, b \in Pos : a * b \in Pos
BY DEF Pos

\* The operations on values that are not in lowest terms.
LEMMA FracTimes ==
    ASSUME NEW n \in Int, NEW d \in Pos, NEW m \in Int, NEW e \in Pos
    PROVE  Frac(n, d) ** Frac(m, e) = Frac(n * m, d * e)
<1> DEFINE x == Frac(n, d)
           y == Frac(m, e)
<1>1. /\ x[1] \in Int /\ x[2] \in Pos /\ x[1] * d = n * x[2]
      /\ y[1] \in Int /\ y[2] \in Pos /\ y[1] * e = m * y[2]
  BY FracValue, RationalIs
<1> HIDE DEF x, y
<1>2. PICK a, b \in Int, c, f \in Pos : a = x[1] /\ b = y[1] /\ c = x[2] /\ f = y[2]
  BY <1>1
<1>3. a * d = n * c /\ b * e = m * f
  BY <1>1, <1>2
<1>4. (a * b) * (d * e) = (n * m) * (c * f)
  <2>1. (a * b) * (d * e) = (a * d) * (b * e)
    BY DEF Pos
  <2>2. (n * m) * (c * f) = (n * c) * (m * f)
    BY DEF Pos
  <2> QED
    BY <1>3, <2>1, <2>2
<1>5. Frac(a * b, c * f) = Frac(n * m, d * e)
  BY <1>4, TimesPos, SameValue
<1>6. x ** y = Frac(a * b, c * f)
  BY <1>2 DEF **
<1> QED
  BY <1>5, <1>6 DEF x, y

LEMMA FracOver ==
    ASSUME NEW n \in Int, NEW d \in Pos, NEW m \in Pos, NEW e \in Pos
    PROVE  Frac(n, d) // Frac(m, e) = Frac(n * e, d * m)
<1> DEFINE x == Frac(n, d)
           y == Frac(m, e)
<1>1. /\ x[1] \in Int /\ x[2] \in Pos /\ x[1] * d = n * x[2]
      /\ y[1] \in Pos /\ y[2] \in Pos /\ y[1] * e = m * y[2]
  <2>1. m \in Int /\ m > 0
    BY DEF Pos
  <2>2. Rational(x) /\ x[1] * d = n * x[2]
    BY FracValue
  <2>3. Rational(y) /\ y[1] * e = m * y[2] /\ y[1] > 0
    BY <2>1, FracValue
  <2> HIDE DEF x, y
  <2>4. y[1] \in Int /\ x[1] \in Int /\ x[2] \in Pos /\ y[2] \in Pos
    BY <2>2, <2>3, RationalIs
  <2> QED
    BY <2>2, <2>3, <2>4 DEF Pos
<1> HIDE DEF x, y
<1>2. PICK a \in Int, b, c, f \in Pos : a = x[1] /\ b = y[1] /\ c = x[2] /\ f = y[2]
  BY <1>1
<1>3. a * d = n * c /\ b * e = m * f
  BY <1>1, <1>2
<1>4. (a * f) * (d * m) = (n * e) * (c * b)
  <2>1. (a * f) * (d * m) = (a * d) * (m * f)
    BY DEF Pos
  <2>2. (n * e) * (c * b) = (n * c) * (b * e)
    BY DEF Pos
  <2> QED
    BY <1>3, <2>1, <2>2
<1>5. Frac(a * f, c * b) = Frac(n * e, d * m)
  <2>1. a * f \in Int /\ n * e \in Int
    BY DEF Pos
  <2> QED
    BY <1>4, <2>1, TimesPos, SameValue
<1>6. x // y = Frac(a * f, c * b)
  BY <1>2 DEF //
<1> QED
  BY <1>5, <1>6 DEF x, y

LEMMA FracSums ==
    ASSUME NEW n \in Int, NEW d \in Pos, NEW m \in Int, NEW e \in Pos
    PROVE  /\ Frac(n, d) ++ Frac(m, e) = Frac((n * e) + (m * d), d * e)
           /\ Frac(n, d) -- Frac(m, e) = Frac((n * e) - (m * d), d * e)
<1> DEFINE x == Frac(n, d)
           y == Frac(m, e)
<1>1. /\ x[1] \in Int /\ x[2] \in Pos /\ x[1] * d = n * x[2]
      /\ y[1] \in Int /\ y[2] \in Pos /\ y[1] * e = m * y[2]
  BY FracValue, RationalIs
<1> HIDE DEF x, y
<1>2. PICK a, b \in Int, c, f \in Pos : a = x[1] /\ b = y[1] /\ c = x[2] /\ f = y[2]
  BY <1>1
<1>3. a * d = n * c /\ b * e = m * f
  BY <1>1, <1>2
<1>4. (a * f) * (d * e) = (n * e) * (c * f) /\ (b * c) * (d * e) = (m * d) * (c * f)
  <2>1. (a * f) * (d * e) = (a * d) * (e * f) /\ (n * e) * (c * f) = (n * c) * (e * f)
    BY DEF Pos
  <2>2. (b * c) * (d * e) = (b * e) * (c * d) /\ (m * d) * (c * f) = (m * f) * (c * d)
    BY DEF Pos
  <2> QED
    BY <1>3, <2>1, <2>2
<1>5. /\ a * f \in Int /\ b * c \in Int /\ n * e \in Int /\ m * d \in Int
      /\ d * e \in Int /\ c * f \in Int
  BY DEF Pos
<1>6. /\ ((a * f) + (b * c)) * (d * e) = ((n * e) + (m * d)) * (c * f)
      /\ ((a * f) - (b * c)) * (d * e) = ((n * e) - (m * d)) * (c * f)
  <2> DEFINE A == a * f
             B == b * c
             N == n * e
             M == m * d
             D == d * e
             C == c * f
  <2>1. A * D = N * C /\ B * D = M * C
    BY <1>4
  <2>2. A \in Int /\ B \in Int /\ N \in Int /\ M \in Int /\ D \in Int /\ C \in Int
    BY <1>5
  <2> HIDE DEF A, B, N, M, C, D
  <2>3. (A + B) * D = (N + M) * C /\ (A - B) * D = (N - M) * C
    BY <2>1, <2>2
  <2> QED
    BY <2>3 DEF A, B, N, M, C, D
<1>7. /\ Frac((a * f) + (b * c), c * f) = Frac((n * e) + (m * d), d * e)
      /\ Frac((a * f) - (b * c), c * f) = Frac((n * e) - (m * d), d * e)
  BY <1>5, <1>6, TimesPos, SameValue
<1>8. x ++ y = Frac((a * f) + (b * c), c * f) /\ x -- y = Frac((a * f) - (b * c), c * f)
  BY <1>2 DEF ++, --
<1> QED
  BY <1>7, <1>8 DEF x, y

LEMMA FracExceeds ==
    ASSUME NEW n \in Int, NEW d \in Pos, NEW m \in Int, NEW e \in Pos
    PROVE  (Frac(n, d) \succ Frac(m, e)) <=> n * e > m * d
<1> DEFINE x == Frac(n, d)
           y == Frac(m, e)
<1>1. /\ x[1] \in Int /\ x[2] \in Pos /\ x[1] * d = n * x[2]
      /\ y[1] \in Int /\ y[2] \in Pos /\ y[1] * e = m * y[2]
  BY FracValue, RationalIs
<1> HIDE DEF x, y
<1>2. PICK a, b \in Int, c, f \in Pos : a = x[1] /\ b = y[1] /\ c = x[2] /\ f = y[2]
  BY <1>1
<1>3. a * d = n * c /\ b * e = m * f
  BY <1>1, <1>2
<1>4. ((a * f) - (b * c)) * (d * e) = ((n * e) - (m * d)) * (c * f)
  <2>1. (a * f) * (d * e) = (a * d) * (e * f) /\ (n * e) * (c * f) = (n * c) * (e * f)
    BY DEF Pos
  <2>2. (b * c) * (d * e) = (b * e) * (c * d) /\ (m * d) * (c * f) = (m * f) * (c * d)
    BY DEF Pos
  <2>3. (a * f) * (d * e) = (n * e) * (c * f) /\ (b * c) * (d * e) = (m * d) * (c * f)
    BY <1>3, <2>1, <2>2
  <2> DEFINE A == a * f
             B == b * c
             N == n * e
             M == m * d
             D == d * e
             C == c * f
  <2>4. A * D = N * C /\ B * D = M * C
    BY <2>3
  <2>5. A \in Int /\ B \in Int /\ N \in Int /\ M \in Int /\ D \in Int /\ C \in Int
    BY DEF Pos
  <2> HIDE DEF A, B, N, M, C, D
  <2>6. (A - B) * D = (N - M) * C
    BY <2>4, <2>5
  <2> QED
    BY <2>6 DEF A, B, N, M, C, D
<1>5. \A u, v \in Int, w, z \in Pos : u * w = v * z => (u > 0 <=> v > 0)
  BY DEF Pos
<1>6. ((a * f) - (b * c) > 0) <=> ((n * e) - (m * d) > 0)
  <2> DEFINE u == (a * f) - (b * c)
             v == (n * e) - (m * d)
             w == d * e
             z == c * f
  <2>1. u \in Int /\ v \in Int
    BY DEF Pos
  <2>2. w \in Pos /\ z \in Pos /\ u * w = v * z
    BY <1>4, TimesPos
  <2> HIDE DEF u, v, w, z
  <2>3. u > 0 <=> v > 0
    BY <1>5, <2>1, <2>2
  <2> QED
    BY <2>3 DEF u, v
<1>7. a * f > b * c <=> n * e > m * d
  <2>1. a * f \in Int /\ b * c \in Int /\ n * e \in Int /\ m * d \in Int
    BY DEF Pos
  <2> QED
    BY <1>6, <2>1
<1>8. (x \succ y) <=> a * f > b * c
  BY <1>2 DEF \succ
<1> QED
  BY <1>7, <1>8 DEF x, y

LEMMA PositiveIs ==
    /\ \A x : Positive(x) => \E n, d \in Pos : x = Frac(n, d)
    /\ \A n, d \in Pos : Positive(Frac(n, d))
    /\ \A x : Positive(x) => Rational(x) /\ NonNegative(x)
    /\ \A x : NonNegative(x) => Rational(x) /\ \E n \in Nat, d \in Pos : x = Frac(n, d)
    /\ \A n \in Nat, d \in Pos : NonNegative(Frac(n, d))
<1>1. ASSUME NEW x, Positive(x) PROVE \E n, d \in Pos : x = Frac(n, d)
  <2>1. x[1] \in Int /\ x[1] > 0 /\ x[2] \in Pos /\ x = Frac(x[1], x[2])
    BY <1>1, RationalIs DEF Positive
  <2>2. x[1] \in Pos
    BY <2>1 DEF Pos
  <2> QED
    BY <2>1, <2>2
<1>2. ASSUME NEW n \in Pos, NEW d \in Pos PROVE Positive(Frac(n, d))
  BY Positivity, FracValue DEF Positive
<1>3. ASSUME NEW x, Positive(x) PROVE Rational(x) /\ NonNegative(x)
  <2>1. x[1] \in Int /\ x[1] > 0
    BY <1>3, RationalIs DEF Positive
  <2> QED
    BY <1>3, <2>1 DEF Positive, NonNegative
<1>4. ASSUME NEW x, NonNegative(x) PROVE Rational(x) /\ \E n \in Nat, d \in Pos : x = Frac(n, d)
  <2>1. x[1] \in Int /\ x[1] >= 0 /\ x[2] \in Pos /\ x = Frac(x[1], x[2]) /\ Rational(x)
    BY <1>4, RationalIs DEF NonNegative
  <2>2. x[1] \in Nat
    BY <2>1
  <2> QED
    BY <2>1, <2>2
<1>5. ASSUME NEW n \in Nat, NEW d \in Pos PROVE NonNegative(Frac(n, d))
  <2>1. n \in Int /\ n >= 0
    OBVIOUS
  <2> QED
    BY <2>1, FracValue DEF NonNegative
<1> QED
  BY <1>1, <1>2, <1>3, <1>4, <1>5

LEMMA Whole == ASSUME NEW n \in Int PROVE Frac(n, 1) = <<n, 1>>
<1>0. 1 \in Pos
  BY DEF Pos
<1>1. PICK g \in Pos, q \in Pos, p \in Int :
          n = p * g /\ 1 = q * g /\ g = Gcd[<<Abs(n), 1>>] /\ Frac(n, 1) = <<p, q>>
  BY <1>0, FracIs
<1>2. g \in Nat /\ g > 0 /\ q \in Nat /\ q > 0
  BY Positivity
<1>3. g = 1 /\ q = 1
  <2>1. ~(g > 1)
    <3> SUFFICES ASSUME g > 1 PROVE FALSE
      OBVIOUS
    <3>1. q * g >= g
      BY <1>2
    <3> QED
      BY <1>1, <1>2, <3>1
  <2>2. g = 1
    BY <1>2, <2>1
  <2> QED
    BY <1>1, <1>2, <2>2
<1> QED
  BY <1>1, <1>3

LEMMA Units == One = Frac(1, 1) /\ Zero = Frac(0, 1) /\ 1 \in Pos
BY Whole DEF One, Zero, Pos

\* The operations stay among the numbers, and above zero where they do.
LEMMA StayRational ==
    ASSUME NEW x, NEW y, Rational(x), Rational(y)
    PROVE  Rational(x ** y) /\ Rational(x ++ y) /\ Rational(x -- y)
<1>1. PICK n \in Int, d \in Pos : x = Frac(n, d)
  BY DEF Rational
<1>2. PICK m \in Int, e \in Pos : y = Frac(m, e)
  BY DEF Rational
<1>3. /\ n * m \in Int /\ (n * e) + (m * d) \in Int /\ (n * e) - (m * d) \in Int
      /\ d * e \in Pos
  BY Positivity, TimesPos
<1> QED
  BY <1>1, <1>2, <1>3, FracTimes, FracSums DEF Rational

LEMMA StayPositive ==
    ASSUME NEW x, NEW y, Positive(x), Positive(y)
    PROVE  Positive(x ** y) /\ Positive(x // y)
<1>1. PICK n, d \in Pos : x = Frac(n, d)
  BY PositiveIs
<1>2. PICK m, e \in Pos : y = Frac(m, e)
  BY PositiveIs
<1>3. n \in Int /\ m \in Int /\ n * m \in Pos /\ d * e \in Pos /\ n * e \in Pos /\ d * m \in Pos
  BY Positivity, TimesPos
<1>4. x ** y = Frac(n * m, d * e) /\ x // y = Frac(n * e, d * m)
  BY <1>1, <1>2, <1>3, FracTimes, FracOver
<1> QED
  BY <1>3, <1>4, PositiveIs

\* Commutative, associative, distributive.
LEMMA TimesCommutes ==
    ASSUME NEW x, NEW y, Rational(x), Rational(y)
    PROVE  x ** y = y ** x
<1>1. x[1] \in Int /\ x[2] \in Int /\ y[1] \in Int /\ y[2] \in Int
  BY RationalIs
<1>2. x[1] * y[1] = y[1] * x[1] /\ x[2] * y[2] = y[2] * x[2]
  BY <1>1
<1> QED
  BY <1>2 DEF **

LEMMA TimesAssociates ==
    ASSUME NEW x, NEW y, NEW z, Rational(x), Rational(y), Rational(z)
    PROVE  (x ** y) ** z = x ** (y ** z)
<1>1. PICK a \in Int, b \in Pos : x = Frac(a, b)
  BY DEF Rational
<1>2. PICK c \in Int, d \in Pos : y = Frac(c, d)
  BY DEF Rational
<1>3. PICK e \in Int, f \in Pos : z = Frac(e, f)
  BY DEF Rational
<1>4. a * c \in Int /\ b * d \in Pos /\ c * e \in Int /\ d * f \in Pos
  BY TimesPos
<1>5. (x ** y) ** z = Frac((a * c) * e, (b * d) * f)
  BY <1>1, <1>2, <1>3, <1>4, FracTimes
<1>6. x ** (y ** z) = Frac(a * (c * e), b * (d * f))
  BY <1>1, <1>2, <1>3, <1>4, FracTimes
<1>7. (a * c) * e = a * (c * e) /\ (b * d) * f = b * (d * f)
  BY Positivity
<1> QED
  BY <1>5, <1>6, <1>7

LEMMA Distributes ==
    ASSUME NEW x, NEW y, NEW z, Rational(x), Rational(y), Rational(z)
    PROVE  x ** (y -- z) = (x ** y) -- (x ** z)
<1>1. PICK a \in Int, b \in Pos : x = Frac(a, b)
  BY DEF Rational
<1>2. PICK c \in Int, d \in Pos : y = Frac(c, d)
  BY DEF Rational
<1>3. PICK e \in Int, f \in Pos : z = Frac(e, f)
  BY DEF Rational
<1> DEFINE n == a * ((c * f) - (e * d))
           m == ((a * c) * (b * f)) - ((a * e) * (b * d))
           k == b * (d * f)
           l == (b * d) * (b * f)
<1>4. /\ a * c \in Int /\ b * d \in Pos /\ a * e \in Int /\ b * f \in Pos /\ d * f \in Pos
      /\ (c * f) - (e * d) \in Int /\ n \in Int /\ m \in Int /\ k \in Pos /\ l \in Pos
  <2>1. b \in Int /\ d \in Int /\ f \in Int
    BY Positivity
  <2>2. b * d \in Pos /\ b * f \in Pos /\ d * f \in Pos /\ k \in Pos /\ l \in Pos
    BY TimesPos
  <2> QED
    BY <2>1, <2>2
<1>5. x ** (y -- z) = Frac(n, k)
  BY <1>1, <1>2, <1>3, <1>4, FracSums, FracTimes
<1>6. (x ** y) -- (x ** z) = Frac(m, l)
  BY <1>1, <1>2, <1>3, <1>4, FracSums, FracTimes
<1>7. n * l = m * k
  BY Positivity
<1> HIDE DEF n, m, k, l
<1> QED
  BY <1>4, <1>5, <1>6, <1>7, SameValue

\* Dividing is the inverse of multiplying.
LEMMA OverTimes ==
    ASSUME NEW x, NEW y, Rational(x), Positive(y)
    PROVE  Rational(x // y) /\ (x // y) ** y = x
<1>1. PICK n \in Int, d \in Pos : x = Frac(n, d)
  BY DEF Rational
<1>2. PICK m, e \in Pos : y = Frac(m, e)
  BY PositiveIs
<1>3. n * e \in Int /\ d * m \in Pos /\ (n * e) * m \in Int /\ (d * m) * e \in Pos /\ m \in Int
  BY Positivity, TimesPos
<1>4. x // y = Frac(n * e, d * m)
  BY <1>1, <1>2, FracOver
<1>5. (x // y) ** y = Frac((n * e) * m, (d * m) * e)
  BY <1>2, <1>3, <1>4, FracTimes
<1>6. ((n * e) * m) * d = n * ((d * m) * e)
  BY Positivity
<1>7. Frac((n * e) * m, (d * m) * e) = Frac(n, d)
  BY <1>3, <1>6, SameValue
<1> QED
  BY <1>1, <1>3, <1>4, <1>5, <1>7 DEF Rational

LEMMA UnitLaws ==
    ASSUME NEW x, Rational(x)
    PROVE  /\ x ** One = x /\ One ** x = x
           /\ Zero ++ x = x /\ x ++ Zero = x
           /\ Rational(One) /\ Rational(Zero) /\ Positive(One)
<1>1. PICK n \in Int, d \in Pos : x = Frac(n, d)
  BY DEF Rational
<1>2. Rational(One) /\ Rational(Zero) /\ Positive(One)
  BY Units, PositiveIs DEF Rational
<1>3. d \in Int
  BY Positivity
<1>4. /\ x ** One = Frac(n * 1, d * 1) /\ One ** x = Frac(1 * n, 1 * d)
      /\ Zero ++ x = Frac((0 * d) + (n * 1), 1 * d) /\ x ++ Zero = Frac((n * 1) + (0 * d), d * 1)
  BY <1>1, Units, FracTimes, FracSums
<1>5. /\ n * 1 = n /\ d * 1 = d /\ 1 * n = n /\ 1 * d = d
      /\ (0 * d) + (n * 1) = n /\ (n * 1) + (0 * d) = n
  BY <1>3
<1> QED
  BY <1>1, <1>2, <1>4, <1>5

\* What is added and taken off again.
LEMMA Telescopes ==
    ASSUME NEW a, NEW b, NEW c, Rational(a), Rational(b), Rational(c)
    PROVE  (b -- c) ++ (a -- b) = a -- c
<1>1. PICK i \in Int, j \in Pos : a = Frac(i, j)
  BY DEF Rational
<1>2. PICK k \in Int, l \in Pos : b = Frac(k, l)
  BY DEF Rational
<1>3. PICK m \in Int, n \in Pos : c = Frac(m, n)
  BY DEF Rational
<1> DEFINE p == (((k * n) - (m * l)) * (j * l)) + (((i * l) - (k * j)) * (l * n))
           q == (l * n) * (j * l)
           r == (i * n) - (m * j)
           s == j * n
<1>4. j \in Int /\ l \in Int /\ n \in Int
  BY Positivity
<1>5. /\ l * n \in Pos /\ j * l \in Pos /\ q \in Pos /\ s \in Pos
      /\ (k * n) - (m * l) \in Int /\ (i * l) - (k * j) \in Int /\ r \in Int /\ p \in Int
  <2>1. l * n \in Pos /\ j * l \in Pos /\ q \in Pos /\ s \in Pos
    BY TimesPos
  <2> QED
    BY <1>4, <2>1
<1>6. (b -- c) ++ (a -- b) = Frac(p, q) /\ a -- c = Frac(r, s)
  BY <1>1, <1>2, <1>3, <1>5, FracSums
<1>7. p * s = r * q
  BY <1>4
<1> HIDE DEF p, q, r, s
<1> QED
  BY <1>5, <1>6, <1>7, SameValue

LEMMA TakesOff ==
    ASSUME NEW a, NEW c, Rational(a), Rational(c)
    PROVE  c ++ (a -- c) = a
<1>1. PICK i \in Int, j \in Pos : a = Frac(i, j)
  BY DEF Rational
<1>2. PICK m \in Int, n \in Pos : c = Frac(m, n)
  BY DEF Rational
<1> DEFINE r == (i * n) - (m * j)
           p == (m * (j * n)) + (r * n)
           q == n * (j * n)
<1>3. /\ j \in Int /\ n \in Int /\ j * n \in Pos /\ q \in Pos /\ r \in Int /\ p \in Int
  <2>1. j \in Int /\ n \in Int
    BY Positivity
  <2>2. j * n \in Pos /\ q \in Pos
    BY TimesPos
  <2> QED
    BY <2>1, <2>2
<1>4. c ++ (a -- c) = Frac(p, q)
  <2>1. a -- c = Frac(r, j * n)
    BY <1>1, <1>2, FracSums
  <2>2. Frac(m, n) ++ Frac(r, j * n) = Frac(p, q)
    <3> HIDE DEF r
    <3> QED
      BY <1>3, FracSums
  <2> QED
    BY <1>2, <2>1, <2>2
<1>5. p * j = i * q
  BY <1>3
<1> HIDE DEF p, q, r
<1> QED
  BY <1>1, <1>3, <1>4, <1>5, SameValue

LEMMA TakenTwice ==
    ASSUME NEW b, NEW f, NEW m, Rational(b), Rational(f), Rational(m)
    PROVE  f ++ ((b -- f) -- m) = b -- m
<1>1. PICK i \in Int, j \in Pos : b = Frac(i, j)
  BY DEF Rational
<1>2. PICK k \in Int, l \in Pos : f = Frac(k, l)
  BY DEF Rational
<1>3. PICK g \in Int, n \in Pos : m = Frac(g, n)
  BY DEF Rational
<1> DEFINE x == (i * l) - (k * j)
           y == (x * n) - (g * (j * l))
           p == (k * ((j * l) * n)) + (y * l)
           q == l * ((j * l) * n)
           r == (i * n) - (g * j)
           s == j * n
<1>4. j \in Int /\ l \in Int /\ n \in Int
  BY Positivity
<1>5. /\ j * l \in Pos /\ (j * l) * n \in Pos /\ q \in Pos /\ s \in Pos
      /\ x \in Int /\ y \in Int /\ r \in Int /\ p \in Int
  <2>1. j * l \in Pos /\ (j * l) * n \in Pos /\ q \in Pos /\ s \in Pos
    BY TimesPos
  <2> QED
    BY <1>4, <2>1
<1>6. f ++ ((b -- f) -- m) = Frac(p, q) /\ b -- m = Frac(r, s)
  BY <1>1, <1>2, <1>3, <1>5, FracSums
<1>7. p * s = r * q
  BY <1>4
<1> HIDE DEF p, q, r, s
<1> QED
  BY <1>5, <1>6, <1>7, SameValue

LEMMA TakenFromLess ==
    ASSUME NEW m, NEW g, NEW f, Rational(m), Rational(g), Rational(f)
    PROVE  m -- (g -- f) = f ++ (m -- g)
<1>1. PICK i \in Int, j \in Pos : m = Frac(i, j)
  BY DEF Rational
<1>2. PICK k \in Int, l \in Pos : g = Frac(k, l)
  BY DEF Rational
<1>3. PICK h \in Int, n \in Pos : f = Frac(h, n)
  BY DEF Rational
<1> DEFINE x == (k * n) - (h * l)
           p == (i * (l * n)) - (x * j)
           q == j * (l * n)
           y == (i * l) - (k * j)
           r == (h * (j * l)) + (y * n)
           s == n * (j * l)
<1>4. j \in Int /\ l \in Int /\ n \in Int
  BY Positivity
<1>5. /\ l * n \in Pos /\ j * l \in Pos /\ q \in Pos /\ s \in Pos
      /\ x \in Int /\ y \in Int /\ r \in Int /\ p \in Int
  <2>1. l * n \in Pos /\ j * l \in Pos /\ q \in Pos /\ s \in Pos
    BY TimesPos
  <2> QED
    BY <1>4, <2>1
<1>6. m -- (g -- f) = Frac(p, q) /\ f ++ (m -- g) = Frac(r, s)
  BY <1>1, <1>2, <1>3, <1>5, FracSums
<1>7. p * s = r * q
  BY <1>4
<1> HIDE DEF p, q, r, s
<1> QED
  BY <1>5, <1>6, <1>7, SameValue

-----------------------------------------------------------------------------
(* Which fractions are larger. *)

LEMMA AtMostIs ==
    ASSUME NEW n \in Int, NEW d \in Pos, NEW m \in Int, NEW e \in Pos
    PROVE  AtMost(Frac(n, d), Frac(m, e)) <=> n * e <= m * d
<1>1. n * e \in Int /\ m * d \in Int
  BY Positivity
<1> QED
  BY <1>1, FracExceeds DEF AtMost

LEMMA AtMostSelf ==
    ASSUME NEW x, Rational(x)
    PROVE  AtMost(x, x)
<1>1. PICK n \in Int, d \in Pos : x = Frac(n, d)
  BY DEF Rational
<1>2. n * d <= n * d
  BY Positivity
<1> QED
  BY <1>1, <1>2, AtMostIs

LEMMA ProductGrows ==
    ASSUME NEW a \in Nat, NEW b \in Nat, NEW c \in Nat, NEW d \in Nat, a <= b, c <= d
    PROVE  a * c <= b * d
<1>1. a * c <= b * c
  <2>1. (b - a) * c >= 0
    OBVIOUS
  <2>2. (b - a) * c = (b * c) - (a * c)
    OBVIOUS
  <2> QED
    BY <2>1, <2>2
<1>2. b * c <= b * d
  <2>1. b * (d - c) >= 0
    OBVIOUS
  <2>2. b * (d - c) = (b * d) - (b * c)
    OBVIOUS
  <2> QED
    BY <2>1, <2>2
<1>3. a * c \in Nat /\ b * c \in Nat /\ b * d \in Nat
  OBVIOUS
<1> QED
  BY <1>1, <1>2, <1>3

LEMMA TimesGrows ==
    ASSUME NEW x, NEW y, NEW u, NEW v, NonNegative(x), NonNegative(y), NonNegative(u), NonNegative(v),
           AtMost(x, y), AtMost(u, v)
    PROVE  AtMost(x ** u, y ** v)
<1>1. PICK a \in Nat, b \in Pos : x = Frac(a, b)
  BY PositiveIs
<1>2. PICK c \in Nat, d \in Pos : y = Frac(c, d)
  BY PositiveIs
<1>3. PICK e \in Nat, f \in Pos : u = Frac(e, f)
  BY PositiveIs
<1>4. PICK g \in Nat, h \in Pos : v = Frac(g, h)
  BY PositiveIs
<1>5. b \in Nat /\ d \in Nat /\ f \in Nat /\ h \in Nat
  BY Positivity
<1>6. a * d <= c * b /\ e * h <= g * f
  <2>1. a \in Int /\ c \in Int /\ e \in Int /\ g \in Int
    OBVIOUS
  <2> QED
    BY <1>1, <1>2, <1>3, <1>4, <2>1, AtMostIs
<1>7. (a * d) * (e * h) <= (c * b) * (g * f)
  <2>1. a * d \in Nat /\ e * h \in Nat /\ c * b \in Nat /\ g * f \in Nat
    BY <1>5
  <2> QED
    BY <1>6, <2>1, ProductGrows
<1>8. (a * d) * (e * h) = (a * e) * (d * h) /\ (c * b) * (g * f) = (c * g) * (b * f)
  BY <1>5
<1>9. a * e \in Int /\ c * g \in Int /\ b * f \in Pos /\ d * h \in Pos
  BY TimesPos
<1>10. x ** u = Frac(a * e, b * f) /\ y ** v = Frac(c * g, d * h)
  <2>1. a \in Int /\ c \in Int /\ e \in Int /\ g \in Int
    OBVIOUS
  <2> QED
    BY <1>1, <1>2, <1>3, <1>4, <2>1, FracTimes
<1>11. (a * e) * (d * h) <= (c * g) * (b * f)
  BY <1>7, <1>8
<1> QED
  BY <1>9, <1>10, <1>11, AtMostIs

LEMMA OverGrows ==
    ASSUME NEW x, NEW y, NEW u, NEW v, NonNegative(x), NonNegative(y), Positive(u), Positive(v),
           AtMost(x, y), AtMost(v, u)
    PROVE  AtMost(x // u, y // v)
<1>1. PICK a \in Nat, b \in Pos : x = Frac(a, b)
  BY PositiveIs
<1>2. PICK c \in Nat, d \in Pos : y = Frac(c, d)
  BY PositiveIs
<1>3. PICK e \in Pos, f \in Pos : u = Frac(e, f)
  BY PositiveIs
<1>4. PICK g \in Pos, h \in Pos : v = Frac(g, h)
  BY PositiveIs
<1>5. b \in Nat /\ d \in Nat /\ e \in Nat /\ f \in Nat /\ g \in Nat /\ h \in Nat
  BY Positivity
<1>6. a * d <= c * b /\ g * f <= e * h
  <2>1. a \in Int /\ c \in Int /\ e \in Int /\ g \in Int
    BY <1>5
  <2> QED
    BY <1>1, <1>2, <1>3, <1>4, <2>1, AtMostIs
<1>7. (a * d) * (g * f) <= (c * b) * (e * h)
  <2>1. a * d \in Nat /\ g * f \in Nat /\ c * b \in Nat /\ e * h \in Nat
    BY <1>5
  <2> QED
    BY <1>6, <2>1, ProductGrows
<1>8. (a * d) * (g * f) = (a * f) * (d * g) /\ (c * b) * (e * h) = (c * h) * (b * e)
  BY <1>5
<1>9. a * f \in Int /\ c * h \in Int /\ b * e \in Pos /\ d * g \in Pos
  BY <1>5, TimesPos
<1>10. x // u = Frac(a * f, b * e) /\ y // v = Frac(c * h, d * g)
  BY <1>1, <1>2, <1>3, <1>4, FracOver
<1>11. (a * f) * (d * g) <= (c * h) * (b * e)
  BY <1>7, <1>8
<1> QED
  BY <1>9, <1>10, <1>11, AtMostIs

\* Multiplying by a positive number keeps the order.
LEMMA TimesKeeps ==
    ASSUME NEW x, NEW y, NEW k, Rational(x), Rational(y), Positive(k)
    PROVE  (x \succ y) <=> ((x ** k) \succ (y ** k))
<1>1. PICK a \in Int, b \in Pos : x = Frac(a, b)
  BY DEF Rational
<1>2. PICK c \in Int, d \in Pos : y = Frac(c, d)
  BY DEF Rational
<1>3. PICK e \in Pos, f \in Pos : k = Frac(e, f)
  BY PositiveIs
<1>4. /\ e \in Int /\ a * e \in Int /\ c * e \in Int /\ b * f \in Pos /\ d * f \in Pos
      /\ a * d \in Int /\ c * b \in Int /\ e * f \in Pos
  BY Positivity, TimesPos
<1>5. x ** k = Frac(a * e, b * f) /\ y ** k = Frac(c * e, d * f)
  BY <1>1, <1>2, <1>3, <1>4, FracTimes
<1>6. (x \succ y) <=> a * d > c * b
  BY <1>1, <1>2, FracExceeds
<1>7. ((x ** k) \succ (y ** k)) <=> (a * e) * (d * f) > (c * e) * (b * f)
  BY <1>4, <1>5, FracExceeds
<1>8. (a * e) * (d * f) = (a * d) * (e * f) /\ (c * e) * (b * f) = (c * b) * (e * f)
  BY Positivity
<1>9. \A p, q \in Int, r \in Pos : p > q <=> p * r > q * r
  <2> SUFFICES ASSUME NEW p \in Int, NEW q \in Int, NEW r \in Pos PROVE p > q <=> p * r > q * r
    OBVIOUS
  <2>1. (p - q) * r = (p * r) - (q * r) /\ r > 0 /\ r \in Int /\ p * r \in Int /\ q * r \in Int
    BY Positivity
  <2>2. p - q > 0 <=> (p - q) * r > 0
    BY <2>1
  <2> QED
    BY <2>1, <2>2
<1> QED
  BY <1>4, <1>6, <1>7, <1>8, <1>9

\* What costs of a share f leave of one, and put on it.
Share(f) == NonNegative(f) /\ One \succ f

LEMMA Shares ==
    ASSUME NEW f, Share(f)
    PROVE  Positive(One -- f) /\ Positive(One ++ f) /\ Rational(f)
<1>1. PICK n \in Nat, d \in Pos : f = Frac(n, d)
  BY PositiveIs DEF Share
<1>2. n \in Int /\ d \in Int /\ d > 0
  BY Positivity
<1>3. One -- f = Frac((1 * d) - (n * 1), 1 * d) /\ One ++ f = Frac((1 * d) + (n * 1), 1 * d)
  BY <1>1, <1>2, Units, FracSums
<1>4. 1 * d > n * 1
  <2>1. Frac(1, 1) \succ Frac(n, d)
    BY <1>1, Units DEF Share
  <2> QED
    BY <1>2, <2>1, Units, FracExceeds
<1>5. (1 * d) - (n * 1) \in Pos /\ (1 * d) + (n * 1) \in Pos /\ 1 * d \in Pos
  BY <1>2, <1>4 DEF Pos
<1>6. Rational(f)
  BY PositiveIs DEF Share
<1> QED
  BY <1>3, <1>5, <1>6, PositiveIs

LEMMA SharesGrow ==
    ASSUME NEW f, NEW g, Rational(f), Rational(g), AtMost(f, g)
    PROVE  AtMost(One -- g, One -- f) /\ AtMost(One ++ f, One ++ g)
<1>1. PICK a \in Int, b \in Pos : f = Frac(a, b)
  BY DEF Rational
<1>2. PICK c \in Int, d \in Pos : g = Frac(c, d)
  BY DEF Rational
<1>3. b \in Int /\ d \in Int /\ 1 * b = b /\ 1 * d = d /\ a * 1 = a /\ c * 1 = c
  BY Positivity
<1>4. /\ One -- f = Frac(b - a, b) /\ One ++ f = Frac(b + a, b)
      /\ One -- g = Frac(d - c, d) /\ One ++ g = Frac(d + c, d)
  <2>1. /\ One -- f = Frac((1 * b) - (a * 1), 1 * b) /\ One ++ f = Frac((1 * b) + (a * 1), 1 * b)
        /\ One -- g = Frac((1 * d) - (c * 1), 1 * d) /\ One ++ g = Frac((1 * d) + (c * 1), 1 * d)
    BY <1>1, <1>2, Units, FracSums
  <2> QED
    BY <1>3, <2>1
<1>5. a * d <= c * b
  BY <1>1, <1>2, AtMostIs
<1>6. /\ (d - c) * b <= (b - a) * d /\ (b + a) * d <= (d + c) * b
      /\ d - c \in Int /\ b - a \in Int /\ b + a \in Int /\ d + c \in Int
  <2>1. (d - c) * b = (d * b) - (c * b) /\ (b - a) * d = (d * b) - (a * d)
    BY <1>3
  <2>2. (b + a) * d = (d * b) + (a * d) /\ (d + c) * b = (d * b) + (c * b)
    BY <1>3
  <2>3. d * b \in Int /\ c * b \in Int /\ a * d \in Int
    BY <1>3
  <2> QED
    BY <1>3, <1>5, <2>1, <2>2, <2>3
<1> QED
  BY <1>4, <1>6, AtMostIs

-----------------------------------------------------------------------------
(* A trade: b of cash is spent at the open o and sold at the open p, with the *)
(* fee f and the execution cost e.                                           *)

Bought(b, f, e, o) == (b -- (b ** f)) // (o ** (One ++ e))
Gross(q, e, p)     == q ** (p ** (One -- e))
Sold(q, f, e, p)   == Gross(q, e, p) -- (Gross(q, e, p) ** f)
Earned(b, f, e, o, p) == Sold(Bought(b, f, e, o), f, e, p)

LEMMA LessFee ==
    ASSUME NEW x, NEW f, Rational(x), Rational(f)
    PROVE  x -- (x ** f) = x ** (One -- f)
<1>1. Rational(One) /\ x ** One = x
  BY UnitLaws
<1> QED
  BY <1>1, Distributes

LEMMA TradeAbove ==
    ASSUME NEW b, NEW f, NEW e, NEW o, NEW p, Positive(b), Share(f), Share(e), Positive(o), Positive(p)
    PROVE  /\ Positive(Bought(b, f, e, o))
           /\ Bought(b, f, e, o) = (b ** (One -- f)) // (o ** (One ++ e))
           /\ Positive(Gross(Bought(b, f, e, o), e, p))
           /\ Positive(Earned(b, f, e, o, p))
           /\ Earned(b, f, e, o, p) = Gross(Bought(b, f, e, o), e, p) ** (One -- f)
<1> DEFINE q == Bought(b, f, e, o)
           g == Gross(q, e, p)
<1>1. /\ Positive(One -- f) /\ Rational(f) /\ Positive(One -- e) /\ Positive(One ++ e)
      /\ Rational(b)
  BY Shares, PositiveIs
<1>2. q = (b ** (One -- f)) // (o ** (One ++ e))
  BY <1>1, LessFee DEF Bought
<1>3. Positive(q)
  <2>1. Positive(b ** (One -- f)) /\ Positive(o ** (One ++ e))
    BY <1>1, StayPositive
  <2> HIDE DEF q
  <2> QED
    BY <1>2, <2>1, StayPositive
<1> HIDE DEF q
<1>4. Positive(g)
  <2>1. Positive(p ** (One -- e))
    BY <1>1, StayPositive
  <2> QED
    BY <1>3, <2>1, StayPositive DEF Gross
<1>5. Rational(g)
  BY <1>4, PositiveIs
<1> HIDE DEF g
<1>6. g -- (g ** f) = g ** (One -- f) /\ Positive(g ** (One -- f))
  BY <1>1, <1>4, <1>5, LessFee, StayPositive
<1> QED
  BY <1>2, <1>3, <1>4, <1>6 DEF Earned, Sold, q, g

\* What the report checks of an entry and of an exit.
LEMMA EntryBalances ==
    ASSUME NEW b, NEW f, NEW e, NEW o, Positive(b), Share(f), Share(e), Positive(o)
    PROVE  LET q == Bought(b, f, e, o)
           IN b -- (q ** o) = (b ** f) ++ (q ** ((o ** (One ++ e)) -- o))
<1> DEFINE q == Bought(b, f, e, o)
           x == o ** (One ++ e)
           c == b ** f
<1>1. Positive(q) /\ Rational(q)
  BY TradeAbove, PositiveIs
<1>2. Rational(f) /\ Positive(One ++ e) /\ Rational(b) /\ Rational(o)
  BY Shares, PositiveIs
<1>3. Positive(x) /\ Rational(x) /\ Rational(c)
  BY <1>2, StayPositive, PositiveIs, StayRational
<1>4. q = (b -- c) // x
  BY DEF Bought
<1> HIDE DEF q, x, c
<1>5. Rational(b -- c)
  BY <1>2, <1>3, StayRational
<1>6. q ** x = b -- c
  BY <1>3, <1>4, <1>5, OverTimes
<1>7. q ** (x -- o) = (b -- c) -- (q ** o)
  BY <1>1, <1>2, <1>3, <1>6, Distributes
<1>8. Rational(q ** o)
  BY <1>1, <1>2, StayRational
<1>9. c ++ ((b -- c) -- (q ** o)) = b -- (q ** o)
  BY <1>2, <1>3, <1>8, TakenTwice
<1> QED
  BY <1>7, <1>9 DEF q, x, c

LEMMA ExitBalances ==
    ASSUME NEW q, NEW f, NEW e, NEW p, Positive(q), Share(f), Share(e), Positive(p)
    PROVE  (q ** p) -- Sold(q, f, e, p) = (Gross(q, e, p) ** f) ++ (q ** (p -- (p ** (One -- e))))
<1> DEFINE y == p ** (One -- e)
           g == q ** y
           c == g ** f
<1>1. Rational(f) /\ Positive(One -- e) /\ Rational(q) /\ Rational(p)
  BY Shares, PositiveIs
<1>2. Rational(y) /\ Rational(One -- e)
  BY <1>1, PositiveIs, StayRational
<1> HIDE DEF y
<1>3. Rational(g) /\ Rational(q ** p)
  BY <1>1, <1>2, StayRational
<1>4. q ** (p -- y) = (q ** p) -- g
  BY <1>1, <1>2, Distributes
<1> HIDE DEF g
<1>5. Rational(c)
  BY <1>1, <1>3, StayRational
<1> HIDE DEF c
<1>6. (q ** p) -- (g -- c) = c ++ ((q ** p) -- g)
  BY <1>3, <1>5, TakenFromLess
<1> QED
  BY <1>4, <1>6 DEF Sold, Gross, y, g, c

\* A dearer trade with less cash earns no more.
LEMMA DearerEarnsLess ==
    ASSUME NEW b, NEW f, NEW e, NEW o, NEW p, NEW c, NEW g, NEW h,
           Positive(b), Share(f), Share(e), Positive(o), Positive(p),
           Positive(c), Share(g), Share(h),
           AtMost(c, b), AtMost(f, g), AtMost(e, h)
    PROVE  AtMost(Earned(c, g, h, o, p), Earned(b, f, e, o, p))
<1> DEFINE q == Bought(b, f, e, o)
           r == Bought(c, g, h, o)
<1>0. \A x : Positive(x) => NonNegative(x) /\ Rational(x)
  BY PositiveIs
<1>1. /\ Positive(One -- f) /\ Positive(One -- e) /\ Positive(One ++ e)
      /\ Positive(One -- g) /\ Positive(One -- h) /\ Positive(One ++ h)
      /\ Rational(f) /\ Rational(e) /\ Rational(g) /\ Rational(h)
  BY Shares
<1>2. AtMost(One -- g, One -- f) /\ AtMost(One -- h, One -- e) /\ AtMost(One ++ e, One ++ h)
  BY <1>1, SharesGrow
<1>3. AtMost(o, o) /\ AtMost(p, p)
  BY <1>0, AtMostSelf
<1>4. /\ Positive(q) /\ q = (b ** (One -- f)) // (o ** (One ++ e))
      /\ Positive(Gross(q, e, p)) /\ Earned(b, f, e, o, p) = Gross(q, e, p) ** (One -- f)
  BY TradeAbove
<1>5. /\ Positive(r) /\ r = (c ** (One -- g)) // (o ** (One ++ h))
      /\ Positive(Gross(r, h, p)) /\ Earned(c, g, h, o, p) = Gross(r, h, p) ** (One -- g)
  BY TradeAbove
<1> HIDE DEF q, r
<1>6. AtMost(c ** (One -- g), b ** (One -- f)) /\ AtMost(o ** (One ++ e), o ** (One ++ h))
  BY <1>0, <1>1, <1>2, <1>3, TimesGrows
<1>7. /\ Positive(c ** (One -- g)) /\ Positive(b ** (One -- f))
      /\ Positive(o ** (One ++ e)) /\ Positive(o ** (One ++ h))
      /\ Positive(p ** (One -- e)) /\ Positive(p ** (One -- h))
  BY <1>1, StayPositive
<1>8. AtMost(r, q)
  BY <1>0, <1>4, <1>5, <1>6, <1>7, OverGrows
<1>9. AtMost(p ** (One -- h), p ** (One -- e))
  BY <1>0, <1>1, <1>2, <1>3, TimesGrows
<1>10. AtMost(Gross(r, h, p), Gross(q, e, p))
  BY <1>0, <1>4, <1>5, <1>7, <1>8, <1>9, TimesGrows DEF Gross
<1> QED
  BY <1>0, <1>1, <1>2, <1>4, <1>5, <1>10, TimesGrows

\* What is left of a market return after the costs of a trade.
KeptOf(f, e) == ((One -- f) ** (One -- f)) ** ((One -- e) // (One ++ e))

\* x is n over d, both positive.
Is(x, n, d) == n \in Pos /\ d \in Pos /\ x = Frac(n, d)

LEMMA IsTimes ==
    ASSUME NEW x, NEW n, NEW d, Is(x, n, d), NEW y, NEW m, NEW e, Is(y, m, e)
    PROVE  Is(x ** y, n * m, d * e)
<1>1. /\ n \in Pos /\ d \in Pos /\ x = Frac(n, d) /\ m \in Pos /\ e \in Pos /\ y = Frac(m, e)
      /\ n \in Int /\ m \in Int /\ n * m \in Pos /\ d * e \in Pos
  BY Positivity, TimesPos DEF Is
<1>2. x ** y = Frac(n * m, d * e)
  BY <1>1, FracTimes
<1> QED
  BY <1>1, <1>2 DEF Is

LEMMA IsOver ==
    ASSUME NEW x, NEW n, NEW d, Is(x, n, d), NEW y, NEW m, NEW e, Is(y, m, e)
    PROVE  Is(x // y, n * e, d * m)
BY Positivity, TimesPos, FracOver DEF Is

LEMMA Outcome ==
    ASSUME NEW b, NEW f, NEW e, NEW o, NEW p, Positive(b), Share(f), Share(e), Positive(o), Positive(p)
    PROVE  /\ Earned(b, f, e, o, p) // b = (p // o) ** KeptOf(f, e)
           /\ Positive(KeptOf(f, e))
<1> DEFINE k == One -- f
           u == One ++ e
           v == One -- e
<1>1. Positive(k) /\ Positive(u) /\ Positive(v)
  BY Shares
<1>2. Earned(b, f, e, o, p) = (((b ** k) // (o ** u)) ** (p ** v)) ** k
  BY TradeAbove DEF Gross
<1>3. KeptOf(f, e) = (k ** k) ** (v // u)
  BY DEF KeptOf
<1> HIDE DEF k, u, v
<1>4. Positive(KeptOf(f, e))
  BY <1>1, <1>3, StayPositive
<1>5. \A x : Positive(x) => \E n, d : Is(x, n, d)
  BY PositiveIs DEF Is
<1>6. PICK b1, b2 : Is(b, b1, b2)
  BY <1>5
<1>7. PICK o1, o2 : Is(o, o1, o2)
  BY <1>5
<1>8. PICK p1, p2 : Is(p, p1, p2)
  BY <1>5
<1>9. PICK k1, k2 : Is(k, k1, k2)
  BY <1>1, <1>5
<1>10. PICK u1, u2 : Is(u, u1, u2)
  BY <1>1, <1>5
<1>11. PICK v1, v2 : Is(v, v1, v2)
  BY <1>1, <1>5
<1> DEFINE a == ((((b1 * k1) * (o2 * u2)) * (p1 * v1)) * k1) * b2
           c == ((((b2 * k2) * (o1 * u1)) * (p2 * v2)) * k2) * b1
           m == (p1 * o2) * ((k1 * k1) * (v1 * u2))
           d == (p2 * o1) * ((k2 * k2) * (v2 * u1))
<1>12. Is(Earned(b, f, e, o, p) // b, a, c)
  <2>1. Is(b ** k, b1 * k1, b2 * k2) /\ Is(o ** u, o1 * u1, o2 * u2) /\ Is(p ** v, p1 * v1, p2 * v2)
    BY <1>6, <1>7, <1>8, <1>9, <1>10, <1>11, IsTimes
  <2>2. Is((b ** k) // (o ** u), (b1 * k1) * (o2 * u2), (b2 * k2) * (o1 * u1))
    BY <2>1, IsOver
  <2>3. Is(((b ** k) // (o ** u)) ** (p ** v), ((b1 * k1) * (o2 * u2)) * (p1 * v1),
                                              ((b2 * k2) * (o1 * u1)) * (p2 * v2))
    BY <2>1, <2>2, IsTimes
  <2>4. Is(Earned(b, f, e, o, p), (((b1 * k1) * (o2 * u2)) * (p1 * v1)) * k1,
                                  (((b2 * k2) * (o1 * u1)) * (p2 * v2)) * k2)
    BY <1>2, <1>9, <2>3, IsTimes
  <2> QED
    BY <1>6, <2>4, IsOver
<1>13. Is((p // o) ** KeptOf(f, e), m, d)
  <2>1. Is(k ** k, k1 * k1, k2 * k2) /\ Is(v // u, v1 * u2, v2 * u1) /\ Is(p // o, p1 * o2, p2 * o1)
    BY <1>7, <1>8, <1>9, <1>10, <1>11, IsTimes, IsOver
  <2>2. Is(KeptOf(f, e), (k1 * k1) * (v1 * u2), (k2 * k2) * (v2 * u1))
    BY <1>3, <2>1, IsTimes
  <2> QED
    BY <2>1, <2>2, IsTimes
<1>14. a * d = m * c
  BY <1>6, <1>7, <1>8, <1>9, <1>10, <1>11, Positivity DEF Is
<1> HIDE DEF a, c, m, d
<1> QED
  BY <1>4, <1>12, <1>13, <1>14, Positivity, SameValue DEF Is

-----------------------------------------------------------------------------
(* The backtests. *)

LEMMA SameInTrading ==
    \A S : /\ Trading!Cardinality(S) = Cardinality(S)
          /\ Trading!IsFiniteSet(S) = IsFiniteSet(S)
          /\ Trading!Max(S) = Max(S)
          /\ Trading!Min(S) = Min(S)
BY Zenon DEF Trading!Cardinality, Cardinality, Trading!IsFiniteSet, IsFiniteSet,
             Trading!Max, Max, Trading!Min, Min

BookFields  == {"cash", "quantity", "pending", "exit", "trade", "ledger"}
TradeFields == {"signal", "entry", "exit", "quantity", "before", "entryFee", "exitFee", "after"}

\* The bars a trade answers for: from its decision to its exit.
Holds(t, d) == d = t.signal \/ d \in t.entry..(t.exit - 1)

Answered(ledger, d) == \E j \in DOMAIN ledger : Holds(ledger[j], d)

\* The last exit of a ledger, and the decisions before bar n that fit the window.
EndsBy(ledger, n)  == \A j \in DOMAIN ledger : ledger[j].exit <= n
Covered(ledger, n) ==
    \A d \in positive : d < n /\ d + Horizon + 1 <= Trading!WindowEnd => Answered(ledger, d)

\* Trades of one length, one after the other.
Spanning(t) == t.signal \in Nat /\ t.entry = t.signal + 1 /\ t.exit = t.signal + Horizon + 1

Disjoint(ledger) ==
    /\ \E S : ledger \in Seq(S)
    /\ \A j \in DOMAIN ledger : Spanning(ledger[j])
    /\ \A i, j \in DOMAIN ledger : i < j => ledger[i].exit <= ledger[j].signal

\* What a book may be: nothing held, an order for bar p, or a trade since the
\* decision of bar s.
FreeAt(b, last, n) ==
    /\ b.pending = None /\ b.exit = None /\ b.trade = Trading!NoTrade
    /\ EndsBy(b.ledger, last) /\ Covered(b.ledger, n)

OrderedAt(b, p) ==
    /\ b.pending = p /\ b.exit = p + Horizon /\ b.trade = Trading!NoTrade
    /\ p >= 1
    /\ EndsBy(b.ledger, p - 1) /\ Covered(b.ledger, p - 1)

OpenAt(b, s) ==
    /\ b.pending = None /\ b.exit = s + Horizon + 1
    /\ DOMAIN b.trade = TradeFields
    /\ b.trade.signal = s /\ b.trade.entry = s + 1
    /\ EndsBy(b.ledger, s) /\ Covered(b.ledger, s)

Book(b) == DOMAIN b = BookFields /\ Disjoint(b.ledger)

BookInv(b, p) ==
    /\ Book(b)
    /\ \/ FreeAt(b, p - 1, p)
       \/ OrderedAt(b, p)
       \/ \E s \in Nat : OpenAt(b, s) /\ s + 1 < p /\ p <= s + Horizon + 1

PathInv(path) ==
    /\ Disjoint(path.ledger)
    /\ \A d \in positive \cap Trading!Exitable : Answered(path.ledger, d)

TradingInv ==
    /\ market \in Markets /\ decisions \subseteq Trading!Bars /\ positive \subseteq decisions
    /\ position \in Nat
    /\ \E n \in Nat : Trading!Bars = 0..(n - 1) /\ position <= n
    /\ BookInv(book, position)
    /\ \E S : paths \in Seq(S)
    /\ \A i \in DOMAIN paths : PathInv(paths[i])

-----------------------------------------------------------------------------
LEMMA MarketBars ==
    ASSUME Trading!BacktestAssumption, market \in Markets
    PROVE  \E n \in Nat : Trading!Bars = 0..(n - 1)
<1>1. /\ IsFiniteSet(Trading!Bars)
      /\ Trading!Bars = 0..(Cardinality(Trading!Bars) - 1)
  BY SameInTrading DEF Trading!BacktestAssumption, Trading!Bars
<1>2. Cardinality(Trading!Bars) \in Nat
  BY <1>1, FS_CardinalityType
<1> QED
  BY <1>1, <1>2

\* The window ends with the last trade that can be left.
LEMMA WindowEnds ==
    ASSUME Trading!BacktestAssumption, market \in Markets, decisions \subseteq Trading!Bars
    PROVE  \A d \in Trading!Exitable : d + Horizon + 1 <= Trading!WindowEnd
<1> SUFFICES ASSUME NEW d \in Trading!Exitable
             PROVE  d + Horizon + 1 <= Trading!WindowEnd
  OBVIOUS
<1>1. PICK n \in Nat : Trading!Bars = 0..(n - 1)
  BY MarketBars
<1>2. Trading!Exitable \subseteq 0..n /\ Trading!Exitable # {}
  <2>1. decisions \subseteq 0..(n - 1) /\ 0..(n - 1) \subseteq 0..n
    BY <1>1
  <2>2. Trading!Exitable \subseteq decisions
    BY DEF Trading!Exitable
  <2> QED
    BY <2>1, <2>2
<1>3. /\ Max(Trading!Exitable) \in Trading!Exitable
      /\ Max(Trading!Exitable) >= d
  BY <1>2, Greatest
<1>4. /\ d \in Nat /\ Max(Trading!Exitable) \in Nat /\ Horizon \in Nat
      /\ Trading!WindowEnd = Max(Trading!Exitable) + Horizon + 1
  <2>1. d \in Nat /\ Max(Trading!Exitable) \in Nat
    <3>1. d \in 0..n /\ Max(Trading!Exitable) \in 0..n
      BY <1>2, <1>3
    <3> QED
      BY <3>1
  <2>2. Trading!WindowEnd = Max(Trading!Exitable) + Horizon + 1
    BY SameInTrading DEF Trading!WindowEnd
  <2> QED
    BY <2>1, <2>2 DEF Trading!BacktestAssumption
<1> QED
  <2> DEFINE m == Max(Trading!Exitable)
  <2>1. d \in Nat /\ m \in Nat /\ m >= d /\ Trading!WindowEnd = m + Horizon + 1 /\ Horizon \in Nat
    BY <1>3, <1>4
  <2> HIDE DEF m
  <2> QED
    BY <2>1

\* A trade after those of a ledger.
LEMMA LedgerGrows ==
    ASSUME NEW ledger, Disjoint(ledger), NEW t, Spanning(t), EndsBy(ledger, t.signal),
           Horizon \in Nat
    PROVE  /\ Disjoint(Append(ledger, t))
           /\ EndsBy(Append(ledger, t), t.exit)
           /\ \A d : Answered(ledger, d) \/ Holds(t, d) => Answered(Append(ledger, t), d)
<1> DEFINE more == Append(ledger, t)
           n == Len(ledger)
<1>1. PICK S : ledger \in Seq(S)
  BY DEF Disjoint
<1>2. n \in Nat /\ DOMAIN ledger = 1..n
  BY <1>1
<1>3. /\ more \in Seq(S \cup {t}) /\ DOMAIN more = 1..(n + 1) /\ more[n + 1] = t
      /\ \A j \in 1..n : more[j] = ledger[j]
  <2>1. ledger \in Seq(S \cup {t}) /\ t \in S \cup {t}
    BY <1>1
  <2> QED
    BY <2>1
<1> HIDE DEF more, n
<1>4. \A j \in DOMAIN more : j = n + 1 \/ j \in 1..n
  BY <1>2, <1>3
<1>5. \A j \in DOMAIN more : Spanning(more[j])
  BY <1>2, <1>3, <1>4 DEF Disjoint
<1>6. ASSUME NEW i \in DOMAIN more, NEW j \in DOMAIN more, i < j
      PROVE  more[i].exit <= more[j].signal
  <2>1. i \in 1..n /\ i \in DOMAIN ledger
    BY <1>2, <1>3, <1>6
  <2>2. CASE j \in 1..n
    BY <1>2, <1>3, <1>6, <2>1, <2>2 DEF Disjoint
  <2>3. CASE j = n + 1
    BY <1>2, <1>3, <2>1, <2>3 DEF EndsBy
  <2> QED
    BY <1>4, <2>2, <2>3
<1>7. EndsBy(more, t.exit)
  <2> SUFFICES ASSUME NEW j \in DOMAIN more PROVE more[j].exit <= t.exit
    BY DEF EndsBy
  <2>1. t.signal \in Nat /\ t.exit = t.signal + Horizon + 1
    BY DEF Spanning
  <2>2. CASE j \in 1..n
    <3>1. more[j].exit <= t.signal /\ Spanning(more[j])
      BY <1>2, <1>3, <1>5, <2>2 DEF EndsBy
    <3> QED
      BY <2>1, <3>1 DEF Spanning
  <2>3. CASE j = n + 1
    BY <1>3, <2>1, <2>3
  <2> QED
    BY <1>4, <2>2, <2>3
<1>8. ASSUME NEW d, Answered(ledger, d) \/ Holds(t, d) PROVE Answered(more, d)
  <2>1. CASE Holds(t, d)
    <3>1. n + 1 \in DOMAIN more
      BY <1>2, <1>3
    <3> QED
      BY <1>3, <2>1, <3>1 DEF Answered
  <2>2. CASE Answered(ledger, d)
    <3>1. PICK j \in DOMAIN ledger : Holds(ledger[j], d)
      BY <2>2 DEF Answered
    <3>2. j \in DOMAIN more /\ more[j] = ledger[j]
      BY <1>2, <1>3, <3>1
    <3> QED
      BY <3>1, <3>2 DEF Answered
  <2> QED
    BY <1>8, <2>1, <2>2
<1>9. Disjoint(more)
  BY <1>3, <1>5, <1>6 DEF Disjoint
<1> QED
  BY <1>7, <1>8, <1>9 DEF more

\* An exit ends the trade that is due, whose interval joins the ledger.
LEMMA ExitedInv ==
    ASSUME Trading!BacktestAssumption, positive \subseteq Nat, NEW b, NEW s, NEW p \in Nat,
           BookInv(b, p)
    PROVE  LET c == Trading!Exited(b, s, p)
           IN /\ Book(c)
              /\ \/ FreeAt(c, p, p)
                 \/ OrderedAt(c, p)
                 \/ \E o \in Nat : OpenAt(c, o) /\ o + 1 < p /\ p < o + Horizon + 1
<1> DEFINE c == Trading!Exited(b, s, p)
<1>0. Horizon \in Nat /\ Horizon > 0 /\ None \notin Nat /\ Book(b)
  BY DEF Trading!BacktestAssumption, BookInv
<1>1. CASE FreeAt(b, p - 1, p)
  <2>1. c = b
    BY <1>0, <1>1 DEF Trading!Exited, FreeAt
  <2>2. EndsBy(b.ledger, p)
    <3> SUFFICES ASSUME NEW j \in DOMAIN b.ledger PROVE b.ledger[j].exit <= p
      BY DEF EndsBy
    <3>1. b.ledger[j].exit <= p - 1 /\ Spanning(b.ledger[j])
      BY <1>0, <1>1 DEF FreeAt, EndsBy, Book, Disjoint
    <3> QED
      BY <1>0, <3>1 DEF Spanning
  <2> QED
    BY <1>0, <1>1, <2>1, <2>2 DEF FreeAt
<1>2. CASE OrderedAt(b, p)
  <2>1. b.exit # p
    BY <1>0, <1>2 DEF OrderedAt
  <2>2. c = b
    BY <2>1 DEF Trading!Exited
  <2> QED
    BY <1>0, <1>2, <2>2
<1>3. CASE \E o \in Nat : OpenAt(b, o) /\ o + 1 < p /\ p <= o + Horizon + 1
  <2>1. PICK o \in Nat : OpenAt(b, o) /\ o + 1 < p /\ p <= o + Horizon + 1
    BY <1>3
  <2>2. CASE b.exit # p
    <3>1. c = b
      BY <2>2 DEF Trading!Exited
    <3>2. p < o + Horizon + 1
      BY <1>0, <2>1, <2>2 DEF OpenAt
    <3> QED
      BY <1>0, <2>1, <3>1, <3>2
  <2>3. CASE b.exit = p
    <3>1. p = o + Horizon + 1
      BY <2>1, <2>3 DEF OpenAt
    <3>2. \E t : /\ DOMAIN c = BookFields
                 /\ c.pending = b.pending /\ c.exit = None /\ c.trade = Trading!NoTrade
                 /\ c.ledger = Append(b.ledger, t)
                 /\ t.signal = b.trade.signal /\ t.entry = b.trade.entry /\ t.exit = p
      <4> DEFINE gross == Trading!**(b.quantity, Trading!SellAt(s, p))
                 fee == Trading!**(gross, Trading!Fee(s))
                 after == Trading!--(gross, fee)
                 t == [b.trade EXCEPT !.exitFee = fee, !.exit = p, !.after = after]
      <4>1. c = [b EXCEPT !.cash = after, !.quantity = Trading!Zero, !.exit = None,
                          !.trade = Trading!NoTrade, !.ledger = Append(@, t)]
        BY <2>3 DEF Trading!Exited
      <4>2. t.signal = b.trade.signal /\ t.entry = b.trade.entry /\ t.exit = p
        BY <2>1 DEF OpenAt, TradeFields
      <4> HIDE DEF t, after, c
      <4>3. /\ DOMAIN c = BookFields
            /\ c.pending = b.pending /\ c.exit = None /\ c.trade = Trading!NoTrade
            /\ c.ledger = Append(b.ledger, t)
        BY <1>0, <4>1 DEF Book, BookFields
      <4> QED
        BY <4>2, <4>3
    <3>3. PICK t : /\ DOMAIN c = BookFields
                   /\ c.pending = b.pending /\ c.exit = None /\ c.trade = Trading!NoTrade
                   /\ c.ledger = Append(b.ledger, t)
                   /\ t.signal = b.trade.signal /\ t.entry = b.trade.entry /\ t.exit = p
      BY <3>2
    <3> HIDE DEF c
    <3>4. t.signal = o /\ Spanning(t) /\ EndsBy(b.ledger, t.signal)
      BY <2>1, <3>1, <3>3 DEF OpenAt, Spanning
    <3>5. /\ Disjoint(c.ledger) /\ EndsBy(c.ledger, p)
          /\ \A d : Answered(b.ledger, d) \/ Holds(t, d) => Answered(c.ledger, d)
      BY <1>0, <3>3, <3>4, LedgerGrows DEF Book
    <3>6. Covered(c.ledger, p)
      <4> SUFFICES ASSUME NEW d \in positive, d < p, d + Horizon + 1 <= Trading!WindowEnd
                   PROVE  Answered(c.ledger, d)
        BY DEF Covered
      <4>0. d \in Nat
        OBVIOUS
      <4>1. CASE d < o
        BY <2>1, <3>5, <4>1 DEF OpenAt, Covered
      <4>2. CASE ~(d < o)
        <5>1. d = o \/ d \in (o + 1)..(p - 1)
          BY <4>0, <4>2
        <5>2. Holds(t, d)
          BY <3>3, <3>4, <5>1 DEF Holds, Spanning
        <5> QED
          BY <3>5, <5>2
      <4> QED
        BY <4>1, <4>2
    <3>7. FreeAt(c, p, p)
      BY <2>1, <3>3, <3>5, <3>6 DEF FreeAt, OpenAt
    <3> QED
      BY <3>3, <3>5, <3>7 DEF Book, c
  <2> QED
    BY <2>2, <2>3
<1> QED
  BY <1>1, <1>2, <1>3 DEF BookInv

\* An entry opens the trade that is ordered.
LEMMA EnteredInv ==
    ASSUME Trading!BacktestAssumption, NEW b, NEW s, NEW p \in Nat, Book(b),
           \/ FreeAt(b, p, p)
           \/ OrderedAt(b, p)
           \/ \E o \in Nat : OpenAt(b, o) /\ o + 1 < p /\ p < o + Horizon + 1
    PROVE  LET c == Trading!Entered(b, s, p)
           IN /\ Book(c)
              /\ \/ FreeAt(c, p, p)
                 \/ \E o \in Nat : OpenAt(c, o) /\ o + 1 <= p /\ p < o + Horizon + 1
<1> DEFINE c == Trading!Entered(b, s, p)
<1>0. Horizon \in Nat /\ Horizon > 0 /\ None \notin Nat
  BY DEF Trading!BacktestAssumption
<1>1. CASE FreeAt(b, p, p)
  <2>1. c = b
    BY <1>0, <1>1 DEF Trading!Entered, FreeAt
  <2> QED
    BY <1>1, <2>1
<1>2. CASE OrderedAt(b, p)
  <2>1. p - 1 \in Nat /\ b.pending = p
    BY <1>2 DEF OrderedAt
  <2>2. /\ DOMAIN c = BookFields
        /\ c.pending = None /\ c.exit = b.exit /\ c.ledger = b.ledger
        /\ DOMAIN c.trade = TradeFields
        /\ c.trade.signal = p - 1 /\ c.trade.entry = p
    <3> DEFINE fee == Trading!**(b.cash, Trading!Fee(s))
               quantity == Trading!//(Trading!--(b.cash, fee), Trading!BuyAt(s, p))
               t == [signal |-> p - 1, entry |-> p, exit |-> b.exit,
                     quantity |-> quantity, before |-> b.cash,
                     entryFee |-> fee, exitFee |-> Trading!Zero, after |-> Trading!Zero]
    <3>1. c = [b EXCEPT !.cash = Trading!Zero, !.quantity = quantity, !.pending = None,
                        !.trade = t]
      BY <2>1 DEF Trading!Entered
    <3>2. DOMAIN t = TradeFields /\ t.signal = p - 1 /\ t.entry = p
      BY DEF TradeFields
    <3> HIDE DEF t, quantity, c
    <3>3. /\ DOMAIN c = BookFields
          /\ c.pending = None /\ c.exit = b.exit /\ c.ledger = b.ledger /\ c.trade = t
      BY <3>1 DEF Book, BookFields
    <3> QED
      BY <3>2, <3>3
  <2> HIDE DEF c
  <2> DEFINE o == p - 1
  <2>3. o \in Nat /\ o + 1 = p /\ p + Horizon = o + Horizon + 1 /\ p < o + Horizon + 1
    BY <1>0, <2>1
  <2>4. /\ b.exit = p + Horizon /\ EndsBy(b.ledger, o) /\ Covered(b.ledger, o)
    BY <1>2 DEF OrderedAt
  <2>5. c.trade.signal = o
    BY <2>2
  <2> HIDE DEF o
  <2>6. OpenAt(c, o)
    BY <2>2, <2>3, <2>4, <2>5 DEF OpenAt
  <2>7. Book(c)
    BY <2>2 DEF Book
  <2>8. o + 1 <= p
    BY <2>3
  <2> QED
    BY <2>3, <2>6, <2>7, <2>8 DEF c
<1>3. CASE \E o \in Nat : OpenAt(b, o) /\ o + 1 < p /\ p < o + Horizon + 1
  <2>1. PICK o \in Nat : OpenAt(b, o) /\ o + 1 < p /\ p < o + Horizon + 1
    BY <1>3
  <2>2. c = b
    BY <1>0, <2>1 DEF Trading!Entered, OpenAt
  <2>3. o + 1 <= p
    BY <2>1
  <2> QED
    BY <2>1, <2>2, <2>3
<1> QED
  BY <1>1, <1>2, <1>3

\* A decision that finds a trade open is answered by it.
LEMMA DecidedInv ==
    ASSUME Trading!BacktestAssumption, positive \subseteq Nat, NEW b, NEW s, NEW p \in Nat, Book(b),
           \/ FreeAt(b, p, p)
           \/ \E o \in Nat : OpenAt(b, o) /\ o + 1 <= p /\ p < o + Horizon + 1
    PROVE  BookInv(Trading!Decided(b, s, p), p + 1)
<1> DEFINE c == Trading!Decided(b, s, p)
<1>0. Horizon \in Nat /\ Horizon > 0 /\ None \notin Nat
  BY DEF Trading!BacktestAssumption
<1>1. CASE FreeAt(b, p, p)
  <2>1. CASE p \in positive /\ p + Horizon + 1 <= Trading!WindowEnd
    <3>1. c = [b EXCEPT !.pending = p + 1, !.exit = p + Horizon + 1]
      BY <1>1, <2>1 DEF Trading!Decided, FreeAt
    <3> HIDE DEF c
    <3>2. /\ DOMAIN c = BookFields
          /\ c.pending = p + 1 /\ c.exit = p + Horizon + 1
          /\ c.trade = b.trade /\ c.ledger = b.ledger
      BY <3>1 DEF Book, BookFields
    <3>3. /\ p + Horizon + 1 = (p + 1) + Horizon /\ (p + 1) - 1 = p /\ p + 1 >= 1
      BY <1>0
    <3>4. OrderedAt(c, p + 1)
      BY <1>1, <3>2, <3>3 DEF OrderedAt, FreeAt
    <3>5. Book(c)
      BY <3>2 DEF Book
    <3> QED
      BY <3>4, <3>5 DEF BookInv, c
  <2>2. CASE ~(p \in positive /\ p + Horizon + 1 <= Trading!WindowEnd)
    <3>1. c = b
      BY <2>2 DEF Trading!Decided
    <3>2. Covered(b.ledger, p + 1)
      <4> SUFFICES ASSUME NEW d \in positive, d < p + 1, d + Horizon + 1 <= Trading!WindowEnd
                   PROVE  Answered(b.ledger, d)
        BY DEF Covered
      <4>1. d \in Nat /\ d # p
        BY <2>2
      <4>2. d < p
        BY <4>1
      <4> QED
        BY <1>1, <4>2 DEF FreeAt, Covered
    <3>3. (p + 1) - 1 = p
      OBVIOUS
    <3>4. FreeAt(b, (p + 1) - 1, p + 1)
      BY <1>1, <3>2, <3>3 DEF FreeAt
    <3> QED
      BY <3>1, <3>4 DEF BookInv
  <2> QED
    BY <2>1, <2>2
<1>2. CASE \E o \in Nat : OpenAt(b, o) /\ o + 1 <= p /\ p < o + Horizon + 1
  <2>1. PICK o \in Nat : OpenAt(b, o) /\ o + 1 <= p /\ p < o + Horizon + 1
    BY <1>2
  <2>2. b.trade # Trading!NoTrade
    <3>1. DOMAIN b.trade # {}
      BY <2>1 DEF OpenAt, TradeFields
    <3>2. DOMAIN Trading!NoTrade = {}
      BY DEF Trading!NoTrade
    <3> QED
      BY <3>1, <3>2
  <2>3. c = b
    BY <2>2 DEF Trading!Decided
  <2>4. o + 1 < p + 1 /\ p + 1 <= o + Horizon + 1
    BY <1>0, <2>1
  <2> QED
    BY <2>1, <2>3, <2>4 DEF BookInv
<1> QED
  BY <1>1, <1>2

LEMMA WalkedInv ==
    ASSUME Trading!BacktestAssumption, positive \subseteq Nat, NEW b, NEW s, NEW p \in Nat,
           BookInv(b, p)
    PROVE  BookInv(Trading!Walked(b, s, p), p + 1)
<1> DEFINE x == Trading!Exited(b, s, p)
           e == Trading!Entered(x, s, p)
<1>1. /\ Book(x)
      /\ \/ FreeAt(x, p, p)
         \/ OrderedAt(x, p)
         \/ \E o \in Nat : OpenAt(x, o) /\ o + 1 < p /\ p < o + Horizon + 1
  BY ExitedInv
<1> HIDE DEF x
<1>2. /\ Book(e)
      /\ \/ FreeAt(e, p, p)
         \/ \E o \in Nat : OpenAt(e, o) /\ o + 1 <= p /\ p < o + Horizon + 1
  BY <1>1, EnteredInv
<1> HIDE DEF e
<1>3. BookInv(Trading!Decided(e, s, p), p + 1)
  BY <1>2, DecidedInv
<1> QED
  BY <1>3 DEF Trading!Walked, Trading!Traded, x, e

-----------------------------------------------------------------------------
\* A book that has not begun.
LEMMA IdleInv ==
    ASSUME Trading!BacktestAssumption, positive \subseteq Nat
    PROVE  BookInv(Trading!Idle, 0)
<1>1. /\ DOMAIN Trading!Idle = BookFields
      /\ Trading!Idle.pending = None /\ Trading!Idle.exit = None
      /\ Trading!Idle.trade = Trading!NoTrade /\ Trading!Idle.ledger = <<>>
  BY DEF Trading!Idle, BookFields
<1>2. <<>> \in Seq({}) /\ DOMAIN <<>> = {}
  OBVIOUS
<1>3. Disjoint(<<>>) /\ EndsBy(<<>>, 0 - 1)
  BY <1>2 DEF Disjoint, EndsBy
<1>4. Covered(<<>>, 0)
  BY DEF Covered
<1>5. FreeAt(Trading!Idle, 0 - 1, 0)
  BY <1>1, <1>3, <1>4 DEF FreeAt
<1> QED
  BY <1>1, <1>3, <1>5 DEF BookInv, Book

LEMMA TradingInitInv ==
    ASSUME Trading!BacktestAssumption, Trading!Init
    PROVE  TradingInv
<1>1. /\ market \in Markets /\ decisions \subseteq Trading!Bars /\ positive \subseteq decisions
      /\ position = 0 /\ book = Trading!Idle /\ paths = <<>>
  BY DEF Trading!Init
<1>2. PICK n \in Nat : Trading!Bars = 0..(n - 1)
  BY <1>1, MarketBars
<1>3. positive \subseteq Nat
  BY <1>1, <1>2
<1>4. BookInv(book, position)
  BY <1>1, <1>3, IdleInv
<1>5. paths \in Seq({}) /\ DOMAIN paths = {}
  BY <1>1
<1> QED
  BY <1>1, <1>2, <1>4, <1>5 DEF TradingInv

\* A step that leaves the inputs, the book and the paths.
LEMMA TradingStands ==
    ASSUME TradingInv, UNCHANGED <<market, decisions, positive, position, book, paths>>
    PROVE  TradingInv'
<1>1. Trading!Bars' = Trading!Bars
  BY DEF Trading!Bars
<1>2. Trading!Exitable' = Trading!Exitable
  BY <1>1 DEF Trading!Exitable
<1>3. Trading!WindowEnd' = Trading!WindowEnd
  BY <1>2 DEF Trading!WindowEnd
<1>4. BookInv(book, position)'
  BY <1>3 DEF TradingInv, BookInv, Book, FreeAt, OrderedAt, OpenAt, Covered
<1>5. \A i \in DOMAIN paths' : PathInv(paths[i])'
  BY <1>2 DEF TradingInv, PathInv
<1> QED
  BY <1>1, <1>4, <1>5 DEF TradingInv

\* One turn of the engine.
LEMMA BarInv ==
    ASSUME Trading!BacktestAssumption, TradingInv, Trading!Bar
    PROVE  TradingInv'
<1>1. CASE Trading!Refuse
  BY <1>1, TradingStands DEF Trading!Refuse, Trading!inputs
<1>2. CASE Trading!Turn
  <2>1. /\ book' = Trading!Walked(book, scenario, position)
        /\ position' = position + 1 /\ position \in Trading!Bars
        /\ UNCHANGED <<market, decisions, positive, paths>>
    BY <1>2 DEF Trading!Turn, Trading!Bar, Trading!inputs
  <2>2. PICK n \in Nat : Trading!Bars = 0..(n - 1) /\ position <= n
    BY DEF TradingInv
  <2>3. positive \subseteq Nat /\ position \in Nat
    BY <2>2 DEF TradingInv
  <2>4. BookInv(book', position + 1)
    BY <2>1, <2>3, WalkedInv DEF TradingInv
  <2>5. Trading!Bars' = Trading!Bars
    BY <2>1 DEF Trading!Bars
  <2>6. Trading!Exitable' = Trading!Exitable
    BY <2>1, <2>5 DEF Trading!Exitable
  <2>7. Trading!WindowEnd' = Trading!WindowEnd
    BY <2>6 DEF Trading!WindowEnd
  <2>8. BookInv(book, position)'
    <3> DEFINE b == book'
               p == position + 1
    <3>1. BookInv(b, p) /\ book' = b /\ position' = p
      BY <2>1, <2>4
    <3> HIDE DEF b, p
    <3> QED
      BY <2>1, <2>7, <3>1 DEF BookInv, Book, FreeAt, OrderedAt, OpenAt, Covered
  <2>9. \A i \in DOMAIN paths' : PathInv(paths[i])'
    BY <2>1, <2>6 DEF TradingInv, PathInv
  <2>10. position + 1 <= n
    BY <2>1, <2>2, <2>3
  <2> QED
    BY <2>1, <2>2, <2>3, <2>5, <2>8, <2>9, <2>10 DEF TradingInv
<1> QED
  BY <1>1, <1>2 DEF Trading!Bar

\* A book that is settled at the end of the market has answered every decision.
LEMMA SettledPath ==
    ASSUME Trading!BacktestAssumption, TradingInv, position \notin Trading!Bars,
           Trading!Settled(scenario, book, curve)
    PROVE  PathInv([ledger |-> book.ledger, curve |-> curve])
<1>1. /\ book.trade = Trading!NoTrade /\ book.pending = None /\ book.exit = None
  BY DEF Trading!Settled
<1>2. Horizon \in Nat /\ None \notin Nat
  BY DEF Trading!BacktestAssumption
<1>3. position \in Nat /\ BookInv(book, position)
  BY DEF TradingInv
<1>4. ~OrderedAt(book, position) /\ ~\E s \in Nat : OpenAt(book, s)
  BY <1>1, <1>2, <1>3 DEF OrderedAt, OpenAt
<1>5. Disjoint(book.ledger) /\ Covered(book.ledger, position)
  BY <1>3, <1>4 DEF BookInv, Book, FreeAt
<1>6. PICK n \in Nat : Trading!Bars = 0..(n - 1) /\ position <= n
  BY DEF TradingInv
<1>7. ASSUME NEW d \in positive \cap Trading!Exitable PROVE Answered(book.ledger, d)
  <2>1. d + Horizon + 1 <= Trading!WindowEnd
    BY WindowEnds DEF TradingInv
  <2>2. d \in Trading!Bars
    BY DEF TradingInv
  <2>3. d < position
    BY <1>3, <1>6, <2>2
  <2> QED
    BY <1>5, <2>1, <2>3 DEF Covered
<1> QED
  BY <1>5, <1>7 DEF PathInv

LEMMA SettleInv ==
    ASSUME Trading!BacktestAssumption, TradingInv, Trading!Settle
    PROVE  TradingInv'
<1>1. CASE Trading!Refuse
  BY <1>1, TradingStands DEF Trading!Refuse, Trading!inputs
<1>2. CASE Trading!Keep /\ Trading!Settled(scenario, book, curve)
  <2> DEFINE path == [ledger |-> book.ledger, curve |-> curve]
  <2>1. /\ paths' = Append(paths, path) /\ position' = 0 /\ book' = Trading!Idle
        /\ UNCHANGED <<market, decisions, positive>>
    BY <1>2 DEF Trading!Keep, Trading!inputs
  <2>2. position \notin Trading!Bars
    BY DEF Trading!Settle
  <2>3. PathInv(path)
    BY <1>2, <2>2, SettledPath
  <2>4. PICK n \in Nat : Trading!Bars = 0..(n - 1) /\ position <= n
    BY DEF TradingInv
  <2>5. positive \subseteq Nat
    BY <2>4 DEF TradingInv
  <2>6. BookInv(Trading!Idle, 0)
    BY <2>5, IdleInv
  <2>7. Trading!Bars' = Trading!Bars
    BY <2>1 DEF Trading!Bars
  <2>8. Trading!Exitable' = Trading!Exitable
    BY <2>1, <2>7 DEF Trading!Exitable
  <2>9. Trading!WindowEnd' = Trading!WindowEnd
    BY <2>8 DEF Trading!WindowEnd
  <2>10. BookInv(book, position)'
    <3> DEFINE b == Trading!Idle
    <3>1. BookInv(b, 0) /\ book' = b /\ position' = 0
      BY <2>1, <2>6
    <3> HIDE DEF b
    <3> QED
      BY <2>1, <2>9, <3>1 DEF BookInv, Book, FreeAt, OrderedAt, OpenAt, Covered
  <2> HIDE DEF path
  <2>11. PICK S : paths \in Seq(S)
    BY DEF TradingInv
  <2>12. /\ paths' \in Seq(S \cup {path})
         /\ \A i \in DOMAIN paths' : IF i = Len(paths) + 1 THEN paths'[i] = path
                                     ELSE i \in DOMAIN paths /\ paths'[i] = paths[i]
    <3>1. paths \in Seq(S \cup {path}) /\ path \in S \cup {path}
      BY <2>11
    <3> QED
      BY <2>1, <3>1
  <2>13. \A i \in DOMAIN paths' : PathInv(paths'[i])
    BY <2>3, <2>12 DEF TradingInv
  <2>14. \A i \in DOMAIN paths' : PathInv(paths[i])'
    BY <2>1, <2>8, <2>13 DEF PathInv
  <2>15. 0 <= n
    OBVIOUS
  <2> QED
    BY <2>1, <2>4, <2>7, <2>10, <2>12, <2>14, <2>15 DEF TradingInv
<1> QED
  BY <1>1, <1>2 DEF Trading!Settle

LEMMA TradingNextInv ==
    ASSUME Trading!BacktestAssumption, TradingInv, Trading!Next \/ UNCHANGED tradingVars
    PROVE  TradingInv'
<1>1. CASE UNCHANGED tradingVars
  BY <1>1, TradingStands DEF tradingVars
<1>2. CASE Trading!NoWindow \/ Trading!Unreported \/ Trading!Compare
  BY <1>2, TradingStands
     DEF Trading!NoWindow, Trading!Refuse, Trading!Unreported, Trading!Compare, Trading!inputs
<1> QED
  BY <1>1, <1>2, BarInv, SettleInv DEF Trading!Next

\* The trades of a ledger do not overlap, so one of them answers a decision.
LEMMA OneAnswer ==
    ASSUME Horizon \in Nat, Horizon > 0, NEW ledger, Disjoint(ledger), NEW d \in Nat,
           Answered(ledger, d)
    PROVE  Cardinality({j \in DOMAIN ledger : Holds(ledger[j], d)}) = 1
<1>1. PICK k \in DOMAIN ledger : Holds(ledger[k], d)
  BY DEF Answered
<1>2. PICK S : ledger \in Seq(S)
  BY DEF Disjoint
<1>3. DOMAIN ledger \subseteq Nat
  BY <1>2
<1>4. ASSUME NEW j \in DOMAIN ledger, Holds(ledger[j], d)
      PROVE  /\ ledger[j].signal \in Nat /\ ledger[j].exit \in Nat
             /\ ledger[j].signal <= d /\ d < ledger[j].exit
  <2>1. Spanning(ledger[j])
    BY DEF Disjoint
  <2>2. CASE d = ledger[j].signal
    BY <2>1, <2>2 DEF Spanning
  <2>3. CASE d \in ledger[j].entry..(ledger[j].exit - 1)
    BY <2>1, <2>3 DEF Spanning
  <2> QED
    BY <1>4, <2>2, <2>3 DEF Holds
<1>5. ASSUME NEW i \in DOMAIN ledger, NEW j \in DOMAIN ledger, i < j,
             Holds(ledger[i], d), Holds(ledger[j], d)
      PROVE  FALSE
  <2>1. ledger[i].exit <= ledger[j].signal
    BY <1>5 DEF Disjoint
  <2>2. d < ledger[i].exit /\ ledger[i].exit \in Nat
    BY <1>4, <1>5
  <2>3. ledger[j].signal <= d /\ ledger[j].signal \in Nat
    BY <1>4, <1>5
  <2> QED
    BY <2>1, <2>2, <2>3
<1>6. {j \in DOMAIN ledger : Holds(ledger[j], d)} = {k}
  <2> SUFFICES ASSUME NEW j \in DOMAIN ledger, Holds(ledger[j], d) PROVE j = k
    BY <1>1
  <2>1. j \in Nat /\ k \in Nat
    BY <1>3
  <2>2. ~(j < k) /\ ~(k < j)
    BY <1>1, <1>5
  <2> QED
    BY <2>1, <2>2
<1> QED
  BY <1>6, FS_Singleton

LEMMA TradingAnswers ==
    ASSUME Trading!BacktestAssumption, TradingInv
    PROVE  EveryDecisionAnswered
<1> SUFFICES ASSUME NEW i \in DOMAIN paths, NEW d \in positive \cap Trading!Exitable
             PROVE  Trading!Cardinality(
                        {j \in DOMAIN paths[i].ledger :
                            \/ d = paths[i].ledger[j].signal
                            \/ d \in paths[i].ledger[j].entry..(paths[i].ledger[j].exit - 1)}) = 1
  BY DEF EveryDecisionAnswered, Trading!EveryDecisionAnswered
<1> DEFINE ledger == paths[i].ledger
<1>1. Disjoint(ledger) /\ Answered(ledger, d)
  BY DEF TradingInv, PathInv
<1>2. d \in Nat
  <2>1. PICK n \in Nat : Trading!Bars = 0..(n - 1) /\ position <= n
    BY DEF TradingInv
  <2> QED
    BY <2>1 DEF TradingInv
<1>3. Horizon \in Nat /\ Horizon > 0
  BY DEF Trading!BacktestAssumption
<1>4. Cardinality({j \in DOMAIN ledger : Holds(ledger[j], d)}) = 1
  <2> HIDE DEF ledger
  <2> QED
    BY <1>1, <1>2, <1>3, OneAnswer
<1> QED
  BY <1>4, SameInTrading DEF Holds

-----------------------------------------------------------------------------
(* The money of the backtests. *)

LEMMA SameFractions ==
    /\ \A x, y : /\ Trading!**(x, y) = x ** y /\ Trading!//(x, y) = x // y
                 /\ Trading!++(x, y) = x ++ y /\ Trading!--(x, y) = x -- y
                 /\ Trading!\succ(x, y) <=> x \succ y
    /\ Trading!One = One /\ Trading!Zero = Zero /\ Trading!Capital = One
    /\ \A f : Trading!IsRate(f) <=> IsRate(f)
    /\ \A p : Trading!Open(p) = <<market[p], 1>>
<1>1. Trading!Gcd = Gcd
  BY Zenon DEF Trading!Gcd, Gcd
<1>2. \A n : Trading!Abs(n) = Abs(n)
  BY Zenon DEF Trading!Abs, Abs
<1>3. \A n, d : Trading!Frac(n, d) = Frac(n, d)
  BY <1>1, <1>2, Zenon DEF Trading!Frac, Frac
<1>4. Trading!One = One /\ Trading!Zero = Zero /\ Trading!Capital = One
  BY Zenon DEF Trading!One, One, Trading!Zero, Zero, Trading!Capital
<1>5. \A x, y : /\ Trading!**(x, y) = x ** y /\ Trading!//(x, y) = x // y
                /\ Trading!++(x, y) = x ++ y /\ Trading!--(x, y) = x -- y
                /\ Trading!\succ(x, y) <=> x \succ y
  BY <1>3, Zenon DEF Trading!**, **, Trading!//, //, Trading!++, ++, Trading!--, --, Trading!\succ, \succ
<1>6. \A f : Trading!IsRate(f) <=> IsRate(f)
  BY <1>3, <1>4, <1>5, Zenon DEF Trading!IsRate, IsRate
<1>7. \A p : Trading!Open(p) = <<market[p], 1>>
  BY DEF Trading!Open
<1> QED
  BY <1>4, <1>5, <1>6, <1>7

Rate(s)  == Scenarios[s].fee
Cost(s)  == Scenarios[s].execution
Price(p) == <<market[p], 1>>

\* The engine's fills, in terms of one trade.
LEMMA FillsAre ==
    /\ \A s, p : Trading!BuyAt(s, p) = Price(p) ** (One ++ Cost(s))
    /\ \A s, p : Trading!SellAt(s, p) = Price(p) ** (One -- Cost(s))
    /\ \A s : Trading!Fee(s) = Rate(s)
    /\ \A s : Trading!Kept(s) = KeptOf(Rate(s), Cost(s))
<1>1. \A s, p : Trading!BuyAt(s, p) = Price(p) ** (One ++ Cost(s))
  BY SameFractions, Zenon DEF Trading!BuyAt, Price, Cost
<1>2. \A s, p : Trading!SellAt(s, p) = Price(p) ** (One -- Cost(s))
  BY SameFractions, Zenon DEF Trading!SellAt, Price, Cost
<1>3. \A s : Trading!Fee(s) = Rate(s)
  BY DEF Trading!Fee, Rate
<1>4. \A s : Trading!Kept(s) = KeptOf(Rate(s), Cost(s))
  BY <1>3, SameFractions, Zenon DEF Trading!Kept, KeptOf, Cost
<1> QED
  BY <1>1, <1>2, <1>3, <1>4

\* The trade that a scheduled exit of bar p closes and the book it leaves, and
\* the trade and the book of a pending entry.
SoldTrade(b, s, p) ==
    [b.trade EXCEPT !.exitFee = Gross(b.quantity, Cost(s), Price(p)) ** Rate(s), !.exit = p,
                    !.after = Sold(b.quantity, Rate(s), Cost(s), Price(p))]
SoldBook(b, s, p) ==
    [b EXCEPT !.cash = Sold(b.quantity, Rate(s), Cost(s), Price(p)), !.quantity = Zero,
              !.exit = None, !.trade = Trading!NoTrade, !.ledger = Append(@, SoldTrade(b, s, p))]

BoughtTrade(b, s, p) ==
    [signal |-> p - 1, entry |-> p, exit |-> b.exit,
     quantity |-> Bought(b.cash, Rate(s), Cost(s), Price(p)), before |-> b.cash,
     entryFee |-> b.cash ** Rate(s), exitFee |-> Zero, after |-> Zero]
BoughtBook(b, s, p) ==
    [b EXCEPT !.cash = Zero, !.quantity = Bought(b.cash, Rate(s), Cost(s), Price(p)),
              !.pending = None, !.trade = BoughtTrade(b, s, p)]

LEMMA ExitedIs ==
    ASSUME NEW b, NEW s, NEW p, b.exit = p
    PROVE  Trading!Exited(b, s, p) = SoldBook(b, s, p)
<1> DEFINE gross == Trading!**(b.quantity, Trading!SellAt(s, p))
           after == Trading!--(gross, Trading!**(gross, Trading!Fee(s)))
<1>1. gross = Gross(b.quantity, Cost(s), Price(p))
  BY SameFractions, FillsAre, Zenon DEF Gross
<1>2. after = Sold(b.quantity, Rate(s), Cost(s), Price(p))
  BY <1>1, SameFractions, FillsAre, Zenon DEF Sold
<1>3. Trading!Exited(b, s, p) =
          [b EXCEPT !.cash = after, !.quantity = Trading!Zero, !.exit = None,
                    !.trade = Trading!NoTrade,
                    !.ledger = Append(@, [b.trade EXCEPT !.exitFee = Trading!**(gross, Trading!Fee(s)),
                                                         !.exit = p, !.after = after])]
  BY Zenon DEF Trading!Exited
<1>4. Trading!**(gross, Trading!Fee(s)) = gross ** Rate(s) /\ Trading!Zero = Zero
  BY SameFractions, FillsAre, Zenon
<1> HIDE DEF gross, after
<1> QED
  BY <1>1, <1>2, <1>3, <1>4, Zenon DEF SoldBook, SoldTrade

LEMMA EnteredIs ==
    ASSUME NEW b, NEW s, NEW p, b.pending = p
    PROVE  Trading!Entered(b, s, p) = BoughtBook(b, s, p)
<1> DEFINE fee == Trading!**(b.cash, Trading!Fee(s))
           quantity == Trading!//(Trading!--(b.cash, fee), Trading!BuyAt(s, p))
<1>1. fee = b.cash ** Rate(s) /\ Trading!Zero = Zero
  BY SameFractions, FillsAre, Zenon
<1>2. quantity = Bought(b.cash, Rate(s), Cost(s), Price(p))
  BY <1>1, SameFractions, FillsAre, Zenon DEF Bought
<1>3. Trading!Entered(b, s, p) =
          [b EXCEPT !.cash = Trading!Zero, !.quantity = quantity, !.pending = None,
                    !.trade = [signal |-> p - 1, entry |-> p, exit |-> b.exit,
                               quantity |-> quantity, before |-> b.cash, entryFee |-> fee,
                               exitFee |-> Trading!Zero, after |-> Trading!Zero]]
  BY Zenon DEF Trading!Entered
<1> HIDE DEF fee, quantity
<1> QED
  BY <1>1, <1>2, <1>3, Zenon DEF BoughtBook, BoughtTrade

LEMMA ReconcilesIs ==
    ASSUME NEW s, NEW t, NEW before, NEW marks
    PROVE  Trading!TradeReconciles(s, t, before, marks) <=>
              LET entryMark == marks[t.entry - Trading!WindowStart + 1].equity
                  exitMark  == marks[t.exit - Trading!WindowStart + 1].equity
                  gross     == Gross(t.quantity, Cost(s), Price(t.exit))
              IN /\ t.before = before
                 /\ t.entryFee = t.before ** Rate(s)
                 /\ t.exitFee = gross ** Rate(s)
                 /\ t.after = gross -- t.exitFee
                 /\ entryMark = t.quantity ** Price(t.entry)
                 /\ exitMark = t.after
                 /\ t.before -- entryMark =
                       t.entryFee ++ (t.quantity ** ((Price(t.entry) ** (One ++ Cost(s))) -- Price(t.entry)))
                 /\ (t.quantity ** Price(t.exit)) -- exitMark =
                       t.exitFee ++ (t.quantity ** (Price(t.exit) -- (Price(t.exit) ** (One -- Cost(s)))))
<1> DEFINE gross == Trading!**(t.quantity, Trading!SellAt(s, t.exit))
<1>1. gross = Gross(t.quantity, Cost(s), Price(t.exit))
  BY SameFractions, FillsAre, Zenon DEF Gross
<1>2. Trading!EntryCost(s, t)
        = t.quantity ** ((Price(t.entry) ** (One ++ Cost(s))) -- Price(t.entry))
  BY SameFractions, FillsAre, Zenon DEF Trading!EntryCost, Price
<1>3. Trading!ExitCost(s, t)
        = t.quantity ** (Price(t.exit) -- (Price(t.exit) ** (One -- Cost(s))))
  BY SameFractions, FillsAre, Zenon DEF Trading!ExitCost, Price
<1>4. \A p : Trading!Open(p) = Price(p)
  BY SameFractions DEF Price
<1> QED
  BY <1>1, <1>2, <1>3, <1>4, SameFractions, FillsAre, Zenon DEF Trading!TradeReconciles

LEMMA RateIsShare ==
    ASSUME NEW f, IsRate(f)
    PROVE  Share(f) /\ Rational(f)
<1>1. f[1] \in Nat /\ f[2] \in Pos /\ f = Frac(f[1], f[2]) /\ One \succ f
  BY DEF IsRate, Pos
<1>2. NonNegative(Frac(f[1], f[2]))
  BY <1>1, PositiveIs
<1>3. NonNegative(f)
  BY <1>1, <1>2, Zenon
<1> QED
  BY <1>1, <1>3, PositiveIs DEF Share

LEMMA ScenarioRates ==
    ASSUME Trading!BacktestAssumption
    PROVE  /\ Len(Scenarios) \in Nat /\ DOMAIN Scenarios = 1..Len(Scenarios)
           /\ Official \in DOMAIN Scenarios
           /\ \A s \in DOMAIN Scenarios : Share(Rate(s)) /\ Share(Cost(s))
           /\ \A s, t \in DOMAIN Scenarios : s < t =>
                 AtMost(Rate(s), Rate(t)) /\ AtMost(Cost(s), Cost(t))
           /\ Rational(Edge)
<1>1. Len(Scenarios) \in Nat /\ DOMAIN Scenarios = 1..Len(Scenarios) /\ Official \in DOMAIN Scenarios
  <2>1. /\ Scenarios \in Seq({Scenarios[s] : s \in DOMAIN Scenarios})
        /\ Official \in DOMAIN Scenarios
    BY DEF Trading!BacktestAssumption
  <2> QED
    BY <2>1
<1>2. \A s \in DOMAIN Scenarios : Share(Rate(s)) /\ Share(Cost(s))
  BY RateIsShare, SameFractions DEF Trading!BacktestAssumption, Rate, Cost
<1>3. \A s, t \in DOMAIN Scenarios : s < t =>
          AtMost(Rate(s), Rate(t)) /\ AtMost(Cost(s), Cost(t))
  BY SameFractions DEF Trading!BacktestAssumption, Rate, Cost, AtMost
<1>4. Rational(Edge)
  BY RateIsShare, SameFractions DEF Trading!BacktestAssumption
<1> QED
  BY <1>1, <1>2, <1>3, <1>4

LEMMA PricesAbove ==
    ASSUME Trading!BacktestAssumption, market \in Markets, NEW p \in Trading!Bars
    PROVE  Positive(Price(p))
<1>1. market[p] \in Pos
  BY DEF Trading!BacktestAssumption, Trading!Bars, Pos
<1>2. Price(p) = Frac(market[p], 1) /\ 1 \in Pos
  BY <1>1, Whole, Positivity DEF Price, Pos
<1> QED
  BY <1>1, <1>2, PositiveIs

\* The window opens after the first decision and closes inside the market.
LEMMA WindowIs ==
    ASSUME Trading!BacktestAssumption, market \in Markets, decisions \subseteq Trading!Bars,
           Trading!Exitable # {}
    PROVE  /\ Trading!WindowStart \in Nat /\ Trading!WindowEnd \in Trading!Bars
           /\ Trading!WindowEnd \in Nat /\ Trading!WindowStart >= 1
           /\ Trading!WindowStart < Trading!WindowEnd
           /\ \A d \in decisions : d \in Nat /\ Trading!WindowStart <= d + 1
<1>0. Horizon \in Nat /\ Horizon > 0
  BY DEF Trading!BacktestAssumption
<1>1. PICK n \in Nat : Trading!Bars = 0..(n - 1)
  BY MarketBars
<1>2. decisions \subseteq Nat /\ Trading!Exitable \subseteq decisions /\ Trading!Exitable \subseteq 0..n
  <2>1. decisions \subseteq Nat
    BY <1>1
  <2>2. Trading!Exitable \subseteq decisions
    BY DEF Trading!Exitable
  <2>3. decisions \subseteq 0..n
    BY <1>1
  <2> QED
    BY <2>1, <2>2, <2>3
<1> DEFINE first == Min(decisions)
           last == Max(Trading!Exitable)
<1>3. first \in decisions /\ \A d \in decisions : first <= d
  <2>1. \E x \in decisions : \A y \in decisions : x <= y
    BY <1>2, LeastElement
  <2> QED
    BY <2>1 DEF Min
<1>4. last \in Trading!Exitable
  BY <1>2, Greatest
<1>5. Trading!WindowStart = first + 1 /\ Trading!WindowEnd = last + Horizon + 1
  BY SameInTrading DEF Trading!WindowStart, Trading!WindowEnd
<1> HIDE DEF first, last
<1>6. first \in Nat /\ last \in Nat /\ first <= last
  BY <1>2, <1>3, <1>4
<1>7. Trading!WindowEnd \in Trading!Bars
  BY <1>4, <1>5 DEF Trading!Exitable
<1>8. \A d \in decisions : d \in Nat /\ first + 1 <= d + 1
  BY <1>2, <1>3, <1>6
<1> QED
  BY <1>0, <1>5, <1>6, <1>7, <1>8

-----------------------------------------------------------------------------
\* A finished trade of scenario s, and one that is open.
BoughtBy(s, t) ==
    /\ Positive(t.before)
    /\ t.signal \in positive
    /\ t.entryFee = t.before ** Rate(s)
    /\ t.quantity = Bought(t.before, Rate(s), Cost(s), Price(t.entry))

SoldBy(s, t) ==
    /\ BoughtBy(s, t)
    /\ t.exit <= Trading!WindowEnd
    /\ t.exitFee = Gross(t.quantity, Cost(s), Price(t.exit)) ** Rate(s)
    /\ t.after = Sold(t.quantity, Rate(s), Cost(s), Price(t.exit))

\* What the trades of a ledger before trade j leave.
Left(ledger, j) == IF j = 1 THEN One ELSE ledger[j - 1].after

Accounted(s, ledger) ==
    \A j \in DOMAIN ledger : SoldBy(s, ledger[j]) /\ ledger[j].before = Left(ledger, j)

\* Bar p has the mark e.
MarkedAt(marks, p, e) == marks[p - Trading!WindowStart + 1].equity = e

\* How many bars before n are marked.
Marks(n) == IF n <= Trading!WindowStart THEN 0
            ELSE IF n <= Trading!WindowEnd THEN n - Trading!WindowStart
            ELSE Trading!WindowEnd - Trading!WindowStart + 1

Worth(ledger) == Left(ledger, Len(ledger) + 1)

\* What a book holds before bar n is marked.
Money(b, s, marks, n) ==
    /\ Accounted(s, b.ledger)
    /\ \A j \in DOMAIN b.ledger :
          /\ b.ledger[j].entry < n => MarkedAt(marks, b.ledger[j].entry,
                                               b.ledger[j].quantity ** Price(b.ledger[j].entry))
          /\ b.ledger[j].exit < n => MarkedAt(marks, b.ledger[j].exit, b.ledger[j].after)
    /\ b.trade = Trading!NoTrade => b.cash = Worth(b.ledger)
    /\ b.trade # Trading!NoTrade =>
          /\ BoughtBy(s, b.trade) /\ b.trade.before = Worth(b.ledger)
          /\ b.quantity = b.trade.quantity
          /\ b.trade.entry < n => MarkedAt(marks, b.trade.entry, b.quantity ** Price(b.trade.entry))
    /\ b.exit # None => b.exit <= Trading!WindowEnd
    /\ b.pending # None => b.pending - 1 \in positive
    /\ \E S : marks \in Seq(S)
    /\ Len(marks) = Marks(n)
    /\ n > Trading!WindowEnd => MarkedAt(marks, Trading!WindowEnd, Worth(b.ledger))

PathMoney(s, path) ==
    /\ Accounted(s, path.ledger)
    /\ Trading!Final(path) = Worth(path.ledger)

MoneyInv ==
    /\ Trading!Exitable # {} =>
          /\ verdict # "refused"
          /\ scenario \in 1..(Len(Scenarios) + 1)
          /\ Len(paths) = scenario - 1
          /\ scenario <= Len(Scenarios) => Money(book, scenario, curve, position)
          /\ \A i \in DOMAIN paths : PathMoney(i, paths[i])
    /\ Trading!Exitable = {} => scenario = 1 /\ position = 0 /\ paths = <<>>
    /\ decisions # {}

\* A market with a window.
World ==
    /\ Trading!BacktestAssumption
    /\ market \in Markets /\ decisions \subseteq Trading!Bars /\ positive \subseteq decisions
    /\ Trading!Exitable # {}

LEMMA WorldIs ==
    ASSUME World
    PROVE  /\ Horizon \in Nat /\ Horizon > 0 /\ None \notin Nat
           /\ positive \subseteq Nat
           /\ \A p \in Nat : p <= Trading!WindowEnd => p \in Trading!Bars /\ Positive(Price(p))
           /\ \A d \in positive : d \in Nat /\ Trading!WindowStart <= d + 1
           /\ Trading!WindowStart \in Nat /\ Trading!WindowEnd \in Nat
           /\ Trading!WindowStart >= 1 /\ Trading!WindowStart < Trading!WindowEnd
           /\ \A d \in Trading!Exitable : d + Horizon + 1 <= Trading!WindowEnd
<1>1. /\ Horizon \in Nat /\ Horizon > 0 /\ None \notin Nat
  BY DEF World, Trading!BacktestAssumption
<1>2. /\ Trading!WindowStart \in Nat /\ Trading!WindowEnd \in Trading!Bars
      /\ Trading!WindowEnd \in Nat /\ Trading!WindowStart >= 1
      /\ Trading!WindowStart < Trading!WindowEnd
      /\ \A d \in decisions : d \in Nat /\ Trading!WindowStart <= d + 1
  BY WindowIs DEF World
<1>3. PICK n \in Nat : Trading!Bars = 0..(n - 1)
  BY MarketBars DEF World
<1>4. ASSUME NEW p \in Nat, p <= Trading!WindowEnd PROVE p \in Trading!Bars /\ Positive(Price(p))
  <2>1. p \in Trading!Bars
    BY <1>2, <1>3, <1>4
  <2> QED
    BY <2>1, PricesAbove DEF World
<1>5. positive \subseteq Nat /\ \A d \in positive : d \in Nat /\ Trading!WindowStart <= d + 1
  BY <1>2 DEF World
<1>6. \A d \in Trading!Exitable : d + Horizon + 1 <= Trading!WindowEnd
  BY WindowEnds DEF World
<1> QED
  BY <1>1, <1>2, <1>4, <1>5, <1>6

\* A finished trade leaves money.
LEMMA SoldAbove ==
    ASSUME World, NEW s \in DOMAIN Scenarios, NEW t, Spanning(t), SoldBy(s, t)
    PROVE  /\ t.signal \in Nat /\ t.entry \in Nat /\ t.exit \in Nat
           /\ t.entry < t.exit /\ t.exit <= Trading!WindowEnd /\ Trading!WindowStart <= t.entry
           /\ Positive(Price(t.entry)) /\ Positive(Price(t.exit)) /\ Positive(t.before)
           /\ Share(Rate(s)) /\ Share(Cost(s))
           /\ t.quantity = Bought(t.before, Rate(s), Cost(s), Price(t.entry))
           /\ t.after = Earned(t.before, Rate(s), Cost(s), Price(t.entry), Price(t.exit))
           /\ Positive(t.quantity) /\ Positive(t.after)
<1>1. /\ t.signal \in Nat /\ t.entry = t.signal + 1 /\ t.exit = t.signal + Horizon + 1
      /\ t.exit <= Trading!WindowEnd /\ t.signal \in positive
  BY DEF Spanning, SoldBy, BoughtBy
<1>2. /\ t.entry \in Nat /\ t.exit \in Nat /\ t.entry < t.exit /\ t.entry <= Trading!WindowEnd
      /\ Trading!WindowStart <= t.entry
  BY <1>1, WorldIs
<1>3. Positive(Price(t.entry)) /\ Positive(Price(t.exit))
  BY <1>1, <1>2, WorldIs
<1>4. Share(Rate(s)) /\ Share(Cost(s))
  BY ScenarioRates DEF World
<1>5. /\ Positive(t.before)
      /\ t.quantity = Bought(t.before, Rate(s), Cost(s), Price(t.entry))
      /\ t.after = Earned(t.before, Rate(s), Cost(s), Price(t.entry), Price(t.exit))
  BY DEF SoldBy, BoughtBy, Earned
<1>6. Positive(t.quantity) /\ Positive(t.after)
  BY <1>3, <1>4, <1>5, TradeAbove
<1> QED
  BY <1>1, <1>2, <1>3, <1>4, <1>5, <1>6

LEMMA LeftAbove ==
    ASSUME World, NEW s \in DOMAIN Scenarios, NEW ledger, Disjoint(ledger), Accounted(s, ledger),
           NEW j \in 1..(Len(ledger) + 1)
    PROVE  Positive(Left(ledger, j))
<1>1. PICK S : ledger \in Seq(S)
  BY DEF Disjoint
<1>2. CASE j = 1
  BY <1>2, Units, PositiveIs DEF Left
<1>3. CASE j # 1
  <2>1. j - 1 \in DOMAIN ledger
    BY <1>1, <1>3
  <2>2. Spanning(ledger[j - 1]) /\ SoldBy(s, ledger[j - 1])
    BY <2>1 DEF Disjoint, Accounted
  <2>3. Positive(ledger[j - 1].after)
    BY <2>2, SoldAbove
  <2> QED
    BY <1>3, <2>3 DEF Left
<1> QED
  BY <1>2, <1>3

\* One more trade, bought with what the others left.
LEMMA LedgerEarns ==
    ASSUME NEW s, NEW ledger, NEW S, ledger \in Seq(S), Accounted(s, ledger),
           NEW t, SoldBy(s, t), t.before = Worth(ledger)
    PROVE  LET more == Append(ledger, t)
           IN /\ Accounted(s, more) /\ Worth(more) = t.after
              /\ DOMAIN more = 1..(Len(ledger) + 1) /\ more[Len(ledger) + 1] = t
              /\ \A j \in DOMAIN ledger : more[j] = ledger[j]
<1> DEFINE more == Append(ledger, t)
           n == Len(ledger)
<1>1. n \in Nat /\ DOMAIN ledger = 1..n
  OBVIOUS
<1>2. /\ DOMAIN more = 1..(n + 1) /\ more[n + 1] = t /\ Len(more) = n + 1
      /\ \A j \in 1..n : more[j] = ledger[j]
  <2>1. ledger \in Seq(S \cup {t}) /\ t \in S \cup {t}
    OBVIOUS
  <2> QED
    BY <2>1
<1>3. t.before = Left(ledger, n + 1)
  BY DEF Worth
<1> HIDE DEF more, n
<1>4. \A j \in 1..(n + 1) : Left(more, j) = Left(ledger, j)
  <2> SUFFICES ASSUME NEW j \in 1..(n + 1), j # 1 PROVE more[j - 1].after = ledger[j - 1].after
    BY DEF Left
  <2>1. j - 1 \in 1..n
    BY <1>1
  <2> QED
    BY <1>2, <2>1
<1>5. ASSUME NEW j \in DOMAIN more
      PROVE  SoldBy(s, more[j]) /\ more[j].before = Left(more, j)
  <2>1. CASE j = n + 1
    BY <1>2, <1>3, <1>4, <1>5, <2>1
  <2>2. CASE j # n + 1
    <3>1. j \in 1..n /\ j \in DOMAIN ledger
      BY <1>1, <1>2, <1>5, <2>2
    <3>2. SoldBy(s, ledger[j]) /\ ledger[j].before = Left(ledger, j)
      BY <3>1 DEF Accounted
    <3> QED
      BY <1>2, <1>4, <1>5, <3>1, <3>2
  <2> QED
    BY <2>1, <2>2
<1>6. Accounted(s, more)
  BY <1>5 DEF Accounted
<1>7. Worth(more) = t.after
  <2>1. (n + 1) + 1 # 1 /\ ((n + 1) + 1) - 1 = n + 1
    BY <1>1
  <2> QED
    BY <1>2, <2>1 DEF Worth, Left
<1> QED
  BY <1>1, <1>2, <1>6, <1>7 DEF more, n

LEMMA MoneyExited ==
    ASSUME World, NEW s \in DOMAIN Scenarios, NEW b, NEW p \in Nat, NEW marks,
           BookInv(b, p), Money(b, s, marks, p)
    PROVE  Money(Trading!Exited(b, s, p), s, marks, p)
<1>1. CASE b.exit # p
  BY <1>1 DEF Trading!Exited
<1>2. CASE b.exit = p
  <2> DEFINE c == Trading!Exited(b, s, p)
             gross == Gross(b.quantity, Cost(s), Price(p))
             after == Sold(b.quantity, Rate(s), Cost(s), Price(p))
             t == SoldTrade(b, s, p)
  <2>0. Horizon \in Nat /\ Horizon > 0 /\ None \notin Nat /\ Book(b)
    BY WorldIs DEF BookInv
  <2>1. PICK o \in Nat : OpenAt(b, o) /\ o + 1 < p /\ p <= o + Horizon + 1
    <3>1. ~FreeAt(b, p - 1, p)
      BY <1>2, <2>0 DEF FreeAt
    <3>2. ~OrderedAt(b, p)
      BY <1>2, <2>0 DEF OrderedAt
    <3> QED
      BY <3>1, <3>2 DEF BookInv
  <2>2. c = SoldBook(b, s, p)
    BY <1>2, ExitedIs
  <2>3. /\ t.signal = b.trade.signal /\ t.entry = b.trade.entry /\ t.exit = p
        /\ t.quantity = b.trade.quantity /\ t.before = b.trade.before
        /\ t.entryFee = b.trade.entryFee /\ t.exitFee = gross ** Rate(s) /\ t.after = after
    BY <2>1 DEF OpenAt, TradeFields, SoldTrade
  <2>4. b.trade # Trading!NoTrade
    <3>1. DOMAIN b.trade # {}
      BY <2>1 DEF OpenAt, TradeFields
    <3>2. DOMAIN Trading!NoTrade = {}
      BY DEF Trading!NoTrade
    <3> QED
      BY <3>1, <3>2
  <2> HIDE DEF t, c, gross, after
  <2>5. /\ c.cash = after /\ c.exit = None /\ c.pending = b.pending
        /\ c.trade = Trading!NoTrade /\ c.ledger = Append(b.ledger, t)
    BY <2>0, <2>2 DEF Book, BookFields, SoldBook, t, after
  <2>6. /\ BoughtBy(s, b.trade) /\ b.trade.before = Worth(b.ledger) /\ b.quantity = b.trade.quantity
        /\ b.trade.entry < p => MarkedAt(marks, b.trade.entry, b.quantity ** Price(b.trade.entry))
        /\ b.exit <= Trading!WindowEnd
    BY <1>2, <2>0, <2>4 DEF Money
  <2>7. SoldBy(s, t) /\ t.before = Worth(b.ledger)
    BY <1>2, <2>3, <2>6 DEF SoldBy, BoughtBy, gross, after
  <2>8. PICK S : b.ledger \in Seq(S)
    BY <2>0 DEF Book, Disjoint
  <2>9. Accounted(s, b.ledger)
    BY DEF Money
  <2>10. /\ Accounted(s, c.ledger) /\ Worth(c.ledger) = after
         /\ DOMAIN c.ledger = 1..(Len(b.ledger) + 1) /\ c.ledger[Len(b.ledger) + 1] = t
         /\ \A j \in DOMAIN b.ledger : c.ledger[j] = b.ledger[j]
    BY <2>3, <2>5, <2>7, <2>8, <2>9, LedgerEarns
  <2>11. ASSUME NEW j \in DOMAIN c.ledger
         PROVE  /\ c.ledger[j].entry < p => MarkedAt(marks, c.ledger[j].entry,
                                                     c.ledger[j].quantity ** Price(c.ledger[j].entry))
                /\ c.ledger[j].exit < p => MarkedAt(marks, c.ledger[j].exit, c.ledger[j].after)
    <3>1. CASE j = Len(b.ledger) + 1
      BY <2>3, <2>6, <2>10, <3>1
    <3>2. CASE j # Len(b.ledger) + 1
      <4>1. j \in DOMAIN b.ledger
        BY <2>8, <2>10, <2>11, <3>2
      <4> QED
        BY <2>10, <4>1 DEF Money
    <3> QED
      BY <3>1, <3>2
  <2>12. ~(p > Trading!WindowEnd)
    BY <1>2, <2>6, WorldIs
  <2>13. /\ c.pending # None => c.pending - 1 \in positive
         /\ \E Q : marks \in Seq(Q)
         /\ Len(marks) = Marks(p)
    BY <2>5 DEF Money
  <2> QED
    BY <2>5, <2>10, <2>11, <2>12, <2>13 DEF Money, c
<1> QED
  BY <1>1, <1>2

LEMMA MoneyEntered ==
    ASSUME World, NEW s \in DOMAIN Scenarios, NEW b, NEW p \in Nat, NEW marks, Book(b),
           \/ FreeAt(b, p, p)
           \/ OrderedAt(b, p)
           \/ \E o \in Nat : OpenAt(b, o) /\ o + 1 < p /\ p < o + Horizon + 1,
           Money(b, s, marks, p)
    PROVE  Money(Trading!Entered(b, s, p), s, marks, p)
<1>1. CASE b.pending # p
  BY <1>1 DEF Trading!Entered
<1>2. CASE b.pending = p
  <2> DEFINE c == Trading!Entered(b, s, p)
             t == BoughtTrade(b, s, p)
  <2>1. None \notin Nat
    BY WorldIs
  <2>2. OrderedAt(b, p)
    BY <1>2, <2>1 DEF FreeAt, OpenAt
  <2>3. c = BoughtBook(b, s, p)
    BY <1>2, EnteredIs
  <2>4. /\ t.signal = p - 1 /\ t.entry = p /\ t.before = b.cash
        /\ t.quantity = Bought(b.cash, Rate(s), Cost(s), Price(p))
        /\ t.entryFee = b.cash ** Rate(s)
        /\ DOMAIN t # {}
    BY DEF BoughtTrade
  <2> HIDE DEF t, c
  <2>5. /\ c.exit = b.exit /\ c.pending = None /\ c.trade = t /\ c.ledger = b.ledger
        /\ c.quantity = t.quantity
    BY <2>3, <2>4 DEF Book, BookFields, BoughtBook, t
  <2>6. t # Trading!NoTrade
    <3>1. DOMAIN Trading!NoTrade = {}
      BY DEF Trading!NoTrade
    <3> QED
      BY <2>4, <3>1
  <2>7. b.cash = Worth(b.ledger) /\ Positive(b.cash)
    <3>1. b.cash = Worth(b.ledger)
      BY <2>2 DEF Money, OrderedAt
    <3>2. Len(b.ledger) + 1 \in 1..(Len(b.ledger) + 1)
      BY DEF Book, Disjoint
    <3>3. Positive(Left(b.ledger, Len(b.ledger) + 1))
      BY <3>2, LeftAbove DEF Money, Book
    <3> QED
      BY <3>1, <3>3 DEF Worth
  <2>8. p - 1 \in positive
    BY <1>2, <2>1 DEF Money
  <2>9. BoughtBy(s, t)
    BY <2>4, <2>7, <2>8 DEF BoughtBy
  <2>10. ~(t.entry < p)
    BY <2>4
  <2> QED
    BY <2>4, <2>5, <2>6, <2>7, <2>9, <2>10 DEF Money, c
<1> QED
  BY <1>1, <1>2

\* The marks of the bars from w to p - 1, and one more.
OneMore(marks, more, w, p, m) ==
    /\ \E Q : more \in Seq(Q)
    /\ Len(more) = p - w + 1
    /\ more[p - w + 1] = m
    /\ \A q \in Nat : w <= q /\ q < p => more[q - w + 1] = marks[q - w + 1]

LEMMA MarksStay ==
    ASSUME NEW w \in Nat, NEW p \in Nat, w <= p, NEW S, NEW marks \in Seq(S), Len(marks) = p - w,
           NEW m
    PROVE  OneMore(marks, Append(marks, m), w, p, m)
<1> DEFINE more == Append(marks, m)
           n == p - w
<1>1. n \in Nat /\ Len(marks) = n
  OBVIOUS
<1>2. marks \in Seq(S \cup {m}) /\ m \in S \cup {m}
  OBVIOUS
<1>3. /\ more \in Seq(S \cup {m}) /\ Len(more) = n + 1 /\ more[n + 1] = m
      /\ \A i \in 1..n : more[i] = marks[i]
  BY <1>1, <1>2
<1> HIDE DEF more
<1>4. ASSUME NEW q \in Nat, w <= q, q < p PROVE more[q - w + 1] = marks[q - w + 1]
  <2>1. q - w + 1 \in 1..n
    BY <1>4
  <2> QED
    BY <1>3, <2>1
<1> QED
  BY <1>3, <1>4 DEF more, OneMore

\* Where the trades of a book are when bar p is marked.
LEMMA TradesStand ==
    ASSUME World, NEW s \in DOMAIN Scenarios, NEW e, NEW p \in Nat, NEW marks, Book(e),
           \/ FreeAt(e, p, p)
           \/ \E o \in Nat : OpenAt(e, o) /\ o + 1 <= p /\ p < o + Horizon + 1,
           Money(e, s, marks, p)
    PROVE  /\ \A j \in DOMAIN e.ledger :
                /\ e.ledger[j].entry \in Nat /\ e.ledger[j].exit \in Nat
                /\ Trading!WindowStart <= e.ledger[j].entry
                /\ e.ledger[j].entry < e.ledger[j].exit
                /\ e.ledger[j].exit <= Trading!WindowEnd /\ e.ledger[j].exit <= p
                /\ e.ledger[j].exit = p =>
                      e.trade = Trading!NoTrade /\ Worth(e.ledger) = e.ledger[j].after
           /\ e.trade # Trading!NoTrade =>
                /\ e.trade.entry \in Nat /\ Trading!WindowStart <= e.trade.entry
                /\ e.trade.entry <= p /\ p < Trading!WindowEnd
<1>0. Horizon \in Nat /\ Horizon > 0 /\ None \notin Nat /\ Trading!WindowStart \in Nat
      /\ Trading!WindowEnd \in Nat
  BY WorldIs
<1>1. ASSUME NEW j \in DOMAIN e.ledger
      PROVE  /\ e.ledger[j].entry \in Nat /\ e.ledger[j].exit \in Nat
             /\ Trading!WindowStart <= e.ledger[j].entry
             /\ e.ledger[j].entry < e.ledger[j].exit
             /\ e.ledger[j].exit <= Trading!WindowEnd /\ e.ledger[j].exit <= p
             /\ e.ledger[j].exit = p =>
                   e.trade = Trading!NoTrade /\ Worth(e.ledger) = e.ledger[j].after
  <2> DEFINE t == e.ledger[j]
  <2>1. Spanning(t) /\ SoldBy(s, t)
    BY <1>1 DEF Book, Disjoint, Money, Accounted
  <2> HIDE DEF t
  <2>2. /\ t.entry \in Nat /\ t.exit \in Nat /\ Trading!WindowStart <= t.entry
        /\ t.entry < t.exit /\ t.exit <= Trading!WindowEnd
    BY <2>1, SoldAbove
  <2>3. CASE FreeAt(e, p, p)
    <3>1. t.exit <= p /\ e.trade = Trading!NoTrade
      BY <1>1, <2>3 DEF FreeAt, EndsBy, t
    <3>2. ASSUME t.exit = p PROVE Worth(e.ledger) = t.after
      <4> DEFINE n == Len(e.ledger)
      <4>1. n \in Nat /\ DOMAIN e.ledger = 1..n /\ j \in 1..n
        BY <1>1 DEF Book, Disjoint
      <4>2. n \in DOMAIN e.ledger
        BY <4>1
      <4>3. /\ e.ledger[n].exit <= p /\ Spanning(e.ledger[n])
            /\ j < n => t.exit <= e.ledger[n].signal
        BY <1>1, <2>3, <4>2 DEF FreeAt, EndsBy, Book, Disjoint, t
      <4> HIDE DEF n
      <4>4. e.ledger[n].signal \in Nat /\ e.ledger[n].exit = e.ledger[n].signal + Horizon + 1
        BY <4>3 DEF Spanning
      <4>5. j = n
        BY <1>0, <3>2, <4>1, <4>3, <4>4
      <4>6. n + 1 # 1 /\ (n + 1) - 1 = n
        BY <4>1
      <4> QED
        BY <4>5, <4>6 DEF Worth, Left, t, n
    <3> QED
      BY <2>2, <3>1, <3>2 DEF t
  <2>4. CASE \E o \in Nat : OpenAt(e, o) /\ o + 1 <= p /\ p < o + Horizon + 1
    <3>1. PICK o \in Nat : OpenAt(e, o) /\ o + 1 <= p
      BY <2>4
    <3>2. t.exit <= o
      BY <1>1, <3>1 DEF OpenAt, EndsBy, t
    <3>3. t.exit < p
      BY <2>2, <3>1, <3>2
    <3> QED
      BY <2>2, <3>3 DEF t
  <2> QED
    BY <2>3, <2>4
<1>2. ASSUME e.trade # Trading!NoTrade
      PROVE  /\ e.trade.entry \in Nat /\ Trading!WindowStart <= e.trade.entry
             /\ e.trade.entry <= p /\ p < Trading!WindowEnd
  <2>1. PICK o \in Nat : OpenAt(e, o) /\ o + 1 <= p /\ p < o + Horizon + 1
    BY <1>2 DEF FreeAt
  <2>2. e.trade.signal = o /\ e.trade.entry = o + 1 /\ e.exit = o + Horizon + 1
    BY <2>1 DEF OpenAt
  <2>3. o \in positive
    BY <1>2, <2>2 DEF Money, BoughtBy
  <2>4. Trading!WindowStart <= o + 1
    BY <2>3, WorldIs
  <2>5. e.exit # None
    BY <1>0, <2>2
  <2>6. e.exit <= Trading!WindowEnd
    BY <2>5 DEF Money
  <2> QED
    BY <1>0, <2>1, <2>2, <2>4, <2>6
<1> QED
  BY <1>1, <1>2

LEMMA EquityIs ==
    ASSUME NEW e, NEW p
    PROVE  Trading!Equity(e, p) = IF e.trade = Trading!NoTrade THEN e.cash
                                                               ELSE e.quantity ** Price(p)
BY SameFractions, Zenon DEF Trading!Equity, Price

LEMMA MoneyMarked ==
    ASSUME World, NEW s \in DOMAIN Scenarios, NEW e, NEW p \in Nat, NEW marks, Book(e),
           \/ FreeAt(e, p, p)
           \/ \E o \in Nat : OpenAt(e, o) /\ o + 1 <= p /\ p < o + Horizon + 1,
           Money(e, s, marks, p)
    PROVE  Money(e, s, IF p \in Trading!WindowStart..Trading!WindowEnd
                       THEN Append(marks, [equity |-> Trading!Equity(e, p),
                                           open |-> e.trade # Trading!NoTrade])
                       ELSE marks, p + 1)
<1> DEFINE w == Trading!WindowStart
           z == Trading!WindowEnd
           m == [equity |-> Trading!Equity(e, p), open |-> e.trade # Trading!NoTrade]
           new == IF p \in w..z THEN Append(marks, m) ELSE marks
<1>0. w \in Nat /\ z \in Nat /\ w < z
  BY WorldIs
<1>1. m.equity = IF e.trade = Trading!NoTrade THEN e.cash ELSE e.quantity ** Price(p)
  BY EquityIs
<1>2. PICK S : marks \in Seq(S)
  BY DEF Money
<1> HIDE DEF w, z, m
<1>3. Len(marks) = Marks(p)
  BY DEF Money
<1>4. /\ \A j \in DOMAIN e.ledger :
            /\ e.ledger[j].entry \in Nat /\ e.ledger[j].exit \in Nat
            /\ w <= e.ledger[j].entry
            /\ e.ledger[j].entry < e.ledger[j].exit
            /\ e.ledger[j].exit <= z /\ e.ledger[j].exit <= p
            /\ e.ledger[j].exit = p =>
                  e.trade = Trading!NoTrade /\ Worth(e.ledger) = e.ledger[j].after
      /\ e.trade # Trading!NoTrade =>
            /\ e.trade.entry \in Nat /\ w <= e.trade.entry
            /\ e.trade.entry <= p /\ p < z
  BY TradesStand DEF w, z
<1>5. /\ Accounted(s, e.ledger)
      /\ e.trade = Trading!NoTrade => e.cash = Worth(e.ledger)
      /\ e.trade # Trading!NoTrade =>
            BoughtBy(s, e.trade) /\ e.trade.before = Worth(e.ledger) /\ e.quantity = e.trade.quantity
      /\ e.exit # None => e.exit <= Trading!WindowEnd
      /\ e.pending # None => e.pending - 1 \in positive
  BY DEF Money
\* The new marks: those before, and that of bar p.
<1>6. /\ \E Q : new \in Seq(Q)
      /\ Len(new) = Marks(p + 1)
      /\ \A q \in Nat : \A x : w <= q /\ q <= z /\ q < p /\ MarkedAt(marks, q, x) => MarkedAt(new, q, x)
      /\ p \in w..z => MarkedAt(new, p, m.equity)
  <2>1. CASE p \in w..z
    <3>1. Len(marks) = p - w /\ Marks(p + 1) = p - w + 1
      BY <1>0, <1>3, <2>1 DEF Marks, w, z
    <3>2. new = Append(marks, m) /\ w <= p
      BY <1>0, <2>1
    <3> HIDE DEF new
    <3>3. OneMore(marks, Append(marks, m), w, p, m)
      BY <1>0, <1>2, <3>1, <3>2, MarksStay
    <3>4. /\ \E Q : new \in Seq(Q)
          /\ Len(new) = p - w + 1
          /\ new[p - w + 1] = m
          /\ \A q \in Nat : w <= q /\ q < p => new[q - w + 1] = marks[q - w + 1]
      BY <3>2, <3>3 DEF OneMore
    <3> QED
      BY <3>1, <3>4 DEF MarkedAt, w
  <2>2. CASE p \notin w..z
    <3>1. new = marks
      BY <2>2
    <3>2. Marks(p + 1) = Marks(p)
      BY <1>0, <2>2 DEF Marks, w, z
    <3> QED
      BY <1>2, <1>3, <2>2, <3>1, <3>2
  <2> QED
    BY <2>1, <2>2
<1> HIDE DEF new
<1>7. ASSUME NEW j \in DOMAIN e.ledger
      PROVE  /\ e.ledger[j].entry < p + 1 => MarkedAt(new, e.ledger[j].entry,
                                                      e.ledger[j].quantity ** Price(e.ledger[j].entry))
             /\ e.ledger[j].exit < p + 1 => MarkedAt(new, e.ledger[j].exit, e.ledger[j].after)
  <2> DEFINE t == e.ledger[j]
  <2>1. /\ t.entry \in Nat /\ t.exit \in Nat /\ w <= t.entry /\ t.entry < t.exit
        /\ t.exit <= z /\ t.exit <= p
        /\ t.exit = p => e.trade = Trading!NoTrade /\ Worth(e.ledger) = t.after
    BY <1>4, <1>7
  <2>2. /\ t.entry < p => MarkedAt(marks, t.entry, t.quantity ** Price(t.entry))
        /\ t.exit < p => MarkedAt(marks, t.exit, t.after)
    BY <1>7 DEF Money
  <2> HIDE DEF t
  <2>3. MarkedAt(new, t.entry, t.quantity ** Price(t.entry))
    <3>1. t.entry < p /\ t.entry <= z
      BY <1>0, <2>1
    <3> QED
      BY <1>6, <2>1, <2>2, <3>1
  <2>4. MarkedAt(new, t.exit, t.after)
    <3>1. CASE t.exit < p
      <4>1. w <= t.exit
        BY <1>0, <2>1
      <4> QED
        BY <1>6, <2>1, <2>2, <3>1, <4>1
    <3>2. CASE t.exit = p
      <4>1. p \in w..z
        BY <1>0, <2>1, <3>2
      <4>2. m.equity = t.after
        BY <1>1, <1>5, <2>1, <3>2
      <4> QED
        BY <1>6, <3>2, <4>1, <4>2
    <3> QED
      BY <2>1, <3>1, <3>2
  <2> QED
    BY <2>3, <2>4 DEF t
<1>8. ASSUME e.trade # Trading!NoTrade
      PROVE  MarkedAt(new, e.trade.entry, e.quantity ** Price(e.trade.entry))
  <2>1. /\ e.trade.entry \in Nat /\ w <= e.trade.entry /\ e.trade.entry <= p /\ p < z
    BY <1>4, <1>8
  <2>2. CASE e.trade.entry < p
    <3>1. MarkedAt(marks, e.trade.entry, e.quantity ** Price(e.trade.entry))
      BY <1>8, <2>2 DEF Money
    <3>2. e.trade.entry <= z
      BY <1>0, <2>1
    <3> QED
      BY <1>6, <2>1, <2>2, <3>1, <3>2
  <2>3. CASE e.trade.entry = p
    <3>1. p \in w..z
      BY <1>0, <2>1, <2>3
    <3> QED
      BY <1>1, <1>6, <1>8, <2>3, <3>1
  <2> QED
    BY <2>1, <2>2, <2>3
<1>9. ASSUME p + 1 > z PROVE MarkedAt(new, z, Worth(e.ledger))
  <2>1. e.trade = Trading!NoTrade
    BY <1>0, <1>4, <1>9
  <2>2. CASE p = z
    <3>1. p \in w..z
      BY <1>0, <2>2
    <3> QED
      BY <1>1, <1>5, <1>6, <2>1, <2>2, <3>1
  <2>3. CASE p # z
    <3>1. p > z /\ z < p
      BY <1>0, <1>9, <2>3
    <3>2. MarkedAt(marks, z, Worth(e.ledger))
      BY <3>1 DEF Money, z
    <3> QED
      BY <1>0, <1>6, <3>1, <3>2
  <2> QED
    BY <2>2, <2>3
<1>10. Money(e, s, new, p + 1)
  BY <1>5, <1>6, <1>7, <1>8, <1>9 DEF Money, z
<1> QED
  BY <1>10 DEF new, m, w, z

LEMMA AboveZero == \A x : Positive(x) => x \succ Zero
<1> SUFFICES ASSUME NEW x, Positive(x) PROVE x \succ Zero
  OBVIOUS
<1>1. x[1] \in Int /\ x[2] \in Int /\ x[1] > 0
  BY RationalIs DEF Positive
<1> QED
  BY <1>1 DEF \succ, Zero

LEMMA MoneyDecided ==
    ASSUME World, NEW s \in DOMAIN Scenarios, NEW e, NEW p \in Nat, NEW marks, NEW n, Book(e),
           Money(e, s, marks, n)
    PROVE  Money(Trading!Decided(e, s, p), s, marks, n)
<1> DEFINE c == Trading!Decided(e, s, p)
<1>1. CASE /\ p \in positive
           /\ e.trade = Trading!NoTrade /\ e.pending = None
           /\ p + Horizon + 1 <= Trading!WindowEnd
  <2>1. c = [e EXCEPT !.pending = p + 1, !.exit = p + Horizon + 1]
    BY <1>1 DEF Trading!Decided
  <2> HIDE DEF c
  <2>2. /\ c.pending = p + 1 /\ c.exit = p + Horizon + 1
        /\ c.trade = e.trade /\ c.ledger = e.ledger /\ c.cash = e.cash /\ c.quantity = e.quantity
    BY <2>1 DEF Book, BookFields
  <2>3. (p + 1) - 1 = p
    OBVIOUS
  <2> QED
    BY <1>1, <2>2, <2>3 DEF Money, c
<1>2. CASE ~(/\ p \in positive
             /\ e.trade = Trading!NoTrade /\ e.pending = None
             /\ p + Horizon + 1 <= Trading!WindowEnd)
  <2>1. c = e
    BY <1>2 DEF Trading!Decided
  <2> QED
    BY <2>1
<1> QED
  BY <1>1, <1>2

\* A bar is not refused, and its turn keeps the accounts.
LEMMA BarMoney ==
    ASSUME World, NEW s \in DOMAIN Scenarios, NEW b, NEW p \in Nat, NEW marks,
           BookInv(b, p), Money(b, s, marks, p)
    PROVE  LET e == Trading!Traded(b, s, p)
           IN /\ ~Trading!BarRefused(b, s, p)
              /\ Money(Trading!Walked(b, s, p), s,
                       IF p \in Trading!WindowStart..Trading!WindowEnd
                       THEN Append(marks, [equity |-> Trading!Equity(e, p),
                                           open |-> e.trade # Trading!NoTrade])
                       ELSE marks, p + 1)
<1> DEFINE x == Trading!Exited(b, s, p)
           e == Trading!Entered(x, s, p)
           more == IF p \in Trading!WindowStart..Trading!WindowEnd
                   THEN Append(marks, [equity |-> Trading!Equity(e, p),
                                       open |-> e.trade # Trading!NoTrade])
                   ELSE marks
<1>0. /\ Horizon \in Nat /\ Horizon > 0 /\ None \notin Nat /\ Trading!BacktestAssumption
      /\ positive \subseteq Nat
  BY WorldIs DEF World
<1>1. /\ Book(x)
      /\ \/ FreeAt(x, p, p)
         \/ OrderedAt(x, p)
         \/ \E o \in Nat : OpenAt(x, o) /\ o + 1 < p /\ p < o + Horizon + 1
  BY <1>0, ExitedInv
<1>2. Money(x, s, marks, p)
  BY MoneyExited
<1> HIDE DEF x
<1>3. /\ Book(e)
      /\ \/ FreeAt(e, p, p)
         \/ \E o \in Nat : OpenAt(e, o) /\ o + 1 <= p /\ p < o + Horizon + 1
  BY <1>0, <1>1, EnteredInv
<1>4. Money(e, s, marks, p)
  BY <1>1, <1>2, MoneyEntered
<1> HIDE DEF e
<1>5. Money(e, s, more, p + 1)
  BY <1>3, <1>4, MoneyMarked
<1> HIDE DEF more
<1>6. Money(Trading!Decided(e, s, p), s, more, p + 1)
  BY <1>3, <1>5, MoneyDecided
<1>7. ASSUME b.exit = p PROVE b.trade # Trading!NoTrade /\ Trading!\succ(b.quantity, Trading!Zero)
  <2>1. PICK o \in Nat : OpenAt(b, o)
    <3>1. ~FreeAt(b, p - 1, p)
      BY <1>0, <1>7 DEF FreeAt
    <3>2. ~OrderedAt(b, p)
      BY <1>0, <1>7 DEF OrderedAt
    <3> QED
      BY <3>1, <3>2 DEF BookInv
  <2>2. b.trade # Trading!NoTrade
    <3>1. DOMAIN b.trade # {}
      BY <2>1 DEF OpenAt, TradeFields
    <3>2. DOMAIN Trading!NoTrade = {}
      BY DEF Trading!NoTrade
    <3> QED
      BY <3>1, <3>2
  <2> DEFINE t == b.trade
  <2>3. BoughtBy(s, t) /\ b.quantity = t.quantity /\ t.signal = o /\ t.entry = o + 1
    BY <2>1, <2>2 DEF Money, OpenAt
  <2>4. /\ Positive(t.before) /\ t.signal \in positive
        /\ t.quantity = Bought(t.before, Rate(s), Cost(s), Price(t.entry))
    BY <2>3 DEF BoughtBy
  <2> HIDE DEF t
  <2>5. Share(Rate(s)) /\ Share(Cost(s))
    BY ScenarioRates, <1>0
  <2>6. Positive(Price(t.entry))
    <3>1. b.exit # None /\ b.exit = o + Horizon + 1
      BY <1>0, <1>7, <2>1 DEF OpenAt
    <3>2. b.exit <= Trading!WindowEnd
      BY <3>1 DEF Money
    <3>3. t.entry \in Nat /\ t.entry <= Trading!WindowEnd
      BY <1>0, <2>3, <3>1, <3>2, WorldIs
    <3> QED
      BY <3>3, WorldIs
  <2>7. Positive(b.quantity)
    <3> DEFINE o1 == Price(t.entry)
               q == Bought(t.before, Rate(s), Cost(s), o1)
    <3>1. Positive(q) /\ Positive(Gross(q, Cost(s), o1))
      BY <2>4, <2>5, <2>6, TradeAbove
    <3> QED
      BY <2>3, <2>4, <3>1
  <2> QED
    BY <2>2, <2>7, AboveZero, SameFractions
<1>8. ASSUME b.pending = p PROVE x.trade = Trading!NoTrade
  <2>1. OrderedAt(b, p)
    BY <1>0, <1>8 DEF BookInv, FreeAt, OpenAt
  <2>2. b.exit # p
    BY <1>0, <2>1 DEF OrderedAt
  <2>3. x = b
    BY <2>2 DEF Trading!Exited, x
  <2> QED
    BY <2>1, <2>3 DEF OrderedAt
<1>9. ~Trading!BarRefused(b, s, p)
  BY <1>7, <1>8 DEF Trading!BarRefused, x
<1> QED
  BY <1>6, <1>9 DEF Trading!Walked, Trading!Traded, x, e, more

\* At the end of the market nothing is open or ordered.
LEMMA AtTheEnd ==
    ASSUME World, NEW s, NEW b, NEW n \in Nat, NEW marks, Trading!WindowEnd < n,
           BookInv(b, n), Money(b, s, marks, n)
    PROVE  b.trade = Trading!NoTrade /\ b.pending = None /\ b.exit = None
<1>0. Horizon \in Nat /\ None \notin Nat /\ Trading!WindowEnd \in Nat
  BY WorldIs
<1>1. ~OrderedAt(b, n)
  <2> SUFFICES ASSUME OrderedAt(b, n) PROVE FALSE
    OBVIOUS
  <2>1. b.exit = n + Horizon /\ b.exit # None
    BY <1>0 DEF OrderedAt
  <2>2. b.exit <= Trading!WindowEnd
    BY <2>1 DEF Money
  <2> QED
    BY <1>0, <2>1, <2>2
<1>2. ~\E o \in Nat : OpenAt(b, o) /\ o + 1 < n /\ n <= o + Horizon + 1
  <2> SUFFICES ASSUME NEW o \in Nat, OpenAt(b, o), n <= o + Horizon + 1 PROVE FALSE
    OBVIOUS
  <2>1. b.exit = o + Horizon + 1 /\ b.exit # None
    BY <1>0 DEF OpenAt
  <2>2. b.exit <= Trading!WindowEnd
    BY <2>1 DEF Money
  <2> QED
    BY <1>0, <2>1, <2>2
<1> QED
  BY <1>1, <1>2 DEF BookInv, FreeAt

\* A trade that pays its fees agrees with its marks.
LEMMA OneReconciles ==
    ASSUME NEW s, Share(Rate(s)), Share(Cost(s)), NEW t, NEW marks,
           Positive(t.before), Positive(Price(t.entry)), Positive(Price(t.exit)),
           t.entryFee = t.before ** Rate(s),
           t.quantity = Bought(t.before, Rate(s), Cost(s), Price(t.entry)),
           t.exitFee = Gross(t.quantity, Cost(s), Price(t.exit)) ** Rate(s),
           t.after = Sold(t.quantity, Rate(s), Cost(s), Price(t.exit)),
           MarkedAt(marks, t.entry, t.quantity ** Price(t.entry)),
           MarkedAt(marks, t.exit, t.after)
    PROVE  Trading!TradeReconciles(s, t, t.before, marks)
<1> DEFINE o == Price(t.entry)
           p == Price(t.exit)
           gross == Gross(t.quantity, Cost(s), p)
<1>1. Positive(t.quantity)
  BY TradeAbove
<1>2. t.before -- (t.quantity ** o)
        = t.entryFee ++ (t.quantity ** ((o ** (One ++ Cost(s))) -- o))
  BY EntryBalances
<1>3. (t.quantity ** p) -- t.after
        = t.exitFee ++ (t.quantity ** (p -- (p ** (One -- Cost(s)))))
  BY <1>1, ExitBalances
<1>4. t.after = gross -- t.exitFee
  BY DEF Sold
<1>5. /\ marks[t.entry - Trading!WindowStart + 1].equity = t.quantity ** o
      /\ marks[t.exit - Trading!WindowStart + 1].equity = t.after
  BY DEF MarkedAt
<1> QED
  BY <1>2, <1>3, <1>4, <1>5, ReconcilesIs, Zenon

\* The profits of a ledger add up to what it leaves.
LEMMA PnlIs ==
    ASSUME NEW S, NEW ledger \in Seq(S),
           \A j \in DOMAIN ledger : ledger[j].before = Left(ledger, j) /\ Rational(ledger[j].after)
    PROVE  One ++ Trading!Pnl(ledger) = Worth(ledger) /\ Rational(Worth(ledger))
<1> DEFINE n == Len(ledger)
           gain(i) == ledger[i].after -- ledger[i].before
           sum == CHOOSE f : f = [i \in 0..n |->
                     IF i = 0 THEN Trading!Zero
                     ELSE Trading!++(f[i - 1], Trading!--(ledger[i].after, ledger[i].before))]
           w == [i \in 0..n |-> Left(ledger, i + 1) -- One]
<1>1. Trading!Pnl(ledger) = sum[n]
  BY Zenon DEF Trading!Pnl
<1>2. n \in Nat /\ DOMAIN ledger = 1..n
  OBVIOUS
<1> HIDE DEF n
<1>3. \A i \in 0..n : Rational(Left(ledger, i + 1))
  <2> SUFFICES ASSUME NEW i \in 0..n PROVE Rational(Left(ledger, i + 1))
    OBVIOUS
  <2>1. CASE i = 0
    BY <2>1, Units, UnitLaws DEF Left, Rational, Pos
  <2>2. CASE i # 0
    <3>1. i \in DOMAIN ledger /\ i + 1 # 1 /\ (i + 1) - 1 = i
      BY <1>2, <2>2
    <3> QED
      BY <3>1 DEF Left
  <2> QED
    BY <2>1, <2>2
<1>4. Rational(One) /\ One -- One = Zero
  <2>1. One -- One = Frac(0, 1)
    BY DEF --, One
  <2> QED
    BY <2>1, Units DEF Rational, Pos
<1>5. w[0] = Zero
  BY <1>2, <1>4 DEF Left
<1>6. ASSUME NEW i \in 0..n, i # 0
      PROVE  w[i] = w[i - 1] ++ gain(i)
  <2>1. i \in DOMAIN ledger /\ i - 1 \in 0..n /\ (i - 1) + 1 = i /\ i + 1 # 1 /\ (i + 1) - 1 = i
    BY <1>2, <1>6
  <2>2. Left(ledger, i + 1) = ledger[i].after /\ ledger[i].before = Left(ledger, i)
    BY <2>1 DEF Left
  <2>3. Rational(ledger[i].after) /\ Rational(ledger[i].before)
    BY <1>3, <2>1, <2>2
  <2>4. w[i] = ledger[i].after -- One /\ w[i - 1] = ledger[i].before -- One
    BY <2>1, <2>2
  <2>5. (ledger[i].before -- One) ++ (ledger[i].after -- ledger[i].before) = ledger[i].after -- One
    BY <1>4, <2>3, Telescopes
  <2> QED
    BY <2>4, <2>5
<1> HIDE DEF w
<1>7. w = [i \in 0..n |->
              IF i = 0 THEN Trading!Zero
              ELSE Trading!++(w[i - 1], Trading!--(ledger[i].after, ledger[i].before))]
  <2>1. \A i \in 0..n : w[i] = IF i = 0 THEN Trading!Zero
                              ELSE Trading!++(w[i - 1], Trading!--(ledger[i].after, ledger[i].before))
    BY <1>5, <1>6, SameFractions, Zenon
  <2>2. w = [i \in 0..n |-> w[i]]
    BY DEF w
  <2> QED
    BY <2>1, <2>2, Zenon
<1>8. sum = [i \in 0..n |->
              IF i = 0 THEN Trading!Zero
              ELSE Trading!++(sum[i - 1], Trading!--(ledger[i].after, ledger[i].before))]
  BY <1>7, Zenon
<1> HIDE DEF sum
<1>9. \A i \in 0..n : sum[i] = IF i = 0 THEN Zero ELSE sum[i - 1] ++ gain(i)
  BY <1>8, SameFractions, Zenon
<1> HIDE DEF gain
<1>10. \A i \in 0..n : sum[i] = w[i]
  <2> DEFINE T == {i \in 0..n : sum[i] # w[i]}
  <2> SUFFICES ASSUME T # {} PROVE FALSE
    OBVIOUS
  <2>1. T \subseteq Nat
    BY <1>2
  <2>2. PICK k \in T : \A j \in T : k <= j
    BY <2>1, LeastElement
  <2>3. k \in 0..n /\ sum[k] # w[k]
    OBVIOUS
  <2>4. k # 0
    BY <1>5, <1>9, <2>3
  <2>5. k - 1 \in 0..n /\ ~(k <= k - 1)
    BY <1>2, <2>3, <2>4
  <2>6. sum[k - 1] = w[k - 1]
    BY <2>2, <2>5
  <2> QED
    BY <1>6, <1>9, <2>3, <2>4, <2>6
<1>11. n \in 0..n /\ w[n] = Worth(ledger) -- One /\ Rational(Worth(ledger))
  BY <1>2, <1>3 DEF Worth, w, n
<1>12. One ++ (Worth(ledger) -- One) = Worth(ledger)
  BY <1>4, <1>11, TakesOff
<1> QED
  BY <1>1, <1>10, <1>11, <1>12

LEMMA ReconcilesWhen ==
    ASSUME NEW s, NEW ledger, NEW marks, NEW S, ledger \in Seq(S),
           \A j \in DOMAIN ledger :
              /\ ledger[j].before = Left(ledger, j) /\ Rational(ledger[j].after)
              /\ Trading!TradeReconciles(s, ledger[j], ledger[j].before, marks),
           marks[Len(marks)].equity = Worth(ledger)
    PROVE  Trading!Reconciles(s, ledger, marks)
<1>1. \A j \in DOMAIN ledger :
          Left(ledger, j) = IF j = 1 THEN Trading!Capital ELSE ledger[j - 1].after
  BY SameFractions DEF Left
<1>2. Trading!++(Trading!Capital, Trading!Pnl(ledger)) = One ++ Trading!Pnl(ledger)
  BY SameFractions, Zenon
<1>3. One ++ Trading!Pnl(ledger) = Worth(ledger)
  BY PnlIs
<1>4. Trading!Last(marks).equity = Worth(ledger)
  BY DEF Trading!Last
<1>5. ASSUME NEW j \in DOMAIN ledger
      PROVE  Trading!TradeReconciles(s, ledger[j],
                IF j = 1 THEN Trading!Capital ELSE ledger[j - 1].after, marks)
  <2>1. ledger[j].before = IF j = 1 THEN Trading!Capital ELSE ledger[j - 1].after
    BY <1>1, <1>5
  <2> QED
    BY <1>5, <2>1, Zenon
<1> QED
  BY <1>2, <1>3, <1>4, <1>5, Zenon DEF Trading!Reconciles

\* The accounts of a path at the end of the market.
LEMMA PathReconciles ==
    ASSUME World, NEW s \in DOMAIN Scenarios, NEW b, NEW n \in Nat, NEW marks,
           Trading!WindowEnd < n, Book(b), Money(b, s, marks, n)
    PROVE  /\ Trading!Reconciles(s, b.ledger, marks)
           /\ PathMoney(s, [ledger |-> b.ledger, curve |-> marks])
<1> DEFINE w == Trading!WindowStart
           z == Trading!WindowEnd
           ledger == b.ledger
<1>1. w \in Nat /\ z \in Nat /\ w < z
  BY WorldIs
<1>2. PICK S : ledger \in Seq(S)
  BY DEF Book, Disjoint
<1>3. /\ Accounted(s, ledger)
      /\ \A j \in DOMAIN ledger :
            /\ ledger[j].entry < n => MarkedAt(marks, ledger[j].entry,
                                               ledger[j].quantity ** Price(ledger[j].entry))
            /\ ledger[j].exit < n => MarkedAt(marks, ledger[j].exit, ledger[j].after)
      /\ \A j \in DOMAIN ledger : Spanning(ledger[j])
      /\ Len(marks) = Marks(n)
      /\ MarkedAt(marks, z, Worth(ledger))
  BY DEF Money, Book, Disjoint
<1>4. Share(Rate(s)) /\ Share(Cost(s))
  BY ScenarioRates DEF World
<1> HIDE DEF ledger
<1>5. ASSUME NEW j \in DOMAIN ledger
      PROVE  /\ ledger[j].before = Left(ledger, j) /\ Rational(ledger[j].after)
             /\ Trading!TradeReconciles(s, ledger[j], ledger[j].before, marks)
  <2> DEFINE t == ledger[j]
  <2>1. SoldBy(s, t) /\ Spanning(t) /\ t.before = Left(ledger, j)
    BY <1>3, <1>5 DEF Accounted
  <2>2. /\ t.entry < n => MarkedAt(marks, t.entry, t.quantity ** Price(t.entry))
        /\ t.exit < n => MarkedAt(marks, t.exit, t.after)
    BY <1>3, <1>5
  <2> HIDE DEF t
  <2>3. /\ t.entry \in Nat /\ t.exit \in Nat /\ t.entry < t.exit /\ t.exit <= z
        /\ Positive(Price(t.entry)) /\ Positive(Price(t.exit)) /\ Positive(t.before)
        /\ Positive(t.after)
    BY <2>1, SoldAbove
  <2>4. t.entry < n /\ t.exit < n
    BY <1>1, <2>3
  <2>5. /\ t.entryFee = t.before ** Rate(s)
        /\ t.quantity = Bought(t.before, Rate(s), Cost(s), Price(t.entry))
        /\ t.exitFee = Gross(t.quantity, Cost(s), Price(t.exit)) ** Rate(s)
        /\ t.after = Sold(t.quantity, Rate(s), Cost(s), Price(t.exit))
    BY <2>1 DEF SoldBy, BoughtBy
  <2>6. Trading!TradeReconciles(s, t, t.before, marks)
    BY <1>4, <2>2, <2>3, <2>4, <2>5, OneReconciles
  <2>7. Rational(t.after)
    BY <2>3, PositiveIs
  <2> QED
    BY <2>1, <2>6, <2>7 DEF t
<1>6. marks[Len(marks)].equity = Worth(ledger)
  <2>1. Marks(n) = z - w + 1
    BY <1>1 DEF Marks
  <2> QED
    BY <1>3, <2>1 DEF MarkedAt
<1>7. Trading!Reconciles(s, ledger, marks)
  BY <1>2, <1>5, <1>6, ReconcilesWhen
<1>8. PathMoney(s, [ledger |-> ledger, curve |-> marks])
  BY <1>3, <1>6 DEF PathMoney, Trading!Final, Trading!Last
<1> QED
  BY <1>7, <1>8 DEF ledger

\* Buy and hold is one trade over the window.
LEMMA HeldIs ==
    ASSUME NEW s
    PROVE  LET t == Trading!HeldTrade(s)
               w == Trading!WindowStart
               z == Trading!WindowEnd
           IN /\ t.entry = w /\ t.exit = z /\ t.before = One
              /\ t.entryFee = One ** Rate(s)
              /\ t.quantity = Bought(One, Rate(s), Cost(s), Price(w))
              /\ t.exitFee = Gross(t.quantity, Cost(s), Price(z)) ** Rate(s)
              /\ t.after = Sold(t.quantity, Rate(s), Cost(s), Price(z))
<1> DEFINE w == Trading!WindowStart
           z == Trading!WindowEnd
           fee == Trading!**(Trading!Capital, Trading!Fee(s))
           quantity == Trading!//(Trading!--(Trading!Capital, fee), Trading!BuyAt(s, w))
           gross == Trading!**(quantity, Trading!SellAt(s, z))
           exitFee == Trading!**(gross, Trading!Fee(s))
           after == Trading!--(gross, exitFee)
<1>1. fee = One ** Rate(s) /\ Trading!Capital = One
  BY SameFractions, FillsAre, Zenon
<1>2. quantity = Bought(One, Rate(s), Cost(s), Price(w))
  BY <1>1, SameFractions, FillsAre, Zenon DEF Bought
<1>3. gross = Gross(quantity, Cost(s), Price(z))
  BY SameFractions, FillsAre, Zenon DEF Gross
<1>4. exitFee = gross ** Rate(s)
  BY SameFractions, FillsAre, Zenon
<1>5. after = gross -- (gross ** Rate(s))
  BY SameFractions, FillsAre, Zenon
<1>6. after = Sold(quantity, Rate(s), Cost(s), Price(z))
  BY <1>3, <1>5, Zenon DEF Sold
<1>7. Trading!HeldTrade(s) =
          [signal |-> w - 1, entry |-> w, exit |-> z, quantity |-> quantity,
           before |-> Trading!Capital, entryFee |-> fee, exitFee |-> exitFee, after |-> after]
  BY Zenon DEF Trading!HeldTrade
<1> HIDE DEF fee, quantity, gross, exitFee, after
<1> DEFINE t == Trading!HeldTrade(s)
<1>8. /\ t.entry = w /\ t.exit = z /\ t.before = Trading!Capital
      /\ t.entryFee = fee /\ t.quantity = quantity /\ t.exitFee = exitFee /\ t.after = after
  BY <1>7
<1> QED
  BY <1>1, <1>2, <1>3, <1>4, <1>6, <1>8, Zenon

LEMMA HeldCurveIs ==
    ASSUME World, NEW s
    PROVE  LET t == Trading!HeldTrade(s)
               marks == Trading!HeldCurve(s)
               w == Trading!WindowStart
               z == Trading!WindowEnd
           IN /\ Len(marks) = z - w + 1
              /\ MarkedAt(marks, w, t.quantity ** Price(w))
              /\ MarkedAt(marks, z, t.after)
<1> DEFINE w == Trading!WindowStart
           z == Trading!WindowEnd
           t == Trading!HeldTrade(s)
           marks == Trading!HeldCurve(s)
           mark(i) == IF w + i - 1 = z THEN t.after
                      ELSE Trading!**(t.quantity, Trading!Open(w + i - 1))
<1>1. w \in Nat /\ z \in Nat /\ w < z
  BY WorldIs
<1>2. marks = [i \in 1..(z - w + 1) |-> [equity |-> mark(i), open |-> w + i - 1 < z]]
  BY Zenon DEF Trading!HeldCurve
<1> HIDE DEF w, z, t, marks
<1>3. 1 \in 1..(z - w + 1) /\ z - w + 1 \in 1..(z - w + 1) /\ z - w + 1 \in Nat
  BY <1>1
<1>4. mark(1) = Trading!**(t.quantity, Trading!Open(w)) /\ mark(z - w + 1) = t.after
  BY <1>1
<1>5. mark(1) = t.quantity ** Price(w)
  BY <1>4, SameFractions, Zenon DEF Price
<1> HIDE DEF mark
<1>6. marks[1].equity = mark(1) /\ marks[z - w + 1].equity = mark(z - w + 1)
  BY <1>2, <1>3
<1>7. Len(marks) = z - w + 1
  BY <1>2, <1>3
<1>8. (w - w) + 1 = 1
  BY <1>1
<1> QED
  BY <1>4, <1>5, <1>6, <1>7, <1>8 DEF MarkedAt, w, z, t, marks

LEMMA HeldReconciles ==
    ASSUME World, NEW s \in DOMAIN Scenarios
    PROVE  Trading!Reconciles(s, <<Trading!HeldTrade(s)>>, Trading!HeldCurve(s))
<1> DEFINE t == Trading!HeldTrade(s)
           marks == Trading!HeldCurve(s)
           w == Trading!WindowStart
           z == Trading!WindowEnd
           ledger == <<t>>
<1>1. w \in Nat /\ z \in Nat /\ w < z /\ Positive(Price(w)) /\ Positive(Price(z))
  BY WorldIs
<1>2. Share(Rate(s)) /\ Share(Cost(s)) /\ Positive(One)
  BY ScenarioRates, Units, PositiveIs DEF World
<1>3. /\ t.entry = w /\ t.exit = z /\ t.before = One
      /\ t.entryFee = One ** Rate(s)
      /\ t.quantity = Bought(One, Rate(s), Cost(s), Price(w))
      /\ t.exitFee = Gross(t.quantity, Cost(s), Price(z)) ** Rate(s)
      /\ t.after = Sold(t.quantity, Rate(s), Cost(s), Price(z))
  BY HeldIs
<1>4. /\ Len(marks) = z - w + 1
      /\ MarkedAt(marks, w, t.quantity ** Price(w))
      /\ MarkedAt(marks, z, t.after)
  BY HeldCurveIs
<1> HIDE DEF t, marks
<1>5. Trading!TradeReconciles(s, t, t.before, marks)
  BY <1>1, <1>2, <1>3, <1>4, OneReconciles
<1>6. t.after = Earned(One, Rate(s), Cost(s), Price(w), Price(z))
  BY <1>3 DEF Earned
<1>7. Rational(t.after)
  BY <1>1, <1>2, <1>6, TradeAbove, PositiveIs
<1>8. ledger \in Seq({t}) /\ DOMAIN ledger = {1} /\ ledger[1] = t /\ Len(ledger) = 1
  OBVIOUS
<1> HIDE DEF ledger
<1>9. Worth(ledger) = t.after /\ Left(ledger, 1) = One
  <2>1. Len(ledger) + 1 # 1 /\ (Len(ledger) + 1) - 1 = 1
    BY <1>8
  <2> QED
    BY <1>8, <2>1 DEF Worth, Left
<1>10. marks[Len(marks)].equity = Worth(ledger)
  BY <1>4, <1>9 DEF MarkedAt
<1>11. \A j \in DOMAIN ledger :
          /\ ledger[j].before = Left(ledger, j) /\ Rational(ledger[j].after)
          /\ Trading!TradeReconciles(s, ledger[j], ledger[j].before, marks)
  BY <1>3, <1>5, <1>7, <1>8, <1>9
<1>12. Trading!Reconciles(s, ledger, marks)
  BY <1>8, <1>10, <1>11, ReconcilesWhen
<1> QED
  BY <1>12 DEF ledger, t, marks

\* A ledger that answers what can be answered, with trades that fit the window.
Full(ledger) ==
    /\ Disjoint(ledger)
    /\ \A d \in positive \cap Trading!Exitable : Answered(ledger, d)
    /\ \A j \in DOMAIN ledger :
          ledger[j].signal \in positive /\ ledger[j].exit <= Trading!WindowEnd

LEMMA InTurn ==
    ASSUME Horizon \in Nat, NEW ledger, Disjoint(ledger), NEW i \in DOMAIN ledger,
           NEW j \in DOMAIN ledger
    PROVE  /\ i \in Nat /\ j \in Nat /\ ledger[i].signal \in Nat /\ ledger[j].signal \in Nat
           /\ ledger[i].exit = ledger[i].signal + Horizon + 1
           /\ i <= j => ledger[i].signal <= ledger[j].signal
           /\ i < j => ledger[i].exit <= ledger[j].signal
<1>1. i \in Nat /\ j \in Nat
  BY DEF Disjoint
<1>2. /\ ledger[i].signal \in Nat /\ ledger[j].signal \in Nat
      /\ ledger[i].exit = ledger[i].signal + Horizon + 1
  BY DEF Disjoint, Spanning
<1>3. i < j => ledger[i].exit <= ledger[j].signal
  BY DEF Disjoint
<1>4. i <= j => ledger[i].signal <= ledger[j].signal
  <2>1. CASE i < j
    BY <1>2, <1>3, <2>1
  <2>2. CASE i = j
    BY <1>2, <2>2
  <2> QED
    BY <1>1, <2>1, <2>2
<1> QED
  BY <1>1, <1>2, <1>3, <1>4

\* The decision of a trade of one ledger is held by a trade of another that does
\* not come before it, when those before it are the same.
LEMMA HeldLater ==
    ASSUME World, NEW f, NEW g, Full(f), Full(g), NEW i \in DOMAIN f,
           \A m \in DOMAIN f : m < i => m \in DOMAIN g /\ g[m].signal = f[m].signal
    PROVE  \E k \in DOMAIN g : i <= k /\ g[k].signal <= f[i].signal
<1>0. Horizon \in Nat /\ Horizon > 0 /\ Trading!WindowEnd \in Nat
  BY WorldIs
<1> DEFINE d == f[i].signal
<1>1. d \in positive /\ f[i].exit <= Trading!WindowEnd /\ f[i].exit = d + Horizon + 1 /\ d \in Nat
      /\ i \in Nat
  BY <1>0, InTurn DEF Full
<1>2. d \in Trading!Exitable
  <2>1. d + Horizon + 1 \in Trading!Bars
    BY <1>0, <1>1, WorldIs
  <2>2. d \in decisions
    BY <1>1 DEF World
  <2> QED
    BY <2>1, <2>2 DEF Trading!Exitable
<1> HIDE DEF d
<1>3. PICK k \in DOMAIN g : Holds(g[k], d)
  BY <1>1, <1>2 DEF Full, Answered
<1>4. g[k].signal \in Nat /\ g[k].exit = g[k].signal + Horizon + 1 /\ k \in Nat
  BY <1>0, InTurn DEF Full
<1>5. g[k].signal <= d /\ d < g[k].exit
  <2>1. g[k].entry = g[k].signal + 1
    BY DEF Full, Disjoint, Spanning
  <2> QED
    BY <1>0, <1>1, <1>3, <1>4, <2>1 DEF Holds
<1>6. i <= k
  <2> SUFFICES ASSUME k < i PROVE FALSE
    BY <1>1, <1>4
  <2>1. k \in DOMAIN f
    <3>1. PICK S : f \in Seq(S)
      BY DEF Full, Disjoint
    <3>2. PICK R : g \in Seq(R)
      BY DEF Full, Disjoint
    <3> QED
      BY <3>1, <3>2
  <2>2. g[k].signal = f[k].signal
    BY <2>1
  <2>3. f[k].exit = f[k].signal + Horizon + 1 /\ f[k].exit <= f[i].signal
    BY <1>0, <2>1, InTurn DEF Full
  <2>4. g[k].exit = f[k].exit
    BY <1>4, <2>2, <2>3
  <2>5. f[k].exit \in Nat
    BY <1>0, <1>4, <2>2, <2>3
  <2> QED
    BY <1>1, <1>5, <2>3, <2>4, <2>5 DEF d
<1> QED
  BY <1>5, <1>6 DEF d

LEMMA Follows ==
    ASSUME World, NEW f, NEW g, Full(f), Full(g)
    PROVE  \A i \in DOMAIN f : i \in DOMAIN g /\ g[i].signal = f[i].signal
<1>0. Horizon \in Nat
  BY WorldIs
<1>1. PICK S : f \in Seq(S)
  BY DEF Full, Disjoint
<1>2. PICK R : g \in Seq(R)
  BY DEF Full, Disjoint
<1> DEFINE T == {i \in DOMAIN f : ~(i \in DOMAIN g /\ g[i].signal = f[i].signal)}
<1> SUFFICES ASSUME T # {} PROVE FALSE
  OBVIOUS
<1>3. T \subseteq Nat
  BY <1>1
<1>4. PICK i \in T : \A j \in T : i <= j
  BY <1>3, LeastElement
<1>5. i \in DOMAIN f /\ i \in Nat
  BY <1>1
<1>6. \A m \in DOMAIN f : m < i => m \in DOMAIN g /\ g[m].signal = f[m].signal
  <2> SUFFICES ASSUME NEW m \in DOMAIN f, m < i PROVE m \notin T
    OBVIOUS
  <2>1. m \in Nat /\ ~(i <= m)
    BY <1>1, <1>5
  <2> QED
    BY <1>4, <2>1
<1>7. PICK k \in DOMAIN g : i <= k /\ g[k].signal <= f[i].signal
  BY <1>5, <1>6, HeldLater
<1>8. i \in DOMAIN g
  BY <1>1, <1>2, <1>5, <1>7
<1>9. \A m \in DOMAIN g : m < i => m \in DOMAIN f /\ f[m].signal = g[m].signal
  <2> SUFFICES ASSUME NEW m \in DOMAIN g, m < i
               PROVE  m \in DOMAIN f /\ f[m].signal = g[m].signal
    OBVIOUS
  <2>1. m \in DOMAIN f
    BY <1>1, <1>2, <1>5
  <2> QED
    BY <1>6, <2>1
<1>10. PICK l \in DOMAIN f : i <= l /\ f[l].signal <= g[i].signal
  BY <1>8, <1>9, HeldLater
<1>11. /\ f[i].signal \in Nat /\ f[l].signal \in Nat /\ f[i].signal <= f[l].signal
       /\ g[i].signal \in Nat /\ g[k].signal \in Nat /\ g[i].signal <= g[k].signal
  BY <1>0, <1>5, <1>7, <1>8, <1>10, InTurn DEF Full
<1>12. f[i].signal = g[i].signal
  BY <1>7, <1>10, <1>11
<1> QED
  BY <1>8, <1>12

\* Two full ledgers trade at the same times.
LEMMA SameSchedule ==
    ASSUME World, NEW f, NEW g, Full(f), Full(g)
    PROVE  /\ Len(f) = Len(g) /\ Len(f) \in Nat
           /\ DOMAIN f = 1..Len(f) /\ DOMAIN g = 1..Len(f)
           /\ \A i \in DOMAIN f : /\ f[i].entry = g[i].entry /\ f[i].exit = g[i].exit
                                  /\ i \in Nat
<1>1. PICK S : f \in Seq(S)
  BY DEF Full, Disjoint
<1>2. PICK R : g \in Seq(R)
  BY DEF Full, Disjoint
<1>3. \A i \in DOMAIN f : i \in DOMAIN g /\ g[i].signal = f[i].signal
  BY Follows
<1>4. \A i \in DOMAIN g : i \in DOMAIN f
  BY Follows
<1>5. Len(f) = Len(g) /\ Len(f) \in Nat /\ DOMAIN f = 1..Len(f) /\ DOMAIN g = 1..Len(f)
  <2> DEFINE n == Len(f)
             m == Len(g)
  <2>1. n \in Nat /\ m \in Nat /\ DOMAIN f = 1..n /\ DOMAIN g = 1..m
    BY <1>1, <1>2
  <2> HIDE DEF n, m
  <2>2. n <= m
    <3>1. CASE n = 0
      BY <2>1, <3>1
    <3>2. CASE n # 0
      <4>1. n \in 1..n
        BY <2>1, <3>2
      <4>2. n \in 1..m
        BY <1>3, <2>1, <4>1
      <4> QED
        BY <2>1, <4>2
    <3> QED
      BY <3>1, <3>2
  <2>4. m <= n
    <3>1. CASE m = 0
      BY <2>1, <3>1
    <3>2. CASE m # 0
      <4>1. m \in 1..m
        BY <2>1, <3>2
      <4>2. m \in 1..n
        BY <1>4, <2>1, <4>1
      <4> QED
        BY <2>1, <4>2
    <3> QED
      BY <3>1, <3>2
  <2>3. n = m
    BY <2>1, <2>2, <2>4
  <2> QED
    BY <2>1, <2>3 DEF n, m
<1>6. \A i \in DOMAIN f : f[i].entry = g[i].entry /\ f[i].exit = g[i].exit
  BY <1>3 DEF Full, Disjoint, Spanning
<1> QED
  BY <1>5, <1>6

\* A dearer scenario is left with no more.
LEMMA DearerLeaves ==
    ASSUME World, NEW s \in DOMAIN Scenarios, NEW t \in DOMAIN Scenarios, s < t,
           NEW f, NEW g, Full(f), Full(g), Accounted(s, f), Accounted(t, g)
    PROVE  AtMost(Worth(g), Worth(f))
<1>1. /\ Len(f) = Len(g) /\ Len(f) \in Nat
      /\ DOMAIN f = 1..Len(f) /\ DOMAIN g = 1..Len(f)
      /\ \A i \in DOMAIN f : f[i].entry = g[i].entry /\ f[i].exit = g[i].exit
  BY SameSchedule
<1> DEFINE n == Len(f)
<1>2. /\ Share(Rate(s)) /\ Share(Cost(s)) /\ Share(Rate(t)) /\ Share(Cost(t))
      /\ AtMost(Rate(s), Rate(t)) /\ AtMost(Cost(s), Cost(t))
  BY ScenarioRates DEF World
<1>3. ASSUME NEW j \in 1..n, AtMost(Left(g, j), Left(f, j))
      PROVE  AtMost(Left(g, j + 1), Left(f, j + 1))
  <2> DEFINE x == f[j]
             y == g[j]
  <2>1. j \in DOMAIN f /\ j \in DOMAIN g /\ j + 1 # 1 /\ (j + 1) - 1 = j
    BY <1>1
  <2>2. /\ Spanning(x) /\ SoldBy(s, x) /\ x.before = Left(f, j)
        /\ Spanning(y) /\ SoldBy(t, y) /\ y.before = Left(g, j)
        /\ x.entry = y.entry /\ x.exit = y.exit
    BY <1>1, <2>1 DEF Full, Disjoint, Accounted
  <2>3. Left(g, j + 1) = y.after /\ Left(f, j + 1) = x.after
    BY <2>1 DEF Left
  <2> HIDE DEF x, y
  <2>4. /\ Positive(x.before) /\ Positive(Price(x.entry)) /\ Positive(Price(x.exit))
        /\ x.after = Earned(x.before, Rate(s), Cost(s), Price(x.entry), Price(x.exit))
    BY <2>2, SoldAbove
  <2>5. /\ Positive(y.before)
        /\ y.after = Earned(y.before, Rate(t), Cost(t), Price(y.entry), Price(y.exit))
    BY <2>2, SoldAbove
  <2>6. AtMost(y.before, x.before)
    BY <1>3, <2>2
  <2>7. AtMost(Earned(y.before, Rate(t), Cost(t), Price(x.entry), Price(x.exit)),
               Earned(x.before, Rate(s), Cost(s), Price(x.entry), Price(x.exit)))
    BY <1>2, <2>4, <2>5, <2>6, DearerEarnsLess
  <2> QED
    BY <2>2, <2>3, <2>4, <2>5, <2>7
<1>4. AtMost(Left(g, 1), Left(f, 1))
  BY UnitLaws, AtMostSelf, Units DEF Left, Rational
<1> HIDE DEF n
<1>5. \A j \in 1..(n + 1) : AtMost(Left(g, j), Left(f, j))
  <2> DEFINE T == {j \in 1..(n + 1) : ~AtMost(Left(g, j), Left(f, j))}
  <2> SUFFICES ASSUME T # {} PROVE FALSE
    OBVIOUS
  <2>0. n \in Nat
    BY <1>1 DEF n
  <2>1. T \subseteq Nat
    BY <2>0
  <2>2. PICK k \in T : \A j \in T : k <= j
    BY <2>1, LeastElement
  <2>3. k \in 1..(n + 1) /\ ~AtMost(Left(g, k), Left(f, k))
    OBVIOUS
  <2>4. k # 1
    BY <1>4, <2>3
  <2>5. k - 1 \in 1..n /\ k - 1 \in 1..(n + 1) /\ (k - 1) + 1 = k /\ ~(k <= k - 1)
    BY <2>0, <2>3, <2>4
  <2>6. AtMost(Left(g, k - 1), Left(f, k - 1))
    BY <2>2, <2>5
  <2>7. AtMost(Left(g, (k - 1) + 1), Left(f, (k - 1) + 1))
    BY <1>3, <2>5, <2>6
  <2> QED
    BY <2>3, <2>5, <2>7
<1>6. n + 1 \in 1..(n + 1)
  BY <1>1 DEF n
<1> QED
  BY <1>1, <1>5, <1>6 DEF Worth, n

LEMMA DearerHolds ==
    ASSUME World, NEW s \in DOMAIN Scenarios, NEW t \in DOMAIN Scenarios, s < t
    PROVE  AtMost(Trading!HeldTrade(t).after, Trading!HeldTrade(s).after)
<1> DEFINE w == Trading!WindowStart
           z == Trading!WindowEnd
<1>1. Positive(Price(w)) /\ Positive(Price(z)) /\ Positive(One)
  <2>1. w \in Nat /\ z \in Nat /\ w <= z /\ z <= z
    BY WorldIs
  <2>2. Positive(Price(w)) /\ Positive(Price(z))
    BY <2>1, WorldIs
  <2> QED
    BY <2>2, Units, PositiveIs
<1>2. /\ Share(Rate(s)) /\ Share(Cost(s)) /\ Share(Rate(t)) /\ Share(Cost(t))
      /\ AtMost(Rate(s), Rate(t)) /\ AtMost(Cost(s), Cost(t))
  BY ScenarioRates DEF World
<1>3. AtMost(One, One)
  BY <1>1, PositiveIs, AtMostSelf
<1>4. /\ Trading!HeldTrade(s).after = Earned(One, Rate(s), Cost(s), Price(w), Price(z))
      /\ Trading!HeldTrade(t).after = Earned(One, Rate(t), Cost(t), Price(w), Price(z))
  BY HeldIs, Zenon DEF Earned
<1> HIDE DEF w, z
<1>5. AtMost(Earned(One, Rate(t), Cost(t), Price(w), Price(z)),
             Earned(One, Rate(s), Cost(s), Price(w), Price(z)))
  BY <1>1, <1>2, <1>3, DearerEarnsLess
<1> QED
  BY <1>4, <1>5, Zenon

\* The scenarios can be compared.
LEMMA PathsCompare ==
    ASSUME World, NEW S, paths \in Seq(S), Len(paths) <= Len(Scenarios),
           \A i \in DOMAIN paths : PathInv(paths[i]) /\ PathMoney(i, paths[i])
    PROVE  Trading!Comparable
<1> SUFFICES ASSUME NEW s \in DOMAIN paths, NEW t \in DOMAIN paths, s < t
             PROVE  /\ Trading!Schedule(paths[s]) = Trading!Schedule(paths[t])
                    /\ ~Trading!\succ(Trading!Final(paths[t]), Trading!Final(paths[s]))
                    /\ ~Trading!\succ(Trading!HeldTrade(t).after, Trading!HeldTrade(s).after)
  BY DEF Trading!Comparable
<1> DEFINE f == paths[s].ledger
           g == paths[t].ledger
<1>1. s \in DOMAIN Scenarios /\ t \in DOMAIN Scenarios
  <2>1. Len(Scenarios) \in Nat /\ DOMAIN Scenarios = 1..Len(Scenarios)
    BY ScenarioRates DEF World
  <2> QED
    BY <2>1
<1>2. /\ Accounted(s, f) /\ Trading!Final(paths[s]) = Worth(f)
      /\ Accounted(t, g) /\ Trading!Final(paths[t]) = Worth(g)
  BY DEF PathMoney
<1>3. Full(f) /\ Full(g)
  BY <1>2 DEF PathInv, Full, Accounted, SoldBy, BoughtBy
<1>4. /\ DOMAIN f = DOMAIN g
      /\ \A i \in DOMAIN f : f[i].entry = g[i].entry /\ f[i].exit = g[i].exit
  BY <1>3, SameSchedule
<1>5. AtMost(Worth(g), Worth(f))
  BY <1>1, <1>2, <1>3, DearerLeaves
<1>6. AtMost(Trading!HeldTrade(t).after, Trading!HeldTrade(s).after)
  BY <1>1, DearerHolds
<1>7. Trading!Schedule(paths[s]) = Trading!Schedule(paths[t])
  BY <1>4 DEF Trading!Schedule
<1> QED
  BY <1>2, <1>5, <1>6, <1>7, SameFractions, Zenon DEF AtMost

-----------------------------------------------------------------------------
\* A book that has not begun holds the capital.
LEMMA MoneyIdle ==
    ASSUME World, NEW s
    PROVE  Money(Trading!Idle, s, <<>>, 0)
<1> DEFINE b == Trading!Idle
<1>1. /\ b.cash = One /\ b.pending = None /\ b.exit = None
      /\ b.trade = Trading!NoTrade /\ b.ledger = <<>>
  BY SameFractions DEF Trading!Idle
<1>2. DOMAIN <<>> = {} /\ Len(<<>>) = 0 /\ <<>> \in Seq({})
  OBVIOUS
<1>3. Trading!WindowStart \in Nat /\ Trading!WindowEnd \in Nat
  BY WorldIs
<1>4. Marks(0) = 0 /\ ~(0 > Trading!WindowEnd)
  BY <1>3 DEF Marks
<1>5. Worth(<<>>) = One
  BY <1>2 DEF Worth, Left
<1> HIDE DEF b
<1>6. Accounted(s, b.ledger)
  BY <1>1, <1>2 DEF Accounted
<1> QED
  BY <1>1, <1>2, <1>4, <1>5, <1>6 DEF Money, b

\* The inputs of a backtest fix its window and its prices.
LEMMA InputsFix ==
    ASSUME UNCHANGED <<market, decisions, positive>>
    PROVE  /\ Trading!Bars' = Trading!Bars /\ Trading!Exitable' = Trading!Exitable
           /\ Trading!WindowStart' = Trading!WindowStart /\ Trading!WindowEnd' = Trading!WindowEnd
<1>1. Trading!Bars' = Trading!Bars
  BY DEF Trading!Bars
<1>2. Trading!Exitable' = Trading!Exitable
  BY <1>1 DEF Trading!Exitable
<1>3. Trading!WindowStart' = Trading!WindowStart
  BY DEF Trading!WindowStart
<1>4. Trading!WindowEnd' = Trading!WindowEnd
  BY <1>2 DEF Trading!WindowEnd
<1> QED
  BY <1>1, <1>2, <1>3, <1>4

LEMMA MoneyLasts ==
    ASSUME UNCHANGED <<market, decisions, positive>>,
           NEW b, NEW s, NEW marks, NEW n, Money(b, s, marks, n),
           book' = b, scenario' = s, curve' = marks, position' = n
    PROVE  Money(book, scenario, curve, position)'
<1>1. Trading!WindowStart' = Trading!WindowStart /\ Trading!WindowEnd' = Trading!WindowEnd
  BY InputsFix
<1> QED
  BY <1>1 DEF Money, Accounted, SoldBy, BoughtBy, MarkedAt, Marks, Left, Worth, Price

LEMMA PathLasts ==
    ASSUME UNCHANGED <<market, decisions, positive>>,
           \A i \in DOMAIN paths' : PathMoney(i, paths'[i])
    PROVE  \A i \in DOMAIN paths' : PathMoney(i, paths[i])'
<1>1. Trading!WindowEnd' = Trading!WindowEnd
  BY InputsFix
<1> SUFFICES ASSUME NEW i \in DOMAIN paths' PROVE PathMoney(i, paths[i])'
  OBVIOUS
<1>3. PICK path : path = paths'[i]
  OBVIOUS
<1>4. Accounted(i, path.ledger) /\ Trading!Final(path) = Worth(path.ledger)
  BY <1>3 DEF PathMoney
<1>5. Accounted(i, path.ledger)'
  BY <1>1, <1>4 DEF Accounted, SoldBy, BoughtBy, Left, Price
<1> QED
  BY <1>3, <1>4, <1>5 DEF PathMoney, Accounted, SoldBy, BoughtBy, Left, Worth, Price,
                          Trading!Final, Trading!Last

LEMMA MoneyInitInv ==
    ASSUME Trading!BacktestAssumption, Trading!Init
    PROVE  MoneyInv
<1>1. /\ market \in Markets /\ decisions \subseteq Trading!Bars /\ positive \subseteq decisions
      /\ decisions # {}
      /\ scenario = 1 /\ position = 0 /\ book = Trading!Idle /\ curve = <<>> /\ paths = <<>>
      /\ verdict = "running"
  BY DEF Trading!Init
<1>2. Len(paths) = 0 /\ DOMAIN paths = {}
  BY <1>1
<1>3. 1 \in 1..(Len(Scenarios) + 1)
  BY ScenarioRates
<1>4. ASSUME Trading!Exitable # {} PROVE Money(book, scenario, curve, position)
  <2>1. World
    BY <1>1, <1>4 DEF World
  <2> QED
    BY <1>1, <2>1, MoneyIdle
<1> QED
  BY <1>1, <1>2, <1>3, <1>4 DEF MoneyInv

\* A step that leaves the inputs, the book and the paths.
LEMMA MoneyStands ==
    ASSUME MoneyInv, UNCHANGED <<market, decisions, positive, scenario, position, book, curve, paths>>,
           Trading!Exitable # {} => verdict' # "refused"
    PROVE  MoneyInv'
<1>1. Trading!Exitable' = Trading!Exitable
  BY InputsFix
<1>2. ASSUME Money(book, scenario, curve, position)
      PROVE  Money(book, scenario, curve, position)'
  BY <1>2, MoneyLasts
<1>3. ASSUME \A i \in DOMAIN paths : PathMoney(i, paths[i])
      PROVE  \A i \in DOMAIN paths' : PathMoney(i, paths[i])'
  BY <1>3, PathLasts
<1> QED
  BY <1>1, <1>2, <1>3 DEF MoneyInv

LEMMA MoneyBar ==
    ASSUME Trading!BacktestAssumption, TradingInv, MoneyInv, Trading!Bar
    PROVE  MoneyInv'
<1>1. /\ Trading!Exitable # {} /\ verdict = "running"
      /\ scenario \in DOMAIN Scenarios /\ position \in Trading!Bars
  BY DEF Trading!Bar
<1>2. World /\ position \in Nat /\ BookInv(book, position)
  BY <1>1 DEF World, TradingInv
<1>3. scenario \in 1..Len(Scenarios) /\ scenario <= Len(Scenarios)
  BY <1>1, ScenarioRates
<1>4. Money(book, scenario, curve, position)
  BY <1>1, <1>3 DEF MoneyInv
<1> DEFINE e == Trading!Traded(book, scenario, position)
           more == IF position \in Trading!WindowStart..Trading!WindowEnd
                   THEN Append(curve, [equity |-> Trading!Equity(e, position),
                                       open |-> e.trade # Trading!NoTrade])
                   ELSE curve
           walked == Trading!Walked(book, scenario, position)
<1>5. ~Trading!BarRefused(book, scenario, position) /\ Money(walked, scenario, more, position + 1)
  BY <1>1, <1>2, <1>4, BarMoney
<1>6. /\ book' = walked /\ curve' = more /\ position' = position + 1
      /\ UNCHANGED <<market, decisions, positive, scenario, paths, verdict>>
  BY <1>5 DEF Trading!Bar, Trading!Turn, Trading!inputs
<1> HIDE DEF walked, more
<1>7. Money(book, scenario, curve, position)'
  BY <1>5, <1>6, MoneyLasts
<1>8. Trading!Exitable' = Trading!Exitable
  BY <1>6, InputsFix
<1>9. \A i \in DOMAIN paths' : PathMoney(i, paths[i])'
  BY <1>1, <1>6, PathLasts DEF MoneyInv
<1> QED
  BY <1>1, <1>6, <1>7, <1>8, <1>9 DEF MoneyInv

\* Where a market ends: after every window.
LEMMA MarketEnds ==
    ASSUME Trading!BacktestAssumption, TradingInv, MoneyInv, position \notin Trading!Bars
    PROVE  World /\ Trading!WindowEnd < position
<1>1. PICK n \in Nat : Trading!Bars = 0..(n - 1) /\ position <= n
  BY DEF TradingInv
<1>2. position \in Nat
  BY DEF TradingInv
<1>3. Trading!Exitable # {}
  <2> SUFFICES ASSUME Trading!Exitable = {} PROVE FALSE
    OBVIOUS
  <2>1. position = 0 /\ decisions # {} /\ decisions \subseteq Trading!Bars
    BY DEF MoneyInv, TradingInv
  <2>2. PICK d \in decisions : d \in 0..(n - 1)
    BY <1>1, <2>1
  <2>3. 0 \in 0..(n - 1)
    BY <2>2
  <2> QED
    BY <1>1, <2>1, <2>3
<1>4. World
  BY <1>3 DEF World, TradingInv
<1>5. Trading!WindowEnd \in 0..(n - 1)
  BY <1>1, <1>3, WindowIs DEF TradingInv
<1> QED
  BY <1>1, <1>2, <1>4, <1>5

LEMMA MoneySettle ==
    ASSUME Trading!BacktestAssumption, TradingInv, MoneyInv, Trading!Settle
    PROVE  MoneyInv'
<1>1. /\ verdict = "running" /\ scenario \in DOMAIN Scenarios /\ position \notin Trading!Bars
  BY DEF Trading!Settle
<1>2. World /\ Trading!WindowEnd < position /\ Trading!Exitable # {}
  BY <1>1, MarketEnds DEF World
<1>3. /\ Len(Scenarios) \in Nat /\ scenario \in 1..Len(Scenarios) /\ scenario <= Len(Scenarios)
      /\ position \in Nat
  BY <1>1, ScenarioRates DEF TradingInv
<1>4. Money(book, scenario, curve, position) /\ BookInv(book, position) /\ Book(book)
  BY <1>2, <1>3 DEF MoneyInv, TradingInv, BookInv
<1>5. book.trade = Trading!NoTrade /\ book.pending = None /\ book.exit = None
  BY <1>2, <1>3, <1>4, AtTheEnd
<1> DEFINE path == [ledger |-> book.ledger, curve |-> curve]
<1>6. Trading!Reconciles(scenario, book.ledger, curve) /\ PathMoney(scenario, path)
  BY <1>1, <1>2, <1>3, <1>4, PathReconciles
<1>7. Trading!Settled(scenario, book, curve)
  BY <1>1, <1>2, <1>5, <1>6, HeldReconciles DEF Trading!Settled
<1>8. /\ paths' = Append(paths, path) /\ scenario' = scenario + 1
      /\ position' = 0 /\ book' = Trading!Idle /\ curve' = <<>>
      /\ UNCHANGED <<market, decisions, positive, verdict>>
  BY <1>7 DEF Trading!Settle, Trading!Keep, Trading!inputs
<1> HIDE DEF path
<1>9. PICK S : paths \in Seq(S)
  BY DEF TradingInv
<1>10. Len(paths) = scenario - 1 /\ \A i \in DOMAIN paths : PathMoney(i, paths[i])
  BY <1>2 DEF MoneyInv
<1>11. /\ Len(paths') = scenario
       /\ \A i \in DOMAIN paths' : IF i = scenario THEN paths'[i] = path
                                   ELSE i \in DOMAIN paths /\ paths'[i] = paths[i]
  <2>1. paths \in Seq(S \cup {path}) /\ path \in S \cup {path}
    BY <1>9
  <2> QED
    BY <1>3, <1>8, <1>10, <2>1
<1>12. \A i \in DOMAIN paths' : PathMoney(i, paths'[i])
  BY <1>6, <1>10, <1>11
<1>13. \A i \in DOMAIN paths' : PathMoney(i, paths[i])'
  BY <1>8, <1>12, PathLasts
<1>14. Money(Trading!Idle, scenario + 1, <<>>, 0)
  BY <1>2, MoneyIdle
<1>15. Money(book, scenario, curve, position)'
  <2> DEFINE b == Trading!Idle
             t == scenario + 1
  <2>1. Money(b, t, <<>>, 0) /\ book' = b /\ scenario' = t /\ curve' = <<>> /\ position' = 0
    BY <1>8, <1>14
  <2> HIDE DEF b, t
  <2> QED
    BY <1>8, <2>1, MoneyLasts
<1>16. Trading!Exitable' = Trading!Exitable
  BY <1>8, InputsFix
<1>17. scenario' \in 1..(Len(Scenarios) + 1) /\ Len(paths') = scenario' - 1
  BY <1>3, <1>8, <1>11
<1> QED
  BY <1>1, <1>2, <1>8, <1>13, <1>15, <1>16, <1>17 DEF MoneyInv

LEMMA MoneyCompare ==
    ASSUME Trading!BacktestAssumption, TradingInv, MoneyInv, Trading!Compare
    PROVE  MoneyInv'
<1>1. /\ scenario = Len(Scenarios) + 1
      /\ UNCHANGED <<market, decisions, positive, scenario, position, book, curve, paths>>
  BY DEF Trading!Compare, Trading!inputs
<1>2. Len(Scenarios) \in Nat /\ Len(Scenarios) # 0
  <2>1. Len(Scenarios) \in Nat /\ Official \in 1..Len(Scenarios)
    BY ScenarioRates
  <2> QED
    BY <2>1
<1>3. Trading!Exitable # {}
  BY <1>1, <1>2 DEF MoneyInv
<1>4. World
  BY <1>3 DEF World, TradingInv
<1>5. Len(paths) <= Len(Scenarios) /\ \A i \in DOMAIN paths : PathMoney(i, paths[i])
  BY <1>1, <1>2, <1>3 DEF MoneyInv
<1>6. Trading!Comparable
  BY <1>4, <1>5, PathsCompare DEF TradingInv
<1>7. verdict' = "compared"
  BY <1>6 DEF Trading!Compare
<1> QED
  BY <1>1, <1>7, MoneyStands

LEMMA MoneyNextInv ==
    ASSUME Trading!BacktestAssumption, TradingInv, MoneyInv, Trading!Next \/ UNCHANGED tradingVars
    PROVE  MoneyInv'
<1>1. CASE UNCHANGED tradingVars
  BY <1>1, MoneyStands DEF tradingVars, MoneyInv
<1>2. CASE Trading!NoWindow
  BY <1>2, MoneyStands DEF Trading!NoWindow, Trading!Refuse, Trading!inputs
<1>3. CASE Trading!Unreported
  BY <1>3, MoneyStands DEF Trading!Unreported, Trading!inputs
<1> QED
  BY <1>1, <1>2, <1>3, MoneyBar, MoneySettle, MoneyCompare DEF Trading!Next

\* What the invariant says of a label: the outcome of its trade.
LEMMA LabelIs ==
    ASSUME Trading!BacktestAssumption, TradingInv, MoneyInv, Official \in DOMAIN paths,
           NEW i \in DOMAIN paths[Official].ledger
    PROVE  LET t == paths[Official].ledger[i]
           IN Trading!Label(t.signal) <=>
                 Trading!\succ(Trading!//(t.after, t.before), Trading!++(Trading!One, Edge))
<1> DEFINE ledger == paths[Official].ledger
           t == ledger[i]
           o == Price(t.entry)
           p == Price(t.exit)
           kept == KeptOf(Rate(Official), Cost(Official))
           edge == One ++ Edge
<1>1. Trading!Exitable # {} /\ World
  <2>1. paths # <<>>
    OBVIOUS
  <2>2. Trading!Exitable # {}
    BY <2>1 DEF MoneyInv
  <2> QED
    BY <2>2 DEF World, TradingInv
<1>2. Spanning(t) /\ SoldBy(Official, t)
  <2>1. PathInv(paths[Official]) /\ PathMoney(Official, paths[Official])
    BY <1>1 DEF MoneyInv, TradingInv
  <2> QED
    BY <2>1 DEF PathInv, Disjoint, PathMoney, Accounted
<1>3. /\ Official \in DOMAIN Scenarios /\ Share(Rate(Official)) /\ Share(Cost(Official))
      /\ Rational(Edge)
  BY ScenarioRates
<1> HIDE DEF t
<1>4. /\ Positive(o) /\ Positive(p) /\ Positive(t.before) /\ t.signal \in Nat
      /\ t.after = Earned(t.before, Rate(Official), Cost(Official), o, p)
  BY <1>1, <1>2, <1>3, SoldAbove
<1>5. t.signal + 1 = t.entry /\ t.signal + Horizon + 1 = t.exit
  BY <1>2 DEF Spanning
<1>6. t.after // t.before = (p // o) ** kept /\ Positive(kept)
  BY <1>3, <1>4, Outcome
<1>7. Trading!ForwardReturn(t.signal) = p // o
  BY <1>5, SameFractions, Zenon DEF Trading!ForwardReturn, Price
<1>8. Trading!RequiredReturn = edge // kept
  BY SameFractions, FillsAre, Zenon DEF Trading!RequiredReturn
<1> HIDE DEF o, p, kept
<1>9. Rational(edge) /\ Rational(p // o)
  <2>1. Rational(One)
    BY Units, PositiveIs
  <2>2. Rational(One ++ Edge)
    BY <1>3, <2>1, StayRational
  <2>3. Positive(p // o)
    BY <1>4, StayPositive
  <2> QED
    BY <2>2, <2>3, PositiveIs
<1> HIDE DEF edge
<1>10. Rational(edge // kept) /\ (edge // kept) ** kept = edge
  BY <1>6, <1>9, OverTimes
<1>11. (p // o) \succ (edge // kept) <=> ((p // o) ** kept) \succ edge
  BY <1>6, <1>9, <1>10, TimesKeeps
<1>12. Trading!Label(t.signal) <=> (p // o) \succ (edge // kept)
  BY <1>7, <1>8, SameFractions, Zenon DEF Trading!Label
<1>13. Trading!\succ(Trading!//(t.after, t.before), Trading!++(Trading!One, Edge))
         <=> (t.after // t.before) \succ edge
  BY SameFractions, Zenon DEF edge
<1>14. Trading!Label(t.signal) <=>
          Trading!\succ(Trading!//(t.after, t.before), Trading!++(Trading!One, Edge))
  BY <1>6, <1>11, <1>12, <1>13, Zenon
<1> QED
  BY <1>14 DEF t
-----------------------------------------------------------------------------
(* All three. *)

ResearchInv ==
    /\ MarketInv /\ Placed
    /\ SplitsInv
    /\ IF part = "trading" THEN TradingInv /\ MoneyInv ELSE paths = <<>> /\ verdict = "running"

LEMMA Assumptions ==
    MarketAssumption /\ Trading!BacktestAssumption /\ Splits!SplitsAssumption
BY ResearchAssumption

LEMMA ResearchInitInv == ResearchInit => ResearchInv
<1> SUFFICES ASSUME ResearchInit PROVE ResearchInv
  OBVIOUS
<1>1. MarketInv /\ Placed
  <2>1. Init
    BY DEF ResearchInit
  <2> QED
    BY <2>1, Assumptions, InitInv DEF Init, Placed
<1>2. SplitsInv
  BY Assumptions, SplitsInitInv DEF ResearchInit
<1>3. CASE part = "trading"
  BY <1>1, <1>2, <1>3, Assumptions, TradingInitInv, MoneyInitInv DEF ResearchInit, ResearchInv
<1>4. CASE part # "trading"
  BY <1>1, <1>2, <1>4 DEF ResearchInit, TradingWaits, ResearchInv
<1> QED
  BY <1>3, <1>4

\* One part moves and the others stay.
LEMMA ResearchStep ==
    ASSUME [ResearchNext]_researchVars
    PROVE  /\ [Next]_vars
           /\ Splits!Next \/ UNCHANGED splitsVars
           /\ UNCHANGED part
           /\ IF part = "trading" THEN Trading!Next \/ UNCHANGED tradingVars
                                  ELSE UNCHANGED <<paths, verdict>>
<1>1. CASE part = "market" /\ Next /\ UNCHANGED <<part, tradingVars, splitsVars>>
  BY <1>1 DEF tradingVars
<1>2. CASE part = "trading" /\ Trading!Next /\ UNCHANGED <<part, vars, splitsVars>>
  BY <1>2
<1>3. CASE part = "splits" /\ Splits!Next /\ UNCHANGED <<part, vars, tradingVars>>
  BY <1>3 DEF tradingVars
<1>4. CASE UNCHANGED researchVars
  BY <1>4 DEF researchVars, tradingVars
<1> QED
  BY <1>1, <1>2, <1>3, <1>4 DEF ResearchNext

LEMMA ResearchNextInv == ResearchInv /\ [ResearchNext]_researchVars => ResearchInv'
<1> SUFFICES ASSUME ResearchInv, [ResearchNext]_researchVars PROVE ResearchInv'
  OBVIOUS
<1>1. MarketInv' /\ Placed'
  BY ResearchStep, Assumptions, NextInv, PlacedNext DEF ResearchInv
<1>2. SplitsInv'
  BY ResearchStep, Assumptions, SplitsNextInv DEF ResearchInv
<1>3. CASE part = "trading"
  <2>1. TradingInv' /\ MoneyInv' /\ part' = "trading"
    BY <1>3, ResearchStep, Assumptions, TradingNextInv, MoneyNextInv DEF ResearchInv
  <2> QED
    BY <1>1, <1>2, <2>1 DEF ResearchInv
<1>4. CASE part # "trading"
  <2>1. paths' = <<>> /\ verdict' = "running" /\ part' # "trading"
    BY <1>4, ResearchStep DEF ResearchInv
  <2> QED
    BY <1>1, <1>2, <2>1 DEF ResearchInv
<1> QED
  BY <1>3, <1>4

\* What holds of the files, the updates, the splits and the backtests in every
\* state: the files hold closed candles and an update in memory can be filtered;
\* every fold keeps a purge from its block; a book holds the trades that answer
\* the decisions so far, and the money those trades leave.
THEOREM ResearchInvariant == ResearchSpec => []ResearchInv
<1>1. ResearchInit => ResearchInv
  BY ResearchInitInv
<1>2. ResearchInv /\ [ResearchNext]_researchVars => ResearchInv'
  BY ResearchNextInv
<1> QED
  BY <1>1, <1>2, PTL DEF ResearchSpec

\* No candle is stored before it closed (load_or_update_ohlcv and
\* _persist_market_data), for any number of updates and any clock.
THEOREM OnlyClosedCandles == ResearchSpec => []ClosedCandlesOnly
<1>1. ResearchInv => ClosedCandlesOnly
  BY DEF ResearchInv, MarketInv, ClosedCandlesOnly, Sound
<1> QED
  BY <1>1, ResearchInvariant, PTL

\* A fetch that goes on has come to a later candle or counted a failure
\* (fetch_ohlcv), whatever the exchange answers.
THEOREM FetchesAdvance == ResearchSpec => FetchAdvances
<1>1. ResearchInv /\ [ResearchNext]_researchVars =>
        [\A p \in Procs : pc[p] = "fetch" /\ pc'[p] = "fetch" /\ call'[p] # call[p] =>
          \/ call'[p].cursor > call[p].cursor /\ call'[p].cursor * Span < call[p].now
          \/ /\ call'[p].cursor = call[p].cursor
             /\ call'[p].failures \in call[p].failures + 1 .. MaxRetries]_vars
  <2> SUFFICES ASSUME ResearchInv, [ResearchNext]_researchVars, ~UNCHANGED vars,
                      NEW p \in Procs, pc[p] = "fetch", pc'[p] = "fetch", call'[p] # call[p]
               PROVE  \/ call'[p].cursor > call[p].cursor /\ call'[p].cursor * Span < call[p].now
                      \/ /\ call'[p].cursor = call[p].cursor
                         /\ call'[p].failures \in call[p].failures + 1 .. MaxRetries
    OBVIOUS
  <2>1. Next
    BY ResearchStep
  <2> QED
    BY <2>1, Assumptions, FetchStep DEF ResearchInv
<1> QED
  BY <1>1, ResearchInvariant, PTL DEF ResearchSpec, FetchAdvances

\* Every decision to buy that can be left is answered by one trade (run_backtest),
\* in a market of any length, for any gaps between the decisions and any horizon.
THEOREM DecisionsAnswered == ResearchSpec => []EveryDecisionAnswered
<1>1. ResearchInv => EveryDecisionAnswered
  <2> SUFFICES ASSUME ResearchInv PROVE EveryDecisionAnswered
    OBVIOUS
  <2>1. CASE part = "trading"
    BY <2>1, Assumptions, TradingAnswers DEF ResearchInv
  <2>2. CASE part # "trading"
    BY <2>2 DEF ResearchInv, EveryDecisionAnswered, Trading!EveryDecisionAnswered
  <2> QED
    BY <2>1, <2>2
<1> QED
  BY <1>1, ResearchInvariant, PTL

\* What the engine and the report check of their own results never fails
\* (_validate_reconciliation, phase2/backtests.py _calculate): the fees, the marks
\* and the profits agree to the last trade, every position is closed inside the
\* window, and no dearer scenario earns more; for any market, rates and horizon.
THEOREM AccountsReconcile == ResearchSpec => []AccountsAgree
<1>1. ResearchInv => AccountsAgree
  <2> SUFFICES ASSUME ResearchInv PROVE AccountsAgree
    OBVIOUS
  <2>1. CASE part = "trading"
    BY <2>1 DEF ResearchInv, MoneyInv, AccountsAgree, Trading!AccountsAgree
  <2>2. CASE part # "trading"
    BY <2>2 DEF ResearchInv, AccountsAgree, Trading!AccountsAgree
  <2> QED
    BY <2>1, <2>2
<1> QED
  BY <1>1, ResearchInvariant, PTL

\* Under the official costs a trade earns more than the edge exactly when its
\* decision is labelled 1 (add_labels, CostConfig and run_backtest), for any
\* prices, rates, edge and horizon.
THEOREM LabelsAreRealised == ResearchSpec => []TradesRealiseLabels
<1>1. ResearchInv => TradesRealiseLabels
  <2> SUFFICES ASSUME ResearchInv, Official \in DOMAIN paths,
                      NEW i \in DOMAIN paths[Official].ledger
               PROVE  LET t == paths[Official].ledger[i]
                      IN Trading!Label(t.signal) <=>
                            Trading!\succ(Trading!//(t.after, t.before), Trading!++(Trading!One, Edge))
    BY Zenon DEF TradesRealiseLabels, Trading!TradesRealiseLabels
  <2>1. part = "trading"
    BY DEF ResearchInv
  <2> QED
    BY <2>1, Assumptions, LabelIs DEF ResearchInv
<1> QED
  BY <1>1, ResearchInvariant, PTL

\* A split is refused for want of rows only, or in Phase 2 for a block no longer
\* than the purge (create_split_plan, shared_folds), for any ratios, number of
\* folds, horizon and holes in the frame.
THEOREM PurgeIsEnough == ResearchSpec => []PurgeSuffices
<1>1. ResearchInv => PurgeSuffices
  BY DEF ResearchInv, SplitsInv, PurgeSuffices
<1> QED
  BY <1>1, ResearchInvariant, PTL

\* No model learns from a label that is decided at or after the open of a row it
\* scores (_evaluate_with_factory, train_evaluation_model and _build).
THEOREM NoFutureLearnt == ResearchSpec => []NothingFromTheFuture
<1>1. ResearchInv => NothingFromTheFuture
  BY DEF ResearchInv, SplitsInv, NothingFromTheFuture
<1> QED
  BY <1>1, ResearchInvariant, PTL
=============================================================================
