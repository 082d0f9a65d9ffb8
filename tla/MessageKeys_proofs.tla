------------------------ MODULE MessageKeys_proofs ------------------------
(***************************************************************************)
(* What the operators of MessageKeys do to a key list, for every bound.    *)
(***************************************************************************)
EXTENDS MessageKeys, TLAPS

(* How many entries an eviction drops from the head of a list.             *)
Excess(mks) == IF Len(mks) > MaxMessageKeys THEN Len(mks) - MaxMessageKeys ELSE 0

(* The run of counters from..to-1 that the loop of                         *)
(* get_or_create_message_keys passes.                                      *)
LEMMA RunShape ==
  ASSUME NEW from \in Nat, NEW to \in Nat, from <= to
  PROVE  /\ Run(from, to) \in Seq(Nat)
         /\ Len(Run(from, to)) = to - from
         /\ \A i \in 1..(to - from) : Run(from, to)[i] = from + i - 1
<1>1. to - from \in Nat
  OBVIOUS
<1>2. \A i \in 1..(to - from) : from + i - 1 \in Nat
  OBVIOUS
<1> QED
  BY <1>1, <1>2 DEF Run

(* The eviction loop of session_state_set_message_keys keeps the newest    *)
(* entries in their order.                                                 *)
LEMMA KeepNewestShape ==
  ASSUME NEW s \in Seq(Nat)
  PROVE  /\ KeepNewest(s) \in Seq(Nat)
         /\ Excess(s) \in 0..Len(s)
         /\ Len(KeepNewest(s)) = Len(s) - Excess(s)
         /\ Len(KeepNewest(s)) <= MaxMessageKeys
         /\ \A i \in 1..Len(KeepNewest(s)) : KeepNewest(s)[i] = s[i + Excess(s)]
<1>1. CASE Len(s) > MaxMessageKeys
  <2>1. /\ KeepNewest(s) = SubSeq(s, Len(s) - MaxMessageKeys + 1, Len(s))
        /\ Excess(s) = Len(s) - MaxMessageKeys
    BY <1>1 DEF KeepNewest, Excess
  <2>2. /\ Len(s) \in Nat
        /\ Len(s) - MaxMessageKeys + 1 \in 1..Len(s) + 1
        /\ MaxMessageKeys \in Nat
    BY <1>1, KeyBounds
  <2> QED
    BY <1>1, <2>1, <2>2, SMTT(30)
<1>2. CASE ~(Len(s) > MaxMessageKeys)
  BY <1>2, KeyBounds DEF KeepNewest, Excess
<1> QED
  BY <1>1, <1>2

(* Concatenation, element by element. *)
LEMMA ConcatShape ==
  ASSUME NEW u \in Seq(Nat), NEW v \in Seq(Nat)
  PROVE  /\ u \o v \in Seq(Nat)
         /\ Len(u \o v) = Len(u) + Len(v)
         /\ \A i \in 1..Len(u) : (u \o v)[i] = u[i]
         /\ \A i \in 1..Len(v) : (u \o v)[Len(u) + i] = v[i]
OBVIOUS

(* A list of passed counters followed by the run the loop stores.          *)
LEMMA ConcatRunShape ==
  ASSUME NEW s \in Seq(Nat), NEW from \in Nat, NEW to \in Nat, from <= to
  PROVE  /\ s \o Run(from, to) \in Seq(Nat)
         /\ Len(s \o Run(from, to)) = Len(s) + (to - from)
         /\ \A i \in 1..Len(s) : (s \o Run(from, to))[i] = s[i]
         /\ \A i \in (Len(s) + 1)..(Len(s) + (to - from)) :
              (s \o Run(from, to))[i] = from + (i - Len(s)) - 1
<1>1. /\ Run(from, to) \in Seq(Nat)
      /\ Len(Run(from, to)) = to - from
      /\ \A i \in 1..(to - from) : Run(from, to)[i] = from + i - 1
  BY RunShape
<1> QED
  BY <1>1

(* session_state_remove_message_keys unlinks exactly one entry.            *)
LEMMA RemoveShape ==
  ASSUME NEW s \in Seq(Nat), NEW c \in Nat, HasMessageKeys(s, c)
  PROVE  \E k \in 1..Len(s) :
           /\ s[k] = c
           /\ RemoveMessageKeys(s, c) \in Seq(Nat)
           /\ Len(RemoveMessageKeys(s, c)) = Len(s) - 1
           /\ \A i \in 1..(k - 1) : RemoveMessageKeys(s, c)[i] = s[i]
           /\ \A i \in k..(Len(s) - 1) : RemoveMessageKeys(s, c)[i] = s[i + 1]
<1> DEFINE k == CHOOSE i \in 1..Len(s) : s[i] = c
<1>1. k \in 1..Len(s) /\ s[k] = c
  BY DEF HasMessageKeys
<1>2. RemoveMessageKeys(s, c) = SubSeq(s, 1, k - 1) \o SubSeq(s, k + 1, Len(s))
  BY DEF RemoveMessageKeys, RemoveAt
<1> HIDE DEF k
<1>3. /\ SubSeq(s, 1, k - 1) \in Seq(Nat)
      /\ Len(SubSeq(s, 1, k - 1)) = k - 1
      /\ \A i \in 1..(k - 1) : SubSeq(s, 1, k - 1)[i] = s[i]
  BY <1>1
<1>4. /\ SubSeq(s, k + 1, Len(s)) \in Seq(Nat)
      /\ Len(SubSeq(s, k + 1, Len(s))) = Len(s) - k
      /\ \A i \in 1..(Len(s) - k) : SubSeq(s, k + 1, Len(s))[i] = s[i + k]
  BY <1>1
<1> DEFINE u == SubSeq(s, 1, k - 1)
           v == SubSeq(s, k + 1, Len(s))
<1>5. /\ u \o v \in Seq(Nat)
      /\ Len(u \o v) = Len(u) + Len(v)
      /\ \A i \in 1..Len(u) : (u \o v)[i] = u[i]
      /\ \A i \in 1..Len(v) : (u \o v)[Len(u) + i] = v[i]
  BY <1>3, <1>4, ConcatShape
<1>6. Len(u) = k - 1 /\ Len(v) = Len(s) - k
  BY <1>3, <1>4
<1>7. /\ \A i \in 1..(k - 1) : u[i] = s[i]
      /\ \A i \in 1..(Len(s) - k) : v[i] = s[i + k]
  BY <1>3, <1>4
<1> HIDE DEF u, v
<1>8. ASSUME NEW i \in k..(Len(s) - 1)
      PROVE  (u \o v)[i] = s[i + 1]
  <2> DEFINE j == i - (k - 1)
  <2>1. j \in 1..(Len(s) - k) /\ Len(u) + j = i /\ j + k = i + 1
    BY <1>1, <1>6
  <2> HIDE DEF j
  <2>2. (u \o v)[Len(u) + j] = v[j] /\ v[j] = s[j + k]
    BY <1>5, <1>6, <1>7, <2>1
  <2> QED
    BY <2>1, <2>2
<1>9. Len(u \o v) = Len(s) - 1
  BY <1>1, <1>5, <1>6
<1>10. \A i \in 1..(k - 1) : (u \o v)[i] = s[i]
  BY <1>5, <1>6, <1>7
<1>11. RemoveMessageKeys(s, c) = u \o v
  BY <1>2 DEF u, v
<1> QED
  BY <1>1, <1>5, <1>8, <1>9, <1>10, <1>11, ZenonT(45)

-----------------------------------------------------------------------------
(* The same three changes seen as functions on 1..n, without sequences.    *)

(* Every entry is a counter below b.                                       *)
Below(f, n, b) == \A i \in 1..n : f[i] \in Nat /\ f[i] < b

(* Entries i < j differ by at least j - i: strictly increasing counters,   *)
(* stated pairwise so that no induction is needed.                         *)
Spread(f, n) == \A i, j \in 1..n : i < j => f[j] - f[i] >= j - i

Values(f, n) == {f[i] : i \in 1..n}

(* g is f without entry k.                                                 *)
Unlinked(f, g, n, k) ==
  /\ \A i \in 1..(k - 1) : g[i] = f[i]
  /\ \A i \in k..(n - 1) : g[i] = f[i + 1]

(* h, of length m, is f followed by the counters a..c-1.                   *)
Extended(f, h, n, a, c, m) ==
  /\ a <= c
  /\ m = n + (c - a)
  /\ \A i \in 1..n : h[i] = f[i]
  /\ \A i \in (n + 1)..m : h[i] = a + (i - n) - 1

(* g is h without its first x entries.                                     *)
Evicted(h, g, n, x) == \A i \in 1..(n - x) : g[i] = h[i + x]

(* Unlinking entry k leaves a spread list without that counter.            *)
LEMMA UnlinkSpread ==
  ASSUME NEW n \in Nat, NEW f, NEW g, NEW k \in 1..n, NEW b \in Nat,
         Below(f, n, b), Spread(f, n), Unlinked(f, g, n, k)
  PROVE  /\ Below(g, n - 1, b)
         /\ Spread(g, n - 1)
         /\ Values(g, n - 1) = Values(f, n) \ {f[k]}
<1> USE DEF Below, Spread, Unlinked, Values
<1>0. Below(g, n - 1, b)
  <2> SUFFICES ASSUME NEW i \in 1..(n - 1) PROVE g[i] \in Nat /\ g[i] < b
    OBVIOUS
  <2>1. CASE i < k
    BY <2>1
  <2>2. CASE i >= k
    BY <2>2
  <2> QED
    BY <2>1, <2>2
<1>1. \A i, j \in 1..(n - 1) : i < j => g[j] - g[i] >= j - i
  <2> SUFFICES ASSUME NEW i \in 1..(n - 1), NEW j \in 1..(n - 1), i < j
               PROVE  g[j] - g[i] >= j - i
    OBVIOUS
  <2>1. CASE j < k
    BY <2>1
  <2>2. CASE i < k /\ j >= k
    <3>1. g[i] = f[i] /\ g[j] = f[j + 1] /\ f[j + 1] - f[i] >= (j + 1) - i
      BY <2>2
    <3>2. f[i] \in Nat /\ f[j + 1] \in Nat
      OBVIOUS
    <3> QED
      BY <3>1, <3>2
  <2>3. CASE i >= k
    <3>1. g[i] = f[i + 1] /\ g[j] = f[j + 1] /\ f[j + 1] - f[i + 1] >= (j + 1) - (i + 1)
      BY <2>3
    <3>2. f[i + 1] \in Nat /\ f[j + 1] \in Nat
      OBVIOUS
    <3> QED
      BY <3>1, <3>2
  <2> QED
    BY <2>1, <2>2, <2>3
<1>2. ASSUME NEW i \in 1..(n - 1)
      PROVE  g[i] \in {f[j] : j \in 1..n} \ {f[k]}
  <2>1. CASE i < k
    BY <2>1
  <2>2. CASE i >= k
    <3>1. g[i] = f[i + 1] /\ i + 1 \in 1..n /\ f[i + 1] - f[k] >= (i + 1) - k
      BY <2>2
    <3>2. f[i + 1] \in Nat /\ f[k] \in Nat
      BY <3>1
    <3>3. f[i + 1] # f[k]
      BY <2>2, <3>1, <3>2
    <3> QED
      BY <3>1, <3>3
  <2> QED
    BY <2>1, <2>2
<1>3. ASSUME NEW i \in 1..n, f[i] # f[k]
      PROVE  f[i] \in {g[j] : j \in 1..(n - 1)}
  <2>1. CASE i < k
    BY <2>1
  <2>2. CASE i > k
    <3>1. i - 1 \in 1..(n - 1) /\ i - 1 \in k..(n - 1) /\ (i - 1) + 1 = i
      BY <2>2
    <3>2. g[i - 1] = f[i]
      BY <3>1
    <3> QED
      BY <3>1, <3>2
  <2>3. i < k \/ i > k
    BY <1>3
  <2> QED
    BY <2>1, <2>2, <2>3
<1> QED
  BY <1>0, <1>1, <1>2, <1>3

(* Storing the counters a..c-1 behind entries smaller than a.              *)
LEMMA ExtendSpread ==
  ASSUME NEW n \in Nat, NEW f, NEW h, NEW a \in Nat, NEW c \in Nat, NEW m \in Nat,
         Below(f, n, a), Spread(f, n), Extended(f, h, n, a, c, m)
  PROVE  /\ Below(h, m, c)
         /\ Spread(h, m)
         /\ Values(h, m) = Values(f, n) \union a..(c - 1)
<1> USE DEF Below, Spread, Extended, Values
<1>1. m >= n
  OBVIOUS
<1>2. \A i \in 1..m : h[i] \in Nat /\ h[i] < c
  <2> SUFFICES ASSUME NEW i \in 1..m PROVE h[i] \in Nat /\ h[i] < c
    OBVIOUS
  <2>1. CASE i <= n
    BY <2>1
  <2>2. CASE i > n
    BY <2>2
  <2> QED
    BY <2>1, <2>2
<1>3. \A i, j \in 1..m : i < j => h[j] - h[i] >= j - i
  <2> SUFFICES ASSUME NEW i \in 1..m, NEW j \in 1..m, i < j
               PROVE  h[j] - h[i] >= j - i
    OBVIOUS
  <2>1. CASE j <= n
    BY <2>1
  <2>2. CASE i <= n /\ j > n
    <3>1. h[i] = f[i] /\ f[i] \in Nat /\ h[j] = a + (j - n) - 1
      BY <2>2
    <3>2. f[n] \in Nat /\ f[n] < a
      BY <2>2
    <3>3. i < n => f[n] - f[i] >= n - i
      BY <2>2
    <3> QED
      BY <2>2, <3>1, <3>2, <3>3
  <2>3. CASE i > n
    <3>1. h[i] = a + (i - n) - 1 /\ h[j] = a + (j - n) - 1
      BY <2>3
    <3> QED
      BY <3>1
  <2> QED
    BY <2>1, <2>2, <2>3
<1>4. ASSUME NEW i \in 1..m
      PROVE  h[i] \in {f[j] : j \in 1..n} \union a..(c - 1)
  <2>1. CASE i <= n
    BY <2>1
  <2>2. CASE i > n
    <3>1. h[i] = a + (i - n) - 1
      BY <2>2
    <3> QED
      BY <2>2, <3>1
  <2> QED
    BY <2>1, <2>2
<1>5. ASSUME NEW d \in a..(c - 1)
      PROVE  d \in {h[i] : i \in 1..m}
  <2> DEFINE p == n + (d - a) + 1
  <2>1. p \in (n + 1)..m /\ p \in 1..m /\ a + (p - n) - 1 = d
    OBVIOUS
  <2> HIDE DEF p
  <2>2. h[p] = d
    BY <2>1
  <2> QED
    BY <2>1, <2>2
<1>6. \A i \in 1..n : i \in 1..m /\ h[i] = f[i]
  BY <1>1
<1> QED
  BY <1>2, <1>3, <1>4, <1>5, <1>6

(* Evicting x entries from the head of a spread list.  What goes is at     *)
(* least as far behind the bound b as the number of entries that stay.     *)
LEMMA EvictSpread ==
  ASSUME NEW n \in Nat, NEW h, NEW g, NEW x \in 0..n, NEW b \in Nat,
         Below(h, n, b), Spread(h, n), Evicted(h, g, n, x)
  PROVE  /\ Below(g, n - x, b)
         /\ Spread(g, n - x)
         /\ Values(g, n - x) \subseteq Values(h, n)
         /\ \A d \in Values(h, n) : \/ d \in Values(g, n - x)
                                    \/ d < b - (n - x) /\ x > 0
<1> USE DEF Below, Spread, Evicted, Values
<1>1. ASSUME NEW i \in 1..(n - x)
      PROVE  i + x \in 1..n /\ g[i] = h[i + x] /\ g[i] \in Nat /\ g[i] < b
  <2>1. i + x \in 1..n
    OBVIOUS
  <2> QED
    BY <2>1
<1>2. \A i, j \in 1..(n - x) : i < j => g[j] - g[i] >= j - i
  <2> SUFFICES ASSUME NEW i \in 1..(n - x), NEW j \in 1..(n - x), i < j
               PROVE  g[j] - g[i] >= j - i
    OBVIOUS
  <2>1. h[j + x] - h[i + x] >= (j + x) - (i + x)
    BY <1>1
  <2> QED
    BY <1>1, <2>1
<1>3. ASSUME NEW i \in 1..n, i > x
      PROVE  h[i] \in {g[j] : j \in 1..(n - x)}
  <2>1. i - x \in 1..(n - x) /\ (i - x) + x = i
    BY <1>3
  <2>2. g[i - x] = h[i]
    BY <2>1
  <2> QED
    BY <2>1, <2>2
<1>4. ASSUME NEW i \in 1..n, i <= x
      PROVE  h[i] < b - (n - x)
  <2>1. n \in 1..n /\ h[n] \in Nat /\ h[n] < b /\ h[i] \in Nat
    OBVIOUS
  <2>2. i < n => h[n] - h[i] >= n - i
    BY <2>1
  <2> QED
    BY <1>4, <2>1, <2>2
<1> QED
  BY <1>1, <1>2, <1>3, <1>4

(* Appending one entry to a history of distinct entries.                   *)
Distinct(f, n) == \A i, j \in 1..n : f[i] = f[j] => i = j

Appended(f, g, n, c) == (\A i \in 1..n : g[i] = f[i]) /\ g[n + 1] = c

(* A counter that is not in the history yet can be appended to it.         *)
LEMMA AppendDistinct ==
  ASSUME NEW n \in Nat, NEW f, NEW g, NEW c, Appended(f, g, n, c)
  PROVE  /\ Values(g, n + 1) = Values(f, n) \union {c}
         /\ Distinct(f, n) /\ c \notin Values(f, n) => Distinct(g, n + 1)
<1> USE DEF Values, Distinct, Appended
<1>1. ASSUME NEW i \in 1..(n + 1) PROVE g[i] \in Values(f, n) \union {c}
  <2>1. CASE i = n + 1
    BY <2>1
  <2>2. CASE i # n + 1
    <3>1. i \in 1..n
      BY <2>2
    <3> QED
      BY <3>1
  <2> QED
    BY <2>1, <2>2
<1>2. \A i \in 1..n : i \in 1..(n + 1) /\ g[i] = f[i]
  OBVIOUS
<1>3. ASSUME Distinct(f, n), c \notin Values(f, n),
             NEW i \in 1..(n + 1), NEW j \in 1..(n + 1), g[i] = g[j]
      PROVE  i = j
  <2>1. \A k \in 1..n : g[k] # c
    BY <1>3
  <2>2. i = n + 1 <=> j = n + 1
    BY <1>3, <2>1
  <2>3. CASE i # n + 1
    BY <1>3, <2>2, <2>3
  <2> QED
    BY <2>2, <2>3
<1> QED
  BY <1>1, <1>2, <1>3

-----------------------------------------------------------------------------
(* One step of a chain, as the cipher takes it.                            *)

(* A chain that began at iteration low: a bounded list of increasing       *)
(* counters, none before low and all before the index.                     *)
WellKept(index, mks, low) ==
  /\ index \in Nat /\ low \in Nat /\ low <= index
  /\ mks \in Seq(Nat)
  /\ Len(mks) <= MaxMessageKeys
  /\ Below(mks, Len(mks), index)
  /\ Spread(mks, Len(mks))
  /\ \A d \in Values(mks, Len(mks)) : low <= d

Keys(mks) == Values(mks, Len(mks))

(* A key is in the list exactly when it is among its values.               *)
LEMMA HasIsValue ==
  ASSUME NEW s \in Seq(Nat), NEW c
  PROVE  HasMessageKeys(s, c) <=> c \in Keys(s)
BY DEF HasMessageKeys, Keys, Values

(* Taking a key of an acceptable counter: the chain stays well kept, the   *)
(* key is gone from it, keys that were gone stay gone, and a skipped       *)
(* counter inside the window stays in the list.                            *)
TakenFrom(index, mks, low, c, i2, k2) ==
  /\ WellKept(i2, k2, low)
  /\ low <= c /\ c < i2 /\ index <= i2
  /\ i2 <= index \/ i2 = c + 1
  /\ c \notin Keys(k2)
  /\ \A d \in Nat : d < index /\ d \notin Keys(mks) => d \notin Keys(k2)
  /\ \A d \in low..(i2 - 1) :
       d # c /\ i2 - d <= MaxMessageKeys + 1 /\ (d < index => d \in Keys(mks)) => d \in Keys(k2)

LEMMA TakeStoredKey ==
  ASSUME NEW index, NEW mks, NEW low, WellKept(index, mks, low),
         NEW c \in Nat, c < index, HasMessageKeys(mks, c)
  PROVE  TakenFrom(index, mks, low, c, index, RemoveMessageKeys(mks, c))
<1> DEFINE k2 == RemoveMessageKeys(mks, c)
           n == Len(mks)
<1>1. index \in Nat /\ low \in Nat /\ mks \in Seq(Nat) /\ n \in Nat
  BY DEF WellKept
<1>2. PICK k \in 1..n : mks[k] = c /\ k2 \in Seq(Nat) /\ Len(k2) = n - 1 /\ Unlinked(mks, k2, n, k)
  BY <1>1, RemoveShape DEF Unlinked
<1> HIDE DEF k2
<1>3. Below(mks, n, index) /\ Spread(mks, n) /\ n <= MaxMessageKeys
  BY DEF WellKept
<1> HIDE DEF n
<1>4. /\ Below(k2, n - 1, index) /\ Spread(k2, n - 1)
      /\ Values(k2, n - 1) = Values(mks, n) \ {c}
  BY <1>1, <1>2, <1>3, UnlinkSpread
<1>5. Keys(k2) = Keys(mks) \ {c}
  BY <1>2, <1>4 DEF Keys, n
<1>6. c \in Keys(mks)
  BY <1>1, HasIsValue
<1>7. \A d \in Keys(mks) : low <= d
  BY DEF WellKept, Keys
<1>8. WellKept(index, k2, low)
  <2>1. Len(k2) <= MaxMessageKeys
    BY <1>1, <1>2, <1>3, KeyBounds
  <2>2. \A d \in Values(k2, Len(k2)) : low <= d
    BY <1>5, <1>7 DEF Keys
  <2>3. Below(k2, Len(k2), index) /\ Spread(k2, Len(k2)) /\ k2 \in Seq(Nat) /\ low <= index
    BY <1>2, <1>4 DEF WellKept
  <2> QED BY <1>1, <2>1, <2>2, <2>3 DEF WellKept
<1>9. TakenFrom(index, mks, low, c, index, k2)
  BY <1>1, <1>5, <1>6, <1>7, <1>8 DEF TakenFrom
<1> QED BY <1>9 DEF k2

LEMMA TakeNewKey ==
  ASSUME NEW index, NEW mks, NEW low, WellKept(index, mks, low),
         NEW c \in Nat, index <= c
  PROVE  TakenFrom(index, mks, low, c, c + 1, KeepNewest(mks \o Run(index, c)))
<1> DEFINE all == mks \o Run(index, c)
           x == Excess(all)
           n == Len(mks)
           m == n + (c - index)
           k2 == KeepNewest(all)
<1>1. index \in Nat /\ low \in Nat /\ mks \in Seq(Nat) /\ n \in Nat /\ low <= index
  BY DEF WellKept
<1>2. all \in Seq(Nat) /\ Len(all) = m /\ Extended(mks, all, n, index, c, m)
  BY <1>1, ConcatRunShape, ZenonT(45) DEF Extended
<1> HIDE DEF all
<1>3. /\ k2 \in Seq(Nat) /\ x \in 0..m /\ Len(k2) = m - x
      /\ m - x <= MaxMessageKeys
      /\ Evicted(all, k2, m, x)
  BY <1>2, KeepNewestShape DEF Evicted
<1>4. x > 0 => m - x = MaxMessageKeys
  BY <1>2, KeyBounds DEF Excess
<1>5. Below(mks, n, index) /\ Spread(mks, n)
  BY DEF WellKept
<1>6. m \in Nat /\ m - x \in Nat
  BY <1>1, <1>3
<1> HIDE DEF k2, x
<1>7. Below(all, m, c) /\ Spread(all, m) /\ Values(all, m) = Values(mks, n) \union index..(c - 1)
  <2> HIDE DEF n, m
  <2> QED BY <1>1, <1>2, <1>5, <1>6, ExtendSpread
<1>8. /\ Below(k2, m - x, c)
      /\ Spread(k2, m - x)
      /\ Values(k2, m - x) \subseteq Values(all, m)
      /\ \A d \in Values(all, m) : \/ d \in Values(k2, m - x)
                                   \/ d < c - (m - x) /\ x > 0
  <2> HIDE DEF m
  <2> QED BY <1>3, <1>6, <1>7, EvictSpread
<1>9. /\ Values(k2, m - x) = Keys(k2)
      /\ Values(mks, n) = Keys(mks)
  BY <1>3 DEF Keys
<1>10. \A d \in Keys(mks) : d \in Nat /\ low <= d /\ d < index
  <2>1. \A d \in Keys(mks) : low <= d
    BY DEF WellKept, Keys
  <2> QED BY <1>5, <2>1 DEF Keys, Below, Values
<1>11. \A d \in Keys(k2) : d \in Keys(mks) \/ d \in index..(c - 1)
  BY <1>7, <1>8, <1>9
<1>12. WellKept(c + 1, k2, low)
  <2>1. \A d \in Values(k2, Len(k2)) : low <= d
    BY <1>1, <1>10, <1>11 DEF Keys
  <2>2. Below(k2, Len(k2), c + 1)
    BY <1>3, <1>8 DEF Below
  <2>3. Spread(k2, Len(k2))
    BY <1>3, <1>8
  <2>4. c + 1 \in Nat /\ low <= c + 1 /\ Len(k2) <= MaxMessageKeys
    BY <1>1, <1>3
  <2> QED BY <1>1, <1>3, <2>1, <2>2, <2>3, <2>4 DEF WellKept
<1>13. c \notin Keys(k2)
  BY <1>1, <1>10, <1>11
<1>14. ASSUME NEW d \in Nat, d < index, d \notin Keys(mks)
       PROVE  d \notin Keys(k2)
  BY <1>1, <1>11, <1>14
<1>15. ASSUME NEW d \in low..c, d # c, c + 1 - d <= MaxMessageKeys + 1,
              d < index => d \in Keys(mks)
       PROVE  d \in Keys(k2)
  <2>1. d \in Values(all, m)
    BY <1>1, <1>7, <1>9, <1>15
  <2>2. ~(d < c - (m - x) /\ x > 0)
    <3> HIDE DEF m
    <3> QED BY <1>1, <1>4, <1>6, <1>15, KeyBounds
  <2> QED BY <1>8, <1>9, <2>1, <2>2
<1>16. TakenFrom(index, mks, low, c, c + 1, k2)
  <2>1. low <= c /\ c < c + 1 /\ index <= c + 1
    BY <1>1
  <2>2. \A d \in low..((c + 1) - 1) :
          d # c /\ (c + 1) - d <= MaxMessageKeys + 1 /\ (d < index => d \in Keys(mks)) => d \in Keys(k2)
    BY <1>1, <1>15
  <2> HIDE DEF k2
  <2> QED BY <1>12, <1>13, <1>14, <2>1, <2>2 DEF TakenFrom
<1> QED BY <1>16 DEF k2, all

(* session_cipher_get_or_create_message_keys and                           *)
(* group_cipher_get_sender_key, whichever branch is taken.                 *)
LEMMA TakeKey ==
  ASSUME NEW index, NEW mks, NEW low, WellKept(index, mks, low),
         NEW c \in Nat, Answer(index, mks, c) = Success
  PROVE  TakenFrom(index, mks, low, c, IndexAfter(index, c), KeysAfter(index, mks, c))
<1>1. index \in Nat
  BY DEF WellKept
<1>2. CASE index > c
  <2>1. HasMessageKeys(mks, c)
    BY <1>2 DEF Answer, Success, Duplicate
  <2>2. IndexAfter(index, c) = index /\ KeysAfter(index, mks, c) = RemoveMessageKeys(mks, c)
    BY <1>2 DEF IndexAfter, KeysAfter
  <2>3. c < index
    BY <1>1, <1>2
  <2> QED BY <2>1, <2>2, <2>3, TakeStoredKey
<1>3. CASE ~(index > c)
  <2>1. /\ IndexAfter(index, c) = c + 1
        /\ KeysAfter(index, mks, c) = KeepNewest(mks \o Run(index, c))
    BY <1>3 DEF IndexAfter, KeysAfter
  <2>2. index <= c
    BY <1>1, <1>3
  <2> QED BY <2>1, <2>2, TakeNewKey
<1> QED BY <1>2, <1>3
=============================================================================
