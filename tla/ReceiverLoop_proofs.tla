------------------------ MODULE ReceiverLoop_proofs ------------------------
(***************************************************************************)
(* The receiver chain keeps Inv, and the key-by-key loop implements it,    *)
(* for every size of the key store, every future window and every set of   *)
(* arriving counters.                                                      *)
(***************************************************************************)
EXTENDS ReceiverLoop, MessageKeys_proofs

(* -------------------------- the receiver chain ------------------------- *)

(* A chain that has just been added satisfies the invariant.               *)
LEMMA InitInv == Init => Inv
<1> SUFFICES ASSUME Init PROVE Inv
  OBVIOUS
<1>1. Len(mks) = 0 /\ Len(log) = 0 /\ index = 0 /\ reply.code # Duplicate
  BY DEF Init, Duplicate
<1>2. TypeOK
  BY DEF Init, TypeOK, Codes
<1>3. StoreBounded
  BY <1>1, KeyBounds DEF StoreBounded
<1>4. UsedKeysErased /\ AcceptedOnce /\ WindowKept /\ DuplicateIsOld
  BY <1>1 DEF UsedKeysErased, AcceptedOnce, WindowKept, DuplicateIsOld, Accepted
<1> QED
  BY <1>1, <1>2, <1>3, <1>4 DEF Inv

(* The log of accepted counters grows by one entry.                        *)
LEMMA LogGrows ==
  ASSUME NEW c \in Nat, log \in Seq(Nat), log' = Append(log, c)
  PROVE  /\ log' \in Seq(Nat)
         /\ Accepted' = Accepted \union {c}
         /\ (AcceptedOnce /\ c \notin Accepted) => AcceptedOnce'
<1>1. /\ Len(log) \in Nat
      /\ log' \in Seq(Nat)
      /\ Len(log') = Len(log) + 1
      /\ Appended(log, log', Len(log), c)
  BY DEF Appended
<1>2. /\ Values(log', Len(log) + 1) = Values(log, Len(log)) \union {c}
      /\ Distinct(log, Len(log)) /\ c \notin Values(log, Len(log))
            => Distinct(log', Len(log) + 1)
  BY <1>1, AppendDistinct
<1>3. /\ Accepted = Values(log, Len(log))
      /\ Accepted' = Values(log', Len(log'))
      /\ AcceptedOnce = Distinct(log, Len(log))
      /\ AcceptedOnce' = Distinct(log', Len(log'))
  BY DEF Accepted, AcceptedOnce, Values, Distinct
<1> QED
  BY <1>1, <1>2, <1>3

(* Inv in the vocabulary of the lemmas on key lists.                       *)
LEMMA InvSpread ==
  ASSUME Inv
  PROVE  /\ Len(mks) \in Nat
         /\ Below(mks, Len(mks), index)
         /\ Spread(mks, Len(mks))
         /\ Stored = Values(mks, Len(mks))
<1>1. mks \in Seq(Nat) /\ Len(mks) \in Nat
  BY DEF Inv, TypeOK
<1>2. \A i \in 1..Len(mks) : mks[i] \in Nat
  BY <1>1
<1> QED
  BY <1>1, <1>2 DEF Inv, StoreBounded, Below, Spread, Values, Stored

(* And back: what the new key list must satisfy.                           *)
LEMMA SpreadInv ==
  ASSUME NEW n \in Nat, mks' \in Seq(Nat), Len(mks') = n, n <= MaxMessageKeys,
         NEW b \in Nat, Below(mks', n, b), b <= index', index' \in Nat, Spread(mks', n)
  PROVE  /\ StoreBounded'
         /\ \A i, j \in 1..Len(mks') : i < j => mks'[j] - mks'[i] >= j - i
         /\ Stored' = Values(mks', n)
<1>1. \A i \in 1..n : mks'[i] \in Nat /\ mks'[i] < index'
  BY DEF Below
<1>2. \A i, j \in 1..n : i < j => mks'[j] - mks'[i] >= j - i
  BY DEF Spread
<1>3. \A i, j \in 1..n : i < j => mks'[i] < mks'[j]
  <2> SUFFICES ASSUME NEW i \in 1..n, NEW j \in 1..n, i < j
               PROVE  mks'[i] < mks'[j]
    OBVIOUS
  <2>1. mks'[i] \in Nat /\ mks'[j] \in Nat /\ mks'[j] - mks'[i] >= j - i
    BY <1>1, <1>2
  <2>2. j - i > 0
    OBVIOUS
  <2> QED
    BY <2>1, <2>2
<1> QED
  BY <1>1, <1>2, <1>3 DEF StoreBounded, Stored, Values

(* Taking a stored key: the index stays, one entry leaves the list.        *)
LEMMA AcceptStoredInv ==
  ASSUME Inv, NEW c \in Counters, Accept(c), c < index
  PROVE  Inv'
<1>1. c \in Nat /\ index \in Nat
  BY CountersAreNaturals DEF Inv, TypeOK
<1>2. mks \in Seq(Nat) /\ log \in Seq(Nat)
  BY DEF Inv, TypeOK
<1>3. HasMessageKeys(mks, c) /\ index' = index /\ mks' = RemoveMessageKeys(mks, c)
  BY <1>1 DEF Accept, Answer, IndexAfter, KeysAfter, Success, Duplicate
<1>4. PICK k \in 1..Len(mks) :
        /\ mks[k] = c
        /\ mks' \in Seq(Nat)
        /\ Len(mks') = Len(mks) - 1
        /\ Unlinked(mks, mks', Len(mks), k)
  BY <1>1, <1>2, <1>3, RemoveShape DEF Unlinked
<1>5. /\ Len(mks) \in Nat
      /\ Below(mks, Len(mks), index)
      /\ Spread(mks, Len(mks))
      /\ Stored = Values(mks, Len(mks))
  BY InvSpread
<1>6. /\ Below(mks', Len(mks) - 1, index)
      /\ Spread(mks', Len(mks) - 1)
      /\ Values(mks', Len(mks) - 1) = Values(mks, Len(mks)) \ {mks[k]}
  BY <1>1, <1>4, <1>5, UnlinkSpread
<1>7. Len(mks) - 1 \in Nat /\ Len(mks) - 1 <= MaxMessageKeys
  BY <1>4, <1>5, KeyBounds DEF Inv, StoreBounded
<1>8. /\ StoreBounded'
      /\ \A i, j \in 1..Len(mks') : i < j => mks'[j] - mks'[i] >= j - i
      /\ Stored' = Values(mks', Len(mks) - 1)
  BY <1>1, <1>3, <1>4, <1>6, <1>7, SpreadInv
<1>9. Stored' = Stored \ {c}
  BY <1>4, <1>5, <1>6, <1>8
<1>10. c \in Stored
  BY <1>4 DEF Stored
<1>11. UsedKeysErased /\ AcceptedOnce /\ WindowKept
  BY DEF Inv
<1>12. c \notin Accepted
  BY <1>10, <1>11 DEF UsedKeysErased
<1>13. log' = Append(log, c) /\ reply' = [counter |-> c, code |-> Success]
  BY DEF Accept, Replied
<1>14. log' \in Seq(Nat) /\ Accepted' = Accepted \union {c} /\ AcceptedOnce'
  BY <1>1, <1>2, <1>11, <1>12, <1>13, LogGrows
<1>15. UsedKeysErased'
  BY <1>3, <1>9, <1>11, <1>14 DEF UsedKeysErased
<1>16. WindowKept'
  BY <1>3, <1>9, <1>11, <1>14 DEF WindowKept
<1>17. DuplicateIsOld'
  BY <1>13 DEF DuplicateIsOld, Success, Duplicate
<1>18. TypeOK'
  BY <1>1, <1>3, <1>4, <1>13, <1>14 DEF TypeOK, Codes
<1> QED
  BY <1>8, <1>14, <1>15, <1>16, <1>17, <1>18 DEF Inv

(* Accepting a counter at or after the index: the loop stores the counters *)
(* in between and evicts the oldest entries.                               *)
LEMMA AcceptNewInv ==
  ASSUME Inv, NEW c \in Counters, Accept(c), c >= index
  PROVE  Inv'
<1> DEFINE all == mks \o Run(index, c)
           x == Excess(all)
           m == Len(mks) + (c - index)
<1>1. c \in Nat /\ index \in Nat
  BY CountersAreNaturals DEF Inv, TypeOK
<1>2. mks \in Seq(Nat) /\ log \in Seq(Nat)
  BY DEF Inv, TypeOK
<1>3. index' = c + 1 /\ mks' = KeepNewest(all)
  BY <1>1 DEF Accept, IndexAfter, KeysAfter
<1>4. all \in Seq(Nat) /\ Len(all) = m /\ Extended(mks, all, Len(mks), index, c, m)
  BY <1>1, <1>2, ConcatRunShape DEF Extended
<1> HIDE DEF all
<1>5. /\ mks' \in Seq(Nat)
      /\ x \in 0..m
      /\ Len(mks') = m - x
      /\ m - x <= MaxMessageKeys
      /\ Evicted(all, mks', m, x)
  BY <1>3, <1>4, KeepNewestShape DEF Evicted
<1>6. x > 0 => m - x = MaxMessageKeys
  BY <1>4, KeyBounds DEF Excess
<1>7. /\ Len(mks) \in Nat
      /\ Below(mks, Len(mks), index)
      /\ Spread(mks, Len(mks))
      /\ Stored = Values(mks, Len(mks))
  BY InvSpread
<1>8. m \in Nat /\ m = Len(mks) + (c - index) /\ index <= c
  BY <1>1, <1>7
<1> HIDE DEF x, m
<1>9. Below(all, m, c) /\ Spread(all, m) /\ Values(all, m) = Stored \union index..(c - 1)
  <2>1. Extended(mks, all, Len(mks), index, c, m)
    BY <1>4
  <2>2. /\ Below(all, m, c) /\ Spread(all, m)
        /\ Values(all, m) = Values(mks, Len(mks)) \union index..(c - 1)
    BY <1>1, <1>7, <1>8, <2>1, ExtendSpread
  <2> QED
    BY <1>7, <2>2
<1>10. /\ Below(mks', m - x, c)
       /\ Spread(mks', m - x)
       /\ Values(mks', m - x) \subseteq Values(all, m)
       /\ \A d \in Values(all, m) : \/ d \in Values(mks', m - x)
                                    \/ d < c - (m - x) /\ x > 0
  BY <1>1, <1>5, <1>8, <1>9, EvictSpread
<1>11. m - x \in Nat /\ c <= index' /\ index' \in Nat
  BY <1>1, <1>3, <1>5, <1>8
<1>12. /\ StoreBounded'
       /\ \A i, j \in 1..Len(mks') : i < j => mks'[j] - mks'[i] >= j - i
       /\ Stored' = Values(mks', m - x)
  BY <1>1, <1>5, <1>10, <1>11, SpreadInv
<1>13. \A d \in Stored' : d \in Nat /\ d < c
  BY <1>10, <1>12 DEF Below, Values
<1>14. UsedKeysErased /\ AcceptedOnce /\ WindowKept
  BY DEF Inv
<1>15. \A d \in Accepted : d \in Nat
  BY <1>2 DEF Accepted
<1>16. \A d \in Accepted : d < index /\ d \notin Stored
  BY <1>14 DEF UsedKeysErased
<1>17. c \notin Accepted
  BY <1>1, <1>15, <1>16
<1>18. log' = Append(log, c) /\ reply' = [counter |-> c, code |-> Success]
  BY DEF Accept, Replied
<1>19. log' \in Seq(Nat) /\ Accepted' = Accepted \union {c} /\ AcceptedOnce'
  BY <1>1, <1>2, <1>14, <1>17, <1>18, LogGrows
<1>20. UsedKeysErased'
  <2> SUFFICES ASSUME NEW d \in Accepted'
               PROVE  d \notin Stored' /\ d < index'
    BY DEF UsedKeysErased
  <2>1. CASE d = c
    BY <1>1, <1>3, <1>13, <2>1
  <2>2. CASE d # c
    <3>1. d \in Nat /\ d < index /\ d \notin Stored
      BY <1>15, <1>16, <1>19, <2>2
    <3>2. d \notin Stored'
      BY <1>1, <1>9, <1>10, <1>12, <3>1
    <3> QED
      BY <1>1, <1>3, <3>1, <3>2
  <2> QED
    BY <2>1, <2>2
<1>21. WindowKept'
  <2> SUFFICES ASSUME NEW d \in 0..(index' - 1), d \notin Accepted',
                      index' - d <= MaxMessageKeys + 1
               PROVE  d \in Stored'
    BY DEF WindowKept
  <2>1. d \in 0..(c - 1) /\ d \notin Accepted /\ c - d <= MaxMessageKeys
    BY <1>1, <1>3, <1>19, KeyBounds
  <2>2. d \in Stored \union index..(c - 1)
    <3>1. CASE d < index
      <4>1. d \in 0..(index - 1) /\ index - d <= MaxMessageKeys + 1
        BY <1>1, <2>1, <3>1, KeyBounds
      <4> QED
        BY <1>14, <2>1, <4>1 DEF WindowKept
    <3>2. CASE d >= index
      BY <1>1, <2>1, <3>2
    <3> QED
      BY <1>1, <2>1, <3>1, <3>2
  <2>3. ~(d < c - (m - x) /\ x > 0)
    BY <1>1, <1>5, <1>6, <1>8, <2>1, KeyBounds
  <2> QED
    BY <1>9, <1>10, <1>12, <2>2, <2>3
<1>22. DuplicateIsOld'
  BY <1>18 DEF DuplicateIsOld, Success, Duplicate
<1>23. TypeOK'
  BY <1>1, <1>3, <1>5, <1>18, <1>19 DEF TypeOK, Codes
<1> QED
  BY <1>12, <1>19, <1>20, <1>21, <1>22, <1>23 DEF Inv

(* A refused counter changes the reply only, and "duplicate" is a true     *)
(* statement when it is given.                                             *)
LEMMA RefuseInv ==
  ASSUME Inv, NEW c \in Counters, Refuse(c)
  PROVE  Inv'
<1>1. c \in Nat /\ index \in Nat /\ mks \in Seq(Nat)
  BY CountersAreNaturals DEF Inv, TypeOK
<1>2. UNCHANGED <<index, mks, log>> /\ Accepted' = Accepted /\ Stored' = Stored
  BY DEF Refuse, Accepted, Stored
<1>3. reply' = [counter |-> c, code |-> Answer(index, mks, c)]
  BY DEF Refuse, Replied
<1>4. DuplicateIsOld'
  <2> SUFFICES ASSUME reply'.code = Duplicate
               PROVE  c \in Accepted \/ index - c > MaxMessageKeys + 1
    BY <1>2, <1>3 DEF DuplicateIsOld
  <2>1. index > c /\ ~HasMessageKeys(mks, c)
    BY <1>1, <1>3 DEF Answer, Success, Duplicate, Invalid
  <2>2. c \notin Stored
    BY <2>1 DEF HasMessageKeys, Stored
  <2> QED
    BY <1>1, <2>1, <2>2, KeyBounds DEF Inv, WindowKept
<1>5. TypeOK'
  BY <1>1, <1>2, <1>3 DEF Inv, TypeOK, Codes, Answer
<1>6. StoreBounded' /\ UsedKeysErased' /\ AcceptedOnce' /\ WindowKept'
  BY <1>2 DEF Inv, StoreBounded, UsedKeysErased, AcceptedOnce, WindowKept
<1> QED
  BY <1>2, <1>4, <1>5, <1>6 DEF Inv

(* A message whose MAC does not verify changes the reply only.             *)
LEMMA RejectMacInv ==
  ASSUME Inv, NEW c \in Counters, RejectMac(c)
  PROVE  Inv'
<1>1. c \in Nat
  BY CountersAreNaturals
<1>2. UNCHANGED <<index, mks, log>> /\ Accepted' = Accepted /\ Stored' = Stored
  BY DEF RejectMac, Accepted, Stored
<1>3. reply' = [counter |-> c, code |-> Invalid]
  BY DEF RejectMac, Replied
<1>4. DuplicateIsOld' /\ TypeOK'
  BY <1>1, <1>2, <1>3 DEF Inv, DuplicateIsOld, TypeOK, Codes, Duplicate, Invalid
<1>5. StoreBounded' /\ UsedKeysErased' /\ AcceptedOnce' /\ WindowKept'
  BY <1>2 DEF Inv, StoreBounded, UsedKeysErased, AcceptedOnce, WindowKept
<1> QED
  BY <1>2, <1>4, <1>5 DEF Inv

(* Every arrival preserves the invariant, and so does a step of nothing.   *)
LEMMA NextInv == Inv /\ [Next]_vars => Inv'
<1> SUFFICES ASSUME Inv, [Next]_vars PROVE Inv'
  OBVIOUS
<1>1. ASSUME NEW c \in Counters, Accept(c) PROVE Inv'
  <2>1. c \in Nat /\ index \in Nat
    BY CountersAreNaturals DEF Inv, TypeOK
  <2> QED
    BY <1>1, <2>1, AcceptStoredInv, AcceptNewInv
<1>2. ASSUME NEW c \in Counters, RejectMac(c) PROVE Inv'
  BY <1>2, RejectMacInv
<1>3. ASSUME NEW c \in Counters, Refuse(c) PROVE Inv'
  BY <1>3, RefuseInv
<1>4. CASE UNCHANGED vars
  BY <1>4 DEF vars, Inv, TypeOK, StoreBounded, UsedKeysErased, AcceptedOnce,
              WindowKept, DuplicateIsOld, Accepted, Stored
<1> QED
  BY <1>1, <1>2, <1>3, <1>4 DEF Next

(* The invariant of the receiver chain, whatever arrives: types, the bound *)
(* on the store, and the parts named below.                                *)
THEOREM ChainInvariant == Spec => []Inv
BY InitInv, NextInv, PTL DEF Spec

(* No message is decrypted twice by one chain.                             *)
THEOREM ChainAcceptsOnce == Spec => []AcceptedOnce
<1>1. Inv => AcceptedOnce
  BY DEF Inv
<1> QED
  BY <1>1, ChainInvariant, PTL

(* A late message is accepted while it is in the window.                   *)
THEOREM ChainKeepsWindow == Spec => []WindowKept
<1>1. Inv => WindowKept
  BY DEF Inv
<1> QED
  BY <1>1, ChainInvariant, PTL

(* What SG_ERR_DUPLICATE_MESSAGE really says: received, or out of window.  *)
THEOREM ChainDuplicateIsOld == Spec => []DuplicateIsOld
<1>1. Inv => DuplicateIsOld
  BY DEF Inv
<1> QED
  BY <1>1, ChainInvariant, PTL

(* The key of an accepted message is gone from the chain.                  *)
THEOREM ChainErasesUsedKeys == Spec => []UsedKeysErased
<1>1. Inv => UsedKeysErased
  BY DEF Inv
<1> QED
  BY <1>1, ChainInvariant, PTL

(* -------------------------- the key-by-key loop ------------------------ *)

(* Two lists of counters with the same entries are the same list.          *)
LEMMA SameList ==
  ASSUME NEW s \in Seq(Nat), NEW t \in Seq(Nat), Len(s) = Len(t),
         \A i \in 1..Len(s) : s[i] = t[i]
  PROVE  s = t
OBVIOUS

(* An append, element by element. *)
LEMMA AppendShape ==
  ASSUME NEW s \in Seq(Nat), NEW e \in Nat
  PROVE  /\ Append(s, e) \in Seq(Nat)
         /\ Len(Append(s, e)) = Len(s) + 1
         /\ \A i \in 1..Len(s) : Append(s, e)[i] = s[i]
         /\ Append(s, e)[Len(s) + 1] = e
OBVIOUS

(* Storing counter `to' after the run from..to-1 gives the run from..to.   *)
LEMMA RunStep ==
  ASSUME NEW s \in Seq(Nat), NEW from \in Nat, NEW to \in Nat, from <= to
  PROVE  Append(s \o Run(from, to), to) = s \o Run(from, to + 1)
<1> DEFINE u == s \o Run(from, to)
           v == s \o Run(from, to + 1)
           n == Len(s)
<1>1. /\ u \in Seq(Nat)
      /\ Len(u) = n + (to - from)
      /\ \A i \in 1..n : u[i] = s[i]
      /\ \A i \in (n + 1)..(n + (to - from)) : u[i] = from + (i - n) - 1
  BY ConcatRunShape
<1>2. /\ v \in Seq(Nat)
      /\ Len(v) = n + ((to + 1) - from)
      /\ \A i \in 1..n : v[i] = s[i]
      /\ \A i \in (n + 1)..(n + ((to + 1) - from)) : v[i] = from + (i - n) - 1
  <2>1. to + 1 \in Nat /\ from <= to + 1
    OBVIOUS
  <2> QED
    BY <2>1, ConcatRunShape
<1>3. n \in Nat
  OBVIOUS
<1> HIDE DEF u, v, n
<1>4. /\ Append(u, to) \in Seq(Nat)
      /\ Len(Append(u, to)) = Len(u) + 1
      /\ \A i \in 1..Len(u) : Append(u, to)[i] = u[i]
      /\ Append(u, to)[Len(u) + 1] = to
  BY <1>1, AppendShape
<1> DEFINE w == Append(u, to)
<1> HIDE DEF w
<1>5. /\ w \in Seq(Nat)
      /\ Len(w) = Len(u) + 1
      /\ \A i \in 1..Len(u) : w[i] = u[i]
      /\ w[Len(u) + 1] = to
  BY <1>4 DEF w
<1>6. Len(w) = Len(v)
  BY <1>1, <1>2, <1>3, <1>5
<1>7. ASSUME NEW i \in 1..Len(w)
      PROVE  w[i] = v[i]
  <2>1. Len(u) = n + (to - from) /\ Len(w) = n + (to - from) + 1
    BY <1>1, <1>3, <1>5
  <2>2. CASE i \in 1..n
    <3>1. i \in 1..Len(u)
      BY <1>3, <2>1, <2>2
    <3> QED
      BY <1>1, <1>2, <1>5, <2>2, <3>1
  <2>3. CASE i \in (n + 1)..(n + (to - from))
    <3>1. i \in 1..Len(u) /\ i \in (n + 1)..(n + ((to + 1) - from))
      BY <1>3, <2>1, <2>3
    <3> QED
      BY <1>1, <1>2, <1>5, <2>3, <3>1
  <2>4. CASE i = n + (to - from) + 1
    <3>1. i = Len(u) + 1 /\ i \in (n + 1)..(n + ((to + 1) - from))
      BY <1>3, <2>1, <2>4
    <3>2. w[i] = to /\ v[i] = from + (i - n) - 1
      BY <1>2, <1>5, <3>1
    <3> QED
      BY <1>3, <2>4, <3>2
  <2> QED
    BY <1>3, <2>1, <2>2, <2>3, <2>4
<1> QED
  BY <1>2, <1>5, <1>6, <1>7, SameList DEF w, u, v

(* Evicting on every iteration or once at the end comes to the same.       *)
LEMMA EvictTwice ==
  ASSUME NEW s \in Seq(Nat), NEW e \in Nat
  PROVE  SetMessageKeys(KeepNewest(s), e) = KeepNewest(Append(s, e))
<1> DEFINE t == KeepNewest(s)
           a == Append(s, e)
           b == Append(t, e)
           l == KeepNewest(b)
           r == KeepNewest(a)
           n == Len(s)
<1>1. /\ t \in Seq(Nat)
      /\ Len(t) = n - Excess(s)
      /\ \A i \in 1..Len(t) : t[i] = s[i + Excess(s)]
  BY KeepNewestShape
<1>2. n \in Nat /\ MaxMessageKeys \in Nat
  BY KeyBounds
<1>3. Excess(s) = IF n > MaxMessageKeys THEN n - MaxMessageKeys ELSE 0
  BY DEF Excess
<1> HIDE DEF t, n
<1>4. /\ a \in Seq(Nat)
      /\ Len(a) = n + 1
      /\ \A i \in 1..n : a[i] = s[i]
      /\ a[n + 1] = e
  BY AppendShape DEF n
<1>5. /\ b \in Seq(Nat)
      /\ Len(b) = Len(t) + 1
      /\ \A i \in 1..Len(t) : b[i] = t[i]
      /\ b[Len(t) + 1] = e
  BY <1>1, AppendShape
<1> HIDE DEF a, b
<1>6. /\ r \in Seq(Nat)
      /\ Len(r) = Len(a) - Excess(a)
      /\ \A i \in 1..Len(r) : r[i] = a[i + Excess(a)]
  BY <1>4, KeepNewestShape
<1>7. /\ l \in Seq(Nat)
      /\ Len(l) = Len(b) - Excess(b)
      /\ \A i \in 1..Len(l) : l[i] = b[i + Excess(b)]
  BY <1>5, KeepNewestShape
<1>8. /\ Excess(a) = IF Len(a) > MaxMessageKeys THEN Len(a) - MaxMessageKeys ELSE 0
      /\ Excess(b) = IF Len(b) > MaxMessageKeys THEN Len(b) - MaxMessageKeys ELSE 0
  BY DEF Excess
<1> HIDE DEF l, r
<1> DEFINE p == Excess(s)
           q == Excess(b)
<1> HIDE DEF p, q
<1>9. /\ p \in 0..n /\ q \in 0..1 /\ Len(t) = n - p
      /\ Excess(a) = p + q
      /\ Len(l) = n - p + 1 - q /\ Len(r) = n - p + 1 - q
  <2>1. Len(t) = n - p /\ Len(a) = n + 1 /\ Len(b) = Len(t) + 1
    BY <1>1, <1>4, <1>5 DEF p
  <2>2. p = IF n > MaxMessageKeys THEN n - MaxMessageKeys ELSE 0
    BY <1>3 DEF p
  <2>3. q = IF n - p + 1 > MaxMessageKeys THEN n - p + 1 - MaxMessageKeys ELSE 0
    BY <1>2, <1>8, <2>1, <2>2 DEF q
  <2>4. Excess(a) = IF n + 1 > MaxMessageKeys THEN n + 1 - MaxMessageKeys ELSE 0
    BY <1>2, <1>8, <2>1
  <2>5. p \in 0..n /\ q \in 0..1 /\ Excess(a) = p + q
    BY <1>2, <2>2, <2>3, <2>4
  <2>6. Len(l) = Len(b) - q /\ Len(r) = Len(a) - Excess(a)
    BY <1>6, <1>7 DEF q
  <2> QED
    BY <1>2, <2>1, <2>5, <2>6
<1>10. /\ \A i \in 1..Len(l) : l[i] = b[i + q]
       /\ \A i \in 1..Len(r) : r[i] = a[i + (p + q)]
       /\ \A i \in 1..Len(t) : t[i] = s[i + p]
  BY <1>1, <1>6, <1>7, <1>9 DEF p, q
<1>11. ASSUME NEW i \in 1..Len(l)
       PROVE  l[i] = r[i]
  <2>1. i \in 1..(n - p + 1 - q) /\ l[i] = b[i + q] /\ r[i] = a[i + (p + q)]
    BY <1>9, <1>10
  <2>2. CASE i + q = n - p + 1
    <3>1. i + q = Len(t) + 1 /\ i + (p + q) = n + 1
      BY <1>2, <1>9, <2>1, <2>2
    <3> QED
      BY <1>4, <1>5, <2>1, <3>1
  <2>3. CASE i + q \in 1..(n - p)
    <3>1. i + q \in 1..Len(t) /\ i + (p + q) \in 1..n /\ (i + q) + p = i + (p + q)
      BY <1>2, <1>9, <2>1, <2>3
    <3>2. b[i + q] = t[i + q] /\ t[i + q] = s[(i + q) + p]
      BY <1>5, <1>10, <3>1
    <3> QED
      BY <1>4, <2>1, <3>1, <3>2
  <2>4. i + q = n - p + 1 \/ i + q \in 1..(n - p)
    BY <1>2, <1>9, <2>1
  <2> QED
    BY <2>2, <2>3, <2>4
<1>12. l = r
  BY <1>6, <1>7, <1>9, <1>11, SameList
<1>13. SetMessageKeys(t, e) = l
  BY DEF SetMessageKeys, l, b
<1> QED
  BY <1>12, <1>13 DEF t, r, a

LoopInv == LoopTypeOK /\ LoopInvariant

(* The loop invariant holds before any message.                            *)
LEMMA LoopStart == LoopInit => LoopInv
<1> SUFFICES ASSUME LoopInit PROVE LoopInv
  OBVIOUS
<1>1. LoopTypeOK
  BY DEF LoopInit, LoopTypeOK, Init, TypeOK, Codes
<1>2. Len(mks) = 0 /\ pc # "loop"
  BY DEF LoopInit, Init
<1> QED
  BY <1>1, <1>2, KeyBounds DEF LoopInv, LoopInvariant

(* Before the first iteration nothing has been stored.                     *)
LEMMA EmptyRun ==
  ASSUME NEW s \in Seq(Nat), NEW from \in Nat, Len(s) <= MaxMessageKeys
  PROVE  KeepNewest(s \o Run(from, from)) = s
<1>1. /\ s \o Run(from, from) \in Seq(Nat)
      /\ Len(s \o Run(from, from)) = Len(s) + (from - from)
      /\ \A i \in 1..Len(s) : (s \o Run(from, from))[i] = s[i]
  <2>1. from <= from
    OBVIOUS
  <2> QED
    BY <2>1, ConcatRunShape
<1>2. Len(s) + (from - from) = Len(s)
  OBVIOUS
<1>3. s \o Run(from, from) = s
  BY <1>1, <1>2, SameList
<1>4. KeepNewest(s) = s
  BY KeyBounds DEF KeepNewest
<1> QED
  BY <1>3, <1>4

(* Taking a stored key keeps the types and shortens the list.              *)
LEMMA StoredTypes ==
  ASSUME LoopInv, NEW c \in Counters, c < index, Accept(c)
  PROVE  TypeOK' /\ Len(mks') <= MaxMessageKeys
<1>1. c \in Nat /\ index \in Nat /\ mks \in Seq(Nat) /\ log \in Seq(Nat)
  BY CountersAreNaturals DEF LoopInv, LoopTypeOK, TypeOK
<1>2. HasMessageKeys(mks, c) /\ index' = index /\ mks' = RemoveMessageKeys(mks, c)
  BY <1>1 DEF Accept, Answer, IndexAfter, KeysAfter, Success, Duplicate
<1>3. mks' \in Seq(Nat) /\ Len(mks') = Len(mks) - 1
  BY <1>1, <1>2, RemoveShape
<1>4. log' = Append(log, c) /\ reply' = [counter |-> c, code |-> Success]
  BY DEF Accept, Replied
<1>5. log' \in Seq(Nat)
  BY <1>1, <1>4
<1>6. Len(mks') <= MaxMessageKeys
  BY <1>1, <1>3, KeyBounds DEF LoopInv, LoopInvariant
<1> QED
  BY <1>1, <1>2, <1>3, <1>4, <1>5, <1>6 DEF TypeOK, Codes

(* Every step of the loop keeps the loop invariant.                        *)
LEMMA LoopStep == LoopInv /\ [LoopNext]_loopVars => LoopInv'
<1> SUFFICES ASSUME LoopInv, [LoopNext]_loopVars PROVE LoopInv'
  OBVIOUS
<1>1. /\ index \in Nat /\ mks \in Seq(Nat) /\ log \in Seq(Nat)
      /\ reply \in [counter : Nat, code : Codes]
      /\ pc \in {"idle", "loop"} /\ want \in Nat /\ cur \in Nat /\ copy \in Seq(Nat)
      /\ Len(mks) <= MaxMessageKeys
  BY DEF LoopInv, LoopTypeOK, LoopInvariant, TypeOK
<1>2. ASSUME NEW c \in Counters, Begin(c) PROVE LoopInv'
  <2>1. c \in Nat
    BY CountersAreNaturals
  <2>2. LoopTypeOK'
    BY <1>1, <1>2, <2>1 DEF Begin, vars, LoopTypeOK, TypeOK
  <2>3. KeepNewest(mks \o Run(index, index)) = mks
    BY <1>1, EmptyRun
  <2>4. /\ index' = index /\ mks' = mks /\ want' = c /\ cur' = index /\ copy' = mks
        /\ Answer(index, mks, c) = Success /\ index <= c
    BY <1>1, <1>2, <2>1 DEF Begin, vars
  <2>5. LoopInvariant'
    BY <1>1, <2>3, <2>4 DEF LoopInvariant
  <2> QED
    BY <2>2, <2>5 DEF LoopInv
<1>3. CASE Skip
  <2>1. /\ index \in Nat /\ index <= cur /\ cur < want
        /\ Answer(index, mks, want) = Success /\ want \in Counters
        /\ copy = KeepNewest(mks \o Run(index, cur))
    BY <1>1, <1>3 DEF Skip, LoopInv, LoopInvariant
  <2>2. /\ index' = index /\ mks' = mks /\ want' = want /\ cur' = cur + 1
        /\ pc' = pc /\ log' = log /\ reply' = reply
        /\ copy' = SetMessageKeys(copy, cur)
    BY <1>3 DEF Skip
  <2>3. mks \o Run(index, cur) \in Seq(Nat)
    BY <1>1, <2>1, ConcatRunShape
  <2>4. copy' = KeepNewest(Append(mks \o Run(index, cur), cur))
    BY <1>1, <2>1, <2>2, <2>3, EvictTwice
  <2>5. copy' = KeepNewest(mks \o Run(index, cur + 1))
    BY <1>1, <2>1, <2>4, RunStep
  <2>6. mks \o Run(index, cur + 1) \in Seq(Nat)
    BY <1>1, <2>1, ConcatRunShape
  <2>7. copy' \in Seq(Nat)
    BY <2>5, <2>6, KeepNewestShape
  <2>8. LoopTypeOK'
    BY <1>1, <2>2, <2>7 DEF LoopTypeOK, TypeOK
  <2>9. index <= cur + 1 /\ cur + 1 <= want
    BY <1>1, <2>1
  <2>10. LoopInvariant'
    BY <1>1, <2>1, <2>2, <2>5, <2>9 DEF LoopInvariant
  <2> QED
    BY <2>8, <2>10 DEF LoopInv
<1>4. CASE Keep
  <2>1. /\ index' = cur + 1 /\ mks' = copy /\ log' = Append(log, want)
        /\ reply' = [counter |-> want, code |-> Success] /\ pc' = "idle"
        /\ want' = want /\ cur' = cur /\ copy' = copy
    BY <1>4 DEF Keep
  <2>2. log' \in Seq(Nat)
    BY <1>1, <2>1
  <2>3. copy = KeepNewest(mks \o Run(index, cur)) /\ index <= cur
    BY <1>4 DEF Keep, LoopInv, LoopInvariant
  <2>4. mks \o Run(index, cur) \in Seq(Nat)
    BY <1>1, <2>3, ConcatRunShape
  <2>5. Len(copy) <= MaxMessageKeys
    BY <2>3, <2>4, KeepNewestShape
  <2>6. LoopTypeOK'
    BY <1>1, <2>1, <2>2 DEF LoopTypeOK, TypeOK, Codes
  <2> QED
    BY <2>1, <2>5, <2>6 DEF LoopInv, LoopInvariant
<1>5. CASE Drop
  <2>1. LoopTypeOK' /\ mks' = mks /\ pc' = "idle"
    BY <1>1, <1>5 DEF Drop, LoopTypeOK, TypeOK, Codes
  <2> QED
    BY <1>1, <2>1 DEF LoopInv, LoopInvariant
<1>6. CASE Fail
  <2>1. LoopTypeOK' /\ mks' = mks /\ pc' = "idle"
    BY <1>1, <1>6 DEF Fail, LoopTypeOK, TypeOK
  <2> QED
    BY <1>1, <2>1 DEF LoopInv, LoopInvariant
<1>7. ASSUME NEW c \in Counters, TakeStored(c) PROVE LoopInv'
  <2>1. c \in Nat /\ c < index /\ pc' = "idle"
    BY <1>7, CountersAreNaturals DEF TakeStored, work
  <2>2. TypeOK' /\ Len(mks') <= MaxMessageKeys
    <3>1. CASE Accept(c)
      BY <2>1, <3>1, StoredTypes
    <3>2. CASE RejectMac(c)
      BY <1>1, <2>1, <3>2
      DEF RejectMac, Replied, TypeOK, Codes
    <3> QED
      BY <1>7, <3>1, <3>2 DEF TakeStored
  <2>3. LoopTypeOK'
    BY <1>1, <1>7, <2>2 DEF TakeStored, work, LoopTypeOK
  <2> QED
    BY <2>1, <2>2, <2>3 DEF LoopInv, LoopInvariant
<1>8. ASSUME NEW c \in Counters, RefuseIdle(c) PROVE LoopInv'
  <2>1. c \in Nat
    BY CountersAreNaturals
  <2>2. Answer(index, mks, c) \in Codes
    BY DEF Answer, Codes
  <2>3. LoopTypeOK' /\ mks' = mks /\ pc' = "idle"
    BY <1>1, <1>8, <2>1, <2>2
    DEF RefuseIdle, work, Refuse, Replied, LoopTypeOK, TypeOK
  <2> QED
    BY <1>1, <2>3 DEF LoopInv, LoopInvariant
<1>9. CASE UNCHANGED loopVars
  BY <1>9 DEF loopVars, LoopInv, LoopTypeOK, LoopInvariant, TypeOK
<1> QED
  BY <1>2, <1>3, <1>4, <1>5, <1>6, <1>7, <1>8, <1>9 DEF LoopNext

(* The loop invariant of get_or_create_message_keys: after any number of   *)
(* iterations the copy holds the newest of all the counters passed.        *)
THEOREM LoopCorrect == LoopSpec => []LoopInvariant
<1>1. LoopInv => LoopInvariant
  BY DEF LoopInv
<1> QED
  BY <1>1, LoopStart, LoopStep, PTL DEF LoopSpec

(* Every step of the loop is a step of the atomic chain or changes nothing *)
(* the chain shows.                                                        *)
LEMMA LoopSimulates ==
  LoopInv /\ [LoopNext]_loopVars => [Next]_vars
<1> SUFFICES ASSUME LoopInv, [LoopNext]_loopVars
             PROVE  Next \/ UNCHANGED <<index, mks, log, reply>>
  BY DEF vars
<1>1. ASSUME NEW c \in Counters, Begin(c) PROVE UNCHANGED <<index, mks, log, reply>>
  BY <1>1 DEF Begin, vars
<1>2. CASE Skip \/ Fail \/ UNCHANGED loopVars
  BY <1>2 DEF Skip, Fail, loopVars
<1>3. CASE Keep
  <2>1. /\ index \in Nat /\ cur \in Nat /\ want \in Counters /\ cur = want /\ index <= want
        /\ Answer(index, mks, want) = Success
        /\ copy = KeepNewest(mks \o Run(index, cur))
    BY <1>3 DEF Keep, LoopInv, LoopInvariant, LoopTypeOK, TypeOK
  <2>2. ~(index > want)
    BY <2>1
  <2>3. /\ index' = IndexAfter(index, want)
        /\ mks' = KeysAfter(index, mks, want)
    BY <1>3, <2>1, <2>2 DEF Keep, IndexAfter, KeysAfter
  <2>4. Accept(want)
    BY <1>3, <2>1, <2>3 DEF Keep, Accept, Replied
  <2> QED
    BY <2>1, <2>4 DEF Next
<1>4. CASE Drop
  <2>1. want \in Counters /\ Answer(index, mks, want) = Success
    BY <1>4 DEF Drop, LoopInv, LoopInvariant
  <2>2. RejectMac(want)
    BY <1>4, <2>1 DEF Drop, RejectMac, Replied
  <2> QED
    BY <2>1, <2>2 DEF Next
<1>5. ASSUME NEW c \in Counters, TakeStored(c) \/ RefuseIdle(c) PROVE Next
  BY <1>5 DEF TakeStored, RefuseIdle, Next
<1> QED
  BY <1>1, <1>2, <1>3, <1>4, <1>5 DEF LoopNext

(* session_cipher_get_or_create_message_keys, taken one stored key at a    *)
(* time and failing anywhere, implements the atomic receiver chain.        *)
THEOREM LoopRefinesChain == LoopSpec => Refinement
<1>1. LoopInit => Init
  BY DEF LoopInit
<1> QED
  BY <1>1, LoopStart, LoopStep, LoopSimulates, PTL DEF LoopSpec, Refinement, Spec
=============================================================================
