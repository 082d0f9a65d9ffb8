------------------------- MODULE PreKeyPool_proofs --------------------------
(***************************************************************************)
(* The pre keys of one installation, for every size of the id space and of *)
(* the machine word.  The last-resort key survives every batch, and a key  *)
(* on offer is in the store, for batches of any length that begin          *)
(* anywhere; ids are repeated only after all the others, for batches that  *)
(* begin at 1 or later and do not run past the end of the machine word.    *)
(***************************************************************************)
EXTENDS PreKeyPool, WellFoundedInduction, TLAPS

(* What the induction needs besides LastResortKept.                        *)
PoolInv ==
  /\ store = [i \in 1..MediumMax |-> store[i]]
  /\ next \in Nat
  /\ server \subseteq 1..(MediumMax - 1)
  /\ \A o \in out : o[1] \in 1..(MediumMax - 1)
  /\ LastResortKept

(* A remainder is smaller than the divisor.                                *)
LEMMA Remainder ==
  ASSUME NEW a \in Nat, NEW b \in Nat \ {0}
  PROVE  a % b \in 0..(b - 1)
OBVIOUS

(* The ids of key_helper.c are never 0 and never PRE_KEY_MEDIUM_MAX_VALUE. *)
LEMMA PreKeyIdInRange ==
  ASSUME NEW start \in Nat, NEW i \in Nat
  PROVE  PreKeyId(start, i) \in 1..(MediumMax - 1)
<1> DEFINE x == Index(start, i)
<1>1. start + Word - 1 + i \in Nat /\ Word \in Nat \ {0}
  BY PreKeyAssumption
<1>2. x \in Nat
  BY <1>1, Remainder DEF Index
<1>3. x % (MediumMax - 1) \in 0..(MediumMax - 2)
  <2>1. MediumMax - 1 \in Nat \ {0} /\ (MediumMax - 1) - 1 = MediumMax - 2
    BY PreKeyAssumption
  <2> HIDE DEF x
  <2> QED BY <1>2, <2>1, Remainder
<1> QED
  <2> DEFINE y == x % (MediumMax - 1)
  <2>1. y \in 0..(MediumMax - 2)
    BY <1>3
  <2>2. PreKeyId(start, i) = y + 1
    BY DEF PreKeyId
  <2> HIDE DEF y
  <2> QED BY <2>1, <2>2, PreKeyAssumption

(* One step, whichever it is, keeps PoolInv.                               *)
LEMMA PoolStep ==
  ASSUME PoolInv, [PoolNext]_poolVars
  PROVE  PoolInv'
<1> USE DEF PoolInv, LastResortKept
<1>0. MediumMax \in 1..MediumMax /\ MediumMax \notin 1..(MediumMax - 1)
  BY PreKeyAssumption
<1>1. ASSUME NEW n \in BatchSizes, NEW k \in 1..n, GeneratePreKeys(n, k)
      PROVE  PoolInv'
  <2>1. n \in Nat /\ k \in Nat /\ k - 1 \in Nat /\ 0..(k - 1) \subseteq Nat
    BY PreKeyAssumption
  <2>2. \A i \in 0..(k - 1) : PreKeyId(next, i) \in 1..(MediumMax - 1)
    BY <2>1, PreKeyIdInRange
  <2>3. Positions(MediumMax, k) = {}
    BY <1>0, <2>2 DEF Positions
  <2>4. store' = [i \in 1..MediumMax |-> store'[i]] /\ store'[MediumMax] = 1
    BY <1>0, <1>1, <2>3 DEF GeneratePreKeys, Stored
  <2>5. next' \in Nat
    <3>1. PreKeyId(next, k - 1) \in 1..(MediumMax - 1)
      BY <2>1, PreKeyIdInRange
    <3>2. next' = PreKeyId(next, k - 1) + 1
      BY <1>1 DEF GeneratePreKeys
    <3> QED BY <3>1, <3>2, PreKeyAssumption
  <2>6. server' \subseteq 1..(MediumMax - 1)
    BY <1>1, <2>2 DEF GeneratePreKeys
  <2> QED BY <1>1, <2>4, <2>5, <2>6 DEF GeneratePreKeys
<1>2. ASSUME NEW i \in server, HandOut(i)
      PROVE  PoolInv'
  <2>1. \A o \in out' : o \in out \/ o = <<i, store[i]>>
    BY <1>2 DEF HandOut
  <2> QED BY <1>2, <2>1 DEF HandOut
<1>3. ASSUME NEW o \in out, BeginSession(o)
      PROVE  PoolInv'
  <2>1. o[1] \in 1..(MediumMax - 1)
    OBVIOUS
  <2>2. store' = [i \in 1..MediumMax |-> store'[i]] /\ store'[MediumMax] = 1
    BY <1>0, <1>3, <2>1 DEF BeginSession
  <2> QED BY <1>3, <2>2 DEF BeginSession
<1>4. CASE UNCHANGED poolVars
  BY <1>4 DEF poolVars
<1> QED BY <1>1, <1>2, <1>3, <1>4 DEF PoolNext

(* key_helper.c, generate_pre_keys: no generated key ever takes the place  *)
(* of the last-resort key, which is stored under PRE_KEY_MEDIUM_MAX_VALUE. *)
THEOREM LastResortSafe == PoolSpec => []LastResortKept
<1>1. PoolInit => PoolInv
  BY PreKeyAssumption DEF PoolInit, PoolInv, LastResortKept
<1>2. PoolInv /\ [PoolNext]_poolVars => PoolInv'
  BY PoolStep
<1>3. PoolInv => LastResortKept
  BY DEF PoolInv
<1> QED BY <1>1, <1>2, <1>3, PTL DEF PoolSpec

-----------------------------------------------------------------------------
(* A non-empty set of naturals has a least element: the induction of the   *)
(* library, stated for sets.                                               *)
LEMMA LeastExists ==
  ASSUME NEW S, S \subseteq Nat, S # {}
  PROVE  \E x \in S : \A y \in S : x <= y
<1>1. IsWellFoundedOn(OpToRel(<, Nat), Nat)
  BY NatLessThanWellFounded
<1>2. PICK x \in S : \A y \in S : ~(<<y, x>> \in OpToRel(<, Nat))
  BY <1>1, WFMin
<1>3. ASSUME NEW y \in S
      PROVE  x <= y
  <2>1. ~(y < x)
    BY <1>2 DEF OpToRel
  <2> QED BY <2>1
<1> QED BY <1>3

(* Max is what it says on a non-empty set of positions of a batch.         *)
LEMMA MaxPosition ==
  ASSUME NEW k \in Nat, NEW S, S \subseteq 0..(k - 1), S # {}
  PROVE  Max(S) \in S
<1> DEFINE T == {k - x : x \in S}
<1>1. T \subseteq Nat /\ T # {}
  OBVIOUS
<1>2. PICK t \in T : \A y \in T : t <= y
  BY <1>1, LeastExists
<1>3. PICK x \in S : t = k - x
  OBVIOUS
<1>4. ASSUME NEW y \in S
      PROVE  x >= y
  <2>1. t <= k - y
    BY <1>2
  <2>2. x \in 0..(k - 1) /\ y \in 0..(k - 1)
    OBVIOUS
  <2> QED BY <1>3, <2>1, <2>2
<1> QED BY <1>4 DEF Max

(* A stored key is the last one of the batch with its id, or was there     *)
(* before.                                                                 *)
LEMMA StoredShape ==
  ASSUME NEW k \in Nat \ {0}, NEW id \in 1..MediumMax
  PROVE  \/ Positions(id, k) = {} /\ Stored(k)[id] = store[id]
         \/ \E i \in 0..(k - 1) : PreKeyId(next, i) = id /\ Stored(k)[id] = serial + 1 + i
<1>1. CASE Positions(id, k) = {}
  BY <1>1 DEF Stored
<1>2. CASE Positions(id, k) # {}
  <2>1. Positions(id, k) \subseteq 0..(k - 1)
    BY DEF Positions
  <2>2. Max(Positions(id, k)) \in Positions(id, k)
    BY <1>2, <2>1, MaxPosition
  <2>3. Stored(k)[id] = serial + 1 + Max(Positions(id, k))
    BY <1>2 DEF Stored
  <2> QED BY <2>2, <2>3 DEF Positions
<1> QED BY <1>1, <1>2

(* What an offered key needs: keys are younger than the counter says, and  *)
(* a key that was handed out is older than the one now offered with its    *)
(* id.                                                                     *)
OfferInv ==
  /\ PoolInv
  /\ serial \in Nat \ {0}
  /\ \A i \in 1..MediumMax : store[i] \in 0..serial
  /\ \A o \in out : o = <<o[1], o[2]>> /\ o[2] \in 2..serial
  /\ \A o \in out : o[1] \in server => o[2] < store[o[1]]
  /\ OfferedIsStored

LEMMA OfferStep ==
  ASSUME OfferInv, [PoolNext]_poolVars
  PROVE  OfferInv'
<1> USE DEF OfferInv, OfferedIsStored
<1>0. PoolInv'
  BY PoolStep
<1>a. 1..(MediumMax - 1) \subseteq 1..MediumMax
  BY PreKeyAssumption
<1>1. ASSUME NEW n \in BatchSizes, NEW k \in 1..n, GeneratePreKeys(n, k)
      PROVE  OfferInv'
  <2>1. n \in Nat /\ k \in Nat \ {0} /\ serial' = serial + k /\ out' = out
    BY <1>1, PreKeyAssumption DEF GeneratePreKeys
  <2>2. store' = Stored(k)
    BY <1>1 DEF GeneratePreKeys
  <2>3. ASSUME NEW i \in 1..MediumMax
        PROVE  \/ Positions(i, k) = {} /\ store'[i] = store[i]
               \/ store'[i] \in (serial + 1)..(serial + k)
    <3>1. CASE Positions(i, k) = {} /\ Stored(k)[i] = store[i]
      BY <2>2, <3>1
    <3>2. CASE \E j \in 0..(k - 1) : PreKeyId(next, j) = i /\ Stored(k)[i] = serial + 1 + j
      BY <2>1, <2>2, <3>2
    <3> QED BY <2>1, <3>1, <3>2, StoredShape
  <2>4. \A i \in 1..MediumMax : store'[i] \in 0..serial'
    BY <2>1, <2>3
  <2>5. ASSUME NEW i \in server', i \notin server
        PROVE  store'[i] \in (serial + 1)..(serial + k)
    <3>1. PICK j \in 0..(k - 1) : i = PreKeyId(next, j)
      BY <1>1, <2>5 DEF GeneratePreKeys
    <3>2. j \in Positions(i, k)
      BY <3>1 DEF Positions
    <3>3. i \in 1..MediumMax
      BY <1>0, <1>a DEF PoolInv
    <3> QED BY <2>3, <3>2, <3>3
  <2>6. \A i \in server' : store'[i] > 1
    <3> SUFFICES ASSUME NEW i \in server' PROVE store'[i] > 1
      OBVIOUS
    <3>1. i \in 1..MediumMax
      BY <1>0, <1>a DEF PoolInv
    <3> QED BY <2>1, <2>3, <2>5, <3>1
  <2>7. \A o \in out' : o = <<o[1], o[2]>> /\ o[2] \in 2..serial'
    BY <2>1
  <2>8. ASSUME NEW o \in out', o[1] \in server'
        PROVE  o[2] < store'[o[1]]
    <3>1. o \in out /\ o[1] \in 1..MediumMax /\ o[2] \in 2..serial
      BY <1>a, <2>1 DEF PoolInv
    <3>2. CASE o[1] \in server
      <4>1. o[2] < store[o[1]] /\ store[o[1]] \in 0..serial
        BY <3>1, <3>2
      <4> QED BY <2>1, <2>3, <3>1, <4>1
    <3>3. CASE o[1] \notin server
      BY <2>1, <2>5, <2>8, <3>1, <3>3
    <3> QED BY <3>2, <3>3
  <2> QED BY <1>0, <2>1, <2>4, <2>6, <2>7, <2>8
<1>2. ASSUME NEW i \in server, HandOut(i)
      PROVE  OfferInv'
  <2>1. \A o \in out' : o \in out \/ o = <<i, store[i]>>
    BY <1>2 DEF HandOut
  <2>2. store[i] \in 2..serial
    BY <1>a, SMTT(30) DEF PoolInv
  <2>3. /\ server' = server \ {i}
        /\ store' = store
        /\ serial' = serial
    BY <1>2 DEF HandOut
  <2> QED BY <1>0, <2>1, <2>2, <2>3
<1>3. ASSUME NEW o \in out, BeginSession(o)
      PROVE  OfferInv'
  <2>1. o[1] \in 1..MediumMax
    BY <1>a DEF PoolInv
  <2>2. store = [i \in 1..MediumMax |-> store[i]]
    BY DEF PoolInv
  <2>3. /\ server' = server /\ serial' = serial /\ out' = out \ {o}
        /\ \A i \in 1..MediumMax :
             store'[i] = IF i = o[1] /\ store[i] = o[2] THEN 0 ELSE store[i]
    BY <1>3, <2>1, <2>2 DEF BeginSession
  <2>4. \A i \in server : store'[i] = store[i]
    <3> SUFFICES ASSUME NEW i \in server PROVE store'[i] = store[i]
      OBVIOUS
    <3>1. i \in 1..MediumMax
      BY <1>a DEF PoolInv
    <3>2. i = o[1] => store[i] # o[2]
      <4>1. i = o[1] => o[2] < store[i] /\ o[2] \in 2..serial /\ store[i] \in 0..serial
        BY <3>1
      <4> QED BY <4>1
    <3> QED BY <2>3, <3>1, <3>2
  <2> QED BY <1>0, <2>3, <2>4
<1>4. CASE UNCHANGED poolVars
  BY <1>0, <1>4 DEF poolVars
<1> QED BY <1>1, <1>2, <1>3, <1>4 DEF PoolNext

LEMMA OfferAtStart == PoolInit => OfferInv
<1> SUFFICES ASSUME PoolInit PROVE OfferInv
  OBVIOUS
<1>1. PoolInv
  BY PreKeyAssumption DEF PoolInit, PoolInv, LastResortKept
<1>2. \A i \in 1..MediumMax : store[i] \in 0..serial
  BY PreKeyAssumption DEF PoolInit
<1> QED BY <1>1, <1>2 DEF PoolInit, OfferInv, OfferedIsStored

(* session_builder.c and the application: a key the server still offers is *)
(* in the store; no session begun with an older key of the same id has     *)
(* removed it, whatever ids the batches reuse and wherever they stop.      *)
THEOREM OfferedAlwaysStored == PoolSpec => []OfferedIsStored
<1>1. PoolInit => OfferInv
  BY OfferAtStart
<1>2. OfferInv /\ [PoolNext]_poolVars => OfferInv'
  BY OfferStep
<1>3. OfferInv => OfferedIsStored
  BY DEF OfferInv
<1> QED BY <1>1, <1>2, <1>3, PTL DEF PoolSpec

-----------------------------------------------------------------------------
(* How many ids there are.                                                 *)
Period == MediumMax - 1

(* The batches that a caller can ask for without running start_index past  *)
(* the end of the machine word: from an id, not from 0, whose predecessor  *)
(* is the largest unsigned int, and fewer keys than the word has left.     *)
WithinWord == 0 \notin Starts /\ \A n \in BatchSizes : n + MediumMax <= Word

(* Key s was given the id c, when the first id of all was b + 1: the       *)
(* numbers from there on, round by round.  In a state, b is next - serial. *)
InTurn(b, c, s) == \E q \in Int : c = b - 1 + s + Period * q

LEMMA Multiple ==
  ASSUME NEW p \in Nat \ {0}, NEW d \in Int, p * d > 0
  PROVE  p * d >= p
OBVIOUS

LEMMA Quotient ==
  ASSUME NEW p \in Nat \ {0}, NEW a \in Nat
  PROVE  \E q \in Int : a % p = a - p * q
OBVIOUS

LEMMA NoWrap ==
  ASSUME NEW w \in Nat, NEW a \in 0..(w - 1)
  PROVE  (a + w) % w = a
OBVIOUS

(* Two keys with the same id are a whole round of ids apart.               *)
LEMMA RoundApart ==
  ASSUME NEW b \in Int, NEW c \in Int, NEW s \in Int, NEW t \in Int, s < t,
         InTurn(b, c, s), InTurn(b, c, t)
  PROVE  t - s >= Period
<1>1. Period \in Nat \ {0}
  BY PreKeyAssumption DEF Period
<1>2. PICK q \in Int : c = b - 1 + s + Period * q
  BY DEF InTurn
<1>3. PICK r \in Int : c = b - 1 + t + Period * r
  BY DEF InTurn
<1> HIDE DEF Period
<1>4. Period * q \in Int /\ Period * r \in Int
  BY <1>1
<1>5. t - s = Period * q - Period * r
  BY <1>2, <1>3, <1>4
<1>6. Period * q - Period * r = Period * (q - r)
  BY <1>1
<1>7. Period * (q - r) > 0 /\ q - r \in Int
  BY <1>5, <1>6
<1>8. Period * (q - r) >= Period
  BY <1>1, <1>7, Multiple
<1> QED BY <1>5, <1>6, <1>8

(* An id of a batch within the word: the start, plus the position, less    *)
(* whole rounds.                                                           *)
LEMMA PreKeyIdRounds ==
  ASSUME NEW start \in 1..MediumMax, NEW i \in Nat, i + MediumMax <= Word
  PROVE  \E q \in Int : PreKeyId(start, i) = start + i - Period * q
<1> DEFINE a == start - 1 + i
<1>1. a \in Nat /\ a \in 0..(Word - 1) /\ start + Word - 1 + i = a + Word /\ Word \in Nat
  BY PreKeyAssumption
<1>2. Period \in Nat \ {0}
  BY PreKeyAssumption DEF Period
<1>3. Index(start, i) = a
  <2> HIDE DEF a
  <2>1. (a + Word) % Word = a
    BY <1>1, NoWrap
  <2> QED BY <1>1, <2>1 DEF Index
<1>4. PICK q \in Int : a % Period = a - Period * q
  <2> HIDE DEF a, Period
  <2> QED BY <1>1, <1>2, Quotient
<1>5. PreKeyId(start, i) = (a % Period) + 1
  BY <1>3 DEF PreKeyId, Period
<1>6. Period * q \in Int
  BY <1>2
<1> DEFINE m == Period * q
<1>7. PreKeyId(start, i) = start + i - m
  <2>1. PreKeyId(start, i) = (a - m) + 1 /\ m \in Int
    BY <1>4, <1>5, <1>6
  <2> HIDE DEF m
  <2> QED BY <2>1, PreKeyAssumption
<1> QED BY <1>7

(* The strengthening: every key, in the store or handed out, was given its *)
(* id in turn.                                                             *)
RoundInv ==
  /\ OfferInv
  /\ next \in 1..MediumMax
  /\ \A i \in 1..(MediumMax - 1) : store[i] # 0 => InTurn(next - serial, i, store[i])
  /\ \A o \in out : InTurn(next - serial, o[1], o[2])
  /\ RarelyRepeated

(* A batch keeps the numbering of the keys there are, and its own keys     *)
(* continue it.                                                            *)
LEMMA NumberingKept ==
  ASSUME WithinWord, RoundInv,
         NEW n \in BatchSizes, NEW k \in 1..n, GeneratePreKeys(n, k)
  PROVE  /\ \A c, s \in Nat : InTurn(next - serial, c, s) => InTurn(next' - serial', c, s)
         /\ \A c, s \in Nat, i \in 0..(k - 1) :
              c = PreKeyId(next, i) /\ s = serial + 1 + i => InTurn(next' - serial', c, s)
<1>1. /\ n \in Nat /\ k \in Nat /\ k - 1 \in Nat
      /\ \A i \in 0..(k - 1) : i \in Nat /\ i + MediumMax <= Word
  BY PreKeyAssumption DEF WithinWord
<1>2. next \in 1..MediumMax /\ next \in Int /\ serial \in Int
  BY PreKeyAssumption DEF RoundInv, OfferInv
<1>3. /\ k - 1 \in 0..(k - 1)
      /\ k - 1 + MediumMax <= Word
  BY <1>1
<1>4. PICK q \in Int : PreKeyId(next, k - 1) = next + (k - 1) - Period * q
  BY <1>1, <1>2, <1>3, PreKeyIdRounds
<1>p. Period \in Int
  BY PreKeyAssumption DEF Period
<1> HIDE DEF Period
<1> DEFINE m == Period * q
<1>5. m \in Int
  BY <1>p
<1>6. next' - serial' = next - serial - m
  <2>1. next' = (next + (k - 1) - m) + 1 /\ serial' = serial + k
    BY <1>1, <1>4 DEF GeneratePreKeys
  <2> HIDE DEF m
  <2> QED BY <1>1, <1>2, <1>5, <2>1
<1>7. ASSUME NEW c \in Nat, NEW s \in Nat, InTurn(next - serial, c, s)
      PROVE  InTurn(next' - serial', c, s)
  <2>1. PICK r \in Int : c = (next - serial) - 1 + s + Period * r
    BY <1>7 DEF InTurn
  <2>2. Period * (q + r) = m + Period * r /\ Period * r \in Int
    BY <1>p
  <2>3. c = (next' - serial') - 1 + s + Period * (q + r)
    <3> HIDE DEF m
    <3> QED BY <1>2, <1>5, <1>6, <2>1, <2>2
  <2>4. q + r \in Int
    OBVIOUS
  <2> QED BY <2>3, <2>4 DEF InTurn
<1>8. ASSUME NEW c \in Nat, NEW s \in Nat, NEW i \in 0..(k - 1),
             c = PreKeyId(next, i), s = serial + 1 + i
      PROVE  InTurn(next' - serial', c, s)
  <2>1. PICK r \in Int : PreKeyId(next, i) = next + i - Period * r
    BY <1>1, <1>2, PreKeyIdRounds
  <2>2. Period * (q - r) = m - Period * r /\ Period * r \in Int
    BY <1>p
  <2>3. c = (next' - serial') - 1 + s + Period * (q - r)
    <3>1. c = next + i - Period * r
      BY <1>8, <2>1
    <3> HIDE DEF m
    <3> QED BY <1>1, <1>2, <1>5, <1>6, <1>8, <2>2, <3>1
  <2>4. q - r \in Int
    OBVIOUS
  <2> QED BY <2>3, <2>4 DEF InTurn
<1> QED BY <1>7, <1>8

LEMMA RoundStep ==
  ASSUME WithinWord, RoundInv, [PoolNext]_poolVars
  PROVE  RoundInv'
<1>0. OfferInv'
  BY OfferStep DEF RoundInv
<1>a. 1..(MediumMax - 1) \subseteq 1..MediumMax /\ 1..MediumMax \subseteq Nat
  BY PreKeyAssumption
<1>b. /\ \A o \in out : o[1] \in 1..(MediumMax - 1) /\ o[2] \in 2..serial
      /\ serial \in Nat \ {0} /\ next \in 1..MediumMax
      /\ \A i \in 1..MediumMax : store[i] \in 0..serial
  BY DEF RoundInv, OfferInv, PoolInv
<1>c. Period \in Nat /\ Period = MediumMax - 1
  BY PreKeyAssumption DEF Period
<1> DEFINE b == next - serial
           bb == next' - serial'
<1>d. /\ \A i \in 1..(MediumMax - 1) : store[i] # 0 => InTurn(b, i, store[i])
      /\ \A o \in out : InTurn(b, o[1], o[2])
      /\ \A o \in out : store[o[1]] # o[2] => serial - o[2] >= MediumMax - 1
  BY DEF RoundInv, RarelyRepeated
<1>e. SUFFICES /\ next' \in 1..MediumMax
               /\ \A i \in 1..(MediumMax - 1) : store'[i] # 0 => InTurn(bb, i, store'[i])
               /\ \A o \in out' : InTurn(bb, o[1], o[2])
               /\ \A o \in out' : store'[o[1]] # o[2] => serial' - o[2] >= MediumMax - 1
  BY <1>0 DEF RoundInv, RarelyRepeated
<1>1. ASSUME NEW n \in BatchSizes, NEW k \in 1..n, GeneratePreKeys(n, k)
      PROVE  /\ next' \in 1..MediumMax
             /\ \A i \in 1..(MediumMax - 1) : store'[i] # 0 => InTurn(bb, i, store'[i])
             /\ \A o \in out' : InTurn(bb, o[1], o[2])
             /\ \A o \in out' : store'[o[1]] # o[2] => serial' - o[2] >= MediumMax - 1
  <2>1. /\ n \in Nat /\ k \in Nat \ {0} /\ k - 1 \in Nat
        /\ serial' = serial + k /\ out' = out /\ store' = Stored(k)
    BY <1>1, PreKeyAssumption DEF GeneratePreKeys
  <2>2. next' \in 1..MediumMax
    <3>1. PreKeyId(next, k - 1) \in 1..(MediumMax - 1)
      BY <1>a, <1>b, <2>1, PreKeyIdInRange
    <3>2. next' = PreKeyId(next, k - 1) + 1
      BY <1>1 DEF GeneratePreKeys
    <3> QED BY <3>1, <3>2, PreKeyAssumption
  <2>3. /\ \A c, s \in Nat : InTurn(b, c, s) => InTurn(bb, c, s)
        /\ \A c, s \in Nat, i \in 0..(k - 1) :
             c = PreKeyId(next, i) /\ s = serial + 1 + i => InTurn(bb, c, s)
    BY <1>1, NumberingKept
  <2> HIDE DEF b, bb
  <2>4. ASSUME NEW c \in 1..(MediumMax - 1)
        PROVE  \/ store'[c] = store[c]
               \/ store'[c] \in (serial + 1)..(serial + k) /\ InTurn(bb, c, store'[c])
    <3>1. c \in 1..MediumMax /\ c \in Nat
      BY <1>a
    <3>2. CASE Positions(c, k) = {} /\ Stored(k)[c] = store[c]
      BY <2>1, <3>2
    <3>3. CASE \E i \in 0..(k - 1) : PreKeyId(next, i) = c /\ Stored(k)[c] = serial + 1 + i
      <4>1. PICK i \in 0..(k - 1) : PreKeyId(next, i) = c /\ Stored(k)[c] = serial + 1 + i
        BY <3>3
      <4>2. /\ store'[c] = serial + 1 + i /\ store'[c] \in Nat
            /\ store'[c] \in (serial + 1)..(serial + k)
        BY <1>b, <2>1, <4>1
      <4> QED BY <2>3, <3>1, <4>1, <4>2
    <3> QED BY <2>1, <3>1, <3>2, <3>3, StoredShape
  <2>5. ASSUME NEW c \in 1..(MediumMax - 1), store'[c] # 0
        PROVE  InTurn(bb, c, store'[c])
    <3>1. CASE store'[c] = store[c]
      <4>1. InTurn(b, c, store[c]) /\ store[c] \in Nat /\ c \in Nat
        BY <1>a, <1>b, <1>d, <2>5, <3>1
      <4> QED BY <2>3, <3>1, <4>1
    <3> QED BY <2>4, <3>1
  <2>6. ASSUME NEW o \in out'
        PROVE  /\ o \in out /\ o[1] \in 1..(MediumMax - 1) /\ o[1] \in Nat
               /\ o[2] \in 2..serial /\ InTurn(bb, o[1], o[2])
    <3>1. o \in out /\ o[1] \in 1..(MediumMax - 1) /\ o[1] \in Nat /\ o[2] \in 2..serial /\ o[2] \in Nat
      BY <1>a, <1>b, <2>1
    <3>2. InTurn(b, o[1], o[2])
      BY <1>d, <3>1
    <3> QED BY <2>3, <3>1, <3>2
  <2>7. ASSUME NEW o \in out', store'[o[1]] # o[2]
        PROVE  serial' - o[2] >= MediumMax - 1
    <3> DEFINE c == o[1]
               s == o[2]
               t == store'[c]
    <3>1. o \in out /\ c \in 1..(MediumMax - 1) /\ c \in Nat /\ s \in 2..serial /\ InTurn(bb, c, s)
      BY <2>6
    <3>2. CASE t = store[c]
      <4>1. serial - s >= MediumMax - 1
        BY <1>d, <2>7, <3>1, <3>2
      <4> QED BY <1>b, <2>1, <3>1, <4>1, PreKeyAssumption
    <3>3. CASE t \in (serial + 1)..(serial + k) /\ InTurn(bb, c, t)
      <4>1. c \in Int /\ s \in Int /\ t \in Int /\ s < t
        BY <1>b, <2>1, <3>1, <3>3
      <4>2. bb \in Int
        BY <1>b, <2>1, <2>2, PreKeyAssumption DEF bb
      <4>3. InTurn(bb, c, s) /\ InTurn(bb, c, t)
        BY <3>1, <3>3
      <4> HIDE DEF c, s, t
      <4>4. t - s >= Period
        BY <4>1, <4>2, <4>3, RoundApart
      <4>5. serial' - s >= MediumMax - 1
        BY <1>b, <1>c, <2>1, <3>1, <3>3, <4>1, <4>4
      <4> QED BY <4>5 DEF s
    <3> QED BY <2>4, <3>1, <3>2, <3>3
  <2> QED BY <2>2, <2>5, <2>6, <2>7
<1>2. ASSUME NEW i \in server, HandOut(i)
      PROVE  /\ next' = next /\ serial' = serial /\ store' = store
             /\ \A o \in out' : InTurn(b, o[1], o[2])
             /\ \A o \in out' : store[o[1]] # o[2] => serial - o[2] >= MediumMax - 1
  <2>1. /\ next' = next /\ serial' = serial /\ store' = store
        /\ \A o \in out' : o \in out \/ o = <<i, store[i]>>
    BY <1>2 DEF HandOut
  <2>2. i \in 1..(MediumMax - 1) /\ store[i] > 1 /\ store[i] \in 0..serial
    BY <1>a, <1>b DEF RoundInv, OfferInv, PoolInv, OfferedIsStored
  <2>3. store[i] # 0
    BY <1>b, <2>2
  <2>4. InTurn(b, i, store[i])
    BY <1>d, <2>2, <2>3
  <2> HIDE DEF b
  <2> QED BY <1>d, <2>1, <2>4
<1>3. ASSUME NEW o \in out, BeginSession(o)
      PROVE  /\ next' = next /\ serial' = serial /\ out' \subseteq out
             /\ \A i \in 1..(MediumMax - 1) : store'[i] # 0 => store'[i] = store[i]
             /\ \A p \in out' : store'[p[1]] # p[2] => serial - p[2] >= MediumMax - 1
  <2>1. o[1] \in 1..MediumMax
    BY <1>a, <1>b
  <2>2. store = [i \in 1..MediumMax |-> store[i]]
    BY DEF RoundInv, OfferInv, PoolInv
  <2>3. /\ next' = next /\ serial' = serial /\ out' = out \ {o}
        /\ \A i \in 1..MediumMax :
             store'[i] = IF i = o[1] /\ store[i] = o[2] THEN 0 ELSE store[i]
    BY <1>3, <2>1, <2>2 DEF BeginSession
  <2>4. ASSUME NEW p \in out', store'[p[1]] # p[2]
        PROVE  serial - p[2] >= MediumMax - 1
    <3>1. p \in out /\ p # o /\ p[1] \in 1..MediumMax
      BY <1>a, <1>b, <2>3
    <3>2. p = <<p[1], p[2]>> /\ o = <<o[1], o[2]>>
      BY <3>1 DEF RoundInv, OfferInv
    <3>3. store[p[1]] # p[2]
      BY <2>3, <2>4, <3>1, <3>2
    <3> QED BY <1>d, <3>1, <3>3
  <2> QED BY <1>a, <2>3, <2>4
<1>4. CASE UNCHANGED poolVars
  BY <1>b, <1>d, <1>4 DEF poolVars
<1>5. ASSUME NEW i \in server, HandOut(i)
      PROVE  /\ next' \in 1..MediumMax
             /\ \A c \in 1..(MediumMax - 1) : store'[c] # 0 => InTurn(bb, c, store'[c])
             /\ \A o \in out' : InTurn(bb, o[1], o[2])
             /\ \A o \in out' : store'[o[1]] # o[2] => serial' - o[2] >= MediumMax - 1
  BY <1>b, <1>d, <1>2, <1>5
<1>6. ASSUME NEW o \in out, BeginSession(o)
      PROVE  /\ next' \in 1..MediumMax
             /\ \A c \in 1..(MediumMax - 1) : store'[c] # 0 => InTurn(bb, c, store'[c])
             /\ \A p \in out' : InTurn(bb, p[1], p[2])
             /\ \A p \in out' : store'[p[1]] # p[2] => serial' - p[2] >= MediumMax - 1
  BY <1>b, <1>d, <1>3, <1>6
<1> HIDE DEF bb
<1> QED BY <1>1, <1>4, <1>5, <1>6 DEF PoolNext

(* key_helper.h: ids are repeated as infrequently as possible.  Whatever   *)
(* the sizes of the id space and of the batches, as long as these begin at *)
(* 1 or later and stay within the machine word, a key that was handed out  *)
(* is replaced or removed only after every other id was given to a later   *)
(* key.                                                                    *)
THEOREM IdsRarelyRepeated == WithinWord => (PoolSpec => []RarelyRepeated)
<1>1. WithinWord /\ PoolInit => RoundInv
  <2> SUFFICES ASSUME WithinWord, PoolInit PROVE RoundInv
    OBVIOUS
  <2>1. OfferInv
    BY OfferAtStart
  <2>2. next \in 1..MediumMax
    BY PreKeyAssumption DEF WithinWord, PoolInit
  <2>3. \A i \in 1..(MediumMax - 1) : store[i] = 0
    BY PreKeyAssumption DEF PoolInit
  <2> QED BY <2>1, <2>2, <2>3 DEF PoolInit, RoundInv, RarelyRepeated
<1>2. WithinWord /\ RoundInv /\ [PoolNext]_poolVars => RoundInv'
  BY RoundStep
<1>3. RoundInv => RarelyRepeated
  BY DEF RoundInv
<1>4. WithinWord /\ PoolSpec => []RarelyRepeated
  <2> SUFFICES ASSUME WithinWord PROVE PoolSpec => []RarelyRepeated
    OBVIOUS
  <2>1. PoolInit => RoundInv
    BY <1>1
  <2>2. RoundInv /\ [PoolNext]_poolVars => RoundInv'
    BY <1>2
  <2> QED BY <2>1, <2>2, <1>3, PTL DEF PoolSpec
<1> QED BY <1>4

=============================================================================
