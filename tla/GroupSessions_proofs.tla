----------------------- MODULE GroupSessions_proofs -----------------------
(***************************************************************************)
(* The safety of group messaging, for every number of members, sender      *)
(* keys, messages and faults, every MAX_STATES and every window: one       *)
(* inductive invariant, GroupInv, of which the properties of GroupSessions *)
(* are parts or consequences.                                              *)
(***************************************************************************)
EXTENDS GroupSessions, MessageKeys_proofs, FiniteSetTheorems

SenderState == [id : Nat, iter : Nat, mks : Seq(Nat)]
Distribution == [id : Nat, iter : Nat, at : Nat]

(* The sender's chain and what was sent from it.  Over the life of one     *)
(* sender key the iteration and the number of encrypted messages advance   *)
(* together, so that n - iter is the same for all its messages and at -    *)
(* iter for all its announcements.                                         *)
SenderInv ==
  /\ made \in 0..MaxSenderKeys /\ count \in 0..MaxGroupMsgs
  /\ own \in [id : 0..made, iter : 0..count]
  /\ own.id \in {0, made}
  /\ dists \subseteq [id : 1..made, iter : 0..count, at : 0..count]
  /\ group \subseteq [id : 1..made, iter : 0..count, n : 1..count]
  /\ \A m, n \in group : m.n = n.n => m = n
  /\ \A m, n \in group : m.id = n.id => m.n - m.iter = n.n - n.iter
  /\ \A m \in group, d \in dists : m.id = d.id => m.n - m.iter = d.at - d.iter + 1
  /\ own.id # 0 =>
       /\ \A m \in group : m.id = own.id =>
            m.iter < own.iter /\ m.n - m.iter = count - own.iter + 1
       /\ \A d \in dists : d.id = own.id =>
            d.iter <= own.iter /\ d.at - d.iter = count - own.iter

(* The announcements of a sender key in a member's past.                   *)
AnnouncedIn(past, id) == {k \in 1..Len(past) : past[k].id = id}

(* A record holds one state for each of the newest MAX_STATES              *)
(* announcements, each a well-kept chain that began where it was announced.*)
Aligned(record, past) ==
  /\ record \in Seq(SenderState)
  /\ past \in Seq(Distribution)
  /\ Len(record) = IF Len(past) > MaxStates THEN MaxStates ELSE Len(past)
  /\ \A k \in 1..Len(record) :
       /\ record[k].id = past[k].id
       /\ WellKept(record[k].iter, record[k].mks, past[k].iter)

(* No state is ahead of the sender's own.                                  *)
Behind(o, record) ==
  o.id # 0 => \A k \in 1..Len(record) : record[k].id = o.id => record[k].iter <= o.iter

(* A message of a sender key announced once, at k: its key is gone from    *)
(* the state if it was committed, and still there if it was passed over    *)
(* and is in the window.                                                   *)
KeyRight(s, low, m, done) ==
  IF done
  THEN m.iter < s.iter /\ m.iter \notin Keys(s.mks)
  ELSE low <= m.iter /\ m.iter < s.iter /\ s.iter - m.iter <= MaxMessageKeys + 1
         => m.iter \in Keys(s.mks)

(* What was committed of message m, given a record and its past.           *)
MessageRight(m, record, past, g) ==
  /\ g[m.n] > 0 => \E k \in AnnouncedIn(past, m.id) : past[k].at < m.n
  /\ \A k \in 1..Len(past) : AnnouncedIn(past, m.id) = {k} =>
       /\ g[m.n] <= 1
       /\ k <= Len(record) => KeyRight(record[k], past[k].iter, m, g[m.n] > 0)

(* A record, its past, and the counts g of what was committed with it, in  *)
(* a state where D, G, o and c are dists, group, own and count.            *)
RecordRight(D, G, o, c, record, past, g) ==
  /\ Aligned(record, past)
  /\ \A k \in 1..Len(past) : past[k] \in D
  /\ Behind(o, record)
  /\ g \in [1..MaxGroupMsgs -> 0..2]
  /\ \A n \in 1..MaxGroupMsgs : g[n] > 0 => n <= c
  /\ \A m \in G : MessageRight(m, record, past, g)

Committed(g, n) == [g EXCEPT ![n] = IF @ = 0 THEN 1 ELSE 2]

MemberOp == [busy : BOOLEAN, record : Seq(SenderState), past : Seq(Distribution), n : 0..MaxGroupMsgs]

(* The record that is stored is right, and so is the one that would be     *)
(* stored if the call under way succeeded.                                 *)
MemberInv(r) ==
  /\ RecordRight(dists, group, own, count, grec[r], heard[r], got[r])
  /\ gop[r].busy =>
       /\ gop[r].n \in 1..count
       /\ RecordRight(dists, group, own, count, gop[r].record, gop[r].past,
                      Committed(got[r], gop[r].n))

GroupInv ==
  /\ SenderInv
  /\ grec \in [Member -> Seq(SenderState)]
  /\ heard \in [Member -> Seq(Distribution)]
  /\ got \in [Member -> [1..MaxGroupMsgs -> 0..2]]
  /\ gop \in [Member -> MemberOp]
  /\ \A r \in Member : MemberInv(r)

-----------------------------------------------------------------------------
(* Helpers                                                                 *)

(* A non-empty set of naturals has a least element.                        *)
LEMMA LeastExists ==
  ASSUME NEW S, S \subseteq Nat, S # {}
  PROVE  \E x \in S : \A y \in S : x <= y
<1>1. IsWellFoundedOn(OpToRel(<, Nat), Nat)
  BY NatLessThanWellFounded
<1>2. PICK x \in S : \A y \in S : ~(<<y, x>> \in OpToRel(<, Nat))
  BY <1>1, WFMin
<1>3. ASSUME NEW y \in S
      PROVE  x <= y
  <2>1. ~(y < x)
    BY <1>2 DEF OpToRel
  <2> QED BY <2>1
<1> QED BY <1>3

(* sender_key_record_get_sender_key_state_by_id finds a state with the id  *)
(* when there is one.                                                      *)
LEMMA StateByIdShape ==
  ASSUME NEW record, Len(record) \in Nat, NEW id
  PROVE  \/ /\ StateById(record, id) = 0
            /\ \A k \in 1..Len(record) : record[k].id # id
         \/ /\ StateById(record, id) \in 1..Len(record)
            /\ record[StateById(record, id)].id = id
<1> DEFINE S == {i \in 1..Len(record) : record[i].id = id}
<1>1. StateById(record, id) = IF S # {} THEN Min(S) ELSE 0
  BY DEF StateById, SelectInSeq
<1>2. CASE S = {}
  BY <1>1, <1>2
<1>3. CASE S # {}
  <2>1. S \subseteq Nat
    OBVIOUS
  <2>2. Min(S) \in S
    BY <1>3, <2>1, LeastExists DEF Min
  <2> QED BY <1>1, <1>3, <2>2
<1> QED BY <1>2, <1>3

(* Announced once means announced at one position.                         *)
LEMMA AnnouncedOnce ==
  ASSUME NEW past, Len(past) \in Nat, NEW id, Cardinality(AnnouncedIn(past, id)) = 1
  PROVE  \E k \in 1..Len(past) : AnnouncedIn(past, id) = {k}
<1>1. IsFiniteSet(1..Len(past))
  BY FS_Interval
<1>2. AnnouncedIn(past, id) \in SUBSET (1..Len(past))
  BY DEF AnnouncedIn
<1>3. IsFiniteSet(AnnouncedIn(past, id))
  BY <1>1, <1>2, FS_Subset
<1>4. PICK k : AnnouncedIn(past, id) = {k}
  BY <1>3, FS_Singleton
<1> QED BY <1>2, <1>4

-----------------------------------------------------------------------------
(* The sender                                                              *)

SenderVars == <<own, made, dists, group, count>>

LEMMA CreateSender ==
  ASSUME SenderInv, CreateSession
  PROVE  SenderInv'
<1> USE DEF SenderInv
<1>0. MaxSenderKeys \in Nat /\ MaxGroupMsgs \in Nat
  BY GroupBounds
<1>1. group' = group /\ count' = count
  BY DEF CreateSession
<1>2. dists' = dists \union {[id |-> own'.id, iter |-> own'.iter, at |-> count]}
  BY DEF CreateSession
<1>3. CASE own.id # 0
  <2>1. own' = own /\ made' = made
    BY <1>3 DEF CreateSession
  <2>2. own.id \in 1..made /\ own.iter \in 0..count /\ count \in 0..count
    BY <1>0, <1>3
  <2> QED BY <1>0, <1>1, <1>2, <1>3, <2>1, <2>2
<1>4. CASE own.id = 0
  <2>1. made < MaxSenderKeys /\ made' = made + 1 /\ own' = [id |-> made + 1, iter |-> 0]
    BY <1>4 DEF CreateSession
  <2>2. dists' = dists \union {[id |-> made + 1, iter |-> 0, at |-> count]}
    BY <1>2, <2>1
  <2>3. /\ \A m \in group : m.id \in 1..made /\ m.id # made + 1
        /\ \A d \in dists : d.id \in 1..made /\ d.id # made + 1
    BY <1>0
  <2>4. /\ made' \in 0..MaxSenderKeys
        /\ own' \in [id : 0..made', iter : 0..count]
        /\ own'.id = made'
        /\ dists' \subseteq [id : 1..made', iter : 0..count, at : 0..count]
        /\ group \subseteq [id : 1..made', iter : 0..count, n : 1..count]
    BY <1>0, <2>1, <2>2
  <2>5. \A m \in group, d \in dists' : m.id = d.id => m.n - m.iter = d.at - d.iter + 1
    BY <2>2, <2>3
  <2>6. \A d \in dists' : d.id = own'.id => d.iter <= own'.iter /\ d.at - d.iter = count - own'.iter
    BY <1>0, <2>1, <2>2, <2>3
  <2> QED BY <1>1, <2>1, <2>3, <2>4, <2>5, <2>6
<1> QED BY <1>3, <1>4

LEMMA EncryptSender ==
  ASSUME SenderInv, GroupEncrypt
  PROVE  SenderInv'
<1> USE DEF SenderInv
<1> DEFINE x == [id |-> own.id, iter |-> own.iter, n |-> count + 1]
<1>0. MaxSenderKeys \in Nat /\ MaxGroupMsgs \in Nat
  BY GroupBounds
<1>1. /\ own.id # 0 /\ count < MaxGroupMsgs /\ count' = count + 1
      /\ own' = [own EXCEPT !.iter = @ + 1]
      /\ made' = made /\ dists' = dists
      /\ group' \subseteq group \union {x}
  BY DEF GroupEncrypt
<1>2. own.id \in 1..made /\ own.iter \in 0..count /\ own.id = made
  BY <1>0, <1>1
<1>3. own'.id = own.id /\ own'.iter = own.iter + 1 /\ own' \in [id : 0..made, iter : 0..count']
  BY <1>0, <1>1, <1>2
<1>4. /\ x \in [id : 1..made, iter : 0..count', n : 1..count']
      /\ x.id = own.id /\ x.iter = own.iter /\ x.n = count + 1
  BY <1>0, <1>1, <1>2
<1> HIDE DEF x
<1>5. /\ group' \subseteq [id : 1..made, iter : 0..count', n : 1..count']
      /\ dists \subseteq [id : 1..made, iter : 0..count', at : 0..count']
      /\ count' \in 0..MaxGroupMsgs
  BY <1>0, <1>1, <1>4
<1>6. \A m \in group : /\ m.n \in 1..count /\ m.iter \in 0..count /\ m.n # x.n
                       /\ m.id = own.id => m.iter < own.iter /\ m.n - m.iter = count - own.iter + 1
  BY <1>0, <1>1, <1>4
<1>7. \A m \in group' : m \in group \/ m = x
  BY <1>1
<1>8. \A m, n \in group' : m.n = n.n => m = n
  BY <1>6, <1>7
<1>9. \A m \in group' : m.id = own.id => m.iter < own'.iter /\ m.n - m.iter = count' - own'.iter + 1
  BY <1>0, <1>1, <1>2, <1>3, <1>4, <1>6, <1>7
<1>10. \A m, n \in group' : m.id = n.id => m.n - m.iter = n.n - n.iter
  <2> SUFFICES ASSUME NEW m \in group', NEW n \in group', m.id = n.id
               PROVE  m.n - m.iter = n.n - n.iter
    OBVIOUS
  <2>1. CASE m \in group /\ n \in group
    BY <2>1
  <2>2. CASE m = x \/ n = x
    BY <1>4, <1>9, <2>2
  <2> QED BY <1>7, <2>1, <2>2
<1>11. \A d \in dists : d.id = own.id => /\ d.iter \in 0..count /\ d.at \in 0..count
                                        /\ d.iter <= own.iter /\ d.at - d.iter = count - own.iter
  BY <1>1
<1>12. \A d \in dists : d.id = own'.id => d.iter <= own'.iter /\ d.at - d.iter = count' - own'.iter
  BY <1>0, <1>1, <1>2, <1>3, <1>11
<1>13. \A m \in group', d \in dists : m.id = d.id => m.n - m.iter = d.at - d.iter + 1
  <2> SUFFICES ASSUME NEW m \in group', NEW d \in dists, m.id = d.id
               PROVE  m.n - m.iter = d.at - d.iter + 1
    OBVIOUS
  <2>1. CASE m \in group
    BY <2>1
  <2>2. CASE m = x
    BY <1>0, <1>2, <1>4, <1>11, <2>2
  <2> QED BY <1>7, <2>1, <2>2
<1> QED BY <1>1, <1>2, <1>3, <1>5, <1>8, <1>9, <1>10, <1>12, <1>13

LEMMA DropSender ==
  ASSUME SenderInv, DropSenderKey
  PROVE  SenderInv'
<1> USE DEF SenderInv
<1>1. UNCHANGED <<made, dists, group, count>> /\ own' = [id |-> 0, iter |-> 0]
  BY DEF DropSenderKey, NoOwn
<1>2. own' \in [id : 0..made, iter : 0..count] /\ own'.id = 0
  BY <1>1
<1> QED BY <1>1, <1>2

LEMMA SenderSame ==
  ASSUME SenderInv, UNCHANGED SenderVars
  PROVE  SenderInv'
BY DEF SenderInv, SenderVars

-----------------------------------------------------------------------------
(* A member's record, as the three kinds of steps change what it is judged *)
(* by.                                                                     *)

(* More was announced or encrypted, or the sender's key was dropped.       *)
LEMMA RecordOnSend ==
  ASSUME NEW D, NEW D2, D \subseteq D2, NEW G, NEW G2, NEW o, NEW o2,
         NEW c \in Nat, NEW c2 \in Nat, c <= c2, NEW record, NEW past, NEW g,
         RecordRight(D, G, o, c, record, past, g),
         Behind(o2, record),
         o.iter \in Nat,
         \A m \in G2 : \/ m \in G
                       \/ /\ m.n \in 1..MaxGroupMsgs /\ m.n > c
                          /\ o.id # 0 /\ m.id = o.id /\ m.iter = o.iter
  PROVE  RecordRight(D2, G2, o2, c2, record, past, g)
<1> USE DEF RecordRight
<1>1. \A k \in 1..Len(past) : past[k] \in D2
  OBVIOUS
<1>0. MaxGroupMsgs \in Nat
  BY GroupBounds
<1>2. \A n \in 1..MaxGroupMsgs : g[n] > 0 => n <= c2
  BY <1>0
<1>3. ASSUME NEW m \in G2, m \notin G
      PROVE  MessageRight(m, record, past, g)
  <2>1. m.n \in 1..MaxGroupMsgs /\ m.n > c /\ o.id # 0 /\ m.id = o.id /\ m.iter = o.iter
    BY <1>3
  <2>2. g[m.n] = 0
    BY <1>0, <2>1
  <2>3. ASSUME NEW k \in 1..Len(past), AnnouncedIn(past, m.id) = {k}, k <= Len(record)
        PROVE  KeyRight(record[k], past[k].iter, m, g[m.n] > 0)
    <3>1. past \in Seq(Distribution) /\ record \in Seq(SenderState)
      BY DEF Aligned
    <3>2. k \in 1..Len(record)
      BY <2>3, <3>1
    <3>3. record[k].id = o.id
      BY <2>1, <2>3, <3>2 DEF Aligned, AnnouncedIn
    <3>4. record[k].iter \in Nat /\ record[k].iter <= o.iter
      BY <2>1, <3>2, <3>3 DEF Behind, Aligned, WellKept
    <3> QED BY <2>1, <2>2, <3>4 DEF KeyRight
  <2> QED BY <2>2, <2>3 DEF MessageRight
<1> QED BY <1>1, <1>2, <1>3

(* The shape of a sequence with an element in front, and of a prefix.      *)
LEMMA FrontShape ==
  ASSUME NEW S, NEW x \in S, NEW s \in Seq(S)
  PROVE  /\ <<x>> \o s \in Seq(S)
         /\ Len(<<x>> \o s) = Len(s) + 1
         /\ (<<x>> \o s)[1] = x
         /\ \A k \in 2..(Len(s) + 1) : (<<x>> \o s)[k] = s[k - 1]
OBVIOUS

LEMMA PrefixShape ==
  ASSUME NEW S, NEW s \in Seq(S), NEW n \in 0..Len(s)
  PROVE  /\ SubSeq(s, 1, n) \in Seq(S)
         /\ Len(SubSeq(s, 1, n)) = n
         /\ \A k \in 1..n : SubSeq(s, 1, n)[k] = s[k]
OBVIOUS

(* sender_key_record_add_sender_key_state.                                 *)
LEMMA AddShape ==
  ASSUME NEW record \in Seq(SenderState), NEW d \in Distribution
  PROVE  LET new == AddSenderKeyState(record, d)
             n == Len(record) + 1
         IN  /\ new \in Seq(SenderState)
             /\ Len(new) = IF n > MaxStates THEN MaxStates ELSE n
             /\ Len(new) >= 1
             /\ new[1] = [id |-> d.id, iter |-> d.iter, mks |-> <<>>]
             /\ \A k \in 2..Len(new) : new[k] = record[k - 1]
<1> DEFINE x == [id |-> d.id, iter |-> d.iter, mks |-> <<>>]
           all == <<x>> \o record
           n == Len(record) + 1
           cut == IF Len(all) > MaxStates THEN MaxStates ELSE Len(all)
<1>1. x \in SenderState
  BY DEF SenderState, Distribution
<1>2. AddSenderKeyState(record, d) = SubSeq(all, 1, cut)
  BY DEF AddSenderKeyState
<1> HIDE DEF x
<1>3. /\ all \in Seq(SenderState) /\ Len(all) = n /\ all[1] = x
      /\ \A k \in 2..n : all[k] = record[k - 1]
  BY <1>1, FrontShape
<1>4. n \in Nat /\ n >= 1
  OBVIOUS
<1> HIDE DEF all, n
<1>5. cut \in 0..Len(all) /\ cut >= 1 /\ cut = IF n > MaxStates THEN MaxStates ELSE n
  BY <1>3, <1>4, GroupBounds
<1> HIDE DEF cut
<1>6. /\ SubSeq(all, 1, cut) \in Seq(SenderState)
      /\ Len(SubSeq(all, 1, cut)) = cut
      /\ \A k \in 1..cut : SubSeq(all, 1, cut)[k] = all[k]
  BY <1>3, <1>5, PrefixShape
<1>7. cut \in Nat /\ cut <= n
  BY <1>3, <1>4, <1>5
<1>8. \A k \in 2..cut : SubSeq(all, 1, cut)[k] = record[k - 1]
  BY <1>3, <1>4, <1>6, <1>7
<1>9. SubSeq(all, 1, cut)[1] = x
  BY <1>3, <1>5, <1>6, <1>7
<1> QED BY <1>2, <1>5, <1>6, <1>8, <1>9 DEF x, n

(* A chain that starts is well kept.                                       *)
LEMMA FreshKept ==
  ASSUME NEW i \in Nat
  PROVE  WellKept(i, <<>>, i) /\ Keys(<<>>) = {}
<1>1. Len(<<>>) = 0 /\ <<>> \in Seq(Nat) /\ 1..0 = {}
  OBVIOUS
<1> QED BY <1>1, KeyBounds DEF WellKept, Below, Spread, Values, Keys

(* One more announcement was processed.                                    *)
LEMMA RecordOnProcess ==
  ASSUME NEW D, NEW G, NEW o, NEW c \in Nat, NEW record, NEW past, NEW g,
         RecordRight(D, G, o, c, record, past, g),
         NEW d \in D, d \in Distribution, o.id # 0 /\ d.id = o.id => d.iter <= o.iter,
         \A m \in G : m.n \in 1..MaxGroupMsgs /\ m.iter \in Nat
  PROVE  RecordRight(D, G, o, c, AddSenderKeyState(record, d), <<d>> \o past, g)
<1> DEFINE nr == AddSenderKeyState(record, d)
           np == <<d>> \o past
<1>1. /\ record \in Seq(SenderState) /\ past \in Seq(Distribution)
      /\ Len(record) = IF Len(past) > MaxStates THEN MaxStates ELSE Len(past)
      /\ Len(record) \in Nat /\ Len(past) \in Nat
  BY DEF RecordRight, Aligned
<1>2. /\ np \in Seq(Distribution) /\ Len(np) = Len(past) + 1 /\ np[1] = d
      /\ \A k \in 2..(Len(past) + 1) : np[k] = past[k - 1]
  BY <1>1, FrontShape
<1>3. /\ nr \in Seq(SenderState)
      /\ Len(nr) = IF Len(record) + 1 > MaxStates THEN MaxStates ELSE Len(record) + 1
      /\ Len(nr) >= 1
      /\ nr[1] = [id |-> d.id, iter |-> d.iter, mks |-> <<>>]
      /\ \A k \in 2..Len(nr) : nr[k] = record[k - 1]
  BY <1>1, AddShape
<1> HIDE DEF nr, np
<1>4. /\ MaxStates \in Nat /\ MaxStates >= 1
      /\ Len(nr) = IF Len(np) > MaxStates THEN MaxStates ELSE Len(np)
      /\ Len(nr) \in Nat /\ Len(nr) <= Len(np) /\ Len(nr) <= Len(record) + 1
  BY <1>1, <1>2, <1>3, GroupBounds
<1>5. \A k \in 2..Len(nr) : /\ k - 1 \in 1..Len(record) /\ k - 1 \in 1..Len(past)
                            /\ nr[k] = record[k - 1] /\ np[k] = past[k - 1]
  BY <1>1, <1>2, <1>3, <1>4
<1>a. Len(np) = Len(past) + 1 /\ Len(past) \in Nat
  BY <1>1, <1>2
<1>6. \A k \in 1..Len(record) : /\ record[k].id = past[k].id
                                /\ WellKept(record[k].iter, record[k].mks, past[k].iter)
  BY DEF RecordRight, Aligned
<1>7. d.id \in Nat /\ d.iter \in Nat
  BY DEF Distribution
<1>8. nr[1].id = d.id /\ nr[1].iter = d.iter /\ nr[1].mks = <<>>
  BY <1>3
<1>9. Aligned(nr, np)
  <2> SUFFICES ASSUME NEW k \in 1..Len(nr)
               PROVE  nr[k].id = np[k].id /\ WellKept(nr[k].iter, nr[k].mks, np[k].iter)
    BY <1>2, <1>3, <1>4 DEF Aligned
  <2>1. CASE k = 1
    BY <1>2, <1>7, <1>8, <2>1, FreshKept
  <2>2. CASE k \in 2..Len(nr)
    BY <1>5, <1>6, <2>2
  <2> QED BY <1>4, <2>1, <2>2
<1>10. \A k \in 1..Len(np) : np[k] \in D
  <2> SUFFICES ASSUME NEW k \in 1..Len(np) PROVE np[k] \in D
    OBVIOUS
  <2>1. k = 1 \/ (k \in 2..(Len(past) + 1) /\ k - 1 \in 1..Len(past))
    BY <1>a
  <2> QED BY <1>2, <2>1 DEF RecordRight
<1>11. Behind(o, nr)
  <2> SUFFICES ASSUME o.id # 0, NEW k \in 1..Len(nr), nr[k].id = o.id
               PROVE  nr[k].iter <= o.iter
    BY DEF Behind
  <2>1. CASE k = 1
    BY <1>8, <2>1
  <2>2. CASE k \in 2..Len(nr)
    BY <1>5, <2>2 DEF RecordRight, Behind
  <2> QED BY <1>4, <2>1, <2>2
<1>12. ASSUME NEW m \in G
       PROVE  MessageRight(m, nr, np, g)
  <2>1. MessageRight(m, record, past, g) /\ g \in [1..MaxGroupMsgs -> 0..2]
    BY DEF RecordRight
  <2>2. g[m.n] \in 0..2
    BY <2>1
  <2>3. ASSUME NEW k \in AnnouncedIn(past, m.id)
        PROVE  k + 1 \in AnnouncedIn(np, m.id) /\ np[k + 1] = past[k]
    <3>1. k \in 1..Len(past) /\ past[k].id = m.id
      BY DEF AnnouncedIn
    <3>2. k + 1 \in 2..(Len(past) + 1) /\ (k + 1) - 1 = k /\ k + 1 \in 1..Len(np)
      BY <1>1, <1>2, <3>1
    <3> QED BY <1>2, <3>1, <3>2 DEF AnnouncedIn
  <2>4. g[m.n] > 0 => \E k \in AnnouncedIn(np, m.id) : np[k].at < m.n
    BY <2>1, <2>3 DEF MessageRight
  <2>5. ASSUME NEW k \in 1..Len(np), AnnouncedIn(np, m.id) = {k}
        PROVE  /\ g[m.n] <= 1
               /\ k <= Len(nr) => KeyRight(nr[k], np[k].iter, m, g[m.n] > 0)
    <3>1. np[k].id = m.id
      BY <2>5 DEF AnnouncedIn
    <3>2. CASE k = 1
      <4>1. AnnouncedIn(past, m.id) = {}
        <5>1. \A j \in AnnouncedIn(past, m.id) : j \in 1..Len(past)
          BY DEF AnnouncedIn
        <5>2. \A j \in AnnouncedIn(past, m.id) : j + 1 = 1
          BY <2>3, <2>5, <3>2
        <5> QED BY <1>a, <5>1, <5>2
      <4>2. g[m.n] = 0
        BY <2>1, <2>2, <4>1 DEF MessageRight
      <4> QED BY <1>2, <1>7, <1>8, <3>2, <4>2 DEF KeyRight
    <3>3. CASE k \in 2..(Len(past) + 1)
      <4> DEFINE j == k - 1
      <4>1. j \in 1..Len(past) /\ np[k] = past[j] /\ j + 1 = k
        BY <1>1, <1>2, <3>3
      <4>2. AnnouncedIn(past, m.id) = {j}
        <5>1. j \in AnnouncedIn(past, m.id)
          BY <3>1, <4>1 DEF AnnouncedIn
        <5>2. \A i \in AnnouncedIn(past, m.id) : i \in Nat /\ i + 1 = k
          BY <1>1, <2>3, <2>5 DEF AnnouncedIn
        <5> HIDE DEF j
        <5>3. \A i \in AnnouncedIn(past, m.id) : i = j
          BY <4>1, <5>2
        <5> QED BY <5>1, <5>3
      <4> HIDE DEF j
      <4>3. g[m.n] <= 1
        BY <2>1, <4>1, <4>2 DEF MessageRight
      <4>4. ASSUME k <= Len(nr)
            PROVE  KeyRight(nr[k], np[k].iter, m, g[m.n] > 0)
        <5>1. k \in 2..Len(nr) /\ k - 1 = j /\ j <= Len(record)
          BY <1>1, <1>4, <3>3, <4>1, <4>4
        <5>2. nr[k] = record[j]
          BY <1>5, <5>1
        <5>3. KeyRight(record[j], past[j].iter, m, g[m.n] > 0)
          BY <2>1, <4>1, <4>2, <5>1 DEF MessageRight
        <5> QED BY <4>1, <5>2, <5>3
      <4> QED BY <4>3, <4>4
    <3> QED BY <1>1, <1>2, <3>2, <3>3
  <2> QED BY <2>4, <2>5 DEF MessageRight
<1>13. RecordRight(D, G, o, c, nr, np, g)
  BY <1>9, <1>10, <1>11, <1>12 DEF RecordRight
<1> QED BY <1>13 DEF nr, np

(* One element of a sequence replaced.                                     *)
LEMMA ReplaceShape ==
  ASSUME NEW S, NEW s \in Seq(S), NEW k \in 1..Len(s), NEW x \in S,
         NEW t, t = [s EXCEPT ![k] = x]
  PROVE  /\ t \in Seq(S) /\ Len(t) = Len(s) /\ t[k] = x
         /\ \A j \in 1..Len(s) : j # k => t[j] = s[j]
OBVIOUS

(* A message was decrypted: one state of the record gave up one key.       *)
LEMMA RecordOnDecrypt ==
  ASSUME NEW D, NEW G, NEW o, NEW c \in Nat, NEW record, NEW past, NEW g,
         RecordRight(D, G, o, c, record, past, g),
         \A x \in G : x.n \in 1..MaxGroupMsgs /\ x.n <= c /\ x.iter \in Nat,
         \A x, y \in G : x.n = y.n => x = y,
         \A x, y \in G : x.id = y.id => x.n - x.iter = y.n - y.iter,
         \A x \in G, d \in D : x.id = d.id => x.n - x.iter = d.at - d.iter + 1,
         o.id # 0 => o.iter \in Nat /\ \A x \in G : x.id = o.id => x.iter < o.iter,
         NEW m \in G, NEW k \in 1..Len(record), record[k].id = m.id,
         Answer(record[k].iter, record[k].mks, m.iter) = Success,
         NEW after, after = [record[k] EXCEPT !.iter = IndexAfter(record[k].iter, m.iter),
                                              !.mks = KeysAfter(record[k].iter, record[k].mks, m.iter)]
  PROVE  RecordRight(D, G, o, c, [record EXCEPT ![k] = after], past, Committed(g, m.n))
<1> DEFINE s == record[k]
           low == past[k].iter
           nr == [record EXCEPT ![k] = after]
           g2 == Committed(g, m.n)
<1>1. /\ record \in Seq(SenderState) /\ past \in Seq(Distribution)
      /\ Len(record) = IF Len(past) > MaxStates THEN MaxStates ELSE Len(past)
      /\ Len(record) \in Nat /\ Len(past) \in Nat
      /\ g \in [1..MaxGroupMsgs -> 0..2]
  BY DEF RecordRight, Aligned
<1>2. MaxStates \in Nat /\ MaxGroupMsgs \in Nat /\ Len(record) <= Len(past)
  BY <1>1, GroupBounds
<1>3. k \in 1..Len(past) /\ past[k].id = m.id /\ past[k] \in D /\ WellKept(s.iter, s.mks, low)
  BY <1>1, <1>2 DEF RecordRight, Aligned
<1>4. s \in SenderState /\ m.iter \in Nat /\ past[k] \in Distribution
  BY <1>1, <1>3
<1>5. after.id = s.id /\ after.iter = IndexAfter(s.iter, m.iter) /\ after.mks = KeysAfter(s.iter, s.mks, m.iter)
  BY <1>4 DEF SenderState
<1>6. TakenFrom(s.iter, s.mks, low, m.iter, after.iter, after.mks)
  <2>1. TakenFrom(s.iter, s.mks, low, m.iter, IndexAfter(s.iter, m.iter), KeysAfter(s.iter, s.mks, m.iter))
    BY <1>3, <1>4, TakeKey
  <2> QED BY <1>5, <2>1
<1>7. WellKept(after.iter, after.mks, low)
  BY <1>6 DEF TakenFrom
<1>8. after \in SenderState
  <2>1. after.iter \in Nat /\ after.mks \in Seq(Nat)
    BY <1>7 DEF WellKept
  <2>2. after = [id |-> after.id, iter |-> after.iter, mks |-> after.mks]
    BY <1>4 DEF SenderState
  <2>3. after.id \in Nat
    BY <1>4, <1>5 DEF SenderState
  <2> QED BY <2>1, <2>2, <2>3 DEF SenderState
<1> HIDE DEF s, low
<1>9. /\ nr \in Seq(SenderState) /\ Len(nr) = Len(record) /\ nr[k] = after
      /\ \A j \in 1..Len(record) : j # k => nr[j] = record[j]
  <2>1. nr = [record EXCEPT ![k] = after]
    OBVIOUS
  <2> HIDE DEF nr
  <2>2. record \in Seq(SenderState)
    BY <1>1
  <2>3. nr \in Seq(SenderState)
    BY <1>8, <2>1, <2>2, ReplaceShape
  <2>4. Len(nr) = Len(record)
    BY <1>8, <2>1, <2>2, ReplaceShape
  <2>5. nr[k] = after
    <3>1. k \in DOMAIN record
      BY <2>2
    <3> QED BY <2>1, <3>1, Zenon
  <2>6. \A j \in 1..Len(record) : j # k => nr[j] = record[j]
    BY <1>8, <2>1, <2>2, ReplaceShape
  <2> QED BY <2>3, <2>4, <2>5, <2>6
<1> HIDE DEF nr
<1>10. Aligned(nr, past)
  <2> SUFFICES ASSUME NEW j \in 1..Len(record)
               PROVE  nr[j].id = past[j].id /\ WellKept(nr[j].iter, nr[j].mks, past[j].iter)
    BY <1>1, <1>9 DEF Aligned
  <2>1. CASE j = k
    BY <1>3, <1>5, <1>7, <1>9, <2>1 DEF low, s
  <2>2. CASE j # k
    BY <1>9, <2>2 DEF RecordRight, Aligned
  <2> QED BY <2>1, <2>2
<1>11. Behind(o, nr)
  <2> SUFFICES ASSUME o.id # 0, NEW j \in 1..Len(record), nr[j].id = o.id
               PROVE  nr[j].iter <= o.iter
    BY <1>9 DEF Behind
  <2>1. CASE j = k
    <3>1. m.id = o.id /\ m.iter < o.iter /\ s.iter <= o.iter /\ o.iter \in Nat
      BY <1>5, <1>9, <2>1 DEF RecordRight, Behind, s
    <3>2. after.iter = s.iter \/ after.iter = m.iter + 1
      BY <1>5 DEF IndexAfter
    <3>3. m.iter \in Nat /\ m.iter < o.iter /\ o.iter \in Nat /\ s.iter <= o.iter
      BY <1>4, <3>1
    <3>4. after.iter <= o.iter
      BY <3>2, <3>3
    <3> QED BY <1>9, <2>1, <3>4
  <2>2. CASE j # k
    BY <1>9, <2>2 DEF RecordRight, Behind
  <2> QED BY <2>1, <2>2
<1>12. m.n \in 1..MaxGroupMsgs /\ m.n <= c
  OBVIOUS
<1>13. /\ g2 \in [1..MaxGroupMsgs -> 0..2]
       /\ g2[m.n] = IF g[m.n] = 0 THEN 1 ELSE 2
       /\ \A n \in 1..MaxGroupMsgs : n # m.n => g2[n] = g[n]
  BY <1>1, <1>12 DEF Committed
<1> HIDE DEF g2
<1>14. \A n \in 1..MaxGroupMsgs : g2[n] > 0 => n <= c
  BY <1>12, <1>13 DEF RecordRight
<1>15. s.iter \in Nat /\ low \in Nat /\ after.iter \in Nat
  BY <1>3, <1>7 DEF WellKept
<1>16. /\ low <= m.iter /\ m.iter < after.iter /\ s.iter <= after.iter
       /\ m.iter \notin Keys(after.mks)
       /\ \A d \in Nat : d < s.iter /\ d \notin Keys(s.mks) => d \notin Keys(after.mks)
       /\ \A d \in low..(after.iter - 1) :
            d # m.iter /\ after.iter - d <= MaxMessageKeys + 1 /\ (d < s.iter => d \in Keys(s.mks))
              => d \in Keys(after.mks)
  BY <1>6 DEF TakenFrom
<1>17. k \in AnnouncedIn(past, m.id)
  BY <1>3 DEF AnnouncedIn
<1>18. MessageRight(m, nr, past, g2)
  <2>1. past[k].at < m.n
    <3>1. m.n - m.iter = past[k].at - past[k].iter + 1
      BY <1>3
    <3>2. past[k].at \in Nat /\ past[k].iter \in Nat /\ m.n \in Nat
      BY <1>2, <1>4, <1>12 DEF Distribution
    <3> QED BY <1>4, <1>16, <3>1, <3>2, SMTT(30) DEF low
  <2>2. ASSUME NEW j \in 1..Len(past), AnnouncedIn(past, m.id) = {j}
        PROVE  /\ g2[m.n] <= 1
               /\ j <= Len(nr) => KeyRight(nr[j], past[j].iter, m, g2[m.n] > 0)
    <3>1. j = k
      BY <1>17, <2>2
    <3>2. MessageRight(m, record, past, g)
      BY DEF RecordRight
    <3>3. KeyRight(s, low, m, g[m.n] > 0) /\ g[m.n] <= 1 /\ g[m.n] \in 0..2
      BY <1>1, <1>12, <2>2, <3>1, <3>2, SMTT(30) DEF MessageRight, s, low
    <3>4. g[m.n] = 0
      <4> SUFFICES ASSUME g[m.n] # 0 PROVE FALSE
        OBVIOUS
      <4>1. g[m.n] > 0
        BY <3>3
      <4>2. m.iter < s.iter /\ m.iter \notin Keys(s.mks)
        BY <3>3, <4>1 DEF KeyRight
      <4>3. ~HasMessageKeys(s.mks, m.iter)
        BY <1>3, <4>2, HasIsValue DEF WellKept
      <4>4. Answer(s.iter, s.mks, m.iter) = Duplicate
        BY <1>4, <1>15, <4>2, <4>3 DEF Answer
      <4> QED BY <4>4 DEF s, Success, Duplicate
    <3>5. g2[m.n] = 1
      BY <1>13, <3>4
    <3>6. KeyRight(after, past[j].iter, m, g2[m.n] > 0)
      BY <1>16, <3>5 DEF KeyRight
    <3> QED BY <1>9, <3>1, <3>5, <3>6
  <2> QED BY <1>17, <2>1, <2>2 DEF MessageRight
<1>19. ASSUME NEW x \in G, x # m
       PROVE  MessageRight(x, nr, past, g2)
  <2>1. x.n # m.n /\ x.n \in 1..MaxGroupMsgs /\ x.iter \in Nat
    BY <1>19
  <2>2. g2[x.n] = g[x.n] /\ MessageRight(x, record, past, g)
    BY <1>13, <2>1 DEF RecordRight
  <2>3. ASSUME NEW j \in 1..Len(past), AnnouncedIn(past, x.id) = {j}, j <= Len(nr)
        PROVE  KeyRight(nr[j], past[j].iter, x, g2[x.n] > 0)
    <3>1. j \in 1..Len(record)
      BY <1>1, <1>9, <2>3
    <3>2. KeyRight(record[j], past[j].iter, x, g[x.n] > 0)
      BY <1>9, <2>2, <2>3 DEF MessageRight
    <3>3. CASE j # k
      BY <1>9, <2>2, <3>1, <3>2, <3>3
    <3>4. CASE j = k
      <4>1. x.id = m.id
        BY <1>3, <2>3, <3>4 DEF AnnouncedIn
      <4>2. x.iter # m.iter
        <5>1. x.n - x.iter = m.n - m.iter
          BY <4>1
        <5> QED BY <1>2, <1>4, <1>12, <2>1, <5>1
      <4>3. KeyRight(s, low, x, g[x.n] > 0)
        BY <3>2, <3>4 DEF s, low
      <4>4. CASE g[x.n] > 0
        <5>1. x.iter < s.iter /\ x.iter \notin Keys(s.mks)
          BY <4>3, <4>4 DEF KeyRight
        <5>2. x.iter < after.iter /\ x.iter \notin Keys(after.mks)
          BY <1>15, <1>16, <2>1, <5>1
        <5> QED BY <1>9, <2>2, <3>4, <4>4, <5>2 DEF KeyRight
      <4>5. CASE ~(g[x.n] > 0)
        <5>1. ASSUME low <= x.iter, x.iter < after.iter, after.iter - x.iter <= MaxMessageKeys + 1
              PROVE  x.iter \in Keys(after.mks)
          <6>1. x.iter \in low..(after.iter - 1)
            BY <1>15, <2>1, <5>1
          <6>2. x.iter < s.iter => x.iter \in Keys(s.mks)
            <7>1. x.iter < s.iter => s.iter - x.iter <= MaxMessageKeys + 1
              BY <1>15, <1>16, <2>1, <5>1, KeyBounds, SMTT(30)
            <7> QED BY <4>3, <4>5, <5>1, <7>1 DEF KeyRight
          <6> QED BY <1>16, <4>2, <5>1, <6>1, <6>2
        <5> QED BY <1>9, <2>2, <3>4, <4>5, <5>1 DEF KeyRight, low
      <4> QED BY <4>4, <4>5
    <3> QED BY <3>3, <3>4
  <2> QED BY <2>2, <2>3 DEF MessageRight
<1>20. RecordRight(D, G, o, c, nr, past, g2)
  BY <1>10, <1>11, <1>13, <1>14, <1>18, <1>19 DEF RecordRight
<1> QED BY <1>20 DEF nr, g2

-----------------------------------------------------------------------------
(* The steps                                                               *)

LEMMA GroupInitInv == GroupInit => GroupInv
<1> SUFFICES ASSUME GroupInit PROVE GroupInv
  OBVIOUS
<1> USE DEF GroupInit
<1>0. MaxGroupMsgs \in Nat /\ MaxSenderKeys \in Nat /\ MaxStates \in Nat
  BY GroupBounds
<1>1. SenderInv
  BY <1>0 DEF SenderInv, NoOwn
<1>2. /\ grec \in [Member -> Seq(SenderState)]
      /\ heard \in [Member -> Seq(Distribution)]
      /\ got \in [Member -> [1..MaxGroupMsgs -> 0..2]]
  OBVIOUS
<1>3. gop \in [Member -> MemberOp]
  <2>1. NoGroupOp \in MemberOp
    BY <1>0 DEF NoGroupOp, MemberOp
  <2> QED BY <2>1
<1>4. ASSUME NEW r \in Member
      PROVE  MemberInv(r)
  <2>1. grec[r] = <<>> /\ heard[r] = <<>> /\ ~gop[r].busy /\ group = {}
    BY DEF NoGroupOp
  <2>2. got[r] = [n \in 1..MaxGroupMsgs |-> 0]
    OBVIOUS
  <2>3. Len(<<>>) = 0 /\ 1..0 = {} /\ <<>> \in Seq(SenderState) /\ <<>> \in Seq(Distribution)
    OBVIOUS
  <2>4. Aligned(<<>>, <<>>) /\ Behind(own, <<>>)
    BY <1>0, <2>3 DEF Aligned, Behind
  <2>5. RecordRight(dists, group, own, count, <<>>, <<>>, got[r])
    BY <2>1, <2>2, <2>3, <2>4 DEF RecordRight
  <2> QED BY <2>1, <2>5 DEF MemberInv
<1> QED BY <1>1, <1>2, <1>3, <1>4 DEF GroupInv

(* What the sender may do to what the members know.                        *)
LEMMA SenderGrows ==
  ASSUME SenderInv, CreateSession \/ GroupEncrypt \/ DropSenderKey
  PROVE  /\ dists \subseteq dists'
         /\ count \in Nat /\ count' \in Nat /\ count <= count'
         /\ own.iter \in Nat
         /\ \A m \in group' : \/ m \in group
                               \/ /\ m.n \in 1..MaxGroupMsgs /\ m.n > count
                                  /\ own.id # 0 /\ m.id = own.id /\ m.iter = own.iter
         /\ \/ own'.id = 0
            \/ own'.id = own.id /\ own.iter <= own'.iter /\ own'.iter \in Nat
            \/ own'.id = made + 1
         /\ UNCHANGED <<grec, gop, heard, got>>
<1> USE DEF SenderInv
<1>0. MaxGroupMsgs \in Nat
  BY GroupBounds
<1>1. CASE CreateSession
  BY <1>0, <1>1 DEF CreateSession
<1>2. CASE GroupEncrypt
  <2> DEFINE x == [id |-> own.id, iter |-> own.iter, n |-> count + 1]
  <2>1. /\ own.id # 0 /\ count < MaxGroupMsgs /\ count' = count + 1
        /\ own' = [own EXCEPT !.iter = @ + 1]
        /\ dists' = dists /\ group' \subseteq group \union {x}
        /\ UNCHANGED <<grec, gop, heard, got>>
    BY <1>2 DEF GroupEncrypt
  <2>2. own'.id = own.id /\ own'.iter = own.iter + 1 /\ own.iter \in Nat
    BY <2>1
  <2>3. /\ x.n \in 1..MaxGroupMsgs /\ x.n > count
        /\ own.id # 0 /\ x.id = own.id /\ x.iter = own.iter
    BY <1>0, <2>1
  <2> HIDE DEF x
  <2> QED BY <2>1, <2>2, <2>3
<1>3. CASE DropSenderKey
  BY <1>3 DEF DropSenderKey, NoOwn
<1> QED BY <1>1, <1>2, <1>3

(* No state of a record is ahead of the sender, after its step too: a new  *)
(* key has an id that was not announced before.                            *)
LEMMA BehindKept ==
  ASSUME NEW D, NEW G, NEW o, NEW c, NEW record, NEW past, NEW g,
         RecordRight(D, G, o, c, record, past, g), NEW k \in Nat,
         \A d \in D : d.id \in 1..k,
         o.iter \in Nat,
         NEW o2, \/ o2.id = 0
                 \/ o2.id = o.id /\ o.iter <= o2.iter /\ o2.iter \in Nat
                 \/ o2.id = k + 1
  PROVE  Behind(o2, record)
<1> SUFFICES ASSUME o2.id # 0, NEW j \in 1..Len(record), record[j].id = o2.id
             PROVE  record[j].iter <= o2.iter
  BY DEF Behind
<1>1. /\ Len(record) = IF Len(past) > MaxStates THEN MaxStates ELSE Len(past)
      /\ record \in Seq(SenderState) /\ past \in Seq(Distribution) /\ MaxStates \in Nat
  BY GroupBounds DEF RecordRight, Aligned
<1>2. j \in 1..Len(past) /\ past[j] \in D /\ record[j].id = past[j].id
  BY <1>1 DEF RecordRight, Aligned
<1>3. record[j].id \in 1..k
  BY <1>2
<1>4. o2.id = o.id /\ o.iter <= o2.iter /\ o2.iter \in Nat
  BY <1>3
<1>5. record[j].iter \in Nat
  BY DEF RecordRight, Aligned, WellKept
<1>6. record[j].iter <= o.iter
  BY <1>4 DEF RecordRight, Behind
<1> QED BY <1>4, <1>5, <1>6

LEMMA SendStep ==
  ASSUME GroupInv, CreateSession \/ GroupEncrypt \/ DropSenderKey
  PROVE  GroupInv'
<1>1. SenderInv' /\ SenderInv
  BY CreateSender, EncryptSender, DropSender DEF GroupInv
<1>2. /\ dists \subseteq dists'
      /\ count \in Nat /\ count' \in Nat /\ count <= count'
      /\ own.iter \in Nat
      /\ \A m \in group' : \/ m \in group
                            \/ /\ m.n \in 1..MaxGroupMsgs /\ m.n > count
                               /\ own.id # 0 /\ m.id = own.id /\ m.iter = own.iter
      /\ \/ own'.id = 0
         \/ own'.id = own.id /\ own.iter <= own'.iter /\ own'.iter \in Nat
         \/ own'.id = made + 1
      /\ UNCHANGED <<grec, gop, heard, got>>
  BY <1>1, SenderGrows
<1>3. made \in Nat /\ \A d \in dists : d.id \in 1..made
  BY <1>1, GroupBounds DEF SenderInv
<1>4. ASSUME NEW record, NEW past, NEW g,
             RecordRight(dists, group, own, count, record, past, g)
      PROVE  RecordRight(dists', group', own', count', record, past, g)
  <2>1. Behind(own', record)
    BY <1>2, <1>3, <1>4, BehindKept
  <2> QED BY <1>2, <1>4, <2>1, RecordOnSend
<1>5. ASSUME NEW r \in Member
      PROVE  MemberInv(r)'
  <2>1. MemberInv(r)
    BY DEF GroupInv
  <2>2. RecordRight(dists', group', own', count', grec[r], heard[r], got[r])
    BY <1>4, <2>1 DEF MemberInv
  <2>3. ASSUME gop[r].busy
        PROVE  /\ gop[r].n \in 1..count'
               /\ RecordRight(dists', group', own', count', gop[r].record, gop[r].past,
                              Committed(got[r], gop[r].n))
    <3>1. /\ gop[r].n \in 1..count
          /\ RecordRight(dists, group, own, count, gop[r].record, gop[r].past,
                         Committed(got[r], gop[r].n))
      BY <2>1, <2>3 DEF MemberInv
    <3>2. gop[r].n \in 1..count'
      BY <1>2, <3>1
    <3> QED BY <1>4, <3>1, <3>2
  <2> QED BY <1>2, <2>2, <2>3 DEF MemberInv
<1> QED BY <1>1, <1>2, <1>5 DEF GroupInv

(* A step of one member leaves the others alone.                           *)
LEMMA OtherMembers ==
  ASSUME GroupInv, UNCHANGED SenderVars, NEW q \in Member,
         grec'[q] = grec[q], heard'[q] = heard[q], got'[q] = got[q], gop'[q] = gop[q]
  PROVE  MemberInv(q)'
<1>1. MemberInv(q)
  BY DEF GroupInv
<1> QED BY <1>1 DEF MemberInv, SenderVars

LEMMA ProcessStep ==
  ASSUME GroupInv, NEW r \in Member, NEW d \in dists, ProcessSession(r, d)
  PROVE  GroupInv'
<1>1. /\ UNCHANGED SenderVars /\ gop' = gop /\ got' = got
      /\ grec' = [grec EXCEPT ![r] = AddSenderKeyState(grec[r], d)]
      /\ heard' = [heard EXCEPT ![r] = <<d>> \o heard[r]]
  BY DEF ProcessSession, SenderVars
<1>2. /\ grec \in [Member -> Seq(SenderState)] /\ heard \in [Member -> Seq(Distribution)]
      /\ SenderInv /\ MemberInv(r)
  BY DEF GroupInv
<1>3. SenderInv'
  BY <1>1, <1>2, SenderSame
<1>4. /\ d \in Distribution /\ count \in Nat
      /\ own.id # 0 /\ d.id = own.id => d.iter <= own.iter
      /\ \A m \in group : m.n \in 1..MaxGroupMsgs /\ m.iter \in Nat
  <2>0. made \in Nat /\ count \in 0..MaxGroupMsgs /\ MaxGroupMsgs \in Nat
    BY <1>2, GroupBounds DEF SenderInv
  <2>1. d \in [id : 1..made, iter : 0..count, at : 0..count]
    BY <1>2 DEF SenderInv
  <2>2. d \in Distribution
    BY <2>0, <2>1 DEF Distribution
  <2>3. own.id # 0 /\ d.id = own.id => d.iter <= own.iter
    BY <1>2 DEF SenderInv
  <2>4. \A m \in group : m.n \in 1..MaxGroupMsgs /\ m.iter \in Nat
    BY <1>2, <2>0 DEF SenderInv
  <2> QED BY <2>0, <2>2, <2>3, <2>4
<1>5. RecordRight(dists, group, own, count, grec[r], heard[r], got[r])
  BY <1>2 DEF MemberInv
<1>6. RecordRight(dists, group, own, count, AddSenderKeyState(grec[r], d), <<d>> \o heard[r], got[r])
  BY <1>4, <1>5, RecordOnProcess
<1>7. grec'[r] = AddSenderKeyState(grec[r], d) /\ heard'[r] = <<d>> \o heard[r]
  BY <1>1, <1>2
<1>8. MemberInv(r)'
  BY <1>1, <1>2, <1>6, <1>7 DEF MemberInv, SenderVars
<1>9. ASSUME NEW q \in Member, q # r
      PROVE  MemberInv(q)'
  <2>1. grec'[q] = grec[q] /\ heard'[q] = heard[q]
    BY <1>1, <1>2, <1>9
  <2> QED BY <1>1, <2>1, OtherMembers
<1>10. AddSenderKeyState(grec[r], d) \in Seq(SenderState) /\ <<d>> \o heard[r] \in Seq(Distribution)
  BY <1>6 DEF RecordRight, Aligned
<1>11. grec' \in [Member -> Seq(SenderState)] /\ heard' \in [Member -> Seq(Distribution)]
  BY <1>1, <1>2, <1>10
<1> QED BY <1>1, <1>3, <1>8, <1>9, <1>11 DEF GroupInv

(* The messages in the form that RecordOnDecrypt takes them.               *)
LEMMA GroupFacts ==
  ASSUME SenderInv
  PROVE  /\ count \in Nat
         /\ \A x \in group : /\ x.n \in 1..MaxGroupMsgs /\ x.n <= count /\ x.n \in 1..count
                             /\ x.iter \in Nat
         /\ \A x, y \in group : x.n = y.n => x = y
         /\ \A x, y \in group : x.id = y.id => x.n - x.iter = y.n - y.iter
         /\ \A x \in group, d \in dists : x.id = d.id => x.n - x.iter = d.at - d.iter + 1
         /\ own.id # 0 => own.iter \in Nat /\ \A x \in group : x.id = own.id => x.iter < own.iter
<1>0. MaxGroupMsgs \in Nat
  BY GroupBounds
<1>1. count \in 0..MaxGroupMsgs /\ group \subseteq [id : 1..made, iter : 0..count, n : 1..count]
  BY DEF SenderInv
<1>2. own.iter \in Nat
  BY <1>0, <1>1 DEF SenderInv
<1>3. \A x \in group : x.n \in 1..MaxGroupMsgs /\ x.n <= count /\ x.n \in 1..count /\ x.iter \in Nat
  BY <1>0, <1>1
<1> QED BY <1>0, <1>1, <1>2, <1>3 DEF SenderInv

LEMMA DecryptStep ==
  ASSUME GroupInv, NEW r \in Member, NEW m \in group, GroupDecrypt(r, m)
  PROVE  GroupInv'
<1> DEFINE k == StateById(grec[r], m.id)
           s == grec[r][k]
           after == [s EXCEPT !.iter = IndexAfter(s.iter, m.iter),
                              !.mks = KeysAfter(s.iter, s.mks, m.iter)]
           record == [grec[r] EXCEPT ![k] = after]
           op == [busy |-> TRUE, record |-> record, past |-> heard[r], n |-> m.n]
<1>1. /\ UNCHANGED SenderVars /\ grec' = grec /\ heard' = heard /\ got' = got
      /\ GroupAnswer(r, m) = Success
      /\ gop' = [gop EXCEPT ![r] = op]
  BY DEF GroupDecrypt, SenderVars
<1>2. /\ grec \in [Member -> Seq(SenderState)] /\ heard \in [Member -> Seq(Distribution)]
      /\ gop \in [Member -> MemberOp]
      /\ SenderInv /\ MemberInv(r)
  BY DEF GroupInv
<1>3. SenderInv'
  BY <1>1, <1>2, SenderSame
<1>4. k # 0 /\ Answer(s.iter, s.mks, m.iter) = Success
  BY <1>1 DEF GroupAnswer, Success, Invalid
<1>5. k \in 1..Len(grec[r]) /\ s.id = m.id
  <2>1. Len(grec[r]) \in Nat
    BY <1>2
  <2> QED BY <1>4, <2>1, StateByIdShape
<1>6. RecordRight(dists, group, own, count, grec[r], heard[r], got[r])
  BY <1>2 DEF MemberInv
<1> HIDE DEF k
<1>7. RecordRight(dists, group, own, count, record, heard[r], Committed(got[r], m.n))
  <2>1. after = [s EXCEPT !.iter = IndexAfter(s.iter, m.iter),
                          !.mks = KeysAfter(s.iter, s.mks, m.iter)]
    OBVIOUS
  <2> HIDE DEF after
  <2>2. /\ count \in Nat
        /\ \A x \in group : x.n \in 1..MaxGroupMsgs /\ x.n <= count /\ x.iter \in Nat
        /\ \A x, y \in group : x.n = y.n => x = y
        /\ \A x, y \in group : x.id = y.id => x.n - x.iter = y.n - y.iter
        /\ \A x \in group, d \in dists : x.id = d.id => x.n - x.iter = d.at - d.iter + 1
        /\ own.id # 0 => own.iter \in Nat /\ \A x \in group : x.id = own.id => x.iter < own.iter
    BY <1>2, GroupFacts
  <2> QED BY <1>4, <1>5, <1>6, <2>1, <2>2, RecordOnDecrypt
<1>8. m.n \in 1..count /\ m.n \in 0..MaxGroupMsgs
  BY <1>2, GroupBounds, GroupFacts
<1> HIDE DEF record
<1>9. op \in MemberOp /\ op.busy /\ op.record = record /\ op.past = heard[r] /\ op.n = m.n
  <2>1. record \in Seq(SenderState) /\ heard[r] \in Seq(Distribution)
    BY <1>7 DEF RecordRight, Aligned
  <2> QED BY <1>8, <2>1 DEF MemberOp
<1> HIDE DEF op
<1>10. gop'[r] = op /\ gop' \in [Member -> MemberOp]
  BY <1>1, <1>2, <1>9
<1>11. MemberInv(r)'
  BY <1>1, <1>6, <1>7, <1>8, <1>9, <1>10 DEF MemberInv, SenderVars
<1>12. ASSUME NEW q \in Member, q # r
       PROVE  MemberInv(q)'
  <2>1. gop'[q] = gop[q]
    BY <1>1, <1>2, <1>12
  <2> QED BY <1>1, <2>1, OtherMembers
<1> QED BY <1>1, <1>2, <1>3, <1>10, <1>11, <1>12 DEF GroupInv

(* No call under way.                                                      *)
LEMMA NoGroupOpIsOp == NoGroupOp \in MemberOp /\ ~NoGroupOp.busy
BY GroupBounds DEF NoGroupOp, MemberOp

LEMMA StoreStep ==
  ASSUME GroupInv, NEW r \in Member, GroupStore(r)
  PROVE  GroupInv'
<1> DEFINE n == gop[r].n
<1>1. /\ UNCHANGED SenderVars /\ gop[r].busy
      /\ grec' = [grec EXCEPT ![r] = gop[r].record]
      /\ heard' = [heard EXCEPT ![r] = gop[r].past]
      /\ got' = [got EXCEPT ![r] = Committed(got[r], n)]
      /\ gop' = [gop EXCEPT ![r] = NoGroupOp]
  BY DEF GroupStore, SenderVars, Committed
<1>2. /\ grec \in [Member -> Seq(SenderState)] /\ heard \in [Member -> Seq(Distribution)]
      /\ got \in [Member -> [1..MaxGroupMsgs -> 0..2]]
      /\ gop \in [Member -> MemberOp]
      /\ SenderInv /\ MemberInv(r)
  BY DEF GroupInv
<1>3. SenderInv'
  BY <1>1, <1>2, SenderSame
<1>4. RecordRight(dists, group, own, count, gop[r].record, gop[r].past, Committed(got[r], n))
  BY <1>1, <1>2 DEF MemberInv
<1>5. /\ gop[r].record \in Seq(SenderState) /\ gop[r].past \in Seq(Distribution)
      /\ Committed(got[r], n) \in [1..MaxGroupMsgs -> 0..2]
  BY <1>4 DEF RecordRight, Aligned
<1>6. /\ grec'[r] = gop[r].record /\ heard'[r] = gop[r].past
      /\ got'[r] = Committed(got[r], n) /\ gop'[r] = NoGroupOp
  BY <1>1, <1>2
<1>7. /\ grec' \in [Member -> Seq(SenderState)] /\ heard' \in [Member -> Seq(Distribution)]
      /\ got' \in [Member -> [1..MaxGroupMsgs -> 0..2]]
      /\ gop' \in [Member -> MemberOp]
  BY <1>1, <1>2, <1>5, NoGroupOpIsOp
<1>8. MemberInv(r)'
  BY <1>1, <1>4, <1>6, NoGroupOpIsOp DEF MemberInv, SenderVars
<1>9. ASSUME NEW q \in Member, q # r
      PROVE  MemberInv(q)'
  <2>1. grec'[q] = grec[q] /\ heard'[q] = heard[q] /\ got'[q] = got[q] /\ gop'[q] = gop[q]
    BY <1>1, <1>2, <1>9
  <2> QED BY <1>1, <2>1, OtherMembers
<1> QED BY <1>3, <1>7, <1>8, <1>9 DEF GroupInv

LEMMA AbortStep ==
  ASSUME GroupInv, NEW r \in Member, GroupAbort(r)
  PROVE  GroupInv'
<1>1. /\ UNCHANGED SenderVars /\ grec' = grec /\ heard' = heard /\ got' = got
      /\ gop' = [gop EXCEPT ![r] = NoGroupOp]
  BY DEF GroupAbort, SenderVars
<1>2. gop \in [Member -> MemberOp] /\ SenderInv /\ MemberInv(r)
  BY DEF GroupInv
<1>3. SenderInv'
  BY <1>1, <1>2, SenderSame
<1>4. gop'[r] = NoGroupOp /\ gop' \in [Member -> MemberOp]
  BY <1>1, <1>2, NoGroupOpIsOp
<1>5. MemberInv(r)'
  BY <1>1, <1>2, <1>4, NoGroupOpIsOp DEF MemberInv, SenderVars
<1>6. ASSUME NEW q \in Member, q # r
      PROVE  MemberInv(q)'
  <2>1. gop'[q] = gop[q]
    BY <1>1, <1>2, <1>6
  <2> QED BY <1>1, <2>1, OtherMembers
<1> QED BY <1>1, <1>3, <1>4, <1>5, <1>6 DEF GroupInv

LEMMA GroupStep == GroupInv /\ [GroupNext]_groupVars => GroupInv'
<1> SUFFICES ASSUME GroupInv, [GroupNext]_groupVars PROVE GroupInv'
  OBVIOUS
<1>1. CASE CreateSession \/ GroupEncrypt \/ DropSenderKey
  BY <1>1, SendStep
<1>2. ASSUME NEW r \in Member, NEW d \in dists, ProcessSession(r, d)
      PROVE  GroupInv'
  BY <1>2, ProcessStep
<1>3. ASSUME NEW r \in Member, NEW m \in group, GroupDecrypt(r, m)
      PROVE  GroupInv'
  BY <1>3, DecryptStep
<1>4. ASSUME NEW r \in Member, GroupStore(r) \/ GroupAbort(r)
      PROVE  GroupInv'
  BY <1>4, StoreStep, AbortStep
<1>5. CASE UNCHANGED groupVars
  <2>1. UNCHANGED SenderVars /\ grec' = grec /\ heard' = heard /\ got' = got /\ gop' = gop
    BY <1>5 DEF groupVars, SenderVars
  <2>2. SenderInv'
    BY <2>1, SenderSame DEF GroupInv
  <2>3. \A q \in Member : MemberInv(q)'
    BY <2>1, OtherMembers
  <2> QED BY <2>1, <2>2, <2>3 DEF GroupInv
<1> QED BY <1>1, <1>2, <1>3, <1>4, <1>5 DEF GroupNext

(* The invariant of group messaging: the sender's chain, every member's    *)
(* stored record, and the record a running call would store.               *)
THEOREM GroupInvariant == GroupSpec => []GroupInv
BY GroupInitInv, GroupStep, PTL DEF GroupSpec

-----------------------------------------------------------------------------
(* What it implies                                                         *)

(* A record right for its past, seen by a message.                         *)
LEMMA MemberFacts ==
  ASSUME GroupInv, NEW r \in Member, NEW m \in group
  PROVE  /\ Announced(r, m.id) = AnnouncedIn(heard[r], m.id)
         /\ Len(heard[r]) \in Nat /\ Len(grec[r]) \in Nat
         /\ Aligned(grec[r], heard[r])
         /\ MessageRight(m, grec[r], heard[r], got[r])
         /\ got[r][m.n] \in 0..2 /\ m.iter \in Nat
<1>1. RecordRight(dists, group, own, count, grec[r], heard[r], got[r]) /\ SenderInv
  BY DEF GroupInv, MemberInv
<1>2. Len(heard[r]) \in Nat /\ Len(grec[r]) \in Nat
  BY <1>1 DEF RecordRight, Aligned
<1>3. m.n \in 1..MaxGroupMsgs /\ m.iter \in Nat
  BY <1>1, GroupFacts
<1>4. got[r][m.n] \in 0..2
  BY <1>1, <1>3 DEF RecordRight
<1>5. Aligned(grec[r], heard[r]) /\ MessageRight(m, grec[r], heard[r], got[r])
  BY <1>1 DEF RecordRight
<1> QED BY <1>2, <1>3, <1>4, <1>5 DEF Announced, AnnouncedIn

(* The types, and MAX_STATES and MAX_MESSAGE_KEYS, hold in every state.    *)
THEOREM GroupTypesKept == GroupSpec => []GroupTypeOK
<1>1. ASSUME GroupInv
      PROVE  GroupTypeOK
  <2>0. MaxGroupMsgs \in Nat /\ MaxSenderKeys \in Nat /\ MaxStates \in Nat
    BY GroupBounds
  <2>1. /\ own \in [id : 0..MaxSenderKeys, iter : 0..MaxGroupMsgs]
        /\ dists \subseteq [id : 1..made, iter : 0..MaxGroupMsgs, at : 0..count]
        /\ group \subseteq [id : 1..made, iter : 0..MaxGroupMsgs, n : 1..count]
    BY <1>1, <2>0 DEF GroupInv, SenderInv
  <2>2. ASSUME NEW r \in Member
        PROVE  /\ Len(grec[r]) <= MaxStates
               /\ \A k \in 1..Len(grec[r]) : Len(grec[r][k].mks) <= MaxMessageKeys
               /\ got[r] \in [1..MaxGroupMsgs -> 0..2]
    <3>1. Aligned(grec[r], heard[r]) /\ got[r] \in [1..MaxGroupMsgs -> 0..2]
      BY <1>1 DEF GroupInv, MemberInv, RecordRight
    <3>2. \A k \in 1..Len(grec[r]) : Len(grec[r][k].mks) <= MaxMessageKeys
      BY <3>1 DEF Aligned, WellKept
    <3>3. Len(grec[r]) <= MaxStates
      BY <2>0, <3>1 DEF Aligned
    <3> QED BY <3>1, <3>2, <3>3
  <2> QED BY <2>1, <2>2 DEF GroupTypeOK
<1> QED BY <1>1, GroupInvariant, PTL

(* group_cipher_encrypt stores the advanced chain before it releases the   *)
(* message: no two messages share a key, over crashes and key changes.     *)
THEOREM GroupKeysNeverReused == GroupSpec => []GroupNoKeyReuse
<1>1. ASSUME GroupInv
      PROVE  GroupNoKeyReuse
  <2> SUFFICES ASSUME NEW m \in group, NEW n \in group, m.id = n.id, m.iter = n.iter
               PROVE  m = n
    BY DEF GroupNoKeyReuse
  <2>1. SenderInv
    BY <1>1 DEF GroupInv
  <2>2. m.n - m.iter = n.n - n.iter /\ m.n \in 1..count /\ n.n \in 1..count /\ m.iter \in Nat
    BY <2>1, GroupFacts
  <2>3. m.n = n.n
    BY <2>1, <2>2, GroupFacts
  <2> QED BY <2>1, <2>3, GroupFacts
<1> QED BY <1>1, GroupInvariant, PTL

(* A member told of a sender key once commits each of its messages at most *)
(* once, also when other announcements are processed in the callback.      *)
THEOREM GroupCommitsOnce == GroupSpec => []GroupAtMostOnce
<1>1. ASSUME GroupInv
      PROVE  GroupAtMostOnce
  <2> SUFFICES ASSUME NEW r \in Member, NEW m \in group, Cardinality(Announced(r, m.id)) = 1
               PROVE  got[r][m.n] <= 1
    BY DEF GroupAtMostOnce
  <2>1. /\ Announced(r, m.id) = AnnouncedIn(heard[r], m.id) /\ Len(heard[r]) \in Nat
        /\ MessageRight(m, grec[r], heard[r], got[r])
    BY <1>1, MemberFacts
  <2>2. \E k \in 1..Len(heard[r]) : AnnouncedIn(heard[r], m.id) = {k}
    BY <2>1, AnnouncedOnce
  <2> QED BY <2>1, <2>2 DEF MessageRight
<1> QED BY <1>1, GroupInvariant, PTL

(* What is committed was encrypted after an announcement of its key that   *)
(* the member was given.                                                   *)
THEOREM NothingReadBeforeJoining == GroupSpec => []NothingBeforeJoining
<1>1. ASSUME GroupInv
      PROVE  NothingBeforeJoining
  <2> SUFFICES ASSUME NEW r \in Member, NEW m \in group, got[r][m.n] > 0
               PROVE  \E k \in Announced(r, m.id) : heard[r][k].at < m.n
    BY DEF NothingBeforeJoining
  <2>1. /\ Announced(r, m.id) = AnnouncedIn(heard[r], m.id)
        /\ MessageRight(m, grec[r], heard[r], got[r])
    BY <1>1, MemberFacts
  <2> QED BY <2>1 DEF MessageRight
<1> QED BY <1>1, GroupInvariant, PTL

(* A committed message's key is in no record any more.                     *)
THEOREM GroupKeysErased == GroupSpec => []GroupKeyErasure
<1>1. ASSUME GroupInv
      PROVE  GroupKeyErasure
  <2> SUFFICES ASSUME NEW r \in Member, NEW m \in group, got[r][m.n] > 0
               PROVE  /\ own.id = m.id => own.iter > m.iter
                      /\ Cardinality(Announced(r, m.id)) = 1 =>
                           \A k \in 1..Len(grec[r]) :
                             grec[r][k].id = m.id =>
                               grec[r][k].iter > m.iter /\ ~HasMessageKeys(grec[r][k].mks, m.iter)
    BY DEF GroupKeyErasure
  <2>1. /\ Announced(r, m.id) = AnnouncedIn(heard[r], m.id)
        /\ Len(heard[r]) \in Nat /\ Len(grec[r]) \in Nat
        /\ Aligned(grec[r], heard[r])
        /\ MessageRight(m, grec[r], heard[r], got[r])
        /\ got[r][m.n] \in 0..2 /\ m.iter \in Nat
    BY <1>1, MemberFacts
  <2>2. own.id = m.id => own.iter > m.iter
    <3>1. SenderInv
      BY <1>1 DEF GroupInv
    <3>2. m.id \in 1..made /\ made \in Nat
      BY <3>1, GroupBounds DEF SenderInv
    <3>3. own.id = m.id => own.id # 0
      BY <3>2
    <3>4. own.id = m.id => own.iter \in Nat /\ m.iter < own.iter
      BY <3>1, <3>3, GroupFacts
    <3> QED BY <2>1, <3>4
  <2>3. ASSUME Cardinality(Announced(r, m.id)) = 1,
               NEW k \in 1..Len(grec[r]), grec[r][k].id = m.id
        PROVE  grec[r][k].iter > m.iter /\ ~HasMessageKeys(grec[r][k].mks, m.iter)
    <3>1. PICK j \in 1..Len(heard[r]) : AnnouncedIn(heard[r], m.id) = {j}
      BY <2>1, <2>3, AnnouncedOnce
    <3>2. /\ Len(grec[r]) = IF Len(heard[r]) > MaxStates THEN MaxStates ELSE Len(heard[r])
          /\ MaxStates \in Nat
          /\ grec[r][k].id = heard[r][k].id
          /\ WellKept(grec[r][k].iter, grec[r][k].mks, heard[r][k].iter)
      BY <2>1, GroupBounds DEF Aligned
    <3>3. k \in 1..Len(heard[r])
      BY <2>1, <3>2
    <3>4. k = j
      BY <2>3, <3>1, <3>2, <3>3 DEF AnnouncedIn
    <3>5. KeyRight(grec[r][k], heard[r][k].iter, m, got[r][m.n] > 0)
      BY <2>1, <3>1, <3>4 DEF MessageRight
    <3>6. m.iter < grec[r][k].iter /\ m.iter \notin Keys(grec[r][k].mks)
      BY <3>5 DEF KeyRight
    <3>7. grec[r][k].iter \in Nat /\ grec[r][k].mks \in Seq(Nat)
      BY <3>2 DEF WellKept
    <3> QED BY <2>1, <3>6, <3>7, HasIsValue
  <2> QED BY <2>2, <2>3
<1> QED BY <1>1, GroupInvariant, PTL

(* A message in the window that was announced and not committed can be     *)
(* decrypted, whatever happened before.                                    *)
THEOREM GroupStaysDeliverable == GroupSpec => []GroupDeliverable
<1>1. ASSUME GroupInv
      PROVE  GroupDeliverable
  <2> SUFFICES ASSUME NEW r \in Member, NEW m \in group, NEW k \in Announced(r, m.id),
                      Announced(r, m.id) = {k}, k <= MaxStates,
                      heard[r][k].iter <= m.iter, got[r][m.n] = 0,
                      InWindow(grec[r][StateById(grec[r], m.id)], m)
               PROVE  GroupAnswer(r, m) = Success
    BY DEF GroupDeliverable
  <2>1. /\ Announced(r, m.id) = AnnouncedIn(heard[r], m.id)
        /\ Len(heard[r]) \in Nat /\ Len(grec[r]) \in Nat
        /\ Aligned(grec[r], heard[r])
        /\ MessageRight(m, grec[r], heard[r], got[r])
        /\ m.iter \in Nat
    BY <1>1, MemberFacts
  <2>2. k \in 1..Len(heard[r]) /\ heard[r][k].id = m.id
    BY DEF Announced
  <2>3. /\ Len(grec[r]) = IF Len(heard[r]) > MaxStates THEN MaxStates ELSE Len(heard[r])
        /\ MaxStates \in Nat
        /\ \A i \in 1..Len(grec[r]) : /\ grec[r][i].id = heard[r][i].id
                                      /\ WellKept(grec[r][i].iter, grec[r][i].mks, heard[r][i].iter)
    BY <2>1, GroupBounds DEF Aligned
  <2>4. k \in 1..Len(grec[r]) /\ Len(grec[r]) <= Len(heard[r])
    BY <2>1, <2>2, <2>3
  <2>5. StateById(grec[r], m.id) = k
    <3> DEFINE j == StateById(grec[r], m.id)
    <3>1. j \in 1..Len(grec[r]) /\ grec[r][j].id = m.id
      BY <2>1, <2>2, <2>3, <2>4, StateByIdShape, SMTT(30)
    <3> HIDE DEF j
    <3>2. j \in 1..Len(heard[r]) /\ heard[r][j].id = m.id
      BY <2>1, <2>3, <2>4, <3>1
    <3>3. j \in Announced(r, m.id)
      BY <3>2 DEF Announced
    <3> QED BY <3>3 DEF j
  <2> DEFINE s == grec[r][k]
  <2>6. WellKept(s.iter, s.mks, heard[r][k].iter)
    BY <2>3, <2>4
  <2>7. KeyRight(s, heard[r][k].iter, m, FALSE)
    <3>1. KeyRight(s, heard[r][k].iter, m, got[r][m.n] > 0)
      BY <2>1, <2>2, <2>4 DEF MessageRight
    <3>2. ~(got[r][m.n] > 0)
      OBVIOUS
    <3> QED BY <3>1, <3>2 DEF KeyRight
  <2>8. s.iter - m.iter <= MaxMessageKeys /\ m.iter - s.iter <= MaxFuture
    BY <2>5 DEF InWindow
  <2>9. GroupAnswer(r, m) = Answer(s.iter, s.mks, m.iter)
    <3>1. k # 0
      BY <2>1, <2>4
    <3> QED BY <2>5, <3>1 DEF GroupAnswer
  <2>10. s.iter \in Nat /\ s.mks \in Seq(Nat)
    BY <2>6 DEF WellKept
  <2> HIDE DEF s
  <2>11. CASE s.iter > m.iter
    <3>1. m.iter < s.iter /\ s.iter - m.iter <= MaxMessageKeys + 1
      BY <2>1, <2>8, <2>10, <2>11, KeyBounds
    <3>2. m.iter \in Keys(s.mks)
      BY <2>7, <3>1 DEF KeyRight
    <3>3. HasMessageKeys(s.mks, m.iter)
      BY <2>10, <3>2, HasIsValue
    <3> QED BY <2>9, <2>11, <3>3 DEF Answer
  <2>12. CASE ~(s.iter > m.iter)
    <3>1. ~(m.iter - s.iter > MaxFuture)
      BY <2>1, <2>8, <2>10, KeyBounds
    <3> QED BY <2>9, <2>12, <3>1 DEF Answer
  <2> QED BY <2>11, <2>12
<1> QED BY <1>1, GroupInvariant, PTL

=============================================================================
