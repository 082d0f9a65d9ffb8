-------------------------- MODULE Sessions_proofs --------------------------
(***************************************************************************)
(* The safety of pairwise sessions, for every number of messages, bundles, *)
(* keys, faults and resets and for every limit of the record.  SessInv is  *)
(* inductive without conditions on the constants, and all properties that  *)
(* hold without any follow from it.  StepInv, on top of it, relates the    *)
(* two ends of a session, and DeliverInv what the peer may still send to   *)
(* what the receiver can still open.                                       *)
(***************************************************************************)
EXTENDS Sessions, MessageKeys_proofs, FiniteSetTheorems, WellFoundedInduction

(* A finite list, whatever it holds.                                       *)
IsSeq(c) == \E X : c \in Seq(X)

(* The key pairs there can be, and sets of those that were made already:   *)
(* N[p] ephemeral ones by p, one-time pre keys in its first G[p]           *)
(* installations.                                                          *)
Pub == {"identity", "signed", "onetime", "ephemeral"} \X Party \X Nat \X Nat
KnownIn(A, N) == A \subseteq Pub /\ \A k \in A : k[1] = "ephemeral" => k[4] <= N[k[2]]
IssuedIn(A, G) == A \subseteq Pub /\ \A k \in A : k[1] = "onetime" => k[3] <= G[k[2]]

(* The agreement of the last turn of the ratchet on a chain's path, if the *)
(* ratchet turned at all.                                                  *)
Newest(c) == IF Len(c) > 1 THEN c[Len(c)] ELSE {}

(* The first agreement of a path names the base key of its session, and so *)
(* the party that began it.                                                *)
SecretOK(z, b, N, G) ==
  /\ IsSeq(z) /\ Len(z) \in {3, 4}
  /\ b \in Pub /\ b[1] = "ephemeral" /\ b[4] <= N[b[2]]
  /\ \E x \in z[3] : x[1] = "signed" /\ z[3] = {x, b}
  /\ Len(z) = 4 => IssuedIn(z[4], G)

(* The party that began a session sends on paths of even length, the other *)
(* one on paths of odd length: no two of their chains are the same.        *)
Parity(p, b) == IF b[2] = p THEN 0 ELSE 1

-----------------------------------------------------------------------------
(* A receiver chain of a state with this root.                             *)
LinkOK(l, root, N) ==
  /\ DOMAIN l = {"ratchet", "chain", "index", "mks"}
  /\ IsSeq(l.chain) /\ Len(l.chain) >= 1 /\ l.chain[1] = root[1]
  /\ (Len(l.chain) + Len(root)) % 2 = 1
  /\ KnownIn(Newest(l.chain), N)
  /\ WellKept(l.index, l.mks, 0)

StateFields ==
  {"base", "local", "remote", "root", "ratchet", "chain", "index", "recv", "pending"}

(* The sender chain of a state of p: its path ends in the agreement of the *)
(* ratchet key p made for it and a key of the peer.                        *)
SenderOK(p, s, N, G) ==
  /\ s.chain = s.root
  /\ IsSeq(s.root) /\ Len(s.root) >= 2 /\ SecretOK(s.root[1], s.base, N, G)
  /\ Len(s.root) % 2 = Parity(p, s.base)
  /\ s.ratchet \in Pub /\ s.ratchet[1] = "ephemeral" /\ s.ratchet[2] = p
  /\ \E t \in Newest(s.root) : t \in Pub /\ t[2] # p /\ Newest(s.root) = {t, s.ratchet}
  /\ KnownIn(Newest(s.root), N)
  /\ s.index \in Nat
  /\ s.pending.base \in {NoKey, s.base}

LinksOK(recv, root, N) ==
  /\ IsSeq(recv) /\ Len(recv) <= MaxReceiverChains
  /\ \A k \in 1..Len(recv) : LinkOK(recv[k], root, N)
  /\ \A k, l \in 1..Len(recv) : recv[k].chain = recv[l].chain => k = l

(* A state p may hold in its record.                                       *)
StateOK(p, s, N, G) ==
  /\ DOMAIN s = StateFields
  /\ SenderOK(p, s, N, G)
  /\ LinksOK(s.recv, s.root, N)

MsgOK(m, N, G) ==
  /\ m.to \in Party /\ m.counter \in Nat
  /\ IsSeq(m.chain) /\ Len(m.chain) >= 2
  /\ \E b \in m.chain[1][3] :
       /\ SecretOK(m.chain[1], b, N, G) /\ m.base \in {NoKey, b}
       /\ Len(m.chain) % 2 = 1 - Parity(m.to, b)
  /\ m.ratchet \in Pub /\ m.ratchet[1] = "ephemeral" /\ m.ratchet[2] # m.to
  /\ \E t \in Newest(m.chain) : t \in Pub /\ t[2] = m.to /\ Newest(m.chain) = {t, m.ratchet}
  /\ KnownIn(Newest(m.chain), N)

(* The current state and the archived ones, by their place.                *)
At(r, i) == IF i = 0 THEN r.cur ELSE r.prev[i]
Slots(r) == 0..Len(r.prev)

(* No receiver chain was made with a ratchet key that is still in use, and *)
(* no two states of a record share a ratchet key or a base key.            *)
Alone(s) == \A k \in 1..Len(s.recv) : s.ratchet \notin Newest(s.recv[k].chain)
Beside(s, t) ==
  /\ s.ratchet # t.ratchet /\ s.base # t.base
  /\ \A k \in 1..Len(t.recv) : s.ratchet \notin Newest(t.recv[k].chain)
  /\ \A k \in 1..Len(s.recv) : t.ratchet \notin Newest(s.recv[k].chain)

(* A record of p.                                                          *)
RecordOK(p, r, N, G) ==
  /\ DOMAIN r = {"cur", "prev"} /\ IsSeq(r.prev) /\ Len(r.prev) <= MaxArchivedStates
  /\ \A i \in Slots(r) : StateOK(p, At(r, i), N, G) /\ Alone(At(r, i))
  /\ \A i, j \in Slots(r) : i # j => Beside(At(r, i), At(r, j))

(* A receiver chain still gives the key of counter c.                      *)
LinkYields(l, c) == l.index <= c \/ HasMessageKeys(l.mks, c)
Yields(recv, ch, c) ==
  \E k \in 1..Len(recv) : recv[k].chain = ch /\ LinkYields(recv[k], c)

(* State s cannot give the key of m, nor derive its chain again.           *)
Gone(s, m) == s.ratchet \notin Newest(m.chain) /\ ~Yields(s.recv, m.chain, m.counter)
Erased(r, m) == \A i \in Slots(r) : Gone(At(r, i), m)

(* Every sender chain is past the messages of M that were sent on it.      *)
Ahead(r, M) ==
  \A i \in Slots(r) : \A m \in M : m.chain = At(r, i).chain => m.counter < At(r, i).index

-----------------------------------------------------------------------------
LEMMA PeerIsOther ==
  ASSUME NEW p \in Party
  PROVE  /\ Peer(p) \in Party /\ Peer(p) # p
         /\ \A q \in Party : q = p \/ q = Peer(p)
<1>1. IsFiniteSet(Party) /\ Cardinality(Party) = 2
  BY SessionBounds
<1>2. IsFiniteSet(Party \ {p}) /\ Cardinality(Party \ {p}) = 1
  BY <1>1, FS_RemoveElement
<1>3. PICK x : Party \ {p} = {x}
  BY <1>2, FS_Singleton
<1>4. x \in Party /\ x # p /\ \A q \in Party : q # p => q = x
  BY <1>3
<1> QED
  BY <1>4 DEF Peer

(* Path d is path c with one more agreement, a.                            *)
Extends(c, d, a) ==
  /\ IsSeq(d) /\ Len(d) = Len(c) + 1 /\ d[1] = c[1] /\ Newest(d) = a

LEMMA AppendPath ==
  ASSUME NEW c, IsSeq(c), Len(c) >= 1, NEW a, NEW d, d = Append(c, a)
  PROVE  Extends(c, d, a)
<1>1. PICK X : c \in Seq(X)
  BY DEF IsSeq
<1> DEFINE Y == X \union {a}
<1>2. c \in Seq(Y) /\ a \in Y
  BY <1>1
<1> HIDE DEF Y
<1>3. d \in Seq(Y) /\ Len(d) = Len(c) + 1 /\ Len(c) \in Nat
  BY <1>2
<1>4. d[1] = c[1]
  BY <1>2
<1>5. d[Len(c) + 1] = a
  BY <1>2
<1>6. Newest(d) = a
  BY <1>3, <1>5 DEF Newest
<1> QED
  BY <1>3, <1>4, <1>6 DEF IsSeq, Extends

LEMMA LenNat ==
  ASSUME NEW c, IsSeq(c)
  PROVE  Len(c) \in Nat /\ DOMAIN c = 1..Len(c)
BY DEF IsSeq

LEMMA KeyParts ==
  ASSUME NEW a, NEW b, NEW c, NEW d
  PROVE  /\ Key(a, b, c, d)[1] = a /\ Key(a, b, c, d)[2] = b
         /\ Key(a, b, c, d)[3] = c /\ Key(a, b, c, d)[4] = d
BY DEF Key

LEMMA KeyInPub ==
  ASSUME NEW a \in {"identity", "signed", "onetime", "ephemeral"}, NEW p \in Party,
         NEW c \in Nat, NEW d \in Nat
  PROVE  Key(a, p, c, d) \in Pub
BY DEF Key, Pub
LEMMA LeastExists ==
  ASSUME NEW S, S \subseteq Nat, S # {}
  PROVE  \E x \in S : \A y \in S : x <= y
<1>1. IsWellFoundedOn(OpToRel(<, Nat), Nat)
  BY NatLessThanWellFounded
<1>2. PICK x \in S : \A y \in S : ~(<<y, x>> \in OpToRel(<, Nat))
  BY <1>1, WFMin
<1>3. ASSUME NEW y \in S
      PROVE  x <= y
  <2>1. ~(y < x)
    BY <1>2 DEF OpToRel
  <2> QED BY <2>1
<1> QED BY <1>3

(* session_state_find_receiver_chain finds a chain with that ratchet key   *)
(* when there is one.                                                      *)
LEMMA FindChain ==
  ASSUME NEW recv, IsSeq(recv), NEW r
  PROVE  \/ /\ FindReceiverChain(recv, r) = 0
            /\ \A k \in 1..Len(recv) : recv[k].ratchet # r
         \/ /\ FindReceiverChain(recv, r) \in 1..Len(recv)
            /\ recv[FindReceiverChain(recv, r)].ratchet = r
<1> DEFINE S == {i \in 1..Len(recv) : recv[i].ratchet = r}
<1>1. FindReceiverChain(recv, r) = IF S = {} THEN 0 ELSE Min(S)
  BY DEF FindReceiverChain
<1>2. Len(recv) \in Nat
  BY LenNat
<1>3. CASE S = {}
  BY <1>1, <1>3
<1>4. CASE S # {}
  <2>1. S \subseteq Nat
    BY <1>2
  <2>2. Min(S) \in S
    BY <1>4, <2>1, LeastExists DEF Min
  <2> QED BY <1>1, <1>4, <2>2
<1> QED BY <1>3, <1>4

-----------------------------------------------------------------------------
(* What is the same in all states that descend from one.                   *)
SameSession(s, s2) ==
  /\ DOMAIN s2 = DOMAIN s
  /\ s2.base = s.base
  /\ s2.pending = NoPending

LinkAfter(l, c) ==
  [l EXCEPT !.index = IndexAfter(l.index, c), !.mks = KeysAfter(l.index, l.mks, c)]

(* m was decrypted with the receiver chain at k.                           *)
KeptChain(s, s2, m, k) ==
  /\ SameSession(s, s2)
  /\ k \in 1..Len(s.recv) /\ s.recv[k].chain = m.chain
  /\ Answer(s.recv[k].index, s.recv[k].mks, m.counter) = Success
  /\ s2.recv = [s.recv EXCEPT ![k] = LinkAfter(s.recv[k], m.counter)]
  /\ s2.root = s.root /\ s2.chain = s.chain /\ s2.index = s.index /\ s2.ratchet = s.ratchet

EmptyLink(r, c) == [ratchet |-> r, chain |-> c, index |-> 0, mks |-> <<>>]

(* The ratchet turned for m, and it was decrypted with the new chain.      *)
TurnedChain(s, s2, m, new) ==
  /\ SameSession(s, s2)
  /\ m.chain = CreateChain(s.root, m.ratchet, s.ratchet)
  /\ Answer(0, <<>>, m.counter) = Success
  /\ LET recv == AddReceiverChain(s.recv, m.ratchet, m.chain)
     IN s2.recv = [recv EXCEPT ![Len(recv)] = LinkAfter(EmptyLink(m.ratchet, m.chain), m.counter)]
  /\ s2.root = CreateChain(m.chain, m.ratchet, new)
  /\ s2.chain = s2.root /\ s2.index = 0 /\ s2.ratchet = new

(* Chain l was added at the end of recv; the oldest one may have gone.     *)
AddedTo(recv, all, l) ==
  /\ IsSeq(all) /\ Len(all) >= 1 /\ Len(all) <= MaxReceiverChains
  /\ all[Len(all)] = l
  /\ \E x \in {0, 1} : /\ Len(all) = Len(recv) + 1 - x
                       /\ \A k \in 1..(Len(all) - 1) : all[k] = recv[k + x]

(* session_state_add_receiver_chain: the new chain is the last one.        *)
LEMMA AddChain ==
  ASSUME NEW recv, IsSeq(recv), Len(recv) <= MaxReceiverChains, NEW r, NEW c,
         NEW all, all = AddReceiverChain(recv, r, c)
  PROVE  AddedTo(recv, all, EmptyLink(r, c))
<1> DEFINE l == EmptyLink(r, c)
           app == Append(recv, l)
<1>0. MaxReceiverChains \in Nat \ {0}
  BY RecordBounds
<1>1. PICK X : recv \in Seq(X)
  BY DEF IsSeq
<1>2. all = IF Len(app) > MaxReceiverChains THEN Tail(app) ELSE app
  BY DEF AddReceiverChain, EmptyLink
<1> HIDE DEF l
<1> DEFINE Y == X \union {l}
<1>3. recv \in Seq(Y) /\ l \in Y
  BY <1>1
<1> HIDE DEF Y
<1>4. /\ app \in Seq(Y) /\ Len(app) = Len(recv) + 1 /\ Len(recv) \in Nat
      /\ app[Len(recv) + 1] = l
      /\ \A k \in 1..Len(recv) : app[k] = recv[k]
  BY <1>3
<1> HIDE DEF app
<1>5. CASE Len(app) > MaxReceiverChains
  <2>1. all = Tail(app)
    BY <1>2, <1>5
  <2>2. app # <<>>
    BY <1>4
  <2>3. all \in Seq(Y) /\ Len(all) = Len(recv)
    BY <1>4, <2>1, <2>2
  <2>4. \A k \in 1..Len(all) : all[k] = app[k + 1]
    BY <1>4, <2>1, <2>2
  <2>5. Len(all) >= 1 /\ Len(all) <= MaxReceiverChains
    BY <1>0, <1>4, <1>5, <2>3
  <2>6. all[Len(all)] = l
    BY <1>4, <2>3, <2>4, <2>5
  <2>7. \A k \in 1..(Len(all) - 1) : all[k] = recv[k + 1]
    BY <1>4, <2>3, <2>4
  <2> QED BY <2>3, <2>5, <2>6, <2>7 DEF IsSeq, l, AddedTo
<1>6. CASE ~(Len(app) > MaxReceiverChains)
  <2>1. all = app
    BY <1>2, <1>6
  <2>2. IsSeq(all) /\ Len(all) = Len(recv) + 1 - 0
    BY <1>4, <2>1 DEF IsSeq
  <2>3. Len(all) >= 1 /\ Len(all) <= MaxReceiverChains
    BY <1>0, <1>4, <1>6, <2>1
  <2>4. all[Len(all)] = l
    BY <1>4, <2>1
  <2>5. \A k \in 1..(Len(all) - 1) : all[k] = recv[k + 0]
    BY <1>4, <2>1
  <2> QED BY <2>2, <2>3, <2>4, <2>5 DEF l, AddedTo
<1> QED BY <1>5, <1>6

(* What session_cipher_decrypt_from_state_and_signal_message leaves when   *)
(* it succeeds.                                                            *)
LEMMA Decrypted ==
  ASSUME NEW s, DOMAIN s = StateFields, IsSeq(s.recv), Len(s.recv) <= MaxReceiverChains,
         NEW m, NEW new, DecryptFromState(s, m, new).code = Success
  PROVE  LET s2 == DecryptFromState(s, m, new).state
         IN \/ \E k \in 1..Len(s.recv) : KeptChain(s, s2, m, k)
            \/ TurnedChain(s, s2, m, new)
<1> DEFINE turned == GetOrCreateChainKey(s, m.ratchet, new)
           at     == FindReceiverChain(turned.recv, m.ratchet)
           link   == turned.recv[at]
           answer == Answer(link.index, link.mks, m.counter)
           after  == LinkAfter(link, m.counter)
           d      == DecryptFromState(s, m, new)
           s2     == [turned EXCEPT !.recv[at] = after, !.pending = NoPending]
<1>0. Success # Invalid
  BY DEF Success, Invalid
<1>1. d = IF ~HasSenderChain(s) THEN [code |-> Invalid, state |-> s]
          ELSE IF answer # Success THEN [code |-> answer, state |-> s]
          ELSE IF ~VerifyMac(s, link.chain, m) THEN [code |-> Invalid, state |-> s]
          ELSE [code |-> Success, state |-> s2]
  BY DEF DecryptFromState, LinkAfter
<1> HIDE DEF d, s2, answer
<1>2. HasSenderChain(s)
  BY <1>0, <1>1 DEF d
<1>3. answer = Success
  BY <1>0, <1>1, <1>2 DEF d
<1>4. VerifyMac(s, link.chain, m) /\ d.state = s2
  BY <1>0, <1>1, <1>2, <1>3 DEF d
<1>5. link.chain = m.chain
  BY <1>4 DEF VerifyMac
<1> HIDE DEF turned, at, link, after
<1>6. CASE FindReceiverChain(s.recv, m.ratchet) # 0
  <2>1. turned = s
    BY <1>6 DEF turned, GetOrCreateChainKey
  <2>2. at \in 1..Len(s.recv)
    BY <1>6, <2>1, FindChain DEF at
  <2>3. s2 = [s EXCEPT !.recv[at] = after, !.pending = NoPending]
    BY <2>1 DEF s2
  <2>4. link = s.recv[at]
    BY <2>1 DEF link
  <2>5. /\ DOMAIN s2 = DOMAIN s /\ s2.base = s.base /\ s2.pending = NoPending
        /\ s2.recv = [s.recv EXCEPT ![at] = after]
        /\ s2.root = s.root /\ s2.chain = s.chain /\ s2.index = s.index
        /\ s2.ratchet = s.ratchet
    BY <2>3 DEF StateFields
  <2>6. KeptChain(s, s2, m, at)
    BY <1>3, <1>5, <2>2, <2>4, <2>5 DEF KeptChain, SameSession, answer, after
  <2> QED
    BY <1>4, <2>2, <2>6 DEF d
<1>7. CASE FindReceiverChain(s.recv, m.ratchet) = 0
  <2> DEFINE rcv == CreateChain(s.root, m.ratchet, s.ratchet)
             snd == CreateChain(rcv, m.ratchet, new)
             recv == AddReceiverChain(s.recv, m.ratchet, rcv)
             n == EmptyLink(m.ratchet, rcv)
  <2>1. turned = [s EXCEPT !.root = snd, !.ratchet = new, !.chain = snd, !.index = 0, !.recv = recv]
    BY <1>7 DEF turned, GetOrCreateChainKey
  <2> HIDE DEF rcv, snd, recv
  <2>2. /\ DOMAIN turned = StateFields /\ turned.base = s.base
        /\ turned.recv = recv /\ turned.root = snd /\ turned.chain = snd
        /\ turned.index = 0 /\ turned.ratchet = new
    BY <2>1 DEF StateFields
  <2>3. /\ IsSeq(recv) /\ Len(recv) >= 1 /\ recv[Len(recv)] = n
        /\ \E x \in {0, 1} : /\ Len(recv) = Len(s.recv) + 1 - x
                             /\ \A k \in 1..(Len(recv) - 1) : recv[k] = s.recv[k + x]
    <3>1. recv = AddReceiverChain(s.recv, m.ratchet, rcv)
      BY DEF recv
    <3>2. IsSeq(s.recv) /\ Len(s.recv) <= MaxReceiverChains
      OBVIOUS
    <3>3. AddedTo(s.recv, recv, n)
      BY <3>1, <3>2, AddChain
    <3> HIDE DEF n
    <3> QED BY <3>3 DEF AddedTo
  <2>4. PICK x \in {0, 1} : /\ Len(recv) = Len(s.recv) + 1 - x
                            /\ \A k \in 1..(Len(recv) - 1) : recv[k] = s.recv[k + x]
    BY <2>3
  <2>5. Len(s.recv) \in Nat /\ Len(recv) \in Nat
    BY <2>3, LenNat
  <2>6. \A k \in 1..Len(s.recv) : s.recv[k].ratchet # m.ratchet
    BY <1>7, <2>5, FindChain
  <2>7. \A k \in 1..(Len(recv) - 1) : recv[k].ratchet # m.ratchet
    BY <2>4, <2>5, <2>6, SMTT(30)
  <2>8. n.ratchet = m.ratchet /\ n.chain = rcv /\ n.index = 0 /\ n.mks = <<>>
    BY DEF EmptyLink
  <2> HIDE DEF n
  <2>9. recv[Len(recv)].ratchet = m.ratchet /\ Len(recv) \in 1..Len(recv)
    BY <2>3, <2>5, <2>8
  <2>10. at = Len(recv)
    <3>0. at = FindReceiverChain(recv, m.ratchet)
      BY <2>2 DEF at
    <3>1. \/ /\ at = 0
             /\ \A k \in 1..Len(recv) : recv[k].ratchet # m.ratchet
          \/ /\ at \in 1..Len(recv)
             /\ recv[at].ratchet = m.ratchet
      BY <2>3, <3>0, FindChain
    <3>2. at \in 1..Len(recv) /\ recv[at].ratchet = m.ratchet
      BY <2>9, <3>1
    <3> QED BY <2>5, <2>7, <3>2
  <2>11. link = n
    BY <2>2, <2>3, <2>10 DEF link
  <2>12. m.chain = rcv
    BY <1>5, <2>8, <2>11
  <2>13. n = EmptyLink(m.ratchet, m.chain)
    BY <2>12 DEF n
  <2>14. after = LinkAfter(EmptyLink(m.ratchet, m.chain), m.counter)
    BY <2>11, <2>13 DEF after
  <2>15. Answer(0, <<>>, m.counter) = Success
    BY <1>3, <2>8, <2>11 DEF answer
  <2>16. /\ DOMAIN s2 = StateFields /\ s2.base = s.base /\ s2.pending = NoPending
         /\ s2.recv = [recv EXCEPT ![Len(recv)] = after]
         /\ s2.root = snd /\ s2.chain = snd /\ s2.index = 0 /\ s2.ratchet = new
    BY <2>2, <2>10 DEF s2, StateFields
  <2>17. recv = AddReceiverChain(s.recv, m.ratchet, m.chain)
    BY <2>12 DEF recv
  <2>18. TurnedChain(s, s2, m, new)
    BY <2>12, <2>14, <2>15, <2>16, <2>17 DEF TurnedChain, SameSession, rcv, snd
  <2> QED
    BY <1>4, <2>18 DEF d
<1> QED BY <1>6, <1>7

-----------------------------------------------------------------------------
(* What is well-formed stays so when more keys are made.                   *)
Grows(N, N2) == \A q \in Party : N[q] \in Nat /\ N2[q] \in Nat /\ N[q] <= N2[q]

LEMMA PubParts ==
  ASSUME NEW k \in Pub
  PROVE  k[2] \in Party /\ k[3] \in Nat /\ k[4] \in Nat
BY DEF Pub

LEMMA KnownGrows ==
  ASSUME NEW A, NEW N, NEW N2, Grows(N, N2), KnownIn(A, N)
  PROVE  KnownIn(A, N2)
<1>1. A \subseteq Pub
  BY DEF KnownIn
<1>2. ASSUME NEW k \in A, k[1] = "ephemeral"
      PROVE  k[4] <= N2[k[2]]
  <2>1. k[2] \in Party /\ k[4] \in Nat
    BY <1>1, PubParts
  <2>2. k[4] <= N[k[2]]
    BY <1>2 DEF KnownIn
  <2> QED BY <2>1, <2>2 DEF Grows
<1> QED BY <1>1, <1>2 DEF KnownIn

LEMMA IssuedGrows ==
  ASSUME NEW A, NEW G, NEW G2, Grows(G, G2), IssuedIn(A, G)
  PROVE  IssuedIn(A, G2)
<1>1. A \subseteq Pub
  BY DEF IssuedIn
<1>2. ASSUME NEW k \in A, k[1] = "onetime"
      PROVE  k[3] <= G2[k[2]]
  <2>1. k[2] \in Party /\ k[3] \in Nat
    BY <1>1, PubParts
  <2>2. k[3] <= G[k[2]]
    BY <1>2 DEF IssuedIn
  <2> QED BY <2>1, <2>2 DEF Grows
<1> QED BY <1>1, <1>2 DEF IssuedIn

LEMMA SecretGrows ==
  ASSUME NEW z, NEW b, NEW N, NEW N2, NEW G, NEW G2, Grows(N, N2), Grows(G, G2),
         SecretOK(z, b, N, G)
  PROVE  SecretOK(z, b, N2, G2)
<1>1. b[2] \in Party /\ b[4] \in Nat /\ b[4] <= N[b[2]]
  BY PubParts DEF SecretOK
<1>2. b[4] <= N2[b[2]]
  BY <1>1 DEF Grows
<1>3. Len(z) = 4 => IssuedIn(z[4], G2)
  BY IssuedGrows DEF SecretOK
<1> QED BY <1>2, <1>3 DEF SecretOK

LEMMA LinkGrows ==
  ASSUME NEW l, NEW root, NEW N, NEW N2, Grows(N, N2), LinkOK(l, root, N)
  PROVE  LinkOK(l, root, N2)
<1>1. KnownIn(Newest(l.chain), N2)
  BY KnownGrows DEF LinkOK
<1> QED BY <1>1 DEF LinkOK

LEMMA LinksGrow ==
  ASSUME NEW recv, NEW root, NEW N, NEW N2, Grows(N, N2), LinksOK(recv, root, N)
  PROVE  LinksOK(recv, root, N2)
<1>1. \A k \in 1..Len(recv) : LinkOK(recv[k], root, N2)
  BY LinkGrows DEF LinksOK
<1> QED BY <1>1 DEF LinksOK

LEMMA StateGrows ==
  ASSUME NEW p, NEW s, NEW N, NEW N2, NEW G, NEW G2, Grows(N, N2), Grows(G, G2),
         StateOK(p, s, N, G)
  PROVE  StateOK(p, s, N2, G2)
<1>1. SenderOK(p, s, N, G) /\ LinksOK(s.recv, s.root, N) /\ DOMAIN s = StateFields
  BY DEF StateOK
<1>2. SecretOK(s.root[1], s.base, N2, G2)
  BY <1>1, SecretGrows DEF SenderOK
<1>3. KnownIn(Newest(s.root), N2)
  BY <1>1, KnownGrows DEF SenderOK
<1>4. SenderOK(p, s, N2, G2)
  BY <1>1, <1>2, <1>3 DEF SenderOK
<1>5. LinksOK(s.recv, s.root, N2)
  BY <1>1, LinksGrow
<1> QED BY <1>1, <1>4, <1>5 DEF StateOK

LEMMA RecordGrows ==
  ASSUME NEW p, NEW r, NEW N, NEW N2, NEW G, NEW G2, Grows(N, N2), Grows(G, G2),
         RecordOK(p, r, N, G)
  PROVE  RecordOK(p, r, N2, G2)
<1>1. \A i \in Slots(r) : StateOK(p, At(r, i), N2, G2)
  BY StateGrows DEF RecordOK
<1> QED BY <1>1 DEF RecordOK

LEMMA MsgGrows ==
  ASSUME NEW m, NEW N, NEW N2, NEW G, NEW G2, Grows(N, N2), Grows(G, G2), MsgOK(m, N, G)
  PROVE  MsgOK(m, N2, G2)
<1>1. PICK b \in m.chain[1][3] :
        /\ SecretOK(m.chain[1], b, N, G) /\ m.base \in {NoKey, b}
        /\ Len(m.chain) % 2 = 1 - Parity(m.to, b)
  BY DEF MsgOK
<1>2. SecretOK(m.chain[1], b, N2, G2)
  BY <1>1, SecretGrows
<1>3. KnownIn(Newest(m.chain), N2)
  BY KnownGrows DEF MsgOK
<1> QED BY <1>1, <1>2, <1>3 DEF MsgOK

(* The base key is what the first agreement says it is.                    *)
LEMMA BaseOfSecret ==
  ASSUME NEW z, NEW b, NEW b2, NEW N, NEW G, NEW N2, NEW G2,
         SecretOK(z, b, N, G), SecretOK(z, b2, N2, G2)
  PROVE  b = b2
<1>1. PICK x \in z[3] : x[1] = "signed" /\ z[3] = {x, b}
  BY DEF SecretOK
<1>2. PICK y \in z[3] : y[1] = "signed" /\ z[3] = {y, b2}
  BY DEF SecretOK
<1>3. b[1] = "ephemeral" /\ b2[1] = "ephemeral"
  BY DEF SecretOK
<1>4. b \in {y, b2}
  BY <1>1, <1>2
<1>5. b # y
  BY <1>2, <1>3
<1> QED BY <1>4, <1>5

-----------------------------------------------------------------------------
(* Taking a message key from a receiver chain                              *)

(* l2 is l after the key of counter c was taken.                           *)
Took(l, l2, c) ==
  /\ l2.chain = l.chain
  /\ ~LinkYields(l2, c)
  /\ \A d \in Nat : LinkYields(l2, d) => LinkYields(l, d)

LEMMA LinkStep ==
  ASSUME NEW l, NEW root, NEW N, LinkOK(l, root, N), NEW c \in Nat,
         Answer(l.index, l.mks, c) = Success,
         NEW l2, l2 = LinkAfter(l, c)
  PROVE  LinkOK(l2, root, N) /\ Took(l, l2, c)
<1> DEFINE i2 == IndexAfter(l.index, c)
           k2 == KeysAfter(l.index, l.mks, c)
<1>1. DOMAIN l = {"ratchet", "chain", "index", "mks"} /\ WellKept(l.index, l.mks, 0)
  BY DEF LinkOK
<1>2. TakenFrom(l.index, l.mks, 0, c, i2, k2)
  BY <1>1, TakeKey
<1> HIDE DEF i2, k2
<1>3. l2 = [l EXCEPT !.index = i2, !.mks = k2]
  BY DEF LinkAfter, i2, k2
<1>4. /\ DOMAIN l2 = {"ratchet", "chain", "index", "mks"}
      /\ l2.index = i2 /\ l2.mks = k2 /\ l2.chain = l.chain
  BY <1>1, <1>3
<1>5. /\ WellKept(i2, k2, 0) /\ c < i2 /\ l.index <= i2 /\ c \notin Keys(k2)
      /\ \A d \in Nat : d < l.index /\ d \notin Keys(l.mks) => d \notin Keys(k2)
  BY <1>2 DEF TakenFrom
<1>6. LinkOK(l2, root, N)
  BY <1>4, <1>5 DEF LinkOK
<1>7. i2 \in Nat /\ k2 \in Seq(Nat) /\ l.index \in Nat /\ l.mks \in Seq(Nat)
  BY <1>1, <1>5 DEF WellKept
<1>8. ~LinkYields(l2, c)
  BY <1>4, <1>5, <1>7, HasIsValue DEF LinkYields
<1>9. ASSUME NEW d \in Nat, LinkYields(l2, d)
      PROVE  LinkYields(l, d)
  <2>1. i2 <= d \/ d \in Keys(k2)
    BY <1>4, <1>7, <1>9, HasIsValue DEF LinkYields
  <2>2. l.index <= d \/ d \in Keys(l.mks)
    BY <1>5, <1>7, <2>1
  <2> QED BY <1>7, <2>2, HasIsValue DEF LinkYields
<1> QED BY <1>4, <1>6, <1>8, <1>9 DEF Took

(* g is f with e at k.                                                     *)
Replaced(f, g, k, e) ==
  /\ IsSeq(g) /\ Len(g) = Len(f) /\ g[k] = e
  /\ \A i \in 1..Len(f) : i # k => g[i] = f[i]

LEMMA ReplaceShape ==
  ASSUME NEW S, NEW s \in Seq(S), NEW k \in 1..Len(s), NEW x \in S,
         NEW t, t = [s EXCEPT ![k] = x]
  PROVE  /\ t \in Seq(S) /\ Len(t) = Len(s) /\ t[k] = x
         /\ \A j \in 1..Len(s) : j # k => t[j] = s[j]
OBVIOUS

LEMMA ReplaceOne ==
  ASSUME NEW f, IsSeq(f), NEW k \in 1..Len(f), NEW e, NEW g, g = [f EXCEPT ![k] = e]
  PROVE  Replaced(f, g, k, e)
<1>1. PICK X : f \in Seq(X)
  BY DEF IsSeq
<1> DEFINE Y == X \union {e}
<1>2. f \in Seq(Y) /\ e \in Y
  BY <1>1
<1> HIDE DEF Y
<1>3. /\ g \in Seq(Y) /\ Len(g) = Len(f) /\ g[k] = e
      /\ \A i \in 1..Len(f) : i # k => g[i] = f[i]
  BY <1>2, ReplaceShape
<1>4. IsSeq(g)
  BY <1>3 DEF IsSeq
<1> QED BY <1>3, <1>4 DEF Replaced

(* recv2 is recv after the key of counter c of chain ch was taken.         *)
TookFrom(recv, recv2, ch, c) ==
  /\ \E k \in 1..Len(recv2) : recv2[k].chain = ch
  /\ ~Yields(recv2, ch, c)
  /\ \A k \in 1..Len(recv2) :
       \/ recv2[k].chain = ch
       \/ \E l \in 1..Len(recv) : recv2[k].chain = recv[l].chain
  /\ \A x : \A d \in Nat : Yields(recv2, x, d) => Yields(recv, x, d) \/ x = ch

LEMMA LinksKept ==
  ASSUME NEW recv, NEW root, NEW N, LinksOK(recv, root, N), NEW c \in Nat,
         NEW k \in 1..Len(recv), Answer(recv[k].index, recv[k].mks, c) = Success,
         NEW recv2, recv2 = [recv EXCEPT ![k] = LinkAfter(recv[k], c)]
  PROVE  /\ LinksOK(recv2, root, N) /\ TookFrom(recv, recv2, recv[k].chain, c)
         /\ \A x : \A d \in Nat : Yields(recv2, x, d) => Yields(recv, x, d)
         /\ Yields(recv, recv[k].chain, c)
<1> DEFINE e == LinkAfter(recv[k], c)
<1>1. IsSeq(recv) /\ LinkOK(recv[k], root, N)
  BY DEF LinksOK
<1>2. LinkOK(e, root, N) /\ Took(recv[k], e, c)
  BY <1>1, LinkStep
<1> HIDE DEF e
<1>3. recv2 = [recv EXCEPT ![k] = e]
  BY DEF e
<1>4. /\ IsSeq(recv2) /\ Len(recv2) = Len(recv) /\ recv2[k] = e
      /\ \A i \in 1..Len(recv) : i # k => recv2[i] = recv[i]
  <2>1. Replaced(recv, recv2, k, e)
    BY <1>1, <1>3, ReplaceOne
  <2> QED BY <2>1 DEF Replaced
<1>5. \A i \in 1..Len(recv) : LinkOK(recv2[i], root, N) /\ recv2[i].chain = recv[i].chain
  BY <1>2, <1>4 DEF LinksOK, Took
<1>6. LinksOK(recv2, root, N)
  BY <1>4, <1>5 DEF LinksOK
<1>7. ASSUME NEW i \in 1..Len(recv), NEW d \in Nat, LinkYields(recv2[i], d)
      PROVE  LinkYields(recv[i], d)
  BY <1>2, <1>4, <1>7 DEF Took
<1>8. ASSUME NEW x, NEW d \in Nat, Yields(recv2, x, d)
      PROVE  Yields(recv, x, d)
  BY <1>4, <1>5, <1>7, <1>8 DEF Yields
<1>9. ~Yields(recv2, recv[k].chain, c)
  <2> SUFFICES ASSUME NEW i \in 1..Len(recv2), recv2[i].chain = recv[k].chain,
                      LinkYields(recv2[i], c)
               PROVE  FALSE
    BY DEF Yields
  <2>1. recv[i].chain = recv[k].chain
    BY <1>4, <1>5
  <2>2. i = k
    BY <1>4, <2>1 DEF LinksOK
  <2> QED BY <1>2, <1>4, <2>2 DEF Took
<1>10. TookFrom(recv, recv2, recv[k].chain, c)
  BY <1>4, <1>5, <1>8, <1>9 DEF TookFrom
<1>11. Yields(recv, recv[k].chain, c)
  <2>1. WellKept(recv[k].index, recv[k].mks, 0)
    BY <1>1 DEF LinkOK
  <2>2. recv[k].index \in Nat
    BY <2>1 DEF WellKept
  <2>3. LinkYields(recv[k], c)
    BY <2>2 DEF LinkYields, Answer, Success, Duplicate
  <2> QED BY <2>3 DEF Yields
<1> QED BY <1>6, <1>8, <1>10, <1>11

LEMMA TwoMore ==
  ASSUME NEW n \in Nat, NEW k \in Nat
  PROVE  (n + k) % 2 = 1 => (n + (k + 2)) % 2 = 1
OBVIOUS

(* The chain of a turn of the ratchet, added and used at once.             *)
LEMMA LinksTurned ==
  ASSUME NEW recv, NEW root, NEW root2, NEW N, LinksOK(recv, root, N),
         NEW ch, NEW r, NEW c \in Nat, Answer(0, <<>>, c) = Success,
         root2[1] = root[1], Len(root) \in Nat, Len(root2) = Len(root) + 2,
         IsSeq(ch), Len(ch) = Len(root) + 1, Len(root) >= 1, ch[1] = root[1],
         KnownIn(Newest(ch), N),
         \A k \in 1..Len(recv) : recv[k].chain # ch,
         NEW all, all = AddReceiverChain(recv, r, ch),
         NEW recv2, recv2 = [all EXCEPT ![Len(all)] = LinkAfter(EmptyLink(r, ch), c)]
  PROVE  LinksOK(recv2, root2, N) /\ TookFrom(recv, recv2, ch, c)
<1> DEFINE l == EmptyLink(r, ch)
           e == LinkAfter(l, c)
           n == Len(all)
<1>1. IsSeq(recv) /\ Len(recv) <= MaxReceiverChains /\ Len(recv) \in Nat
  BY LenNat DEF LinksOK
<1>2. AddedTo(recv, all, l)
  BY <1>1, AddChain
<1>3. /\ DOMAIN l = {"ratchet", "chain", "index", "mks"}
      /\ l.chain = ch /\ l.index = 0 /\ l.mks = <<>>
  BY DEF EmptyLink
<1>4. WellKept(0, <<>>, 0)
  BY KeyBounds DEF WellKept, Below, Spread, Values
<1>5. (Len(ch) + Len(root2)) % 2 = 1
  OBVIOUS
<1>6. LinkOK(l, root2, N)
  BY <1>3, <1>4, <1>5 DEF LinkOK
<1> HIDE DEF l
<1>7. LinkOK(e, root2, N) /\ Took(l, e, c)
  BY <1>3, <1>6, LinkStep
<1> HIDE DEF e
<1>8. IsSeq(all) /\ n \in Nat /\ n >= 1 /\ n <= MaxReceiverChains /\ all[n] = l
  BY <1>2, LenNat DEF AddedTo
<1>9. PICK x \in {0, 1} : /\ n = Len(recv) + 1 - x
                          /\ \A k \in 1..(n - 1) : all[k] = recv[k + x]
  BY <1>2 DEF AddedTo
<1> HIDE DEF n
<1>10. n \in 1..n
  BY <1>8
<1>11. /\ IsSeq(recv2) /\ Len(recv2) = n /\ recv2[n] = e
       /\ \A i \in 1..n : i # n => recv2[i] = all[i]
  <2>1. recv2 = [all EXCEPT ![n] = e] /\ n \in 1..Len(all)
    BY <1>10 DEF e, l, n
  <2>2. Replaced(all, recv2, n, e)
    BY <1>8, <2>1, ReplaceOne
  <2> QED BY <2>2 DEF Replaced, n
<1>12. ASSUME NEW i \in 1..(n - 1)
       PROVE  i + x \in 1..Len(recv) /\ recv2[i] = recv[i + x]
  <2>1. i \in 1..n /\ i # n
    BY <1>8
  <2>2. recv2[i] = all[i] /\ all[i] = recv[i + x]
    BY <1>9, <1>11, <2>1
  <2>3. i + x \in 1..Len(recv)
    BY <1>1, <1>9, SMTT(30)
  <2> QED BY <2>2, <2>3
<1>13. e.chain = ch
  BY <1>3, <1>7 DEF Took
<1>14. ASSUME NEW i \in 1..Len(recv)
       PROVE  LinkOK(recv[i], root2, N)
  <2>1. LinkOK(recv[i], root, N)
    BY DEF LinksOK
  <2>2. IsSeq(recv[i].chain) /\ (Len(recv[i].chain) + Len(root)) % 2 = 1
    BY <2>1 DEF LinkOK
  <2>3. Len(recv[i].chain) \in Nat
    BY <2>2, LenNat
  <2>4. (Len(recv[i].chain) + Len(root2)) % 2 = 1
    BY <2>2, <2>3, TwoMore
  <2> QED BY <2>1, <2>4 DEF LinkOK
<1>15. ASSUME NEW i \in 1..n
       PROVE  LinkOK(recv2[i], root2, N)
  <2>1. CASE i = n
    BY <1>7, <1>11, <2>1
  <2>2. CASE i # n
    <3>1. i \in 1..(n - 1)
      BY <1>8, <2>2
    <3> QED BY <1>12, <1>14, <3>1
  <2> QED BY <2>1, <2>2
<1>16. ASSUME NEW i \in 1..(n - 1)
       PROVE  recv2[i].chain # ch
  BY <1>12
<1>17. ASSUME NEW i \in 1..n, NEW j \in 1..n, recv2[i].chain = recv2[j].chain
       PROVE  i = j
  <2>1. CASE i = n
    <3>1. j \notin 1..(n - 1)
      BY <1>11, <1>13, <1>16, <1>17, <2>1
    <3> QED BY <1>8, <2>1, <3>1
  <2>2. CASE j = n
    <3>1. i \notin 1..(n - 1)
      BY <1>11, <1>13, <1>16, <1>17, <2>2
    <3> QED BY <1>8, <2>2, <3>1
  <2>3. CASE i # n /\ j # n
    <3>1. i \in 1..(n - 1) /\ j \in 1..(n - 1)
      BY <1>8, <2>3
    <3>2. recv[i + x].chain = recv[j + x].chain /\ i + x \in 1..Len(recv) /\ j + x \in 1..Len(recv)
      BY <1>12, <1>17, <3>1
    <3>3. i + x = j + x
      BY <3>2 DEF LinksOK
    <3> QED BY <3>1, <3>3
  <2> QED BY <2>1, <2>2, <2>3
<1>18. LinksOK(recv2, root2, N)
  BY <1>8, <1>11, <1>15, <1>17 DEF LinksOK
<1>19. \E k \in 1..Len(recv2) : recv2[k].chain = ch
  BY <1>10, <1>11, <1>13
<1>20. ~Yields(recv2, ch, c)
  <2> SUFFICES ASSUME NEW i \in 1..n, recv2[i].chain = ch, LinkYields(recv2[i], c)
               PROVE  FALSE
    BY <1>11 DEF Yields
  <2>1. i = n
    BY <1>8, <1>16
  <2> QED BY <1>7, <1>11, <2>1 DEF Took
<1>21. ASSUME NEW k \in 1..n
       PROVE  \/ recv2[k].chain = ch
              \/ \E j \in 1..Len(recv) : recv2[k].chain = recv[j].chain
  <2>1. CASE k = n
    BY <1>11, <1>13, <2>1
  <2>2. CASE k # n
    <3>1. k \in 1..(n - 1)
      BY <1>8, <2>2
    <3> QED BY <1>12, <3>1
  <2> QED BY <2>1, <2>2
<1>22. ASSUME NEW y, NEW d \in Nat, Yields(recv2, y, d), y # ch
       PROVE  Yields(recv, y, d)
  <2>1. PICK k \in 1..n : recv2[k].chain = y /\ LinkYields(recv2[k], d)
    BY <1>11, <1>22 DEF Yields
  <2>2. k # n
    BY <1>11, <1>13, <1>22, <2>1
  <2>3. k \in 1..(n - 1)
    BY <1>8, <2>2
  <2> QED BY <1>12, <2>1, <2>3 DEF Yields
<1>23. TookFrom(recv, recv2, ch, c)
  BY <1>11, <1>19, <1>20, <1>21, <1>22 DEF TookFrom
<1> QED BY <1>18, <1>23

-----------------------------------------------------------------------------
(* Decrypting from one state                                               *)

(* A state whose ratchet may turn: one of a record, or the one a builder   *)
(* has just made for a pre-key message.                                    *)
Turnable(p, s, N, G) ==
  /\ DOMAIN s = StateFields
  /\ IsSeq(s.root) /\ Len(s.root) >= 1 /\ SecretOK(s.root[1], s.base, N, G)
  /\ Len(s.root) % 2 = Parity(p, s.base)
  /\ LinksOK(s.recv, s.root, N)
  /\ Alone(s)

(* A key pair p is about to make, when N counts those it has made.         *)
NewKeyOf(p, new, N, N2) ==
  /\ new \in Pub /\ new[1] = "ephemeral" /\ new[2] = p /\ new[4] = N[p] + 1
  /\ N2[p] = N[p] + 1
  /\ Grows(N, N2)

(* What becomes of state s when m is decrypted with it.                    *)
Advanced(s, s2, m, new) ==
  /\ s2.base = s.base /\ s2.root[1] = s.root[1]
  /\ TookFrom(s.recv, s2.recv, m.chain, m.counter)
  /\ \/ /\ s2.ratchet = s.ratchet /\ s2.chain = s.chain /\ s2.index = s.index
        /\ \A x : \A d \in Nat : Yields(s2.recv, x, d) => Yields(s.recv, x, d)
        /\ Yields(s.recv, m.chain, m.counter)
     \/ /\ s2.ratchet = new /\ new \in Newest(s2.chain)
        /\ Newest(m.chain) = {m.ratchet, s.ratchet}

LEMMA TurnStep ==
  ASSUME NEW p \in Party, NEW s, NEW s2, NEW m, NEW new, NEW N, NEW N2, NEW G,
         Turnable(p, s, N, G), MsgOK(m, N, G), m.to = p, NewKeyOf(p, new, N, N2),
         Grows(G, G), TurnedChain(s, s2, m, new)
  PROVE  StateOK(p, s2, N2, G) /\ Advanced(s, s2, m, new)
<1> DEFINE L == Len(s.root)
<1>1. /\ IsSeq(s.root) /\ L >= 1 /\ SecretOK(s.root[1], s.base, N, G)
      /\ L % 2 = Parity(p, s.base) /\ DOMAIN s = StateFields
      /\ LinksOK(s.recv, s.root, N)
  BY DEF Turnable
<1>2. L \in Nat
  BY <1>1, LenNat
<1>3. /\ DOMAIN s2 = StateFields /\ s2.base = s.base /\ s2.pending = NoPending
      /\ s2.chain = s2.root /\ s2.index = 0 /\ s2.ratchet = new
      /\ m.chain = Append(s.root, {m.ratchet, s.ratchet})
      /\ s2.root = Append(m.chain, {m.ratchet, new})
      /\ Answer(0, <<>>, m.counter) = Success
  BY <1>1 DEF TurnedChain, SameSession, CreateChain, Agreement
<1>4. /\ IsSeq(m.chain) /\ Len(m.chain) = L + 1 /\ m.chain[1] = s.root[1]
      /\ Newest(m.chain) = {m.ratchet, s.ratchet}
  <2>1. Extends(s.root, m.chain, {m.ratchet, s.ratchet})
    BY <1>1, <1>3, AppendPath
  <2> QED BY <2>1 DEF Extends
<1>5. /\ IsSeq(s2.root) /\ Len(s2.root) = L + 2 /\ s2.root[1] = s.root[1]
      /\ Newest(s2.root) = {m.ratchet, new}
  <2>1. Len(m.chain) >= 1
    BY <1>2, <1>4
  <2>2. Extends(m.chain, s2.root, {m.ratchet, new})
    BY <1>3, <1>4, <2>1, AppendPath
  <2> HIDE DEF L
  <2> QED BY <1>2, <1>4, <2>2 DEF Extends
<1>6. KnownIn(Newest(m.chain), N) /\ m.counter \in Nat /\ m.ratchet \in Pub /\ m.ratchet[2] # p
  BY DEF MsgOK
<1>7. \A k \in 1..Len(s.recv) : s.recv[k].chain # m.chain
  BY <1>4 DEF Turnable, Alone
<1>8. LinksOK(s2.recv, s2.root, N) /\ TookFrom(s.recv, s2.recv, m.chain, m.counter)
  <2> DEFINE all == AddReceiverChain(s.recv, m.ratchet, m.chain)
  <2>1. s2.recv = [all EXCEPT ![Len(all)] = LinkAfter(EmptyLink(m.ratchet, m.chain), m.counter)]
    BY Zenon DEF TurnedChain
  <2>2. all = AddReceiverChain(s.recv, m.ratchet, m.chain)
    OBVIOUS
  <2> HIDE DEF all, L
  <2>3. Len(m.chain) = Len(s.root) + 1 /\ Len(s2.root) = Len(s.root) + 2 /\ Len(s.root) \in Nat
        /\ Len(s.root) >= 1
    BY <1>1, <1>2, <1>4, <1>5 DEF L
  <2> DEFINE recv == s.recv
             root == s.root
             root2 == s2.root
             recv2 == s2.recv
             ch == m.chain
             r == m.ratchet
             c == m.counter
  <2>4. /\ LinksOK(recv, root, N) /\ c \in Nat /\ Answer(0, <<>>, c) = Success
        /\ root2[1] = root[1] /\ Len(root) \in Nat /\ Len(root2) = Len(root) + 2
        /\ IsSeq(ch) /\ Len(ch) = Len(root) + 1 /\ Len(root) >= 1 /\ ch[1] = root[1]
        /\ KnownIn(Newest(ch), N)
        /\ \A k \in 1..Len(recv) : recv[k].chain # ch
    BY <1>1, <1>3, <1>4, <1>5, <1>6, <1>7, <2>3
  <2>5. /\ all = AddReceiverChain(recv, r, ch)
        /\ recv2 = [all EXCEPT ![Len(all)] = LinkAfter(EmptyLink(r, ch), c)]
    BY <2>1, <2>2
  <2> HIDE DEF recv, root, root2, recv2, ch, r, c
  <2>6. LinksOK(recv2, root2, N) /\ TookFrom(recv, recv2, ch, c)
    BY <2>4, <2>5, LinksTurned
  <2> QED BY <2>6 DEF recv, root, root2, recv2, ch, r, c
<1> HIDE DEF L
<1>9. Grows(N, N2)
  BY DEF NewKeyOf
<1>10. LinksOK(s2.recv, s2.root, N2)
  BY <1>8, <1>9, LinksGrow
<1>11. SecretOK(s2.root[1], s2.base, N2, G)
  BY <1>1, <1>3, <1>5, <1>9, SecretGrows
<1>12. L % 2 = (L + 2) % 2
  BY <1>2
<1>13. Len(s2.root) % 2 = Parity(p, s2.base)
  BY <1>1, <1>3, <1>5, <1>12
<1>14. new \in Pub /\ new[1] = "ephemeral" /\ new[2] = p /\ new[4] = N2[p] /\ N2[p] \in Nat
  BY DEF NewKeyOf, Grows
<1>15. KnownIn(Newest(m.chain), N2)
  BY <1>6, <1>9, KnownGrows
<1>16. KnownIn(Newest(s2.root), N2)
  <2>1. ASSUME NEW k \in {m.ratchet, new}
        PROVE  k \in Pub /\ (k[1] = "ephemeral" => k[4] <= N2[k[2]])
    <3>1. CASE k = new
      BY <1>14, <3>1
    <3>2. CASE k = m.ratchet
      BY <1>4, <1>15, <3>2 DEF KnownIn
    <3> QED BY <3>1, <3>2
  <2> QED BY <1>5, <2>1 DEF KnownIn
<1>17. \E t \in Newest(s2.root) : t \in Pub /\ t[2] # p /\ Newest(s2.root) = {t, s2.ratchet}
  <2>1. m.ratchet \in Newest(s2.root) /\ Newest(s2.root) = {m.ratchet, s2.ratchet}
    BY <1>3, <1>5
  <2> QED BY <1>6, <2>1
<1>18. s2.pending.base = NoKey
  BY <1>3 DEF NoPending
<1>19. Len(s2.root) >= 2
  BY <1>2, <1>5
<1>20. s2.index \in Nat
  BY <1>3
<1>21. SenderOK(p, s2, N2, G)
  BY <1>3, <1>5, <1>11, <1>13, <1>14, <1>16, <1>17, <1>18, <1>19, <1>20 DEF SenderOK
<1>22. StateOK(p, s2, N2, G)
  BY <1>3, <1>10, <1>21 DEF StateOK
<1>23. new \in Newest(s2.chain)
  BY <1>3, <1>5
<1>24. Advanced(s, s2, m, new)
  BY <1>3, <1>4, <1>5, <1>8, <1>23 DEF Advanced
<1> QED BY <1>22, <1>24

LEMMA KeepStep ==
  ASSUME NEW p, NEW s, NEW s2, NEW m, NEW new, NEW N, NEW N2, NEW G,
         StateOK(p, s, N, G), m.counter \in Nat, Grows(N, N2), Grows(G, G),
         NEW k \in 1..Len(s.recv), KeptChain(s, s2, m, k)
  PROVE  StateOK(p, s2, N2, G) /\ Advanced(s, s2, m, new)
<1>1. LinksOK(s.recv, s.root, N) /\ SenderOK(p, s, N, G) /\ DOMAIN s = StateFields
  BY DEF StateOK
<1>2. /\ DOMAIN s2 = StateFields /\ s2.base = s.base /\ s2.pending = NoPending
      /\ s.recv[k].chain = m.chain
      /\ Answer(s.recv[k].index, s.recv[k].mks, m.counter) = Success
      /\ s2.recv = [s.recv EXCEPT ![k] = LinkAfter(s.recv[k], m.counter)]
      /\ s2.root = s.root /\ s2.chain = s.chain /\ s2.index = s.index /\ s2.ratchet = s.ratchet
  BY <1>1 DEF KeptChain, SameSession
<1>3. /\ LinksOK(s2.recv, s.root, N) /\ TookFrom(s.recv, s2.recv, m.chain, m.counter)
      /\ \A x : \A d \in Nat : Yields(s2.recv, x, d) => Yields(s.recv, x, d)
      /\ Yields(s.recv, m.chain, m.counter)
  <2> DEFINE recv2 == s2.recv
             ch == m.chain
  <2>1. recv2 = [s.recv EXCEPT ![k] = LinkAfter(s.recv[k], m.counter)] /\ ch = s.recv[k].chain
    BY <1>2
  <2> HIDE DEF recv2, ch
  <2>2. /\ LinksOK(recv2, s.root, N) /\ TookFrom(s.recv, recv2, s.recv[k].chain, m.counter)
        /\ \A x : \A d \in Nat : Yields(recv2, x, d) => Yields(s.recv, x, d)
        /\ Yields(s.recv, s.recv[k].chain, m.counter)
    BY <1>1, <1>2, <2>1, LinksKept, SMTT(30)
  <2> QED BY <2>1, <2>2 DEF recv2, ch
<1>4. s2.pending.base = NoKey
  BY <1>2 DEF NoPending
<1>5. SenderOK(p, s2, N, G)
  BY <1>1, <1>2, <1>4 DEF SenderOK
<1>6. StateOK(p, s2, N, G)
  BY <1>2, <1>3, <1>5 DEF StateOK
<1>7. StateOK(p, s2, N2, G)
  BY <1>6, StateGrows
<1>8. Advanced(s, s2, m, new)
  BY <1>2, <1>3 DEF Advanced
<1> QED BY <1>7, <1>8

-----------------------------------------------------------------------------
(* Rebuilding a record                                                     *)

(* Record r2 has s2 as its current state and, archived, different states   *)
(* of r, none of them at a place in F.                                     *)
Rebuilt(r, r2, s2, F) ==
  /\ DOMAIN r2 = {"cur", "prev"} /\ r2.cur = s2
  /\ IsSeq(r2.prev) /\ Len(r2.prev) <= MaxArchivedStates
  /\ \E g \in [1..Len(r2.prev) -> Slots(r) \ F] :
       /\ \A i, j \in 1..Len(r2.prev) : g[i] = g[j] => i = j
       /\ \A i \in 1..Len(r2.prev) : r2.prev[i] = At(r, g[i])

LEMMA RebuiltStates ==
  ASSUME NEW r, NEW r2, NEW s2, NEW F, Rebuilt(r, r2, s2, F), NEW i \in Slots(r2)
  PROVE  At(r2, i) = s2 \/ \E j \in Slots(r) \ F : At(r2, i) = At(r, j)
<1>1. IsSeq(r2.prev) /\ r2.cur = s2
  BY DEF Rebuilt
<1>2. Len(r2.prev) \in Nat
  BY <1>1, LenNat
<1>3. PICK g \in [1..Len(r2.prev) -> Slots(r) \ F] :
        \A k \in 1..Len(r2.prev) : r2.prev[k] = At(r, g[k])
  BY DEF Rebuilt
<1>4. CASE i = 0
  BY <1>1, <1>4 DEF At
<1>5. CASE i # 0
  <2>1. i \in 1..Len(r2.prev)
    BY <1>2, <1>5 DEF Slots
  <2>2. At(r2, i) = r2.prev[i]
    BY <1>5 DEF At
  <2>3. g[i] \in Slots(r) \ F
    BY <1>3, <2>1
  <2> QED BY <1>3, <2>1, <2>2, <2>3
<1> QED BY <1>4, <1>5

LEMMA CutSeq ==
  ASSUME NEW X, NEW s \in Seq(X), NEW n \in 0..Len(s)
  PROVE  /\ SubSeq(s, 1, n) \in Seq(X) /\ Len(SubSeq(s, 1, n)) = n
         /\ \A i \in 1..n : SubSeq(s, 1, n)[i] = s[i]
OBVIOUS

LEMMA FrontSeq ==
  ASSUME NEW X, NEW s \in Seq(X), NEW e \in X
  PROVE  /\ <<e>> \o s \in Seq(X) /\ Len(<<e>> \o s) = Len(s) + 1
         /\ (<<e>> \o s)[1] = e
         /\ \A i \in 1..Len(s) : (<<e>> \o s)[i + 1] = s[i]
OBVIOUS

LEMMA JoinSeq ==
  ASSUME NEW X, NEW u \in Seq(X), NEW v \in Seq(X)
  PROVE  /\ u \o v \in Seq(X)
         /\ Len(u \o v) = Len(u) + Len(v)
         /\ \A i \in 1..Len(u) : (u \o v)[i] = u[i]
         /\ \A i \in 1..Len(v) : (u \o v)[Len(u) + i] = v[i]
OBVIOUS

(* r2 has s2 as its current state, and the states of r moved up one place. *)
Promoted(r, r2, s2) ==
  /\ DOMAIN r2 = {"cur", "prev"} /\ r2.cur = s2
  /\ IsSeq(r2.prev) /\ Len(r2.prev) <= MaxArchivedStates
  /\ Len(r2.prev) <= Len(r.prev) + 1
  /\ \A i \in 1..Len(r2.prev) : r2.prev[i] = At(r, i - 1)

(* session_record_promote_state *)
LEMMA PromoteShape ==
  ASSUME NEW r, IsSeq(r.prev), NEW s2, NEW r2, r2 = PromoteState(r, s2)
  PROVE  Promoted(r, r2, s2)
<1> DEFINE prev == r.prev
           all == <<r.cur>> \o prev
           n == IF Len(all) > MaxArchivedStates THEN MaxArchivedStates ELSE Len(all)
<1>0. MaxArchivedStates \in Nat
  BY RecordBounds
<1>1. r2 = [cur |-> s2, prev |-> SubSeq(all, 1, n)]
  BY DEF PromoteState
<1>2. PICK X : prev \in Seq(X)
  BY DEF IsSeq
<1> DEFINE Y == X \union {r.cur}
<1>3. prev \in Seq(Y) /\ r.cur \in Y
  BY <1>2
<1> HIDE DEF Y
<1>4. /\ all \in Seq(Y) /\ Len(all) = Len(prev) + 1 /\ all[1] = r.cur
      /\ \A i \in 1..Len(prev) : all[i + 1] = prev[i]
  BY <1>3, FrontSeq
<1>5. Len(prev) \in Nat
  BY <1>3
<1> HIDE DEF all
<1>6. n \in 0..Len(all) /\ n <= MaxArchivedStates /\ n <= Len(prev) + 1
  BY <1>0, <1>4, <1>5
<1> HIDE DEF n
<1>7. /\ SubSeq(all, 1, n) \in Seq(Y) /\ Len(SubSeq(all, 1, n)) = n
      /\ \A i \in 1..n : SubSeq(all, 1, n)[i] = all[i]
  BY <1>4, <1>6, CutSeq
<1>8. DOMAIN r2 = {"cur", "prev"} /\ r2.cur = s2 /\ r2.prev = SubSeq(all, 1, n)
  <2> DEFINE q == SubSeq(all, 1, n)
  <2>1. r2 = [cur |-> s2, prev |-> q]
    BY <1>1
  <2> HIDE DEF q
  <2>2. DOMAIN r2 = {"cur", "prev"} /\ r2.cur = s2 /\ r2.prev = q
    BY <2>1
  <2> QED BY <2>2 DEF q
<1>9. ASSUME NEW i \in 1..n
      PROVE  all[i] = At(r, i - 1)
  <2>1. CASE i = 1
    BY <1>4, <2>1 DEF At
  <2>2. CASE i # 1
    <3> DEFINE j == i - 1
    <3>1. j \in 1..Len(prev) /\ j # 0 /\ i = j + 1
      BY <1>4, <1>5, <1>6, <2>2
    <3> HIDE DEF j
    <3>2. all[i] = prev[j]
      BY <1>4, <3>1
    <3>3. At(r, j) = prev[j]
      BY <3>1 DEF At
    <3> QED BY <3>2, <3>3 DEF j
  <2> QED BY <2>1, <2>2
<1> QED
  BY <1>6, <1>7, <1>8, <1>9 DEF IsSeq, Promoted

(* An archived state that moves out of the archive.                        *)
LEMMA RemoveAtShape ==
  ASSUME NEW f, IsSeq(f), NEW k \in 1..Len(f), NEW g, g = RemoveAt(f, k)
  PROVE  /\ IsSeq(g) /\ Len(g) = Len(f) - 1
         /\ \A i \in 1..Len(g) : g[i] = f[IF i < k THEN i ELSE i + 1]
<1>1. PICK X : f \in Seq(X)
  BY DEF IsSeq
<1>2. g = SubSeq(f, 1, k - 1) \o SubSeq(f, k + 1, Len(f))
  BY DEF RemoveAt
<1> DEFINE u == SubSeq(f, 1, k - 1)
           v == SubSeq(f, k + 1, Len(f))
<1>3. u \in Seq(X) /\ Len(u) = k - 1 /\ \A i \in 1..(k - 1) : u[i] = f[i]
  BY <1>1
<1>4. v \in Seq(X) /\ Len(v) = Len(f) - k /\ \A i \in 1..(Len(f) - k) : v[i] = f[i + k]
  BY <1>1
<1>5. Len(f) \in Nat
  BY <1>1
<1>6. g = u \o v
  BY <1>2
<1> HIDE DEF u, v
<1>7. /\ g \in Seq(X) /\ Len(g) = Len(u) + Len(v)
      /\ \A i \in 1..Len(u) : g[i] = u[i]
      /\ \A i \in 1..Len(v) : g[Len(u) + i] = v[i]
  <2>1. u \in Seq(X) /\ v \in Seq(X)
    BY <1>3, <1>4
  <2>2. /\ u \o v \in Seq(X)
        /\ Len(u \o v) = Len(u) + Len(v)
        /\ \A i \in 1..Len(u) : (u \o v)[i] = u[i]
        /\ \A i \in 1..Len(v) : (u \o v)[Len(u) + i] = v[i]
    BY <2>1, JoinSeq
  <2> QED BY <1>6, <2>2
<1>8. Len(g) = Len(f) - 1
  BY <1>3, <1>4, <1>5, <1>7
<1>9. ASSUME NEW i \in 1..Len(g)
      PROVE  g[i] = f[IF i < k THEN i ELSE i + 1]
  <2>1. CASE i < k
    BY <1>3, <1>5, <1>7, <2>1
  <2>2. CASE ~(i < k)
    <3> DEFINE j == i - (k - 1)
    <3>1. j \in 1..(Len(f) - k) /\ Len(u) + j = i /\ j + k = i + 1
      BY <1>3, <1>5, <1>8, <2>2
    <3> HIDE DEF j
    <3>2. g[Len(u) + j] = v[j] /\ v[j] = f[j + k]
      BY <1>4, <1>7, <3>1
    <3> QED BY <2>2, <3>1, <3>2
  <2> QED BY <2>1, <2>2
<1> QED BY <1>7, <1>8, <1>9 DEF IsSeq

LEMMA RebuiltBy ==
  ASSUME NEW r, NEW r2, NEW s2, NEW F,
         DOMAIN r2 = {"cur", "prev"}, r2.cur = s2,
         IsSeq(r2.prev), Len(r2.prev) <= MaxArchivedStates,
         NEW g \in [1..Len(r2.prev) -> Slots(r) \ F],
         \A i, j \in 1..Len(r2.prev) : g[i] = g[j] => i = j,
         \A i \in 1..Len(r2.prev) : r2.prev[i] = At(r, g[i])
  PROVE  Rebuilt(r, r2, s2, F)
BY DEF Rebuilt

(* A builder archives what was current and puts its own state there.       *)
LEMMA ArchivedIn ==
  ASSUME NEW r, IsSeq(r.prev), NEW s2, NEW r2, r # FreshRecord,
         r2 = [ArchiveCurrentState(r) EXCEPT !.cur = s2]
  PROVE  Rebuilt(r, r2, s2, {})
<1> DEFINE q == PromoteState(r, EmptyState)
           n == Len(r2.prev)
           g == [i \in 1..n |-> i - 1]
<1>1. r2 = [q EXCEPT !.cur = s2]
  BY DEF ArchiveCurrentState
<1>2. /\ DOMAIN q = {"cur", "prev"}
      /\ IsSeq(q.prev) /\ Len(q.prev) <= MaxArchivedStates
      /\ Len(q.prev) <= Len(r.prev) + 1
      /\ \A i \in 1..Len(q.prev) : q.prev[i] = At(r, i - 1)
  BY PromoteShape DEF Promoted
<1> HIDE DEF q
<1>3. DOMAIN r2 = {"cur", "prev"} /\ r2.cur = s2 /\ r2.prev = q.prev
  BY <1>1, <1>2
<1>4. Len(r.prev) \in Nat /\ n \in Nat /\ n <= Len(r.prev) + 1
  BY <1>2, <1>3, LenNat
<1>5. \A i \in 1..n : i - 1 \in Slots(r)
  BY <1>4 DEF Slots
<1>6. g \in [1..n -> Slots(r) \ {}]
  BY <1>5
<1>7. \A i \in 1..n : g[i] = i - 1
  OBVIOUS
<1> HIDE DEF g
<1>8. \A i, j \in 1..n : g[i] = g[j] => i = j
  BY <1>4, <1>7
<1>9. \A i \in 1..n : r2.prev[i] = At(r, g[i])
  BY <1>2, <1>3, <1>7
<1>10. IsSeq(r2.prev) /\ Len(r2.prev) <= MaxArchivedStates
  BY <1>2, <1>3
<1> QED
  BY <1>3, <1>6, <1>8, <1>9, <1>10, RebuiltBy

(* The current state is replaced.                                          *)
LEMMA ReplacedIn ==
  ASSUME NEW r, IsSeq(r.prev), Len(r.prev) <= MaxArchivedStates, DOMAIN r = {"cur", "prev"},
         NEW s2, NEW r2, r2 = [r EXCEPT !.cur = s2]
  PROVE  Rebuilt(r, r2, s2, {0})
<1> DEFINE n == Len(r2.prev)
           g == [i \in 1..n |-> i]
<1>1. DOMAIN r2 = {"cur", "prev"} /\ r2.cur = s2 /\ r2.prev = r.prev
  OBVIOUS
<1>2. n \in Nat /\ n = Len(r.prev)
  BY <1>1, LenNat
<1>3. \A i \in 1..n : i \in Slots(r) \ {0}
  BY <1>2 DEF Slots
<1>4. g \in [1..n -> Slots(r) \ {0}] /\ \A i \in 1..n : g[i] = i
  BY <1>3
<1> HIDE DEF g
<1>5. \A i \in 1..n : r2.prev[i] = At(r, g[i])
  BY <1>1, <1>2, <1>4 DEF At
<1>6. \A i, j \in 1..n : g[i] = g[j] => i = j
  BY <1>4
<1>7. IsSeq(r2.prev) /\ Len(r2.prev) <= MaxArchivedStates
  BY <1>1
<1> QED BY <1>1, <1>4, <1>5, <1>6, <1>7 DEF Rebuilt

(* An archived state becomes current, advanced.                            *)
LEMMA PromotedIn ==
  ASSUME NEW r, IsSeq(r.prev), DOMAIN r = {"cur", "prev"},
         NEW f \in 1..Len(r.prev), NEW s2, NEW r2,
         r2 = PromoteState([r EXCEPT !.prev = RemoveAt(r.prev, f)], s2)
  PROVE  Rebuilt(r, r2, s2, {f})
<1> DEFINE rest == RemoveAt(r.prev, f)
           w == [r EXCEPT !.prev = rest]
           n == Len(r2.prev)
           g == [i \in 1..n |-> IF i <= f THEN i - 1 ELSE i]
<1>1. /\ IsSeq(rest) /\ Len(rest) = Len(r.prev) - 1
      /\ \A i \in 1..Len(rest) : rest[i] = r.prev[IF i < f THEN i ELSE i + 1]
  BY RemoveAtShape
<1> HIDE DEF rest
<1>2. w.cur = r.cur /\ w.prev = rest
  OBVIOUS
<1>3. r2 = PromoteState(w, s2)
  BY DEF rest
<1> HIDE DEF w
<1>4. /\ DOMAIN r2 = {"cur", "prev"} /\ r2.cur = s2
      /\ IsSeq(r2.prev) /\ Len(r2.prev) <= MaxArchivedStates
      /\ Len(r2.prev) <= Len(w.prev) + 1
      /\ \A i \in 1..Len(r2.prev) : r2.prev[i] = At(w, i - 1)
  <2>1. IsSeq(w.prev)
    BY <1>1, <1>2
  <2>2. Promoted(w, r2, s2)
    BY <1>3, <2>1, PromoteShape
  <2> QED BY <2>2 DEF Promoted
<1>5. Len(r.prev) \in Nat /\ n \in Nat /\ n <= Len(r.prev)
  BY <1>1, <1>2, <1>4, LenNat
<1> DEFINE h(i) == IF i <= f THEN i - 1 ELSE i
<1>6. ASSUME NEW i \in 1..n
      PROVE  h(i) \in Slots(r) \ {f} /\ At(w, i - 1) = At(r, h(i))
  <2> DEFINE j == i - 1
  <2>1. h(i) \in Slots(r) \ {f}
    BY <1>5 DEF Slots
  <2>2. CASE i = 1
    <3>1. h(i) = 0 /\ j = 0
      BY <2>2
    <3>2. At(w, 0) = w.cur /\ At(r, 0) = r.cur
      BY DEF At
    <3> HIDE DEF h, j
    <3>3. At(w, j) = At(r, h(i))
      BY <1>2, <3>1, <3>2
    <3> QED BY <2>1, <3>3 DEF j
  <2>3. CASE i # 1 /\ i <= f
    <3>1. j \in 1..Len(rest) /\ j < f /\ j # 0 /\ h(i) = j
      BY <1>1, <1>5, <2>3
    <3> HIDE DEF j, h
    <3>2. At(w, j) = rest[j] /\ rest[j] = r.prev[j] /\ At(r, j) = r.prev[j]
      BY <1>1, <1>2, <3>1 DEF At
    <3>3. At(w, j) = At(r, h(i))
      BY <3>1, <3>2
    <3> QED BY <2>1, <3>3 DEF j
  <2>4. CASE i # 1 /\ ~(i <= f)
    <3>1. j \in 1..Len(rest) /\ ~(j < f) /\ j # 0 /\ h(i) = j + 1 /\ j + 1 # 0
      BY <1>1, <1>5, <2>4
    <3> HIDE DEF j, h
    <3>2. At(w, j) = rest[j] /\ rest[j] = r.prev[j + 1] /\ At(r, j + 1) = r.prev[j + 1]
      BY <1>1, <1>2, <3>1 DEF At
    <3>3. At(w, j) = At(r, h(i))
      BY <3>1, <3>2
    <3> QED BY <2>1, <3>3 DEF j
  <2> QED BY <2>2, <2>3, <2>4
<1>7. g \in [1..n -> Slots(r) \ {f}] /\ \A i \in 1..n : g[i] = h(i)
  BY <1>6
<1>8. \A i, j \in 1..n : h(i) = h(j) => i = j
  BY <1>5
<1> HIDE DEF g, h
<1>9. \A i, j \in 1..n : g[i] = g[j] => i = j
  BY <1>7, <1>8
<1>10. \A i \in 1..n : r2.prev[i] = At(r, g[i])
  BY <1>4, <1>6, <1>7
<1> QED BY <1>4, <1>7, <1>9, <1>10, RebuiltBy

(* session_cipher_decrypt_from_record_and_signal_message: one state        *)
(* decrypted the message and is current now, the others are as they were.  *)
DecryptedAt(r, r2, m, new, f) ==
  /\ DecryptFromState(At(r, f), m, new).code = Success
  /\ Rebuilt(r, r2, DecryptFromState(At(r, f), m, new).state, {f})
  /\ f = 0 => r2 = [r EXCEPT !.cur = DecryptFromState(At(r, f), m, new).state]

LEMMA DecryptedRecord ==
  ASSUME NEW r, IsSeq(r.prev), Len(r.prev) <= MaxArchivedStates, DOMAIN r = {"cur", "prev"},
         NEW m, NEW new, NEW r2, DecryptFromRecord(r, m, new).code = Success,
         r2 = DecryptFromRecord(r, m, new).record
  PROVE  \E f \in Slots(r) : DecryptedAt(r, r2, m, new, f)
<1> DEFINE try(i) == DecryptFromState(At(r, i), m, new)
           hits == {i \in Slots(r) : try(i).code # Invalid}
           f == CHOOSE i \in hits : \A j \in hits : i <= j
           d == DecryptFromRecord(r, m, new)
           w == [r EXCEPT !.prev = RemoveAt(r.prev, f)]
<1>1. d = IF hits = {} THEN [code |-> Invalid, record |-> r]
          ELSE IF try(f).code # Success THEN [code |-> try(f).code, record |-> r]
          ELSE [code |-> Success,
                record |-> IF f = 0 THEN [r EXCEPT !.cur = try(f).state]
                           ELSE PromoteState(w, try(f).state)]
  BY DEF DecryptFromRecord, At, Slots
<1>2. Success # Invalid /\ d.code = Success
  BY DEF Success, Invalid
<1>3. Len(r.prev) \in Nat
  BY LenNat
<1> HIDE DEF try, d, w
<1>4. hits # {}
  BY <1>1, <1>2
<1>5. hits \subseteq Nat
  BY <1>3 DEF Slots
<1>6. f \in hits
  BY <1>4, <1>5, LeastExists
<1> HIDE DEF hits, f
<1>7. f \in Slots(r)
  BY <1>6 DEF hits
<1>8. try(f).code = Success
  BY <1>1, <1>2, <1>4
<1>9. d.record = IF f = 0 THEN [r EXCEPT !.cur = try(f).state]
                 ELSE PromoteState(w, try(f).state)
  BY <1>1, <1>2, <1>4, <1>8
<1>10. Rebuilt(r, d.record, try(f).state, {f})
  <2>1. CASE f = 0
    <3>1. d.record = [r EXCEPT !.cur = try(f).state]
      BY <1>9, <2>1
    <3>2. Rebuilt(r, d.record, try(f).state, {0})
      BY <3>1, ReplacedIn
    <3> QED BY <2>1, <3>2
  <2>2. CASE f # 0
    <3>1. d.record = PromoteState([r EXCEPT !.prev = RemoveAt(r.prev, f)], try(f).state)
      BY <1>9, <2>2 DEF w
    <3>2. f \in 1..Len(r.prev)
      BY <1>3, <1>7, <2>2 DEF Slots
    <3> QED BY <3>1, <3>2, PromotedIn
  <2> QED BY <2>1, <2>2
<1>11. f = 0 => d.record = [r EXCEPT !.cur = try(f).state]
  BY <1>9
<1> QED
  BY <1>7, <1>8, <1>10, <1>11 DEF try, d, DecryptedAt

-----------------------------------------------------------------------------
(* What a rebuilt record still is                                          *)

LEMMA RecordRebuilt ==
  ASSUME NEW p, NEW r, NEW r2, NEW s2, NEW F, NEW N, NEW N2, NEW G, NEW G2,
         RecordOK(p, r, N, G), Grows(N, N2), Grows(G, G2), Rebuilt(r, r2, s2, F),
         StateOK(p, s2, N2, G2), Alone(s2),
         \A j \in Slots(r) \ F : Beside(s2, At(r, j))
  PROVE  RecordOK(p, r2, N2, G2)
<1>1. /\ DOMAIN r2 = {"cur", "prev"} /\ r2.cur = s2
      /\ IsSeq(r2.prev) /\ Len(r2.prev) <= MaxArchivedStates
  BY DEF Rebuilt
<1>2. PICK g \in [1..Len(r2.prev) -> Slots(r) \ F] :
        /\ \A i, j \in 1..Len(r2.prev) : g[i] = g[j] => i = j
        /\ \A i \in 1..Len(r2.prev) : r2.prev[i] = At(r, g[i])
  BY DEF Rebuilt
<1>3. Len(r2.prev) \in Nat
  BY <1>1, LenNat
<1>4. At(r2, 0) = s2
  BY <1>1 DEF At
<1>5. ASSUME NEW i \in Slots(r2), i # 0
      PROVE  i \in 1..Len(r2.prev) /\ g[i] \in Slots(r) \ F /\ At(r2, i) = At(r, g[i])
  <2>1. i \in 1..Len(r2.prev)
    BY <1>3, <1>5 DEF Slots
  <2>2. At(r2, i) = r2.prev[i]
    BY <1>5 DEF At
  <2> QED BY <1>2, <2>1, <2>2
<1>6. ASSUME NEW i \in Slots(r2)
      PROVE  StateOK(p, At(r2, i), N2, G2) /\ Alone(At(r2, i))
  <2>1. CASE i = 0
    BY <1>4, <2>1
  <2>2. CASE i # 0
    <3>1. g[i] \in Slots(r) /\ At(r2, i) = At(r, g[i])
      BY <1>5, <2>2
    <3>2. StateOK(p, At(r, g[i]), N, G) /\ Alone(At(r, g[i]))
      BY <3>1 DEF RecordOK
    <3>3. StateOK(p, At(r, g[i]), N2, G2)
      BY <3>2, StateGrows
    <3> QED BY <3>1, <3>2, <3>3
  <2> QED BY <2>1, <2>2
<1>7. ASSUME NEW i \in Slots(r2), i # 0
      PROVE  Beside(s2, At(r2, i)) /\ Beside(At(r2, i), s2)
  <2>1. Beside(s2, At(r2, i))
    BY <1>5, <1>7
  <2> QED BY <2>1 DEF Beside
<1>8. ASSUME NEW i \in Slots(r2), NEW j \in Slots(r2), i # j
      PROVE  Beside(At(r2, i), At(r2, j))
  <2>1. CASE i = 0
    BY <1>4, <1>7, <1>8, <2>1
  <2>2. CASE j = 0
    BY <1>4, <1>7, <1>8, <2>2
  <2>3. CASE i # 0 /\ j # 0
    <3>1. g[i] # g[j]
      BY <1>2, <1>5, <1>8, <2>3
    <3>2. Beside(At(r, g[i]), At(r, g[j]))
      BY <1>5, <2>3, <3>1 DEF RecordOK
    <3> QED BY <1>5, <2>3, <3>2
  <2> QED BY <2>1, <2>2, <2>3
<1> QED BY <1>1, <1>6, <1>8 DEF RecordOK

LEMMA FirstRecord ==
  ASSUME NEW p, NEW s2, NEW N, NEW G, StateOK(p, s2, N, G), Alone(s2),
         NEW r2, r2 = [ArchiveCurrentState(FreshRecord) EXCEPT !.cur = s2]
  PROVE  RecordOK(p, r2, N, G) /\ r2.cur = s2 /\ Slots(r2) = {0}
<1>1. DOMAIN r2 = {"cur", "prev"} /\ r2.cur = s2 /\ r2.prev = <<>>
  BY DEF ArchiveCurrentState, FreshRecord
<1>2. IsSeq(r2.prev) /\ Len(r2.prev) = 0
  <2>1. <<>> \in Seq({}) /\ Len(<<>>) = 0
    OBVIOUS
  <2> QED BY <1>1, <2>1 DEF IsSeq
<1>3. Slots(r2) = {0}
  BY <1>2 DEF Slots
<1>4. \A i \in Slots(r2) : At(r2, i) = s2
  BY <1>1, <1>3 DEF At
<1>5. Len(r2.prev) <= MaxArchivedStates
  BY <1>2, RecordBounds
<1>6. \A i, j \in Slots(r2) : i = j
  BY <1>3
<1> QED BY <1>1, <1>2, <1>3, <1>4, <1>5, <1>6 DEF RecordOK

(* A key that is about to be made is in no agreement yet.                  *)
LEMMA NewKeyUnknown ==
  ASSUME NEW p \in Party, NEW new, NEW N, NEW N2, NewKeyOf(p, new, N, N2),
         NEW A, KnownIn(A, N)
  PROVE  new \notin A
<1>1. new[1] = "ephemeral" /\ new[2] = p /\ new[4] = N[p] + 1 /\ N[p] \in Nat
  BY DEF NewKeyOf, Grows
<1>2. ASSUME new \in A PROVE FALSE
  <2>1. new[4] <= N[new[2]]
    BY <1>1, <1>2 DEF KnownIn
  <2> QED BY <1>1, <2>1
<1> QED BY <1>2

(* The keys of a state.                                                    *)
LEMMA StateKeys ==
  ASSUME NEW p, NEW s, NEW N, NEW G, StateOK(p, s, N, G)
  PROVE  /\ s.ratchet \in Newest(s.root) /\ s.chain = s.root
         /\ KnownIn(Newest(s.root), N)
         /\ s.ratchet[1] = "ephemeral" /\ s.ratchet[2] = p
         /\ \A k \in 1..Len(s.recv) : /\ KnownIn(Newest(s.recv[k].chain), N)
                                      /\ s.recv[k].chain[1] = s.root[1]
         /\ SecretOK(s.root[1], s.base, N, G)
<1>1. SenderOK(p, s, N, G) /\ LinksOK(s.recv, s.root, N)
  BY DEF StateOK
<1>2. \A k \in 1..Len(s.recv) : LinkOK(s.recv[k], s.root, N)
  BY <1>1 DEF LinksOK
<1>3. s.ratchet \in Newest(s.root)
  BY <1>1 DEF SenderOK
<1> QED BY <1>1, <1>2, <1>3 DEF SenderOK, LinkOK

LEMMA AdvancedBeside ==
  ASSUME NEW p \in Party, NEW r, NEW s, NEW s2, NEW m, NEW new, NEW N, NEW N2, NEW G,
         RecordOK(p, r, N, G), MsgOK(m, N, G), m.to = p, NewKeyOf(p, new, N, N2),
         NEW f \in Slots(r), s = At(r, f), Advanced(s, s2, m, new)
  PROVE  Alone(s2) /\ \A j \in Slots(r) \ {f} : Beside(s2, At(r, j))
<1>1. StateOK(p, s, N, G) /\ Alone(s)
  BY DEF RecordOK
<1>2. KnownIn(Newest(m.chain), N) /\ m.ratchet[2] # p
  BY DEF MsgOK
<1>3. \A k \in 1..Len(s.recv) : KnownIn(Newest(s.recv[k].chain), N)
  BY <1>1, StateKeys
<1>4. s2.base = s.base /\ TookFrom(s.recv, s2.recv, m.chain, m.counter)
  BY DEF Advanced
<1>5. \A k \in 1..Len(s2.recv) :
        \/ s2.recv[k].chain = m.chain
        \/ \E l \in 1..Len(s.recv) : s2.recv[k].chain = s.recv[l].chain
  BY <1>4 DEF TookFrom
<1>6. CASE /\ s2.ratchet = s.ratchet
           /\ Yields(s.recv, m.chain, m.counter)
  <2>1. PICK l \in 1..Len(s.recv) : s.recv[l].chain = m.chain
    BY <1>6 DEF Yields
  <2>2. \A k \in 1..Len(s2.recv) : \E i \in 1..Len(s.recv) : s2.recv[k].chain = s.recv[i].chain
    BY <1>5, <2>1
  <2>3. Alone(s2)
    BY <1>1, <1>6, <2>2 DEF Alone
  <2>4. ASSUME NEW j \in Slots(r) \ {f}
        PROVE  Beside(s2, At(r, j))
    <3>1. Beside(s, At(r, j))
      BY DEF RecordOK
    <3> QED BY <1>4, <1>6, <2>2, <3>1 DEF Beside
  <2> QED BY <2>3, <2>4
<1>7. CASE s2.ratchet = new /\ Newest(m.chain) = {m.ratchet, s.ratchet}
  <2>1. new \notin Newest(m.chain) /\ \A k \in 1..Len(s.recv) : new \notin Newest(s.recv[k].chain)
    BY <1>2, <1>3, NewKeyUnknown
  <2>2. Alone(s2)
    BY <1>5, <1>7, <2>1 DEF Alone
  <2>3. ASSUME NEW j \in Slots(r) \ {f}
        PROVE  Beside(s2, At(r, j))
    <3> DEFINE t == At(r, j)
    <3>1. Beside(s, t) /\ StateOK(p, t, N, G)
      BY DEF RecordOK
    <3> HIDE DEF t
    <3>2. /\ t.ratchet \in Newest(t.root) /\ KnownIn(Newest(t.root), N) /\ t.ratchet[2] = p
          /\ \A k \in 1..Len(t.recv) : KnownIn(Newest(t.recv[k].chain), N)
      BY <3>1, StateKeys
    <3>3. new # t.ratchet
      BY <3>2, NewKeyUnknown
    <3>4. \A k \in 1..Len(t.recv) : new \notin Newest(t.recv[k].chain)
      BY <3>2, NewKeyUnknown
    <3>5. t.ratchet \notin Newest(m.chain)
      <4>1. t.ratchet # s.ratchet
        BY <3>1 DEF Beside
      <4>2. t.ratchet # m.ratchet
        BY <1>2, <3>2
      <4> QED BY <1>7, <4>1, <4>2
    <3>6. \A k \in 1..Len(s2.recv) : t.ratchet \notin Newest(s2.recv[k].chain)
      BY <1>5, <3>1, <3>5 DEF Beside
    <3>7. s2.base # t.base
      BY <1>4, <3>1 DEF Beside
    <3>8. Beside(s2, t)
      BY <1>7, <3>3, <3>4, <3>6, <3>7 DEF Beside
    <3> QED BY <3>8 DEF t
  <2> QED BY <2>2, <2>3
<1> QED BY <1>6, <1>7 DEF Advanced

-----------------------------------------------------------------------------
(* The invariant of one record                                             *)

(* The agreement of a secret with a one-time pre key, as in                *)
(* OneTimeAgreement.                                                       *)
OneTimePart(z) == IF Len(z) = 4 THEN z[4] ELSE {}

(* s does not give the key of a message of D, is past what was sent on its *)
(* chain, and did not begin with a pre key of L.                           *)
StateSound(s, M, D, L) ==
  /\ \A m \in M : m.chain = s.chain => m.counter < s.index
  /\ \A m \in D : Gone(s, m)
  /\ OneTimePart(s.root[1]) \intersect L = {}

Sound(p, r, N, G, M, D, L) ==
  /\ RecordOK(p, r, N, G)
  /\ \A j \in Slots(r) : StateSound(At(r, j), M, D, L)

MsgsOK(M, N, G) == \A m \in M : MsgOK(m, N, G)

LEMMA SoundGrows ==
  ASSUME NEW p, NEW r, NEW N, NEW N2, NEW G, NEW G2, NEW M, NEW D, NEW D2, NEW L, NEW L2,
         Sound(p, r, N, G, M, D, L), Grows(N, N2), Grows(G, G2),
         D2 \subseteq D, L2 \subseteq L
  PROVE  Sound(p, r, N2, G2, M, D2, L2)
<1>1. RecordOK(p, r, N2, G2)
  BY RecordGrows DEF Sound
<1>2. ASSUME NEW j \in Slots(r)
      PROVE  StateSound(At(r, j), M, D2, L2)
  <2>1. StateSound(At(r, j), M, D, L)
    BY DEF Sound
  <2> QED BY <2>1 DEF StateSound
<1> QED BY <1>1, <1>2 DEF Sound

LEMMA SoundRebuilt ==
  ASSUME NEW p, NEW r, NEW r2, NEW s2, NEW F, NEW N, NEW N2, NEW G, NEW M, NEW D, NEW L,
         Sound(p, r, N, G, M, D, L), Grows(N, N2), Grows(G, G), Rebuilt(r, r2, s2, F),
         StateOK(p, s2, N2, G), Alone(s2), StateSound(s2, M, D, L),
         \A j \in Slots(r) \ F : Beside(s2, At(r, j))
  PROVE  Sound(p, r2, N2, G, M, D, L)
<1>1. RecordOK(p, r2, N2, G)
  BY RecordRebuilt DEF Sound
<1>2. ASSUME NEW i \in Slots(r2)
      PROVE  StateSound(At(r2, i), M, D, L)
  <2>1. At(r2, i) = s2 \/ \E j \in Slots(r) \ F : At(r2, i) = At(r, j)
    BY RebuiltStates
  <2> QED BY <2>1 DEF Sound
<1> QED BY <1>1, <1>2 DEF Sound

(* A builder's record.                                                     *)
WithNew(r, s2) == [ArchiveCurrentState(r) EXCEPT !.cur = s2]

LEMMA SoundBuilt ==
  ASSUME NEW p, NEW r, NEW r2, NEW s2, NEW N, NEW N2, NEW G, NEW M, NEW D, NEW L,
         r = FreshRecord \/ Sound(p, r, N, G, M, D, L), Grows(N, N2), Grows(G, G),
         r2 = WithNew(r, s2),
         StateOK(p, s2, N2, G), Alone(s2), StateSound(s2, M, D, L),
         r # FreshRecord => \A j \in Slots(r) : Beside(s2, At(r, j))
  PROVE  Sound(p, r2, N2, G, M, D, L) /\ r2.cur = s2
<1>1. CASE r = FreshRecord
  <2>1. r2 = [ArchiveCurrentState(FreshRecord) EXCEPT !.cur = s2]
    BY <1>1 DEF WithNew
  <2>2. RecordOK(p, r2, N2, G) /\ r2.cur = s2 /\ Slots(r2) = {0}
    BY <2>1, FirstRecord
  <2>3. \A j \in Slots(r2) : At(r2, j) = s2
    BY <2>2 DEF At
  <2> QED BY <2>2, <2>3 DEF Sound
<1>2. CASE r # FreshRecord
  <2>1. Sound(p, r, N, G, M, D, L)
    BY <1>2
  <2>2. IsSeq(r.prev)
    BY <2>1 DEF Sound, RecordOK
  <2>3. Rebuilt(r, r2, s2, {})
    BY <1>2, <2>2, ArchivedIn DEF WithNew
  <2>4. \A j \in Slots(r) \ {} : Beside(s2, At(r, j))
    BY <1>2
  <2>5. Sound(p, r2, N2, G, M, D, L)
    BY <2>1, <2>3, <2>4, SoundRebuilt
  <2> QED BY <2>3, <2>5 DEF Rebuilt
<1> QED BY <1>1, <1>2

(* A message is out of reach once its key was taken: the state that took   *)
(* it used the ratchet key up, and no other state is of the same session.  *)
LEMMA Erasure ==
  ASSUME NEW p, NEW r, NEW N, NEW G, RecordOK(p, r, N, G), NEW m, NEW recv,
         TookFrom(recv, r.cur.recv, m.chain, m.counter)
  PROVE  Erased(r, m) /\ r.cur.root[1] = m.chain[1]
<1> DEFINE s == At(r, 0)
<1>1. s = r.cur
  BY DEF At
<1>2. 0 \in Slots(r)
  BY LenNat DEF RecordOK, Slots
<1>3. StateOK(p, s, N, G) /\ Alone(s)
  BY <1>2 DEF RecordOK
<1>4. PICK k \in 1..Len(s.recv) : s.recv[k].chain = m.chain
  BY <1>1 DEF TookFrom
<1>5. m.chain[1] = s.root[1]
  BY <1>3, <1>4, StateKeys
<1>6. Gone(s, m)
  <2>1. s.ratchet \notin Newest(m.chain)
    BY <1>3, <1>4 DEF Alone
  <2>2. ~Yields(s.recv, m.chain, m.counter)
    BY <1>1 DEF TookFrom
  <2> QED BY <2>1, <2>2 DEF Gone
<1>7. ASSUME NEW j \in Slots(r), j # 0
      PROVE  Gone(At(r, j), m)
  <2> DEFINE t == At(r, j)
  <2>1. StateOK(p, t, N, G) /\ Beside(s, t)
    BY <1>2, <1>7 DEF RecordOK
  <2> HIDE DEF s, t
  <2>2. t.ratchet \notin Newest(m.chain)
    BY <1>4, <2>1 DEF Beside
  <2>3. ~Yields(t.recv, m.chain, m.counter)
    <3> SUFFICES ASSUME NEW i \in 1..Len(t.recv), t.recv[i].chain = m.chain
                 PROVE  FALSE
      BY DEF Yields
    <3>1. t.root[1] = s.root[1]
      BY <1>5, <2>1, StateKeys
    <3>2. SecretOK(s.root[1], s.base, N, G) /\ SecretOK(t.root[1], t.base, N, G)
      BY <1>3, <2>1, StateKeys
    <3>3. s.base = t.base
      BY <3>1, <3>2, BaseOfSecret
    <3> QED BY <2>1, <3>3 DEF Beside
  <2>4. Gone(t, m)
    BY <2>2, <2>3 DEF Gone
  <2> QED BY <2>4 DEF t
<1> QED BY <1>1, <1>5, <1>6, <1>7 DEF Erased

-----------------------------------------------------------------------------
(* Decrypting from a record                                                *)

(* What a decrypt call of p has when it gets to the callback: a record     *)
(* that is sound and can no longer give the key of m, which was not among  *)
(* the messages D already done with.                                       *)
Outcome(p, r, m, N, G, M, D, L) ==
  /\ Sound(p, r, N, G, M, D, L)
  /\ Erased(r, m) /\ m \notin D
  /\ r.cur.root[1] = m.chain[1]

(* A state that turned its ratchet for m has a key that is in no message.  *)
LEMMA TurnedSound ==
  ASSUME NEW p \in Party, NEW s, NEW s2, NEW m, NEW new, NEW N, NEW N2, NEW G, NEW M, NEW D,
         NEW L, MsgsOK(M, N, G), D \subseteq M, NewKeyOf(p, new, N, N2),
         s2.ratchet = new, new \in Newest(s2.chain),
         TookFrom(s.recv, s2.recv, m.chain, m.counter),
         \A n \in D : n.chain # m.chain /\ ~Yields(s.recv, n.chain, n.counter),
         OneTimePart(s2.root[1]) \intersect L = {}
  PROVE  StateSound(s2, M, D, L)
<1>1. \A n \in M : new \notin Newest(n.chain)
  BY NewKeyUnknown DEF MsgsOK, MsgOK
<1>2. \A n \in M : n.chain # s2.chain
  BY <1>1
<1>3. ASSUME NEW n \in D
      PROVE  Gone(s2, n)
  <2>1. n.counter \in Nat
    BY DEF MsgsOK, MsgOK
  <2>2. ~Yields(s2.recv, n.chain, n.counter)
    BY <2>1 DEF TookFrom
  <2> QED BY <1>1, <2>2 DEF Gone
<1> QED BY <1>2, <1>3 DEF StateSound

LEMMA KeptSound ==
  ASSUME NEW s, NEW s2, NEW N, NEW G, NEW M, NEW D, NEW L, MsgsOK(M, N, G), D \subseteq M,
         StateSound(s, M, D, L),
         s2.ratchet = s.ratchet, s2.chain = s.chain, s2.index = s.index,
         s2.root[1] = s.root[1],
         \A x : \A d \in Nat : Yields(s2.recv, x, d) => Yields(s.recv, x, d)
  PROVE  StateSound(s2, M, D, L)
<1>1. ASSUME NEW n \in D
      PROVE  Gone(s2, n)
  <2>1. n.counter \in Nat
    BY DEF MsgsOK, MsgOK
  <2>2. Gone(s, n)
    BY DEF StateSound
  <2> QED BY <2>1, <2>2 DEF Gone
<1> QED BY <1>1 DEF StateSound

(* With a session that is known.                                           *)
LEMMA DecryptSound ==
  ASSUME NEW p \in Party, NEW r, NEW m, NEW new, NEW N, NEW N2, NEW G, NEW M, NEW D, NEW L,
         Sound(p, r, N, G, M, D, L), MsgsOK(M, N, G), D \subseteq M, m \in M, m.to = p,
         NewKeyOf(p, new, N, N2), Grows(N, N), Grows(G, G),
         DecryptFromRecord(r, m, new).code = Success,
         NEW r2, r2 = DecryptFromRecord(r, m, new).record,
         NEW N3, N3 = IF r2.cur.ratchet = new THEN N2 ELSE N
  PROVE  Outcome(p, r2, m, N3, G, M, D, L)
<1>1. RecordOK(p, r, N, G) /\ MsgOK(m, N, G)
  BY DEF Sound, MsgsOK
<1>2. IsSeq(r.prev) /\ Len(r.prev) <= MaxArchivedStates /\ DOMAIN r = {"cur", "prev"}
  BY <1>1 DEF RecordOK
<1>3. PICK f \in Slots(r) :
        /\ DecryptFromState(At(r, f), m, new).code = Success
        /\ Rebuilt(r, r2, DecryptFromState(At(r, f), m, new).state, {f})
  <2>1. \E f \in Slots(r) : DecryptedAt(r, r2, m, new, f)
    BY <1>2, DecryptedRecord
  <2> QED BY <2>1 DEF DecryptedAt
<1> DEFINE s == At(r, f)
           s2 == DecryptFromState(s, m, new).state
<1>4. StateOK(p, s, N, G) /\ Alone(s) /\ StateSound(s, M, D, L)
  BY <1>1 DEF RecordOK, Sound
<1>5. DOMAIN s = StateFields /\ IsSeq(s.recv) /\ Len(s.recv) <= MaxReceiverChains
  BY <1>4 DEF StateOK, LinksOK
<1>6. (\E k \in 1..Len(s.recv) : KeptChain(s, s2, m, k)) \/ TurnedChain(s, s2, m, new)
  BY <1>3, <1>5, Decrypted
<1>7. Rebuilt(r, r2, s2, {f})
  BY <1>3
<1> HIDE DEF s2, s
<1>8. r2.cur = s2
  BY <1>7 DEF Rebuilt
<1>9. m.counter \in Nat
  BY <1>1 DEF MsgOK
<1>10. ASSUME StateOK(p, s2, N3, G), Advanced(s, s2, m, new), StateSound(s2, M, D, L),
              m \notin D, Grows(N, N3)
       PROVE  Outcome(p, r2, m, N3, G, M, D, L)
  <2>1. Alone(s2) /\ \A j \in Slots(r) \ {f} : Beside(s2, At(r, j))
    BY <1>1, <1>10, AdvancedBeside DEF s
  <2>2. Sound(p, r2, N3, G, M, D, L)
    BY <1>7, <1>10, <2>1, SoundRebuilt
  <2>3. RecordOK(p, r2, N3, G) /\ TookFrom(s.recv, r2.cur.recv, m.chain, m.counter)
    BY <1>8, <1>10, <2>2 DEF Sound, Advanced
  <2>4. Erased(r2, m) /\ r2.cur.root[1] = m.chain[1]
    BY <2>3, Erasure
  <2> QED BY <1>10, <2>2, <2>4 DEF Outcome
<1>11. CASE \E k \in 1..Len(s.recv) : KeptChain(s, s2, m, k)
  <2>1. PICK k \in 1..Len(s.recv) : KeptChain(s, s2, m, k)
    BY <1>11
  <2>2. StateOK(p, s2, N, G) /\ Advanced(s, s2, m, new)
    BY <1>4, <1>9, <2>1, KeepStep
  <2>3. /\ s2.ratchet = s.ratchet /\ s2.chain = s.chain /\ s2.index = s.index
        /\ s2.root[1] = s.root[1]
    BY <2>1 DEF KeptChain
  <2>4. s2.ratchet # new
    BY <1>4, <2>3, StateKeys, NewKeyUnknown
  <2>5. N3 = N
    BY <1>8, <2>4
  <2>6. /\ \A x : \A d \in Nat : Yields(s2.recv, x, d) => Yields(s.recv, x, d)
        /\ Yields(s.recv, m.chain, m.counter)
    BY <2>2, <2>3, <2>4 DEF Advanced
  <2>7. StateSound(s2, M, D, L)
    BY <1>4, <2>3, <2>6, KeptSound
  <2>8. m \notin D
    BY <1>4, <2>6 DEF StateSound, Gone
  <2> QED BY <1>10, <2>2, <2>5, <2>7, <2>8
<1>12. CASE TurnedChain(s, s2, m, new)
  <2>1. Turnable(p, s, N, G)
    <3>1. SenderOK(p, s, N, G) /\ LinksOK(s.recv, s.root, N)
      BY <1>4 DEF StateOK
    <3>2. Len(s.root) >= 1
      BY <3>1, LenNat DEF SenderOK
    <3> QED BY <1>4, <1>5, <3>1, <3>2 DEF Turnable, SenderOK
  <2>2. StateOK(p, s2, N2, G) /\ Advanced(s, s2, m, new)
    BY <1>1, <1>12, <2>1, TurnStep
  <2>3. s2.ratchet = new
    BY <1>12 DEF TurnedChain
  <2>4. N3 = N2
    BY <1>8, <2>3
  <2>5. s.ratchet # new
    BY <1>4, StateKeys, NewKeyUnknown
  <2>6. /\ new \in Newest(s2.chain) /\ Newest(m.chain) = {m.ratchet, s.ratchet}
        /\ s2.root[1] = s.root[1] /\ TookFrom(s.recv, s2.recv, m.chain, m.counter)
    BY <2>2, <2>3, <2>5 DEF Advanced
  <2>7. \A n \in D : n.chain # m.chain /\ ~Yields(s.recv, n.chain, n.counter)
    BY <1>4, <2>6 DEF StateSound, Gone
  <2>8. m \notin D
    BY <2>7
  <2>9. OneTimePart(s2.root[1]) \intersect L = {}
    BY <1>4, <2>6 DEF StateSound
  <2>10. StateSound(s2, M, D, L)
    BY <2>3, <2>6, <2>7, <2>9, TurnedSound
  <2>11. Grows(N, N2)
    BY DEF NewKeyOf
  <2> QED BY <1>10, <2>2, <2>4, <2>8, <2>10, <2>11
<1> QED BY <1>6, <1>11, <1>12

-----------------------------------------------------------------------------
(* Beginning a session                                                     *)

(* A secret of three agreements, the last of them c, and perhaps a fourth. *)
ThirdIs(z, c, e, none) ==
  /\ IsSeq(z) /\ Len(z) = (IF none THEN 3 ELSE 4) /\ z[3] = c
  /\ OneTimePart(z) = IF none THEN {} ELSE e

LEMMA ThreeAndOne ==
  ASSUME NEW a, NEW b, NEW c, NEW e, NEW z, NEW none \in BOOLEAN,
         z = <<a, b, c>> \o (IF none THEN <<>> ELSE <<e>>)
  PROVE  ThirdIs(z, c, e, none)
<1> DEFINE X == {a, b, c, e}
           u == <<a, b, c>>
           v == IF none THEN <<>> ELSE <<e>>
           w == <<e>>
           y == <<>>
<1>1. u \in Seq(X) /\ Len(u) = 3 /\ u[3] = c
  OBVIOUS
<1>2. w \in Seq(X) /\ Len(w) = 1 /\ w[1] = e
  OBVIOUS
<1>3. y \in Seq(X) /\ Len(y) = 0
  OBVIOUS
<1>4. v = IF none THEN y ELSE w
  OBVIOUS
<1>5. z = u \o v
  OBVIOUS
<1> HIDE DEF X, u, v, w, y
<1>6. v \in Seq(X) /\ Len(v) = (IF none THEN 0 ELSE 1) /\ (~none => v[1] = e)
  BY <1>2, <1>3, <1>4
<1>7. /\ z \in Seq(X) /\ Len(z) = Len(u) + Len(v)
      /\ \A i \in 1..Len(u) : z[i] = u[i]
      /\ \A i \in 1..Len(v) : z[Len(u) + i] = v[i]
  BY <1>1, <1>5, <1>6, JoinSeq
<1>8. Len(z) = (IF none THEN 3 ELSE 4) /\ z[3] = c
  BY <1>1, <1>6, <1>7
<1>9. ~none => z[4] = e
  BY <1>1, <1>6, <1>7
<1> QED BY <1>7, <1>8, <1>9 DEF IsSeq, OneTimePart, ThirdIs

(* The secret both parties compute for a session with base key base.       *)
FullSecret(a, b, base, signed, ot) ==
  <<a, b, {signed, base}>> \o (IF ot = NoKey THEN <<>> ELSE <<{base, ot}>>)

SecretOf(z, base, ot, N, G) ==
  /\ SecretOK(z, base, N, G)
  /\ OneTimePart(z) = IF ot = NoKey THEN {} ELSE {base, ot}

LEMMA SecretShape ==
  ASSUME NEW z, NEW base, NEW signed, NEW ot, NEW N, NEW G, NEW a, NEW b,
         z = FullSecret(a, b, base, signed, ot),
         base \in Pub, base[1] = "ephemeral", base[4] <= N[base[2]],
         signed[1] = "signed",
         ot # NoKey => ot \in Pub /\ ot[1] = "onetime" /\ ot[3] <= G[ot[2]]
  PROVE  SecretOf(z, base, ot, N, G)
<1> DEFINE none == ot = NoKey
<1>1. /\ IsSeq(z) /\ Len(z) = (IF none THEN 3 ELSE 4) /\ z[3] = {signed, base}
      /\ OneTimePart(z) = IF none THEN {} ELSE {base, ot}
  <2> DEFINE c == {signed, base}
             e == {base, ot}
  <2>1. z = <<a, b, c>> \o (IF none THEN <<>> ELSE <<e>>)
    BY DEF FullSecret
  <2>2. none \in BOOLEAN
    OBVIOUS
  <2> HIDE DEF c, e, none
  <2>3. ThirdIs(z, c, e, none)
    BY <2>1, <2>2, ThreeAndOne
  <2> QED BY <2>3 DEF c, e, ThirdIs
<1>2. \E x \in z[3] : x[1] = "signed" /\ z[3] = {x, base}
  BY <1>1
<1>3. ASSUME Len(z) = 4 PROVE IssuedIn(z[4], G)
  <2>1. ~none
    BY <1>1, <1>3
  <2>2. z[4] = {base, ot}
    BY <1>1, <1>3, <2>1 DEF OneTimePart
  <2>3. ASSUME NEW k \in {base, ot}
        PROVE  k \in Pub /\ (k[1] = "onetime" => k[3] <= G[k[2]])
    BY <2>1
  <2> QED BY <2>2, <2>3 DEF IssuedIn
<1>4. Len(z) \in {3, 4}
  BY <1>1
<1> QED BY <1>1, <1>2, <1>3, <1>4 DEF SecretOK, SecretOf

LEMMA OnePath ==
  ASSUME NEW z, NEW c, c = DerivedKeys(z)
  PROVE  IsSeq(c) /\ Len(c) = 1 /\ c[1] = z /\ Newest(c) = {}
<1>1. c = <<z>>
  BY DEF DerivedKeys
<1>2. c \in Seq({z}) /\ Len(c) = 1 /\ c[1] = z
  BY <1>1
<1> QED BY <1>2 DEF IsSeq, Newest

(* A message with this base key belongs to no session of a record that     *)
(* does not have the base key.                                             *)
LEMMA OtherSession ==
  ASSUME NEW p \in Party, NEW t, NEW m, NEW new, NEW N, NEW N2, NEW G,
         StateOK(p, t, N, G), Alone(t), MsgOK(m, N, G), m.to = p, m.base # NoKey,
         t.base # m.base, NewKeyOf(p, new, N, N2), Grows(N, N), Grows(G, G)
  PROVE  DecryptFromState(t, m, new).code # Success
<1> SUFFICES ASSUME DecryptFromState(t, m, new).code = Success
             PROVE  FALSE
  OBVIOUS
<1> DEFINE s2 == DecryptFromState(t, m, new).state
<1>1. /\ DOMAIN t = StateFields /\ IsSeq(t.recv) /\ Len(t.recv) <= MaxReceiverChains
      /\ SenderOK(p, t, N, G) /\ LinksOK(t.recv, t.root, N)
  BY DEF StateOK, LinksOK
<1>2. (\E k \in 1..Len(t.recv) : KeptChain(t, s2, m, k)) \/ TurnedChain(t, s2, m, new)
  BY <1>1, Decrypted
<1> HIDE DEF s2
<1>3. m.chain[1] = t.root[1]
  <2>1. CASE \E k \in 1..Len(t.recv) : KeptChain(t, s2, m, k)
    BY <2>1, StateKeys DEF KeptChain
  <2>2. CASE TurnedChain(t, s2, m, new)
    <3>1. IsSeq(t.root) /\ Len(t.root) >= 1
      BY <1>1, LenNat DEF SenderOK
    <3>2. m.chain = Append(t.root, {m.ratchet, t.ratchet})
      BY <2>2 DEF TurnedChain, CreateChain, Agreement
    <3>3. Extends(t.root, m.chain, {m.ratchet, t.ratchet})
      BY <3>1, <3>2, AppendPath
    <3> QED BY <3>3 DEF Extends
  <2> QED BY <1>2, <2>1, <2>2
<1>4. PICK b : SecretOK(m.chain[1], b, N, G) /\ m.base \in {NoKey, b}
  BY DEF MsgOK
<1>5. SecretOK(t.root[1], t.base, N, G)
  BY StateKeys
<1>6. b = t.base
  BY <1>3, <1>4, <1>5, BaseOfSecret
<1> QED BY <1>4, <1>6

LEMMA NoLinks ==
  ASSUME NEW root, NEW N
  PROVE  LinksOK(<<>>, root, N) /\ Len(<<>>) = 0
<1>1. <<>> \in Seq({}) /\ Len(<<>>) = 0
  OBVIOUS
<1>2. Len(<<>>) <= MaxReceiverChains
  BY <1>1, RecordBounds
<1> DEFINE e == <<>>
<1>3. IsSeq(e) /\ Len(e) = 0 /\ Len(e) <= MaxReceiverChains
  BY <1>1, <1>2 DEF IsSeq
<1> HIDE DEF e
<1>4. LinksOK(e, root, N)
  BY <1>3 DEF LinksOK
<1> QED BY <1>1, <1>4 DEF e

(* What the builder of a received session has made, before the message is  *)
(* decrypted with it.                                                      *)
BobReady(s, z, base, signed) ==
  /\ DOMAIN s = StateFields /\ s.base = base /\ s.root = DerivedKeys(z)
  /\ s.ratchet = signed /\ s.recv = <<>>

LEMMA BobShape ==
  ASSUME NEW id, NEW signed, NEW ot, NEW from, NEW base, NEW s, NEW z,
         s = BobState(id, signed, ot, from, base), z = BobSecret(id, signed, ot, from, base)
  PROVE  BobReady(s, z, base, signed)
<1> DEFINE d == DerivedKeys(z)
<1>1. s = [EmptyState EXCEPT !.base = base, !.local = id, !.remote = from, !.root = d,
                             !.ratchet = signed, !.chain = d]
  BY DEF BobState
<1> HIDE DEF d
<1>2. /\ DOMAIN s = StateFields /\ s.base = base /\ s.root = d
      /\ s.ratchet = signed /\ s.recv = <<>>
  BY <1>1 DEF EmptyState, StateFields
<1> QED BY <1>2 DEF BobReady, d

BobDone(p, s2, z, m, new, base, signed, N, G) ==
  /\ StateOK(p, s2, N, G) /\ Alone(s2)
  /\ s2.base = base /\ s2.root[1] = z /\ m.chain[1] = z
  /\ s2.ratchet = new /\ new \in Newest(s2.chain)
  /\ TookFrom(<<>>, s2.recv, m.chain, m.counter)
  /\ Newest(m.chain) = {m.ratchet, signed}
  /\ \A k \in 1..Len(s2.recv) : s2.recv[k].chain = m.chain

(* Its ratchet turns at the first message, and the key pair made for that  *)
(* is in nothing else.                                                     *)
LEMMA BobStep ==
  ASSUME NEW p \in Party, NEW s, NEW z, NEW m, NEW new, NEW N, NEW N2, NEW G, NEW base, NEW signed,
         BobReady(s, z, base, signed), SecretOK(z, base, N, G), m.base = base, base # NoKey,
         MsgOK(m, N, G), m.to = p, NewKeyOf(p, new, N, N2), Grows(G, G),
         DecryptFromState(s, m, new).code = Success,
         NEW s2, s2 = DecryptFromState(s, m, new).state
  PROVE  BobDone(p, s2, z, m, new, base, signed, N2, G)
<1>1. /\ DOMAIN s = StateFields /\ s.base = base /\ s.root = DerivedKeys(z)
      /\ s.ratchet = signed /\ s.recv = <<>>
  BY DEF BobReady
<1>2. IsSeq(s.root) /\ Len(s.root) = 1 /\ s.root[1] = z
  BY <1>1, OnePath
<1>3. LinksOK(s.recv, s.root, N) /\ Len(s.recv) = 0
  BY <1>1, NoLinks
<1>4. IsSeq(s.recv) /\ Len(s.recv) <= MaxReceiverChains
  BY <1>3 DEF LinksOK
<1>5. (\E k \in 1..Len(s.recv) : KeptChain(s, s2, m, k)) \/ TurnedChain(s, s2, m, new)
  BY <1>1, <1>4, Decrypted
<1>6. 1..Len(s.recv) = {}
  BY <1>3
<1>7. TurnedChain(s, s2, m, new)
  BY <1>5, <1>6
<1>8. Len(m.chain) = 2 /\ m.chain[1] = z /\ Newest(m.chain) = {m.ratchet, signed}
  <2>1. m.chain = Append(s.root, {m.ratchet, s.ratchet})
    BY <1>7 DEF TurnedChain, CreateChain, Agreement
  <2>2. Len(s.root) >= 1
    BY <1>2
  <2>3. Extends(s.root, m.chain, {m.ratchet, s.ratchet})
    BY <1>2, <2>1, <2>2, AppendPath
  <2> QED BY <1>1, <1>2, <2>3 DEF Extends
<1>9. Parity(p, base) = 1
  <2>1. PICK b : /\ SecretOK(m.chain[1], b, N, G)
                 /\ Len(m.chain) % 2 = 1 - Parity(m.to, b)
    BY DEF MsgOK
  <2>2. b = base
    BY <1>8, <2>1, BaseOfSecret
  <2>3. 0 = 1 - Parity(p, base)
    BY <1>8, <2>1, <2>2
  <2> QED BY <2>3 DEF Parity
<1>10. Turnable(p, s, N, G)
  <2>1. Alone(s)
    BY <1>6 DEF Alone
  <2>2. Len(s.root) % 2 = Parity(p, s.base) /\ Len(s.root) >= 1
    BY <1>1, <1>2, <1>9
  <2> QED BY <1>1, <1>2, <1>3, <2>1, <2>2 DEF Turnable
<1>11. StateOK(p, s2, N2, G) /\ Advanced(s, s2, m, new)
  BY <1>7, <1>10, TurnStep
<1>12. s2.ratchet = new /\ s2.base = base /\ s2.root[1] = z
       /\ TookFrom(s.recv, s2.recv, m.chain, m.counter)
  <2>1. s2.ratchet = new
    BY <1>7 DEF TurnedChain
  <2>2. s2.base = s.base /\ s2.root[1] = s.root[1] /\ TookFrom(s.recv, s2.recv, m.chain, m.counter)
    BY <1>11 DEF Advanced
  <2> QED BY <1>1, <1>2, <2>1, <2>2
<1>13. new \in Newest(s2.chain)
  BY <1>6, <1>11 DEF Advanced, Yields
<1>14. \A k \in 1..Len(s2.recv) : s2.recv[k].chain = m.chain
  BY <1>6, <1>12 DEF TookFrom
<1>15. new \notin Newest(m.chain)
  BY NewKeyUnknown DEF MsgOK
<1>16. Alone(s2)
  BY <1>12, <1>14, <1>15 DEF Alone
<1> QED BY <1>1, <1>8, <1>11, <1>12, <1>13, <1>14, <1>16 DEF BobDone

LEMMA SlotsStates ==
  ASSUME NEW r, IsSeq(r.prev), NEW j \in Slots(r)
  PROVE  At(r, j) \in States(r)
<1>1. DOMAIN r.prev = 1..Len(r.prev) /\ Len(r.prev) \in Nat
  BY LenNat
<1>2. CASE j = 0
  BY <1>2 DEF At, States
<1>3. CASE j # 0
  <2>1. j \in DOMAIN r.prev
    BY <1>1, <1>3 DEF Slots
  <2> QED BY <1>3, <2>1 DEF At, States
<1> QED BY <1>2, <1>3

LEMMA StatesSlots ==
  ASSUME NEW r, IsSeq(r.prev), NEW s \in States(r)
  PROVE  \E j \in Slots(r) : s = At(r, j)
<1>1. DOMAIN r.prev = 1..Len(r.prev) /\ Len(r.prev) \in Nat
  BY LenNat
<1>2. 0 \in Slots(r) /\ At(r, 0) = r.cur
  BY <1>1 DEF Slots, At
<1>3. \A j \in 1..Len(r.prev) : j \in Slots(r) /\ At(r, j) = r.prev[j]
  BY <1>1 DEF Slots, At
<1> QED BY <1>1, <1>2, <1>3 DEF States

(* A builder's record before decryption: the new state is current, and     *)
(* what is archived was in the record.                                     *)
BuiltFrom(r, r2, s) ==
  /\ DOMAIN r2 = {"cur", "prev"} /\ IsSeq(r2.prev) /\ Len(r2.prev) <= MaxArchivedStates
  /\ At(r2, 0) = s
  /\ \A i \in Slots(r2) \ {0} : r # FreshRecord /\ \E j \in Slots(r) : At(r2, i) = At(r, j)

LEMMA BuiltSlots ==
  ASSUME NEW r, NEW s, NEW r2, r = FreshRecord \/ IsSeq(r.prev),
         r2 = WithNew(r, s)
  PROVE  BuiltFrom(r, r2, s)
<1>1. CASE r = FreshRecord
  <2>1. DOMAIN r2 = {"cur", "prev"} /\ r2.cur = s /\ r2.prev = <<>>
    BY <1>1 DEF ArchiveCurrentState, FreshRecord, WithNew
  <2>2. <<>> \in Seq({}) /\ Len(<<>>) = 0
    OBVIOUS
  <2>3. IsSeq(r2.prev) /\ Len(r2.prev) = 0
    BY <2>1, <2>2 DEF IsSeq
  <2>4. Len(r2.prev) <= MaxArchivedStates /\ Slots(r2) \ {0} = {}
    BY <2>3, RecordBounds DEF Slots
  <2>5. At(r2, 0) = s
    BY <2>1 DEF At
  <2> QED BY <2>1, <2>3, <2>4, <2>5 DEF BuiltFrom
<1>2. CASE r # FreshRecord
  <2>1. Rebuilt(r, r2, s, {})
    BY <1>2, ArchivedIn DEF WithNew
  <2>2. /\ DOMAIN r2 = {"cur", "prev"} /\ r2.cur = s
        /\ IsSeq(r2.prev) /\ Len(r2.prev) <= MaxArchivedStates
    BY <2>1 DEF Rebuilt
  <2>3. At(r2, 0) = s
    BY <2>2 DEF At
  <2>4. PICK g \in [1..Len(r2.prev) -> Slots(r) \ {}] :
          \A k \in 1..Len(r2.prev) : r2.prev[k] = At(r, g[k])
    BY <2>1 DEF Rebuilt
  <2>5. ASSUME NEW i \in Slots(r2) \ {0}
        PROVE  \E j \in Slots(r) : At(r2, i) = At(r, j)
    <3>1. i \in 1..Len(r2.prev) /\ At(r2, i) = r2.prev[i]
      BY <2>2, LenNat DEF Slots, At
    <3>2. g[i] \in Slots(r)
      BY <2>4, <3>1
    <3> QED BY <2>4, <3>1, <3>2
  <2> QED BY <1>2, <2>2, <2>3, <2>5 DEF BuiltFrom
<1> QED BY <1>1, <1>2

(* A message that begins a session with the state s of Bob.                *)
BobCase(p, r, m, new, N, N2, G, M, D, L, s, z, signed, r1) ==
  /\ r = FreshRecord \/ Sound(p, r, N, G, M, D, L)
  /\ MsgsOK(M, N, G) /\ D \subseteq M /\ m \in M /\ m.to = p
  /\ m.base # NoKey /\ ~HasSessionState(r, m.base)
  /\ NewKeyOf(p, new, N, N2) /\ Grows(N, N) /\ Grows(G, G)
  /\ BobReady(s, z, m.base, signed) /\ signed[1] = "signed"
  /\ SecretOK(z, m.base, N, G) /\ OneTimePart(z) \intersect L = {}
  /\ \A n \in D : n.chain[1] # z
  /\ r1 = WithNew(r, s)
  /\ DecryptFromRecord(r1, m, new).code = Success

LEMMA BobSound ==
  ASSUME NEW p \in Party, NEW r, NEW m, NEW new, NEW N, NEW N2, NEW G, NEW M, NEW D, NEW L,
         NEW s, NEW z, NEW signed, NEW r1,
         BobCase(p, r, m, new, N, N2, G, M, D, L, s, z, signed, r1),
         NEW r2, r2 = DecryptFromRecord(r1, m, new).record,
         NEW N3, N3 = IF r2.cur.ratchet = new THEN N2 ELSE N
  PROVE  Outcome(p, r2, m, N3, G, M, D, L)
<1> SUFFICES ASSUME r = FreshRecord \/ Sound(p, r, N, G, M, D, L),
                    MsgsOK(M, N, G), D \subseteq M, m \in M, m.to = p,
                    m.base # NoKey, ~HasSessionState(r, m.base),
                    NewKeyOf(p, new, N, N2), Grows(N, N), Grows(G, G),
                    BobReady(s, z, m.base, signed), signed[1] = "signed",
                    SecretOK(z, m.base, N, G), OneTimePart(z) \intersect L = {},
                    \A n \in D : n.chain[1] # z,
                    r1 = WithNew(r, s),
                    DecryptFromRecord(r1, m, new).code = Success
             PROVE  Outcome(p, r2, m, N3, G, M, D, L)
  BY DEF BobCase
<1>1. MsgOK(m, N, G)
  BY DEF MsgsOK
<1>2. r = FreshRecord \/ IsSeq(r.prev)
  BY DEF Sound, RecordOK
<1>3. /\ DOMAIN r1 = {"cur", "prev"} /\ IsSeq(r1.prev) /\ Len(r1.prev) <= MaxArchivedStates
      /\ At(r1, 0) = s
      /\ \A i \in Slots(r1) \ {0} : r # FreshRecord /\ \E j \in Slots(r) : At(r1, i) = At(r, j)
  <2>1. BuiltFrom(r, r1, s)
    BY <1>2, BuiltSlots
  <2> QED BY <2>1 DEF BuiltFrom
<1>4. PICK f \in Slots(r1) :
        /\ DecryptFromState(At(r1, f), m, new).code = Success
        /\ f = 0 => r2 = [r1 EXCEPT !.cur = DecryptFromState(At(r1, f), m, new).state]
  <2>1. IsSeq(r1.prev) /\ Len(r1.prev) <= MaxArchivedStates /\ DOMAIN r1 = {"cur", "prev"}
    BY <1>3
  <2>2. \E f \in Slots(r1) : DecryptedAt(r1, r2, m, new, f)
    BY <2>1, DecryptedRecord
  <2> QED BY <2>2 DEF DecryptedAt
<1>5. ASSUME r # FreshRecord, NEW j \in Slots(r)
      PROVE  /\ StateOK(p, At(r, j), N, G) /\ Alone(At(r, j)) /\ At(r, j).base # m.base
  <2>1. RecordOK(p, r, N, G)
    BY <1>5 DEF Sound
  <2>2. At(r, j) \in States(r)
    BY <2>1, SlotsStates DEF RecordOK
  <2> QED BY <2>1, <2>2 DEF RecordOK, HasSessionState
<1>6. f = 0
  <2> SUFFICES ASSUME f # 0 PROVE FALSE
    OBVIOUS
  <2>1. PICK j \in Slots(r) : At(r1, f) = At(r, j)
    BY <1>3
  <2>2. r # FreshRecord
    BY <1>3
  <2> DEFINE t == At(r, j)
  <2>3. StateOK(p, t, N, G) /\ Alone(t) /\ t.base # m.base
    BY <1>5, <2>2
  <2> HIDE DEF t
  <2>4. DecryptFromState(t, m, new).code # Success
    BY <1>1, <2>3, OtherSession
  <2> QED BY <1>4, <2>1, <2>4 DEF t
<1> DEFINE s2 == DecryptFromState(s, m, new).state
           base == m.base
<1>7. DecryptFromState(s, m, new).code = Success /\ r2 = [r1 EXCEPT !.cur = s2]
  BY <1>3, <1>4, <1>6
<1>8. /\ StateOK(p, s2, N2, G) /\ Alone(s2)
      /\ s2.base = m.base /\ s2.root[1] = z /\ m.chain[1] = z
      /\ s2.ratchet = new /\ new \in Newest(s2.chain)
      /\ TookFrom(<<>>, s2.recv, m.chain, m.counter)
      /\ Newest(m.chain) = {m.ratchet, signed}
      /\ \A k \in 1..Len(s2.recv) : s2.recv[k].chain = m.chain
  <2>1. s2 = DecryptFromState(s, m, new).state /\ base = m.base
    OBVIOUS
  <2> HIDE DEF s2, base
  <2>2. BobReady(s, z, base, signed) /\ SecretOK(z, base, N, G) /\ base # NoKey
    BY <2>1
  <2>3. BobDone(p, s2, z, m, new, base, signed, N2, G)
    BY <1>1, <1>7, <2>1, <2>2, BobStep
  <2> QED BY <2>1, <2>3 DEF BobDone
<1> HIDE DEF s2
<1>9. r2 = WithNew(r, s2)
  BY <1>7 DEF WithNew
<1>10. StateSound(s2, M, D, L)
  <2> DEFINE q == [recv |-> <<>>]
  <2>1. q.recv = <<>> /\ Len(q.recv) = 0
    OBVIOUS
  <2> HIDE DEF q
  <2>2. 1..Len(q.recv) = {}
    BY <2>1
  <2>3. \A n \in D : n.chain # m.chain /\ ~Yields(q.recv, n.chain, n.counter)
    BY <1>8, <2>2 DEF Yields
  <2>4. TookFrom(q.recv, s2.recv, m.chain, m.counter)
    BY <1>8, <2>1
  <2>5. OneTimePart(s2.root[1]) \intersect L = {}
    BY <1>8
  <2> QED BY <1>8, <2>3, <2>4, <2>5, TurnedSound
<1>11. ASSUME r # FreshRecord, NEW j \in Slots(r)
       PROVE  Beside(s2, At(r, j))
  <2> DEFINE t == At(r, j)
  <2>1. StateOK(p, t, N, G) /\ t.base # m.base
    BY <1>5, <1>11
  <2> HIDE DEF t
  <2>2. /\ t.ratchet \in Newest(t.root) /\ KnownIn(Newest(t.root), N)
        /\ t.ratchet[1] = "ephemeral" /\ t.ratchet[2] = p
        /\ \A k \in 1..Len(t.recv) : KnownIn(Newest(t.recv[k].chain), N)
    BY <2>1, StateKeys
  <2>3. new # t.ratchet
    BY <2>2, NewKeyUnknown
  <2>4. \A k \in 1..Len(t.recv) : new \notin Newest(t.recv[k].chain)
    BY <2>2, NewKeyUnknown
  <2>5. m.ratchet[2] # p
    BY <1>1 DEF MsgOK
  <2>6. t.ratchet \notin Newest(m.chain)
    BY <1>8, <2>2, <2>5
  <2>7. Beside(s2, t)
    BY <1>8, <2>1, <2>3, <2>4, <2>6 DEF Beside
  <2> QED BY <2>7 DEF t
<1>12. Grows(N, N2)
  BY DEF NewKeyOf
<1>13. Sound(p, r2, N2, G, M, D, L) /\ r2.cur = s2
  <2>1. StateOK(p, s2, N2, G) /\ Alone(s2)
    BY <1>8
  <2>2. r # FreshRecord => \A j \in Slots(r) : Beside(s2, At(r, j))
    BY <1>11
  <2> QED BY <1>9, <1>10, <1>12, <2>1, <2>2, SoundBuilt
<1>14. N3 = N2
  BY <1>8, <1>13
<1>15. RecordOK(p, r2, N2, G) /\ TookFrom(<<>>, r2.cur.recv, m.chain, m.counter)
  BY <1>8, <1>13 DEF Sound
<1>16. Erased(r2, m) /\ r2.cur.root[1] = m.chain[1]
  BY <1>15, Erasure
<1>17. m \notin D
  BY <1>8
<1> QED BY <1>13, <1>14, <1>16, <1>17 DEF Outcome

(* What session_builder_process_pre_key_bundle makes.                      *)
AliceReady(s, z, base, signed, ratchet) ==
  /\ DOMAIN s = StateFields /\ s.base = base /\ s.ratchet = ratchet /\ s.index = 0
  /\ s.root = Append(DerivedKeys(z), {signed, ratchet}) /\ s.chain = s.root
  /\ s.recv = AddReceiverChain(<<>>, signed, DerivedKeys(z))
  /\ s.pending.base = base

LEMMA AliceShape ==
  ASSUME NEW id, NEW base, NEW ratchet, NEW their, NEW signed, NEW ot, NEW i, NEW s, NEW z,
         s = AliceState(id, base, ratchet, their, signed, ot, i),
         z = AliceSecret(id, base, their, signed, ot)
  PROVE  AliceReady(s, z, base, signed, ratchet)
<1> DEFINE d == DerivedKeys(z)
           c == Append(d, {signed, ratchet})
           l == AddReceiverChain(<<>>, signed, d)
           q == [base |-> base, oneTime |-> i]
<1>1. s = [base |-> base, local |-> id, remote |-> their, root |-> c, ratchet |-> ratchet,
           chain |-> c, index |-> 0, recv |-> l, pending |-> q]
  BY DEF AliceState, CreateChain, Agreement
<1>2. q.base = base
  OBVIOUS
<1> HIDE DEF c, l, q
<1>3. /\ DOMAIN s = StateFields /\ s.base = base /\ s.ratchet = ratchet /\ s.index = 0
      /\ s.root = c /\ s.chain = c /\ s.recv = l /\ s.pending = q
  BY <1>1 DEF StateFields
<1>4. s.pending.base = base
  BY <1>2, <1>3
<1> QED BY <1>3, <1>4 DEF AliceReady, c, l

(* Two key pairs p is about to make.                                       *)
TwoNewKeys(p, base, ratchet, N, N2) ==
  /\ base \in Pub /\ base[1] = "ephemeral" /\ base[2] = p /\ base[4] = N[p] + 1
  /\ ratchet \in Pub /\ ratchet[1] = "ephemeral" /\ ratchet[2] = p /\ ratchet[4] = N[p] + 2
  /\ N2[p] = N[p] + 2 /\ Grows(N, N2)

LEMMA NewKeysUnknown ==
  ASSUME NEW p \in Party, NEW base, NEW ratchet, NEW N, NEW N2, TwoNewKeys(p, base, ratchet, N, N2),
         NEW A, KnownIn(A, N)
  PROVE  base \notin A /\ ratchet \notin A
<1>1. N[p] \in Nat
  BY DEF TwoNewKeys, Grows
<1>2. ASSUME NEW k \in A, k[1] = "ephemeral", k[2] = p, k[4] > N[p], k[4] \in Nat
      PROVE  FALSE
  BY <1>1, <1>2 DEF KnownIn
<1>3. base[4] \in Nat /\ ratchet[4] \in Nat /\ base[4] > N[p] /\ ratchet[4] > N[p]
  BY <1>1 DEF TwoNewKeys
<1> QED BY <1>2, <1>3 DEF TwoNewKeys

LEMMA AliceLinks ==
  ASSUME NEW recv, NEW signed, NEW z, NEW root, NEW N,
         recv = AddReceiverChain(<<>>, signed, DerivedKeys(z)), root[1] = z, Len(root) = 2
  PROVE  LinksOK(recv, root, N) /\ \A k \in 1..Len(recv) : Len(recv[k].chain) = 1
<1> DEFINE d == DerivedKeys(z)
           l == EmptyLink(signed, d)
           e == <<>>
<1>1. IsSeq(d) /\ Len(d) = 1 /\ d[1] = z /\ Newest(d) = {}
  BY OnePath
<1>2. DOMAIN l = {"ratchet", "chain", "index", "mks"} /\ l.chain = d /\ l.index = 0 /\ l.mks = <<>>
  BY DEF EmptyLink
<1>3. WellKept(0, <<>>, 0)
  BY KeyBounds DEF WellKept, Below, Spread, Values
<1>4. (Len(d) + Len(root)) % 2 = 1 /\ Len(d) >= 1
  BY <1>1
<1>5. KnownIn(Newest(d), N)
  BY <1>1 DEF KnownIn
<1> HIDE DEF d, l
<1>6. LinkOK(l, root, N)
  BY <1>1, <1>2, <1>3, <1>4, <1>5 DEF LinkOK
<1>7. IsSeq(e) /\ Len(e) = 0
  BY NoLinks DEF LinksOK
<1>8. recv = AddReceiverChain(e, signed, d) /\ l = EmptyLink(signed, d)
  BY DEF d, l
<1>9. Len(e) <= MaxReceiverChains
  BY NoLinks DEF LinksOK
<1> HIDE DEF e
<1>10. AddedTo(e, recv, l)
  BY <1>7, <1>8, <1>9, AddChain
<1>11. IsSeq(recv) /\ Len(recv) >= 1 /\ Len(recv) <= MaxReceiverChains /\ recv[Len(recv)] = l
       /\ \E x \in {0, 1} : Len(recv) = Len(e) + 1 - x
  BY <1>10 DEF AddedTo
<1>12. Len(recv) = 1
  <2>1. PICK x \in {0, 1} : Len(recv) = Len(e) + 1 - x
    BY <1>11
  <2>2. Len(recv) = 1 - x
    BY <1>7, <2>1
  <2>3. x = 0
    BY <1>11, <2>2
  <2> QED BY <2>2, <2>3
<1>13. \A k \in 1..Len(recv) : k = 1 /\ recv[k] = l
  BY <1>11, <1>12
<1>14. LinksOK(recv, root, N)
  BY <1>6, <1>11, <1>13 DEF LinksOK
<1> QED BY <1>1, <1>2, <1>13, <1>14

LEMMA AliceSound ==
  ASSUME NEW p \in Party, NEW r, NEW N, NEW N2, NEW G, NEW M, NEW D, NEW L,
         r = FreshRecord \/ Sound(p, r, N, G, M, D, L),
         MsgsOK(M, N, G), D \subseteq M, Grows(G, G),
         NEW s, NEW z, NEW base, NEW signed, NEW ratchet,
         AliceReady(s, z, base, signed, ratchet), TwoNewKeys(p, base, ratchet, N, N2),
         signed \in Pub, signed[1] = "signed", signed[2] # p,
         SecretOK(z, base, N2, G), OneTimePart(z) \intersect L = {},
         NEW r2, r2 = WithNew(r, s)
  PROVE  Sound(p, r2, N2, G, M, D, L)
<1>1. /\ DOMAIN s = StateFields /\ s.base = base /\ s.ratchet = ratchet /\ s.index = 0
      /\ s.root = Append(DerivedKeys(z), {signed, ratchet}) /\ s.chain = s.root
      /\ s.recv = AddReceiverChain(<<>>, signed, DerivedKeys(z))
      /\ s.pending.base = base
  BY DEF AliceReady
<1>2. /\ base[2] = p /\ base[4] = N[p] + 1
      /\ ratchet \in Pub /\ ratchet[1] = "ephemeral" /\ ratchet[2] = p /\ ratchet[4] = N2[p]
      /\ N2[p] \in Nat /\ Grows(N, N2)
  BY DEF TwoNewKeys, Grows
<1>3. IsSeq(s.root) /\ Len(s.root) = 2 /\ s.root[1] = z /\ Newest(s.root) = {signed, ratchet}
  <2> DEFINE d == DerivedKeys(z)
  <2>1. IsSeq(d) /\ Len(d) = 1 /\ d[1] = z
    BY OnePath
  <2>2. s.root = Append(d, {signed, ratchet})
    BY <1>1
  <2>3. Len(d) >= 1
    BY <2>1
  <2> HIDE DEF d
  <2>4. Extends(d, s.root, {signed, ratchet})
    BY <2>1, <2>2, <2>3, AppendPath
  <2> QED BY <2>1, <2>4 DEF Extends
<1>4. LinksOK(s.recv, s.root, N2) /\ \A k \in 1..Len(s.recv) : Len(s.recv[k].chain) = 1
  <2> DEFINE recv == s.recv
             root == s.root
  <2>1. recv = AddReceiverChain(<<>>, signed, DerivedKeys(z)) /\ root[1] = z /\ Len(root) = 2
    BY <1>1, <1>3
  <2> HIDE DEF recv, root
  <2>2. LinksOK(recv, root, N2) /\ \A k \in 1..Len(recv) : Len(recv[k].chain) = 1
    BY <2>1, AliceLinks
  <2> QED BY <2>2 DEF recv, root
<1>5. \A k \in 1..Len(s.recv) : Newest(s.recv[k].chain) = {}
  BY <1>4 DEF Newest
<1>6. KnownIn(Newest(s.root), N2)
  <2>1. ASSUME NEW k \in {signed, ratchet}
        PROVE  k \in Pub /\ (k[1] = "ephemeral" => k[4] <= N2[k[2]])
    BY <1>2
  <2> QED BY <1>3, <2>1 DEF KnownIn
<1>7. SenderOK(p, s, N2, G)
  <2>1. Len(s.root) % 2 = Parity(p, s.base) /\ Len(s.root) >= 2
    BY <1>1, <1>2, <1>3 DEF Parity
  <2>2. \E t \in Newest(s.root) : t \in Pub /\ t[2] # p /\ Newest(s.root) = {t, s.ratchet}
    <3>1. signed \in Newest(s.root) /\ Newest(s.root) = {signed, s.ratchet}
      BY <1>1, <1>3
    <3> QED BY <3>1
  <2>3. s.index \in Nat
    BY <1>1
  <2>4. SecretOK(s.root[1], s.base, N2, G)
    BY <1>1, <1>3
  <2>5. s.ratchet \in Pub /\ s.ratchet[1] = "ephemeral" /\ s.ratchet[2] = p
    BY <1>1, <1>2
  <2> QED BY <1>1, <1>3, <1>6, <2>1, <2>2, <2>3, <2>4, <2>5 DEF SenderOK
<1>8. StateOK(p, s, N2, G)
  BY <1>1, <1>4, <1>7 DEF StateOK
<1>9. Alone(s)
  BY <1>5 DEF Alone
<1>10. ASSUME NEW n \in M
       PROVE  ratchet \notin Newest(n.chain) /\ Len(n.chain) >= 2
  <2>1. MsgOK(n, N, G)
    BY DEF MsgsOK
  <2>2. KnownIn(Newest(n.chain), N) /\ Len(n.chain) >= 2
    BY <2>1 DEF MsgOK
  <2> QED BY <2>2, NewKeysUnknown
<1>11. StateSound(s, M, D, L)
  <2>1. \A n \in M : n.chain # s.chain
    BY <1>1, <1>3, <1>10
  <2>2. ASSUME NEW n \in D
        PROVE  Gone(s, n)
    <3>1. Len(n.chain) >= 2 /\ s.ratchet \notin Newest(n.chain)
      BY <1>1, <1>10
    <3>2. ASSUME NEW k \in 1..Len(s.recv)
          PROVE  s.recv[k].chain # n.chain
      <4>1. Len(s.recv[k].chain) = 1
        BY <1>4
      <4>2. ~(1 >= 2)
        OBVIOUS
      <4> QED BY <3>1, <4>1, <4>2
    <3> QED BY <3>1, <3>2 DEF Gone, Yields
  <2>3. OneTimePart(s.root[1]) \intersect L = {}
    BY <1>3
  <2> QED BY <2>1, <2>2, <2>3 DEF StateSound
<1>12. ASSUME r # FreshRecord, NEW j \in Slots(r)
       PROVE  Beside(s, At(r, j))
  <2> DEFINE t == At(r, j)
  <2>1. StateOK(p, t, N, G)
    BY <1>12 DEF Sound, RecordOK
  <2> HIDE DEF t
  <2>2. /\ t.ratchet \in Newest(t.root) /\ KnownIn(Newest(t.root), N)
        /\ SecretOK(t.root[1], t.base, N, G)
        /\ \A k \in 1..Len(t.recv) : KnownIn(Newest(t.recv[k].chain), N)
    BY <2>1, StateKeys
  <2>3. ratchet # t.ratchet
    BY <2>2, NewKeysUnknown
  <2>4. \A k \in 1..Len(t.recv) : ratchet \notin Newest(t.recv[k].chain)
    BY <2>2, NewKeysUnknown
  <2>5. base # t.base
    <3>1. KnownIn({t.base}, N)
      BY <2>2 DEF SecretOK, KnownIn
    <3> QED BY <3>1, NewKeysUnknown
  <2>6. \A k \in 1..Len(s.recv) : t.ratchet \notin Newest(s.recv[k].chain)
    BY <1>5
  <2>7. Beside(s, t)
    BY <1>1, <2>3, <2>4, <2>5, <2>6 DEF Beside
  <2> QED BY <2>7 DEF t
<1> QED
  <2>1. r # FreshRecord => \A j \in Slots(r) : Beside(s, At(r, j))
    BY <1>12
  <2> QED BY <1>2, <1>8, <1>9, <1>11, <2>1, SoundBuilt

-----------------------------------------------------------------------------
(* The inductive invariant                                                 *)

(* Messages p has committed and can never set up again.                    *)
DoneWith(p) == {m \in sent : m.to = p /\ accepted[m.id] > 0 /\ ~Renewable(m)}

(* A pre key that may outlive its session: the last-resort one, one whose  *)
(* removal failed, and the one that is being removed.                      *)
Excused(p, i) ==
  \/ i = LastResort
  \/ OneTime(p, i) \in leaked
  \/ op[p].stage = "remove" /\ op[p].remove = i

(* The other pre keys in the store: no session may have begun with them.   *)
Live(p) == {OneTime(p, i) : i \in {j \in opks[p] : ~Excused(p, j)}}

IVars ==
  /\ DOMAIN rec = Party /\ DOMAIN op = Party
  /\ nk \in [Party -> 0..MaxKeys]
  /\ resets \in 0..MaxResets /\ gen \in [Party -> 1..(1 + resets)]
  /\ opks \in [Party -> SUBSET PreKeyIds]
  /\ server \in [Party -> SUBSET (1..NumOneTime)]
  /\ used \in 0..MaxMsgs
  /\ accepted \in [1..MaxMsgs -> 0..2]
  /\ \A i \in 1..MaxMsgs : i > used => accepted[i] = 0
  /\ \A p \in Party : /\ DOMAIN op[p] = {"stage", "record", "id", "remove"}
                       /\ op[p].stage \in {"idle", "callback", "remove"}

IMsgs ==
  /\ MsgsOK(sent, nk, gen)
  /\ \A m \in sent : m.id \in 1..used
  /\ \A m, n \in sent : m.id = n.id => m = n
  /\ NoMessageKeyReuse

StoredOK(p) ==
  rec[p] = FreshRecord \/ Sound(p, rec[p], nk, gen, sent, DoneWith(p), Live(p))

(* A decrypt call that waits for its callback.                             *)
CallOK(p) ==
  op[p].stage = "callback" =>
    \E m \in sent :
      /\ m.id = op[p].id /\ m.to = p
      /\ Outcome(p, op[p].record, m, nk, gen, sent, DoneWith(p),
                 Live(p) \ {OneTime(p, op[p].remove)})

SpentOK(p) ==
  \A m \in sent : m.to # p \/ accepted[m.id] > 0 =>
    OneTimePart(m.chain[1]) \intersect Live(p) = {}

PartyOK(p) == StoredOK(p) /\ CallOK(p) /\ SpentOK(p)

SessInv ==
  /\ IVars /\ IMsgs
  /\ \A p \in Party : PartyOK(p)
  /\ AtMostOnce

LEMMA SessInit == Init => SessInv
<1> SUFFICES ASSUME Init PROVE SessInv
  OBVIOUS
<1>1. IVars
  <2>1. /\ DOMAIN rec = Party /\ DOMAIN op = Party
        /\ nk = [p \in Party |-> 0] /\ resets = 0 /\ gen = [p \in Party |-> 1]
        /\ opks = [p \in Party |-> PreKeyIds] /\ server = [p \in Party |-> 1..NumOneTime]
        /\ used = 0 /\ accepted = [i \in 1..MaxMsgs |-> 0]
    BY DEF Init
  <2>2. \A p \in Party : /\ op[p].stage = "idle"
                          /\ DOMAIN op[p] = {"stage", "record", "id", "remove"}
    BY DEF Init, NoOp
  <2>3. MaxKeys \in Nat /\ MaxResets \in Nat /\ MaxMsgs \in Nat
    BY SessionBounds
  <2> QED BY <2>1, <2>2, <2>3 DEF IVars
<1>2. sent = {} /\ \A p \in Party : rec[p] = FreshRecord /\ op[p].stage = "idle"
  BY DEF Init, NoOp
<1>3. IMsgs /\ AtMostOnce
  BY <1>2 DEF IMsgs, MsgsOK, NoMessageKeyReuse, AtMostOnce
<1>4. \A p \in Party : PartyOK(p)
  BY <1>2 DEF PartyOK, StoredOK, CallOK, SpentOK
<1> QED BY <1>1, <1>3, <1>4 DEF SessInv

(* What a step leaves alone                                                *)

LEMMA RenewableStays ==
  ASSUME NEW m, Renewable(m), leaked \subseteq leaked'
  PROVE  Renewable(m)'
BY DEF Renewable, OneTimeAgreement

LEMMA LiveShrinks ==
  ASSUME NEW p, op'[p] = op[p], gen'[p] = gen[p], opks'[p] \subseteq opks[p],
         leaked \subseteq leaked'
  PROVE  Live(p)' \subseteq Live(p)
<1>1. \A i : OneTime(p, i)' = OneTime(p, i)
  BY DEF OneTime
<1>2. \A i : Excused(p, i) => Excused(p, i)'
  BY <1>1 DEF Excused
<1> QED BY <1>1, <1>2 DEF Live

LEMMA DoneShrinks ==
  ASSUME NEW p, sent' = sent, \A m \in sent : m.to = p => accepted'[m.id] = accepted[m.id],
         leaked \subseteq leaked'
  PROVE  DoneWith(p)' \subseteq DoneWith(p)
<1> SUFFICES ASSUME NEW m \in DoneWith(p)'
             PROVE  m \in DoneWith(p)
  OBVIOUS
<1>1. m \in sent /\ m.to = p /\ accepted'[m.id] > 0 /\ ~Renewable(m)'
  BY DEF DoneWith
<1>2. ~Renewable(m)
  BY <1>1, RenewableStays
<1> QED BY <1>1, <1>2 DEF DoneWith

LEMMA StoredStays ==
  ASSUME NEW p, StoredOK(p), rec'[p] = rec[p], Grows(nk, nk'), Grows(gen, gen'),
         sent' = sent, DoneWith(p)' \subseteq DoneWith(p), Live(p)' \subseteq Live(p)
  PROVE  StoredOK(p)'
<1>1. CASE rec[p] = FreshRecord
  BY <1>1 DEF StoredOK
<1>2. CASE Sound(p, rec[p], nk, gen, sent, DoneWith(p), Live(p))
  <2>1. Sound(p, rec[p], nk', gen', sent, DoneWith(p)', Live(p)')
    BY <1>2, SoundGrows
  <2>2. Sound(p, rec[p], nk, gen, sent, DoneWith(p), Live(p))'
    BY <2>1
  <2> QED BY <2>2 DEF StoredOK
<1> QED BY <1>1, <1>2 DEF StoredOK

LEMMA CallStays ==
  ASSUME NEW p, CallOK(p), op'[p] = op[p], gen'[p] = gen[p], Grows(nk, nk'), Grows(gen, gen'),
         sent' = sent, DoneWith(p)' \subseteq DoneWith(p), Live(p)' \subseteq Live(p)
  PROVE  CallOK(p)'
<1> SUFFICES ASSUME op[p].stage = "callback"
             PROVE  CallOK(p)'
  BY DEF CallOK
<1> DEFINE L == Live(p) \ {OneTime(p, op[p].remove)}
           L2 == Live(p)' \ {OneTime(p, op[p].remove)}
<1>1. PICK m \in sent : /\ m.id = op[p].id /\ m.to = p
                        /\ Outcome(p, op[p].record, m, nk, gen, sent, DoneWith(p), L)
  BY DEF CallOK
<1>2. L2 \subseteq L
  OBVIOUS
<1> HIDE DEF L, L2
<1>3. Sound(p, op[p].record, nk', gen', sent, DoneWith(p)', L2)
  BY <1>1, <1>2, SoundGrows DEF Outcome
<1>4. Outcome(p, op[p].record, m, nk', gen', sent, DoneWith(p)', L2)
  BY <1>1, <1>3 DEF Outcome
<1>5. L2 = (Live(p) \ {OneTime(p, op[p].remove)})'
  BY DEF L2, OneTime
<1>6. Outcome(p, op[p].record, m, nk, gen, sent, DoneWith(p), Live(p) \ {OneTime(p, op[p].remove)})'
  BY <1>4, <1>5
<1> QED BY <1>1, <1>6 DEF CallOK

LEMMA SpentStays ==
  ASSUME NEW p, SpentOK(p), sent' = sent, Live(p)' \subseteq Live(p),
         \A m \in sent : m.to = p => accepted'[m.id] = accepted[m.id]
  PROVE  SpentOK(p)'
<1> SUFFICES ASSUME NEW m \in sent, m.to # p \/ accepted'[m.id] > 0
             PROVE  OneTimePart(m.chain[1]) \intersect Live(p)' = {}
  BY DEF SpentOK
<1>1. m.to # p \/ accepted[m.id] > 0
  OBVIOUS
<1>2. OneTimePart(m.chain[1]) \intersect Live(p) = {}
  BY <1>1 DEF SpentOK
<1> QED BY <1>2

LEMMA PartyStays ==
  ASSUME NEW p, PartyOK(p), rec'[p] = rec[p], op'[p] = op[p], gen'[p] = gen[p],
         opks'[p] \subseteq opks[p], leaked \subseteq leaked', sent' = sent,
         Grows(nk, nk'), Grows(gen, gen'),
         \A m \in sent : m.to = p => accepted'[m.id] = accepted[m.id]
  PROVE  PartyOK(p)'
<1>1. Live(p)' \subseteq Live(p) /\ DoneWith(p)' \subseteq DoneWith(p)
  BY LiveShrinks, DoneShrinks
<1>2. StoredOK(p)'
  BY <1>1, StoredStays DEF PartyOK
<1>3. CallOK(p)'
  BY <1>1, CallStays DEF PartyOK
<1>4. SpentOK(p)'
  BY <1>1, SpentStays DEF PartyOK
<1> QED BY <1>2, <1>3, <1>4 DEF PartyOK

LEMMA MsgsStay ==
  ASSUME IMsgs, sent' = sent, used' = used, Grows(nk, nk'), Grows(gen, gen')
  PROVE  IMsgs'
<1>1. \A m \in sent : MsgOK(m, nk', gen')
  BY MsgGrows DEF IMsgs, MsgsOK
<1>2. MsgsOK(sent, nk, gen)'
  BY <1>1 DEF MsgsOK
<1> QED BY <1>2 DEF IMsgs, NoMessageKeyReuse

LEMMA OnceStays ==
  ASSUME AtMostOnce, sent' = sent, accepted' = accepted, leaked \subseteq leaked'
  PROVE  AtMostOnce'
BY RenewableStays DEF AtMostOnce

LEMMA CountersGrow ==
  ASSUME IVars
  PROVE  Grows(nk, nk) /\ Grows(gen, gen)
<1>1. \A q \in Party : nk[q] \in Nat /\ gen[q] \in Nat
  BY SessionBounds DEF IVars
<1> QED BY <1>1 DEF Grows

-----------------------------------------------------------------------------
(* The steps                                                               *)

LEMMA LiveShrinksBy ==
  ASSUME NEW p, gen'[p] = gen[p], opks'[p] \subseteq opks[p], leaked \subseteq leaked',
         op[p].stage = "remove" => \A i \in opks'[p] : i = op[p].remove => OneTime(p, i) \in leaked'
  PROVE  Live(p)' \subseteq Live(p)
<1>1. \A i : OneTime(p, i)' = OneTime(p, i)
  BY DEF OneTime
<1>2. \A i \in opks'[p] : Excused(p, i) => Excused(p, i)'
  BY <1>1 DEF Excused
<1> QED BY <1>1, <1>2 DEF Live

(* Only identities are saved, counters of the bounds apart.                *)
LEMMA QuietStep ==
  ASSUME SessInv,
         UNCHANGED <<rec, opks, gen, server, op, nk, sent, used, accepted, leaked, resets>>
  PROVE  SessInv'
<1>1. IVars /\ IMsgs /\ AtMostOnce /\ \A q \in Party : PartyOK(q)
  BY DEF SessInv
<1>2. Grows(nk, nk') /\ Grows(gen, gen')
  BY <1>1, CountersGrow
<1>3. IVars'
  BY <1>1 DEF IVars
<1>4. IMsgs' /\ AtMostOnce'
  BY <1>1, <1>2, MsgsStay, OnceStays
<1>5. \A q \in Party : PartyOK(q)'
  BY <1>1, <1>2, PartyStays
<1> QED BY <1>3, <1>4, <1>5 DEF SessInv

LEMMA DeleteStep ==
  ASSUME SessInv, NEW p \in Party, DeleteSession(p)
  PROVE  SessInv'
<1>1. /\ UNCHANGED <<opks, gen, server, op, nk, sent, used, accepted, leaked>>
      /\ rec' = [rec EXCEPT ![p] = FreshRecord] /\ resets < MaxResets /\ resets' = resets + 1
  BY DEF DeleteSession
<1>2. IVars /\ IMsgs /\ AtMostOnce /\ \A q \in Party : PartyOK(q)
  BY DEF SessInv
<1>3. Grows(nk, nk') /\ Grows(gen, gen')
  BY <1>1, <1>2, CountersGrow
<1>4. IVars'
  <2>1. MaxResets \in Nat
    BY SessionBounds
  <2>2. resets' \in 0..MaxResets /\ 1..(1 + resets) \subseteq 1..(1 + resets')
    BY <1>1, <1>2, <2>1 DEF IVars
  <2>3. gen' \in [Party -> 1..(1 + resets')]
    BY <1>1, <1>2, <2>2 DEF IVars
  <2>4. DOMAIN rec' = Party
    BY <1>1, <1>2 DEF IVars
  <2> QED BY <1>1, <1>2, <2>2, <2>3, <2>4 DEF IVars
<1>5. IMsgs' /\ AtMostOnce'
  BY <1>1, <1>2, <1>3, MsgsStay, OnceStays
<1>6. rec'[p] = FreshRecord /\ \A q \in Party : q # p => rec'[q] = rec[q]
  BY <1>1, <1>2 DEF IVars
<1>7. ASSUME NEW q \in Party
      PROVE  PartyOK(q)'
  <2>1. CASE q # p
    BY <1>1, <1>2, <1>3, <1>6, <2>1, PartyStays
  <2>2. CASE q = p
    <3>1. StoredOK(p)'
      BY <1>6 DEF StoredOK
    <3>2. Live(p)' \subseteq Live(p) /\ DoneWith(p)' \subseteq DoneWith(p)
      BY <1>1, LiveShrinks, DoneShrinks
    <3>3. CallOK(p)'
      BY <1>1, <1>2, <1>3, <3>2, CallStays DEF PartyOK
    <3>4. SpentOK(p)'
      BY <1>1, <1>2, <3>2, SpentStays DEF PartyOK
    <3> QED BY <2>2, <3>1, <3>3, <3>4 DEF PartyOK
  <2> QED BY <2>1, <2>2
<1> QED BY <1>4, <1>5, <1>7 DEF SessInv

LEMMA NoOpShape ==
  NoOp.stage = "idle" /\ DOMAIN NoOp = {"stage", "record", "id", "remove"}
BY DEF NoOp

LEMMA AbortStep ==
  ASSUME SessInv, NEW p \in Party, AbortDecrypt(p)
  PROVE  SessInv'
<1>1. /\ UNCHANGED <<rec, opks, gen, server, nk, sent, used, accepted, leaked, resets>>
      /\ op' = [op EXCEPT ![p] = NoOp] /\ op[p].stage = "callback"
  BY DEF AbortDecrypt
<1>2. IVars /\ IMsgs /\ AtMostOnce /\ \A q \in Party : PartyOK(q)
  BY DEF SessInv
<1>3. Grows(nk, nk') /\ Grows(gen, gen')
  BY <1>1, <1>2, CountersGrow
<1>4. /\ op'[p].stage = "idle" /\ DOMAIN op' = Party
      /\ DOMAIN op'[p] = {"stage", "record", "id", "remove"}
      /\ \A q \in Party : q # p => op'[q] = op[q]
  BY <1>1, <1>2, NoOpShape DEF IVars
<1>5. IVars'
  BY <1>1, <1>2, <1>4 DEF IVars
<1>6. IMsgs' /\ AtMostOnce'
  BY <1>1, <1>2, <1>3, MsgsStay, OnceStays
<1>7. ASSUME NEW q \in Party
      PROVE  PartyOK(q)'
  <2>1. CASE q # p
    BY <1>1, <1>2, <1>3, <1>4, <2>1, PartyStays
  <2>2. CASE q = p
    <3>1. Live(p)' \subseteq Live(p) /\ DoneWith(p)' \subseteq DoneWith(p)
      BY <1>1, LiveShrinksBy, DoneShrinks
    <3>2. StoredOK(p)'
      BY <1>1, <1>2, <1>3, <3>1, StoredStays DEF PartyOK
    <3>3. CallOK(p)'
      BY <1>4 DEF CallOK
    <3>4. SpentOK(p)'
      BY <1>1, <1>2, <3>1, SpentStays DEF PartyOK
    <3> QED BY <2>2, <3>2, <3>3, <3>4 DEF PartyOK
  <2> QED BY <2>1, <2>2
<1> QED BY <1>5, <1>6, <1>7 DEF SessInv

LEMMA RemoveStep ==
  ASSUME SessInv, NEW p \in Party, RemovePreKey(p)
  PROVE  SessInv'
<1>1. /\ UNCHANGED <<rec, gen, server, nk, sent, used, accepted, resets>>
      /\ op' = [op EXCEPT ![p] = NoOp] /\ op[p].stage = "remove"
      /\ \/ opks' = [opks EXCEPT ![p] = @ \ {op[p].remove}] /\ leaked' = leaked
         \/ opks' = opks /\ leaked' = leaked \union {OneTime(p, op[p].remove)}
  BY DEF RemovePreKey
<1>2. IVars /\ IMsgs /\ AtMostOnce /\ \A q \in Party : PartyOK(q)
  BY DEF SessInv
<1>3. Grows(nk, nk') /\ Grows(gen, gen')
  BY <1>1, <1>2, CountersGrow
<1>4. /\ op'[p].stage = "idle" /\ DOMAIN op' = Party
      /\ DOMAIN op'[p] = {"stage", "record", "id", "remove"}
      /\ \A q \in Party : q # p => op'[q] = op[q]
  BY <1>1, <1>2, NoOpShape DEF IVars
<1>5. /\ leaked \subseteq leaked' /\ opks' \in [Party -> SUBSET PreKeyIds]
      /\ \A q \in Party : opks'[q] \subseteq opks[q]
      /\ \A i \in opks'[p] : i = op[p].remove => OneTime(p, i) \in leaked'
  <2> DEFINE x == op[p].remove
  <2>1. opks \in [Party -> SUBSET PreKeyIds]
    BY <1>2 DEF IVars
  <2>2. \/ opks' = [opks EXCEPT ![p] = opks[p] \ {x}] /\ leaked' = leaked
        \/ opks' = opks /\ leaked' = leaked \union {OneTime(p, x)}
    BY <1>1
  <2> HIDE DEF x
  <2>3. CASE opks' = [opks EXCEPT ![p] = opks[p] \ {x}] /\ leaked' = leaked
    <3>1. opks'[p] = opks[p] \ {x} /\ \A q \in Party : q # p => opks'[q] = opks[q]
      BY <2>1, <2>3
    <3>2. opks' \in [Party -> SUBSET PreKeyIds]
      BY <2>1, <2>3
    <3> QED BY <2>3, <3>1, <3>2 DEF x
  <2>4. CASE opks' = opks /\ leaked' = leaked \union {OneTime(p, x)}
    BY <2>1, <2>4 DEF x
  <2> QED BY <2>2, <2>3, <2>4
<1>6. IVars'
  BY <1>1, <1>2, <1>4, <1>5 DEF IVars
<1>7. IMsgs' /\ AtMostOnce'
  BY <1>1, <1>2, <1>3, <1>5, MsgsStay, OnceStays
<1>8. ASSUME NEW q \in Party
      PROVE  PartyOK(q)'
  <2>1. CASE q # p
    BY <1>1, <1>2, <1>3, <1>4, <1>5, <2>1, PartyStays
  <2>2. CASE q = p
    <3>1. Live(p)' \subseteq Live(p) /\ DoneWith(p)' \subseteq DoneWith(p)
      BY <1>1, <1>5, LiveShrinksBy, DoneShrinks
    <3>2. StoredOK(p)'
      BY <1>1, <1>2, <1>3, <3>1, StoredStays DEF PartyOK
    <3>3. CallOK(p)'
      BY <1>4 DEF CallOK
    <3>4. SpentOK(p)'
      BY <1>1, <1>2, <3>1, SpentStays DEF PartyOK
    <3> QED BY <2>2, <3>2, <3>3, <3>4 DEF PartyOK
  <2> QED BY <2>1, <2>2
<1> QED BY <1>6, <1>7, <1>8 DEF SessInv

LEMMA PreKeyIdNat ==
  ASSUME IVars, NEW p \in Party, NEW i \in opks[p]
  PROVE  i \in Nat /\ i # 0
<1>1. opks[p] \subseteq PreKeyIds
  BY DEF IVars
<1>2. LastResort \in Nat /\ NumOneTime \in Nat
  BY SessionBounds
<1> QED BY <1>1, <1>2 DEF PreKeyIds

LEMMA LiveKeys ==
  ASSUME NEW p \in Party, IVars, NEW k \in Live(p)
  PROVE  /\ \E i \in opks[p] : i # 0 /\ ~Excused(p, i) /\ k = OneTime(p, i)
         /\ k[1] = "onetime" /\ k[2] = p /\ k[3] = gen[p]
<1>1. PICK i \in opks[p] : ~Excused(p, i) /\ k = OneTime(p, i)
  BY DEF Live
<1>2. i # 0
  BY DEF IVars, PreKeyIds
<1>3. k = Key("onetime", p, gen[p], i)
  BY <1>1, <1>2 DEF OneTime
<1>4. k[1] = "onetime" /\ k[2] = p /\ k[3] = gen[p]
  BY <1>3, KeyParts
<1> QED BY <1>1, <1>2, <1>4

LEMMA ReinstallStep ==
  ASSUME SessInv, NEW p \in Party, Reinstall(p)
  PROVE  SessInv'
<1>1. /\ UNCHANGED <<nk, sent, used, accepted, leaked>>
      /\ rec' = [rec EXCEPT ![p] = FreshRecord] /\ resets < MaxResets /\ resets' = resets + 1
      /\ gen' = [gen EXCEPT ![p] = @ + 1] /\ opks' = [opks EXCEPT ![p] = PreKeyIds]
      /\ server' = [server EXCEPT ![p] = 1..NumOneTime]
      /\ op' = [op EXCEPT ![p] = NoOp]
  BY DEF Reinstall
<1>2. IVars /\ IMsgs /\ AtMostOnce /\ \A q \in Party : PartyOK(q)
  BY DEF SessInv
<1>3. /\ resets \in Nat /\ MaxResets \in Nat /\ resets' \in 0..MaxResets
      /\ gen \in [Party -> 1..(1 + resets)]
  BY <1>1, <1>2, SessionBounds DEF IVars
<1>4. /\ gen' \in [Party -> 1..(1 + resets')] /\ gen'[p] = gen[p] + 1
      /\ \A q \in Party : q # p => gen'[q] = gen[q]
  <2>1. \A q \in Party : gen[q] \in 1..(1 + resets)
    BY <1>3
  <2>2. gen[p] + 1 \in 1..(1 + resets') /\ \A q \in Party : gen[q] \in 1..(1 + resets')
    BY <1>1, <1>3, <2>1
  <2> QED BY <1>1, <1>3, <2>2
<1>5. Grows(nk, nk')
  BY <1>1, <1>2, CountersGrow
<1>6. Grows(gen, gen')
  <2>1. \A q \in Party : gen[q] \in Nat
    BY <1>3
  <2> QED BY <1>4, <2>1 DEF Grows
<1>7. /\ op'[p].stage = "idle" /\ DOMAIN op' = Party
      /\ DOMAIN op'[p] = {"stage", "record", "id", "remove"}
      /\ \A q \in Party : q # p => op'[q] = op[q]
  BY <1>1, <1>2, NoOpShape DEF IVars
<1>8. /\ DOMAIN rec' = Party /\ rec'[p] = FreshRecord
      /\ \A q \in Party : q # p => rec'[q] = rec[q]
  BY <1>1, <1>2 DEF IVars
<1>9. /\ opks' \in [Party -> SUBSET PreKeyIds]
      /\ \A q \in Party : q # p => opks'[q] = opks[q]
  BY <1>1, <1>2 DEF IVars
<1>10. server' \in [Party -> SUBSET (1..NumOneTime)]
  BY <1>1, <1>2 DEF IVars
<1>11. IVars'
  BY <1>1, <1>2, <1>3, <1>4, <1>7, <1>8, <1>9, <1>10 DEF IVars
<1>12. IMsgs' /\ AtMostOnce'
  BY <1>1, <1>2, <1>5, <1>6, MsgsStay, OnceStays
<1>13. SpentOK(p)'
  <2> SUFFICES ASSUME NEW m \in sent, NEW k \in OneTimePart(m.chain[1]), k \in Live(p)'
               PROVE  FALSE
    BY <1>1 DEF SpentOK
  <2>1. k[1] = "onetime" /\ k[2] = p /\ k[3] = gen'[p]
    <3>1. PICK i \in opks'[p] : k = OneTime(p, i)'
      BY DEF Live
    <3>2. i # 0
      BY <1>9 DEF PreKeyIds
    <3>3. k = Key("onetime", p, gen'[p], i)
      BY <3>1, <3>2 DEF OneTime
    <3> QED BY <3>3, KeyParts
  <2>2. PICK b : SecretOK(m.chain[1], b, nk, gen)
    BY <1>2 DEF IMsgs, MsgsOK, MsgOK
  <2>3. IssuedIn(OneTimePart(m.chain[1]), gen)
    BY <2>2 DEF SecretOK, OneTimePart, IssuedIn
  <2>4. gen'[p] <= gen[p]
    BY <2>1, <2>3 DEF IssuedIn
  <2>5. gen[p] \in Nat
    BY <1>3
  <2> QED BY <1>4, <2>4, <2>5
<1>14. ASSUME NEW q \in Party
       PROVE  PartyOK(q)'
  <2>1. CASE q # p
    BY <1>1, <1>2, <1>4, <1>5, <1>6, <1>7, <1>8, <1>9, <2>1, PartyStays
  <2>2. CASE q = p
    <3>1. StoredOK(p)'
      BY <1>8 DEF StoredOK
    <3>2. CallOK(p)'
      BY <1>7 DEF CallOK
    <3> QED BY <1>13, <2>2, <3>1, <3>2 DEF PartyOK
  <2> QED BY <2>1, <2>2
<1> QED BY <1>11, <1>12, <1>14 DEF SessInv

LEMMA SoundErased ==
  ASSUME NEW p, NEW r, NEW m, NEW N, NEW G, NEW M, NEW D, NEW L,
         Sound(p, r, N, G, M, D, L), Erased(r, m)
  PROVE  Sound(p, r, N, G, M, D \union {m}, L)
<1>1. ASSUME NEW j \in Slots(r)
      PROVE  StateSound(At(r, j), M, D \union {m}, L)
  <2>1. StateSound(At(r, j), M, D, L) /\ Gone(At(r, j), m)
    BY DEF Sound, Erased
  <2> QED BY <2>1 DEF StateSound
<1> QED BY <1>1 DEF Sound

LEMMA StoreStep ==
  ASSUME SessInv, NEW p \in Party, StoreSession(p)
  PROVE  SessInv'
<1> DEFINE id == op[p].id
           rm == op[p].remove
           r == op[p].record
<1>1. /\ UNCHANGED <<opks, gen, server, nk, sent, used, leaked, resets>>
      /\ op[p].stage = "callback"
      /\ rec' = [rec EXCEPT ![p] = r]
      /\ accepted' = [accepted EXCEPT ![id] = IF @ = 0 THEN 1 ELSE 2]
      /\ op' = [op EXCEPT ![p] = IF rm = 0 THEN NoOp ELSE [@ EXCEPT !.stage = "remove"]]
  BY DEF StoreSession
<1>2. IVars /\ IMsgs /\ AtMostOnce /\ \A q \in Party : PartyOK(q)
  BY DEF SessInv
<1>3. Grows(nk, nk) /\ Grows(gen, gen)
  BY <1>2, CountersGrow
<1> DEFINE L == Live(p) \ {OneTime(p, rm)}
<1>4. PICK m \in sent : /\ m.id = id /\ m.to = p
                        /\ Outcome(p, r, m, nk, gen, sent, DoneWith(p), L)
  BY <1>1, <1>2 DEF PartyOK, CallOK
<1>5. id \in 1..MaxMsgs /\ id <= used
  <2>1. id \in 1..used /\ used \in 0..MaxMsgs /\ MaxMsgs \in Nat
    BY <1>2, <1>4, SessionBounds DEF IMsgs, IVars
  <2> QED BY <2>1
<1>6. /\ accepted' \in [1..MaxMsgs -> 0..2] /\ accepted'[id] = (IF accepted[id] = 0 THEN 1 ELSE 2)
      /\ \A i \in 1..MaxMsgs : i # id => accepted'[i] = accepted[i]
  <2>1. accepted \in [1..MaxMsgs -> 0..2]
    BY <1>2 DEF IVars
  <2> HIDE DEF id
  <2> QED BY <1>1, <1>5, <2>1
<1>7. /\ DOMAIN op' = Party /\ DOMAIN op'[p] = {"stage", "record", "id", "remove"}
      /\ op'[p].stage \in {"idle", "remove"}
      /\ rm # 0 => op'[p].stage = "remove" /\ op'[p].remove = rm
      /\ \A q \in Party : q # p => op'[q] = op[q]
  <2> DEFINE o == op[p]
             o2 == IF rm = 0 THEN NoOp ELSE [o EXCEPT !.stage = "remove"]
  <2>1. op' = [op EXCEPT ![p] = o2] /\ DOMAIN op = Party
    BY <1>1, <1>2 DEF IVars
  <2>2. DOMAIN o = {"stage", "record", "id", "remove"} /\ o.remove = rm
    BY <1>2 DEF IVars
  <2> HIDE DEF o, rm
  <2>3. /\ DOMAIN o2 = {"stage", "record", "id", "remove"}
        /\ o2.stage \in {"idle", "remove"}
        /\ rm # 0 => o2.stage = "remove" /\ o2.remove = rm
    BY <2>2, NoOpShape
  <2> HIDE DEF o2
  <2> QED BY <2>1, <2>3
<1>8. /\ DOMAIN rec' = Party /\ rec'[p] = r
      /\ \A q \in Party : q # p => rec'[q] = rec[q]
  BY <1>1, <1>2 DEF IVars
<1> HIDE DEF id, rm, r, L
<1>9. IVars'
  <2>1. \A i \in 1..MaxMsgs : i > used' => accepted'[i] = 0
    BY <1>1, <1>2, <1>5, <1>6 DEF IVars
  <2> QED BY <1>1, <1>2, <1>6, <1>7, <1>8, <2>1 DEF IVars
<1>10. IMsgs'
  BY <1>1, <1>2, <1>3, MsgsStay
<1>11. ASSUME NEW n \in sent, n # m
       PROVE  accepted'[n.id] = accepted[n.id]
  <2>1. n.id # id
    BY <1>2, <1>4, <1>11 DEF IMsgs
  <2>2. n.id \in 1..used /\ used \in 0..MaxMsgs /\ MaxMsgs \in Nat
    BY <1>2, SessionBounds DEF IMsgs, IVars
  <2> QED BY <1>6, <2>1, <2>2
<1>12. \A n : Renewable(n)' <=> Renewable(n)
  BY <1>1 DEF Renewable, OneTimeAgreement
<1>13. AtMostOnce'
  <2> SUFFICES ASSUME NEW n \in sent, accepted'[n.id] > 1
               PROVE  Renewable(n)
    BY <1>1, <1>12 DEF AtMostOnce
  <2>1. CASE n # m
    BY <1>2, <1>11, <2>1 DEF AtMostOnce
  <2>2. CASE n = m
    <3>1. accepted[id] # 0 /\ accepted[id] \in 0..2
      BY <1>2, <1>4, <1>5, <1>6, <2>2 DEF IVars
    <3>2. accepted[m.id] > 0
      BY <1>4, <3>1
    <3>3. m \notin DoneWith(p)
      BY <1>4 DEF Outcome
    <3> QED BY <1>4, <2>2, <3>2, <3>3 DEF DoneWith
  <2> QED BY <2>1, <2>2
<1>14. DoneWith(p)' \subseteq DoneWith(p) \union {m}
  <2> SUFFICES ASSUME NEW n \in DoneWith(p)', n # m
               PROVE  n \in DoneWith(p)
    OBVIOUS
  <2>1. n \in sent /\ n.to = p /\ accepted'[n.id] > 0 /\ ~Renewable(n)
    BY <1>1, <1>12 DEF DoneWith
  <2> QED BY <1>11, <2>1 DEF DoneWith
<1>15. Live(p)' \subseteq L
  <2>1. \A i : OneTime(p, i)' = OneTime(p, i)
    BY <1>1 DEF OneTime
  <2> SUFFICES ASSUME NEW i \in opks[p], ~Excused(p, i)'
               PROVE  OneTime(p, i) \in L
    BY <1>1, <2>1 DEF Live
  <2>2. ~Excused(p, i)
    BY <1>1, <2>1 DEF Excused
  <2>3. i # 0
    BY <1>2 DEF IVars, PreKeyIds
  <2>4. i # rm
    BY <1>7, <2>3 DEF Excused
  <2>5. OneTime(p, i) # OneTime(p, rm)
    <3>1. OneTime(p, i)[1] = "onetime" /\ OneTime(p, i)[4] = i
      BY <2>3, KeyParts DEF OneTime
    <3>2. CASE rm = 0
      <4>1. OneTime(p, rm)[1] = "none"
        BY <3>2 DEF OneTime, NoKey
      <4> QED BY <3>1, <4>1
    <3>3. CASE rm # 0
      <4>1. OneTime(p, rm)[4] = rm
        BY <3>3, KeyParts DEF OneTime
      <4> QED BY <2>4, <3>1, <4>1
    <3> QED BY <3>2, <3>3
  <2> QED BY <2>2, <2>5 DEF L, Live
<1>16. Sound(p, r, nk, gen, sent, DoneWith(p)', Live(p)')
  <2>1. Sound(p, r, nk, gen, sent, DoneWith(p) \union {m}, L)
    BY <1>4, SoundErased DEF Outcome
  <2> QED BY <1>3, <1>14, <1>15, <2>1, SoundGrows
<1>17. StoredOK(p)'
  <2>1. Sound(p, rec[p], nk, gen, sent, DoneWith(p), Live(p))'
    BY <1>1, <1>8, <1>16
  <2> QED BY <2>1 DEF StoredOK
<1>18. CallOK(p)'
  BY <1>7 DEF CallOK
<1>19. SpentOK(p)'
  <2> SUFFICES ASSUME NEW n \in sent, n.to # p \/ accepted'[n.id] > 0
               PROVE  OneTimePart(n.chain[1]) \intersect Live(p)' = {}
    BY <1>1 DEF SpentOK
  <2>1. CASE n # m
    <3>1. n.to # p \/ accepted[n.id] > 0
      BY <1>11, <2>1
    <3>2. OneTimePart(n.chain[1]) \intersect Live(p) = {}
      BY <1>2, <3>1 DEF PartyOK, SpentOK
    <3> QED BY <1>15, <3>2 DEF L
  <2>2. CASE n = m
    <3>1. r.cur.root[1] = m.chain[1] /\ RecordOK(p, r, nk, gen)
      BY <1>4 DEF Outcome, Sound
    <3>2. 0 \in Slots(r) /\ At(r, 0) = r.cur
      BY <3>1, LenNat DEF RecordOK, Slots, At
    <3>3. StateSound(r.cur, sent, DoneWith(p), L)
      BY <1>4, <3>2 DEF Outcome, Sound
    <3> QED BY <1>15, <2>2, <3>1, <3>3 DEF StateSound
  <2> QED BY <2>1, <2>2
<1>20. ASSUME NEW q \in Party
       PROVE  PartyOK(q)'
  <2>1. CASE q # p
    <3>1. \A n \in sent : n.to = q => accepted'[n.id] = accepted[n.id]
      BY <1>4, <1>11, <2>1
    <3>2. /\ rec'[q] = rec[q] /\ op'[q] = op[q] /\ gen' = gen /\ nk' = nk /\ opks' = opks
          /\ leaked' = leaked /\ sent' = sent
      BY <1>1, <1>7, <1>8, <2>1
    <3> QED BY <1>2, <1>3, <3>1, <3>2, PartyStays
  <2>2. CASE q = p
    BY <1>17, <1>18, <1>19, <2>2 DEF PartyOK
  <2> QED BY <2>1, <2>2
<1> QED BY <1>9, <1>10, <1>13, <1>20 DEF SessInv

LEMMA KeysMade ==
  ASSUME IVars, NEW p \in Party, NEW n \in Nat
  PROVE  /\ Ephemeral(p, n) \in Pub /\ Ephemeral(p, n)[1] = "ephemeral"
         /\ Ephemeral(p, n)[2] = p /\ Ephemeral(p, n)[4] = n
         /\ Signed(p) \in Pub /\ Signed(p)[1] = "signed" /\ Signed(p)[2] = p
         /\ n = 0 => OneTime(p, n) = NoKey
         /\ n # 0 => /\ OneTime(p, n) # NoKey /\ OneTime(p, n) \in Pub
                     /\ OneTime(p, n)[1] = "onetime" /\ OneTime(p, n)[2] = p
                     /\ OneTime(p, n)[3] = gen[p] /\ OneTime(p, n)[4] = n
                     /\ OneTime(p, n)[3] <= gen[OneTime(p, n)[2]]
<1>1. gen[p] \in Nat /\ 0 \in Nat
  BY DEF IVars
<1>2. /\ Ephemeral(p, n) \in Pub /\ Ephemeral(p, n)[1] = "ephemeral"
      /\ Ephemeral(p, n)[2] = p /\ Ephemeral(p, n)[4] = n
  <2> DEFINE k == Key("ephemeral", p, 0, n)
  <2>1. k \in Pub /\ k[1] = "ephemeral" /\ k[2] = p /\ k[4] = n
    BY <1>1, KeyInPub, KeyParts
  <2> QED BY <2>1 DEF Ephemeral
<1>3. Signed(p) \in Pub /\ Signed(p)[1] = "signed" /\ Signed(p)[2] = p
  <2> DEFINE k == Key("signed", p, gen[p], 0)
  <2>1. k \in Pub /\ k[1] = "signed" /\ k[2] = p
    BY <1>1, KeyInPub, KeyParts
  <2> QED BY <2>1 DEF Signed
<1>4. n = 0 => OneTime(p, n) = NoKey
  BY DEF OneTime
<1>5. ASSUME n # 0
      PROVE  /\ OneTime(p, n) # NoKey /\ OneTime(p, n) \in Pub
             /\ OneTime(p, n)[1] = "onetime" /\ OneTime(p, n)[2] = p
             /\ OneTime(p, n)[3] = gen[p] /\ OneTime(p, n)[4] = n
             /\ OneTime(p, n)[3] <= gen[OneTime(p, n)[2]]
  <2> DEFINE k == Key("onetime", p, gen[p], n)
  <2>1. k \in Pub /\ k[1] = "onetime" /\ k[2] = p /\ k[3] = gen[p] /\ k[4] = n
    BY <1>1, KeyInPub, KeyParts, SMTT(30)
  <2>2. OneTime(p, n) = k
    BY <1>5 DEF OneTime
  <2>3. NoKey[1] = "none"
    BY DEF NoKey
  <2>4. k # NoKey
    BY <2>1, <2>3
  <2>5. k[3] <= gen[k[2]]
    BY <1>1, <2>1
  <2> HIDE DEF k
  <2> QED BY <2>1, <2>2, <2>4, <2>5
<1> QED BY <1>2, <1>3, <1>4, <1>5

(* Both ends of a session have the same secret.                            *)
LEMMA AliceSecretOK ==
  ASSUME NEW id, NEW base, NEW their, NEW signed, NEW ot, NEW N, NEW G,
         NEW z, z = AliceSecret(id, base, their, signed, ot),
         base \in Pub, base[1] = "ephemeral", base[4] <= N[base[2]], signed[1] = "signed",
         ot # NoKey => ot \in Pub /\ ot[1] = "onetime" /\ ot[3] <= G[ot[2]]
  PROVE  SecretOf(z, base, ot, N, G)
<1> DEFINE a == {signed, id}
           b == {their, base}
<1>1. {ot, base} = {base, ot}
  OBVIOUS
<1>2. z = FullSecret(a, b, base, signed, ot)
  BY <1>1, Zenon DEF AliceSecret, Agreement, FullSecret
<1> HIDE DEF a, b
<1> QED BY <1>2, SecretShape

LEMMA BobSecretOK ==
  ASSUME NEW id, NEW base, NEW their, NEW signed, NEW ot, NEW N, NEW G,
         NEW z, z = BobSecret(id, signed, ot, their, base),
         base \in Pub, base[1] = "ephemeral", base[4] <= N[base[2]], signed[1] = "signed",
         ot # NoKey => ot \in Pub /\ ot[1] = "onetime" /\ ot[3] <= G[ot[2]]
  PROVE  SecretOf(z, base, ot, N, G)
<1> DEFINE a == {their, signed}
           b == {base, id}
<1>1. {base, signed} = {signed, base}
  OBVIOUS
<1>2. z = FullSecret(a, b, base, signed, ot)
  BY <1>1, Zenon DEF BobSecret, Agreement, FullSecret
<1> HIDE DEF a, b
<1> QED BY <1>2, SecretShape

LEMMA BundleStep ==
  ASSUME SessInv, NEW p \in Party, NEW i \in Bundles(Peer(p)), ProcessPreKeyBundle(p, i)
  PROVE  SessInv'
<1> DEFINE q == Peer(p)
           base == Ephemeral(p, nk[p] + 1)
           ratchet == Ephemeral(p, nk[p] + 2)
           signed == Signed(q)
           ot == OneTime(q, i)
           s == AliceState(Identity(p), base, ratchet, Identity(q), signed, ot, i)
           z == AliceSecret(Identity(p), base, Identity(q), signed, ot)
           r2 == WithNew(rec[p], s)
<1>1. /\ UNCHANGED <<opks, gen, op, sent, used, accepted, leaked, resets>>
      /\ nk[p] + 2 <= MaxKeys
      /\ rec' = [rec EXCEPT ![p] = BundleRecord(p, i)]
      /\ nk' = [nk EXCEPT ![p] = @ + 2]
      /\ server' = [server EXCEPT ![q] = @ \ {i}]
  BY DEF ProcessPreKeyBundle
<1>2. IVars /\ IMsgs /\ AtMostOnce /\ \A o \in Party : PartyOK(o)
  BY DEF SessInv
<1>3. BundleRecord(p, i) = r2
  BY DEF BundleRecord, WithNew
<1>4. q \in Party /\ q # p
  BY PeerIsOther
<1> HIDE DEF q
<1>5. i \in Nat
  BY <1>2, <1>4, SessionBounds, SMTT(30) DEF Bundles, IVars, q
<1>6. MaxKeys \in Nat /\ nk \in [Party -> 0..MaxKeys]
  BY <1>2, SessionBounds DEF IVars
<1>7. /\ nk' \in [Party -> 0..MaxKeys] /\ nk'[p] = nk[p] + 2 /\ nk[p] \in Nat
      /\ \A o \in Party : o # p => nk'[o] = nk[o]
  BY <1>1, <1>6
<1>8. Grows(nk, nk')
  <2>1. \A o \in Party : nk[o] \in Nat
    BY <1>6
  <2> QED BY <1>7, <2>1 DEF Grows
<1>9. Grows(gen, gen') /\ Grows(gen, gen)
  BY <1>1, <1>2, CountersGrow
<1>10. IVars'
  <2>1. server' \in [Party -> SUBSET (1..NumOneTime)]
    BY <1>1, <1>2, <1>4 DEF IVars
  <2>2. DOMAIN rec' = Party
    BY <1>1, <1>2 DEF IVars
  <2> QED BY <1>1, <1>2, <1>7, <2>1, <2>2 DEF IVars
<1>11. IMsgs' /\ AtMostOnce'
  BY <1>1, <1>2, <1>8, <1>9, MsgsStay, OnceStays
<1>12. rec'[p] = r2 /\ \A o \in Party : o # p => rec'[o] = rec[o]
  BY <1>1, <1>2, <1>3 DEF IVars
<1>13. /\ base \in Pub /\ base[1] = "ephemeral" /\ base[2] = p /\ base[4] = nk[p] + 1
       /\ ratchet \in Pub /\ ratchet[1] = "ephemeral" /\ ratchet[2] = p /\ ratchet[4] = nk[p] + 2
  <2>1. nk[p] + 1 \in Nat /\ nk[p] + 2 \in Nat
    BY <1>7
  <2> QED BY <1>2, <2>1, KeysMade
<1>14. signed \in Pub /\ signed[1] = "signed" /\ signed[2] # p
  BY <1>2, <1>4, <1>5, KeysMade
<1>15. ot # NoKey => ot \in Pub /\ ot[1] = "onetime" /\ ot[2] # p /\ ot[3] <= gen[ot[2]]
  BY <1>2, <1>4, <1>5, KeysMade
<1>16. AliceReady(s, z, base, signed, ratchet)
  BY AliceShape
<1>17. TwoNewKeys(p, base, ratchet, nk, nk')
  BY <1>7, <1>8, <1>13 DEF TwoNewKeys
<1> HIDE DEF base, ratchet, signed, ot, s
<1>18. SecretOK(z, base, nk', gen) /\ OneTimePart(z) = IF ot = NoKey THEN {} ELSE {base, ot}
  <2>1. base[4] <= nk'[base[2]]
    BY <1>7, <1>13
  <2>2. z = AliceSecret(Identity(p), base, Identity(q), signed, ot)
    OBVIOUS
  <2> HIDE DEF z
  <2>3. SecretOf(z, base, ot, nk', gen)
    BY <1>13, <1>14, <1>15, <2>1, <2>2, AliceSecretOK
  <2> QED BY <2>3 DEF SecretOf
<1> HIDE DEF z, r2
<1>19. OneTimePart(z) \intersect Live(p) = {}
  <2>1. \A k \in Live(p) : k[1] = "onetime" /\ k[2] = p
    BY <1>2, LiveKeys
  <2> QED BY <1>13, <1>15, <1>18, <2>1
<1>20. DoneWith(p) \subseteq sent
  BY DEF DoneWith
<1>21. Sound(p, r2, nk', gen, sent, DoneWith(p), Live(p))
  <2>1. rec[p] = FreshRecord \/ Sound(p, rec[p], nk, gen, sent, DoneWith(p), Live(p))
    BY <1>2 DEF PartyOK, StoredOK
  <2>2. MsgsOK(sent, nk, gen)
    BY <1>2 DEF IMsgs
  <2>3. r2 = WithNew(rec[p], s)
    BY DEF r2
  <2> QED
    BY <1>9, <1>14, <1>16, <1>17, <1>18, <1>19, <1>20, <2>1, <2>2, <2>3, AliceSound
<1>22. ASSUME NEW o \in Party
       PROVE  PartyOK(o)'
  <2>1. CASE o # p
    BY <1>1, <1>2, <1>8, <1>9, <1>12, <2>1, PartyStays
  <2>2. CASE o = p
    <3>1. Live(p)' \subseteq Live(p) /\ DoneWith(p)' \subseteq DoneWith(p)
      BY <1>1, LiveShrinks, DoneShrinks
    <3>2. StoredOK(p)'
      <4>1. Grows(nk', nk')
        BY <1>8 DEF Grows
      <4>2. Sound(p, r2, nk', gen', sent, DoneWith(p)', Live(p)')
        BY <1>9, <1>21, <3>1, <4>1, SoundGrows
      <4>3. Sound(p, rec[p], nk, gen, sent, DoneWith(p), Live(p))'
        BY <1>1, <1>12, <4>2
      <4> QED BY <4>3 DEF StoredOK
    <3>3. CallOK(p)'
      BY <1>1, <1>2, <1>8, <1>9, <3>1, CallStays DEF PartyOK
    <3>4. SpentOK(p)'
      BY <1>1, <1>2, <3>1, SpentStays DEF PartyOK
    <3> QED BY <2>2, <3>2, <3>3, <3>4 DEF PartyOK
  <2> QED BY <2>1, <2>2
<1> QED BY <1>10, <1>11, <1>22 DEF SessInv

(* Two parties never send on the same chain.                               *)
LEMMA OtherSide ==
  ASSUME NEW p \in Party, NEW q \in Party, p # q, NEW s, NEW t, NEW N, NEW G,
         StateOK(p, s, N, G), StateOK(q, t, N, G)
  PROVE  s.chain # t.chain
<1> SUFFICES ASSUME s.root = t.root PROVE FALSE
  BY StateKeys
<1>1. SenderOK(p, s, N, G) /\ SenderOK(q, t, N, G)
  BY DEF StateOK
<1>2. SecretOK(s.root[1], s.base, N, G) /\ SecretOK(t.root[1], t.base, N, G)
  BY <1>1 DEF SenderOK
<1>3. s.base = t.base
  BY <1>2, BaseOfSecret
<1>4. Parity(p, s.base) = Parity(q, s.base)
  BY <1>1, <1>3 DEF SenderOK
<1>5. s.base[2] \in Party
  BY <1>2, PubParts DEF SecretOK
<1>6. s.base[2] = p \/ s.base[2] = q
  BY <1>5, PeerIsOther
<1> QED BY <1>4, <1>6 DEF Parity

(* The message a state of p gives.                                         *)
LEMMA MessageSound ==
  ASSUME NEW p \in Party, NEW s, NEW m, NEW N, NEW G, StateOK(p, s, N, G),
         m.to = Peer(p), m.counter = s.index, m.base = s.pending.base,
         m.ratchet = s.ratchet, m.chain = s.chain
  PROVE  MsgOK(m, N, G)
<1> DEFINE q == Peer(p)
           b == s.base
<1>1. SenderOK(p, s, N, G)
  BY DEF StateOK
<1>2. q \in Party /\ q # p /\ \A o \in Party : o = p \/ o = q
  BY PeerIsOther
<1> HIDE DEF q
<1>3. m.chain = s.root /\ m.to = q
  BY <1>1 DEF SenderOK, q
<1>4. SecretOK(m.chain[1], b, N, G) /\ m.base \in {NoKey, b} /\ IsSeq(m.chain) /\ Len(m.chain) >= 2
      /\ Len(m.chain) % 2 = Parity(p, b)
  BY <1>1, <1>3 DEF SenderOK
<1> HIDE DEF b
<1>5. b[2] \in Party /\ b \in m.chain[1][3]
  BY <1>4, PubParts DEF SecretOK
<1>6. Parity(p, b) = 1 - Parity(q, b)
  BY <1>2, <1>5 DEF Parity
<1>7. \E c \in m.chain[1][3] :
         /\ SecretOK(m.chain[1], c, N, G) /\ m.base \in {NoKey, c}
         /\ Len(m.chain) % 2 = 1 - Parity(m.to, c)
  BY <1>3, <1>4, <1>5, <1>6
<1>8. /\ m.ratchet \in Pub /\ m.ratchet[1] = "ephemeral" /\ m.ratchet[2] # m.to
      /\ KnownIn(Newest(m.chain), N) /\ m.counter \in Nat
  BY <1>1, <1>2, <1>3 DEF SenderOK
<1>9. \E t \in Newest(m.chain) : t \in Pub /\ t[2] = m.to /\ Newest(m.chain) = {t, m.ratchet}
  <2>1. PICK t \in Newest(s.root) : t \in Pub /\ t[2] # p /\ Newest(s.root) = {t, s.ratchet}
    BY <1>1 DEF SenderOK
  <2>2. t[2] = q
    BY <1>2, <2>1, PubParts
  <2> QED BY <1>3, <2>1, <2>2
<1> QED BY <1>2, <1>3, <1>4, <1>7, <1>8, <1>9 DEF MsgOK

(* Encrypting with the current state.                                      *)
LEMMA EncryptSound ==
  ASSUME NEW p \in Party, NEW r, NEW r2, NEW m, NEW N, NEW G, NEW M, NEW D, NEW L,
         Sound(p, r, N, G, M, D, L), Grows(N, N), Grows(G, G),
         m.chain = r.cur.chain, m.counter = r.cur.index, MsgsOK(M, N, G),
         NEW s2, s2 = [r.cur EXCEPT !.index = r.cur.index + 1],
         r2 = [r EXCEPT !.cur = s2]
  PROVE  Sound(p, r2, N, G, M \union {m}, D, L)
<1> DEFINE s == r.cur
<1>1. RecordOK(p, r, N, G) /\ IsSeq(r.prev) /\ Len(r.prev) <= MaxArchivedStates
      /\ DOMAIN r = {"cur", "prev"}
  BY DEF Sound, RecordOK
<1>2. 0 \in Slots(r) /\ At(r, 0) = s
  BY <1>1, LenNat DEF Slots, At
<1>3. StateOK(p, s, N, G) /\ Alone(s) /\ StateSound(s, M, D, L)
      /\ \A j \in Slots(r) \ {0} : Beside(s, At(r, j))
  BY <1>1, <1>2 DEF Sound, RecordOK
<1>4. m.chain = s.chain /\ m.counter = s.index /\ s2 = [s EXCEPT !.index = s.index + 1]
  OBVIOUS
<1> HIDE DEF s
<1>5. DOMAIN s = StateFields /\ s.index \in Nat
  BY <1>3 DEF StateOK, SenderOK
<1>6. /\ DOMAIN s2 = StateFields /\ s2.index = s.index + 1 /\ s2.base = s.base /\ s2.root = s.root
      /\ s2.ratchet = s.ratchet /\ s2.chain = s.chain /\ s2.recv = s.recv /\ s2.pending = s.pending
  BY <1>4, <1>5 DEF StateFields
<1>7. StateOK(p, s2, N, G)
  <2>1. s2.index \in Nat
    BY <1>5, <1>6
  <2>2. SenderOK(p, s, N, G) /\ LinksOK(s.recv, s.root, N)
    BY <1>3 DEF StateOK
  <2>3. SenderOK(p, s2, N, G)
    BY <1>6, <2>1, <2>2 DEF SenderOK
  <2> QED BY <1>6, <2>2, <2>3 DEF StateOK
<1>8. Alone(s2) /\ \A j \in Slots(r) \ {0} : Beside(s2, At(r, j))
  BY <1>3, <1>6 DEF Alone, Beside
<1>9. Rebuilt(r, r2, s2, {0})
  BY <1>1, ReplacedIn
<1>10. RecordOK(p, r2, N, G)
  BY <1>1, <1>7, <1>8, <1>9, RecordRebuilt
<1>11. StateSound(s2, M \union {m}, D, L)
  <2>1. \A n \in M \union {m} : n.chain = s.chain => n.counter < s.index + 1
    <3>1. ASSUME NEW n \in M, n.chain = s.chain PROVE n.counter < s.index + 1
      <4>1. n.counter < s.index
        BY <1>3, <3>1 DEF StateSound
      <4>2. n.counter \in Nat
        BY DEF MsgsOK, MsgOK
      <4> QED BY <1>5, <4>1, <4>2
    <3>2. m.counter < s.index + 1
      BY <1>4, <1>5
    <3> QED BY <3>1, <3>2
  <2> QED BY <1>3, <1>6, <2>1 DEF StateSound, Gone
<1>12. ASSUME NEW j \in Slots(r) \ {0}
       PROVE  StateSound(At(r, j), M \union {m}, D, L)
  <2> DEFINE t == At(r, j)
  <2>1. StateSound(t, M, D, L) /\ StateOK(p, t, N, G) /\ Beside(s, t)
    BY <1>1, <1>3 DEF Sound, RecordOK
  <2> HIDE DEF t
  <2>2. m.chain # t.chain
    <3>1. PICK x \in Newest(s.root) : x[2] # p /\ Newest(s.root) = {x, s.ratchet}
      BY <1>3 DEF StateOK, SenderOK
    <3>2. t.ratchet \in Newest(t.chain) /\ t.ratchet[2] = p /\ s.chain = s.root
      BY <1>3, <2>1, StateKeys
    <3>3. t.ratchet # s.ratchet
      BY <2>1 DEF Beside
    <3> QED BY <1>4, <3>1, <3>2, <3>3
  <2>3. StateSound(t, M \union {m}, D, L)
    BY <2>1, <2>2 DEF StateSound
  <2> QED BY <2>3 DEF t
<1>13. ASSUME NEW i \in Slots(r2)
       PROVE  StateSound(At(r2, i), M \union {m}, D, L)
  <2>1. At(r2, i) = s2 \/ \E j \in Slots(r) \ {0} : At(r2, i) = At(r, j)
    BY <1>9, RebuiltStates
  <2> QED BY <1>11, <1>12, <2>1
<1> QED BY <1>10, <1>13 DEF Sound

(* The peer's record knows nothing of a message that is just sent.         *)
LEMMA PeerSound ==
  ASSUME NEW p \in Party, NEW q \in Party, p # q, NEW s, NEW r, NEW m, NEW N, NEW G, NEW M, NEW D,
         NEW L, StateOK(p, s, N, G), m.chain = s.chain, Sound(q, r, N, G, M, D, L)
  PROVE  Sound(q, r, N, G, M \union {m}, D, L)
<1>1. ASSUME NEW j \in Slots(r)
      PROVE  StateSound(At(r, j), M \union {m}, D, L)
  <2> DEFINE t == At(r, j)
  <2>1. StateSound(t, M, D, L) /\ StateOK(q, t, N, G)
    BY DEF Sound, RecordOK
  <2> HIDE DEF t
  <2>2. m.chain # t.chain
    BY <2>1, OtherSide
  <2>3. StateSound(t, M \union {m}, D, L)
    BY <2>1, <2>2 DEF StateSound
  <2> QED BY <2>3 DEF t
<1> QED BY <1>1 DEF Sound

LEMMA SoundFewer ==
  ASSUME NEW p, NEW r, NEW N, NEW G, NEW M, NEW M2, NEW D, NEW D2, NEW L, NEW L2,
         Sound(p, r, N, G, M, D, L), M2 \subseteq M, D2 \subseteq D, L2 \subseteq L
  PROVE  Sound(p, r, N, G, M2, D2, L2)
<1>1. ASSUME NEW j \in Slots(r)
      PROVE  StateSound(At(r, j), M2, D2, L2)
  <2>1. StateSound(At(r, j), M, D, L)
    BY DEF Sound
  <2> QED BY <2>1 DEF StateSound
<1> QED BY <1>1 DEF Sound

LEMMA EncryptStep ==
  ASSUME SessInv, NEW p \in Party, Encrypt(p)
  PROVE  SessInv'
<1> DEFINE q == Peer(p)
           r == rec[p]
           s == r.cur
           s2 == [s EXCEPT !.index = s.index + 1]
           r2 == [r EXCEPT !.cur = s2]
           m == MessageOf(p, s)
<1>1. /\ UNCHANGED <<opks, gen, server, op, nk, accepted, leaked, resets>>
      /\ op[p].stage = "idle" /\ used < MaxMsgs /\ used' = used + 1
      /\ HasSenderChain(s)
      /\ rec' = [rec EXCEPT ![p].cur.index = @ + 1]
      /\ sent' = sent \/ sent' = sent \union {m}
  BY DEF Encrypt
<1>2. IVars /\ IMsgs /\ AtMostOnce /\ \A o \in Party : PartyOK(o)
  BY DEF SessInv
<1>3. rec' = [rec EXCEPT ![p] = r2]
  BY <1>1
<1>4. q \in Party /\ q # p /\ \A o \in Party : o = p \/ o = q
  BY PeerIsOther
<1>5. Grows(nk, nk) /\ Grows(gen, gen)
  BY <1>2, CountersGrow
<1>6. r # FreshRecord
  BY <1>1 DEF HasSenderChain, FreshRecord, EmptyState
<1>7. Sound(p, r, nk, gen, sent, DoneWith(p), Live(p))
  BY <1>2, <1>6 DEF PartyOK, StoredOK
<1>8. /\ m.to = q /\ m.id = used + 1 /\ m.base = s.pending.base /\ m.ratchet = s.ratchet
      /\ m.counter = s.index /\ m.chain = s.chain
  BY DEF MessageOf
<1>9. StateOK(p, s, nk, gen) /\ StateSound(s, sent, DoneWith(p), Live(p))
  <2>1. 0 \in Slots(r) /\ At(r, 0) = s
    BY <1>7, LenNat DEF Sound, RecordOK, Slots, At
  <2> QED BY <1>7, <2>1 DEF Sound, RecordOK
<1>10. rec'[p] = r2 /\ DOMAIN rec' = Party /\ \A o \in Party : o # p => rec'[o] = rec[o]
  BY <1>2, <1>3 DEF IVars
<1> HIDE DEF q, m
<1>11. MsgOK(m, nk, gen)
  BY <1>8, <1>9, MessageSound DEF q
<1>12. MsgsOK(sent, nk, gen)
  BY <1>2 DEF IMsgs
<1>13. Sound(p, r2, nk, gen, sent \union {m}, DoneWith(p), Live(p))
  BY <1>5, <1>7, <1>8, <1>12, EncryptSound
<1> HIDE DEF r2, s2
<1>14. used \in Nat /\ MaxMsgs \in Nat /\ used + 1 \in 1..MaxMsgs
  BY <1>1, <1>2, SessionBounds DEF IVars
<1>15. IVars'
  <2>1. used' \in 0..MaxMsgs /\ \A i \in 1..MaxMsgs : i > used' => i > used
    BY <1>1, <1>14
  <2> QED BY <1>1, <1>2, <1>10, <2>1 DEF IVars
<1>16. accepted[m.id] = 0
  BY <1>2, <1>8, <1>14 DEF IVars
<1>17. \A n \in sent : n.counter # m.counter \/ n.chain # m.chain
  <2> SUFFICES ASSUME NEW n \in sent, n.chain = m.chain
               PROVE  n.counter # m.counter
    OBVIOUS
  <2>1. n.counter < s.index
    BY <1>8, <1>9 DEF StateSound
  <2>2. n.counter \in Nat /\ s.index \in Nat
    BY <1>9, <1>12 DEF MsgsOK, MsgOK, StateOK, SenderOK
  <2> QED BY <1>8, <2>1, <2>2
<1>18. \A n \in sent : n.id \in 1..used
  BY <1>2 DEF IMsgs
<1> HIDE DEF s
<1>19. IMsgs'
  <2>1. MsgsOK(sent', nk, gen)
    BY <1>1, <1>11, <1>12 DEF MsgsOK
  <2>2. MsgsOK(sent, nk, gen)'
    BY <1>1, <2>1
  <2>3. \A n \in sent' : n.id \in 1..used'
    BY <1>1, <1>8, <1>14, <1>18
  <2>4. \A n \in sent : n.id # m.id
    BY <1>8, <1>14, <1>18
  <2>5. \A a, b \in sent' : a.id = b.id => a = b
    BY <1>1, <1>2, <2>4 DEF IMsgs
  <2>6. NoMessageKeyReuse'
    <3>1. NoMessageKeyReuse
      BY <1>2 DEF IMsgs
    <3> SUFFICES ASSUME NEW a \in sent', NEW b \in sent', a.chain = b.chain, a.counter = b.counter
                 PROVE  a = b
      BY DEF NoMessageKeyReuse
    <3>2. CASE a \in sent /\ b \in sent
      BY <3>1, <3>2 DEF NoMessageKeyReuse
    <3>3. CASE a = m \/ b = m
      BY <1>1, <1>17, <3>3
    <3> QED BY <1>1, <3>2, <3>3
  <2> QED BY <2>2, <2>3, <2>5, <2>6 DEF IMsgs
<1>20. \A n : Renewable(n)' <=> Renewable(n)
  BY <1>1 DEF Renewable, OneTimeAgreement
<1>21. AtMostOnce'
  BY <1>1, <1>2, <1>16, <1>20 DEF AtMostOnce
<1>22. ASSUME NEW o \in Party
       PROVE  Live(o)' = Live(o) /\ DoneWith(o)' \subseteq DoneWith(o)
  <2>1. Live(o)' = Live(o)
    <3>1. \A i : OneTime(o, i)' = OneTime(o, i)
      BY <1>1 DEF OneTime
    <3>2. \A i : Excused(o, i)' <=> Excused(o, i)
      BY <1>1, <3>1 DEF Excused
    <3> QED BY <1>1, <3>1, <3>2 DEF Live
  <2>2. ASSUME NEW n \in DoneWith(o)'
        PROVE  n \in DoneWith(o)
    <3>1. n \in sent' /\ n.to = o /\ accepted[n.id] > 0 /\ ~Renewable(n)
      BY <1>1, <1>20 DEF DoneWith
    <3>2. n # m
      BY <1>16, <3>1
    <3>3. n \in sent
      BY <1>1, <3>1, <3>2
    <3> QED BY <3>1, <3>3 DEF DoneWith
  <2> QED BY <2>1, <2>2
<1>23. sent' \subseteq sent \union {m} /\ sent \subseteq sent'
  BY <1>1
<1>24. StoredOK(p)'
  <2>1. Sound(p, r2, nk, gen, sent', DoneWith(p)', Live(p)')
    BY <1>13, <1>22, <1>23, SoundFewer
  <2>2. Sound(p, rec[p], nk, gen, sent, DoneWith(p), Live(p))'
    BY <1>1, <1>10, <2>1
  <2> QED BY <2>2 DEF StoredOK
<1>25. SpentOK(p)'
  <2> SUFFICES ASSUME NEW n \in sent', n.to # p \/ accepted[n.id] > 0
               PROVE  OneTimePart(n.chain[1]) \intersect Live(p) = {}
    BY <1>1, <1>22 DEF SpentOK
  <2>1. CASE n \in sent
    BY <1>2, <2>1 DEF PartyOK, SpentOK
  <2>2. CASE n = m
    <3>1. m.chain = s.root
      BY <1>8, <1>9, StateKeys
    <3> QED BY <1>9, <2>2, <3>1 DEF StateSound
  <2> QED BY <1>1, <2>1, <2>2
<1>26. SpentOK(q)'
  <2> SUFFICES ASSUME NEW n \in sent', n.to # q \/ accepted[n.id] > 0
               PROVE  OneTimePart(n.chain[1]) \intersect Live(q) = {}
    BY <1>1, <1>4, <1>22 DEF SpentOK
  <2>1. n # m
    BY <1>8, <1>16
  <2>2. n \in sent
    BY <1>1, <2>1
  <2> QED BY <1>2, <1>4, <2>2 DEF PartyOK, SpentOK
<1>27. CallOK(p)'
  BY <1>1 DEF CallOK
<1>28. StoredOK(q)'
  <2>1. CASE rec[q] = FreshRecord
    BY <1>4, <1>10, <2>1 DEF StoredOK
  <2>2. CASE Sound(q, rec[q], nk, gen, sent, DoneWith(q), Live(q))
    <3>1. Sound(q, rec[q], nk, gen, sent \union {m}, DoneWith(q), Live(q))
      BY <1>4, <1>8, <1>9, <2>2, PeerSound
    <3>2. Sound(q, rec[q], nk, gen, sent', DoneWith(q)', Live(q)')
      BY <1>4, <1>22, <1>23, <3>1, SoundFewer
    <3>3. rec'[q] = rec[q]
      BY <1>4, <1>10
    <3>4. Sound(q, rec'[q], nk', gen', sent', DoneWith(q)', Live(q)')
      BY <1>1, <3>2, <3>3
    <3> QED BY <3>4 DEF StoredOK
  <2> QED BY <1>2, <1>4, <2>1, <2>2 DEF PartyOK, StoredOK
<1>29. CallOK(q)'
  <2> SUFFICES ASSUME op[q].stage = "callback"
               PROVE  CallOK(q)'
    BY <1>1 DEF CallOK
  <2> DEFINE L == Live(q) \ {OneTime(q, op[q].remove)}
             u == op[q].record
  <2>1. PICK n \in sent : /\ n.id = op[q].id /\ n.to = q
                          /\ Outcome(q, u, n, nk, gen, sent, DoneWith(q), L)
    BY <1>2, <1>4 DEF PartyOK, CallOK
  <2> HIDE DEF L
  <2>2. Sound(q, u, nk, gen, sent, DoneWith(q), L)
    BY <2>1 DEF Outcome
  <2>3. Sound(q, u, nk, gen, sent \union {m}, DoneWith(q), L)
    BY <1>4, <1>8, <1>9, <2>2, PeerSound
  <2>4. Sound(q, u, nk, gen, sent', DoneWith(q)', L)
    BY <1>4, <1>22, <1>23, <2>3, SoundFewer
  <2>5. Outcome(q, u, n, nk, gen, sent', DoneWith(q)', L)
    BY <1>4, <1>22, <2>1, <2>4 DEF Outcome
  <2>6. L = Live(q)' \ {OneTime(q, op[q].remove)'}
    BY <1>1, <1>4, <1>22 DEF L, OneTime
  <2>7. Outcome(q, op'[q].record, n, nk', gen', sent', DoneWith(q)',
                Live(q)' \ {OneTime(q, op[q].remove)'})
    BY <1>1, <2>5, <2>6
  <2> QED BY <1>1, <1>23, <2>1, <2>7 DEF CallOK
<1>30. \A o \in Party : PartyOK(o)'
  BY <1>4, <1>24, <1>25, <1>26, <1>27, <1>28, <1>29 DEF PartyOK
<1> QED BY <1>15, <1>19, <1>21, <1>30 DEF SessInv

LEMMA OutcomeFewer ==
  ASSUME NEW p, NEW r, NEW m, NEW N, NEW G, NEW M, NEW D, NEW L, NEW L2,
         Outcome(p, r, m, N, G, M, D, L), L2 \subseteq L
  PROVE  Outcome(p, r, m, N, G, M, D, L2)
<1>1. Sound(p, r, N, G, M, D, L2)
  BY SoundFewer DEF Outcome
<1> QED BY <1>1 DEF Outcome

(* The key pair made for a decryption, when the ratchet turns.             *)
OneMore(p) == [nk EXCEPT ![p] = @ + 1]

LEMMA NewKeyMade ==
  ASSUME IVars, NEW p \in Party
  PROVE  NewKeyOf(p, NewKey(p), nk, OneMore(p))
<1>1. \A o \in Party : nk[o] \in Nat
  BY SessionBounds DEF IVars
<1>2. nk[p] + 1 \in Nat
  BY <1>1
<1>3. /\ NewKey(p) \in Pub /\ NewKey(p)[1] = "ephemeral"
      /\ NewKey(p)[2] = p /\ NewKey(p)[4] = nk[p] + 1
  BY <1>2, KeysMade DEF NewKey
<1>4. OneMore(p)[p] = nk[p] + 1 /\ \A o \in Party : o # p => OneMore(p)[o] = nk[o]
  BY DEF IVars, OneMore
<1>5. Grows(nk, OneMore(p))
  BY <1>1, <1>4 DEF Grows
<1> QED BY <1>3, <1>4, <1>5 DEF NewKeyOf

LEMMA KeysAfter2 ==
  ASSUME IVars, NEW p \in Party, NEW r
  PROVE  KeysAfterDecrypt(p, r) = IF r.cur.ratchet = NewKey(p) THEN OneMore(p) ELSE nk
BY DEF IVars, KeysAfterDecrypt, OneMore

(* A decrypt call that gets to its callback.                               *)
LEMMA CallbackStep ==
  ASSUME SessInv, NEW p \in Party, NEW m \in sent, m.to = p, op[p].stage = "idle",
         nk[p] < MaxKeys, NEW r2, NEW rm,
         op' = [op EXCEPT ![p] = [stage |-> "callback", record |-> r2, id |-> m.id, remove |-> rm]],
         nk' = KeysAfterDecrypt(p, r2),
         Outcome(p, r2, m, nk', gen, sent, DoneWith(p), Live(p) \ {OneTime(p, rm)}),
         UNCHANGED <<rec, opks, gen, server, sent, used, accepted, leaked, resets>>
  PROVE  SessInv'
<1> DEFINE o2 == [stage |-> "callback", record |-> r2, id |-> m.id, remove |-> rm]
<1>1. IVars /\ IMsgs /\ AtMostOnce /\ \A o \in Party : PartyOK(o)
  BY DEF SessInv
<1>2. /\ DOMAIN o2 = {"stage", "record", "id", "remove"} /\ o2.stage = "callback"
      /\ o2.record = r2 /\ o2.id = m.id /\ o2.remove = rm
  OBVIOUS
<1>3. op' = [op EXCEPT ![p] = o2] /\ DOMAIN op = Party
  BY <1>1 DEF IVars
<1> HIDE DEF o2
<1>4. DOMAIN op' = Party /\ op'[p] = o2 /\ \A o \in Party : o # p => op'[o] = op[o]
  BY <1>3
<1>5. Grows(gen, gen') /\ Grows(nk, nk) /\ Grows(nk, OneMore(p))
  BY <1>1, CountersGrow, NewKeyMade DEF NewKeyOf
<1>6. nk' = IF r2.cur.ratchet = NewKey(p) THEN OneMore(p) ELSE nk
  BY <1>1, KeysAfter2
<1>7. Grows(nk, nk')
  BY <1>5, <1>6
<1>8. nk' \in [Party -> 0..MaxKeys]
  <2>1. nk \in [Party -> 0..MaxKeys] /\ MaxKeys \in Nat
    BY <1>1, SessionBounds DEF IVars
  <2>2. nk[p] + 1 \in 0..MaxKeys
    BY <2>1
  <2>3. OneMore(p) \in [Party -> 0..MaxKeys]
    BY <2>1, <2>2 DEF OneMore
  <2> QED BY <1>6, <2>1, <2>3
<1>9. IVars'
  <2>1. \A o \in Party : /\ DOMAIN op'[o] = {"stage", "record", "id", "remove"}
                         /\ op'[o].stage \in {"idle", "callback", "remove"}
    BY <1>1, <1>2, <1>4 DEF IVars
  <2> QED BY <1>1, <1>4, <1>8, <2>1 DEF IVars
<1>10. IMsgs' /\ AtMostOnce'
  BY <1>1, <1>5, <1>7, MsgsStay, OnceStays
<1>11. ASSUME NEW o \in Party
       PROVE  PartyOK(o)'
  <2>1. CASE o # p
    BY <1>1, <1>4, <1>5, <1>7, <2>1, PartyStays
  <2>2. CASE o = p
    <3>1. Live(p)' \subseteq Live(p) /\ DoneWith(p)' \subseteq DoneWith(p)
      BY LiveShrinksBy, DoneShrinks
    <3>2. StoredOK(p)'
      BY <1>1, <1>5, <1>7, <3>1, StoredStays DEF PartyOK
    <3>3. SpentOK(p)'
      BY <1>1, <3>1, SpentStays DEF PartyOK
    <3>4. CallOK(p)'
      <4> DEFINE L == Live(p) \ {OneTime(p, rm)}
                 L2 == Live(p)' \ {OneTime(p, rm)}
      <4>1. L2 \subseteq L
        BY <3>1
      <4> HIDE DEF L2
      <4>2. Sound(p, r2, nk', gen, sent, DoneWith(p), L) /\ Erased(r2, m) /\ m \notin DoneWith(p)
            /\ r2.cur.root[1] = m.chain[1]
        BY DEF Outcome
      <4> HIDE DEF L
      <4>3. Sound(p, r2, nk', gen, sent, DoneWith(p)', L2)
        BY <3>1, <4>1, <4>2, SoundFewer
      <4>4. Outcome(p, r2, m, nk', gen, sent, DoneWith(p)', L2)
        BY <3>1, <4>2, <4>3 DEF Outcome
      <4>5. OneTime(p, op[p].remove)' = OneTime(p, rm)
        BY <1>2, <1>4 DEF OneTime
      <4>6. L2 = Live(p)' \ {OneTime(p, op[p].remove)'}
        BY <4>5 DEF L2
      <4>7. Outcome(p, op'[p].record, m, nk', gen', sent', DoneWith(p)',
                    Live(p)' \ {OneTime(p, op[p].remove)'})
        BY <1>2, <1>4, <4>4, <4>6
      <4>8. m.id = op'[p].id /\ m \in sent'
        BY <1>2, <1>4
      <4> QED BY <4>7, <4>8 DEF CallOK
    <3> QED BY <2>2, <3>2, <3>3, <3>4 DEF PartyOK
  <2> QED BY <2>1, <2>2
<1> QED BY <1>9, <1>10, <1>11 DEF SessInv

(* A message of a session that is known.                                   *)
LEMMA KnownOutcome ==
  ASSUME SessInv, NEW p \in Party, NEW m \in sent, m.to = p, rec[p] # FreshRecord,
         DecryptFromRecord(rec[p], m, NewKey(p)).code = Success,
         NEW r2, r2 = DecryptFromRecord(rec[p], m, NewKey(p)).record, NEW rm
  PROVE  Outcome(p, r2, m, KeysAfterDecrypt(p, r2), gen, sent, DoneWith(p),
                 Live(p) \ {OneTime(p, rm)})
<1>1. IVars /\ IMsgs /\ PartyOK(p)
  BY DEF SessInv
<1> DEFINE N3 == KeysAfterDecrypt(p, r2)
           L == Live(p)
           L2 == Live(p) \ {OneTime(p, rm)}
           D == DoneWith(p)
           new == NewKey(p)
           r == rec[p]
<1>2. N3 = IF r2.cur.ratchet = new THEN OneMore(p) ELSE nk
  BY <1>1, KeysAfter2
<1>3. Sound(p, r, nk, gen, sent, D, L) /\ MsgsOK(sent, nk, gen) /\ D \subseteq sent
  BY <1>1 DEF PartyOK, StoredOK, IMsgs, DoneWith
<1>4. NewKeyOf(p, new, nk, OneMore(p)) /\ Grows(nk, nk) /\ Grows(gen, gen)
  BY <1>1, NewKeyMade, CountersGrow
<1>5. DecryptFromRecord(r, m, new).code = Success /\ r2 = DecryptFromRecord(r, m, new).record
  OBVIOUS
<1>6. L2 \subseteq L
  OBVIOUS
<1> HIDE DEF N3, L, L2, D, new, r
<1>7. Outcome(p, r2, m, N3, gen, sent, D, L)
  BY <1>2, <1>3, <1>4, <1>5, DecryptSound
<1>8. Outcome(p, r2, m, N3, gen, sent, D, L2)
  BY <1>6, <1>7, OutcomeFewer
<1> QED BY <1>8 DEF N3, L2, D

(* A pre-key message of a session that is not known.                       *)
BobBuilds(p, m) ==
  \E s, z, signed :
    BobCase(p, rec[p], m, NewKey(p), nk, OneMore(p), gen, sent, DoneWith(p),
            Live(p) \ {OneTime(p, ToRemove(p, m))}, s, z, signed, BuiltRecord(p, m))

LEMMA BegunCase ==
  ASSUME SessInv, NEW p \in Party, NEW m \in sent, m.to = p, m.base # NoKey,
         ~HasSessionState(rec[p], m.base), m.oneTime \in opks[p] \union {0},
         op[p].stage = "idle",
         DecryptFromRecord(BuiltRecord(p, m), m, NewKey(p)).code = Success
  PROVE  BobBuilds(p, m)
<1>1. IVars /\ IMsgs /\ PartyOK(p)
  BY DEF SessInv
<1> DEFINE i == m.oneTime
           k == OneTime(p, i)
           L == Live(p) \ {OneTime(p, ToRemove(p, m))}
           D == DoneWith(p)
           new == NewKey(p)
           r == rec[p]
           base == m.base
           signed == Signed(p)
           s == BobState(Identity(p), signed, k, m.from, base)
           z == BobSecret(Identity(p), signed, k, m.from, base)
           r1 == WithNew(r, s)
<1>3. MsgsOK(sent, nk, gen) /\ D \subseteq sent /\ MsgOK(m, nk, gen)
  BY <1>1 DEF IMsgs, DoneWith, MsgsOK
<1>4. NewKeyOf(p, new, nk, OneMore(p)) /\ Grows(nk, nk) /\ Grows(gen, gen)
  BY <1>1, NewKeyMade, CountersGrow
<1>5. BuiltRecord(p, m) = r1
  BY DEF BuiltRecord, WithNew
<1>6. DecryptFromRecord(r1, m, new).code = Success
  BY <1>5
<1>7. i \in Nat /\ (i # 0 => i \in opks[p])
  BY <1>1, PreKeyIdNat
<1>8. signed \in Pub /\ signed[1] = "signed"
  BY <1>1, <1>7, KeysMade
<1>9. /\ i = 0 => k = NoKey
      /\ i # 0 => /\ k # NoKey /\ k \in Pub /\ k[1] = "onetime" /\ k[3] <= gen[k[2]] /\ k[4] = i
  BY <1>1, <1>7, KeysMade
<1>10. base \in Pub /\ base[1] = "ephemeral" /\ base[4] <= nk[base[2]]
  <2>1. PICK b : SecretOK(m.chain[1], b, nk, gen) /\ m.base \in {NoKey, b}
    BY <1>3 DEF MsgOK
  <2>2. base = b
    BY <2>1
  <2> QED BY <2>1, <2>2 DEF SecretOK
<1>11. BobReady(s, z, base, signed)
  BY BobShape
<1> HIDE DEF s
<1>12. SecretOK(z, base, nk, gen) /\ OneTimePart(z) = IF i = 0 THEN {} ELSE {base, k}
  <2>1. z = BobSecret(Identity(p), signed, k, m.from, base)
    OBVIOUS
  <2>2. k # NoKey => k \in Pub /\ k[1] = "onetime" /\ k[3] <= gen[k[2]]
    BY <1>9
  <2> HIDE DEF z, k, signed, base
  <2>3. SecretOf(z, base, k, nk, gen)
    BY <1>8, <1>10, <2>1, <2>2, BobSecretOK
  <2> QED BY <1>9, <2>3 DEF SecretOf
<1> HIDE DEF z
<1>13. i # 0 /\ ~Excused(p, i) => ToRemove(p, m) = i
  BY DEF ToRemove, Excused
<1>14. OneTimePart(z) \intersect L = {}
  <2> SUFFICES ASSUME NEW x \in OneTimePart(z), x \in Live(p), x # OneTime(p, ToRemove(p, m))
               PROVE  FALSE
    OBVIOUS
  <2>1. PICK j \in opks[p] : j # 0 /\ ~Excused(p, j) /\ x = OneTime(p, j)
    BY <1>1, LiveKeys
  <2>2. x[1] = "onetime"
    BY <1>1, LiveKeys
  <2>3. i # 0 /\ x = k
    BY <1>10, <1>12, <2>2
  <2>4. j \in Nat
    BY <1>1, PreKeyIdNat
  <2>5. x[4] = j
    BY <1>1, <2>1, <2>4, KeysMade
  <2>6. j = i
    BY <1>9, <2>3, <2>5
  <2> QED BY <1>13, <2>1, <2>3, <2>6
<1>15. ASSUME NEW n \in D, n.chain[1] = z
       PROVE  FALSE
  <2>1. n \in sent /\ accepted[n.id] > 0 /\ ~Renewable(n)
    BY DEF DoneWith
  <2>2. OneTimeAgreement(n) = OneTimePart(z)
    BY <1>15 DEF OneTimeAgreement, OneTimePart
  <2>3. i # 0 /\ k \in OneTimeAgreement(n) /\ k[1] = "onetime" /\ k[4] = i
    BY <1>9, <1>12, <2>1, <2>2 DEF Renewable
  <2>4. k \notin Live(p)
    BY <1>1, <1>15, <2>1, <2>2, <2>3 DEF PartyOK, SpentOK
  <2>5. Excused(p, i)
    BY <1>7, <2>3, <2>4 DEF Live
  <2>6. i = LastResort \/ k \in leaked
    BY <2>5 DEF Excused
  <2> QED BY <2>1, <2>3, <2>6 DEF Renewable
<1>16. r = FreshRecord \/ Sound(p, r, nk, gen, sent, D, L)
  <2>1. r = FreshRecord \/ Sound(p, r, nk, gen, sent, D, Live(p))
    BY <1>1 DEF PartyOK, StoredOK
  <2>2. L \subseteq Live(p)
    OBVIOUS
  <2> HIDE DEF L, D
  <2> QED BY <2>1, <2>2, SoundFewer
<1>17. ~HasSessionState(r, m.base) /\ BobReady(s, z, m.base, signed) /\ SecretOK(z, m.base, nk, gen)
  BY <1>11, <1>12
<1>18. r1 = WithNew(r, s)
  OBVIOUS
<1>19. \A n \in D : n.chain[1] # z
  BY <1>15
<1> HIDE DEF L, D, new, r, r1, signed, k, i
<1>20. BobCase(p, r, m, new, nk, OneMore(p), gen, sent, D, L, s, z, signed, r1)
  BY <1>3, <1>4, <1>6, <1>8, <1>14, <1>16, <1>17, <1>18, <1>19 DEF BobCase
<1>21. BobCase(p, rec[p], m, NewKey(p), nk, OneMore(p), gen, sent, DoneWith(p),
               Live(p) \ {OneTime(p, ToRemove(p, m))}, s, z, signed, BuiltRecord(p, m))
  BY <1>5, <1>20 DEF r, new, D, L
<1> QED BY <1>21 DEF BobBuilds

LEMMA BegunOutcome ==
  ASSUME SessInv, NEW p \in Party, NEW m \in sent, BobBuilds(p, m),
         NEW r2, r2 = DecryptFromRecord(BuiltRecord(p, m), m, NewKey(p)).record
  PROVE  Outcome(p, r2, m, KeysAfterDecrypt(p, r2), gen, sent, DoneWith(p),
                 Live(p) \ {OneTime(p, ToRemove(p, m))})
<1> DEFINE N3 == KeysAfterDecrypt(p, r2)
           L == Live(p) \ {OneTime(p, ToRemove(p, m))}
           D == DoneWith(p)
           new == NewKey(p)
           r == rec[p]
           r1 == BuiltRecord(p, m)
<1>1. N3 = IF r2.cur.ratchet = new THEN OneMore(p) ELSE nk
  BY KeysAfter2 DEF SessInv
<1>2. PICK s, z, signed :
        BobCase(p, r, m, new, nk, OneMore(p), gen, sent, D, L, s, z, signed, r1)
  BY DEF BobBuilds
<1>3. r2 = DecryptFromRecord(r1, m, new).record
  OBVIOUS
<1> HIDE DEF N3, L, D, new, r, r1
<1>4. Outcome(p, r2, m, N3, gen, sent, D, L)
  BY <1>1, <1>2, <1>3, BobSound
<1> QED BY <1>4 DEF N3, L, D

(* session_cipher_decrypt_pre_key_signal_message: the builder's error      *)
(* path, a known session, or one the message begins.                       *)
LEMMA PreKeyMessageStep ==
  ASSUME SessInv, NEW p \in Party, NEW m \in sent, DecryptPreKeySignalMessage(p, m)
  PROVE  SessInv'
<1> DEFINE d == DecryptFromRecord(BuiltRecord(p, m), m, NewKey(p))
           r2 == d.record
           rm == ToRemove(p, m)
<1>1. /\ op[p].stage = "idle" /\ m.to = p /\ m.base # NoKey /\ nk[p] < MaxKeys
      /\ BuilderAccepts(p, m)
      /\ \/ /\ d.code = Success
            /\ op' = [op EXCEPT ![p] = [stage |-> "callback", record |-> r2,
                                        id |-> m.id, remove |-> rm]]
            /\ nk' = KeysAfterDecrypt(p, r2)
         \/ UNCHANGED <<op, nk>>
      /\ UNCHANGED <<rec, opks, gen, server, sent, used, accepted, leaked, resets>>
  BY DEF DecryptPreKeySignalMessage
<1>2. CASE UNCHANGED <<op, nk>>
  BY <1>1, <1>2, QuietStep
<1>3. CASE /\ d.code = Success
           /\ op' = [op EXCEPT ![p] = [stage |-> "callback", record |-> r2,
                                       id |-> m.id, remove |-> rm]]
           /\ nk' = KeysAfterDecrypt(p, r2)
  <2>1. Outcome(p, r2, m, KeysAfterDecrypt(p, r2), gen, sent, DoneWith(p),
                Live(p) \ {OneTime(p, rm)})
    <3>1. CASE HasSessionState(rec[p], m.base)
      <4>1. BuiltRecord(p, m) = rec[p]
        BY <3>1 DEF BuiltRecord
      <4>2. States(FreshRecord) = {EmptyState} /\ EmptyState.base = NoKey
        BY DEF States, FreshRecord, EmptyState
      <4>3. rec[p] # FreshRecord
        BY <1>1, <3>1, <4>2 DEF HasSessionState
      <4>4. /\ DecryptFromRecord(rec[p], m, NewKey(p)).code = Success
            /\ r2 = DecryptFromRecord(rec[p], m, NewKey(p)).record
        BY <1>3, <4>1
      <4> HIDE DEF d, r2, rm
      <4> QED BY <1>1, <4>3, <4>4, KnownOutcome
    <3>2. CASE ~HasSessionState(rec[p], m.base)
      <4>1. m.oneTime \in opks[p] \union {0}
        BY <1>1, <3>2 DEF BuilderAccepts
      <4>2. /\ DecryptFromRecord(BuiltRecord(p, m), m, NewKey(p)).code = Success
            /\ r2 = DecryptFromRecord(BuiltRecord(p, m), m, NewKey(p)).record
        BY <1>3
      <4>3. BobBuilds(p, m)
        BY <1>1, <3>2, <4>1, <4>2, BegunCase
      <4> HIDE DEF d, r2
      <4> QED BY <4>2, <4>3, BegunOutcome
    <3> QED BY <3>1, <3>2
  <2> HIDE DEF d, r2, rm
  <2>2. Outcome(p, r2, m, nk', gen, sent, DoneWith(p), Live(p) \ {OneTime(p, rm)})
    BY <1>3, <2>1
  <2> QED BY <1>1, <1>3, <2>2, CallbackStep
<1> QED BY <1>1, <1>2, <1>3

LEMMA SignalMessageStep ==
  ASSUME SessInv, NEW p \in Party, NEW m \in sent, DecryptSignalMessage(p, m)
  PROVE  SessInv'
<1> DEFINE d == DecryptFromRecord(rec[p], m, NewKey(p))
           r2 == d.record
<1>1. /\ op[p].stage = "idle" /\ m.to = p /\ nk[p] < MaxKeys /\ rec[p] # FreshRecord
      /\ d.code = Success
      /\ op' = [op EXCEPT ![p] = [stage |-> "callback", record |-> r2, id |-> m.id, remove |-> 0]]
      /\ nk' = KeysAfterDecrypt(p, r2)
      /\ UNCHANGED <<rec, opks, gen, server, sent, used, accepted, leaked, resets>>
  BY DEF DecryptSignalMessage
<1>2. /\ DecryptFromRecord(rec[p], m, NewKey(p)).code = Success
      /\ r2 = DecryptFromRecord(rec[p], m, NewKey(p)).record
  BY <1>1
<1> HIDE DEF d, r2
<1>3. Outcome(p, r2, m, KeysAfterDecrypt(p, r2), gen, sent, DoneWith(p),
              Live(p) \ {OneTime(p, 0)})
  BY <1>1, <1>2, KnownOutcome
<1>4. Outcome(p, r2, m, nk', gen, sent, DoneWith(p), Live(p) \ {OneTime(p, 0)})
  BY <1>1, <1>3
<1> QED BY <1>1, <1>4, CallbackStep

-----------------------------------------------------------------------------
LEMMA SessNext == SessInv /\ [Next]_vars => SessInv'
<1> SUFFICES ASSUME SessInv, [Next]_vars PROVE SessInv'
  OBVIOUS
<1>1. ASSUME NEW p \in Party, NEW i \in Bundles(Peer(p)), ProcessPreKeyBundle(p, i)
      PROVE  SessInv'
  BY <1>1, BundleStep
<1>2. ASSUME NEW p \in Party, Encrypt(p)
      PROVE  SessInv'
  BY <1>2, EncryptStep
<1>3. ASSUME NEW p \in Party, NEW m \in sent, DecryptPreKeySignalMessage(p, m)
      PROVE  SessInv'
  BY <1>3, PreKeyMessageStep
<1>4. ASSUME NEW p \in Party, NEW m \in sent, DecryptSignalMessage(p, m)
      PROVE  SessInv'
  BY <1>4, SignalMessageStep
<1>5. ASSUME NEW p \in Party, StoreSession(p)
      PROVE  SessInv'
  BY <1>5, StoreStep
<1>6. ASSUME NEW p \in Party, AbortDecrypt(p)
      PROVE  SessInv'
  BY <1>6, AbortStep
<1>7. ASSUME NEW p \in Party, RemovePreKey(p)
      PROVE  SessInv'
  BY <1>7, RemoveStep
<1>8. ASSUME NEW p \in Party, DeleteSession(p)
      PROVE  SessInv'
  BY <1>8, DeleteStep
<1>9. ASSUME NEW p \in Party, Reinstall(p)
      PROVE  SessInv'
  BY <1>9, ReinstallStep
<1>10. ASSUME NEW p \in Party, TrustIdentity(p)
       PROVE  SessInv'
  BY <1>10, QuietStep DEF TrustIdentity
<1>11. CASE UNCHANGED vars
  BY <1>11, QuietStep DEF vars
<1> QED
  BY <1>1, <1>2, <1>3, <1>4, <1>5, <1>6, <1>7, <1>8, <1>9, <1>10, <1>11
     DEF Next, Call, Application

(* SessInv holds throughout: records, waiting calls and messages fit each  *)
(* other after any interleaving of calls, faults, deletions and            *)
(* reinstallations.                                                        *)
THEOREM SessionInvariant == Spec => []SessInv
BY SessInit, SessNext, PTL DEF Spec

-----------------------------------------------------------------------------
(* What the invariant implies                                              *)

(* A stored state is empty, or sound.                                      *)
LEMMA StoredStates ==
  ASSUME SessInv, NEW p \in Party, NEW s \in States(rec[p])
  PROVE  \/ s = EmptyState
         \/ StateOK(p, s, nk, gen) /\ StateSound(s, sent, DoneWith(p), Live(p))
<1>1. StoredOK(p)
  BY DEF SessInv, PartyOK
<1>2. CASE rec[p] = FreshRecord
  <2>1. States(FreshRecord) = {EmptyState}
    BY DEF States, FreshRecord
  <2> QED BY <1>2, <2>1
<1>3. CASE rec[p] # FreshRecord
  <2> DEFINE r == rec[p]
             D == DoneWith(p)
             L == Live(p)
  <2>1. Sound(p, r, nk, gen, sent, D, L) /\ s \in States(r)
    BY <1>1, <1>3 DEF StoredOK
  <2> HIDE DEF r, D, L
  <2>2. IsSeq(r.prev)
    BY <2>1 DEF Sound, RecordOK
  <2>3. PICK j \in Slots(r) : s = At(r, j)
    BY <2>1, <2>2, StatesSlots
  <2>4. StateOK(p, s, nk, gen) /\ StateSound(s, sent, D, L)
    BY <2>1, <2>3 DEF Sound, RecordOK
  <2> QED BY <2>4 DEF D, L
<1> QED BY <1>2, <1>3

LEMMA EmptyParts ==
  /\ EmptyState.ratchet = NoKey /\ EmptyState.chain = <<>> /\ EmptyState.recv = <<>>
  /\ FreshRecord.prev = <<>>
BY DEF EmptyState, FreshRecord

LEMMA SessTypes == SessInv => TypeOK
<1> SUFFICES ASSUME SessInv PROVE TypeOK
  OBVIOUS
<1>1. IVars /\ IMsgs
  BY DEF SessInv
<1>2. ASSUME NEW p \in Party
      PROVE  /\ opks[p] \subseteq PreKeyIds /\ server[p] \subseteq 1..NumOneTime
             /\ gen[p] \in 1..(1 + MaxResets) /\ nk[p] \in 0..MaxKeys
             /\ op[p].stage \in {"idle", "callback", "remove"}
  <2>1. MaxResets \in Nat /\ resets \in 0..MaxResets /\ gen[p] \in 1..(1 + resets)
    BY <1>1, SessionBounds DEF IVars
  <2>2. gen[p] \in 1..(1 + MaxResets)
    BY <2>1
  <2> QED BY <1>1, <2>2 DEF IVars
<1>3. ASSUME NEW p \in Party
      PROVE  Len(rec[p].prev) <= MaxArchivedStates
  <2>1. StoredOK(p)
    BY DEF SessInv, PartyOK
  <2>2. MaxArchivedStates \in Nat
    BY RecordBounds
  <2>3. CASE rec[p] = FreshRecord
    BY <2>2, <2>3, EmptyParts
  <2>4. CASE rec[p] # FreshRecord
    BY <2>1, <2>4 DEF StoredOK, Sound, RecordOK
  <2> QED BY <2>3, <2>4
<1>4. ASSUME NEW p \in Party, NEW s \in States(rec[p])
      PROVE  /\ Len(s.recv) <= MaxReceiverChains
             /\ \A k \in 1..Len(s.recv) : Len(s.recv[k].mks) <= MaxMessageKeys
  <2>1. CASE s = EmptyState
    <3>1. Len(s.recv) = 0 /\ MaxReceiverChains \in Nat
      BY <2>1, EmptyParts, RecordBounds
    <3> QED BY <3>1
  <2>2. CASE StateOK(p, s, nk, gen)
    <3>1. LinksOK(s.recv, s.root, nk)
      BY <2>2 DEF StateOK
    <3>2. \A k \in 1..Len(s.recv) : WellKept(s.recv[k].index, s.recv[k].mks, 0)
      BY <3>1 DEF LinksOK, LinkOK
    <3> QED BY <3>1, <3>2 DEF LinksOK, WellKept
  <2> QED BY <2>1, <2>2, StoredStates
<1>5. (\A m \in sent : m.id \in 1..used) /\ accepted \in [1..MaxMsgs -> 0..2]
  BY <1>1 DEF IVars, IMsgs
<1> QED BY <1>2, <1>3, <1>4, <1>5 DEF TypeOK

LEMMA SameRest ==
  ASSUME NEW a \in Nat, NEW b \in Nat, a % 2 = b % 2
  PROVE  (a + b) % 2 # 1 /\ a # b + 1
OBVIOUS

(* The two parties' chains have paths of different parity.                 *)
LEMMA Sides ==
  ASSUME NEW p \in Party, NEW s, NEW m, NEW N, NEW G, StateOK(p, s, N, G), MsgOK(m, N, G),
         s.root[1] = m.chain[1]
  PROVE  /\ Len(s.root) \in Nat /\ Len(m.chain) \in Nat
         /\ p = m.to => Len(m.chain) % 2 = 1 - (Len(s.root) % 2)
         /\ p # m.to => Len(m.chain) % 2 = Len(s.root) % 2
<1>1. /\ SecretOK(s.root[1], s.base, N, G) /\ Len(s.root) % 2 = Parity(p, s.base)
      /\ IsSeq(s.root)
  BY DEF StateOK, SenderOK
<1>2. PICK b : SecretOK(m.chain[1], b, N, G) /\ Len(m.chain) % 2 = 1 - Parity(m.to, b)
  BY DEF MsgOK
<1>3. s.base = b
  BY <1>1, <1>2, BaseOfSecret
<1>4. Len(s.root) \in Nat /\ Len(m.chain) \in Nat
  BY <1>1, LenNat DEF MsgOK
<1>5. b[2] \in Party /\ m.to \in Party
  BY <1>2, PubParts DEF SecretOK, MsgOK
<1>6. p # m.to => Parity(p, b) = 1 - Parity(m.to, b)
  <2> SUFFICES ASSUME p # m.to PROVE Parity(p, b) = 1 - Parity(m.to, b)
    OBVIOUS
  <2>1. b[2] = p \/ b[2] = m.to
    BY <1>5, PeerIsOther
  <2> QED BY <2>1 DEF Parity
<1>7. Parity(m.to, b) \in {0, 1}
  BY DEF Parity
<1> DEFINE x == Len(s.root) % 2
           y == Len(m.chain) % 2
           u == Parity(p, b)
           v == Parity(m.to, b)
<1>8. x = u /\ y = 1 - v /\ v \in {0, 1} /\ (p = m.to => u = v) /\ (p # m.to => u = 1 - v)
  BY <1>1, <1>2, <1>3, <1>6, <1>7
<1> HIDE DEF x, y, u, v
<1>9. (p = m.to => y = 1 - x) /\ (p # m.to => y = x)
  BY <1>8
<1> QED BY <1>4, <1>9 DEF x, y

LEMMA StateErased ==
  ASSUME NEW p \in Party, NEW s, NEW m, NEW N, NEW G, StateOK(p, s, N, G), MsgOK(m, N, G),
         m.chain = s.chain => m.counter < s.index,
         p = m.to => Gone(s, m)
  PROVE  ~Computes(s, m)
<1> SUFFICES ASSUME Computes(s, m) PROVE FALSE
  OBVIOUS
<1>1. /\ s.chain = s.root /\ s.index \in Nat /\ IsSeq(s.root) /\ Len(s.root) >= 2
      /\ LinksOK(s.recv, s.root, N)
  BY DEF StateOK, SenderOK
<1>2. m.counter \in Nat
  BY DEF MsgOK
<1>3. CASE s.chain = m.chain /\ s.index <= m.counter
  BY <1>1, <1>2, <1>3
<1>4. CASE CreateChain(s.root, m.ratchet, s.ratchet) = m.chain
  <2> DEFINE a == {m.ratchet, s.ratchet}
             root == s.root
             ch == m.chain
  <2>1. ch = Append(root, a) /\ IsSeq(root) /\ Len(root) >= 1
    BY <1>1, <1>4 DEF CreateChain, Agreement
  <2>2. s.ratchet \in a
    OBVIOUS
  <2> HIDE DEF a, root, ch
  <2>3. Extends(root, ch, a)
    BY <2>1, AppendPath
  <2>4. Len(ch) = Len(root) + 1 /\ ch[1] = root[1] /\ s.ratchet \in Newest(ch)
    BY <2>2, <2>3 DEF Extends
  <2>5. Len(m.chain) = Len(s.root) + 1 /\ m.chain[1] = s.root[1] /\ s.ratchet \in Newest(m.chain)
    BY <2>4 DEF ch, root
  <2>6. p # m.to
    BY <2>5 DEF Gone
  <2>7. /\ Len(s.root) \in Nat /\ Len(m.chain) \in Nat
        /\ Len(m.chain) % 2 = Len(s.root) % 2
    BY <2>5, <2>6, Sides
  <2> QED BY <2>5, <2>7, SameRest
<1>5. CASE \E k \in 1..Len(s.recv) : /\ s.recv[k].chain = m.chain
                                     /\ LinkYields(s.recv[k], m.counter)
  <2>1. PICK k \in 1..Len(s.recv) : s.recv[k].chain = m.chain /\ LinkYields(s.recv[k], m.counter)
    BY <1>5
  <2>2. LinkOK(s.recv[k], s.root, N)
    BY <1>1 DEF LinksOK
  <2>3. m.chain[1] = s.root[1] /\ (Len(m.chain) + Len(s.root)) % 2 = 1
    BY <2>1, <2>2 DEF LinkOK
  <2>4. p # m.to
    BY <1>5 DEF Gone, Yields
  <2>5. /\ Len(s.root) \in Nat /\ Len(m.chain) \in Nat
        /\ Len(m.chain) % 2 = Len(s.root) % 2
    BY <2>3, <2>4, Sides
  <2> QED BY <2>3, <2>5, SameRest
<1> QED BY <1>3, <1>4, <1>5 DEF Computes, LinkYields

LEMMA SessErasure == SessInv => KeyErasure
<1> SUFFICES ASSUME SessInv, NEW m \in sent, accepted[m.id] > 0, ~Renewable(m),
                    NEW p \in Party, NEW s \in States(rec[p])
             PROVE  ~Computes(s, m)
  BY DEF KeyErasure
<1>1. MsgOK(m, nk, gen)
  BY DEF SessInv, IMsgs, MsgsOK
<1>2. CASE s = EmptyState
  <2>1. Len(m.chain) >= 2
    BY <1>1 DEF MsgOK
  <2>2. s.chain # m.chain /\ Len(s.recv) = 0
    BY <1>2, <2>1, EmptyParts
  <2> QED BY <1>2, <2>2, EmptyParts DEF Computes
<1>3. CASE StateOK(p, s, nk, gen) /\ StateSound(s, sent, DoneWith(p), Live(p))
  <2>1. p = m.to => m \in DoneWith(p)
    BY DEF DoneWith
  <2>2. (p = m.to => Gone(s, m)) /\ (m.chain = s.chain => m.counter < s.index)
    BY <1>3, <2>1 DEF StateSound
  <2> QED BY <1>1, <1>3, <2>2, StateErased
<1> QED BY <1>2, <1>3, StoredStates

LEMMA SessSpent == SessInv => SpentPreKeyRemoved
<1> SUFFICES ASSUME SessInv, NEW m \in sent, accepted[m.id] > 0, NEW p \in Party,
                    NEW i \in opks[p], OneTime(p, i) \in OneTimeAgreement(m), ~Renewable(m)
             PROVE  op[p].stage = "remove" /\ op[p].remove = i
  BY DEF SpentPreKeyRemoved
<1>1. IVars /\ SpentOK(p)
  BY DEF SessInv, PartyOK
<1>2. i \in Nat /\ i # 0
  BY <1>1, PreKeyIdNat
<1>3. OneTime(p, i)[1] = "onetime" /\ OneTime(p, i)[4] = i
  BY <1>1, <1>2, KeysMade
<1>4. OneTime(p, i) \in OneTimePart(m.chain[1])
  BY DEF OneTimeAgreement, OneTimePart
<1>5. OneTime(p, i) \notin Live(p)
  BY <1>1, <1>4 DEF SpentOK
<1>6. Excused(p, i)
  BY <1>5 DEF Live
<1>7. i # LastResort /\ OneTime(p, i) \notin leaked
  BY <1>3 DEF Renewable
<1> QED BY <1>6, <1>7 DEF Excused

-----------------------------------------------------------------------------
(* Whatever is received, in whatever order and however often, a record     *)
(* never holds more than five receiver chains per state, 2000 message keys *)
(* per chain and 40 archived states (session_state_add_receiver_chain,     *)
(* session_state_set_message_keys, session_record_promote_state), for      *)
(* every value of those limits.                                            *)
THEOREM SessionTypes == Spec => []TypeOK
BY SessionInvariant, SessTypes, PTL

(* session_cipher_encrypt never uses a message key twice: not across       *)
(* callbacks that store a record read before them, not after a crash that  *)
(* lost a message, not by both ends of a session, not after a session is   *)
(* deleted and begun again.                                                *)
THEOREM NoKeyReuse == Spec => []NoMessageKeyReuse
<1>1. SessInv => NoMessageKeyReuse
  BY DEF SessInv, IMsgs
<1> QED BY <1>1, SessionInvariant, PTL

(* session_cipher_decrypt_* commits a message at most once when its        *)
(* session consumed a one-time pre key for good.                           *)
THEOREM CommittedOnce == Spec => []AtMostOnce
<1>1. SessInv => AtMostOnce
  BY DEF SessInv
<1> QED BY <1>1, SessionInvariant, PTL

(* Once a message is committed, no state that session_store keeps, of the  *)
(* receiver or of the sender, current or archived, yields its message key. *)
THEOREM KeysErased == Spec => []KeyErasure
BY SessionInvariant, SessErasure, PTL

(* A one-time pre key whose session has a committed message is removed,    *)
(* unless signal_protocol_pre_key_remove_key failed or is yet to run.      *)
THEOREM PreKeysSpent == Spec => []SpentPreKeyRemoved
BY SessionInvariant, SessSpent, PTL

-----------------------------------------------------------------------------
(* Refinement                                                              *)

(* Every session of a message on the network consumes a one-time pre key.  *)
NoneRenewable == \A m \in sent : ~Renewable(m)

(* session_store commits the call's message, which was not committed yet.  *)
LEMMA StoreDelivers ==
  ASSUME SessInv, NoneRenewable, NEW p \in Party, StoreSession(p)
  PROVE  \E i \in 1..MaxMsgs : Channel!Deliver(i)
<1>1. IVars /\ IMsgs /\ CallOK(p)
  BY DEF SessInv, PartyOK
<1>2. /\ op[p].stage = "callback" /\ sent' = sent
      /\ accepted' = [accepted EXCEPT ![op[p].id] = IF @ = 0 THEN 1 ELSE 2]
  BY DEF StoreSession
<1>3. PICK m \in sent : m.id = op[p].id /\ m.to = p /\ m \notin DoneWith(p)
  BY <1>1, <1>2 DEF CallOK, Outcome
<1>4. ~Renewable(m) /\ m.id \in 1..used /\ used \in 0..MaxMsgs /\ MaxMsgs \in Nat
  BY <1>1, SessionBounds DEF NoneRenewable, IMsgs, IVars
<1>5. m.id \in 1..MaxMsgs
  BY <1>4
<1>6. accepted \in [1..MaxMsgs -> 0..2]
  BY <1>1 DEF IVars
<1>7. accepted[m.id] = 0
  BY <1>3, <1>4, <1>5, <1>6 DEF DoneWith
<1>8. accepted' = [accepted EXCEPT ![m.id] = 1]
  BY <1>2, <1>3, <1>5, <1>6, <1>7
<1>9. m.id \in {n.id : n \in sent} /\ {n.id : n \in sent}' = {n.id : n \in sent}
  BY <1>2
<1>10. Channel!Deliver(m.id)
  BY <1>7, <1>8, <1>9 DEF Channel!Deliver
<1> QED BY <1>5, <1>10

(* session_cipher_encrypt releases a new plaintext, or none.               *)
LEMMA EncryptSends ==
  ASSUME SessInv, NEW p \in Party, Encrypt(p)
  PROVE  (\E i \in 1..MaxMsgs : Channel!Send(i)) \/ UNCHANGED Channel!channel
<1>1. IVars /\ IMsgs
  BY DEF SessInv
<1>2. /\ used < MaxMsgs /\ accepted' = accepted
      /\ sent' = sent \union {MessageOf(p, rec[p].cur)} \/ sent' = sent
  BY DEF Encrypt
<1>3. CASE sent' = sent
  BY <1>2, <1>3 DEF Channel!channel
<1>4. CASE sent' = sent \union {MessageOf(p, rec[p].cur)}
  <2> DEFINE m == MessageOf(p, rec[p].cur)
  <2>1. used \in 0..MaxMsgs /\ MaxMsgs \in Nat /\ \A n \in sent : n.id \in 1..used
    BY <1>1, SessionBounds DEF IVars, IMsgs
  <2>2. PICK i \in 1..MaxMsgs : i = used + 1
    BY <1>2, <2>1
  <2>3. i \notin {n.id : n \in sent}
    BY <2>1, <2>2
  <2>4. sent' = sent \union {m} /\ m.id = i
    BY <1>4, <2>2 DEF MessageOf
  <2> HIDE DEF m
  <2>5. {n.id : n \in sent'} = {n.id : n \in sent} \union {i}
    BY <2>4
  <2>6. Channel!Send(i)
    BY <1>2, <2>3, <2>5 DEF Channel!Send
  <2> QED BY <2>6
<1> QED BY <1>2, <1>3, <1>4

LEMMA SessionStep ==
  SessInv /\ NoneRenewable /\ [Next]_vars => [Channel!ChannelNext]_(Channel!channel)
<1> SUFFICES ASSUME SessInv, NoneRenewable, [Next]_vars
             PROVE  Channel!ChannelNext \/ UNCHANGED Channel!channel
  OBVIOUS
<1>1. ASSUME NEW p \in Party, StoreSession(p)
      PROVE  Channel!ChannelNext
  BY <1>1, StoreDelivers DEF Channel!ChannelNext
<1>2. ASSUME NEW p \in Party, Encrypt(p)
      PROVE  Channel!ChannelNext \/ UNCHANGED Channel!channel
  BY <1>2, EncryptSends DEF Channel!ChannelNext
<1>3. CASE UNCHANGED <<sent, accepted>>
  BY <1>3 DEF Channel!channel
<1>4. ASSUME NEW p \in Party, Call(p), ~StoreSession(p), ~Encrypt(p)
      PROVE  UNCHANGED <<sent, accepted>>
  BY <1>4 DEF Call, ProcessPreKeyBundle, DecryptPreKeySignalMessage, DecryptSignalMessage,
              AbortDecrypt, RemovePreKey
<1>5. ASSUME NEW p \in Party, Application(p)
      PROVE  UNCHANGED <<sent, accepted>>
  BY <1>5 DEF Application, DeleteSession, Reinstall, TrustIdentity
<1>6. CASE UNCHANGED vars
  BY <1>3, <1>6 DEF vars
<1> QED BY <1>1, <1>2, <1>3, <1>4, <1>5, <1>6 DEF Next

(* Two parties' calls of the session builder and the session cipher, with  *)
(* an unreliable network, crashes, deleted sessions and reinstallations in *)
(* between, implement a channel that delivers each plaintext at most once  *)
(* and nothing else, as long as every session consumes a one-time pre key  *)
(* for good: none is begun without one or with the last-resort key, and no *)
(* removal of one fails.                                                   *)
THEOREM SessionsAreChannel == Spec /\ []NoneRenewable => IsChannel
<1>1. Init => Channel!ChannelInit
  BY DEF Init, Channel!ChannelInit
<1> QED BY <1>1, SessionInvariant, SessionStep, PTL
        DEF Spec, IsChannel, Channel!ChannelSpec
-----------------------------------------------------------------------------
(* The two ends of a session                                               *)

(* What get_or_create_chain_key goes on from: the root key and the ratchet *)
(* key pair of a state.  Of every other field a turn is independent.       *)
End(s) == [root |-> s.root, ratchet |-> s.ratchet]
EndsOf(r) == {End(At(r, i)) : i \in Slots(r)}

(* The ends p has stored, and the ones it will have stored when the        *)
(* decrypt call under way commits.                                         *)
Kept(p) == IF rec[p] = FreshRecord THEN {} ELSE EndsOf(rec[p])
Coming(p) == IF op[p].stage = "callback" THEN EndsOf(op[p].record) ELSE {}
Ends(p) == Kept(p) \union Coming(p)

(* A chain that party p sends on.                                          *)
Sends(p, c, N, G) ==
  /\ IsSeq(c) /\ Len(c) >= 2
  /\ \E b : SecretOK(c[1], b, N, G) /\ Len(c) % 2 = Parity(p, b)

(* Ends of one session are one turn of the ratchet apart, whichever way.   *)
InStep(E, F) ==
  \A e \in E, f \in F : e.root[1] = f.root[1] => OneTurnAhead(e, f) \/ OneTurnAhead(f, e)

(* A message of the session was sent before the end's last turn, or with   *)
(* the chain it has now.                                                   *)
NotPast(p, E, M) ==
  \A e \in E, m \in M : m.to # p /\ m.chain[1] = e.root[1] =>
    Len(m.chain) < Len(e.root) \/ (m.chain = e.root /\ m.ratchet = e.ratchet)

(* End e2 is e after the ratchet turned for m.                             *)
Turns(e, e2, m) ==
  /\ m.chain = CreateChain(e.root, m.ratchet, e.ratchet)
  /\ e2.root = CreateChain(m.chain, m.ratchet, e2.ratchet)

LEMMA EndParts ==
  ASSUME NEW s
  PROVE  End(s).root = s.root /\ End(s).ratchet = s.ratchet
BY DEF End

LEMMA EndsSlots ==
  ASSUME NEW r, NEW e \in EndsOf(r)
  PROVE  \E i \in Slots(r) : e = End(At(r, i)) /\ e.root = At(r, i).root
                             /\ e.ratchet = At(r, i).ratchet
<1>1. PICK i \in Slots(r) : e = End(At(r, i))
  BY DEF EndsOf
<1> DEFINE s == At(r, i)
<1>2. e = End(s)
  BY <1>1
<1> HIDE DEF s
<1>3. e.root = s.root /\ e.ratchet = s.ratchet
  BY <1>2, EndParts
<1> QED BY <1>1, <1>3 DEF s

(* The chains of one party have lengths of one parity, those of the other  *)
(* party of the other.                                                     *)
Sided(p, q, c, d) ==
  /\ Len(c) \in Nat /\ Len(d) \in Nat /\ Len(c) >= 2 /\ Len(d) >= 2
  /\ Len(c) % 2 \in {0, 1} /\ Len(d) % 2 \in {0, 1}
  /\ Len(c) % 2 = Len(d) % 2 <=> p = q

LEMMA SideParity ==
  ASSUME NEW p \in Party, NEW q \in Party, NEW c, NEW d, NEW N, NEW G,
         Sends(p, c, N, G), Sends(q, d, N, G), c[1] = d[1]
  PROVE  Sided(p, q, c, d)
<1>1. PICK b : SecretOK(c[1], b, N, G) /\ Len(c) % 2 = Parity(p, b)
  BY DEF Sends
<1>2. PICK b2 : SecretOK(d[1], b2, N, G) /\ Len(d) % 2 = Parity(q, b2)
  BY DEF Sends
<1>3. b = b2
  BY <1>1, <1>2, BaseOfSecret
<1>4. b[2] \in Party
  BY <1>1, PubParts DEF SecretOK
<1>5. b[2] = p \/ b[2] = q \/ p = q
  BY <1>4, PeerIsOther
<1>6. Parity(p, b) = Parity(q, b) <=> p = q
  BY <1>5 DEF Parity
<1>7. Len(c) \in Nat /\ Len(d) \in Nat /\ Len(c) >= 2 /\ Len(d) >= 2
  BY LenNat DEF Sends
<1>8. Parity(p, b) \in {0, 1} /\ Parity(q, b) \in {0, 1}
  BY DEF Parity
<1> QED BY <1>1, <1>2, <1>3, <1>6, <1>7, <1>8 DEF Sided

LEMMA StateSends ==
  ASSUME NEW p, NEW s, NEW N, NEW G, StateOK(p, s, N, G)
  PROVE  Sends(p, s.root, N, G)
BY DEF StateOK, SenderOK, Sends

LEMMA MessageSends ==
  ASSUME NEW m, NEW N, NEW G, MsgOK(m, N, G)
  PROVE  Sends(Peer(m.to), m.chain, N, G) /\ Peer(m.to) \in Party /\ m.to = Peer(Peer(m.to))
<1>1. m.to \in Party /\ IsSeq(m.chain) /\ Len(m.chain) >= 2
  BY DEF MsgOK
<1>2. PICK b : SecretOK(m.chain[1], b, N, G) /\ Len(m.chain) % 2 = 1 - Parity(m.to, b)
  BY DEF MsgOK
<1> DEFINE q == Peer(m.to)
<1>3. q \in Party /\ q # m.to
  BY <1>1, PeerIsOther
<1> HIDE DEF q
<1>4. b[2] \in Party
  BY <1>2, PubParts DEF SecretOK
<1>5. b[2] = q \/ b[2] = m.to
  BY <1>1, <1>3, <1>4, PeerIsOther
<1>6. Parity(q, b) = 1 - Parity(m.to, b)
  BY <1>3, <1>5 DEF Parity
<1>7. Peer(q) = m.to
  BY <1>1, <1>3, PeerIsOther
<1>8. Sends(q, m.chain, N, G)
  BY <1>1, <1>2, <1>6 DEF Sends
<1> QED BY <1>3, <1>7, <1>8 DEF q

(* A turn in step with the other end stays in step: a message can only     *)
(* turn the ratchet when every end its sender has is one turn ahead, with  *)
(* the ratchet key the message brings.                                     *)
LEMMA TurnInStep ==
  ASSUME NEW p, NEW q, NEW E, NEW F, NEW M, NEW m \in M, NEW e \in E, NEW e2,
         m.to = p, p # q, Turns(e, e2, m), InStep(E, F), NotPast(p, E, M), NotPast(q, F, M),
         IsSeq(e.root), Len(e.root) >= 1,
         \A f \in F : IsSeq(f.root) /\ Len(f.root) >= 1,
         \A n \in M : Len(n.chain) \in Nat
  PROVE  /\ InStep({e2}, F) /\ NotPast(p, {e2}, M) /\ e2.root[1] = e.root[1]
         /\ m.chain[1] = e.root[1]
         /\ Len(m.chain) = Len(e.root) + 1 /\ Len(e2.root) = Len(e.root) + 2
<1> DEFINE a == {m.ratchet, e.ratchet}
           b == {m.ratchet, e2.ratchet}
           c == e.root
           d == m.chain
           g == e2.root
<1>1. d = Append(c, a) /\ g = Append(d, b) /\ IsSeq(c) /\ Len(c) >= 1
  BY DEF Turns, CreateChain, Agreement
<1>2. Len(c) \in Nat
  BY <1>1, LenNat
<1> HIDE DEF a, b, c, d, g
<1>3. Extends(c, d, a)
  BY <1>1, AppendPath
<1>4. IsSeq(d) /\ Len(d) = Len(c) + 1 /\ d[1] = c[1]
  BY <1>3 DEF Extends
<1>5. Len(d) >= 1
  BY <1>1, <1>2, <1>4
<1>6. Extends(d, g, b)
  BY <1>1, <1>4, <1>5, AppendPath
<1>7. Len(g) = Len(c) + 2 /\ g[1] = c[1]
  BY <1>2, <1>4, <1>6 DEF Extends
<1>8. ASSUME NEW f \in F, f.root[1] = g[1]
      PROVE  OneTurnAhead(e2, f)
  <2> DEFINE h == f.root
             x == {f.ratchet, e.ratchet}
             y == {e.ratchet, f.ratchet}
  <2>1. OneTurnAhead(e, f) \/ OneTurnAhead(f, e)
    BY <1>7, <1>8 DEF InStep, c
  <2>2. Len(d) < Len(h) \/ (d = h /\ m.ratchet = f.ratchet)
    BY <1>4, <1>7, <1>8 DEF NotPast, d
  <2>3. (c = Append(h, x)) \/ (h = Append(c, y))
    BY <2>1 DEF OneTurnAhead, CreateChain, Agreement, c
  <2>4. IsSeq(h) /\ Len(h) >= 1
    OBVIOUS
  <2>5. Len(h) \in Nat
    BY <2>4, LenNat
  <2> HIDE DEF h, x, y
  <2>6. CASE c = Append(h, x)
    <3>1. Extends(h, c, x)
      BY <2>4, <2>6, AppendPath
    <3>2. Len(c) = Len(h) + 1
      BY <3>1 DEF Extends
    <3>3. Len(d) # Len(h) /\ ~(Len(d) < Len(h))
      BY <1>2, <1>4, <2>5, <3>2
    <3> QED BY <2>2, <3>3
  <2>7. CASE h = Append(c, y)
    <3>1. Extends(c, h, y)
      BY <1>1, <2>7, AppendPath
    <3>2. Len(h) = Len(d)
      BY <1>4, <3>1 DEF Extends
    <3>3. d = h /\ m.ratchet = f.ratchet
      BY <1>2, <1>4, <2>2, <3>2
    <3> QED BY <1>1, <3>3 DEF OneTurnAhead, CreateChain, Agreement, b, g, h
  <2> QED BY <2>3, <2>6, <2>7
<1>9. ASSUME NEW n \in M, n.to # p, n.chain[1] = g[1]
      PROVE  Len(n.chain) < Len(g)
  <2>1. Len(n.chain) < Len(c) \/ Len(n.chain) = Len(c)
    BY <1>7, <1>9 DEF NotPast, c
  <2> QED BY <1>2, <1>7, <2>1
<1>10. InStep({e2}, F)
  BY <1>8 DEF InStep, g
<1>11. NotPast(p, {e2}, M)
  BY <1>9 DEF NotPast, g
<1> QED BY <1>4, <1>7, <1>10, <1>11 DEF c, d, g
(* The session with secret z in its first turn: the party that began it    *)
(* has ends F that have not turned, and p has sent nothing in it.          *)
FirstTurn(p, F, M, z) ==
  /\ \A f \in F : f.root[1] = z => Len(f.root) = 2
  /\ \A n \in M : n.to # p => n.chain[1] # z

(* What p has when it sets the session up from a message.                  *)
Begins(p, F, M, e, z) == InStep({e}, F) /\ NotPast(p, {e}, M) /\ e.root[1] = z /\ Len(e.root) = 3

LEMMA BegunInStep ==
  ASSUME NEW p, NEW q, NEW F, NEW M, NEW m \in M, NEW e, NEW z, NEW e2,
         m.to = p, p # q, e.root = DerivedKeys(z), Turns(e, e2, m), NotPast(q, F, M),
         FirstTurn(p, F, M, z)
  PROVE  Begins(p, F, M, e2, z)
<1> DEFINE a == {m.ratchet, e.ratchet}
           b == {m.ratchet, e2.ratchet}
           c == e.root
           d == m.chain
           g == e2.root
<1>1. d = Append(c, a) /\ g = Append(d, b)
  BY DEF Turns, CreateChain, Agreement
<1>2. IsSeq(c) /\ Len(c) = 1 /\ c[1] = z
  BY OnePath
<1>3. Len(c) >= 1
  BY <1>2
<1> HIDE DEF a, b, c, d, g
<1>4. Extends(c, d, a)
  BY <1>1, <1>2, <1>3, AppendPath
<1>5. IsSeq(d) /\ Len(d) = 2 /\ d[1] = z
  BY <1>2, <1>4 DEF Extends
<1>6. Len(d) >= 1
  BY <1>5
<1>7. Extends(d, g, b)
  BY <1>1, <1>5, <1>6, AppendPath
<1>8. Len(g) = 3 /\ g[1] = z
  BY <1>5, <1>7 DEF Extends
<1>9. ASSUME NEW f \in F, f.root[1] = z
      PROVE  OneTurnAhead(e2, f)
  <2>1. Len(f.root) = 2
    BY <1>9 DEF FirstTurn
  <2>2. Len(d) < Len(f.root) \/ (d = f.root /\ m.ratchet = f.ratchet)
    BY <1>5, <1>9 DEF NotPast, d
  <2>3. d = f.root /\ m.ratchet = f.ratchet
    BY <1>5, <2>1, <2>2
  <2> QED BY <1>1, <2>3 DEF OneTurnAhead, CreateChain, Agreement, b, g
<1>10. InStep({e2}, F)
  BY <1>8, <1>9 DEF InStep, g
<1>11. NotPast(p, {e2}, M)
  BY <1>8 DEF NotPast, FirstTurn, g
<1> QED BY <1>8, <1>10, <1>11 DEF Begins, g

(* The ends of a record that was rebuilt around s2.                        *)
LEMMA RebuiltEnds ==
  ASSUME NEW r, NEW r2, NEW s2, NEW F, Rebuilt(r, r2, s2, F)
  PROVE  EndsOf(r2) \subseteq EndsOf(r) \union {End(s2)}
<1> SUFFICES ASSUME NEW i \in Slots(r2)
             PROVE  End(At(r2, i)) \in EndsOf(r) \union {End(s2)}
  BY DEF EndsOf
<1>1. At(r2, i) = s2 \/ \E j \in Slots(r) \ F : At(r2, i) = At(r, j)
  BY RebuiltStates
<1> QED BY <1>1 DEF EndsOf

(* Decrypting with a state leaves its end alone, or turns it.              *)
LEMMA DecryptedEnd ==
  ASSUME NEW s, DOMAIN s = StateFields, IsSeq(s.recv), Len(s.recv) <= MaxReceiverChains,
         NEW m, NEW new, DecryptFromState(s, m, new).code = Success,
         NEW s2, s2 = DecryptFromState(s, m, new).state
  PROVE  End(s2) = End(s) \/ Turns(End(s), End(s2), m)
<1>1. (\E k \in 1..Len(s.recv) : KeptChain(s, s2, m, k)) \/ TurnedChain(s, s2, m, new)
  BY Decrypted
<1>2. CASE \E k \in 1..Len(s.recv) : KeptChain(s, s2, m, k)
  BY <1>2 DEF KeptChain, End
<1>3. CASE TurnedChain(s, s2, m, new)
  <2>1. /\ m.chain = CreateChain(s.root, m.ratchet, s.ratchet)
        /\ s2.root = CreateChain(m.chain, m.ratchet, s2.ratchet)
    BY <1>3 DEF TurnedChain
  <2>2. End(s).root = s.root /\ End(s).ratchet = s.ratchet
        /\ End(s2).root = s2.root /\ End(s2).ratchet = s2.ratchet
    BY EndParts
  <2> QED BY <2>1, <2>2 DEF Turns
<1> QED BY <1>1, <1>2, <1>3

(* A message of a session that is known turns one end of the record, or    *)
(* none.                                                                   *)
KnownEnds(E, E2, m) ==
  \/ E2 \subseteq E
  \/ \E e \in E : \E e2 : Turns(e, e2, m) /\ E2 \subseteq E \union {e2}

LEMMA DecryptedEnds ==
  ASSUME NEW p, NEW r, NEW N, NEW G, RecordOK(p, r, N, G), NEW m, NEW new,
         DecryptFromRecord(r, m, new).code = Success,
         NEW r2, r2 = DecryptFromRecord(r, m, new).record
  PROVE  KnownEnds(EndsOf(r), EndsOf(r2), m)
<1>1. IsSeq(r.prev) /\ Len(r.prev) <= MaxArchivedStates /\ DOMAIN r = {"cur", "prev"}
  BY DEF RecordOK
<1>2. PICK f \in Slots(r) : DecryptedAt(r, r2, m, new, f)
  BY <1>1, DecryptedRecord
<1> DEFINE s == At(r, f)
           s2 == DecryptFromState(s, m, new).state
<1>3. DecryptFromState(s, m, new).code = Success /\ Rebuilt(r, r2, s2, {f})
  BY <1>2 DEF DecryptedAt
<1>4. StateOK(p, s, N, G) /\ End(s) \in EndsOf(r)
  BY DEF RecordOK, EndsOf
<1>5. s2 = DecryptFromState(s, m, new).state
  OBVIOUS
<1> HIDE DEF s, s2
<1>6. DOMAIN s = StateFields /\ IsSeq(s.recv) /\ Len(s.recv) <= MaxReceiverChains
  BY <1>4 DEF StateOK, LinksOK
<1>7. End(s2) = End(s) \/ Turns(End(s), End(s2), m)
  BY <1>3, <1>5, <1>6, DecryptedEnd
<1>8. EndsOf(r2) \subseteq EndsOf(r) \union {End(s2)}
  BY <1>3, RebuiltEnds
<1>9. CASE End(s2) = End(s)
  BY <1>4, <1>8, <1>9 DEF KnownEnds
<1>10. CASE Turns(End(s), End(s2), m)
  BY <1>4, <1>8, <1>10 DEF KnownEnds
<1> QED BY <1>7, <1>9, <1>10

(* A message that begins a session adds one end, turned from the secret.   *)
BegunEnds(E, E2, z, m) ==
  \E e, e2 : e.root = DerivedKeys(z) /\ Turns(e, e2, m) /\ E2 \subseteq E \union {e2}

LEMMA BuiltEnds ==
  ASSUME NEW p \in Party, NEW r, NEW m, NEW new, NEW N, NEW N2, NEW G, NEW M, NEW D, NEW L,
         NEW s, NEW z, NEW signed, NEW r1,
         BobCase(p, r, m, new, N, N2, G, M, D, L, s, z, signed, r1),
         NEW r2, r2 = DecryptFromRecord(r1, m, new).record
  PROVE  BegunEnds(IF r = FreshRecord THEN {} ELSE EndsOf(r), EndsOf(r2), z, m)
<1> DEFINE E == IF r = FreshRecord THEN {} ELSE EndsOf(r)
<1> SUFFICES ASSUME r = FreshRecord \/ Sound(p, r, N, G, M, D, L),
                    MsgsOK(M, N, G), m \in M, m.to = p,
                    m.base # NoKey, ~HasSessionState(r, m.base),
                    NewKeyOf(p, new, N, N2), Grows(N, N), Grows(G, G),
                    BobReady(s, z, m.base, signed), r1 = WithNew(r, s),
                    DecryptFromRecord(r1, m, new).code = Success
             PROVE  BegunEnds(E, EndsOf(r2), z, m)
  BY DEF BobCase
<1>1. MsgOK(m, N, G) /\ (r = FreshRecord \/ IsSeq(r.prev))
  BY DEF MsgsOK, Sound, RecordOK
<1>2. BuiltFrom(r, r1, s)
  BY <1>1, BuiltSlots
<1>3. IsSeq(r1.prev) /\ Len(r1.prev) <= MaxArchivedStates /\ DOMAIN r1 = {"cur", "prev"}
      /\ At(r1, 0) = s
  BY <1>2 DEF BuiltFrom
<1>4. PICK f \in Slots(r1) : DecryptedAt(r1, r2, m, new, f)
  BY <1>3, DecryptedRecord
<1>5. \A i \in Slots(r1) \ {0} : r # FreshRecord /\ \E j \in Slots(r) : At(r1, i) = At(r, j)
  BY <1>2 DEF BuiltFrom
<1>6. f = 0
  <2> SUFFICES ASSUME f # 0 PROVE FALSE
    OBVIOUS
  <2>1. PICK j \in Slots(r) : At(r1, f) = At(r, j)
    BY <1>5
  <2>2. RecordOK(p, r, N, G)
    BY <1>5 DEF Sound
  <2> DEFINE t == At(r, j)
  <2>3. StateOK(p, t, N, G) /\ Alone(t) /\ t \in States(r)
    BY <2>2, SlotsStates DEF RecordOK
  <2>4. t.base # m.base
    BY <2>3 DEF HasSessionState
  <2> HIDE DEF t
  <2>5. DecryptFromState(t, m, new).code # Success
    BY <1>1, <2>3, <2>4, OtherSession
  <2> QED BY <1>4, <2>1, <2>5 DEF DecryptedAt, t
<1> DEFINE s2 == DecryptFromState(s, m, new).state
<1>7. /\ DecryptFromState(s, m, new).code = Success /\ s2 = DecryptFromState(s, m, new).state
      /\ Rebuilt(r1, r2, s2, {0})
  BY <1>3, <1>4, <1>6 DEF DecryptedAt
<1> HIDE DEF s2
<1>8. DOMAIN s = StateFields /\ s.root = DerivedKeys(z) /\ s.recv = <<>>
  BY DEF BobReady
<1>9. IsSeq(s.recv) /\ Len(s.recv) <= MaxReceiverChains /\ 1..Len(s.recv) = {}
  <2>1. LinksOK(s.recv, s.root, N) /\ Len(s.recv) = 0
    BY <1>8, NoLinks
  <2> QED BY <2>1 DEF LinksOK
<1>10. TurnedChain(s, s2, m, new)
  <2>1. (\E k \in 1..Len(s.recv) : KeptChain(s, s2, m, k)) \/ TurnedChain(s, s2, m, new)
    BY <1>7, <1>8, <1>9, Decrypted
  <2> QED BY <1>9, <2>1
<1>11. Turns(End(s), End(s2), m) /\ End(s).root = DerivedKeys(z)
  <2>1. /\ m.chain = CreateChain(s.root, m.ratchet, s.ratchet)
        /\ s2.root = CreateChain(m.chain, m.ratchet, s2.ratchet)
    BY <1>10 DEF TurnedChain
  <2>2. End(s).root = s.root /\ End(s).ratchet = s.ratchet
        /\ End(s2).root = s2.root /\ End(s2).ratchet = s2.ratchet
    BY EndParts
  <2> QED BY <1>8, <2>1, <2>2 DEF Turns
<1>12. EndsOf(r2) \subseteq E \union {End(s2)}
  <2> SUFFICES ASSUME NEW i \in Slots(r2)
               PROVE  End(At(r2, i)) \in E \union {End(s2)}
    BY DEF EndsOf
  <2>1. At(r2, i) = s2 \/ \E j \in Slots(r1) \ {0} : At(r2, i) = At(r1, j)
    BY <1>7, RebuiltStates
  <2>2. At(r2, i) = s2 \/ (r # FreshRecord /\ \E j \in Slots(r) : At(r2, i) = At(r, j))
    BY <1>5, <2>1
  <2> QED BY <2>2 DEF EndsOf
<1> QED BY <1>11, <1>12 DEF BegunEnds
-----------------------------------------------------------------------------
(* The invariant of the pairs of ends                                      *)

(* Party p has committed a message of the session with secret z, or has a  *)
(* decrypt call under way that would.                                      *)
Answered(p, z) == \E n \in sent : n.to = p /\ accepted[n.id] > 0 /\ n.chain[1] = z
Answering(p, z) ==
  op[p].stage = "callback" /\ \E n \in sent : n.id = op[p].id /\ n.to = p /\ n.chain[1] = z

(* The party that did not begin a session has an end of it only once it    *)
(* has answered, and the other one has turned only then.                   *)
Replies(p) ==
  /\ \A e \in Kept(p) : Len(e.root) % 2 = 1 => Answered(p, e.root[1])
  /\ \A e \in Coming(p) : Len(e.root) % 2 = 1 =>
       Answered(p, e.root[1]) \/ Answering(p, e.root[1])
  /\ \A e \in Ends(p) : Len(e.root) % 2 = 0 /\ Len(e.root) > 2 =>
       Answered(Peer(p), e.root[1])

RepliesSent == \A m \in sent : Len(m.chain) % 2 = 1 => Answered(Peer(m.to), m.chain[1])

(* A base key has one secret.                                              *)
HasBase(z, b) == b[1] = "ephemeral" /\ \E x \in z[3] : x[1] = "signed" /\ z[3] = {x, b}
SecretsOf(p) == {e.root[1] : e \in Ends(p)}
Secrets == {m.chain[1] : m \in sent} \union (UNION {SecretsOf(p) : p \in Party})
OneSecret == \A y, z \in Secrets : \A b : HasBase(y, b) /\ HasBase(z, b) => y = z

StepInv ==
  /\ OneSecret
  /\ \A p, q \in Party : p # q => InStep(Ends(p), Ends(q))
  /\ \A p \in Party : NotPast(p, Ends(p), sent)
  /\ \A p \in Party : Replies(p)
  /\ RepliesSent

LEMMA StepInit == Init => StepInv
<1> SUFFICES ASSUME Init PROVE StepInv
  OBVIOUS
<1>1. sent = {} /\ \A p \in Party : rec[p] = FreshRecord /\ op[p].stage = "idle"
  BY DEF Init, NoOp
<1>2. \A p \in Party : Kept(p) = {} /\ Coming(p) = {} /\ Ends(p) = {}
  BY <1>1 DEF Kept, Coming, Ends
<1>3. \A p \in Party : SecretsOf(p) = {}
  BY <1>2 DEF SecretsOf
<1>4. Secrets = {}
  BY <1>1, <1>3 DEF Secrets
<1>5. OneSecret /\ RepliesSent
  BY <1>1, <1>4 DEF OneSecret, RepliesSent
<1>6. \A p \in Party : NotPast(p, Ends(p), sent) /\ Replies(p)
  BY <1>2 DEF NotPast, Replies
<1>7. \A p, q \in Party : InStep(Ends(p), Ends(q))
  BY <1>2 DEF InStep
<1> QED BY <1>5, <1>6, <1>7 DEF StepInv

LEMMA InStepFewer ==
  ASSUME NEW E, NEW F, NEW E2, NEW F2, InStep(E, F), E2 \subseteq E, F2 \subseteq F
  PROVE  InStep(E2, F2) /\ InStep(F2, E2)
BY DEF InStep

LEMMA InStepMore ==
  ASSUME NEW E, NEW F, NEW E2, NEW F2, NEW e, InStep(E, F), InStep({e}, F),
         E2 \subseteq E \union {e}, F2 \subseteq F
  PROVE  InStep(E2, F2) /\ InStep(F2, E2)
BY DEF InStep

LEMMA NotPastMore ==
  ASSUME NEW p, NEW E, NEW E2, NEW e, NEW M, NotPast(p, E, M), NotPast(p, {e}, M),
         E2 \subseteq E \union {e}
  PROVE  NotPast(p, E2, M)
BY DEF NotPast

LEMMA NotPastFewer ==
  ASSUME NEW p, NEW E, NEW E2, NEW M, NotPast(p, E, M), E2 \subseteq E
  PROVE  NotPast(p, E2, M)
BY DEF NotPast

(* A stored or coming end is one its party sends on.                       *)
LEMMA EndSends ==
  ASSUME SessInv, NEW p \in Party, NEW e \in Ends(p)
  PROVE  Sends(p, e.root, nk, gen)
<1>1. PartyOK(p)
  BY DEF SessInv
<1>2. ASSUME NEW r, RecordOK(p, r, nk, gen), e \in EndsOf(r)
      PROVE  Sends(p, e.root, nk, gen)
  <2>1. PICK i \in Slots(r) : e.root = At(r, i).root
    BY <1>2, EndsSlots
  <2> DEFINE s == At(r, i)
  <2>2. StateOK(p, s, nk, gen) /\ e.root = s.root
    BY <1>2, <2>1 DEF RecordOK
  <2> HIDE DEF s
  <2> QED BY <2>2, StateSends
<1>3. CASE e \in Kept(p)
  <2>1. rec[p] # FreshRecord /\ e \in EndsOf(rec[p])
    BY <1>3 DEF Kept
  <2>2. RecordOK(p, rec[p], nk, gen)
    BY <1>1, <2>1 DEF PartyOK, StoredOK, Sound
  <2> QED BY <1>2, <2>1, <2>2
<1>4. CASE e \in Coming(p)
  <2>1. op[p].stage = "callback" /\ e \in EndsOf(op[p].record)
    BY <1>4 DEF Coming
  <2>2. RecordOK(p, op[p].record, nk, gen)
    BY <1>1, <2>1 DEF PartyOK, CallOK, Outcome, Sound
  <2> QED BY <1>2, <2>1, <2>2
<1> QED BY <1>3, <1>4 DEF Ends

LEMMA AnsweredStays ==
  ASSUME sent \subseteq sent', \A n \in sent : accepted[n.id] > 0 => accepted'[n.id] > 0,
         NEW p, NEW z, Answered(p, z)
  PROVE  Answered(p, z)'
BY DEF Answered

LEMMA RepliesStay ==
  ASSUME NEW p \in Party, Replies(p), Kept(p)' \subseteq Kept(p), Coming(p)' \subseteq Coming(p),
         Coming(p)' = {} \/ op'[p] = op[p],
         sent \subseteq sent', \A n \in sent : accepted[n.id] > 0 => accepted'[n.id] > 0
  PROVE  Replies(p)'
<1>1. \A q, z : Answered(q, z) => Answered(q, z)'
  BY AnsweredStays
<1>2. \A z : Answering(p, z) /\ Coming(p)' # {} => Answering(p, z)'
  BY DEF Answering
<1>3. Ends(p)' \subseteq Ends(p)
  BY DEF Ends
<1>4. \A e \in Kept(p)' : Len(e.root) % 2 = 1 => Answered(p, e.root[1])'
  BY <1>1 DEF Replies
<1>5. \A e \in Coming(p)' : Len(e.root) % 2 = 1 =>
         Answered(p, e.root[1])' \/ Answering(p, e.root[1])'
  BY <1>1, <1>2 DEF Replies
<1>6. \A e \in Ends(p)' : Len(e.root) % 2 = 0 /\ Len(e.root) > 2 =>
         Answered(Peer(p), e.root[1])'
  BY <1>1, <1>3 DEF Replies
<1> QED BY <1>4, <1>5, <1>6 DEF Replies

LEMMA SentStays ==
  ASSUME RepliesSent, sent' = sent, \A n \in sent : accepted[n.id] > 0 => accepted'[n.id] > 0
  PROVE  RepliesSent'
<1>1. \A q, z : Answered(q, z) => Answered(q, z)'
  BY AnsweredStays
<1> QED BY <1>1 DEF RepliesSent

LEMMA SecretsOfIn ==
  ASSUME NEW p \in Party, NEW e \in Ends(p)
  PROVE  e.root[1] \in Secrets
BY DEF SecretsOf, Secrets

(* A step that leaves the network alone and gives no party a new end.      *)
LEMMA FewerEnds ==
  ASSUME StepInv, \A p \in Party : Ends(p)' \subseteq Ends(p), sent' = sent,
         \A n \in sent : accepted[n.id] > 0 => accepted'[n.id] > 0,
         \A p \in Party : Replies(p)'
  PROVE  StepInv'
<1>1. \A p, q \in Party : p # q => InStep(Ends(p)', Ends(q)')
  BY InStepFewer DEF StepInv
<1>2. \A p \in Party : NotPast(p, Ends(p)', sent')
  BY NotPastFewer DEF StepInv
<1>3. Secrets' \subseteq Secrets
  <2>1. \A p \in Party : SecretsOf(p)' \subseteq SecretsOf(p)
    BY DEF SecretsOf
  <2> QED BY <2>1 DEF Secrets
<1>4. OneSecret'
  BY <1>3 DEF StepInv, OneSecret
<1>5. RepliesSent'
  BY SentStays DEF StepInv
<1> QED BY <1>1, <1>2, <1>4, <1>5 DEF StepInv

(* A step that leaves the network alone and gives p one new end.           *)
LEMMA OneEndMore ==
  ASSUME StepInv, NEW p \in Party, NEW e,
         InStep({e}, Ends(Peer(p))), NotPast(p, {e}, sent),
         e.root[1] \in Secrets
           \/ \A y \in Secrets : \A b : ~(HasBase(y, b) /\ HasBase(e.root[1], b)),
         Ends(p)' \subseteq Ends(p) \union {e},
         \A q \in Party : q # p => Ends(q)' = Ends(q),
         sent' = sent, accepted' = accepted, \A q \in Party : Replies(q)'
  PROVE  StepInv'
<1> DEFINE q == Peer(p)
<1>1. q \in Party /\ q # p /\ \A o \in Party : o = p \/ o = q
  BY PeerIsOther
<1> HIDE DEF q
<1>2. InStep({e}, Ends(q)) /\ Ends(q)' = Ends(q)
  BY <1>1 DEF q
<1>3. InStep(Ends(p)', Ends(q)') /\ InStep(Ends(q)', Ends(p)')
  <2>1. InStep(Ends(p), Ends(q))
    BY <1>1 DEF StepInv
  <2>2. Ends(q)' \subseteq Ends(q)
    BY <1>2
  <2> QED BY <1>2, <2>1, <2>2, InStepMore
<1>4. \A x, y \in Party : x # y => InStep(Ends(x)', Ends(y)')
  BY <1>1, <1>3
<1>5. NotPast(p, Ends(p)', sent') /\ NotPast(q, Ends(q)', sent')
  <2>1. NotPast(p, Ends(p), sent) /\ NotPast(q, Ends(q), sent)
    BY <1>1 DEF StepInv
  <2>2. NotPast(p, Ends(p)', sent)
    BY <2>1, NotPastMore
  <2> QED BY <1>2, <2>1, <2>2
<1>6. \A x \in Party : NotPast(x, Ends(x)', sent')
  BY <1>1, <1>5
<1>7. Secrets' \subseteq Secrets \union {e.root[1]}
  <2>1. SecretsOf(p)' \subseteq SecretsOf(p) \union {e.root[1]}
    BY DEF SecretsOf
  <2>2. SecretsOf(q)' = SecretsOf(q)
    BY <1>2 DEF SecretsOf
  <2>3. UNION {SecretsOf(x)' : x \in Party} \subseteq
          (UNION {SecretsOf(x) : x \in Party}) \union {e.root[1]}
    BY <1>1, <2>1, <2>2
  <2> QED BY <2>3 DEF Secrets
<1>8. OneSecret'
  BY <1>7 DEF StepInv, OneSecret
<1>9. RepliesSent'
  BY SentStays DEF StepInv
<1> QED BY <1>4, <1>6, <1>8, <1>9 DEF StepInv
(* Steps that store no record but the empty one, and begin no call.        *)
LEMMA ForgetStep ==
  ASSUME StepInv, sent' = sent, accepted' = accepted,
         \A p \in Party : /\ rec'[p] \in {rec[p], FreshRecord}
                          /\ op'[p] = op[p] \/ op'[p].stage # "callback"
  PROVE  StepInv'
<1>1. ASSUME NEW p \in Party
      PROVE  /\ Kept(p)' \subseteq Kept(p) /\ Coming(p)' \subseteq Coming(p)
             /\ Coming(p)' = {} \/ op'[p] = op[p]
  BY <1>1 DEF Kept, Coming
<1>2. \A p \in Party : Ends(p)' \subseteq Ends(p)
  BY <1>1 DEF Ends
<1>3. \A p \in Party : Replies(p)'
  BY <1>1, RepliesStay DEF StepInv
<1> QED BY <1>2, <1>3, FewerEnds

(* session_store: what was coming is kept, and the message is committed.   *)
LEMMA StoreInStep ==
  ASSUME SessInv, StepInv, NEW p \in Party, StoreSession(p)
  PROVE  StepInv'
<1>1. IVars /\ IMsgs
  BY DEF SessInv
<1>2. /\ op[p].stage = "callback" /\ sent' = sent
      /\ rec' = [rec EXCEPT ![p] = op[p].record]
      /\ accepted' = [accepted EXCEPT ![op[p].id] = IF @ = 0 THEN 1 ELSE 2]
      /\ op' = [op EXCEPT ![p] = IF op[p].remove = 0 THEN NoOp ELSE [@ EXCEPT !.stage = "remove"]]
  BY DEF StoreSession
<1>3. /\ rec'[p] = op[p].record /\ \A o \in Party : o # p => rec'[o] = rec[o]
      /\ op'[p].stage \in {"idle", "remove"} /\ \A o \in Party : o # p => op'[o] = op[o]
  <2>1. NoOp.stage = "idle" /\ DOMAIN op = Party /\ DOMAIN rec = Party
        /\ DOMAIN op[p] = {"stage", "record", "id", "remove"}
    BY <1>1, NoOpShape DEF IVars
  <2> QED BY <1>2, <2>1
<1>4. Kept(p)' \subseteq Coming(p) /\ Coming(p)' = {}
  BY <1>2, <1>3 DEF Kept, Coming
<1>5. \A o \in Party : o # p => Kept(o)' = Kept(o) /\ Coming(o)' = Coming(o)
  BY <1>3 DEF Kept, Coming
<1>6. \A o \in Party : Ends(o)' \subseteq Ends(o)
  BY <1>4, <1>5 DEF Ends
<1>7. \A n \in sent : n.id \in 1..MaxMsgs
  <2>1. used \in 0..MaxMsgs /\ MaxMsgs \in Nat /\ \A n \in sent : n.id \in 1..used
    BY <1>1, SessionBounds DEF IVars, IMsgs
  <2> QED BY <2>1
<1>8. \A n \in sent : /\ accepted[n.id] > 0 => accepted'[n.id] > 0
                      /\ n.id = op[p].id => accepted'[n.id] > 0
  <2>1. accepted \in [1..MaxMsgs -> 0..2]
    BY <1>1 DEF IVars
  <2> QED BY <1>2, <1>7, <2>1
<1>9. \A q, z : Answered(q, z) => Answered(q, z)'
  BY <1>2, <1>8, AnsweredStays
<1>10. \A z : Answering(p, z) => Answered(p, z)'
  BY <1>2, <1>8 DEF Answering, Answered
<1>11. ASSUME NEW o \in Party
       PROVE  Replies(o)'
  <2>1. CASE o # p
    BY <1>2, <1>3, <1>5, <1>8, <2>1, RepliesStay DEF StepInv
  <2>2. CASE o = p
    <3>1. Replies(p)
      BY DEF StepInv
    <3>2. \A e \in Kept(p)' : Len(e.root) % 2 = 1 => Answered(p, e.root[1])'
      BY <1>4, <1>9, <1>10, <3>1 DEF Replies
    <3>3. \A e \in Ends(p)' : Len(e.root) % 2 = 0 /\ Len(e.root) > 2 =>
             Answered(Peer(p), e.root[1])'
      BY <1>6, <1>9, <3>1 DEF Replies
    <3> QED BY <1>4, <2>2, <3>2, <3>3 DEF Replies
  <2> QED BY <2>1, <2>2
<1> QED BY <1>2, <1>6, <1>8, <1>11, FewerEnds

(* Changing the index of the sender chain changes no end.                  *)
LEMMA IndexEnds ==
  ASSUME NEW r, NEW r2, NEW i, IsSeq(r.prev), DOMAIN r = {"cur", "prev"},
         DOMAIN r.cur = StateFields, r2 = [r EXCEPT !.cur = [r.cur EXCEPT !.index = i]]
  PROVE  EndsOf(r2) = EndsOf(r)
<1> DEFINE s == r.cur
           s2 == [s EXCEPT !.index = i]
<1>1. r2.cur = s2 /\ r2.prev = r.prev
  OBVIOUS
<1>2. s2.root = s.root /\ s2.ratchet = s.ratchet
  BY DEF StateFields
<1>3. End(s2) = End(s)
  BY <1>2 DEF End
<1> HIDE DEF s, s2
<1>4. Slots(r2) = Slots(r)
  BY <1>1 DEF Slots
<1>5. \A j \in Slots(r) : End(At(r2, j)) = End(At(r, j))
  BY <1>1, <1>3 DEF At, s
<1> QED BY <1>4, <1>5 DEF EndsOf

(* The ends of one record are of different sessions.                       *)
LEMMA EndsDiffer ==
  ASSUME NEW p, NEW r, NEW N, NEW G, RecordOK(p, r, N, G), NEW e \in EndsOf(r),
         e.root[1] = r.cur.root[1]
  PROVE  e.root = r.cur.root /\ e.ratchet = r.cur.ratchet
<1>1. PICK i \in Slots(r) : e.root = At(r, i).root /\ e.ratchet = At(r, i).ratchet
  BY EndsSlots
<1>2. 0 \in Slots(r) /\ At(r, 0) = r.cur
  BY LenNat DEF RecordOK, Slots, At
<1> DEFINE s == At(r, i)
           t == At(r, 0)
<1>3. StateOK(p, s, N, G) /\ StateOK(p, t, N, G)
  BY <1>2 DEF RecordOK
<1>4. i # 0 => s.base # t.base
  BY <1>2 DEF RecordOK, Beside
<1>5. s.root[1] = t.root[1]
  BY <1>1, <1>2
<1> HIDE DEF s, t
<1>6. SecretOK(s.root[1], s.base, N, G) /\ SecretOK(t.root[1], t.base, N, G)
  BY <1>3, StateKeys
<1>7. s.base = t.base
  BY <1>5, <1>6, BaseOfSecret
<1> QED BY <1>1, <1>2, <1>4, <1>7

(* session_cipher_encrypt: the message is on the chain of the current end, *)
(* the only one of its session while no call is under way.                 *)
LEMMA EncryptInStep ==
  ASSUME SessInv, StepInv, NEW p \in Party, Encrypt(p)
  PROVE  StepInv'
<1> DEFINE q == Peer(p)
           r == rec[p]
           s == r.cur
           m == MessageOf(p, s)
           r2 == [r EXCEPT !.cur = [s EXCEPT !.index = s.index + 1]]
<1>1. /\ UNCHANGED <<op, accepted>> /\ op[p].stage = "idle" /\ HasSenderChain(s)
      /\ rec' = [rec EXCEPT ![p] = r2]
      /\ sent' = sent \/ sent' = sent \union {m}
  BY DEF Encrypt
<1>2. IVars /\ IMsgs /\ PartyOK(p)
  BY DEF SessInv
<1>3. r # FreshRecord
  <2>1. FreshRecord.cur.ratchet = NoKey
    BY DEF FreshRecord, EmptyState
  <2> QED BY <1>1, <2>1 DEF HasSenderChain
<1>4. RecordOK(p, r, nk, gen)
  BY <1>2, <1>3 DEF PartyOK, StoredOK, Sound
<1>5. q \in Party /\ q # p /\ \A o \in Party : o = p \/ o = q
  BY PeerIsOther
<1>6. m.to = q /\ m.chain = s.chain /\ m.ratchet = s.ratchet
  BY DEF MessageOf
<1>7. rec'[p] = r2 /\ \A o \in Party : o # p => rec'[o] = rec[o]
  BY <1>1, <1>2 DEF IVars
<1>8. r2 = [r EXCEPT !.cur = [r.cur EXCEPT !.index = s.index + 1]]
  OBVIOUS
<1> HIDE DEF q, m, r2
<1>9. 0 \in Slots(r) /\ At(r, 0) = s
  BY <1>4, LenNat DEF RecordOK, Slots, At
<1>10. StateOK(p, s, nk, gen)
  BY <1>4, <1>9 DEF RecordOK
<1>11. m.chain = s.root /\ DOMAIN s = StateFields
  BY <1>6, <1>10 DEF StateOK, SenderOK
<1>12. EndsOf(r2) = EndsOf(r)
  <2>1. IsSeq(r.prev) /\ DOMAIN r = {"cur", "prev"} /\ DOMAIN r.cur = StateFields
    BY <1>4, <1>11 DEF RecordOK
  <2> HIDE DEF s, r
  <2> QED BY <1>8, <2>1, IndexEnds
<1>13. Kept(p) = EndsOf(r) /\ Coming(p) = {} /\ Ends(p) = EndsOf(r)
  BY <1>1, <1>3 DEF Kept, Coming, Ends
<1>14. \A o \in Party : o # p => Kept(o)' = Kept(o) /\ Coming(o)' = Coming(o)
  BY <1>1, <1>7 DEF Kept, Coming
<1>15. Kept(p)' \subseteq Kept(p) /\ Coming(p)' = {}
  BY <1>1, <1>7, <1>12, <1>13 DEF Kept, Coming
<1>16. \A o \in Party : Ends(o)' \subseteq Ends(o)
  BY <1>14, <1>15 DEF Ends
<1>17. sent \subseteq sent' /\ accepted' = accepted /\ op' = op
  BY <1>1
<1>18. \A o \in Party : Replies(o)'
  <2>1. \A o \in Party : Kept(o)' \subseteq Kept(o) /\ Coming(o)' \subseteq Coming(o)
    BY <1>14, <1>15
  <2> QED BY <1>17, <2>1, RepliesStay DEF StepInv
<1>19. CASE sent' = sent
  BY <1>16, <1>17, <1>18, <1>19, FewerEnds
<1>20. CASE sent' = sent \union {m}
  <2> DEFINE e == End(s)
  <2>1. e.root = s.root /\ e.ratchet = s.ratchet
    BY EndParts
  <2>2. e \in Ends(p) /\ e \in Kept(p)
    BY <1>9, <1>13 DEF EndsOf
  <2> HIDE DEF e
  <2>3. \A x, y \in Party : x # y => InStep(Ends(x)', Ends(y)')
    BY <1>16, InStepFewer DEF StepInv
  <2>4. Secrets' \subseteq Secrets
    <3>1. \A o \in Party : SecretsOf(o)' \subseteq SecretsOf(o)
      BY <1>16 DEF SecretsOf
    <3>2. m.chain[1] \in Secrets
      BY <1>11, <2>1, <2>2, SecretsOfIn
    <3>3. {n.chain[1] : n \in sent'} = {n.chain[1] : n \in sent} \union {m.chain[1]}
      BY <1>20
    <3> QED BY <3>1, <3>2, <3>3 DEF Secrets
  <2>5. OneSecret'
    BY <2>4 DEF StepInv, OneSecret
  <2>6. \A z : \A o : Answered(o, z) => Answered(o, z)'
    BY <1>17, AnsweredStays
  <2>7. Peer(q) = p
    BY <1>5, PeerIsOther
  <2>8. RepliesSent'
    <3>1. Len(m.chain) % 2 = 1 => Answered(p, m.chain[1])
      BY <1>11, <2>1, <2>2 DEF StepInv, Replies
    <3>2. ASSUME NEW n \in sent', Len(n.chain) % 2 = 1
          PROVE  Answered(Peer(n.to), n.chain[1])'
      <4>1. CASE n \in sent
        BY <2>6, <3>2, <4>1 DEF StepInv, RepliesSent
      <4>2. CASE n = m
        BY <1>6, <2>6, <2>7, <3>1, <3>2, <4>2
      <4> QED BY <1>20, <4>1, <4>2
    <3> QED BY <3>2 DEF RepliesSent
  <2>9. NotPast(p, Ends(p), sent')
    <3>1. ASSUME NEW f \in Ends(p), m.chain[1] = f.root[1]
          PROVE  m.chain = f.root /\ m.ratchet = f.ratchet
      <4>1. f \in EndsOf(r) /\ f.root[1] = r.cur.root[1]
        BY <1>11, <1>13, <3>1
      <4> HIDE DEF r
      <4>2. f.root = r.cur.root /\ f.ratchet = r.cur.ratchet
        BY <1>4, <4>1, EndsDiffer
      <4> QED BY <1>6, <1>11, <4>2
    <3>2. NotPast(p, Ends(p), sent)
      BY DEF StepInv
    <3> QED BY <1>20, <3>1, <3>2 DEF NotPast
  <2>10. NotPast(q, Ends(q), sent')
    <3>1. NotPast(q, Ends(q), sent)
      BY <1>5 DEF StepInv
    <3> QED BY <1>6, <1>20, <3>1 DEF NotPast
  <2>11. \A o \in Party : NotPast(o, Ends(o)', sent')
    BY <1>5, <1>16, <2>9, <2>10, NotPastFewer
  <2> QED BY <1>18, <2>3, <2>5, <2>8, <2>11 DEF StepInv
<1> QED BY <1>1, <1>19, <1>20

LEMMA BaseUnique ==
  ASSUME NEW z, NEW b, NEW c, HasBase(z, b), HasBase(z, c)
  PROVE  b = c
<1>1. PICK x \in z[3] : x[1] = "signed" /\ z[3] = {x, b}
  BY DEF HasBase
<1>2. PICK y \in z[3] : y[1] = "signed" /\ z[3] = {y, c}
  BY DEF HasBase
<1>3. b[1] = "ephemeral" /\ c[1] = "ephemeral"
  BY DEF HasBase
<1>4. b \in {y, c} /\ b # y
  BY <1>1, <1>2, <1>3
<1> QED BY <1>4

LEMMA SecretBase ==
  ASSUME NEW z, NEW b, NEW N, NEW G, SecretOK(z, b, N, G)
  PROVE  HasBase(z, b) /\ b \in Pub /\ b[4] <= N[b[2]]
BY DEF SecretOK, HasBase

LEMMA SecretsOK ==
  ASSUME SessInv, NEW y \in Secrets
  PROVE  \E b : SecretOK(y, b, nk, gen)
<1>1. CASE \E m \in sent : y = m.chain[1]
  <2>1. PICK m \in sent : y = m.chain[1]
    BY <1>1
  <2>2. MsgOK(m, nk, gen)
    BY DEF SessInv, IMsgs, MsgsOK
  <2> QED BY <2>1, <2>2 DEF MsgOK
<1>2. CASE \E p \in Party : \E e \in Ends(p) : y = e.root[1]
  <2>1. PICK p \in Party : \E e \in Ends(p) : y = e.root[1]
    BY <1>2
  <2>2. PICK e \in Ends(p) : y = e.root[1]
    BY <2>1
  <2>3. Sends(p, e.root, nk, gen)
    BY EndSends
  <2> QED BY <2>2, <2>3 DEF Sends
<1>3. y \in {m.chain[1] : m \in sent} \/ \E p \in Party : y \in SecretsOf(p)
  BY DEF Secrets
<1> QED BY <1>1, <1>2, <1>3 DEF SecretsOf

LEMMA BuilderEnds ==
  ASSUME NEW r, NEW s, NEW r2, r = FreshRecord \/ IsSeq(r.prev), r2 = WithNew(r, s)
  PROVE  EndsOf(r2) \subseteq (IF r = FreshRecord THEN {} ELSE EndsOf(r)) \union {End(s)}
<1>1. BuiltFrom(r, r2, s)
  BY BuiltSlots
<1>2. /\ At(r2, 0) = s
      /\ \A i \in Slots(r2) \ {0} : r # FreshRecord /\ \E j \in Slots(r) : At(r2, i) = At(r, j)
  BY <1>1 DEF BuiltFrom
<1> QED BY <1>2 DEF EndsOf

(* session_builder_process_pre_key_bundle: the new end is of a session     *)
(* nothing else is of.                                                     *)
LEMMA BundleInStep ==
  ASSUME SessInv, StepInv, NEW p \in Party, NEW i \in Bundles(Peer(p)), ProcessPreKeyBundle(p, i)
  PROVE  StepInv'
<1> DEFINE q == Peer(p)
           base == Ephemeral(p, nk[p] + 1)
           ratchet == Ephemeral(p, nk[p] + 2)
           signed == Signed(q)
           ot == OneTime(q, i)
           s == AliceState(Identity(p), base, ratchet, Identity(q), signed, ot, i)
           z == AliceSecret(Identity(p), base, Identity(q), signed, ot)
           r2 == WithNew(rec[p], s)
<1>1. /\ UNCHANGED <<op, sent, accepted>> /\ rec' = [rec EXCEPT ![p] = BundleRecord(p, i)]
  BY DEF ProcessPreKeyBundle
<1>2. IVars /\ IMsgs /\ PartyOK(p)
  BY DEF SessInv
<1>3. BundleRecord(p, i) = r2
  BY DEF BundleRecord, WithNew
<1>4. q \in Party /\ q # p /\ \A o \in Party : o = p \/ o = q
  BY PeerIsOther
<1> HIDE DEF q
<1>5. i \in Nat /\ nk[p] \in Nat
  <2>1. i \in Nat
    BY <1>2, <1>4, SessionBounds, SMTT(30) DEF Bundles, IVars, q
  <2> QED BY <1>2, <2>1, SessionBounds DEF IVars
<1>6. base \in Pub /\ base[1] = "ephemeral" /\ base[2] = p /\ base[4] = nk[p] + 1
  <2>1. nk[p] + 1 \in Nat
    BY <1>5
  <2> QED BY <1>2, <2>1, KeysMade
<1>7. signed[1] = "signed"
  BY <1>2, <1>4, <1>5, KeysMade
<1>8. ot # NoKey => ot \in Pub /\ ot[1] = "onetime" /\ ot[3] <= gen[ot[2]]
  BY <1>2, <1>4, <1>5, KeysMade
<1>9. AliceReady(s, z, base, signed, ratchet)
  BY AliceShape
<1> HIDE DEF base, ratchet, signed, ot, s
<1>10. HasBase(z, base)
  <2> DEFINE N == [nk EXCEPT ![p] = nk[p] + 1]
  <2>1. base[4] <= N[base[2]]
    BY <1>2, <1>5, <1>6 DEF IVars
  <2>2. z = AliceSecret(Identity(p), base, Identity(q), signed, ot)
    OBVIOUS
  <2> HIDE DEF N, z
  <2>3. SecretOf(z, base, ot, N, gen)
    BY <1>6, <1>7, <1>8, <2>1, <2>2, AliceSecretOK
  <2> QED BY <2>3, SecretBase DEF SecretOf
<1> HIDE DEF z, r2
<1>11. ASSUME NEW y \in Secrets, NEW b, HasBase(y, b), HasBase(z, b)
       PROVE  FALSE
  <2>1. b = base
    BY <1>10, <1>11, BaseUnique
  <2>2. PICK c : SecretOK(y, c, nk, gen)
    BY SecretsOK
  <2>3. HasBase(y, c) /\ c[4] <= nk[c[2]]
    BY <2>2, SecretBase
  <2>4. c = b
    BY <1>11, <2>3, BaseUnique
  <2> QED BY <1>5, <1>6, <2>1, <2>3, <2>4
<1>12. z \notin Secrets
  BY <1>10, <1>11
<1> DEFINE e == End(s)
<1>13. e.root[1] = z /\ Len(e.root) = 2
  <2> DEFINE d == DerivedKeys(z)
             a == {signed, ratchet}
             c == s.root
  <2>1. IsSeq(d) /\ Len(d) = 1 /\ d[1] = z
    BY OnePath
  <2>2. c = Append(d, a)
    BY <1>9 DEF AliceReady
  <2>3. Len(d) >= 1
    BY <2>1
  <2>4. e.root = c
    BY EndParts
  <2> HIDE DEF d, a, c, e
  <2>5. Extends(d, c, a)
    BY <2>1, <2>2, <2>3, AppendPath
  <2> QED BY <2>1, <2>4, <2>5 DEF Extends
<1> HIDE DEF e
<1>14. rec'[p] = r2 /\ (\A o \in Party : o # p => rec'[o] = rec[o]) /\ op' = op
  BY <1>1, <1>2, <1>3 DEF IVars
<1>15. EndsOf(r2) \subseteq Kept(p) \union {e}
  <2>1. rec[p] = FreshRecord \/ IsSeq(rec[p].prev)
    BY <1>2 DEF PartyOK, StoredOK, Sound, RecordOK
  <2> DEFINE r == rec[p]
  <2>2. r2 = WithNew(r, s) /\ (r = FreshRecord \/ IsSeq(r.prev))
    BY <2>1 DEF r2
  <2> HIDE DEF r
  <2>3. EndsOf(r2) \subseteq (IF r = FreshRecord THEN {} ELSE EndsOf(r)) \union {End(s)}
    BY <2>2, BuilderEnds
  <2> QED BY <2>3 DEF r, Kept, e
<1>16. /\ Kept(p)' \subseteq Kept(p) \union {e} /\ Coming(p)' = Coming(p)
       /\ \A o \in Party : o # p => Kept(o)' = Kept(o) /\ Coming(o)' = Coming(o)
  BY <1>14, <1>15 DEF Kept, Coming
<1>17. /\ Ends(p)' \subseteq Ends(p) \union {e}
       /\ \A o \in Party : o # p => Ends(o)' = Ends(o)
  BY <1>16 DEF Ends
<1>18. \A o, x : Answered(o, x) => Answered(o, x)'
  BY <1>1, AnsweredStays
<1>19. ASSUME NEW o \in Party
       PROVE  Replies(o)'
  <2>1. CASE o # p
    BY <1>1, <1>14, <1>16, <2>1, RepliesStay DEF StepInv
  <2>2. CASE o = p
    <3>1. Replies(p) /\ \A x : Answering(p, x) => Answering(p, x)'
      BY <1>1 DEF StepInv, Answering
    <3>2. \A f \in Kept(p)' : Len(f.root) % 2 = 1 => Answered(p, f.root[1])'
      <4>1. Len(e.root) % 2 # 1
        BY <1>13
      <4>2. \A f \in Kept(p) : Len(f.root) % 2 = 1 => Answered(p, f.root[1])'
        BY <1>18, <3>1 DEF Replies
      <4> QED BY <1>16, <4>1, <4>2
    <3>3. \A f \in Coming(p)' : Len(f.root) % 2 = 1 =>
             Answered(p, f.root[1])' \/ Answering(p, f.root[1])'
      BY <1>16, <1>18, <3>1 DEF Replies
    <3>4. \A f \in Ends(p)' : Len(f.root) % 2 = 0 /\ Len(f.root) > 2 =>
             Answered(Peer(p), f.root[1])'
      <4>1. ~(Len(e.root) > 2)
        BY <1>13
      <4> QED BY <1>17, <1>18, <3>1, <4>1 DEF Replies
    <3> QED BY <2>2, <3>2, <3>3, <3>4 DEF Replies
  <2> QED BY <2>1, <2>2
<1>20. InStep({e}, Ends(q))
  BY <1>4, <1>12, <1>13, SecretsOfIn DEF InStep
<1>21. NotPast(p, {e}, sent)
  <2>1. \A m \in sent : m.chain[1] \in Secrets
    BY DEF Secrets
  <2> QED BY <1>12, <1>13, <2>1 DEF NotPast
<1>22. \A y \in Secrets : \A b : ~(HasBase(y, b) /\ HasBase(e.root[1], b))
  BY <1>11, <1>13
<1> QED BY <1>1, <1>17, <1>19, <1>20, <1>21, <1>22, OneEndMore DEF q
-----------------------------------------------------------------------------
(* A decrypt call in step                                                  *)

(* The call of p that gets to its callback with record r2.                 *)
CallsBack(p, m, r2) ==
  /\ op[p].stage = "idle"
  /\ op'[p].stage = "callback" /\ op'[p].record = r2 /\ op'[p].id = m.id
  /\ \A o \in Party : o # p => op'[o] = op[o]
  /\ UNCHANGED <<rec, sent, accepted>>

LEMMA CallEnds ==
  ASSUME NEW p \in Party, NEW m \in sent, NEW r2, CallsBack(p, m, r2)
  PROVE  /\ Ends(p) = Kept(p) /\ Kept(p)' = Kept(p) /\ Coming(p)' = EndsOf(r2)
         /\ \A o \in Party : o # p => Kept(o)' = Kept(o) /\ Coming(o)' = Coming(o)
BY DEF CallsBack, Kept, Coming, Ends

LEMMA OthersReply ==
  ASSUME StepInv, NEW p \in Party, NEW m \in sent, NEW r2, CallsBack(p, m, r2),
         NEW o \in Party, o # p
  PROVE  Replies(o)'
<1>1. Kept(o)' = Kept(o) /\ Coming(o)' = Coming(o) /\ op'[o] = op[o]
  BY CallEnds DEF CallsBack
<1>2. sent' = sent /\ accepted' = accepted
  BY DEF CallsBack
<1> QED BY <1>1, <1>2, RepliesStay DEF StepInv

(* The ends of a waiting call are p's and one more, f.                     *)
LEMMA CallReplies ==
  ASSUME StepInv, NEW p \in Party, NEW m \in sent, NEW r2, CallsBack(p, m, r2), NEW f,
         EndsOf(r2) \subseteq Kept(p) \union {f},
         Len(f.root) % 2 = 1 => Answered(p, f.root[1]) \/ (m.to = p /\ m.chain[1] = f.root[1]),
         Len(f.root) % 2 = 0 /\ Len(f.root) > 2 => Answered(Peer(p), f.root[1])
  PROVE  Replies(p)'
<1>1. Ends(p) = Kept(p) /\ Kept(p)' = Kept(p) /\ Coming(p)' \subseteq Kept(p) \union {f}
  BY CallEnds
<1>2. sent' = sent /\ accepted' = accepted
  BY DEF CallsBack
<1>3. \A o, x : Answered(o, x) => Answered(o, x)'
  BY <1>2, AnsweredStays
<1>4. m.to = p => Answering(p, m.chain[1])'
  BY <1>2 DEF Answering, CallsBack
<1>5. Replies(p)
  BY DEF StepInv
<1>6. \A e \in Kept(p) : Len(e.root) % 2 = 1 => Answered(p, e.root[1])'
  BY <1>3, <1>5 DEF Replies
<1>7. \A e \in Kept(p) : Len(e.root) % 2 = 0 /\ Len(e.root) > 2 => Answered(Peer(p), e.root[1])'
  BY <1>1, <1>3, <1>5 DEF Replies
<1>8. Len(f.root) % 2 = 1 => Answered(p, f.root[1])' \/ Answering(p, f.root[1])'
  BY <1>3, <1>4
<1>9. Len(f.root) % 2 = 0 /\ Len(f.root) > 2 => Answered(Peer(p), f.root[1])'
  BY <1>3
<1>10. \A e \in Coming(p)' : Len(e.root) % 2 = 1 =>
          Answered(p, e.root[1])' \/ Answering(p, e.root[1])'
  BY <1>1, <1>6, <1>8
<1>11. Ends(p)' \subseteq Kept(p) \union {f}
  BY <1>1 DEF Ends
<1>12. \A e \in Ends(p)' : Len(e.root) % 2 = 0 /\ Len(e.root) > 2 => Answered(Peer(p), e.root[1])'
  BY <1>7, <1>9, <1>11
<1> QED BY <1>1, <1>6, <1>10, <1>12 DEF Replies

LEMMA CallInStep ==
  ASSUME StepInv, NEW p \in Party, NEW m \in sent, NEW r2, CallsBack(p, m, r2), NEW f,
         EndsOf(r2) \subseteq Kept(p) \union {f}, f.root[1] \in Secrets,
         InStep({f}, Ends(Peer(p))), NotPast(p, {f}, sent), Replies(p)'
  PROVE  StepInv'
<1>1. /\ Ends(p) = Kept(p) /\ Kept(p)' = Kept(p) /\ Coming(p)' \subseteq Kept(p) \union {f}
      /\ \A o \in Party : o # p => Kept(o)' = Kept(o) /\ Coming(o)' = Coming(o)
  BY CallEnds
<1>2. Ends(p)' \subseteq Ends(p) \union {f} /\ \A o \in Party : o # p => Ends(o)' = Ends(o)
  BY <1>1 DEF Ends
<1>3. \A o \in Party : Replies(o)'
  BY OthersReply
<1>4. sent' = sent /\ accepted' = accepted
  BY DEF CallsBack
<1> QED BY <1>2, <1>3, <1>4, OneEndMore

LEMMA MessageFacts ==
  ASSUME SessInv, NEW n \in sent
  PROVE  /\ Sends(Peer(n.to), n.chain, nk, gen) /\ Peer(n.to) \in Party
         /\ n.to \in Party /\ n.to = Peer(Peer(n.to)) /\ Len(n.chain) \in Nat
         /\ n.chain[1] \in Secrets
<1>1. MsgOK(n, nk, gen)
  BY DEF SessInv, IMsgs, MsgsOK
<1>2. n.to \in Party /\ Len(n.chain) \in Nat
  BY <1>1, LenNat DEF MsgOK
<1> QED BY <1>1, <1>2, MessageSends DEF Secrets

(* A message of a session that is known.                                   *)
LEMMA KnownInStep ==
  ASSUME SessInv, StepInv, NEW p \in Party, NEW m \in sent, m.to = p,
         NEW r2, CallsBack(p, m, r2), KnownEnds(Kept(p), EndsOf(r2), m)
  PROVE  StepInv'
<1> DEFINE q == Peer(p)
<1>1. q \in Party /\ q # p
  BY PeerIsOther
<1>2. Ends(p) = Kept(p)
  BY CallEnds
<1>3. \A n \in sent : Len(n.chain) \in Nat
  BY MessageFacts
<1>4. CASE EndsOf(r2) \subseteq Kept(p)
  <2>1. /\ Kept(p)' = Kept(p) /\ Coming(p)' \subseteq Kept(p)
        /\ \A o \in Party : o # p => Kept(o)' = Kept(o) /\ Coming(o)' = Coming(o)
    BY <1>4, CallEnds
  <2>2. \A o \in Party : Ends(o)' \subseteq Ends(o)
    BY <1>2, <2>1 DEF Ends
  <2>3. sent' = sent /\ accepted' = accepted
    BY DEF CallsBack
  <2>4. \A o, x : Answered(o, x) => Answered(o, x)'
    BY <2>3, AnsweredStays
  <2>5. Replies(p)'
    <3>1. Replies(p)
      BY DEF StepInv
    <3>2. \A e \in Kept(p) : Len(e.root) % 2 = 1 => Answered(p, e.root[1])'
      BY <2>4, <3>1 DEF Replies
    <3>3. \A e \in Ends(p)' : Len(e.root) % 2 = 0 /\ Len(e.root) > 2 =>
            Answered(Peer(p), e.root[1])'
      BY <2>2, <2>4, <3>1 DEF Replies
    <3> QED BY <2>1, <3>2, <3>3 DEF Replies
  <2>6. \A o \in Party : Replies(o)'
    BY <2>5, OthersReply
  <2> QED BY <2>2, <2>3, <2>6, FewerEnds
<1>5. ASSUME NEW e \in Kept(p), NEW f, Turns(e, f, m), EndsOf(r2) \subseteq Kept(p) \union {f}
      PROVE  StepInv'
  <2>1. e \in Ends(p) /\ Sends(p, e.root, nk, gen)
    BY <1>2, EndSends
  <2>2. IsSeq(e.root) /\ Len(e.root) >= 2 /\ Len(e.root) \in Nat
    BY <2>1, LenNat DEF Sends
  <2>3. \A g \in Ends(q) : IsSeq(g.root) /\ Len(g.root) >= 1
    <3>1. ASSUME NEW g \in Ends(q)
          PROVE  IsSeq(g.root) /\ Len(g.root) >= 1
      <4>1. Sends(q, g.root, nk, gen)
        BY <1>1, EndSends
      <4> QED BY <4>1, LenNat DEF Sends
    <3> QED BY <3>1
  <2>4. InStep(Ends(p), Ends(q)) /\ NotPast(p, Ends(p), sent) /\ NotPast(q, Ends(q), sent)
        /\ Replies(p) /\ RepliesSent
    BY <1>1 DEF StepInv
  <2>5. Len(e.root) >= 1
    BY <2>2
  <2> HIDE DEF q
  <2>6. /\ InStep({f}, Ends(q)) /\ NotPast(p, {f}, sent) /\ f.root[1] = e.root[1]
        /\ m.chain[1] = e.root[1]
        /\ Len(m.chain) = Len(e.root) + 1 /\ Len(f.root) = Len(e.root) + 2
    BY <1>1, <1>3, <1>5, <2>1, <2>2, <2>3, <2>4, <2>5, TurnInStep
  <2> DEFINE l == Len(e.root)
  <2>7. l \in Nat /\ Len(m.chain) = l + 1 /\ Len(f.root) = l + 2
    BY <2>2, <2>6
  <2>8. l % 2 = 1 => Answered(p, e.root[1])
    BY <1>5, <2>4 DEF Replies
  <2> HIDE DEF l
  <2>9. (Len(f.root) % 2 = 1 => l % 2 = 1) /\ (Len(f.root) % 2 = 0 => Len(m.chain) % 2 = 1)
    BY <2>7
  <2>10. Len(f.root) % 2 = 1 => Answered(p, f.root[1])
    BY <2>6, <2>8, <2>9
  <2>11. Len(f.root) % 2 = 0 => Answered(Peer(p), f.root[1])
    BY <2>4, <2>6, <2>9 DEF RepliesSent
  <2>12. Replies(p)'
    BY <1>5, <2>10, <2>11, CallReplies
  <2>13. f.root[1] \in Secrets
    BY <2>1, <2>6, SecretsOfIn
  <2>14. InStep({f}, Ends(Peer(p)))
    BY <2>6 DEF q
  <2> QED BY <1>5, <2>6, <2>12, <2>13, <2>14, CallInStep
<1> QED BY <1>4, <1>5 DEF KnownEnds

(* A message that begins a session that was not answered before.           *)
LEMMA BegunTurn ==
  ASSUME NEW e, NEW z, NEW f, NEW m, e.root = DerivedKeys(z), Turns(e, f, m)
  PROVE  m.chain[1] = z /\ Len(m.chain) = 2
<1> DEFINE a == {m.ratchet, e.ratchet}
           c == e.root
           d == m.chain
<1>1. d = Append(c, a)
  BY DEF Turns, CreateChain, Agreement
<1>2. IsSeq(c) /\ Len(c) = 1 /\ c[1] = z
  BY OnePath
<1>3. Len(c) >= 1
  BY <1>2
<1> HIDE DEF a, c, d
<1>4. Extends(c, d, a)
  BY <1>1, <1>2, <1>3, AppendPath
<1> QED BY <1>2, <1>4 DEF Extends, d

LEMMA BegunEndInStep ==
  ASSUME SessInv, StepInv, NEW p \in Party, NEW m \in sent, m.to = p,
         NEW r2, CallsBack(p, m, r2), NEW z, BegunEnds(Kept(p), EndsOf(r2), z, m),
         ~Answered(p, z)
  PROVE  StepInv'
<1> DEFINE q == Peer(p)
<1>1. q \in Party /\ q # p /\ Peer(q) = p /\ \A o \in Party : o = p \/ o = q
  <2>1. q \in Party /\ q # p /\ \A o \in Party : o = p \/ o = q
    BY PeerIsOther
  <2>2. Peer(q) \in Party /\ Peer(q) # q
    BY <2>1, PeerIsOther
  <2> QED BY <2>1, <2>2
<1>2. PICK e, f : e.root = DerivedKeys(z) /\ Turns(e, f, m) /\ EndsOf(r2) \subseteq Kept(p) \union {f}
  BY DEF BegunEnds
<1>3. m.chain[1] = z /\ Len(m.chain) = 2
  BY <1>2, BegunTurn
<1>4. Sends(q, m.chain, nk, gen) /\ z \in Secrets
  BY <1>3, MessageFacts
<1>5. NotPast(q, Ends(q), sent) /\ Replies(q) /\ RepliesSent
  BY <1>1 DEF StepInv
<1> HIDE DEF q
<1>6. ASSUME NEW g \in Ends(q), g.root[1] = z
      PROVE  Len(g.root) = 2
  <2>1. Sends(q, g.root, nk, gen)
    BY <1>1, EndSends
  <2>2. /\ Len(g.root) \in Nat /\ Len(g.root) >= 2
        /\ Len(g.root) % 2 = Len(m.chain) % 2
    <3> DEFINE c == g.root
               d == m.chain
    <3>1. c[1] = d[1] /\ Sends(q, c, nk, gen) /\ Sends(q, d, nk, gen)
      BY <1>3, <1>4, <1>6, <2>1
    <3> HIDE DEF c, d
    <3>2. Sided(q, q, c, d)
      BY <1>1, <3>1, SideParity
    <3> QED BY <3>2 DEF Sided, c, d
  <2> DEFINE x == Len(g.root)
             y == Len(m.chain)
  <2>3. x \in Nat /\ x >= 2 /\ x % 2 = y % 2 /\ y = 2
    BY <1>3, <2>2
  <2>4. x % 2 = 0 /\ x > 2 => Answered(Peer(q), z)
    BY <1>5, <1>6 DEF Replies
  <2> HIDE DEF x, y
  <2>5. x % 2 = 0
    BY <2>3
  <2>6. ~(x > 2)
    BY <1>1, <2>4, <2>5
  <2>7. x = 2
    BY <2>3, <2>6
  <2> QED BY <2>7 DEF x
<1>7. ASSUME NEW n \in sent, n.to # p, n.chain[1] = z
      PROVE  FALSE
  <2>1. n.to = q /\ Peer(n.to) = p /\ Sends(p, n.chain, nk, gen)
    BY <1>1, <1>7, MessageFacts
  <2>2. Len(n.chain) % 2 \in {0, 1} /\ Len(n.chain) % 2 # Len(m.chain) % 2
    <3> DEFINE c == n.chain
               d == m.chain
    <3>1. c[1] = d[1] /\ Sends(p, c, nk, gen) /\ Sends(q, d, nk, gen)
      BY <1>3, <1>4, <1>7, <2>1
    <3> HIDE DEF c, d
    <3>2. Sided(p, q, c, d)
      BY <1>1, <3>1, SideParity
    <3> QED BY <1>1, <3>2 DEF Sided, c, d
  <2>3. Len(n.chain) % 2 = 1
    <3> DEFINE x == Len(n.chain) % 2
               y == Len(m.chain)
    <3>1. x \in {0, 1} /\ x # y % 2 /\ y = 2
      BY <1>3, <2>2
    <3> HIDE DEF x, y
    <3>2. x = 1
      BY <3>1
    <3> QED BY <3>2 DEF x
  <2>4. Answered(p, z)
    BY <1>5, <1>7, <2>1, <2>3 DEF RepliesSent
  <2> QED BY <2>4
<1>8. /\ InStep({f}, Ends(q)) /\ NotPast(p, {f}, sent) /\ f.root[1] = z /\ Len(f.root) = 3
  <2> DEFINE F == Ends(q)
  <2>1. FirstTurn(p, F, sent, z)
    BY <1>6, <1>7 DEF FirstTurn
  <2>2. NotPast(q, F, sent) /\ p # q
    BY <1>1, <1>5
  <2> HIDE DEF F
  <2>3. Begins(p, F, sent, f, z)
    BY <1>2, <2>1, <2>2, BegunInStep
  <2> QED BY <2>3 DEF Begins, F
<1>9. Replies(p)'
  <2>1. Len(f.root) % 2 # 0 /\ m.chain[1] = f.root[1]
    BY <1>3, <1>8
  <2> QED BY <1>2, <2>1, CallReplies
<1>10. InStep({f}, Ends(Peer(p))) /\ f.root[1] \in Secrets
  BY <1>4, <1>8 DEF q
<1> QED BY <1>2, <1>8, <1>9, <1>10, CallInStep
-----------------------------------------------------------------------------
(* A session whose first message could be set up once more is still known  *)
(* to the party that answered: it was neither deleted nor pushed out of    *)
(* the archive.  Sessions that consumed a one-time pre key for good may be *)
(* forgotten.                                                              *)
Remembered ==
  \A n \in sent : accepted[n.id] > 0 /\ Renewable(n) =>
    \E b \in n.chain[1][3] : b[1] = "ephemeral" /\ HasSessionState(rec[n.to], b)

LEMMA NotAnswered ==
  ASSUME SessInv, Remembered, NEW p \in Party, NEW m \in sent,
         NEW N2, NEW L, NEW s, NEW z, NEW signed, NEW r1, NEW new,
         BobCase(p, rec[p], m, new, nk, N2, gen, sent, DoneWith(p), L, s, z, signed, r1)
  PROVE  ~Answered(p, z)
<1> SUFFICES ASSUME NEW n \in sent, n.to = p, accepted[n.id] > 0, n.chain[1] = z
             PROVE  FALSE
  BY DEF Answered
<1>1. /\ ~HasSessionState(rec[p], m.base) /\ SecretOK(z, m.base, nk, gen)
      /\ \A o \in DoneWith(p) : o.chain[1] # z
  BY DEF BobCase
<1>2. Renewable(n)
  BY <1>1 DEF DoneWith
<1>3. PICK b \in z[3] : b[1] = "ephemeral" /\ HasSessionState(rec[p], b)
  BY <1>2 DEF Remembered
<1>4. PICK x \in z[3] : x[1] = "signed" /\ z[3] = {x, m.base}
  BY <1>1 DEF SecretOK
<1>5. b = m.base
  BY <1>3, <1>4
<1> QED BY <1>1, <1>3, <1>5

LEMMA CallMade ==
  ASSUME IVars, NEW p \in Party, NEW m \in sent, NEW r2, NEW rm, op[p].stage = "idle",
         op' = [op EXCEPT ![p] = [stage |-> "callback", record |-> r2, id |-> m.id, remove |-> rm]],
         UNCHANGED <<rec, sent, accepted>>
  PROVE  CallsBack(p, m, r2)
<1> DEFINE o2 == [stage |-> "callback", record |-> r2, id |-> m.id, remove |-> rm]
<1>1. o2.stage = "callback" /\ o2.record = r2 /\ o2.id = m.id
  OBVIOUS
<1>2. op' = [op EXCEPT ![p] = o2] /\ DOMAIN op = Party
  BY DEF IVars
<1> HIDE DEF o2
<1>3. op'[p] = o2 /\ \A o \in Party : o # p => op'[o] = op[o]
  BY <1>2
<1> QED BY <1>1, <1>3 DEF CallsBack

LEMMA KnownMessageInStep ==
  ASSUME SessInv, StepInv, NEW p \in Party, NEW m \in sent, m.to = p, rec[p] # FreshRecord,
         DecryptFromRecord(rec[p], m, NewKey(p)).code = Success,
         NEW r2, r2 = DecryptFromRecord(rec[p], m, NewKey(p)).record, CallsBack(p, m, r2)
  PROVE  StepInv'
<1>1. RecordOK(p, rec[p], nk, gen)
  BY DEF SessInv, PartyOK, StoredOK, Sound
<1> DEFINE r == rec[p]
           new == NewKey(p)
<1>2. /\ RecordOK(p, r, nk, gen) /\ DecryptFromRecord(r, m, new).code = Success
      /\ r2 = DecryptFromRecord(r, m, new).record
  BY <1>1
<1> HIDE DEF r, new
<1>3. KnownEnds(EndsOf(r), EndsOf(r2), m)
  BY <1>2, DecryptedEnds
<1>4. KnownEnds(Kept(p), EndsOf(r2), m)
  BY <1>3 DEF Kept, r
<1> QED BY <1>4, KnownInStep

LEMMA FirstMessageInStep ==
  ASSUME SessInv, StepInv, Remembered, NEW p \in Party, NEW m \in sent, m.to = p, BobBuilds(p, m),
         NEW r2, r2 = DecryptFromRecord(BuiltRecord(p, m), m, NewKey(p)).record,
         CallsBack(p, m, r2)
  PROVE  StepInv'
<1> DEFINE L == Live(p) \ {OneTime(p, ToRemove(p, m))}
           D == DoneWith(p)
           new == NewKey(p)
           r == rec[p]
           r1 == BuiltRecord(p, m)
           N2 == OneMore(p)
<1>1. PICK s, z, signed :
        BobCase(p, r, m, new, nk, N2, gen, sent, D, L, s, z, signed, r1)
  BY DEF BobBuilds
<1>2. r2 = DecryptFromRecord(r1, m, new).record
  OBVIOUS
<1>3. ~Answered(p, z)
  <2> HIDE DEF L, new, r1, N2
  <2> QED BY <1>1, NotAnswered
<1> HIDE DEF L, D, new, r, r1, N2
<1>4. BegunEnds(IF r = FreshRecord THEN {} ELSE EndsOf(r), EndsOf(r2), z, m)
  BY <1>1, <1>2, BuiltEnds
<1>5. BegunEnds(Kept(p), EndsOf(r2), z, m)
  BY <1>4 DEF Kept, r
<1> QED BY <1>3, <1>5, BegunEndInStep

LEMMA PreKeyMessageInStep ==
  ASSUME SessInv, StepInv, Remembered, NEW p \in Party, NEW m \in sent,
         DecryptPreKeySignalMessage(p, m)
  PROVE  StepInv'
<1> DEFINE d == DecryptFromRecord(BuiltRecord(p, m), m, NewKey(p))
           r2 == d.record
           rm == ToRemove(p, m)
<1>1. /\ op[p].stage = "idle" /\ m.to = p /\ m.base # NoKey /\ BuilderAccepts(p, m)
      /\ \/ /\ d.code = Success
            /\ op' = [op EXCEPT ![p] = [stage |-> "callback", record |-> r2,
                                        id |-> m.id, remove |-> rm]]
         \/ UNCHANGED op
      /\ UNCHANGED <<rec, sent, accepted>>
  BY DEF DecryptPreKeySignalMessage
<1>2. CASE UNCHANGED op
  BY <1>1, <1>2, ForgetStep
<1>3. CASE /\ d.code = Success
           /\ op' = [op EXCEPT ![p] = [stage |-> "callback", record |-> r2,
                                       id |-> m.id, remove |-> rm]]
  <2>0. PICK r3, rm2 : r3 = r2 /\ rm2 = rm
    OBVIOUS
  <2>1. CallsBack(p, m, r3)
    <3>1. IVars /\ op' = [op EXCEPT ![p] = [stage |-> "callback", record |-> r3,
                                            id |-> m.id, remove |-> rm2]]
      BY <1>3, <2>0 DEF SessInv
    <3> HIDE DEF d, r2, rm
    <3> QED BY <1>1, <3>1, CallMade
  <2>2. /\ DecryptFromRecord(BuiltRecord(p, m), m, NewKey(p)).code = Success
        /\ r3 = DecryptFromRecord(BuiltRecord(p, m), m, NewKey(p)).record
    BY <1>3, <2>0
  <2> HIDE DEF d, r2, rm
  <2>3. CASE HasSessionState(rec[p], m.base)
    <3>1. BuiltRecord(p, m) = rec[p]
      BY <2>3 DEF BuiltRecord
    <3>2. States(FreshRecord) = {EmptyState} /\ EmptyState.base = NoKey
      BY DEF States, FreshRecord, EmptyState
    <3>3. rec[p] # FreshRecord
      BY <1>1, <2>3, <3>2 DEF HasSessionState
    <3> QED BY <1>1, <2>1, <2>2, <3>1, <3>3, KnownMessageInStep
  <2>4. CASE ~HasSessionState(rec[p], m.base)
    <3>1. m.oneTime \in opks[p] \union {0}
      BY <1>1, <2>4 DEF BuilderAccepts
    <3>2. BobBuilds(p, m)
      BY <1>1, <2>2, <2>4, <3>1, BegunCase
    <3> QED BY <1>1, <2>1, <2>2, <3>2, FirstMessageInStep
  <2> QED BY <2>3, <2>4
<1> QED BY <1>1, <1>2, <1>3

LEMMA SignalMessageInStep ==
  ASSUME SessInv, StepInv, NEW p \in Party, NEW m \in sent, DecryptSignalMessage(p, m)
  PROVE  StepInv'
<1> DEFINE d == DecryptFromRecord(rec[p], m, NewKey(p))
           r2 == d.record
<1>1. /\ op[p].stage = "idle" /\ m.to = p /\ rec[p] # FreshRecord /\ d.code = Success
      /\ op' = [op EXCEPT ![p] = [stage |-> "callback", record |-> r2, id |-> m.id, remove |-> 0]]
      /\ UNCHANGED <<rec, sent, accepted>>
  BY DEF DecryptSignalMessage
<1>2. PICK r3 : r3 = r2
  OBVIOUS
<1>3. CallsBack(p, m, r3)
  <2>1. IVars /\ op' = [op EXCEPT ![p] = [stage |-> "callback", record |-> r3,
                                          id |-> m.id, remove |-> 0]]
    BY <1>1, <1>2 DEF SessInv
  <2> HIDE DEF d, r2
  <2> QED BY <1>1, <2>1, CallMade
<1>4. /\ DecryptFromRecord(rec[p], m, NewKey(p)).code = Success
      /\ r3 = DecryptFromRecord(rec[p], m, NewKey(p)).record
  BY <1>1, <1>2
<1> HIDE DEF d, r2
<1> QED BY <1>1, <1>3, <1>4, KnownMessageInStep

LEMMA ForgetSteps ==
  ASSUME SessInv, StepInv, NEW p \in Party,
         \/ AbortDecrypt(p) \/ RemovePreKey(p) \/ DeleteSession(p) \/ Reinstall(p)
         \/ TrustIdentity(p)
  PROVE  StepInv'
<1>1. NoOp.stage = "idle" /\ DOMAIN op = Party /\ DOMAIN rec = Party
  BY NoOpShape DEF SessInv, IVars
<1>2. sent' = sent /\ accepted' = accepted
  BY DEF AbortDecrypt, RemovePreKey, DeleteSession, Reinstall, TrustIdentity
<1>3. /\ op' \in {op, [op EXCEPT ![p] = NoOp]}
      /\ rec' \in {rec, [rec EXCEPT ![p] = FreshRecord]}
  BY DEF AbortDecrypt, RemovePreKey, DeleteSession, Reinstall, TrustIdentity
<1>4. \A o \in Party : /\ rec'[o] \in {rec[o], FreshRecord}
                       /\ op'[o] = op[o] \/ op'[o].stage # "callback"
  BY <1>1, <1>3
<1> QED BY <1>2, <1>4, ForgetStep

LEMMA StepNext == SessInv /\ Remembered /\ StepInv /\ [Next]_vars => StepInv'
<1> SUFFICES ASSUME SessInv, Remembered, StepInv, [Next]_vars PROVE StepInv'
  OBVIOUS
<1>1. ASSUME NEW p \in Party, NEW i \in Bundles(Peer(p)), ProcessPreKeyBundle(p, i)
      PROVE  StepInv'
  BY <1>1, BundleInStep
<1>2. ASSUME NEW p \in Party, Encrypt(p)
      PROVE  StepInv'
  BY <1>2, EncryptInStep
<1>3. ASSUME NEW p \in Party, NEW m \in sent, DecryptPreKeySignalMessage(p, m)
      PROVE  StepInv'
  BY <1>3, PreKeyMessageInStep
<1>4. ASSUME NEW p \in Party, NEW m \in sent, DecryptSignalMessage(p, m)
      PROVE  StepInv'
  BY <1>4, SignalMessageInStep
<1>5. ASSUME NEW p \in Party, StoreSession(p)
      PROVE  StepInv'
  BY <1>5, StoreInStep
<1>6. ASSUME NEW p \in Party,
             \/ AbortDecrypt(p) \/ RemovePreKey(p) \/ DeleteSession(p) \/ Reinstall(p)
             \/ TrustIdentity(p)
      PROVE  StepInv'
  BY <1>6, ForgetSteps
<1>7. CASE UNCHANGED vars
  BY <1>7, ForgetStep DEF vars
<1> QED
  BY <1>1, <1>2, <1>3, <1>4, <1>5, <1>6, <1>7 DEF Next, Call, Application

LEMMA StepsInStep == SessInv /\ StepInv => RatchetsInStep
<1> SUFFICES ASSUME SessInv, StepInv, NEW p \in Party,
                    NEW s \in States(rec[p]), NEW t \in States(rec[Peer(p)]),
                    s.base # NoKey, s.base = t.base
             PROVE  OneTurnAhead(s, t) \/ OneTurnAhead(t, s)
  BY DEF RatchetsInStep
<1> DEFINE q == Peer(p)
<1>1. q \in Party /\ q # p
  BY PeerIsOther
<1>2. ASSUME NEW o \in Party, NEW u \in States(rec[o]), u.base # NoKey
      PROVE  StateOK(o, u, nk, gen) /\ End(u) \in Ends(o)
  <2>1. EmptyState.base = NoKey /\ States(FreshRecord) = {EmptyState}
    BY DEF EmptyState, States, FreshRecord
  <2>2. rec[o] # FreshRecord
    BY <1>2, <2>1
  <2>3. RecordOK(o, rec[o], nk, gen)
    BY <2>2 DEF SessInv, PartyOK, StoredOK, Sound
  <2> DEFINE r == rec[o]
  <2>4. PICK j \in Slots(r) : u = At(r, j)
    BY <1>2, <2>3, StatesSlots DEF RecordOK
  <2>5. End(u) \in EndsOf(r)
    BY <2>4 DEF EndsOf
  <2> QED BY <2>2, <2>3, <2>4, <2>5 DEF RecordOK, Kept, Ends
<1>3. StateOK(p, s, nk, gen) /\ End(s) \in Ends(p)
  BY <1>2
<1>4. StateOK(q, t, nk, gen) /\ End(t) \in Ends(q)
  BY <1>1, <1>2
<1> HIDE DEF q
<1>5. /\ End(s).root = s.root /\ End(s).ratchet = s.ratchet
      /\ End(t).root = t.root /\ End(t).ratchet = t.ratchet
  BY EndParts
<1>6. s.root[1] \in Secrets /\ t.root[1] \in Secrets
  BY <1>1, <1>3, <1>4, <1>5, SecretsOfIn
<1>7. HasBase(s.root[1], s.base) /\ HasBase(t.root[1], s.base)
  BY <1>3, <1>4, StateKeys, SecretBase
<1>8. s.root[1] = t.root[1]
  BY <1>6, <1>7 DEF StepInv, OneSecret
<1>9. InStep(Ends(p), Ends(q))
  BY <1>1 DEF StepInv
<1>10. OneTurnAhead(End(s), End(t)) \/ OneTurnAhead(End(t), End(s))
  BY <1>3, <1>4, <1>5, <1>8, <1>9 DEF InStep
<1> QED BY <1>5, <1>10 DEF OneTurnAhead

(* The two ends of a session are exactly one turn of the ratchet apart,    *)
(* by the ratchet keys both hold: get_or_create_chain_key never drives     *)
(* them further apart, whatever is lost, late, repeated or committed only  *)
(* after a callback in which a session was begun, and whichever calls      *)
(* crash, as long as a session that its first message could set up once    *)
(* more is not deleted or pushed out of the archive by its receiver.       *)
THEOREM StayInStep == Spec /\ []Remembered => []RatchetsInStep
BY SessionInvariant, StepInit, StepNext, StepsInStep, PTL DEF Spec

-----------------------------------------------------------------------------
(* Every message can be delivered                                          *)

(* The states p has stored, and those it will have stored when the decrypt *)
(* call under way commits.                                                 *)
StatesOf(r) == {At(r, i) : i \in Slots(r)}
Own(p) == IF rec[p] = FreshRecord THEN {} ELSE StatesOf(rec[p])
Due(p) == IF op[p].stage = "callback" THEN StatesOf(op[p].record) ELSE {}
Held(p) == Own(p) \union Due(p)

(* No limit of a record is reached.                                        *)
Roomy(r) ==
  /\ Len(r.prev) < MaxArchivedStates
  /\ \A s \in StatesOf(r) :
       /\ Len(s.recv) < MaxReceiverChains
       /\ \A k \in 1..Len(s.recv) : Len(s.recv[k].mks) < MaxMessageKeys

(* Message m is not too far ahead of the receiver chain it belongs to.     *)
InReach(p, m) ==
  \/ m.counter <= MaxFuture
  \/ \E s \in Own(p) : \E k \in 1..Len(s.recv) :
       s.recv[k].chain = m.chain /\ m.counter <= s.recv[k].index + MaxFuture

(* Nothing was deleted, and nothing is at a limit of the code: five        *)
(* receiver chains, 2000 message keys, 40 archived states, 2000 messages   *)
(* into the future.                                                        *)
WithinLimits ==
  /\ resets = 0
  /\ \A p \in Party : Roomy(rec[p]) /\ (op[p].stage = "callback" => Roomy(op[p].record))
  /\ \A m \in sent : InReach(m.to, m)

(* The keys of the only installations there are.                           *)
Id1(p) == Key("identity", p, 1, 0)
Sig1(p) == Key("signed", p, 1, 0)
Ot1(p, i) == IF i = 0 THEN NoKey ELSE Key("onetime", p, 1, i)
Secret1(p, base, q, i) == AliceSecret(Id1(p), base, Id1(q), Sig1(q), Ot1(q, i))

(* A receiver chain: the first one of a party that began the session, or   *)
(* one that a message brought, and not ahead of the messages.              *)
Brought(p, l, M) ==
  \/ l.ratchet[1] = "signed" /\ Len(l.chain) = 1
  \/ \E n \in M : /\ n.to = p /\ n.ratchet = l.ratchet /\ n.chain = l.chain
                  /\ l.index <= n.counter + 1

(* State s gives the key of m, by a chain it has or by a turn.             *)
Opens(s, m) ==
  \/ m.chain = CreateChain(s.root, m.ratchet, s.ratchet)
  \/ Yields(s.recv, m.chain, m.counter)

Readable(p, s, M, U) ==
  /\ s.local = Id1(p) /\ s.remote = Id1(Peer(p))
  /\ \A k \in 1..Len(s.recv) : Brought(p, s.recv[k], M) /\ Len(s.recv[k].chain) < Len(s.root)
  /\ \A m \in U : m.chain[1] = s.root[1] => Opens(s, m)

Begun(p, s) ==
  s.pending.base # NoKey =>
    /\ s.pending.oneTime \in PreKeyIds \union {0}
    /\ s.root = CreateChain(DerivedKeys(Secret1(p, s.base, Peer(p), s.pending.oneTime)),
                            s.ratchet, Sig1(Peer(p)))

Good(p, s, M, U) ==
  /\ Readable(p, s, M, U)
  /\ \E k \in 1..Len(s.recv) : \E a : s.root = Append(s.recv[k].chain, a)
  /\ \A n \in M : n.to # p /\ n.ratchet = s.ratchet => n.chain = s.root
  /\ s.pending.base = NoKey => \E n \in M : n.to = p /\ n.chain[1] = s.root[1]
  /\ Begun(p, s)

(* Messages p has yet to commit; those it has still to once the call under *)
(* way has.                                                                *)
Undone(p) == {m \in sent : m.to = p /\ accepted[m.id] = 0}
UndoneThen(p) == {m \in Undone(p) : m.id # op[p].id}

Letters ==
  \A m \in sent :
    /\ m.from = Id1(Peer(m.to)) /\ m.remote = Id1(m.to)
    /\ m.base = NoKey => \E n \in sent : n.to # m.to /\ n.chain[1] = m.chain[1]
    /\ m.base # NoKey =>
         /\ m.oneTime \in PreKeyIds \union {0}
         /\ m.chain = CreateChain(DerivedKeys(Secret1(Peer(m.to), m.base, m.to, m.oneTime)),
                                  m.ratchet, Sig1(m.to))
    /\ \A n \in sent : n.ratchet = m.ratchet => n.chain = m.chain

HasSecret(S, z) == \E s \in S : s.root[1] = z
HasBaseKey(S, b) == \E s \in S : s.base = b

(* p sent or committed a message of the session with secret z.             *)
Touched(p, z) == \E n \in sent : n.chain[1] = z /\ (n.to # p \/ accepted[n.id] > 0)
Keeps(p) ==
  \A z : Touched(p, z) =>
    HasSecret(Own(p), z) /\ (op[p].stage = "callback" => HasSecret(Due(p), z))

(* Pre key i of p was given out for the session with base key b.           *)
Offered(p, i, b) ==
  \/ \E m \in sent : m.to = p /\ m.base # NoKey /\ m.base = b /\ m.oneTime = i
  \/ \E s \in Held(Peer(p)) : s.pending.base # NoKey /\ s.base = b /\ s.pending.oneTime = i

Supply(p) ==
  /\ server[p] \subseteq opks[p]
  /\ LastResort # 0 => LastResort \in opks[p]
  /\ \A i \in 1..NumOneTime : \A b, c :
       Offered(p, i, b) /\ Offered(p, i, c) => b = c /\ i \notin server[p]
  /\ \A i \in 1..NumOneTime \ opks[p] : \A b :
       Offered(p, i, b) =>
         HasBaseKey(Own(p), b) /\ (op[p].stage = "callback" => HasBaseKey(Due(p), b))
  /\ op[p].stage # "idle" /\ op[p].remove # 0 => op[p].remove \in 1..NumOneTime \ server[p]
  /\ \A i \in 1..NumOneTime : \A b :
       op[p].stage # "idle" /\ op[p].remove = i /\ Offered(p, i, b) =>
         HasBaseKey(IF op[p].stage = "callback" THEN Due(p) ELSE Own(p), b)

Apart(p) ==
  /\ \A s \in Own(p) : Good(p, s, sent, Undone(p))
  /\ \A s \in Due(p) : Good(p, s, sent, UndoneThen(p))
  /\ trusted[p] \in {NoKey, Id1(Peer(p))}
  /\ Keeps(p)
  /\ Supply(p)

DeliverInv ==
  /\ DOMAIN trusted = Party
  /\ Letters
  /\ \A p \in Party : Apart(p)

-----------------------------------------------------------------------------
(* Records that lose nothing                                               *)

LEMMA PromoteLen ==
  ASSUME NEW r, IsSeq(r.prev), NEW s2, NEW r2, r2 = PromoteState(r, s2),
         Len(r.prev) < MaxArchivedStates \/ Len(r2.prev) < MaxArchivedStates
  PROVE  Len(r2.prev) = Len(r.prev) + 1
<1> DEFINE prev == r.prev
           all == <<r.cur>> \o prev
           n == IF Len(all) > MaxArchivedStates THEN MaxArchivedStates ELSE Len(all)
<1>0. MaxArchivedStates \in Nat
  BY RecordBounds
<1>1. r2.prev = SubSeq(all, 1, n)
  BY DEF PromoteState
<1>2. PICK X : prev \in Seq(X)
  BY DEF IsSeq
<1> DEFINE Y == X \union {r.cur}
<1>3. prev \in Seq(Y) /\ r.cur \in Y
  BY <1>2
<1> HIDE DEF Y
<1>4. all \in Seq(Y) /\ Len(all) = Len(prev) + 1
  BY <1>3, FrontSeq
<1>5. Len(prev) \in Nat
  BY <1>3
<1> HIDE DEF all
<1>6. n \in 0..Len(all)
  BY <1>0, <1>4, <1>5
<1>7. Len(r2.prev) = n
  <2> HIDE DEF n
  <2> QED BY <1>1, <1>4, <1>6, CutSeq
<1> QED BY <1>0, <1>4, <1>5, <1>7

(* The current state takes the place of s; the others stay.                *)
Becomes(S, S2, s, s2) ==
  /\ S2 \subseteq S \union {s2}
  /\ s2 \in S2
  /\ \A t \in S : t # s => t \in S2

LEMMA PromotedAll ==
  ASSUME NEW r, IsSeq(r.prev), DOMAIN r = {"cur", "prev"}, Len(r.prev) <= MaxArchivedStates,
         NEW f \in 1..Len(r.prev), NEW s2, NEW r2,
         r2 = PromoteState([r EXCEPT !.prev = RemoveAt(r.prev, f)], s2),
         NEW j \in Slots(r), j # f
  PROVE  \E i \in Slots(r2) : At(r2, i) = At(r, j)
<1> DEFINE rest == RemoveAt(r.prev, f)
           w == [r EXCEPT !.prev = rest]
<1>1. /\ IsSeq(rest) /\ Len(rest) = Len(r.prev) - 1
      /\ \A i \in 1..Len(rest) : rest[i] = r.prev[IF i < f THEN i ELSE i + 1]
  BY RemoveAtShape
<1> HIDE DEF rest
<1>2. w.cur = r.cur /\ w.prev = rest
  OBVIOUS
<1>3. r2 = PromoteState(w, s2)
  BY DEF rest
<1> HIDE DEF w
<1>4. IsSeq(w.prev) /\ Len(r.prev) \in Nat /\ MaxArchivedStates \in Nat
  BY <1>1, <1>2, LenNat, RecordBounds
<1>5. Len(w.prev) < MaxArchivedStates
  BY <1>1, <1>2, <1>4
<1>6. Len(r2.prev) = Len(w.prev) + 1
  BY <1>3, <1>4, <1>5, PromoteLen
<1>7. \A i \in 1..Len(r2.prev) : r2.prev[i] = At(w, i - 1)
  BY <1>3, <1>4, PromoteShape DEF Promoted
<1>8. Len(r2.prev) = Len(r.prev)
  BY <1>1, <1>2, <1>4, <1>6
<1> DEFINE i == IF j < f THEN j + 1 ELSE j
           h == i - 1
<1>9. i \in 1..Len(r2.prev) /\ i # 0 /\ i \in Slots(r2)
  BY <1>4, <1>8 DEF Slots
<1>10. At(r2, i) = At(w, h)
  <2> HIDE DEF i
  <2> QED BY <1>7, <1>9 DEF At
<1>11. At(w, h) = At(r, j)
  <2>1. CASE j = 0
    <3>1. h = 0
      BY <2>1
    <3> HIDE DEF h
    <3> QED BY <1>2, <2>1, <3>1 DEF At
  <2>2. CASE j # 0 /\ j < f
    <3>1. h = j /\ j \in 1..Len(rest)
      BY <1>1, <1>4, <2>2 DEF Slots
    <3> HIDE DEF h
    <3>2. rest[j] = r.prev[j]
      BY <1>1, <2>2, <3>1
    <3> QED BY <1>2, <2>2, <3>1, <3>2 DEF At
  <2>3. CASE j # 0 /\ ~(j < f)
    <3>1. h = j - 1 /\ h \in 1..Len(rest) /\ ~(h < f) /\ h # 0 /\ h + 1 = j
      BY <1>1, <1>4, <2>3 DEF Slots
    <3> HIDE DEF h
    <3>2. rest[h] = r.prev[h + 1]
      BY <1>1, <3>1
    <3> QED BY <1>2, <2>3, <3>1, <3>2 DEF At
  <2> QED BY <2>1, <2>2, <2>3
<1> QED BY <1>9, <1>10, <1>11

(* session_cipher_decrypt_from_record_and_signal_message loses no state.   *)
LEMMA DecryptedAll ==
  ASSUME NEW r, IsSeq(r.prev), Len(r.prev) <= MaxArchivedStates, DOMAIN r = {"cur", "prev"},
         NEW m, NEW new, NEW r2, DecryptFromRecord(r, m, new).code = Success,
         r2 = DecryptFromRecord(r, m, new).record
  PROVE  \E f \in Slots(r) : /\ DecryptedAt(r, r2, m, new, f)
                             /\ Becomes(StatesOf(r), StatesOf(r2), At(r, f), r2.cur)
<1> DEFINE try(i) == DecryptFromState(At(r, i), m, new)
           hits == {i \in Slots(r) : try(i).code # Invalid}
           f == CHOOSE i \in hits : \A j \in hits : i <= j
           d == DecryptFromRecord(r, m, new)
           w == [r EXCEPT !.prev = RemoveAt(r.prev, f)]
<1>1. d = IF hits = {} THEN [code |-> Invalid, record |-> r]
          ELSE IF try(f).code # Success THEN [code |-> try(f).code, record |-> r]
          ELSE [code |-> Success,
                record |-> IF f = 0 THEN [r EXCEPT !.cur = try(f).state]
                           ELSE PromoteState(w, try(f).state)]
  BY DEF DecryptFromRecord, At, Slots
<1>2. Success # Invalid /\ d.code = Success /\ r2 = d.record
  BY DEF Success, Invalid
<1>3. Len(r.prev) \in Nat /\ hits \subseteq Nat
  BY LenNat DEF Slots
<1> HIDE DEF d, hits, w, try
<1>4. hits # {}
  BY <1>1, <1>2
<1>5. f \in hits
  BY <1>3, <1>4, LeastExists
<1> HIDE DEF f
<1>6. try(f).code = Success
  BY <1>1, <1>2, <1>4
<1>7. r2 = IF f = 0 THEN [r EXCEPT !.cur = try(f).state] ELSE PromoteState(w, try(f).state)
  BY <1>1, <1>2, <1>4, <1>6
<1>8. f \in Slots(r)
  BY <1>5 DEF hits
<1> DEFINE s2 == try(f).state
<1>9. CASE f = 0
  <2>1. r2 = [r EXCEPT !.cur = s2]
    BY <1>7, <1>9
  <2>2. r2.cur = s2 /\ r2.prev = r.prev /\ Rebuilt(r, r2, s2, {0})
    BY <2>1, ReplacedIn
  <2>3. Slots(r2) = Slots(r) /\ 0 \in Slots(r2) /\ At(r2, 0) = s2
    BY <1>3, <2>2 DEF Slots, At
  <2>4. \A j \in Slots(r) : j # 0 => At(r2, j) = At(r, j)
    BY <2>2 DEF At
  <2>5. \A j \in Slots(r) : At(r, j) # At(r, 0) => At(r, j) \in StatesOf(r2)
    BY <2>3, <2>4 DEF StatesOf
  <2>6. StatesOf(r2) \subseteq StatesOf(r) \union {s2} /\ s2 \in StatesOf(r2)
    BY <2>3, <2>4 DEF StatesOf
  <2>7. Becomes(StatesOf(r), StatesOf(r2), At(r, 0), r2.cur)
    <3>1. ASSUME NEW t \in StatesOf(r), t # At(r, 0) PROVE t \in StatesOf(r2)
      BY <2>5, <3>1 DEF StatesOf
    <3> QED BY <2>2, <2>6, <3>1 DEF Becomes
  <2>8. DecryptedAt(r, r2, m, new, 0)
    BY <1>6, <1>9, <2>1, <2>2 DEF DecryptedAt, try
  <2> QED BY <1>8, <1>9, <2>7, <2>8
<1>10. CASE f # 0
  <2>1. f \in 1..Len(r.prev)
    BY <1>3, <1>8, <1>10 DEF Slots
  <2>2. r2 = PromoteState([r EXCEPT !.prev = RemoveAt(r.prev, f)], s2)
    BY <1>7, <1>10 DEF w
  <2> HIDE DEF s2
  <2>3. Rebuilt(r, r2, s2, {f}) /\ \A j \in Slots(r) : j # f => \E i \in Slots(r2) : At(r2, i) = At(r, j)
    BY <2>1, <2>2, PromotedIn, PromotedAll
  <2>4. r2.cur = s2 /\ IsSeq(r2.prev)
    BY <2>3 DEF Rebuilt
  <2>5. 0 \in Slots(r2) /\ At(r2, 0) = s2
    BY <2>4, LenNat DEF Slots, At
  <2>6. StatesOf(r2) \subseteq StatesOf(r) \union {s2}
    <3>1. ASSUME NEW i \in Slots(r2) PROVE At(r2, i) \in StatesOf(r) \union {s2}
      <4>1. At(r2, i) = s2 \/ \E j \in Slots(r) \ {f} : At(r2, i) = At(r, j)
        BY <2>3, RebuiltStates
      <4> QED BY <4>1 DEF StatesOf
    <3> QED BY <3>1 DEF StatesOf
  <2>7. ASSUME NEW t \in StatesOf(r), t # At(r, f) PROVE t \in StatesOf(r2)
    <3>1. PICK j \in Slots(r) : t = At(r, j)
      BY DEF StatesOf
    <3>2. j # f
      BY <2>7, <3>1
    <3>3. PICK i \in Slots(r2) : At(r2, i) = At(r, j)
      BY <2>3, <3>2
    <3> QED BY <3>1, <3>3 DEF StatesOf
  <2>8. s2 \in StatesOf(r2)
    BY <2>5 DEF StatesOf
  <2>9. Becomes(StatesOf(r), StatesOf(r2), At(r, f), r2.cur)
    BY <2>4, <2>6, <2>7, <2>8 DEF Becomes
  <2>10. DecryptedAt(r, r2, m, new, f)
    BY <1>6, <1>10, <2>3 DEF DecryptedAt, try, s2
  <2> QED BY <1>8, <2>9, <2>10
<1> QED BY <1>9, <1>10

(* A builder's record, with room for one more archived state.              *)
LEMMA BuiltAll ==
  ASSUME NEW r, NEW s, NEW r2, r = FreshRecord \/ IsSeq(r.prev), r2 = WithNew(r, s),
         Len(r2.prev) < MaxArchivedStates
  PROVE  StatesOf(r2) = (IF r = FreshRecord THEN {} ELSE StatesOf(r)) \union {s}
<1>1. BuiltFrom(r, r2, s)
  BY BuiltSlots
<1>2. At(r2, 0) = s /\ IsSeq(r2.prev)
  BY <1>1 DEF BuiltFrom
<1>3. 0 \in Slots(r2)
  BY <1>2, LenNat DEF Slots
<1>4. StatesOf(r2) \subseteq (IF r = FreshRecord THEN {} ELSE StatesOf(r)) \union {s}
  BY <1>1 DEF BuiltFrom, StatesOf
<1>5. ASSUME r # FreshRecord, NEW j \in Slots(r)
      PROVE  At(r, j) \in StatesOf(r2)
  <2> DEFINE q == PromoteState(r, EmptyState)
  <2>1. r2 = [q EXCEPT !.cur = s]
    BY <1>5 DEF WithNew, ArchiveCurrentState
  <2>2. q.prev = r2.prev
    <3>1. DOMAIN q = {"cur", "prev"}
      BY <1>5, PromoteShape DEF Promoted
    <3> HIDE DEF q
    <3> QED BY <2>1, <3>1
  <2>3. Len(q.prev) = Len(r.prev) + 1 /\ \A i \in 1..Len(q.prev) : q.prev[i] = At(r, i - 1)
    BY <1>5, <2>2, PromoteLen, PromoteShape DEF Promoted
  <2>4. Len(r.prev) \in Nat
    BY <1>5, LenNat
  <2> HIDE DEF q
  <2> DEFINE i == j + 1
  <2>5. i \in 1..Len(r2.prev) /\ i - 1 = j /\ i # 0 /\ i \in Slots(r2)
    BY <2>2, <2>3, <2>4 DEF Slots
  <2> HIDE DEF i
  <2>6. At(r2, i) = At(r, j)
    BY <2>2, <2>3, <2>5 DEF At
  <2> QED BY <2>5, <2>6 DEF StatesOf
<1>6. s \in StatesOf(r2)
  BY <1>2, <1>3 DEF StatesOf
<1>7. r # FreshRecord => StatesOf(r) \subseteq StatesOf(r2)
  BY <1>5 DEF StatesOf
<1> QED BY <1>4, <1>6, <1>7
-----------------------------------------------------------------------------
(* Decrypting with a state                                                 *)

(* VerifyMac has compared the identities, and decryption keeps them.       *)
Whose(s, s2, m) ==
  /\ s2.local = s.local /\ s2.remote = s.remote
  /\ m.from = s.remote /\ m.remote = s.local

LEMMA DecryptedWhose ==
  ASSUME NEW s, DOMAIN s = StateFields, NEW m, NEW new,
         DecryptFromState(s, m, new).code = Success,
         NEW s2, s2 = DecryptFromState(s, m, new).state
  PROVE  Whose(s, s2, m)
<1> DEFINE turned == GetOrCreateChainKey(s, m.ratchet, new)
           at     == FindReceiverChain(turned.recv, m.ratchet)
           link   == turned.recv[at]
           answer == Answer(link.index, link.mks, m.counter)
           after  == LinkAfter(link, m.counter)
           d      == DecryptFromState(s, m, new)
           s3     == [turned EXCEPT !.recv[at] = after, !.pending = NoPending]
<1>0. Success # Invalid
  BY DEF Success, Invalid
<1>1. d = IF ~HasSenderChain(s) THEN [code |-> Invalid, state |-> s]
          ELSE IF answer # Success THEN [code |-> answer, state |-> s]
          ELSE IF ~VerifyMac(s, link.chain, m) THEN [code |-> Invalid, state |-> s]
          ELSE [code |-> Success, state |-> s3]
  BY DEF DecryptFromState, LinkAfter
<1>2. d.code = Success /\ s2 = d.state
  OBVIOUS
<1> HIDE DEF d, s3, answer, link
<1>3. VerifyMac(s, link.chain, m) /\ s2 = s3
  BY <1>0, <1>1, <1>2
<1>4. /\ DOMAIN turned = StateFields
      /\ turned.local = s.local /\ turned.remote = s.remote
  BY DEF GetOrCreateChainKey, StateFields
<1> HIDE DEF turned, at, after
<1>5. s3.local = turned.local /\ s3.remote = turned.remote
  BY <1>4 DEF s3, StateFields
<1> QED BY <1>3, <1>4, <1>5 DEF VerifyMac, Whose

LEMMA NoneEvicted ==
  ASSUME NEW s \in Seq(Nat), Len(KeepNewest(s)) < MaxMessageKeys
  PROVE  KeepNewest(s) = s
<1>1. CASE Len(s) > MaxMessageKeys
  <2>1. KeepNewest(s) = SubSeq(s, Len(s) - MaxMessageKeys + 1, Len(s)) /\ MaxMessageKeys \in Nat
        /\ Len(s) \in Nat
    BY <1>1, KeyBounds DEF KeepNewest
  <2>2. Len(KeepNewest(s)) = MaxMessageKeys
    BY <1>1, <2>1
  <2> QED BY <2>1, <2>2
<1>2. CASE ~(Len(s) > MaxMessageKeys)
  BY <1>2 DEF KeepNewest
<1> QED BY <1>1, <1>2

(* Taking the key of c leaves the keys of all other messages, when the     *)
(* list is not full.                                                       *)
LEMMA OthersStay ==
  ASSUME NEW l, DOMAIN l = {"ratchet", "chain", "index", "mks"}, WellKept(l.index, l.mks, 0),
         NEW c \in Nat, Answer(l.index, l.mks, c) = Success,
         NEW l2, l2 = LinkAfter(l, c), Len(l2.mks) < MaxMessageKeys,
         NEW e \in Nat, e # c, LinkYields(l, e)
  PROVE  LinkYields(l2, e)
<1> DEFINE i == l.index
           ks == l.mks
           i2 == IndexAfter(i, c)
           k2 == KeysAfter(i, ks, c)
<1>1. l2.index = i2 /\ l2.mks = k2
  BY DEF LinkAfter
<1>2. i \in Nat /\ ks \in Seq(Nat)
  BY DEF WellKept
<1>3. i <= e \/ HasMessageKeys(ks, e)
  BY DEF LinkYields
<1>4. Len(k2) < MaxMessageKeys
  BY <1>1
<1>5. i > c => HasMessageKeys(ks, c)
  <2>1. Success # Duplicate
    BY DEF Success, Duplicate
  <2> QED BY <2>1 DEF Answer
<1> HIDE DEF i, ks
<1> SUFFICES i2 <= e \/ HasMessageKeys(k2, e)
  BY <1>1 DEF LinkYields
<1>6. CASE i > c
  <2>1. i2 = i /\ k2 = RemoveMessageKeys(ks, c)
    BY <1>6 DEF IndexAfter, KeysAfter
  <2>2. CASE i <= e
    BY <2>1, <2>2
  <2>3. CASE HasMessageKeys(ks, e)
    <3>1. PICK j \in 1..Len(ks) : ks[j] = e
      BY <2>3 DEF HasMessageKeys
    <3>2. PICK k \in 1..Len(ks) :
             /\ ks[k] = c
             /\ RemoveMessageKeys(ks, c) \in Seq(Nat)
             /\ Len(RemoveMessageKeys(ks, c)) = Len(ks) - 1
             /\ \A x \in 1..(k - 1) : RemoveMessageKeys(ks, c)[x] = ks[x]
             /\ \A x \in k..(Len(ks) - 1) : RemoveMessageKeys(ks, c)[x] = ks[x + 1]
      BY <1>2, <1>5, <1>6, RemoveShape
    <3>3. j # k /\ Len(ks) \in Nat
      BY <1>2, <3>1, <3>2
    <3> DEFINE x == IF j < k THEN j ELSE j - 1
    <3>4. x \in 1..Len(k2) /\ k2[x] = e
      <4>1. CASE j < k
        <5>1. x = j /\ x \in 1..(k - 1) /\ x \in 1..(Len(ks) - 1)
          BY <3>3, <4>1
        <5> QED BY <2>1, <3>1, <3>2, <5>1
      <4>2. CASE ~(j < k)
        <5>1. x \in k..(Len(ks) - 1) /\ x + 1 = j /\ x \in 1..(Len(ks) - 1)
          BY <3>3, <4>2
        <5> HIDE DEF x
        <5> QED BY <2>1, <3>1, <3>2, <5>1
      <4> QED BY <4>1, <4>2
    <3> HIDE DEF x
    <3> QED BY <3>4 DEF HasMessageKeys
  <2> QED BY <1>3, <2>2, <2>3
<1>7. CASE ~(i > c)
  <2> DEFINE all == ks \o Run(i, c)
  <2>1. i2 = c + 1 /\ k2 = KeepNewest(all) /\ i <= c
    BY <1>2, <1>7 DEF IndexAfter, KeysAfter
  <2>2. /\ all \in Seq(Nat) /\ Len(all) = Len(ks) + (c - i) /\ Len(ks) \in Nat
        /\ \A x \in 1..Len(ks) : all[x] = ks[x]
        /\ \A x \in (Len(ks) + 1)..(Len(ks) + (c - i)) : all[x] = i + (x - Len(ks)) - 1
    <3>1. i <= c /\ Len(ks) \in Nat
      BY <1>2, <2>1
    <3> HIDE DEF k2, i2
    <3> QED BY <1>2, <3>1, ConcatRunShape, Zenon
  <2> HIDE DEF all
  <2>3. k2 = all
    BY <1>4, <2>1, <2>2, NoneEvicted
  <2>4. CASE HasMessageKeys(ks, e)
    <3>1. PICK j \in 1..Len(ks) : ks[j] = e
      BY <2>4 DEF HasMessageKeys
    <3>2. j \in 1..Len(all) /\ all[j] = e
      BY <1>2, <2>1, <2>2, <3>1
    <3> QED BY <2>3, <3>2 DEF HasMessageKeys
  <2>5. CASE i <= e /\ e < c
    <3> DEFINE x == Len(ks) + (e - i) + 1
    <3>1. x \in (Len(ks) + 1)..(Len(ks) + (c - i)) /\ x \in 1..Len(all) /\ i + (x - Len(ks)) - 1 = e
      BY <1>2, <2>1, <2>2, <2>5
    <3> HIDE DEF x
    <3>2. all[x] = e
      BY <2>2, <3>1
    <3> QED BY <2>3, <3>1, <3>2 DEF HasMessageKeys
  <2>6. CASE e > c
    BY <2>1, <2>6
  <2> QED BY <1>2, <1>3, <2>4, <2>5, <2>6
<1> QED BY <1>6, <1>7

(* A chain has one ratchet key of its sender.                              *)
LEMMA ChainRatchet ==
  ASSUME NEW m, NEW n, NEW N, NEW G, MsgOK(m, N, G), MsgOK(n, N, G),
         m.to = n.to, m.chain = n.chain
  PROVE  m.ratchet = n.ratchet
<1>1. PICK t \in Newest(m.chain) : t[2] = m.to /\ Newest(m.chain) = {t, m.ratchet}
  BY DEF MsgOK
<1>2. PICK u \in Newest(n.chain) : u[2] = n.to /\ Newest(n.chain) = {u, n.ratchet}
  BY DEF MsgOK
<1>3. m.ratchet[2] # m.to /\ n.ratchet[2] # n.to
  BY DEF MsgOK
<1>4. m.ratchet \in {u, n.ratchet} /\ m.ratchet # u
  BY <1>1, <1>2, <1>3
<1> QED BY <1>4

(* The messages of U2 are some of U, and m, whose key was taken, is none.  *)
Less(U, U2, M, m) ==
  /\ U2 \subseteq U /\ U \subseteq M
  /\ \A n \in U2 : n.chain = m.chain => n.counter # m.counter

LEMMA NoPendingBase == NoPending.base = NoKey
BY DEF NoPending

LEMMA TwoNotOne ==
  ASSUME NEW n \in Nat, n >= 2
  PROVE  n # 1
OBVIOUS

(* The chain of m after its key was taken.                                 *)
LEMMA BroughtAfter ==
  ASSUME NEW p, NEW m, NEW M, NEW N, NEW G, MsgsOK(M, N, G), m \in M, m.to = p,
         NEW l, DOMAIN l = {"ratchet", "chain", "index", "mks"}, l.index \in Nat,
         l.chain = m.chain, Brought(p, l, M), NEW e, e = LinkAfter(l, m.counter)
  PROVE  Brought(p, e, M) /\ e.chain = l.chain /\ e.ratchet = l.ratchet
<1>1. /\ e.chain = l.chain /\ e.ratchet = l.ratchet
      /\ e.index = IndexAfter(l.index, m.counter)
  BY DEF LinkAfter
<1>2. MsgOK(m, N, G)
  BY DEF MsgsOK
<1>3. Len(m.chain) >= 2 /\ m.counter \in Nat /\ Len(m.chain) \in Nat
  BY <1>2, LenNat DEF MsgOK
<1>4. PICK n \in M : n.to = p /\ n.ratchet = l.ratchet /\ n.chain = l.chain
                     /\ l.index <= n.counter + 1
  <2>1. Len(m.chain) # 1
    BY <1>3, TwoNotOne, Zenon
  <2> QED BY <2>1, Zenon DEF Brought
<1>5. n.ratchet = m.ratchet
  BY <1>2, <1>4, ChainRatchet DEF MsgsOK
<1>6. e.index = l.index \/ e.index = m.counter + 1
  BY <1>1 DEF IndexAfter
<1>7. e.index <= n.counter + 1 \/ e.index <= m.counter + 1
  BY <1>3, <1>4, <1>6
<1> QED BY <1>1, <1>4, <1>5, <1>7 DEF Brought

(* m was decrypted with a receiver chain the state had.                    *)
LEMMA KeptGood ==
  ASSUME NEW p, NEW s, NEW s2, NEW m, NEW k \in 1..Len(s.recv), NEW N, NEW G, NEW M,
         NEW U, NEW U2, StateOK(p, s, N, G), MsgsOK(M, N, G), m \in M, m.to = p,
         Good(p, s, M, U), KeptChain(s, s2, m, k), Whose(s, s2, m),
         \A j \in 1..Len(s2.recv) : Len(s2.recv[j].mks) < MaxMessageKeys, Less(U, U2, M, m)
  PROVE  Good(p, s2, M, U2)
<1> DEFINE l == s.recv[k]
           e == LinkAfter(l, m.counter)
<1>1. /\ IsSeq(s.recv) /\ IsSeq(s.root)
      /\ \A j \in 1..Len(s.recv) : LinkOK(s.recv[j], s.root, N)
  BY DEF StateOK, SenderOK, LinksOK
<1>2. Len(s.recv) \in Nat /\ Len(s.root) \in Nat /\ m.counter \in Nat
  BY <1>1, LenNat DEF MsgsOK, MsgOK
<1>3. /\ l.chain = m.chain /\ Answer(l.index, l.mks, m.counter) = Success
      /\ s2.recv = [s.recv EXCEPT ![k] = e] /\ s2.pending = NoPending
      /\ s2.root = s.root /\ s2.ratchet = s.ratchet
  BY DEF KeptChain, SameSession
<1>4. /\ Readable(p, s, M, U)
      /\ \E j \in 1..Len(s.recv) : \E a : s.root = Append(s.recv[j].chain, a)
      /\ \A n \in M : n.to # p /\ n.ratchet = s.ratchet => n.chain = s.root
  BY DEF Good
<1>5. /\ s.local = Id1(p) /\ s.remote = Id1(Peer(p))
      /\ \A j \in 1..Len(s.recv) : Brought(p, s.recv[j], M) /\ Len(s.recv[j].chain) < Len(s.root)
      /\ \A n \in U : n.chain[1] = s.root[1] => Opens(s, n)
  BY <1>4 DEF Readable
<1>6. LinkOK(l, s.root, N) /\ Brought(p, l, M)
  BY <1>1, <1>5
<1>7. DOMAIN l = {"ratchet", "chain", "index", "mks"} /\ WellKept(l.index, l.mks, 0) /\ l.index \in Nat
  BY <1>6 DEF LinkOK, WellKept
<1> HIDE DEF l
<1>8. Brought(p, e, M) /\ e.chain = l.chain
  BY <1>3, <1>6, <1>7, BroughtAfter
<1>9. e = LinkAfter(l, m.counter)
  OBVIOUS
<1> HIDE DEF e
<1>10. Replaced(s.recv, s2.recv, k, e)
  BY <1>1, <1>3, ReplaceOne
<1>11. /\ Len(s2.recv) = Len(s.recv) /\ s2.recv[k] = e
       /\ \A i \in 1..Len(s.recv) : i # k => s2.recv[i] = s.recv[i]
  BY <1>10 DEF Replaced
<1>12. \A i \in 1..Len(s2.recv) : s2.recv[i].chain = s.recv[i].chain /\ Brought(p, s2.recv[i], M)
  BY <1>5, <1>8, <1>11 DEF l
<1>13. ASSUME NEW n \in U2, n.chain[1] = s2.root[1]
       PROVE  Opens(s2, n)
  <2>1. n \in U /\ n \in M /\ (n.chain = m.chain => n.counter # m.counter)
    BY DEF Less
  <2>2. n.counter \in Nat
    BY <2>1 DEF MsgsOK, MsgOK
  <2>3. Opens(s, n)
    BY <1>3, <1>5, <1>13, <2>1
  <2>4. CASE n.chain = CreateChain(s.root, n.ratchet, s.ratchet)
    BY <1>3, <2>4 DEF Opens
  <2>5. CASE Yields(s.recv, n.chain, n.counter)
    <3>1. PICK j \in 1..Len(s.recv) : s.recv[j].chain = n.chain /\ LinkYields(s.recv[j], n.counter)
      BY <2>5 DEF Yields
    <3>2. LinkYields(s2.recv[j], n.counter)
      <4>1. CASE j # k
        BY <1>11, <3>1, <4>1
      <4>2. CASE j = k
        <5>1. n.counter # m.counter /\ LinkYields(l, n.counter)
          BY <1>3, <2>1, <3>1, <4>2 DEF l
        <5>2. Len(e.mks) < MaxMessageKeys
          BY <1>11
        <5>3. LinkYields(e, n.counter)
          BY <1>2, <1>3, <1>7, <1>9, <2>2, <5>1, <5>2, OthersStay
        <5> QED BY <1>11, <4>2, <5>3
      <4> QED BY <4>1, <4>2
    <3>3. s2.recv[j].chain = n.chain /\ j \in 1..Len(s2.recv)
      BY <1>11, <1>12, <3>1
    <3> QED BY <3>2, <3>3 DEF Opens, Yields
  <2> QED BY <2>3, <2>4, <2>5 DEF Opens
<1>14. Readable(p, s2, M, U2)
  <2>1. s2.local = Id1(p) /\ s2.remote = Id1(Peer(p))
    BY <1>5 DEF Whose
  <2>2. \A i \in 1..Len(s2.recv) : Len(s2.recv[i].chain) < Len(s2.root)
    BY <1>3, <1>5, <1>11, <1>12
  <2> QED BY <1>12, <1>13, <2>1, <2>2 DEF Readable
<1>15. \E j \in 1..Len(s2.recv) : \E a : s2.root = Append(s2.recv[j].chain, a)
  <2>0. PICK j \in 1..Len(s.recv) : \E a : s.root = Append(s.recv[j].chain, a)
    BY <1>4
  <2>1. PICK a : s.root = Append(s.recv[j].chain, a)
    BY <2>0
  <2>2. j \in 1..Len(s2.recv) /\ s2.recv[j].chain = s.recv[j].chain
    BY <1>11, <1>12
  <2>3. s2.root = Append(s2.recv[j].chain, a)
    BY <1>3, <2>1, <2>2
  <2> QED BY <2>2, <2>3
<1>16. \E n \in M : n.to = p /\ n.chain[1] = s2.root[1]
  BY <1>3, <1>6 DEF LinkOK
<1> QED BY <1>3, <1>4, <1>14, <1>15, <1>16, NoPendingBase DEF Good, Begun

(* With room for one more, session_state_add_receiver_chain drops none.    *)
AllKept(recv, all, l) ==
  /\ IsSeq(all) /\ Len(all) = Len(recv) + 1 /\ all[Len(all)] = l
  /\ \A k \in 1..Len(recv) : all[k] = recv[k]

LEMMA AddedAll ==
  ASSUME NEW recv, IsSeq(recv), Len(recv) <= MaxReceiverChains, NEW r, NEW c,
         NEW all, all = AddReceiverChain(recv, r, c), Len(all) < MaxReceiverChains
  PROVE  AllKept(recv, all, EmptyLink(r, c))
<1>1. AddedTo(recv, all, EmptyLink(r, c))
  BY AddChain
<1>2. Len(recv) \in Nat /\ MaxReceiverChains \in Nat
  BY LenNat, RecordBounds
<1>3. PICK x \in {0, 1} : /\ Len(all) = Len(recv) + 1 - x
                          /\ \A k \in 1..(Len(all) - 1) : all[k] = recv[k + x]
  BY <1>1 DEF AddedTo
<1>4. IsSeq(all) /\ all[Len(all)] = EmptyLink(r, c)
  BY <1>1 DEF AddedTo
<1>5. x = 0
  <2>1. CASE Len(recv) = MaxReceiverChains
    BY <1>2, <1>3, <2>1
  <2>2. CASE Len(recv) # MaxReceiverChains
    <3>1. PICK X : recv \in Seq(X)
      BY DEF IsSeq
    <3> DEFINE Y == X \union {EmptyLink(r, c)}
               longer == Append(recv, EmptyLink(r, c))
    <3>2. recv \in Seq(Y) /\ EmptyLink(r, c) \in Y
      BY <3>1
    <3> HIDE DEF Y
    <3>3. Len(longer) = Len(recv) + 1
      BY <3>2
    <3>4. all = IF Len(longer) > MaxReceiverChains THEN Tail(longer) ELSE longer
      BY DEF AddReceiverChain, EmptyLink
    <3> HIDE DEF longer
    <3>5. all = longer
      BY <1>2, <2>2, <3>3, <3>4
    <3> QED BY <1>2, <1>3, <3>3, <3>5
  <2> QED BY <2>1, <2>2
<1>6. Len(all) = Len(recv) + 1
  BY <1>2, <1>3, <1>5
<1>7. \A k \in 1..Len(recv) : all[k] = recv[k]
  BY <1>2, <1>3, <1>5, <1>6
<1> QED BY <1>4, <1>6, <1>7 DEF AllKept

(* A chain just added gives every key but the one just taken.              *)
LEMMA NewLinkYields ==
  ASSUME NEW r, NEW ch, NEW c \in Nat, Answer(0, <<>>, c) = Success,
         NEW l2, l2 = LinkAfter(EmptyLink(r, ch), c), Len(l2.mks) < MaxMessageKeys
  PROVE  /\ l2.ratchet = r /\ l2.chain = ch /\ l2.index = c + 1
         /\ \A e \in Nat : e # c => LinkYields(l2, e)
<1> DEFINE l == EmptyLink(r, ch)
<1>1. /\ l.ratchet = r /\ l.chain = ch /\ l.index = 0 /\ l.mks = <<>>
      /\ DOMAIN l = {"ratchet", "chain", "index", "mks"}
  BY DEF EmptyLink
<1>2. WellKept(l.index, l.mks, 0)
  <2>1. WellKept(0, <<>>, 0)
    BY KeyBounds DEF WellKept, Below, Spread, Values
  <2> HIDE DEF l
  <2> QED BY <1>1, <2>1
<1>3. Answer(l.index, l.mks, c) = Success /\ l2 = LinkAfter(l, c)
  BY <1>1
<1> HIDE DEF l
<1>4. /\ l2.ratchet = r /\ l2.chain = ch /\ l2.index = IndexAfter(0, c)
  BY <1>1, <1>3 DEF LinkAfter
<1>5. IndexAfter(0, c) = c + 1
  BY DEF IndexAfter
<1>6. ASSUME NEW e \in Nat, e # c PROVE LinkYields(l2, e)
  <2>1. LinkYields(l, e)
    BY <1>1 DEF LinkYields
  <2> QED BY <1>1, <1>2, <1>3, <1>6, <2>1, OthersStay
<1> QED BY <1>4, <1>5, <1>6

(* m turned the ratchet: the other messages are opened by a chain that the *)
(* state had, or by the one m brought.                                     *)
LEMMA TurnedGood ==
  ASSUME NEW p \in Party, NEW s, NEW s2, NEW m, NEW new, NEW N, NEW N2, NEW G, NEW M,
         NEW U, NEW U2, Turnable(p, s, N, G), MsgsOK(M, N, G), m \in M, m.to = p,
         NewKeyOf(p, new, N, N2), Readable(p, s, M, U), TurnedChain(s, s2, m, new),
         Whose(s, s2, m), Len(s2.recv) < MaxReceiverChains,
         \A j \in 1..Len(s2.recv) : Len(s2.recv[j].mks) < MaxMessageKeys, Less(U, U2, M, m),
         \A n \in U2 : n.chain = CreateChain(s.root, n.ratchet, s.ratchet) => n.chain = m.chain
  PROVE  Good(p, s2, M, U2)
<1> DEFINE all == AddReceiverChain(s.recv, m.ratchet, m.chain)
           e == LinkAfter(EmptyLink(m.ratchet, m.chain), m.counter)
           h == Len(all)
           a == Agreement(m.ratchet, new)
<1>1. /\ m.chain = CreateChain(s.root, m.ratchet, s.ratchet)
      /\ Answer(0, <<>>, m.counter) = Success
      /\ s2.recv = [all EXCEPT ![h] = e]
      /\ s2.root = Append(m.chain, a) /\ s2.ratchet = new /\ s2.pending = NoPending
  BY DEF TurnedChain, SameSession, CreateChain
<1>2. /\ IsSeq(s.recv) /\ Len(s.recv) <= MaxReceiverChains
      /\ IsSeq(s.root) /\ Len(s.root) >= 1
  BY DEF Turnable, LinksOK
<1>3. m.counter \in Nat /\ MsgOK(m, N, G) /\ IsSeq(m.chain) /\ Len(m.chain) >= 2
  BY DEF MsgsOK, MsgOK
<1>4. /\ Len(m.chain) = Len(s.root) + 1 /\ m.chain[1] = s.root[1]
  BY <1>1, <1>2, AppendPath DEF CreateChain, Extends
<1>5. Len(s2.root) = Len(m.chain) + 1 /\ s2.root[1] = m.chain[1]
  <2>1. Len(m.chain) >= 1 /\ Len(m.chain) \in Nat
    BY <1>3, LenNat
  <2> HIDE DEF a
  <2> QED BY <1>1, <1>3, <2>1, AppendPath DEF Extends
<1>6. AddedTo(s.recv, all, EmptyLink(m.ratchet, m.chain))
  BY <1>2, AddChain
<1>7. IsSeq(all) /\ h \in Nat /\ h >= 1
  BY <1>6, LenNat DEF AddedTo
<1>8. h \in 1..Len(all)
  BY <1>7
<1> HIDE DEF all, e
<1>9. Replaced(all, s2.recv, h, e)
  <2> HIDE DEF h
  <2> QED BY <1>1, <1>7, <1>8, ReplaceOne
<1>10. /\ Len(s2.recv) = h /\ s2.recv[h] = e
       /\ \A i \in 1..h : i # h => s2.recv[i] = all[i]
  BY <1>9 DEF Replaced
<1>11. AllKept(s.recv, all, EmptyLink(m.ratchet, m.chain))
  BY <1>2, <1>10, AddedAll DEF all
<1>12. h = Len(s.recv) + 1 /\ \A i \in 1..Len(s.recv) : all[i] = s.recv[i]
  BY <1>11 DEF AllKept
<1>13. Len(s.recv) \in Nat /\ Len(s.root) \in Nat
  BY <1>2, LenNat
<1> HIDE DEF h
<1>14. \A i \in 1..Len(s.recv) : i \in 1..Len(s2.recv) /\ s2.recv[i] = s.recv[i]
  BY <1>10, <1>12, <1>13
<1>15. \A i \in 1..Len(s2.recv) : i = h \/ i \in 1..Len(s.recv)
  BY <1>10, <1>12, <1>13
<1>16. h \in 1..Len(s2.recv)
  BY <1>7, <1>10
<1>17. /\ e.ratchet = m.ratchet /\ e.chain = m.chain /\ e.index = m.counter + 1
       /\ \A x \in Nat : x # m.counter => LinkYields(e, x)
  BY <1>1, <1>3, <1>10, <1>16, NewLinkYields DEF e
<1>18. Brought(p, e, M)
  <2>1. e.index <= m.counter + 1
    BY <1>3, <1>17
  <2> QED BY <1>17, <2>1 DEF Brought
<1>19. /\ s.local = Id1(p) /\ s.remote = Id1(Peer(p))
       /\ \A k \in 1..Len(s.recv) : Brought(p, s.recv[k], M) /\ Len(s.recv[k].chain) < Len(s.root)
       /\ \A n \in U : n.chain[1] = s.root[1] => Opens(s, n)
  BY DEF Readable
<1>20. ASSUME NEW i \in 1..Len(s2.recv)
       PROVE  Brought(p, s2.recv[i], M) /\ Len(s2.recv[i].chain) < Len(s2.root)
  <2>1. CASE i = h
    <3>1. Len(m.chain) < Len(s2.root)
      BY <1>4, <1>5, <1>13
    <3> QED BY <1>10, <1>17, <1>18, <2>1, <3>1
  <2>2. CASE i \in 1..Len(s.recv)
    <3>1. Brought(p, s.recv[i], M) /\ Len(s.recv[i].chain) < Len(s.root) /\ s2.recv[i] = s.recv[i]
      BY <1>14, <1>19, <2>2
    <3>2. LinkOK(s.recv[i], s.root, N)
      BY <2>2 DEF Turnable, LinksOK
    <3>3. Len(s.recv[i].chain) \in Nat
      BY <3>2, LenNat DEF LinkOK
    <3>4. Len(s.recv[i].chain) < Len(s2.root)
      BY <1>4, <1>5, <1>13, <3>1, <3>3
    <3> QED BY <3>1, <3>4
  <2> QED BY <1>15, <2>1, <2>2
<1>21. ASSUME NEW n \in U2, n.chain[1] = s2.root[1]
       PROVE  Opens(s2, n)
  <2>1. n \in U /\ n \in M /\ (n.chain = m.chain => n.counter # m.counter)
    BY DEF Less
  <2>2. n.counter \in Nat
    BY <2>1 DEF MsgsOK, MsgOK
  <2>3. Opens(s, n)
    BY <1>4, <1>5, <1>19, <1>21, <2>1
  <2>4. CASE n.chain = CreateChain(s.root, n.ratchet, s.ratchet)
    <3>1. n.chain = m.chain
      BY <2>4
    <3>2. LinkYields(s2.recv[h], n.counter) /\ s2.recv[h].chain = n.chain
      BY <1>10, <1>17, <2>1, <2>2, <3>1
    <3> QED BY <1>16, <3>2 DEF Opens, Yields
  <2>5. CASE Yields(s.recv, n.chain, n.counter)
    <3>1. PICK j \in 1..Len(s.recv) : s.recv[j].chain = n.chain /\ LinkYields(s.recv[j], n.counter)
      BY <2>5 DEF Yields
    <3>2. j \in 1..Len(s2.recv) /\ s2.recv[j] = s.recv[j]
      BY <1>14
    <3> QED BY <3>1, <3>2 DEF Opens, Yields
  <2> QED BY <2>3, <2>4, <2>5 DEF Opens
<1>22. Readable(p, s2, M, U2)
  BY <1>19, <1>20, <1>21 DEF Readable, Whose
<1>23. \E k \in 1..Len(s2.recv) : \E x : s2.root = Append(s2.recv[k].chain, x)
  <2>1. s2.root = Append(s2.recv[h].chain, a)
    BY <1>1, <1>10, <1>17
  <2> HIDE DEF a
  <2> QED BY <1>16, <2>1
<1>24. ASSUME NEW n \in M PROVE n.ratchet # new
  <2>1. MsgOK(n, N, G)
    BY DEF MsgsOK
  <2>2. n.ratchet \in Newest(n.chain) /\ KnownIn(Newest(n.chain), N)
    BY <2>1 DEF MsgOK
  <2> QED BY <2>2, NewKeyUnknown
<1>25. \E n \in M : n.to = p /\ n.chain[1] = s2.root[1]
  BY <1>5
<1> QED BY <1>1, <1>22, <1>23, <1>24, <1>25, NoPendingBase DEF Good, Begun

-----------------------------------------------------------------------------
(* The answer to a message                                                 *)

(* The receiver chain get_or_create_chain_key gives for m.                 *)
ChainFor(s, m, l) ==
  \/ \E k \in 1..Len(s.recv) : l = s.recv[k] /\ l.ratchet = m.ratchet
  \/ /\ \A k \in 1..Len(s.recv) : s.recv[k].ratchet # m.ratchet
     /\ l = EmptyLink(m.ratchet, CreateChain(s.root, m.ratchet, s.ratchet))

CodeWith(s, m, l) ==
  IF Answer(l.index, l.mks, m.counter) # Success THEN Answer(l.index, l.mks, m.counter)
  ELSE IF VerifyMac(s, l.chain, m) THEN Success ELSE Invalid

LEMMA CodeOf ==
  ASSUME NEW s, DOMAIN s = StateFields, IsSeq(s.recv), Len(s.recv) <= MaxReceiverChains,
         HasSenderChain(s), NEW m, NEW new
  PROVE  \E l : ChainFor(s, m, l) /\ DecryptFromState(s, m, new).code = CodeWith(s, m, l)
<1> DEFINE turned == GetOrCreateChainKey(s, m.ratchet, new)
           at     == FindReceiverChain(turned.recv, m.ratchet)
           link   == turned.recv[at]
           answer == Answer(link.index, link.mks, m.counter)
           after  == LinkAfter(link, m.counter)
           d      == DecryptFromState(s, m, new)
           s2     == [turned EXCEPT !.recv[at] = after, !.pending = NoPending]
<1>1. d = IF ~HasSenderChain(s) THEN [code |-> Invalid, state |-> s]
          ELSE IF answer # Success THEN [code |-> answer, state |-> s]
          ELSE IF ~VerifyMac(s, link.chain, m) THEN [code |-> Invalid, state |-> s]
          ELSE [code |-> Success, state |-> s2]
  BY DEF DecryptFromState, LinkAfter
<1> HIDE DEF d, s2, answer, turned, at, link, after
<1>2. d.code = CodeWith(s, m, link)
  BY <1>1 DEF CodeWith, answer
<1>3. ChainFor(s, m, link)
  <2>1. CASE FindReceiverChain(s.recv, m.ratchet) # 0
    <3>1. turned = s
      BY <2>1 DEF turned, GetOrCreateChainKey
    <3>2. at \in 1..Len(s.recv) /\ s.recv[at].ratchet = m.ratchet
      BY <2>1, <3>1, FindChain DEF at
    <3>3. link = s.recv[at]
      BY <3>1 DEF link
    <3> QED BY <3>2, <3>3 DEF ChainFor
  <2>2. CASE FindReceiverChain(s.recv, m.ratchet) = 0
    <3> DEFINE rcv == CreateChain(s.root, m.ratchet, s.ratchet)
               snd == CreateChain(rcv, m.ratchet, new)
               recv == AddReceiverChain(s.recv, m.ratchet, rcv)
               n == EmptyLink(m.ratchet, rcv)
    <3>1. turned = [s EXCEPT !.root = snd, !.ratchet = new, !.chain = snd, !.index = 0, !.recv = recv]
      BY <2>2 DEF turned, GetOrCreateChainKey
    <3> HIDE DEF rcv, snd
    <3>2. AddedTo(s.recv, recv, n)
      BY AddChain
    <3> HIDE DEF recv
    <3>3. turned.recv = recv
      BY <3>1 DEF StateFields
    <3>4. n.ratchet = m.ratchet
      BY DEF EmptyLink
    <3>5. n = EmptyLink(m.ratchet, rcv)
      OBVIOUS
    <3> HIDE DEF n
    <3>6. IsSeq(recv) /\ Len(recv) >= 1 /\ recv[Len(recv)] = n
      BY <3>2 DEF AddedTo
    <3>7. PICK x \in {0, 1} : /\ Len(recv) = Len(s.recv) + 1 - x
                              /\ \A k \in 1..(Len(recv) - 1) : recv[k] = s.recv[k + x]
      BY <3>2 DEF AddedTo
    <3>8. Len(s.recv) \in Nat /\ Len(recv) \in Nat
      BY <3>6, LenNat
    <3>9. \A k \in 1..Len(s.recv) : s.recv[k].ratchet # m.ratchet
      BY <2>2, <3>8, FindChain
    <3>10. \A k \in 1..(Len(recv) - 1) : recv[k].ratchet # m.ratchet
      BY <3>7, <3>8, <3>9, SMTT(30)
    <3>11. recv[Len(recv)].ratchet = m.ratchet /\ Len(recv) \in 1..Len(recv)
      BY <3>4, <3>6, <3>8
    <3>12. at = FindReceiverChain(recv, m.ratchet)
      BY <3>3 DEF at
    <3>13. at \in 1..Len(recv) /\ recv[at].ratchet = m.ratchet
      BY <3>6, <3>11, <3>12, FindChain
    <3>14. at = Len(recv)
      BY <3>8, <3>10, <3>13
    <3>15. link = n
      BY <3>3, <3>6, <3>14 DEF link
    <3> QED BY <3>5, <3>9, <3>15 DEF ChainFor, rcv
  <2> QED BY <2>1, <2>2
<1> QED BY <1>2, <1>3 DEF d

(* A ratchet key belongs to one chain.                                     *)
OneChain(M) == \A m, n \in M : n.ratchet = m.ratchet => n.chain = m.chain

(* m is not too far ahead for state s.                                     *)
Reaches(s, m) ==
  \/ m.counter <= MaxFuture
  \/ \E k \in 1..Len(s.recv) :
       s.recv[k].chain = m.chain /\ m.counter <= s.recv[k].index + MaxFuture

LEMMA LinkOfMessage ==
  ASSUME NEW p, NEW l, NEW M, NEW N, NEW G, MsgsOK(M, N, G), OneChain(M),
         NEW m \in M, m.to = p, Brought(p, l, M)
  PROVE  l.ratchet = m.ratchet <=> l.chain = m.chain
<1>1. MsgOK(m, N, G)
  BY DEF MsgsOK
<1>2. m.ratchet[1] = "ephemeral" /\ Len(m.chain) \in Nat /\ Len(m.chain) >= 2
  BY <1>1, LenNat DEF MsgOK
<1>3. Len(m.chain) # 1
  BY <1>2, TwoNotOne
<1>4. CASE l.ratchet[1] = "signed" /\ Len(l.chain) = 1
  BY <1>2, <1>3, <1>4
<1>5. CASE \E n \in M : n.to = p /\ n.ratchet = l.ratchet /\ n.chain = l.chain
  <2>1. PICK n \in M : n.to = p /\ n.ratchet = l.ratchet /\ n.chain = l.chain
    BY <1>5
  <2>2. MsgOK(n, N, G)
    BY DEF MsgsOK
  <2>3. m.chain = n.chain => m.ratchet = n.ratchet
    BY <1>1, <2>1, <2>2, ChainRatchet
  <2>4. n.ratchet = m.ratchet => n.chain = m.chain
    BY DEF OneChain
  <2> QED BY <2>1, <2>3, <2>4
<1> QED BY <1>4, <1>5 DEF Brought

(* A state that opens every message of its session: no other answer than   *)
(* "invalid" to one of another session, success to its own.                *)
Answers(s, m, code) ==
  /\ code \in {Success, Invalid}
  /\ s.root[1] = m.chain[1] /\ Reaches(s, m) => code = Success

LEMMA StateCode ==
  ASSUME NEW p, NEW s, NEW M, NEW U, NEW N, NEW G, DOMAIN s = StateFields,
         IsSeq(s.root), Len(s.root) >= 1, LinksOK(s.recv, s.root, N), HasSenderChain(s),
         Readable(p, s, M, U), MsgsOK(M, N, G), OneChain(M), NEW m \in M, m \in U,
         m.to = p, m.from = Id1(Peer(p)), m.remote = Id1(p), NEW new
  PROVE  Answers(s, m, DecryptFromState(s, m, new).code)
<1> DEFINE c == m.counter
           code == DecryptFromState(s, m, new).code
<1>1. IsSeq(s.recv) /\ Len(s.recv) <= MaxReceiverChains
  BY DEF LinksOK
<1>2. PICK l : ChainFor(s, m, l) /\ code = CodeWith(s, m, l)
  BY <1>1, CodeOf
<1> HIDE DEF code
<1>3. /\ s.local = m.remote /\ s.remote = m.from
      /\ \A k \in 1..Len(s.recv) : Brought(p, s.recv[k], M) /\ Len(s.recv[k].chain) < Len(s.root)
      /\ s.root[1] = m.chain[1] => Opens(s, m)
  BY DEF Readable
<1>4. \A k \in 1..Len(s.recv) : s.recv[k].ratchet = m.ratchet <=> s.recv[k].chain = m.chain
  BY <1>3, LinkOfMessage
<1>5. c \in Nat /\ MaxFuture \in Nat
  BY KeyBounds DEF MsgsOK, MsgOK
<1>6. Success # Invalid /\ Success # Duplicate
  BY DEF Success, Invalid, Duplicate
<1>7. CASE \E k \in 1..Len(s.recv) : l = s.recv[k] /\ l.ratchet = m.ratchet
  <2>1. PICK k \in 1..Len(s.recv) : l = s.recv[k] /\ l.ratchet = m.ratchet
    BY <1>7
  <2>2. l.chain = m.chain /\ LinkOK(l, s.root, N)
    BY <1>4, <2>1 DEF LinksOK
  <2>3. s.root[1] = m.chain[1] /\ l.index \in Nat
    BY <2>2 DEF LinkOK, WellKept
  <2>4. Yields(s.recv, m.chain, c)
    <3>1. Len(m.chain) < Len(s.root) /\ Len(s.root) \in Nat /\ Len(m.chain) \in Nat
      BY <1>3, <2>1, <2>2, LenNat DEF LinkOK
    <3>2. ASSUME m.chain = CreateChain(s.root, m.ratchet, s.ratchet) PROVE FALSE
      <4>1. Len(m.chain) = Len(s.root) + 1
        BY <3>2, AppendPath DEF CreateChain, Extends
      <4> QED BY <3>1, <4>1
    <3> QED BY <1>3, <2>3, <3>2 DEF Opens
  <2>5. \A j \in 1..Len(s.recv) : s.recv[j].chain = m.chain => j = k
    BY <2>1, <2>2 DEF LinksOK
  <2>6. LinkYields(l, c)
    BY <2>1, <2>4, <2>5 DEF Yields
  <2>7. VerifyMac(s, l.chain, m)
    BY <1>3, <2>2 DEF VerifyMac
  <2>8. Answer(l.index, l.mks, c) \in {Success, Invalid}
    BY <1>5, <2>3, <2>6 DEF Answer, LinkYields
  <2>9. ASSUME Reaches(s, m) PROVE Answer(l.index, l.mks, c) = Success
    <3>1. c <= l.index + MaxFuture
      BY <1>5, <2>1, <2>3, <2>5, <2>9 DEF Reaches
    <3>2. ~(c - l.index > MaxFuture)
      BY <1>5, <2>3, <3>1
    <3> QED BY <1>5, <2>3, <2>6, <3>2 DEF Answer, LinkYields
  <2> HIDE DEF c
  <2> QED BY <1>2, <2>7, <2>8, <2>9 DEF Answers, CodeWith, c, code
<1>8. CASE /\ \A k \in 1..Len(s.recv) : s.recv[k].ratchet # m.ratchet
           /\ l = EmptyLink(m.ratchet, CreateChain(s.root, m.ratchet, s.ratchet))
  <2>1. l.index = 0 /\ l.mks = <<>> /\ l.chain = CreateChain(s.root, m.ratchet, s.ratchet)
    BY <1>8 DEF EmptyLink
  <2>2. Answer(l.index, l.mks, c) = IF c > MaxFuture THEN Invalid ELSE Success
    BY <1>5, <2>1 DEF Answer
  <2>3. \A k \in 1..Len(s.recv) : s.recv[k].chain # m.chain
    BY <1>4, <1>8
  <2>4. ASSUME s.root[1] = m.chain[1], Reaches(s, m)
        PROVE  Answer(l.index, l.mks, c) = Success /\ VerifyMac(s, l.chain, m)
    <3>1. c <= MaxFuture
      BY <2>3, <2>4 DEF Reaches
    <3>2. Opens(s, m) /\ ~Yields(s.recv, m.chain, m.counter)
      BY <1>3, <2>3, <2>4 DEF Yields
    <3>3. m.chain = l.chain
      BY <2>1, <3>2 DEF Opens
    <3> QED BY <1>3, <1>5, <2>2, <3>1, <3>3 DEF VerifyMac
  <2> HIDE DEF c
  <2> QED BY <1>2, <2>2, <2>4 DEF Answers, CodeWith, c, code
<1> QED BY <1>2, <1>7, <1>8 DEF ChainFor

(* One state that decrypts and none that ends the search before it.        *)
LEMMA RecordDecrypts ==
  ASSUME NEW r, IsSeq(r.prev), NEW m, NEW new,
         \A i \in Slots(r) : DecryptFromState(At(r, i), m, new).code \in {Success, Invalid},
         NEW g \in Slots(r), DecryptFromState(At(r, g), m, new).code = Success
  PROVE  DecryptFromRecord(r, m, new).code = Success
<1> DEFINE try(i) == DecryptFromState(At(r, i), m, new)
           hits == {i \in Slots(r) : try(i).code # Invalid}
           f == CHOOSE i \in hits : \A j \in hits : i <= j
           d == DecryptFromRecord(r, m, new)
           w == [r EXCEPT !.prev = RemoveAt(r.prev, f)]
<1>1. d = IF hits = {} THEN [code |-> Invalid, record |-> r]
          ELSE IF try(f).code # Success THEN [code |-> try(f).code, record |-> r]
          ELSE [code |-> Success,
                record |-> IF f = 0 THEN [r EXCEPT !.cur = try(f).state]
                           ELSE PromoteState(w, try(f).state)]
  BY DEF DecryptFromRecord, At, Slots
<1>2. Success # Invalid
  BY DEF Success, Invalid
<1>3. hits \subseteq Nat
  BY LenNat DEF Slots
<1>4. g \in hits
  BY <1>2
<1> HIDE DEF d, w
<1>5. f \in hits
  <2> HIDE DEF hits
  <2> QED BY <1>3, <1>4, LeastExists
<1> HIDE DEF f
<1>6. try(f).code = Success
  BY <1>2, <1>5
<1> HIDE DEF hits, try
<1> QED BY <1>1, <1>4, <1>6 DEF d

(* The state at the front decrypts.                                        *)
LEMMA FrontDecrypts ==
  ASSUME NEW r, IsSeq(r.prev), NEW m, NEW new,
         DecryptFromState(At(r, 0), m, new).code = Success
  PROVE  DecryptFromRecord(r, m, new).code = Success
<1> DEFINE try(i) == DecryptFromState(At(r, i), m, new)
           hits == {i \in Slots(r) : try(i).code # Invalid}
           f == CHOOSE i \in hits : \A j \in hits : i <= j
           d == DecryptFromRecord(r, m, new)
           w == [r EXCEPT !.prev = RemoveAt(r.prev, f)]
<1>1. d = IF hits = {} THEN [code |-> Invalid, record |-> r]
          ELSE IF try(f).code # Success THEN [code |-> try(f).code, record |-> r]
          ELSE [code |-> Success,
                record |-> IF f = 0 THEN [r EXCEPT !.cur = try(f).state]
                           ELSE PromoteState(w, try(f).state)]
  BY DEF DecryptFromRecord, At, Slots
<1>2. Success # Invalid /\ 0 \in Slots(r)
  BY LenNat DEF Success, Invalid, Slots
<1>3. hits \subseteq Nat
  BY LenNat DEF Slots
<1>4. 0 \in hits
  BY <1>2
<1> HIDE DEF d, w
<1>5. f \in hits /\ \A j \in hits : f <= j
  <2> HIDE DEF hits
  <2> QED BY <1>3, <1>4, LeastExists
<1> HIDE DEF f
<1>6. f = 0
  <2> HIDE DEF hits
  <2> QED BY <1>3, <1>4, <1>5
<1>7. try(f).code = Success
  BY <1>6
<1> HIDE DEF hits, try
<1> QED BY <1>1, <1>4, <1>7 DEF d

-----------------------------------------------------------------------------
(* What the invariants say of the states there are                         *)

LEMMA FirstKeys ==
  ASSUME IVars, resets = 0, NEW p \in Party
  PROVE  /\ gen[p] = 1 /\ Identity(p) = Id1(p) /\ Signed(p) = Sig1(p)
         /\ \A i : OneTime(p, i) = Ot1(p, i)
<1>1. gen[p] \in 1..(1 + resets)
  BY DEF IVars
<1>2. gen[p] = 1
  BY <1>1
<1> QED BY <1>2 DEF Identity, Signed, OneTime, Id1, Sig1, Ot1

(* What is known of a state p holds.                                       *)
HeldOK(p, s) ==
  /\ StateOK(p, s, nk, gen) /\ Alone(s) /\ HasSenderChain(s)
  /\ \A m \in sent : m.chain = s.chain => m.counter < s.index

LEMMA RecordStates ==
  ASSUME NEW p \in Party, NEW r, NEW D, NEW L, Sound(p, r, nk, gen, sent, D, L),
         NEW s \in StatesOf(r)
  PROVE  HeldOK(p, s) /\ End(s) \in EndsOf(r)
<1>1. PICK i \in Slots(r) : s = At(r, i)
  BY DEF StatesOf
<1>2. StateOK(p, s, nk, gen) /\ Alone(s) /\ StateSound(s, sent, D, L)
  BY <1>1 DEF Sound, RecordOK
<1>3. s.ratchet[1] = "ephemeral"
  BY <1>2, StateKeys
<1>4. HasSenderChain(s)
  BY <1>3 DEF HasSenderChain, NoKey
<1> QED BY <1>1, <1>2, <1>4 DEF HeldOK, StateSound, EndsOf

LEMMA OwnStates ==
  ASSUME SessInv, NEW p \in Party, NEW s \in Own(p)
  PROVE  /\ rec[p] # FreshRecord /\ Sound(p, rec[p], nk, gen, sent, DoneWith(p), Live(p))
         /\ s \in StatesOf(rec[p]) /\ HeldOK(p, s) /\ End(s) \in Kept(p)
<1>1. rec[p] # FreshRecord /\ s \in StatesOf(rec[p])
  BY DEF Own
<1>2. Sound(p, rec[p], nk, gen, sent, DoneWith(p), Live(p))
  BY <1>1 DEF SessInv, PartyOK, StoredOK
<1>3. HeldOK(p, s) /\ End(s) \in EndsOf(rec[p])
  BY <1>1, <1>2, RecordStates
<1> QED BY <1>1, <1>2, <1>3 DEF Kept

LEMMA DueStates ==
  ASSUME SessInv, NEW p \in Party, NEW s \in Due(p)
  PROVE  HeldOK(p, s) /\ End(s) \in Coming(p)
<1>1. op[p].stage = "callback" /\ s \in StatesOf(op[p].record)
  BY DEF Due
<1>2. PICK D, L : Sound(p, op[p].record, nk, gen, sent, D, L)
  BY <1>1 DEF SessInv, PartyOK, CallOK, Outcome
<1>3. HeldOK(p, s) /\ End(s) \in EndsOf(op[p].record)
  BY <1>1, <1>2, RecordStates
<1> QED BY <1>1, <1>3 DEF Coming

LEMMA HeldStates ==
  ASSUME SessInv, NEW p \in Party, NEW s \in Held(p)
  PROVE  HeldOK(p, s) /\ End(s) \in Ends(p)
BY OwnStates, DueStates DEF Held, Ends

(* A record has one state of a session.                                    *)
LEMMA OneState ==
  ASSUME NEW p, NEW r, NEW N, NEW G, RecordOK(p, r, N, G), NEW s \in StatesOf(r), NEW t \in StatesOf(r),
         s.root[1] = t.root[1] \/ s.base = t.base
  PROVE  s = t
<1>1. PICK i \in Slots(r) : s = At(r, i)
  BY DEF StatesOf
<1>2. PICK j \in Slots(r) : t = At(r, j)
  BY DEF StatesOf
<1>3. StateOK(p, s, N, G) /\ StateOK(p, t, N, G) /\ (i # j => Beside(s, t))
  BY <1>1, <1>2 DEF RecordOK
<1>4. SecretOK(s.root[1], s.base, N, G) /\ SecretOK(t.root[1], t.base, N, G)
  BY <1>3 DEF StateOK, SenderOK
<1>5. s.base = t.base
  BY <1>4, BaseOfSecret
<1> QED BY <1>1, <1>2, <1>3, <1>5 DEF Beside

(* What the record says to a message that was not committed.               *)
LEMMA OwnAnswers ==
  ASSUME SessInv, DeliverInv, WithinLimits, NEW p \in Party, NEW m \in Undone(p), NEW new,
         NEW s \in Own(p)
  PROVE  /\ DecryptFromState(s, m, new).code \in {Success, Invalid}
         /\ s.root[1] = m.chain[1] => DecryptFromState(s, m, new).code = Success
<1>1. m \in sent /\ m.to = p
  BY DEF Undone
<1>2. MsgsOK(sent, nk, gen) /\ OneChain(sent) /\ m.from = Id1(Peer(p)) /\ m.remote = Id1(p)
  BY <1>1 DEF SessInv, IMsgs, DeliverInv, Letters, OneChain
<1>3. HeldOK(p, s) /\ RecordOK(p, rec[p], nk, gen) /\ rec[p] # FreshRecord /\ s \in StatesOf(rec[p])
  BY OwnStates DEF Sound
<1>4. /\ DOMAIN s = StateFields /\ IsSeq(s.root) /\ Len(s.root) >= 2 /\ Len(s.root) \in Nat
      /\ LinksOK(s.recv, s.root, nk) /\ HasSenderChain(s)
  BY <1>3, LenNat DEF HeldOK, StateOK, SenderOK
<1>5. Readable(p, s, sent, Undone(p))
  BY DEF DeliverInv, Apart, Good
<1>6. Len(s.root) >= 1
  BY <1>4
<1>7. Answers(s, m, DecryptFromState(s, m, new).code)
  BY <1>1, <1>2, <1>4, <1>5, <1>6, StateCode
<1>8. ASSUME s.root[1] = m.chain[1] PROVE Reaches(s, m)
  <2>1. InReach(p, m)
    BY <1>1 DEF WithinLimits
  <2>2. CASE m.counter <= MaxFuture
    BY <2>2 DEF Reaches
  <2>3. CASE \E t \in Own(p) : \E k \in 1..Len(t.recv) :
               t.recv[k].chain = m.chain /\ m.counter <= t.recv[k].index + MaxFuture
    <3>1. PICK t \in Own(p) : \E k \in 1..Len(t.recv) :
               t.recv[k].chain = m.chain /\ m.counter <= t.recv[k].index + MaxFuture
      BY <2>3
    <3>2. t \in StatesOf(rec[p]) /\ StateOK(p, t, nk, gen)
      BY <3>1, OwnStates DEF HeldOK
    <3>3. t.root[1] = m.chain[1]
      BY <3>1, <3>2, StateKeys
    <3>4. t = s
      BY <1>3, <1>8, <3>2, <3>3, OneState
    <3> QED BY <3>1, <3>4 DEF Reaches
  <2> QED BY <2>1, <2>2, <2>3 DEF InReach
<1> QED BY <1>7, <1>8 DEF Answers

(* A session p knows: its messages are decrypted.                          *)
LEMMA KnownDecrypts ==
  ASSUME SessInv, DeliverInv, WithinLimits, NEW p \in Party, NEW m \in Undone(p), NEW new,
         HasSecret(Own(p), m.chain[1])
  PROVE  rec[p] # FreshRecord /\ DecryptFromRecord(rec[p], m, new).code = Success
<1>1. PICK s \in Own(p) : s.root[1] = m.chain[1]
  BY DEF HasSecret
<1>2. rec[p] # FreshRecord /\ IsSeq(rec[p].prev) /\ s \in StatesOf(rec[p])
  BY OwnStates DEF Sound, RecordOK
<1>3. \A i \in Slots(rec[p]) : At(rec[p], i) \in Own(p)
  BY <1>2 DEF Own, StatesOf
<1>4. \A i \in Slots(rec[p]) : DecryptFromState(At(rec[p], i), m, new).code \in {Success, Invalid}
  BY <1>3, OwnAnswers
<1>5. PICK g \in Slots(rec[p]) : s = At(rec[p], g)
  BY <1>2 DEF StatesOf
<1>6. DecryptFromState(At(rec[p], g), m, new).code = Success
  BY <1>1, <1>5, OwnAnswers
<1> QED BY <1>2, <1>4, <1>6, RecordDecrypts

LEMMA KnownBase ==
  ASSUME SessInv, NEW p \in Party, NEW b, b # NoKey
  PROVE  HasSessionState(rec[p], b) <=> HasBaseKey(Own(p), b)
<1>1. CASE rec[p] = FreshRecord
  <2>1. Own(p) = {}
    BY <1>1 DEF Own
  <2>2. States(rec[p]) = {EmptyState} /\ EmptyState.base = NoKey
    BY <1>1 DEF States, FreshRecord, EmptyState
  <2> QED BY <2>1, <2>2 DEF HasSessionState, HasBaseKey
<1>2. CASE rec[p] # FreshRecord
  <2>1. IsSeq(rec[p].prev)
    BY <1>2 DEF SessInv, PartyOK, StoredOK, Sound, RecordOK
  <2>2. \A s : s \in States(rec[p]) <=> s \in StatesOf(rec[p])
    BY <2>1, SlotsStates, StatesSlots DEF StatesOf
  <2>3. Own(p) = StatesOf(rec[p])
    BY <1>2 DEF Own
  <2> QED BY <2>2, <2>3 DEF HasSessionState, HasBaseKey
<1> QED BY <1>1, <1>2

(* Both parties compute the same secret.                                   *)
LEMMA SameSecret ==
  ASSUME NEW id, NEW signed, NEW ot, NEW their, NEW base
  PROVE  BobSecret(id, signed, ot, their, base) = AliceSecret(their, base, id, signed, ot)
<1>1. /\ Agreement(their, signed) = Agreement(signed, their)
      /\ Agreement(base, id) = Agreement(id, base)
      /\ Agreement(base, signed) = Agreement(signed, base)
      /\ Agreement(base, ot) = Agreement(ot, base)
  BY DEF Agreement
<1> QED BY <1>1 DEF BobSecret, AliceSecret

(* The base key of a pre-key message is the one of its chain.              *)
LEMMA MessageBase ==
  ASSUME NEW m, NEW N, NEW G, MsgOK(m, N, G), m.base # NoKey
  PROVE  SecretOK(m.chain[1], m.base, N, G)
BY DEF MsgOK

(* What session_builder_process_pre_key_signal_message makes for m.        *)
BobNew(p, b, m) ==
  /\ DOMAIN b = StateFields /\ b.base = m.base
  /\ b.local = Id1(p) /\ b.remote = Id1(Peer(p)) /\ b.recv = <<>>
  /\ b.ratchet = Sig1(p) /\ HasSenderChain(b)
  /\ b.root = DerivedKeys(m.chain[1]) /\ IsSeq(b.root) /\ Len(b.root) = 1
  /\ b.root[1] = m.chain[1]
  /\ m.chain = CreateChain(b.root, m.ratchet, b.ratchet)

LEMMA BobMade ==
  ASSUME IVars, resets = 0, Letters, NEW p \in Party, NEW m \in sent, m.to = p, m.base # NoKey,
         NEW b, b = BobState(Identity(p), Signed(p), OneTime(p, m.oneTime), m.from, m.base)
  PROVE  BobNew(p, b, m)
<1> DEFINE z == Secret1(Peer(p), m.base, p, m.oneTime)
           y == BobSecret(Id1(p), Sig1(p), Ot1(p, m.oneTime), Id1(Peer(p)), m.base)
<1>1. /\ m.from = Id1(Peer(p))
      /\ m.chain = CreateChain(DerivedKeys(z), m.ratchet, Sig1(p))
  BY DEF Letters
<1>2. b = BobState(Id1(p), Sig1(p), Ot1(p, m.oneTime), Id1(Peer(p)), m.base)
  BY <1>1, FirstKeys
<1>3. y = z
  BY SameSecret DEF Secret1
<1>4. /\ DOMAIN b = StateFields /\ b.base = m.base
      /\ b.local = Id1(p) /\ b.remote = Id1(Peer(p)) /\ b.recv = <<>>
      /\ b.ratchet = Sig1(p) /\ b.root = DerivedKeys(y)
  BY <1>2 DEF BobState, EmptyState, StateFields
<1> HIDE DEF y, z
<1>5. IsSeq(b.root) /\ Len(b.root) = 1 /\ b.root[1] = z
  BY <1>3, <1>4, OnePath
<1>6. m.chain[1] = z
  BY <1>1, <1>3, <1>4, <1>5, AppendPath DEF CreateChain, Extends
<1>7. HasSenderChain(b)
  BY <1>4 DEF HasSenderChain, Sig1, Key, NoKey
<1> QED BY <1>1, <1>3, <1>4, <1>5, <1>6, <1>7 DEF BobNew

(* A session the message begins: it is decrypted.                          *)
LEMMA FirstDecrypts ==
  ASSUME SessInv, DeliverInv, WithinLimits, NEW p \in Party, NEW m \in Undone(p), NEW new,
         m.base # NoKey, ~HasSessionState(rec[p], m.base)
  PROVE  DecryptFromRecord(BuiltRecord(p, m), m, new).code = Success
<1> DEFINE b == BobState(Identity(p), Signed(p), OneTime(p, m.oneTime), m.from, m.base)
           r1 == BuiltRecord(p, m)
<1>1. m \in sent /\ m.to = p
  BY DEF Undone
<1>2. IVars /\ resets = 0 /\ Letters /\ MsgsOK(sent, nk, gen)
  BY DEF SessInv, IMsgs, DeliverInv, WithinLimits
<1>3. OneChain(sent) /\ m.from = Id1(Peer(p)) /\ m.remote = Id1(p)
  BY <1>1, <1>2 DEF Letters, OneChain
<1>4. BobNew(p, b, m)
  BY <1>1, <1>2, BobMade
<1>5. r1 = WithNew(rec[p], b)
  BY DEF BuiltRecord, WithNew
<1> HIDE DEF b, r1
<1>6. rec[p] = FreshRecord \/ IsSeq(rec[p].prev)
  BY DEF SessInv, PartyOK, StoredOK, Sound, RecordOK
<1>7. BuiltFrom(rec[p], r1, b)
  BY <1>5, <1>6, BuiltSlots
<1>8. IsSeq(r1.prev) /\ At(r1, 0) = b
  BY <1>7 DEF BuiltFrom
<1>9. LinksOK(b.recv, b.root, nk) /\ Len(b.recv) = 0
  BY <1>4, NoLinks DEF BobNew
<1>10. Readable(p, b, sent, {m})
  <2>1. /\ b.local = Id1(p) /\ b.remote = Id1(Peer(p))
        /\ m.chain = CreateChain(b.root, m.ratchet, b.ratchet)
    BY <1>4 DEF BobNew
  <2>2. \A k \in 1..Len(b.recv) : FALSE
    BY <1>9
  <2> QED BY <2>1, <2>2 DEF Readable, Opens
<1>11. Answers(b, m, DecryptFromState(b, m, new).code)
  <2>1. DOMAIN b = StateFields /\ IsSeq(b.root) /\ Len(b.root) = 1 /\ HasSenderChain(b)
    BY <1>4 DEF BobNew
  <2>2. Len(b.root) >= 1
    BY <2>1
  <2> QED BY <1>1, <1>2, <1>3, <1>9, <1>10, <2>1, <2>2, StateCode
<1>12. m.counter <= MaxFuture
  <2>1. InReach(p, m)
    BY <1>1 DEF WithinLimits
  <2>2. ASSUME NEW t \in Own(p), NEW k \in 1..Len(t.recv), t.recv[k].chain = m.chain PROVE FALSE
    <3>1. StateOK(p, t, nk, gen)
      BY OwnStates DEF HeldOK
    <3>2. t.root[1] = m.chain[1] /\ SecretOK(t.root[1], t.base, nk, gen)
      BY <2>2, <3>1, StateKeys
    <3>3. SecretOK(m.chain[1], m.base, nk, gen)
      BY <1>1, <1>2, MessageBase DEF MsgsOK
    <3>4. t.base = m.base
      BY <3>2, <3>3, BaseOfSecret
    <3>5. HasBaseKey(Own(p), m.base)
      BY <3>4 DEF HasBaseKey
    <3> QED BY <3>5, KnownBase
  <2> QED BY <2>1, <2>2 DEF InReach
<1>13. b.root[1] = m.chain[1] /\ Reaches(b, m)
  BY <1>4, <1>12 DEF BobNew, Reaches
<1>14. DecryptFromState(At(r1, 0), m, new).code = Success
  BY <1>8, <1>11, <1>13 DEF Answers
<1> QED BY <1>8, <1>14, FrontDecrypts DEF r1

(* The state with the base key of m is of the session of m.                *)
LEMMA SecretOfBase ==
  ASSUME SessInv, StepInv, NEW p \in Party, NEW m \in sent, m.base # NoKey,
         NEW s \in Held(p), s.base = m.base
  PROVE  s.root[1] = m.chain[1]
<1>1. StateOK(p, s, nk, gen) /\ End(s) \in Ends(p)
  BY HeldStates DEF HeldOK
<1>2. SecretOK(s.root[1], s.base, nk, gen)
  BY <1>1, StateKeys
<1>3. SecretOK(m.chain[1], m.base, nk, gen)
  BY MessageBase DEF SessInv, IMsgs, MsgsOK
<1>4. HasBase(s.root[1], m.base) /\ HasBase(m.chain[1], m.base)
  BY <1>2, <1>3, SecretBase
<1>5. s.root[1] \in Secrets /\ m.chain[1] \in Secrets
  BY <1>1, EndParts, SecretsOfIn, MessageFacts
<1> QED BY <1>4, <1>5 DEF StepInv, OneSecret

LEMMA InvDeliverable ==
  SessInv /\ StepInv /\ DeliverInv /\ WithinLimits => Deliverable
<1> SUFFICES ASSUME SessInv, StepInv, DeliverInv, WithinLimits, NEW p \in Party, NEW m \in sent,
                    m.to = p, accepted[m.id] = 0
             PROVE  Decryptable(p, m)
  BY DEF Deliverable
<1>1. m \in Undone(p)
  BY DEF Undone
<1>2. Letters /\ Apart(p)
  BY DEF DeliverInv
<1> DEFINE new == NewKey(p)
<1>3. CASE m.base = NoKey
  <2>1. PICK n \in sent : n.to # p /\ n.chain[1] = m.chain[1]
    BY <1>2, <1>3 DEF Letters
  <2>2. HasSecret(Own(p), m.chain[1])
    BY <1>2, <2>1 DEF Apart, Keeps, Touched
  <2>3. rec[p] # FreshRecord /\ DecryptFromRecord(rec[p], m, new).code = Success
    BY <1>1, <2>2, KnownDecrypts
  <2> QED BY <1>3, <2>3 DEF Decryptable
<1>4. CASE m.base # NoKey /\ HasSessionState(rec[p], m.base)
  <2>1. PICK s \in Own(p) : s.base = m.base
    BY <1>4, KnownBase DEF HasBaseKey
  <2>2. s.root[1] = m.chain[1]
    BY <1>4, <2>1, SecretOfBase DEF Held
  <2>3. HasSecret(Own(p), m.chain[1])
    BY <2>1, <2>2 DEF HasSecret
  <2>4. DecryptFromRecord(rec[p], m, new).code = Success
    BY <1>1, <2>3, KnownDecrypts
  <2>5. BuiltRecord(p, m) = rec[p]
    BY <1>4 DEF BuiltRecord
  <2>6. BuilderAccepts(p, m)
    BY <1>2, <1>4 DEF BuilderAccepts, Trusts, Letters, Apart
  <2> QED BY <1>4, <2>4, <2>5, <2>6 DEF Decryptable
<1>5. CASE m.base # NoKey /\ ~HasSessionState(rec[p], m.base)
  <2>1. DecryptFromRecord(BuiltRecord(p, m), m, new).code = Success
    BY <1>1, <1>5, FirstDecrypts
  <2>2. m.oneTime \in PreKeyIds \union {0}
    BY <1>2, <1>5 DEF Letters
  <2>3. m.oneTime \in opks[p] \union {0}
    <3>1. CASE m.oneTime = LastResort
      BY <1>2, <3>1 DEF Apart, Supply
    <3>2. CASE m.oneTime \in 1..NumOneTime
      <4>1. Offered(p, m.oneTime, m.base)
        BY <1>5 DEF Offered
      <4>2. ~HasBaseKey(Own(p), m.base)
        BY <1>5, KnownBase
      <4> QED BY <1>2, <3>2, <4>1, <4>2 DEF Apart, Supply
    <3> QED BY <2>2, <3>1, <3>2 DEF PreKeyIds
  <2>4. BuilderAccepts(p, m)
    BY <1>2, <2>3 DEF BuilderAccepts, Trusts, Letters, Apart
  <2> QED BY <1>5, <2>1, <2>4 DEF Decryptable
<1> QED BY <1>3, <1>4, <1>5

-----------------------------------------------------------------------------
(* The steps keep every message deliverable                                *)

LEMMA GoodFewer ==
  ASSUME NEW p, NEW s, NEW M, NEW U, NEW U2, Good(p, s, M, U), U2 \subseteq U
  PROVE  Good(p, s, M, U2)
<1>1. Readable(p, s, M, U2)
  BY DEF Good, Readable
<1> QED BY <1>1 DEF Good

LEMMA LettersStay ==
  ASSUME Letters, sent' = sent
  PROVE  Letters'
BY DEF Letters

(* Offers only come from messages and from states of the peer that wait    *)
(* for an answer.                                                          *)
LEMMA OfferedBefore ==
  ASSUME NEW p, sent' = sent,
         \A s \in Held(Peer(p))' : s.pending.base # NoKey => s \in Held(Peer(p)),
         NEW i, NEW b, Offered(p, i, b)'
  PROVE  Offered(p, i, b)
BY DEF Offered

LEMMA DeliverInit == Init => DeliverInv
<1> SUFFICES ASSUME Init PROVE DeliverInv
  OBVIOUS
<1>1. sent = {} /\ \A p \in Party : rec[p] = FreshRecord /\ op[p].stage = "idle"
  BY NoOpShape DEF Init
<1>2. Letters
  BY <1>1 DEF Letters
<1>3. \A p \in Party : Own(p) = {} /\ Due(p) = {} /\ Held(p) = {}
  BY <1>1 DEF Own, Due, Held
<1>4. ASSUME NEW p \in Party PROVE Apart(p)
  <2>1. \A i, b : ~Offered(p, i, b)
    BY <1>1, <1>3, PeerIsOther DEF Offered
  <2>2. Keeps(p)
    BY <1>1 DEF Keeps, Touched
  <2>3. opks[p] = PreKeyIds /\ server[p] = 1..NumOneTime /\ trusted[p] = NoKey
    BY DEF Init
  <2>4. Supply(p)
    <3>1. 1..NumOneTime \subseteq PreKeyIds /\ (LastResort # 0 => LastResort \in PreKeyIds)
      BY SessionBounds DEF PreKeyIds
    <3> QED BY <1>1, <2>1, <2>3, <3>1 DEF Supply
  <2> QED BY <1>3, <2>2, <2>3, <2>4 DEF Apart
<1>5. DOMAIN trusted = Party
  BY DEF Init
<1> QED BY <1>2, <1>4, <1>5 DEF DeliverInv

(* Steps that store no record and begin no call.                           *)
LEMMA CalmStep ==
  ASSUME SessInv, DeliverInv, rec' = rec, sent' = sent, accepted' = accepted, server' = server,
         DOMAIN trusted' = Party,
         \A q \in Party :
           /\ op'[q] = op[q] \/ op'[q].stage = "idle"
           /\ trusted'[q] \in {trusted[q], Id1(Peer(q))}
           /\ \/ opks'[q] = opks[q]
              \/ /\ op[q].stage = "remove" /\ op'[q].stage = "idle"
                 /\ opks'[q] = opks[q] \ {op[q].remove}
  PROVE  DeliverInv'
<1>1. Letters'
  BY LettersStay DEF DeliverInv
<1>2. \A q \in Party : Own(q)' = Own(q) /\ (Due(q)' = Due(q) \/ Due(q)' = {})
  BY DEF Own, Due
<1>3. \A q \in Party : Held(q)' \subseteq Held(q)
  BY <1>2 DEF Held
<1>4. ASSUME NEW p \in Party PROVE Apart(p)'
  <2>1. Apart(p)
    BY DEF DeliverInv
  <2>2. op'[p] = op[p] \/ op'[p].stage = "idle"
    OBVIOUS
  <2>3. Undone(p)' = Undone(p)
    BY DEF Undone
  <2>4. \A s \in Own(p)' : Good(p, s, sent', Undone(p)')
    BY <1>2, <2>1, <2>3 DEF Apart
  <2>5. \A s \in Due(p)' : Good(p, s, sent', UndoneThen(p)')
    <3>1. CASE op'[p] = op[p]
      BY <2>1, <2>3, <3>1 DEF Apart, Due, UndoneThen
    <3>2. CASE op'[p].stage = "idle"
      BY <3>2 DEF Due
    <3> QED BY <2>2, <3>1, <3>2
  <2>6. trusted'[p] \in {NoKey, Id1(Peer(p))}
    BY <2>1 DEF Apart
  <2>7. Keeps(p)'
    <3>1. \A z : Touched(p, z)' <=> Touched(p, z)
      BY DEF Touched
    <3>2. op'[p].stage = "callback" => op[p].stage = "callback" /\ Due(p)' = Due(p)
      BY <2>2 DEF Due
    <3> QED BY <1>2, <2>1, <3>1, <3>2 DEF Apart, Keeps
  <2>8. Supply(p)'
    <3>1. \A i, b : Offered(p, i, b)' => Offered(p, i, b)
      BY <1>3, PeerIsOther, OfferedBefore
    <3>2. Supply(p)
      BY <2>1 DEF Apart
    <3>3. CASE opks'[p] = opks[p]
      <4>1. CASE op'[p] = op[p]
        <5>1. Due(p)' = Due(p)
          BY <4>1 DEF Due
        <5> QED BY <1>2, <3>1, <3>2, <3>3, <4>1, <5>1 DEF Supply
      <4>2. CASE op'[p].stage = "idle"
        BY <1>2, <3>1, <3>2, <3>3, <4>2 DEF Supply
      <4> QED BY <2>2, <4>1, <4>2
    <3>4. CASE /\ op[p].stage = "remove" /\ op'[p].stage = "idle"
               /\ opks'[p] = opks[p] \ {op[p].remove}
      <4>1. opks[p] \subseteq PreKeyIds
        BY DEF SessInv, IVars
      <4>2. CASE op[p].remove = 0
        <5>1. opks'[p] = opks[p]
          BY <3>4, <4>1, <4>2 DEF PreKeyIds
        <5> QED BY <1>2, <3>1, <3>2, <3>4, <5>1 DEF Supply
      <4>3. CASE op[p].remove # 0
        <5> DEFINE j == op[p].remove
        <5>1. j \in 1..NumOneTime \ server[p] /\ \A b : Offered(p, j, b) => HasBaseKey(Own(p), b)
          BY <3>2, <3>4, <4>3 DEF Supply
        <5>2. j # LastResort
          BY <5>1, SessionBounds
        <5>3. server'[p] \subseteq opks'[p] /\ (LastResort # 0 => LastResort \in opks'[p])
          BY <3>2, <3>4, <5>1, <5>2 DEF Supply
        <5>4. \A i \in 1..NumOneTime : \A b, c :
                Offered(p, i, b)' /\ Offered(p, i, c)' => b = c /\ i \notin server'[p]
          BY <3>1, <3>2 DEF Supply
        <5>5. ASSUME NEW i \in 1..NumOneTime \ opks'[p], NEW b, Offered(p, i, b)'
              PROVE  HasBaseKey(Own(p)', b)
          <6>1. Offered(p, i, b)
            BY <3>1, <5>5
          <6>2. i = j \/ i \in 1..NumOneTime \ opks[p]
            BY <3>4, <5>5
          <6>3. HasBaseKey(Own(p), b)
            BY <3>2, <5>1, <6>1, <6>2 DEF Supply
          <6> QED BY <1>2, <6>3
        <5> HIDE DEF j
        <5> QED BY <3>4, <5>3, <5>4, <5>5 DEF Supply
      <4> QED BY <4>2, <4>3
    <3> QED BY <3>3, <3>4
  <2> QED BY <2>4, <2>5, <2>6, <2>7, <2>8 DEF Apart
<1> QED BY <1>1, <1>4 DEF DeliverInv

LEMMA CalmActions ==
  ASSUME SessInv, DeliverInv, resets = 0, NEW p \in Party,
         AbortDecrypt(p) \/ RemovePreKey(p) \/ TrustIdentity(p)
  PROVE  DeliverInv'
<1>1. IVars /\ DOMAIN op = Party /\ DOMAIN trusted = Party /\ DOMAIN opks = Party
  BY DEF SessInv, IVars, DeliverInv
<1>2. Peer(p) \in Party
  BY PeerIsOther
<1>3. CASE AbortDecrypt(p)
  <2>1. /\ rec' = rec /\ sent' = sent /\ accepted' = accepted /\ server' = server
        /\ trusted' = trusted /\ opks' = opks /\ op' = [op EXCEPT ![p] = NoOp]
    BY <1>3 DEF AbortDecrypt
  <2>2. \A q \in Party : op'[q] = op[q] \/ op'[q].stage = "idle"
    BY <1>1, <2>1, NoOpShape
  <2> QED BY <1>1, <2>1, <2>2, CalmStep
<1>4. CASE RemovePreKey(p)
  <2>1. /\ rec' = rec /\ sent' = sent /\ accepted' = accepted /\ server' = server
        /\ trusted' = trusted /\ op' = [op EXCEPT ![p] = NoOp] /\ op[p].stage = "remove"
        /\ opks' = opks \/ opks' = [opks EXCEPT ![p] = opks[p] \ {op[p].remove}]
    BY <1>4 DEF RemovePreKey
  <2>2. op'[p].stage = "idle" /\ \A q \in Party : q # p => op'[q] = op[q]
    BY <1>1, <2>1, NoOpShape
  <2>3. \A q \in Party :
           \/ opks'[q] = opks[q]
           \/ q = p /\ opks'[q] = opks[q] \ {op[q].remove}
    BY <1>1, <2>1
  <2>4. \A q \in Party :
           /\ op'[q] = op[q] \/ op'[q].stage = "idle"
           /\ trusted'[q] \in {trusted[q], Id1(Peer(q))}
           /\ \/ opks'[q] = opks[q]
              \/ /\ op[q].stage = "remove" /\ op'[q].stage = "idle"
                 /\ opks'[q] = opks[q] \ {op[q].remove}
    BY <2>1, <2>2, <2>3
  <2> QED BY <1>1, <2>1, <2>4, CalmStep
<1>5. CASE TrustIdentity(p)
  <2>1. /\ rec' = rec /\ sent' = sent /\ accepted' = accepted /\ server' = server
        /\ opks' = opks /\ op' = op /\ trusted' = [trusted EXCEPT ![p] = Identity(Peer(p))]
    BY <1>5 DEF TrustIdentity
  <2>2. Identity(Peer(p)) = Id1(Peer(p))
    BY <1>1, <1>2, FirstKeys
  <2>3. DOMAIN trusted' = Party /\ \A q \in Party : trusted'[q] \in {trusted[q], Id1(Peer(q))}
    BY <1>1, <2>1, <2>2
  <2> QED BY <2>1, <2>3, CalmStep
<1> QED BY <1>3, <1>4, <1>5

(* session_store: what was due is the party's own, and the message is      *)
(* committed.                                                              *)
LEMMA StoreDelivering ==
  ASSUME SessInv, DeliverInv, NEW p \in Party, StoreSession(p)
  PROVE  DeliverInv'
<1> DEFINE o == op[p]
           r == op[p].record
<1>1. /\ o.stage = "callback" /\ rec' = [rec EXCEPT ![p] = r] /\ sent' = sent
      /\ accepted' = [accepted EXCEPT ![o.id] = IF @ = 0 THEN 1 ELSE 2]
      /\ op' = [op EXCEPT ![p] = IF o.remove = 0 THEN NoOp ELSE [o EXCEPT !.stage = "remove"]]
      /\ UNCHANGED <<opks, trusted, server>>
  BY DEF StoreSession
<1>2. /\ DOMAIN rec = Party /\ DOMAIN op = Party /\ accepted \in [1..MaxMsgs -> 0..2]
      /\ used \in 0..MaxMsgs /\ DOMAIN o = {"stage", "record", "id", "remove"}
  BY DEF SessInv, IVars
<1>3. PICK m \in sent : m.id = o.id /\ m.to = p /\ r.cur.root[1] = m.chain[1]
                        /\ RecordOK(p, r, nk, gen)
  BY <1>1 DEF SessInv, PartyOK, CallOK, Outcome, Sound
<1>4. /\ \A n \in sent : n.id \in 1..used
      /\ \A n \in sent : n.id = o.id => n = m
      /\ MsgsOK(sent, nk, gen)
  BY <1>3 DEF SessInv, IMsgs
<1>5. \A n \in sent : n.id \in 1..MaxMsgs
  <2>1. \A i \in 1..used : i \in 1..MaxMsgs
    BY <1>2, SessionBounds
  <2> QED BY <1>4, <2>1
<1>6. /\ accepted'[o.id] > 0
      /\ \A n \in sent : n.id # o.id => accepted'[n.id] = accepted[n.id]
      /\ \A n \in sent : accepted[n.id] \in 0..2
  BY <1>1, <1>2, <1>3, <1>5
<1>7. /\ op'[p].stage = (IF o.remove = 0 THEN "idle" ELSE "remove")
      /\ o.remove # 0 => op'[p].remove = o.remove
      /\ \A q \in Party : q # p => op'[q] = op[q]
  BY <1>1, <1>2, NoOpShape
<1> HIDE DEF o
<1>8. r # FreshRecord
  <2>1. StateOK(p, At(r, 0), nk, gen)
    <3>1. 0 \in Slots(r)
      BY <1>3, LenNat DEF RecordOK, Slots
    <3> QED BY <1>3, <3>1 DEF RecordOK
  <2>2. At(r, 0) = r.cur /\ r.cur.ratchet[1] = "ephemeral"
    BY <2>1, StateKeys DEF At
  <2> QED BY <2>2, EmptyParts DEF FreshRecord, NoKey
<1>9. /\ Own(p)' = Due(p) /\ Due(p)' = {} /\ Held(p)' \subseteq Held(p)
      /\ Due(p) = StatesOf(r)
  BY <1>1, <1>2, <1>7, <1>8 DEF Own, Due, Held, o
<1>10. \A q \in Party : q # p => Own(q)' = Own(q) /\ Due(q)' = Due(q) /\ Held(q)' = Held(q)
  BY <1>1, <1>2, <1>7 DEF Own, Due, Held
<1>11. \A q \in Party : Held(q)' \subseteq Held(q)
  BY <1>9, <1>10
<1>12. \A q \in Party : \A i, b : Offered(q, i, b)' => Offered(q, i, b)
  BY <1>1, <1>11, PeerIsOther, OfferedBefore
<1>13. \A q \in Party : Apart(q) /\ Keeps(q) /\ Supply(q)
  BY DEF DeliverInv, Apart
<1>14. Apart(p)'
  <2>1. Undone(p)' \subseteq UndoneThen(p)
    <3>1. ASSUME NEW n \in sent, n.to = p, accepted'[n.id] = 0
          PROVE  accepted[n.id] = 0 /\ n.id # o.id
      BY <1>6, <3>1
    <3> QED BY <1>1, <3>1 DEF Undone, UndoneThen, o
  <2>2. \A s \in Own(p)' : Good(p, s, sent', Undone(p)')
    BY <1>1, <1>9, <1>13, <2>1, GoodFewer DEF Apart
  <2>3. Keeps(p)'
    <3>1. ASSUME NEW z, Touched(p, z)' PROVE HasSecret(Due(p), z)
      <4>1. PICK n \in sent : n.chain[1] = z /\ (n.to # p \/ accepted'[n.id] > 0)
        BY <1>1, <3>1 DEF Touched
      <4>2. CASE n.id = o.id
        <5>1. n = m /\ r.cur \in StatesOf(r)
          BY <1>3, <1>4, <4>2, LenNat DEF StatesOf, Slots, At, RecordOK
        <5> QED BY <1>3, <1>9, <4>1, <5>1 DEF HasSecret
      <4>3. CASE n.id # o.id
        <5>1. Touched(p, z)
          BY <1>6, <4>1, <4>3 DEF Touched
        <5> QED BY <1>1, <1>13, <5>1 DEF Keeps, o
      <4> QED BY <4>2, <4>3
    <3>2. op'[p].stage # "callback"
      BY <1>7
    <3> QED BY <1>9, <3>1, <3>2 DEF Keeps
  <2>4. Supply(p)'
    <3>1. /\ server'[p] \subseteq opks'[p]
          /\ LastResort # 0 => LastResort \in opks'[p]
          /\ \A i \in 1..NumOneTime : \A b, c :
               Offered(p, i, b)' /\ Offered(p, i, c)' => b = c /\ i \notin server'[p]
      BY <1>1, <1>12, <1>13 DEF Supply
    <3>2. \A i \in 1..NumOneTime \ opks'[p] : \A b :
             Offered(p, i, b)' => HasBaseKey(Own(p)', b)
      BY <1>1, <1>9, <1>12, <1>13 DEF Supply, o
    <3>3. op'[p].stage # "idle" /\ op'[p].remove # 0 => op'[p].remove \in 1..NumOneTime \ server'[p]
      BY <1>1, <1>7, <1>13 DEF Supply, o
    <3>4. op'[p].stage # "callback"
      BY <1>7
    <3>5. ASSUME NEW i \in 1..NumOneTime, NEW b,
                 op'[p].stage # "idle", op'[p].remove = i, Offered(p, i, b)'
          PROVE  HasBaseKey(Own(p)', b)
      <4>1. o.remove = i
        BY <1>7, <3>5
      <4> QED BY <1>1, <1>9, <1>12, <1>13, <3>5, <4>1 DEF Supply, o
    <3> QED BY <3>1, <3>2, <3>3, <3>4, <3>5 DEF Supply
  <2> QED BY <1>1, <1>9, <1>13, <2>2, <2>3, <2>4 DEF Apart
<1>15. ASSUME NEW q \in Party, q # p PROVE Apart(q)'
  <2>0. op'[q] = op[q] /\ Own(q)' = Own(q) /\ Due(q)' = Due(q)
    BY <1>7, <1>10, <1>15
  <2>1. Undone(q)' = Undone(q) /\ UndoneThen(q)' = UndoneThen(q)
    <3>1. \A n \in sent : n.to = q => n.id # o.id
      BY <1>3, <1>4, <1>15
    <3>2. Undone(q)' = Undone(q)
      BY <1>1, <1>6, <3>1 DEF Undone
    <3> QED BY <2>0, <3>2 DEF UndoneThen
  <2>2. Keeps(q)'
    <3>1. ASSUME NEW z, Touched(q, z)' PROVE Touched(q, z)
      <4>1. PICK n \in sent : n.chain[1] = z /\ (n.to # q \/ accepted'[n.id] > 0)
        BY <1>1, <3>1 DEF Touched
      <4>2. n.to = q => n.id # o.id
        BY <1>3, <1>4, <1>15
      <4> QED BY <1>6, <4>1, <4>2 DEF Touched
    <3> QED BY <1>13, <2>0, <3>1 DEF Keeps
  <2>3. Supply(q)'
    <3>1. Supply(q) /\ server' = server /\ opks' = opks
      BY <1>1, <1>13
    <3>2. \A i, b : Offered(q, i, b)' => Offered(q, i, b)
      BY <1>12
    <3> QED BY <2>0, <3>1, <3>2 DEF Supply
  <2> QED BY <1>1, <1>13, <2>0, <2>1, <2>2, <2>3 DEF Apart
<1> QED BY <1>1, <1>14, <1>15, LettersStay DEF DeliverInv

-----------------------------------------------------------------------------
(* session_cipher_encrypt                                                  *)

LEMMA AppendSame ==
  ASSUME NEW a, IsSeq(a), NEW b, IsSeq(b), NEW x, NEW y, Append(a, x) = Append(b, y)
  PROVE  a = b
<1>1. PICK X : a \in Seq(X)
  BY DEF IsSeq
<1>2. PICK Y : b \in Seq(Y)
  BY DEF IsSeq
<1> DEFINE Z == X \union Y \union {x, y}
           c == Append(a, x)
           d == Append(b, y)
<1>3. a \in Seq(Z) /\ b \in Seq(Z) /\ x \in Z /\ y \in Z
  BY <1>1, <1>2
<1> HIDE DEF Z
<1>4. Len(c) = Len(a) + 1 /\ Len(d) = Len(b) + 1 /\ Len(a) \in Nat /\ Len(b) \in Nat
  BY <1>3
<1>5. \A i \in 1..Len(a) : c[i] = a[i]
  BY <1>3
<1>6. \A i \in 1..Len(b) : d[i] = b[i]
  BY <1>3
<1>7. c = d
  OBVIOUS
<1> HIDE DEF c, d
<1>8. Len(a) = Len(b)
  BY <1>4, <1>7
<1>9. \A i \in 1..Len(a) : a[i] = b[i]
  BY <1>5, <1>6, <1>7, <1>8
<1> QED BY <1>3, <1>8, <1>9

(* A message that is just sent is opened by every state the peer has of    *)
(* the session: by a turn, or by the chain with which it last turned.      *)
LEMMA FreshOpens ==
  ASSUME SessInv, StepInv, DeliverInv, NEW p \in Party, NEW s \in Own(p), NEW t \in Held(Peer(p)),
         NEW m, m.chain = s.root, m.ratchet = s.ratchet, m.counter = s.index,
         t.root[1] = m.chain[1]
  PROVE  Opens(t, m)
<1> DEFINE q == Peer(p)
<1>1. q \in Party /\ q # p
  BY PeerIsOther
<1>2. HeldOK(p, s) /\ End(s) \in Ends(p)
  BY OwnStates DEF Ends
<1>3. HeldOK(q, t) /\ End(t) \in Ends(q)
  BY <1>1, HeldStates
<1> HIDE DEF q
<1>4. InStep(Ends(p), Ends(q))
  BY <1>1 DEF StepInv
<1>5. OneTurnAhead(s, t) \/ OneTurnAhead(t, s)
  BY <1>2, <1>3, <1>4, EndParts DEF InStep, OneTurnAhead
<1>6. CASE OneTurnAhead(s, t)
  <2>1. m.chain = CreateChain(t.root, m.ratchet, t.ratchet)
    BY <1>6 DEF OneTurnAhead, CreateChain, Agreement
  <2> QED BY <2>1 DEF Opens
<1>7. CASE OneTurnAhead(t, s)
  <2>1. \E U : Good(q, t, sent, U)
    BY <1>1 DEF DeliverInv, Apart, Held, q
  <2>0. PICK k \in 1..Len(t.recv) : \E a : t.root = Append(t.recv[k].chain, a)
    BY <2>1 DEF Good
  <2>2. PICK a : t.root = Append(t.recv[k].chain, a)
    BY <2>0
  <2>3. Brought(q, t.recv[k], sent)
    BY <2>1 DEF Good, Readable
  <2>4. StateOK(p, s, nk, gen) /\ StateOK(q, t, nk, gen)
    BY <1>2, <1>3 DEF HeldOK
  <2>5. IsSeq(s.root) /\ Len(s.root) >= 2 /\ Len(s.root) \in Nat /\ s.chain = s.root /\ s.index \in Nat
    BY <2>4, LenNat DEF StateOK, SenderOK
  <2>6. LinkOK(t.recv[k], t.root, nk)
    BY <2>4 DEF StateOK, LinksOK
  <2>7. IsSeq(t.recv[k].chain) /\ t.recv[k].index \in Nat
    BY <2>6 DEF LinkOK, WellKept
  <2>8. t.root = Append(s.root, Agreement(s.ratchet, t.ratchet))
    BY <1>7 DEF OneTurnAhead, CreateChain
  <2>9. t.recv[k].chain = s.root
    <3> DEFINE c == Agreement(s.ratchet, t.ratchet)
    <3> HIDE DEF c
    <3>1. Append(t.recv[k].chain, a) = Append(s.root, c)
      BY <2>2, <2>8 DEF c
    <3> QED BY <2>5, <2>7, <3>1, AppendSame
  <2>10. PICK n \in sent : n.chain = t.recv[k].chain /\ t.recv[k].index <= n.counter + 1
    <3>1. Len(s.root) # 1
      BY <2>5, TwoNotOne
    <3> QED BY <2>3, <2>9, <3>1 DEF Brought
  <2>11. n.counter < s.index /\ n.counter \in Nat
    <3>1. n.counter \in Nat
      BY DEF SessInv, IMsgs, MsgsOK, MsgOK
    <3> QED BY <1>2, <2>5, <2>9, <2>10, <3>1 DEF HeldOK
  <2>12. LinkYields(t.recv[k], m.counter)
    BY <2>5, <2>7, <2>10, <2>11 DEF LinkYields
  <2> QED BY <2>9, <2>12 DEF Opens, Yields
<1> QED BY <1>5, <1>6, <1>7

(* States that differ in the index of the sender chain only.               *)
Alike(s, t) ==
  /\ t.base = s.base /\ t.local = s.local /\ t.remote = s.remote /\ t.root = s.root
  /\ t.ratchet = s.ratchet /\ t.recv = s.recv /\ t.pending = s.pending

LEMMA GoodAlike ==
  ASSUME NEW p, NEW s, NEW t, NEW M, NEW U, Good(p, s, M, U), Alike(s, t)
  PROVE  Good(p, t, M, U)
<1>1. Readable(p, t, M, U)
  BY DEF Good, Readable, Alike, Opens
<1>2. Begun(p, t)
  BY DEF Good, Begun, Alike
<1> QED BY <1>1, <1>2 DEF Good, Alike

LEMMA AlikeStates ==
  ASSUME NEW r, IsSeq(r.prev), DOMAIN r = {"cur", "prev"}, DOMAIN r.cur = StateFields,
         NEW i, NEW r2, r2 = [r EXCEPT !.cur = [r.cur EXCEPT !.index = i]]
  PROVE  /\ \A t \in StatesOf(r2) : \E s \in StatesOf(r) : Alike(s, t)
         /\ \A s \in StatesOf(r) : \E t \in StatesOf(r2) : Alike(s, t)
<1> DEFINE c == r.cur
           d == [r.cur EXCEPT !.index = i]
<1>1. Alike(c, d)
  BY DEF Alike, StateFields
<1>2. r2.cur = d /\ r2.prev = r.prev
  OBVIOUS
<1> HIDE DEF d
<1>3. Slots(r2) = Slots(r)
  BY <1>2 DEF Slots
<1>4. \A j \in Slots(r) : Alike(At(r, j), At(r2, j))
  <2>1. \A s : Alike(s, s)
    BY DEF Alike
  <2> QED BY <1>1, <1>2, <2>1 DEF At
<1> QED BY <1>3, <1>4 DEF StatesOf

(* One more message, opened when it is for p.                              *)
LEMMA GoodSent ==
  ASSUME NEW p, NEW s, NEW M, NEW U, NEW U2, NEW m, Good(p, s, M, U), U2 \subseteq U \union {m},
         m \in U2 /\ m.chain[1] = s.root[1] => Opens(s, m),
         m.to # p /\ m.ratchet = s.ratchet => m.chain = s.root
  PROVE  Good(p, s, M \union {m}, U2)
<1> DEFINE M2 == M \union {m}
<1>1. \A l : Brought(p, l, M) => Brought(p, l, M2)
  BY DEF Brought
<1>2. Readable(p, s, M2, U2)
  <2> HIDE DEF M2
  <2> QED BY <1>1 DEF Good, Readable
<1>3. \A n \in M2 : n.to # p /\ n.ratchet = s.ratchet => n.chain = s.root
  BY DEF Good
<1>4. s.pending.base = NoKey => \E n \in M2 : n.to = p /\ n.chain[1] = s.root[1]
  BY DEF Good
<1> HIDE DEF M2
<1> SUFFICES Good(p, s, M2, U2)
  BY DEF M2
<1> QED BY <1>2, <1>3, <1>4 DEF Good

(* The step leaves the states of q as they were, but for an index.         *)
OwnAlike(q) ==
  /\ \A t \in Own(q)' : \E s \in Own(q) : Alike(s, t)
  /\ \A s \in Own(q) : \E t \in Own(q)' : Alike(s, t)

LEMMA SameAlike ==
  ASSUME NEW q, Own(q)' = Own(q)
  PROVE  OwnAlike(q)
<1>1. \A s : Alike(s, s)
  BY DEF Alike
<1> QED BY <1>1 DEF OwnAlike

LEMMA EncryptOwn ==
  ASSUME SessInv, NEW p \in Party, Encrypt(p)
  PROVE  /\ rec[p].cur \in Own(p) /\ Due(p) = {}
         /\ \A q \in Party : OwnAlike(q) /\ Due(q)' = Due(q)
<1> DEFINE r == rec[p]
           r2 == rec'[p]
<1>1. /\ HasSenderChain(r.cur) /\ op[p].stage = "idle" /\ op' = op
      /\ rec' = [rec EXCEPT ![p].cur.index = @ + 1]
  BY DEF Encrypt
<1>2. DOMAIN rec = Party
  BY DEF SessInv, IVars
<1>3. r # FreshRecord
  BY <1>1, EmptyParts DEF HasSenderChain, FreshRecord
<1>4. RecordOK(p, r, nk, gen)
  BY <1>3 DEF SessInv, PartyOK, StoredOK, Sound
<1>5. IsSeq(r.prev) /\ DOMAIN r = {"cur", "prev"} /\ 0 \in Slots(r) /\ At(r, 0) = r.cur
  BY <1>4, LenNat DEF RecordOK, Slots, At
<1>6. DOMAIN r.cur = StateFields
  BY <1>4, <1>5 DEF RecordOK, StateOK
<1>7. /\ r2 = [r EXCEPT !.cur = [r.cur EXCEPT !.index = r.cur.index + 1]]
      /\ \A q \in Party : q # p => rec'[q] = rec[q]
  BY <1>1, <1>2
<1>8. r2 # FreshRecord
  <2>1. r2.cur.ratchet = r.cur.ratchet
    BY <1>5, <1>6, <1>7 DEF StateFields
  <2>2. r2.cur.ratchet # NoKey
    BY <1>1, <2>1 DEF HasSenderChain
  <2>3. FreshRecord.cur.ratchet = NoKey
    BY EmptyParts DEF FreshRecord
  <2> HIDE DEF r2
  <2> QED BY <2>2, <2>3
<1>9. r.cur \in StatesOf(r)
  BY <1>5 DEF StatesOf
<1>10. Own(p) = StatesOf(r) /\ Own(p)' = StatesOf(r2)
  BY <1>3, <1>8 DEF Own
<1> HIDE DEF r, r2
<1>11. /\ \A t \in StatesOf(r2) : \E s \in StatesOf(r) : Alike(s, t)
       /\ \A s \in StatesOf(r) : \E t \in StatesOf(r2) : Alike(s, t)
  <2> DEFINE i == r.cur.index + 1
  <2>1. r2 = [r EXCEPT !.cur = [r.cur EXCEPT !.index = i]]
    BY <1>7
  <2> HIDE DEF i
  <2> QED BY <1>5, <1>6, <2>1, AlikeStates
<1>12. OwnAlike(p)
  BY <1>10, <1>11 DEF OwnAlike
<1>13. \A q \in Party : q # p => OwnAlike(q)
  <2>1. \A q \in Party : q # p => Own(q)' = Own(q)
    BY <1>7 DEF Own
  <2> QED BY <2>1, SameAlike
<1>14. \A q \in Party : Due(q)' = Due(q)
  BY <1>1 DEF Due
<1>15. Due(p) = {}
  BY <1>1 DEF Due
<1> QED BY <1>9, <1>10, <1>12, <1>13, <1>14, <1>15 DEF r

LEMMA AlikeHas ==
  ASSUME NEW q, OwnAlike(q)
  PROVE  /\ \A z : HasSecret(Own(q), z) <=> HasSecret(Own(q)', z)
         /\ \A b : HasBaseKey(Own(q), b) <=> HasBaseKey(Own(q)', b)
BY DEF OwnAlike, Alike, HasSecret, HasBaseKey

(* The supply of pre keys when none is taken and no offer is new.          *)
LEMMA SupplyStays ==
  ASSUME NEW q, Supply(q), server'[q] = server[q], opks'[q] = opks[q], op'[q] = op[q],
         \A b : HasBaseKey(Own(q), b) => HasBaseKey(Own(q)', b), Due(q)' = Due(q),
         \A i, b : Offered(q, i, b)' => Offered(q, i, b)
  PROVE  Supply(q)'
<1>1. /\ server'[q] \subseteq opks'[q]
      /\ LastResort # 0 => LastResort \in opks'[q]
      /\ \A i \in 1..NumOneTime : \A b, c :
           Offered(q, i, b)' /\ Offered(q, i, c)' => b = c /\ i \notin server'[q]
      /\ op'[q].stage # "idle" /\ op'[q].remove # 0 => op'[q].remove \in 1..NumOneTime \ server'[q]
  BY DEF Supply
<1>2. \A i \in 1..NumOneTime \ opks'[q] : \A b :
       Offered(q, i, b)' =>
         HasBaseKey(Own(q)', b) /\ (op'[q].stage = "callback" => HasBaseKey(Due(q)', b))
  BY DEF Supply
<1>3. \A i \in 1..NumOneTime : \A b :
       op'[q].stage # "idle" /\ op'[q].remove = i /\ Offered(q, i, b)' =>
         HasBaseKey(IF op'[q].stage = "callback" THEN Due(q)' ELSE Own(q)', b)
  BY DEF Supply
<1> QED BY <1>1, <1>2, <1>3 DEF Supply

(* The advanced chain is stored and the message is not released.           *)
LEMMA UnsentDelivering ==
  ASSUME SessInv, DeliverInv, NEW p \in Party, Encrypt(p), sent' = sent
  PROVE  DeliverInv'
<1>1. accepted' = accepted /\ op' = op /\ UNCHANGED <<opks, trusted, server>>
  BY DEF Encrypt
<1>2. \A q \in Party : OwnAlike(q) /\ Due(q)' = Due(q)
  BY EncryptOwn
<1>3. ASSUME NEW q \in Party PROVE Apart(q)'
  <2>1. Apart(q) /\ Undone(q)' = Undone(q) /\ UndoneThen(q)' = UndoneThen(q)
    BY <1>1 DEF DeliverInv, Undone, UndoneThen
  <2>2. \A t \in Own(q)' : Good(q, t, sent, Undone(q))
    BY <1>2, <2>1, GoodAlike DEF OwnAlike, Apart
  <2>3. Keeps(q)'
    <3>1. \A z : Touched(q, z)' <=> Touched(q, z)
      BY <1>1 DEF Touched
    <3> QED BY <1>1, <1>2, <2>1, <3>1, AlikeHas DEF Keeps, Apart
  <2>4. \A i, b : Offered(q, i, b)' => Offered(q, i, b)
    <3>1. \A t \in Held(Peer(q))' : \E s \in Held(Peer(q)) : Alike(s, t)
      <4>1. \A s : Alike(s, s)
        BY DEF Alike
      <4> QED BY <1>2, <4>1, PeerIsOther DEF Held, OwnAlike
    <3> QED BY <3>1 DEF Offered, Alike
  <2>5. Supply(q)'
    BY <1>1, <1>2, <2>1, <2>4, AlikeHas, SupplyStays DEF Apart
  <2> QED BY <1>1, <1>2, <2>1, <2>2, <2>3, <2>5 DEF Apart
<1> QED BY <1>1, <1>3, LettersStay DEF DeliverInv

(* The message is released.                                                *)
LEMMA SentDelivering ==
  ASSUME SessInv, StepInv, DeliverInv, NEW p \in Party, Encrypt(p),
         sent' = sent \union {MessageOf(p, rec[p].cur)}
  PROVE  DeliverInv'
<1> DEFINE s == rec[p].cur
           m == MessageOf(p, s)
           q == Peer(p)
<1>1. /\ accepted' = accepted /\ op' = op /\ UNCHANGED <<opks, trusted, server>>
      /\ used < MaxMsgs /\ sent' = sent \union {m} /\ op[p].stage = "idle"
  BY DEF Encrypt
<1>2. \A x \in Party : OwnAlike(x) /\ Due(x)' = Due(x)
  BY EncryptOwn
<1>3. s \in Own(p) /\ Due(p) = {}
  BY EncryptOwn
<1>4. q \in Party /\ q # p /\ Peer(q) = p /\ \A x \in Party : x = p \/ x = q
  BY PeerIsOther
<1>5. /\ m.to = q /\ m.id = used + 1 /\ m.base = s.pending.base /\ m.oneTime = s.pending.oneTime
      /\ m.from = s.local /\ m.remote = s.remote
      /\ m.ratchet = s.ratchet /\ m.counter = s.index /\ m.chain = s.chain
  BY DEF MessageOf
<1> HIDE DEF m, q, s
<1>6. /\ HeldOK(p, s) /\ RecordOK(p, rec[p], nk, gen) /\ s \in StatesOf(rec[p])
  BY <1>3, OwnStates DEF Sound
<1>7. /\ s.chain = s.root /\ s.ratchet[2] = p
      /\ s.pending.base \in {NoKey, s.base}
  BY <1>6 DEF HeldOK, StateOK, SenderOK
<1>8. Good(p, s, sent, Undone(p))
  BY <1>3 DEF DeliverInv, Apart
<1>9. m.chain = s.root
  BY <1>5, <1>7
<1>10. accepted[m.id] = 0
  <2>1. /\ used \in 0..MaxMsgs /\ \A i \in 1..MaxMsgs : i > used => accepted[i] = 0
    BY DEF SessInv, IVars
  <2>2. m.id \in 1..MaxMsgs /\ m.id > used
    BY <1>1, <1>5, <2>1, SessionBounds
  <2> QED BY <2>1, <2>2
<1>11. ASSUME NEW x \in Party, NEW t \in Held(x), x = q, t.root[1] = m.chain[1]
       PROVE  Opens(t, m)
  BY <1>3, <1>5, <1>9, <1>11, FreshOpens DEF q
<1>12. ASSUME NEW x \in Party, NEW t \in Held(x), m.to # x, m.ratchet = t.ratchet
       PROVE  m.chain = t.root
  <2>1. x = p
    BY <1>4, <1>5, <1>12
  <2>2. t \in Own(p)
    BY <1>3, <2>1 DEF Held
  <2>3. t \in StatesOf(rec[p])
    BY <2>2, OwnStates
  <2>4. t = s
    <3>1. PICK i \in Slots(rec[p]) : s = At(rec[p], i)
      BY <1>6 DEF StatesOf
    <3>2. PICK j \in Slots(rec[p]) : t = At(rec[p], j)
      BY <2>3 DEF StatesOf
    <3> QED BY <1>5, <1>6, <1>12, <3>1, <3>2 DEF RecordOK, Beside
  <2> QED BY <1>9, <2>4
<1>13. Letters'
  <2>1. Letters
    BY DEF DeliverInv
  <2>2. s.local = Id1(p) /\ s.remote = Id1(q)
    BY <1>8 DEF Good, Readable, q
  <2>3. m.from = Id1(Peer(m.to)) /\ m.remote = Id1(m.to)
    BY <1>4, <1>5, <2>2
  <2>4. m.base = NoKey => \E n \in sent : n.to # m.to /\ n.chain[1] = m.chain[1]
    BY <1>4, <1>5, <1>8, <1>9 DEF Good
  <2>5. m.base # NoKey =>
         /\ m.oneTime \in PreKeyIds \union {0}
         /\ m.chain = CreateChain(DerivedKeys(Secret1(Peer(m.to), m.base, m.to, m.oneTime)),
                                  m.ratchet, Sig1(m.to))
    <3>1. Begun(p, s)
      BY <1>8 DEF Good
    <3>2. ASSUME m.base # NoKey PROVE s.base = m.base /\ s.pending.base # NoKey
      BY <1>5, <1>7, <3>2
    <3> QED BY <1>4, <1>5, <1>9, <3>1, <3>2 DEF Begun, q
  <2>6. ASSUME NEW n \in sent, n.ratchet = m.ratchet PROVE n.chain = m.chain
    <3>1. n.to # p
      BY <1>5, <1>7, <2>6 DEF SessInv, IMsgs, MsgsOK, MsgOK
    <3> QED BY <1>5, <1>8, <1>9, <2>6, <3>1 DEF Good
  <2>7. ASSUME NEW n \in sent'
        PROVE  /\ n.from = Id1(Peer(n.to)) /\ n.remote = Id1(n.to)
               /\ n.base = NoKey => \E o \in sent' : o.to # n.to /\ o.chain[1] = n.chain[1]
               /\ n.base # NoKey =>
                    /\ n.oneTime \in PreKeyIds \union {0}
                    /\ n.chain = CreateChain(DerivedKeys(Secret1(Peer(n.to), n.base, n.to, n.oneTime)),
                                             n.ratchet, Sig1(n.to))
               /\ \A o \in sent' : o.ratchet = n.ratchet => o.chain = n.chain
    <3>1. CASE n = m
      BY <1>1, <2>3, <2>4, <2>5, <2>6, <3>1
    <3>2. CASE n \in sent
      BY <1>1, <2>1, <2>6, <3>2 DEF Letters
    <3> QED BY <1>1, <3>1, <3>2
  <2> QED BY <2>7 DEF Letters
<1>14. ASSUME NEW x \in Party PROVE Apart(x)'
  <2>1. Apart(x)
    BY DEF DeliverInv
  <2>2. /\ Undone(x)' \subseteq Undone(x) \union {m} /\ UndoneThen(x)' \subseteq UndoneThen(x) \union {m}
        /\ m \in Undone(x)' => x = q
        /\ UndoneThen(x)' \subseteq Undone(x)'
    BY <1>1, <1>5 DEF Undone, UndoneThen
  <2>3. ASSUME NEW t \in Own(x)' PROVE Good(x, t, sent', Undone(x)')
    <3>1. PICK u \in Own(x) : Alike(u, t)
      BY <1>2 DEF OwnAlike
    <3>2. Good(x, u, sent, Undone(x)) /\ u \in Held(x)
      BY <2>1, <3>1 DEF Apart, Held
    <3>3. m \in Undone(x)' /\ m.chain[1] = u.root[1] => Opens(u, m)
      BY <1>11, <2>2, <3>2
    <3>4. m.to # x /\ m.ratchet = u.ratchet => m.chain = u.root
      BY <1>12, <3>2
    <3>5. Good(x, u, sent \union {m}, Undone(x)')
      BY <2>2, <3>2, <3>3, <3>4, GoodSent
    <3> QED BY <1>1, <3>1, <3>5, GoodAlike
  <2>4. ASSUME NEW u \in Due(x)' PROVE Good(x, u, sent', UndoneThen(x)')
    <3>1. Good(x, u, sent, UndoneThen(x)) /\ u \in Held(x)
      BY <1>2, <2>1 DEF Apart, Held
    <3>2. m \in UndoneThen(x)' /\ m.chain[1] = u.root[1] => Opens(u, m)
      BY <1>11, <2>2, <3>1
    <3>3. m.to # x /\ m.ratchet = u.ratchet => m.chain = u.root
      BY <1>12, <3>1
    <3>4. Good(x, u, sent \union {m}, UndoneThen(x)')
      BY <2>2, <3>1, <3>2, <3>3, GoodSent
    <3> QED BY <1>1, <3>4
  <2>5. Keeps(x)'
    <3>1. ASSUME NEW z, Touched(x, z)', ~Touched(x, z) PROVE x = p /\ z = s.root[1]
      <4>1. PICK n \in sent' : n.chain[1] = z /\ (n.to # x \/ accepted'[n.id] > 0)
        BY <3>1 DEF Touched
      <4>2. n = m
        BY <1>1, <3>1, <4>1 DEF Touched
      <4>3. n.to # x
        BY <1>1, <1>10, <4>1, <4>2
      <4> QED BY <1>4, <1>5, <1>9, <4>1, <4>2, <4>3
    <3>2. HasSecret(Own(p), s.root[1])
      BY <1>3 DEF HasSecret
    <3>3. op[p].stage # "callback"
      BY <1>1
    <3> QED BY <1>1, <1>2, <2>1, <3>1, <3>2, <3>3, AlikeHas DEF Keeps, Apart
  <2>6. ASSUME NEW i, NEW b, Offered(x, i, b)' PROVE Offered(x, i, b)
    <3>1. CASE \E n \in sent' : n.to = x /\ n.base # NoKey /\ n.base = b /\ n.oneTime = i
      <4>1. PICK n \in sent' : n.to = x /\ n.base # NoKey /\ n.base = b /\ n.oneTime = i
        BY <3>1
      <4>2. CASE n \in sent
        BY <4>1, <4>2 DEF Offered
      <4>3. CASE n = m
        <5>1. x = q /\ Peer(x) = p /\ s \in Held(Peer(x))
          BY <1>3, <1>4, <1>5, <4>1, <4>3 DEF Held
        <5>2. s.pending.base # NoKey /\ s.base = b /\ s.pending.oneTime = i
          BY <1>5, <1>7, <4>1, <4>3
        <5> QED BY <5>1, <5>2 DEF Offered
      <4> QED BY <1>1, <4>2, <4>3
    <3>2. CASE \E t \in Held(Peer(x))' : t.pending.base # NoKey /\ t.base = b /\ t.pending.oneTime = i
      <4>1. PICK t \in Held(Peer(x))' : t.pending.base # NoKey /\ t.base = b /\ t.pending.oneTime = i
        BY <3>2
      <4>2. PICK u \in Held(Peer(x)) : Alike(u, t)
        <5>1. Alike(t, t)
          BY DEF Alike
        <5> QED BY <1>2, <5>1, PeerIsOther DEF Held, OwnAlike
      <4> QED BY <4>1, <4>2 DEF Offered, Alike
    <3> QED BY <2>6, <3>1, <3>2 DEF Offered
  <2>7. Supply(x)'
    BY <1>1, <1>2, <2>1, <2>6, AlikeHas, SupplyStays DEF Apart
  <2> QED BY <1>1, <2>1, <2>3, <2>4, <2>5, <2>7 DEF Apart
<1> QED BY <1>1, <1>13, <1>14 DEF DeliverInv

-----------------------------------------------------------------------------
(* session_builder_process_pre_key_bundle                                  *)

(* The state it makes with pre key i.                                      *)
AliceNew(p, a, z, base, ratchet, i) ==
  /\ AliceReady(a, z, base, Sig1(Peer(p)), ratchet) /\ z = Secret1(p, base, Peer(p), i)
  /\ i \in PreKeyIds \union {0} /\ a.local = Id1(p) /\ a.remote = Id1(Peer(p))
  /\ a.pending.oneTime = i /\ base # NoKey

(* No message is of the new session.                                       *)
Unheard(M, z, ratchet) == \A n \in M : n.chain[1] # z /\ n.ratchet # ratchet

LEMMA AliceGood ==
  ASSUME NEW p \in Party, NEW a, NEW z, NEW base, NEW ratchet, NEW i, NEW M, NEW U,
         AliceNew(p, a, z, base, ratchet, i), U \subseteq M, Unheard(M, z, ratchet)
  PROVE  Good(p, a, M, U)
<1> DEFINE signed == Sig1(Peer(p))
           d == DerivedKeys(z)
           l == EmptyLink(signed, d)
           c == {signed, ratchet}
           recv == a.recv
<1>0. /\ AliceReady(a, z, base, signed, ratchet) /\ z = Secret1(p, base, Peer(p), i)
      /\ i \in PreKeyIds \union {0} /\ a.local = Id1(p) /\ a.remote = Id1(Peer(p))
      /\ a.pending.oneTime = i /\ base # NoKey
      /\ \A n \in M : n.chain[1] # z /\ n.ratchet # ratchet
  BY DEF AliceNew, Unheard
<1>1. /\ a.base = base /\ a.ratchet = ratchet /\ a.root = Append(d, c)
      /\ recv = AddReceiverChain(<<>>, signed, d) /\ a.pending.base = base
  BY <1>0 DEF AliceReady
<1>2. IsSeq(d) /\ Len(d) = 1 /\ d[1] = z
  BY OnePath
<1>3. signed[1] = "signed"
  BY DEF Sig1, Key
<1> HIDE DEF d, signed
<1>4. Len(a.root) = 2 /\ a.root[1] = z
  <2>1. Extends(d, a.root, c)
    <3>1. Len(d) >= 1
      BY <1>2
    <3> HIDE DEF c
    <3> QED BY <1>1, <1>2, <3>1, AppendPath
  <2> QED BY <1>2, <2>1 DEF Extends
<1>5. AddedTo(<<>>, recv, l)
  <2>1. LinksOK(<<>>, d, [x \in {} |-> 0])
    BY NoLinks
  <2>2. IsSeq(<<>>) /\ Len(<<>>) <= MaxReceiverChains
    BY <2>1 DEF LinksOK
  <2> QED BY <1>1, <2>2, AddChain
<1>6. l.ratchet = signed /\ l.chain = d
  BY DEF EmptyLink
<1> HIDE DEF l, recv
<1>7. IsSeq(recv) /\ Len(recv) = 1 /\ recv[1] = l
  <2>1. PICK x \in {0, 1} : Len(recv) = Len(<<>>) + 1 - x
    BY <1>5 DEF AddedTo
  <2>2. Len(<<>>) = 0 /\ Len(recv) >= 1
    BY <1>5 DEF AddedTo
  <2>3. Len(recv) = 1
    BY <2>1, <2>2
  <2> QED BY <1>5, <2>3 DEF AddedTo
<1>8. \A k \in 1..Len(recv) : recv[k] = l
  BY <1>7
<1>9. Brought(p, l, M) /\ Len(l.chain) < Len(a.root)
  <2>1. l.ratchet[1] = "signed"
    BY <1>3, <1>6
  <2>2. Len(l.chain) = 1
    BY <1>2, <1>6
  <2>3. Len(l.chain) < Len(a.root)
    BY <1>4, <2>2
  <2> QED BY <2>1, <2>2, <2>3 DEF Brought
<1>10. \A k \in 1..Len(a.recv) : Brought(p, a.recv[k], M) /\ Len(a.recv[k].chain) < Len(a.root)
  BY <1>8, <1>9 DEF recv
<1>11. Readable(p, a, M, U)
  BY <1>0, <1>4, <1>10 DEF Readable
<1>12. \E k \in 1..Len(a.recv) : \E x : a.root = Append(a.recv[k].chain, x)
  <2>1. 1 \in 1..Len(a.recv) /\ a.root = Append(a.recv[1].chain, c)
    BY <1>1, <1>6, <1>7 DEF recv
  <2> HIDE DEF c
  <2> QED BY <2>1
<1>13. Begun(p, a)
  <2>1. a.root = CreateChain(DerivedKeys(Secret1(p, a.base, Peer(p), a.pending.oneTime)),
                             a.ratchet, Sig1(Peer(p)))
    <3>1. c = Agreement(a.ratchet, signed)
      BY <1>1 DEF Agreement
    <3> QED BY <1>0, <1>1, <3>1 DEF CreateChain, d, signed
  <2> QED BY <1>0, <2>1 DEF Begun
<1>14. /\ \A n \in M : n.to # p /\ n.ratchet = a.ratchet => n.chain = a.root
       /\ a.pending.base # NoKey
  BY <1>0, <1>1
<1> QED BY <1>11, <1>12, <1>13, <1>14 DEF Good

(* The new state of p: its session is unheard of.                          *)
NewSession(p, i, a) ==
  /\ Good(p, a, sent, Undone(p))
  /\ a.pending.oneTime = i
  /\ rec'[p] = WithNew(rec[p], a)

LEMMA BundleBuilds ==
  ASSUME SessInv, WithinLimits, NEW p \in Party, NEW i \in Bundles(Peer(p)),
         ProcessPreKeyBundle(p, i)
  PROVE  \E a : NewSession(p, i, a)
<1> DEFINE q == Peer(p)
           base == Ephemeral(p, nk[p] + 1)
           ratchet == Ephemeral(p, nk[p] + 2)
           signed == Signed(q)
           ot == OneTime(q, i)
           a == AliceState(Identity(p), base, ratchet, Identity(q), signed, ot, i)
           z == AliceSecret(Identity(p), base, Identity(q), signed, ot)
           N == [nk EXCEPT ![p] = nk[p] + 2]
<1>1. rec' = [rec EXCEPT ![p] = BundleRecord(p, i)]
  BY DEF ProcessPreKeyBundle
<1>2. IVars /\ IMsgs /\ resets = 0
  BY DEF SessInv, WithinLimits
<1>3. BundleRecord(p, i) = WithNew(rec[p], a)
  BY DEF BundleRecord, WithNew
<1>4. q \in Party /\ q # p
  BY PeerIsOther
<1> HIDE DEF q
<1>5. i \in Nat /\ nk[p] \in Nat /\ i \in PreKeyIds \union {0}
  <2>1. server[q] \subseteq 1..NumOneTime /\ {NumOneTime, LastResort} \subseteq Nat /\ nk[p] \in 0..MaxKeys
    BY <1>2, <1>4, SessionBounds DEF IVars
  <2>2. i \in server[q] \/ i \in {0, LastResort}
    BY DEF Bundles, q
  <2> QED BY <2>1, <2>2, SessionBounds DEF PreKeyIds
<1>6. /\ base \in Pub /\ base[1] = "ephemeral" /\ base[2] = p /\ base[4] = nk[p] + 1
      /\ ratchet \in Pub /\ ratchet[1] = "ephemeral" /\ ratchet[2] = p /\ ratchet[4] = nk[p] + 2
  <2>1. nk[p] + 1 \in Nat /\ nk[p] + 2 \in Nat
    BY <1>5
  <2> QED BY <1>2, <2>1, KeysMade
<1>7. signed[1] = "signed"
  BY <1>2, <1>4, <1>5, KeysMade
<1>8. ot # NoKey => ot \in Pub /\ ot[1] = "onetime" /\ ot[3] <= gen[ot[2]]
  BY <1>2, <1>4, <1>5, KeysMade
<1>9. AliceReady(a, z, base, signed, ratchet)
  BY AliceShape
<1>10. /\ Identity(p) = Id1(p) /\ Identity(q) = Id1(q) /\ signed = Sig1(q) /\ ot = Ot1(q, i)
  BY <1>2, <1>4, FirstKeys
<1>11. z = Secret1(p, base, q, i)
  BY <1>10 DEF Secret1
<1>12. a.local = Id1(p) /\ a.remote = Id1(q) /\ a.pending.oneTime = i
  BY <1>10 DEF AliceState
<1> HIDE DEF a
<1>13. TwoNewKeys(p, base, ratchet, nk, N)
  <2>1. N[p] = nk[p] + 2 /\ Grows(nk, N)
    BY <1>2, <1>5 DEF IVars, Grows
  <2> QED BY <1>6, <2>1 DEF TwoNewKeys
<1>14. SecretOK(z, base, N, gen)
  <2>1. base[4] <= N[base[2]]
    BY <1>2, <1>5, <1>6 DEF IVars
  <2>2. z = AliceSecret(Identity(p), base, Identity(q), signed, ot)
    OBVIOUS
  <2> HIDE DEF N, z, base, signed, ot
  <2>3. SecretOf(z, base, ot, N, gen)
    BY <1>6, <1>7, <1>8, <2>1, <2>2, AliceSecretOK
  <2> QED BY <2>3 DEF SecretOf
<1> HIDE DEF z, N, base, ratchet, signed, ot
<1>15. ASSUME NEW n \in sent PROVE n.chain[1] # z /\ n.ratchet # ratchet
  <2>1. MsgOK(n, nk, gen)
    BY <1>2 DEF IMsgs, MsgsOK
  <2>2. n.ratchet \in Newest(n.chain) /\ KnownIn(Newest(n.chain), nk)
    BY <2>1 DEF MsgOK
  <2>3. PICK b : SecretOK(n.chain[1], b, nk, gen)
    BY <2>1 DEF MsgOK
  <2>4. b[4] <= nk[b[2]]
    BY <2>3 DEF SecretOK
  <2>5. ~(base[4] <= nk[base[2]])
    BY <1>5, <1>6
  <2>6. n.chain[1] = z => b = base
    BY <1>14, <2>3, BaseOfSecret
  <2> QED BY <1>13, <2>2, <2>4, <2>5, <2>6, NewKeysUnknown
<1>16. base # NoKey
  BY <1>6 DEF NoKey
<1>17. Good(p, a, sent, Undone(p))
  <2>1. Undone(p) \subseteq sent
    BY DEF Undone
  <2>2. /\ AliceReady(a, z, base, Sig1(Peer(p)), ratchet) /\ z = Secret1(p, base, Peer(p), i)
        /\ a.local = Id1(p) /\ a.remote = Id1(Peer(p)) /\ a.pending.oneTime = i
    BY <1>9, <1>10, <1>11, <1>12 DEF q
  <2>3. Unheard(sent, z, ratchet)
    BY <1>15 DEF Unheard
  <2>4. AliceNew(p, a, z, base, ratchet, i)
    BY <1>5, <1>16, <2>2 DEF AliceNew
  <2> QED BY <2>1, <2>3, <2>4, AliceGood
<1>18. rec'[p] = WithNew(rec[p], a)
  BY <1>1, <1>2, <1>3 DEF IVars
<1> QED BY <1>12, <1>17, <1>18 DEF NewSession

LEMMA BundleDelivering ==
  ASSUME SessInv, DeliverInv, WithinLimits, WithinLimits', NEW p \in Party,
         NEW i \in Bundles(Peer(p)), ProcessPreKeyBundle(p, i)
  PROVE  DeliverInv'
<1> DEFINE q == Peer(p)
<1>1. q \in Party /\ q # p /\ Peer(q) = p /\ \A x \in Party : x = p \/ x = q
  BY PeerIsOther
<1>2. PICK a : NewSession(p, i, a)
  BY BundleBuilds
<1>3. /\ op' = op /\ sent' = sent /\ accepted' = accepted /\ opks' = opks
      /\ rec' = [rec EXCEPT ![p] = BundleRecord(p, i)]
      /\ server' = [server EXCEPT ![q] = server[q] \ {i}]
      /\ trusted' = trusted \/ trusted' = [trusted EXCEPT ![p] = Identity(q)]
  BY DEF ProcessPreKeyBundle
<1>4. IVars /\ resets = 0 /\ DOMAIN rec = Party /\ DOMAIN server = Party /\ DOMAIN trusted = Party
  BY DEF SessInv, IVars, WithinLimits, DeliverInv
<1>5. Own(p)' = Own(p) \union {a}
  <2> DEFINE r == rec[p]
             r2 == rec'[p]
  <2>1. r = FreshRecord \/ IsSeq(r.prev)
    BY DEF SessInv, PartyOK, StoredOK, Sound, RecordOK
  <2>2. r2 = WithNew(r, a)
    BY <1>2 DEF NewSession
  <2>3. Len(r2.prev) < MaxArchivedStates
    BY DEF WithinLimits, Roomy
  <2>4. rec'[p] # FreshRecord
    <3>1. BuiltFrom(r, r2, a)
      BY <2>1, <2>2, BuiltSlots
    <3>2. r2.cur = a
      BY <3>1 DEF BuiltFrom, At
    <3>3. a.local = Id1(p)
      BY <1>2 DEF NewSession, Good, Readable
    <3>4. a.local # NoKey
      BY <3>3 DEF Id1, Key, NoKey
    <3>5. FreshRecord.cur.local = NoKey
      BY DEF FreshRecord, EmptyState
    <3> HIDE DEF r2
    <3> QED BY <3>2, <3>4, <3>5 DEF r2
  <2> HIDE DEF r, r2
  <2>5. StatesOf(r2) = (IF r = FreshRecord THEN {} ELSE StatesOf(r)) \union {a}
    BY <2>1, <2>2, <2>3, BuiltAll
  <2> QED BY <2>4, <2>5 DEF Own, r, r2
<1> HIDE DEF q
<1>6. Own(q)' = Own(q) /\ \A x \in Party : Due(x)' = Due(x)
  BY <1>1, <1>3, <1>4 DEF Own, Due
<1>7. Held(p)' = Held(p) \union {a} /\ Held(q)' = Held(q)
  BY <1>1, <1>5, <1>6 DEF Held
<1>8. \A x \in Party : Own(x) \subseteq Own(x)' /\ Apart(x) /\ Supply(x)
  BY <1>1, <1>5, <1>6 DEF DeliverInv, Apart
<1>9. DOMAIN trusted' = Party /\ \A x \in Party : trusted'[x] \in {NoKey, Id1(Peer(x))}
  <2>1. Identity(q) = Id1(q)
    BY <1>1, <1>4, FirstKeys
  <2> QED BY <1>3, <1>4, <1>8, <2>1 DEF Apart, q
<1>10. \A x \in Party : Undone(x)' = Undone(x) /\ UndoneThen(x)' = UndoneThen(x)
  BY <1>3 DEF Undone, UndoneThen
<1>11. \A x \in Party : \A s \in Own(x)' : Good(x, s, sent', Undone(x)')
  BY <1>1, <1>2, <1>3, <1>5, <1>6, <1>8, <1>10 DEF Apart, NewSession
<1>12. \A x \in Party : \A s \in Due(x)' : Good(x, s, sent', UndoneThen(x)')
  BY <1>3, <1>6, <1>8, <1>10 DEF Apart
<1>13. ASSUME NEW x \in Party PROVE Keeps(x)'
  <2>1. \A z : Touched(x, z)' <=> Touched(x, z)
    BY <1>3 DEF Touched
  <2>2. \A z : HasSecret(Own(x), z) => HasSecret(Own(x)', z)
    BY <1>8 DEF HasSecret
  <2> QED BY <1>3, <1>6, <1>8, <2>1, <2>2 DEF Keeps, Apart
<1>14. \A x \in Party : \A b : HasBaseKey(Own(x), b) => HasBaseKey(Own(x)', b)
  BY <1>8 DEF HasBaseKey
<1>15. Supply(p)'
  <2>1. \A j, b : Offered(p, j, b)' => Offered(p, j, b)
    BY <1>3, <1>7, OfferedBefore DEF q
  <2>2. server'[p] = server[p]
    BY <1>1, <1>3, <1>4
  <2> QED BY <1>3, <1>6, <1>8, <1>14, <2>1, <2>2, SupplyStays
<1>16. Supply(q)'
  <2>1. ASSUME NEW j, NEW b, Offered(q, j, b)', ~Offered(q, j, b)
        PROVE  j = i /\ b = a.base
    BY <1>1, <1>2, <1>3, <1>7, <2>1 DEF Offered, NewSession
  <2>2. i \in server[q] \/ i \notin 1..NumOneTime
    BY SessionBounds DEF Bundles, q
  <2>3. server'[q] = server[q] \ {i} /\ opks'[q] = opks[q] /\ op'[q] = op[q]
    BY <1>1, <1>3, <1>4
  <2>4. Supply(q)
    BY <1>1, <1>8
  <2>5. server'[q] \subseteq opks'[q] /\ (LastResort # 0 => LastResort \in opks'[q])
    BY <2>3, <2>4 DEF Supply
  <2>6. \A j \in 1..NumOneTime : \A b : Offered(q, j, b) => j # i /\ j \notin server[q]
    BY <2>2, <2>4 DEF Supply
  <2>7. \A j \in 1..NumOneTime : \A b, c :
          Offered(q, j, b)' /\ Offered(q, j, c)' => b = c /\ j \notin server'[q]
    <3>1. ASSUME NEW j \in 1..NumOneTime, NEW b, NEW c, Offered(q, j, b)', Offered(q, j, c)'
          PROVE  b = c /\ j \notin server'[q]
      <4>1. CASE Offered(q, j, b)
        <5>1. j # i
          BY <2>6, <4>1
        <5>2. Offered(q, j, c)
          BY <2>1, <3>1, <5>1
        <5> QED BY <2>3, <2>4, <4>1, <5>2 DEF Supply
      <4>2. CASE ~Offered(q, j, b)
        <5>1. j = i /\ b = a.base
          BY <2>1, <3>1, <4>2
        <5>2. ~Offered(q, j, c)
          BY <2>6, <5>1
        <5>3. c = a.base
          BY <2>1, <3>1, <5>2
        <5> QED BY <2>3, <5>1, <5>3
      <4> QED BY <4>1, <4>2
    <3> QED BY <3>1
  <2>8. \A j \in 1..NumOneTime \ opks'[q] : \A b : Offered(q, j, b)' => Offered(q, j, b)
    <3>1. i \in server[q] => i \in opks[q]
      BY <2>4 DEF Supply
    <3> QED BY <2>1, <2>2, <2>3, <3>1
  <2>9. op'[q].stage # "idle" /\ op'[q].remove # 0 => op'[q].remove \in 1..NumOneTime \ server'[q]
    BY <2>3, <2>4 DEF Supply
  <2>10. \A j \in 1..NumOneTime : \A b :
           op'[q].stage # "idle" /\ op'[q].remove = j /\ Offered(q, j, b)' => Offered(q, j, b)
    <3>1. ASSUME NEW j \in 1..NumOneTime, op[q].stage # "idle", op[q].remove = j
          PROVE  j # i
      <4>1. j # 0
        OBVIOUS
      <4> QED BY <2>2, <2>4, <3>1, <4>1 DEF Supply
    <3> QED BY <2>1, <2>3, <3>1
  <2>11. \A j \in 1..NumOneTime \ opks'[q] : \A b :
           Offered(q, j, b)' =>
             HasBaseKey(Own(q)', b) /\ (op'[q].stage = "callback" => HasBaseKey(Due(q)', b))
    BY <1>1, <1>6, <2>3, <2>4, <2>8 DEF Supply
  <2>12. \A j \in 1..NumOneTime : \A b :
           op'[q].stage # "idle" /\ op'[q].remove = j /\ Offered(q, j, b)' =>
             HasBaseKey(IF op'[q].stage = "callback" THEN Due(q)' ELSE Own(q)', b)
    BY <1>1, <1>6, <2>3, <2>4, <2>10 DEF Supply
  <2> QED BY <2>5, <2>7, <2>9, <2>11, <2>12 DEF Supply
<1>17. \A x \in Party : Apart(x)'
  <2>1. \A x \in Party : Supply(x)'
    BY <1>1, <1>15, <1>16
  <2> QED BY <1>9, <1>11, <1>12, <1>13, <2>1 DEF Apart
<1> QED BY <1>3, <1>9, <1>17, LettersStay DEF DeliverInv

-----------------------------------------------------------------------------
(* A decrypt call                                                          *)

(* What p has yet to commit once m is committed.                           *)
Rest(p, m) == {n \in Undone(p) : n.id # m.id}

(* The record a decrypt call of p has for m when it gets to the callback   *)
(* has lost nothing and opens all that is left.                            *)
Delivers(p, m, r2) ==
  /\ \A s \in StatesOf(r2) : Good(p, s, sent, Rest(p, m))
  /\ \A s \in StatesOf(r2) : s.pending.base # NoKey => s \in Own(p)
  /\ \A s \in Own(p) : HasSecret(StatesOf(r2), s.root[1]) /\ HasBaseKey(StatesOf(r2), s.base)

(* The pre key the call is to remove is of the session of r2.              *)
Removes(p, r2, rm) ==
  rm # 0 => /\ rm \in 1..NumOneTime \ server[p]
            /\ \A b : Offered(p, rm, b) => HasBaseKey(StatesOf(r2), b)

LEMMA CallDelivering ==
  ASSUME SessInv, DeliverInv, NEW p \in Party, NEW m \in sent, NEW r2, CallsBack(p, m, r2),
         Delivers(p, m, r2), NEW rm, op'[p].remove = rm, Removes(p, r2, rm),
         server' = server, opks' = opks, DOMAIN trusted' = Party,
         \A x \in Party : trusted'[x] \in {trusted[x], Id1(Peer(x))}
  PROVE  DeliverInv'
<1> DEFINE q == Peer(p)
<1>1. q \in Party /\ q # p /\ Peer(q) = p /\ \A x \in Party : x = p \/ x = q
  BY PeerIsOther
<1> HIDE DEF q
<1>2. /\ op[p].stage = "idle" /\ op'[p].stage = "callback" /\ op'[p].record = r2
      /\ op'[p].id = m.id /\ op'[q] = op[q] /\ rec' = rec /\ sent' = sent /\ accepted' = accepted
  BY <1>1 DEF CallsBack
<1>3. \A x \in Party : Own(x)' = Own(x)
  BY <1>2 DEF Own
<1>4. Due(p) = {} /\ Due(p)' = StatesOf(r2) /\ Due(q)' = Due(q)
  BY <1>2 DEF Due
<1>5. Held(q)' = Held(q) /\ Held(p)' = Own(p) \union StatesOf(r2) /\ Held(p) = Own(p)
  BY <1>1, <1>3, <1>4 DEF Held
<1>6. \A x \in Party : Undone(x)' = Undone(x)
  BY <1>2 DEF Undone
<1>7. UndoneThen(p)' = Rest(p, m) /\ UndoneThen(q)' = UndoneThen(q)
  BY <1>1, <1>2, <1>6 DEF UndoneThen, Rest
<1>8. Apart(p) /\ Apart(q)
  BY <1>1 DEF DeliverInv
<1>9. \A x \in Party : trusted'[x] \in {NoKey, Id1(Peer(x))}
  BY DEF DeliverInv, Apart
<1>10. \A x, z : Touched(x, z)' <=> Touched(x, z)
  BY <1>2 DEF Touched
<1>11. Keeps(p)'
  <2>1. \A z : HasSecret(Own(p), z) => HasSecret(StatesOf(r2), z)
    BY DEF Delivers, HasSecret
  <2> QED BY <1>3, <1>4, <1>8, <1>10, <2>1 DEF Keeps, Apart
<1>12. Keeps(q)'
  BY <1>1, <1>2, <1>3, <1>4, <1>8, <1>10 DEF Keeps, Apart
<1>13. \A i, b : Offered(p, i, b)' => Offered(p, i, b)
  BY <1>2, <1>5, OfferedBefore DEF q
<1>14. \A i, b : Offered(q, i, b)' => Offered(q, i, b)
  <2>1. \A s \in Held(p)' : s.pending.base # NoKey => s \in Held(p)
    BY <1>5 DEF Delivers
  <2> QED BY <1>1, <1>2, <2>1, OfferedBefore
<1>15. Supply(q)'
  BY <1>1, <1>2, <1>3, <1>4, <1>8, <1>14, SupplyStays DEF Apart
<1>16. Supply(p)'
  <2>1. Supply(p)
    BY <1>8 DEF Apart
  <2>2. \A b : HasBaseKey(Own(p), b) => HasBaseKey(StatesOf(r2), b)
    BY DEF Delivers, HasBaseKey
  <2>3. server'[p] \subseteq opks'[p] /\ (LastResort # 0 => LastResort \in opks'[p])
    BY <2>1 DEF Supply
  <2>4. \A i \in 1..NumOneTime : \A b, c :
          Offered(p, i, b)' /\ Offered(p, i, c)' => b = c /\ i \notin server'[p]
    BY <1>13, <2>1 DEF Supply
  <2>5. \A i \in 1..NumOneTime \ opks'[p] : \A b :
          Offered(p, i, b)' =>
            HasBaseKey(Own(p)', b) /\ (op'[p].stage = "callback" => HasBaseKey(Due(p)', b))
    BY <1>3, <1>4, <1>13, <2>1, <2>2 DEF Supply
  <2>6. op'[p].stage # "idle" /\ op'[p].remove # 0 => op'[p].remove \in 1..NumOneTime \ server'[p]
    BY DEF Removes
  <2>7. \A i \in 1..NumOneTime : \A b :
          op'[p].stage # "idle" /\ op'[p].remove = i /\ Offered(p, i, b)' =>
            HasBaseKey(IF op'[p].stage = "callback" THEN Due(p)' ELSE Own(p)', b)
    <3>1. ASSUME NEW i \in 1..NumOneTime, NEW b, op'[p].remove = i, Offered(p, i, b)'
          PROVE  HasBaseKey(Due(p)', b)
      <4>1. rm = i /\ rm # 0
        BY <3>1
      <4>2. Offered(p, rm, b)
        BY <1>13, <3>1, <4>1
      <4> QED BY <1>4, <4>1, <4>2 DEF Removes
    <3> QED BY <1>2, <3>1
  <2> QED BY <2>3, <2>4, <2>5, <2>6, <2>7 DEF Supply
<1>17. Apart(p)'
  <2>1. \A s \in Own(p)' : Good(p, s, sent', Undone(p)')
    BY <1>2, <1>3, <1>6, <1>8 DEF Apart
  <2>2. \A s \in Due(p)' : Good(p, s, sent', UndoneThen(p)')
    BY <1>2, <1>4, <1>7 DEF Delivers
  <2> QED BY <1>9, <1>11, <1>16, <2>1, <2>2 DEF Apart
<1>18. Apart(q)'
  <2>1. \A s \in Own(q)' : Good(q, s, sent', Undone(q)')
    BY <1>1, <1>2, <1>3, <1>6, <1>8 DEF Apart
  <2>2. \A s \in Due(q)' : Good(q, s, sent', UndoneThen(q)')
    BY <1>2, <1>4, <1>7, <1>8 DEF Apart
  <2> QED BY <1>1, <1>9, <1>12, <1>15, <2>1, <2>2 DEF Apart
<1>19. Letters'
  BY <1>2, LettersStay DEF DeliverInv
<1>20. \A x \in Party : Apart(x)'
  BY <1>1, <1>17, <1>18
<1> QED BY <1>19, <1>20 DEF DeliverInv

(* A message of the peer that turns the ratchet is on the chain the peer   *)
(* sends on: all that turn it are on one chain.                            *)
LEMMA TurnedBy ==
  ASSUME SessInv, StepInv, NEW p \in Party, NEW s \in Held(p), NEW g \in Held(Peer(p)),
         g.root[1] = s.root[1], NEW n \in sent, n.to = p,
         n.chain = CreateChain(s.root, n.ratchet, s.ratchet)
  PROVE  n.chain = g.root
<1> DEFINE q == Peer(p)
           e == End(s)
           f == End(g)
<1>1. q \in Party /\ q # p
  BY PeerIsOther
<1>2. HeldOK(p, s) /\ e \in Ends(p) /\ HeldOK(q, g) /\ f \in Ends(q)
  BY <1>1, HeldStates
<1>3. e.root = s.root /\ e.ratchet = s.ratchet /\ f.root = g.root /\ f.ratchet = g.ratchet
  BY EndParts
<1> HIDE DEF e, f
<1>4. IsSeq(s.root) /\ Len(s.root) >= 1 /\ IsSeq(g.root) /\ Len(g.root) >= 1
  <2>1. IsSeq(s.root) /\ Len(s.root) >= 2 /\ IsSeq(g.root) /\ Len(g.root) >= 2
    BY <1>2 DEF HeldOK, StateOK, SenderOK
  <2>2. Len(s.root) \in Nat /\ Len(g.root) \in Nat
    BY <2>1, LenNat
  <2> QED BY <2>1, <2>2
<1>5. Len(n.chain) = Len(s.root) + 1 /\ n.chain[1] = s.root[1]
  BY <1>4, AppendPath DEF CreateChain, Extends
<1>6. Len(s.root) \in Nat /\ Len(g.root) \in Nat
  BY <1>4, LenNat
<1>7. Len(n.chain) < Len(g.root) \/ n.chain = g.root
  <2>1. NotPast(q, Ends(q), sent)
    BY <1>1 DEF StepInv
  <2> QED BY <1>1, <1>2, <1>3, <1>5, <2>1 DEF NotPast
<1>8. OneTurnAhead(e, f) \/ OneTurnAhead(f, e)
  <2>1. InStep(Ends(p), Ends(q))
    BY <1>1 DEF StepInv
  <2> QED BY <1>2, <1>3, <2>1 DEF InStep
<1>9. CASE OneTurnAhead(e, f)
  <2>1. s.root = CreateChain(g.root, g.ratchet, s.ratchet)
    BY <1>3, <1>9 DEF OneTurnAhead
  <2>2. Len(s.root) = Len(g.root) + 1
    BY <1>4, <2>1, AppendPath DEF CreateChain, Extends
  <2> QED BY <1>5, <1>6, <1>7, <2>2
<1>10. CASE OneTurnAhead(f, e)
  <2>1. g.root = CreateChain(s.root, s.ratchet, g.ratchet)
    BY <1>3, <1>10 DEF OneTurnAhead
  <2>2. Len(g.root) = Len(s.root) + 1
    BY <1>4, <2>1, AppendPath DEF CreateChain, Extends
  <2> QED BY <1>5, <1>6, <1>7, <2>2
<1> QED BY <1>8, <1>9, <1>10

(* m is not among what is left, nor is any other message with its key.     *)
LEMMA RestLess ==
  ASSUME SessInv, NEW p, NEW m \in sent
  PROVE  Less(Undone(p), Rest(p, m), sent, m)
<1>1. Rest(p, m) \subseteq Undone(p) /\ Undone(p) \subseteq sent
  BY DEF Rest, Undone
<1>2. ASSUME NEW n \in Rest(p, m), n.chain = m.chain, n.counter = m.counter PROVE FALSE
  <2>1. n \in sent /\ n.id # m.id
    BY <1>1 DEF Rest
  <2>2. n = m
    BY <1>2, <2>1 DEF SessInv, IMsgs, NoMessageKeyReuse
  <2> QED BY <2>1, <2>2
<1> QED BY <1>1, <1>2 DEF Less

(* A state of a record that is not at a limit.                             *)
LEMMA RoomyState ==
  ASSUME NEW r, Roomy(r), NEW s \in StatesOf(r)
  PROVE  /\ Len(s.recv) < MaxReceiverChains
         /\ \A j \in 1..Len(s.recv) : Len(s.recv[j].mks) < MaxMessageKeys
BY DEF Roomy

(* The state that decrypted m.                                             *)
Opened(p, s, s2, m) ==
  /\ Good(p, s2, sent, Rest(p, m)) /\ s2.pending.base = NoKey
  /\ s2.base = s.base /\ s2.root[1] = s.root[1]

LEMMA KnownOpened ==
  ASSUME SessInv, StepInv, DeliverInv, NEW p \in Party, NEW m \in sent, m.to = p,
         NEW s \in Own(p), DecryptFromState(s, m, NewKey(p)).code = Success,
         NEW s2, s2 = DecryptFromState(s, m, NewKey(p)).state,
         Len(s2.recv) < MaxReceiverChains,
         \A j \in 1..Len(s2.recv) : Len(s2.recv[j].mks) < MaxMessageKeys
  PROVE  Opened(p, s, s2, m)
<1> DEFINE new == NewKey(p)
           N2 == OneMore(p)
           U == Undone(p)
           U2 == Rest(p, m)
           q == Peer(p)
<1>1. HeldOK(p, s) /\ IVars /\ MsgsOK(sent, nk, gen)
  BY OwnStates DEF SessInv, IMsgs
<1>2. StateOK(p, s, nk, gen) /\ Alone(s)
  BY <1>1 DEF HeldOK
<1>3. Good(p, s, sent, U) /\ Readable(p, s, sent, U)
  BY DEF DeliverInv, Apart, Good
<1>4. NewKeyOf(p, new, nk, N2) /\ Grows(nk, nk) /\ Grows(gen, gen)
  BY <1>1, NewKeyMade, CountersGrow
<1>5. DOMAIN s = StateFields /\ IsSeq(s.recv) /\ Len(s.recv) <= MaxReceiverChains
  BY <1>2 DEF StateOK, LinksOK
<1>6. Less(U, U2, sent, m)
  BY RestLess
<1>7. MsgOK(m, nk, gen) /\ m.counter \in Nat
  BY <1>1 DEF MsgsOK, MsgOK
<1> HIDE DEF new, N2, U, U2, q
<1>8. Whose(s, s2, m)
  BY <1>5, DecryptedWhose
<1>9. (\E k \in 1..Len(s.recv) : KeptChain(s, s2, m, k)) \/ TurnedChain(s, s2, m, new)
  BY <1>5, Decrypted DEF new
<1>10. s2.pending.base = NoKey
  BY <1>9, NoPendingBase DEF KeptChain, TurnedChain, SameSession
<1>11. ASSUME NEW k \in 1..Len(s.recv), KeptChain(s, s2, m, k)
       PROVE  Opened(p, s, s2, m)
  <2>1. Good(p, s2, sent, U2)
    BY <1>1, <1>2, <1>3, <1>6, <1>8, <1>11, KeptGood
  <2>2. s2.base = s.base /\ s2.root = s.root
    BY <1>11 DEF KeptChain, SameSession
  <2> QED BY <1>10, <2>1, <2>2 DEF Opened, U2
<1>12. CASE TurnedChain(s, s2, m, new)
  <2>1. Turnable(p, s, nk, gen)
    <3>1. IsSeq(s.root) /\ Len(s.root) >= 2
      BY <1>2 DEF StateOK, SenderOK
    <3>2. Len(s.root) >= 1
      BY <3>1, LenNat
    <3> QED BY <1>2, <3>1, <3>2 DEF Turnable, StateOK, SenderOK
  <2>2. Advanced(s, s2, m, new)
    BY <1>4, <1>7, <1>12, <2>1, TurnStep
  <2>3. s2.base = s.base /\ s2.root[1] = s.root[1]
    BY <2>2 DEF Advanced
  <2>4. m.chain = CreateChain(s.root, m.ratchet, s.ratchet) /\ m.chain[1] = s.root[1]
    <3>1. m.chain = CreateChain(s.root, m.ratchet, s.ratchet)
      BY <1>12 DEF TurnedChain
    <3> QED BY <2>1, <3>1, AppendPath DEF CreateChain, Extends, Turnable
  <2>5. q \in Party /\ q # p /\ Keeps(q)
    BY PeerIsOther DEF q, DeliverInv, Apart
  <2>6. PICK g \in Own(q) : g.root[1] = s.root[1]
    <3>1. Touched(q, s.root[1])
      BY <2>4, <2>5 DEF Touched
    <3> QED BY <2>5, <3>1 DEF Keeps, HasSecret
  <2>7. \A n \in U2 : n \in sent /\ n.to = p
    BY DEF U2, Rest, Undone
  <2>8. s \in Held(p) /\ g \in Held(Peer(p))
    BY DEF Held, q
  <2>9. m.chain = g.root
    BY <2>4, <2>6, <2>8, TurnedBy
  <2>10. \A n \in U2 : n.chain = CreateChain(s.root, n.ratchet, s.ratchet) => n.chain = m.chain
    <3>1. ASSUME NEW n \in U2, n.chain = CreateChain(s.root, n.ratchet, s.ratchet)
          PROVE  n.chain = g.root
      BY <2>6, <2>7, <2>8, <3>1, TurnedBy
    <3> QED BY <2>9, <3>1
  <2>11. Good(p, s2, sent, U2)
    BY <1>1, <1>3, <1>4, <1>6, <1>8, <1>12, <2>1, <2>10, TurnedGood
  <2> QED BY <1>10, <2>3, <2>11 DEF Opened, U2
<1> QED BY <1>9, <1>11, <1>12

(* A message of a session that is known.                                   *)
LEMMA KnownDelivers ==
  ASSUME SessInv, StepInv, DeliverInv, NEW p \in Party, NEW m \in sent, m.to = p,
         rec[p] # FreshRecord, DecryptFromRecord(rec[p], m, NewKey(p)).code = Success,
         NEW r2, r2 = DecryptFromRecord(rec[p], m, NewKey(p)).record, Roomy(r2)
  PROVE  Delivers(p, m, r2)
<1> DEFINE r == rec[p]
           new == NewKey(p)
<1>1. RecordOK(p, r, nk, gen)
  BY DEF SessInv, PartyOK, StoredOK, Sound
<1>2. IsSeq(r.prev) /\ Len(r.prev) <= MaxArchivedStates /\ DOMAIN r = {"cur", "prev"}
  BY <1>1 DEF RecordOK
<1>3. Own(p) = StatesOf(r)
  BY DEF Own
<1> HIDE DEF r, new
<1>4. PICK f \in Slots(r) : /\ DecryptedAt(r, r2, m, new, f)
                            /\ Becomes(StatesOf(r), StatesOf(r2), At(r, f), r2.cur)
  BY <1>2, DecryptedAll DEF r, new
<1> DEFINE s == At(r, f)
           s2 == r2.cur
<1>5. s \in Own(p)
  BY <1>3, <1>4 DEF StatesOf
<1>6. /\ DecryptFromState(s, m, new).code = Success
      /\ s2 = DecryptFromState(s, m, new).state
  BY <1>4 DEF DecryptedAt, Rebuilt
<1>7. /\ StatesOf(r2) \subseteq Own(p) \union {s2} /\ s2 \in StatesOf(r2)
      /\ \A t \in Own(p) : t # s => t \in StatesOf(r2)
  BY <1>3, <1>4 DEF Becomes
<1> HIDE DEF s, s2
<1>8. Opened(p, s, s2, m)
  <2>1. /\ Len(s2.recv) < MaxReceiverChains
        /\ \A j \in 1..Len(s2.recv) : Len(s2.recv[j].mks) < MaxMessageKeys
    BY <1>7, RoomyState
  <2> QED BY <1>5, <1>6, <2>1, KnownOpened DEF new
<1>9. \A t \in Own(p) : Good(p, t, sent, Rest(p, m))
  <2>1. Rest(p, m) \subseteq Undone(p)
    BY DEF Rest
  <2>2. \A t \in Own(p) : Good(p, t, sent, Undone(p))
    BY DEF DeliverInv, Apart
  <2> QED BY <2>1, <2>2, GoodFewer
<1>10. \A t \in StatesOf(r2) : Good(p, t, sent, Rest(p, m)) /\ (t.pending.base # NoKey => t \in Own(p))
  BY <1>7, <1>8, <1>9 DEF Opened
<1>11. ASSUME NEW t \in Own(p)
       PROVE  HasSecret(StatesOf(r2), t.root[1]) /\ HasBaseKey(StatesOf(r2), t.base)
  BY <1>7, <1>8 DEF Opened, HasSecret, HasBaseKey
<1> QED BY <1>10, <1>11 DEF Delivers

(* As long as p has not answered, the peer's messages of a session it      *)
(* began are all on its first chain.                                       *)
LEMMA FirstChain ==
  ASSUME SessInv, StepInv, DeliverInv, NEW p \in Party, NEW m \in sent, m.to = p,
         Len(m.chain) = 2, ~Answered(p, m.chain[1]),
         NEW n \in sent, n.to = p, n.chain[1] = m.chain[1]
  PROVE  n.chain = m.chain /\ n.ratchet = m.ratchet
<1> DEFINE q == Peer(p)
           z == m.chain[1]
<1>1. q \in Party /\ q # p /\ Peer(q) = p
  BY PeerIsOther
<1>2. Keeps(q) /\ NotPast(q, Ends(q), sent) /\ Replies(q)
  BY <1>1 DEF DeliverInv, Apart, StepInv
<1>3. Sends(q, m.chain, nk, gen) /\ Sends(q, n.chain, nk, gen)
  BY MessageFacts
<1> HIDE DEF q
<1>4. PICK g \in Own(q) : g.root[1] = z
  <2>1. Touched(q, z)
    BY <1>1 DEF Touched
  <2> QED BY <1>2, <2>1 DEF Keeps, HasSecret
<1>5. End(g) \in Ends(q) /\ End(g).root = g.root /\ End(g).ratchet = g.ratchet
  BY <1>1, OwnStates, EndParts DEF Ends
<1>6. Sends(q, g.root, nk, gen)
  <2> DEFINE e == End(g)
  <2>1. e \in Ends(q) /\ e.root = g.root
    BY <1>5
  <2> HIDE DEF e
  <2>2. Sends(q, e.root, nk, gen)
    BY <1>1, <2>1, EndSends
  <2> QED BY <2>1, <2>2
<1>7. Len(g.root) = 2
  <2> DEFINE c == g.root
             d == m.chain
             x == Len(c)
             y == Len(d)
  <2>1. c[1] = d[1] /\ Sends(q, c, nk, gen) /\ Sends(q, d, nk, gen) /\ y = 2
    BY <1>3, <1>4, <1>6
  <2>2. x % 2 = 0 /\ x > 2 => Answered(p, z)
    BY <1>1, <1>2, <1>4, <1>5 DEF Replies
  <2> HIDE DEF c, d
  <2>3. Sided(q, q, c, d)
    BY <1>1, <2>1, SideParity
  <2>4. x \in Nat /\ x >= 2 /\ x % 2 = y % 2
    BY <2>3 DEF Sided
  <2> HIDE DEF x, y, z
  <2>5. x % 2 = 0
    BY <2>1, <2>4
  <2>6. ~(x > 2)
    BY <2>2, <2>5 DEF z
  <2>7. x = 2
    BY <2>4, <2>6
  <2> QED BY <2>7 DEF x, c
<1>8. ASSUME NEW o \in {m, n}
      PROVE  o.chain = g.root /\ o.ratchet = g.ratchet
  <2>1. o \in sent /\ o.to # q /\ o.chain[1] = g.root[1] /\ Sends(q, o.chain, nk, gen)
    BY <1>1, <1>3, <1>4
  <2>2. Len(o.chain) < Len(g.root) \/ (o.chain = g.root /\ o.ratchet = g.ratchet)
    BY <1>2, <1>5, <2>1 DEF NotPast
  <2>3. IsSeq(o.chain) /\ Len(o.chain) >= 2
    BY <2>1 DEF Sends
  <2>4. Len(o.chain) \in Nat
    BY <2>3, LenNat
  <2>5. ~(Len(o.chain) < Len(g.root))
    BY <1>7, <2>3, <2>4
  <2> QED BY <2>2, <2>5
<1> QED BY <1>8

(* The state the builder has made for m, once m is decrypted with it.      *)
LEMMA BegunOpened ==
  ASSUME SessInv, StepInv, DeliverInv, NEW p \in Party, NEW m \in sent, m.to = p, m.base # NoKey,
         NEW b, BobNew(p, b, m), ~Answered(p, m.chain[1]),
         DecryptFromState(b, m, NewKey(p)).code = Success,
         NEW s2, s2 = DecryptFromState(b, m, NewKey(p)).state,
         Len(s2.recv) < MaxReceiverChains,
         \A j \in 1..Len(s2.recv) : Len(s2.recv[j].mks) < MaxMessageKeys
  PROVE  Opened(p, b, s2, m)
<1> DEFINE new == NewKey(p)
           N2 == OneMore(p)
           U == Undone(p)
           U2 == Rest(p, m)
<1>1. IVars /\ MsgsOK(sent, nk, gen)
  BY DEF SessInv, IMsgs
<1>2. MsgOK(m, nk, gen) /\ m.counter \in Nat
  BY <1>1 DEF MsgsOK, MsgOK
<1>3. NewKeyOf(p, new, nk, N2) /\ Grows(nk, nk) /\ Grows(gen, gen)
  BY <1>1, NewKeyMade, CountersGrow
<1>4. /\ DOMAIN b = StateFields /\ b.base = m.base /\ b.local = Id1(p) /\ b.remote = Id1(Peer(p))
      /\ b.recv = <<>> /\ IsSeq(b.root) /\ Len(b.root) = 1 /\ b.root[1] = m.chain[1]
      /\ m.chain = CreateChain(b.root, m.ratchet, b.ratchet)
  BY DEF BobNew
<1>5. LinksOK(b.recv, b.root, nk) /\ Len(b.recv) = 0
  BY <1>4, NoLinks
<1>6. IsSeq(b.recv) /\ Len(b.recv) <= MaxReceiverChains
  BY <1>5 DEF LinksOK
<1>7. \A k \in 1..Len(b.recv) : FALSE
  BY <1>5
<1>8. Less(U, U2, sent, m)
  BY RestLess
<1> HIDE DEF new, N2, U, U2
<1>9. Whose(b, s2, m)
  BY <1>4, DecryptedWhose
<1>10. TurnedChain(b, s2, m, new)
  <2>1. (\E k \in 1..Len(b.recv) : KeptChain(b, s2, m, k)) \/ TurnedChain(b, s2, m, new)
    BY <1>4, <1>6, Decrypted DEF new
  <2> QED BY <1>7, <2>1
<1>11. Len(m.chain) = 2
  <2>1. Len(b.root) >= 1
    BY <1>4
  <2>2. Len(m.chain) = Len(b.root) + 1
    BY <1>4, <2>1, AppendPath DEF CreateChain, Extends
  <2> QED BY <1>4, <2>2
<1>12. Turnable(p, b, nk, gen)
  <2>1. PICK k : SecretOK(m.chain[1], k, nk, gen) /\ m.base \in {NoKey, k}
                 /\ Len(m.chain) % 2 = 1 - Parity(m.to, k)
    BY <1>2 DEF MsgOK
  <2>2. k = b.base /\ SecretOK(b.root[1], b.base, nk, gen)
    BY <1>4, <2>1
  <2> DEFINE x == Parity(p, b.base)
  <2>3. x \in {0, 1} /\ 2 % 2 = 1 - x
    BY <1>11, <2>1, <2>2 DEF Parity
  <2> HIDE DEF x
  <2>4. x = 1 /\ 1 % 2 = 1
    BY <2>3
  <2>5. Len(b.root) % 2 = Parity(p, b.base) /\ Len(b.root) >= 1
    BY <1>4, <2>4 DEF x
  <2>6. Alone(b)
    BY <1>7 DEF Alone
  <2> QED BY <1>4, <1>5, <2>2, <2>5, <2>6 DEF Turnable
<1>13. ASSUME NEW n \in U, n.chain[1] = m.chain[1]
       PROVE  n.chain = m.chain /\ n.ratchet = m.ratchet
  <2>1. n \in sent /\ n.to = p
    BY DEF U, Undone
  <2> QED BY <1>11, <1>13, <2>1, FirstChain
<1>14. Readable(p, b, sent, U)
  BY <1>4, <1>7, <1>13 DEF Readable, Opens
<1>15. \A n \in U2 : n.chain = CreateChain(b.root, n.ratchet, b.ratchet) => n.chain = m.chain
  <2>1. ASSUME NEW n \in U2, n.chain = CreateChain(b.root, n.ratchet, b.ratchet)
        PROVE  n.chain = m.chain
    <3>1. n \in U
      BY <1>8 DEF Less
    <3>2. Len(b.root) >= 1
      BY <1>4
    <3>3. n.chain[1] = b.root[1]
      BY <1>4, <2>1, <3>2, AppendPath DEF CreateChain, Extends
    <3> QED BY <1>4, <1>13, <3>1, <3>3
  <2> QED BY <2>1
<1>16. Good(p, s2, sent, U2)
  BY <1>1, <1>3, <1>8, <1>9, <1>10, <1>12, <1>14, <1>15, TurnedGood
<1>17. Advanced(b, s2, m, new)
  BY <1>2, <1>3, <1>10, <1>12, TurnStep
<1>18. s2.pending.base = NoKey
  BY <1>10, NoPendingBase DEF TurnedChain, SameSession
<1> QED BY <1>16, <1>17, <1>18 DEF Opened, Advanced, U2

(* A message that begins a session.                                        *)
LEMMA BegunDelivers ==
  ASSUME SessInv, StepInv, DeliverInv, WithinLimits, Remembered, NEW p \in Party, NEW m \in sent,
         m.to = p, BobBuilds(p, m),
         NEW r2, r2 = DecryptFromRecord(BuiltRecord(p, m), m, NewKey(p)).record, Roomy(r2)
  PROVE  Delivers(p, m, r2) /\ HasBaseKey(StatesOf(r2), m.base)
<1> DEFINE L == Live(p) \ {OneTime(p, ToRemove(p, m))}
           D == DoneWith(p)
           new == NewKey(p)
           r == rec[p]
           r1 == BuiltRecord(p, m)
           N2 == OneMore(p)
           b == BobState(Identity(p), Signed(p), OneTime(p, m.oneTime), m.from, m.base)
<1>1. PICK s, z, signed :
        BobCase(p, r, m, new, nk, N2, gen, sent, D, L, s, z, signed, r1)
  BY DEF BobBuilds
<1>2. r2 = DecryptFromRecord(r1, m, new).record
  OBVIOUS
<1>3. ~Answered(p, z)
  <2> HIDE DEF L, new, r1, N2, b
  <2> QED BY <1>1, NotAnswered
<1>4. /\ r = FreshRecord \/ Sound(p, r, nk, gen, sent, D, L)
      /\ MsgOK(m, nk, gen) /\ m.base # NoKey /\ ~HasSessionState(r, m.base)
      /\ NewKeyOf(p, new, nk, N2) /\ Grows(nk, nk) /\ Grows(gen, gen)
      /\ BobReady(s, z, m.base, signed) /\ r1 = WithNew(r, s)
      /\ DecryptFromRecord(r1, m, new).code = Success
  BY <1>1 DEF BobCase, MsgsOK
<1>5. BobNew(p, b, m)
  <2>1. IVars /\ resets = 0 /\ Letters
    BY DEF SessInv, DeliverInv, WithinLimits
  <2> QED BY <1>4, <2>1, BobMade
<1>6. r1 = WithNew(r, b)
  BY <1>4 DEF BuiltRecord, WithNew
<1>7. \A t \in Own(p) : t.base # m.base
  BY <1>4, KnownBase DEF HasBaseKey
<1> HIDE DEF L, D, new, r, r1, N2, b
<1>8. r = FreshRecord \/ (RecordOK(p, r, nk, gen) /\ IsSeq(r.prev))
  BY <1>4 DEF Sound, RecordOK
<1>9. BuiltFrom(r, r1, b) /\ BuiltFrom(r, r1, s)
  BY <1>4, <1>6, <1>8, BuiltSlots
<1>10. /\ IsSeq(r1.prev) /\ Len(r1.prev) <= MaxArchivedStates /\ DOMAIN r1 = {"cur", "prev"}
       /\ At(r1, 0) = b /\ s = b
       /\ \A i \in Slots(r1) \ {0} : r # FreshRecord /\ \E j \in Slots(r) : At(r1, i) = At(r, j)
  BY <1>9 DEF BuiltFrom
<1>11. ~Answered(p, m.chain[1])
  <2>1. DerivedKeys(z) = DerivedKeys(m.chain[1])
    BY <1>4, <1>5, <1>10 DEF BobReady, BobNew
  <2>2. DerivedKeys(z)[1] = z /\ DerivedKeys(m.chain[1])[1] = m.chain[1]
    BY OnePath
  <2>3. z = m.chain[1]
    BY <2>1, <2>2
  <2> QED BY <1>3, <2>3
<1>12. PICK f \in Slots(r1) : /\ DecryptedAt(r1, r2, m, new, f)
                              /\ Becomes(StatesOf(r1), StatesOf(r2), At(r1, f), r2.cur)
  BY <1>2, <1>4, <1>10, DecryptedAll
<1>13. \A i \in Slots(r1) \ {0} : At(r1, i) \in Own(p)
  BY <1>10 DEF Own, StatesOf, r
<1>14. f = 0
  <2> SUFFICES ASSUME f # 0 PROVE FALSE
    OBVIOUS
  <2> DEFINE t == At(r1, f)
  <2>1. t \in Own(p)
    BY <1>13
  <2>2. t.base # m.base
    BY <1>7, <2>1
  <2>3. DecryptFromState(t, m, new).code = Success
    BY <1>12 DEF DecryptedAt
  <2> HIDE DEF t
  <2>4. StateOK(p, t, nk, gen) /\ Alone(t)
    BY <2>1, OwnStates DEF HeldOK
  <2> QED BY <1>4, <2>2, <2>3, <2>4, OtherSession
<1> DEFINE s2 == r2.cur
<1>15. /\ DecryptFromState(b, m, new).code = Success /\ s2 = DecryptFromState(b, m, new).state
       /\ r2 = [r1 EXCEPT !.cur = s2] /\ Becomes(StatesOf(r1), StatesOf(r2), b, s2)
  BY <1>10, <1>12, <1>14 DEF DecryptedAt, Rebuilt
<1> HIDE DEF s2
<1>16. r2.prev = r1.prev /\ r2.cur = s2
  BY <1>10, <1>15
<1>17. StatesOf(r2) \subseteq Own(p) \union {s2}
  <2>1. ASSUME NEW i \in Slots(r2) PROVE At(r2, i) \in Own(p) \union {s2}
    <3>1. CASE i = 0
      BY <1>16, <3>1 DEF At
    <3>2. CASE i # 0
      <4>1. i \in Slots(r1) \ {0} /\ At(r2, i) = At(r1, i)
        BY <1>16, <3>2 DEF Slots, At
      <4> QED BY <1>13, <4>1
    <3> QED BY <3>1, <3>2
  <2> QED BY <2>1 DEF StatesOf
<1>18. StatesOf(r1) = Own(p) \union {b}
  <2>1. Len(r1.prev) < MaxArchivedStates
    BY <1>16 DEF Roomy
  <2>2. StatesOf(r1) = (IF r = FreshRecord THEN {} ELSE StatesOf(r)) \union {b}
    BY <1>6, <1>8, <2>1, BuiltAll
  <2> QED BY <2>2 DEF Own, r
<1>19. Own(p) \subseteq StatesOf(r2) /\ s2 \in StatesOf(r2)
  <2>1. \A t \in Own(p) : t # b
    BY <1>5, <1>7 DEF BobNew
  <2> QED BY <1>15, <1>18, <2>1 DEF Becomes
<1>20. Opened(p, b, s2, m)
  <2>1. /\ Len(s2.recv) < MaxReceiverChains
        /\ \A j \in 1..Len(s2.recv) : Len(s2.recv[j].mks) < MaxMessageKeys
    BY <1>19, RoomyState
  <2> QED BY <1>4, <1>5, <1>11, <1>15, <2>1, BegunOpened DEF new
<1>21. \A t \in Own(p) : Good(p, t, sent, Rest(p, m))
  <2>1. Rest(p, m) \subseteq Undone(p)
    BY DEF Rest
  <2>2. \A t \in Own(p) : Good(p, t, sent, Undone(p))
    BY DEF DeliverInv, Apart
  <2> QED BY <2>1, <2>2, GoodFewer
<1>22. Delivers(p, m, r2)
  BY <1>17, <1>19, <1>20, <1>21 DEF Delivers, Opened, HasSecret, HasBaseKey
<1>23. HasBaseKey(StatesOf(r2), m.base)
  BY <1>5, <1>19, <1>20 DEF HasBaseKey, Opened, BobNew
<1> QED BY <1>22, <1>23

(* The one-time pre key it is to remove was given out for this session.    *)
LEMMA BegunRemoves ==
  ASSUME SessInv, DeliverInv, NEW p \in Party, NEW m \in sent, m.to = p, m.base # NoKey,
         m.oneTime \in opks[p] \union {0}, NEW rm, rm = ToRemove(p, m),
         NEW r2, HasBaseKey(StatesOf(r2), m.base)
  PROVE  Removes(p, r2, rm)
<1> SUFFICES ASSUME rm # 0
             PROVE  /\ rm \in 1..NumOneTime \ server[p]
                    /\ \A b : Offered(p, rm, b) => HasBaseKey(StatesOf(r2), b)
  BY DEF Removes
<1>1. rm = m.oneTime /\ rm # LastResort /\ rm \in opks[p]
  BY DEF ToRemove
<1>2. rm \in 1..NumOneTime
  <2>1. opks[p] \subseteq PreKeyIds
    BY DEF SessInv, IVars
  <2> QED BY <1>1, <2>1 DEF PreKeyIds
<1>3. Offered(p, rm, m.base)
  BY <1>1 DEF Offered
<1>4. Supply(p)
  BY DEF DeliverInv, Apart
<1>5. \A b : Offered(p, rm, b) => b = m.base /\ rm \notin server[p]
  BY <1>2, <1>3, <1>4 DEF Supply
<1> QED BY <1>2, <1>3, <1>5

(* With nothing lost, every session that was answered is remembered.       *)
LEMMA DeliverRemembers == SessInv /\ DeliverInv => Remembered
<1> SUFFICES ASSUME SessInv, DeliverInv, NEW n \in sent, accepted[n.id] > 0
             PROVE  \E b \in n.chain[1][3] : b[1] = "ephemeral" /\ HasSessionState(rec[n.to], b)
  BY DEF Remembered
<1> DEFINE p == n.to
           z == n.chain[1]
<1>1. p \in Party
  BY MessageFacts
<1>2. PICK s \in Own(p) : s.root[1] = z
  <2>1. Touched(p, z) /\ Keeps(p)
    BY <1>1 DEF Touched, DeliverInv, Apart
  <2> QED BY <2>1 DEF Keeps, HasSecret
<1> HIDE DEF p
<1>3. SecretOK(z, s.base, nk, gen)
  BY <1>1, <1>2, OwnStates DEF HeldOK, StateOK, SenderOK
<1>4. s.base \in z[3] /\ s.base[1] = "ephemeral" /\ s.base \in Pub
  BY <1>3 DEF SecretOK
<1>5. s.base # NoKey
  BY <1>4 DEF NoKey, Pub
<1>6. HasSessionState(rec[p], s.base)
  BY <1>1, <1>5, KnownBase DEF HasBaseKey
<1> QED BY <1>4, <1>6 DEF p

LEMMA SignalMessageDelivering ==
  ASSUME SessInv, StepInv, DeliverInv, WithinLimits', NEW p \in Party, NEW m \in sent,
         DecryptSignalMessage(p, m)
  PROVE  DeliverInv'
<1> DEFINE d == DecryptFromRecord(rec[p], m, NewKey(p))
           r2 == d.record
<1>1. /\ op[p].stage = "idle" /\ m.to = p /\ rec[p] # FreshRecord /\ d.code = Success
      /\ op' = [op EXCEPT ![p] = [stage |-> "callback", record |-> r2, id |-> m.id, remove |-> 0]]
      /\ UNCHANGED <<rec, sent, accepted>> /\ server' = server /\ opks' = opks /\ trusted' = trusted
  BY DEF DecryptSignalMessage
<1>2. PICK r3 : r3 = r2
  OBVIOUS
<1>3. IVars /\ op' = [op EXCEPT ![p] = [stage |-> "callback", record |-> r3,
                                        id |-> m.id, remove |-> 0]]
  BY <1>1, <1>2 DEF SessInv
<1>4. CallsBack(p, m, r3) /\ op'[p].remove = 0
  <2> HIDE DEF d, r2
  <2>1. CallsBack(p, m, r3)
    BY <1>1, <1>3, CallMade
  <2> QED BY <1>3, <2>1 DEF IVars
<1>5. /\ DecryptFromRecord(rec[p], m, NewKey(p)).code = Success
      /\ r3 = DecryptFromRecord(rec[p], m, NewKey(p)).record
  BY <1>1, <1>2
<1> HIDE DEF d, r2
<1>6. Roomy(r3)
  BY <1>4 DEF WithinLimits, CallsBack
<1>7. Delivers(p, m, r3)
  BY <1>1, <1>5, <1>6, KnownDelivers
<1>8. Removes(p, r3, 0)
  BY DEF Removes
<1>9. DOMAIN trusted' = Party /\ \A x \in Party : trusted'[x] \in {trusted[x], Id1(Peer(x))}
  BY <1>1 DEF DeliverInv
<1> QED BY <1>1, <1>4, <1>7, <1>8, <1>9, CallDelivering

LEMMA PreKeyMessageDelivering ==
  ASSUME SessInv, StepInv, DeliverInv, WithinLimits, WithinLimits', NEW p \in Party,
         NEW m \in sent, DecryptPreKeySignalMessage(p, m)
  PROVE  DeliverInv'
<1> DEFINE d == DecryptFromRecord(BuiltRecord(p, m), m, NewKey(p))
           r2 == d.record
           rm == ToRemove(p, m)
<1>1. /\ op[p].stage = "idle" /\ m.to = p /\ m.base # NoKey /\ BuilderAccepts(p, m)
      /\ \/ /\ d.code = Success
            /\ op' = [op EXCEPT ![p] = [stage |-> "callback", record |-> r2,
                                        id |-> m.id, remove |-> rm]]
         \/ op' = op
      /\ UNCHANGED <<rec, sent, accepted>> /\ server' = server /\ opks' = opks
      /\ trusted' = [trusted EXCEPT ![p] = m.from]
  BY DEF DecryptPreKeySignalMessage
<1>2. DOMAIN trusted' = Party /\ \A x \in Party : trusted'[x] \in {trusted[x], Id1(Peer(x))}
  <2>1. m.from = Id1(Peer(p)) /\ DOMAIN trusted = Party
    BY <1>1 DEF DeliverInv, Letters
  <2> QED BY <1>1, <2>1
<1>3. CASE op' = op
  BY <1>1, <1>2, <1>3, CalmStep
<1>4. CASE /\ d.code = Success
           /\ op' = [op EXCEPT ![p] = [stage |-> "callback", record |-> r2,
                                       id |-> m.id, remove |-> rm]]
  <2>1. PICK r3, rm2 : r3 = r2 /\ rm2 = rm
    OBVIOUS
  <2>2. IVars /\ op' = [op EXCEPT ![p] = [stage |-> "callback", record |-> r3,
                                          id |-> m.id, remove |-> rm2]]
    BY <1>4, <2>1 DEF SessInv
  <2>3. /\ DecryptFromRecord(BuiltRecord(p, m), m, NewKey(p)).code = Success
        /\ r3 = DecryptFromRecord(BuiltRecord(p, m), m, NewKey(p)).record
        /\ rm2 = ToRemove(p, m)
    BY <1>4, <2>1
  <2> HIDE DEF d, r2, rm
  <2>4. CallsBack(p, m, r3) /\ op'[p].remove = rm2
    <3>1. CallsBack(p, m, r3)
      BY <1>1, <2>2, CallMade
    <3> QED BY <2>2, <3>1 DEF IVars
  <2>5. Roomy(r3)
    BY <2>4 DEF WithinLimits, CallsBack
  <2>6. Delivers(p, m, r3) /\ Removes(p, r3, rm2)
    <3>1. CASE HasSessionState(rec[p], m.base)
      <4>1. BuiltRecord(p, m) = rec[p] /\ rm2 = 0
        BY <2>3, <3>1 DEF BuiltRecord, ToRemove
      <4>2. States(FreshRecord) = {EmptyState} /\ EmptyState.base = NoKey
        BY DEF States, FreshRecord, EmptyState
      <4>3. rec[p] # FreshRecord
        BY <1>1, <3>1, <4>2 DEF HasSessionState
      <4>4. Delivers(p, m, r3)
        BY <1>1, <2>3, <2>5, <4>1, <4>3, KnownDelivers
      <4> QED BY <4>1, <4>4 DEF Removes
    <3>2. CASE ~HasSessionState(rec[p], m.base)
      <4>1. m.oneTime \in opks[p] \union {0}
        BY <1>1, <3>2 DEF BuilderAccepts
      <4>2. BobBuilds(p, m)
        BY <1>1, <2>3, <3>2, <4>1, BegunCase
      <4>3. Delivers(p, m, r3) /\ HasBaseKey(StatesOf(r3), m.base)
        BY <1>1, <2>3, <2>5, <4>2, BegunDelivers, DeliverRemembers
      <4> QED BY <1>1, <2>3, <4>1, <4>3, BegunRemoves
    <3> QED BY <3>1, <3>2
  <2> QED BY <1>1, <1>2, <2>4, <2>6, CallDelivering
<1> QED BY <1>1, <1>3, <1>4

LEMMA DeliverNext ==
  SessInv /\ StepInv /\ DeliverInv /\ WithinLimits /\ WithinLimits' /\ [Next]_vars => DeliverInv'
<1> SUFFICES ASSUME SessInv, StepInv, DeliverInv, WithinLimits, WithinLimits', [Next]_vars
             PROVE  DeliverInv'
  OBVIOUS
<1>1. resets = 0 /\ resets' = 0
  BY DEF WithinLimits
<1>2. CASE UNCHANGED vars
  <2>1. /\ rec' = rec /\ sent' = sent /\ accepted' = accepted /\ server' = server
        /\ trusted' = trusted /\ op' = op /\ opks' = opks
    BY <1>2 DEF vars
  <2>2. DOMAIN trusted' = Party
    BY <2>1 DEF DeliverInv
  <2> QED BY <2>1, <2>2, CalmStep
<1>3. ASSUME NEW p \in Party, Call(p) PROVE DeliverInv'
  <2>1. ASSUME NEW i \in Bundles(Peer(p)), ProcessPreKeyBundle(p, i) PROVE DeliverInv'
    BY <2>1, BundleDelivering
  <2>2. CASE Encrypt(p)
    <3>1. sent' = sent \/ sent' = sent \union {MessageOf(p, rec[p].cur)}
      BY <2>2 DEF Encrypt
    <3> QED BY <2>2, <3>1, UnsentDelivering, SentDelivering
  <2>3. ASSUME NEW m \in sent, DecryptPreKeySignalMessage(p, m) \/ DecryptSignalMessage(p, m)
        PROVE  DeliverInv'
    BY <2>3, PreKeyMessageDelivering, SignalMessageDelivering
  <2>4. CASE StoreSession(p)
    BY <2>4, StoreDelivering
  <2>5. CASE AbortDecrypt(p) \/ RemovePreKey(p)
    BY <1>1, <2>5, CalmActions
  <2> QED BY <1>3, <2>1, <2>2, <2>3, <2>4, <2>5 DEF Call
<1>4. ASSUME NEW p \in Party, Application(p) PROVE DeliverInv'
  <2>1. CASE DeleteSession(p) \/ Reinstall(p)
    <3>1. resets' = resets + 1
      BY <2>1 DEF DeleteSession, Reinstall
    <3> QED BY <1>1, <3>1
  <2>2. CASE TrustIdentity(p)
    BY <1>1, <2>2, CalmActions
  <2> QED BY <1>4, <2>1, <2>2 DEF Application
<1> QED BY <1>2, <1>3, <1>4 DEF Next

(* A message that was not committed yet is always decrypted when the       *)
(* application hands it to session_cipher_decrypt_*: whatever was received *)
(* before it and however often, whichever sessions both parties began      *)
(* meanwhile, in a decryption callback too, and whichever calls failed or  *)
(* crashed, as long as no session is deleted and no limit of the code is   *)
(* reached.                                                                *)
THEOREM StaysDeliverable == Spec /\ []WithinLimits => []Deliverable
<1> DEFINE Inv == SessInv /\ StepInv /\ DeliverInv
<1>1. Init => Inv
  BY SessInit, StepInit, DeliverInit
<1>2. Inv /\ WithinLimits /\ WithinLimits' /\ [Next]_vars => Inv'
  <2> SUFFICES ASSUME SessInv, StepInv, DeliverInv, WithinLimits, WithinLimits', [Next]_vars
               PROVE  SessInv' /\ StepInv' /\ DeliverInv'
    OBVIOUS
  <2>1. SessInv'
    BY SessNext
  <2>2. StepInv'
    BY DeliverRemembers, StepNext
  <2>3. DeliverInv'
    BY DeliverNext
  <2> QED BY <2>1, <2>2, <2>3
<1>3. Inv /\ WithinLimits => Deliverable
  BY InvDeliverable
<1> QED BY <1>1, <1>2, <1>3, PTL DEF Spec

=============================================================================
