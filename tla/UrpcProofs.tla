----------------------------- MODULE UrpcProofs -----------------------------
(***************************************************************************)
(* An acceptor and any number of learners over URPC, with rings of any size *)
(* that urpc_transport_create accepts, a urpc_t of any width and any number *)
(* of messages: an ack every NB_MESSAGES messages keeps the sender out of   *)
(* unread slots, and the epoch in a slot tells new messages from old ones.  *)
(*                                                                         *)
(* The ids and epochs of the code wrap, so the proof follows the real       *)
(* counts. Message n to a learner is the n-th stored, and the rounds of     *)
(* NB_MESSAGES messages that the sender has finished are the acks that it   *)
(* has received.                                                           *)
(***************************************************************************)
EXTENDS Urpc, RingArithmetic

(* Message n is stored in slot Home(n) ... *)
Home(n) == (n - 1) % NB_MESSAGES

(* ... where it finds the epoch and the payload of the message before it.  *)
OldEpoch(n) == IF n <= NB_MESSAGES THEN 0 ELSE Cast(n - NB_MESSAGES)
OldData(n) == IF n <= NB_MESSAGES THEN 0 ELSE n - NB_MESSAGES

(* The sent_id of the n-th message, which was n - 1; 0 if there was none *)
SentId(n) == IF n = 0 THEN 0 ELSE Cast(n - 1)

(* memcpy has stored the last word of the message after produced[c] *)
LastIsStored(c) == Storing(c) /\ "last" \in stored[c[1]]

(* Messages in the ring that c writes, and those that its peer can see *)
Written(c) == produced[c] + (IF LastIsStored(c) THEN 1 ELSE 0)
Visible(c) == produced[c] + (IF AtWrap(c) THEN 1 ELSE 0)

Waiting == pc[0] \in {"recv", "peek"}

(* Messages of this round sent to learner l, when its ack has not come *)
SentInRound(l) ==
  IF Waiting THEN IF l < at[0] THEN 0 ELSE NB_MESSAGES
             ELSE in_transit[0] + (IF l < at[0] THEN 1 ELSE 0)

PcInv ==
  /\ at[0] \in Learners
  /\ pc[0] = "idle" => at[0] = 1
  /\ in_transit[0] = NB_MESSAGES <=> Waiting
  /\ \A l \in Learners :
       /\ at[l] = 0 /\ pc[l] # "idle"
       /\ stored[l] \in SUBSET {"last"}
       /\ in_transit[l] = NB_MESSAGES <=> pc[l] = "send"
  /\ \A p \in Nodes : stored[p] # {} => pc[p] = "send"

(* The same messages go to every learner, to learner 1 first. *)
LockstepInv ==
  /\ \A l \in Learners :
       produced[<<0, l>>] = produced[<<0, NbLearners>>] +
                              (IF pc[0] = "send" /\ l < at[0] THEN 1 ELSE 0)
  /\ pc[0] = "send" => produced[<<0, NbLearners>>] < MaxMessages
  /\ produced[<<0, NbLearners>>] <= MaxMessages

(* A round per ack, at both ends. *)
RoundInv ==
  \A l \in Learners :
    /\ produced[<<0, l>>] = NB_MESSAGES * consumed[<<0, l>>] + SentInRound(l)
    /\ consumed[<<l, 0>>] = NB_MESSAGES * produced[<<l, 0>>] + in_transit[l]

(* Nobody receives what was not sent. *)
SeenInv ==
  \A c \in Conns :
    /\ consumed[Peer(c)] <= Visible(c)
    /\ Conn(c[1]) = c /\ pc[c[1]] = "peek" => consumed[c] < Visible(Peer(c))

(* The positions, epochs and ids of both ends are the real counts, wrapped. *)
PlaceInv ==
  \A c \in Conns :
    /\ out_pos[c] = produced[c] % NB_MESSAGES /\ in_pos[c] = consumed[c] % NB_MESSAGES
    /\ out_epoch[c] = Cast(produced[c] + 1) /\ in_epoch[c] = Cast(consumed[c] + 1)
    /\ sent_id[c] = Cast(produced[c]) /\ seq_id[c] = SentId(consumed[c])

(* What an end knows to be acked: the last message of the last round that   *)
(* is over; at a learner in the middle of a round, the ack before it.      *)
AckInv ==
  \A l \in Learners :
    /\ ack_id[<<0, l>>] = SentId(NB_MESSAGES * consumed[<<0, l>>])
    /\ in_transit[l] > 0 => ack_id[<<l, 0>>] = SentId(produced[<<l, 0>>])

(* A slot keeps the epoch of its last message until the last word of the    *)
(* next one is copied.                                                      *)
EpochInv ==
  \A c \in Conns : \A n \in produced[c] + 1 .. produced[c] + NB_MESSAGES :
    buf[c][Home(n)].epoch =
      IF n = produced[c] + 1 /\ LastIsStored(c) THEN 0 ELSE OldEpoch(n)

(* Messages whose last word is written, but not received, carry their ids.  *)
FlightInv ==
  \A c \in Conns : \A n \in consumed[Peer(c)] + 1 .. Written(c) :
    /\ buf[c][Home(n)].sent = SentId(n)
    /\ buf[c][Home(n)].seq = SentId(IF c[1] = 0 THEN consumed[c] ELSE NB_MESSAGES * n)

(* A slot keeps its payload until that of the next message is copied, and   *)
(* the learners took what they received.                                   *)
DataInv ==
  \A l \in Learners :
    /\ \A n \in produced[<<0, l>>] + 1 .. produced[<<0, l>>] + NB_MESSAGES :
         buf[<<0, l>>][Home(n)].data =
           IF n = produced[<<0, l>>] + 1 /\ at[0] = l /\ "payload" \in stored[0]
           THEN n ELSE OldData(n)
    /\ Len(got[l]) = consumed[<<l, 0>>]

UrpcInv ==
  /\ UrpcTypeOK
  /\ PcInv /\ LockstepInv /\ RoundInv /\ SeenInv /\ PlaceInv /\ AckInv
  /\ EpochInv /\ FlightInv /\ DataInv /\ WholeUnlessEpochZero

-----------------------------------------------------------------------------
(* The constants, ids and slots *)

(* The range of a urpc_t and a ring are positive numbers. *)
LEMMA Moduli ==
  /\ 2 ^ UrpcBits \in Nat \ {0} /\ NB_MESSAGES < 2 ^ UrpcBits
  /\ NB_MESSAGES \in Nat \ {0} /\ NB_MESSAGES >= 1
  /\ NbLearners \in Nat \ {0} /\ MaxMessages \in Nat
BY UrpcAssumption

(* A count that is cast is a urpc_t. *)
LEMMA CastType == ASSUME NEW n \in Nat PROVE Cast(n) \in Urpc_t
BY Moduli, DivMod DEF Cast, Urpc_t

(* Incrementing a urpc_t is incrementing the count. *)
LEMMA CastNext == ASSUME NEW n \in Nat PROVE Cast(Cast(n) + 1) = Cast(n + 1)
BY Moduli, NextOfIndex DEF Cast

(* 0 and 1 are themselves in a urpc_t. *)
LEMMA CastSmall == Cast(0) = 0 /\ Cast(1) = 1
<1>1. 0 \in 0 .. 2 ^ UrpcBits - 1 /\ 1 \in 0 .. 2 ^ UrpcBits - 1
  BY Moduli
<1> QED
  BY <1>1, Moduli, SmallIndex DEF Cast

(* Counts that are less than a range apart do not have the same cast. *)
LEMMA CastApart ==
  ASSUME NEW m \in Nat, NEW n \in Nat, m < n, n <= m + NB_MESSAGES
  PROVE  Cast(m) # Cast(n)
<1>1. ~(n >= m + 2 ^ UrpcBits)
  BY Moduli
<1> QED
  BY <1>1, Moduli, SameIndexFarApart DEF Cast

(* Ids of counts at most a ring apart are subtracted exactly. *)
LEMMA CastDifference ==
  ASSUME NEW a \in Nat, NEW b \in Nat, b <= a, a - b <= NB_MESSAGES
  PROVE  Cast(Cast(a) - Cast(b)) = a - b
<1>1. a - b < 2 ^ UrpcBits
  BY Moduli
<1> QED
  BY <1>1, Moduli, IndexDifference DEF Cast

(* The id of a message is a urpc_t. *)
LEMMA SentIdType == ASSUME NEW n \in Nat PROVE SentId(n) \in Urpc_t
<1>1. CASE n = 0
  BY <1>1, CastType, CastSmall DEF SentId
<1>2. CASE n # 0
  <2>1. n - 1 \in Nat
    BY <1>2
  <2> QED
    BY <1>2, <2>1, CastType DEF SentId
<1> QED
  BY <1>1, <1>2

(* The id of a message is the count before it. *)
LEMMA SentIdNext == ASSUME NEW n \in Nat PROVE SentId(n + 1) = Cast(n)
<1>1. n + 1 # 0 /\ n + 1 - 1 = n
  OBVIOUS
<1> QED
  BY <1>1 DEF SentId

(* A message lives in a slot of the ring, the one its count points to, ... *)
LEMMA HomeIsSlot ==
  ASSUME NEW n \in Nat
  PROVE  /\ Home(n + 1) = n % NB_MESSAGES /\ Home(n + 1) \in Slots
         /\ NextPos(Home(n + 1)) = Home(n + 2)
<1>1. n + 1 - 1 = n /\ n + 2 - 1 = n + 1
  OBVIOUS
<1>2. Home(n + 1) = n % NB_MESSAGES /\ Home(n + 2) = (n + 1) % NB_MESSAGES
  BY <1>1 DEF Home
<1>3. ((n % NB_MESSAGES) + 1) % NB_MESSAGES = (n + 1) % NB_MESSAGES
  BY Moduli, NextOfIndex
<1>4. n % NB_MESSAGES \in 0 .. NB_MESSAGES - 1
  BY Moduli, DivMod
<1> QED
  BY <1>2, <1>3, <1>4 DEF Slots, NextPos

(* ... which no other message of the same ring shares, ... *)
LEMMA HomeApart ==
  ASSUME NEW m \in Nat \ {0}, NEW n \in Nat \ {0}, m < n, n < m + NB_MESSAGES
  PROVE  Home(m) # Home(n)
<1> DEFINE a == m - 1
           b == n - 1
<1>1. a \in Nat /\ b \in Nat /\ a < b /\ ~(b >= a + NB_MESSAGES)
  BY Moduli
<1> HIDE DEF a, b
<1>2. a % NB_MESSAGES # b % NB_MESSAGES
  BY <1>1, Moduli, SameIndexFarApart
<1> QED
  BY <1>2 DEF Home, a, b

(* ... until the message a ring later, which finds its epoch and payload. *)
LEMMA NextLap ==
  ASSUME NEW n \in Nat \ {0}
  PROVE  /\ Home(n + NB_MESSAGES) = Home(n)
         /\ OldEpoch(n + NB_MESSAGES) = Cast(n)
         /\ OldData(n + NB_MESSAGES) = n
<1> DEFINE a == n - 1
           b == a + NB_MESSAGES
<1>1. a \in Nat /\ b \in Nat /\ b >= NB_MESSAGES /\ b - NB_MESSAGES = a
      /\ n + NB_MESSAGES - 1 = b /\ NB_MESSAGES \in Nat \ {0}
  BY Moduli
<1> HIDE DEF a, b
<1>2. a % NB_MESSAGES = b % NB_MESSAGES
  BY <1>1, RingBack
<1>3. ~(n + NB_MESSAGES <= NB_MESSAGES) /\ n + NB_MESSAGES - NB_MESSAGES = n
  BY Moduli
<1> QED
  BY <1>1, <1>2, <1>3 DEF Home, OldEpoch, OldData, a

(* The epoch of a message is not the one in its slot. *)
LEMMA EpochIsNew ==
  ASSUME NEW n \in Nat \ {0}
  PROVE  OldEpoch(n) # Cast(n)
<1>1. CASE n <= NB_MESSAGES
  <2>1. 0 \in Nat /\ 0 < n /\ n <= 0 + NB_MESSAGES /\ n \in Nat
    BY <1>1, Moduli
  <2>2. Cast(0) # Cast(n)
    BY <2>1, CastApart
  <2> QED
    BY <1>1, <2>2, CastSmall DEF OldEpoch
<1>2. CASE ~(n <= NB_MESSAGES)
  <2> DEFINE m == n - NB_MESSAGES
  <2>1. m \in Nat /\ m < n /\ n <= m + NB_MESSAGES /\ n \in Nat
    BY <1>2, Moduli
  <2>2. Cast(m) # Cast(n)
    BY <2>1, CastApart
  <2> QED
    BY <1>2, <2>2 DEF OldEpoch
<1> QED
  BY <1>1, <1>2

(* A round more is at least NB_MESSAGES messages more. *)
LEMMA RoundOrder ==
  ASSUME NEW a \in Nat, NEW b \in Nat, a < b
  PROVE  NB_MESSAGES * a + NB_MESSAGES <= NB_MESSAGES * b
<1>1. 0 \in 0 .. NB_MESSAGES - 1
  BY Moduli
<1> QED
  BY <1>1, Moduli, QuotientOrder

(* Every connection is one of a learner, and its ends are two nodes. *)
LEMMA ConnEnds ==
  /\ \A l \in Learners :
       /\ <<0, l>> \in Conns /\ <<l, 0>> \in Conns /\ l \in Nodes /\ l \in Nat /\ l # 0
       /\ Peer(<<0, l>>) = <<l, 0>> /\ Peer(<<l, 0>>) = <<0, l>>
  /\ 0 \in Nodes
  /\ \A c \in Conns : \E l \in Learners : c = <<0, l>> \/ c = <<l, 0>>
  /\ \A p \in Nodes : p = 0 \/ p \in Learners
  /\ NbLearners \in Learners /\ 1 \in Learners
BY Moduli DEF Conns, Learners, Nodes, Peer

(* The node of an end, and the end of the peer *)
LEMMA PeerEnds ==
  ASSUME NEW c \in Conns
  PROVE  /\ Peer(c) \in Conns /\ Peer(Peer(c)) = c /\ Peer(c) # c
         /\ c[1] \in Nodes /\ Peer(c)[1] # c[1]
<1>1. PICK l \in Learners : c = <<0, l>> \/ c = <<l, 0>>
  BY ConnEnds
<1>2. <<0, l>>[1] = 0 /\ <<l, 0>>[1] = l /\ l # 0 /\ 0 \in Nodes /\ l \in Nodes
  BY ConnEnds
<1>3. <<0, l>> # <<l, 0>>
  BY <1>2
<1>4. CASE c = <<0, l>>
  BY <1>2, <1>3, <1>4, ConnEnds
<1>5. CASE c = <<l, 0>>
  BY <1>2, <1>3, <1>5, ConnEnds
<1> QED
  BY <1>1, <1>4, <1>5

(* Where the nodes are *)
LEMMA ConnOf ==
  ASSUME PcInv
  PROVE  /\ Conn(0) = <<0, at[0]>> /\ Conn(0) \in Conns
         /\ \A l \in Learners : Conn(l) = <<l, 0>>
         /\ \A p \in Nodes : Conn(p) \in Conns /\ Conn(p)[1] = p
BY ConnEnds DEF PcInv, Conn

-----------------------------------------------------------------------------
(* What the invariant says of a round *)

(* A visible message is written, and only the one being sent is not counted. *)
LEMMA WrittenIs ==
  ASSUME UrpcTypeOK, PcInv, NEW c \in Conns
  PROVE  /\ produced[c] <= Visible(c) /\ Visible(c) <= Written(c)
         /\ Written(c) <= produced[c] + 1
         /\ Written(c) = produced[c] + 1 => Storing(c)
         /\ Storing(c) => pc[c[1]] = "send" /\ Conn(c[1]) = c
<1>1. produced[c] \in Nat /\ c[1] \in Nodes
  BY PeerEnds DEF UrpcTypeOK
<1> QED
  BY <1>1 DEF Written, Visible, AtWrap, LastIsStored, Storing, PcInv

(* The counts at the two ends of a connection, in rounds: an end that is    *)
(* sending has an empty slot, a round ends after the ack, and what the      *)
(* learner can still receive is of the round that the sender is in.         *)
LEMMA Rounds ==
  ASSUME UrpcInv, NEW l \in Learners
  PROVE  LET acks == consumed[<<0, l>>]
             acked == produced[<<l, 0>>]
         IN
         /\ acks \in Nat /\ acked \in Nat
         /\ NB_MESSAGES * acks <= consumed[<<l, 0>>]
         /\ acked <= acks + 1
         /\ pc[l] = "send" => acked <= acks
         /\ pc[l] # "send" => acks <= acked
         /\ pc[l] # "send" /\ consumed[<<l, 0>>] < Visible(<<0, l>>) => acked = acks
         /\ produced[<<0, l>>] <= NB_MESSAGES * acks + NB_MESSAGES
         /\ pc[0] = "send" /\ at[0] = l =>
              /\ produced[<<0, l>>] = NB_MESSAGES * acks + in_transit[0]
              /\ in_transit[0] < NB_MESSAGES
         /\ acks < Visible(<<l, 0>>) => NB_MESSAGES * acks + NB_MESSAGES <= consumed[<<l, 0>>]
<1> DEFINE acks == consumed[<<0, l>>]
           acked == produced[<<l, 0>>]
           sent == produced[<<0, l>>]
           received == consumed[<<l, 0>>]
           t == in_transit[l]
           u == in_transit[0]
           s == SentInRound(l)
           v == Visible(<<0, l>>)
           w == Visible(<<l, 0>>)
<1>1. /\ acks \in Nat /\ acked \in Nat /\ sent \in Nat /\ received \in Nat
      /\ t \in 0 .. NB_MESSAGES /\ u \in 0 .. NB_MESSAGES /\ NB_MESSAGES \in Nat \ {0}
      /\ NB_MESSAGES * acks \in Nat /\ NB_MESSAGES * acked \in Nat
      /\ at[0] \in Nat /\ l \in Nat
  <2>1. <<0, l>> \in Conns /\ <<l, 0>> \in Conns /\ l \in Nodes /\ 0 \in Nodes /\ l \in Nat
    BY ConnEnds
  <2>2. acks \in Nat /\ acked \in Nat /\ sent \in Nat /\ received \in Nat
    BY <2>1 DEF UrpcInv, UrpcTypeOK
  <2>3. t \in 0 .. NB_MESSAGES /\ u \in 0 .. NB_MESSAGES
    BY <2>1 DEF UrpcInv, UrpcTypeOK
  <2>4. at[0] \in Nat
    BY DEF UrpcInv, PcInv, Learners
  <2> QED
    BY <2>1, <2>2, <2>3, <2>4, Moduli
<1>2. /\ sent = NB_MESSAGES * acks + s /\ received = NB_MESSAGES * acked + t
      /\ received <= v /\ acks <= w
  BY ConnEnds DEF UrpcInv, RoundInv, SeenInv
<1>3. /\ sent <= v /\ v <= sent + 1 /\ (v = sent + 1 => pc[0] = "send" /\ at[0] = l)
      /\ acked <= w /\ w <= acked + 1 /\ (w = acked + 1 => pc[l] = "send")
      /\ v \in Nat /\ w \in Nat
  <2>1. <<0, l>>[1] = 0 /\ <<l, 0>>[1] = l /\ <<0, l>> \in Conns /\ <<l, 0>> \in Conns
    BY ConnEnds
  <2>2. Conn(0) = <<0, l>> => at[0] = l
    BY DEF Conn
  <2>3. Visible(<<0, l>>) \in Nat /\ Visible(<<l, 0>>) \in Nat
    BY <1>1 DEF Visible
  <2>4. Written(<<0, l>>) \in Nat /\ Written(<<l, 0>>) \in Nat
    BY <1>1 DEF Written
  <2>5. /\ sent <= v /\ v <= Written(<<0, l>>) /\ Written(<<0, l>>) <= sent + 1
        /\ Written(<<0, l>>) = sent + 1 => pc[0] = "send" /\ at[0] = l
    BY <2>1, <2>2, WrittenIs DEF UrpcInv
  <2>6. /\ acked <= w /\ w <= Written(<<l, 0>>) /\ Written(<<l, 0>>) <= acked + 1
        /\ Written(<<l, 0>>) = acked + 1 => pc[l] = "send"
    BY <2>1, WrittenIs DEF UrpcInv
  <2> QED
    BY <1>1, <2>3, <2>4, <2>5, <2>6
<1>4. /\ s \in 0 .. NB_MESSAGES
      /\ pc[0] = "send" /\ at[0] = l => s = u /\ u < NB_MESSAGES
  BY <1>1 DEF SentInRound, UrpcInv, PcInv, Waiting
<1>5. t = NB_MESSAGES <=> pc[l] = "send"
  BY DEF UrpcInv, PcInv
<1> DEFINE x == NB_MESSAGES * acks
           y == NB_MESSAGES * acked
<1>6. /\ acks < acked => x + NB_MESSAGES <= y
      /\ acked < acks => y + NB_MESSAGES <= x
      /\ acks + 1 < acked => x + NB_MESSAGES + NB_MESSAGES <= y
      /\ acks = acked => x = y
      /\ acks = acked + 1 => x = y + NB_MESSAGES
  <2>1. acks < acked => x + NB_MESSAGES <= y
    BY <1>1, RoundOrder
  <2>2. acked < acks => y + NB_MESSAGES <= x
    BY <1>1, RoundOrder
  <2>3. ASSUME acks + 1 < acked PROVE x + NB_MESSAGES + NB_MESSAGES <= y
    <3>1. acks + 1 \in Nat /\ NB_MESSAGES * (acks + 1) = x + NB_MESSAGES
      BY <1>1
    <3>2. NB_MESSAGES * (acks + 1) + NB_MESSAGES <= y
      BY <1>1, <2>3, <3>1, RoundOrder
    <3> QED
      BY <3>1, <3>2
  <2>4. NB_MESSAGES * (acked + 1) = y + NB_MESSAGES
    BY <1>1
  <2> QED
    BY <2>1, <2>2, <2>3, <2>4
<1>7. x \in Nat /\ y \in Nat /\ sent = x + s /\ received = y + t
  BY <1>1, <1>2
<1> HIDE DEF acks, acked, sent, received, t, u, s, v, w, x, y
<1>8. v <= x + NB_MESSAGES
  <2>1. v = sent \/ v = sent + 1
    BY <1>1, <1>3
  <2> QED
    BY <1>1, <1>3, <1>4, <1>7, <2>1
<1>9. acked <= acks + 1
  BY <1>1, <1>2, <1>3, <1>6, <1>7, <1>8
<1>10. pc[l] = "send" => acked <= acks
  BY <1>1, <1>2, <1>3, <1>5, <1>6, <1>7, <1>8
<1>11. pc[l] # "send" => acks <= acked
  <2>1. w = acked \/ w = acked + 1
    BY <1>1, <1>3
  <2> QED
    BY <1>1, <1>2, <1>3, <2>1
<1>12. x <= received
  BY <1>1, <1>2, <1>3, <1>5, <1>6, <1>7, <1>11
<1>13. pc[l] # "send" /\ received < v => acked = acks
  BY <1>1, <1>2, <1>3, <1>6, <1>7, <1>8, <1>9, <1>11
<1>14. acks < w => x + NB_MESSAGES <= received
  BY <1>1, <1>2, <1>3, <1>5, <1>6, <1>7
<1>15. sent <= x + NB_MESSAGES
  BY <1>1, <1>4, <1>7
<1> QED
  BY <1>1, <1>4, <1>7, <1>9, <1>10, <1>11, <1>12, <1>13, <1>14, <1>15
     DEF acks, acked, sent, received, s, u, v, w, x

(* A node that sends has a slot whose last message was received. *)
LEMMA SendingHasSlot ==
  ASSUME UrpcInv, NEW p \in Nodes, pc[p] = "send"
  PROVE  produced[Conn(p)] + 1 <= consumed[Peer(Conn(p))] + NB_MESSAGES
<1>1. PICK l \in Learners : p = l \/ (p = 0 /\ at[0] = l)
  BY ConnEnds DEF UrpcInv, PcInv
<1> DEFINE acks == consumed[<<0, l>>]
           acked == produced[<<l, 0>>]
           x == NB_MESSAGES * acks
<1>2. /\ x <= consumed[<<l, 0>>]
      /\ pc[l] = "send" => acked <= acks
      /\ pc[0] = "send" /\ at[0] = l =>
              produced[<<0, l>>] = x + in_transit[0] /\ in_transit[0] < NB_MESSAGES
  BY Rounds
<1>3. /\ <<0, l>> \in Conns /\ <<l, 0>> \in Conns /\ 0 \in Nodes /\ l # 0
      /\ Peer(<<0, l>>) = <<l, 0>> /\ Peer(<<l, 0>>) = <<0, l>>
      /\ Conn(0) = <<0, at[0]>> /\ Conn(l) = <<l, 0>>
  BY ConnEnds, ConnOf DEF UrpcInv
<1>4. /\ NB_MESSAGES \in Nat /\ NB_MESSAGES >= 1 /\ in_transit[0] \in Nat
      /\ acks \in Nat /\ acked \in Nat
      /\ produced[<<0, l>>] \in Nat /\ consumed[<<l, 0>>] \in Nat
  BY <1>3, Moduli DEF UrpcInv, UrpcTypeOK
<1>5. x \in Nat
  BY <1>4
<1> HIDE DEF x
<1>6. CASE p = l
  BY <1>2, <1>3, <1>4, <1>6
<1>7. CASE p = 0 /\ at[0] = l
  BY <1>2, <1>3, <1>4, <1>5, <1>7
<1> QED
  BY <1>1, <1>6, <1>7

(* NeverOverrun: no message is stored over one that is not yet received. *)
LEMMA SlotIsFree ==
  ASSUME UrpcInv
  PROVE  NeverOverrun
<1> SUFFICES ASSUME NEW c \in Conns
             PROVE  produced[c] + (IF Storing(c) THEN 1 ELSE 0) <= consumed[Peer(c)] + NB_MESSAGES
  BY DEF NeverOverrun
<1>1. CASE Storing(c)
  <2>1. pc[c[1]] = "send" /\ Conn(c[1]) = c /\ c[1] \in Nodes
    BY <1>1, WrittenIs, PeerEnds DEF UrpcInv
  <2>2. produced[c] + 1 <= consumed[Peer(c)] + NB_MESSAGES
    BY <2>1, SendingHasSlot
  <2> QED
    BY <1>1, <2>2
<1>2. CASE ~Storing(c)
  <2>1. PICK l \in Learners : c = <<0, l>> \/ c = <<l, 0>>
    BY ConnEnds
  <2> DEFINE acks == consumed[<<0, l>>]
             acked == produced[<<l, 0>>]
             x == NB_MESSAGES * acks
  <2>2. /\ acks \in Nat /\ acked \in Nat
        /\ x <= consumed[<<l, 0>>] /\ acked <= acks + 1 /\ produced[<<0, l>>] <= x + NB_MESSAGES
    BY Rounds
  <2>3. NB_MESSAGES \in Nat /\ NB_MESSAGES >= 1 /\ x \in Nat
    BY <2>2, Moduli
  <2>4. produced[c] \in Nat /\ consumed[Peer(c)] \in Nat
    BY PeerEnds DEF UrpcInv, UrpcTypeOK
  <2>5. Peer(<<0, l>>) = <<l, 0>> /\ Peer(<<l, 0>>) = <<0, l>>
    BY ConnEnds
  <2> HIDE DEF x
  <2>6. CASE c = <<0, l>>
    BY <1>2, <2>2, <2>3, <2>4, <2>5, <2>6
  <2>7. CASE c = <<l, 0>>
    BY <1>2, <2>2, <2>3, <2>4, <2>5, <2>7
  <2> QED
    BY <2>1, <2>6, <2>7
<1> QED
  BY <1>1, <1>2

(* EpochTellsNew: the next slot holds the epoch of the next message if and  *)
(* only if that message is visible there.                                   *)
LEMMA EpochIsSeen ==
  ASSUME UrpcInv
  PROVE  EpochTellsNew
<1> SUFFICES ASSUME NEW c \in Conns
             PROVE  urpc_havemessage(Peer(c)) <=> consumed[Peer(c)] < Visible(c)
  BY DEF EpochTellsNew, Visible
<1> DEFINE P == produced[c]
           C == consumed[Peer(c)]
           old(n) == buf[c][Home(n)].epoch
<1>1. /\ P \in Nat /\ C \in Nat /\ Peer(c) \in Conns /\ Peer(Peer(c)) = c
      /\ NB_MESSAGES \in Nat /\ NB_MESSAGES >= 1
  BY Moduli, PeerEnds DEF UrpcInv, UrpcTypeOK
<1>2. in_pos[Peer(c)] = Home(C + 1) /\ in_epoch[Peer(c)] = Cast(C + 1)
  BY <1>1, HomeIsSlot DEF UrpcInv, PlaceInv
<1>3. \A n \in P + 1 .. P + NB_MESSAGES :
        old(n) = IF n = P + 1 /\ LastIsStored(c) THEN 0 ELSE OldEpoch(n)
  BY DEF UrpcInv, EpochInv
<1>4. urpc_havemessage(Peer(c)) <=> old(C + 1) = Cast(C + 1)
  BY <1>1, <1>2 DEF urpc_havemessage
<1>5. out_epoch[c] = Cast(P + 1) /\ C <= Visible(c)
  BY DEF UrpcInv, PlaceInv, SeenInv
<1>6. AtWrap(c) <=> Cast(P + 1) = 0 /\ LastIsStored(c)
  BY <1>5 DEF AtWrap, LastIsStored
<1>7. P + (IF LastIsStored(c) THEN 1 ELSE 0) <= C + NB_MESSAGES
  BY <1>1, SlotIsFree DEF NeverOverrun, LastIsStored
<1>8. Visible(c) = P + (IF AtWrap(c) THEN 1 ELSE 0)
  BY DEF Visible
<1> SUFFICES old(C + 1) = Cast(C + 1) <=> C < Visible(c)
  BY <1>4
<1> HIDE DEF P, C, old
<1>9. CASE C < P
  <2>1. C + 1 + NB_MESSAGES \in P + 1 .. P + NB_MESSAGES /\ C + 1 \in Nat \ {0}
    BY <1>1, <1>7, <1>9
  <2>2. ~(C + 1 + NB_MESSAGES = P + 1 /\ LastIsStored(c))
    BY <1>1, <1>7
  <2>3. Home(C + 1 + NB_MESSAGES) = Home(C + 1) /\ OldEpoch(C + 1 + NB_MESSAGES) = Cast(C + 1)
    BY <2>1, NextLap
  <2>4. old(C + 1) = old(C + 1 + NB_MESSAGES)
    BY <2>3 DEF old
  <2> QED
    BY <1>1, <1>3, <1>8, <1>9, <2>1, <2>2, <2>3, <2>4
<1>10. CASE C = P
  <2>1. P + 1 \in P + 1 .. P + NB_MESSAGES /\ P + 1 \in Nat \ {0}
    BY <1>1
  <2>2. OldEpoch(P + 1) # Cast(P + 1)
    BY <2>1, EpochIsNew
  <2> QED
    BY <1>1, <1>3, <1>6, <1>8, <1>10, <2>1, <2>2
<1>11. CASE C = P + 1 /\ AtWrap(c)
  <2>1. old(P + 2) # Cast(P + 2)
    <3>1. CASE NB_MESSAGES = 1
      <4>1. Home(P + 2) = Home(P + 1)
        <5>1. P + 1 \in Nat \ {0} /\ P + 1 + NB_MESSAGES = P + 2
          BY <1>1, <3>1
        <5> QED
          BY <5>1, NextLap
      <4>2. P + 1 \in P + 1 .. P + NB_MESSAGES
        BY <1>1
      <4>3. old(P + 2) = 0
        BY <1>3, <1>6, <1>11, <4>1, <4>2 DEF old
      <4>4. Cast(P + 1) # Cast(P + 2)
        <5>1. P + 1 \in Nat /\ P + 2 \in Nat /\ P + 1 < P + 2 /\ P + 2 <= P + 1 + NB_MESSAGES
          BY <1>1
        <5> QED
          BY <5>1, CastApart
      <4> QED
        BY <1>6, <1>11, <4>3, <4>4
    <3>2. CASE NB_MESSAGES # 1
      <4>1. P + 2 \in P + 1 .. P + NB_MESSAGES /\ P + 2 # P + 1 /\ P + 2 \in Nat \ {0}
        BY <1>1, <3>2
      <4> QED
        BY <1>3, <4>1, EpochIsNew
    <3> QED
      BY <3>1, <3>2
  <2> QED
    BY <1>1, <1>8, <1>11, <2>1
<1>12. C < P \/ C = P \/ (C = P + 1 /\ AtWrap(c))
  BY <1>1, <1>5, <1>8
<1> QED
  BY <1>9, <1>10, <1>11, <1>12

(* Who may send may send without waiting, though ids wrap. *)
LEMMA SenderMaySend ==
  ASSUME UrpcInv
  PROVE  SendNeverSpins
<1> SUFFICES ASSUME NEW p \in Nodes, pc[p] = "send"
             PROVE  cansend(Conn(p))
  BY DEF SendNeverSpins
<1>1. CASE p = 0
  <2> DEFINE l == at[0]
             acks == consumed[<<0, l>>]
             P == produced[<<0, l>>]
             r == NB_MESSAGES * acks
  <2>1. l \in Learners /\ Conn(p) = <<0, l>> /\ <<0, l>> \in Conns
    BY <1>1, ConnOf, ConnEnds DEF UrpcInv, PcInv
  <2>2. /\ acks \in Nat /\ P = r + in_transit[0] /\ in_transit[0] < NB_MESSAGES
    BY <1>1, <2>1, Rounds
  <2>3. P \in Nat /\ r \in Nat /\ in_transit[0] \in Nat /\ NB_MESSAGES \in Nat
    BY <2>1, <2>2, Moduli, ConnEnds DEF UrpcInv, UrpcTypeOK
  <2>4. sent_id[<<0, l>>] = Cast(P) /\ ack_id[<<0, l>>] = SentId(r)
    BY <2>1 DEF UrpcInv, PlaceInv, AckInv
  <2> HIDE DEF l, acks, P, r
  <2>5. CASE r = 0
    <3>1. 0 \in Nat /\ 0 <= P /\ P - 0 <= NB_MESSAGES /\ P - 0 = P
      BY <2>2, <2>3, <2>5
    <3>2. Cast(Cast(P) - Cast(0)) = P
      BY <2>3, <3>1, CastDifference
    <3> QED
      BY <2>1, <2>4, <2>5, <3>1, <3>2, CastSmall DEF cansend, SentId
  <2>6. CASE r # 0
    <3>1. r - 1 \in Nat /\ r - 1 <= P /\ P - (r - 1) <= NB_MESSAGES
      BY <2>2, <2>3, <2>6
    <3>2. Cast(Cast(P) - Cast(r - 1)) = P - (r - 1)
      BY <2>3, <3>1, CastDifference
    <3> QED
      BY <2>1, <2>4, <2>6, <3>1, <3>2 DEF cansend, SentId
  <2> QED
    BY <2>5, <2>6
<1>2. CASE p \in Learners
  <2> DEFINE acked == produced[<<p, 0>>]
  <2>1. Conn(p) = <<p, 0>> /\ <<p, 0>> \in Conns /\ acked \in Nat
        /\ NB_MESSAGES \in Nat /\ NB_MESSAGES >= 1
    BY <1>2, ConnOf, ConnEnds, Moduli DEF UrpcInv, UrpcTypeOK
  <2>2. sent_id[<<p, 0>>] = Cast(acked) /\ ack_id[<<p, 0>>] = SentId(acked)
    <3>1. in_transit[p] > 0
      BY <1>2, <2>1 DEF UrpcInv, PcInv
    <3> QED
      BY <1>2, <2>1, <3>1 DEF UrpcInv, PlaceInv, AckInv
  <2> HIDE DEF acked
  <2>3. CASE acked = 0
    <3>1. 0 \in Nat /\ 0 <= 0 /\ 0 - 0 <= NB_MESSAGES /\ 0 - 0 = 0
      BY <2>1
    <3>2. Cast(Cast(0) - Cast(0)) = 0
      BY <3>1, CastDifference
    <3> QED
      BY <2>1, <2>2, <2>3, <3>2, CastSmall DEF cansend, SentId
  <2>4. CASE acked # 0
    <3>1. acked - 1 \in Nat /\ acked - 1 <= acked /\ acked - (acked - 1) = 1
      BY <2>1, <2>4
    <3>2. Cast(Cast(acked) - Cast(acked - 1)) = 1
      BY <2>1, <3>1, CastDifference
    <3> QED
      BY <2>1, <2>2, <2>4, <3>2 DEF cansend, SentId
  <2> QED
    BY <2>3, <2>4
<1> QED
  BY <1>1, <1>2, ConnEnds

-----------------------------------------------------------------------------
(* The steps *)

Messages == [data : Bodies, epoch : Urpc_t, seq : Urpc_t, sent : Urpc_t]

(* What each step finds: at the connection of p, in the types *)
LEMMA StepTypes ==
  ASSUME UrpcInv, NEW p \in Nodes
  PROVE  LET c == Conn(p) IN
         /\ c \in Conns /\ Peer(c) \in Conns /\ Peer(Peer(c)) = c /\ Peer(c) # c
         /\ c[1] = p /\ Peer(c)[1] # p
         /\ c = IF p = 0 THEN <<0, at[0]>> ELSE <<p, 0>>
         /\ produced[c] \in Nat /\ consumed[c] \in Nat /\ consumed[Peer(c)] \in Nat
         /\ out_pos[c] = Home(produced[c] + 1) /\ in_pos[c] = Home(consumed[c] + 1)
         /\ Home(produced[c] + 1) \in Slots /\ Home(consumed[c] + 1) \in Slots
         /\ buf[c][out_pos[c]] \in Messages /\ buf[Peer(c)][in_pos[c]] \in Messages
<1> DEFINE c == Conn(p)
<1>1. c \in Conns /\ c[1] = p /\ c = IF p = 0 THEN <<0, at[0]>> ELSE <<p, 0>>
  BY ConnOf, ConnEnds DEF UrpcInv
<1> HIDE DEF c
<1>2. Peer(c) \in Conns /\ Peer(Peer(c)) = c /\ Peer(c) # c /\ Peer(c)[1] # p
  BY <1>1, PeerEnds
<1>3. produced[c] \in Nat /\ consumed[c] \in Nat /\ consumed[Peer(c)] \in Nat
  BY <1>1, <1>2 DEF UrpcInv, UrpcTypeOK
<1>4. out_pos[c] = Home(produced[c] + 1) /\ in_pos[c] = Home(consumed[c] + 1)
  BY <1>1, <1>3, HomeIsSlot DEF UrpcInv, PlaceInv
<1>5. Home(produced[c] + 1) \in Slots /\ Home(consumed[c] + 1) \in Slots
  BY <1>3, HomeIsSlot
<1>6. buf[c][out_pos[c]] \in Messages /\ buf[Peer(c)][in_pos[c]] \in Messages
  BY <1>1, <1>2, <1>4, <1>5 DEF UrpcInv, UrpcTypeOK, Messages
<1> QED
  BY <1>1, <1>2, <1>3, <1>4, <1>5, <1>6 DEF c

(* An index or an id that moves on stays in its type. *)
LEMMA NextTypes ==
  ASSUME NEW pos \in Slots, NEW id \in Urpc_t
  PROVE  NextPos(pos) \in Slots /\ NextEpoch(id) \in Urpc_t /\ Cast(id + 1) \in Urpc_t
<1>1. pos + 1 \in Nat /\ id + 1 \in Nat
  BY Moduli DEF Slots, Urpc_t
<1> QED
  BY <1>1, Moduli, DivMod, CastType DEF Slots, NextPos, NextEpoch

(* UrpcTypeOK: the slot written to remains a message. *)
LEMMA WriteType ==
  ASSUME UrpcTypeOK, NEW c \in Conns, NEW s \in Slots, NEW m \in Messages,
         buf' = [buf EXCEPT ![c][s] = m]
  PROVE  buf' \in [Conns -> [Slots -> Messages]]
<1>1. buf \in [Conns -> [Slots -> Messages]]
  BY DEF UrpcTypeOK, Messages
<1>2. [buf[c] EXCEPT ![s] = m] \in [Slots -> Messages]
  BY <1>1
<1> QED
  BY <1>1, <1>2

(* Each step keeps the types. *)
LEMMA TypeStep == ASSUME UrpcInv, [Next]_vars PROVE UrpcTypeOK'
<1> USE DEF channel, ids, Goto, Pcs
<1> SUFFICES buf' \in [Conns -> [Slots -> Messages]] /\ UrpcTypeOK'
  OBVIOUS
<1>1. UrpcTypeOK /\ PcInv /\ buf \in [Conns -> [Slots -> Messages]]
  BY DEF UrpcInv, UrpcTypeOK, Messages
<1>2. 0 \in Nodes /\ NB_MESSAGES \in Nat /\ NB_MESSAGES >= 1
  BY Moduli, ConnEnds
<1>3. CASE UNCHANGED vars
  BY <1>1, <1>3 DEF UrpcTypeOK, vars
<1>4. CASE SendCall
  BY <1>1, <1>2, <1>4 DEF UrpcTypeOK, SendCall
<1>5. CASE CopyPayload
  <2> DEFINE c == Conn(0)
             m == [buf[c][out_pos[c]] EXCEPT !.data = produced[c] + 1]
  <2>1. /\ c \in Conns /\ out_pos[c] \in Slots /\ buf[c][out_pos[c]] \in Messages
        /\ produced[c] \in Nat
    BY <1>2, StepTypes
  <2>2. produced[c] + 1 \in Bodies
    <3>1. c = <<0, at[0]>> /\ at[0] \in Learners
      BY <1>1, ConnOf DEF PcInv
    <3>2. produced[c] = produced[<<0, NbLearners>>]
      <4>1. at[0] \in Nat
        BY <3>1, ConnEnds
      <4>2. ~(at[0] < at[0])
        BY <4>1
      <4>3. produced[<<0, NbLearners>>] \in Nat
        BY <1>1, ConnEnds DEF UrpcTypeOK
      <4> QED
        BY <3>1, <4>2, <4>3 DEF UrpcInv, LockstepInv
    <3> QED
      BY <1>5, <2>1, <3>2, Moduli DEF UrpcInv, LockstepInv, CopyPayload, Bodies
  <2>3. m \in Messages
    BY <2>1, <2>2 DEF Messages
  <2>4. buf' = [buf EXCEPT ![c][out_pos[c]] = m]
    BY <1>5 DEF CopyPayload
  <2> HIDE DEF m
  <2>5. buf' \in [Conns -> [Slots -> Messages]]
    BY <1>1, <2>1, <2>3, <2>4, WriteType
  <2> QED
    BY <1>1, <1>2, <1>5, <2>5 DEF UrpcTypeOK, CopyPayload, Messages
<1>6. ASSUME NEW p \in Nodes, CopyLast(p) PROVE UrpcTypeOK'
  <2> DEFINE c == Conn(p)
             m == [buf[c][out_pos[c]] EXCEPT !.epoch = 0, !.seq = seq_id[c], !.sent = sent_id[c]]
  <2>1. c \in Conns /\ out_pos[c] \in Slots /\ buf[c][out_pos[c]] \in Messages
    BY StepTypes
  <2>2. 0 \in Urpc_t /\ seq_id[c] \in Urpc_t /\ sent_id[c] \in Urpc_t
    BY <1>1, <2>1, CastType, CastSmall DEF UrpcTypeOK
  <2>3. m \in Messages
    BY <2>1, <2>2 DEF Messages
  <2>4. buf' = [buf EXCEPT ![c][out_pos[c]] = m]
    BY <1>6 DEF CopyLast
  <2> HIDE DEF m
  <2>5. buf' \in [Conns -> [Slots -> Messages]]
    BY <1>1, <2>1, <2>3, <2>4, WriteType
  <2> QED
    BY <1>1, <1>2, <1>6, <2>5 DEF UrpcTypeOK, CopyLast, Messages
<1>7. ASSUME NEW p \in Nodes, StoreEpoch(p) PROVE UrpcTypeOK'
  <2> DEFINE c == Conn(p)
             m == [buf[c][out_pos[c]] EXCEPT !.epoch = out_epoch[c]]
  <2>1. /\ c \in Conns /\ out_pos[c] \in Slots /\ buf[c][out_pos[c]] \in Messages
        /\ produced[c] \in Nat
    BY StepTypes
  <2>2. out_epoch[c] \in Urpc_t /\ sent_id[c] \in Urpc_t
    BY <1>1, <2>1 DEF UrpcTypeOK
  <2>3. m \in Messages
    BY <2>1, <2>2 DEF Messages
  <2>4. buf' = [buf EXCEPT ![c][out_pos[c]] = m]
    BY <1>7 DEF StoreEpoch
  <2> HIDE DEF m
  <2>5. buf' \in [Conns -> [Slots -> Messages]]
    BY <1>1, <2>1, <2>3, <2>4, WriteType
  <2>6. /\ NextPos(out_pos[c]) \in Slots /\ NextEpoch(out_epoch[c]) \in Urpc_t
        /\ Cast(sent_id[c] + 1) \in Urpc_t /\ produced[c] + 1 \in Nat
    BY <2>1, <2>2, NextTypes
  <2>7. out_pos' \in [Conns -> Slots] /\ out_epoch' \in [Conns -> Urpc_t]
        /\ sent_id' \in [Conns -> Urpc_t] /\ produced' \in [Conns -> Nat]
    BY <1>1, <1>7, <2>6 DEF UrpcTypeOK, StoreEpoch
  <2>8. stored' \in [Nodes -> SUBSET {"payload", "last"}] /\ pc' \in [Nodes -> Pcs]
    BY <1>1, <1>2, <1>7 DEF UrpcTypeOK, StoreEpoch
  <2>9. at' \in [Nodes -> Nodes] /\ in_transit' \in [Nodes -> 0 .. NB_MESSAGES]
    <3>1. p = 0 /\ at[0] # NbLearners => at[0] + 1 \in Nodes
      BY <1>1, Moduli DEF PcInv, Nodes, Learners
    <3>2. p = 0 => in_transit[0] + 1 \in 0 .. NB_MESSAGES
      <4>1. p = 0 => ~Waiting
        BY <1>7 DEF StoreEpoch, Waiting
      <4>2. in_transit[0] = NB_MESSAGES <=> Waiting
        BY <1>1 DEF PcInv
      <4>3. in_transit[0] \in 0 .. NB_MESSAGES /\ NB_MESSAGES \in Nat
        BY <1>1, <1>2, Moduli DEF UrpcTypeOK, Nodes
      <4> QED
        BY <4>1, <4>2, <4>3
    <3>3. 1 \in Nodes /\ 0 \in 0 .. NB_MESSAGES
      BY <1>2, Moduli DEF Nodes
    <3>4. at \in [Nodes -> Nodes] /\ in_transit \in [Nodes -> 0 .. NB_MESSAGES]
      BY <1>1 DEF UrpcTypeOK
    <3> QED
      BY <1>7, <3>1, <3>2, <3>3, <3>4 DEF StoreEpoch
  <2> QED
    BY <1>1, <1>7, <2>5, <2>7, <2>8, <2>9 DEF UrpcTypeOK, StoreEpoch, Messages
<1>8. ASSUME NEW p \in Nodes, Poll(p) PROVE UrpcTypeOK'
  BY <1>1, <1>8 DEF UrpcTypeOK, Poll
<1>9. ASSUME NEW p \in Nodes, Receive(p) PROVE UrpcTypeOK'
  <2> DEFINE c == Conn(p)
             m == buf[Peer(c)][in_pos[c]]
  <2>1. c \in Conns /\ in_pos[c] \in Slots /\ m \in Messages /\ consumed[c] \in Nat
    BY StepTypes
  <2>2. in_epoch[c] \in Urpc_t
    BY <1>1, <2>1 DEF UrpcTypeOK
  <2>3. m.seq \in Urpc_t /\ m.sent \in Urpc_t /\ m.data \in Bodies
    BY <2>1 DEF Messages
  <2>4. NextPos(in_pos[c]) \in Slots /\ NextEpoch(in_epoch[c]) \in Urpc_t /\ consumed[c] + 1 \in Nat
    BY <2>1, <2>2, NextTypes
  <2> HIDE DEF m
  <2>5. /\ ack_id' = [ack_id EXCEPT ![c] = m.seq] /\ seq_id' = [seq_id EXCEPT ![c] = m.sent]
        /\ p # 0 => got' = [got EXCEPT ![p] = Append(@, m.data)]
        /\ p = 0 => got' = got
    BY <1>9 DEF Receive, get_the_message, m
  <2>6. in_pos' \in [Conns -> Slots] /\ in_epoch' \in [Conns -> Urpc_t]
        /\ ack_id' \in [Conns -> Urpc_t] /\ seq_id' \in [Conns -> Urpc_t]
        /\ consumed' \in [Conns -> Nat]
    BY <1>1, <1>9, <2>3, <2>4, <2>5 DEF UrpcTypeOK, Receive
  <2>7. got' \in [Learners -> Seq(Bodies)]
    <3>1. CASE p = 0
      BY <1>1, <2>5, <3>1 DEF UrpcTypeOK
    <3>2. CASE p # 0
      <4>1. p \in Learners /\ got[p] \in Seq(Bodies)
        BY <1>1, <3>2, ConnEnds DEF UrpcTypeOK
      <4>2. Append(got[p], m.data) \in Seq(Bodies)
        BY <2>3, <4>1
      <4> QED
        BY <1>1, <2>5, <3>2, <4>2 DEF UrpcTypeOK
    <3> QED
      BY <3>1, <3>2
  <2>8. at' \in [Nodes -> Nodes] /\ in_transit' \in [Nodes -> 0 .. NB_MESSAGES]
    <3>1. p = 0 /\ at[0] # NbLearners => at[0] + 1 \in Nodes
      BY <1>1, Moduli DEF PcInv, Nodes, Learners
    <3>2. p # 0 => in_transit[p] + 1 \in 0 .. NB_MESSAGES
      <4>1. p # 0 => p \in Learners
        BY ConnEnds
      <4>2. pc[p] = "peek"
        BY <1>9 DEF Receive
      <4>3. p # 0 => in_transit[p] # NB_MESSAGES
        BY <1>1, <4>1, <4>2 DEF PcInv
      <4>4. in_transit[p] \in 0 .. NB_MESSAGES /\ NB_MESSAGES \in Nat
        BY <1>1, Moduli DEF UrpcTypeOK
      <4> QED
        BY <4>3, <4>4
    <3>3. 1 \in Nodes /\ 0 \in 0 .. NB_MESSAGES
      BY <1>2, Moduli DEF Nodes
    <3>4. at \in [Nodes -> Nodes] /\ in_transit \in [Nodes -> 0 .. NB_MESSAGES]
      BY <1>1 DEF UrpcTypeOK
    <3>5. at' \in [Nodes -> Nodes]
      BY <1>9, <3>1, <3>3, <3>4 DEF Receive
    <3>6. in_transit' \in [Nodes -> 0 .. NB_MESSAGES]
      BY <1>9, <3>2, <3>3, <3>4 DEF Receive
    <3> QED
      BY <3>5, <3>6
  <2>9. pc' \in [Nodes -> Pcs]
    BY <1>1, <1>9 DEF UrpcTypeOK, Receive
  <2> QED
    BY <1>1, <1>9, <2>6, <2>7, <2>8, <2>9 DEF UrpcTypeOK, Receive
<1> QED
  BY <1>3, <1>4, <1>5, <1>6, <1>7, <1>8, <1>9 DEF Next, Step, UrpcTypeOK, Messages

(* Each step keeps the nodes where they can be. *)
LEMMA PcStep == ASSUME UrpcInv, [Next]_vars PROVE PcInv'
<1> USE DEF channel, ids, Goto
<1>1. /\ pc \in [Nodes -> Pcs] /\ at \in [Nodes -> Nodes]
      /\ stored \in [Nodes -> SUBSET {"payload", "last"}]
      /\ in_transit \in [Nodes -> 0 .. NB_MESSAGES]
      /\ PcInv
  BY DEF UrpcInv, UrpcTypeOK
<1>2. /\ 0 \in Nodes /\ NB_MESSAGES \in Nat /\ NB_MESSAGES >= 1
      /\ \A l \in Learners : l \in Nodes /\ l # 0
      /\ \A p \in Nodes : p = 0 \/ p \in Learners
      /\ 1 \in Learners
      /\ \A l \in Learners : l # NbLearners => l + 1 \in Learners
  <2>1. \A l \in Learners : l # NbLearners => l + 1 \in Learners
    BY Moduli DEF Learners
  <2> QED
    BY <2>1, Moduli, ConnEnds
<1>3. CASE UNCHANGED vars
  BY <1>1, <1>3 DEF PcInv, vars, Waiting
<1>4. CASE SendCall
  BY <1>1, <1>2, <1>4 DEF PcInv, SendCall, Waiting
<1>5. CASE CopyPayload
  BY <1>1, <1>2, <1>5 DEF PcInv, CopyPayload, Waiting
<1>6. ASSUME NEW p \in Nodes, CopyLast(p) PROVE PcInv'
  BY <1>1, <1>2, <1>6 DEF PcInv, CopyLast, Waiting
<1>7. ASSUME NEW p \in Nodes, StoreEpoch(p) PROVE PcInv'
  <2>1. CASE p = 0
    BY <1>1, <1>2, <1>7, <2>1 DEF PcInv, StoreEpoch, Waiting, AckDue
  <2>2. CASE p # 0
    BY <1>1, <1>2, <1>7, <2>2 DEF PcInv, StoreEpoch, Waiting
  <2> QED
    BY <2>1, <2>2
<1>8. ASSUME NEW p \in Nodes, Poll(p) PROVE PcInv'
  BY <1>1, <1>2, <1>8 DEF PcInv, Poll, Waiting
<1>9. ASSUME NEW p \in Nodes, Receive(p) PROVE PcInv'
  <2>1. CASE p = 0
    <3>1. at'[0] \in Learners /\ (pc'[0] = "idle" => at'[0] = 1)
      BY <1>1, <1>2, <1>9, <2>1 DEF PcInv, Receive
    <3>2. in_transit'[0] = NB_MESSAGES <=> pc'[0] \in {"recv", "peek"}
      BY <1>1, <1>2, <1>9, <2>1 DEF PcInv, Receive, Waiting
    <3>3. \A l \in Learners : at'[l] = at[l] /\ pc'[l] = pc[l] /\ in_transit'[l] = in_transit[l]
      BY <1>1, <1>2, <1>9, <2>1 DEF Receive
    <3>4. stored' = stored /\ stored[0] = {} /\ \A q \in Nodes : stored[q] # {} => q # 0
      BY <1>1, <1>9, <2>1, <1>2 DEF PcInv, Receive
    <3> QED
      BY <1>1, <1>2, <3>1, <3>2, <3>3, <3>4 DEF PcInv, Waiting
  <2>2. CASE p # 0
    BY <1>1, <1>2, <1>9, <2>2 DEF PcInv, Receive, Waiting, AckDue
  <2> QED
    BY <2>1, <2>2
<1> QED
  BY <1>3, <1>4, <1>5, <1>6, <1>7, <1>8, <1>9 DEF Next, Step

(* Each step keeps the learners in step. *)
LEMMA LockstepStep == ASSUME UrpcInv, [Next]_vars PROVE LockstepInv'
<1> USE DEF channel, ids, Goto
<1>1. /\ pc \in [Nodes -> Pcs] /\ at \in [Nodes -> Nodes]
      /\ produced \in [Conns -> Nat]
      /\ PcInv /\ LockstepInv
  BY DEF UrpcInv, UrpcTypeOK
<1>2. /\ 0 \in Nodes /\ MaxMessages \in Nat
      /\ \A l \in Learners : /\ l \in Nodes /\ l # 0 /\ l >= 1 /\ l <= NbLearners /\ l \in Nat
                              /\ <<0, l>> \in Conns /\ produced[<<0, l>>] \in Nat
      /\ \A p \in Nodes : p = 0 \/ p \in Learners
      /\ NbLearners \in Learners
  <2>1. \A l \in Learners : l >= 1 /\ l <= NbLearners
    BY Moduli DEF Learners
  <2> QED
    BY <1>1, <2>1, Moduli, ConnEnds
<1>3. CASE UNCHANGED vars
  BY <1>1, <1>3 DEF LockstepInv, vars
<1>4. CASE SendCall
  BY <1>1, <1>2, <1>4 DEF LockstepInv, PcInv, SendCall
<1>5. CASE CopyPayload
  BY <1>1, <1>2, <1>5 DEF LockstepInv, CopyPayload
<1>6. ASSUME NEW p \in Nodes, CopyLast(p) PROVE LockstepInv'
  BY <1>1, <1>2, <1>6 DEF LockstepInv, CopyLast
<1>7. ASSUME NEW p \in Nodes, StoreEpoch(p) PROVE LockstepInv'
  <2> DEFINE a == at[0]
             n == produced[<<0, NbLearners>>]
  <2>1. CASE p = 0
    <3>1. /\ pc[0] = "send" /\ n < MaxMessages /\ n \in Nat /\ a \in Learners
          /\ produced' = [produced EXCEPT ![<<0, a>>] = @ + 1]
          /\ \A l \in Learners : produced[<<0, l>>] = n + (IF l < a THEN 1 ELSE 0)
      BY <1>1, <1>2, <1>7, <2>1, ConnOf DEF LockstepInv, PcInv, StoreEpoch
    <3>2. /\ a # NbLearners => pc'[0] = "send" /\ at'[0] = a + 1
          /\ a = NbLearners => pc'[0] # "send"
      BY <1>1, <1>2, <1>7, <2>1 DEF StoreEpoch
    <3> HIDE DEF n, a
    <3>3. \A l \in Learners :
            produced'[<<0, l>>] = n + (IF l < a THEN 1 ELSE 0) + (IF l = a THEN 1 ELSE 0)
      <4> SUFFICES ASSUME NEW l \in Learners
                   PROVE  produced'[<<0, l>>] = n + (IF l < a THEN 1 ELSE 0) + (IF l = a THEN 1 ELSE 0)
        OBVIOUS
      <4>1. <<0, l>> = <<0, a>> <=> l = a
        OBVIOUS
      <4> QED
        BY <1>1, <1>2, <3>1, <4>1
    <3>4. CASE a = NbLearners
      <4>1. \A l \in Learners : produced'[<<0, l>>] = n + 1
        <5> TAKE l \in Learners
        <5>1. l \in Nat /\ NbLearners \in Nat /\ l <= NbLearners
          BY <1>2
        <5> QED
          BY <3>1, <3>3, <3>4, <5>1
      <4> QED
        BY <1>2, <3>1, <3>2, <3>4, <4>1 DEF LockstepInv
    <3>5. CASE a # NbLearners
      <4>1. \A l \in Learners : produced'[<<0, l>>] = n + (IF l < a + 1 THEN 1 ELSE 0)
        <5> TAKE l \in Learners
        <5>1. l \in Nat /\ a \in Nat
          BY <1>2, <3>1
        <5> QED
          BY <3>1, <3>3, <5>1
      <4>2. produced'[<<0, NbLearners>>] = n
        BY <1>2, <3>1, <3>5, <4>1
      <4> QED
        BY <1>2, <3>1, <3>2, <3>5, <4>1, <4>2 DEF LockstepInv
    <3> QED
      BY <3>4, <3>5
  <2>2. CASE p # 0
    <3>1. /\ produced' = [produced EXCEPT ![<<p, 0>>] = @ + 1]
          /\ pc'[0] = pc[0] /\ at'[0] = at[0]
      BY <1>1, <1>2, <1>7, <2>2, ConnOf DEF StoreEpoch
    <3>2. \A l \in Learners : produced'[<<0, l>>] = produced[<<0, l>>]
      BY <1>1, <1>2, <2>2, <3>1
    <3> QED
      BY <1>1, <1>2, <3>1, <3>2 DEF LockstepInv
  <2> QED
    BY <2>1, <2>2
<1>8. ASSUME NEW p \in Nodes, Poll(p) PROVE LockstepInv'
  BY <1>1, <1>2, <1>8 DEF LockstepInv, Poll
<1>9. ASSUME NEW p \in Nodes, Receive(p) PROVE LockstepInv'
  BY <1>1, <1>2, <1>9 DEF LockstepInv, Receive
<1> QED
  BY <1>3, <1>4, <1>5, <1>6, <1>7, <1>8, <1>9 DEF Next, Step

(* Each step keeps the rounds. *)
LEMMA RoundStep == ASSUME UrpcInv, [Next]_vars PROVE RoundInv'
<1> USE DEF channel, ids, Goto
<1> SUFFICES ASSUME NEW l \in Learners
             PROVE  /\ produced'[<<0, l>>] = NB_MESSAGES * consumed'[<<0, l>>] + SentInRound(l)'
                    /\ consumed'[<<l, 0>>] = NB_MESSAGES * produced'[<<l, 0>>] + in_transit'[l]
  BY DEF RoundInv
<1> DEFINE a == at[0]
           u == in_transit[0]
<1>1. /\ pc \in [Nodes -> Pcs] /\ at \in [Nodes -> Nodes]
      /\ in_transit \in [Nodes -> 0 .. NB_MESSAGES]
      /\ produced \in [Conns -> Nat] /\ consumed \in [Conns -> Nat]
      /\ PcInv
  BY DEF UrpcInv, UrpcTypeOK
<1>2. /\ l \in Nodes /\ l # 0 /\ l \in Nat /\ 0 \in Nodes
      /\ <<0, l>> \in Conns /\ <<l, 0>> \in Conns
      /\ \A p \in Nodes : p = 0 \/ p \in Learners
  BY ConnEnds
<1>3. /\ in_transit[l] \in Nat /\ u \in Nat
      /\ produced[<<0, l>>] \in Nat /\ consumed[<<0, l>>] \in Nat
      /\ produced[<<l, 0>>] \in Nat /\ consumed[<<l, 0>>] \in Nat
      /\ NB_MESSAGES \in Nat
  BY <1>1, <1>2, Moduli
<1>4. l >= 1 /\ l <= NbLearners /\ NbLearners \in Nat /\ a \in Learners
      /\ a \in Nat /\ a >= 1 /\ a <= NbLearners
  BY <1>1, Moduli DEF PcInv, Learners
<1>5. /\ produced[<<0, l>>] = NB_MESSAGES * consumed[<<0, l>>] + SentInRound(l)
      /\ consumed[<<l, 0>>] = NB_MESSAGES * produced[<<l, 0>>] + in_transit[l]
  BY DEF UrpcInv, RoundInv
<1>6. /\ NB_MESSAGES * (consumed[<<0, l>>] + 1) = NB_MESSAGES * consumed[<<0, l>>] + NB_MESSAGES
      /\ NB_MESSAGES * (produced[<<l, 0>>] + 1) = NB_MESSAGES * produced[<<l, 0>>] + NB_MESSAGES
      /\ NB_MESSAGES * consumed[<<0, l>>] \in Nat /\ NB_MESSAGES * produced[<<l, 0>>] \in Nat
  BY <1>3
<1>7. /\ SentInRound(l) \in Nat
      /\ SentInRound(l)' = IF pc'[0] \in {"recv", "peek"}
                            THEN IF l < at'[0] THEN 0 ELSE NB_MESSAGES
                            ELSE in_transit'[0] + (IF l < at'[0] THEN 1 ELSE 0)
  BY <1>3 DEF SentInRound, Waiting
<1>8. CASE UNCHANGED vars
  BY <1>5, <1>8 DEF SentInRound, Waiting, vars
<1>9. CASE SendCall
  BY <1>1, <1>2, <1>5, <1>9 DEF SentInRound, Waiting, SendCall
<1>10. CASE CopyPayload
  BY <1>5, <1>10 DEF SentInRound, Waiting, CopyPayload
<1>11. CASE \E p \in Nodes : CopyLast(p)
  BY <1>5, <1>11 DEF SentInRound, Waiting, CopyLast
<1>12. CASE \E p \in Nodes : Poll(p)
  BY <1>1, <1>2, <1>5, <1>12 DEF SentInRound, Waiting, Poll
<1>13. CASE StoreEpoch(0)
  <2>1. pc[0] = "send" /\ ~Waiting
    BY <1>13 DEF StoreEpoch, Waiting
  <2>2. /\ consumed' = consumed /\ in_transit'[l] = in_transit[l]
        /\ produced' = [produced EXCEPT ![<<0, a>>] = @ + 1]
    BY <1>1, <1>2, <1>13, ConnOf DEF StoreEpoch
  <2>3. SentInRound(l) = u + (IF l < a THEN 1 ELSE 0)
    BY <2>1 DEF SentInRound
  <2>4. SentInRound(l)' = u + (IF l <= a THEN 1 ELSE 0)
    <3>1. CASE a # NbLearners
      <4>1. pc'[0] = "send" /\ at'[0] = a + 1 /\ in_transit'[0] = u
        BY <1>1, <1>2, <1>13, <3>1 DEF StoreEpoch
      <4> QED
        BY <1>2, <1>3, <1>4, <1>7, <4>1
    <3>2. CASE a = NbLearners
      <4>1. /\ pc'[0] = IF u + 1 = NB_MESSAGES THEN "recv" ELSE "idle"
            /\ at'[0] = 1 /\ in_transit'[0] = u + 1
        BY <1>1, <1>2, <1>13, <3>2 DEF StoreEpoch, AckDue
      <4> QED
        BY <1>2, <1>3, <1>4, <1>7, <3>2, <4>1
    <3> QED
      BY <3>1, <3>2
  <2> HIDE DEF a, u
  <2>5. /\ produced'[<<l, 0>>] = produced[<<l, 0>>]
        /\ produced'[<<0, l>>] = IF l = a THEN produced[<<0, l>>] + 1 ELSE produced[<<0, l>>]
    BY <1>1, <1>2, <2>2
  <2> QED
    BY <1>3, <1>4, <1>5, <1>6, <2>2, <2>3, <2>4, <2>5
<1>14. ASSUME NEW p \in Learners, StoreEpoch(p)
       PROVE  /\ produced'[<<0, l>>] = NB_MESSAGES * consumed'[<<0, l>>] + SentInRound(l)'
              /\ consumed'[<<l, 0>>] = NB_MESSAGES * produced'[<<l, 0>>] + in_transit'[l]
  <2>1. /\ p # 0 /\ p \in Nodes /\ Conn(p) = <<p, 0>> /\ <<p, 0>> \in Conns
        /\ pc[p] = "send" /\ in_transit[p] = NB_MESSAGES
    BY <1>1, <1>14, ConnOf, ConnEnds DEF PcInv, StoreEpoch
  <2>2. /\ consumed' = consumed /\ produced' = [produced EXCEPT ![<<p, 0>>] = @ + 1]
        /\ in_transit' = [in_transit EXCEPT ![p] = 0] /\ at' = at
        /\ pc' = [pc EXCEPT ![p] = "recv"]
    BY <1>14, <2>1 DEF StoreEpoch
  <2>3. SentInRound(l)' = SentInRound(l)
    BY <1>1, <1>2, <2>1, <2>2 DEF SentInRound, Waiting
  <2>4. produced'[<<0, l>>] = produced[<<0, l>>]
    BY <1>1, <1>2, <2>1, <2>2
  <2>5. CASE p = l
    <3>1. produced'[<<l, 0>>] = produced[<<l, 0>>] + 1 /\ in_transit'[l] = 0
      BY <1>1, <1>2, <2>2, <2>5
    <3> QED
      BY <1>3, <1>5, <1>6, <2>1, <2>2, <2>3, <2>4, <2>5, <3>1
  <2>6. CASE p # l
    <3>1. produced'[<<l, 0>>] = produced[<<l, 0>>] /\ in_transit'[l] = in_transit[l]
      BY <1>1, <1>2, <2>2, <2>6
    <3> QED
      BY <1>5, <2>2, <2>3, <2>4, <3>1
  <2> QED
    BY <2>5, <2>6
<1>15. CASE Receive(0)
  <2>1. pc[0] = "peek" /\ Waiting
    BY <1>15 DEF Receive, Waiting
  <2>2. /\ produced' = produced /\ in_transit'[l] = in_transit[l]
        /\ consumed' = [consumed EXCEPT ![<<0, a>>] = @ + 1]
    BY <1>1, <1>2, <1>15, ConnOf DEF Receive
  <2>3. SentInRound(l) = IF l < a THEN 0 ELSE NB_MESSAGES
    BY <2>1 DEF SentInRound
  <2>4. SentInRound(l)' = IF l <= a THEN 0 ELSE NB_MESSAGES
    <3>1. CASE a # NbLearners
      <4>1. pc'[0] = "recv" /\ at'[0] = a + 1
        BY <1>1, <1>2, <1>15, <3>1 DEF Receive
      <4> QED
        BY <1>2, <1>3, <1>4, <1>7, <4>1
    <3>2. CASE a = NbLearners
      <4>1. pc'[0] = "idle" /\ at'[0] = 1 /\ in_transit'[0] = 0
        BY <1>1, <1>2, <1>15, <3>2 DEF Receive
      <4> QED
        BY <1>2, <1>3, <1>4, <1>7, <3>2, <4>1
    <3> QED
      BY <3>1, <3>2
  <2> HIDE DEF a, u
  <2>5. /\ consumed'[<<l, 0>>] = consumed[<<l, 0>>]
        /\ consumed'[<<0, l>>] = IF l = a THEN consumed[<<0, l>>] + 1 ELSE consumed[<<0, l>>]
    BY <1>1, <1>2, <2>2
  <2>6. CASE l = a
    <3>1. consumed'[<<0, l>>] = consumed[<<0, l>>] + 1 /\ SentInRound(l)' = 0
      BY <1>4, <2>4, <2>5, <2>6
    <3> QED
      BY <1>3, <1>4, <1>5, <1>6, <2>2, <2>3, <2>5, <2>6, <3>1
  <2>7. CASE l # a
    <3>0. l < a <=> l <= a
      BY <1>2, <1>4, <2>7
    <3>1. consumed'[<<0, l>>] = consumed[<<0, l>>] /\ SentInRound(l)' = SentInRound(l)
      BY <2>3, <2>4, <2>5, <2>7, <3>0
    <3> QED
      BY <1>5, <2>2, <2>5, <3>1
  <2> QED
    BY <2>6, <2>7
<1>16. ASSUME NEW p \in Learners, Receive(p)
       PROVE  /\ produced'[<<0, l>>] = NB_MESSAGES * consumed'[<<0, l>>] + SentInRound(l)'
              /\ consumed'[<<l, 0>>] = NB_MESSAGES * produced'[<<l, 0>>] + in_transit'[l]
  <2>1. p # 0 /\ p \in Nodes /\ Conn(p) = <<p, 0>> /\ <<p, 0>> \in Conns
    BY <1>1, ConnOf, ConnEnds
  <2>2. /\ produced' = produced /\ consumed' = [consumed EXCEPT ![<<p, 0>>] = @ + 1]
        /\ in_transit' = [in_transit EXCEPT ![p] = in_transit[p] + 1] /\ at' = at
        /\ \E label \in Pcs : pc' = [pc EXCEPT ![p] = label]
    BY <1>16, <2>1 DEF Receive, Pcs
  <2>3. SentInRound(l)' = SentInRound(l)
    BY <1>1, <1>2, <2>1, <2>2 DEF SentInRound, Waiting
  <2>4. consumed'[<<0, l>>] = consumed[<<0, l>>]
    BY <1>1, <1>2, <2>1, <2>2
  <2>5. CASE p = l
    <3>1. consumed'[<<l, 0>>] = consumed[<<l, 0>>] + 1 /\ in_transit'[l] = in_transit[l] + 1
      BY <1>1, <1>2, <2>2, <2>5
    <3> QED
      BY <1>3, <1>5, <1>6, <2>2, <2>3, <2>4, <3>1
  <2>6. CASE p # l
    <3>1. consumed'[<<l, 0>>] = consumed[<<l, 0>>] /\ in_transit'[l] = in_transit[l]
      BY <1>1, <1>2, <2>2, <2>6
    <3> QED
      BY <1>5, <2>2, <2>3, <2>4, <3>1
  <2> QED
    BY <2>5, <2>6
<1> QED
  BY <1>2, <1>8, <1>9, <1>10, <1>11, <1>12, <1>13, <1>14, <1>15, <1>16 DEF Next, Step

(* Between the store of the last word and that of the epoch, and then only, *)
(* the last word of a message not yet counted is in its slot.               *)
LEMMA LastStep ==
  ASSUME UrpcInv, [Next]_vars, NEW d \in Conns
  PROVE  /\ (UNCHANGED vars \/ SendCall \/ CopyPayload \/ \E p \in Nodes : Poll(p) \/ Receive(p))
              => (LastIsStored(d)' <=> LastIsStored(d))
         /\ \A p \in Nodes : CopyLast(p) =>
              /\ ~LastIsStored(Conn(p))
              /\ LastIsStored(d)' <=> LastIsStored(d) \/ d = Conn(p)
         /\ \A p \in Nodes : StoreEpoch(p) =>
              /\ LastIsStored(Conn(p))
              /\ LastIsStored(d)' <=> LastIsStored(d) /\ d # Conn(p)
<1> USE DEF channel, ids, Goto
<1> DEFINE q == d[1]
<1>1. /\ at \in [Nodes -> Nodes] /\ stored \in [Nodes -> SUBSET {"payload", "last"}]
      /\ \A p \in Nodes : stored[p] # {} => pc[p] = "send"
      /\ \A p \in Nodes : Conn(p)[1] = p
      /\ q \in Nodes
  BY ConnOf, PeerEnds DEF UrpcInv, UrpcTypeOK, PcInv
<1>2. /\ LastIsStored(d) <=> <<q, at[q]>> = d /\ "last" \in stored[q]
      /\ LastIsStored(d)' <=> <<q, at'[q]>> = d /\ "last" \in stored'[q]
  BY DEF LastIsStored, Storing, Conn
<1>3. \A p \in Nodes : LastIsStored(Conn(p)) <=> "last" \in stored[p]
  BY <1>1 DEF LastIsStored, Storing
<1> HIDE DEF q
<1>4. ASSUME UNCHANGED vars \/ SendCall PROVE LastIsStored(d)' <=> LastIsStored(d)
  BY <1>2, <1>4 DEF vars, SendCall
<1>5. ASSUME CopyPayload PROVE LastIsStored(d)' <=> LastIsStored(d)
  BY <1>1, <1>2, <1>5, ConnEnds DEF CopyPayload
<1>6. ASSUME NEW p \in Nodes, Poll(p) PROVE LastIsStored(d)' <=> LastIsStored(d)
  BY <1>2, <1>6 DEF Poll
<1>7. ASSUME NEW p \in Nodes, Receive(p) PROVE LastIsStored(d)' <=> LastIsStored(d)
  <2>1. stored' = stored /\ stored[p] = {}
    BY <1>1, <1>7 DEF Receive
  <2>2. q # p => at'[q] = at[q]
    BY <1>1, <1>7 DEF Receive
  <2> QED
    BY <1>1, <1>2, <2>1, <2>2
<1>8. ASSUME NEW p \in Nodes, CopyLast(p)
      PROVE  /\ ~LastIsStored(Conn(p))
             /\ LastIsStored(d)' <=> LastIsStored(d) \/ d = Conn(p)
  <2>1. at' = at /\ stored' = [stored EXCEPT ![p] = stored[p] \cup {"last"}] /\ "last" \notin stored[p]
    BY <1>8 DEF CopyLast
  <2>2. Conn(p) = <<p, at[p]>>
    BY DEF Conn
  <2>3. CASE q = p
    BY <1>1, <1>2, <1>3, <2>1, <2>2, <2>3
  <2>4. CASE q # p
    <3>1. d # Conn(p)
      BY <1>1, <2>4 DEF q
    <3> QED
      BY <1>1, <1>2, <1>3, <2>1, <2>4, <3>1
  <2> QED
    BY <2>3, <2>4
<1>9. ASSUME NEW p \in Nodes, StoreEpoch(p)
      PROVE  /\ LastIsStored(Conn(p))
             /\ LastIsStored(d)' <=> LastIsStored(d) /\ d # Conn(p)
  <2>1. stored' = [stored EXCEPT ![p] = {}] /\ "last" \in stored[p]
    BY <1>9 DEF StoreEpoch
  <2>2. q # p => at'[q] = at[q]
    BY <1>1, <1>9 DEF StoreEpoch
  <2>3. Conn(p) = <<p, at[p]>>
    BY DEF Conn
  <2>4. CASE q = p
    BY <1>1, <1>2, <1>3, <2>1, <2>3, <2>4
  <2>5. CASE q # p
    <3>1. d # Conn(p)
      BY <1>1, <2>5 DEF q
    <3> QED
      BY <1>1, <1>2, <1>3, <2>1, <2>2, <2>5, <3>1
  <2> QED
    BY <2>4, <2>5
<1> QED
  BY <1>4, <1>5, <1>6, <1>7, <1>8, <1>9

(* What is visible stays so. *)
LEMMA VisibleStep ==
  ASSUME UrpcInv, [Next]_vars, NEW d \in Conns
  PROVE  /\ Visible(d) \in Nat /\ Visible(d)' \in Nat
         /\ Visible(d) <= Visible(d)'
<1> USE DEF channel, ids, Goto
<1>1. produced \in [Conns -> Nat] /\ produced' \in [Conns -> Nat]
  BY TypeStep DEF UrpcInv, UrpcTypeOK
<1>2. /\ AtWrap(d) <=> out_epoch[d] = 0 /\ LastIsStored(d)
      /\ AtWrap(d)' <=> out_epoch'[d] = 0 /\ LastIsStored(d)'
  BY DEF AtWrap, LastIsStored, Storing, Conn
<1>3. /\ Visible(d) = produced[d] + (IF AtWrap(d) THEN 1 ELSE 0)
      /\ Visible(d)' = produced'[d] + (IF AtWrap(d)' THEN 1 ELSE 0)
  BY DEF Visible
<1>4. CASE UNCHANGED vars \/ SendCall \/ CopyPayload \/ \E p \in Nodes : Poll(p) \/ Receive(p)
  <2>1. produced' = produced /\ out_epoch' = out_epoch
    BY <1>4 DEF vars, SendCall, CopyPayload, Poll, Receive
  <2>2. LastIsStored(d)' <=> LastIsStored(d)
    BY <1>4, LastStep
  <2> QED
    BY <1>1, <1>2, <1>3, <2>1, <2>2
<1>5. ASSUME NEW p \in Nodes, CopyLast(p) PROVE Visible(d) <= Visible(d)'
  <2>1. produced' = produced /\ out_epoch' = out_epoch
    BY <1>5 DEF CopyLast
  <2>2. LastIsStored(d) => LastIsStored(d)'
    BY <1>5, LastStep
  <2> QED
    BY <1>1, <1>2, <1>3, <2>1, <2>2
<1>6. ASSUME NEW p \in Nodes, StoreEpoch(p) PROVE Visible(d) <= Visible(d)'
  <2>1. /\ produced' = [produced EXCEPT ![Conn(p)] = @ + 1]
        /\ d # Conn(p) => out_epoch'[d] = out_epoch[d]
    <3>1. out_epoch \in [Conns -> Urpc_t]
      BY DEF UrpcInv, UrpcTypeOK
    <3> QED
      BY <1>6, <3>1 DEF StoreEpoch
  <2>2. LastIsStored(d)' <=> LastIsStored(d) /\ d # Conn(p)
    BY <1>6, LastStep
  <2>3. CASE d = Conn(p)
    <3>1. produced'[d] = produced[d] + 1
      BY <1>1, <2>1, <2>3
    <3> QED
      BY <1>1, <1>3, <3>1
  <2>4. CASE d # Conn(p)
    <3>1. produced'[d] = produced[d]
      BY <1>1, <2>1, <2>4
    <3> QED
      BY <1>1, <1>2, <1>3, <2>1, <2>2, <2>4, <3>1
  <2> QED
    BY <2>3, <2>4
<1>7. Visible(d) \in Nat /\ Visible(d)' \in Nat
  BY <1>1, <1>3
<1>8. Visible(d) <= Visible(d)'
  BY <1>4, <1>5, <1>6 DEF Next, Step
<1> QED
  BY <1>7, <1>8

(* Each step keeps to what is visible. *)
LEMMA SeenStep == ASSUME UrpcInv, [Next]_vars PROVE SeenInv'
<1> USE DEF channel, ids, Goto
<1> SUFFICES ASSUME NEW c \in Conns
             PROVE  /\ consumed'[Peer(c)] <= Visible(c)'
                    /\ Conn(c[1])' = c /\ pc'[c[1]] = "peek" => consumed'[c] < Visible(Peer(c))'
  BY DEF SeenInv
<1> DEFINE q == c[1]
           e == Peer(c)
<1>1. /\ e \in Conns /\ Peer(e) = c /\ q \in Nodes
      /\ consumed \in [Conns -> Nat] /\ pc \in [Nodes -> Pcs] /\ at \in [Nodes -> Nodes]
      /\ \A p \in Nodes : Conn(p) \in Conns /\ Conn(p)[1] = p
      /\ \A p \in Nodes : p # q => Conn(p) # c
  BY PeerEnds, ConnOf DEF UrpcInv, UrpcTypeOK
<1>2. /\ consumed[e] <= Visible(c)
      /\ Conn(q) = c /\ pc[q] = "peek" => consumed[c] < Visible(e)
      /\ \A p \in Nodes : pc[p] = "peek" => consumed[Conn(p)] < Visible(Peer(Conn(p)))
  <2>1. \A d \in Conns : consumed[Peer(d)] <= Visible(d)
                       /\ (Conn(d[1]) = d /\ pc[d[1]] = "peek" => consumed[d] < Visible(Peer(d)))
    BY DEF UrpcInv, SeenInv
  <2>2. ASSUME NEW p \in Nodes, pc[p] = "peek" PROVE consumed[Conn(p)] < Visible(Peer(Conn(p)))
    BY <1>1, <2>1, <2>2
  <2> QED
    BY <2>1, <2>2
<1>3. /\ Visible(c) \in Nat /\ Visible(c)' \in Nat /\ Visible(c) <= Visible(c)'
      /\ Visible(e) \in Nat /\ Visible(e)' \in Nat /\ Visible(e) <= Visible(e)'
  BY <1>1, VisibleStep
<1>4. /\ Conn(q) = <<q, at[q]>> /\ Conn(q)' = <<q, at'[q]>>
  BY DEF Conn
<1> HIDE DEF q, e
<1> SUFFICES /\ consumed'[e] <= Visible(c)'
             /\ Conn(q)' = c /\ pc'[q] = "peek" => consumed'[c] < Visible(e)'
  BY DEF q, e
<1>5. CASE UNCHANGED vars \/ SendCall \/ CopyPayload \/ \E p \in Nodes : CopyLast(p)
  <2>1. consumed' = consumed /\ at' = at
    BY <1>5 DEF vars, SendCall, CopyPayload, CopyLast
  <2>2. pc'[q] = "peek" => pc[q] = "peek"
    BY <1>1, <1>5 DEF vars, SendCall, CopyPayload, CopyLast
  <2> QED
    BY <1>1, <1>2, <1>3, <1>4, <2>1, <2>2
<1>6. ASSUME NEW p \in Nodes, StoreEpoch(p)
      PROVE  /\ consumed'[e] <= Visible(c)'
             /\ Conn(q)' = c /\ pc'[q] = "peek" => consumed'[c] < Visible(e)'
  <2>1. consumed' = consumed
    BY <1>6 DEF StoreEpoch
  <2>2. pc'[q] = "peek" => pc[q] = "peek" /\ at'[q] = at[q]
    BY <1>1, <1>6 DEF StoreEpoch
  <2> QED
    BY <1>1, <1>2, <1>3, <1>4, <2>1, <2>2
<1>7. ASSUME NEW p \in Nodes, Poll(p)
      PROVE  /\ consumed'[e] <= Visible(c)'
             /\ Conn(q)' = c /\ pc'[q] = "peek" => consumed'[c] < Visible(e)'
  <2>1. consumed' = consumed /\ at' = at /\ urpc_havemessage(Conn(p))
    BY <1>7 DEF Poll
  <2>2. p # q => pc'[q] = pc[q]
    BY <1>1, <1>7 DEF Poll
  <2>3. urpc_havemessage(c) => consumed[c] < Visible(e)
    BY <1>1, EpochIsSeen DEF EpochTellsNew, Visible
  <2> QED
    BY <1>1, <1>2, <1>3, <1>4, <2>1, <2>2, <2>3
<1>8. ASSUME NEW p \in Nodes, Receive(p)
      PROVE  /\ consumed'[e] <= Visible(c)'
             /\ Conn(q)' = c /\ pc'[q] = "peek" => consumed'[c] < Visible(e)'
  <2>1. pc[p] = "peek" /\ consumed' = [consumed EXCEPT ![Conn(p)] = consumed[Conn(p)] + 1]
    BY <1>8 DEF Receive
  <2>2. p # q => pc'[q] = pc[q] /\ at'[q] = at[q]
    BY <1>1, <1>8 DEF Receive
  <2>3. pc'[p] # "peek"
    BY <1>1, <1>8 DEF Receive
  <2>4. consumed'[e] <= Visible(c)'
    <3>1. CASE e = Conn(p)
      <4>1. consumed'[e] = consumed[e] + 1 /\ consumed[e] < Visible(c) /\ consumed[e] \in Nat
        BY <1>1, <1>2, <2>1, <3>1
      <4> QED
        BY <1>3, <4>1
    <3>2. CASE e # Conn(p)
      <4>1. consumed'[e] = consumed[e] /\ consumed[e] \in Nat
        BY <1>1, <2>1, <3>2
      <4> QED
        BY <1>2, <1>3, <4>1
    <3> QED
      BY <3>1, <3>2
  <2>5. p # q => consumed'[c] = consumed[c]
    BY <1>1, <2>1
  <2> QED
    BY <1>1, <1>2, <1>3, <1>4, <2>2, <2>3, <2>4, <2>5
<1> QED
  BY <1>5, <1>6, <1>7, <1>8 DEF Next, Step

(* What a node is about to receive is the next message, with its ids. *)
LEMMA Received ==
  ASSUME UrpcInv, NEW p \in Nodes, pc[p] = "peek"
  PROVE  LET c == Conn(p)
             n == consumed[c] + 1
             message == buf[Peer(c)][in_pos[c]]
         IN
         /\ n <= Visible(Peer(c)) /\ n \in Nat \ {0}
         /\ message = buf[Peer(c)][Home(n)]
         /\ message.sent = SentId(n)
         /\ message.seq = SentId(IF p # 0 THEN consumed[Peer(c)] ELSE NB_MESSAGES * n)
<1> DEFINE c == Conn(p)
           n == consumed[c] + 1
<1>1. /\ c \in Conns /\ Peer(c) \in Conns /\ Peer(Peer(c)) = c /\ c[1] = p
      /\ in_pos[c] = Home(n) /\ consumed[c] \in Nat
  BY StepTypes
<1>2. Conn(c[1]) = c
  BY <1>1
<1>3. consumed[c] < Visible(Peer(c))
  BY <1>1, <1>2 DEF UrpcInv, SeenInv
<1>4. produced[Peer(c)] \in Nat
  BY <1>1 DEF UrpcInv, UrpcTypeOK
<1>5. Visible(Peer(c)) \in Nat /\ Written(Peer(c)) \in Nat /\ Visible(Peer(c)) <= Written(Peer(c))
  BY <1>1, <1>4, WrittenIs DEF Visible, Written, UrpcInv
<1>6. Peer(c)[1] = 0 <=> p # 0
  <2>1. PICK l \in Learners : c = <<0, l>> \/ c = <<l, 0>>
    BY <1>1, ConnEnds
  <2> HIDE DEF c
  <2>2. /\ <<0, l>>[1] = 0 /\ <<l, 0>>[1] = l /\ l # 0
        /\ Peer(<<0, l>>) = <<l, 0>> /\ Peer(<<l, 0>>) = <<0, l>>
    BY ConnEnds
  <2>3. CASE c = <<0, l>>
    BY <1>1, <2>2, <2>3
  <2>4. CASE c = <<l, 0>>
    BY <1>1, <2>2, <2>4
  <2> QED
    BY <2>1, <2>3, <2>4
<1> HIDE DEF c
<1>7. n \in consumed[Peer(Peer(c))] + 1 .. Written(Peer(c)) /\ n \in Nat \ {0} /\ n <= Visible(Peer(c))
  BY <1>1, <1>3, <1>5
<1>8. /\ buf[Peer(c)][Home(n)].sent = SentId(n)
      /\ buf[Peer(c)][Home(n)].seq =
           SentId(IF Peer(c)[1] = 0 THEN consumed[Peer(c)] ELSE NB_MESSAGES * n)
  BY <1>1, <1>7 DEF UrpcInv, FlightInv
<1> QED
  BY <1>1, <1>6, <1>7, <1>8 DEF c

(* Each step keeps positions, epochs and ids at the real counts. *)
LEMMA PlaceStep == ASSUME UrpcInv, [Next]_vars PROVE PlaceInv'
<1> USE DEF channel, ids, Goto
<1> SUFFICES ASSUME NEW c \in Conns
             PROVE  /\ out_pos'[c] = produced'[c] % NB_MESSAGES
                    /\ in_pos'[c] = consumed'[c] % NB_MESSAGES
                    /\ out_epoch'[c] = Cast(produced'[c] + 1)
                    /\ in_epoch'[c] = Cast(consumed'[c] + 1)
                    /\ sent_id'[c] = Cast(produced'[c]) /\ seq_id'[c] = SentId(consumed'[c])
  BY DEF PlaceInv, Cast, SentId
<1> DEFINE P == produced[c]
           C == consumed[c]
<1>1. /\ out_pos[c] = P % NB_MESSAGES /\ in_pos[c] = C % NB_MESSAGES
      /\ out_epoch[c] = Cast(P + 1) /\ in_epoch[c] = Cast(C + 1)
      /\ sent_id[c] = Cast(P) /\ seq_id[c] = SentId(C)
  BY DEF UrpcInv, PlaceInv
<1>2. /\ out_pos \in [Conns -> Slots] /\ in_pos \in [Conns -> Slots]
      /\ out_epoch \in [Conns -> Urpc_t] /\ in_epoch \in [Conns -> Urpc_t]
      /\ sent_id \in [Conns -> Urpc_t] /\ seq_id \in [Conns -> Urpc_t]
      /\ produced \in [Conns -> Nat] /\ consumed \in [Conns -> Nat]
  BY DEF UrpcInv, UrpcTypeOK
<1>3. P \in Nat /\ C \in Nat
  BY <1>2
<1>4. CASE UNCHANGED vars \/ SendCall \/ CopyPayload \/ \E p \in Nodes : CopyLast(p) \/ Poll(p)
  BY <1>1, <1>4 DEF vars, SendCall, CopyPayload, CopyLast, Poll
<1>5. ASSUME NEW n \in Nat
      PROVE  /\ NextPos(n % NB_MESSAGES) = (n + 1) % NB_MESSAGES
             /\ NextEpoch(Cast(n + 1)) = Cast((n + 1) + 1)
             /\ Cast(Cast(n) + 1) = Cast(n + 1)
  <2>1. ((n % NB_MESSAGES) + 1) % NB_MESSAGES = (n + 1) % NB_MESSAGES
    BY Moduli, NextOfIndex
  <2>2. n + 1 \in Nat
    OBVIOUS
  <2> QED
    BY <2>1, <2>2, CastNext DEF NextPos, NextEpoch
<1>6. CASE \E p \in Nodes : StoreEpoch(p)
  <2>1. PICK p \in Nodes : StoreEpoch(p)
    BY <1>6
  <2>2. /\ out_pos' = [out_pos EXCEPT ![Conn(p)] = NextPos(@)]
        /\ out_epoch' = [out_epoch EXCEPT ![Conn(p)] = NextEpoch(@)]
        /\ sent_id' = [sent_id EXCEPT ![Conn(p)] = Cast(@ + 1)]
        /\ produced' = [produced EXCEPT ![Conn(p)] = @ + 1]
        /\ UNCHANGED <<in_pos, in_epoch, seq_id, consumed>>
    BY <2>1 DEF StoreEpoch
  <2>3. CASE c # Conn(p)
    BY <1>1, <1>2, <2>2, <2>3
  <2>4. CASE c = Conn(p)
    <3>1. /\ out_pos'[c] = NextPos(out_pos[c]) /\ out_epoch'[c] = NextEpoch(out_epoch[c])
          /\ sent_id'[c] = Cast(sent_id[c] + 1) /\ produced'[c] = P + 1
      BY <1>2, <2>2, <2>4
    <3> HIDE DEF P
    <3> QED
      BY <1>1, <1>3, <1>5, <2>2, <3>1
  <2> QED
    BY <2>3, <2>4
<1>7. CASE \E p \in Nodes : Receive(p)
  <2>1. PICK p \in Nodes : Receive(p)
    BY <1>7
  <2> DEFINE m == buf[Peer(Conn(p))][in_pos[Conn(p)]]
  <2>2. m.sent = SentId(consumed[Conn(p)] + 1)
    BY <2>1, Received DEF Receive
  <2>3. /\ in_pos' = [in_pos EXCEPT ![Conn(p)] = NextPos(@)]
        /\ in_epoch' = [in_epoch EXCEPT ![Conn(p)] = NextEpoch(@)]
        /\ seq_id' = [seq_id EXCEPT ![Conn(p)] = m.sent]
        /\ consumed' = [consumed EXCEPT ![Conn(p)] = @ + 1]
        /\ UNCHANGED <<out_pos, out_epoch, sent_id, produced>>
    BY <2>1 DEF Receive, get_the_message
  <2> HIDE DEF m
  <2>4. CASE c # Conn(p)
    BY <1>1, <1>2, <2>3, <2>4
  <2>5. CASE c = Conn(p)
    <3>1. /\ in_pos'[c] = NextPos(in_pos[c]) /\ in_epoch'[c] = NextEpoch(in_epoch[c])
          /\ seq_id'[c] = SentId(C + 1) /\ consumed'[c] = C + 1
      BY <1>2, <2>2, <2>3, <2>5
    <3> HIDE DEF C
    <3> QED
      BY <1>1, <1>3, <1>5, <2>3, <3>1
  <2> QED
    BY <2>4, <2>5
<1> QED
  BY <1>4, <1>6, <1>7 DEF Next, Step

(* Each step keeps what the ends know to be acked. *)
LEMMA AckStep == ASSUME UrpcInv, [Next]_vars PROVE AckInv'
<1> USE DEF channel, ids, Goto
<1> SUFFICES ASSUME NEW l \in Learners
             PROVE  /\ ack_id'[<<0, l>>] = SentId(NB_MESSAGES * consumed'[<<0, l>>])
                    /\ in_transit'[l] > 0 => ack_id'[<<l, 0>>] = SentId(produced'[<<l, 0>>])
  BY DEF AckInv, SentId, Cast
<1>1. /\ ack_id[<<0, l>>] = SentId(NB_MESSAGES * consumed[<<0, l>>])
      /\ in_transit[l] > 0 => ack_id[<<l, 0>>] = SentId(produced[<<l, 0>>])
      /\ ack_id \in [Conns -> Urpc_t] /\ in_transit \in [Nodes -> 0 .. NB_MESSAGES]
      /\ produced \in [Conns -> Nat] /\ consumed \in [Conns -> Nat]
      /\ at[0] \in Learners
  BY DEF UrpcInv, AckInv, UrpcTypeOK, PcInv
<1>2. /\ l \in Nodes /\ l # 0 /\ 0 \in Nodes /\ <<0, l>> \in Conns /\ <<l, 0>> \in Conns
      /\ \A p \in Nodes : p = 0 \/ p \in Learners
      /\ Conn(0) = <<0, at[0]>> /\ \A p \in Learners : p # 0 /\ p \in Nodes /\ Conn(p) = <<p, 0>>
      /\ Peer(<<l, 0>>) = <<0, l>> /\ Peer(<<0, l>>) = <<l, 0>>
  BY ConnEnds, ConnOf DEF UrpcInv
<1>3. CASE UNCHANGED vars \/ SendCall \/ CopyPayload \/ \E p \in Nodes : CopyLast(p) \/ Poll(p)
  BY <1>1, <1>3 DEF vars, SendCall, CopyPayload, CopyLast, Poll
<1>4. CASE StoreEpoch(0)
  <2>1. /\ ack_id' = ack_id /\ consumed' = consumed /\ in_transit'[l] = in_transit[l]
        /\ produced' = [produced EXCEPT ![<<0, at[0]>>] = @ + 1]
    BY <1>1, <1>2, <1>4 DEF StoreEpoch
  <2>2. produced'[<<l, 0>>] = produced[<<l, 0>>]
    BY <1>1, <1>2, <2>1
  <2> QED
    BY <1>1, <2>1, <2>2
<1>5. ASSUME NEW p \in Learners, StoreEpoch(p)
      PROVE  /\ ack_id'[<<0, l>>] = SentId(NB_MESSAGES * consumed'[<<0, l>>])
             /\ in_transit'[l] > 0 => ack_id'[<<l, 0>>] = SentId(produced'[<<l, 0>>])
  <2>1. /\ ack_id' = ack_id /\ consumed' = consumed
        /\ in_transit' = [in_transit EXCEPT ![p] = 0]
        /\ produced' = [produced EXCEPT ![<<p, 0>>] = @ + 1]
    BY <1>2, <1>5 DEF StoreEpoch
  <2>2. p # l => produced'[<<l, 0>>] = produced[<<l, 0>>] /\ in_transit'[l] = in_transit[l]
    BY <1>1, <1>2, <2>1
  <2>3. p = l => ~(in_transit'[l] > 0)
    BY <1>1, <1>2, <2>1
  <2> QED
    BY <1>1, <2>1, <2>2, <2>3
<1>6. CASE Receive(0)
  <2> DEFINE a == at[0]
             m == buf[Peer(Conn(0))][in_pos[Conn(0)]]
  <2>1. /\ ack_id' = [ack_id EXCEPT ![<<0, a>>] = m.seq] /\ produced' = produced
        /\ consumed' = [consumed EXCEPT ![<<0, a>>] = @ + 1]
        /\ in_transit'[l] = in_transit[l]
    BY <1>1, <1>2, <1>6 DEF Receive, get_the_message
  <2>2. m.seq = SentId(NB_MESSAGES * (consumed[<<0, a>>] + 1))
    BY <1>2, <1>6, Received DEF Receive
  <2> HIDE DEF a, m
  <2>3. ack_id'[<<l, 0>>] = ack_id[<<l, 0>>]
    BY <1>1, <1>2, <2>1
  <2>4. a = l => ack_id'[<<0, l>>] = SentId(NB_MESSAGES * consumed'[<<0, l>>])
    BY <1>1, <1>2, <2>1, <2>2
  <2>5. a # l => ack_id'[<<0, l>>] = ack_id[<<0, l>>] /\ consumed'[<<0, l>>] = consumed[<<0, l>>]
    BY <1>1, <1>2, <2>1
  <2> QED
    BY <1>1, <2>1, <2>3, <2>4, <2>5
<1>7. ASSUME NEW p \in Learners, Receive(p)
      PROVE  /\ ack_id'[<<0, l>>] = SentId(NB_MESSAGES * consumed'[<<0, l>>])
             /\ in_transit'[l] > 0 => ack_id'[<<l, 0>>] = SentId(produced'[<<l, 0>>])
  <2> DEFINE m == buf[Peer(Conn(p))][in_pos[Conn(p)]]
  <2>1. /\ ack_id' = [ack_id EXCEPT ![<<p, 0>>] = m.seq] /\ produced' = produced
        /\ consumed' = [consumed EXCEPT ![<<p, 0>>] = @ + 1]
        /\ in_transit' = [in_transit EXCEPT ![p] = @ + 1]
    BY <1>2, <1>7 DEF Receive, get_the_message
  <2>2. m.seq = SentId(produced[<<p, 0>>])
    <3>1. pc[p] = "peek" /\ p # 0 /\ Peer(<<p, 0>>) = <<0, p>> /\ <<p, 0>> \in Conns
      BY <1>2, <1>7, ConnEnds DEF Receive
    <3>2. m.seq = SentId(consumed[<<0, p>>]) /\ consumed[<<p, 0>>] + 1 <= Visible(<<0, p>>)
      BY <1>2, <3>1, Received
    <3>3. Visible(<<0, p>>) \in Nat /\ consumed[<<p, 0>>] \in Nat
      <4>1. <<0, p>> \in Conns
        BY ConnEnds
      <4>2. produced[<<0, p>>] \in Nat /\ consumed[<<p, 0>>] \in Nat
        BY <1>1, <3>1, <4>1
      <4> QED
        BY <4>2 DEF Visible
    <3>4. produced[<<p, 0>>] = consumed[<<0, p>>]
      BY <3>1, <3>2, <3>3, Rounds
    <3> QED
      BY <3>2, <3>4
  <2> HIDE DEF m
  <2>3. ack_id'[<<0, l>>] = ack_id[<<0, l>>] /\ consumed'[<<0, l>>] = consumed[<<0, l>>]
    BY <1>1, <1>2, <2>1
  <2>4. p = l => ack_id'[<<l, 0>>] = SentId(produced'[<<l, 0>>])
    BY <1>1, <1>2, <2>1, <2>2
  <2>5. p # l => ack_id'[<<l, 0>>] = ack_id[<<l, 0>>] /\ in_transit'[l] = in_transit[l]
    BY <1>1, <1>2, <2>1
  <2> QED
    BY <1>1, <2>1, <2>3, <2>4, <2>5
<1> QED
  BY <1>2, <1>3, <1>4, <1>5, <1>6, <1>7 DEF Next, Step

(* What each action does to a slot *)
LEMMA Stores ==
  ASSUME UrpcInv, [Next]_vars, NEW d \in Conns, NEW n \in Nat \ {0}
  PROVE  LET old == buf[d][Home(n)]
             new == buf'[d][Home(n)]
             here == Home(n) = Home(produced[d] + 1)
         IN
         /\ (UNCHANGED vars \/ SendCall \/ \E p \in Nodes : Poll(p) \/ Receive(p)) => new = old
         /\ CopyPayload =>
              /\ new.epoch = old.epoch /\ new.seq = old.seq /\ new.sent = old.sent
              /\ new.data = IF d = Conn(0) /\ here THEN produced[d] + 1 ELSE old.data
         /\ \A p \in Nodes : CopyLast(p) =>
              /\ new.data = old.data
              /\ d = Conn(p) /\ here =>
                   /\ new.epoch = 0 /\ new.seq = SentId(consumed[d])
                   /\ new.sent = SentId(produced[d] + 1)
              /\ ~(d = Conn(p) /\ here) => new = old
         /\ \A p \in Nodes : StoreEpoch(p) =>
              /\ new.data = old.data /\ new.seq = old.seq /\ new.sent = old.sent
              /\ new.epoch = IF d = Conn(p) /\ here THEN Cast(produced[d] + 1) ELSE old.epoch
<1> USE DEF channel, ids
<1> DEFINE old == buf[d][Home(n)]
           new == buf'[d][Home(n)]
           here == Home(n) = Home(produced[d] + 1)
<1>1. UrpcTypeOK /\ 0 \in Nodes
  BY ConnEnds DEF UrpcInv
<1>2. Home(n) \in Slots
  <2>1. n - 1 \in Nat /\ n - 1 + 1 = n
    OBVIOUS
  <2> QED
    BY <2>1, HomeIsSlot
<1>3. \A p \in Nodes :
        /\ Conn(p) \in Conns /\ produced[Conn(p)] \in Nat
        /\ out_pos[Conn(p)] = Home(produced[Conn(p)] + 1) /\ out_pos[Conn(p)] \in Slots
  BY StepTypes
<1>4. \A p \in Nodes :
        /\ out_epoch[Conn(p)] = Cast(produced[Conn(p)] + 1)
        /\ sent_id[Conn(p)] = SentId(produced[Conn(p)] + 1)
        /\ seq_id[Conn(p)] = SentId(consumed[Conn(p)])
  BY <1>3, SentIdNext DEF UrpcInv, PlaceInv
<1>5. (UNCHANGED vars \/ SendCall \/ \E p \in Nodes : Poll(p) \/ Receive(p)) => new = old
  BY DEF vars, SendCall, Poll, Receive
<1>6. old \in Messages
  BY <1>1, <1>2 DEF UrpcTypeOK, Messages
<1>7. ASSUME NEW p \in Nodes, NEW m,
             buf' = [buf EXCEPT ![Conn(p)][out_pos[Conn(p)]] = m]
      PROVE  new = IF d = Conn(p) /\ here THEN m ELSE old
  <2> DEFINE c == Conn(p)
             r == out_pos[c]
  <2>1. c \in Conns /\ r \in Slots /\ r = Home(produced[c] + 1)
    BY <1>3
  <2>2. buf' = [buf EXCEPT ![c][r] = m]
    BY <1>7
  <2> SUFFICES new = IF d = c /\ here THEN m ELSE old
    OBVIOUS
  <2> HIDE DEF c, r
  <2>3. new = IF d = c /\ Home(n) = r THEN m ELSE old
    <3> DEFINE t == Home(n)
    <3>1. t \in Slots
      BY <1>2
    <3> HIDE DEF t
    <3>2. buf'[d][t] = IF d = c /\ t = r THEN m ELSE buf[d][t]
      BY <1>1, <2>1, <2>2, <3>1 DEF UrpcTypeOK
    <3> QED
      BY <3>2 DEF t
  <2> QED
    BY <2>1, <2>3
<1>8. ASSUME CopyPayload
      PROVE  /\ new.epoch = old.epoch /\ new.seq = old.seq /\ new.sent = old.sent
             /\ new.data = IF d = Conn(0) /\ here THEN produced[d] + 1 ELSE old.data
  <2> DEFINE c == Conn(0)
             m == [buf[c][out_pos[c]] EXCEPT !.data = produced[c] + 1]
  <2>1. buf' = [buf EXCEPT ![c][out_pos[c]] = m]
    BY <1>8 DEF CopyPayload
  <2>2. new = IF d = c /\ here THEN m ELSE old
    <3> HIDE DEF m, new, old, here
    <3> QED
      BY <1>1, <1>7, <2>1
  <2>3. d = c /\ here => m = [old EXCEPT !.data = produced[d] + 1]
    BY <1>1, <1>3
  <2> HIDE DEF m, new, old, here, c
  <2> SUFFICES /\ new.epoch = old.epoch /\ new.seq = old.seq /\ new.sent = old.sent
               /\ new.data = IF d = c /\ here THEN produced[d] + 1 ELSE old.data
    BY DEF c
  <2> QED
    BY <1>6, <2>2, <2>3 DEF Messages
<1>9. ASSUME NEW p \in Nodes, CopyLast(p)
      PROVE  /\ new.data = old.data
             /\ d = Conn(p) /\ here =>
                  /\ new.epoch = 0 /\ new.seq = SentId(consumed[d])
                  /\ new.sent = SentId(produced[d] + 1)
             /\ ~(d = Conn(p) /\ here) => new = old
  <2> DEFINE c == Conn(p)
             m == [buf[c][out_pos[c]] EXCEPT !.epoch = 0, !.seq = seq_id[c], !.sent = sent_id[c]]
             seq == SentId(consumed[d])
             sent == SentId(produced[d] + 1)
  <2>1. buf' = [buf EXCEPT ![c][out_pos[c]] = m]
    BY <1>9 DEF CopyLast
  <2>2. new = IF d = c /\ here THEN m ELSE old
    <3> HIDE DEF m, new, old, here
    <3> QED
      BY <1>7, <2>1
  <2>3. d = c /\ here => m = [old EXCEPT !.epoch = 0, !.seq = seq, !.sent = sent]
    BY <1>3, <1>4
  <2> SUFFICES /\ new.data = old.data
               /\ d = c /\ here => new.epoch = 0 /\ new.seq = seq /\ new.sent = sent
               /\ ~(d = c /\ here) => new = old
    OBVIOUS
  <2> HIDE DEF m, new, old, here, c, seq, sent
  <2> QED
    BY <1>6, <2>2, <2>3 DEF Messages
<1>10. ASSUME NEW p \in Nodes, StoreEpoch(p)
       PROVE  /\ new.data = old.data /\ new.seq = old.seq /\ new.sent = old.sent
              /\ new.epoch = IF d = Conn(p) /\ here THEN Cast(produced[d] + 1) ELSE old.epoch
  <2> DEFINE c == Conn(p)
             m == [buf[c][out_pos[c]] EXCEPT !.epoch = out_epoch[c]]
             epoch == Cast(produced[d] + 1)
  <2>1. buf' = [buf EXCEPT ![c][out_pos[c]] = m]
    BY <1>10 DEF StoreEpoch
  <2>2. new = IF d = c /\ here THEN m ELSE old
    <3> HIDE DEF m, new, old, here
    <3> QED
      BY <1>7, <2>1
  <2>3. d = c /\ here => m = [old EXCEPT !.epoch = epoch]
    BY <1>3, <1>4
  <2> SUFFICES /\ new.data = old.data /\ new.seq = old.seq /\ new.sent = old.sent
               /\ new.epoch = IF d = c /\ here THEN epoch ELSE old.epoch
    OBVIOUS
  <2> HIDE DEF m, new, old, here, c, epoch
  <2> QED
    BY <1>6, <2>2, <2>3 DEF Messages
<1> QED
  BY <1>5, <1>8, <1>9, <1>10

(* Each step keeps the epochs of the ring. *)
LEMMA EpochStep == ASSUME UrpcInv, [Next]_vars PROVE EpochInv'
<1> SUFFICES ASSUME NEW c \in Conns, NEW n \in produced'[c] + 1 .. produced'[c] + NB_MESSAGES
             PROVE  buf'[c][Home(n)].epoch =
                      IF n = produced'[c] + 1 /\ LastIsStored(c)' THEN 0 ELSE OldEpoch(n)
  BY DEF EpochInv, OldEpoch, Home, Cast
<1> DEFINE P == produced[c]
           e == buf[c][Home(n)].epoch
<1>1. /\ produced \in [Conns -> Nat] /\ produced' \in [Conns -> Nat]
      /\ P \in Nat /\ produced'[c] \in Nat /\ NB_MESSAGES \in Nat
      /\ n \in Nat \ {0}
  <2>1. produced \in [Conns -> Nat] /\ produced' \in [Conns -> Nat]
    BY TypeStep DEF UrpcInv, UrpcTypeOK
  <2> QED
    BY <2>1, Moduli
<1>2. n \in P + 1 .. P + NB_MESSAGES =>
        e = IF n = P + 1 /\ LastIsStored(c) THEN 0 ELSE OldEpoch(n)
  BY DEF UrpcInv, EpochInv
<1>3. n \in P + 2 .. P + NB_MESSAGES => Home(n) # Home(P + 1)
  <2> SUFFICES ASSUME n \in P + 2 .. P + NB_MESSAGES PROVE Home(n) # Home(P + 1)
    OBVIOUS
  <2>1. P + 1 \in Nat \ {0} /\ P + 1 < n /\ n < P + 1 + NB_MESSAGES
    BY <1>1
  <2> QED
    BY <1>1, <2>1, HomeApart
<1>4. CASE \/ UNCHANGED vars \/ SendCall \/ CopyPayload
           \/ \E p \in Nodes : Poll(p) \/ Receive(p)
  <2>1. produced' = produced
    BY <1>4 DEF vars, SendCall, CopyPayload, Poll, Receive
  <2>2. buf'[c][Home(n)].epoch = e
    <3>1. CASE CopyPayload
      BY <1>1, <3>1, Stores
    <3>2. CASE ~CopyPayload
      BY <1>1, <1>4, <3>2, Stores
    <3> QED
      BY <3>1, <3>2
  <2>3. LastIsStored(c)' <=> LastIsStored(c)
    BY <1>4, LastStep
  <2> QED
    BY <1>2, <2>1, <2>2, <2>3
<1>5. CASE \E p \in Nodes : CopyLast(p)
  <2>1. PICK p \in Nodes : CopyLast(p)
    BY <1>5
  <2>2. produced' = produced
    BY <2>1 DEF CopyLast
  <2>3. LastIsStored(c)' <=> LastIsStored(c) \/ c = Conn(p)
    BY <2>1, LastStep
  <2>4. buf'[c][Home(n)].epoch = IF c = Conn(p) /\ Home(n) = Home(P + 1) THEN 0 ELSE e
    BY <1>1, <2>1, Stores
  <2> HIDE DEF P, e
  <2>5. n \in P + 1 .. P + NB_MESSAGES
    BY <2>2 DEF P
  <2> SUFFICES buf'[c][Home(n)].epoch =
                 IF n = P + 1 /\ LastIsStored(c)' THEN 0 ELSE OldEpoch(n)
    BY <2>2 DEF P
  <2>6. n = P + 1 \/ n \in P + 2 .. P + NB_MESSAGES
    BY <1>1, <2>5
  <2>7. CASE n = P + 1
    BY <1>2, <2>3, <2>4, <2>5, <2>7
  <2>8. CASE n \in P + 2 .. P + NB_MESSAGES
    <3>1. n # P + 1
      BY <1>1, <2>8
    <3> QED
      BY <1>2, <1>3, <2>4, <2>5, <2>8, <3>1
  <2> QED
    BY <2>6, <2>7, <2>8
<1>6. CASE \E p \in Nodes : StoreEpoch(p)
  <2>1. PICK p \in Nodes : StoreEpoch(p)
    BY <1>6
  <2>2. produced' = [produced EXCEPT ![Conn(p)] = @ + 1]
    BY <2>1 DEF StoreEpoch
  <2>3. LastIsStored(c)' <=> LastIsStored(c) /\ c # Conn(p)
    BY <2>1, LastStep
  <2>4. buf'[c][Home(n)].epoch =
          IF c = Conn(p) /\ Home(n) = Home(P + 1) THEN Cast(P + 1) ELSE e
    BY <1>1, <2>1, Stores
  <2>5. CASE c # Conn(p)
    <3>1. produced'[c] = P
      BY <1>1, <2>2, <2>5
    <3> QED
      BY <1>2, <2>3, <2>4, <2>5, <3>1
  <2>6. CASE c = Conn(p)
    <3>1. produced'[c] = P + 1
      BY <1>1, <2>2, <2>6
    <3> HIDE DEF P, e
    <3>2. n \in P + 2 .. P + NB_MESSAGES \/ n = P + 1 + NB_MESSAGES
      BY <1>1, <3>1
    <3>3. CASE n = P + 1 + NB_MESSAGES
      <4>1. P + 1 \in Nat \ {0}
        BY <1>1
      <4> QED
        BY <2>3, <2>4, <2>6, <3>3, <4>1, NextLap
    <3>4. CASE n \in P + 2 .. P + NB_MESSAGES
      <4>1. n # P + 1 /\ n \in P + 1 .. P + NB_MESSAGES
        BY <1>1, <3>4
      <4> QED
        BY <1>2, <1>3, <2>3, <2>4, <2>6, <3>4, <4>1
    <3> QED
      BY <3>2, <3>3, <3>4
  <2> QED
    BY <2>5, <2>6
<1> QED
  BY <1>4, <1>5, <1>6 DEF Next, Step

(* Each step keeps the ids of what is in flight. *)
LEMMA FlightStep == ASSUME UrpcInv, [Next]_vars PROVE FlightInv'
<1> DEFINE number(c, n) == IF c[1] = 0 THEN consumed[c] ELSE NB_MESSAGES * n
<1> SUFFICES ASSUME NEW c \in Conns, NEW n \in consumed'[Peer(c)] + 1 .. Written(c)'
             PROVE  /\ buf'[c][Home(n)].sent = SentId(n)
                    /\ buf'[c][Home(n)].seq = SentId(number(c, n))'
  BY DEF FlightInv, SentId, Home, Cast
<1> DEFINE P == produced[c]
           C == consumed[Peer(c)]
           old == buf[c][Home(n)]
           new == buf'[c][Home(n)]
<1>1. /\ produced \in [Conns -> Nat] /\ produced' \in [Conns -> Nat]
      /\ consumed \in [Conns -> Nat] /\ consumed' \in [Conns -> Nat]
  BY TypeStep DEF UrpcInv, UrpcTypeOK
<1>2. /\ Peer(c) \in Conns /\ Peer(Peer(c)) = c /\ Peer(c) # c /\ c[1] \in Nodes
      /\ \A p \in Nodes : Conn(p) \in Conns /\ Conn(p)[1] = p
  BY PeerEnds, ConnOf DEF UrpcInv
<1>3. /\ P \in Nat /\ C \in Nat /\ produced'[c] \in Nat /\ consumed'[Peer(c)] \in Nat
      /\ Written(c) \in Nat /\ Written(c)' \in Nat /\ n \in Nat \ {0}
      /\ consumed[c] \in Nat /\ NB_MESSAGES \in Nat
  <2>1. P \in Nat /\ C \in Nat /\ produced'[c] \in Nat /\ consumed'[Peer(c)] \in Nat
        /\ consumed[c] \in Nat
    BY <1>1, <1>2
  <2>2. Written(c) \in Nat /\ Written(c)' \in Nat
    BY <2>1 DEF Written
  <2> QED
    BY <2>1, <2>2, Moduli
<1>4. n \in C + 1 .. Written(c) =>
        old.sent = SentId(n) /\ old.seq = SentId(number(c, n))
  BY DEF UrpcInv, FlightInv
<1>5. Written(c) = P + (IF LastIsStored(c) THEN 1 ELSE 0)
      /\ Written(c)' = produced'[c] + (IF LastIsStored(c)' THEN 1 ELSE 0)
  BY DEF Written
<1>6. CASE \/ UNCHANGED vars \/ SendCall \/ CopyPayload \/ \E p \in Nodes : Poll(p)
  <2>1. produced' = produced /\ consumed' = consumed
    BY <1>6 DEF vars, SendCall, CopyPayload, Poll
  <2>2. LastIsStored(c)' <=> LastIsStored(c)
    BY <1>6, LastStep
  <2>3. new.sent = old.sent /\ new.seq = old.seq
    BY <1>3, <1>6, Stores
  <2>4. n \in C + 1 .. Written(c) /\ number(c, n)' = number(c, n)
    BY <1>5, <2>1, <2>2
  <2> QED
    BY <1>4, <2>3, <2>4
<1>7. ASSUME NEW p \in Nodes, CopyLast(p)
      PROVE  new.sent = SentId(n) /\ new.seq = SentId(number(c, n)')
  <2>1. produced' = produced /\ consumed' = consumed
    BY <1>7 DEF CopyLast
  <2>2. ~LastIsStored(Conn(p)) /\ (LastIsStored(c)' <=> LastIsStored(c) \/ c = Conn(p))
    BY <1>7, LastStep
  <2>3. number(c, n)' = number(c, n)
    BY <2>1
  <2>4. CASE c # Conn(p)
    <3>1. n \in C + 1 .. Written(c)
      BY <1>5, <2>1, <2>2, <2>4
    <3>2. new = old
      BY <1>3, <1>7, <2>4, Stores
    <3> QED
      BY <1>4, <2>3, <3>1, <3>2
  <2>5. CASE c = Conn(p)
    <3>1. n \in C + 1 .. P + 1 /\ Written(c) = P
      BY <1>3, <1>5, <2>1, <2>2, <2>5
    <3>2. CASE n = P + 1
      <4>1. new.sent = SentId(n) /\ new.seq = SentId(consumed[c])
        BY <1>3, <1>7, <2>5, <3>2, Stores
      <4>2. number(c, n) = consumed[c]
        <5>1. CASE p = 0
          BY <1>2, <2>5, <5>1
        <5>2. CASE p \in Learners
          <6>1. c = <<p, 0>> /\ c[1] # 0 /\ pc[p] = "send"
            BY <1>7, <2>5, <5>2, ConnOf, ConnEnds DEF UrpcInv, CopyLast
          <6>2. consumed[c] = NB_MESSAGES * P + NB_MESSAGES
            BY <5>2, <6>1 DEF UrpcInv, RoundInv, PcInv
          <6>3. NB_MESSAGES * (P + 1) = NB_MESSAGES * P + NB_MESSAGES
            BY <1>3
          <6> QED
            BY <3>2, <6>1, <6>2, <6>3
        <5> QED
          BY <5>1, <5>2, ConnEnds
      <4> QED
        BY <2>3, <4>1, <4>2
    <3>3. CASE n # P + 1
      <4>1. n \in C + 1 .. Written(c) /\ n < P + 1
        BY <1>3, <3>1, <3>3
      <4>2. P + 1 < n + NB_MESSAGES
        <5>1. P + 1 <= C + NB_MESSAGES
          BY <1>3, <1>7, <2>5, SendingHasSlot DEF CopyLast
        <5> QED
          BY <1>3, <4>1, <5>1
      <4>3. Home(n) # Home(P + 1)
        <5>1. P + 1 \in Nat \ {0}
          BY <1>3
        <5> QED
          BY <1>3, <4>1, <4>2, <5>1, HomeApart
      <4>4. new = old
        BY <1>3, <1>7, <4>3, Stores
      <4> QED
        BY <1>4, <2>3, <4>1, <4>4
    <3> QED
      BY <3>2, <3>3
  <2> QED
    BY <2>4, <2>5
<1>8. ASSUME NEW p \in Nodes, StoreEpoch(p)
      PROVE  new.sent = SentId(n) /\ new.seq = SentId(number(c, n)')
  <2>1. produced' = [produced EXCEPT ![Conn(p)] = @ + 1] /\ consumed' = consumed
    BY <1>8 DEF StoreEpoch
  <2>2. LastIsStored(Conn(p)) /\ (LastIsStored(c)' <=> LastIsStored(c) /\ c # Conn(p))
    BY <1>8, LastStep
  <2>3. number(c, n)' = number(c, n)
    BY <2>1
  <2>4. new.sent = old.sent /\ new.seq = old.seq
    BY <1>3, <1>8, Stores
  <2>5. Written(c)' = Written(c)
    <3>1. CASE c = Conn(p)
      <4>1. produced'[c] = P + 1
        BY <1>1, <2>1, <3>1
      <4> QED
        BY <1>3, <1>5, <2>2, <3>1, <4>1
    <3>2. CASE c # Conn(p)
      <4>1. produced'[c] = P
        BY <1>1, <2>1, <3>2
      <4> QED
        BY <1>5, <2>2, <3>2, <4>1
    <3> QED
      BY <3>1, <3>2
  <2> QED
    BY <1>4, <2>1, <2>3, <2>4, <2>5
<1>9. ASSUME NEW p \in Nodes, Receive(p)
      PROVE  new.sent = SentId(n) /\ new.seq = SentId(number(c, n)')
  <2>1. /\ produced' = produced /\ consumed' = [consumed EXCEPT ![Conn(p)] = @ + 1]
        /\ pc[p] = "peek"
    BY <1>9 DEF Receive
  <2>2. LastIsStored(c)' <=> LastIsStored(c)
    BY <1>9, LastStep
  <2>3. new = old
    BY <1>3, <1>9, Stores
  <2>4. C <= consumed'[Peer(c)]
    BY <1>1, <1>2, <1>3, <2>1
  <2>5. n \in C + 1 .. Written(c)
    BY <1>3, <1>5, <2>1, <2>2, <2>4
  <2>6. CASE c[1] # 0 \/ c # Conn(p)
    <3>1. number(c, n)' = number(c, n)
      BY <1>1, <1>2, <2>1, <2>6
    <3> QED
      BY <1>4, <2>3, <2>5, <3>1
  <2>7. CASE c[1] = 0 /\ c = Conn(p)
    <3> DEFINE l == at[0]
    <3>1. p = 0 /\ c = <<0, l>> /\ l \in Learners /\ Peer(c) = <<l, 0>>
      BY <1>2, <2>7, ConnOf, ConnEnds DEF UrpcInv, PcInv
    <3> HIDE DEF l
    <3>2. consumed[c] < Visible(<<l, 0>>)
      <4>1. consumed[c] + 1 <= Visible(Peer(c))
        BY <2>1, <2>7, <3>1, Received
      <4>2. Visible(Peer(c)) \in Nat
        BY <1>1, <1>2 DEF Visible
      <4> QED
        BY <1>3, <3>1, <4>1, <4>2
    <3>3. NB_MESSAGES * consumed[c] + NB_MESSAGES <= C /\ P <= NB_MESSAGES * consumed[c] + NB_MESSAGES
      BY <3>1, <3>2, Rounds
    <3>4. ~LastIsStored(c)
      BY <2>1, <2>7, <3>1, ConnOf DEF LastIsStored, Storing, UrpcInv, PcInv
    <3>5. P <= C
      <4>1. NB_MESSAGES * consumed[c] \in Nat
        BY <1>3
      <4> QED
        BY <1>3, <3>3, <4>1
    <3> QED
      BY <1>3, <1>5, <2>5, <3>4, <3>5
  <2> QED
    BY <2>6, <2>7
<1> QED
  BY <1>6, <1>7, <1>8, <1>9 DEF Next, Step

(* Each step keeps the payloads of the rings. *)
LEMMA DataStep == ASSUME UrpcInv, [Next]_vars PROVE DataInv'
<1> USE DEF channel, ids, Goto
<1>0. /\ produced \in [Conns -> Nat] /\ produced' \in [Conns -> Nat]
      /\ consumed \in [Conns -> Nat] /\ got \in [Learners -> Seq(Bodies)]
      /\ at \in [Nodes -> Nodes] /\ stored \in [Nodes -> SUBSET {"payload", "last"}]
  BY TypeStep DEF UrpcInv, UrpcTypeOK
<1>1. ASSUME NEW l \in Learners PROVE Len(got'[l]) = consumed'[<<l, 0>>]
  <2>1. Len(got[l]) = consumed[<<l, 0>>] /\ <<l, 0>> \in Conns /\ l # 0
    BY ConnEnds DEF UrpcInv, DataInv
  <2>2. CASE ~\E p \in Nodes : Receive(p)
    <3>1. got' = got /\ consumed' = consumed
      BY <2>2 DEF Next, Step, vars, SendCall, CopyPayload, CopyLast, StoreEpoch, Poll
    <3> QED
      BY <2>1, <3>1
  <2>3. CASE Receive(0)
    <3>1. got' = got /\ consumed' = [consumed EXCEPT ![<<0, at[0]>>] = @ + 1]
      BY <2>3, ConnOf DEF Receive, UrpcInv
    <3>2. consumed'[<<l, 0>>] = consumed[<<l, 0>>]
      BY <1>0, <2>1, <3>1
    <3> QED
      BY <2>1, <3>1, <3>2
  <2>4. ASSUME NEW p \in Learners, Receive(p) PROVE Len(got'[l]) = consumed'[<<l, 0>>]
    <3> DEFINE m == buf[Peer(Conn(p))][in_pos[Conn(p)]]
    <3>1. /\ got' = [got EXCEPT ![p] = Append(@, m.data)]
          /\ consumed' = [consumed EXCEPT ![<<p, 0>>] = @ + 1]
      BY <2>4, ConnOf, ConnEnds DEF Receive, UrpcInv
    <3> HIDE DEF m
    <3>2. CASE p = l
      <4>1. got'[l] = Append(got[l], m.data) /\ consumed'[<<l, 0>>] = consumed[<<l, 0>>] + 1
        BY <1>0, <2>1, <3>1, <3>2
      <4> QED
        BY <1>0, <2>1, <4>1
    <3>3. CASE p # l
      <4>1. <<p, 0>> # <<l, 0>>
        BY <3>3
      <4> QED
        BY <1>0, <2>1, <3>1, <3>3, <4>1
    <3> QED
      BY <3>2, <3>3
  <2> QED
    BY <2>2, <2>3, <2>4, ConnEnds
<1>2. ASSUME NEW l \in Learners,
             NEW n \in produced'[<<0, l>>] + 1 .. produced'[<<0, l>>] + NB_MESSAGES
      PROVE  buf'[<<0, l>>][Home(n)].data =
               IF n = produced'[<<0, l>>] + 1 /\ at'[0] = l /\ "payload" \in stored'[0]
               THEN n ELSE OldData(n)
  <2> DEFINE c == <<0, l>>
             P == produced[c]
             old == buf[c][Home(n)]
             new == buf'[c][Home(n)]
             copied == at[0] = l /\ "payload" \in stored[0]
  <2>1. /\ c \in Conns /\ 0 \in Nodes /\ l \in Nodes /\ l # 0
        /\ Conn(0) = <<0, at[0]>> /\ (c = Conn(0) <=> at[0] = l)
        /\ \A p \in Learners : p # 0 /\ p \in Nodes /\ Conn(p) = <<p, 0>> /\ c # Conn(p)
        /\ n \in produced'[c] + 1 .. produced'[c] + NB_MESSAGES
    <3>1. /\ c \in Conns /\ 0 \in Nodes /\ l \in Nodes /\ l # 0 /\ Conn(0) = <<0, at[0]>>
          /\ \A p \in Learners : p # 0 /\ p \in Nodes /\ Conn(p) = <<p, 0>>
      BY ConnEnds, ConnOf DEF UrpcInv
    <3>2. \A p : p # 0 => c # <<p, 0>>
      OBVIOUS
    <3>3. c = <<0, at[0]>> <=> at[0] = l
      OBVIOUS
    <3> QED
      BY <3>1, <3>2, <3>3
  <2>2. /\ P \in Nat /\ produced'[c] \in Nat /\ NB_MESSAGES \in Nat /\ NB_MESSAGES >= 1
        /\ n \in Nat \ {0}
    <3>1. P \in Nat /\ produced'[c] \in Nat
      BY <1>0, <2>1
    <3> QED
      BY <3>1, Moduli
  <2>3. n \in P + 1 .. P + NB_MESSAGES =>
          old.data = IF n = P + 1 /\ copied THEN n ELSE OldData(n)
    BY DEF UrpcInv, DataInv
  <2>4. n \in P + 2 .. P + NB_MESSAGES => Home(n) # Home(P + 1)
    <3> SUFFICES ASSUME n \in P + 2 .. P + NB_MESSAGES PROVE Home(n) # Home(P + 1)
      OBVIOUS
    <3>1. P + 1 \in Nat \ {0} /\ P + 1 < n /\ n < P + 1 + NB_MESSAGES
      BY <2>2
    <3> QED
      BY <2>2, <3>1, HomeApart
  <2> SUFFICES new.data = IF n = produced'[c] + 1 /\ at'[0] = l /\ "payload" \in stored'[0]
                          THEN n ELSE OldData(n)
    OBVIOUS
  <2>5. CASE \/ UNCHANGED vars \/ SendCall \/ \E p \in Nodes : CopyLast(p) \/ Poll(p)
    <3>1. produced' = produced /\ at' = at
      BY <2>5 DEF vars, SendCall, CopyLast, Poll
    <3>2. "payload" \in stored'[0] <=> "payload" \in stored[0]
      <4>1. ASSUME NEW p \in Nodes, CopyLast(p)
            PROVE  "payload" \in stored'[0] <=> "payload" \in stored[0]
        <5>1. stored' = [stored EXCEPT ![p] = stored[p] \cup {"last"}]
          BY <4>1 DEF CopyLast
        <5> QED
          BY <1>0, <2>1, <5>1
      <4> QED
        BY <2>5, <4>1 DEF vars, SendCall, Poll
    <3>3. new.data = old.data
      BY <2>1, <2>2, <2>5, Stores
    <3> QED
      BY <2>3, <3>1, <3>2, <3>3
  <2>6. CASE CopyPayload
    <3>1. produced' = produced /\ at' = at /\ "payload" \in stored'[0] /\ "payload" \notin stored[0]
      BY <1>0, <2>1, <2>6 DEF CopyPayload
    <3>2. new.data = IF at[0] = l /\ Home(n) = Home(P + 1) THEN P + 1 ELSE old.data
      BY <2>1, <2>2, <2>6, Stores
    <3>3. n = P + 1 \/ n \in P + 2 .. P + NB_MESSAGES
      BY <2>2, <3>1
    <3> HIDE DEF c, P, old, new
    <3>4. n \in P + 1 .. P + NB_MESSAGES
      BY <2>1, <3>1 DEF P
    <3>5. produced'[c] = P
      BY <3>1 DEF P
    <3>6. CASE n = P + 1
      BY <2>3, <3>1, <3>2, <3>4, <3>5, <3>6
    <3>7. CASE n \in P + 2 .. P + NB_MESSAGES
      <4>1. n # P + 1
        BY <2>2, <3>7
      <4> QED
        BY <2>3, <2>4, <3>1, <3>2, <3>4, <3>5, <3>7, <4>1
    <3> QED
      BY <3>3, <3>6, <3>7
  <2>7. CASE StoreEpoch(0)
    <3>1. /\ produced' = [produced EXCEPT ![<<0, at[0]>>] = @ + 1]
          /\ stored'[0] = {} /\ "payload" \in stored[0]
      BY <1>0, <2>1, <2>7 DEF StoreEpoch
    <3>2. new.data = old.data
      BY <2>1, <2>2, <2>7, Stores
    <3>3. CASE at[0] = l
      <4>1. produced'[c] = P + 1
        BY <1>0, <2>1, <3>1, <3>3
      <4> HIDE DEF c, P, old, new
      <4>2. n \in P + 2 .. P + NB_MESSAGES \/ n = P + 1 + NB_MESSAGES
        BY <2>1, <2>2, <4>1
      <4>3. CASE n \in P + 2 .. P + NB_MESSAGES
        <5>1. n # P + 1 /\ n \in P + 1 .. P + NB_MESSAGES
          BY <2>2, <4>3
        <5> QED
          BY <2>3, <3>1, <3>2, <5>1
      <4>4. CASE n = P + 1 + NB_MESSAGES
        <5>1. P + 1 \in Nat \ {0} /\ P + 1 \in P + 1 .. P + NB_MESSAGES
          BY <2>2
        <5>2. Home(n) = Home(P + 1) /\ OldData(n) = P + 1
          BY <4>4, <5>1, NextLap
        <5>3. buf[c][Home(P + 1)].data = P + 1
          BY <3>1, <3>3, <5>1 DEF UrpcInv, DataInv, c, P
        <5> QED
          BY <3>1, <3>2, <5>2, <5>3 DEF old
      <4> QED
        BY <4>2, <4>3, <4>4
    <3>4. CASE at[0] # l
      <4>1. produced'[c] = P
        BY <1>0, <2>1, <3>1, <3>4
      <4> HIDE DEF c, P, old, new
      <4> QED
        BY <2>1, <2>3, <3>1, <3>2, <3>4, <4>1
    <3> QED
      BY <3>3, <3>4
  <2>8. ASSUME NEW p \in Learners, StoreEpoch(p)
        PROVE  new.data = IF n = produced'[c] + 1 /\ at'[0] = l /\ "payload" \in stored'[0]
                          THEN n ELSE OldData(n)
    <3>1. /\ produced' = [produced EXCEPT ![<<p, 0>>] = @ + 1]
          /\ stored'[0] = stored[0] /\ at' = at
      BY <1>0, <2>1, <2>8 DEF StoreEpoch
    <3>2. new.data = old.data
      BY <2>1, <2>2, <2>8, Stores
    <3>3. produced'[c] = P
      BY <1>0, <2>1, <3>1
    <3> QED
      BY <2>3, <3>1, <3>2, <3>3
  <2>9. ASSUME NEW p \in Nodes, Receive(p)
        PROVE  new.data = IF n = produced'[c] + 1 /\ at'[0] = l /\ "payload" \in stored'[0]
                          THEN n ELSE OldData(n)
    <3>1. produced' = produced /\ stored' = stored /\ pc[p] = "peek"
      BY <2>9 DEF Receive
    <3>2. new = old
      BY <2>1, <2>2, <2>9, Stores
    <3>3. "payload" \in stored[0] => at'[0] = at[0]
      <4>1. CASE p = 0
        BY <2>1, <3>1, <4>1 DEF UrpcInv, PcInv
      <4>2. CASE p # 0
        BY <1>0, <2>1, <2>9, <4>2 DEF Receive
      <4> QED
        BY <4>1, <4>2
    <3> QED
      BY <2>3, <3>1, <3>2, <3>3
  <2> QED
    BY <2>1, <2>5, <2>6, <2>7, <2>8, <2>9, ConnEnds DEF Next, Step
<1> QED
  BY <1>1, <1>2 DEF DataInv, OldData, Home

(* WholeUnlessEpochZero: what each step delivers is the next message. *)
LEMMA WholeStep == ASSUME UrpcInv, [Next]_vars PROVE WholeUnlessEpochZero'
<1> USE DEF channel, ids, Goto
<1>1. /\ got \in [Learners -> Seq(Bodies)] /\ WholeUnlessEpochZero
      /\ produced \in [Conns -> Nat] /\ consumed \in [Conns -> Nat]
  BY DEF UrpcInv, UrpcTypeOK
<1>2. CASE got' = got
  BY <1>1, <1>2 DEF WholeUnlessEpochZero, Cast
<1>3. CASE \E p \in Learners : Receive(p)
  <2>1. PICK p \in Learners : Receive(p)
    BY <1>3
  <2> DEFINE m == buf[Peer(Conn(p))][in_pos[Conn(p)]]
             c == <<0, p>>
             P == produced[c]
             C == consumed[<<p, 0>>]
             i == C + 1
  <2>2. /\ p # 0 /\ p \in Nodes /\ c \in Conns /\ <<p, 0>> \in Conns
        /\ Conn(p) = <<p, 0>> /\ Peer(<<p, 0>>) = c /\ Peer(c) = <<p, 0>> /\ c[1] = 0
    BY ConnEnds, ConnOf DEF UrpcInv
  <2>3. got' = [got EXCEPT ![p] = Append(@, m.data)] /\ pc[p] = "peek"
    BY <2>1, <2>2 DEF Receive
  <2>4. m = buf[c][Home(i)] /\ i <= Visible(c) /\ i \in Nat \ {0}
    BY <2>2, <2>3, Received
  <2>5. Len(got[p]) = C /\ got[p] \in Seq(Bodies)
    BY <1>1 DEF UrpcInv, DataInv
  <2>6. P \in Nat /\ C \in Nat /\ NB_MESSAGES \in Nat /\ NB_MESSAGES >= 1
    BY <1>1, <2>2, Moduli
  <2>7. m.data = i \/ (Cast(i) = 0 /\ m.data \in {0, i - NB_MESSAGES})
    <3>1. P + (IF Storing(c) THEN 1 ELSE 0) <= C + NB_MESSAGES
      BY <2>2, SlotIsFree DEF NeverOverrun
    <3>2. Visible(c) = P + (IF AtWrap(c) THEN 1 ELSE 0)
      BY DEF Visible
    <3>3. AtWrap(c) => Cast(P + 1) = 0
      BY <2>2 DEF AtWrap, UrpcInv, PlaceInv
    <3>4. "payload" \in stored[0] /\ at[0] = p => Storing(c)
      BY <2>2 DEF Storing, Conn
    <3>5. \A n \in P + 1 .. P + NB_MESSAGES :
            buf[c][Home(n)].data =
              IF n = P + 1 /\ at[0] = p /\ "payload" \in stored[0] THEN n ELSE OldData(n)
      BY DEF UrpcInv, DataInv
    <3> HIDE DEF c, P, C
    <3>6. CASE i <= P
      <4>1. i + NB_MESSAGES \in P + 1 .. P + NB_MESSAGES
        BY <2>4, <2>6, <3>1, <3>6
      <4>2. ~(i + NB_MESSAGES = P + 1 /\ at[0] = p /\ "payload" \in stored[0])
        BY <2>6, <3>1, <3>4
      <4>3. Home(i + NB_MESSAGES) = Home(i) /\ OldData(i + NB_MESSAGES) = i
        BY <2>4, NextLap
      <4> HIDE DEF i
      <4>4. buf[c][Home(i + NB_MESSAGES)].data = OldData(i + NB_MESSAGES)
        BY <3>5, <4>1, <4>2
      <4> QED
        BY <2>4, <4>3, <4>4
    <3>7. CASE ~(i <= P)
      <4>1. i = P + 1 /\ Cast(i) = 0
        BY <2>4, <2>6, <3>2, <3>3, <3>7
      <4>2. i \in P + 1 .. P + NB_MESSAGES
        BY <2>6, <4>1
      <4> HIDE DEF i
      <4>3. m.data = i \/ m.data = OldData(i)
        BY <2>4, <3>5, <4>2
      <4>4. OldData(i) \in {0, i - NB_MESSAGES}
        BY DEF OldData
      <4> QED
        BY <4>1, <4>3, <4>4
    <3> QED
      BY <3>6, <3>7
  <2> HIDE DEF m, i
  <2>8. ASSUME NEW l \in Learners, NEW j \in 1 .. Len(got'[l])
        PROVE  got'[l][j] = j \/ (Cast(j) = 0 /\ got'[l][j] \in {0, j - NB_MESSAGES})
    <3>1. CASE l # p
      <4>1. got'[l] = got[l]
        BY <1>1, <2>3, <3>1
      <4> QED
        BY <1>1, <2>8, <4>1 DEF WholeUnlessEpochZero
    <3>2. CASE l = p
      <4>1. got'[l] = Append(got[p], m.data)
        BY <1>1, <2>3, <3>2
      <4> HIDE DEF C
      <4>2. Len(got'[l]) = i /\ got'[l][i] = m.data
        BY <2>5, <2>6, <4>1 DEF i
      <4>3. CASE j = i
        BY <2>7, <4>2, <4>3
      <4>4. CASE j # i
        <5>1. j \in 1 .. Len(got[p]) /\ got'[l][j] = got[p][j]
          BY <2>5, <2>6, <2>8, <4>1, <4>2, <4>4 DEF i
        <5> QED
          BY <1>1, <5>1 DEF WholeUnlessEpochZero
      <4> QED
        BY <4>3, <4>4
    <3> QED
      BY <3>1, <3>2
  <2> QED
    BY <2>8 DEF WholeUnlessEpochZero, Cast
<1>4. got' = got \/ \E p \in Learners : Receive(p)
  BY ConnEnds DEF Next, Step, vars, SendCall, CopyPayload, CopyLast, StoreEpoch, Poll, Receive
<1> QED
  BY <1>2, <1>3, <1>4

-----------------------------------------------------------------------------
(* The theorems *)

(* The initial states: nothing sent, and segments full of zeroes. *)
LEMMA InitHolds == Init => UrpcInv
<1> SUFFICES ASSUME Init PROVE UrpcInv
  OBVIOUS
<1> USE DEF Init
<1>1. /\ 0 \in Nodes /\ 1 \in Nodes /\ 1 \in Learners /\ NbLearners \in Learners
      /\ \A l \in Learners : /\ l # 0 /\ l \in Nodes /\ l >= 1 /\ ~(l < 1)
                              /\ <<0, l>> \in Conns /\ <<l, 0>> \in Conns
      /\ \A c \in Conns : Peer(c) \in Conns /\ c[1] \in Nodes
      /\ NB_MESSAGES \in Nat /\ NB_MESSAGES >= 1 /\ NB_MESSAGES * 0 = 0 /\ MaxMessages \in Nat
  <2>1. \A l \in Learners : l >= 1 /\ ~(l < 1)
    BY Moduli DEF Learners
  <2>2. 1 \in Nodes
    BY Moduli DEF Nodes
  <2>3. \A c \in Conns : Peer(c) \in Conns /\ c[1] \in Nodes
    BY PeerEnds
  <2>4. \A l \in Learners : l # 0 /\ l \in Nodes /\ <<0, l>> \in Conns /\ <<l, 0>> \in Conns
    BY ConnEnds
  <2> QED
    BY <2>1, <2>2, <2>3, <2>4, Moduli, ConnEnds
<1>2. 0 \in Urpc_t /\ 1 \in Urpc_t /\ 0 \in Slots /\ 0 \in Bodies
  BY Moduli, CastType, CastSmall DEF Slots, Bodies
<1>3. 0 % NB_MESSAGES = 0 /\ Cast(0) = 0 /\ Cast(0 + 1) = 1 /\ SentId(0) = 0
  <2>1. 0 \in 0 .. NB_MESSAGES - 1
    BY Moduli
  <2> QED
    BY <2>1, Moduli, SmallIndex, CastSmall DEF SentId
<1>4. UrpcTypeOK
  BY <1>1, <1>2 DEF UrpcTypeOK, Pcs
<1>5. PcInv /\ LockstepInv /\ RoundInv
  <2>1. /\ pc[0] = "idle" /\ at[0] = 1 /\ in_transit[0] = 0
        /\ \A l \in Learners : at[l] = 0 /\ pc[l] = "recv" /\ in_transit[l] = 0 /\ stored[l] = {}
        /\ \A p \in Nodes : stored[p] = {}
    BY <1>1
  <2>2. \A l \in Learners : /\ produced[<<0, l>>] = 0 /\ consumed[<<0, l>>] = 0
                           /\ produced[<<l, 0>>] = 0 /\ consumed[<<l, 0>>] = 0
    BY <1>1
  <2> HIDE DEF Init
  <2>3. ~Waiting
    BY <2>1 DEF Waiting
  <2>4. PcInv
    <3>1. in_transit[0] = NB_MESSAGES <=> Waiting
      BY <1>1, <2>1, <2>3
    <3> QED
      BY <1>1, <2>1, <3>1 DEF PcInv
  <2>5. ASSUME NEW l \in Learners PROVE SentInRound(l) = 0
    <3>1. ~(l < at[0])
      BY <1>1, <2>1
    <3> QED
      BY <2>1, <2>3, <3>1 DEF SentInRound
  <2>6. LockstepInv
    <3>1. pc[0] # "send" /\ produced[<<0, NbLearners>>] = 0
      BY <1>1, <2>1, <2>2
    <3>2. MaxMessages \in Nat
      BY Moduli
    <3>3. \A l \in Learners : produced[<<0, l>>] = produced[<<0, NbLearners>>] +
                                  (IF pc[0] = "send" /\ l < at[0] THEN 1 ELSE 0)
      <4> TAKE l \in Learners
      <4>1. (IF pc[0] = "send" /\ l < at[0] THEN 1 ELSE 0) = 0
        BY <3>1
      <4> DEFINE more == IF pc[0] = "send" /\ l < at[0] THEN 1 ELSE 0
      <4>2. more = 0 /\ produced[<<0, l>>] = 0
        BY <2>2, <4>1
      <4> HIDE DEF more
      <4>3. produced[<<0, l>>] = produced[<<0, NbLearners>>] + more
        BY <3>1, <4>2
      <4> QED
        BY <4>3 DEF more
    <3>4. produced[<<0, NbLearners>>] <= MaxMessages
      BY <3>1, <3>2
    <3> QED
      BY <3>1, <3>3, <3>4 DEF LockstepInv
  <2>7. RoundInv
    <3> SUFFICES ASSUME NEW l \in Learners
                 PROVE  /\ produced[<<0, l>>] = NB_MESSAGES * consumed[<<0, l>>] + SentInRound(l)
                        /\ consumed[<<l, 0>>] = NB_MESSAGES * produced[<<l, 0>>] + in_transit[l]
      BY DEF RoundInv
    <3>1. NB_MESSAGES * 0 + 0 = 0
      BY Moduli
    <3> QED
      BY <2>1, <2>2, <2>5, <3>1
  <2> QED
    BY <2>4, <2>6, <2>7
<1>7. \A c \in Conns : Visible(c) = 0 /\ Written(c) = 0 /\ ~LastIsStored(c)
  BY <1>1 DEF Visible, Written, AtWrap, LastIsStored, Storing
<1>8. SeenInv
  BY <1>1, <1>7 DEF SeenInv
<1>9. PlaceInv
  BY <1>1, <1>3 DEF PlaceInv
<1>10. AckInv
  BY <1>1, <1>3 DEF AckInv
<1>11. \A c \in Conns, n \in 0 + 1 .. 0 + NB_MESSAGES :
         buf[c][Home(n)].epoch = 0 /\ buf[c][Home(n)].data = 0
  <2> TAKE c \in Conns, n \in 0 + 1 .. 0 + NB_MESSAGES
  <2>1. n - 1 \in Nat /\ n - 1 + 1 = n
    BY <1>1
  <2>2. Home(n) \in Slots
    BY <2>1, HomeIsSlot
  <2> QED
    BY <2>2
<1>12. \A n \in 0 + 1 .. 0 + NB_MESSAGES : OldEpoch(n) = 0 /\ OldData(n) = 0
  BY <1>1 DEF OldEpoch, OldData
<1>13. EpochInv
  BY <1>7, <1>11, <1>12 DEF EpochInv
<1>14. FlightInv
  BY <1>1, <1>7 DEF FlightInv
<1>15. DataInv
  <2> SUFFICES ASSUME NEW l \in Learners
               PROVE  /\ \A n \in produced[<<0, l>>] + 1 .. produced[<<0, l>>] + NB_MESSAGES :
                           buf[<<0, l>>][Home(n)].data =
                             IF n = produced[<<0, l>>] + 1 /\ at[0] = l /\ "payload" \in stored[0]
                             THEN n ELSE OldData(n)
                      /\ Len(got[l]) = consumed[<<l, 0>>]
    BY DEF DataInv
  <2>1. /\ <<0, l>> \in Conns /\ produced[<<0, l>>] = 0 /\ consumed[<<l, 0>>] = 0
        /\ stored[0] = {} /\ got[l] = <<>>
    BY <1>1
  <2> HIDE DEF Init
  <2> QED
    BY <1>11, <1>12, <2>1
<1>16. WholeUnlessEpochZero
  BY DEF WholeUnlessEpochZero
<1> QED
  BY <1>4, <1>5, <1>8, <1>9, <1>10, <1>13, <1>14, <1>15, <1>16 DEF UrpcInv

(* The invariant is inductive. *)
LEMMA InvHolds == Spec => []UrpcInv
<1>1. UrpcInv /\ [Next]_vars => UrpcInv'
  <2> SUFFICES ASSUME UrpcInv, [Next]_vars PROVE UrpcInv'
    OBVIOUS
  <2>1. UrpcTypeOK' /\ PcInv' /\ LockstepInv' /\ RoundInv'
    BY TypeStep, PcStep, LockstepStep, RoundStep
  <2>2. SeenInv' /\ PlaceInv' /\ AckInv'
    BY SeenStep, PlaceStep, AckStep
  <2>3. EpochInv' /\ FlightInv' /\ DataInv' /\ WholeUnlessEpochZero'
    BY EpochStep, FlightStep, DataStep, WholeStep
  <2> QED
    BY <2>1, <2>2, <2>3 DEF UrpcInv
<1> QED
  BY <1>1, InitHolds, PTL DEF Spec

(* Rings, positions, epochs and ids keep their types: no payload is beyond  *)
(* the last message, and no counter of urpc.h leaves its width.             *)
THEOREM TypeCorrect == Spec => []UrpcTypeOK
<1>1. UrpcInv => UrpcTypeOK
  BY DEF UrpcInv
<1> QED
  BY <1>1, InvHolds, PTL

(* urpc_transport_send never finds the connection without credit: the wait  *)
(* for cansend, which would not end, is never entered.                     *)
THEOREM SendSucceeds == Spec => []SendNeverSpins
<1>1. UrpcInv => SendNeverSpins
  BY SenderMaySend
<1> QED
  BY <1>1, InvHolds, PTL

(* An ack every NB_MESSAGES messages is enough for urpc_send never to write *)
(* a slot that the other end has not read.                                 *)
THEOREM NothingOverrun == Spec => []NeverOverrun
<1>1. UrpcInv => NeverOverrun
  BY SlotIsFree
<1> QED
  BY <1>1, InvHolds, PTL

(* The epoch that urpc_havemessage compares tells the next message from the *)
(* one a ring before, for every ring that the assertion of                  *)
(* urpc_transport_create lets through.                                     *)
THEOREM EpochsSuffice == Spec => []EpochTellsNew
<1>1. UrpcInv => EpochTellsNew
  BY EpochIsSeen
<1> QED
  BY <1>1, InvHolds, PTL

(* Every learner takes the messages whole and in order, but for those whose *)
(* epoch is 0, which may come with the payload of a ring before.            *)
THEOREM Whole == Spec => []WholeUnlessEpochZero
<1>1. UrpcInv => WholeUnlessEpochZero
  BY DEF UrpcInv
<1> QED
  BY <1>1, InvHolds, PTL
=============================================================================
