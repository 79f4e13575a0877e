------------------------- MODULE CheckpointingProofs -------------------------
(***************************************************************************)
(* The checkpointing application over bfishmprotect, with any number of     *)
(* nodes and of snapshots, rings of any size and sequence numbers of any    *)
(* width that tells the messages of a ring apart: the epoch bit tells new   *)
(* messages from old ones, nothing in flight is overwritten, an end that    *)
(* needs to send an ack can, recv_ack never drops a message, and the        *)
(* checkpoints of a snapshot are those of this snapshot.                    *)
(*                                                                         *)
(* The first half is about the channels alone, whatever the nodes do: it    *)
(* follows the real counts, which wrap in the code, and the stamp of a      *)
(* message, which is how many messages its sender had received when it      *)
(* stored the header. The second half follows the one message per node that *)
(* a snapshot is, from the request of node 0 to the answer it handles.      *)
(***************************************************************************)
EXTENDS Checkpointing, RingArithmetic

Lap == 2 * bufmsgs

(* A position and its epoch are one index in a ring of twice the size. *)
Place(pos, epoch) == IF epoch = 1 THEN pos ELSE pos + bufmsgs

(* Message n is stored in slot Home(n), with the epoch EpochOf(n). *)
Home(n) == (n - 1) % bufmsgs
EpochOf(n) == IF (n - 1) % Lap < bufmsgs THEN 1 ELSE 0

Stamps == [Conns -> [Nat -> Nat]]

(* The positions and indices of an end are the real counts, wrapped. *)
PlaceInv(c) ==
  /\ Place(chan[c].spos, chan[c].sepoch) = produced[c] % Lap
  /\ Place(chan[c].rpos, chan[c].repoch) = consumed[c] % Lap

IndexInv(stamp, c) ==
  /\ chan[c].sent_id = Cast(produced[c] + 1)
  /\ chan[c].seq_id = Cast(consumed[c])
  /\ chan[c].ack_id = Cast(stamp[Peer(c)][consumed[c]])
  /\ chan[c].last_ack = Cast(stamp[c][produced[c]])

(* Acks are real: of messages received, in order. *)
StampInv(stamp, c) ==
  /\ consumed[c] <= produced[Peer(c)]
  /\ stamp[c][0] = 0
  /\ \A m, n \in 0 .. produced[c] : m <= n => stamp[c][m] <= stamp[c][n]
  /\ \A n \in 0 .. produced[c] : stamp[c][n] <= consumed[c]

(* Every message was sent with one slot to spare after the last one its end *)
(* knew to be received, which was sent before it; and a node other than 0   *)
(* only sends after it received.                                            *)
SendInv(stamp, c) ==
  \A n \in 1 .. produced[c] :
    LET known == stamp[Peer(c)][stamp[c][n]] IN
    /\ known < n /\ n < known + bufmsgs
    /\ c[1] # 0 => stamp[c][n] >= 1

(* The slot of the next message to be stored there has the other epoch. *)
EpochInv(c) ==
  \A n \in produced[c] + 1 .. produced[c] + bufmsgs :
    ring[c][Home(n)].epoch = 1 - EpochOf(n)

(* What is in flight is in its slot, stamped. *)
FlightInv(stamp, c) ==
  \A n \in consumed[Peer(c)] + 1 .. produced[c] :
    ring[c][Home(n)].seq = Cast(stamp[c][n])

EndInv(stamp, c) ==
  /\ PlaceInv(c) /\ IndexInv(stamp, c) /\ StampInv(stamp, c) /\ SendInv(stamp, c)
  /\ EpochInv(c) /\ FlightInv(stamp, c)

ChannelsInv == \E stamp \in Stamps : \A c \in Conns : EndInv(stamp, c)

-----------------------------------------------------------------------------
(* The nodes *)

WaitPcs == {"test", "lock", "wait", "sleep"}

(* Where a node can be: node 0 is in a multicast or receives from one       *)
(* node, the others answer it.                                              *)
NodeOK(p) ==
  /\ IF p = 0 THEN at[p] \in Others ELSE at[p] = 0 /\ pc[p] \notin {"loop", "done"}
  /\ pc[p] # "exit"
  /\ pc[p] \in {"new", "loop", "ack", "unlock_ack", "handle"} => awaits[p] = "msg"
  /\ pc[p] = "new" => \A c \in Conns : c[1] = p => produced[c] = 0 /\ consumed[c] = 0
  /\ pc[p] \in {"ack", "unlock_ack"} => consumed[Conn(p)] >= 1
  /\ p # 0 /\ (pc[p] \in {"handle", "send", "header"} \/ awaits[p] = "ack")
       => consumed[Conn(p)] >= 1

(* A message that is copied and whose header is yet to be stored has a slot. *)
HeaderOK(p) ==
  pc[p] = "header" =>
    ump_can_send(Conn(p)) /\ ring[Conn(p)][chan[Conn(p)].spos].data = message[p]

NodeInv == \A p \in Nodes : NodeOK(p) /\ HeaderOK(p)

Multicasting ==
  pc[0] \in {"send", "header", "unlock"} \/ (pc[0] \in WaitPcs /\ awaits[0] = "ack")

MulticastInv ==
  /\ Multicasting =>
       snapshot_in_progress /\ awaited_responses = Others /\ message[0] = iter + 1
  /\ snapshot_in_progress => iter < nb_iter

(* Node 0 has sent its request to node i and not yet handled the answer. *)
Asked(i) ==
  /\ snapshot_in_progress /\ i \in awaited_responses
  /\ Multicasting => i < at[0] \/ (i = at[0] /\ pc[0] = "unlock")

(* Message n of end c is in flight, and not an ack. *)
InFlight(c, n) ==
  n \in consumed[Peer(c)] + 1 .. produced[c] /\ ring[c][Home(n)].type = "UMP_MSG"

(* Node i has received the request and not yet answered. *)
Busy(i) ==
  \/ pc[i] \in {"handle", "send", "header"}
  \/ pc[i] \in {"ack", "unlock_ack"} /\ ~call_recv_again[i]
  \/ pc[i] \in WaitPcs /\ awaits[i] = "ack"

(* Node 0 has received the answer of node i and not yet handled it. *)
Answered(i) ==
  /\ at[0] = i
  /\ \/ pc[0] = "handle"
     \/ pc[0] \in {"ack", "unlock_ack"} /\ ~call_recv_again[0]

(* The request and its answer are one message in one place at a time. *)
TokenInv(i) ==
  /\ \A n \in Nat : InFlight(<<0, i>>, n) =>
       /\ Asked(i) /\ ring[<<0, i>>][Home(n)].data = iter + 1
       /\ ~Busy(i) /\ ~Answered(i)
       /\ \A m \in Nat : ~InFlight(<<i, 0>>, m) /\ (InFlight(<<0, i>>, m) => m = n)
  /\ Busy(i) =>
       /\ Asked(i) /\ message[i] = iter + 1
       /\ ~Answered(i)
       /\ \A m \in Nat : ~InFlight(<<i, 0>>, m)
  /\ \A n \in Nat : InFlight(<<i, 0>>, n) =>
       /\ Asked(i) /\ ring[<<i, 0>>][Home(n)].data = iter + 1
       /\ ~Answered(i)
       /\ \A m \in Nat : InFlight(<<i, 0>>, m) => m = n
  /\ Answered(i) => Asked(i) /\ message[0] = iter + 1

AllInv ==
  /\ CheckpointingTypeOK /\ ChannelsInv /\ NodeInv /\ MulticastInv
  /\ \A i \in Others : TokenInv(i)
  /\ SnapshotIsFresh

-----------------------------------------------------------------------------
(* The constants, positions, epochs and indices *)

(* The range of an ump_index_t and a lap are positive numbers. *)
LEMMA Moduli ==
  /\ 2 ^ IndexBits \in Nat \ {0} /\ bufmsgs < 2 ^ IndexBits
  /\ bufmsgs \in Nat \ {0}
  /\ Lap \in Nat \ {0}
BY CheckpointingAssumption DEF Lap

(* An index stays in its range. *)
LEMMA CastType == ASSUME NEW n \in Nat PROVE Cast(n) \in Index
BY Moduli, DivMod DEF Cast, Index

(* Incrementing an index is incrementing the count. *)
LEMMA CastNext == ASSUME NEW n \in Nat PROVE Cast(Cast(n) + 1) = Cast(n + 1)
BY Moduli, NextOfIndex DEF Cast

(* Indices of counts less than a range apart are subtracted exactly. *)
LEMMA CastDifference ==
  ASSUME NEW a \in Nat, NEW b \in Nat, b <= a, a - b <= bufmsgs
  PROVE  Cast(Cast(a) - Cast(b)) = a - b
<1>1. a - b < 2 ^ IndexBits
  BY Moduli
<1> QED
  BY <1>1, Moduli, IndexDifference DEF Cast

(* Zero is what open_channel stores for Cast(0). *)
LEMMA CastZero == Cast(0) = 0
<1>1. 0 \in 0 .. 2 ^ IndexBits - 1
  BY Moduli
<1> QED
  BY <1>1, Moduli, SmallIndex DEF Cast

(* A message lives in a slot of the ring ... *)
LEMMA HomeIsSlot == ASSUME NEW n \in Nat \ {0} PROVE Home(n) \in Slots
<1>1. n - 1 \in Nat
  OBVIOUS
<1> QED
  BY <1>1, Moduli, DivMod DEF Home, Slots

(* ... which the next message to use is a ring away. *)
LEMMA HomeApart ==
  ASSUME NEW m \in Nat \ {0}, NEW n \in Nat \ {0}, m < n, n < m + bufmsgs
  PROVE  Home(m) # Home(n)
<1> DEFINE a == m - 1
           b == n - 1
<1>1. a \in Nat /\ b \in Nat /\ a < b /\ ~(b >= a + bufmsgs)
  BY Moduli
<1> HIDE DEF a, b
<1>2. a % bufmsgs # b % bufmsgs
  BY <1>1, Moduli, SameIndexFarApart
<1> QED
  BY <1>2 DEF Home, a, b

(* The message a ring later has the same slot and the other epoch. *)
LEMMA NextLap ==
  ASSUME NEW n \in Nat \ {0}
  PROVE  Home(n + bufmsgs) = Home(n) /\ EpochOf(n + bufmsgs) = 1 - EpochOf(n)
<1> DEFINE a == n - 1
           b == a + bufmsgs
<1>1. a \in Nat /\ b \in Nat /\ b >= bufmsgs /\ b - bufmsgs = a
      /\ n + bufmsgs - 1 = b /\ bufmsgs \in Nat \ {0}
  BY Moduli
<1> HIDE DEF a, b
<1>2. a % bufmsgs = b % bufmsgs
  BY <1>1, RingBack
<1>3. a % Lap \in 0 .. Lap - 1 /\ b % Lap \in 0 .. Lap - 1
  BY <1>1, Moduli, DivMod
<1>4. a % Lap # b % Lap
  <2>1. a < b /\ ~(b >= a + Lap)
    BY <1>1 DEF b, Lap
  <2> QED
    BY <1>1, <2>1, Moduli, SameIndexFarApart
<1>5. /\ a % bufmsgs = IF a % Lap < bufmsgs THEN a % Lap ELSE (a % Lap) - bufmsgs
      /\ b % bufmsgs = IF b % Lap < bufmsgs THEN b % Lap ELSE (b % Lap) - bufmsgs
  BY <1>1, HalfRing DEF Lap
<1>6. (a % Lap < bufmsgs) <=> ~(b % Lap < bufmsgs)
  BY <1>1, <1>2, <1>3, <1>4, <1>5
<1> QED
  BY <1>1, <1>2, <1>6 DEF Home, EpochOf, a

(* A position and its epoch are those of the message at that count ... *)
LEMMA PlaceIsHome ==
  ASSUME NEW pos \in Slots, NEW epoch \in 0 .. 1, NEW n \in Nat,
         Place(pos, epoch) = n % Lap
  PROVE  pos = Home(n + 1) /\ epoch = EpochOf(n + 1)
<1>1. n % bufmsgs = IF n % Lap < bufmsgs THEN n % Lap ELSE (n % Lap) - bufmsgs
  BY Moduli, HalfRing DEF Lap
<1>2. n + 1 - 1 = n
  OBVIOUS
<1>3. pos \in 0 .. bufmsgs - 1 /\ bufmsgs \in Nat
  BY Moduli DEF Slots
<1>4. epoch = 0 \/ epoch = 1
  OBVIOUS
<1> QED
  BY <1>1, <1>2, <1>3, <1>4 DEF Place, Home, EpochOf

(* ... and ump_impl_get_next moves them to the next. *)
LEMMA NextPlace ==
  ASSUME NEW pos \in Slots, NEW epoch \in 0 .. 1, NEW n \in Nat,
         Place(pos, epoch) = n % Lap
  PROVE  Place(NextPos(pos), NextEpoch(pos, epoch)) = (n + 1) % Lap
<1>1. (n + 1) % Lap = IF (n % Lap) + 1 = Lap THEN 0 ELSE (n % Lap) + 1
  BY Moduli, NextIndex
<1>2. pos \in 0 .. bufmsgs - 1 /\ bufmsgs \in Nat \ {0} /\ Lap = 2 * bufmsgs
  BY Moduli DEF Slots, Lap
<1>3. epoch = 0 \/ epoch = 1
  OBVIOUS
<1> QED
  BY <1>1, <1>2, <1>3 DEF Place, NextPos, NextEpoch

(* The next position is on the ring. *)
LEMMA NextPosType ==
  ASSUME NEW pos \in Slots, NEW epoch \in 0 .. 1
  PROVE  NextPos(pos) \in Slots /\ NextEpoch(pos, epoch) \in 0 .. 1
BY Moduli DEF Slots, NextPos, NextEpoch

(* The first bufmsgs messages have epoch 1, which a cleared header has not. *)
LEMMA FirstLap ==
  ASSUME NEW n \in 1 .. bufmsgs
  PROVE  EpochOf(n) = 1
<1>1. n - 1 \in 0 .. Lap - 1 /\ n - 1 < bufmsgs
  BY Moduli DEF Lap
<1>2. (n - 1) % Lap = n - 1
  BY <1>1, Moduli, SmallIndex
<1> QED
  BY <1>1, <1>2 DEF EpochOf

(* Position 0 with epoch 1 is where message 1 goes. *)
LEMMA FirstPlace == Place(0, 1) = 0 % Lap /\ 0 \in Slots
<1>1. 0 \in 0 .. Lap - 1 /\ 0 \in Slots
  BY Moduli DEF Slots
<1> QED
  BY <1>1, Moduli, SmallIndex DEF Place

(* Nodes and ends *)
LEMMA NodeFacts ==
  /\ 0 \in Nodes /\ 0 \notin Others /\ 1 \in Others /\ 1 \in Nodes
  /\ Others \subseteq Nodes /\ Others \subseteq Nat /\ Nodes = {0} \cup Others
BY CheckpointingAssumption DEF Nodes, Others

(* Each connection has two ends. *)
LEMMA ConnFacts ==
  ASSUME NEW c \in Conns
  PROVE  /\ Peer(c) \in Conns /\ Peer(c) # c /\ Peer(Peer(c)) = c
         /\ c[1] \in Nodes /\ c[2] \in Nodes /\ c = <<c[1], c[2]>> /\ Peer(c) = <<c[2], c[1]>>
         /\ c[1] # 0 => c = <<c[1], 0>> /\ c[1] \in Others
         /\ c[1] = 0 => c[2] \in Others
BY NodeFacts DEF Conns, Peer

(* What a connection's state is made of *)
LEMMA EndTypes ==
  ASSUME MprotectTypeOK, NEW c \in Conns
  PROVE  /\ produced[c] \in Nat /\ consumed[c] \in Nat
         /\ chan[c].spos \in Slots /\ chan[c].sepoch \in 0 .. 1
         /\ chan[c].rpos \in Slots /\ chan[c].repoch \in 0 .. 1
         /\ chan[c].sent_id \in Index /\ chan[c].seq_id \in Index
         /\ chan[c].ack_id \in Index /\ chan[c].last_ack \in Index
BY DEF MprotectTypeOK

-----------------------------------------------------------------------------
(* What the invariant says of the channels *)

ChanInv(stamp) == MprotectTypeOK /\ \A c \in Conns : EndInv(stamp, c)

(* A stamp is a count. *)
LEMMA StampType ==
  ASSUME NEW stamp \in Stamps, NEW c \in Conns
  PROVE  stamp[c] \in [Nat -> Nat] /\ \A n \in Nat : stamp[c][n] \in Nat
<1>1. stamp[c] \in [Nat -> Nat]
  BY DEF Stamps
<1> QED
  BY <1>1

(* An end is at most a window ahead of what it knows to be received. *)
LEMMA Window ==
  ASSUME NEW stamp \in Stamps, ChanInv(stamp), NEW c \in Conns
  PROVE  LET acked == stamp[Peer(c)][consumed[c]] IN
         /\ acked \in Nat /\ acked <= produced[c] /\ acked <= consumed[Peer(c)]
         /\ produced[c] < acked + bufmsgs
         /\ consumed[c] <= produced[Peer(c)]
<1> DEFINE e == Peer(c)
           acked == stamp[e][consumed[c]]
           last == stamp[c][produced[c]]
<1>1. e \in Conns /\ Peer(e) = c
  BY ConnFacts
<1>2. consumed[c] \in Nat /\ produced[c] \in Nat /\ consumed[e] \in Nat /\ produced[e] \in Nat
  BY <1>1, EndTypes DEF ChanInv
<1>3. StampInv(stamp, c) /\ StampInv(stamp, e) /\ SendInv(stamp, c)
  BY <1>1 DEF ChanInv, EndInv
<1>4. acked \in Nat /\ last \in Nat /\ stamp[e][last] \in Nat
  BY <1>1, <1>2, StampType
<1>5. /\ consumed[c] <= produced[e] /\ consumed[e] <= produced[c]
      /\ acked <= consumed[e] /\ last <= consumed[c]
  <2>1. consumed[c] <= produced[e] /\ consumed[e] <= produced[c]
    BY <1>1, <1>3 DEF StampInv
  <2>2. consumed[c] \in 0 .. produced[e] /\ produced[c] \in 0 .. produced[c]
    BY <1>2, <2>1
  <2> QED
    BY <1>3, <2>1, <2>2 DEF StampInv
<1>6. stamp[e][last] <= acked
  <2>1. last \in 0 .. produced[e] /\ consumed[c] \in 0 .. produced[e]
    BY <1>2, <1>4, <1>5
  <2> QED
    BY <1>3, <1>5, <2>1 DEF StampInv
<1>7. produced[c] < acked + bufmsgs
  <2>1. CASE produced[c] = 0
    BY <2>1, <1>4, Moduli
  <2>2. CASE produced[c] # 0
    <3>1. produced[c] \in 1 .. produced[c]
      BY <1>2, <2>2
    <3>2. produced[c] < stamp[e][last] + bufmsgs
      BY <1>3, <3>1 DEF SendInv
    <3> QED
      BY <3>2, <1>2, <1>4, <1>6, Moduli
  <2> QED
    BY <2>1, <2>2
<1> QED
  BY <1>2, <1>4, <1>5, <1>7

(* The test of the sender, on indices that wrap, is the test of the counts. *)
LEMMA CanSendMeans ==
  ASSUME NEW stamp \in Stamps, ChanInv(stamp), NEW c \in Conns
  PROVE  ump_can_send(c) <=> produced[c] + 1 < stamp[Peer(c)][consumed[c]] + bufmsgs
<1> DEFINE acked == stamp[Peer(c)][consumed[c]]
           next == produced[c] + 1
<1>1. /\ acked \in Nat /\ acked <= next /\ next - acked <= bufmsgs
      /\ next \in Nat
  <2>1. produced[c] \in Nat
    BY EndTypes DEF ChanInv
  <2> QED
    BY <2>1, Window, Moduli
<1>2. chan[c].sent_id = Cast(next) /\ chan[c].ack_id = Cast(acked)
  BY DEF ChanInv, EndInv, IndexInv
<1> HIDE DEF acked, next
<1>3. Cast(Cast(next) - Cast(acked)) = next - acked
  BY <1>1, CastDifference
<1>4. ump_can_send(c) <=> next - acked < bufmsgs
  BY <1>2, <1>3 DEF ump_can_send
<1> QED
  BY <1>1, <1>4, Moduli DEF acked, next

(* A message that can be sent has a slot that nobody reads. *)
LEMMA CanSendSafe ==
  ASSUME NEW stamp \in Stamps, ChanInv(stamp), NEW c \in Conns, ump_can_send(c)
  PROVE  produced[c] + 1 < consumed[Peer(c)] + bufmsgs
<1>1. produced[c] \in Nat /\ consumed[Peer(c)] \in Nat
  BY ConnFacts, EndTypes DEF ChanInv
<1> QED
  BY <1>1, Window, CanSendMeans, Moduli

(* Where each end is on the rings *)
LEMMA Positions ==
  ASSUME NEW stamp \in Stamps, ChanInv(stamp), NEW c \in Conns
  PROVE  /\ chan[c].rpos = Home(consumed[c] + 1) /\ chan[c].repoch = EpochOf(consumed[c] + 1)
         /\ chan[c].spos = Home(produced[c] + 1) /\ chan[c].sepoch = EpochOf(produced[c] + 1)
<1>1. PlaceInv(c)
  BY DEF ChanInv, EndInv
<1> QED
  BY <1>1, EndTypes, PlaceIsHome DEF PlaceInv, ChanInv

(* The epoch bit of the next slot tells whether there is a message. *)
LEMMA SeesNew ==
  ASSUME NEW stamp \in Stamps, ChanInv(stamp), NEW c \in Conns
  PROVE  ump_endpoint_can_recv(c) <=> consumed[c] < produced[Peer(c)]
<1> DEFINE e == Peer(c)
           n == consumed[c] + 1
<1>1. e \in Conns /\ Peer(e) = c
  BY ConnFacts
<1>2. consumed[c] \in Nat /\ produced[e] \in Nat /\ consumed[c] <= produced[e]
  BY <1>1, EndTypes, Window DEF ChanInv
<1>3. produced[e] < consumed[c] + bufmsgs
  <2>1. /\ stamp[c][consumed[e]] \in Nat
        /\ stamp[c][consumed[e]] <= consumed[c]
        /\ produced[e] < stamp[c][consumed[e]] + bufmsgs
    BY <1>1, Window
  <2> QED
    BY <2>1, <1>2, Moduli
<1>4. chan[c].rpos = Home(n) /\ chan[c].repoch = EpochOf(n)
  BY Positions
<1>5. EpochInv(e) /\ EpochOf(n) \in 0 .. 1
  BY <1>1 DEF ChanInv, EndInv, EpochOf
<1>6. CASE consumed[c] < produced[e]
  <2>1. n + bufmsgs \in produced[e] + 1 .. produced[e] + bufmsgs
    BY <1>2, <1>3, <1>6, Moduli
  <2>2. ring[e][Home(n + bufmsgs)].epoch = 1 - EpochOf(n + bufmsgs)
    BY <1>5, <2>1 DEF EpochInv
  <2>3. Home(n + bufmsgs) = Home(n) /\ EpochOf(n + bufmsgs) = 1 - EpochOf(n)
    BY <1>2, NextLap
  <2> QED
    BY <1>4, <1>5, <1>6, <2>2, <2>3 DEF ump_endpoint_can_recv
<1>7. CASE ~(consumed[c] < produced[e])
  <2>1. n \in produced[e] + 1 .. produced[e] + bufmsgs
    BY <1>2, <1>7, Moduli
  <2>2. ring[e][Home(n)].epoch = 1 - EpochOf(n)
    BY <1>5, <2>1 DEF EpochInv
  <2> QED
    BY <1>4, <1>5, <1>7, <2>2 DEF ump_endpoint_can_recv
<1> QED
  BY <1>6, <1>7

(* An end that has just received and needs to send an ack has room for it.  *)
(* It needs one only if its last header was no news to the sender of that   *)
(* message: the sender had received (A) a header that acknowledged as much. *)
(* So the end is now told of more receptions than when it last stored one.  *)
LEMMA AckFits ==
  ASSUME NEW stamp \in Stamps, ChanInv(stamp), NEW c \in Conns,
         consumed[c] >= 1, ump_send_ack_is_needed(c)
  PROVE  ump_can_send(c)
<1> DEFINE e == Peer(c)
           C == consumed[c]
           P == produced[c]
           A == stamp[e][C]
           last == stamp[c][P]
<1>1. e \in Conns /\ Peer(e) = c /\ Peer(c) = e /\ (c[1] = 0 => e[1] # 0)
  BY ConnFacts DEF Conns, Peer, Others
<1>2. P \in Nat /\ C \in Nat \ {0} /\ C <= produced[e] /\ produced[e] \in Nat
  BY <1>1, EndTypes, Window DEF ChanInv
<1>3. A \in Nat /\ last \in Nat /\ A <= P /\ stamp[c][A] \in Nat /\ stamp[e][last] \in Nat
  BY <1>1, <1>2, StampType, Window
<1>4. StampInv(stamp, c) /\ SendInv(stamp, c) /\ SendInv(stamp, e) /\ IndexInv(stamp, c)
  BY <1>1 DEF ChanInv, EndInv
<1>5. C < stamp[c][A] + bufmsgs /\ (c[1] = 0 => A >= 1)
  <2>1. C \in 1 .. produced[e]
    BY <1>2
  <2> QED
    BY <1>1, <1>4, <2>1 DEF SendInv
<1>6. stamp[c][A] <= last /\ last <= C
  <2>1. A \in 0 .. P /\ P \in 0 .. P /\ A <= P
    BY <1>2, <1>3
  <2> QED
    BY <1>4, <2>1 DEF StampInv
<1>7. C - last >= bufmsgs - 1
  <2>1. C - last <= bufmsgs
    BY <1>2, <1>3, <1>5, <1>6, Moduli
  <2>2. Cast(Cast(C) - Cast(last)) = C - last
    BY <1>2, <1>3, <1>6, <2>1, CastDifference
  <2>3. chan[c].seq_id = Cast(C) /\ chan[c].last_ack = Cast(last)
    BY <1>4 DEF IndexInv
  <2> QED
    BY <2>2, <2>3 DEF ump_send_ack_is_needed
<1>8. stamp[c][A] = last
  BY <1>2, <1>3, <1>5, <1>6, <1>7, Moduli
<1>9. P + 1 < A + bufmsgs
  <2>1. CASE P = 0
    <3>1. A = 0 /\ last = 0
      BY <1>3, <1>4, <2>1 DEF StampInv
    <3> QED
      BY <1>2, <1>4, <1>5, <2>1, <3>1, Moduli DEF StampInv
  <2>2. CASE P # 0
    <3>1. P \in 1 .. P
      BY <1>2, <2>2
    <3>2. P < stamp[e][last] + bufmsgs /\ (c[1] # 0 => last >= 1)
      BY <1>1, <1>4, <3>1 DEF SendInv
    <3>3. A # 0
      <4>1. stamp[c][0] = 0
        BY <1>4 DEF StampInv
      <4> QED
        BY <1>3, <1>5, <1>8, <3>2, <4>1
    <3>4. stamp[e][last] < A
      <4>1. A \in 1 .. P
        BY <1>2, <1>3, <3>3
      <4> QED
        BY <1>1, <1>4, <1>8, <4>1 DEF SendInv
    <3> QED
      BY <1>2, <1>3, <3>2, <3>4, Moduli
  <2> QED
    BY <2>1, <2>2
<1> QED
  BY <1>9, CanSendMeans

-----------------------------------------------------------------------------
(* What the operations on a connection do to the channels *)

(* An end with the same state, at a connection with the same state *)
LEMMA EndFrame ==
  ASSUME NEW stamp \in Stamps, NEW new \in Stamps, NEW c \in Conns, EndInv(stamp, c),
         ring'[c] = ring[c], chan'[c] = chan[c],
         produced'[c] = produced[c], consumed'[c] = consumed[c],
         produced'[Peer(c)] = produced[Peer(c)], consumed'[Peer(c)] = consumed[Peer(c)],
         new[c] = stamp[c], new[Peer(c)] = stamp[Peer(c)]
  PROVE  EndInv(new, c)'
<1> USE DEF EndInv
<1>1. PlaceInv(c)'
  BY DEF PlaceInv
<1>2. IndexInv(new, c)'
  BY DEF IndexInv
<1>3. StampInv(new, c)'
  BY DEF StampInv
<1>4. SendInv(new, c)'
  BY DEF SendInv
<1>5. EpochInv(c)'
  BY DEF EpochInv
<1>6. FlightInv(new, c)'
  BY DEF FlightInv
<1> QED
  BY <1>1, <1>2, <1>3, <1>4, <1>5, <1>6

(* ump_control_process: the next message is there, and its stamp is what it *)
(* acknowledges.                                                            *)
LEMMA TakeStep ==
  ASSUME NEW stamp \in Stamps, ChanInv(stamp), NEW c \in Conns,
         ump_endpoint_can_recv(c), TakeMessage(c)
  PROVE  \A x \in Conns : EndInv(stamp, x)'
<1> DEFINE e == Peer(c)
           C == consumed[c]
           n == C + 1
           ch == chan[c]
           took == [ch EXCEPT !.rpos = NextPos(@), !.repoch = NextEpoch(ch.rpos, @),
                              !.ack_id = Acknowledged(c), !.seq_id = Cast(@ + 1)]
<1>1. e \in Conns /\ e # c /\ e = Peer(c) /\ Peer(e) = c
  BY ConnFacts
<1>2. C \in Nat /\ produced[e] \in Nat /\ C < produced[e] /\ produced[c] \in Nat
      /\ consumed[e] \in Nat
  BY <1>1, SeesNew, EndTypes DEF ChanInv
<1>3. EndInv(stamp, c) /\ EndInv(stamp, e)
  BY <1>1 DEF ChanInv
<1>4. Acknowledged(c) = Cast(stamp[e][n])
  <2>1. n \in consumed[c] + 1 .. produced[e]
    BY <1>2
  <2> QED
    BY <1>1, <1>3, <2>1, Positions DEF EndInv, FlightInv, Acknowledged, NextMessage
<1>5. /\ consumed' = [consumed EXCEPT ![c] = n]
      /\ chan' = [chan EXCEPT ![c] = took]
      /\ ring' = ring /\ produced' = produced
  <2>1. consumed' = [consumed EXCEPT ![c] = n] /\ ring' = ring /\ produced' = produced
    BY DEF TakeMessage
  <2>2. chan' = [chan EXCEPT ![c] = took]
    BY Zenon DEF TakeMessage
  <2> QED
    BY <2>1, <2>2
<1>6. /\ consumed'[c] = n /\ chan'[c] = took
      /\ \A x \in Conns : x # c => consumed'[x] = consumed[x] /\ chan'[x] = chan[x]
  BY <1>5 DEF ChanInv, MprotectTypeOK
<1>7. /\ took.spos = ch.spos /\ took.sepoch = ch.sepoch
      /\ took.rpos = NextPos(ch.rpos) /\ took.repoch = NextEpoch(ch.rpos, ch.repoch)
      /\ took.sent_id = ch.sent_id /\ took.last_ack = ch.last_ack
      /\ took.ack_id = Acknowledged(c) /\ took.seq_id = Cast(ch.seq_id + 1)
  BY DEF ChanInv, MprotectTypeOK
<1> HIDE DEF took
<1>8. EndInv(stamp, c)'
  <2>1. PlaceInv(c)'
    <3>1. Place(NextPos(ch.rpos), NextEpoch(ch.rpos, ch.repoch)) = n % Lap
      BY <1>2, <1>3, NextPlace, EndTypes DEF EndInv, PlaceInv, ChanInv
    <3> QED
      BY <1>3, <1>5, <1>6, <1>7, <3>1 DEF EndInv, PlaceInv
  <2>2. IndexInv(stamp, c)'
    <3>1. Cast(ch.seq_id + 1) = Cast(n)
      BY <1>2, <1>3, CastNext DEF EndInv, IndexInv
    <3> QED
      BY <1>3, <1>4, <1>5, <1>6, <1>7, <3>1 DEF EndInv, IndexInv
  <2>3. StampInv(stamp, c)'
    <3>1. \A m \in 0 .. produced[c] : stamp[c][m] <= n
      <4>1. \A m \in 0 .. produced[c] : stamp[c][m] <= C /\ stamp[c][m] \in Nat
        BY <1>3, StampType DEF EndInv, StampInv
      <4> QED
        BY <1>2, <4>1
    <3>2. n <= produced[e]
      BY <1>2
    <3> QED
      BY <1>3, <1>5, <1>6, <3>1, <3>2 DEF EndInv, StampInv
  <2>4. SendInv(stamp, c)' /\ EpochInv(c)' /\ FlightInv(stamp, c)'
    BY <1>1, <1>3, <1>5, <1>6 DEF EndInv, SendInv, EpochInv, FlightInv
  <2> QED
    BY <2>1, <2>2, <2>3, <2>4 DEF EndInv
<1>9. EndInv(stamp, e)'
  <2>1. PlaceInv(e)' /\ IndexInv(stamp, e)' /\ StampInv(stamp, e)'
    BY <1>1, <1>3, <1>5, <1>6 DEF EndInv, PlaceInv, IndexInv, StampInv
  <2>2. SendInv(stamp, e)' /\ EpochInv(e)'
    BY <1>1, <1>3, <1>5, <1>6 DEF EndInv, SendInv, EpochInv
  <2>3. FlightInv(stamp, e)'
    <3>1. \A m \in n + 1 .. produced[e] : m \in C + 1 .. produced[e]
      BY <1>2
    <3>2. consumed'[Peer(e)] = n /\ produced'[e] = produced[e] /\ ring'[e] = ring[e]
      BY <1>1, <1>5, <1>6
    <3> HIDE DEF n
    <3> QED
      BY <1>1, <1>3, <3>1, <3>2 DEF EndInv, FlightInv
  <2> QED
    BY <2>1, <2>2, <2>3 DEF EndInv
<1>10. ASSUME NEW x \in Conns, x # c, x # e PROVE EndInv(stamp, x)'
  <2>1. EndInv(stamp, x) /\ Peer(x) \in Conns /\ Peer(x) # c
    BY <1>1, <1>10, ConnFacts DEF ChanInv
  <2> QED
    BY <1>5, <1>6, <1>10, <2>1, EndFrame
<1> QED
  BY <1>8, <1>9, <1>10

(* All but the last of the messages a ring ahead are less than a ring ahead. *)
LEMMA InsideWindow ==
  ASSUME NEW k \in Nat, NEW n \in Nat, NEW m \in n + 1 .. n + k, m # n + k
  PROVE  m \in Nat \ {0} /\ n < m /\ m < n + k
OBVIOUS

(* What StoreHeader leaves in the message and in the structure of the end *)
LEMMA Stored ==
  ASSUME MprotectTypeOK, NEW c \in Conns, NEW type, StoreHeader(c, type)
  PROVE  LET ch == chan[c] IN
         /\ ring'[c][ch.spos] = Message(ch.sepoch, type, ch.seq_id, ring[c][ch.spos].data)
         /\ \A s \in Slots : s # ch.spos => ring'[c][s] = ring[c][s]
         /\ \A x \in Conns : x # c =>
              /\ ring'[x] = ring[x] /\ chan'[x] = chan[x]
              /\ produced'[x] = produced[x]
         /\ produced'[c] = produced[c] + 1 /\ consumed' = consumed
         /\ chan'[c].spos = NextPos(ch.spos)
         /\ chan'[c].sepoch = NextEpoch(ch.spos, ch.sepoch)
         /\ chan'[c].rpos = ch.rpos /\ chan'[c].repoch = ch.repoch
         /\ chan'[c].last_ack = ch.seq_id /\ chan'[c].sent_id = Cast(ch.sent_id + 1)
         /\ chan'[c].seq_id = ch.seq_id /\ chan'[c].ack_id = ch.ack_id
<1> DEFINE ch == chan[c]
           message_ == Message(ch.sepoch, type, ch.seq_id, ring[c][ch.spos].data)
           stored == [ch EXCEPT !.spos = NextPos(@), !.sepoch = NextEpoch(ch.spos, @),
                                !.last_ack = ch.seq_id, !.sent_id = Cast(@ + 1)]
<1>1. ring' = [ring EXCEPT ![c][ch.spos] = message_]
  BY DEF StoreHeader
<1>2. chan' = [chan EXCEPT ![c] = stored]
  BY DEF StoreHeader
<1>3. produced' = [produced EXCEPT ![c] = @ + 1] /\ consumed' = consumed
  BY DEF StoreHeader
<1>4. /\ stored.spos = NextPos(ch.spos)
      /\ stored.sepoch = NextEpoch(ch.spos, ch.sepoch)
      /\ stored.rpos = ch.rpos /\ stored.repoch = ch.repoch
      /\ stored.last_ack = ch.seq_id /\ stored.sent_id = Cast(ch.sent_id + 1)
      /\ stored.seq_id = ch.seq_id /\ stored.ack_id = ch.ack_id
  BY DEF MprotectTypeOK
<1> HIDE DEF message_, stored
<1>5. chan'[c] = stored /\ \A x \in Conns : x # c => chan'[x] = chan[x]
  BY <1>2 DEF MprotectTypeOK
<1>6. /\ ring'[c][ch.spos] = message_
      /\ \A s \in Slots : s # ch.spos => ring'[c][s] = ring[c][s]
      /\ \A x \in Conns : x # c => ring'[x] = ring[x]
  BY <1>1 DEF MprotectTypeOK
<1>7. produced'[c] = produced[c] + 1 /\ \A x \in Conns : x # c => produced'[x] = produced[x]
  BY <1>3 DEF MprotectTypeOK
<1> QED
  BY <1>3, <1>4, <1>5, <1>6, <1>7 DEF message_

(* The store of a header makes message n = produced[c] + 1 visible, with    *)
(* the stamp of what its end has received; nothing else looks at its slot.  *)
LEMMA StoreStep ==
  ASSUME NEW stamp \in Stamps, ChanInv(stamp), NEW c \in Conns, NEW type,
         ump_can_send(c), c[1] # 0 => consumed[c] >= 1, StoreHeader(c, type)
  PROVE  \E new \in Stamps : \A x \in Conns : EndInv(new, x)'
<1> DEFINE e == Peer(c)
           P == produced[c]
           C == consumed[c]
           n == P + 1
           ch == chan[c]
<1>1. e \in Conns /\ e # c /\ e = Peer(c) /\ Peer(e) = c
  BY ConnFacts
<1>2. /\ P \in Nat /\ C \in Nat /\ produced[e] \in Nat /\ consumed[e] \in Nat
      /\ C <= produced[e] /\ consumed[e] <= P /\ bufmsgs \in Nat \ {0}
      /\ n \in Nat \ {0} /\ n = P + 1
  BY <1>1, EndTypes, Window, Moduli DEF ChanInv
<1>3. EndInv(stamp, c) /\ EndInv(stamp, e)
  BY <1>1 DEF ChanInv
<1>4. /\ n < consumed[e] + bufmsgs /\ n < stamp[e][C] + bufmsgs
      /\ stamp[e][C] < n /\ stamp[e][C] \in Nat
  BY <1>2, CanSendSafe, CanSendMeans, Window
<1>5. PICK new \in Stamps :
        /\ new[c][n] = C
        /\ \A m \in Nat : m # n => new[c][m] = stamp[c][m]
        /\ \A x \in Conns : x # c => new[x] = stamp[x]
  <2>1. n \in Nat /\ C \in Nat
    BY <1>2
  <2> HIDE DEF n, C
  <2> DEFINE own == [stamp[c] EXCEPT ![n] = C]
             all == [stamp EXCEPT ![c] = own]
  <2>2. stamp[c] \in [Nat -> Nat] /\ stamp \in [Conns -> [Nat -> Nat]]
    BY DEF Stamps
  <2>3. own \in [Nat -> Nat] /\ own[n] = C /\ \A m \in Nat : m # n => own[m] = stamp[c][m]
    BY <2>1, <2>2
  <2> HIDE DEF own
  <2>4. all \in Stamps /\ all[c] = own /\ \A x \in Conns : x # c => all[x] = stamp[x]
    BY <2>2, <2>3 DEF Stamps
  <2> HIDE DEF all
  <2> QED
    BY <2>3, <2>4
<1>6. \A m \in 0 .. P : new[c][m] = stamp[c][m] /\ m \in Nat
  BY <1>2, <1>5
<1>7. \A x \in Conns, m \in Nat : stamp[x][m] \in Nat
  BY StampType
<1>8. /\ ch.spos = Home(n) /\ ch.sepoch = EpochOf(n) /\ Home(n) \in Slots
      /\ ch.sepoch \in 0 .. 1
  BY <1>2, Positions, HomeIsSlot, EndTypes DEF ChanInv
<1>9. /\ ring'[c][Home(n)].epoch = EpochOf(n) /\ ring'[c][Home(n)].seq = ch.seq_id
      /\ \A s \in Slots : s # Home(n) => ring'[c][s] = ring[c][s]
      /\ \A x \in Conns : x # c =>
           /\ ring'[x] = ring[x] /\ chan'[x] = chan[x]
           /\ produced'[x] = produced[x]
      /\ produced'[c] = n /\ consumed' = consumed
      /\ chan'[c].spos = NextPos(ch.spos)
      /\ chan'[c].sepoch = NextEpoch(ch.spos, ch.sepoch)
      /\ chan'[c].rpos = ch.rpos /\ chan'[c].repoch = ch.repoch
      /\ chan'[c].last_ack = ch.seq_id /\ chan'[c].sent_id = Cast(ch.sent_id + 1)
      /\ chan'[c].seq_id = ch.seq_id /\ chan'[c].ack_id = ch.ack_id
  <2>1. /\ ring'[c][ch.spos] = Message(ch.sepoch, type, ch.seq_id, ring[c][ch.spos].data)
        /\ \A s \in Slots : s # ch.spos => ring'[c][s] = ring[c][s]
    BY Stored DEF ChanInv
  <2>2. /\ \A x \in Conns : x # c =>
             /\ ring'[x] = ring[x] /\ chan'[x] = chan[x]
             /\ produced'[x] = produced[x]
        /\ produced'[c] = produced[c] + 1 /\ consumed' = consumed
        /\ chan'[c].spos = NextPos(ch.spos)
        /\ chan'[c].sepoch = NextEpoch(ch.spos, ch.sepoch)
        /\ chan'[c].rpos = ch.rpos /\ chan'[c].repoch = ch.repoch
        /\ chan'[c].last_ack = ch.seq_id /\ chan'[c].sent_id = Cast(ch.sent_id + 1)
        /\ chan'[c].seq_id = ch.seq_id /\ chan'[c].ack_id = ch.ack_id
    BY Stored DEF ChanInv
  <2> HIDE DEF ch
  <2>3. /\ ring'[c][Home(n)].epoch = EpochOf(n) /\ ring'[c][Home(n)].seq = ch.seq_id
        /\ \A s \in Slots : s # Home(n) => ring'[c][s] = ring[c][s]
    BY <1>8, <2>1 DEF Message
  <2> QED
    BY <2>2, <2>3
<1>10. ch.seq_id = Cast(C)
  BY <1>3 DEF EndInv, IndexInv
<1> HIDE DEF n
<1>11. EndInv(new, c)'
  <2>1. PlaceInv(c)'
    <3>1. Place(NextPos(ch.spos), NextEpoch(ch.spos, ch.sepoch)) = n % Lap
      BY <1>2, <1>3, NextPlace, EndTypes DEF EndInv, PlaceInv, ChanInv
    <3> QED
      BY <1>3, <1>9, <3>1 DEF EndInv, PlaceInv
  <2>2. IndexInv(new, c)'
    <3>1. Cast(ch.sent_id + 1) = Cast(n + 1)
      BY <1>2, <1>3, CastNext DEF EndInv, IndexInv
    <3>2. new[e] = stamp[e]
      BY <1>1, <1>5
    <3> QED
      BY <1>1, <1>3, <1>5, <1>9, <1>10, <3>1, <3>2 DEF EndInv, IndexInv
  <2>3. StampInv(new, c)'
    <3>1. \A m \in 0 .. n : m = n \/ m \in 0 .. P
      BY <1>2
    <3>2. /\ \A m \in 0 .. P : new[c][m] <= C
          /\ \A m, k \in 0 .. P : m <= k => new[c][m] <= new[c][k]
          /\ new[c][0] = 0
      <4>1. 0 \in 0 .. P
        BY <1>2
      <4> QED
        BY <1>3, <1>6, <4>1 DEF EndInv, StampInv
    <3>3. \A m \in 0 .. P : ~(n <= m)
      BY <1>2
    <3>4. \A m \in 0 .. n : new[c][m] <= C
      BY <1>2, <1>5, <3>1, <3>2
    <3>5. \A m, k \in 0 .. n : m <= k => new[c][m] <= new[c][k]
      BY <1>5, <3>1, <3>2, <3>3, <3>4
    <3> QED
      BY <1>1, <1>2, <1>9, <3>2, <3>4, <3>5 DEF StampInv
  <2>4. SendInv(new, c)'
    <3>1. new[e] = stamp[e]
      BY <1>1, <1>5
    <3>2. ASSUME NEW m \in 1 .. n
          PROVE  /\ new[e][new[c][m]] < m /\ m < new[e][new[c][m]] + bufmsgs
                 /\ c[1] # 0 => new[c][m] >= 1
      <4>1. CASE m = n
        BY <1>4, <1>5, <3>1, <4>1
      <4>2. CASE m # n
        <5>1. m \in 1 .. P /\ m \in 0 .. P
          BY <1>2, <3>2, <4>2
        <5>2. new[c][m] = stamp[c][m]
          BY <1>6, <5>1
        <5> QED
          BY <1>3, <3>1, <5>1, <5>2 DEF EndInv, SendInv
      <4> QED
        BY <4>1, <4>2
    <3> QED
      BY <1>1, <1>9, <3>2 DEF SendInv
  <2>5. EpochInv(c)'
    <3>1. ASSUME NEW m \in n + 1 .. n + bufmsgs
          PROVE  ring'[c][Home(m)].epoch = 1 - EpochOf(m)
      <4>1. CASE m = n + bufmsgs
        <5>1. Home(m) = Home(n) /\ EpochOf(m) = 1 - EpochOf(n) /\ EpochOf(n) \in 0 .. 1
          BY <1>2, <4>1, NextLap DEF EpochOf
        <5> QED
          BY <1>9, <5>1
      <4>2. CASE m # n + bufmsgs
        <5>1. m \in Nat \ {0} /\ n < m /\ m < n + bufmsgs
          <6>1. n \in Nat /\ bufmsgs \in Nat
            BY <1>2
          <6> QED
            BY <6>1, <3>1, <4>2, InsideWindow
        <5>2. Home(m) \in Slots /\ Home(m) # Home(n)
          BY <1>2, <5>1, HomeApart, HomeIsSlot
        <5>3. m \in produced[c] + 1 .. produced[c] + bufmsgs
          BY <1>2, <5>1
        <5> QED
          BY <1>3, <1>9, <5>2, <5>3 DEF EndInv, EpochInv
      <4> QED
        BY <4>1, <4>2
    <3> QED
      BY <1>9, <3>1 DEF EpochInv
  <2>6. FlightInv(new, c)'
    <3>1. ASSUME NEW m \in consumed[e] + 1 .. n
          PROVE  ring'[c][Home(m)].seq = Cast(new[c][m])
      <4>1. CASE m = n
        BY <1>5, <1>9, <1>10, <4>1
      <4>2. CASE m # n
        <5>1. m \in Nat \ {0} /\ m < n /\ n < m + bufmsgs /\ m \in 0 .. P
              /\ m \in consumed[e] + 1 .. P
          BY <1>2, <1>4, <3>1, <4>2
        <5>2. Home(m) \in Slots /\ Home(m) # Home(n)
          BY <1>2, <5>1, HomeApart, HomeIsSlot
        <5> QED
          BY <1>1, <1>3, <1>6, <1>9, <5>1, <5>2 DEF EndInv, FlightInv
      <4> QED
        BY <4>1, <4>2
    <3> QED
      BY <1>1, <1>9, <3>1 DEF FlightInv
  <2> QED
    BY <2>1, <2>2, <2>3, <2>4, <2>5, <2>6 DEF EndInv
<1>12. EndInv(new, e)'
  <2>1. new[e] = stamp[e] /\ produced'[e] = produced[e] /\ chan'[e] = chan[e] /\ ring'[e] = ring[e]
    BY <1>1, <1>5, <1>9
  <2>2. PlaceInv(e)' /\ EpochInv(e)'
    BY <1>3, <1>9, <2>1 DEF EndInv, PlaceInv, EpochInv
  <2>3. IndexInv(new, e)'
    <3>1. new[c][consumed[e]] = stamp[c][consumed[e]]
      BY <1>2, <1>6
    <3> QED
      BY <1>1, <1>3, <1>9, <2>1, <3>1 DEF EndInv, IndexInv
  <2>4. StampInv(new, e)'
    BY <1>1, <1>2, <1>3, <1>9, <2>1 DEF EndInv, StampInv
  <2>5. SendInv(new, e)'
    <3>1. \A m \in 1 .. produced[e] : new[c][stamp[e][m]] = stamp[c][stamp[e][m]]
      <4>1. ASSUME NEW m \in 1 .. produced[e] PROVE stamp[e][m] \in 0 .. P
        <5>1. m \in 0 .. produced[e] /\ m \in Nat
          BY <1>2
        <5>2. stamp[e][m] <= consumed[e] /\ stamp[e][m] \in Nat
          BY <1>1, <1>3, <1>7, <5>1 DEF EndInv, StampInv
        <5> QED
          BY <1>2, <5>2
      <4> QED
        BY <1>6, <4>1
    <3> QED
      BY <1>1, <1>3, <1>9, <2>1, <3>1 DEF EndInv, SendInv
  <2>6. FlightInv(new, e)'
    BY <1>1, <1>3, <1>9, <2>1 DEF EndInv, FlightInv
  <2> QED
    BY <2>2, <2>3, <2>4, <2>5, <2>6 DEF EndInv
<1>13. ASSUME NEW x \in Conns, x # c, x # e PROVE EndInv(new, x)'
  <2>1. EndInv(stamp, x) /\ Peer(x) \in Conns /\ Peer(x) # c
    BY <1>1, <1>13, ConnFacts DEF ChanInv
  <2> QED
    BY <1>5, <1>9, <1>13, <2>1, EndFrame
<1> QED
  BY <1>11, <1>12, <1>13

(* Same counts and headers: the channels do not look at the payloads. *)
LEMMA HeaderFrame ==
  ASSUME NEW stamp \in Stamps, ChanInv(stamp), NEW c \in Conns,
         chan'[c] = chan[c], produced' = produced, consumed' = consumed,
         \A s \in Slots : /\ ring'[c][s].epoch = ring[c][s].epoch
                          /\ ring'[c][s].seq = ring[c][s].seq
  PROVE  EndInv(stamp, c)'
<1>1. EndInv(stamp, c)
  BY DEF ChanInv
<1>2. Peer(c) \in Conns
  BY ConnFacts
<1>3. PlaceInv(c)' /\ IndexInv(stamp, c)' /\ StampInv(stamp, c)' /\ SendInv(stamp, c)'
  BY <1>1 DEF EndInv, PlaceInv, IndexInv, StampInv, SendInv
<1>4. EpochInv(c)'
  <2>1. ASSUME NEW n \in produced[c] + 1 .. produced[c] + bufmsgs
        PROVE  ring'[c][Home(n)].epoch = 1 - EpochOf(n)
    <3>1. n \in Nat \ {0}
      BY Moduli, EndTypes DEF ChanInv
    <3> QED
      BY <1>1, <3>1, HomeIsSlot DEF EndInv, EpochInv
  <2> QED
    BY <2>1 DEF EpochInv
<1>5. FlightInv(stamp, c)'
  <2>1. ASSUME NEW n \in consumed[Peer(c)] + 1 .. produced[c]
        PROVE  ring'[c][Home(n)].seq = Cast(stamp[c][n])
    <3>1. n \in Nat \ {0}
      BY <1>2, EndTypes DEF ChanInv
    <3> QED
      BY <1>1, <3>1, HomeIsSlot DEF EndInv, FlightInv
  <2> QED
    BY <2>1 DEF FlightInv
<1> QED
  BY <1>3, <1>4, <1>5 DEF EndInv

(* What CopyIn leaves in the ring *)
LEMMA Copied ==
  ASSUME MprotectTypeOK, NEW c \in Conns, NEW data, CopyIn(c, data)
  PROVE  LET spos == chan[c].spos IN
         /\ ring'[c][spos].data = data
         /\ \A s \in Slots : s # spos => ring'[c][s] = ring[c][s]
         /\ \A x \in Conns : x # c => ring'[x] = ring[x]
         /\ \A x \in Conns, s \in Slots :
              /\ ring'[x][s].epoch = ring[x][s].epoch
              /\ ring'[x][s].type = ring[x][s].type
              /\ ring'[x][s].seq = ring[x][s].seq
         /\ chan' = chan /\ produced' = produced /\ consumed' = consumed
<1> DEFINE spos == chan[c].spos
           copied == [ring[c][spos] EXCEPT !.data = data]
<1>1. ring' = [ring EXCEPT ![c][spos] = copied]
  BY DEF CopyIn
<1>2. /\ copied.data = data
      /\ copied.epoch = ring[c][spos].epoch /\ copied.type = ring[c][spos].type
      /\ copied.seq = ring[c][spos].seq
  BY DEF MprotectTypeOK
<1> HIDE DEF copied
<1>3. /\ ring'[c][spos] = copied
      /\ \A s \in Slots : s # spos => ring'[c][s] = ring[c][s]
      /\ \A x \in Conns : x # c => ring'[x] = ring[x]
  BY <1>1 DEF MprotectTypeOK
<1>4. chan' = chan /\ produced' = produced /\ consumed' = consumed
  BY DEF CopyIn
<1> QED
  BY <1>2, <1>3, <1>4

(* An end that opens has neither sent nor received: its counters and ring   *)
(* are as they were.                                                        *)
LEMMA OpenChannelStep ==
  ASSUME NEW stamp \in Stamps, ChanInv(stamp), NEW ends \in SUBSET Conns,
         \A c \in ends : produced[c] = 0 /\ consumed[c] = 0,
         open_channel(ends)
  PROVE  \A x \in Conns : EndInv(stamp, x)'
<1>1. produced' = produced /\ consumed' = consumed
  BY DEF open_channel
<1>2. ASSUME NEW c \in Conns, c \notin ends PROVE EndInv(stamp, c)'
  <2>1. ring'[c] = ring[c] /\ chan'[c] = chan[c]
    BY <1>2 DEF open_channel
  <2> QED
    BY <1>1, <2>1, HeaderFrame
<1>3. ASSUME NEW c \in ends PROVE EndInv(stamp, c)'
  <2> DEFINE e == Peer(c)
  <2>1. c \in Conns /\ e \in Conns /\ Peer(e) = c /\ e = Peer(c)
    BY ConnFacts
  <2>2. produced[c] = 0 /\ consumed[c] = 0 /\ consumed[e] \in Nat /\ produced[e] \in Nat
    BY <2>1, EndTypes DEF ChanInv
  <2>3. EndInv(stamp, c) /\ EndInv(stamp, e)
    BY <2>1 DEF ChanInv
  <2>4. chan'[c] = Opened
    BY <2>1 DEF open_channel
  <2>5. \A s \in Slots : ring'[c][s].epoch = 0
    <3>1. ring'[c] = [i \in Slots |-> [ring[c][i] EXCEPT !.epoch = 0, !.seq = 0,
                                                         !.type = "UMP_MSG"]]
      BY <2>1 DEF open_channel
    <3>2. ASSUME NEW s \in Slots PROVE ring'[c][s].epoch = 0
      <4> DEFINE m == ring[c][s]
      <4>1. m \in [epoch : 0 .. 1, type : {"UMP_MSG", "UMP_ACK"}, seq : Index, data : Snapshots]
        BY <2>1 DEF ChanInv, MprotectTypeOK
      <4>2. ring'[c][s] = [m EXCEPT !.epoch = 0, !.seq = 0, !.type = "UMP_MSG"]
        BY <3>1
      <4> HIDE DEF m
      <4> QED
        BY <4>1, <4>2
    <3> QED
      BY <3>2
  <2>6. PlaceInv(c)'
    BY <1>1, <2>2, <2>4, FirstPlace DEF PlaceInv, Opened
  <2>7. IndexInv(stamp, c)'
    <3>1. stamp[c][0] = 0 /\ stamp[e][0] = 0
      BY <2>3 DEF EndInv, StampInv
    <3> QED
      BY <1>1, <2>1, <2>2, <2>4, <3>1, CastZero DEF IndexInv, Opened
  <2>8. StampInv(stamp, c)' /\ SendInv(stamp, c)'
    BY <1>1, <2>3 DEF EndInv, StampInv, SendInv
  <2>9. EpochInv(c)'
    <3>1. ASSUME NEW n \in 1 .. bufmsgs PROVE ring'[c][Home(n)].epoch = 1 - EpochOf(n)
      <4>1. n \in Nat \ {0} /\ EpochOf(n) = 1
        BY Moduli, FirstLap
      <4> QED
        BY <2>5, <4>1, HomeIsSlot
    <3> QED
      BY <1>1, <2>2, <3>1, Moduli DEF EpochInv
  <2>10. FlightInv(stamp, c)'
    <3>1. consumed[e] + 1 .. produced[c] = {}
      BY <2>2
    <3> QED
      BY <1>1, <2>1, <3>1 DEF FlightInv
  <2> QED
    BY <2>6, <2>7, <2>8, <2>9, <2>10 DEF EndInv
<1> QED
  BY <1>2, <1>3

(* Nothing is sent when the program starts. *)
LEMMA ChannelsInit == MprotectInit => ChannelsInv
<1> SUFFICES ASSUME MprotectInit PROVE ChannelsInv
  OBVIOUS
<1>1. PICK stamp \in Stamps : stamp = [c \in Conns |-> [n \in Nat |-> 0]]
  BY DEF Stamps
<1>2. ASSUME NEW c \in Conns PROVE EndInv(stamp, c)
  <2>1. Peer(c) \in Conns
    BY ConnFacts
  <2>2. /\ produced[c] = 0 /\ consumed[c] = 0 /\ chan[c] = Opened
        /\ produced[Peer(c)] = 0 /\ consumed[Peer(c)] = 0
        /\ stamp[c][0] = 0 /\ stamp[Peer(c)][0] = 0
    BY <1>1, <2>1 DEF MprotectInit
  <2>3. PlaceInv(c)
    BY <2>2, FirstPlace DEF PlaceInv, Opened
  <2>4. IndexInv(stamp, c)
    BY <2>2, CastZero DEF IndexInv, Opened
  <2>5. StampInv(stamp, c) /\ SendInv(stamp, c)
    BY <2>2 DEF StampInv, SendInv
  <2>6. EpochInv(c)
    <3>1. ASSUME NEW n \in 1 .. bufmsgs PROVE ring[c][Home(n)].epoch = 1 - EpochOf(n)
      <4>1. n \in Nat \ {0} /\ EpochOf(n) = 1
        BY Moduli, FirstLap
      <4> QED
        BY <4>1, HomeIsSlot DEF MprotectInit, NoMessage, Message
    <3> QED
      BY <2>2, <3>1, Moduli DEF EpochInv
  <2>7. FlightInv(stamp, c)
    BY <2>2 DEF FlightInv
  <2> QED
    BY <2>3, <2>4, <2>5, <2>6, <2>7 DEF EndInv
<1> QED
  BY <1>2 DEF ChannelsInv

-----------------------------------------------------------------------------
(* Types of the channels *)

Messages == [epoch : 0 .. 1, type : {"UMP_MSG", "UMP_ACK"}, seq : Index, data : Snapshots]
ChannelStates ==
  [spos : Slots, sepoch : 0 .. 1, rpos : Slots, repoch : 0 .. 1,
   sent_id : Index, seq_id : Index, ack_id : Index, last_ack : Index]

(* The structures have the types of their fields. *)
LEMMA ChannelTypes ==
  MprotectTypeOK <=>
    /\ ring \in [Conns -> [Slots -> Messages]]
    /\ chan \in [Conns -> ChannelStates]
    /\ f \in [Conns -> 0 .. 1]
    /\ produced \in [Conns -> Nat] /\ consumed \in [Conns -> Nat]
BY DEF MprotectTypeOK, Messages, ChannelStates

(* Index is a set of numbers, with 0 and 1. *)
LEMMA IndexType ==
  /\ Index \subseteq Nat /\ 0 \in Index /\ Cast(1) \in Index
  /\ \A n \in Index : Cast(n + 1) \in Index
<1>1. Index \subseteq Nat /\ 0 \in Index
  BY Moduli DEF Index
<1>2. ASSUME NEW n \in Nat PROVE Cast(n + 1) \in Index /\ Cast(1) \in Index
  BY CastType
<1> QED
  BY <1>1, <1>2

(* A message stored in a slot, and a structure updated *)
LEMMA RingUpdate ==
  ASSUME ring \in [Conns -> [Slots -> Messages]], NEW c \in Conns, NEW s \in Slots,
         NEW m \in Messages, ring' = [ring EXCEPT ![c][s] = m]
  PROVE  ring' \in [Conns -> [Slots -> Messages]]
<1>1. [ring[c] EXCEPT ![s] = m] \in [Slots -> Messages]
  OBVIOUS
<1> QED
  BY <1>1

LEMMA TakeType ==
  ASSUME MprotectTypeOK, NEW c \in Conns, TakeMessage(c)
  PROVE  MprotectTypeOK'
<1> DEFINE ch == chan[c]
           took == [ch EXCEPT !.rpos = NextPos(@), !.repoch = NextEpoch(ch.rpos, @),
                              !.ack_id = Acknowledged(c), !.seq_id = Cast(@ + 1)]
<1>1. Peer(c) \in Conns
  BY ConnFacts
<1>2. ring[Peer(c)][ch.rpos] \in Messages
  BY <1>1, EndTypes, ChannelTypes
<1>3. Acknowledged(c) \in Index
  BY <1>2 DEF Acknowledged, NextMessage, Messages
<1>4. /\ ch \in ChannelStates
      /\ NextPos(ch.rpos) \in Slots /\ NextEpoch(ch.rpos, ch.repoch) \in 0 .. 1
      /\ Cast(ch.seq_id + 1) \in Index
  BY ChannelTypes, EndTypes, NextPosType, IndexType
<1>5. took \in ChannelStates
  BY <1>3, <1>4 DEF ChannelStates
<1>6. chan' = [chan EXCEPT ![c] = took]
  BY DEF TakeMessage
<1> HIDE DEF took
<1>7. chan' \in [Conns -> ChannelStates]
  BY <1>5, <1>6, ChannelTypes
<1>8. consumed' \in [Conns -> Nat] /\ UNCHANGED <<ring, f, produced>>
  BY ChannelTypes DEF TakeMessage
<1> QED
  BY <1>7, <1>8 DEF MprotectTypeOK, ChannelStates

LEMMA StoreType ==
  ASSUME MprotectTypeOK, NEW c \in Conns, NEW type \in {"UMP_MSG", "UMP_ACK"},
         StoreHeader(c, type)
  PROVE  MprotectTypeOK'
<1> DEFINE ch == chan[c]
           m == Message(ch.sepoch, type, ch.seq_id, ring[c][ch.spos].data)
           stored == [ch EXCEPT !.spos = NextPos(@), !.sepoch = NextEpoch(ch.spos, @),
                                !.last_ack = ch.seq_id, !.sent_id = Cast(@ + 1)]
<1>1. ring[c][ch.spos] \in Messages /\ ch.spos \in Slots
  BY EndTypes, ChannelTypes
<1>2. m \in Messages
  BY <1>1, EndTypes DEF Message, Messages
<1>3. /\ ch \in ChannelStates /\ ch.seq_id \in Index
      /\ NextPos(ch.spos) \in Slots /\ NextEpoch(ch.spos, ch.sepoch) \in 0 .. 1
      /\ Cast(ch.sent_id + 1) \in Index
  BY ChannelTypes, EndTypes, NextPosType, IndexType
<1>4. stored \in ChannelStates
  BY <1>3 DEF ChannelStates
<1>5. chan' = [chan EXCEPT ![c] = stored] /\ ring' = [ring EXCEPT ![c][ch.spos] = m]
  BY DEF StoreHeader
<1> HIDE DEF stored, m
<1>6. chan' \in [Conns -> ChannelStates]
  BY <1>4, <1>5, ChannelTypes
<1>7. ring' \in [Conns -> [Slots -> Messages]]
  BY <1>1, <1>2, <1>5, ChannelTypes, RingUpdate
<1>8. produced' \in [Conns -> Nat] /\ UNCHANGED <<f, consumed>>
  BY ChannelTypes DEF StoreHeader
<1> QED
  BY <1>6, <1>7, <1>8 DEF MprotectTypeOK, ChannelStates, Messages

LEMMA CopyType ==
  ASSUME MprotectTypeOK, NEW c \in Conns, NEW data \in Snapshots, CopyIn(c, data)
  PROVE  MprotectTypeOK'
<1> DEFINE spos == chan[c].spos
           m == [ring[c][spos] EXCEPT !.data = data]
<1>1. ring[c][spos] \in Messages /\ spos \in Slots
  BY EndTypes, ChannelTypes
<1>2. m \in Messages
  BY <1>1 DEF Messages
<1>3. ring' = [ring EXCEPT ![c][spos] = m]
  BY DEF CopyIn
<1> HIDE DEF m
<1>4. ring' \in [Conns -> [Slots -> Messages]]
  BY <1>1, <1>2, <1>3, ChannelTypes, RingUpdate
<1>5. UNCHANGED <<chan, f, produced, consumed>>
  BY DEF CopyIn
<1> QED
  BY <1>4, <1>5 DEF MprotectTypeOK, Messages

LEMMA OpenType ==
  ASSUME MprotectTypeOK, NEW ends \in SUBSET Conns, open_channel(ends)
  PROVE  MprotectTypeOK'
<1>1. Opened \in ChannelStates
  BY FirstPlace, IndexType DEF Opened, ChannelStates
<1>2. chan' \in [Conns -> ChannelStates]
  BY <1>1, ChannelTypes DEF open_channel
<1>3. ASSUME NEW c \in Conns PROVE ring'[c] \in [Slots -> Messages]
  <2>1. CASE c \notin ends
    BY <2>1, ChannelTypes DEF open_channel
  <2>2. CASE c \in ends
    <3> DEFINE Cleared(i) == [ring[c][i] EXCEPT !.epoch = 0, !.seq = 0, !.type = "UMP_MSG"]
    <3>1. ASSUME NEW i \in Slots PROVE Cleared(i) \in Messages
      <4> DEFINE m == ring[c][i]
      <4>1. m \in Messages
        BY ChannelTypes
      <4>2. Cleared(i) = [m EXCEPT !.epoch = 0, !.seq = 0, !.type = "UMP_MSG"]
        OBVIOUS
      <4>3. 0 \in Index /\ 0 \in 0 .. 1
        BY IndexType
      <4> HIDE DEF m, Cleared
      <4> QED
        BY <4>1, <4>2, <4>3 DEF Messages
    <3>2. ring'[c] = [i \in Slots |-> Cleared(i)]
      BY <2>2 DEF open_channel
    <3> HIDE DEF Cleared
    <3> QED
      BY <3>1, <3>2
  <2> QED
    BY <2>1, <2>2
<1>4. ring' \in [Conns -> [Slots -> Messages]]
  <2>1. ring' = [c \in Conns |-> ring'[c]]
    BY DEF open_channel
  <2> QED
    BY <1>3, <2>1
<1>5. UNCHANGED <<f, produced, consumed>>
  BY DEF open_channel
<1> QED
  BY <1>2, <1>4, <1>5 DEF MprotectTypeOK, Messages, ChannelStates

LEMMA FutexType ==
  ASSUME MprotectTypeOK, NEW c \in Conns, FutexSet(c) \/ FutexUnlock(c)
  PROVE  MprotectTypeOK'
<1>1. f' \in [Conns -> 0 .. 1] /\ UNCHANGED <<ring, chan, produced, consumed>>
  BY ConnFacts, ChannelTypes DEF FutexSet, FutexUnlock
<1> QED
  BY <1>1 DEF MprotectTypeOK

-----------------------------------------------------------------------------
(* What the nodes rely on, whatever they do *)

(* The state of a connection, without the stamps *)
LEMMA ChannelFacts ==
  ASSUME MprotectTypeOK, ChannelsInv, NEW c \in Conns
  PROVE  /\ ump_endpoint_can_recv(c) <=> consumed[c] < produced[Peer(c)]
         /\ consumed[c] <= produced[Peer(c)]
         /\ produced[c] <= consumed[Peer(c)] + bufmsgs
         /\ chan[c].spos = Home(produced[c] + 1)
         /\ chan[c].rpos = Home(consumed[c] + 1)
         /\ ump_can_send(c) => produced[c] + 1 < consumed[Peer(c)] + bufmsgs
         /\ consumed[c] >= 1 /\ ump_send_ack_is_needed(c) => ump_can_send(c)
<1>1. PICK stamp \in Stamps : \A x \in Conns : EndInv(stamp, x)
  BY DEF ChannelsInv
<1>2. ChanInv(stamp)
  BY <1>1 DEF ChanInv
<1>3. produced[c] \in Nat /\ consumed[Peer(c)] \in Nat
  BY ConnFacts, EndTypes
<1>4. /\ ump_endpoint_can_recv(c) <=> consumed[c] < produced[Peer(c)]
      /\ consumed[c] <= produced[Peer(c)]
  BY <1>2, SeesNew, Window
<1>5. produced[c] <= consumed[Peer(c)] + bufmsgs
  BY <1>2, <1>3, Window, Moduli
<1>6. chan[c].spos = Home(produced[c] + 1) /\ chan[c].rpos = Home(consumed[c] + 1)
  BY <1>2, Positions
<1>7. ump_can_send(c) => produced[c] + 1 < consumed[Peer(c)] + bufmsgs
  BY <1>2, CanSendSafe
<1>8. consumed[c] >= 1 /\ ump_send_ack_is_needed(c) => ump_can_send(c)
  BY <1>2, AckFits
<1> QED
  BY <1>4, <1>5, <1>6, <1>7, <1>8

(* The operations keep the channels right, if they are called as the nodes  *)
(* call them.                                                               *)
LEMMA ChannelSteps ==
  ASSUME MprotectTypeOK, ChannelsInv, NEW c \in Conns,
         \/ ump_endpoint_can_recv(c) /\ TakeMessage(c)
         \/ /\ ump_can_send(c) /\ (c[1] # 0 => consumed[c] >= 1)
            /\ StoreHeader(c, "UMP_MSG") \/ StoreHeader(c, "UMP_ACK")
         \/ \E data \in Snapshots : CopyIn(c, data)
         \/ FutexSet(c) \/ FutexUnlock(c)
         \/ UNCHANGED channels
  PROVE  ChannelsInv' /\ MprotectTypeOK'
<1>1. PICK stamp \in Stamps : \A x \in Conns : EndInv(stamp, x)
  BY DEF ChannelsInv
<1>2. ChanInv(stamp)
  BY <1>1 DEF ChanInv
<1>3. CASE ump_endpoint_can_recv(c) /\ TakeMessage(c)
  <2>1. \A x \in Conns : EndInv(stamp, x)'
    BY <1>2, <1>3, TakeStep
  <2> QED
    BY <1>3, <2>1, TakeType DEF ChannelsInv
<1>4. CASE /\ ump_can_send(c) /\ (c[1] # 0 => consumed[c] >= 1)
           /\ StoreHeader(c, "UMP_MSG") \/ StoreHeader(c, "UMP_ACK")
  <2>1. \E new \in Stamps : \A x \in Conns : EndInv(new, x)'
    BY <1>2, <1>4, StoreStep
  <2>2. MprotectTypeOK'
    BY <1>4, StoreType
  <2> QED
    BY <2>1, <2>2 DEF ChannelsInv
<1>5. CASE \E data \in Snapshots : CopyIn(c, data)
  <2>1. PICK data \in Snapshots : CopyIn(c, data)
    BY <1>5
  <2>2. /\ chan' = chan /\ produced' = produced /\ consumed' = consumed
        /\ \A x \in Conns, s \in Slots : /\ ring'[x][s].epoch = ring[x][s].epoch
                                         /\ ring'[x][s].seq = ring[x][s].seq
    BY <2>1, Copied
  <2>3. \A x \in Conns : EndInv(stamp, x)'
    BY <1>2, <2>2, HeaderFrame
  <2>4. MprotectTypeOK'
    BY <2>1, CopyType
  <2> QED
    BY <2>3, <2>4 DEF ChannelsInv
<1>6. CASE FutexSet(c) \/ FutexUnlock(c)
  <2>1. UNCHANGED <<ring, chan, produced, consumed>>
    BY <1>6 DEF FutexSet, FutexUnlock
  <2>2. \A x \in Conns : EndInv(stamp, x)'
    BY <1>2, <2>1, HeaderFrame
  <2>3. MprotectTypeOK'
    BY <1>6, FutexType
  <2> QED
    BY <2>2, <2>3 DEF ChannelsInv
<1>7. CASE UNCHANGED channels
  <2>1. UNCHANGED <<ring, chan, f, produced, consumed>>
    BY <1>7 DEF channels
  <2>2. \A x \in Conns : EndInv(stamp, x)'
    BY <1>2, <2>1, HeaderFrame
  <2> QED
    BY <2>1, <2>2 DEF ChannelsInv, MprotectTypeOK
<1> QED
  BY <1>3, <1>4, <1>5, <1>6, <1>7

-----------------------------------------------------------------------------
(* The messages in flight *)

(* Nothing more is in flight at an end, and the payloads are the same. *)
Fewer(c) ==
  \A n \in Nat :
    InFlight(c, n)' => InFlight(c, n) /\ ring'[c][Home(n)].data = ring[c][Home(n)].data

(* An end that is not used *)
LEMMA FewerFrame ==
  ASSUME NEW c \in Conns, ring'[c] = ring[c], produced'[c] = produced[c],
         consumed'[Peer(c)] = consumed[Peer(c)]
  PROVE  Fewer(c)
BY DEF Fewer, InFlight

(* A message in flight is not in the slot of the next one. *)
LEMMA FlightApart ==
  ASSUME MprotectTypeOK, ChannelsInv, NEW c \in Conns, ump_can_send(c),
         NEW n \in Nat, InFlight(c, n)
  PROVE  Home(n) \in Slots /\ Home(n) # chan[c].spos /\ n < produced[c] + 1
<1>1. produced[c] \in Nat /\ consumed[Peer(c)] \in Nat
  BY ConnFacts, EndTypes
<1>2. produced[c] + 1 < consumed[Peer(c)] + bufmsgs /\ chan[c].spos = Home(produced[c] + 1)
  BY ChannelFacts
<1>3. n \in Nat \ {0} /\ n < produced[c] + 1 /\ produced[c] + 1 < n + bufmsgs
  BY <1>1, <1>2, Moduli DEF InFlight
<1> QED
  BY <1>1, <1>2, <1>3, HomeApart, HomeIsSlot

(* Everything but the store of the header of a message *)
LEMMA FewerInFlight ==
  ASSUME MprotectTypeOK, ChannelsInv, NEW c \in Conns,
         \/ TakeMessage(c)
         \/ ump_can_send(c) /\ StoreHeader(c, "UMP_ACK")
         \/ ump_can_send(c) /\ \E data \in Snapshots : CopyIn(c, data)
         \/ UNCHANGED <<ring, produced, consumed>>
  PROVE  \A x \in Conns : Fewer(x)
<1> SUFFICES ASSUME NEW x \in Conns PROVE Fewer(x)
  OBVIOUS
<1>1. Peer(x) \in Conns
  BY ConnFacts
<1>2. CASE UNCHANGED <<ring, produced, consumed>>
  BY <1>1, <1>2, FewerFrame
<1>3. CASE TakeMessage(c)
  <2>1. ring' = ring /\ produced' = produced
    BY <1>3 DEF TakeMessage
  <2>2. CASE Peer(x) # c
    <3>1. consumed'[Peer(x)] = consumed[Peer(x)]
      BY <1>1, <1>3, <2>2, ChannelTypes DEF TakeMessage
    <3> QED
      BY <2>1, <3>1, FewerFrame
  <2>3. CASE Peer(x) = c
    <3>1. consumed'[c] = consumed[c] + 1 /\ consumed[c] \in Nat /\ produced[x] \in Nat
      BY <1>3, ChannelTypes DEF TakeMessage
    <3>2. \A n \in Nat : n \in consumed[c] + 1 + 1 .. produced[x] => n \in consumed[c] + 1 .. produced[x]
      BY <3>1
    <3> QED
      BY <2>1, <2>3, <3>1, <3>2 DEF Fewer, InFlight
  <2> QED
    BY <2>2, <2>3
<1>4. CASE ump_can_send(c) /\ StoreHeader(c, "UMP_ACK")
  <2> DEFINE spos == chan[c].spos
  <2>1. /\ ring'[c][spos] = Message(chan[c].sepoch, "UMP_ACK", chan[c].seq_id, ring[c][spos].data)
        /\ \A s \in Slots : s # spos => ring'[c][s] = ring[c][s]
        /\ \A y \in Conns : y # c => ring'[y] = ring[y] /\ produced'[y] = produced[y]
        /\ produced'[c] = produced[c] + 1 /\ consumed' = consumed
    BY <1>4, Stored
  <2>2. CASE x # c
    BY <2>1, <2>2, FewerFrame
  <2>3. CASE x = c
    <3>1. SUFFICES ASSUME NEW n \in Nat, InFlight(c, n)'
                   PROVE  InFlight(c, n) /\ ring'[c][Home(n)] = ring[c][Home(n)]
      BY <2>3 DEF Fewer
    <3>2. n \in consumed[Peer(c)] + 1 .. produced[c] + 1 /\ ring'[c][Home(n)].type = "UMP_MSG"
      BY <2>1, <3>1 DEF InFlight
    <3>3. produced[c] \in Nat /\ consumed[Peer(c)] \in Nat
      BY ConnFacts, EndTypes
    <3>4. spos = Home(produced[c] + 1)
      BY ChannelFacts
    <3>5. n # produced[c] + 1
      BY <2>1, <3>2, <3>4 DEF Message
    <3>6. n \in Nat \ {0} /\ n < produced[c] + 1 /\ produced[c] + 1 < n + bufmsgs
          /\ n \in consumed[Peer(c)] + 1 .. produced[c]
      BY <1>4, <3>2, <3>3, <3>5, ChannelFacts, Moduli
    <3>7. Home(n) \in Slots /\ Home(n) # spos
      BY <3>3, <3>4, <3>6, HomeApart, HomeIsSlot
    <3> QED
      BY <2>1, <3>2, <3>6, <3>7 DEF InFlight
  <2> QED
    BY <2>2, <2>3
<1>5. CASE ump_can_send(c) /\ \E data \in Snapshots : CopyIn(c, data)
  <2>1. PICK data \in Snapshots : CopyIn(c, data)
    BY <1>5
  <2>2. /\ \A s \in Slots : s # chan[c].spos => ring'[c][s] = ring[c][s]
        /\ \A y \in Conns : y # c => ring'[y] = ring[y]
        /\ \A y \in Conns, s \in Slots : ring'[y][s].type = ring[y][s].type
        /\ produced' = produced /\ consumed' = consumed
    BY <2>1, Copied
  <2>3. CASE x # c
    BY <2>2, <2>3, FewerFrame
  <2>4. CASE x = c
    <3>1. SUFFICES ASSUME NEW n \in Nat, InFlight(c, n)'
                   PROVE  InFlight(c, n) /\ ring'[c][Home(n)] = ring[c][Home(n)]
      BY <2>4 DEF Fewer
    <3>2. n \in consumed[Peer(c)] + 1 .. produced[c] /\ ring'[c][Home(n)].type = "UMP_MSG"
      BY <2>2, <3>1 DEF InFlight
    <3>3. n \in Nat \ {0}
      BY <3>2, ConnFacts, EndTypes
    <3>4. InFlight(c, n)
      BY <2>2, <3>2, <3>3, HomeIsSlot DEF InFlight
    <3> QED
      BY <1>5, <2>2, <3>4, FlightApart
  <2> QED
    BY <2>3, <2>4
<1> QED
  BY <1>2, <1>3, <1>4, <1>5

(* The header of a message: one more is in flight. *)
LEMMA OneMoreInFlight ==
  ASSUME MprotectTypeOK, ChannelsInv, NEW c \in Conns,
         ump_can_send(c), StoreHeader(c, "UMP_MSG")
  PROVE  /\ \A x \in Conns : x # c => Fewer(x)
         /\ \A n \in Nat : InFlight(c, n)' =>
              \/ n = produced[c] + 1
              \/ InFlight(c, n) /\ ring'[c][Home(n)].data = ring[c][Home(n)].data
         /\ ring'[c][Home(produced[c] + 1)].data = ring[c][chan[c].spos].data
<1> DEFINE spos == chan[c].spos
<1>1. /\ ring'[c][spos] = Message(chan[c].sepoch, "UMP_MSG", chan[c].seq_id, ring[c][spos].data)
      /\ \A s \in Slots : s # spos => ring'[c][s] = ring[c][s]
      /\ \A y \in Conns : y # c => ring'[y] = ring[y] /\ produced'[y] = produced[y]
      /\ produced'[c] = produced[c] + 1 /\ consumed' = consumed
  BY Stored
<1>2. \A x \in Conns : x # c => Fewer(x)
  BY <1>1, FewerFrame
<1>3. produced[c] \in Nat /\ consumed[Peer(c)] \in Nat /\ spos = Home(produced[c] + 1)
  BY ConnFacts, EndTypes, ChannelFacts
<1>4. ASSUME NEW n \in Nat, InFlight(c, n)', n # produced[c] + 1
      PROVE  InFlight(c, n) /\ ring'[c][Home(n)].data = ring[c][Home(n)].data
  <2>1. n \in consumed[Peer(c)] + 1 .. produced[c] + 1 /\ ring'[c][Home(n)].type = "UMP_MSG"
    BY <1>1, <1>4 DEF InFlight
  <2>2. n \in Nat \ {0} /\ n < produced[c] + 1 /\ produced[c] + 1 < n + bufmsgs
        /\ n \in consumed[Peer(c)] + 1 .. produced[c]
    BY <1>3, <1>4, <2>1, ChannelFacts, Moduli
  <2>3. Home(n) \in Slots /\ Home(n) # spos
    BY <1>3, <2>2, HomeApart, HomeIsSlot
  <2> QED
    BY <1>1, <2>1, <2>2, <2>3 DEF InFlight
<1>5. ring'[c][Home(produced[c] + 1)].data = ring[c][spos].data
  BY <1>1, <1>3 DEF Message
<1> QED
  BY <1>2, <1>4, <1>5

-----------------------------------------------------------------------------
(* The nodes that do not move *)

(* What is known of the nodes before a step *)
Before == CheckpointingTypeOK /\ ChannelsInv /\ NodeInv /\ MulticastInv

(* A node that does not move may be woken up. *)
Bystander(q) ==
  /\ pc'[q] = pc[q] \/ (pc[q] = "sleep" /\ pc'[q] = "test")
  /\ at'[q] = at[q] /\ awaits'[q] = awaits[q] /\ message'[q] = message[q]
  /\ call_recv_again'[q] = call_recv_again[q]

(* Its ends of its connections are as they were. *)
EndsOf(q) ==
  \A c \in Conns : c[1] = q =>
    /\ ring'[c] = ring[c] /\ chan'[c] = chan[c]
    /\ produced'[c] = produced[c] /\ consumed'[c] = consumed[c]

(* The end that a node uses *)
LEMMA ConnOf ==
  ASSUME Before, NEW p \in Nodes
  PROVE  /\ Conn(p) \in Conns /\ Conn(p)[1] = p /\ Peer(Conn(p)) \in Conns
         /\ at[p] \in Nodes /\ at[p] # p
         /\ p # 0 => p \in Others /\ Conn(p) = <<p, 0>> /\ Peer(Conn(p)) = <<0, p>>
         /\ p = 0 => at[0] \in Others /\ Conn(p) = <<0, at[0]>>
BY NodeFacts DEF Before, NodeInv, NodeOK, Conn, Conns, Peer

LEMMA BystanderFrame ==
  ASSUME Before, NEW q \in Nodes, Bystander(q), EndsOf(q)
  PROVE  NodeOK(q)' /\ HeaderOK(q)'
<1>1. Conn(q) \in Conns /\ Conn(q)[1] = q
  BY ConnOf
<1>2. Conn(q)' = Conn(q)
  BY DEF Bystander, Conn
<1>3. /\ ring'[Conn(q)] = ring[Conn(q)] /\ chan'[Conn(q)] = chan[Conn(q)]
      /\ consumed'[Conn(q)] = consumed[Conn(q)]
  BY <1>1 DEF EndsOf
<1>4. NodeOK(q) /\ HeaderOK(q)
  BY DEF Before, NodeInv
<1>5. NodeOK(q)'
  <2>1. pc'[q] = "new" => \A c \in Conns : c[1] = q => produced'[c] = 0 /\ consumed'[c] = 0
    BY <1>4 DEF NodeOK, Bystander, EndsOf
  <2> QED
    BY <1>2, <1>3, <1>4, <2>1 DEF NodeOK, Bystander
<1>6. HeaderOK(q)'
  <2>1. pc'[q] = "header" => pc[q] = "header"
    BY DEF Bystander
  <2>2. ump_can_send(Conn(q)) => ump_can_send(Conn(q))'
    BY <1>2, <1>3 DEF ump_can_send
  <2>3. message'[q] = message[q]
    BY DEF Bystander
  <2> QED
    BY <1>2, <1>3, <1>4, <2>1, <2>2, <2>3 DEF HeaderOK
<1> QED
  BY <1>5, <1>6

(* Where the futex wakes a node up *)
LEMMA WakeUpMoves ==
  ASSUME Before, NEW p \in Nodes, NEW next \in Pcs, WakeUp(p, next)
  PROVE  /\ pc' \in [Nodes -> Pcs] /\ pc'[p] = next
         /\ \A q \in Nodes : q # p => pc'[q] = pc[q] \/ (pc[q] = "sleep" /\ pc'[q] = "test")
<1> DEFINE q == at[p]
           woken == IF pc[q] = "sleep" /\ Conn(q) = Peer(Conn(p)) /\ f[Conn(q)] = 1
                    THEN "test" ELSE pc[q]
<1>1. pc \in [Nodes -> Pcs] /\ q \in Nodes /\ q # p
  BY ConnOf DEF Before, CheckpointingTypeOK
<1>2. pc' = [pc EXCEPT ![p] = next, ![q] = woken]
  BY <1>1 DEF WakeUp
<1>3. /\ woken \in Pcs
      /\ woken = pc[q] \/ (pc[q] = "sleep" /\ woken = "test")
  BY <1>1 DEF Pcs
<1> HIDE DEF woken, q
<1> QED
  BY <1>1, <1>2, <1>3

(* An operation on one end leaves the others as they were. *)
LEMMA OwnEnd ==
  ASSUME MprotectTypeOK, NEW c \in Conns, NEW q, q # c[1],
         \/ TakeMessage(c) \/ StoreHeader(c, "UMP_MSG") \/ StoreHeader(c, "UMP_ACK")
         \/ \E data \in Snapshots : CopyIn(c, data)
         \/ FutexSet(c) \/ FutexUnlock(c) \/ UNCHANGED channels
         \/ open_channel({x \in Conns : x[1] = c[1]})
  PROVE  EndsOf(q)
<1> SUFFICES ASSUME NEW x \in Conns, x # c, x[1] # c[1]
             PROVE  /\ ring'[x] = ring[x] /\ chan'[x] = chan[x]
                    /\ produced'[x] = produced[x] /\ consumed'[x] = consumed[x]
  BY DEF EndsOf
<1>1. CASE TakeMessage(c)
  BY <1>1, ChannelTypes DEF TakeMessage
<1>2. CASE StoreHeader(c, "UMP_MSG") \/ StoreHeader(c, "UMP_ACK")
  BY <1>2, Stored
<1>3. CASE \E data \in Snapshots : CopyIn(c, data)
  BY <1>3, Copied
<1>4. CASE FutexSet(c) \/ FutexUnlock(c) \/ UNCHANGED channels
  BY <1>4 DEF FutexSet, FutexUnlock, channels
<1>5. CASE open_channel({y \in Conns : y[1] = c[1]})
  BY <1>5 DEF open_channel
<1> QED
  BY <1>1, <1>2, <1>3, <1>4, <1>5

(* What a step of a node does to the others, and the types of what it leaves *)
LEMMA StepFrame ==
  ASSUME Before, NEW p \in Nodes, Step(p)
  PROVE  /\ \A q \in Nodes : q # p => Bystander(q) /\ EndsOf(q)
         /\ UNCHANGED checkpointer
         /\ CheckpointingTypeOK' \/ ~MprotectTypeOK'
<1> DEFINE c == Conn(p)
<1>1. /\ pc \in [Nodes -> Pcs] /\ at \in [Nodes -> Nodes]
      /\ awaits \in [Nodes -> {"ack", "msg"}] /\ call_recv_again \in [Nodes -> BOOLEAN]
      /\ message \in [Nodes -> Snapshots] /\ MprotectTypeOK
  BY DEF Before, CheckpointingTypeOK
<1>2. c \in Conns /\ c[1] = p /\ Peer(c) \in Conns
  BY ConnOf
<1>3. ASSUME UNCHANGED checkpointer, pc' \in [Nodes -> Pcs], at' \in [Nodes -> Nodes],
             awaits' \in [Nodes -> {"ack", "msg"}], call_recv_again' \in [Nodes -> BOOLEAN],
             message' \in [Nodes -> Snapshots]
      PROVE  CheckpointingTypeOK' \/ ~MprotectTypeOK'
  BY <1>3 DEF Before, CheckpointingTypeOK, checkpointer
<1>4. CASE Open(p) \/ SendBlocked(p) \/ TestEmpty(p) \/ Lock(p) \/ Wait(p) \/ Timeout(p)
           \/ HandleRequest(p) \/ SendCopy(p) \/ SendHeader(p) \/ RecvAck(p)
  <2> DEFINE ends == {x \in Conns : x[1] = p}
  <2>1. /\ \/ TakeMessage(c) \/ StoreHeader(c, "UMP_MSG") \/ StoreHeader(c, "UMP_ACK")
           \/ \E data \in Snapshots : CopyIn(c, data)
           \/ FutexSet(c) \/ FutexUnlock(c) \/ UNCHANGED channels
           \/ open_channel(ends)
        /\ \E next \in Pcs : pc' = [pc EXCEPT ![p] = next]
        /\ awaits' = awaits \/ awaits' = [awaits EXCEPT ![p] = "ack"]
        /\ UNCHANGED <<at, call_recv_again, message, checkpointer>>
    BY <1>1, <1>4 DEF Open, SendBlocked, TestEmpty, Lock, Wait, Timeout, HandleRequest,
       SendCopy, SendHeader, RecvAck, Goto, Pcs
  <2> HIDE DEF c
  <2>2. \A q \in Nodes : q # p => EndsOf(q)
    BY <1>1, <1>2, <2>1, OwnEnd
  <2>3. \A q \in Nodes : q # p => Bystander(q)
    BY <1>1, <2>1 DEF Bystander
  <2>4. pc' \in [Nodes -> Pcs] /\ awaits' \in [Nodes -> {"ack", "msg"}]
    BY <1>1, <2>1
  <2> QED
    BY <1>1, <1>3, <2>1, <2>2, <2>3, <2>4
<1>5. CASE SendUnlock(p)
  <2> DEFINE more == p = 0 /\ at[0] + 1 < nb_nodes
             next == IF more THEN "send" ELSE IF p = 0 THEN "loop" ELSE "test"
  <2>1. /\ FutexUnlock(c) /\ WakeUp(p, next) /\ next \in Pcs
        /\ at' = IF more THEN [at EXCEPT ![0] = @ + 1] ELSE at
        /\ awaits' = [awaits EXCEPT ![p] = "msg"]
        /\ UNCHANGED <<call_recv_again, message, checkpointer>>
    BY <1>5 DEF SendUnlock, Pcs
  <2>2. more => at[0] + 1 \in Nodes
    <3>1. 0 \in Nodes /\ at[0] \in Nat
      BY <1>1, NodeFacts DEF Nodes
    <3> QED
      BY <3>1, CheckpointingAssumption DEF Nodes
  <2>3. at' \in [Nodes -> Nodes] /\ \A q \in Nodes : q # p => at'[q] = at[q]
    BY <1>1, <2>1, <2>2
  <2> HIDE DEF next, more, c
  <2>4. /\ pc' \in [Nodes -> Pcs]
        /\ \A q \in Nodes : q # p => pc'[q] = pc[q] \/ (pc[q] = "sleep" /\ pc'[q] = "test")
    BY <2>1, WakeUpMoves
  <2>5. \A q \in Nodes : q # p => EndsOf(q)
    BY <1>1, <1>2, <2>1, OwnEnd
  <2>6. \A q \in Nodes : q # p => Bystander(q)
    BY <1>1, <2>1, <2>3, <2>4 DEF Bystander
  <2> QED
    BY <1>1, <1>3, <2>1, <2>3, <2>4, <2>5, <2>6
<1>6. CASE AckUnlock(p)
  <2> DEFINE next == RecvEnds(p)
  <2>1. /\ FutexUnlock(c) /\ WakeUp(p, next) /\ next \in Pcs
        /\ UNCHANGED <<at, awaits, call_recv_again, message, checkpointer>>
    BY <1>6 DEF AckUnlock, RecvEnds, Pcs
  <2> HIDE DEF next, c
  <2>2. /\ pc' \in [Nodes -> Pcs]
        /\ \A q \in Nodes : q # p => pc'[q] = pc[q] \/ (pc[q] = "sleep" /\ pc'[q] = "test")
    BY <2>1, WakeUpMoves
  <2>3. \A q \in Nodes : q # p => EndsOf(q)
    BY <1>1, <1>2, <2>1, OwnEnd
  <2>4. \A q \in Nodes : q # p => Bystander(q)
    BY <1>1, <2>1, <2>2 DEF Bystander
  <2> QED
    BY <1>1, <1>3, <2>1, <2>2, <2>3, <2>4
<1>7. CASE SendAck(p)
  <2>1. /\ StoreHeader(c, "UMP_ACK") \/ UNCHANGED channels
        /\ \E next \in Pcs : pc' = [pc EXCEPT ![p] = next]
        /\ UNCHANGED <<at, awaits, call_recv_again, message, checkpointer>>
    BY <1>7 DEF SendAck, RecvEnds, Goto, Pcs
  <2> HIDE DEF c
  <2>2. \A q \in Nodes : q # p => EndsOf(q)
    BY <1>1, <1>2, <2>1, OwnEnd
  <2>3. pc' \in [Nodes -> Pcs] /\ \A q \in Nodes : q # p => Bystander(q)
    BY <1>1, <2>1 DEF Bystander
  <2> QED
    BY <1>1, <1>3, <2>1, <2>2, <2>3
<1>8. CASE RecvMsg(p)
  <2> DEFINE m == NextMessage(c)
  <2>1. /\ TakeMessage(c)
        /\ call_recv_again' = [call_recv_again EXCEPT ![p] = m.type = "UMP_ACK"]
        /\ message' = IF m.type = "UMP_MSG" THEN [message EXCEPT ![p] = m.data] ELSE message
        /\ pc' = [pc EXCEPT ![p] = "ack"]
        /\ UNCHANGED <<at, awaits, checkpointer>>
    BY <1>8 DEF RecvMsg, Goto
  <2>2. m \in Messages
    BY <1>1, <1>2, ChannelTypes, EndTypes DEF NextMessage
  <2> HIDE DEF c, m
  <2>3. message' \in [Nodes -> Snapshots] /\ \A q \in Nodes : q # p => message'[q] = message[q]
    BY <1>1, <2>1, <2>2 DEF Messages
  <2>4. /\ call_recv_again' \in [Nodes -> BOOLEAN]
        /\ \A q \in Nodes : q # p => call_recv_again'[q] = call_recv_again[q]
    BY <1>1, <2>1, Zenon
  <2>5. pc' \in [Nodes -> Pcs] /\ \A q \in Nodes : q # p => pc'[q] = pc[q]
    BY <1>1, <2>1 DEF Pcs
  <2>6. \A q \in Nodes : q # p => EndsOf(q)
    BY <1>1, <1>2, <2>1, OwnEnd
  <2>7. \A q \in Nodes : q # p => Bystander(q)
    BY <2>1, <2>3, <2>4, <2>5 DEF Bystander
  <2> QED
    BY <1>1, <1>3, <2>1, <2>3, <2>4, <2>5, <2>6, <2>7
<1> QED
  BY <1>4, <1>5, <1>6, <1>7, <1>8 DEF Step

(* Whatever a node does, the channels stay right. *)
LEMMA StepChannels ==
  ASSUME Before, NEW p \in Nodes, Step(p)
  PROVE  ChannelsInv' /\ CheckpointingTypeOK'
<1> DEFINE c == Conn(p)
<1>1. MprotectTypeOK /\ ChannelsInv /\ NodeOK(p) /\ HeaderOK(p) /\ message[p] \in Snapshots
  BY DEF Before, CheckpointingTypeOK, NodeInv
<1>2. c \in Conns /\ c[1] = p
  BY ConnOf
<1>3. CASE Open(p)
  <2>1. PICK stamp \in Stamps : \A x \in Conns : EndInv(stamp, x)
    BY <1>1 DEF ChannelsInv
  <2> DEFINE ends == {x \in Conns : x[1] = p}
  <2>2. ChanInv(stamp) /\ ends \in SUBSET Conns /\ open_channel(ends)
    BY <1>1, <1>3, <2>1 DEF ChanInv, Open
  <2>3. \A x \in ends : produced[x] = 0 /\ consumed[x] = 0
    BY <1>1, <1>3 DEF NodeOK, Open
  <2> HIDE DEF ends
  <2>4. \A x \in Conns : EndInv(stamp, x)'
    BY <2>2, <2>3, OpenChannelStep
  <2>5. MprotectTypeOK'
    BY <1>1, <2>2, OpenType
  <2> QED
    BY <2>4, <2>5, StepFrame DEF ChannelsInv
<1>4. CASE ~Open(p)
  <2>1. \/ ump_endpoint_can_recv(c) /\ TakeMessage(c)
        \/ /\ ump_can_send(c) /\ (c[1] # 0 => consumed[c] >= 1)
           /\ StoreHeader(c, "UMP_MSG") \/ StoreHeader(c, "UMP_ACK")
        \/ \E data \in Snapshots : CopyIn(c, data)
        \/ FutexSet(c) \/ FutexUnlock(c)
        \/ UNCHANGED channels
    <3>1. CASE SendHeader(p)
      <4>1. StoreHeader(c, "UMP_MSG") /\ pc[p] = "header"
        BY <3>1 DEF SendHeader
      <4>2. ump_can_send(c) /\ (c[1] # 0 => consumed[c] >= 1)
        BY <1>1, <1>2, <4>1 DEF NodeOK, HeaderOK
      <4> QED
        BY <4>1, <4>2
    <3>2. CASE SendAck(p)
      <4>1. pc[p] = "ack" /\ (UNCHANGED channels \/ (ump_can_send(c) /\ StoreHeader(c, "UMP_ACK")))
        BY <3>2 DEF SendAck
      <4>2. consumed[c] >= 1
        BY <1>1, <4>1 DEF NodeOK
      <4> QED
        BY <4>1, <4>2
    <3>3. CASE SendCopy(p)
      BY <1>1, <3>3 DEF SendCopy
    <3>4. CASE RecvAck(p) \/ RecvMsg(p)
      BY <3>4 DEF RecvAck, RecvMsg
    <3>5. CASE Lock(p) \/ SendUnlock(p) \/ AckUnlock(p)
      BY <3>5 DEF Lock, SendUnlock, AckUnlock
    <3>6. CASE SendBlocked(p) \/ TestEmpty(p) \/ Wait(p) \/ Timeout(p) \/ HandleRequest(p)
      BY <3>6 DEF SendBlocked, TestEmpty, Wait, Timeout, HandleRequest
    <3> QED
      BY <1>4, <3>1, <3>2, <3>3, <3>4, <3>5, <3>6 DEF Step
  <2> HIDE DEF c
  <2>2. ChannelsInv' /\ MprotectTypeOK'
    BY <1>1, <1>2, <2>1, ChannelSteps
  <2> QED
    BY <2>2, StepFrame
<1> QED
  BY <1>3, <1>4

(* Only the store of the header of a message puts one in flight. *)
LEMMA StepFlights ==
  ASSUME Before, NEW p \in Nodes, Step(p), ~SendHeader(p)
  PROVE  \A x \in Conns : Fewer(x)
<1> DEFINE c == Conn(p)
<1>1. MprotectTypeOK /\ ChannelsInv /\ NodeOK(p) /\ message[p] \in Snapshots
  BY DEF Before, CheckpointingTypeOK, NodeInv
<1>2. c \in Conns /\ c[1] = p
  BY ConnOf
<1>3. CASE Open(p)
  <2>1. SUFFICES ASSUME NEW x \in Conns PROVE Fewer(x)
    OBVIOUS
  <2>2. /\ open_channel({y \in Conns : y[1] = p}) /\ pc[p] = "new"
        /\ UNCHANGED <<f, produced, consumed>>
    BY <1>3 DEF Open, open_channel
  <2>3. CASE x[1] # p
    <3>1. ring'[x] = ring[x]
      BY <2>2, <2>3 DEF open_channel
    <3> QED
      BY <2>2, <3>1, FewerFrame
  <2>4. CASE x[1] = p
    <3>1. produced[x] = 0 /\ consumed[Peer(x)] \in Nat
      BY <1>1, <2>2, <2>4, ConnFacts, EndTypes DEF NodeOK
    <3>2. consumed[Peer(x)] + 1 .. produced[x] = {}
      BY <3>1
    <3> QED
      BY <2>2, <3>2 DEF Fewer, InFlight
  <2> QED
    BY <2>3, <2>4
<1>4. CASE ~Open(p)
  <2>1. \/ TakeMessage(c)
        \/ ump_can_send(c) /\ StoreHeader(c, "UMP_ACK")
        \/ ump_can_send(c) /\ \E data \in Snapshots : CopyIn(c, data)
        \/ UNCHANGED <<ring, produced, consumed>>
    <3>1. CASE SendAck(p)
      BY <3>1 DEF SendAck, channels
    <3>2. CASE SendCopy(p)
      BY <1>1, <3>2 DEF SendCopy
    <3>3. CASE RecvAck(p) \/ RecvMsg(p)
      BY <3>3 DEF RecvAck, RecvMsg
    <3>4. CASE Lock(p) \/ SendUnlock(p) \/ AckUnlock(p)
      BY <3>4 DEF Lock, SendUnlock, AckUnlock, FutexSet, FutexUnlock
    <3>5. CASE SendBlocked(p) \/ TestEmpty(p) \/ Wait(p) \/ Timeout(p) \/ HandleRequest(p)
      BY <3>5 DEF SendBlocked, TestEmpty, Wait, Timeout, HandleRequest, channels
    <3> QED
      BY <1>4, <3>1, <3>2, <3>3, <3>4, <3>5 DEF Step
  <2> HIDE DEF c
  <2> QED
    BY <1>1, <1>2, <2>1, FewerInFlight
<1> QED
  BY <1>3, <1>4

-----------------------------------------------------------------------------
(* The requests and answers that a step leaves alone *)

(* A request or answer that is where it was, or no longer is *)
LEMMA TokenFrame ==
  ASSUME NEW i \in Others, TokenInv(i), iter' = iter, message'[i] = message[i],
         Answered(i)' => message'[0] = message[0],
         Fewer(<<0, i>>), Fewer(<<i, 0>>),
         Busy(i)' => Busy(i), Answered(i)' => Answered(i), Asked(i) => Asked(i)'
  PROVE  TokenInv(i)'
<1> USE DEF TokenInv, Fewer
<1>1. ASSUME NEW n \in Nat, InFlight(<<0, i>>, n)'
      PROVE  /\ Asked(i)' /\ ring'[<<0, i>>][Home(n)].data = iter' + 1
             /\ ~Busy(i)' /\ ~Answered(i)'
             /\ \A m \in Nat : ~InFlight(<<i, 0>>, m)' /\ (InFlight(<<0, i>>, m)' => m = n)
  BY <1>1
<1>2. Busy(i)' => /\ Asked(i)' /\ message'[i] = iter' + 1
                  /\ ~Answered(i)'
                  /\ \A m \in Nat : ~InFlight(<<i, 0>>, m)'
  OBVIOUS
<1>3. ASSUME NEW n \in Nat, InFlight(<<i, 0>>, n)'
      PROVE  /\ Asked(i)' /\ ring'[<<i, 0>>][Home(n)].data = iter' + 1
             /\ ~Answered(i)'
             /\ \A m \in Nat : InFlight(<<i, 0>>, m)' => m = n
  BY <1>3
<1>4. Answered(i)' => Asked(i)' /\ message'[0] = iter' + 1
  OBVIOUS
<1> QED
  BY <1>1, <1>2, <1>3, <1>4

(* Node 0 does not move. *)
LEMMA ZeroFrame ==
  ASSUME Bystander(0), UNCHANGED checkpointer
  PROVE  /\ \A i \in Others : (Asked(i) => Asked(i)') /\ (Answered(i)' => Answered(i))
         /\ (Multicasting' => Multicasting)
         /\ MulticastInv => MulticastInv'
BY DEF Bystander, checkpointer, Asked, Answered, Multicasting, MulticastInv, WaitPcs

(* A node that does not move, and what it is sent *)
LEMMA BusyFrame ==
  ASSUME NEW i \in Others, Bystander(i)
  PROVE  Busy(i)' <=> Busy(i)
BY DEF Bystander, Busy, WaitPcs

-----------------------------------------------------------------------------
(* The node that moves *)

(* A node stays where it can be. *)
LEMMA OwnMove ==
  ASSUME Before, NEW p \in Nodes, Step(p)
  PROVE  NodeOK(p)' /\ HeaderOK(p)'
<1> DEFINE c == Conn(p)
<1>1. /\ pc \in [Nodes -> Pcs] /\ at \in [Nodes -> Nodes]
      /\ awaits \in [Nodes -> {"ack", "msg"}] /\ call_recv_again \in [Nodes -> BOOLEAN]
      /\ MprotectTypeOK /\ ChannelsInv /\ NodeOK(p) /\ HeaderOK(p)
      /\ message[p] \in Snapshots
  BY DEF Before, CheckpointingTypeOK, NodeInv
<1>2. /\ c \in Conns /\ c[1] = p /\ consumed[c] \in Nat
      /\ IF p = 0 THEN at[p] \in Others ELSE at[p] = 0
  BY <1>1, ConnOf, EndTypes DEF NodeOK
<1>3. Conn(p)' = <<p, at'[p]>> /\ c = <<p, at[p]>>
  BY DEF Conn
(* It does not store a header next, nor receive: two facts are enough. *)
<1>4. ASSUME pc'[p] \notin {"new", "ack", "header", "exit"}, at'[p] = at[p],
             p # 0 => pc'[p] \notin {"loop", "done"},
             pc'[p] \in {"loop", "unlock_ack", "handle"} => awaits'[p] = "msg",
             pc'[p] = "unlock_ack" => consumed'[c] >= 1,
             p # 0 /\ (pc'[p] \in {"handle", "send"} \/ awaits'[p] = "ack")
               => consumed'[c] >= 1
      PROVE  NodeOK(p)' /\ HeaderOK(p)'
  <2>1. Conn(p)' = c
    BY <1>3, <1>4
  <2> HIDE DEF c
  <2> QED
    BY <1>2, <1>4, <2>1 DEF NodeOK, HeaderOK
<1>5. CASE Open(p)
  BY <1>1, <1>2, <1>4, <1>5 DEF Open, NodeOK, Goto, open_channel
<1>6. CASE SendBlocked(p) \/ TestEmpty(p) \/ Wait(p) \/ Timeout(p) \/ HandleRequest(p) \/ Lock(p)
  <2>1. consumed' = consumed
    BY <1>6 DEF SendBlocked, TestEmpty, Wait, Timeout, HandleRequest, Lock, FutexSet, channels
  <2> HIDE DEF c
  <2>2. CASE SendBlocked(p)
    BY <1>1, <1>2, <1>4, <2>1, <2>2 DEF SendBlocked, NodeOK, Goto, c
  <2>3. CASE TestEmpty(p) \/ Lock(p)
    BY <1>1, <1>2, <1>4, <2>1, <2>3 DEF TestEmpty, Lock, NodeOK, Goto, c
  <2>4. CASE Wait(p) \/ Timeout(p)
    BY <1>1, <1>2, <1>4, <2>1, <2>4 DEF Wait, Timeout, NodeOK, Goto, c
  <2>5. CASE HandleRequest(p)
    BY <1>1, <1>2, <1>4, <2>1, <2>5 DEF HandleRequest, NodeOK, Goto, c
  <2> QED
    BY <1>6, <2>2, <2>3, <2>4, <2>5
<1>7. CASE SendCopy(p)
  <2>1. /\ pc[p] = "send" /\ ump_can_send(c) /\ CopyIn(c, message[p])
        /\ pc'[p] = "header"
        /\ UNCHANGED <<at, awaits, call_recv_again, message, checkpointer>>
    BY <1>1, <1>7 DEF SendCopy, Goto
  <2>2. /\ chan' = chan /\ consumed' = consumed
        /\ ring'[c][chan[c].spos].data = message[p]
    BY <1>1, <1>2, <2>1, Copied
  <2>3. Conn(p)' = c
    BY <1>3, <2>1
  <2>4. NodeOK(p)'
    <3>1. p # 0 => consumed[c] >= 1
      BY <1>1, <2>1 DEF NodeOK
    <3> HIDE DEF c
    <3> QED
      BY <1>2, <2>1, <2>2, <2>3, <3>1 DEF NodeOK
  <2>5. HeaderOK(p)'
    <3>1. ump_can_send(c)'
      BY <2>1, <2>2, <2>3 DEF ump_can_send
    <3> HIDE DEF c
    <3> QED
      BY <2>1, <2>2, <2>3, <3>1 DEF HeaderOK, ump_can_send
  <2> QED
    BY <2>4, <2>5
<1>8. CASE SendHeader(p)
  <2>1. /\ pc[p] = "header" /\ pc'[p] = "unlock" /\ consumed' = consumed
        /\ UNCHANGED <<at, awaits, call_recv_again, message, checkpointer>>
    BY <1>1, <1>8 DEF SendHeader, Goto, StoreHeader
  <2>2. p # 0 => consumed[c] >= 1
    BY <1>1, <2>1 DEF NodeOK
  <2> QED
    BY <1>4, <2>1, <2>2
<1>9. CASE SendUnlock(p)
  <2> DEFINE more == p = 0 /\ at[0] + 1 < nb_nodes
             next == IF more THEN "send" ELSE IF p = 0 THEN "loop" ELSE "test"
  <2>1. /\ WakeUp(p, next) /\ next \in Pcs
        /\ at' = IF more THEN [at EXCEPT ![0] = @ + 1] ELSE at
        /\ awaits' = [awaits EXCEPT ![p] = "msg"]
    BY <1>9 DEF SendUnlock, Pcs
  <2>2. p = 0 => at'[p] \in Others
    <3>1. CASE more
      <4>1. at'[p] = at[p] + 1
        BY <1>1, <2>1, <3>1
      <4> QED
        BY <1>2, <3>1, <4>1, CheckpointingAssumption DEF Others
    <3>2. CASE ~more
      BY <1>2, <2>1, <3>2
    <3> QED
      BY <3>1, <3>2
  <2>3. p # 0 => at'[p] = 0
    BY <1>2, <2>1
  <2>4. awaits'[p] = "msg" /\ (next = "loop" => p = 0)
    BY <1>1, <2>1
  <2>5. next \in {"send", "loop", "test"} /\ (p # 0 => next = "test")
    OBVIOUS
  <2> HIDE DEF next, more, c
  <2>6. pc'[p] = next
    BY <2>1, WakeUpMoves
  <2> QED
    BY <2>2, <2>3, <2>4, <2>5, <2>6 DEF NodeOK, HeaderOK
<1>10. CASE RecvAck(p) \/ RecvMsg(p)
  <2>1. /\ consumed'[c] = consumed[c] + 1 /\ awaits' = awaits /\ at' = at
        /\ pc'[p] = IF RecvAck(p) THEN "send" ELSE "ack"
        /\ RecvAck(p) \/ awaits[p] = "msg"
    BY <1>1, <1>2, <1>10, ChannelTypes DEF RecvAck, RecvMsg, Goto, TakeMessage
  <2>2. Conn(p)' = c
    BY <1>3, <2>1
  <2> HIDE DEF c
  <2> QED
    BY <1>2, <2>1, <2>2 DEF NodeOK, HeaderOK
<1>11. CASE SendAck(p)
  <2>1. /\ pc[p] = "ack" /\ consumed' = consumed
        /\ pc'[p] \in {RecvEnds(p), "unlock_ack"} \/ (ump_send_ack_is_needed(c) /\ ~ump_can_send(c))
        /\ UNCHANGED <<at, awaits>>
    BY <1>1, <1>11 DEF SendAck, Goto, StoreHeader, channels
  <2>2. consumed[c] >= 1 /\ awaits[p] = "msg"
    BY <1>1, <2>1 DEF NodeOK
  <2>3. pc'[p] \in {RecvEnds(p), "unlock_ack"}
    BY <1>1, <1>2, <2>1, <2>2, ChannelFacts
  <2> HIDE DEF c
  <2> QED
    BY <1>4, <2>1, <2>2, <2>3 DEF RecvEnds
<1>12. CASE AckUnlock(p)
  <2>1. /\ pc[p] = "unlock_ack" /\ consumed' = consumed /\ UNCHANGED <<at, awaits>>
        /\ WakeUp(p, RecvEnds(p)) /\ RecvEnds(p) \in Pcs
    BY <1>12 DEF AckUnlock, FutexUnlock, RecvEnds, Pcs
  <2>2. pc'[p] = RecvEnds(p)
    BY <2>1, WakeUpMoves
  <2>3. awaits[p] = "msg"
    BY <1>1, <2>1 DEF NodeOK
  <2>4. consumed[c] >= 1
    BY <1>1, <2>1 DEF NodeOK
  <2> QED
    BY <1>4, <2>1, <2>2, <2>3, <2>4 DEF RecvEnds
<1> QED
  BY <1>5, <1>6, <1>7, <1>8, <1>9, <1>10, <1>11, <1>12 DEF Step

(* The next message is a request or an answer. *)
TakesToken(p) == RecvMsg(p) /\ NextMessage(Conn(p)).type = "UMP_MSG"

(* A step of node 0: a multicast goes on to the next nodes, and only the    *)
(* answer that is received is to be handled.                                *)
LEMMA ZeroMove ==
  ASSUME Before, Step(0)
  PROVE  /\ Multicasting' => Multicasting /\ message' = message
         /\ \A i \in Others : /\ Asked(i) => Asked(i)'
                              /\ ~TakesToken(0) => (Answered(i)' => Answered(i))
<1>1. /\ pc \in [Nodes -> Pcs] /\ at \in [Nodes -> Nodes] /\ 0 \in Nodes
      /\ awaits \in [Nodes -> {"ack", "msg"}] /\ call_recv_again \in [Nodes -> BOOLEAN]
      /\ message \in [Nodes -> Snapshots] /\ Others \subseteq Nat
  BY NodeFacts DEF Before, CheckpointingTypeOK
<1>2. NodeOK(0) /\ at[0] \in Others /\ at[0] \in Nat
  BY <1>1 DEF Before, NodeInv, NodeOK
<1>3. UNCHANGED <<iter, snapshot_in_progress, awaited_responses>>
  BY <1>1, StepFrame DEF checkpointer
<1> USE DEF WaitPcs
(* The steps that stay at the same node *)
<1>4. ASSUME at'[0] = at[0], Multicasting' => Multicasting /\ message' = message,
             pc[0] # "unlock",
             pc'[0] \in {"handle", "ack", "unlock_ack"} /\ ~TakesToken(0) =>
               \/ pc'[0] # "handle" /\ call_recv_again'[0]
               \/ /\ call_recv_again'[0] = call_recv_again[0]
                  /\ pc[0] = "handle" \/ (pc[0] \in {"ack", "unlock_ack"} /\ ~call_recv_again[0])
                     \/ (pc'[0] # "handle" /\ pc[0] \in {"ack", "unlock_ack"})
      PROVE  /\ Multicasting' => Multicasting /\ message' = message
             /\ \A i \in Others : /\ Asked(i) => Asked(i)'
                                  /\ ~TakesToken(0) => (Answered(i)' => Answered(i))
  <2>1. ASSUME NEW i \in Others, Asked(i) PROVE Asked(i)'
    BY <1>3, <1>4, <2>1 DEF Asked
  <2>2. ASSUME NEW i \in Others, ~TakesToken(0), Answered(i)' PROVE Answered(i)
    BY <1>4, <2>2 DEF Answered
  <2> QED
    BY <1>4, <2>1, <2>2
<1>5. CASE Open(0) \/ SendBlocked(0) \/ SendCopy(0) \/ SendHeader(0) \/ HandleRequest(0)
  BY <1>1, <1>4, <1>5 DEF Open, SendBlocked, SendCopy, SendHeader, HandleRequest, Goto, Multicasting
<1>6. CASE TestEmpty(0) \/ Lock(0) \/ Wait(0) \/ Timeout(0) \/ RecvAck(0)
  BY <1>1, <1>4, <1>6 DEF TestEmpty, Lock, Wait, Timeout, RecvAck, Goto, Multicasting
<1>7. CASE RecvMsg(0)
  <2>1. /\ pc[0] = "test" /\ pc'[0] = "ack" /\ at' = at
        /\ call_recv_again'[0] = (NextMessage(Conn(0)).type = "UMP_ACK")
    BY <1>1, <1>7 DEF RecvMsg, Goto
  <2>2. NextMessage(Conn(0)).type \in {"UMP_MSG", "UMP_ACK"}
    <3>1. Conn(0) \in Conns /\ Peer(Conn(0)) \in Conns
      BY <1>1, ConnOf
    <3>2. NextMessage(Conn(0)) \in Messages
      BY <3>1, ChannelTypes, EndTypes DEF NextMessage, Before, CheckpointingTypeOK
    <3> QED
      BY <3>2 DEF Messages
  <2>3. ~TakesToken(0) => call_recv_again'[0]
    BY <1>7, <2>1, <2>2 DEF TakesToken
  <2> QED
    BY <1>4, <2>1, <2>3 DEF Multicasting
<1>8. CASE SendAck(0)
  <2>1. /\ pc[0] = "ack" /\ at' = at /\ awaits' = awaits /\ call_recv_again' = call_recv_again
        /\ pc'[0] \in {RecvEnds(0), "unlock_ack", "exit"} /\ awaits[0] = "msg"
    BY <1>1, <1>2, <1>8 DEF SendAck, Goto, NodeOK
  <2> QED
    BY <1>4, <2>1 DEF Multicasting, RecvEnds
<1>9. CASE AckUnlock(0)
  <2>1. /\ pc[0] = "unlock_ack" /\ at' = at /\ awaits' = awaits
        /\ call_recv_again' = call_recv_again /\ awaits[0] = "msg"
        /\ WakeUp(0, RecvEnds(0)) /\ RecvEnds(0) \in Pcs
    BY <1>1, <1>2, <1>9 DEF AckUnlock, NodeOK, RecvEnds, Pcs
  <2>2. pc'[0] = RecvEnds(0)
    BY <1>1, <2>1, WakeUpMoves
  <2> QED
    BY <1>4, <2>1, <2>2 DEF Multicasting, RecvEnds
<1>10. CASE SendUnlock(0)
  <2> DEFINE more == at[0] + 1 < nb_nodes
             next == IF more THEN "send" ELSE "loop"
  <2>1. /\ pc[0] = "unlock" /\ WakeUp(0, next) /\ next \in Pcs
        /\ message' = message
        /\ at' = IF more THEN [at EXCEPT ![0] = @ + 1] ELSE at
    BY <1>10 DEF SendUnlock, Pcs
  <2>2. pc'[0] = next
    <3> HIDE DEF next
    <3> QED
      BY <1>1, <2>1, WakeUpMoves
  <2>3. Multicasting /\ message' = message
    BY <2>1 DEF Multicasting
  <2>4. ASSUME NEW i \in Others, Asked(i) PROVE Asked(i)'
    <3>1. i < at[0] \/ i = at[0]
      BY <2>1, <2>3, <2>4 DEF Asked
    <3>2. CASE more
      <4>1. at'[0] = at[0] + 1
        BY <1>1, <2>1, <3>2
      <4>2. i \in Nat
        BY <1>1
      <4>3. i < at'[0]
        BY <1>2, <3>1, <4>1, <4>2
      <4> QED
        BY <1>3, <2>4, <4>3 DEF Asked
    <3>3. CASE ~more
      <4>1. ~Multicasting'
        BY <2>2, <3>3 DEF Multicasting
      <4> QED
        BY <1>3, <2>4, <4>1 DEF Asked
    <3> QED
      BY <3>2, <3>3
  <2>5. ASSUME NEW i \in Others PROVE ~Answered(i)'
    BY <2>2 DEF Answered
  <2> QED
    BY <2>3, <2>4, <2>5
<1> QED
  BY <1>5, <1>6, <1>7, <1>8, <1>9, <1>10 DEF Step

(* A step of another node: it only answers what it received. *)
LEMMA BusyMove ==
  ASSUME Before, NEW i \in Others, Step(i), ~TakesToken(i), Busy(i)'
  PROVE  Busy(i)
<1>1. /\ pc \in [Nodes -> Pcs] /\ at \in [Nodes -> Nodes] /\ i \in Nodes /\ i # 0
      /\ awaits \in [Nodes -> {"ack", "msg"}] /\ call_recv_again \in [Nodes -> BOOLEAN]
      /\ NodeOK(i)
  BY NodeFacts DEF Before, CheckpointingTypeOK, NodeInv
<1> USE DEF WaitPcs, Busy
<1>2. CASE Open(i) \/ SendBlocked(i) \/ SendCopy(i) \/ SendHeader(i) \/ HandleRequest(i)
  BY <1>1, <1>2 DEF Open, SendBlocked, SendCopy, SendHeader, HandleRequest, Goto, NodeOK
<1>3. CASE TestEmpty(i) \/ Lock(i) \/ Wait(i) \/ Timeout(i) \/ RecvAck(i)
  BY <1>1, <1>3 DEF TestEmpty, Lock, Wait, Timeout, RecvAck, Goto
<1>4. CASE RecvMsg(i)
  <2>1. /\ pc'[i] = "ack"
        /\ call_recv_again'[i] = (NextMessage(Conn(i)).type = "UMP_ACK")
    BY <1>1, <1>4 DEF RecvMsg, Goto
  <2>2. NextMessage(Conn(i)).type \in {"UMP_MSG", "UMP_ACK"}
    <3>1. Conn(i) \in Conns /\ Peer(Conn(i)) \in Conns
      BY <1>1, ConnOf
    <3>2. NextMessage(Conn(i)) \in Messages
      BY <3>1, ChannelTypes, EndTypes DEF NextMessage, Before, CheckpointingTypeOK
    <3> QED
      BY <3>2 DEF Messages
  <2> QED
    BY <1>4, <2>1, <2>2 DEF TakesToken
<1>5. CASE SendAck(i)
  <2>1. /\ pc[i] = "ack" /\ awaits' = awaits /\ call_recv_again' = call_recv_again
        /\ pc'[i] \in {RecvEnds(i), "unlock_ack", "exit"} /\ awaits[i] = "msg"
    BY <1>1, <1>5 DEF SendAck, Goto, NodeOK
  <2> QED
    BY <2>1 DEF RecvEnds
<1>6. CASE AckUnlock(i)
  <2>1. /\ pc[i] = "unlock_ack" /\ awaits' = awaits
        /\ call_recv_again' = call_recv_again /\ awaits[i] = "msg"
        /\ WakeUp(i, RecvEnds(i)) /\ RecvEnds(i) \in Pcs
    BY <1>1, <1>6 DEF AckUnlock, NodeOK, RecvEnds, Pcs
  <2>2. pc'[i] = RecvEnds(i)
    BY <1>1, <2>1, WakeUpMoves
  <2> QED
    BY <2>1, <2>2 DEF RecvEnds
<1>7. CASE SendUnlock(i)
  <2>1. WakeUp(i, "test") /\ "test" \in Pcs /\ awaits' = [awaits EXCEPT ![i] = "msg"]
    BY <1>1, <1>7 DEF SendUnlock, Pcs
  <2>2. pc'[i] = "test" /\ awaits'[i] = "msg"
    BY <1>1, <2>1, WakeUpMoves
  <2> QED
    BY <2>2
<1> QED
  BY <1>2, <1>3, <1>4, <1>5, <1>6, <1>7 DEF Step

(* Only a request or an answer changes the message of a node. *)
LEMMA MessageKept ==
  ASSUME NEW p \in Nodes, Step(p), ~TakesToken(p)
  PROVE  message' = message
BY DEF TakesToken, Step, Open, SendBlocked, SendCopy, SendHeader, SendUnlock, TestEmpty, Lock,
   Wait, Timeout, RecvAck, RecvMsg, SendAck, AckUnlock, HandleRequest

(* The request or answer of a node is where it was after a step that neither *)
(* sends nor takes one on its connection.                                   *)
LEMMA Untouched ==
  ASSUME Before, NEW p \in Nodes, Step(p), NEW i \in Others, TokenInv(i),
         Fewer(<<0, i>>), Fewer(<<i, 0>>),
         TakesToken(p) => p # i /\ (p = 0 => at[0] # i)
  PROVE  TokenInv(i)'
<1>1. 0 \in Nodes /\ i \in Nodes /\ i # 0 /\ (p # 0 => p \in Others)
  BY NodeFacts
<1>2. /\ \A q \in Nodes : q # p => Bystander(q)
      /\ UNCHANGED checkpointer
  BY StepFrame
<1>3. iter' = iter
  BY <1>2 DEF checkpointer
<1>4. message'[i] = message[i]
  <2>1. CASE p = i
    BY <2>1, MessageKept
  <2>2. CASE p # i
    BY <1>1, <1>2, <2>2 DEF Bystander
  <2> QED
    BY <2>1, <2>2
<1>5. Busy(i)' => Busy(i)
  <2>1. CASE p = i
    BY <2>1, BusyMove
  <2>2. CASE p # i
    BY <1>1, <1>2, <2>2, BusyFrame
  <2> QED
    BY <2>1, <2>2
<1>6. /\ Answered(i)' => Answered(i) /\ message'[0] = message[0]
      /\ Asked(i) => Asked(i)'
  <2>1. CASE p # 0
    <3>1. Bystander(0)
      BY <1>1, <1>2, <2>1
    <3> QED
      BY <1>2, <3>1, ZeroFrame DEF Bystander
  <2>2. CASE p = 0 /\ ~TakesToken(0)
    BY <2>2, ZeroMove, MessageKept
  <2>3. CASE p = 0 /\ TakesToken(0)
    <3>1. at' = at
      BY <2>3 DEF TakesToken, RecvMsg
    <3>2. ~Answered(i)'
      BY <2>3, <3>1 DEF Answered
    <3> QED
      BY <2>3, <3>2, ZeroMove
  <2> QED
    BY <2>1, <2>2, <2>3
<1> QED
  BY <1>3, <1>4, <1>5, <1>6, TokenFrame

(* A step of a node keeps what is known of the nodes. *)
LEMMA StepKeepsBefore ==
  ASSUME Before, NEW p \in Nodes, Step(p)
  PROVE  Before'
<1>1. ChannelsInv' /\ CheckpointingTypeOK'
  BY StepChannels
<1>2. NodeInv'
  <2>1. ASSUME NEW q \in Nodes PROVE NodeOK(q)' /\ HeaderOK(q)'
    <3>1. CASE q = p
      BY <3>1, OwnMove
    <3>2. CASE q # p
      BY <3>2, StepFrame, BystanderFrame
    <3> QED
      BY <3>1, <3>2
  <2> QED
    BY <2>1 DEF NodeInv
<1>3. MulticastInv'
  <2>1. UNCHANGED checkpointer /\ MulticastInv /\ 0 \in Nodes
    BY StepFrame, NodeFacts DEF Before
  <2>2. CASE p # 0
    BY <2>1, <2>2, StepFrame, ZeroFrame
  <2>3. CASE p = 0
    <3>1. Multicasting' => Multicasting /\ message' = message
      BY <2>3, ZeroMove
    <3> QED
      BY <2>1, <3>1 DEF MulticastInv, checkpointer
  <2> QED
    BY <2>2, <2>3
<1> QED
  BY <1>1, <1>2, <1>3 DEF Before

-----------------------------------------------------------------------------
(* The requests and answers on their way *)

(* The two ends of the connection of a node *)
LEMMA EndsOfNode ==
  ASSUME NEW i \in Others
  PROVE  /\ <<0, i>> \in Conns /\ <<i, 0>> \in Conns /\ i # 0 /\ i \in Nodes /\ 0 \in Nodes
         /\ Peer(<<0, i>>) = <<i, 0>> /\ Peer(<<i, 0>>) = <<0, i>>
BY NodeFacts DEF Conns, Peer

(* Node 0 sends a request: nothing of an earlier snapshot is left there. *)
LEMMA SendRequest ==
  ASSUME Before, SendHeader(0), NEW k \in Others, k = at[0], TokenInv(k)
  PROVE  TokenInv(k)'
<1> DEFINE c == <<0, k>>
<1>1. c \in Conns /\ <<k, 0>> \in Conns /\ c # <<k, 0>> /\ k # 0 /\ k \in Nodes /\ 0 \in Nodes
  BY EndsOfNode
<1>2. /\ pc \in [Nodes -> Pcs] /\ MprotectTypeOK /\ ChannelsInv
      /\ HeaderOK(0) /\ MulticastInv /\ Conn(0) = c
  BY <1>1 DEF Before, CheckpointingTypeOK, NodeInv, Conn
<1>3. /\ pc[0] = "header" /\ pc'[0] = "unlock" /\ StoreHeader(c, "UMP_MSG")
      /\ UNCHANGED <<at, awaits, call_recv_again, message, checkpointer>>
  BY <1>1, <1>2 DEF SendHeader, Goto
<1>4. /\ snapshot_in_progress /\ awaited_responses = Others /\ message[0] = iter + 1
      /\ Multicasting /\ ~Asked(k)
  BY <1>2, <1>3, NodeFacts DEF MulticastInv, Multicasting, Asked
<1>5. ump_can_send(c) /\ ring[c][chan[c].spos].data = iter + 1
  BY <1>2, <1>3, <1>4 DEF HeaderOK
<1>6. /\ ~Busy(k)
      /\ \A n \in Nat : ~InFlight(<<0, k>>, n) /\ ~InFlight(<<k, 0>>, n)
  BY <1>4 DEF TokenInv
<1>7. ~Busy(k)'
  <2>1. Bystander(k)
    BY <1>1, StepFrame DEF Step
  <2> QED
    BY <1>6, <2>1, BusyFrame
<1>8. Asked(k)' /\ ~Answered(k)' /\ iter' = iter
  BY <1>3, <1>4 DEF Asked, Answered, Multicasting, checkpointer, WaitPcs
<1>9. /\ \A n \in Nat : ~InFlight(<<k, 0>>, n)'
      /\ \A n \in Nat : InFlight(c, n)' =>
           n = produced[c] + 1 /\ ring'[c][Home(n)].data = iter + 1
  <2> HIDE DEF c
  <2>1. Fewer(<<k, 0>>)
    BY <1>1, <1>2, <1>3, <1>5, OneMoreInFlight
  <2>2. /\ \A n \in Nat : InFlight(c, n)' => n = produced[c] + 1 \/ InFlight(c, n)
        /\ ring'[c][Home(produced[c] + 1)].data = ring[c][chan[c].spos].data
    BY <1>1, <1>2, <1>3, <1>5, OneMoreInFlight
  <2> QED
    BY <1>5, <1>6, <2>1, <2>2 DEF Fewer, c
<1> QED
  BY <1>7, <1>8, <1>9 DEF TokenInv

(* A node sends its answer to the request it received. *)
LEMMA SendAnswer ==
  ASSUME Before, NEW i \in Others, SendHeader(i), TokenInv(i)
  PROVE  TokenInv(i)'
<1> DEFINE c == <<i, 0>>
<1>1. c \in Conns /\ <<0, i>> \in Conns /\ c # <<0, i>> /\ i # 0 /\ i \in Nodes /\ 0 \in Nodes
  BY EndsOfNode
<1>2. /\ pc \in [Nodes -> Pcs] /\ MprotectTypeOK /\ ChannelsInv
      /\ HeaderOK(i) /\ NodeOK(i) /\ Conn(i) = c
  BY <1>1, ConnOf DEF Before, CheckpointingTypeOK, NodeInv
<1>3. /\ pc[i] = "header" /\ pc'[i] = "unlock" /\ StoreHeader(c, "UMP_MSG")
      /\ UNCHANGED <<at, awaits, call_recv_again, message, checkpointer>>
  BY <1>1, <1>2 DEF SendHeader, Goto
<1>4. /\ Asked(i) /\ message[i] = iter + 1 /\ ~Answered(i)
      /\ \A n \in Nat : ~InFlight(<<0, i>>, n) /\ ~InFlight(<<i, 0>>, n)
  <2>1. Busy(i)
    BY <1>3 DEF Busy
  <2> QED
    BY <2>1 DEF TokenInv
<1>5. ump_can_send(c) /\ ring[c][chan[c].spos].data = iter + 1
  BY <1>2, <1>3, <1>4 DEF HeaderOK
<1>6. ~Busy(i)'
  BY <1>3 DEF Busy, WaitPcs
<1>7. Asked(i)' /\ ~Answered(i)' /\ iter' = iter
  <2>1. Bystander(0)
    BY <1>1, StepFrame DEF Step
  <2> QED
    BY <1>3, <1>4, <2>1, ZeroFrame DEF checkpointer
<1>8. /\ \A n \in Nat : ~InFlight(<<0, i>>, n)'
      /\ \A n \in Nat : InFlight(c, n)' =>
           n = produced[c] + 1 /\ ring'[c][Home(n)].data = iter + 1
  <2> HIDE DEF c
  <2>1. Fewer(<<0, i>>)
    BY <1>1, <1>2, <1>3, <1>5, OneMoreInFlight
  <2>2. /\ \A n \in Nat : InFlight(c, n)' => n = produced[c] + 1 \/ InFlight(c, n)
        /\ ring'[c][Home(produced[c] + 1)].data = ring[c][chan[c].spos].data
    BY <1>1, <1>2, <1>3, <1>5, OneMoreInFlight
  <2> QED
    BY <1>4, <1>5, <2>1, <2>2 DEF Fewer, c
<1> QED
  BY <1>6, <1>7, <1>8 DEF TokenInv

(* The message that an end finds next is in flight, and taking it leaves     *)
(* none of the same number.                                                 *)
LEMMA NextIsInFlight ==
  ASSUME Before, NEW p \in Nodes, TakesToken(p), NEW e \in Conns, e = Peer(Conn(p))
  PROVE  LET n == consumed[Conn(p)] + 1 IN
         /\ n \in Nat /\ InFlight(e, n)
         /\ NextMessage(Conn(p)) = ring[e][Home(n)]
         /\ \A m \in Nat : InFlight(e, m)' => m # n
<1> DEFINE n == consumed[Conn(p)] + 1
<1>1. PICK c \in Conns : c = Conn(p) /\ Peer(e) = c /\ e = Peer(c) /\ n = consumed[c] + 1
  BY ConnOf, ConnFacts
<1>2. consumed[c] \in Nat /\ produced[e] \in Nat /\ MprotectTypeOK /\ ChannelsInv
  BY <1>1, EndTypes DEF Before, CheckpointingTypeOK
<1>3. ump_endpoint_can_recv(c) /\ TakeMessage(c) /\ NextMessage(c).type = "UMP_MSG"
  BY <1>1 DEF TakesToken, RecvMsg
<1>4. consumed[c] < produced[e] /\ chan[c].rpos = Home(n)
  BY <1>1, <1>2, <1>3, ChannelFacts
<1>5. NextMessage(c) = ring[e][Home(n)]
  BY <1>1, <1>4 DEF NextMessage
<1>6. consumed'[c] = n
  BY <1>1, <1>2, <1>3, ChannelTypes DEF TakeMessage
<1> HIDE DEF n
<1>7. InFlight(e, n)
  BY <1>1, <1>2, <1>3, <1>4, <1>5 DEF InFlight
<1>8. ASSUME NEW m \in Nat, InFlight(e, m)' PROVE m # n
  <2>1. m \in consumed'[c] + 1 .. produced'[e]
    BY <1>1, <1>8 DEF InFlight
  <2>2. m >= consumed'[c] + 1
    BY <2>1
  <2> QED
    BY <1>2, <1>6, <2>2
<1> QED
  BY <1>1, <1>2, <1>5, <1>7, <1>8

(* A node takes a request, and is the only one to know of it. *)
LEMMA TakeRequest ==
  ASSUME Before, NEW i \in Others, TakesToken(i), TokenInv(i)
  PROVE  TokenInv(i)'
<1> DEFINE e == <<0, i>>
           n == consumed[<<i, 0>>] + 1
<1>1. e \in Conns /\ <<i, 0>> \in Conns /\ i # 0 /\ i \in Nodes /\ 0 \in Nodes
      /\ Step(i) /\ ~SendHeader(i)
  BY EndsOfNode DEF TakesToken, Step, RecvMsg, SendHeader
<1>2. Conn(i) = <<i, 0>> /\ Peer(Conn(i)) = e
  BY <1>1, ConnOf
<1>3. /\ n \in Nat /\ InFlight(e, n) /\ NextMessage(Conn(i)) = ring[e][Home(n)]
      /\ \A m \in Nat : InFlight(e, m)' => m # n
  BY <1>1, <1>2, NextIsInFlight
<1>4. /\ Asked(i) /\ ring[e][Home(n)].data = iter + 1 /\ ~Answered(i)
      /\ \A m \in Nat : ~InFlight(<<i, 0>>, m) /\ (InFlight(e, m) => m = n)
  <2> HIDE DEF n
  <2> QED
    BY <1>3 DEF TokenInv
<1>5. message'[i] = iter + 1
  <2>1. message \in [Nodes -> Snapshots]
    BY DEF Before, CheckpointingTypeOK
  <2>2. message' = [message EXCEPT ![i] = NextMessage(Conn(i)).data]
    BY DEF TakesToken, RecvMsg
  <2> HIDE DEF e, n
  <2> QED
    BY <1>1, <1>3, <1>4, <2>1, <2>2
<1>6. Asked(i)' /\ ~Answered(i)' /\ iter' = iter
  <2>1. Bystander(0) /\ UNCHANGED checkpointer
    BY <1>1, StepFrame
  <2> QED
    BY <1>4, <2>1, ZeroFrame DEF checkpointer
<1>7. \A m \in Nat : ~InFlight(<<i, 0>>, m)' /\ ~InFlight(e, m)'
  <2>1. Fewer(<<i, 0>>) /\ Fewer(e)
    BY <1>1, StepFlights
  <2> HIDE DEF e, n
  <2> QED
    BY <1>3, <1>4, <2>1 DEF Fewer
<1> QED
  BY <1>5, <1>6, <1>7 DEF TokenInv

(* Node 0 takes the answer of the node it receives from. *)
LEMMA TakeAnswer ==
  ASSUME Before, TakesToken(0), NEW k \in Others, k = at[0], TokenInv(k)
  PROVE  TokenInv(k)'
<1> DEFINE e == <<k, 0>>
           n == consumed[<<0, k>>] + 1
<1>1. e \in Conns /\ <<0, k>> \in Conns /\ k # 0 /\ k \in Nodes /\ 0 \in Nodes
      /\ Step(0) /\ ~SendHeader(0)
  BY EndsOfNode DEF TakesToken, Step, RecvMsg, SendHeader
<1>2. Conn(0) = <<0, k>> /\ Peer(Conn(0)) = e
  BY <1>1 DEF Conn, Peer
<1>3. /\ n \in Nat /\ InFlight(e, n) /\ NextMessage(Conn(0)) = ring[e][Home(n)]
      /\ \A m \in Nat : InFlight(e, m)' => m # n
  BY <1>1, <1>2, NextIsInFlight
<1>4. /\ Asked(k) /\ ring[e][Home(n)].data = iter + 1
      /\ \A m \in Nat : InFlight(e, m) => m = n
  <2> HIDE DEF n
  <2> QED
    BY <1>3 DEF TokenInv
<1>5. ~Busy(k) /\ \A m \in Nat : ~InFlight(<<0, k>>, m)
  <2> HIDE DEF n
  <2> QED
    BY <1>3 DEF TokenInv
<1>6. message'[0] = iter + 1
  <2>1. message \in [Nodes -> Snapshots]
    BY DEF Before, CheckpointingTypeOK
  <2>2. message' = [message EXCEPT ![0] = NextMessage(Conn(0)).data]
    BY DEF TakesToken, RecvMsg
  <2> HIDE DEF e, n
  <2> QED
    BY <1>1, <1>3, <1>4, <2>1, <2>2
<1>7. Asked(k)' /\ ~Busy(k)' /\ iter' = iter
  <2>1. Bystander(k) /\ UNCHANGED checkpointer
    BY <1>1, StepFrame
  <2> QED
    BY <1>1, <1>4, <1>5, <2>1, BusyFrame, ZeroMove DEF checkpointer
<1>8. \A m \in Nat : ~InFlight(<<0, k>>, m)' /\ ~InFlight(e, m)'
  <2>1. Fewer(<<0, k>>) /\ Fewer(e)
    BY <1>1, StepFlights
  <2> HIDE DEF e, n
  <2> QED
    BY <1>3, <1>4, <1>5, <2>1 DEF Fewer
<1> QED
  BY <1>6, <1>7, <1>8 DEF TokenInv

(* Every step of a node keeps the request and the answer of each node right. *)
LEMMA StepKeepsAll ==
  ASSUME AllInv, NEW p \in Nodes, Step(p)
  PROVE  AllInv'
<1>1. Before /\ Before' /\ UNCHANGED checkpointer
  BY StepKeepsBefore, StepFrame DEF AllInv, Before
<1>2. SnapshotIsFresh'
  BY <1>1 DEF AllInv, SnapshotIsFresh, checkpointer
<1>3. ASSUME NEW i \in Others PROVE TokenInv(i)'
  <2>1. TokenInv(i) /\ <<0, i>> \in Conns /\ <<i, 0>> \in Conns /\ i # 0
    BY EndsOfNode DEF AllInv
  <2>2. CASE SendHeader(p) /\ (p = i \/ (p = 0 /\ at[0] = i))
    BY <1>1, <2>1, <2>2, SendRequest, SendAnswer
  <2>3. CASE SendHeader(p) /\ ~(p = i \/ (p = 0 /\ at[0] = i))
    <3>1. Conn(p) \in Conns /\ Conn(p) # <<0, i>> /\ Conn(p) # <<i, 0>>
      BY <1>1, <2>1, <2>3, ConnOf DEF Conn
    <3>2. StoreHeader(Conn(p), "UMP_MSG") /\ pc[p] = "header"
      BY <2>3 DEF SendHeader
    <3>3. ump_can_send(Conn(p)) /\ MprotectTypeOK /\ ChannelsInv
      BY <3>2, <1>1 DEF Before, NodeInv, HeaderOK, CheckpointingTypeOK
    <3>4. Fewer(<<0, i>>) /\ Fewer(<<i, 0>>)
      BY <2>1, <3>1, <3>2, <3>3, OneMoreInFlight
    <3>5. ~TakesToken(p)
      BY <3>2 DEF TakesToken, RecvMsg
    <3> QED
      BY <1>1, <2>1, <3>4, <3>5, Untouched
  <2>4. CASE TakesToken(p) /\ (p = i \/ (p = 0 /\ at[0] = i))
    BY <1>1, <2>1, <2>4, TakeRequest, TakeAnswer
  <2>5. CASE ~SendHeader(p) /\ (TakesToken(p) => ~(p = i \/ (p = 0 /\ at[0] = i)))
    <3>1. Fewer(<<0, i>>) /\ Fewer(<<i, 0>>)
      BY <1>1, <2>1, <2>5, StepFlights
    <3> QED
      BY <1>1, <2>1, <2>5, <3>1, Untouched
  <2> QED
    BY <2>2, <2>3, <2>4, <2>5
<1> QED
  BY <1>1, <1>2, <1>3 DEF AllInv, Before

-----------------------------------------------------------------------------
(* The snapshots of node 0 *)

(* Nothing is sent, received or handled for a node. *)
LEMMA NoToken ==
  ASSUME NEW i \in Others, ~Busy(i)', ~Answered(i)',
         \A n \in Nat : ~InFlight(<<0, i>>, n)' /\ ~InFlight(<<i, 0>>, n)'
  PROVE  TokenInv(i)'
BY DEF TokenInv

(* What node 0 does between two calls leaves the channels and the others. *)
LEMMA ZeroFrames ==
  ASSUME Before, UNCHANGED channels, pc' = [pc EXCEPT ![0] = pc'[0]],
         pc'[0] \in {"loop", "send", "test", "done"},
         at' = at \/ at' = [at EXCEPT ![0] = at'[0]], at'[0] \in Others,
         awaits' = awaits, awaits[0] = "msg", call_recv_again' = call_recv_again,
         message' = message \/ message' = [message EXCEPT ![0] = message'[0]]
  PROVE  /\ ChannelsInv' /\ MprotectTypeOK' /\ NodeInv'
         /\ \A c \in Conns : Fewer(c)
         /\ \A i \in Others : Bystander(i) /\ ~Answered(i)'
         /\ Multicasting' <=> pc'[0] = "send"
<1>1. /\ pc \in [Nodes -> Pcs] /\ at \in [Nodes -> Nodes]
      /\ message \in [Nodes -> Snapshots] /\ MprotectTypeOK /\ ChannelsInv
      /\ 0 \in Nodes /\ 0 \notin Others /\ Nodes = {0} \cup Others
  BY NodeFacts DEF Before, CheckpointingTypeOK
<1>2. UNCHANGED <<ring, chan, f, produced, consumed>>
  BY DEF channels
<1>3. ChannelsInv' /\ MprotectTypeOK'
  <2>1. <<0, 1>> \in Conns
    BY NodeFacts, EndsOfNode
  <2> QED
    BY <1>1, <2>1, ChannelSteps
<1>4. \A c \in Conns : Fewer(c)
  BY <1>2, FewerFrame
<1>5. \A i \in Others : Bystander(i) /\ EndsOf(i)
  BY <1>1, <1>2 DEF Bystander, EndsOf
<1>6. /\ \A i \in Others : ~Answered(i)'
      /\ Multicasting' <=> pc'[0] = "send"
  BY DEF Answered, Multicasting, WaitPcs
<1>7. NodeOK(0)' /\ HeaderOK(0)'
  BY DEF NodeOK, HeaderOK
<1>8. NodeInv'
  BY <1>1, <1>5, <1>7, BystanderFrame DEF NodeInv
<1> QED
  BY <1>3, <1>4, <1>5, <1>6, <1>8

(* Node 0 starts a snapshot when no request or answer is left of an earlier  *)
(* one, or turns to the next node.                                          *)
LEMMA LoopKeepsAll == ASSUME AllInv, Loop PROVE AllInv'
<1>1. /\ Before /\ SnapshotIsFresh /\ \A i \in Others : TokenInv(i)
      /\ CheckpointingTypeOK /\ MulticastInv /\ NodeOK(0) /\ 0 \in Nodes /\ 1 \in Others
  BY NodeFacts DEF AllInv, Before, NodeInv
<1>2. /\ pc \in [Nodes -> Pcs] /\ at \in [Nodes -> Nodes] /\ message \in [Nodes -> Snapshots]
      /\ rr \in Others /\ iter \in Snapshots /\ at[0] \in Others
      /\ pc[0] = "loop" /\ awaits[0] = "msg"
  BY <1>1 DEF CheckpointingTypeOK, NodeOK, Loop
<1>3. /\ pc' = [pc EXCEPT ![0] = pc'[0]]
      /\ pc'[0] \in {"send", "test", "done"}
      /\ at' = at \/ at' = [at EXCEPT ![0] = at'[0]]
      /\ at'[0] \in Others
      /\ message' = message \/ message' = [message EXCEPT ![0] = message'[0]]
      /\ UNCHANGED <<channels, awaits, call_recv_again, iter, snapshot, rr>>
  BY <1>1, <1>2 DEF Loop, Goto
<1>4. /\ ChannelsInv' /\ MprotectTypeOK' /\ NodeInv'
      /\ \A c \in Conns : Fewer(c)
      /\ \A i \in Others : Bystander(i) /\ ~Answered(i)'
      /\ Multicasting' <=> pc'[0] = "send"
  BY <1>1, <1>2, <1>3, ZeroFrames
<1>5. CASE pc'[0] = "send"
  <2>1. /\ iter < nb_iter /\ ~snapshot_in_progress
        /\ snapshot_in_progress' /\ awaited_responses' = Others
        /\ message' = [message EXCEPT ![0] = iter + 1]
    BY <1>2, <1>5 DEF Loop, Goto, awaited_responses_mask
  <2>2. iter + 1 \in Snapshots
    BY <1>2, <2>1, CheckpointingAssumption DEF Snapshots
  <2>3. message' \in [Nodes -> Snapshots] /\ message'[0] = iter + 1
    BY <1>1, <1>2, <2>1, <2>2
  <2>4. MulticastInv'
    BY <1>3, <2>1, <2>3 DEF MulticastInv
  <2>5. ASSUME NEW i \in Others PROVE TokenInv(i)'
    <3>1. TokenInv(i) /\ ~Asked(i)
      BY <1>1, <2>1 DEF Asked
    <3>2. ~Busy(i) /\ \A n \in Nat : ~InFlight(<<0, i>>, n) /\ ~InFlight(<<i, 0>>, n)
      BY <3>1 DEF TokenInv
    <3>3. ~Busy(i)' /\ \A n \in Nat : ~InFlight(<<0, i>>, n)' /\ ~InFlight(<<i, 0>>, n)'
      BY <1>4, <3>2, EndsOfNode, BusyFrame DEF Fewer
    <3> QED
      BY <1>4, <3>3, NoToken
  <2>6. SnapshotIsFresh'
    BY <1>1, <1>3, <2>1 DEF SnapshotIsFresh
  <2>7. CheckpointingTypeOK'
    <3>1. pc' \in [Nodes -> Pcs] /\ at' \in [Nodes -> Nodes]
      BY <1>2, <1>3, NodeFacts DEF Pcs
    <3> QED
      BY <1>1, <1>3, <1>4, <2>1, <2>3, <3>1 DEF CheckpointingTypeOK
  <2> QED
    BY <1>4, <2>4, <2>5, <2>6, <2>7 DEF AllInv
<1>6. CASE pc'[0] # "send"
  <2>1. UNCHANGED <<message, checkpointer>>
    BY <1>1, <1>2, <1>6 DEF Loop, Goto, checkpointer
  <2>2. UNCHANGED <<iter, snapshot_in_progress, awaited_responses, snapshot, rr>>
    BY <2>1 DEF checkpointer
  <2>3. MulticastInv'
    BY <1>1, <1>4, <1>6, <2>2 DEF MulticastInv
  <2>4. ASSUME NEW i \in Others PROVE TokenInv(i)'
    <3>1. Asked(i) => Asked(i)'
      BY <1>4, <1>6, <2>2 DEF Asked
    <3>2. Fewer(<<0, i>>) /\ Fewer(<<i, 0>>) /\ (Busy(i)' => Busy(i)) /\ ~Answered(i)'
      BY <1>4, EndsOfNode, BusyFrame
    <3> QED
      BY <1>1, <2>1, <2>2, <3>1, <3>2, TokenFrame
  <2>5. SnapshotIsFresh'
    BY <1>1, <2>2 DEF SnapshotIsFresh
  <2>6. CheckpointingTypeOK'
    <3>1. pc' \in [Nodes -> Pcs] /\ at' \in [Nodes -> Nodes]
      BY <1>2, <1>3, NodeFacts DEF Pcs
    <3> QED
      BY <1>1, <1>3, <1>4, <2>1, <2>2, <3>1 DEF CheckpointingTypeOK
  <2> QED
    BY <1>4, <2>3, <2>4, <2>5, <2>6 DEF AllInv
<1> QED
  BY <1>5, <1>6

(* An answer is counted once: it is of this snapshot, and its node is one    *)
(* that node 0 still waits for.                                             *)
LEMMA HandleKeepsAll == ASSUME AllInv, HandleResponse PROVE AllInv'
<1> DEFINE k == at[0]
           left == awaited_responses \ {k}
<1>1. /\ Before /\ SnapshotIsFresh /\ \A i \in Others : TokenInv(i)
      /\ CheckpointingTypeOK /\ MulticastInv /\ NodeOK(0) /\ 0 \in Nodes /\ 1 \in Others
  BY NodeFacts DEF AllInv, Before, NodeInv
<1>2. /\ pc \in [Nodes -> Pcs] /\ at \in [Nodes -> Nodes] /\ message \in [Nodes -> Snapshots]
      /\ rr \in Others /\ iter \in Snapshots /\ k \in Others
      /\ awaited_responses \in SUBSET Others /\ snapshot \in [Others -> Snapshots]
      /\ pc[0] = "handle" /\ awaits[0] = "msg"
  BY <1>1 DEF CheckpointingTypeOK, NodeOK, HandleResponse
<1>3. /\ Asked(k) /\ message[0] = iter + 1
      /\ ~Busy(k) /\ \A n \in Nat : ~InFlight(<<0, k>>, n) /\ ~InFlight(<<k, 0>>, n)
  <2>1. TokenInv(k) /\ Answered(k)
    BY <1>1, <1>2 DEF Answered
  <2> HIDE DEF k
  <2> QED
    BY <2>1 DEF TokenInv
<1>4. snapshot_in_progress /\ k \in awaited_responses /\ iter < nb_iter
  BY <1>1, <1>3 DEF Asked, MulticastInv
<1>5. /\ snapshot' = [snapshot EXCEPT ![k] = message[0]]
      /\ awaited_responses' = left /\ snapshot_in_progress' = (left # {})
      /\ iter' = IF left = {} THEN iter + 1 ELSE iter
      /\ rr' = IF rr + 1 = nb_nodes THEN 1 ELSE rr + 1
      /\ pc' = [pc EXCEPT ![0] = "loop"]
      /\ UNCHANGED <<channels, at, awaits, call_recv_again, message>>
  BY <1>4 DEF HandleResponse, Goto
<1> HIDE DEF k, left
<1>6. pc'[0] = "loop" /\ at'[0] = k
  BY <1>1, <1>2, <1>5 DEF k
<1>7. /\ ChannelsInv' /\ MprotectTypeOK' /\ NodeInv'
      /\ \A c \in Conns : Fewer(c)
      /\ \A i \in Others : Bystander(i) /\ ~Answered(i)'
      /\ ~Multicasting'
  BY <1>1, <1>2, <1>5, <1>6, ZeroFrames
<1>8. MulticastInv'
  BY <1>4, <1>5, <1>7 DEF MulticastInv
<1>9. ASSUME NEW i \in Others PROVE TokenInv(i)'
  <2>1. Fewer(<<0, i>>) /\ Fewer(<<i, 0>>) /\ (Busy(i)' => Busy(i)) /\ ~Answered(i)' /\ TokenInv(i)
    BY <1>1, <1>7, <1>9, EndsOfNode, BusyFrame
  <2>2. CASE i # k /\ Asked(i)
    <3>1. i \in left
      BY <2>2 DEF Asked, left
    <3>2. Asked(i)' /\ iter' = iter /\ message' = message
      BY <1>5, <1>7, <3>1 DEF Asked
    <3> QED
      BY <2>1, <3>2, TokenFrame
  <2>3. CASE ~(i # k /\ Asked(i))
    <3>1. ~Busy(i) /\ \A n \in Nat : ~InFlight(<<0, i>>, n) /\ ~InFlight(<<i, 0>>, n)
      BY <1>3, <2>1, <2>3 DEF TokenInv
    <3>2. ~Busy(i)' /\ \A n \in Nat : ~InFlight(<<0, i>>, n)' /\ ~InFlight(<<i, 0>>, n)'
      BY <2>1, <3>1 DEF Fewer
    <3> QED
      BY <2>1, <3>2, NoToken
  <2> QED
    BY <2>2, <2>3
<1>10. SnapshotIsFresh'
  <2>1. ASSUME NEW i \in Others
        PROVE  snapshot'[i] = IF left # {} /\ i \notin left THEN iter' + 1 ELSE iter'
    <3>1. snapshot[i] = IF i \notin awaited_responses THEN iter + 1 ELSE iter
      BY <1>1, <1>4, <2>1 DEF SnapshotIsFresh
    <3>2. CASE i = k
      BY <1>2, <1>3, <1>5, <3>2 DEF left
    <3>3. CASE i # k
      BY <1>2, <1>5, <3>1, <3>3 DEF left
    <3> QED
      BY <3>2, <3>3
  <2> QED
    BY <1>5, <2>1 DEF SnapshotIsFresh
<1>11. CheckpointingTypeOK'
  <2>1. iter + 1 \in Snapshots
    BY <1>2, <1>4, CheckpointingAssumption DEF Snapshots
  <2>2. rr' \in Others
    BY <1>2, <1>5, CheckpointingAssumption DEF Others
  <2>3. snapshot' \in [Others -> Snapshots]
    BY <1>2, <1>3, <1>5, <2>1
  <2>4. iter' \in Snapshots /\ awaited_responses' \in SUBSET Others
        /\ snapshot_in_progress' \in BOOLEAN /\ pc' \in [Nodes -> Pcs]
    BY <1>2, <1>5, <2>1 DEF left, Pcs
  <2> QED
    BY <1>1, <1>5, <1>7, <2>2, <2>3, <2>4 DEF CheckpointingTypeOK
<1> QED
  BY <1>7, <1>8, <1>9, <1>10, <1>11 DEF AllInv

-----------------------------------------------------------------------------
(* The invariant *)

LEMMA AllInvInit == Init => AllInv
<1> SUFFICES ASSUME Init PROVE AllInv
  OBVIOUS
<1>1. 0 \in Nodes /\ 1 \in Nodes /\ 1 \in Others /\ 0 \notin Others /\ Others \subseteq Nodes
  BY NodeFacts
<1>2. 0 \in Snapshots /\ 0 < nb_iter
  BY CheckpointingAssumption DEF Snapshots
<1>3. MprotectInit /\ ChannelsInv
  BY ChannelsInit DEF Init
<1>4. MprotectTypeOK
  <2>1. Opened \in ChannelStates
    BY FirstPlace, IndexType DEF Opened, ChannelStates
  <2>2. NoMessage \in Messages
    BY <1>2, IndexType DEF NoMessage, Message, Messages
  <2> QED
    BY <1>3, <2>1, <2>2, ChannelTypes DEF MprotectInit
<1>5. CheckpointingTypeOK
  <2>1. pc \in [Nodes -> Pcs] /\ awaits \in [Nodes -> {"ack", "msg"}]
    BY DEF Init, Pcs
  <2>2. at \in [Nodes -> Nodes] /\ call_recv_again \in [Nodes -> BOOLEAN]
    BY <1>1 DEF Init
  <2>3. message \in [Nodes -> Snapshots] /\ snapshot \in [Others -> Snapshots]
    BY <1>2 DEF Init
  <2> QED
    BY <1>1, <1>2, <1>4, <2>1, <2>2, <2>3 DEF Init, CheckpointingTypeOK
<1>6. NodeInv
  <2>1. ASSUME NEW p \in Nodes PROVE NodeOK(p) /\ HeaderOK(p)
    <3>1. pc[p] = "new" /\ awaits[p] = "msg" /\ at[p] = IF p = 0 THEN 1 ELSE 0
      BY DEF Init
    <3>2. \A c \in Conns : produced[c] = 0 /\ consumed[c] = 0
      BY <1>3 DEF MprotectInit
    <3> QED
      BY <1>1, <3>1, <3>2 DEF NodeOK, HeaderOK
  <2> QED
    BY <2>1 DEF NodeInv
<1>7. MulticastInv /\ SnapshotIsFresh
  BY <1>1 DEF Init, MulticastInv, Multicasting, WaitPcs, SnapshotIsFresh
<1>8. ASSUME NEW i \in Others PROVE TokenInv(i)
  <2>1. pc[i] = "new" /\ pc[0] = "new"
    BY <1>1 DEF Init
  <2>2. ~Busy(i) /\ ~Answered(i)
    BY <2>1 DEF Busy, Answered, WaitPcs
  <2>3. produced[<<0, i>>] = 0 /\ produced[<<i, 0>>] = 0
        /\ consumed[<<0, i>>] = 0 /\ consumed[<<i, 0>>] = 0
    BY <1>3, EndsOfNode DEF MprotectInit
  <2>4. \A n \in Nat : ~InFlight(<<0, i>>, n) /\ ~InFlight(<<i, 0>>, n)
    BY <2>3, EndsOfNode DEF InFlight
  <2> QED
    BY <2>2, <2>4 DEF TokenInv
<1> QED
  BY <1>3, <1>5, <1>6, <1>7, <1>8 DEF AllInv

LEMMA AllInvNext == AllInv /\ [Next]_vars => AllInv'
<1> SUFFICES ASSUME AllInv, [Next]_vars PROVE AllInv'
  OBVIOUS
<1>1. CASE Loop
  BY <1>1, LoopKeepsAll
<1>2. CASE HandleResponse
  BY <1>2, HandleKeepsAll
<1>3. ASSUME NEW p \in Nodes, Step(p) PROVE AllInv'
  BY <1>3, StepKeepsAll
<1>4. CASE UNCHANGED vars
  <2>1. /\ UNCHANGED <<channels, pc, at, awaits, call_recv_again, message, checkpointer>>
        /\ UNCHANGED <<ring, chan, f, produced, consumed>>
        /\ UNCHANGED <<iter, snapshot_in_progress, awaited_responses, snapshot, rr>>
    BY <1>4 DEF vars, channels, checkpointer
  <2>2. Before /\ SnapshotIsFresh /\ \A i \in Others : TokenInv(i)
    BY DEF AllInv, Before
  <2>3. \A q \in Nodes : Bystander(q) /\ EndsOf(q)
    BY <2>1 DEF Bystander, EndsOf
  <2>4. ChannelsInv' /\ CheckpointingTypeOK'
    <3>1. <<0, 1>> \in Conns
      BY NodeFacts, EndsOfNode
    <3>2. ChannelsInv' /\ MprotectTypeOK'
      BY <2>1, <2>2, <3>1, ChannelSteps DEF Before, CheckpointingTypeOK
    <3> QED
      BY <2>1, <2>2, <3>2 DEF Before, CheckpointingTypeOK
  <2>5. NodeInv'
    BY <2>2, <2>3, BystanderFrame DEF NodeInv
  <2>6. MulticastInv' /\ \A i \in Others : Asked(i)' = Asked(i) /\ Answered(i)' = Answered(i)
    BY <2>1, <2>2 DEF Before, MulticastInv, Multicasting, Asked, Answered
  <2>7. SnapshotIsFresh'
    BY <2>1, <2>2 DEF SnapshotIsFresh
  <2>8. ASSUME NEW i \in Others PROVE TokenInv(i)'
    <3>1. Fewer(<<0, i>>) /\ Fewer(<<i, 0>>)
      BY <2>1, EndsOfNode, FewerFrame
    <3>2. Busy(i)' => Busy(i)
      BY <2>3, BusyFrame, EndsOfNode
    <3> QED
      BY <2>1, <2>2, <2>6, <3>1, <3>2, TokenFrame
  <2> QED
    BY <2>4, <2>5, <2>6, <2>7, <2>8 DEF AllInv
<1> QED
  BY <1>1, <1>2, <1>3, <1>4 DEF Next

LEMMA AllInvAlways == Spec => []AllInv
<1>1. Init => AllInv
  BY AllInvInit
<1>2. AllInv /\ [Next]_vars => AllInv'
  BY AllInvNext
<1> QED
  BY <1>1, <1>2, PTL DEF Spec

-----------------------------------------------------------------------------
(* The theorems *)

(* The channels and the nodes keep their types: positions stay on the rings, *)
(* indices in their width and node 0 within its snapshots.                  *)
THEOREM TypeCorrect == Spec => []CheckpointingTypeOK
<1>1. AllInv => CheckpointingTypeOK
  BY DEF AllInv
<1> QED
  BY <1>1, AllInvAlways, PTL

(* send_msg never copies over a message, nor stores a header over one, that  *)
(* the other end has yet to receive, although the indices it compares wrap.  *)
THEOREM NothingOverrun == Spec => []NeverOverrun
<1>1. ASSUME AllInv PROVE NeverOverrun
  <2>1. SUFFICES ASSUME NEW c \in Conns
                 PROVE  produced[c] - consumed[Peer(c)]
                          + (IF pc[c[1]] = "header" /\ Conn(c[1]) = c THEN 1 ELSE 0) <= bufmsgs
    BY DEF NeverOverrun
  <2>2. MprotectTypeOK /\ ChannelsInv /\ HeaderOK(c[1])
    BY <1>1, ConnFacts DEF AllInv, CheckpointingTypeOK, NodeInv
  <2>3. /\ produced[c] \in Nat /\ consumed[Peer(c)] \in Nat
        /\ produced[c] <= consumed[Peer(c)] + bufmsgs
        /\ ump_can_send(c) => produced[c] + 1 < consumed[Peer(c)] + bufmsgs
    BY <2>2, ConnFacts, EndTypes, ChannelFacts
  <2>4. pc[c[1]] = "header" /\ Conn(c[1]) = c => ump_can_send(c)
    BY <2>2 DEF HeaderOK
  <2> QED
    BY <2>3, <2>4, Moduli
<1> QED
  BY <1>1, AllInvAlways, PTL

(* The test of ump_endpoint_can_recv, on the epoch bit of one slot, is true  *)
(* when there is a message and false when there is none.                    *)
THEOREM EpochsSuffice == Spec => []EpochTellsNew
<1>1. ASSUME AllInv PROVE EpochTellsNew
  <2>1. SUFFICES ASSUME NEW c \in Conns
                 PROVE  ump_endpoint_can_recv(c) <=> produced[Peer(c)] > consumed[c]
    BY DEF EpochTellsNew
  <2>2. MprotectTypeOK /\ ChannelsInv
    BY <1>1 DEF AllInv, CheckpointingTypeOK
  <2>3. produced[Peer(c)] \in Nat /\ consumed[c] \in Nat
    BY <2>2, ConnFacts, EndTypes
  <2>4. ump_endpoint_can_recv(c) <=> consumed[c] < produced[Peer(c)]
    BY <2>2, ChannelFacts
  <2> QED
    BY <2>3, <2>4
<1> QED
  BY <1>1, AllInvAlways, PTL

(* recv_msg never meets the case that its comment says should not happen: an *)
(* ack to send and no room for it, which ends the program.                  *)
THEOREM AcksCanBeSent == Spec => []AckCanBeSent
<1>1. ASSUME AllInv PROVE AckCanBeSent
  <2>1. SUFFICES ASSUME NEW p \in Nodes, pc[p] = "ack", ump_send_ack_is_needed(Conn(p))
                 PROVE  ump_can_send(Conn(p))
    BY DEF AckCanBeSent
  <2>2. MprotectTypeOK /\ ChannelsInv /\ NodeOK(p) /\ Conn(p) \in Conns
    BY <1>1, ConnOf DEF AllInv, Before, CheckpointingTypeOK, NodeInv
  <2>3. consumed[Conn(p)] >= 1
    BY <2>1, <2>2 DEF NodeOK
  <2> QED
    BY <2>1, <2>2, <2>3, ChannelFacts
<1> QED
  BY <1>1, AllInvAlways, PTL

(* recv_ack, which drops what it receives, only ever finds an ack: a blocked *)
(* send_msg loses no request and no answer.                                 *)
THEOREM NothingDropped == Spec => []RecvAckGetsAck
<1>1. ASSUME AllInv PROVE RecvAckGetsAck
  <2>1. SUFFICES ASSUME NEW p \in Nodes, pc[p] = "test", awaits[p] = "ack",
                        ump_endpoint_can_recv(Conn(p))
                 PROVE  NextMessage(Conn(p)).type = "UMP_ACK"
    BY DEF RecvAckGetsAck
  <2>2. Before /\ MprotectTypeOK /\ ChannelsInv
    BY <1>1 DEF AllInv, Before, CheckpointingTypeOK
  <2>3. PICK c \in Conns : c = Conn(p) /\ Peer(c) \in Conns /\ Peer(Peer(c)) = c
    BY <2>2, ConnOf, ConnFacts
  <2>4. /\ consumed[c] \in Nat /\ produced[Peer(c)] \in Nat
        /\ consumed[c] < produced[Peer(c)] /\ chan[c].rpos = Home(consumed[c] + 1)
    BY <2>1, <2>2, <2>3, EndTypes, ChannelFacts
  <2>5. NextMessage(c) = ring[Peer(c)][Home(consumed[c] + 1)] /\ NextMessage(c) \in Messages
    BY <2>2, <2>3, <2>4, ChannelTypes, EndTypes DEF NextMessage
  <2>6. ~InFlight(Peer(c), consumed[c] + 1)
    <3>1. consumed[c] + 1 \in Nat
      BY <2>4
    <3>2. CASE p # 0
      <4>1. p \in Others /\ Peer(c) = <<0, p>>
        BY <2>2, <2>3, <3>2, ConnOf
      <4>2. Busy(p) /\ TokenInv(p)
        BY <1>1, <2>1, <4>1 DEF Busy, WaitPcs, AllInv
      <4> QED
        BY <3>1, <4>1, <4>2 DEF TokenInv
    <3>3. CASE p = 0
      <4>1. at[0] \in Others /\ Peer(c) = <<at[0], 0>>
        BY <2>2, <2>3, <3>3, ConnOf DEF Peer
      <4>2. Multicasting /\ TokenInv(at[0])
        BY <1>1, <2>1, <3>3, <4>1 DEF Multicasting, WaitPcs, AllInv
      <4>3. ~Asked(at[0])
        <5>1. at[0] \in Nat /\ pc[0] = "test"
          BY <2>1, <3>3, <4>1, NodeFacts
        <5> QED
          BY <4>2, <5>1 DEF Asked
      <4> QED
        BY <3>1, <4>1, <4>2, <4>3 DEF TokenInv
    <3> QED
      BY <3>2, <3>3
  <2>7. consumed[c] + 1 \in consumed[c] + 1 .. produced[Peer(c)]
    BY <2>4
  <2>8. NextMessage(c).type # "UMP_MSG"
    BY <2>3, <2>5, <2>6, <2>7 DEF InFlight
  <2> QED
    BY <2>3, <2>5, <2>8 DEF Messages
<1> QED
  BY <1>1, AllInvAlways, PTL

(* A snapshot is complete when it holds the checkpoint of every node sent    *)
(* for it: no node answers twice, and no answer is counted for a later one.  *)
THEOREM SnapshotsAreFresh == Spec => []SnapshotIsFresh
<1>1. AllInv => SnapshotIsFresh
  BY DEF AllInv
<1> QED
  BY <1>1, AllInvAlways, PTL
=============================================================================
