------------------------------ MODULE UmpProofs ------------------------------
(***************************************************************************)
(* A kbfish channel of any size, with sequence numbers of any width that    *)
(* tells the messages of a ring apart, and any number of writes: the epoch  *)
(* bit tells new messages from old ones, nothing in flight is overwritten,  *)
(* and messages arrive whole and in order.                                  *)
(*                                                                         *)
(* The counters of the code wrap, so the proof follows the real counts:     *)
(* produced and consumed, and the stamp of a message, which is how many     *)
(* messages its sender had received when it stored the header.              *)
(***************************************************************************)
EXTENDS Ump, RingArithmetic

Lap == 2 * channel_size

(* A position and its epoch are one index in a ring of twice the size. *)
Place(pos, epoch) == IF epoch = 1 THEN pos ELSE pos + channel_size

(* Message n is stored in slot Home(n), with the epoch EpochOf(n). *)
Home(n) == (n - 1) % channel_size
EpochOf(n) == IF (n - 1) % Lap < channel_size THEN 1 ELSE 0

(* Messages that e has allocated a slot for *)
Allocated(e) ==
  produced[e] + (IF e = "sender" /\ pc[e] \in {"fill", "failed"} THEN 1 ELSE 0)

(* The first message that the peer of e may still be reading *)
Kept(e) == consumed[Peer(e)] + (IF pc[Peer(e)] = "deliver" THEN 0 ELSE 1)

PcInv ==
  /\ pc["sender"] \notin {"deliver", "ack"}
  /\ pc["receiver"] \notin {"check", "fill"}
  /\ \A e \in Ends :
       /\ pc[e] = "new" => produced[e] = 0 /\ consumed[e] = 0
       /\ pc[e] = "recv" => consumed[e] < produced[Peer(e)]
  /\ pc["sender"] \in {"check", "test", "queue", "sleep", "recv", "fill"}
       => produced["sender"] < MaxWrites
  /\ produced["sender"] <= MaxWrites

(* The positions and indices of both ends are the real counts, wrapped. *)
PlaceInv ==
  \A e \in Ends :
    /\ Place(spos[e], sepoch[e]) = Allocated(e) % Lap
    /\ Place(rpos[e], repoch[e]) = consumed[e] % Lap

IndexInv(stamp) ==
  \A e \in Ends :
    /\ sent_id[e] = Id(produced[e] + 1)
    /\ seq_id[e] = Id(consumed[e])
    /\ ack_id[e] = Id(stamp[Peer(e)][consumed[e]])
    /\ last_ack[e] = Id(stamp[e][produced[e]])

(* Acks are real: of messages received, in order, and each explicit ack of  *)
(* something new.                                                           *)
StampInv(stamp) ==
  /\ \A e \in Ends :
       /\ consumed[e] <= produced[Peer(e)]
       /\ stamp[e][0] = 0
       /\ \A m, n \in 0 .. produced[e] : m <= n => stamp[e][m] <= stamp[e][n]
       /\ \A n \in 0 .. produced[e] : stamp[e][n] <= consumed[e]
  /\ \A m, n \in 0 .. produced["receiver"] :
       m < n => stamp["receiver"][m] < stamp["receiver"][n]
  /\ pc["receiver"] = "deliver"
       => stamp["receiver"][produced["receiver"]] < consumed["receiver"]

(* Every message was sent, and is being filled, with one slot to spare      *)
(* after the last one its end knew to be received.                          *)
SendInv(stamp) ==
  /\ \A e \in Ends : \A n \in 1 .. produced[e] :
       n < stamp[Peer(e)][stamp[e][n]] + channel_size
  /\ pc["sender"] = "fill" =>
       produced["sender"] + 1 < stamp["receiver"][consumed["sender"]] + channel_size

(* The slot of the next message to be stored there has the other epoch. *)
EpochInv ==
  \A e \in Ends : \A n \in produced[e] + 1 .. produced[e] + channel_size :
    ring[e][Home(n)].header.epoch = 1 - EpochOf(n)

(* What is in flight is in its slot, stamped. *)
FlightInv(stamp) ==
  \A e \in Ends : \A n \in consumed[Peer(e)] + 1 .. produced[e] :
    LET header == ring[e][Home(n)].header IN
    /\ header.seq = Id(stamp[e][n])
    /\ header.type = IF e = "sender" THEN "UMP_MSG" ELSE "UMP_ACK"

(* The messages that the receiver has yet to copy out are whole, and it     *)
(* has copied out all the others.                                           *)
DataInv ==
  /\ \A n \in Kept("sender") .. produced["sender"] : ring["sender"][Home(n)].data = n
  /\ pc["sender"] = "fill" =>
       LET n == produced["sender"] + 1 IN
       /\ ump_msg["sender"] = Home(n)
       /\ ctrl["sender"] = EpochOf(n)
       /\ ring["sender"][Home(n)].data = n
  /\ pc["receiver"] = "deliver" =>
       consumed["receiver"] > 0 /\ ump_msg["receiver"] = Home(consumed["receiver"])
  /\ pc["receiver"] # "failed" =>
       Len(got) = consumed["receiver"] - (IF pc["receiver"] = "deliver" THEN 1 ELSE 0)
  /\ Len(got) <= consumed["receiver"]
  /\ \A i \in 1 .. Len(got) : got[i] = i

Stamps == [Ends -> [Nat -> Nat]]

UmpInv(stamp) ==
  /\ PcInv /\ PlaceInv /\ IndexInv(stamp) /\ StampInv(stamp) /\ SendInv(stamp)
  /\ EpochInv /\ FlightInv(stamp) /\ DataInv

-----------------------------------------------------------------------------
(* The constants, positions, epochs and indices *)

(* The range of an ump_index_t and a lap are positive numbers. *)
LEMMA Moduli ==
  /\ 2 ^ IndexBits \in Nat \ {0} /\ channel_size < 2 ^ IndexBits
  /\ channel_size \in Nat \ {0} /\ channel_size > 1
  /\ Lap \in Nat \ {0}
BY UmpAssumption DEF Lap

(* An index stays in its range. *)
LEMMA IdType == ASSUME NEW n \in Nat PROVE Id(n) \in Ids
BY Moduli, DivMod DEF Id, Ids

(* Incrementing an index is incrementing the count. *)
LEMMA IdNext == ASSUME NEW n \in Nat PROVE Id(Id(n) + 1) = Id(n + 1)
BY Moduli, NextOfIndex DEF Id

(* Indices of counts less than a range apart are subtracted exactly. *)
LEMMA IdDifference ==
  ASSUME NEW a \in Nat, NEW b \in Nat, b <= a, a - b <= channel_size
  PROVE  Id(Id(a) - Id(b)) = a - b
<1>1. a - b < 2 ^ IndexBits
  BY Moduli
<1> QED
  BY <1>1, Moduli, IndexDifference DEF Id

(* Id(1) and Id(0) are what Open stores. *)
LEMMA IdSmall == Id(0) = 0 /\ Id(1) = 1
<1>1. 0 \in 0 .. 2 ^ IndexBits - 1 /\ 1 \in 0 .. 2 ^ IndexBits - 1
  BY Moduli
<1> QED
  BY <1>1, Moduli, SmallIndex DEF Id

(* A message lives in a slot of the ring ... *)
LEMMA HomeIsSlot == ASSUME NEW n \in Nat \ {0} PROVE Home(n) \in Slots
<1>1. n - 1 \in Nat
  OBVIOUS
<1> QED
  BY <1>1, Moduli, DivMod DEF Home, Slots

(* ... which the next message to use is a ring away. *)
LEMMA HomeApart ==
  ASSUME NEW m \in Nat \ {0}, NEW n \in Nat \ {0}, m < n, n < m + channel_size
  PROVE  Home(m) # Home(n)
<1> DEFINE a == m - 1
           b == n - 1
<1>1. a \in Nat /\ b \in Nat /\ a < b /\ ~(b >= a + channel_size)
  BY Moduli
<1> HIDE DEF a, b
<1>2. a % channel_size # b % channel_size
  BY <1>1, Moduli, SameIndexFarApart
<1> QED
  BY <1>2 DEF Home, a, b

(* The message a ring later has the same slot and the other epoch. *)
LEMMA NextLap ==
  ASSUME NEW n \in Nat \ {0}
  PROVE  Home(n + channel_size) = Home(n) /\ EpochOf(n + channel_size) = 1 - EpochOf(n)
<1> DEFINE a == n - 1
           b == a + channel_size
<1>1. a \in Nat /\ b \in Nat /\ b >= channel_size /\ b - channel_size = a
      /\ n + channel_size - 1 = b /\ channel_size \in Nat \ {0}
  BY Moduli
<1> HIDE DEF a, b
<1>2. a % channel_size = b % channel_size
  BY <1>1, RingBack
<1>3. a % Lap \in 0 .. Lap - 1 /\ b % Lap \in 0 .. Lap - 1
  BY <1>1, Moduli, DivMod
<1>4. a % Lap # b % Lap
  <2>1. a < b /\ ~(b >= a + Lap)
    BY <1>1 DEF b, Lap
  <2> QED
    BY <1>1, <2>1, Moduli, SameIndexFarApart
<1>5. /\ a % channel_size = IF a % Lap < channel_size THEN a % Lap ELSE (a % Lap) - channel_size
      /\ b % channel_size = IF b % Lap < channel_size THEN b % Lap ELSE (b % Lap) - channel_size
  BY <1>1, HalfRing DEF Lap
<1>6. (a % Lap < channel_size) <=> ~(b % Lap < channel_size)
  BY <1>1, <1>2, <1>3, <1>4, <1>5
<1> QED
  BY <1>1, <1>2, <1>6 DEF Home, EpochOf, a

(* A position and its epoch are those of the message at that count ... *)
LEMMA PlaceIsHome ==
  ASSUME NEW pos \in Slots, NEW epoch \in 0 .. 1, NEW n \in Nat,
         Place(pos, epoch) = n % Lap
  PROVE  pos = Home(n + 1) /\ epoch = EpochOf(n + 1)
<1>1. n % channel_size = IF n % Lap < channel_size THEN n % Lap ELSE (n % Lap) - channel_size
  BY Moduli, HalfRing DEF Lap
<1>2. n + 1 - 1 = n
  OBVIOUS
<1>3. pos \in 0 .. channel_size - 1 /\ channel_size \in Nat
  BY Moduli DEF Slots
<1>4. epoch = 0 \/ epoch = 1
  OBVIOUS
<1> QED
  BY <1>1, <1>2, <1>3, <1>4 DEF Place, Home, EpochOf

(* ... and ump_impl_get_next moves them to the next. *)
LEMMA NextPlace ==
  ASSUME NEW pos \in Slots, NEW epoch \in 0 .. 1, NEW n \in Nat,
         Place(pos, epoch) = n % Lap
  PROVE  /\ NextPos(pos) \in Slots
         /\ NextEpoch(pos, epoch) \in 0 .. 1
         /\ Place(NextPos(pos), NextEpoch(pos, epoch)) = (n + 1) % Lap
<1>1. (n + 1) % Lap = IF (n % Lap) + 1 = Lap THEN 0 ELSE (n % Lap) + 1
  BY Moduli, NextIndex
<1>2. pos \in 0 .. channel_size - 1 /\ channel_size \in Nat \ {0} /\ channel_size > 1 /\ Lap = 2 * channel_size
  BY Moduli DEF Slots, Lap
<1>3. epoch = 0 \/ epoch = 1
  OBVIOUS
<1> QED
  BY <1>1, <1>2, <1>3 DEF Place, NextPos, NextEpoch, Slots

-----------------------------------------------------------------------------
(* What the invariant says of a state *)

(* A stamp is a count. *)
LEMMA StampType ==
  ASSUME NEW stamp \in Stamps, NEW e \in Ends, NEW n \in Nat
  PROVE  stamp[e][n] \in Nat
<1>1. stamp[e] \in [Nat -> Nat]
  BY DEF Stamps
<1> QED
  BY <1>1

(* An end is at most a window ahead of what it knows to be received. *)
LEMMA Window ==
  ASSUME NEW stamp \in Stamps, UmpTypeOK, UmpInv(stamp), NEW e \in Ends
  PROVE  LET acked == stamp[Peer(e)][consumed[e]] IN
         /\ acked \in Nat /\ acked <= produced[e] /\ acked <= consumed[Peer(e)]
         /\ produced[e] < acked + channel_size
<1> USE DEF UmpTypeOK
<1> DEFINE acked == stamp[Peer(e)][consumed[e]]
           last == stamp[e][produced[e]]
           f == Peer(e)
<1>1. f \in Ends /\ Peer(f) = e
  BY DEF Ends, Peer
<1>2. consumed[e] \in Nat /\ produced[e] \in Nat /\ consumed[f] \in Nat /\ produced[f] \in Nat
  BY <1>1
<1>3. consumed[e] \in 0 .. produced[f] /\ produced[e] \in 0 .. produced[e]
      /\ consumed[f] <= produced[e]
  BY <1>1, <1>2 DEF UmpInv, StampInv
<1>4. acked \in Nat /\ last \in Nat
  BY <1>1, <1>2, StampType
<1>5. acked <= consumed[f] /\ last <= consumed[e]
  BY <1>1, <1>3 DEF UmpInv, StampInv
<1>6. stamp[f][last] <= acked /\ stamp[f][last] \in Nat
  <2>1. last \in 0 .. produced[f] /\ last <= consumed[e]
    BY <1>2, <1>3, <1>4, <1>5
  <2>2. last \in Nat /\ stamp[f][last] \in Nat
    BY <1>1, <1>4, StampType
  <2> QED
    BY <1>1, <1>3, <2>1, <2>2 DEF UmpInv, StampInv
<1>7. produced[e] < acked + channel_size
  <2>1. CASE produced[e] = 0
    BY <2>1, <1>4, Moduli
  <2>2. CASE produced[e] # 0
    <3>1. produced[e] \in 1 .. produced[e]
      BY <1>2, <2>2
    <3>2. produced[e] < stamp[f][last] + channel_size
      BY <3>1 DEF UmpInv, SendInv
    <3> QED
      BY SMTT(20), <3>2, <1>2, <1>4, <1>6, Moduli
  <2> QED
    BY <2>1, <2>2
<1> QED
  BY <1>2, <1>3, <1>4, <1>5, <1>7

(* The test of the sender, on indices that wrap, is the test of the counts. *)
LEMMA CanSendMeans ==
  ASSUME NEW stamp \in Stamps, UmpTypeOK, UmpInv(stamp), NEW e \in Ends
  PROVE  ump_can_send(e) <=>
           produced[e] + 1 < stamp[Peer(e)][consumed[e]] + channel_size
<1> DEFINE acked == stamp[Peer(e)][consumed[e]]
<1>1. /\ acked \in Nat /\ acked <= produced[e] /\ produced[e] < acked + channel_size
      /\ produced[e] \in Nat
  BY Window DEF UmpTypeOK
<1>2. sent_id[e] = Id(produced[e] + 1) /\ ack_id[e] = Id(acked)
  BY DEF UmpInv, PlaceInv, IndexInv
<1> HIDE DEF acked
<1>3. Id(Id(produced[e] + 1) - Id(acked)) = produced[e] + 1 - acked
  BY <1>1, IdDifference, Moduli
<1> QED
  BY <1>1, <1>2, <1>3, Moduli DEF ump_can_send, acked

(* Where each end is on the rings *)
LEMMA Positions ==
  ASSUME NEW stamp \in Stamps, UmpTypeOK, UmpInv(stamp), NEW e \in Ends
  PROVE  /\ rpos[e] = Home(consumed[e] + 1) /\ repoch[e] = EpochOf(consumed[e] + 1)
         /\ spos[e] = Home(Allocated(e) + 1) /\ sepoch[e] = EpochOf(Allocated(e) + 1)
<1>1. /\ spos[e] \in Slots /\ rpos[e] \in Slots
      /\ sepoch[e] \in 0 .. 1 /\ repoch[e] \in 0 .. 1
      /\ consumed[e] \in Nat /\ produced[e] \in Nat
  BY DEF UmpTypeOK
<1>2. Allocated(e) \in Nat
  BY <1>1 DEF Allocated
<1>3. Place(spos[e], sepoch[e]) = Allocated(e) % Lap /\ Place(rpos[e], repoch[e]) = consumed[e] % Lap
  BY DEF UmpInv, PlaceInv, IndexInv
<1> QED
  BY <1>1, <1>2, <1>3, PlaceIsHome

(* The epoch bit of the next slot tells whether there is a message. *)
LEMMA SeesNew ==
  ASSUME NEW stamp \in Stamps, UmpTypeOK, UmpInv(stamp), NEW e \in Ends
  PROVE  ump_endpoint_can_recv(e) <=> consumed[e] < produced[Peer(e)]
<1> DEFINE f == Peer(e)
           n == consumed[e] + 1
<1>1. f \in Ends /\ Peer(f) = e
  BY DEF Ends, Peer
<1>2. consumed[e] \in Nat /\ produced[f] \in Nat /\ consumed[e] <= produced[f]
  BY <1>1 DEF UmpTypeOK, UmpInv, StampInv
<1>3. produced[f] < consumed[e] + channel_size
  <2>1. /\ stamp[e][consumed[f]] \in Nat
        /\ stamp[e][consumed[f]] <= consumed[e]
        /\ produced[f] < stamp[e][consumed[f]] + channel_size
    BY <1>1, Window
  <2> QED
    BY <2>1, <1>2, Moduli
<1>4. rpos[e] = Home(n) /\ repoch[e] = EpochOf(n)
  BY Positions
<1>5. CASE consumed[e] < produced[f]
  <2>1. n + channel_size \in produced[f] + 1 .. produced[f] + channel_size
    BY <1>2, <1>3, <1>5, Moduli
  <2>2. ring[f][Home(n + channel_size)].header.epoch = 1 - EpochOf(n + channel_size)
    BY <1>1, <2>1 DEF UmpInv, EpochInv
  <2>3. Home(n + channel_size) = Home(n) /\ EpochOf(n + channel_size) = 1 - EpochOf(n)
    BY <1>2, NextLap
  <2>4. EpochOf(n) \in 0 .. 1
    BY DEF EpochOf
  <2> QED
    BY <1>4, <1>5, <2>2, <2>3, <2>4 DEF ump_endpoint_can_recv
<1>6. CASE ~(consumed[e] < produced[f])
  <2>1. n \in produced[f] + 1 .. produced[f] + channel_size
    BY <1>2, <1>6, Moduli
  <2>2. ring[f][Home(n)].header.epoch = 1 - EpochOf(n)
    BY <1>1, <2>1 DEF UmpInv, EpochInv
  <2>3. EpochOf(n) \in 0 .. 1
    BY DEF EpochOf
  <2> QED
    BY <1>4, <1>6, <2>2, <2>3 DEF ump_endpoint_can_recv
<1> QED
  BY <1>5, <1>6

-----------------------------------------------------------------------------
(* Steps that only move an end in its call *)

(* Nothing but the position of an end in its call and the queue changed. *)
Quiet == UNCHANGED <<ring, spos, sepoch, rpos, repoch, index, ump_msg, ctrl,
                     produced, consumed, got>>

(* The rest of the invariant does not look at the call, except for who      *)
(* fills, delivers or failed.                                              *)
LEMMA QuietFrame ==
  ASSUME NEW stamp \in Stamps, UmpTypeOK, UmpInv(stamp), Quiet, PcInv',
         pc'["sender"] = "fill" <=> pc["sender"] = "fill",
         pc'["sender"] = "failed" <=> pc["sender"] = "failed",
         pc'["receiver"] = "deliver" <=> pc["receiver"] = "deliver",
         pc'["receiver"] = "failed" <=> pc["receiver"] = "failed"
  PROVE  UmpInv(stamp)'
<1> USE DEF UmpInv, Quiet, index, Ends
<1>1. PlaceInv' /\ IndexInv(stamp)'
  BY DEF PlaceInv, IndexInv, Allocated, Place
<1>2. StampInv(stamp)'
  BY DEF StampInv
<1>3. SendInv(stamp)'
  BY DEF SendInv
<1>4. EpochInv'
  BY DEF EpochInv
<1>5. FlightInv(stamp)'
  BY DEF FlightInv
<1>6. DataInv'
  BY DEF DataInv, Kept, Peer
<1> QED
  BY <1>1, <1>2, <1>3, <1>4, <1>5, <1>6

(* The tests, sleeps and wake-ups of both ends, the calls of read() and     *)
(* write(), and a window that is full                                      *)
LEMMA QuietSteps ==
  ASSUME NEW stamp \in Stamps, UmpTypeOK, UmpInv(stamp), NEW e \in Ends,
         \/ Release(e) \/ Test(e) \/ Sleep(e) \/ Signal(e) \/ GiveUp(e) \/ WakeUp(e)
         \/ ReadCall \/ WriteCall \/ WindowFull
  PROVE  UmpInv(stamp)'
<1>1. pc \in [Ends -> Pcs] /\ PcInv /\ (ump_endpoint_can_recv(e) <=> consumed[e] < produced[Peer(e)])
  BY SeesNew DEF UmpTypeOK, UmpInv
<1> USE DEF Goto, PcInv, Ends, Peer, Quiet, index, UmpTypeOK
<1>2. CASE Release(e)
  <2>1. Quiet /\ PcInv'
    BY <1>1, <1>2 DEF Release
  <2> QED
    BY <1>1, <1>2, <2>1, QuietFrame DEF Release
<1>3. CASE Test(e)
  <2>1. Quiet /\ PcInv'
    BY <1>1, <1>3 DEF Test
  <2> QED
    BY <1>1, <1>3, <2>1, QuietFrame DEF Test
<1>4. CASE Sleep(e)
  <2>1. Quiet /\ PcInv'
    BY <1>1, <1>4 DEF Sleep
  <2> QED
    BY <1>1, <1>4, <2>1, QuietFrame DEF Sleep
<1>5. CASE Signal(e)
  <2>1. Quiet /\ PcInv'
    BY <1>1, <1>5 DEF Signal
  <2> QED
    BY <1>1, <1>5, <2>1, QuietFrame DEF Signal
<1>6. CASE GiveUp(e)
  <2>1. Quiet /\ PcInv'
    BY <1>1, <1>6 DEF GiveUp
  <2> QED
    BY <1>1, <1>6, <2>1, QuietFrame DEF GiveUp
<1>7. CASE WakeUp(e)
  <2>1. Quiet /\ PcInv'
    BY <1>1, <1>7 DEF WakeUp
  <2> QED
    BY <1>1, <1>7, <2>1, QuietFrame DEF WakeUp
<1>8. CASE ReadCall
  <2>1. Quiet /\ PcInv'
    BY <1>1, <1>8 DEF ReadCall
  <2> QED
    BY <1>1, <1>8, <2>1, QuietFrame DEF ReadCall
<1>9. CASE WriteCall
  <2>1. Quiet /\ PcInv'
    BY <1>1, <1>9 DEF WriteCall
  <2> QED
    BY <1>1, <1>9, <2>1, QuietFrame DEF WriteCall
<1>10. CASE WindowFull
  <2>1. Quiet /\ PcInv'
    BY <1>1, <1>10 DEF WindowFull
  <2> QED
    BY <1>1, <1>10, <2>1, QuietFrame DEF WindowFull
<1> QED
  BY <1>2, <1>3, <1>4, <1>5, <1>6, <1>7, <1>8, <1>9, <1>10

-----------------------------------------------------------------------------
(* Steps of the receiver *)

(* copy_to_user: the message is whole, and the next one in order. *)
LEMMA DeliverStep ==
  ASSUME NEW stamp \in Stamps, UmpTypeOK, UmpInv(stamp), Deliver
  PROVE  UmpInv(stamp)'
<1> USE DEF UmpTypeOK, UmpInv, Deliver, Goto, Ends, index
<1> DEFINE n == consumed["receiver"]
<1>1. PcInv' /\ Peer("sender") = "receiver" /\ Peer("receiver") = "sender"
  BY DEF PcInv, Peer
<1>2. PlaceInv' /\ IndexInv(stamp)'
  BY DEF PlaceInv, IndexInv, Allocated, Place
<1>3. StampInv(stamp)'
  BY DEF StampInv
<1>4. SendInv(stamp)'
  BY DEF SendInv
<1>5. EpochInv' /\ FlightInv(stamp)'
  BY DEF EpochInv, FlightInv
<1>6. DataInv'
  <2>1. n \in Nat /\ n > 0 /\ n <= produced["sender"] /\ Len(got) = n - 1
    BY <1>1 DEF DataInv, StampInv
  <2>2. ring["sender"][ump_msg["receiver"]].data = n
    BY <1>1, <2>1 DEF DataInv, Kept
  <2>3. got' = Append(got, n) /\ Len(got') = n
    BY <2>1, <2>2
  <2>4. \A i \in 1 .. Len(got') : got'[i] = i
    BY <2>1, <2>3 DEF DataInv
  <2>5. \A m \in Kept("sender")' .. produced["sender"] : m \in Kept("sender") .. produced["sender"]
    BY <1>1, <2>1 DEF Kept
  <2> QED
    BY <1>1, <2>1, <2>3, <2>4, <2>5 DEF DataInv
<1> QED
  BY <1>1, <1>2, <1>3, <1>4, <1>5, <1>6

(* copy_to_user fails: the receiver makes no more steps. *)
LEMMA DeliverFaultStep ==
  ASSUME NEW stamp \in Stamps, UmpTypeOK, UmpInv(stamp), DeliverFault
  PROVE  UmpInv(stamp)'
<1> USE DEF UmpTypeOK, UmpInv, DeliverFault, Goto, Ends, index
<1>1. PcInv' /\ Peer("sender") = "receiver" /\ Peer("receiver") = "sender"
  BY DEF PcInv, Peer
<1>2. PlaceInv' /\ IndexInv(stamp)'
  BY DEF PlaceInv, IndexInv, Allocated, Place
<1>3. StampInv(stamp)'
  BY DEF StampInv
<1>4. SendInv(stamp)'
  BY DEF SendInv
<1>5. EpochInv' /\ FlightInv(stamp)'
  BY DEF EpochInv, FlightInv
<1>6. DataInv'
  <2>1. \A m \in Kept("sender")' .. produced["sender"] : m \in Kept("sender") .. produced["sender"]
    BY <1>1 DEF Kept
  <2> QED
    BY <1>1, <2>1 DEF DataInv
<1> QED
  BY <1>1, <1>2, <1>3, <1>4, <1>5, <1>6

-----------------------------------------------------------------------------
(* ump_impl_recv and ump_control_process *)

(* The next message is there: its stamp is what it acknowledges. *)
LEMMA RecvStep ==
  ASSUME NEW stamp \in Stamps, UmpTypeOK, UmpInv(stamp), NEW e \in Ends, Recv(e)
  PROVE  UmpInv(stamp)'
<1> USE DEF UmpTypeOK, UmpInv, Goto, index, ump_control_process
<1> DEFINE f == Peer(e)
           n == consumed[e] + 1
           header == ring[f][rpos[e]].header
<1>1. /\ f \in Ends /\ f # e /\ Peer(f) = e
      /\ Ends = {"sender", "receiver"}
      /\ Peer("sender") = "receiver" /\ Peer("receiver") = "sender"
  BY DEF Ends, Peer
<1>2. /\ pc[e] = "recv" /\ consumed[e] < produced[f]
      /\ consumed[e] \in Nat /\ produced[f] \in Nat
  BY <1>1 DEF Recv, PcInv
<1>3. rpos[e] = Home(n)
  BY Positions
<1>4. /\ header.seq = Id(stamp[f][n])
      /\ header.type = IF f = "sender" THEN "UMP_MSG" ELSE "UMP_ACK"
  <2>1. n \in consumed[e] + 1 .. produced[f]
    BY <1>2
  <2> QED
    BY <1>1, <1>3, <2>1 DEF FlightInv
<1>5. /\ consumed' = [consumed EXCEPT ![e] = n]
      /\ ack_id' = [ack_id EXCEPT ![e] = header.seq]
      /\ seq_id' = [seq_id EXCEPT ![e] = Id(@ + 1)]
      /\ rpos' = [rpos EXCEPT ![e] = NextPos(@)]
      /\ repoch' = [repoch EXCEPT ![e] = NextEpoch(rpos[e], @)]
      /\ ump_msg' = [ump_msg EXCEPT ![e] = rpos[e]]
      /\ pc' = [pc EXCEPT ![e] = IF e = "sender" THEN "check" ELSE "deliver"]
      /\ UNCHANGED <<ring, spos, sepoch, sent_id, last_ack, ctrl, produced, got>>
  <2>1. CASE e = "sender"
    <3>1. header.type = "UMP_ACK"
      BY <1>1, <1>4, <2>1
    <3> QED
      BY <2>1, <3>1 DEF Recv
  <2>2. CASE e = "receiver"
    <3>1. header.type = "UMP_MSG"
      BY <1>1, <1>4, <2>2
    <3> QED
      BY <2>2, <3>1 DEF Recv
  <2> QED
    BY <1>1, <2>1, <2>2
<1> HIDE DEF header
<1>6. PcInv'
  BY <1>1, <1>2, <1>5 DEF PcInv
<1>7. PlaceInv'
  <2>1. Place(NextPos(rpos[e]), NextEpoch(rpos[e], repoch[e])) = n % Lap
    <3>1. rpos[e] \in Slots /\ repoch[e] \in 0 .. 1
      OBVIOUS
    <3>2. Place(rpos[e], repoch[e]) = consumed[e] % Lap
      BY DEF PlaceInv
    <3> QED
      BY <1>2, <3>1, <3>2, NextPlace
  <2>2. \A x \in Ends : Allocated(x)' = Allocated(x)
    BY <1>1, <1>2, <1>5 DEF Allocated
  <2> QED
    BY <1>1, <1>5, <2>1, <2>2 DEF PlaceInv
<1>8. IndexInv(stamp)'
  <2>1. Id(seq_id[e] + 1) = Id(n)
    BY <1>2, IdNext DEF IndexInv
  <2> QED
    BY <1>1, <1>4, <1>5, <2>1 DEF IndexInv
<1>9. StampInv(stamp)'
  <2>1. \A m \in 0 .. produced[e] : stamp[e][m] \in Nat /\ stamp[e][m] <= consumed[e]
    BY StampType DEF StampInv
  <2>2. produced[e] \in 0 .. produced[e]
    OBVIOUS
  <2> QED
    BY <1>1, <1>2, <1>5, <2>1, <2>2 DEF StampInv
<1>10. SendInv(stamp)'
  BY <1>1, <1>5 DEF SendInv
<1>11. EpochInv'
  BY <1>5 DEF EpochInv
<1>12. FlightInv(stamp)'
  BY <1>1, <1>2, <1>5 DEF FlightInv
<1>13. DataInv'
  <2>1. CASE e = "sender"
    BY <1>1, <1>2, <1>5, <2>1 DEF DataInv, Kept
  <2>2. CASE e = "receiver"
    <3>1. Kept("sender")' = Kept("sender") /\ Kept("sender") = n
      BY <1>1, <1>2, <1>5, <2>2 DEF Kept
    <3> QED
      BY <1>1, <1>2, <1>3, <1>5, <2>2, <3>1 DEF DataInv
  <2> QED
    BY <1>1, <2>1, <2>2
<1> QED
  BY <1>6, <1>7, <1>8, <1>9, <1>10, <1>11, <1>12, <1>13

-----------------------------------------------------------------------------
(* ump_control_fill: a message and its header *)

(* All but the last of the messages a window ahead are less than a ring ahead. *)
LEMMA InsideWindow ==
  ASSUME NEW c \in Nat, NEW n \in Nat, NEW m \in n + 1 .. n + c, m # n + c
  PROVE  m \in Nat \ {0} /\ n < m /\ m < n + c
OBVIOUS

(* The store of a header makes message n = produced[e] + 1 visible, with    *)
(* the stamp of what e has received; nothing else looks at its slot.        *)
LEMMA SendStep ==
  ASSUME NEW stamp \in Stamps, NEW new \in Stamps,
         UmpTypeOK, UmpInv(stamp), NEW e \in Ends,
         new = [stamp EXCEPT ![e] = [@ EXCEPT ![produced[e] + 1] = consumed[e]]],
         Send(e, Home(produced[e] + 1), EpochOf(produced[e] + 1),
              IF e = "sender" THEN "UMP_MSG" ELSE "UMP_ACK"),
         pc' = [pc EXCEPT ![e] = "wake"],
         UNCHANGED <<seq_id, ack_id, consumed>>,
         produced[e] + 1 < stamp[Peer(e)][consumed[e]] + channel_size,
         e = "receiver" => stamp[e][produced[e]] < consumed[e]
  PROVE  /\ StampInv(new)' /\ SendInv(new)' /\ IndexInv(new)'
         /\ EpochInv' /\ FlightInv(new)'
<1> USE DEF UmpTypeOK, UmpInv, Send
<1> DEFINE f == Peer(e)
           n == produced[e] + 1
<1>1. /\ f \in Ends /\ f # e /\ f = Peer(e) /\ Peer(f) = e /\ Ends = {e, f}
      /\ e = "receiver" => f = "sender"
      /\ Ends = {"sender", "receiver"}
      /\ Peer("sender") = "receiver" /\ Peer("receiver") = "sender"
  BY DEF Ends, Peer
<1>2. /\ produced[e] \in Nat /\ consumed[e] \in Nat /\ n \in Nat \ {0}
      /\ produced[f] \in Nat /\ consumed[f] \in Nat
      /\ consumed[f] <= produced[e] /\ consumed[e] <= produced[f]
      /\ consumed[f] \in 0 .. produced[e] /\ produced[e] \in 0 .. produced[e]
      /\ n = produced[e] + 1
  BY <1>1 DEF StampInv
<1>14. channel_size \in Nat /\ channel_size > 1 /\ n < consumed[f] + channel_size
  <2>1. /\ stamp[f][consumed[e]] \in Nat /\ stamp[f][consumed[e]] <= consumed[f]
        /\ channel_size \in Nat /\ channel_size > 1
    BY Window, Moduli
  <2> QED
    BY <1>2, <2>1
<1>3. /\ produced' = [produced EXCEPT ![e] = n]
      /\ produced'[e] = n /\ produced'[f] = produced[f] /\ consumed' = consumed
  BY <1>1
<1>4. \A x \in Ends : new[x] \in [Nat -> Nat] /\ stamp[x] \in [Nat -> Nat]
  BY DEF Stamps
<1>5. /\ new[f] = stamp[f] /\ new[e][n] = consumed[e]
      /\ \A m \in Nat : m # n => new[e][m] = stamp[e][m]
  <2>1. stamp[e] \in [Nat -> Nat] /\ stamp \in [Ends -> [Nat -> Nat]] /\ n \in Nat
    BY <1>2, <1>4 DEF Stamps
  <2> QED
    BY <1>1, <2>1
<1>6. \A x \in Ends, m \in Nat : stamp[x][m] \in Nat
  BY StampType
<1>7. \A m \in 0 .. produced[e] : new[e][m] = stamp[e][m]
  BY <1>2, <1>5
<1> HIDE DEF n, f
<1>8. StampInv(new)'
  <2>1. \A m \in 0 .. n : m = n \/ m \in 0 .. produced[e]
    BY <1>2 DEF n
  <2>2. \A m \in 0 .. produced[e] : m < n /\ m # n /\ m <= produced[e]
    BY <1>2 DEF n
  <2>3. /\ \A m \in 0 .. produced[e] : new[e][m] <= consumed[e]
        /\ \A m, k \in 0 .. produced[e] : m <= k => new[e][m] <= new[e][k]
        /\ new[e][0] = 0
    BY SMTT(20), <1>2, <1>7 DEF StampInv
  <2>4. new[e][n] <= consumed[e]
    BY <1>2, <1>5
  <2>5. /\ \A m \in 0 .. n : new[e][m] <= consumed[e]
        /\ \A m, k \in 0 .. n : m <= k => new[e][m] <= new[e][k]
    <3>1. \A m \in 0 .. n : new[e][m] <= new[e][n]
      BY <1>5, <2>1, <2>3, <2>4
    <3>2. \A k \in 0 .. n : n <= k => k = n
      BY <1>2
    <3> QED
      BY <1>5, <2>1, <2>3, <2>4, <3>1, <3>2
  <2>6. e = "receiver" => \A m, k \in 0 .. n : m < k => new[e][m] < new[e][k]
    <3>1. SUFFICES ASSUME e = "receiver", NEW m \in 0 .. n, NEW k \in 0 .. n, m < k
                   PROVE  new[e][m] < new[e][k]
      OBVIOUS
    <3>2. m \in 0 .. produced[e]
      BY <1>2, <3>1 DEF n
    <3>3. CASE k = n
      <4>1. stamp[e][m] <= stamp[e][produced[e]] /\ stamp[e][m] \in Nat
            /\ stamp[e][produced[e]] \in Nat
        <5>1. m <= produced[e] /\ m \in Nat
          BY <1>2, <3>2
        <5> QED
          BY <1>2, <1>6, <3>2, <5>1 DEF StampInv
      <4> QED
        BY SMTT(20), <1>2, <1>5, <1>7, <3>1, <3>2, <3>3, <4>1
    <3>4. CASE k # n
      <4>1. k \in 0 .. produced[e]
        BY <1>2, <3>4 DEF n
      <4> QED
        BY <1>7, <3>1, <3>2, <4>1 DEF StampInv
    <3> QED
      BY <3>3, <3>4
  <2>7. pc' = [pc EXCEPT ![e] = "wake"] /\ pc \in [Ends -> Pcs]
    OBVIOUS
  <2> QED
    BY <1>1, <1>2, <1>3, <1>5, <2>3, <2>5, <2>6, <2>7 DEF StampInv
<1>9. SendInv(new)'
  <2>1. \A m \in 1 .. produced[f] : stamp[f][m] \in 0 .. produced[e]
    BY <1>1, <1>2, <1>6 DEF StampInv
  <2>2. \A m \in 1 .. produced[f] : m < new[e][new[f][m]] + channel_size
    BY <1>1, <1>5, <1>7, <2>1 DEF SendInv
  <2>3. n < new[f][new[e][n]] + channel_size
    BY <1>5 DEF n, f
  <2>4. \A m \in 1 .. produced[e] : m < new[f][new[e][m]] + channel_size
    <3>1. \A m \in 1 .. produced[e] : m \in 0 .. produced[e]
      BY <1>2
    <3> QED
      BY <1>1, <1>5, <1>7, <3>1 DEF SendInv
  <2>5. \A m \in 1 .. n : m = n \/ m \in 1 .. produced[e]
    BY <1>2 DEF n
  <2>6. e = "receiver" => new["receiver"][consumed["sender"]] = stamp["receiver"][consumed["sender"]]
    BY <1>1, <1>2, <1>7
  <2> QED
    BY <1>1, <1>2, <1>3, <2>2, <2>3, <2>4, <2>5, <2>6 DEF SendInv
<1>10. IndexInv(new)'
  <2>1. sent_id[e] = Id(n) /\ Id(sent_id[e] + 1) = Id(n + 1)
    BY <1>2, IdNext DEF IndexInv, n
  <2>2. seq_id[e] = Id(consumed[e]) /\ seq_id[e] = Id(new[e][n])
    BY <1>5 DEF IndexInv
  <2>3. new[e][consumed[f]] = stamp[e][consumed[f]]
    BY <1>2, <1>7
  <2> QED
    BY <1>1, <1>2, <1>3, <1>5, <2>1, <2>2, <2>3 DEF IndexInv
<1>11. ring'[f] = ring[f] /\ ring'[e][Home(n)].header =
         [epoch |-> EpochOf(n), type |-> IF e = "sender" THEN "UMP_MSG" ELSE "UMP_ACK",
          seq |-> seq_id[e]]
       /\ \A s \in Slots : s # Home(n) => ring'[e][s] = ring[e][s]
  BY <1>1, <1>2, HomeIsSlot DEF n
<1>12. EpochInv'
  <2>1. \A m \in n + 1 .. n + channel_size :
          ring'[e][Home(m)].header.epoch = 1 - EpochOf(m)
    <3>1. SUFFICES ASSUME NEW m \in n + 1 .. n + channel_size
                   PROVE  ring'[e][Home(m)].header.epoch = 1 - EpochOf(m)
      OBVIOUS
    <3>2. CASE m = n + channel_size
      <4>1. Home(m) = Home(n) /\ EpochOf(m) = 1 - EpochOf(n) /\ EpochOf(n) \in 0 .. 1
        BY <1>2, <3>2, NextLap DEF EpochOf
      <4> QED
        BY <1>11, <4>1
    <3>3. CASE m # n + channel_size
      <4>1. m \in Nat \ {0} /\ n < m /\ m < n + channel_size
        <5>1. n \in Nat /\ channel_size \in Nat /\ m \in n + 1 .. n + channel_size
          BY <1>2, <1>14
        <5> QED
          BY <5>1, <3>3, InsideWindow
      <4>2. Home(m) \in Slots /\ Home(m) # Home(n)
        BY <1>2, <4>1, HomeApart, HomeIsSlot
      <4>3. m \in produced[e] + 1 .. produced[e] + channel_size
        BY <1>2, <4>1, Moduli DEF n
      <4> QED
        BY <1>11, <4>2, <4>3 DEF EpochInv
    <3> QED
      BY <3>2, <3>3
  <2> QED
    BY <1>1, <1>3, <1>11, <2>1 DEF EpochInv
<1>13. FlightInv(new)'
  <2>1. ASSUME NEW m \in consumed[f] + 1 .. n
        PROVE  /\ ring'[e][Home(m)].header.seq = Id(new[e][m])
               /\ ring'[e][Home(m)].header.type = IF e = "sender" THEN "UMP_MSG" ELSE "UMP_ACK"
    <3>1. CASE m = n
      <4>1. seq_id[e] = Id(consumed[e])
        BY DEF IndexInv
      <4> QED
        BY <1>5, <1>11, <3>1, <4>1
    <3>2. CASE m # n
      <4>1. m \in Nat \ {0} /\ m < n /\ n < m + channel_size
        BY <1>2, <1>14, <2>1, <3>2
      <4>2. Home(m) \in Slots /\ Home(m) # Home(n)
        BY <1>2, <4>1, HomeApart, HomeIsSlot
      <4>3. m \in consumed[f] + 1 .. produced[e] /\ m \in 0 .. produced[e]
        BY <1>2, <2>1, <3>2 DEF n
      <4> QED
        BY <1>1, <1>7, <1>11, <4>2, <4>3 DEF FlightInv
    <3> QED
      BY <3>1, <3>2
  <2> QED
    BY <1>1, <1>3, <1>5, <1>11, <2>1 DEF FlightInv
<1> QED
  BY <1>8, <1>9, <1>10, <1>12, <1>13

(* The sender stores the header of the message it copied in. *)
LEMMA FillStep ==
  ASSUME NEW stamp \in Stamps, UmpTypeOK, UmpInv(stamp), Fill
  PROVE  \E new \in Stamps : UmpInv(new)'
<1> DEFINE n == produced["sender"] + 1
<1>1. /\ "sender" \in Ends /\ "receiver" \in Ends
      /\ Peer("sender") = "receiver" /\ Peer("receiver") = "sender"
      /\ \A e \in Ends : e = "sender" \/ e = "receiver"
  BY DEF Ends, Peer
<1>2. /\ pc["sender"] = "fill" /\ pc' = [pc EXCEPT !["sender"] = "wake"]
      /\ Send("sender", ump_msg["sender"], ctrl["sender"], "UMP_MSG")
      /\ UNCHANGED <<rq, spos, sepoch, rpos, repoch, seq_id, ack_id, ump_msg, ctrl,
                      consumed, got>>
  BY DEF Fill, Goto
<1>3. /\ ump_msg["sender"] = Home(n) /\ ctrl["sender"] = EpochOf(n)
      /\ ring["sender"][Home(n)].data = n
  BY <1>2 DEF UmpInv, DataInv
<1>4. n < stamp["receiver"][consumed["sender"]] + channel_size
  BY <1>2 DEF UmpInv, SendInv
<1>5. produced["sender"] \in Nat /\ consumed["sender"] \in Nat /\ n \in Nat \ {0}
  BY <1>1 DEF UmpTypeOK
<1>6. PICK new \in Stamps :
        new = [stamp EXCEPT !["sender"] = [@ EXCEPT ![produced["sender"] + 1] = consumed["sender"]]]
  <2>1. stamp["sender"] \in [Nat -> Nat] /\ produced["sender"] + 1 \in Nat
    BY <1>1, <1>5 DEF Stamps
  <2>2. [stamp["sender"] EXCEPT ![produced["sender"] + 1] = consumed["sender"]] \in [Nat -> Nat]
    BY <1>5, <2>1
  <2> QED
    BY <1>1, <2>2 DEF Stamps
<1>7. /\ StampInv(new)' /\ SendInv(new)' /\ IndexInv(new)'
      /\ EpochInv' /\ FlightInv(new)'
  BY <1>1, <1>2, <1>3, <1>4, <1>6, SendStep
<1>8. /\ produced' = [produced EXCEPT !["sender"] = n]
      /\ ring' = [ring EXCEPT !["sender"][Home(n)].header =
                     [epoch |-> EpochOf(n), type |-> "UMP_MSG", seq |-> seq_id["sender"]]]
  BY <1>2, <1>3 DEF Send
<1>9. PcInv'
  <2>1. produced'["sender"] = n /\ produced'["receiver"] = produced["receiver"]
    BY <1>1, <1>8 DEF UmpTypeOK
  <2>2. n <= MaxWrites
    BY <1>2, <1>5, UmpAssumption DEF UmpInv, PcInv
  <2>3. pc'["sender"] = "wake" /\ pc'["receiver"] = pc["receiver"] /\ consumed' = consumed
    BY <1>1, <1>2 DEF UmpTypeOK
  <2>4. \A e \in Ends :
          /\ pc'[e] = "new" => produced'[e] = 0 /\ consumed'[e] = 0
          /\ pc'[e] = "recv" => consumed'[e] < produced'[Peer(e)]
    <3>1. pc["receiver"] = "new" => produced["receiver"] = 0 /\ consumed["receiver"] = 0
      BY <1>1 DEF UmpInv, PcInv
    <3>2. pc["receiver"] = "recv" => consumed["receiver"] < n
      BY <1>1, <1>5 DEF UmpInv, PcInv, UmpTypeOK
    <3> QED
      BY <1>1, <2>1, <2>3, <3>1, <3>2
  <2> QED
    BY <2>1, <2>2, <2>3, <2>4 DEF UmpInv, PcInv
<1>10. PlaceInv'
  <2>1. \A e \in Ends : Allocated(e)' = Allocated(e)
    BY <1>1, <1>2, <1>5, <1>8 DEF Allocated, UmpTypeOK
  <2> QED
    BY <1>2, <2>1 DEF UmpInv, PlaceInv, Place
<1>11. DataInv'
  <2>1. \A x \in Slots : ring'["sender"][x].data = ring["sender"][x].data
    BY <1>1, <1>5, <1>8, HomeIsSlot DEF UmpTypeOK
  <2>2. Kept("sender")' = Kept("sender") /\ Kept("sender") \in Nat
    BY <1>1, <1>2 DEF Kept, UmpTypeOK
  <2>3. Kept("sender") > 0
    BY <1>1, <2>2 DEF UmpInv, DataInv, Kept, UmpTypeOK
  <2>4. ASSUME NEW m \in Kept("sender") .. n PROVE ring'["sender"][Home(m)].data = m
    <3>1. m \in Nat \ {0} /\ (m = n \/ m \in Kept("sender") .. produced["sender"])
      BY <1>5, <2>2, <2>3
    <3>2. ring'["sender"][Home(m)].data = ring["sender"][Home(m)].data
      BY <2>1, <3>1, HomeIsSlot
    <3> QED
      BY <1>3, <3>1, <3>2 DEF UmpInv, DataInv
  <2>5. produced'["sender"] = n
    BY <1>1, <1>8 DEF UmpTypeOK
  <2> QED
    BY <1>1, <1>2, <2>2, <2>4, <2>5 DEF UmpInv, DataInv, UmpTypeOK
<1> QED
  BY <1>7, <1>9, <1>10, <1>11 DEF UmpInv

(* An explicit ack says something new, and moves the receiver's own ring. *)
LEMMA AckStep ==
  ASSUME NEW stamp \in Stamps, UmpTypeOK, UmpInv(stamp), Ack
  PROVE  \E new \in Stamps : UmpInv(new)'
<1> DEFINE r == "receiver"
           n == produced[r] + 1
<1>1. /\ "sender" \in Ends /\ r \in Ends
      /\ Peer("sender") = r /\ Peer(r) = "sender"
      /\ \A e \in Ends : e = "sender" \/ e = r
  BY DEF Ends, Peer
<1>2. pc[r] = "ack"
  BY DEF Ack
<1>3. CASE ~(ump_send_ack_is_needed(r) /\ ump_can_send(r))
  <2>1. Quiet /\ pc' = [pc EXCEPT ![r] = "idle"]
    BY <1>3 DEF Ack, Quiet, Goto, index
  <2>2. PcInv'
    BY <1>1, <1>2, <2>1 DEF UmpInv, PcInv, Quiet, UmpTypeOK
  <2> QED
    BY <1>1, <1>2, <2>1, <2>2, QuietFrame DEF UmpTypeOK
<1>4. CASE ump_send_ack_is_needed(r) /\ ump_can_send(r)
  <2>1. /\ ump_impl_get_next(r)
        /\ Send(r, spos[r], sepoch[r], "UMP_ACK")
        /\ pc' = [pc EXCEPT ![r] = "wake"]
        /\ UNCHANGED <<rq, rpos, repoch, seq_id, ack_id, ump_msg, ctrl, consumed, got>>
    BY <1>4 DEF Ack, Goto
  <2>2. produced[r] \in Nat /\ consumed[r] \in Nat /\ n \in Nat \ {0} /\ Allocated(r) = produced[r]
    BY <1>1 DEF UmpTypeOK, Allocated
  <2>3. spos[r] = Home(n) /\ sepoch[r] = EpochOf(n)
    BY <1>1, <2>2, Positions
  <2>4. n < stamp[Peer(r)][consumed[r]] + channel_size
    BY <1>1, <1>4, CanSendMeans
  <2>5. stamp[r][produced[r]] < consumed[r]
    <3>1. stamp[r][produced[r]] \in Nat /\ stamp[r][produced[r]] <= consumed[r]
      BY <1>1, <2>2, StampType DEF UmpInv, StampInv
    <3>2. seq_id[r] = Id(consumed[r]) /\ last_ack[r] = Id(stamp[r][produced[r]])
      BY <1>1 DEF UmpInv, IndexInv
    <3>3. CASE stamp[r][produced[r]] = consumed[r]
      <4>1. Id(Id(consumed[r]) - Id(consumed[r])) = 0
        BY <2>2, IdDifference, Moduli
      <4> QED
        BY <1>4, <3>2, <3>3, <4>1, Moduli DEF ump_send_ack_is_needed
    <3> QED
      BY <2>2, <3>1, <3>3
  <2>6. PICK new \in Stamps :
          new = [stamp EXCEPT ![r] = [@ EXCEPT ![produced[r] + 1] = consumed[r]]]
    <3>1. stamp[r] \in [Nat -> Nat] /\ produced[r] + 1 \in Nat
      BY <1>1, <2>2 DEF Stamps
    <3>2. [stamp[r] EXCEPT ![produced[r] + 1] = consumed[r]] \in [Nat -> Nat]
      BY <2>2, <3>1
    <3> QED
      BY <1>1, <3>2 DEF Stamps
  <2>7. /\ StampInv(new)' /\ SendInv(new)' /\ IndexInv(new)'
        /\ EpochInv' /\ FlightInv(new)'
    BY <1>1, <2>1, <2>3, <2>4, <2>5, <2>6, SendStep
  <2>8. /\ produced' = [produced EXCEPT ![r] = n]
        /\ ring' = [ring EXCEPT ![r][Home(n)].header =
                       [epoch |-> EpochOf(n), type |-> "UMP_ACK", seq |-> seq_id[r]]]
    BY <2>1, <2>3 DEF Send
  <2>9. PcInv'
    BY <1>1, <1>2, <2>1, <2>2, <2>8 DEF UmpInv, PcInv, UmpTypeOK
  <2>10. PlaceInv'
    <3>1. Place(NextPos(spos[r]), NextEpoch(spos[r], sepoch[r])) = n % Lap
      <4>1. Place(spos[r], sepoch[r]) = produced[r] % Lap
        BY <1>1, <2>2 DEF UmpInv, PlaceInv
      <4>2. spos[r] \in Slots /\ sepoch[r] \in 0 .. 1
        BY <1>1 DEF UmpTypeOK
      <4> QED
        BY <2>2, <4>1, <4>2, NextPlace
    <3>2. /\ spos' = [spos EXCEPT ![r] = NextPos(@)]
          /\ sepoch' = [sepoch EXCEPT ![r] = NextEpoch(spos[r], @)]
      BY <2>1 DEF ump_impl_get_next
    <3>3. Allocated(r)' = n /\ Allocated("sender")' = Allocated("sender")
      BY <1>1, <2>1, <2>2, <2>8 DEF Allocated, UmpTypeOK
    <3> QED
      BY <1>1, <2>1, <3>1, <3>2, <3>3 DEF UmpInv, PlaceInv, UmpTypeOK
  <2>11. DataInv'
    <3>1. ring'["sender"] = ring["sender"] /\ produced'["sender"] = produced["sender"]
      BY <1>1, <2>8 DEF UmpTypeOK
    <3>2. Kept("sender")' = Kept("sender")
      BY <1>1, <1>2, <2>1 DEF Kept, UmpTypeOK
    <3> QED
      BY <1>1, <1>2, <2>1, <3>1, <3>2 DEF UmpInv, DataInv, UmpTypeOK
  <2> QED
    BY <2>7, <2>9, <2>10, <2>11 DEF UmpInv
<1> QED
  BY <1>3, <1>4

-----------------------------------------------------------------------------
(* ump_impl_get_next, and the copy of a message into the ring *)

(* What the sender knows to be received, the receiver no longer reads. *)
LEMMA AckedIsNotKept ==
  ASSUME NEW stamp \in Stamps, UmpTypeOK, UmpInv(stamp)
  PROVE  /\ stamp["receiver"][consumed["sender"]] \in Nat
         /\ Kept("sender") \in Nat
         /\ stamp["receiver"][consumed["sender"]] < Kept("sender")
<1> DEFINE acked == stamp["receiver"][consumed["sender"]]
           last == stamp["receiver"][produced["receiver"]]
<1>1. /\ "sender" \in Ends /\ "receiver" \in Ends
      /\ Peer("sender") = "receiver" /\ Peer("receiver") = "sender"
  BY DEF Ends, Peer
<1>2. /\ consumed["sender"] \in Nat /\ consumed["receiver"] \in Nat
      /\ produced["receiver"] \in Nat
  BY <1>1 DEF UmpTypeOK
<1>3. acked \in Nat /\ last \in Nat
  BY <1>1, <1>2, StampType
<1>4. consumed["sender"] <= produced["receiver"]
  BY <1>1 DEF UmpInv, StampInv
<1>5. acked <= last /\ last <= consumed["receiver"]
  <2>1. /\ consumed["sender"] \in 0 .. produced["receiver"]
        /\ produced["receiver"] \in 0 .. produced["receiver"]
    BY <1>2, <1>4
  <2> QED
    BY <1>1, <1>4, <2>1 DEF UmpInv, StampInv
<1>6. pc["receiver"] = "deliver" => last < consumed["receiver"]
  BY DEF UmpInv, StampInv
<1> QED
  BY <1>1, <1>2, <1>3, <1>5, <1>6 DEF Kept

(* The message is copied into a slot that nobody reads. *)
LEMMA CopyStep ==
  ASSUME NEW stamp \in Stamps, UmpTypeOK, UmpInv(stamp), Copy \/ CopyFault
  PROVE  UmpInv(stamp)'
<1> DEFINE n == produced["sender"] + 1
<1>1. /\ "sender" \in Ends /\ "receiver" \in Ends
      /\ Peer("sender") = "receiver" /\ Peer("receiver") = "sender"
      /\ \A e \in Ends : e = "sender" \/ e = "receiver"
  BY DEF Ends, Peer
<1>2. /\ pc["sender"] = "check" /\ ump_can_send("sender")
      /\ spos' = [spos EXCEPT !["sender"] = NextPos(@)]
      /\ sepoch' = [sepoch EXCEPT !["sender"] = NextEpoch(spos["sender"], @)]
      /\ pc' \in {[pc EXCEPT !["sender"] = "fill"], [pc EXCEPT !["sender"] = "failed"]}
      /\ UNCHANGED <<rq, rpos, repoch, sent_id, seq_id, ack_id, last_ack,
                      produced, consumed, got>>
  BY DEF Copy, CopyFault, ump_impl_get_next, Goto, index
<1>3. /\ produced["sender"] \in Nat /\ consumed["sender"] \in Nat /\ n \in Nat \ {0}
      /\ Allocated("sender") = produced["sender"]
  BY <1>1, <1>2 DEF UmpTypeOK, Allocated
<1>4. n < stamp["receiver"][consumed["sender"]] + channel_size
  BY <1>1, <1>2, CanSendMeans
<1>5. spos["sender"] = Home(n) /\ sepoch["sender"] = EpochOf(n) /\ Home(n) \in Slots
  BY <1>1, <1>3, Positions, HomeIsSlot
<1>6. \A e \in Ends, x \in Slots : ring'[e][x].header = ring[e][x].header
  <2>1. CASE Copy
    <3>1. ring' = [ring EXCEPT !["sender"][Home(n)].data = n]
      BY <1>5, <2>1 DEF Copy
    <3>2. ring["sender"] \in [Slots -> [header : Headers, data : Bodies]]
      BY <1>1 DEF UmpTypeOK
    <3> QED
      BY <1>1, <1>5, <3>1, <3>2 DEF UmpTypeOK
  <2>2. CASE CopyFault
    BY <2>2 DEF CopyFault
  <2> QED
    BY <2>1, <2>2
<1>7. PcInv'
  BY <1>1, <1>2 DEF UmpInv, PcInv, UmpTypeOK
<1>8. PlaceInv'
  <2>1. Place(NextPos(spos["sender"]), NextEpoch(spos["sender"], sepoch["sender"])) = n % Lap
    <3>1. Place(spos["sender"], sepoch["sender"]) = produced["sender"] % Lap
      BY <1>1, <1>3 DEF UmpInv, PlaceInv
    <3>2. spos["sender"] \in Slots /\ sepoch["sender"] \in 0 .. 1
      BY <1>1 DEF UmpTypeOK
    <3> QED
      BY <1>3, <3>1, <3>2, NextPlace
  <2>2. Allocated("sender")' = n /\ Allocated("receiver")' = Allocated("receiver")
    BY <1>1, <1>2, <1>3 DEF Allocated, UmpTypeOK
  <2> QED
    BY <1>1, <1>2, <2>1, <2>2 DEF UmpInv, PlaceInv, UmpTypeOK
<1>9. IndexInv(stamp)'
  BY <1>2 DEF UmpInv, IndexInv
<1>10. StampInv(stamp)'
  BY <1>1, <1>2 DEF UmpInv, StampInv, UmpTypeOK
<1>11. SendInv(stamp)'
  BY <1>1, <1>2, <1>4 DEF UmpInv, SendInv
<1>12. EpochInv'
  <2>1. ASSUME NEW e \in Ends, NEW m \in produced[e] + 1 .. produced[e] + channel_size
        PROVE  ring'[e][Home(m)].header.epoch = 1 - EpochOf(m)
    <3>1. m \in Nat \ {0}
      BY Moduli DEF UmpTypeOK
    <3> QED
      BY <1>6, <3>1, HomeIsSlot DEF UmpInv, EpochInv
  <2> QED
    BY <1>2, <2>1 DEF EpochInv
<1>13. FlightInv(stamp)'
  <2>1. ASSUME NEW e \in Ends, NEW m \in consumed[Peer(e)] + 1 .. produced[e]
        PROVE  ring'[e][Home(m)].header = ring[e][Home(m)].header
    <3>1. m \in Nat \ {0}
      <4>1. Peer(e) \in Ends
        BY <1>1
      <4> QED
        BY <4>1 DEF UmpTypeOK
    <3> QED
      BY <1>6, <3>1, HomeIsSlot
  <2> QED
    BY <1>2, <2>1 DEF UmpInv, FlightInv
<1>14. Kept("sender")' = Kept("sender")
  BY <1>1, <1>2 DEF Kept, UmpTypeOK
<1>15. CASE Copy
  <2>1. /\ ring' = [ring EXCEPT !["sender"][Home(n)].data = n]
        /\ ump_msg' = [ump_msg EXCEPT !["sender"] = Home(n)]
        /\ ctrl' = [ctrl EXCEPT !["sender"] = EpochOf(n)]
        /\ pc' = [pc EXCEPT !["sender"] = "fill"]
    BY <1>5, <1>15 DEF Copy, Goto
  <2>2. ring'["sender"][Home(n)].data = n
    BY <1>1, <1>5, <2>1 DEF UmpTypeOK
  <2>3. ASSUME NEW m \in Kept("sender") .. produced["sender"]
        PROVE  ring'["sender"][Home(m)].data = m
    <3>1. m \in Nat \ {0} /\ m < n /\ n < m + channel_size
      BY <1>3, <1>4, AckedIsNotKept, Moduli
    <3>2. Home(m) # Home(n) /\ Home(m) \in Slots
      BY <1>3, <3>1, HomeApart, HomeIsSlot
    <3> QED
      BY <1>1, <1>5, <2>1, <3>2 DEF UmpInv, DataInv, UmpTypeOK
  <2>4. DataInv'
    BY <1>1, <1>2, <1>14, <2>1, <2>2, <2>3 DEF UmpInv, DataInv, UmpTypeOK
  <2> QED
    BY <1>7, <1>8, <1>9, <1>10, <1>11, <1>12, <1>13, <2>4 DEF UmpInv
<1>16. CASE CopyFault
  <2>1. pc' = [pc EXCEPT !["sender"] = "failed"] /\ UNCHANGED <<ring, ump_msg, ctrl>>
    BY <1>16 DEF CopyFault, Goto
  <2>2. DataInv'
    BY <1>1, <1>2, <1>14, <2>1 DEF UmpInv, DataInv, UmpTypeOK
  <2> QED
    BY <1>7, <1>8, <1>9, <1>10, <1>11, <1>12, <1>13, <2>2 DEF UmpInv
<1> QED
  BY <1>15, <1>16

-----------------------------------------------------------------------------
(* Opening the channel *)

(* The first channel_size messages have epoch 1, which NoHeader has not. *)
LEMMA FirstLap ==
  ASSUME NEW n \in 1 .. channel_size
  PROVE  EpochOf(n) = 1
<1>1. n - 1 \in 0 .. Lap - 1 /\ n - 1 < channel_size
  BY Moduli DEF Lap
<1>2. (n - 1) % Lap = n - 1
  BY <1>1, Moduli, SmallIndex
<1> QED
  BY <1>1, <1>2 DEF EpochOf

(* Position 0 with epoch 1 is where message 1 goes. *)
LEMMA FirstPlace == Place(0, 1) = 0 % Lap /\ 0 \in Slots
<1>1. 0 \in 0 .. Lap - 1 /\ 0 \in Slots
  BY Moduli DEF Slots
<1> QED
  BY <1>1, Moduli, SmallIndex DEF Place

(* An end that opens has neither sent nor received: its counters and ring   *)
(* are as they were.                                                        *)
LEMMA OpenStep ==
  ASSUME NEW stamp \in Stamps, UmpTypeOK, UmpInv(stamp), NEW e \in Ends, Open(e)
  PROVE  UmpInv(stamp)'
<1> DEFINE f == Peer(e)
<1>1. /\ f \in Ends /\ f # e /\ f = Peer(e) /\ Peer(f) = e
      /\ Ends = {"sender", "receiver"}
      /\ Peer("sender") = "receiver" /\ Peer("receiver") = "sender"
  BY DEF Ends, Peer
<1>2. /\ pc[e] = "new" /\ produced[e] = 0 /\ consumed[e] = 0
      /\ pc' = [pc EXCEPT ![e] = "idle"]
      /\ UNCHANGED <<ump_msg, ctrl, produced, consumed, got>>
  BY DEF Open, UmpInv, PcInv, Goto
<1>3. /\ spos' = [spos EXCEPT ![e] = 0] /\ rpos' = [rpos EXCEPT ![e] = 0]
      /\ sepoch' = [sepoch EXCEPT ![e] = 1] /\ repoch' = [repoch EXCEPT ![e] = 1]
      /\ sent_id' = [sent_id EXCEPT ![e] = Id(1)]
      /\ seq_id' = [seq_id EXCEPT ![e] = 0]
      /\ ack_id' = [ack_id EXCEPT ![e] = 0]
      /\ last_ack' = [last_ack EXCEPT ![e] = 0]
  BY DEF Open
<1>4. /\ ring'[f] = ring[f]
      /\ \A x \in Slots : ring'[e][x].header = NoHeader
  <2>1. ring' = [ring EXCEPT ![e] = [x \in Slots |-> [@[x] EXCEPT !.header = NoHeader]]]
    BY DEF Open
  <2>2. ring[e] \in [Slots -> [header : Headers, data : Bodies]]
    BY DEF UmpTypeOK
  <2> QED
    BY <1>1, <2>1, <2>2 DEF UmpTypeOK
<1>5. PcInv'
  BY <1>1, <1>2 DEF UmpInv, PcInv, UmpTypeOK
<1>6. PlaceInv'
  <2>1. Allocated(e)' = 0 /\ Allocated(f)' = Allocated(f)
    BY <1>1, <1>2 DEF Allocated, UmpTypeOK
  <2> QED
    BY <1>1, <1>2, <1>3, <2>1, FirstPlace DEF UmpInv, PlaceInv, UmpTypeOK, Ends
<1>7. IndexInv(stamp)'
  <2>1. stamp[e][0] = 0 /\ stamp[f][0] = 0
    BY <1>1 DEF UmpInv, StampInv
  <2> QED
    BY <1>1, <1>2, <1>3, <2>1, IdSmall DEF UmpInv, IndexInv, UmpTypeOK
<1>8. StampInv(stamp)' /\ SendInv(stamp)'
  BY <1>1, <1>2 DEF UmpInv, StampInv, SendInv, UmpTypeOK
<1>9. EpochInv'
  <2>1. ASSUME NEW m \in 1 .. channel_size
        PROVE  ring'[e][Home(m)].header.epoch = 1 - EpochOf(m)
    <3>1. m \in Nat \ {0} /\ EpochOf(m) = 1
      BY Moduli, FirstLap
    <3> QED
      BY <1>4, <3>1, HomeIsSlot DEF NoHeader
  <2> QED
    BY <1>1, <1>2, <1>4, <2>1, Moduli DEF UmpInv, EpochInv, Ends
<1>10. FlightInv(stamp)'
  <2>1. consumed[f] + 1 .. produced[e] = {}
    BY <1>1, <1>2 DEF UmpTypeOK
  <2> QED
    BY <1>1, <1>2, <1>4, <2>1 DEF UmpInv, FlightInv, Ends
<1>11. DataInv'
  <2>1. Kept("sender")' = Kept("sender")
    BY <1>1, <1>2 DEF Kept, UmpTypeOK
  <2>2. CASE e = "sender"
    <3>1. Kept("sender") \in Nat /\ Kept("sender") > 0
      BY <1>1 DEF UmpInv, DataInv, Kept, UmpTypeOK
    <3>2. Kept("sender") .. produced["sender"] = {}
      BY <1>2, <2>2, <3>1
    <3> QED
      BY <1>1, <1>2, <2>1, <2>2, <3>2 DEF UmpInv, DataInv, UmpTypeOK
  <2>3. CASE e = "receiver"
    <3>1. ring'["sender"] = ring["sender"]
      BY <1>1, <1>4, <2>3
    <3> QED
      BY <1>1, <1>2, <2>1, <2>3, <3>1 DEF UmpInv, DataInv, UmpTypeOK
  <2> QED
    BY <1>1, <2>2, <2>3
<1> QED
  BY <1>5, <1>6, <1>7, <1>8, <1>9, <1>10, <1>11 DEF UmpInv

(* Nothing is sent in a channel that nobody has opened. *)
LEMMA UmpInit == Init => \E stamp \in Stamps : UmpInv(stamp)
<1> SUFFICES ASSUME Init PROVE \E stamp \in Stamps : UmpInv(stamp)
  OBVIOUS
<1>1. PICK stamp \in Stamps : stamp = [e \in Ends |-> [n \in Nat |-> 0]]
  BY DEF Stamps
<1>2. \A e \in Ends, n \in Nat : stamp[e][n] = 0
  BY <1>1
<1>3. /\ \A e \in Ends : Peer(e) \in Ends
      /\ "sender" \in Ends /\ "receiver" \in Ends
      /\ Peer("sender") = "receiver"
  BY DEF Ends, Peer
<1>4. PcInv
  BY <1>3, UmpAssumption DEF Init, PcInv
<1>5. PlaceInv
  BY FirstPlace DEF Init, PlaceInv, Allocated
<1>6. IndexInv(stamp)
  BY <1>2, <1>3, IdSmall DEF Init, IndexInv, Id
<1>7. StampInv(stamp) /\ SendInv(stamp)
  BY <1>2, <1>3 DEF Init, StampInv, SendInv
<1>8. EpochInv
  <2>1. ASSUME NEW e \in Ends, NEW m \in 1 .. channel_size
        PROVE  ring[e][Home(m)].header.epoch = 1 - EpochOf(m)
    <3>1. m \in Nat \ {0} /\ EpochOf(m) = 1
      BY Moduli, FirstLap
    <3> QED
      BY <3>1, HomeIsSlot DEF Init, NoHeader
  <2> QED
    BY <2>1, Moduli DEF Init, EpochInv
<1>9. FlightInv(stamp)
  BY <1>3 DEF Init, FlightInv
<1>10. DataInv
  BY <1>3 DEF Init, DataInv, Kept
<1> QED
  BY <1>4, <1>5, <1>6, <1>7, <1>8, <1>9, <1>10 DEF UmpInv

-----------------------------------------------------------------------------
(* Types *)

(* A channel nobody has opened is well typed. *)
LEMMA TypeInit == Init => UmpTypeOK
<1>1. 0 \in Slots /\ 0 \in Ids /\ 1 % 2 ^ IndexBits \in Ids
  BY FirstPlace, IdSmall, Moduli, IdType DEF Id, Ids
<1>2. 0 \in Bodies
  BY UmpAssumption DEF Bodies
<1> QED
  BY <1>1, <1>2 DEF Init, UmpTypeOK, Headers, NoHeader, Pcs, Ends

(* Positions stay on the ring, indices and epochs in their width, and the   *)
(* messages copied in are those the writes number.                         *)
LEMMA TypeStep ==
  ASSUME NEW stamp \in Stamps, UmpTypeOK, UmpInv(stamp), [Next]_vars
  PROVE  UmpTypeOK'
<1> USE DEF UmpTypeOK, Goto, index
<1>1. \A n \in Nat : Id(n) \in Ids
  BY IdType
<1>2. Ids \subseteq Nat /\ 0 \in Ids /\ 0 \in Slots
  BY Moduli, FirstPlace DEF Ids
<1>3. ASSUME NEW pos \in Slots, NEW epoch \in 0 .. 1
      PROVE  NextPos(pos) \in Slots /\ NextEpoch(pos, epoch) \in 0 .. 1
  BY Moduli DEF Slots, NextPos, NextEpoch
<1>4. "sender" \in Ends /\ "receiver" \in Ends /\ \A e \in Ends : Peer(e) \in Ends
  BY DEF Ends, Peer
<1>5. ASSUME NEW e \in Ends, NEW x \in Slots, NEW epoch \in 0 .. 1,
             NEW type \in {"UMP_MSG", "UMP_ACK"}, Send(e, x, epoch, type)
      PROVE  /\ ring' \in [Ends -> [Slots -> [header : Headers, data : Bodies]]]
             /\ last_ack' \in [Ends -> Ids] /\ sent_id' \in [Ends -> Ids]
             /\ produced' \in [Ends -> Nat]
  <2>1. [epoch |-> epoch, type |-> type, seq |-> seq_id[e]] \in Headers
    BY DEF Headers
  <2>2. Id(sent_id[e] + 1) \in Ids
    <3>1. sent_id[e] \in Nat
      BY <1>2
    <3> QED
      BY <1>1, <3>1
  <2> DEFINE Messages == [header : Headers, data : Bodies]
             header == [epoch |-> epoch, type |-> type, seq |-> seq_id[e]]
  <2>3. ring[e] \in [Slots -> Messages] /\ ring[e][x] \in Messages
    OBVIOUS
  <2>4. [ring[e][x] EXCEPT !.header = header] \in Messages
    BY <2>1, <2>3
  <2>5. ring' = [ring EXCEPT ![e] = [ring[e] EXCEPT ![x] = [ring[e][x] EXCEPT !.header = header]]]
    BY <1>5 DEF Send
  <2>6. ring \in [Ends -> [Slots -> Messages]]
    OBVIOUS
  <2> HIDE DEF Messages, header
  <2>7. ring' \in [Ends -> [Slots -> Messages]]
    BY <2>3, <2>4, <2>5, <2>6
  <2> QED
    BY <1>5, <2>2, <2>7 DEF Send, Messages
<1>6. ASSUME NEW e \in Ends, Open(e) PROVE UmpTypeOK'
  <2>1. NoHeader \in Headers
    BY <1>2 DEF NoHeader, Headers
  <2>2. ring[e] \in [Slots -> [header : Headers, data : Bodies]]
    OBVIOUS
  <2>3. ring' \in [Ends -> [Slots -> [header : Headers, data : Bodies]]]
    BY <1>6, <2>1, <2>2 DEF Open
  <2> QED
    <3>1. /\ spos' \in [Ends -> Slots] /\ rpos' \in [Ends -> Slots]
          /\ sepoch' \in [Ends -> 0 .. 1] /\ repoch' \in [Ends -> 0 .. 1]
      BY <1>2, <1>6 DEF Open
    <3>2. /\ sent_id' \in [Ends -> Ids] /\ seq_id' \in [Ends -> Ids]
          /\ ack_id' \in [Ends -> Ids] /\ last_ack' \in [Ends -> Ids]
      BY <1>1, <1>2, <1>6 DEF Open
    <3> QED
      BY <1>6, <2>3, <3>1, <3>2 DEF Open, Pcs
<1>7. ASSUME NEW e \in Ends, Release(e) \/ Test(e) \/ Sleep(e) \/ Signal(e) \/ GiveUp(e) \/ WakeUp(e)
      PROVE  UmpTypeOK'
  BY <1>7 DEF Release, Test, Sleep, Signal, GiveUp, WakeUp, Pcs
<1>8. ASSUME NEW e \in Ends, Recv(e) PROVE UmpTypeOK'
  <2>1. ring[Peer(e)][rpos[e]].header \in Headers
    BY <1>4
  <2>2. ring[Peer(e)][rpos[e]].header.seq \in Ids
    BY <2>1 DEF Headers
  <2>3. Id(seq_id[e] + 1) \in Ids
    <3>1. seq_id[e] \in Nat
      BY <1>2
    <3> QED
      BY <1>1, <3>1
  <2>4. pc' \in [Ends -> Pcs]
    BY <1>8 DEF Recv, Pcs
  <2>5. ack_id' \in [Ends -> Ids] /\ seq_id' \in [Ends -> Ids]
    BY <1>8, <2>2, <2>3 DEF Recv, ump_control_process
  <2> QED
    <3>1. NextPos(rpos[e]) \in Slots /\ NextEpoch(rpos[e], repoch[e]) \in 0 .. 1
      BY <1>3
    <3>2. /\ rpos' \in [Ends -> Slots] /\ repoch' \in [Ends -> 0 .. 1]
          /\ ump_msg' \in [Ends -> Slots] /\ consumed' \in [Ends -> Nat]
      BY <1>8, <3>1 DEF Recv
    <3>3. rq' \in SUBSET Ends
      BY <1>8 DEF Recv
    <3> QED
      BY <1>8, <2>4, <2>5, <3>2, <3>3 DEF Recv
<1>9. CASE ReadCall \/ WriteCall \/ WindowFull \/ DeliverFault
  BY <1>9 DEF ReadCall, WriteCall, WindowFull, DeliverFault, Pcs
<1>10. CASE Deliver
  <2>1. ring["sender"][ump_msg["receiver"]].data \in Bodies
    BY <1>4
  <2> QED
    <3>1. got' \in Seq(Bodies)
      BY <1>10, <2>1 DEF Deliver
    <3>2. pc' \in [Ends -> Pcs]
      BY <1>10 DEF Deliver, Pcs
    <3> QED
      BY <1>10, <3>1, <3>2 DEF Deliver
<1>11. CASE Ack
  <2>1. CASE ump_send_ack_is_needed("receiver") /\ ump_can_send("receiver")
    <3>1. Send("receiver", spos["receiver"], sepoch["receiver"], "UMP_ACK")
      BY <1>11, <2>1 DEF Ack
    <3>2. /\ ring' \in [Ends -> [Slots -> [header : Headers, data : Bodies]]]
          /\ last_ack' \in [Ends -> Ids] /\ sent_id' \in [Ends -> Ids]
          /\ produced' \in [Ends -> Nat]
      BY <1>4, <1>5, <3>1
    <3>3. ump_impl_get_next("receiver") /\ pc' \in [Ends -> Pcs]
      BY <1>11, <2>1 DEF Ack, Pcs
    <3> QED
      BY <1>3, <1>4, <1>11, <3>2, <3>3 DEF Ack, ump_impl_get_next
  <2>2. CASE ~(ump_send_ack_is_needed("receiver") /\ ump_can_send("receiver"))
    BY <1>11, <2>2 DEF Ack, Pcs
  <2> QED
    BY <2>1, <2>2
<1>12. CASE Copy
  <2>1. produced["sender"] + 1 \in Bodies
    <3>1. produced["sender"] \in Nat /\ produced["sender"] < MaxWrites
      BY <1>4, <1>12 DEF Copy, UmpInv, PcInv
    <3> QED
      BY <3>1, UmpAssumption DEF Bodies
  <2> DEFINE Messages == [header : Headers, data : Bodies]
             x == spos["sender"]
             n == produced["sender"] + 1
  <2>2. ring["sender"] \in [Slots -> Messages] /\ ring["sender"][x] \in Messages /\ x \in Slots
    BY <1>4
  <2>3. ring' \in [Ends -> [Slots -> [header : Headers, data : Bodies]]]
    <3>1. [ring["sender"][x] EXCEPT !.data = n] \in Messages
      BY <2>1, <2>2
    <3>2. ring' = [ring EXCEPT !["sender"] =
                     [ring["sender"] EXCEPT ![x] = [ring["sender"][x] EXCEPT !.data = n]]]
      BY <1>12 DEF Copy
    <3>3. ring \in [Ends -> [Slots -> Messages]]
      OBVIOUS
    <3> HIDE DEF Messages, x, n
    <3>4. ring' \in [Ends -> [Slots -> Messages]]
      BY <2>2, <3>1, <3>2, <3>3
    <3> QED
      BY <3>4 DEF Messages
  <2> QED
    BY <1>3, <1>4, <1>12, <2>3 DEF Copy, ump_impl_get_next, Pcs
<1>13. CASE CopyFault
  BY <1>3, <1>4, <1>13 DEF CopyFault, ump_impl_get_next, Pcs
<1>14. CASE Fill
  <2>1. /\ ring' \in [Ends -> [Slots -> [header : Headers, data : Bodies]]]
        /\ last_ack' \in [Ends -> Ids] /\ sent_id' \in [Ends -> Ids]
        /\ produced' \in [Ends -> Nat]
    BY <1>4, <1>5, <1>14 DEF Fill
  <2> QED
    BY <1>14, <2>1 DEF Fill, Pcs
<1>15. CASE UNCHANGED vars
  BY <1>15 DEF vars
<1> QED
  BY <1>6, <1>7, <1>8, <1>9, <1>10, <1>11, <1>12, <1>13, <1>14, <1>15
  DEF Next, Step, UserStep, ReadStep, WriteStep, Fault

-----------------------------------------------------------------------------
(* Theorems *)

(* The induction hypothesis: some stamps explain the state. *)
AllInv == UmpTypeOK /\ \E stamp \in Stamps : UmpInv(stamp)

(* Every step keeps the invariant, with one more stamp when it sends. *)
LEMMA UmpStep == AllInv /\ [Next]_vars => AllInv'
<1> SUFFICES ASSUME AllInv, [Next]_vars PROVE AllInv'
  OBVIOUS
<1> USE DEF AllInv
<1>1. PICK stamp \in Stamps : UmpInv(stamp)
  OBVIOUS
<1>2. UmpTypeOK'
  BY <1>1, TypeStep
<1>3. CASE Fill \/ Ack
  BY <1>1, <1>2, <1>3, FillStep, AckStep
<1>4. CASE UNCHANGED vars
  <2>1. UmpInv(stamp)'
    BY <1>1, <1>4, QuietFrame DEF vars, Quiet, UmpInv, PcInv, index
  <2> QED
    BY <1>2, <2>1
<1>5. CASE \E e \in Ends : Step(e) \/ UserStep(e)
  <2>1. UmpInv(stamp)'
    BY <1>1, <1>5, QuietSteps, RecvStep, OpenStep DEF Step, UserStep
  <2> QED
    BY <1>2, <2>1
<1>6. CASE ReadCall \/ WriteCall \/ WindowFull
  <2>1. "sender" \in Ends
    BY DEF Ends
  <2>2. UmpInv(stamp)'
    BY <1>1, <1>6, <2>1, QuietSteps
  <2> QED
    BY <1>2, <2>2
<1>7. CASE Deliver \/ DeliverFault \/ Copy \/ CopyFault
  <2>1. UmpInv(stamp)'
    BY <1>1, <1>7, DeliverStep, DeliverFaultStep, CopyStep
  <2> QED
    BY <1>2, <2>1
<1> QED
  BY <1>3, <1>4, <1>5, <1>6, <1>7 DEF Next, ReadStep, WriteStep, Fault

(* The invariant holds in every state. *)
LEMMA UmpCorrect == Spec => []AllInv
<1>1. Init => AllInv
  BY UmpInit, TypeInit DEF AllInv
<1> QED
  BY <1>1, UmpStep, PTL DEF Spec

(* A kbfish channel is well typed in every behaviour, whatever the size of  *)
(* the rings and the width of the sequence numbers.                         *)
THEOREM TypeCorrect == Spec => []UmpTypeOK
BY UmpCorrect, PTL DEF AllInv

(* Messages arrive once, in order and whole, for any number of writes, any  *)
(* ring size and any width of the sequence numbers above it, with signals,  *)
(* faults and ends that open late or close.                                 *)
THEOREM Ordered == Spec => []InOrder
<1>1. AllInv => InOrder
  <2> SUFFICES ASSUME AllInv PROVE InOrder
    OBVIOUS
  <2>1. PICK stamp \in Stamps : UmpInv(stamp)
    BY DEF AllInv
  <2>2. "receiver" \in Ends /\ "sender" \in Ends /\ Peer("receiver") = "sender"
    BY DEF Ends, Peer
  <2>3. consumed["receiver"] <= produced["sender"]
    BY <2>1, <2>2 DEF UmpInv, StampInv
  <2>4. Len(got) <= consumed["receiver"] /\ \A i \in 1 .. Len(got) : got[i] = i
    BY <2>1 DEF UmpInv, DataInv
  <2>5. Len(got) \in Nat /\ consumed["receiver"] \in Nat /\ produced["sender"] \in Nat
    BY <2>2 DEF AllInv, UmpTypeOK
  <2> QED
    BY <2>3, <2>4, <2>5 DEF InOrder
<1> QED
  BY <1>1, UmpCorrect, PTL

(* One epoch bit is enough to tell a new message from an old one, however   *)
(* often the ring has wrapped.                                              *)
THEOREM EpochsSuffice == Spec => []EpochTellsNew
<1>1. AllInv => EpochTellsNew
  BY SeesNew DEF AllInv, EpochTellsNew
<1> QED
  BY <1>1, UmpCorrect, PTL

(* Nobody writes in a message its peer may be reading: the window of the    *)
(* sequence numbers is right although they wrap.                            *)
THEOREM NothingOverrun == Spec => []NeverOverrun
<1>1. AllInv => NeverOverrun
  <2> SUFFICES ASSUME AllInv, NEW e \in Ends
               PROVE  produced[e] + (IF pc[e] = "fill" THEN 1 ELSE 0)
                        <= consumed[Peer(e)] - (IF pc[Peer(e)] = "deliver" THEN 1 ELSE 0) + channel_size
    BY DEF NeverOverrun
  <2>1. PICK stamp \in Stamps : UmpInv(stamp)
    BY DEF AllInv
  <2>2. UmpTypeOK
    BY DEF AllInv
  <2>3. /\ e = "sender" \/ e = "receiver"
        /\ Peer("sender") = "receiver" /\ Peer("receiver") = "sender"
        /\ "sender" \in Ends /\ "receiver" \in Ends
    BY DEF Ends, Peer
  <2>4. produced[e] \in Nat /\ consumed[Peer(e)] \in Nat /\ channel_size \in Nat
    BY <2>2, <2>3, Moduli DEF UmpTypeOK
  <2>5. /\ stamp[Peer(e)][consumed[e]] \in Nat
        /\ stamp[Peer(e)][consumed[e]] <= consumed[Peer(e)]
        /\ produced[e] < stamp[Peer(e)][consumed[e]] + channel_size
    BY <2>1, <2>2, Window
  <2>6. CASE e = "receiver"
    <3>1. pc[e] # "fill" /\ pc[Peer(e)] # "deliver"
      BY <2>1, <2>3, <2>6 DEF UmpInv, PcInv
    <3> QED
      BY <2>4, <2>5, <3>1
  <2>7. CASE e = "sender"
    <3>1. /\ stamp["receiver"][consumed["sender"]] < Kept("sender")
          /\ Kept("sender") \in Nat
      BY <2>1, <2>2, AckedIsNotKept
    <3>2. pc["sender"] = "fill" =>
            produced["sender"] + 1 < stamp["receiver"][consumed["sender"]] + channel_size
      BY <2>1 DEF UmpInv, SendInv
    <3>3. Kept("sender") = consumed["receiver"] + (IF pc["receiver"] = "deliver" THEN 0 ELSE 1)
      BY <2>3 DEF Kept
    <3> QED
      BY <2>3, <2>4, <2>5, <2>7, <3>1, <3>2, <3>3
  <2> QED
    BY <2>3, <2>6, <2>7
<1> QED
  BY <1>1, UmpCorrect, PTL

(* An ack that is needed can be sent: the window of the receiver is never   *)
(* full then, as the message that made it necessary acknowledged all acks.  *)
THEOREM AcksCanBeSent == Spec => []AckCanBeSent
<1>1. AllInv => AckCanBeSent
  <2> SUFFICES ASSUME AllInv, ump_send_ack_is_needed("receiver")
               PROVE  ump_can_send("receiver")
    BY DEF AckCanBeSent
  <2> DEFINE r == "receiver"
             t == "sender"
             n == produced[t]
  <2>1. PICK stamp \in Stamps : UmpInv(stamp)
    BY DEF AllInv
  <2>2. UmpTypeOK
    BY DEF AllInv
  <2>3. /\ Peer(t) = r /\ Peer(r) = t /\ t \in Ends /\ r \in Ends
    BY DEF Ends, Peer
  <2>4. /\ produced[r] \in Nat /\ consumed[r] \in Nat /\ n \in Nat /\ consumed[t] \in Nat
        /\ channel_size \in Nat /\ channel_size > 1
    BY <2>2, <2>3, Moduli DEF UmpTypeOK
  <2>5. consumed[r] <= n /\ consumed[t] <= produced[r]
    BY <2>1, <2>3 DEF UmpInv, StampInv
  <2>6. stamp[r][produced[r]] \in Nat /\ stamp[r][produced[r]] <= consumed[r]
    BY <2>1, <2>3, <2>4, StampType DEF UmpInv, StampInv
  <2>7. stamp[t][n] \in 0 .. produced[r]
    <3>1. stamp[t][n] \in Nat /\ stamp[t][n] <= consumed[t]
      BY <2>1, <2>3, <2>4, StampType DEF UmpInv, StampInv
    <3> QED
      BY <2>4, <2>5, <3>1
  <2>8. stamp[r][stamp[t][n]] \in Nat /\ stamp[r][stamp[t][n]] <= stamp[r][produced[r]]
    <3>1. produced[r] \in 0 .. produced[r] /\ stamp[t][n] <= produced[r] /\ stamp[t][n] \in Nat
      BY <2>4, <2>7
    <3> QED
      BY <2>1, <2>3, <2>7, <3>1, StampType DEF UmpInv, StampInv
  <2>9. n > 0 => n < stamp[r][stamp[t][n]] + channel_size
    BY <2>1, <2>3, <2>4 DEF UmpInv, SendInv
  <2>10. consumed[r] - stamp[r][produced[r]] >= channel_size - 1
    <3>1. consumed[r] - stamp[r][produced[r]] <= channel_size
      BY <2>4, <2>5, <2>6, <2>8, <2>9
    <3>2. Id(Id(consumed[r]) - Id(stamp[r][produced[r]])) = consumed[r] - stamp[r][produced[r]]
      BY <2>4, <2>6, <3>1, IdDifference
    <3>3. seq_id[r] = Id(consumed[r]) /\ last_ack[r] = Id(stamp[r][produced[r]])
      BY <2>1, <2>3 DEF UmpInv, IndexInv
    <3> QED
      BY <3>2, <3>3 DEF ump_send_ack_is_needed
  <2>11. n > 0 /\ consumed[r] = n /\ stamp[r][stamp[t][n]] = stamp[r][produced[r]]
    BY <2>4, <2>5, <2>6, <2>8, <2>9, <2>10
  <2>12. stamp[t][n] = produced[r]
    <3>1. ~(stamp[t][n] < produced[r])
      <4>1. stamp[t][n] < produced[r] => stamp[r][stamp[t][n]] < stamp[r][produced[r]]
        <5>1. produced[r] \in 0 .. produced[r]
          BY <2>4
        <5> QED
          BY <2>1, <2>7, <5>1 DEF UmpInv, StampInv
      <4> QED
        BY <2>6, <2>11, <4>1
    <3> QED
      BY <2>4, <2>7, <3>1
  <2>13. produced[r] + 1 < stamp[Peer(r)][consumed[r]] + channel_size
    BY <2>3, <2>4, <2>11, <2>12
  <2> QED
    BY <2>1, <2>2, <2>3, <2>13, CanSendMeans
<1> QED
  BY <1>1, UmpCorrect, PTL
=============================================================================
