-------------------------- MODULE KzimpRefinement --------------------------
(***************************************************************************)
(* Before any timer expires, kzimp is the multicast channel of Multicast:  *)
(* every message is read exactly once and in order by every reader.        *)
(***************************************************************************)
EXTENDS KzimpProofs

(* No timer, no failed write, no late join, no lap; readers may leave. *)
OrderEnv == Env \subseteq {"close"}

(* A channel that readers only close is a steady one. *)
LEMMA OrderEnvIsSteady == ASSUME OrderEnv PROVE SteadyEnv
BY DEF OrderEnv, SteadyEnv

(* Where a message lives on the ring *)
LEMMA HomeIsSlot == ASSUME NEW m \in Nat \ {0} PROVE Home(m) \in Slots
<1>1. m - 1 \in Nat
  OBVIOUS
<1> QED
  BY <1>1, ChannelAssumption, DivMod DEF Home, Slots

(* The slot after that of message m is that of message m + 1. *)
LEMMA HomeNext == ASSUME NEW m \in Nat \ {0} PROVE NextIdx(Home(m)) = Home(m + 1)
<1>1. m - 1 \in Nat /\ (m - 1) + 1 = m /\ (m + 1) - 1 = m
  OBVIOUS
<1>2. (((m - 1) % channel_size) + 1) % channel_size = m % channel_size
  BY <1>1, ChannelAssumption, NextOfIndex
<1> QED
  BY <1>1, <1>2 DEF Home, NextIdx

(* Two messages with the same slot are at least one ring apart. *)
LEMMA HomeApart ==
  ASSUME NEW m \in Nat \ {0}, NEW n \in Nat \ {0}, m < n, Home(m) = Home(n)
  PROVE  n >= m + channel_size
<1>1. m - 1 \in Nat /\ n - 1 \in Nat /\ m - 1 < n - 1
  OBVIOUS
<1>2. n - 1 >= (m - 1) + channel_size
  BY <1>1, ChannelAssumption, SameIndexFarApart DEF Home
<1> QED
  BY <1>2, ChannelAssumption

(* The message one ring earlier had the same slot. *)
LEMMA HomeBack ==
  ASSUME NEW m \in Nat, m > channel_size
  PROVE  Home(m - channel_size) = Home(m)
<1>1. m - 1 \in Nat /\ m - 1 >= channel_size /\ (m - channel_size) - 1 = (m - 1) - channel_size
  BY ChannelAssumption
<1>2. ((m - 1) - channel_size) % channel_size = (m - 1) % channel_size
  BY <1>1, ChannelAssumption, RingBack
<1> QED
  BY <1>1, <1>2 DEF Home

(* Positions are natural numbers. *)
LEMMA PositionType ==
  ASSUME TypeOK, NEW r \in Readers
  PROVE  Position(r) \in Nat /\ Len(got[r]) \in Nat /\ first[r] \in Nat
BY ChannelAssumption DEF TypeOK, HistoryTypeOK, Position

(* Everything that holds while nobody but readers that leave disturbs the  *)
(* channel: the induction hypothesis of this module                        *)
AllInv == TypeOK /\ MaskInv /\ SteadyInv /\ OrderInv

(* A reader whose bit is set where it reads next finds the next message. *)
LEMMA FindsNext ==
  ASSUME AllInv, NEW r \in readers,
         bitmap_bit[r] \in bitmap[Home(Position(r) + 1)]
  PROVE  /\ data[Home(Position(r) + 1)] = Position(r) + 1
         /\ Position(r) + 1 \in sent
<1> DEFINE p == Position(r)
           d == data[Home(p + 1)]
<1>1. p \in Nat /\ p + 1 \in Nat \ {0} /\ Home(p + 1) \in Slots
  BY PositionType, HomeIsSlot DEF AllInv, TypeOK, ChanTypeOK
<1>2. d \in sent /\ d > p /\ Home(p + 1) = Home(d)
  BY <1>1 DEF AllInv, OrderInv, BitmapInv
<1>3. d <= p + channel_size
  BY <1>2 DEF AllInv, OrderInv, WindowInv
<1>4. d \in Nat \ {0}
  <2>1. \A m \in sent : m \in Nat \ {0}
    BY ChannelAssumption DEF AllInv, TypeOK, HistoryTypeOK, Msgs
  <2> QED
    BY <1>2, <2>1
<1> HIDE DEF p, d
<1>5. d = p + 1
  BY <1>1, <1>2, <1>3, <1>4, HomeApart, ChannelAssumption
<1> QED
  BY <1>2, <1>5 DEF p, d

-----------------------------------------------------------------------------
(* OrderInv does not see a step that only moves a pc where it does not look *)
(* or changes the locals and the wait queue.                               *)
LEMMA OrderFrame ==
  ASSUME OrderInv, readers \subseteq Readers,
         UNCHANGED <<multicast_mask, bitmap, data, next_write_idx, readers,
                     next_read_idx, bitmap_bit, online, slot, msg, reg,
                     claimed, sent, got, first>>,
         \A r \in Readers : /\ rpc'[r] = "wake" <=> rpc[r] = "wake"
                            /\ rpc'[r] = "new" <=> rpc[r] = "new"
                            /\ rpc'[r] \in {"copy", "check", "clear"} =>
                                 /\ rpc[r] \in {"copy", "check", "clear"}
                                 /\ rbuf'[r] = rbuf[r],
         \A w \in Writers : /\ wpc'[w] = "idle" <=> wpc[w] = "idle"
                            /\ wpc'[w] \in Writing => wpc[w] \in Writing
                            /\ wpc'[w] \in {"mask", "publish"} =>
                                 wpc[w] \in {"mask", "publish"}
                            /\ wpc'[w] = "publish" => wpc[w] = "publish"
  PROVE  OrderInv'
<1> USE DEF OrderInv, Position
<1>1. ClaimInv'
  BY DEF ClaimInv, Home
<1>2. ReaderInv'
  BY DEF ReaderInv, Home
<1>3. BitmapInv'
  <2>1. {r \in Readers : rpc[r] # "new"}' = {r \in Readers : rpc[r] # "new"}
    OBVIOUS
  <2> QED
    BY <2>1 DEF BitmapInv, BitOf, Home
<1>4. WindowInv'
  BY DEF WindowInv
<1> QED
  BY <1>1, <1>2, <1>3, <1>4 DEF ExactlyOnceInOrder

(* A write starts: the message is in flight, on the slot it was claimed for. *)
LEMMA OrderClaim ==
  ASSUME AllInv, NEW w \in Writers, Claim(w) PROVE OrderInv'
<1> USE DEF AllInv, OrderInv, Claim, WriterGoto, ctrl, rlocal, TypeOK, ChanTypeOK,
            WriterTypeOK, HistoryTypeOK
<1>1. claimed \in Nat /\ claimed + 1 \in Nat \ {0} /\ (claimed + 1) + 1 = claimed' + 1
  BY ChannelAssumption
<1>2. ClaimInv'
  <2>1. next_write_idx' = Home(claimed' + 1)
    BY <1>1, HomeNext DEF ClaimInv
  <2>2. sent' \subseteq 1 .. claimed'
    BY <1>1 DEF ClaimInv
  <2>3. ASSUME NEW v \in Writers, wpc'[v] # "idle"
        PROVE  /\ msg'[v] \in (1 .. claimed') \ sent'
               /\ slot'[v] = Home(msg'[v])
               /\ wpc'[v] \in {"mask", "publish"} => data'[slot'[v]] = msg'[v]
    BY <1>1, <2>3 DEF ClaimInv
  <2>4. ASSUME NEW m \in (1 .. claimed') \ sent'
        PROVE  \E v \in Writers : wpc'[v] # "idle" /\ msg'[v] = m
    <3>1. CASE m = claimed + 1
      BY <3>1
    <3>2. CASE m # claimed + 1
      <4>1. m \in (1 .. claimed) \ sent
        BY <1>1, <2>4, <3>2
      <4> QED
        BY <4>1 DEF ClaimInv
    <3> QED
      BY <3>1, <3>2
  <2> QED
    BY <2>1, <2>2, <2>3, <2>4 DEF ClaimInv, Home
<1>3. ReaderInv'
  BY DEF ReaderInv, Position, Home
<1>4. BitmapInv'
  BY DEF BitmapInv, BitOf, Position, Home
<1>5. WindowInv'
  BY DEF WindowInv, Position, Writing
<1> QED
  BY <1>2, <1>3, <1>4, <1>5 DEF ExactlyOnceInOrder

(* The wait ends on an empty slot: the message that was there a ring ago   *)
(* was sent, and every reader has consumed it.                             *)
LEMMA OrderTest ==
  ASSUME AllInv, NEW w \in Writers, WriteTest(w) PROVE OrderInv'
<1> USE DEF AllInv, OrderInv, WriteTest, WriterGoto, chan, ctrl, rlocal, history,
            TypeOK, ChanTypeOK, WriterTypeOK, HistoryTypeOK
<1>1. CASE ~writer_can_write(bitmap[slot[w]])
  BY <1>1, OrderFrame DEF Writing
<1>2. CASE writer_can_write(bitmap[slot[w]])
  <2>1. bitmap[slot[w]] = {} /\ wpc' = [wpc EXCEPT ![w] = "copy"]
    BY <1>2 DEF writer_can_write
  <2>2. ClaimInv'
    BY <2>1 DEF ClaimInv, Home
  <2>3. ReaderInv'
    BY DEF ReaderInv, Position, Home
  <2>4. BitmapInv'
    BY <2>1 DEF BitmapInv, BitOf, Position, Home
  <2>5. ASSUME NEW r \in readers PROVE msg[w] <= Position(r) + channel_size
    <3> DEFINE p == Position(r)
               k == msg[w] - channel_size
    <3>1. p \in Nat /\ msg[w] \in Nat /\ msg[w] \in 1 .. claimed /\ msg[w] \in Nat
      BY PositionType, ChannelAssumption DEF ClaimInv
    <3>2. SUFFICES ASSUME msg[w] > p + channel_size PROVE FALSE
      BY <3>1, ChannelAssumption
    <3>3. k \in Nat /\ k > p /\ k \in 1 .. claimed /\ k # msg[w]
      BY <3>1, <3>2, ChannelAssumption
    <3>4. Home(k) = slot[w]
      BY <3>1, <3>2, HomeBack, ChannelAssumption DEF ClaimInv
    <3> HIDE DEF p, k
    <3>5. k \in sent
      <4>1. SUFFICES ASSUME k \notin sent PROVE FALSE
        OBVIOUS
      <4>2. PICK v \in Writers : wpc[v] # "idle" /\ msg[v] = k
        BY <3>3, <4>1 DEF ClaimInv
      <4>3. slot[v] = Home(k) /\ v # w
        BY <3>3, <4>2 DEF ClaimInv
      <4> QED
        BY <3>4, <4>2, <4>3 DEF SteadyInv, ClaimsAreApart
    <3> QED
      BY <2>1, <3>3, <3>4, <3>5 DEF BitmapInv, p
  <2>6. WindowInv'
    BY <2>1, <2>5 DEF WindowInv, Position, Writing
  <2> QED
    BY <2>2, <2>3, <2>4, <2>6 DEF ExactlyOnceInOrder
<1> QED
  BY <1>1, <1>2

(* copy_from_user starts and ends: no reader has a bit in the slot. *)
LEMMA OrderCopyStart ==
  ASSUME AllInv, NEW w \in Writers, CopyStart(w) PROVE OrderInv'
<1> USE DEF AllInv, OrderInv, CopyStart, WriterGoto, ctrl, rlocal, history,
            TypeOK, ChanTypeOK, WriterTypeOK, HistoryTypeOK
<1>1. bitmap[slot[w]] = {}
  BY DEF SteadyInv, WrittenSlotIsEmpty, Writing
<1>2. ClaimInv'
  BY DEF ClaimInv, Home, SteadyInv, ClaimsAreApart
<1>3. ReaderInv'
  BY DEF ReaderInv, Position, Home
<1>4. BitmapInv'
  <2>1. \A r \in readers, m \in sent : m > Position(r) =>
          data'[Home(m)] = m /\ bitmap_bit[r] \in bitmap[Home(m)]
    BY <1>1 DEF BitmapInv
  <2>2. \A r \in readers, s \in Slots : bitmap_bit[r] \in bitmap[s] =>
          data'[s] \in sent /\ data'[s] > Position(r) /\ s = Home(data'[s])
    BY <1>1 DEF BitmapInv
  <2> QED
    BY <2>1, <2>2 DEF BitmapInv, BitOf, Position, Home
<1>5. WindowInv'
  BY DEF WindowInv, Position, Writing
<1> QED
  BY <1>2, <1>3, <1>4, <1>5 DEF ExactlyOnceInOrder

(* copy_from_user ends: the slot of the message holds it. *)
LEMMA OrderCopyEnd ==
  ASSUME AllInv, NEW w \in Writers, CopyEnd(w) PROVE OrderInv'
<1> USE DEF AllInv, OrderInv, CopyEnd, WriterGoto, ctrl, rlocal, history,
            TypeOK, ChanTypeOK, WriterTypeOK, HistoryTypeOK
<1>1. bitmap[slot[w]] = {}
  BY DEF SteadyInv, WrittenSlotIsEmpty, Writing
<1>2. ClaimInv'
  BY DEF ClaimInv, Home, SteadyInv, ClaimsAreApart
<1>3. ReaderInv'
  BY DEF ReaderInv, Position, Home
<1>4. BitmapInv'
  <2>1. \A r \in readers, m \in sent : m > Position(r) =>
          data'[Home(m)] = m /\ bitmap_bit[r] \in bitmap[Home(m)]
    BY <1>1 DEF BitmapInv
  <2>2. \A r \in readers, s \in Slots : bitmap_bit[r] \in bitmap[s] =>
          data'[s] \in sent /\ data'[s] > Position(r) /\ s = Home(data'[s])
    BY <1>1 DEF BitmapInv
  <2> QED
    BY <2>1, <2>2 DEF BitmapInv, BitOf, Position, Home
<1>5. WindowInv'
  BY DEF WindowInv, Position, Writing
<1> QED
  BY <1>2, <1>3, <1>4, <1>5 DEF ExactlyOnceInOrder

(* The mask that is loaded has the bit of every registered reader. *)
LEMMA OrderLoadMask ==
  ASSUME AllInv, NEW w \in Writers, LoadMask(w) PROVE OrderInv'
<1> USE DEF AllInv, OrderInv, LoadMask, WriterGoto, chan, ctrl, rlocal, history,
            TypeOK, ChanTypeOK, WriterTypeOK, HistoryTypeOK
<1>1. multicast_mask = BitOf(readers)
  <2>1. Held = {}
    BY DEF Held, SteadyInv, NoTimerExpired, MaskInv, LockIsHeldByEvictor
  <2>2. Active = readers
    BY DEF Active, ReaderInv
  <2> QED
    BY <2>1, <2>2 DEF MaskInv, MaskIsActiveReadersNotHeld
<1>2. ClaimInv'
  BY DEF ClaimInv, Home
<1>3. ReaderInv'
  BY DEF ReaderInv, Position, Home
<1>4. BitmapInv'
  <2>1. \A r \in readers : rpc[r] # "new"
    BY DEF MaskInv, RegisteredUntilRelease, Away
  <2>2. \A v \in Writers : reg'[v] \subseteq BitOf({r \in Readers : rpc[r] # "new"})
    BY <1>1, <2>1 DEF BitmapInv, BitOf
  <2>3. \A v \in Writers, r \in readers : wpc'[v] = "publish" => bitmap_bit[r] \in reg'[v]
    BY <1>1 DEF BitmapInv, BitOf
  <2> QED
    BY <2>2, <2>3 DEF BitmapInv, BitOf, Position, Home
<1>5. WindowInv'
  BY DEF WindowInv, Position, Writing
<1> QED
  BY <1>2, <1>3, <1>4, <1>5 DEF ExactlyOnceInOrder

(* A message becomes visible: every registered reader has yet to read it. *)
LEMMA OrderPublish ==
  ASSUME AllInv, NEW w \in Writers, Publish(w) PROVE OrderInv'
<1> USE DEF AllInv, OrderInv, Publish, WriteReturn, WriterGoto, ctrl, rlocal,
            TypeOK, ChanTypeOK, WriterTypeOK, HistoryTypeOK
<1>1. /\ bitmap[slot[w]] = {}
      /\ msg[w] \in (1 .. claimed) \ sent
      /\ slot[w] = Home(msg[w])
      /\ data[slot[w]] = msg[w]
  BY DEF SteadyInv, WrittenSlotIsEmpty, Writing, ClaimInv
<1>2. ASSUME NEW v \in Writers, v # w, wpc[v] # "idle" PROVE msg[v] # msg[w]
  BY <1>1, <1>2 DEF ClaimInv, SteadyInv, ClaimsAreApart
<1>3. ClaimInv'
  <2>1. next_write_idx' = Home(claimed' + 1) /\ sent' \subseteq 1 .. claimed'
    BY <1>1 DEF ClaimInv
  <2>2. ASSUME NEW v \in Writers, wpc'[v] # "idle"
        PROVE  /\ msg'[v] \in (1 .. claimed') \ sent'
               /\ slot'[v] = Home(msg'[v])
               /\ wpc'[v] \in {"mask", "publish"} => data'[slot'[v]] = msg'[v]
    BY <1>2, <2>2 DEF ClaimInv
  <2>3. ASSUME NEW m \in (1 .. claimed') \ sent'
        PROVE  \E v \in Writers : wpc'[v] # "idle" /\ msg'[v] = m
    <3>1. m \in (1 .. claimed) \ sent /\ m # msg[w]
      BY <2>3
    <3>2. PICK v \in Writers : wpc[v] # "idle" /\ msg[v] = m
      BY <3>1 DEF ClaimInv
    <3> QED
      BY <3>1, <3>2
  <2> QED
    BY <2>1, <2>2, <2>3 DEF ClaimInv, Home
<1>4. ReaderInv'
  BY DEF ReaderInv, Position, Home
<1>5. BitmapInv'
  <2>1. ASSUME NEW r \in readers, NEW m \in sent', m > Position(r)
        PROVE  data[Home(m)] = m /\ bitmap_bit[r] \in bitmap'[Home(m)]
    <3>1. CASE m = msg[w]
      BY <1>1, <3>1 DEF BitmapInv
    <3>2. CASE m # msg[w]
      BY <1>1, <2>1, <3>2 DEF BitmapInv
    <3> QED
      BY <3>1, <3>2
  <2>2. ASSUME NEW r \in readers, NEW s \in Slots, bitmap_bit[r] \in bitmap'[s]
        PROVE  data[s] \in sent' /\ data[s] > Position(r) /\ s = Home(data[s])
    <3>1. CASE s = slot[w]
      <4>1. 1 .. Position(r) \subseteq sent /\ Position(r) \in Nat
        BY PositionType DEF ReaderInv
      <4>2. msg[w] > Position(r)
        BY <1>1, <4>1, ChannelAssumption
      <4> QED
        BY <1>1, <3>1, <4>2
    <3>2. CASE s # slot[w]
      BY <2>2, <3>2 DEF BitmapInv
    <3> QED
      BY <3>1, <3>2
  <2>3. \A s \in Slots : bitmap'[s] \subseteq BitOf({r \in Readers : rpc[r] # "new"})
    BY DEF BitmapInv
  <2>4. \A v \in Writers : reg'[v] \subseteq BitOf({r \in Readers : rpc[r] # "new"})
    BY DEF BitmapInv
  <2>5. \A v \in Writers, r \in readers : wpc'[v] = "publish" => bitmap_bit[r] \in reg'[v]
    BY DEF BitmapInv
  <2> QED
    BY <2>1, <2>2, <2>3, <2>4, <2>5 DEF BitmapInv, BitOf, Position, Home
<1>6. WindowInv'
  BY DEF WindowInv, Position, Writing
<1> QED
  BY <1>3, <1>4, <1>5, <1>6 DEF ExactlyOnceInOrder

(* A reader joins a quiet channel: everything claimed is sent, and no slot *)
(* has the bit it is given.                                                *)
LEMMA OrderOpen ==
  ASSUME AllInv, OrderEnv, NEW r \in Readers, Open(r) PROVE OrderInv'
<1> USE DEF AllInv, OrderInv, ReaderGoto, wlocal,
            TypeOK, ChanTypeOK, CtrlTypeOK, ReaderTypeOK, WriterTypeOK, HistoryTypeOK
<1> DEFINE Known == {q \in Readers : rpc[q] # "new"}
<1>1. PICK bit \in Bits :
        /\ bit \notin multicast_mask
        /\ bitmap_bit' = [bitmap_bit EXCEPT ![r] = bit]
  BY DEF Open, FirstZeroBit
<1>2. Quiet /\ bcl = NoOne
  BY DEF Open, OrderEnv
<1>3. rpc[r] = "new" /\ r \notin readers
  BY <1>2 DEF Open, Quiet, MaskInv, RegisteredUntilRelease, Away
<1>4. /\ UNCHANGED <<bitmap, data, next_write_idx, wpc, slot, msg, reg, claimed, sent>>
      /\ readers' = readers \cup {r}
      /\ next_read_idx' = [next_read_idx EXCEPT ![r] = next_write_idx]
      /\ online' = [online EXCEPT ![r] = TRUE]
      /\ rpc' = [rpc EXCEPT ![r] = "idle"]
      /\ got' = [got EXCEPT ![r] = <<>>]
      /\ first' = [first EXCEPT ![r] = claimed]
      /\ rbuf' = rbuf
  BY DEF Open
<1>5. \A w \in Writers : wpc[w] = "idle"
  BY <1>2 DEF Quiet
<1>6. sent = 1 .. claimed /\ claimed \in Nat
  <2>1. claimed \in Nat /\ sent \subseteq 1 .. claimed
    BY ChannelAssumption DEF ClaimInv
  <2>2. \A m \in 1 .. claimed : m \in sent
    BY <1>5 DEF ClaimInv
  <2> QED
    BY <2>1, <2>2
<1>7. Known \subseteq Active
  BY <1>2 DEF Quiet, MaskInv, RegisteredUntilRelease, Away, Active
<1>8. BitOf(Known) \subseteq multicast_mask
  BY <1>2, <1>7 DEF MaskInv, MaskIsActiveReadersNotHeld, Held, BitOf
<1>9. bit \notin BitOf(Known) /\ r \notin Known
  BY <1>1, <1>3, <1>8
<1>10. BitOf(Known) \subseteq BitOf({q \in Readers : rpc[q] # "new"})'
  BY <1>1, <1>4, <1>9 DEF BitOf
<1>11. Position(r)' = claimed
  BY <1>4, <1>6 DEF Position
<1>12. \A q \in readers : /\ q # r /\ Position(q)' = Position(q) /\ rpc'[q] = rpc[q]
                          /\ next_read_idx'[q] = next_read_idx[q]
                          /\ bitmap_bit'[q] = bitmap_bit[q]
                          /\ online'[q] = online[q]
  BY <1>1, <1>3, <1>4 DEF Position
<1>13. ClaimInv'
  BY <1>4 DEF ClaimInv, Home
<1>14. ReaderInv'
  <2>1. ASSUME NEW q \in readers
        PROVE  /\ online'[q]
               /\ 1 .. Position(q)' \subseteq sent'
               /\ rpc'[q] = "wake" => Position(q)' > 0
               /\ next_read_idx'[q] =
                    Home(IF rpc'[q] = "wake" THEN Position(q)' ELSE Position(q)' + 1)
               /\ rpc'[q] \in {"copy", "check", "clear"} => rbuf'[q] = Position(q)' + 1
    BY ZenonT(30), <1>4, <1>12 DEF ReaderInv
  <2>2. /\ online'[r]
        /\ 1 .. Position(r)' \subseteq sent'
        /\ rpc'[r] = "idle"
        /\ next_read_idx'[r] = Home(Position(r)' + 1)
    BY <1>4, <1>6, <1>11 DEF ClaimInv
  <2> QED
    BY <1>4, <2>1, <2>2 DEF ReaderInv, Home
<1>15. BitmapInv'
  <2>1. ASSUME NEW q \in readers', NEW m \in sent, m > Position(q)'
        PROVE  data[Home(m)] = m /\ bitmap_bit'[q] \in bitmap[Home(m)]
    <3>1. q # r
      BY <1>6, <1>11, <2>1
    <3>2. /\ q \in readers
          /\ Position(q)' = Position(q)
          /\ bitmap_bit'[q] = bitmap_bit[q]
      BY <1>4, <1>12, <3>1
    <3> QED
      BY <2>1, <3>2 DEF BitmapInv
  <2>2. ASSUME NEW q \in readers', NEW s \in Slots, bitmap_bit'[q] \in bitmap[s]
        PROVE  data[s] \in sent /\ data[s] > Position(q)' /\ s = Home(data[s])
    <3>1. q # r
      BY <1>1, <1>9, <2>2 DEF BitmapInv
    <3>2. /\ q \in readers
          /\ Position(q)' = Position(q)
          /\ bitmap_bit'[q] = bitmap_bit[q]
      BY <1>4, <1>12, <3>1
    <3> QED
      BY <2>2, <3>2 DEF BitmapInv
  <2>3. \A s \in Slots : bitmap[s] \subseteq BitOf({q \in Readers : rpc[q] # "new"})'
    BY <1>10 DEF BitmapInv
  <2>4. \A w \in Writers : reg[w] \subseteq BitOf({q \in Readers : rpc[q] # "new"})'
    BY <1>10 DEF BitmapInv
  <2> QED
    BY <1>4, <1>5, <2>1, <2>2, <2>3, <2>4 DEF BitmapInv, Home
<1>16. WindowInv'
  <2>1. \A m \in sent : m <= claimed + channel_size
    BY <1>6, ChannelAssumption
  <2> QED
    BY <1>4, <1>5, <1>11, <1>12, <2>1 DEF WindowInv, Writing
<1>17. ExactlyOnceInOrder'
  BY <1>4 DEF ExactlyOnceInOrder
<1> QED
  BY <1>13, <1>14, <1>15, <1>16, <1>17

(* A reader that leaves takes its bit out of the mask; the others go on. *)
LEMMA OrderRelease ==
  ASSUME AllInv, NEW r \in Readers, Release(r) PROVE OrderInv'
<1> USE DEF AllInv, OrderInv, Release, ReaderGoto, ctrl, wlocal, history,
            TypeOK, ChanTypeOK, ReaderTypeOK
<1>1. ClaimInv'
  BY DEF ClaimInv, Home
<1>2. ReaderInv'
  BY DEF ReaderInv, Position, Home
<1>3. BitmapInv'
  <2>1. {q \in Readers : rpc[q] # "new"}' = {q \in Readers : rpc[q] # "new"}
    OBVIOUS
  <2> QED
    BY <2>1 DEF BitmapInv, BitOf, Position, Home
<1>4. WindowInv'
  BY DEF WindowInv, Position, Writing
<1> QED
  BY <1>1, <1>2, <1>3, <1>4 DEF ExactlyOnceInOrder

(* A reader that left clears a bit that no registered reader has. *)
LEMMA OrderReleaseSlot ==
  ASSUME AllInv, NEW r \in Readers, ReleaseSlot(r) PROVE OrderInv'
<1> USE DEF AllInv, OrderInv, ReleaseSlot, ReaderGoto, ctrl, wlocal, history,
            TypeOK, ChanTypeOK, CtrlTypeOK, ReaderTypeOK
<1>1. \A q \in readers : bitmap_bit[q] # bitmap_bit[r]
  BY DEF SteadyInv, BitsAreApart, MaskInv, RegisteredUntilRelease, Away
<1>2. r \notin readers
  BY DEF MaskInv, RegisteredUntilRelease, Away
<1>3. ClaimInv'
  BY DEF ClaimInv, Home
<1>4. ReaderInv'
  BY <1>2 DEF ReaderInv, Position, Home
<1>5. BitmapInv'
  <2>1. {q \in Readers : rpc[q] # "new"}' = {q \in Readers : rpc[q] # "new"}
    OBVIOUS
  <2>2. \A s \in Slots : bitmap'[s] \subseteq bitmap[s]
    OBVIOUS
  <2>3. \A q \in readers, s \in Slots :
          bitmap_bit[q] \in bitmap'[s] <=> bitmap_bit[q] \in bitmap[s]
    BY <1>1
  <2>4. \A q \in readers, m \in sent : m > Position(q) =>
          data[Home(m)] = m /\ bitmap_bit[q] \in bitmap'[Home(m)]
    <3>1. \A m \in sent : Home(m) \in Slots
      BY HomeIsSlot, ChannelAssumption DEF HistoryTypeOK, Msgs
    <3> QED
      BY <2>3, <3>1 DEF BitmapInv
  <2> QED
    BY <2>1, <2>2, <2>3, <2>4 DEF BitmapInv, BitOf, Position, Home
<1>6. WindowInv'
  BY DEF WindowInv, Position, Writing
<1> QED
  BY <1>3, <1>4, <1>5, <1>6 DEF ExactlyOnceInOrder

(* The slot a reader is in holds the next message, before and after its    *)
(* copy: nobody has written there.                                         *)
LEMMA ReadsNext ==
  ASSUME AllInv, NBits <= IntBits, NEW r \in Readers,
         \/ rpc[r] \in {"copy", "check", "clear"}
         \/ rpc[r] = "wait" /\ CanRead(r)
  PROVE  /\ r \in readers
         /\ next_read_idx[r] = Home(Position(r) + 1)
         /\ data[next_read_idx[r]] = Position(r) + 1
         /\ Position(r) + 1 \in sent
<1>1. r \in readers
  BY DEF AllInv, MaskInv, RegisteredUntilRelease, Away
<1>2. next_read_idx[r] = Home(Position(r) + 1)
  BY <1>1 DEF AllInv, OrderInv, ReaderInv
<1>3. bitmap_bit[r] \in bitmap[next_read_idx[r]]
  BY CanReadIsMembership
  DEF AllInv, SteadyInv, ReadSlotHasBit, CanRead, TypeOK, ChanTypeOK, CtrlTypeOK
<1> QED
  BY <1>1, <1>2, <1>3, FindsNext

(* The copy a reader starts is of its next message. *)
LEMMA OrderReady ==
  ASSUME AllInv, NBits <= IntBits, NEW r \in Readers, ReadReady(r) PROVE OrderInv'
<1> USE DEF AllInv, OrderInv, ReadReady, ReaderGoto, chan, ctrl, wlocal, history,
            TypeOK, ChanTypeOK, ReaderTypeOK
<1>1. data[next_read_idx[r]] = Position(r) + 1
  BY ReadsNext
<1>2. ClaimInv'
  BY DEF ClaimInv, Home
<1>3. ReaderInv'
  BY <1>1 DEF ReaderInv, Position, Home
<1>4. BitmapInv'
  <2>1. {q \in Readers : rpc[q] # "new"}' = {q \in Readers : rpc[q] # "new"}
    OBVIOUS
  <2> QED
    BY <2>1 DEF BitmapInv, BitOf, Position, Home
<1>5. WindowInv'
  BY DEF WindowInv, Position, Writing
<1> QED
  BY <1>2, <1>3, <1>4, <1>5 DEF ExactlyOnceInOrder

(* The slot did not change under the copy, so it is whole. *)
LEMMA OrderCopied ==
  ASSUME AllInv, NBits <= IntBits, NEW r \in Readers, ReadCopied(r) PROVE OrderInv'
<1> USE DEF AllInv, OrderInv, ReadCopied, ReaderGoto, chan, ctrl, wlocal, history,
            TypeOK, ChanTypeOK, ReaderTypeOK
<1>1. data[next_read_idx[r]] = Position(r) + 1 /\ r \in readers
  BY ReadsNext
<1>2. rbuf[r] = Position(r) + 1
  BY <1>1 DEF ReaderInv
<1>3. rbuf'[r] = rbuf[r]
  BY <1>1, <1>2
<1> QED
  BY <1>3, OrderFrame

(* No reader is offline, so none drops what it copied. *)
LEMMA OrderCheck ==
  ASSUME AllInv, NEW r \in Readers, ReadCheck(r) PROVE OrderInv'
<1> USE DEF AllInv, OrderInv, ReadCheck, ReaderGoto, chan, ctrl, wlocal, history,
            TypeOK, ChanTypeOK, ReaderTypeOK
<1>1. CASE online[r]
  BY <1>1, OrderFrame
<1>2. CASE ~online[r]
  BY <1>2, OrderFrame
<1> QED
  BY <1>1, <1>2

(* A message is consumed: it was the next one, and the bits of the reader  *)
(* that remain are for later messages, which are in other slots.           *)
LEMMA OrderClear ==
  ASSUME AllInv, NBits <= IntBits, NEW r \in Readers, ReadClear(r) PROVE OrderInv'
<1> USE DEF AllInv, OrderInv, ReadClear, ReaderGoto, ctrl, wlocal,
            TypeOK, ChanTypeOK, CtrlTypeOK, ReaderTypeOK, HistoryTypeOK
<1> DEFINE p == Position(r)
<1>1. /\ r \in readers
      /\ next_read_idx[r] = Home(p + 1)
      /\ data[next_read_idx[r]] = p + 1
      /\ p + 1 \in sent
  BY ReadsNext
<1>2. rbuf[r] = p + 1
  BY <1>1 DEF ReaderInv
<1>3. p \in Nat /\ Len(got[r]) \in Nat /\ first[r] \in Nat /\ p = first[r] + Len(got[r])
  BY PositionType DEF Position
<1>4. /\ got'[r] = Append(got[r], p + 1)
      /\ Len(got'[r]) = Len(got[r]) + 1
      /\ Position(r)' = p + 1
  <2>1. got'[r] = Append(got[r], p + 1) /\ first' = first
    BY <1>2
  <2>2. got[r] \in Seq(Contents)
    OBVIOUS
  <2>3. Len(got'[r]) = Len(got[r]) + 1
    BY <2>1, <2>2
  <2> QED
    BY <1>3, <2>1, <2>3 DEF Position
<1>5. \A q \in readers : q # r =>
        /\ Position(q)' = Position(q) /\ got'[q] = got[q]
        /\ rpc'[q] = rpc[q] /\ rbuf'[q] = rbuf[q]
        /\ bitmap_bit[q] # bitmap_bit[r]
  BY <1>1 DEF Position, SteadyInv, BitsAreApart, MaskInv, RegisteredUntilRelease, Away
<1>6. bitmap' = [bitmap EXCEPT ![Home(p + 1)] = @ \ {bitmap_bit[r]}]
  BY <1>1
<1>7. ClaimInv'
  BY DEF ClaimInv, Home
<1>8. ReaderInv'
  <2>1. ASSUME NEW q \in readers, q # r
        PROVE  /\ online[q]
               /\ 1 .. Position(q)' \subseteq sent
               /\ rpc'[q] = "wake" => Position(q)' > 0
               /\ next_read_idx[q] =
                    Home(IF rpc'[q] = "wake" THEN Position(q)' ELSE Position(q)' + 1)
               /\ rpc'[q] \in {"copy", "check", "clear"} => rbuf'[q] = Position(q)' + 1
    BY <1>5, <2>1 DEF ReaderInv
  <2>2. /\ online[r]
        /\ 1 .. p \subseteq sent
        /\ rpc'[r] = "wake"
    BY <1>1 DEF ReaderInv
  <2>3. 1 .. (p + 1) \subseteq sent /\ p + 1 > 0
    BY <1>1, <1>3, <2>2
  <2> QED
    BY <1>1, <1>4, <2>1, <2>2, <2>3 DEF ReaderInv, Home
<1>9. BitmapInv'
  <2>1. ASSUME NEW q \in readers, NEW m \in sent, m > Position(q)'
        PROVE  data[Home(m)] = m /\ bitmap_bit[q] \in bitmap'[Home(m)]
    <3>1. m \in Nat \ {0} /\ Home(m) \in Slots
      BY HomeIsSlot, ChannelAssumption DEF Msgs
    <3>2. CASE q # r
      BY <1>5, <1>6, <2>1, <3>1, <3>2 DEF BitmapInv
    <3>3. CASE q = r
      <4>1. m > p + 1 /\ m <= p + channel_size
        BY <1>4, <2>1, <3>3 DEF WindowInv
      <4>2. Home(m) # Home(p + 1)
        <5> HIDE DEF p
        <5>1. p + 1 \in Nat \ {0} /\ ~(m >= (p + 1) + channel_size) /\ p + 1 < m
          BY <1>3, <3>1, <4>1, ChannelAssumption
        <5> QED
          BY <3>1, <5>1, HomeApart
      <4>3. m > p
        BY <1>3, <3>1, <4>1
      <4> QED
        BY <1>6, <3>1, <3>3, <4>2, <4>3 DEF BitmapInv
    <3> QED
      BY <3>2, <3>3
  <2>2. ASSUME NEW q \in readers, NEW s \in Slots, bitmap_bit[q] \in bitmap'[s]
        PROVE  data[s] \in sent /\ data[s] > Position(q)' /\ s = Home(data[s])
    <3>1. bitmap_bit[q] \in bitmap[s]
      BY <1>6, <2>2
    <3>2. data[s] \in sent /\ data[s] > Position(q) /\ s = Home(data[s])
      BY <3>1 DEF BitmapInv
    <3>3. CASE q # r
      BY <1>5, <3>2, <3>3
    <3>4. CASE q = r
      <4>1. s # Home(p + 1)
        BY <1>6, <2>2, <3>4
      <4>2. data[s] # p + 1
        BY <3>2, <4>1
      <4>3. data[s] \in Nat
        <5>1. \A m \in sent : m \in Nat
          BY ChannelAssumption DEF Msgs
        <5> QED
          BY <3>2, <5>1
      <4>4. data[s] > p
        BY <3>2, <3>4
      <4>5. Position(q)' = p + 1
        BY <1>4, <3>4
      <4> HIDE DEF p
      <4>6. data[s] > p + 1
        BY <1>3, <4>2, <4>3, <4>4
      <4> QED
        BY <3>2, <4>5, <4>6
    <3> QED
      BY <3>3, <3>4
  <2>3. \A s \in Slots : bitmap'[s] \subseteq BitOf({q \in Readers : rpc[q] # "new"})
    BY DEF BitmapInv
  <2>4. {q \in Readers : rpc[q] # "new"}' = {q \in Readers : rpc[q] # "new"}
    OBVIOUS
  <2> HIDE DEF p
  <2> QED
    BY <2>1, <2>2, <2>3, <2>4 DEF BitmapInv, BitOf, Home
<1>10. WindowInv'
  <2>1. \A q \in readers : \A m \in sent : m <= Position(q)' + channel_size
    <3>1. \A m \in sent : m \in Nat
      BY ChannelAssumption DEF Msgs
    <3>2. \A m \in sent : m <= Position(r)' + channel_size
      BY <1>1, <1>3, <1>4, <3>1, ChannelAssumption DEF WindowInv
    <3> QED
      BY <1>5, <3>2 DEF WindowInv
  <2>2. \A q \in readers : \A w \in Writers :
          wpc[w] \in Writing => msg[w] <= Position(q)' + channel_size
    <3>1. \A w \in Writers : msg[w] \in Nat
      BY ChannelAssumption DEF WriterTypeOK, Msgs, NoMsg
    <3>2. \A w \in Writers : wpc[w] \in Writing => msg[w] <= Position(r)' + channel_size
      BY <1>1, <1>3, <1>4, <3>1, ChannelAssumption DEF WindowInv
    <3> QED
      BY <1>5, <3>2 DEF WindowInv
  <2> QED
    BY <2>1, <2>2 DEF WindowInv, Writing
<1>11. ExactlyOnceInOrder'
  <2>1. ASSUME NEW i \in 1 .. Len(got'[r]) PROVE got'[r][i] = first[r] + i
    <3>1. got[r] \in Seq(Contents)
      OBVIOUS
    <3>2. CASE i = Len(got[r]) + 1
      BY <1>3, <1>4, <3>1, <3>2
    <3>3. CASE i # Len(got[r]) + 1
      <4>1. i \in 1 .. Len(got[r])
        BY <1>3, <1>4, <2>1, <3>3
      <4>2. got'[r][i] = got[r][i]
        BY <1>4, <3>1, <4>1
      <4> QED
        BY <4>1, <4>2 DEF ExactlyOnceInOrder
    <3> QED
      BY <3>2, <3>3
  <2>2. \A q \in Readers : q # r => got'[q] = got[q]
    OBVIOUS
  <2> QED
    BY <2>1, <2>2 DEF ExactlyOnceInOrder
<1> QED
  BY <1>7, <1>8, <1>9, <1>10, <1>11

(* The read returns: the reader goes to the slot of the next message. *)
LEMMA OrderWake ==
  ASSUME AllInv, NEW r \in Readers, ReadWake(r) PROVE OrderInv'
<1> USE DEF AllInv, OrderInv, ReadWake, WakeWriters, ReaderGoto,
            TypeOK, ChanTypeOK, CtrlTypeOK, ReaderTypeOK, WriterTypeOK
<1>1. /\ next_read_idx' = [next_read_idx EXCEPT ![r] = NextIdx(@)]
      /\ rpc' = [rpc EXCEPT ![r] = "idle"]
      /\ UNCHANGED <<multicast_mask, bitmap, data, next_write_idx, readers, bitmap_bit,
                     online, rbuf, slot, msg, reg, claimed, sent, got, first>>
  BY DEF history
<1>2. \A w \in Writers : wpc'[w] = wpc[w] \/ (wpc[w] = "sleep" /\ wpc'[w] = "test")
  OBVIOUS
<1>3. r \in readers
  BY DEF MaskInv, RegisteredUntilRelease, Away
<1>4. NextIdx(next_read_idx[r]) = Home(Position(r) + 1)
  <2>1. Position(r) \in Nat \ {0} /\ next_read_idx[r] = Home(Position(r))
    BY <1>3, PositionType DEF ReaderInv
  <2> QED
    BY <2>1, HomeNext
<1>5. ClaimInv'
  <2>1. \A w \in Writers : /\ wpc'[w] = "idle" <=> wpc[w] = "idle"
                           /\ wpc'[w] \in {"mask", "publish"} => wpc'[w] = wpc[w]
    BY <1>2
  <2> QED
    BY <1>1, <2>1 DEF ClaimInv, Home
<1>6. ReaderInv'
  BY <1>1, <1>4 DEF ReaderInv, Position, Home
<1>7. BitmapInv'
  <2>1. {q \in Readers : rpc[q] # "new"}' = {q \in Readers : rpc[q] # "new"}
    BY <1>1
  <2> QED
    BY <1>1, <1>2, <2>1 DEF BitmapInv, BitOf, Position, Home
<1>8. WindowInv'
  BY <1>1, <1>2 DEF WindowInv, Position, Writing
<1> QED
  BY <1>1, <1>5, <1>6, <1>7, <1>8 DEF ExactlyOnceInOrder

-----------------------------------------------------------------------------
(* Each action keeps the order invariant. *)
LEMMA OrderStep ==
  ASSUME OrderEnv, NBits <= IntBits, AllInv, [Next]_vars
  PROVE  OrderInv'
<1> USE DEF AllInv, TypeOK, ChanTypeOK, ReaderTypeOK, WriterTypeOK, ReaderGoto, WriterGoto,
            WriteReturn, chan, ctrl, rlocal, wlocal, history
<1>1. ASSUME NEW r \in Readers, ReadStep(r) PROVE OrderInv'
  <2>1. CASE ReadCall(r)
    BY <2>1, OrderFrame DEF ReadCall
  <2> QED
    BY <1>1, <2>1, OrderReleaseSlot, OrderReady, OrderCopied, OrderCheck, OrderClear,
       OrderWake DEF ReadStep
<1>2. ASSUME NEW r \in Readers, ReaderEnv(r) PROVE OrderInv'
  <2>1. CASE OpenFull(r)
    BY <2>1, OrderFrame DEF OpenFull
  <2>2. CASE Poll(r)
    BY <2>2, OrderFrame DEF Poll
  <2>3. CASE ReadGivesUp(r)
    BY <2>3, OrderFrame DEF ReadGivesUp
  <2>4. CASE ReadFault(r)
    BY <2>4 DEF ReadFault, OrderEnv
  <2> QED
    BY <1>2, <2>1, <2>2, <2>3, <2>4, OrderOpen, OrderRelease DEF ReaderEnv
<1>3. ASSUME NEW w \in Writers, WriteStep(w) PROVE OrderInv'
  <2>1. CASE WriteSleep(w)
    BY <2>1, OrderFrame DEF WriteSleep, Writing
  <2>2. CASE WriteExpire(w)
    BY <2>2 DEF WriteExpire, OrderEnv
  <2>3. ~(\/ TimeoutBitmap(w) \/ TimeoutMask(w) \/ StripTest(w) \/ StripLoad(w)
          \/ StripStore(w) \/ Evict(w))
    BY DEF SteadyInv, NoTimerExpired, Evicting, TimeoutBitmap, TimeoutMask, StripTest,
           StripLoad, StripStore, Evict
  <2> QED
    BY <1>3, <2>1, <2>2, <2>3, OrderTest, OrderCopyStart, OrderCopyEnd, OrderLoadMask,
       OrderPublish DEF WriteStep
<1>4. ASSUME NEW w \in Writers, WriterEnv(w) PROVE OrderInv'
  <2>1. ~(WriteAgain(w) \/ WriteInterrupted(w) \/ WriteSignal(w) \/ CopyFault(w))
    BY DEF OrderEnv, WriteAgain, WriteInterrupted, WriteSignal, CopyFault
  <2> QED
    BY <1>4, <2>1, OrderClaim DEF WriterEnv
<1>5. CASE UNCHANGED vars
  BY <1>5, OrderFrame DEF vars
<1> QED
  BY <1>1, <1>2, <1>3, <1>4, <1>5 DEF Next

(* A fresh channel has no message, and its readers start at its first one. *)
LEMMA OrderInit == ASSUME OrderEnv PROVE Init => OrderInv
<1> SUFFICES ASSUME Init PROVE OrderInv
  OBVIOUS
<1>1. Home(1) = 0
  <2>1. 1 - 1 = 0 /\ 0 \in Nat /\ 0 < channel_size
    BY ChannelAssumption
  <2> QED
    BY <2>1, SmallIndex, ChannelAssumption DEF Home
<1>2. next_write_idx = Home(claimed + 1) /\ 1 .. claimed = {}
  BY <1>1 DEF Init
<1>3. ClaimInv
  BY <1>2 DEF Init, ClaimInv
<1>4. ReaderInv /\ BitmapInv /\ WindowInv
  BY DEF Init, ReaderInv, BitmapInv, WindowInv, BitOf, Writing
<1>5. ExactlyOnceInOrder
  BY DEF Init, ExactlyOnceInOrder
<1> QED
  BY <1>3, <1>4, <1>5 DEF OrderInv

(* The invariants hold together in every state. *)
LEMMA AllInvCorrect ==
  ASSUME OrderEnv, NBits <= IntBits
  PROVE  Spec => []AllInv
<1>1. AllInv /\ [Next]_vars => OrderInv'
  BY OrderStep
<1>2. Init => OrderInv
  BY OrderInit
<1>3. Spec => [](TypeOK /\ MaskInv /\ SteadyInv)
  BY SteadyCorrect, OrderEnvIsSteady
<1> QED
  BY <1>1, <1>2, <1>3, PTL DEF Spec, AllInv

(* Before any timer expires, each message lives in its home slot until      *)
(* every registered reader has consumed it, and its bit says who has not.   *)
THEOREM OrderInvariant ==
  ASSUME OrderEnv, NBits <= IntBits
  PROVE  Spec => []OrderInv
<1>1. AllInv => OrderInv
  BY DEF AllInv
<1> QED
  BY <1>1, AllInvCorrect, PTL

(* Before any timer expires, with readers that may leave at any moment,    *)
(* every reader gets every message claimed since its open once, in claim   *)
(* order and whole: for any number of slots, readers and writers.          *)
THEOREM OrderCorrect ==
  ASSUME OrderEnv, NBits <= IntBits
  PROVE  Spec => []ExactlyOnceInOrder
<1>1. AllInv => ExactlyOnceInOrder
  BY DEF AllInv, OrderInv
<1> QED
  BY <1>1, AllInvCorrect, PTL

-----------------------------------------------------------------------------
(* Every step of kzimp is a step of the multicast channel, or none. *)
LEMMA RefinesStep ==
  ASSUME OrderEnv, NBits <= IntBits, AllInv, AllInv', [Next]_vars
  PROVE  [Channel!Next]_(Channel!vars)
<1> USE DEF Channel!vars, AllInv, TypeOK, HistoryTypeOK
<1>1. ASSUME NEW r \in Readers, ReadStep(r) PROVE [Channel!Next]_(Channel!vars)
  <2>1. CASE ReadClear(r)
    <3>1. /\ r \in readers
          /\ Position(r) + 1 \in sent
          /\ rbuf[r] = Position(r) + 1
      BY <2>1, ReadsNext DEF ReadClear, OrderInv, ReaderInv
    <3>2. Channel!Deliver(r)
      BY <2>1, <3>1 DEF Channel!Deliver, Channel!Position, Position, ReadClear
    <3> QED
      BY <3>2 DEF Channel!Next
  <2>2. CASE ~ReadClear(r)
    BY <1>1, <2>2 DEF ReadStep, ReleaseSlot, ReadCall, ReadReady, ReadCopied, ReadCheck,
       ReadWake, WakeWriters, chan, history
  <2> QED
    BY <2>1, <2>2
<1>2. ASSUME NEW r \in Readers, ReaderEnv(r) PROVE [Channel!Next]_(Channel!vars)
  <2>1. CASE Open(r)
    <3>1. Quiet /\ r \notin readers
      BY <2>1 DEF Open, OrderEnv, MaskInv, RegisteredUntilRelease, Away
    <3>2. sent = 1 .. claimed
      <4>1. sent \subseteq 1 .. claimed
        BY DEF OrderInv, ClaimInv
      <4>2. \A m \in 1 .. claimed : m \in sent
        BY <3>1 DEF OrderInv, ClaimInv, Quiet
      <4> QED
        BY <4>1, <4>2
    <3>3. Channel!Join(r)
      BY <2>1, <3>1, <3>2 DEF Open, Channel!Join
    <3> QED
      BY <3>3 DEF Channel!Next
  <2>2. CASE Release(r)
    <3>1. r \in readers
      BY <2>2 DEF Release, MaskInv, RegisteredUntilRelease, Away
    <3>2. Channel!Leave(r)
      BY <2>2, <3>1 DEF Release, Channel!Leave, history
    <3> QED
      BY <3>2 DEF Channel!Next
  <2>3. CASE ~Open(r) /\ ~Release(r)
    BY <1>2, <2>3 DEF ReaderEnv, OpenFull, Poll, ReadGivesUp, ReadFault, chan, history
  <2> QED
    BY <2>1, <2>2, <2>3
<1>3. ASSUME NEW w \in Writers, WriteStep(w) PROVE [Channel!Next]_(Channel!vars)
  <2>1. CASE Publish(w)
    <3>1. msg[w] \in (1 .. claimed) \ sent /\ msg[w] \in Msgs
      BY <2>1, ChannelAssumption DEF Publish, OrderInv, ClaimInv, Msgs
    <3>2. \A r \in readers : msg[w] <= Position(r) + channel_size
      BY <2>1 DEF Publish, OrderInv, WindowInv, Writing
    <3>3. Channel!Publish(msg[w])
      BY <2>1, <3>1, <3>2 DEF Publish, Channel!Publish, Channel!Position, Position
    <3>4. msg[w] \in Channel!Messages
      BY <3>1 DEF Channel!Messages, Msgs
    <3> QED
      BY <3>3, <3>4 DEF Channel!Next
  <2>2. CASE ~Publish(w)
    BY <1>3, <2>2 DEF WriteStep, WriteTest, WriteSleep, WriteExpire, TimeoutBitmap,
       TimeoutMask, StripTest, StripLoad, StripStore, Evict, CopyStart, CopyEnd, LoadMask,
       chan, history
  <2> QED
    BY <2>1, <2>2
<1>4. ASSUME NEW w \in Writers, WriterEnv(w) PROVE [Channel!Next]_(Channel!vars)
  <2>1. CASE Claim(w)
    <3>1. Channel!Accept
      BY <2>1 DEF Claim, Channel!Accept
    <3> QED
      BY <3>1 DEF Channel!Next
  <2>2. CASE ~Claim(w)
    BY <1>4, <2>2 DEF WriterEnv, WriteAgain, WriteInterrupted, WriteSignal, CopyFault, chan, history
  <2> QED
    BY <2>1, <2>2
<1>5. CASE UNCHANGED vars
  BY <1>5 DEF vars, chan, history
<1> QED
  BY <1>1, <1>2, <1>3, <1>4, <1>5 DEF Next

(* kzimp before any timer expires implements the multicast channel: a claim *)
(* accepts a message, the store of its bitmap publishes it, a clear_bit     *)
(* delivers it, open joins and release leaves; nothing else is visible. In  *)
(* particular nothing is published more than a ring ahead of any reader.    *)
THEOREM Refinement ==
  ASSUME OrderEnv, NBits <= IntBits
  PROVE  Spec => RefinesMulticast
<1>1. Init => Channel!Init
  BY DEF Init, Channel!Init
<1>2. AllInv /\ AllInv' /\ [Next]_vars => [Channel!Next]_(Channel!vars)
  BY RefinesStep
<1> QED
  BY <1>1, <1>2, AllInvCorrect, PTL DEF Spec, RefinesMulticast, Channel!Spec
=============================================================================
