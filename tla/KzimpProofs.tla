---------------------------- MODULE KzimpProofs ----------------------------
EXTENDS Kzimp, RingArithmetic, TLAPS

(* The successor of a slot index is a slot index: (i + 1) % channel_size *)
LEMMA NextIdxIsSlot == ASSUME NEW s \in Slots PROVE NextIdx(s) \in Slots
<1>1. s + 1 \in Nat
  BY DEF Slots
<1> QED
  BY <1>1, ChannelAssumption, DivMod DEF Slots, NextIdx

(* Each action of the readers and writers keeps the state well typed. *)
LEMMA TypeStep == TypeOK /\ [Next]_vars => TypeOK'
<1> SUFFICES ASSUME TypeOK, [Next]_vars PROVE TypeOK'
  OBVIOUS
<1> USE ChannelAssumption DEF TypeOK, ReaderGoto, WriterGoto
<1>1. ASSUME NEW r \in Readers, ReleaseSlot(r) PROVE TypeOK'
  <2>1. CtrlTypeOK' /\ WriterTypeOK' /\ HistoryTypeOK'
    BY <1>1 DEF ReleaseSlot, ctrl, wlocal, history, CtrlTypeOK, WriterTypeOK, HistoryTypeOK
  <2>2. ChanTypeOK'
    BY <1>1, NextIdxIsSlot DEF ReleaseSlot, ChanTypeOK, Contents, CtrlTypeOK, ReaderTypeOK
  <2>3. ReaderTypeOK'
    BY <1>1, NextIdxIsSlot DEF ReleaseSlot, ReaderTypeOK, ReaderPcs, Contents, ChanTypeOK, CtrlTypeOK
  <2> QED
    BY <2>1, <2>2, <2>3
<1>2. ASSUME NEW r \in Readers, ReadCall(r) PROVE TypeOK'
  <2>1. ChanTypeOK' /\ CtrlTypeOK' /\ WriterTypeOK' /\ HistoryTypeOK'
    BY <1>2 DEF ReadCall, chan, ctrl, wlocal, history, ChanTypeOK, CtrlTypeOK, WriterTypeOK, HistoryTypeOK
  <2>2. ReaderTypeOK'
    BY <1>2 DEF ReadCall, ReaderTypeOK, ReaderPcs, Contents, ChanTypeOK, CtrlTypeOK
  <2> QED
    BY <2>1, <2>2
<1>3. ASSUME NEW r \in Readers, ReadReady(r) PROVE TypeOK'
  <2>1. ChanTypeOK' /\ CtrlTypeOK' /\ WriterTypeOK' /\ HistoryTypeOK'
    BY <1>3 DEF ReadReady, chan, ctrl, wlocal, history, ChanTypeOK, CtrlTypeOK, WriterTypeOK, HistoryTypeOK
  <2>2. ReaderTypeOK'
    BY <1>3 DEF ReadReady, ReaderTypeOK, ReaderPcs, Contents, ChanTypeOK, CtrlTypeOK
  <2> QED
    BY <2>1, <2>2
<1>4. ASSUME NEW r \in Readers, ReadCopied(r) PROVE TypeOK'
  <2>1. ChanTypeOK' /\ CtrlTypeOK' /\ WriterTypeOK' /\ HistoryTypeOK'
    BY <1>4 DEF ReadCopied, chan, ctrl, wlocal, history, ChanTypeOK, CtrlTypeOK, WriterTypeOK, HistoryTypeOK
  <2>2. ReaderTypeOK'
    BY <1>4 DEF ReadCopied, ReaderTypeOK, ReaderPcs, Contents, ChanTypeOK, CtrlTypeOK
  <2> QED
    BY <2>1, <2>2
<1>5. ASSUME NEW r \in Readers, ReadCheck(r) PROVE TypeOK'
  <2>1. ChanTypeOK' /\ CtrlTypeOK' /\ WriterTypeOK' /\ HistoryTypeOK'
    BY <1>5 DEF ReadCheck, chan, ctrl, wlocal, history, ChanTypeOK, CtrlTypeOK, WriterTypeOK, HistoryTypeOK
  <2>2. ReaderTypeOK'
    BY <1>5 DEF ReadCheck, ReaderTypeOK, ReaderPcs, Contents, ChanTypeOK, CtrlTypeOK
  <2> QED
    BY <2>1, <2>2
<1>6. ASSUME NEW r \in Readers, ReadClear(r) PROVE TypeOK'
  <2>1. CtrlTypeOK' /\ WriterTypeOK'
    BY <1>6 DEF ReadClear, ctrl, wlocal, CtrlTypeOK, WriterTypeOK
  <2>2. ChanTypeOK'
    BY <1>6 DEF ReadClear, ChanTypeOK, Contents, CtrlTypeOK, ReaderTypeOK
  <2>3. ReaderTypeOK'
    BY <1>6 DEF ReadClear, ReaderTypeOK, ReaderPcs, Contents, ChanTypeOK, CtrlTypeOK
  <2>4. HistoryTypeOK'
    BY <1>6 DEF ReadClear, HistoryTypeOK, ReaderTypeOK, WriterTypeOK, Msgs, Contents
  <2> QED
    BY <2>1, <2>2, <2>3, <2>4
<1>7. ASSUME NEW r \in Readers, ReadWake(r) PROVE TypeOK'
  <2>1. HistoryTypeOK'
    BY <1>7 DEF ReadWake, WakeWriters, history, HistoryTypeOK
  <2>2. ChanTypeOK'
    BY <1>7, NextIdxIsSlot DEF ReadWake, WakeWriters, ChanTypeOK, Contents, CtrlTypeOK, ReaderTypeOK
  <2>3. CtrlTypeOK'
    BY <1>7, NextIdxIsSlot DEF ReadWake, WakeWriters, CtrlTypeOK, ChanTypeOK
  <2>4. ReaderTypeOK'
    BY <1>7, NextIdxIsSlot DEF ReadWake, WakeWriters, ReaderTypeOK, ReaderPcs, Contents, ChanTypeOK, CtrlTypeOK
  <2>5. WriterTypeOK'
    BY <1>7 DEF ReadWake, WakeWriters, WriterTypeOK, WriterPcs, ChanTypeOK, HistoryTypeOK, Bits, Slots, Msgs
  <2> QED
    BY <2>1, <2>2, <2>3, <2>4, <2>5
<1>8. ASSUME NEW r \in Readers, Open(r) PROVE TypeOK'
  <2>1. WriterTypeOK'
    BY <1>8 DEF Open, wlocal, WriterTypeOK
  <2>2. ChanTypeOK'
    BY <1>8 DEF Open, FirstZeroBit, ChanTypeOK, Contents, CtrlTypeOK, ReaderTypeOK
  <2>3. CtrlTypeOK'
    BY <1>8 DEF Open, FirstZeroBit, CtrlTypeOK, ChanTypeOK
  <2>4. ReaderTypeOK'
    BY <1>8 DEF Open, FirstZeroBit, ReaderTypeOK, ReaderPcs, Contents, ChanTypeOK, CtrlTypeOK
  <2>5. HistoryTypeOK'
    BY <1>8 DEF Open, FirstZeroBit, HistoryTypeOK, ReaderTypeOK, WriterTypeOK, Msgs, Contents
  <2> QED
    BY <2>1, <2>2, <2>3, <2>4, <2>5
<1>9. ASSUME NEW r \in Readers, OpenFull(r) PROVE TypeOK'
  <2>1. CtrlTypeOK' /\ ReaderTypeOK' /\ WriterTypeOK' /\ HistoryTypeOK'
    BY <1>9 DEF OpenFull, ctrl, rlocal, wlocal, history, CtrlTypeOK, ReaderTypeOK, WriterTypeOK, HistoryTypeOK
  <2>2. ChanTypeOK'
    BY <1>9 DEF OpenFull, ChanTypeOK, Contents, CtrlTypeOK, ReaderTypeOK
  <2> QED
    BY <2>1, <2>2
<1>10. ASSUME NEW r \in Readers, Release(r) PROVE TypeOK'
  <2>1. CtrlTypeOK' /\ WriterTypeOK' /\ HistoryTypeOK'
    BY <1>10 DEF Release, ctrl, wlocal, history, CtrlTypeOK, WriterTypeOK, HistoryTypeOK
  <2>2. ChanTypeOK'
    BY <1>10 DEF Release, ChanTypeOK, Contents, CtrlTypeOK, ReaderTypeOK
  <2>3. ReaderTypeOK'
    BY <1>10 DEF Release, ReaderTypeOK, ReaderPcs, Contents, ChanTypeOK, CtrlTypeOK
  <2> QED
    BY <2>1, <2>2, <2>3
<1>11. ASSUME NEW r \in Readers, Poll(r) PROVE TypeOK'
  <2>1. ChanTypeOK' /\ CtrlTypeOK' /\ WriterTypeOK' /\ HistoryTypeOK'
    BY <1>11 DEF Poll, chan, ctrl, wlocal, history, ChanTypeOK, CtrlTypeOK, WriterTypeOK, HistoryTypeOK
  <2>2. ReaderTypeOK'
    BY <1>11 DEF Poll, ReaderTypeOK, ReaderPcs, Contents, ChanTypeOK, CtrlTypeOK
  <2> QED
    BY <2>1, <2>2
<1>12. ASSUME NEW r \in Readers, ReadGivesUp(r) PROVE TypeOK'
  <2>1. ChanTypeOK' /\ CtrlTypeOK' /\ WriterTypeOK' /\ HistoryTypeOK'
    BY <1>12 DEF ReadGivesUp, chan, ctrl, wlocal, history, ChanTypeOK, CtrlTypeOK, WriterTypeOK, HistoryTypeOK
  <2>2. ReaderTypeOK'
    BY <1>12 DEF ReadGivesUp, ReaderTypeOK, ReaderPcs, Contents, ChanTypeOK, CtrlTypeOK
  <2> QED
    BY <2>1, <2>2
<1>13. ASSUME NEW r \in Readers, ReadFault(r) PROVE TypeOK'
  <2>1. ChanTypeOK' /\ CtrlTypeOK' /\ WriterTypeOK' /\ HistoryTypeOK'
    BY <1>13 DEF ReadFault, chan, ctrl, wlocal, history, ChanTypeOK, CtrlTypeOK, WriterTypeOK, HistoryTypeOK
  <2>2. ReaderTypeOK'
    BY <1>13 DEF ReadFault, ReaderTypeOK, ReaderPcs, Contents, ChanTypeOK, CtrlTypeOK
  <2> QED
    BY <2>1, <2>2
<1>14. ASSUME NEW w \in Writers, WriteTest(w) PROVE TypeOK'
  <2>1. ChanTypeOK' /\ CtrlTypeOK' /\ ReaderTypeOK' /\ HistoryTypeOK'
    BY <1>14 DEF WriteTest, chan, ctrl, rlocal, history, ChanTypeOK, CtrlTypeOK, ReaderTypeOK, HistoryTypeOK
  <2>2. WriterTypeOK'
    BY <1>14 DEF WriteTest, WriterTypeOK, WriterPcs, ChanTypeOK, HistoryTypeOK, Bits, Slots, Msgs
  <2> QED
    BY <2>1, <2>2
<1>15. ASSUME NEW w \in Writers, WriteSleep(w) PROVE TypeOK'
  <2>1. CtrlTypeOK' /\ ReaderTypeOK' /\ HistoryTypeOK'
    BY <1>15 DEF WriteSleep, ctrl, rlocal, history, CtrlTypeOK, ReaderTypeOK, HistoryTypeOK
  <2>2. ChanTypeOK'
    BY <1>15 DEF WriteSleep, ChanTypeOK, Contents, WriterTypeOK
  <2>3. WriterTypeOK'
    BY <1>15 DEF WriteSleep, WriterTypeOK, WriterPcs, ChanTypeOK, HistoryTypeOK, Bits, Slots, Msgs
  <2> QED
    BY <2>1, <2>2, <2>3
<1>16. ASSUME NEW w \in Writers, WriteExpire(w) PROVE TypeOK'
  <2>1. CtrlTypeOK' /\ ReaderTypeOK' /\ HistoryTypeOK'
    BY <1>16 DEF WriteExpire, ctrl, rlocal, history, CtrlTypeOK, ReaderTypeOK, HistoryTypeOK
  <2>2. ChanTypeOK'
    BY <1>16 DEF WriteExpire, ChanTypeOK, Contents, WriterTypeOK
  <2>3. WriterTypeOK'
    BY <1>16 DEF WriteExpire, WriterTypeOK, WriterPcs, ChanTypeOK, HistoryTypeOK, Bits, Slots, Msgs
  <2> QED
    BY <2>1, <2>2, <2>3
<1>17. ASSUME NEW w \in Writers, TimeoutBitmap(w) PROVE TypeOK'
  <2>1. ChanTypeOK' /\ CtrlTypeOK' /\ ReaderTypeOK' /\ HistoryTypeOK'
    BY <1>17 DEF TimeoutBitmap, chan, ctrl, rlocal, history, ChanTypeOK, CtrlTypeOK, ReaderTypeOK, HistoryTypeOK
  <2>2. WriterTypeOK'
    BY <1>17 DEF TimeoutBitmap, WriterTypeOK, WriterPcs, ChanTypeOK, HistoryTypeOK, Bits, Slots, Msgs
  <2> QED
    BY <2>1, <2>2
<1>18. ASSUME NEW w \in Writers, TimeoutMask(w) PROVE TypeOK'
  <2>1. CtrlTypeOK' /\ ReaderTypeOK' /\ HistoryTypeOK'
    BY <1>18 DEF TimeoutMask, ctrl, rlocal, history, CtrlTypeOK, ReaderTypeOK, HistoryTypeOK
  <2>2. ChanTypeOK'
    BY <1>18 DEF TimeoutMask, ChanTypeOK, Contents, WriterTypeOK
  <2>3. WriterTypeOK'
    BY <1>18 DEF TimeoutMask, WriterTypeOK, WriterPcs, ChanTypeOK, HistoryTypeOK, Bits, Slots, Msgs
  <2> QED
    BY <2>1, <2>2, <2>3
<1>19. ASSUME NEW w \in Writers, StripTest(w) PROVE TypeOK'
  <2>1. ChanTypeOK' /\ CtrlTypeOK' /\ ReaderTypeOK' /\ HistoryTypeOK'
    BY <1>19 DEF StripTest, chan, ctrl, rlocal, history, ChanTypeOK, CtrlTypeOK, ReaderTypeOK, HistoryTypeOK
  <2>2. WriterTypeOK'
    <3>1. CASE bitmap[wcur[w]] = {}
      BY <1>19, <3>1 DEF StripTest, WriterTypeOK, WriterPcs, Slots
    <3>2. CASE bitmap[wcur[w]] # {}
      BY <1>19, <3>2 DEF StripTest, WriterTypeOK, WriterPcs
    <3> QED
      BY <3>1, <3>2
  <2> QED
    BY <2>1, <2>2
<1>20. ASSUME NEW w \in Writers, StripLoad(w) PROVE TypeOK'
  <2>1. ChanTypeOK' /\ CtrlTypeOK' /\ ReaderTypeOK' /\ HistoryTypeOK'
    BY <1>20 DEF StripLoad, chan, ctrl, rlocal, history, ChanTypeOK, CtrlTypeOK, ReaderTypeOK, HistoryTypeOK
  <2>2. WriterTypeOK'
    BY <1>20 DEF StripLoad, WriterTypeOK, WriterPcs, ChanTypeOK, HistoryTypeOK, Bits, Slots, Msgs
  <2> QED
    BY <2>1, <2>2
<1>21. ASSUME NEW w \in Writers, StripStore(w) PROVE TypeOK'
  <2>1. CtrlTypeOK' /\ ReaderTypeOK' /\ HistoryTypeOK'
    BY <1>21 DEF StripStore, ctrl, rlocal, history, CtrlTypeOK, ReaderTypeOK, HistoryTypeOK
  <2>2. ChanTypeOK'
    BY <1>21 DEF StripStore, ChanTypeOK, Contents, WriterTypeOK
  <2>3. WriterTypeOK'
    BY <1>21 DEF StripStore, WriterTypeOK, WriterPcs, ChanTypeOK, HistoryTypeOK, Bits, Slots, Msgs
  <2> QED
    BY <2>1, <2>2, <2>3
<1>22. ASSUME NEW w \in Writers, Evict(w) PROVE TypeOK'
  <2>1. ReaderTypeOK' /\ HistoryTypeOK'
    BY <1>22 DEF Evict, rlocal, history, ReaderTypeOK, HistoryTypeOK
  <2>2. ChanTypeOK'
    BY <1>22 DEF Evict, ChanTypeOK, Contents, WriterTypeOK
  <2>3. CtrlTypeOK'
    BY <1>22 DEF Evict, CtrlTypeOK, ChanTypeOK
  <2>4. WriterTypeOK'
    BY <1>22 DEF Evict, WriterTypeOK, WriterPcs, ChanTypeOK, HistoryTypeOK, Bits, Slots, Msgs
  <2> QED
    BY <2>1, <2>2, <2>3, <2>4
<1>23. ASSUME NEW w \in Writers, CopyStart(w) PROVE TypeOK'
  <2>1. CtrlTypeOK' /\ ReaderTypeOK' /\ HistoryTypeOK'
    BY <1>23 DEF CopyStart, ctrl, rlocal, history, CtrlTypeOK, ReaderTypeOK, HistoryTypeOK
  <2>2. ChanTypeOK'
    BY <1>23 DEF CopyStart, ChanTypeOK, Contents, WriterTypeOK, Msgs
  <2>3. WriterTypeOK'
    BY <1>23 DEF CopyStart, WriterTypeOK, WriterPcs, ChanTypeOK, HistoryTypeOK, Bits, Slots, Msgs
  <2> QED
    BY <2>1, <2>2, <2>3
<1>24. ASSUME NEW w \in Writers, CopyEnd(w) PROVE TypeOK'
  <2>1. CtrlTypeOK' /\ ReaderTypeOK' /\ HistoryTypeOK'
    BY <1>24 DEF CopyEnd, ctrl, rlocal, history, CtrlTypeOK, ReaderTypeOK, HistoryTypeOK
  <2>2. ChanTypeOK'
    BY <1>24 DEF CopyEnd, ChanTypeOK, Contents, WriterTypeOK, Msgs
  <2>3. WriterTypeOK'
    BY <1>24 DEF CopyEnd, WriterTypeOK, WriterPcs, ChanTypeOK, HistoryTypeOK, Bits, Slots, Msgs
  <2> QED
    BY <2>1, <2>2, <2>3
<1>25. ASSUME NEW w \in Writers, LoadMask(w) PROVE TypeOK'
  <2>1. ChanTypeOK' /\ CtrlTypeOK' /\ ReaderTypeOK' /\ HistoryTypeOK'
    BY <1>25 DEF LoadMask, chan, ctrl, rlocal, history, ChanTypeOK, CtrlTypeOK, ReaderTypeOK, HistoryTypeOK
  <2>2. WriterTypeOK'
    BY <1>25 DEF LoadMask, WriterTypeOK, WriterPcs, ChanTypeOK, HistoryTypeOK, Bits, Slots, Msgs
  <2> QED
    BY <2>1, <2>2
<1>26. ASSUME NEW w \in Writers, Publish(w) PROVE TypeOK'
  <2>1. CtrlTypeOK' /\ ReaderTypeOK'
    BY <1>26 DEF Publish, ctrl, rlocal, CtrlTypeOK, ReaderTypeOK
  <2>2. ChanTypeOK'
    BY <1>26 DEF Publish, WriteReturn, ChanTypeOK, Contents, WriterTypeOK
  <2>3. WriterTypeOK'
    BY <1>26 DEF Publish, WriteReturn, WriterTypeOK, WriterPcs, ChanTypeOK, HistoryTypeOK, Bits, Slots, Msgs
  <2>4. HistoryTypeOK'
    BY <1>26 DEF Publish, WriteReturn, HistoryTypeOK, ReaderTypeOK, WriterTypeOK, Msgs, Contents
  <2> QED
    BY <2>1, <2>2, <2>3, <2>4
<1>27. ASSUME NEW w \in Writers, Claim(w) PROVE TypeOK'
  <2>1. CtrlTypeOK' /\ ReaderTypeOK'
    BY <1>27 DEF Claim, ctrl, rlocal, CtrlTypeOK, ReaderTypeOK
  <2>2. ChanTypeOK'
    BY <1>27, NextIdxIsSlot DEF Claim, ChanTypeOK, Contents, WriterTypeOK
  <2>3. WriterTypeOK'
    BY <1>27 DEF Claim, WriterTypeOK, WriterPcs, ChanTypeOK, HistoryTypeOK, Bits, Slots, Msgs
  <2>4. HistoryTypeOK'
    BY <1>27 DEF Claim, HistoryTypeOK, ReaderTypeOK, WriterTypeOK, Msgs, Contents
  <2> QED
    BY <2>1, <2>2, <2>3, <2>4
<1>28. ASSUME NEW w \in Writers, WriteAgain(w) PROVE TypeOK'
  <2>1. ChanTypeOK' /\ CtrlTypeOK' /\ ReaderTypeOK' /\ HistoryTypeOK'
    BY <1>28 DEF WriteAgain, chan, ctrl, rlocal, history, ChanTypeOK, CtrlTypeOK, ReaderTypeOK, HistoryTypeOK
  <2>2. WriterTypeOK'
    BY <1>28 DEF WriteAgain, WriteReturn, WriterTypeOK, WriterPcs, ChanTypeOK, HistoryTypeOK, Bits, Slots, Msgs
  <2> QED
    BY <2>1, <2>2
<1>29. ASSUME NEW w \in Writers, WriteInterrupted(w) PROVE TypeOK'
  <2>1. CtrlTypeOK' /\ ReaderTypeOK' /\ HistoryTypeOK'
    BY <1>29 DEF WriteInterrupted, ctrl, rlocal, history, CtrlTypeOK, ReaderTypeOK, HistoryTypeOK
  <2>2. ChanTypeOK'
    BY <1>29 DEF WriteInterrupted, WriteReturn, ChanTypeOK, Contents, WriterTypeOK
  <2>3. WriterTypeOK'
    BY <1>29 DEF WriteInterrupted, WriteReturn, WriterTypeOK, WriterPcs, ChanTypeOK, HistoryTypeOK, Bits, Slots, Msgs
  <2> QED
    BY <2>1, <2>2, <2>3
<1>30. ASSUME NEW w \in Writers, WriteSignal(w) PROVE TypeOK'
  <2>1. CtrlTypeOK' /\ ReaderTypeOK' /\ HistoryTypeOK'
    BY <1>30 DEF WriteSignal, ctrl, rlocal, history, CtrlTypeOK, ReaderTypeOK, HistoryTypeOK
  <2>2. ChanTypeOK'
    BY <1>30 DEF WriteSignal, ChanTypeOK, Contents, WriterTypeOK
  <2>3. WriterTypeOK'
    BY <1>30 DEF WriteSignal, WriterTypeOK, WriterPcs, ChanTypeOK, HistoryTypeOK, Bits, Slots, Msgs
  <2> QED
    BY <2>1, <2>2, <2>3
<1>31. ASSUME NEW w \in Writers, CopyFault(w) PROVE TypeOK'
  <2>1. ChanTypeOK' /\ CtrlTypeOK' /\ ReaderTypeOK' /\ HistoryTypeOK'
    BY <1>31 DEF CopyFault, chan, ctrl, rlocal, history, ChanTypeOK, CtrlTypeOK, ReaderTypeOK, HistoryTypeOK
  <2>2. WriterTypeOK'
    BY <1>31 DEF CopyFault, WriteReturn, WriterTypeOK, WriterPcs, ChanTypeOK, HistoryTypeOK, Bits, Slots, Msgs
  <2> QED
    BY <2>1, <2>2
<1>32. CASE UNCHANGED vars
  BY <1>32 DEF vars, chan, ctrl, rlocal, wlocal, history, ChanTypeOK, CtrlTypeOK, ReaderTypeOK, WriterTypeOK, HistoryTypeOK
<1> QED
  BY <1>1, <1>2, <1>3, <1>4, <1>5, <1>6, <1>7, <1>8, <1>9, <1>10, <1>11, <1>12, <1>13, <1>14, <1>15, <1>16, <1>17, <1>18, <1>19, <1>20, <1>21, <1>22, <1>23, <1>24, <1>25, <1>26, <1>27, <1>28, <1>29, <1>30, <1>31, <1>32 DEF Next, ReadStep, ReaderEnv, WriteStep, WriterEnv

(* The channel that kzimp_init_channel leaves is well typed. *)
LEMMA TypeInit == Init => TypeOK
BY ChannelAssumption DEF Init, TypeOK, ChanTypeOK, CtrlTypeOK, ReaderTypeOK,
  WriterTypeOK, HistoryTypeOK, Slots, Bits, Msgs, Contents, NoMsg, Torn, ReaderPcs, WriterPcs

(* Every variable of the channel, of its readers and of its writers keeps  *)
(* its type, whatever the environment does.                                *)
THEOREM TypeCorrect == Spec => []TypeOK
BY TypeInit, TypeStep, PTL DEF Spec

-----------------------------------------------------------------------------
(* With no more readers than an int has bits, the shift of reader_can_read *)
(* selects exactly the bit of the reader.                                  *)
LEMMA CanReadIsMembership ==
  ASSUME NBits <= IntBits, NEW bit \in Bits, NEW bm \in SUBSET Bits
  PROVE  reader_can_read(bm, bit) <=> bit \in bm
<1>1. bit \in Nat /\ bit < IntBits /\ IntBits \in Nat \ {0}
  BY ChannelAssumption DEF Bits
<1>2. bit % IntBits = bit
  BY <1>1, SmallIndex
<1> QED
  BY <1>2 DEF reader_can_read

(* MaskInv only looks at the mask, the lock, the registered readers and    *)
(* their bits, and at who is away or evicting.                             *)
LEMMA MaskFrame ==
  ASSUME MaskInv,
         UNCHANGED <<multicast_mask, bcl, readers, online, bitmap_bit>>,
         \A r \in Readers : rpc'[r] \in Away <=> rpc[r] \in Away,
         \A w \in Writers : wpc'[w] \in Evicting <=> wpc[w] \in Evicting,
         \A w \in Writers : wpc[w] \in Evicting => late'[w] = late[w],
         bcl \in Writers \cup {NoOne}
  PROVE  MaskInv'
<1>1. Active' = Active
  BY DEF Active
<1>2. BitOf(Active)' = BitOf(Active)
  BY <1>1 DEF BitOf
<1>3. Held' = Held
  BY DEF MaskInv, LockIsHeldByEvictor, Held
<1>4. LockIsHeldByEvictor' /\ RegisteredUntilRelease'
  BY DEF MaskInv, LockIsHeldByEvictor, RegisteredUntilRelease
<1>5. DistinctBits(Active)' /\ ("join" \notin Env => DistinctBits(readers)')
  BY <1>1 DEF MaskInv, DistinctBits
<1> QED
  BY <1>2, <1>3, <1>4, <1>5 DEF MaskInv, MaskIsActiveReadersNotHeld

(* An open under the lock takes a bit that no active reader has. *)
LEMMA MaskOpen ==
  ASSUME TypeOK, MaskInv, NEW r \in Readers, Open(r) PROVE MaskInv'
<1> USE DEF MaskInv
<1>1. PICK bit \in Bits :
        /\ bit \notin multicast_mask
        /\ multicast_mask' = multicast_mask \cup {bit}
        /\ bitmap_bit' = [bitmap_bit EXCEPT ![r] = bit]
  BY DEF Open, FirstZeroBit
<1>2. /\ bcl = NoOne /\ bcl' = NoOne /\ Held = {} /\ Held' = {}
      /\ UNCHANGED wpc
  BY DEF Open, Held, wlocal
<1>3. /\ r \notin readers
      /\ readers' = readers \cup {r}
      /\ online' = [online EXCEPT ![r] = TRUE]
      /\ rpc' = [rpc EXCEPT ![r] = "idle"]
  BY DEF Open, RegisteredUntilRelease, Away, ReaderGoto
<1>4. Active' = Active \cup {r} /\ r \notin Active
  BY <1>3 DEF Active, TypeOK, CtrlTypeOK, ChanTypeOK
<1>5. \A q \in readers : bitmap_bit'[q] = bitmap_bit[q]
  BY <1>1, <1>3 DEF TypeOK, CtrlTypeOK, ChanTypeOK
<1>6. bitmap_bit'[r] = bit /\ bit \notin BitOf(Active)
  BY <1>1, <1>2 DEF TypeOK, CtrlTypeOK, MaskIsActiveReadersNotHeld
<1>7. BitOf(Active)' = BitOf(Active) \cup {bit}
  BY <1>4, <1>5, <1>6 DEF BitOf, Active
<1>8. LockIsHeldByEvictor'
  BY <1>2 DEF LockIsHeldByEvictor
<1>9. RegisteredUntilRelease'
  BY <1>3 DEF RegisteredUntilRelease, Away, TypeOK, ReaderTypeOK
<1>10. MaskIsActiveReadersNotHeld'
  BY <1>1, <1>2, <1>7 DEF MaskIsActiveReadersNotHeld
<1>11. DistinctBits(Active)'
  BY <1>4, <1>5, <1>6 DEF DistinctBits, BitOf, Active
<1>12. ASSUME "join" \notin Env PROVE DistinctBits(readers)'
  <2>1. readers = Active
    BY <1>12 DEF Open, Quiet, Active, TypeOK, ChanTypeOK
  <2> QED
    BY <2>1, <1>3, <1>5, <1>6 DEF DistinctBits, BitOf
<1> QED
  BY <1>8, <1>9, <1>10, <1>11, <1>12

(* A release takes its own bit away and nobody else's, unless a reader may *)
(* have been given the bit of an evicted one.                              *)
LEMMA MaskRelease ==
  ASSUME ~({"join", "close"} \subseteq Env),
         TypeOK, MaskInv, NEW r \in Readers, Release(r)
  PROVE  MaskInv'
<1> USE DEF MaskInv
<1>1. "join" \notin Env
  BY DEF Release
<1>2. /\ bcl = NoOne /\ bcl' = NoOne /\ Held = {} /\ Held' = {}
      /\ UNCHANGED <<wpc, online, bitmap_bit>>
  BY DEF Release, Held, wlocal, ctrl
<1>3. /\ r \in readers
      /\ readers' = readers \ {r}
      /\ rpc' = [rpc EXCEPT ![r] = "closing"]
      /\ multicast_mask' = multicast_mask \ {bitmap_bit[r]}
  BY DEF Release, RegisteredUntilRelease, Away, ReaderGoto
<1>4. Active' = Active \ {r}
  BY <1>2, <1>3 DEF Active
<1>5. \A q \in Active \ {r} : bitmap_bit[q] # bitmap_bit[r]
  BY <1>1, <1>3 DEF Active, DistinctBits
<1>6. BitOf(Active)' = BitOf(Active) \ {bitmap_bit[r]}
  BY <1>2, <1>4, <1>5 DEF BitOf
<1>7. LockIsHeldByEvictor'
  BY <1>2 DEF LockIsHeldByEvictor
<1>8. RegisteredUntilRelease'
  BY <1>3 DEF RegisteredUntilRelease, Away, TypeOK, ReaderTypeOK
<1>9. MaskIsActiveReadersNotHeld'
  BY <1>2, <1>3, <1>6 DEF MaskIsActiveReadersNotHeld
<1>10. DistinctBits(Active)' /\ DistinctBits(readers)'
  BY <1>1, <1>2, <1>3, <1>4 DEF DistinctBits
<1> QED
  BY <1>7, <1>8, <1>9, <1>10

(* The writer that takes the lock removes its late readers from the mask ... *)
LEMMA MaskTimeout ==
  ASSUME TypeOK, MaskInv, NEW w \in Writers, TimeoutMask(w) PROVE MaskInv'
<1> USE DEF MaskInv
<1>1. /\ bcl = NoOne /\ bcl' = w /\ w # NoOne
      /\ multicast_mask' = multicast_mask \ late[w]
      /\ wpc' = [wpc EXCEPT ![w] = "strip"]
      /\ UNCHANGED <<readers, online, bitmap_bit, rpc, late>>
  BY ChannelAssumption DEF TimeoutMask, WriterGoto, ctrl, rlocal
<1>2. Held = {} /\ Held' = late[w]
  BY <1>1 DEF Held
<1>3. Active' = Active /\ BitOf(Active)' = BitOf(Active)
  BY <1>1 DEF Active, BitOf
<1>4. LockIsHeldByEvictor'
  BY <1>1, ChannelAssumption DEF LockIsHeldByEvictor, Evicting, TypeOK, WriterTypeOK
<1>5. MaskIsActiveReadersNotHeld'
  BY <1>1, <1>2, <1>3 DEF MaskIsActiveReadersNotHeld
<1>6. RegisteredUntilRelease' /\ DistinctBits(Active)'
      /\ ("join" \notin Env => DistinctBits(readers)')
  BY <1>1, <1>3 DEF RegisteredUntilRelease, DistinctBits
<1> QED
  BY <1>4, <1>5, <1>6

(* ... and when it unlocks, exactly those readers are offline. *)
LEMMA MaskEvict ==
  ASSUME NBits <= IntBits,
         TypeOK, MaskInv, NEW w \in Writers, Evict(w)
  PROVE  MaskInv'
<1> USE DEF MaskInv
<1>1. /\ bcl = w /\ w # NoOne
      /\ bcl' = NoOne
      /\ wpc' = [wpc EXCEPT ![w] = "copy"]
      /\ UNCHANGED <<multicast_mask, readers, bitmap_bit, rpc>>
  BY ChannelAssumption
  DEF Evict, LockIsHeldByEvictor, Evicting, WriterGoto, rlocal
<1>2. Held = late[w] /\ Held' = {}
  BY <1>1 DEF Held
<1>3. \A r \in Readers : online'[r] <=> online[r] /\ ~(r \in readers /\ bitmap_bit[r] \in late[w])
  BY CanReadIsMembership DEF Evict, TypeOK, CtrlTypeOK, WriterTypeOK
<1>4. Active' = {r \in Active : bitmap_bit[r] \notin late[w]}
  BY <1>1, <1>3 DEF Active, TypeOK, ChanTypeOK
<1>5. BitOf(Active)' = BitOf(Active) \ late[w]
  BY <1>1, <1>4 DEF BitOf
<1>6. LockIsHeldByEvictor'
  BY <1>1, ChannelAssumption DEF LockIsHeldByEvictor, Evicting, TypeOK, WriterTypeOK
<1>7. MaskIsActiveReadersNotHeld'
  BY <1>1, <1>2, <1>5 DEF MaskIsActiveReadersNotHeld
<1>8. RegisteredUntilRelease' /\ DistinctBits(Active)'
      /\ ("join" \notin Env => DistinctBits(readers)')
  BY <1>1, <1>4 DEF RegisteredUntilRelease, DistinctBits
<1> QED
  BY <1>6, <1>7, <1>8

(* Each action keeps the mask invariant: opens, releases and evictions. *)
LEMMA MaskStep ==
  ASSUME NBits <= IntBits, ~({"join", "close"} \subseteq Env),
         TypeOK, MaskInv, [Next]_vars
  PROVE  MaskInv'
<1> USE DEF TypeOK, ChanTypeOK, ReaderTypeOK, WriterTypeOK, ReaderGoto, WriterGoto,
            WriteReturn, Away, Evicting, chan, ctrl, rlocal, wlocal
<1>1. ASSUME NEW r \in Readers, ReleaseSlot(r) PROVE MaskInv'
  BY <1>1, MaskFrame DEF ReleaseSlot
<1>2. ASSUME NEW r \in Readers, ReadCall(r) PROVE MaskInv'
  BY <1>2, MaskFrame DEF ReadCall
<1>3. ASSUME NEW r \in Readers, ReadReady(r) PROVE MaskInv'
  BY <1>3, MaskFrame DEF ReadReady
<1>4. ASSUME NEW r \in Readers, ReadCopied(r) PROVE MaskInv'
  BY <1>4, MaskFrame DEF ReadCopied
<1>5. ASSUME NEW r \in Readers, ReadCheck(r) PROVE MaskInv'
  BY <1>5, MaskFrame DEF ReadCheck
<1>6. ASSUME NEW r \in Readers, ReadClear(r) PROVE MaskInv'
  BY <1>6, MaskFrame DEF ReadClear
<1>7. ASSUME NEW r \in Readers, ReadWake(r) PROVE MaskInv'
  BY <1>7, MaskFrame DEF ReadWake, WakeWriters
<1>8. ASSUME NEW r \in Readers, OpenFull(r) PROVE MaskInv'
  BY <1>8, MaskFrame DEF OpenFull
<1>9. ASSUME NEW r \in Readers, Poll(r) PROVE MaskInv'
  BY <1>9, MaskFrame DEF Poll
<1>10. ASSUME NEW r \in Readers, ReadGivesUp(r) PROVE MaskInv'
  BY <1>10, MaskFrame DEF ReadGivesUp
<1>11. ASSUME NEW r \in Readers, ReadFault(r) PROVE MaskInv'
  BY <1>11, MaskFrame DEF ReadFault
<1>12. ASSUME NEW w \in Writers, WriteTest(w) PROVE MaskInv'
  BY <1>12, MaskFrame DEF WriteTest
<1>13. ASSUME NEW w \in Writers, WriteSleep(w) PROVE MaskInv'
  BY <1>13, MaskFrame DEF WriteSleep
<1>14. ASSUME NEW w \in Writers, WriteExpire(w) PROVE MaskInv'
  BY <1>14, MaskFrame DEF WriteExpire
<1>15. ASSUME NEW w \in Writers, TimeoutBitmap(w) PROVE MaskInv'
  BY <1>15, MaskFrame DEF TimeoutBitmap
<1>16. ASSUME NEW w \in Writers, StripTest(w) PROVE MaskInv'
  BY <1>16, MaskFrame DEF StripTest
<1>17. ASSUME NEW w \in Writers, StripLoad(w) PROVE MaskInv'
  BY <1>17, MaskFrame DEF StripLoad
<1>18. ASSUME NEW w \in Writers, StripStore(w) PROVE MaskInv'
  BY <1>18, MaskFrame DEF StripStore
<1>19. ASSUME NEW w \in Writers, CopyStart(w) PROVE MaskInv'
  BY <1>19, MaskFrame DEF CopyStart
<1>20. ASSUME NEW w \in Writers, CopyEnd(w) PROVE MaskInv'
  BY <1>20, MaskFrame DEF CopyEnd
<1>21. ASSUME NEW w \in Writers, LoadMask(w) PROVE MaskInv'
  BY <1>21, MaskFrame DEF LoadMask
<1>22. ASSUME NEW w \in Writers, Publish(w) PROVE MaskInv'
  BY <1>22, MaskFrame DEF Publish
<1>23. ASSUME NEW w \in Writers, Claim(w) PROVE MaskInv'
  BY <1>23, MaskFrame DEF Claim
<1>24. ASSUME NEW w \in Writers, WriteAgain(w) PROVE MaskInv'
  BY <1>24, MaskFrame DEF WriteAgain
<1>25. ASSUME NEW w \in Writers, WriteInterrupted(w) PROVE MaskInv'
  BY <1>25, MaskFrame DEF WriteInterrupted
<1>26. ASSUME NEW w \in Writers, WriteSignal(w) PROVE MaskInv'
  BY <1>26, MaskFrame DEF WriteSignal
<1>27. ASSUME NEW w \in Writers, CopyFault(w) PROVE MaskInv'
  BY <1>27, MaskFrame DEF CopyFault
<1>28. CASE UNCHANGED vars
  BY <1>28, MaskFrame DEF vars
<1> QED
  BY MaskOpen, MaskRelease, MaskTimeout, MaskEvict, <1>1, <1>2, <1>3, <1>4, <1>5, <1>6, <1>7, <1>8, <1>9, <1>10, <1>11, <1>12, <1>13, <1>14, <1>15, <1>16, <1>17, <1>18, <1>19, <1>20, <1>21, <1>22, <1>23, <1>24, <1>25, <1>26, <1>27, <1>28
  DEF Next, ReadStep, ReaderEnv, WriteStep, WriterEnv

(* With nobody on the channel the mask is empty. *)
LEMMA MaskInit == Init => MaskInv
BY ChannelAssumption
DEF Init, MaskInv, LockIsHeldByEvictor, RegisteredUntilRelease, Away, Evicting,
    MaskIsActiveReadersNotHeld, DistinctBits, Active, BitOf, Held

(* The mask, the lock, the list of readers and their bits fit together in   *)
(* every step of open, release and eviction: the inductive form of          *)
(* MaskIsActiveReaders, in the same environments.                           *)
THEOREM MaskInvariant ==
  ASSUME NBits <= IntBits, ~({"join", "close"} \subseteq Env)
  PROVE  Spec => []MaskInv
<1>1. TypeOK /\ MaskInv /\ [Next]_vars => MaskInv'
  BY MaskStep
<1> QED
  BY <1>1, MaskInit, TypeCorrect, PTL DEF Spec

(* The multicast mask is exactly the set of bits of the readers that are   *)
(* registered and online, each with a bit of its own, whenever the lock is *)
(* free: for any number of readers up to the width of an int, of writers   *)
(* and of slots, with timeouts, holes and laps. It assumes that readers    *)
(* do not both leave and rejoin while the channel is in use.               *)
THEOREM MaskCorrect ==
  ASSUME NBits <= IntBits, ~({"join", "close"} \subseteq Env)
  PROVE  Spec => []MaskIsActiveReaders
<1>1. MaskInv => MaskIsActiveReaders
  BY DEF MaskInv, MaskIsActiveReaders, MaskIsActiveReadersNotHeld, Held, DistinctBits
<1> QED
  BY <1>1, MaskInvariant, PTL

-----------------------------------------------------------------------------
(* The steady state: no timer expires, nobody leaves and rejoins, and no   *)
(* writer is lapped. Readers may leave, writes may fail.                   *)
SteadyEnv == Env \subseteq {"close", "intr", "fault", "race"}

(* No action lets a reader and a writer onto the same slot. *)
LEMMA SteadyStep ==
  ASSUME SteadyEnv, NBits <= IntBits, TypeOK, MaskInv, SteadyInv, [Next]_vars
  PROVE  SteadyInv'
<1> USE DEF SteadyInv, NoTimerExpired, Evicting, Writing, ReaderGoto, WriterGoto,
            TypeOK, ChanTypeOK, CtrlTypeOK, ReaderTypeOK, WriterTypeOK,
            chan, ctrl, rlocal, wlocal
<1>1. ASSUME NEW r \in Readers, ReleaseSlot(r) PROVE SteadyInv'
  <2>1. NoTimerExpired'
    BY <1>1 DEF ReleaseSlot
  <2>2. BitsAreApart'
    BY <1>1 DEF ReleaseSlot, BitsAreApart
  <2>3. ClaimsAreApart'
    BY <1>1 DEF ReleaseSlot, ClaimsAreApart
  <2>4. WrittenSlotIsEmpty'
    BY <1>1 DEF ReleaseSlot, WrittenSlotIsEmpty, ClaimsAreApart
  <2>5. ReadSlotHasBit'
    BY <1>1 DEF ReleaseSlot, ReadSlotHasBit, BitsAreApart, WrittenSlotIsEmpty
  <2> QED
    BY <2>1, <2>2, <2>3, <2>4, <2>5
<1>2. ASSUME NEW r \in Readers, ReadCall(r) PROVE SteadyInv'
  <2>1. NoTimerExpired'
    BY <1>2 DEF ReadCall
  <2>2. BitsAreApart'
    BY <1>2 DEF ReadCall, BitsAreApart
  <2>3. ClaimsAreApart'
    BY <1>2 DEF ReadCall, ClaimsAreApart
  <2>4. WrittenSlotIsEmpty'
    BY <1>2 DEF ReadCall, WrittenSlotIsEmpty, ClaimsAreApart
  <2>5. ReadSlotHasBit'
    BY <1>2 DEF ReadCall, ReadSlotHasBit, BitsAreApart, WrittenSlotIsEmpty
  <2> QED
    BY <2>1, <2>2, <2>3, <2>4, <2>5
<1>3. ASSUME NEW r \in Readers, ReadReady(r) PROVE SteadyInv'
  <2>1. NoTimerExpired'
    BY <1>3, CanReadIsMembership DEF ReadReady, CanRead
  <2>2. BitsAreApart'
    BY <1>3, CanReadIsMembership DEF ReadReady, CanRead, BitsAreApart
  <2>3. ClaimsAreApart'
    BY <1>3, CanReadIsMembership DEF ReadReady, CanRead, ClaimsAreApart
  <2>4. WrittenSlotIsEmpty'
    BY <1>3, CanReadIsMembership DEF ReadReady, CanRead, WrittenSlotIsEmpty, ClaimsAreApart
  <2>5. ReadSlotHasBit'
    BY <1>3, CanReadIsMembership DEF ReadReady, CanRead, ReadSlotHasBit, BitsAreApart, WrittenSlotIsEmpty
  <2> QED
    BY <2>1, <2>2, <2>3, <2>4, <2>5
<1>4. ASSUME NEW r \in Readers, ReadCopied(r) PROVE SteadyInv'
  <2>1. NoTimerExpired'
    BY <1>4 DEF ReadCopied
  <2>2. BitsAreApart'
    BY <1>4 DEF ReadCopied, BitsAreApart
  <2>3. ClaimsAreApart'
    BY <1>4 DEF ReadCopied, ClaimsAreApart
  <2>4. WrittenSlotIsEmpty'
    BY <1>4 DEF ReadCopied, WrittenSlotIsEmpty, ClaimsAreApart
  <2>5. ReadSlotHasBit'
    BY <1>4 DEF ReadCopied, ReadSlotHasBit, BitsAreApart, WrittenSlotIsEmpty
  <2> QED
    BY <2>1, <2>2, <2>3, <2>4, <2>5
<1>5. ASSUME NEW r \in Readers, ReadCheck(r) PROVE SteadyInv'
  <2>1. NoTimerExpired'
    BY <1>5 DEF ReadCheck
  <2>2. BitsAreApart'
    BY <1>5 DEF ReadCheck, BitsAreApart
  <2>3. ClaimsAreApart'
    BY <1>5 DEF ReadCheck, ClaimsAreApart
  <2>4. WrittenSlotIsEmpty'
    BY <1>5 DEF ReadCheck, WrittenSlotIsEmpty, ClaimsAreApart
  <2>5. ReadSlotHasBit'
    BY <1>5 DEF ReadCheck, ReadSlotHasBit, BitsAreApart, WrittenSlotIsEmpty
  <2> QED
    BY <2>1, <2>2, <2>3, <2>4, <2>5
<1>6. ASSUME NEW r \in Readers, ReadClear(r) PROVE SteadyInv'
  <2>1. NoTimerExpired'
    BY <1>6 DEF ReadClear
  <2>2. BitsAreApart'
    BY <1>6 DEF ReadClear, BitsAreApart
  <2>3. ClaimsAreApart'
    BY <1>6 DEF ReadClear, ClaimsAreApart
  <2>4. WrittenSlotIsEmpty'
    BY <1>6 DEF ReadClear, WrittenSlotIsEmpty, ClaimsAreApart
  <2>5. ReadSlotHasBit'
    BY <1>6 DEF ReadClear, ReadSlotHasBit, BitsAreApart, WrittenSlotIsEmpty
  <2> QED
    BY <2>1, <2>2, <2>3, <2>4, <2>5
<1>7. ASSUME NEW r \in Readers, ReadWake(r) PROVE SteadyInv'
  <2>1. NoTimerExpired'
    BY <1>7 DEF ReadWake, WakeWriters
  <2>2. BitsAreApart'
    BY <1>7 DEF ReadWake, WakeWriters, BitsAreApart
  <2>3. ClaimsAreApart'
    BY <1>7 DEF ReadWake, WakeWriters, ClaimsAreApart
  <2>4. WrittenSlotIsEmpty'
    BY <1>7 DEF ReadWake, WakeWriters, WrittenSlotIsEmpty, ClaimsAreApart
  <2>5. ReadSlotHasBit'
    BY <1>7 DEF ReadWake, WakeWriters, ReadSlotHasBit, BitsAreApart, WrittenSlotIsEmpty
  <2> QED
    BY <2>1, <2>2, <2>3, <2>4, <2>5
<1>8. ASSUME NEW r \in Readers, Open(r) PROVE SteadyInv'
  <2>1. NoTimerExpired'
    BY <1>8 DEF Open, FirstZeroBit, Quiet, MaskInv, RegisteredUntilRelease, Away, MaskIsActiveReadersNotHeld, Held, BitOf, Active, SteadyEnv
  <2>2. BitsAreApart'
    <3>1. Quiet /\ bcl = NoOne
      BY <1>8 DEF Open, SteadyEnv
    <3>2. \A q \in Readers : rpc[q] \notin {"new", "closed"} => q \in Active
      BY <3>1 DEF Quiet, MaskInv, RegisteredUntilRelease, Away, Active
    <3>3. \A q \in Active : bitmap_bit[q] \in multicast_mask
      BY <3>1 DEF MaskInv, MaskIsActiveReadersNotHeld, Held, BitOf
    <3>4. /\ bitmap_bit'[r] \notin multicast_mask
          /\ \A q \in Readers \ {r} : bitmap_bit'[q] = bitmap_bit[q] /\ rpc'[q] = rpc[q]
      BY <1>8 DEF Open, FirstZeroBit
    <3> QED
      BY <3>2, <3>3, <3>4 DEF BitsAreApart
  <2>3. ClaimsAreApart'
    BY <1>8 DEF Open, FirstZeroBit, Quiet, MaskInv, RegisteredUntilRelease, Away, MaskIsActiveReadersNotHeld, Held, BitOf, Active, SteadyEnv, ClaimsAreApart
  <2>4. WrittenSlotIsEmpty'
    BY <1>8 DEF Open, FirstZeroBit, Quiet, MaskInv, RegisteredUntilRelease, Away, MaskIsActiveReadersNotHeld, Held, BitOf, Active, SteadyEnv, WrittenSlotIsEmpty, ClaimsAreApart
  <2>5. ReadSlotHasBit'
    BY <1>8 DEF Open, FirstZeroBit, Quiet, MaskInv, RegisteredUntilRelease, Away, MaskIsActiveReadersNotHeld, Held, BitOf, Active, SteadyEnv, ReadSlotHasBit, BitsAreApart, WrittenSlotIsEmpty
  <2> QED
    BY <2>1, <2>2, <2>3, <2>4, <2>5
<1>9. ASSUME NEW r \in Readers, OpenFull(r) PROVE SteadyInv'
  <2>1. NoTimerExpired'
    BY <1>9 DEF OpenFull
  <2>2. BitsAreApart'
    BY <1>9 DEF OpenFull, BitsAreApart
  <2>3. ClaimsAreApart'
    BY <1>9 DEF OpenFull, ClaimsAreApart
  <2>4. WrittenSlotIsEmpty'
    BY <1>9 DEF OpenFull, WrittenSlotIsEmpty, ClaimsAreApart
  <2>5. ReadSlotHasBit'
    BY <1>9 DEF OpenFull, ReadSlotHasBit, BitsAreApart, WrittenSlotIsEmpty
  <2> QED
    BY <2>1, <2>2, <2>3, <2>4, <2>5
<1>10. ASSUME NEW r \in Readers, Release(r) PROVE SteadyInv'
  <2>1. NoTimerExpired'
    BY <1>10 DEF Release
  <2>2. BitsAreApart'
    BY <1>10 DEF Release, BitsAreApart
  <2>3. ClaimsAreApart'
    BY <1>10 DEF Release, ClaimsAreApart
  <2>4. WrittenSlotIsEmpty'
    BY <1>10 DEF Release, WrittenSlotIsEmpty, ClaimsAreApart
  <2>5. ReadSlotHasBit'
    BY <1>10 DEF Release, ReadSlotHasBit, BitsAreApart, WrittenSlotIsEmpty
  <2> QED
    BY <2>1, <2>2, <2>3, <2>4, <2>5
<1>11. ASSUME NEW r \in Readers, Poll(r) PROVE SteadyInv'
  <2>1. NoTimerExpired'
    BY <1>11, CanReadIsMembership DEF Poll, CanRead, PollMask
  <2>2. BitsAreApart'
    BY <1>11, CanReadIsMembership DEF Poll, CanRead, PollMask, BitsAreApart
  <2>3. ClaimsAreApart'
    BY <1>11, CanReadIsMembership DEF Poll, CanRead, PollMask, ClaimsAreApart
  <2>4. WrittenSlotIsEmpty'
    BY <1>11, CanReadIsMembership DEF Poll, CanRead, PollMask, WrittenSlotIsEmpty, ClaimsAreApart
  <2>5. ReadSlotHasBit'
    BY <1>11, CanReadIsMembership DEF Poll, CanRead, PollMask, ReadSlotHasBit, BitsAreApart, WrittenSlotIsEmpty
  <2> QED
    BY <2>1, <2>2, <2>3, <2>4, <2>5
<1>12. ASSUME NEW r \in Readers, ReadGivesUp(r) PROVE SteadyInv'
  <2>1. NoTimerExpired'
    BY <1>12 DEF ReadGivesUp
  <2>2. BitsAreApart'
    BY <1>12 DEF ReadGivesUp, BitsAreApart
  <2>3. ClaimsAreApart'
    BY <1>12 DEF ReadGivesUp, ClaimsAreApart
  <2>4. WrittenSlotIsEmpty'
    BY <1>12 DEF ReadGivesUp, WrittenSlotIsEmpty, ClaimsAreApart
  <2>5. ReadSlotHasBit'
    BY <1>12 DEF ReadGivesUp, ReadSlotHasBit, BitsAreApart, WrittenSlotIsEmpty
  <2> QED
    BY <2>1, <2>2, <2>3, <2>4, <2>5
<1>13. ASSUME NEW r \in Readers, ReadFault(r) PROVE SteadyInv'
  <2>1. NoTimerExpired'
    BY <1>13 DEF ReadFault
  <2>2. BitsAreApart'
    BY <1>13 DEF ReadFault, BitsAreApart
  <2>3. ClaimsAreApart'
    BY <1>13 DEF ReadFault, ClaimsAreApart
  <2>4. WrittenSlotIsEmpty'
    BY <1>13 DEF ReadFault, WrittenSlotIsEmpty, ClaimsAreApart
  <2>5. ReadSlotHasBit'
    BY <1>13 DEF ReadFault, ReadSlotHasBit, BitsAreApart, WrittenSlotIsEmpty
  <2> QED
    BY <2>1, <2>2, <2>3, <2>4, <2>5
<1>14. ASSUME NEW w \in Writers, WriteTest(w) PROVE SteadyInv'
  <2>1. NoTimerExpired'
    BY <1>14 DEF WriteTest, writer_can_write
  <2>2. BitsAreApart'
    BY <1>14 DEF WriteTest, writer_can_write, BitsAreApart
  <2>3. ClaimsAreApart'
    BY <1>14 DEF WriteTest, writer_can_write, ClaimsAreApart
  <2>4. WrittenSlotIsEmpty'
    BY <1>14 DEF WriteTest, writer_can_write, WrittenSlotIsEmpty, ClaimsAreApart
  <2>5. ReadSlotHasBit'
    BY <1>14 DEF WriteTest, writer_can_write, ReadSlotHasBit, BitsAreApart, WrittenSlotIsEmpty
  <2> QED
    BY <2>1, <2>2, <2>3, <2>4, <2>5
<1>15. ASSUME NEW w \in Writers, WriteSleep(w) PROVE SteadyInv'
  <2>1. NoTimerExpired'
    BY <1>15 DEF WriteSleep
  <2>2. BitsAreApart'
    BY <1>15 DEF WriteSleep, BitsAreApart
  <2>3. ClaimsAreApart'
    BY <1>15 DEF WriteSleep, ClaimsAreApart
  <2>4. WrittenSlotIsEmpty'
    BY <1>15 DEF WriteSleep, WrittenSlotIsEmpty, ClaimsAreApart
  <2>5. ReadSlotHasBit'
    BY <1>15 DEF WriteSleep, ReadSlotHasBit, BitsAreApart, WrittenSlotIsEmpty
  <2> QED
    BY <2>1, <2>2, <2>3, <2>4, <2>5
<1>16. ASSUME NEW w \in Writers PROVE ~WriteExpire(w)
  BY DEF WriteExpire, SteadyEnv
<1>17. ASSUME NEW w \in Writers PROVE ~TimeoutBitmap(w)
  BY DEF TimeoutBitmap
<1>18. ASSUME NEW w \in Writers PROVE ~TimeoutMask(w)
  BY DEF TimeoutMask
<1>19. ASSUME NEW w \in Writers PROVE ~StripTest(w)
  BY DEF StripTest
<1>20. ASSUME NEW w \in Writers PROVE ~StripLoad(w)
  BY DEF StripLoad
<1>21. ASSUME NEW w \in Writers PROVE ~StripStore(w)
  BY DEF StripStore
<1>22. ASSUME NEW w \in Writers PROVE ~Evict(w)
  BY DEF Evict
<1>23. ASSUME NEW w \in Writers, CopyStart(w) PROVE SteadyInv'
  <2>1. NoTimerExpired'
    BY <1>23 DEF CopyStart
  <2>2. BitsAreApart'
    BY <1>23 DEF CopyStart, BitsAreApart
  <2>3. ClaimsAreApart'
    BY <1>23 DEF CopyStart, ClaimsAreApart
  <2>4. WrittenSlotIsEmpty'
    BY <1>23 DEF CopyStart, WrittenSlotIsEmpty, ClaimsAreApart
  <2>5. ReadSlotHasBit'
    BY <1>23 DEF CopyStart, ReadSlotHasBit, BitsAreApart, WrittenSlotIsEmpty
  <2> QED
    BY <2>1, <2>2, <2>3, <2>4, <2>5
<1>24. ASSUME NEW w \in Writers, CopyEnd(w) PROVE SteadyInv'
  <2>1. NoTimerExpired'
    BY <1>24 DEF CopyEnd
  <2>2. BitsAreApart'
    BY <1>24 DEF CopyEnd, BitsAreApart
  <2>3. ClaimsAreApart'
    BY <1>24 DEF CopyEnd, ClaimsAreApart
  <2>4. WrittenSlotIsEmpty'
    BY <1>24 DEF CopyEnd, WrittenSlotIsEmpty, ClaimsAreApart
  <2>5. ReadSlotHasBit'
    BY <1>24 DEF CopyEnd, ReadSlotHasBit, BitsAreApart, WrittenSlotIsEmpty
  <2> QED
    BY <2>1, <2>2, <2>3, <2>4, <2>5
<1>25. ASSUME NEW w \in Writers, LoadMask(w) PROVE SteadyInv'
  <2>1. NoTimerExpired'
    BY <1>25 DEF LoadMask
  <2>2. BitsAreApart'
    BY <1>25 DEF LoadMask, BitsAreApart
  <2>3. ClaimsAreApart'
    BY <1>25 DEF LoadMask, ClaimsAreApart
  <2>4. WrittenSlotIsEmpty'
    BY <1>25 DEF LoadMask, WrittenSlotIsEmpty, ClaimsAreApart
  <2>5. ReadSlotHasBit'
    BY <1>25 DEF LoadMask, ReadSlotHasBit, BitsAreApart, WrittenSlotIsEmpty
  <2> QED
    BY <2>1, <2>2, <2>3, <2>4, <2>5
<1>26. ASSUME NEW w \in Writers, Publish(w) PROVE SteadyInv'
  <2>1. NoTimerExpired'
    BY <1>26 DEF Publish, WriteReturn
  <2>2. BitsAreApart'
    BY <1>26 DEF Publish, WriteReturn, BitsAreApart
  <2>3. ClaimsAreApart'
    BY <1>26 DEF Publish, WriteReturn, ClaimsAreApart
  <2>4. WrittenSlotIsEmpty'
    BY <1>26 DEF Publish, WriteReturn, WrittenSlotIsEmpty, ClaimsAreApart
  <2>5. ReadSlotHasBit'
    BY <1>26 DEF Publish, WriteReturn, ReadSlotHasBit, BitsAreApart, WrittenSlotIsEmpty
  <2> QED
    BY <2>1, <2>2, <2>3, <2>4, <2>5
<1>27. ASSUME NEW w \in Writers, Claim(w) PROVE SteadyInv'
  <2>1. NoTimerExpired'
    BY <1>27 DEF Claim, SteadyEnv
  <2>2. BitsAreApart'
    BY <1>27 DEF Claim, SteadyEnv, BitsAreApart
  <2>3. ClaimsAreApart'
    BY <1>27 DEF Claim, SteadyEnv, ClaimsAreApart
  <2>4. WrittenSlotIsEmpty'
    BY <1>27 DEF Claim, SteadyEnv, WrittenSlotIsEmpty, ClaimsAreApart
  <2>5. ReadSlotHasBit'
    BY <1>27 DEF Claim, SteadyEnv, ReadSlotHasBit, BitsAreApart, WrittenSlotIsEmpty
  <2> QED
    BY <2>1, <2>2, <2>3, <2>4, <2>5
<1>28. ASSUME NEW w \in Writers, WriteAgain(w) PROVE SteadyInv'
  <2>1. NoTimerExpired'
    BY <1>28 DEF WriteAgain, WriteReturn
  <2>2. BitsAreApart'
    BY <1>28 DEF WriteAgain, WriteReturn, BitsAreApart
  <2>3. ClaimsAreApart'
    BY <1>28 DEF WriteAgain, WriteReturn, ClaimsAreApart
  <2>4. WrittenSlotIsEmpty'
    BY <1>28 DEF WriteAgain, WriteReturn, WrittenSlotIsEmpty, ClaimsAreApart
  <2>5. ReadSlotHasBit'
    BY <1>28 DEF WriteAgain, WriteReturn, ReadSlotHasBit, BitsAreApart, WrittenSlotIsEmpty
  <2> QED
    BY <2>1, <2>2, <2>3, <2>4, <2>5
<1>29. ASSUME NEW w \in Writers, WriteInterrupted(w) PROVE SteadyInv'
  <2>1. NoTimerExpired'
    BY <1>29 DEF WriteInterrupted, WriteReturn
  <2>2. BitsAreApart'
    BY <1>29 DEF WriteInterrupted, WriteReturn, BitsAreApart
  <2>3. ClaimsAreApart'
    BY <1>29 DEF WriteInterrupted, WriteReturn, ClaimsAreApart
  <2>4. WrittenSlotIsEmpty'
    BY <1>29 DEF WriteInterrupted, WriteReturn, WrittenSlotIsEmpty, ClaimsAreApart
  <2>5. ReadSlotHasBit'
    BY <1>29 DEF WriteInterrupted, WriteReturn, ReadSlotHasBit, BitsAreApart, WrittenSlotIsEmpty
  <2> QED
    BY <2>1, <2>2, <2>3, <2>4, <2>5
<1>30. ASSUME NEW w \in Writers, WriteSignal(w) PROVE SteadyInv'
  <2>1. NoTimerExpired'
    BY <1>30 DEF WriteSignal
  <2>2. BitsAreApart'
    BY <1>30 DEF WriteSignal, BitsAreApart
  <2>3. ClaimsAreApart'
    BY <1>30 DEF WriteSignal, ClaimsAreApart
  <2>4. WrittenSlotIsEmpty'
    BY <1>30 DEF WriteSignal, WrittenSlotIsEmpty, writer_can_write
  <2>5. ReadSlotHasBit'
    BY <1>30 DEF WriteSignal, ReadSlotHasBit
  <2> QED
    BY <2>1, <2>2, <2>3, <2>4, <2>5
<1>31. ASSUME NEW w \in Writers, CopyFault(w) PROVE SteadyInv'
  <2>1. NoTimerExpired'
    BY <1>31 DEF CopyFault, WriteReturn
  <2>2. BitsAreApart'
    BY <1>31 DEF CopyFault, WriteReturn, BitsAreApart
  <2>3. ClaimsAreApart'
    BY <1>31 DEF CopyFault, WriteReturn, ClaimsAreApart
  <2>4. WrittenSlotIsEmpty'
    BY <1>31 DEF CopyFault, WriteReturn, WrittenSlotIsEmpty, ClaimsAreApart
  <2>5. ReadSlotHasBit'
    BY <1>31 DEF CopyFault, WriteReturn, ReadSlotHasBit, BitsAreApart, WrittenSlotIsEmpty
  <2> QED
    BY <2>1, <2>2, <2>3, <2>4, <2>5
<1>32. CASE UNCHANGED vars
  BY <1>32 DEF vars, BitsAreApart, ClaimsAreApart, WrittenSlotIsEmpty, ReadSlotHasBit
<1> QED
  BY <1>1, <1>2, <1>3, <1>4, <1>5, <1>6, <1>7, <1>8, <1>9, <1>10, <1>11, <1>12, <1>13, <1>14, <1>15, <1>16, <1>17, <1>18, <1>19, <1>20, <1>21, <1>22, <1>23, <1>24, <1>25, <1>26, <1>27, <1>28, <1>29, <1>30, <1>31, <1>32
  DEF Next, ReadStep, ReaderEnv, WriteStep, WriterEnv

(* Nobody is on a slot of a fresh channel. *)
LEMMA SteadyInit == Init => SteadyInv
BY DEF Init, SteadyInv, NoTimerExpired, Evicting, BitsAreApart, ClaimsAreApart,
       WrittenSlotIsEmpty, ReadSlotHasBit, Writing

(* The three invariants hold in every state of the steady channel. *)
LEMMA SteadyCorrect ==
  ASSUME SteadyEnv, NBits <= IntBits
  PROVE  Spec => [](TypeOK /\ MaskInv /\ SteadyInv)
<1>1. ~({"join", "close"} \subseteq Env)
  BY DEF SteadyEnv
<1>2. TypeOK /\ MaskInv /\ SteadyInv /\ [Next]_vars => MaskInv' /\ SteadyInv'
  BY <1>1, MaskStep, SteadyStep
<1> QED
  BY <1>2, MaskInit, SteadyInit, TypeCorrect, PTL DEF Spec

(* In the steady state no two calls share a claimed slot or a bit, a writer *)
(* past its wait has an empty slot and a reader past its wait has its bit   *)
(* set, for every number of slots, readers and writers.                     *)
THEOREM SteadyInvariant ==
  ASSUME SteadyEnv, NBits <= IntBits
  PROVE  Spec => []SteadyInv
BY SteadyCorrect, PTL

(* In the steady state a reader and a writer are never on one message at   *)
(* the same time, although neither takes a lock: for every number of       *)
(* slots, readers (up to the width of an int) and writers.                 *)
THEOREM ReadersAndWritersApart ==
  ASSUME SteadyEnv, NBits <= IntBits
  PROVE  Spec => []NoOverwriteWhileRead
<1>1. SteadyInv => NoOverwriteWhileRead
  BY DEF SteadyInv, NoOverwriteWhileRead, WrittenSlotIsEmpty, ReadSlotHasBit, Writing
<1> QED
  BY <1>1, SteadyCorrect, PTL

-----------------------------------------------------------------------------
(* Evictions. With one writer, and nobody joining while bits of evicted or  *)
(* released readers are around, timers may expire at any moment.            *)
LateEnv ==
  /\ \A v, w \in Writers : v = w
  /\ "join" \notin Env
  /\ NBits <= IntBits

(* No two processes that ever opened the channel have the same bit. *)
BitsNeverReused ==
  \A r, q \in Readers :
    r # q /\ rpc[r] # "new" /\ rpc[q] # "new" => bitmap_bit[r] # bitmap_bit[q]

(* What the writer saw late covers its slot, and is gone from the slots it  *)
(* has stripped; what it loaded covers what it is about to store.           *)
StripInv ==
  \A w \in Writers :
    /\ wpc[w] \notin {"store", "publish"} => reg[w] = {}
    /\ wpc[w] \in Evicting \cup {"lock"} => bitmap[slot[w]] \subseteq late[w]
    /\ wpc[w] \in Evicting =>
         \A s \in Slots : s < wcur[w] => bitmap[s] \cap late[w] = {}
    /\ wpc[w] = "store" =>
         /\ bitmap[wcur[w]] \subseteq reg[w]
         /\ wcur[w] = slot[w] => reg[w] \subseteq late[w]
         /\ reg[w] # {} => data[wcur[w]] # Torn

(* A slot with a bit set holds one whole message. *)
PublishedIsWhole ==
  /\ \A s \in Slots : bitmap[s] # {} => data[s] # Torn
  /\ \A w \in Writers : wpc[w] \in {"mask", "publish"} => data[slot[w]] = msg[w]

(* NoBitOfEvicted, made inductive: the writer holds no such bit either. *)
EvictedHasNoBit ==
  \A r \in readers : ~online[r] =>
    /\ \A s \in Slots : bitmap_bit[r] \notin bitmap[s]
    /\ \A w \in Writers : bitmap_bit[r] \notin reg[w]

(* The bit of r keeps its slot from being written, or the writer that took  *)
(* the bit away is about to evict r.                                        *)
Guarded(r) ==
  \/ bitmap_bit[r] \in bitmap[next_read_idx[r]]
  \/ \E w \in Writers : wpc[w] \in Evicting /\ bitmap_bit[r] \in late[w]

(* PollStaysTrue and NoTornRead, made inductive: what a reader was told of  *)
(* is there and what it copies is whole unless it was evicted, and an       *)
(* evicted reader does not get past the test of online.                     *)
CopyInv ==
  \A r \in Readers :
    /\ rpc[r] = "ready" /\ online[r] => Guarded(r)
    /\ rpc[r] = "copy" /\ online[r] =>
         rbuf[r] = data[next_read_idx[r]] /\ rbuf[r] # Torn /\ Guarded(r)
    /\ rpc[r] = "check" /\ online[r] => rbuf[r] # Torn
    /\ rpc[r] = "clear" => rbuf[r] # Torn

LateInv ==
  /\ BitsNeverReused /\ StripInv /\ WrittenSlotIsEmpty /\ PublishedIsWhole
  /\ EvictedHasNoBit /\ CopyInv /\ NoTornRead

(* A bit given at open belongs to nobody who had the channel open before. *)
LEMMA BitsStep ==
  ASSUME LateEnv, TypeOK, MaskInv, LateInv, [Next]_vars
  PROVE  BitsNeverReused'
<1> USE DEF TypeOK, ChanTypeOK, CtrlTypeOK, ReaderTypeOK, WriterTypeOK, ReaderGoto, WriterGoto,
            WriteReturn, chan, ctrl, rlocal, wlocal, history, LateEnv, LateInv, Evicting,
            BitsNeverReused, MaskInv, MaskIsActiveReadersNotHeld, LockIsHeldByEvictor, Held,
            RegisteredUntilRelease, Away, Active, BitOf, Quiet, FirstZeroBit
<1>1. ASSUME NEW r \in Readers, ReadStep(r) PROVE BitsNeverReused'
  BY <1>1 DEF ReadStep, ReleaseSlot, ReadCall, ReadReady, ReadCopied, ReadCheck, ReadClear, ReadWake, WakeWriters
<1>2. ASSUME NEW r \in Readers, ReaderEnv(r) PROVE BitsNeverReused'
  BY <1>2 DEF ReaderEnv, Open, OpenFull, Release, Poll, ReadGivesUp, ReadFault
<1>3. ASSUME NEW w \in Writers, WriteStep(w) PROVE BitsNeverReused'
  BY <1>3 DEF WriteStep, WriteTest, WriteSleep, WriteExpire, TimeoutBitmap, TimeoutMask,
              StripTest, StripLoad, StripStore, Evict, CopyStart, CopyEnd, LoadMask, Publish
<1>4. ASSUME NEW w \in Writers, WriterEnv(w) PROVE BitsNeverReused'
  BY <1>4 DEF WriterEnv, Claim, WriteAgain, WriteInterrupted, WriteSignal, CopyFault
<1>5. CASE UNCHANGED vars
  BY <1>5 DEF vars
<1> QED
  BY <1>1, <1>2, <1>3, <1>4, <1>5 DEF Next

(* The writer that timed out finds all that is left in its slot late, and  *)
(* what it strips stays stripped: bits only disappear while it holds on.   *)
LEMMA StripStepInv ==
  ASSUME LateEnv, TypeOK, MaskInv, LateInv, [Next]_vars
  PROVE  StripInv'
<1> USE DEF TypeOK, ChanTypeOK, CtrlTypeOK, ReaderTypeOK, WriterTypeOK, ReaderGoto, WriterGoto,
            WriteReturn, chan, ctrl, rlocal, wlocal, history, LateEnv, LateInv, Evicting,
            StripInv, WrittenSlotIsEmpty, PublishedIsWhole
<1>1. ASSUME NEW r \in Readers, ReadStep(r) PROVE StripInv'
  BY SMTT(20), <1>1 DEF ReadStep, ReleaseSlot, ReadCall, ReadReady, ReadCopied, ReadCheck,
     ReadClear, ReadWake, WakeWriters
<1>2. ASSUME NEW r \in Readers, ReaderEnv(r) PROVE StripInv'
  BY <1>2 DEF ReaderEnv, Open, OpenFull, Release, Poll, ReadGivesUp, ReadFault
<1>3. ASSUME NEW w \in Writers, WriteStep(w) PROVE StripInv'
  <2>0. \A v \in Writers : v = w
    OBVIOUS
  <2>1. CASE TimeoutBitmap(w)
    BY <2>0, <2>1 DEF TimeoutBitmap
  <2>2. CASE TimeoutMask(w)
    BY <2>0, <2>2 DEF TimeoutMask, Slots
  <2>3. CASE StripTest(w)
    <3>1. /\ wpc[w] = "strip" /\ wcur[w] \in Slots
          /\ IF bitmap[wcur[w]] = {} THEN wcur' = [wcur EXCEPT ![w] = @ + 1] /\ UNCHANGED wpc
             ELSE wpc' = [wpc EXCEPT ![w] = "load"] /\ UNCHANGED wcur
          /\ UNCHANGED <<bitmap, slot, late, reg, data>>
      BY <2>3 DEF StripTest
    <3>2. ASSUME NEW s \in Slots, s < wcur'[w] PROVE bitmap[s] \cap late[w] = {}
      <4>1. CASE s < wcur[w]
        BY <3>1, <4>1
      <4>2. CASE ~(s < wcur[w])
        <5>1. bitmap[wcur[w]] = {} /\ s = wcur[w]
          BY <3>1, <3>2, <4>2 DEF Slots
        <5> QED
          BY <5>1
      <4> QED
        BY <4>1, <4>2
    <3> QED
      BY <2>0, <3>1, <3>2
  <2>4. CASE StripLoad(w)
    BY <2>0, <2>4 DEF StripLoad
  <2>5. CASE StripStore(w)
    <3>1. /\ wpc[w] = "store" /\ wcur[w] \in Slots
          /\ bitmap' = [bitmap EXCEPT ![wcur[w]] = reg[w] \ late[w]]
          /\ wcur' = [wcur EXCEPT ![w] = @ + 1]
          /\ wpc' = [wpc EXCEPT ![w] = "strip"]
          /\ reg' = [reg EXCEPT ![w] = {}]
          /\ UNCHANGED <<slot, late>>
      BY <2>5 DEF StripStore
    <3>2. ASSUME NEW s \in Slots, s < wcur[w] + 1 PROVE bitmap'[s] \cap late[w] = {}
      <4>1. CASE s = wcur[w]
        BY <3>1, <4>1
      <4>2. CASE s # wcur[w]
        <5>1. s < wcur[w]
          BY <3>1, <3>2, <4>2 DEF Slots
        <5> QED
          BY <3>1, <4>2, <5>1
      <4> QED
        BY <4>1, <4>2
    <3>3. bitmap'[slot[w]] \subseteq late[w]
      BY <3>1
    <3> QED
      BY <2>0, <3>1, <3>2, <3>3
  <2>6. CASE Evict(w)
    BY <2>0, <2>6 DEF Evict
  <2>7. CASE CopyStart(w)
    BY <2>0, <2>7 DEF CopyStart
  <2>8. CASE CopyEnd(w)
    BY <2>0, <2>8 DEF CopyEnd
  <2>9. CASE Publish(w)
    BY <2>0, <2>9 DEF Publish
  <2>10. CASE \/ WriteTest(w) \/ WriteSleep(w) \/ WriteExpire(w) \/ LoadMask(w)
    BY <2>0, <2>10 DEF WriteTest, WriteSleep, WriteExpire, LoadMask
  <2> QED
    BY <1>3, <2>1, <2>2, <2>3, <2>4, <2>5, <2>6, <2>7, <2>8, <2>9, <2>10 DEF WriteStep
<1>4. ASSUME NEW w \in Writers, WriterEnv(w) PROVE StripInv'
  BY <1>4 DEF WriterEnv, Claim, WriteAgain, WriteInterrupted, WriteSignal, CopyFault
<1>5. CASE UNCHANGED vars
  BY <1>5 DEF vars
<1> QED
  BY <1>1, <1>2, <1>3, <1>4, <1>5 DEF Next

(* A writer that goes on after an eviction has an empty slot. *)
LEMMA WrittenStep ==
  ASSUME LateEnv, TypeOK, MaskInv, LateInv, [Next]_vars
  PROVE  WrittenSlotIsEmpty'
<1> USE DEF TypeOK, ChanTypeOK, CtrlTypeOK, ReaderTypeOK, WriterTypeOK, ReaderGoto, WriterGoto,
            WriteReturn, chan, ctrl, rlocal, wlocal, history, LateEnv, LateInv, Evicting,
            StripInv, WrittenSlotIsEmpty, Writing, writer_can_write
<1>1. ASSUME NEW r \in Readers, ReadStep(r) PROVE WrittenSlotIsEmpty'
  BY <1>1 DEF ReadStep, ReleaseSlot, ReadCall, ReadReady, ReadCopied, ReadCheck, ReadClear, ReadWake, WakeWriters
<1>2. ASSUME NEW r \in Readers, ReaderEnv(r) PROVE WrittenSlotIsEmpty'
  BY <1>2 DEF ReaderEnv, Open, OpenFull, Release, Poll, ReadGivesUp, ReadFault
<1>3. ASSUME NEW w \in Writers, WriteStep(w) PROVE WrittenSlotIsEmpty'
  <2>0. \A v \in Writers : v = w
    OBVIOUS
  <2>1. CASE WriteTest(w)
    BY <2>0, <2>1 DEF WriteTest
  <2>2. CASE StripStore(w)
    BY <2>0, <2>2 DEF StripStore
  <2>3. CASE Evict(w)
    <3>1. /\ wpc[w] = "strip" /\ wcur[w] = channel_size
          /\ wpc' = [wpc EXCEPT ![w] = "copy"]
          /\ UNCHANGED <<bitmap, slot>>
      BY <2>3 DEF Evict
    <3>2. slot[w] \in Slots /\ slot[w] < channel_size
      BY ChannelAssumption DEF Slots
    <3>3. bitmap[slot[w]] = {}
      BY <3>1, <3>2
    <3> QED
      BY <2>0, <3>1, <3>3
  <2>4. CASE Publish(w)
    BY <2>0, <2>4 DEF Publish
  <2>5. CASE \/ WriteSleep(w) \/ WriteExpire(w) \/ TimeoutBitmap(w) \/ TimeoutMask(w) \/ StripTest(w) \/ StripLoad(w) \/ CopyStart(w) \/ CopyEnd(w) \/ LoadMask(w)
    BY <2>0, <2>5 DEF WriteSleep, WriteExpire, TimeoutBitmap, TimeoutMask, StripTest, StripLoad, CopyStart, CopyEnd, LoadMask
  <2> QED
    BY <1>3, <2>1, <2>2, <2>3, <2>4, <2>5 DEF WriteStep
<1>4. ASSUME NEW w \in Writers, WriterEnv(w) PROVE WrittenSlotIsEmpty'
  BY <1>4 DEF WriterEnv, Claim, WriteAgain, WriteInterrupted, WriteSignal, CopyFault
<1>5. CASE UNCHANGED vars
  BY <1>5 DEF vars
<1> QED
  BY <1>1, <1>2, <1>3, <1>4, <1>5 DEF Next

(* Bits are only set over a whole message, and a slot that is being written *)
(* has none.                                                               *)
LEMMA WholeStep ==
  ASSUME LateEnv, TypeOK, MaskInv, LateInv, [Next]_vars
  PROVE  PublishedIsWhole'
<1> USE DEF TypeOK, ChanTypeOK, CtrlTypeOK, ReaderTypeOK, WriterTypeOK, ReaderGoto, WriterGoto,
            WriteReturn, chan, ctrl, rlocal, wlocal, history, LateEnv, LateInv, Evicting,
            StripInv, WrittenSlotIsEmpty, Writing, PublishedIsWhole
<1>1. ASSUME NEW r \in Readers, ReadStep(r) PROVE PublishedIsWhole'
  BY <1>1 DEF ReadStep, ReleaseSlot, ReadCall, ReadReady, ReadCopied, ReadCheck, ReadClear, ReadWake, WakeWriters
<1>2. ASSUME NEW r \in Readers, ReaderEnv(r) PROVE PublishedIsWhole'
  BY <1>2 DEF ReaderEnv, Open, OpenFull, Release, Poll, ReadGivesUp, ReadFault
<1>3. ASSUME NEW w \in Writers, WriteStep(w) PROVE PublishedIsWhole'
  <2>0. \A v \in Writers : v = w
    OBVIOUS
  <2>1. CASE StripStore(w)
    BY <2>0, <2>1 DEF StripStore
  <2>2. CASE CopyStart(w)
    BY <2>0, <2>2 DEF CopyStart
  <2>3. CASE CopyEnd(w)
    BY <2>0, <2>3 DEF CopyEnd, Torn, Msgs, NoMsg
  <2>4. CASE LoadMask(w)
    BY <2>0, <2>4 DEF LoadMask
  <2>5. CASE Publish(w)
    BY <2>0, <2>5 DEF Publish, Torn, Msgs, NoMsg
  <2>6. CASE \/ WriteTest(w) \/ WriteSleep(w) \/ WriteExpire(w) \/ TimeoutBitmap(w) \/ TimeoutMask(w) \/ StripTest(w) \/ StripLoad(w) \/ Evict(w)
    BY <2>0, <2>6 DEF WriteTest, WriteSleep, WriteExpire, TimeoutBitmap, TimeoutMask, StripTest, StripLoad, Evict
  <2> QED
    BY <1>3, <2>1, <2>2, <2>3, <2>4, <2>5, <2>6 DEF WriteStep
<1>4. ASSUME NEW w \in Writers, WriterEnv(w) PROVE PublishedIsWhole'
  BY <1>4 DEF WriterEnv, Claim, WriteAgain, WriteInterrupted, WriteSignal, CopyFault
<1>5. CASE UNCHANGED vars
  BY <1>5 DEF vars
<1> QED
  BY <1>1, <1>2, <1>3, <1>4, <1>5 DEF Next

(* The bits of the readers that are evicted are gone from every slot, and  *)
(* from the mask the writer loads next.                                    *)
LEMMA EvictedStep ==
  ASSUME LateEnv, TypeOK, MaskInv, LateInv, [Next]_vars
  PROVE  EvictedHasNoBit'
<1> USE DEF TypeOK, ChanTypeOK, CtrlTypeOK, ReaderTypeOK, WriterTypeOK, ReaderGoto, WriterGoto,
            WriteReturn, chan, ctrl, rlocal, wlocal, history, LateEnv, LateInv, Evicting,
            StripInv, EvictedHasNoBit, MaskInv, MaskIsActiveReadersNotHeld, DistinctBits,
            RegisteredUntilRelease, Away, Active, BitOf
<1>1. ASSUME NEW r \in Readers, ReadStep(r) PROVE EvictedHasNoBit'
  BY <1>1 DEF ReadStep, ReleaseSlot, ReadCall, ReadReady, ReadCopied, ReadCheck, ReadClear, ReadWake, WakeWriters
<1>2. ASSUME NEW r \in Readers, ReaderEnv(r) PROVE EvictedHasNoBit'
  BY <1>2 DEF ReaderEnv, Open, OpenFull, Release, Poll, ReadGivesUp, ReadFault
<1>3. ASSUME NEW w \in Writers, WriteStep(w) PROVE EvictedHasNoBit'
  <2>0. \A v \in Writers : v = w
    OBVIOUS
  <2>1. CASE StripLoad(w)
    BY <2>0, <2>1 DEF StripLoad
  <2>2. CASE StripStore(w)
    BY <2>0, <2>2 DEF StripStore
  <2>3. CASE Evict(w)
    <3>1. /\ wpc[w] = "strip" /\ wcur[w] = channel_size
          /\ \A r \in Readers : online'[r] <=>
               online[r] /\ ~(r \in readers /\ reader_can_read(late[w], bitmap_bit[r]))
          /\ UNCHANGED <<bitmap, bitmap_bit, readers, reg>>
      BY <2>3 DEF Evict
    <3>2. \A s \in Slots : bitmap[s] \cap late[w] = {}
      <4>1. \A s \in Slots : s < wcur[w]
        BY <3>1, ChannelAssumption DEF Slots
      <4> QED
        BY <3>1, <4>1
    <3>3. \A r \in readers : ~online'[r] /\ online[r] => bitmap_bit[r] \in late[w]
      BY <3>1, CanReadIsMembership
    <3>4. reg[w] = {}
      BY <3>1 DEF StripInv
    <3> QED
      BY <2>0, <3>1, <3>2, <3>3, <3>4
  <2>4. CASE LoadMask(w)
    BY <2>0, <2>4 DEF LoadMask
  <2>5. CASE Publish(w)
    BY <2>0, <2>5 DEF Publish
  <2>6. CASE \/ WriteTest(w) \/ WriteSleep(w) \/ WriteExpire(w) \/ TimeoutBitmap(w) \/ TimeoutMask(w) \/ StripTest(w) \/ CopyStart(w) \/ CopyEnd(w)
    BY <2>0, <2>6 DEF WriteTest, WriteSleep, WriteExpire, TimeoutBitmap, TimeoutMask, StripTest, CopyStart, CopyEnd
  <2> QED
    BY <1>3, <2>1, <2>2, <2>3, <2>4, <2>5, <2>6 DEF WriteStep
<1>4. ASSUME NEW w \in Writers, WriterEnv(w) PROVE EvictedHasNoBit'
  BY <1>4 DEF WriterEnv, Claim, WriteAgain, WriteInterrupted, WriteSignal, CopyFault
<1>5. CASE UNCHANGED vars
  BY <1>5 DEF vars
<1> QED
  BY <1>1, <1>2, <1>3, <1>4, <1>5 DEF Next

(* A reader copies a whole message out, or fails its test of online. *)
LEMMA CopyStep ==
  ASSUME LateEnv, TypeOK, MaskInv, LateInv, [Next]_vars
  PROVE  CopyInv'
<1> USE DEF TypeOK, ChanTypeOK, CtrlTypeOK, ReaderTypeOK, WriterTypeOK, ReaderGoto, WriterGoto,
            WriteReturn, chan, ctrl, rlocal, wlocal, history, LateEnv, LateInv, Evicting,
            CopyInv, Guarded, StripInv, WrittenSlotIsEmpty, Writing, PublishedIsWhole,
            BitsNeverReused, MaskInv, LockIsHeldByEvictor, RegisteredUntilRelease, Away, CanRead
<1>1. ASSUME NEW r \in Readers, ReadStep(r) PROVE CopyInv'
  <2>1. CASE ReleaseSlot(r)
    BY <2>1 DEF ReleaseSlot
  <2>2. CASE ReadReady(r)
    <3>1. CanRead(r) => bitmap_bit[r] \in bitmap[next_read_idx[r]]
      BY CanReadIsMembership
    <3>2. data[next_read_idx[r]] # Torn /\ bitmap_bit[r] \in bitmap[next_read_idx[r]]
      BY <2>2, <3>1 DEF ReadReady
    <3> QED
      BY <2>2, <3>2 DEF ReadReady
  <2>3. CASE ReadCopied(r)
    BY <2>3 DEF ReadCopied
  <2>4. CASE ReadCheck(r)
    BY <2>4 DEF ReadCheck
  <2>5. CASE ReadClear(r)
    BY <2>5 DEF ReadClear
  <2>6. CASE ReadWake(r)
    BY <2>6 DEF ReadWake, WakeWriters
  <2>7. CASE ReadCall(r)
    BY <2>7 DEF ReadCall
  <2> QED
    BY <1>1, <2>1, <2>2, <2>3, <2>4, <2>5, <2>6, <2>7 DEF ReadStep
<1>2. ASSUME NEW r \in Readers, ReaderEnv(r) PROVE CopyInv'
  <2>1. CASE Poll(r)
    <3>1. bitmap_bit[r] \in bitmap[next_read_idx[r]]
      BY <2>1, CanReadIsMembership DEF Poll, PollMask
    <3> QED
      BY <2>1, <3>1 DEF Poll
  <2>2. CASE ~Poll(r)
    BY SMTT(20), <1>2, <2>2 DEF ReaderEnv, Open, OpenFull, Release, ReadGivesUp, ReadFault
  <2> QED
    BY <2>1, <2>2
<1>3. ASSUME NEW w \in Writers, WriteStep(w) PROVE CopyInv'
  BY <1>3, CanReadIsMembership DEF WriteStep, WriteTest, WriteSleep, WriteExpire, TimeoutBitmap, TimeoutMask,
              StripTest, StripLoad, StripStore, Evict, CopyStart, CopyEnd, LoadMask, Publish
<1>4. ASSUME NEW w \in Writers, WriterEnv(w) PROVE CopyInv'
  BY <1>4 DEF WriterEnv, Claim, WriteAgain, WriteInterrupted, WriteSignal, CopyFault
<1>5. CASE UNCHANGED vars
  BY <1>5 DEF vars
<1> QED
  BY <1>1, <1>2, <1>3, <1>4, <1>5 DEF Next

(* What a reader consumes passed the test of online. *)
LEMMA NoTornStep ==
  ASSUME LateEnv, TypeOK, MaskInv, LateInv, [Next]_vars
  PROVE  NoTornRead'
<1> USE DEF TypeOK, ChanTypeOK, CtrlTypeOK, ReaderTypeOK, WriterTypeOK, ReaderGoto, WriterGoto,
            WriteReturn, chan, ctrl, rlocal, wlocal, history, LateEnv, LateInv, Evicting,
            CopyInv, NoTornRead, HistoryTypeOK
<1>1. ASSUME NEW r \in Readers, ReadStep(r) PROVE NoTornRead'
  <2>1. CASE ReadClear(r)
    <3>1. rbuf[r] \in Contents /\ rbuf[r] # Torn /\ got' = [got EXCEPT ![r] = Append(@, rbuf[r])]
      BY <2>1 DEF ReadClear
    <3>2. \A i \in 1 .. Len(Append(got[r], rbuf[r])) : Append(got[r], rbuf[r])[i] # Torn
      <4>1. got[r] \in Seq(Contents)
        OBVIOUS
      <4> QED
        BY <3>1, <4>1
    <3> QED
      BY <3>1, <3>2
  <2>2. CASE ~ReadClear(r)
    BY <1>1, <2>2 DEF ReadStep, ReleaseSlot, ReadCall, ReadReady, ReadCopied, ReadCheck, ReadWake, WakeWriters
  <2> QED
    BY <2>1, <2>2
<1>2. ASSUME NEW r \in Readers, ReaderEnv(r) PROVE NoTornRead'
  BY <1>2 DEF ReaderEnv, Open, OpenFull, Release, Poll, ReadGivesUp, ReadFault
<1>3. ASSUME NEW w \in Writers, WriteStep(w) PROVE NoTornRead'
  BY <1>3 DEF WriteStep, WriteTest, WriteSleep, WriteExpire, TimeoutBitmap, TimeoutMask,
              StripTest, StripLoad, StripStore, Evict, CopyStart, CopyEnd, LoadMask, Publish
<1>4. ASSUME NEW w \in Writers, WriterEnv(w) PROVE NoTornRead'
  BY <1>4 DEF WriterEnv, Claim, WriteAgain, WriteInterrupted, WriteSignal, CopyFault
<1>5. CASE UNCHANGED vars
  BY <1>5 DEF vars
<1> QED
  BY <1>1, <1>2, <1>3, <1>4, <1>5 DEF Next

(* Nothing is copied, published or evicted in a fresh channel. *)
LEMMA LateInit == Init => LateInv
BY DEF Init, LateInv, BitsNeverReused, StripInv, WrittenSlotIsEmpty, PublishedIsWhole,
       EvictedHasNoBit, CopyInv, NoTornRead, Evicting, Writing

(* The invariants of evictions hold in every state. *)
LEMMA LateCorrect ==
  ASSUME LateEnv
  PROVE  Spec => [](TypeOK /\ LateInv)
<1>1. NBits <= IntBits /\ ~({"join", "close"} \subseteq Env)
  BY DEF LateEnv
<1>2. TypeOK /\ MaskInv /\ LateInv /\ [Next]_vars => LateInv'
  BY BitsStep, StripStepInv, WrittenStep, WholeStep, EvictedStep, CopyStep, NoTornStep
  DEF LateInv
<1> QED
  BY <1>1, <1>2, LateInit, MaskInvariant, TypeCorrect, PTL DEF Spec

(* A read never returns data that a writer was overwriting, whenever the    *)
(* timer of the writer expires and however long the reader takes to copy:  *)
(* the test of online after the copy is enough, for any number of readers  *)
(* and slots, with signals, faults and readers that close.                 *)
THEOREM NothingTorn ==
  ASSUME LateEnv
  PROVE  Spec => []NoTornRead
BY LateCorrect, PTL DEF LateInv

(* POLLIN is taken back only from a reader that is told so: while no writer *)
(* is evicting, a reader that is online finds the message poll() announced, *)
(* whatever timers expired since, whoever was evicted or left.              *)
THEOREM PollIsTruthful ==
  ASSUME LateEnv
  PROVE  Spec => []PollStaysTrue
<1>1. TypeOK /\ MaskInv /\ LateInv => PollStaysTrue
  <2> SUFFICES ASSUME TypeOK, MaskInv, LateInv, bcl = NoOne,
                      NEW r \in Readers, rpc[r] = "ready", online[r]
               PROVE  CanRead(r)
    BY DEF PollStaysTrue
  <2>1. Guarded(r)
    BY DEF LateInv, CopyInv
  <2>2. \A w \in Writers : wpc[w] \notin Evicting
    BY ChannelAssumption DEF MaskInv, LockIsHeldByEvictor
  <2>3. bitmap_bit[r] \in bitmap[next_read_idx[r]]
    BY <2>1, <2>2 DEF Guarded
  <2> QED
    BY <2>3, CanReadIsMembership DEF LateEnv, CanRead, TypeOK, ChanTypeOK, CtrlTypeOK
<1>2. NBits <= IntBits /\ ~({"join", "close"} \subseteq Env)
  BY DEF LateEnv
<1> QED
  BY <1>1, <1>2, LateCorrect, MaskInvariant, PTL

(* An eviction leaves no bit of an evicted reader behind, and none comes    *)
(* back: a writer waits for a dead reader once.                             *)
THEOREM NoBitLeftBehind ==
  ASSUME LateEnv
  PROVE  Spec => []NoBitOfEvicted
<1>1. LateInv => NoBitOfEvicted
  BY DEF LateInv, EvictedHasNoBit, NoBitOfEvicted
<1> QED
  BY <1>1, LateCorrect, PTL
=============================================================================
