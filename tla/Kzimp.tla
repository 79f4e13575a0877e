------------------------------- MODULE Kzimp -------------------------------
(***************************************************************************)
(* One channel of the kzimp character device: a ring of channel_size       *)
(* message slots, each with a bitmap of the readers that still have to     *)
(* read it, shared by the processes that have the device open.             *)
(*                                                                         *)
(* One action is one access to the shared state (or one critical section   *)
(* of the channel lock bcl when nothing outside the lock can see into it), *)
(* so processes interleave exactly where the kernel code lets them.        *)
(*                                                                         *)
(* The constant Env says which of the following the environment does:      *)
(*   "join"  a reader opens while a write is in flight, or after another   *)
(*           reader was released or evicted (its bit may be reused)        *)
(*   "close" a reader releases the channel                                 *)
(*   "missed" the timer of a writer expires though its slot is free: the   *)
(*           wake-up came between its test and its sleep                   *)
(*   "late"  the timer of a writer expires while its slot is not read      *)
(*   "intr"  a blocked write gives up: O_NONBLOCK (EAGAIN), signal (EINTR) *)
(*   "fault" copy_from_user or copy_to_user fails (EFAULT)                 *)
(*   "lap"   a writer claims a slot another writer has not finished with   *)
(*   "race"  a bitmap is changed between the load and the store of the &=  *)
(*           of handle_timeout: it is one instruction, so that only the    *)
(*           processes on other processors can come in between             *)
(***************************************************************************)
EXTENDS Integers, Sequences, FiniteSets

CONSTANTS
  Readers,       \* processes that open the device for reading
  Writers,       \* processes that have it open for writing
  NoOne,         \* the owner of a free lock
  channel_size,  \* number of slots of the ring
  NBits,         \* bits of multicast_mask (64 in the code)
  IntBits,       \* bits of the int that reader_can_read shifts (32)
  Env,           \* what the environment does, see above
  MaxWrites,     \* bound: number of slots claimed in a run
  MaxReaders     \* bound: nb_readers, which failed opens increment for ever

EnvEvents == {"join", "close", "missed", "late", "intr", "fault", "lap",
              "race"}

ASSUME ChannelAssumption ==
  /\ channel_size \in Nat \ {0}
  /\ NBits \in Nat \ {0}
  /\ IntBits \in Nat \ {0}
  /\ MaxWrites \in Nat
  /\ MaxReaders \in Nat
  /\ Env \subseteq EnvEvents
  /\ NoOne \notin Writers

Slots == 0 .. channel_size - 1
Bits == 0 .. NBits - 1
Msgs == 1 .. MaxWrites    \* a message is named by the rank of its claim
NoMsg == 0                \* content of a slot never written
Torn == -1                \* content that mixes two messages

VARIABLES
  \* struct kzimp_comm_chan
  multicast_mask, bitmap, data, next_write_idx, bcl, readers, nb_readers, wq,
  \* struct kzimp_ctrl of each reader
  next_read_idx, bitmap_bit, online,
  \* where each reader is in its call: pc, buffer, cursor over the slots
  rpc, rbuf, rcur,
  \* where each writer is: pc, slot m, message, local bitmaps, cursor
  wpc, slot, msg, late, reg, wcur,
  \* history: slots claimed, messages made visible, what each reader got
  \* since it opened, and how many slots were claimed when it opened
  claimed, sent, got, first

chan == <<multicast_mask, bitmap, data, next_write_idx, bcl, readers,
          nb_readers, wq>>
ctrl == <<next_read_idx, bitmap_bit, online>>
rlocal == <<rpc, rbuf, rcur>>
wlocal == <<wpc, slot, msg, late, reg, wcur>>
history == <<claimed, sent, got, first>>
vars == <<chan, ctrl, rlocal, wlocal, history>>

ReaderPcs == {"new", "idle", "ready", "wait", "copy", "check", "clear",
              "wake", "closing", "closed"}
WriterPcs == {"idle", "test", "block", "sleep", "expired", "lock", "strip",
              "load", "store", "copy", "copying", "mask", "publish"}

Contents == Msgs \cup {NoMsg, Torn}

ChanTypeOK ==
  /\ multicast_mask \in SUBSET Bits
  /\ bitmap \in [Slots -> SUBSET Bits]
  /\ data \in [Slots -> Contents]
  /\ next_write_idx \in Slots
  /\ bcl \in Writers \cup {NoOne}
  /\ readers \in SUBSET Readers
  /\ nb_readers \in Int
  /\ wq \in SUBSET Writers

CtrlTypeOK ==
  /\ next_read_idx \in [Readers -> Slots]
  /\ bitmap_bit \in [Readers -> Bits]
  /\ online \in [Readers -> BOOLEAN]

ReaderTypeOK ==
  /\ rpc \in [Readers -> ReaderPcs]
  /\ rbuf \in [Readers -> Contents]
  /\ rcur \in [Readers -> Slots]

WriterTypeOK ==
  /\ wpc \in [Writers -> WriterPcs]
  /\ slot \in [Writers -> Slots]
  /\ msg \in [Writers -> Msgs \cup {NoMsg}]
  /\ late \in [Writers -> SUBSET Bits]
  /\ reg \in [Writers -> SUBSET Bits]
  /\ wcur \in [Writers -> 0 .. channel_size]
  /\ \A w \in Writers : wpc[w] \in {"load", "store"} => wcur[w] \in Slots
  /\ \A w \in Writers : wpc[w] # "idle" => msg[w] \in Msgs

HistoryTypeOK ==
  /\ claimed \in 0 .. MaxWrites
  /\ sent \in SUBSET Msgs
  /\ got \in [Readers -> Seq(Contents)]
  /\ first \in [Readers -> 0 .. MaxWrites]

TypeOK ==
  ChanTypeOK /\ CtrlTypeOK /\ ReaderTypeOK /\ WriterTypeOK /\ HistoryTypeOK

(* kzimp_init_channel: a fresh channel, nobody has it open *)
Init ==
  /\ multicast_mask = {}
  /\ bitmap = [s \in Slots |-> {}]
  /\ data = [s \in Slots |-> NoMsg]
  /\ next_write_idx = 0
  /\ bcl = NoOne
  /\ readers = {}
  /\ nb_readers = 0
  /\ wq = {}
  /\ next_read_idx = [r \in Readers |-> 0]
  /\ bitmap_bit = [r \in Readers |-> 0]
  /\ online = [r \in Readers |-> FALSE]
  /\ rpc = [r \in Readers |-> "new"]
  /\ rbuf = [r \in Readers |-> NoMsg]
  /\ rcur = [r \in Readers |-> 0]
  /\ wpc = [w \in Writers |-> "idle"]
  /\ slot = [w \in Writers |-> 0]
  /\ msg = [w \in Writers |-> NoMsg]
  /\ late = [w \in Writers |-> {}]
  /\ reg = [w \in Writers |-> {}]
  /\ wcur = [w \in Writers |-> 0]
  /\ claimed = 0
  /\ sent = {}
  /\ got = [r \in Readers |-> <<>>]
  /\ first = [r \in Readers |-> 0]

NextIdxNoWrap(s) == s + 1                       \* mutant
NextIdx(s) == (s + 1) % channel_size

ReaderCanReadNext(bm, bit) == ((bit + 1) % IntBits) \in bm    \* mutant

(* bitmap & (1 << bit), cut to the int it returns: the shift count of an   *)
(* int wraps at its width, so the bit tested is one of the lowest IntBits. *)
reader_can_read(bm, bit) == (bit % IntBits) \in bm
WriterCanWriteSome(bm) == bm # Bits             \* mutant
writer_can_write(bm) == bm = {}

FirstBit(bit) == \A b \in Bits : bit <= b        \* mutant: set_bit forgotten

(* bit is what find_first_zero_bit returns on the multicast mask *)
FirstZeroBit(bit) ==
  /\ bit \notin multicast_mask
  /\ \A b \in Bits \ multicast_mask : bit <= b

(* No write is in flight and no reader has left or been evicted. *)
Quiet ==
  /\ \A w \in Writers : wpc[w] = "idle"
  /\ \A r \in Readers : /\ rpc[r] \notin {"closing", "closed"}
                        /\ r \in readers => online[r]

(* The bitmap of slot s can be changed: nobody is between the load and the *)
(* store of &= on it, unless processors race.                              *)
CanChange(s) == "race" \in Env \/ \A w \in Writers : wpc[w] = "store" => wcur[w] # s

ReaderGoto(r, pc) == rpc' = [rpc EXCEPT ![r] = pc]
WriterGoto(w, pc) == wpc' = [wpc EXCEPT ![w] = pc]

-----------------------------------------------------------------------------
(* Readers *)

(* kzimp_open(FMODE_READ): the reader starts at the next slot to be claimed *)
Open(r) ==
  /\ rpc[r] \in {"new", "closed"}
  /\ bcl = NoOne
  /\ "join" \in Env \/ Quiet
  /\ \E bit \in Bits :
       /\ FirstZeroBit(bit)
       /\ multicast_mask' = multicast_mask \cup {bit}
       /\ bitmap_bit' = [bitmap_bit EXCEPT ![r] = bit]
  /\ next_read_idx' = [next_read_idx EXCEPT ![r] = next_write_idx]
  /\ online' = [online EXCEPT ![r] = TRUE]
  /\ nb_readers' = nb_readers + 1
  /\ readers' = readers \cup {r}
  /\ ReaderGoto(r, "idle")
  /\ got' = [got EXCEPT ![r] = <<>>]
  /\ first' = [first EXCEPT ![r] = claimed]
  /\ UNCHANGED <<bitmap, data, next_write_idx, bcl, wq, rbuf, rcur, wlocal,
                 claimed, sent>>

(* kzimp_open when the mask is full: open() fails, but the control         *)
(* structure stays in the list and nb_readers stays incremented.           *)
OpenFull(r) ==
  /\ rpc[r] \in {"new", "closed"}
  /\ bcl = NoOne
  /\ "join" \in Env \/ Quiet
  /\ multicast_mask = Bits
  /\ nb_readers < MaxReaders
  /\ nb_readers' = nb_readers + 1
  /\ UNCHANGED <<multicast_mask, bitmap, data, next_write_idx, bcl, readers,
                 wq, ctrl, rlocal, wlocal, history>>

(* kzimp_release, the part under the lock *)
Release(r) ==
  /\ "close" \in Env
  /\ rpc[r] = "idle"
  /\ bcl = NoOne
  /\ multicast_mask' = multicast_mask \ {bitmap_bit[r]}
  /\ readers' = readers \ {r}
  /\ nb_readers' = nb_readers - 1
  /\ ReaderGoto(r, "closing")
  /\ UNCHANGED <<bitmap, data, next_write_idx, bcl, wq, ctrl, rbuf, rcur,
                 wlocal, history>>

(* kzimp_release, one iteration of the loop after the unlock *)
ReleaseSlot(r) ==
  /\ rpc[r] = "closing"
  /\ CanChange(rcur[r])
  /\ bitmap' = [bitmap EXCEPT ![rcur[r]] = @ \ {bitmap_bit[r]}]
  /\ rcur' = [rcur EXCEPT ![r] = NextIdx(@)]
  /\ ReaderGoto(r, IF NextIdx(rcur[r]) = 0 THEN "closed" ELSE "closing")
  /\ UNCHANGED <<multicast_mask, data, next_write_idx, bcl, readers,
                 nb_readers, wq, ctrl, rbuf, wlocal, history>>

CanRead(r) == reader_can_read(bitmap[next_read_idx[r]], bitmap_bit[r])

(* kzimp_poll: what it reports, and a reader that was told POLLIN *)
PollMask(r) == (IF CanRead(r) THEN {"POLLIN"} ELSE {}) \cup
               (IF ~online[r] THEN {"POLLHUP"} ELSE {})
Poll(r) ==
  /\ rpc[r] = "idle"
  /\ "POLLIN" \in PollMask(r)
  /\ ReaderGoto(r, "ready")
  /\ UNCHANGED <<chan, ctrl, rbuf, rcur, wlocal, history>>

(* kzimp_read is called: m = &msgs[next_read_idx] *)
ReadCall(r) ==
  /\ rpc[r] \in {"idle", "ready"}
  /\ ReaderGoto(r, "wait")
  /\ UNCHANGED <<chan, ctrl, rbuf, rcur, wlocal, history>>

(* The wait loop gives up (EAGAIN, EINTR); only tried when it must wait. *)
ReadGivesUp(r) ==
  /\ rpc[r] = "wait"
  /\ ~CanRead(r)
  /\ ReaderGoto(r, "idle")
  /\ UNCHANGED <<chan, ctrl, rbuf, rcur, wlocal, history>>

(* The wait loop ends (woken or after HZ/100): copy_to_user starts. *)
ReadReady(r) ==
  /\ rpc[r] = "wait"
  /\ CanRead(r)
  /\ rbuf' = [rbuf EXCEPT ![r] = data[next_read_idx[r]]]
  /\ ReaderGoto(r, "copy")
  /\ UNCHANGED <<chan, ctrl, rcur, wlocal, history>>

(* copy_to_user fails: the message is not consumed *)
ReadFault(r) ==
  /\ "fault" \in Env
  /\ rpc[r] = "copy"
  /\ rbuf' = [rbuf EXCEPT ![r] = NoMsg]
  /\ ReaderGoto(r, "idle")
  /\ UNCHANGED <<chan, ctrl, rcur, wlocal, history>>

(* copy_to_user ends: the copy is whole if the slot did not change under it *)
ReadCopied(r) ==
  /\ rpc[r] = "copy"
  /\ rbuf' = [rbuf EXCEPT ![r] =
                IF data[next_read_idx[r]] = @ THEN @ ELSE Torn]
  /\ ReaderGoto(r, "check")
  /\ UNCHANGED <<chan, ctrl, rcur, wlocal, history>>

(* mutant: online is not tested *)
ReadCheckSkipped(r) ==
  /\ rpc[r] = "check"
  /\ ReaderGoto(r, "clear")
  /\ UNCHANGED <<chan, ctrl, rbuf, rcur, wlocal, history>>

(* finalize_read, test of online: EBADF when the reader was evicted *)
ReadCheck(r) ==
  /\ rpc[r] = "check"
  /\ IF online[r]
     THEN ReaderGoto(r, "clear") /\ UNCHANGED rbuf
     ELSE ReaderGoto(r, "idle") /\ rbuf' = [rbuf EXCEPT ![r] = NoMsg]
  /\ UNCHANGED <<chan, ctrl, rcur, wlocal, history>>

(* mutant: m->bitmap = 0 in place of clear_bit *)
ReadClearAll(r) ==
  /\ rpc[r] = "clear"
  /\ CanChange(next_read_idx[r])
  /\ bitmap' = [bitmap EXCEPT ![next_read_idx[r]] = {}]
  /\ got' = [got EXCEPT ![r] = Append(@, rbuf[r])]
  /\ rbuf' = [rbuf EXCEPT ![r] = NoMsg]
  /\ ReaderGoto(r, "wake")
  /\ UNCHANGED <<multicast_mask, data, next_write_idx, bcl, readers,
                 nb_readers, wq, ctrl, rcur, wlocal, claimed, sent, first>>

(* finalize_read, clear_bit: the message is consumed *)
ReadClear(r) ==
  /\ rpc[r] = "clear"
  /\ CanChange(next_read_idx[r])
  /\ bitmap' = [bitmap EXCEPT ![next_read_idx[r]] = @ \ {bitmap_bit[r]}]
  /\ got' = [got EXCEPT ![r] = Append(@, rbuf[r])]
  /\ rbuf' = [rbuf EXCEPT ![r] = NoMsg]
  /\ ReaderGoto(r, "wake")
  /\ UNCHANGED <<multicast_mask, data, next_write_idx, bcl, readers,
                 nb_readers, wq, ctrl, rcur, wlocal, claimed, sent, first>>

(* wake_up(&wq): every writer that sleeps tests its slot again, off the queue *)
WakeWriters ==
  /\ wq' = {}
  /\ wpc' = [w \in Writers |-> IF w \in wq /\ wpc[w] = "sleep" THEN "test" ELSE wpc[w]]

(* finalize_read, the rest: the last reader of the slot wakes every writer *)
(* that sleeps on wq, and the read returns.                                *)
ReadWake(r) ==
  /\ rpc[r] = "wake"
  /\ IF writer_can_write(bitmap[next_read_idx[r]])
     THEN WakeWriters
     ELSE UNCHANGED <<wq, wpc>>
  /\ next_read_idx' = [next_read_idx EXCEPT ![r] = NextIdx(@)]
  /\ ReaderGoto(r, "idle")
  /\ UNCHANGED <<multicast_mask, bitmap, data, next_write_idx, bcl, readers,
                 nb_readers, bitmap_bit, online, rbuf, rcur, slot, msg, late,
                 reg, wcur, history>>

-----------------------------------------------------------------------------
(* Writers *)

(* kzimp_write: a slot is claimed under the lock *)
Claim(w) ==
  /\ wpc[w] = "idle"
  /\ bcl = NoOne
  /\ claimed < MaxWrites
  /\ "lap" \in Env \/ \A v \in Writers : wpc[v] # "idle" => slot[v] # next_write_idx
  /\ slot' = [slot EXCEPT ![w] = next_write_idx]
  /\ next_write_idx' = NextIdx(next_write_idx)
  /\ claimed' = claimed + 1
  /\ msg' = [msg EXCEPT ![w] = claimed + 1]
  /\ WriterGoto(w, "test")
  /\ UNCHANGED <<multicast_mask, bitmap, data, bcl, readers, nb_readers, wq,
                 ctrl, rlocal, late, reg, wcur, sent, got, first>>

(* The condition of the wait loop; finish_wait when it ends. *)
WriteTest(w) ==
  /\ wpc[w] = "test"
  /\ WriterGoto(w, IF writer_can_write(bitmap[slot[w]]) THEN "copy" ELSE "block")
  /\ UNCHANGED <<chan, ctrl, rlocal, slot, msg, late, reg, wcur, history>>

(* The write returns: its local variables are gone. *)
WriteReturn(w) ==
  /\ WriterGoto(w, "idle")
  /\ slot' = [slot EXCEPT ![w] = 0]
  /\ msg' = [msg EXCEPT ![w] = NoMsg]
  /\ late' = [late EXCEPT ![w] = {}]
  /\ reg' = [reg EXCEPT ![w] = {}]
  /\ wcur' = [wcur EXCEPT ![w] = 0]

(* A write that must wait gives up. The slot stays claimed and is never    *)
(* filled; after a signal the wait entry also stays on wq.                 *)
WriteAgain(w) ==
  /\ "intr" \in Env
  /\ wpc[w] = "block"
  /\ WriteReturn(w)
  /\ UNCHANGED <<chan, ctrl, rlocal, history>>

WriteInterrupted(w) ==
  /\ "intr" \in Env
  /\ wpc[w] \in {"block", "sleep"}
  /\ wpc[w] = "sleep" => ~writer_can_write(bitmap[slot[w]])
  /\ wq' = wq \cup {w}
  /\ WriteReturn(w)
  /\ UNCHANGED <<multicast_mask, bitmap, data, next_write_idx, bcl, readers,
                 nb_readers, ctrl, rlocal, history>>

(* A signal wakes a sleeping writer, which finds its slot free: finish_wait *)
WriteSignal(w) ==
  /\ "intr" \in Env
  /\ wpc[w] = "sleep"
  /\ writer_can_write(bitmap[slot[w]])
  /\ wq' = wq \ {w}
  /\ WriterGoto(w, "copy")
  /\ UNCHANGED <<multicast_mask, bitmap, data, next_write_idx, bcl, readers,
                 nb_readers, ctrl, rlocal, slot, msg, late, reg, wcur, history>>

(* prepare_to_wait, schedule_timeout: the condition is not tested again *)
WriteSleep(w) ==
  /\ wpc[w] = "block"
  /\ wq' = wq \cup {w}
  /\ WriterGoto(w, "sleep")
  /\ UNCHANGED <<multicast_mask, bitmap, data, next_write_idx, bcl, readers,
                 nb_readers, ctrl, rlocal, slot, msg, late, reg, wcur, history>>

WriteExpireNever(w) == FALSE     \* mutant: schedule() without a timeout

(* schedule_timeout returns 0: the loop ends, finish_wait *)
WriteExpire(w) ==
  /\ wpc[w] = "sleep"
  /\ (IF writer_can_write(bitmap[slot[w]]) THEN "missed" ELSE "late") \in Env
  /\ wq' = wq \ {w}
  /\ WriterGoto(w, "expired")
  /\ UNCHANGED <<multicast_mask, bitmap, data, next_write_idx, bcl, readers,
                 nb_readers, ctrl, rlocal, slot, msg, late, reg, wcur, history>>

(* handle_timeout: the bitmap of m is read before the lock is taken *)
TimeoutBitmap(w) ==
  /\ wpc[w] = "expired"
  /\ late' = [late EXCEPT ![w] = bitmap[slot[w]]]
  /\ WriterGoto(w, "lock")
  /\ UNCHANGED <<chan, ctrl, rlocal, slot, msg, reg, wcur, history>>

(* mutant: the mask keeps the late readers *)
TimeoutMaskKept(w) ==
  /\ wpc[w] = "lock"
  /\ bcl = NoOne
  /\ bcl' = w
  /\ wcur' = [wcur EXCEPT ![w] = 0]
  /\ WriterGoto(w, "strip")
  /\ UNCHANGED <<multicast_mask, bitmap, data, next_write_idx, readers,
                 nb_readers, wq, ctrl, rlocal, slot, msg, late, reg, history>>

(* ... the lock, and the mask without the late readers *)
TimeoutMask(w) ==
  /\ wpc[w] = "lock"
  /\ bcl = NoOne
  /\ bcl' = w
  /\ multicast_mask' = multicast_mask \ late[w]
  /\ wcur' = [wcur EXCEPT ![w] = 0]
  /\ WriterGoto(w, "strip")
  /\ UNCHANGED <<bitmap, data, next_write_idx, readers, nb_readers, wq, ctrl,
                 rlocal, slot, msg, late, reg, history>>

(* mutant: break in place of continue on an empty slot *)
StripTestBreak(w) ==
  /\ wpc[w] = "strip"
  /\ wcur[w] \in Slots
  /\ IF bitmap[wcur[w]] = {}
     THEN wcur' = [wcur EXCEPT ![w] = channel_size] /\ UNCHANGED wpc
     ELSE WriterGoto(w, "load") /\ UNCHANGED wcur
  /\ UNCHANGED <<chan, ctrl, rlocal, slot, msg, late, reg, history>>

(* ... for each slot: the test, then the load and the store of &= *)
StripTest(w) ==
  /\ wpc[w] = "strip"
  /\ wcur[w] \in Slots
  /\ IF bitmap[wcur[w]] = {}
     THEN wcur' = [wcur EXCEPT ![w] = @ + 1] /\ UNCHANGED wpc
     ELSE WriterGoto(w, "load") /\ UNCHANGED wcur
  /\ UNCHANGED <<chan, ctrl, rlocal, slot, msg, late, reg, history>>

StripLoad(w) ==
  /\ wpc[w] = "load"
  /\ reg' = [reg EXCEPT ![w] = bitmap[wcur[w]]]
  /\ WriterGoto(w, "store")
  /\ UNCHANGED <<chan, ctrl, rlocal, slot, msg, late, wcur, history>>


StripStore(w) ==
  /\ wpc[w] = "store"
  /\ bitmap' = [bitmap EXCEPT ![wcur[w]] = reg[w] \ late[w]]
  /\ wcur' = [wcur EXCEPT ![w] = @ + 1]
  /\ reg' = [reg EXCEPT ![w] = {}]
  /\ WriterGoto(w, "strip")
  /\ UNCHANGED <<multicast_mask, data, next_write_idx, bcl, readers,
                 nb_readers, wq, ctrl, rlocal, slot, msg, late, history>>

(* mutant: the bitmap of m is read again, after its bits were stripped *)
EvictNobody(w) ==
  /\ wpc[w] = "strip"
  /\ wcur[w] = channel_size
  /\ online' = [r \in Readers |->
                  /\ online[r]
                  /\ ~(r \in readers /\ reader_can_read(bitmap[slot[w]], bitmap_bit[r]))]
  /\ bcl' = NoOne
  /\ late' = [late EXCEPT ![w] = {}]
  /\ wcur' = [wcur EXCEPT ![w] = 0]
  /\ WriterGoto(w, "copy")
  /\ UNCHANGED <<multicast_mask, bitmap, data, next_write_idx, readers,
                 nb_readers, wq, next_read_idx, bitmap_bit, rlocal, slot, msg,
                 reg, history>>

(* ... the readers of that bitmap go offline, and the unlock *)
Evict(w) ==
  /\ wpc[w] = "strip"
  /\ wcur[w] = channel_size
  /\ online' = [r \in Readers |->
                  /\ online[r]
                  /\ ~(r \in readers /\ reader_can_read(late[w], bitmap_bit[r]))]
  /\ bcl' = NoOne
  /\ late' = [late EXCEPT ![w] = {}]
  /\ wcur' = [wcur EXCEPT ![w] = 0]
  /\ WriterGoto(w, "copy")
  /\ UNCHANGED <<multicast_mask, bitmap, data, next_write_idx, readers,
                 nb_readers, wq, next_read_idx, bitmap_bit, rlocal, slot, msg,
                 reg, history>>

(* copy_from_user starts ... *)
CopyStart(w) ==
  /\ wpc[w] = "copy"
  /\ data' = [data EXCEPT ![slot[w]] = Torn]
  /\ WriterGoto(w, "copying")
  /\ UNCHANGED <<multicast_mask, bitmap, next_write_idx, bcl, readers,
                 nb_readers, wq, ctrl, rlocal, slot, msg, late, reg, wcur,
                 history>>

(* ... fails: the slot stays claimed and is never filled ... *)
CopyFault(w) ==
  /\ "fault" \in Env
  /\ wpc[w] = "copying"
  /\ WriteReturn(w)
  /\ UNCHANGED <<chan, ctrl, rlocal, history>>

(* ... or ends *)
CopyEnd(w) ==
  /\ wpc[w] = "copying"
  /\ data' = [data EXCEPT ![slot[w]] = msg[w]]
  /\ WriterGoto(w, "mask")
  /\ UNCHANGED <<multicast_mask, bitmap, next_write_idx, bcl, readers,
                 nb_readers, wq, ctrl, rlocal, slot, msg, late, reg, wcur,
                 history>>

(* kzimp_finalize_write: the mask is loaded without the lock ... *)
LoadMask(w) ==
  /\ wpc[w] = "mask"
  /\ reg' = [reg EXCEPT ![w] = multicast_mask]
  /\ WriterGoto(w, "publish")
  /\ UNCHANGED <<chan, ctrl, rlocal, slot, msg, late, wcur, history>>

(* ... and stored in the slot; the readers' wait loop polls by itself. *)
Publish(w) ==
  /\ wpc[w] = "publish"
  /\ CanChange(slot[w])
  /\ bitmap' = [bitmap EXCEPT ![slot[w]] = reg[w]]
  /\ sent' = sent \cup {msg[w]}
  /\ WriteReturn(w)
  /\ UNCHANGED <<multicast_mask, data, next_write_idx, bcl, readers,
                 nb_readers, wq, ctrl, rlocal, claimed, got, first>>

-----------------------------------------------------------------------------
(* The steps a call takes by itself, and those the environment decides *)
ReadStep(r) ==
  \/ ReleaseSlot(r) \/ ReadCall(r) \/ ReadReady(r) \/ ReadCopied(r)
  \/ ReadCheck(r) \/ ReadClear(r) \/ ReadWake(r)

ReaderEnv(r) ==
  \/ Open(r) \/ OpenFull(r) \/ Release(r) \/ Poll(r) \/ ReadGivesUp(r)
  \/ ReadFault(r)

WriteStep(w) ==
  \/ WriteTest(w) \/ WriteSleep(w) \/ WriteExpire(w) \/ TimeoutBitmap(w)
  \/ TimeoutMask(w) \/ StripTest(w) \/ StripLoad(w) \/ StripStore(w)
  \/ Evict(w) \/ CopyStart(w) \/ CopyEnd(w) \/ LoadMask(w) \/ Publish(w)

WriterEnv(w) ==
  \/ Claim(w) \/ WriteAgain(w) \/ WriteInterrupted(w) \/ WriteSignal(w)
  \/ CopyFault(w)

Next ==
  \/ \E r \in Readers : ReadStep(r) \/ ReaderEnv(r)
  \/ \E w \in Writers : WriteStep(w) \/ WriterEnv(w)

Spec == Init /\ [][Next]_vars

(* The kernel schedules every process that can run, timers fire, and a     *)
(* reader that has the channel open keeps calling read().                  *)
FairSpec ==
  /\ Spec
  /\ \A r \in Readers : WF_vars(ReadStep(r))
  /\ \A w \in Writers : WF_vars(WriteStep(w))

-----------------------------------------------------------------------------
(* Properties *)

(* Mutual exclusion on a message without a lock: while a reader copies a   *)
(* message out and consumes it, no writer is past its wait on that slot.   *)
(* Only the bitmap protocol of read and write keeps them apart.            *)
NoOverwriteWhileRead ==
  \A r \in Readers, w \in Writers :
    /\ rpc[r] \in {"copy", "check", "clear"}
    /\ wpc[w] \in {"copy", "copying", "mask", "publish"}
    => slot[w] # next_read_idx[r]

(* Every reader gets the messages claimed after its open() one by one: none *)
(* is lost, duplicated, reordered or torn, whoever wrote them and in        *)
(* whatever order the writers finished. With timeouts: an eviction costs    *)
(* the readers that are not late nothing, and the late ones only the rest.  *)
ExactlyOnceInOrder ==
  \A r \in Readers : \A i \in 1 .. Len(got[r]) : got[r][i] = first[r] + i

(* A read never returns data that a writer was overwriting: the test of    *)
(* online after the copy catches a reader whose slot a timed out writer    *)
(* took over.                                                              *)
NoTornRead == \A r \in Readers : \A i \in 1 .. Len(got[r]) : got[r][i] # Torn

(* What poll() reported stays true until the reader calls read(), or the   *)
(* reader is put offline: outside the critical section of a writer that    *)
(* timed out, nobody has taken the message from a reader without also      *)
(* telling it so.                                                          *)
PollStaysTrue ==
  bcl = NoOne => \A r \in Readers : rpc[r] = "ready" /\ online[r] => CanRead(r)

(* Outside the critical section of a writer that timed out, the multicast  *)
(* mask holds one bit for each reader that is registered and online, and   *)
(* no two of them share a bit.                                             *)
BitOf(R) == {bitmap_bit[r] : r \in R}
Active == {r \in readers : online[r]}
MaskIsActiveReaders ==
  bcl = NoOne =>
    /\ multicast_mask = BitOf(Active)
    /\ \A r1, r2 \in Active : bitmap_bit[r1] = bitmap_bit[r2] => r1 = r2

(* Once the writer that evicted a reader has released the lock, no message *)
(* is left with its bit: nobody would ever clear it, and every writer that *)
(* comes to that slot would wait for the whole timeout.                    *)
NoBitOfEvicted ==
  bcl = NoOne =>
    \A r \in readers, s \in Slots : ~online[r] => bitmap_bit[r] \notin bitmap[s]

(* In the steady state the channel is the multicast channel of Multicast:  *)
(* a claim accepts, a store of the bitmap publishes, a clear_bit delivers. *)
Channel == INSTANCE Multicast WITH
  Capacity <- channel_size, MaxAccepted <- MaxWrites,
  accepted <- claimed, published <- sent, members <- readers,
  delivered <- got, joined <- first
RefinesMulticast == Channel!Spec

(* A message published while a reader is registered is read by it, as long *)
(* as it keeps reading and is not evicted: no wake-up, interleaving, full  *)
(* ring or eviction of another reader keeps the message from it.           *)
HasRead(r, m) == \E i \in 1 .. Len(got[r]) : got[r][i] = m

(* A call of write() returns whatever the readers do: late, dead or gone. *)
WriteReturns == \A w \in Writers : wpc[w] # "idle" ~> wpc[w] = "idle"

(* From the header comment of kzimp_write: two writers can be on the same  *)
(* message only if there are more writers than messages.                   *)
OneWriterPerMessage ==
  \A v, w \in Writers :
    /\ v # w
    /\ wpc[v] \in {"copy", "copying", "mask", "publish"}
    /\ wpc[w] \in {"copy", "copying", "mask", "publish"}
    => slot[v] # slot[w]

(* From the comment in kzimp_open: next_read_idx is where the next message *)
(* goes, so that the new reader gets it (the first one claimed after it).  *)
GetsNextMessage ==
  \A r \in Readers : Len(got[r]) > 0 => got[r][1] = first[r] + 1

(* From the comment in handle_timeout: the test of the bitmap before &=    *)
(* keeps messages from being lost. A message published to an active reader *)
(* that has not read it still has the bit of that reader.                  *)
MessageNotLost ==
  \A r \in Active, s \in Slots :
    /\ data[s] \in sent
    /\ data[s] > first[r]
    /\ ~HasRead(r, data[s])
    => bitmap_bit[r] \in bitmap[s]

(* From the header comment of kzimp_read: EBADF if this reader is no longer *)
(* online, so the call of an evicted reader returns.                        *)
EvictedReadReturns ==
  \A r \in Readers : (r \in readers /\ ~online[r] /\ rpc[r] = "wait")
                       ~> rpc[r] = "idle"

-----------------------------------------------------------------------------
(* Inductive strengthenings *)

Evicting == {"strip", "load", "store"}      \* holding the lock
Writing == {"copy", "copying", "mask", "publish"}
Away == {"new", "closing", "closed"}        \* not on the list of readers

LockIsHeldByEvictor == \A w \in Writers : bcl = w <=> wpc[w] \in Evicting
RegisteredUntilRelease == \A r \in Readers : r \in readers <=> rpc[r] \notin Away

(* The bits of the readers that the owner of the lock has not yet evicted *)
Held == IF bcl = NoOne THEN {} ELSE late[bcl]
MaskIsActiveReadersNotHeld == multicast_mask = BitOf(Active) \ Held

DistinctBits(R) == \A r, q \in R : bitmap_bit[r] = bitmap_bit[q] => r = q

(* MaskIsActiveReaders, made inductive: what it says during an eviction,   *)
(* who holds the lock, and that evicted readers keep bits of their own     *)
(* until somebody may join again.                                          *)
MaskInv ==
  /\ LockIsHeldByEvictor
  /\ RegisteredUntilRelease
  /\ MaskIsActiveReadersNotHeld
  /\ DistinctBits(Active)
  /\ "join" \notin Env => DistinctBits(readers)

(* NoOverwriteWhileRead and PollStaysTrue, made inductive: bits and claimed *)
(* slots are not shared, a writer that writes has seen its slot empty, and *)
(* a reader that reads has its bit set there. Before any timer expires.    *)
NoTimerExpired ==
  \A w \in Writers : wpc[w] \notin Evicting \cup {"expired", "lock"}
BitsAreApart ==
  \A r, q \in Readers :
    /\ r # q
    /\ rpc[r] \notin {"new", "closed"}
    /\ rpc[q] \notin {"new", "closed"}
    => bitmap_bit[r] # bitmap_bit[q]
ClaimsAreApart ==
  \A v, w \in Writers :
    v # w /\ wpc[v] # "idle" /\ wpc[w] # "idle" => slot[v] # slot[w]
WrittenSlotIsEmpty ==
  \A w \in Writers : wpc[w] \in Writing => bitmap[slot[w]] = {}
ReadSlotHasBit ==
  \A r \in Readers : rpc[r] \in {"ready", "copy", "check", "clear"}
                       => bitmap_bit[r] \in bitmap[next_read_idx[r]]

SteadyInv ==
  /\ NoTimerExpired
  /\ BitsAreApart
  /\ ClaimsAreApart
  /\ WrittenSlotIsEmpty
  /\ ReadSlotHasBit

(* ExactlyOnceInOrder and the refinement, made inductive: message m lives  *)
(* in slot Home(m) until every registered reader has read it.              *)
Home(m) == (m - 1) % channel_size
Position(r) == first[r] + Len(got[r])

(* A message is either sent or in flight, in the slot it was claimed for. *)
ClaimInv ==
  /\ next_write_idx = Home(claimed + 1)
  /\ sent \subseteq 1 .. claimed
  /\ \A w \in Writers : wpc[w] # "idle" =>
       /\ msg[w] \in (1 .. claimed) \ sent
       /\ slot[w] = Home(msg[w])
       /\ wpc[w] \in {"mask", "publish"} => data[slot[w]] = msg[w]
  /\ \A m \in (1 .. claimed) \ sent :
       \E w \in Writers : wpc[w] # "idle" /\ msg[w] = m

(* A registered reader is online and has consumed a prefix of the messages. *)
ReaderInv ==
  \A r \in readers :
    /\ online[r]
    /\ 1 .. Position(r) \subseteq sent
    /\ rpc[r] = "wake" => Position(r) > 0
    /\ next_read_idx[r] =
         Home(IF rpc[r] = "wake" THEN Position(r) ELSE Position(r) + 1)
    /\ rpc[r] \in {"copy", "check", "clear"} => rbuf[r] = Position(r) + 1

(* Its bit is set in a slot exactly while a message it must read is there. *)
BitmapInv ==
  /\ \A r \in readers, m \in sent : m > Position(r) =>
       /\ data[Home(m)] = m
       /\ bitmap_bit[r] \in bitmap[Home(m)]
  /\ \A r \in readers, s \in Slots : bitmap_bit[r] \in bitmap[s] =>
       /\ data[s] \in sent
       /\ data[s] > Position(r)
       /\ s = Home(data[s])
  /\ \A s \in Slots : bitmap[s] \subseteq BitOf({r \in Readers : rpc[r] # "new"})
  /\ \A w \in Writers : reg[w] \subseteq BitOf({r \in Readers : rpc[r] # "new"})
  /\ \A w \in Writers, r \in readers :
       wpc[w] = "publish" => bitmap_bit[r] \in reg[w]

(* Nothing is written more than a ring ahead of the slowest reader. *)
WindowInv ==
  \A r \in readers :
    /\ \A m \in sent : m <= Position(r) + channel_size
    /\ \A w \in Writers : wpc[w] \in Writing => msg[w] <= Position(r) + channel_size

OrderInv ==
  ClaimInv /\ ReaderInv /\ BitmapInv /\ WindowInv /\ ExactlyOnceInOrder
=============================================================================
