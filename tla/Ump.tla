-------------------------------- MODULE Ump --------------------------------
(***************************************************************************)
(* One kbfish channel: Barrelfish message passing (UMP) between a sender    *)
(* and a receiver, through one ring of messages in each direction. A        *)
(* message is recognised by the epoch bit of its header, which flips each   *)
(* time a ring wraps; nothing is ever cleared. Sequence numbers of          *)
(* IndexBits bits, carried in every header, bound what is in flight, and    *)
(* the receiver sends explicit acks on the ring the other way.              *)
(*                                                                         *)
(* The sender only writes and the receiver only reads, as in every program  *)
(* of the repository. One action is one access to the shared rings or wait  *)
(* queue. The test of the wait loops and prepare_to_wait are two actions,   *)
(* as in the code. An end takes no more steps once a copy from or to its    *)
(* user failed (EFAULT), or once it closed: reopening is not modelled.     *)
(***************************************************************************)
EXTENDS Integers, Sequences

CONSTANTS
  channel_size,   \* messages in each ring
  IndexBits,      \* bits of ump_index_t (16 in the code)
  MaxWrites       \* bound: number of messages sent

ASSUME UmpAssumption ==
  /\ channel_size \in Nat \ {0, 1}
  /\ IndexBits \in Nat
  /\ channel_size < 2 ^ IndexBits
  /\ MaxWrites \in Nat

Ends == {"sender", "receiver"}
Peer(e) == IF e = "sender" THEN "receiver" ELSE "sender"

Slots == 0 .. channel_size - 1
Ids == 0 .. 2 ^ IndexBits - 1
Bodies == 0 .. MaxWrites      \* messages are numbered as they are sent

VARIABLES
  ring,      \* ring[e]: the messages that e writes
  rq,        \* ends on the wait queue, which both ends share
  \* struct ump_chan_state of the two directions, for each end
  spos, sepoch, rpos, repoch,
  \* struct ump_channel of each end
  sent_id, seq_id, ack_id, last_ack,
  \* where each end is, the message ump_msg points to, and the epoch in ctrl
  pc, ump_msg, ctrl,
  \* history: headers written and messages received by each end, what the
  \* receiver's reads returned
  produced, consumed, got

index == <<sent_id, seq_id, ack_id, last_ack>>
vars == <<ring, rq, spos, sepoch, rpos, repoch, index, pc, ump_msg, ctrl,
          produced, consumed, got>>

Headers == [epoch : 0 .. 1, type : {"UMP_MSG", "UMP_ACK"}, seq : Ids]
Pcs == {"new", "closed", "idle", "check", "test", "queue", "sleep", "recv",
        "deliver", "ack", "fill", "wake", "failed"}

UmpTypeOK ==
  /\ ring \in [Ends -> [Slots -> [header : Headers, data : Bodies]]]
  /\ rq \in SUBSET Ends
  /\ spos \in [Ends -> Slots] /\ rpos \in [Ends -> Slots]
  /\ sepoch \in [Ends -> 0 .. 1] /\ repoch \in [Ends -> 0 .. 1]
  /\ sent_id \in [Ends -> Ids] /\ seq_id \in [Ends -> Ids]
  /\ ack_id \in [Ends -> Ids] /\ last_ack \in [Ends -> Ids]
  /\ pc \in [Ends -> Pcs]
  /\ ump_msg \in [Ends -> Slots]
  /\ ctrl \in [Ends -> 0 .. 1]
  /\ produced \in [Ends -> Nat] /\ consumed \in [Ends -> Nat]
  /\ got \in Seq(Bodies)

NoHeader == [epoch |-> 0, type |-> "UMP_MSG", seq |-> 0]   \* header.raw = 0

(* kbfish_init_channel: both areas are zeroed, nobody has the channel open *)
Init ==
  /\ ring = [e \in Ends |-> [s \in Slots |-> [header |-> NoHeader, data |-> 0]]]
  /\ rq = {}
  /\ spos = [e \in Ends |-> 0] /\ rpos = [e \in Ends |-> 0]
  /\ sepoch = [e \in Ends |-> 1] /\ repoch = [e \in Ends |-> 1]
  /\ sent_id = [e \in Ends |-> 1 % 2 ^ IndexBits]
  /\ seq_id = [e \in Ends |-> 0]
  /\ ack_id = [e \in Ends |-> 0]
  /\ last_ack = [e \in Ends |-> 0]
  /\ pc = [e \in Ends |-> "new"]
  /\ ump_msg = [e \in Ends |-> 0]
  /\ ctrl = [e \in Ends |-> 0]
  /\ produced = [e \in Ends |-> 0] /\ consumed = [e \in Ends |-> 0]
  /\ got = <<>>

Id(n) == n % 2 ^ IndexBits      \* the value of an ump_index_t
Goto(e, label) == pc' = [pc EXCEPT ![e] = label]

CanSendNoCast(e) == sent_id[e] - ack_id[e] < channel_size        \* mutant
ump_can_send(e) == Id(sent_id[e] - ack_id[e]) < channel_size
ump_send_ack_is_needed(e) == Id(seq_id[e] - last_ack[e]) >= channel_size - 1

(* ump_impl_poll: the epoch of the next message is the expected one *)
ump_endpoint_can_recv(e) == ring[Peer(e)][rpos[e]].header.epoch = repoch[e]

(* The position after pos on a ring, and the epoch that goes with it *)
NextPosLate(pos) == IF pos = channel_size THEN 0 ELSE pos + 1    \* mutant
NextPos(pos) == IF pos + 1 = channel_size THEN 0 ELSE pos + 1
NextEpochKept(pos, epoch) == epoch                               \* mutant
NextEpoch(pos, epoch) == IF pos + 1 = channel_size THEN 1 - epoch ELSE epoch

(* ump_impl_get_next: the message to fill, its epoch, and the pointer moves *)
ump_impl_get_next(e) ==
  /\ spos' = [spos EXCEPT ![e] = NextPos(@)]
  /\ sepoch' = [sepoch EXCEPT ![e] = NextEpoch(spos[e], @)]

(* mutant: only explicit acks acknowledge *)
ControlProcessAcks(e, header) ==
  /\ ack_id' = IF header.type = "UMP_ACK" THEN [ack_id EXCEPT ![e] = header.seq] ELSE ack_id
  /\ seq_id' = [seq_id EXCEPT ![e] = Id(@ + 1)]

ump_control_process(e, header) ==
  /\ ack_id' = [ack_id EXCEPT ![e] = header.seq]
  /\ seq_id' = [seq_id EXCEPT ![e] = Id(@ + 1)]

(* ump_control_fill, and the store of the header in message s *)
Send(e, s, epoch, type) ==
  /\ ring' = [ring EXCEPT ![e][s].header =
                [epoch |-> epoch, type |-> type, seq |-> seq_id[e]]]
  /\ last_ack' = [last_ack EXCEPT ![e] = seq_id[e]]
  /\ sent_id' = [sent_id EXCEPT ![e] = Id(@ + 1)]
  /\ produced' = [produced EXCEPT ![e] = @ + 1]

-----------------------------------------------------------------------------
(* Both ends *)

(* kbfish_open: the end forgets its counters and clears the ring it writes *)
Open(e) ==
  /\ pc[e] = "new"
  /\ ring' = [ring EXCEPT ![e] = [s \in Slots |-> [@[s] EXCEPT !.header = NoHeader]]]
  /\ spos' = [spos EXCEPT ![e] = 0] /\ rpos' = [rpos EXCEPT ![e] = 0]
  /\ sepoch' = [sepoch EXCEPT ![e] = 1] /\ repoch' = [repoch EXCEPT ![e] = 1]
  /\ sent_id' = [sent_id EXCEPT ![e] = Id(1)]
  /\ seq_id' = [seq_id EXCEPT ![e] = 0]
  /\ ack_id' = [ack_id EXCEPT ![e] = 0]
  /\ last_ack' = [last_ack EXCEPT ![e] = 0]
  /\ Goto(e, "idle")
  /\ UNCHANGED <<rq, ump_msg, ctrl, produced, consumed, got>>

(* kbfish_release *)
Release(e) ==
  /\ pc[e] = "idle"
  /\ Goto(e, "closed")
  /\ UNCHANGED <<ring, rq, spos, sepoch, rpos, repoch, index, ump_msg, ctrl,
                 produced, consumed, got>>

(* The condition of the wait loops of kbfish_read and of recv_ack *)
Test(e) ==
  /\ pc[e] = "test"
  /\ Goto(e, IF ump_endpoint_can_recv(e) THEN "recv" ELSE "queue")
  /\ UNCHANGED <<ring, rq, spos, sepoch, rpos, repoch, index, ump_msg, ctrl,
                 produced, consumed, got>>

(* prepare_to_wait, schedule: the condition is not tested again *)
Sleep(e) ==
  /\ pc[e] = "queue"
  /\ rq' = rq \cup {e}
  /\ Goto(e, "sleep")
  /\ UNCHANGED <<ring, spos, sepoch, rpos, repoch, index, ump_msg, ctrl,
                 produced, consumed, got>>

(* A signal ends the sleep: a message, or EINTR with the entry on the queue *)
Signal(e) ==
  /\ pc[e] = "sleep"
  /\ Goto(e, IF ump_endpoint_can_recv(e) THEN "recv" ELSE "idle")
  /\ UNCHANGED <<ring, rq, spos, sepoch, rpos, repoch, index, ump_msg, ctrl,
                 produced, consumed, got>>

(* O_NONBLOCK (EAGAIN), or a signal after prepare_to_wait (EINTR), which   *)
(* leaves the entry on the queue                                           *)
GiveUp(e) ==
  /\ pc[e] = "queue"
  /\ rq' \in {rq, rq \cup {e}}
  /\ Goto(e, "idle")
  /\ UNCHANGED <<ring, spos, sepoch, rpos, repoch, index, ump_msg, ctrl,
                 produced, consumed, got>>

(* finish_wait, ump_impl_recv and ump_control_process: the sender goes back *)
(* to its test, the receiver hands a message out and skips an ack          *)
Recv(e) ==
  /\ pc[e] = "recv"
  /\ rq' = rq \ {e}
  /\ ump_msg' = [ump_msg EXCEPT ![e] = rpos[e]]
  /\ rpos' = [rpos EXCEPT ![e] = NextPos(@)]
  /\ repoch' = [repoch EXCEPT ![e] = NextEpoch(rpos[e], @)]
  /\ LET header == ring[Peer(e)][rpos[e]].header IN
     /\ ump_control_process(e, header)
     /\ Goto(e, CASE e = "sender" -> "check"
                  [] header.type = "UMP_MSG" -> "deliver"
                  [] OTHER -> "ack")
  /\ consumed' = [consumed EXCEPT ![e] = @ + 1]
  /\ UNCHANGED <<ring, spos, sepoch, sent_id, last_ack, ctrl, produced, got>>

(* wake_up(&rq): every end that sleeps tests its ring again, off the queue *)
WakeUp(e) ==
  /\ pc[e] = "wake"
  /\ rq' = {}
  /\ pc' = [x \in Ends |-> IF x = e THEN "idle"
                           ELSE IF x \in rq /\ pc[x] = "sleep" THEN "test" ELSE pc[x]]
  /\ UNCHANGED <<ring, spos, sepoch, rpos, repoch, index, ump_msg, ctrl,
                 produced, consumed, got>>

-----------------------------------------------------------------------------
(* kbfish_read, called by the receiver *)
ReadCall ==
  /\ pc["receiver"] = "idle"
  /\ Goto("receiver", "test")
  /\ UNCHANGED <<ring, rq, spos, sepoch, rpos, repoch, index, ump_msg, ctrl,
                 produced, consumed, got>>

(* copy_to_user *)
Deliver ==
  /\ pc["receiver"] = "deliver"
  /\ got' = Append(got, ring["sender"][ump_msg["receiver"]].data)
  /\ Goto("receiver", "ack")
  /\ UNCHANGED <<ring, rq, spos, sepoch, rpos, repoch, index, ump_msg, ctrl,
                 produced, consumed>>

(* copy_to_user fails: the message is lost, and so is the ack it called for. *)
(* The call returns EFAULT and the file stays usable; here the end stops.   *)
DeliverFault ==
  /\ pc["receiver"] = "deliver"
  /\ Goto("receiver", "failed")
  /\ UNCHANGED <<ring, rq, spos, sepoch, rpos, repoch, index, ump_msg, ctrl,
                 produced, consumed, got>>

(* The rest of kbfish_read: an explicit ack when one is needed, EIO when it *)
(* cannot be sent; the sender never sends acks, so the read returns.       *)
Ack ==
  /\ pc["receiver"] = "ack"
  /\ IF ump_send_ack_is_needed("receiver") /\ ump_can_send("receiver")
     THEN /\ ump_impl_get_next("receiver")
          /\ Send("receiver", spos["receiver"], sepoch["receiver"], "UMP_ACK")
          /\ Goto("receiver", "wake")
     ELSE /\ Goto("receiver", "idle")
          /\ UNCHANGED <<ring, spos, sepoch, sent_id, last_ack, produced>>
  /\ UNCHANGED <<rq, rpos, repoch, seq_id, ack_id, ump_msg, ctrl, consumed, got>>

(* kbfish_write, called by the sender *)
WriteCall ==
  /\ pc["sender"] = "idle"
  /\ produced["sender"] < MaxWrites
  /\ Goto("sender", "check")
  /\ UNCHANGED <<ring, rq, spos, sepoch, rpos, repoch, index, ump_msg, ctrl,
                 produced, consumed, got>>

(* The window is full: the sender must receive an ack *)
WindowFull ==
  /\ pc["sender"] = "check"
  /\ ~ump_can_send("sender")
  /\ Goto("sender", "test")
  /\ UNCHANGED <<ring, rq, spos, sepoch, rpos, repoch, index, ump_msg, ctrl,
                 produced, consumed, got>>

(* ump_impl_get_next, copy_from_user: the header is still the old one *)
Copy ==
  /\ pc["sender"] = "check"
  /\ ump_can_send("sender")
  /\ ump_impl_get_next("sender")
  /\ ump_msg' = [ump_msg EXCEPT !["sender"] = spos["sender"]]
  /\ ctrl' = [ctrl EXCEPT !["sender"] = sepoch["sender"]]
  /\ ring' = [ring EXCEPT !["sender"][spos["sender"]].data = produced["sender"] + 1]
  /\ Goto("sender", "fill")
  /\ UNCHANGED <<rq, rpos, repoch, index, produced, consumed, got>>

(* copy_from_user fails: the pointer has moved, no header is written. The   *)
(* call returns EFAULT and the file stays usable; here the end stops.       *)
CopyFault ==
  /\ pc["sender"] = "check"
  /\ ump_can_send("sender")
  /\ ump_impl_get_next("sender")
  /\ Goto("sender", "failed")
  /\ UNCHANGED <<ring, rq, rpos, repoch, index, ump_msg, ctrl, produced, consumed, got>>

(* mutant: the epoch of the ring after the pointer moved *)
FillNextEpoch ==
  /\ pc["sender"] = "fill"
  /\ Send("sender", ump_msg["sender"], sepoch["sender"], "UMP_MSG")
  /\ Goto("sender", "wake")
  /\ UNCHANGED <<rq, spos, sepoch, rpos, repoch, seq_id, ack_id, ump_msg, ctrl,
                 consumed, got>>

(* ump_control_fill, BARRIER and the store of the header *)
Fill ==
  /\ pc["sender"] = "fill"
  /\ Send("sender", ump_msg["sender"], ctrl["sender"], "UMP_MSG")
  /\ Goto("sender", "wake")
  /\ UNCHANGED <<rq, spos, sepoch, rpos, repoch, seq_id, ack_id, ump_msg, ctrl,
                 consumed, got>>

-----------------------------------------------------------------------------
Step(e) == Test(e) \/ Sleep(e) \/ Recv(e) \/ WakeUp(e)
ReadStep == ReadCall \/ Deliver \/ Ack
WriteStep == WindowFull \/ Copy \/ Fill

UserStep(e) == Open(e) \/ Release(e) \/ GiveUp(e) \/ Signal(e)
Fault == DeliverFault \/ CopyFault

Next ==
  \/ \E e \in Ends : Step(e) \/ UserStep(e)
  \/ ReadStep \/ WriteStep \/ WriteCall \/ Fault

Spec == Init /\ [][Next]_vars

(* The kernel runs every process that can run, and the receiver keeps      *)
(* calling read().                                                         *)
FairSpec ==
  /\ Spec
  /\ \A e \in Ends : WF_vars(Step(e))
  /\ WF_vars(ReadStep)
  /\ WF_vars(WriteStep)

-----------------------------------------------------------------------------
(* Properties *)

(* The receiver reads every message sent, once, in order and whole, though  *)
(* no slot is ever cleared and the sequence numbers wrap.                  *)
InOrder ==
  /\ \A i \in 1 .. Len(got) : got[i] = i
  /\ Len(got) <= produced["sender"]

(* One bit is enough: an end sees a message exactly when its peer has sent *)
(* one that it has not received, however often the ring has wrapped.       *)
EpochTellsNew ==
  \A e \in Ends : ump_endpoint_can_recv(e) <=> consumed[e] < produced[Peer(e)]

(* Nobody writes in a message its peer may still be reading: what is in     *)
(* flight, the message a write is copying in or a read is copying out       *)
(* included, fits in the ring.                                             *)
NeverOverrun ==
  \A e \in Ends :
    produced[e] + (IF pc[e] = "fill" THEN 1 ELSE 0)
      <= consumed[Peer(e)] - (IF pc[Peer(e)] = "deliver" THEN 1 ELSE 0) + channel_size

(* From the comment in kbfish_read: an ack that is needed can be sent, the  *)
(* message just received having brought the other end's acks up to date.   *)
AckCanBeSent ==
  pc["receiver"] = "ack" /\ ump_send_ack_is_needed("receiver")
    => ump_can_send("receiver")

(* From the header comment of kbfish_write: it sleeps until it can write.   *)
(* A sender does not sleep for ever while an ack waits in its ring.        *)
SleepsUntilItCanWrite ==
  (pc["sender"] = "sleep" /\ ump_endpoint_can_recv("sender")) ~> pc["sender"] # "sleep"
=============================================================================
