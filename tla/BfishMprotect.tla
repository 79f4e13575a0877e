---------------------------- MODULE BfishMprotect ---------------------------
(***************************************************************************)
(* bfishmprotect: Barrelfish message passing in user space, over two areas   *)
(* of memory that kbfishmem maps writable at one end and read-only at the    *)
(* other, with a futex per direction to wait on. The protocol of a           *)
(* connection is that of Ump, used in both directions: an end sends messages *)
(* and acks on its ring, and every header acknowledges what it received.     *)
(*                                                                         *)
(* The operations on the two ends of each connection, for a module that      *)
(* composes them with the processes at the ends.                             *)
(***************************************************************************)
EXTENDS Integers

CONSTANTS
  Conns,        \* the ends, <<node, other node>>, both of each connection
  bufmsgs,      \* messages in each ring, at least 1
  IndexBits,    \* bits of ump_index_t (16 in the code), which holds bufmsgs
  Bodies        \* what a message may carry

VARIABLES
  ring,     \* ring[c]: the messages that end c writes
  chan,     \* struct ump_channel of each end
  f,        \* recv_chan.f of each end: the futex it waits on
  \* history: headers written and headers processed by each end
  produced, consumed

Peer(c) == <<c[2], c[1]>>
Slots == 0 .. bufmsgs - 1
Index == 0 .. 2 ^ IndexBits - 1

Message(epoch, type, seq, data) ==
  [epoch |-> epoch, type |-> type, seq |-> seq, data |-> data]
NoMessage == Message(0, "UMP_MSG", 0, 0)

MprotectTypeOK ==
  /\ ring \in [Conns -> [Slots -> [epoch : 0 .. 1, type : {"UMP_MSG", "UMP_ACK"},
                                   seq : Index, data : Bodies]]]
  /\ chan \in [Conns -> [spos : Slots, sepoch : 0 .. 1, rpos : Slots, repoch : 0 .. 1,
                         sent_id : Index, seq_id : Index,
                         ack_id : Index, last_ack : Index]]
  /\ f \in [Conns -> 0 .. 1]
  /\ produced \in [Conns -> Nat] /\ consumed \in [Conns -> Nat]

Cast(n) == n % 2 ^ IndexBits        \* the value of an ump_index_t

(* What open_channel stores in the structure of an end *)
Opened == [spos |-> 0, sepoch |-> 1, rpos |-> 0, repoch |-> 1,
           sent_id |-> Cast(1), seq_id |-> 0, ack_id |-> 0, last_ack |-> 0]

(* create_channel, and the areas of kbfishmem after the module was loaded:  *)
(* nothing is left in them of processes that ran before                    *)
MprotectInit ==
  /\ ring = [c \in Conns |-> [i \in Slots |-> NoMessage]]
  /\ chan = [c \in Conns |-> Opened]
  /\ f = [c \in Conns |-> 0]
  /\ produced = [c \in Conns |-> 0] /\ consumed = [c \in Conns |-> 0]

(* open_channel at some ends: each clears the ring it writes *)
open_channel(ends) ==
  /\ ring' = [c \in Conns |-> IF c \in ends
                THEN [i \in Slots |-> [ring[c][i] EXCEPT !.epoch = 0, !.seq = 0,
                                                         !.type = "UMP_MSG"]]
                ELSE ring[c]]
  /\ chan' = [c \in Conns |-> IF c \in ends THEN Opened ELSE chan[c]]
  /\ UNCHANGED <<f, produced, consumed>>

CanSendNoCast(c) == chan[c].sent_id - chan[c].ack_id < bufmsgs              \* mutant
ump_can_send(c) == Cast(chan[c].sent_id - chan[c].ack_id) < bufmsgs

ump_send_ack_is_needed(c) == Cast(chan[c].seq_id - chan[c].last_ack) >= bufmsgs - 1

ump_endpoint_can_recv(c) == ring[Peer(c)][chan[c].rpos].epoch = chan[c].repoch

NextPosLate(pos) == IF pos = bufmsgs THEN 0 ELSE pos + 1                    \* mutant
NextPos(pos) == IF pos + 1 = bufmsgs THEN 0 ELSE pos + 1
NextEpochKept(pos, epoch) == epoch                                          \* mutant
NextEpoch(pos, epoch) == IF pos + 1 = bufmsgs THEN 1 - epoch ELSE epoch

(* send_msg: the message is copied, its header is still an old one *)
CopyIn(c, data) ==
  /\ ring' = [ring EXCEPT ![c][chan[c].spos].data = data]
  /\ UNCHANGED <<chan, f, produced, consumed>>

(* ump_impl_get_next, ump_control_fill and the store of the header, of a    *)
(* message or of an ack                                                    *)
StoreHeader(c, type) ==
  LET ch == chan[c] IN
  /\ ring' = [ring EXCEPT ![c][ch.spos] = Message(ch.sepoch, type, ch.seq_id, @.data)]
  /\ chan' = [chan EXCEPT ![c] =
       [ch EXCEPT !.spos = NextPos(@), !.sepoch = NextEpoch(ch.spos, @),
                 !.last_ack = ch.seq_id, !.sent_id = Cast(@ + 1)]]
  /\ produced' = [produced EXCEPT ![c] = @ + 1]
  /\ UNCHANGED <<f, consumed>>

(* ump_impl_recv and ump_control_process. The message is copied with it:    *)
(* the other end cannot know it was received before a later header.        *)
NextMessage(c) == ring[Peer(c)][chan[c].rpos]

AcknowledgedByAck(c) ==                                                     \* mutant
  IF NextMessage(c).type = "UMP_ACK" THEN NextMessage(c).seq ELSE chan[c].ack_id
Acknowledged(c) == NextMessage(c).seq

TakeMessage(c) ==
  LET ch == chan[c] IN
  /\ chan' = [chan EXCEPT ![c] =
       [ch EXCEPT !.rpos = NextPos(@), !.repoch = NextEpoch(ch.rpos, @),
                 !.ack_id = Acknowledged(c), !.seq_id = Cast(@ + 1)]]
  /\ consumed' = [consumed EXCEPT ![c] = @ + 1]
  /\ UNCHANGED <<ring, f, produced>>

(* futex_lock stores 1 before it waits; futex_unlock on the futex of the    *)
(* other end finds 1 or does nothing                                       *)
FutexSet(c) == f' = [f EXCEPT ![c] = 1] /\ UNCHANGED <<ring, chan, produced, consumed>>
FutexUnlock(c) == f' = [f EXCEPT ![Peer(c)] = 0] /\ UNCHANGED <<ring, chan, produced, consumed>>
=============================================================================
