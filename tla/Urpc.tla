-------------------------------- MODULE Urpc --------------------------------
(***************************************************************************)
(* URPC as the acceptor of paxosInside uses it: a sender (node 0 here) and   *)
(* its learners 1 .. NbLearners, each at the end of a connection of two      *)
(* rings. A message is recognised by the epoch in the last word of its slot, *)
(* which grows by one with every message; nothing is cleared. After          *)
(* NB_MESSAGES messages the sender waits for an ack of every learner. With   *)
(* one learner this is the leader's unicast to the acceptor, or a client's   *)
(* to the leader.                                                           *)
(*                                                                         *)
(* urpc_send copies the message with memcpy, last word included, and then   *)
(* stores that word again with the epoch in its upper bits, which are 0 in   *)
(* the copy. memcpy may store its words in any order: the payload and the    *)
(* last word are two actions here, in either order, and the store of the     *)
(* epoch a third. An ack is a last word without payload.                     *)
(***************************************************************************)
EXTENDS Integers, Sequences

CONSTANTS
  NbLearners,
  NB_MESSAGES,    \* messages in each ring, which max_msgs equals
  UrpcBits,       \* bits of urpc_t (16 in the code)
  MaxMessages     \* bound: messages sent to each learner

ASSUME UrpcAssumption ==
  /\ NbLearners \in Nat \ {0}
  /\ UrpcBits \in Nat
  /\ NB_MESSAGES \in 1 .. 2 ^ UrpcBits - 1      \* asserted by urpc_transport_create
  /\ MaxMessages \in Nat

Learners == 1 .. NbLearners
Nodes == 0 .. NbLearners
Conns == {<<0, l>> : l \in Learners} \cup {<<l, 0>> : l \in Learners}
Peer(c) == <<c[2], c[1]>>       \* the other end of the connection

Slots == 0 .. NB_MESSAGES - 1
Urpc_t == 0 .. 2 ^ UrpcBits - 1
Bodies == 0 .. MaxMessages      \* messages are numbered as they are sent

VARIABLES
  buf,       \* buf[c]: the ring that end c writes
  \* struct urpc_channel: c->out.pos, c->out.epoch, c->in->pos, c->in->epoch
  out_pos, out_epoch, in_pos, in_epoch,
  \* struct urpc_connection
  sent_id, seq_id, ack_id,
  \* the process of each node: where it is, the node it sends to or receives
  \* from, the words memcpy has stored, messages since the last ack
  pc, at, stored, in_transit,
  \* history: messages whose last word was stored and messages received at
  \* each end, and the payloads each learner received
  produced, consumed, got

channel == <<out_pos, out_epoch, in_pos, in_epoch>>
ids == <<sent_id, seq_id, ack_id>>
vars == <<buf, channel, ids, pc, at, stored, in_transit, produced, consumed, got>>

Pcs == {"idle", "send", "recv", "peek"}

UrpcTypeOK ==
  /\ buf \in [Conns -> [Slots -> [data : Bodies, epoch : Urpc_t,
                                  seq : Urpc_t, sent : Urpc_t]]]
  /\ out_pos \in [Conns -> Slots] /\ in_pos \in [Conns -> Slots]
  /\ out_epoch \in [Conns -> Urpc_t] /\ in_epoch \in [Conns -> Urpc_t]
  /\ sent_id \in [Conns -> Urpc_t] /\ seq_id \in [Conns -> Urpc_t]
  /\ ack_id \in [Conns -> Urpc_t]
  /\ pc \in [Nodes -> Pcs]
  /\ at \in [Nodes -> Nodes]
  /\ stored \in [Nodes -> SUBSET {"payload", "last"}]
  /\ in_transit \in [Nodes -> 0 .. NB_MESSAGES]
  /\ produced \in [Conns -> Nat] /\ consumed \in [Conns -> Nat]
  /\ got \in [Learners -> Seq(Bodies)]

Cast(n) == n % 2 ^ UrpcBits     \* the value of a urpc_t
Conn(p) == <<p, at[p]>>
Goto(p, label) == pc' = [pc EXCEPT ![p] = label]

CanSendStrict(c) == Cast(sent_id[c] - ack_id[c]) < NB_MESSAGES     \* mutant
cansend(c) == Cast(sent_id[c] - ack_id[c]) <= NB_MESSAGES

urpc_havemessage(c) == buf[Peer(c)][in_pos[c]].epoch = in_epoch[c]

NextPosLate(pos) == IF pos = NB_MESSAGES THEN 0 ELSE pos + 1       \* mutant
NextPos(pos) == (pos + 1) % NB_MESSAGES
NextEpochOneBit(epoch) == (epoch + 1) % 2                          \* mutant
NextEpoch(epoch) == Cast(epoch + 1)

(* The number of messages after which an ack is due: NB_MSG_MAX_IN_TRANSIT  *)
AckDueLate(n) == n > NB_MESSAGES                                   \* mutant
AckDue(n) == n = NB_MESSAGES

(* urpc_transport_create at both ends, over a segment full of zeroes *)
Init ==
  /\ buf = [c \in Conns |-> [s \in Slots |->
                               [data |-> 0, epoch |-> 0, seq |-> 0, sent |-> 0]]]
  /\ out_pos = [c \in Conns |-> 0] /\ in_pos = [c \in Conns |-> 0]
  /\ out_epoch = [c \in Conns |-> 1] /\ in_epoch = [c \in Conns |-> 1]
  /\ sent_id = [c \in Conns |-> 0] /\ seq_id = [c \in Conns |-> 0]
  /\ ack_id = [c \in Conns |-> 0]
  /\ pc = [p \in Nodes |-> IF p = 0 THEN "idle" ELSE "recv"]
  /\ at = [p \in Nodes |-> IF p = 0 THEN 1 ELSE 0]
  /\ stored = [p \in Nodes |-> {}]
  /\ in_transit = [p \in Nodes |-> 0]
  /\ produced = [c \in Conns |-> 0] /\ consumed = [c \in Conns |-> 0]
  /\ got = [l \in Learners |-> <<>>]

-----------------------------------------------------------------------------
(* Sending: IPC_send_node_multicast and urpc_transport_send for messages,   *)
(* urpc_transport_send for the acks of IPC_receive                         *)

(* The sender has a message to send, to learner 1 first *)
SendCall ==
  /\ pc[0] = "idle"
  /\ produced[<<0, NbLearners>>] < MaxMessages
  /\ Goto(0, "send")
  /\ UNCHANGED <<buf, channel, ids, at, stored, in_transit, produced, consumed, got>>

(* memcpy stores the payload; cansend was tested before *)
CopyPayload ==
  LET c == Conn(0) IN
  /\ pc[0] = "send" /\ cansend(c)
  /\ "payload" \notin stored[0]
  /\ buf' = [buf EXCEPT ![c][out_pos[c]].data = produced[c] + 1]
  /\ stored' = [stored EXCEPT ![0] = @ \cup {"payload"}]
  /\ UNCHANGED <<channel, ids, pc, at, in_transit, produced, consumed, got>>

(* mutant: the message is copied with its epoch *)
CopyLastWithEpoch(p) ==
  LET c == Conn(p) IN
  /\ pc[p] = "send" /\ cansend(c)
  /\ "last" \notin stored[p]
  /\ buf' = [buf EXCEPT ![c][out_pos[c]] =
               [@ EXCEPT !.epoch = out_epoch[c], !.seq = seq_id[c], !.sent = sent_id[c]]]
  /\ stored' = [stored EXCEPT ![p] = @ \cup {"last"}]
  /\ UNCHANGED <<channel, ids, pc, at, in_transit, produced, consumed, got>>

(* memcpy stores the last word, seq_id and sent_id under an epoch of 0 *)
CopyLast(p) ==
  LET c == Conn(p) IN
  /\ pc[p] = "send" /\ cansend(c)
  /\ "last" \notin stored[p]
  /\ buf' = [buf EXCEPT ![c][out_pos[c]] =
               [@ EXCEPT !.epoch = 0, !.seq = seq_id[c], !.sent = sent_id[c]]]
  /\ stored' = [stored EXCEPT ![p] = @ \cup {"last"}]
  /\ UNCHANGED <<channel, ids, pc, at, in_transit, produced, consumed, got>>

(* The store of the epoch, and what follows in the sender's own state: the  *)
(* next learner, or the wait for the acks, or the end of the call          *)
StoreEpoch(p) ==
  LET c == Conn(p)
      sent == in_transit[p] + 1
      last == at[p] = NbLearners
  IN
  /\ pc[p] = "send"
  /\ stored[p] = IF p = 0 THEN {"payload", "last"} ELSE {"last"}
  /\ buf' = [buf EXCEPT ![c][out_pos[c]].epoch = out_epoch[c]]
  /\ out_pos' = [out_pos EXCEPT ![c] = NextPos(@)]
  /\ out_epoch' = [out_epoch EXCEPT ![c] = NextEpoch(@)]
  /\ sent_id' = [sent_id EXCEPT ![c] = Cast(@ + 1)]
  /\ stored' = [stored EXCEPT ![p] = {}]
  /\ produced' = [produced EXCEPT ![c] = @ + 1]
  /\ \/ /\ p # 0
        /\ Goto(p, "recv")
        /\ in_transit' = [in_transit EXCEPT ![p] = 0]
        /\ UNCHANGED at
     \/ /\ p = 0 /\ ~last
        /\ at' = [at EXCEPT ![p] = @ + 1]
        /\ UNCHANGED <<pc, in_transit>>
     \/ /\ p = 0 /\ last
        /\ at' = [at EXCEPT ![p] = 1]
        /\ in_transit' = [in_transit EXCEPT ![p] = sent]
        /\ Goto(p, IF AckDue(sent) THEN "recv" ELSE "idle")
  /\ UNCHANGED <<in_pos, in_epoch, seq_id, ack_id, consumed, got>>

-----------------------------------------------------------------------------
(* Receiving: urpc_transport_recv, for acks at the sender and for messages  *)
(* at the learners                                                         *)

(* urpc_peek finds the epoch it expects *)
Poll(p) ==
  /\ pc[p] = "recv"
  /\ urpc_havemessage(Conn(p))
  /\ Goto(p, "peek")
  /\ UNCHANGED <<buf, channel, ids, at, stored, in_transit, produced, consumed, got>>

(* mutant: the ids are taken from the wrong halves of the last word *)
GetSwapped(c, message) ==
  /\ ack_id' = [ack_id EXCEPT ![c] = message.sent]
  /\ seq_id' = [seq_id EXCEPT ![c] = message.seq]

get_the_message(c, message) ==
  /\ ack_id' = [ack_id EXCEPT ![c] = message.seq]
  /\ seq_id' = [seq_id EXCEPT ![c] = message.sent]

(* The rest of urpc_peek, urpc_consume and get_the_message; then a learner  *)
(* sends an ack if one is due, and the sender waits for the next learner's *)
Receive(p) ==
  LET c == Conn(p)
      message == buf[Peer(c)][in_pos[c]]
      received == in_transit[p] + 1
      last == at[p] = NbLearners
  IN
  /\ pc[p] = "peek"
  /\ in_pos' = [in_pos EXCEPT ![c] = NextPos(@)]
  /\ in_epoch' = [in_epoch EXCEPT ![c] = NextEpoch(@)]
  /\ get_the_message(c, message)
  /\ consumed' = [consumed EXCEPT ![c] = @ + 1]
  /\ \/ /\ p # 0
        /\ got' = [got EXCEPT ![p] = Append(@, message.data)]
        /\ in_transit' = [in_transit EXCEPT ![p] = received]
        /\ Goto(p, IF AckDue(received) THEN "send" ELSE "recv")
        /\ UNCHANGED at
     \/ /\ p = 0 /\ ~last
        /\ at' = [at EXCEPT ![p] = @ + 1]
        /\ Goto(p, "recv")
        /\ UNCHANGED <<got, in_transit>>
     \/ /\ p = 0 /\ last
        /\ at' = [at EXCEPT ![p] = 1]
        /\ in_transit' = [in_transit EXCEPT ![p] = 0]
        /\ Goto(p, "idle")
        /\ UNCHANGED got
  /\ UNCHANGED <<buf, out_pos, out_epoch, sent_id, stored, produced>>

-----------------------------------------------------------------------------
Step(p) == CopyLast(p) \/ StoreEpoch(p) \/ Poll(p) \/ Receive(p)

Next == SendCall \/ CopyPayload \/ \E p \in Nodes : Step(p)

Spec == Init /\ [][Next]_vars

(* Every process runs: both ends wait by polling, never in the kernel *)
FairSpec ==
  /\ Spec
  /\ WF_vars(SendCall \/ CopyPayload)
  /\ \A p \in Nodes : WF_vars(Step(p))

-----------------------------------------------------------------------------
(* Properties *)

Storing(c) == Conn(c[1]) = c /\ stored[c[1]] # {}

(* cansend lets one message too many through until the first ack, and the   *)
(* wait in urpc_transport_send does not receive acks, so it would last for  *)
(* ever. Waiting for an ack every NB_MESSAGES messages makes both harmless:  *)
(* who is about to send may send, at both ends, also when urpc_t wraps.     *)
SendNeverSpins ==
  \A p \in Nodes : pc[p] = "send" => cansend(Conn(p))

(* No message is stored in a slot whose last message the other end has not  *)
(* received, or is copying out.                                            *)
NeverOverrun ==
  \A c \in Conns :
    produced[c] + (IF Storing(c) THEN 1 ELSE 0) <= consumed[Peer(c)] + NB_MESSAGES

(* The message being sent on c has epoch 0, as memcpy already stored *)
AtWrap(c) == out_epoch[c] = 0 /\ Storing(c) /\ "last" \in stored[c[1]]

(* An end sees a message exactly when the other has sent one it has not     *)
(* received, though old messages stay in the rings and epochs wrap; but a  *)
(* message whose epoch is 0 is seen as soon as memcpy has stored its last  *)
(* word.                                                                   *)
EpochTellsNew ==
  \A c \in Conns :
    urpc_havemessage(Peer(c)) <=>
      consumed[Peer(c)] < produced[c] + (IF AtWrap(c) THEN 1 ELSE 0)

(* The i-th message has epoch Cast(i). Every learner receives every message *)
(* whole and in order; only one whose epoch is 0 may be read with the      *)
(* payload of the message that was in its slot.                            *)
WholeUnlessEpochZero ==
  \A l \in Learners : \A i \in 1 .. Len(got[l]) :
    \/ got[l][i] = i
    \/ Cast(i) = 0 /\ got[l][i] \in {0, i - NB_MESSAGES}

(* Every message reaches every learner: the sender and the learners never   *)
(* wait for each other's ack at the same time.                             *)
EveryMessageReceived ==
  \A l \in Learners : <>(Len(got[l]) = MaxMessages)
=============================================================================
