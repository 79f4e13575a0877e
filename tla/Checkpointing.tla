---------------------------- MODULE Checkpointing ---------------------------
(***************************************************************************)
(* The checkpointing application over bfishmprotect. Node 0 takes snapshots: *)
(* it sends a request to every other node, on one connection each, and then  *)
(* receives from them in turn until all have answered. A node answers each   *)
(* request with its checkpoint.                                             *)
(*                                                                         *)
(* send_msg may have to receive acks first, recv_msg may have to send one    *)
(* and to receive again; both wait on a futex. One action is one access to   *)
(* the shared rings or a futex, with what follows in the process's own       *)
(* state. The test of a wait loop, the store to the futex and the system     *)
(* call are three actions. A futex has one waiter, so who wakes it up is     *)
(* known: FUTEX_WAKE is one action with the cmpxchg before it.               *)
(*                                                                         *)
(* The checkpoint number of node 0 is never changed, so no request ever asks *)
(* for a newer checkpoint and take_checkpoint is never called: it is left    *)
(* out. A message is named after the snapshot it was sent for.               *)
(***************************************************************************)
EXTENDS Integers

CONSTANTS
  nb_nodes,
  bufmsgs,        \* NB_MESSAGES, in each ring
  IndexBits,      \* bits of ump_index_t
  nb_iter         \* snapshots node 0 takes

ASSUME CheckpointingAssumption ==
  /\ nb_nodes \in Nat \ {0, 1}
  /\ bufmsgs \in Nat \ {0}
  /\ IndexBits \in Nat /\ bufmsgs < 2 ^ IndexBits
  /\ nb_iter \in Nat \ {0}

Nodes == 0 .. nb_nodes - 1
Others == 1 .. nb_nodes - 1
Conns == {<<0, i>> : i \in Others} \cup {<<i, 0>> : i \in Others}
Snapshots == 0 .. nb_iter

VARIABLES
  ring, chan, f, produced, consumed,      \* see BfishMprotect
  pc,             \* where each node is
  at,             \* the node whose connection it uses
  awaits,         \* what it waits for: recv_ack or recv_msg
  call_recv_again,
  message,        \* the message it received or sends
  \* node 0: class Checkpointer, rr of IPC_receive
  iter, snapshot_in_progress, awaited_responses, snapshot, rr

INSTANCE BfishMprotect WITH Bodies <- Snapshots

channels == <<ring, chan, f, produced, consumed>>
checkpointer == <<iter, snapshot_in_progress, awaited_responses, snapshot, rr>>
vars == <<channels, pc, at, awaits, call_recv_again, message, checkpointer>>

Pcs == {"new", "loop", "send", "header", "unlock", "test", "lock", "wait",
        "sleep", "ack", "unlock_ack", "handle", "done", "exit"}

CheckpointingTypeOK ==
  /\ MprotectTypeOK
  /\ pc \in [Nodes -> Pcs]
  /\ at \in [Nodes -> Nodes]
  /\ awaits \in [Nodes -> {"ack", "msg"}]
  /\ call_recv_again \in [Nodes -> BOOLEAN]
  /\ message \in [Nodes -> Snapshots]
  /\ iter \in Snapshots
  /\ snapshot_in_progress \in BOOLEAN
  /\ awaited_responses \in SUBSET Others
  /\ snapshot \in [Others -> Snapshots]
  /\ rr \in Others

Init ==
  /\ MprotectInit
  /\ pc = [p \in Nodes |-> "new"]
  /\ at = [p \in Nodes |-> IF p = 0 THEN 1 ELSE 0]
  /\ awaits = [p \in Nodes |-> "msg"]
  /\ call_recv_again = [p \in Nodes |-> FALSE]
  /\ message = [p \in Nodes |-> 0]
  /\ iter = 0
  /\ snapshot_in_progress = FALSE
  /\ awaited_responses = {}
  /\ snapshot = [i \in Others |-> 0]
  /\ rr = 1

Conn(p) == <<p, at[p]>>

MaskMissesLast == Others \ {nb_nodes - 1}                               \* mutant
awaited_responses_mask == Others

Goto(p, label) == pc' = [pc EXCEPT ![p] = label]

(* IPC_initialize_node: node 0 opens its end of every connection *)
Open(p) ==
  /\ pc[p] = "new"
  /\ open_channel({c \in Conns : c[1] = p})
  /\ Goto(p, IF p = 0 THEN "loop" ELSE "test")
  /\ UNCHANGED <<at, awaits, call_recv_again, message, checkpointer>>

-----------------------------------------------------------------------------
(* send_msg *)

(* The ring is full: recv_ack *)
SendBlocked(p) ==
  /\ pc[p] = "send"
  /\ ~ump_can_send(Conn(p))
  /\ Goto(p, "test")
  /\ awaits' = [awaits EXCEPT ![p] = "ack"]
  /\ UNCHANGED <<channels, at, call_recv_again, message, checkpointer>>

SendCopy(p) ==
  /\ pc[p] = "send"
  /\ ump_can_send(Conn(p))
  /\ CopyIn(Conn(p), message[p])
  /\ Goto(p, "header")
  /\ UNCHANGED <<at, awaits, call_recv_again, message, checkpointer>>

SendHeader(p) ==
  /\ pc[p] = "header"
  /\ StoreHeader(Conn(p), "UMP_MSG")
  /\ Goto(p, "unlock")
  /\ UNCHANGED <<at, awaits, call_recv_again, message, checkpointer>>

(* Who sleeps on the futex of the other end tests its ring again *)
WakeUp(p, next) ==
  LET q == at[p] IN
  pc' = [pc EXCEPT ![p] = next,
                   ![q] = IF @ = "sleep" /\ Conn(q) = Peer(Conn(p)) /\ f[Conn(q)] = 1
                          THEN "test" ELSE @]

(* futex_unlock at the end of send_msg; then the next node of the multicast *)
(* or the end of the handler                                               *)
SendUnlock(p) ==
  LET more == p = 0 /\ at[0] + 1 < nb_nodes IN
  /\ pc[p] = "unlock"
  /\ FutexUnlock(Conn(p))
  /\ WakeUp(p, IF more THEN "send" ELSE IF p = 0 THEN "loop" ELSE "test")
  /\ at' = IF more THEN [at EXCEPT ![0] = @ + 1] ELSE at
  /\ awaits' = [awaits EXCEPT ![p] = "msg"]
  /\ UNCHANGED <<call_recv_again, message, checkpointer>>

-----------------------------------------------------------------------------
(* recv_msg and recv_ack *)

(* The condition of the wait loops does not hold *)
TestEmpty(p) ==
  /\ pc[p] = "test"
  /\ ~ump_endpoint_can_recv(Conn(p))
  /\ Goto(p, "lock")
  /\ UNCHANGED <<channels, at, awaits, call_recv_again, message, checkpointer>>

(* futex_lock: *f = 1 *)
Lock(p) ==
  /\ pc[p] = "lock"
  /\ FutexSet(Conn(p))
  /\ Goto(p, "wait")
  /\ UNCHANGED <<at, awaits, call_recv_again, message, checkpointer>>

(* FUTEX_WAIT returns at once if *f is no longer 1 *)
Wait(p) ==
  /\ pc[p] = "wait"
  /\ Goto(p, IF f[Conn(p)] = 1 THEN "sleep" ELSE "test")
  /\ UNCHANGED <<channels, at, awaits, call_recv_again, message, checkpointer>>

TimeoutNever(p) == FALSE /\ UNCHANGED vars                             \* mutant
Timeout(p) ==
  /\ pc[p] = "sleep"
  /\ Goto(p, "test")
  /\ UNCHANGED <<channels, at, awaits, call_recv_again, message, checkpointer>>

(* recv_ack: whatever it receives, send_msg tests again whether it can send *)
RecvAck(p) ==
  /\ pc[p] = "test" /\ awaits[p] = "ack"
  /\ ump_endpoint_can_recv(Conn(p))
  /\ TakeMessage(Conn(p))
  /\ Goto(p, "send")
  /\ UNCHANGED <<at, awaits, call_recv_again, message, checkpointer>>

(* recv_msg: a message is copied, an ack makes it call itself again *)
RecvMsg(p) ==
  LET m == NextMessage(Conn(p)) IN
  /\ pc[p] = "test" /\ awaits[p] = "msg"
  /\ ump_endpoint_can_recv(Conn(p))
  /\ TakeMessage(Conn(p))
  /\ call_recv_again' = [call_recv_again EXCEPT ![p] = m.type = "UMP_ACK"]
  /\ message' = IF m.type = "UMP_MSG" THEN [message EXCEPT ![p] = m.data] ELSE message
  /\ Goto(p, "ack")
  /\ UNCHANGED <<at, awaits, checkpointer>>

RecvEnds(p) == IF call_recv_again[p] THEN "test" ELSE "handle"

(* recv_msg ends, unless an ack is needed: then it is sent, or the process   *)
(* exits                                                                   *)
SendAck(p) ==
  /\ pc[p] = "ack"
  /\ IF ~ump_send_ack_is_needed(Conn(p))
     THEN Goto(p, RecvEnds(p)) /\ UNCHANGED channels
     ELSE IF ump_can_send(Conn(p))
     THEN Goto(p, "unlock_ack") /\ StoreHeader(Conn(p), "UMP_ACK")
     ELSE Goto(p, "exit") /\ UNCHANGED channels
  /\ UNCHANGED <<at, awaits, call_recv_again, message, checkpointer>>

AckUnlock(p) ==
  /\ pc[p] = "unlock_ack"
  /\ FutexUnlock(Conn(p))
  /\ WakeUp(p, RecvEnds(p))
  /\ UNCHANGED <<at, awaits, call_recv_again, message, checkpointer>>

-----------------------------------------------------------------------------
(* The nodes *)

(* run, of node 0: take_snapshot, which sends the requests, or receive *)
Loop ==
  /\ pc[0] = "loop"
  /\ IF iter < nb_iter
     THEN IF ~snapshot_in_progress
          THEN /\ snapshot_in_progress' = TRUE
               /\ awaited_responses' = awaited_responses_mask
               /\ message' = [message EXCEPT ![0] = iter + 1]
               /\ at' = [at EXCEPT ![0] = 1]
               /\ Goto(0, "send")
          ELSE /\ at' = [at EXCEPT ![0] = rr]
               /\ Goto(0, "test")
               /\ UNCHANGED <<snapshot_in_progress, awaited_responses, message>>
     ELSE /\ Goto(0, "done")
          /\ UNCHANGED <<at, snapshot_in_progress, awaited_responses, message>>
  /\ UNCHANGED <<channels, awaits, call_recv_again, iter, snapshot, rr>>

(* handle(Checkpoint_request): the response is sent *)
HandleRequest(p) ==
  /\ p # 0
  /\ pc[p] = "handle"
  /\ Goto(p, "send")
  /\ UNCHANGED <<channels, at, awaits, call_recv_again, message, checkpointer>>

(* IPC_receive turns to the next node, then handle(Checkpoint_response) *)
HandleResponse ==
  LET sender == at[0]
      left == awaited_responses \ {sender}
  IN
  /\ pc[0] = "handle"
  /\ rr' = IF rr + 1 = nb_nodes THEN 1 ELSE rr + 1
  /\ IF snapshot_in_progress
     THEN /\ snapshot' = [snapshot EXCEPT ![sender] = message[0]]
          /\ awaited_responses' = left
          /\ snapshot_in_progress' = (left # {})
          /\ iter' = IF left = {} THEN iter + 1 ELSE iter
     ELSE UNCHANGED <<snapshot, awaited_responses, snapshot_in_progress, iter>>
  /\ Goto(0, "loop")
  /\ UNCHANGED <<channels, at, awaits, call_recv_again, message>>

Step(p) ==
  \/ Open(p)
  \/ SendBlocked(p) \/ SendCopy(p) \/ SendHeader(p) \/ SendUnlock(p)
  \/ TestEmpty(p) \/ Lock(p) \/ Wait(p) \/ Timeout(p)
  \/ RecvAck(p) \/ RecvMsg(p) \/ SendAck(p) \/ AckUnlock(p)
  \/ HandleRequest(p)

Next == Loop \/ HandleResponse \/ \E p \in Nodes : Step(p)

Spec == Init /\ [][Next]_vars

(* Every process runs, and the timer of a futex expires after 1 ms *)
FairSpec ==
  /\ Spec
  /\ WF_vars(Loop \/ HandleResponse)
  /\ \A p \in Nodes : WF_vars(Step(p))
-----------------------------------------------------------------------------
(* Properties *)

(* "This shouldn't happen: I have received a message, thus I have updated my
   information concerning acks" (bfishmprotect.c:337): an end that has just
   received and needs to send an ack has room for it. *)
AckCanBeSent ==
  \A p \in Nodes :
    pc[p] = "ack" /\ ump_send_ack_is_needed(Conn(p)) => ump_can_send(Conn(p))

(* "Should not have received a message; expecting an ack" (bfishmprotect.c:222):
   recv_ack drops what it receives, so a request or a response must never be
   next in the ring when a blocked send_msg waits for room. *)
RecvAckGetsAck ==
  \A p \in Nodes :
    pc[p] = "test" /\ awaits[p] = "ack" /\ ump_endpoint_can_recv(Conn(p))
      => NextMessage(Conn(p)).type = "UMP_ACK"

(* The slot that send_msg copies into, or whose header it is about to store,
   was received by the other end, whatever the 16-bit counters say. *)
NeverOverrun ==
  \A c \in Conns :
    produced[c] - consumed[Peer(c)]
      + (IF pc[c[1]] = "header" /\ Conn(c[1]) = c THEN 1 ELSE 0) <= bufmsgs

(* The one bit of the epoch tells a new message from an old one: an end finds
   a message exactly when the other has sent one that it did not receive. *)
EpochTellsNew ==
  \A c \in Conns :
    ump_endpoint_can_recv(c) <=> produced[Peer(c)] > consumed[c]

(* The snapshot that completes holds a checkpoint of every node that was sent
   for this snapshot: no answer of an earlier one is still on its way, in a
   ring or in recv_msg, when the next requests are sent. *)
SnapshotIsFresh ==
  \A i \in Others :
    snapshot[i] = IF snapshot_in_progress /\ i \notin awaited_responses
                  THEN iter + 1 ELSE iter

(* Node 0 completes all its snapshots: a message sent between the test of a
   wait loop and the store to the futex wakes nobody up, but the futex times
   out; and no two nodes wait for room in each other's ring. *)
SnapshotsComplete == <>(iter = nb_iter)
=============================================================================
