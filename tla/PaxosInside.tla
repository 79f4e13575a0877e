----------------------------- MODULE PaxosInside ----------------------------
(***************************************************************************)
(* PaxosInside over ULM: client 1 sends values to the leader (node 0), which *)
(* numbers them and sends them to the acceptor (node 1), which multicasts    *)
(* them to the learners (nodes 2 and up), each of which answers client 0.    *)
(* Every hop is an mpsoc ring. Client 0 polls the rings of the learners, and *)
(* counts the answers that carry the value it expects until it has nb_iter   *)
(* of them; then it no longer receives.                                      *)
(*                                                                         *)
(* The proposal number is a constant of the program and is left out, with    *)
(* the test of it in handle_accept_req, which never fails. Without OPEN_LOOP. *)
(***************************************************************************)
EXTENDS Integers, Sequences, FiniteSetsExt

CONSTANTS
  nb_learners,
  nb_msg,         \* NB_MESSAGES, in each ring
  nb_iter,        \* answers client 0 waits for
  MaxValues,      \* bound: values client 1 sends
  Torn

Learners == 2 .. nb_learners + 1
Nodes == 0 .. nb_learners + 1
Client0 == nb_learners + 2      \* receives
Client1 == nb_learners + 3      \* sends
Processes == Nodes \cup {Client0, Client1}
Rings == Processes \ {Client0}

(* A request and a response carry a value, the others an instance as well *)
Messages == [instance : 0 .. MaxValues, value : 1 .. MaxValues]

ASSUME PaxosAssumption ==
  /\ nb_learners \in Nat \ {0}
  /\ nb_msg \in Nat \ {0}
  /\ nb_iter \in 0 .. MaxValues /\ MaxValues \in Nat
  /\ Torn \notin Messages

VARIABLES
  bitmap, buf, next_write, nw, next_read, claimed, sent, got,    \* see Mpsoc
  pc,                       \* where each process is
  msg,                      \* the message it received or is about to send
  value,                    \* of client 1: the last value
  last_instance_number,     \* of the leader
  last_proposal,            \* of the acceptor and of each learner
  expected_value,           \* of client 0, whose iter is one less
  poll                      \* the learner whose ring client 0 tests next

INSTANCE Mpsoc WITH Ids <- {0} \cup Learners

rings == <<bitmap, buf, next_write, nw, next_read, claimed, sent, got>>
local == <<pc, msg, value, last_instance_number, last_proposal, expected_value, poll>>
vars == <<rings, local>>

(* The ring a node receives from, as its core_id *)
In(n) == IF n = 0 THEN Client1 ELSE IF n = 1 THEN 0 ELSE 1
CoreId(n) == IF n \in Learners THEN n ELSE 0

(* To whom each process sends: the multicast mask, or 1 << 0 *)
DestNode(p) == IF p = 1 THEN Learners ELSE {p + 1}                   \* mutant
Dest(p) == IF p = 1 THEN Learners ELSE {0}

PaxosTypeOK ==
  /\ MpsocTypeOK
  /\ pc \in [Processes -> {"recv", "copy", "alloc", "fill", "done"}]
  /\ msg \in [Processes -> Messages \cup {Torn}]
  /\ value \in 0 .. MaxValues
  /\ last_instance_number \in 0 .. MaxValues
  /\ last_proposal \in [Nodes \ {0} -> [instance : 0 .. MaxValues, value : 0 .. MaxValues]]
  /\ expected_value \in 1 .. MaxValues + 1
  /\ poll \in Learners

Init ==
  /\ MpsocInit
  /\ pc = [p \in Processes |-> IF p = Client1 THEN "alloc" ELSE "recv"]
  /\ msg = [p \in Processes |-> Torn]
  /\ value = 0
  /\ last_instance_number = 0
  /\ last_proposal = [n \in Nodes \ {0} |-> [instance |-> 0, value |-> 0]]
  /\ expected_value = 1
  /\ poll = 2

-----------------------------------------------------------------------------
(* IPC_receive of a node: there is a message, and it is copied *)
Receive(n) ==
  /\ pc[n] = "recv"
  /\ HasMessage(In(n), CoreId(n))
  /\ msg' = [msg EXCEPT ![n] = NextMessage(In(n), CoreId(n))]
  /\ pc' = [pc EXCEPT ![n] = "copy"]
  /\ UNCHANGED <<rings, value, last_instance_number, last_proposal,
                 expected_value, poll>>

(* IPC_receive returns; the handler will send message m *)
Received(n, m) ==
  /\ pc[n] = "copy"
  /\ RecvEnd(In(n), CoreId(n), msg[n])
  /\ msg' = [msg EXCEPT ![n] = m]
  /\ pc' = [pc EXCEPT ![n] = "alloc"]
  /\ UNCHANGED <<value, expected_value, poll>>

handle_request ==
  /\ Received(0, [instance |-> last_instance_number + 1, value |-> msg[0].value])
  /\ last_instance_number' = last_instance_number + 1
  /\ UNCHANGED last_proposal

handle_accept_req ==
  /\ Received(1, msg[1])
  /\ last_proposal' = [last_proposal EXCEPT ![1] = msg[1]]
  /\ UNCHANGED last_instance_number

handle_learn(l) ==
  /\ Received(l, [instance |-> 0, value |-> msg[l].value])
  /\ last_proposal' = [last_proposal EXCEPT ![l] = msg[l]]
  /\ UNCHANGED last_instance_number

(* The constructor of the message to send allocates it in the ring; client *)
(* 1 draws its next value before.                                          *)
NewMessage(p) ==
  /\ pc[p] = "alloc"
  /\ p = Client1 => value < MaxValues
  /\ mpsoc_alloc(p)
  /\ pc' = [pc EXCEPT ![p] = "fill"]
  /\ value' = IF p = Client1 THEN value + 1 ELSE value
  /\ msg' = IF p = Client1
            THEN [msg EXCEPT ![p] = [instance |-> 0, value |-> value + 1]] ELSE msg
  /\ UNCHANGED <<last_instance_number, last_proposal, expected_value, poll>>

(* The message is filled and sent; the process goes back to its loop *)
Send(p) ==
  /\ pc[p] = "fill"
  /\ mpsoc_sendto(p, msg[p], Dest(p))
  /\ pc' = [pc EXCEPT ![p] = IF p = Client1 THEN "alloc" ELSE "recv"]
  /\ UNCHANGED <<msg, value, last_instance_number, last_proposal, expected_value, poll>>

-----------------------------------------------------------------------------
(* Client 0 *)

NextLearner(l) == IF l = nb_learners + 1 THEN 2 ELSE l + 1

(* IPC_receive tests the ring of one learner after the other *)
Poll ==
  /\ pc[Client0] = "recv"
  /\ IF HasMessage(poll, 0)
     THEN /\ msg' = [msg EXCEPT ![Client0] = NextMessage(poll, 0)]
          /\ pc' = [pc EXCEPT ![Client0] = "copy"]
          /\ UNCHANGED poll
     ELSE /\ poll' = NextLearner(poll)
          /\ UNCHANGED <<msg, pc>>
  /\ UNCHANGED <<rings, value, last_instance_number, last_proposal, expected_value>>

AnyResponse(m) == TRUE                                               \* mutant
handle_response(m) == m.value = expected_value

(* The response counts if it is the expected one; the next call of          *)
(* IPC_receive starts with the first learner again.                        *)
Response ==
  LET counts == handle_response(msg[Client0])
      next == IF counts THEN expected_value + 1 ELSE expected_value
  IN
  /\ pc[Client0] = "copy"
  /\ RecvEnd(poll, 0, msg[Client0])
  /\ expected_value' = next
  /\ pc' = [pc EXCEPT ![Client0] = IF next > nb_iter THEN "done" ELSE "recv"]
  /\ poll' = 2
  /\ UNCHANGED <<msg, value, last_instance_number, last_proposal>>

Next ==
  \/ \E n \in Nodes : Receive(n)
  \/ handle_request
  \/ handle_accept_req
  \/ \E l \in Learners : handle_learn(l)
  \/ \E p \in Rings : NewMessage(p) \/ Send(p)
  \/ Poll
  \/ Response

Spec == Init /\ [][Next]_vars

NodeStep(n) ==
  \/ Receive(n) \/ NewMessage(n) \/ Send(n)
  \/ n = 0 /\ handle_request
  \/ n = 1 /\ handle_accept_req
  \/ n \in Learners /\ handle_learn(n)

(* Every process has a core and runs; all of them poll *)
FairSpec ==
  /\ Spec
  /\ \A n \in Nodes : WF_vars(NodeStep(n))
  /\ WF_vars(NewMessage(Client1) \/ Send(Client1))
  /\ WF_vars(Poll \/ Response)
-----------------------------------------------------------------------------
(* Properties *)

(* Who receives from the ring of each process, under which id *)
ReadersOf(r) == {CoreId(n) : n \in {k \in Nodes : In(k) = r}} \cup
                (IF r \in Learners THEN {0} ELSE {})

(* What a process is copying out of a ring is not written meanwhile: a slot *)
(* is filled only once all of its readers have cleared their bits, and the *)
(* wait in mpsoc_alloc is not repeated when the message is sent.           *)
NoOverwriteWhileRead ==
  /\ \A n \in Nodes : pc[n] = "copy" => NextMessage(In(n), CoreId(n)) = msg[n]
  /\ pc[Client0] = "copy" => NextMessage(poll, 0) = msg[Client0]

(* Learners learn the same value for an instance, and learn the instances   *)
(* the leader numbered one by one, though each reads at its own pace; none *)
(* is ahead of the acceptor, nor the acceptor of the leader.               *)
LearnersAgree ==
  /\ \A k, l \in Learners : \A i \in 1 .. Len(got[1][k]) :
       /\ got[1][k][i].instance = i
       /\ i <= Len(got[1][l]) => got[1][l][i] = got[1][k][i]
  /\ \A l \in Learners :
       /\ last_proposal[l].instance <= last_proposal[1].instance
       /\ last_proposal[l].instance = last_proposal[1].instance
            => last_proposal[l] = last_proposal[1]
  /\ last_proposal[1].instance <= last_instance_number

(* Every learner answers every value, so client 0 gets each several times,  *)
(* in an order that depends on who is faster. It counts each value once, at *)
(* the first answer it takes, whichever learner that is from: what it has  *)
(* counted is what the learner it has heard most from has answered.        *)
CountsEachValueOnce ==
  expected_value - 1 = Max({Len(got[l][0]) : l \in Learners})

(* Each ring keeps the promise of a multicast channel whose readers have    *)
(* been there from the start: every value once, in the order of the client, *)
(* and at most nb_msg messages ahead of the slowest reader.                 *)
Ring(r) == INSTANCE Multicast WITH
  Readers <- ReadersOf(r),
  Capacity <- nb_msg,
  MaxAccepted <- MaxValues,
  accepted <- claimed[r],
  published <- 1 .. sent[r],
  members <- ReadersOf(r),
  delivered <- [b \in ReadersOf(r) |->
                  [i \in 1 .. Len(got[r][b]) |-> got[r][b][i].value]],
  joined <- [b \in ReadersOf(r) |-> 0]

RingsAreMulticast ==
  /\ \A r \in Rings : Ring(r)!Init
  /\ [][\A r \in Rings : [Ring(r)!Next]_(Ring(r)!vars)]_vars

(* Client 0 gets all the answers it waits for: although it prefers the first *)
(* learner, and a learner whose answers are not taken stops all the others *)
(* through the acceptor, neither the learners nor the rings end up waiting  *)
(* for each other.                                                         *)
ClientFinishes == <>(pc[Client0] = "done")

-----------------------------------------------------------------------------
(* Why it works: the inductive invariant behind the safety properties *)

(* The m-th message of ring r, and where it lives *)
Message(r, m) == [instance |-> IF r \in {0, 1} THEN m ELSE 0, value |-> m]
Home(m) == (m - 1) % nb_msg

(* Ring r: the writer is at most one message ahead of what it sent and one  *)
(* ring ahead of each reader; a reader has got a prefix, stands at the home *)
(* of the next message, and has its bit set exactly where a message lives  *)
(* that it must still read; and those messages are whole.                   *)
RingInv(r) ==
  /\ claimed[r] \in sent[r] .. sent[r] + 1
  /\ next_write[r] = Home(claimed[r] + 1)
  /\ claimed[r] > sent[r] => nw[r] = Home(claimed[r])
  /\ \A b \in Dest(r) :
       /\ Len(got[r][b]) <= sent[r]
       /\ claimed[r] <= Len(got[r][b]) + nb_msg
       /\ next_read[r][b] = Home(Len(got[r][b]) + 1)
       /\ \A i \in 1 .. Len(got[r][b]) : got[r][b][i] = Message(r, i)
  /\ \A i \in Positions :
       /\ bitmap[r][i] \subseteq Dest(r)
       /\ \A b \in Dest(r) :
            b \in bitmap[r][i] <=> \E m \in Len(got[r][b]) + 1 .. sent[r] : Home(m) = i
  /\ \A m \in 1 .. sent[r] :
       m > claimed[r] - nb_msg => buf[r][Home(m)] = Message(r, m)

(* A node that is in its call of IPC_receive has sent a message for each it *)
(* received; what it copies is the next message of its ring.               *)
NodeInv(n) ==
  LET received == Len(got[In(n)][CoreId(n)]) IN
  /\ claimed[n] = IF pc[n] = "alloc" THEN received - 1 ELSE received
  /\ pc[n] = "copy" => /\ received < sent[In(n)]
                       /\ msg[n] = Message(In(n), received + 1)
  /\ pc[n] \in {"alloc", "fill"} => msg[n] = Message(n, received)
  /\ n = 0 => last_instance_number = received
  /\ n # 0 => last_proposal[n] = [instance |-> received, value |-> received]

(* What client 0 expects is what follows the longest run of answers *)
ClientInv ==
  /\ claimed[Client1] = value
  /\ pc[Client1] = "fill" => msg[Client1] = Message(Client1, value)
  /\ pc[Client0] = "copy" =>
       /\ Len(got[poll][0]) < sent[poll]
       /\ msg[Client0] = Message(poll, Len(got[poll][0]) + 1)
  /\ \A l \in Learners : Len(got[l][0]) <= expected_value - 1
  /\ \E l \in Learners : Len(got[l][0]) = expected_value - 1

(* The leader, the acceptor and the learners form a pipeline of rings: all  *)
(* of these facts hold together, and the properties follow from them.       *)
PipelineInv ==
  /\ \A r \in Rings : RingInv(r) /\ (pc[r] = "fill" <=> claimed[r] > sent[r])
  /\ \A n \in Nodes : NodeInv(n)
  /\ ClientInv
=============================================================================
