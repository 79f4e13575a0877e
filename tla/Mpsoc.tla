-------------------------------- MODULE Mpsoc -------------------------------
(***************************************************************************)
(* mpsoc: rings of messages in shared memory, each with one bitmap per       *)
(* message that says which readers still have to read it. It is the ring of  *)
(* kzimp without kernel: nobody sleeps, nothing times out, readers do not    *)
(* come and go, and a message is allocated, filled in place and then sent.   *)
(*                                                                         *)
(* The operations on a ring, for a module that composes them with the        *)
(* programs at its ends. In every program of the repository a ring has one   *)
(* writer and is named after it here, so next_write is seen by one process:  *)
(* the claim of a slot under writer_lock and the end of the wait for its     *)
(* bitmap are one action. Filling a message is two: Torn, then complete.     *)
(***************************************************************************)
EXTENDS Integers, Sequences

CONSTANTS
  nb_msg,       \* messages in each ring, at least 1
  Rings,        \* named after their writers
  Ids,          \* core_id: the bits of a bitmap
  Messages,     \* what may be sent
  Torn          \* a message while it is filled, none of Messages

VARIABLES
  bitmap, buf,    \* struct mpsoc_message, for each ring and position
  next_write,     \* of each ring
  nw,             \* the position its writer was given by mpsoc_alloc
  next_read,      \* reader_indexes of each ring
  \* history: messages allocated and sent on each ring, and those received
  claimed, sent, got

Positions == 0 .. nb_msg - 1

MpsocTypeOK ==
  /\ bitmap \in [Rings -> [Positions -> SUBSET Ids]]
  /\ buf \in [Rings -> [Positions -> Messages \cup {Torn}]]
  /\ next_write \in [Rings -> Positions] /\ nw \in [Rings -> Positions]
  /\ next_read \in [Rings -> [Ids -> Positions]]
  /\ claimed \in [Rings -> Nat] /\ sent \in [Rings -> Nat]
  /\ got \in [Rings -> [Ids -> Seq(Messages \cup {Torn})]]

(* mpsoc_init. The index of a reader whose id is not below num_replicas is  *)
(* not written, but a new segment is zero.                                 *)
MpsocInit ==
  /\ bitmap = [r \in Rings |-> [i \in Positions |-> {}]]
  /\ buf = [r \in Rings |-> [i \in Positions |-> Torn]]
  /\ next_write = [r \in Rings |-> 0] /\ nw = [r \in Rings |-> 0]
  /\ next_read = [r \in Rings |-> [b \in Ids |-> 0]]
  /\ claimed = [r \in Rings |-> 0] /\ sent = [r \in Rings |-> 0]
  /\ got = [r \in Rings |-> [b \in Ids |-> <<>>]]

NextPosLate(pos) == IF pos = nb_msg THEN 0 ELSE pos + 1             \* mutant
NextPos(pos) == (pos + 1) % nb_msg

FreeAlways(r, pos) == TRUE                                          \* mutant
Free(r, pos) == bitmap[r][pos] = {}

mpsoc_alloc(r) ==
  /\ Free(r, next_write[r])
  /\ nw' = [nw EXCEPT ![r] = next_write[r]]
  /\ next_write' = [next_write EXCEPT ![r] = NextPos(@)]
  /\ buf' = [buf EXCEPT ![r][next_write[r]] = Torn]
  /\ claimed' = [claimed EXCEPT ![r] = @ + 1]
  /\ UNCHANGED <<bitmap, next_read, sent, got>>

(* The message m is complete, then mpsoc_sendto stores the bitmap *)
mpsoc_sendto(r, m, dest) ==
  /\ buf' = [buf EXCEPT ![r][nw[r]] = m]
  /\ bitmap' = [bitmap EXCEPT ![r][nw[r]] = dest]
  /\ sent' = [sent EXCEPT ![r] = @ + 1]
  /\ UNCHANGED <<next_write, nw, next_read, claimed, got>>

(* mpsoc_recvfrom: the test, and the message that is copied out *)
HasMessageOfAny(r, b) == bitmap[r][next_read[r][b]] # {}             \* mutant
HasMessage(r, b) == b \in bitmap[r][next_read[r][b]]
NextMessage(r, b) == buf[r][next_read[r][b]]

RemainingNone(bits, b) == {}                                        \* mutant
Remaining(bits, b) == bits \ {b}

(* The end of mpsoc_recvfrom: message m was copied, __sync_fetch_and_and *)
RecvEnd(r, b, m) ==
  /\ bitmap' = [bitmap EXCEPT ![r][next_read[r][b]] = Remaining(@, b)]
  /\ next_read' = [next_read EXCEPT ![r][b] = NextPos(@)]
  /\ got' = [got EXCEPT ![r][b] = Append(@, m)]
  /\ UNCHANGED <<buf, next_write, nw, claimed, sent>>
=============================================================================
