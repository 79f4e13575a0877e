----------------------------- MODULE Multicast -----------------------------
(***************************************************************************)
(* What a multicast channel promises, without slots, bitmaps or locks:      *)
(* messages are numbered in the order the channel accepts them; a reader    *)
(* gets every message accepted after it joined, once, in that order; a      *)
(* message is published at most Capacity messages ahead of the slowest      *)
(* reader. A kzimp channel and an mpsoc ring implement it.                  *)
(***************************************************************************)
EXTENDS Naturals, Sequences

CONSTANTS
  Readers,      \* those that may join
  Capacity,     \* how far ahead of the slowest reader a message is published
  MaxAccepted   \* bound: number of messages

VARIABLES
  accepted,   \* number of messages accepted
  published,  \* those that can be read
  members,    \* readers that have the channel open
  delivered,  \* what each reader was given since it joined
  joined      \* value of accepted when each reader joined

vars == <<accepted, published, members, delivered, joined>>

Messages == 1 .. MaxAccepted

MulticastTypeOK ==
  /\ accepted \in 0 .. MaxAccepted
  /\ published \in SUBSET Messages
  /\ members \in SUBSET Readers
  /\ delivered \in [Readers -> Seq(Messages)]
  /\ joined \in [Readers -> 0 .. MaxAccepted]

(* Readers that have the channel open from the start, or none *)
Init ==
  /\ accepted = 0
  /\ published = {}
  /\ members \in SUBSET Readers
  /\ delivered = [r \in Readers |-> <<>>]
  /\ joined = [r \in Readers |-> 0]

(* The last message reader r was given, or the last one it must not get *)
Position(r) == joined[r] + Len(delivered[r])

Accept ==
  /\ accepted < MaxAccepted
  /\ accepted' = accepted + 1
  /\ UNCHANGED <<published, members, delivered, joined>>

Publish(m) ==
  /\ m \in 1 .. accepted
  /\ m \notin published
  /\ \A r \in members : m <= Position(r) + Capacity
  /\ published' = published \cup {m}
  /\ UNCHANGED <<accepted, members, delivered, joined>>

Deliver(r) ==
  /\ r \in members
  /\ Position(r) + 1 \in published
  /\ delivered' = [delivered EXCEPT ![r] = Append(@, Position(r) + 1)]
  /\ UNCHANGED <<accepted, published, members, joined>>

(* A reader joins between two messages: what was accepted is published. *)
Join(r) ==
  /\ r \notin members
  /\ published = 1 .. accepted
  /\ members' = members \cup {r}
  /\ delivered' = [delivered EXCEPT ![r] = <<>>]
  /\ joined' = [joined EXCEPT ![r] = accepted]
  /\ UNCHANGED <<accepted, published>>

Leave(r) ==
  /\ r \in members
  /\ members' = members \ {r}
  /\ UNCHANGED <<accepted, published, delivered, joined>>

Next ==
  \/ Accept
  \/ \E m \in Messages : Publish(m)
  \/ \E r \in Readers : Deliver(r) \/ Join(r) \/ Leave(r)

Spec == Init /\ [][Next]_vars

(* No reader is ever more than Capacity messages behind a published one *)
Bounded ==
  \A r \in members : \A m \in published : m <= Position(r) + Capacity

(* A reader has got exactly the messages accepted since it joined, in order *)
InOrder ==
  \A r \in Readers : \A i \in 1 .. Len(delivered[r]) :
    /\ delivered[r][i] = joined[r] + i
    /\ delivered[r][i] \in published
=============================================================================
