-------------------------- MODULE MulticastProofs --------------------------
(* What follows from the specification of the multicast channel *)
EXTENDS Multicast, TLAPS

(* Boundedness and order are inductive with the types of the variables. *)
LEMMA MulticastInductive ==
  ASSUME Capacity \in Nat, MaxAccepted \in Nat
  PROVE  Spec => [](MulticastTypeOK /\ Bounded /\ InOrder)
<1> USE DEF MulticastTypeOK, Messages, Position
<1> DEFINE Inv == MulticastTypeOK /\ Bounded /\ InOrder
<1>1. Init => Inv
  BY DEF Init, Bounded, InOrder
<1>2. Inv /\ [Next]_vars => Inv'
  <2> SUFFICES ASSUME Inv, [Next]_vars PROVE Inv'
    OBVIOUS
  <2>1. CASE Accept
    BY <2>1 DEF Accept, Bounded, InOrder
  <2>2. ASSUME NEW m \in Messages, Publish(m) PROVE Inv'
    BY <2>2 DEF Publish, Bounded, InOrder
  <2>3. ASSUME NEW r \in Readers, Deliver(r) PROVE Inv'
    <3> DEFINE p == Position(r)
    <3>1. /\ p + 1 \in published
          /\ delivered' = [delivered EXCEPT ![r] = Append(@, p + 1)]
          /\ UNCHANGED <<accepted, published, members, joined>>
      BY <2>3 DEF Deliver
    <3>2. /\ delivered[r] \in Seq(Messages)
          /\ delivered'[r] = Append(delivered[r], p + 1)
          /\ Len(delivered[r]) \in Nat
          /\ Len(delivered'[r]) = Len(delivered[r]) + 1
      BY <3>1
    <3>3. p = joined[r] + Len(delivered[r]) /\ joined[r] \in Nat
      OBVIOUS
    <3> HIDE DEF p
    <3>4. MulticastTypeOK'
      <4>1. p + 1 \in Messages
        BY <3>1
      <4>2. delivered'[r] \in Seq(Messages)
        BY <3>2, <4>1
      <4> QED
        BY <3>1, <4>2
    <3>5. \A q \in Readers : q # r => delivered'[q] = delivered[q]
      BY <3>1
    <3>6. Bounded'
      <4>1. \A m \in published : m \in Nat
        OBVIOUS
      <4>2. r \in members => \A m \in published : m <= joined[r] + Len(delivered'[r]) + Capacity
        BY <3>2, <3>3, <4>1 DEF Bounded
      <4>3. \A q \in members : q # r => \A m \in published : m <= joined[q] + Len(delivered'[q]) + Capacity
        BY <3>5 DEF Bounded
      <4> QED
        BY <3>1, <4>2, <4>3 DEF Bounded
    <3>7. InOrder'
      <4>1. ASSUME NEW i \in 1 .. Len(delivered'[r])
            PROVE  delivered'[r][i] = joined[r] + i /\ delivered'[r][i] \in published
        <5>1. CASE i = Len(delivered[r]) + 1
          BY <3>1, <3>2, <3>3, <5>1
        <5>2. CASE i # Len(delivered[r]) + 1
          <6>1. i \in 1 .. Len(delivered[r]) /\ delivered'[r][i] = delivered[r][i]
            BY <3>2, <4>1, <5>2
          <6> QED
            BY <6>1 DEF InOrder
        <5> QED
          BY <5>1, <5>2
      <4> QED
        BY <3>1, <3>5, <4>1 DEF InOrder
    <3> QED
      BY <3>4, <3>6, <3>7
  <2>4. ASSUME NEW r \in Readers, Join(r) PROVE Inv'
    <3>1. MulticastTypeOK'
      BY <2>4 DEF Join
    <3>2. Bounded'
      <4>1. \A m \in published : m <= accepted + 0 + Capacity
        BY <2>4 DEF Join
      <4> QED
        BY <2>4, <4>1 DEF Join, Bounded
    <3>3. InOrder'
      BY <2>4 DEF Join, InOrder
    <3> QED
      BY <3>1, <3>2, <3>3
  <2>5. ASSUME NEW r \in Readers, Leave(r) PROVE Inv'
    BY <2>5 DEF Leave, Bounded, InOrder
  <2>6. CASE UNCHANGED vars
    BY <2>6 DEF vars, Bounded, InOrder
  <2> QED
    BY <2>1, <2>2, <2>3, <2>4, <2>5, <2>6 DEF Next
<1> QED
  BY <1>1, <1>2, PTL DEF Spec

(* A multicast channel never publishes a message more than Capacity ahead of *)
(* the slowest member, and each member is given the published messages       *)
(* accepted since it joined one by one. By the refinement theorem, so does   *)
(* a kzimp channel with a ring of Capacity slots.                            *)
THEOREM MulticastPromise ==
  ASSUME Capacity \in Nat, MaxAccepted \in Nat
  PROVE  Spec => [](Bounded /\ InOrder)
BY MulticastInductive, PTL
=============================================================================
