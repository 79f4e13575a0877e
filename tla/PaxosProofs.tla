----------------------------- MODULE PaxosProofs ----------------------------
(***************************************************************************)
(* PaxosInside over mpsoc rings, for any number of learners, any ring size   *)
(* and any number of values: types, the rings, what the learners learn, what *)
(* the client counts, and that every ring is a multicast channel.           *)
(***************************************************************************)
EXTENDS PaxosInside, RingArithmetic

-----------------------------------------------------------------------------
(* Positions on a ring *)

(* Where a message lives is a position. *)
LEMMA HomeIsPosition == ASSUME NEW m \in Nat \ {0} PROVE Home(m) \in Positions
<1>1. m - 1 \in Nat
  OBVIOUS
<1> QED
  BY <1>1, PaxosAssumption, DivMod DEF Home, Positions

(* The position after that of message m is that of message m + 1. *)
LEMMA HomeNext == ASSUME NEW m \in Nat \ {0} PROVE NextPos(Home(m)) = Home(m + 1)
<1>1. m - 1 \in Nat /\ (m - 1) + 1 = m /\ (m + 1) - 1 = m
  OBVIOUS
<1>2. (((m - 1) % nb_msg) + 1) % nb_msg = m % nb_msg
  BY <1>1, PaxosAssumption, NextOfIndex
<1> QED
  BY <1>1, <1>2 DEF Home, NextPos

(* Two messages with the same position are at least one ring apart. *)
LEMMA HomeApart ==
  ASSUME NEW m \in Nat \ {0}, NEW n \in Nat \ {0}, m < n, Home(m) = Home(n)
  PROVE  n >= m + nb_msg
<1>1. m - 1 \in Nat /\ n - 1 \in Nat /\ m - 1 < n - 1
  OBVIOUS
<1>2. n - 1 >= (m - 1) + nb_msg
  BY <1>1, PaxosAssumption, SameIndexFarApart DEF Home
<1> QED
  BY <1>2, PaxosAssumption

(* The message one ring earlier had the same position. *)
LEMMA HomeBack ==
  ASSUME NEW m \in Nat, m > nb_msg
  PROVE  Home(m - nb_msg) = Home(m)
<1>1. m - 1 \in Nat /\ m - 1 >= nb_msg /\ (m - nb_msg) - 1 = (m - 1) - nb_msg
  BY PaxosAssumption
<1>2. ((m - 1) - nb_msg) % nb_msg = (m - 1) % nb_msg
  BY <1>1, PaxosAssumption, RingBack
<1> QED
  BY <1>1, <1>2 DEF Home

-----------------------------------------------------------------------------
(* Who uses which ring *)

(* The pipeline: each node receives on a ring that is not its own, under an *)
(* id nobody else uses on that ring.                                       *)
LEMMA Names ==
  /\ Learners \subseteq Nodes /\ 0 \in Nodes /\ 1 \in Nodes
  /\ 0 \notin Learners /\ 1 \notin Learners /\ 0 # 1
  /\ Nodes = {0, 1} \cup Learners
  /\ Rings = Nodes \cup {Client1} /\ Client0 \notin Rings /\ Client1 \notin Nodes
  /\ Processes = Rings \cup {Client0}
  /\ \A n \in Nodes : In(n) \in Rings \ (Learners \cup {n}) /\ CoreId(n) \in Dest(In(n))
  /\ \A n, k \in Nodes : In(n) = In(k) /\ CoreId(n) = CoreId(k) => n = k
  /\ \A r \in Rings : Dest(r) \subseteq {0} \cup Learners /\ Dest(r) # {}
  /\ \A l \in Learners : Dest(l) = {0}
  /\ 2 \in Learners
<1> USE PaxosAssumption
<1> USE DEF Learners, Nodes, Client0, Client1
<1>1. Learners \subseteq Nodes /\ 0 \in Nodes /\ 1 \in Nodes /\ 2 \in Learners
  OBVIOUS
<1>2. 0 \notin Learners /\ 1 \notin Learners /\ 0 # 1
  OBVIOUS
<1>3. Nodes = {0, 1} \cup Learners
  OBVIOUS
<1>4. Client0 \notin Nodes /\ Client1 \notin Nodes /\ Client0 # Client1
  OBVIOUS
<1> HIDE DEF Learners, Nodes, Client0, Client1
<1>5. /\ Rings = Nodes \cup {Client1} /\ Client0 \notin Rings
      /\ Processes = Rings \cup {Client0}
  BY <1>4 DEF Rings, Processes
<1>6. \A n \in Nodes : In(n) \in Rings \ (Learners \cup {n})
  BY <1>1, <1>2, <1>3, <1>4, <1>5 DEF In
<1>7. \A n \in Nodes : CoreId(n) \in Dest(In(n))
  BY <1>1, <1>2, <1>3, <1>4 DEF In, CoreId, Dest
<1>8. \A n, k \in Nodes : In(n) = In(k) /\ CoreId(n) = CoreId(k) => n = k
  BY <1>1, <1>2, <1>3, <1>4 DEF In, CoreId
<1>9. /\ \A r \in Rings : Dest(r) \subseteq {0} \cup Learners /\ Dest(r) # {}
      /\ \A l \in Learners : Dest(l) = {0}
  BY <1>1, <1>2 DEF Dest
<1> QED
  BY <1>1, <1>2, <1>3, <1>4, <1>5, <1>6, <1>7, <1>8, <1>9

(* A node, its ring and the ring it receives on. *)
LEMMA NodeNames ==
  ASSUME NEW n \in Nodes
  PROVE  /\ n \in Rings /\ n \in Processes /\ n # Client1 /\ n # Client0
         /\ In(n) \in Rings /\ In(n) \notin Learners /\ In(n) # n
         /\ CoreId(n) \in Dest(In(n)) /\ CoreId(n) \in {0} \cup Learners
<1>1. n \in Rings /\ n # Client1 /\ n # Client0 /\ n \in Processes
  BY Names
<1>2. In(n) \in Rings /\ In(n) \notin Learners /\ In(n) # n /\ CoreId(n) \in Dest(In(n))
  BY Names
<1>3. CoreId(n) \in {0} \cup Learners
  BY <1>2, Names
<1> QED
  BY <1>1, <1>2, <1>3

(* A ring that an action leaves alone *)
SameRing(r) ==
  /\ bitmap'[r] = bitmap[r] /\ buf'[r] = buf[r]
  /\ next_write'[r] = next_write[r] /\ nw'[r] = nw[r] /\ next_read'[r] = next_read[r]
  /\ claimed'[r] = claimed[r] /\ sent'[r] = sent[r] /\ got'[r] = got[r]

(* What it was is what it is. *)
LEMMA SameRingInv ==
  ASSUME NEW r \in Rings, RingInv(r), SameRing(r)
  PROVE  RingInv(r)'
BY DEF RingInv, SameRing

(* The numbers of a ring are numbers. *)
LEMMA RingTypes ==
  ASSUME PaxosTypeOK, NEW r \in Rings
  PROVE  /\ claimed[r] \in Nat /\ sent[r] \in Nat
         /\ next_write[r] \in Positions /\ nw[r] \in Positions
         /\ \A b \in {0} \cup Learners :
              /\ Len(got[r][b]) \in Nat /\ next_read[r][b] \in Positions
              /\ got[r][b] \in Seq(Messages \cup {Torn})
         /\ \A i \in Positions : /\ bitmap[r][i] \in SUBSET ({0} \cup Learners)
                                 /\ buf[r][i] \in Messages \cup {Torn}
         /\ nb_msg \in Nat \ {0}
BY PaxosAssumption DEF PaxosTypeOK, MpsocTypeOK

(* A reader whose bit is set finds the next message, whole. *)
LEMMA FindsNext ==
  ASSUME PaxosTypeOK, NEW r \in Rings, NEW b \in Dest(r), RingInv(r), HasMessage(r, b)
  PROVE  /\ Len(got[r][b]) < sent[r]
         /\ NextMessage(r, b) = Message(r, Len(got[r][b]) + 1)
<1> DEFINE c == Len(got[r][b])
<1>1. c \in Nat /\ sent[r] \in Nat /\ claimed[r] \in Nat /\ nb_msg \in Nat \ {0}
  BY RingTypes, Names
<1>2. Home(c + 1) \in Positions
  BY <1>1, HomeIsPosition
<1>3. next_read[r][b] = Home(c + 1) /\ c <= sent[r] /\ claimed[r] <= c + nb_msg
      /\ sent[r] <= claimed[r]
  BY <1>1 DEF RingInv
<1>4. PICK m \in c + 1 .. sent[r] : Home(m) = Home(c + 1)
  BY <1>2, <1>3 DEF RingInv, HasMessage
<1>5. m = c + 1
  <2>1. m \in Nat \ {0} /\ c + 1 \in Nat \ {0}
    BY <1>1
  <2>2. m > c + 1 => m >= c + 1 + nb_msg
    BY <2>1, <1>4, HomeApart
  <2>3. m \in Nat /\ m >= c + 1 /\ m <= sent[r]
    BY <1>1, <1>4
  <2>4. m < c + 1 + nb_msg
    BY <1>1, <1>3, <2>3
  <2> HIDE DEF c
  <2> QED
    BY <1>1, <2>2, <2>3, <2>4
<1>6. c + 1 \in 1 .. sent[r] /\ c + 1 > claimed[r] - nb_msg
  BY <1>1, <1>3, <1>4, <1>5
<1>7. buf[r][Home(c + 1)] = Message(r, c + 1)
  BY <1>6 DEF RingInv
<1>8. c < sent[r]
  BY <1>1, <1>6
<1> QED
  BY <1>3, <1>7, <1>8 DEF NextMessage

-----------------------------------------------------------------------------
(* What an operation does to its ring *)

(* The writer waits for the bitmap of one message, that which a reader one   *)
(* ring behind stands at: when it is empty no reader is that far behind,     *)
(* and no message that is still to be read is where the new one goes.        *)
LEMMA AllocRing ==
  ASSUME PaxosTypeOK, NEW r \in Rings, RingInv(r), claimed[r] = sent[r], mpsoc_alloc(r)
  PROVE  /\ RingInv(r)'
         /\ claimed'[r] = claimed[r] + 1 /\ sent' = sent /\ got' = got
         /\ \A q \in Rings \ {r} : SameRing(q)
<1> DEFINE c == claimed[r]
           here == Home(c + 1)
<1>1. /\ c \in Nat /\ sent[r] = c /\ nb_msg \in Nat \ {0} /\ here \in Positions
      /\ \A b \in Dest(r) : Len(got[r][b]) \in Nat
  BY RingTypes, Names, HomeIsPosition
<1>2. next_write[r] = here /\ bitmap[r][here] = {}
  BY DEF RingInv, mpsoc_alloc, Free
<1>3. /\ nw'[r] = here /\ next_write'[r] = NextPos(here)
      /\ buf'[r] = [buf[r] EXCEPT ![here] = Torn]
      /\ claimed'[r] = c + 1
      /\ UNCHANGED <<bitmap, next_read, sent, got>>
  BY <1>2 DEF mpsoc_alloc, PaxosTypeOK, MpsocTypeOK
<1>4. \A q \in Rings \ {r} : SameRing(q)
  BY DEF mpsoc_alloc, SameRing, PaxosTypeOK, MpsocTypeOK
<1>5. NextPos(here) = Home((c + 1) + 1)
  BY <1>1, HomeNext
<1>6. ASSUME NEW b \in Dest(r) PROVE c + 1 <= Len(got[r][b]) + nb_msg
  <2> DEFINE g == Len(got[r][b])
  <2>1. g \in Nat /\ c <= g + nb_msg /\ g <= c
    BY <1>1 DEF RingInv
  <2>2. SUFFICES ASSUME c = g + nb_msg PROVE FALSE
    BY <1>1, <2>1
  <2>3. g + 1 \in g + 1 .. sent[r] /\ (c + 1) - nb_msg = g + 1 /\ c + 1 > nb_msg /\ c + 1 \in Nat
    BY <1>1, <2>1, <2>2
  <2>4. Home(g + 1) = here
    BY <2>3, HomeBack
  <2> QED
    BY <1>1, <1>2, <2>3, <2>4 DEF RingInv
<1>7. ASSUME NEW m \in 1 .. sent[r], m > (c + 1) - nb_msg
      PROVE  buf'[r][Home(m)] = Message(r, m)
  <2>1. m \in Nat \ {0} /\ c + 1 \in Nat \ {0} /\ m < c + 1 /\ m > c - nb_msg
    BY <1>1, <1>7
  <2>2. Home(m) # here
    BY <1>1, <1>7, <2>1, HomeApart
  <2>3. Home(m) \in Positions
    BY <2>1, HomeIsPosition
  <2>4. buf'[r][Home(m)] = buf[r][Home(m)]
    BY <1>3, <2>2, <2>3 DEF PaxosTypeOK, MpsocTypeOK
  <2> QED
    BY <2>1, <2>4 DEF RingInv
<1>8. RingInv(r)'
  <2>1. /\ claimed'[r] \in sent'[r] .. sent'[r] + 1
        /\ next_write'[r] = Home(claimed'[r] + 1)
        /\ claimed'[r] > sent'[r] => nw'[r] = Home(claimed'[r])
    BY <1>1, <1>3, <1>5
  <2>2. \A b \in Dest(r) :
       /\ Len(got'[r][b]) <= sent'[r]
       /\ claimed'[r] <= Len(got'[r][b]) + nb_msg
       /\ next_read'[r][b] = Home(Len(got'[r][b]) + 1)
       /\ \A i \in 1 .. Len(got'[r][b]) : got'[r][b][i] = Message(r, i)
    BY <1>3, <1>6 DEF RingInv
  <2>3. \A i \in Positions :
       /\ bitmap'[r][i] \subseteq Dest(r)
       /\ \A b \in Dest(r) :
            b \in bitmap'[r][i] <=> \E m \in Len(got'[r][b]) + 1 .. sent'[r] : Home(m) = i
    BY <1>3 DEF RingInv
  <2>4. \A m \in 1 .. sent'[r] :
          m > claimed'[r] - nb_msg => buf'[r][Home(m)] = Message(r, m)
    BY <1>3, <1>7
  <2> QED
    BY <2>1, <2>2, <2>3, <2>4 DEF RingInv, Home, Message
<1> QED
  BY <1>3, <1>4, <1>8

(* The next message is whole, and all the readers have it to read, at the    *)
(* position that was allocated, where no reader had anything left.           *)
LEMMA SendRing ==
  ASSUME PaxosTypeOK, NEW r \in Rings, RingInv(r), claimed[r] > sent[r],
         mpsoc_sendto(r, Message(r, claimed[r]), Dest(r))
  PROVE  /\ RingInv(r)'
         /\ claimed' = claimed /\ sent'[r] = claimed[r] /\ got' = got
         /\ \A q \in Rings \ {r} : SameRing(q)
<1> DEFINE c == claimed[r]
           here == Home(c)
<1>1. /\ c \in Nat \ {0} /\ sent[r] \in Nat /\ sent[r] = c - 1
      /\ nb_msg \in Nat \ {0} /\ here \in Positions
      /\ \A b \in Dest(r) : Len(got[r][b]) \in Nat /\ Len(got[r][b]) <= c - 1
  <2>1. /\ c \in Nat /\ sent[r] \in Nat /\ nb_msg \in Nat \ {0}
        /\ \A b \in Dest(r) : Len(got[r][b]) \in Nat
    BY RingTypes, Names
  <2>2. c = sent[r] + 1 /\ \A b \in Dest(r) : Len(got[r][b]) <= sent[r]
    BY <2>1 DEF RingInv
  <2>3. c \in Nat \ {0}
    BY <2>1, <2>2
  <2> QED
    BY <2>1, <2>2, <2>3, HomeIsPosition
<1>2. nw[r] = here
  BY DEF RingInv
<1>3. /\ buf'[r] = [buf[r] EXCEPT ![here] = Message(r, c)]
      /\ bitmap'[r] = [bitmap[r] EXCEPT ![here] = Dest(r)]
      /\ sent'[r] = c
      /\ UNCHANGED <<next_write, nw, next_read, claimed, got>>
  BY <1>1, <1>2 DEF mpsoc_sendto, PaxosTypeOK, MpsocTypeOK
<1>4. \A q \in Rings \ {r} : SameRing(q)
  BY DEF mpsoc_sendto, SameRing, PaxosTypeOK, MpsocTypeOK
<1>5. ASSUME NEW i \in Positions, NEW b \in Dest(r)
      PROVE  b \in bitmap'[r][i] <=> \E m \in Len(got[r][b]) + 1 .. c : Home(m) = i
  <2>1. CASE i = here
    <3>1. b \in bitmap'[r][i]
      BY <1>3, <2>1 DEF PaxosTypeOK, MpsocTypeOK
    <3>2. c \in Len(got[r][b]) + 1 .. c
      BY <1>1
    <3> QED
      BY <2>1, <3>1, <3>2
  <2>2. CASE i # here
    <3>1. bitmap'[r][i] = bitmap[r][i]
      BY <1>3, <2>2 DEF PaxosTypeOK, MpsocTypeOK
    <3>2. b \in bitmap[r][i] <=> \E m \in Len(got[r][b]) + 1 .. c - 1 : Home(m) = i
      BY <1>1 DEF RingInv
    <3>3. \A m \in Len(got[r][b]) + 1 .. c : Home(m) = i => m \in Len(got[r][b]) + 1 .. c - 1
      BY <1>1, <2>2
    <3>4. \A m \in Len(got[r][b]) + 1 .. c - 1 : m \in Len(got[r][b]) + 1 .. c
      BY <1>1
    <3> QED
      BY <3>1, <3>2, <3>3, <3>4
  <2> QED
    BY <2>1, <2>2
<1>6. ASSUME NEW i \in Positions PROVE bitmap'[r][i] \subseteq Dest(r)
  BY <1>3 DEF RingInv, PaxosTypeOK, MpsocTypeOK
<1>7. ASSUME NEW m \in 1 .. c, m > c - nb_msg
      PROVE  buf'[r][Home(m)] = Message(r, m)
  <2>1. CASE m = c
    BY <1>1, <1>3, <2>1 DEF PaxosTypeOK, MpsocTypeOK
  <2>2. CASE m # c
    <3>1. m \in Nat \ {0} /\ m < c /\ m \in 1 .. sent[r]
      BY <1>1, <2>2
    <3>2. Home(m) # here
      BY <1>1, <1>7, <3>1, HomeApart
    <3>3. Home(m) \in Positions
      BY <3>1, HomeIsPosition
    <3>4. buf'[r][Home(m)] = buf[r][Home(m)]
      BY <1>3, <3>2, <3>3 DEF PaxosTypeOK, MpsocTypeOK
    <3> QED
      BY <1>7, <3>1, <3>4 DEF RingInv
  <2> QED
    BY <2>1, <2>2
<1>8. RingInv(r)'
  <2>1. /\ claimed'[r] \in sent'[r] .. sent'[r] + 1
        /\ next_write'[r] = Home(claimed'[r] + 1)
        /\ claimed'[r] > sent'[r] => nw'[r] = Home(claimed'[r])
    BY <1>1, <1>3 DEF RingInv
  <2>2. \A b \in Dest(r) :
       /\ Len(got'[r][b]) <= sent'[r]
       /\ claimed'[r] <= Len(got'[r][b]) + nb_msg
       /\ next_read'[r][b] = Home(Len(got'[r][b]) + 1)
       /\ \A i \in 1 .. Len(got'[r][b]) : got'[r][b][i] = Message(r, i)
    <3>1. ASSUME NEW b \in Dest(r) PROVE Len(got[r][b]) <= c
      BY <1>1
    <3> QED
      BY <1>3, <3>1 DEF RingInv
  <2> QED
    BY <1>3, <1>5, <1>6, <1>7, <2>1, <2>2 DEF RingInv, Home, Message
<1> QED
  BY <1>3, <1>4, <1>8

(* A reader that takes the next message clears its bit where this message    *)
(* lives, and has no other message to read there.                           *)
LEMMA RecvRing ==
  ASSUME PaxosTypeOK, NEW r \in Rings, NEW b \in Dest(r), RingInv(r),
         Len(got[r][b]) < sent[r],
         RecvEnd(r, b, Message(r, Len(got[r][b]) + 1))
  PROVE  /\ RingInv(r)'
         /\ claimed' = claimed /\ sent' = sent
         /\ Len(got'[r][b]) = Len(got[r][b]) + 1
         /\ \A d \in Dest(r) \ {b} : got'[r][d] = got[r][d]
         /\ \A q \in Rings \ {r} : SameRing(q)
<1> DEFINE g == Len(got[r][b])
           here == Home(g + 1)
<1>1. /\ claimed[r] \in Nat /\ sent[r] \in Nat /\ g \in Nat /\ nb_msg \in Nat \ {0}
      /\ here \in Positions /\ b \in {0} \cup Learners
      /\ got[r][b] \in Seq(Messages \cup {Torn})
  <2>1. /\ claimed[r] \in Nat /\ sent[r] \in Nat /\ nb_msg \in Nat \ {0}
        /\ b \in {0} \cup Learners
    BY RingTypes, Names
  <2>2. g \in Nat /\ got[r][b] \in Seq(Messages \cup {Torn})
    BY <2>1, RingTypes
  <2>3. g + 1 \in Nat \ {0}
    BY <2>2
  <2> QED
    BY <2>1, <2>2, <2>3, HomeIsPosition
<1>2. next_read[r][b] = here /\ g < sent[r] /\ sent[r] <= claimed[r] /\ claimed[r] <= g + nb_msg
  BY <1>1 DEF RingInv
<1>3. /\ bitmap'[r] = [bitmap[r] EXCEPT ![here] = @ \ {b}]
      /\ next_read'[r] = [next_read[r] EXCEPT ![b] = NextPos(here)]
      /\ got'[r] = [got[r] EXCEPT ![b] = Append(@, Message(r, g + 1))]
      /\ UNCHANGED <<buf, next_write, nw, claimed, sent>>
  BY <1>1, <1>2 DEF RecvEnd, Remaining, PaxosTypeOK, MpsocTypeOK
<1>4. \A q \in Rings \ {r} : SameRing(q)
  BY DEF RecvEnd, SameRing, PaxosTypeOK, MpsocTypeOK
<1>5. /\ got'[r][b] = Append(got[r][b], Message(r, g + 1))
      /\ next_read'[r][b] = Home((g + 1) + 1)
      /\ \A d \in ({0} \cup Learners) \ {b} :
           got'[r][d] = got[r][d] /\ next_read'[r][d] = next_read[r][d]
  <2>1. NextPos(here) = Home((g + 1) + 1)
    BY <1>1, HomeNext
  <2>2. got[r] \in [{0} \cup Learners -> Seq(Messages \cup {Torn})]
        /\ next_read[r] \in [{0} \cup Learners -> Positions]
    BY DEF PaxosTypeOK, MpsocTypeOK
  <2> QED
    BY <1>1, <1>3, <2>1, <2>2
<1>6. /\ Len(got'[r][b]) = g + 1
      /\ got'[r][b][g + 1] = Message(r, g + 1)
      /\ \A i \in 1 .. g : got'[r][b][i] = got[r][b][i]
  BY <1>1, <1>5
<1>7. ASSUME NEW i \in Positions
      PROVE  b \in bitmap'[r][i] <=> \E m \in (g + 1) + 1 .. sent[r] : Home(m) = i
  <2>1. CASE i = here
    <3>1. b \notin bitmap'[r][i]
      BY <1>3, <2>1 DEF PaxosTypeOK, MpsocTypeOK
    <3>2. ASSUME NEW m \in (g + 1) + 1 .. sent[r] PROVE Home(m) # here
      <4>1. m \in Nat \ {0} /\ g + 1 \in Nat \ {0} /\ g + 1 < m /\ m < (g + 1) + nb_msg
        <5>1. m \in Nat /\ m >= (g + 1) + 1 /\ m <= sent[r]
          BY <1>1
        <5> HIDE DEF g, here
        <5> QED
          BY <1>1, <1>2, <5>1
      <4>2. Home(g + 1) = Home(m) => m >= (g + 1) + nb_msg
        BY <4>1, HomeApart
      <4> QED
        BY <1>1, <4>1, <4>2
    <3> QED
      BY <2>1, <3>1, <3>2
  <2>2. CASE i # here
    <3>1. bitmap'[r][i] = bitmap[r][i]
      BY <1>3, <2>2 DEF PaxosTypeOK, MpsocTypeOK
    <3>2. b \in bitmap[r][i] <=> \E m \in g + 1 .. sent[r] : Home(m) = i
      BY DEF RingInv
    <3>3. \A m \in g + 1 .. sent[r] : Home(m) = i => m \in (g + 1) + 1 .. sent[r]
      BY <1>1, <2>2
    <3>4. \A m \in (g + 1) + 1 .. sent[r] : m \in g + 1 .. sent[r]
      BY <1>1
    <3> QED
      BY <3>1, <3>2, <3>3, <3>4
  <2> QED
    BY <2>1, <2>2
<1>8. ASSUME NEW i \in Positions, NEW d \in Dest(r), d # b
      PROVE  d \in bitmap'[r][i] <=> d \in bitmap[r][i]
  BY <1>3, <1>8 DEF PaxosTypeOK, MpsocTypeOK
<1>9. ASSUME NEW i \in Positions PROVE bitmap'[r][i] \subseteq bitmap[r][i]
  BY <1>3 DEF PaxosTypeOK, MpsocTypeOK
<1>10. RingInv(r)'
  <2>1. /\ claimed'[r] \in sent'[r] .. sent'[r] + 1
        /\ next_write'[r] = Home(claimed'[r] + 1)
        /\ claimed'[r] > sent'[r] => nw'[r] = Home(claimed'[r])
    BY <1>3 DEF RingInv
  <2>2. ASSUME NEW d \in Dest(r)
        PROVE /\ Len(got'[r][d]) <= sent'[r]
              /\ claimed'[r] <= Len(got'[r][d]) + nb_msg
              /\ next_read'[r][d] = Home(Len(got'[r][d]) + 1)
              /\ \A i \in 1 .. Len(got'[r][d]) : got'[r][d][i] = Message(r, i)
    <3>1. CASE d = b
      <4>1. \A i \in 1 .. g : got[r][b][i] = Message(r, i)
        BY DEF RingInv
      <4>2. \A i \in 1 .. g + 1 : got'[r][b][i] = Message(r, i)
        <5>1. \A i \in 1 .. g + 1 : i \in 1 .. g \/ i = g + 1
          BY <1>1
        <5> HIDE DEF g, here
        <5> QED
          BY <1>6, <4>1, <5>1
      <4> QED
        BY <1>1, <1>2, <1>3, <1>5, <1>6, <3>1, <4>2
    <3>2. CASE d # b
      <4>1. got'[r][d] = got[r][d] /\ next_read'[r][d] = next_read[r][d]
        BY <1>5, <3>2, Names
      <4>2. /\ Len(got[r][d]) <= sent[r]
            /\ claimed[r] <= Len(got[r][d]) + nb_msg
            /\ next_read[r][d] = Home(Len(got[r][d]) + 1)
            /\ \A i \in 1 .. Len(got[r][d]) : got[r][d][i] = Message(r, i)
        BY DEF RingInv
      <4> QED
        BY <1>3, <4>1, <4>2
    <3> QED
      BY <3>1, <3>2
  <2>3. ASSUME NEW i \in Positions, NEW d \in Dest(r)
        PROVE  d \in bitmap'[r][i] <=> \E m \in Len(got'[r][d]) + 1 .. sent'[r] : Home(m) = i
    <3>1. CASE d = b
      BY <1>3, <1>6, <1>7, <3>1
    <3>2. CASE d # b
      <4>1. got'[r][d] = got[r][d]
        BY <1>5, <3>2, Names
      <4> QED
        BY <1>3, <1>8, <3>2, <4>1 DEF RingInv
    <3> QED
      BY <3>1, <3>2
  <2>4. \A i \in Positions : bitmap'[r][i] \subseteq Dest(r)
    BY <1>9 DEF RingInv
  <2>5. \A m \in 1 .. sent'[r] :
          m > claimed'[r] - nb_msg => buf'[r][Home(m)] = Message(r, m)
    BY <1>3 DEF RingInv
  <2> QED
    BY <2>1, <2>2, <2>3, <2>4, <2>5 DEF RingInv, Home, Message
<1>11. \A d \in Dest(r) \ {b} : got'[r][d] = got[r][d]
  BY <1>5, Names
<1> QED
  BY <1>3, <1>4, <1>6, <1>10, <1>11

(* The position after a position is one. *)
LEMMA NextPosition == ASSUME NEW i \in Positions PROVE NextPos(i) \in Positions
<1>1. i + 1 \in Nat /\ nb_msg \in Nat \ {0}
  BY PaxosAssumption DEF Positions
<1> QED
  BY <1>1, DivMod DEF NextPos, Positions

(* To allocate keeps the types of the rings. *)
LEMMA AllocTypes ==
  ASSUME PaxosTypeOK, NEW r \in Rings, mpsoc_alloc(r)
  PROVE  MpsocTypeOK'
<1> USE DEF PaxosTypeOK, MpsocTypeOK, mpsoc_alloc
<1>1. next_write[r] \in Positions /\ NextPos(next_write[r]) \in Positions
  BY NextPosition
<1>2. buf' \in [Rings -> [Positions -> Messages \cup {Torn}]]
  BY <1>1
<1>3. next_write' \in [Rings -> Positions] /\ nw' \in [Rings -> Positions]
  BY <1>1
<1>4. claimed' \in [Rings -> Nat]
  OBVIOUS
<1> QED
  BY <1>2, <1>3, <1>4

(* To send keeps them. *)
LEMMA SendTypes ==
  ASSUME PaxosTypeOK, NEW r \in Rings, NEW m \in Messages \cup {Torn},
         mpsoc_sendto(r, m, Dest(r))
  PROVE  MpsocTypeOK'
<1> USE DEF PaxosTypeOK, MpsocTypeOK, mpsoc_sendto
<1>1. buf' \in [Rings -> [Positions -> Messages \cup {Torn}]]
  OBVIOUS
<1>2. bitmap' \in [Rings -> [Positions -> SUBSET ({0} \cup Learners)]]
  BY Names
<1>3. sent' \in [Rings -> Nat]
  OBVIOUS
<1> QED
  BY <1>1, <1>2, <1>3

(* To receive keeps them. *)
LEMMA RecvTypes ==
  ASSUME PaxosTypeOK, NEW r \in Rings, NEW b \in {0} \cup Learners,
         NEW m \in Messages \cup {Torn}, RecvEnd(r, b, m)
  PROVE  MpsocTypeOK'
<1>1. next_read[r][b] \in Positions /\ NextPos(next_read[r][b]) \in Positions
  BY NextPosition DEF PaxosTypeOK, MpsocTypeOK
<1>2. bitmap' \in [Rings -> [Positions -> SUBSET ({0} \cup Learners)]]
  BY <1>1 DEF PaxosTypeOK, MpsocTypeOK, RecvEnd, Remaining
<1>3. next_read' \in [Rings -> [{0} \cup Learners -> Positions]]
  BY <1>1 DEF PaxosTypeOK, MpsocTypeOK, RecvEnd
<1>4. got' \in [Rings -> [{0} \cup Learners -> Seq(Messages \cup {Torn})]]
  <2>1. Append(got[r][b], m) \in Seq(Messages \cup {Torn})
    BY DEF PaxosTypeOK, MpsocTypeOK
  <2> QED
    BY <2>1 DEF PaxosTypeOK, MpsocTypeOK, RecvEnd
<1> QED
  BY <1>2, <1>3, <1>4 DEF PaxosTypeOK, MpsocTypeOK, RecvEnd

-----------------------------------------------------------------------------
(* The pipeline *)

(* How many messages node n has received *)
Taken(n) == Len(got[In(n)][CoreId(n)])

(* No process sends more than it received, and client 1 no more than its    *)
(* bound: so nothing is numbered beyond it.                                *)
LEMMA Chain ==
  ASSUME PaxosTypeOK, PipelineInv
  PROVE  /\ \A r \in Rings : sent[r] <= claimed[r] /\ claimed[r] <= MaxValues
         /\ \A n \in Nodes : Taken(n) \in Nat /\ Taken(n) <= sent[In(n)]
<1>1. ASSUME NEW r \in Rings
      PROVE  claimed[r] \in Nat /\ sent[r] \in Nat /\ sent[r] <= claimed[r]
  <2>1. claimed[r] \in Nat /\ sent[r] \in Nat
    BY RingTypes
  <2>2. claimed[r] \in sent[r] .. sent[r] + 1
    BY DEF PipelineInv, RingInv
  <2> QED
    BY <2>1, <2>2
<1>2. ASSUME NEW n \in Nodes
      PROVE  /\ Taken(n) \in Nat /\ Taken(n) <= sent[In(n)]
             /\ claimed[n] <= Taken(n) /\ n \in Rings /\ In(n) \in Rings
  <2>1. In(n) \in Rings /\ n \in Rings /\ CoreId(n) \in Dest(In(n)) /\ CoreId(n) \in {0} \cup Learners
    BY Names
  <2>2. Taken(n) \in Nat /\ Taken(n) <= sent[In(n)]
    BY <2>1, RingTypes DEF PipelineInv, RingInv, Taken
  <2>3. claimed[n] \in {Taken(n), Taken(n) - 1}
    BY DEF PipelineInv, NodeInv, Taken
  <2> QED
    BY <2>1, <2>2, <2>3
<1>3. claimed[Client1] <= MaxValues /\ MaxValues \in Nat /\ Client1 \in Rings
  BY PaxosAssumption, Names DEF PipelineInv, ClientInv, PaxosTypeOK
<1>4. claimed[0] <= MaxValues
  <2>1. In(0) = Client1 /\ 0 \in Nodes
    BY Names DEF In
  <2> QED
    BY <1>1, <1>2, <1>3, <2>1
<1>5. claimed[1] <= MaxValues
  <2>1. In(1) = 0 /\ 1 \in Nodes
    BY Names DEF In
  <2> QED
    BY <1>1, <1>2, <1>3, <1>4, <2>1
<1>6. ASSUME NEW l \in Learners PROVE claimed[l] <= MaxValues
  <2>1. In(l) = 1 /\ l \in Nodes
    BY Names DEF In
  <2> QED
    BY <1>1, <1>2, <1>3, <1>5, <2>1
<1>7. \A r \in Rings : r = Client1 \/ r = 0 \/ r = 1 \/ r \in Learners
  BY Names
<1> QED
  BY <1>1, <1>2, <1>3, <1>4, <1>5, <1>6, <1>7

(* A node that a step leaves where it was, while its ring may get longer. *)
LEMMA NodeFrame ==
  ASSUME NEW n \in Nodes, NodeInv(n), claimed'[n] = claimed[n],
         sent[In(n)] \in Nat, sent'[In(n)] \in Nat, sent'[In(n)] >= sent[In(n)],
         Taken(n) \in Nat,
         got'[In(n)][CoreId(n)] = got[In(n)][CoreId(n)],
         pc'[n] = pc[n], msg'[n] = msg[n],
         n = 0 => last_instance_number' = last_instance_number,
         n # 0 => last_proposal'[n] = last_proposal[n]
  PROVE  NodeInv(n)'
BY DEF NodeInv, Taken, Message, In, CoreId

(* The same for the clients. *)
LEMMA ClientFrame ==
  ASSUME PaxosTypeOK, PipelineInv, claimed'[Client1] = claimed[Client1],
         value' = value, poll' = poll, expected_value' = expected_value,
         pc'[Client0] = pc[Client0], msg'[Client0] = msg[Client0],
         pc'[Client1] = "fill" => pc[Client1] = "fill",
         msg'[Client1] = msg[Client1],
         \A l \in Learners : /\ got'[l][0] = got[l][0]
                             /\ sent'[l] \in Nat /\ sent'[l] >= sent[l]
  PROVE  ClientInv'
<1>1. poll \in Learners /\ poll \in Rings
  BY Names DEF PaxosTypeOK
<1>2. sent[poll] \in Nat /\ Len(got[poll][0]) \in Nat
  BY <1>1, RingTypes
<1>3. pc'[Client0] = "copy" =>
        /\ Len(got'[poll][0]) < sent'[poll]
        /\ msg'[Client0] = Message(poll, Len(got'[poll][0]) + 1)
  BY <1>1, <1>2 DEF PipelineInv, ClientInv
<1> QED
  BY <1>3 DEF PipelineInv, ClientInv, Message

-----------------------------------------------------------------------------
(* Init and the actions keep the types and the pipeline *)

Inv == PaxosTypeOK /\ PipelineInv

(* The programs start with empty rings and nothing received. *)
LEMMA InitInv == Init => Inv
<1> SUFFICES ASSUME Init PROVE Inv
  OBVIOUS
<1> USE DEF Init, MpsocInit
<1>1. 0 \in Positions /\ nb_msg \in Nat \ {0}
  BY PaxosAssumption DEF Positions
<1>2. MpsocTypeOK
  BY <1>1 DEF MpsocTypeOK
<1>3. PaxosTypeOK
  BY <1>2, PaxosAssumption, Names DEF PaxosTypeOK
<1>4. Home(0 + 1) = 0
  BY <1>1, SmallIndex DEF Home
<1>5. ASSUME NEW r \in Rings PROVE RingInv(r)
  <2>1. /\ claimed[r] = 0 /\ sent[r] = 0 /\ next_write[r] = 0
        /\ \A i \in Positions : bitmap[r][i] = {}
        /\ \A b \in Dest(r) : got[r][b] = <<>> /\ next_read[r][b] = 0
    BY Names
  <2>2. \A b \in Dest(r) : Len(got[r][b]) = 0 /\ next_read[r][b] = 0
    BY <2>1
  <2> HIDE DEF Init, MpsocInit
  <2>3. /\ claimed[r] \in sent[r] .. sent[r] + 1
        /\ next_write[r] = Home(claimed[r] + 1)
        /\ ~ (claimed[r] > sent[r])
    BY <1>4, <2>1
  <2>4. ASSUME NEW b \in Dest(r)
        PROVE  /\ Len(got[r][b]) <= sent[r]
               /\ claimed[r] <= Len(got[r][b]) + nb_msg
               /\ next_read[r][b] = Home(Len(got[r][b]) + 1)
               /\ 1 .. Len(got[r][b]) = {}
               /\ Len(got[r][b]) + 1 .. sent[r] = {}
    BY <1>1, <1>4, <2>1, <2>2
  <2>5. 1 .. sent[r] = {}
    BY <2>1
  <2> QED
    BY <2>1, <2>3, <2>4, <2>5 DEF RingInv
<1>6. ASSUME NEW r \in Rings PROVE pc[r] = "fill" <=> claimed[r] > sent[r]
  BY Names
<1>7. ASSUME NEW n \in Nodes PROVE NodeInv(n)
  <2>1. In(n) \in Rings /\ CoreId(n) \in {0} \cup Learners /\ n \in Rings /\ n # Client1
        /\ n \in Processes
    BY Names
  <2>2. Len(got[In(n)][CoreId(n)]) = 0 /\ claimed[n] = 0 /\ pc[n] = "recv"
    BY <2>1
  <2>3. n # 0 => last_proposal[n] = [instance |-> 0, value |-> 0]
    OBVIOUS
  <2> QED
    BY <2>2, <2>3 DEF NodeInv
<1>8. ClientInv
  <2>1. /\ Client1 \in Rings /\ Client1 \in Processes /\ Client0 \in Processes
        /\ Client1 # Client0 /\ 2 \in Learners /\ Learners \subseteq Rings
    BY Names
  <2>2. pc[Client1] = "alloc" /\ pc[Client0] = "recv" /\ claimed[Client1] = value
    BY <2>1
  <2>3. expected_value = 1 /\ \A l \in Learners : Len(got[l][0]) = 0
    BY <2>1
  <2> QED
    BY <2>1, <2>2, <2>3 DEF ClientInv
<1> QED
  BY <1>3, <1>5, <1>6, <1>7, <1>8 DEF Inv, PipelineInv

(* A node finds a message: it is the next one. *)
LEMMA ReceiveInv ==
  ASSUME Inv, NEW n \in Nodes, Receive(n)
  PROVE  Inv'
<1> USE DEF Inv
<1>1. n \in Rings /\ In(n) \in Rings /\ CoreId(n) \in Dest(In(n)) /\ n # Client1 /\ n # Client0
      /\ n \in Processes /\ CoreId(n) \in {0} \cup Learners
  BY NodeNames
<1>2. Taken(n) < sent[In(n)] /\ NextMessage(In(n), CoreId(n)) = Message(In(n), Taken(n) + 1)
  BY <1>1, FindsNext DEF Receive, PipelineInv, Taken
<1>3. UNCHANGED <<rings, value, last_instance_number, last_proposal, expected_value, poll>>
  BY DEF Receive
<1>4. /\ pc' = [pc EXCEPT ![n] = "copy"] /\ pc[n] = "recv"
      /\ msg' = [msg EXCEPT ![n] = NextMessage(In(n), CoreId(n))]
  BY DEF Receive
<1>5. PaxosTypeOK'
  <2>1. NextMessage(In(n), CoreId(n)) \in Messages \cup {Torn}
    BY <1>1, RingTypes DEF NextMessage
  <2>2. MpsocTypeOK'
    BY <1>3 DEF PaxosTypeOK, MpsocTypeOK, rings
  <2> QED
    BY <1>3, <1>4, <2>1, <2>2 DEF PaxosTypeOK
<1>6. ASSUME NEW r \in Rings PROVE RingInv(r)'
  BY <1>3, SameRingInv DEF PipelineInv, SameRing, rings
<1>7. ASSUME NEW r \in Rings PROVE pc'[r] = "fill" <=> claimed'[r] > sent'[r]
  BY <1>3, <1>4 DEF PipelineInv, PaxosTypeOK, rings
<1>8. ASSUME NEW k \in Nodes PROVE NodeInv(k)'
  <2>1. CASE k = n
    <3>1. pc'[n] = "copy" /\ msg'[n] = Message(In(n), Taken(n) + 1)
      BY <1>1, <1>2, <1>4 DEF PaxosTypeOK
    <3>2. NodeInv(n)
      BY DEF PipelineInv
    <3>3. pc[n] = "recv"
      BY <1>4
    <3> QED
      BY <1>2, <1>3, <2>1, <3>1, <3>2, <3>3 DEF NodeInv, Taken, Message, rings, In, CoreId
  <2>2. CASE k # n
    <3>1. pc'[k] = pc[k] /\ msg'[k] = msg[k]
      BY <1>4, <2>2
    <3>2. sent[In(k)] \in Nat /\ Taken(k) \in Nat
      BY Names, RingTypes, Chain
    <3> QED
      BY <1>3, <3>1, <3>2, NodeFrame DEF PipelineInv, rings
  <2> QED
    BY <2>1, <2>2
<1>9. ClientInv'
  <2>1. pc'[Client0] = pc[Client0] /\ pc'[Client1] = pc[Client1]
        /\ msg'[Client0] = msg[Client0] /\ msg'[Client1] = msg[Client1]
    BY <1>1, <1>4
  <2>2. \A l \in Learners : sent'[l] \in Nat /\ sent'[l] = sent[l] /\ got'[l][0] = got[l][0]
    BY <1>3, Names, RingTypes DEF rings
  <2> QED
    BY <1>3, <2>1, <2>2, ClientFrame DEF rings
<1> QED
  BY <1>5, <1>6, <1>7, <1>8, <1>9 DEF PipelineInv

(* A node takes its message and prepares the one that it will send: what is  *)
(* common to the three handlers.                                           *)
LEMMA HandlerInv ==
  ASSUME Inv, NEW n \in Nodes, NEW m, Received(n, m),
         Taken(n) < sent[In(n)] /\ msg[n] = Message(In(n), Taken(n) + 1)
           => m = Message(n, Taken(n) + 1),
         last_instance_number' =
           IF n = 0 THEN last_instance_number + 1 ELSE last_instance_number,
         last_proposal' =
           IF n = 0 THEN last_proposal ELSE [last_proposal EXCEPT ![n] = msg[n]],
         n = 1 => In(n) = 0, n \in Learners => In(n) = 1
  PROVE  Inv'
<1> USE DEF Inv
<1> DEFINE r == In(n)
           b == CoreId(n)
           g == Taken(n)
<1>1. n \in Rings /\ r \in Rings /\ b \in Dest(r) /\ n # Client1 /\ n # Client0
      /\ n \in Processes /\ b \in {0} \cup Learners /\ r \notin Learners /\ r # n
  BY NodeNames
<1>2. /\ g \in Nat /\ g < sent[r] /\ sent[r] <= claimed[r] /\ claimed[r] <= MaxValues
      /\ msg[n] = Message(r, g + 1) /\ m = Message(n, g + 1) /\ claimed[n] = g
      /\ n = 0 => last_instance_number = g
  <2>1. NodeInv(n) /\ pc[n] = "copy"
    BY DEF PipelineInv, Received
  <2>2. g < sent[r] /\ msg[n] = Message(r, g + 1) /\ claimed[n] = g
        /\ (n = 0 => last_instance_number = g)
    BY <2>1 DEF NodeInv, Taken
  <2> QED
    BY <1>1, <2>2, Chain
<1>3. RecvEnd(r, b, msg[n])
  BY DEF Received
<1>4. /\ RingInv(r)' /\ claimed' = claimed /\ sent' = sent
      /\ Len(got'[r][b]) = g + 1
      /\ \A d \in Dest(r) \ {b} : got'[r][d] = got[r][d]
      /\ \A q \in Rings \ {r} : SameRing(q)
  BY <1>1, <1>2, <1>3, RecvRing DEF PipelineInv, Taken
<1>5. /\ msg' = [msg EXCEPT ![n] = m] /\ pc' = [pc EXCEPT ![n] = "alloc"] /\ pc[n] = "copy"
      /\ UNCHANGED <<value, expected_value, poll>>
  BY DEF Received
<1>6. PaxosTypeOK'
  <2>1. MpsocTypeOK'
    BY <1>1, <1>3, RecvTypes DEF PaxosTypeOK
  <2>2. g + 1 \in 1 .. MaxValues /\ 0 \in 0 .. MaxValues /\ g + 1 \in 0 .. MaxValues
    <3>1. MaxValues \in Nat /\ sent[r] \in Nat /\ claimed[r] \in Nat
      BY <1>1, RingTypes, PaxosAssumption
    <3> QED
      BY <1>2, <3>1
  <2>3. m \in Messages
    BY <1>2, <2>2 DEF Message, Messages
  <2>4. msg' \in [Processes -> Messages \cup {Torn}]
        /\ pc' \in [Processes -> {"recv", "copy", "alloc", "fill", "done"}]
    BY <1>1, <1>5, <2>3 DEF PaxosTypeOK
  <2>5. last_instance_number' \in 0 .. MaxValues
    BY <1>2, <2>2 DEF PaxosTypeOK
  <2>6. last_proposal' \in [Nodes \ {0} -> [instance : 0 .. MaxValues, value : 0 .. MaxValues]]
    <3>1. msg[n] \in [instance : 0 .. MaxValues, value : 0 .. MaxValues]
      BY <1>2, <2>2 DEF Message
    <3> QED
      BY <3>1 DEF PaxosTypeOK
  <2> QED
    BY <1>5, <2>1, <2>4, <2>5, <2>6 DEF PaxosTypeOK
<1>7. ASSUME NEW q \in Rings PROVE RingInv(q)'
  BY <1>4, SameRingInv DEF PipelineInv
<1>8. ASSUME NEW q \in Rings PROVE pc'[q] = "fill" <=> claimed'[q] > sent'[q]
  BY <1>1, <1>4, <1>5 DEF PipelineInv, PaxosTypeOK
<1>9. ASSUME NEW k \in Nodes PROVE NodeInv(k)'
  <2>1. CASE k = n
    <3>1. pc'[n] = "alloc" /\ msg'[n] = Message(n, g + 1)
      BY <1>1, <1>2, <1>5 DEF PaxosTypeOK
    <3>2. n = 0 => last_instance_number' = g + 1
      BY <1>2
    <3>3. n # 0 => last_proposal'[n] = [instance |-> g + 1, value |-> g + 1]
      <4>1. n # 0 => r \in {0, 1}
        BY Names
      <4> QED
        BY <1>2, <4>1 DEF Message, PaxosTypeOK
    <3>4. claimed'[n] = Len(got'[r][b]) - 1
      BY <1>2, <1>4
    <3> QED
      BY <1>4, <2>1, <3>1, <3>2, <3>3, <3>4 DEF NodeInv, Message, In, CoreId
  <2>2. CASE k # n
    <3>1. pc'[k] = pc[k] /\ msg'[k] = msg[k]
      BY <1>5, <2>2
    <3>2. sent[In(k)] \in Nat /\ Taken(k) \in Nat
      BY Names, RingTypes, Chain
    <3>3. got'[In(k)][CoreId(k)] = got[In(k)][CoreId(k)]
      <4>1. CASE In(k) = r
        <5>1. CoreId(k) # b /\ CoreId(k) \in Dest(r)
          BY <2>2, <4>1, Names
        <5> QED
          BY <1>4, <4>1, <5>1
      <4>2. CASE In(k) # r
        BY <1>4, <4>2, Names DEF SameRing
      <4> QED
        BY <4>1, <4>2
    <3>4. /\ k = 0 => last_instance_number' = last_instance_number
          /\ k # 0 => last_proposal'[k] = last_proposal[k]
      BY <2>2 DEF PaxosTypeOK
    <3> QED
      BY <1>4, <3>1, <3>2, <3>3, <3>4, NodeFrame DEF PipelineInv
  <2> QED
    BY <2>1, <2>2
<1>10. ClientInv'
  <2>1. pc'[Client0] = pc[Client0] /\ pc'[Client1] = pc[Client1]
        /\ msg'[Client0] = msg[Client0] /\ msg'[Client1] = msg[Client1]
    BY <1>1, <1>5
  <2>2. \A l \in Learners : sent'[l] \in Nat /\ sent'[l] = sent[l] /\ got'[l][0] = got[l][0]
    BY <1>1, <1>4, Names, RingTypes DEF SameRing
  <2> QED
    BY <1>4, <1>5, <2>1, <2>2, ClientFrame
<1> QED
  BY <1>6, <1>7, <1>8, <1>9, <1>10 DEF PipelineInv

(* The leader numbers what it got from client 1; the number is the count.   *)
LEMMA RequestInv == ASSUME Inv, handle_request PROVE Inv'
<1> DEFINE m == [instance |-> last_instance_number + 1, value |-> msg[0].value]
<1>1. 0 \in Nodes /\ 0 \notin Learners /\ In(0) = Client1 /\ Client1 \notin {0, 1} /\ 0 # 1
  BY Names DEF In
<1>2. last_instance_number = Taken(0)
  BY <1>1 DEF Inv, PipelineInv, NodeInv, Taken
<1>3. msg[0] = Message(In(0), Taken(0) + 1) => m = Message(0, Taken(0) + 1)
  BY <1>1, <1>2 DEF Message
<1>4. /\ Received(0, m)
      /\ last_instance_number' = last_instance_number + 1 /\ last_proposal' = last_proposal
  BY DEF handle_request
<1> HIDE DEF m
<1> QED
  BY <1>1, <1>3, <1>4, HandlerInv

(* The acceptor passes on what it accepted. *)
LEMMA AcceptInv == ASSUME Inv, handle_accept_req PROVE Inv'
<1> DEFINE m == msg[1]
<1>1. 1 \in Nodes /\ 1 \notin Learners /\ In(1) = 0 /\ 0 # 1
  BY Names DEF In
<1>2. msg[1] = Message(In(1), Taken(1) + 1) => m = Message(1, Taken(1) + 1)
  BY <1>1 DEF Message
<1>3. /\ Received(1, m)
      /\ last_proposal' = [last_proposal EXCEPT ![1] = msg[1]]
      /\ last_instance_number' = last_instance_number
  BY DEF handle_accept_req
<1> HIDE DEF m
<1> QED
  BY <1>1, <1>2, <1>3, HandlerInv

(* A learner answers with the value it learnt. *)
LEMMA LearnInv == ASSUME Inv, NEW l \in Learners, handle_learn(l) PROVE Inv'
<1> DEFINE m == [instance |-> 0, value |-> msg[l].value]
<1>1. l \in Nodes /\ l # 0 /\ l # 1 /\ In(l) = 1
  BY Names DEF In
<1>2. msg[l] = Message(In(l), Taken(l) + 1) => m = Message(l, Taken(l) + 1)
  BY <1>1 DEF Message
<1>3. /\ Received(l, m)
      /\ last_proposal' = [last_proposal EXCEPT ![l] = msg[l]]
      /\ last_instance_number' = last_instance_number
  BY DEF handle_learn
<1> HIDE DEF m
<1> QED
  BY <1>1, <1>2, <1>3, HandlerInv

(* A process gets a slot for the message that is one more than it has sent. *)
LEMMA NewMessageInv == ASSUME Inv, NEW p \in Rings, NewMessage(p) PROVE Inv'
<1> USE DEF Inv
<1>1. /\ pc[p] = "alloc" /\ pc' = [pc EXCEPT ![p] = "fill"]
      /\ UNCHANGED <<last_instance_number, last_proposal, expected_value, poll>>
      /\ mpsoc_alloc(p)
  BY DEF NewMessage
<1>2. p \in Processes /\ p # Client0 /\ claimed[p] = sent[p] /\ claimed[p] \in Nat
  <2>1. p \in Processes /\ p # Client0 /\ claimed[p] \in Nat /\ sent[p] \in Nat
    BY Names, RingTypes
  <2>2. claimed[p] \in sent[p] .. sent[p] + 1 /\ ~ (claimed[p] > sent[p])
    BY <1>1 DEF PipelineInv, RingInv
  <2> QED
    BY <2>1, <2>2
<1>3. /\ RingInv(p)' /\ claimed'[p] = claimed[p] + 1 /\ sent' = sent /\ got' = got
      /\ \A q \in Rings \ {p} : SameRing(q)
  BY <1>1, <1>2, AllocRing DEF PipelineInv
<1>4. /\ p = Client1 => /\ value' = value + 1 /\ value' \in 1 .. MaxValues
                        /\ msg' = [msg EXCEPT ![p] = [instance |-> 0, value |-> value + 1]]
      /\ p # Client1 => value' = value /\ msg' = msg
  BY PaxosAssumption DEF NewMessage, PaxosTypeOK
<1>5. PaxosTypeOK'
  <2>1. MpsocTypeOK'
    BY <1>1, AllocTypes
  <2>2. value' \in 0 .. MaxValues
    BY <1>4 DEF PaxosTypeOK
  <2>3. msg' \in [Processes -> Messages \cup {Torn}]
    <3>1. CASE p = Client1
      <4>1. [instance |-> 0, value |-> value + 1] \in Messages
        BY <1>4, <3>1, PaxosAssumption DEF Messages
      <4> QED
        BY <1>4, <3>1, <4>1 DEF PaxosTypeOK
    <3>2. CASE p # Client1
      BY <1>4, <3>2 DEF PaxosTypeOK
    <3> QED
      BY <3>1, <3>2
  <2> QED
    BY <1>1, <2>1, <2>2, <2>3 DEF PaxosTypeOK
<1>6. ASSUME NEW q \in Rings PROVE RingInv(q)'
  BY <1>3, SameRingInv DEF PipelineInv
<1>7. ASSUME NEW q \in Rings PROVE pc'[q] = "fill" <=> claimed'[q] > sent'[q]
  <2>1. CASE q = p
    BY <1>1, <1>2, <1>3, <2>1 DEF PaxosTypeOK
  <2>2. CASE q # p
    BY <1>1, <1>3, <2>2 DEF PipelineInv, SameRing
  <2> QED
    BY <2>1, <2>2
<1>8. ASSUME NEW k \in Nodes PROVE NodeInv(k)'
  <2>1. k \in Rings /\ k # Client1 /\ sent[In(k)] \in Nat /\ Taken(k) \in Nat
        /\ NodeInv(k) /\ claimed[k] \in Nat
    BY NodeNames, RingTypes, Chain DEF PipelineInv
  <2>2. CASE k = p
    <3>1. pc'[k] = "fill" /\ msg'[k] = msg[k] /\ pc[k] = "alloc"
      BY <1>1, <1>2, <1>4, <2>1, <2>2 DEF PaxosTypeOK
    <3>2. claimed[k] = Taken(k) - 1 /\ claimed'[k] = Taken(k)
      BY <1>2, <1>3, <2>1, <2>2, <3>1 DEF NodeInv, Taken
    <3> QED
      BY <1>1, <1>3, <2>1, <3>1, <3>2 DEF NodeInv, Taken, Message, In, CoreId
  <2>3. CASE k # p
    <3>1. pc'[k] = pc[k] /\ claimed'[k] = claimed[k]
      BY <1>1, <1>3, <2>1, <2>3 DEF SameRing
    <3>2. msg'[k] = msg[k]
      BY <1>4, <2>1, <2>3, NodeNames DEF PaxosTypeOK
    <3> QED
      BY <1>1, <1>3, <2>1, <3>1, <3>2, NodeFrame
  <2> QED
    BY <2>2, <2>3
<1>9. ClientInv'
  <2>1. \A l \in Learners : sent'[l] \in Nat /\ sent'[l] = sent[l] /\ got'[l][0] = got[l][0]
    BY <1>3, Names, RingTypes
  <2>2. pc'[Client0] = pc[Client0] /\ msg'[Client0] = msg[Client0]
    <3>1. p = Client1 => msg'[Client0] = msg[Client0]
      BY <1>2, <1>4, Names DEF PaxosTypeOK
    <3> QED
      BY <1>1, <1>2, <1>4, <3>1
  <2>3. CASE p = Client1
    <3>1. /\ claimed'[Client1] = value'
          /\ msg'[Client1] = Message(Client1, value')
      <4>1. Client1 \notin {0, 1} /\ Client1 \in Processes
        BY Names
      <4>2. claimed[Client1] = value
        BY DEF PipelineInv, ClientInv
      <4> QED
        BY <1>3, <1>4, <2>3, <4>1, <4>2 DEF Message, PaxosTypeOK
    <3>2. poll \in Learners
      BY DEF PaxosTypeOK
    <3> QED
      BY <1>1, <1>3, <2>2, <3>1, <3>2 DEF PipelineInv, ClientInv, Message
  <2>4. CASE p # Client1
    <3>1. Client1 \in Rings
      BY Names
    <3>2. /\ claimed'[Client1] = claimed[Client1] /\ value' = value
          /\ pc'[Client1] = pc[Client1] /\ msg'[Client1] = msg[Client1]
      BY <1>1, <1>3, <1>4, <2>4, <3>1 DEF SameRing
    <3> QED
      BY <1>1, <2>1, <2>2, <3>2, ClientFrame
  <2> QED
    BY <2>3, <2>4
<1> QED
  BY <1>5, <1>6, <1>7, <1>8, <1>9 DEF PipelineInv

(* What a process sends is the next message of its ring. *)
LEMMA SendInv == ASSUME Inv, NEW p \in Rings, Send(p) PROVE Inv'
<1> USE DEF Inv
<1>1. /\ pc[p] = "fill" /\ pc' = [pc EXCEPT ![p] = IF p = Client1 THEN "alloc" ELSE "recv"]
      /\ UNCHANGED <<msg, value, last_instance_number, last_proposal, expected_value, poll>>
      /\ mpsoc_sendto(p, msg[p], Dest(p))
  BY DEF Send
<1>2. p \in Processes /\ p # Client0 /\ claimed[p] > sent[p]
      /\ claimed[p] \in Nat /\ sent[p] \in Nat
  BY <1>1, Names, RingTypes DEF PipelineInv
<1>3. msg[p] = Message(p, claimed[p])
  <2>1. CASE p \in Nodes
    BY <1>1, <2>1 DEF PipelineInv, NodeInv
  <2>2. CASE p = Client1
    BY <1>1, <2>2 DEF PipelineInv, ClientInv
  <2> QED
    BY <2>1, <2>2, Names
<1>4. /\ RingInv(p)' /\ claimed' = claimed /\ sent'[p] = claimed[p] /\ got' = got
      /\ \A q \in Rings \ {p} : SameRing(q)
  BY <1>1, <1>2, <1>3, SendRing DEF PipelineInv
<1>5. PaxosTypeOK'
  <2>1. msg[p] \in Messages \cup {Torn}
    BY <1>2 DEF PaxosTypeOK
  <2>2. MpsocTypeOK'
    BY <1>1, <2>1, SendTypes
  <2> QED
    BY <1>1, <2>2 DEF PaxosTypeOK
<1>6. ASSUME NEW q \in Rings PROVE RingInv(q)'
  BY <1>4, SameRingInv DEF PipelineInv
<1>7. ASSUME NEW q \in Rings PROVE pc'[q] = "fill" <=> claimed'[q] > sent'[q]
  <2>1. CASE q = p
    BY <1>1, <1>2, <1>4, <2>1 DEF PaxosTypeOK
  <2>2. CASE q # p
    BY <1>1, <1>4, <2>2 DEF PipelineInv, SameRing
  <2> QED
    BY <2>1, <2>2
<1>8. ASSUME NEW q \in Rings PROVE sent'[q] \in Nat /\ sent'[q] >= sent[q]
  <2>1. sent[q] \in Nat
    BY RingTypes
  <2>2. CASE q = p
    BY <1>2, <1>4, <2>2
  <2>3. CASE q # p
    BY <1>4, <2>1, <2>3 DEF SameRing
  <2> QED
    BY <2>2, <2>3
<1>9. ASSUME NEW k \in Nodes PROVE NodeInv(k)'
  <2>1. k \in Rings /\ k # Client1 /\ In(k) \in Rings /\ sent[In(k)] \in Nat
        /\ Taken(k) \in Nat /\ NodeInv(k) /\ claimed[k] \in Nat
    BY NodeNames, RingTypes, Chain DEF PipelineInv
  <2>2. CASE k = p
    <3>1. pc'[k] = "recv" /\ pc[k] = "fill"
      BY <1>1, <1>2, <2>1, <2>2 DEF PaxosTypeOK
    <3> QED
      BY <1>1, <1>4, <2>1, <3>1 DEF NodeInv, Message, In, CoreId
  <2>3. CASE k # p
    <3>1. pc'[k] = pc[k]
      BY <1>1, <2>3
    <3> QED
      BY <1>1, <1>4, <1>8, <2>1, <3>1, NodeFrame
  <2> QED
    BY <2>2, <2>3
<1>10. ClientInv'
  <2>1. \A l \in Learners : sent'[l] \in Nat /\ sent'[l] >= sent[l] /\ got'[l][0] = got[l][0]
    BY <1>4, <1>8, Names
  <2>2. pc'[Client0] = pc[Client0] /\ (pc'[Client1] = "fill" => pc[Client1] = "fill")
    BY <1>1, <1>2, Names DEF PaxosTypeOK
  <2> QED
    BY <1>1, <1>4, <2>1, <2>2, ClientFrame
<1> QED
  BY <1>5, <1>6, <1>7, <1>9, <1>10 DEF PipelineInv

-----------------------------------------------------------------------------
(* Client 0 *)

(* It tests one ring, and goes on to the next or finds the next answer. *)
LEMMA PollInv == ASSUME Inv, Poll PROVE Inv'
<1> USE DEF Inv
<1>1. /\ pc[Client0] = "recv"
      /\ UNCHANGED <<rings, value, last_instance_number, last_proposal, expected_value>>
  BY DEF Poll
<1>2. poll \in Learners /\ poll \in Rings /\ Dest(poll) = {0} /\ Client0 \notin Rings
      /\ Client0 \notin Nodes /\ Client0 \in Processes /\ Client1 # Client0
  BY Names DEF PaxosTypeOK
<1>3. \/ /\ HasMessage(poll, 0)
         /\ msg' = [msg EXCEPT ![Client0] = NextMessage(poll, 0)]
         /\ pc' = [pc EXCEPT ![Client0] = "copy"]
         /\ poll' = poll
      \/ poll' = NextLearner(poll) /\ msg' = msg /\ pc' = pc
  BY DEF Poll
<1>4. NextLearner(poll) \in Learners
  BY <1>2, PaxosAssumption DEF NextLearner, Learners
<1>5. HasMessage(poll, 0) =>
        /\ Len(got[poll][0]) < sent[poll]
        /\ NextMessage(poll, 0) = Message(poll, Len(got[poll][0]) + 1)
  BY <1>2, FindsNext DEF PipelineInv
<1>6. PaxosTypeOK'
  <2>1. NextMessage(poll, 0) \in Messages \cup {Torn}
    BY <1>2, RingTypes DEF NextMessage
  <2>2. MpsocTypeOK'
    BY <1>1 DEF PaxosTypeOK, MpsocTypeOK, rings
  <2> QED
    BY <1>1, <1>2, <1>3, <1>4, <2>1, <2>2 DEF PaxosTypeOK
<1>7. ASSUME NEW r \in Rings PROVE RingInv(r)'
  BY <1>1, SameRingInv DEF PipelineInv, SameRing, rings
<1>8. ASSUME NEW p \in Rings PROVE pc'[p] = pc[p] /\ msg'[p] = msg[p]
  <2>1. p # Client0 /\ p \in Processes
    BY <1>2, Names
  <2> QED
    BY <1>3, <2>1 DEF PaxosTypeOK
<1>9. ASSUME NEW r \in Rings PROVE pc'[r] = "fill" <=> claimed'[r] > sent'[r]
  BY <1>1, <1>8 DEF PipelineInv, rings
<1>10. ASSUME NEW k \in Nodes PROVE NodeInv(k)'
  <2>1. k \in Rings /\ sent[In(k)] \in Nat /\ Taken(k) \in Nat
    BY NodeNames, RingTypes, Chain
  <2> QED
    BY <1>1, <1>8, <2>1, NodeFrame DEF PipelineInv, rings
<1>11. ClientInv'
  <2>1. pc'[Client0] = "copy" =>
          /\ Len(got'[poll'][0]) < sent'[poll']
          /\ msg'[Client0] = Message(poll', Len(got'[poll'][0]) + 1)
    BY <1>1, <1>2, <1>3, <1>5 DEF PaxosTypeOK, rings
  <2>2. pc'[Client1] = pc[Client1] /\ msg'[Client1] = msg[Client1]
    BY <1>8, Names
  <2> QED
    BY <1>1, <2>1, <2>2 DEF PipelineInv, ClientInv, rings, Message
<1> QED
  BY <1>6, <1>7, <1>9, <1>10, <1>11 DEF PipelineInv

(* It counts an answer if no other learner has answered as much. *)
LEMMA ResponseInv == ASSUME Inv, Response PROVE Inv'
<1> USE DEF Inv
<1> PICK l \in Learners : l = poll
  BY DEF PaxosTypeOK
<1> DEFINE g == Len(got[l][0])
           next == IF handle_response(msg[Client0]) THEN expected_value + 1 ELSE expected_value
<1>1. /\ pc[Client0] = "copy" /\ RecvEnd(l, 0, msg[Client0])
      /\ expected_value' = next /\ poll' = 2
      /\ pc' = [pc EXCEPT ![Client0] = IF next > nb_iter THEN "done" ELSE "recv"]
      /\ UNCHANGED <<msg, value, last_instance_number, last_proposal>>
  BY DEF Response
<1>2. /\ l \in Rings /\ Dest(l) = {0} /\ l # 0 /\ l # 1
      /\ Client0 \notin Rings /\ Client0 \in Processes
  BY Names DEF PaxosTypeOK
<1>3. g < sent[l] /\ msg[Client0] = Message(l, g + 1)
  BY <1>1 DEF PipelineInv, ClientInv
<1>4. g \in Nat /\ g + 1 <= MaxValues /\ g <= expected_value - 1
      /\ expected_value \in Nat /\ MaxValues \in Nat
  <2>1. g \in Nat /\ sent[l] \in Nat /\ claimed[l] \in Nat /\ MaxValues \in Nat
    BY <1>2, RingTypes, PaxosAssumption
  <2>2. sent[l] <= claimed[l] /\ claimed[l] <= MaxValues
    BY <1>2, Chain
  <2>3. g <= expected_value - 1
    BY <1>2 DEF PipelineInv, ClientInv
  <2>4. expected_value \in 1 .. MaxValues + 1
    BY DEF PaxosTypeOK
  <2> QED
    BY <1>3, <2>1, <2>2, <2>3, <2>4
<1>5. next = IF g + 1 = expected_value THEN expected_value + 1 ELSE expected_value
  BY <1>2, <1>3 DEF Message, handle_response
<1> HIDE DEF next
<1>6. /\ RingInv(l)' /\ claimed' = claimed /\ sent' = sent
      /\ Len(got'[l][0]) = g + 1
      /\ \A q \in Rings \ {l} : SameRing(q)
  <2>1. RecvEnd(l, 0, Message(l, Len(got[l][0]) + 1))
    BY <1>1, <1>3
  <2>2. 0 \in Dest(l) /\ RingInv(l)
    BY <1>2 DEF PipelineInv
  <2>3. Len(got[l][0]) < sent[l]
    BY <1>3
  <2> QED
    BY <1>2, <2>1, <2>2, <2>3, RecvRing
<1>7. PaxosTypeOK'
  <2>1. msg[Client0] \in Messages \cup {Torn} /\ 2 \in Learners
    BY <1>2, Names DEF PaxosTypeOK
  <2>2. MpsocTypeOK'
    BY <1>1, <1>2, <2>1, RecvTypes
  <2>3. expected_value' \in 1 .. MaxValues + 1
    BY <1>1, <1>4, <1>5 DEF PaxosTypeOK
  <2> QED
    BY <1>1, <2>1, <2>2, <2>3 DEF PaxosTypeOK
<1>8. ASSUME NEW r \in Rings PROVE RingInv(r)'
  <2>1. CASE r = l
    BY <1>6, <2>1 DEF RingInv, Home, Message, Dest, Positions
  <2>2. CASE r # l
    <3>1. SameRing(r) /\ RingInv(r)
      BY <1>6, <2>2 DEF PipelineInv
    <3> QED
      BY <3>1, SameRingInv
  <2> QED
    BY <2>1, <2>2
<1>9. \A p \in Rings : pc'[p] = pc[p] /\ msg'[p] = msg[p]
  BY <1>1, <1>2
<1>10. ASSUME NEW r \in Rings PROVE pc'[r] = "fill" <=> claimed'[r] > sent'[r]
  BY <1>6, <1>9 DEF PipelineInv
<1>11. ASSUME NEW k \in Nodes PROVE NodeInv(k)'
  <2>1. k \in Rings /\ In(k) \in Rings \ {l} /\ sent[In(k)] \in Nat /\ Taken(k) \in Nat
    BY <1>2, NodeNames, RingTypes, Chain
  <2> QED
    BY <1>1, <1>6, <1>9, <2>1, NodeFrame DEF PipelineInv, SameRing
<1>12. ClientInv'
  <2>1. /\ claimed'[Client1] = value'
        /\ pc'[Client1] = "fill" => msg'[Client1] = Message(Client1, value')
    BY <1>1, <1>6, <1>9, Names DEF PipelineInv, ClientInv
  <2>2. pc'[Client0] # "copy"
    BY <1>1, <1>2 DEF PaxosTypeOK
  <2>3. \A k \in Learners \ {l} : got'[k][0] = got[k][0]
    BY <1>6, Names DEF SameRing
  <2>4. \A k \in Learners : Len(got[k][0]) \in Nat /\ Len(got[k][0]) <= expected_value - 1
    BY Names, RingTypes DEF PipelineInv, ClientInv
  <2>5. ASSUME NEW k \in Learners PROVE Len(got'[k][0]) <= expected_value' - 1
    <3>1. CASE k = l
      BY <1>1, <1>4, <1>5, <1>6, <3>1
    <3>2. CASE k # l
      <4>1. Len(got'[k][0]) = Len(got[k][0])
        BY <2>3, <3>2
      <4> QED
        BY <1>1, <1>4, <1>5, <2>4, <4>1
    <3> QED
      BY <3>1, <3>2
  <2>6. \E k \in Learners : Len(got'[k][0]) = expected_value' - 1
    <3>1. CASE g + 1 = expected_value
      BY <1>1, <1>2, <1>4, <1>5, <1>6, <3>1
    <3>2. CASE g + 1 # expected_value
      <4>1. PICK k \in Learners : Len(got[k][0]) = expected_value - 1
        BY DEF PipelineInv, ClientInv
      <4>2. k # l
        BY <1>4, <3>2, <4>1
      <4> QED
        BY <1>1, <1>5, <2>3, <3>2, <4>1, <4>2
    <3> QED
      BY <3>1, <3>2
  <2> QED
    BY <2>1, <2>2, <2>5, <2>6 DEF ClientInv, Message
<1> QED
  BY <1>7, <1>8, <1>10, <1>11, <1>12 DEF PipelineInv

(* A step of somebody else *)
LEMMA StutterInv == ASSUME Inv, UNCHANGED vars PROVE Inv'
<1> USE DEF Inv
<1>1. UNCHANGED rings /\ UNCHANGED local
  BY DEF vars
<1>2. PaxosTypeOK'
  BY <1>1 DEF PaxosTypeOK, MpsocTypeOK, rings, local
<1>3. ASSUME NEW r \in Rings
      PROVE  RingInv(r)' /\ (pc'[r] = "fill" <=> claimed'[r] > sent'[r])
  BY <1>1, SameRingInv DEF PipelineInv, SameRing, rings, local
<1>4. ASSUME NEW k \in Nodes PROVE NodeInv(k)'
  BY <1>1 DEF PipelineInv, NodeInv, Message, In, CoreId, rings, local
<1>5. ClientInv'
  BY <1>1 DEF PipelineInv, ClientInv, Message, rings, local
<1> QED
  BY <1>2, <1>3, <1>4, <1>5 DEF PipelineInv

(* Types and pipeline are inductive together. *)
LEMMA Inductive == Spec => []Inv
<1>1. Inv /\ [Next]_vars => Inv'
  <2> SUFFICES ASSUME Inv, [Next]_vars PROVE Inv'
    OBVIOUS
  <2>1. ASSUME NEW n \in Nodes, Receive(n) PROVE Inv'
    BY <2>1, ReceiveInv
  <2>2. CASE handle_request
    BY <2>2, RequestInv
  <2>3. CASE handle_accept_req
    BY <2>3, AcceptInv
  <2>4. ASSUME NEW l \in Learners, handle_learn(l) PROVE Inv'
    BY <2>4, LearnInv
  <2>5. ASSUME NEW p \in Rings, NewMessage(p) PROVE Inv'
    BY <2>5, NewMessageInv
  <2>6. ASSUME NEW p \in Rings, Send(p) PROVE Inv'
    BY <2>6, SendInv
  <2>7. CASE Poll
    BY <2>7, PollInv
  <2>8. CASE Response
    BY <2>8, ResponseInv
  <2>9. CASE UNCHANGED vars
    BY <2>9, StutterInv
  <2> QED
    BY <2>1, <2>2, <2>3, <2>4, <2>5, <2>6, <2>7, <2>8, <2>9 DEF Next
<1> QED
  BY InitInv, <1>1, PTL DEF Spec

-----------------------------------------------------------------------------
(* What follows *)

(* Every variable of the programs and of their rings stays within its type, *)
(* the numbers within the number of values that client 1 sends.            *)
THEOREM TypeCorrect == Spec => []PaxosTypeOK
BY Inductive, PTL DEF Inv

(* The rings and the programs that work through them always satisfy the     *)
(* invariant that links them, whatever the numbers of learners, slots and    *)
(* values.                                                                 *)
THEOREM PipelineCorrect == Spec => []PipelineInv
BY Inductive, PTL DEF Inv

(* A reader that has something left stands where it lives. *)
LEMMA StandsAtNext ==
  ASSUME Inv, NEW r \in Rings, NEW b \in Dest(r), Len(got[r][b]) < sent[r]
  PROVE  NextMessage(r, b) = Message(r, Len(got[r][b]) + 1)
<1> DEFINE g == Len(got[r][b])
<1>1. g \in Nat /\ sent[r] \in Nat /\ claimed[r] \in Nat /\ nb_msg \in Nat \ {0}
  BY RingTypes, Names DEF Inv
<1>2. next_read[r][b] = Home(g + 1) /\ claimed[r] <= g + nb_msg
  BY DEF Inv, PipelineInv, RingInv
<1>3. g + 1 \in 1 .. sent[r] /\ g + 1 > claimed[r] - nb_msg
  BY <1>1, <1>2
<1> QED
  BY <1>2, <1>3 DEF Inv, PipelineInv, RingInv, NextMessage

(* No writer fills the slot that a process is copying a message out of: the *)
(* wait for an empty bitmap in mpsoc_alloc is enough.                       *)
THEOREM NothingTorn == Spec => []NoOverwriteWhileRead
<1>1. Inv => NoOverwriteWhileRead
  <2> SUFFICES ASSUME Inv PROVE NoOverwriteWhileRead
    OBVIOUS
  <2>1. ASSUME NEW n \in Nodes, pc[n] = "copy"
        PROVE  NextMessage(In(n), CoreId(n)) = msg[n]
    <3>1. /\ Len(got[In(n)][CoreId(n)]) < sent[In(n)]
          /\ msg[n] = Message(In(n), Len(got[In(n)][CoreId(n)]) + 1)
      BY <2>1 DEF Inv, PipelineInv, NodeInv
    <3> QED
      BY <3>1, NodeNames, StandsAtNext
  <2>2. ASSUME pc[Client0] = "copy" PROVE NextMessage(poll, 0) = msg[Client0]
    <3>1. /\ Len(got[poll][0]) < sent[poll]
          /\ msg[Client0] = Message(poll, Len(got[poll][0]) + 1)
      BY <2>2 DEF Inv, PipelineInv, ClientInv
    <3>2. poll \in Rings /\ 0 \in Dest(poll)
      BY Names DEF Inv, PaxosTypeOK
    <3> QED
      BY <3>1, <3>2, StandsAtNext
  <2> QED
    BY <2>1, <2>2 DEF NoOverwriteWhileRead
<1> QED
  BY <1>1, Inductive, PTL

(* All the learners learn the same values, in the order in which the leader *)
(* numbered them, and nobody is ahead of whom it learns from.              *)
THEOREM Agreement == Spec => []LearnersAgree
<1>1. Inv => LearnersAgree
  <2> SUFFICES ASSUME Inv PROVE LearnersAgree
    OBVIOUS
  <2>1. ASSUME NEW k \in Learners, NEW i \in 1 .. Len(got[1][k])
        PROVE  got[1][k][i] = Message(1, i)
    <3>1. 1 \in Rings /\ k \in Dest(1)
      BY Names DEF Dest
    <3> QED
      BY <3>1 DEF Inv, PipelineInv, RingInv
  <2>2. ASSUME NEW n \in Nodes
        PROVE  /\ Taken(n) \in Nat /\ Taken(n) <= claimed[In(n)] /\ claimed[n] <= Taken(n)
               /\ n # 0 => last_proposal[n] = [instance |-> Taken(n), value |-> Taken(n)]
               /\ n = 0 => last_instance_number = Taken(n)
    <3>1. In(n) \in Rings /\ sent[In(n)] \in Nat /\ claimed[In(n)] \in Nat
      BY NodeNames, RingTypes DEF Inv
    <3>2. NodeInv(n) /\ Taken(n) \in Nat /\ Taken(n) <= sent[In(n)] /\ sent[In(n)] <= claimed[In(n)]
      BY <3>1, Chain DEF Inv, PipelineInv
    <3>3. claimed[n] \in {Taken(n), Taken(n) - 1}
      BY <3>2 DEF NodeInv, Taken
    <3> QED
      BY <3>1, <3>2, <3>3 DEF NodeInv, Taken
  <2>3. Taken(1) \in Nat /\ Taken(0) \in Nat /\ Taken(1) <= Taken(0)
        /\ last_proposal[1] = [instance |-> Taken(1), value |-> Taken(1)]
        /\ last_instance_number = Taken(0)
    <3>1. 0 \in Nodes /\ 1 \in Nodes /\ In(1) = 0 /\ 0 # 1 /\ 0 \in Rings
      BY Names DEF In
    <3>2. claimed[0] \in Nat
      BY <3>1, RingTypes DEF Inv
    <3>3. Taken(1) \in Nat /\ Taken(1) <= claimed[0]
          /\ last_proposal[1] = [instance |-> Taken(1), value |-> Taken(1)]
      BY <2>2, <3>1
    <3>4. Taken(0) \in Nat /\ claimed[0] <= Taken(0) /\ last_instance_number = Taken(0)
      BY <2>2, <3>1
    <3> QED
      BY <3>2, <3>3, <3>4
  <2>4. ASSUME NEW l \in Learners
        PROVE  Taken(l) \in Nat /\ Taken(l) <= Taken(1)
               /\ last_proposal[l] = [instance |-> Taken(l), value |-> Taken(l)]
    <3>1. l \in Nodes /\ 1 \in Nodes /\ In(l) = 1 /\ l # 0 /\ 1 \in Rings
      BY Names DEF In
    <3>2. claimed[1] \in Nat
      BY <3>1, RingTypes DEF Inv
    <3>3. Taken(l) \in Nat /\ Taken(l) <= claimed[1]
          /\ last_proposal[l] = [instance |-> Taken(l), value |-> Taken(l)]
      BY <2>2, <3>1
    <3>4. Taken(1) \in Nat /\ claimed[1] <= Taken(1)
      BY <2>2, <3>1
    <3> QED
      BY <3>2, <3>3, <3>4
  <2>5. \A k, l \in Learners : \A i \in 1 .. Len(got[1][k]) :
          /\ got[1][k][i].instance = i
          /\ i <= Len(got[1][l]) => got[1][l][i] = got[1][k][i]
    <3>1. ASSUME NEW k \in Learners, NEW l \in Learners, NEW i \in 1 .. Len(got[1][k])
          PROVE  /\ got[1][k][i].instance = i
                 /\ i <= Len(got[1][l]) => got[1][l][i] = got[1][k][i]
      <4>1. got[1][k][i] = Message(1, i) /\ Message(1, i).instance = i
        BY <2>1 DEF Message
      <4>2. Len(got[1][l]) \in Nat
        BY Names, RingTypes DEF Inv
      <4>3. i <= Len(got[1][l]) => i \in 1 .. Len(got[1][l])
        BY <4>2
      <4> QED
        BY <2>1, <4>1, <4>3
    <3> QED
      BY <3>1
  <2>6. ASSUME NEW l \in Learners
        PROVE  /\ last_proposal[l].instance <= last_proposal[1].instance
               /\ last_proposal[l].instance = last_proposal[1].instance
                    => last_proposal[l] = last_proposal[1]
    <3>1. last_proposal[l].instance = Taken(l)
      <4>1. last_proposal[l] = [instance |-> Taken(l), value |-> Taken(l)]
        BY <2>4
      <4> QED
        BY <4>1
    <3>2. last_proposal[1].instance = Taken(1)
      <4>1. last_proposal[1] = [instance |-> Taken(1), value |-> Taken(1)]
        BY <2>3
      <4> QED
        BY <4>1
    <3> QED
      BY <2>3, <2>4, <3>1, <3>2
  <2>7. last_proposal[1].instance <= last_instance_number
    BY <2>3
  <2> QED
    BY <2>5, <2>6, <2>7 DEF LearnersAgree
<1> QED
  BY <1>1, Inductive, PTL

(* Client 0 has counted as many values as the learner that is ahead has      *)
(* answered: none twice, none left out, though the answers of the learners   *)
(* reach it in any order.                                                   *)
THEOREM Counting == Spec => []CountsEachValueOnce
<1>1. Inv => CountsEachValueOnce
  <2> SUFFICES ASSUME Inv PROVE CountsEachValueOnce
    OBVIOUS
  <2> DEFINE S == {Len(got[l][0]) : l \in Learners}
             e == expected_value - 1
  <2>1. \A y \in S : y \in Nat /\ y <= e
    BY Names, RingTypes DEF Inv, PipelineInv, ClientInv
  <2>2. e \in S
    BY DEF Inv, PipelineInv, ClientInv
  <2> HIDE DEF S, e
  <2>3. \A x \in S : (\A y \in S : x >= y) => x = e
    BY <2>1, <2>2
  <2>4. \A y \in S : e >= y
    BY <2>1, <2>2
  <2>5. Max(S) = e
    BY <2>2, <2>3, <2>4 DEF Max
  <2> QED
    BY <2>5 DEF CountsEachValueOnce, S, e
<1> QED
  BY <1>1, Inductive, PTL

-----------------------------------------------------------------------------
(* Every ring implements the multicast channel *)

(* Who reads a ring is to whom its writer sends. *)
LEMMA ReadersAreDest == ASSUME NEW r \in Rings PROVE ReadersOf(r) = Dest(r)
<1>1. 1 \in Nodes /\ 1 \notin Learners /\ 0 # 1 /\ 0 \in Nodes /\ 0 \notin Learners
  BY Names
<1>2. Nodes = {0, 1} \cup Learners /\ r \in Nodes \cup {Client1} /\ Client1 \notin Nodes
  BY Names
<1>3. CASE r = 1
  BY <1>1, <1>2, <1>3 DEF ReadersOf, In, CoreId, Dest
<1>4. CASE r \in Learners
  BY <1>1, <1>2, <1>4 DEF ReadersOf, In, CoreId, Dest
<1>5. CASE r = 0
  BY <1>1, <1>2, <1>5 DEF ReadersOf, In, CoreId, Dest
<1>6. CASE r = Client1
  BY <1>1, <1>2, <1>6 DEF ReadersOf, In, CoreId, Dest
<1> QED
  BY <1>2, <1>3, <1>4, <1>5, <1>6

(* What a reader of a ring was given, in the terms of the channel *)
Delivered(r) == [b \in ReadersOf(r) |-> [i \in 1 .. Len(got[r][b]) |-> got[r][b][i].value]]

(* It is the values from the first on. *)
LEMMA DeliveredIsPrefix ==
  ASSUME Inv, NEW r \in Rings, NEW b \in Dest(r)
  PROVE  /\ Delivered(r)[b] = [i \in 1 .. Len(got[r][b]) |-> i]
         /\ Delivered(r)[b] \in Seq(Nat) /\ Len(Delivered(r)[b]) = Len(got[r][b])
<1>1. Len(got[r][b]) \in Nat
  BY Names, RingTypes DEF Inv
<1>2. ASSUME NEW i \in 1 .. Len(got[r][b]) PROVE got[r][b][i].value = i
  <2>1. got[r][b][i] = Message(r, i)
    BY DEF Inv, PipelineInv, RingInv
  <2>2. Message(r, i).value = i
    BY DEF Message
  <2> QED
    BY <2>1, <2>2
<1>3. Delivered(r)[b] = [i \in 1 .. Len(got[r][b]) |-> i]
  BY <1>2, ReadersAreDest DEF Delivered
<1> QED
  BY <1>1, <1>3

(* What the steps of the channels need of the state that they lead to *)
ChannelFacts ==
  \A r \in Rings :
    /\ claimed[r] <= MaxValues
    /\ \A b \in Dest(r) : Delivered(r)[b] = [i \in 1 .. Len(got[r][b]) |-> i]

(* It holds. *)
LEMMA ChannelFactsHold == Inv => ChannelFacts
BY Chain, DeliveredIsPrefix DEF ChannelFacts, Inv

(* A ring that nobody uses does not change for the channel either. *)
LEMMA SameChannel ==
  ASSUME NEW r \in Rings, SameRing(r)
  PROVE  [Ring(r)!Next]_(Ring(r)!vars)
BY DEF SameRing, Ring!vars

(* To allocate a slot is to accept a message. *)
LEMMA AllocAccepts ==
  ASSUME Inv, ChannelFacts', NEW r \in Rings,
         claimed'[r] = claimed[r] + 1, sent' = sent, got' = got
  PROVE  Ring(r)!Next
<1>1. claimed[r] \in Nat /\ claimed'[r] <= MaxValues /\ MaxValues \in Nat
  BY RingTypes, PaxosAssumption DEF Inv, ChannelFacts
<1>2. claimed[r] < MaxValues
  BY <1>1
<1>3. Ring(r)!Accept
  BY <1>2 DEF Ring!Accept
<1> QED
  BY <1>3 DEF Ring!Next

(* To store the bitmap is to publish it. *)
LEMMA SendPublishes ==
  ASSUME Inv, NEW r \in Rings, claimed[r] > sent[r],
         claimed' = claimed, sent'[r] = claimed[r], got' = got
  PROVE  Ring(r)!Next
<1> DEFINE c == claimed[r]
<1>1. c \in Nat /\ sent[r] \in Nat /\ c = sent[r] + 1 /\ c <= MaxValues /\ MaxValues \in Nat
  <2>1. c \in Nat /\ sent[r] \in Nat /\ c \in sent[r] .. sent[r] + 1 /\ c <= MaxValues
    BY RingTypes, Chain DEF Inv, PipelineInv, RingInv
  <2> QED
    BY <2>1, PaxosAssumption
<1>2. c \in 1 .. c /\ c \notin 1 .. sent[r] /\ 1 .. c = (1 .. sent[r]) \cup {c} /\ c \in 1 .. MaxValues
  BY <1>1
<1>3. ASSUME NEW b \in ReadersOf(r) PROVE c <= Ring(r)!Position(b) + nb_msg
  <2>1. b \in Dest(r) /\ Len(got[r][b]) \in Nat /\ c <= Len(got[r][b]) + nb_msg /\ nb_msg \in Nat
    BY ReadersAreDest, Names, RingTypes DEF Inv, PipelineInv, RingInv
  <2>2. Ring(r)!Position(b) = 0 + Len(Delivered(r)[b])
    BY DEF Ring!Position, Delivered
  <2>3. Len(Delivered(r)[b]) = Len(got[r][b])
    BY <2>1, DeliveredIsPrefix
  <2> QED
    BY <1>1, <2>1, <2>2, <2>3
<1>4. Ring(r)!Publish(c)
  BY <1>2, <1>3 DEF Ring!Publish
<1> QED
  BY <1>2, <1>4 DEF Ring!Next, Ring!Messages

(* To receive is to be delivered the next message. *)
LEMMA RecvDelivers ==
  ASSUME Inv, ChannelFacts', NEW r \in Rings, NEW b \in Dest(r), Len(got[r][b]) < sent[r],
         claimed' = claimed, sent' = sent,
         Len(got'[r][b]) = Len(got[r][b]) + 1,
         \A d \in Dest(r) \ {b} : got'[r][d] = got[r][d]
  PROVE  Ring(r)!Next
<1> DEFINE g == Len(got[r][b])
<1>1. g \in Nat /\ sent[r] \in Nat /\ g + 1 \in 1 .. sent[r]
  BY Names, RingTypes DEF Inv
<1>2. ReadersOf(r) = Dest(r)
  BY ReadersAreDest
<1>3. /\ Delivered(r)[b] = [i \in 1 .. g |-> i]
      /\ Delivered(r)[b] \in Seq(Nat) /\ Len(Delivered(r)[b]) = g
  BY DeliveredIsPrefix
<1>4. Delivered(r)'[b] = [i \in 1 .. g + 1 |-> i]
  <2>1. Delivered(r)'[b] = [i \in 1 .. Len(got'[r][b]) |-> i]
    BY DEF ChannelFacts
  <2> QED
    BY <2>1
<1>5. Append(Delivered(r)[b], g + 1) = [i \in 1 .. g + 1 |-> i]
  BY <1>1, <1>3
<1>6. \A d \in Dest(r) \ {b} : Delivered(r)'[d] = Delivered(r)[d]
  BY <1>2 DEF Delivered
<1>7. Delivered(r)' = [Delivered(r) EXCEPT ![b] = Append(@, g + 1)]
  <2>1. Delivered(r) = [d \in Dest(r) |-> Delivered(r)[d]]
        /\ Delivered(r)' = [d \in Dest(r) |-> Delivered(r)'[d]]
    BY <1>2 DEF Delivered
  <2> QED
    BY <1>4, <1>5, <1>6, <2>1
<1>8. Ring(r)!Position(b) = g
  <2>1. Ring(r)!Position(b) = 0 + Len(Delivered(r)[b])
    BY <1>2 DEF Ring!Position, Delivered
  <2> QED
    BY <1>1, <1>3, <2>1
<1>9. Ring(r)!Deliver(b)
  BY <1>1, <1>2, <1>7, <1>8 DEF Ring!Deliver, Delivered
<1> QED
  BY <1>2, <1>9 DEF Ring!Next

(* A receive on one ring is one delivery, and nothing on the other rings. *)
LEMMA RecvIsMulticast ==
  ASSUME Inv, ChannelFacts', NEW q \in Rings, NEW b \in Dest(q),
         Len(got[q][b]) < sent[q], NEW m, m = Message(q, Len(got[q][b]) + 1),
         RecvEnd(q, b, m), NEW r \in Rings
  PROVE  [Ring(r)!Next]_(Ring(r)!vars)
<1>1. /\ claimed' = claimed /\ sent' = sent
      /\ Len(got'[q][b]) = Len(got[q][b]) + 1
      /\ \A d \in Dest(q) \ {b} : got'[q][d] = got[q][d]
      /\ \A k \in Rings \ {q} : SameRing(k)
  BY RecvRing DEF Inv, PipelineInv
<1>2. CASE r = q
  BY <1>1, <1>2, RecvDelivers
<1>3. CASE r # q
  BY <1>1, <1>3, SameChannel
<1> QED
  BY <1>2, <1>3

(* One step of the system is one step of at most one channel. *)
LEMMA StepIsMulticast ==
  ASSUME Inv, ChannelFacts', [Next]_vars
  PROVE  \A r \in Rings : [Ring(r)!Next]_(Ring(r)!vars)
<1>1. ASSUME NEW n \in Nodes, NEW m, Received(n, m), NEW r \in Rings
      PROVE  [Ring(r)!Next]_(Ring(r)!vars)
  <2>1. pc[n] = "copy" /\ RecvEnd(In(n), CoreId(n), msg[n])
    BY <1>1 DEF Received
  <2>2. /\ In(n) \in Rings /\ CoreId(n) \in Dest(In(n))
        /\ Len(got[In(n)][CoreId(n)]) < sent[In(n)]
        /\ msg[n] = Message(In(n), Len(got[In(n)][CoreId(n)]) + 1)
    BY <2>1, NodeNames DEF Inv, PipelineInv, NodeInv
  <2> QED
    BY <2>1, <2>2, RecvIsMulticast
<1>2. ASSUME NEW p \in Rings, NewMessage(p), NEW r \in Rings
      PROVE  [Ring(r)!Next]_(Ring(r)!vars)
  <2>1. pc[p] = "alloc" /\ mpsoc_alloc(p)
    BY <1>2 DEF NewMessage
  <2>2. claimed[p] = sent[p]
    <3>1. claimed[p] \in Nat /\ sent[p] \in Nat
      BY RingTypes DEF Inv
    <3>2. claimed[p] \in sent[p] .. sent[p] + 1 /\ ~ (claimed[p] > sent[p])
      BY <2>1 DEF Inv, PipelineInv, RingInv
    <3> QED
      BY <3>1, <3>2
  <2>3. /\ claimed'[p] = claimed[p] + 1 /\ sent' = sent /\ got' = got
        /\ \A q \in Rings \ {p} : SameRing(q)
    BY <2>1, <2>2, AllocRing DEF Inv, PipelineInv
  <2>4. CASE r = p
    BY <2>3, <2>4, AllocAccepts
  <2>5. CASE r # p
    BY <2>3, <2>5, SameChannel
  <2> QED
    BY <2>4, <2>5
<1>3. ASSUME NEW p \in Rings, Send(p), NEW r \in Rings
      PROVE  [Ring(r)!Next]_(Ring(r)!vars)
  <2>1. pc[p] = "fill" /\ mpsoc_sendto(p, msg[p], Dest(p)) /\ claimed[p] > sent[p]
    BY <1>3 DEF Send, Inv, PipelineInv
  <2>2. msg[p] = Message(p, claimed[p])
    <3>1. CASE p \in Nodes
      BY <2>1, <3>1 DEF Inv, PipelineInv, NodeInv
    <3>2. CASE p = Client1
      BY <2>1, <3>2 DEF Inv, PipelineInv, ClientInv
    <3> QED
      BY <3>1, <3>2, Names
  <2>3. /\ claimed' = claimed /\ sent'[p] = claimed[p] /\ got' = got
        /\ \A q \in Rings \ {p} : SameRing(q)
    BY <2>1, <2>2, SendRing DEF Inv, PipelineInv
  <2>4. CASE r = p
    BY <2>1, <2>3, <2>4, SendPublishes
  <2>5. CASE r # p
    BY <2>3, <2>5, SameChannel
  <2> QED
    BY <2>4, <2>5
<1>4. ASSUME Response, NEW r \in Rings PROVE [Ring(r)!Next]_(Ring(r)!vars)
  <2> PICK l \in Learners : l = poll
    BY DEF Inv, PaxosTypeOK
  <2>1. pc[Client0] = "copy" /\ RecvEnd(l, 0, msg[Client0])
    BY <1>4 DEF Response
  <2>2. /\ l \in Rings /\ 0 \in Dest(l)
        /\ Len(got[l][0]) < sent[l] /\ msg[Client0] = Message(l, Len(got[l][0]) + 1)
    BY <2>1, Names DEF Inv, PipelineInv, ClientInv
  <2> QED
    BY <2>1, <2>2, RecvIsMulticast
<1>5. ASSUME UNCHANGED rings, NEW r \in Rings PROVE [Ring(r)!Next]_(Ring(r)!vars)
  BY <1>5, SameChannel DEF SameRing, rings
<1>6. ASSUME NEW n \in Nodes, Receive(n) PROVE UNCHANGED rings
  BY <1>6 DEF Receive
<1>7. Poll \/ UNCHANGED vars => UNCHANGED rings
  BY DEF Poll, vars
<1>8. handle_request => \E n \in Nodes : \E m : Received(n, m)
  BY Names DEF handle_request
<1>9. handle_accept_req => \E n \in Nodes : \E m : Received(n, m)
  BY Names DEF handle_accept_req
<1>10. (\E l \in Learners : handle_learn(l)) => \E n \in Nodes : \E m : Received(n, m)
  BY Names DEF handle_learn
<1> QED
  BY <1>1, <1>2, <1>3, <1>4, <1>5, <1>6, <1>7, <1>8, <1>9, <1>10 DEF Next

(* Every ring of the pipeline is a multicast channel whose readers are there *)
(* from the start: each gets every value once, in the order of the client,   *)
(* and no value is published a whole ring ahead of a reader.                *)
THEOREM Refinement == Spec => RingsAreMulticast
<1>1. Init => \A r \in Rings : Ring(r)!Init
  <2> SUFFICES ASSUME Init, NEW r \in Rings PROVE Ring(r)!Init
    OBVIOUS
  <2>1. claimed[r] = 0 /\ sent[r] = 0
    BY DEF Init, MpsocInit
  <2>2. \A b \in ReadersOf(r) : got[r][b] = <<>>
    BY ReadersAreDest, Names DEF Init, MpsocInit
  <2>3. [b \in ReadersOf(r) |-> [i \in 1 .. Len(got[r][b]) |-> got[r][b][i].value]]
          = [b \in ReadersOf(r) |-> <<>>]
    <3>1. ASSUME NEW b \in ReadersOf(r)
          PROVE  [i \in 1 .. Len(got[r][b]) |-> got[r][b][i].value] = <<>>
      <4>1. Len(got[r][b]) = 0
        BY <2>2
      <4> QED
        BY <4>1
    <3> QED
      BY <3>1
  <2>4. 1 .. sent[r] = {}
    BY <2>1
  <2> QED
    BY <2>1, <2>3, <2>4 DEF Ring!Init
<1>2. Inv => ChannelFacts
  BY ChannelFactsHold
<1>3. Inv /\ ChannelFacts' /\ [Next]_vars
        => [\A r \in Rings : [Ring(r)!Next]_(Ring(r)!vars)]_vars
  BY StepIsMulticast
<1> QED
  BY <1>1, <1>2, <1>3, Inductive, PTL DEF Spec, RingsAreMulticast
=============================================================================
