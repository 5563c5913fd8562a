----------------------- MODULE DeliveryDispatchProofs -----------------------
(***************************************************************************)
(* Proofs about the delivery outbox and its relays, for any number of      *)
(* relays and deliveries, any claim length and any faults.                 *)
(*                                                                         *)
(* DispatchInv is inductive for every value of the constants.  It ties the *)
(* lease to the drain, the queue of a relay to the rows it has seen, what  *)
(* is left of its claims to the claims in the table, and what is           *)
(* acknowledged to what the channel shows.                                 *)
(*                                                                         *)
(* SendInv is what sending once rests on.  It needs ClaimLag > 0: a row is *)
(* old (Recovered) whenever its first claim has lapsed, so that a young    *)
(* row has had one claim at most and is known to one relay at most,        *)
(* however late the answer of its claim, and whoever takes over an old one *)
(* looks for an earlier post first.                                        *)
(***************************************************************************)
EXTENDS DeliveryDispatch, FiniteSetTheorems, SequenceTheorems, TLAPS

-----------------------------------------------------------------------------
(* A relay w and a delivery d.                                               *)

Elems(s) == {s[i] : i \in DOMAIN s}

Distinct(s) == \A i, j \in DOMAIN s : s[i] = s[j] => i = j

Sends(w, d) == w.pc \in Sending /\ Head(w.queue) = d

(* Between Begin and the end of deliverWithRetry().                          *)
Busy(w, d) == w.pc \in Sending \cup {"ack"} /\ Head(w.queue) = d

Waits(w, d) == d \in Elems(w.queue) /\ ~Busy(w, d)

(* In the queue, or on its way there.                                        *)
Awaits(w, d) == Waits(w, d) \/ d \in w.got

Young(d) == row[d].age <= ClaimMs

-----------------------------------------------------------------------------
(* The invariant that needs nothing of ClaimLag.                             *)

(* A process is in hold() exactly while its relay drains, and the one with   *)
(* the advisory lock is the one whose hold() was not cut.                    *)
LeaseFits ==
    \A p \in Processes :
        /\ relay[p].pc = "idle" <=> hold[p] = "none"
        /\ holder = p <=> hold[p] = "held"

(* The queue has no duplicates, all of it was seen, there is a row in hand   *)
(* where the pc needs one, and an answer on its way where it is awaited.     *)
QueueFits(w) ==
    /\ w.pc \in {"idle", "claim", "claimed"} => w.queue = <<>> /\ w.seen = {}
    /\ w.pc \notin {"idle", "claim", "claimed", "next"} => w.queue # <<>>
    /\ w.pc \notin {"claimed", "reclaimed"} => w.got = {}
    /\ Distinct(w.queue)
    /\ Elems(w.queue) \subseteq w.seen

(* What a relay holds is in the table, what it takes for posted is in the    *)
(* channel, and nothing is left of a claim of which the table has less.      *)
KnowledgeFits(w) ==
    /\ \A d \in Elems(w.queue) : row[d].status # "absent"
    /\ \A d \in Deliveries : Knows(w, d) => row[d].status # "absent"
    /\ \A d \in Elems(w.posted) \ Unkeyed : channel[d].posts > 0
    /\ w.pc \in {"files", "ack"} /\ Head(w.queue) \notin Unkeyed =>
           channel[Head(w.queue)].posts > 0
    /\ \A d \in Deliveries : w.real[d] <= row[d].claim

RowFits(d) ==
    /\ row[d].status = "absent" => channel[d].posts = 0 /\ row[d].claim = 0
    /\ row[d].status = "expired" => row[d].claim = 0
    /\ d \notin Unkeyed =>
           /\ row[d].status = "delivered" => channel[d].posts > 0
           /\ channel[d].files > 0 => channel[d].posts > 0

(* What is left of two claims of one row is left of one of them.             *)
RealExclusive ==
    \A p, q \in Processes : \A d \in Deliveries :
        p # q /\ relay[p].real[d] > 0 => relay[q].real[d] = 0

DispatchInv ==
    /\ DeliveryTypeOK
    /\ LeaseFits
    /\ \A r \in Processes : QueueFits(relay[r]) /\ KnowledgeFits(relay[r])
    /\ \A d \in Deliveries : RowFits(d)
    /\ RealExclusive

-----------------------------------------------------------------------------
(* The invariant behind SentOnce.                                            *)

(* The claims of a row add up to at most its age: the first one is over only *)
(* when the row is old.                                                      *)
ClaimsAge(d) == row[d].claim > 0 => row[d].age + row[d].claim > ClaimMs

(* A young row without a claim is new: nobody is at it or knows of a claim.  *)
NewIsUntouched(d) ==
    row[d].status = "pending" /\ row[d].claim = 0 /\ Young(d) =>
        /\ channel[d].posts = 0
        /\ \A r \in Processes : ~Busy(relay[r], d) /\ ~Knows(relay[r], d)

(* Who is about to post finds no post, and who uploads finds no files.       *)
SenderFits(w, d) ==
    /\ Sends(w, d) /\ w.pc \in {"post", "limited"} => channel[d].posts = 0
    /\ Sends(w, d) /\ w.pc \in {"reverify", "files"} => channel[d].files = 0
    /\ Awaits(w, d) /\ Knows(w, d) /\ Young(d) => channel[d].posts = 0

(* Two senders of a row that is not excused: it is delivered, and one of     *)
(* them has yet to look.  At a young row there is one relay.                 *)
PairFits(w, v, d) ==
    /\ Sends(w, d) /\ Sends(v, d) =>
           row[d].status = "delivered" /\ "verify" \in {w.pc, v.pc}
    /\ (Busy(w, d) \/ Knows(w, d)) /\ Young(d) => ~Knows(v, d)

SendFits(d) ==
    /\ NewIsUntouched(d)
    /\ \A r \in Processes : SenderFits(relay[r], d)
    /\ \A p, q \in Processes : p # q => PairFits(relay[p], relay[q], d)
    /\ channel[d].posts <= 1 /\ channel[d].files <= 1

SendInv ==
    /\ \A d \in Deliveries : ClaimsAge(d)
    /\ \A d \in Deliveries \ (excused \cup Unkeyed) : SendFits(d)

-----------------------------------------------------------------------------
(* Sequences.                                                                *)

(* What is left of a queue without its head.                                 *)
LEMMA TailElems ==
    ASSUME NEW D, NEW s \in Seq(D), s # <<>>, Distinct(s)
    PROVE  /\ Tail(s) \in Seq(D) /\ Distinct(Tail(s))
           /\ Elems(Tail(s)) = Elems(s) \ {Head(s)}
           /\ Head(s) \in Elems(s) /\ Head(s) \in D
<1>1. /\ Tail(s) \in Seq(D) /\ Len(s) \in Nat \ {0} /\ Head(s) = s[1]
      /\ DOMAIN s = 1..Len(s) /\ DOMAIN Tail(s) = 1..(Len(s) - 1)
      /\ \A i \in 1..(Len(s) - 1) : Tail(s)[i] = s[i + 1]
  OBVIOUS
<1>2. Distinct(Tail(s))
  BY <1>1 DEF Distinct
<1>3. \A d \in Elems(Tail(s)) : d \in Elems(s) /\ d # Head(s)
  BY <1>1 DEF Elems, Distinct
<1>4. \A d \in Elems(s) : d # Head(s) => d \in Elems(Tail(s))
  <2>1. SUFFICES ASSUME NEW i \in 1..Len(s), s[i] # s[1]
                 PROVE  s[i] \in Elems(Tail(s))
    BY <1>1 DEF Elems
  <2>2. i - 1 \in 1..(Len(s) - 1) /\ Tail(s)[i - 1] = s[i]
    BY <1>1, <2>1
  <2> QED
    BY <2>2, <1>1 DEF Elems
<1>5. Head(s) \in Elems(s) /\ Head(s) \in D
  BY <1>1 DEF Elems
<1> QED
  BY <1>1, <1>2, <1>3, <1>4, <1>5

(* A queue and the rows that join it.                                        *)
LEMMA ConcatElems ==
    ASSUME NEW D, NEW s \in Seq(D), NEW t \in Seq(D),
           Distinct(s), Distinct(t), Elems(s) \cap Elems(t) = {}
    PROVE  /\ s \o t \in Seq(D) /\ Distinct(s \o t)
           /\ Elems(s \o t) = Elems(s) \cup Elems(t)
           /\ s # <<>> => s \o t # <<>> /\ Head(s \o t) = Head(s)
<1>1. /\ s \o t \in Seq(D) /\ Len(s) \in Nat /\ Len(t) \in Nat
      /\ DOMAIN s = 1..Len(s) /\ DOMAIN t = 1..Len(t)
      /\ DOMAIN (s \o t) = 1..(Len(s) + Len(t))
      /\ \A i \in 1..Len(s) : (s \o t)[i] = s[i]
      /\ \A i \in 1..Len(t) : (s \o t)[Len(s) + i] = t[i]
  OBVIOUS
<1>2. \A i \in 1..(Len(s) + Len(t)) :
          \/ i \in 1..Len(s) /\ (s \o t)[i] = s[i]
          \/ i - Len(s) \in 1..Len(t) /\ (s \o t)[i] = t[i - Len(s)]
  BY <1>1
<1>3. Distinct(s \o t)
  <2>1. SUFFICES ASSUME NEW i \in 1..(Len(s) + Len(t)),
                        NEW j \in 1..(Len(s) + Len(t)),
                        (s \o t)[i] = (s \o t)[j]
                 PROVE  i = j
    BY <1>1 DEF Distinct
  <2>2. \A k \in 1..Len(s), m \in 1..Len(t) : s[k] # t[m]
    BY <1>1 DEF Elems
  <2>3. CASE i \in 1..Len(s) /\ (s \o t)[i] = s[i]
    <3>1. j \in 1..Len(s) /\ (s \o t)[j] = s[j]
      BY <2>1, <2>2, <2>3, <1>2
    <3>2. s[i] = s[j] /\ i \in DOMAIN s /\ j \in DOMAIN s
      BY <2>1, <2>3, <3>1, <1>1
    <3> QED
      BY <3>2 DEF Distinct
  <2>4. CASE i - Len(s) \in 1..Len(t) /\ (s \o t)[i] = t[i - Len(s)]
    <3>1. j - Len(s) \in 1..Len(t) /\ (s \o t)[j] = t[j - Len(s)]
      BY <2>1, <2>2, <2>4, <1>2
    <3>2. i - Len(s) = j - Len(s)
      BY <2>1, <2>4, <3>1, <1>1 DEF Distinct
    <3> QED
      BY <3>2, <1>1
  <2> QED
    BY <2>3, <2>4, <1>2
<1>4. \A d \in Elems(s \o t) : d \in Elems(s) \cup Elems(t)
  BY <1>1, <1>2 DEF Elems
<1>5. \A d \in Elems(s) : d \in Elems(s \o t)
  BY <1>1 DEF Elems
<1>6. \A d \in Elems(t) : d \in Elems(s \o t)
  <2>1. SUFFICES ASSUME NEW i \in 1..Len(t) PROVE t[i] \in Elems(s \o t)
    BY <1>1 DEF Elems
  <2>2. Len(s) + i \in 1..(Len(s) + Len(t))
    BY <1>1
  <2>3. (s \o t)[Len(s) + i] = t[i]
    BY <1>1
  <2> QED
    BY <2>2, <2>3, <1>1 DEF Elems
<1>7. ASSUME s # <<>> PROVE s \o t # <<>> /\ Head(s \o t) = Head(s)
  BY <1>1, <1>7
<1> QED
  BY <1>1, <1>3, <1>4, <1>5, <1>6, <1>7

(* A map loses at most the entry that is deleted.                            *)
LEMMA WithoutElems ==
    ASSUME NEW D, NEW s \in Seq(D), NEW d
    PROVE  /\ Without(s, d) \in Seq(D)
           /\ Len(Without(s, d)) <= Len(s)
           /\ Elems(Without(s, d)) \subseteq Elems(s)
<1>1. CASE ~ \E i \in DOMAIN s : s[i] = d
  BY <1>1 DEF Without
<1>2. CASE \E i \in DOMAIN s : s[i] = d
  <2> DEFINE i == CHOOSE j \in DOMAIN s : s[j] = d
             a == SubSeq(s, 1, i - 1)
             b == SubSeq(s, i + 1, Len(s))
  <2>1. i \in 1..Len(s) /\ Len(s) \in Nat
    BY <1>2
  <2>2. Without(s, d) = a \o b
    BY <1>2 DEF Without
  <2> HIDE DEF i
  <2>3. a \in Seq(D) /\ Len(a) = i - 1 /\ \A j \in 1..(i - 1) : a[j] = s[j]
    BY <2>1
  <2>4. /\ b \in Seq(D) /\ Len(b) = Len(s) - i
        /\ \A j \in 1..(Len(s) - i) : b[j] = s[i + j]
    BY <2>1
  <2> HIDE DEF a, b
  <2>5. /\ a \o b \in Seq(D) /\ Len(a \o b) = Len(a) + Len(b)
        /\ \A j \in 1..(Len(a) + Len(b)) :
              \/ j \in 1..Len(a) /\ (a \o b)[j] = a[j]
              \/ j - Len(a) \in 1..Len(b) /\ (a \o b)[j] = b[j - Len(a)]
    <3>1. a \in Seq(D) /\ b \in Seq(D) /\ Len(a) \in Nat /\ Len(b) \in Nat
      BY <2>3, <2>4
    <3>2. /\ a \o b \in Seq(D) /\ Len(a \o b) = Len(a) + Len(b)
          /\ \A j \in 1..(Len(a) + Len(b)) :
                (a \o b)[j] = IF j <= Len(a) THEN a[j] ELSE b[j - Len(a)]
      BY <3>1, ConcatProperties, Zenon
    <3> QED
      BY <3>1, <3>2
  <2>6. \A j \in 1..(Len(a) + Len(b)) : \E k \in 1..Len(s) : (a \o b)[j] = s[k]
    <3>1. SUFFICES ASSUME NEW j \in 1..(Len(a) + Len(b))
                   PROVE  \E k \in 1..Len(s) : (a \o b)[j] = s[k]
      OBVIOUS
    <3>2. CASE j \in 1..Len(a) /\ (a \o b)[j] = a[j]
      BY <3>2, <2>1, <2>3
    <3>3. CASE j - Len(a) \in 1..Len(b) /\ (a \o b)[j] = b[j - Len(a)]
      <4>1. /\ i + (j - Len(a)) \in 1..Len(s)
            /\ b[j - Len(a)] = s[i + (j - Len(a))]
        BY <3>3, <2>1, <2>3, <2>4
      <4> QED
        BY <4>1, <3>3
    <3> QED
      BY <3>2, <3>3, <2>5
  <2>7. Elems(a \o b) \subseteq Elems(s)
    BY <2>5, <2>6 DEF Elems
  <2>8. Len(a \o b) <= Len(s)
    BY <2>1, <2>3, <2>4, <2>5
  <2> QED
    BY <2>2, <2>5, <2>7, <2>8
<1> QED
  BY <1>1, <1>2

(* An order of a finite set is a sequence of its members without duplicates. *)
LEMMA OrdersElems ==
    ASSUME NEW D, NEW S \in SUBSET D, IsFiniteSet(S), NEW s \in Orders(S)
    PROVE  s \in Seq(D) /\ Distinct(s) /\ Elems(s) = S
<1> DEFINE n == Cardinality(S)
<1>1. n \in Nat
  BY FS_CardinalityType
<1>2. s \in [1..n -> S] /\ {s[i] : i \in DOMAIN s} = S
  BY DEF Orders
<1> HIDE DEF n
<1>3. s \in Seq(D)
  BY <1>1, <1>2
<1>4. IsFiniteSet(1..n) /\ Cardinality(1..n) = n
  <2>1. 1 \in Int /\ n \in Int
    BY <1>1
  <2>2. IsFiniteSet(1..n) /\ Cardinality(1..n) = IF 1 > n THEN 0 ELSE n - 1 + 1
    BY <2>1, FS_Interval
  <2> QED
    BY <2>2, <1>1
<1>5. s \in Surjection(1..n, S)
  BY <1>2 DEF Surjection
<1>6. s \in Injection(1..n, S)
  BY <1>4, <1>5, FS_SurjSameCardinalityImpliesInj DEF n
<1>7. Distinct(s)
  BY <1>6, <1>2 DEF Injection, IsInjective, Distinct
<1> QED
  BY <1>2, <1>3, <1>7 DEF Elems

-----------------------------------------------------------------------------
(* What the operators on a relay return.                                     *)

RelayOK(w) == w \in Relay /\ Len(w.posted) <= MaxTracked

(* The drain of v is where that of w is.                                     *)
SameDrain(v, w) ==
    /\ v.pc = w.pc /\ v.queue = w.queue /\ v.seen = w.seen
    /\ v.exp = w.exp /\ v.got = w.got /\ v.real = w.real
    /\ v.attempt = w.attempt

(* Its claims are those of w.                                                *)
SameClaims(v, w) == v.exp = w.exp /\ v.got = w.got /\ v.real = w.real

Pcs == {"idle", "claim", "claimed", "next", "reclaim", "reclaimed",
        "verify", "post", "reverify", "limited", "files", "ack"}

(* The fields of a relay have their types.                                   *)
LEMMA RelayFields ==
    ASSUME NEW w \in Relay
    PROVE  /\ w.queue \in Seq(Deliveries) /\ w.posted \in Seq(Deliveries)
           /\ w.seen \subseteq Deliveries /\ w.dead \subseteq Deliveries
           /\ w.got \subseteq Deliveries
           /\ w.exp \in [Deliveries -> 0..ClaimMs]
           /\ w.real \in [Deliveries -> 0..ClaimMs]
           /\ w.failures \in [Deliveries -> 0..MaxAttempts]
           /\ w.attempt \in 0..2 /\ w.pc \in Pcs
  BY DEF Relay, Pcs

(* A relay may move its pc and its count.                                    *)
LEMMA RelayMoves ==
    ASSUME NEW w \in Relay, NEW pc \in Pcs, NEW n \in 0..2
    PROVE  [w EXCEPT !.pc = pc, !.attempt = n] \in Relay
  BY DEF Relay, Pcs

(* Onward() drops the row in hand.                                           *)
LEMMA OnwardShape ==
    ASSUME NEW w, RelayOK(w), w.queue # <<>>
    PROVE  /\ RelayOK(Onward(w))
           /\ Onward(w).pc = "next" /\ Onward(w).queue = Tail(w.queue)
           /\ Onward(w).seen = w.seen /\ SameClaims(Onward(w), w)
           /\ Onward(w).posted = w.posted
<1>1. w \in Relay /\ w.queue \in Seq(Deliveries) /\ Len(w.posted) <= MaxTracked
  BY RelayFields DEF RelayOK
<1>2. Tail(w.queue) \in Seq(Deliveries)
  BY <1>1
<1>3. /\ Onward(w).pc = "next" /\ Onward(w).queue = Tail(w.queue)
      /\ Onward(w).seen = w.seen /\ SameClaims(Onward(w), w)
      /\ Onward(w).posted = w.posted
  BY <1>1 DEF Onward, Relay, SameClaims
<1>4. Onward(w) \in Relay
  <2>0. 0 \in 0..2 /\ "next" \in Pcs
    BY DEF Pcs
  <2>1. [w EXCEPT !.pc = "next", !.attempt = 0] \in Relay
    BY <2>0, <1>1, RelayMoves, Zenon
  <2>2. Onward(w) = [[w EXCEPT !.pc = "next", !.attempt = 0]
                        EXCEPT !.queue = Tail(w.queue)]
    BY <1>1 DEF Onward, Relay
  <2> DEFINE v == [w EXCEPT !.pc = "next", !.attempt = 0]
  <2> HIDE DEF v
  <2>3. [v EXCEPT !.queue = Tail(w.queue)] \in Relay
    BY <2>1, <1>2 DEF Relay, v
  <2> QED
    BY <2>2, <2>3 DEF v
<1> QED
  BY <1>1, <1>3, <1>4 DEF RelayOK

(* At() changes where the relay is, and no more.                             *)
LEMMA AtShape ==
    ASSUME NEW w, RelayOK(w), NEW pc \in Pcs
    PROVE  /\ RelayOK(At(w, pc))
           /\ At(w, pc).pc = pc /\ At(w, pc).queue = w.queue
           /\ At(w, pc).seen = w.seen /\ SameClaims(At(w, pc), w)
           /\ At(w, pc).posted = w.posted
<1>1. w \in Relay /\ Len(w.posted) <= MaxTracked
  BY DEF RelayOK
<1>2. /\ At(w, pc).pc = pc /\ At(w, pc).queue = w.queue
      /\ At(w, pc).seen = w.seen /\ SameClaims(At(w, pc), w)
      /\ At(w, pc).posted = w.posted
  BY <1>1 DEF At, Relay, SameClaims
<1>3. At(w, pc) \in Relay
  <2>1. 0 \in 0..2
    OBVIOUS
  <2> QED
    BY <2>1, <1>1, RelayMoves, Zenon DEF At
<1> QED
  BY <1>1, <1>2, <1>3 DEF RelayOK

(* clear() and recordFailure() forget, and remember nothing new.             *)
LEMMA ForgetShape ==
    ASSUME NEW w, RelayOK(w), NEW d \in Deliveries, NEW v,
           v = Cleared(w, d) \/ v = Failed(w, d)
    PROVE  /\ RelayOK(v) /\ SameDrain(v, w)
           /\ Elems(v.posted) \subseteq Elems(w.posted)
<1>1. w \in Relay /\ Len(w.posted) <= MaxTracked /\ MaxAttempts \in Nat \ {0}
  BY DeliveryAssumption DEF RelayOK
<1>2. /\ w.posted \in Seq(Deliveries) /\ w.dead \subseteq Deliveries
      /\ w.failures \in [Deliveries -> 0..MaxAttempts]
  BY <1>1, RelayFields
<1> DEFINE p == Without(w.posted, d)
<1>3. /\ p \in Seq(Deliveries) /\ Len(p) <= Len(w.posted)
      /\ Elems(p) \subseteq Elems(w.posted)
  BY <1>2, WithoutElems
<1>4. Len(p) <= MaxTracked
  BY <1>1, <1>2, <1>3, DeliveryAssumption
<1> DEFINE zero == [w.failures EXCEPT ![d] = 0]
           more == [w.failures EXCEPT ![d] = @ + 1]
<1>5. zero \in [Deliveries -> 0..MaxAttempts]
  BY <1>1, <1>2
<1>6. CASE v = Cleared(w, d)
  <2>1. v = [w EXCEPT !.failures = zero, !.posted = p, !.dead = @ \ {d}]
    BY <1>6 DEF Cleared
  <2> HIDE DEF zero, p
  <2>2. SameDrain(v, w) /\ v.posted = p
    BY <2>1, <1>1 DEF SameDrain, Relay
  <2>3. v \in Relay
    BY <2>1, <1>1, <1>2, <1>3, <1>5 DEF Relay
  <2> QED
    BY <2>2, <2>3, <1>3, <1>4 DEF RelayOK
<1>7. CASE v = Failed(w, d) /\ w.failures[d] + 1 >= MaxAttempts
  <2>1. v = [w EXCEPT !.failures = zero, !.posted = p, !.dead = @ \cup {d}]
    BY <1>7 DEF Failed
  <2> HIDE DEF zero, p
  <2>2. SameDrain(v, w) /\ v.posted = p
    BY <2>1, <1>1 DEF SameDrain, Relay
  <2>3. v \in Relay
    BY <2>1, <1>1, <1>2, <1>3, <1>5 DEF Relay
  <2> QED
    BY <2>2, <2>3, <1>3, <1>4 DEF RelayOK
<1>8. CASE v = Failed(w, d) /\ ~(w.failures[d] + 1 >= MaxAttempts)
  <2>1. v = [w EXCEPT !.failures = more]
    BY <1>8 DEF Failed
  <2>2. more \in [Deliveries -> 0..MaxAttempts]
    <3>1. w.failures[d] + 1 \in 0..MaxAttempts
      BY <1>1, <1>2, <1>8
    <3> QED
      BY <3>1, <1>2
  <2> HIDE DEF more
  <2>3. SameDrain(v, w) /\ v.posted = w.posted
    BY <2>1, <1>1 DEF SameDrain, Relay
  <2>4. v \in Relay
    BY <2>1, <2>2, <1>1 DEF Relay
  <2> QED
    BY <2>3, <2>4, <1>1 DEF RelayOK
<1> QED
  BY <1>6, <1>7, <1>8

(* markPosted() adds one entry and keeps within the cap.                     *)
LEMMA MarkedShape ==
    ASSUME NEW w, RelayOK(w), NEW d \in Deliveries
    PROVE  /\ RelayOK(Marked(w, d)) /\ SameDrain(Marked(w, d), w)
           /\ Elems(Marked(w, d).posted) \subseteq Elems(w.posted) \cup {d}
<1> DEFINE all == Append(w.posted, d)
           v == Marked(w, d)
           zero == [w.failures EXCEPT ![Head(all)] = 0]
<1>1. w \in Relay /\ Len(w.posted) <= MaxTracked /\ MaxTracked \in Nat \ {0}
  BY DeliveryAssumption DEF RelayOK
<1>2. /\ w.posted \in Seq(Deliveries) /\ w.dead \subseteq Deliveries
      /\ w.failures \in [Deliveries -> 0..MaxAttempts]
  BY <1>1, RelayFields
<1>3. /\ all \in Seq(Deliveries) /\ Len(all) = Len(w.posted) + 1
      /\ all # <<>> /\ Len(w.posted) \in Nat
      /\ \A i \in 1..Len(w.posted) : all[i] = w.posted[i]
      /\ all[Len(w.posted) + 1] = d
  BY <1>2
<1>4. Elems(all) \subseteq Elems(w.posted) \cup {d}
  BY <1>2, <1>3 DEF Elems
<1> HIDE DEF all
<1>5. CASE Len(all) > MaxTracked
  <2>1. v = [w EXCEPT !.posted = Tail(all), !.failures = zero,
                      !.dead = @ \cup {Head(all)}]
    BY <1>5 DEF Marked, all
  <2>2. /\ Tail(all) \in Seq(Deliveries) /\ Len(Tail(all)) = Len(all) - 1
        /\ Head(all) \in Deliveries
        /\ \A i \in 1..(Len(all) - 1) : Tail(all)[i] = all[i + 1]
    BY <1>3
  <2>3. Elems(Tail(all)) \subseteq Elems(all)
    BY <2>2, <1>3 DEF Elems
  <2>4. zero \in [Deliveries -> 0..MaxAttempts]
    BY <2>2, <1>2, DeliveryAssumption
  <2> HIDE DEF zero, v
  <2>5. SameDrain(v, w) /\ v.posted = Tail(all)
    BY <2>1, <1>1 DEF SameDrain, Relay
  <2>6. v \in Relay
    BY <2>1, <2>2, <2>4, <1>1, <1>2 DEF Relay
  <2>7. Len(Tail(all)) <= MaxTracked
    BY <2>2, <1>1, <1>3
  <2> QED
    BY <2>3, <2>5, <2>6, <2>7, <1>4 DEF RelayOK, v
<1>6. CASE ~(Len(all) > MaxTracked)
  <2>1. v = [w EXCEPT !.posted = all]
    BY <1>6 DEF Marked, all
  <2> HIDE DEF v
  <2>2. SameDrain(v, w) /\ v.posted = all
    BY <2>1, <1>1 DEF SameDrain, Relay
  <2>3. v \in Relay
    BY <2>1, <1>3, <1>1 DEF Relay
  <2>4. Len(all) <= MaxTracked
    BY <1>1, <1>3, <1>6
  <2> QED
    BY <2>2, <2>3, <2>4, <1>4 DEF RelayOK, v
<1> QED
  BY <1>5, <1>6

-----------------------------------------------------------------------------
(* A step of one relay that makes no claim: what it may do.                  *)

(* What the channel shows, or nobody looks for.                              *)
Shown(d) == channel[d].posts > 0 \/ d \in Unkeyed

(* The drain takes up d, under a claim it goes by.                           *)
Enters(w, v, d) ==
    /\ Waits(w, d) /\ Knows(w, d)
    /\ \/ v.pc = "ack" /\ Shown(d)
       \/ v.pc = "verify"
       \/ v.pc = "post" /\ Young(d)
       \/ v.pc = "files" /\ d \in Unkeyed

(* The send of d goes on.                                                    *)
Continues(w, v, d) ==
    /\ Busy(w, d)
    /\ \/ v.pc = w.pc /\ channel' = channel
       \/ w.pc \in {"verify", "limited"} /\ v.pc = "ack" /\ channel[d].posts > 0
       \/ w.pc \in {"verify", "reverify"} /\ v.pc = "post" /\ channel[d].posts = 0
       \/ w.pc = "post" /\ v.pc = "files" /\ channel'[d].posts > 0
       \/ w.pc = "post" /\ v.pc = "reverify"
       \/ w.pc = "post" /\ v.pc = "limited" /\ channel' = channel
       \/ w.pc = "reverify" /\ v.pc = "files" /\ channel[d].posts > 0
       \/ w.pc = "limited" /\ v.pc = "post"
       \/ w.pc = "files" /\ v.pc = "ack"

MoveOK(w, v) ==
    /\ RelayOK(v) /\ QueueFits(v)
    /\ Elems(v.queue) \subseteq Elems(w.queue) \cup w.got /\ v.got \subseteq w.got
    /\ \A d \in Elems(v.posted) : d \in Elems(w.posted) \/ Shown(d)'
    /\ \A d \in Deliveries :
          /\ v.real[d] <= w.real[d]
          /\ Knows(v, d) => Knows(w, d)
          /\ Awaits(v, d) => Awaits(w, d)
    /\ \A d \in Deliveries : Busy(v, d) => Enters(w, v, d) \/ Continues(w, v, d)

(* The row in hand may be acknowledged, ...                                  *)
RowEffect(w, d) ==
    \/ row'[d] = row[d]
    \/ /\ w.pc = "ack" /\ Busy(w, d)
       /\ row'[d] = [row[d] EXCEPT !.status = "delivered"]

(* ... posted or given its files.                                            *)
ChannelEffect(w, v, d) ==
    \/ channel'[d] = channel[d]
    \/ /\ w.pc = "post" /\ Busy(w, d) /\ v.pc \in {"files", "reverify"}
       /\ channel'[d] = [channel[d] EXCEPT !.posts = @ + 1]
    \/ /\ w.pc = "files" /\ Busy(w, d) /\ v.pc = "ack"
       /\ channel'[d] = [channel[d] EXCEPT !.files = @ + 1]

(* A delivery is excused when a second relay begins to send it, and only     *)
(* while it is not delivered.                                                *)
Excuses(r, v) ==
    /\ excused \subseteq excused' /\ excused' \subseteq Deliveries
    /\ \A d \in excused' \ excused :
          /\ row[d].status \notin {"absent", "delivered"}
          /\ Sends(v, d) /\ \E q \in Processes \ {r} : Sends(relay[q], d)
    /\ \A d \in Deliveries \ excused' :
          Sends(v, d) /\ ~Sends(relay[r], d) /\ row[d].status # "delivered" =>
              \A q \in Processes \ {r} : ~Sends(relay[q], d)

Counted == enqueues' \in 0..MaxEnqueues /\ faults' \in 0..MaxFaults

WorkStep(r, v) ==
    /\ relay' = [relay EXCEPT ![r] = v]
    /\ MoveOK(relay[r], v)
    /\ row' \in [Deliveries -> Row]
    /\ channel' \in [Deliveries -> [posts : Nat, files : Nat]]
    /\ \A d \in Deliveries :
          RowEffect(relay[r], d) /\ ChannelEffect(relay[r], v, d)
    /\ Excuses(r, v)
    /\ Counted

(* DispatchInv without the lease.                                            *)
DrainInv ==
    /\ row \in [Deliveries -> Row]
    /\ channel \in [Deliveries -> [posts : Nat, files : Nat]]
    /\ relay \in [Processes -> Relay]
    /\ \A r \in Processes : Len(relay[r].posted) <= MaxTracked
    /\ excused \subseteq Deliveries
    /\ enqueues \in 0..MaxEnqueues /\ faults \in 0..MaxFaults
    /\ \A r \in Processes : QueueFits(relay[r]) /\ KnowledgeFits(relay[r])
    /\ \A d \in Deliveries : RowFits(d)
    /\ RealExclusive

(* The invariant is its two halves.                                          *)
LEMMA InvSplits == DispatchInv <=> DrainInv /\ LeaseTypeOK /\ LeaseFits
  BY DEF DispatchInv, DrainInv, DeliveryTypeOK

(* The row in hand is in the queue.                                          *)
LEMMA InHandQueued ==
    ASSUME NEW w \in Relay, QueueFits(w), NEW d, Busy(w, d)
    PROVE  d \in Elems(w.queue) /\ d \in Deliveries
<1>1. w.queue \in Seq(Deliveries) /\ w.queue # <<>> /\ Distinct(w.queue)
  BY RelayFields DEF QueueFits, Busy, Sending
<1>2. Head(w.queue) = d
  BY DEF Busy
<1> QED
  BY <1>1, <1>2, TailElems

(* A step that makes no claim takes nothing back.                            *)
LEMMA WorkEffects ==
    ASSUME DrainInv, NEW r \in Processes, NEW v, WorkStep(r, v),
           NEW d \in Deliveries
    PROVE  /\ channel'[d].posts >= channel[d].posts
           /\ channel'[d].files >= channel[d].files
           /\ row'[d].claim = row[d].claim /\ row'[d].age = row[d].age
           /\ row'[d].status = row[d].status \/ row'[d].status = "delivered"
           /\ row'[d].status = "absent" <=> row[d].status = "absent"
           /\ row'[d].status # row[d].status =>
                 relay[r].pc = "ack" /\ Busy(relay[r], d) /\ Shown(d)
<1>1. /\ relay[r] \in Relay /\ QueueFits(relay[r]) /\ KnowledgeFits(relay[r])
      /\ row[d] \in Row /\ channel[d] \in [posts : Nat, files : Nat]
  BY DEF DrainInv
<1>2. RowEffect(relay[r], d) /\ ChannelEffect(relay[r], v, d)
  BY DEF WorkStep
<1>3. /\ channel'[d].posts >= channel[d].posts
      /\ channel'[d].files >= channel[d].files
  <2>1. channel[d].posts \in Nat /\ channel[d].files \in Nat
    BY <1>1
  <2> QED
    BY <2>1, <1>1, <1>2 DEF ChannelEffect
<1>4. /\ row'[d].claim = row[d].claim /\ row'[d].age = row[d].age
      /\ row'[d].status = row[d].status \/ row'[d].status = "delivered"
  BY <1>1, <1>2 DEF RowEffect, Row
<1>5. ASSUME row'[d].status # row[d].status
      PROVE  /\ relay[r].pc = "ack" /\ Busy(relay[r], d) /\ Shown(d)
             /\ row[d].status # "absent" /\ row'[d].status = "delivered"
  <2>1. relay[r].pc = "ack" /\ Busy(relay[r], d)
    BY <1>2, <1>5 DEF RowEffect
  <2>2. d \in Elems(relay[r].queue) /\ Head(relay[r].queue) = d
    BY <2>1, <1>1, InHandQueued DEF Busy
  <2> QED
    BY <2>1, <2>2, <1>1, <1>4, <1>5 DEF KnowledgeFits, Shown
<1> QED
  BY <1>3, <1>4, <1>5

(* A step that makes no claim keeps the first invariant.                     *)
LEMMA WorkKeeps ==
    ASSUME DrainInv, NEW r \in Processes, NEW v, WorkStep(r, v)
    PROVE  DrainInv'
<1> DEFINE w == relay[r]
<1>1. w \in Relay /\ QueueFits(w) /\ KnowledgeFits(w)
  BY DEF DrainInv
<1>2. MoveOK(w, v) /\ relay' = [relay EXCEPT ![r] = v] /\ Counted
  BY DEF WorkStep
<1>3. /\ relay \in [Processes -> Relay] /\ relay'[r] = v
      /\ \A q \in Processes : q # r => relay'[q] = relay[q]
  BY <1>2 DEF DrainInv
<1> HIDE DEF w
<1>4. /\ relay' \in [Processes -> Relay]
      /\ \A q \in Processes : Len(relay'[q].posted) <= MaxTracked
  BY <1>2, <1>3 DEF DrainInv, MoveOK, RelayOK
<1>5. /\ row' \in [Deliveries -> Row] /\ excused' \subseteq Deliveries
      /\ channel' \in [Deliveries -> [posts : Nat, files : Nat]]
      /\ enqueues' \in 0..MaxEnqueues /\ faults' \in 0..MaxFaults
  BY DEF WorkStep, Excuses, Counted
<1>6. \A d \in Deliveries :
          /\ channel'[d].posts >= channel[d].posts
          /\ channel'[d].files >= channel[d].files
          /\ row'[d].claim = row[d].claim
          /\ row'[d].status = row[d].status \/ row'[d].status = "delivered"
          /\ row'[d].status = "absent" <=> row[d].status = "absent"
          /\ row'[d].status # row[d].status => Shown(d)
  BY WorkEffects
<1>7. \A d \in Deliveries : channel[d].posts \in Nat /\ channel'[d].posts \in Nat
                            /\ channel[d].files \in Nat
  BY <1>5 DEF DrainInv
<1>11. \A d \in Deliveries : Shown(d) => Shown(d)'
  BY <1>6, <1>7 DEF Shown
<1>8. ASSUME NEW q \in Processes
      PROVE  QueueFits(relay[q])' /\ KnowledgeFits(relay[q])'
  <2>1. CASE q # r
    <3>1. relay'[q] = relay[q] /\ relay[q] \in Relay
      BY <1>3, <2>1
    <3>2. QueueFits(relay[q]) /\ KnowledgeFits(relay[q])
      BY DEF DrainInv
    <3>3. \A d \in Elems(relay[q].queue) \cup Elems(relay[q].posted) :
              d \in Deliveries
      <4>1. /\ relay[q].queue \in Seq(Deliveries)
            /\ relay[q].posted \in Seq(Deliveries)
        BY <3>1, RelayFields
      <4> QED
        BY <4>1 DEF Elems
    <3>4. relay[q].pc \in {"files", "ack"} => Head(relay[q].queue) \in Deliveries
      BY <3>1, <3>2, InHandQueued DEF Busy, Sending
    <3>5. QueueFits(relay[q])'
      BY <3>1, <3>2 DEF QueueFits, Elems, Distinct
    <3>6. \A d \in Elems(relay[q].posted) : Shown(d)'
      <4>1. \A d \in Elems(relay[q].posted) : Shown(d)
        BY <3>2 DEF KnowledgeFits, Shown
      <4> QED
        BY <4>1, <3>3, <1>11
    <3>7. ASSUME relay[q].pc \in {"files", "ack"}
          PROVE  \/ Head(relay[q].queue) \in Unkeyed
                 \/ channel'[Head(relay[q].queue)].posts > 0
      BY <3>2, <3>4, <3>7, <1>6, <1>7 DEF KnowledgeFits
    <3>9. \A d \in Deliveries : Knows(relay[q], d) => row'[d].status # "absent"
      BY <3>2, <1>6 DEF KnowledgeFits
    <3>8. KnowledgeFits(relay[q])'
      BY <3>1, <3>2, <3>3, <3>6, <3>7, <3>9, <1>6
         DEF KnowledgeFits, Shown, Knows, Elems
    <3> QED
      BY <3>5, <3>8
  <2>2. CASE q = r
    <3>1. relay'[q] = v /\ v \in Relay /\ QueueFits(v)
      BY <1>2, <1>3, <2>2 DEF MoveOK, RelayOK
    <3>2. \A d \in Elems(w.queue) \cup w.got \cup Elems(w.posted) :
              d \in Deliveries
      <4>1. /\ w.queue \in Seq(Deliveries) /\ w.posted \in Seq(Deliveries)
            /\ w.got \subseteq Deliveries
        BY <1>1, RelayFields
      <4> QED
        BY <4>1 DEF Elems
    <3>3. QueueFits(relay[q])'
      BY <3>1 DEF QueueFits, Elems, Distinct
    <3>4. \A d \in Elems(v.queue) : row'[d].status # "absent"
      <4>1. \A d \in Elems(w.queue) \cup w.got : row[d].status # "absent"
        BY <3>2, <1>1 DEF KnowledgeFits, Knows
      <4> QED
        BY <4>1, <3>2, <1>2, <1>6 DEF MoveOK
    <3>5. \A d \in Elems(v.posted) : Shown(d)'
      <4>1. \A d \in Elems(w.posted) : Shown(d)
        BY <1>1 DEF KnowledgeFits, Shown
      <4> QED
        BY <4>1, <3>2, <1>2, <1>11 DEF MoveOK
    <3>9. \A d \in Deliveries : Knows(v, d) => row'[d].status # "absent"
      BY <1>1, <1>2, <1>6 DEF MoveOK, KnowledgeFits
    <3>6. \A d \in Deliveries : v.real[d] <= row'[d].claim
      <4>1. SUFFICES ASSUME NEW d \in Deliveries PROVE v.real[d] <= row'[d].claim
        OBVIOUS
      <4>2. v.real[d] <= w.real[d] /\ w.real[d] <= row[d].claim
        BY <1>1, <1>2 DEF MoveOK, KnowledgeFits
      <4>3. v.real[d] \in Nat /\ w.real[d] \in Nat /\ row[d].claim \in Nat
        <5>1. /\ v.real \in [Deliveries -> 0..ClaimMs]
              /\ w.real \in [Deliveries -> 0..ClaimMs]
          BY <3>1, <1>1, RelayFields
        <5>2. row[d] \in Row
          BY DEF DrainInv
        <5> QED
          BY <5>1, <5>2 DEF Row
      <4> QED
        BY <4>2, <4>3, <1>6
    <3>7. ASSUME v.pc \in {"files", "ack"} PROVE Shown(Head(v.queue))'
      <4> DEFINE d == Head(v.queue)
      <4>1. Busy(v, d) /\ d \in Deliveries
        BY <3>1, <3>7, InHandQueued DEF Busy, Sending
      <4> HIDE DEF d
      <4>2. Enters(w, v, d) \/ Continues(w, v, d)
        BY <4>1, <1>2 DEF MoveOK
      <4>3. w.pc \in {"files", "ack"} /\ Busy(w, d) => Shown(d)
        BY <1>1 DEF KnowledgeFits, Busy, Shown
      <4>4. Shown(d) \/ channel'[d].posts > 0
        BY <4>2, <4>3, <3>7 DEF Enters, Continues, Shown
      <4>5. Shown(d) \/ d \in Unkeyed \/ channel'[d].posts > 0
        BY <4>4
      <4>6. channel'[d].posts > 0 \/ d \in Unkeyed
        BY <4>1, <4>5, <1>6, <1>7 DEF Shown
      <4>7. d = Head(v.queue)
        BY DEF d
      <4> QED
        BY <4>6, <4>7 DEF Shown
    <3>8. KnowledgeFits(relay[q])'
      BY <3>1, <3>4, <3>5, <3>6, <3>7, <3>9 DEF KnowledgeFits, Shown, Knows, Elems
    <3> QED
      BY <3>3, <3>8
  <2> QED
    BY <2>1, <2>2
<1>9. ASSUME NEW d \in Deliveries PROVE RowFits(d)'
  <2>1. RowFits(d) /\ RowEffect(w, d) /\ ChannelEffect(w, v, d)
    BY DEF DrainInv, WorkStep, w
  <2>2. channel[d] \in [posts : Nat, files : Nat]
    BY DEF DrainInv
  <2>3. row'[d].status = "absent" => channel'[d].posts = 0
    <3>1. SUFFICES ASSUME row[d].status = "absent" PROVE channel'[d].posts = 0
      BY <1>6
    <3>2. ~Busy(w, d)
      BY <3>1, <1>1, InHandQueued DEF KnowledgeFits
    <3> QED
      BY <3>1, <3>2, <2>1 DEF RowFits, ChannelEffect
  <2>4. ASSUME d \notin Unkeyed
        PROVE  channel'[d].files > 0 => channel'[d].posts > 0
    <3>1. CASE channel'[d] = channel[d]
      BY <3>1, <2>1, <2>4 DEF RowFits
    <3>2. CASE w.pc = "post" /\ channel'[d] = [channel[d] EXCEPT !.posts = @ + 1]
      BY <3>2, <2>2
    <3>3. CASE w.pc = "files" /\ Busy(w, d)
      BY <3>3, <2>4, <1>1, <1>6, <1>7 DEF KnowledgeFits, Busy
    <3> QED
      BY <3>1, <3>2, <3>3, <2>1 DEF ChannelEffect
  <2> QED
    BY <2>1, <2>3, <2>4, <1>6, <1>7 DEF RowFits, Shown
<1>10. RealExclusive'
  <2>1. SUFFICES ASSUME NEW p \in Processes, NEW q \in Processes,
                        NEW d \in Deliveries,
                        p # q, relay'[p].real[d] > 0
                 PROVE  relay'[q].real[d] = 0
    BY DEF RealExclusive
  <2>2. ASSUME NEW x \in Processes
        PROVE  /\ relay'[x].real[d] \in Nat /\ relay[x].real[d] \in Nat
               /\ relay'[x].real[d] <= relay[x].real[d]
    <3>1. relay'[x].real[d] \in Nat /\ relay[x].real[d] \in Nat
      <4>1. /\ relay'[x].real \in [Deliveries -> 0..ClaimMs]
            /\ relay[x].real \in [Deliveries -> 0..ClaimMs]
        BY <1>3, <1>4, RelayFields
      <4> QED
        BY <4>1
    <3>2. relay'[x].real[d] <= relay[x].real[d]
      BY <3>1, <1>2, <1>3 DEF MoveOK, w
    <3> QED
      BY <3>1, <3>2
  <2>3. relay[p].real[d] > 0
    BY <2>1, <2>2
  <2>4. relay[q].real[d] = 0
    BY <2>1, <2>3 DEF DrainInv, RealExclusive
  <2> QED
    BY <2>2, <2>4
<1> QED
  BY <1>4, <1>5, <1>8, <1>9, <1>10 DEF DrainInv

(* A step that makes no claim keeps the second invariant: what the relay     *)
(* does to a row that is not excused fits what the others do with it.        *)
LEMMA WorkKeepsSend ==
    ASSUME DrainInv, SendInv, NEW r \in Processes, NEW v, WorkStep(r, v)
    PROVE  SendInv'
<1> DEFINE w == relay[r]
<1>1. w \in Relay /\ QueueFits(w) /\ KnowledgeFits(w)
  BY DEF DrainInv
<1>2. MoveOK(w, v) /\ relay' = [relay EXCEPT ![r] = v]
  BY DEF WorkStep
<1>3. /\ relay \in [Processes -> Relay] /\ relay'[r] = v
      /\ \A q \in Processes : q # r => relay'[q] = relay[q]
  BY <1>2 DEF DrainInv
<1>4. v \in Relay
  BY <1>2 DEF MoveOK, RelayOK
<1>5. ASSUME NEW d \in Deliveries PROVE ClaimsAge(d)'
  <2>1. row'[d].claim = row[d].claim /\ row'[d].age = row[d].age
    BY WorkEffects
  <2> QED
    BY <2>1 DEF SendInv, ClaimsAge
<1>6. ASSUME NEW d \in Deliveries \ (excused' \cup Unkeyed) PROVE SendFits(d)'
  <2>1. /\ d \in Deliveries /\ d \notin excused /\ d \notin Unkeyed
        /\ SendFits(d) /\ RowFits(d)
    BY DEF SendInv, WorkStep, Excuses, DrainInv
  <2>2. /\ channel[d] \in [posts : Nat, files : Nat]
        /\ channel[d].posts \in Nat /\ channel[d].files \in Nat
        /\ channel'[d].posts \in Nat /\ channel'[d].files \in Nat
    BY <2>1 DEF DrainInv, WorkStep
  <2>3. /\ row'[d].claim = row[d].claim /\ row'[d].age = row[d].age
        /\ row'[d].status = row[d].status \/ row'[d].status = "delivered"
        /\ row'[d].status # row[d].status =>
              w.pc = "ack" /\ Busy(w, d) /\ channel[d].posts > 0
    BY <2>1, WorkEffects DEF Shown
  <2>4. ChannelEffect(w, v, d)
    BY <2>1 DEF WorkStep
  <2>5. Young(d)' <=> Young(d)
    BY <2>3 DEF Young
  <2>6. /\ \A q \in Processes : SenderFits(relay[q], d)
        /\ \A p, q \in Processes : p # q => PairFits(relay[p], relay[q], d)
        /\ NewIsUntouched(d) /\ channel[d].posts <= 1 /\ channel[d].files <= 1
    BY <2>1 DEF SendFits
  <2>7. /\ Busy(v, d) => Enters(w, v, d) \/ Continues(w, v, d)
        /\ Awaits(v, d) => Awaits(w, d)
        /\ Knows(v, d) => Knows(w, d)
    BY <2>1, <1>2 DEF MoveOK
  <2>10. ASSUME Enters(w, v, d)
         PROVE  /\ Waits(w, d) /\ Awaits(w, d) /\ Knows(w, d)
                /\ Young(d) => channel[d].posts = 0
                /\ v.pc = "ack" => channel[d].posts > 0
    <3>1. Waits(w, d) /\ Knows(w, d) /\ Awaits(w, d)
      BY <2>10 DEF Enters, Awaits
    <3>2. v.pc = "ack" => channel[d].posts > 0
      BY <2>1, <2>10 DEF Enters, Shown
    <3> QED
      BY <3>1, <3>2, <2>6 DEF SenderFits
  <2> HIDE DEF w
  \* the post of d, and its upload, are the first
  <2>11. /\ channel'[d].posts # channel[d].posts =>
               /\ Sends(w, d) /\ w.pc = "post" /\ v.pc \in {"files", "reverify"}
               /\ channel[d].posts = 0 /\ channel'[d].posts = 1
         /\ channel'[d].files # channel[d].files =>
               /\ Sends(w, d) /\ w.pc = "files" /\ v.pc = "ack"
               /\ channel[d].files = 0 /\ channel'[d].files = 1
    <3>1. SenderFits(w, d)
      BY <2>6 DEF w
    <3>2. CASE channel'[d] = channel[d]
      BY <3>2
    <3>3. CASE /\ w.pc = "post" /\ Busy(w, d) /\ v.pc \in {"files", "reverify"}
               /\ channel'[d] = [channel[d] EXCEPT !.posts = @ + 1]
      <4>1. Sends(w, d) /\ channel[d].posts = 0
        BY <3>1, <3>3 DEF SenderFits, Sends, Busy, Sending
      <4> QED
        BY <4>1, <3>3, <2>2
    <3>4. CASE /\ w.pc = "files" /\ Busy(w, d) /\ v.pc = "ack"
               /\ channel'[d] = [channel[d] EXCEPT !.files = @ + 1]
      <4>1. Sends(w, d) /\ channel[d].files = 0
        BY <3>1, <3>4 DEF SenderFits, Sends, Busy, Sending
      <4> QED
        BY <4>1, <3>4, <2>2
    <3> QED
      BY <3>2, <3>3, <3>4, <2>4 DEF ChannelEffect
  <2>12. NewIsUntouched(d)'
    <3>1. SUFFICES ASSUME row[d].status = "pending", row[d].claim = 0, Young(d)
                   PROVE  channel'[d].posts = 0
                          /\ \A q \in Processes :
                                ~Busy(relay'[q], d) /\ ~Knows(relay'[q], d)
      BY <2>3, <2>5 DEF NewIsUntouched, Busy, Knows
    <3>2. /\ channel[d].posts = 0
          /\ \A q \in Processes : ~Busy(relay[q], d) /\ ~Knows(relay[q], d)
      BY <3>1, <2>6 DEF NewIsUntouched
    <3>3. ~Busy(w, d) /\ ~Busy(v, d) /\ ~Knows(v, d)
      BY <3>1, <3>2, <2>7, <2>10 DEF Continues, w
    <3>4. channel'[d].posts = 0
      BY <3>2, <3>3, <2>11 DEF Sends, Busy
    <3> QED
      BY <3>2, <3>3, <3>4, <1>3
  <2>13. SenderFits(v, d)'
    <3>1. SenderFits(w, d)
      BY <2>6 DEF w
    <3>2. ASSUME Sends(v, d), v.pc \in {"post", "limited"}
          PROVE  channel'[d].posts = 0
      <4>1. channel'[d].posts = channel[d].posts
        BY <3>2, <2>11
      <4>2. CASE Enters(w, v, d)
        BY <4>1, <4>2, <3>2, <2>10 DEF Enters
      <4>3. CASE Continues(w, v, d)
        BY <4>1, <4>3, <3>1, <3>2 DEF Continues, SenderFits, Sends, Busy, Sending
      <4> QED
        BY <4>2, <4>3, <3>2, <2>7 DEF Sends, Busy
    <3>3. ASSUME Sends(v, d), v.pc \in {"reverify", "files"}
          PROVE  channel'[d].files = 0
      <4>1. channel'[d].files = channel[d].files
        BY <3>3, <2>11
      <4>2. Continues(w, v, d)
        BY <3>3, <2>1, <2>7 DEF Enters, Sends, Busy
      <4>3. CASE w.pc = "post"
        <5>1. channel[d].posts = 0
          BY <4>2, <4>3, <3>1 DEF Continues, SenderFits, Sends, Busy, Sending
        <5> QED
          BY <5>1, <4>1, <2>1, <2>2 DEF RowFits
      <4>4. CASE w.pc # "post"
        BY <4>1, <4>2, <4>4, <3>1, <3>3
           DEF Continues, SenderFits, Sends, Busy, Sending
      <4> QED
        BY <4>3, <4>4
    <3>4. ASSUME Awaits(v, d), Knows(v, d), Young(d)
          PROVE  channel'[d].posts = 0
      <4>1. Awaits(w, d) /\ Knows(w, d)
        BY <3>4, <2>7
      <4>2. channel[d].posts = 0
        BY <4>1, <3>1, <3>4 DEF SenderFits
      <4>3. ~(Sends(w, d) /\ w.pc = "post")
        <5>1. SUFFICES ASSUME w.pc = "post", Busy(w, d) PROVE FALSE
          BY DEF Sends, Busy
        <5>2. d \notin w.got /\ ~Waits(w, d)
          BY <5>1, <1>1 DEF QueueFits, Waits, w
        <5> QED
          BY <5>2, <4>1 DEF Awaits
      <4> QED
        BY <4>2, <4>3, <2>11
    <3> QED
      BY <3>2, <3>3, <3>4, <2>5
         DEF SenderFits, Sends, Awaits, Waits, Busy, Knows, Elems
  <2>14. ASSUME NEW q \in Processes, q # r PROVE SenderFits(relay[q], d)'
    <3>1. SenderFits(relay[q], d) /\ relay'[q] = relay[q]
      BY <2>6, <2>14, <1>3
    <3>2. PairFits(w, relay[q], d) /\ PairFits(relay[q], w, d)
      BY <2>6, <2>14 DEF w
    <3>3. ASSUME Sends(relay[q], d), relay[q].pc \in {"post", "limited"}
          PROVE  channel'[d].posts = 0
      <4>1. channel[d].posts = 0
        BY <3>1, <3>3 DEF SenderFits
      <4>2. ~Sends(w, d)
        BY <4>1, <3>2, <3>3, <2>1 DEF PairFits, RowFits
      <4> QED
        BY <4>1, <4>2, <2>11
    <3>4. ASSUME Sends(relay[q], d), relay[q].pc \in {"reverify", "files"}
          PROVE  channel'[d].files = 0
      <4>1. channel[d].files = 0
        BY <3>1, <3>4 DEF SenderFits
      <4>2. ~(Sends(w, d) /\ w.pc = "files")
        BY <3>2, <3>4 DEF PairFits
      <4> QED
        BY <4>1, <4>2, <2>11
    <3>5. ASSUME Awaits(relay[q], d), Knows(relay[q], d), Young(d)
          PROVE  channel'[d].posts = 0
      <4>1. channel[d].posts = 0
        BY <3>1, <3>5 DEF SenderFits
      <4>2. ~Busy(w, d)
        BY <3>2, <3>5 DEF PairFits
      <4> QED
        BY <4>1, <4>2, <2>11 DEF Sends, Busy
    <3> QED
      BY <3>1, <3>3, <3>4, <3>5, <2>5
         DEF SenderFits, Sends, Awaits, Waits, Busy, Knows, Elems
  \* two relays at one row
  <2>15. ASSUME NEW q \in Processes, q # r, Sends(v, d), Sends(relay[q], d)
         PROVE  row'[d].status = "delivered" /\ "verify" \in {v.pc, relay[q].pc}
    <3>1. CASE Sends(w, d)
      <4>1. row[d].status = "delivered" /\ "verify" \in {w.pc, relay[q].pc}
        BY <3>1, <2>6, <2>15 DEF PairFits, w
      <4>2. channel[d].posts > 0
        BY <4>1, <2>1 DEF RowFits
      <4>3. Continues(w, v, d) \/ Enters(w, v, d)
        BY <2>7, <2>15 DEF Sends, Busy
      <4>4. ~Enters(w, v, d)
        BY <3>1, <2>10 DEF Waits, Sends, Busy
      <4>5. w.pc = "verify" => v.pc = "verify"
        BY <4>2, <4>3, <4>4, <2>15 DEF Continues, Sends, Sending
      <4> QED
        BY <4>1, <4>5, <2>3
    <3>2. CASE ~Sends(w, d)
      <4>1. row[d].status = "delivered"
        BY <3>2, <2>1, <2>15 DEF WorkStep, Excuses, w
      <4>2. channel[d].posts > 0
        BY <4>1, <2>1 DEF RowFits
      <4>3. Enters(w, v, d)
        BY <3>2, <2>7, <2>15 DEF Continues, Sends, Busy, Sending
      <4>4. v.pc = "verify"
        BY <4>2, <4>3, <2>10, <2>15 DEF Enters, Sends, Sending
      <4> QED
        BY <4>1, <4>4, <2>3
    <3> QED
      BY <3>1, <3>2
  <2>16. ASSUME NEW q \in Processes, q # r, Young(d)
         PROVE  /\ Busy(v, d) \/ Knows(v, d) => ~Knows(relay[q], d)
                /\ Busy(relay[q], d) \/ Knows(relay[q], d) => ~Knows(v, d)
    <3>1. PairFits(w, relay[q], d) /\ PairFits(relay[q], w, d)
      BY <2>6, <2>16 DEF w
    <3>2. Busy(v, d) => Busy(w, d) \/ Knows(w, d)
      BY <2>7, <2>10 DEF Continues
    <3> QED
      BY <3>1, <3>2, <2>7, <2>16 DEF PairFits
  <2>17. ASSUME NEW p \in Processes, NEW q \in Processes, p # q
         PROVE  PairFits(relay[p], relay[q], d)'
    <3>1. CASE p = r
      BY <3>1, <2>5, <2>15, <2>16, <2>17, <1>3
         DEF PairFits, Sends, Busy, Knows
    <3>2. CASE q = r
      BY <3>2, <2>5, <2>15, <2>16, <2>17, <1>3
         DEF PairFits, Sends, Busy, Knows
    <3>3. CASE p # r /\ q # r
      <4>1. PairFits(relay[p], relay[q], d)
        BY <2>6, <2>17
      <4> QED
        BY <4>1, <3>3, <2>3, <2>5, <1>3
         DEF PairFits, Sends, Busy, Knows
    <3> QED
      BY <3>1, <3>2, <3>3
  <2>18. channel'[d].posts <= 1 /\ channel'[d].files <= 1
    BY <2>2, <2>6, <2>11
  <2>19. \A q \in Processes : SenderFits(relay[q], d)'
    <3>1. SUFFICES ASSUME NEW q \in Processes PROVE SenderFits(relay[q], d)'
      OBVIOUS
    <3>2. CASE q = r
      BY <3>2, <2>13, <1>3
         DEF SenderFits, Sends, Awaits, Waits, Busy, Knows, Elems, Young
    <3> QED
      BY <3>2, <2>14
  <2> QED
    BY <2>12, <2>17, <2>18, <2>19 DEF SendFits
<1> QED
  BY <1>5, <1>6 DEF SendInv

-----------------------------------------------------------------------------
(* The ways a relay moves: it drops the row in hand, stays at it, or rests.  *)

(* What a relay remembers, after it moved from w to v.                       *)
Remembers(w, v) ==
    \A d \in Elems(v.posted) : d \in Elems(w.posted) \/ Shown(d)'

(* On to the next row.                                                       *)
LEMMA LeaveMoves ==
    ASSUME NEW w, RelayOK(w), QueueFits(w), w.queue # <<>>,
           NEW v, RelayOK(v), Remembers(w, v),
           v.pc = "next", v.queue = Tail(w.queue), SameClaims(v, w), w.got = {},
           v.seen = w.seen \/ v.seen = w.seen \ {Head(w.queue)}
    PROVE  MoveOK(w, v)
<1>1. /\ w \in Relay /\ w.queue \in Seq(Deliveries) /\ Distinct(w.queue)
      /\ w.real \in [Deliveries -> 0..ClaimMs] /\ Elems(w.queue) \subseteq w.seen
  BY RelayFields DEF RelayOK, QueueFits
<1>2. /\ Distinct(v.queue) /\ Elems(v.queue) = Elems(w.queue) \ {Head(w.queue)}
  BY <1>1, TailElems
<1>3. QueueFits(v)
  BY <1>1, <1>2 DEF QueueFits, SameClaims
<1>4. \A d \in Deliveries : ~Busy(v, d)
  BY DEF Busy, Sending
<1>5. \A d \in Deliveries : Awaits(v, d) => Awaits(w, d)
  BY <1>2 DEF Awaits, Waits, Busy, SameClaims
<1>6. \A d \in Deliveries : v.real[d] <= w.real[d]
  BY <1>1 DEF SameClaims
<1>7. \A d \in Deliveries : Knows(v, d) => Knows(w, d)
  BY DEF SameClaims, Knows
<1> QED
  BY <1>2, <1>3, <1>4, <1>5, <1>6, <1>7 DEF MoveOK, Remembers, SameClaims

(* On with the row in hand.                                                  *)
LEMMA StayMoves ==
    ASSUME NEW w, RelayOK(w), QueueFits(w), w.queue # <<>>,
           NEW v, RelayOK(v), Remembers(w, v),
           v.queue = w.queue, SameClaims(v, w), w.got = {}, v.seen = w.seen,
           v.pc \notin {"idle", "claim", "claimed"},
           v.pc \notin Sending \cup {"ack"} => w.pc \notin Sending \cup {"ack"},
           ASSUME NEW d \in Deliveries, Head(w.queue) = d,
                  v.pc \in Sending \cup {"ack"}
           PROVE  Enters(w, v, d) \/ Continues(w, v, d)
    PROVE  MoveOK(w, v)
<1>1. /\ w \in Relay /\ w.real \in [Deliveries -> 0..ClaimMs]
      /\ Elems(w.queue) \subseteq w.seen
  BY RelayFields DEF RelayOK, QueueFits
<1>2. QueueFits(v)
  BY <1>1 DEF QueueFits, SameClaims
<1>3. \A d \in Deliveries : Busy(v, d) => Enters(w, v, d) \/ Continues(w, v, d)
  BY DEF Busy
<1>4. \A d \in Deliveries : Awaits(v, d) => Awaits(w, d)
  BY DEF Awaits, Waits, Busy, SameClaims
<1>5. \A d \in Deliveries : v.real[d] <= w.real[d]
  BY <1>1 DEF SameClaims
<1>6. \A d \in Deliveries : Knows(v, d) => Knows(w, d)
  BY DEF SameClaims, Knows
<1> QED
  BY <1>2, <1>3, <1>4, <1>5, <1>6 DEF MoveOK, Remembers, SameClaims

(* Nothing in hand.                                                          *)
LEMMA RestMoves ==
    ASSUME NEW w, RelayOK(w),
           NEW v, RelayOK(v), Remembers(w, v),
           v.queue = <<>>, v.got = {}, v.pc \in {"idle", "claim", "next"},
           v.pc # "next" => v.seen = {},
           \A d \in Deliveries :
              v.real[d] <= w.real[d] /\ (v.exp[d] > 0 => w.exp[d] > 0)
    PROVE  MoveOK(w, v)
<1>1. Elems(v.queue) = {} /\ Distinct(v.queue)
  BY DEF Elems, Distinct
<1>2. QueueFits(v)
  BY <1>1 DEF QueueFits
<1>3. \A d \in Deliveries : ~Busy(v, d) /\ ~Awaits(v, d)
  BY <1>1 DEF Busy, Awaits, Waits, Sending
<1>4. \A d \in Deliveries : Knows(v, d) => Knows(w, d)
  BY DEF Knows
<1> QED
  BY <1>1, <1>2, <1>3, <1>4 DEF MoveOK, Remembers

(* Becomes() excuses what a second relay begins to send.                     *)
LEMMA BecomesExcuses ==
    ASSUME DrainInv, NEW r \in Processes, NEW v, MoveOK(relay[r], v),
           Becomes(r, v)
    PROVE  relay' = [relay EXCEPT ![r] = v] /\ Excuses(r, v)
<1>1. relay' = [relay EXCEPT ![r] = v]
  BY DEF Becomes
<1>2. excused' = excused \cup
        {d \in Deliveries : /\ Sends(v, d) /\ row[d].status # "delivered"
                            /\ \E q \in Processes \ {r} : Sends(relay[q], d)}
  BY DEF Becomes, Sends, SendsAt
<1>3. \A d \in Deliveries : Sends(v, d) => row[d].status # "absent"
  <2>1. SUFFICES ASSUME NEW d \in Deliveries, Sends(v, d)
                 PROVE  row[d].status # "absent"
    OBVIOUS
  <2>2. d \in Elems(v.queue)
    BY <2>1, InHandQueued DEF MoveOK, RelayOK, Sends, Busy
  <2>3. /\ d \in Elems(relay[r].queue) \/ d \in relay[r].got
        /\ KnowledgeFits(relay[r])
    BY <2>2 DEF MoveOK, DrainInv
  <2> QED
    BY <2>3 DEF KnowledgeFits, Knows
<1>4. excused \subseteq Deliveries
  BY DEF DrainInv
<1> QED
  BY <1>1, <1>2, <1>3, <1>4 DEF Excuses

(* A move without an effect on the table or the channel.                     *)
LEMMA QuietStep ==
    ASSUME DrainInv, NEW r \in Processes, NEW v, MoveOK(relay[r], v),
           Becomes(r, v), UNCHANGED <<row, channel>>, Counted
    PROVE  WorkStep(r, v)
<1>1. relay' = [relay EXCEPT ![r] = v] /\ Excuses(r, v)
  BY BecomesExcuses
<1> QED
  BY <1>1 DEF WorkStep, RowEffect, ChannelEffect, DrainInv

(* The counts stay within their bounds.                                      *)
LEMMA CountsKept ==
    ASSUME DrainInv, NEW kind, NoFault \/ Fault(kind)
    PROVE  Counted
  BY DeliveryAssumption DEF DrainInv, NoFault, Fault, countVars, Counted

(* What holds of the relay that acts.                                        *)
LEMMA Acting ==
    ASSUME DrainInv, NEW r \in Processes
    PROVE  /\ RelayOK(relay[r]) /\ QueueFits(relay[r]) /\ KnowledgeFits(relay[r])
           /\ relay[r] \in Relay
           /\ relay[r].pc \notin {"claimed", "reclaimed"} => relay[r].got = {}
           /\ relay[r].pc \notin {"idle", "claim", "claimed", "next"} =>
                 /\ relay[r].queue # <<>> /\ InHand(r) \in Deliveries
                 /\ InHand(r) = Head(relay[r].queue)
                 /\ channel[InHand(r)].posts \in Nat
<1>1. /\ RelayOK(relay[r]) /\ QueueFits(relay[r]) /\ KnowledgeFits(relay[r])
      /\ relay[r] \in Relay
  BY DEF DrainInv, RelayOK
<1>2. ASSUME relay[r].pc \notin {"idle", "claim", "claimed", "next"}
      PROVE  relay[r].queue # <<>> /\ InHand(r) \in Deliveries
  <2>1. relay[r].queue # <<>> /\ relay[r].queue \in Seq(Deliveries)
        /\ Distinct(relay[r].queue)
    BY <1>1, <1>2, RelayFields DEF QueueFits
  <2> QED
    BY <2>1, TailElems DEF InHand
<1>3. InHand(r) \in Deliveries => channel[InHand(r)].posts \in Nat
  BY DEF DrainInv
<1> QED
  BY <1>1, <1>2, <1>3 DEF InHand, QueueFits

(* A failed send leaves the row.                                             *)
LEMMA FailsMoves ==
    ASSUME DrainInv, NEW r \in Processes,
           relay[r].pc \in Sending \cup {"ack"}
    PROVE  /\ MoveOK(relay[r], Onward(Failed(relay[r], InHand(r))))
           /\ Onward(Failed(relay[r], InHand(r))).pc = "next"
<1> DEFINE w == relay[r]
           u == Failed(w, InHand(r))
           v == Onward(u)
<1>1. /\ RelayOK(w) /\ QueueFits(w) /\ w.queue # <<>> /\ w.got = {}
      /\ InHand(r) \in Deliveries
  BY Acting DEF Sending
<1>2. RelayOK(u) /\ SameDrain(u, w) /\ Elems(u.posted) \subseteq Elems(w.posted)
  BY <1>1, ForgetShape
<1> HIDE DEF w, u
<1>3. /\ RelayOK(v) /\ v.pc = "next" /\ v.queue = Tail(w.queue)
      /\ v.seen = w.seen /\ SameClaims(v, w) /\ v.posted = u.posted
  BY <1>1, <1>2, OnwardShape DEF SameDrain, SameClaims
<1>4. Remembers(w, v)
  BY <1>2, <1>3 DEF Remembers
<1> HIDE DEF v
<1>5. MoveOK(w, v)
  BY <1>1, <1>3, <1>4, LeaveMoves
<1> QED
  BY <1>3, <1>5 DEF w, u, v

(* A relay that found the post, or uploaded the files, is ready to ack.      *)
LEMMA MarkedMoves ==
    ASSUME DrainInv, NEW r \in Processes,
           relay[r].pc \in {"verify", "limited", "files"},
           relay[r].pc # "files" => Posted(r),
           InHand(r) \in Unkeyed \/ channel'[InHand(r)].posts > 0
    PROVE  /\ MoveOK(relay[r], At(Marked(relay[r], InHand(r)), "ack"))
           /\ At(Marked(relay[r], InHand(r)), "ack").pc = "ack"
<1> DEFINE w == relay[r]
           d == InHand(r)
           u == Marked(w, d)
           v == At(u, "ack")
<1>1. /\ RelayOK(w) /\ QueueFits(w) /\ w.queue # <<>> /\ d \in Deliveries
      /\ d = Head(w.queue) /\ w.got = {}
  BY Acting
<1>2. /\ RelayOK(u) /\ SameDrain(u, w)
      /\ Elems(u.posted) \subseteq Elems(w.posted) \cup {d}
  BY <1>1, MarkedShape
<1>3. /\ w.pc \in {"verify", "limited", "files"}
      /\ d \in Unkeyed \/ channel'[d].posts > 0
      /\ w.pc # "files" => channel[d].posts > 0
  BY DEF Posted
<1> HIDE DEF w, d, u
<1>4. /\ RelayOK(v) /\ v.pc = "ack" /\ v.queue = w.queue
      /\ v.seen = w.seen /\ SameClaims(v, w) /\ v.posted = u.posted
  BY <1>2, AtShape DEF SameDrain, SameClaims, Pcs
<1>5. Remembers(w, v)
  BY <1>2, <1>3, <1>4 DEF Remembers, Shown
<1> HIDE DEF v
<1>6. Continues(w, v, d)
  BY <1>1, <1>3, <1>4 DEF Continues, Busy, Sending
<1>7. MoveOK(w, v)
  BY <1>1, <1>4, <1>5, <1>6, StayMoves
<1> QED
  BY <1>4, <1>7 DEF w, d, u, v

(* The send goes on at another call.                                         *)
LEMMA PcMoves ==
    ASSUME DrainInv, NEW r \in Processes,
           relay[r].pc \in Sending,
           NEW pc \in Sending \cup {"ack"}, NEW v,
           RelayOK(v), v.pc = pc, v.queue = relay[r].queue,
           v.seen = relay[r].seen, SameClaims(v, relay[r]),
           v.posted = relay[r].posted,
           Continues(relay[r], v, InHand(r))
    PROVE  MoveOK(relay[r], v)
<1>1. /\ RelayOK(relay[r]) /\ QueueFits(relay[r]) /\ relay[r].queue # <<>>
      /\ InHand(r) = Head(relay[r].queue) /\ relay[r].got = {}
  BY Acting DEF Sending
<1>2. Remembers(relay[r], v)
  BY DEF Remembers
<1>3. v.pc \notin {"idle", "claim", "claimed"} /\ v.pc \in Sending \cup {"ack"}
  BY DEF Sending
<1> QED
  BY <1>1, <1>2, <1>3, StayMoves

SetPc(w, pc) == [w EXCEPT !.pc = pc]
SetTry(w, pc, n) == [w EXCEPT !.pc = pc, !.attempt = n]

(* A pc set by itself.                                                       *)
LEMMA SetShape ==
    ASSUME NEW w, RelayOK(w), NEW pc \in Pcs
    PROVE  /\ RelayOK(SetPc(w, pc)) /\ SetPc(w, pc).pc = pc
           /\ SetPc(w, pc).queue = w.queue /\ SetPc(w, pc).seen = w.seen
           /\ SameClaims(SetPc(w, pc), w) /\ SetPc(w, pc).posted = w.posted
<1> DEFINE v == SetPc(w, pc)
<1>1. w \in Relay /\ Len(w.posted) <= MaxTracked
  BY DEF RelayOK
<1>2. /\ v.pc = pc /\ v.queue = w.queue
      /\ v.seen = w.seen /\ SameClaims(v, w) /\ v.posted = w.posted
  BY <1>1 DEF Relay, SetPc, SameClaims
<1>3. v \in Relay
  BY <1>1 DEF Relay, Pcs, SetPc
<1> QED
  BY <1>1, <1>2, <1>3 DEF RelayOK

Tried(w, v, pc) ==
    /\ RelayOK(v) /\ v.pc = pc /\ v.queue = w.queue
    /\ v.seen = w.seen /\ SameClaims(v, w) /\ v.posted = w.posted

(* A pc and a count, set together.                                           *)
LEMMA TryShape ==
    ASSUME NEW w, RelayOK(w), NEW pc \in Pcs, NEW n \in 0..2
    PROVE  Tried(w, SetTry(w, pc, n), pc)
<1> DEFINE v == SetTry(w, pc, n)
<1>1. w \in Relay /\ Len(w.posted) <= MaxTracked
  BY DEF RelayOK
<1>2. /\ v.pc = pc /\ v.queue = w.queue
      /\ v.seen = w.seen /\ SameClaims(v, w) /\ v.posted = w.posted
  BY <1>1 DEF Relay, SetTry, SameClaims
<1>3. v \in Relay
  BY <1>1, RelayMoves, Zenon DEF SetTry
<1> HIDE DEF v
<1>4. Tried(w, v, pc)
  BY <1>1, <1>2, <1>3 DEF RelayOK, Tried
<1> QED
  BY <1>4 DEF v

(* Another attempt at the post, or a failure.                                *)
LEMMA AgainWorks ==
    ASSUME DrainInv, NEW r \in Processes,
           \/ relay[r].pc = "reverify" /\ ~Posted(r)
           \/ relay[r].pc = "limited",
           Again(r), UNCHANGED <<row, channel>>, Counted
    PROVE  \E v : WorkStep(r, v) /\ v.pc # "idle"
<1>1. /\ RelayOK(relay[r]) /\ InHand(r) = Head(relay[r].queue)
      /\ channel[InHand(r)].posts \in Nat
  BY Acting
<1>0. relay[r].attempt \in 0..2 /\ relay[r].pc \in Sending
  BY <1>1, RelayFields DEF RelayOK, Sending
<1>2. CASE relay[r].attempt < 2
  <2> DEFINE n == relay[r].attempt + 1
             v == SetTry(relay[r], "post", n)
  <2>1. Becomes(r, v)
    BY <1>2 DEF Again, SetTry
  <2>2. n \in 0..2 /\ "post" \in Pcs
    BY <1>0, <1>2 DEF Pcs
  <2>3. /\ RelayOK(v) /\ v.pc = "post" /\ v.queue = relay[r].queue
        /\ v.seen = relay[r].seen /\ SameClaims(v, relay[r])
        /\ v.posted = relay[r].posted
    <3> HIDE DEF n
    <3>1. Tried(relay[r], v, "post")
      BY <1>1, <2>2, TryShape, Zenon
    <3> HIDE DEF v
    <3> QED
      BY <3>1, Zenon DEF Tried
  <2> HIDE DEF v
  <2>4. Continues(relay[r], v, InHand(r))
    BY <2>3, <1>1 DEF Continues, Busy, Sending, Posted
  <2>5. MoveOK(relay[r], v)
    BY <2>3, <2>4, PcMoves DEF Sending
  <2>6. WorkStep(r, v)
    BY <2>1, <2>5, QuietStep
  <2> QED
    BY <2>3, <2>6
<1>3. CASE ~(relay[r].attempt < 2)
  <2> DEFINE v == Onward(Failed(relay[r], InHand(r)))
  <2>1. Becomes(r, v) /\ MoveOK(relay[r], v) /\ v.pc = "next"
    BY <1>0, <1>3, FailsMoves DEF Again, Fails
  <2> HIDE DEF v
  <2>2. WorkStep(r, v)
    BY <2>1, QuietStep
  <2> QED
    BY <2>1, <2>2
<1> QED
  BY <1>2, <1>3

(* A failure, quietly.                                                       *)
LEMMA FailsWorks ==
    ASSUME DrainInv, NEW r \in Processes,
           relay[r].pc \in Sending \cup {"ack"},
           Fails(r), UNCHANGED <<row, channel>>, Counted
    PROVE  \E v : WorkStep(r, v) /\ v.pc # "idle"
<1> DEFINE v == Onward(Failed(relay[r], InHand(r)))
<1>1. Becomes(r, v) /\ MoveOK(relay[r], v) /\ v.pc = "next"
  BY FailsMoves DEF Fails
<1> HIDE DEF v
<1>2. WorkStep(r, v)
  BY <1>1, QuietStep
<1> QED
  BY <1>1, <1>2

(* A post that was found.                                                    *)
LEMMA FoundWorks ==
    ASSUME DrainInv, NEW r \in Processes,
           relay[r].pc \in {"verify", "limited"}, Posted(r),
           Becomes(r, At(Marked(relay[r], InHand(r)), "ack")),
           UNCHANGED <<row, channel>>, Counted
    PROVE  \E v : WorkStep(r, v) /\ v.pc # "idle"
<1> DEFINE v == At(Marked(relay[r], InHand(r)), "ack")
<1>1. Becomes(r, v) /\ MoveOK(relay[r], v) /\ v.pc = "ack"
  BY MarkedMoves DEF Posted
<1> HIDE DEF v
<1>2. WorkStep(r, v)
  BY <1>1, QuietStep
<1> QED
  BY <1>1, <1>2

(* On to another call of the send.                                           *)
LEMMA AtWorks ==
    ASSUME DrainInv, NEW r \in Processes,
           relay[r].pc \in Sending, NEW pc \in Sending,
           Becomes(r, At(relay[r], pc)),
           \/ relay[r].pc = "verify" /\ pc = "post" /\ ~Posted(r)
           \/ relay[r].pc = "reverify" /\ pc = "files" /\ Posted(r),
           UNCHANGED <<row, channel>>, Counted
    PROVE  \E v : WorkStep(r, v) /\ v.pc # "idle"
<1> DEFINE v == At(relay[r], pc)
<1>1. RelayOK(relay[r]) /\ InHand(r) = Head(relay[r].queue)
      /\ channel[InHand(r)].posts \in Nat
  BY Acting DEF Sending
<1>2. /\ RelayOK(v) /\ v.pc = pc /\ v.queue = relay[r].queue
      /\ v.seen = relay[r].seen /\ SameClaims(v, relay[r])
      /\ v.posted = relay[r].posted
  BY <1>1, AtShape DEF Pcs, Sending
<1> HIDE DEF v
<1>3. Continues(relay[r], v, InHand(r))
  BY <1>1, <1>2 DEF Continues, Busy, Sending, Posted
<1>4. MoveOK(relay[r], v)
  BY <1>2, <1>3, PcMoves DEF Sending
<1>5. WorkStep(r, v)
  BY <1>4, QuietStep DEF v
<1> QED
  BY <1>2, <1>5 DEF Sending

-----------------------------------------------------------------------------
(* The actions of the send.                                                  *)

(* Looking for an earlier post.                                              *)
LEMMA VerifyWorks ==
    ASSUME DrainInv, NEW r \in Processes, Verify(r)
    PROVE  \E v : WorkStep(r, v) /\ v.pc # "idle"
<1>1. relay[r].pc = "verify" /\ UNCHANGED <<row, channel>>
  BY DEF Verify
<1>2. CASE Fault("store") /\ Fails(r)
  BY <1>1, <1>2, FailsWorks, CountsKept DEF Sending
<1>3. CASE /\ Posted(r) /\ NoFault
           /\ Becomes(r, At(Marked(relay[r], InHand(r)), "ack"))
  BY <1>1, <1>3, FoundWorks, CountsKept
<1>4. CASE ~Posted(r) /\ Becomes(r, At(relay[r], "post")) /\ NoFault
  BY <1>1, <1>4, AtWorks, CountsKept DEF Sending
<1> QED
  BY <1>2, <1>3, <1>4 DEF Verify

(* Looking after an unanswered post.                                         *)
LEMMA ReverifyWorks ==
    ASSUME DrainInv, NEW r \in Processes, Reverify(r)
    PROVE  \E v : WorkStep(r, v) /\ v.pc # "idle"
<1>1. relay[r].pc = "reverify" /\ UNCHANGED <<row, channel>>
  BY DEF Reverify
<1>2. CASE Fault("store") /\ Fails(r)
  BY <1>1, <1>2, FailsWorks, CountsKept DEF Sending
<1>3. CASE ~Posted(r) /\ Again(r) /\ NoFault
  BY <1>1, <1>3, AgainWorks, CountsKept
<1>4. CASE Posted(r) /\ Becomes(r, At(relay[r], "files")) /\ NoFault
  BY <1>1, <1>4, AtWorks, CountsKept DEF Sending
<1> QED
  BY <1>2, <1>3, <1>4 DEF Reverify

(* After a rate limit.                                                       *)
LEMMA LimitedWorks ==
    ASSUME DrainInv, NEW r \in Processes, Limited(r)
    PROVE  \E v : WorkStep(r, v) /\ v.pc # "idle"
<1>1. relay[r].pc = "limited" /\ UNCHANGED <<row, channel>>
  BY DEF Limited
<1>2. CASE /\ Posted(r) /\ NoFault
           /\ Becomes(r, At(Marked(relay[r], InHand(r)), "ack"))
  BY <1>1, <1>2, FoundWorks, CountsKept
<1>3. CASE ~Posted(r) /\ Again(r) /\ NoFault
  BY <1>1, <1>3, AgainWorks, CountsKept
<1>4. CASE Fault("store") /\ Again(r)
  BY <1>1, <1>4, AgainWorks, CountsKept
<1> QED
  BY <1>2, <1>3, <1>4 DEF Limited

(* The post: it lands, answered or not, or it does not.                      *)
LEMMA PostWorks ==
    ASSUME DrainInv, NEW r \in Processes, Post(r)
    PROVE  \E v : WorkStep(r, v) /\ v.pc # "idle"
<1> DEFINE w == relay[r]
           d == InHand(r)
<1>1. w.pc = "post" /\ UNCHANGED row
  BY DEF Post
<1>2. /\ RelayOK(w) /\ d \in Deliveries /\ d = Head(w.queue)
      /\ w.queue # <<>> /\ channel[d].posts \in Nat
      /\ channel \in [Deliveries -> [posts : Nat, files : Nat]]
      /\ row \in [Deliveries -> Row]
  BY <1>1, Acting DEF DrainInv
<1>3. ASSUME NEW v, Becomes(r, v), Counted,
             v = At(w, "files") \/ v = [w EXCEPT !.pc = "reverify"],
             channel' = [channel EXCEPT ![d].posts = @ + 1]
      PROVE  WorkStep(r, v) /\ v.pc # "idle"
  <2>1. /\ RelayOK(v) /\ v.pc \in {"files", "reverify"} /\ v.queue = w.queue
        /\ v.seen = w.seen /\ SameClaims(v, w) /\ v.posted = w.posted
    <3>1. CASE v = At(w, "files")
      BY <3>1, <1>2, AtShape DEF Pcs
    <3>2. CASE v = [w EXCEPT !.pc = "reverify"]
      <4>1. "reverify" \in Pcs /\ v = SetPc(w, "reverify")
        BY <3>2 DEF Pcs, SetPc
      <4> QED
        BY <4>1, <1>2, SetShape
    <3> QED
      BY <3>1, <3>2, <1>3
  <2>2. /\ channel' \in [Deliveries -> [posts : Nat, files : Nat]]
        /\ channel'[d] = [channel[d] EXCEPT !.posts = @ + 1]
        /\ \A x \in Deliveries : x # d => channel'[x] = channel[x]
    <3>1. channel[d] \in [posts : Nat, files : Nat]
      BY <1>2
    <3>2. [channel[d] EXCEPT !.posts = @ + 1] \in [posts : Nat, files : Nat]
      BY <3>1
    <3> QED
      BY <3>2, <1>2, <1>3
  <2>3. channel'[d].posts > 0
    BY <2>2, <1>2
  <2>4. Continues(w, v, d)
    BY <2>1, <2>3, <1>1, <1>2 DEF Continues, Busy, Sending
  <2>5. MoveOK(w, v)
    BY <2>1, <2>4, <1>1, PcMoves DEF Sending
  <2>6. relay' = [relay EXCEPT ![r] = v] /\ Excuses(r, v)
    BY <2>5, <1>3, BecomesExcuses
  <2>7. Busy(w, d)
    BY <1>1, <1>2 DEF Busy, Sending
  <2>8. \A x \in Deliveries : RowEffect(w, x) /\ ChannelEffect(w, v, x)
    BY <2>1, <2>2, <2>7, <1>1 DEF RowEffect, ChannelEffect
  <2> QED
    BY <2>1, <2>2, <2>5, <2>6, <2>8, <1>1, <1>2, <1>3 DEF WorkStep
<1>4. CASE /\ channel' = [channel EXCEPT ![d].posts = @ + 1]
           /\ Becomes(r, At(w, "files")) /\ NoFault
  BY <1>3, <1>4, CountsKept
<1>5. CASE /\ channel' = [channel EXCEPT ![d].posts = @ + 1]
           /\ Becomes(r, [w EXCEPT !.pc = "reverify"]) /\ Fault("post")
  BY <1>3, <1>5, CountsKept
<1>6. CASE Fault("post") /\ Fails(r) /\ UNCHANGED channel
  BY <1>1, <1>6, FailsWorks, CountsKept DEF Sending
<1>7. ASSUME NEW pc \in {"limited", "reverify"}, Fault("post"),
             Becomes(r, [w EXCEPT !.pc = pc]), UNCHANGED channel
      PROVE  \E v : WorkStep(r, v) /\ v.pc # "idle"
  <2> DEFINE v == SetPc(w, pc)
  <2>0. pc \in Pcs /\ Becomes(r, v)
    BY <1>7 DEF Pcs, SetPc
  <2>1. /\ RelayOK(v) /\ v.pc = pc /\ v.queue = w.queue
        /\ v.seen = w.seen /\ SameClaims(v, w) /\ v.posted = w.posted
    BY <2>0, <1>2, SetShape
  <2> HIDE DEF v
  <2>2. Continues(w, v, d)
    BY <2>1, <1>1, <1>2, <1>7 DEF Continues, Busy, Sending
  <2>3. MoveOK(w, v)
    BY <2>1, <2>2, <1>1, PcMoves DEF Sending
  <2>4. WorkStep(r, v)
    BY <2>0, <2>3, <1>1, <1>7, QuietStep, CountsKept
  <2> QED
    BY <2>1, <2>4
<1> QED
  BY <1>4, <1>5, <1>6, <1>7 DEF Post

(* The files, and the post remembered; or an upload that failed.             *)
LEMMA UploadWorks ==
    ASSUME DrainInv, NEW r \in Processes, Upload(r)
    PROVE  \E v : WorkStep(r, v) /\ v.pc # "idle"
<1> DEFINE w == relay[r]
           d == InHand(r)
           v == At(Marked(w, d), "ack")
<1>1. w.pc = "files" /\ UNCHANGED row
  BY DEF Upload
<1>2. /\ RelayOK(w) /\ d \in Deliveries /\ d = Head(w.queue)
      /\ channel \in [Deliveries -> [posts : Nat, files : Nat]]
      /\ row \in [Deliveries -> Row] /\ KnowledgeFits(w)
  BY <1>1, Acting DEF DrainInv
<1>3. Busy(w, d)
  BY <1>1, <1>2 DEF Busy, Sending
<1>4. CASE Fault("post") /\ UNCHANGED channel /\ Fails(r)
  BY <1>1, <1>4, FailsWorks, CountsKept DEF Sending
<1>5. ASSUME Becomes(r, v), Counted,
             \/ channel' = [channel EXCEPT ![d].files = @ + 1]
             \/ channel' = channel
      PROVE  WorkStep(r, v) /\ v.pc # "idle"
  <2>1. channel[d] \in [posts : Nat, files : Nat]
    BY <1>2
  <2>2. [channel[d] EXCEPT !.files = @ + 1] \in [posts : Nat, files : Nat]
    BY <2>1
  <2>3. /\ channel' \in [Deliveries -> [posts : Nat, files : Nat]]
        /\ \/ channel'[d] = [channel[d] EXCEPT !.files = @ + 1]
           \/ channel'[d] = channel[d]
        /\ \A x \in Deliveries : x # d => channel'[x] = channel[x]
    BY <2>2, <1>2, <1>5
  <2>4. channel'[d].posts = channel[d].posts
    BY <2>1, <2>3
  <2>5. d \in Unkeyed \/ channel'[d].posts > 0
    BY <2>4, <1>1, <1>2 DEF KnowledgeFits
  <2>6. MoveOK(w, v) /\ v.pc = "ack"
    BY <2>5, <1>1, MarkedMoves
  <2> HIDE DEF v
  <2>7. relay' = [relay EXCEPT ![r] = v] /\ Excuses(r, v)
    BY <2>6, <1>5, BecomesExcuses
  <2>8. \A x \in Deliveries : RowEffect(w, x) /\ ChannelEffect(w, v, x)
    BY <2>3, <2>6, <1>1, <1>3 DEF RowEffect, ChannelEffect
  <2> QED
    BY <2>3, <2>6, <2>7, <2>8, <1>1, <1>2, <1>5 DEF WorkStep
<1>6. CASE Becomes(r, v) /\ NoFault
           /\ channel' = [channel EXCEPT ![d].files = @ + 1]
  BY <1>5, <1>6, CountsKept
<1>7. CASE Becomes(r, v) /\ Fault("post") /\ UNCHANGED channel
  BY <1>5, <1>7, CountsKept
<1> QED
  BY <1>4, <1>6, <1>7 DEF Upload

(* The acknowledgement, or its failure, applied or not.                      *)
LEMMA AckWorks ==
    ASSUME DrainInv, NEW r \in Processes, Ack(r)
    PROVE  \E v : WorkStep(r, v) /\ v.pc # "idle"
<1> DEFINE w == relay[r]
           d == InHand(r)
<1>1. w.pc = "ack" /\ UNCHANGED channel
  BY DEF Ack
<1>2. /\ RelayOK(w) /\ QueueFits(w) /\ d \in Deliveries /\ d = Head(w.queue)
      /\ w.queue # <<>> /\ w.got = {}
      /\ channel \in [Deliveries -> [posts : Nat, files : Nat]]
      /\ row \in [Deliveries -> Row]
  BY <1>1, Acting DEF DrainInv
<1>3. CASE Fault("store") /\ Fails(r) /\ UNCHANGED row
  BY <1>1, <1>3, FailsWorks, CountsKept DEF Sending
<1>4. ASSUME NEW v, Becomes(r, v), MoveOK(w, v), AckRow(d), Counted
      PROVE  WorkStep(r, v)
  <2>1. /\ row' \in [Deliveries -> Row]
        /\ row'[d] = [row[d] EXCEPT !.status = "delivered"]
        /\ \A x \in Deliveries : x # d => row'[x] = row[x]
    <3>1. row[d] \in Row
      BY <1>2
    <3>2. [row[d] EXCEPT !.status = "delivered"] \in Row
      BY <3>1 DEF Row
    <3> QED
      BY <3>2, <1>2, <1>4 DEF AckRow
  <2>2. relay' = [relay EXCEPT ![r] = v] /\ Excuses(r, v)
    BY <1>4, BecomesExcuses
  <2>3. Busy(w, d)
    BY <1>1, <1>2 DEF Busy
  <2>4. \A x \in Deliveries : RowEffect(w, x) /\ ChannelEffect(w, v, x)
    BY <2>1, <2>3, <1>1 DEF RowEffect, ChannelEffect
  <2> QED
    BY <2>1, <2>2, <2>4, <1>1, <1>2, <1>4 DEF WorkStep
<1>5. CASE AckRow(d) /\ Fault("store") /\ Fails(r)
  <2> DEFINE v == Onward(Failed(w, d))
  <2>1. Becomes(r, v) /\ MoveOK(w, v) /\ Counted /\ v.pc = "next"
    BY <1>1, <1>5, FailsMoves, CountsKept DEF Fails
  <2> HIDE DEF v
  <2>2. WorkStep(r, v)
    BY <2>1, <1>4, <1>5
  <2> QED
    BY <2>1, <2>2
<1>6. CASE AckRow(d) /\ Becomes(r, Onward(Cleared(w, d))) /\ NoFault
  <2> DEFINE u == Cleared(w, d)
             v == Onward(u)
  <2>1. RelayOK(u) /\ SameDrain(u, w) /\ Elems(u.posted) \subseteq Elems(w.posted)
    BY <1>2, ForgetShape
  <2> HIDE DEF u
  <2>2. /\ RelayOK(v) /\ v.pc = "next" /\ v.queue = Tail(w.queue)
        /\ v.seen = w.seen /\ SameClaims(v, w) /\ v.posted = u.posted
    <3>1. u.queue = w.queue /\ u.seen = w.seen /\ SameClaims(u, w)
      BY <2>1 DEF SameDrain, SameClaims
    <3>2. w.queue # <<>>
      BY <1>1, <1>2
    <3>3. /\ RelayOK(v) /\ v.pc = "next" /\ v.queue = Tail(u.queue)
          /\ v.seen = u.seen /\ SameClaims(v, u) /\ v.posted = u.posted
      BY <2>1, <3>1, <3>2, OnwardShape
    <3> QED
      BY <3>1, <3>3 DEF SameClaims
  <2>3. Becomes(r, v) /\ Counted
    BY <1>6, CountsKept DEF u
  <2>4. Remembers(w, v)
    BY <2>1, <2>2 DEF Remembers
  <2> HIDE DEF v
  <2>5. MoveOK(w, v)
    BY <2>2, <2>4, <1>2, LeaveMoves
  <2>6. WorkStep(r, v)
    BY <2>3, <2>5, <1>4, <1>6
  <2> QED
    BY <2>2, <2>6
<1> QED
  BY <1>3, <1>5, <1>6 DEF Ack

-----------------------------------------------------------------------------
(* The actions of the drain that make no claim.                              *)

(* A relay that passes the row in hand by.                                   *)
LEMMA SkippedShape ==
    ASSUME NEW w, RelayOK(w), w.queue # <<>>
    PROVE  /\ RelayOK(Skipped(w)) /\ Skipped(w).pc = "next"
           /\ Skipped(w).queue = Tail(w.queue) /\ SameClaims(Skipped(w), w)
           /\ Skipped(w).seen = w.seen \ {Head(w.queue)}
           /\ Skipped(w).posted = w.posted
<1> DEFINE u == Onward(w)
<1>1. /\ RelayOK(u) /\ u.pc = "next" /\ u.queue = Tail(w.queue)
      /\ u.seen = w.seen /\ SameClaims(u, w) /\ u.posted = w.posted
  BY OnwardShape
<1>2. u \in Relay /\ Len(u.posted) <= MaxTracked /\ u.seen \subseteq Deliveries
  BY <1>1, RelayFields DEF RelayOK
<1>3. Skipped(w) = [u EXCEPT !.seen = @ \ {Head(w.queue)}]
  BY DEF Skipped
<1> HIDE DEF u
<1> DEFINE h == Head(w.queue)
<1> HIDE DEF h
<1>4. Skipped(w) = [u EXCEPT !.seen = @ \ {h}]
  BY <1>3 DEF h
<1>5. /\ Skipped(w).pc = "next"
      /\ Skipped(w).queue = Tail(w.queue) /\ SameClaims(Skipped(w), w)
      /\ Skipped(w).seen = w.seen \ {h}
      /\ Skipped(w).posted = w.posted
  BY <1>1, <1>2, <1>4 DEF Relay, SameClaims
<1>6. Skipped(w) \in Relay
  BY <1>2, <1>4 DEF Relay
<1> QED
  BY <1>1, <1>2, <1>5, <1>6 DEF RelayOK, h

(* A claim that did not return the row: once more, or on.                    *)
LEMMA MissedShape ==
    ASSUME NEW w, RelayOK(w), w.queue # <<>>
    PROVE  /\ RelayOK(Missed(w)) /\ SameClaims(Missed(w), w)
           /\ Missed(w).posted = w.posted
           /\ \/ /\ Missed(w).pc = "reclaim" /\ Missed(w).queue = w.queue
                 /\ Missed(w).seen = w.seen
              \/ /\ Missed(w).pc = "next" /\ Missed(w).queue = Tail(w.queue)
                 /\ Missed(w).seen = w.seen \ {Head(w.queue)}
<1>1. CASE w.attempt < 2
  <2> DEFINE n == w.attempt + 1
             v == SetTry(w, "reclaim", n)
  <2>1. n \in 0..2 /\ "reclaim" \in Pcs
    <3>1. w.attempt \in 0..2
      BY RelayFields DEF RelayOK
    <3> QED
      BY <3>1, <1>1 DEF Pcs
  <2>2. Missed(w) = v
    BY <1>1 DEF Missed, SetTry
  <2> HIDE DEF n
  <2>3. Tried(w, v, "reclaim")
    BY <2>1, TryShape, Zenon
  <2> HIDE DEF v
  <2> QED
    BY <2>2, <2>3 DEF Tried
<1>2. CASE ~(w.attempt < 2)
  BY <1>2, SkippedShape DEF Missed
<1> QED
  BY <1>1, <1>2

(* Where the drain of w stands once the answer of its claim, if it waits for *)
(* one, is there.                                                            *)
Carries(w, u) ==
    /\ RelayOK(u) /\ u.posted = w.posted /\ u.real = w.real /\ u.got = {}
    /\ Distinct(u.queue) /\ Elems(u.queue) \subseteq u.seen
    /\ Elems(u.queue) \subseteq Elems(w.queue) \cup w.got
    /\ w.queue # <<>> => u.queue # <<>> /\ Head(u.queue) = Head(w.queue)
    /\ \A d \in Deliveries : Knows(u, d) => Knows(w, d)

(* It goes on to the next row, ...                                           *)
LEMMA CarriedOn ==
    ASSUME NEW w, RelayOK(w), w.pc \notin Sending \cup {"ack"},
           NEW u, Carries(w, u),
           NEW v, RelayOK(v), v.posted = u.posted, SameClaims(v, u),
           v.pc = "next",
           \/ v.queue = u.queue /\ v.seen = u.seen
           \/ /\ u.queue # <<>> /\ v.queue = Tail(u.queue)
              /\ v.seen = u.seen \/ v.seen = u.seen \ {Head(u.queue)}
    PROVE  MoveOK(w, v)
<1>1. /\ w \in Relay /\ u \in Relay /\ u.queue \in Seq(Deliveries)
      /\ w.real \in [Deliveries -> 0..ClaimMs]
      /\ Distinct(u.queue) /\ Elems(u.queue) \subseteq u.seen
      /\ Elems(u.queue) \subseteq Elems(w.queue) \cup w.got
  BY RelayFields DEF RelayOK, Carries
<1>2. v.got = {} /\ v.real = w.real
  BY DEF Carries, SameClaims
<1>3. /\ Distinct(v.queue) /\ Elems(v.queue) \subseteq Elems(u.queue)
      /\ Elems(v.queue) \subseteq v.seen
  <2>1. CASE v.queue = u.queue /\ v.seen = u.seen
    BY <2>1, <1>1
  <2>2. CASE /\ u.queue # <<>> /\ v.queue = Tail(u.queue)
             /\ v.seen = u.seen \/ v.seen = u.seen \ {Head(u.queue)}
    <3>1. /\ Distinct(Tail(u.queue))
          /\ Elems(Tail(u.queue)) = Elems(u.queue) \ {Head(u.queue)}
      BY <2>2, <1>1, TailElems
    <3> QED
      BY <3>1, <2>2, <1>1
  <2> QED
    BY <2>1, <2>2
<1>4. QueueFits(v)
  BY <1>2, <1>3 DEF QueueFits
<1>5. \A d \in Deliveries : ~Busy(v, d)
  BY DEF Busy, Sending
<1>6. \A d \in Deliveries : Awaits(v, d) => Awaits(w, d)
  BY <1>1, <1>2, <1>3 DEF Awaits, Waits, Busy
<1>7. \A d \in Deliveries : v.real[d] <= w.real[d]
  BY <1>1, <1>2
<1>8. \A d \in Deliveries : Knows(v, d) => Knows(w, d)
  BY DEF Carries, SameClaims, Knows
<1>9. Elems(v.queue) \subseteq Elems(w.queue) \cup w.got
  BY <1>1, <1>3
<1>10. \A d \in Elems(v.posted) : d \in Elems(w.posted)
  BY DEF Carries
<1> QED
  BY <1>2, <1>4, <1>5, <1>6, <1>7, <1>8, <1>9, <1>10 DEF MoveOK

(* ... or is at the row in hand.                                             *)
LEMMA CarriedAt ==
    ASSUME NEW w, RelayOK(w), w.pc \notin Sending \cup {"ack"}, w.queue # <<>>,
           NEW u, Carries(w, u),
           NEW v, RelayOK(v), v.posted = u.posted, SameClaims(v, u),
           v.queue = u.queue, v.seen = u.seen,
           v.pc \in Sending \cup {"reclaim", "ack"},
           v.pc # "reclaim" => Enters(w, v, Head(w.queue))
    PROVE  MoveOK(w, v)
<1>1. /\ w \in Relay /\ w.real \in [Deliveries -> 0..ClaimMs]
      /\ Distinct(u.queue) /\ Elems(u.queue) \subseteq u.seen
      /\ Elems(u.queue) \subseteq Elems(w.queue) \cup w.got
      /\ u.queue # <<>> /\ Head(u.queue) = Head(w.queue)
  BY RelayFields DEF RelayOK, Carries
<1>2. v.got = {} /\ v.real = w.real
  BY DEF Carries, SameClaims
<1>3. v.pc \notin {"idle", "claim", "claimed", "reclaimed"}
  BY DEF Sending
<1>4. QueueFits(v)
  BY <1>1, <1>2, <1>3 DEF QueueFits
<1>5. \A d \in Deliveries : Busy(v, d) => Enters(w, v, d)
  BY <1>1 DEF Busy, Sending
<1>6. \A d \in Deliveries : Awaits(v, d) => Awaits(w, d)
  BY <1>1, <1>2 DEF Awaits, Waits, Busy
<1>7. \A d \in Deliveries : v.real[d] <= w.real[d]
  BY <1>1, <1>2
<1>8. \A d \in Deliveries : Knows(v, d) => Knows(w, d)
  BY DEF Carries, SameClaims, Knows
<1>9. \A d \in Elems(v.posted) : d \in Elems(w.posted)
  BY DEF Carries
<1> QED
  BY <1>1, <1>2, <1>4, <1>5, <1>6, <1>7, <1>8, <1>9 DEF MoveOK

(* deliverWithRetry() up to its first call.                                  *)
LEMMA BeginMoves ==
    ASSUME DrainInv, NEW w, RelayOK(w), KnowledgeFits(w),
           w.pc \notin Sending \cup {"ack"}, w.queue # <<>>,
           NEW d \in Deliveries, d = Head(w.queue), Waits(w, d), Knows(w, d),
           NEW u, Carries(w, u)
    PROVE  MoveOK(w, Begin(u, d)) /\ Begin(u, d).pc # "idle"
<1>1. /\ RelayOK(u) /\ u.queue # <<>> /\ Head(u.queue) = d
      /\ u.posted = w.posted
  BY DEF Carries
<1>2. CASE d \in u.dead
  <2> DEFINE v == Onward(u)
  <2>1. /\ RelayOK(v) /\ v.pc = "next" /\ v.queue = Tail(u.queue)
        /\ v.seen = u.seen /\ SameClaims(v, u) /\ v.posted = u.posted
    BY <1>1, OnwardShape
  <2>2. Begin(u, d) = v
    BY <1>2 DEF Begin
  <2> HIDE DEF v
  <2>3. MoveOK(w, v)
    BY <2>1, <1>1, CarriedOn
  <2> QED
    BY <2>1, <2>2, <2>3
<1>3. ASSUME NEW pc \in {"ack", "files", "verify", "post"},
             pc = "ack" => d \in Elems(u.posted),
             pc = "files" => d \in Unkeyed,
             pc = "post" => Young(d),
             Begin(u, d) = At(u, pc)
      PROVE  MoveOK(w, Begin(u, d)) /\ Begin(u, d).pc # "idle"
  <2> DEFINE v == At(u, pc)
  <2>1. /\ RelayOK(v) /\ v.pc = pc /\ v.queue = u.queue
        /\ v.seen = u.seen /\ SameClaims(v, u) /\ v.posted = u.posted
    BY <1>1, AtShape DEF Pcs
  <2>2. Begin(u, d) = v
    BY <1>3
  <2> HIDE DEF v
  <2>3. pc = "ack" => Shown(d)
    BY <1>1, <1>3 DEF KnowledgeFits, Shown
  <2>4. Enters(w, v, d)
    BY <2>1, <2>3, <1>3 DEF Enters
  <2>5. v.pc \in Sending \cup {"reclaim", "ack"}
    BY <2>1, <1>3 DEF Sending
  <2>6. MoveOK(w, v)
    BY <2>1, <2>4, <2>5, CarriedAt
  <2> QED
    BY <2>1, <2>2, <2>6, <1>3
<1>4. CASE d \notin u.dead /\ \E i \in DOMAIN u.posted : u.posted[i] = d
  <2>1. Begin(u, d) = At(u, "ack") /\ d \in Elems(u.posted)
    BY <1>4 DEF Begin, Elems
  <2> QED
    BY <2>1, <1>3
<1> DEFINE New == d \notin u.dead /\ ~ \E i \in DOMAIN u.posted : u.posted[i] = d
<1>5. CASE New /\ d \in Unkeyed
  <2>1. Begin(u, d) = At(u, "files")
    BY <1>5 DEF Begin
  <2> QED
    BY <2>1, <1>3, <1>5
<1>6. CASE New /\ d \notin Unkeyed /\ Recovered(d)
  <2>1. Begin(u, d) = At(u, "verify")
    BY <1>6 DEF Begin
  <2> QED
    BY <2>1, <1>3
<1>7. CASE New /\ d \notin Unkeyed /\ ~Recovered(d)
  <2>1. Begin(u, d) = At(u, "post")
    BY <1>7 DEF Begin
  <2>2. row[d].age \in Nat
    <3>1. row[d] \in Row
      BY DEF DrainInv
    <3> QED
      BY <3>1 DEF Row
  <2>3. Young(d)
    BY <2>2, <1>7, DeliveryAssumption DEF Recovered, Young
  <2> QED
    BY <2>1, <2>3, <1>3
<1> QED
  BY <1>2, <1>4, <1>5, <1>6, <1>7

(* A relay that waits for no answer carries on as it is.                     *)
LEMMA CarriesItself ==
    ASSUME NEW w, RelayOK(w), QueueFits(w), w.got = {}
    PROVE  Carries(w, w)
  BY DEF Carries, QueueFits

(* The head of a queue.                                                      *)
LEMMA HeadQueued ==
    ASSUME NEW w, RelayOK(w), QueueFits(w), w.queue # <<>>
    PROVE  Head(w.queue) \in Elems(w.queue) /\ Head(w.queue) \in Deliveries
<1>1. w.queue \in Seq(Deliveries) /\ Distinct(w.queue)
  BY RelayFields DEF RelayOK, QueueFits
<1> QED
  BY <1>1, TailElems

(* A relay at "reclaim" that does not get the row.                           *)
LEMMA MissedMoves ==
    ASSUME NEW w, RelayOK(w), w.pc \in {"reclaim", "reclaimed"}, w.queue # <<>>,
           NEW u, Carries(w, u),
           NEW v, v = Missed(u) \/ v = Skipped(u)
    PROVE  MoveOK(w, v) /\ v.pc # "idle"
<1>1. RelayOK(u) /\ u.queue # <<>> /\ w.pc \notin Sending \cup {"ack"}
  BY DEF Carries, Sending
<1>2. /\ RelayOK(v) /\ SameClaims(v, u) /\ v.posted = u.posted
      /\ \/ v.pc = "reclaim" /\ v.queue = u.queue /\ v.seen = u.seen
         \/ /\ v.pc = "next" /\ v.queue = Tail(u.queue)
            /\ v.seen = u.seen \ {Head(u.queue)}
  BY <1>1, MissedShape, SkippedShape
<1>3. CASE v.pc = "next"
  BY <1>1, <1>2, <1>3, CarriedOn
<1>4. CASE v.pc = "reclaim"
  BY <1>1, <1>2, <1>4, CarriedAt
<1> QED
  BY <1>2, <1>3, <1>4

(* The head of the loop.                                                     *)
LEMMA NextRowWorks ==
    ASSUME DrainInv, NEW r \in Processes, NextRow(r)
    PROVE  \E v : WorkStep(r, v) /\ v.pc # "idle"
<1> DEFINE w == relay[r]
           d == Head(w.queue)
<1>1. /\ w.pc = "next" /\ w.queue # <<>> /\ UNCHANGED <<row, channel>> /\ NoFault
      /\ Becomes(r, IF Trusts(w, d) THEN Begin(w, d) ELSE At(w, "reclaim"))
  BY DEF NextRow, NoFault
<1>2. RelayOK(w) /\ QueueFits(w) /\ KnowledgeFits(w) /\ w \in Relay /\ w.got = {}
  BY <1>1, Acting
<1>3. d \in Elems(w.queue) /\ d \in Deliveries
  BY <1>1, <1>2, HeadQueued
<1>4. Waits(w, d) /\ w.pc \notin Sending \cup {"ack"}
  BY <1>1, <1>3 DEF Waits, Busy, Sending
<1>5. ASSUME NEW v, Becomes(r, v), MoveOK(w, v), v.pc # "idle"
      PROVE  \E x : WorkStep(r, x) /\ x.pc # "idle"
  <2>1. WorkStep(r, v)
    BY <1>1, <1>5, QuietStep, CountsKept
  <2> QED
    BY <2>1, <1>5
<1>6. Carries(w, w)
  BY <1>2, CarriesItself
<1> HIDE DEF w
<1>7. CASE ~Trusts(w, d)
  <2> DEFINE v == At(w, "reclaim")
  <2>1. /\ RelayOK(v) /\ v.pc = "reclaim" /\ v.queue = w.queue
        /\ v.seen = w.seen /\ SameClaims(v, w) /\ v.posted = w.posted
    BY <1>2, AtShape DEF Pcs
  <2>2. Becomes(r, v)
    BY <1>1, <1>7
  <2> HIDE DEF v
  <2>3. MoveOK(w, v)
    BY <2>1, <1>1, <1>2, <1>4, <1>6, CarriedAt
  <2> QED
    BY <2>1, <2>2, <2>3, <1>5
<1>8. CASE Trusts(w, d)
  <2>1. Knows(w, d)
    <3>1. w.exp[d] \in Nat
      <4>1. w.exp \in [Deliveries -> 0..ClaimMs]
        BY <1>2, RelayFields
      <4> QED
        BY <4>1, <1>3
    <3> QED
      BY <3>1, <1>8, DeliveryAssumption DEF Trusts, Knows
  <2> DEFINE v == Begin(w, d)
  <2>2. Becomes(r, v)
    BY <1>1, <1>8
  <2>3. MoveOK(w, v) /\ v.pc # "idle"
    BY <2>1, <1>1, <1>2, <1>3, <1>4, <1>6, BeginMoves
  <2> HIDE DEF v
  <2> QED
    BY <2>2, <2>3, <1>5
<1> QED
  BY <1>7, <1>8

(* The answer of a claim.                                                    *)
LEMMA AnsweredShape ==
    ASSUME NEW w, RelayOK(w), QueueFits(w),
           NEW fresh \in Orders(w.got \ w.seen), NEW u,
           u = Answered(w, fresh)
    PROVE  Carries(w, u)
<1>1. w \in Relay /\ Len(w.posted) <= MaxTracked /\ ClaimMs \in Nat /\ ClaimMs > 0
  BY DeliveryAssumption DEF RelayOK
<1>2. /\ w.queue \in Seq(Deliveries) /\ w.seen \subseteq Deliveries
      /\ w.exp \in [Deliveries -> 0..ClaimMs] /\ w.got \subseteq Deliveries
  BY <1>1, RelayFields
<1>3. Distinct(w.queue) /\ Elems(w.queue) \subseteq w.seen
  BY DEF QueueFits
<1> DEFINE new == w.got \ w.seen
<1>4. new \in SUBSET Deliveries /\ IsFiniteSet(new)
  <2>1. new \in SUBSET Deliveries
    BY <1>2
  <2>2. IsFiniteSet(Deliveries)
    BY DeliveryAssumption
  <2> QED
    BY <2>1, <2>2, FS_Subset
<1>5. fresh \in Seq(Deliveries) /\ Distinct(fresh) /\ Elems(fresh) = new
  BY <1>4, OrdersElems
<1>6. Elems(w.queue) \cap Elems(fresh) = {}
  BY <1>3, <1>5
<1> DEFINE q == w.queue \o fresh
           seen == w.seen \cup w.got
           exp == [d \in Deliveries |-> IF d \in w.got THEN ClaimMs ELSE w.exp[d]]
<1>7. /\ q \in Seq(Deliveries) /\ Distinct(q)
      /\ Elems(q) = Elems(w.queue) \cup Elems(fresh)
      /\ w.queue # <<>> => q # <<>> /\ Head(q) = Head(w.queue)
  BY <1>2, <1>3, <1>5, <1>6, ConcatElems
<1>8. u = [w EXCEPT !.queue = q, !.seen = seen, !.got = {}, !.exp = exp]
  BY DEF Answered
<1>9. /\ seen \subseteq Deliveries /\ exp \in [Deliveries -> 0..ClaimMs]
      /\ \A d \in Deliveries : exp[d] > 0 => Knows(w, d)
  <2>1. ClaimMs \in 0..ClaimMs
    BY <1>1
  <2> QED
    BY <2>1, <1>2 DEF Knows
<1>10. Elems(q) \subseteq seen /\ Elems(q) \subseteq Elems(w.queue) \cup w.got
  BY <1>3, <1>5, <1>7
<1> HIDE DEF q, seen, exp
<1>11. /\ u.posted = w.posted /\ u.real = w.real /\ u.got = {}
       /\ u.queue = q /\ u.seen = seen /\ u.exp = exp
  BY <1>1, <1>8 DEF Relay
<1>12. u \in Relay
  BY <1>1, <1>7, <1>8, <1>9 DEF Relay
<1>13. \A d \in Deliveries : Knows(u, d) => Knows(w, d)
  BY <1>9, <1>11 DEF Knows
<1> QED
  BY <1>1, <1>7, <1>10, <1>11, <1>12, <1>13 DEF RelayOK, Carries

(* The answer of the first claim of a drain.                                 *)
LEMMA ClaimAnsweredWorks ==
    ASSUME DrainInv, NEW r \in Processes, ClaimAnswered(r)
    PROVE  \E v : WorkStep(r, v) /\ v.pc # "idle"
<1> DEFINE w == relay[r]
<1>1. w.pc = "claimed" /\ UNCHANGED <<row, channel>> /\ NoFault
  BY DEF ClaimAnswered, NoFault
<1>2. PICK fresh \in Orders(w.got) :
          Becomes(r, At(Answered(w, fresh), "next"))
  BY DEF ClaimAnswered
<1>3. /\ RelayOK(w) /\ QueueFits(w) /\ w.seen = {}
      /\ w.pc \notin Sending \cup {"ack"}
  BY <1>1, Acting DEF QueueFits, Sending
<1> DEFINE u == Answered(w, fresh)
           v == At(u, "next")
<1>4. Carries(w, u)
  <2>1. w.got = w.got \ w.seen
    BY <1>3
  <2>2. fresh \in Orders(w.got \ w.seen)
    BY <2>1
  <2> QED
    BY <2>2, <1>3, AnsweredShape
<1>5. Becomes(r, v)
  BY <1>2
<1> HIDE DEF u, w
<1>6. /\ RelayOK(v) /\ v.pc = "next" /\ v.queue = u.queue
      /\ v.seen = u.seen /\ SameClaims(v, u) /\ v.posted = u.posted
  BY <1>4, AtShape DEF Carries, Pcs
<1> HIDE DEF v
<1>7. MoveOK(w, v)
  BY <1>3, <1>4, <1>6, CarriedOn
<1>8. WorkStep(r, v)
  BY <1>1, <1>5, <1>7, QuietStep, CountsKept DEF w
<1> QED
  BY <1>6, <1>8

(* The answer of a claim for a row whose claim lapsed.                       *)
LEMMA ReclaimAnsweredWorks ==
    ASSUME DrainInv, NEW r \in Processes, ReclaimAnswered(r)
    PROVE  \E v : WorkStep(r, v) /\ v.pc # "idle"
<1> DEFINE w == relay[r]
           d == Head(w.queue)
<1>1. w.pc = "reclaimed" /\ UNCHANGED <<row, channel>> /\ NoFault
  BY DEF ReclaimAnswered, NoFault
<1>2. PICK fresh \in Orders(w.got \ w.seen) :
          Becomes(r, IF d \notin w.got THEN Missed(Answered(w, fresh))
                     ELSE IF hold[r] = "lost" THEN At(Answered(w, fresh), "next")
                     ELSE Begin(Answered(w, fresh), d))
  BY DEF ReclaimAnswered
<1>3. /\ RelayOK(w) /\ QueueFits(w) /\ KnowledgeFits(w) /\ w.queue # <<>>
      /\ w.pc \notin Sending \cup {"ack"}
  BY <1>1, Acting DEF QueueFits, Sending
<1>4. d \in Elems(w.queue) /\ d \in Deliveries
  BY <1>3, HeadQueued
<1> DEFINE u == Answered(w, fresh)
<1>5. Carries(w, u)
  BY <1>3, AnsweredShape
<1>6. Becomes(r, IF d \notin w.got THEN Missed(u)
                 ELSE IF hold[r] = "lost" THEN At(u, "next") ELSE Begin(u, d))
  BY <1>2
<1>7. ASSUME NEW v, Becomes(r, v), MoveOK(w, v), v.pc # "idle"
      PROVE  \E x : WorkStep(r, x) /\ x.pc # "idle"
  <2>1. WorkStep(r, v)
    BY <1>1, <1>7, QuietStep, CountsKept
  <2> QED
    BY <2>1, <1>7
<1> HIDE DEF w, u
<1>8. CASE d \notin w.got
  <2> DEFINE v == Missed(u)
  <2>1. MoveOK(w, v) /\ v.pc # "idle"
    BY <1>1, <1>3, <1>5, MissedMoves
  <2>2. Becomes(r, v)
    BY <1>6, <1>8
  <2> HIDE DEF v
  <2> QED
    BY <2>1, <2>2, <1>7
<1>9. CASE d \in w.got /\ hold[r] = "lost"
  <2> DEFINE v == At(u, "next")
  <2>1. /\ RelayOK(v) /\ v.pc = "next" /\ v.queue = u.queue
        /\ v.seen = u.seen /\ SameClaims(v, u) /\ v.posted = u.posted
    BY <1>5, AtShape DEF Carries, Pcs
  <2>2. Becomes(r, v)
    BY <1>6, <1>9
  <2> HIDE DEF v
  <2>3. MoveOK(w, v)
    BY <2>1, <1>3, <1>5, CarriedOn
  <2> QED
    BY <2>1, <2>2, <2>3, <1>7
<1>10. CASE d \in w.got /\ hold[r] # "lost"
  <2> DEFINE v == Begin(u, d)
  <2>1. Waits(w, d) /\ Knows(w, d)
    BY <1>3, <1>4, <1>10 DEF Waits, Busy, Knows
  <2>2. MoveOK(w, v) /\ v.pc # "idle"
    BY <2>1, <1>3, <1>4, <1>5, BeginMoves
  <2>3. Becomes(r, v)
    BY <1>6, <1>10
  <2> HIDE DEF v
  <2> QED
    BY <2>2, <2>3, <1>7
<1> QED
  BY <1>8, <1>9, <1>10

(* A relay wins the lease.                                                   *)
LEMMA PollWorks ==
    ASSUME DrainInv, NEW r \in Processes, Poll(r)
    PROVE  \E v : WorkStep(r, v) /\ v.pc = "claim"
<1> DEFINE w == relay[r]
           v == SetPc(w, "claim")
<1>1. w.pc = "idle" /\ Becomes(r, v) /\ UNCHANGED <<row, channel>> /\ NoFault
  BY DEF Poll, SetPc, NoFault
<1>2. RelayOK(w) /\ QueueFits(w) /\ w \in Relay
  BY Acting
<1>3. /\ RelayOK(v) /\ v.pc = "claim" /\ v.queue = w.queue
      /\ v.seen = w.seen /\ SameClaims(v, w) /\ v.posted = w.posted
  BY <1>2, SetShape DEF Pcs
<1> HIDE DEF v
<1>4. v.queue = <<>> /\ v.seen = {} /\ v.got = {}
  BY <1>1, <1>2, <1>3 DEF QueueFits, SameClaims
<1>5. \A d \in Deliveries :
          v.real[d] <= w.real[d] /\ (v.exp[d] > 0 => w.exp[d] > 0)
  <2>1. w.real \in [Deliveries -> 0..ClaimMs]
    BY <1>2, RelayFields
  <2> QED
    BY <2>1, <1>3 DEF SameClaims
<1>6. MoveOK(w, v)
  BY <1>2, <1>3, <1>4, <1>5, RestMoves DEF Remembers
<1>7. WorkStep(r, v)
  BY <1>1, <1>6, QuietStep, CountsKept
<1> QED
  BY <1>3, <1>7

(* The drain ends.                                                           *)
LEMMA FinishWorks ==
    ASSUME DrainInv, NEW r \in Processes, Finish(r)
    PROVE  \E v : WorkStep(r, v) /\ v.pc = "idle"
<1> DEFINE w == relay[r]
           zero == NoClaims
           v == [w EXCEPT !.pc = "idle", !.queue = <<>>, !.seen = {},
                          !.exp = zero, !.real = zero, !.attempt = 0]
<1>1. /\ Becomes(r, v) /\ UNCHANGED <<row, channel>> /\ NoFault
      /\ w.pc = "next"
  BY DEF Finish, NoFault
<1>2. /\ RelayOK(w) /\ w \in Relay /\ Len(w.posted) <= MaxTracked
      /\ w.got = {}
  BY <1>1, Acting DEF RelayOK
<1>3. zero \in [Deliveries -> 0..ClaimMs] /\ \A d \in Deliveries : zero[d] = 0
  BY DeliveryAssumption DEF NoClaims
<1> HIDE DEF w, zero
<1>4. /\ v.pc = "idle" /\ v.queue = <<>>
      /\ v.seen = {} /\ v.exp = zero /\ v.real = zero
      /\ v.posted = w.posted /\ v.got = {}
  BY <1>2 DEF Relay
<1>5. v \in Relay
  <2> DEFINE u == SetTry(w, "idle", 0)
  <2>1. u \in Relay
    <3>1. "idle" \in Pcs /\ 0 \in 0..2
      BY DEF Pcs
    <3> QED
      BY <3>1, <1>2, TryShape DEF RelayOK, Tried
  <2>2. v = [u EXCEPT !.queue = <<>>, !.seen = {}, !.exp = zero, !.real = zero]
    BY <1>2 DEF Relay, SetTry
  <2> HIDE DEF u
  <2>3. ASSUME NEW q \in Seq(Deliveries), NEW S \in SUBSET Deliveries
        PROVE  [u EXCEPT !.queue = q, !.seen = S, !.exp = zero, !.real = zero]
                   \in Relay
    BY <2>1, <1>3 DEF Relay
  <2>4. <<>> \in Seq(Deliveries) /\ {} \in SUBSET Deliveries
    OBVIOUS
  <2> QED
    BY <2>2, <2>3, <2>4, Zenon
<1> HIDE DEF v
<1>6. \A d \in Deliveries :
          v.real[d] <= w.real[d] /\ (v.exp[d] > 0 => w.exp[d] > 0)
  <2>1. w.real \in [Deliveries -> 0..ClaimMs]
    BY <1>2, RelayFields
  <2> QED
    BY <2>1, <1>3, <1>4
<1>7. MoveOK(w, v)
  BY <1>2, <1>4, <1>5, <1>6, RestMoves DEF Remembers, RelayOK
<1>8. WorkStep(r, v)
  BY <1>1, <1>7, QuietStep, CountsKept DEF w
<1> QED
  BY <1>4, <1>8

(* The process dies and starts anew.                                         *)
LEMMA CrashWorks ==
    ASSUME DrainInv, NEW r \in Processes, Crash(r)
    PROVE  \E v : WorkStep(r, v) /\ v.pc = "idle"
<1> DEFINE w == relay[r]
           v == FreshRelay
<1>1. Becomes(r, v) /\ UNCHANGED <<row, channel>> /\ Fault("crash")
  BY DEF Crash
<1>2. RelayOK(w) /\ w \in Relay
  BY Acting
<1>3. /\ v.pc = "idle" /\ v.queue = <<>> /\ v.seen = {} /\ v.posted = <<>>
      /\ v.got = {}
      /\ \A d \in Deliveries : v.exp[d] = 0 /\ v.real[d] = 0
  BY DEF FreshRelay, NoClaims
<1>4. RelayOK(v)
  <2>1. v \in Relay
    <3>1. NoClaims \in [Deliveries -> 0..ClaimMs]
      BY DeliveryAssumption DEF NoClaims
    <3> QED
      BY <3>1, DeliveryAssumption DEF FreshRelay, Relay
  <2>2. Len(v.posted) <= MaxTracked
    BY <1>3, DeliveryAssumption
  <2> QED
    BY <2>1, <2>2 DEF RelayOK
<1> HIDE DEF v
<1>5. \A d \in Deliveries :
          v.real[d] <= w.real[d] /\ (v.exp[d] > 0 => w.exp[d] > 0)
  <2>1. w.real \in [Deliveries -> 0..ClaimMs]
    BY <1>2, RelayFields
  <2> QED
    BY <2>1, <1>3
<1>6. Remembers(w, v)
  BY <1>3 DEF Remembers, Elems
<1>7. MoveOK(w, v)
  BY <1>2, <1>3, <1>4, <1>5, <1>6, RestMoves
<1>8. WorkStep(r, v)
  BY <1>1, <1>7, QuietStep, CountsKept
<1> QED
  BY <1>3, <1>8

(* A delivery that was given up is tried again.                              *)
LEMMA GiveUpWorks ==
    ASSUME DrainInv, NEW r \in Processes, NEW e \in Deliveries, GiveUpEnds(r, e)
    PROVE  \E v : WorkStep(r, v) /\ v.pc = relay[r].pc
<1> DEFINE w == relay[r]
           v == [w EXCEPT !.dead = @ \ {e}]
<1>1. /\ relay' = [relay EXCEPT ![r] = v]
      /\ UNCHANGED <<row, channel, excused, enqueues, faults>>
  BY DEF GiveUpEnds, countVars
<1>2. RelayOK(w) /\ QueueFits(w) /\ w \in Relay /\ Len(w.posted) <= MaxTracked
  BY Acting DEF RelayOK
<1>3. w.dead \subseteq Deliveries /\ w.real \in [Deliveries -> 0..ClaimMs]
  BY <1>2, RelayFields
<1> HIDE DEF w
<1>4. /\ v.pc = w.pc /\ v.queue = w.queue /\ v.seen = w.seen
      /\ SameClaims(v, w) /\ v.posted = w.posted
  BY <1>2 DEF Relay, SameClaims
<1>5. v \in Relay
  BY <1>2, <1>3 DEF Relay
<1> HIDE DEF v
<1>6. MoveOK(w, v)
  <2>1. RelayOK(v) /\ QueueFits(v)
    BY <1>2, <1>4, <1>5 DEF RelayOK, QueueFits, SameClaims
  <2>2. \A d \in Deliveries : Busy(v, d) => Continues(w, v, d)
    BY <1>1, <1>4 DEF Busy, Continues
  <2>3. \A d \in Deliveries : Awaits(v, d) => Awaits(w, d)
    BY <1>4 DEF Awaits, Waits, Busy, SameClaims
  <2>4. \A d \in Deliveries :
            v.real[d] <= w.real[d] /\ (Knows(v, d) => Knows(w, d))
    BY <1>3, <1>4 DEF Knows, SameClaims
  <2> QED
    BY <2>1, <2>2, <2>3, <2>4, <1>4 DEF MoveOK, SameClaims
<1>7. Excuses(r, v)
  BY <1>1, <1>4 DEF Excuses, Sends, DrainInv, w
<1>8. WorkStep(r, v)
  BY <1>1, <1>6, <1>7 DEF WorkStep, RowEffect, ChannelEffect, Counted, DrainInv, w
<1> QED
  BY <1>4, <1>8 DEF w

-----------------------------------------------------------------------------
(* A claim.                                                                  *)

(* A relay sends a claim: its answer, if one comes, has rows it took.        *)
ClaimOK(w, v) ==
    /\ RelayOK(v) /\ QueueFits(v)
    /\ w.pc \in {"claim", "reclaim"} /\ v.pc \notin Sending \cup {"ack"}
    /\ Elems(v.queue) \subseteq Elems(w.queue) /\ v.got \subseteq ClaimedRows
    /\ v.posted = w.posted /\ v.exp = w.exp
    /\ \A d \in Deliveries :
          \/ v.real[d] = w.real[d]
          \/ d \in ClaimedRows /\ v.real[d] = ClaimMs

ClaimStep(r, v) ==
    /\ relay' = [relay EXCEPT ![r] = v]
    /\ ClaimOK(relay[r], v)
    /\ ClaimPending /\ channel' = channel /\ excused' = excused
    /\ Counted

(* What a claim does to a row.                                               *)
LEMMA ClaimedRow ==
    ASSUME DrainInv, ClaimPending, NEW d \in Deliveries
    PROVE  /\ row' \in [Deliveries -> Row]
           /\ row'[d].age = row[d].age
           /\ d \in ClaimedRows =>
                 /\ row[d].status = "pending" /\ row'[d].status = "pending"
                 /\ row[d].claim = 0 /\ row'[d].claim = ClaimMs
                 /\ row[d].age >= ClaimLag
           /\ d \notin ClaimedRows => row'[d].claim = row[d].claim
           /\ \/ row'[d].status = row[d].status
              \/ /\ row[d].status = "pending" /\ row'[d].status = "expired"
                 /\ row'[d].claim = 0
<1>1. row \in [Deliveries -> Row] /\ ClaimMs \in Nat
  BY DeliveryAssumption DEF DrainInv
<1>2. ASSUME NEW x \in Deliveries
      PROVE  row'[x] \in Row
  <2>1. row[x] \in Row /\ ClaimMs \in 0..ClaimMs
    BY <1>1
  <2>2. /\ [row[x] EXCEPT !.status = "expired"] \in Row
        /\ [row[x] EXCEPT !.claim = ClaimMs] \in Row
    BY <2>1 DEF Row
  <2> QED
    BY <2>1, <2>2 DEF ClaimPending
<1>3. row' \in [Deliveries -> Row]
  BY <1>2 DEF ClaimPending
<1>4. row[d] \in Row
  BY <1>1
<1>5. CASE Expired(d)
  BY <1>3, <1>4, <1>5 DEF ClaimPending, Expired, ClaimedRows, Claimable, Row
<1>6. CASE Claimable(d)
  BY <1>3, <1>4, <1>6 DEF ClaimPending, ClaimedRows, Claimable, Row
<1>7. CASE ~Expired(d) /\ ~Claimable(d)
  BY <1>3, <1>4, <1>7 DEF ClaimPending, ClaimedRows, Row
<1> QED
  BY <1>5, <1>6, <1>7

(* A claim keeps the first invariant: nothing is left of any claim of a row  *)
(* that can be claimed.                                                      *)
LEMMA ClaimKeeps ==
    ASSUME DrainInv, NEW r \in Processes, NEW v, ClaimStep(r, v)
    PROVE  DrainInv'
<1> DEFINE w == relay[r]
<1>1. w \in Relay /\ QueueFits(w) /\ KnowledgeFits(w)
  BY DEF DrainInv
<1>2. /\ ClaimOK(w, v) /\ relay' = [relay EXCEPT ![r] = v] /\ Counted
      /\ ClaimPending /\ channel' = channel /\ excused' = excused
  BY DEF ClaimStep
<1>3. /\ relay \in [Processes -> Relay] /\ relay'[r] = v /\ v \in Relay
      /\ \A q \in Processes : q # r => relay'[q] = relay[q]
  BY <1>2 DEF DrainInv, ClaimOK, RelayOK
<1> HIDE DEF w
<1>4. /\ relay' \in [Processes -> Relay]
      /\ \A q \in Processes : Len(relay'[q].posted) <= MaxTracked
  BY <1>2, <1>3 DEF DrainInv, ClaimOK, RelayOK
<1>5. /\ excused' \subseteq Deliveries
      /\ channel' \in [Deliveries -> [posts : Nat, files : Nat]]
      /\ enqueues' \in 0..MaxEnqueues /\ faults' \in 0..MaxFaults
  BY <1>2 DEF Counted, DrainInv
<1>6. ASSUME NEW d \in Deliveries
      PROVE  /\ row'[d] \in Row /\ row[d] \in Row
             /\ row'[d].claim \in Nat /\ row[d].claim \in Nat
             /\ row'[d].claim >= row[d].claim
             /\ row'[d].status = "absent" <=> row[d].status = "absent"
             /\ row'[d].status = "delivered" <=> row[d].status = "delivered"
             /\ d \in ClaimedRows => row[d].claim = 0 /\ row'[d].claim = ClaimMs
             /\ d \in ClaimedRows => row[d].status = "pending"
                                     /\ row'[d].status = "pending"
             /\ d \notin ClaimedRows => row'[d].claim = row[d].claim
             /\ row'[d].status = "expired" => row'[d].claim = 0
  <2>1. row'[d] \in Row /\ row[d] \in Row
    BY <1>2, ClaimedRow DEF DrainInv
  <2>2. row'[d].claim \in Nat /\ row[d].claim \in Nat /\ ClaimMs \in Nat
    BY <2>1, DeliveryAssumption DEF Row
  <2>3. RowFits(d)
    BY DEF DrainInv
  <2>4. /\ d \in ClaimedRows =>
              /\ row[d].status = "pending" /\ row'[d].status = "pending"
              /\ row[d].claim = 0 /\ row'[d].claim = ClaimMs
        /\ d \notin ClaimedRows => row'[d].claim = row[d].claim
        /\ \/ row'[d].status = row[d].status
           \/ /\ row[d].status = "pending" /\ row'[d].status = "expired"
              /\ row'[d].claim = 0
    BY <1>2, ClaimedRow
  <2> QED
    BY <2>1, <2>2, <2>3, <2>4 DEF RowFits
<1>7. row' \in [Deliveries -> Row]
  BY <1>6, <1>2 DEF ClaimPending
<1>8. ASSUME NEW q \in Processes
      PROVE  /\ relay[q].real \in [Deliveries -> 0..ClaimMs]
             /\ relay'[q].real \in [Deliveries -> 0..ClaimMs]
             /\ \A d \in Deliveries : relay[q].real[d] <= row[d].claim
             /\ \A d \in Deliveries : relay'[q].real[d] <= row'[d].claim
  <2>1. /\ relay[q].real \in [Deliveries -> 0..ClaimMs]
        /\ relay'[q].real \in [Deliveries -> 0..ClaimMs]
    BY <1>3, <1>4, RelayFields
  <2>2. \A d \in Deliveries :
            relay[q].real[d] \in Nat /\ relay'[q].real[d] \in Nat
    BY <2>1
  <2>3. \A d \in Deliveries : relay[q].real[d] <= row[d].claim
    BY DEF DrainInv, KnowledgeFits
  <2>4. CASE q # r
    BY <2>1, <2>2, <2>3, <2>4, <1>3, <1>6
  <2>5. CASE q = r
    <3>1. \A d \in Deliveries :
              \/ relay'[q].real[d] = relay[q].real[d]
              \/ d \in ClaimedRows /\ relay'[q].real[d] = ClaimMs
      BY <2>5, <1>2, <1>3 DEF ClaimOK, w
    <3>2. ClaimMs \in Nat
      BY DeliveryAssumption
    <3> QED
      BY <3>1, <3>2, <2>1, <2>2, <2>3, <1>6
  <2> QED
    BY <2>4, <2>5
<1>9. ASSUME NEW q \in Processes
      PROVE  QueueFits(relay[q])' /\ KnowledgeFits(relay[q])'
  <2>1. CASE q # r
    <3>1. relay'[q] = relay[q] /\ relay[q] \in Relay
      BY <1>3, <2>1
    <3>2. QueueFits(relay[q]) /\ KnowledgeFits(relay[q])
      BY DEF DrainInv
    <3>3. \A d \in Elems(relay[q].queue) : d \in Deliveries
      <4>1. relay[q].queue \in Seq(Deliveries)
        BY <3>1, RelayFields
      <4> QED
        BY <4>1 DEF Elems
    <3>4. QueueFits(relay[q])'
      BY <3>1, <3>2 DEF QueueFits, Elems, Distinct
    <3>5. /\ \A d \in Elems(relay[q].queue) : row'[d].status # "absent"
          /\ \A d \in Deliveries : Knows(relay[q], d) => row'[d].status # "absent"
      BY <3>2, <3>3, <1>6 DEF KnowledgeFits
    <3>6. KnowledgeFits(relay[q])'
      BY <3>1, <3>2, <3>5, <1>2, <1>8 DEF KnowledgeFits, Knows, Elems
    <3> QED
      BY <3>4, <3>6
  <2>2. CASE q = r
    <3>1. relay'[q] = v /\ v \in Relay /\ QueueFits(v)
      BY <1>2, <1>3, <2>2 DEF ClaimOK
    <3>2. QueueFits(relay[q])'
      BY <3>1 DEF QueueFits, Elems, Distinct
    <3>3. \A d \in Elems(w.queue) : d \in Deliveries
      <4>1. w.queue \in Seq(Deliveries)
        BY <1>1, RelayFields
      <4> QED
        BY <4>1 DEF Elems
    <3>4. \A d \in Elems(v.queue) : row'[d].status # "absent"
      <4>1. \A d \in Elems(w.queue) : row'[d].status # "absent"
        BY <3>3, <1>1, <1>6 DEF KnowledgeFits
      <4> QED
        BY <4>1, <1>2 DEF ClaimOK
    <3>5. \A d \in Elems(v.posted) \ Unkeyed : channel'[d].posts > 0
      BY <1>1, <1>2 DEF ClaimOK, KnowledgeFits
    <3>6. ASSUME NEW d \in Deliveries, Knows(v, d)
          PROVE  row'[d].status # "absent"
      <4>1. Knows(w, d) \/ d \in ClaimedRows
        BY <3>6, <1>2 DEF ClaimOK, Knows
      <4> QED
        BY <4>1, <1>1, <1>6 DEF KnowledgeFits
    <3>7. v.pc \notin {"files", "ack"}
      BY <1>2 DEF ClaimOK, Sending
    <3>8. KnowledgeFits(relay[q])'
      BY <3>1, <3>4, <3>5, <3>6, <3>7, <1>8 DEF KnowledgeFits, Knows, Elems
    <3> QED
      BY <3>2, <3>8
  <2> QED
    BY <2>1, <2>2
<1>10. \A d \in Deliveries : RowFits(d)'
  BY <1>2, <1>6 DEF DrainInv, RowFits
<1>11. RealExclusive'
  <2>1. SUFFICES ASSUME NEW p \in Processes, NEW q \in Processes,
                        NEW d \in Deliveries,
                        p # q, relay'[p].real[d] > 0
                 PROVE  relay'[q].real[d] = 0
    BY DEF RealExclusive
  <2>2. \A x \in Processes :
            relay[x].real[d] \in Nat /\ relay[x].real[d] <= row[d].claim
    BY <1>8
  <2>3. \/ v.real[d] = relay[r].real[d]
        \/ d \in ClaimedRows /\ v.real[d] = ClaimMs
    BY <1>2 DEF ClaimOK, w
  <2>4. CASE v.real[d] = relay[r].real[d]
    <3>1. \A x \in Processes : relay'[x].real[d] = relay[x].real[d]
      BY <2>4, <1>3
    <3> QED
      BY <3>1, <2>1 DEF DrainInv, RealExclusive
  <2>5. CASE d \in ClaimedRows
    <3>1. \A x \in Processes : relay[x].real[d] = 0
      BY <2>2, <2>5, <1>6
    <3>2. p = r
      BY <3>1, <2>1, <1>3
    <3> QED
      BY <3>1, <3>2, <2>1, <1>3
  <2> QED
    BY <2>3, <2>4, <2>5
<1> QED
  BY <1>4, <1>5, <1>7, <1>9, <1>10, <1>11 DEF DrainInv

(* A claim keeps the second invariant: the young row it takes is untouched.  *)
LEMMA ClaimKeepsSend ==
    ASSUME DrainInv, SendInv, ClaimLag > 0,
           NEW r \in Processes, NEW v, ClaimStep(r, v)
    PROVE  SendInv'
<1> DEFINE w == relay[r]
<1>1. w \in Relay /\ QueueFits(w) /\ w.pc \in {"claim", "reclaim"}
  BY DEF DrainInv, ClaimStep, ClaimOK
<1>2. /\ ClaimOK(w, v) /\ relay' = [relay EXCEPT ![r] = v]
      /\ ClaimPending /\ channel' = channel /\ excused' = excused
  BY DEF ClaimStep
<1>3. /\ relay \in [Processes -> Relay] /\ relay'[r] = v /\ v \in Relay
      /\ \A q \in Processes : q # r => relay'[q] = relay[q]
  BY <1>2 DEF DrainInv, ClaimOK, RelayOK
<1>4. \A d : ~Busy(w, d) /\ ~Busy(v, d) /\ ~Sends(v, d)
  BY <1>1, <1>2 DEF ClaimOK, Busy, Sends, Sending
<1>5. ASSUME NEW d \in Deliveries
      PROVE  /\ row'[d].age = row[d].age /\ row[d].age \in Nat
             /\ d \in ClaimedRows =>
                   /\ row[d].status = "pending" /\ row'[d].status = "pending"
                   /\ row[d].claim = 0 /\ row'[d].claim = ClaimMs
                   /\ row[d].age >= ClaimLag
             /\ d \notin ClaimedRows => row'[d].claim = row[d].claim
             /\ row'[d].status = "pending" => row[d].status = "pending"
             /\ row'[d].status = "delivered" <=> row[d].status = "delivered"
  <2>1. row[d] \in Row
    BY DEF DrainInv
  <2> QED
    BY <2>1, <1>2, ClaimedRow DEF Row
<1>6. ClaimMs \in Nat /\ ClaimMs > 0 /\ ClaimLag \in Nat
  BY DeliveryAssumption
<1>7. \A d \in Deliveries : ClaimsAge(d)'
  BY <1>5, <1>6 DEF SendInv, ClaimsAge
<1>8. ASSUME NEW d \in Deliveries \ (excused' \cup Unkeyed) PROVE SendFits(d)'
  <2>1. d \in Deliveries /\ SendFits(d)
    BY <1>2 DEF SendInv
  <2>2. /\ \A q \in Processes : SenderFits(relay[q], d)
        /\ \A p, q \in Processes : p # q => PairFits(relay[p], relay[q], d)
        /\ NewIsUntouched(d) /\ channel[d].posts <= 1 /\ channel[d].files <= 1
    BY <2>1 DEF SendFits
  <2>3. Young(d)' <=> Young(d)
    BY <2>1, <1>5 DEF Young
  <2>4. /\ Knows(v, d) => Knows(w, d) \/ d \in ClaimedRows
        /\ Awaits(v, d) => Waits(w, d) \/ d \in ClaimedRows
    BY <1>2, <1>4 DEF ClaimOK, Knows, Awaits, Waits
  <2>5. ASSUME d \in ClaimedRows, Young(d)
        PROVE  /\ channel[d].posts = 0
               /\ \A q \in Processes : ~Busy(relay[q], d) /\ ~Knows(relay[q], d)
    BY <2>1, <2>2, <2>5, <1>5 DEF NewIsUntouched
  <2> HIDE DEF w
  <2>6. NewIsUntouched(d)'
    <3>1. SUFFICES ASSUME row'[d].status = "pending", row'[d].claim = 0, Young(d)
                   PROVE  /\ channel[d].posts = 0
                          /\ \A q \in Processes :
                                ~Busy(relay'[q], d) /\ ~Knows(relay'[q], d)
      BY <2>3, <1>2 DEF NewIsUntouched, Busy, Knows
    <3>2. d \notin ClaimedRows /\ row[d].status = "pending" /\ row[d].claim = 0
      BY <3>1, <2>1, <1>5, <1>6
    <3>3. /\ channel[d].posts = 0
          /\ \A q \in Processes : ~Busy(relay[q], d) /\ ~Knows(relay[q], d)
      BY <3>1, <3>2, <2>2 DEF NewIsUntouched
    <3>4. ~Knows(v, d) /\ ~Busy(v, d)
      BY <3>2, <3>3, <2>4, <1>4 DEF w
    <3> QED
      BY <3>3, <3>4, <1>3
  <2>7. SenderFits(v, d)'
    <3>1. ASSUME Awaits(v, d), Knows(v, d), Young(d) PROVE channel[d].posts = 0
      <4>1. CASE d \in ClaimedRows
        BY <4>1, <3>1, <2>5
      <4>2. CASE d \notin ClaimedRows
        <5>1. Awaits(w, d) /\ Knows(w, d) /\ SenderFits(w, d)
          BY <4>2, <3>1, <2>2, <2>4 DEF Awaits, w
        <5> QED
          BY <5>1, <3>1 DEF SenderFits
      <4> QED
        BY <4>1, <4>2
    <3> QED
      BY <3>1, <2>3, <1>2, <1>4
         DEF SenderFits, Sends, Awaits, Waits, Busy, Knows, Elems
  <2>8. ASSUME NEW q \in Processes, q # r PROVE SenderFits(relay[q], d)'
    <3>1. SenderFits(relay[q], d) /\ relay'[q] = relay[q]
      BY <2>2, <2>8, <1>3
    <3> QED
      BY <3>1, <2>3, <1>2 DEF SenderFits, Sends, Awaits, Waits, Busy, Knows, Elems
  <2>9. ASSUME NEW q \in Processes, q # r, Young(d)
        PROVE  /\ Knows(v, d) => ~Knows(relay[q], d)
               /\ Busy(relay[q], d) \/ Knows(relay[q], d) => ~Knows(v, d)
    <3>1. PairFits(relay[q], w, d) /\ PairFits(w, relay[q], d)
      BY <2>2, <2>9 DEF w
    <3> QED
      BY <3>1, <2>4, <2>5, <2>9 DEF PairFits
  <2>10. ASSUME NEW p \in Processes, NEW q \in Processes, p # q
         PROVE  PairFits(relay[p], relay[q], d)'
    <3>1. CASE p = r
      BY <3>1, <2>3, <2>9, <2>10, <1>3, <1>4 DEF PairFits, Sends, Busy, Knows
    <3>2. CASE q = r
      BY <3>2, <2>3, <2>9, <2>10, <1>3, <1>4 DEF PairFits, Sends, Busy, Knows
    <3>3. CASE p # r /\ q # r
      <4>1. PairFits(relay[p], relay[q], d)
        BY <2>2, <2>10
      <4> QED
        BY <4>1, <3>3, <2>1, <2>3, <1>3, <1>5 DEF PairFits, Sends, Busy, Knows
    <3> QED
      BY <3>1, <3>2, <3>3
  <2>11. \A q \in Processes : SenderFits(relay[q], d)'
    <3>1. SUFFICES ASSUME NEW q \in Processes PROVE SenderFits(relay[q], d)'
      OBVIOUS
    <3>2. CASE q = r
      BY <3>2, <2>7, <1>3
         DEF SenderFits, Sends, Awaits, Waits, Busy, Knows, Elems, Young
    <3> QED
      BY <3>2, <2>8
  <2> QED
    BY <2>2, <2>6, <2>10, <2>11, <1>2 DEF SendFits
<1> QED
  BY <1>7, <1>8 DEF SendInv

(* Becomes() with a claim.                                                   *)
LEMMA ClaimStepMade ==
    ASSUME DrainInv, NEW r \in Processes, NEW v, ClaimOK(relay[r], v),
           Becomes(r, v), ClaimPending, channel' = channel, Counted
    PROVE  ClaimStep(r, v)
<1>1. relay' = [relay EXCEPT ![r] = v]
  BY DEF Becomes
<1>2. v.pc \notin Sending
  BY DEF ClaimOK
<1>3. excused' = excused
  BY <1>2 DEF Becomes
<1> QED
  BY <1>1, <1>3 DEF ClaimStep

(* A claim is sent.                                                          *)
LEMMA AskedShape ==
    ASSUME NEW w, RelayOK(w), QueueFits(w),
           NEW pc, \/ w.pc = "claim" /\ pc = "claimed"
                   \/ w.pc = "reclaim" /\ pc = "reclaimed"
    PROVE  ClaimOK(w, Asked(w, pc)) /\ Asked(w, pc).pc # "idle"
<1>1. w \in Relay /\ Len(w.posted) <= MaxTracked /\ ClaimMs \in 0..ClaimMs
  BY DeliveryAssumption DEF RelayOK
<1>2. w.real \in [Deliveries -> 0..ClaimMs] /\ ClaimedRows \subseteq Deliveries
  BY <1>1, RelayFields DEF ClaimedRows
<1> DEFINE C == ClaimedRows
           real == [d \in Deliveries |-> IF d \in C THEN ClaimMs ELSE w.real[d]]
           u == SetPc(w, pc)
           v == Asked(w, pc)
<1>3. real \in [Deliveries -> 0..ClaimMs]
  BY <1>1, <1>2
<1>4. \A d \in Deliveries : real[d] = w.real[d] \/ (d \in C /\ real[d] = ClaimMs)
  OBVIOUS
<1>5. v = [w EXCEPT !.pc = pc, !.got = C, !.real = real]
  BY DEF Asked
<1>6. pc \in Pcs
  BY DEF Pcs
<1>7. /\ RelayOK(u) /\ u.pc = pc /\ u.queue = w.queue /\ u.seen = w.seen
      /\ SameClaims(u, w) /\ u.posted = w.posted
  BY <1>6, SetShape
<1>8. u = [w EXCEPT !.pc = pc] /\ C \subseteq Deliveries
  BY <1>2 DEF SetPc
<1> HIDE DEF C, real, u
<1>9. v = [u EXCEPT !.got = C, !.real = real]
  BY <1>1, <1>5, <1>8 DEF Relay
<1> HIDE DEF v
<1>10. /\ v.pc = pc /\ v.queue = w.queue /\ v.seen = w.seen /\ v.exp = w.exp
       /\ v.got = C /\ v.real = real /\ v.posted = w.posted
  BY <1>1, <1>5 DEF Relay
<1>11. v \in Relay
  BY <1>3, <1>7, <1>8, <1>9 DEF Relay, RelayOK
<1>12. QueueFits(v)
  BY <1>10 DEF QueueFits
<1>13. v.pc \notin Sending \cup {"idle", "ack"}
  BY <1>10 DEF Sending
<1>14. ClaimOK(w, v)
  BY <1>1, <1>4, <1>10, <1>11, <1>12, <1>13 DEF ClaimOK, RelayOK, C
<1> QED
  BY <1>13, <1>14 DEF v

(* A claim that fails, whether or not it took the rows.                      *)
LEMMA ClaimFailed ==
    ASSUME DrainInv, NEW r \in Processes, relay[r].pc \in {"claim", "reclaim"},
           NEW v, MoveOK(relay[r], v), Becomes(r, v), channel' = channel,
           v.pc \notin Sending \cup {"ack"}, v.posted = relay[r].posted,
           SameClaims(v, relay[r]),
           ClaimPending \/ UNCHANGED row, Counted
    PROVE  WorkStep(r, v) \/ ClaimStep(r, v)
<1>1. CASE UNCHANGED row
  BY <1>1, QuietStep
<1>2. CASE ClaimPending
  <2>1. relay[r].got = {}
    BY Acting
  <2>2. ClaimOK(relay[r], v)
    BY <2>1 DEF MoveOK, ClaimOK, SameClaims
  <2> QED
    BY <2>2, <1>2, ClaimStepMade
<1> QED
  BY <1>1, <1>2

(* The first claim of a drain.                                               *)
LEMMA ClaimWorks ==
    ASSUME DrainInv, NEW r \in Processes, Claim(r)
    PROVE  \E v : (WorkStep(r, v) \/ ClaimStep(r, v)) /\ v.pc # "idle"
<1> DEFINE w == relay[r]
<1>1. w.pc = "claim" /\ channel' = channel
  BY DEF Claim
<1>2. /\ RelayOK(w) /\ QueueFits(w) /\ w \in Relay
      /\ w.queue = <<>> /\ w.seen = {} /\ w.got = {}
  BY <1>1, Acting DEF QueueFits
<1>3. CASE /\ ClaimPending \/ UNCHANGED row
           /\ Fault("store") /\ Becomes(r, At(w, "next"))
  <2> DEFINE v == At(w, "next")
  <2>1. /\ RelayOK(v) /\ v.pc = "next" /\ v.queue = w.queue
        /\ v.seen = w.seen /\ SameClaims(v, w) /\ v.posted = w.posted
    BY <1>2, AtShape DEF Pcs
  <2>2. Becomes(r, v)
    BY <1>3
  <2> HIDE DEF v
  <2>3. \A d \in Deliveries :
            v.real[d] <= w.real[d] /\ (v.exp[d] > 0 => w.exp[d] > 0)
    <3>1. w.real \in [Deliveries -> 0..ClaimMs]
      BY <1>2, RelayFields
    <3> QED
      BY <3>1, <2>1 DEF SameClaims
  <2>4. MoveOK(w, v)
    BY <2>1, <2>3, <1>2, RestMoves DEF Remembers, SameClaims
  <2>5. v.pc \notin Sending \cup {"ack"} /\ Counted
    BY <2>1, <1>3, CountsKept DEF Sending
  <2>6. WorkStep(r, v) \/ ClaimStep(r, v)
    BY <2>1, <2>2, <2>4, <2>5, <1>1, <1>3, ClaimFailed
  <2> QED
    BY <2>1, <2>6
<1>4. CASE ClaimPending /\ Becomes(r, Asked(w, "claimed")) /\ NoFault
  <2> DEFINE v == Asked(w, "claimed")
  <2>1. ClaimOK(w, v) /\ v.pc # "idle"
    BY <1>1, <1>2, AskedShape
  <2>2. Becomes(r, v) /\ Counted
    BY <1>4, CountsKept
  <2> HIDE DEF v
  <2>3. ClaimStep(r, v)
    BY <2>1, <2>2, <1>1, <1>4, ClaimStepMade
  <2> QED
    BY <2>1, <2>3
<1> QED
  BY <1>3, <1>4 DEF Claim

(* A claim for a row whose claim lapsed.                                     *)
LEMMA ReclaimWorks ==
    ASSUME DrainInv, NEW r \in Processes, Reclaim(r)
    PROVE  \E v : (WorkStep(r, v) \/ ClaimStep(r, v)) /\ v.pc # "idle"
<1> DEFINE w == relay[r]
<1>1. w.pc = "reclaim" /\ channel' = channel
  BY DEF Reclaim
<1>2. /\ RelayOK(w) /\ QueueFits(w) /\ w \in Relay /\ w.queue # <<>>
      /\ w.got = {}
  BY <1>1, Acting
<1>3. Carries(w, w)
  BY <1>2, CarriesItself
<1>4. CASE Becomes(r, Skipped(w)) /\ NoFault /\ UNCHANGED row
  <2> DEFINE v == Skipped(w)
  <2>1. MoveOK(w, v) /\ v.pc # "idle"
    BY <1>1, <1>2, <1>3, MissedMoves
  <2>2. Becomes(r, v) /\ Counted
    BY <1>4, CountsKept
  <2> HIDE DEF v
  <2>3. WorkStep(r, v)
    BY <2>1, <2>2, <1>1, <1>4, QuietStep
  <2> QED
    BY <2>1, <2>3
<1>5. CASE /\ ClaimPending \/ UNCHANGED row
           /\ Fault("store") /\ Becomes(r, Missed(w))
  <2> DEFINE v == Missed(w)
  <2>1. MoveOK(w, v) /\ v.pc # "idle"
    BY <1>1, <1>2, <1>3, MissedMoves
  <2>2. /\ SameClaims(v, w) /\ v.posted = w.posted
        /\ v.pc \notin Sending \cup {"ack"}
    BY <1>2, MissedShape DEF Sending
  <2>3. Becomes(r, v) /\ Counted
    BY <1>5, CountsKept
  <2> HIDE DEF v
  <2>4. WorkStep(r, v) \/ ClaimStep(r, v)
    BY <2>1, <2>2, <2>3, <1>1, <1>5, ClaimFailed
  <2> QED
    BY <2>1, <2>4
<1>6. CASE ClaimPending /\ Becomes(r, Asked(w, "reclaimed")) /\ NoFault
  <2> DEFINE v == Asked(w, "reclaimed")
  <2>1. ClaimOK(w, v) /\ v.pc # "idle"
    BY <1>1, <1>2, AskedShape
  <2>2. Becomes(r, v) /\ Counted
    BY <1>6, CountsKept
  <2> HIDE DEF v
  <2>3. ClaimStep(r, v)
    BY <2>1, <2>2, <1>1, <1>6, ClaimStepMade
  <2> QED
    BY <2>1, <2>3
<1> QED
  BY <1>4, <1>5, <1>6 DEF Reclaim

-----------------------------------------------------------------------------
(* The other steps.                                                          *)

(* A row is inserted or revived: nothing is left of any claim of it.         *)
LEMMA EnqueueKeeps ==
    ASSUME DrainInv, NEW e \in Deliveries, Enqueue(e)
    PROVE  DrainInv'
<1> DEFINE new == [status |-> "pending", claim |-> 0, age |-> 0]
<1>1. /\ row[e].status \in {"absent", "expired"} /\ enqueues < MaxEnqueues
      /\ enqueues' = enqueues + 1 /\ row' = [row EXCEPT ![e] = new]
      /\ channel' = channel /\ relay' = relay /\ faults' = faults
      /\ excused' = excused \/ excused' = excused \cup {e}
  BY DEF Enqueue
<1>2. row \in [Deliveries -> Row] /\ row[e].claim = 0
  BY <1>1 DEF DrainInv, RowFits
<1>3. new \in Row
  BY DeliveryAssumption DEF Row
<1>4. /\ row' \in [Deliveries -> Row] /\ row'[e] = new
      /\ \A d \in Deliveries : d # e => row'[d] = row[d]
  BY <1>1, <1>2, <1>3
<1>5. /\ \A d \in Deliveries : row'[d].claim = row[d].claim
      /\ row'[e].status = "pending"
  BY <1>2, <1>4
<1>6. excused' \subseteq Deliveries /\ enqueues' \in 0..MaxEnqueues
  BY <1>1, DeliveryAssumption DEF DrainInv
<1> HIDE DEF new
<1>7. ASSUME NEW q \in Processes
      PROVE  QueueFits(relay[q])' /\ KnowledgeFits(relay[q])'
  <2>1. QueueFits(relay[q]) /\ KnowledgeFits(relay[q]) /\ relay[q] \in Relay
    BY DEF DrainInv
  <2>2. QueueFits(relay[q])'
    BY <2>1, <1>1 DEF QueueFits, Elems, Distinct
  <2>3. \A d \in Elems(relay[q].queue) : d \in Deliveries
    <3>1. relay[q].queue \in Seq(Deliveries)
      BY <2>1, RelayFields
    <3> QED
      BY <3>1 DEF Elems
  <2>4. \A d \in Elems(relay[q].queue) : row'[d].status # "absent"
    BY <2>1, <2>3, <1>4, <1>5 DEF KnowledgeFits
  <2>5. \A d \in Deliveries :
            /\ Knows(relay[q], d) => row'[d].status # "absent"
            /\ relay[q].real[d] <= row'[d].claim
    BY <2>1, <1>4, <1>5 DEF KnowledgeFits
  <2>6. KnowledgeFits(relay[q])'
    BY <2>1, <2>4, <2>5, <1>1 DEF KnowledgeFits, Elems, Knows
  <2> QED
    BY <2>2, <2>6
<1>8. ASSUME NEW d \in Deliveries PROVE RowFits(d)'
  <2>1. RowFits(d)
    BY DEF DrainInv
  <2>2. CASE d = e
    BY <2>1, <2>2, <1>1, <1>5 DEF RowFits
  <2>3. CASE d # e
    BY <2>1, <2>3, <1>1, <1>4 DEF RowFits
  <2> QED
    BY <2>2, <2>3
<1>9. RealExclusive'
  BY <1>1 DEF DrainInv, RealExclusive
<1> QED
  BY <1>1, <1>4, <1>6, <1>7, <1>8, <1>9 DEF DrainInv

(* A revived row was never posted, and no relay is at it or knows a claim    *)
(* of it, or it is excused.                                                  *)
LEMMA EnqueueKeepsSend ==
    ASSUME DrainInv, SendInv, NEW e \in Deliveries, Enqueue(e)
    PROVE  SendInv'
<1> DEFINE new == [status |-> "pending", claim |-> 0, age |-> 0]
<1>1. /\ row[e].status \in {"absent", "expired"} /\ row' = [row EXCEPT ![e] = new]
      /\ channel' = channel /\ relay' = relay
      /\ excused' = IF Revived(e) THEN excused \cup {e} ELSE excused
  BY DEF Enqueue
<1>2. /\ row \in [Deliveries -> Row] /\ row'[e] = new
      /\ \A d \in Deliveries : d # e => row'[d] = row[d]
  BY <1>1 DEF DrainInv
<1>3. \A d \in Deliveries : ClaimsAge(d)'
  BY <1>2 DEF SendInv, ClaimsAge
<1>4. ASSUME NEW d \in Deliveries \ (excused' \cup Unkeyed)
      PROVE  SendFits(d)'
  <2>1. /\ d \in Deliveries /\ d \notin excused /\ d \notin Unkeyed
        /\ SendFits(d) /\ RowFits(d)
    BY <1>1 DEF SendInv, DrainInv
  <2>2. CASE d # e
    <3>1. row'[d] = row[d]
      BY <1>2, <2>1, <2>2
    <3> QED
      BY <3>1, <2>1, <1>1
         DEF SendFits, NewIsUntouched, SenderFits, PairFits, Sends, Waits,
             Awaits, Knows, Busy, Young, Elems
  <2>3. CASE d = e
    <3>1. channel[d].posts \in Nat /\ channel[d].files \in Nat
      BY <2>1 DEF DrainInv
    <3>2. /\ channel[d].posts = 0
          /\ \A q \in Processes : ~Sends(relay[q], d) /\ ~Knows(relay[q], d)
      BY <3>1, <2>3, <1>1 DEF Revived, SendsAt, Sends
    <3>3. channel[d].files = 0
      BY <3>1, <3>2, <2>1 DEF RowFits
    <3>4. \A q \in Processes : ~Busy(relay[q], d)
      BY <3>2, <2>1 DEF DrainInv, KnowledgeFits, Busy, Sends
    <3>5. NewIsUntouched(d)'
      BY <3>2, <3>4, <1>1 DEF NewIsUntouched, Busy, Knows
    <3>6. \A q \in Processes : SenderFits(relay[q], d)'
      BY <3>2, <3>3, <1>1 DEF SenderFits
    <3>7. \A p, q \in Processes : p # q => PairFits(relay[p], relay[q], d)'
      BY <3>2, <3>4, <1>1 DEF PairFits, Sends, Busy, Knows
    <3> QED
      BY <3>2, <3>3, <3>5, <3>6, <3>7, <1>1 DEF SendFits
  <2> QED
    BY <2>2, <2>3
<1> QED
  BY <1>3, <1>4 DEF SendInv

(* What one unit of time does to a row and to a relay.                       *)
LEMMA Ticked ==
    ASSUME DrainInv, Tick
    PROVE  /\ row' \in [Deliveries -> Row]
           /\ relay' \in [Processes -> Relay]
           /\ \A d \in Deliveries :
                 /\ row'[d].status = row[d].status
                 /\ row[d].status = "absent" => row'[d] = row[d]
                 /\ row[d].status # "absent" =>
                       /\ row'[d].claim = Less(row[d].claim)
                       /\ row'[d].age = IF row[d].age < MaxAge
                                        THEN row[d].age + 1 ELSE row[d].age
           /\ \A q \in Processes :
                 /\ relay'[q].pc = relay[q].pc /\ relay'[q].queue = relay[q].queue
                 /\ relay'[q].seen = relay[q].seen
                 /\ relay'[q].posted = relay[q].posted
                 /\ relay'[q].got = relay[q].got
                 /\ \A d \in Deliveries :
                       /\ relay'[q].exp[d] = Less(relay[q].exp[d])
                       /\ relay'[q].real[d] = Less(relay[q].real[d])
           /\ channel' = channel /\ excused' = excused
           /\ enqueues' = enqueues /\ faults' = faults
<1>1. row \in [Deliveries -> Row] /\ relay \in [Processes -> Relay]
  BY DEF DrainInv
<1>2. ASSUME NEW d \in Deliveries
      PROVE  /\ row'[d] \in Row
             /\ row'[d].status = row[d].status
             /\ row[d].status = "absent" => row'[d] = row[d]
             /\ row[d].status # "absent" =>
                   /\ row'[d].claim = Less(row[d].claim)
                   /\ row'[d].age = IF row[d].age < MaxAge
                                    THEN row[d].age + 1 ELSE row[d].age
  <2> DEFINE c == Less(row[d].claim)
             a == IF row[d].age < MaxAge THEN row[d].age + 1 ELSE row[d].age
             t == [row[d] EXCEPT !.claim = c, !.age = a]
  <2>1. row[d] \in Row
    BY <1>1
  <2>2. row[d].claim \in 0..ClaimMs /\ row[d].age \in 0..MaxAge
        /\ ClaimMs \in Nat /\ MaxAge \in Nat
    BY <2>1, DeliveryAssumption DEF Row
  <2>3. c \in 0..ClaimMs /\ a \in 0..MaxAge
    BY <2>2 DEF Less
  <2>4. row'[d] = IF row[d].status # "absent" THEN t ELSE row[d]
    BY DEF Tick
  <2> HIDE DEF c, a
  <2>5. t \in Row
    BY <2>1, <2>3 DEF Row
  <2>6. t.status = row[d].status /\ t.claim = c /\ t.age = a
    BY <2>1 DEF Row
  <2> HIDE DEF t
  <2> QED
    BY <2>1, <2>4, <2>5, <2>6 DEF c, a
<1>3. ASSUME NEW q \in Processes
      PROVE  /\ relay'[q] \in Relay
             /\ relay'[q].pc = relay[q].pc /\ relay'[q].queue = relay[q].queue
             /\ relay'[q].seen = relay[q].seen
             /\ relay'[q].posted = relay[q].posted
             /\ relay'[q].got = relay[q].got
             /\ \A d \in Deliveries :
                   /\ relay'[q].exp[d] = Less(relay[q].exp[d])
                   /\ relay'[q].real[d] = Less(relay[q].real[d])
  <2> DEFINE w == relay[q]
             exp == [d \in Deliveries |-> Less(w.exp[d])]
             real == [d \in Deliveries |-> Less(w.real[d])]
             v == [w EXCEPT !.exp = exp, !.real = real]
  <2>1. /\ w \in Relay /\ ClaimMs \in Nat
        /\ w.exp \in [Deliveries -> 0..ClaimMs]
        /\ w.real \in [Deliveries -> 0..ClaimMs]
    BY <1>1, RelayFields, DeliveryAssumption
  <2>2. relay'[q] = v
    BY DEF Tick
  <2>3. /\ exp \in [Deliveries -> 0..ClaimMs]
        /\ real \in [Deliveries -> 0..ClaimMs]
    <3>1. \A d \in Deliveries :
              Less(w.exp[d]) \in 0..ClaimMs /\ Less(w.real[d]) \in 0..ClaimMs
      BY <2>1 DEF Less
    <3> QED
      BY <3>1
  <2>4. \A d \in Deliveries :
            exp[d] = Less(w.exp[d]) /\ real[d] = Less(w.real[d])
    OBVIOUS
  <2> HIDE DEF w, exp, real
  <2>5. v \in Relay
    BY <2>1, <2>3 DEF Relay
  <2>6. /\ v.pc = w.pc /\ v.queue = w.queue /\ v.seen = w.seen
        /\ v.posted = w.posted /\ v.got = w.got
        /\ v.exp = exp /\ v.real = real
    BY <2>1 DEF Relay
  <2> HIDE DEF v
  <2> QED
    BY <2>2, <2>4, <2>5, <2>6 DEF w
<1>4. row' \in [Deliveries -> Row] /\ relay' \in [Processes -> Relay]
  BY <1>2, <1>3 DEF Tick
<1>5. /\ channel' = channel /\ excused' = excused
      /\ enqueues' = enqueues /\ faults' = faults
  BY DEF Tick, countVars
<1> QED
  BY <1>2, <1>3, <1>4, <1>5

(* Time passes for the table and for the relays alike.                       *)
LEMMA TickKeeps ==
    ASSUME DrainInv, Tick
    PROVE  DrainInv'
<1>1. /\ row' \in [Deliveries -> Row] /\ relay' \in [Processes -> Relay]
      /\ channel' = channel /\ excused' = excused
      /\ enqueues' = enqueues /\ faults' = faults
      /\ \A d \in Deliveries : row'[d].status = row[d].status
  BY Ticked
<1>2. ASSUME NEW d \in Deliveries
      PROVE  row[d].claim \in Nat /\ row'[d].claim = Less(row[d].claim)
  <2>1. row[d] \in Row /\ (row[d].status = "absent" => row[d].claim = 0)
    BY DEF DrainInv, RowFits
  <2>2. row[d].claim \in Nat
    BY <2>1, DeliveryAssumption DEF Row
  <2> QED
    BY <2>1, <2>2, Ticked DEF Less
<1>3. ASSUME NEW q \in Processes
      PROVE  /\ relay'[q].pc = relay[q].pc /\ relay'[q].queue = relay[q].queue
             /\ relay'[q].seen = relay[q].seen
             /\ relay'[q].posted = relay[q].posted
             /\ relay'[q].got = relay[q].got
             /\ \A d \in Deliveries :
                   /\ relay[q].exp[d] \in Nat /\ relay[q].real[d] \in Nat
                   /\ relay'[q].exp[d] = Less(relay[q].exp[d])
                   /\ relay'[q].real[d] = Less(relay[q].real[d])
  <2>1. /\ relay[q].exp \in [Deliveries -> 0..ClaimMs]
        /\ relay[q].real \in [Deliveries -> 0..ClaimMs]
    BY RelayFields DEF DrainInv
  <2>2. \A d \in Deliveries :
            relay[q].exp[d] \in Nat /\ relay[q].real[d] \in Nat
    BY <2>1, DeliveryAssumption
  <2> QED
    BY <2>2, Ticked
<1>4. ASSUME NEW q \in Processes
      PROVE  QueueFits(relay[q])' /\ KnowledgeFits(relay[q])'
  <2>1. QueueFits(relay[q]) /\ KnowledgeFits(relay[q]) /\ relay[q] \in Relay
    BY DEF DrainInv
  <2>2. QueueFits(relay[q])'
    BY <2>1, <1>3 DEF QueueFits, Elems, Distinct
  <2>3. \A d \in Elems(relay[q].queue) : d \in Deliveries
    <3>1. relay[q].queue \in Seq(Deliveries)
      BY <2>1, RelayFields
    <3> QED
      BY <3>1 DEF Elems
  <2>4. \A d \in Deliveries : relay'[q].real[d] <= row'[d].claim
    <3>1. SUFFICES ASSUME NEW d \in Deliveries
                   PROVE  relay'[q].real[d] <= row'[d].claim
      OBVIOUS
    <3>2. relay[q].real[d] \in Nat /\ relay[q].real[d] <= row[d].claim
      BY <2>1, <1>3 DEF KnowledgeFits
    <3> QED
      BY <3>2, <1>2, <1>3 DEF Less
  <2>5. \A d \in Deliveries : Knows(relay[q], d)' => Knows(relay[q], d)
    BY <1>3 DEF Knows, Less
  <2>6. KnowledgeFits(relay[q])'
    BY <2>1, <2>3, <2>4, <2>5, <1>1, <1>3 DEF KnowledgeFits, Elems
  <2> QED
    BY <2>2, <2>6
<1>5. \A q \in Processes : Len(relay'[q].posted) <= MaxTracked
  BY <1>3 DEF DrainInv
<1>6. ASSUME NEW d \in Deliveries PROVE RowFits(d)'
  <2>1. RowFits(d) /\ row'[d].status = row[d].status /\ channel' = channel
    BY <1>1 DEF DrainInv
  <2>2. row[d].claim = 0 => row'[d].claim = 0
    BY <1>2 DEF Less
  <2> QED
    BY <2>1, <2>2 DEF RowFits
<1>7. RealExclusive'
  <2>1. SUFFICES ASSUME NEW p \in Processes, NEW q \in Processes,
                        NEW d \in Deliveries,
                        p # q, relay'[p].real[d] > 0
                 PROVE  relay'[q].real[d] = 0
    BY DEF RealExclusive
  <2>2. relay[p].real[d] \in Nat /\ relay[q].real[d] \in Nat
    BY <1>3
  <2>3. relay[p].real[d] > 0
    BY <2>1, <2>2, <1>3 DEF Less
  <2>4. relay[q].real[d] = 0
    BY <2>1, <2>3 DEF DrainInv, RealExclusive
  <2> QED
    BY <2>4, <1>3 DEF Less
<1> QED
  BY <1>1, <1>4, <1>5, <1>6, <1>7 DEF DrainInv

(* A row whose claim lapses is old.                                          *)
LEMMA TickKeepsSend ==
    ASSUME DrainInv, SendInv, Tick
    PROVE  SendInv'
<1>1. /\ channel' = channel /\ excused' = excused
      /\ \A d \in Deliveries : row'[d].status = row[d].status
  BY Ticked
<1>2. ASSUME NEW q \in Processes
      PROVE  /\ relay[q].exp \in [Deliveries -> 0..ClaimMs]
             /\ relay'[q].pc = relay[q].pc /\ relay'[q].queue = relay[q].queue
             /\ relay'[q].got = relay[q].got
             /\ \A d \in Deliveries : relay'[q].exp[d] = Less(relay[q].exp[d])
  BY Ticked, RelayFields DEF DrainInv
<1>3. ASSUME NEW d \in Deliveries
      PROVE  /\ ClaimsAge(d)'
             /\ Young(d)' => Young(d)
             /\ row'[d].status = "pending" /\ row'[d].claim = 0 /\ Young(d)' =>
                   row[d].claim = 0
  <2>1. row[d] \in Row
    BY DEF DrainInv
  <2>2. /\ row[d].claim \in Nat /\ row[d].age \in Nat /\ row[d].age <= MaxAge
        /\ ClaimMs \in Nat /\ MaxAge \in Nat /\ ClaimMs < MaxAge
    BY <2>1, DeliveryAssumption DEF Row
  <2>3. ClaimsAge(d)
    BY DEF SendInv
  <2>4. CASE row[d].status = "absent"
    <3>1. row'[d] = row[d]
      BY <2>4, Ticked
    <3> QED
      BY <3>1, <2>3, <2>4 DEF ClaimsAge, Young
  <2>5. CASE row[d].status # "absent"
    <3>1. /\ row'[d].claim = Less(row[d].claim)
          /\ row'[d].age = IF row[d].age < MaxAge
                           THEN row[d].age + 1 ELSE row[d].age
      BY <2>5, Ticked
    <3> QED
      BY <3>1, <2>2, <2>3 DEF ClaimsAge, Young, Less
  <2> QED
    BY <2>4, <2>5
<1>4. ASSUME NEW d \in Deliveries \ (excused' \cup Unkeyed)
      PROVE  SendFits(d)'
  <2>1. d \in Deliveries /\ SendFits(d)
    BY <1>1 DEF SendInv
  <2>2. \A q \in Processes :
            /\ Sends(relay[q], d)' <=> Sends(relay[q], d)
            /\ Busy(relay[q], d)' <=> Busy(relay[q], d)
            /\ Awaits(relay[q], d)' <=> Awaits(relay[q], d)
    BY <1>2 DEF Sends, Busy, Waits, Awaits, Elems
  <2>3. \A q \in Processes : Knows(relay[q], d)' => Knows(relay[q], d)
    <3>1. \A q \in Processes : relay[q].exp[d] \in Nat
      BY <2>1, <1>2, DeliveryAssumption
    <3> QED
      BY <3>1, <2>1, <1>2 DEF Knows, Less
  <2>4. NewIsUntouched(d)'
    BY <2>1, <2>2, <2>3, <1>1, <1>3 DEF SendFits, NewIsUntouched
  <2>5. ASSUME NEW q \in Processes PROVE SenderFits(relay[q], d)'
    <3>1. SenderFits(relay[q], d)
      BY <2>1 DEF SendFits
    <3> QED
      BY <3>1, <2>1, <2>2, <2>3, <1>1, <1>2, <1>3 DEF SenderFits
  <2>6. ASSUME NEW p \in Processes, NEW q \in Processes, p # q
        PROVE  PairFits(relay[p], relay[q], d)'
    <3>1. PairFits(relay[p], relay[q], d)
      BY <2>1, <2>6 DEF SendFits
    <3> QED
      BY <3>1, <2>1, <2>2, <2>3, <1>1, <1>2, <1>3 DEF PairFits
  <2> QED
    BY <2>1, <2>4, <2>5, <2>6, <1>1 DEF SendFits
<1> QED
  BY <1>3, <1>4 DEF SendInv


-----------------------------------------------------------------------------
(* The steps of the system, and the lease.                                   *)

(* Every step is one of five kinds.                                          *)
LEMMA StepKinds ==
    ASSUME DrainInv, DispatchNext
    PROVE  \/ \E r \in Processes : \E v : WorkStep(r, v) \/ ClaimStep(r, v)
           \/ \E d \in Deliveries : Enqueue(d)
           \/ Tick
           \/ UNCHANGED deliveryVars
<1>1. ASSUME NEW r \in Processes, RelayStep(r)
      PROVE  \E v : WorkStep(r, v) \/ ClaimStep(r, v)
  <2>1. CASE Poll(r) \/ Finish(r)
    BY <2>1, PollWorks, FinishWorks
  <2>2. CASE Claim(r) \/ Reclaim(r)
    BY <2>2, ClaimWorks, ReclaimWorks
  <2>3. CASE NextRow(r) \/ Verify(r) \/ Post(r) \/ Reverify(r)
    BY <2>3, NextRowWorks, VerifyWorks, PostWorks, ReverifyWorks
  <2>4. CASE Limited(r) \/ Upload(r) \/ Ack(r)
    BY <2>4, LimitedWorks, UploadWorks, AckWorks
  <2>5. CASE ClaimAnswered(r) \/ ReclaimAnswered(r)
    BY <2>5, ClaimAnsweredWorks, ReclaimAnsweredWorks
  <2> QED
    BY <1>1, <2>1, <2>2, <2>3, <2>4, <2>5 DEF RelayStep
<1>2. ASSUME NEW r \in Processes, Crash(r)
      PROVE  \E v : WorkStep(r, v) \/ ClaimStep(r, v)
  BY <1>2, CrashWorks
<1>3. ASSUME NEW r \in Processes, CutLease(r) \/ NoticeLoss(r)
      PROVE  \/ UNCHANGED deliveryVars
             \/ \E v : WorkStep(r, v) \/ ClaimStep(r, v)
  <2>1. CASE NoticeLoss(r)
    BY <2>1 DEF NoticeLoss
  <2>2. CASE CutLease(r)
    <3>1. /\ UNCHANGED <<row, channel, relay, excused>> /\ Fault("cut")
      BY <2>2 DEF CutLease
    <3>2. Counted
      BY <3>1, CountsKept
    <3> DEFINE w == relay[r]
    <3>3. RelayOK(w) /\ QueueFits(w) /\ w \in Relay
      BY Acting
    <3>4. \A d \in Deliveries : w.real[d] <= w.real[d]
      <4>1. w.real \in [Deliveries -> 0..ClaimMs]
        BY <3>3, RelayFields
      <4> QED
        BY <4>1, DeliveryAssumption
    <3>5. relay' = [relay EXCEPT ![r] = w]
      BY <3>1 DEF DrainInv
    <3>6. \A d \in Deliveries : Busy(w, d) => Continues(w, w, d)
      BY <3>1 DEF Continues
    <3>7. MoveOK(w, w)
      BY <3>3, <3>4, <3>6 DEF MoveOK
    <3>8. Excuses(r, w)
      BY <3>1 DEF Excuses, DrainInv
    <3>9. WorkStep(r, w)
      BY <3>1, <3>2, <3>5, <3>7, <3>8
         DEF WorkStep, RowEffect, ChannelEffect, DrainInv
    <3> QED
      BY <3>9
  <2> QED
    BY <1>3, <2>1, <2>2
<1>4. ASSUME NEW r \in Processes, NEW d \in Deliveries, GiveUpEnds(r, d)
      PROVE  \E v : WorkStep(r, v) \/ ClaimStep(r, v)
  BY <1>4, GiveUpWorks
<1> QED
  BY <1>1, <1>2, <1>3, <1>4 DEF DispatchNext

(* A drain goes on, and so does its hold().                                  *)
LEMMA LeaseStays ==
    ASSUME DrainInv, LeaseTypeOK, LeaseFits, NEW r \in Processes, NEW v,
           relay' = [relay EXCEPT ![r] = v], UNCHANGED leaseVars,
           v.pc = "idle" <=> relay[r].pc = "idle"
    PROVE  LeaseTypeOK' /\ LeaseFits'
<1>1. relay \in [Processes -> Relay] /\ hold' = hold /\ holder' = holder
  BY DEF DrainInv, leaseVars
<1>2. \A p \in Processes : relay'[p].pc = "idle" <=> relay[p].pc = "idle"
  BY <1>1
<1> QED
  BY <1>1, <1>2 DEF LeaseTypeOK, LeaseFits

(* The lock goes with the session, and the drain with hold().                *)
LEMMA LeaseKeeps ==
    ASSUME DrainInv, LeaseTypeOK, LeaseFits, DispatchNext
    PROVE  LeaseTypeOK' /\ LeaseFits'
<1>0. relay \in [Processes -> Relay] /\ NoProcess \notin Processes
  BY LeaderLeaseAssumption DEF DrainInv
<1>1. ASSUME NEW r \in Processes, RelayStep(r)
      PROVE  LeaseTypeOK' /\ LeaseFits'
  <2>1. CASE Poll(r)
    <3>1. PICK v : relay' = [relay EXCEPT ![r] = v] /\ v.pc = "claim"
      BY <2>1, PollWorks DEF WorkStep
    <3>2. TryLock(r)
      BY <2>1 DEF Poll
    <3> QED
      BY <3>1, <3>2, <1>0 DEF TryLock, LeaseTypeOK, LeaseFits
  <2>2. CASE Finish(r)
    <3>1. PICK v : relay' = [relay EXCEPT ![r] = v] /\ v.pc = "idle"
      BY <2>2, FinishWorks DEF WorkStep
    <3>2. Unlock(r)
      BY <2>2 DEF Finish
    <3> QED
      BY <3>1, <3>2, <1>0 DEF Unlock, Freed, LeaseTypeOK, LeaseFits
  <2>3. CASE Claim(r) \/ Reclaim(r)
    <3>1. PICK v : relay' = [relay EXCEPT ![r] = v] /\ v.pc # "idle"
      BY <2>3, ClaimWorks, ReclaimWorks DEF WorkStep, ClaimStep
    <3>2. relay[r].pc # "idle" /\ UNCHANGED leaseVars
      BY <2>3 DEF Claim, Reclaim
    <3> QED
      BY <3>1, <3>2, LeaseStays
  <2>4. CASE NextRow(r) \/ Verify(r) \/ Post(r) \/ Reverify(r)
    <3>1. PICK v : relay' = [relay EXCEPT ![r] = v] /\ v.pc # "idle"
      BY <2>4, NextRowWorks, VerifyWorks, PostWorks, ReverifyWorks DEF WorkStep
    <3>2. relay[r].pc # "idle" /\ UNCHANGED leaseVars
      BY <2>4 DEF NextRow, Verify, Post, Reverify
    <3> QED
      BY <3>1, <3>2, LeaseStays
  <2>5. CASE Limited(r) \/ Upload(r) \/ Ack(r)
    <3>1. PICK v : relay' = [relay EXCEPT ![r] = v] /\ v.pc # "idle"
      BY <2>5, LimitedWorks, UploadWorks, AckWorks DEF WorkStep
    <3>2. relay[r].pc # "idle" /\ UNCHANGED leaseVars
      BY <2>5 DEF Limited, Upload, Ack
    <3> QED
      BY <3>1, <3>2, LeaseStays
  <2>6. CASE ClaimAnswered(r) \/ ReclaimAnswered(r)
    <3>1. PICK v : relay' = [relay EXCEPT ![r] = v] /\ v.pc # "idle"
      BY <2>6, ClaimAnsweredWorks, ReclaimAnsweredWorks DEF WorkStep
    <3>2. relay[r].pc # "idle" /\ UNCHANGED leaseVars
      BY <2>6 DEF ClaimAnswered, ReclaimAnswered
    <3> QED
      BY <3>1, <3>2, LeaseStays
  <2> QED
    BY <1>1, <2>1, <2>2, <2>3, <2>4, <2>5, <2>6 DEF RelayStep
<1>2. ASSUME NEW r \in Processes, Crash(r)
      PROVE  LeaseTypeOK' /\ LeaseFits'
  <2>1. PICK v : relay' = [relay EXCEPT ![r] = v] /\ v.pc = "idle"
    BY <1>2, CrashWorks DEF WorkStep
  <2>2. CASE hold[r] = "none"
    <3>1. UNCHANGED leaseVars /\ relay[r].pc = "idle"
      BY <1>2, <2>2 DEF Crash, LeaseFits
    <3> QED
      BY <2>1, <3>1, LeaseStays
  <2>3. CASE hold[r] # "none"
    <3>1. Unlock(r)
      BY <1>2, <2>3 DEF Crash
    <3> QED
      BY <2>1, <3>1, <1>0 DEF Unlock, Freed, LeaseTypeOK, LeaseFits
  <2> QED
    BY <2>2, <2>3
<1>3. ASSUME NEW r \in Processes, CutLease(r) \/ NoticeLoss(r)
      PROVE  LeaseTypeOK' /\ LeaseFits'
  <2>1. relay' = relay
    BY <1>3 DEF CutLease, NoticeLoss, deliveryVars
  <2>2. SessionCut(r) \/ LossNoticed(r)
    BY <1>3 DEF CutLease, NoticeLoss
  <2> QED
    BY <2>1, <2>2, <1>0 DEF SessionCut, LossNoticed, Freed, LeaseTypeOK, LeaseFits
<1>4. ASSUME NEW r \in Processes, NEW d \in Deliveries, GiveUpEnds(r, d)
      PROVE  LeaseTypeOK' /\ LeaseFits'
  <2>1. PICK v : relay' = [relay EXCEPT ![r] = v] /\ v.pc = relay[r].pc
    BY <1>4, GiveUpWorks DEF WorkStep
  <2>2. UNCHANGED leaseVars
    BY <1>4 DEF GiveUpEnds
  <2> QED
    BY <2>1, <2>2, LeaseStays
<1>5. ASSUME Tick \/ \E d \in Deliveries : Enqueue(d)
      PROVE  LeaseTypeOK' /\ LeaseFits'
  <2>1. UNCHANGED leaseVars
    BY <1>5 DEF Tick, Enqueue
  <2>2. \A p \in Processes : relay'[p].pc = relay[p].pc
    BY <1>5, Ticked DEF Enqueue
  <2> QED
    BY <2>1, <2>2 DEF leaseVars, LeaseTypeOK, LeaseFits
<1> QED
  BY <1>1, <1>2, <1>3, <1>4, <1>5 DEF DispatchNext

-----------------------------------------------------------------------------
(* The invariants.                                                           *)

(* The empty outbox satisfies both invariants.                               *)
LEMMA InitInv == DispatchInit => DispatchInv /\ SendInv
<1> SUFFICES ASSUME DispatchInit PROVE DispatchInv /\ SendInv
  OBVIOUS
<1>1. /\ LeaseInit /\ enqueues = 0 /\ faults = 0 /\ excused = {}
      /\ row = [d \in Deliveries |->
                   [status |-> "absent", claim |-> 0, age |-> 0]]
      /\ channel = [d \in Deliveries |-> [posts |-> 0, files |-> 0]]
      /\ relay = [r \in Processes |-> FreshRelay]
  BY DEF DispatchInit
<1>2. /\ FreshRelay.pc = "idle" /\ FreshRelay.queue = <<>>
      /\ FreshRelay.seen = {} /\ FreshRelay.posted = <<>>
      /\ FreshRelay.got = {}
      /\ \A d \in Deliveries : FreshRelay.exp[d] = 0 /\ FreshRelay.real[d] = 0
  BY DEF FreshRelay, NoClaims
<1>3. FreshRelay \in Relay
  BY DeliveryAssumption DEF FreshRelay, Relay, NoClaims
<1>4. Elems(FreshRelay.queue) = {} /\ Elems(FreshRelay.posted) = {}
      /\ Distinct(FreshRelay.queue) /\ Len(FreshRelay.posted) = 0
  BY <1>2 DEF Elems, Distinct
<1>5. LeaseTypeOK /\ LeaseFits
  BY <1>1, <1>2, LeaderLeaseAssumption DEF LeaseInit, LeaseTypeOK, LeaseFits
<1>6. \A q \in Processes : QueueFits(relay[q]) /\ KnowledgeFits(relay[q])
  BY <1>1, <1>2, <1>4, DeliveryAssumption DEF QueueFits, KnowledgeFits, Knows
<1>7. /\ row \in [Deliveries -> Row]
      /\ channel \in [Deliveries -> [posts : Nat, files : Nat]]
      /\ relay \in [Processes -> Relay]
  <2>1. [status |-> "absent", claim |-> 0, age |-> 0] \in Row
    BY DeliveryAssumption DEF Row
  <2>2. [posts |-> 0, files |-> 0] \in [posts : Nat, files : Nat]
    OBVIOUS
  <2> QED
    BY <2>1, <2>2, <1>1, <1>3
<1>8. \A d \in Deliveries : RowFits(d) /\ ClaimsAge(d)
  BY <1>1 DEF RowFits, ClaimsAge
<1>9. RealExclusive
  BY <1>1, <1>2 DEF RealExclusive
<1>10. /\ \A q \in Processes : Len(relay[q].posted) <= MaxTracked
       /\ excused \subseteq Deliveries
       /\ enqueues \in 0..MaxEnqueues /\ faults \in 0..MaxFaults
  BY <1>1, <1>4, DeliveryAssumption
<1>11. DrainInv
  BY <1>6, <1>7, <1>8, <1>9, <1>10 DEF DrainInv
<1>12. \A d \in Deliveries : SendFits(d)
  <2>1. \A q \in Processes, d \in Deliveries :
            /\ ~Busy(relay[q], d) /\ ~Sends(relay[q], d)
            /\ ~Awaits(relay[q], d) /\ ~Knows(relay[q], d)
    BY <1>1, <1>2, <1>4 DEF Busy, Sends, Waits, Awaits, Knows, Sending
  <2> QED
    BY <2>1, <1>1 DEF SendFits, NewIsUntouched, SenderFits, PairFits
<1> QED
  BY <1>5, <1>8, <1>11, <1>12, InvSplits DEF SendInv

(* Every step keeps the first invariant.                                     *)
LEMMA NextInv == DispatchInv /\ [DispatchNext]_dispatchVars => DispatchInv'
<1> SUFFICES ASSUME DispatchInv, [DispatchNext]_dispatchVars PROVE DispatchInv'
  OBVIOUS
<1>1. DrainInv /\ LeaseTypeOK /\ LeaseFits
  BY InvSplits
<1>2. CASE DispatchNext
  <2>1. LeaseTypeOK' /\ LeaseFits'
    BY <1>1, <1>2, LeaseKeeps
  <2>2. DrainInv'
    <3>1. CASE \E r \in Processes : \E v : WorkStep(r, v) \/ ClaimStep(r, v)
      BY <3>1, <1>1, WorkKeeps, ClaimKeeps
    <3>2. CASE \E d \in Deliveries : Enqueue(d)
      BY <3>2, <1>1, EnqueueKeeps
    <3>3. CASE Tick
      BY <3>3, <1>1, TickKeeps
    <3>4. CASE UNCHANGED deliveryVars
      BY <3>4, <1>1 DEF deliveryVars, countVars, DrainInv, QueueFits,
                        KnowledgeFits, RowFits, RealExclusive, Knows, Elems,
                        Distinct
    <3> QED
      BY <3>1, <3>2, <3>3, <3>4, <1>1, <1>2, StepKinds
  <2> QED
    BY <2>1, <2>2 DEF DispatchInv, DrainInv, DeliveryTypeOK
<1>3. CASE UNCHANGED dispatchVars
  BY <1>3 DEF dispatchVars, deliveryVars, countVars, leaseVars, DispatchInv,
              DeliveryTypeOK, LeaseTypeOK, LeaseFits, QueueFits, KnowledgeFits,
              RowFits, RealExclusive, Knows, Elems, Distinct
<1> QED
  BY <1>2, <1>3

(* Every step keeps the second invariant, where a claim takes time.          *)
LEMMA NextSendInv ==
    ASSUME ClaimLag > 0
    PROVE  DispatchInv /\ SendInv /\ [DispatchNext]_dispatchVars => SendInv'
<1> SUFFICES ASSUME DispatchInv, SendInv, [DispatchNext]_dispatchVars
             PROVE  SendInv'
  OBVIOUS
<1>1. DrainInv
  BY InvSplits
<1>2. ASSUME UNCHANGED deliveryVars PROVE SendInv'
  BY <1>2 DEF deliveryVars, SendInv, ClaimsAge, SendFits, NewIsUntouched,
              SenderFits, PairFits, Sends, Busy, Waits, Awaits, Knows, Young,
              Elems
<1>3. CASE DispatchNext
  <2>1. CASE \E r \in Processes : \E v : WorkStep(r, v) \/ ClaimStep(r, v)
    BY <2>1, <1>1, WorkKeepsSend, ClaimKeepsSend
  <2>2. CASE \E d \in Deliveries : Enqueue(d)
    BY <2>2, <1>1, EnqueueKeepsSend
  <2>3. CASE Tick
    BY <2>3, <1>1, TickKeepsSend
  <2> QED
    BY <2>1, <2>2, <2>3, <1>1, <1>2, <1>3, StepKinds
<1>4. CASE UNCHANGED dispatchVars
  BY <1>2, <1>4 DEF dispatchVars
<1> QED
  BY <1>3, <1>4

(* The tables, the relays and the lease fit together in every state of the   *)
(* outbox, whatever crashes, is cut, is refused or is lost.                  *)
THEOREM DispatchInvariance == DispatchSpec => []DispatchInv
<1>1. DispatchInit => DispatchInv
  BY InitInv
<1> QED
  BY <1>1, NextInv, PTL DEF DispatchSpec

(* The variables of the outbox keep their types; the delivery tracker        *)
(* (src/slack/delivery.ts) never holds more than its cap.                    *)
THEOREM DeliveryTypeCorrect == DispatchSpec => []DeliveryTypeOK
<1>1. DispatchInv => DeliveryTypeOK
  BY DEF DispatchInv
<1> QED
  BY <1>1, DispatchInvariance, PTL

(* A relay drains only inside hold(), and two processes are inside only when *)
(* the session of one was cut.                                               *)
THEOREM DrainsUnderLeaseAlways == DispatchSpec => []DrainsUnderLease
<1>1. DispatchInv => DrainsUnderLease
  BY DEF DispatchInv, DeliveryTypeOK, LeaseTypeOK, LeaseFits, DrainsUnderLease,
         OneLeader
<1> QED
  BY <1>1, DispatchInvariance, PTL

(* The relays take, lose and give back the lease only as hold() does.        *)
THEOREM DispatchUsesLease == DispatchSpec => LeaseSpec
<1>1. DispatchInit => LeaseInit
  BY DEF DispatchInit
<1>2. [DispatchNext]_dispatchVars => [LeaseNext]_leaseVars
  <2> SUFFICES ASSUME [DispatchNext]_dispatchVars PROVE [LeaseNext]_leaseVars
    OBVIOUS
  <2>1. CASE UNCHANGED dispatchVars
    BY <2>1 DEF dispatchVars
  <2>2. ASSUME NEW r \in Processes, RelayStep(r)
        PROVE  UNCHANGED leaseVars \/ TryLock(r) \/ Unlock(r)
    <3>1. CASE Poll(r) \/ Finish(r)
      BY <3>1 DEF Poll, Finish
    <3>2. CASE Claim(r) \/ Reclaim(r) \/ NextRow(r)
      BY <3>2 DEF Claim, Reclaim, NextRow
    <3>3. CASE Verify(r) \/ Post(r) \/ Reverify(r)
      BY <3>3 DEF Verify, Post, Reverify
    <3>4. CASE Limited(r) \/ Upload(r) \/ Ack(r)
      BY <3>4 DEF Limited, Upload, Ack
    <3>5. CASE ClaimAnswered(r) \/ ReclaimAnswered(r)
      BY <3>5 DEF ClaimAnswered, ReclaimAnswered
    <3> QED
      BY <2>2, <3>1, <3>2, <3>3, <3>4, <3>5 DEF RelayStep
  <2>3. ASSUME NEW r \in Processes, Crash(r) \/ CutLease(r) \/ NoticeLoss(r)
        PROVE  \/ UNCHANGED leaseVars
               \/ SessionCut(r) \/ LossNoticed(r) \/ Unlock(r)
    BY <2>3 DEF Crash, CutLease, NoticeLoss
  <2>4. ASSUME NEW r \in Processes, NEW d \in Deliveries, GiveUpEnds(r, d)
        PROVE  UNCHANGED leaseVars
    BY <2>4 DEF GiveUpEnds
  <2>5. CASE Tick \/ \E d \in Deliveries : Enqueue(d)
    BY <2>5 DEF Tick, Enqueue
  <2> QED
    BY <2>1, <2>2, <2>3, <2>4, <2>5 DEF DispatchNext, LeaseNext
<1> QED
  BY <1>1, <1>2, PTL DEF DispatchSpec, LeaseSpec

(* However late the answers of their claims, two relays that both go by a    *)
(* claim of one row are never both within the margin of its end: claims in   *)
(* the table do not overlap, and the margin covers the way of the answer.    *)
THEOREM ClaimsExclusiveAlways == DispatchSpec => []ClaimsExclusive
<1>1. DispatchInv => ClaimsExclusive
  <2>1. SUFFICES ASSUME DispatchInv PROVE ClaimsExclusive
    OBVIOUS
  <2>2. ASSUME NEW q \in Processes, NEW d \in Deliveries,
               Trusts(relay[q], d), OnTime(relay[q], d)
        PROVE  relay[q].real[d] > 0
    <3>1. relay[q] \in Relay
      BY <2>1 DEF DispatchInv, DeliveryTypeOK
    <3>2. /\ relay[q].exp \in [Deliveries -> 0..ClaimMs]
          /\ relay[q].real \in [Deliveries -> 0..ClaimMs]
      BY <3>1, RelayFields
    <3>3. relay[q].exp[d] \in Nat /\ relay[q].real[d] \in Nat /\ Margin \in Nat
      BY <3>2, DeliveryAssumption
    <3> QED
      BY <2>2, <3>3 DEF Trusts, OnTime
  <2>3. RealExclusive
    BY <2>1 DEF DispatchInv
  <2>4. ASSUME NEW p \in Processes, NEW q \in Processes, NEW d \in Deliveries,
               p # q, Trusts(relay[p], d), OnTime(relay[p], d),
               Trusts(relay[q], d), OnTime(relay[q], d)
        PROVE  FALSE
    <3>1. relay[p].real[d] > 0 /\ relay[q].real[d] > 0
      BY <2>2, <2>4
    <3>2. relay[q].real[d] = 0
      BY <2>3, <2>4, <3>1 DEF RealExclusive
    <3> QED
      BY <3>1, <3>2
  <2> QED
    BY <2>4 DEF ClaimsExclusive
<1> QED
  BY <1>1, DispatchInvariance, PTL

(* A message that ack() marked delivered has a post in the channel, whoever  *)
(* acknowledged it and from whatever it remembered.                          *)
THEOREM AckedMeansPostedAlways == DispatchSpec => []AckedMeansPosted
<1>1. DispatchInv => AckedMeansPosted
  <2>1. SUFFICES ASSUME DispatchInv, NEW d \in Deliveries \ Unkeyed,
                        row[d].status = "delivered"
                 PROVE  channel[d].posts >= 1
    BY DEF AckedMeansPosted
  <2>2. channel[d].posts \in Nat /\ channel[d].posts > 0
    BY <2>1 DEF DispatchInv, DeliveryTypeOK, RowFits
  <2> QED
    BY <2>2
<1> QED
  BY <1>1, DispatchInvariance, PTL

(* Where the first claim of a row comes later than its creation, by however  *)
(* little, what sending once rests on holds in every state.                  *)
THEOREM SendInvariance ==
    ASSUME ClaimLag > 0
    PROVE  DispatchSpec => []SendInv
<1>1. DispatchInit => SendInv
  BY InitInv
<1>2. DispatchInv /\ SendInv /\ [DispatchNext]_dispatchVars => SendInv'
  BY NextSendInv
<1> QED
  BY <1>1, <1>2, DispatchInvariance, PTL DEF DispatchSpec

(* A message that has a key is posted, and its files uploaded, once, unless  *)
(* it was excused by two relays at it together or by its expiry: for any     *)
(* number of relays, crashes, cut leases, lapsed claims, and answers that    *)
(* are lost or late.                                                         *)
THEOREM SentOnceAlways ==
    ASSUME ClaimLag > 0
    PROVE  DispatchSpec => []SentOnce
<1>1. SendInv => SentOnce
  BY DEF SendInv, SendFits, SentOnce
<1> QED
  BY <1>1, SendInvariance, PTL


-----------------------------------------------------------------------------
(* The promise.                                                              *)

(* A delivery is asked for, the first time or after it expired.              *)
LEMMA AskedMove ==
    ASSUME NEW o \in {"none", "expired"}, NEW n,
           NEW b \in BOOLEAN, NEW c \in BOOLEAN, b => c, c => b \/ o = "expired"
    PROVE  Promise!Moves(Promise!Letter(o, n, b), Promise!Letter("open", n, c))
<1> DEFINE s == Promise!Letter(o, n, b)
           t == Promise!Letter("open", n, c)
<1>1. s.outcome = o /\ s.conceded = b /\ s.posts = n
  BY DEF Promise!Letter
<1> HIDE DEF s
<1>2. s.outcome \in {"none", "expired"}
  BY <1>1, Zenon
<1>3. (s.conceded => c) /\ (c => s.conceded \/ s.outcome = "expired")
  BY <1>1, Zenon
<1>4. t = Promise!Letter("open", s.posts, c)
  BY <1>1, Zenon
<1> HIDE DEF t
<1>5. Promise!Asked(s, t)
  BY <1>2, <1>3, <1>4, Zenon DEF Promise!Asked
<1>6. Promise!Moves(s, t)
  BY <1>5, Zenon DEF Promise!Moves
<1> QED
  BY <1>6, Zenon DEF s, t

(* A second relay sends it.                                                  *)
LEMMA ConcededMove ==
    ASSUME NEW o \in {"open", "expired"}, NEW n, NEW b \in BOOLEAN
    PROVE  Promise!Moves(Promise!Letter(o, n, b), Promise!Letter(o, n, TRUE))
  BY DEF Promise!Moves, Promise!Conceded, Promise!Letter

(* It is posted, for the first time or because it is conceded.               *)
LEMMA PostedMove ==
    ASSUME NEW o, NEW n, NEW b \in BOOLEAN,
           \/ o \in {"open", "expired"} /\ n = 0
           \/ o # "none" /\ b = TRUE
    PROVE  Promise!Moves(Promise!Letter(o, n, b), Promise!Letter(o, n + 1, b))
  BY DEF Promise!Moves, Promise!Posted, Promise!Letter

(* It is acknowledged.                                                       *)
LEMMA DeliveredMove ==
    ASSUME NEW o \in {"open", "expired"}, NEW n, n > 0, NEW b \in BOOLEAN
    PROVE  Promise!Moves(Promise!Letter(o, n, b),
                         Promise!Letter("delivered", n, b))
  BY DEF Promise!Moves, Promise!Delivered, Promise!Letter

(* It is too old.                                                            *)
LEMMA ExpiredMove ==
    ASSUME NEW n, NEW b \in BOOLEAN
    PROVE  Promise!Moves(Promise!Letter("open", n, b),
                         Promise!Letter("expired", n, b))
  BY DEF Promise!Moves, Promise!Expired, Promise!Letter


(* What may become of a delivery's outcome o, posts n and excuse b.          *)
Developments(o, n, b, p, m, c) ==
    \/ p = o /\ m = n /\ b = c
    \/ /\ o \in {"none", "expired"} /\ p = "open" /\ m = n
       /\ (b => c) /\ (c => b \/ o = "expired")
    \/ o \in {"open", "expired"} /\ p = o /\ m = n /\ c = TRUE
    \/ /\ (o \in {"open", "expired"} /\ n = 0) \/ (o # "none" /\ b = TRUE)
       /\ p = o /\ m = n + 1 /\ b = c
    \/ /\ o \in {"open", "expired"} /\ n > 0 /\ p = "delivered"
       /\ m = n /\ b = c
    \/ o = "open" /\ p = "expired" /\ m = n /\ b = c

(* The moves together.                                                       *)
LEMMA LetterMoves ==
    ASSUME NEW o \in {"none", "open", "expired", "delivered"}, NEW p,
           NEW n \in Nat, NEW m, NEW b \in BOOLEAN, NEW c \in BOOLEAN,
           Developments(o, n, b, p, m, c)
    PROVE  \/ Promise!Letter(p, m, c) = Promise!Letter(o, n, b)
           \/ Promise!Moves(Promise!Letter(o, n, b), Promise!Letter(p, m, c))
<1>1. CASE p = o /\ m = n /\ b = c
  BY <1>1, Zenon
<1>2. CASE /\ o \in {"none", "expired"} /\ p = "open" /\ m = n
           /\ (b => c) /\ (c => b \/ o = "expired")
  BY <1>2, AskedMove, Zenon
<1>3. CASE o \in {"open", "expired"} /\ p = o /\ m = n /\ c = TRUE
  BY <1>3, ConcededMove, Zenon
<1>4. CASE /\ (o \in {"open", "expired"} /\ n = 0) \/ (o # "none" /\ b = TRUE)
           /\ p = o /\ m = n + 1 /\ b = c
  BY <1>4, PostedMove, Zenon
<1>5. CASE /\ o \in {"open", "expired"} /\ n > 0 /\ p = "delivered"
           /\ m = n /\ b = c
  BY <1>5, DeliveredMove, Zenon
<1>6. CASE o = "open" /\ p = "expired" /\ m = n /\ b = c
  BY <1>6, ExpiredMove, Zenon
<1> QED
  BY <1>1, <1>2, <1>3, <1>4, <1>5, <1>6, Zenon DEF Developments

(* The letter of a delivery, and of the next state.                          *)
Outcome(status) ==
    CASE status = "absent" -> "none"
      [] status = "pending" -> "open"
      [] OTHER -> status

LetterNow(d) ==
    Promise!Letter(Outcome(row[d].status), channel[d].posts, d \in excused)

LetterNext(d) ==
    Promise!Letter(Outcome(row'[d].status), channel'[d].posts, d \in excused')

(* What a step may do to a delivery, in terms of the tables.                 *)
RowKept(d) == row'[d].status = row[d].status
PostsKept(d) == channel'[d].posts = channel[d].posts
ExcusedKept(d) == d \in excused' <=> d \in excused

Fair(d) ==
    \/ RowKept(d) /\ PostsKept(d) /\ ExcusedKept(d)
    \/ /\ row[d].status \in {"absent", "expired"} /\ row'[d].status = "pending"
       /\ PostsKept(d)
       /\ d \in excused => d \in excused'
       /\ d \in excused' => d \in excused \/ row[d].status = "expired"
    \/ /\ row[d].status \in {"pending", "expired"}
       /\ RowKept(d) /\ PostsKept(d) /\ d \in excused'
    \/ /\ \/ row[d].status \in {"pending", "expired"} /\ channel[d].posts = 0
          \/ row[d].status # "absent" /\ d \in excused
       /\ channel'[d].posts = channel[d].posts + 1
       /\ RowKept(d) /\ ExcusedKept(d)
    \/ /\ row[d].status \in {"pending", "expired"} /\ channel[d].posts > 0
       /\ row'[d].status = "delivered" /\ PostsKept(d) /\ ExcusedKept(d)
    \/ /\ row[d].status = "pending" /\ row'[d].status = "expired"
       /\ PostsKept(d) /\ ExcusedKept(d)

(* The outcomes.                                                             *)
LEMMA Outcomes ==
    /\ Outcome("absent") = "none"
    /\ Outcome("pending") = "open"
    /\ Outcome("expired") = "expired"
    /\ Outcome("delivered") = "delivered"
  BY DEF Outcome

(* Which is what the promise allows.                                         *)
LEMMA FairMoves ==
    ASSUME DrainInv, NEW d \in Deliveries, Fair(d)
    PROVE  \/ LetterNext(d) = LetterNow(d)
           \/ Promise!Moves(LetterNow(d), LetterNext(d))
<1> DEFINE o == Outcome(row[d].status)
           p == Outcome(row'[d].status)
           n == channel[d].posts
           m == channel'[d].posts
           b == d \in excused
           c == d \in excused'
<1>1. n \in Nat /\ row[d].status \in {"absent", "pending", "delivered", "expired"}
  BY DEF DrainInv, Row
<1>2. o \in {"none", "open", "expired", "delivered"}
  BY <1>1, Outcomes, Zenon
<1>3. b \in BOOLEAN /\ c \in BOOLEAN
  OBVIOUS
<1>4. /\ row[d].status = "absent" => o = "none"
      /\ row[d].status = "pending" => o = "open"
      /\ row[d].status = "expired" => o = "expired"
      /\ row[d].status = "delivered" => o = "delivered"
      /\ row'[d].status = "pending" => p = "open"
      /\ row'[d].status = "expired" => p = "expired"
      /\ row'[d].status = "delivered" => p = "delivered"
  BY <1>1, Outcomes, Zenon
<1>5. RowKept(d) => p = o
  BY DEF RowKept
<1>6. PostsKept(d) => m = n
  BY DEF PostsKept
<1>7. ExcusedKept(d) => b = c
  BY DEF ExcusedKept
<1>8. n \in Nat /\ n = channel[d].posts /\ m = channel'[d].posts
  BY <1>1
<1>9. (d \in excused <=> b) /\ (d \in excused' <=> c)
  BY Zenon
<1> HIDE DEF o, p, n, m, b, c
<1>10. (b => b = TRUE) /\ (c => c = TRUE)
  BY <1>3, Zenon
<1>11. row[d].status # "absent" => o # "none"
  BY <1>1, <1>4
<1>12. Developments(o, n, b, p, m, c)
  <2> USE DEF Developments
  <2>1. CASE RowKept(d) /\ PostsKept(d) /\ ExcusedKept(d)
    BY <2>1, <1>5, <1>6, <1>7, Zenon
  <2>2. CASE /\ row[d].status \in {"absent", "expired"}
             /\ row'[d].status = "pending" /\ PostsKept(d)
             /\ d \in excused => d \in excused'
             /\ d \in excused' => d \in excused \/ row[d].status = "expired"
    BY <2>2, <1>4, <1>6, <1>9, Zenon
  <2>3. CASE /\ row[d].status \in {"pending", "expired"}
             /\ RowKept(d) /\ PostsKept(d) /\ d \in excused'
    BY <2>3, <1>4, <1>5, <1>6, <1>10, <1>9, Zenon
  <2>4. CASE /\ \/ row[d].status \in {"pending", "expired"} /\ channel[d].posts = 0
                \/ row[d].status # "absent" /\ d \in excused
             /\ channel'[d].posts = channel[d].posts + 1
             /\ RowKept(d) /\ ExcusedKept(d)
    BY <2>4, <1>4, <1>5, <1>7, <1>8, <1>9, <1>10, <1>11, Zenon
  <2>5. CASE /\ row[d].status \in {"pending", "expired"} /\ channel[d].posts > 0
             /\ row'[d].status = "delivered" /\ PostsKept(d) /\ ExcusedKept(d)
    BY <2>5, <1>4, <1>6, <1>7, <1>8, <1>9, Zenon
  <2>6. CASE /\ row[d].status = "pending" /\ row'[d].status = "expired"
             /\ PostsKept(d) /\ ExcusedKept(d)
    BY <2>6, <1>4, <1>6, <1>7, Zenon
  <2> QED
    BY <2>1, <2>2, <2>3, <2>4, <2>5, <2>6, Zenon DEF Fair
<1>13. \/ Promise!Letter(p, m, c) = Promise!Letter(o, n, b)
       \/ Promise!Moves(Promise!Letter(o, n, b), Promise!Letter(p, m, c))
  <2>1. n \in Nat
    BY <1>8
  <2> QED
    BY <1>2, <1>3, <2>1, <1>12, LetterMoves, Zenon
<1> QED
  BY <1>13, Zenon DEF LetterNow, LetterNext, o, p, n, m, b, c

(* Who is at a row that is not delivered and not excused is there alone.     *)
LEMMA SendsAlone ==
    ASSUME SendInv, NEW r \in Processes, NEW q \in Processes \ {r},
           NEW d \in Deliveries \ (excused \cup Unkeyed),
           row[d].status # "delivered", Sends(relay[q], d)
    PROVE  ~Sends(relay[r], d)
<1>1. PairFits(relay[r], relay[q], d)
  BY DEF SendInv, SendFits
<1> QED
  BY <1>1 DEF PairFits

(* A step that makes no claim posts a row for the first time or as conceded, *)
(* acknowledges what was posted, or begins to send next to another relay.    *)
LEMMA WorkFair ==
    ASSUME DrainInv, SendInv, NEW r \in Processes, NEW v, WorkStep(r, v),
           NEW d \in Deliveries \ Unkeyed
    PROVE  Fair(d)
<1> DEFINE w == relay[r]
<1>1. /\ w \in Relay /\ QueueFits(w) /\ KnowledgeFits(w) /\ RowFits(d)
      /\ row[d] \in Row /\ channel[d] \in [posts : Nat, files : Nat]
      /\ channel[d].posts \in Nat
  BY DEF DrainInv
<1>2. RowEffect(w, d) /\ ChannelEffect(w, v, d) /\ MoveOK(w, v) /\ Excuses(r, v)
  BY DEF WorkStep
<1>3. row[d].status \in {"absent", "pending", "delivered", "expired"}
  BY <1>1 DEF Row
<1>4. ASSUME Busy(w, d)
      PROVE  row[d].status # "absent"
  <2>1. d \in Elems(w.queue)
    BY <1>1, <1>4, InHandQueued
  <2> QED
    BY <2>1, <1>1 DEF KnowledgeFits
<1>5. CASE d \in excused' /\ d \notin excused
  <2>1. /\ row[d].status \notin {"absent", "delivered"} /\ Sends(v, d)
        /\ \E q \in Processes \ {r} : Sends(relay[q], d)
    BY <1>2, <1>5 DEF Excuses
  <2>2. ~Sends(w, d)
    BY <2>1, <1>5, SendsAlone
  <2>3. w.pc # "ack" \/ ~Busy(w, d)
    <3>1. Busy(v, d) /\ v.pc # "ack"
      BY <2>1 DEF Sends, Busy, Sending
    <3>2. Enters(w, v, d) \/ Continues(w, v, d)
      BY <3>1, <1>2 DEF MoveOK
    <3> QED
      BY <3>1, <3>2 DEF Enters, Continues, Waits, Busy
  <2>4. row'[d] = row[d]
    BY <2>3, <1>2 DEF RowEffect
  <2>5. channel'[d] = channel[d]
    BY <2>2, <1>2 DEF ChannelEffect, Busy, Sends, Sending
  <2> QED
    BY <2>1, <2>4, <2>5, <1>3, <1>5 DEF Fair, RowKept, PostsKept
<1>6. CASE ExcusedKept(d)
  <2>1. CASE w.pc = "post" /\ Busy(w, d)
    <3>1. row'[d] = row[d] /\ row[d].status # "absent"
      BY <2>1, <1>2, <1>4 DEF RowEffect
    <3>2. \/ channel'[d].posts = channel[d].posts
          \/ channel'[d].posts = channel[d].posts + 1
      BY <2>1, <1>1, <1>2 DEF ChannelEffect
    <3>3. d \notin excused => channel[d].posts = 0
      BY <2>1 DEF SendInv, SendFits, SenderFits, Sends, Busy, Sending
    <3>4. channel[d].posts = 0 => row[d].status # "delivered"
      BY <1>1 DEF RowFits
    <3> QED
      BY <3>1, <3>2, <3>3, <3>4, <1>3, <1>6 DEF Fair, RowKept, PostsKept
  <2>2. CASE ~(w.pc = "post" /\ Busy(w, d))
    <3>1. channel'[d].posts = channel[d].posts
      BY <2>2, <1>1, <1>2 DEF ChannelEffect
    <3>2. \/ row'[d].status = row[d].status
          \/ /\ row'[d].status = "delivered" /\ channel[d].posts > 0
             /\ row[d].status # "absent"
      BY WorkEffects DEF Shown
    <3> QED
      BY <3>1, <3>2, <1>3, <1>6 DEF Fair, RowKept, PostsKept
  <2> QED
    BY <2>1, <2>2
<1>7. excused \subseteq excused'
  BY <1>2 DEF Excuses
<1> QED
  BY <1>5, <1>6, <1>7 DEF ExcusedKept

(* A claim expires rows, and no more.                                        *)
LEMMA ClaimFair ==
    ASSUME DrainInv, NEW r \in Processes, NEW v, ClaimStep(r, v),
           NEW d \in Deliveries
    PROVE  Fair(d)
<1>1. ClaimPending /\ channel' = channel /\ excused' = excused
  BY DEF ClaimStep
<1>2. \/ row'[d].status = row[d].status
      \/ row[d].status = "pending" /\ row'[d].status = "expired"
  BY <1>1, ClaimedRow
<1> QED
  BY <1>1, <1>2 DEF Fair, RowKept, PostsKept, ExcusedKept

(* enqueue() asks for a delivery, and concedes it only if it had expired: a  *)
(* row that never was is not posted, and no relay holds it or knows of it.   *)
LEMMA EnqueueFair ==
    ASSUME DrainInv, NEW e \in Deliveries, Enqueue(e), NEW d \in Deliveries
    PROVE  Fair(d)
<1>1. /\ row \in [Deliveries -> Row] /\ RowFits(d) /\ channel' = channel
      /\ row[e].status \in {"absent", "expired"} /\ channel[d].posts \in Nat
  BY DEF DrainInv, Enqueue
<1>2. row' = [row EXCEPT ![e] = [status |-> "pending", claim |-> 0, age |-> 0]]
  BY DEF Enqueue
<1>3. /\ excused \subseteq excused' /\ excused' \subseteq excused \cup {e}
      /\ e \in excused' => \/ e \in excused \/ channel[e].posts > 0
                           \/ \E q \in Processes :
                                 SendsAt(q, e) \/ Knows(relay[q], e)
  BY DEF Enqueue, Revived
<1>4. CASE d # e
  BY <1>1, <1>2, <1>3, <1>4 DEF Fair, RowKept, PostsKept, ExcusedKept
<1>5. CASE d = e
  <2>1. row'[d].status = "pending"
    BY <1>1, <1>2, <1>5
  <2>2. ASSUME row[d].status = "absent", NEW q \in Processes
        PROVE  ~SendsAt(q, d) /\ ~Knows(relay[q], d)
    <3>0. ~Knows(relay[q], d)
      BY <2>2 DEF DrainInv, KnowledgeFits
    <3>1. SUFFICES ASSUME SendsAt(q, d) PROVE FALSE
      BY <3>0
    <3>2. /\ relay[q] \in Relay /\ QueueFits(relay[q]) /\ KnowledgeFits(relay[q])
          /\ Busy(relay[q], d)
      BY <3>1 DEF DrainInv, SendsAt, Busy
    <3>3. d \in Elems(relay[q].queue)
      BY <3>2, InHandQueued
    <3> QED
      BY <3>2, <3>3, <2>2 DEF KnowledgeFits
  <2>3. row[d].status = "absent" => ~(channel[d].posts > 0)
    BY <1>1 DEF RowFits
  <2> QED
    BY <2>1, <2>2, <2>3, <1>1, <1>3, <1>5 DEF Fair, PostsKept
<1> QED
  BY <1>4, <1>5

(* Every step of the outbox is one the promise allows.                       *)
LEMMA NextFair ==
    ASSUME DispatchInv, SendInv, [DispatchNext]_dispatchVars,
           NEW d \in Deliveries \ Unkeyed
    PROVE  Fair(d)
<1>1. DrainInv
  BY InvSplits
<1>2. ASSUME UNCHANGED deliveryVars PROVE Fair(d)
  BY <1>2 DEF deliveryVars, Fair, RowKept, PostsKept, ExcusedKept
<1>3. CASE DispatchNext
  <2>1. CASE \E r \in Processes : \E v : WorkStep(r, v) \/ ClaimStep(r, v)
    BY <2>1, <1>1, WorkFair, ClaimFair
  <2>2. CASE \E e \in Deliveries : Enqueue(e)
    BY <2>2, <1>1, EnqueueFair
  <2>3. CASE Tick
    <3>1. row[d] \in Row
      BY <1>1 DEF DrainInv
    <3>2. row'[d].status = row[d].status
      BY <2>3, <3>1 DEF Tick, Row
    <3>3. channel' = channel /\ excused' = excused
      BY <2>3 DEF Tick
    <3> QED
      BY <3>2, <3>3 DEF Fair, RowKept, PostsKept, ExcusedKept
  <2> QED
    BY <2>1, <2>2, <2>3, <1>1, <1>2, <1>3, StepKinds
<1>4. CASE UNCHANGED dispatchVars
  BY <1>2, <1>4 DEF dispatchVars
<1> QED
  BY <1>3, <1>4

(* The outbox implements its promise: for any number of relays and           *)
(* messages, whatever crashes or is cut, refused, lost or late, a message    *)
(* with a key that is not conceded is posted at most once, and one that      *)
(* ack() marked delivered is never opened, expired or posted again.          *)
THEOREM KeepsPromiseAlways ==
    ASSUME ClaimLag > 0
    PROVE  DispatchSpec => KeepsPromise
<1>1. DispatchInit => Promise!PromiseInit
  <2>1. SUFFICES ASSUME DispatchInit PROVE Promise!PromiseInit
    OBVIOUS
  <2>2. ASSUME NEW d \in Deliveries \ Unkeyed
        PROVE  LetterNow(d) = Promise!Letter("none", 0, FALSE)
    <3>1. row[d].status = "absent" /\ channel[d].posts = 0 /\ d \notin excused
      BY <2>1 DEF DispatchInit
    <3>2. (d \in excused) = FALSE
      BY <3>1
    <3> QED
      BY <3>1, <3>2, Outcomes, Zenon DEF LetterNow
  <2> QED
    BY <2>2 DEF Promise!PromiseInit, Promise!Letter, LetterNow, Outcome
<1>2. DispatchInv /\ SendInv /\ [DispatchNext]_dispatchVars => Promise!PromiseNext
  <2>1. SUFFICES ASSUME DispatchInv, SendInv, [DispatchNext]_dispatchVars
                 PROVE  Promise!PromiseNext
    OBVIOUS
  <2>2. ASSUME NEW d \in Deliveries \ Unkeyed
        PROVE  \/ LetterNext(d) = LetterNow(d)
               \/ Promise!Moves(LetterNow(d), LetterNext(d))
    BY <2>1, NextFair, FairMoves, InvSplits
  <2> QED
    BY <2>2 DEF Promise!PromiseNext, Promise!Letter, LetterNow, LetterNext,
                Outcome
<1> QED
  BY <1>1, <1>2, DispatchInvariance, SendInvariance, PTL
  DEF DispatchSpec, KeepsPromise, Promise!PromiseSpec
=============================================================================
