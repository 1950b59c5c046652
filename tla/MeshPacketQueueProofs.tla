------------------------- MODULE MeshPacketQueueProofs -------------------------
(***************************************************************************)
(* What the operators of MeshPacketQueue do, for every limit and every     *)
(* queue: where a packet is put in or taken out, which one is dropped, and *)
(* that the order of the queue is kept.                                    *)
(***************************************************************************)
EXTENDS MeshPacketQueue, WellFoundedInduction, SequenceTheorems, TLAPS

\* The packets an argument is about: what the order looks at has its type.
PacketSet(P) == \A p \in P : p.late \in BOOLEAN /\ p.us \in BOOLEAN /\ p.pri \in Int

(***************************************************************************)
(* The least and the greatest of a set.                                    *)
(***************************************************************************)

\* A set of numbers that is not empty has a least one.
LEMMA LeastNumber ==
    ASSUME NEW T \in SUBSET Nat, T # {}
    PROVE  \E x \in T : \A y \in T : x <= y
<1> DEFINE R == {ss \in Nat \X Nat : ss[1] < ss[2]}
<1>1. IsWellFoundedOn(R, Nat)
  BY NatLessThanWellFounded DEF OpToRel
<1>2. PICK x \in T : \A y \in T : << y, x >> \notin R
  <2> HIDE DEF R
  <2> QED
    BY <1>1, WFMin
<1>3. \A y \in T : y < x => << y, x >> \in R
  OBVIOUS
<1>4. \A y \in T : ~ (y < x)
  <2> HIDE DEF R
  <2> QED
    BY <1>2, <1>3, Zenon
<1>5. \A y \in T : x <= y
  BY <1>4
<1> QED
  BY <1>5

\* Min and Max are what they are called on positions of a queue.
LEMMA MinIsLeast ==
    ASSUME NEW n \in Nat, NEW T \in SUBSET (1..n), T # {}
    PROVE  Min(T) \in T /\ \A y \in T : Min(T) <= y
<1>1. \E x \in T : \A y \in T : x <= y
  <2>1. T \in SUBSET Nat
    OBVIOUS
  <2> QED
    BY <2>1, LeastNumber
<1> QED
  BY <1>1 DEF Min

\* Max is the least of the numbers counted from the other end.
LEMMA MaxIsGreatest ==
    ASSUME NEW n \in Nat, NEW T \in SUBSET (1..n), T # {}
    PROVE  Max(T) \in T /\ \A y \in T : y <= Max(T)
<1> DEFINE U == {i \in Nat : i <= n /\ n - i \in T}
<1>1. U \in SUBSET Nat /\ U # {}
  <2>1. PICK t \in T : TRUE
    OBVIOUS
  <2>2. n - t \in U
    <3>1. t \in 1..n /\ n - t \in Nat /\ n - t <= n /\ n - (n - t) = t
      OBVIOUS
    <3> QED
      BY <3>1
  <2> QED
    BY <2>2
<1>2. PICK u \in U : \A y \in U : u <= y
  <2> HIDE DEF U
  <2> QED
    BY <1>1, LeastNumber
<1>3. \A y \in T : y <= n - u
  <2> SUFFICES ASSUME NEW y \in T PROVE y <= n - u
    OBVIOUS
  <2>1. y \in 1..n /\ n - y \in Nat /\ n - y <= n /\ n - (n - y) = y
    OBVIOUS
  <2>2. n - y \in U
    BY <2>1
  <2>3. u <= n - y /\ u \in Nat
    BY <1>2, <2>2
  <2> QED
    BY <2>1, <2>3
<1>4. \E x \in T : \A y \in T : x >= y
  <2>1. n - u \in T /\ n - u \in 1..n
    BY <1>2
  <2>2. \A y \in T : n - u >= y
    BY <1>3, <2>1
  <2> QED
    BY <2>1, <2>2
<1>5. Max(T) \in T /\ \A y \in T : Max(T) >= y
  BY <1>4 DEF Max
<1> QED
  BY <1>5

(***************************************************************************)
(* Putting a packet in and taking one out.                                 *)
(***************************************************************************)

\* A packet at position u: those behind it move one place.
LEMMA InsertAtResult ==
    ASSUME NEW P, NEW q \in Seq(P), NEW p \in P, NEW u \in 1..(Len(q) + 1)
    PROVE  /\ InsertAt(q, u, p) \in Seq(P)
           /\ Len(InsertAt(q, u, p)) = Len(q) + 1
           /\ \A i \in 1..(Len(q) + 1) :
                  InsertAt(q, u, p)[i] = IF i < u THEN q[i] ELSE IF i = u THEN p ELSE q[i - 1]
<1> DEFINE a == SubSeq(q, 1, u - 1)
           b == SubSeq(q, u, Len(q))
           c == a \o << p >>
<1>0. Len(q) \in Nat /\ u \in Nat
  OBVIOUS
<1>1. a \in Seq(P) /\ Len(a) = u - 1 /\ \A i \in 1..(u - 1) : a[i] = q[i]
  BY <1>0
<1>2. b \in Seq(P) /\ Len(b) = Len(q) - u + 1 /\ \A i \in 1..(Len(q) - u + 1) : b[i] = q[u + i - 1]
  BY <1>0
<1>3. c \in Seq(P) /\ Len(c) = u /\ \A i \in 1..u : c[i] = IF i < u THEN q[i] ELSE p
  <2> HIDE DEF a
  <2>1. << p >> \in Seq(P) /\ Len(<< p >>) = 1 /\ << p >>[1] = p
    OBVIOUS
  <2> QED
    BY <1>0, <1>1, <2>1
<1>4. /\ c \o b \in Seq(P) /\ Len(c \o b) = Len(q) + 1
      /\ \A i \in 1..(Len(q) + 1) :
             (c \o b)[i] = IF i < u THEN q[i] ELSE IF i = u THEN p ELSE q[i - 1]
  <2> HIDE DEF b, c
  <2>1. /\ c \o b \in Seq(P) /\ Len(c \o b) = Len(q) + 1
        /\ \A i \in 1..(Len(q) + 1) : (c \o b)[i] = IF i <= u THEN c[i] ELSE b[i - u]
    <3>1. u + (Len(q) - u + 1) = Len(q) + 1
      BY <1>0
    <3>2. /\ c \o b \in Seq(P) /\ Len(c \o b) = Len(c) + Len(b)
          /\ \A i \in 1..(Len(c) + Len(b)) :
                 (c \o b)[i] = IF i <= Len(c) THEN c[i] ELSE b[i - Len(c)]
      BY <1>2, <1>3, ConcatProperties
    <3> QED
      BY <1>2, <1>3, <3>1, <3>2
  <2> SUFFICES ASSUME NEW i \in 1..(Len(q) + 1)
               PROVE  (c \o b)[i] = IF i < u THEN q[i] ELSE IF i = u THEN p ELSE q[i - 1]
    BY <2>1
  <2>2. CASE i <= u
    BY <1>0, <1>3, <2>1, <2>2
  <2>3. CASE ~(i <= u)
    <3>1. i - u \in 1..(Len(q) - u + 1) /\ u + (i - u) - 1 = i - 1
      BY <1>0, <2>3
    <3> QED
      BY <1>0, <1>2, <2>1, <2>3, <3>1
  <2> QED
    BY <1>0, <2>2, <2>3
<1> QED
  BY <1>4 DEF InsertAt

\* The packet at position u goes: those behind it move up.
LEMMA RemoveAtResult ==
    ASSUME NEW P, NEW q \in Seq(P), NEW u \in 1..Len(q)
    PROVE  /\ RemoveAt(q, u) \in Seq(P)
           /\ Len(RemoveAt(q, u)) = Len(q) - 1
           /\ \A i \in 1..(Len(q) - 1) :
                  RemoveAt(q, u)[i] = IF i < u THEN q[i] ELSE q[i + 1]
<1> DEFINE a == SubSeq(q, 1, u - 1)
           b == SubSeq(q, u + 1, Len(q))
<1>0. Len(q) \in Nat /\ u \in Nat
  OBVIOUS
<1>1. a \in Seq(P) /\ Len(a) = u - 1 /\ \A i \in 1..(u - 1) : a[i] = q[i]
  BY <1>0
<1>2. b \in Seq(P) /\ Len(b) = Len(q) - u /\ \A i \in 1..(Len(q) - u) : b[i] = q[u + i]
  BY <1>0
<1>3. /\ a \o b \in Seq(P) /\ Len(a \o b) = Len(q) - 1
      /\ \A i \in 1..(Len(q) - 1) : (a \o b)[i] = IF i < u THEN q[i] ELSE q[i + 1]
  <2> HIDE DEF a, b
  <2>1. /\ a \o b \in Seq(P) /\ Len(a \o b) = Len(q) - 1
        /\ \A i \in 1..(Len(q) - 1) : (a \o b)[i] = IF i <= u - 1 THEN a[i] ELSE b[i - (u - 1)]
    <3>1. u - 1 + (Len(q) - u) = Len(q) - 1
      BY <1>0
    <3>2. /\ a \o b \in Seq(P) /\ Len(a \o b) = Len(a) + Len(b)
          /\ \A i \in 1..(Len(a) + Len(b)) :
                 (a \o b)[i] = IF i <= Len(a) THEN a[i] ELSE b[i - Len(a)]
      BY <1>1, <1>2, ConcatProperties
    <3> QED
      BY <1>1, <1>2, <3>1, <3>2
  <2> SUFFICES ASSUME NEW i \in 1..(Len(q) - 1)
               PROVE  (a \o b)[i] = IF i < u THEN q[i] ELSE q[i + 1]
    BY <2>1
  <2>2. CASE i < u
    BY <1>0, <1>1, <2>1, <2>2
  <2>3. CASE ~(i < u)
    <3>1. i - (u - 1) \in 1..(Len(q) - u) /\ u + (i - (u - 1)) = i + 1
      BY <1>0, <2>3
    <3> QED
      BY <1>0, <1>2, <2>1, <2>3, <3>1
  <2> QED
    BY <2>2, <2>3
<1> QED
  BY <1>3 DEF RemoveAt

(***************************************************************************)
(* The order of the queue.                                                 *)
(***************************************************************************)

\* CompareMeshPacketFunc is a strict weak order: what std::upper_bound asks for.
LEMMA BeforeIsOrder ==
    ASSUME NEW P, PacketSet(P), NEW p \in P, NEW q \in P, NEW r \in P
    PROVE  /\ ~Before(p, p)
           /\ Before(p, q) => ~Before(q, p)
           /\ Before(p, q) /\ Before(q, r) => Before(p, r)
           /\ ~Before(p, q) /\ ~Before(q, r) => ~Before(p, r)
  BY DEF PacketSet, Before

\* upper_bound finds a place: none of the packets before it must stand behind p, and
\* p must precede the one that is there.
LEMMA UpperBoundResult ==
    ASSUME NEW P, PacketSet(P), NEW q \in Seq(P), NEW p \in P
    PROVE  /\ UpperBound(q, p) \in 1..(Len(q) + 1)
           /\ \A j \in 1..(UpperBound(q, p) - 1) : ~Before(p, q[j])
           /\ UpperBound(q, p) <= Len(q) => Before(p, q[UpperBound(q, p)])
<1> DEFINE T == {i \in 1..(Len(q) + 1) : i <= Len(q) => Before(p, q[i])}
<1>0. Len(q) \in Nat
  OBVIOUS
<1>1. Len(q) + 1 \in T /\ T \in SUBSET Nat
  BY <1>0
<1>2. PICK u \in T : \A y \in T : u <= y
  <2> HIDE DEF T
  <2> QED
    BY <1>1, LeastNumber
<1>3. \A j \in 1..(u - 1) : ~Before(p, q[j])
  <2> SUFFICES ASSUME NEW j \in 1..(u - 1), Before(p, q[j]) PROVE FALSE
    OBVIOUS
  <2>1. u \in 1..(Len(q) + 1)
    OBVIOUS
  <2>2. j \in 1..(Len(q) + 1) /\ ~(u <= j)
    BY <1>0, <2>1
  <2>3. j \in T
    BY <2>2
  <2> QED
    BY <1>2, <2>2, <2>3
<1>4. \E i \in 1..(Len(q) + 1) :
          /\ \A j \in 1..(i - 1) : ~Before(p, q[j])
          /\ i <= Len(q) => Before(p, q[i])
  BY <1>3
<1> QED
  BY <1>4 DEF UpperBound

\* What the queue is when a packet is put where the order wants it.
LEMMA InsertResult ==
    ASSUME NEW P, PacketSet(P), NEW q \in Seq(P), NEW p \in P
    PROVE  /\ Insert(q, p) \in Seq(P) /\ Len(Insert(q, p)) = Len(q) + 1
           /\ \A i \in 1..(Len(q) + 1) :
                  Insert(q, p)[i] = IF i < UpperBound(q, p) THEN q[i]
                                    ELSE IF i = UpperBound(q, p) THEN p ELSE q[i - 1]
<1> DEFINE u == UpperBound(q, p)
<1>1. u \in 1..(Len(q) + 1)
  BY UpperBoundResult
<1>2. Insert(q, p) = InsertAt(q, u, p)
  BY DEF Insert
<1> HIDE DEF u
<1>3. /\ InsertAt(q, u, p) \in Seq(P) /\ Len(InsertAt(q, u, p)) = Len(q) + 1
      /\ \A i \in 1..(Len(q) + 1) :
             InsertAt(q, u, p)[i] = IF i < u THEN q[i] ELSE IF i = u THEN p ELSE q[i - 1]
  BY <1>1, InsertAtResult
<1> QED
  BY <1>2, <1>3 DEF u

\* It is in order.
LEMMA InsertKeepsOrder ==
    ASSUME NEW P, PacketSet(P), NEW q \in Seq(P), NEW p \in P, Sorted(q)
    PROVE  Sorted(Insert(q, p))
<1> DEFINE u == UpperBound(q, p)
           r == Insert(q, p)
<1>0. Len(q) \in Nat
  OBVIOUS
<1>1. /\ u \in 1..(Len(q) + 1)
      /\ \A j \in 1..(u - 1) : ~Before(p, q[j])
      /\ u <= Len(q) => Before(p, q[u])
  BY UpperBoundResult
<1>2. /\ r \in Seq(P) /\ Len(r) = Len(q) + 1
      /\ \A i \in 1..(Len(q) + 1) : r[i] = IF i < u THEN q[i] ELSE IF i = u THEN p ELSE q[i - 1]
  BY InsertResult
<1> HIDE DEF u, r
<1>3. \A i, j \in 1..Len(q) : i < j => ~Before(q[j], q[i])
  BY <1>0 DEF Sorted
<1>4. \A i \in 1..Len(q) : q[i] \in P
  OBVIOUS
<1>5. \A j \in 1..Len(q) : j >= u => ~Before(q[j], p)
  <2> SUFFICES ASSUME NEW j \in 1..Len(q), j >= u, Before(q[j], p) PROVE FALSE
    OBVIOUS
  <2>1. u \in 1..Len(q)
    BY <1>0, <1>1
  <2>2. Before(p, q[u]) /\ q[u] \in P /\ q[j] \in P
    BY <1>1, <1>4, <2>1
  <2>3. Before(q[j], q[u])
    BY <2>2, BeforeIsOrder
  <2>4. j # u
    BY <2>2, <2>3, BeforeIsOrder
  <2> QED
    BY <1>3, <2>1, <2>3, <2>4
<1>6. \A i, j \in 1..Len(r) : i < j => ~Before(r[j], r[i])
  <2> SUFFICES ASSUME NEW i \in 1..(Len(q) + 1), NEW j \in 1..(Len(q) + 1), i < j
               PROVE  ~Before(r[j], r[i])
    BY <1>2
  <2>1. CASE j < u
    <3>1. i \in 1..Len(q) /\ j \in 1..Len(q) /\ r[i] = q[i] /\ r[j] = q[j]
      BY <1>0, <1>1, <1>2, <2>1
    <3> QED
      BY <1>3, <3>1
  <2>2. CASE j = u
    <3>1. r[j] = p /\ i \in 1..(u - 1) /\ r[i] = q[i]
      BY <1>0, <1>1, <1>2, <2>2
    <3> QED
      BY <1>1, <3>1
  <2>3. CASE j > u
    <3>1. j - 1 \in 1..Len(q) /\ r[j] = q[j - 1] /\ j - 1 >= u
      BY <1>0, <1>1, <1>2, <2>3
    <3>2. CASE i = u
      <4>1. r[i] = p
        BY <1>2, <3>2
      <4> QED
        BY <1>5, <3>1, <4>1
    <3>3. CASE i < u
      <4>1. i \in 1..Len(q) /\ r[i] = q[i] /\ i < j - 1
        BY <1>0, <1>1, <1>2, <3>1, <3>3
      <4> QED
        BY <1>3, <3>1, <4>1
    <3>4. CASE i > u
      <4>1. i - 1 \in 1..Len(q) /\ r[i] = q[i - 1] /\ i - 1 < j - 1
        BY <1>0, <1>1, <1>2, <3>1, <3>4
      <4> QED
        BY <1>3, <3>1, <4>1
    <3> QED
      BY <1>1, <3>2, <3>3, <3>4
  <2> QED
    BY <1>1, <2>1, <2>2, <2>3
<1> QED
  BY <1>2, <1>6 DEF Sorted, r

\* Taking a packet out disturbs nothing.
LEMMA RemoveKeepsOrder ==
    ASSUME NEW P, NEW q \in Seq(P), NEW u \in 1..Len(q), Sorted(q)
    PROVE  Sorted(RemoveAt(q, u))
<1> DEFINE r == RemoveAt(q, u)
           From(i) == IF i < u THEN i ELSE i + 1
<1>0. Len(q) \in Nat
  OBVIOUS
<1>1. /\ r \in Seq(P) /\ Len(r) = Len(q) - 1
      /\ \A i \in 1..(Len(q) - 1) : r[i] = IF i < u THEN q[i] ELSE q[i + 1]
  BY RemoveAtResult
<1> HIDE DEF r
<1>2. \A i \in 1..(Len(q) - 1) : From(i) \in 1..Len(q) /\ r[i] = q[From(i)]
  BY <1>0, <1>1
<1>3. \A i, j \in 1..(Len(q) - 1) : i < j => From(i) < From(j)
  BY <1>0
<1> HIDE DEF From
<1>4. \A i, j \in 1..Len(q) : i < j => ~Before(q[j], q[i])
  BY <1>0 DEF Sorted
<1>5. \A i, j \in 1..(Len(q) - 1) : i < j => ~Before(r[j], r[i])
  BY <1>2, <1>3, <1>4
<1> QED
  BY <1>1, <1>5 DEF Sorted, r

\* The front of the queue leaves.
LEMMA TailKeepsOrder ==
    ASSUME NEW P, NEW q \in Seq(P), q # << >>, Sorted(q)
    PROVE  Sorted(Tail(q))
<1>1. /\ Tail(q) \in Seq(P) /\ Len(q) \in Nat /\ Len(Tail(q)) = Len(q) - 1
      /\ \A i \in 1..(Len(q) - 1) : Tail(q)[i] = q[i + 1]
  OBVIOUS
<1>2. \A i, j \in 1..Len(q) : i < j => ~Before(q[j], q[i])
  BY <1>1 DEF Sorted
<1>3. \A i, j \in 1..(Len(q) - 1) : i < j => ~Before(Tail(q)[j], Tail(q)[i])
  BY <1>1, <1>2
<1> QED
  BY <1>1, <1>3 DEF Sorted

(***************************************************************************)
(* A full queue, and the packet a key finds.                               *)
(***************************************************************************)

\* replaceLowerPriorityPacket() drops a packet that is not late, has a lower priority
\* than p, and has none but late packets behind it.
LEMMA VictimResult ==
    ASSUME NEW P, PacketSet(P), NEW q \in Seq(P), NEW p \in P, Replaceable(q, p)
    PROVE  /\ Victim(q) \in 1..Len(q)
           /\ ~q[Victim(q)].late /\ q[Victim(q)].pri < p.pri
           /\ \A j \in 1..Len(q) : j > Victim(q) => q[j].late
<1> DEFINE normal == {i \in DOMAIN q : ~q[i].late}
<1>0. Len(q) \in Nat /\ Len(q) > 0 /\ DOMAIN q = 1..Len(q)
  BY EmptySeq DEF Replaceable
<1>1. ~q[Victim(q)].late /\ q[Victim(q)].pri < p.pri
  BY DEF Replaceable
<1>2. CASE normal = {}
  <2>1. Victim(q) = 1 /\ 1 \in DOMAIN q
    BY <1>0, <1>2 DEF Victim
  <2> QED
    BY <1>1, <1>2, <2>1
<1>3. CASE normal # {}
  <2>1. Victim(q) = Max(normal)
    BY <1>3 DEF Victim
  <2>2. normal \in SUBSET (1..Len(q))
    BY <1>0
  <2> HIDE DEF normal
  <2>3. Max(normal) \in normal /\ \A y \in normal : y <= Max(normal)
    BY <1>0, <1>3, <2>2, MaxIsGreatest
  <2> USE DEF normal
  <2>4. Max(normal) \in 1..Len(q)
    BY <2>2, <2>3
  <2>5. \A j \in 1..Len(q) : j > Max(normal) => q[j].late
    <3> SUFFICES ASSUME NEW j \in 1..Len(q), j > Max(normal), ~q[j].late PROVE FALSE
      OBVIOUS
    <3>1. j \in normal
      BY <1>0
    <3> QED
      BY <2>3, <2>4, <3>1
  <2> QED
    BY <1>1, <2>1, <2>4, <2>5
<1> QED
  BY <1>2, <1>3

\* remove() finds a packet with the key in a wanted window, if there is one.
LEMMA FindResult ==
    ASSUME NEW P, NEW q \in Seq(P), NEW key, NEW normal \in BOOLEAN, NEW late \in BOOLEAN,
           Find(q, key, normal, late) # 0
    PROVE  /\ Find(q, key, normal, late) \in 1..Len(q)
           /\ q[Find(q, key, normal, late)].key = key
           /\ q[Find(q, key, normal, late)].late => late
           /\ ~q[Find(q, key, normal, late)].late => normal
<1> DEFINE m == Matches(q, key, normal, late)
<1>1. m # {} /\ Find(q, key, normal, late) = Min(m)
  BY DEF Find
<1>2. Len(q) \in Nat /\ m \in SUBSET (1..Len(q))
  BY DEF Matches
<1>3. Min(m) \in m
  <2> HIDE DEF m
  <2> QED
    BY <1>1, <1>2, MinIsLeast
<1> QED
  BY <1>1, <1>2, <1>3 DEF Matches

(***************************************************************************)
(* Which packets are in the queue, when each has a number of its own.      *)
(***************************************************************************)

\* The numbers of the packets in q, and that no two are the same.
Numbers(q) == {q[i].n : i \in 1..Len(q)}
Distinct(q) == \A i, j \in 1..Len(q) : q[i].n = q[j].n => i = j

\* A packet with a new number is put in.
LEMMA InsertNumbers ==
    ASSUME NEW P, PacketSet(P), NEW q \in Seq(P), NEW p \in P, Distinct(q), p.n \notin Numbers(q)
    PROVE  Distinct(Insert(q, p)) /\ Numbers(Insert(q, p)) = Numbers(q) \cup {p.n}
<1> DEFINE u == UpperBound(q, p)
           r == Insert(q, p)
<1>0. Len(q) \in Nat /\ u \in 1..(Len(q) + 1)
  BY UpperBoundResult
<1>1. /\ Len(r) = Len(q) + 1
      /\ \A i \in 1..(Len(q) + 1) : r[i] = IF i < u THEN q[i] ELSE IF i = u THEN p ELSE q[i - 1]
  BY InsertResult
<1> HIDE DEF u, r
<1>2. \A i \in 1..Len(q) : q[i].n # p.n
  BY DEF Numbers
<1> DEFINE From(i) == IF i < u THEN i ELSE i - 1
<1>3. \A i \in 1..Len(r) : i # u => From(i) \in 1..Len(q) /\ r[i] = q[From(i)]
  BY <1>0, <1>1
<1>4. \A i, j \in 1..Len(r) : i # u /\ j # u /\ From(i) = From(j) => i = j
  BY <1>0, <1>1
<1>5. r[u] = p /\ u \in 1..Len(r)
  BY <1>0, <1>1
<1>6. \A k \in 1..Len(q) : \E i \in 1..Len(r) : i # u /\ From(i) = k
  <2> SUFFICES ASSUME NEW k \in 1..Len(q) PROVE \E i \in 1..Len(r) : i # u /\ From(i) = k
    OBVIOUS
  <2>1. CASE k < u
    BY <1>0, <1>1, <2>1
  <2>2. CASE ~(k < u)
    <3>1. k + 1 \in 1..Len(r) /\ k + 1 # u /\ From(k + 1) = k
      BY <1>0, <1>1, <2>2
    <3> QED
      BY <3>1
  <2> QED
    BY <2>1, <2>2
<1> HIDE DEF From
<1>7. Distinct(r)
  <2> SUFFICES ASSUME NEW i \in 1..Len(r), NEW j \in 1..Len(r), r[i].n = r[j].n PROVE i = j
    BY DEF Distinct
  <2>1. CASE i = u \/ j = u
    BY <1>2, <1>3, <1>5, <2>1
  <2>2. CASE i # u /\ j # u
    BY <1>3, <1>4, <2>2 DEF Distinct
  <2> QED
    BY <2>1, <2>2
<1>8. Numbers(r) \subseteq Numbers(q) \cup {p.n}
  BY <1>3, <1>5 DEF Numbers
<1>9. Numbers(q) \cup {p.n} \subseteq Numbers(r)
  <2>1. p.n \in Numbers(r)
    BY <1>5 DEF Numbers
  <2>2. ASSUME NEW k \in 1..Len(q) PROVE q[k].n \in Numbers(r)
    BY <1>3, <1>6 DEF Numbers
  <2> QED
    BY <2>1, <2>2 DEF Numbers
<1> QED
  BY <1>7, <1>8, <1>9 DEF r

\* A packet is taken out.
LEMMA RemoveNumbers ==
    ASSUME NEW P, NEW q \in Seq(P), NEW u \in 1..Len(q), Distinct(q)
    PROVE  Distinct(RemoveAt(q, u)) /\ Numbers(RemoveAt(q, u)) = Numbers(q) \ {q[u].n}
<1> DEFINE r == RemoveAt(q, u)
           From(i) == IF i < u THEN i ELSE i + 1
<1>0. Len(q) \in Nat
  OBVIOUS
<1>1. /\ Len(r) = Len(q) - 1
      /\ \A i \in 1..(Len(q) - 1) : r[i] = IF i < u THEN q[i] ELSE q[i + 1]
  BY RemoveAtResult
<1> HIDE DEF r
<1>2. \A i \in 1..Len(r) : From(i) \in 1..Len(q) /\ From(i) # u /\ r[i] = q[From(i)]
  BY <1>0, <1>1
<1>3. \A i, j \in 1..Len(r) : From(i) = From(j) => i = j
  BY <1>0, <1>1
<1>4. \A k \in 1..Len(q) : k # u => \E i \in 1..Len(r) : From(i) = k
  <2> SUFFICES ASSUME NEW k \in 1..Len(q), k # u PROVE \E i \in 1..Len(r) : From(i) = k
    OBVIOUS
  <2>1. CASE k < u
    BY <1>0, <1>1, <2>1
  <2>2. CASE k > u
    <3>1. k - 1 \in 1..Len(r) /\ From(k - 1) = k
      BY <1>0, <1>1, <2>2
    <3> QED
      BY <3>1
  <2> QED
    BY <2>1, <2>2
<1> HIDE DEF From
<1>5. Distinct(r)
  BY <1>2, <1>3 DEF Distinct
<1>6. Numbers(r) = Numbers(q) \ {q[u].n}
  <2>1. ASSUME NEW i \in 1..Len(r) PROVE r[i].n \in Numbers(q) \ {q[u].n}
    BY <1>2 DEF Numbers, Distinct
  <2>2. ASSUME NEW k \in 1..Len(q), q[k].n # q[u].n PROVE q[k].n \in Numbers(r)
    BY <1>2, <1>4, <2>2 DEF Numbers
  <2> QED
    BY <2>1, <2>2 DEF Numbers
<1> QED
  BY <1>5, <1>6 DEF r

\* The front of the queue leaves.
LEMMA TailNumbers ==
    ASSUME NEW P, NEW q \in Seq(P), q # << >>, Distinct(q)
    PROVE  Distinct(Tail(q)) /\ Numbers(Tail(q)) = Numbers(q) \ {Head(q).n}
<1>1. /\ Len(q) \in Nat /\ Len(Tail(q)) = Len(q) - 1 /\ Head(q) = q[1] /\ 1 \in 1..Len(q)
      /\ \A i \in 1..(Len(q) - 1) : Tail(q)[i] = q[i + 1]
  OBVIOUS
<1>2. \A i \in 1..(Len(q) - 1) : i + 1 \in 1..Len(q) /\ i + 1 # 1
  BY <1>1
<1>3. Distinct(Tail(q))
  BY <1>1, <1>2 DEF Distinct
<1>4. \A k \in 1..Len(q) : k # 1 => k - 1 \in 1..(Len(q) - 1) /\ (k - 1) + 1 = k
  BY <1>1
<1>5. Numbers(Tail(q)) = Numbers(q) \ {Head(q).n}
  <2>1. ASSUME NEW i \in 1..(Len(q) - 1) PROVE Tail(q)[i].n \in Numbers(q) \ {Head(q).n}
    BY <1>1, <1>2 DEF Numbers, Distinct
  <2>2. ASSUME NEW k \in 1..Len(q), q[k].n # Head(q).n PROVE q[k].n \in Numbers(Tail(q))
    BY <1>1, <1>4, <2>2 DEF Numbers
  <2> QED
    BY <1>1, <2>1, <2>2 DEF Numbers
<1> QED
  BY <1>3, <1>5

\* enqueue(): the queue stays in order and in its limit; a packet goes in, or it is
\* refused, or it takes the place of the one packet that is dropped.
LEMMA EnqueueResult ==
    ASSUME NEW P, PacketSet(P), NEW q \in Seq(P), NEW p \in P, Sorted(q), Len(q) <= MaxLen
    PROVE  /\ Enqueue(q, p).queue \in Seq(P) /\ Sorted(Enqueue(q, p).queue)
           /\ Len(Enqueue(q, p).queue) <= MaxLen
           /\ Enqueue(q, p).ok \in BOOLEAN
           /\ Len(q) < MaxLen => /\ Enqueue(q, p).ok
                                 /\ Enqueue(q, p).queue = Insert(q, p)
                                 /\ Enqueue(q, p).freed = << >>
           /\ ~(Len(q) < MaxLen) /\ Replaceable(q, p) =>
                  /\ Enqueue(q, p).ok
                  /\ Enqueue(q, p).queue = Insert(RemoveAt(q, Victim(q)), p)
                  /\ Enqueue(q, p).freed = << q[Victim(q)] >>
           /\ ~(Len(q) < MaxLen) /\ ~Replaceable(q, p) =>
                  /\ ~Enqueue(q, p).ok
                  /\ Enqueue(q, p).queue = q
                  /\ Enqueue(q, p).freed = << >>
<1>0. Len(q) \in Nat /\ MaxLen \in Nat
  BY MaxLenAssumption DEF MaxLenAssumption
<1>1. CASE Len(q) < MaxLen
  <2>1. /\ Enqueue(q, p).ok = TRUE /\ Enqueue(q, p).queue = Insert(q, p)
        /\ Enqueue(q, p).freed = << >>
    BY <1>1 DEF Enqueue
  <2>2. Insert(q, p) \in Seq(P) /\ Len(Insert(q, p)) = Len(q) + 1 /\ Sorted(Insert(q, p))
    BY InsertResult, InsertKeepsOrder
  <2>3. Len(Insert(q, p)) <= MaxLen
    BY <1>0, <1>1, <2>2
  <2>4. /\ Enqueue(q, p).queue \in Seq(P) /\ Sorted(Enqueue(q, p).queue)
        /\ Len(Enqueue(q, p).queue) <= MaxLen
    BY <2>1, <2>2, <2>3, Zenon
  <2> QED
    BY <1>1, <2>1, <2>4
<1>2. CASE ~(Len(q) < MaxLen) /\ Replaceable(q, p)
  <2> DEFINE t == RemoveAt(q, Victim(q))
  <2>1. /\ Enqueue(q, p).ok = TRUE /\ Enqueue(q, p).queue = Insert(t, p)
        /\ Enqueue(q, p).freed = << q[Victim(q)] >>
    BY <1>2 DEF Enqueue
  <2>2. Victim(q) \in 1..Len(q)
    BY <1>2, VictimResult
  <2>3. t \in Seq(P) /\ Len(t) = Len(q) - 1 /\ Sorted(t)
    BY <2>2, RemoveAtResult, RemoveKeepsOrder
  <2>4. Insert(t, p) \in Seq(P) /\ Len(Insert(t, p)) = Len(t) + 1 /\ Sorted(Insert(t, p))
    <3> HIDE DEF t
    <3> QED
      BY <2>3, InsertResult, InsertKeepsOrder
  <2>5. Len(Insert(t, p)) <= MaxLen
    BY <1>0, <2>3, <2>4
  <2>6. /\ Enqueue(q, p).queue \in Seq(P) /\ Sorted(Enqueue(q, p).queue)
        /\ Len(Enqueue(q, p).queue) <= MaxLen
    BY <2>1, <2>4, <2>5, Zenon
  <2> QED
    BY <1>2, <2>1, <2>6
<1>3. CASE ~(Len(q) < MaxLen) /\ ~Replaceable(q, p)
  <2>1. /\ Enqueue(q, p).ok = FALSE /\ Enqueue(q, p).queue = q
        /\ Enqueue(q, p).freed = << >>
    BY <1>3 DEF Enqueue
  <2> QED
    BY <1>0, <1>3, <2>1
<1> QED
  BY <1>1, <1>2, <1>3

\* enqueue() neither loses nor duplicates a packet: those it does not give back to the
\* pool are in the queue, once.
LEMMA EnqueueNumbers ==
    ASSUME NEW P, PacketSet(P), NEW q \in Seq(P), NEW p \in P, Sorted(q), Len(q) <= MaxLen,
           Distinct(q), p.n \notin Numbers(q)
    PROVE  /\ Distinct(Enqueue(q, p).queue)
           /\ \/ /\ Enqueue(q, p).ok /\ Enqueue(q, p).freed = << >>
                 /\ Numbers(Enqueue(q, p).queue) = Numbers(q) \cup {p.n}
              \/ /\ Enqueue(q, p).ok
                 /\ \E v \in 1..Len(q) :
                        /\ Enqueue(q, p).freed = << q[v] >>
                        /\ Numbers(Enqueue(q, p).queue) = (Numbers(q) \ {q[v].n}) \cup {p.n}
              \/ /\ ~Enqueue(q, p).ok /\ Enqueue(q, p).freed = << >>
                 /\ Enqueue(q, p).queue = q
<1>1. CASE Len(q) < MaxLen
  BY <1>1, EnqueueResult, InsertNumbers
<1>2. CASE ~(Len(q) < MaxLen) /\ Replaceable(q, p)
  <2> DEFINE t == RemoveAt(q, Victim(q))
  <2>1. Victim(q) \in 1..Len(q)
    BY <1>2, VictimResult
  <2>2. t \in Seq(P) /\ Distinct(t) /\ Numbers(t) = Numbers(q) \ {q[Victim(q)].n}
    BY <2>1, RemoveAtResult, RemoveNumbers
  <2>3. Distinct(Insert(t, p)) /\ Numbers(Insert(t, p)) = Numbers(t) \cup {p.n}
    <3> HIDE DEF t
    <3> QED
      BY <2>2, InsertNumbers
  <2> QED
    BY <1>2, <2>1, <2>2, <2>3, EnqueueResult
<1>3. CASE ~(Len(q) < MaxLen) /\ ~Replaceable(q, p)
  BY <1>3, EnqueueResult
<1> QED
  BY <1>1, <1>2, <1>3
================================================================================
