-------------------------- MODULE PacketHistoryProofs --------------------------
(***************************************************************************)
(* What PacketHistory promises, for any number of packets and relayer      *)
(* slots, any expiry time and any width of millis(): a packet is a         *)
(* duplicate exactly while its record is young, and its last relayers are  *)
(* found whatever the slots that were never written hold.                  *)
(***************************************************************************)
EXTENDS PacketHistory, FiniteSetTheorems, TLAPS

\* The positions of a sequence that Without keeps, and the position each of
\* them moves to.
Kept(s, byte) == {i \in DOMAIN s : s[i] # byte}
Place(K, i) == Cardinality(K \cap 1..i)

\* The members of a set of positions are numbered in their order, without gaps.
LEMMA Places ==
    ASSUME NEW n \in Nat, NEW K \in SUBSET (1..n)
    PROVE  /\ IsFiniteSet(K) /\ Cardinality(K) \in 0..n
           /\ \A i \in K : Place(K, i) \in 1..Cardinality(K)
           /\ \A i, j \in K : i < j => Place(K, i) < Place(K, j)
           /\ \A j \in 1..Cardinality(K) : \E i \in K : Place(K, i) = j
<1>1. IsFiniteSet(1..n) /\ Cardinality(1..n) = n
  BY FS_Interval
<1>2. IsFiniteSet(K) /\ Cardinality(K) \in 0..n
  <2>1. IsFiniteSet(K) /\ Cardinality(K) <= n
    BY <1>1, FS_Subset
  <2>2. Cardinality(K) \in Nat
    BY <2>1, FS_CardinalityType
  <2> QED
    BY <2>1, <2>2
<1>3. \A i \in K : Place(K, i) \in 1..Cardinality(K)
  <2> SUFFICES ASSUME NEW i \in K PROVE Place(K, i) \in 1..Cardinality(K)
    OBVIOUS
  <2>1. IsFiniteSet(K \cap 1..i) /\ Cardinality(K \cap 1..i) <= Cardinality(K)
    BY <1>2, FS_Subset
  <2>2. Cardinality(K \cap 1..i) \in Nat
    BY <2>1, FS_CardinalityType
  <2>3. i \in K \cap 1..i
    OBVIOUS
  <2>4. Cardinality(K \cap 1..i) # 0
    BY <2>1, <2>3, FS_EmptySet
  <2> QED
    BY <1>2, <2>1, <2>2, <2>4 DEF Place
<1>4. \A i, j \in K : i < j => Place(K, i) < Place(K, j)
  <2> SUFFICES ASSUME NEW i \in K, NEW j \in K, i < j PROVE Place(K, i) < Place(K, j)
    OBVIOUS
  <2>1. IsFiniteSet(K \cap 1..j)
    BY <1>2, FS_Subset
  <2>2. (K \cap 1..i) \in SUBSET (K \cap 1..j) /\ j \in K \cap 1..j /\ j \notin K \cap 1..i
    OBVIOUS
  <2>3. /\ Cardinality(K \cap 1..i) <= Cardinality(K \cap 1..j)
        /\ Cardinality(K \cap 1..i) # Cardinality(K \cap 1..j)
    BY <2>1, <2>2, FS_Subset
  <2> QED
    BY <1>3, <2>3 DEF Place
<1>5. \A j \in 1..Cardinality(K) : \E i \in K : Place(K, i) = j
  <2> DEFINE f == [i \in K |-> Place(K, i)]
  <2>1. f \in [K -> 1..Cardinality(K)] /\ \A i, j \in K : i # j => f[i] # f[j]
    BY <1>3, <1>4
  <2>2. f \in Injection(K, 1..Cardinality(K))
    BY <2>1 DEF Injection, IsInjective
  <2>3. IsFiniteSet(1..Cardinality(K)) /\ Cardinality(1..Cardinality(K)) = Cardinality(K)
    BY <1>2, FS_Interval
  <2>4. f \in Surjection(K, 1..Cardinality(K))
    BY <2>2, <2>3, FS_Injection
  <2> QED
    BY <2>4 DEF Surjection
<1> QED
  BY <1>2, <1>3, <1>4, <1>5

\* What Without returns: the members that stay, each at its place.
LEMMA WithoutResult ==
    ASSUME NEW n \in Nat, NEW S, NEW s \in [1..n -> S], NEW byte
    PROVE  LET w == Without(s, byte)
               K == Kept(s, byte)
           IN  /\ K \in SUBSET (1..n) /\ Cardinality(K) \in 0..n
               /\ w \in [1..Cardinality(K) -> S]
               /\ w \in Seq(S) /\ Len(w) = Cardinality(K)
               /\ \A i \in K : /\ Place(K, i) \in 1..Cardinality(K)
                               /\ w[Place(K, i)] = s[i]
               /\ \A j \in 1..Cardinality(K) :
                      \E i \in K : Place(K, i) = j /\ w[j] = s[i]
<1> DEFINE K == Kept(s, byte)
           w == Without(s, byte)
<1>1. K \in SUBSET (1..n)
  BY DEF Kept
<1>2. /\ Cardinality(K) \in 0..n
      /\ \A i \in K : Place(K, i) \in 1..Cardinality(K)
      /\ \A i, j \in K : i < j => Place(K, i) < Place(K, j)
      /\ \A j \in 1..Cardinality(K) : \E i \in K : Place(K, i) = j
  BY <1>1, Places
<1>3. w = [j \in 1..Cardinality(K) |-> s[CHOOSE i \in K : Place(K, i) = j]]
  BY DEF Without, Kept, Place
<1> HIDE DEF K, w
<1>4. \A i, j \in K : Place(K, i) = Place(K, j) => i = j
  <2> SUFFICES ASSUME NEW i \in K, NEW j \in K, Place(K, i) = Place(K, j) PROVE i = j
    OBVIOUS
  <2>1. i \in Int /\ j \in Int /\ Place(K, i) \in Int
    BY <1>1, <1>2
  <2> QED
    BY <1>2, <2>1
<1>5. ASSUME NEW j \in 1..Cardinality(K)
      PROVE  \E i \in K : Place(K, i) = j /\ w[j] = s[i]
  <2> DEFINE i == CHOOSE i \in K : Place(K, i) = j
  <2>1. i \in K /\ Place(K, i) = j
    BY <1>2
  <2>2. w[j] = s[i]
    BY <1>3
  <2> QED
    BY <2>1, <2>2
<1>6. w \in [1..Cardinality(K) -> S]
  BY <1>1, <1>3, <1>5
<1>7. w \in Seq(S) /\ Len(w) = Cardinality(K)
  BY <1>2, <1>6
<1>8. ASSUME NEW i \in K
      PROVE  /\ Place(K, i) \in 1..Cardinality(K)
             /\ w[Place(K, i)] = s[i]
  BY <1>2, <1>4, <1>5
<1> QED
  BY <1>1, <1>2, <1>5, <1>6, <1>7, <1>8 DEF K, w

-------------------------------------------------------------------------------
\* A record carries the true time since its packet was last recorded, modulo
\* Wrap; what has no record has expired.
Timed ==
    \A k \in Keys :
        IF k \in DOMAIN recentPackets
        THEN /\ age[k] <= MaxAge
             /\ (now - recentPackets[k].rxTimeMsec) % Wrap = age[k]
        ELSE age[k] >= Expire

\* The relayers of a packet other than 0 stand in the slots of its record in
\* their order, each no later than its place among the last relayers.
Stands(h, slots, f) ==
    /\ \A p \in DOMAIN h : h[p] # 0 => f[p] < p /\ slots[f[p]] = h[p]
    /\ \A p, q \in DOMAIN h : h[p] # 0 /\ h[q] # 0 /\ p < q => f[p] < f[q]
Standing(h, slots) ==
    \E f \in [DOMAIN h -> Slots] : Stands(h, slots, f)
RelayersStand ==
    /\ \A k \in Keys : Len(last[k]) <= NumRelayers
    /\ \A k \in DOMAIN recentPackets : Standing(last[k], recentPackets[k].relayed_by)

\* The inductive invariant.
HistoryInv == TypeOK /\ Timed /\ RelayersStand
-------------------------------------------------------------------------------
\* Differences of two times, modulo Wrap.
LEMMA Elapsed ==
    ASSUME NEW t \in 0..(Wrap - 1), NEW r \in 0..(Wrap - 1)
    PROVE  /\ (t - r) % Wrap \in 0..(Wrap - 1)
           /\ (t - t) % Wrap = 0
           /\ (t + 1) % Wrap \in 0..(Wrap - 1)
           /\ (t - r) % Wrap < Wrap - 1
                => (((t + 1) % Wrap) - r) % Wrap = ((t - r) % Wrap) + 1
<1> USE HistoryAssumption
<1>1. Wrap \in Nat /\ Wrap > 1 /\ t \in Int /\ r \in Int
  OBVIOUS
<1>2. \A d \in 0..(Wrap - 1) : d % Wrap = d
  BY <1>1
<1>3. \A d \in (1 - Wrap)..(-1) : d % Wrap = d + Wrap
  BY <1>1
<1>4. (t + 1) % Wrap = IF t = Wrap - 1 THEN 0 ELSE t + 1
  BY <1>1
<1>5. (t - r) % Wrap = IF t >= r THEN t - r ELSE t - r + Wrap
  BY <1>1, <1>2, <1>3
<1>6. (t - t) % Wrap = 0
  BY <1>1, <1>2
<1>7. ASSUME (t - r) % Wrap < Wrap - 1
      PROVE  (((t + 1) % Wrap) - r) % Wrap = ((t - r) % Wrap) + 1
  <2>1. CASE t = Wrap - 1
    <3>1. r > 0 /\ ((t + 1) % Wrap) - r = -r
      BY <1>1, <1>4, <1>5, <1>7, <2>1
    <3>2. (-r) % Wrap = Wrap - r
      BY <1>1, <1>3, <3>1
    <3> QED
      BY <1>1, <1>5, <2>1, <3>1, <3>2
  <2>2. CASE t # Wrap - 1
    <3>1. (t + 1) % Wrap = t + 1 /\ t + 1 - r \in (1 - Wrap)..(Wrap - 1)
      BY <1>1, <1>4, <2>2
    <3>2. (t + 1 - r) % Wrap = IF t + 1 >= r THEN t + 1 - r ELSE t + 1 - r + Wrap
      BY <1>1, <1>2, <1>3, <3>1
    <3> QED
      BY <1>1, <1>5, <1>7, <3>1, <3>2
  <2> QED
    BY <2>1, <2>2
<1> QED
  BY <1>1, <1>4, <1>5, <1>6, <1>7

\* Under the invariant the duplicate test says whether the record is young.
LEMMA Youth ==
    ASSUME TypeOK, Timed
    PROVE  SeenIffRecent
<1> SUFFICES ASSUME NEW k \in Keys PROVE Seen(k) <=> age[k] < Expire
  BY DEF SeenIffRecent
<1>1. age[k] \in 0..Wrap /\ Expire \in Nat /\ Wrap \in Nat
  BY HistoryAssumption DEF TypeOK
<1>2. CASE k \in DOMAIN recentPackets
  BY <1>1, <1>2 DEF Timed, Seen, Recent
<1>3. CASE k \notin DOMAIN recentPackets
  BY <1>1, <1>3 DEF Timed, Seen
<1> QED
  BY <1>2, <1>3
-------------------------------------------------------------------------------
\* A prefix of a sequence.
LEMMA Prefix ==
    ASSUME NEW S, NEW s \in Seq(S), NEW m \in Nat, m <= Len(s)
    PROVE  /\ SubSeq(s, 1, m) \in Seq(S)
           /\ Len(SubSeq(s, 1, m)) = m
           /\ \A p \in 1..m : SubSeq(s, 1, m)[p] = s[p]
  OBVIOUS

\* A slot one further on is a slot while it is before the last place.
LEMMA NextSlot ==
    ASSUME NEW y \in Nat, NEW x \in Nat, x = y + 1, NEW p \in Nat, x < p, p <= NumRelayers
    PROVE  x \in Slots /\ x > 0 /\ x - 1 = y
<1>1. NumRelayers \in Nat
  BY HistoryAssumption
<1> QED
  BY <1>1 DEF Slots

\* One more relayer in front: the slots move on with the sequence.
LEMMA PushedStands ==
    ASSUME NEW k \in Keys, NEW relay \in Byte, NEW stack \in [Slots \ {0} -> StackBytes],
           last \in [Keys -> Seq(Byte)],
           \A j \in DOMAIN recentPackets : recentPackets[j] \in Record,
           RelayersStand,
           NEW h, h = << relay >> \o (IF Seen(k) THEN last[k] ELSE << >>),
           NEW g, g = IF Len(h) > NumRelayers THEN Front(h) ELSE h
    PROVE  /\ g \in Seq(Byte) /\ Len(g) <= NumRelayers
           /\ Relayers(k, relay, stack) \in [Slots -> Byte]
           /\ Standing(g, Relayers(k, relay, stack))
<1> DEFINE old == IF Seen(k) THEN last[k] ELSE << >>
           slots == Relayers(k, relay, stack)
<1>1. NumRelayers \in Nat /\ NumRelayers >= 1 /\ 0 \in Slots /\ 0 \in Byte
      /\ StackBytes \subseteq Byte
  BY HistoryAssumption DEF Slots, Byte
<1>2. old \in Seq(Byte) /\ Len(old) <= NumRelayers
  BY <1>1 DEF RelayersStand
<1>3. /\ h \in Seq(Byte) /\ Len(h) = Len(old) + 1
      /\ \A p \in 1..Len(h) : h[p] = IF p = 1 THEN relay ELSE old[p - 1]
  <2>1. h = << relay >> \o old
    OBVIOUS
  <2> HIDE DEF old
  <2> QED
    BY <1>2, <2>1
<1>o. old = IF Seen(k) THEN last[k] ELSE << >>
  OBVIOUS
<1>s. slots = Relayers(k, relay, stack)
  OBVIOUS
<1> HIDE DEF old, slots
<1>4. /\ g \in Seq(Byte) /\ Len(g) <= NumRelayers
      /\ \A p \in 1..Len(g) : g[p] = IF p = 1 THEN relay ELSE old[p - 1]
      /\ Len(g) <= Len(old) + 1
  <2>1. CASE Len(h) > NumRelayers
    <3>1. g = SubSeq(h, 1, Len(h) - 1)
      BY <2>1 DEF Front
    <3>2. Len(old) \in Nat /\ Len(h) - 1 = Len(old) /\ Len(old) <= Len(h)
      BY <1>2, <1>3
    <3>3. g = SubSeq(h, 1, Len(old))
      BY <3>1, <3>2
    <3>4. /\ g \in Seq(Byte) /\ Len(g) = Len(old)
          /\ \A p \in 1..Len(g) : g[p] = h[p]
      <4>1. h \in Seq(Byte) /\ Len(old) \in Nat /\ Len(old) <= Len(h)
        BY <1>3, <3>2
      <4>2. /\ SubSeq(h, 1, Len(old)) \in Seq(Byte)
            /\ Len(SubSeq(h, 1, Len(old))) = Len(old)
            /\ \A p \in 1..Len(old) : SubSeq(h, 1, Len(old))[p] = h[p]
        BY <4>1, Prefix
      <4> QED
        BY <3>3, <4>2
    <3>5. \A p \in 1..Len(g) : p \in 1..Len(h)
      BY <1>3, <3>2, <3>4
    <3>6. ASSUME NEW p \in 1..Len(g)
          PROVE  g[p] = IF p = 1 THEN relay ELSE old[p - 1]
      <4>1. p \in 1..Len(h)
        BY <3>5
      <4>2. g[p] = h[p]
        BY <3>4
      <4> QED
        BY <1>3, <4>1, <4>2
    <3>7. Len(g) <= NumRelayers
      BY <1>2, <1>3, <3>2, <3>4
    <3> QED
      BY <3>2, <3>4, <3>6, <3>7
  <2>2. CASE ~(Len(h) > NumRelayers)
    <3>1. g = h
      BY <2>2
    <3>2. Len(h) \in Nat /\ Len(h) <= NumRelayers /\ Len(h) <= Len(old) + 1
      BY <1>1, <1>2, <1>3, <2>2
    <3> QED
      BY <1>3, <3>1, <3>2
  <2> QED
    BY <2>1, <2>2
<1>5. slots \in [Slots -> Byte]
  <2>1. ASSUME NEW i \in Slots PROVE slots[i] \in Byte
    <3>1. CASE i = 0
      BY <1>s, <3>1 DEF Relayers
    <3>2. CASE i # 0 /\ Seen(k) /\ recentPackets[k].relayed_by[i - 1] # 0
      <4>1. i - 1 \in Slots /\ recentPackets[k].relayed_by \in [Slots -> Byte]
        BY <1>1, <3>2 DEF Slots, Seen, Record
      <4> QED
        BY <1>s, <3>2, <4>1 DEF Relayers
    <3>3. CASE i # 0 /\ ~(Seen(k) /\ recentPackets[k].relayed_by[i - 1] # 0)
      BY <1>1, <1>s, <3>3 DEF Relayers
    <3> QED
      BY <3>1, <3>2, <3>3
  <2> QED
    BY <1>s, <2>1 DEF Relayers
<1>6. \A p \in DOMAIN g : p \in 1..Len(g) /\ p \in Nat /\ p <= NumRelayers
  BY <1>1, <1>4
<1>7. CASE ~Seen(k)
  <2> DEFINE f == [p \in DOMAIN g |-> 0]
  <2>1. f \in [DOMAIN g -> Slots]
    BY <1>1
  <2>2. Len(g) <= 1
    BY <1>o, <1>4, <1>7
  <2>3. \A p \in DOMAIN g : p = 1 /\ f[p] = 0 /\ g[p] = relay
    BY <1>4, <1>6, <2>2
  <2>4. slots[0] = relay
    BY <1>1, <1>s DEF Relayers
  <2> HIDE DEF f
  <2>5. Stands(g, slots, f)
    BY <2>3, <2>4 DEF Stands
  <2>6. Standing(g, slots)
    BY <2>1, <2>5 DEF Standing
  <2> QED
    BY <1>4, <1>5, <1>s, <2>6
<1>8. CASE Seen(k)
  <2> DEFINE was == recentPackets[k].relayed_by
  <2>1. was \in [Slots -> Byte] /\ k \in DOMAIN recentPackets /\ old = last[k]
    BY <1>8, <1>o DEF Seen, Record
  <2>2. PICK e \in [DOMAIN old -> Slots] : Stands(old, was, e)
    BY <1>s, <2>1 DEF RelayersStand, Standing
  <2>3. \A p \in DOMAIN old : /\ p \in Nat /\ e[p] \in Nat
                              /\ old[p] # 0 => e[p] < p /\ was[e[p]] = old[p]
    BY <1>2, <2>2 DEF Stands, Slots
  <2> DEFINE f == [p \in DOMAIN g |-> IF p > 1 /\ g[p] # 0 THEN e[p - 1] + 1 ELSE 0]
  <2>4. ASSUME NEW p \in DOMAIN g, p > 1
        PROVE  p - 1 \in DOMAIN old /\ g[p] = old[p - 1]
    BY <1>2, <1>4, <1>6, <2>4
  <2>5. ASSUME NEW p \in DOMAIN g, p > 1, g[p] # 0
        PROVE  f[p] = e[p - 1] + 1 /\ f[p] \in Slots /\ f[p] < p /\ f[p] > 0 /\ slots[f[p]] = g[p]
    <3>1. /\ p - 1 \in DOMAIN old /\ g[p] = old[p - 1]
          /\ e[p - 1] \in Nat /\ e[p - 1] < p - 1 /\ was[e[p - 1]] = g[p]
      BY <2>3, <2>4, <2>5
    <3>2. f[p] = e[p - 1] + 1
      BY <2>5
    <3>3. f[p] \in Slots /\ f[p] > 0 /\ f[p] < p /\ f[p] - 1 = e[p - 1]
      <4> HIDE DEF f
      <4>1. p \in Nat /\ p <= NumRelayers
        BY <1>6
      <4>2. e[p - 1] + 1 \in Nat /\ e[p - 1] + 1 < p
        BY <3>1, <4>1
      <4>3. e[p - 1] \in Nat
        BY <3>1
      <4> QED
        BY <3>2, <4>1, <4>2, <4>3, NextSlot
    <3>4. slots[f[p]] = was[f[p] - 1]
      <4> HIDE DEF f
      <4>1. was[f[p] - 1] # 0
        BY <2>5, <3>1, <3>3
      <4>2. f[p] \in Slots /\ f[p] # 0
        BY <3>3
      <4> QED
        BY <1>8, <1>s, <4>1, <4>2 DEF Relayers, was
    <3> QED
      BY <3>1, <3>2, <3>3, <3>4
  <2>6. ASSUME NEW p \in DOMAIN g, ~(p > 1 /\ g[p] # 0)
        PROVE  f[p] = 0
    BY <2>6
  <2>7. slots[0] = relay
    BY <1>1, <1>s DEF Relayers
  <2>8. f \in [DOMAIN g -> Slots]
    BY <1>1, <2>5, <2>6
  <2>9. ASSUME NEW p \in DOMAIN g, g[p] # 0
        PROVE  f[p] < p /\ slots[f[p]] = g[p]
    <3> HIDE DEF f
    <3>1. CASE p = 1
      <4>1. f[p] = 0 /\ g[p] = relay
        BY <1>4, <1>6, <2>6, <3>1
      <4> QED
        BY <2>7, <3>1, <4>1
    <3>2. CASE ~(p = 1)
      <4>1. p > 1
        BY <1>6, <3>2
      <4> QED
        BY <2>5, <2>9, <4>1
    <3> QED
      BY <3>1, <3>2
  <2>10. ASSUME NEW p \in DOMAIN g, NEW q \in DOMAIN g, g[p] # 0, g[q] # 0, p < q
         PROVE  f[p] < f[q]
    <3>1. q > 1 /\ f[q] = e[q - 1] + 1 /\ f[q] > 0 /\ q - 1 \in DOMAIN old /\ old[q - 1] # 0
      <4>1. p \in Nat /\ q \in Nat /\ p >= 1
        BY <1>6
      <4>2. q > 1
        BY <2>10, <4>1
      <4> QED
        BY <2>4, <2>5, <2>10, <4>2
    <3>2. CASE p = 1
      BY <2>6, <3>1, <3>2
    <3>3. CASE ~(p = 1)
      <4>1. p > 1 /\ f[p] = e[p - 1] + 1 /\ p - 1 \in DOMAIN old /\ old[p - 1] # 0
        <5>1. p > 1
          BY <1>6, <3>3
        <5>2. f[p] = e[p - 1] + 1
          BY <2>5, <2>10, <5>1
        <5>3. p - 1 \in DOMAIN old /\ g[p] = old[p - 1]
          BY <2>4, <5>1
        <5> QED
          BY <2>10, <5>1, <5>2, <5>3
      <4>2. e[p - 1] < e[q - 1]
        BY <1>6, <2>2, <2>10, <3>1, <4>1 DEF Stands
      <4>3. e[p - 1] \in Nat /\ e[q - 1] \in Nat
        BY <2>3, <3>1, <4>1
      <4>4. e[p - 1] + 1 < e[q - 1] + 1
        BY <4>2, <4>3
      <4> QED
        BY <3>1, <4>1, <4>4
    <3> QED
      BY <3>2, <3>3
  <2> HIDE DEF f, slots
  <2>11. Stands(g, slots, f)
    BY <2>9, <2>10 DEF Stands
  <2>12. Standing(g, slots)
    BY <2>8, <2>11 DEF Standing
  <2> QED
    BY <1>4, <1>5, <2>12 DEF slots
<1> QED
  BY <1>7, <1>8
-------------------------------------------------------------------------------
\* The place of a position is what remains of it after those before it that
\* are left out.
LEMMA PlaceByMissing ==
    ASSUME NEW n \in Nat, NEW K \in SUBSET (1..n), NEW i \in 1..n
    PROVE  /\ IsFiniteSet((1..i) \ K) /\ Cardinality((1..i) \ K) \in Nat
           /\ Place(K, i) = i - Cardinality((1..i) \ K)
<1>1. IsFiniteSet(1..i) /\ Cardinality(1..i) = i
  BY FS_Interval
<1>2. /\ IsFiniteSet((1..i) \ K)
      /\ Cardinality((1..i) \ K) = Cardinality(1..i) - Cardinality((1..i) \cap K)
  BY <1>1, FS_Difference
<1>3. (1..i) \cap K = K \cap 1..i
  OBVIOUS
<1>4. Cardinality((1..i) \ K) \in Nat
  BY <1>2, FS_CardinalityType
<1>5. IsFiniteSet(K \cap 1..i)
  BY <1>1, FS_Subset
<1>6. Cardinality(K \cap 1..i) \in Nat
  BY <1>5, FS_CardinalityType
<1>7. Cardinality((1..i) \ K) = i - Cardinality(K \cap 1..i)
  BY <1>1, <1>2, <1>3
<1> QED
  BY <1>2, <1>4, <1>6, <1>7 DEF Place

\* The slots of a record after removeRelayer().
Shifted(slots, byte) ==
    LET others == Without([i \in 1..NumRelayers |-> slots[i - 1]], byte)
    IN  [j \in Slots |-> IF j < Len(others) THEN others[j + 1] ELSE 0]

\* One relayer removed: the others move up in the sequence and in the slots,
\* and none of them further in the sequence than in the slots.
LEMMA RemovedStands ==
    ASSUME NEW h \in Seq(Byte), Len(h) <= NumRelayers,
           NEW slots \in [Slots -> Byte], Standing(h, slots),
           NEW byte \in Bytes
    PROVE  LET g == Without(h, byte)
               left == Shifted(slots, byte)
           IN  /\ g \in Seq(Byte) /\ Len(g) <= NumRelayers
               /\ left \in [Slots -> Byte]
               /\ Standing(g, left)
<1> DEFINE others == Without([i \in 1..NumRelayers |-> slots[i - 1]], byte)
           left == Shifted(slots, byte)
           g == Without(h, byte)
<1>0. /\ others = Without([i \in 1..NumRelayers |-> slots[i - 1]], byte)
      /\ left = [j \in Slots |-> IF j < Len(others) THEN others[j + 1] ELSE 0]
      /\ g = Without(h, byte) /\ byte # 0
  BY HistoryAssumption DEF Shifted
<1> HIDE DEF others, left, g
<1>1. NumRelayers \in Nat /\ NumRelayers >= 1 /\ 0 \in Slots /\ 0 \in Byte
  BY HistoryAssumption DEF Slots, Byte
<1> DEFINE s == [i \in 1..NumRelayers |-> slots[i - 1]]
           K == Kept(h, byte)
           M == Kept(s, byte)
<1>2. s \in [1..NumRelayers -> Byte] /\ others = Without(s, byte)
  BY <1>0, <1>1 DEF Slots
<1>3. Len(h) \in Nat /\ h \in [1..Len(h) -> Byte]
  OBVIOUS
<1>s. \A i \in 1..NumRelayers : s[i] = slots[i - 1]
  OBVIOUS
<1> HIDE DEF s
<1>4. /\ M \in SUBSET (1..NumRelayers) /\ Cardinality(M) \in 0..NumRelayers
      /\ others \in [1..Cardinality(M) -> Byte] /\ Len(others) = Cardinality(M)
      /\ \A i \in M : /\ Place(M, i) \in 1..Cardinality(M)
                      /\ others[Place(M, i)] = s[i]
  <2>1. NumRelayers \in Nat /\ s \in [1..NumRelayers -> Byte]
    BY <1>1, <1>2
  <2> HIDE DEF s
  <2>2. others = Without(s, byte)
    BY <1>2
  <2>3. /\ Kept(s, byte) \in SUBSET (1..NumRelayers)
        /\ Cardinality(Kept(s, byte)) \in 0..NumRelayers
        /\ Without(s, byte) \in [1..Cardinality(Kept(s, byte)) -> Byte]
        /\ Len(Without(s, byte)) = Cardinality(Kept(s, byte))
        /\ \A i \in Kept(s, byte) :
              /\ Place(Kept(s, byte), i) \in 1..Cardinality(Kept(s, byte))
              /\ Without(s, byte)[Place(Kept(s, byte), i)] = s[i]
    BY <2>1, WithoutResult
  <2> QED
    BY <2>2, <2>3
<1>5. /\ K \in SUBSET (1..Len(h)) /\ Cardinality(K) \in 0..Len(h)
      /\ g \in [1..Cardinality(K) -> Byte] /\ g \in Seq(Byte) /\ Len(g) = Cardinality(K)
      /\ \A j \in 1..Cardinality(K) : \E i \in K : Place(K, i) = j /\ g[j] = h[i]
  BY <1>0, <1>3, WithoutResult
<1>6. \A i, j \in K : i < j => Place(K, i) < Place(K, j)
  BY <1>3, <1>5, Places
<1>7. \A i, j \in M : i < j => Place(M, i) < Place(M, j)
  BY <1>1, <1>4, Places
<1>8. (\A i \in 1..Len(h) : i \in K <=> h[i] # byte) /\ DOMAIN h = 1..Len(h)
  BY <1>3 DEF Kept
<1>9. \A i \in 1..NumRelayers : i \in M <=> s[i] # byte
  BY <1>2 DEF Kept
<1> HIDE DEF K, M
<1>10. left \in [Slots -> Byte]
  <2>1. \A j \in Slots : j < Len(others) => others[j + 1] \in Byte
    <3> SUFFICES ASSUME NEW j \in Slots, j < Len(others)
                 PROVE  others[j + 1] \in Byte
      OBVIOUS
    <3>1. j \in Nat
      BY <1>1 DEF Slots
    <3>2. j + 1 \in 1..Cardinality(M)
      BY <1>1, <1>4, <3>1
    <3> QED
      BY <1>4, <3>2
  <2> QED
    BY <1>0, <1>1, <2>1
<1>11. g \in Seq(Byte) /\ Len(g) <= NumRelayers /\ DOMAIN g = 1..Cardinality(K)
  BY <1>1, <1>3, <1>5
<1>12. PICK f \in [DOMAIN h -> Slots] : Stands(h, slots, f)
  BY DEF Standing
<1>13. PICK from \in [DOMAIN g -> K] :
          \A j \in DOMAIN g : Place(K, from[j]) = j /\ g[j] = h[from[j]]
  <2> DEFINE from == [j \in DOMAIN g |-> CHOOSE i \in K : Place(K, i) = j /\ g[j] = h[i]]
  <2>1. from \in [DOMAIN g -> K]
        /\ \A j \in DOMAIN g : Place(K, from[j]) = j /\ g[j] = h[from[j]]
    BY <1>5, <1>11
  <2> QED
    BY <2>1
<1>14. ASSUME NEW i \in K, h[i] # 0
       PROVE  /\ f[i] + 1 \in M /\ f[i] \in Nat
              /\ s[f[i] + 1] = h[i]
              /\ Place(M, f[i] + 1) <= Place(K, i)
  <2>0. i \in 1..Len(h) /\ i \in DOMAIN h
    BY <1>5, <1>8
  <2>1. i \in 1..Len(h) /\ i \in Nat /\ h[i] # byte /\ f[i] \in Slots
    BY <1>3, <1>8, <1>12, <2>0
  <2>2. f[i] < i /\ slots[f[i]] = h[i]
    BY <1>8, <1>12, <1>14, <2>1 DEF Stands
  <2>3. f[i] \in Nat /\ f[i] + 1 \in 1..NumRelayers /\ (f[i] + 1) - 1 = f[i]
    BY <1>1, <2>1 DEF Slots
  <2>4. s[f[i] + 1] = h[i] /\ f[i] + 1 \in M
    BY <1>9, <1>s, <2>1, <2>2, <2>3
  <2>q. PICK q \in 1..NumRelayers : q = f[i] + 1
    BY <2>3
  <2> DEFINE A == (1..i) \ K
             B == (1..q) \ M
             e == [p \in A |-> f[p] + 1]
  <2>5. IsFiniteSet(A) /\ Cardinality(A) \in Nat /\ Place(K, i) = i - Cardinality(A)
    BY <1>3, <1>5, <2>1, PlaceByMissing
  <2>6. /\ IsFiniteSet(B) /\ Cardinality(B) \in Nat
        /\ Place(M, q) = q - Cardinality(B)
    BY <1>1, <1>4, <2>q, PlaceByMissing
  <2>7. ASSUME NEW p \in A
        PROVE  /\ p \in DOMAIN h /\ h[p] # 0 /\ p \in Nat /\ f[p] \in Nat
               /\ e[p] = f[p] + 1 /\ e[p] \in B
    <3>1. p \in 1..Len(h) /\ p \in DOMAIN h /\ p <= i /\ p # i /\ h[p] = byte
      BY <1>3, <1>8, <1>14, <2>1
    <3>2. p \in Nat /\ p < i /\ i \in DOMAIN h
      BY <1>8, <2>1, <3>1
    <3>3. f[p] \in Slots /\ slots[f[p]] = byte /\ f[p] < f[i]
      BY <1>0, <1>12, <1>14, <3>1, <3>2 DEF Stands
    <3>4. f[p] \in Nat /\ f[p] + 1 \in 1..NumRelayers /\ (f[p] + 1) - 1 = f[p]
      <4> HIDE DEF A, B, e
      <4> QED
        BY <1>1, <3>3 DEF Slots
    <3>5. s[f[p] + 1] = byte /\ f[p] + 1 \notin M
      BY <1>9, <1>s, <3>3, <3>4
    <3>6. e[p] = f[p] + 1
      OBVIOUS
    <3> QED
      BY <1>0, <2>3, <2>q, <3>1, <3>2, <3>3, <3>4, <3>5, <3>6
  <2>8. ASSUME NEW p \in A, NEW o \in A, p # o
        PROVE  e[p] # e[o]
    <3>1. p < o \/ o < p
      BY <2>7, <2>8
    <3>2. f[p] # f[o]
      BY <1>12, <2>7, <3>1 DEF Stands
    <3> QED
      BY <2>7, <3>2
  <2>9. e \in Injection(A, B)
    <3>1. e \in [A -> B]
      BY <2>7
    <3> HIDE DEF A, B, e
    <3> QED
      BY <2>8, <3>1 DEF Injection, IsInjective
  <2>10. Cardinality(A) <= Cardinality(B)
    BY <2>6, <2>9, FS_Injection
  <2> HIDE DEF A, B, e
  <2> QED
    BY <2>1, <2>2, <2>3, <2>4, <2>5, <2>6, <2>10, <2>q
<1> DEFINE e == [j \in DOMAIN g |-> IF g[j] # 0 THEN Place(M, f[from[j]] + 1) - 1 ELSE 0]
<1>15. ASSUME NEW j \in DOMAIN g, g[j] # 0
       PROVE  /\ e[j] = Place(M, f[from[j]] + 1) - 1
              /\ e[j] \in Slots /\ e[j] < j /\ left[e[j]] = g[j]
  <2> DEFINE i == from[j]
             q == Place(M, f[i] + 1)
  <2>1. i \in K /\ Place(K, i) = j /\ g[j] = h[i] /\ h[i] # 0
    BY <1>13, <1>15
  <2>2. f[i] + 1 \in M /\ s[f[i] + 1] = h[i] /\ q <= j
    BY <1>14, <2>1
  <2>3. q \in 1..Cardinality(M) /\ others[q] = g[j]
    BY <1>4, <2>1, <2>2
  <2>4. e[j] = q - 1
    BY <1>15
  <2>5. j \in Nat /\ q \in Nat /\ q >= 1 /\ q <= NumRelayers
    BY <1>1, <1>4, <1>5, <1>11, <2>3
  <2> HIDE DEF q, e
  <2>6. e[j] \in Slots /\ e[j] < j /\ e[j] < Len(others) /\ e[j] + 1 = q
    BY <1>1, <1>4, <2>2, <2>3, <2>4, <2>5 DEF Slots
  <2>7. left[e[j]] = g[j]
    BY <1>0, <2>3, <2>6
  <2> QED
    BY <2>4, <2>6, <2>7 DEF q
<1>16. \A j \in DOMAIN g : g[j] = 0 => e[j] = 0
  OBVIOUS
<1>17. e \in [DOMAIN g -> Slots]
  BY <1>1, <1>15, <1>16
<1>18. ASSUME NEW j \in DOMAIN g, NEW l \in DOMAIN g, g[j] # 0, g[l] # 0, j < l
       PROVE  e[j] < e[l]
  <2>1. /\ from[j] \in K /\ from[l] \in K /\ h[from[j]] # 0 /\ h[from[l]] # 0
        /\ Place(K, from[j]) = j /\ Place(K, from[l]) = l
    BY <1>13, <1>18
  <2>2. from[j] \in 1..Len(h) /\ from[l] \in 1..Len(h) /\ j \in Nat /\ l \in Nat
    <3> HIDE DEF e
    <3>1. j \in 1..Cardinality(K) /\ l \in 1..Cardinality(K) /\ Cardinality(K) \in Int
      BY <1>5, <1>11
    <3>2. K \subseteq 1..Len(h) /\ from[j] \in K /\ from[l] \in K
      BY <1>5, <2>1
    <3>3. from[j] \in 1..Len(h) /\ from[l] \in 1..Len(h)
      BY <3>2
    <3>4. j \in Nat /\ l \in Nat
      BY <3>1
    <3> QED
      BY <3>3, <3>4
  <2>3. from[j] < from[l]
    BY <1>6, <1>18, <2>1, <2>2
  <2>4. f[from[j]] < f[from[l]]
    BY <1>8, <1>12, <2>1, <2>2, <2>3 DEF Stands
  <2>5. /\ f[from[j]] + 1 \in M /\ f[from[l]] + 1 \in M
        /\ f[from[j]] \in Nat /\ f[from[l]] \in Nat
    BY <1>14, <2>1
  <2>6. Place(M, f[from[j]] + 1) < Place(M, f[from[l]] + 1)
    BY <1>7, <2>4, <2>5
  <2>7. Place(M, f[from[j]] + 1) \in Int /\ Place(M, f[from[l]] + 1) \in Int
    BY <1>4, <2>5
  <2>8. e[j] = Place(M, f[from[j]] + 1) - 1 /\ e[l] = Place(M, f[from[l]] + 1) - 1
    BY <1>15, <1>18
  <2> HIDE DEF e
  <2> QED
    BY <2>6, <2>7, <2>8
<1> HIDE DEF e
<1>19. Stands(g, left, e)
  BY <1>15, <1>18 DEF Stands
<1> QED
  BY <1>10, <1>11, <1>17, <1>19 DEF Standing, g, left
-------------------------------------------------------------------------------
\* A packet is recorded, whatever its unwritten slots hold and whichever expired
\* records are purged.
LEMMA Recorded ==
    ASSUME HistoryInv, inHand' \in SUBSET Keys,
           NEW k \in Keys, NEW relay \in Byte, NEW hop \in Byte,
           WasSeenRecently(k, relay, hop)
    PROVE  HistoryInv'
<1>1. PICK stack \in [Slots \ {0} -> StackBytes] :
        LET r == [rxTimeMsec |-> now, relayed_by |-> Relayers(k, relay, stack),
                  next_hop |-> IF Seen(k) THEN recentPackets[k].next_hop ELSE hop]
        IN  recentPackets' = Purged([j \in DOMAIN recentPackets \cup {k} |->
                                         IF j = k THEN r ELSE recentPackets[j]])
  BY DEF WasSeenRecently
<1> DEFINE slots == Relayers(k, relay, stack)
           hops == IF Seen(k) THEN recentPackets[k].next_hop ELSE hop
           r == [rxTimeMsec |-> now, relayed_by |-> slots, next_hop |-> hops]
           table == [j \in DOMAIN recentPackets \cup {k} |->
                        IF j = k THEN r ELSE recentPackets[j]]
           h == << relay >> \o (IF Seen(k) THEN last[k] ELSE << >>)
           g == IF Len(h) > NumRelayers THEN Front(h) ELSE h
<1>2. /\ recentPackets' = Purged(table)
      /\ age' = [age EXCEPT ![k] = 0]
      /\ last' = [last EXCEPT ![k] = g]
      /\ now' = now
  BY <1>1 DEF WasSeenRecently
<1>3. /\ now \in 0..(Wrap - 1) /\ age \in [Keys -> 0..Wrap] /\ last \in [Keys -> Seq(Byte)]
      /\ DOMAIN recentPackets \subseteq Keys
      /\ \A j \in DOMAIN recentPackets : recentPackets[j] \in Record
      /\ RelayersStand
  BY DEF HistoryInv, TypeOK
<1>4. /\ g \in Seq(Byte) /\ Len(g) <= NumRelayers
      /\ slots \in [Slots -> Byte]
      /\ Standing(g, slots)
  <2>1. h = << relay >> \o (IF Seen(k) THEN last[k] ELSE << >>)
    OBVIOUS
  <2>2. g = IF Len(h) > NumRelayers THEN Front(h) ELSE h
    OBVIOUS
  <2> HIDE DEF h, g
  <2> QED
    BY <1>3, <2>1, <2>2, PushedStands
<1>5. hops \in Byte
  BY <1>3 DEF Seen, Record
<1>6. r \in Record /\ r.rxTimeMsec = now /\ r.relayed_by = slots
  <2> HIDE DEF hops, slots
  <2> QED
    BY <1>3, <1>4, <1>5 DEF Record
<1>7. /\ DOMAIN table = DOMAIN recentPackets \cup {k}
      /\ table[k] = r
      /\ \A j \in DOMAIN recentPackets : j # k => table[j] = recentPackets[j]
  <2> HIDE DEF r
  <2> QED
    OBVIOUS
<1> HIDE DEF r, g, h, slots, hops, table
<1>8. /\ DOMAIN recentPackets' \subseteq DOMAIN table
      /\ \A j \in DOMAIN recentPackets' : recentPackets'[j] = table[j]
      /\ \A j \in DOMAIN table : Recent(table[j]) => j \in DOMAIN recentPackets'
  BY <1>2 DEF Purged
<1>9. \A j \in DOMAIN recentPackets' :
         recentPackets'[j] = IF j = k THEN r ELSE recentPackets[j]
  BY <1>7, <1>8
<1>10. DOMAIN recentPackets' \subseteq DOMAIN recentPackets \cup {k}
  BY <1>7, <1>8
<1>11. /\ age' \in [Keys -> 0..Wrap] /\ age'[k] = 0
       /\ \A j \in Keys : j # k => age'[j] = age[j]
  BY <1>2, <1>3, HistoryAssumption
<1>12. /\ last' \in [Keys -> Seq(Byte)] /\ last'[k] = g
       /\ \A j \in Keys : j # k => last'[j] = last[j]
  BY <1>2, <1>3, <1>4
<1>13. TypeOK'
  <2>1. DOMAIN recentPackets' \subseteq Keys
    BY <1>3, <1>10
  <2>2. \A j \in DOMAIN recentPackets' : recentPackets'[j] \in Record
    BY <1>3, <1>6, <1>9, <1>10
  <2> QED
    BY <1>2, <1>3, <1>11, <1>12, <2>1, <2>2 DEF TypeOK, Record
<1>14. Timed'
  <2>1. ASSUME NEW j \in Keys, j \in DOMAIN recentPackets'
        PROVE  age'[j] <= MaxAge /\ (now' - recentPackets'[j].rxTimeMsec) % Wrap = age'[j]
    <3>1. CASE j = k
      <4>1. recentPackets'[j].rxTimeMsec = now
        BY <1>6, <1>9, <2>1, <3>1
      <4>2. (now - now) % Wrap = 0
        BY <1>3, Elapsed
      <4> QED
        BY <1>2, <1>11, <3>1, <4>1, <4>2, HistoryAssumption DEF MaxAge
    <3>2. CASE j # k
      <4>1. j \in DOMAIN recentPackets /\ recentPackets'[j] = recentPackets[j]
        BY <1>9, <1>10, <2>1, <3>2
      <4>2. age[j] <= MaxAge /\ (now - recentPackets[j].rxTimeMsec) % Wrap = age[j]
        BY <4>1 DEF HistoryInv, Timed
      <4> QED
        BY <1>2, <1>11, <3>2, <4>1, <4>2
    <3> QED
      BY <3>1, <3>2
  <2>2. ASSUME NEW j \in Keys, j \notin DOMAIN recentPackets'
        PROVE  age'[j] >= Expire
    <3>1. CASE j = k
      <4>1. Recent(table[k])
        <5>1. table[k].rxTimeMsec = now
          BY <1>6, <1>7
        <5>2. (now - now) % Wrap = 0
          BY <1>3, Elapsed
        <5> QED
          BY <5>1, <5>2, HistoryAssumption DEF Recent
      <4> QED
        BY <1>7, <1>8, <2>2, <3>1, <4>1
    <3>2. CASE j # k /\ j \in DOMAIN recentPackets
      <4>1. table[j] = recentPackets[j] /\ ~Recent(table[j])
        BY <1>7, <1>8, <2>2, <3>2
      <4>2. (now - recentPackets[j].rxTimeMsec) % Wrap = age[j]
        BY <3>2 DEF HistoryInv, Timed
      <4>3. age[j] \in 0..Wrap /\ Expire \in Nat /\ Wrap \in Nat
        BY <1>3, HistoryAssumption
      <4> QED
        BY <1>11, <3>2, <4>1, <4>2, <4>3 DEF Recent
    <3>3. CASE j # k /\ j \notin DOMAIN recentPackets
      <4>1. age[j] >= Expire
        BY <3>3 DEF HistoryInv, Timed
      <4> QED
        BY <1>11, <3>3, <4>1
    <3> QED
      BY <3>1, <3>2, <3>3
  <2> QED
    BY <2>1, <2>2 DEF Timed, MaxAge
<1>15. RelayersStand'
  <2>1. \A j \in Keys : Len(last'[j]) <= NumRelayers
    BY <1>3, <1>4, <1>12 DEF RelayersStand
  <2>2. ASSUME NEW j \in DOMAIN recentPackets'
        PROVE  Standing(last'[j], recentPackets'[j].relayed_by)
    <3>1. CASE j = k
      <4>1. last'[j] = g /\ recentPackets'[j].relayed_by = slots
        BY <1>6, <1>9, <1>12, <3>1
      <4> QED
        BY <1>4, <4>1
    <3>2. CASE j # k
      <4>1. j \in DOMAIN recentPackets /\ recentPackets'[j] = recentPackets[j] /\ j \in Keys
        BY <1>3, <1>9, <1>10, <3>2
      <4>2. Standing(last[j], recentPackets[j].relayed_by)
        BY <1>3, <4>1 DEF RelayersStand
      <4> QED
        BY <1>12, <3>2, <4>1, <4>2
    <3> QED
      BY <3>1, <3>2
  <2>3. \A j \in DOMAIN recentPackets' :
           Standing(last'[j], recentPackets'[j].relayed_by)
    BY <2>2
  <2> QED
    BY <2>1, <2>3 DEF RelayersStand, Standing, Stands, Slots
<1> QED
  BY <1>13, <1>14, <1>15 DEF HistoryInv
\* A relayer is removed from a packet's record.
LEMMA Removed ==
    ASSUME HistoryInv, NEW k \in Keys, NEW byte \in Bytes, RemoveRelayer(byte, k)
    PROVE  HistoryInv'
<1> DEFINE was == recentPackets[k].relayed_by
           left == Shifted(was, byte)
           g == Without(last[k], byte)
<1>1. /\ k \in DOMAIN recentPackets
      /\ recentPackets' = [recentPackets EXCEPT ![k].relayed_by = left]
      /\ last' = [last EXCEPT ![k] = g]
      /\ inHand' = {} /\ now' = now /\ age' = age
  BY DEF RemoveRelayer, Shifted
<1>2. /\ now \in 0..(Wrap - 1) /\ age \in [Keys -> 0..Wrap] /\ last \in [Keys -> Seq(Byte)]
      /\ DOMAIN recentPackets \subseteq Keys
      /\ \A j \in DOMAIN recentPackets : recentPackets[j] \in Record
      /\ RelayersStand
  BY DEF HistoryInv, TypeOK
<1>3. /\ g \in Seq(Byte) /\ Len(g) <= NumRelayers
      /\ left \in [Slots -> Byte]
      /\ Standing(g, left)
  <2>1. last[k] \in Seq(Byte) /\ Len(last[k]) <= NumRelayers
    BY <1>2 DEF RelayersStand
  <2>2. was \in [Slots -> Byte]
    BY <1>1, <1>2 DEF Record
  <2>3. Standing(last[k], was)
    BY <1>1, <1>2 DEF RelayersStand
  <2> HIDE DEF was
  <2> QED
    BY <2>1, <2>2, <2>3, RemovedStands
<1> HIDE DEF was, left, g
<1>4. /\ DOMAIN recentPackets' = DOMAIN recentPackets
      /\ recentPackets'[k] = [recentPackets[k] EXCEPT !.relayed_by = left]
      /\ \A j \in DOMAIN recentPackets : j # k => recentPackets'[j] = recentPackets[j]
  BY <1>1
<1>5. /\ recentPackets'[k] \in Record
      /\ recentPackets'[k].rxTimeMsec = recentPackets[k].rxTimeMsec
      /\ recentPackets'[k].relayed_by = left
  <2>1. recentPackets[k] \in Record
    BY <1>1, <1>2
  <2> QED
    BY <1>3, <1>4, <2>1 DEF Record
<1>6. /\ last' \in [Keys -> Seq(Byte)] /\ last'[k] = g
      /\ \A j \in Keys : j # k => last'[j] = last[j]
  BY <1>1, <1>2, <1>3
<1>7. TypeOK'
  <2>1. \A j \in DOMAIN recentPackets' : recentPackets'[j] \in Record
    BY <1>2, <1>4, <1>5
  <2>2. inHand' \in SUBSET Keys
    BY <1>1
  <2> QED
    BY <1>1, <1>2, <1>4, <1>6, <2>1, <2>2 DEF TypeOK, Record
<1>8. Timed'
  <2>1. \A j \in DOMAIN recentPackets : recentPackets'[j].rxTimeMsec = recentPackets[j].rxTimeMsec
    BY <1>4, <1>5
  <2>2. Timed
    BY DEF HistoryInv
  <2> QED
    BY <1>1, <1>4, <2>1, <2>2 DEF Timed, MaxAge
<1>9. RelayersStand'
  <2>1. \A j \in Keys : Len(last'[j]) <= NumRelayers
    BY <1>2, <1>3, <1>6 DEF RelayersStand
  <2>2. ASSUME NEW j \in DOMAIN recentPackets'
        PROVE  Standing(last'[j], recentPackets'[j].relayed_by)
    <3>1. CASE j = k
      BY <1>3, <1>5, <1>6, <3>1
    <3>2. CASE j # k
      <4>1. j \in DOMAIN recentPackets /\ j \in Keys
        BY <1>2, <1>4
      <4>2. Standing(last[j], recentPackets[j].relayed_by)
        BY <1>2, <4>1 DEF RelayersStand
      <4>3. last'[j] = last[j] /\ recentPackets'[j] = recentPackets[j]
        BY <1>4, <1>6, <3>2, <4>1
      <4> QED
        BY <4>2, <4>3
    <3> QED
      BY <3>1, <3>2
  <2>3. \A j \in DOMAIN recentPackets' :
           Standing(last'[j], recentPackets'[j].relayed_by)
    BY <2>2
  <2> QED
    BY <2>1, <2>3 DEF RelayersStand, Standing, Stands, Slots
<1> QED
  BY <1>7, <1>8, <1>9 DEF HistoryInv

\* Time passes, over the wrap of millis() too.
LEMMA Ticked ==
    ASSUME HistoryInv, Tick
    PROVE  HistoryInv'
<1>1. /\ now' = (now + 1) % Wrap
      /\ age' = [k \in Keys |-> IF age[k] < Wrap THEN age[k] + 1 ELSE Wrap]
      /\ inHand' = {} /\ recentPackets' = recentPackets /\ last' = last
      /\ \A k \in DOMAIN recentPackets : age[k] < Wrap - 1
  BY DEF Tick, MaxAge
<1>2. /\ now \in 0..(Wrap - 1) /\ age \in [Keys -> 0..Wrap]
      /\ DOMAIN recentPackets \subseteq Keys
      /\ \A j \in DOMAIN recentPackets : recentPackets[j] \in Record
  BY DEF HistoryInv, TypeOK
<1>3. Wrap \in Nat /\ Expire \in Nat /\ Expire < Wrap
  BY HistoryAssumption
<1>4. \A k \in Keys : /\ age[k] \in 0..Wrap
                      /\ age'[k] = IF age[k] < Wrap THEN age[k] + 1 ELSE Wrap
  BY <1>1, <1>2
<1>5. age' \in [Keys -> 0..Wrap]
  <2>1. \A k \in Keys : (IF age[k] < Wrap THEN age[k] + 1 ELSE Wrap) \in 0..Wrap
    BY <1>3, <1>4
  <2> QED
    BY <1>1, <2>1
<1>6. now' \in 0..(Wrap - 1)
  BY <1>1, <1>2, Elapsed
<1>7. TypeOK'
  BY <1>1, <1>5, <1>6 DEF HistoryInv, TypeOK, Record
<1>8. ASSUME NEW k \in Keys, k \in DOMAIN recentPackets
      PROVE  age'[k] <= MaxAge /\ (now' - recentPackets[k].rxTimeMsec) % Wrap = age'[k]
  <2>1. recentPackets[k].rxTimeMsec \in 0..(Wrap - 1)
    BY <1>2, <1>8 DEF Record
  <2>2. (now - recentPackets[k].rxTimeMsec) % Wrap = age[k] /\ age[k] < Wrap - 1
    BY <1>1, <1>8 DEF HistoryInv, Timed
  <2>3. (((now + 1) % Wrap) - recentPackets[k].rxTimeMsec) % Wrap
           = ((now - recentPackets[k].rxTimeMsec) % Wrap) + 1
    BY <1>2, <2>1, <2>2, Elapsed
  <2> QED
    BY <1>1, <1>3, <1>4, <2>2, <2>3 DEF MaxAge
<1>9. ASSUME NEW k \in Keys, k \notin DOMAIN recentPackets
      PROVE  age'[k] >= Expire
  <2>1. age[k] >= Expire
    BY <1>9 DEF HistoryInv, Timed
  <2> QED
    BY <1>3, <1>4, <2>1
<1>10. Timed'
  BY <1>1, <1>8, <1>9 DEF Timed, MaxAge
<1>11. RelayersStand'
  BY <1>1 DEF HistoryInv, RelayersStand, Standing, Stands, Slots
<1> QED
  BY <1>7, <1>10, <1>11 DEF HistoryInv
-------------------------------------------------------------------------------
\* The invariant holds from the start and through every step.
THEOREM HistoryInvariance == Spec => []HistoryInv
<1>1. Init => HistoryInv
  <2> SUFFICES ASSUME Init PROVE HistoryInv
    OBVIOUS
  <2>1. TypeOK
    BY HistoryAssumption DEF Init, TypeOK
  <2>2. Timed
    BY HistoryAssumption DEF Init, Timed
  <2>3. RelayersStand
    BY HistoryAssumption DEF Init, RelayersStand
  <2> QED
    BY <2>1, <2>2, <2>3 DEF HistoryInv
<1>2. HistoryInv /\ [Next]_vars => HistoryInv'
  <2> SUFFICES ASSUME HistoryInv, [Next]_vars PROVE HistoryInv'
    OBVIOUS
  <2>1. inHand \in SUBSET Keys
    BY DEF HistoryInv, TypeOK
  <2>2. Us \in Bytes /\ Us \in Byte /\ 0 \in Byte
    BY HistoryAssumption DEF Byte
  <2>3. ASSUME NEW k \in Keys, NEW relay \in Byte, NEW hop \in Byte, Received(k, relay, hop)
        PROVE  HistoryInv'
    <3>1. inHand' \in SUBSET Keys /\ WasSeenRecently(k, relay, hop)
      BY <2>3 DEF Received
    <3> QED
      BY <3>1, Recorded
  <2>4. ASSUME NEW k \in Keys, NEW hop \in Byte, Sent(k, hop)
        PROVE  HistoryInv'
    <3>1. inHand' \in SUBSET Keys /\ WasSeenRecently(k, Us, hop)
      BY <2>4 DEF Sent
    <3> QED
      BY <2>2, <3>1, Recorded
  <2>5. ASSUME NEW k \in Keys, RemoveRelayer(Us, k)
        PROVE  HistoryInv'
    BY <2>2, <2>5, Removed
  <2>6. CASE Tick
    BY <2>6, Ticked
  <2>7. CASE UNCHANGED vars
    <3>1. TypeOK'
      BY <2>7 DEF vars, HistoryInv, TypeOK, Record
    <3>2. Timed'
      BY <2>7 DEF vars, HistoryInv, Timed, MaxAge
    <3>3. RelayersStand'
      BY <2>7 DEF vars, HistoryInv, RelayersStand, Standing, Stands, Slots
    <3> QED
      BY <3>1, <3>2, <3>3 DEF HistoryInv
  <2> QED
    BY <2>3, <2>4, <2>5, <2>6, <2>7 DEF Next
<1> QED
  BY <1>1, <1>2, PTL DEF Spec

\* PacketHistory keeps its types: millis() in its width, every record complete.
THEOREM TypeCorrectness == Spec => []TypeOK
<1>1. HistoryInv => TypeOK
  BY DEF HistoryInv
<1> QED
  BY <1>1, HistoryInvariance, PTL

\* A packet is called a duplicate exactly when it was recorded less than the
\* expiry time ago, over every wrap of millis() and every purge of the table.
THEOREM DuplicatesAreRecent == Spec => []SeenIffRecent
<1>1. HistoryInv => SeenIffRecent
  BY Youth DEF HistoryInv
<1> QED
  BY <1>1, HistoryInvariance, PTL

\* A relayer of a packet that stands in no slot is none of the last ones.
LEMMA RelayersFound ==
    ASSUME HistoryInv
    PROVE  RelayersKept
<1> SUFFICES ASSUME NEW k \in Keys, Seen(k), NEW byte \in Relayed(k)
             PROVE  WasRelayer(byte, recentPackets[k])
  BY DEF RelayersKept
<1>1. k \in DOMAIN recentPackets /\ last[k] \in Seq(Byte)
  BY DEF Seen, HistoryInv, TypeOK
<1>2. PICK p \in DOMAIN last[k] : last[k][p] = byte /\ byte # 0
  BY <1>1 DEF Relayed, Range
<1>3. PICK f \in [DOMAIN last[k] -> Slots] : Stands(last[k], recentPackets[k].relayed_by, f)
  BY <1>1 DEF HistoryInv, RelayersStand, Standing
<1> QED
  BY <1>2, <1>3 DEF Stands, WasRelayer

\* The last relayers of a packet are found, whatever the slots that were never
\* written hold and whichever relays were cancelled in between.
THEOREM RelayersAreKept == Spec => []RelayersKept
<1>1. HistoryInv => RelayersKept
  BY RelayersFound
<1> QED
  BY <1>1, HistoryInvariance, PTL

\* A fallback is only reported when neither this node nor the next hop is among
\* the last relayers, whatever the slots that were never written hold.
THEOREM FallbacksAreJust == Spec => []FallbackJust
<1>1. HistoryInv => FallbackJust
  <2> SUFFICES ASSUME HistoryInv, NEW k \in Keys, NEW relay \in Byte, NEW hop \in Byte,
                      Seen(k), WasFallback(k, relay, hop),
                      NEW byte \in {Us, recentPackets[k].next_hop}
               PROVE  byte \notin Relayed(k)
    BY DEF FallbackJust
  <2>1. ~WasRelayer(byte, recentPackets[k])
    BY DEF WasFallback
  <2> QED
    BY <2>1, RelayersFound DEF RelayersKept
<1> QED
  BY <1>1, HistoryInvariance, PTL
================================================================================
