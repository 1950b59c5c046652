----------------------------- MODULE PhoneAPIProofs -----------------------------
(***************************************************************************)
(* Proofs about the hand-over to the phones, for any number of phones, of  *)
(* channels, of sections of the configuration, of files and of nodes.      *)
(*                                                                         *)
(* The invariant says, of every phone and at every state of the hand-over, *)
(* what it has been sent: of the configuration a prefix of what it was     *)
(* promised, which the state and the index tell; of the nodes that stay in *)
(* the database those at the positions up to its read index, once each,    *)
(* and none of the others.                                                 *)
(***************************************************************************)
EXTENDS PhoneAPI, WellFoundedInduction, SequenceTheorems, FiniteSetTheorems, TLAPS

(***************************************************************************)
(* Sequences.                                                              *)
(***************************************************************************)
Distinct(s) == \A i, j \in DOMAIN s : s[i] = s[j] => i = j

\* A set of positions that is not empty has a least one, which Min finds.
LEMMA MinIsLeast ==
    ASSUME NEW T \in SUBSET Nat, T # {}
    PROVE  Min(T) \in T /\ \A y \in T : Min(T) <= y
<1> DEFINE R == {ss \in Nat \X Nat : ss[1] < ss[2]}
<1>1. IsWellFoundedOn(R, Nat)
  BY NatLessThanWellFounded DEF OpToRel
<1>2. PICK x \in T : \A y \in T : << y, x >> \notin R
  <2> HIDE DEF R
  <2> QED
    BY <1>1, WFMin
<1>3. \A y \in T : y < x => << y, x >> \in R
  OBVIOUS
<1>4. \A y \in T : ~ (y < x)
  <2> HIDE DEF R
  <2> QED
    BY <1>2, <1>3, Zenon
<1>5. \E z \in T : \A y \in T : z <= y
  BY <1>4
<1> QED
  BY <1>5 DEF Min

\* Without its entry i a list is one shorter, and what was behind i moved down.
LEMMA RemoveAtResult ==
    ASSUME NEW S, NEW s \in Seq(S), NEW i \in 1..Len(s)
    PROVE  /\ RemoveAt(s, i) \in Seq(S)
           /\ Len(RemoveAt(s, i)) = Len(s) - 1
           /\ \A j \in 1..(Len(s) - 1) : RemoveAt(s, i)[j] = s[IF j < i THEN j ELSE j + 1]
<1> DEFINE front == SubSeq(s, 1, i - 1)
           back  == SubSeq(s, i + 1, Len(s))
<1>0. Len(s) \in Nat /\ i \in Nat /\ i <= Len(s) /\ 1 <= i
  OBVIOUS
<1>1. front \in Seq(S) /\ Len(front) = i - 1 /\ \A j \in 1..(i - 1) : front[j] = s[j]
  BY <1>0
<1>2. back \in Seq(S) /\ Len(back) = Len(s) - i /\ \A j \in 1..(Len(s) - i) : back[j] = s[i + j]
  BY <1>0
<1>3. RemoveAt(s, i) = front \o back
  BY DEF RemoveAt
<1> HIDE DEF front, back
<1>4. /\ front \o back \in Seq(S) /\ Len(front \o back) = Len(front) + Len(back)
      /\ \A j \in 1..(Len(front) + Len(back)) :
            (front \o back)[j] = IF j <= Len(front) THEN front[j] ELSE back[j - Len(front)]
  BY <1>1, <1>2, ConcatProperties
<1>5. Len(front) + Len(back) = Len(s) - 1
  BY <1>0, <1>1, <1>2
<1>6. ASSUME NEW j \in 1..(Len(s) - 1)
      PROVE  (front \o back)[j] = s[IF j < i THEN j ELSE j + 1]
  <2>1. (front \o back)[j] = IF j <= i - 1 THEN front[j] ELSE back[j - (i - 1)]
    BY <1>1, <1>4, <1>5
  <2>2. CASE j < i
    <3>1. j \in 1..(i - 1)
      BY <1>0, <2>2
    <3> QED
      BY <1>1, <2>1, <2>2, <3>1
  <2>3. CASE ~(j < i)
    <3>1. j - (i - 1) \in 1..(Len(s) - i) /\ i + (j - (i - 1)) = j + 1 /\ ~(j <= i - 1)
      BY <1>0, <2>3
    <3>2. (front \o back)[j] = s[i + (j - (i - 1))]
      BY <1>2, <2>1, <3>1
    <3> QED
      BY <2>3, <3>1, <3>2
  <2> QED
    BY <2>2, <2>3
<1> QED
  BY <1>3, <1>4, <1>5, <1>6

\* The entries that are left keep being distinct; the one that went is not among them.
LEMMA RemoveAtDistinct ==
    ASSUME NEW S, NEW s \in Seq(S), NEW i \in 1..Len(s), Distinct(s)
    PROVE  /\ Distinct(RemoveAt(s, i))
           /\ ToSet(RemoveAt(s, i)) = ToSet(s) \ {s[i]}
<1> DEFINE r == RemoveAt(s, i)
           Old(j) == IF j < i THEN j ELSE j + 1
<1>0. Len(s) \in Nat /\ i \in Nat /\ i <= Len(s) /\ 1 <= i /\ DOMAIN s = 1..Len(s)
  OBVIOUS
<1>1. /\ r \in Seq(S) /\ Len(r) = Len(s) - 1 /\ DOMAIN r = 1..(Len(s) - 1)
      /\ \A j \in DOMAIN r : r[j] = s[Old(j)]
  <2>1. r \in Seq(S) /\ Len(r) = Len(s) - 1
    BY RemoveAtResult
  <2>2. DOMAIN r = 1..(Len(s) - 1)
    <3> HIDE DEF r
    <3> QED
      BY <2>1
  <2> QED
    BY <2>1, <2>2, RemoveAtResult
<1> HIDE DEF r
<1>2. \A j \in 1..(Len(s) - 1) : Old(j) \in DOMAIN s /\ Old(j) # i
  BY <1>0
<1>3. Distinct(r)
  <2> SUFFICES ASSUME NEW j \in DOMAIN r, NEW k \in DOMAIN r, r[j] = r[k] PROVE j = k
    BY DEF Distinct
  <2>1. Old(j) = Old(k)
    <3>1. s[Old(j)] = s[Old(k)] /\ Old(j) \in DOMAIN s /\ Old(k) \in DOMAIN s
      BY <1>1, <1>2
    <3> HIDE DEF Old
    <3> QED
      BY <3>1 DEF Distinct
  <2> QED
    BY <1>0, <1>1, <2>1
<1>4. ToSet(r) \subseteq ToSet(s) \ {s[i]}
  <2> SUFFICES ASSUME NEW j \in DOMAIN r PROVE r[j] \in ToSet(s) /\ r[j] # s[i]
    BY DEF ToSet
  <2>1. r[j] = s[Old(j)] /\ Old(j) \in DOMAIN s /\ Old(j) # i
    BY <1>1, <1>2
  <2> HIDE DEF Old
  <2>2. s[Old(j)] # s[i]
    BY <1>0, <2>1 DEF Distinct
  <2> QED
    BY <2>1, <2>2 DEF ToSet
<1>5. ToSet(s) \ {s[i]} \subseteq ToSet(r)
  <2> SUFFICES ASSUME NEW k \in DOMAIN s, k # i PROVE s[k] \in ToSet(r)
    BY DEF ToSet
  <2> DEFINE j == IF k < i THEN k ELSE k - 1
  <2>1. j \in DOMAIN r /\ Old(j) = k
    BY <1>0, <1>1
  <2>2. r[j] = s[k]
    BY <1>1, <2>1
  <2> HIDE DEF j
  <2> QED
    BY <2>1, <2>2 DEF ToSet
<1> QED
  BY <1>3, <1>4, <1>5 DEF r

\* std::list::remove() takes an observer out of a list it is in once.
LEMMA RemoveFirstResult ==
    ASSUME NEW S, NEW s \in Seq(S), NEW e, Distinct(s)
    PROVE  /\ RemoveFirst(s, e) \in Seq(S)
           /\ Distinct(RemoveFirst(s, e))
           /\ ToSet(RemoveFirst(s, e)) = ToSet(s) \ {e}
<1>0. DOMAIN s = 1..Len(s) /\ Len(s) \in Nat
  OBVIOUS
<1>1. CASE \E i \in 1..Len(s) : s[i] = e
  <2> DEFINE T == {i \in 1..Len(s) : s[i] = e}
  <2>1. T # {} /\ T \in SUBSET Nat
    BY <1>1
  <2>2. Min(T) \in T
    BY <2>1, MinIsLeast
  <2>3. SelectInSeq(s, LAMBDA v : v = e) = Min(T)
    BY <2>1 DEF SelectInSeq
  <2>4. RemoveFirst(s, e) = RemoveAt(s, Min(T))
    BY <1>1, <2>3 DEF RemoveFirst
  <2>5. Min(T) \in 1..Len(s) /\ s[Min(T)] = e
    BY <2>2
  <2> HIDE DEF T
  <2>6. RemoveAt(s, Min(T)) \in Seq(S)
    BY <2>5, RemoveAtResult
  <2>7. /\ Distinct(RemoveAt(s, Min(T)))
        /\ ToSet(RemoveAt(s, Min(T))) = ToSet(s) \ {s[Min(T)]}
    BY <2>5, RemoveAtDistinct
  <2> QED
    BY <2>4, <2>5, <2>6, <2>7
<1>2. CASE ~ \E i \in 1..Len(s) : s[i] = e
  <2>1. RemoveFirst(s, e) = s
    BY <1>2 DEF RemoveFirst
  <2> QED
    BY <1>0, <1>2, <2>1 DEF ToSet
<1> QED
  BY <1>1, <1>2

\* One entry at the end: the rest is as it was.
LEMMA OneMore ==
    ASSUME NEW S, NEW s \in Seq(S), NEW t \in Seq(S), NEW x \in S,
           Len(t) = Len(s) + 1, t[Len(s) + 1] = x, \A i \in 1..Len(s) : t[i] = s[i]
    PROVE  s \o << x >> = t
<1> DEFINE one == << x >>
<1>1. one \in Seq(S) /\ Len(one) = 1 /\ one[1] = x
  OBVIOUS
<1> HIDE DEF one
<1>2. /\ s \o one \in Seq(S) /\ Len(s \o one) = Len(s) + 1
      /\ \A i \in 1..(Len(s) + 1) :
            (s \o one)[i] = IF i <= Len(s) THEN s[i] ELSE one[i - Len(s)]
  <2>1. /\ s \o one \in Seq(S) /\ Len(s \o one) = Len(s) + Len(one)
        /\ \A i \in 1..(Len(s) + Len(one)) :
              (s \o one)[i] = IF i <= Len(s) THEN s[i] ELSE one[i - Len(s)]
    BY <1>1, ConcatProperties
  <2> QED
    BY <1>1, <2>1
<1>3. ASSUME NEW i \in 1..(Len(s) + 1) PROVE (s \o one)[i] = t[i]
  <2>1. CASE i <= Len(s)
    BY <1>2, <2>1
  <2>2. CASE ~(i <= Len(s))
    <3>1. i = Len(s) + 1 /\ i - Len(s) = 1
      BY <2>2
    <3> QED
      BY <1>1, <1>2, <2>2, <3>1
  <2> QED
    BY <2>1, <2>2
<1> DEFINE u == s \o one
<1>4. u \in Seq(S) /\ Len(u) = Len(t) /\ \A i \in 1..Len(u) : u[i] = t[i]
  BY <1>2, <1>3
<1> HIDE DEF u
<1>5. u = t
  BY <1>4, SeqEqual
<1> QED
  BY <1>5 DEF u, one

\* Short sequences put together.
LEMMA Tuples ==
    ASSUME NEW S, NEW x \in S, NEW y \in S, NEW z \in S
    PROVE  << x >> \o << y >> = << x, y >> /\ << x, y >> \o << z >> = << x, y, z >>
<1> DEFINE s == << x >>
           t == << x, y >>
           u == << x, y, z >>
<1>1. /\ s \in Seq(S) /\ t \in Seq(S) /\ u \in Seq(S)
      /\ Len(s) = 1 /\ Len(t) = 2 /\ Len(u) = 3
      /\ s[1] = x /\ t[1] = x /\ t[2] = y /\ u[1] = x /\ u[2] = y /\ u[3] = z
  OBVIOUS
<1> HIDE DEF s, t, u
<1>2. s \in Seq(S) /\ t \in Seq(S) /\ u \in Seq(S)
  BY <1>1
<1>3. s \o << y >> = t
  <2>1. Len(t) = Len(s) + 1 /\ t[Len(s) + 1] = y /\ \A i \in 1..Len(s) : t[i] = s[i]
    BY <1>1
  <2> QED
    BY <1>2, <2>1, OneMore, SMT
<1>4. t \o << z >> = u
  <2>1. Len(u) = Len(t) + 1 /\ u[Len(t) + 1] = z /\ \A i \in 1..Len(t) : u[i] = t[i]
    BY <1>1
  <2> QED
    BY <1>2, <2>1, OneMore, SMT
<1> QED
  BY <1>3, <1>4 DEF s, t, u

\* Items are put together in any order of the calls.
LEMMA ItemsAssociate ==
    ASSUME NEW s \in Seq(Items), NEW t \in Seq(Items), NEW u \in Seq(Items)
    PROVE  (s \o t) \o u = s \o (t \o u)
  BY ConcatAssociative, SMT

(***************************************************************************)
(* What a phone has been sent of the configuration.                        *)
(***************************************************************************)
MaxIndex == NumChannels + NumConfigs + NumModules + NumFiles
Header == << Item("my_info", 0), Item("uidata", 0), Item("metadata", 0) >>
ChannelsTo(i) == Header \o Range1("channel", 0, i)
ConfigsTo(i)  == ChannelsTo(NumChannels - 1) \o Range1("config", 1, i)
ModulesTo(i)  == ConfigsTo(NumConfigs) \o Range1("module", 1, i)
FilesTo(i)    == ModulesTo(NumModules) \o Range1("file", 0, i)

\* Of a hand-over that is not of the nodes only, before the next item goes out.
SoFar(a) ==
    CASE a.state = "MY_INFO" -> << >>
      [] a.state = "UIDATA" -> << Item("my_info", 0) >>
      [] a.state \in {"OWN_NODEINFO", "METADATA"} -> << Item("my_info", 0), Item("uidata", 0) >>
      [] a.state = "CHANNELS" -> ChannelsTo(a.index - 1)
      [] a.state = "CONFIG" -> ConfigsTo(a.index - 1)
      [] a.state = "MODULECONFIG" -> ModulesTo(a.index - 1)
      [] a.state = "OTHER_NODEINFOS" -> ModulesTo(NumModules)
      [] a.state = "FILEMANIFEST" -> FilesTo(a.index - 1)

\* The assumptions about the constants, one by one.
LEMMA Constants ==
    /\ NumChannels \in Nat /\ NumConfigs \in Nat /\ NumModules \in Nat /\ NumFiles \in Nat
    /\ NumChannels >= 1 /\ NumConfigs >= 1 /\ NumModules >= 1
    /\ MaxNodes \in Nat /\ MaxNodes >= 1 /\ MaxToPhone \in Nat /\ NumOthers \in Nat
    /\ MaxStarts \in Nat /\ MaxArrivals \in Nat /\ MaxIndex \in Nat
  BY PhoneAssumption DEF PhoneAssumption, MaxIndex

Kinds == {"my_info", "uidata", "metadata", "channel", "config", "module", "file"}

\* Every kind of item, at every index the hand-over can reach, is an item.
LEMMA ItemTypes ==
    ASSUME NEW kind \in Kinds, NEW i \in 0..MaxIndex
    PROVE  Item(kind, i) \in Items /\ One(kind, i) \in Seq(Items)
<1>1. Item(kind, i) \in Items
  BY DEF Item, Items, Kinds, MaxIndex
<1> QED
  BY <1>1 DEF One

\* Entries from first to last of a kind, and one more of them.
LEMMA RangeResult ==
    ASSUME NEW kind \in Kinds, NEW first \in Nat, NEW last \in Int,
           first - 1 <= last, last <= MaxIndex
    PROVE  /\ Range1(kind, first, last) \in Seq(Items)
           /\ Len(Range1(kind, first, last)) = last - first + 1
           /\ last < first => Range1(kind, first, last) = << >>
<1> DEFINE r == Range1(kind, first, last)
<1>1. last - first + 1 \in Nat /\ MaxIndex \in Nat
  BY Constants
<1>2. \A i \in 1 .. (last - first + 1) : first + i - 1 \in 0..MaxIndex
  BY <1>1
<1>3. \A i \in 1 .. (last - first + 1) : Item(kind, first + i - 1) \in Items
  BY <1>2, ItemTypes
<1>4. r \in Seq(Items) /\ Len(r) = last - first + 1
  BY <1>1, <1>3 DEF Range1
<1>5. ASSUME last < first PROVE r = << >>
  <2>1. Len(r) = 0
    BY <1>1, <1>4, <1>5
  <2> HIDE DEF r
  <2> QED
    BY <1>4, <2>1
<1> QED
  BY <1>4, <1>5

\* A list up to i is the list up to i - 1 and entry i.
LEMMA RangeGrows ==
    ASSUME NEW kind \in Kinds, NEW first \in Nat, NEW i \in Nat, first <= i, i <= MaxIndex
    PROVE  Range1(kind, first, i - 1) \o One(kind, i) = Range1(kind, first, i)
<1> DEFINE r == Range1(kind, first, i - 1)
           t == Range1(kind, first, i)
<1>1. /\ i - first \in Nat /\ (i - 1) - first + 1 = i - first /\ i \in 0..MaxIndex
      /\ i \in Int /\ i - 1 \in Int /\ first - 1 <= i - 1 /\ i - 1 <= MaxIndex
      /\ first - 1 <= i /\ first + (i - first + 1) - 1 = i
  BY Constants
<1>2. r \in Seq(Items) /\ Len(r) = i - first
  BY <1>1, RangeResult
<1>3. t \in Seq(Items) /\ Len(t) = i - first + 1
  BY <1>1, RangeResult
<1>4. /\ \A j \in 1..(i - first) : r[j] = Item(kind, first + j - 1)
      /\ \A j \in 1..(i - first + 1) : t[j] = Item(kind, first + j - 1)
  BY <1>1 DEF Range1
<1> HIDE DEF r, t
<1>5. t[Len(r) + 1] = Item(kind, i)
  BY <1>1, <1>2, <1>4
<1>6. Len(t) = Len(r) + 1 /\ \A j \in 1..Len(r) : t[j] = r[j]
  BY <1>1, <1>2, <1>3, <1>4
<1>7. Item(kind, i) \in Items
  BY <1>1, ItemTypes
<1>8. r \o << Item(kind, i) >> = t
  BY <1>2, <1>3, <1>5, <1>6, <1>7, OneMore, SMT
<1> QED
  BY <1>8 DEF r, t, One

\* What was sent before a list starts, and what the list adds to it.
LEMMA ListTypes ==
    ASSUME NEW pre \in Seq(Items), NEW kind \in Kinds, NEW first \in Nat, NEW i \in Int,
           first - 1 <= i, i <= MaxIndex
    PROVE  pre \o Range1(kind, first, i) \in Seq(Items)
  BY RangeResult, ConcatProperties

\* A list that has not begun adds nothing to what was sent before it.
LEMMA ListStarts ==
    ASSUME NEW pre \in Seq(Items), NEW kind \in Kinds, NEW first \in Nat, NEW i \in Int,
           i = first - 1, i <= MaxIndex
    PROVE  pre \o Range1(kind, first, i) = pre
<1>1. Range1(kind, first, i) = << >>
  BY RangeResult
<1> QED
  BY <1>1, ConcatEmptySeq

\* Entry i is what a list needs to go on behind what was sent before it.
LEMMA ListGrows ==
    ASSUME NEW pre \in Seq(Items), NEW kind \in Kinds, NEW first \in Nat, NEW i \in Nat,
           first <= i, i <= MaxIndex, NEW j, j = i - 1
    PROVE  (pre \o Range1(kind, first, j)) \o One(kind, i) = pre \o Range1(kind, first, i)
<1> DEFINE u == Range1(kind, first, i - 1)
           v == One(kind, i)
<1>1. i - 1 \in Int /\ first - 1 <= i - 1 /\ i - 1 <= MaxIndex /\ i \in 0..MaxIndex
  BY Constants
<1>2. u \in Seq(Items) /\ v \in Seq(Items)
  BY <1>1, RangeResult, ItemTypes
<1>3. u \o v = Range1(kind, first, i)
  BY RangeGrows
<1> HIDE DEF u, v
<1>4. (pre \o u) \o v = pre \o (u \o v)
  BY <1>2, ItemsAssociate
<1> QED
  BY <1>3, <1>4 DEF u, v

\* Every prefix of what a phone is promised is a sequence of items.
LEMMA PrefixTypes ==
    /\ Header \in Seq(Items)
    /\ \A i \in Int : -1 <= i /\ i <= MaxIndex => ChannelsTo(i) \in Seq(Items)
    /\ \A i \in Nat : i <= MaxIndex => ConfigsTo(i) \in Seq(Items)
    /\ \A i \in Nat : i <= MaxIndex => ModulesTo(i) \in Seq(Items)
    /\ \A i \in Int : -1 <= i /\ i <= MaxIndex => FilesTo(i) \in Seq(Items)
<1>0. /\ NumChannels - 1 \in Int /\ -1 <= NumChannels - 1 /\ NumChannels - 1 <= MaxIndex
      /\ NumConfigs \in Nat /\ NumConfigs <= MaxIndex
      /\ NumModules \in Nat /\ NumModules <= MaxIndex
      /\ 0 \in 0..MaxIndex
  BY Constants DEF MaxIndex
<1>k. /\ "my_info" \in Kinds /\ "uidata" \in Kinds /\ "metadata" \in Kinds
      /\ "channel" \in Kinds /\ "config" \in Kinds /\ "module" \in Kinds /\ "file" \in Kinds
  BY DEF Kinds
<1>1. Header \in Seq(Items)
  <2>1. /\ Item("my_info", 0) \in Items /\ Item("uidata", 0) \in Items
        /\ Item("metadata", 0) \in Items
    BY <1>0, <1>k, ItemTypes
  <2> QED
    BY <2>1 DEF Header
<1>2. \A i \in Int : -1 <= i /\ i <= MaxIndex => ChannelsTo(i) \in Seq(Items)
  BY <1>1, <1>k, ListTypes DEF ChannelsTo
<1>3. \A i \in Nat : i <= MaxIndex => ConfigsTo(i) \in Seq(Items)
  <2>1. ChannelsTo(NumChannels - 1) \in Seq(Items)
    BY <1>0, <1>2
  <2> QED
    BY <1>k, <2>1, ListTypes DEF ConfigsTo
<1>4. \A i \in Nat : i <= MaxIndex => ModulesTo(i) \in Seq(Items)
  <2>1. ConfigsTo(NumConfigs) \in Seq(Items)
    BY <1>0, <1>3
  <2> QED
    BY <1>k, <2>1, ListTypes DEF ModulesTo
<1>5. \A i \in Int : -1 <= i /\ i <= MaxIndex => FilesTo(i) \in Seq(Items)
  <2>1. ModulesTo(NumModules) \in Seq(Items)
    BY <1>0, <1>4
  <2> QED
    BY <1>k, <2>1, ListTypes DEF FilesTo
<1> QED
  BY <1>1, <1>2, <1>3, <1>4, <1>5

\* One item more at each index, and where one list ends the next one starts.
LEMMA NextItem ==
    /\ << >> \o One("my_info", 0) = << Item("my_info", 0) >>
    /\ << Item("my_info", 0) >> \o One("uidata", 0) = << Item("my_info", 0), Item("uidata", 0) >>
    /\ << Item("my_info", 0), Item("uidata", 0) >> \o One("metadata", 0) = ChannelsTo(-1)
    /\ \A i \in 0..MaxIndex : ChannelsTo(i - 1) \o One("channel", i) = ChannelsTo(i)
    /\ \A i \in 1..MaxIndex : ConfigsTo(i - 1) \o One("config", i) = ConfigsTo(i)
    /\ \A i \in 1..MaxIndex : ModulesTo(i - 1) \o One("module", i) = ModulesTo(i)
    /\ \A i \in 0..MaxIndex : FilesTo(i - 1) \o One("file", i) = FilesTo(i)
    /\ ConfigsTo(0) = ChannelsTo(NumChannels - 1)
    /\ ModulesTo(0) = ConfigsTo(NumConfigs)
    /\ FilesTo(-1) = ModulesTo(NumModules)
    /\ \A nonce : nonce # "only_nodes" => FilesTo(NumFiles - 1) = Promised(nonce)
<1>0. /\ NumChannels - 1 \in Int /\ -1 <= NumChannels - 1 /\ NumChannels - 1 <= MaxIndex
      /\ NumConfigs \in Nat /\ NumConfigs <= MaxIndex
      /\ NumModules \in Nat /\ NumModules <= MaxIndex
      /\ MaxIndex \in Nat /\ 0 \in 0..MaxIndex
      /\ 0 \in Nat /\ 1 \in Nat /\ 0 - 1 = -1 /\ 1 - 1 = 0
  BY Constants DEF MaxIndex
<1>k. /\ "my_info" \in Kinds /\ "uidata" \in Kinds /\ "metadata" \in Kinds
      /\ "channel" \in Kinds /\ "config" \in Kinds /\ "module" \in Kinds /\ "file" \in Kinds
  BY DEF Kinds
<1>1. Header \in Seq(Items)
  BY PrefixTypes
<1>a. ChannelsTo(NumChannels - 1) \in Seq(Items)
  BY <1>0, PrefixTypes
<1>b. ConfigsTo(NumConfigs) \in Seq(Items)
  BY <1>0, PrefixTypes
<1>c. ModulesTo(NumModules) \in Seq(Items)
  BY <1>0, PrefixTypes
<1>2. /\ << >> \o One("my_info", 0) = << Item("my_info", 0) >>
      /\ << Item("my_info", 0) >> \o One("uidata", 0)
         = << Item("my_info", 0), Item("uidata", 0) >>
      /\ << Item("my_info", 0), Item("uidata", 0) >> \o One("metadata", 0) = Header
  <2>1. << >> \o One("my_info", 0) = << Item("my_info", 0) >>
    BY DEF One
  <2>2. /\ Item("my_info", 0) \in Items /\ Item("uidata", 0) \in Items
        /\ Item("metadata", 0) \in Items
    BY <1>0, <1>k, ItemTypes
  <2> QED
    BY <2>1, <2>2, Tuples DEF One, Header
<1>4. /\ \A i \in 0..MaxIndex : ChannelsTo(i - 1) \o One("channel", i) = ChannelsTo(i)
      /\ ChannelsTo(-1) = Header
  <2>1. /\ "channel" \in Kinds /\ 0 \in Nat /\ -1 \in Int /\ -1 = 0 - 1 /\ -1 <= MaxIndex
    BY Constants DEF Kinds
  <2>2. Header \in Seq(Items)
    BY <1>1
  <2>3. ASSUME NEW i \in 0..MaxIndex PROVE ChannelsTo(i - 1) \o One("channel", i) = ChannelsTo(i)
    <3>1. i \in Nat /\ 0 <= i /\ i <= MaxIndex
      BY Constants
    <3>2. \A j : j = i - 1 =>
             (Header \o Range1("channel", 0, j)) \o One("channel", i)
             = Header \o Range1("channel", 0, i)
      BY <2>1, <2>2, <3>1, ListGrows, Zenon
    <3> QED
      BY <3>2 DEF ChannelsTo
  <2>4. ChannelsTo(-1) = Header
    BY <2>1, <2>2, ListStarts, SMT DEF ChannelsTo
  <2> QED
    BY <2>3, <2>4
<1>5. /\ \A i \in 1..MaxIndex : ConfigsTo(i - 1) \o One("config", i) = ConfigsTo(i)
      /\ ConfigsTo(0) = ChannelsTo(NumChannels - 1)
  <2>1. /\ "config" \in Kinds /\ 1 \in Nat /\ 0 \in Int /\ 0 = 1 - 1 /\ 0 <= MaxIndex
    BY Constants DEF Kinds
  <2>2. ChannelsTo(NumChannels - 1) \in Seq(Items)
    BY <1>a
  <2>3. ASSUME NEW i \in 1..MaxIndex PROVE ConfigsTo(i - 1) \o One("config", i) = ConfigsTo(i)
    <3>1. i \in Nat /\ 1 <= i /\ i <= MaxIndex
      BY Constants
    <3>2. \A j : j = i - 1 =>
             (ChannelsTo(NumChannels - 1) \o Range1("config", 1, j)) \o One("config", i)
             = ChannelsTo(NumChannels - 1) \o Range1("config", 1, i)
      BY <2>1, <2>2, <3>1, ListGrows, Zenon
    <3> QED
      BY <3>2 DEF ConfigsTo
  <2>4. ConfigsTo(0) = ChannelsTo(NumChannels - 1)
    BY <2>1, <2>2, ListStarts, SMT DEF ConfigsTo
  <2> QED
    BY <2>3, <2>4
<1>6. /\ \A i \in 1..MaxIndex : ModulesTo(i - 1) \o One("module", i) = ModulesTo(i)
      /\ ModulesTo(0) = ConfigsTo(NumConfigs)
  <2>1. /\ "module" \in Kinds /\ 1 \in Nat /\ 0 \in Int /\ 0 = 1 - 1 /\ 0 <= MaxIndex
    BY Constants DEF Kinds
  <2>2. ConfigsTo(NumConfigs) \in Seq(Items)
    BY <1>b
  <2>3. ASSUME NEW i \in 1..MaxIndex PROVE ModulesTo(i - 1) \o One("module", i) = ModulesTo(i)
    <3>1. i \in Nat /\ 1 <= i /\ i <= MaxIndex
      BY Constants
    <3>2. \A j : j = i - 1 =>
             (ConfigsTo(NumConfigs) \o Range1("module", 1, j)) \o One("module", i)
             = ConfigsTo(NumConfigs) \o Range1("module", 1, i)
      BY <2>1, <2>2, <3>1, ListGrows, Zenon
    <3> QED
      BY <3>2 DEF ModulesTo
  <2>4. ModulesTo(0) = ConfigsTo(NumConfigs)
    BY <2>1, <2>2, ListStarts, SMT DEF ModulesTo
  <2> QED
    BY <2>3, <2>4
<1>7. /\ \A i \in 0..MaxIndex : FilesTo(i - 1) \o One("file", i) = FilesTo(i)
      /\ FilesTo(-1) = ModulesTo(NumModules)
  <2>1. /\ "file" \in Kinds /\ 0 \in Nat /\ -1 \in Int /\ -1 = 0 - 1 /\ -1 <= MaxIndex
    BY Constants DEF Kinds
  <2>2. ModulesTo(NumModules) \in Seq(Items)
    BY <1>c
  <2>3. ASSUME NEW i \in 0..MaxIndex PROVE FilesTo(i - 1) \o One("file", i) = FilesTo(i)
    <3>1. i \in Nat /\ 0 <= i /\ i <= MaxIndex
      BY Constants
    <3>2. \A j : j = i - 1 =>
             (ModulesTo(NumModules) \o Range1("file", 0, j)) \o One("file", i)
             = ModulesTo(NumModules) \o Range1("file", 0, i)
      BY <2>1, <2>2, <3>1, ListGrows, Zenon
    <3> QED
      BY <3>2 DEF FilesTo
  <2>4. FilesTo(-1) = ModulesTo(NumModules)
    BY <2>1, <2>2, ListStarts, SMT DEF FilesTo
  <2> QED
    BY <2>3, <2>4
<1>8. \A nonce : nonce # "only_nodes" => FilesTo(NumFiles - 1) = Promised(nonce)
  BY DEF FilesTo, ModulesTo, ConfigsTo, ChannelsTo, Header, Promised
<1> QED
  BY <1>2, <1>4, <1>5, <1>6, <1>7, <1>8

(***************************************************************************)
(* What a phone has been sent of the node database.                        *)
(***************************************************************************)
Positions(us, n) == {k \in DOMAIN us : us[k] = n}

\* Of the nodes st that stay, those at the positions up to r have been sent once, as
\* us tells, and those behind not yet.
Delivered(r, st, us, list) ==
    /\ st \subseteq ToSet(list)
    /\ \A j \in DOMAIN list : list[j] \in st =>
          IF j <= r THEN \E k \in DOMAIN us : Positions(us, list[j]) = {k}
          ELSE Positions(us, list[j]) = {}
\* None of them is behind r.
ReadAll(r, st, list) == \A j \in DOMAIN list : list[j] \in st => j <= r

\* A hand-over starts with nothing sent, and one that is over promises nothing.
LEMMA DeliveredFirst ==
    ASSUME NEW list \in Seq(NodeIds)
    PROVE  Delivered(0, ToSet(list), << >>, list)
<1>1. \A n : Positions(<< >>, n) = {}
  BY DEF Positions
<1>2. \A j \in DOMAIN list : ~ (j <= 0)
  OBVIOUS
<1> QED
  BY <1>1, <1>2 DEF Delivered

\* To a phone that is promised no node everything has been delivered.
LEMMA DeliveredNone == \A r, us, list : Delivered(r, {}, us, list) /\ ReadAll(r, {}, list)
  BY DEF Delivered, ReadAll

\* readNextMeshNode() sends the node at the next position.
LEMMA DeliveredNext ==
    ASSUME NEW list \in Seq(NodeIds), Distinct(list), NEW us \in Seq(NodeIds), NEW r \in Nat,
           NEW st, Delivered(r, st, us, list), r < Len(list)
    PROVE  Delivered(r + 1, st, us \o << list[r + 1] >>, list)
<1> DEFINE n == list[r + 1]
           vs == us \o << n >>
<1>0. /\ DOMAIN list = 1..Len(list) /\ Len(list) \in Nat /\ r + 1 \in DOMAIN list
      /\ DOMAIN us = 1..Len(us) /\ Len(us) \in Nat /\ n \in NodeIds
  OBVIOUS
<1>1. /\ DOMAIN vs = 1..(Len(us) + 1)
      /\ \A k \in 1..Len(us) : vs[k] = us[k]
      /\ vs[Len(us) + 1] = n
  <2> DEFINE one == << n >>
  <2>1. one \in Seq(NodeIds) /\ Len(one) = 1 /\ one[1] = n
    BY <1>0
  <2> HIDE DEF one, n
  <2>2. /\ us \o one \in Seq(NodeIds) /\ Len(us \o one) = Len(us) + Len(one)
        /\ \A k \in 1..(Len(us) + Len(one)) :
              (us \o one)[k] = IF k <= Len(us) THEN us[k] ELSE one[k - Len(us)]
    BY <2>1, ConcatProperties
  <2> DEFINE ws == us \o one
  <2>3. ws \in Seq(NodeIds) /\ Len(ws) = Len(us) + 1
    BY <2>1, <2>2
  <2>4. \A k \in 1..(Len(us) + 1) : ws[k] = IF k <= Len(us) THEN us[k] ELSE one[k - Len(us)]
    BY <2>1, <2>2
  <2> HIDE DEF ws
  <2>5. Len(us) + 1 \in 1..(Len(us) + 1) /\ ~ (Len(us) + 1 <= Len(us)) /\ (Len(us) + 1) - Len(us) = 1
    BY <1>0
  <2>6. ws[Len(us) + 1] = n
    BY <2>1, <2>4, <2>5
  <2>7. \A k \in 1..Len(us) : ws[k] = us[k]
    BY <1>0, <2>4
  <2>8. DOMAIN ws = 1..(Len(us) + 1)
    BY <1>0, <2>3
  <2> QED
    BY <2>6, <2>7, <2>8 DEF ws, one
<1> HIDE DEF vs
<1>2. ASSUME NEW m, m # n PROVE Positions(vs, m) = Positions(us, m)
  BY <1>0, <1>1, <1>2 DEF Positions
<1>3. Positions(vs, n) = Positions(us, n) \cup {Len(us) + 1}
  BY <1>0, <1>1 DEF Positions
<1>4. ASSUME NEW j \in DOMAIN list, list[j] \in st
      PROVE  IF j <= r + 1 THEN \E k \in DOMAIN vs : Positions(vs, list[j]) = {k}
             ELSE Positions(vs, list[j]) = {}
  <2>1. CASE j = r + 1
    <3>1. Positions(us, n) = {}
      BY <1>4, <2>1 DEF Delivered
    <3>2. Positions(vs, n) = {Len(us) + 1} /\ Len(us) + 1 \in DOMAIN vs
      BY <1>0, <1>1, <1>3, <3>1
    <3> QED
      BY <2>1, <3>2
  <2>2. CASE j # r + 1
    <3>1. list[j] # n
      BY <1>0, <2>2 DEF Distinct
    <3>2. Positions(vs, list[j]) = Positions(us, list[j])
      BY <1>2, <3>1
    <3>3. IF j <= r THEN \E k \in DOMAIN us : Positions(us, list[j]) = {k}
          ELSE Positions(us, list[j]) = {}
      BY <1>4 DEF Delivered
    <3>4. j <= r + 1 <=> j <= r
      BY <1>0, <2>2
    <3>5. DOMAIN us \subseteq DOMAIN vs
      BY <1>0, <1>1
    <3> QED
      BY <3>2, <3>3, <3>4, <3>5
  <2> QED
    BY <2>1, <2>2
<1> QED
  BY <1>4 DEF Delivered, vs, n

\* A node that is new was not promised.
LEMMA DeliveredAppend ==
    ASSUME NEW list \in Seq(NodeIds), NEW us, NEW r, NEW st, Delivered(r, st, us, list),
           NEW n, n \notin ToSet(list)
    PROVE  /\ Delivered(r, st, us, Append(list, n))
           /\ ReadAll(r, st, list) => ReadAll(r, st, Append(list, n))
<1> DEFINE new == Append(list, n)
<1>1. DOMAIN new = 1..(Len(list) + 1) /\ DOMAIN list = 1..Len(list) /\ Len(list) \in Nat
      /\ (\A j \in 1..Len(list) : new[j] = list[j]) /\ new[Len(list) + 1] = n
  OBVIOUS
<1> HIDE DEF new
<1>2. n \notin st
  BY DEF Delivered
<1>3. ASSUME NEW j \in DOMAIN new, new[j] \in st PROVE j \in DOMAIN list /\ new[j] = list[j]
  BY <1>1, <1>2, <1>3
<1>4. ToSet(list) \subseteq ToSet(new)
  BY <1>1 DEF ToSet
<1> QED
  BY <1>3, <1>4 DEF Delivered, ReadAll, new

\* When entry i goes, what slides under the read index is no longer promised.
Slid(list, r, i) == {list[i]} \cup {list[j] : j \in {j \in DOMAIN list : j = r + 1 /\ i < j}}
LEMMA DeliveredRemove ==
    ASSUME NEW list \in Seq(NodeIds), Distinct(list), NEW i \in 1..Len(list),
           NEW us, NEW r \in Nat, NEW st, Delivered(r, st, us, list)
    PROVE  /\ Delivered(r, st \ Slid(list, r, i), us, RemoveAt(list, i))
           /\ ReadAll(r, st, list) => ReadAll(r, st \ Slid(list, r, i), RemoveAt(list, i))
<1> DEFINE new == RemoveAt(list, i)
           left == st \ Slid(list, r, i)
           Old(j) == IF j < i THEN j ELSE j + 1
<1>0. DOMAIN list = 1..Len(list) /\ Len(list) \in Nat /\ i \in Nat /\ 1 <= i /\ i <= Len(list)
  OBVIOUS
<1>1. /\ new \in Seq(NodeIds) /\ Len(new) = Len(list) - 1
      /\ \A j \in 1..(Len(list) - 1) : new[j] = list[Old(j)]
  BY RemoveAtResult
<1>2. ToSet(new) = ToSet(list) \ {list[i]}
  BY RemoveAtDistinct
<1> HIDE DEF new
<1>3. DOMAIN new = 1..(Len(list) - 1)
  BY <1>0, <1>1
<1>4. ASSUME NEW j \in DOMAIN new, new[j] \in left
      PROVE  /\ Old(j) \in DOMAIN list /\ new[j] = list[Old(j)] /\ list[Old(j)] \in st
             /\ j <= r <=> Old(j) <= r
  <2>1. Old(j) \in DOMAIN list /\ new[j] = list[Old(j)]
    BY <1>0, <1>1, <1>3
  <2>2. list[Old(j)] \in st
    BY <1>4, <2>1
  <2>3. ~ (Old(j) = r + 1 /\ i < Old(j))
    BY <1>4, <2>1 DEF Slid
  <2>4. j <= r <=> Old(j) <= r
    BY <1>0, <1>3, <2>3
  <2> QED
    BY <2>1, <2>2, <2>4
<1>5. left \subseteq ToSet(new)
  BY <1>2 DEF Delivered, Slid
<1> HIDE DEF left, Old
<1>6. Delivered(r, left, us, new)
  BY <1>4, <1>5 DEF Delivered
<1>7. ReadAll(r, st, list) => ReadAll(r, left, new)
  BY <1>4 DEF ReadAll
<1> QED
  BY <1>6, <1>7 DEF left, new

\* resetNodes() leaves the first node where it was.
FirstOf(list) == IF list = << >> THEN Blank ELSE list[1]
LEMMA DeliveredReset ==
    ASSUME NEW list \in Seq(NodeIds), NEW us, NEW r, NEW st, Delivered(r, st, us, list),
           NEW new, new = << FirstOf(list) >>
    PROVE  /\ Delivered(r, st \cap ToSet(new), us, new)
           /\ ReadAll(r, st, list) => ReadAll(r, st \cap ToSet(new), new)
<1>1. DOMAIN new = {1} /\ new[1] = FirstOf(list)
  OBVIOUS
<1>2. new[1] \in st => 1 \in DOMAIN list /\ new[1] = list[1]
  <2>1. CASE list = << >>
    <3>1. ToSet(list) = {}
      BY <2>1 DEF ToSet
    <3> QED
      BY <3>1 DEF Delivered
  <2>2. CASE list # << >>
    BY <1>1, <2>2 DEF FirstOf
  <2> QED
    BY <2>1, <2>2
<1>3. Delivered(r, st \cap ToSet(new), us, new)
  BY <1>1, <1>2 DEF Delivered
<1>4. ReadAll(r, st, list) => ReadAll(r, st \cap ToSet(new), new)
  BY <1>1, <1>2 DEF ReadAll
<1> QED
  BY <1>3, <1>4

(***************************************************************************)
(* The inductive invariant.                                                *)
(***************************************************************************)
ApiRecords == [state : States, index : 0..MaxIndex, nonce : Nonces \cup {NoNonce},
               read : 0..MaxNodes]
Histories == [config : Seq(Items), nodes : Seq(NodeIds)]
HandingOver(a) == a.state \notin {"NOTHING", "PACKETS"}

\* config_state, which several states share: a list starts where it has to, unless the
\* phone asked again in the middle of a list.
IndexFits(a, isFresh) ==
    /\ IndexInRange(a)
    /\ a.state = "NOTHING" => a.index = 0
    /\ a.state = "OTHER_NODEINFOS" => a.index = 0 \/ a.nonce = "only_nodes"
    /\ HandingOver(a) /\ a.nonce = "only_nodes" => a.state \in {"OWN_NODEINFO", "OTHER_NODEINFOS"}
    /\ isFresh /\ a.state \in {"MY_INFO", "UIDATA", "OWN_NODEINFO", "METADATA"} => a.index = 0
    /\ isFresh /\ a.state = "CHANNELS" => a.index < NumChannels
ConfigInOrder(a, isFresh, sent) ==
    /\ HandingOver(a) /\ a.nonce = "only_nodes" => sent = << >>
    /\ HandingOver(a) /\ a.nonce # "only_nodes" /\ isFresh => sent = SoFar(a)
\* Past STATE_SEND_OWN_NODEINFO the first node has been read, if there was one.
PastOwn(a) == a.state \in {"METADATA", "CHANNELS", "CONFIG", "MODULECONFIG",
                           "OTHER_NODEINFOS", "FILEMANIFEST"}
NodesInOrder(a, st, sent, list) ==
    /\ Delivered(a.read, st, sent, list)
    /\ a.state = "FILEMANIFEST" /\ a.nonce # "only_config" => ReadAll(a.read, st, list)
    /\ PastOwn(a) /\ a.read = 0 => st = {}
HandOver(a, history, isFresh, st, list) ==
    /\ IndexFits(a, isFresh)
    /\ ConfigInOrder(a, isFresh, history.config)
    /\ NodesInOrder(a, st, history.nodes, list)

Types ==
    /\ api \in [Phones -> ApiRecords] /\ got \in [Phones -> Histories]
    /\ fresh \in [Phones -> BOOLEAN]
    /\ stay \in [Phones -> SUBSET NodeIds]
    /\ changed \in BOOLEAN /\ queue \in 0..MaxToPhone
    /\ present \subseteq Phones /\ told \in [Phones -> BOOLEAN]
    /\ starts \in 0..MaxStarts /\ arrivals \in 0..MaxArrivals
Watched ==
    /\ observers \in Seq(Phones) /\ Distinct(observers)
    /\ ToSet(observers) = {ph \in Phones : api[ph].state # "NOTHING"}
\* An entry of zeros is what resetNodes() keeps of an empty list.
BlankFirst(list) == \A i \in DOMAIN list : list[i] = Blank => i = 1
NodeList ==
    /\ nodes \in Seq(NodeIds) /\ Len(nodes) <= MaxNodes
    /\ Distinct(nodes) /\ BlankFirst(nodes)
PhoneInv ==
    /\ Types /\ Watched /\ NodeList
    /\ \A ph \in Phones : HandOver(api[ph], got[ph], fresh[ph], stay[ph], nodes)

\* The type invariant the runs check is part of it.
LEMMA InvTypes == PhoneInv => TypeOK
<1> SUFFICES ASSUME PhoneInv PROVE TypeOK
  OBVIOUS
<1>1. ASSUME NEW ph \in Phones
      PROVE  /\ api[ph] \in [state : States, index : Nat, nonce : Nonces \cup {NoNonce},
                             read : 0..MaxNodes]
             /\ IndexInRange(api[ph])
             /\ got[ph] \in [config : Seq(Items), nodes : Seq(NodeIds)]
             /\ stay[ph] \subseteq NodeIds
  <2>1. /\ api[ph] \in ApiRecords /\ got[ph] \in Histories
        /\ stay[ph] \in SUBSET NodeIds
    BY DEF PhoneInv, Types
  <2>2. IndexInRange(api[ph])
    BY DEF PhoneInv, HandOver, IndexFits
  <2>3. 0..MaxIndex \subseteq Nat
    BY Constants
  <2> QED
    BY <2>1, <2>2, <2>3 DEF ApiRecords, Histories
<1> QED
  BY <1>1 DEF PhoneInv, Types, Watched, NodeList, TypeOK

(***************************************************************************)
(* One item of the hand-over, as a step from the record a to the record b. *)
(***************************************************************************)
Sends(a, isFresh, sent, b, items) ==
    /\ b \in ApiRecords /\ items \in Seq(Items)
    /\ IndexFits(b, isFresh) /\ ConfigInOrder(b, isFresh, sent \o items)
    /\ b.read = a.read /\ b.nonce = a.nonce /\ HandingOver(b)

\* A step that reads no node leaves them in order.
LEMMA NoNode ==
    ASSUME NEW a, NEW b, NEW st, NEW us, NEW list, NodesInOrder(a, st, us, list),
           b.read = a.read, PastOwn(b) => PastOwn(a),
           b.state = "FILEMANIFEST" /\ b.nonce # "only_config" => ReadAll(b.read, st, list)
    PROVE  NodesInOrder(b, st, us, list)
  BY DEF NodesInOrder

\* The parts that are sent once: who we are, the settings of the display, the metadata.
LEMMA SendsFixed ==
    ASSUME NEW a \in ApiRecords, NEW isFresh \in BOOLEAN, NEW sent \in Seq(Items),
           IndexFits(a, isFresh), ConfigInOrder(a, isFresh, sent)
    PROVE  /\ a.state = "MY_INFO" =>
                 Sends(a, isFresh, sent, Goto(a, "UIDATA"), One("my_info", 0))
           /\ a.state = "UIDATA" =>
                 Sends(a, isFresh, sent, Goto(a, "OWN_NODEINFO"), One("uidata", 0))
           /\ a.state = "METADATA" =>
                 Sends(a, isFresh, sent, Goto(a, "CHANNELS"), One("metadata", 0))
<1>0. /\ One("my_info", 0) \in Seq(Items) /\ One("uidata", 0) \in Seq(Items)
      /\ One("metadata", 0) \in Seq(Items)
  BY Constants, ItemTypes DEF Kinds
<1>1. CASE a.state = "MY_INFO"
  <2> DEFINE b == Goto(a, "UIDATA")
  <2>1. b \in ApiRecords /\ b.state = "UIDATA" /\ b.index = a.index /\ b.nonce = a.nonce
        /\ b.read = a.read
    BY DEF Goto, ApiRecords, States
  <2> HIDE DEF b
  <2>2. a.nonce # "only_nodes"
    BY <1>1 DEF IndexFits, HandingOver
  <2>3. isFresh => sent = << >>
    BY <1>1, <2>2 DEF ConfigInOrder, HandingOver, SoFar
  <2>4. IndexFits(b, isFresh)
    BY <1>1, <2>1, <2>2 DEF IndexFits, HandingOver, IndexInRange
  <2>5. isFresh => sent \o One("my_info", 0) = SoFar(b)
    BY <2>1, <2>3, NextItem DEF SoFar
  <2>6. ConfigInOrder(b, isFresh, sent \o One("my_info", 0))
    BY <2>1, <2>2, <2>5 DEF ConfigInOrder
  <2>7. Sends(a, isFresh, sent, b, One("my_info", 0))
    BY <1>0, <2>1, <2>4, <2>6 DEF Sends, HandingOver
  <2> QED
    BY <1>1, <2>7 DEF b
<1>2. CASE a.state = "UIDATA"
  <2> DEFINE b == Goto(a, "OWN_NODEINFO")
  <2>1. b \in ApiRecords /\ b.state = "OWN_NODEINFO" /\ b.index = a.index /\ b.nonce = a.nonce
        /\ b.read = a.read
    BY DEF Goto, ApiRecords, States
  <2> HIDE DEF b
  <2>2. a.nonce # "only_nodes"
    BY <1>2 DEF IndexFits, HandingOver
  <2>3. isFresh => sent = << Item("my_info", 0) >>
    BY <1>2, <2>2 DEF ConfigInOrder, HandingOver, SoFar
  <2>4. IndexFits(b, isFresh)
    BY <1>2, <2>1, <2>2 DEF IndexFits, HandingOver, IndexInRange
  <2>5. isFresh => sent \o One("uidata", 0) = SoFar(b)
    BY <2>1, <2>3, NextItem DEF SoFar
  <2>6. ConfigInOrder(b, isFresh, sent \o One("uidata", 0))
    BY <2>1, <2>2, <2>5 DEF ConfigInOrder
  <2>7. Sends(a, isFresh, sent, b, One("uidata", 0))
    BY <1>0, <2>1, <2>4, <2>6 DEF Sends, HandingOver
  <2> QED
    BY <1>2, <2>7 DEF b
<1>3. CASE a.state = "METADATA"
  <2> DEFINE b == Goto(a, "CHANNELS")
  <2>1. b \in ApiRecords /\ b.state = "CHANNELS" /\ b.index = a.index /\ b.nonce = a.nonce
        /\ b.read = a.read
    BY DEF Goto, ApiRecords, States
  <2> HIDE DEF b
  <2>2. a.nonce # "only_nodes"
    BY <1>3 DEF IndexFits, HandingOver
  <2>3. isFresh => sent = << Item("my_info", 0), Item("uidata", 0) >> /\ a.index = 0
    BY <1>3, <2>2 DEF ConfigInOrder, HandingOver, SoFar, IndexFits
  <2>4. IndexFits(b, isFresh)
    BY <1>3, <2>1, <2>2, Constants DEF IndexFits, HandingOver, IndexInRange
  <2>5. isFresh => sent \o One("metadata", 0) = SoFar(b)
    <3>1. isFresh => b.index - 1 = -1
      BY <2>1, <2>3
    <3> QED
      BY <2>1, <2>3, <3>1, NextItem DEF SoFar
  <2>6. ConfigInOrder(b, isFresh, sent \o One("metadata", 0))
    BY <2>1, <2>2, <2>5 DEF ConfigInOrder
  <2>7. Sends(a, isFresh, sent, b, One("metadata", 0))
    BY <1>0, <2>1, <2>4, <2>6 DEF Sends, HandingOver
  <2> QED
    BY <1>3, <2>7 DEF b
<1> QED
  BY <1>1, <1>2, <1>3

\* In the middle of a list of the configuration an index fits when it is one of the list.
LEMMA FitsList ==
    ASSUME NEW b \in ApiRecords, NEW isFresh \in BOOLEAN, b.nonce # "only_nodes",
           \/ b.state = "CHANNELS" /\ b.index < NumChannels
           \/ b.state = "CONFIG" /\ b.index \in 1..NumConfigs
           \/ b.state = "MODULECONFIG" /\ b.index \in 1..NumModules
           \/ b.state = "FILEMANIFEST" /\ b.index <= NumFiles
    PROVE  IndexFits(b, isFresh)
  BY DEF IndexFits, HandingOver, IndexInRange

\* What counting on to the next entry of a list, or to the next list, makes of the record.
LEMMA CountResult ==
    ASSUME NEW a \in ApiRecords, NEW last \in Int, last <= MaxIndex, NEW state \in States,
           NEW first \in 0..MaxIndex, NEW b, b = Count(a, last, state, first)
    PROVE  /\ b \in ApiRecords /\ b.nonce = a.nonce /\ b.read = a.read
           /\ a.index >= last => b.state = state /\ b.index = first
           /\ ~ (a.index >= last) => b.state = a.state /\ b.index = a.index + 1
<1>0. a.index \in 0..MaxIndex /\ MaxIndex \in Nat
  BY Constants DEF ApiRecords
<1>1. CASE a.index >= last
  <2>1. b = [a EXCEPT !.state = state, !.index = first]
    BY <1>1 DEF Count
  <2> QED
    BY <1>1, <2>1 DEF ApiRecords
<1>2. CASE ~ (a.index >= last)
  <2>1. b = [a EXCEPT !.index = @ + 1]
    BY <1>2 DEF Count
  <2>2. a.index + 1 \in 0..MaxIndex
    BY <1>0, <1>2
  <2> QED
    BY <1>2, <2>1, <2>2 DEF ApiRecords
<1> QED
  BY <1>1, <1>2

\* Another channel goes out; after the last one come the sections of the configuration.
LEMMA SendsChannel ==
    ASSUME NEW a \in ApiRecords, NEW isFresh \in BOOLEAN, NEW sent \in Seq(Items),
           IndexFits(a, isFresh), ConfigInOrder(a, isFresh, sent), a.state = "CHANNELS"
    PROVE  Sends(a, isFresh, sent, Count(a, NumChannels - 1, "CONFIG", 1), One("channel", a.index))
<1> DEFINE b == Count(a, NumChannels - 1, "CONFIG", 1)
           item == One("channel", a.index)
<1>0. /\ a.index \in 0..MaxIndex /\ a.nonce # "only_nodes" /\ item \in Seq(Items)
      /\ isFresh => a.index < NumChannels /\ sent = ChannelsTo(a.index - 1)
  <2>1. a.index \in 0..MaxIndex /\ a.nonce # "only_nodes"
    BY DEF ApiRecords, IndexFits, HandingOver
  <2>2. item \in Seq(Items)
    BY <2>1, ItemTypes DEF Kinds
  <2>3. isFresh => a.index < NumChannels /\ sent = ChannelsTo(a.index - 1)
    BY <2>1 DEF IndexFits, ConfigInOrder, HandingOver, SoFar
  <2> QED
    BY <2>1, <2>2, <2>3
<1>1. isFresh => sent \o item = ChannelsTo(a.index)
  BY <1>0, NextItem
<1>a. /\ NumChannels - 1 \in Int /\ NumChannels - 1 <= MaxIndex /\ "CONFIG" \in States
      /\ 1 \in 0..MaxIndex
  BY Constants DEF States, MaxIndex
<1>b. /\ b \in ApiRecords /\ b.nonce = a.nonce /\ b.read = a.read
      /\ a.index >= NumChannels - 1 => b.state = "CONFIG" /\ b.index = 1
      /\ ~ (a.index >= NumChannels - 1) => b.state = a.state /\ b.index = a.index + 1
  <2>1. b = Count(a, NumChannels - 1, "CONFIG", 1)
    OBVIOUS
  <2> HIDE DEF b
  <2> QED
    BY <1>a, <2>1, CountResult
<1> HIDE DEF item, b
<1>2. CASE a.index >= NumChannels - 1
  <2>1. /\ b \in ApiRecords /\ b.state = "CONFIG" /\ b.index = 1 /\ b.nonce = a.nonce
        /\ b.read = a.read
    BY <1>2, <1>b
  <2>2. isFresh => a.index = NumChannels - 1
    BY <1>0, <1>2, Constants
  <2>3. isFresh => sent \o item = ConfigsTo(b.index - 1)
    <3>1. b.index - 1 = 0
      BY <2>1
    <3>2. ConfigsTo(0) = ChannelsTo(NumChannels - 1)
      BY NextItem
    <3> QED
      BY <1>1, <2>2, <3>1, <3>2
  <2>4. IndexFits(b, isFresh)
    BY <1>0, <2>1, Constants DEF IndexFits, HandingOver, IndexInRange
  <2>5. ConfigInOrder(b, isFresh, sent \o item)
    BY <1>0, <2>1, <2>3 DEF ConfigInOrder, SoFar
  <2>6. Sends(a, isFresh, sent, b, item)
    BY <1>0, <2>1, <2>4, <2>5 DEF Sends, HandingOver
  <2> QED
    BY <2>6 DEF b, item
<1>3. CASE ~ (a.index >= NumChannels - 1)
  <2>1. /\ b \in ApiRecords /\ b.state = "CHANNELS" /\ b.index = a.index + 1
        /\ b.nonce = a.nonce /\ b.read = a.read
    BY <1>3, <1>b
  <2>3. isFresh => sent \o item = ChannelsTo(b.index - 1)
    <3>1. b.index - 1 = a.index
      BY <1>0, <2>1
    <3> QED
      BY <1>1, <3>1
  <2>2. b.index < NumChannels
    BY <1>0, <1>3, <2>1, Constants
  <2>4. IndexFits(b, isFresh)
    BY <1>0, <2>1, <2>2, FitsList
  <2>5. ConfigInOrder(b, isFresh, sent \o item)
    BY <1>0, <2>1, <2>3 DEF ConfigInOrder, SoFar
  <2>6. Sends(a, isFresh, sent, b, item)
    BY <1>0, <2>1, <2>4, <2>5 DEF Sends, HandingOver
  <2> QED
    BY <2>6 DEF b, item
<1> QED
  BY <1>2, <1>3 DEF b, item

\* Another section goes out; after the last one come the modules.
LEMMA SendsConfig ==
    ASSUME NEW a \in ApiRecords, NEW isFresh \in BOOLEAN, NEW sent \in Seq(Items),
           IndexFits(a, isFresh), ConfigInOrder(a, isFresh, sent), a.state = "CONFIG"
    PROVE  Sends(a, isFresh, sent, Count(a, NumConfigs, "MODULECONFIG", 1), One("config", a.index))
<1> DEFINE b == Count(a, NumConfigs, "MODULECONFIG", 1)
           item == One("config", a.index)
<1>0. /\ a.index \in 1..NumConfigs /\ a.index \in 1..MaxIndex /\ a.nonce # "only_nodes"
      /\ item \in Seq(Items)
      /\ isFresh => sent = ConfigsTo(a.index - 1)
  <2>1. a.index \in 1..NumConfigs /\ a.nonce # "only_nodes"
    BY DEF IndexFits, IndexInRange, HandingOver
  <2>2. a.index \in 1..MaxIndex /\ a.index \in 0..MaxIndex
    BY <2>1, Constants DEF MaxIndex
  <2>3. item \in Seq(Items)
    BY <2>2, ItemTypes DEF Kinds
  <2>4. isFresh => sent = ConfigsTo(a.index - 1)
    BY <2>1 DEF ConfigInOrder, HandingOver, SoFar
  <2> QED
    BY <2>1, <2>2, <2>3, <2>4
<1>1. isFresh => sent \o item = ConfigsTo(a.index)
  BY <1>0, NextItem
<1>a. /\ NumConfigs \in Int /\ NumConfigs <= MaxIndex /\ "MODULECONFIG" \in States
      /\ 1 \in 0..MaxIndex
  BY Constants DEF States, MaxIndex
<1>b. /\ b \in ApiRecords /\ b.nonce = a.nonce /\ b.read = a.read
      /\ a.index >= NumConfigs => b.state = "MODULECONFIG" /\ b.index = 1
      /\ ~ (a.index >= NumConfigs) => b.state = a.state /\ b.index = a.index + 1
  <2>1. b = Count(a, NumConfigs, "MODULECONFIG", 1)
    OBVIOUS
  <2> HIDE DEF b
  <2> QED
    BY <1>a, <2>1, CountResult
<1> HIDE DEF item, b
<1>2. CASE a.index >= NumConfigs
  <2>1. /\ b \in ApiRecords /\ b.state = "MODULECONFIG" /\ b.index = 1 /\ b.nonce = a.nonce
        /\ b.read = a.read
    BY <1>2, <1>b
  <2>3. isFresh => sent \o item = ModulesTo(b.index - 1)
    <3>1. b.index - 1 = 0 /\ a.index = NumConfigs
      BY <1>0, <1>2, <2>1, Constants
    <3>2. ModulesTo(0) = ConfigsTo(NumConfigs)
      BY NextItem
    <3> QED
      BY <1>1, <3>1, <3>2
  <2>4. IndexFits(b, isFresh)
    BY <1>0, <2>1, Constants DEF IndexFits, HandingOver, IndexInRange
  <2>5. ConfigInOrder(b, isFresh, sent \o item)
    BY <1>0, <2>1, <2>3 DEF ConfigInOrder, SoFar
  <2>6. Sends(a, isFresh, sent, b, item)
    BY <1>0, <2>1, <2>4, <2>5 DEF Sends, HandingOver
  <2> QED
    BY <2>6 DEF b, item
<1>3. CASE ~ (a.index >= NumConfigs)
  <2>1. /\ b \in ApiRecords /\ b.state = "CONFIG" /\ b.index = a.index + 1
        /\ b.nonce = a.nonce /\ b.read = a.read
    BY <1>3, <1>b
  <2>3. isFresh => sent \o item = ConfigsTo(b.index - 1)
    <3>1. b.index - 1 = a.index
      BY <1>0, <2>1, Constants
    <3> QED
      BY <1>1, <3>1
  <2>2. b.index \in 1..NumConfigs
    BY <1>0, <1>3, <2>1, Constants
  <2>4. IndexFits(b, isFresh)
    BY <1>0, <2>1, <2>2, FitsList
  <2>5. ConfigInOrder(b, isFresh, sent \o item)
    BY <1>0, <2>1, <2>3 DEF ConfigInOrder, SoFar
  <2>6. Sends(a, isFresh, sent, b, item)
    BY <1>0, <2>1, <2>4, <2>5 DEF Sends, HandingOver
  <2> QED
    BY <2>6 DEF b, item
<1> QED
  BY <1>2, <1>3 DEF b, item

\* After the last module come the nodes, or the files at once.
LEMMA SendsModule ==
    ASSUME NEW a \in ApiRecords, NEW isFresh \in BOOLEAN, NEW sent \in Seq(Items),
           IndexFits(a, isFresh), ConfigInOrder(a, isFresh, sent), a.state = "MODULECONFIG",
           NEW after, after = IF a.nonce = "only_config" THEN "FILEMANIFEST" ELSE "OTHER_NODEINFOS"
    PROVE  /\ Sends(a, isFresh, sent, Count(a, NumModules, after, 0), One("module", a.index))
           /\ Count(a, NumModules, after, 0).state = "FILEMANIFEST" => a.nonce = "only_config"
<1> DEFINE b == Count(a, NumModules, after, 0)
           item == One("module", a.index)
<1>0. /\ a.index \in 1..NumModules /\ a.index \in 1..MaxIndex /\ a.nonce # "only_nodes"
      /\ item \in Seq(Items)
      /\ isFresh => sent = ModulesTo(a.index - 1)
  <2>1. a.index \in 1..NumModules /\ a.nonce # "only_nodes"
    BY DEF IndexFits, IndexInRange, HandingOver
  <2>2. a.index \in 1..MaxIndex /\ a.index \in 0..MaxIndex
    BY <2>1, Constants DEF MaxIndex
  <2>3. item \in Seq(Items)
    BY <2>2, ItemTypes DEF Kinds
  <2>4. isFresh => sent = ModulesTo(a.index - 1)
    BY <2>1 DEF ConfigInOrder, HandingOver, SoFar
  <2> QED
    BY <2>1, <2>2, <2>3, <2>4
<1>1. isFresh => sent \o item = ModulesTo(a.index)
  BY <1>0, NextItem
<1>a. /\ NumModules \in Int /\ NumModules <= MaxIndex /\ after \in States
      /\ 0 \in 0..MaxIndex
  BY Constants DEF States, MaxIndex
<1>b. /\ b \in ApiRecords /\ b.nonce = a.nonce /\ b.read = a.read
      /\ a.index >= NumModules => b.state = after /\ b.index = 0
      /\ ~ (a.index >= NumModules) => b.state = a.state /\ b.index = a.index + 1
  <2>1. b = Count(a, NumModules, after, 0)
    OBVIOUS
  <2> HIDE DEF b
  <2> QED
    BY <1>a, <2>1, CountResult
<1> HIDE DEF item, b
<1>2. CASE a.index >= NumModules
  <2>1. /\ b \in ApiRecords /\ b.state = after /\ b.index = 0 /\ b.nonce = a.nonce
        /\ b.read = a.read
    BY <1>2, <1>b
  <2>2. isFresh => sent \o item = ModulesTo(NumModules)
    <3>1. a.index = NumModules
      BY <1>0, <1>2, Constants
    <3> QED
      BY <1>1, <3>1
  <2>3. isFresh => sent \o item = FilesTo(b.index - 1)
    <3>1. b.index - 1 = -1
      BY <2>1
    <3>2. FilesTo(-1) = ModulesTo(NumModules)
      BY NextItem
    <3> QED
      BY <2>2, <3>1, <3>2
  <2>4. IndexFits(b, isFresh)
    BY <1>0, <2>1, Constants DEF IndexFits, HandingOver, IndexInRange
  <2>5. ConfigInOrder(b, isFresh, sent \o item)
    BY <1>0, <2>1, <2>2, <2>3 DEF ConfigInOrder, SoFar
  <2>6. Sends(a, isFresh, sent, b, item) /\ (b.state = "FILEMANIFEST" => a.nonce = "only_config")
    BY <1>0, <2>1, <2>4, <2>5 DEF Sends, HandingOver
  <2> QED
    BY <2>6 DEF b, item
<1>3. CASE ~ (a.index >= NumModules)
  <2>1. /\ b \in ApiRecords /\ b.state = "MODULECONFIG" /\ b.index = a.index + 1
        /\ b.nonce = a.nonce /\ b.read = a.read
    BY <1>3, <1>b
  <2>3. isFresh => sent \o item = ModulesTo(b.index - 1)
    <3>1. b.index - 1 = a.index
      BY <1>0, <2>1, Constants
    <3> QED
      BY <1>1, <3>1
  <2>2. b.index \in 1..NumModules
    BY <1>0, <1>3, <2>1, Constants
  <2>4. IndexFits(b, isFresh)
    BY <1>0, <2>1, <2>2, FitsList
  <2>5. ConfigInOrder(b, isFresh, sent \o item)
    BY <1>0, <2>1, <2>3 DEF ConfigInOrder, SoFar
  <2>6. Sends(a, isFresh, sent, b, item) /\ (b.state = "FILEMANIFEST" => a.nonce = "only_config")
    BY <1>0, <2>1, <2>4, <2>5 DEF Sends, HandingOver
  <2> QED
    BY <2>6 DEF b, item
<1> QED
  BY <1>2, <1>3 DEF b, item

\* A manifest that is not over: a file goes out; it starts when the nodes are over.
LEMMA SendsFile ==
    ASSUME NEW a \in ApiRecords, NEW isFresh \in BOOLEAN, NEW sent \in Seq(Items),
           IndexFits(a, isFresh), ConfigInOrder(a, isFresh, sent),
           a.state \in {"OTHER_NODEINFOS", "FILEMANIFEST"}, a.index # NumFiles,
           a.nonce # "only_nodes"
    PROVE  Sends(a, isFresh, sent, [Goto(a, "FILEMANIFEST") EXCEPT !.index = @ + 1],
                 One("file", a.index))
<1> DEFINE b == [Goto(a, "FILEMANIFEST") EXCEPT !.index = @ + 1]
           item == One("file", a.index)
<1>0. a.index \in Nat /\ a.index < NumFiles /\ a.index \in 0..MaxIndex /\ a.index + 1 \in 0..MaxIndex
  <2>1. a.index \in 0..MaxIndex
    BY DEF ApiRecords
  <2>2. a.index <= NumFiles
    BY Constants DEF IndexFits, IndexInRange
  <2> QED
    BY <2>1, <2>2, Constants DEF MaxIndex
<1>1. item \in Seq(Items)
  BY <1>0, ItemTypes DEF Kinds
<1>2. isFresh => sent = FilesTo(a.index - 1)
  <2>1. CASE a.state = "OTHER_NODEINFOS"
    <3>1. a.index - 1 = -1
      BY <2>1 DEF IndexFits
    <3>2. FilesTo(-1) = ModulesTo(NumModules)
      BY NextItem
    <3>3. isFresh => sent = ModulesTo(NumModules)
      BY <2>1 DEF ConfigInOrder, HandingOver, SoFar
    <3> QED
      BY <3>1, <3>2, <3>3
  <2>2. CASE a.state = "FILEMANIFEST"
    BY <2>2 DEF ConfigInOrder, HandingOver, SoFar
  <2> QED
    BY <2>1, <2>2
<1>3. isFresh => sent \o item = FilesTo(a.index)
  BY <1>0, <1>2, NextItem
<1>4. /\ b \in ApiRecords /\ b.state = "FILEMANIFEST" /\ b.index = a.index + 1
      /\ b.nonce = a.nonce /\ b.read = a.read
  BY <1>0 DEF Goto, ApiRecords, States
<1> HIDE DEF item, b
<1>5. b.index - 1 = a.index
  BY <1>0, <1>4
<1>6. IndexFits(b, isFresh)
  <2>1. b.index <= NumFiles
    BY <1>0, <1>4, Constants
  <2> QED
    BY <1>4, <2>1, FitsList
<1>7. ConfigInOrder(b, isFresh, sent \o item)
  BY <1>3, <1>4, <1>5 DEF ConfigInOrder, SoFar
<1> QED
  BY <1>1, <1>4, <1>6, <1>7 DEF Sends, HandingOver, item, b

(***************************************************************************)
(* The steps of a phone.                                                   *)
(***************************************************************************)

\* A step that writes the record and the histories of one phone has to keep what the
\* invariant says of that phone.
LEMMA OnePhone ==
    ASSUME PhoneInv, NEW ph \in Phones,
           NEW a \in ApiRecords, api' = [api EXCEPT ![ph] = a],
           NEW h \in Histories, got' = [got EXCEPT ![ph] = h],
           fresh' \in [Phones -> BOOLEAN],
           \A p \in Phones : p # ph => fresh'[p] = fresh[p],
           NEW st \in SUBSET NodeIds, stay' = [stay EXCEPT ![ph] = st],
           HandOver(a, h, fresh'[ph], st, nodes), nodes' = nodes,
           changed' \in BOOLEAN, queue' \in 0..MaxToPhone,
           present' \subseteq Phones, told' \in [Phones -> BOOLEAN],
           starts' \in 0..MaxStarts, arrivals' \in 0..MaxArrivals,
           observers' \in Seq(Phones), Distinct(observers'),
           ToSet(observers') = {p \in Phones : api'[p].state # "NOTHING"}
    PROVE  PhoneInv'
<1>1. Types'
  BY DEF PhoneInv, Types
<1>2. Watched'
  BY DEF Watched
<1>3. NodeList'
  BY DEF PhoneInv, NodeList
<1>4. ASSUME NEW p \in Phones PROVE HandOver(api'[p], got'[p], fresh'[p], stay'[p], nodes')
  <2>1. CASE p = ph
    <3>1. api'[p] = a /\ got'[p] = h /\ stay'[p] = st
      BY <2>1 DEF PhoneInv, Types
    <3> QED
      BY <2>1, <3>1
  <2>2. CASE p # ph
    <3>1. api'[p] = api[p] /\ got'[p] = got[p] /\ fresh'[p] = fresh[p] /\ stay'[p] = stay[p]
      BY <2>2 DEF PhoneInv, Types
    <3>2. HandOver(api[p], got[p], fresh[p], stay[p], nodes)
      BY DEF PhoneInv
    <3> QED
      BY <3>1, <3>2
  <2> QED
    BY <2>1, <2>2
<1> QED
  BY <1>1, <1>2, <1>3, <1>4 DEF PhoneInv

\* What the invariant says of one phone.
LEMMA OfPhone ==
    ASSUME PhoneInv, NEW ph \in Phones
    PROVE  /\ api[ph] \in ApiRecords /\ got[ph] \in Histories /\ fresh[ph] \in BOOLEAN
           /\ stay[ph] \in SUBSET NodeIds
           /\ got[ph].config \in Seq(Items) /\ got[ph].nodes \in Seq(NodeIds)
           /\ IndexFits(api[ph], fresh[ph])
           /\ ConfigInOrder(api[ph], fresh[ph], got[ph].config)
           /\ NodesInOrder(api[ph], stay[ph], got[ph].nodes, nodes)
           /\ Delivered(api[ph].read, stay[ph], got[ph].nodes, nodes)
  BY DEF PhoneInv, Types, HandOver, NodesInOrder, Histories

\* The observers, when a phone that is connected stays so.
LEMMA StillWatched ==
    ASSUME PhoneInv, NEW ph \in Phones, NEW a, api' = [api EXCEPT ![ph] = a],
           api[ph].state # "NOTHING", a.state # "NOTHING", observers' = observers
    PROVE  /\ observers' \in Seq(Phones) /\ Distinct(observers')
           /\ ToSet(observers') = {p \in Phones : api'[p].state # "NOTHING"}
<1>1. {p \in Phones : api'[p].state # "NOTHING"} = {p \in Phones : api[p].state # "NOTHING"}
  BY DEF PhoneInv, Types
<1> QED
  BY <1>1 DEF PhoneInv, Watched

\* At boot no phone has asked for anything.
Booted ==
    /\ api = [ph \in Phones |-> Closed] /\ observers = << >>
    /\ changed = FALSE /\ queue = 0 /\ nodes \in BootLists
    /\ told = [ph \in Phones |-> FALSE]
    /\ got = [ph \in Phones |-> Nothing] /\ fresh = [ph \in Phones |-> TRUE]
    /\ stay = [ph \in Phones |-> {}]
    /\ present \subseteq Phones /\ starts \in 0..MaxStarts /\ arrivals \in 0..MaxArrivals
LEMMA BootedInv == Booted => PhoneInv
<1> SUFFICES ASSUME Booted PROVE PhoneInv
  OBVIOUS
<1>1. Closed \in ApiRecords /\ Closed.state = "NOTHING" /\ Closed.index = 0 /\ Closed.read = 0
  BY Constants DEF Closed, ApiRecords, States
<1>2. Nothing \in Histories /\ Nothing.config = << >> /\ Nothing.nodes = << >>
  BY DEF Nothing, Histories
<1>3. Types
  <2>1. api \in [Phones -> ApiRecords] /\ got \in [Phones -> Histories]
    BY <1>1, <1>2 DEF Booted
  <2>2. /\ fresh \in [Phones -> BOOLEAN] /\ told \in [Phones -> BOOLEAN]
        /\ stay \in [Phones -> SUBSET NodeIds]
    BY DEF Booted
  <2>3. changed \in BOOLEAN
    BY DEF Booted
  <2>4. queue \in 0..MaxToPhone
    BY Constants DEF Booted
  <2> QED
    BY <2>1, <2>2, <2>3, <2>4 DEF Types, Booted
<1>4. Watched
  <2>1. observers = << >> /\ \A ph \in Phones : api[ph].state = "NOTHING"
    BY <1>1 DEF Booted
  <2>2. ToSet(observers) = {}
    BY <2>1 DEF ToSet
  <2>3. Distinct(observers) /\ observers \in Seq(Phones)
    BY <2>1 DEF Distinct
  <2> QED
    BY <2>1, <2>2, <2>3 DEF Watched
<1>5. NodeList
  <2>1. PICK m \in 0..MaxNodes : nodes \in [1..m -> NodeIds \ {Blank}]
    BY DEF Booted, BootLists, SeqOf
  <2>2. nodes \in Seq(NodeIds) /\ Len(nodes) = m /\ m <= MaxNodes
    BY <2>1, Constants
  <2>3. \A i \in DOMAIN nodes : nodes[i] # Blank
    BY <2>1
  <2>4. Distinct(nodes)
    BY DEF Booted, BootLists, IsInjective, Distinct
  <2> QED
    BY <2>2, <2>3, <2>4 DEF NodeList, BlankFirst
<1>6. ASSUME NEW ph \in Phones PROVE HandOver(api[ph], got[ph], fresh[ph], stay[ph], nodes)
  <2>1. api[ph] = Closed /\ got[ph] = Nothing /\ stay[ph] = {}
    BY DEF Booted
  <2>2. IndexFits(Closed, fresh[ph])
    BY <1>1 DEF IndexFits, IndexInRange, HandingOver
  <2>3. ConfigInOrder(Closed, fresh[ph], Nothing.config)
    BY <1>1 DEF ConfigInOrder, HandingOver
  <2>4. NodesInOrder(Closed, {}, Nothing.nodes, nodes)
    BY <1>1, DeliveredNone DEF NodesInOrder
  <2> QED
    BY <2>1, <2>2, <2>3, <2>4 DEF HandOver
<1> QED
  BY <1>3, <1>4, <1>5, <1>6 DEF PhoneInv

LEMMA InitInv == Init => PhoneInv
<1>1. Init => Booted
  BY Constants DEF Init, Booted
<1> QED
  BY <1>1, BootedInv

\* A reboot leaves nothing under way, and a list as it was saved.
LEMMA RebootInv == ASSUME PhoneInv, Reboot PROVE PhoneInv'
<1>1. Booted'
  BY DEF Reboot, Booted, PhoneInv, Types
<1>2. (Booted => PhoneInv)'
  BY BootedInv, PTL
<1> QED
  BY <1>1, <1>2

\* handleStartConfig(): whatever was under way, the states start anew.
LEMMA WantConfigInv ==
    ASSUME PhoneInv, NEW ph \in Phones, NEW nonce \in Nonces, WantConfig(ph, nonce)
    PROVE  PhoneInv'
<1> DEFINE a == Started(api[ph], nonce)
<1>0. api[ph] \in ApiRecords /\ nodes \in Seq(NodeIds)
  BY OfPhone DEF PhoneInv, NodeList
<1>1. /\ a \in ApiRecords /\ a.state = IF nonce = "only_nodes" THEN "OWN_NODEINFO" ELSE "MY_INFO"
      /\ a.index = api[ph].index /\ a.nonce = nonce /\ a.read = 0
  BY <1>0, Constants DEF Started, ApiRecords, States
<1>2. Nothing \in Histories /\ Nothing.config = << >> /\ Nothing.nodes = << >>
  BY DEF Nothing, Histories
<1>f. /\ fresh' \in [Phones -> BOOLEAN] /\ \A p \in Phones : p # ph => fresh'[p] = fresh[p]
      /\ fresh'[ph] <=> api[ph].index = 0
  BY DEF WantConfig, PhoneInv, Types
<1>3. IndexFits(a, fresh'[ph])
  <2> HIDE DEF a
  <2> QED
    BY <1>1, <1>f DEF IndexFits, HandingOver, IndexInRange
<1>4. ConfigInOrder(a, fresh'[ph], Nothing.config)
  <2> HIDE DEF a
  <2> QED
    BY <1>1, <1>2 DEF ConfigInOrder, SoFar
<1>5. NodesInOrder(a, ToSet(nodes), Nothing.nodes, nodes)
  <2> HIDE DEF a
  <2> QED
    BY <1>0, <1>1, <1>2, DeliveredFirst DEF NodesInOrder, PastOwn
<1>6. ToSet(nodes) \in SUBSET NodeIds
  BY <1>0 DEF ToSet
<1>7. /\ api' = [api EXCEPT ![ph] = a] /\ got' = [got EXCEPT ![ph] = Nothing]
      /\ stay' = [stay EXCEPT ![ph] = ToSet(nodes)]
  BY DEF WantConfig
<1>8. /\ observers' \in Seq(Phones) /\ Distinct(observers')
      /\ ToSet(observers') = {p \in Phones : api'[p].state # "NOTHING"}
  <2>1. a.state # "NOTHING"
    BY <1>1
  <2> HIDE DEF a
  <2>2. CASE Connected(ph)
    <3>1. observers' = observers /\ api[ph].state # "NOTHING"
      BY <2>2 DEF WantConfig, Connected
    <3> QED
      BY <1>7, <2>1, <3>1, StillWatched
  <2>3. CASE ~ Connected(ph)
    <3>1. observers' = Append(observers, ph) /\ api[ph].state = "NOTHING"
      BY <2>3 DEF WantConfig, Connected
    <3>2. /\ observers \in Seq(Phones) /\ Distinct(observers)
          /\ ToSet(observers) = {p \in Phones : api[p].state # "NOTHING"}
      BY DEF PhoneInv, Watched
    <3> DEFINE obs == Append(observers, ph)
    <3>3. /\ obs \in Seq(Phones) /\ DOMAIN obs = 1..(Len(observers) + 1)
          /\ DOMAIN observers = 1..Len(observers) /\ Len(observers) \in Nat
          /\ (\A i \in 1..Len(observers) : obs[i] = observers[i])
          /\ obs[Len(observers) + 1] = ph
      BY <3>2
    <3> HIDE DEF obs
    <3>4. \A i \in DOMAIN observers : observers[i] # ph
      BY <3>1, <3>2 DEF ToSet
    <3>5. Distinct(obs)
      BY <3>2, <3>3, <3>4 DEF Distinct
    <3>6. ToSet(obs) = ToSet(observers) \cup {ph}
      BY <3>3 DEF ToSet
    <3>7. {p \in Phones : api'[p].state # "NOTHING"}
          = {p \in Phones : api[p].state # "NOTHING"} \cup {ph}
      BY <1>7, <2>1 DEF PhoneInv, Types
    <3> QED
      BY <3>1, <3>2, <3>3, <3>5, <3>6, <3>7 DEF obs
  <2> QED
    BY <2>2, <2>3
<1>9. /\ nodes' = nodes /\ changed' \in BOOLEAN
      /\ queue' \in 0..MaxToPhone /\ present' \subseteq Phones
      /\ told' \in [Phones -> BOOLEAN] /\ arrivals' \in 0..MaxArrivals
      /\ starts' \in 0..MaxStarts
  BY Constants DEF WantConfig, PhoneInv, Types
<1>10. HandOver(a, Nothing, fresh'[ph], ToSet(nodes), nodes)
  <2> HIDE DEF a
  <2> QED
    BY <1>3, <1>4, <1>5 DEF HandOver
<1> HIDE DEF a
<1>11. a \in ApiRecords /\ Nothing \in Histories
  BY <1>1, <1>2
<1> QED
  BY <1>f, <1>6, <1>7, <1>8, <1>9, <1>10, <1>11, OnePhone

\* close(): nothing is promised to the phone any more.
LEMMA CloseInv ==
    ASSUME PhoneInv, NEW ph \in Phones, NEW now \in [Phones -> BOOLEAN], Close(ph, now),
           changed' \in BOOLEAN,
           UNCHANGED << queue, nodes, present, starts, arrivals >>
    PROVE  PhoneInv'
<1>1. Closed \in ApiRecords /\ Closed.state = "NOTHING" /\ Closed.index = 0 /\ Closed.read = 0
  BY Constants DEF Closed, ApiRecords, States
<1>2. Nothing \in Histories /\ Nothing.config = << >> /\ Nothing.nodes = << >>
  BY DEF Nothing, Histories
<1>3. HandOver(Closed, Nothing, fresh'[ph], {}, nodes)
  <2>1. IndexFits(Closed, fresh'[ph])
    BY <1>1 DEF IndexFits, IndexInRange, HandingOver
  <2>2. ConfigInOrder(Closed, fresh'[ph], Nothing.config)
    BY <1>1 DEF ConfigInOrder, HandingOver
  <2>3. NodesInOrder(Closed, {}, Nothing.nodes, nodes)
    BY <1>1, DeliveredNone DEF NodesInOrder
  <2> QED
    BY <2>1, <2>2, <2>3 DEF HandOver
<1>4. /\ api' = [api EXCEPT ![ph] = Closed] /\ got' = [got EXCEPT ![ph] = Nothing]
      /\ stay' = [stay EXCEPT ![ph] = {}] /\ told' \in [Phones -> BOOLEAN]
  BY DEF Close
<1>f. /\ fresh' \in [Phones -> BOOLEAN] /\ \A p \in Phones : p # ph => fresh'[p] = fresh[p]
  BY DEF Close, PhoneInv, Types
<1>5. /\ observers' \in Seq(Phones) /\ Distinct(observers')
      /\ ToSet(observers') = {p \in Phones : api'[p].state # "NOTHING"}
  <2>1. observers' = RemoveFirst(observers, ph)
    BY DEF Close
  <2>2. /\ observers \in Seq(Phones) /\ Distinct(observers)
        /\ ToSet(observers) = {p \in Phones : api[p].state # "NOTHING"}
    BY DEF PhoneInv, Watched
  <2>3. {p \in Phones : api'[p].state # "NOTHING"}
        = {p \in Phones : api[p].state # "NOTHING"} \ {ph}
    BY <1>1, <1>4 DEF PhoneInv, Types
  <2> QED
    BY <2>1, <2>2, <2>3, RemoveFirstResult
<1>6. /\ queue' \in 0..MaxToPhone /\ present' \subseteq Phones
      /\ starts' \in 0..MaxStarts /\ arrivals' \in 0..MaxArrivals
  BY DEF PhoneInv, Types
<1>7. Closed \in ApiRecords /\ Nothing \in Histories /\ {} \in SUBSET NodeIds
  BY <1>1, <1>2
<1>8. nodes' = nodes
  BY DEF Close, PhoneInv, Types
<1> QED
  BY <1>3, <1>4, <1>f, <1>5, <1>6, <1>7, <1>8, OnePhone

\* An item of the configuration goes out.
LEMMA SendInv ==
    ASSUME PhoneInv, NEW ph \in Phones, UNCHANGED Handing, NEW b, NEW items,
           Send(ph, items, b), HandingOver(api[ph]),
           NEW a, Sends(a, fresh[ph], got[ph].config, b, items),
           NodesInOrder(b, stay[ph], got[ph].nodes, nodes)
    PROVE  PhoneInv'
<1> DEFINE h == [got[ph] EXCEPT !.config = @ \o items]
<1>1. /\ got[ph] \in Histories /\ got[ph].config \in Seq(Items)
      /\ stay[ph] \in SUBSET NodeIds
  BY OfPhone
<1>2. /\ b \in ApiRecords /\ items \in Seq(Items)
      /\ IndexFits(b, fresh[ph]) /\ ConfigInOrder(b, fresh[ph], got[ph].config \o items)
      /\ b.state # "NOTHING" /\ api[ph].state # "NOTHING"
  BY DEF Sends, HandingOver
<1>3. h \in Histories /\ h.config = got[ph].config \o items /\ h.nodes = got[ph].nodes
  <2>1. got[ph].config \o items \in Seq(Items)
    BY <1>1, <1>2, ConcatProperties
  <2> QED
    BY <1>1, <2>1 DEF Histories
<1>4. api' = [api EXCEPT ![ph] = b] /\ got' = [got EXCEPT ![ph] = h]
  BY <1>1 DEF Send, PhoneInv, Types, Histories
<1> HIDE DEF h
<1>5. HandOver(b, h, fresh'[ph], stay[ph], nodes)
  <2>1. fresh'[ph] = fresh[ph]
    BY DEF Send
  <2>2. NodesInOrder(b, stay[ph], h.nodes, nodes)
    BY <1>3
  <2> QED
    BY <1>2, <1>3, <2>1, <2>2 DEF HandOver
<1>6. /\ fresh' \in [Phones -> BOOLEAN] /\ \A p \in Phones : p # ph => fresh'[p] = fresh[p]
  BY DEF Send, PhoneInv, Types
<1>7. stay' = [stay EXCEPT ![ph] = stay[ph]]
  BY DEF Send, PhoneInv, Types
<1>8. /\ observers' \in Seq(Phones) /\ Distinct(observers')
      /\ ToSet(observers') = {p \in Phones : api'[p].state # "NOTHING"}
  BY <1>2, <1>4, StillWatched DEF Send
<1>9. /\ nodes' = nodes /\ changed' \in BOOLEAN
      /\ queue' \in 0..MaxToPhone /\ present' \subseteq Phones
      /\ told' \in [Phones -> BOOLEAN] /\ arrivals' \in 0..MaxArrivals
      /\ starts' \in 0..MaxStarts
  BY DEF Send, Handing, PhoneInv, Types
<1>10. b \in ApiRecords /\ h \in Histories /\ stay[ph] \in SUBSET NodeIds
  BY <1>1, <1>2, <1>3
<1> QED
  BY <1>4, <1>5, <1>6, <1>7, <1>8, <1>9, <1>10, OnePhone

\* readNextMeshNode(), and the phone's next state b.
LEMMA SendNodeInv ==
    ASSUME PhoneInv, NEW ph \in Phones, UNCHANGED Handing, NEW b \in ApiRecords, NEW us,
           us = ReadNextMeshNode(api[ph]), SendNode(ph, us, b),
           b.read = api[ph].read + Len(us),
           HandingOver(api[ph]), HandingOver(b), b.state # "FILEMANIFEST",
           IndexFits(b, fresh[ph]), ConfigInOrder(b, fresh[ph], got[ph].config)
    PROVE  PhoneInv'
<1> DEFINE h == [got[ph] EXCEPT !.nodes = @ \o us]
           r == api[ph].read
<1>1. /\ got[ph] \in Histories /\ got[ph].nodes \in Seq(NodeIds)
      /\ Delivered(r, stay[ph], got[ph].nodes, nodes) /\ stay[ph] \in SUBSET NodeIds
      /\ r \in Nat
  BY OfPhone DEF ApiRecords
<1>2. nodes \in Seq(NodeIds) /\ Distinct(nodes)
  BY DEF PhoneInv, NodeList
<1>3. us \in Seq(NodeIds) /\ Delivered(b.read, stay[ph], got[ph].nodes \o us, nodes)
  <2>1. CASE r < Len(nodes)
    <3>1. us = << nodes[r + 1] >> /\ nodes[r + 1] \in NodeIds
      BY <1>1, <1>2, <2>1 DEF ReadNextMeshNode
    <3>2. b.read = r + 1
      BY <3>1
    <3>3. Delivered(r + 1, stay[ph], got[ph].nodes \o << nodes[r + 1] >>, nodes)
      BY <1>1, <1>2, <2>1, DeliveredNext
    <3> QED
      BY <3>1, <3>2, <3>3
  <2>2. CASE ~ (r < Len(nodes))
    <3>1. us = << >>
      BY <2>2 DEF ReadNextMeshNode
    <3>2. b.read = r /\ got[ph].nodes \o us = got[ph].nodes
      BY <1>1, <3>1, ConcatEmptySeq
    <3> QED
      BY <1>1, <3>1, <3>2
  <2> QED
    BY <2>1, <2>2
<1>e. b.read = 0 => stay[ph] = {}
  <2>1. ASSUME b.read = 0 PROVE nodes = << >>
    <3>1. ~ (r < Len(nodes))
      <4>1. ASSUME r < Len(nodes) PROVE Len(us) = 1
        <5>1. us = << nodes[r + 1] >>
          BY <4>1 DEF ReadNextMeshNode
        <5> QED
          BY <5>1
      <4>2. b.read = r + Len(us)
        OBVIOUS
      <4>3. r + 1 # 0
        BY <1>1
      <4> HIDE DEF r
      <4>4. ASSUME r < Len(nodes) PROVE FALSE
        BY <2>1, <4>1, <4>2, <4>3, <4>4
      <4> QED
        BY <4>4
    <3>2. us = << >> /\ r = 0
      BY <1>1, <2>1, <3>1 DEF ReadNextMeshNode
    <3> QED
      BY <1>2, <3>1, <3>2
  <2>2. nodes = << >> => ToSet(nodes) = {}
    BY DEF ToSet
  <2> QED
    BY <1>1, <2>1, <2>2 DEF Delivered
<1>4. h \in Histories /\ h.config = got[ph].config /\ h.nodes = got[ph].nodes \o us
  <2>1. got[ph].nodes \o us \in Seq(NodeIds)
    BY <1>1, <1>3, ConcatProperties
  <2> QED
    BY <1>1, <2>1 DEF Histories
<1>5. api' = [api EXCEPT ![ph] = b] /\ got' = [got EXCEPT ![ph] = h]
  BY <1>1 DEF SendNode, PhoneInv, Types, Histories
<1> HIDE DEF h, r
<1>6. HandOver(b, h, fresh'[ph], stay[ph], nodes)
  <2>1. fresh'[ph] = fresh[ph]
    BY DEF SendNode
  <2>2. NodesInOrder(b, stay[ph], h.nodes, nodes)
    BY <1>3, <1>4, <1>e DEF NodesInOrder
  <2> QED
    BY <1>4, <2>1, <2>2 DEF HandOver
<1>7. /\ fresh' \in [Phones -> BOOLEAN] /\ \A p \in Phones : p # ph => fresh'[p] = fresh[p]
  BY DEF SendNode, PhoneInv, Types
<1>8. stay' = [stay EXCEPT ![ph] = stay[ph]]
  BY DEF SendNode, PhoneInv, Types
<1>9. /\ observers' \in Seq(Phones) /\ Distinct(observers')
      /\ ToSet(observers') = {p \in Phones : api'[p].state # "NOTHING"}
  <2>1. api[ph].state # "NOTHING" /\ b.state # "NOTHING" /\ observers' = observers
    BY DEF HandingOver, SendNode
  <2> QED
    BY <1>5, <2>1, StillWatched
<1>10. /\ nodes' = nodes /\ changed' \in BOOLEAN
       /\ queue' \in 0..MaxToPhone /\ present' \subseteq Phones
       /\ told' \in [Phones -> BOOLEAN] /\ arrivals' \in 0..MaxArrivals
       /\ starts' \in 0..MaxStarts
  BY DEF SendNode, Handing, PhoneInv, Types
<1>11. b \in ApiRecords /\ h \in Histories /\ stay[ph] \in SUBSET NodeIds
  BY <1>1, <1>4
<1> QED
  BY <1>5, <1>6, <1>7, <1>8, <1>9, <1>10, <1>11, OnePhone

\* sendConfigComplete()
LEMMA CompleteInv ==
    ASSUME PhoneInv, NEW ph \in Phones, UNCHANGED Handing, NEW a \in ApiRecords,
           Complete(ph, a), HandingOver(api[ph])
    PROVE  PhoneInv'
<1> DEFINE b == [a EXCEPT !.state = "PACKETS", !.index = 0, !.nonce = NoNonce]
<1>1. b \in ApiRecords /\ b.state = "PACKETS" /\ b.index = 0
  <2>1. 0 \in 0..MaxIndex
    BY Constants
  <2> QED
    BY <2>1 DEF ApiRecords, States
<1>2. Nothing \in Histories /\ Nothing.config = << >> /\ Nothing.nodes = << >>
  BY DEF Nothing, Histories
<1>3. /\ api' = [api EXCEPT ![ph] = b] /\ got' = [got EXCEPT ![ph] = Nothing]
      /\ stay' = [stay EXCEPT ![ph] = {}]
  BY DEF Complete
<1> HIDE DEF b
<1>4. HandOver(b, Nothing, fresh'[ph], {}, nodes)
  <2>1. IndexFits(b, fresh'[ph])
    BY <1>1 DEF IndexFits, IndexInRange, HandingOver
  <2>2. ConfigInOrder(b, fresh'[ph], Nothing.config)
    BY <1>1 DEF ConfigInOrder, HandingOver
  <2>3. NodesInOrder(b, {}, Nothing.nodes, nodes)
    BY <1>1, DeliveredNone DEF NodesInOrder
  <2> QED
    BY <2>1, <2>2, <2>3 DEF HandOver
<1>5. /\ fresh' \in [Phones -> BOOLEAN] /\ \A p \in Phones : p # ph => fresh'[p] = fresh[p]
  BY DEF Complete, PhoneInv, Types
<1>6. /\ observers' \in Seq(Phones) /\ Distinct(observers')
      /\ ToSet(observers') = {p \in Phones : api'[p].state # "NOTHING"}
  <2>1. api[ph].state # "NOTHING" /\ b.state # "NOTHING" /\ observers' = observers
    BY <1>1 DEF HandingOver, Complete
  <2> QED
    BY <1>3, <2>1, StillWatched
<1>7. /\ nodes' = nodes /\ changed' \in BOOLEAN
      /\ queue' \in 0..MaxToPhone /\ present' \subseteq Phones
      /\ told' \in [Phones -> BOOLEAN] /\ arrivals' \in 0..MaxArrivals
      /\ starts' \in 0..MaxStarts
  BY DEF Complete, Handing, PhoneInv, Types
<1>8. b \in ApiRecords /\ Nothing \in Histories /\ {} \in SUBSET NodeIds
  BY <1>1, <1>2
<1> QED
  BY <1>3, <1>4, <1>5, <1>6, <1>7, <1>8, OnePhone

\* getFromRadio() in STATE_SEND_MY_INFO: the assertion holds, or the node reboots.
LEMMA MyInfoInv ==
    ASSUME PhoneInv, NEW ph \in Phones, MyInfo(ph) PROVE PhoneInv'
<1> DEFINE a == api[ph]
           b == Goto(a, "UIDATA")
<1>1. CASE Us \in ToSet(nodes)
  <2>1. a.state = "MY_INFO" /\ Send(ph, One("my_info", 0), b) /\ UNCHANGED Handing
    BY <1>1 DEF MyInfo
  <2>2. /\ a \in ApiRecords /\ fresh[ph] \in BOOLEAN /\ got[ph].config \in Seq(Items)
        /\ IndexFits(a, fresh[ph]) /\ ConfigInOrder(a, fresh[ph], got[ph].config)
        /\ NodesInOrder(a, stay[ph], got[ph].nodes, nodes)
    BY OfPhone
  <2>3. Sends(a, fresh[ph], got[ph].config, b, One("my_info", 0))
    BY <2>1, <2>2, SendsFixed
  <2>4. b.state = "UIDATA"
    BY <2>2 DEF Goto, ApiRecords
  <2>5. NodesInOrder(b, stay[ph], got[ph].nodes, nodes)
    <3>1. b.read = a.read
      BY <2>3 DEF Sends
    <3> HIDE DEF b
    <3> QED
      BY <2>2, <2>4, <3>1, NoNode DEF PastOwn
  <2>6. HandingOver(a)
    BY <2>1 DEF HandingOver
  <2> HIDE DEF b
  <2> QED
    BY <2>1, <2>3, <2>5, <2>6, SendInv
<1>2. CASE Us \notin ToSet(nodes)
  BY <1>2, RebootInv DEF MyInfo
<1> QED
  BY <1>1, <1>2

\* An entry of zeros among the other nodes is the first of a list that was empty.
LEMMA ReadToTheEnd ==
    ASSUME PhoneInv, NEW ph \in Phones, PastOwn(api[ph]),
           ReadNextMeshNode(api[ph]) \in {<< >>, << Blank >>}
    PROVE  \A r \in Nat : r >= api[ph].read => ReadAll(r, stay[ph], nodes)
<1> DEFINE a == api[ph]
<1>1. /\ a.read \in Nat /\ nodes \in Seq(NodeIds) /\ BlankFirst(nodes)
      /\ NodesInOrder(a, stay[ph], got[ph].nodes, nodes)
  BY OfPhone DEF PhoneInv, NodeList, ApiRecords
<1>2. CASE a.read < Len(nodes)
  <2>1. ReadNextMeshNode(a) = << nodes[a.read + 1] >> /\ << nodes[a.read + 1] >> # << >>
    BY <1>2 DEF ReadNextMeshNode
  <2>2. nodes[a.read + 1] = Blank /\ a.read + 1 \in DOMAIN nodes
    BY <1>1, <1>2, <2>1
  <2>3. a.read = 0
    BY <1>1, <2>2 DEF BlankFirst
  <2>4. stay[ph] = {}
    BY <1>1, <2>3 DEF NodesInOrder
  <2> QED
    BY <2>4 DEF ReadAll
<1>3. CASE ~ (a.read < Len(nodes))
  <2>1. \A r \in Nat : r >= a.read => \A j \in DOMAIN nodes : j <= r
    BY <1>1, <1>3
  <2> QED
    BY <2>1 DEF ReadAll
<1> QED
  BY <1>2, <1>3

\* getFromRadio() in the rest of the handshake.
LEMMA HandshakeInv ==
    ASSUME PhoneInv, NEW ph \in Phones, Handshake(ph) PROVE PhoneInv'
<1> DEFINE a == api[ph]
           us == ReadNextMeshNode(a)
           b == [a EXCEPT !.read = @ + Len(us)]
           sent == got[ph].config
           f == fresh[ph]
<1>0. /\ a \in ApiRecords /\ f \in BOOLEAN /\ sent \in Seq(Items)
      /\ IndexFits(a, f) /\ ConfigInOrder(a, f, sent)
      /\ NodesInOrder(a, stay[ph], got[ph].nodes, nodes) /\ UNCHANGED Handing
  BY OfPhone DEF Handshake
<1>r. /\ Len(us) \in {0, 1} /\ a.read + Len(us) \in 0..MaxNodes
  <2>1. a.read \in 0..MaxNodes /\ Len(nodes) \in 0..MaxNodes /\ MaxNodes \in Nat
    BY <1>0, Constants DEF ApiRecords, PhoneInv, NodeList
  <2>2. CASE a.read < Len(nodes)
    <3>1. us = << nodes[a.read + 1] >>
      BY <2>2 DEF ReadNextMeshNode
    <3>2. Len(us) = 1 /\ us # << >>
      BY <3>1
    <3> QED
      BY <2>1, <2>2, <3>2
  <2>3. CASE ~ (a.read < Len(nodes))
    <3>1. us = << >> /\ Len(us) = 0
      BY <2>3 DEF ReadNextMeshNode
    <3> QED
      BY <2>1, <2>3, <3>1
  <2> QED
    BY <2>2, <2>3
<1>b. ASSUME NEW state \in States
      PROVE  /\ Goto(b, state) \in ApiRecords /\ Goto(b, state).read = a.read + Len(us)
             /\ Goto(b, state).state = state /\ Goto(b, state).nonce = a.nonce
             /\ Goto(b, state).index = a.index /\ b \in ApiRecords /\ b.state = a.state
             /\ b.read = a.read + Len(us) /\ b.index = a.index /\ b.nonce = a.nonce
  BY <1>0, <1>r DEF Goto, ApiRecords
<1>2. CASE a.state = "UIDATA" /\ Send(ph, One("uidata", 0), Goto(a, "OWN_NODEINFO"))
  <2>1. Sends(a, f, sent, Goto(a, "OWN_NODEINFO"), One("uidata", 0))
    BY <1>0, <1>2, SendsFixed
  <2>2. Goto(a, "OWN_NODEINFO").state = "OWN_NODEINFO" /\ Goto(a, "OWN_NODEINFO").read = a.read
    BY <1>0 DEF Goto, ApiRecords
  <2>3. NodesInOrder(Goto(a, "OWN_NODEINFO"), stay[ph], got[ph].nodes, nodes)
    BY <1>0, <1>2, <2>2, NoNode DEF PastOwn
  <2> QED
    BY <1>0, <1>2, <2>1, <2>3, SendInv DEF HandingOver
<1>3. CASE a.state = "OWN_NODEINFO" /\ SendNode(ph, us,
              Goto(b, IF a.nonce = "only_nodes" THEN "OTHER_NODEINFOS" ELSE "METADATA"))
  <2> DEFINE next == IF a.nonce = "only_nodes" THEN "OTHER_NODEINFOS" ELSE "METADATA"
             c == Goto(b, next)
  <2>1. /\ c \in ApiRecords /\ c.read = a.read + Len(us) /\ c.state = next
        /\ c.nonce = a.nonce /\ c.index = a.index
    <3>1. next \in States
      BY DEF States
    <3> HIDE DEF next
    <3> QED
      BY <1>b, <3>1
  <2>2. SendNode(ph, us, c)
    BY <1>3
  <2> HIDE DEF c
  <2>3. IndexFits(c, f)
    BY <1>0, <1>3, <2>1 DEF IndexFits, HandingOver, IndexInRange
  <2>4. ConfigInOrder(c, f, sent)
    BY <1>0, <1>3, <2>1 DEF ConfigInOrder, HandingOver, SoFar
  <2>5. HandingOver(a) /\ HandingOver(c) /\ c.state # "FILEMANIFEST"
    BY <1>3, <2>1 DEF HandingOver
  <2> QED
    BY <1>0, <2>1, <2>2, <2>3, <2>4, <2>5, SendNodeInv
<1>4. CASE a.state = "METADATA" /\ Send(ph, One("metadata", 0), Goto(a, "CHANNELS"))
  <2>1. Sends(a, f, sent, Goto(a, "CHANNELS"), One("metadata", 0))
    BY <1>0, <1>4, SendsFixed
  <2>2. Goto(a, "CHANNELS").state = "CHANNELS" /\ Goto(a, "CHANNELS").read = a.read
    BY <1>0 DEF Goto, ApiRecords
  <2>3. NodesInOrder(Goto(a, "CHANNELS"), stay[ph], got[ph].nodes, nodes)
    BY <1>0, <1>4, <2>2, NoNode DEF PastOwn
  <2> QED
    BY <1>0, <1>4, <2>1, <2>3, SendInv DEF HandingOver
<1>5. CASE /\ a.state = "CHANNELS"
           /\ Send(ph, One("channel", a.index), Count(a, NumChannels - 1, "CONFIG", 1))
  <2> DEFINE c == Count(a, NumChannels - 1, "CONFIG", 1)
  <2>1. Sends(a, f, sent, c, One("channel", a.index))
    BY <1>0, <1>5, SendsChannel
  <2>2. c.state # "FILEMANIFEST"
    BY <1>0, <1>5 DEF Count, ApiRecords
  <2> HIDE DEF c
  <2>3. NodesInOrder(c, stay[ph], got[ph].nodes, nodes)
    BY <1>0, <1>5, <2>1, <2>2, NoNode DEF PastOwn, Sends
  <2> QED
    BY <1>0, <1>5, <2>1, <2>3, SendInv DEF HandingOver, c
<1>6. CASE /\ a.state = "CONFIG"
           /\ Send(ph, One("config", a.index), Count(a, NumConfigs, "MODULECONFIG", 1))
  <2> DEFINE c == Count(a, NumConfigs, "MODULECONFIG", 1)
  <2>1. Sends(a, f, sent, c, One("config", a.index))
    BY <1>0, <1>6, SendsConfig
  <2>2. c.state # "FILEMANIFEST"
    BY <1>0, <1>6 DEF Count, ApiRecords
  <2> HIDE DEF c
  <2>3. NodesInOrder(c, stay[ph], got[ph].nodes, nodes)
    BY <1>0, <1>6, <2>1, <2>2, NoNode DEF PastOwn, Sends
  <2> QED
    BY <1>0, <1>6, <2>1, <2>3, SendInv DEF HandingOver, c
<1>7. CASE a.state = "MODULECONFIG" /\ Modules(ph, a)
  <2> DEFINE after == IF a.nonce = "only_config" THEN "FILEMANIFEST" ELSE "OTHER_NODEINFOS"
             c == Count(a, NumModules, after, 0)
  <2>1. /\ Sends(a, f, sent, c, One("module", a.index))
        /\ c.state = "FILEMANIFEST" => a.nonce = "only_config"
    BY <1>0, <1>7, SendsModule
  <2>2. Send(ph, One("module", a.index), c)
    BY <1>7 DEF Modules
  <2>3. c.nonce = a.nonce /\ c.read = a.read
    BY <2>1 DEF Sends
  <2> HIDE DEF c
  <2>4. NodesInOrder(c, stay[ph], got[ph].nodes, nodes)
    BY <1>0, <1>7, <2>1, <2>3, NoNode DEF PastOwn
  <2> QED
    BY <1>0, <1>7, <2>1, <2>2, <2>4, SendInv DEF HandingOver
<1>8. CASE a.state = "OTHER_NODEINFOS" /\ us \notin {<< >>, << Blank >>} /\ SendNode(ph, us, b)
  <2>1. /\ b \in ApiRecords /\ b.read = a.read + Len(us) /\ b.state = a.state
        /\ b.index = a.index /\ b.nonce = a.nonce
    BY <1>b DEF States
  <2>2. SendNode(ph, us, b)
    BY <1>8
  <2> HIDE DEF b
  <2>3. IndexFits(b, f)
    BY <1>0, <1>8, <2>1 DEF IndexFits, HandingOver, IndexInRange
  <2>4. ConfigInOrder(b, f, sent)
    BY <1>0, <1>8, <2>1 DEF ConfigInOrder, HandingOver, SoFar
  <2>5. HandingOver(a) /\ HandingOver(b) /\ b.state # "FILEMANIFEST"
    BY <1>8, <2>1 DEF HandingOver
  <2> QED
    BY <1>0, <2>1, <2>2, <2>3, <2>4, <2>5, SendNodeInv
<1>9. ASSUME NEW e \in ApiRecords, a.state \in {"OTHER_NODEINFOS", "FILEMANIFEST"},
             e.state = a.state, e.index = a.index, e.nonce = a.nonce,
             NEW c, c = Goto(e, "FILEMANIFEST"), Manifest(ph, c),
             NodesInOrder(c, stay[ph], got[ph].nodes, nodes)
      PROVE  PhoneInv'
  <2> DEFINE d == [c EXCEPT !.index = @ + 1]
  <2>1. /\ c \in ApiRecords /\ c.state = "FILEMANIFEST" /\ c.nonce = a.nonce
        /\ c.index = a.index
    BY <1>9 DEF Goto, ApiRecords, States
  <2>2. HandingOver(a)
    BY <1>9 DEF HandingOver
  <2>3. CASE a.index = NumFiles \/ a.nonce = "only_nodes"
    <3>1. Complete(ph, c)
      BY <1>9, <2>1, <2>3 DEF Manifest
    <3> QED
      BY <1>0, <2>1, <2>2, <3>1, CompleteInv
  <2>4. CASE ~ (a.index = NumFiles \/ a.nonce = "only_nodes")
    <3>1. Send(ph, One("file", e.index), d)
      <4>1. Send(ph, One("file", c.index), d)
        BY <1>9, <2>1, <2>4 DEF Manifest
      <4> QED
        BY <1>9, <2>1, <4>1
    <3>2. Sends(e, f, sent, d, One("file", e.index))
      <4>1. IndexFits(e, f) /\ ConfigInOrder(e, f, sent)
        BY <1>0, <1>9 DEF IndexFits, IndexInRange, ConfigInOrder, HandingOver, SoFar
      <4> QED
        BY <1>0, <1>9, <2>4, <4>1, SendsFile
    <3>3. /\ d.state = "FILEMANIFEST" /\ d.nonce = c.nonce /\ d.read = c.read
      BY <2>1 DEF ApiRecords
    <3> HIDE DEF d
    <3>4. NodesInOrder(d, stay[ph], got[ph].nodes, nodes)
      BY <1>9, <2>1, <3>3, NoNode DEF PastOwn, NodesInOrder
    <3> QED
      BY <1>0, <2>2, <3>1, <3>2, <3>4, SendInv
  <2> QED
    BY <2>3, <2>4
<1>10. CASE /\ a.state = "OTHER_NODEINFOS" /\ us \in {<< >>, << Blank >>}
            /\ Manifest(ph, Goto(b, "FILEMANIFEST"))
  <2> DEFINE c == Goto(b, "FILEMANIFEST")
  <2>1. /\ b \in ApiRecords /\ b.state = a.state /\ b.index = a.index /\ b.nonce = a.nonce
        /\ c.read = a.read + Len(us) /\ c.state = "FILEMANIFEST"
    BY <1>b DEF States
  <2>2. Manifest(ph, c)
    BY <1>10
  <2> HIDE DEF c
  <2>3. a.read \in Nat /\ c.read \in Nat /\ c.read >= a.read
    BY <1>0, <1>r, <2>1 DEF ApiRecords
  <2>4. ReadAll(c.read, stay[ph], nodes) /\ ReadAll(a.read, stay[ph], nodes)
    BY <1>10, <2>3, ReadToTheEnd DEF PastOwn
  <2>5. Delivered(c.read, stay[ph], got[ph].nodes, nodes)
    <3>1. ASSUME NEW j \in DOMAIN nodes, nodes[j] \in stay[ph]
          PROVE  j <= c.read /\ \E k \in DOMAIN got[ph].nodes : Positions(got[ph].nodes, nodes[j]) = {k}
      BY <1>0, <2>4, <3>1 DEF ReadAll, NodesInOrder, Delivered
    <3> QED
      BY <1>0, <3>1 DEF NodesInOrder, Delivered
  <2>6. c.read = 0 => stay[ph] = {}
    BY <1>0, <1>10, <1>r, <2>1 DEF NodesInOrder, PastOwn, ApiRecords
  <2>7. NodesInOrder(c, stay[ph], got[ph].nodes, nodes)
    BY <2>4, <2>5, <2>6 DEF NodesInOrder
  <2> HIDE DEF b
  <2> QED
    BY <1>9, <1>10, <2>1, <2>2, <2>7 DEF c
<1>11. CASE a.state = "FILEMANIFEST" /\ Manifest(ph, a)
  <2>1. Goto(a, "FILEMANIFEST") = a
    BY <1>0, <1>11 DEF Goto, ApiRecords
  <2> QED
    BY <1>0, <1>9, <1>11, <2>1
<1> QED
  BY <1>2, <1>3, <1>4, <1>5, <1>6, <1>7, <1>8, <1>10, <1>11 DEF Handshake

(***************************************************************************)
(* The other steps.                                                        *)
(***************************************************************************)

\* Nothing the hand-over or the list is about changes.
LEMMA ElsewhereInv ==
    ASSUME PhoneInv, UNCHANGED << api, observers, nodes, got, fresh, stay >>,
           changed' \in BOOLEAN, queue' \in 0..MaxToPhone, present' \subseteq Phones,
           told' \in [Phones -> BOOLEAN], starts' \in 0..MaxStarts, arrivals' \in 0..MaxArrivals
    PROVE  PhoneInv'
<1>1. Types'
  BY DEF PhoneInv, Types
<1>2. Watched' /\ NodeList'
  BY DEF PhoneInv, Watched, NodeList
<1>3. ASSUME NEW p \in Phones PROVE HandOver(api'[p], got'[p], fresh'[p], stay'[p], nodes')
  BY DEF PhoneInv
<1> QED
  BY <1>1, <1>2, <1>3 DEF PhoneInv

\* MeshService::loop() closes at most one phone, the first it does not reach.
LEMMA LoopInv == ASSUME PhoneInv, Loop PROVE PhoneInv'
<1> DEFINE gone == {i \in DOMAIN observers : observers[i] \notin present}
           upto == IF gone = {} THEN Len(observers) ELSE Min(gone) - 1
           reached == {observers[i] : i \in 1..upto}
           now == [ph \in Phones |-> told[ph] \/ (ph \in reached /\ api[ph].state = "PACKETS")]
<1>1. /\ UNCHANGED << queue, nodes, present, starts, arrivals >>
      /\ \/ /\ gone = {} /\ changed' = FALSE /\ told' = now
            /\ UNCHANGED << api, observers, got, fresh, stay >>
         \/ gone # {} /\ RoundEnded /\ Close(observers[Min(gone)], now)
  BY DEF Loop
<1>2. now \in [Phones -> BOOLEAN]
  BY DEF PhoneInv, Types
<1>3. gone # {} => observers[Min(gone)] \in Phones
  <2>1. observers \in Seq(Phones)
    BY DEF PhoneInv, Watched
  <2>2. gone \in SUBSET Nat
    BY <2>1
  <2>3. gone # {} => Min(gone) \in gone
    <3> HIDE DEF gone
    <3> QED
      BY <2>2, MinIsLeast
  <2> QED
    BY <2>1, <2>3
<1> HIDE DEF gone, now
<1>4. CASE gone = {}
  BY <1>1, <1>2, <1>4, ElsewhereInv DEF PhoneInv, Types
<1>5. CASE gone # {}
  <2>1. changed' \in BOOLEAN
    BY <1>1, <1>5 DEF RoundEnded, PhoneInv, Types
  <2>2. Close(observers[Min(gone)], now)
    BY <1>1, <1>5
  <2> QED
    BY <1>1, <1>2, <1>3, <1>5, <2>1, <2>2, CloseInv
<1> QED
  BY <1>4, <1>5

\* The list changes and with it what the phones are promised.
LEMMA DatabaseInv ==
    ASSUME PhoneInv, NodesMove, NodeList',
           stay' \in [Phones -> SUBSET NodeIds],
           \A ph \in Phones :
              /\ stay'[ph] \subseteq stay[ph]
              /\ Delivered(api[ph].read, stay'[ph], got[ph].nodes, nodes')
              /\ ReadAll(api[ph].read, stay[ph], nodes) => ReadAll(api[ph].read, stay'[ph], nodes')
    PROVE  PhoneInv'
<1>1. Types'
  <2>1. arrivals' \in 0..MaxArrivals
    BY Constants DEF NodesMove, PhoneInv, Types
  <2> QED
    BY <2>1 DEF NodesMove, PhoneInv, Types
<1>2. Watched'
  BY DEF NodesMove, PhoneInv, Watched
<1>3. ASSUME NEW p \in Phones PROVE HandOver(api'[p], got'[p], fresh'[p], stay'[p], nodes')
  <2>1. HandOver(api[p], got[p], fresh[p], stay[p], nodes)
    BY DEF PhoneInv
  <2>2. NodesInOrder(api[p], stay'[p], got[p].nodes, nodes')
    BY <2>1 DEF HandOver, NodesInOrder
  <2>3. api' = api /\ got' = got /\ fresh' = fresh
    BY DEF NodesMove
  <2> QED
    BY <2>1, <2>2, <2>3 DEF HandOver
<1> QED
  BY <1>1, <1>2, <1>3 DEF PhoneInv

\* A list that lost an entry, and one with a new node at its end.
LEMMA RemovedList ==
    ASSUME NodeList, NEW i \in 1..Len(nodes)
    PROVE  /\ RemoveAt(nodes, i) \in Seq(NodeIds) /\ Len(RemoveAt(nodes, i)) = Len(nodes) - 1
           /\ Distinct(RemoveAt(nodes, i)) /\ BlankFirst(RemoveAt(nodes, i))
           /\ ToSet(RemoveAt(nodes, i)) \subseteq ToSet(nodes)
<1> DEFINE r == RemoveAt(nodes, i)
<1>0. /\ nodes \in Seq(NodeIds) /\ Len(nodes) \in Nat /\ Distinct(nodes)
      /\ DOMAIN nodes = 1..Len(nodes) /\ 1 <= i /\ i <= Len(nodes)
      /\ \A j \in DOMAIN nodes : nodes[j] = Blank => j = 1
  BY DEF NodeList, BlankFirst
<1>1. /\ r \in Seq(NodeIds) /\ Len(r) = Len(nodes) - 1
      /\ \A j \in 1..(Len(nodes) - 1) : r[j] = nodes[IF j < i THEN j ELSE j + 1]
  BY <1>0, RemoveAtResult
<1>2. Distinct(r) /\ ToSet(r) \subseteq ToSet(nodes)
  BY <1>0, RemoveAtDistinct
<1> HIDE DEF r
<1>3. ASSUME NEW j \in DOMAIN r, r[j] = Blank PROVE j = 1
  <2>1. j \in 1..(Len(nodes) - 1)
    BY <1>0, <1>1
  <2>2. (IF j < i THEN j ELSE j + 1) \in DOMAIN nodes
    BY <1>0, <2>1
  <2>3. (IF j < i THEN j ELSE j + 1) = 1
    BY <1>0, <1>1, <1>3, <2>1, <2>2
  <2> QED
    BY <2>1, <2>3
<1> QED
  BY <1>1, <1>2, <1>3 DEF r, BlankFirst

\* A new node stands at the end of the list (NodeDB::getOrCreateMeshNode).
LEMMA ExtendedList ==
    ASSUME NEW list \in Seq(NodeIds), Len(list) < MaxNodes, Distinct(list), BlankFirst(list),
           NEW n \in NodeIds, n # Blank, n \notin ToSet(list), nodes' = Append(list, n)
    PROVE  NodeList'
<1>1. /\ Append(list, n) \in Seq(NodeIds) /\ Len(Append(list, n)) = Len(list) + 1
      /\ DOMAIN Append(list, n) = 1..(Len(list) + 1) /\ DOMAIN list = 1..Len(list)
      /\ Len(list) \in Nat /\ (\A i \in 1..Len(list) : Append(list, n)[i] = list[i])
      /\ Append(list, n)[Len(list) + 1] = n
  OBVIOUS
<1>2. \A i \in DOMAIN list : list[i] # n
  BY DEF ToSet
<1>3. Distinct(nodes')
  BY <1>1, <1>2 DEF Distinct
<1>4. BlankFirst(nodes')
  BY <1>1 DEF BlankFirst
<1> QED
  BY <1>1, <1>3, <1>4, Constants DEF NodeList

\* When entry i goes, by the model's definition of what slides.
LEMMA ForgetPromise ==
    ASSUME PhoneInv, NEW i \in 1..Len(nodes), Forget(i)
    PROVE  /\ stay' \in [Phones -> SUBSET NodeIds]
           /\ \A ph \in Phones :
                 /\ stay'[ph] \subseteq stay[ph]
                 /\ Delivered(api[ph].read, stay'[ph], got[ph].nodes, RemoveAt(nodes, i))
                 /\ ReadAll(api[ph].read, stay[ph], nodes) =>
                       ReadAll(api[ph].read, stay'[ph], RemoveAt(nodes, i))
<1>1. stay \in [Phones -> SUBSET NodeIds]
  BY DEF PhoneInv, Types
<1>2. stay' \in [Phones -> SUBSET NodeIds]
  BY <1>1 DEF Forget
<1>3. ASSUME NEW ph \in Phones
      PROVE  /\ stay'[ph] \subseteq stay[ph]
             /\ Delivered(api[ph].read, stay'[ph], got[ph].nodes, RemoveAt(nodes, i))
             /\ ReadAll(api[ph].read, stay[ph], nodes) =>
                   ReadAll(api[ph].read, stay'[ph], RemoveAt(nodes, i))
  <2>1. stay'[ph] = stay[ph] \ Slid(nodes, api[ph].read, i)
    BY DEF Forget, Skipped, Slid
  <2>2. /\ Delivered(api[ph].read, stay[ph], got[ph].nodes, nodes) /\ api[ph].read \in Nat
        /\ nodes \in Seq(NodeIds) /\ Distinct(nodes)
    BY OfPhone DEF PhoneInv, NodeList, ApiRecords
  <2> QED
    BY <2>1, <2>2, DeliveredRemove
<1> QED
  BY <1>2, <1>3

\* A node is heard for the first time: it is appended, one goes before, or at() throws.
LEMMA AddNodeInv == ASSUME PhoneInv, AddNode PROVE PhoneInv'
<1>0. NodeList /\ stay \in [Phones -> SUBSET NodeIds]
  BY DEF PhoneInv, Types
<1>n. PICK n \in NodeIds \ ({Blank} \cup ToSet(nodes)) :
         \/ /\ Len(nodes) < MaxNodes /\ nodes' = Append(nodes, n)
            /\ NodesMove /\ UNCHANGED stay
         \/ \E i \in 2..Len(nodes) :
               nodes' = Append(RemoveAt(nodes, i), n) /\ Forget(i) /\ NodesMove
         \/ Len(nodes) = MaxNodes /\ Reboot
  BY DEF AddNode
<1>1. CASE /\ Len(nodes) < MaxNodes /\ nodes' = Append(nodes, n)
           /\ NodesMove /\ UNCHANGED stay
  <2>1. NodeList'
    BY <1>0, <1>1, ExtendedList DEF NodeList
  <2>2. ASSUME NEW ph \in Phones
        PROVE  /\ stay'[ph] \subseteq stay[ph]
               /\ Delivered(api[ph].read, stay'[ph], got[ph].nodes, nodes')
               /\ ReadAll(api[ph].read, stay[ph], nodes) => ReadAll(api[ph].read, stay'[ph], nodes')
    <3>1. Delivered(api[ph].read, stay[ph], got[ph].nodes, nodes) /\ nodes \in Seq(NodeIds)
      BY <1>0, OfPhone DEF NodeList
    <3> QED
      BY <1>1, <3>1, DeliveredAppend
  <2> QED
    BY <1>0, <1>1, <2>1, <2>2, DatabaseInv
<1>2. ASSUME NEW i \in 2..Len(nodes), nodes' = Append(RemoveAt(nodes, i), n),
             Forget(i), NodesMove
      PROVE  PhoneInv'
  <2> DEFINE r == RemoveAt(nodes, i)
  <2>0. i \in 1..Len(nodes) /\ Len(nodes) \in Nat /\ Len(nodes) <= MaxNodes
    BY <1>0 DEF NodeList
  <2>1. /\ r \in Seq(NodeIds) /\ Len(r) = Len(nodes) - 1 /\ Distinct(r) /\ BlankFirst(r)
        /\ ToSet(r) \subseteq ToSet(nodes)
    BY <1>0, <2>0, RemovedList
  <2>2. /\ stay' \in [Phones -> SUBSET NodeIds]
        /\ \A ph \in Phones :
              /\ stay'[ph] \subseteq stay[ph]
              /\ Delivered(api[ph].read, stay'[ph], got[ph].nodes, r)
              /\ ReadAll(api[ph].read, stay[ph], nodes) => ReadAll(api[ph].read, stay'[ph], r)
    BY <1>2, <2>0, ForgetPromise
  <2>4. Len(r) < MaxNodes /\ n \notin ToSet(r)
    BY <2>0, <2>1, Constants
  <2>5. nodes' = Append(r, n)
    BY <1>2
  <2> HIDE DEF r
  <2>6. NodeList'
    BY <2>1, <2>4, <2>5, ExtendedList
  <2>7. ASSUME NEW ph \in Phones
        PROVE  /\ stay'[ph] \subseteq stay[ph]
               /\ Delivered(api[ph].read, stay'[ph], got[ph].nodes, nodes')
               /\ ReadAll(api[ph].read, stay[ph], nodes) => ReadAll(api[ph].read, stay'[ph], nodes')
    BY <2>1, <2>2, <2>4, <2>5, DeliveredAppend
  <2> QED
    BY <1>2, <2>2, <2>6, <2>7, DatabaseInv
<1> QED
  BY <1>n, <1>1, <1>2, RebootInv

\* A node goes: what moves under a read index is no longer promised to that phone.
LEMMA RemoveNodeInv == ASSUME PhoneInv, RemoveNode PROVE PhoneInv'
<1>1. PICK i \in 1..Len(nodes) :
         nodes' = RemoveAt(nodes, i) /\ Forget(i) /\ NodesMove
  BY DEF RemoveNode
<1>2. NodeList
  BY DEF PhoneInv
<1>3. /\ nodes' \in Seq(NodeIds) /\ Len(nodes') = Len(nodes) - 1
      /\ Distinct(nodes') /\ BlankFirst(nodes')
  BY <1>1, <1>2, RemovedList
<1>4. NodeList'
  BY <1>2, <1>3, Constants DEF NodeList
<1>5. /\ stay' \in [Phones -> SUBSET NodeIds]
      /\ \A ph \in Phones :
            /\ stay'[ph] \subseteq stay[ph]
            /\ Delivered(api[ph].read, stay'[ph], got[ph].nodes, nodes')
            /\ ReadAll(api[ph].read, stay[ph], nodes) => ReadAll(api[ph].read, stay'[ph], nodes')
  BY <1>1, ForgetPromise
<1> QED
  BY <1>1, <1>4, <1>5, DatabaseInv

\* All nodes but the first go (NodeDB::resetNodes), or the pointer to ours is null.
LEMMA ResetNodesInv == ASSUME PhoneInv, ResetNodes PROVE PhoneInv'
<1>1. CASE /\ nodes' = << IF nodes = << >> THEN Blank ELSE nodes[1] >>
           /\ stay' = [ph \in Phones |-> stay[ph] \cap ToSet(nodes')]
           /\ NodesMove
  <2>0. /\ nodes \in Seq(NodeIds) /\ nodes' = << FirstOf(nodes) >>
        /\ stay \in [Phones -> SUBSET NodeIds]
    BY <1>1 DEF FirstOf, PhoneInv, Types, NodeList
  <2>1. FirstOf(nodes) \in NodeIds
    <3>1. CASE nodes = << >>
      BY <3>1, Constants DEF FirstOf, Blank, NodeIds
    <3>2. CASE nodes # << >>
      BY <2>0, <3>2 DEF FirstOf
    <3> QED
      BY <3>1, <3>2
  <2>2. NodeList'
    <3>1. nodes' \in Seq(NodeIds) /\ Len(nodes') = 1 /\ DOMAIN nodes' = {1}
      BY <2>0, <2>1
    <3> QED
      BY <3>1, Constants DEF NodeList, Distinct, BlankFirst
  <2>3. stay' \in [Phones -> SUBSET NodeIds]
    BY <1>1, <2>0
  <2>4. ASSUME NEW ph \in Phones
        PROVE  /\ stay'[ph] \subseteq stay[ph]
               /\ Delivered(api[ph].read, stay'[ph], got[ph].nodes, nodes')
               /\ ReadAll(api[ph].read, stay[ph], nodes) => ReadAll(api[ph].read, stay'[ph], nodes')
    <3>1. Delivered(api[ph].read, stay[ph], got[ph].nodes, nodes)
      BY OfPhone
    <3>2. stay'[ph] = stay[ph] \cap ToSet(nodes')
      BY <1>1
    <3> QED
      BY <2>0, <3>1, <3>2, DeliveredReset
  <2> QED
    BY <1>1, <2>2, <2>3, <2>4, DatabaseInv
<1> QED
  BY <1>1, RebootInv DEF ResetNodes

\* Every step preserves the invariant.
LEMMA NextInv == PhoneInv /\ [Next]_vars => PhoneInv'
<1> SUFFICES ASSUME PhoneInv, [Next]_vars PROVE PhoneInv'
  OBVIOUS
<1>0. Types
  BY DEF PhoneInv
<1>1. ASSUME NEW ph \in Phones, NEW nonce \in Nonces, WantConfig(ph, nonce) PROVE PhoneInv'
  BY <1>1, WantConfigInv
<1>2. ASSUME NEW ph \in Phones, Disconnect(ph) \/ CheckTimeout(ph) PROVE PhoneInv'
  <2>1. Close(ph, told) /\ UNCHANGED Handing
    BY <1>2 DEF Disconnect, CheckTimeout
  <2>2. told \in [Phones -> BOOLEAN] /\ changed' \in BOOLEAN
        /\ UNCHANGED << queue, nodes, present, starts, arrivals >>
    BY <1>0, <2>1 DEF Types, Handing
  <2> QED
    BY <2>1, <2>2, CloseInv
<1>3. ASSUME NEW ph \in Phones, Leave(ph) \/ Return(ph) PROVE PhoneInv'
  <2>1. /\ UNCHANGED << api, observers, nodes, got, fresh, stay >>
        /\ UNCHANGED << changed, queue, told, starts, arrivals >> /\ present' \subseteq Phones
    BY <1>0, <1>3 DEF Leave, Return, Types
  <2> QED
    BY <1>0, <2>1, ElsewhereInv DEF Types
<1>4. ASSUME NEW ph \in Phones, MyInfo(ph) \/ Handshake(ph) PROVE PhoneInv'
  BY <1>4, MyInfoInv, HandshakeInv
<1>5. ASSUME NEW ph \in Phones, ReadPacket(ph) PROVE PhoneInv'
  <2>1. /\ UNCHANGED << api, observers, nodes, got, fresh, stay >>
        /\ UNCHANGED << changed, present, starts, arrivals >>
    BY <1>5 DEF ReadPacket
  <2>2. told' \in [Phones -> BOOLEAN]
    BY <1>0, <1>5 DEF ReadPacket, Types
  <2>3. queue' \in 0..MaxToPhone
    BY <1>0, <1>5, Constants DEF ReadPacket, Types
  <2> QED
    BY <1>0, <2>1, <2>2, <2>3, ElsewhereInv DEF Types
<1>6. CASE SendToPhone
  <2>1. /\ UNCHANGED << api, observers, nodes, got, fresh, stay >>
        /\ UNCHANGED << present, told, starts >> /\ changed' \in BOOLEAN
    BY <1>6 DEF SendToPhone
  <2>2. queue' \in 0..MaxToPhone /\ arrivals' \in 0..MaxArrivals
    BY <1>0, <1>6, Constants DEF SendToPhone, Types
  <2> QED
    BY <1>0, <2>1, <2>2, ElsewhereInv DEF Types
<1>7. CASE UNCHANGED vars
  BY <1>0, <1>7, ElsewhereInv DEF vars, Types
<1> QED
  BY <1>1, <1>2, <1>3, <1>4, <1>5, <1>6, <1>7, LoopInv, AddNodeInv, RemoveNodeInv,
     ResetNodesInv, RebootInv DEF Next

(***************************************************************************)
(* Theorems.                                                               *)
(***************************************************************************)

\* The inductive invariant holds in every state: what each phone was sent is what its
\* state, its index and its read index say.
THEOREM PhoneInvariance == Spec => []PhoneInv
  BY InitInv, NextInv, PTL DEF Spec

\* Every variable has its type and config_state is an index of what its state reads, so
\* that filesManifest.at() never throws (PhoneAPI.cpp:443), also after a restart that
\* keeps the index.
THEOREM TypeCorrectness == Spec => []TypeOK
  BY PhoneInvariance, InvTypes, PTL

\* A hand-over ends in the handshake, at the end of the manifest.
LEMMA EndsWhere ==
    ASSUME PhoneInv, NEW ph \in Phones, Next, Ends(ph)
    PROVE  LET a == api[ph]
           IN  /\ a.state \in {"OTHER_NODEINFOS", "FILEMANIFEST"}
               /\ a.index = NumFiles \/ a.nonce = "only_nodes"
               /\ a.state = "OTHER_NODEINFOS" => ReadNextMeshNode(a) \in {<< >>, << Blank >>}
<1> DEFINE a == api[ph]
           us == ReadNextMeshNode(a)
<1>0. a \in ApiRecords /\ a.state # "PACKETS" /\ api'[ph].state = "PACKETS"
      /\ api \in [Phones -> ApiRecords]
  BY OfPhone DEF Ends, PhoneInv, Types
<1>1. ASSUME NEW b, NEW p \in Phones, api' = [api EXCEPT ![p] = b]
      PROVE  p = ph /\ api'[ph] = b
  BY <1>0, <1>1
<1>2. ~ UNCHANGED api
  BY <1>0
<1>3. ASSUME NEW p \in Phones, NEW nonce \in Nonces, WantConfig(p, nonce) PROVE FALSE
  BY <1>0, <1>1, <1>3 DEF WantConfig, Started
<1>4. ASSUME NEW p \in Phones, NEW now, Close(p, now) PROVE FALSE
  BY <1>0, <1>1, <1>4 DEF Close, Closed
<1>5. ~ Loop
  <2>1. ASSUME Loop PROVE FALSE
    <3> DEFINE gone == {i \in DOMAIN observers : observers[i] \notin present}
               upto == IF gone = {} THEN Len(observers) ELSE Min(gone) - 1
               reached == {observers[i] : i \in 1..upto}
               now == [p \in Phones |-> told[p] \/ (p \in reached /\ api[p].state = "PACKETS")]
    <3>1. UNCHANGED api \/ (gone # {} /\ Close(observers[Min(gone)], now))
      BY <2>1 DEF Loop
    <3>2. gone # {} => observers[Min(gone)] \in Phones
      <4>1. observers \in Seq(Phones)
        BY DEF PhoneInv, Watched
      <4>2. gone \in SUBSET Nat
        BY <4>1
      <4>3. gone # {} => Min(gone) \in gone
        <5> HIDE DEF gone
        <5> QED
          BY <4>2, MinIsLeast
      <4> QED
        BY <4>1, <4>3
    <3> HIDE DEF gone, now
    <3> QED
      BY <1>2, <1>4, <3>1, <3>2
  <2> QED
    BY <2>1
<1>r. ~ Reboot
  BY <1>0 DEF Reboot, Closed
<1>s. ASSUME NEW p \in Phones, MyInfo(p) PROVE FALSE
  <2>1. Send(p, One("my_info", 0), Goto(api[p], "UIDATA"))
    BY <1>r, <1>s DEF MyInfo
  <2>2. api' = [api EXCEPT ![p] = Goto(api[p], "UIDATA")]
    BY <2>1 DEF Send
  <2>3. p = ph /\ api'[ph] = Goto(a, "UIDATA")
    BY <1>1, <2>2
  <2> QED
    BY <1>0, <2>3 DEF Goto, ApiRecords
<1>6. PICK p \in Phones : Handshake(p)
  BY <1>2, <1>3, <1>4, <1>5, <1>r, <1>s DEF Next, Disconnect, CheckTimeout, Leave, Return,
     ReadPacket, SendToPhone, AddNode, RemoveNode, ResetNodes, NodesMove
<1>7. p = ph
  <2>1. ASSUME NEW items, NEW b, Send(p, items, b) PROVE p = ph
    BY <1>1, <2>1 DEF Send
  <2>2. ASSUME NEW entries, NEW b, SendNode(p, entries, b) PROVE p = ph
    BY <1>1, <2>2 DEF SendNode
  <2>3. ASSUME NEW b, Manifest(p, b) PROVE p = ph
    BY <1>1, <2>1, <2>3 DEF Manifest, Complete
  <2>4. ASSUME NEW b, Modules(p, b) PROVE p = ph
    BY <2>1, <2>4 DEF Modules
  <2> QED
    BY <1>6, <2>1, <2>2, <2>3, <2>4, Zenon DEF Handshake
<1>8. ASSUME NEW items, NEW b, Send(ph, items, b) PROVE b.state = "PACKETS"
  BY <1>0, <1>8, <1>1 DEF Send
<1>9. ASSUME NEW b, SendNode(ph, us, b) PROVE b.state = "PACKETS"
  BY <1>0, <1>9, <1>1 DEF SendNode
<1>10. \/ /\ a.state = "OTHER_NODEINFOS" /\ us \in {<< >>, << Blank >>}
          /\ Manifest(ph, Goto([a EXCEPT !.read = @ + Len(us)], "FILEMANIFEST"))
       \/ a.state = "FILEMANIFEST" /\ Manifest(ph, a)
  <2>1. \A s : s # "PACKETS" => Goto(a, s).state # "PACKETS"
    BY <1>0 DEF Goto, ApiRecords
  <2>2. \A last, s, first :
           s # "PACKETS" => Count(a, last, s, first).state # "PACKETS"
    BY <1>0 DEF Count, ApiRecords
  <2>3. Goto([a EXCEPT !.read = @ + Len(us)],
             IF a.nonce = "only_nodes" THEN "OTHER_NODEINFOS" ELSE "METADATA").state # "PACKETS"
    BY <1>0 DEF Goto, ApiRecords
  <2>4. [a EXCEPT !.read = @ + Len(us)].state # "PACKETS"
    BY <1>0 DEF ApiRecords
  <2>5. /\ ~ Send(ph, One("uidata", 0), Goto(a, "OWN_NODEINFO"))
        /\ ~ Send(ph, One("metadata", 0), Goto(a, "CHANNELS"))
    BY <1>8, <2>1
  <2>6. /\ ~ Send(ph, One("channel", a.index), Count(a, NumChannels - 1, "CONFIG", 1))
        /\ ~ Send(ph, One("config", a.index), Count(a, NumConfigs, "MODULECONFIG", 1))
    BY <1>8, <2>2
  <2>7. ~ Modules(ph, a)
    <3> DEFINE after == IF a.nonce = "only_config" THEN "FILEMANIFEST" ELSE "OTHER_NODEINFOS"
    <3>1. after # "PACKETS"
      OBVIOUS
    <3>2. Count(a, NumModules, after, 0).state # "PACKETS"
      <4> HIDE DEF after
      <4> QED
        BY <2>2, <3>1
    <3> QED
      BY <1>8, <3>2 DEF Modules
  <2>8. /\ ~ SendNode(ph, us, Goto([a EXCEPT !.read = @ + Len(us)],
               IF a.nonce = "only_nodes" THEN "OTHER_NODEINFOS" ELSE "METADATA"))
        /\ ~ SendNode(ph, us, [a EXCEPT !.read = @ + Len(us)])
    BY <1>9, <2>3, <2>4
  <2>9. Handshake(ph)
    BY <1>6, <1>7
  <2> QED
    BY <2>5, <2>6, <2>7, <2>8, <2>9 DEF Handshake
<1>11. ASSUME NEW c, c.index = a.index, c.nonce = a.nonce,
              DOMAIN c = {"state", "index", "nonce", "read"},
              c.state = "FILEMANIFEST", Manifest(ph, c)
       PROVE  a.index = NumFiles \/ a.nonce = "only_nodes"
  <2>1. CASE c.index = NumFiles \/ c.nonce = "only_nodes"
    BY <1>11, <2>1
  <2>2. CASE ~ (c.index = NumFiles \/ c.nonce = "only_nodes")
    <3>1. Send(ph, One("file", c.index), [c EXCEPT !.index = @ + 1])
      BY <1>11, <2>2 DEF Manifest
    <3>2. [c EXCEPT !.index = @ + 1].state = "FILEMANIFEST"
      BY <1>11 DEF ApiRecords
    <3> QED
      BY <1>8, <3>1, <3>2
  <2> QED
    BY <2>1, <2>2
<1>12. CASE /\ a.state = "OTHER_NODEINFOS" /\ us \in {<< >>, << Blank >>}
            /\ Manifest(ph, Goto([a EXCEPT !.read = @ + Len(us)], "FILEMANIFEST"))
  <2> DEFINE c == Goto([a EXCEPT !.read = @ + Len(us)], "FILEMANIFEST")
  <2>1. c.index = a.index /\ c.nonce = a.nonce /\ c.state = "FILEMANIFEST"
    BY <1>0 DEF Goto, ApiRecords, States
  <2>2. DOMAIN c = {"state", "index", "nonce", "read"}
    BY <1>0 DEF Goto, ApiRecords
  <2> HIDE DEF c
  <2> QED
    BY <1>11, <1>12, <2>1, <2>2 DEF c
<1>13. CASE a.state = "FILEMANIFEST" /\ Manifest(ph, a)
  <2>1. DOMAIN a = {"state", "index", "nonce", "read"}
    BY <1>0 DEF ApiRecords
  <2> HIDE DEF a
  <2>2. a.index = NumFiles \/ a.nonce = "only_nodes"
    BY <1>11, <1>13, <2>1
  <2> QED
    BY <1>13, <2>2 DEF a
<1> QED
  BY <1>10, <1>12, <1>13

\* A phone that asked without a hand-over under way has been sent, when it gets
\* config_complete_id, all that it was promised, once and in order (PhoneAPI.cpp:175).
THEOREM ConfigurationWhole == Spec => ConfigWhole
<1>1. ASSUME PhoneInv, NEW ph \in Phones, Next, Ends(ph), fresh[ph] PROVE Whole(ph)
  <2> DEFINE a == api[ph]
  <2>1. /\ a.state \in {"OTHER_NODEINFOS", "FILEMANIFEST"} /\ a \in ApiRecords
        /\ a.index = NumFiles \/ a.nonce = "only_nodes"
        /\ IndexFits(a, fresh[ph]) /\ ConfigInOrder(a, fresh[ph], got[ph].config)
    BY <1>1, EndsWhere, OfPhone
  <2>2. CASE a.nonce = "only_nodes"
    BY <2>1, <2>2 DEF ConfigInOrder, HandingOver, Whole, Promised
  <2>3. CASE a.nonce # "only_nodes"
    <3>1. FilesTo(NumFiles - 1) = Promised(a.nonce) /\ FilesTo(-1) = ModulesTo(NumModules)
      BY <2>3, NextItem
    <3>2. CASE a.state = "FILEMANIFEST"
      <4>1. got[ph].config = FilesTo(a.index - 1)
        BY <1>1, <2>1, <2>3, <3>2 DEF ConfigInOrder, HandingOver, SoFar
      <4> QED
        BY <2>1, <2>3, <3>1, <4>1 DEF Whole
    <3>3. CASE a.state = "OTHER_NODEINFOS"
      <4>1. got[ph].config = ModulesTo(NumModules)
        BY <1>1, <2>1, <2>3, <3>3 DEF ConfigInOrder, HandingOver, SoFar
      <4>2. NumFiles - 1 = -1
        BY <2>1, <2>3, <3>3 DEF IndexFits
      <4> QED
        BY <3>1, <4>1, <4>2 DEF Whole
    <3> QED
      BY <2>1, <3>2, <3>3
  <2> QED
    BY <2>2, <2>3
<1>2. ASSUME PhoneInv, [Next]_vars
      PROVE  [\A ph \in Phones : Ends(ph) /\ fresh[ph] => Whole(ph)]_vars
  BY <1>1, <1>2
<1> QED
  BY <1>2, PhoneInvariance, PTL DEF Spec, ConfigWhole

\* A phone that asked for nodes has been sent each one that stayed, exactly once, but
\* those that slid under its read index (NodeDB.cpp, readNextMeshNode()).
THEOREM NodesAreWhole == Spec => NodesWhole
<1>1. ASSUME PhoneInv, NEW ph \in Phones, Next, Ends(ph), api[ph].nonce # "only_config",
             NEW n \in stay[ph]
      PROVE  Cardinality({i \in DOMAIN got[ph].nodes : got[ph].nodes[i] = n}) = 1
  <2> DEFINE a == api[ph]
  <2>1. /\ a.state \in {"OTHER_NODEINFOS", "FILEMANIFEST"} /\ a \in ApiRecords
        /\ a.state = "OTHER_NODEINFOS" => ReadNextMeshNode(a) \in {<< >>, << Blank >>}
        /\ a.state = "FILEMANIFEST" => ReadAll(a.read, stay[ph], nodes)
        /\ Delivered(a.read, stay[ph], got[ph].nodes, nodes)
    BY <1>1, EndsWhere, OfPhone DEF NodesInOrder
  <2>2. PICK j \in DOMAIN nodes : nodes[j] = n
    BY <1>1, <2>1 DEF Delivered, ToSet
  <2>3. j <= a.read
    <3>1. CASE a.state = "FILEMANIFEST"
      BY <1>1, <2>1, <2>2, <3>1 DEF ReadAll
    <3>2. CASE a.state = "OTHER_NODEINFOS"
      <4>1. a.read \in Nat /\ PastOwn(a)
        BY <2>1, <3>2 DEF ApiRecords, PastOwn
      <4>2. ReadAll(a.read, stay[ph], nodes)
        BY <1>1, <2>1, <3>2, <4>1, ReadToTheEnd
      <4> QED
        BY <1>1, <2>2, <4>2 DEF ReadAll
    <3> QED
      BY <2>1, <3>1, <3>2
  <2>4. \E k \in DOMAIN got[ph].nodes : Positions(got[ph].nodes, n) = {k}
    BY <1>1, <2>1, <2>2, <2>3 DEF Delivered
  <2> QED
    BY <2>4, FS_Singleton DEF Positions
<1>2. ASSUME PhoneInv, [Next]_vars
      PROVE  [\A ph \in Phones : Ends(ph) /\ api[ph].nonce # "only_config" =>
                 \A n \in stay[ph] :
                    Cardinality({i \in DOMAIN got[ph].nodes : got[ph].nodes[i] = n}) = 1]_vars
  BY <1>1, <1>2
<1> QED
  BY <1>2, PhoneInvariance, PTL DEF Spec, NodesWhole
================================================================================
