-------------------------- MODULE SelectionProofs --------------------------
(***************************************************************************)
(* The shards are fair and a rerun finds the tests that failed, for every  *)
(* project, every number of shards and of rounds.                          *)
(***************************************************************************)
EXTENDS Selection, RecursionTheorems, SequenceTheorems, TLAPS

----------------------------------------------------------------------------
(* Shards *)

Interval == [first : Int, last : Int]

ShardTypes ==
  /\ count \in Nat /\ wanted \in Nat \ {0}
  /\ groups \in Seq(Interval) /\ start \in Nat
  /\ Len(groups) <= shards

\* Ids handed out with the first i groups: the loop's start, in closed form.
HandedOut(i) == i * base + IF i <= extra THEN i ELSE extra

\* The groups tile 1..start, and none is too large or too small.
Tiled ==
  /\ \A j \in 1..start : \E k \in DOMAIN groups : Holds(groups[k], j)
  /\ \A k \in DOMAIN groups :
       /\ 1 <= groups[k].first /\ groups[k].last <= start
       /\ base <= Size(groups[k]) /\ Size(groups[k]) <= base + 1
  /\ \A k, l \in DOMAIN groups : k < l => groups[k].last < groups[l].first

Counted == start = IF shards = 0 THEN 0 ELSE HandedOut(Len(groups))

ShardInv == ShardTypes /\ Counted /\ Tiled

\* The division of the ids among the shards.
LEMMA Division ==
  ASSUME count \in Nat, wanted \in Nat \ {0}
  PROVE  /\ shards \in Nat /\ shards <= count
         /\ shards = 0 => count = 0
         /\ shards > 0 => /\ base \in Nat /\ base >= 1
                          /\ extra \in Nat /\ extra < shards
                          /\ count = shards * base + extra
<1>1. shards \in Nat /\ shards <= count /\ (shards = 0 => count = 0)
  BY DEF shards
<1>2. ASSUME shards > 0
      PROVE  base \in Int /\ extra \in 0..(shards - 1) /\ count = shards * base + extra
  BY <1>1, <1>2 DEF base, extra
<1>3. ASSUME shards > 0 PROVE base >= 1
  <2>1. CASE base <= 0
    <3>1. shards * base <= 0
      BY <1>1, <1>2, <1>3, <2>1
    <3> QED BY <1>1, <1>2, <1>3, <3>1
  <2> QED BY <1>2, <1>3, <2>1
<1> QED BY <1>1, <1>2, <1>3

LEMMA HandedOutStep ==
  ASSUME NEW i \in Nat, base \in Nat, extra \in Nat
  PROVE  HandedOut(i) \in Nat /\ HandedOut(i + 1) = HandedOut(i) + SizeOf(i + 1)
<1>1. (i + 1) * base = i * base + base /\ i * base \in Nat
  OBVIOUS
<1>2. CASE i + 1 <= extra
  BY <1>1, <1>2 DEF HandedOut, SizeOf
<1>3. CASE ~(i + 1 <= extra)
  <2>1. i > extra \/ i = extra
    BY <1>3
  <2> QED BY <1>1, <1>3, <2>1 DEF HandedOut, SizeOf
<1> QED BY <1>2, <1>3

LEMMA CutStep == ShardInv /\ Cut => ShardInv'
<1> SUFFICES ASSUME ShardInv, Cut PROVE ShardInv'
  OBVIOUS
<1> DEFINE n == Len(groups)
           new == [first |-> start + 1, last |-> start + SizeOf(n + 1)]
<1>1. /\ n \in Nat /\ n < shards /\ start \in Nat
      /\ groups \in Seq(Interval) /\ groups' = Append(groups, new)
      /\ start' = start + SizeOf(n + 1) /\ UNCHANGED <<count, wanted>>
  BY DEF Cut, ShardInv, ShardTypes
<1>2. shards' = shards /\ base' = base /\ extra' = extra
  BY <1>1 DEF shards, base, extra
<1>3. base \in Nat /\ base >= 1 /\ extra \in Nat /\ shards \in Nat
  BY <1>1, Division DEF ShardInv, ShardTypes
<1>4. SizeOf(n + 1) \in Nat /\ base <= SizeOf(n + 1) /\ SizeOf(n + 1) <= base + 1
  BY <1>1, <1>3 DEF SizeOf
<1>5. new \in Interval
  BY <1>1, <1>4 DEF Interval
<1>6. /\ groups' \in Seq(Interval) /\ Len(groups') = n + 1
      /\ DOMAIN groups' = 1..(n + 1) /\ DOMAIN groups = 1..n
      /\ \A k \in 1..n : groups'[k] = groups[k]
      /\ groups'[n + 1] = new
  BY <1>1, <1>5
<1>7. ShardTypes'
  BY <1>1, <1>2, <1>3, <1>4, <1>6 DEF ShardTypes, ShardInv
<1>8. Counted'
  <2>1. start = HandedOut(n)
    BY <1>1 DEF ShardInv, Counted
  <2>2. start' = HandedOut(n + 1)
    BY <1>1, <1>3, <2>1, HandedOutStep
  <2>3. HandedOut(Len(groups))' = HandedOut(n + 1)
    BY <1>2, <1>6 DEF HandedOut
  <2>4. shards' # 0
    BY <1>1, <1>2, <1>3
  <2> QED BY <2>2, <2>3, <2>4 DEF Counted
<1>9. \A k \in 1..n : /\ groups[k] \in Interval /\ groups[k].last <= start
                      /\ groups'[k] = groups[k]
  BY <1>1, <1>6 DEF ShardInv, Tiled
<1>10. Tiled'
  <2>1. ASSUME NEW j \in 1..start' PROVE \E k \in 1..(n + 1) : Holds(groups'[k], j)
    <3>1. CASE j <= start
      <4>1. PICK k \in 1..n : Holds(groups[k], j)
        BY <1>1, <1>6, <2>1, <3>1 DEF ShardInv, Tiled
      <4> QED BY <1>1, <1>9, <4>1
    <3>2. CASE j > start
      BY <1>1, <1>4, <1>6, <2>1, <3>2 DEF Holds
    <3> QED BY <1>1, <1>4, <2>1, <3>1, <3>2
  <2>2. ASSUME NEW k \in 1..(n + 1)
        PROVE  /\ 1 <= groups'[k].first /\ groups'[k].last <= start'
               /\ base <= Size(groups'[k]) /\ Size(groups'[k]) <= base + 1
    <3>1. CASE k \in 1..n
      <4>1. /\ 1 <= groups[k].first /\ groups[k].last <= start
            /\ base <= Size(groups[k]) /\ Size(groups[k]) <= base + 1
        BY <1>6, <3>1 DEF ShardInv, Tiled
      <4>2. groups[k].last \in Int
        BY <1>9, <3>1 DEF Interval
      <4> QED BY <1>1, <1>4, <1>9, <3>1, <4>1, <4>2
    <3>2. CASE k = n + 1
      BY <1>1, <1>3, <1>4, <1>6, <3>2 DEF Size
    <3> QED BY <1>1, <2>2, <3>1, <3>2
  <2>3. ASSUME NEW k \in 1..(n + 1), NEW l \in 1..(n + 1), k < l
        PROVE  groups'[k].last < groups'[l].first
    <3>1. CASE l \in 1..n
      <4>1. k \in 1..n
        BY <1>1, <2>3, <3>1
      <4> QED BY <1>6, <1>9, <2>3, <3>1, <4>1 DEF ShardInv, Tiled
    <3>2. CASE l = n + 1
      <4>1. k \in 1..n
        BY <1>1, <2>3, <3>2
      <4> QED BY <1>1, <1>6, <1>9, <3>2, <4>1 DEF Interval
    <3> QED BY <1>1, <2>3, <3>1, <3>2
  <2> QED BY <1>2, <1>6, <2>1, <2>2, <2>3 DEF Tiled, Size, Holds
<1> QED BY <1>7, <1>8, <1>10 DEF ShardInv

LEMMA ShardStart == ShardInit => ShardInv
<1> SUFFICES ASSUME ShardInit PROVE ShardInv
  OBVIOUS
<1>1. /\ count \in Nat /\ wanted \in Nat \ {0} /\ groups = <<>> /\ start = 0
      /\ Len(groups) = 0 /\ DOMAIN groups = {}
  BY DEF ShardInit
<1>2. shards \in Nat
  BY <1>1, Division
<1>3. ShardTypes
  BY <1>1, <1>2 DEF ShardTypes
<1>4. ASSUME shards > 0 PROVE HandedOut(0) = 0
  <2>1. base \in Nat /\ extra \in Nat
    BY <1>1, <1>4, Division
  <2> QED BY <2>1 DEF HandedOut
<1>5. Counted
  BY <1>1, <1>2, <1>4 DEF Counted
<1> QED BY <1>1, <1>3, <1>5 DEF ShardInv, Tiled

LEMMA ShardStep == ShardInv /\ [Cut]_sharding => ShardInv'
<1>1. ShardInv /\ UNCHANGED sharding => ShardInv'
  BY DEF sharding, ShardInv, ShardTypes, Counted, Tiled, HandedOut, shards, base, extra, Size, Holds
<1> QED BY <1>1, CutStep

\* When all groups are cut, all ids are handed out.
LEMMA ShardEnd ==
  ASSUME ShardInv, Sharded
  PROVE  /\ FairShares
         /\ \A k \in DOMAIN groups : /\ groups[k].first \in Int /\ groups[k].last \in Int
                                     /\ 1 <= groups[k].first /\ groups[k].last <= count
                                     /\ groups[k].first <= groups[k].last
<1>1. /\ count \in Nat /\ wanted \in Nat \ {0} /\ groups \in Seq(Interval)
      /\ Len(groups) = shards /\ DOMAIN groups = 1..shards
      /\ shards > 0 => start = HandedOut(shards)
  BY DEF ShardInv, ShardTypes, Counted, Sharded
<1>2. CASE shards = 0
  <2>1. count = 0
    BY <1>1, <1>2, Division
  <2> QED BY <1>1, <1>2, <2>1 DEF FairShares
<1>3. CASE shards > 0
  <2>1. /\ base \in Nat /\ base >= 1 /\ extra \in Nat /\ extra < shards
        /\ count = shards * base + extra /\ shards \in Nat
    BY <1>1, <1>3, Division
  <2>2. start = count
    BY <1>1, <1>3, <2>1 DEF HandedOut
  <2>3. ASSUME NEW k \in DOMAIN groups, NEW l \in DOMAIN groups
        PROVE  Size(groups[k]) >= 1 /\ Size(groups[k]) <= Size(groups[l]) + 1
    <3>1. groups[k] \in Interval /\ groups[l] \in Interval
      BY <1>1
    <3>2. /\ base <= Size(groups[k]) /\ Size(groups[k]) <= base + 1
          /\ base <= Size(groups[l])
      BY DEF ShardInv, Tiled
    <3>3. Size(groups[k]) \in Int /\ Size(groups[l]) \in Int
      BY <3>1 DEF Size, Interval
    <3> QED BY <2>1, <3>2, <3>3
  <2>4. FairShares
    BY <2>2, <2>3 DEF ShardInv, Tiled, FairShares
  <2>5. ASSUME NEW k \in DOMAIN groups
        PROVE  /\ groups[k].first \in Int /\ groups[k].last \in Int
               /\ 1 <= groups[k].first /\ groups[k].last <= count
               /\ groups[k].first <= groups[k].last
    <3>1. groups[k].first \in Int /\ groups[k].last \in Int
      <4>1. groups[k] \in Interval
        BY <1>1
      <4> QED BY <4>1 DEF Interval
    <3>2. Size(groups[k]) >= 1
      BY <2>3
    <3>3. 1 <= groups[k].first /\ groups[k].last <= start
      BY DEF ShardInv, Tiled
    <3> QED BY <2>2, <3>1, <3>2, <3>3 DEF Size
  <2> QED BY <2>4, <2>5
<1> QED BY <1>1, <1>2, <1>3, Division

\* Whatever the number of ids and of shards, every id is in exactly one group,
\* no group is empty and no two differ in size by more than one.
THEOREM SharesAreFair == ShardSpec => []FairShares
<1>1. ShardInv => FairShares
  BY ShardEnd DEF FairShares
<1> QED BY <1>1, ShardStart, ShardStep, PTL DEF ShardSpec

----------------------------------------------------------------------------
(* Paths *)

Path == Seq(STRING)

LEMMA SubPath ==
  ASSUME NEW s \in Path, NEW m \in Nat, NEW n \in 0..Len(s), 1 <= m, m <= n + 1
  PROVE  /\ SubSeq(s, m, n) \in Path /\ Len(SubSeq(s, m, n)) = n - m + 1
         /\ \A i \in 1..(n - m + 1) : SubSeq(s, m, n)[i] = s[m + i - 1]
<1>1. Len(s) \in Nat /\ \A i \in 1..Len(s) : s[i] \in STRING
  BY LenProperties DEF Path
<1>2. \A i \in m..n : s[i] \in STRING
  BY <1>1
<1> QED
  BY <1>1, <1>2, SubSeqProperties DEF Path

LEMMA Joined ==
  ASSUME NEW s \in Path, NEW t \in Path
  PROVE  /\ s \o t \in Path /\ Len(s) \in Nat /\ Len(t) \in Nat
         /\ Len(s \o t) = Len(s) + Len(t)
         /\ \A i \in 1..Len(s) : (s \o t)[i] = s[i]
         /\ \A i \in 1..Len(t) : (s \o t)[Len(s) + i] = t[i]
<1>1. /\ s \o t \in Seq(STRING) /\ Len(s \o t) = Len(s) + Len(t)
      /\ \A i \in 1..(Len(s) + Len(t)) : (s \o t)[i] = IF i <= Len(s) THEN s[i] ELSE t[i - Len(s)]
  BY ConcatProperties DEF Path
<1>2. Len(s) \in Nat /\ Len(t) \in Nat
  BY LenProperties DEF Path
<1> QED
  BY <1>1, <1>2 DEF Path

LEMMA SamePath ==
  ASSUME NEW s \in Path, NEW t \in Path, Len(s) = Len(t), \A i \in 1..Len(s) : s[i] = t[i]
  PROVE  s = t
BY SeqEqual DEF Path

LEMMA PrefixMeans ==
  ASSUME NEW s \in Path, NEW t \in Path
  PROVE  IsPrefix(s, t) <=> Len(s) <= Len(t) /\ \A i \in 1..Len(s) : s[i] = t[i]
<1>1. Len(s) \in Nat /\ Len(t) \in Nat
  BY LenProperties DEF Path
<1>2. /\ SubSeq(s, 1, Len(s)) \in Path /\ Len(SubSeq(s, 1, Len(s))) = Len(s)
      /\ \A i \in 1..Len(s) : SubSeq(s, 1, Len(s))[i] = s[i]
  BY <1>1, SubPath
<1>3. ASSUME Len(s) <= Len(t)
      PROVE  /\ SubSeq(t, 1, Len(s)) \in Path /\ Len(SubSeq(t, 1, Len(s))) = Len(s)
             /\ \A i \in 1..Len(s) : SubSeq(t, 1, Len(s))[i] = t[i]
  BY <1>1, <1>3, SubPath
<1>4. ASSUME IsPrefix(s, t)
      PROVE  Len(s) <= Len(t) /\ \A i \in 1..Len(s) : s[i] = t[i]
  BY <1>2, <1>3, <1>4 DEF IsPrefix
<1>5. ASSUME Len(s) <= Len(t), \A i \in 1..Len(s) : s[i] = t[i]
      PROVE  IsPrefix(s, t)
  <2>1. SubSeq(s, 1, Len(s)) = SubSeq(t, 1, Len(s))
    BY <1>2, <1>3, <1>5, SamePath
  <2> QED
    BY <1>5, <2>1 DEF IsPrefix
<1> QED
  BY <1>4, <1>5

LEMMA PrefixChain ==
  ASSUME NEW r \in Path, NEW s \in Path, NEW t \in Path, IsPrefix(r, s), IsPrefix(s, t)
  PROVE  IsPrefix(r, t)
<1>1. Len(r) \in Nat /\ Len(s) \in Nat /\ Len(t) \in Nat
  BY LenProperties DEF Path
<1> QED
  BY <1>1, PrefixMeans

\* A path is cut in two and put together again.
LEMMA CutAndJoin ==
  ASSUME NEW s \in Path, NEW n \in 0..Len(s)
  PROVE  /\ SubSeq(s, 1, n) \in Path /\ SubSeq(s, n + 1, Len(s)) \in Path
         /\ SubSeq(s, 1, n) \o SubSeq(s, n + 1, Len(s)) = s
<1>1. Len(s) \in Nat
  BY LenProperties DEF Path
<1>2. SubSeq(s, 1, n) \in Path /\ SubSeq(s, n + 1, Len(s)) \in Path
  BY <1>1, SubPath
<1>3. SubSeq(s, 1, n) \o SubSeq(s, n + 1, Len(s)) = SubSeq(s, 1, Len(s))
  <2>1. 1 \in 1..(Len(s) + 1) /\ n \in (1 - 1)..Len(s) /\ Len(s) \in n..Len(s)
    BY <1>1
  <2> QED
    BY <2>1, ConcatAdjacentSubSeq DEF Path
<1>4. SubSeq(s, 1, Len(s)) = s
  BY SubSeqFull DEF Path
<1> QED
  BY <1>2, <1>3, <1>4

\* The halves of a path that is put together.
LEMMA JoinAndCut ==
  ASSUME NEW s \in Path, NEW t \in Path
  PROVE  /\ SubSeq(s \o t, 1, Len(s)) = s
         /\ SubSeq(s \o t, Len(s) + 1, Len(s \o t)) = t
<1> DEFINE p == s \o t
           tail == SubSeq(p, Len(s) + 1, Len(p))
           head == SubSeq(p, 1, Len(s))
<1>1. /\ p \in Path /\ Len(s) \in Nat /\ Len(t) \in Nat /\ Len(p) = Len(s) + Len(t)
      /\ \A i \in 1..Len(s) : p[i] = s[i]
      /\ \A i \in 1..Len(t) : p[Len(s) + i] = t[i]
  BY Joined
<1> HIDE DEF p
<1>2. head \in Path /\ Len(head) = Len(s) /\ \A i \in 1..Len(s) : head[i] = p[i]
  BY <1>1, SubPath
<1>3. tail \in Path /\ Len(tail) = Len(t) /\ \A i \in 1..Len(t) : tail[i] = p[Len(s) + i]
  <2>1. /\ tail \in Path /\ Len(tail) = Len(p) - (Len(s) + 1) + 1
        /\ \A i \in 1..(Len(p) - (Len(s) + 1) + 1) : tail[i] = p[Len(s) + 1 + i - 1]
    BY <1>1, SubPath
  <2> QED
    BY <1>1, <2>1
<1>4. head = s
  BY <1>1, <1>2, SamePath
<1>5. tail = t
  BY <1>1, <1>3, SamePath
<1> QED
  BY <1>4, <1>5 DEF p

\* Of paths that agree on n names, each beginning of that length is the other's.
LEMMA SameBeginning ==
  ASSUME NEW s \in Path, NEW t \in Path, IsPrefix(s, t)
  PROVE  /\ s = SubSeq(t, 1, Len(s)) /\ Len(s) \in 0..Len(t)
         /\ \A n \in 0..Len(s) : SubSeq(t, 1, n) = SubSeq(s, 1, n)
<1>1. Len(s) \in Nat /\ Len(t) \in Nat
  BY LenProperties DEF Path
<1>2. Len(s) <= Len(t) /\ \A i \in 1..Len(s) : s[i] = t[i]
  BY PrefixMeans
<1>3. ASSUME NEW n \in 0..Len(s)
      PROVE  SubSeq(t, 1, n) = SubSeq(s, 1, n)
  <2>1. /\ SubSeq(s, 1, n) \in Path /\ Len(SubSeq(s, 1, n)) = n
        /\ \A i \in 1..n : SubSeq(s, 1, n)[i] = s[i]
    BY <1>1, SubPath
  <2>2. /\ SubSeq(t, 1, n) \in Path /\ Len(SubSeq(t, 1, n)) = n
        /\ \A i \in 1..n : SubSeq(t, 1, n)[i] = t[i]
    BY <1>1, <1>2, SubPath
  <2> QED
    BY <1>1, <1>2, <2>1, <2>2, SamePath
<1>4. SubSeq(s, 1, Len(s)) = s
  BY SubSeqFull DEF Path
<1> QED
  BY <1>1, <1>2, <1>3, <1>4

\* The longest common prefix of some paths is theirs, and has every other.
LEMMA CommonLemma ==
  ASSUME NEW S \in SUBSET Path, S # {}
  PROVE  LET c == LongestCommonPrefix(S)
         IN  /\ c \in Path
             /\ \A s \in S : IsPrefix(c, s)
             /\ \A p \in Path : (\A s \in S : IsPrefix(p, s)) => IsPrefix(p, c)
<1> DEFINE c == LongestCommonPrefix(S)
           C == CommonPrefixes(S)
           Longest(p) == \A q \in C : Len(q) <= Len(p)
<1>1. PICK a \in S : TRUE
  OBVIOUS
<1>2. a \in Path /\ Len(a) \in Nat
  BY LenProperties DEF Path
<1>3. \A p \in C : p \in Path /\ \A s \in S : IsPrefix(p, s)
  <2> TAKE p \in C
  <2>1. PICK s \in S : p \in Prefixes(s)
    BY DEF CommonPrefixes
  <2>2. PICK n \in 0..Len(s) : p = SubSeq(s, 1, n)
    BY <2>1 DEF Prefixes
  <2>3. p \in Path
    BY <2>2, CutAndJoin
  <2> QED
    BY <2>3 DEF CommonPrefixes
<1>4. ASSUME NEW p \in Path, \A s \in S : IsPrefix(p, s)
      PROVE  p \in C
  <2>1. p = SubSeq(a, 1, Len(p)) /\ Len(p) \in 0..Len(a)
    BY <1>1, <1>2, <1>4, SameBeginning
  <2>2. p \in Prefixes(a)
    BY <2>1 DEF Prefixes
  <2> QED
    BY <1>4, <2>2 DEF CommonPrefixes
<1>5. <<>> \in C
  <2>1. <<>> \in Path /\ Len(<<>>) = 0
    BY EmptySeq DEF Path
  <2>2. \A s \in S : IsPrefix(<<>>, s)
    <3> TAKE s \in S
    <3>1. s \in Path /\ Len(s) \in Nat
      BY LenProperties DEF Path
    <3> QED
      BY <2>1, <3>1, PrefixMeans
  <2> QED
    BY <1>4, <2>1, <2>2
<1> HIDE DEF C
<1>6. \E p \in C : Longest(p)
  <2> DEFINE L == {Len(p) : p \in C}
  <2>1. L \in SUBSET (0..Len(a)) /\ L # {}
    <3>1. \A p \in C : Len(p) \in 0..Len(a)
      BY <1>1, <1>2, <1>3, SameBeginning
    <3> QED
      BY <1>5, <3>1
  <2> HIDE DEF L
  <2>2. PICK n \in L : \A m \in L : m <= n
    BY <1>2, <2>1, Greatest
  <2> USE DEF L
  <2>3. PICK p \in C : n = Len(p)
    OBVIOUS
  <2>4. \A q \in C : Len(q) \in L
    OBVIOUS
  <2> QED
    BY <2>2, <2>3, <2>4
<1>7. c \in C /\ Longest(c)
  <2>1. c = CHOOSE p \in C : Longest(p)
    BY DEF LongestCommonPrefix, C
  <2> HIDE DEF c, Longest
  <2> QED
    BY <1>6, <2>1
<1> HIDE DEF c
<1>8. c \in Path /\ \A s \in S : IsPrefix(c, s)
  BY <1>3, <1>7
<1>9. ASSUME NEW p \in Path, \A s \in S : IsPrefix(p, s)
      PROVE  IsPrefix(p, c)
  <2>1. Len(p) <= Len(c)
    BY <1>4, <1>7, <1>9
  <2>2. /\ Len(p) <= Len(a) /\ \A i \in 1..Len(p) : p[i] = a[i]
        /\ Len(c) <= Len(a) /\ \A i \in 1..Len(c) : c[i] = a[i]
    BY <1>1, <1>2, <1>8, <1>9, PrefixMeans
  <2>3. Len(p) \in Nat /\ Len(c) \in Nat
    BY <1>8, LenProperties DEF Path
  <2> QED
    BY <1>8, <2>1, <2>2, <2>3, PrefixMeans
<1> QED
  BY <1>8, <1>9 DEF c

----------------------------------------------------------------------------
(* Names *)

LEMMA NotEmpty ==
  ASSUME NEW S, NEW s \in Seq(S), s # <<>>
  PROVE  Len(s) > 0 /\ s[1] \in S
<1>1. Len(s) \in Nat \ {0}
  BY EmptySeq
<1>2. 1 \in 1..Len(s)
  BY <1>1
<1>3. s[1] \in S
  BY <1>2, ElementOfSeq
<1> QED
  BY <1>1, <1>3

LEMMA PiecesLemma ==
  ASSUME NEW name \in STRING
  PROVE  /\ Pieces(name) \in Path
         /\ name \notin DOMAIN Dotted => Pieces(name) = <<name>>
         /\ name \in DOMAIN Dotted => Len(Pieces(name)) > 0 /\ Pieces(name)[1] # name
<1>1. ASSUME name \notin DOMAIN Dotted
      PROVE  Pieces(name) = <<name>> /\ Pieces(name) \in Path
  BY <1>1 DEF Pieces, Path
<1>2. ASSUME name \in DOMAIN Dotted
      PROVE  Pieces(name) \in Path /\ Len(Pieces(name)) > 0 /\ Pieces(name)[1] # name
  <2>1. Pieces(name) \in Seq(STRING \ DOMAIN Dotted) /\ Pieces(name) # <<>>
    BY <1>2, DottedAssumption DEF Pieces
  <2>2. Len(Pieces(name)) > 0 /\ Pieces(name)[1] \in STRING \ DOMAIN Dotted
    BY <2>1, NotEmpty
  <2>4. Pieces(name) \in Seq(STRING)
    BY <2>1, SeqMonotonic
  <2>5. Pieces(name)[1] # name
    BY <1>2, <2>2
  <2> QED
    BY <2>2, <2>4, <2>5 DEF Path
<1> QED
  BY <1>1, <1>2

\* The segments of a path are its names' pieces, one name after the other.
LEMMA SegmentsLemma ==
  ASSUME NEW path \in Path
  PROVE  \E f \in [0..Len(path) -> Path] :
           /\ f[0] = <<>> /\ Segments(path) = f[Len(path)]
           /\ \A k \in 1..Len(path) : f[k] = f[k - 1] \o Pieces(path[k])
<1> DEFINE n == Len(path)
           seqs == [i \in DOMAIN path |-> Pieces(path[i])]
           op == [k \in 1..n |-> [u \in Path |-> u \o seqs[k]]]
<1>1. n \in Nat /\ DOMAIN path = 1..n /\ \A k \in 1..n : path[k] \in STRING
  BY LenProperties DEF Path
<1>2. \A k \in 1..n : seqs[k] \in Path /\ seqs[k] = Pieces(path[k])
  BY <1>1, PiecesLemma
<1>3. Len(seqs) = n
  <2>1. seqs \in [1..n -> Path]
    BY <1>1, <1>2
  <2>2. seqs \in Seq(Path)
    BY <1>1, <2>1, SeqDef
  <2>3. DOMAIN seqs = 1..Len(seqs) /\ Len(seqs) \in Nat
    BY <2>2, LenProperties
  <2> HIDE DEF seqs
  <2> QED
    BY <1>1, <2>1, <2>3
<1> HIDE DEF seqs, n
<1>4. <<>> \in Path
  BY EmptySeq DEF Path
<1>5. op \in [1..n -> [Path -> Path]]
  BY <1>2, Joined
<1>6. PICK f : Recursion(f, Path, <<>>, n, op)
  <2> HIDE DEF op
  <2> QED
    BY <1>1, <1>4, <1>5, RecursionSolved, Zenon
<1>7. /\ f \in [0..n -> Path] /\ f[0] = <<>>
      /\ \A k \in 1..n : f[k] = f[k - 1] \o seqs[k]
  <2>1. f \in [0..n -> Path] /\ f[0] = <<>> /\ \A k \in 1..n : f[k] = op[k][f[k - 1]]
    BY <1>6 DEF Recursion
  <2>2. ASSUME NEW k \in 1..n
        PROVE  f[k - 1] \in Path
    BY <1>1, <2>1
  <2> QED
    BY <2>1, <2>2
<1> HIDE DEF op
<1>8. Segments(path) = f[n]
  <2>1. CASE n = 0
    <3>1. seqs = <<>>
      BY <1>1, <2>1 DEF seqs
    <3> QED
      BY <1>3, <1>7, <2>1, <3>1 DEF Segments, FlattenSeq, seqs
  <2>2. CASE n > 0
    <3> DEFINE Solves(g) == g = [i \in 1..n |-> IF i = 1 THEN seqs[i] ELSE g[i - 1] \o seqs[i]]
               g == CHOOSE h : Solves(h)
               h == [i \in 1..n |-> f[i]]
    <3>1. Segments(path) = g[n]
      BY <1>3, <2>2 DEF Segments, FlattenSeq, seqs
    <3>2. Solves(h)
      <4>1. f[1] = seqs[1]
        <5>1. 1 \in 1..n /\ 1 - 1 = 0
          BY <1>1, <2>2
        <5>2. f[1] = f[1 - 1] \o seqs[1] /\ seqs[1] \in Path
          BY <1>2, <1>7, <5>1
        <5> QED
          BY <1>7, <5>1, <5>2, ConcatEmptySeq DEF Path
      <4>2. \A i \in 1..n : i # 1 => h[i] = h[i - 1] \o seqs[i]
        BY <1>1, <1>7, SMTT(20)
      <4> QED
        BY <1>1, <4>1, <4>2
    <3>3. Solves(g)
      BY <3>2
    <3> HIDE DEF g
    <3>4. g[1] = f[1] /\ \A k \in 2..n : g[k] = g[k - 1] \o seqs[k] /\ f[k] = f[k - 1] \o seqs[k]
      <4>1. h[1] = seqs[1] /\ g[1] = seqs[1]
        BY <1>1, <2>2, <3>2, <3>3
      <4>2. ASSUME NEW k \in 2..n
            PROVE  g[k] = g[k - 1] \o seqs[k] /\ f[k] = f[k - 1] \o seqs[k]
        <5>1. k \in 1..n /\ k # 1
          BY <1>1
        <5>2. g[k] = IF k = 1 THEN seqs[k] ELSE g[k - 1] \o seqs[k]
          <6> HIDE DEF seqs
          <6> QED
            BY <3>3, <5>1
        <5> QED
          BY <1>7, <5>1, <5>2
      <4>3. h[1] = f[1]
        BY <1>1, <2>2
      <4> QED
        BY <4>1, <4>2, <4>3
    <3> DEFINE G == [k \in 0..(n - 1) |-> g[k + 1]]
               F == [k \in 0..(n - 1) |-> f[k + 1]]
    <3>5. G[n - 1] = F[n - 1]
      <4>1. n - 1 \in Nat /\ G[0] = F[0]
        BY <1>1, <2>2, <3>4
      <4>2. ASSUME NEW k \in 1..(n - 1), G[k - 1] = F[k - 1]
            PROVE  G[k] = F[k]
        <5>1. k + 1 \in 2..n /\ k - 1 \in 0..(n - 1) /\ k \in 0..(n - 1)
          BY <1>1
        <5>2. G[k - 1] = g[k] /\ F[k - 1] = f[k] /\ G[k] = g[k + 1] /\ F[k] = f[k + 1]
          BY <5>1
        <5>3. g[k] = f[k]
          BY <4>2, <5>2
        <5>4. /\ g[k + 1] = g[(k + 1) - 1] \o seqs[k + 1]
              /\ f[k + 1] = f[(k + 1) - 1] \o seqs[k + 1]
          BY <3>4, <5>1
        <5>5. (k + 1) - 1 = k
          BY <5>1
        <5>6. g[k + 1] = f[k + 1]
          BY <5>3, <5>4, <5>5
        <5> QED
          BY <5>2, <5>6
      <4> HIDE DEF G, F
      <4> QED
        BY <4>1, <4>2, RecursionUnique, Zenon
    <3>6. g[n] = f[n]
      BY <1>1, <2>2, <3>5
    <3> QED
      BY <3>1, <3>6
  <2> QED
    BY <1>1, <2>1, <2>2
<1> QED
  BY <1>2, <1>7, <1>8 DEF n

\* Segments undone: a path whose segments, whatever follows them, begin with the
\* path itself has no dotted name; and one that has none is its own segments.
LEMMA SegmentsExact ==
  ASSUME NEW path \in Path
  PROVE  /\ Segments(path) \in Path
         /\ (\A i \in DOMAIN path : path[i] \notin DOMAIN Dotted) => Segments(path) = path
         /\ \A rest \in Path :
              /\ Len(path) <= Len(Segments(path) \o rest)
              /\ SubSeq(Segments(path) \o rest, 1, Len(path)) = path
              => Segments(path) = path
<1> DEFINE n == Len(path)
<1>1. n \in Nat /\ DOMAIN path = 1..n /\ \A k \in 1..n : path[k] \in STRING
  BY LenProperties DEF Path
<1>2. PICK f \in [0..n -> Path] :
        /\ f[0] = <<>> /\ Segments(path) = f[n]
        /\ \A k \in 1..n : f[k] = f[k - 1] \o Pieces(path[k])
  BY SegmentsLemma
<1> HIDE DEF n
\* As far as there is no dot,
<1>3. ASSUME NEW d \in 0..n, \A k \in 1..d : path[k] \notin DOMAIN Dotted
      PROVE  f[d] = SubSeq(path, 1, d)
  <2> DEFINE g == [k \in 0..n |-> SubSeq(path, 1, k)]
  <2>1. d \in Nat /\ f[0] = g[0]
    <3>1. SubSeq(path, 1, 0) = <<>>
      BY SubSeqEmpty
    <3> QED
      BY <1>1, <1>2, <3>1
  <2>2. ASSUME NEW k \in 1..d, f[k - 1] = g[k - 1]
        PROVE  f[k] = g[k]
    <3>1. k \in 1..n /\ k \in 0..n /\ k - 1 \in 0..n
      BY <1>1
    <3>2. f[k] = SubSeq(path, 1, k - 1) \o <<path[k]>>
      <4>1. Pieces(path[k]) = <<path[k]>>
        BY <1>1, <1>3, <3>1, PiecesLemma
      <4>2. f[k - 1] = SubSeq(path, 1, k - 1)
        BY <2>2, <3>1
      <4> QED
        BY <1>2, <3>1, <4>1, <4>2
    <3>3. SubSeq(path, 1, k) = SubSeq(path, 1, k - 1) \o <<path[k]>>
      <4>1. 1 \in 1..Len(path) /\ k \in 1..Len(path)
        BY <1>1, <3>1 DEF n
      <4> QED
        BY <4>1, SubSeqRecursiveSecond DEF Path
    <3> QED
      BY <3>1, <3>2, <3>3
  <2> HIDE DEF g
  <2>3. f[d] = g[d]
    BY <2>1, <2>2, RecursionUnique, Zenon
  <2> QED
    BY <2>3 DEF g
<1>4. ASSUME \A k \in 1..n : path[k] \notin DOMAIN Dotted
      PROVE  Segments(path) = path
  <2>1. f[n] = SubSeq(path, 1, n)
    BY <1>1, <1>3, <1>4
  <2>2. SubSeq(path, 1, n) = path
    BY SubSeqFull DEF Path, n
  <2> QED
    BY <1>2, <2>1, <2>2
\* and the first dot is seen for ever.
<1>5. ASSUME NEW rest \in Path, n <= Len(Segments(path) \o rest),
             SubSeq(Segments(path) \o rest, 1, n) = path
      PROVE  \A k \in 1..n : path[k] \notin DOMAIN Dotted
  <2> DEFINE D == {k \in 1..n : path[k] \in DOMAIN Dotted}
  <2> SUFFICES ASSUME D # {}
               PROVE  FALSE
    OBVIOUS
  <2>1. PICK d \in D : \A k \in D : d <= k
    <3>1. D \in SUBSET (0..n)
      BY <1>1
    <3> HIDE DEF D
    <3> QED
      BY <1>1, <3>1, Least
  <2>2. d \in 1..n /\ d - 1 \in 0..n /\ path[d] \in DOMAIN Dotted /\ path[d] \in STRING
    BY <1>1
  <2>3. f[d - 1] = SubSeq(path, 1, d - 1)
    <3>1. \A k \in 1..(d - 1) : path[k] \notin DOMAIN Dotted
      <4> TAKE k \in 1..(d - 1)
      <4>1. k \in 1..n /\ ~(d <= k)
        BY <1>1, <2>2
      <4> QED
        BY <2>1, <4>1
    <3> QED
      BY <1>3, <2>2, <3>1
  <2>4. Len(f[d - 1]) = d - 1 /\ f[d - 1] \in Path
    BY <1>1, <2>2, <2>3, SubPath DEF n
  <2> DEFINE P == Pieces(path[d])
  <2>5. P \in Path /\ Len(P) > 0 /\ P[1] # path[d]
    BY <2>2, PiecesLemma
  <2> HIDE DEF P, D
  <2>6. Len(f[d]) >= d /\ f[d][d] # path[d]
    <3> DEFINE F == f[d - 1]
    <3>1. f[d] = F \o P
      BY <1>2, <2>2 DEF P
    <3>2. /\ Len(P) \in Nat /\ Len(f[d]) = (d - 1) + Len(P)
          /\ \A i \in 1..Len(P) : f[d][(d - 1) + i] = P[i]
      <4>1. F \in Path /\ Len(F) = d - 1
        BY <2>4
      <4> HIDE DEF F
      <4>2. /\ Len(F \o P) = Len(F) + Len(P) /\ Len(P) \in Nat
            /\ \A i \in 1..Len(P) : (F \o P)[Len(F) + i] = P[i]
        BY <2>5, <4>1, Joined
      <4> QED
        BY <3>1, <4>1, <4>2
    <3>3. f[d][(d - 1) + 1] = P[1] /\ (d - 1) + 1 = d
      BY <2>2, <2>5, <3>2
    <3> QED
      BY <1>1, <2>2, <2>5, <3>2, <3>3
  <2> DEFINE S == {m \in Nat : d + m <= n => Len(f[d + m]) >= d /\ f[d + m][d] # path[d]}
  <2>7. 0 \in S
    BY <2>2, <2>6
  <2>8. ASSUME NEW m \in Nat, m \in S
        PROVE  m + 1 \in S
    <3> SUFFICES ASSUME d + (m + 1) <= n
                 PROVE  Len(f[d + (m + 1)]) >= d /\ f[d + (m + 1)][d] # path[d]
      OBVIOUS
    <3>1. Len(f[d + m]) >= d /\ f[d + m][d] # path[d]
      BY <1>1, <2>2, <2>8
    <3>2. d + m + 1 \in 1..n /\ d + m \in 0..n /\ (d + m + 1) - 1 = d + m /\ d + (m + 1) = d + m + 1
      BY <1>1, <2>2
    <3> DEFINE Q == Pieces(path[d + m + 1])
    <3>3. f[d + m] \in Path /\ Q \in Path /\ f[d + m + 1] = f[d + m] \o Q
      BY <1>1, <1>2, <3>2, PiecesLemma
    <3> HIDE DEF Q
    <3>4. /\ Len(Q) \in Nat /\ Len(f[d + m]) \in Nat
          /\ Len(f[d + m + 1]) = Len(f[d + m]) + Len(Q)
          /\ \A i \in 1..Len(f[d + m]) : f[d + m + 1][i] = f[d + m][i]
      BY <3>3, Joined
    <3>5. d \in 1..Len(f[d + m])
      BY <2>2, <3>1, <3>4
    <3> QED
      BY <2>2, <3>1, <3>2, <3>4, <3>5
  <2>9. n - d \in S
    <3> HIDE DEF S
    <3>1. Nat \subseteq S
      BY <2>7, <2>8, SetInduction
    <3>2. n - d \in Nat
      BY <1>1, <2>2
    <3> QED
      BY <3>1, <3>2
  <2>10. Len(f[n]) >= d /\ f[n][d] # path[d]
    <3>1. d + (n - d) = n
      BY <1>1, <2>2
    <3> QED
      BY <1>1, <2>9, <3>1
  <2> DEFINE whole == f[n] \o rest
  <2>11. /\ f[n] \in Path /\ Len(f[n]) \in Nat /\ Len(rest) \in Nat
         /\ whole \in Path /\ Len(whole) = Len(f[n]) + Len(rest)
         /\ \A i \in 1..Len(f[n]) : whole[i] = f[n][i]
    BY <1>1, <1>2, Joined
  <2> HIDE DEF whole
  <2>12. SubSeq(whole, 1, n) = path
    BY <1>2, <1>5 DEF whole
  <2>13. path[d] = whole[d]
    <3>1. Len(SubSeq(whole, 1, n)) = n /\ \A i \in 1..n : SubSeq(whole, 1, n)[i] = whole[1 + i - 1]
      <4>1. n <= Len(whole)
        BY <1>2, <1>5 DEF whole
      <4> QED
        BY <1>1, <2>11, <4>1, SubPath
    <3>2. 1 + d - 1 = d
      BY <2>2
    <3> QED
      BY <2>2, <2>12, <3>1, <3>2
  <2>14. whole[d] = f[n][d]
    BY <2>2, <2>10, <2>11
  <2> QED
    BY <2>10, <2>13, <2>14
<1>6. Segments(path) \in Path
  BY <1>1, <1>2
<1>7. (\A i \in DOMAIN path : path[i] \notin DOMAIN Dotted) => Segments(path) = path
  BY <1>1, <1>4
<1>8. ASSUME NEW rest \in Path, Len(path) <= Len(Segments(path) \o rest),
             SubSeq(Segments(path) \o rest, 1, Len(path)) = path
      PROVE  Segments(path) = path
  BY <1>4, <1>5, <1>8 DEF n
<1> QED
  BY <1>6, <1>7, <1>8

\* A dotted id is cut in two; before its first class-like segment if it has one.
LEMMA ConvertedLemma ==
  ASSUME NEW id, id.path \in Path
  PROVE  LET n == Len(id.path)
         IN  \E k \in 0..n :
               /\ Converted(id).file = SubSeq(id.path, 1, k)
               /\ k > 0 => Converted(id).rest = SubSeq(id.path, k + 1, n) \o id.leaf
               /\ \A j \in 0..n :
                    /\ \A i \in 1..j : id.path[i] \notin ClassLike
                    /\ j < n => id.path[j + 1] \in ClassLike
                    => k = j
<1> DEFINE n == Len(id.path)
           classes == {i \in 1..n : id.path[i] \in ClassLike}
           first == CHOOSE i \in classes : \A j \in classes : i <= j
           k == IF classes = {} THEN n ELSE first - 1
<1>1. n \in Nat
  BY LenProperties DEF Path
<1>2. ASSUME classes # {}
      PROVE  first \in 1..n /\ k = first - 1 /\ first \in classes /\ \A j \in classes : first <= j
  <2>1. classes \in SUBSET (0..n)
    BY <1>1
  <2>2. first \in classes /\ \A j \in classes : first <= j
    <3> HIDE DEF classes
    <3>1. \E i \in classes : \A j \in classes : i <= j
      BY <1>1, <1>2, <2>1, Least
    <3> QED
      BY <3>1
  <2> HIDE DEF first
  <2> QED
    BY <1>2, <2>2
<1>3. k \in 0..n
  <2> HIDE DEF first
  <2>1. CASE classes = {}
    BY <1>1, <2>1
  <2>2. CASE classes # {}
    BY <1>1, <1>2, <2>2
  <2> QED
    BY <2>1, <2>2
<1> HIDE DEF first
<1>4. /\ Converted(id).file = SubSeq(id.path, 1, k)
      /\ k > 0 => Converted(id).rest = SubSeq(id.path, k + 1, n) \o id.leaf
  <2>1. Converted(id) = IF k = 0 THEN [file |-> NoFile, rest |-> id.leaf]
                        ELSE [file |-> SubSeq(id.path, 1, k),
                              rest |-> SubSeq(id.path, k + 1, n) \o id.leaf]
    BY DEF Converted, first
  <2> HIDE DEF k, n
  <2>2. CASE k = 0
    <3>1. SubSeq(id.path, 1, k) = NoFile
      BY <2>2, SubSeqEmpty DEF NoFile
    <3> QED
      BY <2>1, <2>2, <3>1
  <2>3. CASE k # 0
    <3>1. Converted(id) = [file |-> SubSeq(id.path, 1, k),
                           rest |-> SubSeq(id.path, k + 1, n) \o id.leaf]
      BY <2>1, <2>3
    <3> DEFINE a == SubSeq(id.path, 1, k)
               b == SubSeq(id.path, k + 1, n) \o id.leaf
               r == Converted(id)
    <3>2. r = [file |-> a, rest |-> b]
      BY <3>1
    <3> HIDE DEF a, b, r
    <3>3. r.file = a /\ r.rest = b
      BY <3>2
    <3> QED
      BY <3>3 DEF a, b, r
  <2> QED
    BY <2>2, <2>3
<1>5. ASSUME NEW j \in 0..n, \A i \in 1..j : id.path[i] \notin ClassLike,
             j < n => id.path[j + 1] \in ClassLike
      PROVE  k = j
  <2>1. CASE j = n
    <3>1. classes = {}
      BY <1>5, <2>1
    <3> QED
      BY <2>1, <3>1
  <2>2. CASE j < n
    <3>1. j + 1 \in classes
      BY <1>1, <1>5, <2>2
    <3>2. \A i \in classes : i > j
      BY <1>1, <1>5
    <3>3. first \in 1..n /\ k = first - 1 /\ first <= j + 1 /\ first > j
      BY <1>2, <3>1, <3>2
    <3> HIDE DEF k
    <3> QED
      BY <1>1, <3>3
  <2> QED
    BY <1>1, <2>1, <2>2
<1> HIDE DEF k
<1> QED
  BY <1>3, <1>4, <1>5

----------------------------------------------------------------------------
(* Directories *)

LEMMA TestLemma ==
  ASSUME layout \in Layouts
  PROVE  /\ \A t \in layout.tests :
              /\ t.file \in Path /\ t.file # <<>> /\ t.scopes \in Path
              /\ t.name \in STRING /\ t.param \in Path
              /\ t.file # layout.own /\ ~IsPrefix(NoDir, t.file)
         /\ layout.own \in Path /\ layout.suite \in SUBSET Path /\ layout.suite # {}
         /\ IsFiniteSet(layout.tests)
<1>1. /\ layout \in Layout /\ IsFiniteSet(layout.tests) /\ layout.suite # {}
      /\ \A t \in layout.tests : t.file # layout.own /\ ~IsPrefix(NoDir, t.file)
  BY LayoutsAssumption
<1>2. layout.tests \in SUBSET Test /\ layout.own \in Path /\ layout.suite \in SUBSET Path
  BY <1>1 DEF Layout, Folders, Path
<1>3. \A t \in Test : /\ t.file \in Path /\ t.file # <<>> /\ t.scopes \in Path
                      /\ t.name \in STRING /\ t.param \in Path
  BY DEF Test, Path
<1> QED
  BY <1>1, <1>2, <1>3

\* What a test_path may be.
Targeted ==
  /\ targets \in SUBSET Path /\ targets # {}
  /\ \A p \in targets : \E t \in layout.tests : IsPrefix(p, t.file)
  /\ layout.own # NoDir => \A p \in targets : IsPrefix(layout.own, p)

LEMMA DirLemma ==
  ASSUME layout \in Layouts, NEW p \in Path
  PROVE  /\ DirOf(p) \in Path /\ IsPrefix(DirOf(p), p)
         /\ \A t \in layout.tests :
              IsPrefix(p, t.file) => IsPrefix(DirOf(p), t.file) /\ Len(DirOf(p)) < Len(t.file)
         /\ IsPrefix(layout.own, p) => IsPrefix(layout.own, DirOf(p))
<1> DEFINE d == DirOf(p)
<1>1. Len(p) \in Nat
  BY LenProperties DEF Path
<1>2. ASSUME p \in FilesOf(layout.tests)
      PROVE  /\ d \in Path /\ Len(d) = Len(p) - 1 /\ Len(p) > 0
             /\ \A i \in 1..Len(d) : d[i] = p[i]
             /\ p # layout.own
  <2>1. PICK t \in layout.tests : p = t.file
    BY <1>2 DEF FilesOf
  <2>2. p # <<>> /\ p # layout.own
    BY <2>1, TestLemma
  <2>3. Len(p) > 0
    BY <2>2, NotEmpty DEF Path
  <2>4. d = SubSeq(p, 1, Len(p) - 1)
    BY <1>2 DEF DirOf, Front
  <2>5. /\ d \in Path /\ Len(d) = Len(p) - 1
        /\ \A i \in 1..(Len(p) - 1) : d[i] = p[1 + i - 1]
    <3>1. Len(p) - 1 \in 0..Len(p) /\ 1 \in Nat /\ 1 <= Len(p) - 1 + 1
      BY <1>1, <2>3
    <3>2. Len(p) - 1 - 1 + 1 = Len(p) - 1
      BY <1>1
    <3> QED
      BY <2>4, <3>1, <3>2, SubPath
  <2>6. \A i \in 1..(Len(p) - 1) : 1 + i - 1 = i
    BY <1>1
  <2> QED
    BY <1>1, <2>2, <2>3, <2>5, <2>6
<1>3. ASSUME p \notin FilesOf(layout.tests)
      PROVE  d = p
  BY <1>3 DEF DirOf
<1> HIDE DEF d
<1>4. d \in Path /\ Len(d) \in Nat /\ Len(d) <= Len(p) /\ \A i \in 1..Len(d) : d[i] = p[i]
  <2>1. d \in Path
    BY <1>2, <1>3
  <2>2. Len(d) \in Nat
    BY <2>1, LenProperties DEF Path
  <2>3. CASE p \in FilesOf(layout.tests)
    BY <1>1, <1>2, <2>1, <2>2, <2>3
  <2>4. CASE p \notin FilesOf(layout.tests)
    BY <1>1, <1>3, <2>1, <2>2, <2>4
  <2> QED
    BY <2>3, <2>4
<1>5. IsPrefix(d, p)
  BY <1>4, PrefixMeans
<1>6. ASSUME NEW t \in layout.tests, IsPrefix(p, t.file)
      PROVE  IsPrefix(d, t.file) /\ Len(d) < Len(t.file)
  <2>1. t.file \in Path /\ Len(t.file) \in Nat
    BY TestLemma, LenProperties DEF Path
  <2>2. Len(p) <= Len(t.file) /\ \A i \in 1..Len(p) : p[i] = t.file[i]
    BY <1>6, <2>1, PrefixMeans
  <2>3. Len(d) < Len(t.file)
    <3>1. CASE p \in FilesOf(layout.tests)
      BY <1>1, <1>2, <2>1, <2>2, <3>1
    <3>2. CASE p \notin FilesOf(layout.tests)
      <4>1. p # t.file
        BY <3>2 DEF FilesOf
      <4>2. Len(p) # Len(t.file)
        BY <2>1, <2>2, <4>1, SamePath
      <4> QED
        BY <1>1, <1>3, <2>1, <2>2, <3>2, <4>2
    <3> QED
      BY <3>1, <3>2
  <2> QED
    BY <1>4, <1>5, <1>6, <2>1, <2>3, PrefixChain
<1>7. ASSUME IsPrefix(layout.own, p)
      PROVE  IsPrefix(layout.own, d)
  <2>1. layout.own \in Path /\ Len(layout.own) \in Nat
    BY TestLemma, LenProperties DEF Path
  <2>2. Len(layout.own) <= Len(p) /\ \A i \in 1..Len(layout.own) : layout.own[i] = p[i]
    BY <1>7, <2>1, PrefixMeans
  <2>3. CASE p \in FilesOf(layout.tests)
    <3>1. Len(layout.own) # Len(p)
      BY <1>2, <2>1, <2>2, <2>3, SamePath
    <3>2. Len(layout.own) <= Len(d)
      BY <1>1, <1>2, <2>1, <2>2, <2>3, <3>1
    <3>3. \A i \in 1..Len(layout.own) : layout.own[i] = d[i]
      BY <1>4, <2>1, <2>2, <3>2
    <3> QED
      BY <1>4, <2>1, <3>2, <3>3, PrefixMeans
  <2>4. CASE p \notin FilesOf(layout.tests)
    BY <1>3, <1>7, <2>4
  <2> QED
    BY <2>3, <2>4
<1> QED
  BY <1>4, <1>5, <1>6, <1>7 DEF d

\* The root holds the suite, and is below a rootdir of the user's.
LEMMA RootLemma ==
  ASSUME layout \in Layouts, Targeted
  PROVE  /\ Root \in Path /\ Len(Root) \in Nat
         /\ \A t \in Collected(targets) : IsPrefix(Root, t.file) /\ Len(Root) < Len(t.file)
         /\ layout.own # NoDir => IsPrefix(layout.own, Root)
<1> DEFINE S == {DirOf(p) : p \in targets}
<1>1. S \in SUBSET Path /\ S # {}
  BY DirLemma DEF Targeted
<1>2. Root = LongestCommonPrefix(S)
  BY DEF Root, Common
<1> HIDE DEF S
<1>3. /\ Root \in Path /\ \A s \in S : IsPrefix(Root, s)
      /\ \A p \in Path : (\A s \in S : IsPrefix(p, s)) => IsPrefix(p, Root)
  BY <1>1, <1>2, CommonLemma
<1>4. Len(Root) \in Nat
  BY <1>3, LenProperties DEF Path
<1> USE DEF S
<1>5. ASSUME NEW t \in Collected(targets)
      PROVE  IsPrefix(Root, t.file) /\ Len(Root) < Len(t.file)
  <2>1. PICK p \in targets : IsPrefix(p, t.file)
    BY DEF Collected, Under
  <2>2. t \in layout.tests /\ p \in Path
    BY DEF Collected, Targeted
  <2>3. t.file \in Path /\ Len(t.file) \in Nat
    BY <2>2, TestLemma, LenProperties DEF Path
  <2>4. DirOf(p) \in Path /\ IsPrefix(DirOf(p), t.file) /\ Len(DirOf(p)) < Len(t.file)
    BY <2>1, <2>2, DirLemma
  <2>5. IsPrefix(Root, DirOf(p))
    BY <1>3
  <2>6. Len(Root) <= Len(DirOf(p)) /\ Len(DirOf(p)) \in Nat
    BY <1>3, <2>4, <2>5, PrefixMeans, LenProperties DEF Path
  <2> QED
    BY <1>3, <1>4, <2>3, <2>4, <2>5, <2>6, PrefixChain
<1>6. ASSUME layout.own # NoDir
      PROVE  IsPrefix(layout.own, Root)
  <2>1. \A p \in targets : p \in Path /\ IsPrefix(layout.own, p)
    BY <1>6 DEF Targeted
  <2>2. \A p \in targets : IsPrefix(layout.own, DirOf(p))
    BY <2>1, DirLemma
  <2>3. layout.own \in Path
    BY TestLemma
  <2> QED
    BY <1>3, <2>2, <2>3
<1> QED
  BY <1>3, <1>4, <1>5, <1>6

\* The rootdir of a run of the whole test_path is one directory: the root or a
\* parent of it, and one that reselect() takes for a rootdir.
Settled(dir) ==
  /\ RootdirsFor(targets, NoDir) = {dir} /\ dir # NoDir
  /\ \E n \in 0..Len(Root) : dir = SubSeq(Root, 1, n)
  /\ \A t \in Collected(targets) : Under(dir, t.file)
  /\ IF layout.own # NoDir THEN dir = layout.own ELSE dir = Root \/ dir \in layout.named

RootdirSettled == \A dir \in RootdirsFor(targets, NoDir) : Settled(dir)

LEMMA RootdirLemma == layout \in Layouts /\ Targeted /\ Anchored => RootdirSettled
<1> SUFFICES ASSUME layout \in Layouts, Targeted, Anchored,
                    NEW dir \in RootdirsFor(targets, NoDir)
             PROVE  Settled(dir)
  BY DEF RootdirSettled
<1>1. Root \in Path /\ Len(Root) \in Nat /\ SubSeq(Root, 1, Len(Root)) = Root
  BY RootLemma, SubSeqFull DEF Path
<1>4. /\ dir \in Path /\ IsPrefix(dir, Root) /\ RootdirsFor(targets, NoDir) = {dir}
      /\ IF layout.own # NoDir THEN dir = layout.own ELSE dir = Root \/ dir \in layout.named
  <2>1. IsPrefix(Root, Root)
    BY <1>1, PrefixMeans
  <2>2. layout.named \in SUBSET Path /\ layout.own \in Path
    BY TestLemma, LayoutsAssumption DEF Layout, Folders, Path
  <2>3. layout.own # NoDir => IsPrefix(layout.own, Root)
    BY RootLemma
  <2> QED
    BY <1>1, <2>1, <2>2, <2>3 DEF Anchored, RootdirsFor, Under
<1>5. \E n \in 0..Len(Root) : dir = SubSeq(Root, 1, n)
  BY <1>1, <1>4, SameBeginning
<1>6. ASSUME NEW t \in Collected(targets)
      PROVE  IsPrefix(dir, t.file)
  <2>1. IsPrefix(Root, t.file) /\ t.file \in Path
    BY RootLemma, TestLemma DEF Collected
  <2>2. Len(dir) \in Nat /\ Len(t.file) \in Nat
    BY <1>4, <2>1, LenProperties DEF Path
  <2>3. Len(dir) <= Len(Root) /\ \A i \in 1..Len(dir) : dir[i] = Root[i]
    BY <1>1, <1>4, PrefixMeans
  <2>4. Len(Root) <= Len(t.file) /\ \A i \in 1..Len(Root) : Root[i] = t.file[i]
    BY <1>1, <2>1, PrefixMeans
  <2> QED
    BY <1>1, <1>4, <2>1, <2>2, <2>3, <2>4, PrefixMeans
<1>7. dir # NoDir
  <2>1. PICK p \in targets : TRUE
    BY DEF Targeted
  <2>2. PICK t \in layout.tests : IsPrefix(p, t.file)
    BY DEF Targeted
  <2>3. t \in Collected(targets)
    BY <2>2 DEF Collected, Under
  <2> QED
    BY <1>6, <2>2, <2>3, TestLemma
<1> QED
  BY <1>4, <1>5, <1>6, <1>7 DEF Settled, Under

----------------------------------------------------------------------------
(* From a report's id back to its test *)

\* An id is the dotted name below the rootdir.
LEMMA IdLemma ==
  ASSUME layout \in Layouts, NEW t \in layout.tests, NEW dir \in Path,
         IsPrefix(dir, t.file), Len(dir) < Len(t.file)
  PROVE  LET rel == SubSeq(t.file, Len(dir) + 1, Len(t.file))
         IN  /\ rel \in Path /\ Len(rel) > 0 /\ dir \o rel = t.file
             /\ Len(rel) \in Nat
             /\ IdOf(t, dir).path = Segments(rel) \o t.scopes
             /\ IdOf(t, dir).leaf = <<t.name>> \o t.param
<1> DEFINE rel == SubSeq(t.file, Len(dir) + 1, Len(t.file))
<1>1. t.file \in Path /\ Len(t.file) \in Nat /\ Len(dir) \in Nat
  BY TestLemma, LenProperties DEF Path
<1>2. rel \in Path /\ Len(rel) = Len(t.file) - Len(dir)
  <2>1. /\ Len(dir) + 1 \in Nat /\ Len(t.file) \in 0..Len(t.file)
        /\ 1 <= Len(dir) + 1 /\ Len(dir) + 1 <= Len(t.file) + 1
    BY <1>1
  <2>2. Len(t.file) - (Len(dir) + 1) + 1 = Len(t.file) - Len(dir)
    BY <1>1
  <2> QED
    BY <1>1, <2>1, <2>2, SubPath
<1>3. dir \o rel = t.file
  <2>1. dir = SubSeq(t.file, 1, Len(dir)) /\ Len(dir) \in 0..Len(t.file)
    BY <1>1, SameBeginning
  <2> QED
    BY <1>1, <2>1, CutAndJoin
<1> DEFINE u == [t EXCEPT !.file = rel]
<1>4. t \in Test
  <2>1. layout \in Layout
    BY LayoutsAssumption
  <2> QED
    BY <2>1 DEF Layout
<1>5. u.file = rel /\ u.scopes = t.scopes /\ u.name = t.name /\ u.param = t.param
  BY <1>4 DEF Test
<1>6. IdOf(t, dir) = Split(u)
  BY DEF IdOf
<1> HIDE DEF u, rel
<1>7. Split(u) = [path |-> Segments(rel) \o t.scopes, leaf |-> <<t.name>> \o t.param]
  BY <1>5 DEF Split
<1> DEFINE a == Segments(rel) \o t.scopes
           b == <<t.name>> \o t.param
<1>8. IdOf(t, dir).path = a /\ IdOf(t, dir).leaf = b
  <2> HIDE DEF a, b
  <2>1. IdOf(t, dir) = [path |-> a, leaf |-> b]
    BY <1>6, <1>7 DEF a, b
  <2> QED
    BY <2>1
<1>9. Len(rel) > 0 /\ Len(rel) \in Nat
  BY <1>1, <1>2
<1> QED
  BY <1>2, <1>3, <1>8, <1>9 DEF rel

\* Where NoEcho holds, the id of a test of the suite is looked up at the rootdir
\* it is relative to, or not at all; and a conventional one is.
LEMMA LookupLemma ==
  ASSUME layout \in Layouts, Targeted, NoEcho, NEW t \in Collected(targets),
         NEW n \in 0..Len(Root)
  PROVE  LET id == IdOf(t, SubSeq(Root, 1, n))
         IN  /\ Located(id) => /\ BaseOf(id) = SubSeq(Root, 1, n)
                               /\ SelectorOf(id) = [file |-> t.file, rest |-> RestOf(t)]
             /\ Conventional(t) => Located(id)
<1> DEFINE dir == SubSeq(Root, 1, n)
           id == IdOf(t, dir)
           rel == SubSeq(t.file, Len(dir) + 1, Len(t.file))
           file == Converted(id).file
           size == Len(id.path)
<1>1. /\ t \in layout.tests /\ Root \in Path /\ Len(Root) \in Nat
      /\ IsPrefix(Root, t.file) /\ Len(Root) < Len(t.file)
      /\ t.file \in Path /\ Len(t.file) \in Nat /\ t.scopes \in Path
      /\ t.name \in STRING /\ t.param \in Path
  <2>1. t \in layout.tests
    BY DEF Collected
  <2>2. t.file \in Path /\ t.scopes \in Path /\ t.name \in STRING /\ t.param \in Path
    BY <2>1, TestLemma
  <2> QED
    BY <2>1, <2>2, RootLemma, LenProperties DEF Path
<1>2. dir \in Path /\ Len(dir) = n /\ IsPrefix(dir, t.file) /\ Len(dir) < Len(t.file)
  <2>1. dir \in Path /\ Len(dir) = n /\ \A i \in 1..n : dir[i] = Root[i]
    BY <1>1, SubPath
  <2>2. Len(Root) <= Len(t.file) /\ \A i \in 1..Len(Root) : Root[i] = t.file[i]
    BY <1>1, PrefixMeans
  <2> HIDE DEF dir
  <2>3. IsPrefix(dir, t.file)
    BY <1>1, <2>1, <2>2, PrefixMeans
  <2> QED
    BY <1>1, <2>1, <2>3
<1> HIDE DEF dir
<1>3. /\ rel \in Path /\ Len(rel) > 0 /\ dir \o rel = t.file /\ Len(rel) \in Nat
      /\ id.path = Segments(rel) \o t.scopes /\ id.leaf = <<t.name>> \o t.param
  BY <1>1, <1>2, IdLemma
<1> HIDE DEF rel, id
<1>4. /\ Segments(rel) \in Path
      /\ (\A i \in DOMAIN rel : rel[i] \notin DOMAIN Dotted) => Segments(rel) = rel
      /\ /\ Len(rel) <= Len(Segments(rel) \o t.scopes)
         /\ SubSeq(Segments(rel) \o t.scopes, 1, Len(rel)) = rel
         => Segments(rel) = rel
  BY <1>1, <1>3, SegmentsExact
<1>5. id.path \in Path /\ size \in Nat /\ Len(id.path) = Len(Segments(rel)) + Len(t.scopes)
  <2> DEFINE segs == Segments(rel)
  <2>1. segs \in Path /\ t.scopes \in Path /\ id.path = segs \o t.scopes
    BY <1>1, <1>3, <1>4
  <2> HIDE DEF segs
  <2>2. segs \o t.scopes \in Path /\ Len(segs \o t.scopes) = Len(segs) + Len(t.scopes)
    BY <2>1, Joined
  <2>3. id.path \in Path /\ Len(id.path) = Len(segs) + Len(t.scopes)
    BY <2>1, <2>2
  <2>4. size \in Nat
    BY <2>3, LenProperties DEF Path
  <2> QED
    BY <2>3, <2>4 DEF segs
<1>6. PICK k \in 0..size :
        /\ file = SubSeq(id.path, 1, k)
        /\ k > 0 => Converted(id).rest = SubSeq(id.path, k + 1, size) \o id.leaf
        /\ \A j \in 0..size :
             /\ \A i \in 1..j : id.path[i] \notin ClassLike
             /\ j < size => id.path[j + 1] \in ClassLike
             => k = j
  BY <1>5, ConvertedLemma
<1>7. file \in Path /\ Len(file) = k
  BY <1>5, <1>6, SubPath
<1> HIDE DEF file, size
<1> DEFINE Found(m) == LET p == SubSeq(Root, 1, m) \o file
                       IN  Under(Root, p) /\ p \in FilesOf(layout.tests)
\* Only at the rootdir, where it is the test's own file.
<1>8. ASSUME NEW m \in 0..Len(Root), Found(m)
      PROVE  m = n /\ SubSeq(Root, 1, m) \o file = t.file
  <2> DEFINE b == SubSeq(Root, 1, m)
             p == b \o file
  <2>1. b \in Path /\ Len(b) = m
    BY <1>1, SubPath
  <2>2. SubSeq(p, m + 1, Len(p)) = file
    <3> HIDE DEF b
    <3> QED
      BY <1>7, <2>1, JoinAndCut
  <2>3. p \in FilesOf(layout.tests) /\ Under(Root, p) /\ Under(Root, t.file)
    BY <1>1, <1>8 DEF Under
  <2> HIDE DEF p
  <2>4. p = t.file /\ m = n
    BY <1>1, <2>2, <2>3 DEF NoEcho, file, id, dir
  <2> QED
    BY <2>4 DEF p
<1>9. Bases(file) = {m \in {l \in 0..Len(Root) : Found(l)} :
                       \A l \in {j \in 0..Len(Root) : Found(j)} : l <= m}
  BY DEF Bases
<1> HIDE DEF Found
<1>10. \A m \in Bases(file) : m = n /\ Found(n)
  BY <1>8, <1>9
<1>11. ASSUME Located(id)
       PROVE  /\ BaseOf(id) = dir
              /\ SelectorOf(id) = [file |-> t.file, rest |-> RestOf(t)]
  <2>1. Bases(file) = {n}
    BY <1>10, <1>11 DEF Located, file
  <2>2. BaseOf(id) = dir
    BY <2>1 DEF BaseOf, file, dir
  <2>3. dir \o file = t.file
    BY <1>8, <1>10, <2>1 DEF dir
  <2>4. file = rel
    <3>1. SubSeq(dir \o file, Len(dir) + 1, Len(dir \o file)) = file
      BY <1>2, <1>7, JoinAndCut
    <3>2. SubSeq(dir \o rel, Len(dir) + 1, Len(dir \o rel)) = rel
      BY <1>2, <1>3, JoinAndCut
    <3> QED
      BY <1>3, <2>3, <3>1, <3>2
  <2>5. Len(rel) = k /\ SubSeq(id.path, 1, k) = rel
    BY <1>6, <1>7, <2>4
  <2>6. Segments(rel) = rel
    <3>1. Len(rel) <= Len(id.path)
      BY <1>5, <2>5 DEF size
    <3>2. id.path = Segments(rel) \o t.scopes /\ SubSeq(id.path, 1, Len(rel)) = rel
      BY <1>3, <2>5
    <3> QED
      BY <1>4, <3>1, <3>2
  <2>7. SubSeq(id.path, k + 1, size) = t.scopes
    BY <1>1, <1>3, <2>5, <2>6, JoinAndCut, SMTT(20) DEF size
  <2>8. Converted(id).rest = RestOf(t)
    <3>1. Converted(id).rest = t.scopes \o (<<t.name>> \o t.param)
      BY <1>3, <1>6, <2>5, <2>7
    <3>2. <<t.name>> \in Path
      BY <1>1 DEF Path
    <3>3. (t.scopes \o <<t.name>>) \o t.param = t.scopes \o (<<t.name>> \o t.param)
      <4> DEFINE a == t.scopes
                 b == <<t.name>>
                 c == t.param
      <4>1. a \in Path /\ b \in Path /\ c \in Path
        BY <1>1, <3>2
      <4> HIDE DEF a, b, c
      <4>2. (a \o b) \o c = a \o (b \o c)
        BY <4>1, ConcatAssociative DEF Path
      <4> QED
        BY <4>2 DEF a, b, c
    <3> QED
      BY <3>1, <3>3 DEF RestOf
  <2> QED
    BY <2>2, <2>3, <2>8 DEF SelectorOf, file
<1>12. ASSUME Conventional(t)
       PROVE  Located(id)
  <2>1. \A i \in 1..Len(rel) : rel[i] \notin ClassLike /\ rel[i] \notin DOMAIN Dotted
    <3> TAKE i \in 1..Len(rel)
    <3>1. (dir \o rel)[Len(dir) + i] = rel[i]
      BY <1>2, <1>3, Joined
    <3>2. Len(dir) + i \in 1..Len(t.file)
      <4>1. Len(dir \o rel) = Len(dir) + Len(rel)
        BY <1>2, <1>3, Joined
      <4>2. Len(dir) \in Nat
        BY <1>2
      <4> QED
        BY <1>3, <4>1, <4>2
    <3>3. DOMAIN t.file = 1..Len(t.file)
      BY <1>1, LenProperties DEF Path
    <3> QED
      BY <1>3, <1>12, <3>1, <3>2, <3>3 DEF Conventional
  <2>2. Segments(rel) = rel
    <3>1. DOMAIN rel = 1..Len(rel)
      BY <1>3, LenProperties DEF Path
    <3> QED
      BY <1>4, <2>1, <3>1
  <2>3. /\ size = Len(rel) + Len(t.scopes) /\ Len(t.scopes) \in Nat
        /\ \A i \in 1..Len(rel) : id.path[i] = rel[i]
        /\ \A i \in 1..Len(t.scopes) : id.path[Len(rel) + i] = t.scopes[i]
    <3> DEFINE c == t.scopes
    <3>1. rel \in Path /\ c \in Path /\ id.path = rel \o c
      BY <1>1, <1>3, <2>2
    <3> HIDE DEF c
    <3>2. /\ Len(rel \o c) = Len(rel) + Len(c) /\ Len(c) \in Nat
          /\ \A i \in 1..Len(rel) : (rel \o c)[i] = rel[i]
          /\ \A i \in 1..Len(c) : (rel \o c)[Len(rel) + i] = c[i]
      BY <3>1, Joined
    <3> QED
      BY <3>1, <3>2 DEF c, size
  <2>4. Len(rel) < size => id.path[Len(rel) + 1] \in ClassLike
    <3> SUFFICES ASSUME Len(rel) < size
                 PROVE  id.path[Len(rel) + 1] \in ClassLike
      OBVIOUS
    <3>1. Len(t.scopes) > 0
      BY <1>3, <2>3
    <3>2. t.scopes # <<>>
      BY <3>1, EmptySeq
    <3>3. t.scopes[1] \in ClassLike
      BY <1>12, <3>2 DEF Conventional
    <3> QED
      BY <2>3, <3>1, <3>3
  <2>5. k = Len(rel)
    <3>1. Len(rel) \in 0..size /\ \A i \in 1..Len(rel) : id.path[i] \notin ClassLike
      <4>1. Len(rel) \in 0..size
        BY <1>3, <2>3
      <4> QED
        BY <2>1, <2>3, <4>1
    <3> QED
      BY <1>6, <2>4, <3>1
  <2>6. file = rel
    BY <1>1, <1>3, <1>6, <2>2, <2>5, JoinAndCut
  <2>7. Found(n)
    BY <1>1, <1>3, <2>6 DEF Found, Under, FilesOf, dir
  <2>8. n \in Bases(file)
    <3>1. \A m \in 0..Len(Root) : Found(m) => m <= n
      BY <1>1, <1>8
    <3> QED
      BY <1>9, <2>7, <3>1
  <2>9. file # NoFile
    BY <1>3, <2>6, EmptySeq DEF NoFile, Path
  <2> QED
    BY <2>8, <2>9 DEF Located, file
<1> QED
  BY <1>11, <1>12 DEF id, dir

\* The ids of some tests in a report, and those of the tests that reselect() finds.
Ids(tests, dir) == {IdOf(t, dir) : t \in tests}
Reached(tests, dir) == {t \in tests : Located(IdOf(t, dir))}

\* The ids lead back to the tests: a selector is made for each that is found and
\* hits just that test; the others break the convention; the rootdir stays.
LeadsBack(plan, tests, dir) ==
  LET good == Reached(tests, dir)
  IN  /\ {Hit(s) : s \in plan.selectors} = {{t} : t \in good}
      /\ plan.missing = Ids(tests \ good, dir)
      /\ plan.selectors # {} => RootdirsFor({s.file : s \in plan.selectors}, plan.pinned) = {dir}
      /\ \A t \in tests \ good : ~Conventional(t)

LEMMA PlanLemma ==
  ASSUME layout \in Layouts, Targeted, NoEcho, NEW T \in SUBSET Collected(targets),
         NEW dir, Settled(dir)
  PROVE  LeadsBack(Plan(Ids(T, dir)), T, dir)
<1> DEFINE ids == Ids(T, dir)
           good == Reached(T, dir)
           located == {i \in ids : Located(i)}
           sel(t) == [file |-> t.file, rest |-> RestOf(t)]
           selectors == {SelectorOf(i) : i \in located}
           missing == ids \ located
           pinned == Plausible({BaseOf(i) : i \in located})
<1>1. /\ \E n \in 0..Len(Root) : dir = SubSeq(Root, 1, n)
      /\ dir # NoDir
      /\ IF layout.own # NoDir THEN dir = layout.own ELSE dir = Root \/ dir \in layout.named
  BY DEF Settled
<1>2. \A t \in T : /\ t \in layout.tests
                   /\ Located(IdOf(t, dir)) => /\ BaseOf(IdOf(t, dir)) = dir
                                               /\ SelectorOf(IdOf(t, dir)) = sel(t)
                   /\ Conventional(t) => Located(IdOf(t, dir))
  <2> TAKE t \in T
  <2>1. t \in Collected(targets) /\ t \in layout.tests
    BY DEF Collected
  <2>2. PICK n \in 0..Len(Root) : dir = SubSeq(Root, 1, n)
    BY <1>1
  <2>3. /\ Located(IdOf(t, SubSeq(Root, 1, n))) =>
             /\ BaseOf(IdOf(t, SubSeq(Root, 1, n))) = SubSeq(Root, 1, n)
             /\ SelectorOf(IdOf(t, SubSeq(Root, 1, n))) = sel(t)
        /\ Conventional(t) => Located(IdOf(t, SubSeq(Root, 1, n)))
    BY <2>1, LookupLemma
  <2> QED
    BY <2>1, <2>2, <2>3
<1>3. located = {IdOf(t, dir) : t \in good}
  BY DEF Reached, Ids
<1>4. selectors = {sel(t) : t \in good}
  BY <1>2, <1>3 DEF Reached
<1>5. \A t \in good : Hit(sel(t)) = {t}
  <2> TAKE t \in good
  <2>1. t \in layout.tests
    BY <1>2 DEF Reached
  <2>2. \A u \in layout.tests : u.file = t.file /\ RestOf(u) = RestOf(t) => u = t
    BY <2>1, LayoutsAssumption
  <2> QED
    BY <2>1, <2>2 DEF Hit
<1>6. {Hit(s) : s \in selectors} = {{t} : t \in good}
  <2> HIDE DEF selectors, sel
  <2> QED
    BY <1>4, <1>5
<1>7. missing = Ids(T \ good, dir)
  BY DEF Reached, Ids
<1>8. ASSUME selectors # {}
      PROVE  RootdirsFor({s.file : s \in selectors}, pinned) = {dir}
  <2>1. good # {}
    BY <1>4, <1>8
  <2>2. {BaseOf(i) : i \in located} = {dir}
    BY <1>2, <1>3, <2>1 DEF Reached
  <2>3. Cardinality({dir}) = 1
    BY FS_Singleton
  <2>4. (CHOOSE d \in {dir} : TRUE) = dir
    OBVIOUS
  <2>5. pinned = IF dir = Root \/ dir \in layout.named THEN dir ELSE NoDir
    BY <2>2, <2>3, <2>4 DEF Plausible
  <2> HIDE DEF pinned, selectors
  <2> QED
    BY <1>1, <2>5 DEF RootdirsFor
<1>9. \A t \in T \ good : ~Conventional(t)
  BY <1>2 DEF Reached
<1>10. /\ Plan(ids).selectors = selectors /\ Plan(ids).missing = missing
       /\ Plan(ids).pinned = pinned
  <2>1. Plan(ids) = [selectors |-> selectors, missing |-> missing, pinned |-> pinned]
    BY DEF Plan
  <2> HIDE DEF selectors, missing, pinned
  <2> QED
    BY <2>1
<1> HIDE DEF ids, selectors, missing, pinned, good
<1>11. /\ {Hit(s) : s \in Plan(ids).selectors} = {{t} : t \in good}
       /\ Plan(ids).missing = Ids(T \ good, dir)
       /\ Plan(ids).selectors # {} =>
            RootdirsFor({s.file : s \in Plan(ids).selectors}, Plan(ids).pinned) = {dir}
  BY <1>6, <1>7, <1>8, <1>10
<1> QED
  BY <1>9, <1>11 DEF good, ids, LeadsBack

----------------------------------------------------------------------------
(* The runs *)

\* What the reports of a suite or shard say of its tests, without an echo and
\* under a rootdir that can be inferred.
Faithful ==
  /\ Settled(rootdir)
  /\ bad \subseteq mine /\ pending = Ids(bad, rootdir)
  /\ strays \subseteq mine /\ stuck = Ids(strays, rootdir)
  /\ \A t \in strays : ~Conventional(t)
  /\ ~refused

SelectionInv ==
  /\ ShardInv /\ layout \in Layouts /\ count = Cardinality(Collected(layout.suite))
  /\ Targeted /\ mine \subseteq Collected(targets) /\ round \in Nat
  /\ mine = {} => /\ targets = layout.suite /\ ~refused
                  /\ bad = {} /\ pending = {} /\ stuck = {} /\ strays = {}
  /\ mine # {} /\ NoEcho /\ Anchored => Faithful

\* A run of tests of the suite under such a rootdir reports their ids below it.
LEMMA RunLemma ==
  ASSUME NEW dir, Settled(dir), NEW T \in SUBSET Collected(targets), NEW paths, NEW pinned,
         RootdirsFor(paths, pinned) = {dir}, RunOf(T, paths, pinned)
  PROVE  asked' = T /\ rootdir' = dir /\ bad' \subseteq T /\ pending' = Ids(bad', dir)
<1>1. \A t \in T : Origin(t, dir, paths) = dir
  BY DEF Settled, Origin
<1>2. /\ asked' = T /\ rootdir' = dir /\ bad' \subseteq T
      /\ pending' = {IdOf(t, Origin(t, dir, paths)) : t \in bad'}
  BY DEF RunOf
<1> QED
  BY <1>1, <1>2 DEF Ids

\* The tree stays as it is, and so does what pytest makes of it.
LEMMA TreeLemma ==
  ASSUME UNCHANGED <<layout, targets>>
  PROVE  /\ RootdirsFor(targets, NoDir)' = RootdirsFor(targets, NoDir)
         /\ Root' = Root /\ Anchored' = Anchored
<1>1. Root' = Root
  BY DEF Root, Common, DirOf, FilesOf
<1>2. DerivedRootdirs(targets)' = DerivedRootdirs(targets)
  BY DEF DerivedRootdirs, Configs, Nearest, Common, DirOf, FilesOf, Under
<1>3. RootdirsFor(targets, NoDir)' = RootdirsFor(targets, NoDir)
  BY <1>2 DEF RootdirsFor
<1>4. Anchored' = Anchored
  BY <1>1, <1>2 DEF Anchored, Under
<1> QED
  BY <1>1, <1>3, <1>4

LEMMA SuiteLemma ==
  ASSUME layout \in Layouts, targets = layout.suite
  PROVE  /\ Targeted /\ Collected(targets) # {}
         /\ IsFiniteSet(Collected(targets)) /\ Cardinality(Collected(targets)) \in Nat
<1>1. /\ layout.suite # {} /\ \A p \in layout.suite : \E t \in layout.tests : IsPrefix(p, t.file)
      /\ layout.own # NoDir => \A p \in layout.suite : IsPrefix(layout.own, p)
  BY LayoutsAssumption
<1>2. layout.suite \in SUBSET Path /\ IsFiniteSet(layout.tests)
  BY TestLemma
<1>3. Targeted
  BY <1>1, <1>2 DEF Targeted
<1>4. Collected(targets) # {}
  BY <1>1 DEF Collected, Under
<1>5. Collected(targets) \in SUBSET layout.tests
  BY DEF Collected
<1>6. IsFiniteSet(Collected(targets))
  BY <1>2, <1>5, FS_Subset
<1> QED
  BY <1>3, <1>4, <1>6, FS_CardinalityType

\* A group of the cut suite has tests of it, and their files are targets.
LEMMA GroupLemma ==
  ASSUME ShardInv, Sharded, layout \in Layouts,
         count = Cardinality(Collected(layout.suite)), NEW k \in DOMAIN groups
  PROVE  /\ Group(groups[k]) # {} /\ Group(groups[k]) \subseteq Collected(layout.suite)
<1> DEFINE S == Collected(layout.suite)
           first == groups[k].first
           last == groups[k].last
<1>1. /\ first \in Int /\ last \in Int /\ 1 <= first /\ last <= count /\ first <= last
  BY ShardEnd
<1>2. IsFiniteSet(S)
  <2>1. S \in SUBSET layout.tests
    BY DEF Collected
  <2> QED
    BY <2>1, TestLemma, FS_Subset
<1>3. count \in Nat /\ ExistsBijection(1..count, S)
  BY <1>2, FS_CardinalityType
<1> HIDE DEF S
<1>4. Order \in [1..count -> S]
  <2>1. PICK f : f \in Bijection(1..count, S)
    BY <1>3 DEF ExistsBijection
  <2>2. f \in [1..count -> S] /\ IsInjective(f)
    BY <2>1 DEF Bijection, Injection
  <2>3. Order = CHOOSE g \in [1..count -> S] : IsInjective(g)
    BY DEF Order, SetToSeq, S
  <2> QED
    BY <2>2, <2>3
<1>5. \A j \in first..last : j \in 1..count
  BY <1>1, <1>3
<1>6. \A j \in first..last : Order[j] \in S
  BY <1>4, <1>5
<1>7. first \in first..last
  BY <1>1
<1>8. Group(groups[k]) = {Order[j] : j \in first..last}
  BY DEF Group
<1> HIDE DEF first, last
<1> QED
  BY <1>6, <1>7, <1>8 DEF S

\* Files of tests of the suite are a test_path as good as the suite's.
LEMMA FilesLemma ==
  ASSUME layout \in Layouts, NEW T \in SUBSET Collected(layout.suite), T # {}
  PROVE  /\ FilesOf(T) \in SUBSET Path /\ FilesOf(T) # {}
         /\ \A p \in FilesOf(T) : \E t \in layout.tests : IsPrefix(p, t.file)
         /\ layout.own # NoDir => \A p \in FilesOf(T) : IsPrefix(layout.own, p)
         /\ T \subseteq Collected(FilesOf(T))
<1>1. \A t \in T : /\ t \in layout.tests /\ t.file \in Path
                   /\ IsPrefix(t.file, t.file)
                   /\ \E p \in layout.suite : p \in Path /\ IsPrefix(p, t.file)
  <2> TAKE t \in T
  <2>1. t \in layout.tests /\ \E p \in layout.suite : IsPrefix(p, t.file)
    BY DEF Collected, Under
  <2>2. t.file \in Path /\ layout.suite \in SUBSET Path
    BY <2>1, TestLemma
  <2>3. IsPrefix(t.file, t.file)
    <3>1. Len(t.file) \in Nat
      BY <2>2, LenProperties DEF Path
    <3> QED
      BY <2>2, <3>1, PrefixMeans
  <2> QED
    BY <2>1, <2>2, <2>3
<1>2. ASSUME layout.own # NoDir, NEW t \in T
      PROVE  IsPrefix(layout.own, t.file)
  <2>1. PICK p \in layout.suite : p \in Path /\ IsPrefix(p, t.file)
    BY <1>1
  <2>2. IsPrefix(layout.own, p)
    BY <1>2, LayoutsAssumption
  <2>3. layout.own \in Path
    BY TestLemma
  <2> QED
    BY <1>1, <2>1, <2>2, <2>3, PrefixChain
<1>3. T \subseteq Collected(FilesOf(T))
  BY <1>1 DEF Collected, Under, FilesOf
<1>4. \A p \in FilesOf(T) : \E t \in T : p = t.file
  BY DEF FilesOf
<1> QED
  BY <1>1, <1>2, <1>3, <1>4 DEF FilesOf

LEMMA StartLemma == SelectionInit => SelectionInv
<1> SUFFICES ASSUME SelectionInit
             PROVE  SelectionInv
  OBVIOUS
<1>1. /\ layout \in Layouts /\ targets = layout.suite /\ mine = {}
      /\ count = Cardinality(Collected(layout.suite)) /\ wanted \in 1..MaxShards
      /\ groups = <<>> /\ start = 0 /\ round = 0 /\ ~refused
      /\ bad = {} /\ pending = {} /\ stuck = {} /\ strays = {}
  BY DEF SelectionInit
<1>2. Targeted /\ count \in Nat
  BY <1>1, SuiteLemma
<1>3. wanted \in Nat \ {0}
  BY <1>1, BoundsAssumption
<1>4. ShardInv
  BY <1>1, <1>2, <1>3, ShardStart DEF ShardInit
<1> QED
  BY <1>1, <1>2, <1>4 DEF SelectionInv

LEMMA FirstRunLemma == SelectionInv /\ FirstRun => SelectionInv' /\ round' = round
<1> SUFFICES ASSUME SelectionInv, FirstRun
             PROVE  SelectionInv' /\ round' = round
  OBVIOUS
<1>1. /\ layout \in Layouts /\ targets = layout.suite /\ Targeted /\ ShardInv /\ Sharded
      /\ count = Cardinality(Collected(layout.suite))
      /\ ~refused /\ stuck = {} /\ strays = {} /\ round \in Nat
  BY DEF SelectionInv, FirstRun
<1>2. /\ layout' = layout /\ stuck' = {} /\ strays' = {} /\ round' = round /\ ~refused'
      /\ UNCHANGED sharding
      /\ rootdir' \in RootdirsFor(targets', NoDir) /\ bad' \subseteq mine'
      /\ pending' = {IdOf(t, Origin(t, rootdir', targets')) : t \in bad'}
  BY <1>1 DEF FirstRun, WholeRun, RunOf
<1>3. /\ targets' \in SUBSET Path /\ targets' # {}
      /\ \A p \in targets' : \E t \in layout.tests : IsPrefix(p, t.file)
      /\ layout.own # NoDir => \A p \in targets' : IsPrefix(layout.own, p)
      /\ mine' # {} /\ mine' \subseteq Collected(targets')
  <2>1. CASE wanted = 1 /\ mine' = Collected(targets) /\ UNCHANGED targets
    BY <1>1, <2>1, SuiteLemma DEF Targeted
  <2>2. CASE \E k \in DOMAIN groups : mine' = Group(groups[k]) /\ targets' = FilesOf(mine')
    <3>1. PICK k \in DOMAIN groups : mine' = Group(groups[k]) /\ targets' = FilesOf(mine')
      BY <2>2
    <3>2. mine' # {} /\ mine' \in SUBSET Collected(layout.suite)
      BY <1>1, <3>1, GroupLemma
    <3> QED
      BY <1>1, <3>1, <3>2, FilesLemma
  <2> QED
    BY <2>1, <2>2 DEF FirstRun
<1>4. Targeted'
  BY <1>2, <1>3 DEF Targeted
<1>5. (mine \subseteq Collected(targets))'
  BY <1>2, <1>3 DEF Collected
<1>6. ShardInv'
  BY <1>1, <1>2, ShardStep
<1>7. (count = Cardinality(Collected(layout.suite)))'
  <2>1. Collected(layout.suite)' = Collected(layout.suite)
    BY <1>2 DEF Collected
  <2>2. count' = count
    BY <1>2 DEF sharding
  <2> QED
    BY <1>1, <1>2, <2>1, <2>2
<1>8. RootdirsFor(targets, NoDir)' = RootdirsFor(targets', NoDir)
  BY <1>2 DEF RootdirsFor, DerivedRootdirs, Configs, Nearest, Common, DirOf, FilesOf, Under
<1>9. ASSUME Anchored'
      PROVE  Faithful'
  <2>1. RootdirSettled'
    <3>1. (layout \in Layouts /\ Targeted /\ Anchored => RootdirSettled)'
      BY RootdirLemma, PTL
    <3> QED
      BY <1>1, <1>2, <1>4, <1>9, <3>1
  <2>2. Settled(rootdir)'
    BY <1>2, <1>8, <2>1 DEF RootdirSettled, Settled
  <2>3. \A t \in bad' : Origin(t, rootdir', targets') = rootdir'
    BY <1>2, <1>3, <2>2 DEF Settled, Origin, Collected, Under
  <2>4. pending' = Ids(bad', rootdir') /\ stuck' = Ids(strays', rootdir')
    BY <1>2, <2>3 DEF Ids
  <2> QED
    BY <1>2, <2>2, <2>4 DEF Faithful
<1> QED
  BY <1>1, <1>2, <1>3, <1>4, <1>5, <1>6, <1>7, <1>9 DEF SelectionInv

LEMMA ShardRunLemma == SelectionInv /\ (Shard \/ UNCHANGED all) => SelectionInv' /\ round' = round
<1> SUFFICES ASSUME SelectionInv, Shard \/ UNCHANGED all
             PROVE  SelectionInv' /\ round' = round
  OBVIOUS
<1>1. [Cut]_sharding /\ UNCHANGED <<layout, targets, mine>> /\ UNCHANGED running
  BY DEF Shard, choosing, all
<1>2. ShardInv'
  BY <1>1, ShardStep DEF SelectionInv
<1>3. count' = count
  BY <1>1 DEF Cut, sharding
<1>4. /\ Targeted' = Targeted /\ Collected(targets)' = Collected(targets)
      /\ Collected(layout.suite)' = Collected(layout.suite)
  BY <1>1 DEF Targeted, Collected
<1>5. NoEcho' = NoEcho
  BY <1>1 DEF NoEcho, Root, Common, DirOf, FilesOf
<1>6. /\ RootdirsFor(targets, NoDir)' = RootdirsFor(targets, NoDir)
      /\ Root' = Root /\ Anchored' = Anchored
  BY <1>1, TreeLemma
<1>7. Faithful' = Faithful
  BY <1>1, <1>4, <1>6 DEF Faithful, Settled, running
<1> QED
  BY <1>1, <1>2, <1>3, <1>4, <1>5, <1>6, <1>7 DEF SelectionInv, running

\* What a narrowed run does where nothing echoes: all that fails and is found
\* runs, under the same rootdir.
LEMMA RerunLemma ==
  ASSUME SelectionInv, NoEcho, Anchored, Rerun
  PROVE  /\ Faithful /\ mine # {} /\ ~refused'
         /\ rootdir' = rootdir /\ asked' = Reached(bad, rootdir)
         /\ bad' \subseteq asked' /\ pending' = Ids(bad', rootdir)
         /\ strays' = strays \cup (bad \ Reached(bad, rootdir))
         /\ stuck' = Ids(strays', rootdir)
         /\ \A t \in strays' : ~Conventional(t)
<1> DEFINE plan == Plan(pending)
           good == Reached(bad, rootdir)
           hits == {Hit(s) : s \in plan.selectors}
<1>1. /\ plan.selectors # {} /\ ~refused /\ Narrowed(plan)
      /\ stuck' = stuck \cup plan.missing
      /\ strays' = strays \cup {t \in bad : IdOf(t, Origin(t, rootdir, args)) \in plan.missing}
  BY DEF Rerun
<1>2. mine # {}
  <2> SUFFICES ASSUME mine = {}
               PROVE  FALSE
    OBVIOUS
  <2>1. pending = {}
    BY DEF SelectionInv
  <2>2. Plan({}).selectors = {}
    BY DEF Plan
  <2> QED
    BY <1>1, <2>1, <2>2
<1>3. Faithful /\ layout \in Layouts /\ Targeted /\ mine \subseteq Collected(targets)
  BY <1>2 DEF SelectionInv
<1>4. /\ hits = {{t} : t \in good}
      /\ plan.missing = Ids(bad \ good, rootdir)
      /\ RootdirsFor({s.file : s \in plan.selectors}, plan.pinned) = {rootdir}
      /\ \A t \in bad \ good : ~Conventional(t)
  <2>1. /\ bad \in SUBSET Collected(targets) /\ pending = Ids(bad, rootdir)
        /\ Settled(rootdir)
    BY <1>3 DEF Faithful
  <2>2. LeadsBack(Plan(Ids(bad, rootdir)), bad, rootdir)
    BY <1>3, <2>1, PlanLemma
  <2> QED
    BY <1>1, <2>1, <2>2 DEF LeadsBack
<1>5. \A t \in bad : IdOf(t, Origin(t, rootdir, args)) \in plan.missing <=> t \notin good
  <2> TAKE t \in bad
  <2>0. Origin(t, rootdir, args) = rootdir
    BY <1>3 DEF Faithful, Settled, Origin
  <2>1. \A u \in bad : u \in good <=> Located(IdOf(u, rootdir))
    BY DEF Reached
  <2>2. ASSUME IdOf(t, rootdir) \in plan.missing
        PROVE  t \notin good
    <3>1. PICK u \in bad \ good : IdOf(t, rootdir) = IdOf(u, rootdir)
      BY <1>4, <2>2 DEF Ids
    <3> QED
      BY <2>1, <3>1
  <2> QED
    BY <1>4, <2>0, <2>2 DEF Ids
<1> HIDE DEF plan, good
<1>6. {} \notin hits /\ UNION hits = good
  BY <1>4
<1>7. /\ asked' = good /\ rootdir' = rootdir /\ bad' \subseteq good
      /\ pending' = Ids(bad', rootdir) /\ UNCHANGED refused
  <2> DEFINE paths == {s.file : s \in plan.selectors}
             pinned == plan.pinned
  <2>1. IF {} \in hits
        THEN /\ refused' = TRUE
             /\ UNCHANGED <<asked, args, rootdir, bad, pending>>
        ELSE /\ RunOf(UNION hits, paths, pinned)
             /\ UNCHANGED refused
    BY <1>1 DEF Narrowed
  <2>2. RootdirsFor(paths, pinned) = {rootdir}
    BY <1>4
  <2>3. good \in SUBSET Collected(targets) /\ Settled(rootdir)
    BY <1>3 DEF Faithful, good, Reached
  <2> HIDE DEF hits, paths, pinned
  <2>4. RunOf(good, paths, pinned) /\ UNCHANGED refused
    BY <1>6, <2>1
  <2> QED
    BY <2>2, <2>3, <2>4, RunLemma
<1>8. strays' = strays \cup (bad \ good)
  BY <1>1, <1>5
<1>9. stuck' = Ids(strays', rootdir)
  BY <1>1, <1>3, <1>4, <1>8 DEF Faithful, Ids
<1>10. \A t \in strays' : ~Conventional(t)
  BY <1>3, <1>4, <1>8 DEF Faithful
<1> QED
  BY <1>1, <1>2, <1>3, <1>7, <1>8, <1>9, <1>10 DEF good

LEMMA RetryLemma ==
  ASSUME SelectionInv, NoEcho, Anchored, Retry
  PROVE  /\ Faithful /\ mine # {} /\ ~refused'
         /\ rootdir' = rootdir
         /\ bad' \subseteq asked' /\ pending' = Ids(bad', rootdir)
         /\ strays' = {} /\ stuck' = {}
         /\ \/ asked' = Failing
            \/ asked' = mine /\ \E t \in Failing : ~Conventional(t)
<1> DEFINE T == bad \cup strays
           ids == pending \cup stuck
           plan == Plan(ids)
           good == Reached(T, rootdir)
           hits == {Hit(s) : s \in plan.selectors}
<1>1. /\ ids # {} /\ ~refused /\ strays' = {} /\ stuck' = {}
      /\ UNCHANGED choosing
      /\ IF plan.missing = {} THEN Narrowed(plan) ELSE WholeRun
  BY DEF Retry
<1>2. mine # {}
  BY <1>1 DEF SelectionInv
<1>3. Faithful /\ layout \in Layouts /\ Targeted /\ mine \subseteq Collected(targets)
  BY <1>2 DEF SelectionInv
<1>4. T \in SUBSET mine /\ ids = Ids(T, rootdir) /\ T # {} /\ T = Failing
  BY <1>1, <1>3 DEF Faithful, Failing, Ids
<1>5. /\ hits = {{t} : t \in good}
      /\ plan.missing = Ids(T \ good, rootdir)
      /\ plan.selectors # {} => RootdirsFor({s.file : s \in plan.selectors}, plan.pinned) = {rootdir}
      /\ \A t \in T \ good : ~Conventional(t)
  <2>1. T \in SUBSET Collected(targets) /\ Settled(rootdir)
    BY <1>3, <1>4 DEF Faithful
  <2>2. LeadsBack(Plan(Ids(T, rootdir)), T, rootdir)
    <3> HIDE DEF T
    <3> QED
      BY <1>3, <2>1, PlanLemma
  <2> HIDE DEF T, ids
  <2> QED
    BY <1>4, <2>2 DEF LeadsBack
<1>6. good \subseteq T
  BY DEF Reached
<1> HIDE DEF T, ids, plan, good
<1>7. CASE plan.missing = {}
  <2>1. T = good
    <3>1. Ids(T \ good, rootdir) = {}
      BY <1>5, <1>7
    <3>2. \A t \in T \ good : FALSE
      BY <3>1 DEF Ids
    <3> QED
      BY <1>6, <3>2
  <2>2. {} \notin hits /\ UNION hits = T /\ plan.selectors # {}
    <3>1. hits = {{t} : t \in T} /\ T # {}
      BY <1>4, <1>5, <2>1
    <3>2. plan.selectors # {}
      BY <3>1
    <3> HIDE DEF hits
    <3>3. {} \notin hits /\ UNION hits = T
      BY <3>1
    <3> QED
      BY <3>2, <3>3
  <2> DEFINE paths == {s.file : s \in plan.selectors}
             pinned == plan.pinned
  <2>3. IF {} \in hits
        THEN /\ refused' = TRUE
             /\ UNCHANGED <<asked, args, rootdir, bad, pending>>
        ELSE /\ RunOf(UNION hits, paths, pinned)
             /\ UNCHANGED refused
    BY <1>1, <1>7 DEF Narrowed
  <2>4. RootdirsFor(paths, pinned) = {rootdir}
    BY <1>5, <2>2
  <2>5. T \in SUBSET Collected(targets) /\ Settled(rootdir)
    BY <1>3, <1>4 DEF Faithful
  <2> HIDE DEF hits, paths, pinned
  <2>6. RunOf(T, paths, pinned) /\ UNCHANGED refused
    BY <2>2, <2>3
  <2>7. asked' = T /\ rootdir' = rootdir /\ bad' \subseteq T /\ pending' = Ids(bad', rootdir)
    BY <2>4, <2>5, <2>6, RunLemma
  <2> QED
    BY <1>1, <1>2, <1>3, <1>4, <2>6, <2>7
<1>8. CASE plan.missing # {}
  <2>1. PICK t \in T : ~Conventional(t)
    BY <1>5, <1>8 DEF Ids
  <2>2. mine' = mine /\ targets' = targets /\ layout' = layout
    BY <1>1 DEF choosing
  <2>3. RunOf(mine, targets, NoDir) /\ UNCHANGED refused
    BY <1>1, <1>8, <2>2 DEF WholeRun
  <2>4. Settled(rootdir) /\ RootdirsFor(targets, NoDir) = {rootdir}
    BY <1>3 DEF Faithful, Settled
  <2>5. /\ asked' = mine /\ rootdir' = rootdir /\ bad' \subseteq asked'
        /\ pending' = Ids(bad', rootdir)
    BY <1>3, <2>3, <2>4, RunLemma
  <2> QED
    BY <1>1, <1>2, <1>3, <1>4, <2>1, <2>3, <2>5
<1> QED
  BY <1>7, <1>8

\* The reports are as faithful after a narrowed run as before.
LEMMA NarrowedStep ==
  SelectionInv /\ (Rerun \/ Retry) => SelectionInv'
<1> SUFFICES ASSUME SelectionInv, Rerun \/ Retry
             PROVE  SelectionInv'
  OBVIOUS
<1>1. /\ UNCHANGED sharding /\ UNCHANGED <<layout, targets, mine>>
      /\ round \in Nat /\ round' = round + 1
      /\ ~refused
  BY DEF Rerun, Retry, choosing, SelectionInv
<1>2. /\ Targeted' = Targeted /\ Collected(targets)' = Collected(targets)
      /\ Collected(layout.suite)' = Collected(layout.suite) /\ count' = count
  BY <1>1 DEF Targeted, Collected, sharding
<1>3. NoEcho' = NoEcho
  BY <1>1 DEF NoEcho, Root, Common, DirOf, FilesOf
<1>4. Anchored' = Anchored /\ (rootdir' = rootdir => Settled(rootdir)' = Settled(rootdir))
  <2>1. /\ RootdirsFor(targets, NoDir)' = RootdirsFor(targets, NoDir)
        /\ Root' = Root /\ Anchored' = Anchored
    BY <1>1, TreeLemma
  <2> QED
    BY <1>1, <1>2, <2>1 DEF Settled
<1>5. ShardInv'
  BY <1>1, ShardStep DEF SelectionInv
<1>6. mine # {}
  <2>1. Plan({}).selectors = {}
    BY DEF Plan
  <2>2. mine = {} => pending = {} /\ stuck = {}
    BY DEF SelectionInv
  <2> QED
    BY <2>1, <2>2 DEF Rerun, Retry
<1>7. ASSUME NoEcho, Anchored
      PROVE  Faithful'
  <2>1. Faithful /\ Targeted /\ layout \in Layouts
    BY <1>6, <1>7 DEF SelectionInv
  <2>2. CASE Rerun
    <3>1. /\ ~refused' /\ rootdir' = rootdir /\ asked' = Reached(bad, rootdir)
          /\ bad' \subseteq asked' /\ pending' = Ids(bad', rootdir)
          /\ strays' = strays \cup (bad \ Reached(bad, rootdir))
          /\ stuck' = Ids(strays', rootdir)
          /\ \A t \in strays' : ~Conventional(t)
      BY <1>7, <2>2, RerunLemma
    <3>2. bad' \subseteq mine /\ strays' \subseteq mine
      BY <2>1, <3>1 DEF Faithful, Reached
    <3> QED
      BY <1>1, <1>4, <2>1, <3>1, <3>2 DEF Faithful
  <2>3. CASE Retry
    <3>1. /\ ~refused' /\ rootdir' = rootdir
          /\ bad' \subseteq asked' /\ pending' = Ids(bad', rootdir)
          /\ strays' = {} /\ stuck' = {}
          /\ asked' = Failing \/ asked' = mine
      BY <1>7, <2>3, RetryLemma
    <3>2. bad' \subseteq mine
      BY <2>1, <3>1 DEF Faithful, Failing
    <3>3. stuck' = Ids(strays', rootdir)
      BY <3>1 DEF Ids
    <3> QED
      BY <1>1, <1>4, <2>1, <3>1, <3>2, <3>3 DEF Faithful
  <2> QED
    BY <2>2, <2>3
<1> QED
  BY <1>1, <1>2, <1>3, <1>4, <1>5, <1>6, <1>7 DEF SelectionInv

LEMMA SelectionStep == SelectionInv /\ [SelectionNext]_all => SelectionInv'
BY FirstRunLemma, ShardRunLemma, NarrowedStep DEF SelectionNext

\* In every state of every project, where the rootdir can be inferred and no id
\* leads to another file, what the operator knows of a failure is the id of a test
\* of its share, relative to the rootdir a run of the whole share has.
THEOREM ReportsFaithful == SelectionSpec => []SelectionInv
BY StartLemma, SelectionStep, PTL DEF SelectionSpec

\* The shards a suite is cut into share it fairly while its groups run.
THEOREM SuiteShared == SelectionSpec => []FairShares
<1>1. SelectionInv => FairShares
  BY ShardEnd DEF SelectionInv, FairShares
<1> QED
  BY <1>1, ReportsFaithful, PTL

\* Under the same two conditions, a narrowed run has the rootdir of the run before,
\* whatever was left to run and whatever config files lie on the way to it.
THEOREM RootdirStays == SelectionSpec => RootdirKept
<1>1. SelectionInv /\ [SelectionNext]_all => [round' > round /\ NoEcho /\ Anchored => rootdir' = rootdir]_all
  <2> SUFFICES ASSUME SelectionInv, SelectionNext, round' > round, NoEcho, Anchored
               PROVE  rootdir' = rootdir
    OBVIOUS
  <2>1. round \in Nat
    BY DEF SelectionInv
  <2>2. CASE Shard \/ FirstRun
    <3>1. round' = round
      BY <2>2, FirstRunLemma, ShardRunLemma
    <3> QED
      BY <2>1, <3>1
  <2>3. CASE Rerun
    BY <2>3, RerunLemma
  <2>4. CASE Retry
    BY <2>4, RetryLemma
  <2> QED
    BY <2>2, <2>3, <2>4 DEF SelectionNext
<1> QED
  BY <1>1, ReportsFaithful, PTL DEF SelectionSpec, RootdirKept

\* Under the same two conditions, a narrowed run executes just the tests that still
\* fail, or the whole share again; pytest finds each, and what is out of reach
\* breaks the convention.
THEOREM RerunsExact == SelectionSpec => RerunExact
<1> DEFINE Exact ==
      /\ ~refused'
      /\ asked' = mine \/ (asked' \subseteq Failing /\ Failing \subseteq asked' \cup strays')
      /\ asked' # Failing => \E t \in Failing : ~Conventional(t)
      /\ \A t \in strays' : ~Conventional(t)
<1>1. SelectionInv /\ [SelectionNext]_all => [round' > round /\ NoEcho /\ Anchored => Exact]_all
  <2> SUFFICES ASSUME SelectionInv, SelectionNext, round' > round, NoEcho, Anchored
               PROVE  Exact
    OBVIOUS
  <2>1. round \in Nat
    BY DEF SelectionInv
  <2>2. CASE Shard \/ FirstRun
    <3>1. round' = round
      BY <2>2, FirstRunLemma, ShardRunLemma
    <3> QED
      BY <2>1, <3>1
  <2>3. CASE Rerun
    <3>1. /\ ~refused' /\ asked' = Reached(bad, rootdir)
          /\ strays' = strays \cup (bad \ Reached(bad, rootdir))
          /\ \A t \in strays' : ~Conventional(t)
      BY <2>3, RerunLemma
    <3>2. asked' \subseteq Failing /\ Failing \subseteq asked' \cup strays'
      BY <3>1 DEF Failing, Reached
    <3> QED
      BY <3>1, <3>2
  <2>4. CASE Retry
    <3>1. /\ ~refused' /\ strays' = {}
          /\ \/ asked' = Failing
             \/ asked' = mine /\ \E t \in Failing : ~Conventional(t)
      BY <2>4, RetryLemma
    <3> QED
      BY <3>1
  <2> QED
    BY <2>2, <2>3, <2>4 DEF SelectionNext
<1> QED
  BY <1>1, ReportsFaithful, PTL DEF SelectionSpec, RerunExact
=============================================================================
