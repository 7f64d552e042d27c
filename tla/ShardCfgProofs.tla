--------------------------- MODULE ShardCfgProofs ---------------------------
(***************************************************************************)
(* Proofs about ShardCfg, for any number of shards and any group ids:      *)
(* Rebalance comes to its end with a balanced assignment, and no balanced  *)
(* assignment to the same groups would have moved fewer shards.            *)
(***************************************************************************)
EXTENDS ShardCfg, FiniteSetTheorems, TLAPS

-----------------------------------------------------------------------------
(* Natural numbers. *)

\* A set of natural numbers has a least element.
LEMMA LeastNat ==
  ASSUME NEW S \in SUBSET Nat, S # {}
  PROVE  \E x \in S : \A y \in S : x <= y
<1> DEFINE Less == {ss \in Nat \X Nat : ss[1] < ss[2]}
<1>1. IsWellFoundedOn(Less, Nat)
  BY NatLessThanWellFounded DEF OpToRel
<1>2. \A x, y \in Nat : ~(<<y, x>> \in Less) => x <= y
  OBVIOUS
<1> HIDE DEF Less
<1>3. PICK x \in S : \A y \in S : ~(<<y, x>> \in Less)
  BY <1>1, WFMin
<1> QED
  BY <1>2, <1>3

\* The operator that analyze and the inner loop of Rebalance are modelled
\* with: the first of a set of ids.
LEMMA MinIsLeast ==
  ASSUME NEW S \in SUBSET Nat, S # {}
  PROVE  Min(S) \in S /\ \A y \in S : Min(S) <= y
BY LeastNat DEF Min

\* Induction up to a bound.
LEMMA UpTo ==
  ASSUME NEW N \in Nat, NEW Good, 0 \in Good,
         \A n \in 0..N : n + 1 \in 0..N /\ n \in Good => n + 1 \in Good
  PROVE  \A n \in 0..N : n \in Good
<1> DEFINE Bad == {n \in 0..N : n \notin Good}
<1> SUFFICES ASSUME Bad # {} PROVE FALSE
  OBVIOUS
<1>1. PICK x \in Bad : \A y \in Bad : x <= y
  <2>1. Bad \in SUBSET Nat
    OBVIOUS
  <2> HIDE DEF Bad
  <2> QED
    BY <2>1, LeastNat
<1>2. x # 0 /\ x - 1 \in 0..N /\ x - 1 \notin Bad
  BY <1>1
<1>3. x - 1 \in Good /\ (x - 1) + 1 = x
  BY <1>2
<1> QED
  BY <1>1, <1>2, <1>3

-----------------------------------------------------------------------------
(* The two loops of Rebalance: each is a sequence of configurations, one   *)
(* after every round.                                                      *)

\* f[n] is the configuration after n shards of the first loop.
IsOrphanLoop(f, c, m) ==
  f = [n \in 0..m |-> IF n = 0 THEN c ELSE AssignOrphan(f[n - 1], n - 1)]

\* f[n] is the configuration after n rounds of the second loop.
IsMoveLoop(f, c, m) ==
  f = [n \in 0..m |-> IF n = 0 THEN c ELSE MoveOne(f[n - 1], n - 1)]

\* The first loop has a result.
LEMMA OrphanLoopExists ==
  ASSUME NEW c
  PROVE  \E f : IsOrphanLoop(f, c, NShards)
<1> DEFINE Good == {m \in 0..NShards : \E f : IsOrphanLoop(f, c, m)}
<1>1. NShards \in Nat /\ 0 \in 0..NShards
  BY ShardAssumption
<1>2. 0 \in Good
  <2>1. IsOrphanLoop([n \in 0..0 |-> c], c, 0)
    BY DEF IsOrphanLoop
  <2> QED
    BY <1>1, <2>1
<1>3. ASSUME NEW m \in 0..NShards, m + 1 \in 0..NShards, m \in Good
      PROVE  m + 1 \in Good
  <2>1. PICK f : IsOrphanLoop(f, c, m)
    BY <1>3
  <2> DEFINE g == [n \in 0..(m + 1) |->
                     IF n <= m THEN f[n] ELSE AssignOrphan(f[m], m)]
  <2>2. ASSUME NEW n \in 0..(m + 1)
        PROVE  g[n] = IF n = 0 THEN c ELSE AssignOrphan(g[n - 1], n - 1)
    <3>1. CASE n <= m
      <4>1. f[n] = IF n = 0 THEN c ELSE AssignOrphan(f[n - 1], n - 1)
        BY <2>1, <3>1 DEF IsOrphanLoop
      <4>2. n # 0 => g[n - 1] = f[n - 1]
        BY <3>1
      <4> QED
        BY <3>1, <4>1, <4>2
    <3>2. CASE n = m + 1
      <4>1. n # 0 /\ n - 1 = m /\ g[m] = f[m]
        BY <3>2
      <4> QED
        BY <3>2, <4>1
    <3> QED
      BY <3>1, <3>2
  <2>3. IsOrphanLoop(g, c, m + 1)
    BY <2>2 DEF IsOrphanLoop
  <2> QED
    BY <1>3, <2>3
<1> HIDE DEF Good
<1>4. NShards \in Good
  BY <1>1, <1>2, <1>3, UpTo
<1> QED
  BY <1>4 DEF Good

\* The second loop has a result.
LEMMA MoveLoopExists ==
  ASSUME NEW c
  PROVE  \E f : IsMoveLoop(f, c, NShards)
<1> DEFINE Good == {m \in 0..NShards : \E f : IsMoveLoop(f, c, m)}
<1>1. NShards \in Nat /\ 0 \in 0..NShards
  BY ShardAssumption
<1>2. 0 \in Good
  <2>1. IsMoveLoop([n \in 0..0 |-> c], c, 0)
    BY DEF IsMoveLoop
  <2> QED
    BY <1>1, <2>1
<1>3. ASSUME NEW m \in 0..NShards, m + 1 \in 0..NShards, m \in Good
      PROVE  m + 1 \in Good
  <2>1. PICK f : IsMoveLoop(f, c, m)
    BY <1>3
  <2> DEFINE g == [n \in 0..(m + 1) |->
                     IF n <= m THEN f[n] ELSE MoveOne(f[m], m)]
  <2>2. ASSUME NEW n \in 0..(m + 1)
        PROVE  g[n] = IF n = 0 THEN c ELSE MoveOne(g[n - 1], n - 1)
    <3>1. CASE n <= m
      <4>1. f[n] = IF n = 0 THEN c ELSE MoveOne(f[n - 1], n - 1)
        BY <2>1, <3>1 DEF IsMoveLoop
      <4>2. n # 0 => g[n - 1] = f[n - 1]
        BY <3>1
      <4> QED
        BY <3>1, <4>1, <4>2
    <3>2. CASE n = m + 1
      <4>1. n # 0 /\ n - 1 = m /\ g[m] = f[m]
        BY <3>2
      <4> QED
        BY <3>2, <4>1
    <3> QED
      BY <3>1, <3>2
  <2>3. IsMoveLoop(g, c, m + 1)
    BY <2>2 DEF IsMoveLoop
  <2> QED
    BY <1>3, <2>3
<1> HIDE DEF Good
<1>4. NShards \in Good
  BY <1>1, <1>2, <1>3, UpTo
<1> QED
  BY <1>4 DEF Good

\* The result of the first loop is its last configuration.
LEMMA OrphanLoop ==
  ASSUME NEW c
  PROVE  \E f : /\ f[0] = c
                /\ \A n \in 0..NShards : n # 0 => f[n] = AssignOrphan(f[n - 1], n - 1)
                /\ InOrder(AssignOrphan, c) = f[NShards]
<1>1. InOrder(AssignOrphan, c)
        = (CHOOSE f : IsOrphanLoop(f, c, NShards))[NShards]
  BY DEF InOrder, IsOrphanLoop
<1>2. PICK f : IsOrphanLoop(f, c, NShards)
                 /\ f = (CHOOSE g : IsOrphanLoop(g, c, NShards))
  BY OrphanLoopExists
<1>3. f[0] = c /\ \A n \in 0..NShards :
                    n # 0 => f[n] = AssignOrphan(f[n - 1], n - 1)
  BY <1>2, ShardAssumption DEF IsOrphanLoop
<1> QED
  BY <1>1, <1>2, <1>3

\* The result of the second loop is its last configuration.
LEMMA MoveLoop ==
  ASSUME NEW c
  PROVE  \E f : /\ f[0] = c
                /\ \A n \in 0..NShards : n # 0 => f[n] = MoveOne(f[n - 1], n - 1)
                /\ InOrder(MoveOne, c) = f[NShards]
<1>1. InOrder(MoveOne, c)
        = (CHOOSE f : IsMoveLoop(f, c, NShards))[NShards]
  BY DEF InOrder, IsMoveLoop
<1>2. PICK f : IsMoveLoop(f, c, NShards)
                 /\ f = (CHOOSE g : IsMoveLoop(g, c, NShards))
  BY MoveLoopExists
<1>3. f[0] = c /\ \A n \in 0..NShards :
                    n # 0 => f[n] = MoveOne(f[n - 1], n - 1)
  BY <1>2, ShardAssumption DEF IsMoveLoop
<1> QED
  BY <1>1, <1>2, <1>3

-----------------------------------------------------------------------------
(* Configurations and the number of shards of a group. *)

\* What a ShardConfig can hold.
Configs ==
  [Num : Nat, Shards : [ShardIds -> Gids \cup {0}], Groups : SUBSET Gids]

\* The shards that f gives to g.
Here(f, g) == {s \in ShardIds : f[s] = g}

\* There are NShards shards.
LEMMA ShardsFinite ==
  /\ IsFiniteSet(ShardIds)
  /\ Cardinality(ShardIds) = NShards
  /\ ShardIds # {}
  /\ ShardIds \subseteq Nat
  /\ NShards \in Nat
<1>1. NShards \in Nat /\ NShards > 0 /\ NShards - 1 \in Int
  BY ShardAssumption
<1>2. 0 \in ShardIds /\ ShardIds \subseteq Nat
  BY <1>1 DEF ShardIds
<1>3. IsFiniteSet(0..(NShards - 1)) /\ Cardinality(0..(NShards - 1)) = NShards
  BY <1>1, FS_Interval
<1> QED
  BY <1>1, <1>2, <1>3 DEF ShardIds

\* The shards of a group are counted by a number up to NShards.
LEMMA HereFinite ==
  ASSUME NEW f, NEW g
  PROVE  /\ IsFiniteSet(Here(f, g))
         /\ Cardinality(Here(f, g)) \in Nat
         /\ Cardinality(Here(f, g)) <= NShards
         /\ Here(f, g) = {} <=> Cardinality(Here(f, g)) = 0
<1>1. Here(f, g) \in SUBSET ShardIds
  BY DEF Here
<1>2. IsFiniteSet(Here(f, g)) /\ Cardinality(Here(f, g)) <= NShards
  BY <1>1, ShardsFinite, FS_Subset
<1> QED
  BY <1>2, FS_CardinalityType, FS_EmptySet

\* counts[g] of analyze is a number up to NShards.
LEMMA LoadType ==
  ASSUME NEW c, NEW g
  PROVE  /\ Load(c, g) = Cardinality(Here(c.Shards, g))
         /\ Load(c, g) \in Nat
         /\ Load(c, g) <= NShards
         /\ Here(c.Shards, g) = {} <=> Load(c, g) = 0
<1>1. Load(c, g) = Cardinality(Here(c.Shards, g))
  BY DEF Load, Here
<1> QED
  BY <1>1, HereFinite

\* analyze finds a group with the most shards.
LEMMA MostLoadedIs ==
  ASSUME NEW c \in Configs, c.Groups # {}
  PROVE  /\ MostLoaded(c) \in c.Groups
         /\ \A h \in c.Groups : Load(c, h) <= Load(c, MostLoaded(c))
<1> DEFINE Spare == {NShards - Load(c, g) : g \in c.Groups}
           Most == {g \in c.Groups : \A h \in c.Groups : Load(c, h) <= Load(c, g)}
<1>1. \A g \in c.Groups :
        Load(c, g) \in Nat /\ NShards - Load(c, g) \in Nat /\ NShards \in Nat
  BY LoadType, ShardsFinite
<1>2. PICK x \in Spare : \A y \in Spare : x <= y
  <2>1. Spare \in SUBSET Nat /\ Spare # {}
    BY <1>1
  <2> HIDE DEF Spare
  <2> QED
    BY <2>1, LeastNat
<1>3. PICK g \in c.Groups : x = NShards - Load(c, g)
  BY <1>2
<1>4. ASSUME NEW h \in c.Groups PROVE Load(c, h) <= Load(c, g)
  <2>1. NShards - Load(c, g) <= NShards - Load(c, h)
    BY <1>2, <1>3
  <2> QED
    BY <1>1, <2>1
<1>5. Most # {} /\ Most \in SUBSET Nat
  BY <1>3, <1>4, ShardAssumption DEF Configs
<1>6. MostLoaded(c) = Min(Most)
  BY DEF MostLoaded
<1>7. Min(Most) \in Most
  <2> HIDE DEF Most
  <2> QED
    BY <1>5, MinIsLeast
<1> QED
  BY <1>6, <1>7

\* analyze finds a group with the fewest shards.
LEMMA LeastLoadedIs ==
  ASSUME NEW c \in Configs, c.Groups # {}
  PROVE  /\ LeastLoaded(c) \in c.Groups
         /\ \A h \in c.Groups : Load(c, LeastLoaded(c)) <= Load(c, h)
<1> DEFINE Loads == {Load(c, g) : g \in c.Groups}
           Least == {g \in c.Groups : \A h \in c.Groups : Load(c, g) <= Load(c, h)}
<1>1. PICK x \in Loads : \A y \in Loads : x <= y
  <2>1. Loads \in SUBSET Nat /\ Loads # {}
    BY LoadType
  <2> HIDE DEF Loads
  <2> QED
    BY <2>1, LeastNat
<1>2. PICK g \in c.Groups : x = Load(c, g)
  BY <1>1
<1>3. \A h \in c.Groups : Load(c, g) <= Load(c, h)
  BY <1>1, <1>2
<1>4. Least # {} /\ Least \in SUBSET Nat
  BY <1>2, <1>3, ShardAssumption DEF Configs
<1>5. LeastLoaded(c) = Min(Least)
  BY DEF LeastLoaded
<1>6. Min(Least) \in Least
  <2> HIDE DEF Least
  <2> QED
    BY <1>4, MinIsLeast
<1> QED
  BY <1>5, <1>6

\* Giving a shard to another group changes the assignment of this shard only.
LEMMA AssignShards ==
  ASSUME NEW c \in Configs, NEW s \in ShardIds, NEW g \in c.Groups
  PROVE  /\ Assign(c, s, g) \in Configs
         /\ Assign(c, s, g).Groups = c.Groups
         /\ Assign(c, s, g).Num = c.Num
         /\ Assign(c, s, g).Shards[s] = g
         /\ \A t \in ShardIds : t # s => Assign(c, s, g).Shards[t] = c.Shards[t]
BY DEF Assign, Configs

\* It adds one to the count of the new group, takes one from that of the old
\* one, and leaves the counts of all others alone.
LEMMA AssignLoad ==
  ASSUME NEW c \in Configs, NEW s \in ShardIds, NEW g \in c.Groups,
         c.Shards[s] # g
  PROVE  /\ Load(Assign(c, s, g), g) = Load(c, g) + 1
         /\ Load(Assign(c, s, g), c.Shards[s]) = Load(c, c.Shards[s]) - 1
         /\ \A h : h # g /\ h # c.Shards[s] => Load(Assign(c, s, g), h) = Load(c, h)
<1> DEFINE d == Assign(c, s, g)
           old == c.Shards[s]
<1>1. /\ d.Shards[s] = g
      /\ \A t \in ShardIds : t # s => d.Shards[t] = c.Shards[t]
  BY AssignShards
<1>2. \A x, y : Load(x, y) = Cardinality(Here(x.Shards, y))
                  /\ IsFiniteSet(Here(x.Shards, y))
  BY LoadType, HereFinite
<1> HIDE DEF d
<1>3. Load(d, g) = Load(c, g) + 1
  <2>1. Here(d.Shards, g) = Here(c.Shards, g) \cup {s} /\ s \notin Here(c.Shards, g)
    BY <1>1 DEF Here
  <2> QED
    BY <1>2, <2>1, FS_AddElement
<1>4. Load(d, old) = Load(c, old) - 1
  <2>1. Here(d.Shards, old) = Here(c.Shards, old) \ {s} /\ s \in Here(c.Shards, old)
    BY <1>1 DEF Here
  <2> QED
    BY <1>2, <2>1, FS_RemoveElement
<1>5. ASSUME NEW h, h # g, h # old
      PROVE  Load(d, h) = Load(c, h)
  <2>1. Here(d.Shards, h) = Here(c.Shards, h)
    BY <1>1, <1>5 DEF Here
  <2> QED
    BY <1>2, <2>1
<1> QED
  BY <1>3, <1>4, <1>5 DEF d

-----------------------------------------------------------------------------
(* What both loops keep, with o the configuration before Rebalance and c   *)
(* the current one.                                                        *)

\* g has a shard that it did not have.
Received(o, c, g) == \E s \in ShardIds : c.Shards[s] = g /\ o.Shards[s] # g

\* g has lost a shard that it had.
Lost(o, c, g) == \E s \in ShardIds : o.Shards[s] = g /\ c.Shards[s] # g

\* The shards that have moved.
Moved(o, c) == {s \in ShardIds : c.Shards[s] # o.Shards[s]}

\* Rebalance changes the assignment only.
Same(o, c) ==
  c \in Configs /\ c.Groups = o.Groups /\ c.Num = o.Num

\* A group that has received a shard has hardly more than any other.
ReceivedFew(o, c) ==
  \A g, h \in o.Groups : Received(o, c, g) => Load(c, g) <= Load(c, h) + 1

\* A group that has lost a shard has hardly fewer than any other.
LostMany(o, c) ==
  \A g, h \in o.Groups : Lost(o, c, g) => Load(c, h) <= Load(c, g) + 1

\* Shards go one way.
OneWay(o, c) ==
  \A g \in o.Groups : ~(Lost(o, c, g) /\ Received(o, c, g))

\* No group that has received a shard has more than one that has lost one.
Downhill(o, c) ==
  \A g, r \in o.Groups :
    Lost(o, c, g) /\ Received(o, c, r) => Load(c, r) <= Load(c, g)

LoopInv(o, c) ==
  Same(o, c) /\ ReceivedFew(o, c) /\ LostMany(o, c) /\ OneWay(o, c) /\ Downhill(o, c)

\* After n shards of the first loop these are at groups that exist, the
\* others are where they were, and no group that exists has lost a shard.
OrphanInv(o, c, n) ==
  /\ Same(o, c)
  /\ ReceivedFew(o, c)
  /\ \A s \in ShardIds :
       /\ s < n => c.Shards[s] \in o.Groups
       /\ s >= n => c.Shards[s] = o.Shards[s]
       /\ o.Shards[s] \in o.Groups => c.Shards[s] = o.Shards[s]

\* Before the first loop nothing has been received.
LEMMA OrphanFirst ==
  ASSUME NEW o \in Configs
  PROVE  OrphanInv(o, o, 0)
BY ShardsFinite DEF OrphanInv, Same, ReceivedFew, Received

\* A round of the first loop.
LEMMA OrphanStep ==
  ASSUME NEW o \in Configs, o.Groups # {}, NEW c, NEW n \in ShardIds,
         OrphanInv(o, c, n)
  PROVE  OrphanInv(o, AssignOrphan(c, n), n + 1)
<1>1. n \in Nat /\ \A s \in ShardIds : s \in Nat
  BY ShardsFinite
<1>2. c \in Configs /\ c.Groups = o.Groups /\ c.Num = o.Num
  BY DEF OrphanInv, Same
<1>3. CASE c.Shards[n] \in c.Groups
  BY <1>1, <1>2, <1>3 DEF OrphanInv, AssignOrphan
<1>4. CASE c.Shards[n] \notin c.Groups
  <2> DEFINE L == LeastLoaded(c)
             d == Assign(c, n, L)
  <2>1. AssignOrphan(c, n) = d
    BY <1>4 DEF AssignOrphan
  <2>2. L \in c.Groups /\ \A h \in c.Groups : Load(c, L) <= Load(c, h)
    BY <1>2, LeastLoadedIs
  <2>3. /\ d \in Configs /\ d.Groups = c.Groups /\ d.Num = c.Num
        /\ d.Shards[n] = L
        /\ \A t \in ShardIds : t # n => d.Shards[t] = c.Shards[t]
    BY <1>2, <2>2, AssignShards
  <2>4. /\ Load(d, L) = Load(c, L) + 1
        /\ \A h \in c.Groups : h # L => Load(d, h) = Load(c, h)
    BY <1>2, <1>4, <2>2, AssignLoad
  <2>5. \A h : Load(c, h) \in Nat /\ Load(d, h) \in Nat
    BY LoadType
  <2> HIDE DEF L, d
  <2>6. Same(o, d)
    BY <1>2, <2>3 DEF Same
  <2>7. ASSUME NEW g \in o.Groups, NEW h \in o.Groups, Received(o, d, g)
        PROVE  Load(d, g) <= Load(d, h) + 1
    <3>1. CASE g = L
      BY <1>2, <2>2, <2>4, <2>5, <3>1
    <3>2. CASE g # L
      <4>1. Received(o, c, g)
        BY <2>3, <2>7, <3>2 DEF Received
      <4>2. Load(c, g) <= Load(c, h) + 1
        BY <2>7, <4>1 DEF OrphanInv, ReceivedFew
      <4> QED
        BY <1>2, <2>4, <2>5, <3>2, <4>2
    <3> QED
      BY <3>1, <3>2
  <2>8. ASSUME NEW s \in ShardIds
        PROVE  /\ s < n + 1 => d.Shards[s] \in o.Groups
               /\ s >= n + 1 => d.Shards[s] = o.Shards[s]
               /\ o.Shards[s] \in o.Groups => d.Shards[s] = o.Shards[s]
    <3>1. CASE s = n
      <4>1. o.Shards[n] = c.Shards[n]
        BY <1>1 DEF OrphanInv
      <4> QED
        BY <1>1, <1>2, <1>4, <2>2, <2>3, <3>1, <4>1
    <3>2. CASE s # n
      <4>1. /\ s < n => c.Shards[s] \in o.Groups
            /\ s >= n => c.Shards[s] = o.Shards[s]
            /\ o.Shards[s] \in o.Groups => c.Shards[s] = o.Shards[s]
        BY DEF OrphanInv
      <4>2. d.Shards[s] = c.Shards[s]
        BY <2>3, <3>2
      <4>3. (s < n + 1 => s < n) /\ (s >= n + 1 => s >= n)
        BY <1>1, <3>2
      <4> QED
        BY <4>1, <4>2, <4>3
    <3> QED
      BY <3>1, <3>2
  <2> QED
    BY <2>1, <2>6, <2>7, <2>8 DEF OrphanInv, ReceivedFew
<1> QED
  BY <1>3, <1>4

\* After the first loop every shard is at a group that exists.
LEMMA OrphanLast ==
  ASSUME NEW o \in Configs, o.Groups # {}
  PROVE  /\ LoopInv(o, InOrder(AssignOrphan, o))
         /\ \A s \in ShardIds : InOrder(AssignOrphan, o).Shards[s] \in o.Groups
<1>1. PICK f : /\ f[0] = o
               /\ \A n \in 0..NShards :
                    n # 0 => f[n] = AssignOrphan(f[n - 1], n - 1)
               /\ InOrder(AssignOrphan, o) = f[NShards]
  BY OrphanLoop
<1> DEFINE Good == {n \in 0..NShards : OrphanInv(o, f[n], n)}
           c == f[NShards]
<1>2. NShards \in Nat
  BY ShardsFinite
<1>3. 0 \in Good
  BY <1>1, <1>2, OrphanFirst
<1>4. ASSUME NEW n \in 0..NShards, n + 1 \in 0..NShards, n \in Good
      PROVE  n + 1 \in Good
  <2>1. n \in ShardIds
    BY <1>2, <1>4 DEF ShardIds
  <2>2. OrphanInv(o, AssignOrphan(f[n], n), n + 1)
    BY <1>4, <2>1, OrphanStep
  <2>3. n + 1 # 0 /\ (n + 1) - 1 = n
    BY <1>4
  <2>4. f[n + 1] = AssignOrphan(f[n], n)
    BY <1>1, <1>4, <2>3
  <2> QED
    BY <1>4, <2>2, <2>4
<1>5. OrphanInv(o, c, NShards)
  <2>1. NShards \in 0..NShards
    BY <1>2
  <2> HIDE DEF Good
  <2>2. NShards \in Good
    BY <1>2, <1>3, <1>4, <2>1, UpTo
  <2> QED
    BY <2>2 DEF Good
<1> HIDE DEF c
<1>6. \A s \in ShardIds : c.Shards[s] \in o.Groups
  BY <1>2, <1>5 DEF OrphanInv, ShardIds
<1>7. \A g \in o.Groups : ~Lost(o, c, g)
  BY <1>5 DEF OrphanInv, Lost
<1>8. LoopInv(o, c)
  BY <1>5, <1>7 DEF OrphanInv, LoopInv, LostMany, OneWay, Downhill
<1> QED
  BY <1>1, <1>6, <1>8 DEF c

\* The shard that a round of the second loop moves, and where it is.
LEMMA MoveOneIs ==
  ASSUME NEW o, NEW c, LoopInv(o, c), o.Groups # {}, ~Settled(c), NEW n
  PROVE  \E s \in ShardIds :
           /\ c.Shards[s] = MostLoaded(c)
           /\ MoveOne(c, n) = Assign(c, s, LeastLoaded(c))
<1> DEFINE G == MostLoaded(c)
           at == Here(c.Shards, G)
<1>1. c \in Configs /\ c.Groups # {}
  BY DEF LoopInv, Same
<1>2. Load(c, G) # 0
  <2>1. Load(c, G) \in Nat /\ Load(c, LeastLoaded(c)) \in Nat
    BY LoadType
  <2> QED
    BY <2>1 DEF Settled
<1>3. at # {} /\ at \in SUBSET Nat
  BY <1>2, LoadType, ShardsFinite DEF Here
<1>4. Min(at) \in at
  <2> HIDE DEF at
  <2> QED
    BY <1>3, MinIsLeast
<1>5. Min(at) \in ShardIds /\ c.Shards[Min(at)] = G
  BY <1>4 DEF Here
<1>6. MoveOne(c, n) = Assign(c, Min(at), LeastLoaded(c))
  BY DEF MoveOne, Here
<1> QED
  BY <1>5, <1>6

\* A round of the second loop keeps what the loops keep, and moves a shard
\* that has not moved before.
LEMMA MoveStep ==
  ASSUME NEW o \in Configs, o.Groups # {}, NEW c, LoopInv(o, c), ~Settled(c), NEW n,
         \A s \in ShardIds : c.Shards[s] \in o.Groups
  PROVE  /\ LoopInv(o, MoveOne(c, n))
         /\ \A s \in ShardIds : MoveOne(c, n).Shards[s] \in o.Groups
         /\ Cardinality(Moved(o, MoveOne(c, n))) = Cardinality(Moved(o, c)) + 1
<1> DEFINE G == MostLoaded(c)
           L == LeastLoaded(c)
           d == MoveOne(c, n)
<1>1. c \in Configs /\ c.Groups = o.Groups /\ c.Num = o.Num
  BY DEF LoopInv, Same
<1>2. PICK s \in ShardIds : c.Shards[s] = G /\ d = Assign(c, s, L)
  BY MoveOneIs
<1>3. G \in o.Groups /\ \A h \in o.Groups : Load(c, h) <= Load(c, G)
  BY <1>1, MostLoadedIs
<1>4. L \in o.Groups /\ \A h \in o.Groups : Load(c, L) <= Load(c, h)
  BY <1>1, LeastLoadedIs
<1>5. \A h : Load(c, h) \in Nat /\ Load(d, h) \in Nat
  BY LoadType
<1>6. Load(c, G) >= Load(c, L) + 2
  BY <1>5 DEF Settled
<1>7. G # L
  BY <1>5, <1>6
<1>8. /\ d \in Configs /\ d.Groups = c.Groups /\ d.Num = c.Num
      /\ d.Shards[s] = L
      /\ \A t \in ShardIds : t # s => d.Shards[t] = c.Shards[t]
  BY <1>1, <1>2, <1>4, AssignShards
<1>9. /\ Load(d, L) = Load(c, L) + 1
      /\ Load(d, G) = Load(c, G) - 1
      /\ \A h : h # L /\ h # G => Load(d, h) = Load(c, h)
  BY <1>1, <1>2, <1>4, <1>7, AssignLoad
<1> HIDE DEF G, L, d
<1>10. ~Received(o, c, G)
  BY <1>3, <1>4, <1>5, <1>6 DEF LoopInv, ReceivedFew
<1>11. ~Lost(o, c, L)
  BY <1>3, <1>4, <1>5, <1>6 DEF LoopInv, LostMany
<1>12. o.Shards[s] = G
  BY <1>2, <1>10 DEF Received
<1>13. \A g : g # L => (Received(o, d, g) => Received(o, c, g))
  BY <1>8 DEF Received
<1>14. \A g : g # G => (Lost(o, d, g) => Lost(o, c, g))
  BY <1>8, <1>12 DEF Lost
<1>15. ~Received(o, d, G) /\ ~Lost(o, d, L)
  BY <1>7, <1>10, <1>11, <1>13, <1>14
<1>16. Same(o, d)
  BY <1>1, <1>8 DEF Same
<1>17. ASSUME NEW g \in o.Groups, NEW h \in o.Groups, Received(o, d, g)
       PROVE  Load(d, g) <= Load(d, h) + 1
  <2>1. CASE g = L
    <3>1. Load(c, L) <= Load(c, h)
      BY <1>4
    <3>2. CASE h = G
      BY <1>5, <1>6, <1>9, <2>1, <3>2
    <3>3. CASE h # G
      BY <1>5, <1>9, <2>1, <3>1, <3>3
    <3> QED
      BY <3>2, <3>3
  <2>2. CASE g # L
    <3>1. g # G /\ Received(o, c, g)
      BY <1>13, <1>15, <1>17, <2>2
    <3>2. Load(c, g) <= Load(c, h) + 1 /\ Load(c, g) <= Load(c, G)
      BY <1>3, <3>1 DEF LoopInv, ReceivedFew
    <3>3. Load(d, g) = Load(c, g)
      BY <1>9, <2>2, <3>1
    <3>4. CASE h = G
      BY <1>5, <1>9, <3>2, <3>3, <3>4
    <3>5. CASE h = L
      BY <1>5, <1>9, <3>2, <3>3, <3>5
    <3>6. CASE h # G /\ h # L
      BY <1>5, <1>9, <3>2, <3>3, <3>6
    <3> QED
      BY <3>4, <3>5, <3>6
  <2> QED
    BY <2>1, <2>2
<1>18. ASSUME NEW g \in o.Groups, NEW h \in o.Groups, Lost(o, d, g)
       PROVE  Load(d, h) <= Load(d, g) + 1
  <2>1. CASE g = G
    <3>1. Load(c, h) <= Load(c, G)
      BY <1>3
    <3>2. CASE h = L
      BY <1>5, <1>6, <1>9, <2>1, <3>2
    <3>3. CASE h # L
      BY <1>5, <1>9, <2>1, <3>1, <3>3
    <3> QED
      BY <3>2, <3>3
  <2>2. CASE g # G
    <3>1. g # L /\ Lost(o, c, g)
      BY <1>14, <1>15, <1>18, <2>2
    <3>2. Load(c, h) <= Load(c, g) + 1 /\ Load(c, L) <= Load(c, g)
      BY <1>4, <3>1 DEF LoopInv, LostMany
    <3>3. Load(d, g) = Load(c, g)
      BY <1>9, <2>2, <3>1
    <3>4. CASE h = G
      BY <1>5, <1>9, <3>2, <3>3, <3>4
    <3>5. CASE h = L
      BY <1>5, <1>9, <3>2, <3>3, <3>5
    <3>6. CASE h # G /\ h # L
      BY <1>5, <1>9, <3>2, <3>3, <3>6
    <3> QED
      BY <3>4, <3>5, <3>6
  <2> QED
    BY <2>1, <2>2
<1>19. ASSUME NEW g \in o.Groups PROVE ~(Lost(o, d, g) /\ Received(o, d, g))
  BY <1>13, <1>14, <1>15 DEF LoopInv, OneWay
<1>20. ASSUME NEW g \in o.Groups, NEW r \in o.Groups,
              Lost(o, d, g), Received(o, d, r)
       PROVE  Load(d, r) <= Load(d, g)
  <2>1. g # L /\ r # G
    BY <1>15, <1>20
  <2>2. CASE g = G /\ r = L
    BY <1>5, <1>6, <1>9, <2>2
  <2>3. CASE g = G /\ r # L
    <3>1. Load(c, r) <= Load(c, L) + 1
      BY <1>4, <1>13, <1>20, <2>3 DEF LoopInv, ReceivedFew
    <3> QED
      BY <1>5, <1>6, <1>9, <2>1, <2>3, <3>1
  <2>4. CASE g # G /\ r = L
    <3>1. Load(c, G) <= Load(c, g) + 1
      BY <1>3, <1>14, <1>20, <2>4 DEF LoopInv, LostMany
    <3> QED
      BY <1>5, <1>6, <1>9, <2>1, <2>4, <3>1
  <2>5. CASE g # G /\ r # L
    <3>1. Load(c, r) <= Load(c, g)
      BY <1>13, <1>14, <1>20, <2>5 DEF LoopInv, Downhill
    <3> QED
      BY <1>5, <1>9, <2>1, <2>5, <3>1
  <2> QED
    BY <2>2, <2>3, <2>4, <2>5
<1>21. LoopInv(o, d)
  BY <1>16, <1>17, <1>18, <1>19, <1>20
  DEF LoopInv, ReceivedFew, LostMany, OneWay, Downhill
<1>22. Cardinality(Moved(o, d)) = Cardinality(Moved(o, c)) + 1
  <2>1. s \notin Moved(o, c)
    BY <1>2, <1>12 DEF Moved
  <2>2. Moved(o, d) = Moved(o, c) \cup {s}
    BY <1>7, <1>8, <1>12 DEF Moved
  <2>3. Moved(o, c) \in SUBSET ShardIds
    BY DEF Moved
  <2>4. IsFiniteSet(Moved(o, c))
    BY <2>3, ShardsFinite, FS_Subset
  <2> QED
    BY <2>1, <2>2, <2>4, FS_AddElement
<1>23. ASSUME NEW t \in ShardIds PROVE d.Shards[t] \in o.Groups
  BY <1>4, <1>8
<1> QED
  BY <1>21, <1>22, <1>23 DEF d

\* After n rounds of the second loop the loads are settled, or n shards have
\* moved.
MoveInv(o, c, n) ==
  /\ LoopInv(o, c)
  /\ \A s \in ShardIds : c.Shards[s] \in o.Groups
  /\ Settled(c) \/ Cardinality(Moved(o, c)) >= n

\* When every shard has moved the loads are settled: every group that has a
\* shard has received it.
LEMMA AllMoved ==
  ASSUME NEW o \in Configs, o.Groups # {}, NEW c, MoveInv(o, c, NShards)
  PROVE  Settled(c)
<1> SUFFICES ASSUME ~Settled(c) PROVE FALSE
  OBVIOUS
<1> DEFINE G == MostLoaded(c)
           L == LeastLoaded(c)
<1>1. c \in Configs /\ c.Groups = o.Groups /\ LoopInv(o, c)
  BY DEF MoveInv, LoopInv, Same
<1>2. PICK s \in ShardIds : c.Shards[s] = G
  BY <1>1, MoveOneIs
<1>3. Moved(o, c) = ShardIds
  <2>1. Moved(o, c) \in SUBSET ShardIds
    BY DEF Moved
  <2>2. Cardinality(Moved(o, c)) <= NShards /\ IsFiniteSet(Moved(o, c))
    BY <2>1, ShardsFinite, FS_Subset
  <2>3. Cardinality(Moved(o, c)) \in Nat
    BY <2>2, FS_CardinalityType
  <2>4. Cardinality(Moved(o, c)) >= NShards
    BY DEF MoveInv
  <2>5. Cardinality(Moved(o, c)) = NShards
    BY <2>2, <2>3, <2>4, ShardsFinite
  <2> QED
    BY <2>1, <2>5, ShardsFinite, FS_Subset
<1>4. Received(o, c, G)
  BY <1>2, <1>3 DEF Received, Moved
<1>5. G \in o.Groups /\ L \in o.Groups
  BY <1>1, MostLoadedIs, LeastLoadedIs
<1>6. Load(c, G) <= Load(c, L) + 1
  BY <1>1, <1>4, <1>5 DEF LoopInv, ReceivedFew
<1>7. Load(c, G) \in Nat /\ Load(c, L) \in Nat
  BY LoadType
<1> QED
  BY <1>6, <1>7 DEF Settled

\* The second loop has come to its end after at most NShards rounds.
LEMMA MoveLast ==
  ASSUME NEW o \in Configs, o.Groups # {}, NEW c, LoopInv(o, c),
         \A s \in ShardIds : c.Shards[s] \in o.Groups
  PROVE  /\ LoopInv(o, InOrder(MoveOne, c))
         /\ \A s \in ShardIds : InOrder(MoveOne, c).Shards[s] \in o.Groups
         /\ Settled(InOrder(MoveOne, c))
<1>1. PICK f : /\ f[0] = c
               /\ \A n \in 0..NShards : n # 0 => f[n] = MoveOne(f[n - 1], n - 1)
               /\ InOrder(MoveOne, c) = f[NShards]
  BY MoveLoop
<1> DEFINE Good == {n \in 0..NShards : MoveInv(o, f[n], n)}
<1>2. NShards \in Nat
  BY ShardsFinite
<1>3. \A d : Cardinality(Moved(o, d)) \in Nat
  <2>1. \A d : Moved(o, d) \in SUBSET ShardIds
    BY DEF Moved
  <2>2. \A d : IsFiniteSet(Moved(o, d))
    BY <2>1, ShardsFinite, FS_Subset
  <2> QED
    BY <2>2, FS_CardinalityType
<1>4. 0 \in Good
  <2>1. Cardinality(Moved(o, c)) >= 0
    BY <1>3
  <2> QED
    BY <1>1, <1>2, <2>1 DEF MoveInv
<1>5. ASSUME NEW n \in 0..NShards, n + 1 \in 0..NShards, n \in Good
      PROVE  n + 1 \in Good
  <2> DEFINE e == f[n]
  <2>1. MoveInv(o, e, n)
    BY <1>5
  <2>2. n + 1 # 0 /\ (n + 1) - 1 = n
    BY <1>5
  <2>3. f[n + 1] = MoveOne(e, n)
    BY <1>1, <1>5, <2>2
  <2>4. MoveInv(o, MoveOne(e, n), n + 1)
    <3> HIDE DEF e
    <3>1. CASE Settled(e)
      BY <2>1, <3>1 DEF MoveOne, MoveInv
    <3>2. CASE ~Settled(e)
      <4>1. /\ LoopInv(o, MoveOne(e, n))
            /\ \A s \in ShardIds : MoveOne(e, n).Shards[s] \in o.Groups
            /\ Cardinality(Moved(o, MoveOne(e, n))) = Cardinality(Moved(o, e)) + 1
        BY <2>1, <3>2, MoveStep DEF MoveInv
      <4>2. Cardinality(Moved(o, e)) >= n
        BY <2>1, <3>2 DEF MoveInv
      <4>3. Cardinality(Moved(o, e)) + 1 >= n + 1
        BY <1>3, <4>2
      <4> QED
        BY <4>1, <4>3 DEF MoveInv
    <3> QED
      BY <3>1, <3>2
  <2> QED
    BY <1>5, <2>3, <2>4
<1>6. MoveInv(o, f[NShards], NShards)
  <2>1. NShards \in 0..NShards
    BY <1>2
  <2> HIDE DEF Good
  <2>2. NShards \in Good
    BY <1>2, <1>4, <1>5, <2>1, UpTo
  <2> QED
    BY <2>2 DEF Good
<1>7. Settled(f[NShards])
  BY <1>6, AllMoved
<1> QED
  BY <1>1, <1>6, <1>7 DEF MoveInv

-----------------------------------------------------------------------------
(* What Rebalance returns. *)

\* Settled loads are balanced.
LEMMA SettledBalanced ==
  ASSUME NEW c \in Configs, c.Groups # {}, Settled(c),
         \A s \in ShardIds : c.Shards[s] \in c.Groups
  PROVE  Balanced(c.Shards, c.Groups)
<1>1. ASSUME NEW g \in c.Groups, NEW h \in c.Groups
      PROVE  Load(c, g) <= Load(c, h) + 1
  <2>1. /\ Load(c, g) <= Load(c, MostLoaded(c))
        /\ Load(c, LeastLoaded(c)) <= Load(c, h)
    BY MostLoadedIs, LeastLoadedIs
  <2>2. \A x : Load(c, x) \in Nat
    BY LoadType
  <2> QED
    BY <2>1, <2>2 DEF Settled
<1> QED
  BY <1>1 DEF Balanced, Load

\* With groups: what the loops keep, and a balanced assignment.
LEMMA RebalanceGroups ==
  ASSUME NEW o \in Configs, o.Groups # {}
  PROVE  LoopInv(o, Rebalance(o)) /\ Balanced(Rebalance(o).Shards, o.Groups)
<1> DEFINE b == InOrder(AssignOrphan, o)
           c == InOrder(MoveOne, b)
<1>1. Rebalance(o) = c
  BY DEF Rebalance
<1>2. LoopInv(o, b) /\ \A s \in ShardIds : b.Shards[s] \in o.Groups
  BY OrphanLast
<1> HIDE DEF b
<1>3. LoopInv(o, c) /\ Settled(c) /\ \A s \in ShardIds : c.Shards[s] \in o.Groups
  BY <1>2, MoveLast
<1> HIDE DEF c
<1>4. c \in Configs /\ c.Groups = o.Groups
  BY <1>3 DEF LoopInv, Same
<1>5. Balanced(c.Shards, c.Groups)
  BY <1>3, <1>4, SettledBalanced
<1> QED
  BY <1>1, <1>3, <1>4, <1>5

\* With or without groups: a well-typed configuration that CheckConfig
\* accepts.
LEMMA RebalanceResult ==
  ASSUME NEW o \in Configs
  PROVE  /\ Rebalance(o) \in Configs
         /\ Rebalance(o).Groups = o.Groups
         /\ Rebalance(o).Num = o.Num
         /\ IF o.Groups = {}
              THEN \A s \in ShardIds : Rebalance(o).Shards[s] = 0
              ELSE Balanced(Rebalance(o).Shards, o.Groups)
<1>1. CASE o.Groups = {}
  BY <1>1 DEF Rebalance, Configs
<1>2. CASE o.Groups # {}
  BY <1>2, RebalanceGroups DEF LoopInv, Same
<1> QED
  BY <1>1, <1>2

-----------------------------------------------------------------------------
(* CheckConfig. *)

\* The configuration is well-typed, whatever calls have succeeded or failed.
CfgTypeOK == cfg \in Configs /\ ok \in BOOLEAN

\* Changing the groups keeps the types.
LEMMA WithType ==
  ASSUME CfgTypeOK, NEW groups \in SUBSET Gids
  PROVE  /\ With(groups) \in Configs
         /\ With(groups).Groups = groups
         /\ With(groups).Shards = cfg.Shards
         /\ With(groups).Num = cfg.Num
BY DEF CfgTypeOK, With, Configs

\* What Rebalance is given.
Before(groups) == [With(groups) EXCEPT !.Num = @ + 1]

\* It has the new groups and the old assignment.
LEMMA BeforeType ==
  ASSUME CfgTypeOK, NEW groups \in SUBSET Gids
  PROVE  /\ Before(groups) \in Configs
         /\ Before(groups).Groups = groups
         /\ Before(groups).Shards = cfg.Shards
BY WithType DEF Before, Configs

\* A step either rebalances after a change of the groups or fails.
LEMMA NextCases ==
  ASSUME CfgTypeOK, Next
  PROVE  \/ \E groups \in SUBSET Gids : ok' = TRUE /\ cfg' = Rebalance(Before(groups))
         \/ \E groups \in SUBSET Gids : ok' = FALSE /\ cfg' = With(groups)
<1>1. PICK gids \in SUBSET Gids :
        JoinBalance(gids) \/ LeaveBalance(gids) \/ JoinFails(gids) \/ LeaveFails(gids)
  BY DEF Next
<1>2. cfg.Groups \in SUBSET Gids
  BY DEF CfgTypeOK, Configs
<1>3. CASE JoinBalance(gids)
  <2>1. cfg.Groups \cup gids \in SUBSET Gids
    BY <1>2
  <2> QED
    BY <1>3, <2>1 DEF JoinBalance, Change, Before
<1>4. CASE LeaveBalance(gids)
  <2>1. cfg.Groups \ gids \in SUBSET Gids
    BY <1>2
  <2> QED
    BY <1>4, <2>1 DEF LeaveBalance, Change, Before
<1>5. CASE JoinFails(gids)
  <2>1. PICK before \in SUBSET (gids \ cfg.Groups) : cfg' = With(cfg.Groups \cup before)
    BY <1>5 DEF JoinFails
  <2>2. cfg.Groups \cup before \in SUBSET Gids
    BY <1>2
  <2> QED
    BY <1>5, <2>1, <2>2 DEF JoinFails
<1>6. CASE LeaveFails(gids)
  <2>1. PICK before \in SUBSET (gids \cap cfg.Groups) : cfg' = With(cfg.Groups \ before)
    BY <1>6 DEF LeaveFails
  <2>2. cfg.Groups \ before \in SUBSET Gids
    BY <1>2
  <2> QED
    BY <1>6, <2>1, <2>2 DEF LeaveFails
<1> QED
  BY <1>1, <1>3, <1>4, <1>5, <1>6

\* The first configuration has no groups and no shard assigned.
LEMMA CfgFirst == Init => CfgTypeOK /\ CheckConfig
BY DEF Init, MakeShardConfig, CfgTypeOK, Configs, CheckConfig

\* Every call keeps the types, and one that returns true a configuration
\* that CheckConfig accepts.
LEMMA CfgStep ==
  CfgTypeOK /\ CheckConfig /\ [Next]_vars => (CfgTypeOK /\ CheckConfig)'
<1> SUFFICES ASSUME CfgTypeOK, CheckConfig, [Next]_vars
             PROVE  (CfgTypeOK /\ CheckConfig)'
  OBVIOUS
<1>1. CASE UNCHANGED vars
  BY <1>1 DEF vars, CfgTypeOK, CheckConfig
<1>2. CASE \E groups \in SUBSET Gids : ok' = TRUE /\ cfg' = Rebalance(Before(groups))
  <2>1. PICK groups \in SUBSET Gids : ok' = TRUE /\ cfg' = Rebalance(Before(groups))
    BY <1>2
  <2>2. /\ cfg' \in Configs
        /\ cfg'.Groups = groups
        /\ IF groups = {}
             THEN \A s \in ShardIds : cfg'.Shards[s] = 0
             ELSE Balanced(cfg'.Shards, groups)
    BY <2>1, BeforeType, RebalanceResult
  <2> QED
    BY <2>1, <2>2 DEF CfgTypeOK, CheckConfig, Balanced
<1>3. CASE \E groups \in SUBSET Gids : ok' = FALSE /\ cfg' = With(groups)
  BY <1>3, WithType DEF CfgTypeOK, CheckConfig
<1> QED
  BY <1>1, <1>2, <1>3, NextCases

\* A configuration that JoinBalance or LeaveBalance has returned true for is
\* balanced, whatever calls failed halfway before it; in particular the loop
\* of Rebalance that has no bound comes to its end.
THEOREM ConfigsChecked == Spec => []CheckConfig
<1>1. Init => CfgTypeOK /\ CheckConfig
  BY CfgFirst
<1>2. CfgTypeOK /\ CheckConfig /\ [Next]_vars => (CfgTypeOK /\ CheckConfig)'
  BY CfgStep
<1> QED
  BY <1>1, <1>2, PTL DEF Spec

-----------------------------------------------------------------------------
(* Comparing two sets class by class. *)

\* The elements of S that a puts in class x.
Class(S, a, x) == {s \in S : a[s] = x}

\* A finite set goes into one that is not smaller.
LEMMA InjectionExists ==
  ASSUME NEW A, IsFiniteSet(A), NEW B, IsFiniteSet(B),
         Cardinality(A) <= Cardinality(B)
  PROVE  \E f : f \in Injection(A, B)
<1> DEFINE m == Cardinality(A)
           n == Cardinality(B)
<1>1. m \in Nat /\ n \in Nat /\ m <= n
  BY FS_CardinalityType
<1>2. PICK p : p \in Bijection(1..m, A)
  BY FS_CardinalityType DEF ExistsBijection
<1>3. PICK q : q \in Bijection(1..n, B)
  BY FS_CardinalityType DEF ExistsBijection
<1> HIDE DEF m, n
<1> DEFINE at(s) == CHOOSE i \in 1..m : p[i] = s
           f == [s \in A |-> q[at(s)]]
<1>4. \A s \in A : at(s) \in 1..m /\ p[at(s)] = s
  BY <1>2 DEF Bijection, Surjection
<1> HIDE DEF at
<1>5. \A s \in A : at(s) \in 1..n
  BY <1>1, <1>4
<1>6. q \in [1..n -> B] /\ \A i, j \in 1..n : q[i] = q[j] => i = j
  BY <1>3 DEF Bijection, Injection, IsInjective
<1>7. f \in [A -> B]
  BY <1>5, <1>6
<1>8. \A s, t \in A : f[s] = f[t] => s = t
  BY <1>4, <1>5, <1>6
<1>9. f \in Injection(A, B)
  BY <1>7, <1>8 DEF Injection, IsInjective
<1> QED
  BY <1>9

\* A set that has no more elements than another in any class has no more
\* elements.
LEMMA ClassByClass ==
  ASSUME NEW S, IsFiniteSet(S), NEW T, IsFiniteSet(T), NEW a, NEW b,
         \A x : Cardinality(Class(S, a, x)) <= Cardinality(Class(T, b, x))
  PROVE  Cardinality(S) <= Cardinality(T)
<1> DEFINE A(x) == Class(S, a, x)
           B(x) == Class(T, b, x)
           into(x) == CHOOSE f : f \in Injection(A(x), B(x))
           g == [s \in S |-> into(a[s])[s]]
<1>1. \A x : A(x) \in SUBSET S /\ B(x) \in SUBSET T
  BY DEF Class
<1>2. \A x : IsFiniteSet(A(x)) /\ IsFiniteSet(B(x))
  BY <1>1, FS_Subset
<1>3. \A x : into(x) \in Injection(A(x), B(x))
  BY <1>2, InjectionExists
<1> HIDE DEF into
<1>4. \A x : /\ into(x) \in [A(x) -> B(x)]
             /\ \A s, t \in A(x) : into(x)[s] = into(x)[t] => s = t
  BY <1>3 DEF Injection, IsInjective
<1>5. \A s \in S : s \in A(a[s])
  BY DEF Class
<1>6. ASSUME NEW s \in S PROVE g[s] \in T /\ b[g[s]] = a[s]
  <2>1. into(a[s])[s] \in B(a[s])
    BY <1>4, <1>5
  <2> QED
    BY <2>1 DEF Class
<1>7. g \in [S -> T]
  BY <1>6
<1>8. ASSUME NEW s \in S, NEW t \in S, g[s] = g[t] PROVE s = t
  <2>1. a[s] = a[t]
    BY <1>6, <1>8
  <2>2. s \in A(a[s]) /\ t \in A(a[s]) /\ into(a[s])[s] = into(a[s])[t]
    BY <1>5, <1>8, <2>1
  <2> QED
    BY <1>4, <2>2
<1> HIDE DEF g
<1>9. g \in Injection(S, T)
  BY <1>7, <1>8 DEF Injection, IsInjective
<1> QED
  BY <1>9, FS_Injection

\* And fewer elements, if it has fewer in one class.
LEMMA FewerInOneClass ==
  ASSUME NEW S, IsFiniteSet(S), NEW T, IsFiniteSet(T), NEW a, NEW b,
         \A x : Cardinality(Class(S, a, x)) <= Cardinality(Class(T, b, x)),
         NEW y, Cardinality(Class(S, a, y)) < Cardinality(Class(T, b, y))
  PROVE  Cardinality(S) < Cardinality(T)
<1>1. \A x : Class(S, a, x) \in SUBSET S /\ Class(T, b, x) \in SUBSET T
  BY DEF Class
<1>2. \A x : IsFiniteSet(Class(S, a, x)) /\ IsFiniteSet(Class(T, b, x))
  BY <1>1, FS_Subset
<1>3. \A x : /\ Cardinality(Class(S, a, x)) \in Nat
             /\ Cardinality(Class(T, b, x)) \in Nat
  BY <1>2, FS_CardinalityType
<1>4. Cardinality(Class(T, b, y)) # 0
  BY <1>3
<1>5. PICK t \in T : b[t] = y
  <2>1. Class(T, b, y) # {}
    BY <1>4, FS_EmptySet
  <2> QED
    BY <2>1 DEF Class
<1> DEFINE U == T \ {t}
<1>6. IsFiniteSet(U) /\ Cardinality(U) = Cardinality(T) - 1
  BY <1>5, FS_RemoveElement
<1>7. ASSUME NEW x
      PROVE  Cardinality(Class(S, a, x)) <= Cardinality(Class(U, b, x))
  <2>1. CASE x = y
    <3>1. Class(U, b, x) = Class(T, b, x) \ {t} /\ t \in Class(T, b, x)
      BY <1>5, <2>1 DEF Class
    <3>2. Cardinality(Class(U, b, x)) = Cardinality(Class(T, b, x)) - 1
      BY <1>2, <3>1, FS_RemoveElement
    <3> QED
      BY <1>3, <2>1, <3>2
  <2>2. CASE x # y
    <3>1. Class(U, b, x) = Class(T, b, x)
      BY <1>5, <2>2 DEF Class
    <3> QED
      BY <3>1
  <2> QED
    BY <2>1, <2>2
<1> HIDE DEF U
<1>8. Cardinality(S) <= Cardinality(U)
  BY <1>6, <1>7, ClassByClass
<1>9. Cardinality(S) \in Nat /\ Cardinality(T) \in Nat
  BY FS_CardinalityType
<1> QED
  BY <1>6, <1>8, <1>9

-----------------------------------------------------------------------------
(* FewestMoves: c is the result of Rebalance(o), and f another balanced    *)
(* assignment to the same groups.                                          *)

\* The shards that f would move.
Moves(o, f) == {s \in ShardIds : f[s] # o.Shards[s]}

\* c and f are balanced assignments to the groups, and the loops got to c.
Rivals(o, c, f) ==
  /\ o \in Configs
  /\ LoopInv(o, c)
  /\ Balanced(c.Shards, o.Groups)
  /\ Balanced(f, o.Groups)

\* How many shards f gives to g.
Share(f, g) == Cardinality(Here(f, g))

\* The facts that Balanced states, and the types of all counts.
LEMMA RivalFacts ==
  ASSUME NEW o, NEW c, NEW f, Rivals(o, c, f)
  PROVE  /\ \A s \in ShardIds : c.Shards[s] \in o.Groups /\ f[s] \in o.Groups
         /\ \A g, h \in o.Groups : Load(c, g) <= Load(c, h) + 1
         /\ \A g, h \in o.Groups : Share(f, g) <= Share(f, h) + 1
         /\ \A g : Load(c, g) \in Nat /\ Share(f, g) \in Nat
         /\ \A g : Load(c, g) = Cardinality(Class(ShardIds, c.Shards, g))
         /\ \A g : Share(f, g) = Cardinality(Class(ShardIds, f, g))
         /\ \A g : g \notin o.Groups => Load(c, g) = 0 /\ Share(f, g) = 0
<1>1. \A s \in ShardIds : c.Shards[s] \in o.Groups /\ f[s] \in o.Groups
  BY DEF Rivals, Balanced
<1>2. \A g, h \in o.Groups : /\ Load(c, g) <= Load(c, h) + 1
                             /\ Share(f, g) <= Share(f, h) + 1
  BY DEF Rivals, Balanced, Load, Share, Here
<1>3. \A g : Load(c, g) \in Nat /\ Share(f, g) \in Nat
  BY LoadType, HereFinite DEF Share
<1>4. \A g : /\ Load(c, g) = Cardinality(Class(ShardIds, c.Shards, g))
             /\ Share(f, g) = Cardinality(Class(ShardIds, f, g))
  BY DEF Load, Share, Here, Class
<1>5. ASSUME NEW g, g \notin o.Groups
      PROVE  Load(c, g) = 0 /\ Share(f, g) = 0
  <2>1. Here(c.Shards, g) = {} /\ Here(f, g) = {}
    BY <1>1, <1>5 DEF Here
  <2> QED
    BY <2>1, LoadType, HereFinite DEF Share
<1> QED
  BY <1>1, <1>2, <1>3, <1>4, <1>5

\* f cannot give a group of the greatest load more than that: it would have
\* more shards in all.
LEMMA NoMoreThanMost ==
  ASSUME NEW o, NEW c, NEW f, Rivals(o, c, f), NEW g \in o.Groups,
         \A h \in o.Groups : Load(c, h) <= Load(c, g)
  PROVE  Share(f, g) <= Load(c, g)
<1> SUFFICES ASSUME ~(Share(f, g) <= Load(c, g)) PROVE FALSE
  OBVIOUS
<1>1. \A x : Load(c, x) \in Nat /\ Share(f, x) \in Nat
  BY RivalFacts
<1>2. ASSUME NEW x PROVE Load(c, x) <= Share(f, x)
  <2>1. CASE x \in o.Groups
    <3>1. Share(f, g) <= Share(f, x) + 1 /\ Load(c, x) <= Load(c, g)
      BY <2>1, RivalFacts
    <3> QED
      BY <1>1, <3>1
  <2>2. CASE x \notin o.Groups
    BY <1>1, <2>2, RivalFacts
  <2> QED
    BY <2>1, <2>2
<1>3. Load(c, g) < Share(f, g)
  BY <1>1
<1>4. Cardinality(ShardIds) < Cardinality(ShardIds)
  <2>1. \A x : Cardinality(Class(ShardIds, c.Shards, x))
                 <= Cardinality(Class(ShardIds, f, x))
    BY <1>2, RivalFacts
  <2>2. Cardinality(Class(ShardIds, c.Shards, g))
          < Cardinality(Class(ShardIds, f, g))
    BY <1>3, RivalFacts
  <2> QED
    BY <2>1, <2>2, ShardsFinite, FewerInOneClass
<1> QED
  BY <1>4, ShardsFinite

\* Nor can it give a group of the smallest load less than that.
LEMMA NoLessThanLeast ==
  ASSUME NEW o, NEW c, NEW f, Rivals(o, c, f), NEW g \in o.Groups,
         \A h \in o.Groups : Load(c, g) <= Load(c, h)
  PROVE  Load(c, g) <= Share(f, g)
<1> SUFFICES ASSUME ~(Load(c, g) <= Share(f, g)) PROVE FALSE
  OBVIOUS
<1>1. \A x : Load(c, x) \in Nat /\ Share(f, x) \in Nat
  BY RivalFacts
<1>2. ASSUME NEW x PROVE Share(f, x) <= Load(c, x)
  <2>1. CASE x \in o.Groups
    <3>1. Share(f, x) <= Share(f, g) + 1 /\ Load(c, g) <= Load(c, x)
      BY <2>1, RivalFacts
    <3> QED
      BY <1>1, <3>1
  <2>2. CASE x \notin o.Groups
    BY <1>1, <2>2, RivalFacts
  <2> QED
    BY <2>1, <2>2
<1>3. Share(f, g) < Load(c, g)
  BY <1>1
<1>4. Cardinality(ShardIds) < Cardinality(ShardIds)
  <2>1. \A x : Cardinality(Class(ShardIds, f, x))
                 <= Cardinality(Class(ShardIds, c.Shards, x))
    BY <1>2, RivalFacts
  <2>2. Cardinality(Class(ShardIds, f, g))
          < Cardinality(Class(ShardIds, c.Shards, g))
    BY <1>3, RivalFacts
  <2> QED
    BY <2>1, <2>2, ShardsFinite, FewerInOneClass
<1> QED
  BY <1>4, ShardsFinite

\* The larger set leaves less of a set that contains it.
LEMMA LeavesLess ==
  ASSUME NEW R, IsFiniteSet(R), NEW P \in SUBSET R, NEW Q, IsFiniteSet(Q),
         Cardinality(Q) <= Cardinality(P)
  PROVE  Cardinality(R \ P) <= Cardinality(R \ Q)
<1>1. /\ Cardinality(R \ P) = Cardinality(R) - Cardinality(R \cap P)
      /\ Cardinality(R \ Q) = Cardinality(R) - Cardinality(R \cap Q)
  BY FS_Difference
<1>2. R \cap P = P
  OBVIOUS
<1>3. /\ IsFiniteSet(P) /\ IsFiniteSet(R \cap Q)
      /\ Cardinality(R \cap Q) <= Cardinality(Q)
  BY FS_Subset, FS_Intersection
<1>4. /\ Cardinality(R) \in Nat /\ Cardinality(P) \in Nat
      /\ Cardinality(Q) \in Nat /\ Cardinality(R \cap Q) \in Nat
  BY <1>3, FS_CardinalityType
<1>5. Cardinality(R \ P) = Cardinality(R) - Cardinality(P)
  BY <1>1, <1>2
<1> QED
  BY <1>1, <1>3, <1>4, <1>5

\* It takes less away from the larger set.
LEMMA TakesLess ==
  ASSUME NEW P, IsFiniteSet(P), NEW Q, IsFiniteSet(Q), NEW R \in SUBSET P,
         Cardinality(P) <= Cardinality(Q)
  PROVE  Cardinality(P \ R) <= Cardinality(Q \ R)
<1>1. /\ Cardinality(P \ R) = Cardinality(P) - Cardinality(P \cap R)
      /\ Cardinality(Q \ R) = Cardinality(Q) - Cardinality(Q \cap R)
  BY FS_Difference
<1>2. P \cap R = R
  OBVIOUS
<1>3. IsFiniteSet(R)
  BY FS_Subset
<1>4. IsFiniteSet(Q \cap R) /\ Cardinality(Q \cap R) <= Cardinality(R)
  BY <1>3, FS_Intersection
<1>5. /\ Cardinality(P) \in Nat /\ Cardinality(R) \in Nat
      /\ Cardinality(Q) \in Nat /\ Cardinality(Q \cap R) \in Nat
  BY <1>3, <1>4, FS_CardinalityType
<1> QED
  BY <1>1, <1>2, <1>4, <1>5

\* Moved sets are finite.
LEMMA MovesFinite ==
  ASSUME NEW o, NEW c, NEW f
  PROVE  IsFiniteSet(Moved(o, c)) /\ IsFiniteSet(Moves(o, f))
<1>1. Moved(o, c) \in SUBSET ShardIds /\ Moves(o, f) \in SUBSET ShardIds
  BY DEF Moved, Moves
<1> QED
  BY <1>1, ShardsFinite, FS_Subset

\* When only groups of the greatest load have lost shards, f takes at least
\* as many shards from every group.
LEMMA FewestLost ==
  ASSUME NEW o, NEW c, NEW f, Rivals(o, c, f),
         \A g, h \in o.Groups : Lost(o, c, g) => Load(c, h) <= Load(c, g)
  PROVE  Cardinality(Moved(o, c)) <= Cardinality(Moves(o, f))
<1> DEFINE A(x) == Class(Moved(o, c), o.Shards, x)
           B(x) == Class(Moves(o, f), o.Shards, x)
<1>1. \A x : /\ A(x) = Here(o.Shards, x) \ Here(c.Shards, x)
             /\ B(x) = Here(o.Shards, x) \ Here(f, x)
  BY DEF Class, Moved, Moves, Here
<1>2. ASSUME NEW x PROVE Cardinality(A(x)) <= Cardinality(B(x))
  <2>0. A(x) \in SUBSET Moved(o, c) /\ B(x) \in SUBSET Moves(o, f)
    BY DEF Class
  <2>1. IsFiniteSet(A(x)) /\ IsFiniteSet(B(x))
    BY <2>0, MovesFinite, FS_Subset
  <2>2. CASE A(x) \subseteq B(x)
    BY <2>1, <2>2, FS_Subset
  <2>3. CASE x \notin o.Groups
    <3>1. A(x) \subseteq B(x)
      BY <1>1, <2>3, RivalFacts DEF Here
    <3> QED
      BY <2>2, <3>1
  <2>4. CASE ~Lost(o, c, x)
    <3>1. A(x) = {}
      BY <1>1, <2>4 DEF Here, Lost
    <3> QED
      BY <2>2, <3>1
  <2>5. CASE x \in o.Groups /\ Lost(o, c, x)
    <3>1. ~Received(o, c, x)
      BY <2>5 DEF Rivals, LoopInv, OneWay
    <3>2. Here(c.Shards, x) \in SUBSET Here(o.Shards, x)
      BY <3>1 DEF Here, Received
    <3>3. Share(f, x) <= Load(c, x)
      BY <2>5, NoMoreThanMost
    <3>4. Cardinality(Here(f, x)) <= Cardinality(Here(c.Shards, x))
      BY <3>3, LoadType DEF Share
    <3> QED
      BY <1>1, <3>2, <3>4, HereFinite, LeavesLess
  <2> QED
    BY <2>3, <2>4, <2>5
<1> QED
  BY <1>2, MovesFinite, ClassByClass

\* When only groups of the smallest load have received shards, f brings at
\* least as many shards to every group.
LEMMA FewestReceived ==
  ASSUME NEW o, NEW c, NEW f, Rivals(o, c, f),
         \A g, h \in o.Groups : Received(o, c, g) => Load(c, g) <= Load(c, h)
  PROVE  Cardinality(Moved(o, c)) <= Cardinality(Moves(o, f))
<1> DEFINE A(x) == Class(Moved(o, c), c.Shards, x)
           B(x) == Class(Moves(o, f), f, x)
<1>1. \A x : /\ A(x) = Here(c.Shards, x) \ Here(o.Shards, x)
             /\ B(x) = Here(f, x) \ Here(o.Shards, x)
  BY DEF Class, Moved, Moves, Here
<1>2. ASSUME NEW x PROVE Cardinality(A(x)) <= Cardinality(B(x))
  <2>0. A(x) \in SUBSET Moved(o, c) /\ B(x) \in SUBSET Moves(o, f)
    BY DEF Class
  <2>1. IsFiniteSet(A(x)) /\ IsFiniteSet(B(x))
    BY <2>0, MovesFinite, FS_Subset
  <2>2. CASE A(x) = {}
    BY <2>1, <2>2, FS_Subset
  <2>3. CASE x \notin o.Groups
    <3>1. A(x) = {}
      BY <1>1, <2>3, RivalFacts DEF Here
    <3> QED
      BY <2>2, <3>1
  <2>4. CASE ~Received(o, c, x)
    <3>1. A(x) = {}
      BY <1>1, <2>4 DEF Here, Received
    <3> QED
      BY <2>2, <3>1
  <2>5. CASE x \in o.Groups /\ Received(o, c, x)
    <3>1. ~Lost(o, c, x)
      BY <2>5 DEF Rivals, LoopInv, OneWay
    <3>2. Here(o.Shards, x) \in SUBSET Here(c.Shards, x)
      BY <3>1 DEF Here, Lost
    <3>3. Load(c, x) <= Share(f, x)
      BY <2>5, NoLessThanLeast
    <3>4. Cardinality(Here(c.Shards, x)) <= Cardinality(Here(f, x))
      BY <3>3, LoadType DEF Share
    <3> QED
      BY <1>1, <3>2, <3>4, HereFinite, TakesLess
  <2> QED
    BY <2>3, <2>4, <2>5
<1> QED
  BY <1>2, MovesFinite, ClassByClass

\* One of the two always holds: the loads are within one of each other, and
\* no group that received has more than one that lost.
LEMMA FewestOfAll ==
  ASSUME NEW o, NEW c, NEW f, Rivals(o, c, f)
  PROVE  Cardinality(Moved(o, c)) <= Cardinality(Moves(o, f))
<1> DEFINE Top == \A g, h \in o.Groups : Lost(o, c, g) => Load(c, h) <= Load(c, g)
           Bottom == \A g, h \in o.Groups : Received(o, c, g) => Load(c, g) <= Load(c, h)
<1>1. Top \/ Bottom
  <2> SUFFICES ASSUME ~Top, ~Bottom PROVE FALSE
    OBVIOUS
  <2>1. PICK g \in o.Groups, h \in o.Groups :
          Lost(o, c, g) /\ ~(Load(c, h) <= Load(c, g))
    OBVIOUS
  <2>2. PICK r \in o.Groups, k \in o.Groups :
          Received(o, c, r) /\ ~(Load(c, r) <= Load(c, k))
    OBVIOUS
  <2>3. Load(c, r) <= Load(c, g)
    BY <2>1, <2>2 DEF Rivals, LoopInv, Downhill
  <2>4. Load(c, h) <= Load(c, k) + 1
    BY RivalFacts
  <2>5. \A x : Load(c, x) \in Nat
    BY RivalFacts
  <2> HIDE DEF Top, Bottom
  <2> QED
    BY <2>1, <2>2, <2>3, <2>4, <2>5
<1> QED
  BY <1>1, FewestLost, FewestReceived

\* Rebalance moves no more shards than any balanced assignment to the new
\* groups would.
THEOREM MovesAreFewest == Spec => FewestMoves
<1> DEFINE Fewest ==
             cfg'.Num # cfg.Num =>
               \A f \in [ShardIds -> cfg'.Groups] :
                 Balanced(f, cfg'.Groups) =>
                   Cardinality({s \in ShardIds : cfg'.Shards[s] # cfg.Shards[s]})
                     <= Cardinality({s \in ShardIds : f[s] # cfg.Shards[s]})
<1>1. Init => CfgTypeOK /\ CheckConfig
  BY CfgFirst
<1>2. CfgTypeOK /\ CheckConfig /\ [Next]_vars => (CfgTypeOK /\ CheckConfig)'
  BY CfgStep
<1>3. CfgTypeOK /\ [Next]_vars => [Fewest]_vars
  <2> SUFFICES ASSUME CfgTypeOK, Next, cfg'.Num # cfg.Num,
                      NEW f \in [ShardIds -> cfg'.Groups],
                      Balanced(f, cfg'.Groups)
               PROVE  Cardinality({s \in ShardIds : cfg'.Shards[s] # cfg.Shards[s]})
                        <= Cardinality({s \in ShardIds : f[s] # cfg.Shards[s]})
    OBVIOUS
  <2>1. PICK groups \in SUBSET Gids : cfg' = Rebalance(Before(groups))
    <3>1. \A groups \in SUBSET Gids : cfg' # With(groups)
      <4>1. \A groups \in SUBSET Gids : With(groups).Num = cfg.Num
        BY WithType
      <4> QED
        BY <4>1
    <3>2. \/ \E groups \in SUBSET Gids :
               ok' = TRUE /\ cfg' = Rebalance(Before(groups))
          \/ \E groups \in SUBSET Gids : ok' = FALSE /\ cfg' = With(groups)
      BY NextCases
    <3> QED
      BY <3>1, <3>2
  <2> DEFINE o == Before(groups)
             c == Rebalance(o)
  <2>2. o \in Configs /\ o.Groups = groups /\ o.Shards = cfg.Shards
    BY BeforeType
  <2> HIDE DEF o
  <2>3. c = cfg' /\ cfg'.Groups = groups
    BY <2>1, <2>2, RebalanceResult DEF o
  <2>4. groups # {}
    BY <2>3, ShardsFinite
  <2>5. LoopInv(o, c) /\ Balanced(c.Shards, o.Groups)
    BY <2>2, <2>4, RebalanceGroups
  <2> HIDE DEF c
  <2>6. Rivals(o, c, f)
    BY <2>2, <2>3, <2>5 DEF Rivals
  <2>7. Cardinality(Moved(o, c)) <= Cardinality(Moves(o, f))
    BY <2>6, FewestOfAll
  <2>8. /\ Moved(o, c) = {s \in ShardIds : cfg'.Shards[s] # cfg.Shards[s]}
        /\ Moves(o, f) = {s \in ShardIds : f[s] # cfg.Shards[s]}
    BY <2>2, <2>3 DEF Moved, Moves
  <2> QED
    BY <2>7, <2>8
<1> QED
  BY <1>1, <1>2, <1>3, PTL DEF Spec, FewestMoves

=============================================================================
