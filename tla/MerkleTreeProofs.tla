-------------------------- MODULE MerkleTreeProofs --------------------------
(***************************************************************************)
(* Theorems about the contract's note tree, for a tree of any height: the  *)
(* path that _updateLeaf rehashes keeps the whole tree, every path of      *)
(* getMerkleProof leads to the root, and a root names its leaves.          *)
(*                                                                         *)
(* The model's recursive functions count levels.  Nothing is known of such *)
(* a function before a solution of its equation exists, so each has a      *)
(* lemma that builds one level by level; LevelInduction, which is about a  *)
(* set of levels, stands for induction.                                    *)
(***************************************************************************)
EXTENDS MerkleTree, TLAPS, WellFoundedInduction

(* A set of naturals has a least element.                                  *)
LEMMA LeastLevel ==
    ASSUME NEW T \in SUBSET Nat, T # {}
    PROVE  \E k \in T : \A j \in T : k <= j
<1> DEFINE R == OpToRel(<, Nat)
<1>1. IsWellFoundedOn(R, Nat)
  BY NatLessThanWellFounded
<1>2. ASSUME NEW j \in Nat, NEW k \in Nat, j < k PROVE <<j, k>> \in R
  <2>1. <<j, k>> \in Nat \X Nat /\ <<j, k>>[1] = j /\ <<j, k>>[2] = k
    OBVIOUS
  <2> QED
    BY <1>2, <2>1 DEF OpToRel
<1> HIDE DEF R
<1>3. PICK k \in T : \A j \in T : ~(<<j, k>> \in R)
  BY <1>1, WFMin
<1>4. \A j \in T : ~(j < k)
  BY <1>2, <1>3
<1> QED
  BY <1>3, <1>4

(* What holds at the leaves, and one level up from where it holds, holds   *)
(* on every level.                                                         *)
LEMMA LevelInduction ==
    ASSUME NEW G, 0 \in G, \A l \in 1..Depth : l - 1 \in G => l \in G
    PROVE  \A l \in Levels : l \in G
<1> DEFINE B == {l \in 0..Depth : l \notin G}
<1> SUFFICES ASSUME B # {} PROVE FALSE
  BY DEF Levels
<1>1. Depth \in Nat /\ B \in SUBSET Nat
  BY TreeAssumption
<1>2. PICK k \in B : \A j \in B : k <= j
  BY <1>1, LeastLevel
<1>3. k \in 1..Depth /\ k - 1 \in 0..Depth
  BY <1>1
<1>4. k - 1 \in G
  BY <1>1, <1>2, <1>3
<1> QED
  BY <1>3, <1>4

(* zeros, as the constructor's loop fills it.                              *)
LEMMA ZerosStep ==
    /\ Zeros[0] = Zero
    /\ \A l \in 1..Depth : Zeros[l] = Hash(Zeros[l - 1], Zeros[l - 1])
<1> DEFINE Base == Zero
           Step(l, x) == Hash(x, x)
           Def(n, g) == g = [l \in 0..n |-> IF l = 0 THEN Base ELSE Step(l, g[l - 1])]
           G == {n \in Levels : \E g : Def(n, g)}
<1>0. Depth \in Nat
  BY TreeAssumption
<1>1. 0 \in G
  <2> DEFINE h == [l \in 0..0 |-> Base]
  <2> HIDE DEF Base, Step
  <2>1. Def(0, h)
    OBVIOUS
  <2> HIDE DEF Def
  <2> QED
    BY <1>0, <2>1 DEF Levels
<1>2. ASSUME NEW n \in 1..Depth, n - 1 \in G PROVE n \in G
  <2>1. PICK g : Def(n - 1, g)
    BY <1>2
  <2> DEFINE h == [l \in 0..n |-> IF l = n THEN Step(n, g[n - 1]) ELSE g[l]]
  <2> HIDE DEF Base, Step
  <2>2. ASSUME NEW l \in 0..n PROVE h[l] = IF l = 0 THEN Base ELSE Step(l, h[l - 1])
    <3>1. CASE l = n
      BY <1>0, <3>1
    <3>2. CASE l # n
      <4>1. l \in 0..n - 1
        BY <1>0, <3>2
      <4>2. g[l] = IF l = 0 THEN Base ELSE Step(l, g[l - 1])
        BY <2>1, <4>1
      <4>3. l # 0 => l - 1 \in 0..n /\ l - 1 # n
        BY <1>0, <4>1
      <4> QED
        BY <3>2, <4>2, <4>3
    <3> QED
      BY <3>1, <3>2
  <2>3. Def(n, h)
    <3>1. h = [l \in 0..n |-> h[l]]
      OBVIOUS
    <3> HIDE DEF h
    <3> QED
      BY <2>2, <3>1
  <2> HIDE DEF Def, h
  <2> QED
    BY <1>0, <2>3 DEF Levels
<1>3. \E g : Def(Depth, g)
  <2> HIDE DEF G
  <2>1. Depth \in G
    BY <1>0, <1>1, <1>2, LevelInduction DEF Levels
  <2> QED
    BY <2>1 DEF G
<1>4. Def(Depth, Zeros)
  BY <1>3 DEF Zeros, Levels
<1>5. /\ Zeros[0] = Base
      /\ \A l \in 1..Depth : Zeros[l] = Step(l, Zeros[l - 1])
  <2> HIDE DEF Base, Step
  <2>1. ASSUME NEW l \in 0..Depth
        PROVE  Zeros[l] = IF l = 0 THEN Base ELSE Step(l, Zeros[l - 1])
    BY <1>4
  <2> QED
    BY <1>0, <2>1
<1> QED
  BY <1>5

(* The hashes of one height are the pairs of those below.                  *)
LEMMA HashesStep ==
    /\ Hashes[0] = NoteLeaves \cup {Zero}
    /\ \A l \in 1..Depth : Hashes[l] = Hashes[l - 1] \X Hashes[l - 1]
<1> DEFINE Base == NoteLeaves \cup {Zero}
           Step(l, x) == x \X x
           Def(n, g) == g = [l \in 0..n |-> IF l = 0 THEN Base ELSE Step(l, g[l - 1])]
           G == {n \in Levels : \E g : Def(n, g)}
<1>0. Depth \in Nat
  BY TreeAssumption
<1>1. 0 \in G
  <2> DEFINE h == [l \in 0..0 |-> Base]
  <2> HIDE DEF Base, Step
  <2>1. Def(0, h)
    OBVIOUS
  <2> HIDE DEF Def
  <2> QED
    BY <1>0, <2>1 DEF Levels
<1>2. ASSUME NEW n \in 1..Depth, n - 1 \in G PROVE n \in G
  <2>1. PICK g : Def(n - 1, g)
    BY <1>2
  <2> DEFINE h == [l \in 0..n |-> IF l = n THEN Step(n, g[n - 1]) ELSE g[l]]
  <2> HIDE DEF Base, Step
  <2>2. ASSUME NEW l \in 0..n PROVE h[l] = IF l = 0 THEN Base ELSE Step(l, h[l - 1])
    <3>1. CASE l = n
      BY <1>0, <3>1
    <3>2. CASE l # n
      <4>1. l \in 0..n - 1
        BY <1>0, <3>2
      <4>2. g[l] = IF l = 0 THEN Base ELSE Step(l, g[l - 1])
        BY <2>1, <4>1
      <4>3. l # 0 => l - 1 \in 0..n /\ l - 1 # n
        BY <1>0, <4>1
      <4> QED
        BY <3>2, <4>2, <4>3
    <3> QED
      BY <3>1, <3>2
  <2>3. Def(n, h)
    <3>1. h = [l \in 0..n |-> h[l]]
      OBVIOUS
    <3> HIDE DEF h
    <3> QED
      BY <2>2, <3>1
  <2> HIDE DEF Def, h
  <2> QED
    BY <1>0, <2>3 DEF Levels
<1>3. \E g : Def(Depth, g)
  <2> HIDE DEF G
  <2>1. Depth \in G
    BY <1>0, <1>1, <1>2, LevelInduction DEF Levels
  <2> QED
    BY <2>1 DEF G
<1>4. Def(Depth, Hashes)
  BY <1>3 DEF Hashes, Levels
<1>5. /\ Hashes[0] = Base
      /\ \A l \in 1..Depth : Hashes[l] = Step(l, Hashes[l - 1])
  <2> HIDE DEF Base, Step
  <2>1. ASSUME NEW l \in 0..Depth
        PROVE  Hashes[l] = IF l = 0 THEN Base ELSE Step(l, Hashes[l - 1])
    BY <1>4
  <2> QED
    BY <1>0, <2>1
<1> QED
  BY <1>5

(* Each level up has half as many nodes.                                   *)
LEMMA WidthStep ==
    /\ Width[0] = 1
    /\ \A h \in 1..Depth : Width[h] = 2 * Width[h - 1]
<1> DEFINE Base == 1
           Step(l, x) == 2 * x
           Def(n, g) == g = [l \in 0..n |-> IF l = 0 THEN Base ELSE Step(l, g[l - 1])]
           G == {n \in Levels : \E g : Def(n, g)}
<1>0. Depth \in Nat
  BY TreeAssumption
<1>1. 0 \in G
  <2> DEFINE h == [l \in 0..0 |-> Base]
  <2> HIDE DEF Base, Step
  <2>1. Def(0, h)
    OBVIOUS
  <2> HIDE DEF Def
  <2> QED
    BY <1>0, <2>1 DEF Levels
<1>2. ASSUME NEW n \in 1..Depth, n - 1 \in G PROVE n \in G
  <2>1. PICK g : Def(n - 1, g)
    BY <1>2
  <2> DEFINE h == [l \in 0..n |-> IF l = n THEN Step(n, g[n - 1]) ELSE g[l]]
  <2> HIDE DEF Base, Step
  <2>2. ASSUME NEW l \in 0..n PROVE h[l] = IF l = 0 THEN Base ELSE Step(l, h[l - 1])
    <3>1. CASE l = n
      BY <1>0, <3>1
    <3>2. CASE l # n
      <4>1. l \in 0..n - 1
        BY <1>0, <3>2
      <4>2. g[l] = IF l = 0 THEN Base ELSE Step(l, g[l - 1])
        BY <2>1, <4>1
      <4>3. l # 0 => l - 1 \in 0..n /\ l - 1 # n
        BY <1>0, <4>1
      <4> QED
        BY <3>2, <4>2, <4>3
    <3> QED
      BY <3>1, <3>2
  <2>3. Def(n, h)
    <3>1. h = [l \in 0..n |-> h[l]]
      OBVIOUS
    <3> HIDE DEF h
    <3> QED
      BY <2>2, <3>1
  <2> HIDE DEF Def, h
  <2> QED
    BY <1>0, <2>3 DEF Levels
<1>3. \E g : Def(Depth, g)
  <2> HIDE DEF G
  <2>1. Depth \in G
    BY <1>0, <1>1, <1>2, LevelInduction DEF Levels
  <2> QED
    BY <2>1 DEF G
<1>4. Def(Depth, Width)
  BY <1>3 DEF Width, Levels
<1>5. /\ Width[0] = Base
      /\ \A l \in 1..Depth : Width[l] = Step(l, Width[l - 1])
  <2> HIDE DEF Base, Step
  <2>1. ASSUME NEW l \in 0..Depth
        PROVE  Width[l] = IF l = 0 THEN Base ELSE Step(l, Width[l - 1])
    BY <1>4
  <2> QED
    BY <1>0, <2>1
<1> QED
  BY <1>5

(* The loops halve the index once per level.                               *)
LEMMA AncestorsStep ==
    ASSUME NEW index
    PROVE  /\ Ancestors(index)[0] = index
           /\ \A l \in 1..Depth : Ancestors(index)[l] = Ancestors(index)[l - 1] \div 2
<1> DEFINE Base == index
           Step(l, x) == x \div 2
           Def(n, g) == g = [l \in 0..n |-> IF l = 0 THEN Base ELSE Step(l, g[l - 1])]
           G == {n \in Levels : \E g : Def(n, g)}
<1>0. Depth \in Nat
  BY TreeAssumption
<1>1. 0 \in G
  <2> DEFINE h == [l \in 0..0 |-> Base]
  <2> HIDE DEF Base, Step
  <2>1. Def(0, h)
    OBVIOUS
  <2> HIDE DEF Def
  <2> QED
    BY <1>0, <2>1 DEF Levels
<1>2. ASSUME NEW n \in 1..Depth, n - 1 \in G PROVE n \in G
  <2>1. PICK g : Def(n - 1, g)
    BY <1>2
  <2> DEFINE h == [l \in 0..n |-> IF l = n THEN Step(n, g[n - 1]) ELSE g[l]]
  <2> HIDE DEF Base, Step
  <2>2. ASSUME NEW l \in 0..n PROVE h[l] = IF l = 0 THEN Base ELSE Step(l, h[l - 1])
    <3>1. CASE l = n
      BY <1>0, <3>1
    <3>2. CASE l # n
      <4>1. l \in 0..n - 1
        BY <1>0, <3>2
      <4>2. g[l] = IF l = 0 THEN Base ELSE Step(l, g[l - 1])
        BY <2>1, <4>1
      <4>3. l # 0 => l - 1 \in 0..n /\ l - 1 # n
        BY <1>0, <4>1
      <4> QED
        BY <3>2, <4>2, <4>3
    <3> QED
      BY <3>1, <3>2
  <2>3. Def(n, h)
    <3>1. h = [l \in 0..n |-> h[l]]
      OBVIOUS
    <3> HIDE DEF h
    <3> QED
      BY <2>2, <3>1
  <2> HIDE DEF Def, h
  <2> QED
    BY <1>0, <2>3 DEF Levels
<1>3. \E g : Def(Depth, g)
  <2> HIDE DEF G
  <2>1. Depth \in G
    BY <1>0, <1>1, <1>2, LevelInduction DEF Levels
  <2> QED
    BY <2>1 DEF G
<1>4. Def(Depth, Ancestors(index))
  BY <1>3 DEF Ancestors, Levels
<1>5. /\ Ancestors(index)[0] = Base
      /\ \A l \in 1..Depth : Ancestors(index)[l] = Step(l, Ancestors(index)[l - 1])
  <2> HIDE DEF Base, Step
  <2>1. ASSUME NEW l \in 0..Depth
        PROVE  Ancestors(index)[l] = IF l = 0 THEN Base ELSE Step(l, Ancestors(index)[l - 1])
    BY <1>4
  <2> QED
    BY <1>0, <2>1
<1> QED
  BY <1>5

(* The reference tree, level by level.                                     *)
LEMMA FullTreeStep ==
    ASSUME NEW ls
    PROVE  /\ \A i \in Indices(0) : FullTree(ls)[0][i] = LeafAt(ls, i)
           /\ \A l \in 1..Depth : \A i \in Indices(l) :
                 FullTree(ls)[l][i] = Hash(FullTree(ls)[l - 1][2 * i], FullTree(ls)[l - 1][2 * i + 1])
<1> DEFINE Base == [i \in Indices(0) |-> LeafAt(ls, i)]
           Step(l, x) == [i \in Indices(l) |-> Hash(x[2 * i], x[2 * i + 1])]
           Def(n, g) == g = [l \in 0..n |-> IF l = 0 THEN Base ELSE Step(l, g[l - 1])]
           G == {n \in Levels : \E g : Def(n, g)}
<1>0. Depth \in Nat
  BY TreeAssumption
<1>1. 0 \in G
  <2> DEFINE h == [l \in 0..0 |-> Base]
  <2> HIDE DEF Base, Step
  <2>1. Def(0, h)
    OBVIOUS
  <2> HIDE DEF Def
  <2> QED
    BY <1>0, <2>1 DEF Levels
<1>2. ASSUME NEW n \in 1..Depth, n - 1 \in G PROVE n \in G
  <2>1. PICK g : Def(n - 1, g)
    BY <1>2
  <2> DEFINE h == [l \in 0..n |-> IF l = n THEN Step(n, g[n - 1]) ELSE g[l]]
  <2> HIDE DEF Base, Step
  <2>2. ASSUME NEW l \in 0..n PROVE h[l] = IF l = 0 THEN Base ELSE Step(l, h[l - 1])
    <3>1. CASE l = n
      BY <1>0, <3>1
    <3>2. CASE l # n
      <4>1. l \in 0..n - 1
        BY <1>0, <3>2
      <4>2. g[l] = IF l = 0 THEN Base ELSE Step(l, g[l - 1])
        BY <2>1, <4>1
      <4>3. l # 0 => l - 1 \in 0..n /\ l - 1 # n
        BY <1>0, <4>1
      <4> QED
        BY <3>2, <4>2, <4>3
    <3> QED
      BY <3>1, <3>2
  <2>3. Def(n, h)
    <3>1. h = [l \in 0..n |-> h[l]]
      OBVIOUS
    <3> HIDE DEF h
    <3> QED
      BY <2>2, <3>1
  <2> HIDE DEF Def, h
  <2> QED
    BY <1>0, <2>3 DEF Levels
<1>3. \E g : Def(Depth, g)
  <2> HIDE DEF G
  <2>1. Depth \in G
    BY <1>0, <1>1, <1>2, LevelInduction DEF Levels
  <2> QED
    BY <2>1 DEF G
<1> DEFINE Level(l, g) ==
               [i \in Indices(l) |-> IF l = 0 THEN LeafAt(ls, i) ELSE Hash(g[l - 1][2 * i], g[l - 1][2 * i + 1])]
<1>4. ASSUME NEW g, NEW l \in 0..Depth
      PROVE  (IF l = 0 THEN Base ELSE Step(l, g[l - 1])) = Level(l, g)
  OBVIOUS
<1>5. ASSUME NEW g PROVE Def(Depth, g) <=> g = [l \in Levels |-> Level(l, g)]
  <2> HIDE DEF Base, Step, Level
  <2> QED
    BY <1>4 DEF Levels
<1>6. PICK g : g = [l \in Levels |-> Level(l, g)]
  BY <1>3, <1>5
<1>7. FullTree(ls) = [l \in Levels |-> Level(l, FullTree(ls))]
  BY <1>6 DEF FullTree
<1>8. ASSUME NEW l \in Levels PROVE FullTree(ls)[l] = Level(l, FullTree(ls))
  <2> HIDE DEF Level
  <2> QED
    BY <1>7
<1>9. 0 \in Levels /\ \A l \in 1..Depth : l \in Levels /\ l # 0
  BY <1>0 DEF Levels
<1> QED
  BY <1>8, <1>9

(* A leaf hashed with a sibling per level, on the side the path says.      *)
IsPath(leaf, side, sibling, g) ==
    g = [l \in Levels |->
            IF l = 0 THEN leaf
            ELSE IF side[l] = 0 THEN Hash(g[l - 1], sibling[l])
                                ELSE Hash(sibling[l], g[l - 1])]

LEMMA PathExists ==
    ASSUME NEW leaf, NEW side, NEW sibling
    PROVE  \E g : IsPath(leaf, side, sibling, g)
<1> DEFINE Base == leaf
           Step(l, x) == IF side[l] = 0 THEN Hash(x, sibling[l]) ELSE Hash(sibling[l], x)
           Def(n, g) == g = [l \in 0..n |-> IF l = 0 THEN Base ELSE Step(l, g[l - 1])]
           G == {n \in Levels : \E g : Def(n, g)}
<1>0. Depth \in Nat
  BY TreeAssumption
<1>1. 0 \in G
  <2> DEFINE h == [l \in 0..0 |-> Base]
  <2> HIDE DEF Base, Step
  <2>1. Def(0, h)
    OBVIOUS
  <2> HIDE DEF Def
  <2> QED
    BY <1>0, <2>1 DEF Levels
<1>2. ASSUME NEW n \in 1..Depth, n - 1 \in G PROVE n \in G
  <2>1. PICK g : Def(n - 1, g)
    BY <1>2
  <2> DEFINE h == [l \in 0..n |-> IF l = n THEN Step(n, g[n - 1]) ELSE g[l]]
  <2> HIDE DEF Base, Step
  <2>2. ASSUME NEW l \in 0..n PROVE h[l] = IF l = 0 THEN Base ELSE Step(l, h[l - 1])
    <3>1. CASE l = n
      BY <1>0, <3>1
    <3>2. CASE l # n
      <4>1. l \in 0..n - 1
        BY <1>0, <3>2
      <4>2. g[l] = IF l = 0 THEN Base ELSE Step(l, g[l - 1])
        BY <2>1, <4>1
      <4>3. l # 0 => l - 1 \in 0..n /\ l - 1 # n
        BY <1>0, <4>1
      <4> QED
        BY <3>2, <4>2, <4>3
    <3> QED
      BY <3>1, <3>2
  <2>3. Def(n, h)
    <3>1. h = [l \in 0..n |-> h[l]]
      OBVIOUS
    <3> HIDE DEF h
    <3> QED
      BY <2>2, <3>1
  <2> HIDE DEF Def, h
  <2> QED
    BY <1>0, <2>3 DEF Levels
<1>3. \E g : Def(Depth, g)
  <2> HIDE DEF G
  <2>1. Depth \in G
    BY <1>0, <1>1, <1>2, LevelInduction DEF Levels
  <2> QED
    BY <2>1 DEF G
<1> QED
  BY <1>3 DEF Levels, IsPath

-----------------------------------------------------------------------------
(* Indices *)

LEMMA WidthType == \A h \in Levels : Width[h] \in Nat \ {0}
<1> DEFINE G == {h \in Levels : Width[h] \in Nat \ {0}}
<1>0. Depth \in Nat
  BY TreeAssumption
<1>1. 0 \in G
  BY <1>0, WidthStep DEF Levels
<1>2. ASSUME NEW h \in 1..Depth, h - 1 \in G PROVE h \in G
  <2>1. Width[h] = 2 * Width[h - 1]
    BY WidthStep
  <2>2. Width[h - 1] \in Nat \ {0} /\ h \in Levels
    BY <1>0, <1>2 DEF Levels
  <2> QED
    BY <2>1, <2>2
<1> HIDE DEF G
<1>3. \A h \in Levels : h \in G
  BY <1>1, <1>2, LevelInduction
<1> QED
  BY <1>3 DEF G

(* The two children of a node, and the parent and sibling of one.          *)
LEMMA Children ==
    ASSUME NEW l \in 1..Depth
    PROVE  /\ l \in Levels /\ l - 1 \in Levels
           /\ \A i \in Indices(l) :
                 /\ i \in Nat
                 /\ 2 * i \in Indices(l - 1) /\ 2 * i + 1 \in Indices(l - 1)
                 /\ (2 * i) \div 2 = i /\ (2 * i + 1) \div 2 = i
           /\ \A j \in Indices(l - 1) :
                 /\ j \in Nat /\ j \div 2 \in Indices(l) /\ Sibling(j) \in Indices(l - 1)
                 /\ j % 2 = 0 => j = 2 * (j \div 2) /\ Sibling(j) = 2 * (j \div 2) + 1
                 /\ j % 2 # 0 => j = 2 * (j \div 2) + 1 /\ Sibling(j) = 2 * (j \div 2)
<1>0. Depth \in Nat /\ l \in Levels /\ l - 1 \in Levels
  BY TreeAssumption DEF Levels
<1>1. PICK w \in Nat \ {0} : w = Width[Depth - l]
  BY <1>0, WidthType DEF Levels
<1>2. Width[Depth - (l - 1)] = 2 * w
  <2>1. Depth - (l - 1) \in 1..Depth /\ Depth - (l - 1) - 1 = Depth - l
    BY <1>0
  <2> QED
    BY <1>1, <2>1, WidthStep
<1>3. Indices(l) = 0..w - 1 /\ Indices(l - 1) = 0..2 * w - 1
  BY <1>1, <1>2 DEF Indices
<1>4. ASSUME NEW i \in 0..w - 1
      PROVE  /\ i \in Nat
             /\ 2 * i \in 0..2 * w - 1 /\ 2 * i + 1 \in 0..2 * w - 1
             /\ (2 * i) \div 2 = i /\ (2 * i + 1) \div 2 = i
  BY <1>1
<1>5. ASSUME NEW j \in 0..2 * w - 1
      PROVE  /\ j \in Nat /\ j \div 2 \in 0..w - 1 /\ Sibling(j) \in 0..2 * w - 1
             /\ j % 2 = 0 => j = 2 * (j \div 2) /\ Sibling(j) = 2 * (j \div 2) + 1
             /\ j % 2 # 0 => j = 2 * (j \div 2) + 1 /\ Sibling(j) = 2 * (j \div 2)
  <2>1. j \in Nat /\ j \div 2 \in 0..w - 1
    BY <1>1
  <2>2. CASE j % 2 = 0
    <3>1. j = 2 * (j \div 2) /\ Sibling(j) = j + 1
      BY <2>1, <2>2 DEF Sibling
    <3> QED
      BY <1>1, <2>1, <2>2, <3>1
  <2>3. CASE j % 2 # 0
    <3>1. j = 2 * (j \div 2) + 1 /\ Sibling(j) = j - 1
      BY <2>1, <2>3 DEF Sibling
    <3> QED
      BY <1>1, <2>1, <2>3, <3>1
  <2> QED
    BY <2>2, <2>3
<1> QED
  BY <1>0, <1>3, <1>4, <1>5

(* The top level has one node.                                             *)
LEMMA TopLevel == Indices(Depth) = {0} /\ Depth \in Levels /\ 0 \in Levels
BY TreeAssumption, WidthStep DEF Indices, Levels

LEMMA AncestorsType ==
    ASSUME NEW index \in Indices(0)
    PROVE  \A l \in Levels : Ancestors(index)[l] \in Indices(l)
<1> DEFINE G == {l \in Levels : Ancestors(index)[l] \in Indices(l)}
<1>1. 0 \in G
  BY AncestorsStep, TopLevel
<1>2. ASSUME NEW l \in 1..Depth, l - 1 \in G PROVE l \in G
  <2>1. Ancestors(index)[l] = Ancestors(index)[l - 1] \div 2
    BY AncestorsStep
  <2>2. Ancestors(index)[l - 1] \in Indices(l - 1)
    BY <1>2
  <2> QED
    BY <2>1, <2>2, Children
<1> HIDE DEF G
<1>3. \A l \in Levels : l \in G
  BY <1>1, <1>2, LevelInduction
<1> QED
  BY <1>3 DEF G

-----------------------------------------------------------------------------
(* The reference tree *)

(* A node hashed with its sibling, in their order, is their parent.        *)
LEMMA Parent ==
    ASSUME NEW ls, NEW l \in 1..Depth, NEW j \in Indices(l - 1)
    PROVE  FullTree(ls)[l][j \div 2]
               = Ordered(j, FullTree(ls)[l - 1][j], FullTree(ls)[l - 1][Sibling(j)])
<1>1. PICK i \in Indices(l) : i = j \div 2
  BY Children
<1>2. FullTree(ls)[l][i] = Hash(FullTree(ls)[l - 1][2 * i], FullTree(ls)[l - 1][2 * i + 1])
  BY FullTreeStep
<1>3. /\ j % 2 = 0 => j = 2 * i /\ Sibling(j) = 2 * i + 1
      /\ j % 2 # 0 => j = 2 * i + 1 /\ Sibling(j) = 2 * i
  BY <1>1, Children
<1> QED
  BY <1>1, <1>2, <1>3 DEF Ordered

(* Changing one leaf changes only the nodes above it.                      *)
LEMMA OtherNodes ==
    ASSUME NEW a, NEW b, NEW index \in Indices(0),
           \A i \in Indices(0) : i # index => LeafAt(a, i) = LeafAt(b, i)
    PROVE  \A l \in Levels : \A i \in Indices(l) :
               i # Ancestors(index)[l] => FullTree(a)[l][i] = FullTree(b)[l][i]
<1> DEFINE Same(l) == \A i \in Indices(l) :
               i # Ancestors(index)[l] => FullTree(a)[l][i] = FullTree(b)[l][i]
           G == {l \in Levels : Same(l)}
<1>1. 0 \in G
  <2>1. Same(0)
    BY AncestorsStep, FullTreeStep
  <2> QED
    BY <2>1, TopLevel
<1>2. ASSUME NEW l \in 1..Depth, l - 1 \in G PROVE l \in G
  <2>1. ASSUME NEW i \in Indices(l), i # Ancestors(index)[l]
        PROVE  FullTree(a)[l][i] = FullTree(b)[l][i]
    <3>1. /\ 2 * i \in Indices(l - 1) /\ 2 * i + 1 \in Indices(l - 1)
          /\ (2 * i) \div 2 = i /\ (2 * i + 1) \div 2 = i
      BY Children
    <3>2. Ancestors(index)[l] = Ancestors(index)[l - 1] \div 2
      BY AncestorsStep
    <3>3. 2 * i # Ancestors(index)[l - 1] /\ 2 * i + 1 # Ancestors(index)[l - 1]
      BY <2>1, <3>1, <3>2
    <3>4. Same(l - 1)
      BY <1>2
    <3>5. /\ FullTree(a)[l - 1][2 * i] = FullTree(b)[l - 1][2 * i]
          /\ FullTree(a)[l - 1][2 * i + 1] = FullTree(b)[l - 1][2 * i + 1]
      BY <3>1, <3>3, <3>4
    <3>6. FullTree(a)[l][i] = Hash(FullTree(a)[l - 1][2 * i], FullTree(a)[l - 1][2 * i + 1])
      BY FullTreeStep
    <3>7. FullTree(b)[l][i] = Hash(FullTree(b)[l - 1][2 * i], FullTree(b)[l - 1][2 * i + 1])
      BY FullTreeStep
    <3> QED
      BY <3>5, <3>6, <3>7
  <2> QED
    BY <2>1, Children
<1>3. \A l \in Levels : l \in G
  <2> HIDE DEF G
  <2> QED
    BY <1>1, <1>2, LevelInduction
<1> QED
  BY <1>3

(* A node of height l is a hash of that height.                            *)
LEMMA NodesAreHashes ==
    ASSUME NEW ls, \A i \in Indices(0) : LeafAt(ls, i) \in NoteLeaves \cup {Zero}
    PROVE  \A l \in Levels : \A i \in Indices(l) : FullTree(ls)[l][i] \in Hashes[l]
<1> DEFINE G == {l \in Levels : \A i \in Indices(l) : FullTree(ls)[l][i] \in Hashes[l]}
<1>1. 0 \in G
  BY FullTreeStep, HashesStep, TopLevel
<1>2. ASSUME NEW l \in 1..Depth, l - 1 \in G PROVE l \in G
  <2>1. ASSUME NEW i \in Indices(l) PROVE FullTree(ls)[l][i] \in Hashes[l]
    <3>1. 2 * i \in Indices(l - 1) /\ 2 * i + 1 \in Indices(l - 1)
      BY Children
    <3>2. /\ FullTree(ls)[l - 1][2 * i] \in Hashes[l - 1]
          /\ FullTree(ls)[l - 1][2 * i + 1] \in Hashes[l - 1]
      BY <1>2, <3>1
    <3>3. FullTree(ls)[l][i] = Hash(FullTree(ls)[l - 1][2 * i], FullTree(ls)[l - 1][2 * i + 1])
      BY FullTreeStep
    <3>4. Hashes[l] = Hashes[l - 1] \X Hashes[l - 1]
      BY HashesStep
    <3> QED
      BY <3>2, <3>3, <3>4 DEF Hash
  <2> QED
    BY <2>1, Children
<1>3. \A l \in Levels : l \in G
  <2> HIDE DEF G
  <2> QED
    BY <1>1, <1>2, LevelInduction
<1> QED
  BY <1>3

(* The tree without leaves is made of zeros.                               *)
LEMMA EmptyTree == \A l \in Levels : \A i \in Indices(l) : FullTree(<< >>)[l][i] = Zeros[l]
<1> DEFINE G == {l \in Levels : \A i \in Indices(l) : FullTree(<< >>)[l][i] = Zeros[l]}
<1>1. 0 \in G
  <2>1. ASSUME NEW i \in Indices(0) PROVE LeafAt(<< >>, i) = Zero
    <3>1. i \in Nat /\ Len(<< >>) = 0
      BY TopLevel, WidthType, TreeAssumption DEF Indices
    <3> QED
      BY <3>1 DEF LeafAt
  <2> QED
    BY <2>1, FullTreeStep, ZerosStep, TopLevel
<1>2. ASSUME NEW l \in 1..Depth, l - 1 \in G PROVE l \in G
  <2>1. ASSUME NEW i \in Indices(l) PROVE FullTree(<< >>)[l][i] = Zeros[l]
    <3>1. 2 * i \in Indices(l - 1) /\ 2 * i + 1 \in Indices(l - 1)
      BY Children
    <3>2. /\ FullTree(<< >>)[l - 1][2 * i] = Zeros[l - 1]
          /\ FullTree(<< >>)[l - 1][2 * i + 1] = Zeros[l - 1]
      BY <1>2, <3>1
    <3>3. FullTree(<< >>)[l][i]
              = Hash(FullTree(<< >>)[l - 1][2 * i], FullTree(<< >>)[l - 1][2 * i + 1])
      BY FullTreeStep
    <3>4. Zeros[l] = Hash(Zeros[l - 1], Zeros[l - 1])
      BY ZerosStep
    <3> QED
      BY <3>2, <3>3, <3>4
  <2> QED
    BY <2>1, Children
<1>3. \A l \in Levels : l \in G
  <2> HIDE DEF G
  <2> QED
    BY <1>1, <1>2, LevelInduction
<1> QED
  BY <1>3

-----------------------------------------------------------------------------
(* Paths *)

(* The loop of _updateLeaf.                                                *)
LEMMA RehashedStep ==
    ASSUME NEW index, NEW leaf
    PROVE  /\ Rehashed(index, leaf)[0] = leaf
           /\ \A l \in 1..Depth :
                 Rehashed(index, leaf)[l] =
                     Ordered(Ancestors(index)[l - 1], Rehashed(index, leaf)[l - 1],
                             Node(l - 1, Sibling(Ancestors(index)[l - 1])))
<1> DEFINE at == Ancestors(index)
           side == [l \in 1..Depth |-> at[l - 1] % 2]
           sibling == [l \in 1..Depth |-> Node(l - 1, Sibling(at[l - 1]))]
           Path(g, l) == IF side[l] = 0 THEN Hash(g[l - 1], sibling[l])
                                        ELSE Hash(sibling[l], g[l - 1])
           Loop(g, l) == Ordered(at[l - 1], g[l - 1], Node(l - 1, Sibling(at[l - 1])))
<1>0. Depth \in Nat
  BY TreeAssumption
<1>1. ASSUME NEW g, NEW l \in 1..Depth PROVE Path(g, l) = Loop(g, l)
  BY DEF Ordered
<1>2. \E g : g = [l \in Levels |-> IF l = 0 THEN leaf ELSE Path(g, l)]
  <2>1. PICK sd, sb : sd = side /\ sb = sibling
    OBVIOUS
  <2>2. PICK g : IsPath(leaf, sd, sb, g)
    BY PathExists
  <2> QED
    BY <2>1, <2>2 DEF IsPath
<1>3. \E g : g = [l \in Levels |-> IF l = 0 THEN leaf ELSE Loop(g, l)]
  <2>1. PICK g : g = [l \in Levels |-> IF l = 0 THEN leaf ELSE Path(g, l)]
    BY <1>2
  <2>2. \A l \in Levels : l # 0 => Path(g, l) = Loop(g, l)
    BY <1>0, <1>1 DEF Levels
  <2> HIDE DEF Path, Loop
  <2>3. g = [l \in Levels |-> IF l = 0 THEN leaf ELSE Loop(g, l)]
    BY <2>1, <2>2
  <2> QED
    BY <2>3
<1>4. Rehashed(index, leaf)
          = [l \in Levels |-> IF l = 0 THEN leaf ELSE Loop(Rehashed(index, leaf), l)]
  BY <1>3 DEF Rehashed
<1>5. 0 \in Levels /\ \A l \in 1..Depth : l \in Levels /\ l # 0
  BY <1>0 DEF Levels
<1>6. ASSUME NEW l \in Levels
      PROVE  Rehashed(index, leaf)[l] = IF l = 0 THEN leaf ELSE Loop(Rehashed(index, leaf), l)
  <2> HIDE DEF Loop
  <2> QED
    BY <1>4
<1> QED
  BY <1>5, <1>6

(* The circuit's checker: its last hash of a chain that starts at the leaf. *)
LEMMA CheckedRootChain ==
    ASSUME NEW leaf, NEW path
    PROVE  \E g : /\ g[0] = leaf
                  /\ \A l \in 1..Depth :
                        g[l] = IF path[l].side = 0 THEN Hash(g[l - 1], path[l].element)
                                                   ELSE Hash(path[l].element, g[l - 1])
                  /\ CheckedRoot(leaf, path) = g[Depth]
<1> DEFINE side == [l \in 1..Depth |-> path[l].side]
           sibling == [l \in 1..Depth |-> path[l].element]
           Path(g, l) == IF side[l] = 0 THEN Hash(g[l - 1], sibling[l])
                                        ELSE Hash(sibling[l], g[l - 1])
           Loop(g, l) == IF path[l].side = 0 THEN Hash(g[l - 1], path[l].element)
                                             ELSE Hash(path[l].element, g[l - 1])
<1>0. Depth \in Nat
  BY TreeAssumption
<1>1. ASSUME NEW g, NEW l \in 1..Depth PROVE Path(g, l) = Loop(g, l)
  OBVIOUS
<1>2. \E g : g = [l \in Levels |-> IF l = 0 THEN leaf ELSE Path(g, l)]
  <2>1. PICK sd, sb : sd = side /\ sb = sibling
    OBVIOUS
  <2>2. PICK g : IsPath(leaf, sd, sb, g)
    BY PathExists
  <2> QED
    BY <2>1, <2>2 DEF IsPath
<1>3. \E g : g = [l \in Levels |-> IF l = 0 THEN leaf ELSE Loop(g, l)]
  <2>1. PICK g : g = [l \in Levels |-> IF l = 0 THEN leaf ELSE Path(g, l)]
    BY <1>2
  <2>2. \A l \in Levels : l # 0 => Path(g, l) = Loop(g, l)
    BY <1>0, <1>1 DEF Levels
  <2> HIDE DEF Path, Loop
  <2>3. g = [l \in Levels |-> IF l = 0 THEN leaf ELSE Loop(g, l)]
    BY <2>1, <2>2
  <2> QED
    BY <2>3
<1> DEFINE c == CHOOSE g : g = [l \in Levels |-> IF l = 0 THEN leaf ELSE Loop(g, l)]
<1>4. c = [l \in Levels |-> IF l = 0 THEN leaf ELSE Loop(c, l)]
  BY <1>3
<1>5. CheckedRoot(leaf, path) = c[Depth]
  BY DEF CheckedRoot
<1>6. 0 \in Levels /\ \A l \in 1..Depth : l \in Levels /\ l # 0
  BY <1>0 DEF Levels
<1> HIDE DEF c
<1>7. c[0] = leaf /\ \A l \in 1..Depth : c[l] = Loop(c, l)
  <2> HIDE DEF Loop
  <2> QED
    BY <1>4, <1>6
<1> QED
  BY <1>5, <1>7

-----------------------------------------------------------------------------
(* The inductive invariant.  The root says nothing of the nodes the next   *)
(* update reads, so it speaks of every node, through _node's defaults.     *)

LeafTypes ==
    /\ leaves \in Seq(NoteLeaves \cup {Zero})
    /\ Len(leaves) <= Width[Depth]

NodeTypes ==
    /\ DOMAIN treeNodes = Levels
    /\ \A l \in Levels : DOMAIN treeNodes[l] = Indices(l)

NodesAreRecomputed ==
    \A l \in Levels : \A i \in Indices(l) : Node(l, i) = FullTree(leaves)[l][i]

TreeInv ==
    /\ LeafTypes
    /\ NodeTypes
    /\ NodesAreRecomputed
    /\ merkleRoot = FullTree(leaves)[Depth][0]

(* What a client holds: the sides of a path are those of its leaf's index, *)
(* and a root is that of the leaves of its time.                           *)
ReadsInv ==
    /\ held # NoReads =>
          /\ held.index \in Indices(0)
          /\ \A l \in 1..Depth : held.path[l].side = Ancestors(held.index)[l - 1] % 2
    /\ heldRoot # NoReads =>
          /\ held # NoReads
          /\ heldRoot = FullTree(leavesAtRoot)[Depth][0]

LEMMA InitInv == Init => TreeInv /\ ReadsInv
<1> SUFFICES ASSUME Init PROVE TreeInv /\ ReadsInv
  OBVIOUS
<1>1. leaves = << >> /\ Len(leaves) = 0
  BY DEF Init
<1>2. LeafTypes
  <2>1. Width[Depth] \in Nat
    BY WidthType, TopLevel
  <2> QED
    BY <1>1, <2>1 DEF LeafTypes
<1>3. treeNodes = [l \in Levels |-> [i \in Indices(l) |-> Zero]]
  BY DEF Init
<1>4. NodeTypes
  BY <1>3 DEF NodeTypes
<1>5. NodesAreRecomputed
  <2>1. ASSUME NEW l \in Levels, NEW i \in Indices(l) PROVE Node(l, i) = Zeros[l]
    BY <1>3 DEF Node
  <2> QED
    BY <1>1, <2>1, EmptyTree DEF NodesAreRecomputed
<1>6. merkleRoot = FullTree(leaves)[Depth][0]
  <2>1. merkleRoot = Zeros[Depth]
    BY DEF Init
  <2> QED
    BY <1>1, <2>1, EmptyTree, TopLevel
<1>7. ReadsInv
  BY DEF Init, ReadsInv
<1> QED
  BY <1>2, <1>4, <1>5, <1>6, <1>7 DEF TreeInv

(* _updateLeaf: rehashing one path is enough.  The siblings it reads lie   *)
(* off the path, where the old tree and the new one agree.                 *)
LEMMA UpdateInv ==
    ASSUME TreeInv, NEW ls, NEW index \in Indices(0), NEW leaf,
           ls \in Seq(NoteLeaves \cup {Zero}), Len(ls) <= Width[Depth],
           LeafAt(ls, index) = leaf,
           \A i \in Indices(0) : i # index => LeafAt(leaves, i) = LeafAt(ls, i),
           \A i \in Indices(0) : LeafAt(ls, i) \in NoteLeaves \cup {Zero},
           leaves' = ls, UpdateLeaf(index, leaf)
    PROVE  TreeInv'
<1> DEFINE at == Ancestors(index)
           new == Rehashed(index, leaf)
           F == FullTree(ls)
<1>0. Depth \in Nat
  BY TreeAssumption
<1>1. \A l \in Levels : at[l] \in Indices(l)
  BY AncestorsType
<1>2. \A l \in Levels : \A i \in Indices(l) : i # at[l] => FullTree(leaves)[l][i] = F[l][i]
  BY OtherNodes
<1>3. \A l \in Levels : new[l] = F[l][at[l]]
  <2> DEFINE G == {l \in Levels : new[l] = F[l][at[l]]}
  <2>1. 0 \in G
    <3>1. new[0] = leaf /\ at[0] = index
      BY RehashedStep, AncestorsStep
    <3>2. F[0][index] = LeafAt(ls, index)
      BY FullTreeStep
    <3> QED
      BY <3>1, <3>2, TopLevel
  <2>2. ASSUME NEW l \in 1..Depth, l - 1 \in G PROVE l \in G
    <3>1. l - 1 \in Levels /\ l \in Levels /\ at[l - 1] \in Indices(l - 1)
      BY <1>1, Children
    <3>2. PICK j \in Indices(l - 1) : j = at[l - 1]
      BY <3>1
    <3>3. Sibling(j) \in Indices(l - 1) /\ Sibling(j) # j
      <4>1. j \in Nat /\ Sibling(j) \in Indices(l - 1)
        BY Children
      <4> QED
        BY <4>1 DEF Sibling
    <3>4. Node(l - 1, Sibling(j)) = F[l - 1][Sibling(j)]
      BY <1>2, <3>1, <3>2, <3>3 DEF TreeInv, NodesAreRecomputed
    <3>5. new[l] = Ordered(j, new[l - 1], Node(l - 1, Sibling(j)))
      BY <3>2, RehashedStep
    <3>6. F[l][j \div 2] = Ordered(j, F[l - 1][j], F[l - 1][Sibling(j)])
      BY Parent
    <3>7. at[l] = j \div 2
      BY <3>2, AncestorsStep
    <3>8. new[l - 1] = F[l - 1][j]
      BY <2>2, <3>2
    <3> HIDE DEF new, at, F
    <3> QED
      BY <3>1, <3>4, <3>5, <3>6, <3>7, <3>8
  <2> HIDE DEF G
  <2>3. \A l \in Levels : l \in G
    BY <2>1, <2>2, LevelInduction
  <2> QED
    BY <2>3 DEF G
<1>4. /\ treeNodes' = [l \in Levels |-> [treeNodes[l] EXCEPT ![at[l]] = new[l]]]
      /\ merkleRoot' = new[Depth]
  BY DEF UpdateLeaf
<1>5. \A l \in Levels : \A i \in Indices(l) : F[l][i] \in Hashes[l]
  BY NodesAreHashes
<1>6. F = FullTree(leaves')
  OBVIOUS
<1> HIDE DEF at, new, F
<1>7. NodeTypes'
  BY <1>4 DEF TreeInv, NodeTypes
<1>8. ASSUME NEW l \in Levels, NEW i \in Indices(l) PROVE Node(l, i)' = F[l][i]
  <2>1. treeNodes'[l] = [treeNodes[l] EXCEPT ![at[l]] = new[l]] /\ DOMAIN treeNodes[l] = Indices(l)
    BY <1>4 DEF TreeInv, NodeTypes
  <2>2. CASE i = at[l]
    <3>1. treeNodes'[l][i] = F[l][i]
      BY <1>3, <2>1, <2>2
    <3>2. F[l][i] \in Hashes[l]
      BY <1>5
    <3>3. CASE l = 0
      BY <3>1, <3>3, ZerosStep DEF Node
    <3>4. CASE l # 0
      <4>1. l \in 1..Depth
        BY <1>0, <3>4 DEF Levels
      <4>2. F[l][i] # Zero
        BY <3>2, <4>1, TreeAssumption
      <4> QED
        BY <3>1, <4>2 DEF Node
    <3> QED
      BY <3>3, <3>4
  <2>3. CASE i # at[l]
    <3>1. treeNodes'[l][i] = treeNodes[l][i]
      BY <2>1, <2>3
    <3>2. Node(l, i) = FullTree(leaves)[l][i]
      BY DEF TreeInv, NodesAreRecomputed
    <3>3. FullTree(leaves)[l][i] = F[l][i]
      BY <1>2, <2>3
    <3> QED
      BY <3>1, <3>2, <3>3 DEF Node
  <2> QED
    BY <2>2, <2>3
<1>9. NodesAreRecomputed'
  BY <1>6, <1>8 DEF NodesAreRecomputed
<1>10. merkleRoot' = F[Depth][0]
  <2>1. at[Depth] = 0
    BY <1>1, TopLevel
  <2> QED
    BY <1>3, <1>4, <2>1, TopLevel
<1>11. LeafTypes'
  BY DEF LeafTypes
<1> QED
  BY <1>6, <1>7, <1>9, <1>10, <1>11 DEF TreeInv

LEMMA LeafAtType ==
    ASSUME NEW ls \in Seq(NoteLeaves \cup {Zero})
    PROVE  \A i \in Indices(0) : i \in Nat /\ LeafAt(ls, i) \in NoteLeaves \cup {Zero}
<1>1. Width[Depth - 0] \in Nat /\ Depth - 0 = Depth
  BY WidthType, TopLevel, TreeAssumption
<1>2. ASSUME NEW i \in Indices(0) PROVE i \in Nat
  BY <1>1 DEF Indices
<1>3. ASSUME NEW i \in Nat, i < Len(ls) PROVE ls[i + 1] \in NoteLeaves \cup {Zero}
  <2>1. i + 1 \in 1..Len(ls)
    BY <1>3
  <2> QED
    BY <2>1
<1> QED
  BY <1>2, <1>3 DEF LeafAt

(* deposit appends a leaf.                                                 *)
LEMMA InsertInv ==
    ASSUME TreeInv, NEW leaf \in NoteLeaves, Insert(leaf)
    PROVE  TreeInv'
<1> DEFINE ls == Append(leaves, leaf)
           n == Len(leaves)
<1>1. leaves \in Seq(NoteLeaves \cup {Zero}) /\ n \in Nat
  BY DEF TreeInv, LeafTypes
<1>2. Width[Depth] \in Nat /\ Indices(0) = 0..Width[Depth] - 1
  BY WidthType, TopLevel, TreeAssumption DEF Indices
<1>3. n < Width[Depth] /\ leaves' = ls /\ UpdateLeaf(n, leaf)
  BY DEF Insert
<1>4. n \in Indices(0)
  BY <1>1, <1>2, <1>3
<1>5. /\ ls \in Seq(NoteLeaves \cup {Zero}) /\ Len(ls) = n + 1 /\ ls[n + 1] = leaf
      /\ \A i \in 1..n : ls[i] = leaves[i]
  BY <1>1
<1>6. Len(ls) <= Width[Depth]
  BY <1>1, <1>2, <1>3, <1>5
<1>7. LeafAt(ls, n) = leaf
  BY <1>1, <1>5 DEF LeafAt
<1>8. ASSUME NEW i \in Indices(0), i # n PROVE LeafAt(leaves, i) = LeafAt(ls, i)
  <2>1. i \in Nat
    BY <1>2
  <2>2. CASE i < n
    <3>1. i + 1 \in 1..n /\ i < n + 1
      BY <1>1, <2>1, <2>2
    <3> HIDE DEF ls
    <3> QED
      BY <1>5, <2>2, <3>1 DEF LeafAt
  <2>3. CASE ~(i < n)
    <3>1. ~(i < n + 1)
      BY <1>1, <1>8, <2>1, <2>3
    <3> HIDE DEF ls
    <3> QED
      BY <1>5, <2>3, <3>1 DEF LeafAt
  <2> QED
    BY <2>2, <2>3
<1>9. \A i \in Indices(0) : LeafAt(ls, i) \in NoteLeaves \cup {Zero}
  BY <1>5, LeafAtType
<1>10. PICK k \in Indices(0) : k = n
  BY <1>4
<1> HIDE DEF ls
<1> QED
  BY <1>3, <1>5, <1>6, <1>7, <1>8, <1>9, <1>10, UpdateInv

(* _removeLeaf empties one.                                                *)
LEMMA RemoveInv ==
    ASSUME TreeInv, NEW index \in 0..Len(leaves) - 1, RemoveLeaf(index)
    PROVE  TreeInv'
<1> DEFINE ls == [leaves EXCEPT ![index + 1] = Zero]
           n == Len(leaves)
<1>1. leaves \in Seq(NoteLeaves \cup {Zero}) /\ n \in Nat /\ n <= Width[Depth]
  BY DEF TreeInv, LeafTypes
<1>2. Width[Depth] \in Nat /\ Indices(0) = 0..Width[Depth] - 1
  BY WidthType, TopLevel, TreeAssumption DEF Indices
<1>3. leaves' = ls /\ UpdateLeaf(index, Zero)
  BY DEF RemoveLeaf
<1>4. index \in Indices(0) /\ index \in Nat /\ index + 1 \in 1..n
  BY <1>1, <1>2
<1>5. /\ ls \in Seq(NoteLeaves \cup {Zero}) /\ Len(ls) = n /\ ls[index + 1] = Zero
      /\ \A i \in 1..n : i # index + 1 => ls[i] = leaves[i]
  BY <1>1, <1>4
<1>6. Len(ls) <= Width[Depth]
  BY <1>1, <1>5
<1>7. LeafAt(ls, index) = Zero
  BY <1>4, <1>5 DEF LeafAt
<1>8. ASSUME NEW i \in Indices(0), i # index PROVE LeafAt(leaves, i) = LeafAt(ls, i)
  <2>1. i \in Nat
    BY <1>2
  <2>2. CASE i < n
    <3>1. i + 1 \in 1..n /\ i + 1 # index + 1
      BY <1>1, <1>4, <1>8, <2>1, <2>2
    <3> HIDE DEF ls
    <3> QED
      BY <1>5, <2>2, <3>1 DEF LeafAt
  <2>3. CASE ~(i < n)
    <3> HIDE DEF ls
    <3> QED
      BY <1>5, <2>3 DEF LeafAt
  <2> QED
    BY <2>2, <2>3
<1>9. \A i \in Indices(0) : LeafAt(ls, i) \in NoteLeaves \cup {Zero}
  BY <1>5, LeafAtType
<1>10. PICK zero : zero = Zero
  OBVIOUS
<1> HIDE DEF ls
<1> QED
  BY <1>3, <1>4, <1>5, <1>6, <1>7, <1>8, <1>9, <1>10, UpdateInv

LEMMA NextInv == TreeInv /\ ReadsInv /\ [Next]_vars => TreeInv' /\ ReadsInv'
<1> SUFFICES ASSUME TreeInv, ReadsInv, [Next]_vars PROVE TreeInv' /\ ReadsInv'
  OBVIOUS
<1>1. ASSUME UNCHANGED <<leaves, treeNodes, merkleRoot>> PROVE TreeInv'
  BY <1>1 DEF TreeInv, LeafTypes, NodeTypes, NodesAreRecomputed, Node
<1>2. ASSUME UNCHANGED <<held, heldRoot, leavesAtRoot>> PROVE ReadsInv'
  BY <1>2 DEF ReadsInv
<1>3. ASSUME NEW leaf \in NoteLeaves, Insert(leaf) PROVE TreeInv' /\ ReadsInv'
  BY <1>2, <1>3, InsertInv DEF Insert
<1>4. ASSUME NEW index \in 0..Len(leaves) - 1, RemoveLeaf(index) PROVE TreeInv' /\ ReadsInv'
  BY <1>2, <1>4, RemoveInv DEF RemoveLeaf
<1>5. ASSUME NEW index \in 0..Len(leaves) - 1, ReadPath(index) PROVE TreeInv' /\ ReadsInv'
  <2>1. TreeInv'
    BY <1>1, <1>5 DEF ReadPath
  <2>2. index \in Indices(0)
    <3>1. /\ Len(leaves) \in Nat /\ Len(leaves) <= Width[Depth]
          /\ Width[Depth] \in Nat /\ Indices(0) = 0..Width[Depth] - 1
      BY WidthType, TopLevel, TreeAssumption DEF Indices, TreeInv, LeafTypes
    <3> QED
      BY <3>1
  <2>3. held'.index = index /\ held'.path = MerkleProof(index) /\ heldRoot' = NoReads
    BY <1>5 DEF ReadPath
  <2>4. \A l \in 1..Depth : held'.path[l].side = Ancestors(index)[l - 1] % 2
    BY <2>3 DEF MerkleProof
  <2> QED
    BY <2>1, <2>2, <2>3, <2>4 DEF ReadsInv
<1>6. ASSUME ReadRoot PROVE TreeInv' /\ ReadsInv'
  <2>1. TreeInv'
    BY <1>1, <1>6 DEF ReadRoot
  <2>2. /\ held # NoReads /\ held' = held
        /\ heldRoot' = merkleRoot /\ leavesAtRoot' = leaves
    BY <1>6 DEF ReadRoot
  <2>3. heldRoot' = FullTree(leavesAtRoot)[Depth][0]'
    BY <2>2 DEF TreeInv
  <2> QED
    BY <2>1, <2>2, <2>3 DEF ReadsInv
<1> QED
  BY <1>1, <1>2, <1>3, <1>4, <1>5, <1>6 DEF Next, vars

LEMMA TreeInvariant == Spec => [](TreeInv /\ ReadsInv)
BY InitInv, NextInv, PTL DEF Spec

-----------------------------------------------------------------------------
(* What the invariant says of paths and roots *)

(* A chain of hashes with the sides of the index leads to a tree's root    *)
(* exactly when the leaf and each sibling are the tree's: hashes have one  *)
(* preimage.                                                               *)
LEMMA PathProves ==
    ASSUME NEW ls, NEW index \in Indices(0), NEW leaf, NEW path,
           \A l \in 1..Depth : path[l].side = Ancestors(index)[l - 1] % 2
    PROVE  CheckedRoot(leaf, path) = FullTree(ls)[Depth][0]
               <=> /\ LeafAt(ls, index) = leaf
                   /\ \A l \in 1..Depth :
                         path[l].element = FullTree(ls)[l - 1][Sibling(Ancestors(index)[l - 1])]
<1> DEFINE at == Ancestors(index)
           F == FullTree(ls)
           Below(l) == /\ LeafAt(ls, index) = leaf
                       /\ \A k \in 1..l : path[k].element = F[k - 1][Sibling(at[k - 1])]
<1>0. Depth \in Nat
  BY TreeAssumption
<1>1. PICK g : /\ g[0] = leaf
               /\ \A l \in 1..Depth :
                     g[l] = IF path[l].side = 0 THEN Hash(g[l - 1], path[l].element)
                                                ELSE Hash(path[l].element, g[l - 1])
               /\ CheckedRoot(leaf, path) = g[Depth]
  BY CheckedRootChain
<1> DEFINE G == {l \in Levels : g[l] = F[l][at[l]] <=> Below(l)}
<1>2. 0 \in G
  <2>1. F[0][index] = LeafAt(ls, index) /\ at[0] = index
    BY FullTreeStep, AncestorsStep
  <2>2. Below(0) <=> LeafAt(ls, index) = leaf
    OBVIOUS
  <2> HIDE DEF F, at, Below
  <2> QED
    BY <1>1, <2>1, <2>2, TopLevel
<1>3. ASSUME NEW l \in 1..Depth, l - 1 \in G PROVE l \in G
  <2>1. l \in Levels /\ l - 1 \in Levels /\ at[l - 1] \in Indices(l - 1)
    BY AncestorsType, Children
  <2>2. PICK j \in Indices(l - 1) : j = at[l - 1]
    BY <2>1
  <2>3. at[l] = j \div 2 /\ path[l].side = j % 2
    BY <2>2, AncestorsStep
  <2>4. F[l][j \div 2] = Ordered(j, F[l - 1][j], F[l - 1][Sibling(j)])
    BY Parent
  <2>5. g[l] = Ordered(j, g[l - 1], path[l].element)
    BY <1>1, <2>3 DEF Ordered
  <2>6. g[l] = F[l][at[l]]
            <=> g[l - 1] = F[l - 1][j] /\ path[l].element = F[l - 1][Sibling(j)]
    <3> HIDE DEF F, at
    <3>1. g[l] = F[l][at[l]]
              <=> Ordered(j, g[l - 1], path[l].element) = Ordered(j, F[l - 1][j], F[l - 1][Sibling(j)])
      BY <2>3, <2>4, <2>5
    <3> QED
      BY <3>1 DEF Ordered, Hash
  <2>7. Below(l) <=> Below(l - 1) /\ path[l].element = F[l - 1][Sibling(j)]
    <3>1. \A k : k \in 1..l <=> k \in 1..l - 1 \/ k = l
      BY <1>0
    <3> HIDE DEF F, at
    <3> QED
      BY <2>2, <3>1
  <2>8. g[l - 1] = F[l - 1][j] <=> Below(l - 1)
    BY <1>3, <2>2
  <2> HIDE DEF F, at, Below
  <2> QED
    BY <2>1, <2>6, <2>7, <2>8
<1>4. \A l \in Levels : l \in G
  <2> HIDE DEF G
  <2> QED
    BY <1>2, <1>3, LevelInduction
<1>5. at[Depth] = 0
  BY AncestorsType, TopLevel
<1>6. g[Depth] = F[Depth][at[Depth]] <=> Below(Depth)
  <2> HIDE DEF F, at, Below
  <2> QED
    BY <1>4, TopLevel
<1> QED
  BY <1>1, <1>5, <1>6

(* Equal roots have equal leaves, and the other way around.                *)
LEMMA RootsSeparate ==
    ASSUME NEW a, NEW b
    PROVE  FullTree(a)[Depth][0] = FullTree(b)[Depth][0]
               <=> \A i \in Indices(0) : LeafAt(a, i) = LeafAt(b, i)
<1> DEFINE A == FullTree(a)
           B == FullTree(b)
           Same(l) == \A i \in Indices(l) : A[l][i] = B[l][i]
           G == {l \in Levels : Same(l) <=> Same(0)}
<1>1. 0 \in G
  BY TopLevel
<1>2. ASSUME NEW l \in 1..Depth, l - 1 \in G PROVE l \in G
  <2>1. ASSUME NEW i \in Indices(l)
        PROVE  /\ A[l][i] = Hash(A[l - 1][2 * i], A[l - 1][2 * i + 1])
               /\ B[l][i] = Hash(B[l - 1][2 * i], B[l - 1][2 * i + 1])
    BY FullTreeStep
  <2>2. /\ l \in Levels
        /\ \A i \in Indices(l) : 2 * i \in Indices(l - 1) /\ 2 * i + 1 \in Indices(l - 1)
        /\ \A j \in Indices(l - 1) :
              j \div 2 \in Indices(l) /\ (j = 2 * (j \div 2) \/ j = 2 * (j \div 2) + 1)
    <3>1. ASSUME NEW j \in Indices(l - 1)
          PROVE  j \div 2 \in Indices(l) /\ (j = 2 * (j \div 2) \/ j = 2 * (j \div 2) + 1)
      BY Children
    <3>2. ASSUME NEW i \in Indices(l)
          PROVE  2 * i \in Indices(l - 1) /\ 2 * i + 1 \in Indices(l - 1)
      BY Children
    <3>3. l \in Levels
      BY Children
    <3> QED
      BY <3>1, <3>2, <3>3
  <2> HIDE DEF A, B
  <2>3. ASSUME Same(l) PROVE Same(l - 1)
    <3> SUFFICES ASSUME NEW j \in Indices(l - 1) PROVE A[l - 1][j] = B[l - 1][j]
      OBVIOUS
    <3>1. PICK i \in Indices(l) : j = 2 * i \/ j = 2 * i + 1
      BY <2>2
    <3>2. A[l][i] = B[l][i]
      BY <2>3
    <3>3. A[l - 1][2 * i] = B[l - 1][2 * i] /\ A[l - 1][2 * i + 1] = B[l - 1][2 * i + 1]
      BY <2>1, <3>2 DEF Hash
    <3> QED
      BY <3>1, <3>3
  <2>4. ASSUME Same(l - 1) PROVE Same(l)
    <3> SUFFICES ASSUME NEW i \in Indices(l) PROVE A[l][i] = B[l][i]
      OBVIOUS
    <3>1. A[l - 1][2 * i] = B[l - 1][2 * i] /\ A[l - 1][2 * i + 1] = B[l - 1][2 * i + 1]
      BY <2>2, <2>4
    <3> QED
      BY <2>1, <3>1
  <2>5. Same(l - 1) <=> Same(0)
    BY <1>2
  <2> HIDE DEF Same
  <2> QED
    BY <2>2, <2>3, <2>4, <2>5
<1>3. \A l \in Levels : l \in G
  <2> HIDE DEF G
  <2> QED
    BY <1>1, <1>2, LevelInduction
<1>4. Same(Depth) <=> Same(0)
  <2> HIDE DEF Same
  <2> QED
    BY <1>3, TopLevel
<1>5. Same(Depth) <=> A[Depth][0] = B[Depth][0]
  <2> HIDE DEF A, B
  <2> QED
    BY TopLevel
<1>6. Same(0) <=> \A i \in Indices(0) : LeafAt(a, i) = LeafAt(b, i)
  <2>1. \A i \in Indices(0) : A[0][i] = LeafAt(a, i)
    BY FullTreeStep
  <2>2. \A i \in Indices(0) : B[0][i] = LeafAt(b, i)
    BY FullTreeStep
  <2> HIDE DEF A, B
  <2> QED
    BY <2>1, <2>2
<1> HIDE DEF Same
<1> QED
  BY <1>4, <1>5, <1>6

-----------------------------------------------------------------------------
(* For a tree of any height, after any deposits and removals: the root the *)
(* contract keeps is that of a tree built from scratch, and each path of   *)
(* getMerkleProof leads the circuit's checker to it.                       *)
THEOREM RootTheorem == Spec => []RootIsRecomputed
<1>1. ASSUME TreeInv, NEW i \in 0..Len(leaves) - 1
      PROVE  CheckedRoot(leaves[i + 1], MerkleProof(i)) = merkleRoot
  <2>1. i \in Indices(0) /\ i \in Nat /\ i < Len(leaves)
    <3>1. /\ Len(leaves) \in Nat /\ Len(leaves) <= Width[Depth]
          /\ Width[Depth] \in Nat /\ Indices(0) = 0..Width[Depth] - 1
      BY <1>1, WidthType, TopLevel, TreeAssumption DEF Indices, TreeInv, LeafTypes
    <3> QED
      BY <3>1
  <2>2. LeafAt(leaves, i) = leaves[i + 1]
    BY <2>1 DEF LeafAt
  <2>3. \A l \in 1..Depth : MerkleProof(i)[l].side = Ancestors(i)[l - 1] % 2
    BY DEF MerkleProof
  <2>4. ASSUME NEW l \in 1..Depth
        PROVE  MerkleProof(i)[l].element = FullTree(leaves)[l - 1][Sibling(Ancestors(i)[l - 1])]
    <3>1. MerkleProof(i)[l].element = Node(l - 1, Sibling(Ancestors(i)[l - 1]))
      BY DEF MerkleProof
    <3>2. l - 1 \in Levels /\ Sibling(Ancestors(i)[l - 1]) \in Indices(l - 1)
      BY <2>1, AncestorsType, Children
    <3> QED
      BY <1>1, <3>1, <3>2 DEF TreeInv, NodesAreRecomputed
  <2>5. PICK ls, leaf, path : ls = leaves /\ leaf = leaves[i + 1] /\ path = MerkleProof(i)
    OBVIOUS
  <2>6. CheckedRoot(leaf, path) = FullTree(ls)[Depth][0]
    BY <2>1, <2>2, <2>3, <2>4, <2>5, PathProves
  <2> QED
    BY <1>1, <2>5, <2>6 DEF TreeInv
<1>2. TreeInv => RootIsRecomputed
  BY <1>1 DEF TreeInv, RootIsRecomputed
<1> QED
  BY <1>2, TreeInvariant, PTL

(* A path and a root read in two calls, with any updates in between, prove *)
(* membership exactly when the leaf and all the path covers were still     *)
(* there at the second: a torn read may fail, never prove a removed note.  *)
THEOREM TornReadsTheorem == Spec => []TornReadsAreSafe
<1>1. ReadsInv => TornReadsAreSafe
  <2> SUFFICES ASSUME ReadsInv, heldRoot # NoReads PROVE TornReadsAreSafe
    BY DEF TornReadsAreSafe
  <2>1. PICK ls, index, leaf, path :
            ls = leavesAtRoot /\ index = held.index /\ leaf = held.leaf /\ path = held.path
    OBVIOUS
  <2>2. /\ index \in Indices(0)
        /\ \A l \in 1..Depth : path[l].side = Ancestors(index)[l - 1] % 2
        /\ heldRoot = FullTree(ls)[Depth][0]
    BY <2>1 DEF ReadsInv
  <2>3. CheckedRoot(leaf, path) = FullTree(ls)[Depth][0]
            <=> /\ LeafAt(ls, index) = leaf
                /\ \A l \in 1..Depth :
                      path[l].element = FullTree(ls)[l - 1][Sibling(Ancestors(index)[l - 1])]
    BY <2>2, PathProves
  <2> QED
    BY <2>1, <2>2, <2>3 DEF TornReadsAreSafe
<1> QED
  BY <1>1, TreeInvariant, PTL

(* Two roots of the contract are equal only if the same notes sat at the   *)
(* same places, so LongjingCredits.tla may take a root for its leaves.     *)
THEOREM RootsTheorem == Spec => []RootsNameTheirLeaves
<1>1. TreeInv /\ ReadsInv => RootsNameTheirLeaves
  <2> SUFFICES ASSUME TreeInv, ReadsInv, heldRoot # NoReads PROVE RootsNameTheirLeaves
    BY DEF RootsNameTheirLeaves
  <2>1. PICK a, b : a = leavesAtRoot /\ b = leaves
    OBVIOUS
  <2>2. heldRoot = FullTree(a)[Depth][0] /\ merkleRoot = FullTree(b)[Depth][0]
    BY <2>1 DEF TreeInv, ReadsInv
  <2> QED
    BY <2>1, <2>2, RootsSeparate DEF RootsNameTheirLeaves
<1> QED
  BY <1>1, TreeInvariant, PTL
=============================================================================
