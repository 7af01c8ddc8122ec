----------------------------- MODULE MerkleTree -----------------------------
(***************************************************************************)
(* The note tree of LongjingCredits.sol: sparse treeNodes with `zeros' for *)
(* what was never written, _updateLeaf rehashing one path, getMerkleProof, *)
(* the circuit's MerkleTreeChecker, and a client that reads its path and   *)
(* the root in two calls (scripts/client/note.ts proveRequest) while the   *)
(* tree changes.                                                           *)
(*                                                                         *)
(* Poseidon is modelled as pairing: injective, and never a leaf or zero.   *)
(* LongjingCredits.tla takes a root for the leaves it commits to; the      *)
(* invariants here are what justifies that.                                *)
(***************************************************************************)
EXTENDS Integers, Sequences

CONSTANTS
    Depth,       \* TREE_DEPTH
    NoteLeaves,  \* Poseidon(c, D), one per note
    Zero,        \* bytes32(0): an empty leaf, and a node never written
    NoReads      \* the client holds no path

VARIABLES
    leaves,
    known,       \* the leaves of all notes ever deposited (their status is not None)
    treeNodes,   \* level -> index -> hash
    merkleRoot,
    held,        \* what a client has read: its leaf index, leaf and path, or NoReads
    heldRoot,    \* the root it read afterwards, or NoReads
    \* History variables.
    leavesAtRoot \* the leaves when it read the root

vars == <<leaves, known, treeNodes, merkleRoot, held, heldRoot, leavesAtRoot>>

Levels == 0..Depth

Hash(left, right) == <<left, right>>

(* The hashes of full subtrees, by height.                                 *)
Hashes[l \in Levels] ==
    IF l = 0 THEN NoteLeaves \cup {Zero} ELSE Hashes[l - 1] \X Hashes[l - 1]

(* _node relies on no hash being zero.                                     *)
ASSUME TreeAssumption ==
    /\ Depth \in Nat \ {0}
    /\ Zero \notin NoteLeaves
    /\ \A l \in 1..Depth : Zero \notin Hashes[l]

(* The size of a full tree of height h, and the nodes of a level.          *)
Width[h \in Levels] == IF h = 0 THEN 1 ELSE 2 * Width[h - 1]
Indices(l) == 0..Width[Depth - l] - 1

(* The ancestor of a leaf on each level: the loops' index /= 2.            *)
Ancestors(index) ==
    LET at[l \in Levels] == IF l = 0 THEN index ELSE at[l - 1] \div 2
    IN  at

(* The constructor's loop: zeros[l] is an empty subtree of height l.       *)
Zeros[l \in Levels] == IF l = 0 THEN Zero ELSE Hash(Zeros[l - 1], Zeros[l - 1])

Sibling(index) == IF index % 2 = 0 THEN index + 1 ELSE index - 1

(* Mutant: a node that was never written is read as it is.                 *)
Node_NoDefault(l, index) == treeNodes[l][index]

(* _node *)
Node(l, index) == IF treeNodes[l][index] # Zero THEN treeNodes[l][index] ELSE Zeros[l]

Init ==
    /\ leaves = << >>
    /\ known = {}
    /\ treeNodes = [l \in Levels |-> [i \in Indices(l) |-> Zero]]
    /\ merkleRoot = Zeros[Depth]
    /\ held = NoReads
    /\ heldRoot = NoReads
    /\ leavesAtRoot = << >>

-----------------------------------------------------------------------------
(* Mutant: a right child is hashed as if it were a left one.               *)
Ordered_Left(index, current, sibling) == Hash(current, sibling)

(* The two sides of a parent, by the parity of the index (loop body).      *)
Ordered(index, current, sibling) ==
    IF index % 2 = 0 THEN Hash(current, sibling) ELSE Hash(sibling, current)

(* _updateLeaf: the path from the leaf to the root is recomputed and kept. *)
Rehashed(index, leaf) ==
    LET at == Ancestors(index)
        current[l \in Levels] ==
            IF l = 0 THEN leaf
            ELSE Ordered(at[l - 1], current[l - 1], Node(l - 1, Sibling(at[l - 1])))
    IN  current

UpdateLeaf(index, leaf) ==
    /\ treeNodes' = [l \in Levels |->
           [treeNodes[l] EXCEPT ![Ancestors(index)[l]] = Rehashed(index, leaf)[l]]]
    /\ merkleRoot' = Rehashed(index, leaf)[Depth]

(* deposit's part: commitments, and so leaves, are never reused.           *)
Insert(leaf) ==
    /\ Len(leaves) < Width[Depth]
    /\ leaf \notin known
    /\ known' = known \cup {leaf}
    /\ leaves' = Append(leaves, leaf)
    /\ UpdateLeaf(Len(leaves), leaf)
    /\ UNCHANGED <<held, heldRoot, leavesAtRoot>>

(* _removeLeaf, for a note that is closed, slashed or expired.             *)
RemoveLeaf(index) ==
    /\ leaves[index + 1] # Zero
    /\ leaves' = [leaves EXCEPT ![index + 1] = Zero]
    /\ UpdateLeaf(index, Zero)
    /\ UNCHANGED <<known, held, heldRoot, leavesAtRoot>>

(* Mutant: the index is halved before its side is read.                    *)
MerkleProof_LateSide(index) ==
    LET at == Ancestors(index)
    IN  [l \in 1..Depth |->
            [element |-> Node(l - 1, Sibling(at[l - 1])), side |-> at[l] % 2]]

(* getMerkleProof: sibling hashes from the leaf up, with the side of each. *)
MerkleProof(index) ==
    LET at == Ancestors(index)
    IN  [l \in 1..Depth |->
            [element |-> Node(l - 1, Sibling(at[l - 1])), side |-> at[l - 1] % 2]]

(* MerkleTreeChecker: the root a leaf and a path lead to.                  *)
CheckedRoot(leaf, path) ==
    LET hash[l \in Levels] ==
            IF l = 0 THEN leaf
            ELSE IF path[l].side = 0 THEN Hash(hash[l - 1], path[l].element)
                                     ELSE Hash(path[l].element, hash[l - 1])
    IN  hash[Depth]

(* proveRequest reads the path of its active note, then the root.          *)
ReadPath(index) ==
    /\ leaves[index + 1] # Zero
    /\ held' = [index |-> index, leaf |-> leaves[index + 1], path |-> MerkleProof(index)]
    /\ heldRoot' = NoReads
    /\ leavesAtRoot' = << >>
    /\ UNCHANGED <<leaves, known, treeNodes, merkleRoot>>

ReadRoot ==
    /\ held # NoReads
    /\ heldRoot = NoReads
    /\ heldRoot' = merkleRoot
    /\ leavesAtRoot' = leaves
    /\ UNCHANGED <<leaves, known, treeNodes, merkleRoot, held>>

Next ==
    \/ \E leaf \in NoteLeaves : Insert(leaf)
    \/ \E index \in 0..Len(leaves) - 1 : RemoveLeaf(index) \/ ReadPath(index)
    \/ ReadRoot

Spec == Init /\ [][Next]_vars

-----------------------------------------------------------------------------
(* Properties *)

(* The reference: all 2^Depth leaves hashed level by level.                *)
LeafAt(ls, i) == IF i < Len(ls) THEN ls[i + 1] ELSE Zero

FullTree(ls) ==
    LET level[l \in Levels] ==
            [i \in Indices(l) |->
                IF l = 0 THEN LeafAt(ls, i)
                ELSE Hash(level[l - 1][2 * i], level[l - 1][2 * i + 1])]
    IN  level

(* After any sequence of deposits and removals the incrementally kept root *)
(* is the root of a tree built from scratch, and every path of             *)
(* getMerkleProof leads the circuit's checker to it.                       *)
RootIsRecomputed ==
    /\ merkleRoot = FullTree(leaves)[Depth][0]
    /\ \A i \in 0..Len(leaves) - 1 :
          CheckedRoot(leaves[i + 1], MerkleProof(i)) = merkleRoot

(* A path and a root read at different moments prove membership exactly    *)
(* when the note's leaf still sat where it was and nothing the path covers *)
(* had changed: a torn read can fail, never prove a removed note.          *)
TornReadsAreSafe ==
    heldRoot # NoReads =>
        (CheckedRoot(held.leaf, held.path) = heldRoot
            <=> /\ LeafAt(leavesAtRoot, held.index) = held.leaf
                /\ \A l \in 1..Depth :
                      held.path[l].element =
                          FullTree(leavesAtRoot)[l - 1][Sibling(Ancestors(held.index)[l - 1])])

(* Two trees have the same root only if they hold the same notes at the    *)
(* same places: taking a root for its leaves loses nothing.                *)
RootsNameTheirLeaves ==
    heldRoot # NoReads =>
        (heldRoot = merkleRoot <=>
            \A i \in Indices(0) : LeafAt(leavesAtRoot, i) = LeafAt(leaves, i))
=============================================================================
