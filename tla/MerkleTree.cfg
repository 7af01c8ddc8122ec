\* A tree of height three, filled and emptied in every order under a client's reads.
SPECIFICATION Spec
CONSTANTS
    Depth = 3
    NoteLeaves = {n1, n2, n3, n4, n5}
    Zero = Zero
    NoReads = NoReads
SYMMETRY LeafSymmetry
INVARIANTS
    RootIsRecomputed
    TornReadsAreSafe
    RootsNameTheirLeaves
CHECK_DEADLOCK FALSE
