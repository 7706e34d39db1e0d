--------------------------- MODULE MCFlashUpdate ---------------------------
EXTENDS FlashUpdate, TLC

\* Inodes are interchangeable, and so are the launches of one kind.
MCSymmetry == Permutations(Inode) \cup Permutations(Writer)

=============================================================================
