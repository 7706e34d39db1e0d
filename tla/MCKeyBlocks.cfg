SPECIFICATION Spec
CONSTANTS
    Xor4 <- MCXor
    Imeis <- MCImeis
    ByteCount = 16
    KeyLength = 3
    Length = 4
    LaneCount = 2
    Lane <- MCLane
    Xor <- MCXor
    Digest <- MCDigest
    Plain <- MCPlain
    Esns = {1, 2}
    FirstCandidates = {0, 1, 2}
    KeyOf <- MCKeyOf
INVARIANTS
    TypeOK
    ImeiReadsBack
    DamageIsNoticed
    RightLaneReads
    RecoveryUndoesRecalculation
