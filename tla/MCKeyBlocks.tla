---------------------------- MODULE MCKeyBlocks ----------------------------
EXTENDS KeyBlocks

XorBit(a, b, weight) == weight * (((a \div weight) + (b \div weight)) % 2)
XorTable == [a \in 0 .. 15, b \in 0 .. 15 |->
                XorBit(a, b, 1) + XorBit(a, b, 2) + XorBit(a, b, 4) + XorBit(a, b, 8)]
MCXor(a, b) == XorTable[a, b]

ToDigits(s) == [d \in 0 .. 13 |-> s[d + 1]]

\* The default IMEI of the launcher, and one whose FULL block can go bad in the
\* last column in two ways that the checksums let pass: into other digits, and
\* into nibbles that are none.
MCImeis == {ToDigits(<<4, 9, 0, 1, 5, 4, 2, 0, 3, 2, 3, 7, 5, 1>>),
            ToDigits(<<5, 2, 2, 0, 7, 4, 8, 2, 5, 7, 6, 8, 9, 9>>)}

MCLane == 0 .. LaneCount - 1

\* Some function of ESN and IMEI stands for MD4.
MCKeyOf(e, i) == [n \in 0 .. 2 |-> (i[n] + i[n + 8] + (n + 3) * e) % 16]
MCDigest == [0 .. 2 -> 0 .. 15]

MCPlain == {[n \in 0 .. 3 |-> 0], [n \in 0 .. 3 |-> (5 * n + 7) % 16]}

=============================================================================
