------------------------------ MODULE ImeiBlock ------------------------------
(***************************************************************************)
(* The block that holds the IMEI, EEPROM LITE block 76 and EEPROM FULL     *)
(* block 9 (5009): buildImeiBlock packs and encrypts it round by round,    *)
(* decodeImeiBlock decrypts and checks it.  Between the two the block lies *)
(* in the flash, where one of its bytes may go bad.  A byte is the record  *)
(* of its two nibbles, which is what the digits and the S-boxes work on.   *)
(***************************************************************************)
EXTENDS Integers, Sequences

CONSTANTS
    Xor4(_, _),     \* ^ on four bits
    Imeis           \* the IMEIs considered, without the check digit

Nibble == 0 .. 15
NibblePair == [hi : Nibble, lo : Nibble]

ASSUME XorAssumption ==
    \A a, b, c \in Nibble :
        /\ Xor4(a, b) \in Nibble
        /\ Xor4(a, b) = Xor4(b, a)
        /\ Xor4(Xor4(a, b), c) = Xor4(a, Xor4(b, c))
        /\ Xor4(a, 0) = a
        /\ Xor4(a, a) = 0

Digits == [0 .. 13 -> 0 .. 9]

ASSUME ImeiAssumption == Imeis \subseteq Digits

ImeiBytes == [0 .. 9 -> NibblePair]

VARIABLES
    imei,       \* the IMEI that recalculation writes
    fullBlock,  \* the variant: block 5009 of EEFULL, or block 76 of EELITE
    block,      \* the ten bytes
    round,      \* loop variable of the cipher
    step,       \* which part of building or decoding runs
    damaged,    \* the byte that has gone bad in the flash, Nowhere if none has
    read        \* the IMEI that was decoded

imeiVars == <<imei, fullBlock, block, round, step, damaged, read>>

NoImei == << >>
Nowhere == -1

ImeiTypeOK ==
    /\ imei \in Imeis
    /\ fullBlock \in BOOLEAN
    /\ block \in ImeiBytes
    /\ round \in -2 .. 9
    /\ step \in {"build", "encrypt", "stored", "decrypt", "read"}
    /\ damaged \in Nowhere .. 9
    /\ read \in Digits \cup {NoImei}

-----------------------------------------------------------------------------
XorPair(a, b) == [hi |-> Xor4(a.hi, b.hi), lo |-> Xor4(a.lo, b.lo)]

Zero == [hi |-> 0, lo |-> 0]
Ones == [hi |-> 15, lo |-> 15]

IMEI_SBOX_HIGH == <<3, 15, 1, 13, 5, 11, 13, 9, 13, 7, 6, 0, 14, 6, 11, 8>>
IMEI_SBOX_LOW == <<10, 14, 1, 5, 3, 6, 2, 15, 11, 10, 3, 5, 6, 5, 4, 2>>

IMEI_ROUND_KEYS ==
    << [hi |-> 14, lo |-> 3], [hi |-> 11, lo |-> 7], [hi |-> 5, lo |-> 12], [hi |-> 1, lo |-> 3],
       [hi |-> 11, lo |-> 0], [hi |-> 13, lo |-> 2], [hi |-> 12, lo |-> 4], [hi |-> 1, lo |-> 9] >>

Substitute(b) == [hi |-> IMEI_SBOX_HIGH[b.hi + 1], lo |-> IMEI_SBOX_LOW[b.lo + 1]]

\* The mask is inverted from one of the five columns to the next.
Mask(column) == IF column % 2 = 0 THEN Zero ELSE Ones

Feed(old, other, r, column) ==
    XorPair(XorPair(XorPair(Substitute(old), IMEI_ROUND_KEYS[r + 1]), other), Mask(column))

\* transformImeiRound on all five columns.  Slip: decrypting with the halves
\* of encrypting.
DecryptedLikeEncrypted(b, r) ==
    [n \in 0 .. 9 |-> IF n < 5 THEN Feed(b[n], b[n + 5], r, n) ELSE b[n - 5]]

Encrypted(b, r) ==
    [n \in 0 .. 9 |-> IF n < 5 THEN Feed(b[n], b[n + 5], r, n) ELSE b[n - 5]]

Decrypted(b, r) ==
    [n \in 0 .. 9 |-> IF n < 5 THEN b[n + 5] ELSE Feed(b[n], b[n - 5], r, n - 5)]

-----------------------------------------------------------------------------
\* calculateImeiCheckDigit: every second digit is doubled.
Cross(n) == (n \div 10) + (n % 10)
Luhn(i, pair) == i[2 * pair] + Cross(2 * i[2 * pair + 1])
CheckDigit(i) ==
    (10 - ((Luhn(i, 0) + Luhn(i, 1) + Luhn(i, 2) + Luhn(i, 3) + Luhn(i, 4) + Luhn(i, 5)
            + Luhn(i, 6)) % 10)) % 10

XorEven(b) == XorPair(XorPair(b[0], b[2]), XorPair(b[4], b[6]))
XorOdd(b) == XorPair(XorPair(b[1], b[3]), XorPair(b[5], b[7]))

\* The first checksum is over half of the bytes, the second one over all.
CheckBytes(b, full) ==
    <<IF full THEN XorOdd(b) ELSE XorEven(b), XorPair(XorPair(XorOdd(b), XorEven(b)), Ones)>>

PlainByte(i, n) ==
    CASE n < 7 -> [lo |-> i[2 * n], hi |-> i[2 * n + 1]]
      [] n = 7 -> [lo |-> 0, hi |-> CheckDigit(i)]
      [] OTHER -> Zero

Packed(i) == [n \in 0 .. 9 |-> PlainByte(i, n)]

\* buildImeiBlock up to the encryption.
Built(i, full) ==
    [Packed(i) EXCEPT ![8] = CheckBytes(Packed(i), full)[1],
                      ![9] = CheckBytes(Packed(i), full)[2]]

DigitsOf(b) == [d \in 0 .. 13 |-> IF d % 2 = 0 THEN b[d \div 2].lo ELSE b[d \div 2].hi]

\* Slip: the second checksum is not compared.
OneCheckByte(b, full) ==
    /\ b[8] = CheckBytes(b, full)[1]
    /\ \A n \in 0 .. 6 : b[n].lo <= 9 /\ b[n].hi <= 9
    /\ b[7].lo = 0
    /\ b[7].hi = CheckDigit(DigitsOf(b))

\* Slip: the nibbles are not checked for being digits.
AnyDigits(b, full) ==
    /\ <<b[8], b[9]>> = CheckBytes(b, full)
    /\ b[7].lo = 0
    /\ b[7].hi = CheckDigit(DigitsOf(b))

\* What decodeImeiBlock accepts after the decryption.
IsValidImeiBlock(b, full) ==
    /\ <<b[8], b[9]>> = CheckBytes(b, full)
    /\ \A n \in 0 .. 6 : b[n].lo <= 9 /\ b[n].hi <= 9
    /\ b[7].lo = 0
    /\ b[7].hi = CheckDigit(DigitsOf(b))

-----------------------------------------------------------------------------
ImeiInit ==
    /\ imei \in Imeis
    /\ fullBlock \in BOOLEAN
    /\ block = [n \in 0 .. 9 |-> Zero]
    /\ round = 0
    /\ step = "build"
    /\ damaged = Nowhere
    /\ read = NoImei

Build ==
    /\ step = "build"
    /\ block' = Built(imei, fullBlock)
    /\ round' = IF fullBlock THEN 0 ELSE 1
    /\ step' = "encrypt"
    /\ UNCHANGED <<imei, fullBlock, damaged, read>>

EncryptRound ==
    /\ step = "encrypt"
    /\ round < 8
    /\ block' = Encrypted(block, round)
    /\ round' = round + 2
    /\ UNCHANGED <<imei, fullBlock, step, damaged, read>>

Store ==
    /\ step = "encrypt"
    /\ round >= 8
    /\ step' = "stored"
    /\ UNCHANGED <<imei, fullBlock, block, round, damaged, read>>

\* One byte of the flash goes bad.
Damage(n, value) ==
    /\ step = "stored"
    /\ damaged = Nowhere
    /\ value # block[n]
    /\ block' = [block EXCEPT ![n] = value]
    /\ damaged' = n
    /\ UNCHANGED <<imei, fullBlock, round, step, read>>

\* The block's id tells decodeImeiBlock the variant.
Open ==
    /\ step = "stored"
    /\ round' = IF fullBlock THEN 6 ELSE 7
    /\ step' = "decrypt"
    /\ UNCHANGED <<imei, fullBlock, block, damaged, read>>

DecryptRound ==
    /\ step = "decrypt"
    /\ round >= 0
    /\ block' = Decrypted(block, round)
    /\ round' = round - 2
    /\ UNCHANGED <<imei, fullBlock, step, damaged, read>>

Decode ==
    /\ step = "decrypt"
    /\ round < 0
    /\ read' = IF IsValidImeiBlock(block, fullBlock) THEN DigitsOf(block) ELSE NoImei
    /\ step' = "read"
    /\ UNCHANGED <<imei, fullBlock, block, round, damaged>>

WriteImei == Build \/ EncryptRound \/ Store
ReadImei == Open \/ DecryptRound \/ Decode

ImeiNext ==
    \/ WriteImei
    \/ \E n \in 0 .. 9, value \in NibblePair : Damage(n, value)
    \/ ReadImei

ImeiSpec == ImeiInit /\ [][ImeiNext]_imeiVars

-----------------------------------------------------------------------------
\* decodeImeiBlock returns the IMEI that buildImeiBlock was given, for both
\* variants, whose cipher rounds and checksums differ.
ImeiReadsBack == step = "read" /\ damaged = Nowhere => read = imei

\* A single bad byte is always noticed, so that recovery goes on without an
\* IMEI instead of with another phone's.  The cipher keeps the five columns
\* apart, and in the FULL variant the last column holds the second checksum
\* together with a byte that the first one does not cover: there only the check
\* digit can tell.
DamageIsNoticed ==
    step = "read" /\ damaged # Nowhere /\ (fullBlock => damaged \notin {4, 9}) => read = NoImei

=============================================================================
