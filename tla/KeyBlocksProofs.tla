-------------------------- MODULE KeyBlocksProofs --------------------------
(***************************************************************************)
(* Proofs about the ciphers, for every IMEI, ESN, key, block, batch and    *)
(* damaged byte.  The first part is about ImeiBlock: what buildImeiBlock   *)
(* writes decodeImeiBlock reads, because each round undoes its             *)
(* counterpart, and a block with one bad byte is refused, because the      *)
(* rounds keep its five columns apart.  The second part is about           *)
(* StreamCipher: the cipher states that the encryption went through are    *)
(* its trail, and a reader with the same key walks along it.  KeyBlocks    *)
(* runs the two side by side, so that both invariants hold in it, and      *)
(* joins them where a batch is started with the IMEI that was read:        *)
(* recovery undoes recalculation.                                          *)
(***************************************************************************)
EXTENDS KeyBlocks, TLAPS

-----------------------------------------------------------------------------
(* ImeiBlock: the block of the IMEI.                                       *)

\* ^ on pairs of nibbles is what it is on nibbles.
LEMMA XorPairAlgebra ==
    ASSUME NEW a \in NibblePair, NEW b \in NibblePair, NEW c \in NibblePair
    PROVE  /\ XorPair(a, b) \in NibblePair
           /\ XorPair(a, b) = XorPair(b, a)
           /\ XorPair(XorPair(a, b), c) = XorPair(a, XorPair(b, c))
           /\ XorPair(a, XorPair(a, b)) = b
           /\ XorPair(XorPair(a, b), b) = a
           /\ XorPair(a, b) = XorPair(a, c) => b = c
<1>1. \A x, y \in Nibble : Xor4(x, Xor4(x, y)) = y /\ Xor4(Xor4(x, y), y) = x
  <2> TAKE x \in Nibble, y \in Nibble
  <2>0. 0 \in Nibble
    BY DEF Nibble
  <2>1. Xor4(x, Xor4(x, y)) = Xor4(0, y) /\ Xor4(Xor4(x, y), y) = Xor4(x, 0)
    BY <2>0, XorAssumption
  <2> QED BY <2>0, <2>1, XorAssumption
<1>2. /\ a.hi \in Nibble /\ a.lo \in Nibble /\ b.hi \in Nibble /\ b.lo \in Nibble
      /\ c.hi \in Nibble /\ c.lo \in Nibble
      /\ a = [hi |-> a.hi, lo |-> a.lo] /\ b = [hi |-> b.hi, lo |-> b.lo]
      /\ c = [hi |-> c.hi, lo |-> c.lo]
  BY DEF NibblePair
<1>3. XorPair(a, b) \in NibblePair /\ XorPair(a, b) = XorPair(b, a)
  BY <1>2, XorAssumption DEF XorPair, NibblePair
<1>4. XorPair(XorPair(a, b), c) = XorPair(a, XorPair(b, c))
  BY <1>2, XorAssumption DEF XorPair
<1>5. XorPair(a, XorPair(a, b)) = b /\ XorPair(XorPair(a, b), b) = a
  BY <1>1, <1>2 DEF XorPair
<1>6. ASSUME XorPair(a, b) = XorPair(a, c) PROVE b = c
  <2>1. XorPair(a, XorPair(a, c)) = c
    BY <1>1, <1>2 DEF XorPair
  <2> QED BY <2>1, <1>5, <1>6
<1> QED BY <1>3, <1>4, <1>5, <1>6

\* What goes into a column besides the byte that is replaced.
RoundPad(old, r) == XorPair(Substitute(old), IMEI_ROUND_KEYS[r + 1])

\* The tables hold nibbles.
LEMMA PadType ==
    ASSUME NEW old \in NibblePair, NEW r \in 0 .. 7, NEW column \in Int
    PROVE  RoundPad(old, r) \in NibblePair /\ Mask(column) \in NibblePair
<1>1. \A k \in 1 .. 16 : IMEI_SBOX_HIGH[k] \in Nibble /\ IMEI_SBOX_LOW[k] \in Nibble
  BY DEF IMEI_SBOX_HIGH, IMEI_SBOX_LOW, Nibble
<1>2. \A k \in 1 .. 8 : IMEI_ROUND_KEYS[k] \in NibblePair
  BY DEF IMEI_ROUND_KEYS, NibblePair, Nibble
<1>3. Substitute(old) \in NibblePair
  <2>1. old.hi + 1 \in 1 .. 16 /\ old.lo + 1 \in 1 .. 16
    BY DEF NibblePair, Nibble
  <2> QED BY <1>1, <2>1 DEF Substitute, NibblePair
<1>4. Mask(column) \in NibblePair
  BY DEF Mask, Zero, Ones, NibblePair, Nibble
<1> QED BY <1>2, <1>3, <1>4, XorPairAlgebra DEF RoundPad

\* Feeding a byte in twice takes it out again.
LEMMA FeedTwice ==
    ASSUME NEW old \in NibblePair, NEW x \in NibblePair, NEW r \in 0 .. 7, NEW column \in Int
    PROVE  /\ Feed(old, x, r, column) \in NibblePair
           /\ Feed(old, Feed(old, x, r, column), r, column) = x
<1> DEFINE p == RoundPad(old, r)
           m == Mask(column)
<1>1. p \in NibblePair /\ m \in NibblePair
  BY PadType
<1> HIDE DEF p, m
<1>2. \A y : Feed(old, y, r, column) = XorPair(XorPair(p, y), m)
  BY DEF Feed, p, m, RoundPad
<1>3. XorPair(p, x) \in NibblePair /\ XorPair(XorPair(p, x), m) \in NibblePair
  BY <1>1, XorPairAlgebra
<1>4. XorPair(p, XorPair(XorPair(p, x), m)) = XorPair(x, m)
  <2>1. XorPair(XorPair(p, x), m) = XorPair(p, XorPair(x, m)) /\ XorPair(x, m) \in NibblePair
    BY <1>1, XorPairAlgebra
  <2> QED BY <1>1, <2>1, XorPairAlgebra
<1>5. XorPair(XorPair(x, m), m) = x
  BY <1>1, XorPairAlgebra
<1> QED BY <1>2, <1>3, <1>4, <1>5

\* Each round undoes its counterpart, in either order.
LEMMA RoundsInvert ==
    ASSUME NEW b \in ImeiBytes, NEW r \in 0 .. 7
    PROVE  /\ Encrypted(b, r) \in ImeiBytes /\ Decrypted(b, r) \in ImeiBytes
           /\ Decrypted(Encrypted(b, r), r) = b
           /\ Encrypted(Decrypted(b, r), r) = b
<1>1. \A n \in 0 .. 4 : /\ b[n] \in NibblePair /\ b[n + 5] \in NibblePair
                        /\ n + 5 \in 0 .. 9 /\ ~(n + 5 < 5) /\ n < 5 /\ (n + 5) - 5 = n
  BY DEF ImeiBytes
<1>2. \A n \in 0 .. 4 :
            /\ Feed(b[n], b[n + 5], r, n) \in NibblePair
            /\ Feed(b[n], Feed(b[n], b[n + 5], r, n), r, n) = b[n + 5]
            /\ Feed(b[n + 5], b[n], r, n) \in NibblePair
            /\ Feed(b[n + 5], Feed(b[n + 5], b[n], r, n), r, n) = b[n]
  <2> TAKE n \in 0 .. 4
  <2>1. n \in Int /\ b[n] \in NibblePair /\ b[n + 5] \in NibblePair
    BY <1>1
  <2>2. /\ Feed(b[n], b[n + 5], r, n) \in NibblePair
        /\ Feed(b[n], Feed(b[n], b[n + 5], r, n), r, n) = b[n + 5]
    BY <2>1, FeedTwice
  <2>3. /\ Feed(b[n + 5], b[n], r, n) \in NibblePair
        /\ Feed(b[n + 5], Feed(b[n + 5], b[n], r, n), r, n) = b[n]
    BY <2>1, FeedTwice
  <2> QED BY <2>2, <2>3
<1>3. Encrypted(b, r) \in ImeiBytes /\ Decrypted(b, r) \in ImeiBytes
  <2>1. \A n \in 0 .. 9 :
            (IF n < 5 THEN Feed(b[n], b[n + 5], r, n) ELSE b[n - 5]) \in NibblePair
    <3> TAKE n \in 0 .. 9
    <3>1. CASE n \in 0 .. 4
      BY <3>1, <1>2
    <3>2. CASE n \in 5 .. 9
      <4>1. n - 5 \in 0 .. 4 /\ ~(n < 5)
        BY <3>2
      <4> QED BY <4>1, <1>1
    <3> QED BY <3>1, <3>2
  <2>2. \A n \in 0 .. 9 :
            (IF n < 5 THEN b[n + 5] ELSE Feed(b[n], b[n - 5], r, n - 5)) \in NibblePair
    <3> TAKE n \in 0 .. 9
    <3>1. CASE n \in 0 .. 4
      BY <3>1, <1>1
    <3>2. CASE n \in 5 .. 9
      <4>1. n - 5 \in 0 .. 4 /\ ~(n < 5) /\ (n - 5) + 5 = n
        BY <3>2
      <4>2. Feed(b[(n - 5) + 5], b[n - 5], r, n - 5) \in NibblePair
        BY <4>1, <1>2
      <4> QED BY <4>1, <4>2
    <3> QED BY <3>1, <3>2
  <2> QED BY <2>1, <2>2 DEF Encrypted, Decrypted, ImeiBytes
<1>4. \A n \in 0 .. 4 : /\ Encrypted(b, r)[n] = Feed(b[n], b[n + 5], r, n)
                        /\ Encrypted(b, r)[n + 5] = b[n]
                        /\ Decrypted(b, r)[n] = b[n + 5]
                        /\ Decrypted(b, r)[n + 5] = Feed(b[n + 5], b[n], r, n)
  BY <1>1 DEF Encrypted, Decrypted
<1>5. \A n \in 0 .. 4 : /\ Decrypted(Encrypted(b, r), r)[n] = b[n]
                        /\ Decrypted(Encrypted(b, r), r)[n + 5] = b[n + 5]
                        /\ Encrypted(Decrypted(b, r), r)[n] = b[n]
                        /\ Encrypted(Decrypted(b, r), r)[n + 5] = b[n + 5]
  <2> TAKE n \in 0 .. 4
  <2> DEFINE e == Encrypted(b, r)
             d == Decrypted(b, r)
  <2> HIDE DEF e, d
  <2>1. /\ Decrypted(e, r)[n] = e[n + 5]
        /\ Decrypted(e, r)[n + 5] = Feed(e[n + 5], e[n], r, n)
        /\ Encrypted(d, r)[n] = Feed(d[n], d[n + 5], r, n)
        /\ Encrypted(d, r)[n + 5] = d[n]
    BY <1>1 DEF Encrypted, Decrypted
  <2>2. /\ e[n] = Feed(b[n], b[n + 5], r, n) /\ e[n + 5] = b[n]
        /\ d[n] = b[n + 5] /\ d[n + 5] = Feed(b[n + 5], b[n], r, n)
    BY <1>4 DEF e, d
  <2>3. /\ Decrypted(e, r)[n] = b[n] /\ Decrypted(e, r)[n + 5] = b[n + 5]
        /\ Encrypted(d, r)[n] = b[n] /\ Encrypted(d, r)[n + 5] = b[n + 5]
    BY <2>1, <2>2, <1>2
  <2> QED BY <2>3 DEF e, d
<1>6. \A n \in 0 .. 9 : n \in 0 .. 4 \/ (n - 5 \in 0 .. 4 /\ (n - 5) + 5 = n)
  OBVIOUS
<1>7. /\ Decrypted(Encrypted(b, r), r) \in [0 .. 9 -> NibblePair]
      /\ Encrypted(Decrypted(b, r), r) \in [0 .. 9 -> NibblePair]
  <2>1. /\ Decrypted(Encrypted(b, r), r) = [n \in 0 .. 9 |-> Decrypted(Encrypted(b, r), r)[n]]
        /\ Encrypted(Decrypted(b, r), r) = [n \in 0 .. 9 |-> Encrypted(Decrypted(b, r), r)[n]]
    BY DEF Encrypted, Decrypted
  <2>2. \A n \in 0 .. 9 : /\ Decrypted(Encrypted(b, r), r)[n] \in NibblePair
                          /\ Encrypted(Decrypted(b, r), r)[n] \in NibblePair
    BY <1>5, <1>6, <1>1
  <2> QED BY <2>1, <2>2
<1>8. \A n \in 0 .. 9 : /\ Decrypted(Encrypted(b, r), r)[n] = b[n]
                        /\ Encrypted(Decrypted(b, r), r)[n] = b[n]
  BY <1>5, <1>6
<1> QED BY <1>3, <1>7, <1>8 DEF ImeiBytes

-----------------------------------------------------------------------------
\* The first of the four rounds of a variant.
Base(full) == IF full THEN 0 ELSE 1

\* The block after k rounds of encryption.
First(i, full) == Encrypted(Built(i, full), Base(full))
Second(i, full) == Encrypted(First(i, full), Base(full) + 2)
Third(i, full) == Encrypted(Second(i, full), Base(full) + 4)
Fourth(i, full) == Encrypted(Third(i, full), Base(full) + 6)

Stage(i, full, k) ==
    CASE k = 0 -> Built(i, full)
      [] k = 1 -> First(i, full)
      [] k = 2 -> Second(i, full)
      [] k = 3 -> Third(i, full)
      [] OTHER -> Fourth(i, full)

Column(n) == IF n < 5 THEN n ELSE n - 5

\* b is s, but for what a bad byte d has done to its column.
IsNear(b, s, d) ==
    IF d = Nowhere THEN b = s
    ELSE /\ b # s
         /\ \A n \in 0 .. 4 : n # Column(d) => b[n] = s[n] /\ b[n + 5] = s[n + 5]

\* The check digit is a digit.
LEMMA CheckDigitType ==
    ASSUME NEW i \in Digits
    PROVE  CheckDigit(i) \in 0 .. 9
<1>1. \A x \in Nat : Cross(x) \in Nat
  BY Z3 DEF Cross
<1>2. \A pair \in 0 .. 6 : Luhn(i, pair) \in Nat
  <2> TAKE pair \in 0 .. 6
  <2>1. i[2 * pair] \in Nat /\ 2 * i[2 * pair + 1] \in Nat
    <3>1. 2 * pair \in 0 .. 13 /\ 2 * pair + 1 \in 0 .. 13
      OBVIOUS
    <3> QED BY <3>1 DEF Digits
  <2> QED BY <2>1, <1>1 DEF Luhn
<1> DEFINE sum == Luhn(i, 0) + Luhn(i, 1) + Luhn(i, 2) + Luhn(i, 3) + Luhn(i, 4) + Luhn(i, 5)
                    + Luhn(i, 6)
<1>3. sum \in Nat
  BY <1>2
<1>4. CheckDigit(i) = (10 - (sum % 10)) % 10
  BY DEF CheckDigit
<1> HIDE DEF sum
<1> QED BY <1>3, <1>4, Z3

\* The packed bytes are bytes.
LEMMA PackedType ==
    ASSUME NEW i \in Digits
    PROVE  Packed(i) \in ImeiBytes
<1>1. \A n \in 0 .. 9 : PlainByte(i, n) \in NibblePair
  <2> TAKE n \in 0 .. 9
  <2>1. CASE n < 7
    <3>1. 2 * n \in 0 .. 13 /\ 2 * n + 1 \in 0 .. 13
      BY <2>1
    <3>2. i[2 * n] \in Nibble /\ i[2 * n + 1] \in Nibble
      BY <3>1 DEF Digits, Nibble
    <3>3. PlainByte(i, n) = [lo |-> i[2 * n], hi |-> i[2 * n + 1]]
      BY <2>1 DEF PlainByte
    <3> QED BY <3>2, <3>3 DEF NibblePair
  <2>2. CASE n = 7
    <3>1. PlainByte(i, n) = [lo |-> 0, hi |-> CheckDigit(i)]
      BY <2>2 DEF PlainByte
    <3> QED BY <3>1, CheckDigitType DEF NibblePair, Nibble
  <2>3. CASE n > 7
    <3>1. PlainByte(i, n) = Zero
      BY <2>3 DEF PlainByte
    <3> QED BY <3>1 DEF Zero, NibblePair, Nibble
  <2> QED BY <2>1, <2>2, <2>3
<1> QED BY <1>1 DEF Packed, ImeiBytes

\* The check bytes are bytes and depend on the first eight bytes only.
LEMMA CheckBytesType ==
    ASSUME NEW b \in ImeiBytes, NEW full \in BOOLEAN
    PROVE  /\ XorEven(b) \in NibblePair /\ XorOdd(b) \in NibblePair
           /\ CheckBytes(b, full)[1] = (IF full THEN XorOdd(b) ELSE XorEven(b))
           /\ CheckBytes(b, full)[2] = XorPair(XorPair(XorOdd(b), XorEven(b)), Ones)
           /\ CheckBytes(b, full)[1] \in NibblePair /\ CheckBytes(b, full)[2] \in NibblePair
           /\ CheckBytes(b, full) = <<CheckBytes(b, full)[1], CheckBytes(b, full)[2]>>
<1>1. \A n \in 0 .. 9 : b[n] \in NibblePair
  BY DEF ImeiBytes
<1>2. XorEven(b) \in NibblePair /\ XorOdd(b) \in NibblePair
  <2>1. /\ XorPair(b[0], b[2]) \in NibblePair /\ XorPair(b[4], b[6]) \in NibblePair
        /\ XorPair(b[1], b[3]) \in NibblePair /\ XorPair(b[5], b[7]) \in NibblePair
    <3>1. \A x, y \in NibblePair : XorPair(x, y) \in NibblePair
      BY XorPairAlgebra
    <3> QED BY <1>1, <3>1
  <2> QED BY <2>1, XorPairAlgebra DEF XorEven, XorOdd
<1>3. Ones \in NibblePair
  BY DEF Ones, NibblePair, Nibble
<1>4. XorPair(XorPair(XorOdd(b), XorEven(b)), Ones) \in NibblePair
  BY <1>2, <1>3, XorPairAlgebra
<1> QED BY <1>2, <1>4 DEF CheckBytes

\* What buildImeiBlock packs passes decodeImeiBlock's checks and has the digits
\* of the IMEI.
LEMMA BuiltIsValid ==
    ASSUME NEW i \in Digits, NEW full \in BOOLEAN
    PROVE  /\ Built(i, full) \in ImeiBytes
           /\ IsValidImeiBlock(Built(i, full), full)
           /\ DigitsOf(Built(i, full)) = i
<1> DEFINE p == Packed(i)
           b == Built(i, full)
<1>1. p \in ImeiBytes /\ CheckBytes(p, full)[1] \in NibblePair /\ CheckBytes(p, full)[2] \in NibblePair
  BY PackedType, CheckBytesType
<1>2. /\ b \in ImeiBytes
      /\ \A n \in 0 .. 7 : b[n] = PlainByte(i, n)
      /\ \A n \in 0 .. 7 : p[n] = PlainByte(i, n)
      /\ b[8] = CheckBytes(p, full)[1] /\ b[9] = CheckBytes(p, full)[2]
  BY <1>1 DEF Built, Packed, ImeiBytes
<1> HIDE DEF p, b
<1>3. XorEven(b) = XorEven(p) /\ XorOdd(b) = XorOdd(p)
  BY <1>2 DEF XorEven, XorOdd
<1>4. <<b[8], b[9]>> = CheckBytes(b, full)
  BY <1>2, <1>3 DEF CheckBytes
<1>5. \A n \in 0 .. 6 : /\ b[n].lo = i[2 * n] /\ b[n].hi = i[2 * n + 1]
                        /\ i[2 * n] \in 0 .. 9 /\ i[2 * n + 1] \in 0 .. 9
  <2> TAKE n \in 0 .. 6
  <2>1. b[n] = [lo |-> i[2 * n], hi |-> i[2 * n + 1]]
    BY <1>2 DEF PlainByte
  <2>2. 2 * n \in 0 .. 13 /\ 2 * n + 1 \in 0 .. 13
    OBVIOUS
  <2> QED BY <2>1, <2>2 DEF Digits
<1>6. b[7] = [lo |-> 0, hi |-> CheckDigit(i)]
  BY <1>2 DEF PlainByte
<1>7. DigitsOf(b) = i
  <2>1. \A d \in 0 .. 13 : (IF d % 2 = 0 THEN b[d \div 2].lo ELSE b[d \div 2].hi) = i[d]
    <3> TAKE d \in 0 .. 13
    <3>1. d \div 2 \in 0 .. 6 /\ (d % 2 = 0 => 2 * (d \div 2) = d)
                              /\ (d % 2 # 0 => 2 * (d \div 2) + 1 = d)
      OBVIOUS
    <3>2. b[d \div 2].lo = i[2 * (d \div 2)] /\ b[d \div 2].hi = i[2 * (d \div 2) + 1]
      BY <3>1, <1>5
    <3> QED BY <3>1, <3>2
  <2>2. i = [d \in 0 .. 13 |-> i[d]]
    BY DEF Digits
  <2> QED BY <2>1, <2>2 DEF DigitsOf
<1>8. \A n \in 0 .. 6 : b[n].lo <= 9 /\ b[n].hi <= 9
  BY <1>5
<1>9. b[7].lo = 0 /\ b[7].hi = CheckDigit(DigitsOf(b))
  BY <1>6, <1>7
<1>10. IsValidImeiBlock(b, full)
  BY <1>4, <1>8, <1>9 DEF IsValidImeiBlock
<1> QED BY <1>2, <1>7, <1>10 DEF b

\* The rounds of encryption lead from stage to stage, those of decryption back.
LEMMA StagesLead ==
    ASSUME NEW i \in Digits, NEW full \in BOOLEAN, NEW k \in 0 .. 3
    PROVE  /\ Stage(i, full, k) \in ImeiBytes /\ Stage(i, full, k + 1) \in ImeiBytes
           /\ Base(full) + 2 * k \in 0 .. 7
           /\ Stage(i, full, k + 1) = Encrypted(Stage(i, full, k), Base(full) + 2 * k)
           /\ Decrypted(Stage(i, full, k + 1), Base(full) + 2 * k) = Stage(i, full, k)
<1>1. \A n \in 0 .. 3 : Base(full) + 2 * n \in 0 .. 7
  BY DEF Base
<1>2. /\ Built(i, full) \in ImeiBytes /\ First(i, full) \in ImeiBytes
      /\ Second(i, full) \in ImeiBytes /\ Third(i, full) \in ImeiBytes
      /\ Fourth(i, full) \in ImeiBytes
  <2>1. Built(i, full) \in ImeiBytes
    BY BuiltIsValid
  <2>2. /\ Base(full) \in 0 .. 7 /\ Base(full) + 2 \in 0 .. 7
        /\ Base(full) + 4 \in 0 .. 7 /\ Base(full) + 6 \in 0 .. 7
    BY DEF Base
  <2>3. First(i, full) \in ImeiBytes
    BY <2>1, <2>2, RoundsInvert DEF First
  <2>4. Second(i, full) \in ImeiBytes
    BY <2>3, <2>2, RoundsInvert DEF Second
  <2>5. Third(i, full) \in ImeiBytes
    BY <2>4, <2>2, RoundsInvert DEF Third
  <2> QED BY <2>1, <2>2, <2>3, <2>4, <2>5, RoundsInvert DEF Fourth
<1>3. Stage(i, full, k) \in ImeiBytes /\ Stage(i, full, k + 1) \in ImeiBytes
  BY <1>2 DEF Stage
<1>4. Stage(i, full, k + 1) = Encrypted(Stage(i, full, k), Base(full) + 2 * k)
  <2>1. CASE k = 0
    <3>1. Base(full) + 2 * k = Base(full)
      BY <2>1 DEF Base
    <3> QED BY <2>1, <3>1 DEF Stage, First
  <2>2. CASE k = 1
    BY <2>2 DEF Stage, Second
  <2>3. CASE k = 2
    BY <2>3 DEF Stage, Third
  <2>4. CASE k = 3
    BY <2>4 DEF Stage, Fourth
  <2> QED BY <2>1, <2>2, <2>3, <2>4
<1> QED BY <1>1, <1>3, <1>4, RoundsInvert

\* A round of decryption keeps the columns apart: the stage with a bad byte
\* becomes the stage before with the same column bad.
LEMMA NearStaysNear ==
    ASSUME NEW b \in ImeiBytes, NEW s \in ImeiBytes, NEW d \in Nowhere .. 9, NEW r \in 0 .. 7,
           IsNear(b, s, d)
    PROVE  IsNear(Decrypted(b, r), Decrypted(s, r), d)
<1>1. CASE d = Nowhere
  BY <1>1 DEF IsNear
<1>2. CASE d # Nowhere
  <2>1. b # s /\ \A n \in 0 .. 4 : n # Column(d) => b[n] = s[n] /\ b[n + 5] = s[n + 5]
    BY <1>2 DEF IsNear
  <2>2. Decrypted(b, r) # Decrypted(s, r)
    BY <2>1, RoundsInvert
  <2>3. \A n \in 0 .. 4 : n # Column(d) => /\ Decrypted(b, r)[n] = Decrypted(s, r)[n]
                                           /\ Decrypted(b, r)[n + 5] = Decrypted(s, r)[n + 5]
    <3> TAKE n \in 0 .. 4
    <3>1. n + 5 \in 0 .. 9 /\ n \in 0 .. 9 /\ n < 5 /\ ~(n + 5 < 5) /\ (n + 5) - 5 = n
      OBVIOUS
    <3>2. /\ Decrypted(b, r)[n] = b[n + 5]
          /\ Decrypted(b, r)[n + 5] = Feed(b[n + 5], b[n], r, n)
          /\ Decrypted(s, r)[n] = s[n + 5]
          /\ Decrypted(s, r)[n + 5] = Feed(s[n + 5], s[n], r, n)
      BY <3>1 DEF Decrypted
    <3> QED BY <2>1, <3>2
  <2> QED BY <1>2, <2>2, <2>3 DEF IsNear
<1> QED BY <1>1, <1>2

\* A sum tells a change of one of its terms.
LEMMA SumTells ==
    \A a, b, c \in NibblePair :
        /\ XorPair(a, b) \in NibblePair
        /\ XorPair(a, b) = XorPair(a, c) => b = c
        /\ XorPair(b, a) = XorPair(c, a) => b = c
<1> TAKE a, b, c \in NibblePair
<1>1. XorPair(a, b) = XorPair(b, a) /\ XorPair(a, c) = XorPair(c, a)
  BY XorPairAlgebra
<1>2. XorPair(a, b) = XorPair(a, c) => b = c
  BY XorPairAlgebra
<1>3. XorPair(a, b) \in NibblePair
  BY XorPairAlgebra
<1> QED BY <1>1, <1>2, <1>3

\* Of a valid block near another one both sums are equal to the other's, except
\* where a bad last column of the FULL variant holds the byte of the second check
\* and one that the first check does not cover.
LEMMA SumsAgree ==
    ASSUME NEW b \in ImeiBytes, NEW s \in ImeiBytes, NEW full \in BOOLEAN, NEW d \in 0 .. 9,
           IsNear(b, s, d), IsValidImeiBlock(b, full), IsValidImeiBlock(s, full),
           full => d \notin {4, 9}
    PROVE  XorEven(b) = XorEven(s) /\ XorOdd(b) = XorOdd(s)
<1>0. XorEven(b) \in NibblePair /\ XorOdd(b) \in NibblePair
      /\ XorEven(s) \in NibblePair /\ XorOdd(s) \in NibblePair /\ Ones \in NibblePair
  BY CheckBytesType DEF Ones, NibblePair, Nibble
<1>1. \A t \in {b, s} :
          /\ t[8] = (IF full THEN XorOdd(t) ELSE XorEven(t))
          /\ t[9] = XorPair(XorPair(XorOdd(t), XorEven(t)), Ones)
  BY CheckBytesType DEF IsValidImeiBlock
<1>2. \A n \in 0 .. 4 : n # Column(d) => b[n] = s[n] /\ b[n + 5] = s[n + 5]
  BY DEF IsNear, Nowhere
<1>3. b[9] = s[9] => XorPair(XorOdd(b), XorEven(b)) = XorPair(XorOdd(s), XorEven(s))
  <2>1. \A x, y \in NibblePair : XorPair(x, Ones) = XorPair(y, Ones) => x = y
    <3> TAKE x, y \in NibblePair
    <3>1. XorPair(XorPair(x, Ones), Ones) = x /\ XorPair(XorPair(y, Ones), Ones) = y
      BY <1>0, XorPairAlgebra
    <3> QED BY <3>1
  <2>2. /\ XorPair(XorOdd(b), XorEven(b)) \in NibblePair
        /\ XorPair(XorOdd(s), XorEven(s)) \in NibblePair
    BY <1>0, XorPairAlgebra
  <2> QED BY <1>1, <2>1, <2>2
<1>5. b[9] = s[9] => (XorEven(b) = XorEven(s) <=> XorOdd(b) = XorOdd(s))
  BY <1>0, <1>3, SumTells
<1>6. CASE Column(d) \in 0 .. 2
  <2>1. b[3 + 5] = s[3 + 5] /\ b[4 + 5] = s[4 + 5]
    BY <1>2, <1>6
  <2>2. b[8] = s[8] /\ b[9] = s[9]
    BY <2>1
  <2> QED BY <2>2, <1>1, <1>5
<1>7. CASE Column(d) = 3
  <2>1. /\ b[0] = s[0] /\ b[2] = s[2] /\ b[4] = s[4] /\ b[1 + 5] = s[1 + 5]
        /\ b[4 + 5] = s[4 + 5]
    BY <1>2, <1>7
  <2>2. XorEven(b) = XorEven(s) /\ b[9] = s[9]
    BY <2>1 DEF XorEven
  <2> QED BY <2>2, <1>5
<1>8. CASE Column(d) = 4
  <2>1. ~full
    BY <1>8 DEF Column
  <2>2. /\ b[1] = s[1] /\ b[3] = s[3] /\ b[0 + 5] = s[0 + 5] /\ b[2 + 5] = s[2 + 5]
        /\ b[3 + 5] = s[3 + 5]
    BY <1>2, <1>8
  <2>3. XorOdd(b) = XorOdd(s) /\ b[8] = s[8]
    BY <2>2 DEF XorOdd
  <2> QED BY <2>1, <2>3, <1>1
<1>9. Column(d) \in 0 .. 4
  BY DEF Column
<1> QED BY <1>6, <1>7, <1>8, <1>9

\* A block with a bad byte is not valid.
LEMMA BadByteIsRefused ==
    ASSUME NEW b \in ImeiBytes, NEW s \in ImeiBytes, NEW full \in BOOLEAN, NEW d \in 0 .. 9,
           IsNear(b, s, d), IsValidImeiBlock(s, full), full => d \notin {4, 9}
    PROVE  ~IsValidImeiBlock(b, full)
<1> SUFFICES ASSUME IsValidImeiBlock(b, full) PROVE FALSE
  OBVIOUS
<1>1. XorEven(b) = XorEven(s) /\ XorOdd(b) = XorOdd(s)
  BY SumsAgree
<1>2. b[8] = s[8] /\ b[9] = s[9]
  BY <1>1 DEF IsValidImeiBlock, CheckBytes
<1>3. \A n \in 0 .. 9 : b[n] \in NibblePair /\ s[n] \in NibblePair
  BY DEF ImeiBytes
<1>4. \A n \in 0 .. 4 : n # Column(d) => b[n] = s[n] /\ b[n + 5] = s[n + 5]
  BY DEF IsNear, Nowhere
<1>5. /\ Column(d) # 0 => b[0] = s[0] /\ b[5] = s[5]
      /\ Column(d) # 1 => b[1] = s[1] /\ b[6] = s[6]
      /\ Column(d) # 2 => b[2] = s[2] /\ b[7] = s[7]
      /\ Column(d) # 3 => b[3] = s[3]
      /\ Column(d) # 4 => b[4] = s[4]
  <2>1. /\ Column(d) # 0 => b[0] = s[0] /\ b[0 + 5] = s[0 + 5]
        /\ Column(d) # 1 => b[1] = s[1] /\ b[1 + 5] = s[1 + 5]
        /\ Column(d) # 2 => b[2] = s[2] /\ b[2 + 5] = s[2 + 5]
        /\ Column(d) # 3 => b[3] = s[3]
        /\ Column(d) # 4 => b[4] = s[4]
    BY <1>4
  <2> QED BY <2>1
<1>6. b[0] = s[0] /\ b[2] = s[2] /\ b[4] = s[4] /\ b[6] = s[6]
  <2>1. XorPair(XorPair(b[0], b[2]), XorPair(b[4], b[6]))
            = XorPair(XorPair(s[0], s[2]), XorPair(s[4], s[6]))
    BY <1>1 DEF XorEven
  <2>2. /\ b[0] \in NibblePair /\ b[2] \in NibblePair /\ b[4] \in NibblePair /\ b[6] \in NibblePair
        /\ s[0] \in NibblePair /\ s[2] \in NibblePair /\ s[4] \in NibblePair /\ s[6] \in NibblePair
    BY <1>3
  <2>3. \/ b[0] = s[0] /\ b[2] = s[2] /\ b[4] = s[4]
        \/ b[0] = s[0] /\ b[2] = s[2] /\ b[6] = s[6]
        \/ b[0] = s[0] /\ b[4] = s[4] /\ b[6] = s[6]
        \/ b[2] = s[2] /\ b[4] = s[4] /\ b[6] = s[6]
    BY <1>5
  <2>4. /\ XorPair(b[0], b[2]) \in NibblePair /\ XorPair(b[4], b[6]) \in NibblePair
        /\ XorPair(s[0], s[2]) \in NibblePair /\ XorPair(s[4], s[6]) \in NibblePair
    BY <2>2, SumTells
  <2>5. /\ b[0] = s[0] /\ b[2] = s[2] => XorPair(b[4], b[6]) = XorPair(s[4], s[6])
        /\ b[4] = s[4] /\ b[6] = s[6] => XorPair(b[0], b[2]) = XorPair(s[0], s[2])
    BY <2>1, <2>4, SumTells
  <2>6. /\ b[0] = s[0] /\ XorPair(b[0], b[2]) = XorPair(s[0], s[2]) => b[2] = s[2]
        /\ b[2] = s[2] /\ XorPair(b[0], b[2]) = XorPair(s[0], s[2]) => b[0] = s[0]
        /\ b[4] = s[4] /\ XorPair(b[4], b[6]) = XorPair(s[4], s[6]) => b[6] = s[6]
        /\ b[6] = s[6] /\ XorPair(b[4], b[6]) = XorPair(s[4], s[6]) => b[4] = s[4]
    BY <2>2, SumTells
  <2> QED BY <2>3, <2>5, <2>6
<1>7. b[1] = s[1] /\ b[3] = s[3] /\ b[5] = s[5] /\ b[7] = s[7]
  <2>1. XorPair(XorPair(b[1], b[3]), XorPair(b[5], b[7]))
            = XorPair(XorPair(s[1], s[3]), XorPair(s[5], s[7]))
    BY <1>1 DEF XorOdd
  <2>2. /\ b[1] \in NibblePair /\ b[3] \in NibblePair /\ b[5] \in NibblePair /\ b[7] \in NibblePair
        /\ s[1] \in NibblePair /\ s[3] \in NibblePair /\ s[5] \in NibblePair /\ s[7] \in NibblePair
    BY <1>3
  <2>3. \/ b[1] = s[1] /\ b[3] = s[3] /\ b[5] = s[5]
        \/ b[1] = s[1] /\ b[3] = s[3] /\ b[7] = s[7]
        \/ b[1] = s[1] /\ b[5] = s[5] /\ b[7] = s[7]
        \/ b[3] = s[3] /\ b[5] = s[5] /\ b[7] = s[7]
    BY <1>5
  <2>4. /\ XorPair(b[1], b[3]) \in NibblePair /\ XorPair(b[5], b[7]) \in NibblePair
        /\ XorPair(s[1], s[3]) \in NibblePair /\ XorPair(s[5], s[7]) \in NibblePair
    BY <2>2, SumTells
  <2>5. /\ b[1] = s[1] /\ b[3] = s[3] => XorPair(b[5], b[7]) = XorPair(s[5], s[7])
        /\ b[5] = s[5] /\ b[7] = s[7] => XorPair(b[1], b[3]) = XorPair(s[1], s[3])
    BY <2>1, <2>4, SumTells
  <2>6. /\ b[1] = s[1] /\ XorPair(b[1], b[3]) = XorPair(s[1], s[3]) => b[3] = s[3]
        /\ b[3] = s[3] /\ XorPair(b[1], b[3]) = XorPair(s[1], s[3]) => b[1] = s[1]
        /\ b[5] = s[5] /\ XorPair(b[5], b[7]) = XorPair(s[5], s[7]) => b[7] = s[7]
        /\ b[7] = s[7] /\ XorPair(b[5], b[7]) = XorPair(s[5], s[7]) => b[5] = s[5]
    BY <2>2, SumTells
  <2> QED BY <2>3, <2>5, <2>6
<1>8. \A n \in 0 .. 9 : b[n] = s[n]
  <2>1. \A n \in 0 .. 9 : n \in {0, 1, 2, 3, 4, 5, 6, 7, 8, 9}
    OBVIOUS
  <2> QED BY <1>2, <1>6, <1>7, <2>1
<1>9. b = s
  BY <1>8 DEF ImeiBytes
<1> QED BY <1>9 DEF IsNear, Nowhere

-----------------------------------------------------------------------------
\* During encryption the block is at a stage, in the flash and during decryption
\* it is near one.
BlockIsNearStage ==
    /\ step \in {"build", "encrypt"} => damaged = Nowhere
    /\ step = "encrypt" =>
           \E k \in 0 .. 4 : round = Base(fullBlock) + 2 * k /\ block = Stage(imei, fullBlock, k)
    /\ step = "stored" => IsNear(block, Stage(imei, fullBlock, 4), damaged)
    /\ step = "decrypt" =>
           \E k \in 0 .. 4 : /\ round = Base(fullBlock) + 2 * k - 2
                             /\ IsNear(block, Stage(imei, fullBlock, k), damaged)

IInv ==
    /\ ImeiTypeOK
    /\ BlockIsNearStage
    /\ ImeiReadsBack
    /\ DamageIsNoticed

\* Digits that pass the checks are an IMEI.
LEMMA DigitsOfValid ==
    ASSUME NEW b \in ImeiBytes, NEW full \in BOOLEAN, IsValidImeiBlock(b, full)
    PROVE  DigitsOf(b) \in Digits
<1>1. \A n \in 0 .. 6 : b[n].lo \in 0 .. 9 /\ b[n].hi \in 0 .. 9
  <2> TAKE n \in 0 .. 6
  <2>1. b[n].lo \in Nibble /\ b[n].hi \in Nibble
    BY DEF ImeiBytes, NibblePair
  <2>2. b[n].lo <= 9 /\ b[n].hi <= 9
    BY DEF IsValidImeiBlock
  <2> QED BY <2>1, <2>2 DEF Nibble
<1>2. \A d \in 0 .. 13 : d \div 2 \in 0 .. 6
  OBVIOUS
<1> QED BY <1>1, <1>2 DEF DigitsOf, Digits

\* The invariant holds at the start.
LEMMA ImeiInitInv ==
    ImeiInit => IInv
<1> SUFFICES ASSUME ImeiInit PROVE IInv
  OBVIOUS
<1>1. Zero \in NibblePair
  BY DEF Zero, NibblePair, Nibble
<1>2. ImeiTypeOK
  BY <1>1 DEF ImeiInit, ImeiTypeOK, ImeiBytes, Nowhere
<1> QED BY <1>2 DEF ImeiInit, IInv, BlockIsNearStage, ImeiReadsBack, DamageIsNoticed

\* Building and each round of encryption lead to the next stage.
LEMMA WriteKeepsInv ==
    ASSUME IInv, WriteImei
    PROVE  IInv'
<1>0. imei \in Digits /\ fullBlock \in BOOLEAN /\ block \in ImeiBytes /\ round \in -2 .. 9
  BY ImeiAssumption DEF IInv, ImeiTypeOK
<1>1. CASE Build
  <2>1. Built(imei, fullBlock) \in ImeiBytes
    BY <1>0, BuiltIsValid
  <2>2. ImeiTypeOK'
    BY <1>1, <2>1 DEF Build, IInv, ImeiTypeOK
  <2>3. round' = Base(fullBlock)' + 2 * 0 /\ block' = Stage(imei, fullBlock, 0)'
    BY <1>1 DEF Build, Base, Stage
  <2>4. BlockIsNearStage'
    BY <1>1, <2>3 DEF Build, IInv, BlockIsNearStage
  <2> QED BY <1>1, <2>2, <2>4 DEF Build, IInv, ImeiReadsBack, DamageIsNoticed
<1>2. CASE EncryptRound
  <2>1. PICK k \in 0 .. 4 : round = Base(fullBlock) + 2 * k /\ block = Stage(imei, fullBlock, k)
    BY <1>2 DEF EncryptRound, IInv, BlockIsNearStage
  <2>2. k \in 0 .. 3
    BY <1>2, <2>1 DEF EncryptRound, Base
  <2>3. /\ block' = Stage(imei, fullBlock, k + 1) /\ block' \in ImeiBytes
        /\ round \in 0 .. 7
    BY <1>0, <1>2, <2>1, <2>2, StagesLead DEF EncryptRound
  <2>4. round' = Base(fullBlock) + 2 * (k + 1)
    BY <1>0, <1>2, <2>1 DEF EncryptRound, Base
  <2>5. ImeiTypeOK'
    BY <1>2, <2>3 DEF EncryptRound, IInv, ImeiTypeOK
  <2>6. imei' = imei /\ fullBlock' = fullBlock /\ damaged' = damaged /\ step' = step
    BY <1>2 DEF EncryptRound
  <2>7. BlockIsNearStage'
    <3>1. k + 1 \in 0 .. 4
      BY <2>2
    <3>2. /\ Base(fullBlock)' = Base(fullBlock)
          /\ Stage(imei, fullBlock, k + 1)' = Stage(imei, fullBlock, k + 1)
      BY <2>6
    <3> QED BY <1>2, <2>3, <2>4, <2>6, <3>1, <3>2 DEF EncryptRound, IInv, BlockIsNearStage
  <2> QED BY <1>2, <2>5, <2>7 DEF EncryptRound, IInv, ImeiReadsBack, DamageIsNoticed
<1>3. CASE Store
  <2>1. PICK k \in 0 .. 4 : round = Base(fullBlock) + 2 * k /\ block = Stage(imei, fullBlock, k)
    BY <1>3 DEF Store, IInv, BlockIsNearStage
  <2>2. k = 4
    BY <1>3, <2>1 DEF Store, Base
  <2>3. IsNear(block, Stage(imei, fullBlock, 4), damaged)
    BY <1>3, <2>1, <2>2 DEF Store, IInv, BlockIsNearStage, IsNear
  <2>4. BlockIsNearStage'
    BY <1>3, <2>3 DEF Store, IInv, BlockIsNearStage
  <2>5. ImeiTypeOK'
    BY <1>3 DEF Store, IInv, ImeiTypeOK
  <2> QED BY <1>3, <2>4, <2>5 DEF Store, IInv, ImeiReadsBack, DamageIsNoticed
<1> QED BY <1>1, <1>2, <1>3 DEF WriteImei

\* A bad byte leaves the other columns as they were.
LEMMA DamageKeepsInv ==
    ASSUME IInv, NEW n \in 0 .. 9, NEW value \in NibblePair, Damage(n, value)
    PROVE  IInv'
<1>0. block \in ImeiBytes
  BY DEF IInv, ImeiTypeOK
<1>1. block' \in ImeiBytes /\ block'[n] # block[n]
  BY <1>0 DEF Damage, ImeiBytes
<1>2. ImeiTypeOK'
  BY <1>1 DEF Damage, IInv, ImeiTypeOK, Nowhere
<1>3. block = Stage(imei, fullBlock, 4)
  BY DEF Damage, IInv, BlockIsNearStage, IsNear
<1>4. \A m \in 0 .. 4 : m # Column(n) => block'[m] = block[m] /\ block'[m + 5] = block[m + 5]
  <2> TAKE m \in 0 .. 4
  <2> HAVE m # Column(n)
  <2>1. m # n /\ m + 5 # n /\ m \in 0 .. 9 /\ m + 5 \in 0 .. 9
    BY DEF Column
  <2> QED BY <1>0, <2>1 DEF Damage, ImeiBytes
<1>5. IsNear(block', block, n)
  BY <1>1, <1>4 DEF IsNear, Nowhere
<1>6. BlockIsNearStage'
  BY <1>3, <1>5 DEF Damage, BlockIsNearStage, Nowhere
<1> QED BY <1>2, <1>6 DEF Damage, IInv, ImeiReadsBack, DamageIsNoticed

\* Decryption leads back to the block that was built, or near it, and the checks
\* tell which.
LEMMA ReadKeepsInv ==
    ASSUME IInv, ReadImei
    PROVE  IInv'
<1>0. /\ imei \in Digits /\ fullBlock \in BOOLEAN /\ block \in ImeiBytes /\ round \in -2 .. 9
      /\ damaged \in Nowhere .. 9
  BY ImeiAssumption DEF IInv, ImeiTypeOK
<1>1. CASE Open
  <2>1. round' = Base(fullBlock) + 2 * 4 - 2
    BY <1>1 DEF Open, Base
  <2>2. IsNear(block, Stage(imei, fullBlock, 4), damaged)
    BY <1>1 DEF Open, IInv, BlockIsNearStage
  <2>3. ImeiTypeOK'
    BY <1>1 DEF Open, IInv, ImeiTypeOK
  <2>4. BlockIsNearStage'
    <3>1. 4 \in 0 .. 4
      OBVIOUS
    <3>2. Base(fullBlock)' = Base(fullBlock) /\ step' = "decrypt"
          /\ IsNear(block, Stage(imei, fullBlock, 4), damaged)'
      BY <1>1, <2>2 DEF Open
    <3> QED BY <2>1, <3>1, <3>2 DEF BlockIsNearStage
  <2> QED BY <1>1, <2>3, <2>4 DEF Open, IInv, ImeiReadsBack, DamageIsNoticed
<1>2. CASE DecryptRound
  <2>1. PICK k \in 0 .. 4 : /\ round = Base(fullBlock) + 2 * k - 2
                            /\ IsNear(block, Stage(imei, fullBlock, k), damaged)
    BY <1>2 DEF DecryptRound, IInv, BlockIsNearStage
  <2>2. k - 1 \in 0 .. 3 /\ (k - 1) + 1 = k /\ round = Base(fullBlock) + 2 * (k - 1)
        /\ round \in 0 .. 7 /\ round' = Base(fullBlock) + 2 * (k - 1) - 2
    BY <1>0, <1>2, <2>1 DEF DecryptRound, Base
  <2>3. /\ Stage(imei, fullBlock, k) \in ImeiBytes
        /\ Decrypted(Stage(imei, fullBlock, k), round) = Stage(imei, fullBlock, k - 1)
    BY <1>0, <2>2, StagesLead
  <2>4. block' = Decrypted(block, round) /\ block' \in ImeiBytes
    BY <1>0, <1>2, <2>2, RoundsInvert DEF DecryptRound
  <2>5. IsNear(block', Stage(imei, fullBlock, k - 1), damaged)
    BY <1>0, <2>1, <2>2, <2>3, <2>4, NearStaysNear
  <2>6. ImeiTypeOK'
    BY <1>2, <2>2, <2>4 DEF DecryptRound, IInv, ImeiTypeOK
  <2>7. imei' = imei /\ fullBlock' = fullBlock /\ damaged' = damaged /\ step' = step
        /\ step = "decrypt"
    BY <1>2 DEF DecryptRound
  <2>8. BlockIsNearStage'
    <3>1. /\ Base(fullBlock)' = Base(fullBlock)
          /\ Stage(imei, fullBlock, k - 1)' = Stage(imei, fullBlock, k - 1)
          /\ k - 1 \in 0 .. 4
      BY <2>2, <2>7
    <3> QED BY <2>2, <2>5, <2>7, <3>1 DEF BlockIsNearStage
  <2> QED BY <1>2, <2>6, <2>8 DEF DecryptRound, IInv, ImeiReadsBack, DamageIsNoticed
<1>3. CASE Decode
  <2>1. PICK k \in 0 .. 4 : /\ round = Base(fullBlock) + 2 * k - 2
                            /\ IsNear(block, Stage(imei, fullBlock, k), damaged)
    BY <1>3 DEF Decode, IInv, BlockIsNearStage
  <2>2. k = 0
    BY <1>3, <2>1 DEF Decode, Base
  <2>3. IsNear(block, Built(imei, fullBlock), damaged)
    BY <2>1, <2>2 DEF Stage
  <2>4. /\ Built(imei, fullBlock) \in ImeiBytes
        /\ IsValidImeiBlock(Built(imei, fullBlock), fullBlock)
        /\ DigitsOf(Built(imei, fullBlock)) = imei
    BY <1>0, BuiltIsValid
  <2>5. ImeiTypeOK'
    <3>1. read' \in Digits \cup {NoImei}
      BY <1>0, <1>3, DigitsOfValid DEF Decode
    <3> QED BY <1>3, <3>1 DEF Decode, IInv, ImeiTypeOK
  <2>6. ImeiReadsBack'
    <3>1. damaged = Nowhere => block = Built(imei, fullBlock)
      BY <2>3 DEF IsNear
    <3> QED BY <1>3, <2>4, <3>1 DEF Decode, ImeiReadsBack
  <2>7. DamageIsNoticed'
    <3>1. damaged # Nowhere => damaged \in 0 .. 9
      BY <1>0 DEF Nowhere
    <3>2. damaged # Nowhere /\ (fullBlock => damaged \notin {4, 9}) =>
              ~IsValidImeiBlock(block, fullBlock)
      BY <1>0, <2>3, <2>4, <3>1, BadByteIsRefused
    <3> QED BY <1>3, <3>2 DEF Decode, DamageIsNoticed
  <2>8. BlockIsNearStage'
    BY <1>3 DEF Decode, BlockIsNearStage
  <2> QED BY <2>5, <2>6, <2>7, <2>8 DEF IInv
<1> QED BY <1>1, <1>2, <1>3 DEF ReadImei

\* Every step keeps the invariant.
LEMMA ImeiStepInv ==
    IInv /\ [ImeiNext]_imeiVars => IInv'
<1> SUFFICES ASSUME IInv, [ImeiNext]_imeiVars PROVE IInv'
  OBVIOUS
<1>1. CASE WriteImei
  BY <1>1, WriteKeepsInv
<1>2. ASSUME NEW n \in 0 .. 9, NEW value \in NibblePair, Damage(n, value) PROVE IInv'
  BY <1>2, DamageKeepsInv
<1>3. CASE ReadImei
  BY <1>3, ReadKeepsInv
<1>4. CASE UNCHANGED imeiVars
  BY <1>4 DEF imeiVars, IInv, ImeiTypeOK, BlockIsNearStage, ImeiReadsBack, DamageIsNoticed
<1> QED BY <1>1, <1>2, <1>3, <1>4 DEF ImeiNext

\* For every IMEI and both variants of the block, reading gives back what was
\* written, and a bad byte is refused.
THEOREM ImeiInvariant ==
    ImeiSpec => []IInv
  BY ImeiInitInv, ImeiStepInv, PTL DEF ImeiSpec

-----------------------------------------------------------------------------
(* StreamCipher: the blocks under a key.                                   *)

\* % ByteCount gives a byte.
LEMMA ByteOf ==
    \A x \in Nat : x % ByteCount \in Byte
<1> TAKE x \in Nat
<1>1. ByteCount \in Nat /\ ByteCount > 0
  BY StreamAssumption
<1> QED BY <1>1, Z3 DEF Byte

\* A turn of the key schedule leads from cipher state to cipher state.
LEMMA ScheduleType ==
    ASSUME NEW state \in CipherState, NEW k \in Key, NEW n \in Byte
    PROVE  Schedule(state, k, n) \in CipherState
<1>1. n % KeyLength \in 0 .. KeyLength - 1
  <2>1. n \in Nat /\ KeyLength \in Nat /\ KeyLength > 0
    BY StreamAssumption DEF Byte
  <2> QED BY <2>1, Z3
<1>2. state.schedule \in Nat /\ k[n % KeyLength] \in Nat /\ state.box[n] \in Nat
  <2>1. state.schedule \in Byte /\ k[n % KeyLength] \in Byte /\ state.box[n] \in Byte
    BY <1>1 DEF CipherState, Key
  <2> QED BY <2>1, StreamAssumption DEF Byte
<1> DEFINE at == (state.schedule + k[n % KeyLength] + state.box[n]) % ByteCount
<1>3. at \in Byte
  BY <1>2, ByteOf
<1>4. Schedule(state, k, n) = [state EXCEPT !.box = Swap(@, n, at), !.schedule = at]
  BY DEF Schedule
<1> HIDE DEF at
<1>5. Swap(state.box, n, at) \in [Byte -> Byte]
  BY <1>3 DEF Swap, CipherState
<1> QED BY <1>3, <1>4, <1>5 DEF CipherState

\* So does a turn of the generator, and its pad is a byte.
LEMMA TurnType ==
    ASSUME NEW state \in CipherState, NEW cipherByte \in Byte
    PROVE  Advance(state, cipherByte) \in CipherState /\ Pad(state) \in Byte
<1>0. \A x \in Byte : x \in Nat
  BY StreamAssumption DEF Byte
<1> DEFINE i == (state.i + 1) % ByteCount
           previous == (state.previous + state.box[i]) % ByteCount
           j == (state.j + previous) % ByteCount
           box == [[state.box EXCEPT ![i] = state.box[j]] EXCEPT ![j] = previous]
           turned == [state EXCEPT !.i = i, !.j = j, !.previous = previous, !.box = box]
<1>1. state.i \in Byte /\ state.j \in Byte /\ state.previous \in Byte /\ state.box \in [Byte -> Byte]
  BY DEF CipherState
<1>2. i \in Byte
  BY <1>0, <1>1, ByteOf
<1>3. previous \in Byte
  BY <1>0, <1>1, <1>2, ByteOf
<1>4. j \in Byte
  BY <1>0, <1>1, <1>3, ByteOf
<1>5. Turn(state) = turned
  BY DEF Turn
<1> HIDE DEF i, previous, j
<1>6. box \in [Byte -> Byte]
  BY <1>1, <1>2, <1>3, <1>4
<1>7. turned \in CipherState /\ turned.j = j /\ turned.previous = previous /\ turned.box = box
  BY <1>2, <1>3, <1>4, <1>6 DEF CipherState
<1> HIDE DEF box, turned
<1>8. Advance(state, cipherByte) \in CipherState
  BY <1>5, <1>7 DEF Advance, CipherState
<1>9. Pad(state) \in Byte
  <2>1. (state.box[j] + previous) % ByteCount \in Byte
    BY <1>0, <1>1, <1>3, <1>4, ByteOf
  <2>2. Pad(state) = box[(state.box[j] + previous) % ByteCount]
    BY <1>5, <1>7 DEF Pad
  <2> QED BY <2>1, <2>2, <1>6
<1> QED BY <1>8, <1>9

-----------------------------------------------------------------------------
\* The states that n turns of the key schedule go through.
ScheduleTrail(sched, n) ==
    /\ sched \in [0 .. ByteCount -> CipherState]
    /\ sched[0] = FreshState
    /\ \A m \in 0 .. n - 1 : sched[m + 1] = Schedule(sched[m], key, m)

\* Those that the encryption of n bytes goes through.
EncryptTrail(gen, n) ==
    /\ gen \in [0 .. Length -> CipherState]
    /\ \A m \in 0 .. n - 1 : /\ stored[m] = Xor(Pad(gen[m]), plain[m])
                             /\ gen[m + 1] = Advance(gen[m], stored[m])

Trails(sched, gen, n) ==
    /\ ScheduleTrail(sched, ByteCount)
    /\ gen[0] = sched[ByteCount]
    /\ EncryptTrail(gen, n)

\* A reader with the key of the block is where the trails are.
ScheduleBatchInv(sched) ==
    /\ index <= ByteCount
    /\ \A l \in Lane : copies[l] = stored /\ (keys[l] = key => readers[l] = sched[index])

DecryptBatchInv(gen) ==
    /\ index <= Length
    /\ \A l \in Lane :
           /\ \A m \in index .. Length - 1 : copies[l][m] = stored[m]
           /\ keys[l] = key => /\ readers[l] = gen[index]
                               /\ \A m \in 0 .. index - 1 : copies[l][m] = plain[m]

ScheduleInv ==
    pc = "schedule" =>
        /\ index <= ByteCount
        /\ stored = plain
        /\ \E sched : ScheduleTrail(sched, index) /\ sched[index] = writer

EncryptInv ==
    pc = "encrypt" =>
        /\ index <= Length
        /\ \A m \in index .. Length - 1 : stored[m] = plain[m]
        /\ \E sched, gen : Trails(sched, gen, index) /\ gen[index] = writer

StoredInv ==
    pc \in {"stored", "schedule batch", "decrypt batch"} =>
        \E sched, gen : /\ Trails(sched, gen, Length)
                        /\ pc = "schedule batch" => ScheduleBatchInv(sched)
                        /\ pc = "decrypt batch" => DecryptBatchInv(gen)

TrailInv ==
    /\ StreamTypeOK
    /\ ScheduleInv
    /\ EncryptInv
    /\ StoredInv
    /\ RightLaneReads

\* The cipher starts from a cipher state.
LEMMA FreshType ==
    FreshState \in CipherState
<1>1. 0 \in Byte
  BY StreamAssumption DEF Byte
<1> QED BY <1>1 DEF FreshState, CipherState

\* What the steps leave alone.
LEMMA Domains ==
    StreamTypeOK =>
        /\ ByteCount \in Nat /\ Length \in Nat /\ index \in Nat
        /\ plain \in StreamBlock /\ stored \in StreamBlock /\ key \in Key
        /\ \A l \in Lane : keys[l] \in Key /\ copies[l] \in StreamBlock
        /\ \A n \in 0 .. ByteCount - 1 : n \in Byte
<1> SUFFICES ASSUME StreamTypeOK
             PROVE  /\ ByteCount \in Nat /\ Length \in Nat /\ index \in Nat
                    /\ plain \in StreamBlock /\ stored \in StreamBlock /\ key \in Key
                    /\ \A l \in Lane : keys[l] \in Key /\ copies[l] \in StreamBlock
                    /\ \A n \in 0 .. ByteCount - 1 : n \in Byte
  OBVIOUS
<1>1. ByteCount \in Nat /\ Length \in Nat /\ \A n \in 0 .. ByteCount - 1 : n \in Byte
  BY StreamAssumption DEF Byte
<1>2. index \in Nat
  <2>1. index \in (0 .. ByteCount) \cup (0 .. Length)
    BY DEF StreamTypeOK
  <2> QED BY <1>1, <2>1
<1>3. plain \in StreamBlock /\ stored \in StreamBlock /\ key \in Key
  BY StreamAssumption DEF StreamTypeOK
<1>4. \A l \in Lane : keys[l] \in Key /\ copies[l] \in StreamBlock
  BY StreamAssumption DEF StreamTypeOK
<1> QED BY <1>1, <1>2, <1>3, <1>4

\* The invariant holds at the start.
LEMMA StreamInitInv ==
    StreamInit => TrailInv
<1> SUFFICES ASSUME StreamInit PROVE TrailInv
  OBVIOUS
<1>1. StreamTypeOK
  <2>1. 0 \in (0 .. ByteCount) \cup (0 .. Length)
    BY StreamAssumption
  <2>2. plain \in StreamBlock
    BY StreamAssumption DEF StreamInit
  <2> QED BY <2>1, <2>2, FreshType DEF StreamInit, StreamTypeOK
<1>2. ScheduleInv
  <2> DEFINE sched == [m \in 0 .. ByteCount |-> FreshState]
  <2>1. ByteCount \in Nat
    BY StreamAssumption
  <2>2. ScheduleTrail(sched, 0) /\ sched[0] = FreshState
    BY <2>1, FreshType DEF ScheduleTrail
  <2>3. \E t : ScheduleTrail(t, 0) /\ t[0] = FreshState
    BY <2>2
  <2> QED BY <2>1, <2>3 DEF StreamInit, ScheduleInv
<1> QED BY <1>1, <1>2 DEF StreamInit, TrailInv, EncryptInv, StoredInv, RightLaneReads

\* The key schedule of recalculation extends the first trail.
LEMMA EncryptScheduleKeepsInv ==
    ASSUME TrailInv, EncryptSchedule
    PROVE  TrailInv'
<1>0. /\ ByteCount \in Nat /\ Length \in Nat /\ index \in Nat /\ key \in Key
      /\ writer \in CipherState
      /\ \A n \in 0 .. ByteCount - 1 : n \in Byte
  BY Domains DEF TrailInv, StreamTypeOK
<1>1. PICK sched : ScheduleTrail(sched, index) /\ sched[index] = writer
  BY DEF EncryptSchedule, TrailInv, ScheduleInv
<1>2. index <= ByteCount /\ stored = plain
  BY DEF EncryptSchedule, TrailInv, ScheduleInv
<1>3. CASE index < ByteCount
  <2>1. writer' \in CipherState
    BY <1>0, <1>3, ScheduleType DEF EncryptSchedule
  <2>2. StreamTypeOK'
    <3>1. index' \in (0 .. ByteCount) \cup (0 .. Length)
      BY <1>0, <1>3 DEF EncryptSchedule
    <3> QED BY <1>3, <2>1, <3>1 DEF EncryptSchedule, TrailInv, StreamTypeOK
  <2> PICK next : next = [sched EXCEPT ![index + 1] = writer']
    OBVIOUS
  <2>3. ScheduleTrail(next, index + 1) /\ next[index + 1] = writer'
    <3>1. next \in [0 .. ByteCount -> CipherState] /\ next[index + 1] = writer'
      BY <1>0, <1>1, <1>3, <2>1 DEF ScheduleTrail
    <3>2. \A m \in 0 .. index : next[m] = sched[m]
      BY <1>0, <1>1, <1>3 DEF ScheduleTrail
    <3>3. \A m \in 0 .. index : next[m + 1] = Schedule(next[m], key, m)
      <4> TAKE m \in 0 .. index
      <4>1. CASE m = index
        BY <1>1, <1>3, <3>1, <3>2, <4>1 DEF EncryptSchedule
      <4>2. CASE m # index
        <5>1. m \in 0 .. index - 1 /\ m + 1 \in 0 .. index
          BY <1>0, <4>2
        <5> QED BY <1>1, <3>2, <5>1 DEF ScheduleTrail
      <4> QED BY <4>1, <4>2
    <3>4. (index + 1) - 1 = index /\ 0 \in 0 .. index
      BY <1>0
    <3> QED BY <1>1, <3>1, <3>2, <3>3, <3>4 DEF ScheduleTrail
  <2>4. ScheduleTrail(next, index)' /\ next[index'] = writer'
    BY <1>3, <2>3 DEF EncryptSchedule, ScheduleTrail
  <2>5. ScheduleInv'
    <3>1. index' <= ByteCount /\ stored' = plain'
      BY <1>0, <1>2, <1>3 DEF EncryptSchedule
    <3> QED BY <2>4, <3>1 DEF ScheduleInv
  <2> QED BY <1>3, <2>2, <2>5
          DEF EncryptSchedule, TrailInv, EncryptInv, StoredInv, RightLaneReads
<1>4. CASE ~(index < ByteCount)
  <2>1. index = ByteCount
    BY <1>0, <1>2, <1>4
  <2>2. StreamTypeOK'
    <3>1. index' \in (0 .. ByteCount) \cup (0 .. Length)
      BY <1>0, <1>4 DEF EncryptSchedule
    <3> QED BY <1>4, <3>1 DEF EncryptSchedule, TrailInv, StreamTypeOK
  <2> PICK gen : gen = [m \in 0 .. Length |-> writer]
    OBVIOUS
  <2>3. /\ ScheduleTrail(sched, ByteCount)' /\ EncryptTrail(gen, 0)'
        /\ gen[0] = sched[ByteCount] /\ gen[0] = writer
    BY <1>0, <1>1, <1>4, <2>1 DEF EncryptSchedule, ScheduleTrail, EncryptTrail
  <2>4. Trails(sched, gen, 0)' /\ gen[0] = writer
    BY <2>3 DEF Trails
  <2>5. EncryptInv'
    BY <1>0, <1>2, <1>4, <2>4 DEF EncryptSchedule, EncryptInv
  <2> QED BY <1>4, <2>2, <2>5
          DEF EncryptSchedule, TrailInv, ScheduleInv, StoredInv, RightLaneReads
<1> QED BY <1>3, <1>4

\* Encryption extends the second one.
LEMMA EncryptKeepsInv ==
    ASSUME TrailInv, Encrypt
    PROVE  TrailInv'
<1>0. /\ ByteCount \in Nat /\ Length \in Nat /\ index \in Nat
      /\ writer \in CipherState /\ stored \in StreamBlock /\ plain \in StreamBlock
  BY Domains DEF TrailInv, StreamTypeOK
<1>1. PICK sched, gen : Trails(sched, gen, index) /\ gen[index] = writer
  BY DEF Encrypt, TrailInv, EncryptInv
<1>2. index <= Length /\ \A m \in index .. Length - 1 : stored[m] = plain[m]
  BY DEF Encrypt, TrailInv, EncryptInv
<1>3. CASE index < Length
  <2> DEFINE cipherByte == Xor(Pad(writer), stored[index])
  <2>1. index \in 0 .. Length - 1 /\ stored[index] \in Byte
    BY <1>0, <1>3 DEF StreamBlock
  <2>2. Pad(writer) \in Byte
    BY <1>0, <2>1, TurnType
  <2>3. cipherByte \in Byte
    BY <2>1, <2>2, CancelAssumption
  <2> HIDE DEF cipherByte
  <2>4. /\ stored' = [stored EXCEPT ![index] = cipherByte]
        /\ writer' = Advance(writer, cipherByte)
        /\ index' = index + 1
        /\ pc' = "encrypt"
        /\ UNCHANGED <<plain, key, keys, copies, readers>>
    BY <1>3 DEF Encrypt, cipherByte
  <2>5. writer' \in CipherState /\ stored' \in StreamBlock
    BY <1>0, <2>1, <2>3, <2>4, TurnType DEF StreamBlock
  <2>6. StreamTypeOK'
    <3>1. index' \in (0 .. ByteCount) \cup (0 .. Length)
      BY <1>0, <1>3, <2>4
    <3> QED BY <2>4, <2>5, <3>1 DEF TrailInv, StreamTypeOK
  <2>7. /\ \A m \in 0 .. index - 1 : stored'[m] = stored[m]
        /\ \A m \in index + 1 .. Length - 1 : stored'[m] = stored[m]
        /\ stored'[index] = cipherByte
    BY <1>0, <2>1, <2>4 DEF StreamBlock
  <2> PICK next : next = [gen EXCEPT ![index + 1] = writer']
    OBVIOUS
  <2>8. /\ next \in [0 .. Length -> CipherState] /\ next[index + 1] = writer'
        /\ \A m \in 0 .. index : next[m] = gen[m]
    BY <1>0, <1>1, <1>3, <2>5 DEF Trails, EncryptTrail
  <2>9. \A m \in 0 .. index : /\ stored'[m] = Xor(Pad(next[m]), plain[m])
                              /\ next[m + 1] = Advance(next[m], stored'[m])
    <3> TAKE m \in 0 .. index
    <3>1. CASE m = index
      <4>1. next[m] = writer /\ stored[index] = plain[index]
        BY <1>0, <1>1, <1>2, <2>1, <2>8, <3>1
      <4> QED BY <2>4, <2>7, <2>8, <3>1, <4>1 DEF cipherByte
    <3>2. CASE m # index
      <4>1. m \in 0 .. index - 1 /\ m + 1 \in 0 .. index
        BY <1>0, <3>2
      <4> QED BY <1>1, <2>7, <2>8, <4>1 DEF Trails, EncryptTrail
    <3> QED BY <3>1, <3>2
  <2>10. Trails(sched, next, index)' /\ next[index'] = writer'
    <3>1. (index + 1) - 1 = index /\ 0 \in 0 .. index
      BY <1>0
    <3>2. next[0] = sched[ByteCount] /\ ScheduleTrail(sched, ByteCount)'
      BY <1>1, <2>4, <2>8, <3>1 DEF Trails, ScheduleTrail
    <3>3. EncryptTrail(next, index)'
      BY <2>4, <2>8, <2>9, <3>1 DEF EncryptTrail
    <3> QED BY <2>4, <2>8, <3>2, <3>3 DEF Trails
  <2>11. EncryptInv'
    <3>1. index' <= Length /\ \A m \in index' .. Length - 1 : stored'[m] = plain'[m]
      BY <1>0, <1>2, <1>3, <2>4, <2>7
    <3> QED BY <2>10, <3>1 DEF EncryptInv
  <2> QED BY <2>4, <2>6, <2>11 DEF TrailInv, ScheduleInv, StoredInv, RightLaneReads
<1>4. CASE ~(index < Length)
  <2>1. index = Length
    BY <1>0, <1>2, <1>4
  <2>2. StreamTypeOK'
    BY <1>4 DEF Encrypt, TrailInv, StreamTypeOK
  <2>3. Trails(sched, gen, Length)'
    BY <1>1, <1>4, <2>1 DEF Encrypt, Trails, ScheduleTrail, EncryptTrail
  <2>4. StoredInv'
    BY <1>4, <2>3 DEF Encrypt, StoredInv
  <2> QED BY <1>4, <2>2, <2>4 DEF Encrypt, TrailInv, ScheduleInv, EncryptInv, RightLaneReads
<1> QED BY <1>3, <1>4

\* A batch starts where the first trail does.
LEMMA StartBatchKeepsInv ==
    ASSUME TrailInv, NEW candidates \in [Lane -> Digest], StartBatch(candidates)
    PROVE  TrailInv'
<1>0. ByteCount \in Nat /\ Length \in Nat /\ stored \in StreamBlock
  BY Domains DEF TrailInv, StreamTypeOK
<1>1. PICK sched, gen : Trails(sched, gen, Length)
  BY DEF StartBatch, TrailInv, StoredInv
<1>2. StreamTypeOK'
  <2>1. index' = 0
    BY DEF StartBatch
  <2>2. index' \in (0 .. ByteCount) \cup (0 .. Length)
    BY <1>0, <2>1
  <2> QED BY <1>0, <2>2, FreshType DEF StartBatch, TrailInv, StreamTypeOK
<1>3. Trails(sched, gen, Length)' /\ ScheduleBatchInv(sched)'
  <2>1. Trails(sched, gen, Length)'
    BY <1>1 DEF StartBatch, Trails, ScheduleTrail, EncryptTrail
  <2>2. index' <= ByteCount
    <3>1. index' = 0
      BY DEF StartBatch
    <3> QED BY <1>0, <3>1
  <2>3. \A l \in Lane : copies'[l] = stored' /\ readers'[l] = sched[index']
    BY <1>1 DEF StartBatch, Trails, ScheduleTrail
  <2> QED BY <2>1, <2>2, <2>3 DEF ScheduleBatchInv
<1>4. StoredInv'
  BY <1>3 DEF StartBatch, StoredInv
<1> QED BY <1>2, <1>4 DEF StartBatch, TrailInv, ScheduleInv, EncryptInv, RightLaneReads

\* The key schedule of a lane with the key of the block follows the first trail.
LEMMA DecryptScheduleKeepsInv ==
    ASSUME TrailInv, DecryptSchedule
    PROVE  TrailInv'
<1>0. /\ readers \in [Lane -> CipherState]
      /\ \A l \in Lane : keys[l] \in Key
      /\ \A n \in 0 .. ByteCount - 1 : n \in Byte
  BY Domains DEF TrailInv, StreamTypeOK
<1>5. ByteCount \in Nat /\ Length \in Nat /\ index \in Nat
  BY Domains DEF TrailInv
<1>1. PICK sched, gen : Trails(sched, gen, Length) /\ ScheduleBatchInv(sched)
  BY DEF DecryptSchedule, TrailInv, StoredInv
<1>2. index <= ByteCount
  BY <1>1 DEF ScheduleBatchInv
<1>3. CASE index < ByteCount
  <2>0. /\ readers' = [l \in Lane |-> Schedule(readers[l], keys[l], index)]
        /\ index' = index + 1 /\ pc' = "schedule batch"
        /\ UNCHANGED <<plain, key, stored, writer, keys, copies>>
    BY <1>3 DEF DecryptSchedule
  <2>1. readers' \in [Lane -> CipherState]
    <3>1. index \in Byte
      BY <1>0, <1>3, <1>5
    <3>2. \A l \in Lane : Schedule(readers[l], keys[l], index) \in CipherState
      BY <1>0, <3>1, ScheduleType
    <3> QED BY <2>0, <3>2
  <2>2. StreamTypeOK'
    <3>1. index' \in (0 .. ByteCount) \cup (0 .. Length)
      <4>1. index' = index + 1
        BY <2>0
      <4> QED BY <1>3, <1>5, <4>1
    <3> QED BY <2>0, <2>1, <3>1 DEF TrailInv, StreamTypeOK
  <2>3. sched[index + 1] = Schedule(sched[index], key, index)
    BY <1>1, <1>3, <1>5 DEF Trails, ScheduleTrail
  <2>4. ScheduleBatchInv(sched)'
    <3>1. \A l \in Lane : /\ copies'[l] = stored'
                          /\ keys'[l] = key' => readers'[l] = sched[index + 1]
      BY <1>1, <2>0, <2>3 DEF ScheduleBatchInv
    <3>2. index' <= ByteCount
      <4>1. index' = index + 1
        BY <2>0
      <4> QED BY <1>3, <1>5, <4>1
    <3> QED BY <2>0, <3>1, <3>2 DEF ScheduleBatchInv
  <2>5. Trails(sched, gen, Length)'
    BY <1>1, <1>3 DEF DecryptSchedule, Trails, ScheduleTrail, EncryptTrail
  <2>6. StoredInv'
    BY <1>3, <2>4, <2>5 DEF DecryptSchedule, StoredInv
  <2> QED BY <1>3, <2>2, <2>6
          DEF DecryptSchedule, TrailInv, ScheduleInv, EncryptInv, RightLaneReads
<1>4. CASE ~(index < ByteCount)
  <2>0. /\ index' = 0 /\ pc' = "decrypt batch"
        /\ UNCHANGED <<plain, key, stored, writer, keys, copies, readers>>
    BY <1>4 DEF DecryptSchedule
  <2>1. index = ByteCount
    BY <1>2, <1>4, <1>5
  <2>2. StreamTypeOK'
    <3>1. index' \in (0 .. ByteCount) \cup (0 .. Length)
      <4>1. index' = 0
        BY <2>0
      <4> QED BY <1>5, <4>1
    <3> QED BY <2>0, <3>1 DEF TrailInv, StreamTypeOK
  <2>3. DecryptBatchInv(gen)'
    <3>1. gen[0] = sched[ByteCount]
      BY <1>1 DEF Trails
    <3>2. \A m \in 0 .. 0 - 1 : FALSE
      OBVIOUS
    <3>3. \A l \in Lane : copies'[l] = stored' /\ (keys'[l] = key' => readers'[l] = gen[index'])
      BY <1>1, <2>0, <2>1, <3>1 DEF ScheduleBatchInv
    <3>4. index' = 0 /\ index' <= Length
      <4>1. index' = 0
        BY <2>0
      <4> QED BY <1>5, <4>1
    <3> QED BY <3>2, <3>3, <3>4 DEF DecryptBatchInv
  <2>4. Trails(sched, gen, Length)'
    BY <1>1, <1>4 DEF DecryptSchedule, Trails, ScheduleTrail, EncryptTrail
  <2>5. StoredInv'
    BY <1>4, <2>3, <2>4 DEF DecryptSchedule, StoredInv
  <2> QED BY <1>4, <2>2, <2>5
          DEF DecryptSchedule, TrailInv, ScheduleInv, EncryptInv, RightLaneReads
<1> QED BY <1>3, <1>4

\* Its decryption follows the second one, each pad taking out what it put in.
LEMMA DecryptKeepsInv ==
    ASSUME TrailInv, Decrypt
    PROVE  TrailInv'
<1>0. /\ readers \in [Lane -> CipherState] /\ copies \in [Lane -> StreamBlock]
      /\ plain \in StreamBlock /\ stored \in StreamBlock
  BY Domains DEF TrailInv, StreamTypeOK
<1>5. ByteCount \in Nat /\ Length \in Nat /\ index \in Nat
  BY Domains DEF TrailInv
<1>1. PICK sched, gen : Trails(sched, gen, Length) /\ DecryptBatchInv(gen)
  BY DEF Decrypt, TrailInv, StoredInv
<1>2. index <= Length
  BY <1>1 DEF DecryptBatchInv
<1>3. CASE index < Length
  <2>1. index \in 0 .. Length - 1 /\ index \in index .. Length - 1
    BY <1>3, <1>5
  <2>2. /\ copies' = [l \in Lane |-> [copies[l] EXCEPT ![index] = Xor(Pad(readers[l]), @)]]
        /\ readers' = [l \in Lane |-> Advance(readers[l], copies[l][index])]
        /\ index' = index + 1 /\ pc' = "decrypt batch"
        /\ UNCHANGED <<plain, key, stored, writer, keys>>
    BY <1>3 DEF Decrypt
  <2>3. \A l \in Lane : /\ copies[l][index] \in Byte
                        /\ Pad(readers[l]) \in Byte
                        /\ Advance(readers[l], copies[l][index]) \in CipherState
    BY <1>0, <2>1, TurnType DEF StreamBlock
  <2>4. \A l \in Lane : Xor(Pad(readers[l]), copies[l][index]) \in Byte
    BY <2>3, CancelAssumption
  <2>5. copies' \in [Lane -> StreamBlock] /\ readers' \in [Lane -> CipherState]
    BY <1>0, <2>1, <2>2, <2>3, <2>4 DEF StreamBlock
  <2>6. StreamTypeOK'
    <3>1. index' \in (0 .. ByteCount) \cup (0 .. Length)
      <4>1. index' = index + 1
        BY <2>2
      <4> QED BY <1>3, <1>5, <4>1
    <3> QED BY <2>2, <2>5, <3>1 DEF TrailInv, StreamTypeOK
  <2>7. \A l \in Lane :
            /\ copies'[l][index] = Xor(Pad(readers[l]), copies[l][index])
            /\ \A m \in 0 .. index - 1 : copies'[l][m] = copies[l][m]
            /\ \A m \in index + 1 .. Length - 1 : copies'[l][m] = copies[l][m]
            /\ copies[l][index] = stored[index]
    <3> TAKE l \in Lane
    <3>1. /\ copies[l] \in [0 .. Length - 1 -> Byte]
          /\ copies'[l] = [copies[l] EXCEPT ![index] = Xor(Pad(readers[l]), @)]
      BY <1>0, <2>2 DEF StreamBlock
    <3>2. copies'[l][index] = Xor(Pad(readers[l]), copies[l][index])
      BY <2>1, <3>1
    <3>3. \A m \in 0 .. Length - 1 : m # index => copies'[l][m] = copies[l][m]
      BY <3>1
    <3>4. /\ \A m \in 0 .. index - 1 : m \in 0 .. Length - 1 /\ m # index
          /\ \A m \in index + 1 .. Length - 1 : m \in 0 .. Length - 1 /\ m # index
      BY <1>3, <1>5
    <3>5. copies[l][index] = stored[index]
      BY <1>1, <2>1 DEF DecryptBatchInv
    <3> QED BY <3>2, <3>3, <3>4, <3>5
  <2>8. ASSUME NEW l \in Lane, keys[l] = key
        PROVE  readers'[l] = gen[index + 1] /\ copies'[l][index] = plain[index]
    <3>1. readers[l] = gen[index] /\ copies[l][index] = stored[index]
      BY <1>1, <2>7, <2>8 DEF DecryptBatchInv
    <3>2. /\ stored[index] = Xor(Pad(gen[index]), plain[index])
          /\ gen[index + 1] = Advance(gen[index], stored[index])
      BY <1>1, <2>1 DEF Trails, EncryptTrail
    <3>3. plain[index] \in Byte /\ Pad(gen[index]) \in Byte
      BY <1>0, <2>1, <2>3, <3>1 DEF StreamBlock
    <3>4. Xor(Pad(gen[index]), stored[index]) = plain[index]
      BY <3>2, <3>3, CancelAssumption
    <3>5. readers'[l] = gen[index + 1]
      BY <2>2, <3>1, <3>2
    <3> QED BY <2>7, <3>1, <3>4, <3>5
  <2>9. DecryptBatchInv(gen)'
    <3>1. index' <= Length
      <4>1. index' = index + 1
        BY <2>2
      <4> QED BY <1>3, <1>5, <4>1
    <3>2. ASSUME NEW l \in Lane, NEW m \in index + 1 .. Length - 1
          PROVE  copies'[l][m] = stored[m]
      <4>1. m \in index .. Length - 1
        BY <1>5, <3>2
      <4> QED BY <1>1, <2>7, <4>1 DEF DecryptBatchInv
    <3>3. ASSUME NEW l \in Lane, keys[l] = key, NEW m \in 0 .. (index + 1) - 1
          PROVE  copies'[l][m] = plain[m]
      <4>1. m = index \/ m \in 0 .. index - 1
        BY <1>5, <3>3
      <4> QED BY <1>1, <2>7, <2>8, <3>3, <4>1 DEF DecryptBatchInv
    <3>4. index' = index + 1 /\ keys' = keys /\ key' = key /\ stored' = stored /\ plain' = plain
      BY <2>2
    <3>5. \A l \in Lane : \A m \in index + 1 .. Length - 1 : copies'[l][m] = stored[m]
      BY <3>2
    <3>6. \A l \in Lane : keys[l] = key =>
              /\ readers'[l] = gen[index + 1]
              /\ \A m \in 0 .. (index + 1) - 1 : copies'[l][m] = plain[m]
      BY <2>8, <3>3
    <3> QED BY <3>1, <3>4, <3>5, <3>6 DEF DecryptBatchInv
  <2>10. Trails(sched, gen, Length)'
    BY <1>1, <2>2 DEF Trails, ScheduleTrail, EncryptTrail
  <2>11. StoredInv'
    BY <2>2, <2>9, <2>10 DEF StoredInv
  <2> QED BY <2>2, <2>6, <2>11 DEF TrailInv, ScheduleInv, EncryptInv, RightLaneReads
<1>4. CASE ~(index < Length)
  <2>1. index = Length
    BY <1>2, <1>4, <1>5
  <2>2. StreamTypeOK'
    BY <1>4 DEF Decrypt, TrailInv, StreamTypeOK
  <2>3. \A l \in Lane : keys[l] = key => copies[l] = plain
    <3> TAKE l \in Lane
    <3> HAVE keys[l] = key
    <3>1. \A m \in 0 .. Length - 1 : copies[l][m] = plain[m]
      BY <1>1, <2>1 DEF DecryptBatchInv
    <3>2. copies[l] \in [0 .. Length - 1 -> Byte] /\ plain \in [0 .. Length - 1 -> Byte]
      BY <1>0 DEF StreamBlock
    <3>3. /\ copies[l] = [m \in 0 .. Length - 1 |-> copies[l][m]]
          /\ plain = [m \in 0 .. Length - 1 |-> plain[m]]
      BY <3>2
    <3> QED BY <3>1, <3>3
  <2>4. RightLaneReads'
    BY <1>4, <2>3 DEF Decrypt, RightLaneReads
  <2> QED BY <1>4, <2>2, <2>4 DEF Decrypt, TrailInv, ScheduleInv, EncryptInv, StoredInv
<1> QED BY <1>3, <1>4

\* Every step keeps the invariant.
LEMMA StreamStepInv ==
    TrailInv /\ [StreamNext]_streamVars => TrailInv'
<1> SUFFICES ASSUME TrailInv, [StreamNext]_streamVars PROVE TrailInv'
  OBVIOUS
<1>1. CASE EncryptSchedule
  BY <1>1, EncryptScheduleKeepsInv
<1>2. CASE Encrypt
  BY <1>2, EncryptKeepsInv
<1>3. ASSUME NEW candidates \in [Lane -> Digest], StartBatch(candidates) PROVE TrailInv'
  BY <1>3, StartBatchKeepsInv
<1>4. CASE DecryptSchedule
  BY <1>4, DecryptScheduleKeepsInv
<1>5. CASE Decrypt
  BY <1>5, DecryptKeepsInv
<1>6. CASE UNCHANGED streamVars
  <2>1. StreamTypeOK' /\ RightLaneReads'
    BY <1>6 DEF streamVars, TrailInv, StreamTypeOK, RightLaneReads
  <2>2. ScheduleInv' /\ EncryptInv'
    BY <1>6 DEF streamVars, TrailInv, ScheduleInv, EncryptInv, Trails, ScheduleTrail, EncryptTrail
  <2>3. StoredInv'
    <3>1. CASE pc \in {"stored", "schedule batch", "decrypt batch"}
      <4>1. PICK sched, gen : /\ Trails(sched, gen, Length)
                              /\ pc = "schedule batch" => ScheduleBatchInv(sched)
                              /\ pc = "decrypt batch" => DecryptBatchInv(gen)
        BY <3>1 DEF TrailInv, StoredInv
      <4>2. Trails(sched, gen, Length)'
        BY <1>6, <4>1 DEF streamVars, Trails, ScheduleTrail, EncryptTrail
      <4>3. pc' = "schedule batch" => ScheduleBatchInv(sched)'
        BY <1>6, <4>1 DEF streamVars, ScheduleBatchInv
      <4>4. pc' = "decrypt batch" => DecryptBatchInv(gen)'
        BY <1>6, <4>1 DEF streamVars, DecryptBatchInv
      <4> QED BY <4>2, <4>3, <4>4 DEF StoredInv
    <3>2. CASE pc \notin {"stored", "schedule batch", "decrypt batch"}
      BY <1>6, <3>2 DEF streamVars, StoredInv
    <3> QED BY <3>1, <3>2
  <2> QED BY <2>1, <2>2, <2>3 DEF TrailInv
<1> QED BY <1>1, <1>2, <1>3, <1>4, <1>5, <1>6 DEF StreamNext, WriteBlock, ReadBatch

\* Whatever the key and the block, the lane with the right key reads what was
\* written.
THEOREM StreamInvariant ==
    StreamSpec => []TrailInv
  BY StreamInitInv, StreamStepInv, PTL DEF StreamSpec

-----------------------------------------------------------------------------
(* KeyBlocks: recovery undoes recalculation.                               *)

\* What MD4 gives is a digest, for every ESN and IMEI that can be read.
DigestsAreKeys == \A e \in Nat, i \in Digits : KeyOf(e, i) \in Digest

Searching == pc \in {"schedule batch", "decrypt batch", "searched"}

\* A batch is under the IMEI that was read.
BatchInv == Searching => step = "read" /\ read # NoImei /\ keys = KeyBatch(first, read)

KInv ==
    /\ IInv
    /\ TrailInv
    /\ esn \in Esns /\ key = KeyOf(esn, imei)
    /\ first \in FirstCandidates \cup {0}
    /\ BatchInv

\* A batch has a digest in every lane.
LEMMA KeyBatchType ==
    ASSUME DigestsAreKeys, NEW candidate \in Nat, NEW i \in Digits
    PROVE  KeyBatch(candidate, i) \in [Lane -> Digest]
<1>1. \A l \in Lane : candidate + l \in Nat
  <2>1. \A l \in Lane : l \in Nat
    BY KeyAssumption
  <2> QED BY <2>1
<1> QED BY <1>1 DEF KeyBatch, DigestsAreKeys

\* The invariant holds at the start.
LEMMA KeyInitInv ==
    Init => KInv
<1> SUFFICES ASSUME Init PROVE KInv
  OBVIOUS
<1>1. IInv /\ TrailInv
  BY ImeiInitInv, StreamInitInv DEF Init
<1>2. BatchInv
  BY DEF Init, StreamInit, BatchInv, Searching
<1> QED BY <1>1, <1>2 DEF Init, KInv

\* Every step is one of the IMEI block's or one of the stream cipher's, and only
\* TryBatch starts a batch.
LEMMA KeyStepInv ==
    ASSUME DigestsAreKeys, KInv, [Next]_vars
    PROVE  KInv'
<1>1. CASE BuildImeiBlock
  <2>1. IInv'
    BY <1>1, ImeiStepInv DEF BuildImeiBlock, KInv, ImeiNext
  <2>2. UNCHANGED streamVars /\ UNCHANGED <<esn, first>> /\ step # "read"
    BY <1>1 DEF BuildImeiBlock, WriteImei, Build, EncryptRound, Store
  <2>3. TrailInv'
    BY <2>2, StreamStepInv DEF KInv
  <2>4. imei' = imei
    BY <1>1 DEF BuildImeiBlock, WriteImei, Build, EncryptRound, Store
  <2>5. BatchInv'
    BY <2>2 DEF KInv, BatchInv, Searching, streamVars
  <2> QED BY <2>1, <2>2, <2>3, <2>4, <2>5 DEF KInv, streamVars
<1>2. CASE BuildSecondBlock
  <2>1. UNCHANGED imeiVars /\ UNCHANGED <<esn, first>> /\ step = "stored" /\ WriteBlock
    BY <1>2 DEF BuildSecondBlock
  <2>2. IInv'
    BY <2>1, ImeiStepInv DEF KInv
  <2>3. TrailInv'
    BY <2>1, StreamStepInv DEF KInv, StreamNext
  <2>4. key' = key /\ imei' = imei
    BY <2>1 DEF WriteBlock, EncryptSchedule, Encrypt, imeiVars
  <2>5. ~Searching'
    BY <2>1 DEF WriteBlock, EncryptSchedule, Encrypt, Searching
  <2> QED BY <2>1, <2>2, <2>3, <2>4, <2>5 DEF KInv, BatchInv
<1>3. CASE GoBad
  <2>1. PICK n \in 0 .. 9, value \in NibblePair : Damage(n, value)
    BY <1>3 DEF GoBad
  <2>2. UNCHANGED streamVars /\ UNCHANGED <<esn, first>> /\ pc = "stored"
    BY <1>3 DEF GoBad, InFlash
  <2>3. IInv'
    BY <2>1, DamageKeepsInv DEF KInv
  <2>4. TrailInv'
    BY <2>2, StreamStepInv DEF KInv
  <2>5. key' = key /\ imei' = imei /\ ~Searching'
    BY <2>1, <2>2 DEF Damage, streamVars, Searching
  <2> QED BY <2>2, <2>3, <2>4, <2>5 DEF KInv, BatchInv
<1>4. CASE ReadImeiBlock
  <2>1. UNCHANGED streamVars /\ UNCHANGED <<esn, first>> /\ pc = "stored" /\ ReadImei
    BY <1>4 DEF ReadImeiBlock, InFlash
  <2>2. IInv'
    BY <2>1, ImeiStepInv DEF KInv, ImeiNext
  <2>3. TrailInv'
    BY <2>1, StreamStepInv DEF KInv
  <2>4. key' = key /\ imei' = imei /\ ~Searching'
    BY <2>1 DEF ReadImei, Open, DecryptRound, Decode, streamVars, Searching
  <2> QED BY <2>1, <2>2, <2>3, <2>4 DEF KInv, BatchInv
<1>5. CASE TryBatch
  <2>1. /\ step = "read" /\ read # NoImei /\ first' \in FirstCandidates
        /\ StartBatch(KeyBatch(first', read))
        /\ UNCHANGED <<esn, imeiVars>>
    BY <1>5 DEF TryBatch
  <2>2. IInv'
    BY <2>1, ImeiStepInv DEF KInv
  <2>3. KeyBatch(first', read) \in [Lane -> Digest]
    <3>1. read \in Digits
      BY <2>1 DEF KInv, IInv, ImeiTypeOK
    <3>2. first' \in Nat
      BY <2>1, KeyAssumption
    <3> QED BY <3>1, <3>2, KeyBatchType
  <2>4. TrailInv'
    BY <2>1, <2>3, StreamStepInv DEF KInv, StreamNext
  <2>5. key' = key /\ imei' = imei /\ esn' = esn
    BY <2>1 DEF StartBatch, imeiVars
  <2>6. BatchInv'
    BY <2>1 DEF StartBatch, imeiVars, BatchInv, KeyBatch
  <2> QED BY <2>1, <2>2, <2>4, <2>5, <2>6 DEF KInv
<1>6. CASE SearchBatch
  <2>1. UNCHANGED imeiVars /\ UNCHANGED <<esn, first>> /\ ReadBatch
    BY <1>6 DEF SearchBatch
  <2>2. IInv'
    BY <2>1, ImeiStepInv DEF KInv
  <2>3. TrailInv'
    BY <2>1, StreamStepInv DEF KInv, StreamNext
  <2>4. /\ key' = key /\ keys' = keys /\ imei' = imei /\ step' = step /\ read' = read
        /\ Searching
    BY <2>1 DEF ReadBatch, DecryptSchedule, Decrypt, imeiVars, Searching
  <2>5. BatchInv'
    BY <2>1, <2>4 DEF KInv, BatchInv, KeyBatch
  <2> QED BY <2>1, <2>2, <2>3, <2>4, <2>5 DEF KInv
<1>7. CASE UNCHANGED vars
  <2>1. UNCHANGED imeiVars /\ UNCHANGED streamVars /\ UNCHANGED <<esn, first>>
    BY <1>7 DEF vars
  <2>2. IInv' /\ TrailInv'
    BY <2>1, ImeiStepInv, StreamStepInv DEF KInv
  <2> QED BY <2>1, <2>2
          DEF KInv, BatchInv, Searching, KeyBatch, imeiVars, streamVars
<1> QED BY <1>1, <1>2, <1>3, <1>4, <1>5, <1>6, <1>7 DEF Next, Ended

\* The lane of the ESN has the key of the block.
LEMMA KeyInvRecovers ==
    KInv => RecoveryUndoesRecalculation
<1> SUFFICES ASSUME KInv, pc = "searched", damaged = Nowhere, esn \in first .. first + LaneCount - 1
             PROVE  copies[esn - first] = plain
  BY DEF RecoveryUndoesRecalculation
<1>1. read = imei /\ keys = KeyBatch(first, read)
  BY DEF KInv, IInv, ImeiReadsBack, BatchInv, Searching
<1>2. esn \in Nat /\ first \in Nat /\ LaneCount \in Nat /\ Lane = 0 .. LaneCount - 1
  BY KeyAssumption DEF KInv
<1>3. esn - first \in Lane /\ first + (esn - first) = esn
  BY <1>2
<1>4. keys[esn - first] = key
  BY <1>1, <1>3 DEF KInv, KeyBatch
<1> QED BY <1>3, <1>4 DEF KInv, TrailInv, RightLaneReads

\* All variables keep their types.
THEOREM KeysTypeCorrect ==
    ASSUME DigestsAreKeys
    PROVE  Spec => []TypeOK
<1>1. Init => KInv
  BY KeyInitInv
<1>2. KInv /\ [Next]_vars => KInv'
  BY KeyStepInv
<1>3. KInv => TypeOK
  BY DEF KInv, IInv, TrailInv, TypeOK
<1> QED BY <1>1, <1>2, <1>3, PTL DEF Spec

\* decodeImeiBlock returns the IMEI that buildImeiBlock was given: for all IMEIs
\* and both variants of the block.
THEOREM ImeiAlwaysReadsBack ==
    ASSUME DigestsAreKeys
    PROVE  Spec => []ImeiReadsBack
<1>1. Init => KInv
  BY KeyInitInv
<1>2. KInv /\ [Next]_vars => KInv'
  BY KeyStepInv
<1>3. KInv => ImeiReadsBack
  BY DEF KInv, IInv
<1> QED BY <1>1, <1>2, <1>3, PTL DEF Spec

\* Whatever byte goes bad, decodeImeiBlock refuses the block: for all IMEIs, and
\* all but the last column of the FULL variant.
THEOREM DamageAlwaysNoticed ==
    ASSUME DigestsAreKeys
    PROVE  Spec => []DamageIsNoticed
<1>1. Init => KInv
  BY KeyInitInv
<1>2. KInv /\ [Next]_vars => KInv'
  BY KeyStepInv
<1>3. KInv => DamageIsNoticed
  BY DEF KInv, IInv
<1> QED BY <1>1, <1>2, <1>3, PTL DEF Spec

\* The lane with the right key decrypts what recalculation encrypted: for blocks
\* of any length, and any keys in the other lanes.
THEOREM RightLaneAlwaysReads ==
    ASSUME DigestsAreKeys
    PROVE  Spec => []RightLaneReads
<1>1. Init => KInv
  BY KeyInitInv
<1>2. KInv /\ [Next]_vars => KInv'
  BY KeyStepInv
<1>3. KInv => RightLaneReads
  BY DEF KInv, TrailInv
<1> QED BY <1>1, <1>2, <1>3, PTL DEF Spec

\* From intact blocks the batch that holds the ESN recovers what recalculation
\* wrote, through both ciphers.
THEOREM RecoveryAlwaysUndoes ==
    ASSUME DigestsAreKeys
    PROVE  Spec => []RecoveryUndoesRecalculation
<1>1. Init => KInv
  BY KeyInitInv
<1>2. KInv /\ [Next]_vars => KInv'
  BY KeyStepInv
<1> QED BY <1>1, <1>2, KeyInvRecovers, PTL DEF Spec

=============================================================================
