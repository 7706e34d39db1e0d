---------------------------- MODULE EepromProofs ----------------------------
(***************************************************************************)
(* Proofs about Eeprom for every fullflash and every size of a chunk and a *)
(* step: each byte of each block lies in the image, at a place of its own. *)
(* The arithmetic is that of inline data: 2 * Chunk * a + s is the byte s  *)
(* of the a-th chunk of even number.                                       *)
(***************************************************************************)
EXTENDS Eeprom, TLAPS

\* \div and % are quotient and remainder.
IsQuotient(x, c, q, r) ==
    c \in Nat \ {0} /\ q \in Nat /\ r \in Nat /\ r < c /\ x = q * c + r

LEMMA DivMod ==
    ASSUME NEW x, NEW c, NEW q, NEW r, IsQuotient(x, c, q, r)
    PROVE  x \div c = q /\ x % c = r
<1> USE DEF IsQuotient
<1> DEFINE d == x \div c
           m == x % c
<1>1. x \in Nat
  BY Z3
<1>2. d \in Int /\ m \in Int /\ 0 <= m /\ m < c /\ x = c * d + m
  BY <1>1, Z3
<1> HIDE DEF d, m
<1>4. c * (q - d) = m - r
  BY <1>2, Z3
<1>5. q = d
  <2>1. q - d >= 1 => c * (q - d) >= c
    BY <1>2, Z3
  <2>2. q - d <= -1 => c * (q - d) <= -c
    BY <1>2, Z3
  <2> QED BY <1>2, <1>4, <2>1, <2>2, Z3
<1>6. m = r
  BY <1>2, <1>5, Z3
<1> QED BY <1>5, <1>6 DEF d, m

\* Every number is quotient and remainder.
LEMMA Quotient ==
    ASSUME NEW c \in Nat \ {0}, NEW x \in Nat
    PROVE  /\ x \div c \in Nat /\ x % c \in Nat /\ x % c < c
           /\ x = (x \div c) * c + (x % c)
  BY Z3

\* A larger number has a quotient at least as large.
LEMMA DivMonotone ==
    ASSUME NEW c \in Nat \ {0}, NEW x \in Nat, NEW y \in Nat, x <= y
    PROVE  (x \div c) * c <= (y \div c) * c
<1> DEFINE d == x \div c
           e == y \div c
           m == x % c
           n == y % c
<1>1. /\ d \in Nat /\ e \in Nat /\ m \in Nat /\ n \in Nat /\ m < c /\ n < c
      /\ x = d * c + m /\ y = e * c + n
  BY Quotient
<1> HIDE DEF d, e, m, n
<1>2. d > e => (d - e) * c >= c
  BY <1>1, Z3
<1>3. d > e => d * c >= e * c + c
  BY <1>1, <1>2, Z3
<1>4. d <= e
  BY <1>1, <1>3, Z3
<1>5. d * c <= e * c
  BY <1>1, <1>4, Z3
<1> QED BY <1>5 DEF d, e

\* The parameters, and a step in chunks.
LEMMA Sizes ==
    /\ Chunk \in Nat \ {0} /\ Step \in Nat \ {0}
    /\ Step \div (2 * Chunk) \in Nat /\ Step = (Step \div (2 * Chunk)) * (2 * Chunk)
<1>1. Chunk \in Nat \ {0} /\ Step \in Nat \ {0} /\ Step % (2 * Chunk) = 0
  BY EepromAssumption
<1>2. 2 * Chunk \in Nat \ {0}
  BY <1>1
<1>3. /\ Step \div (2 * Chunk) \in Nat
      /\ Step = (Step \div (2 * Chunk)) * (2 * Chunk) + (Step % (2 * Chunk))
  BY <1>1, <1>2, Quotient
<1>4. Step = (Step \div (2 * Chunk)) * (2 * Chunk)
  <2>1. (Step \div (2 * Chunk)) * (2 * Chunk) \in Nat
    BY <1>1, <1>3, Z3
  <2> QED BY <1>1, <1>3, <2>1
<1> QED BY <1>1, <1>3, <1>4

-----------------------------------------------------------------------------
\* A strided block starts with byte s of the a-th chunk of even number.
StartsAt(b, a, s) ==
    /\ b \in Block /\ b.strided
    /\ a \in Nat /\ s \in Nat /\ s < Chunk
    /\ b.start = 2 * Chunk * a + s

\* Where its bytes are.
LEMMA Position ==
    ASSUME NEW b, NEW a, NEW s, StartsAt(b, a, s), NEW i \in Nat
    PROVE  ByteOffset(b, i) = 2 * Chunk * a + s + i + ((s + i) \div Chunk) * Chunk
<1> USE DEF StartsAt
<1>1. Chunk \in Nat \ {0} /\ 2 * a \in Nat
  BY Sizes
<1>2. 2 * Chunk * a + s = (2 * a) * Chunk + s
  BY <1>1, Z3
<1>3. b.start % Chunk = s
  <2>1. IsQuotient(b.start, Chunk, 2 * a, s)
    BY <1>1, <1>2 DEF IsQuotient
  <2> QED BY <2>1, DivMod
<1> QED BY <1>3 DEF ByteOffset

\* They are in order, one place each.
LEMMA InOrder ==
    ASSUME NEW b \in Block, NEW i \in Nat, NEW j \in Nat, j < i
    PROVE  ByteOffset(b, j) \in Nat /\ ByteOffset(b, i) \in Nat
           /\ ByteOffset(b, j) < ByteOffset(b, i)
<1> DEFINE s == b.start % Chunk
           x == ((s + j) \div Chunk) * Chunk
           y == ((s + i) \div Chunk) * Chunk
<1>1. Chunk \in Nat \ {0} /\ b.start \in Nat
  BY Sizes DEF Block
<1>2. s \in Nat
  BY <1>1, Quotient
<1> HIDE DEF s
<1>3. s + j \in Nat /\ s + i \in Nat /\ s + j <= s + i
  BY <1>2
<1>4. x \in Nat /\ y \in Nat /\ x <= y
  <2>1. (s + j) \div Chunk \in Nat /\ (s + i) \div Chunk \in Nat
    BY <1>1, <1>3, Quotient
  <2>2. x \in Nat /\ y \in Nat
    BY <1>1, <2>1, Z3
  <2> QED BY <1>1, <1>3, <2>2, DivMonotone
<1> HIDE DEF x, y
<1>5. /\ ByteOffset(b, j) = (IF b.strided THEN b.start + j + x ELSE b.start + j)
      /\ ByteOffset(b, i) = (IF b.strided THEN b.start + i + y ELSE b.start + i)
  BY DEF ByteOffset, s, x, y
<1> QED BY <1>1, <1>4, <1>5

\* The inline data below the entry at the e-th double chunk: it starts in a chunk
\* of even number and ends with the chunk right below.
LEMMA InlinePlace ==
    ASSUME NEW e \in Nat, NEW n \in Nat \ {0},
           2 * Chunk * e >= Chunk + n + (n - (n % Chunk))
    PROVE  LET place == 2 * Chunk * e - (Chunk + n + (n - (n % Chunk))) IN
           \E a \in Nat, s \in Nat :
               /\ s < Chunk
               /\ Aligned(place) = 2 * Chunk * a + s
               /\ Aligned(place) >= place
               /\ 2 * Chunk * a + s + (n - 1) + ((s + (n - 1)) \div Chunk) * Chunk
                      = 2 * Chunk * e - Chunk - 1
<1> DEFINE q == n \div Chunk
           r == n % Chunk
           place == 2 * Chunk * e - (Chunk + n + (n - r))
<1>1. /\ Chunk \in Nat \ {0} /\ q \in Nat /\ r \in Nat /\ r < Chunk /\ n = q * Chunk + r
  BY Sizes, Quotient
<1>2. place = 2 * Chunk * e - Chunk - 2 * (q * Chunk) - r
  BY <1>1, Z3
<1>3. 2 * Chunk * e >= Chunk + 2 * (q * Chunk) + r
  BY <1>1, Z3
<1>4. e - q - 1 \in Nat
  <2>1. 2 * (Chunk * (e - q)) >= Chunk
    BY <1>1, <1>3, Z3
  <2>2. e - q <= 0 => Chunk * (e - q) <= 0
    BY <1>1, Z3
  <2> QED BY <1>1, <2>1, <2>2, Z3
<1> HIDE DEF q, r
<1>5. CASE r > 0
  <2> DEFINE a == e - q - 1
             s == Chunk - r
  <2>1. a \in Nat /\ s \in Nat /\ s < Chunk
    BY <1>1, <1>4, <1>5
  <2>2. place = 2 * Chunk * a + s /\ place = (2 * a) * Chunk + s
    BY <1>1, <1>2, Z3
  <2>3. place \div Chunk = 2 * a
    <3>1. 2 * a \in Nat
      BY <2>1
    <3> HIDE DEF place, a, s
    <3>2. IsQuotient(place, Chunk, 2 * a, s)
      BY <1>1, <2>1, <2>2, <3>1 DEF IsQuotient
    <3> QED BY <3>2, DivMod
  <2>4. Aligned(place) = place
    BY <2>1, <2>3 DEF Aligned
  <2>5. s + (n - 1) = q * Chunk + (Chunk - 1)
    BY <1>1, Z3
  <2>6. (s + (n - 1)) \div Chunk = q
    <3>1. Chunk - 1 \in Nat /\ Chunk - 1 < Chunk
      BY <1>1
    <3>2. IsQuotient(s + (n - 1), Chunk, q, Chunk - 1)
      BY <1>1, <2>5, <3>1 DEF IsQuotient
    <3> QED BY <3>2, DivMod
  <2>7. 2 * Chunk * a + s + (n - 1) + q * Chunk = 2 * Chunk * e - Chunk - 1
    BY <1>1, Z3
  <2>8. place \in Int
    BY <1>1, <2>2, <2>1, Z3
  <2> QED BY <2>1, <2>2, <2>4, <2>6, <2>7, <2>8 DEF r
<1>6. CASE r = 0
  <2> DEFINE a == e - q
             b == e - q - 1
  <2>1. a \in Nat /\ b \in Nat /\ q - 1 \in Nat
    <3>1. q # 0
      BY <1>1, <1>6, Z3
    <3> QED BY <1>1, <1>4, <3>1
  <2>2. place = (2 * b + 1) * Chunk + 0 /\ place = b * (2 * Chunk) + Chunk
    BY <1>1, <1>2, <1>6, Z3
  <2>3. place \div Chunk = 2 * b + 1
    <3>1. 2 * b + 1 \in Nat /\ 0 \in Nat /\ 0 < Chunk
      BY <1>1, <2>1
    <3> HIDE DEF place, b
    <3>2. IsQuotient(place, Chunk, 2 * b + 1, 0)
      BY <1>1, <2>2, <3>1 DEF IsQuotient
    <3> QED BY <3>2, DivMod
  <2>4. place % (2 * Chunk) = Chunk
    <3>1. 2 * Chunk \in Nat \ {0} /\ Chunk \in Nat /\ Chunk < 2 * Chunk
      BY <1>1
    <3> HIDE DEF place, b
    <3>2. IsQuotient(place, 2 * Chunk, b, Chunk)
      BY <2>1, <2>2, <3>1 DEF IsQuotient
    <3> QED BY <3>2, DivMod
  <2>5. place \in Nat
    BY <1>1, <2>1, <2>2, Z3
  <2>6. Aligned(place) = place + 2 * Chunk - Chunk
    BY <2>1, <2>3, <2>4 DEF Aligned
  <2>7. Aligned(place) = 2 * Chunk * a + 0
    BY <1>1, <2>2, <2>6, Z3
  <2>8. 0 + (n - 1) = (q - 1) * Chunk + (Chunk - 1)
    BY <1>1, <1>6, Z3
  <2>9. (0 + (n - 1)) \div Chunk = q - 1
    <3>1. Chunk - 1 \in Nat /\ Chunk - 1 < Chunk
      BY <1>1
    <3>2. IsQuotient(0 + (n - 1), Chunk, q - 1, Chunk - 1)
      BY <1>1, <2>1, <2>8, <3>1 DEF IsQuotient
    <3> QED BY <3>2, DivMod
  <2>10. 2 * Chunk * a + 0 + (n - 1) + (q - 1) * Chunk = 2 * Chunk * e - Chunk - 1
    BY <1>1, <1>6, Z3
  <2>11. Aligned(place) >= place /\ 0 \in Nat /\ 0 < Chunk
    BY <1>1, <2>5, <2>6
  <2> QED BY <2>1, <2>7, <2>9, <2>10, <2>11 DEF r
<1> QED BY <1>1, <1>5, <1>6

\* Leaving out the first byte of a strided block moves the others up by one.
LEMMA FirstByteGone ==
    ASSUME NEW b, NEW a, NEW s, StartsAt(b, a, s), NEW n \in Nat, NEW i \in Nat
    PROVE  LET rest == [b EXCEPT !.start = ByteOffset(b, 1), !.size = n] IN
           rest \in Block /\ ByteOffset(rest, i) = ByteOffset(b, i + 1)
<1> DEFINE d == (s + 1) \div Chunk
           t == (s + 1) % Chunk
           u == (t + i) \div Chunk
           v == (t + i) % Chunk
           rest == [b EXCEPT !.start = ByteOffset(b, 1), !.size = n]
<1>0. b \in Block /\ b.strided /\ a \in Nat /\ s \in Nat /\ s < Chunk
  BY DEF StartsAt
<1>1. /\ Chunk \in Nat \ {0} /\ d \in Nat /\ t \in Nat /\ t < Chunk /\ s + 1 = d * Chunk + t
  BY <1>0, Sizes, Quotient
<1>2. u \in Nat /\ v \in Nat /\ v < Chunk /\ t + i = u * Chunk + v
  <2>1. t + i \in Nat
    BY <1>1
  <2> QED BY <1>1, <2>1, Quotient
<1>3. ByteOffset(b, 1) = 2 * Chunk * a + s + 1 + d * Chunk
  BY Position
<1> HIDE DEF d, t, u, v
<1>4. ByteOffset(b, 1) = 2 * Chunk * (a + d) + t /\ ByteOffset(b, 1) \in Nat
  BY <1>0, <1>1, <1>3, Z3
<1>5. rest \in Block /\ rest.strided /\ rest.start = 2 * Chunk * (a + d) + t
  BY <1>0, <1>4 DEF Block
<1> HIDE DEF rest
<1>6. ByteOffset(rest, i) = 2 * Chunk * (a + d) + t + i + u * Chunk
  <2>1. a + d \in Nat
    BY <1>0, <1>1
  <2>2. StartsAt(rest, a + d, t)
    BY <1>1, <1>5, <2>1 DEF StartsAt
  <2>3. ByteOffset(rest, i) = 2 * Chunk * (a + d) + t + i + ((t + i) \div Chunk) * Chunk
    BY <2>2, Position
  <2> QED BY <2>3 DEF u
<1>7. (s + (i + 1)) \div Chunk = d + u
  <2>1. s + (i + 1) = (d + u) * Chunk + v
    BY <1>0, <1>1, <1>2, Z3
  <2>2. d + u \in Nat
    BY <1>1, <1>2
  <2>3. IsQuotient(s + (i + 1), Chunk, d + u, v)
    BY <1>1, <1>2, <2>1, <2>2 DEF IsQuotient
  <2> QED BY <2>3, DivMod
<1>8. ByteOffset(b, i + 1) = 2 * Chunk * a + s + (i + 1) + (d + u) * Chunk
  BY <1>7, Position
<1>9. ByteOffset(rest, i) = ByteOffset(b, i + 1)
  BY <1>0, <1>1, <1>2, <1>6, <1>8, Z3
<1> QED BY <1>5, <1>9 DEF rest

-----------------------------------------------------------------------------
\* The scan goes from step to step, and a table is that of a whole partition.
ScanInv == \E k \in Nat : offset = k * Step

TableInv ==
    pc = "entries" =>
        /\ table.layout \in {"X65", "X85"}
        /\ table.type \in Type
        /\ \E k \in Nat : table.base = k * Step
        /\ table.base + PartitionSize <= image.size
        /\ index >= 1

IInv ==
    /\ TypeOK
    /\ ScanInv
    /\ TableInv
    /\ BlocksAreReadable

\* A block all of whose bytes are in the image.
IsReadable(b) ==
    \A i \in 0 .. b.size - 1 :
        /\ ByteOffset(b, i) \in 0 .. image.size - 1
        /\ \A j \in 0 .. i - 1 : ByteOffset(b, j) < ByteOffset(b, i)

\* It is enough that the last one is.
LEMMA LastByte ==
    ASSUME NEW b \in Block, image.size \in Nat,
           b.size > 0 => ByteOffset(b, b.size - 1) < image.size
    PROVE  IsReadable(b)
<1> SUFFICES ASSUME NEW i \in 0 .. b.size - 1
             PROVE  /\ ByteOffset(b, i) \in 0 .. image.size - 1
                    /\ \A j \in 0 .. i - 1 : ByteOffset(b, j) < ByteOffset(b, i)
  BY DEF IsReadable
<1>1. b.size \in Nat /\ b.size > 0 /\ i \in Nat /\ b.size - 1 \in Nat /\ i <= b.size - 1
  BY DEF Block
<1>2. ByteOffset(b, i) \in Nat
  BY <1>1, InOrder
<1>3. ByteOffset(b, i) <= ByteOffset(b, b.size - 1) /\ ByteOffset(b, b.size - 1) \in Nat
  <2>1. CASE i < b.size - 1
    BY <1>1, <2>1, InOrder
  <2>2. CASE i = b.size - 1
    BY <1>2, <2>2
  <2> QED BY <1>1, <2>1, <2>2
<1>4. ByteOffset(b, i) \in 0 .. image.size - 1
  BY <1>1, <1>2, <1>3
<1>5. \A j \in 0 .. i - 1 : ByteOffset(b, j) < ByteOffset(b, i)
  <2> TAKE j \in 0 .. i - 1
  <2>1. j \in Nat /\ j < i
    BY <1>1
  <2> QED BY <1>1, <2>1, InOrder
<1> QED BY <1>4, <1>5

\* An entry table lies in the image, X85 entries at whole double chunks.
LEMMA EntryInImage ==
    ASSUME TypeOK, TableInv, InTable
    PROVE  /\ image.size \in Nat /\ table.base \in Nat /\ PartitionSize \in Nat
           /\ table.base + PartitionSize <= image.size
           /\ EntryOffset \in Nat /\ EntryOffset < table.base + PartitionSize
           /\ CurrentEntry \in Entry
           /\ ~Is65 => \E e \in Nat : EntryOffset = 2 * Chunk * e
<1>1. /\ image \in Images /\ image.size \in Nat /\ table.base \in Nat /\ index \in Nat
      /\ index >= 1 /\ index <= EntryCount /\ table.base + PartitionSize <= image.size
  BY EepromAssumption DEF TypeOK, TableInv, InTable
<1> DEFINE w == Step \div (2 * Chunk)
<1>2. Chunk \in Nat \ {0} /\ w \in Nat /\ Step = w * (2 * Chunk) /\ Step \in Nat \ {0}
  BY Sizes
<1> HIDE DEF w
<1>3. PICK k \in Nat : table.base = k * Step
  BY DEF TableInv, InTable
<1>4. k * w \in Nat /\ table.base = (k * w) * (2 * Chunk)
  BY <1>2, <1>3, Z3
<1>5. CASE Is65
  <2>1. /\ X65Size = (4 * w) * Chunk /\ PartitionSize = X65Size
        /\ EntryOffset = table.base + X65Size - Chunk * index
        /\ EntryCount = X65Size \div Chunk - 1
    <3>1. X65Size = (4 * w) * Chunk
      BY <1>2, Z3 DEF X65Size
    <3> QED BY <1>5, <3>1 DEF PartitionSize, EntryOffset, EntryCount
  <2>2. X65Size \div Chunk = 4 * w
    <3>1. IsQuotient(X65Size, Chunk, 4 * w, 0)
      <4>1. 4 * w \in Nat /\ 0 \in Nat /\ 0 < Chunk /\ (4 * w) * Chunk = (4 * w) * Chunk + 0
        BY <1>2, Z3
      <4> QED BY <1>2, <2>1, <4>1 DEF IsQuotient
    <3> QED BY <3>1, DivMod
  <2>3. index <= 4 * w - 1
    BY <1>1, <2>1, <2>2
  <2> DEFINE e == 2 * (k * w) + 4 * w - index
  <2>4. e \in Nat /\ EntryOffset = e * Chunk
    <3>1. e \in Nat
      BY <1>1, <1>2, <1>4, <2>3
    <3>2. EntryOffset = (k * w) * (2 * Chunk) + (4 * w) * Chunk - Chunk * index
      BY <1>4, <2>1
    <3>3. (k * w) * (2 * Chunk) + (4 * w) * Chunk - Chunk * index = e * Chunk
      BY <1>1, <1>2, Z3
    <3> QED BY <3>1, <3>2, <3>3
  <2>5. EntryOffset \in Nat /\ EntryOffset % Chunk = 0
    <3>1. IsQuotient(EntryOffset, Chunk, e, 0)
      <4>1. 0 \in Nat /\ 0 < Chunk /\ e * Chunk = e * Chunk + 0
        BY <1>2, <2>4, Z3
      <4> QED BY <1>2, <2>4, <4>1 DEF IsQuotient
    <3>2. EntryOffset % Chunk = 0
      BY <3>1, DivMod
    <3>3. EntryOffset \in Nat
      <4> HIDE DEF e
      <4>1. e * Chunk \in Nat
        BY <1>2, <2>4, Z3
      <4> QED BY <2>4, <4>1
    <3> QED BY <3>2, <3>3
  <2>6. EntryOffset < table.base + X65Size /\ X65Size \in Nat
    <3>1. Chunk * index >= Chunk /\ Chunk * index \in Nat /\ X65Size \in Nat
      BY <1>1, <1>2, <2>1, Z3 DEF X65Size
    <3> QED BY <1>1, <1>2, <2>1, <3>1
  <2>7. CurrentEntry \in Entry
    <3>1. EntryOffset \in 0 .. image.size - 1
      BY <1>1, <2>1, <2>5, <2>6
    <3> QED BY <1>1, <2>5, <3>1, EepromAssumption DEF CurrentEntry
  <2> QED BY <1>1, <1>5, <2>1, <2>5, <2>6, <2>7
<1>6. CASE ~Is65
  <2>1. /\ X85Size = (4 * w) * X85EntrySize /\ PartitionSize = X85Size
        /\ EntryOffset = table.base + X85Size - X85EntrySize * (index + 1)
        /\ EntryCount = X85Size \div X85EntrySize - 1
        /\ X85EntrySize = 2 * Chunk /\ X85EntrySize \in Nat \ {0}
    <3>1. X85Size = (4 * w) * X85EntrySize /\ X85EntrySize \in Nat \ {0}
      BY <1>2, Z3 DEF X85Size, X85EntrySize
    <3> QED BY <1>6, <3>1 DEF PartitionSize, EntryOffset, EntryCount, X85EntrySize
  <2>2. X85Size \div X85EntrySize = 4 * w
    <3>1. IsQuotient(X85Size, X85EntrySize, 4 * w, 0)
      <4>1. /\ 4 * w \in Nat /\ 0 \in Nat /\ 0 < X85EntrySize
            /\ (4 * w) * X85EntrySize = (4 * w) * X85EntrySize + 0
        BY <1>2, <2>1, Z3
      <4> QED BY <2>1, <4>1 DEF IsQuotient
    <3> QED BY <3>1, DivMod
  <2>3. index <= 4 * w - 1
    BY <1>1, <2>1, <2>2
  <2> DEFINE e == k * w + 4 * w - (index + 1)
  <2>4. e \in Nat /\ EntryOffset = 2 * Chunk * e /\ EntryOffset = (2 * e) * Chunk
    <3>1. e \in Nat
      BY <1>1, <1>2, <1>4, <2>3
    <3>2. EntryOffset = (k * w) * (2 * Chunk) + (4 * w) * (2 * Chunk) - (2 * Chunk) * (index + 1)
      BY <1>4, <2>1
    <3>3. /\ (k * w) * (2 * Chunk) + (4 * w) * (2 * Chunk) - (2 * Chunk) * (index + 1)
                 = 2 * Chunk * e
          /\ 2 * Chunk * e = (2 * e) * Chunk
      BY <1>1, <1>2, Z3
    <3> QED BY <3>1, <3>2, <3>3
  <2>5. EntryOffset \in Nat /\ EntryOffset % Chunk = 0
    <3>1. IsQuotient(EntryOffset, Chunk, 2 * e, 0)
      <4>1. 2 * e \in Nat /\ 0 \in Nat /\ 0 < Chunk /\ (2 * e) * Chunk = (2 * e) * Chunk + 0
        BY <1>2, <2>4, Z3
      <4> QED BY <1>2, <2>4, <4>1 DEF IsQuotient
    <3>2. EntryOffset % Chunk = 0
      BY <3>1, DivMod
    <3>3. EntryOffset \in Nat
      <4> HIDE DEF e
      <4>1. 2 * Chunk * e \in Nat
        BY <1>2, <2>4, Z3
      <4> QED BY <2>4, <4>1
    <3> QED BY <3>2, <3>3
  <2>6. EntryOffset < table.base + X85Size /\ X85Size \in Nat
    <3>1. X85EntrySize * (index + 1) >= X85EntrySize /\ X85Size \in Nat
      BY <1>1, <1>2, <2>1, Z3 DEF X85Size
    <3>2. X85EntrySize * (index + 1) \in Nat
      BY <1>1, <2>1, Z3
    <3> QED BY <1>1, <2>1, <3>1, <3>2
  <2>7. CurrentEntry \in Entry
    <3>1. EntryOffset \in 0 .. image.size - 1
      BY <1>1, <2>1, <2>5, <2>6
    <3> QED BY <1>1, <2>5, <3>1, EepromAssumption DEF CurrentEntry
  <2> QED BY <1>1, <2>1, <2>4, <2>5, <2>6, <2>7
<1> QED BY <1>5, <1>6

\* The inline data of an entry lies in its partition, right below the entry.
LEMMA InlineFits ==
    ASSUME TypeOK, TableInv, InTable, IsInline(CurrentEntry), IsGood(CurrentEntry)
    PROVE  LET stored == Stored(CurrentEntry) IN
           /\ stored.size = CurrentEntry.size
           /\ stored.start >= table.base
           /\ \E a, s : StartsAt(stored, a, s)
           /\ ByteOffset(stored, stored.size - 1) = EntryOffset - Chunk - 1
<1> DEFINE stored == Stored(CurrentEntry)
           n == CurrentEntry.size
<1>1. /\ EntryOffset \in Nat /\ table.base \in Nat /\ CurrentEntry \in Entry /\ Chunk \in Nat \ {0}
      /\ ~Is65
  BY EntryInImage, Sizes DEF IsInline
<1>2. PICK e \in Nat : EntryOffset = 2 * Chunk * e
  BY <1>1, EntryInImage
<1>3. n \in Nat \ {0}
  BY <1>1 DEF IsGood, Entry
<1>4. EntryOffset >= table.base + Reserved(CurrentEntry)
  BY DEF IsGood, FitsInPartition
<1> HIDE DEF n
<1>5. Reserved(CurrentEntry) = Chunk + n + (n - (n % Chunk))
  BY DEF Reserved, n
<1>6. n % Chunk \in Nat /\ n % Chunk < Chunk
  BY <1>1, <1>3, Quotient
<1> DEFINE place == 2 * Chunk * e - (Chunk + n + (n - (n % Chunk)))
<1>7. place = EntryOffset - Reserved(CurrentEntry) /\ place >= table.base
      /\ 2 * Chunk * e >= Chunk + n + (n - (n % Chunk))
  BY <1>1, <1>2, <1>3, <1>4, <1>5, <1>6
<1>8. PICK a \in Nat, s \in Nat :
          /\ s < Chunk
          /\ Aligned(place) = 2 * Chunk * a + s
          /\ Aligned(place) >= place
          /\ 2 * Chunk * a + s + (n - 1) + ((s + (n - 1)) \div Chunk) * Chunk
                 = 2 * Chunk * e - Chunk - 1
  BY <1>3, <1>7, InlinePlace
<1>9. place \in Int
  BY <1>1, <1>2, <1>3, <1>6
<1> HIDE DEF place
<1>10. stored = [start |-> Aligned(place), size |-> n, strided |-> TRUE]
  BY <1>7 DEF Stored, n
<1>11. 2 * Chunk * a + s \in Nat
  BY <1>1, Z3
<1>12. StartsAt(stored, a, s)
  BY <1>3, <1>8, <1>10, <1>11 DEF StartsAt, Block
<1>13. stored.start >= table.base
  BY <1>1, <1>7, <1>8, <1>9, <1>10, <1>11
<1>14. ByteOffset(stored, n - 1) = 2 * Chunk * e - Chunk - 1
  <2>1. n - 1 \in Nat
    BY <1>3
  <2>2. ByteOffset(stored, n - 1) = 2 * Chunk * a + s + (n - 1) + ((s + (n - 1)) \div Chunk) * Chunk
    BY <1>12, <2>1, Position
  <2> QED BY <1>8, <2>2
<1> QED BY <1>2, <1>10, <1>12, <1>13, <1>14 DEF n

\* A good entry yields a block of bytes in the image.
LEMMA PayloadReadable ==
    ASSUME TypeOK, TableInv, InTable, IsGood(CurrentEntry)
    PROVE  /\ Payload(CurrentEntry) \in Block
           /\ IsReadable(Payload(CurrentEntry))
           /\ BlockId(CurrentEntry) \in 0 .. MaxId
<1> DEFINE entry == CurrentEntry
           stored == Stored(CurrentEntry)
           n == CurrentEntry.size
           meta == Metadata(CurrentEntry)
           data == Payload(CurrentEntry)
<1>1. /\ image.size \in Nat /\ table.base \in Nat /\ PartitionSize \in Nat
      /\ table.base + PartitionSize <= image.size
      /\ EntryOffset \in Nat /\ EntryOffset < table.base + PartitionSize
      /\ entry \in Entry /\ Chunk \in Nat \ {0} /\ table.type \in Type
  BY EntryInImage, Sizes DEF TableInv, InTable
<1>2. /\ n \in Nat \ {0} /\ meta \in Nat \ {0} /\ (table.type = "EEFULL" => n >= meta)
  BY <1>1, EepromAssumption DEF IsGood, Entry, Metadata
<1>3. BlockId(CurrentEntry) \in 0 .. MaxId
  <2>1. IdOffset \in Nat \ {0} /\ MaxId \in Nat \ {0} /\ IdOffset < MaxId
    BY EepromAssumption
  <2>2. entry.id \in Nat /\ entry.id <= MaxEntryId
    BY <1>1 DEF IsGood, Entry
  <2> QED BY <1>1, <2>1, <2>2 DEF BlockId, MaxEntryId, Type
<1> HIDE DEF n, meta, data, stored
<1>4. CASE IsInline(entry)
  <2>1. PICK a, s : StartsAt(stored, a, s)
    BY <1>4, InlineFits DEF stored
  <2>2. /\ stored \in Block /\ stored.strided /\ stored.size = n
        /\ ByteOffset(stored, n - 1) = EntryOffset - Chunk - 1
    BY <1>4, <2>1, InlineFits DEF stored, n, StartsAt
  <2>3. ByteOffset(stored, n - 1) < image.size
    BY <1>1, <2>2
  <2>4. ~Is65
    BY <1>4 DEF IsInline
  <2>5. CASE table.type = "EEFULL"
    <3>1. data = [stored EXCEPT !.start = ByteOffset(stored, 1), !.size = n - meta]
      BY <2>2, <2>5 DEF data, Payload, stored, n, meta
    <3>2. n - meta \in Nat
      BY <1>2, <2>5
    <3>3. data \in Block /\ \A i \in Nat : ByteOffset(data, i) = ByteOffset(stored, i + 1)
      BY <2>1, <3>1, <3>2, FirstByteGone
    <3>4. data.size = n - meta
      BY <2>2, <3>1 DEF Block
    <3>5. ASSUME data.size > 0 PROVE ByteOffset(data, data.size - 1) < image.size
      <4>1. n - meta - 1 \in Nat /\ (n - meta - 1) + 1 = n - meta /\ n - 1 \in Nat /\ n - meta \in Nat
            /\ n - meta <= n - 1
        BY <1>2, <3>2, <3>4, <3>5
      <4>2. ByteOffset(data, data.size - 1) = ByteOffset(stored, n - meta)
        BY <3>3, <3>4, <4>1
      <4>3. ByteOffset(stored, n - meta) <= ByteOffset(stored, n - 1)
        <5>1. CASE n - meta < n - 1
          BY <2>2, <4>1, <5>1, InOrder
        <5>2. CASE n - meta = n - 1
          BY <1>1, <2>2, <5>2
        <5> QED BY <1>2, <4>1, <5>1, <5>2
      <4>4. ByteOffset(stored, n - meta) \in Nat
        <5>1. n - meta + 1 \in Nat /\ n - meta < n - meta + 1
          BY <4>1
        <5> QED BY <2>2, <4>1, <5>1, InOrder
      <4> QED BY <1>1, <2>2, <4>2, <4>3, <4>4
    <3>6. IsReadable(data)
      BY <1>1, <3>3, <3>5, LastByte
    <3> QED BY <1>3, <3>3, <3>6 DEF data
  <2>6. CASE table.type # "EEFULL"
    <3>1. data = stored
      BY <2>4, <2>6 DEF data, Payload, stored
    <3>2. IsReadable(data)
      BY <1>1, <2>2, <2>3, <3>1, LastByte
    <3> QED BY <1>3, <2>2, <3>1, <3>2 DEF data
  <2> QED BY <2>5, <2>6
<1>5. CASE ~IsInline(entry)
  <2>1. /\ entry.rel \in Nat /\ entry.rel < PartitionSize /\ n <= PartitionSize - entry.rel
    BY <1>1, <1>5 DEF IsGood, FitsInPartition, Entry, n
  <2>2. stored = [start |-> table.base + entry.rel, size |-> n, strided |-> FALSE]
    BY <1>5 DEF stored, Stored, n
  <2>3. stored \in Block /\ table.base + entry.rel + n <= image.size
    BY <1>1, <1>2, <2>1, <2>2 DEF Block
  <2>4. \A b : ~b.strided => \A i \in Nat : ByteOffset(b, i) = b.start + i
    BY DEF ByteOffset
  <2> DEFINE at == IF table.type = "EEFULL" THEN table.base + entry.rel + 1 ELSE table.base + entry.rel
             len == CASE table.type = "EEFULL" -> n - meta
                      [] table.type = "EELITE" /\ Is65 -> n - 1
                      [] OTHER -> n
  <2>5. at \in Nat /\ len \in Nat /\ at + len <= image.size
    BY <1>1, <1>2, <2>1, <2>3
  <2>6. ByteOffset(stored, 1) = table.base + entry.rel + 1
    BY <2>2 DEF ByteOffset
  <2>7. data = [start |-> at, size |-> len, strided |-> FALSE]
    <3>1. CASE table.type = "EEFULL"
      <4>1. data = [stored EXCEPT !.start = ByteOffset(stored, 1), !.size = @ - meta]
        BY <3>1 DEF data, Payload, stored, meta
      <4> QED BY <2>2, <2>6, <3>1, <4>1
    <3>2. CASE table.type = "EELITE" /\ Is65
      <4>1. data = [stored EXCEPT !.size = @ - 1]
        BY <3>2 DEF data, Payload, stored
      <4> QED BY <2>2, <3>2, <4>1
    <3>3. CASE table.type # "EEFULL" /\ ~(table.type = "EELITE" /\ Is65)
      <4>1. data = stored
        BY <3>3 DEF data, Payload, stored
      <4> QED BY <2>2, <3>3, <4>1
    <3> QED BY <3>1, <3>2, <3>3
  <2> HIDE DEF at, len
  <2>8. data \in Block
    BY <2>5, <2>7 DEF Block
  <2>9. data.size > 0 => ByteOffset(data, data.size - 1) < image.size
    <3> HAVE data.size > 0
    <3>1. ByteOffset(data, data.size - 1) = at + (len - 1)
      BY <2>7 DEF ByteOffset
    <3> QED BY <1>1, <2>5, <3>1
  <2>10. IsReadable(data)
    BY <1>1, <2>8, <2>9, LastByte
  <2> QED BY <1>3, <2>8, <2>10 DEF data
<1> QED BY <1>4, <1>5

-----------------------------------------------------------------------------
\* The places a header is read from.
LEMMA HeaderType ==
    ASSUME TypeOK, ScanInv, offset < image.size
    PROVE  /\ Type65(offset) \in Header /\ Type85(offset) \in Header
           /\ offset \in Nat /\ image.size \in Nat /\ Step \in Nat \ {0}
<1>1. image \in Images /\ image.size \in Nat /\ offset \in Nat /\ Step \in Nat \ {0}
  BY EepromAssumption DEF TypeOK
<1>2. offset % Step = 0
  <2>1. PICK k \in Nat : offset = k * Step
    BY DEF ScanInv
  <2>2. IsQuotient(offset, Step, k, 0)
    <3>1. k * Step = k * Step + 0 /\ 0 < Step /\ 0 \in Nat
      BY <1>1, <2>1, Z3
    <3> QED BY <1>1, <2>1, <3>1 DEF IsQuotient
  <2> QED BY <2>2, DivMod
<1>3. offset \in 0 .. image.size - 1
  BY <1>1
<1>4. image.x65[offset] \in Header /\ image.x85[offset] \in Header
  BY <1>1, <1>2, <1>3, EepromAssumption
<1> QED BY <1>1, <1>4 DEF Type65, Type85, Header

\* A step of the scan stays on steps.
LEMMA NextStep ==
    ASSUME ScanInv, offset' = offset + Step
    PROVE  ScanInv'
<1>1. PICK k \in Nat : offset = k * Step
  BY DEF ScanInv
<1>2. (k + 1) * Step = k * Step + Step
  BY <1>1, Sizes, Z3
<1>3. offset' = (k + 1) * Step /\ k + 1 \in Nat
  BY <1>1, <1>2
<1> QED BY <1>3 DEF ScanInv

\* The scan opens tables of whole partitions only.
LEMMA OpenKeepsInv ==
    ASSUME IInv, Open65 \/ Open85
    PROVE  IInv'
<1>1. /\ TypeOK /\ ScanInv /\ offset < image.size
      /\ offset \in Nat /\ image.size \in Nat /\ Step \in Nat \ {0}
      /\ Type65(offset) \in Header /\ Type85(offset) \in Header
  BY HeaderType DEF IInv, Open65, Open85
<1>2. PICK k \in Nat : offset = k * Step
  BY <1>1 DEF ScanInv
<1>3. UNCHANGED <<image, offset, layout, blocks>> /\ index' = 1 /\ pc' = "entries"
  BY DEF Open65, Open85, OpenTable
<1>4. /\ table' \in [layout : {"X65", "X85"}, type : Type, base : Nat]
      /\ \E m \in Nat : table'.base = m * Step
      /\ table'.base + PartitionSize' <= image.size
  <2>1. CASE Open65
    <3>1. /\ table' = [layout |-> "X65", type |-> Type65(offset), base |-> offset]
          /\ Type65(offset) \in Type /\ offset + X65Size <= image.size
      BY <2>1 DEF Open65, OpenTable
    <3>2. PartitionSize' = X65Size
      BY <3>1 DEF PartitionSize, Is65
    <3> QED BY <1>1, <1>2, <3>1, <3>2
  <2>2. CASE Open85
    <3>1. /\ table' = [layout |-> "X85", type |-> Type85(offset), base |-> offset - (X85Size - Step)]
          /\ Type85(offset) \in Type /\ offset >= X85Size - Step
      BY <2>2 DEF Open85, OpenTable
    <3>2. PartitionSize' = X85Size
      BY <3>1 DEF PartitionSize, Is65
    <3>3. offset + Step <= image.size
      BY <1>1, <3>1 DEF Type85, Type
    <3>4. /\ offset - (X85Size - Step) \in Nat
          /\ offset - (X85Size - Step) + X85Size = offset + Step
      BY <1>1, <3>1 DEF X85Size
    <3>5. offset - (X85Size - Step) = (k - 3) * Step
      BY <1>1, <1>2, Z3 DEF X85Size
    <3>6. k - 3 \in Nat
      <4>1. k - 3 < 0 => (k - 3) * Step < 0
        BY <1>1, <1>2, Z3
      <4> QED BY <1>1, <3>4, <3>5, <4>1
    <3> QED BY <3>1, <3>2, <3>3, <3>4, <3>5, <3>6
  <2> QED BY <2>1, <2>2
<1>5. TypeOK'
  <2>1. table' \in [layout : {"UNKNOWN", "X65", "X85"}, type : Header, base : Nat]
    BY <1>4 DEF Header
  <2> QED BY <1>1, <1>3, <2>1 DEF TypeOK
<1>6. TableInv'
  BY <1>3, <1>4 DEF TableInv
<1>7. ScanInv' /\ BlocksAreReadable'
  <2>1. \A b, i : ByteOffset(b, i)' = ByteOffset(b, i)
    BY DEF ByteOffset
  <2> QED BY <1>1, <1>3 DEF IInv, ScanInv, BlocksAreReadable, ByteOffset
<1> QED BY <1>5, <1>6, <1>7 DEF IInv

\* The other steps of the scan and of a table leave the blocks alone.
LEMMA OtherKeepsInv ==
    ASSUME IInv,
           \/ BadPartition \/ NoPartition \/ ScanEnds
           \/ FreeEnds65 \/ TableEnds85 \/ TableEnds65 \/ BadState65
           \/ PassOver \/ BadEntry \/ UNCHANGED vars
    PROVE  IInv'
<1>1. image' = image /\ blocks' = blocks
  BY DEF BadPartition, NoPartition, ScanEnds, FreeEnds65, TableEnds85, TableEnds65, BadState65,
         PassOver, BadEntry, Throw, CloseTable, vars
<1>2. BlocksAreReadable'
  BY <1>1 DEF IInv, BlocksAreReadable, ByteOffset
<1>3. offset \in Nat /\ Step \in Nat \ {0} /\ offset + Step \in Nat
  BY Sizes DEF IInv, TypeOK
<1>4. CASE BadPartition \/ TableEnds65 \/ BadState65 \/ BadEntry
  <2>1. pc' = "thrown" /\ UNCHANGED <<image, offset, layout, table, index, blocks>>
    BY <1>4 DEF BadPartition, TableEnds65, BadState65, BadEntry, Throw
  <2>2. TypeOK' /\ ScanInv' /\ TableInv'
    BY <2>1 DEF IInv, TypeOK, ScanInv, TableInv
  <2> QED BY <1>2, <2>2 DEF IInv
<1>5. CASE NoPartition
  <2>1. pc' = "scan" /\ offset' = offset + Step /\ UNCHANGED <<image, layout, table, index, blocks>>
    BY <1>5 DEF NoPartition
  <2>2. TypeOK' /\ TableInv'
    BY <1>3, <2>1 DEF IInv, TypeOK, TableInv
  <2>3. ScanInv'
    BY <2>1, NextStep DEF IInv
  <2> QED BY <1>2, <2>2, <2>3 DEF IInv
<1>6. CASE ScanEnds
  <2>1. pc' = "parsed" /\ UNCHANGED <<image, offset, layout, table, index, blocks>>
    BY <1>6 DEF ScanEnds
  <2>2. TypeOK' /\ ScanInv' /\ TableInv'
    BY <2>1 DEF IInv, TypeOK, ScanInv, TableInv
  <2> QED BY <1>2, <2>2 DEF IInv
<1>7. CASE FreeEnds65 \/ TableEnds85
  <2>1. /\ pc' = "scan" /\ offset' = offset + Step /\ layout' = table.layout /\ table' = NoTable
        /\ UNCHANGED <<image, index, blocks>>
    BY <1>7 DEF FreeEnds65, TableEnds85, CloseTable
  <2>2. table.layout \in {"UNKNOWN", "X65", "X85"}
    BY DEF IInv, TypeOK
  <2>3. NoTable \in [layout : {"UNKNOWN", "X65", "X85"}, type : Header, base : Nat]
    BY DEF NoTable, Header
  <2>4. TypeOK' /\ TableInv'
    BY <1>3, <2>1, <2>2, <2>3 DEF IInv, TypeOK, TableInv
  <2>5. ScanInv'
    BY <2>1, NextStep DEF IInv
  <2> QED BY <1>2, <2>4, <2>5 DEF IInv
<1>8. CASE PassOver
  <2>1. index' = index + 1 /\ UNCHANGED <<image, pc, offset, layout, table, blocks>>
    BY <1>8 DEF PassOver
  <2>2. index \in Nat /\ index + 1 \in Nat /\ (index >= 1 => index + 1 >= 1)
    BY DEF IInv, TypeOK
  <2>3. TypeOK' /\ ScanInv'
    BY <2>1, <2>2 DEF IInv, TypeOK, ScanInv
  <2>4. TableInv'
    BY <2>1, <2>2 DEF IInv, TableInv, PartitionSize, Is65
  <2> QED BY <1>2, <2>3, <2>4 DEF IInv
<1>9. CASE UNCHANGED vars
  <2>1. UNCHANGED <<image, pc, offset, layout, table, index, blocks>>
    BY <1>9 DEF vars
  <2>2. TypeOK' /\ ScanInv'
    BY <2>1 DEF IInv, TypeOK, ScanInv
  <2>3. TableInv'
    BY <2>1 DEF IInv, TableInv, PartitionSize, Is65
  <2> QED BY <1>2, <2>2, <2>3 DEF IInv
<1> QED BY <1>4, <1>5, <1>6, <1>7, <1>8, <1>9

\* A good entry adds a readable block, or leaves the first of its id.
LEMMA AddKeepsInv ==
    ASSUME IInv, AddBlock
    PROVE  IInv'
<1> DEFINE id == BlockId(CurrentEntry)
           data == Payload(CurrentEntry)
<1>1. data \in Block /\ IsReadable(data) /\ id \in 0 .. MaxId
  BY PayloadReadable DEF IInv, AddBlock
<1>2. blocks' = [i \in DOMAIN blocks \cup {id} |->
                    IF i = id /\ Replaces(id) THEN data ELSE blocks[i]]
  BY DEF AddBlock
<1>3. index' = index + 1 /\ UNCHANGED <<image, pc, offset, layout, table>>
  BY DEF AddBlock
<1>4. ~Replaces(id) => id \in DOMAIN blocks
  BY DEF Replaces
<1>5. \A i \in DOMAIN blocks : i \in 0 .. MaxId /\ blocks[i] \in Block /\ IsReadable(blocks[i])
  BY DEF IInv, TypeOK, BlocksAreReadable, IsReadable
<1> HIDE DEF id, data
<1>6. \A i \in DOMAIN blocks' : i \in 0 .. MaxId /\ blocks'[i] \in Block /\ IsReadable(blocks'[i])
  BY <1>1, <1>2, <1>4, <1>5
<1>7. index \in Nat /\ index + 1 \in Nat /\ (index >= 1 => index + 1 >= 1)
  BY DEF IInv, TypeOK
<1>8. TypeOK'
  BY <1>3, <1>6, <1>7 DEF IInv, TypeOK
<1>9. ScanInv'
  BY <1>3 DEF IInv, ScanInv
<1>10. TableInv'
  BY <1>3, <1>7 DEF IInv, TableInv, PartitionSize, Is65
<1>11. BlocksAreReadable'
  BY <1>3, <1>6 DEF BlocksAreReadable, IsReadable, ByteOffset
<1> QED BY <1>8, <1>9, <1>10, <1>11 DEF IInv

\* The invariant holds at the start.
LEMMA InitInv ==
    Init => IInv
<1> SUFFICES ASSUME Init PROVE IInv
  OBVIOUS
<1>1. DOMAIN blocks = {}
  BY DEF Init
<1>2. TypeOK
  BY <1>1 DEF Init, TypeOK, NoTable, Header
<1>3. ScanInv
  <2>1. offset = 0 /\ 0 * Step = 0 /\ 0 \in Nat
    BY Sizes DEF Init
  <2> QED BY <2>1 DEF ScanInv
<1>4. TableInv
  BY DEF Init, TableInv
<1> QED BY <1>1, <1>2, <1>3, <1>4 DEF IInv, BlocksAreReadable

\* Every step keeps the invariant.
LEMMA StepInv ==
    IInv /\ [Next]_vars => IInv'
  BY OpenKeepsInv, OtherKeepsInv, AddKeepsInv DEF Next, Constructed

LEMMA Invariance ==
    Spec => []IInv
  BY InitInv, StepInv, PTL DEF Spec

\* All variables keep their types.
THEOREM ParserTypeCorrect ==
    Spec => []TypeOK
<1>1. IInv => TypeOK
  BY DEF IInv
<1> QED BY <1>1, Invariance, PTL

\* readBlock and writeBlock stay in the image and give each byte of a block a
\* place of its own, whatever the fullflash.
THEOREM BlocksAlwaysReadable ==
    Spec => []BlocksAreReadable
<1>1. IInv => BlocksAreReadable
  BY DEF IInv
<1> QED BY <1>1, Invariance, PTL

\* Inline data never reaches its entry, its partition's start or a chunk of odd
\* number, whatever its size and the size of a chunk.
THEOREM InlineAlwaysBelowEntry ==
    Spec => []InlineEndsBelowEntry
<1>1. IInv => InlineEndsBelowEntry
  <2> SUFFICES ASSUME IInv, InTable, IsInline(CurrentEntry), IsGood(CurrentEntry),
                      NEW i \in 0 .. Stored(CurrentEntry).size - 1
               PROVE  (ByteOffset(Stored(CurrentEntry), i) \div Chunk) % 2 = 0
    BY InlineFits DEF IInv, InlineEndsBelowEntry
  <2> DEFINE stored == Stored(CurrentEntry)
  <2>1. PICK a, s : StartsAt(stored, a, s)
    BY InlineFits DEF IInv
  <2>2. a \in Nat /\ s \in Nat /\ stored.size \in Nat /\ Chunk \in Nat \ {0}
    BY <2>1, Sizes DEF StartsAt, Block
  <2>3. i \in Nat /\ s + i \in Nat
    BY <2>2
  <2> DEFINE u == (s + i) \div Chunk
             v == (s + i) % Chunk
  <2>4. u \in Nat /\ v \in Nat /\ v < Chunk /\ s + i = u * Chunk + v
    BY <2>2, <2>3, Quotient
  <2>5. ByteOffset(stored, i) = 2 * Chunk * a + s + i + u * Chunk
    BY <2>1, <2>3, Position
  <2> HIDE DEF stored, u, v
  <2>6. ByteOffset(stored, i) = (2 * (a + u)) * Chunk + v
    BY <2>2, <2>3, <2>4, <2>5, Z3
  <2>7. IsQuotient(ByteOffset(stored, i), Chunk, 2 * (a + u), v)
    <3>1. 2 * (a + u) \in Nat
      BY <2>2, <2>4
    <3> QED BY <2>2, <2>4, <2>6, <3>1 DEF IsQuotient
  <2>8. ByteOffset(stored, i) \div Chunk = 2 * (a + u)
    BY <2>7, DivMod
  <2>9. (2 * (a + u)) % 2 = 0
    BY <2>2, <2>4
  <2> QED BY <2>8, <2>9 DEF stored
<1> QED BY <1>1, Invariance, PTL

-----------------------------------------------------------------------------
(* Two entries with one id: which of them counts depends on the layout, so *)
(* that it matters that the layouts of an image do not mix.                *)

\* The table being read has the layout of the tables before it.
TableFollowsLayout ==
    /\ pc = "entries" => table.layout \in {"X65", "X85"}
    /\ pc = "entries" /\ layout # "UNKNOWN" => table.layout = layout

\* After the first table the layout is settled, and under that of X65 a block
\* that was found stays what it was, whatever entries follow.
LayoutIsSettled ==
    [][/\ layout # "UNKNOWN" => layout' = layout
       /\ layout = "X65" => \A id \in DOMAIN blocks : id \in DOMAIN blocks' /\ blocks'[id] = blocks[id]]_vars

\* The layouts do not mix (eeprom.cpp:86-104), so that the first entry of an id
\* counts throughout an X65 image (eeprom.cpp:148).
THEOREM LayoutsDoNotMix == Spec => LayoutIsSettled
<1>1. Init => TableFollowsLayout
  BY DEF Init, TableFollowsLayout
<1> USE DEF TableFollowsLayout
<1>2. TableFollowsLayout /\ [Next]_vars => TableFollowsLayout'
  <2> SUFFICES ASSUME TableFollowsLayout, [Next]_vars PROVE TableFollowsLayout'
    OBVIOUS
  <2>1. CASE Open65
    BY <2>1 DEF Open65, OpenTable, Finds65, Looks65
  <2>2. CASE Open85
    BY <2>2 DEF Open85, OpenTable, Looks85
  <2>3. CASE BadPartition \/ NoPartition \/ ScanEnds
    BY <2>3 DEF BadPartition, NoPartition, ScanEnds, Throw
  <2>4. CASE FreeEnds65 \/ TableEnds85
    BY <2>4 DEF FreeEnds65, TableEnds85, CloseTable
  <2>5. CASE TableEnds65 \/ BadState65 \/ BadEntry
    BY <2>5 DEF TableEnds65, BadState65, BadEntry, Throw
  <2>6. CASE PassOver \/ AddBlock
    BY <2>6 DEF PassOver, AddBlock
  <2>7. CASE UNCHANGED vars
    BY <2>7 DEF vars
  <2> QED BY <2>1, <2>2, <2>3, <2>4, <2>5, <2>6, <2>7 DEF Next, Constructed
<1>3. TableFollowsLayout /\ [Next]_vars =>
         [/\ layout # "UNKNOWN" => layout' = layout
          /\ layout = "X65" =>
                \A id \in DOMAIN blocks : id \in DOMAIN blocks' /\ blocks'[id] = blocks[id]]_vars
  <2> SUFFICES ASSUME TableFollowsLayout, Next
               PROVE  /\ layout # "UNKNOWN" => layout' = layout
                      /\ layout = "X65" => \A id \in DOMAIN blocks :
                            id \in DOMAIN blocks' /\ blocks'[id] = blocks[id]
    OBVIOUS
  <2>1. CASE AddBlock
    <3>1. layout' = layout /\ InTable
      BY <2>1 DEF AddBlock
    <3>2. ASSUME layout = "X65", NEW id \in DOMAIN blocks
          PROVE  id \in DOMAIN blocks' /\ blocks'[id] = blocks[id]
      <4>1. Is65
        BY <3>1, <3>2 DEF InTable, Is65
      <4>2. PICK new, found : blocks' = [i \in DOMAIN blocks \cup {new} |->
                                  IF i = new /\ Replaces(new) THEN found ELSE blocks[i]]
        BY <2>1 DEF AddBlock
      <4> QED BY <3>2, <4>1, <4>2 DEF Replaces
    <3> QED BY <3>1, <3>2
  <2>2. CASE FreeEnds65 \/ TableEnds85
    BY <2>2 DEF FreeEnds65, TableEnds85, CloseTable, InTable
  <2>3. CASE ~AddBlock /\ ~FreeEnds65 /\ ~TableEnds85
    BY <2>3 DEF Next, Constructed, vars, Open65, Open85, OpenTable, BadPartition, NoPartition, ScanEnds,
       TableEnds65, BadState65, PassOver, BadEntry, Throw
  <2> QED BY <2>1, <2>2, <2>3
<1> QED BY <1>1, <1>2, <1>3, PTL DEF Spec, LayoutIsSettled

=============================================================================
