---------------------------- MODULE StreamCipher ----------------------------
(***************************************************************************)
(* transformCipher, RC4's key schedule and a generator that the ciphertext *)
(* feeds back into, between its two users: recalculation encrypts a block  *)
(* in place under one key, and the ESN search decrypts copies of it in a   *)
(* batch of lanes, each lane under the key of one candidate.  The width of *)
(* a byte and the lengths of key and block are parameters.                 *)
(***************************************************************************)
EXTENDS Naturals

CONSTANTS
    ByteCount,      \* 256
    KeyLength,      \* 16, the size of an MD4 digest
    Length,         \* bytes of the block
    Lane,           \* lanes of a batch
    Xor(_, _),      \* ^ on bytes
    Digest,         \* MD4 digests considered
    Plain           \* blocks considered

Byte == 0 .. ByteCount - 1
Key == [0 .. KeyLength - 1 -> Byte]
StreamBlock == [0 .. Length - 1 -> Byte]

ASSUME StreamAssumption ==
    /\ ByteCount \in Nat \ {0} /\ KeyLength \in Nat \ {0} /\ Length \in Nat
    /\ Digest \subseteq Key
    /\ Plain \subseteq StreamBlock

ASSUME CancelAssumption ==
    \A a, b \in Byte : Xor(a, b) \in Byte /\ Xor(a, Xor(a, b)) = b

VARIABLES
    plain,      \* the block that recalculation generates
    key,        \* the digest of the key it encrypts with
    stored,     \* the block being encrypted in place, then the one in the flash
    writer,     \* the cipher state of the encryption
    keys,       \* the digests of the candidates' keys, one per lane
    copies,     \* the search's copies of the stored block
    readers,    \* the cipher states of the batch
    pc,         \* which loop of transformCipher runs for whom
    index       \* its loop variable

streamVars == <<plain, key, stored, writer, keys, copies, readers, pc, index>>

CipherState == [box : [Byte -> Byte], schedule : Byte, i : Byte, j : Byte, previous : Byte]

StreamTypeOK ==
    /\ plain \in Plain
    /\ key \in Digest
    /\ stored \in StreamBlock
    /\ writer \in CipherState
    /\ keys \in [Lane -> Digest]
    /\ copies \in [Lane -> StreamBlock]
    /\ readers \in [Lane -> CipherState]
    /\ pc \in {"schedule", "encrypt", "stored", "schedule batch", "decrypt batch", "searched"}
    /\ index \in (0 .. ByteCount) \cup (0 .. Length)

-----------------------------------------------------------------------------
FreshState ==
    [box |-> [b \in Byte |-> b], schedule |-> 0, i |-> 0, j |-> 0, previous |-> 0]

Swap(box, a, b) == [box EXCEPT ![a] = box[b], ![b] = box[a]]

\* One turn of the key schedule.
Schedule(state, k, n) ==
    LET at == (state.schedule + k[n % KeyLength] + state.box[n]) % ByteCount
    IN  [state EXCEPT !.box = Swap(@, n, at), !.schedule = at]

\* One turn of the generator, up to the byte it gives.
Turn(state) ==
    LET i == (state.i + 1) % ByteCount
        previous == (state.previous + state.box[i]) % ByteCount
        j == (state.j + previous) % ByteCount
    IN  [state EXCEPT !.i = i, !.j = j, !.previous = previous,
                      !.box = [[@ EXCEPT ![i] = state.box[j]] EXCEPT ![j] = previous]]

\* outputIndex is taken from the box before it changes, the byte from after.
Pad(state) ==
    LET after == Turn(state)
        output == (state.box[after.j] + after.previous) % ByteCount
    IN  after.box[output]

\* The byte of the ciphertext goes into the next turn.
Advance(state, cipherByte) == [Turn(state) EXCEPT !.previous = cipherByte]

-----------------------------------------------------------------------------
StreamInit ==
    /\ plain \in Plain
    /\ key \in Digest
    /\ stored = plain
    /\ writer = FreshState
    /\ keys = [l \in Lane |-> key]
    /\ copies = [l \in Lane |-> plain]
    /\ readers = [l \in Lane |-> FreshState]
    /\ pc = "schedule"
    /\ index = 0

EncryptSchedule ==
    /\ pc = "schedule"
    /\ IF index < ByteCount
       THEN /\ writer' = Schedule(writer, key, index)
            /\ index' = index + 1
            /\ UNCHANGED pc
       ELSE /\ index' = 0
            /\ pc' = "encrypt"
            /\ UNCHANGED writer
    /\ UNCHANGED <<plain, key, stored, keys, copies, readers>>

\* Slip: the plaintext is fed back, as decryption would.
EncryptFeedsPlain ==
    /\ pc = "encrypt"
    /\ IF index < Length
       THEN /\ stored' = [stored EXCEPT ![index] = Xor(Pad(writer), @)]
            /\ writer' = Advance(writer, stored[index])
            /\ index' = index + 1
            /\ UNCHANGED pc
       ELSE /\ pc' = "stored"
            /\ UNCHANGED <<stored, writer, index>>
    /\ UNCHANGED <<plain, key, keys, copies, readers>>

Encrypt ==
    /\ pc = "encrypt"
    /\ IF index < Length
       THEN LET cipherByte == Xor(Pad(writer), stored[index]) IN
            /\ stored' = [stored EXCEPT ![index] = cipherByte]
            /\ writer' = Advance(writer, cipherByte)
            /\ index' = index + 1
            /\ UNCHANGED pc
       ELSE /\ pc' = "stored"
            /\ UNCHANGED <<stored, writer, index>>
    /\ UNCHANGED <<plain, key, keys, copies, readers>>

\* A search batch copies the block into every lane.
StartBatch(candidates) ==
    /\ pc = "stored"
    /\ keys' = candidates
    /\ copies' = [l \in Lane |-> stored]
    /\ readers' = [l \in Lane |-> FreshState]
    /\ index' = 0
    /\ pc' = "schedule batch"
    /\ UNCHANGED <<plain, key, stored, writer>>

DecryptSchedule ==
    /\ pc = "schedule batch"
    /\ IF index < ByteCount
       THEN /\ readers' = [l \in Lane |-> Schedule(readers[l], keys[l], index)]
            /\ index' = index + 1
            /\ UNCHANGED pc
       ELSE /\ index' = 0
            /\ pc' = "decrypt batch"
            /\ UNCHANGED readers
    /\ UNCHANGED <<plain, key, stored, writer, keys, copies>>

Decrypt ==
    /\ pc = "decrypt batch"
    /\ IF index < Length
       THEN /\ copies' = [l \in Lane |-> [copies[l] EXCEPT ![index] = Xor(Pad(readers[l]), @)]]
            /\ readers' = [l \in Lane |-> Advance(readers[l], copies[l][index])]
            /\ index' = index + 1
            /\ UNCHANGED pc
       ELSE /\ pc' = "searched"
            /\ UNCHANGED <<copies, readers, index>>
    /\ UNCHANGED <<plain, key, stored, writer, keys>>

WriteBlock == EncryptSchedule \/ Encrypt
ReadBatch == DecryptSchedule \/ Decrypt

StreamNext ==
    \/ WriteBlock
    \/ \E candidates \in [Lane -> Digest] : StartBatch(candidates)
    \/ ReadBatch

StreamSpec == StreamInit /\ [][StreamNext]_streamVars

-----------------------------------------------------------------------------
\* The lane whose candidate has the key of the block reads what recalculation
\* has written, whatever the other lanes hold: a search never misses the ESN of
\* an intact block.
RightLaneReads ==
    pc = "searched" => \A l \in Lane : keys[l] = key => copies[l] = plain

=============================================================================
