------------------------ MODULE StringTransferProofs ------------------------
(***************************************************************************)
(* String transfers for strings, chunks, buffers and memories of any size. *)
(***************************************************************************)
EXTENDS StringTransfer, SequenceTheorems, TLAPS

-----------------------------------------------------------------------------
(* Bytes and words.                                                        *)

LEMMA DivMod ==
  ASSUME NEW n \in Nat
  PROVE  /\ n \div Base \in Nat
         /\ n % Base \in Byte
         /\ n = Base * (n \div Base) + (n % Base)
<1>1. Base \in Int /\ Base > 0
  BY BaseAssumption
<1>2. n \div Base \in Int /\ n % Base \in 0 .. Base - 1
  BY <1>1
<1>3. n = Base * (n \div Base) + (n % Base)
  BY <1>1
<1>4. n \div Base >= 0
  BY <1>1
<1>5. QED
  BY <1>2, <1>3, <1>4 DEF Byte

LEMMA DivBelow ==
  ASSUME NEW n \in Nat, NEW k \in Nat, n < Base * k
  PROVE  n \div Base < k
<1>1. n \div Base \in Nat /\ Base * (n \div Base) <= n
  BY DivMod, BaseAssumption DEF Byte
<1>2. ASSUME k <= n \div Base PROVE FALSE
  <2>1. Base * k <= Base * (n \div Base)
    BY <1>1, <1>2, BaseAssumption
  <2> QED
    BY <1>1, <2>1, BaseAssumption
<1>3. QED
  BY <1>1, <1>2

LEMMA ProductNat == \A m, n \in Nat : m * n \in Nat
OBVIOUS

(***************************************************************************)
(* from_le_bytes undoes to_le_bytes.                                       *)
(***************************************************************************)
LEMMA LeBytes ==
  ASSUME NEW n \in U32
  PROVE  /\ ToLe(n) \in Seq(Byte)
         /\ Len(ToLe(n)) = 4
         /\ FromLe(ToLe(n)) = n
<1> DEFINE d1 == n \div Base
           d2 == d1 \div Base
           d3 == d2 \div Base
<1>1. n \in Nat /\ n < AddressSpace /\ Base \in Nat
  BY BaseAssumption, ProductNat DEF U32, AddressSpace
<1>2. /\ Base * Base \in Nat
      /\ Base * (Base * Base) \in Nat
  BY <1>1, ProductNat
<1>3. d1 \in Nat /\ d1 < Base * (Base * Base)
  BY <1>1, <1>2, DivMod, DivBelow DEF AddressSpace
<1>4. d2 \in Nat /\ d2 < Base * Base
  BY <1>2, <1>3, DivMod, DivBelow
<1>5. d3 \in Nat /\ d3 < Base
  BY <1>1, <1>4, DivMod, DivBelow
<1>6. /\ n % Base \in Byte /\ d1 % Base \in Byte /\ d2 % Base \in Byte
      /\ d3 % Base = d3 /\ d3 \in Byte
  BY <1>1, <1>3, <1>4, <1>5, DivMod, BaseAssumption DEF Byte
<1>7. /\ d2 = (d2 % Base) + Base * d3
      /\ d1 = (d1 % Base) + Base * d2
      /\ n = (n % Base) + Base * d1
  <2> HIDE DEF d1, d2, d3
  <2>1. \A m \in Nat : m = (m % Base) + Base * (m \div Base)
    <3> TAKE m \in Nat
    <3>1. m = Base * (m \div Base) + (m % Base)
      BY DivMod
    <3>2. m \div Base \in Nat /\ m % Base \in Nat
      BY DivMod DEF Byte
    <3>3. Base * (m \div Base) \in Nat
      BY <1>1, <3>2, ProductNat
    <3>4. QED
      BY <3>1, <3>2, <3>3
  <2>2. d2 = (d2 % Base) + Base * d3
    BY <1>4, <2>1 DEF d3
  <2>3. d1 = (d1 % Base) + Base * d2
    BY <1>3, <2>1 DEF d2
  <2>4. n = (n % Base) + Base * d1
    BY <1>1, <2>1 DEF d1
  <2>5. QED
    BY <2>2, <2>3, <2>4
<1>8. ToLe(n) = <<n % Base, d1 % Base, d2 % Base, d3 % Base>>
  BY DEF ToLe
<1> HIDE DEF d1, d2, d3
<1>9. FromLe(ToLe(n)) = n
  BY <1>6, <1>7, <1>8 DEF FromLe
<1>10. QED
  BY <1>6, <1>8, <1>9

LEMMA WordNat == ASSUME NEW bytes \in [1 .. 4 -> Byte] PROVE FromLe(bytes) \in Nat
<1>1. /\ bytes[1] \in Nat /\ bytes[2] \in Nat /\ bytes[3] \in Nat
      /\ bytes[4] \in Nat /\ Base \in Nat
  BY BaseAssumption DEF Byte
<1>2. Base * bytes[4] \in Nat
  BY <1>1, ProductNat
<1>3. Base * (bytes[3] + Base * bytes[4]) \in Nat
  BY <1>1, <1>2, ProductNat
<1>4. Base * (bytes[2] + Base * (bytes[3] + Base * bytes[4])) \in Nat
  BY <1>1, <1>3, ProductNat
<1>5. QED
  BY <1>1, <1>4 DEF FromLe

-----------------------------------------------------------------------------
(* Reading and writing a memory.                                           *)

LEMMA FunctionSeq ==
  ASSUME NEW S, NEW n \in Nat, NEW f \in [1 .. n -> S]
  PROVE  f \in Seq(S) /\ Len(f) = n
<1>1. f \in Seq(S)
  OBVIOUS
<1>2. DOMAIN f = 1 .. n /\ DOMAIN f = 1 .. Len(f) /\ Len(f) \in Nat
  BY <1>1, LenProperties
<1>3. QED
  BY <1>1, <1>2

LEMMA PeekSeq ==
  ASSUME NEW m \in Nat, NEW mem \in [0 .. m - 1 -> Byte],
         NEW offset \in Nat, NEW length \in Nat, offset + length <= m
  PROVE  /\ Peek(mem, offset, length) \in Seq(Byte)
         /\ Len(Peek(mem, offset, length)) = length
         /\ Peek(mem, offset, length) \in [1 .. length -> Byte]
         /\ \A i \in 1 .. length :
              Peek(mem, offset, length)[i] = mem[offset + i - 1]
<1>1. \A i \in 1 .. length : mem[offset + i - 1] \in Byte
  OBVIOUS
<1>2. Peek(mem, offset, length) \in [1 .. length -> Byte]
  BY <1>1 DEF Peek
<1>3. QED
  BY <1>2, FunctionSeq DEF Peek

LEMMA PokeMemory ==
  ASSUME NEW m \in Nat, NEW mem \in [0 .. m - 1 -> Byte],
         NEW offset \in Nat, NEW bytes \in Seq(Byte)
  PROVE  /\ Poke(mem, offset, bytes) \in [0 .. m - 1 -> Byte]
         /\ \A a \in 0 .. m - 1 :
              a \in offset .. offset + Len(bytes) - 1 =>
                Poke(mem, offset, bytes)[a] = bytes[a - offset + 1]
         /\ \A a \in 0 .. m - 1 :
              a \notin offset .. offset + Len(bytes) - 1 =>
                Poke(mem, offset, bytes)[a] = mem[a]
<1>1. DOMAIN mem = 0 .. m - 1
  OBVIOUS
<1>2. ASSUME NEW a \in 0 .. m - 1, a \in offset .. offset + Len(bytes) - 1
      PROVE  bytes[a - offset + 1] \in Byte
  <2>1. a - offset + 1 \in 1 .. Len(bytes)
    BY <1>2, LenProperties
  <2>2. QED
    BY <2>1, ElementOfSeq
<1>3. QED
  BY <1>1, <1>2 DEF Poke

(***************************************************************************)
(* A word that lies in the memory reads as what was written to it.         *)
(***************************************************************************)
LEMMA WordRoundTrip ==
  ASSUME NEW m \in Nat, NEW mem \in [0 .. m - 1 -> Byte],
         NEW offset \in Nat, offset + 4 <= m, NEW n \in U32
  PROVE  FromLe(Peek(Poke(mem, offset, ToLe(n)), offset, 4)) = n
<1> DEFINE poked == Poke(mem, offset, ToLe(n))
<1>1. /\ ToLe(n) \in Seq(Byte) /\ Len(ToLe(n)) = 4
      /\ FromLe(ToLe(n)) = n
  BY LeBytes
<1>2. poked \in [0 .. m - 1 -> Byte]
  BY <1>1, PokeMemory
<1>3. \A a \in offset .. offset + 3 : poked[a] = ToLe(n)[a - offset + 1]
  <2>1. \A a \in 0 .. m - 1 :
          a \in offset .. offset + Len(ToLe(n)) - 1 =>
            poked[a] = ToLe(n)[a - offset + 1]
    BY <1>1, PokeMemory
  <2> HIDE DEF poked
  <2>2. offset .. offset + 3 \subseteq 0 .. m - 1
    OBVIOUS
  <2>3. offset + Len(ToLe(n)) - 1 = offset + 3
    BY <1>1
  <2>4. QED
    BY <2>1, <2>2, <2>3
<1>4. \A i \in 1 .. 4 : Peek(poked, offset, 4)[i] = poked[offset + i - 1]
  <2> HIDE DEF poked
  <2>1. QED
    BY DEF Peek
<1>5. \A i \in 1 .. 4 : Peek(poked, offset, 4)[i] = ToLe(n)[i]
  <2> HIDE DEF poked
  <2> TAKE i \in 1 .. 4
  <2>1. offset + i - 1 \in offset .. offset + 3 /\ (offset + i - 1) - offset + 1 = i
    OBVIOUS
  <2>2. poked[offset + i - 1] = ToLe(n)[i]
    BY <1>3, <2>1
  <2>3. QED
    BY <1>4, <2>2
<1>6. FromLe(Peek(poked, offset, 4)) = FromLe(ToLe(n))
  BY <1>5 DEF FromLe
<1>7. QED
  BY <1>1, <1>6

-----------------------------------------------------------------------------
(* Pieces of a string.                                                     *)

Agrees(r) == Len(r) <= Len(text) /\ \A i \in 1 .. Len(r) : r[i] = text[i]

LEMMA AgreesIsPrefix ==
  ASSUME text \in Seq(Byte), NEW r \in Seq(Byte), Agrees(r)
  PROVE  IsPrefix(r, text) /\ (Len(r) = Len(text) => r = text)
<1>1. /\ Len(r) \in Nat /\ Len(text) \in Nat /\ Len(r) <= Len(text)
      /\ \A i \in 1 .. Len(r) : r[i] = text[i]
  BY LenProperties DEF Agrees
<1>2. SubSeq(r, 1, Len(r)) = r
  BY SubSeqFull
<1>3. /\ SubSeq(text, 1, Len(r)) \in Seq(Byte)
      /\ Len(SubSeq(text, 1, Len(r))) = Len(r)
      /\ \A i \in 1 .. Len(r) : SubSeq(text, 1, Len(r))[i] = text[i]
  <2>1. \A i \in 1 .. Len(r) : text[i] \in Byte
    BY <1>1, ElementOfSeq
  <2>2. /\ SubSeq(text, 1, Len(r)) \in Seq(Byte)
        /\ Len(SubSeq(text, 1, Len(r)))
             = IF 1 <= Len(r) THEN Len(r) - 1 + 1 ELSE 0
        /\ \A i \in 1 .. Len(r) - 1 + 1 :
             SubSeq(text, 1, Len(r))[i] = text[1 + i - 1]
    BY <1>1, <2>1, SubSeqProperties
  <2>3. QED
    BY <1>1, <2>2
<1>4. r = SubSeq(text, 1, Len(r))
  BY <1>1, <1>3, SeqEqual
<1>5. IsPrefix(r, text)
  BY <1>1, <1>2, <1>4 DEF IsPrefix
<1>6. Len(r) = Len(text) => r = text
  BY <1>1, SeqEqual
<1>7. QED
  BY <1>5, <1>6

LEMMA AgreesExtends ==
  ASSUME text \in Seq(Byte), NEW r \in Seq(Byte), NEW c \in Seq(Byte), Agrees(r),
         Len(r) + Len(c) <= Len(text),
         \A i \in 1 .. Len(c) : c[i] = text[Len(r) + i]
  PROVE  Agrees(r \o c) /\ Len(r \o c) = Len(r) + Len(c)
<1>1. /\ Len(r) \in Nat /\ Len(c) \in Nat
      /\ Len(r \o c) = Len(r) + Len(c)
      /\ \A i \in 1 .. Len(r) + Len(c) :
           (r \o c)[i] = IF i <= Len(r) THEN r[i] ELSE c[i - Len(r)]
  BY ConcatProperties, LenProperties
<1>2. ASSUME NEW i \in 1 .. Len(r) + Len(c) PROVE (r \o c)[i] = text[i]
  <2>1. CASE i <= Len(r)
    BY <1>1, <2>1 DEF Agrees
  <2>2. CASE i > Len(r)
    <3>1. i - Len(r) \in 1 .. Len(c) /\ Len(r) + (i - Len(r)) = i
      BY <1>1, <2>2
    <3>2. c[i - Len(r)] = text[i]
      BY <3>1
    <3>3. QED
      BY <1>1, <2>2, <3>2
  <2>3. QED
    BY <1>1, <2>1, <2>2
<1>3. QED
  BY <1>1, <1>2 DEF Agrees

-----------------------------------------------------------------------------
(* The inductive invariant.                                                *)

\* Whose turn it is tells what was called.
PhaseOfCall ==
  /\ phase \in {"pull", "more", "last"} => Pulling
  /\ phase = "push" => Pushing
  /\ phase = "idle" => args = NoArgs /\ received = << >>

\* A chunk on its way lies in the buffer, and all but the last are full.
ChunkInBuffer ==
  /\ phase \in {"more", "last"} =>
       written <= args.buffer_len /\ args.buffer_ptr + written <= size
  /\ phase = "more" => written = Chunk

\* Before its first chunk the word holds what the guest left in it.
FirstOffset ==
  phase = "pull" /\ received = << >> /\ WordReadable =>
    Offset = (IF args.offset_ptr = 0 THEN 0 ELSE leftover)

\* A transfer that has begun well goes on well.
NextCallSucceeds ==
  phase = "more" \/ (phase = "pull" /\ received # << >>) =>
    /\ WordReadable
    /\ Offset < Len(text)
    /\ Chunk <= args.buffer_len
    /\ args.buffer_ptr + Chunk <= size

\* Of a guest that keeps to the protocol, the word says what has arrived.
PositionInWord ==
  Pulling /\ Disciplined =>
    /\ Agrees(received)
    /\ phase = "pull" /\ WordReadable => Offset = Len(received)
    /\ phase = "more" => /\ args.offset_ptr # 0
                         /\ Offset = Len(received) + written
    /\ phase = "last" => Len(received) + written = Len(text)
    /\ phase \in {"more", "last"} =>
         /\ Len(received) + written <= Len(text)
         /\ \A i \in 1 .. written :
              memory[args.buffer_ptr + i - 1] = text[Len(received) + i]
    /\ phase = "done" => Len(received) = Len(text)

\* A pushed string stays where the guest has put it.
StringInMemory ==
  phase = "push" =>
    \A a \in 0 .. size - 1 :
      a \in args.buffer_ptr .. args.buffer_ptr + Len(text) - 1 =>
        memory[a] = text[a - args.buffer_ptr + 1]

PushedSoFar ==
  Pushing =>
    \/ /\ Agrees(received)
       /\ phase = "done" => Len(received) = Len(text)
       /\ received # << >> => args.buffer_ptr + Len(received) <= size
    \/ size = AddressSpace /\ args.buffer_ptr + Len(received) > size

TransferInv ==
  /\ TypeOK
  /\ PhaseOfCall
  /\ ChunkInBuffer
  /\ FirstOffset
  /\ NextCallSucceeds
  /\ PositionInWord
  /\ PullFailsFirst
  /\ StringInMemory
  /\ PushedSoFar

-----------------------------------------------------------------------------
(* What a call of write_string_chunks reads and writes.                    *)

LEMMA AddressSpaceNat == AddressSpace \in Nat /\ AddressSpace > 0
<1>1. Base \in Nat /\ Base > 0
  BY BaseAssumption
<1>2. Base * Base \in Nat /\ Base * Base > 0
  BY <1>1
<1>3. Base * (Base * Base) \in Nat /\ Base * (Base * Base) > 0
  BY <1>1, <1>2
<1>4. Base * (Base * (Base * Base)) \in Nat /\ Base * (Base * (Base * Base)) > 0
  BY <1>1, <1>3
<1>5. QED
  BY <1>4 DEF AddressSpace

LEMMA TypedNumbers ==
  ASSUME TypeOK
  PROVE  /\ size \in Nat /\ size <= AddressSpace
         /\ memory \in [0 .. size - 1 -> Byte] /\ DOMAIN memory = 0 .. size - 1
         /\ args.call \in Calls
         /\ args.buffer_ptr \in Nat /\ args.buffer_len \in Nat
         /\ args.offset_ptr \in Nat /\ leftover \in Nat
         /\ args.buffer_ptr < AddressSpace
         /\ text \in Seq(Byte) /\ Len(text) \in Nat /\ Len(text) \in U32
         /\ written \in Nat /\ written <= Chunk
         /\ received \in Seq(Byte) /\ Len(received) \in Nat
         /\ Chunk \in Nat /\ Chunk > 0 /\ MaxString \in Nat
<1>1. size \in Nat /\ size <= AddressSpace
  BY AddressSpaceNat DEF TypeOK
<1>2. memory \in [0 .. size - 1 -> Byte] /\ DOMAIN memory = 0 .. size - 1
  BY DEF TypeOK
<1>3. /\ args.call \in Calls
      /\ args.buffer_ptr \in U32 /\ args.buffer_len \in U32
      /\ args.offset_ptr \in U32 /\ leftover \in U32
  BY DEF TypeOK, Args
<1>4. \A n \in U32 : n \in Nat /\ n < AddressSpace
  BY AddressSpaceNat DEF U32
<1>5. /\ text \in Seq(Byte) /\ Len(text) \in U32
      /\ received \in Seq(Byte) /\ Len(received) \in Nat
  BY LenProperties DEF TypeOK
<1>6. /\ written \in Nat /\ written <= Chunk
      /\ Chunk \in Nat /\ Chunk > 0 /\ MaxString \in Nat
  BY ChunkAssumption, MaxStringAssumption DEF TypeOK
<1>7. QED
  BY <1>1, <1>2, <1>3, <1>4, <1>5, <1>6

LEMMA OffsetNat ==
  ASSUME TypeOK, WordReadable
  PROVE  /\ Offset \in Nat
         /\ args.offset_ptr # 0 => args.offset_ptr + 4 <= size
<1>1. CASE args.offset_ptr = 0
  BY <1>1 DEF Offset
<1>2. CASE args.offset_ptr # 0
  <2>1. args.offset_ptr + 4 <= size
    BY <1>2 DEF WordReadable, Readable, InBounds
  <2>2. Peek(memory, args.offset_ptr, 4) \in [1 .. 4 -> Byte]
    BY <2>1, TypedNumbers, PeekSeq
  <2>3. QED
    BY <1>2, <2>1, <2>2, WordNat DEF Offset
<1>3. QED
  BY <1>1, <1>2

LEMMA ChunkOfCall ==
  ASSUME TypeOK, ~PullTraps, ~PullPanics
  PROVE  /\ WordReadable
         /\ Offset \in Nat /\ Offset <= Len(text)
         /\ ChunkEnd \in U32 /\ ChunkEnd \in Nat
         /\ Offset <= ChunkEnd /\ ChunkEnd <= Len(text)
         /\ ChunkLen \in 0 .. Chunk /\ ChunkLen \in Nat
         /\ ChunkLen <= args.buffer_len
         /\ args.buffer_ptr + ChunkLen <= size
         /\ ChunkEnd = Offset + ChunkLen
         /\ ChunkEnd < Len(text) => ChunkLen = Chunk
<1>1. WordReadable /\ BufferFits /\ ~(Offset > Len(text))
  BY DEF PullTraps, PullPanics
<1>2. Offset \in Nat /\ Offset <= Len(text)
  BY <1>1, OffsetNat, TypedNumbers
<1>3. /\ ChunkEnd \in Nat /\ Offset <= ChunkEnd /\ ChunkEnd <= Len(text)
      /\ ChunkEnd <= Offset + Chunk
      /\ ChunkEnd < Len(text) => ChunkEnd = Offset + Chunk
  <2>1. Len(text) \in Nat /\ Chunk \in Nat
    BY TypedNumbers
  <2>2. QED
    BY <1>2, <2>1 DEF ChunkEnd
<1>4. ChunkEnd \in U32
  BY <1>3, TypedNumbers, AddressSpaceNat DEF U32
<1>5. /\ ChunkLen <= args.buffer_len
      /\ args.buffer_ptr + ChunkLen <= size
  BY <1>1 DEF BufferFits, Writable, InBounds
<1>6. /\ ChunkLen \in 0 .. Chunk /\ ChunkLen \in Nat
      /\ ChunkEnd = Offset + ChunkLen
      /\ ChunkEnd < Len(text) => ChunkLen = Chunk
  <2>1. ChunkLen = ChunkEnd - Offset
    BY DEF ChunkLen
  <2>2. Chunk \in Nat /\ Len(text) \in Nat
    BY TypedNumbers
  <2>3. ChunkLen \in Nat /\ ChunkLen <= Chunk /\ ChunkEnd = Offset + ChunkLen
    BY <1>2, <1>3, <2>1, <2>2
  <2>4. QED
    BY <1>2, <1>3, <2>2, <2>3
<1>7. QED
  BY <1>1, <1>2, <1>3, <1>4, <1>5, <1>6

LEMMA PlaceInBuffer ==
  ASSUME NEW p \in Nat, NEW n \in Nat, NEW s \in Nat, p + n <= s,
         NEW l \in Nat, n <= l, NEW i \in 1 .. n
  PROVE  /\ p + i - 1 \in 0 .. s - 1
         /\ p + i - 1 \in p .. p + l - 1
         /\ p + i - 1 \in p .. p + n - 1
         /\ (p + i - 1) - p + 1 = i
OBVIOUS

LEMMA BufferedChunk ==
  ASSUME TypeOK, ~PullTraps, ~PullPanics
  PROVE  /\ Buffered \in [0 .. size - 1 -> Byte]
         /\ \A i \in 1 .. ChunkLen :
              Buffered[args.buffer_ptr + i - 1] = text[Offset + i]
         /\ \A a \in 0 .. size - 1 :
              a \notin args.buffer_ptr .. args.buffer_ptr + args.buffer_len - 1
                => Buffered[a] = memory[a]
<1> DEFINE chunk == SubSeq(text, Offset + 1, ChunkEnd)
<1>0. /\ size \in Nat /\ memory \in [0 .. size - 1 -> Byte]
      /\ args.buffer_ptr \in Nat /\ args.buffer_len \in Nat
  BY TypedNumbers
<1>1. /\ Offset \in Nat /\ ChunkEnd \in Nat /\ ChunkLen \in Nat
      /\ Offset <= ChunkEnd /\ ChunkEnd <= Len(text)
      /\ ChunkEnd = Offset + ChunkLen
      /\ ChunkLen <= args.buffer_len
      /\ args.buffer_ptr + ChunkLen <= size
  BY ChunkOfCall
<1>2. \A i \in Offset + 1 .. ChunkEnd : text[i] \in Byte
  <2>1. text \in Seq(Byte)
    BY TypedNumbers
  <2>2. Offset + 1 .. ChunkEnd \subseteq 1 .. Len(text)
    BY <1>1, TypedNumbers
  <2>3. QED
    BY <2>1, <2>2, ElementOfSeq
<1>3. /\ chunk \in Seq(Byte)
      /\ Len(chunk) = IF Offset + 1 <= ChunkEnd THEN ChunkEnd - (Offset + 1) + 1 ELSE 0
      /\ \A i \in 1 .. ChunkEnd - (Offset + 1) + 1 :
           chunk[i] = text[(Offset + 1) + i - 1]
  BY <1>1, <1>2, SubSeqProperties
<1>4. /\ Len(chunk) = ChunkLen
      /\ \A i \in 1 .. ChunkLen : chunk[i] = text[Offset + i]
  BY <1>1, <1>3
<1>5. Buffered = Poke(memory, args.buffer_ptr, chunk)
  BY DEF Buffered
<1> HIDE DEF chunk
<1>6. /\ Buffered \in [0 .. size - 1 -> Byte]
      /\ \A a \in 0 .. size - 1 :
           a \in args.buffer_ptr .. args.buffer_ptr + Len(chunk) - 1 =>
             Buffered[a] = chunk[a - args.buffer_ptr + 1]
      /\ \A a \in 0 .. size - 1 :
           a \notin args.buffer_ptr .. args.buffer_ptr + Len(chunk) - 1 =>
             Buffered[a] = memory[a]
  <2>1. chunk \in Seq(Byte)
    BY <1>3
  <2>2. Poke(memory, args.buffer_ptr, chunk) \in [0 .. size - 1 -> Byte]
    BY <1>0, <2>1, PokeMemory
  <2>3. \A a \in 0 .. size - 1 :
          a \in args.buffer_ptr .. args.buffer_ptr + Len(chunk) - 1 =>
            Poke(memory, args.buffer_ptr, chunk)[a] = chunk[a - args.buffer_ptr + 1]
    BY <1>0 DEF Poke
  <2>4. \A a \in 0 .. size - 1 :
          a \notin args.buffer_ptr .. args.buffer_ptr + Len(chunk) - 1 =>
            Poke(memory, args.buffer_ptr, chunk)[a] = memory[a]
    BY <1>0 DEF Poke
  <2>5. QED
    BY <1>5, <2>2, <2>3, <2>4
<1>7. ASSUME NEW i \in 1 .. ChunkLen
      PROVE  Buffered[args.buffer_ptr + i - 1] = text[Offset + i]
  <2>1. /\ args.buffer_ptr + i - 1 \in 0 .. size - 1
        /\ args.buffer_ptr + i - 1
             \in args.buffer_ptr .. args.buffer_ptr + Len(chunk) - 1
        /\ (args.buffer_ptr + i - 1) - args.buffer_ptr + 1 = i
    <3>1. /\ args.buffer_ptr \in Nat
          /\ size \in Nat
          /\ ChunkLen \in Nat
          /\ args.buffer_ptr + ChunkLen <= size
      BY <1>0, <1>1
    <3>2. Len(chunk) = ChunkLen
      BY <1>4
    <3>3. QED
      BY <3>1, <3>2, PlaceInBuffer, SMTT(20)
  <2>2. Buffered[args.buffer_ptr + i - 1] = chunk[i]
    BY <1>6, <2>1
  <2>3. QED
    BY <1>4, <2>2
<1>8. \A a \in 0 .. size - 1 :
        a \notin args.buffer_ptr .. args.buffer_ptr + args.buffer_len - 1
          => Buffered[a] = memory[a]
  <2>1. args.buffer_ptr .. args.buffer_ptr + ChunkLen - 1
          \subseteq args.buffer_ptr .. args.buffer_ptr + args.buffer_len - 1
    BY <1>0, <1>1
  <2>2. QED
    BY <1>4, <1>6, <2>1
<1>9. QED
  BY <1>6, <1>7, <1>8

-----------------------------------------------------------------------------
(* The invariant holds when a transfer begins.                             *)

LEMMA ZeroByte == 0 \in Byte /\ 0 \in U32
BY BaseAssumption, AddressSpaceNat DEF Byte, U32

LEMMA TransferInit == Init => TransferInv
<1> SUFFICES ASSUME Init PROVE TransferInv
  OBVIOUS
<1>1. /\ size \in 0 .. AddressSpace
      /\ memory = [a \in 0 .. size - 1 |-> 0]
      /\ phase = "idle" /\ text = << >> /\ args = NoArgs /\ leftover = 0
      /\ written = 0 /\ received = << >>
  BY SizesAssumption DEF Init
<1>2. TypeOK
  <2>1. memory \in [0 .. size - 1 -> Byte]
    BY <1>1, ZeroByte
  <2>2. args \in Args
    BY <1>1, ZeroByte DEF Args, NoArgs, Calls
  <2>3. /\ text \in Seq(Byte) /\ Len(text) \in U32 /\ received \in Seq(Byte)
        /\ leftover \in U32
    BY <1>1, ZeroByte
  <2>4. written \in 0 .. Chunk
    BY <1>1, ChunkAssumption
  <2>5. QED
    BY <1>1, <2>1, <2>2, <2>3, <2>4 DEF TypeOK
<1>3. ~Pulling /\ ~Pushing
  BY <1>1 DEF NoArgs, Pulling, Pushing
<1>4. QED
  BY <1>1, <1>2, <1>3 DEF TransferInv, PhaseOfCall, ChunkInBuffer, FirstOffset,
     NextCallSucceeds, PositionInWord, PullFailsFirst, StringInMemory, PushedSoFar

(***************************************************************************)
(* A pull begins with the guest's own position, whatever it is.            *)
(***************************************************************************)
LEMMA BeginPullKeepsInv ==
  ASSUME TransferInv, BeginPull
  PROVE  TransferInv'
<1>1. PICK t \in Texts, p \in Pointers, n \in Lengths, q \in Pointers,
           v \in Leftovers :
        /\ text' = t
        /\ args' = [call |-> "write_string_chunks", buffer_ptr |-> p,
                    buffer_len |-> n, offset_ptr |-> q]
        /\ leftover' = v
        /\ memory' = IF q = 0 THEN memory ELSE Poke(memory, q, ToLe(v))
  BY DEF BeginPull
<1>2. /\ phase = "idle" /\ phase' = "pull" /\ received = << >>
      /\ size' = size /\ written' = written /\ received' = received
  BY DEF BeginPull, TransferInv, PhaseOfCall
<1>3. /\ t \in Seq(Byte) /\ Len(t) \in U32
      /\ p \in U32 /\ n \in U32 /\ q \in U32 /\ v \in U32
  BY TextsAssumption, ArgumentsAssumption
<1>4. /\ size \in Nat /\ memory \in [0 .. size - 1 -> Byte]
      /\ q \in Nat /\ TypeOK /\ Len(t) \in Nat
  BY <1>3, TypedNumbers, AddressSpaceNat DEF TransferInv, U32
<1>5. memory' \in [0 .. size - 1 -> Byte]
  <2>1. ToLe(v) \in Seq(Byte)
    BY <1>3, LeBytes
  <2>2. Poke(memory, q, ToLe(v)) \in [0 .. size - 1 -> Byte]
    BY <1>4, <2>1, PokeMemory
  <2>3. QED
    BY <1>1, <1>4, <2>2
<1>6. TypeOK'
  <2>1. args' \in Args
    BY <1>1, <1>3 DEF Args, Calls
  <2>2. QED
    BY <1>1, <1>2, <1>3, <1>4, <1>5, <2>1 DEF TypeOK
<1>7. Pulling' /\ ~Pushing'
  BY <1>1 DEF Pulling, Pushing
<1>8. WordReadable' => Offset' = (IF q = 0 THEN 0 ELSE v)
  <2>1. CASE q = 0
    BY <1>1, <2>1 DEF Offset
  <2>2. CASE q # 0
    <3>1. WordReadable' => q + 4 <= size
      BY <1>1, <1>2, <2>2 DEF WordReadable, Readable, InBounds
    <3>2. Offset' = FromLe(Peek(Poke(memory, q, ToLe(v)), q, 4))
      BY <1>1, <2>2 DEF Offset
    <3>3. QED
      BY <1>3, <1>4, <2>2, <3>1, <3>2, WordRoundTrip
  <2>3. QED
    BY <2>1, <2>2
<1>9. PhaseOfCall' /\ ChunkInBuffer' /\ NextCallSucceeds'
  BY <1>2, <1>7 DEF PhaseOfCall, ChunkInBuffer, NextCallSucceeds
<1>10. FirstOffset'
  BY <1>1, <1>8 DEF FirstOffset
<1>11. PositionInWord'
  <2>1. Agrees(received)' /\ Len(received') = 0
    BY <1>1, <1>2, <1>4 DEF Agrees
  <2>2. Disciplined' => v = 0
    BY <1>1 DEF Disciplined
  <2>3. QED
    BY <1>2, <1>8, <2>1, <2>2 DEF PositionInWord
<1>12. PullFailsFirst' /\ StringInMemory' /\ PushedSoFar'
  BY <1>2, <1>7 DEF PullFailsFirst, StringInMemory, PushedSoFar, Failed
<1>13. QED
  BY <1>6, <1>9, <1>10, <1>11, <1>12 DEF TransferInv

(***************************************************************************)
(* A push begins with the string in the guest's memory.                    *)
(***************************************************************************)
LEMMA BeginPushKeepsInv ==
  ASSUME TransferInv, BeginPush
  PROVE  TransferInv'
<1>1. PICK t \in Texts, p \in Pointers, n \in Lengths :
        /\ text' = t
        /\ args' = [call |-> "read_string_chunks", buffer_ptr |-> p,
                    buffer_len |-> n, offset_ptr |-> 0]
        /\ memory' = Poke(memory, p, t)
  BY DEF BeginPush
<1>2. /\ phase = "idle" /\ phase' = "push" /\ received = << >>
      /\ size' = size /\ written' = written /\ received' = received
      /\ leftover' = leftover
  BY DEF BeginPush, TransferInv, PhaseOfCall
<1>3. /\ t \in Seq(Byte) /\ Len(t) \in U32 /\ p \in U32 /\ n \in U32
  BY TextsAssumption, ArgumentsAssumption
<1>4. /\ size \in Nat /\ memory \in [0 .. size - 1 -> Byte]
      /\ p \in Nat /\ TypeOK /\ Len(t) \in Nat
  BY <1>3, TypedNumbers, AddressSpaceNat DEF TransferInv, U32
<1>5. memory' \in [0 .. size - 1 -> Byte]
  BY <1>1, <1>3, <1>4, PokeMemory
<1>6. TypeOK'
  <2>1. args' \in Args
    BY <1>1, <1>3, ZeroByte DEF Args, Calls
  <2>2. QED
    BY <1>1, <1>2, <1>3, <1>4, <1>5, <2>1 DEF TypeOK
<1>7. ~Pulling' /\ Pushing'
  BY <1>1 DEF Pulling, Pushing
<1>8. PhaseOfCall' /\ ChunkInBuffer' /\ NextCallSucceeds' /\ FirstOffset'
  BY <1>2, <1>7 DEF PhaseOfCall, ChunkInBuffer, NextCallSucceeds, FirstOffset
<1>9. PositionInWord' /\ PullFailsFirst'
  BY <1>7 DEF PositionInWord, PullFailsFirst
<1>10. StringInMemory'
  BY <1>1, <1>2, <1>4 DEF StringInMemory, Poke
<1>11. PushedSoFar'
  <2>1. Agrees(received)'
    BY <1>1, <1>2, <1>4 DEF Agrees
  <2>2. QED
    BY <1>2, <2>1 DEF PushedSoFar
<1>12. QED
  BY <1>6, <1>8, <1>9, <1>10, <1>11 DEF TransferInv

-----------------------------------------------------------------------------
(* The steps of write_string_chunks and of its guest.                      *)

LEMMA FailPullKeepsInv ==
  ASSUME TransferInv, FailPull
  PROVE  TransferInv'
<1>1. /\ phase = "pull" /\ phase' \in Failed
      /\ PullTraps \/ PullPanics
      /\ phase' = "panic" => PullPanics
      /\ UNCHANGED <<memory, size, text, args, leftover, written, received>>
  BY DEF FailPull, Failed, callVars
<1>2. TypeOK /\ TypeOK'
  BY <1>1 DEF TransferInv, TypeOK
<1>3. ASSUME received # << >> PROVE FALSE
  <2>1. /\ WordReadable /\ Offset < Len(text)
        /\ Chunk <= args.buffer_len /\ args.buffer_ptr + Chunk <= size
    BY <1>1, <1>3 DEF TransferInv, NextCallSucceeds
  <2>2. /\ Offset \in Nat /\ Len(text) \in Nat /\ Chunk \in Nat /\ size \in Nat
        /\ args.buffer_ptr \in Nat /\ args.buffer_len \in Nat
    BY <1>2, <2>1, OffsetNat, TypedNumbers
  <2>3. ~PullPanics
    BY <2>1, <2>2 DEF PullPanics
  <2>4. ChunkLen \in Nat /\ ChunkLen <= Chunk
    BY <2>1, <2>2 DEF ChunkLen, ChunkEnd
  <2>5. BufferFits
    BY <2>1, <2>2, <2>4 DEF BufferFits, Writable, InBounds
  <2>6. QED
    BY <1>1, <2>1, <2>3, <2>5 DEF PullTraps
<1>4. PullPanics => leftover > Len(text)
  <2>1. PullPanics => WordReadable /\ Offset > Len(text)
    BY DEF PullPanics
  <2>2. PullPanics => Offset = (IF args.offset_ptr = 0 THEN 0 ELSE leftover)
    BY <1>1, <1>3, <2>1 DEF TransferInv, FirstOffset
  <2>3. Len(text) \in Nat
    BY <1>2, TypedNumbers
  <2>4. QED
    BY <2>1, <2>2, <2>3
<1>5. PullFailsFirst'
  BY <1>1, <1>3, <1>4 DEF PullFailsFirst
<1>6. PositionInWord'
  BY <1>1 DEF TransferInv, PositionInWord, Pulling, Disciplined, BufferRange,
     WordRange, Agrees, Failed
<1>7. ~Pushing'
  BY <1>1 DEF TransferInv, PhaseOfCall, Pulling, Pushing
<1>8. QED
  BY <1>1, <1>2, <1>5, <1>6, <1>7 DEF TransferInv, PhaseOfCall, ChunkInBuffer,
     FirstOffset, NextCallSucceeds, StringInMemory, PushedSoFar, Failed

(***************************************************************************)
(* A call that leaves something to ask for moves the word by one chunk.    *)
(***************************************************************************)
LEMMA WordMoves ==
  ASSUME TypeOK, WriteChunk
  PROVE  /\ Offset' = (IF args.offset_ptr = 0 THEN 0 ELSE ChunkEnd)
         /\ ChunkEnd = Offset + Chunk /\ ChunkEnd < Len(text)
<1>1. /\ ~PullTraps /\ ~PullPanics /\ ChunkEnd < Len(text)
      /\ memory' = Advanced /\ args' = args
  BY DEF WriteChunk, callVars
<1>2. /\ WordReadable /\ ChunkEnd \in U32
      /\ ChunkEnd = Offset + ChunkLen /\ ChunkLen = Chunk
  BY <1>1, ChunkOfCall
<1>3. CASE args.offset_ptr = 0
  BY <1>1, <1>2, <1>3 DEF Offset
<1>4. CASE args.offset_ptr # 0
  <2>1. args.offset_ptr + 4 <= size
    BY <1>2, <1>4, OffsetNat
  <2>2. Buffered \in [0 .. size - 1 -> Byte]
    BY <1>1, BufferedChunk
  <2>3. size \in Nat /\ args.offset_ptr \in Nat
    BY TypedNumbers
  <2>4. Offset' = FromLe(Peek(Poke(Buffered, args.offset_ptr, ToLe(ChunkEnd)),
                             args.offset_ptr, 4))
    BY <1>1, <1>4 DEF Offset, Advanced
  <2>5. Offset' = ChunkEnd
    BY <1>2, <2>1, <2>2, <2>3, <2>4, WordRoundTrip
  <2>6. QED
    BY <1>1, <1>2, <1>4, <2>5
<1>5. QED
  BY <1>3, <1>4

(***************************************************************************)
(* The word moves on, and so does not damage the chunk of a guest whose    *)
(* buffer and word are apart.                                              *)
(***************************************************************************)
LEMMA WriteChunkKeepsInv ==
  ASSUME TransferInv, WriteChunk
  PROVE  TransferInv'
<1>1. /\ phase = "pull" /\ phase' = "more" /\ ~PullTraps /\ ~PullPanics
      /\ ChunkEnd < Len(text) /\ memory' = Advanced /\ written' = ChunkLen
      /\ UNCHANGED <<size, text, args, leftover, received>>
  BY DEF WriteChunk, callVars
<1>2. TypeOK
  BY DEF TransferInv
<1>3. /\ size \in Nat /\ args.offset_ptr \in Nat /\ args.buffer_ptr \in Nat
      /\ args.buffer_len \in Nat /\ Len(text) \in Nat /\ Chunk \in Nat
      /\ Len(received) \in Nat
  BY <1>2, TypedNumbers
<1>4. /\ WordReadable
      /\ Offset \in Nat /\ Offset <= ChunkEnd
      /\ ChunkEnd \in U32 /\ ChunkEnd \in Nat
      /\ ChunkLen \in 0 .. Chunk
      /\ ChunkLen <= args.buffer_len /\ args.buffer_ptr + ChunkLen <= size
      /\ ChunkEnd = Offset + ChunkLen
      /\ ChunkLen = Chunk
  BY <1>1, <1>2, ChunkOfCall
<1>5. args.offset_ptr # 0 => args.offset_ptr + 4 <= size
  BY <1>2, <1>4, OffsetNat
<1>6. Buffered \in [0 .. size - 1 -> Byte]
  BY <1>1, <1>2, BufferedChunk
<1>7. memory' \in [0 .. size - 1 -> Byte]
  <2>1. ToLe(ChunkEnd) \in Seq(Byte)
    BY <1>4, LeBytes
  <2>2. Poke(Buffered, args.offset_ptr, ToLe(ChunkEnd)) \in [0 .. size - 1 -> Byte]
    BY <1>3, <1>6, <2>1, PokeMemory
  <2>3. QED
    BY <1>1, <1>6, <2>2 DEF Advanced
<1>8. TypeOK'
  BY <1>1, <1>2, <1>4, <1>7 DEF TypeOK
<1>9. WordReadable'
  BY <1>1, <1>4 DEF WordReadable
<1>10. Offset' = (IF args.offset_ptr = 0 THEN 0 ELSE ChunkEnd)
  BY <1>2, WordMoves
<1>11. NextCallSucceeds' /\ ChunkInBuffer'
  BY <1>1, <1>3, <1>4, <1>9, <1>10 DEF NextCallSucceeds, ChunkInBuffer
<1>12. PositionInWord'
  <2> SUFFICES ASSUME Pulling, Disciplined
               PROVE  /\ Agrees(received)
                      /\ args.offset_ptr # 0 /\ Offset' = Len(received) + written'
                      /\ Len(received) + written' <= Len(text)
                      /\ \A i \in 1 .. written' :
                           memory'[args.buffer_ptr + i - 1]
                             = text[Len(received) + i]
    BY <1>1 DEF PositionInWord, Pulling, Disciplined, BufferRange, WordRange, Agrees
  <2>1. Agrees(received) /\ Offset = Len(received)
    BY <1>1, <1>4 DEF TransferInv, PositionInWord
  <2>2. args.offset_ptr # 0
    <3>1. SUFFICES ASSUME args.offset_ptr = 0 PROVE FALSE
      OBVIOUS
    <3>2. Offset = 0 /\ Len(text) <= Chunk
      BY <3>1 DEF Offset, Disciplined
    <3>3. QED
      BY <1>1, <1>3, <1>4, <3>2
  <2>3. Offset' = Len(received) + written' /\ Len(received) + written' <= Len(text)
    BY <1>1, <1>3, <1>4, <1>10, <2>1, <2>2
  <2>4. ASSUME NEW i \in 1 .. written'
        PROVE  memory'[args.buffer_ptr + i - 1] = text[Len(received) + i]
    <3>1. i \in 1 .. ChunkLen
      BY <1>1
    <3>2. Buffered[args.buffer_ptr + i - 1] = text[Len(received) + i]
      BY <1>1, <1>2, <2>1, <3>1, BufferedChunk
    <3>3. /\ args.buffer_ptr + i - 1 \in BufferRange
          /\ args.buffer_ptr + i - 1 \in 0 .. size - 1
      <4>1. /\ args.buffer_ptr \in Nat /\ args.buffer_len \in Nat
            /\ size \in Nat /\ ChunkLen \in Nat
            /\ ChunkLen <= args.buffer_len
            /\ args.buffer_ptr + ChunkLen <= size
        BY <1>3, <1>4
      <4>2. QED
        BY <3>1, <4>1, PlaceInBuffer DEF BufferRange
    <3>4. args.buffer_ptr + i - 1 \notin WordRange
      BY <3>3 DEF Disciplined
    <3>5. args.buffer_ptr + i - 1 \notin args.offset_ptr .. args.offset_ptr + 3
      BY <2>2, <3>4 DEF WordRange
    <3>6. Len(ToLe(ChunkEnd)) = 4
      BY <1>4, LeBytes
    <3>7. memory' = Poke(Buffered, args.offset_ptr, ToLe(ChunkEnd))
      BY <1>1, <2>2 DEF Advanced
    <3>8. DOMAIN Buffered = 0 .. size - 1
      BY <1>6
    <3>9. args.offset_ptr + Len(ToLe(ChunkEnd)) - 1 = args.offset_ptr + 3
      BY <1>3, <3>6
    <3>10. memory'[args.buffer_ptr + i - 1] = Buffered[args.buffer_ptr + i - 1]
      BY <3>3, <3>5, <3>7, <3>8, <3>9 DEF Poke
    <3>11. QED
      BY <3>2, <3>10
  <2>5. QED
    BY <2>1, <2>2, <2>3, <2>4
<1>13. Pulling' /\ ~Pushing'
  BY <1>1 DEF TransferInv, PhaseOfCall, Pulling, Pushing
<1>14. QED
  BY <1>1, <1>8, <1>11, <1>12, <1>13 DEF TransferInv, PhaseOfCall, FirstOffset,
     PullFailsFirst, StringInMemory, PushedSoFar, Failed

LEMMA WriteLastChunkKeepsInv ==
  ASSUME TransferInv, WriteLastChunk
  PROVE  TransferInv'
<1>1. /\ phase = "pull" /\ phase' = "last" /\ ~PullTraps /\ ~PullPanics
      /\ ChunkEnd >= Len(text) /\ memory' = Buffered /\ written' = ChunkLen
      /\ UNCHANGED <<size, text, args, leftover, received>>
  BY DEF WriteLastChunk, callVars
<1>2. TypeOK
  BY DEF TransferInv
<1>3. Len(text) \in Nat /\ Len(received) \in Nat
  BY <1>2, TypedNumbers
<1>4. /\ WordReadable
      /\ Offset \in Nat /\ ChunkEnd \in Nat /\ ChunkEnd <= Len(text)
      /\ ChunkLen \in 0 .. Chunk
      /\ ChunkLen <= args.buffer_len /\ args.buffer_ptr + ChunkLen <= size
      /\ ChunkEnd = Offset + ChunkLen
  BY <1>1, <1>2, ChunkOfCall
<1>5. Buffered \in [0 .. size - 1 -> Byte]
  BY <1>1, <1>2, BufferedChunk
<1>6. TypeOK'
  BY <1>1, <1>2, <1>4, <1>5 DEF TypeOK
<1>7. ChunkInBuffer'
  BY <1>1, <1>4 DEF ChunkInBuffer
<1>8. PositionInWord'
  <2> SUFFICES ASSUME Pulling, Disciplined
               PROVE  /\ Agrees(received)
                      /\ Len(received) + written' = Len(text)
                      /\ \A i \in 1 .. written' :
                           memory'[args.buffer_ptr + i - 1]
                             = text[Len(received) + i]
    BY <1>1, <1>3 DEF PositionInWord, Pulling, Disciplined, BufferRange, WordRange,
       Agrees
  <2>1. Agrees(received) /\ Offset = Len(received)
    BY <1>1, <1>4 DEF TransferInv, PositionInWord
  <2>2. Len(received) + written' = Len(text)
    BY <1>1, <1>3, <1>4, <2>1
  <2>3. \A i \in 1 .. ChunkLen :
          Buffered[args.buffer_ptr + i - 1] = text[Len(received) + i]
    BY <1>1, <1>2, <2>1, BufferedChunk
  <2>4. QED
    BY <1>1, <2>1, <2>2, <2>3
<1>9. Pulling' /\ ~Pushing'
  BY <1>1 DEF TransferInv, PhaseOfCall, Pulling, Pushing
<1>10. QED
  BY <1>1, <1>6, <1>7, <1>8, <1>9 DEF TransferInv, PhaseOfCall, FirstOffset,
     NextCallSucceeds, PullFailsFirst, StringInMemory, PushedSoFar, Failed

(***************************************************************************)
(* The guest takes what is in its buffer.                                  *)
(***************************************************************************)
LEMMA TakeChunkKeepsInv ==
  ASSUME TransferInv, TakeChunk
  PROVE  TransferInv'
<1> DEFINE chunk == Peek(memory, args.buffer_ptr, written)
<1>1. /\ phase \in {"more", "last"}
      /\ phase' \in {"done", "pull", "weary"}
      /\ phase' = "done" => phase = "last"
      /\ phase' = "pull" => phase = "more"
      /\ received' = received \o chunk
      /\ UNCHANGED <<memory, size, text, args, leftover, written>>
  BY DEF TakeChunk, callVars
<1>2. TypeOK
  BY DEF TransferInv
<1>3. /\ size \in Nat /\ memory \in [0 .. size - 1 -> Byte]
      /\ args.buffer_ptr \in Nat /\ written \in Nat /\ received \in Seq(Byte)
      /\ Len(received) \in Nat /\ Chunk \in Nat /\ Chunk > 0
      /\ text \in Seq(Byte)
  BY <1>2, TypedNumbers
<1>4. args.buffer_ptr + written <= size /\ (phase = "more" => written = Chunk)
  BY <1>1 DEF TransferInv, ChunkInBuffer
<1>5. /\ chunk \in Seq(Byte) /\ Len(chunk) = written
      /\ \A i \in 1 .. written : chunk[i] = memory[args.buffer_ptr + i - 1]
  <2>1. /\ size \in Nat /\ memory \in [0 .. size - 1 -> Byte]
        /\ args.buffer_ptr \in Nat /\ written \in Nat
        /\ args.buffer_ptr + written <= size
    BY <1>3, <1>4
  <2>2. chunk \in Seq(Byte) /\ Len(chunk) = written
    BY <2>1, PeekSeq
  <2>3. \A i \in 1 .. written : chunk[i] = memory[args.buffer_ptr + i - 1]
    BY DEF Peek
  <2>4. QED
    BY <2>2, <2>3
<1> HIDE DEF chunk
<1>6. /\ received' \in Seq(Byte)
      /\ Len(received') = Len(received) + written
  BY <1>1, <1>3, <1>5, ConcatProperties
<1>7. TypeOK'
  BY <1>1, <1>2, <1>6 DEF TypeOK
<1>8. phase' = "pull" => received' # << >>
  BY <1>1, <1>3, <1>4, <1>6
<1>9. WordReadable' = WordReadable /\ Offset' = Offset
  BY <1>1 DEF WordReadable, Offset
<1>10. PositionInWord'
  <2> SUFFICES ASSUME Pulling, Disciplined
               PROVE  /\ Agrees(received)'
                      /\ phase' = "pull" => Offset = Len(received')
                      /\ phase' = "done" => Len(received') = Len(text)
    BY <1>1, <1>9 DEF PositionInWord, Pulling, Disciplined, BufferRange, WordRange
  <2>1. /\ Agrees(received)
        /\ phase = "more" => Offset = Len(received) + written
        /\ phase = "last" => Len(received) + written = Len(text)
        /\ Len(received) + written <= Len(text)
        /\ \A i \in 1 .. written :
             memory[args.buffer_ptr + i - 1] = text[Len(received) + i]
    BY <1>1 DEF TransferInv, PositionInWord
  <2>2. Agrees(received \o chunk)
    BY <1>3, <1>5, <2>1, AgreesExtends
  <2>3. Agrees(received)'
    BY <1>1, <2>2 DEF Agrees
  <2>4. QED
    BY <1>1, <1>6, <2>1, <2>3
<1>11. Pulling' /\ ~Pushing'
  BY <1>1 DEF TransferInv, PhaseOfCall, Pulling, Pushing
<1>12. NextCallSucceeds' /\ FirstOffset' /\ ChunkInBuffer' /\ PhaseOfCall'
  <2>1. NextCallSucceeds'
    <3> SUFFICES ASSUME phase = "more"
                 PROVE  /\ WordReadable /\ Offset < Len(text)
                        /\ Chunk <= args.buffer_len
                        /\ args.buffer_ptr + Chunk <= size
      BY <1>1, <1>9 DEF NextCallSucceeds
    <3>1. QED
      BY DEF TransferInv, NextCallSucceeds
  <2>2. FirstOffset'
    BY <1>8 DEF FirstOffset
  <2>3. ChunkInBuffer' /\ PhaseOfCall'
    BY <1>1, <1>11 DEF ChunkInBuffer, PhaseOfCall
  <2>4. QED
    BY <2>1, <2>2, <2>3
<1>13. QED
  BY <1>1, <1>7, <1>10, <1>11, <1>12 DEF TransferInv, PullFailsFirst,
     StringInMemory, PushedSoFar, Failed

-----------------------------------------------------------------------------
(* The steps of read_string_chunks.                                        *)

LEMMA FailPushKeepsInv ==
  ASSUME TransferInv, PushPanics \/ FailPush \/ FailSink
  PROVE  TransferInv'
<1>1. /\ phase = "push" /\ phase' \in Failed
      /\ UNCHANGED <<memory, size, text, args, leftover, written, received>>
  BY DEF PushPanics, FailPush, FailSink, ChunkDue, Failed, callVars
<1>2. TypeOK'
  BY <1>1 DEF TransferInv, TypeOK
<1>3. Pushing' /\ ~Pulling'
  BY <1>1 DEF TransferInv, PhaseOfCall, Pulling, Pushing
<1>4. PushedSoFar'
  BY <1>1 DEF TransferInv, PushedSoFar, Pushing, Agrees, Failed
<1>5. QED
  BY <1>1, <1>2, <1>3, <1>4 DEF TransferInv, PhaseOfCall, ChunkInBuffer,
     FirstOffset, NextCallSucceeds, PositionInWord, PullFailsFirst,
     StringInMemory, Failed

(***************************************************************************)
(* A chunk is the next piece of the string, unless the string ends beyond  *)
(* a memory that is the whole address space.                               *)
(***************************************************************************)
LEMMA ReadChunkKeepsInv ==
  ASSUME TransferInv, ReadChunk
  PROVE  TransferInv'
<1> DEFINE chunk == Peek(memory, PushFrom, PushLen)
<1>1. /\ phase = "push" /\ phase' = phase
      /\ Len(received) < Len(text)
      /\ PushFrom + PushLen <= size
      /\ received' = received \o chunk
      /\ UNCHANGED <<memory, size, text, args, leftover, written>>
  BY DEF ReadChunk, ChunkDue, Readable, InBounds, callVars
<1>2. TypeOK /\ Pushing
  BY <1>1 DEF TransferInv, PhaseOfCall
<1>3. /\ size \in Nat /\ size <= AddressSpace
      /\ memory \in [0 .. size - 1 -> Byte]
      /\ args.buffer_ptr \in Nat /\ args.buffer_ptr < AddressSpace
      /\ received \in Seq(Byte) /\ Len(received) \in Nat
      /\ text \in Seq(Byte) /\ Len(text) \in Nat /\ Chunk \in Nat /\ Chunk > 0
  BY <1>2, TypedNumbers
<1>4. AddressSpace \in Nat /\ AddressSpace > 0
  BY AddressSpaceNat
<1>5. PushLen \in Nat /\ PushLen > 0 /\ Len(received) + PushLen <= Len(text)
  BY <1>1, <1>3 DEF PushLen
<1>6. /\ PushFrom \in Nat
      /\ args.buffer_ptr + Len(received) < AddressSpace =>
           PushFrom = args.buffer_ptr + Len(received)
  <2>1. \A n \in Nat : n % AddressSpace \in Nat
                        /\ (n < AddressSpace => n % AddressSpace = n)
    BY <1>4
  <2>2. args.buffer_ptr + Len(received) \in Nat
    BY <1>3
  <2>3. QED
    BY <2>1, <2>2 DEF PushFrom
<1>7. /\ chunk \in Seq(Byte) /\ Len(chunk) = PushLen
      /\ \A i \in 1 .. PushLen : chunk[i] = memory[PushFrom + i - 1]
  <2>1. /\ chunk \in Seq(Byte) /\ Len(chunk) = PushLen
    <3>1. PushFrom \in Nat /\ PushLen \in Nat /\ PushFrom + PushLen <= size
      BY <1>1, <1>5, <1>6
    <3>2. size \in Nat /\ memory \in [0 .. size - 1 -> Byte]
      BY <1>3
    <3>3. QED
      BY ONLY <3>1, <3>2, PeekSeq
  <2>2. \A i \in 1 .. PushLen : chunk[i] = memory[PushFrom + i - 1]
    BY DEF Peek
  <2>3. QED
    BY <2>1, <2>2
<1> HIDE DEF chunk
<1>8. received' \in Seq(Byte) /\ Len(received') = Len(received) + PushLen
  BY <1>1, <1>3, <1>7, ConcatProperties
<1>9. TypeOK'
  BY <1>1, <1>2, <1>8 DEF TypeOK
<1>10. StringInMemory'
  BY <1>1 DEF TransferInv, StringInMemory
<1>11. PushedSoFar'
  <2>1. CASE size = AddressSpace /\ args.buffer_ptr + Len(received) > size
    <3>1. args.buffer_ptr + Len(received') > size'
      BY <1>1, <1>3, <1>5, <1>8, <2>1
    <3>2. QED
      BY <1>1, <2>1, <3>1 DEF PushedSoFar
  <2>2. CASE /\ Agrees(received)
             /\ received # << >> => args.buffer_ptr + Len(received) <= size
    <3>1. CASE args.buffer_ptr + Len(received) < AddressSpace
      <4>1. PushFrom = args.buffer_ptr + Len(received)
        BY <1>6, <3>1
      <4>2. ASSUME NEW i \in 1 .. PushLen
            PROVE  chunk[i] = text[Len(received) + i]
        <5>1. /\ PushFrom + i - 1 \in 0 .. size - 1
              /\ PushFrom + i - 1
                   \in args.buffer_ptr .. args.buffer_ptr + Len(text) - 1
              /\ (PushFrom + i - 1) - args.buffer_ptr + 1 = Len(received) + i
          <6>1. i \in Nat /\ 1 <= i /\ i <= PushLen
            BY <1>5
          <6>2. PushFrom + i - 1 \in Nat /\ PushFrom + i - 1 <= size - 1
            BY <1>1, <1>3, <1>5, <1>6, <6>1
          <6>3. /\ args.buffer_ptr <= PushFrom + i - 1
                /\ PushFrom + i - 1 <= args.buffer_ptr + Len(text) - 1
                /\ (PushFrom + i - 1) - args.buffer_ptr + 1 = Len(received) + i
            <7>1. PushFrom + i - 1 = args.buffer_ptr + (Len(received) + i - 1)
              BY <1>3, <4>1, <6>1
            <7>2. Len(received) + i - 1 \in Nat /\ Len(received) + i <= Len(text)
              BY <1>3, <1>5, <6>1
            <7>3. QED
              BY <1>3, <6>1, <7>1, <7>2
          <6>4. QED
            BY <1>3, <6>2, <6>3
        <5>2. memory[PushFrom + i - 1] = text[Len(received) + i]
          BY <1>1, <5>1 DEF TransferInv, StringInMemory
        <5>3. QED
          BY <1>7, <5>2
      <4>3. Agrees(received \o chunk)
        BY <1>3, <1>5, <1>7, <2>2, <4>2, AgreesExtends
      <4>4. Agrees(received)'
        BY <1>1, <4>3 DEF Agrees
      <4>5. args.buffer_ptr + Len(received') <= size
        BY <1>1, <1>3, <1>5, <1>8, <4>1
      <4>6. QED
        BY <1>1, <4>4, <4>5 DEF PushedSoFar
    <3>2. CASE args.buffer_ptr + Len(received) >= AddressSpace
      <4>1. received # << >>
        <5>1. Len(received) # 0
          BY <1>3, <1>4, <3>2
        <5>2. QED
          BY <5>1
      <4>2. size = AddressSpace
        BY <1>3, <1>4, <2>2, <3>2, <4>1
      <4>3. args.buffer_ptr + Len(received') > size'
        BY <1>1, <1>3, <1>4, <1>5, <1>8, <3>2, <4>2
      <4>4. QED
        BY <1>1, <4>2, <4>3 DEF PushedSoFar
    <3>3. QED
      BY <1>3, <1>4, <3>1, <3>2
  <2>3. QED
    BY <1>2, <2>1, <2>2 DEF TransferInv, PushedSoFar
<1>12. Pushing' /\ ~Pulling'
  BY <1>1, <1>2 DEF Pulling, Pushing
<1>13. QED
  BY <1>1, <1>9, <1>10, <1>11, <1>12 DEF TransferInv, PhaseOfCall, ChunkInBuffer,
     FirstOffset, NextCallSucceeds, PositionInWord, PullFailsFirst

LEMMA EndPushKeepsInv ==
  ASSUME TransferInv, EndPush
  PROVE  TransferInv'
<1>1. /\ phase = "push" /\ phase' = "done"
      /\ Len(received) >= Len(text)
      /\ UNCHANGED <<memory, size, text, args, leftover, written, received>>
  BY DEF EndPush, callVars
<1>2. TypeOK /\ TypeOK'
  BY <1>1 DEF TransferInv, TypeOK
<1>3. Pushing /\ Pushing' /\ ~Pulling'
  BY <1>1 DEF TransferInv, PhaseOfCall, Pulling, Pushing
<1>4. Len(received) \in Nat /\ Len(text) \in Nat
  BY <1>2, TypedNumbers
<1>5. PushedSoFar'
  BY <1>1, <1>3, <1>4 DEF TransferInv, PushedSoFar, Agrees
<1>6. QED
  BY <1>1, <1>2, <1>3, <1>5 DEF TransferInv, PhaseOfCall, ChunkInBuffer,
     FirstOffset, NextCallSucceeds, PositionInWord, PullFailsFirst, StringInMemory

-----------------------------------------------------------------------------
(* The theorems.                                                           *)

LEMMA NextKeepsTransferInv == TransferInv /\ [Next]_vars => TransferInv'
<1> SUFFICES ASSUME TransferInv, [Next]_vars PROVE TransferInv'
  OBVIOUS
<1>1. CASE BeginPull
  BY <1>1, BeginPullKeepsInv
<1>2. CASE BeginPush
  BY <1>2, BeginPushKeepsInv
<1>3. CASE Pull
  BY <1>3, FailPullKeepsInv, WriteChunkKeepsInv, WriteLastChunkKeepsInv,
     TakeChunkKeepsInv DEF Pull
<1>4. CASE Push
  BY <1>4, FailPushKeepsInv, ReadChunkKeepsInv, EndPushKeepsInv DEF Push
<1>5. CASE UNCHANGED vars
  BY <1>5 DEF vars, TransferInv, TypeOK, PhaseOfCall, ChunkInBuffer, FirstOffset,
     NextCallSucceeds, PositionInWord, PullFailsFirst, StringInMemory, PushedSoFar,
     Agrees, Pulling, Pushing, Disciplined, BufferRange, WordRange, Offset,
     WordReadable
<1>6. QED
  BY <1>1, <1>2, <1>3, <1>4, <1>5 DEF Next

LEMMA TransferInvariant == Spec => []TransferInv
BY TransferInit, NextKeepsTransferInv, PTL DEF Spec

(***************************************************************************)
(* The memory of a guest stays a memory, whatever a host function writes.  *)
(***************************************************************************)
THEOREM TransferTypeCorrect == Spec => []TypeOK
<1>1. TransferInv => TypeOK
  BY DEF TransferInv
<1>2. QED
  BY <1>1, TransferInvariant, PTL

(***************************************************************************)
(* write_string_chunks delivers a string of any length in order, whatever  *)
(* CHUNK_SIZE is, to a guest with a word of its own.                       *)
(***************************************************************************)
THEOREM PullsInOrder == Spec => []ReceivedIsPrefix
<1>1. TransferInv => ReceivedIsPrefix
  <2> SUFFICES ASSUME TransferInv, Pulling, Disciplined
               PROVE  IsPrefix(received, text) /\ (phase = "done" => received = text)
    BY DEF ReceivedIsPrefix
  <2>1. Agrees(received) /\ (phase = "done" => Len(received) = Len(text))
    BY DEF TransferInv, PositionInWord
  <2>2. received \in Seq(Byte) /\ text \in Seq(Byte)
    BY TypedNumbers DEF TransferInv
  <2>3. QED
    BY <2>1, <2>2, AgreesIsPrefix
<1>2. QED
  BY <1>1, TransferInvariant, PTL

(***************************************************************************)
(* Only the first call of write_string_chunks can fail, and it panics only *)
(* over an offset the guest has left in its word.                          *)
(***************************************************************************)
THEOREM PullsFailAtFirst == Spec => []PullFailsFirst
<1>1. TransferInv => PullFailsFirst
  BY DEF TransferInv
<1>2. QED
  BY <1>1, TransferInvariant, PTL

(***************************************************************************)
(* read_string_chunks hands on what lies in the guest's memory, in order.  *)
(***************************************************************************)
THEOREM PushesInOrder == Spec => []PushedInOrder
<1>1. TransferInv => PushedInOrder
  <2> SUFFICES ASSUME TransferInv, Pushing,
                      ~(size = AddressSpace /\ args.buffer_ptr + Len(received) > size)
               PROVE  /\ IsPrefix(received, text)
                      /\ phase = "done" => received = text
                      /\ received # << >> =>
                           args.buffer_ptr + Len(received) <= size
    BY DEF PushedInOrder
  <2>1. /\ Agrees(received)
        /\ phase = "done" => Len(received) = Len(text)
        /\ received # << >> => args.buffer_ptr + Len(received) <= size
    BY DEF TransferInv, PushedSoFar
  <2>2. received \in Seq(Byte) /\ text \in Seq(Byte)
    BY TypedNumbers DEF TransferInv
  <2>3. QED
    BY <2>1, <2>2, AgreesIsPrefix
<1>2. QED
  BY <1>1, TransferInvariant, PTL

(***************************************************************************)
(* write_string_chunks writes nowhere but in the buffer and the word that  *)
(* it was called with.                                                     *)
(***************************************************************************)
THEOREM PullsWriteInside == Spec => WritesStayInside
<1> DEFINE Outside == \A a \in DOMAIN memory \ (BufferRange \cup WordRange) :
                        memory'[a] = memory[a]
<1>1. TransferInv /\ [Next]_vars => [phase = "pull" => Outside]_vars
  <2> SUFFICES ASSUME TransferInv, Next, phase = "pull" PROVE Outside
    OBVIOUS
  <2>1. TypeOK
    BY DEF TransferInv
  <2>2. /\ DOMAIN memory = 0 .. size - 1 /\ size \in Nat
        /\ args.offset_ptr \in Nat
    BY <2>1, TypedNumbers
  <2>3. FailPull \/ WriteChunk \/ WriteLastChunk
    BY DEF Next, BeginPull, BeginPush, Pull, TakeChunk, Push, PushPanics, FailPush,
       FailSink, ReadChunk, EndPush, ChunkDue
  <2>4. CASE FailPull
    BY <2>4 DEF FailPull
  <2>5. ASSUME ~PullTraps, ~PullPanics
        PROVE  /\ DOMAIN Buffered = 0 .. size - 1
               /\ \A a \in 0 .. size - 1 :
                    a \notin BufferRange => Buffered[a] = memory[a]
    BY <2>1, <2>5, BufferedChunk DEF BufferRange
  <2>6. CASE WriteLastChunk
    BY <2>2, <2>5, <2>6 DEF WriteLastChunk
  <2>7. CASE WriteChunk
    <3>1. memory' = Advanced /\ ~PullTraps /\ ~PullPanics
      BY <2>7 DEF WriteChunk
    <3>2. CASE args.offset_ptr = 0
      BY <2>2, <2>5, <3>1, <3>2 DEF Advanced
    <3>3. CASE args.offset_ptr # 0
      <4>1. memory' = Poke(Buffered, args.offset_ptr, ToLe(ChunkEnd))
        BY <3>1, <3>3 DEF Advanced
      <4>2. Len(ToLe(ChunkEnd)) = 4
        BY <2>1, <3>1, ChunkOfCall, LeBytes
      <4>3. args.offset_ptr + Len(ToLe(ChunkEnd)) - 1 = args.offset_ptr + 3
        BY <2>2, <4>2
      <4>4. \A a \in 0 .. size - 1 :
              a \notin args.offset_ptr .. args.offset_ptr + 3 =>
                memory'[a] = Buffered[a]
        BY <2>5, <3>1, <4>1, <4>3 DEF Poke
      <4>5. QED
        BY <2>2, <2>5, <3>1, <3>3, <4>4 DEF WordRange
    <3>4. QED
      BY <3>2, <3>3
  <2>8. QED
    BY <2>3, <2>4, <2>6, <2>7
<1>2. QED
  BY <1>1, TransferInvariant, PTL DEF Spec, WritesStayInside

\* Every call that does not end the transfer brings it one chunk closer to the
\* end of the string, and what the guest does between two calls takes nothing
\* back.
Advances ==
  /\ phase = "pull" /\ phase' = "more" =>
       Offset' = Offset + Chunk /\ Offset' < Len(text)
  /\ phase = "more" /\ phase' = "pull" => Offset' = Offset

(***************************************************************************)
(* With an offset word, wherever it lies and whatever was in it, a string  *)
(* of n bytes is pulled with at most n / CHUNK_SIZE + 1 calls: all of them *)
(* but the last move the word by CHUNK_SIZE, and not past the string.      *)
(***************************************************************************)
THEOREM PullsAdvance == Spec => [][args.offset_ptr # 0 => Advances]_vars
<1>1. TransferInv /\ [Next]_vars => [args.offset_ptr # 0 => Advances]_vars
  <2> SUFFICES ASSUME TransferInv, Next, args.offset_ptr # 0 PROVE Advances
    OBVIOUS
  <2>1. TypeOK
    BY DEF TransferInv
  <2>2. phase = "pull" /\ phase' = "more" =>
          Offset' = Offset + Chunk /\ Offset' < Len(text)
    <3> SUFFICES ASSUME phase = "pull", phase' = "more"
                 PROVE  Offset' = Offset + Chunk /\ Offset' < Len(text)
      OBVIOUS
    <3>1. WriteChunk
      BY DEF Next, BeginPull, BeginPush, Pull, FailPull, WriteLastChunk, TakeChunk,
         Push, PushPanics, FailPush, FailSink, ReadChunk, EndPush, ChunkDue
    <3>2. QED
      BY <2>1, <3>1, WordMoves
  <2>3. phase = "more" /\ phase' = "pull" => Offset' = Offset
    <3> SUFFICES ASSUME phase = "more" PROVE Offset' = Offset
      OBVIOUS
    <3>1. TakeChunk
      BY DEF Next, BeginPull, BeginPush, Pull, FailPull, WriteChunk, WriteLastChunk,
         Push, PushPanics, FailPush, FailSink, ReadChunk, EndPush, ChunkDue
    <3>2. memory' = memory /\ args' = args
      BY <3>1 DEF TakeChunk, callVars
    <3>3. QED
      BY <3>2 DEF Offset
  <2>4. QED
    BY <2>2, <2>3 DEF Advances
<1>2. QED
  BY <1>1, TransferInvariant, PTL DEF Spec

=============================================================================
