--------------------------- MODULE StringTransfer ---------------------------
(***************************************************************************)
(* Long strings cross the border between host and guest in chunks          *)
(* (src/src/host_functions.rs).  A guest pulls a string by calling         *)
(* write_string_chunks until it returns 0; between two calls the position  *)
(* is nowhere but in a word of the guest's own memory.  A guest pushes a   *)
(* string by one call of read_string_chunks, which hands chunk after chunk *)
(* to a sink.                                                              *)
(*                                                                         *)
(* The guest is external and does what a program may do: it places its     *)
(* buffer and its word anywhere, lets them overlap, or leaves in the word  *)
(* what an earlier transfer put there.  One behaviour is one transfer.     *)
(***************************************************************************)
EXTENDS GuestMemory, Integers, SequencesExt

CONSTANTS
  Chunk,       \* CHUNK_SIZE
  Sizes,       \* sizes a memory may have, in bytes
  Texts,       \* strings to transfer
  Pointers,    \* addresses a guest passes
  Lengths,     \* buffer lengths a guest passes
  Leftovers,   \* values of the offset word that a guest may start with
  MaxReceived  \* bound: a guest that got that many bytes stops asking

ASSUME ChunkAssumption == Chunk \in Nat \ {0} /\ Chunk <= MaxString
ASSUME SizesAssumption == Sizes \subseteq 0 .. AddressSpace
ASSUME TextsAssumption ==
  Texts \subseteq Seq(Byte) /\ \A t \in Texts : Len(t) \in U32
ASSUME ArgumentsAssumption ==
  (Pointers \cup Lengths \cup Leftovers) \subseteq U32
ASSUME WordAssumption == 4 <= MaxString
ASSUME MaxReceivedAssumption == MaxReceived \in Nat

VARIABLES
  size,      \* bytes of memory, a multiple of the page size
  memory,
  phase,     \* whose turn it is, or how the transfer ended
  text,      \* the string that should arrive
  args,      \* the arguments of the call
  leftover,  \* what the offset word held when the transfer began
  written,   \* length of the chunk the last call put into the buffer
  received   \* what has arrived, at the guest or in the sink

vars == <<size, memory, phase, text, args, leftover, written, received>>
callVars == <<size, text, args, leftover>>

Calls == {"none", "write_string_chunks", "read_string_chunks"}
Args == [call : Calls, buffer_ptr : U32, buffer_len : U32, offset_ptr : U32]
NoArgs == [call |-> "none", buffer_ptr |-> 0, buffer_len |-> 0, offset_ptr |-> 0]

Failed == {"trap", "panic"}

Init ==
  /\ size \in Sizes
  /\ memory = [a \in 0 .. size - 1 |-> 0]
  /\ phase = "idle"
  /\ text = << >>
  /\ args = NoArgs
  /\ leftover = 0
  /\ written = 0
  /\ received = << >>

\* A guest fixes its buffer and its word, offset_ptr 0 meaning none.
BeginPull ==
  /\ phase = "idle"
  /\ \E t \in Texts, p \in Pointers, n \in Lengths, q \in Pointers,
        v \in Leftovers :
       /\ text' = t
       /\ args' = [call |-> "write_string_chunks", buffer_ptr |-> p,
                   buffer_len |-> n, offset_ptr |-> q]
       /\ leftover' = v
       /\ memory' = IF q = 0 THEN memory ELSE Poke(memory, q, ToLe(v))
  /\ phase' = "pull"
  /\ UNCHANGED <<size, written, received>>

\* A guest stores its string, as much of it as its memory takes.
BeginPush ==
  /\ phase = "idle"
  /\ \E t \in Texts, p \in Pointers, n \in Lengths :
       /\ text' = t
       /\ args' = [call |-> "read_string_chunks", buffer_ptr |-> p,
                   buffer_len |-> n, offset_ptr |-> 0]
       /\ memory' = Poke(memory, p, t)
  /\ phase' = "push"
  /\ UNCHANGED <<size, leftover, written, received>>

-----------------------------------------------------------------------------
(* write_string_chunks.                                                    *)

WordReadable == args.offset_ptr = 0 \/ Readable(size, args.offset_ptr, 4)

\* The position the guest's memory remembers.
Offset ==
  IF args.offset_ptr # 0
  THEN FromLe(Peek(memory, args.offset_ptr, 4))
  ELSE 0

\* Mutant of ChunkEnd: the chunk may reach one byte too far.
LateChunkEnd ==
  IF Offset + Chunk + 1 < Len(text) THEN Offset + Chunk + 1 ELSE Len(text)

ChunkEnd == IF Offset + Chunk < Len(text) THEN Offset + Chunk ELSE Len(text)
ChunkLen == ChunkEnd - Offset

\* Slicing bytes[offset..end] with offset past the end.
PullPanics == WordReadable /\ Offset > Len(text)

\* Mutant of BufferFits: only the memory bounds the chunk.
MemoryFits == Writable(size, args.buffer_ptr, ChunkLen)

BufferFits ==
  /\ ChunkLen <= args.buffer_len
  /\ Writable(size, args.buffer_ptr, ChunkLen)

PullTraps ==
  \/ ~WordReadable
  \/ WordReadable /\ ~PullPanics /\ ~BufferFits

\* The memory once the chunk is in the buffer.
Buffered == Poke(memory, args.buffer_ptr, SubSeq(text, Offset + 1, ChunkEnd))

\* Mutant of Advanced: the word remembers how long the chunk was.
AdvancedByChunk ==
  IF args.offset_ptr = 0
  THEN Buffered
  ELSE Poke(Buffered, args.offset_ptr, ToLe(ChunkLen))

\* Mutant of Advanced: the word is written before the buffer.
AdvancedFirst ==
  IF args.offset_ptr = 0
  THEN Buffered
  ELSE Poke(Poke(memory, args.offset_ptr, ToLe(ChunkEnd)),
            args.buffer_ptr, SubSeq(text, Offset + 1, ChunkEnd))

\* The memory once the word is at the next chunk.  The word could be read, so
\* it can be written.
Advanced ==
  IF args.offset_ptr = 0
  THEN Buffered
  ELSE Poke(Buffered, args.offset_ptr, ToLe(ChunkEnd))

\* A call that fails.
FailPull ==
  /\ phase = "pull"
  /\ \/ PullTraps /\ phase' = "trap"
     \/ PullPanics /\ phase' = "panic"
  /\ UNCHANGED <<memory, callVars, written, received>>

\* A call that returns how many bytes are left: not 0, and as an i32
\* negative from 2^31 on.
WriteChunk ==
  /\ phase = "pull"
  /\ ~PullTraps /\ ~PullPanics
  /\ ChunkEnd < Len(text)
  /\ memory' = Advanced
  /\ written' = ChunkLen
  /\ phase' = "more"
  /\ UNCHANGED <<callVars, received>>

\* A call that returns 0 and leaves the word where it was.
WriteLastChunk ==
  /\ phase = "pull"
  /\ ~PullTraps /\ ~PullPanics
  /\ ChunkEnd >= Len(text)
  /\ memory' = Buffered
  /\ written' = ChunkLen
  /\ phase' = "last"
  /\ UNCHANGED <<callVars, received>>

\* The guest empties its buffer and calls again unless the call returned 0.
\* How it learns the length of the last chunk is not part of the protocol.
TakeChunk ==
  /\ phase \in {"more", "last"}
  /\ received' = received \o Peek(memory, args.buffer_ptr, written)
  /\ phase' = CASE phase = "last" -> "done"
                [] phase = "more" /\ Len(received) < MaxReceived -> "pull"
                [] OTHER -> "weary"
  /\ UNCHANGED <<memory, callVars, written>>

-----------------------------------------------------------------------------
(* read_string_chunks, one action per turn of its loop: offset is how much *)
(* has been handed to the sink.                                            *)

PushLen ==
  IF Chunk < Len(text) - Len(received) THEN Chunk ELSE Len(text) - Len(received)

\* Mutant of PushFrom: every chunk is read from the start of the buffer.
PushFromStart == args.buffer_ptr

\* buffer_ptr + offset as u32, where the addition wraps around.
PushFrom == (args.buffer_ptr + Len(received)) % AddressSpace

\* Another chunk is due, and the buffer is long enough for it.
ChunkDue ==
  /\ phase = "push"
  /\ Len(text) <= MaxString
  /\ Len(received) < Len(text)
  /\ PushLen <= args.buffer_len

\* What a build with overflow checks does instead of wrapping around.
PushPanics ==
  /\ ChunkDue
  /\ args.buffer_ptr + Len(received) >= AddressSpace
  /\ phase' = "panic"
  /\ UNCHANGED <<memory, callVars, written, received>>

\* The string is too long, or the buffer too short for a chunk, or a chunk is
\* outside the memory.
FailPush ==
  /\ phase = "push"
  /\ \/ Len(text) > MaxString
     \/ Len(received) < Len(text) /\ PushLen > args.buffer_len
     \/ ChunkDue /\ ~Readable(size, PushFrom, PushLen)
  /\ phase' = "trap"
  /\ UNCHANGED <<memory, callVars, written, received>>

\* write_fn refuses a chunk, and its error ends the call.
FailSink ==
  /\ ChunkDue
  /\ Readable(size, PushFrom, PushLen)
  /\ phase' = "trap"
  /\ UNCHANGED <<memory, callVars, written, received>>

\* The chunk is in the sink.
ReadChunk ==
  /\ ChunkDue
  /\ Readable(size, PushFrom, PushLen)
  /\ received' = received \o Peek(memory, PushFrom, PushLen)
  /\ UNCHANGED <<memory, phase, callVars, written>>

EndPush ==
  /\ phase = "push"
  /\ Len(text) <= MaxString
  /\ Len(received) >= Len(text)
  /\ phase' = "done"
  /\ UNCHANGED <<memory, callVars, written, received>>

-----------------------------------------------------------------------------

Pull == FailPull \/ WriteChunk \/ WriteLastChunk \/ TakeChunk
Push == PushPanics \/ FailPush \/ FailSink \/ ReadChunk \/ EndPush

Next == BeginPull \/ BeginPush \/ Pull \/ Push

Spec == Init /\ [][Next]_vars

\* A guest that has begun goes on, and a host function runs to its end.
FairSpec == Spec /\ WF_vars(Pull) /\ WF_vars(Push)

-----------------------------------------------------------------------------

TypeOK ==
  /\ size \in 0 .. AddressSpace
  /\ memory \in [0 .. size - 1 -> Byte]
  /\ phase \in {"idle", "pull", "more", "last", "push", "done", "weary"}
                 \cup Failed
  /\ text \in Seq(Byte) /\ Len(text) \in U32
  /\ args \in Args
  /\ leftover \in U32
  /\ written \in 0 .. Chunk
  /\ received \in Seq(Byte)

Pulling == args.call = "write_string_chunks"
Pushing == args.call = "read_string_chunks"

BufferRange == args.buffer_ptr .. args.buffer_ptr + args.buffer_len - 1
WordRange ==
  IF args.offset_ptr = 0 THEN {} ELSE args.offset_ptr .. args.offset_ptr + 3

\* The guest keeps to the protocol: a word of its own, set to 0, wherever
\* one chunk is not enough.
Disciplined ==
  /\ leftover = 0
  /\ BufferRange \cap WordRange = {}
  /\ args.offset_ptr = 0 => Len(text) <= Chunk

(***************************************************************************)
(* Whatever the size of the string and wherever its chunks end, a guest    *)
(* that keeps to the protocol of write_string_chunks receives the string   *)
(* byte by byte from its beginning, and all of it if the transfer ends     *)
(* well.                                                                   *)
(***************************************************************************)
ReceivedIsPrefix ==
  Pulling /\ Disciplined =>
    /\ IsPrefix(received, text)
    /\ phase = "done" => received = text

(***************************************************************************)
(* A transfer that write_string_chunks fails fails at its first call,      *)
(* before the guest has anything: no later call can find its buffer or     *)
(* its word out of bounds.  Slicing past the string, which would take the  *)
(* whole job down, is only possible when the guest left an old offset in   *)
(* its word: overlapping the buffer is not enough.                         *)
(***************************************************************************)
PullFailsFirst ==
  Pulling /\ phase \in Failed =>
    /\ received = << >>
    /\ phase = "panic" => leftover > Len(text)

(***************************************************************************)
(* write_string_chunks changes the guest's memory only inside the buffer   *)
(* it was given and in the offset word, for every buffer and word.         *)
(***************************************************************************)
WritesStayInside ==
  [][phase = "pull" =>
       \A a \in DOMAIN memory \ (BufferRange \cup WordRange) :
         memory'[a] = memory[a]]_vars

(***************************************************************************)
(* The sink of read_string_chunks gets the guest's string in order and     *)
(* only as far as the guest's memory holds it; all of it if the call       *)
(* succeeds.  A string that ends outside the memory is refused, unless the *)
(* memory is the whole address space, where addresses wrap around.         *)
(***************************************************************************)
PushedInOrder ==
  Pushing =>
    \/ /\ IsPrefix(received, text)
       /\ phase = "done" => received = text
       /\ received # << >> => args.buffer_ptr + Len(received) <= size
    \/ size = AddressSpace /\ args.buffer_ptr + Len(received) > size

(***************************************************************************)
(* With an offset word a pulled transfer ends, in success or failure, even *)
(* if the word overlaps the buffer or starts with an old offset.           *)
(***************************************************************************)
PullsEnd ==
  (phase = "pull" /\ args.offset_ptr # 0) ~> (phase \in {"done"} \cup Failed)

=============================================================================
