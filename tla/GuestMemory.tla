----------------------------- MODULE GuestMemory -----------------------------
(***************************************************************************)
(* The linear memory of a guest as src/src/host_functions.rs reads and     *)
(* writes it: a function from addresses to bytes, accesses that are        *)
(* refused rather than clipped, and 32-bit words stored little-endian.     *)
(***************************************************************************)
EXTENDS Naturals, Sequences

CONSTANTS
  Base,       \* the values of a byte: 256
  MaxString   \* MAX_STRING_LENGTH

ASSUME BaseAssumption == Base \in Nat \ {0, 1}
ASSUME MaxStringAssumption == MaxString \in Nat

Byte == 0 .. Base - 1

\* Four bytes make an address.
AddressSpace == Base * (Base * (Base * Base))
U32 == 0 .. AddressSpace - 1

\* to_le_bytes and from_le_bytes of a u32.
ToLe(n) ==
  LET d1 == n \div Base
      d2 == d1 \div Base
      d3 == d2 \div Base
  IN  <<n % Base, d1 % Base, d2 % Base, d3 % Base>>

FromLe(bytes) ==
  bytes[1] + Base * (bytes[2] + Base * (bytes[3] + Base * bytes[4]))

\* An access that ends within the memory, and may be empty at its very end.
\* The sum is one of usize, which two u32 cannot overflow.
InBounds(size, offset, length) == offset + length <= size

\* read_memory_safe returns bytes; otherwise it traps.
Readable(size, offset, length) ==
  length <= MaxString /\ InBounds(size, offset, length)

\* write_memory_safe returns; otherwise it traps.
Writable(size, offset, length) == InBounds(size, offset, length)

\* What a read returns, and a memory after a write.
Peek(memory, offset, length) ==
  [i \in 1 .. length |-> memory[offset + i - 1]]

Poke(memory, offset, bytes) ==
  [a \in DOMAIN memory |->
     IF a \in offset .. offset + Len(bytes) - 1
     THEN bytes[a - offset + 1]
     ELSE memory[a]]

=============================================================================
