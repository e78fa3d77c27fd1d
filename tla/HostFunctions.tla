---------------------------- MODULE HostFunctions ----------------------------
(***************************************************************************)
(* The functions that HostFunctionRegistry offers to guests                *)
(* (src/src/host_functions.rs), as the set of outcomes a call may have: a  *)
(* value, a trap that ends the guest, or a panic, which overflow causes in *)
(* a build that checks for it while another build wraps around.            *)
(*                                                                         *)
(* An i32 is as wide as the constant I32Half says.  Only fibonacci returns *)
(* large numbers: they are written in three limbs of nine digits.          *)
(***************************************************************************)
EXTENDS Integers, Sequences, SequencesExt

CONSTANTS
  I32Half,    \* 2^31
  MaxLength,  \* MAX_STRING_LENGTH
  ChunkSize   \* CHUNK_SIZE

ASSUME WidthAssumption == I32Half \in Nat \ {0}
ASSUME MaxLengthAssumption == MaxLength \in 0 .. I32Half - 1
ASSUME ChunkSizeAssumption == ChunkSize \in 0 .. I32Half - 1

I32 == -I32Half .. I32Half - 1
Wrapped(x) == ((x + I32Half) % (2 * I32Half)) - I32Half

Value(x) == [kind |-> "value", value |-> x]
Trap == [kind |-> "trap"]
Panic == [kind |-> "panic"]

\* An operator of i32 whose exact result is x.
Arithmetic(x) == IF x \in I32 THEN {Value(x)} ELSE {Panic, Value(Wrapped(x))}

Add(a, b) == Arithmetic(a + b)
Multiply(a, b) == Arithmetic(a * b)

-----------------------------------------------------------------------------
(* Lengths of strings.                                                     *)

StringLength(ptr, len) == IF len \in 0 .. MaxLength THEN {Value(len)} ELSE {Trap}

\* len1.cmp(&len2): what the strings hold is not looked at.
StringCompare(ptr1, len1, ptr2, len2) ==
  IF len1 \in 0 .. MaxLength /\ len2 \in 0 .. MaxLength
  THEN {Value(IF len1 < len2 THEN -1 ELSE IF len1 > len2 THEN 1 ELSE 0)}
  ELSE {Trap}

\* i32::saturating_add of numbers that are not negative.
SaturatingAdd(a, b) == IF a + b \in I32 THEN a + b ELSE I32Half - 1

\* A negative sum would be a huge usize.
StringConcat(ptr1, len1, ptr2, len2, out_ptr) ==
  IF len1 < 0 \/ len2 < 0 \/ SaturatingAdd(len1, len2) \notin 0 .. MaxLength
  THEN {Trap}
  ELSE {Value(SaturatingAdd(len1, len2))}

\* Mutant of CheckMemoryBounds: an empty range is refused.
CheckMemoryBoundsStrict(ptr, len) ==
  IF ptr >= 0 /\ len \in 1 .. MaxLength THEN {Value(1)} ELSE {Value(0)}

\* Neither where the range ends nor how much memory there is matters.
CheckMemoryBounds(ptr, len) ==
  IF ptr >= 0 /\ len \in 0 .. MaxLength THEN {Value(1)} ELSE {Value(0)}

-----------------------------------------------------------------------------
(* Numbers.                                                                *)

Limb == 1000000000
IsLimbs(x) == Len(x) = 3 /\ \A i \in 1 .. 3 : x[i] \in 0 .. Limb - 1

\* The exact sum of two numbers below 2^64.
Plus(x, y) ==
  LET low == x[3] + y[3]
      mid == x[2] + y[2] + low \div Limb
      high == x[1] + y[1] + mid \div Limb
  IN  <<high, mid % Limb, low % Limb>>

AtMost(x, y) ==
  \/ x[1] < y[1]
  \/ x[1] = y[1] /\ x[2] < y[2]
  \/ x[1] = y[1] /\ x[2] = y[2] /\ x[3] <= y[3]

\* i64::MAX, 9223372036854775807.
I64Max == <<9, 223372036, 854775807>>
ToLimbs(n) == <<0, 0, n>>

\* What a and b of the loop hold before turn i, if nothing overflows.
Turns[i \in 2 .. 95] ==
  IF i = 2
  THEN [a |-> ToLimbs(0), b |-> ToLimbs(1)]
  ELSE LET before == Turns[i - 1]
       IN  [a |-> before.b, b |-> Plus(before.a, before.b)]

\* Mutant of MaxIndex: one index more.
MaxIndexLate == 94

\* The largest index that is not refused.
MaxIndex == 93

\* A number that is negative because it has wrapped around.
Garbled == <<-1, 0, 0>>

Fibonacci(n) ==
  IF n < 0 \/ n > MaxIndex
  THEN {Trap}
  ELSE LET f == IF n <= 1 THEN ToLimbs(n) ELSE Turns[n + 1].b
       IN  IF AtMost(f, I64Max) THEN {Value(f)} ELSE {Panic, Value(Garbled)}

\* (n as f64).sqrt() as i32, which is exact for 32 bits.
Root(n) == CHOOSE r \in 0 .. n : r * r <= n /\ (r + 1) * (r + 1) > n

\* Mutant of Candidates: the root itself is left out.
CandidatesBelowRoot(n) == {i \in 3 .. Root(n) - 1 : i % 2 = 1}

\* (3..=sqrt_n).step_by(2)
Candidates(n) == {i \in 3 .. Root(n) : i % 2 = 1}

IsPrime(n) ==
  CASE n <= 1 -> {Value(0)}
    [] n = 2 -> {Value(1)}
    [] n > 2 /\ n % 2 = 0 -> {Value(0)}
    [] OTHER -> {Value(IF \E i \in Candidates(n) : n % i = 0 THEN 0 ELSE 1)}

\* Mutant of RandomOffsets: the range is exclusive.
RandomOffsetsShort(range) == 1 .. range

\* seed % range
RandomOffsets(range) == 0 .. range - 1

\* The range is computed as an i32.  Where it overflows it is 0, and min is
\* returned, or negative, hence a huge u64 that bounds nothing.
RandomInt(min, max) ==
  LET range == max - min + 1
  IN  CASE min > max -> {Trap}
        [] min <= max /\ range \in I32 ->
             {Value(offset + min) : offset \in RandomOffsets(range)}
        [] min <= max /\ range \notin I32 /\ Wrapped(range) = 0 ->
             {Panic, Value(min)}
        [] OTHER -> {Panic} \cup {Value(random) : random \in I32}

\* Milliseconds since 1970, as an i64: any moment.
GetTimestamp == {Value("now")}

-----------------------------------------------------------------------------
(* The registry.                                                           *)

\* The default functions and how many parameters each has.
Arity ==
  [add |-> 2, multiply |-> 2, string_length |-> 2, fibonacci |-> 1,
   is_prime |-> 1, string_compare |-> 4, string_concat |-> 5,
   get_timestamp |-> 0, random_int |-> 2, check_memory_bounds |-> 2,
   get_max_string_length |-> 0, get_chunk_size |-> 0]

HostCall(name, p) ==
  CASE name = "add" -> Add(p[1], p[2])
    [] name = "multiply" -> Multiply(p[1], p[2])
    [] name = "string_length" -> StringLength(p[1], p[2])
    [] name = "fibonacci" -> Fibonacci(p[1])
    [] name = "is_prime" -> IsPrime(p[1])
    [] name = "string_compare" -> StringCompare(p[1], p[2], p[3], p[4])
    [] name = "string_concat" -> StringConcat(p[1], p[2], p[3], p[4], p[5])
    [] name = "get_timestamp" -> GetTimestamp
    [] name = "random_int" -> RandomInt(p[1], p[2])
    [] name = "check_memory_bounds" -> CheckMemoryBounds(p[1], p[2])
    [] name = "get_max_string_length" -> {Value(MaxLength)}
    [] name = "get_chunk_size" -> {Value(ChunkSize)}

=============================================================================
