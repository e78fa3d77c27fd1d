------------------------- MODULE FunctionCallsProofs -------------------------
(***************************************************************************)
(* Host functions, paths and URLs for integers of any width and any limits.*)
(***************************************************************************)
EXTENDS FunctionCalls, FiniteSetTheorems, SequenceTheorems, WellFoundedInduction,
        TLAPS

\* What each step asks.
LEMMA Questions ==
  ASSUME Next
  PROVE  /\ question'.kind = "host" =>
              \E f \in DOMAIN Arguments : \E p \in Arguments[f] :
                /\ question' = [kind |-> "host", name |-> f, params |-> p]
                /\ answer' \in HostCall(f, p)
         /\ question'.kind = "path" =>
              \E path \in Paths, allowed \in Allowed :
                /\ question' = [kind |-> "path", path |-> path,
                                allowed |-> allowed]
                /\ answer'.allowed = IsPathAllowed(allowed, BlockedPaths, path)
         /\ question'.kind = "url" =>
              \E url \in Urls, method \in Methods, limits \in LimitSets :
                /\ question' = [kind |-> "url", url |-> url, method |-> method,
                                limits |-> limits]
                /\ answer'.allowed = /\ ValidateNetworkRequest(limits, url)
                                     /\ Validate(url, method)
<1>1. CASE CallHost
  BY <1>1 DEF CallHost
<1>2. CASE SimulateCall
  BY <1>2 DEF SimulateCall
<1>3. CASE SimulateText
  BY <1>3 DEF SimulateText
<1>4. CASE ParseCall
  BY <1>4 DEF ParseCall
<1>5. CASE AskPath
  BY <1>5 DEF AskPath
<1>6. CASE AskUrl
  BY <1>6 DEF AskUrl
<1>7. QED
  BY <1>1, <1>2, <1>3, <1>4, <1>5, <1>6 DEF Next

-----------------------------------------------------------------------------
(* random_int and check_memory_bounds.                                     *)

(***************************************************************************)
(* A guest's parameters are i32 numbers.                                   *)
(***************************************************************************)
LEMMA HostParameters ==
  ASSUME NEW f \in DOMAIN Arguments, NEW p \in Arguments[f]
  PROVE  \A i \in 1 .. Arity[f] : p[i] \in I32
BY ArgumentsAssumption, ElementOfSeq

(***************************************************************************)
(* A range whose size fits is exactly the set of results of random_int.    *)
(***************************************************************************)
LEMMA RandomOfRange ==
  ASSUME NEW min \in I32, NEW max \in I32, min <= max, max - min < I32Half - 1
  PROVE  RandomInt(min, max) = {Value(v) : v \in min .. max}
<1>1. I32Half \in Nat /\ min \in Int /\ max \in Int
  BY WidthAssumption DEF I32
<1>2. max - min + 1 \in I32
  BY <1>1 DEF I32
<1>3. RandomInt(min, max)
        = {Value(offset + min) : offset \in 0 .. max - min + 1 - 1}
  BY <1>1, <1>2 DEF RandomInt, RandomOffsets
<1>4. \A offset \in 0 .. max - min + 1 - 1 : offset + min \in min .. max
  BY <1>1
<1>5. \A v \in min .. max :
        /\ v - min \in 0 .. max - min + 1 - 1
        /\ (v - min) + min = v
  BY <1>1
<1>6. QED
  BY <1>3, <1>4, <1>5

(***************************************************************************)
(* random_int draws from its whole range whenever the size of the range is *)
(* an i32, of any width.                                                   *)
(***************************************************************************)
THEOREM RandomStaysWithin == Spec => []RandomWithinRange
<1>1. Init => RandomWithinRange
  BY DEF Init, Nothing, RandomWithinRange, HostAnswer
<1>2. RandomWithinRange /\ [Next]_vars => RandomWithinRange'
  <2>1. ASSUME Next PROVE RandomWithinRange'
    <3> SUFFICES ASSUME HostAnswer("random_int")' PROVE RandomWithinRange'
      BY DEF RandomWithinRange
    <3>1. PICK f \in DOMAIN Arguments : \E p \in Arguments[f] :
            /\ question' = [kind |-> "host", name |-> f, params |-> p]
            /\ answer' \in HostCall(f, p)
      BY <2>1, Questions DEF HostAnswer
    <3>2. PICK p \in Arguments[f] :
            /\ question' = [kind |-> "host", name |-> f, params |-> p]
            /\ answer' \in HostCall(f, p)
      BY <3>1
    <3>3. f = "random_int" /\ question'.params = p
      BY <3>2 DEF HostAnswer
    <3>4. p[1] \in I32 /\ p[2] \in I32
      BY <3>3, HostParameters DEF Arity
    <3>5. HostCall("random_int", p) = RandomInt(p[1], p[2])
      BY DEF HostCall
    <3>6. p[1] \in Int /\ p[2] \in Int
      BY <3>4, WidthAssumption DEF I32
    <3>7. p[1] > p[2] => answer' = Trap
      BY <3>2, <3>3, <3>5, <3>6 DEF RandomInt
    <3>8. ASSUME p[1] <= p[2], p[2] - p[1] < I32Half - 1
          PROVE  /\ answer'.kind = "value"
                 /\ answer'.value \in p[1] .. p[2]
                 /\ HostCall("random_int", <<p[1], p[2]>>)
                      = {Value(v) : v \in p[1] .. p[2]}
      <4>1. RandomInt(p[1], p[2]) = {Value(v) : v \in p[1] .. p[2]}
        BY <3>4, <3>8, RandomOfRange
      <4>2. HostCall("random_int", <<p[1], p[2]>>) = RandomInt(p[1], p[2])
        BY DEF HostCall
      <4>3. PICK v \in p[1] .. p[2] : answer' = Value(v)
        BY <3>2, <3>3, <3>5, <4>1
      <4>4. QED
        BY <4>1, <4>2, <4>3 DEF Value
    <3>9. QED
      BY <3>3, <3>7, <3>8 DEF RandomWithinRange
  <2>2. CASE UNCHANGED vars
    BY <2>2 DEF vars, RandomWithinRange, HostAnswer
  <2>3. QED
    BY <2>1, <2>2
<1>3. QED
  BY <1>1, <1>2, PTL DEF Spec

(***************************************************************************)
(* No memory of less than 2^31 bytes has a range that check_memory_bounds  *)
(* refuses and read_memory_safe reads.                                     *)
(***************************************************************************)
THEOREM RefusalsAreRight == Spec => []RefusedRangesUnreadable
<1>1. Init => RefusedRangesUnreadable
  BY DEF Init, Nothing, RefusedRangesUnreadable, HostAnswer
<1>2. RefusedRangesUnreadable /\ [Next]_vars => RefusedRangesUnreadable'
  <2>1. ASSUME Next PROVE RefusedRangesUnreadable'
    <3> SUFFICES ASSUME HostAnswer("check_memory_bounds")', answer' = Value(0),
                        NEW size \in MemorySizes
                 PROVE  ~Memory!Readable(size, Unsigned(question'.params[1]),
                                         Unsigned(question'.params[2]))
      BY DEF RefusedRangesUnreadable
    <3>1. PICK f \in DOMAIN Arguments : \E p \in Arguments[f] :
            /\ question' = [kind |-> "host", name |-> f, params |-> p]
            /\ answer' \in HostCall(f, p)
      BY <2>1, Questions DEF HostAnswer
    <3>2. PICK p \in Arguments[f] :
            /\ question' = [kind |-> "host", name |-> f, params |-> p]
            /\ answer' \in HostCall(f, p)
      BY <3>1
    <3>3. f = "check_memory_bounds" /\ question'.params = p
      BY <3>2 DEF HostAnswer
    <3> DEFINE ptr == p[1]
               len == p[2]
    <3>4. ptr \in I32 /\ len \in I32
      BY <3>3, HostParameters DEF Arity
    <3>5. HostCall("check_memory_bounds", p) = CheckMemoryBounds(ptr, len)
      BY DEF HostCall
    <3>6. ~(ptr >= 0 /\ len \in 0 .. MaxLength)
      BY <3>2, <3>3, <3>5 DEF CheckMemoryBounds, Value
    <3> HIDE DEF ptr, len
    <3>7. /\ I32Half \in Nat /\ I32Half > 0
          /\ ptr \in -I32Half .. I32Half - 1 /\ len \in -I32Half .. I32Half - 1
          /\ MaxLength \in Nat /\ MaxLength < I32Half
          /\ size \in Nat /\ size < I32Half
      BY <3>4, WidthAssumption, MaxLengthAssumption, MemorySizesAssumption DEF I32
    <3>8. \A x \in -I32Half .. I32Half - 1 :
            Unsigned(x) = IF x < 0 THEN x + 2 * I32Half ELSE x
      BY <3>7 DEF Unsigned
    <3>9. Unsigned(ptr) \in Nat /\ Unsigned(len) \in Nat
      BY <3>7, <3>8
    <3>10. Unsigned(ptr) > size \/ Unsigned(len) > MaxLength
      BY <3>6, <3>7, <3>8
    <3>11. ~Memory!Readable(size, Unsigned(ptr), Unsigned(len))
      BY <3>7, <3>9, <3>10 DEF Memory!Readable, Memory!InBounds
    <3>12. QED
      BY <3>3, <3>11 DEF ptr, len
  <2>2. CASE UNCHANGED vars
    BY <2>2 DEF vars, RefusedRangesUnreadable, HostAnswer
  <2>3. QED
    BY <2>1, <2>2
<1>3. QED
  BY <1>1, <1>2, PTL DEF Spec

-----------------------------------------------------------------------------
(* Natural numbers.                                                        *)

(***************************************************************************)
(* Every set of natural numbers that is not empty has a least element.     *)
(***************************************************************************)
LEMMA LeastNumber ==
  ASSUME NEW T \in SUBSET Nat, T # {}
  PROVE  \E m \in T : \A n \in T : m <= n
<1> DEFINE Below == {ss \in Nat \X Nat : ss[1] < ss[2]}
<1>1. IsWellFoundedOn(Below, Nat)
  BY NatLessThanWellFounded, Zenon DEF OpToRel
<1>2. PICK m \in T : \A n \in T : ~(<<n, m>> \in Below)
  <2>1. T \subseteq Nat
    OBVIOUS
  <2> HIDE DEF Below
  <2>2. QED
  BY <1>1, <2>1, WFMin
<1>3. \A n \in T : <<n, m>> \in Below <=> n < m
  OBVIOUS
<1> HIDE DEF Below
<1>4. \A n \in T : ~(n < m)
  BY <1>2, <1>3
<1>5. QED
  BY <1>4

(***************************************************************************)
(* A set that holds 0, and with each number the next, holds every natural  *)
(* number.                                                                 *)
(***************************************************************************)
LEMMA Induction ==
  ASSUME NEW A, 0 \in A, \A k \in Nat : k \in A => k + 1 \in A
  PROVE  \A k \in Nat : k \in A
<1> DEFINE T == {k \in Nat : k \notin A}
<1> SUFFICES ASSUME T # {} PROVE FALSE
  OBVIOUS
<1>1. PICK m \in T : \A n \in T : m <= n
  <2>1. T \in SUBSET Nat
    OBVIOUS
  <2> HIDE DEF T
  <2>2. QED
    BY <2>1, LeastNumber
<1>2. m \in Nat /\ m # 0 /\ m - 1 \in Nat /\ ~(m <= m - 1) /\ (m - 1) + 1 = m
  OBVIOUS
<1>3. m - 1 \in A
  BY <1>1, <1>2
<1>4. m \in A
  BY <1>2, <1>3
<1>5. QED
  BY <1>4

-----------------------------------------------------------------------------
(* fibonacci.                                                              *)

(***************************************************************************)
(* Each turn of the loop takes what the turn before left: the recursive    *)
(* function Turns exists, because a function that is right up to one turn  *)
(* can be made right up to the next.                                       *)
(***************************************************************************)
LEMMA TurnsUnfold ==
  /\ Turns[2] = [a |-> ToLimbs(0), b |-> ToLimbs(1)]
  /\ \A i \in 3 .. 95 :
       Turns[i] = [a |-> Turns[i - 1].b, b |-> Plus(Turns[i - 1].a, Turns[i - 1].b)]
<1> DEFINE Turn(t) == [a |-> t.b, b |-> Plus(t.a, t.b)]
           First == [a |-> ToLimbs(0), b |-> ToLimbs(1)]
           UpTo(f, k) == /\ f = [i \in 2 .. 95 |-> f[i]]
                         /\ \A i \in 2 .. 95 : i <= k =>
                              f[i] = IF i = 2 THEN First ELSE Turn(f[i - 1])
           A == {k \in Nat : \E f : UpTo(f, k)}
<1> HIDE DEF Turn, First
<1>1. 0 \in A
  <2>1. UpTo([i \in 2 .. 95 |-> First], 0)
    OBVIOUS
  <2> HIDE DEF UpTo
  <2>2. QED
    BY <2>1
<1>2. ASSUME NEW k \in Nat, k \in A
      PROVE  k + 1 \in A
  <2>1. PICK f : UpTo(f, k)
    BY <1>2
  <2> DEFINE g == [i \in 2 .. 95 |->
                     IF i = k + 1 THEN (IF i = 2 THEN First ELSE Turn(f[i - 1]))
                     ELSE f[i]]
  <2>2. \A i \in 2 .. 95 : i <= k => g[i] = f[i]
    OBVIOUS
  <2>3. g = [i \in 2 .. 95 |-> g[i]]
    OBVIOUS
  <2>4. ASSUME NEW i \in 2 .. 95, i <= k + 1
        PROVE  g[i] = IF i = 2 THEN First ELSE Turn(g[i - 1])
    <3>1. i # 2 => i - 1 \in 2 .. 95 /\ i - 1 <= k
      BY <2>4
    <3>2. i # 2 => g[i - 1] = f[i - 1]
      BY <2>2, <3>1
    <3>3. CASE i = k + 1
      <4>1. g[i] = IF i = 2 THEN First ELSE Turn(f[i - 1])
        BY <3>3
      <4> HIDE DEF g, UpTo
      <4>2. QED
        BY <3>2, <4>1
    <3>4. CASE i <= k
      <4>1. f[i] = IF i = 2 THEN First ELSE Turn(f[i - 1])
        BY <2>1, <3>4
      <4>2. g[i] = f[i]
        BY <2>2, <3>4
      <4> HIDE DEF g, UpTo
      <4>3. QED
        BY <3>2, <4>1, <4>2
    <3>5. i = k + 1 \/ i <= k
      BY <2>4
    <3>6. QED
      BY <3>3, <3>4, <3>5
  <2> HIDE DEF g
  <2>5. UpTo(g, k + 1)
    BY <2>3, <2>4
  <2> HIDE DEF UpTo
  <2>6. QED
    BY <2>5
<1>3. PICK f : UpTo(f, 95)
  <2> HIDE DEF UpTo
  <2>1. A \in SUBSET Nat
    OBVIOUS
  <2>2. 95 \in A
    <3> HIDE DEF A
    <3>1. QED
      BY <1>1, <1>2, Induction
  <2>3. QED
    BY <2>2
<1>4. f = [i \in 2 .. 95 |-> IF i = 2 THEN First ELSE Turn(f[i - 1])]
  BY <1>3
<1>5. Turns = [i \in 2 .. 95 |-> IF i = 2 THEN First ELSE Turn(Turns[i - 1])]
  BY <1>4 DEF Turns, Turn, First
<1>6. /\ Turns[2] = First
      /\ \A i \in 3 .. 95 : Turns[i] = Turn(Turns[i - 1])
  BY <1>5
<1>7. QED
  BY <1>6 DEF Turn, First

(***************************************************************************)
(* Each list of Fibonacci numbers extends the one before by the sum of its *)
(* last two.                                                               *)
(***************************************************************************)
LEMMA FirstFibsUnfold ==
  /\ FirstFibs[1] = <<ToLimbs(0), ToLimbs(1)>>
  /\ \A n \in 2 .. 94 :
       FirstFibs[n] = Append(FirstFibs[n - 1],
                             Plus(FirstFibs[n - 1][n - 1], FirstFibs[n - 1][n]))
<1> DEFINE Longer(s, n) == Append(s, Plus(s[n - 1], s[n]))
           First == <<ToLimbs(0), ToLimbs(1)>>
           UpTo(f, k) == /\ f = [i \in 1 .. 94 |-> f[i]]
                         /\ \A i \in 1 .. 94 : i <= k =>
                              f[i] = IF i = 1 THEN First ELSE Longer(f[i - 1], i)
           A == {k \in Nat : \E f : UpTo(f, k)}
<1> HIDE DEF Longer, First
<1>1. 0 \in A
  <2>1. UpTo([i \in 1 .. 94 |-> First], 0)
    OBVIOUS
  <2> HIDE DEF UpTo
  <2>2. QED
    BY <2>1
<1>2. ASSUME NEW k \in Nat, k \in A
      PROVE  k + 1 \in A
  <2>1. PICK f : UpTo(f, k)
    BY <1>2
  <2> DEFINE g == [i \in 1 .. 94 |->
                     IF i = k + 1 THEN (IF i = 1 THEN First ELSE Longer(f[i - 1], i))
                     ELSE f[i]]
  <2>2. \A i \in 1 .. 94 : i <= k => g[i] = f[i]
    OBVIOUS
  <2>3. g = [i \in 1 .. 94 |-> g[i]]
    OBVIOUS
  <2>4. ASSUME NEW i \in 1 .. 94, i <= k + 1
        PROVE  g[i] = IF i = 1 THEN First ELSE Longer(g[i - 1], i)
    <3>1. i # 1 => i - 1 \in 1 .. 94 /\ i - 1 <= k
      BY <2>4
    <3>2. i # 1 => g[i - 1] = f[i - 1]
      BY <2>2, <3>1
    <3>3. CASE i = k + 1
      <4>1. g[i] = IF i = 1 THEN First ELSE Longer(f[i - 1], i)
        BY <3>3
      <4> HIDE DEF g, UpTo
      <4>2. QED
        BY <3>2, <4>1
    <3>4. CASE i <= k
      <4>1. f[i] = IF i = 1 THEN First ELSE Longer(f[i - 1], i)
        BY <2>1, <3>4
      <4>2. g[i] = f[i]
        BY <2>2, <3>4
      <4> HIDE DEF g, UpTo
      <4>3. QED
        BY <3>2, <4>1, <4>2
    <3>5. i = k + 1 \/ i <= k
      BY <2>4
    <3>6. QED
      BY <3>3, <3>4, <3>5
  <2> HIDE DEF g
  <2>5. UpTo(g, k + 1)
    BY <2>3, <2>4
  <2> HIDE DEF UpTo
  <2>6. QED
    BY <2>5
<1>3. PICK f : UpTo(f, 94)
  <2> HIDE DEF UpTo
  <2>1. A \in SUBSET Nat
    OBVIOUS
  <2>2. 94 \in A
    <3> HIDE DEF A
    <3>1. QED
      BY <1>1, <1>2, Induction
  <2>3. QED
    BY <2>2
<1>4. f = [i \in 1 .. 94 |-> IF i = 1 THEN First ELSE Longer(f[i - 1], i)]
  BY <1>3
<1>5. FirstFibs = [i \in 1 .. 94 |->
                     IF i = 1 THEN First ELSE Longer(FirstFibs[i - 1], i)]
  BY <1>4 DEF FirstFibs, Longer, First
<1>6. /\ FirstFibs[1] = First
      /\ \A n \in 2 .. 94 : FirstFibs[n] = Longer(FirstFibs[n - 1], n)
  BY <1>5
<1>7. QED
  BY <1>6 DEF Longer, First

\* What the loop returns for an index.
Returned(n) == IF n <= 1 THEN ToLimbs(n) ELSE Turns[n + 1].b

(***************************************************************************)
(* From index 2 on, what is returned is the sum of what is returned for the*)
(* two indices before.                                                     *)
(***************************************************************************)
LEMMA TurnsAdd ==
  ASSUME NEW n \in 2 .. 94
  PROVE  Returned(n) = Plus(Returned(n - 2), Returned(n - 1))
<1>1. Turns[n].b = Returned(n - 1)
  <2>1. CASE n = 2
    BY <2>1, TurnsUnfold DEF Returned
  <2>2. CASE n # 2
    <3>1. ~(n - 1 <= 1) /\ (n - 1) + 1 = n
      BY <2>2
    <3>2. QED
      BY <3>1 DEF Returned
  <2>3. QED
    BY <2>1, <2>2
<1>2. Turns[n].a = Returned(n - 2)
  <2>1. CASE n = 2
    BY <2>1, TurnsUnfold DEF Returned
  <2>2. CASE n # 2
    <3>1. n \in 3 .. 95
      BY <2>2
    <3>2. Turns[n].a = Turns[n - 1].b
      <4>1. Turns[n] = [a |-> Turns[n - 1].b, b |-> Plus(Turns[n - 1].a, Turns[n - 1].b)]
        BY <3>1, TurnsUnfold
      <4>2. QED
        BY <4>1
    <3>3. CASE n = 3
      BY <3>2, <3>3, TurnsUnfold DEF Returned
    <3>4. CASE n > 3
      <4>1. ~(n - 2 <= 1) /\ (n - 2) + 1 = n - 1
        BY <3>4
      <4>2. QED
        BY <3>2, <4>1 DEF Returned
    <3>5. QED
      BY <3>1, <3>3, <3>4
  <2>3. QED
    BY <2>1, <2>2
<1>3. Turns[n + 1].b = Plus(Turns[n].a, Turns[n].b)
  <2>1. n + 1 \in 3 .. 95 /\ (n + 1) - 1 = n
    OBVIOUS
  <2> HIDE DEF Turns
  <2>2. Turns[n + 1] = [a |-> Turns[n].b, b |-> Plus(Turns[n].a, Turns[n].b)]
    BY <2>1, TurnsUnfold
  <2>3. QED
    BY <2>2
<1>4. ~(n <= 1)
  OBVIOUS
<1>5. QED
  BY <1>1, <1>2, <1>3, <1>4 DEF Returned

(***************************************************************************)
(* The loop returns the number of Fibonacci with that index.               *)
(***************************************************************************)
LEMMA LoopFindsFibs ==
  ASSUME NEW n \in 0 .. 94
  PROVE  Fib(n) = Returned(n)
<1> DEFINE S == {Returned(j) : j \in 0 .. 94}
           Fine(s, k) == /\ s \in Seq(S)
                         /\ Len(s) = k + 1
                         /\ \A j \in 1 .. k + 1 : s[j] = Returned(j - 1)
           A == {k \in Nat : k + 1 \in 1 .. 94 => Fine(FirstFibs[k + 1], k + 1)}
<1>1. 0 \in A
  <2>1. Returned(0) = ToLimbs(0) /\ Returned(1) = ToLimbs(1)
    BY DEF Returned
  <2>2. Returned(0) \in S /\ Returned(1) \in S
    OBVIOUS
  <2>3. FirstFibs[1] = <<Returned(0), Returned(1)>>
    BY <2>1, FirstFibsUnfold
  <2> HIDE DEF S
  <2>4. Fine(<<Returned(0), Returned(1)>>, 1)
    BY <2>2
  <2>5. Fine(FirstFibs[1], 1)
    BY <2>3, <2>4
  <2> HIDE DEF Fine
  <2>6. QED
    BY <2>5
<1>2. ASSUME NEW m \in Nat, m \in A
      PROVE  m + 1 \in A
  <2> DEFINE k == m + 2
             before == FirstFibs[m + 1]
             next == Plus(before[m + 1], before[m + 2])
  <2> SUFFICES ASSUME m + 2 \in 1 .. 94 PROVE Fine(FirstFibs[m + 2], m + 2)
    <3>1. (m + 1) + 1 = m + 2
      OBVIOUS
    <3> HIDE DEF Fine
    <3>2. QED
      BY <3>1
  <2>1. Fine(before, m + 1)
    BY <1>2
  <2>2. FirstFibs[m + 2] = Append(before, next)
    <3>1. m + 2 \in 2 .. 94 /\ (m + 2) - 1 = m + 1
      OBVIOUS
    <3> HIDE DEF FirstFibs
    <3>2. QED
      BY <3>1, FirstFibsUnfold
  <2> HIDE DEF before
  <2>3. before \in Seq(S) /\ Len(before) = m + 2
    BY <2>1
  <2>4. before[m + 1] = Returned(m) /\ before[m + 2] = Returned(m + 1)
    <3>1. m + 1 \in 1 .. (m + 1) + 1 /\ m + 2 \in 1 .. (m + 1) + 1
      OBVIOUS
    <3>2. (m + 1) - 1 = m /\ (m + 2) - 1 = m + 1
      OBVIOUS
    <3>3. QED
      BY <2>1, <3>1, <3>2
  <2>5. next = Returned(m + 2)
    <3>1. m + 2 \in 2 .. 94 /\ (m + 2) - 2 = m /\ (m + 2) - 1 = m + 1
      OBVIOUS
    <3>2. QED
      BY <2>4, <3>1, TurnsAdd
  <2>6. next \in S
    BY <2>5
  <2>7. \A j \in 1 .. m + 2 : before[j] = Returned(j - 1)
    BY <2>1
  <2> HIDE DEF next, S
  <2>8. /\ Append(before, next) \in Seq(S)
        /\ Len(Append(before, next)) = (m + 2) + 1
        /\ \A j \in 1 .. m + 2 : Append(before, next)[j] = before[j]
        /\ Append(before, next)[(m + 2) + 1] = next
    BY <2>3, <2>6
  <2>9. ASSUME NEW j \in 1 .. (m + 2) + 1
        PROVE  Append(before, next)[j] = Returned(j - 1)
    <3>1. CASE j = (m + 2) + 1
      BY <2>5, <2>8, <3>1
    <3>2. CASE j \in 1 .. m + 2
      BY <2>7, <2>8, <3>2
    <3>3. j = (m + 2) + 1 \/ j \in 1 .. m + 2
      OBVIOUS
    <3>4. QED
      BY <3>1, <3>2, <3>3
  <2>10. QED
    BY <2>2, <2>8, <2>9
<1>3. \A k \in Nat : k \in A
  <2> HIDE DEF A
  <2>1. QED
    BY <1>1, <1>2, Induction
<1>4. Fine(FirstFibs[94], 94)
  <2>1. 93 \in A
    BY <1>3
  <2> HIDE DEF Fine
  <2>2. QED
    BY <2>1
<1>5. n + 1 \in 1 .. 94 + 1 /\ (n + 1) - 1 = n
  OBVIOUS
<1>6. FirstFibs[94][n + 1] = Returned((n + 1) - 1)
  BY <1>4, <1>5
<1>7. QED
  BY <1>5, <1>6 DEF Fib
\* The number that limbs write down.
Number(x) == x[1] * 1000000000000000000 + x[2] * 1000000000 + x[3]

\* Limbs whose second and third have nine digits.
Proper(x) == /\ x \in Nat \X Nat \X Nat
             /\ x[2] < 1000000000 /\ x[3] < 1000000000

(***************************************************************************)
(* A number is its quotient and its remainder by 10^9.                     *)
(***************************************************************************)
LEMMA Carry ==
  ASSUME NEW n \in Nat
  PROVE  /\ n \div 1000000000 \in Nat
         /\ n % 1000000000 \in Nat /\ n % 1000000000 < 1000000000
         /\ n = (n \div 1000000000) * 1000000000 + (n % 1000000000)
<1>1. n \div 1000000000 \in Nat
  BY SMTT(30)
<1>2. n % 1000000000 \in Nat /\ n % 1000000000 < 1000000000
  BY SMTT(30)
<1>3. n = (n \div 1000000000) * 1000000000 + (n % 1000000000)
  BY SMTT(30)
<1>4. QED
  BY <1>1, <1>2, <1>3, SMTT(30)

(***************************************************************************)
(* Carrying from limb to limb keeps the value of a sum.                    *)
(***************************************************************************)
LEMMA CarriedSum ==
  ASSUME NEW a \in Nat, NEW b \in Nat, NEW c \in Nat,
         NEW d \in Nat, NEW e \in Nat, NEW g \in Nat,
         NEW carry \in Nat, NEW over \in Nat, NEW middle \in Nat, NEW lower \in Nat,
         c + g = carry * 1000000000 + lower,
         b + e + carry = over * 1000000000 + middle
  PROVE  (a + d + over) * 1000000000000000000 + middle * 1000000000 + lower
           = (a * 1000000000000000000 + b * 1000000000 + c)
             + (d * 1000000000000000000 + e * 1000000000 + g)
BY SMTT(30)

(***************************************************************************)
(* Limbs write a natural number down.                                      *)
(***************************************************************************)
LEMMA NumberNat ==
  ASSUME NEW x, Proper(x)
  PROVE  Number(x) \in Nat
BY SMTT(30) DEF Number, Proper

(***************************************************************************)
(* Plus adds, and leaves two limbs of nine digits behind.                  *)
(***************************************************************************)
LEMMA ExactSum ==
  ASSUME NEW x, NEW y, Proper(x), Proper(y)
  PROVE  Proper(Plus(x, y)) /\ Number(Plus(x, y)) = Number(x) + Number(y)
<1> DEFINE low == x[3] + y[3]
           carry == low \div 1000000000
           mid == x[2] + y[2] + carry
           high == x[1] + y[1] + (mid \div 1000000000)
           lower == low % 1000000000
           middle == mid % 1000000000
<1>1. /\ x[1] \in Nat /\ x[2] \in Nat /\ x[3] \in Nat
      /\ y[1] \in Nat /\ y[2] \in Nat /\ y[3] \in Nat
  BY SMTT(30) DEF Proper
<1>2. Plus(x, y) = <<high, middle, lower>>
  BY SMTT(30) DEF Plus, Limb
<1>3. low \in Nat
  BY <1>1, SMTT(30)
<1>4. /\ carry \in Nat /\ lower \in Nat /\ lower < 1000000000
      /\ low = carry * 1000000000 + lower
  <2> HIDE DEF low
  <2>1. QED
    BY <1>3, Carry, SMTT(30)
<1>5. low = x[3] + y[3] /\ mid = x[2] + y[2] + carry
  BY SMTT(30)
<1> HIDE DEF low, carry, lower
<1>6. mid \in Nat
  BY <1>1, <1>4, SMTT(30)
<1> DEFINE over == mid \div 1000000000
<1>7. /\ over \in Nat /\ middle \in Nat /\ middle < 1000000000
      /\ mid = over * 1000000000 + middle
  <2> HIDE DEF mid
  <2>1. QED
    BY <1>6, Carry, SMTT(30)
<1>8. high = x[1] + y[1] + over
  BY SMTT(30)
<1> HIDE DEF mid, over, middle
<1>9. high \in Nat
  BY <1>1, <1>7, <1>8, SMTT(30)
<1> HIDE DEF high
<1>10. Proper(Plus(x, y))
  BY <1>2, <1>4, <1>7, <1>9, SMTT(30) DEF Proper
<1>11. Number(Plus(x, y)) = high * 1000000000000000000 + middle * 1000000000 + lower
  BY <1>2, SMTT(30) DEF Number
<1>12. Number(x) + Number(y)
         = (x[1] * 1000000000000000000 + x[2] * 1000000000 + x[3])
           + (y[1] * 1000000000000000000 + y[2] * 1000000000 + y[3])
  BY SMTT(30) DEF Number
<1>13. high * 1000000000000000000 + middle * 1000000000 + lower
         = (x[1] * 1000000000000000000 + x[2] * 1000000000 + x[3])
           + (y[1] * 1000000000000000000 + y[2] * 1000000000 + y[3])
  <2>1. /\ x[3] + y[3] = carry * 1000000000 + lower
        /\ x[2] + y[2] + carry = over * 1000000000 + middle
    BY <1>4, <1>5, <1>7, SMTT(30)
  <2> DEFINE a == x[1]
             b == x[2]
             c == x[3]
             d == y[1]
             e == y[2]
             g == y[3]
  <2>2. /\ a \in Nat /\ b \in Nat /\ c \in Nat /\ d \in Nat /\ e \in Nat /\ g \in Nat
        /\ c + g = carry * 1000000000 + lower
        /\ b + e + carry = over * 1000000000 + middle
    BY <1>1, <2>1, SMTT(30)
  <2> HIDE DEF a, b, c, d, e, g
  <2>3. (a + d + over) * 1000000000000000000 + middle * 1000000000 + lower
          = (a * 1000000000000000000 + b * 1000000000 + c)
            + (d * 1000000000000000000 + e * 1000000000 + g)
    BY <1>4, <1>7, <2>2, CarriedSum, SMTT(30)
  <2>4. (x[1] + y[1] + over) * 1000000000000000000 + middle * 1000000000 + lower
          = (x[1] * 1000000000000000000 + x[2] * 1000000000 + x[3])
            + (y[1] * 1000000000000000000 + y[2] * 1000000000 + y[3])
    BY <2>3, SMTT(30) DEF a, b, c, d, e, g
  <2>5. QED
    BY <1>8, <2>4, SMTT(30)
<1>14. QED
  BY <1>10, <1>11, <1>12, <1>13, SMTT(30)

(***************************************************************************)
(* Numbers of three limbs are ordered by their first different limb.       *)
(***************************************************************************)
LEMMA LimbOrder ==
  ASSUME NEW a \in Nat, NEW b \in Nat, NEW c \in Nat,
         NEW d \in Nat, NEW e \in Nat, NEW g \in Nat,
         b < 1000000000, c < 1000000000, e < 1000000000, g < 1000000000
  PROVE  (a < d \/ (a = d /\ b < e) \/ (a = d /\ b = e /\ c <= g))
           <=> a * 1000000000000000000 + b * 1000000000 + c
                 <= d * 1000000000000000000 + e * 1000000000 + g
BY SMTT(30)

(***************************************************************************)
(* AtMost compares the numbers that limbs stand for.                       *)
(***************************************************************************)
LEMMA Comparison ==
  ASSUME NEW x, NEW y, Proper(x), Proper(y)
  PROVE  AtMost(x, y) <=> Number(x) <= Number(y)
<1> DEFINE a == x[1]
           b == x[2]
           c == x[3]
           d == y[1]
           e == y[2]
           g == y[3]
<1>1. /\ a \in Nat /\ b \in Nat /\ c \in Nat
      /\ d \in Nat /\ e \in Nat /\ g \in Nat
      /\ b < 1000000000 /\ c < 1000000000
      /\ e < 1000000000 /\ g < 1000000000
  BY SMTT(30) DEF Proper
<1>2. /\ Number(x) = a * 1000000000000000000 + b * 1000000000 + c
      /\ Number(y) = d * 1000000000000000000 + e * 1000000000 + g
  BY SMTT(30) DEF Number
<1>3. AtMost(x, y) <=> (a < d \/ (a = d /\ b < e) \/ (a = d /\ b = e /\ c <= g))
  BY SMTT(30) DEF AtMost
<1> HIDE DEF a, b, c, d, e, g
<1>4. QED
  BY <1>1, <1>2, <1>3, LimbOrder, SMTT(30)

\* Each number is the sum of the two before it.
Summing(G) == \A n \in 0 .. 92 : G[n + 2] = G[n] + G[n + 1]

(***************************************************************************)
(* Eight steps of such a sequence at once.                                 *)
(***************************************************************************)
LEMMA EightSteps ==
  ASSUME NEW G \in [0 .. 94 -> Nat], Summing(G), NEW i \in 0 .. 85
  PROVE  /\ G[i + 8] = 13 * G[i] + 21 * G[i + 1]
         /\ G[i + 9] = 21 * G[i] + 34 * G[i + 1]
<1>1. G[i] \in Nat /\ G[i + 1] \in Nat
  <2>1. i \in 0 .. 94 /\ i + 1 \in 0 .. 94
    OBVIOUS
  <2>2. QED
    BY <2>1
<1> DEFINE a == G[i]
           b == G[i + 1]
<1>2. G[i + 2] = a + b
  <2>1. i \in 0 .. 92 /\ (i) + 2 = i + 2 /\ (i) + 1 = i + 1
    OBVIOUS
  <2>2. G[i + 2] = G[i] + G[i + 1]
    BY <2>1 DEF Summing
  <2> HIDE DEF a, b
  <2>3. a \in Nat /\ b \in Nat
    BY <1>1 DEF a, b
  <2>4. QED
    BY <2>2, <2>3 DEF a, b
<1>3. G[i + 3] = a + 2 * b
  <2>1. i + 1 \in 0 .. 92 /\ (i + 1) + 2 = i + 3 /\ (i + 1) + 1 = i + 2
    OBVIOUS
  <2>2. G[i + 3] = G[i + 1] + G[i + 2]
    BY <2>1 DEF Summing
  <2> HIDE DEF a, b
  <2>3. a \in Nat /\ b \in Nat
    BY <1>1 DEF a, b
  <2>4. QED
    BY <2>2, <2>3, <1>2 DEF b
<1>4. G[i + 4] = 2 * a + 3 * b
  <2>1. i + 2 \in 0 .. 92 /\ (i + 2) + 2 = i + 4 /\ (i + 2) + 1 = i + 3
    OBVIOUS
  <2>2. G[i + 4] = G[i + 2] + G[i + 3]
    BY <2>1 DEF Summing
  <2> HIDE DEF a, b
  <2>3. a \in Nat /\ b \in Nat
    BY <1>1 DEF a, b
  <2>4. QED
    BY <2>2, <2>3, <1>3, <1>2
<1>5. G[i + 5] = 3 * a + 5 * b
  <2>1. i + 3 \in 0 .. 92 /\ (i + 3) + 2 = i + 5 /\ (i + 3) + 1 = i + 4
    OBVIOUS
  <2>2. G[i + 5] = G[i + 3] + G[i + 4]
    BY <2>1 DEF Summing
  <2> HIDE DEF a, b
  <2>3. a \in Nat /\ b \in Nat
    BY <1>1 DEF a, b
  <2>4. QED
    BY <2>2, <2>3, <1>4, <1>3
<1>6. G[i + 6] = 5 * a + 8 * b
  <2>1. i + 4 \in 0 .. 92 /\ (i + 4) + 2 = i + 6 /\ (i + 4) + 1 = i + 5
    OBVIOUS
  <2>2. G[i + 6] = G[i + 4] + G[i + 5]
    BY <2>1 DEF Summing
  <2> HIDE DEF a, b
  <2>3. a \in Nat /\ b \in Nat
    BY <1>1 DEF a, b
  <2>4. QED
    BY <2>2, <2>3, <1>5, <1>4
<1>7. G[i + 7] = 8 * a + 13 * b
  <2>1. i + 5 \in 0 .. 92 /\ (i + 5) + 2 = i + 7 /\ (i + 5) + 1 = i + 6
    OBVIOUS
  <2>2. G[i + 7] = G[i + 5] + G[i + 6]
    BY <2>1 DEF Summing
  <2> HIDE DEF a, b
  <2>3. a \in Nat /\ b \in Nat
    BY <1>1 DEF a, b
  <2>4. QED
    BY <2>2, <2>3, <1>6, <1>5
<1>8. G[i + 8] = 13 * a + 21 * b
  <2>1. i + 6 \in 0 .. 92 /\ (i + 6) + 2 = i + 8 /\ (i + 6) + 1 = i + 7
    OBVIOUS
  <2>2. G[i + 8] = G[i + 6] + G[i + 7]
    BY <2>1 DEF Summing
  <2> HIDE DEF a, b
  <2>3. a \in Nat /\ b \in Nat
    BY <1>1 DEF a, b
  <2>4. QED
    BY <2>2, <2>3, <1>7, <1>6
<1>9. G[i + 9] = 21 * a + 34 * b
  <2>1. i + 7 \in 0 .. 92 /\ (i + 7) + 2 = i + 9 /\ (i + 7) + 1 = i + 8
    OBVIOUS
  <2>2. G[i + 9] = G[i + 7] + G[i + 8]
    BY <2>1 DEF Summing
  <2> HIDE DEF a, b
  <2>3. a \in Nat /\ b \in Nat
    BY <1>1 DEF a, b
  <2>4. QED
    BY <2>2, <2>3, <1>8, <1>7
<1>10. QED
  BY <1>8, <1>9

(***************************************************************************)
(* Number 92 of Fibonacci is the last that i64::MAX admits.                *)
(***************************************************************************)
LEMMA LastOfI64 ==
  ASSUME NEW G \in [0 .. 94 -> Nat], Summing(G), G[0] = 0, G[1] = 1
  PROVE  /\ \A n \in 0 .. 92 : G[n] <= Number(I64Max)
         /\ G[93] > Number(I64Max)
<1>1. G[8] = 21 /\ G[9] = 34
  <2>1. 0 \in 0 .. 85 /\ 0 + 1 = 1 /\ 0 + 8 = 8 /\ 0 + 9 = 9
    BY SMTT(30)
  <2>2. G[8] = 13 * G[0] + 21 * G[1] /\ G[9] = 21 * G[0] + 34 * G[1]
    BY <2>1, EightSteps, SMTT(30)
  <2>3. QED
    BY <2>2, SMTT(30)
<1>2. G[16] = 987 /\ G[17] = 1597
  <2>1. 8 \in 0 .. 85 /\ 8 + 1 = 9 /\ 8 + 8 = 16 /\ 8 + 9 = 17
    BY SMTT(30)
  <2>2. G[16] = 13 * G[8] + 21 * G[9] /\ G[17] = 21 * G[8] + 34 * G[9]
    BY <2>1, EightSteps, SMTT(30)
  <2>3. QED
    BY <1>1, <2>2, SMTT(30)
<1>3. G[24] = 46368 /\ G[25] = 75025
  <2>1. 16 \in 0 .. 85 /\ 16 + 1 = 17 /\ 16 + 8 = 24 /\ 16 + 9 = 25
    BY SMTT(30)
  <2>2. G[24] = 13 * G[16] + 21 * G[17] /\ G[25] = 21 * G[16] + 34 * G[17]
    BY <2>1, EightSteps, SMTT(30)
  <2>3. QED
    BY <1>2, <2>2, SMTT(30)
<1>4. G[32] = 2178309 /\ G[33] = 3524578
  <2>1. 24 \in 0 .. 85 /\ 24 + 1 = 25 /\ 24 + 8 = 32 /\ 24 + 9 = 33
    BY SMTT(30)
  <2>2. G[32] = 13 * G[24] + 21 * G[25] /\ G[33] = 21 * G[24] + 34 * G[25]
    BY <2>1, EightSteps, SMTT(30)
  <2>3. QED
    BY <1>3, <2>2, SMTT(30)
<1>5. G[40] = 102334155 /\ G[41] = 165580141
  <2>1. 32 \in 0 .. 85 /\ 32 + 1 = 33 /\ 32 + 8 = 40 /\ 32 + 9 = 41
    BY SMTT(30)
  <2>2. G[40] = 13 * G[32] + 21 * G[33] /\ G[41] = 21 * G[32] + 34 * G[33]
    BY <2>1, EightSteps, SMTT(30)
  <2>3. QED
    BY <1>4, <2>2, SMTT(30)
<1>6. G[48] = 4807526976 /\ G[49] = 7778742049
  <2>1. 40 \in 0 .. 85 /\ 40 + 1 = 41 /\ 40 + 8 = 48 /\ 40 + 9 = 49
    BY SMTT(30)
  <2>2. G[48] = 13 * G[40] + 21 * G[41] /\ G[49] = 21 * G[40] + 34 * G[41]
    BY <2>1, EightSteps, SMTT(30)
  <2>3. QED
    BY <1>5, <2>2, SMTT(30)
<1>7. G[56] = 225851433717 /\ G[57] = 365435296162
  <2>1. 48 \in 0 .. 85 /\ 48 + 1 = 49 /\ 48 + 8 = 56 /\ 48 + 9 = 57
    BY SMTT(30)
  <2>2. G[56] = 13 * G[48] + 21 * G[49] /\ G[57] = 21 * G[48] + 34 * G[49]
    BY <2>1, EightSteps, SMTT(30)
  <2>3. QED
    BY <1>6, <2>2, SMTT(30)
<1>8. G[64] = 10610209857723 /\ G[65] = 17167680177565
  <2>1. 56 \in 0 .. 85 /\ 56 + 1 = 57 /\ 56 + 8 = 64 /\ 56 + 9 = 65
    BY SMTT(30)
  <2>2. G[64] = 13 * G[56] + 21 * G[57] /\ G[65] = 21 * G[56] + 34 * G[57]
    BY <2>1, EightSteps, SMTT(30)
  <2>3. QED
    BY <1>7, <2>2, SMTT(30)
<1>9. G[72] = 498454011879264 /\ G[73] = 806515533049393
  <2>1. 64 \in 0 .. 85 /\ 64 + 1 = 65 /\ 64 + 8 = 72 /\ 64 + 9 = 73
    BY SMTT(30)
  <2>2. G[72] = 13 * G[64] + 21 * G[65] /\ G[73] = 21 * G[64] + 34 * G[65]
    BY <2>1, EightSteps, SMTT(30)
  <2>3. QED
    BY <1>8, <2>2, SMTT(30)
<1>10. G[80] = 23416728348467685 /\ G[81] = 37889062373143906
  <2>1. 72 \in 0 .. 85 /\ 72 + 1 = 73 /\ 72 + 8 = 80 /\ 72 + 9 = 81
    BY SMTT(30)
  <2>2. G[80] = 13 * G[72] + 21 * G[73] /\ G[81] = 21 * G[72] + 34 * G[73]
    BY <2>1, EightSteps, SMTT(30)
  <2>3. QED
    BY <1>9, <2>2, SMTT(30)
<1>11. G[88] = 1100087778366101931 /\ G[89] = 1779979416004714189
  <2>1. 80 \in 0 .. 85 /\ 80 + 1 = 81 /\ 80 + 8 = 88 /\ 80 + 9 = 89
    BY SMTT(30)
  <2>2. G[88] = 13 * G[80] + 21 * G[81] /\ G[89] = 21 * G[80] + 34 * G[81]
    BY <2>1, EightSteps, SMTT(30)
  <2>3. QED
    BY <1>10, <2>2, SMTT(30)
<1>12. G[90] = G[88] + G[89] /\ G[91] = G[89] + G[90]
      /\ G[92] = G[90] + G[91] /\ G[93] = G[91] + G[92]
  <2>1. \A n \in {88, 89, 90, 91} : n \in 0 .. 92
    BY SMTT(30)
  <2>2. /\ 88 + 2 = 90 /\ 88 + 1 = 89 /\ 89 + 2 = 91 /\ 89 + 1 = 90
        /\ 90 + 2 = 92 /\ 90 + 1 = 91 /\ 91 + 2 = 93 /\ 91 + 1 = 92
    BY SMTT(30)
  <2>3. QED
    BY <2>1, <2>2, SMTT(30) DEF Summing
<1>13. Number(I64Max) = 9 * 1000000000000000000 + 223372036 * 1000000000 + 854775807
  BY SMTT(30) DEF Number, I64Max
<1>14. G[92] \in Nat /\ G[92] <= Number(I64Max) /\ G[93] > Number(I64Max)
       /\ Number(I64Max) \in Nat
  BY <1>11, <1>12, <1>13, SMTT(30)
<1> DEFINE M == Number(I64Max)
<1> HIDE DEF M
<1>15. ASSUME NEW n \in 0 .. 91
       PROVE  G[n] <= G[n + 1] /\ G[n] \in Nat /\ G[n + 1] \in Nat
  <2>1. n \in 0 .. 94 /\ n + 1 \in 0 .. 94
    OBVIOUS
  <2>2. G[n] \in Nat /\ G[n + 1] \in Nat
    BY <2>1
  <2>3. CASE n = 0
    BY <2>3
  <2>4. CASE n # 0
    <3>1. n - 1 \in 0 .. 92 /\ (n - 1) + 2 = n + 1 /\ (n - 1) + 1 = n /\ n - 1 \in 0 .. 94
      BY <2>4
    <3>2. G[n + 1] = G[n - 1] + G[n]
      BY <3>1 DEF Summing
    <3>3. G[n - 1] \in Nat
      BY <3>1
    <3>4. QED
      BY <2>2, <3>2, <3>3
  <2>5. QED
    BY <2>2, <2>3, <2>4
<1> DEFINE A == {j \in Nat : j <= 92 => G[92 - j] <= G[92]}
<1>16. 0 \in A
  BY <1>14, SMTT(30)
<1>17. ASSUME NEW k \in Nat, k \in A
       PROVE  k + 1 \in A
  <2> SUFFICES ASSUME k + 1 <= 92 PROVE G[92 - (k + 1)] <= G[92]
    OBVIOUS
  <2>1. 92 - (k + 1) \in 0 .. 91 /\ (92 - (k + 1)) + 1 = 92 - k
    OBVIOUS
  <2>2. /\ G[92 - (k + 1)] <= G[92 - k]
        /\ G[92 - (k + 1)] \in Nat /\ G[92 - k] \in Nat
    BY <1>15, <2>1
  <2>3. G[92 - k] <= G[92]
    BY <1>17
  <2>4. G[92] \in Nat
    BY <1>14, SMTT(30)
  <2>5. QED
    BY <2>2, <2>3, <2>4
<1>18. \A k \in Nat : k \in A
  <2> HIDE DEF A
  <2>1. QED
    BY <1>16, <1>17, Induction
<1>19. ASSUME NEW n \in 0 .. 92 PROVE G[n] <= Number(I64Max)
  <2>1. 92 - n \in Nat /\ 92 - n <= 92 /\ 92 - (92 - n) = n /\ n \in 0 .. 94
    OBVIOUS
  <2>2. G[92 - (92 - n)] <= G[92]
    BY <1>18, <2>1
  <2>3. G[n] <= G[92] /\ G[n] \in Nat
    BY <2>1, <2>2
  <2>4. QED
    BY <1>14, <2>3, SMTT(30)
<1>20. QED
  BY <1>14, <1>19, SMTT(30)

(***************************************************************************)
(* What the loop holds is always written in limbs of nine digits.          *)
(***************************************************************************)
LEMMA ReturnedProper ==
  ASSUME NEW n \in 0 .. 94
  PROVE  Proper(Returned(n))
<1> DEFINE P(k) == k \in 0 .. 94 => Proper(Returned(k))
           A == {k \in Nat : P(k) /\ P(k + 1)}
<1>1. 0 \in A
  <2>1. Proper(<<0, 0, 0>>) /\ Proper(<<0, 0, 1>>)
    BY SMTT(30) DEF Proper
  <2>2. Returned(0) = <<0, 0, 0>> /\ Returned(1) = <<0, 0, 1>>
    BY DEF Returned, ToLimbs
  <2>3. P(0) /\ P(0 + 1)
    BY <2>1, <2>2
  <2> HIDE DEF P
  <2>4. QED
    BY <2>3
<1>2. ASSUME NEW k \in Nat, k \in A
      PROVE  k + 1 \in A
  <2>1. P(k) /\ P(k + 1)
    <3> HIDE DEF P
    <3>1. QED
      BY <1>2
  <2>2. ASSUME k + 2 \in 0 .. 94
        PROVE  Proper(Returned(k + 2))
    <3>1. /\ k \in 0 .. 94 /\ k + 1 \in 0 .. 94 /\ k + 2 \in 2 .. 94
          /\ (k + 2) - 2 = k /\ (k + 2) - 1 = k + 1
      BY <2>2
    <3>2. Proper(Returned(k)) /\ Proper(Returned(k + 1))
      BY <2>1, <3>1
    <3>3. Returned(k + 2) = Plus(Returned(k), Returned(k + 1))
      BY <3>1, TurnsAdd
    <3>4. QED
      BY <3>2, <3>3, ExactSum
  <2>3. (k + 1) + 1 = k + 2
    OBVIOUS
  <2>4. P((k + 1) + 1)
    BY <2>2, <2>3
  <2> HIDE DEF P
  <2>5. QED
    BY <2>1, <2>4
<1>3. \A k \in Nat : k \in A
  <2> HIDE DEF A
  <2>1. QED
    BY <1>1, <1>2, Induction
<1>4. P(n)
  <2> HIDE DEF P
  <2>1. QED
    BY <1>3
<1>5. QED
  BY <1>4

(***************************************************************************)
(* The index 92 is the last whose number fits an i64.                      *)
(***************************************************************************)
LEMMA FitsUpTo92 ==
  /\ \A n \in 0 .. 92 : AtMost(Returned(n), I64Max)
  /\ ~AtMost(Returned(93), I64Max)
<1> DEFINE G == [n \in 0 .. 94 |-> Number(Returned(n))]
<1>1. ASSUME NEW n \in 0 .. 94
      PROVE  G[n] \in Nat /\ G[n] = Number(Returned(n))
  <2>1. Proper(Returned(n))
    BY ReturnedProper
  <2>2. QED
    BY <2>1, NumberNat
<1>2. G \in [0 .. 94 -> Nat]
  BY <1>1
<1>3. G[0] = 0 /\ G[1] = 1
  <2>1. Number(<<0, 0, 0>>) = 0 /\ Number(<<0, 0, 1>>) = 1
    BY SMTT(30) DEF Number
  <2>2. QED
    BY <2>1 DEF Returned, ToLimbs
<1>4. ASSUME NEW n \in 0 .. 92
      PROVE  G[n + 2] = G[n] + G[n + 1]
  <2>1. /\ n \in 0 .. 94 /\ n + 1 \in 0 .. 94 /\ n + 2 \in 0 .. 94 /\ n + 2 \in 2 .. 94
        /\ (n + 2) - 2 = n /\ (n + 2) - 1 = n + 1
    OBVIOUS
  <2>2. Proper(Returned(n)) /\ Proper(Returned(n + 1))
    BY <2>1, ReturnedProper
  <2>3. Returned(n + 2) = Plus(Returned(n), Returned(n + 1))
    BY <2>1, TurnsAdd
  <2>4. Number(Returned(n + 2)) = Number(Returned(n)) + Number(Returned(n + 1))
    BY <2>2, <2>3, ExactSum
  <2>5. QED
    BY <1>1, <2>1, <2>4
<1> HIDE DEF G
<1>5. Summing(G)
  BY <1>4 DEF Summing
<1>6. /\ \A n \in 0 .. 92 : G[n] <= Number(I64Max)
      /\ G[93] > Number(I64Max)
  BY <1>2, <1>3, <1>5, LastOfI64
<1>7. Proper(I64Max) /\ Number(I64Max) \in Nat
  <2>1. Proper(I64Max)
    BY SMTT(30) DEF I64Max, Proper
  <2>2. QED
    BY <2>1, NumberNat
<1>8. ASSUME NEW n \in 0 .. 93
      PROVE  AtMost(Returned(n), I64Max) <=> G[n] <= Number(I64Max)
  <2>1. n \in 0 .. 94
    OBVIOUS
  <2>2. Proper(Returned(n)) /\ G[n] = Number(Returned(n))
    BY <1>1, <2>1, ReturnedProper
  <2>3. QED
    BY <1>7, <2>2, Comparison
<1>9. ~(G[93] <= Number(I64Max))
  <2>1. G[93] \in Nat
    BY <1>2
  <2>2. QED
    BY <1>6, <1>7, <2>1
<1>10. QED
  BY <1>6, <1>8, <1>9

(***************************************************************************)
(* The outcomes of fibonacci, index by index.                              *)
(***************************************************************************)
LEMMA FibonacciCorrect ==
  ASSUME NEW n \in Int
  PROVE  /\ n \in 0 .. 92 => Fibonacci(n) = {Value(Fib(n))}
         /\ n \notin 0 .. 93 => Fibonacci(n) = {Trap}
         /\ n = 93 => Fibonacci(n) = {Panic, Value(Garbled)}
<1>1. CASE n \notin 0 .. 93
  BY <1>1 DEF Fibonacci, MaxIndex
<1>2. CASE n \in 0 .. 93
  <2>1. Fibonacci(n) = IF AtMost(Returned(n), I64Max)
                       THEN {Value(Returned(n))} ELSE {Panic, Value(Garbled)}
    BY <1>2 DEF Fibonacci, MaxIndex, Returned
  <2>2. Fib(n) = Returned(n)
    BY <1>2, LoopFindsFibs
  <2>3. QED
    BY <1>2, <2>1, <2>2, FitsUpTo92
<1>3. QED
  BY <1>1, <1>2

(***************************************************************************)
(* fibonacci returns the number of its index exactly, traps for what it    *)
(* refuses, and for the index 93, which it accepts, never returns the      *)
(* number.                                                                 *)
(***************************************************************************)
THEOREM FibonacciIsExact == Spec => []FibonacciExact
<1>1. Init => FibonacciExact
  BY DEF Init, Nothing, FibonacciExact, HostAnswer
<1>2. FibonacciExact /\ [Next]_vars => FibonacciExact'
  <2>1. ASSUME Next PROVE FibonacciExact'
    <3> SUFFICES ASSUME HostAnswer("fibonacci")' PROVE FibonacciExact'
      BY DEF FibonacciExact
    <3>1. PICK f \in DOMAIN Arguments : \E p \in Arguments[f] :
            /\ question' = [kind |-> "host", name |-> f, params |-> p]
            /\ answer' \in HostCall(f, p)
      BY <2>1, Questions DEF HostAnswer
    <3>2. PICK p \in Arguments[f] :
            /\ question' = [kind |-> "host", name |-> f, params |-> p]
            /\ answer' \in HostCall(f, p)
      BY <3>1
    <3>3. f = "fibonacci" /\ question'.params = p
      BY <3>2 DEF HostAnswer
    <3>4. p[1] \in Int
      BY <3>3, HostParameters, WidthAssumption DEF Arity, I32
    <3>5. answer' \in Fibonacci(p[1])
      BY <3>2, <3>3 DEF HostCall
    <3>6. /\ p[1] \in 0 .. 92 => answer' = Value(Fib(p[1]))
          /\ p[1] \notin 0 .. 93 => answer' = Trap
          /\ p[1] = 93 => answer' \in {Panic, Value(Garbled)}
      BY <3>4, <3>5, FibonacciCorrect
    <3>7. QED
      BY <3>3, <3>6 DEF FibonacciExact
  <2>2. CASE UNCHANGED vars
    BY <2>2 DEF vars, FibonacciExact, HostAnswer
  <2>3. QED
    BY <2>1, <2>2
<1>3. QED
  BY <1>1, <1>2, PTL DEF Spec

-----------------------------------------------------------------------------
(* is_prime.                                                               *)

(***************************************************************************)
(* Division with remainder.                                                *)
(***************************************************************************)
LEMMA Division ==
  ASSUME NEW n \in Nat, NEW d \in Nat \ {0}
  PROVE  n = d * (n \div d) + (n % d) /\ n \div d \in Nat
OBVIOUS

(***************************************************************************)
(* A multiple leaves no remainder.                                         *)
(***************************************************************************)
LEMMA Multiple ==
  ASSUME NEW d \in Nat \ {0}, NEW q \in Nat
  PROVE  (d * q) % d = 0
OBVIOUS

(***************************************************************************)
(* Larger numbers have larger squares.                                     *)
(***************************************************************************)
LEMMA Squares ==
  ASSUME NEW a \in Nat, NEW b \in Nat, a <= b
  PROVE  a * a <= b * b /\ a * a <= a * b
OBVIOUS

(***************************************************************************)
(* The integer square root exists, and is the largest number whose square  *)
(* is not larger.                                                          *)
(***************************************************************************)
LEMMA RootProperties ==
  ASSUME NEW n \in Nat
  PROVE  /\ Root(n) \in 0 .. n
         /\ Root(n) * Root(n) <= n /\ n < (Root(n) + 1) * (Root(n) + 1)
<1> DEFINE T == {k \in Nat : k * k > n}
<1>1. n + 1 \in T
  <2>1. n + 1 \in Nat /\ 1 <= n + 1 /\ (n + 1) * 1 = n + 1
    OBVIOUS
  <2>2. (n + 1) * 1 <= (n + 1) * (n + 1)
    OBVIOUS
  <2>3. QED
    BY <2>1, <2>2
<1>2. PICK k \in T : \A j \in T : k <= j
  <2>1. T # {} /\ T \in SUBSET Nat
    BY <1>1
  <2> HIDE DEF T
  <2>2. QED
    BY <2>1, LeastNumber
<1>3. k # 0 /\ k - 1 \in Nat /\ k <= n + 1
  <2>1. ~(0 * 0 > n)
    OBVIOUS
  <2>2. QED
    BY <1>1, <1>2, <2>1
<1>4. (k - 1) * (k - 1) <= n
  <2>1. k - 1 \notin T
    <3>1. ~(k <= k - 1)
      BY <1>3
    <3> HIDE DEF T
    <3>2. QED
      BY <1>2, <3>1
  <2>2. (k - 1) * (k - 1) \in Nat
    BY <1>3
  <2>3. QED
    BY <1>3, <2>1, <2>2
<1>5. (k - 1) + 1 = k
  BY <1>3
<1>6. \E r \in 0 .. n : r * r <= n /\ (r + 1) * (r + 1) > n
  <2>1. k - 1 \in 0 .. n
    BY <1>3
  <2>2. ((k - 1) + 1) * ((k - 1) + 1) > n
    BY <1>2, <1>5
  <2>3. QED
    BY <1>4, <2>1, <2>2
<1>7. QED
  <2>1. Root(n) \in 0 .. n /\ Root(n) * Root(n) <= n /\ (Root(n) + 1) * (Root(n) + 1) > n
    BY <1>6 DEF Root
  <2>2. QED
    BY <2>1

(***************************************************************************)
(* An even factor makes the product even.                                  *)
(***************************************************************************)
LEMMA EvenProduct ==
  ASSUME NEW a \in Nat, NEW b \in Nat, a % 2 = 0
  PROVE  (a * b) % 2 = 0
<1>1. PICK h \in Nat : a = 2 * h
  BY Division
<1>2. PICK q \in Nat : a * b = 2 * q
  <2>1. a * b = 2 * (h * b) /\ h * b \in Nat
    BY <1>1
  <2>2. QED
    BY <2>1
<1>3. (2 * q) % 2 = 0
  BY Multiple
<1>4. QED
  BY <1>2, <1>3

(***************************************************************************)
(* The smaller of two factors is at most the root.                         *)
(***************************************************************************)
LEMMA SmallDivisor ==
  ASSUME NEW n \in Nat, NEW a \in Nat, NEW b \in Nat, n = a * b, a <= b
  PROVE  a <= Root(n)
<1> DEFINE r == Root(n)
<1>1. r \in Nat /\ n < (r + 1) * (r + 1)
  BY RootProperties
<1> HIDE DEF r
<1>2. ASSUME r + 1 <= a PROVE FALSE
  <2>1. (r + 1) * (r + 1) <= a * a
    BY <1>1, <1>2, Squares
  <2>2. a * a <= a * b
    BY Squares
  <2>3. (r + 1) * (r + 1) \in Nat /\ a * a \in Nat /\ a * b \in Nat
    BY <1>1
  <2>4. QED
    BY <1>1, <2>1, <2>2, <2>3
<1>3. QED
  BY <1>1, <1>2 DEF r

(***************************************************************************)
(* An odd number has a divisor among the odd numbers up to its root if it  *)
(* has any.                                                                *)
(***************************************************************************)
LEMMA CandidatesSuffice ==
  ASSUME NEW n \in Nat, n > 2, n % 2 # 0
  PROVE  (\E i \in Candidates(n) : n % i = 0) <=> (\E d \in 2 .. n - 1 : n % d = 0)
<1>1. Root(n) \in 0 .. n /\ Root(n) * Root(n) <= n
  BY RootProperties
<1>2. ASSUME NEW i \in Candidates(n), n % i = 0
      PROVE  i \in 2 .. n - 1
  <2>1. i \in Nat /\ 3 <= i /\ i <= Root(n)
    BY <1>1 DEF Candidates
  <2>2. i * i <= Root(n) * Root(n)
    BY <1>1, <2>1, Squares
  <2>3. 3 * i <= i * i
    BY <2>1
  <2>4. i * i \in Nat /\ Root(n) * Root(n) \in Nat
    BY <1>1, <2>1
  <2>5. QED
    BY <1>1, <2>1, <2>2, <2>3, <2>4
<1>3. ASSUME NEW a \in Nat, NEW b \in Nat, n = a * b, a <= b, a > 1
      PROVE  \E i \in Candidates(n) : n % i = 0
  <2>1. a <= Root(n)
    BY <1>3, SmallDivisor
  <2>2. a % 2 # 0
    BY <1>3, EvenProduct
  <2>3. a % 2 = 1 /\ a # 2
    BY <2>2
  <2>4. (a * b) % a = 0
    <3>1. a \in Nat \ {0}
      BY <1>3
    <3>2. QED
      BY <3>1, Multiple
  <2>5. a \in Candidates(n)
    BY <1>1, <1>3, <2>1, <2>3 DEF Candidates
  <2>6. QED
    BY <1>3, <2>4, <2>5
<1>4. ASSUME NEW d \in 2 .. n - 1, n % d = 0
      PROVE  \E i \in Candidates(n) : n % i = 0
  <2> DEFINE q == n \div d
  <2>1. n = d * q /\ q \in Nat
    BY <1>4, Division
  <2> HIDE DEF q
  <2>2. n = q * d
    BY <2>1
  <2>3. q > 1
    <3>1. d * 0 = 0 /\ d * 1 = d
      OBVIOUS
    <3>2. QED
      BY <2>1, <3>1
  <2>4. CASE d <= q
    BY <1>3, <2>1, <2>4
  <2>5. CASE q <= d
    BY <1>3, <2>1, <2>2, <2>3, <2>5
  <2>6. QED
    BY <2>1, <2>4, <2>5
<1>5. QED
  BY <1>2, <1>4

(***************************************************************************)
(* Trial division is right for every integer.                              *)
(***************************************************************************)
LEMMA IsPrimeCorrect ==
  ASSUME NEW n \in Int
  PROVE  IsPrime(n)
           = {Value(IF n > 1 /\ \A d \in 2 .. n - 1 : n % d # 0 THEN 1 ELSE 0)}
<1>1. CASE n <= 1
  BY <1>1 DEF IsPrime
<1>2. CASE n = 2
  <2>1. 2 .. n - 1 = {}
    BY <1>2
  <2>2. IsPrime(n) = {Value(1)}
    BY <1>2 DEF IsPrime
  <2>3. QED
    BY <1>2, <2>1, <2>2
<1>3. CASE n > 2 /\ n % 2 = 0
  <2>1. 2 \in 2 .. n - 1
    BY <1>3
  <2>2. IsPrime(n) = {Value(0)}
    BY <1>3 DEF IsPrime
  <2>3. QED
    BY <1>3, <2>1, <2>2
<1>4. CASE n > 2 /\ n % 2 # 0
  <2> DEFINE Found == \E i \in Candidates(n) : n % i = 0
             Composite == \E d \in 2 .. n - 1 : n % d = 0
  <2>1. Found <=> Composite
    <3>1. n \in Nat /\ n > 2 /\ n % 2 # 0
      BY <1>4
    <3>2. QED
      BY <3>1, CandidatesSuffice
  <2>2. (\A d \in 2 .. n - 1 : n % d # 0) <=> ~Composite
    OBVIOUS
  <2>3. IsPrime(n) = CASE n <= 1 -> {Value(0)}
                       [] n = 2 -> {Value(1)}
                       [] n > 2 /\ n % 2 = 0 -> {Value(0)}
                       [] OTHER -> {Value(IF Found THEN 0 ELSE 1)}
    BY DEF IsPrime
  <2> HIDE DEF Found, Composite
  <2>4. IsPrime(n) = {Value(IF Found THEN 0 ELSE 1)}
    BY <1>4, <2>3
  <2>5. CASE Found
    BY <1>4, <2>1, <2>2, <2>4, <2>5
  <2>6. CASE ~Found
    BY <1>4, <2>1, <2>2, <2>4, <2>6
  <2>7. QED
    BY <2>5, <2>6
<1>5. QED
  BY <1>1, <1>2, <1>3, <1>4

(***************************************************************************)
(* is_prime tells the primes from the other numbers, negative ones and the *)
(* square of a prime among them, for integers of any width.                *)
(***************************************************************************)
THEOREM PrimesAreFound == Spec => []PrimesAsDefined
<1>1. Init => PrimesAsDefined
  BY DEF Init, Nothing, PrimesAsDefined, HostAnswer
<1>2. PrimesAsDefined /\ [Next]_vars => PrimesAsDefined'
  <2>1. ASSUME Next PROVE PrimesAsDefined'
    <3> SUFFICES ASSUME HostAnswer("is_prime")' PROVE PrimesAsDefined'
      BY DEF PrimesAsDefined
    <3>1. PICK f \in DOMAIN Arguments : \E p \in Arguments[f] :
            /\ question' = [kind |-> "host", name |-> f, params |-> p]
            /\ answer' \in HostCall(f, p)
      BY <2>1, Questions DEF HostAnswer
    <3>2. PICK p \in Arguments[f] :
            /\ question' = [kind |-> "host", name |-> f, params |-> p]
            /\ answer' \in HostCall(f, p)
      BY <3>1
    <3>3. f = "is_prime" /\ question'.params = p
      BY <3>2 DEF HostAnswer
    <3>4. p[1] \in Int
      BY <3>3, HostParameters, WidthAssumption DEF Arity, I32
    <3>5. answer' \in IsPrime(p[1])
      BY <3>2, <3>3 DEF HostCall
    <3>6. IsPrime(p[1]) = {Value(IF p[1] > 1 /\ \A d \in 2 .. p[1] - 1 : p[1] % d # 0
                                 THEN 1 ELSE 0)}
      BY <3>4, IsPrimeCorrect
    <3>7. QED
      BY <3>3, <3>5, <3>6 DEF PrimesAsDefined
  <2>2. CASE UNCHANGED vars
    BY <2>2 DEF vars, PrimesAsDefined, HostAnswer
  <2>3. QED
    BY <2>1, <2>2
<1>3. QED
  BY <1>1, <1>2, PTL DEF Spec

-----------------------------------------------------------------------------
(* parse_args: reading a text is a run over its characters.                *)

(***************************************************************************)
(* A finite set of numbers has a greatest one, which Max finds.            *)
(***************************************************************************)
LEMMA LargestNumber ==
  ASSUME NEW u, NEW k \in Nat, u \in SUBSET (1 .. k), u # {}
  PROVE  Max(u) \in u /\ \A i \in u : i <= Max(u)
<1> DEFINE T == {k - i : i \in u}
<1>1. T \in SUBSET Nat /\ T # {}
  <2>1. \A i \in u : i \in 1 .. k
    OBVIOUS
  <2>2. \A i \in u : k - i \in Nat
    BY <2>1
  <2>3. QED
    BY <2>2
<1>2. PICK m \in T : \A n \in T : m <= n
  <2> HIDE DEF T
  <2>1. QED
    BY <1>1, LeastNumber
<1>3. PICK i \in u : m = k - i
  OBVIOUS
<1>4. \A j \in u : j <= i
  <2> SUFFICES ASSUME NEW j \in u PROVE j <= i
    OBVIOUS
  <2>1. k - i <= k - j
    BY <1>2, <1>3
  <2>2. i \in 1 .. k /\ j \in 1 .. k
    OBVIOUS
  <2>3. QED
    BY <2>1, <2>2
<1>5. QED
  BY <1>4 DEF Max

(***************************************************************************)
(* The fold that parse_args is comes from a run: a state before each       *)
(* character, each following from the one before it. The fold is given by  *)
(* sets of positions; the run is found position by position.               *)
(***************************************************************************)
LEMMA ParseFold ==
  ASSUME NEW s, NEW from, Len(s) \in Nat, DOMAIN s = 1 .. Len(s)
  PROVE  \E h : /\ h[0] = from
                /\ \A i \in 1 .. Len(s) : h[i] = ParseToken(h[i - 1], s[i])
                /\ FoldLeft(ParseToken, from, s) = h[Len(s)]
<1> DEFINE Body(f, u) == IF u = {} THEN from
                         ELSE ParseToken(f[u \ {Max(u)}], s[Max(u)])
           Folds(f, k) == f = [u \in SUBSET (1 .. k) |-> Body(f, u)]
           A == {k \in Nat : \E f : Folds(f, k)}
<1>1. 0 \in A
  <2> DEFINE f == [u \in SUBSET (1 .. 0) |-> from]
  <2>1. ASSUME NEW u \in SUBSET (1 .. 0) PROVE f[u] = Body(f, u)
    <3>1. u = {}
      OBVIOUS
    <3>2. QED
      BY <3>1
  <2>2. Folds(f, 0)
    <3>1. f = [u \in SUBSET (1 .. 0) |-> f[u]]
      OBVIOUS
    <3> HIDE DEF f, Body
    <3>2. QED
      BY <2>1, <3>1
  <2> HIDE DEF Folds, f
  <2>3. QED
    BY <2>2
<1>2. ASSUME NEW k \in Nat, k \in A
      PROVE  k + 1 \in A
  <2>1. PICK f : Folds(f, k)
    BY <1>2
  <2> DEFINE g == [u \in SUBSET (1 .. k + 1) |->
                     IF k + 1 \in u THEN ParseToken(f[u \ {k + 1}], s[k + 1]) ELSE f[u]]
  <2>2. ASSUME NEW u \in SUBSET (1 .. k + 1), k + 1 \notin u
        PROVE  u \in SUBSET (1 .. k) /\ g[u] = f[u]
    <3>1. \A i \in u : i \in 1 .. k
      BY <2>2
    <3>2. QED
      BY <2>2, <3>1
  <2>3. ASSUME NEW u \in SUBSET (1 .. k + 1)
        PROVE  g[u] = Body(g, u)
    <3>1. CASE k + 1 \in u
      <4>1. Max(u) = k + 1
        <5>1. k + 1 \in Nat /\ u # {}
          BY <3>1
        <5>2. Max(u) \in u /\ \A i \in u : i <= Max(u)
          BY <5>1, LargestNumber
        <5>3. Max(u) \in 1 .. k + 1 /\ k + 1 <= Max(u)
          BY <3>1, <5>2
        <5>4. QED
          BY <5>3
      <4> DEFINE v == u \ {k + 1}
      <4>2. v \in SUBSET (1 .. k + 1) /\ k + 1 \notin v
        OBVIOUS
      <4>3. g[v] = f[v]
        BY <2>2, <4>2
      <4>4. g[u] = ParseToken(f[v], s[k + 1])
        BY <3>1
      <4> HIDE DEF g
      <4>5. QED
        BY <3>1, <4>1, <4>3, <4>4
    <3>2. CASE k + 1 \notin u
      <4>1. u \in SUBSET (1 .. k) /\ g[u] = f[u]
        BY <2>2, <3>2
      <4>2. f[u] = Body(f, u)
        <5> HIDE DEF Body
        <5>1. QED
          BY <2>1, <4>1
      <4>3. CASE u = {}
        <5> HIDE DEF g
        <5>1. QED
          BY <4>1, <4>2, <4>3
      <4>4. CASE u # {}
        <5>1. u \ {Max(u)} \in SUBSET (1 .. k + 1) /\ k + 1 \notin u \ {Max(u)}
          BY <3>2
        <5>2. g[u \ {Max(u)}] = f[u \ {Max(u)}]
          BY <2>2, <5>1
        <5> HIDE DEF g
        <5>3. QED
          BY <4>1, <4>2, <4>4, <5>2
      <4>5. QED
        BY <4>3, <4>4
    <3>3. QED
      BY <3>1, <3>2
  <2>4. g = [u \in SUBSET (1 .. k + 1) |-> g[u]]
    OBVIOUS
  <2> HIDE DEF g, Body
  <2>5. Folds(g, k + 1)
    BY <2>3, <2>4
  <2> HIDE DEF Folds
  <2>6. QED
    BY <2>5
<1>3. \A k \in Nat : k \in A
  <2> HIDE DEF A
  <2>1. QED
    BY <1>1, <1>2, Induction
<1> DEFINE n == Len(s)
           fold == CHOOSE f : Folds(f, n)
<1>4. Folds(fold, n)
  <2>1. n \in A
    BY <1>3
  <2> HIDE DEF Folds, n
  <2>2. \E f : Folds(f, n)
    BY <2>1
  <2>3. QED
    BY <2>2
<1>5. FoldLeft(ParseToken, from, s) = fold[1 .. n]
  BY DEF FoldLeft, MapThenFoldSet
<1> HIDE DEF fold
<1> DEFINE h == [k \in 0 .. n |-> fold[1 .. k]]
<1>6. h[0] = from
  <2>1. 1 .. 0 = {} /\ {} \in SUBSET (1 .. n) /\ 0 \in 0 .. n
    OBVIOUS
  <2>2. fold[{}] = Body(fold, {})
    <3> HIDE DEF Body, n
    <3>1. QED
      BY <1>4, <2>1
  <2>3. QED
    BY <2>1, <2>2
<1>7. ASSUME NEW i \in 1 .. n
      PROVE  h[i] = ParseToken(h[i - 1], s[i])
  <2>1. /\ i \in Nat /\ i \in 0 .. n /\ i - 1 \in 0 .. n
        /\ 1 .. i \in SUBSET (1 .. n) /\ 1 .. i # {}
    <3>1. n \in Nat
      OBVIOUS
    <3> HIDE DEF n
    <3>2. QED
      BY <3>1
  <2>2. i \in 1 .. i /\ (1 .. i) \ {i} = 1 .. i - 1
    BY <2>1
  <2>3. Max(1 .. i) = i
    <3>1. Max(1 .. i) \in 1 .. i /\ \A j \in 1 .. i : j <= Max(1 .. i)
      BY <2>1, LargestNumber
    <3>2. QED
      BY <2>1, <2>2, <3>1
  <2>4. fold[1 .. i] = Body(fold, 1 .. i)
    <3> HIDE DEF Body, n
    <3>1. QED
      BY <1>4, <2>1
  <2>5. fold[1 .. i] = ParseToken(fold[1 .. i - 1], s[i])
    BY <2>1, <2>2, <2>3, <2>4
  <2> HIDE DEF n
  <2>6. QED
    BY <2>1, <2>5
<1>8. h[n] = fold[1 .. n]
  OBVIOUS
<1> HIDE DEF h
<1>9. QED
  BY <1>5, <1>6, <1>7, <1>8

\* The tokens that the text of a call consists of.
Tokens == Marks \cup DOMAIN NumberOf \cup DOMAIN Arity \cup {"f"}
            \cup UNION {{form[i] : i \in DOMAIN form} : form \in DOMAIN Forms}

\* parse_args reads s in one state and is in another afterwards.
Run(h, from, s) ==
  h[0] = from /\ \A i \in 1 .. Len(s) : h[i] = ParseToken(h[i - 1], s[i])
Reads(from, s, to) == \E h : Run(h, from, s) /\ h[Len(s)] = to

(***************************************************************************)
(* Folding a text is reading it.                                           *)
(***************************************************************************)
LEMMA FoldReads ==
  ASSUME NEW s \in Seq(Tokens), NEW from
  PROVE  Reads(from, s, FoldLeft(ParseToken, from, s))
<1>1. Len(s) \in Nat /\ DOMAIN s = 1 .. Len(s)
  OBVIOUS
<1>2. PICK h : /\ h[0] = from
               /\ \A i \in 1 .. Len(s) : h[i] = ParseToken(h[i - 1], s[i])
               /\ FoldLeft(ParseToken, from, s) = h[Len(s)]
  BY <1>1, ParseFold
<1> DEFINE end == FoldLeft(ParseToken, from, s)
<1>3. end = h[Len(s)]
  BY <1>2
<1> HIDE DEF end
<1>4. Run(h, from, s)
  BY <1>2 DEF Run
<1>5. Reads(from, s, end)
  BY <1>3, <1>4 DEF Reads
<1>6. QED
  BY <1>5 DEF end

(***************************************************************************)
(* A text is read in one way only.                                         *)
(***************************************************************************)
LEMMA ReadsOnce ==
  ASSUME NEW s \in Seq(Tokens), NEW from, NEW a, NEW b,
         Reads(from, s, a), Reads(from, s, b)
  PROVE  a = b
<1>1. PICK h : Run(h, from, s) /\ h[Len(s)] = a
  BY DEF Reads
<1>2. PICK g : Run(g, from, s) /\ g[Len(s)] = b
  BY DEF Reads
<1> DEFINE A == {k \in Nat : k \in 0 .. Len(s) => h[k] = g[k]}
<1>3. 0 \in A
  BY <1>1, <1>2 DEF Run
<1>4. ASSUME NEW k \in Nat, k \in A
      PROVE  k + 1 \in A
  <2> SUFFICES ASSUME k + 1 \in 0 .. Len(s) PROVE h[k + 1] = g[k + 1]
    OBVIOUS
  <2>1. Len(s) \in Nat
    OBVIOUS
  <2>2. k \in 0 .. Len(s) /\ k + 1 \in 1 .. Len(s) /\ (k + 1) - 1 = k
    BY <2>1
  <2>3. h[k] = g[k]
    BY <1>4, <2>2
  <2>4. h[k + 1] = ParseToken(h[k], s[k + 1]) /\ g[k + 1] = ParseToken(g[k], s[k + 1])
    BY <1>1, <1>2, <2>2 DEF Run
  <2>5. QED
    BY <2>3, <2>4
<1>5. \A k \in Nat : k \in A
  <2> HIDE DEF A
  <2>1. QED
    BY <1>3, <1>4, Induction
<1>6. Len(s) \in Nat /\ Len(s) \in 0 .. Len(s)
  OBVIOUS
<1>7. h[Len(s)] = g[Len(s)]
  BY <1>5, <1>6
<1>8. QED
  BY <1>1, <1>2, <1>7

(***************************************************************************)
(* Reading a text and then another is reading both in a row.               *)
(***************************************************************************)
LEMMA ReadsAfter ==
  ASSUME NEW s \in Seq(Tokens), NEW t \in Seq(Tokens),
         NEW from, NEW mid, NEW to, Reads(from, s, mid), Reads(mid, t, to)
  PROVE  Reads(from, s \o t, to)
<1>1. PICK h : Run(h, from, s) /\ h[Len(s)] = mid
  BY DEF Reads
<1>2. PICK g : Run(g, mid, t) /\ g[Len(t)] = to
  BY DEF Reads
<1> DEFINE m == Len(s)
           n == Len(t)
           w == s \o t
<1>3. /\ m \in Nat /\ n \in Nat /\ Len(w) = m + n
      /\ \A i \in 1 .. m : w[i] = s[i]
      /\ \A i \in 1 .. n : w[m + i] = t[i]
  <2>1. m \in Nat /\ n \in Nat /\ Len(w) = m + n
    OBVIOUS
  <2>2. \A i \in 1 .. m : w[i] = s[i]
    OBVIOUS
  <2>3. ASSUME NEW i \in 1 .. n PROVE w[m + i] = t[i]
    OBVIOUS
  <2>4. QED
    BY <2>1, <2>2, <2>3
<1>4. h[0] = from /\ \A i \in 1 .. m : h[i] = ParseToken(h[i - 1], s[i])
  BY <1>1 DEF Run
<1>5. g[0] = h[m] /\ \A i \in 1 .. n : g[i] = ParseToken(g[i - 1], t[i])
  BY <1>1, <1>2 DEF Run
<1>6. g[n] = to
  BY <1>2
<1> HIDE DEF m, n, w
<1> DEFINE f == [k \in 0 .. m + n |-> IF k <= m THEN h[k] ELSE g[k - m]]
<1>7. f[0] = from
  BY <1>3, <1>4
<1>8. ASSUME NEW i \in 1 .. m + n
      PROVE  f[i] = ParseToken(f[i - 1], w[i])
  <2>1. i \in 0 .. m + n /\ i - 1 \in 0 .. m + n
    BY <1>3
  <2>2. CASE i <= m
    <3>1. i \in 1 .. m /\ i - 1 <= m
      BY <1>3, <2>2
    <3>2. f[i] = h[i] /\ f[i - 1] = h[i - 1]
      BY <2>1, <2>2, <3>1
    <3> HIDE DEF f
    <3>3. QED
      BY <1>3, <1>4, <3>1, <3>2
  <2>3. CASE i > m
    <3> DEFINE j == i - m
    <3>1. j \in 1 .. n /\ m + j = i /\ ~(i <= m)
      BY <1>3, <2>3
    <3>2. f[i] = g[j]
      BY <2>1, <3>1
    <3>3. f[i - 1] = g[j - 1]
      <4>1. CASE i - 1 <= m
        <5>1. i - 1 = m /\ j - 1 = 0
          BY <1>3, <2>3, <4>1
        <5>2. f[i - 1] = h[m]
          BY <2>1, <4>1, <5>1
        <5>3. QED
          BY <1>5, <5>1, <5>2
      <4>2. CASE ~(i - 1 <= m)
        <5>1. (i - 1) - m = j - 1
          BY <1>3
        <5>2. QED
          BY <2>1, <4>2, <5>1
      <4>3. QED
        BY <4>1, <4>2
    <3> HIDE DEF f, j
    <3>4. QED
      BY <1>3, <1>5, <3>1, <3>2, <3>3
  <2>4. QED
    BY <1>3, <2>2, <2>3
<1>9. f[m + n] = to
  <2>1. m + n \in 0 .. m + n /\ (m + n) - m = n
    BY <1>3
  <2>2. CASE n = 0
    <3>1. m + n <= m /\ m + n = m
      BY <1>3, <2>2
    <3>2. QED
      BY <1>5, <1>6, <2>1, <2>2, <3>1
  <2>3. CASE n # 0
    <3>1. ~(m + n <= m)
      BY <1>3, <2>3
    <3>2. QED
      BY <1>6, <2>1, <3>1
  <2>4. QED
    BY <2>2, <2>3
<1> HIDE DEF f
<1>10. Run(f, from, w) /\ f[Len(w)] = to
  BY <1>3, <1>7, <1>8, <1>9 DEF Run
<1>11. QED
  BY <1>10 DEF Reads, w

(***************************************************************************)
(* Reading one character is one turn of the loop.                          *)
(***************************************************************************)
LEMMA ReadsToken ==
  ASSUME NEW from, NEW c \in Tokens
  PROVE  Reads(from, <<c>>, ParseToken(from, c))
<1> DEFINE h == [k \in 0 .. 1 |-> IF k = 0 THEN from ELSE ParseToken(from, c)]
<1>1. h[0] = from /\ h[1] = ParseToken(from, c)
  OBVIOUS
<1> HIDE DEF h
<1>2. Len(<<c>>) = 1 /\ <<c>>[1] = c
  OBVIOUS
<1>3. \A i \in 1 .. 1 : i = 1 /\ i - 1 = 0
  OBVIOUS
<1>4. Run(h, from, <<c>>) /\ h[Len(<<c>>)] = ParseToken(from, c)
  BY <1>1, <1>2, <1>3 DEF Run
<1>5. QED
  BY <1>4 DEF Reads

\* Nothing but spaces around an argument, which is a word or is missing yet.

\* A buffer that holds nothing but spaces and an argument of one token, or none.
Holds(s, arg) ==
  /\ s \in Seq(Tokens)
  /\ \/ arg = << >> /\ \A i \in DOMAIN s : s[i] = " "
     \/ \E j \in DOMAIN s :
          /\ arg = <<s[j]>> /\ s[j] # " "
          /\ \A i \in DOMAIN s \ {j} : s[i] = " "

\* parse_args outside of brackets.
State(args, s, quote) ==
  [args |-> args, current |-> s, quote |-> quote, depth |-> 0]

\* The arguments found so far, the quote it is in and what its buffer holds.
At(state, args, quote, arg) ==
  \E s : state = State(args, s, quote) /\ Holds(s, arg)

\* The quotes parse_args knows.
QuoteMarks == {"\"", "'"}

(***************************************************************************)
(* A part of one character is that character.                              *)
(***************************************************************************)
LEMMA OneToken ==
  ASSUME NEW s \in Seq(Tokens), NEW j \in 1 .. Len(s)
  PROVE  SubSeq(s, j, j) = <<s[j]>>
<1>1. j \in Int
  OBVIOUS
<1>2. \A i \in j .. j : i = j
  BY <1>1
<1>3. s[j] \in Tokens
  BY ElementOfSeq
<1>4. \A i \in j .. j : s[i] \in Tokens
  BY <1>2, <1>3
<1>5. SubSeq(s, j, j) \in Seq(Tokens)
  BY <1>1, <1>4, SubSeqProperties
<1>6. Len(SubSeq(s, j, j)) = IF j <= j THEN j - j + 1 ELSE 0
  BY <1>1, <1>4, SubSeqProperties
<1>7. \A i \in 1 .. j - j + 1 : SubSeq(s, j, j)[i] = s[j + i - 1]
  BY <1>1, <1>4, SubSeqProperties
<1>8. Len(SubSeq(s, j, j)) = 1 /\ SubSeq(s, j, j)[1] = s[j]
  BY <1>1, <1>6, <1>7
<1> DEFINE word == SubSeq(s, j, j)
<1> HIDE DEF word
<1>9. word \in Seq(Tokens) /\ Len(word) = 1 /\ word[1] = s[j]
  BY <1>5, <1>8 DEF word
<1>10. <<s[j]>> \in Seq(Tokens) /\ Len(<<s[j]>>) = 1 /\ <<s[j]>>[1] = s[j]
  BY <1>3
<1>11. \A i \in 1 .. 1 : i = 1
  OBVIOUS
<1>12. word = <<s[j]>>
  BY <1>9, <1>10, <1>11, SeqEqual
<1>13. QED
  BY <1>12 DEF word

(***************************************************************************)
(* Trimming a buffer that holds an argument leaves the argument.           *)
(***************************************************************************)
LEMMA TrimHolds ==
  ASSUME NEW s, NEW arg, Holds(s, arg)
  PROVE  Trim(s) = arg
<1> DEFINE solid == {i \in DOMAIN s : s[i] # " "}
<1>1. CASE arg = << >> /\ \A i \in DOMAIN s : s[i] = " "
  <2>1. solid = {}
    BY <1>1
  <2>2. QED
    BY <1>1, <2>1 DEF Trim
<1>2. ASSUME NEW j \in DOMAIN s, arg = <<s[j]>>, s[j] # " ",
             \A i \in DOMAIN s \ {j} : s[i] = " "
      PROVE  Trim(s) = arg
  <2>1. s \in Seq(Tokens)
    BY DEF Holds
  <2>2. DOMAIN s = 1 .. Len(s) /\ Len(s) \in Nat
    BY <2>1, LenProperties
  <2>3. j \in Int /\ j \in 1 .. Len(s)
    BY <2>2
  <2>4. solid = {j}
    <3>1. \A i \in DOMAIN s : s[i] # " " <=> i = j
      BY <1>2
    <3>2. QED
      BY <3>1
  <2>5. Min({j}) = j /\ Max({j}) = j
    BY <2>3 DEF Min, Max
  <2>6. Trim(s) = SubSeq(s, j, j)
    <3>1. solid # {}
      BY <2>4
    <3>2. Trim(s) = SubSeq(s, Min(solid), Max(solid))
      BY <3>1 DEF Trim
    <3>3. QED
      BY <2>4, <2>5, <3>2
  <2>7. SubSeq(s, j, j) = <<s[j]>>
    BY <2>1, <2>3, OneToken
  <2>8. QED
    BY <1>2, <2>6, <2>7
<1>3. QED
  BY <1>1, <1>2 DEF Holds

(***************************************************************************)
(* What appending a character does, position by position.                  *)
(***************************************************************************)
LEMMA Pushed ==
  ASSUME NEW s \in Seq(Tokens), NEW c \in Tokens
  PROVE  /\ Append(s, c) \in Seq(Tokens)
         /\ \A i \in DOMAIN s : i \in DOMAIN Append(s, c) /\ Append(s, c)[i] = s[i]
         /\ Len(s) + 1 \in DOMAIN Append(s, c) /\ Append(s, c)[Len(s) + 1] = c
         /\ \A i \in DOMAIN Append(s, c) : i \in DOMAIN s \/ i = Len(s) + 1
         /\ Len(s) + 1 \notin DOMAIN s
<1>1. Len(s) \in Nat /\ DOMAIN s = 1 .. Len(s)
  BY LenProperties
<1>2. /\ Append(s, c) \in Seq(Tokens) /\ Len(Append(s, c)) = Len(s) + 1
      /\ \A i \in 1 .. Len(s) : Append(s, c)[i] = s[i]
      /\ Append(s, c)[Len(s) + 1] = c
  BY AppendProperties
<1> DEFINE t == Append(s, c)
<1> HIDE DEF t
<1>3. /\ t \in Seq(Tokens) /\ Len(t) = Len(s) + 1
      /\ \A i \in 1 .. Len(s) : t[i] = s[i]
      /\ t[Len(s) + 1] = c
  BY <1>2, Zenon DEF t
<1>4. DOMAIN t = 1 .. Len(s) + 1
  BY <1>3, LenProperties
<1>5. /\ \A i \in DOMAIN s : i \in DOMAIN t /\ t[i] = s[i]
      /\ Len(s) + 1 \in DOMAIN t
      /\ \A i \in DOMAIN t : i \in DOMAIN s \/ i = Len(s) + 1
      /\ Len(s) + 1 \notin DOMAIN s
  BY <1>1, <1>3, <1>4
<1>6. QED
  BY <1>3, <1>5, Zenon DEF t

(***************************************************************************)
(* A space leaves the argument of the buffer as it is.                     *)
(***************************************************************************)
LEMMA PushSpace ==
  ASSUME NEW s, NEW arg, Holds(s, arg)
  PROVE  Holds(Append(s, " "), arg)
<1> DEFINE t == Append(s, " ")
           k == Len(s) + 1
<1>1. s \in Seq(Tokens)
  BY DEF Holds
<1>2. /\ t \in Seq(Tokens)
      /\ \A i \in DOMAIN s : i \in DOMAIN t /\ t[i] = s[i]
      /\ k \in DOMAIN t /\ t[k] = " "
      /\ \A i \in DOMAIN t : i \in DOMAIN s \/ i = k
  <2>1. " " \in Tokens
    BY DEF Tokens, Marks
  <2>2. QED
    BY <1>1, <2>1, Pushed, Zenon
<1> HIDE DEF t, k
<1>3. CASE arg = << >> /\ \A i \in DOMAIN s : s[i] = " "
  <2>1. \A i \in DOMAIN t : t[i] = " "
    BY <1>2, <1>3
  <2>2. QED
    BY <1>2, <1>3, <2>1 DEF Holds, t
<1>4. ASSUME NEW j \in DOMAIN s, arg = <<s[j]>>, s[j] # " ",
             \A i \in DOMAIN s \ {j} : s[i] = " "
      PROVE  Holds(t, arg)
  <2>1. j \in DOMAIN t /\ t[j] = s[j]
    BY <1>2
  <2>2. \A i \in DOMAIN t \ {j} : t[i] = " "
    BY <1>2, <1>4
  <2>3. QED
    BY <1>2, <1>4, <2>1, <2>2 DEF Holds
<1>5. QED
  BY <1>3, <1>4 DEF Holds, t

(***************************************************************************)
(* A word becomes the argument of a buffer that held none.                 *)
(***************************************************************************)
LEMMA PushWord ==
  ASSUME NEW s, Holds(s, << >>), NEW n \in Tokens, n # " "
  PROVE  Holds(Append(s, n), <<n>>)
<1> DEFINE t == Append(s, n)
           k == Len(s) + 1
<1>1. s \in Seq(Tokens)
  BY DEF Holds
<1>2. \A i \in DOMAIN s : s[i] = " "
  <2>1. \A c : << >> # <<c>>
    OBVIOUS
  <2>2. QED
    BY <2>1 DEF Holds
<1>3. /\ t \in Seq(Tokens)
      /\ \A i \in DOMAIN s : i \in DOMAIN t /\ t[i] = s[i]
      /\ k \in DOMAIN t /\ t[k] = n
      /\ \A i \in DOMAIN t : i \in DOMAIN s \/ i = k
  BY <1>1, Pushed
<1> HIDE DEF t, k
<1>4. \A i \in DOMAIN t \ {k} : t[i] = " "
  BY <1>2, <1>3
<1>5. Holds(t, <<n>>)
  BY <1>3, <1>4 DEF Holds
<1>6. QED
  BY <1>5 DEF t

(***************************************************************************)
(* A space is read inside and outside of quotes.                           *)
(***************************************************************************)
LEMMA SpaceRead ==
  ASSUME NEW state, NEW args, NEW quote \in {"none"} \cup QuoteMarks, NEW arg,
         At(state, args, quote, arg)
  PROVE  At(ParseToken(state, " "), args, quote, arg)
<1>1. PICK s : state = State(args, s, quote) /\ Holds(s, arg)
  BY DEF At
<1>2. ParseToken(state, " ") = State(args, Append(s, " "), quote)
  BY <1>1 DEF State, ParseToken, Push, QuoteMarks
<1>3. QED
  BY <1>1, <1>2, PushSpace DEF At

(***************************************************************************)
(* A quote opens, and is not part of the argument.                         *)
(***************************************************************************)
LEMMA QuoteOpened ==
  ASSUME NEW state, NEW args, NEW mark \in QuoteMarks, NEW arg,
         At(state, args, "none", arg)
  PROVE  At(ParseToken(state, mark), args, mark, arg)
<1>1. PICK s : state = State(args, s, "none") /\ Holds(s, arg)
  BY DEF At
<1>2. ParseToken(state, mark) = State(args, s, mark)
  BY <1>1 DEF State, ParseToken, QuoteMarks
<1>3. QED
  BY <1>1, <1>2 DEF At

(***************************************************************************)
(* The same quote closes.                                                  *)
(***************************************************************************)
LEMMA QuoteClosed ==
  ASSUME NEW state, NEW args, NEW mark \in QuoteMarks, NEW arg,
         At(state, args, mark, arg)
  PROVE  At(ParseToken(state, mark), args, "none", arg)
<1>1. PICK s : state = State(args, s, mark) /\ Holds(s, arg)
  BY DEF At
<1>2. ParseToken(state, mark) = State(args, s, "none")
  BY <1>1 DEF State, ParseToken, QuoteMarks
<1>3. QED
  BY <1>1, <1>2 DEF At

(***************************************************************************)
(* A word is read inside and outside of quotes.                            *)
(***************************************************************************)
LEMMA WordRead ==
  ASSUME NEW state, NEW args, NEW quote \in {"none"} \cup QuoteMarks,
         NEW n \in Tokens \ Marks, At(state, args, quote, << >>)
  PROVE  At(ParseToken(state, n), args, quote, <<n>>)
<1>1. PICK s : state = State(args, s, quote) /\ Holds(s, << >>)
  BY DEF At
<1>2. n \notin {" ", ",", "(", ")", "[", "]", "\"", "'"}
  BY DEF Marks
<1>3. ParseToken(state, n) = State(args, Append(s, n), quote)
  BY <1>1, <1>2 DEF State, ParseToken, Push, QuoteMarks
<1>4. Holds(Append(s, n), <<n>>)
  BY <1>1, <1>2, PushWord
<1>5. QED
  BY <1>3, <1>4 DEF At

(***************************************************************************)
(* A comma outside of quotes and brackets ends an argument.                *)
(***************************************************************************)
LEMMA CommaRead ==
  ASSUME NEW state, NEW args, NEW arg, At(state, args, "none", arg)
  PROVE  At(ParseToken(state, ","), Append(args, arg), "none", << >>)
<1>1. PICK s : state = State(args, s, "none") /\ Holds(s, arg)
  BY DEF At
<1>2. Trim(s) = arg
  BY <1>1, TrimHolds
<1>3. ParseToken(state, ",") = State(Append(args, arg), << >>, "none")
  BY <1>1, <1>2 DEF State, ParseToken
<1>4. Holds(<< >>, << >>)
  BY DEF Holds
<1>5. QED
  BY <1>3, <1>4 DEF At

-----------------------------------------------------------------------------
(* parse_args: numerals in their layouts.                                  *)

\* Reading the mark takes the quote that is open from first to last.

\* A quote that opens or closes.
Toggles(first, mark, last) ==
  /\ mark \in QuoteMarks
  /\ \/ first = "none" /\ last = mark
     \/ first = mark /\ last = "none"

\* Spaces, and at j a mark unless j is 0.
Half(s, j, first, last) ==
  /\ \A i \in DOMAIN s \ {j} : s[i] = " "
  /\ j = 0 => last = first
  /\ j # 0 => Toggles(first, s[j], last)

(***************************************************************************)
(* A quote that opens or closes is read.                                   *)
(***************************************************************************)
LEMMA MarkRead ==
  ASSUME NEW state, NEW args, NEW arg, NEW first, NEW mark, NEW last,
         Toggles(first, mark, last), At(state, args, first, arg)
  PROVE  At(ParseToken(state, mark), args, last, arg)
<1>1. mark \in QuoteMarks
  BY DEF Toggles
<1>2. CASE first = "none" /\ last = mark
  BY <1>1, <1>2, QuoteOpened
<1>3. CASE first = mark /\ last = "none"
  BY <1>1, <1>3, QuoteClosed
<1>4. QED
  BY <1>2, <1>3 DEF Toggles

(***************************************************************************)
(* Spaces with one quote among them, or none, leave the argument as it is  *)
(* and switch the quote.                                                   *)
(***************************************************************************)
LEMMA HalfReads ==
  ASSUME NEW s \in Seq(Tokens), NEW j \in 0 .. Len(s),
         NEW first \in {"none"} \cup QuoteMarks, NEW last \in {"none"} \cup QuoteMarks,
         Half(s, j, first, last),
         NEW from, NEW to, NEW args, NEW arg,
         At(from, args, first, arg), Reads(from, s, to)
  PROVE  At(to, args, last, arg)
<1>1. PICK h : Run(h, from, s) /\ h[Len(s)] = to
  BY DEF Reads
<1>2. Len(s) \in Nat /\ DOMAIN s = 1 .. Len(s) /\ j \in Nat /\ j <= Len(s)
  BY LenProperties
<1> DEFINE Quote(k) == IF j = 0 \/ k < j THEN first ELSE last
           Fine(k) == k \in 0 .. Len(s) => At(h[k], args, Quote(k), arg)
           A == {k \in Nat : Fine(k)}
<1>3. 0 \in A
  <2>1. j = 0 \/ 0 < j
    BY <1>2
  <2>2. h[0] = from
    BY <1>1 DEF Run
  <2>3. Quote(0) = first
    BY <2>1
  <2> HIDE DEF Quote
  <2>4. Fine(0)
    BY <2>2, <2>3
  <2> HIDE DEF Fine
  <2>5. QED
    BY <2>4
<1>4. ASSUME NEW k \in Nat, k \in A
      PROVE  k + 1 \in A
  <2>1. Fine(k)
    <3> HIDE DEF Fine
    <3>1. QED
      BY <1>4
  <2>2. ASSUME k + 1 \in 0 .. Len(s)
        PROVE  At(h[k + 1], args, Quote(k + 1), arg)
    <3>1. k \in 0 .. Len(s) /\ k + 1 \in 1 .. Len(s) /\ (k + 1) - 1 = k
      BY <1>2, <2>2
    <3>2. At(h[k], args, Quote(k), arg)
      BY <2>1, <3>1
    <3>3. h[k + 1] = ParseToken(h[k], s[k + 1])
      BY <1>1, <3>1 DEF Run
    <3>4. Quote(k) \in {"none"} \cup QuoteMarks
      OBVIOUS
    <3>5. CASE k + 1 # j
      <4>1. s[k + 1] = " "
        BY <1>2, <3>1, <3>5 DEF Half
      <4>2. k + 1 < j <=> k < j
        BY <1>2, <3>5
      <4>3. Quote(k + 1) = Quote(k)
        BY <4>2
      <4> HIDE DEF Quote
      <4>4. QED
        BY <3>2, <3>3, <3>4, <4>1, <4>3, SpaceRead
    <3>6. CASE k + 1 = j
      <4>1. j # 0 /\ k < j /\ ~(k + 1 < j)
        BY <1>2, <3>6
      <4>2. Quote(k) = first /\ Quote(k + 1) = last
        BY <4>1
      <4>3. Toggles(first, s[k + 1], last)
        BY <3>6, <4>1 DEF Half
      <4> HIDE DEF Quote
      <4>4. QED
        BY <3>2, <3>3, <4>2, <4>3, MarkRead
    <3>7. QED
      BY <3>5, <3>6
  <2> HIDE DEF Quote
  <2>3. Fine(k + 1)
    BY <2>2
  <2> HIDE DEF Fine
  <2>4. k + 1 \in Nat
    OBVIOUS
  <2>5. QED
    BY <2>3, <2>4
<1>5. \A k \in Nat : k \in A
  <2> HIDE DEF A
  <2>1. QED
    BY <1>3, <1>4, Induction
<1>6. Fine(Len(s))
  <2> HIDE DEF Fine
  <2>1. QED
    BY <1>2, <1>5
<1>7. Quote(Len(s)) = last
  <2>1. CASE j = 0
    BY <2>1 DEF Half
  <2>2. CASE j # 0
    <3>1. ~(Len(s) < j)
      BY <1>2
    <3>2. QED
      BY <2>2, <3>1
  <2>3. QED
    BY <2>1, <2>2
<1> HIDE DEF Quote
<1>8. Len(s) \in 0 .. Len(s)
  BY <1>2
<1>9. At(h[Len(s)], args, Quote(Len(s)), arg)
  BY <1>6, <1>8
<1>10. QED
  BY <1>1, <1>7, <1>9

\* An argument as a program writes it.
Argument(layout, n) == layout[1] \o <<n>> \o layout[2]

(***************************************************************************)
(* A numeral is read with everything a layout puts around it, and ends up  *)
(* as the argument of the buffer.                                          *)
(***************************************************************************)
LEMMA ArgumentReads ==
  ASSUME NEW layout \in Layouts, NEW n \in DOMAIN NumberOf, NEW args, NEW from,
         At(from, args, "none", << >>)
  PROVE  /\ Argument(layout, n) \in Seq(Tokens)
         /\ \E to : Reads(from, Argument(layout, n), to) /\ At(to, args, "none", <<n>>)
<1> DEFINE before == layout[1]
           after == layout[2]
<1>1. PICK open \in 0 .. Len(before), close \in 0 .. Len(after) :
        /\ before \in Seq(Marks) /\ after \in Seq(Marks)
        /\ \A i \in DOMAIN before \ {open} : before[i] = " "
        /\ \A i \in DOMAIN after \ {close} : after[i] = " "
        /\ \/ open = 0 /\ close = 0
           \/ /\ open # 0 /\ close # 0
              /\ before[open] \in {"\"", "'"} /\ after[close] = before[open]
  BY LayoutsAssumption
<1>2. before \in Seq(Tokens) /\ after \in Seq(Tokens)
  <2>1. Marks \subseteq Tokens
    BY DEF Tokens
  <2> HIDE DEF before, after
  <2>2. QED
    BY <1>1, <2>1, SeqMonotonic
<1>3. n \in Tokens \ Marks
  BY NumeralsAssumption DEF Tokens
<1> HIDE DEF before, after
<1> DEFINE quote == IF open = 0 THEN "none" ELSE before[open]
<1>4. quote \in {"none"} \cup QuoteMarks
  BY <1>1 DEF QuoteMarks
<1>5. Half(before, open, "none", quote) /\ Half(after, close, quote, "none")
  <2>1. CASE open = 0 /\ close = 0
    BY <1>1, <2>1 DEF Half
  <2>2. CASE /\ open # 0 /\ close # 0
             /\ before[open] \in {"\"", "'"} /\ after[close] = before[open]
    <3>1. open # 0 /\ close # 0
      BY <2>2
    <3>2. Toggles("none", before[open], quote) /\ Toggles(quote, after[close], "none")
      BY <2>2, <3>1 DEF Toggles, QuoteMarks
    <3> HIDE DEF quote
    <3>3. QED
      BY <1>1, <3>1, <3>2 DEF Half
  <2>3. QED
    BY <1>1, <2>1, <2>2
<1> HIDE DEF quote
<1>6. <<n>> \in Seq(Tokens) /\ n \in Tokens
  BY <1>3
<1> DEFINE a == FoldLeft(ParseToken, from, before)
           b == ParseToken(a, n)
           c == FoldLeft(ParseToken, b, after)
<1>7. Reads(from, before, a) /\ Reads(b, after, c)
  BY <1>2, FoldReads
<1>8. Reads(a, <<n>>, b)
  BY <1>6, ReadsToken
<1> HIDE DEF a, b, c
<1>9. At(a, args, quote, << >>)
  BY <1>2, <1>4, <1>7, <1>5, HalfReads
<1>10. At(b, args, quote, <<n>>)
  BY <1>3, <1>4, <1>9, WordRead DEF b
<1>11. At(c, args, "none", <<n>>)
  BY <1>2, <1>4, <1>7, <1>10, <1>5, HalfReads
<1>12. before \o <<n>> \in Seq(Tokens) /\ (before \o <<n>>) \o after \in Seq(Tokens)
  BY <1>2, <1>6, ConcatProperties
<1>13. Reads(from, (before \o <<n>>) \o after, c)
  BY <1>2, <1>6, <1>7, <1>8, <1>12, ReadsAfter
<1>14. QED
  BY <1>11, <1>12, <1>13 DEF Argument, before, after

(***************************************************************************)
(* Appending to a sequence of one.                                         *)
(***************************************************************************)
LEMMA AppendOne ==
  ASSUME NEW x, NEW y
  PROVE  Append(<<x>>, y) = <<x, y>>
<1> DEFINE S == {x, y}
<1>1. <<x>> \in Seq(S) /\ Len(<<x>>) = 1 /\ <<x>>[1] = x
  OBVIOUS
<1>2. /\ Append(<<x>>, y) \in Seq(S) /\ Len(Append(<<x>>, y)) = Len(<<x>>) + 1
      /\ \A i \in 1 .. Len(<<x>>) : Append(<<x>>, y)[i] = <<x>>[i]
      /\ Append(<<x>>, y)[Len(<<x>>) + 1] = y
  <2>1. y \in S
    OBVIOUS
  <2> HIDE DEF S
  <2>2. QED
    BY <1>1, <2>1, AppendProperties
<1>3. <<x, y>> \in Seq(S) /\ Len(<<x, y>>) = 2 /\ <<x, y>>[1] = x /\ <<x, y>>[2] = y
  OBVIOUS
<1>4. \A i \in 1 .. 2 : i = 1 \/ i = 2
  OBVIOUS
<1> DEFINE s == Append(<<x>>, y)
<1>5. s \in Seq(S) /\ Len(s) = 2 /\ s[1] = x /\ s[2] = y
  BY <1>1, <1>2
<1> HIDE DEF s, S
<1>6. s = <<x, y>>
  BY <1>3, <1>4, <1>5, SeqEqual
<1>7. QED
  BY <1>6 DEF s

(***************************************************************************)
(* parse_args finds the one numeral of a text.                             *)
(***************************************************************************)
LEMMA ParsedOne ==
  ASSUME NEW layout \in Layouts, NEW n \in DOMAIN NumberOf
  PROVE  ParseArgs(Argument(layout, n)) = <<<<n>>>>
<1>1. At(ParseState, << >>, "none", << >>)
  <2>1. Holds(<< >>, << >>) /\ ParseState = State(<< >>, << >>, "none")
    BY DEF Holds, ParseState, State
  <2>2. QED
    BY <2>1 DEF At
<1> DEFINE s == Argument(layout, n)
           end == FoldLeft(ParseToken, ParseState, s)
<1>2. s \in Seq(Tokens) /\ \E to : Reads(ParseState, s, to) /\ At(to, << >>, "none", <<n>>)
  BY <1>1, ArgumentReads
<1> HIDE DEF s
<1>3. Reads(ParseState, s, end)
  BY <1>2, FoldReads
<1>4. At(end, << >>, "none", <<n>>)
  <2> HIDE DEF end
  <2>1. QED
    BY <1>2, <1>3, ReadsOnce
<1>5. ParseArgs(s) = IF Trim(end.current) = << >> THEN end.args
                     ELSE Append(end.args, Trim(end.current))
  BY DEF ParseArgs
<1> HIDE DEF end
<1>6. PICK t : end = State(<< >>, t, "none") /\ Holds(t, <<n>>)
  BY <1>4 DEF At
<1>7. Trim(end.current) = <<n>> /\ end.args = << >>
  BY <1>6, TrimHolds DEF State
<1>8. ParseArgs(s) = Append(<< >>, <<n>>)
  BY <1>5, <1>7
<1>9. QED
  BY <1>8 DEF s

(***************************************************************************)
(* parse_args finds both numerals of a text, quoted or not and with any    *)
(* spaces around them.                                                     *)
(***************************************************************************)
LEMMA ParsedTwo ==
  ASSUME NEW layout \in Layouts, NEW m \in DOMAIN NumberOf, NEW n \in DOMAIN NumberOf
  PROVE  ParseArgs(Argument(layout, m) \o <<",">> \o Argument(layout, n))
           = <<<<m>>, <<n>>>>
<1>1. At(ParseState, << >>, "none", << >>)
  <2>1. Holds(<< >>, << >>) /\ ParseState = State(<< >>, << >>, "none")
    BY DEF Holds, ParseState, State
  <2>2. QED
    BY <2>1 DEF At
<1> DEFINE s == Argument(layout, m)
           t == Argument(layout, n)
           w == (s \o <<",">>) \o t
           end == FoldLeft(ParseToken, ParseState, w)
<1>2. s \in Seq(Tokens) /\ \E to : Reads(ParseState, s, to) /\ At(to, << >>, "none", <<m>>)
  BY <1>1, ArgumentReads
<1>3. PICK a : Reads(ParseState, s, a) /\ At(a, << >>, "none", <<m>>)
  BY <1>2
<1> DEFINE b == ParseToken(a, ",")
<1>4. At(b, Append(<< >>, <<m>>), "none", << >>)
  BY <1>3, CommaRead
<1>5. "," \in Tokens
  BY DEF Tokens, Marks
<1>6. Reads(a, <<",">>, b)
  BY <1>5, ReadsToken
<1> HIDE DEF b
<1>7. t \in Seq(Tokens)
      /\ \E to : Reads(b, t, to) /\ At(to, Append(<< >>, <<m>>), "none", <<n>>)
  BY <1>4, ArgumentReads
<1>8. PICK c : Reads(b, t, c) /\ At(c, Append(<< >>, <<m>>), "none", <<n>>)
  BY <1>7
<1> HIDE DEF s, t
<1>9. <<",">> \in Seq(Tokens)
  <2>1. ASSUME NEW token \in Tokens PROVE <<token>> \in Seq(Tokens)
    OBVIOUS
  <2>2. QED
    BY <1>5, <2>1
<1>10. s \o <<",">> \in Seq(Tokens) /\ w \in Seq(Tokens)
  BY <1>2, <1>7, <1>9, ConcatProperties
<1>11. Reads(ParseState, s \o <<",">>, b)
  BY <1>2, <1>3, <1>6, <1>9, ReadsAfter
<1>12. Reads(ParseState, w, c)
  BY <1>7, <1>8, <1>10, <1>11, ReadsAfter
<1>13. ParseArgs(w) = IF Trim(end.current) = << >> THEN end.args
                      ELSE Append(end.args, Trim(end.current))
  BY DEF ParseArgs
<1> HIDE DEF w
<1>14. Reads(ParseState, w, end)
  BY <1>10, FoldReads
<1> HIDE DEF end
<1>15. end = c
  BY <1>10, <1>12, <1>14, ReadsOnce
<1>16. PICK u : end = State(Append(<< >>, <<m>>), u, "none") /\ Holds(u, <<n>>)
  BY <1>8, <1>15 DEF At
<1>17. Trim(end.current) = <<n>> /\ end.args = Append(<< >>, <<m>>)
  BY <1>16, TrimHolds DEF State
<1>18. ParseArgs(w) = Append(Append(<< >>, <<m>>), <<n>>)
  BY <1>13, <1>17
<1>19. Append(Append(<< >>, <<m>>), <<n>>) = <<<<m>>, <<n>>>>
  <2>1. Append(<< >>, <<m>>) = <<<<m>>>>
    OBVIOUS
  <2>2. QED
    BY <2>1, AppendOne
<1>20. QED
  BY <1>18, <1>19 DEF s, t, w

-----------------------------------------------------------------------------
(* Sequences of one and two arguments.                                     *)

(***************************************************************************)
(* Joining one text.                                                       *)
(***************************************************************************)
LEMMA JoinedOne ==
  ASSUME NEW s, NEW separator
  PROVE  Joined(<<s>>, separator) = s
<1> DEFINE Body(f, u) == IF u = {} THEN s
                         ELSE f[u \ {Max(u)}] \o separator \o Tail(<<s>>)[Max(u)]
           fold == CHOOSE f : f = [u \in SUBSET DOMAIN Tail(<<s>>) |-> Body(f, u)]
<1>1. <<s>> # << >> /\ Head(<<s>>) = s /\ Tail(<<s>>) = << >> /\ DOMAIN << >> = {}
  OBVIOUS
<1>2. Joined(<<s>>, separator) = fold[DOMAIN Tail(<<s>>)]
  BY <1>1 DEF Joined, FoldLeft, MapThenFoldSet
<1>3. \E f : f = [u \in SUBSET DOMAIN Tail(<<s>>) |-> Body(f, u)]
  <2> DEFINE f == [u \in SUBSET DOMAIN Tail(<<s>>) |-> s]
  <2>1. DOMAIN Tail(<<s>>) = {}
    BY <1>1
  <2>2. \A u \in SUBSET DOMAIN Tail(<<s>>) : u = {}
    BY <2>1
  <2>3. f = [u \in SUBSET DOMAIN Tail(<<s>>) |-> Body(f, u)]
    BY <2>2
  <2> HIDE DEF Body
  <2>4. QED
    BY <2>3
<1>4. fold = [u \in SUBSET DOMAIN Tail(<<s>>) |-> Body(fold, u)]
  <2> HIDE DEF Body
  <2>1. QED
    BY <1>3
<1> HIDE DEF fold
<1>5. fold[{}] = s
  BY <1>1, <1>4
<1>6. QED
  BY <1>1, <1>2, <1>5

(***************************************************************************)
(* Joining two texts.                                                      *)
(***************************************************************************)
LEMMA JoinedTwo ==
  ASSUME NEW s, NEW t, NEW separator
  PROVE  Joined(<<s, t>>, separator) = s \o separator \o t
<1> DEFINE rest == <<t>>
           Body(f, u) == IF u = {} THEN s
                         ELSE f[u \ {Max(u)}] \o separator \o rest[Max(u)]
           fold == CHOOSE f : f = [u \in SUBSET DOMAIN rest |-> Body(f, u)]
<1>1. <<s, t>> # << >> /\ Head(<<s, t>>) = s /\ Tail(<<s, t>>) = rest
  OBVIOUS
<1>2. Joined(<<s, t>>, separator) = fold[DOMAIN rest]
  <2> HIDE DEF rest
  <2>1. Joined(<<s, t>>, separator)
          = FoldLeft(LAMBDA x, arg : x \o separator \o arg, s, rest)
    BY <1>1 DEF Joined
  <2>2. QED
    BY <2>1 DEF FoldLeft, MapThenFoldSet
<1>3. DOMAIN rest = {1} /\ rest[1] = t
  OBVIOUS
<1> HIDE DEF rest
<1>4. \A u \in SUBSET DOMAIN rest : u = {} \/ u = {1}
  BY <1>3
<1>5. Max({1}) = 1 /\ {1} \ {1} = {} /\ {1} # {}
  BY DEF Max
<1>6. \E f : f = [u \in SUBSET DOMAIN rest |-> Body(f, u)]
  <2> DEFINE f == [u \in SUBSET DOMAIN rest |->
                     IF u = {} THEN s ELSE s \o separator \o t]
  <2>1. f[{}] = s
    OBVIOUS
  <2>2. ASSUME NEW u \in SUBSET DOMAIN rest PROVE f[u] = Body(f, u)
    <3>1. CASE u = {}
      BY <2>1, <3>1
    <3>2. CASE u = {1}
      BY <1>3, <1>5, <2>1, <3>2
    <3>3. QED
      BY <1>4, <3>1, <3>2
  <2>3. f = [u \in SUBSET DOMAIN rest |-> f[u]]
    OBVIOUS
  <2> HIDE DEF Body, f
  <2>4. f = [u \in SUBSET DOMAIN rest |-> Body(f, u)]
    BY <2>2, <2>3
  <2>5. QED
    BY <2>4
<1>7. fold = [u \in SUBSET DOMAIN rest |-> Body(fold, u)]
  <2> HIDE DEF Body
  <2>1. QED
    BY <1>6
<1> HIDE DEF fold
<1>8. fold[{}] = s
  BY <1>7
<1>9. fold[{1}] = s \o separator \o t
  BY <1>3, <1>5, <1>7, <1>8
<1>10. QED
  BY <1>2, <1>3, <1>9

(***************************************************************************)
(* The number of one numeral.                                              *)
(***************************************************************************)
LEMMA NumbersOne ==
  ASSUME NEW n \in DOMAIN NumberOf
  PROVE  Numbers(<<<<n>>>>) = <<NumberOf[n]>>
<1> DEFINE args == <<<<n>>>>
           Next1(p, arg) == IF IsNumeral(arg) THEN Append(p, NumberOf[arg[1]]) ELSE p
           Body(f, u) == IF u = {} THEN << >>
                         ELSE Next1(f[u \ {Max(u)}], args[Max(u)])
           fold == CHOOSE f : f = [u \in SUBSET DOMAIN args |-> Body(f, u)]
<1>1. Numbers(args) = fold[DOMAIN args]
  BY DEF Numbers, FoldLeft, MapThenFoldSet
<1>2. DOMAIN args = {1} /\ args[1] = <<n>>
  OBVIOUS
<1> HIDE DEF args
<1>3. \A u \in SUBSET DOMAIN args : u = {} \/ u = {1}
  BY <1>2
<1>4. Max({1}) = 1 /\ {1} \ {1} = {} /\ {1} # {}
  BY DEF Max
<1>5. Next1(<< >>, <<n>>) = <<NumberOf[n]>>
  BY DEF IsNumeral
<1> HIDE DEF Next1
<1>6. \E f : f = [u \in SUBSET DOMAIN args |-> Body(f, u)]
  <2> DEFINE f == [u \in SUBSET DOMAIN args |->
                     IF u = {} THEN << >> ELSE Next1(<< >>, <<n>>)]
  <2>1. f[{}] = << >>
    OBVIOUS
  <2>2. ASSUME NEW u \in SUBSET DOMAIN args PROVE f[u] = Body(f, u)
    <3>1. CASE u = {}
      BY <2>1, <3>1
    <3>2. CASE u = {1}
      BY <1>2, <1>4, <2>1, <3>2
    <3>3. QED
      BY <1>3, <3>1, <3>2
  <2>3. f = [u \in SUBSET DOMAIN args |-> f[u]]
    OBVIOUS
  <2> HIDE DEF Body, f
  <2>4. f = [u \in SUBSET DOMAIN args |-> Body(f, u)]
    BY <2>2, <2>3
  <2>5. QED
    BY <2>4
<1>7. fold = [u \in SUBSET DOMAIN args |-> Body(fold, u)]
  <2> HIDE DEF Body
  <2>1. QED
    BY <1>6
<1> HIDE DEF fold
<1>8. fold[{}] = << >>
  BY <1>7
<1>9. fold[{1}] = Next1(<< >>, <<n>>)
  BY <1>2, <1>4, <1>7, <1>8
<1>10. QED
  BY <1>1, <1>2, <1>5, <1>9 DEF args

(***************************************************************************)
(* The numbers of two numerals, in order.                                  *)
(***************************************************************************)
LEMMA NumbersTwo ==
  ASSUME NEW m \in DOMAIN NumberOf, NEW n \in DOMAIN NumberOf
  PROVE  Numbers(<<<<m>>, <<n>>>>) = <<NumberOf[m], NumberOf[n]>>
<1> DEFINE args == <<<<m>>, <<n>>>>
           Next1(p, arg) == IF IsNumeral(arg) THEN Append(p, NumberOf[arg[1]]) ELSE p
           Body(f, u) == IF u = {} THEN << >>
                         ELSE Next1(f[u \ {Max(u)}], args[Max(u)])
           fold == CHOOSE f : f = [u \in SUBSET DOMAIN args |-> Body(f, u)]
<1>1. Numbers(args) = fold[DOMAIN args]
  BY DEF Numbers, FoldLeft, MapThenFoldSet
<1>2. DOMAIN args = {1, 2} /\ args[1] = <<m>> /\ args[2] = <<n>>
  OBVIOUS
<1> HIDE DEF args
<1>3. \A u \in SUBSET DOMAIN args : u = {} \/ u = {1} \/ u = {2} \/ u = {1, 2}
  BY <1>2
<1>4. /\ Max({1}) = 1 /\ {1} \ {1} = {} /\ {1} # {}
      /\ Max({2}) = 2 /\ {2} \ {2} = {} /\ {2} # {}
      /\ Max({1, 2}) = 2 /\ {1, 2} \ {2} = {1} /\ {1, 2} # {}
      /\ {1} # {2} /\ {1} # {1, 2} /\ {2} # {1, 2}
  <2>1. Max({1}) = 1
    BY DEF Max
  <2>2. Max({2}) = 2
    BY DEF Max
  <2>3. Max({1, 2}) = 2
    BY DEF Max
  <2>4. QED
    BY <2>1, <2>2, <2>3
<1> DEFINE first == Next1(<< >>, <<m>>)
           second == Next1(<< >>, <<n>>)
           both == Next1(first, <<n>>)
<1>5. both = <<NumberOf[m], NumberOf[n]>>
  <2>1. first = <<NumberOf[m]>>
    BY DEF IsNumeral
  <2>2. both = Append(<<NumberOf[m]>>, NumberOf[n])
    BY <2>1 DEF IsNumeral
  <2>3. QED
    BY <2>2, AppendOne
<1> HIDE DEF Next1
<1>6. \E f : f = [u \in SUBSET DOMAIN args |-> Body(f, u)]
  <2> DEFINE f == [u \in SUBSET DOMAIN args |->
                     IF u = {} THEN << >>
                     ELSE IF u = {1} THEN first
                     ELSE IF u = {2} THEN second ELSE both]
  <2>1. f[{}] = << >> /\ f[{1}] = first
    BY <1>2
  <2> HIDE DEF first, second, both
  <2>2. ASSUME NEW u \in SUBSET DOMAIN args PROVE f[u] = Body(f, u)
    <3>1. CASE u = {}
      BY <2>1, <3>1
    <3>2. CASE u = {1}
      BY <1>2, <1>4, <2>1, <3>2 DEF first
    <3>3. CASE u = {2}
      BY <1>2, <1>4, <2>1, <3>3 DEF second
    <3>4. CASE u = {1, 2}
      BY <1>2, <1>4, <2>1, <3>4 DEF both
    <3>5. QED
      BY <1>3, <3>1, <3>2, <3>3, <3>4
  <2>3. f = [u \in SUBSET DOMAIN args |-> f[u]]
    OBVIOUS
  <2> HIDE DEF Body, f
  <2>4. f = [u \in SUBSET DOMAIN args |-> Body(f, u)]
    BY <2>2, <2>3
  <2>5. QED
    BY <2>4
<1>7. fold = [u \in SUBSET DOMAIN args |-> Body(fold, u)]
  <2> HIDE DEF Body
  <2>1. QED
    BY <1>6
<1> HIDE DEF fold
<1>8. fold[{}] = << >>
  BY <1>7
<1>9. fold[{1}] = first
  <2>1. {1} \in SUBSET DOMAIN args
    BY <1>2
  <2>2. fold[{1}] = Body(fold, {1})
    <3> HIDE DEF Body
    <3>1. QED
      BY <2>1, <1>7
  <2>3. QED
    BY <2>2, <1>2, <1>4, <1>8
<1>10. fold[{1, 2}] = both
  <2>1. {1, 2} \in SUBSET DOMAIN args
    BY <1>2
  <2>2. fold[{1, 2}] = Body(fold, {1, 2})
    <3> HIDE DEF Body
    <3>1. QED
      BY <2>1, <1>7
  <2>3. fold[{1, 2}] = Next1(first, <<n>>)
    <3> HIDE DEF first
    <3>1. QED
      BY <2>2, <1>2, <1>4, <1>9
  <2>4. QED
    BY <2>3
<1>11. QED
  BY <1>1, <1>2, <1>5, <1>10 DEF args

-----------------------------------------------------------------------------
(* A written call is taken for a call.                                     *)

\* A text that neither begins nor ends with a space.
Solid(s) == /\ s \in Seq(Tokens) /\ Len(s) # 0
            /\ s[1] # " " /\ s[Len(s)] # " "

(***************************************************************************)
(* Trimming takes nothing from a text without spaces at its ends.          *)
(***************************************************************************)
LEMMA TrimSolid ==
  ASSUME NEW s, Solid(s)
  PROVE  Trim(s) = s
<1> DEFINE solid == {i \in DOMAIN s : s[i] # " "}
<1>1. s \in Seq(Tokens) /\ Len(s) \in Nat \ {0} /\ DOMAIN s = 1 .. Len(s)
  BY LenProperties DEF Solid
<1>2. 1 \in solid /\ Len(s) \in solid
  <2>1. s[1] # " " /\ s[Len(s)] # " "
    BY DEF Solid
  <2>2. 1 \in DOMAIN s /\ Len(s) \in DOMAIN s
    BY <1>1
  <2>3. QED
    BY <2>1, <2>2
<1>3. \A i \in solid : i \in 1 .. Len(s)
  BY <1>1
<1> HIDE DEF solid
<1>4. Min(solid) = 1
  <2>1. \A i \in solid : 1 <= i
    BY <1>1, <1>3
  <2>2. \A m \in solid : (\A i \in solid : m <= i) => m = 1
    BY <1>1, <1>2, <1>3
  <2>3. QED
    BY <1>2, <2>1, <2>2 DEF Min
<1>5. Max(solid) = Len(s)
  <2>1. \A i \in solid : i <= Len(s)
    BY <1>1, <1>3
  <2>2. \A m \in solid : (\A i \in solid : m >= i) => m = Len(s)
    BY <1>1, <1>2, <1>3
  <2>3. \A i \in solid : Len(s) >= i
    BY <1>1, <1>3
  <2>4. QED
    BY <1>2, <2>2, <2>3 DEF Max
<1>6. Trim(s) = SubSeq(s, 1, Len(s))
  BY <1>2, <1>4, <1>5 DEF Trim, solid
<1>7. QED
  BY <1>1, <1>6, SubSeqFull

(***************************************************************************)
(* The name of a function is neither a character nor a quote.              *)
(***************************************************************************)
LEMMA FunctionNames ==
  ASSUME NEW f \in DOMAIN Arity \cup {"f"}
  PROVE  f \notin Marks /\ f # "backtick" /\ f \in Tokens
<1>1. f \in {"add", "multiply", "string_length", "fibonacci", "is_prime",
             "string_compare", "string_concat", "get_timestamp", "random_int",
             "check_memory_bounds", "get_max_string_length", "get_chunk_size", "f"}
  BY DEF Arity
<1>2. f \in Tokens
  BY DEF Tokens
<1>3. QED
  BY <1>1, <1>2 DEF Marks

(***************************************************************************)
(* A written call, position by position.                                   *)
(***************************************************************************)
LEMMA WrittenShape ==
  ASSUME NEW f \in DOMAIN Arity \cup {"f"}, NEW J \in Seq(Tokens)
  PROVE  LET w == <<f, "(">> \o J \o <<")">>
         IN  /\ w \in Seq(Tokens) /\ Len(w) = Len(J) + 3
             /\ w[1] = f /\ w[2] = "(" /\ w[Len(J) + 3] = ")"
             /\ \A i \in 1 .. Len(J) : w[i + 2] = J[i]
<1> DEFINE a == <<f, "(">>
           v == a \o J
           z == <<")">>
           w == v \o z
<1>1. a \in Seq(Tokens) /\ Len(a) = 2 /\ a[1] = f /\ a[2] = "("
  <2>1. f \in Tokens /\ "(" \in Tokens
    BY FunctionNames DEF Tokens, Marks
  <2>2. QED
    BY <2>1
<1>2. z \in Seq(Tokens) /\ Len(z) = 1 /\ z[1] = ")"
  <2>1. ")" \in Tokens
    BY DEF Tokens, Marks
  <2>2. QED
    BY <2>1
<1>3. Len(J) \in Nat
  OBVIOUS
<1> HIDE DEF a, z
<1>4. /\ v \in Seq(Tokens) /\ Len(v) = Len(J) + 2
      /\ v[1] = f /\ v[2] = "(" /\ \A i \in 1 .. Len(J) : v[i + 2] = J[i]
  <2>1. v \in Seq(Tokens) /\ Len(v) = Len(a) + Len(J)
        /\ \A i \in 1 .. Len(v) : v[i] = IF i <= Len(a) THEN a[i] ELSE J[i - Len(a)]
    <3>1. a \in Seq(Tokens) /\ J \in Seq(Tokens)
      BY <1>1
    <3>2. QED
      BY <3>1, ConcatProperties
  <2>2. ASSUME NEW i \in 1 .. Len(J) PROVE v[i + 2] = J[i]
    <3>1. i + 2 \in 1 .. Len(v) /\ ~(i + 2 <= 2) /\ i + 2 - 2 = i
      BY <1>1, <1>3, <2>1
    <3> HIDE DEF v
    <3>2. QED
      BY <1>1, <2>1, <3>1
  <2>3. 1 \in 1 .. Len(v) /\ 2 \in 1 .. Len(v)
    BY <1>1, <1>3, <2>1
  <2> HIDE DEF v
  <2>4. v[1] = f /\ v[2] = "("
    BY <1>1, <2>1, <2>3
  <2>5. Len(v) = Len(J) + 2
    BY <1>1, <1>3, <2>1
  <2>6. QED
    BY <2>1, <2>2, <2>4, <2>5
<1> HIDE DEF v
<1>5. w \in Seq(Tokens) /\ Len(w) = Len(v) + Len(z)
      /\ \A i \in 1 .. Len(w) : w[i] = IF i <= Len(v) THEN v[i] ELSE z[i - Len(v)]
  <2>1. v \in Seq(Tokens) /\ z \in Seq(Tokens)
    BY <1>2, <1>4
  <2>2. QED
    BY <2>1, ConcatProperties
<1> HIDE DEF w
<1>6. Len(w) = Len(J) + 3
  BY <1>2, <1>3, <1>4, <1>5
<1>7. \A i \in 1 .. Len(v) : w[i] = v[i]
  BY <1>2, <1>3, <1>4, <1>5
<1>8. w[Len(J) + 3] = z[1]
  <2>1. Len(J) + 3 \in 1 .. Len(w) /\ ~(Len(J) + 3 <= Len(v)) /\ Len(J) + 3 - Len(v) = 1
    BY <1>3, <1>4, <1>6
  <2>2. QED
    BY <1>5, <2>1
<1>9. w[1] = f /\ w[2] = "("
  <2>1. 1 \in 1 .. Len(v) /\ 2 \in 1 .. Len(v)
    BY <1>3, <1>4
  <2>2. QED
    BY <1>4, <1>7, <2>1
<1>10. ASSUME NEW i \in 1 .. Len(J) PROVE w[i + 2] = J[i]
  <2>1. i + 2 \in 1 .. Len(v)
    BY <1>3, <1>4
  <2>2. QED
    BY <1>4, <1>7, <2>1
<1>11. QED
  BY <1>2, <1>5, <1>6, <1>8, <1>9, <1>10 DEF w, v, a, z

(***************************************************************************)
(* A written call is taken for a call, of the function named before the    *)
(* first bracket and with the text between the first and the last.         *)
(***************************************************************************)
LEMMA CallFound ==
  ASSUME NEW f \in DOMAIN Arity \cup {"f"}, NEW J \in Seq(Tokens)
  PROVE  LET w == <<f, "(">> \o J \o <<")">>
         IN  IsCall(w) /\ CallName(w) = <<f>> /\ CallArgs(w) = ParseArgs(J)
<1> DEFINE k == Len(J)
           w == <<f, "(">> \o J \o <<")">>
<1>1. J \in Seq(Tokens)
  OBVIOUS
<1>2. /\ w \in Seq(Tokens) /\ Len(w) = k + 3
      /\ w[1] = f /\ w[2] = "(" /\ w[k + 3] = ")"
      /\ \A i \in 1 .. k : w[i + 2] = J[i]
  BY WrittenShape
<1> HIDE DEF w
<1>3. k \in Nat /\ DOMAIN w = 1 .. k + 3 /\ w # << >> /\ Len(w) # 0
  BY <1>1, <1>2, LenProperties, EmptySeq
<1> HIDE DEF k
<1>4. f \notin Marks /\ f # "backtick" /\ f # "(" /\ f # " "
  BY FunctionNames DEF Marks
<1>5. Trim(w) = w
  <2>1. Solid(w)
    BY <1>2, <1>3, <1>4 DEF Solid
  <2>2. QED
    BY <2>1, TrimSolid
<1>6. IsCall(w)
  <2>1. Last(w) = ")"
    BY <1>2 DEF Last
  <2>2. 2 \in DOMAIN w /\ w[2] = "("
    BY <1>2, <1>3
  <2>3. QED
    BY <1>3, <1>5, <2>1, <2>2 DEF IsCall
<1>7. FirstParen(w) = 2
  <2> DEFINE parens == {i \in DOMAIN w : w[i] = "("}
  <2>1. 2 \in parens
    BY <1>2, <1>3
  <2>2. \A i \in parens : i \in Nat /\ 2 <= i
    <3>1. \A i \in parens : i \in 1 .. k + 3 /\ i # 1
      BY <1>2, <1>3, <1>4
    <3> HIDE DEF parens
    <3>2. QED
      BY <1>3, <3>1
  <2> HIDE DEF parens
  <2>3. \A m \in parens : (\A i \in parens : m <= i) => m = 2
    BY <2>1, <2>2
  <2>4. Min(parens) = 2
    BY <2>1, <2>2, <2>3 DEF Min
  <2>5. QED
    BY <2>4 DEF FirstParen, parens
<1>8. CallName(w) = <<f>>
  <2>1. CallName(w) = Trim(SubSeq(w, 1, 2 - 1))
    BY <1>5, <1>7 DEF CallName
  <2>2. SubSeq(w, 1, 1) = <<f>>
    <3>1. 1 \in 1 .. Len(w)
      BY <1>2, <1>3
    <3>2. QED
      BY <1>2, <3>1, OneToken
  <2>3. f \in Tokens
    BY FunctionNames
  <2>4. Solid(<<f>>)
    <3>1. <<f>> \in Seq(Tokens)
      BY <2>3
    <3>2. Len(<<f>>) = 1 /\ <<f>>[1] = f
      OBVIOUS
    <3>3. QED
      <4> DEFINE word == <<f>>
      <4>1. word \in Seq(Tokens) /\ Len(word) = 1 /\ word[1] = f
        BY <3>1, <3>2
      <4> HIDE DEF word
      <4>2. word[1] # " " /\ word[Len(word)] # " "
        BY <1>4, <4>1
      <4>3. Len(word) # 0
        BY <4>1
      <4>4. Solid(word)
        BY <4>1, <4>2, <4>3 DEF Solid
      <4>5. QED
        BY <4>4 DEF word
  <2>5. Trim(<<f>>) = <<f>>
    BY <2>4, TrimSolid
  <2>6. 2 - 1 = 1
    OBVIOUS
  <2>7. QED
    BY <2>1, <2>2, <2>5, <2>6
<1>9. SubSeq(w, 3, k + 2) = J
  <2> DEFINE u == SubSeq(w, 3, k + 2)
  <2>1. 3 \in 1 .. Len(w) + 1 /\ k + 2 \in 3 - 1 .. Len(w)
    BY <1>2, <1>3
  <2>2. u \in Seq(Tokens) /\ Len(u) = k
        /\ \A i \in 1 .. k : u[i] = w[3 + i - 1]
    <3>1. \A i \in 3 .. k + 2 : w[i] \in Tokens
      BY <1>2, <1>3, ElementOfSeq
    <3>2. 3 \in Int /\ k + 2 \in Int
      BY <1>3
    <3> DEFINE top == k + 2
    <3> HIDE DEF top
    <3>3. top \in Int /\ \A i \in 3 .. top : w[i] \in Tokens
      BY <3>1, <3>2 DEF top
    <3>4. /\ SubSeq(w, 3, top) \in Seq(Tokens)
          /\ Len(SubSeq(w, 3, top)) = IF 3 <= top THEN top - 3 + 1 ELSE 0
          /\ \A i \in 1 .. top - 3 + 1 : SubSeq(w, 3, top)[i] = w[3 + i - 1]
      BY <3>2, <3>3, SubSeqProperties
    <3>5. u = SubSeq(w, 3, top)
      BY DEF top
    <3> HIDE DEF u
    <3>6. top - 3 + 1 = k /\ (3 > top => k = 0)
      BY <1>3 DEF top
    <3>7. Len(u) = k
      BY <3>3, <3>4, <3>5, <3>6
    <3>8. QED
      BY <3>4, <3>5, <3>6, <3>7
  <2> HIDE DEF u
  <2>3. ASSUME NEW i \in 1 .. Len(u) PROVE u[i] = J[i]
    <3>1. i \in 1 .. k /\ 3 + i - 1 = i + 2
      BY <1>3, <2>2
    <3>2. QED
      BY <1>2, <2>2, <3>1
  <2>4. Len(J) = k
    BY DEF k
  <2>5. u = J
    BY <1>1, <2>2, <2>3, <2>4, SeqEqual
  <2>6. QED
    BY <2>5 DEF u
<1>10. CallArgs(w) = ParseArgs(J)
  <2>1. CallArgs(w) = ParseArgs(SubSeq(w, 2 + 1, Len(w) - 1))
    BY <1>5, <1>7 DEF CallArgs
  <2>2. 2 + 1 = 3 /\ Len(w) - 1 = k + 2
    BY <1>2, <1>3
  <2>3. QED
    BY <1>9, <2>1, <2>2
<1>11. QED
  BY <1>6, <1>8, <1>10 DEF w

(***************************************************************************)
(* What stands in for an interpreter evaluates a written call.             *)
(***************************************************************************)
LEMMA SimulatedCall ==
  ASSUME NEW f \in DOMAIN Arity, NEW J \in Seq(Tokens), NEW language
  PROVE  Simulate(language, <<f, "(">> \o J \o <<")">>) = Evaluate(<<f>>, ParseArgs(J))
<1> DEFINE w == <<f, "(">> \o J \o <<")">>
<1>1. w \in Seq(Tokens) /\ Len(w) = Len(J) + 3 /\ w[1] = f
  BY WrittenShape
<1>2. IsCall(w) /\ CallName(w) = <<f>> /\ CallArgs(w) = ParseArgs(J)
  BY CallFound
<1> HIDE DEF w
<1>3. ~IsQuoted(language, w)
  <2>1. Head(w) = f
    <3>1. Len(w) # 0 /\ w # << >>
      BY <1>1, LenProperties, EmptySeq
    <3>2. QED
      BY <1>1, <3>1
  <2>2. f \notin Marks /\ f # "backtick"
    BY FunctionNames
  <2>3. QED
    BY <2>1, <2>2 DEF IsQuoted, QuotesOf, Marks
<1>4. Simulate(language, w) = Evaluate(CallName(w), CallArgs(w))
  BY <1>2, <1>3 DEF Simulate
<1>5. QED
  BY <1>2, <1>4 DEF w

(***************************************************************************)
(* A numeral stands for its number.                                        *)
(***************************************************************************)
LEMMA NumeralFound ==
  ASSUME NEW n, \E numeral \in DOMAIN NumberOf : NumberOf[numeral] = n
  PROVE  Numeral(n) \in DOMAIN NumberOf /\ NumberOf[Numeral(n)] = n
BY DEF Numeral

(***************************************************************************)
(* An argument as it is written is a text.                                 *)
(***************************************************************************)
LEMMA ArgumentText ==
  ASSUME NEW layout \in Layouts, NEW n \in DOMAIN NumberOf
  PROVE  Argument(layout, n) \in Seq(Tokens)
<1>1. Holds(<< >>, << >>) /\ ParseState = State(<< >>, << >>, "none")
  BY DEF Holds, ParseState, State
<1>2. At(ParseState, << >>, "none", << >>)
  BY <1>1 DEF At
<1>3. QED
  BY <1>2, ArgumentReads

(***************************************************************************)
(* A function on the first k numbers is a sequence of length k.            *)
(***************************************************************************)
LEMMA FunctionIsSeq ==
  ASSUME NEW S, NEW k \in Nat, NEW s \in [1 .. k -> S]
  PROVE  s \in Seq(S) /\ Len(s) = k
OBVIOUS

(***************************************************************************)
(* A sequence of length one, spelt out.                                    *)
(***************************************************************************)
LEMMA OfLengthOne ==
  ASSUME NEW S, NEW s \in Seq(S), Len(s) = 1
  PROVE  s = <<s[1]>>
<1>1. s[1] \in S
  BY ElementOfSeq
<1>2. <<s[1]>> \in Seq(S) /\ Len(<<s[1]>>) = 1 /\ <<s[1]>>[1] = s[1]
  BY <1>1
<1> DEFINE t == <<s[1]>>
<1> HIDE DEF t
<1>3. t \in Seq(S) /\ Len(t) = 1 /\ t[1] = s[1]
  BY <1>2 DEF t
<1>4. \A i \in 1 .. 1 : i = 1
  OBVIOUS
<1>5. s = t
  BY <1>3, <1>4, SeqEqual
<1>6. QED
  BY <1>5 DEF t

(***************************************************************************)
(* A sequence of length two, spelt out.                                    *)
(***************************************************************************)
LEMMA OfLengthTwo ==
  ASSUME NEW S, NEW s \in Seq(S), Len(s) = 2
  PROVE  s = <<s[1], s[2]>>
<1>1. s[1] \in S /\ s[2] \in S
  BY ElementOfSeq
<1>2. /\ <<s[1], s[2]>> \in Seq(S) /\ Len(<<s[1], s[2]>>) = 2
      /\ <<s[1], s[2]>>[1] = s[1] /\ <<s[1], s[2]>>[2] = s[2]
  BY <1>1
<1> DEFINE t == <<s[1], s[2]>>
<1> HIDE DEF t
<1>3. t \in Seq(S) /\ Len(t) = 2 /\ t[1] = s[1] /\ t[2] = s[2]
  BY <1>2 DEF t
<1>4. \A i \in 1 .. 2 : i = 1 \/ i = 2
  OBVIOUS
<1>5. s = t
  BY <1>3, <1>4, SeqEqual
<1>6. QED
  BY <1>5 DEF t

\* The arguments of a call as the program has written them.
WrittenArguments(layout, p) ==
  [i \in DOMAIN p |-> layout[1] \o <<Numeral(p[i])>> \o layout[2]]

(***************************************************************************)
(* A written call with one argument is evaluated for its number.           *)
(***************************************************************************)
LEMMA CallOfOne ==
  ASSUME NEW f \in DOMAIN Arity, NEW language, NEW layout \in Layouts,
         NEW p \in Seq(I32), Len(p) = 1,
         \A i \in DOMAIN p : \E numeral \in DOMAIN NumberOf : NumberOf[numeral] = p[i]
  PROVE  \E args : /\ Numbers(args) = <<p[1]>>
                   /\ Simulate(language, Written(f, WrittenArguments(layout, p)))
                        = Evaluate(<<f>>, args)
<1> DEFINE n == Numeral(p[1])
           a == Argument(layout, n)
           all == WrittenArguments(layout, p)
<1>1. DOMAIN p = 1 .. 1 /\ 1 \in DOMAIN p
  BY LenProperties
<1>2. n \in DOMAIN NumberOf /\ NumberOf[n] = p[1]
  BY <1>1, NumeralFound
<1> HIDE DEF n
<1>3. a \in Seq(Tokens)
  BY <1>2, ArgumentText
<1>4. all = <<a>>
  <2>1. all = [i \in 1 .. 1 |-> Argument(layout, Numeral(p[i]))]
    BY <1>1 DEF WrittenArguments, Argument
  <2> HIDE DEF all, a
  <2>2. all[1] = a
    BY <2>1 DEF a, n
  <2>3. \A i \in 1 .. 1 : all[i] \in Seq(Tokens)
    <3>1. \A i \in 1 .. 1 : i = 1
      OBVIOUS
    <3>2. QED
      BY <1>3, <2>2, <3>1
  <2>4. all \in Seq(Seq(Tokens)) /\ Len(all) = 1
    <3>1. all \in [1 .. 1 -> Seq(Tokens)]
      BY <2>1, <2>3
    <3>2. QED
      BY <3>1, FunctionIsSeq
  <2>5. QED
    BY <2>2, <2>4, OfLengthOne
<1> HIDE DEF all, a
<1>5. Written(f, all) = <<f, "(">> \o a \o <<")">>
  BY <1>4, JoinedOne DEF Written
<1>6. Simulate(language, Written(f, all)) = Evaluate(<<f>>, ParseArgs(a))
  BY <1>3, <1>5, SimulatedCall
<1>7. ParseArgs(a) = <<<<n>>>>
  BY <1>2, ParsedOne DEF a
<1>8. Numbers(<<<<n>>>>) = <<p[1]>>
  BY <1>2, NumbersOne
<1>9. QED
  BY <1>6, <1>7, <1>8 DEF all

(***************************************************************************)
(* A written call with two arguments is evaluated for its numbers, in      *)
(* order.                                                                  *)
(***************************************************************************)
LEMMA CallOfTwo ==
  ASSUME NEW f \in DOMAIN Arity, NEW language, NEW layout \in Layouts,
         NEW p \in Seq(I32), Len(p) = 2,
         \A i \in DOMAIN p : \E numeral \in DOMAIN NumberOf : NumberOf[numeral] = p[i]
  PROVE  \E args : /\ Numbers(args) = <<p[1], p[2]>>
                   /\ Simulate(language, Written(f, WrittenArguments(layout, p)))
                        = Evaluate(<<f>>, args)
<1> DEFINE m == Numeral(p[1])
           n == Numeral(p[2])
           a == Argument(layout, m)
           b == Argument(layout, n)
           all == WrittenArguments(layout, p)
<1>1. DOMAIN p = 1 .. 2 /\ 1 \in DOMAIN p /\ 2 \in DOMAIN p
  BY LenProperties
<1>2. /\ m \in DOMAIN NumberOf /\ NumberOf[m] = p[1]
      /\ n \in DOMAIN NumberOf /\ NumberOf[n] = p[2]
  BY <1>1, NumeralFound
<1> HIDE DEF m, n
<1>3. a \in Seq(Tokens) /\ b \in Seq(Tokens)
  BY <1>2, ArgumentText
<1>4. all = <<a, b>>
  <2>1. all = [i \in 1 .. 2 |-> Argument(layout, Numeral(p[i]))]
    BY <1>1 DEF WrittenArguments, Argument
  <2> HIDE DEF all, a, b
  <2>2. all[1] = a /\ all[2] = b
    BY <2>1 DEF a, m, b, n
  <2>3. \A i \in 1 .. 2 : all[i] \in Seq(Tokens)
    <3>1. \A i \in 1 .. 2 : i = 1 \/ i = 2
      OBVIOUS
    <3>2. QED
      BY <1>3, <2>2, <3>1
  <2>4. all \in Seq(Seq(Tokens)) /\ Len(all) = 2
    <3>1. all \in [1 .. 2 -> Seq(Tokens)]
      BY <2>1, <2>3
    <3>2. QED
      BY <3>1, FunctionIsSeq
  <2>5. QED
    BY <2>2, <2>4, OfLengthTwo
<1> HIDE DEF all, a, b
<1> DEFINE text == a \o <<",">> \o b
<1>5. text \in Seq(Tokens)
  <2>1. "," \in Tokens
    BY DEF Tokens, Marks
  <2>2. <<",">> \in Seq(Tokens)
    <3>1. ASSUME NEW c \in Tokens PROVE <<c>> \in Seq(Tokens)
      OBVIOUS
    <3>2. QED
      BY <2>1, <3>1
  <2>3. QED
    BY <1>3, <2>2, ConcatProperties
<1>6. Written(f, all) = <<f, "(">> \o text \o <<")">>
  <2>1. Joined(<<a, b>>, <<",">>) = text
    BY JoinedTwo
  <2> HIDE DEF text
  <2>2. QED
    BY <1>4, <2>1 DEF Written
<1>7. ParseArgs(text) = <<<<m>>, <<n>>>>
  BY <1>2, ParsedTwo DEF a, b
<1> HIDE DEF text
<1>8. Simulate(language, Written(f, all)) = Evaluate(<<f>>, ParseArgs(text))
  BY <1>5, <1>6, SimulatedCall
<1>9. Numbers(<<<<m>>, <<n>>>>) = <<p[1], p[2]>>
  BY <1>2, NumbersTwo
<1>10. QED
  BY <1>7, <1>8, <1>9 DEF all

-----------------------------------------------------------------------------
(* The registry and the simulation.                                        *)

\* What SimulationAgrees asks of one call.
Agrees(f, p, outcome) ==
  LET registered == HostCall(f, p)
  IN  (\A o \in registered : o.kind = "value") =>
        CASE f = "is_prime" ->
               outcome = Value(IF Value(1) \in registered THEN "true" ELSE "false")
          [] f = "fibonacci" /\ p = <<92>> -> outcome \in registered \cup {Panic}
          [] OTHER -> outcome \in registered

(***************************************************************************)
(* Outcomes that include a panic or a trap are not all values.             *)
(***************************************************************************)
LEMMA OnlyValues ==
  ASSUME NEW registered, Panic \in registered \/ Trap \in registered
  PROVE  ~ \A o \in registered : o.kind = "value"
BY DEF Panic, Trap

(***************************************************************************)
(* Every i32 is an i64.                                                    *)
(***************************************************************************)
LEMMA WidthsFit ==
  /\ I32Half \in Nat \ {0} /\ I64Half \in Nat /\ I64Half >= 2 * I32Half
  /\ I32 \subseteq Int /\ I32 \subseteq I64
BY WidthAssumption, I64Assumption DEF I32, I64

(***************************************************************************)
(* An i32 is an integer.                                                   *)
(***************************************************************************)
LEMMA I32IsInt ==
  ASSUME NEW x \in I32
  PROVE  x \in Int
BY WidthsFit

(***************************************************************************)
(* What fits an i32 fits an i64, so no sum or product overflows in the     *)
(* simulation that did not in the registry.                                *)
(***************************************************************************)
LEMMA ArithmeticAgrees ==
  ASSUME NEW x \in Int, NEW outcome \in Arithmetic64(x),
         \A o \in Arithmetic(x) : o.kind = "value"
  PROVE  outcome \in Arithmetic(x)
<1>1. x \in I32
  <2>1. x \notin I32 => Panic \in Arithmetic(x)
    BY DEF Arithmetic
  <2>2. QED
    BY <2>1, OnlyValues
<1>2. x \in I64
  BY <1>1, WidthsFit
<1>3. QED
  BY <1>1, <1>2 DEF Arithmetic, Arithmetic64

(***************************************************************************)
(* The loop of the simulation ends where the one of the registry does, one *)
(* number later.                                                           *)
(***************************************************************************)
LEMMA TurnsAgree ==
  ASSUME NEW n \in 0 .. 92
  PROVE  Turns[n + 2].a = Returned(n)
<1>1. CASE n = 0
  BY <1>1, TurnsUnfold DEF Returned
<1>2. CASE n # 0
  <2>1. n + 2 \in 3 .. 95 /\ n + 2 - 1 = n + 1
    BY <1>2
  <2>2. Turns[n + 2].a = Turns[n + 1].b
    <3> DEFINE i == n + 2
               t == [a |-> Turns[i - 1].b, b |-> Plus(Turns[i - 1].a, Turns[i - 1].b)]
    <3>1. t.a = Turns[i - 1].b
      OBVIOUS
    <3> HIDE DEF t
    <3>2. i \in 3 .. 95 /\ i - 1 = n + 1
      BY <2>1
    <3> HIDE DEF i
    <3>3. Turns[i] = t
      BY <3>2, TurnsUnfold DEF t
    <3>4. Turns[i].a = Turns[n + 1].b
      BY <3>1, <3>2, <3>3
    <3>5. QED
      BY <3>4 DEF i
  <2>3. CASE n = 1
    BY <2>2, <2>3, TurnsUnfold DEF Returned
  <2>4. CASE n # 1
    BY <1>2, <2>2, <2>4 DEF Returned
  <2>5. QED
    BY <2>3, <2>4
<1>3. QED
  BY <1>1, <1>2

(***************************************************************************)
(* The two loops return the same number of every index that the registry   *)
(* answers. For 92 the simulation may overflow first.                      *)
(***************************************************************************)
LEMMA FibonacciAgrees ==
  ASSUME NEW n \in I32, NEW outcome \in FibonacciSimulated(n),
         \A o \in Fibonacci(n) : o.kind = "value"
  PROVE  /\ n # 92 => outcome \in Fibonacci(n)
         /\ n = 92 => outcome \in Fibonacci(n) \cup {Panic}
<1>1. n \in Int
  BY WidthsFit
<1>2. n \in 0 .. 92
  <2>1. n \in 0 .. 93
    BY <1>1, FibonacciCorrect, OnlyValues
  <2>2. n # 93
    BY FibonacciCorrect, OnlyValues
  <2>3. QED
    BY <2>1, <2>2
<1>3. Fibonacci(n) = {Value(Returned(n))}
  BY <1>1, <1>2, FibonacciCorrect, LoopFindsFibs
<1>4. Turns[n + 2].a = Returned(n)
  BY <1>2, TurnsAgree
<1>5. CASE n = 92
  <2>1. FibonacciSimulated(n) = {Panic, Value(Turns[n + 2].a)}
    BY <1>5 DEF FibonacciSimulated
  <2>2. QED
    BY <1>3, <1>4, <1>5, <2>1
<1>6. CASE n # 92
  <2>1. n \in 0 .. 91
    BY <1>2, <1>6
  <2>2. FibonacciSimulated(n) = {Value(Turns[n + 2].a)}
    BY <2>1 DEF FibonacciSimulated
  <2>3. QED
    BY <1>3, <1>4, <1>6, <2>2
<1>7. QED
  BY <1>5, <1>6

(***************************************************************************)
(* Trial division up to the rounded root finds a divisor if there is one.  *)
(***************************************************************************)
LEMMA DivisorsSuffice ==
  ASSUME NEW n \in Nat, n > 1
  PROVE  (\A i \in Divisors(n) : n % i # 0) <=> (\A d \in 2 .. n - 1 : n % d # 0)
<1> DEFINE r == Root(n)
<1>1. r \in Nat /\ r * r <= n
  BY RootProperties
<1> HIDE DEF r
<1>2. Divisors(n) = 2 .. r
  BY DEF Divisors, r
<1>3. ASSUME NEW i \in 2 .. r PROVE i \in 2 .. n - 1
  <2>1. i * i <= r * r
    BY <1>1, Squares
  <2>2. 2 * i <= i * i
    OBVIOUS
  <2>3. i * i \in Nat /\ r * r \in Nat
    BY <1>1
  <2>4. QED
    BY <1>1, <2>1, <2>2, <2>3
<1>4. ASSUME NEW a \in Nat, NEW b \in Nat, n = a * b, a <= b, a > 1
      PROVE  \E i \in 2 .. r : n % i = 0
  <2>1. a <= r
    BY <1>4, SmallDivisor DEF r
  <2>2. a \in Nat \ {0}
    BY <1>4
  <2>3. (a * b) % a = 0
    BY <2>2, Multiple
  <2>4. a \in 2 .. r
    BY <1>1, <1>4, <2>1
  <2>5. QED
    BY <1>4, <2>3, <2>4
<1>5. ASSUME NEW d \in 2 .. n - 1, n % d = 0
      PROVE  \E i \in 2 .. r : n % i = 0
  <2> DEFINE q == n \div d
  <2>1. n = d * q /\ q \in Nat
    BY <1>5, Division
  <2> HIDE DEF q
  <2>2. n = q * d
    BY <2>1
  <2>3. q > 1
    <3>1. d * 0 = 0 /\ d * 1 = d
      OBVIOUS
    <3>2. QED
      BY <2>1, <3>1
  <2>4. CASE d <= q
    BY <1>4, <2>1, <2>4
  <2>5. CASE q <= d
    BY <1>4, <2>1, <2>2, <2>3, <2>5
  <2>6. QED
    BY <2>1, <2>4, <2>5
<1>6. QED
  BY <1>2, <1>3, <1>5

(***************************************************************************)
(* All divisors up to the root and the odd ones only lead to the same      *)
(* answer.                                                                 *)
(***************************************************************************)
LEMMA PrimesAgree ==
  ASSUME NEW n \in Int, NEW outcome \in IsPrimeSimulated(n)
  PROVE  outcome = Value(IF Value(1) \in IsPrime(n) THEN "true" ELSE "false")
<1> DEFINE Prime == n > 1 /\ \A d \in 2 .. n - 1 : n % d # 0
           Passed == n > 1 /\ \A i \in Divisors(n) : n % i # 0
<1>1. Passed <=> Prime
  <2>1. CASE n > 1
    <3>1. n \in Nat
      BY <2>1
    <3> DEFINE Whole == \A d \in 2 .. n - 1 : n % d # 0
               Tried == \A i \in Divisors(n) : n % i # 0
    <3>2. Tried <=> Whole
      BY <2>1, <3>1, DivisorsSuffice
    <3>3. (Prime <=> n > 1 /\ Whole) /\ (Passed <=> n > 1 /\ Tried)
      OBVIOUS
    <3> HIDE DEF Prime, Passed, Whole, Tried
    <3>4. QED
      BY <3>2, <3>3
  <2>2. CASE ~(n > 1)
    BY <2>2
  <2>3. QED
    BY <2>1, <2>2
<1>2. IsPrime(n) = {Value(IF Prime THEN 1 ELSE 0)}
  BY IsPrimeCorrect
<1>3. outcome = Value(IF Passed THEN "true" ELSE "false")
  BY DEF IsPrimeSimulated
<1> HIDE DEF Prime, Passed
<1>4. Value(1) \in IsPrime(n) <=> Prime
  BY <1>2 DEF Value
<1>5. QED
  BY <1>1, <1>3, <1>4

(***************************************************************************)
(* Where the range of random_int fits an i32, both draw from all of it:    *)
(* twice the range fits an i64.                                            *)
(***************************************************************************)
LEMMA RandomAgrees ==
  ASSUME NEW min \in I32, NEW max \in I32, NEW outcome \in RandomSimulated(min, max),
         \A o \in RandomInt(min, max) : o.kind = "value"
  PROVE  outcome \in RandomInt(min, max)
<1> DEFINE range == max - min + 1
<1>1. min \in Int /\ max \in Int /\ range \in Int
  BY WidthsFit
<1>2. min <= max /\ range \in I32
  <2>1. min <= max
    <3>1. ~(min <= max) => RandomInt(min, max) = {Trap}
      BY <1>1 DEF RandomInt
    <3>2. QED
      BY <3>1, OnlyValues
  <2>2. range \in I32
    <3>1. ASSUME range \notin I32 PROVE Panic \in RandomInt(min, max)
      BY <1>1, <2>1, <3>1 DEF RandomInt
    <3>2. QED
      BY <3>1, OnlyValues
  <2>3. QED
    BY <2>1, <2>2
<1>3. RandomInt(min, max) = {Value(v) : v \in min .. max}
  <2>1. max - min < I32Half - 1
    BY <1>1, <1>2, WidthsFit DEF I32
  <2>2. QED
    BY <1>2, <2>1, RandomOfRange
<1>4. /\ range > 0 /\ 2 * range <= I64Half
      /\ max - min \in I64 /\ range \in I64
  BY <1>1, <1>2, WidthsFit DEF I32, I64
<1>5. RandomSimulated(min, max) = {Value(v) : v \in min .. max}
  <2> DEFINE Overflows == {max - min, range} \ I64 # {} \/ 2 * range > I64Half
             drawn == {Value(v) : v \in min .. max}
             over == {Value(v) : v \in max + 2 .. min}
  <2>1. RandomSimulated(min, max)
          = CASE Overflows -> RandomWrapped(min, max)
              [] ~Overflows /\ range > 0 -> drawn
              [] ~Overflows /\ range = 0 -> {Panic}
              [] ~Overflows /\ range < 0 -> over
    BY DEF RandomSimulated
  <2> HIDE DEF drawn, over
  <2>2. ~Overflows /\ range > 0 /\ range # 0 /\ ~(range < 0)
    BY <1>1, <1>4, WidthsFit
  <2> HIDE DEF Overflows, range
  <2>3. RandomSimulated(min, max) = drawn
    BY <2>1, <2>2
  <2>4. QED
    BY <2>3 DEF drawn
<1>6. QED
  BY <1>3, <1>5

(***************************************************************************)
(* Evaluating a call for the numbers that the registry is called with.     *)
(***************************************************************************)
LEMMA EvaluatedAgrees ==
  ASSUME NEW f \in Simulated, NEW p \in Seq(I32), Len(p) = Arity[f],
         NEW args, Numbers(args) = p, NEW outcome \in Evaluate(<<f>>, args)
  PROVE  Agrees(f, p, outcome)
<1> SUFFICES ASSUME \A o \in HostCall(f, p) : o.kind = "value"
             PROVE  CASE f = "is_prime" ->
                           outcome = Value(IF Value(1) \in HostCall(f, p)
                                           THEN "true" ELSE "false")
                      [] f = "fibonacci" /\ p = <<92>> ->
                           outcome \in HostCall(f, p) \cup {Panic}
                      [] OTHER -> outcome \in HostCall(f, p)
  BY DEF Agrees
<1>1. CASE f = "add"
  <2>1. Len(p) = 2 /\ Len(p) >= 2 /\ p[1] \in Int /\ p[2] \in Int
    <3>1. Len(p) = 2 /\ p[1] \in I32 /\ p[2] \in I32
      BY <1>1, ElementOfSeq DEF Arity
    <3>2. QED
      BY <3>1, I32IsInt
  <2>2. HostCall(f, p) = Arithmetic(p[1] + p[2])
    BY <1>1 DEF HostCall, Add
  <2>3. Evaluate(<<f>>, args) = Arithmetic64(p[1] + p[2])
    BY <1>1, <2>1 DEF Evaluate
  <2>4. outcome \in HostCall(f, p)
    BY <2>1, <2>2, <2>3, ArithmeticAgrees
  <2>5. QED
    BY <1>1, <2>4
<1>2. CASE f = "multiply"
  <2>1. Len(p) = 2 /\ Len(p) >= 2 /\ p[1] \in Int /\ p[2] \in Int
    <3>1. Len(p) = 2 /\ p[1] \in I32 /\ p[2] \in I32
      BY <1>2, ElementOfSeq DEF Arity
    <3>2. QED
      BY <3>1, I32IsInt
  <2>2. HostCall(f, p) = Arithmetic(p[1] * p[2])
    BY <1>2 DEF HostCall, Multiply
  <2>3. Evaluate(<<f>>, args) = Arithmetic64(p[1] * p[2])
    BY <1>2, <2>1 DEF Evaluate
  <2>4. p[1] * p[2] \in Int
    BY <2>1
  <2>5. outcome \in HostCall(f, p)
    BY <2>2, <2>3, <2>4, ArithmeticAgrees
  <2>6. QED
    BY <1>2, <2>5
<1>3. CASE f = "fibonacci"
  <2>1. Len(p) = 1 /\ Len(p) >= 1 /\ p[1] \in I32
    BY <1>3, ElementOfSeq DEF Arity
  <2>2. HostCall(f, p) = Fibonacci(p[1])
    BY <1>3 DEF HostCall
  <2>3. Evaluate(<<f>>, args) = FibonacciSimulated(p[1])
    BY <1>3, <2>1 DEF Evaluate
  <2>4. /\ p[1] # 92 => outcome \in HostCall(f, p)
        /\ p[1] = 92 => outcome \in HostCall(f, p) \cup {Panic}
    BY <2>1, <2>2, <2>3, FibonacciAgrees
  <2>5. p[1] = 92 => p = <<92>>
    BY <2>1, OfLengthOne
  <2>6. QED
    BY <1>3, <2>4, <2>5
<1>4. CASE f = "is_prime"
  <2>1. Len(p) = 1 /\ Len(p) >= 1 /\ p[1] \in Int
    <3>1. Len(p) = 1 /\ p[1] \in I32
      BY <1>4, ElementOfSeq DEF Arity
    <3>2. QED
      BY <3>1, I32IsInt
  <2>2. HostCall(f, p) = IsPrime(p[1])
    BY <1>4 DEF HostCall
  <2>3. Evaluate(<<f>>, args) = IsPrimeSimulated(p[1])
    BY <1>4, <2>1 DEF Evaluate
  <2>4. outcome = Value(IF Value(1) \in HostCall(f, p) THEN "true" ELSE "false")
    BY <2>1, <2>2, <2>3, PrimesAgree
  <2>5. QED
    BY <1>4, <2>4
<1>5. CASE f = "random_int"
  <2>1. Len(p) = 2 /\ Len(p) >= 2 /\ p[1] \in I32 /\ p[2] \in I32
    BY <1>5, ElementOfSeq DEF Arity
  <2>2. HostCall(f, p) = RandomInt(p[1], p[2])
    BY <1>5 DEF HostCall
  <2>3. Evaluate(<<f>>, args) = RandomSimulated(p[1], p[2])
    BY <1>5, <2>1 DEF Evaluate
  <2>4. outcome \in HostCall(f, p)
    BY <2>1, <2>2, <2>3, RandomAgrees
  <2>5. QED
    BY <1>5, <2>4
<1>6. QED
  BY <1>1, <1>2, <1>3, <1>4, <1>5 DEF Simulated

(***************************************************************************)
(* What a simulated call asks.                                             *)
(***************************************************************************)
LEMMA SimulatedQuestions ==
  ASSUME Next, question'.kind = "simulated"
  PROVE  \E language \in Languages, layout \in Layouts, f \in DOMAIN Arguments :
           \E p \in Arguments[f] :
             /\ \A i \in DOMAIN p :
                  \E numeral \in DOMAIN NumberOf : NumberOf[numeral] = p[i]
             /\ question' = [kind |-> "simulated", name |-> f, params |-> p]
             /\ answer' \in Simulate(language, Written(f, WrittenArguments(layout, p)))
<1>1. SimulateCall
  BY DEF Next, CallHost, SimulateText, ParseCall, AskPath, AskUrl
<1>2. QED
  BY <1>1 DEF SimulateCall, WrittenArguments

(***************************************************************************)
(* A program of any language that calls a function with numbers in any     *)
(* quotes and among any spaces gets what the registry answers, where the   *)
(* registry answers with a value, for integers of any width whose i64 are  *)
(* at least as wide again as the i32.                                      *)
(***************************************************************************)
THEOREM SimulationIsRight == Spec => []SimulationAgrees
<1>1. Init => SimulationAgrees
  BY DEF Init, Nothing, SimulationAgrees
<1>2. SimulationAgrees /\ [Next]_vars => SimulationAgrees'
  <2>1. ASSUME Next PROVE SimulationAgrees'
    <3> SUFFICES ASSUME question'.kind = "simulated", question'.name \in Simulated
                 PROVE  SimulationAgrees'
      BY DEF SimulationAgrees
    <3>1. PICK language \in Languages, layout \in Layouts, f \in DOMAIN Arguments :
            \E p \in Arguments[f] :
              /\ \A i \in DOMAIN p :
                   \E numeral \in DOMAIN NumberOf : NumberOf[numeral] = p[i]
              /\ question' = [kind |-> "simulated", name |-> f, params |-> p]
              /\ answer' \in Simulate(language, Written(f, WrittenArguments(layout, p)))
      BY <2>1, SimulatedQuestions
    <3>2. PICK p \in Arguments[f] :
            /\ \A i \in DOMAIN p :
                 \E numeral \in DOMAIN NumberOf : NumberOf[numeral] = p[i]
            /\ question' = [kind |-> "simulated", name |-> f, params |-> p]
            /\ answer' \in Simulate(language, Written(f, WrittenArguments(layout, p)))
      BY <3>1
    <3>3. f \in Simulated /\ question'.name = f /\ question'.params = p
      BY <3>2
    <3>4. f \in DOMAIN Arity /\ p \in Seq(I32) /\ Len(p) = Arity[f]
      BY ArgumentsAssumption
    <3>5. \E args : Numbers(args) = p /\ answer' \in Evaluate(<<f>>, args)
      <4>1. Arity[f] = 1 \/ Arity[f] = 2
        BY <3>3 DEF Simulated, Arity
      <4>2. CASE Arity[f] = 1
        BY <3>2, <3>4, <4>2, CallOfOne, OfLengthOne
      <4>3. CASE Arity[f] = 2
        BY <3>2, <3>4, <4>3, CallOfTwo, OfLengthTwo
      <4>4. QED
        BY <4>1, <4>2, <4>3
    <3>6. Agrees(f, p, answer')
      BY <3>3, <3>4, <3>5, EvaluatedAgrees
    <3>7. QED
      BY <3>3, <3>6 DEF SimulationAgrees, Agrees
  <2>2. CASE UNCHANGED vars
    BY <2>2 DEF vars, SimulationAgrees
  <2>3. QED
    BY <2>1, <2>2
<1>3. QED
  BY <1>1, <1>2, PTL DEF Spec

-----------------------------------------------------------------------------
(* parse_args: arguments of any form.                                      *)

\* The texts that are left of a form up to each of its positions.
Grows(text, form, positions) ==
  /\ text[0] = << >>
  /\ \A i \in 1 .. Len(form) :
       text[i] = IF i \in positions THEN text[i - 1] ELSE Append(text[i - 1], form[i])

(***************************************************************************)
(* A text without the characters at some positions grows from position to  *)
(* position.                                                               *)
(***************************************************************************)
LEMMA WithoutUnfold ==
  ASSUME NEW form, NEW positions, Len(form) \in Nat
  PROVE  \E text : /\ Grows(text, form, positions)
                  /\ Without(form, positions) = text[Len(form)]
<1> DEFINE n == Len(form)
           Grown(s, i) == IF i \in positions THEN s ELSE Append(s, form[i])
           UpTo(f, k) == /\ f = [i \in 0 .. n |-> f[i]]
                         /\ \A i \in 0 .. n : i <= k =>
                              f[i] = IF i = 0 THEN << >> ELSE Grown(f[i - 1], i)
           A == {k \in Nat : \E f : UpTo(f, k)}
<1>1. n \in Nat
  OBVIOUS
<1> HIDE DEF Grown, n
<1>2. 0 \in A
  <2>1. UpTo([i \in 0 .. n |-> << >>], 0)
    OBVIOUS
  <2> HIDE DEF UpTo
  <2>2. QED
    BY <2>1
<1>3. ASSUME NEW k \in Nat, k \in A
      PROVE  k + 1 \in A
  <2>1. PICK f : UpTo(f, k)
    BY <1>3
  <2> DEFINE g == [i \in 0 .. n |-> IF i = k + 1 THEN Grown(f[k], k + 1) ELSE f[i]]
  <2>2. \A i \in 0 .. n : i <= k => g[i] = f[i]
    OBVIOUS
  <2>3. g = [i \in 0 .. n |-> g[i]]
    OBVIOUS
  <2>4. ASSUME NEW i \in 0 .. n, i <= k + 1
        PROVE  g[i] = IF i = 0 THEN << >> ELSE Grown(g[i - 1], i)
    <3>1. CASE i = k + 1
      <4>1. i # 0 /\ i - 1 = k /\ k \in 0 .. n
        BY <1>1, <3>1
      <4>2. g[i] = Grown(f[k], k + 1) /\ g[k] = f[k]
        BY <2>2, <3>1, <4>1
      <4> HIDE DEF g, UpTo
      <4>3. QED
        BY <3>1, <4>1, <4>2
    <3>2. CASE i <= k
      <4>1. f[i] = IF i = 0 THEN << >> ELSE Grown(f[i - 1], i)
        BY <2>1, <3>2
      <4>2. g[i] = f[i] /\ (i # 0 => i - 1 \in 0 .. n /\ i - 1 <= k)
        BY <1>1, <2>2, <3>2
      <4>3. i # 0 => g[i - 1] = f[i - 1]
        BY <2>2, <4>2
      <4> HIDE DEF g, UpTo
      <4>4. QED
        BY <4>1, <4>2, <4>3
    <3>3. i = k + 1 \/ i <= k
      BY <2>4
    <3>4. QED
      BY <3>1, <3>2, <3>3
  <2> HIDE DEF g
  <2>5. UpTo(g, k + 1)
    BY <2>3, <2>4
  <2> HIDE DEF UpTo
  <2>6. QED
    BY <2>5
<1>4. n \in A
  <2> HIDE DEF A
  <2>1. QED
    BY <1>1, <1>2, <1>3, Induction
<1>5. PICK f : UpTo(f, n)
  BY <1>4
<1> DEFINE Body(g) == [i \in 0 .. n |-> IF i = 0 THEN << >> ELSE Grown(g[i - 1], i)]
           text == CHOOSE g : g = Body(g)
<1>6. f = Body(f)
  <2>1. ASSUME NEW i \in 0 .. n
        PROVE  f[i] = IF i = 0 THEN << >> ELSE Grown(f[i - 1], i)
    <3>1. i <= n
      BY <1>1
    <3>2. QED
      BY <1>5, <3>1
  <2>2. f = [i \in 0 .. n |-> f[i]]
    BY <1>5
  <2> HIDE DEF UpTo
  <2>3. QED
    BY <2>1, <2>2
<1>7. text = Body(text)
  <2> HIDE DEF Body
  <2>1. QED
    BY <1>6
<1>8. Without(form, positions) = text[n]
  BY DEF Without, n, Grown
<1> HIDE DEF text
<1>9. text[0] = << >>
  BY <1>1, <1>7
<1>10. ASSUME NEW i \in 1 .. n
       PROVE  text[i] = Grown(text[i - 1], i)
  <2>1. i \in 0 .. n /\ i # 0
    BY <1>1
  <2>2. QED
    BY <1>7, <2>1
<1>11. Grows(text, form, positions)
  BY <1>9, <1>10 DEF Grows, n, Grown
<1>12. QED
  BY <1>8, <1>11 DEF n

(***************************************************************************)
(* No characters are counted before the first.                             *)
(***************************************************************************)
LEMMA CountNone ==
  ASSUME NEW form \in Seq(Tokens), NEW quotations, NEW class
  PROVE  Count(form, quotations, class, 0) = 0
<1>1. DOMAIN form = 1 .. Len(form) /\ Len(form) \in Nat
  BY LenProperties
<1>2. {k \in Bare(form, quotations) : k <= 0 /\ form[k] \in class} = {}
  BY <1>1 DEF Bare
<1>3. QED
  BY <1>2, FS_EmptySet DEF Count

(***************************************************************************)
(* What is counted are finitely many positions.                            *)
(***************************************************************************)
LEMMA CountNat ==
  ASSUME NEW form \in Seq(Tokens), NEW quotations, NEW class, NEW i
  PROVE  /\ IsFiniteSet({k \in Bare(form, quotations) : k <= i /\ form[k] \in class})
         /\ Count(form, quotations, class, i) \in Nat
<1> DEFINE counted == {k \in Bare(form, quotations) : k <= i /\ form[k] \in class}
<1>1. DOMAIN form = 1 .. Len(form) /\ Len(form) \in Nat
  BY LenProperties
<1>2. counted \in SUBSET (1 .. Len(form))
  BY <1>1 DEF Bare
<1>3. IsFiniteSet(1 .. Len(form))
  BY <1>1, FS_Interval
<1>4. Count(form, quotations, class, i) = Cardinality(counted)
  BY DEF Count
<1> HIDE DEF counted
<1>5. IsFiniteSet(counted) /\ Cardinality(counted) \in Nat
  BY <1>2, <1>3, FS_Subset, FS_CardinalityType
<1>6. QED
  BY <1>4, <1>5 DEF counted

(***************************************************************************)
(* A bare character of the class counts, and no other one.                 *)
(***************************************************************************)
LEMMA CountNext ==
  ASSUME NEW form \in Seq(Tokens), NEW quotations, NEW class, NEW i \in 1 .. Len(form)
  PROVE  /\ Count(form, quotations, class, i - 1) \in Nat
         /\ Count(form, quotations, class, i)
              = IF i \in Bare(form, quotations) /\ form[i] \in class
                THEN Count(form, quotations, class, i - 1) + 1
                ELSE Count(form, quotations, class, i - 1)
<1> DEFINE Upto(j) == {k \in Bare(form, quotations) : k <= j /\ form[k] \in class}
           before == Upto(i - 1)
           after == Upto(i)
<1>1. DOMAIN form = 1 .. Len(form) /\ Len(form) \in Nat /\ i \in Nat
  BY LenProperties
<1>2. /\ Count(form, quotations, class, i - 1) = Cardinality(before)
      /\ Count(form, quotations, class, i) = Cardinality(after)
  BY DEF Count
<1>3. IsFiniteSet(before) /\ Count(form, quotations, class, i - 1) \in Nat
  BY CountNat
<1>4. i \notin before
  BY <1>1
<1>5. after = IF i \in Bare(form, quotations) /\ form[i] \in class
              THEN before \cup {i} ELSE before
  <2>1. \A k \in Bare(form, quotations) : k \in 1 .. Len(form)
    BY <1>1 DEF Bare
  <2>2. \A k \in Bare(form, quotations) : k <= i <=> k <= i - 1 \/ k = i
    BY <1>1, <2>1
  <2>3. QED
    BY <1>1, <2>2
<1> HIDE DEF before
<1>6. Cardinality(before \cup {i}) = Cardinality(before) + 1
  BY <1>3, <1>4, FS_AddElement
<1> HIDE DEF after
<1>7. QED
  BY <1>2, <1>3, <1>5, <1>6

\* What FormsAssumption says of a form and its quotations.
Sound(form, quotations) ==
  /\ form \in Seq(Tokens)
  /\ quotations \in SUBSET Quotations(form)
  /\ \A q, r \in quotations : q = r \/ q[2] < r[1] \/ r[2] < q[1]
  /\ \A i \in Bare(form, quotations) :
       /\ form[i] \notin QuoteMarks
       /\ form[i] = "," => Count(form, quotations, {"(", "["}, i)
                             # Count(form, quotations, {")", "]"}, i)

\* Position i is in quotation q, before its last quote.
Inside(q, i) == q[1] <= i /\ i < q[2]

\* How deep in brackets position i of a form is.
Depth(form, quotations, i) ==
  Count(form, quotations, {"(", "["}, i) - Count(form, quotations, {")", "]"}, i)

\* parse_args after i characters of a form, of which it has kept a text.
Midway(state, args, form, quotations, text, i) ==
  \E quote :
    /\ state = [args |-> args, current |-> text, quote |-> quote,
                depth |-> Depth(form, quotations, i)]
    /\ \/ \E q \in quotations : Inside(q, i) /\ quote = form[q[1]]
       \/ quote = "none" /\ \A q \in quotations : ~Inside(q, i)

(***************************************************************************)
(* Quotations of a form, position by position.                             *)
(***************************************************************************)
LEMMA QuotationShape ==
  ASSUME NEW form, NEW quotations, Sound(form, quotations), NEW q \in quotations
  PROVE  /\ q[1] \in 1 .. Len(form) /\ q[2] \in 1 .. Len(form)
         /\ q[1] < q[2]
         /\ form[q[1]] \in QuoteMarks /\ form[q[2]] = form[q[1]]
         /\ \A i \in q[1] + 1 .. q[2] - 1 : form[i] # form[q[1]]
<1>1. form \in Seq(Tokens) /\ q \in Quotations(form)
  BY DEF Sound
<1>2. DOMAIN form = 1 .. Len(form)
  BY <1>1, LenProperties
<1>3. QED
  BY <1>1, <1>2 DEF Quotations, QuoteMarks

(***************************************************************************)
(* A character inside of a quotation, the last quote included, leaves the  *)
(* brackets as they are.                                                   *)
(***************************************************************************)
LEMMA QuotedDepth ==
  ASSUME NEW form, NEW quotations, Sound(form, quotations), NEW i \in 1 .. Len(form),
         i \notin Bare(form, quotations)
  PROVE  Depth(form, quotations, i) = Depth(form, quotations, i - 1)
<1>1. form \in Seq(Tokens)
  BY DEF Sound
<1>2. QED
  BY <1>1, CountNext DEF Depth

(***************************************************************************)
(* Reading on inside of a quotation: everything but its last quote is kept.*)
(***************************************************************************)
LEMMA QuotedRead ==
  ASSUME NEW form, NEW quotations, Sound(form, quotations), NEW i \in 1 .. Len(form),
         NEW args, NEW text, NEW q \in quotations, Inside(q, i - 1)
  PROVE  Midway(ParseToken([args |-> args, current |-> text, quote |-> form[q[1]],
                            depth |-> Depth(form, quotations, i - 1)], form[i]),
                args, form, quotations,
                IF i \in Ends(quotations) THEN text ELSE Append(text, form[i]), i)
<1> DEFINE quote == form[q[1]]
           depth == Depth(form, quotations, i)
           state == [args |-> args, current |-> text, quote |-> quote,
                     depth |-> Depth(form, quotations, i - 1)]
<1>1. /\ q[1] \in Nat /\ q[2] \in Nat /\ i \in Nat
      /\ quote \in QuoteMarks /\ form[q[2]] = quote
      /\ \A j \in q[1] + 1 .. q[2] - 1 : form[j] # quote
  BY QuotationShape
<1>2. q[1] <= i - 1 /\ i <= q[2]
  BY <1>1 DEF Inside
<1>3. quote # "none"
  BY <1>1 DEF QuoteMarks
<1>4. i \notin Bare(form, quotations)
  BY <1>1, <1>2 DEF Bare
<1>5. state.depth = depth
  BY <1>4, QuotedDepth
<1>6. \A r \in quotations : /\ r[1] \in Nat /\ r[2] \in Nat /\ r[1] < r[2]
                            /\ q = r \/ q[2] < r[1] \/ r[2] < q[1]
  <2>1. \A r \in quotations : q = r \/ q[2] < r[1] \/ r[2] < q[1]
    BY DEF Sound
  <2>2. \A r \in quotations : /\ r[1] \in 1 .. Len(form) /\ r[2] \in 1 .. Len(form)
                              /\ r[1] < r[2]
    BY QuotationShape
  <2>3. QED
    BY <2>1, <2>2
<1> HIDE DEF quote, depth
<1>7. CASE i = q[2]
  <2>1. form[i] = quote
    BY <1>1, <1>7
  <2>2. ParseToken(state, form[i]) = [args |-> args, current |-> text, quote |-> "none",
                                      depth |-> depth]
    BY <1>3, <1>5, <2>1 DEF ParseToken
  <2>3. \A r \in quotations : ~Inside(r, i)
    BY <1>1, <1>2, <1>6, <1>7 DEF Inside
  <2>4. i \in Ends(quotations)
    BY <1>7 DEF Ends
  <2>5. QED
    BY <2>2, <2>3, <2>4 DEF Midway, quote, depth
<1>8. CASE i < q[2]
  <2>1. form[i] # quote
    BY <1>1, <1>2, <1>8
  <2>2. ParseToken(state, form[i]) = [args |-> args, current |-> Append(text, form[i]),
                                      quote |-> quote, depth |-> depth]
    BY <1>3, <1>5, <2>1 DEF ParseToken, Push
  <2>3. Inside(q, i)
    BY <1>1, <1>2, <1>8 DEF Inside
  <2>4. i \notin Ends(quotations)
    <3>1. \A r \in quotations : i # r[1] /\ i # r[2]
      BY <1>1, <1>2, <1>6, <1>8
    <3>2. QED
      BY <3>1 DEF Ends
  <2>5. QED
    BY <2>2, <2>3, <2>4 DEF Midway, quote, depth
<1>9. QED
  BY <1>1, <1>2, <1>7, <1>8 DEF quote

(***************************************************************************)
(* Reading a bare character: no comma separates arguments, because there   *)
(* are brackets around it.                                                 *)
(***************************************************************************)
LEMMA BareRead ==
  ASSUME NEW form, NEW quotations, Sound(form, quotations), NEW i \in Bare(form, quotations),
         NEW args, NEW text
  PROVE  ParseToken([args |-> args, current |-> text, quote |-> "none",
                     depth |-> Depth(form, quotations, i - 1)], form[i])
           = [args |-> args, current |-> Append(text, form[i]), quote |-> "none",
              depth |-> Depth(form, quotations, i)]
<1> DEFINE c == form[i]
           Opened(j) == Count(form, quotations, {"(", "["}, j)
           Closed(j) == Count(form, quotations, {")", "]"}, j)
           before == Opened(i - 1) - Closed(i - 1)
           state == [args |-> args, current |-> text, quote |-> "none",
                     depth |-> before]
<1>1. form \in Seq(Tokens) /\ i \in 1 .. Len(form)
  BY LenProperties DEF Sound, Bare
<1>2. /\ Opened(i - 1) \in Nat /\ Closed(i - 1) \in Nat
      /\ Opened(i) = IF c \in {"(", "["} THEN Opened(i - 1) + 1 ELSE Opened(i - 1)
      /\ Closed(i) = IF c \in {")", "]"} THEN Closed(i - 1) + 1 ELSE Closed(i - 1)
  BY <1>1, CountNext
<1>3. c \notin {"\"", "'"} /\ (c = "," => Opened(i) # Closed(i))
  BY DEF Sound, QuoteMarks
<1> DEFINE depth == Opened(i) - Closed(i)
<1>4. /\ c \in {"(", "["} => depth = before + 1
      /\ c \in {")", "]"} => depth = before - 1
      /\ c \notin {"(", "[", ")", "]"} => depth = before
      /\ c = "," => before # 0
  <2> DEFINE a == Opened(i - 1)
             b == Closed(i - 1)
             o == Opened(i)
             d == Closed(i)
  <2> HIDE DEF a, b, o, d, c
  <2>1. /\ a \in Nat /\ b \in Nat
        /\ o = IF c \in {"(", "["} THEN a + 1 ELSE a
        /\ d = IF c \in {")", "]"} THEN b + 1 ELSE b
    BY <1>2 DEF a, b, o, d
  <2>2. c = "," => o # d
    BY <1>3 DEF o, d
  <2>3. c \in {"(", "["} => o - d = a - b + 1
    BY <2>1
  <2>4. c \in {")", "]"} => o - d = a - b - 1
    BY <2>1
  <2>5. c \notin {"(", "[", ")", "]"} => o - d = a - b
    BY <2>1
  <2>6. c = "," => o = a /\ d = b
    BY <2>1
  <2>7. o = a /\ d = b /\ o # d => a - b # 0
    BY <2>1
  <2>8. c = "," => a - b # 0
    BY <2>2, <2>6, <2>7, Zenon
  <2>9. QED
    BY <2>3, <2>4, <2>5, <2>8 DEF a, b, o, d
<1> HIDE DEF c, depth, before
<1>5. ParseToken(state, c)
        = [args |-> args, current |-> Append(text, c), quote |-> "none", depth |-> depth]
  <2>1. CASE c \in {"(", "["}
    BY <1>3, <1>4, <2>1 DEF ParseToken, Push
  <2>2. CASE c \in {")", "]"}
    BY <1>3, <1>4, <2>2 DEF ParseToken, Push
  <2>3. CASE c \notin {"(", "[", ")", "]"}
    <3>1. ParseToken(state, c) = Push(state, c)
      BY <1>3, <1>4, <2>3 DEF ParseToken
    <3>2. QED
      BY <1>4, <2>3, <3>1 DEF Push
  <2>4. QED
    BY <2>1, <2>2, <2>3
<1>6. QED
  BY <1>5 DEF Depth, before, depth, c

(***************************************************************************)
(* Every character of a form is read as its quotations say.                *)
(***************************************************************************)
LEMMA CharacterRead ==
  ASSUME NEW form, NEW quotations, Sound(form, quotations), NEW i \in 1 .. Len(form),
         NEW state, NEW args, NEW text, Midway(state, args, form, quotations, text, i - 1)
  PROVE  Midway(ParseToken(state, form[i]), args, form, quotations,
                IF i \in Ends(quotations) THEN text ELSE Append(text, form[i]), i)
<1>1. PICK quote :
        /\ state = [args |-> args, current |-> text, quote |-> quote,
                    depth |-> Depth(form, quotations, i - 1)]
        /\ \/ \E q \in quotations : Inside(q, i - 1) /\ quote = form[q[1]]
           \/ quote = "none" /\ \A q \in quotations : ~Inside(q, i - 1)
  BY DEF Midway
<1>2. CASE \E q \in quotations : Inside(q, i - 1) /\ quote = form[q[1]]
  BY <1>1, <1>2, QuotedRead
<1>3. CASE quote = "none" /\ \A q \in quotations : ~Inside(q, i - 1)
  <2>1. \A r \in quotations :
          /\ r[1] \in 1 .. Len(form) /\ r[2] \in 1 .. Len(form) /\ r[1] < r[2]
          /\ form[r[1]] \in QuoteMarks
    BY QuotationShape
  <2>2. i \in Nat /\ DOMAIN form = 1 .. Len(form)
    <3>1. form \in Seq(Tokens)
      BY DEF Sound
    <3>2. Len(form) \in Nat /\ DOMAIN form = 1 .. Len(form)
      BY <3>1, LenProperties
    <3>3. QED
      BY <3>2
  <2>3. \A r \in quotations : i <= r[1] \/ r[2] < i
    BY <1>3, <2>1, <2>2 DEF Inside
  <2>4. ASSUME NEW q \in quotations, q[1] = i
        PROVE  Midway(ParseToken(state, form[i]), args, form, quotations,
                      IF i \in Ends(quotations) THEN text ELSE Append(text, form[i]), i)
    <3>1. i \notin Bare(form, quotations)
      BY <2>1, <2>2, <2>4 DEF Bare
    <3>2. Depth(form, quotations, i) = Depth(form, quotations, i - 1)
      BY <3>1, QuotedDepth
    <3>3. form[i] \in {"\"", "'"}
      BY <2>1, <2>4 DEF QuoteMarks
    <3>4. ParseToken(state, form[i]) = [args |-> args, current |-> text, quote |-> form[i],
                                        depth |-> Depth(form, quotations, i)]
      BY <1>1, <1>3, <3>2, <3>3 DEF ParseToken
    <3>5. Inside(q, i) /\ i \in Ends(quotations)
      BY <2>1, <2>2, <2>4 DEF Inside, Ends
    <3>6. QED
      BY <2>4, <3>4, <3>5 DEF Midway
  <2>5. CASE \A r \in quotations : r[1] # i
    <3>1. \A r \in quotations : i < r[1] \/ r[2] < i
      BY <2>1, <2>2, <2>3, <2>5
    <3>2. i \in Bare(form, quotations)
      BY <2>2, <3>1 DEF Bare
    <3>3. i \notin Ends(quotations) /\ \A r \in quotations : ~Inside(r, i)
      BY <2>1, <2>2, <3>1 DEF Ends, Inside
    <3>4. ParseToken(state, form[i])
            = [args |-> args, current |-> Append(text, form[i]), quote |-> "none",
               depth |-> Depth(form, quotations, i)]
      BY <1>1, <1>3, <3>2, BareRead
    <3>5. QED
      BY <3>3, <3>4 DEF Midway
  <2>6. QED
    BY <2>4, <2>5
<1>4. QED
  BY <1>1, <1>2, <1>3

(***************************************************************************)
(* parse_args reads a form within brackets and quotes or not, and has then *)
(* kept a text that trims to what the form stands for.                     *)
(***************************************************************************)
LEMMA FormRead ==
  ASSUME NEW form \in DOMAIN Forms, NEW args
  PROVE  /\ form \in Seq(Tokens) /\ Forms[form] # << >>
         /\ \E text : /\ Trim(text) = Forms[form]
                      /\ Reads(State(args, << >>, "none"), form,
                               State(args, text, "none"))
<1> DEFINE n == Len(form)
           from == State(args, << >>, "none")
<1>1. form \in Seq(STRING)
  BY FormsAssumption
<1>2. n \in Nat /\ DOMAIN form = 1 .. n /\ form = [i \in 1 .. n |-> form[i]]
  BY <1>1, LenProperties
<1>3. form \in Seq(Tokens)
  <2>1. \A i \in 1 .. n : form[i] \in Tokens
    BY <1>2 DEF Tokens
  <2> HIDE DEF n
  <2>2. form \in [1 .. n -> Tokens]
    BY <1>2, <2>1
  <2>3. QED
    BY <1>2, <2>2, FunctionIsSeq
<1>4. PICK quotations \in SUBSET Quotations(form) :
        /\ \A q, r \in quotations : q = r \/ q[2] < r[1] \/ r[2] < q[1]
        /\ \A i \in Bare(form, quotations) :
             /\ form[i] \notin {"\"", "'"}
             /\ form[i] = "," => Count(form, quotations, {"(", "["}, i)
                                   # Count(form, quotations, {")", "]"}, i)
        /\ Count(form, quotations, {"(", "["}, n) = Count(form, quotations, {")", "]"}, n)
        /\ Forms[form] = Trim(Without(form, Ends(quotations)))
        /\ Forms[form] # << >>
  BY FormsAssumption
<1>5. Sound(form, quotations)
  BY <1>3, <1>4 DEF Sound, QuoteMarks
<1>6. PICK text :
        /\ text[0] = << >>
        /\ \A i \in 1 .. n :
             text[i] = IF i \in Ends(quotations) THEN text[i - 1]
                       ELSE Append(text[i - 1], form[i])
        /\ Without(form, Ends(quotations)) = text[n]
  <2>1. PICK text : /\ Grows(text, form, Ends(quotations))
                    /\ Without(form, Ends(quotations)) = text[Len(form)]
    BY <1>2, WithoutUnfold
  <2>2. QED
    BY <2>1 DEF Grows
<1>7. PICK h : Run(h, from, form)
  BY <1>3, FoldReads DEF Reads
<1> DEFINE A == {k \in Nat : k \in 0 .. n =>
                               Midway(h[k], args, form, quotations, text[k], k)}
<1>8. \A q \in quotations : q[1] \in 1 .. n /\ q[2] \in 1 .. n
  BY <1>5, QuotationShape
<1>9. 0 \in A
  <2>1. Depth(form, quotations, 0) = 0
    BY <1>3, CountNone DEF Depth
  <2>2. h[0] = [args |-> args, current |-> text[0], quote |-> "none",
                depth |-> Depth(form, quotations, 0)]
    BY <1>6, <1>7, <2>1 DEF Run, State
  <2>3. \A q \in quotations : ~Inside(q, 0)
    BY <1>2, <1>8 DEF Inside
  <2>4. QED
    BY <2>2, <2>3 DEF Midway
<1>10. ASSUME NEW k \in Nat, k \in A
       PROVE  k + 1 \in A
  <2> SUFFICES ASSUME k + 1 \in 0 .. n
               PROVE  Midway(h[k + 1], args, form, quotations, text[k + 1], k + 1)
    OBVIOUS
  <2> DEFINE i == k + 1
  <2>1. k \in 0 .. n /\ i \in 1 .. n /\ i - 1 = k
    BY <1>2
  <2>2. Midway(h[k], args, form, quotations, text[k], k)
    BY <1>10, <2>1
  <2>3. h[i] = ParseToken(h[i - 1], form[i])
    BY <1>7, <2>1 DEF Run
  <2> HIDE DEF i
  <2>4. Midway(h[i - 1], args, form, quotations, text[i - 1], i - 1)
    BY <2>1, <2>2
  <2>5. Midway(ParseToken(h[i - 1], form[i]), args, form, quotations,
               IF i \in Ends(quotations) THEN text[i - 1] ELSE Append(text[i - 1], form[i]),
               i)
    BY <1>5, <2>1, <2>4, CharacterRead
  <2>6. Midway(h[i], args, form, quotations, text[i], i)
    BY <1>6, <2>1, <2>3, <2>5
  <2>7. QED
    BY <2>6 DEF i
<1>11. Midway(h[n], args, form, quotations, text[n], n)
  <2>1. \A k \in Nat : k \in A
    <3> HIDE DEF A
    <3>1. QED
      BY <1>9, <1>10, Induction
  <2>2. n \in 0 .. n
    BY <1>2
  <2>3. QED
    BY <1>2, <2>1, <2>2
<1>12. h[n] = State(args, text[n], "none")
  <2>1. \A q \in quotations : ~Inside(q, n)
    BY <1>2, <1>8 DEF Inside
  <2>2. Depth(form, quotations, n) = 0
    <3> DEFINE count == Count(form, quotations, {"(", "["}, n)
    <3>1. count \in Nat
      BY <1>3, CountNat
    <3>2. Depth(form, quotations, n) = count - count
      BY <1>4 DEF Depth
    <3> HIDE DEF count
    <3>3. QED
      BY <3>1, <3>2
  <2>3. QED
    BY <1>11, <2>1, <2>2 DEF Midway, State
<1>13. Reads(from, form, State(args, text[n], "none"))
  BY <1>7, <1>12 DEF Reads
<1>14. QED
  BY <1>3, <1>4, <1>6, <1>13

(***************************************************************************)
(* After a form and a comma one more argument is found.                    *)
(***************************************************************************)
LEMMA FormAndComma ==
  ASSUME NEW form \in DOMAIN Forms, NEW args
  PROVE  /\ form \o <<",">> \in Seq(Tokens)
         /\ Reads(State(args, << >>, "none"), form \o <<",">>,
                  State(Append(args, Forms[form]), << >>, "none"))
<1>1. form \in Seq(Tokens)
  BY FormRead
<1>2. PICK text : /\ Trim(text) = Forms[form]
                  /\ Reads(State(args, << >>, "none"), form, State(args, text, "none"))
  BY FormRead
<1>3. "," \in Tokens
  BY DEF Tokens, Marks
<1>4. <<",">> \in Seq(Tokens)
  <2>1. ASSUME NEW token \in Tokens PROVE <<token>> \in Seq(Tokens)
    OBVIOUS
  <2>2. QED
    BY <1>3, <2>1
<1>5. ParseToken(State(args, text, "none"), ",")
        = State(Append(args, Forms[form]), << >>, "none")
  BY <1>2 DEF State, ParseToken
<1>6. Reads(State(args, text, "none"), <<",">>,
            State(Append(args, Forms[form]), << >>, "none"))
  BY <1>3, <1>5, ReadsToken
<1>7. form \o <<",">> \in Seq(Tokens)
  BY <1>1, <1>4, ConcatProperties
<1>8. QED
  BY <1>1, <1>2, <1>4, <1>6, <1>7, ReadsAfter

(***************************************************************************)
(* The last form becomes the last argument: it is not empty.               *)
(***************************************************************************)
LEMMA LastForm ==
  ASSUME NEW w \in Seq(Tokens), NEW form \in DOMAIN Forms, NEW args,
         Reads(ParseState, w, State(args, << >>, "none"))
  PROVE  w \o form \in Seq(Tokens) /\ ParseArgs(w \o form) = Append(args, Forms[form])
<1>1. form \in Seq(Tokens) /\ Forms[form] # << >>
  BY FormRead
<1>2. PICK text : /\ Trim(text) = Forms[form]
                  /\ Reads(State(args, << >>, "none"), form, State(args, text, "none"))
  BY FormRead
<1>3. w \o form \in Seq(Tokens)
  BY <1>1, ConcatProperties
<1> DEFINE s == w \o form
           end == FoldLeft(ParseToken, ParseState, s)
<1>4. Reads(ParseState, s, State(args, text, "none"))
  BY <1>1, <1>2, ReadsAfter
<1>5. ParseArgs(s) = IF Trim(end.current) = << >>
                     THEN end.args
                     ELSE Append(end.args, Trim(end.current))
  BY DEF ParseArgs
<1> HIDE DEF s
<1>6. Reads(ParseState, s, end)
  BY <1>3, FoldReads DEF s
<1> HIDE DEF end
<1>7. end = State(args, text, "none")
  BY <1>3, <1>4, <1>6, ReadsOnce DEF s
<1>8. Trim(end.current) = Forms[form] /\ end.args = args
  BY <1>2, <1>7 DEF State
<1>9. ParseArgs(s) = Append(args, Forms[form])
  BY <1>1, <1>5, <1>8
<1>10. QED
  BY <1>3, <1>9 DEF s

(***************************************************************************)
(* parse_args finds two arguments of any form.                             *)
(***************************************************************************)
LEMMA FormsTwo ==
  ASSUME NEW a \in DOMAIN Forms, NEW b \in DOMAIN Forms
  PROVE  /\ a \o <<",">> \o b \in Seq(Tokens)
         /\ ParseArgs(a \o <<",">> \o b) = <<Forms[a], Forms[b]>>
<1>1. ParseState = State(<< >>, << >>, "none")
  BY DEF ParseState, State
<1> DEFINE w == a \o <<",">>
           one == Append(<< >>, Forms[a])
<1>2. w \in Seq(Tokens) /\ Reads(ParseState, w, State(one, << >>, "none"))
  BY <1>1, FormAndComma
<1> HIDE DEF w, one
<1>3. w \o b \in Seq(Tokens) /\ ParseArgs(w \o b) = Append(one, Forms[b])
  BY <1>2, LastForm
<1>4. one = <<Forms[a]>>
  BY DEF one
<1>5. Append(one, Forms[b]) = <<Forms[a], Forms[b]>>
  BY <1>4, AppendOne
<1>6. QED
  BY <1>3, <1>5 DEF w

(***************************************************************************)
(* Appending to a sequence of two.                                         *)
(***************************************************************************)
LEMMA AppendTwo ==
  ASSUME NEW x, NEW y, NEW z
  PROVE  Append(<<x, y>>, z) = <<x, y, z>>
<1> DEFINE S == {x, y, z}
           pair == <<x, y>>
           s == Append(pair, z)
           t == <<x, y, z>>
<1>1. pair \in Seq(S) /\ Len(pair) = 2 /\ pair[1] = x /\ pair[2] = y
  OBVIOUS
<1>2. t \in Seq(S) /\ Len(t) = 3 /\ t[1] = x /\ t[2] = y /\ t[3] = z
  OBVIOUS
<1>3. z \in S
  OBVIOUS
<1> HIDE DEF S, pair, t
<1>4. /\ s \in Seq(S) /\ Len(s) = Len(pair) + 1
      /\ \A i \in 1 .. Len(pair) : s[i] = pair[i]
      /\ s[Len(pair) + 1] = z
  <2>1. pair \in Seq(S) /\ z \in S
    BY <1>1, <1>3
  <2>2. QED
    BY <2>1, AppendProperties
<1> HIDE DEF s
<1>5. Len(s) = 3 /\ s[1] = x /\ s[2] = y /\ s[3] = z
  BY <1>1, <1>4
<1>6. \A i \in 1 .. 3 : i = 1 \/ i = 2 \/ i = 3
  OBVIOUS
<1>7. s = t
  BY <1>2, <1>4, <1>5, <1>6, SeqEqual
<1>8. QED
  BY <1>7 DEF s, pair, t

(***************************************************************************)
(* parse_args finds three arguments of any form.                           *)
(***************************************************************************)
LEMMA FormsThree ==
  ASSUME NEW a \in DOMAIN Forms, NEW b \in DOMAIN Forms, NEW c \in DOMAIN Forms
  PROVE  /\ (a \o <<",">> \o b) \o <<",">> \o c \in Seq(Tokens)
         /\ ParseArgs((a \o <<",">> \o b) \o <<",">> \o c)
              = <<Forms[a], Forms[b], Forms[c]>>
<1>1. ParseState = State(<< >>, << >>, "none")
  BY DEF ParseState, State
<1> DEFINE comma == <<",">>
           v == a \o comma
           w == b \o comma
           one == Append(<< >>, Forms[a])
           two == Append(one, Forms[b])
<1>2. v \in Seq(Tokens) /\ Reads(ParseState, v, State(one, << >>, "none"))
  BY <1>1, FormAndComma
<1> HIDE DEF one
<1>3. /\ w \in Seq(Tokens)
      /\ Reads(State(one, << >>, "none"), w, State(two, << >>, "none"))
  BY FormAndComma
<1>4. b \in Seq(Tokens)
  BY FormRead
<1>5. comma \in Seq(Tokens)
  <2>1. "," \in Tokens
    BY DEF Tokens, Marks
  <2>2. ASSUME NEW token \in Tokens PROVE <<token>> \in Seq(Tokens)
    OBVIOUS
  <2>3. QED
    BY <2>1, <2>2
<1> HIDE DEF comma, two
<1>6. v \o w = (v \o b) \o comma
  <2> HIDE DEF v
  <2>1. w = b \o comma
    OBVIOUS
  <2> HIDE DEF w
  <2>2. v \in Seq(Tokens)
    BY <1>2
  <2>3. (v \o b) \o comma = v \o (b \o comma)
    BY <1>4, <1>5, <2>2, ConcatAssociative
  <2>4. QED
    BY <2>1, <2>3
<1> HIDE DEF v, w
<1>7. v \o w \in Seq(Tokens) /\ Reads(ParseState, v \o w, State(two, << >>, "none"))
  BY <1>2, <1>3, ConcatProperties, ReadsAfter
<1> DEFINE s == v \o w
<1>8. s \in Seq(Tokens) /\ Reads(ParseState, s, State(two, << >>, "none"))
  BY <1>7
<1> HIDE DEF s
<1>9. s \o c \in Seq(Tokens) /\ ParseArgs(s \o c) = Append(two, Forms[c])
  BY <1>8, LastForm
<1>10. Append(two, Forms[c]) = <<Forms[a], Forms[b], Forms[c]>>
  <2>1. one = <<Forms[a]>>
    BY DEF one
  <2>2. two = <<Forms[a], Forms[b]>>
    BY <2>1, AppendOne DEF two
  <2>3. QED
    BY <2>2, AppendTwo
<1>11. s = (a \o comma \o b) \o comma
  BY <1>6 DEF s, v
<1>12. QED
  BY <1>9, <1>10, <1>11 DEF comma

\* A text, a separator and one more text.
With(s, separator, t) == s \o separator \o t

(***************************************************************************)
(* Joining three texts.                                                    *)
(***************************************************************************)
LEMMA JoinedThree ==
  ASSUME NEW s, NEW t, NEW u, NEW separator
  PROVE  Joined(<<s, t, u>>, separator) = With(With(s, separator, t), separator, u)
<1> DEFINE rest == <<t, u>>
           Body(f, v) == IF v = {} THEN s
                         ELSE f[v \ {Max(v)}] \o separator \o rest[Max(v)]
           fold == CHOOSE f : f = [v \in SUBSET DOMAIN rest |-> Body(f, v)]
<1>1. <<s, t, u>> # << >> /\ Head(<<s, t, u>>) = s /\ Tail(<<s, t, u>>) = rest
  OBVIOUS
<1>2. Joined(<<s, t, u>>, separator) = fold[DOMAIN rest]
  <2> HIDE DEF rest
  <2>1. Joined(<<s, t, u>>, separator)
          = FoldLeft(LAMBDA x, arg : x \o separator \o arg, s, rest)
    BY <1>1 DEF Joined
  <2>2. QED
    BY <2>1 DEF FoldLeft, MapThenFoldSet
<1>3. DOMAIN rest = {1, 2} /\ rest[1] = t /\ rest[2] = u
  OBVIOUS
<1> HIDE DEF rest
<1>4. \A v \in SUBSET DOMAIN rest : v = {} \/ v = {1} \/ v = {2} \/ v = {1, 2}
  BY <1>3
<1>5. /\ Max({1}) = 1 /\ {1} \ {1} = {} /\ {1} # {}
      /\ Max({2}) = 2 /\ {2} \ {2} = {} /\ {2} # {}
      /\ Max({1, 2}) = 2 /\ {1, 2} \ {2} = {1} /\ {1, 2} # {}
  <2>1. Max({1}) = 1 /\ Max({2}) = 2
    BY DEF Max
  <2>2. Max({1, 2}) = 2
    BY DEF Max
  <2>3. QED
    BY <2>1, <2>2
<1> DEFINE first == s \o separator \o t
<1>6. \E f : f = [v \in SUBSET DOMAIN rest |-> Body(f, v)]
  <2> DEFINE f == [v \in SUBSET DOMAIN rest |->
                     IF v = {} THEN s
                     ELSE IF v = {1} THEN first
                     ELSE IF v = {2} THEN s \o separator \o u
                     ELSE first \o separator \o u]
  <2>1. f[{}] = s /\ f[{1}] = first
    BY <1>3, <1>5
  <2>2. ASSUME NEW v \in SUBSET DOMAIN rest PROVE f[v] = Body(f, v)
    <3>1. CASE v = {}
      BY <2>1, <3>1
    <3>2. CASE v = {1}
      BY <1>3, <1>5, <2>1, <3>2
    <3>3. CASE v = {2}
      <4>1. f[v] = s \o separator \o u
        BY <3>3
      <4> HIDE DEF f
      <4>2. QED
        BY <1>3, <1>5, <2>1, <3>3, <4>1
    <3>4. CASE v = {1, 2}
      <4>1. f[v] = first \o separator \o u
        <5>1. v # {} /\ v # {1} /\ v # {2}
          BY <3>4
        <5> HIDE DEF first
        <5>2. QED
          BY <5>1
      <4> HIDE DEF f, first
      <4>2. QED
        BY <1>3, <1>5, <2>1, <3>4, <4>1
    <3>5. QED
      BY <1>4, <3>1, <3>2, <3>3, <3>4
  <2>3. f = [v \in SUBSET DOMAIN rest |-> f[v]]
    OBVIOUS
  <2> HIDE DEF Body, f
  <2>4. f = [v \in SUBSET DOMAIN rest |-> Body(f, v)]
    BY <2>2, <2>3
  <2>5. QED
    BY <2>4
<1>7. fold = [v \in SUBSET DOMAIN rest |-> Body(fold, v)]
  <2> HIDE DEF Body
  <2>1. QED
    BY <1>6
<1> HIDE DEF fold
<1>8. fold[{}] = s
  BY <1>7
<1>9. fold[{1}] = first
  <2>1. fold[{1}] = Body(fold, {1})
    <3>1. {1} \in SUBSET DOMAIN rest
      BY <1>3
    <3> HIDE DEF Body
    <3>2. QED
      BY <1>7, <3>1
  <2>2. Body(fold, {1}) = fold[{}] \o separator \o rest[1]
    BY <1>5
  <2> HIDE DEF Body
  <2>3. QED
    BY <1>3, <1>8, <2>1, <2>2
<1>10. fold[{1, 2}] = first \o separator \o u
  <2> HIDE DEF first
  <2>1. fold[{1, 2}] = Body(fold, {1, 2})
    <3>1. {1, 2} \in SUBSET DOMAIN rest
      BY <1>3
    <3> HIDE DEF Body
    <3>2. QED
      BY <1>7, <3>1
  <2>2. Body(fold, {1, 2}) = fold[{1}] \o separator \o rest[2]
    BY <1>5
  <2> HIDE DEF Body
  <2>3. QED
    BY <1>3, <1>9, <2>1, <2>2
<1>11. QED
  BY <1>2, <1>3, <1>10 DEF With

(***************************************************************************)
(* A sequence of length three, spelt out.                                  *)
(***************************************************************************)
LEMMA OfLengthThree ==
  ASSUME NEW S, NEW s \in Seq(S), Len(s) = 3
  PROVE  s = <<s[1], s[2], s[3]>>
<1>1. s[1] \in S /\ s[2] \in S /\ s[3] \in S
  <2>1. 1 \in 1 .. Len(s) /\ 2 \in 1 .. Len(s) /\ 3 \in 1 .. Len(s)
    OBVIOUS
  <2>2. QED
    BY <2>1, ElementOfSeq
<1> DEFINE t == <<s[1], s[2], s[3]>>
<1>2. t \in Seq(S) /\ Len(t) = 3 /\ t[1] = s[1] /\ t[2] = s[2] /\ t[3] = s[3]
  BY <1>1
<1> HIDE DEF t
<1>3. \A i \in 1 .. 3 : i = 1 \/ i = 2 \/ i = 3
  OBVIOUS
<1>4. s = t
  BY <1>2, <1>3, SeqEqual
<1>5. QED
  BY <1>4 DEF t

\* What the arguments of a list stand for.
Meant(list) == [i \in DOMAIN list |-> Forms[list[i]]]

(***************************************************************************)
(* A function on one to two, spelt out.                                    *)
(***************************************************************************)
LEMMA SpeltTwo ==
  ASSUME NEW S, NEW f \in [1 .. 2 -> S]
  PROVE  f = <<f[1], f[2]>>
<1>1. f \in Seq(S) /\ Len(f) = 2
  BY FunctionIsSeq
<1>2. QED
  BY <1>1, OfLengthTwo

(***************************************************************************)
(* The same for a function on one to three.                                *)
(***************************************************************************)
LEMMA SpeltThree ==
  ASSUME NEW S, NEW f \in [1 .. 3 -> S]
  PROVE  f = <<f[1], f[2], f[3]>>
<1>1. f \in Seq(S) /\ Len(f) = 3
  BY FunctionIsSeq
<1>2. QED
  BY <1>1, OfLengthThree

(***************************************************************************)
(* A written call of two arguments is found with what they stand for.      *)
(***************************************************************************)
LEMMA WrittenTwo ==
  ASSUME NEW list \in [1 .. 2 -> DOMAIN Forms]
  PROVE  /\ CallName(Written("f", list)) = <<"f">>
         /\ CallArgs(Written("f", list)) = Meant(list)
<1> DEFINE a == list[1]
           b == list[2]
           J == a \o <<",">> \o b
           S == {Forms[form] : form \in DOMAIN Forms}
<1>1. a \in DOMAIN Forms /\ b \in DOMAIN Forms
  OBVIOUS
<1>2. list = <<a, b>>
  BY SpeltTwo
<1>3. Meant(list) = <<Forms[a], Forms[b]>>
  <2>1. Meant(list) \in [1 .. 2 -> S] /\ Meant(list)[1] = Forms[a]
        /\ Meant(list)[2] = Forms[b]
    BY DEF Meant
  <2> HIDE DEF S, a, b
  <2> DEFINE meant == Meant(list)
  <2>2. /\ meant \in [1 .. 2 -> S]
        /\ meant[1] = Forms[a] /\ meant[2] = Forms[b]
    BY <2>1
  <2> HIDE DEF meant
  <2>3. meant = <<meant[1], meant[2]>>
    BY <2>2, SpeltTwo
  <2>4. QED
    BY <2>2, <2>3 DEF meant
<1> HIDE DEF a, b
<1>4. J \in Seq(Tokens) /\ ParseArgs(J) = <<Forms[a], Forms[b]>>
  BY <1>1, FormsTwo
<1>5. Joined(list, <<",">>) = J
  BY <1>2, JoinedTwo
<1> HIDE DEF J
<1> DEFINE w == <<"f", "(">> \o J \o <<")">>
<1>6. CallName(w) = <<"f">> /\ CallArgs(w) = ParseArgs(J)
  BY <1>4, CallFound
<1>7. Written("f", list) = w
  BY <1>5 DEF Written
<1> HIDE DEF w
<1>8. QED
  BY <1>3, <1>4, <1>6, <1>7

(***************************************************************************)
(* A written call of three arguments is found with what they stand for.    *)
(***************************************************************************)
LEMMA WrittenThree ==
  ASSUME NEW list \in [1 .. 3 -> DOMAIN Forms]
  PROVE  /\ CallName(Written("f", list)) = <<"f">>
         /\ CallArgs(Written("f", list)) = Meant(list)
<1> DEFINE a == list[1]
           b == list[2]
           c == list[3]
           J == (a \o <<",">> \o b) \o <<",">> \o c
           S == {Forms[form] : form \in DOMAIN Forms}
<1>1. a \in DOMAIN Forms /\ b \in DOMAIN Forms /\ c \in DOMAIN Forms
  OBVIOUS
<1>2. list = <<a, b, c>>
  BY SpeltThree
<1>3. Meant(list) = <<Forms[a], Forms[b], Forms[c]>>
  <2>1. Meant(list) \in [1 .. 3 -> S] /\ Meant(list)[1] = Forms[a]
        /\ Meant(list)[2] = Forms[b] /\ Meant(list)[3] = Forms[c]
    BY DEF Meant
  <2> HIDE DEF S, a, b, c
  <2> DEFINE meant == Meant(list)
  <2>2. /\ meant \in [1 .. 3 -> S]
        /\ meant[1] = Forms[a] /\ meant[2] = Forms[b] /\ meant[3] = Forms[c]
    BY <2>1
  <2> HIDE DEF meant
  <2>3. meant = <<meant[1], meant[2], meant[3]>>
    BY <2>2, SpeltThree
  <2>4. QED
    BY <2>2, <2>3 DEF meant
<1> HIDE DEF a, b, c
<1>4. J \in Seq(Tokens) /\ ParseArgs(J) = <<Forms[a], Forms[b], Forms[c]>>
  BY <1>1, FormsThree
<1>5. Joined(list, <<",">>) = J
  <2> DEFINE comma == <<",">>
  <2>1. J = With(With(a, comma, b), comma, c)
    BY DEF With
  <2> HIDE DEF comma, J
  <2>2. Joined(<<a, b, c>>, comma) = With(With(a, comma, b), comma, c)
    BY JoinedThree
  <2>3. QED
    BY <1>2, <2>1, <2>2 DEF comma
<1> HIDE DEF J
<1> DEFINE w == <<"f", "(">> \o J \o <<")">>
<1>6. CallName(w) = <<"f">> /\ CallArgs(w) = ParseArgs(J)
  BY <1>4, CallFound
<1>7. Written("f", list) = w
  BY <1>5 DEF Written
<1> HIDE DEF w
<1>8. QED
  BY <1>3, <1>4, <1>6, <1>7

(***************************************************************************)
(* What a call whose arguments are told apart asks.                        *)
(***************************************************************************)
LEMMA ParseQuestions ==
  ASSUME Next, question'.kind = "arguments"
  PROVE  \E list \in [1 .. 2 -> DOMAIN Forms] \cup [1 .. 3 -> DOMAIN Forms] :
           /\ question' = [kind |-> "arguments", list |-> list]
           /\ answer' = [kind |-> "parsed", name |-> CallName(Written("f", list)),
                         args |-> CallArgs(Written("f", list))]
<1>1. CASE ParseCall
  BY <1>1 DEF ParseCall
<1>2. ~CallHost
  BY DEF CallHost
<1>3. ~SimulateCall
  <2>1. SimulateCall =>
          \E f \in DOMAIN Arguments : \E p \in Arguments[f] :
            question' = [kind |-> "simulated", name |-> f, params |-> p]
    BY Zenon DEF SimulateCall
  <2>2. QED
    BY <2>1
<1>4. ~SimulateText
  BY DEF SimulateText
<1>5. ~AskPath
  BY DEF AskPath
<1>6. ~AskUrl
  BY DEF AskUrl
<1>7. QED
  BY <1>1, <1>2, <1>3, <1>4, <1>5, <1>6 DEF Next

(***************************************************************************)
(* The arguments of a call are told apart, two or three of any form: with  *)
(* spaces around them, quoted commas and brackets, calls and lists of any  *)
(* depth in them.                                                          *)
(***************************************************************************)
THEOREM ArgumentsAreRecovered == Spec => []ArgumentsRecovered
<1>1. Init => ArgumentsRecovered
  BY DEF Init, Nothing, ArgumentsRecovered
<1>2. ArgumentsRecovered /\ [Next]_vars => ArgumentsRecovered'
  <2>1. ASSUME Next PROVE ArgumentsRecovered'
    <3> SUFFICES ASSUME question'.kind = "arguments"
                 PROVE  ArgumentsRecovered'
      BY DEF ArgumentsRecovered
    <3>1. PICK list \in [1 .. 2 -> DOMAIN Forms] \cup [1 .. 3 -> DOMAIN Forms] :
            /\ question' = [kind |-> "arguments", list |-> list]
            /\ answer' = [kind |-> "parsed", name |-> CallName(Written("f", list)),
                          args |-> CallArgs(Written("f", list))]
      BY <2>1, ParseQuestions
    <3>2. /\ CallName(Written("f", list)) = <<"f">>
          /\ CallArgs(Written("f", list)) = Meant(list)
      BY <3>1, WrittenTwo, WrittenThree
    <3>3. question'.list = list /\ answer'.name = <<"f">> /\ answer'.args = Meant(list)
      BY <3>1, <3>2
    <3>4. QED
      BY <3>3 DEF ArgumentsRecovered, Meant
  <2>2. CASE UNCHANGED vars
    BY <2>2 DEF vars, ArgumentsRecovered
  <2>3. QED
    BY <2>1, <2>2
<1>3. QED
  BY <1>1, <1>2, PTL DEF Spec

-----------------------------------------------------------------------------
(* Paths.                                                                  *)

(***************************************************************************)
(* A path starts with another if that one is its beginning.                *)
(***************************************************************************)
LEMMA PrefixIsSubSeq ==
  ASSUME NEW a \in Seq(STRING), NEW path \in Seq(STRING)
  PROVE  StartsWith(path, a) <=> Len(a) <= Len(path) /\ SubSeq(path, 1, Len(a)) = a
<1>1. SubSeq(a, 1, Len(a)) = a
  BY SubSeqFull
<1>2. QED
  BY <1>1 DEF StartsWith, IsPrefix

(***************************************************************************)
(* An allowed directory is at or above the path.                           *)
(***************************************************************************)
LEMMA OverridesBySubSeq ==
  ASSUME NEW allowed, allowed \subseteq Seq(STRING) \ {<< >>},
         NEW path \in Seq(STRING)
  PROVE  Overrides(allowed, path)
           <=> \E n \in 1 .. Len(path) : SubSeq(path, 1, n) \in allowed
<1>1. Len(path) \in Nat
  BY LenProperties
<1>2. ASSUME Overrides(allowed, path)
      PROVE  \E n \in 1 .. Len(path) : SubSeq(path, 1, n) \in allowed
  <2>1. PICK a \in allowed : StartsWith(path, a)
    BY <1>2 DEF Overrides
  <2>2. a \in Seq(STRING) /\ a # << >>
    OBVIOUS
  <2>3. Len(a) <= Len(path) /\ SubSeq(path, 1, Len(a)) = a
    BY <2>1, <2>2, PrefixIsSubSeq
  <2>4. Len(a) \in 1 .. Len(path)
    BY <1>1, <2>2, <2>3, EmptySeq
  <2>5. QED
    BY <2>3, <2>4
<1>3. ASSUME NEW n \in 1 .. Len(path), SubSeq(path, 1, n) \in allowed
      PROVE  Overrides(allowed, path)
  <2> DEFINE a == SubSeq(path, 1, n)
  <2>1. \A i \in 1 .. n : path[i] \in STRING
    BY <1>1, ElementOfSeq
  <2>2. a \in Seq(STRING) /\ Len(a) = n
    <3>1. n \in Int /\ 1 \in Int /\ 1 <= n
      BY <1>1
    <3>2. a \in Seq(STRING) /\ Len(a) = IF 1 <= n THEN n - 1 + 1 ELSE 0
      BY <2>1, <3>1, SubSeqProperties
    <3>3. QED
      BY <3>1, <3>2
  <2>3. StartsWith(path, a)
    <3>1. SubSeq(path, 1, Len(a)) = a
      BY <2>2
    <3> HIDE DEF a
    <3>2. Len(a) <= Len(path)
      BY <1>1, <2>2
    <3>3. QED
      BY <2>2, <3>1, <3>2, PrefixIsSubSeq
  <2>4. QED
    BY <1>3, <2>3 DEF Overrides
<1>4. QED
  BY <1>2, <1>3

(***************************************************************************)
(* Which directories is_path_allowed blocks never matters.                 *)
(***************************************************************************)
LEMMA BlockedDecideNothing ==
  ASSUME NEW allowed, NEW blocked, NEW path
  PROVE  IsPathAllowed(allowed, blocked, path)
           <=> path # Unresolved /\ Overrides(allowed, path)
BY DEF IsPathAllowed

(***************************************************************************)
(* is_path_allowed admits the allowed directories and what is below them,  *)
(* however many there are and wherever.                                    *)
(***************************************************************************)
THEOREM PathsStayBelow == Spec => []PathsBelowAllowed
<1>1. Init => PathsBelowAllowed
  BY DEF Init, Nothing, PathsBelowAllowed
<1>2. PathsBelowAllowed /\ [Next]_vars => PathsBelowAllowed'
  <2>1. ASSUME Next PROVE PathsBelowAllowed'
    <3> SUFFICES ASSUME question'.kind = "path" PROVE PathsBelowAllowed'
      BY DEF PathsBelowAllowed
    <3>1. PICK path \in Paths, allowed \in Allowed :
            /\ question' = [kind |-> "path", path |-> path, allowed |-> allowed]
            /\ answer'.allowed = IsPathAllowed(allowed, BlockedPaths, path)
      BY <2>1, Questions
    <3>2. path \in Seq(STRING) /\ allowed \subseteq Seq(STRING) \ {<< >>}
      BY PathsAssumption
    <3>3. Overrides(allowed, path)
            <=> \E n \in 1 .. Len(path) : SubSeq(path, 1, n) \in allowed
      BY <3>2, OverridesBySubSeq
    <3>4. path = Unresolved => ~\E n \in 1 .. Len(path) : TRUE
      BY EmptySeq DEF Unresolved
    <3>5. answer'.allowed <=> \E n \in 1 .. Len(path) : SubSeq(path, 1, n) \in allowed
      BY <3>1, <3>3, <3>4, BlockedDecideNothing
    <3>6. question'.path = path /\ question'.allowed = allowed
      BY <3>1
    <3>7. answer'.allowed \in BOOLEAN
      BY <3>1 DEF IsPathAllowed
    <3>8. QED
      BY <3>5, <3>6, <3>7 DEF PathsBelowAllowed
  <2>2. CASE UNCHANGED vars
    BY <2>2 DEF vars, PathsBelowAllowed
  <2>3. QED
    BY <2>1, <2>2
<1>3. QED
  BY <1>1, <1>2, PTL DEF Spec

-----------------------------------------------------------------------------
(* URLs.                                                                   *)

(***************************************************************************)
(* A host name backwards.                                                  *)
(***************************************************************************)
LEMMA ReverseSeq ==
  ASSUME NEW s \in Seq(STRING)
  PROVE  /\ Reverse(s) \in Seq(STRING) /\ Len(Reverse(s)) = Len(s)
         /\ \A i \in 1 .. Len(s) : Reverse(s)[i] = s[Len(s) - i + 1]
<1>1. Len(s) \in Nat
  BY LenProperties
<1>2. \A i \in 1 .. Len(s) : Len(s) - i + 1 \in 1 .. Len(s)
  BY <1>1
<1>3. \A i \in 1 .. Len(s) : s[Len(s) - i + 1] \in STRING
  BY <1>2, ElementOfSeq
<1>4. Reverse(s) \in [1 .. Len(s) -> STRING]
  BY <1>3 DEF Reverse
<1>5. Reverse(s) \in Seq(STRING)
  BY <1>1, <1>4
<1>6. DOMAIN Reverse(s) = 1 .. Len(s) /\ DOMAIN Reverse(s) = 1 .. Len(Reverse(s))
  BY <1>4, <1>5, LenProperties
<1>7. Len(Reverse(s)) = Len(s)
  BY <1>1, <1>5, <1>6, LenProperties
<1>8. QED
  BY <1>5, <1>7 DEF Reverse

(***************************************************************************)
(* A domain that matches d ends with the labels of d.                      *)
(***************************************************************************)
LEMMA MatchIsEnd ==
  ASSUME NEW d \in Seq(STRING), d # << >>, NEW host \in Seq(STRING),
         MatchesDomain(host, d)
  PROVE  \E n \in 1 .. Len(host) : SubSeq(host, n, Len(host)) = d
<1> DEFINE k == Len(d)
           l == Len(host)
<1>1. k \in Nat /\ k > 0 /\ l \in Nat
  BY EmptySeq, LenProperties
<1>2. CASE host = d
  <2>1. SubSeq(host, 1, l) = d
    BY <1>2, SubSeqFull
  <2>2. 1 \in 1 .. l
    BY <1>1, <1>2
  <2>3. QED
    BY <2>1, <2>2
<1>3. CASE IsSubdomain(host, d)
  <2> DEFINE m == l - k + 1
  <2>1. k < l /\ IsPrefix(Reverse(d), Reverse(host))
    BY <1>1, <1>3 DEF IsSubdomain, IsSuffix
  <2>2. m \in 1 .. l /\ l - m + 1 = k
    BY <1>1, <2>1
  <2>3. /\ Reverse(d) \in Seq(STRING) /\ Len(Reverse(d)) = k
        /\ \A i \in 1 .. k : Reverse(d)[i] = d[k - i + 1]
        /\ Reverse(host) \in Seq(STRING) /\ Len(Reverse(host)) = l
        /\ \A i \in 1 .. l : Reverse(host)[i] = host[l - i + 1]
    BY ReverseSeq
  <2> HIDE DEF k, l
  <2>4. /\ SubSeq(Reverse(d), 1, k) = Reverse(d)
        /\ SubSeq(Reverse(d), 1, k) = SubSeq(Reverse(host), 1, k)
    BY <2>1, <2>3, SubSeqFull DEF IsPrefix
  <2>5. \A i \in 1 .. k : Reverse(host)[i] \in STRING
    BY <1>1, <2>1, <2>3, ElementOfSeq
  <2>6. \A i \in 1 .. k : SubSeq(Reverse(host), 1, k)[i] = Reverse(host)[i]
    <3>1. \A i \in 1 .. k - 1 + 1 :
            SubSeq(Reverse(host), 1, k)[i] = Reverse(host)[1 + i - 1]
      BY <1>1, <2>5, SubSeqProperties
    <3>2. QED
      BY <1>1, <3>1
  <2>7. \A i \in 1 .. k : d[k - i + 1] = host[l - i + 1]
    BY <1>1, <2>1, <2>3, <2>4, <2>6, SMTT(20)
  <2>8. ASSUME NEW j \in 1 .. k PROVE d[j] = host[m + j - 1]
    <3>1. k - j + 1 \in 1 .. k /\ k - (k - j + 1) + 1 = j
      BY <1>1
    <3>2. l - (k - j + 1) + 1 = m + j - 1
      BY <1>1
    <3>3. QED
      BY <2>7, <3>1, <3>2
  <2>9. \A i \in m .. l : host[i] \in STRING
    BY <1>1, <2>2, ElementOfSeq DEF l
  <2>10. /\ SubSeq(host, m, l) \in Seq(STRING)
         /\ Len(SubSeq(host, m, l)) = k
         /\ \A j \in 1 .. k : SubSeq(host, m, l)[j] = host[m + j - 1]
    <3>1. m \in Int /\ l \in Int /\ m <= l
      BY <1>1, <2>2
    <3> HIDE DEF m
    <3>2. /\ SubSeq(host, m, l) \in Seq(STRING)
          /\ Len(SubSeq(host, m, l)) = IF m <= l THEN l - m + 1 ELSE 0
          /\ \A j \in 1 .. l - m + 1 : SubSeq(host, m, l)[j] = host[m + j - 1]
      BY <2>9, <3>1, SubSeqProperties
    <3>3. QED
      BY <2>2, <3>1, <3>2
  <2>11. SubSeq(host, m, l) = d
    <3> HIDE DEF m
    <3>1. QED
      BY <2>8, <2>10, SeqEqual DEF k
  <2>12. QED
    BY <2>2, <2>11 DEF l
<1>4. QED
  BY <1>2, <1>3 DEF MatchesDomain

(***************************************************************************)
(* What validate_network_request and NetworkPolicy.validate both admit is  *)
(* a request to a host, within the allowed domains if there are any.       *)
(***************************************************************************)
THEOREM RequestsAreInside == Spec => []RequestsStayInside
<1>1. Init => RequestsStayInside
  BY DEF Init, Nothing, RequestsStayInside
<1>2. RequestsStayInside /\ [Next]_vars => RequestsStayInside'
  <2>1. ASSUME Next PROVE RequestsStayInside'
    <3> SUFFICES ASSUME question'.kind = "url", answer'.allowed
                 PROVE  RequestsStayInside'
      BY DEF RequestsStayInside
    <3>1. PICK url \in Urls, method \in Methods, limits \in LimitSets :
            /\ question' = [kind |-> "url", url |-> url, method |-> method,
                            limits |-> limits]
            /\ answer'.allowed = /\ ValidateNetworkRequest(limits, url)
                                 /\ Validate(url, method)
      BY <2>1, Questions
    <3>2. ValidateNetworkRequest(limits, url) /\ Validate(url, method)
      BY <3>1
    <3>3. url.host \in Seq(STRING) /\ url.host # NoHost
      BY <3>2, UrlsAssumption DEF Validate
    <3>4. limits.allow_network /\ IsDomainAllowed(limits, url.host)
      BY <3>2, <3>3 DEF ValidateNetworkRequest
    <3>5. ASSUME limits.allowed_domains # {}
          PROVE  \E n \in 1 .. Len(url.host) :
                   SubSeq(url.host, n, Len(url.host)) \in limits.allowed_domains
      <4>1. PICK d \in limits.allowed_domains : MatchesDomain(url.host, d)
        BY <3>4, <3>5 DEF IsDomainAllowed
      <4>2. d \in Seq(STRING) /\ d # << >>
        BY UrlsAssumption
      <4>3. \E n \in 1 .. Len(url.host) : SubSeq(url.host, n, Len(url.host)) = d
        BY <3>3, <4>1, <4>2, MatchIsEnd
      <4>4. QED
        BY <4>1, <4>3
    <3>6. question'.limits = limits /\ question'.url = url
      BY <3>1
    <3>7. QED
      BY <3>3, <3>4, <3>5, <3>6 DEF RequestsStayInside
  <2>2. CASE UNCHANGED vars
    BY <2>2 DEF vars, RequestsStayInside
  <2>3. QED
    BY <2>1, <2>2
<1>3. QED
  BY <1>1, <1>2, PTL DEF Spec

=============================================================================
