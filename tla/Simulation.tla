------------------------------ MODULE Simulation ------------------------------
(***************************************************************************)
(* What stands in for an interpreter that is not installed                 *)
(* (src/src/wasm_runtime.rs, simulate_* to evaluate_host_function): the    *)
(* lines that print are found, and what they print is a quoted text, a     *)
(* call of a host function that is evaluated on the spot, or is echoed.    *)
(*                                                                         *)
(* Text is a sequence of tokens: words, numerals and single characters.    *)
(* Integers are i64 here, wider than the i32 of the registry.              *)
(***************************************************************************)
EXTENDS HostFunctions

CONSTANTS
  I64Half,   \* 2^63
  NumberOf   \* the numerals, and the number each stands for

ASSUME I64Assumption == I64Half \in Nat /\ I64Half >= 2 * I32Half

\* Characters that parse_function_call and parse_args look for.
Marks == {" ", ",", "(", ")", "[", "]", "\"", "'"}

ASSUME NumeralsAssumption ==
  /\ DOMAIN NumberOf \cap Marks = {}
  /\ \A numeral \in DOMAIN NumberOf : NumberOf[numeral] \in Int

I64 == -I64Half .. I64Half - 1
Wrapped64(x) == ((x + I64Half) % (2 * I64Half)) - I64Half
Arithmetic64(x) == IF x \in I64 THEN {Value(x)} ELSE {Panic, Value(Wrapped64(x))}
Abs(x) == IF x < 0 THEN -x ELSE x

Text(tokens) == [kind |-> "text", tokens |-> tokens]
Endless == [kind |-> "endless"]

-----------------------------------------------------------------------------
(* parse_function_call and parse_args.                                     *)

Trim(s) ==
  LET solid == {i \in DOMAIN s : s[i] # " "}
  IN  IF solid = {} THEN << >> ELSE SubSeq(s, Min(solid), Max(solid))

ParseState == [args |-> << >>, current |-> << >>, quote |-> "none", depth |-> 0]

Push(state, c) == [state EXCEPT !.current = Append(@, c)]

\* Mutant of ParseToken: every comma separates.
ParseTokenFlat(state, c) ==
  IF state.quote # "none"
  THEN IF c = state.quote THEN [state EXCEPT !.quote = "none"] ELSE Push(state, c)
  ELSE CASE c \in {"\"", "'"} -> [state EXCEPT !.quote = c]
         [] c = "," -> [state EXCEPT !.args = Append(@, Trim(state.current)),
                                     !.current = << >>]
         [] OTHER -> Push(state, c)

\* One turn of the loop of parse_args.
ParseToken(state, c) ==
  IF state.quote # "none"
  THEN IF c = state.quote THEN [state EXCEPT !.quote = "none"] ELSE Push(state, c)
  ELSE CASE c \in {"\"", "'"} -> [state EXCEPT !.quote = c]
         [] c \in {"(", "["} -> [Push(state, c) EXCEPT !.depth = @ + 1]
         [] c \in {")", "]"} -> [Push(state, c) EXCEPT !.depth = @ - 1]
         [] c = "," /\ state.depth = 0 ->
              [state EXCEPT !.args = Append(@, Trim(state.current)),
                            !.current = << >>]
         [] OTHER -> Push(state, c)

\* An empty last argument is dropped, an empty one before a comma is not.
ParseArgs(s) ==
  LET end == FoldLeft(ParseToken, ParseState, s)
  IN  IF Trim(end.current) = << >>
      THEN end.args
      ELSE Append(end.args, Trim(end.current))

IsCall(s) ==
  LET e == Trim(s)
  IN  e # << >> /\ Last(e) = ")" /\ \E i \in DOMAIN e : e[i] = "("

FirstParen(e) == Min({i \in DOMAIN e : e[i] = "("})

CallName(s) == LET e == Trim(s) IN Trim(SubSeq(e, 1, FirstParen(e) - 1))

CallArgs(s) ==
  LET e == Trim(s) IN ParseArgs(SubSeq(e, FirstParen(e) + 1, Len(e) - 1))

-----------------------------------------------------------------------------
(* evaluate_host_function.                                                 *)

IsNumeral(arg) == Len(arg) = 1 /\ arg[1] \in DOMAIN NumberOf

\* Arguments that are no numbers are left out, and the others move up.
Numbers(args) ==
  FoldLeft(LAMBDA p, arg : IF IsNumeral(arg) THEN Append(p, NumberOf[arg[1]]) ELSE p,
           << >>, args)

\* The loop computes one number more than it returns.  A negative index is a
\* huge usize, and a large one is as good as endless too.
FibonacciSimulated(n) ==
  CASE n < 0 -> {Panic, Endless}
    [] n \in 0 .. 91 -> {Value(Turns[n + 2].a)}
    [] n = 92 -> {Panic, Value(Turns[n + 2].a)}
    [] n > 92 -> {Panic, Value(Garbled), Endless}

\* Mutant of Divisors: the root itself is left out.
DivisorsBelowRoot(n) == 2 .. Root(n) - 1

\* 2..=sqrt(n)
Divisors(n) == 2 .. Root(n)

IsPrimeSimulated(n) ==
  {Value(IF n > 1 /\ \A i \in Divisors(n) : n % i # 0 THEN "true" ELSE "false")}

\* The remainder of two integers has the sign of the first.
Remainder(a, b) == IF a >= 0 THEN a % Abs(b) ELSE -((-a) % Abs(b))

\* Where max - min, the range or a sum with it overflows: a division by a range
\* that has wrapped around to 0, or what is left of a clock reading, which is
\* not negative.
RandomWrapped(min, max) ==
  LET range == Wrapped64(max - min + 1)
      Drawn(rest) == Remainder(Wrapped64(rest + range), range) + min
  IN  {Panic} \cup {Value(Wrapped64(Drawn(rest))) : rest \in 0 .. Abs(range) - 1}

\* With min above max the result is above max, and with min = max + 1 it is a
\* division by 0.
RandomSimulated(min, max) ==
  LET range == max - min + 1
      Overflows == {max - min, range} \ I64 # {} \/ 2 * range > I64Half
  IN  CASE Overflows -> RandomWrapped(min, max)
        [] ~Overflows /\ range > 0 -> {Value(v) : v \in min .. max}
        [] ~Overflows /\ range = 0 -> {Panic}
        [] ~Overflows /\ range < 0 -> {Value(v) : v \in max + 2 .. min}

Joined(args, separator) ==
  IF args = << >>
  THEN << >>
  ELSE FoldLeft(LAMBDA s, arg : s \o separator \o arg, Head(args), Tail(args))

Evaluate(name, args) ==
  LET p == Numbers(args)
  IN  CASE name = <<"add">> /\ Len(p) >= 2 -> Arithmetic64(p[1] + p[2])
        [] name = <<"multiply">> /\ Len(p) >= 2 -> Arithmetic64(p[1] * p[2])
        [] name = <<"fibonacci">> /\ Len(p) >= 1 -> FibonacciSimulated(p[1])
        [] name = <<"is_prime">> /\ Len(p) >= 1 -> IsPrimeSimulated(p[1])
        [] name = <<"get_timestamp">> -> GetTimestamp
        [] name = <<"random_int">> /\ Len(p) >= 2 -> RandomSimulated(p[1], p[2])
        [] OTHER -> {Text(name \o <<"(">> \o Joined(args, <<",", " ">>) \o <<")">>)}

-----------------------------------------------------------------------------
(* simulate_python, simulate_javascript, simulate_ruby.                    *)

QuotesOf(language) ==
  IF language = "javascript" THEN {"\"", "'", "backtick"} ELSE {"\"", "'"}

IsQuoted(language, s) ==
  s # << >> /\ Head(s) \in QuotesOf(language) /\ Last(s) = Head(s)

\* What a line prints whose argument is s.  A single quote is its own closing
\* quote, and the text between is sliced from 1 to 0.
Simulate(language, s) ==
  CASE IsQuoted(language, s) /\ Len(s) = 1 -> {Panic}
    [] IsQuoted(language, s) /\ Len(s) > 1 -> {Text(SubSeq(s, 2, Len(s) - 1))}
    [] ~IsQuoted(language, s) /\ IsCall(s) -> Evaluate(CallName(s), CallArgs(s))
    [] OTHER -> {Text(s)}

=============================================================================
