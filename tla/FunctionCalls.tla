---------------------------- MODULE FunctionCalls ----------------------------
(***************************************************************************)
(* Calls of the functions that keep no state: a guest calls the registry,  *)
(* a simulated program prints, a sandbox asks for a path or for a URL.     *)
(* One behaviour is one call and its outcome.                              *)
(***************************************************************************)
EXTENDS Simulation, SandboxPolicy

CONSTANTS
  Arguments,    \* i32 arguments of each registered function, as tuples
  Languages,    \* languages a simulated program is in
  Printed,      \* texts it prints, other than calls of these functions
  Layouts,      \* what may be written before and after an argument
  Forms,        \* argument texts, and the argument each stands for
  MemorySizes,  \* sizes of the guest's memory
  Paths,        \* canonical paths
  Allowed,      \* sets of allowed paths
  LimitSets,    \* network limits
  Urls, Methods \* requests

ASSUME ArgumentsAssumption ==
  /\ DOMAIN Arguments \subseteq DOMAIN Arity
  /\ \A f \in DOMAIN Arguments : \A p \in Arguments[f] :
       /\ p \in Seq(I32)
       /\ Len(p) = Arity[f]

\* Spaces, and a pair of quotes or none, around an argument.
ASSUME LayoutsAssumption ==
  \A layout \in Layouts :
    LET before == layout[1]
        after == layout[2]
    IN  /\ before \in Seq(Marks) /\ after \in Seq(Marks)
        /\ \E open \in 0 .. Len(before), close \in 0 .. Len(after) :
             /\ \A i \in DOMAIN before \ {open} : before[i] = " "
             /\ \A i \in DOMAIN after \ {close} : after[i] = " "
             /\ \/ open = 0 /\ close = 0
                \/ /\ open # 0 /\ close # 0
                   /\ before[open] \in {"\"", "'"} /\ after[close] = before[open]

\* The quoted texts that may be in a form: a quote and the next one like it.
Quotations(form) ==
  {q \in (DOMAIN form) \X (DOMAIN form) :
     /\ q[1] < q[2] /\ form[q[1]] \in {"\"", "'"} /\ form[q[2]] = form[q[1]]
     /\ \A i \in q[1] + 1 .. q[2] - 1 : form[i] # form[q[1]]}

Ends(quotations) == {q[1] : q \in quotations} \cup {q[2] : q \in quotations}

\* The positions of a form that are in none of its quotations.
Bare(form, quotations) ==
  {i \in DOMAIN form : \A q \in quotations : i < q[1] \/ q[2] < i}

\* How many bare characters of a class a form has up to one of its positions.
Count(form, quotations, class, i) ==
  Cardinality({k \in Bare(form, quotations) : k <= i /\ form[k] \in class})

\* A form without the characters at some of its positions.
Without(form, positions) ==
  LET text[i \in 0 .. Len(form)] ==
        IF i = 0 THEN << >>
        ELSE IF i \in positions THEN text[i - 1] ELSE Append(text[i - 1], form[i])
  IN  text[Len(form)]

\* A form has quotations that are apart from each other, and every quote is in
\* one.  Outside of them a comma is where brackets are open, and every bracket
\* is closed in the end.  The form stands for what it shows without the quotes.
ASSUME FormsAssumption ==
  \A form \in DOMAIN Forms :
    /\ form \in Seq(STRING)
    /\ \E quotations \in SUBSET Quotations(form) :
         LET Opened(i) == Count(form, quotations, {"(", "["}, i)
             Closed(i) == Count(form, quotations, {")", "]"}, i)
         IN  /\ \A q, r \in quotations : q = r \/ q[2] < r[1] \/ r[2] < q[1]
             /\ \A i \in Bare(form, quotations) :
                  /\ form[i] \notin {"\"", "'"}
                  /\ form[i] = "," => Opened(i) # Closed(i)
             /\ Opened(Len(form)) = Closed(Len(form))
             /\ Forms[form] = Trim(Without(form, Ends(quotations)))
             /\ Forms[form] # << >>

\* Less than half of what 32 bits address.
ASSUME MemorySizesAssumption == MemorySizes \subseteq 0 .. I32Half - 1

\* No allowed path is empty, which every path would start with.
ASSUME PathsAssumption ==
  /\ Paths \subseteq Seq(STRING)
  /\ \A allowed \in Allowed : allowed \subseteq Seq(STRING) \ {<< >>}

\* What the url crate makes sure of, and domains that are not empty.
ASSUME UrlsAssumption ==
  /\ \A url \in Urls :
       /\ url.host \in Seq(STRING)
       /\ url.scheme \in AllowedSchemes => url.host # NoHost
  /\ \A limits \in LimitSets :
       limits.allowed_domains \subseteq Seq(STRING) \ {<< >>}

VARIABLES question, answer

vars == <<question, answer>>

Nothing == [kind |-> "none"]

Init == question = Nothing /\ answer = Nothing

\* A guest calls a function; the closure of create_wasm_functions copies its
\* results, or returns its trap.
CallHost ==
  /\ question = Nothing
  /\ \E f \in DOMAIN Arguments : \E p \in Arguments[f] :
       /\ question' = [kind |-> "host", name |-> f, params |-> p]
       /\ answer' \in HostCall(f, p)

\* The numerals of NumberOf, as i32 or i64 numbers.
Numeral(n) == CHOOSE numeral \in DOMAIN NumberOf : NumberOf[numeral] = n

\* A call as a program may write it down.
Written(f, args) == <<f, "(">> \o Joined(args, <<",">>) \o <<")">>

\* A simulated program prints what a call returns.
SimulateCall ==
  /\ question = Nothing
  /\ \E language \in Languages, layout \in Layouts :
     \E f \in DOMAIN Arguments : \E p \in Arguments[f] :
       /\ \A i \in DOMAIN p : \E numeral \in DOMAIN NumberOf : NumberOf[numeral] = p[i]
       /\ question' = [kind |-> "simulated", name |-> f, params |-> p]
       /\ answer' \in
            Simulate(language,
              Written(f, [i \in DOMAIN p |->
                            layout[1] \o <<Numeral(p[i])>> \o layout[2]]))

\* A simulated program prints anything else.
SimulateText ==
  /\ question = Nothing
  /\ \E language \in Languages, s \in Printed :
       /\ question' = [kind |-> "text", language |-> language, text |-> s]
       /\ answer' \in Simulate(language, s)

\* The arguments of a call are told apart, two or three of any form.
ParseCall ==
  /\ question = Nothing
  /\ \E list \in [1 .. 2 -> DOMAIN Forms] \cup [1 .. 3 -> DOMAIN Forms] :
       /\ question' = [kind |-> "arguments", list |-> list]
       /\ answer' = [kind |-> "parsed", name |-> CallName(Written("f", list)),
                     args |-> CallArgs(Written("f", list))]

AskPath ==
  /\ question = Nothing
  /\ \E path \in Paths, allowed \in Allowed :
       /\ question' = [kind |-> "path", path |-> path, allowed |-> allowed]
       /\ answer' = [kind |-> "policy",
                     allowed |-> IsPathAllowed(allowed, BlockedPaths, path)]

AskUrl ==
  /\ question = Nothing
  /\ \E url \in Urls, method \in Methods, limits \in LimitSets :
       /\ question' = [kind |-> "url", url |-> url, method |-> method,
                       limits |-> limits]
       /\ answer' = [kind |-> "policy",
                     allowed |-> /\ ValidateNetworkRequest(limits, url)
                                 /\ Validate(url, method)]

Next ==
  CallHost \/ SimulateCall \/ SimulateText \/ ParseCall \/ AskPath \/ AskUrl

Spec == Init /\ [][Next]_vars

-----------------------------------------------------------------------------

HostAnswer(f) == question.kind = "host" /\ question.name = f

\* The numbers of Fibonacci up to index n, each the sum of the two before it.
FirstFibs[n \in 1 .. 94] ==
  IF n = 1
  THEN <<ToLimbs(0), ToLimbs(1)>>
  ELSE LET before == FirstFibs[n - 1]
       IN  Append(before, Plus(before[n - 1], before[n]))
Fib(n) == FirstFibs[94][n + 1]

(***************************************************************************)
(* What fibonacci returns is the number of that index, and every index     *)
(* whose number fits an i64 is answered.  The one index it accepts beyond, *)
(* 93, never yields its number.                                            *)
(***************************************************************************)
FibonacciExact ==
  HostAnswer("fibonacci") =>
    LET n == question.params[1]
    IN  /\ n \in 0 .. 92 => answer = Value(Fib(n))
        /\ n \notin 0 .. 93 => answer = Trap
        /\ n = 93 => answer \in {Panic, Value(Garbled)}

(***************************************************************************)
(* random_int stays between its bounds, and every number between them can  *)
(* come out, unless the bounds are so far apart that the size of the range *)
(* is no i32.                                                              *)
(***************************************************************************)
RandomWithinRange ==
  HostAnswer("random_int") =>
    LET min == question.params[1]
        max == question.params[2]
    IN  /\ min > max => answer = Trap
        /\ min <= max /\ max - min < I32Half - 1 =>
             /\ answer.kind = "value"
             /\ answer.value \in min .. max
             /\ HostCall("random_int", <<min, max>>) = {Value(v) : v \in min .. max}

(***************************************************************************)
(* Trial division up to the rounded root, by odd numbers only, finds the   *)
(* primes.                                                                 *)
(***************************************************************************)
PrimesAsDefined ==
  HostAnswer("is_prime") =>
    LET n == question.params[1]
    IN  answer = Value(IF n > 1 /\ \A d \in 2 .. n - 1 : n % d # 0 THEN 1 ELSE 0)

Memory == INSTANCE GuestMemory WITH Base <- 256, MaxString <- MaxLength

\* A guest's i32 as the u32 address or length it stands for.
Unsigned(x) == x % (2 * I32Half)

(***************************************************************************)
(* A range that check_memory_bounds calls invalid cannot be read by        *)
(* read_memory_safe in any memory of less than 2^31 bytes, so a guest that  *)
(* asks first loses nothing.  A range it calls valid may still trap.       *)
(***************************************************************************)
RefusedRangesUnreadable ==
  HostAnswer("check_memory_bounds") /\ answer = Value(0) =>
    \A size \in MemorySizes :
      ~Memory!Readable(size, Unsigned(question.params[1]),
                       Unsigned(question.params[2]))

\* The functions that evaluate_host_function evaluates, clock apart.
Simulated == {"add", "multiply", "fibonacci", "is_prime", "random_int"}

(***************************************************************************)
(* A program that calls a host function gets from the simulation what the  *)
(* registry would have answered, wherever the registry can only answer     *)
(* with a value: the simulation computes in i64, loops differently and     *)
(* finds its arguments in text.  It says true and false for 1 and 0, and   *)
(* with overflow checks fails for fibonacci(92), whose successor it        *)
(* computes as well.                                                       *)
(***************************************************************************)
SimulationAgrees ==
  question.kind = "simulated" /\ question.name \in Simulated =>
    LET registered == HostCall(question.name, question.params)
    IN  (\A outcome \in registered : outcome.kind = "value") =>
          CASE question.name = "is_prime" ->
                 answer = Value(IF Value(1) \in registered THEN "true" ELSE "false")
            [] question.name = "fibonacci" /\ question.params = <<92>> ->
                 answer \in registered \cup {Panic}
            [] OTHER -> answer \in registered

(***************************************************************************)
(* The arguments of a call are found whatever they look like: spaces       *)
(* around them, quoted commas and brackets, calls and lists in them.       *)
(***************************************************************************)
ArgumentsRecovered ==
  question.kind = "arguments" =>
    /\ answer.name = <<"f">>
    /\ answer.args = [i \in DOMAIN question.list |-> Forms[question.list[i]]]

(***************************************************************************)
(* A path is allowed exactly if it is an allowed directory or below one:   *)
(* the blocked directories, of which "/" is one, decide nothing.           *)
(***************************************************************************)
PathsBelowAllowed ==
  question.kind = "path" =>
    answer.allowed =
      \E n \in 1 .. Len(question.path) :
        SubSeq(question.path, 1, n) \in question.allowed

(***************************************************************************)
(* A request that validate_network_request and NetworkPolicy.validate both *)
(* admit has a host, and with a list of domains a host within one of them. *)
(* Neither check alone ensures it: the first lets URLs without a host      *)
(* pass, and it takes the second to know that http URLs have one.          *)
(***************************************************************************)
RequestsStayInside ==
  question.kind = "url" /\ answer.allowed =>
    /\ question.limits.allow_network
    /\ question.url.host # NoHost
    /\ question.limits.allowed_domains # {} =>
         \E n \in 1 .. Len(question.url.host) :
           SubSeq(question.url.host, n, Len(question.url.host))
             \in question.limits.allowed_domains

=============================================================================
