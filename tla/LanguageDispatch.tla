-------------------------- MODULE LanguageDispatch --------------------------
(***************************************************************************)
(* Which interpreter runs a program (src/src/wasm_runtime.rs): the language*)
(* of the request chooses a wrapper that is put before the program, and    *)
(* the text of both, not the request, then chooses the interpreter.        *)
(*                                                                         *)
(* A text is what the code looks for in it: the patterns it contains, those*)
(* of its first line, and whether it ends with "end".                      *)
(***************************************************************************)
EXTENDS Naturals, FiniteSets

Languages == {"python", "javascript", "ruby"}

\* Patterns of run_native_interpreter and of detect_language.
PythonPatterns ==
  {"print(", "def ", "import ", "class ", "elif ", "try:", "except "}
JavaScriptPatterns ==
  {"console.log", "function ", "=>", "const ", "let ", "var ", "typeof "}
RubyPatterns ==
  {"puts ", "def ", "end\n", "require ", "attr_", "||=", ".each do"}
Patterns == PythonPatterns \cup JavaScriptPatterns \cup RubyPatterns

CodeText ==
  [contains : SUBSET Patterns, first_line : SUBSET Patterns, ends_with_end : BOOLEAN]

\* The bridge that wrap_code_with_host_functions puts before a program.  Its
\* error message has "function " in each language, and Ruby rescues with =>.
BridgePatterns(language) ==
  CASE language = "python" ->
         {"import ", "def ", "class ", "elif ", "try:", "except ", "function "}
    [] language = "javascript" -> {"function ", "const ", "let "}
    [] language = "ruby" -> {"require ", "def ", "function ", "=>", "end\n"}

\* get_callable_exports: two constants, and a definition per function.
ExportPatterns(language) ==
  CASE language = "python" -> {"def "}
    [] language = "javascript" -> {"const ", "function "}
    [] language = "ruby" -> {"def ", "end\n"}

WrapperPatterns(language) == BridgePatterns(language) \cup ExportPatterns(language)

\* The wrapper begins, and every wrapped program ends, with a line break.
WrapCode(language, patterns) ==
  [contains |-> WrapperPatterns(language) \cup patterns,
   first_line |-> {},
   ends_with_end |-> FALSE]

Score(text, patterns) == Cardinality(text.contains \cap patterns)

\* detect_language: the scores are the entries of a hash map, so any language
\* of the highest score may come out.
DetectLanguage(text) ==
  LET score ==
        [l \in Languages |->
           CASE l = "python" -> Score(text, PythonPatterns)
             [] l = "javascript" -> Score(text, JavaScriptPatterns)
             [] l = "ruby" -> Score(text, RubyPatterns)]
  IN  {l \in Languages : \A m \in Languages : score[m] <= score[l]}

LooksLikePython(text) ==
  "def " \in text.first_line \/ "import " \in text.contains \/ "print(" \in text.contains

LooksLikeJavaScript(text) ==
  {"function ", "console.log", "=>"} \cap text.contains # {}

LooksLikeRuby(text) ==
  {"def ", "puts "} \cap text.contains # {} \/ text.ends_with_end

\* Mutant of Interpreters: JavaScript is looked for first.
JavaScriptFirst(text) ==
  IF LooksLikeJavaScript(text) THEN {"javascript"}
  ELSE IF LooksLikePython(text) THEN {"python"}
  ELSE IF LooksLikeRuby(text) THEN {"ruby"}
  ELSE DetectLanguage(text)

\* The interpreters run_native_interpreter may start.
Interpreters(text) ==
  IF LooksLikePython(text) THEN {"python"}
  ELSE IF LooksLikeJavaScript(text) THEN {"javascript"}
  ELSE IF LooksLikeRuby(text) THEN {"ruby"}
  ELSE DetectLanguage(text)

=============================================================================
