--------------------------- MODULE MCWasmRuntime ---------------------------
EXTENDS WasmRuntime, TLC

\* Programs that print, import, define functions, or do nothing of the kind.
MCPrograms ==
  {{}, {"print("}, {"import ", "console.log"}, {"puts ", "end\n"},
   {"function ", "=>"}}

\* A Ruby program that prints.
MCRubyPrograms == {{"puts "}}

Interchangeable == Permutations(Requests)

=============================================================================
