--------------------------- MODULE MCFunctionCalls ---------------------------
(* An i32 of 9 bits and an i64 of 11; strings of up to 12 bytes. *)
EXTENDS FunctionCalls

MCNumerals ==
  [n \in {"-2", "-1", "0", "1", "2", "3", "4", "9", "25", "49", "91", "92", "93",
          "97", "255"} |->
    CASE n = "-2" -> -2 [] n = "-1" -> -1 [] n = "0" -> 0 [] n = "1" -> 1
      [] n = "2" -> 2 [] n = "3" -> 3 [] n = "4" -> 4 [] n = "9" -> 9
      [] n = "25" -> 25 [] n = "49" -> 49 [] n = "91" -> 91 [] n = "92" -> 92
      [] n = "93" -> 93 [] n = "97" -> 97 [] n = "255" -> 255]

\* The boundaries of an i32, of the string length and of zero.
Corners == {-256, -1, 0, 1, 2, 12, 13, 254, 255}
Few == {-1, 0, 7, 12, 13, 255}

MCArguments ==
  [add |-> Corners \X Corners,
   multiply |-> Corners \X Corners,
   string_length |-> {0} \X Corners,
   fibonacci |-> {<<n>> : n \in -2 .. 97},
   is_prime |-> {<<n>> : n \in -256 .. 255},
   string_compare |-> {0} \X Few \X {0} \X Few,
   string_concat |-> {0} \X Few \X {0} \X Few \X {0},
   get_timestamp |-> {<< >>},
   random_int |-> Corners \X Corners,
   check_memory_bounds |-> Corners \X Corners,
   get_max_string_length |-> {<< >>},
   get_chunk_size |-> {<< >>}]

MCLayouts == {<<<< >>, << >>>>, <<<<" ">>, <<" ">>>>, <<<<"\"">>, <<"\"">>>>}

\* A lone quote, a quoted one, a name, a call of nothing, unbalanced calls.
MCPrinted ==
  {<<"\"">>, <<"backtick">>, <<"'", "a", "'">>, <<"\"", "'">>, << >>, <<"x">>,
   <<"f", "(", ")">>, <<"f", "(", ")", ",", "a", ")">>, <<"random_int", "(", ")">>}

MCForms ==
  (<<"1">> :> <<"1">>)
    @@ (<<" ", "x", " ">> :> <<"x">>)
    @@ (<<"\"", "a", ",", ")", "\"">> :> <<"a", ",", ")">>)
    @@ (<<"'", "\"", "'">> :> <<"\"">>)
    @@ (<<"'", "(", "'", " ", "\"", ",", "\"">> :> <<"(", " ", ",">>)
    @@ (<<"g", "(", "1", ",", "x", ")">> :> <<"g", "(", "1", ",", "x", ")">>)
    @@ (<<"[", "1", ",", "[", "x", "]", "]">> :> <<"[", "1", ",", "[", "x", "]", "]">>)

MCMemorySizes == {0, 1, 12, 13, 255}

MCPaths ==
  {Unresolved, RootDir, <<"/", "srv">>, <<"/", "srv", "sandbox">>,
   <<"/", "srv", "sandbox", "x">>, <<"/", "srv", "sandbox2">>, <<"/", "etc">>,
   <<"/", "home", "sandbox", "x">>}
MCAllowed ==
  {{<<".", "sandbox">>}, {<<"/", "srv", "sandbox">>}, {<<"/", "home", "sandbox">>},
   {<<"/", "srv">>, <<"/", "etc">>}}

MCHosts == {<<"com">>, <<"ex", "com">>, <<"api", "ex", "com">>, <<"evil", "com">>}
MCUrls ==
  [scheme : {"http", "https"}, host : MCHosts, port : {NoPort, "22", "8080"}]
    \cup [scheme : {"file", "data"}, host : {NoHost}, port : {NoPort}]
    \cup [scheme : {"ftp"}, host : MCHosts, port : {NoPort}]
    \cup {Malformed}
MCMethods == {"GET", "DELETE"}
MCLimitSets ==
  {Limits(network, domains) :
     network \in BOOLEAN, domains \in {{}, {<<"ex", "com">>}}}

=============================================================================
