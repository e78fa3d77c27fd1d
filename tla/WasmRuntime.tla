----------------------------- MODULE WasmRuntime -----------------------------
(***************************************************************************)
(* The runtime manager of src/src/wasm_runtime.rs apart from files and     *)
(* cache: compiled modules and their warm-up, the registry of host         *)
(* functions, and the jobs that hold a module and a share of the registry. *)
(*                                                                         *)
(* The manager is behind a mutex, which an execution holds as long as its  *)
(* handler waits.  A job outlives a handler that has timed out or has been *)
(* dropped, and with it its share of the registry, which can only be       *)
(* changed while nobody else has one.                                      *)
(***************************************************************************)
EXTENDS LanguageDispatch, Sequences

CONSTANTS
  Requests,    \* executions that ever start
  Nobody,      \* the holder of a free mutex
  Defaults,    \* names of the default host functions, which every stub imports
  Others,      \* other names
  Programs,    \* sets of patterns a program may contain
  Installed    \* languages whose interpreter can be started

ASSUME NobodyAssumption == Nobody \notin Requests
ASSUME NamesAssumption == Defaults \cap Others = {}
ASSUME ProgramsAssumption == Programs \subseteq SUBSET Patterns
ASSUME InstalledAssumption == Installed \subseteq Languages

VARIABLES
  startup,     \* "loading", "serving" or "exited"
  preloaded,   \* how many languages preload_all has loaded
  modules,     \* languages with a compiled module
  sizes,       \* languages with a recorded module size
  prewarmed,   \* is_prewarmed of the warm-up state
  stats,       \* preloaded_languages of its statistics
  registry,    \* signature of each registered function
  registered,  \* outcome of the last register_host_function
  holder,      \* who has the manager locked
  pc,          \* where each execution is
  request,     \* language and patterns of its program
  job          \* its blocking job

moduleVars == <<preloaded, modules, sizes, prewarmed, stats>>
registryVars == <<registry, registered>>
executionVars == <<holder, pc, request, job>>
vars == <<startup, moduleVars, registryVars, executionVars>>

Order == <<"python", "javascript", "ruby">>
Signatures == {"default", "different"}
Names == Defaults \cup Others

NoRequest == [language |-> "none", patterns |-> {}]
Registry == UNION {[names -> Signatures] : names \in SUBSET Names}
NoRegistry == [f \in {} |-> "default"]
NoJob == [state |-> "none", registry |-> NoRegistry, ran |-> "nothing"]

Live == {"queued", "running"}
Over == {"unlinked", "output", "simulated", "panicked"}
LiveJobs == {r \in Requests : job[r].state \in Live}

-----------------------------------------------------------------------------

\* main loads all modules before it serves; the tests serve at once.
Init ==
  /\ startup \in {"loading", "serving"}
  /\ preloaded = 0
  /\ modules = {}
  /\ sizes = {}
  /\ prewarmed = FALSE
  /\ stats = {}
  /\ registry = [f \in Defaults |-> "default"]
  /\ registered = "none"
  /\ holder = Nobody
  /\ pc = [r \in Requests |-> "idle"]
  /\ request = [r \in Requests |-> NoRequest]
  /\ job = [r \in Requests |-> NoJob]

\* get_or_load of a language that is compiled, or compiles.
GetOrLoad(language) ==
  /\ modules' = modules \cup {language}
  /\ sizes' = sizes \cup (IF language \in modules THEN {} ELSE {language})

\* One turn of preload_all.
Preload ==
  /\ startup = "loading"
  /\ preloaded < Len(Order)
  /\ GetOrLoad(Order[preloaded + 1])
  /\ preloaded' = preloaded + 1
  /\ UNCHANGED <<startup, prewarmed, stats, registryVars, executionVars>>

\* Mutant of FailPreload: the language is left out and the next one loaded.
SkipPreload ==
  /\ startup = "loading"
  /\ preloaded < Len(Order)
  /\ preloaded' = preloaded + 1
  /\ UNCHANGED <<startup, modules, sizes, prewarmed, stats, registryVars,
                 executionVars>>

\* A module does not compile: main returns the error.
FailPreload ==
  /\ startup = "loading"
  /\ preloaded < Len(Order)
  /\ startup' = "exited"
  /\ UNCHANGED <<moduleVars, registryVars, executionVars>>

\* Mutant of FinishPreload: the first module will do.
FinishEarly ==
  /\ startup = "loading"
  /\ preloaded > 0
  /\ prewarmed' = TRUE
  /\ stats' = {Order[i] : i \in 1 .. preloaded}
  /\ startup' = "serving"
  /\ UNCHANGED <<preloaded, modules, sizes, registryVars, executionVars>>

\* preload_all_modules returns, and main goes on to serve.
FinishPreload ==
  /\ startup = "loading"
  /\ preloaded = Len(Order)
  /\ prewarmed' = TRUE
  /\ stats' = {Order[i] : i \in 1 .. preloaded}
  /\ startup' = "serving"
  /\ UNCHANGED <<preloaded, modules, sizes, registryVars, executionVars>>

-----------------------------------------------------------------------------

\* Mutant of Lock: the guard is dropped before the execution.
LockBriefly(r) == UNCHANGED holder

\* runtime_manager.lock().await, whose guard lives as long as the handler.
Lock(r) == holder' = r

\* An execution locks the manager; its module is at hand or compiles, and a
\* job is spawned with a clone of the module and of the Arc of the registry.
Execute(r) ==
  /\ startup = "serving"
  /\ holder = Nobody
  /\ pc[r] = "idle"
  /\ \E language \in Languages, patterns \in Programs :
       /\ request' = [request EXCEPT
                        ![r] = [language |-> language, patterns |-> patterns]]
       /\ GetOrLoad(language)
  /\ job' = [job EXCEPT ![r] = [state |-> "queued", registry |-> registry,
                                ran |-> "nothing"]]
  /\ Lock(r)
  /\ pc' = [pc EXCEPT ![r] = "executing"]
  /\ UNCHANGED <<startup, preloaded, prewarmed, stats, registryVars>>

\* The module does not compile: the execution fails without a job.
FailExecute(r) ==
  /\ startup = "serving"
  /\ holder = Nobody
  /\ pc[r] = "idle"
  /\ \E language \in Languages \ modules, patterns \in Programs :
       request' = [request EXCEPT
                     ![r] = [language |-> language, patterns |-> patterns]]
  /\ pc' = [pc EXCEPT ![r] = "ended"]
  /\ UNCHANGED <<startup, moduleVars, registryVars, holder, job>>

\* execute_in_wasm links the stub with create_wasm_functions: each import
\* needs a function of its name and signature.
Links(functions) ==
  \A f \in Defaults : f \in DOMAIN functions /\ functions[f] = "default"

\* The stub is instantiated, and the text chooses the interpreter.
StartJob(r) ==
  /\ job[r].state = "queued"
  /\ Links(job[r].registry)
  /\ \E language \in
          Interpreters(WrapCode(request[r].language, request[r].patterns)) :
       job' = [job EXCEPT ![r].state = "running", ![r].ran = language]
  /\ UNCHANGED <<startup, moduleVars, registryVars, holder, pc, request>>

FailJob(r) ==
  /\ job[r].state = "queued"
  /\ ~Links(job[r].registry)
  /\ job' = [job EXCEPT ![r] = [@ EXCEPT !.state = "unlinked",
                                         !.registry = NoRegistry]]
  /\ UNCHANGED <<startup, moduleVars, registryVars, holder, pc, request>>

\* The interpreter, or what simulates it, ends; a simulation may panic.
EndJob(r) ==
  /\ job[r].state = "running"
  /\ \E outcome \in IF job[r].ran \in Installed
                    THEN {"output"}
                    ELSE {"simulated", "panicked"} :
       job' = [job EXCEPT ![r] = [@ EXCEPT !.state = outcome,
                                           !.registry = NoRegistry]]
  /\ UNCHANGED <<startup, moduleVars, registryVars, holder, pc, request>>

\* The handler has its result and unlocks the manager.
Return(r) ==
  /\ pc[r] = "executing"
  /\ r \notin LiveJobs
  /\ pc' = [pc EXCEPT ![r] = "ended"]
  /\ holder' = Nobody
  /\ UNCHANGED <<startup, moduleVars, registryVars, request, job>>

\* The handler times out, or is dropped, while its job is still there.
Abandon(r) ==
  /\ pc[r] = "executing"
  /\ r \in LiveJobs
  /\ pc' = [pc EXCEPT ![r] = "abandoned"]
  /\ holder' = Nobody
  /\ UNCHANGED <<startup, moduleVars, registryVars, request, job>>

\* Mutant of Shared: a share of the registry does not count.
Unshared == FALSE

\* Somebody else has a share of the registry.
Shared == LiveJobs # {}

\* Whoever owns the manager locks it and registers a function: Arc::get_mut
\* gives access only to the one owner of a registry, and its absence panics.
RegisterHostFunction(name, signature) ==
  /\ startup = "serving"
  /\ holder = Nobody
  /\ IF Shared
     THEN registered' = "panicked" /\ UNCHANGED registry
     ELSE /\ registered' = "done"
          /\ registry' = [f \in DOMAIN registry \cup {name} |->
                            IF f = name THEN signature ELSE registry[f]]
  /\ UNCHANGED <<startup, moduleVars, executionVars>>

Next ==
  \/ Preload \/ FailPreload \/ FinishPreload
  \/ \E r \in Requests :
       \/ Execute(r) \/ FailExecute(r) \/ StartJob(r) \/ FailJob(r)
       \/ EndJob(r) \/ Return(r) \/ Abandon(r)
  \/ \E name \in Names, signature \in Signatures :
       RegisterHostFunction(name, signature)

Spec == Init /\ [][Next]_vars

-----------------------------------------------------------------------------

TypeOK ==
  /\ startup \in {"loading", "serving", "exited"}
  /\ preloaded \in 0 .. Len(Order)
  /\ startup = "serving" => preloaded \in {0, Len(Order)}
  /\ modules \subseteq Languages
  /\ sizes \subseteq Languages
  /\ prewarmed \in BOOLEAN
  /\ stats \subseteq Languages
  /\ registry \in Registry
  /\ registered \in {"none", "done", "panicked"}
  /\ holder \in Requests \cup {Nobody}
  /\ pc \in [Requests -> {"idle", "executing", "ended", "abandoned"}]
  /\ request \in [Requests -> {NoRequest} \cup
                     [language : Languages, patterns : SUBSET Patterns]]
  /\ job \in [Requests -> [state : {"none"} \cup Live \cup Over,
                           registry : Registry,
                           ran : {"nothing"} \cup Languages]]

(***************************************************************************)
(* The warm-up statistics claim what is true: once the manager is          *)
(* prewarmed each language has its module, with its size on record, and no *)
(* execution can fail for want of a module.  At any time sizes are         *)
(* recorded for exactly the compiled modules, loaded early or on demand.   *)
(***************************************************************************)
PrewarmedMeansLoaded ==
  /\ sizes = modules
  /\ IF prewarmed THEN stats = Languages /\ stats = modules ELSE stats = {}

(***************************************************************************)
(* The functions a job links against are those registered now: while a job *)
(* lives, even one that its handler has given up, nobody can change the    *)
(* registry under it.                                                      *)
(***************************************************************************)
RegistryOfJobs == \A r \in LiveJobs : job[r].registry = registry

(***************************************************************************)
(* register_host_function can only panic because an execution has timed    *)
(* out or its client has hung up: its job then goes on with its share of   *)
(* the registry after the mutex has been released.                         *)
(***************************************************************************)
PanicNeedsAbandonedJob ==
  registered = "panicked" => \E r \in Requests : pc[r] = "abandoned"

\* The interpreter that has run, or is running, a request's program.
Ran(r) == job[r].ran # "nothing"

(***************************************************************************)
(* Which programs are sent to the wrong interpreter: none in Python; those *)
(* in JavaScript that contain "import " or "print("; and all in Ruby, to   *)
(* Python for the same two patterns and to JavaScript otherwise.  The      *)
(* program has no other influence and chance has none.                     *)
(***************************************************************************)
DivertedAsWritten ==
  \A r \in Requests : Ran(r) =>
    (job[r].ran = IF \/ request[r].language = "python"
                     \/ {"import ", "print("} \cap request[r].patterns # {}
                  THEN "python"
                  ELSE "javascript")

(***************************************************************************)
(* Each program runs in the language of its request.                       *)
(***************************************************************************)
RunsAsRequested ==
  \A r \in Requests : Ran(r) => job[r].ran = request[r].language

=============================================================================
