-------------------------- MODULE WasmRuntimeProofs --------------------------
(***************************************************************************)
(* The runtime manager for any number of executions, any host functions    *)
(* and any programs: which interpreter runs what, why the registry stays   *)
(* as it is under a job, and what the warm-up statistics are worth.        *)
(***************************************************************************)
EXTENDS WasmRuntime, TLAPS

-----------------------------------------------------------------------------
(* The choice of the interpreter.                                          *)

(***************************************************************************)
(* The wrapped program of a request goes to exactly one interpreter, and   *)
(* never to Ruby's: the guess by scores is not reached.                    *)
(***************************************************************************)
THEOREM InterpreterOfWrapped ==
  ASSUME NEW language \in Languages, NEW patterns
  PROVE  Interpreters(WrapCode(language, patterns))
           = {IF language = "python" \/ {"import ", "print("} \cap patterns # {}
              THEN "python"
              ELSE "javascript"}
<1> DEFINE text == WrapCode(language, patterns)
<1>1. /\ text.contains = WrapperPatterns(language) \cup patterns
      /\ text.first_line = {}
  BY DEF WrapCode
<1>2. {"import ", "print("} \cap patterns # {}
        <=> "import " \in patterns \/ "print(" \in patterns
  OBVIOUS
<1>3. LooksLikePython(text) <=>
        \/ "import " \in WrapperPatterns(language)
        \/ "print(" \in WrapperPatterns(language)
        \/ {"import ", "print("} \cap patterns # {}
  BY <1>1, <1>2 DEF LooksLikePython
<1>4. LooksLikePython(text) <=>
        language = "python" \/ {"import ", "print("} \cap patterns # {}
  <2>1. CASE language = "python"
    BY <1>3, <2>1 DEF WrapperPatterns, BridgePatterns, ExportPatterns
  <2>2. CASE language = "javascript"
    BY <1>3, <2>2 DEF WrapperPatterns, BridgePatterns, ExportPatterns
  <2>3. CASE language = "ruby"
    BY <1>3, <2>3 DEF WrapperPatterns, BridgePatterns, ExportPatterns
  <2>4. QED
    BY <2>1, <2>2, <2>3 DEF Languages
<1>5. "function " \in WrapperPatterns(language)
  BY DEF WrapperPatterns, BridgePatterns, ExportPatterns, Languages
<1>6. LooksLikeJavaScript(text)
  BY <1>1, <1>5 DEF LooksLikeJavaScript
<1>7. QED
  BY <1>4, <1>6 DEF Interpreters

-----------------------------------------------------------------------------
(* The inductive invariant.                                                *)

\* What preload_all has been through is loaded.
PreloadedAreLoaded == \A i \in 1 .. preloaded : Order[i] \in modules

\* Warming up ends when serving begins.
ServedWarm == prewarmed => startup # "loading"

\* The mutex is held by the execution that waits for its job; a job lives
\* only under it or after it has been given up; no execution comes back.
ManagerInv ==
  \A r \in Requests :
    /\ pc[r] = "executing" <=> holder = r
    /\ r \in LiveJobs => pc[r] \in {"executing", "abandoned"}
    /\ pc[r] = "idle" => job[r] = NoJob

\* An execution that has begun has a request.
Requested ==
  \A r \in Requests : pc[r] # "idle" =>
    request[r] \in [language : Languages, patterns : SUBSET Patterns]

RuntimeInv ==
  /\ TypeOK
  /\ PreloadedAreLoaded
  /\ ServedWarm
  /\ ManagerInv
  /\ Requested
  /\ PrewarmedMeansLoaded
  /\ RegistryOfJobs
  /\ PanicNeedsAbandonedJob
  /\ DivertedAsWritten

LEMMA EmptyRegistry == NoRegistry \in Registry
<1>1. NoRegistry \in [{} -> Signatures]
  BY DEF NoRegistry
<1>2. {} \in SUBSET Names
  OBVIOUS
<1>3. QED
  BY <1>1, <1>2 DEF Registry

LEMMA OrderLength == Len(Order) = 3
BY DEF Order

LEMMA RuntimeInit == Init => RuntimeInv
<1> SUFFICES ASSUME Init PROVE RuntimeInv
  OBVIOUS
<1>1. registry \in Registry
  <2>1. registry \in [Defaults -> Signatures]
    BY DEF Init, Signatures
  <2>2. Defaults \in SUBSET Names
    BY DEF Names
  <2>3. QED
    BY <2>1, <2>2 DEF Registry
<1>2. NoJob \in [state : {"none"} \cup Live \cup Over, registry : Registry,
                 ran : {"nothing"} \cup Languages]
  BY EmptyRegistry DEF NoJob
<1>3. TypeOK
  <2>1. /\ preloaded \in 0 .. Len(Order)
        /\ startup = "serving" => preloaded \in {0, Len(Order)}
    BY OrderLength DEF Init
  <2>2. /\ pc \in [Requests -> {"idle", "executing", "ended", "abandoned"}]
        /\ request \in [Requests -> {NoRequest} \cup
                           [language : Languages, patterns : SUBSET Patterns]]
        /\ job \in [Requests -> [state : {"none"} \cup Live \cup Over,
                                 registry : Registry,
                                 ran : {"nothing"} \cup Languages]]
    BY <1>2 DEF Init
  <2>3. /\ startup \in {"loading", "serving", "exited"}
        /\ modules = {} /\ sizes = {} /\ stats = {} /\ prewarmed = FALSE
        /\ registered = "none" /\ holder = Nobody
    BY DEF Init
  <2>4. QED
    BY <2>1, <2>2, <2>3, <1>1 DEF TypeOK
<1>4. LiveJobs = {}
  BY DEF Init, LiveJobs, NoJob, Live
<1>5. PreloadedAreLoaded /\ ServedWarm
  BY DEF Init, PreloadedAreLoaded, ServedWarm
<1>6. ManagerInv /\ Requested
  BY <1>4, NobodyAssumption DEF Init, ManagerInv, Requested
<1>7. /\ PrewarmedMeansLoaded
      /\ PanicNeedsAbandonedJob
  BY DEF Init, PrewarmedMeansLoaded, PanicNeedsAbandonedJob
<1>8. RegistryOfJobs
  BY <1>4 DEF RegistryOfJobs
<1>9. DivertedAsWritten
  BY DEF Init, DivertedAsWritten, Ran, NoJob
<1>10. QED
  BY <1>3, <1>5, <1>6, <1>7, <1>8, <1>9 DEF RuntimeInv

(***************************************************************************)
(* Loading modules before anything is served.                              *)
(***************************************************************************)
LEMMA PreloadKeepsInv ==
  ASSUME RuntimeInv, Preload \/ FailPreload \/ FinishPreload
  PROVE  RuntimeInv'
<1> USE DEF RuntimeInv
<1>1. UNCHANGED <<registryVars, executionVars>>
  BY DEF Preload, FailPreload, FinishPreload
<1>2. LiveJobs' = LiveJobs
  BY <1>1 DEF LiveJobs, executionVars
<1>3. /\ ManagerInv' /\ Requested' /\ RegistryOfJobs'
      /\ PanicNeedsAbandonedJob' /\ DivertedAsWritten'
  BY <1>1, <1>2 DEF ManagerInv, Requested, RegistryOfJobs, PanicNeedsAbandonedJob,
     DivertedAsWritten, Ran, executionVars, registryVars
<1>4. CASE Preload
  <2>1. /\ preloaded \in {0, 1, 2}
        /\ startup = "loading"
    BY <1>4, OrderLength DEF TypeOK, Preload
  <2>2. /\ preloaded' = preloaded + 1
        /\ modules' = modules \cup {Order[preloaded + 1]}
        /\ sizes' = sizes \cup (IF Order[preloaded + 1] \in modules
                                THEN {} ELSE {Order[preloaded + 1]})
    BY <1>4 DEF Preload, GetOrLoad
  <2>3. Order[preloaded + 1] \in Languages
    BY <2>1 DEF Order, Languages
  <2>4. PreloadedAreLoaded'
    BY <2>1, <2>2 DEF PreloadedAreLoaded
  <2>5. UNCHANGED <<startup, prewarmed, stats>>
    BY <1>4 DEF Preload
  <2>6. preloaded' \in 0 .. Len(Order)
    BY <2>1, <2>2, OrderLength
  <2>7. TypeOK'
    BY <2>1, <2>2, <2>3, <2>5, <2>6, <1>1
       DEF TypeOK, registryVars, executionVars
  <2>8. PrewarmedMeansLoaded'
    <3>1. ~prewarmed
      BY <2>1 DEF ServedWarm
    <3>2. QED
      BY <2>2, <2>3, <2>5, <3>1 DEF PrewarmedMeansLoaded, TypeOK
  <2>9. QED
    BY <2>1, <2>4, <2>5, <2>7, <2>8, <1>3 DEF ServedWarm
<1>5. CASE FailPreload
  BY <1>1, <1>3, <1>5 DEF FailPreload, TypeOK, PreloadedAreLoaded, ServedWarm,
     PrewarmedMeansLoaded, moduleVars, registryVars, executionVars
<1>6. CASE FinishPreload
  <2>1. /\ preloaded = 3
        /\ prewarmed' = TRUE /\ startup' = "serving"
        /\ stats' = {Order[i] : i \in 1 .. 3}
        /\ UNCHANGED <<preloaded, modules, sizes>>
    BY <1>6, OrderLength DEF FinishPreload
  <2>2. {Order[i] : i \in 1 .. 3} = Languages
    BY DEF Order, Languages
  <2>3. modules = Languages
    <3>1. \A i \in 1 .. 3 : Order[i] \in modules
      BY <2>1 DEF PreloadedAreLoaded
    <3>2. {Order[i] : i \in 1 .. 3} \subseteq modules
      BY <3>1
    <3>3. QED
      BY <2>2, <3>2 DEF TypeOK
  <2>4. TypeOK'
    BY <2>1, <2>2, <1>1, OrderLength DEF TypeOK, registryVars, executionVars
  <2>5. PreloadedAreLoaded' /\ PrewarmedMeansLoaded' /\ ServedWarm'
    BY <2>1, <2>2, <2>3 DEF PreloadedAreLoaded, PrewarmedMeansLoaded, ServedWarm
  <2>6. QED
    BY <2>4, <2>5, <1>3
<1>7. QED
  BY <1>4, <1>5, <1>6

-----------------------------------------------------------------------------
(* The steps of an execution.                                              *)

\* What executions leave alone.
LEMMA WarmupUntouched ==
  ASSUME RuntimeInv, UNCHANGED <<startup, preloaded, prewarmed, stats>>,
         modules \subseteq modules', modules' \subseteq Languages, sizes' = modules'
  PROVE  PreloadedAreLoaded' /\ ServedWarm' /\ PrewarmedMeansLoaded'
<1> USE DEF RuntimeInv
<1>1. PreloadedAreLoaded' /\ ServedWarm'
  BY DEF PreloadedAreLoaded, ServedWarm
<1>2. prewarmed => modules' = modules
  BY DEF PrewarmedMeansLoaded, TypeOK
<1>3. PrewarmedMeansLoaded'
  BY <1>2 DEF PrewarmedMeansLoaded
<1>4. QED
  BY <1>1, <1>3

(***************************************************************************)
(* A new execution takes the mutex, and its job shares the registry of now.*)
(***************************************************************************)
LEMMA ExecuteKeepsInv ==
  ASSUME RuntimeInv, NEW r \in Requests, Execute(r)
  PROVE  RuntimeInv'
<1> USE DEF RuntimeInv
<1>1. PICK language \in Languages, patterns \in Programs :
        /\ request' = [request EXCEPT
                         ![r] = [language |-> language, patterns |-> patterns]]
        /\ GetOrLoad(language)
  BY DEF Execute
<1>2. /\ holder = Nobody /\ holder' = r
      /\ pc[r] = "idle" /\ pc' = [pc EXCEPT ![r] = "executing"]
      /\ job' = [job EXCEPT ![r] = [state |-> "queued", registry |-> registry,
                                    ran |-> "nothing"]]
      /\ UNCHANGED <<startup, preloaded, prewarmed, stats, registry, registered>>
  BY DEF Execute, Lock, registryVars
<1>3. /\ modules \subseteq modules' /\ modules' \subseteq Languages
      /\ sizes' = modules'
  BY <1>1 DEF GetOrLoad, TypeOK, PrewarmedMeansLoaded
<1>4. PreloadedAreLoaded' /\ ServedWarm' /\ PrewarmedMeansLoaded'
  BY <1>2, <1>3, WarmupUntouched
<1>5. TypeOK'
  <2>1. [language |-> language, patterns |-> patterns]
          \in [language : Languages, patterns : SUBSET Patterns]
    BY <1>1, ProgramsAssumption
  <2>2. request' \in [Requests -> {NoRequest} \cup
                        [language : Languages, patterns : SUBSET Patterns]]
    BY <1>1, <2>1 DEF TypeOK
  <2>3. [state |-> "queued", registry |-> registry, ran |-> "nothing"]
          \in [state : {"none"} \cup Live \cup Over, registry : Registry,
               ran : {"nothing"} \cup Languages]
    BY DEF TypeOK, Live
  <2>4. job' \in [Requests -> [state : {"none"} \cup Live \cup Over,
                             registry : Registry,
                             ran : {"nothing"} \cup Languages]]
    BY <1>2, <2>3 DEF TypeOK
  <2>5. QED
    BY <1>2, <1>3, <2>2, <2>4 DEF TypeOK
<1>6. Requested'
  BY <1>1, <1>2, ProgramsAssumption DEF Requested, TypeOK
<1>7. LiveJobs' = LiveJobs \cup {r}
  <2>1. \A q \in Requests \ {r} : job'[q] = job[q]
    BY <1>2 DEF TypeOK
  <2>2. job'[r].state = "queued"
    BY <1>2 DEF TypeOK
  <2>3. QED
    BY <2>1, <2>2 DEF LiveJobs, Live
<1>8. ManagerInv'
  BY <1>2, <1>7, NobodyAssumption DEF ManagerInv, TypeOK
<1>9. RegistryOfJobs'
  BY <1>2, <1>7 DEF RegistryOfJobs, TypeOK, LiveJobs
<1>10. PanicNeedsAbandonedJob'
  BY <1>2 DEF PanicNeedsAbandonedJob, TypeOK
<1>11. DivertedAsWritten'
  BY <1>1, <1>2 DEF DivertedAsWritten, Ran, TypeOK
<1>12. QED
  BY <1>4, <1>5, <1>8, <1>9, <1>10, <1>11, <1>6

(***************************************************************************)
(* An execution without a module never becomes one with a job.             *)
(***************************************************************************)
LEMMA FailExecuteKeepsInv ==
  ASSUME RuntimeInv, NEW r \in Requests, FailExecute(r)
  PROVE  RuntimeInv'
<1> USE DEF RuntimeInv
<1>1. PICK language \in Languages, patterns \in Programs :
        request' = [request EXCEPT
                      ![r] = [language |-> language, patterns |-> patterns]]
  BY DEF FailExecute
<1>2. /\ pc[r] = "idle" /\ pc' = [pc EXCEPT ![r] = "ended"]
      /\ UNCHANGED <<startup, preloaded, modules, sizes, prewarmed, stats, registry,
                     registered, holder, job>>
  BY DEF FailExecute, moduleVars, registryVars
<1>3. PreloadedAreLoaded' /\ ServedWarm' /\ PrewarmedMeansLoaded'
  BY <1>2, WarmupUntouched DEF PrewarmedMeansLoaded, TypeOK
<1>4. TypeOK'
  <2>1. [language |-> language, patterns |-> patterns]
          \in [language : Languages, patterns : SUBSET Patterns]
    BY <1>1, ProgramsAssumption
  <2>2. request' \in [Requests -> {NoRequest} \cup
                        [language : Languages, patterns : SUBSET Patterns]]
    BY <1>1, <2>1 DEF TypeOK
  <2>3. QED
    BY <1>2, <2>2 DEF TypeOK
<1>5. LiveJobs' = LiveJobs
  BY <1>2 DEF LiveJobs
<1>6. job[r] = NoJob
  BY <1>2 DEF ManagerInv
<1>7. r \notin LiveJobs
  BY <1>6 DEF LiveJobs, NoJob, Live
<1>8. ManagerInv'
  BY <1>2, <1>5, <1>7 DEF ManagerInv, TypeOK
<1>9. Requested'
  BY <1>1, <1>2, ProgramsAssumption DEF Requested, TypeOK
<1>10. RegistryOfJobs' /\ PanicNeedsAbandonedJob'
  BY <1>2, <1>5 DEF RegistryOfJobs, PanicNeedsAbandonedJob, TypeOK
<1>11. DivertedAsWritten'
  <2>1. job[r].ran = "nothing"
    BY <1>6 DEF NoJob
  <2>2. \A q \in Requests \ {r} : request'[q] = request[q]
    BY <1>1 DEF TypeOK
  <2>3. QED
    BY <1>2, <2>1, <2>2 DEF DivertedAsWritten, Ran
<1>12. QED
  BY <1>3, <1>4, <1>8, <1>10, <1>11, <1>9

\* A live job is one of a request.
LEMMA RequestOfLiveJob ==
  ASSUME RuntimeInv, NEW r \in LiveJobs
  PROVE  request[r] \in [language : Languages, patterns : SUBSET Patterns]
<1>1. r \in Requests
  BY DEF LiveJobs
<1>2. pc[r] # "idle"
  BY <1>1 DEF RuntimeInv, ManagerInv
<1>3. QED
  BY <1>1, <1>2 DEF RuntimeInv, Requested

\* What a live job runs is what its wrapped program says.
LEMMA RanOfLiveJob ==
  ASSUME RuntimeInv, NEW r \in LiveJobs
  PROVE  \/ job[r].ran = "nothing"
         \/ job[r].ran \in Interpreters(WrapCode(request[r].language,
                                                 request[r].patterns))
<1>1. r \in Requests
  BY DEF LiveJobs
<1>2. request[r].language \in Languages
  BY RequestOfLiveJob
<1>3. QED
  BY <1>1, <1>2, InterpreterOfWrapped, ZenonT(30)
     DEF RuntimeInv, DivertedAsWritten, Ran

(***************************************************************************)
(* A live job keeps its share of the registry as long as it lives, and     *)
(* runs, if anything, what its wrapped program says.                       *)
(***************************************************************************)
LEMMA JobStepKeepsInv ==
  ASSUME RuntimeInv, NEW r \in LiveJobs,
         NEW new \in [state : {"none"} \cup Live \cup Over, registry : Registry,
                      ran : {"nothing"} \cup Languages],
         job' = [job EXCEPT ![r] = new],
         new.state \in Live => new.registry = job[r].registry,
         new.ran # "nothing" =>
           new.ran \in Interpreters(WrapCode(request[r].language,
                                             request[r].patterns)),
         new.state # "none",
         UNCHANGED <<startup, moduleVars, registryVars, holder, pc, request>>
  PROVE  RuntimeInv'
<1> USE DEF RuntimeInv
<1>1. r \in Requests
  BY DEF LiveJobs
<1>2. UNCHANGED <<startup, preloaded, modules, sizes, prewarmed, stats, registry,
                  registered, holder, pc, request>>
  BY DEF moduleVars, registryVars
<1>3. job'[r] = new /\ \A q \in Requests \ {r} : job'[q] = job[q]
  BY <1>1 DEF TypeOK
<1>4. TypeOK'
  <2>1. job' \in [Requests -> [state : {"none"} \cup Live \cup Over,
                             registry : Registry,
                             ran : {"nothing"} \cup Languages]]
    BY DEF TypeOK
  <2>2. QED
    BY <1>2, <2>1 DEF TypeOK
<1>5. PreloadedAreLoaded' /\ ServedWarm' /\ PrewarmedMeansLoaded'
  BY <1>2, WarmupUntouched DEF PrewarmedMeansLoaded, TypeOK
<1>6. LiveJobs' \subseteq LiveJobs
  BY <1>3 DEF LiveJobs
<1>7. ManagerInv'
  <2>1. pc[r] # "idle"
    BY <1>1 DEF ManagerInv
  <2>2. QED
    BY <1>2, <1>3, <1>6, <2>1 DEF ManagerInv
<1>8. Requested'
  BY <1>2 DEF Requested
<1>9. RegistryOfJobs'
  <2>1. ASSUME NEW q \in LiveJobs' PROVE job'[q].registry = registry'
    <3>1. CASE q = r
      BY <1>1, <1>2, <1>3, <2>1, <3>1 DEF RegistryOfJobs, LiveJobs
    <3>2. CASE q # r
      BY <1>2, <1>3, <1>6, <2>1, <3>2 DEF RegistryOfJobs, LiveJobs
    <3>3. QED
      BY <3>1, <3>2
  <2>2. QED
    BY <2>1 DEF RegistryOfJobs
<1>10. PanicNeedsAbandonedJob'
  BY <1>2 DEF PanicNeedsAbandonedJob
<1>11. DivertedAsWritten'
  <2>1. ASSUME new.ran # "nothing"
        PROVE  new.ran = IF \/ request[r].language = "python"
                            \/ {"import ", "print("} \cap request[r].patterns # {}
                         THEN "python" ELSE "javascript"
    <3>1. request[r] \in [language : Languages, patterns : SUBSET Patterns]
      BY <1>1, RequestOfLiveJob
    <3>2. request[r].language \in Languages
      BY <3>1
    <3>3. Interpreters(WrapCode(request[r].language, request[r].patterns))
            = {IF \/ request[r].language = "python"
                  \/ {"import ", "print("} \cap request[r].patterns # {}
               THEN "python" ELSE "javascript"}
      BY <3>2, InterpreterOfWrapped
    <3>4. QED
      BY <2>1, <3>3
  <2>2. QED
    BY <1>2, <1>3, <2>1, ZenonT(30) DEF DivertedAsWritten, Ran
<1>12. QED
  BY <1>4, <1>5, <1>7, <1>9, <1>10, <1>11, <1>8

(***************************************************************************)
(* Linking, starting and ending a job.                                     *)
(***************************************************************************)
LEMMA JobKeepsInv ==
  ASSUME RuntimeInv, NEW r \in Requests, StartJob(r) \/ FailJob(r) \/ EndJob(r)
  PROVE  RuntimeInv'
<1> DEFINE Jobs == [state : {"none"} \cup Live \cup Over, registry : Registry,
                    ran : {"nothing"} \cup Languages]
<1>1. r \in LiveJobs
  BY DEF StartJob, FailJob, EndJob, LiveJobs, Live
<1>2. job[r] \in Jobs
  BY DEF RuntimeInv, TypeOK
<1>3. UNCHANGED <<startup, moduleVars, registryVars, holder, pc, request>>
  BY DEF StartJob, FailJob, EndJob
<1>4. CASE StartJob(r)
  <2>1. PICK language \in Interpreters(WrapCode(request[r].language,
                                               request[r].patterns)) :
          job' = [job EXCEPT ![r].state = "running", ![r].ran = language]
    BY <1>4 DEF StartJob
  <2> DEFINE new == [job[r] EXCEPT !.state = "running", !.ran = language]
  <2>2. job' = [job EXCEPT ![r] = new]
    BY <2>1
  <2>3. language \in Languages
    <3>1. request[r].language \in Languages
      BY <1>1, RequestOfLiveJob
    <3>2. Interpreters(WrapCode(request[r].language, request[r].patterns))
            = {IF \/ request[r].language = "python"
                  \/ {"import ", "print("} \cap request[r].patterns # {}
               THEN "python" ELSE "javascript"}
      BY <3>1, InterpreterOfWrapped
    <3>3. QED
      BY <2>1, <3>2 DEF Languages
  <2>4. /\ new \in Jobs
        /\ new.registry = job[r].registry
        /\ new.ran = language /\ new.state = "running"
    BY <1>2, <2>3 DEF Live
  <2>5. QED
    BY <1>1, <1>3, <2>1, <2>2, <2>4, JobStepKeepsInv
<1>5. CASE FailJob(r)
  <2> DEFINE new == [job[r] EXCEPT !.state = "unlinked", !.registry = NoRegistry]
  <2>1. job' = [job EXCEPT ![r] = new]
    BY <1>5 DEF FailJob
  <2>2. /\ new \in Jobs
        /\ new.ran = job[r].ran /\ new.state = "unlinked"
    BY <1>2, EmptyRegistry DEF Over
  <2>3. job[r].ran = "nothing" \/
          job[r].ran \in Interpreters(WrapCode(request[r].language,
                                               request[r].patterns))
    BY <1>1, RanOfLiveJob
  <2>4. QED
    BY <1>1, <1>3, <2>1, <2>2, <2>3, JobStepKeepsInv DEF Live
<1>6. CASE EndJob(r)
  <2>1. PICK outcome \in {"output", "simulated", "panicked"} :
          job' = [job EXCEPT ![r] = [@ EXCEPT !.state = outcome,
                                              !.registry = NoRegistry]]
    BY <1>6 DEF EndJob
  <2> DEFINE new == [job[r] EXCEPT !.state = outcome, !.registry = NoRegistry]
  <2>2. job' = [job EXCEPT ![r] = new]
    BY <2>1
  <2>3. /\ new \in Jobs
        /\ new.ran = job[r].ran /\ new.state = outcome
    BY <1>2, <2>1, EmptyRegistry DEF Over
  <2>4. job[r].ran = "nothing" \/
          job[r].ran \in Interpreters(WrapCode(request[r].language,
                                               request[r].patterns))
    BY <1>1, RanOfLiveJob
  <2>5. QED
    BY <1>1, <1>3, <2>1, <2>2, <2>3, <2>4, JobStepKeepsInv DEF Live
<1>7. QED
  BY <1>4, <1>5, <1>6

(***************************************************************************)
(* The handler's result, its timeout, and a change to the registry.        *)
(***************************************************************************)
LEMMA HandlerKeepsInv ==
  ASSUME RuntimeInv, NEW r \in Requests, Return(r) \/ Abandon(r)
  PROVE  RuntimeInv'
<1> USE DEF RuntimeInv
<1>1. /\ pc[r] = "executing" /\ holder' = Nobody
      /\ UNCHANGED <<startup, preloaded, modules, sizes, prewarmed, stats, registry,
                     registered, request, job>>
  BY DEF Return, Abandon, moduleVars, registryVars
<1>2. PICK ended \in {"ended", "abandoned"} :
        /\ pc' = [pc EXCEPT ![r] = ended]
        /\ ended = "ended" => r \notin LiveJobs
  BY DEF Return, Abandon
<1>3. pc'[r] = ended /\ \A q \in Requests \ {r} : pc'[q] = pc[q]
  BY <1>2 DEF TypeOK
<1>4. LiveJobs' = LiveJobs
  BY <1>1 DEF LiveJobs
<1>5. holder = r
  BY <1>1 DEF ManagerInv
<1>6. TypeOK'
  <2>1. pc' \in [Requests -> {"idle", "executing", "ended", "abandoned"}]
    BY <1>2 DEF TypeOK
  <2>2. QED
    BY <1>1, <2>1 DEF TypeOK
<1>7. PreloadedAreLoaded' /\ ServedWarm' /\ PrewarmedMeansLoaded'
  BY <1>1, WarmupUntouched DEF PrewarmedMeansLoaded, TypeOK
<1>8. ManagerInv'
  BY <1>1, <1>2, <1>3, <1>4, <1>5, NobodyAssumption DEF ManagerInv
<1>9. Requested'
  BY <1>1, <1>3 DEF Requested
<1>10. RegistryOfJobs' /\ DivertedAsWritten'
  BY <1>1, <1>4 DEF RegistryOfJobs, DivertedAsWritten, Ran
<1>11. PanicNeedsAbandonedJob'
  BY <1>1, <1>3 DEF PanicNeedsAbandonedJob
<1>12. QED
  BY <1>6, <1>7, <1>8, <1>9, <1>10, <1>11

LEMMA RegisterKeepsInv ==
  ASSUME RuntimeInv, NEW name \in Names, NEW signature \in Signatures,
         RegisterHostFunction(name, signature)
  PROVE  RuntimeInv'
<1> USE DEF RuntimeInv
<1>1. /\ holder = Nobody
      /\ UNCHANGED <<startup, preloaded, modules, sizes, prewarmed, stats, holder,
                     pc, request, job>>
  BY DEF RegisterHostFunction, moduleVars, executionVars
<1>2. LiveJobs' = LiveJobs
  BY <1>1 DEF LiveJobs
<1>3. PreloadedAreLoaded' /\ ServedWarm' /\ PrewarmedMeansLoaded'
  BY <1>1, WarmupUntouched DEF PrewarmedMeansLoaded, TypeOK
<1>4. ManagerInv' /\ Requested' /\ DivertedAsWritten'
  BY <1>1, <1>2 DEF ManagerInv, Requested, DivertedAsWritten, Ran
<1>5. CASE Shared
  <2>1. registered' = "panicked" /\ registry' = registry
    BY <1>5 DEF RegisterHostFunction
  <2>2. PICK r \in Requests : r \in LiveJobs
    BY <1>5 DEF Shared, LiveJobs
  <2>3. pc[r] # "executing"
    BY <1>1, <2>2, NobodyAssumption DEF ManagerInv
  <2>4. pc[r] = "abandoned"
    BY <2>2, <2>3 DEF ManagerInv
  <2>5. PanicNeedsAbandonedJob'
    BY <1>1, <2>4 DEF PanicNeedsAbandonedJob
  <2>6. TypeOK' /\ RegistryOfJobs'
    BY <1>1, <1>2, <2>1 DEF TypeOK, RegistryOfJobs
  <2>7. QED
    BY <1>3, <1>4, <2>5, <2>6
<1>6. CASE ~Shared
  <2>1. /\ registered' = "done"
        /\ registry' = [f \in DOMAIN registry \cup {name} |->
                          IF f = name THEN signature ELSE registry[f]]
    BY <1>6 DEF RegisterHostFunction
  <2>2. PICK names \in SUBSET Names : registry \in [names -> Signatures]
    BY DEF TypeOK, Registry
  <2>3. registry' \in [names \cup {name} -> Signatures]
    BY <2>1, <2>2
  <2>4. registry' \in Registry
    BY <2>2, <2>3 DEF Registry
  <2>5. TypeOK'
    BY <1>1, <2>1, <2>4 DEF TypeOK
  <2>6. RegistryOfJobs' /\ PanicNeedsAbandonedJob'
    BY <1>2, <1>6, <2>1 DEF Shared, RegistryOfJobs, PanicNeedsAbandonedJob
  <2>7. QED
    BY <1>3, <1>4, <2>5, <2>6
<1>7. QED
  BY <1>5, <1>6

-----------------------------------------------------------------------------
(* The theorems.                                                           *)

LEMMA NextKeepsInv == RuntimeInv /\ [Next]_vars => RuntimeInv'
<1> SUFFICES ASSUME RuntimeInv, [Next]_vars PROVE RuntimeInv'
  OBVIOUS
<1>1. CASE Preload \/ FailPreload \/ FinishPreload
  BY <1>1, PreloadKeepsInv
<1>2. ASSUME NEW r \in Requests, Execute(r) PROVE RuntimeInv'
  BY <1>2, ExecuteKeepsInv
<1>3. ASSUME NEW r \in Requests, FailExecute(r) PROVE RuntimeInv'
  BY <1>3, FailExecuteKeepsInv
<1>4. ASSUME NEW r \in Requests, StartJob(r) \/ FailJob(r) \/ EndJob(r)
      PROVE  RuntimeInv'
  BY <1>4, JobKeepsInv
<1>5. ASSUME NEW r \in Requests, Return(r) \/ Abandon(r) PROVE RuntimeInv'
  BY <1>5, HandlerKeepsInv
<1>6. ASSUME NEW name \in Names, NEW signature \in Signatures,
             RegisterHostFunction(name, signature)
      PROVE  RuntimeInv'
  BY <1>6, RegisterKeepsInv
<1>7. CASE UNCHANGED vars
  <2>1. UNCHANGED <<startup, preloaded, modules, sizes, prewarmed, stats, registry,
                    registered, holder, pc, request, job>>
    BY <1>7 DEF vars, moduleVars, registryVars, executionVars
  <2>2. LiveJobs' = LiveJobs
    BY <2>1 DEF LiveJobs
  <2>3. TypeOK' /\ PreloadedAreLoaded' /\ ServedWarm' /\ PrewarmedMeansLoaded'
    BY <2>1 DEF RuntimeInv, TypeOK, PreloadedAreLoaded, ServedWarm,
       PrewarmedMeansLoaded
  <2>4. ManagerInv' /\ Requested' /\ RegistryOfJobs' /\ PanicNeedsAbandonedJob'
    BY <2>1, <2>2 DEF RuntimeInv, ManagerInv, Requested, RegistryOfJobs,
       PanicNeedsAbandonedJob
  <2>5. DivertedAsWritten'
    BY <2>1 DEF RuntimeInv, DivertedAsWritten, Ran
  <2>6. QED
    BY <2>3, <2>4, <2>5 DEF RuntimeInv
<1>8. QED
  BY <1>1, <1>2, <1>3, <1>4, <1>5, <1>6, <1>7 DEF Next

LEMMA RuntimeInvariant == Spec => []RuntimeInv
BY RuntimeInit, NextKeepsInv, PTL DEF Spec

(***************************************************************************)
(* The runtime manager's state stays what its types and its start-up say.  *)
(***************************************************************************)
THEOREM RuntimeTypeCorrect == Spec => []TypeOK
<1>1. RuntimeInv => TypeOK
  BY DEF RuntimeInv
<1>2. QED
  BY <1>1, RuntimeInvariant, PTL

(***************************************************************************)
(* preload_all_modules reports a warm-up only when get_or_load has compiled*)
(* the stub of every language, and sizes are recorded with the modules.    *)
(***************************************************************************)
THEOREM PrewarmedIsLoaded == Spec => []PrewarmedMeansLoaded
<1>1. RuntimeInv => PrewarmedMeansLoaded
  BY DEF RuntimeInv
<1>2. QED
  BY <1>1, RuntimeInvariant, PTL

(***************************************************************************)
(* register_host_function never changes the functions of a running job, of *)
(* however many executions.                                                *)
(***************************************************************************)
THEOREM RegistryStable == Spec => []RegistryOfJobs
<1>1. RuntimeInv => RegistryOfJobs
  BY DEF RuntimeInv
<1>2. QED
  BY <1>1, RuntimeInvariant, PTL

(***************************************************************************)
(* register_host_function panics only after execute_with_timeout has given *)
(* up a job, or its caller was dropped.                                    *)
(***************************************************************************)
THEOREM PanicsExplained == Spec => []PanicNeedsAbandonedJob
<1>1. RuntimeInv => PanicNeedsAbandonedJob
  BY DEF RuntimeInv
<1>2. QED
  BY <1>1, RuntimeInvariant, PTL

(***************************************************************************)
(* run_native_interpreter sends every program where its wrapper and its    *)
(* own "import " and "print(" send it, whatever else it contains.          *)
(***************************************************************************)
THEOREM DivertedAlways == Spec => []DivertedAsWritten
<1>1. RuntimeInv => DivertedAsWritten
  BY DEF RuntimeInv
<1>2. QED
  BY <1>1, RuntimeInvariant, PTL

=============================================================================
