# Verification of the WASI code executor

TLA+ models of the service in this repository, the TLC instances that check
them, and proofs of their main properties for TLAPS. The service accepts a
program over HTTP, runs it in a sandbox directory under a timeout, caches the
response and records the execution in SQLite.

Source files are named without their directory (`cache.rs` is
`src/src/cache.rs` in `PROJECT.json`), which gives for every definition the
lines it models, and for every property a mutant of the model that breaks it.

## 1. Inventory

| Part | State | Operations | What makes it correct |
|---|---|---|---|
| Response cache, `cache.rs` | map from hash string to entry (response, creation time, ttl), hit and miss counters, one mutex | `get`, `insert`, `insert_with_ttl`, `invalidate`, `clear`, `cleanup_expired`, read-only `stats`/`len` | never returns a stale response; gives up a live one only for lack of room; stays within its capacity; expired entries do not stay for ever |
| Execution path, `http_server.rs` and `wasm_runtime.rs` | `runtime_manager` behind a tokio mutex held for the whole request; output buffers shared with a blocking job; timer | `execute_handler`, `execute_code_with_cache`, `execute_code`, `execute_with_timeout`, `execute_in_wasm`; the info handlers lock the same mutex | one execution at a time; each client gets the output of its own program; a cached response is a complete, successful run; every request is answered |
| Blocking pool (tokio) | FIFO of closures, bounded number of threads | file operations, execution jobs; nothing can be taken back | jobs end; a timed-out job does no harm |
| Sandbox directories, `sandbox.rs` | one directory per execution id on disk | `prepare_sandbox_dir`, `cleanup_sandbox_dir` | directories are reclaimed |
| Path and network policy, `sandbox.rs` | lists of paths and domains | `is_path_allowed`, `is_domain_allowed`, `validate_network_request`, `NetworkPolicy::validate`; the service calls none of them | what is admitted lies inside what is allowed |
| Executions table, `db.rs` | table keyed by execution id, connection pool | `record_execution`, `get_stats`, `get_language_stats`, `get_recent_executions` | each answered execution has its row; statistics read in several queries still make sense together |
| Host functions, `host_functions.rs` | a registry of functions over guest arguments, shared with each job | twelve default functions, `call`, `register`; the manager's `register_host_function` (public, never called by the service) | results are what they are named for, within the widths of the integers; no job's registry changes |
| Guest memory, `host_functions.rs` | the memory of a guest | `read/write_memory_safe`, the chunked string transfers (public, never called by the service) | no access out of bounds; a string arrives whole and in order |
| Interpreter dispatch, `wasm_runtime.rs` | none | wrappers per language, `detect_language`, choice of the interpreter | a program runs in the language of its request |
| Simulation, `wasm_runtime.rs` | none | what runs when no interpreter can be started: `simulate_*`, `parse_function_call`, `evaluate_host_function` | prints what the host functions would have returned |
| Module cache and warm-up, `wasm_runtime.rs` | compiled modules, warm-up statistics | `get_or_load`, `preload_all`, `is_prewarmed` | pre-warmed exactly when all modules are loaded |
| Start-up, `main.rs` | builds the state above | `main`, `spawn_cache_cleanup_task` | the cleanup task runs as long as the process |

Interactions. `execute_handler` locks the manager and keeps the guard until it
returns, across the lookup in the cache, the sandbox files, the job, the insert
into the cache and the INSERT into the table. The cache has a lock of its own
and is also reached from `/cache/clear` and the cleanup task, which do not take
the manager's mutex. `tokio::fs` and `spawn_blocking` share one blocking pool.
The database is reached from `execute_handler` and, concurrently, `/stats`.

Three parts are public functions that no code of the service calls: the path and
network policies, the `register_host_function` of the manager
and the chunked transfers. They are modelled as an interface, for any caller; no
property of theirs says anything about a running service as it is.

What is hard here: the timer races a job that cannot be stopped and that writes
into buffers the response is built from; a dropped request leaves each of its
resources at a different stage; expiry is lazy; files, the INSERT and the
process itself may fail between two steps; several queries make up one report.
`PROJECT.json` lists each hazard at its line with the properties that cover it.

## 2. The modules

| Module | What it is |
|---|---|
| `ExecutionCache` | `ExecutionCache` of `cache.rs`, one action per method |
| `TtlMap` | abstract specification: what a caller may expect of the cache |
| `ObservedCache` | the cache with the answers its callers see; implements `TtlMap` |
| `ExecutionService` | the path of a request; composes handlers, mutex, pool, sandbox directories, cache (an instance of `ExecutionCache`) and table |
| `ExecutionPromise` | abstract specification: what clients and readers of the table may expect of the service; implemented by `ExecutionService` |
| `ExecutionStats` | `get_stats` query by query against concurrent inserts, and the order of timestamps stored as text |
| `GuestMemory` | linear memory: bounds, reads, writes, 32-bit words |
| `StringTransfer` | the chunked transfers between host and guest, over `GuestMemory` |
| `HostFunctions` | the twelve default functions, as sets of outcomes |
| `Simulation` | what is printed where no interpreter is installed, over `HostFunctions` |
| `SandboxPolicy` | `is_path_allowed`, `is_domain_allowed`, `NetworkPolicy` |
| `FunctionCalls` | one call of any of these functions and its outcome |
| `LanguageDispatch` | wrappers and the choice of the interpreter, as patterns in a text |
| `WasmRuntime` | modules and warm-up, registry and jobs, over `LanguageDispatch` |
| `ExecutionCacheProofs`, `ObservedCacheProofs`, `ExecutionServiceProofs`, `ServiceRunProofs`, `ExecutionStatsProofs`, `StringTransferProofs`, `FunctionCallsProofs`, `WasmRuntimeProofs` | theorems |
| `MC...` | instances for TLC |

### ExecutionCache

`entries` maps slots (the strings `to_hash_string` can return) to entries; the
hash is a constant function `HashOf`, which may collide. Each method of the code
runs under the cache's mutex, so it is one action. Time is an age per entry: the
code compares creation times only with each other and with now. Ages saturate
one tick above `MaxTtl`, where an entry has expired whatever its ttl; the order
among expired entries does not matter because `insert_with_ttl` sweeps them
before it looks for the oldest. `evict_lru` scans a `HashMap` in no fixed order
and takes an entry only if it is strictly older than `Instant::now()`, hence a
set of possible results and, when nothing predates now, none. `StrictClock`
says whether two readings of the clock always differ. `MaxLookups` bounds the
counters.

### ObservedCache and TtlMap

`TtlMap` has no expired entries at all: a binding is gone at the tick it
outlives its ttl, and a store gives up a live binding only when `Capacity` of
them are live. The refinement maps `live` to the fresh part of `entries`, so
`cleanup_expired` and the removal in `get` are stutters, and the sweep in
`insert_with_ttl` has to come before the eviction for the mapping to hold.

### ExecutionService

A handler is an async task that serves one request; it stands for the execution
id it draws, which is fresh. Its steps go from await to await:

| `pc` | suspended at |
|---|---|
| `waiting` | `runtime_manager.lock().await` |
| `mkdir`, `readme`, `write` | the file operations of `prepare_sandbox_dir` and the write of the code |
| `run` | `tokio::time::timeout(..).await` around the job |
| `rmdir` | `remove_dir_all` in `cleanup_sandbox_dir` |
| `recording` | `record_execution(..).await` |
| `answered`, `failed`, `rejected`, `cancelled`, `lost` | 200; 500; 400; its client hung up; the process died |

Between two awaits a handler makes at most one call of the cache, so each piece
is one action (`ResumeCleanedUp` builds the response, stores it and hands over
the INSERT). The mutex is tokio's: a FIFO queue. The blocking pool is a FIFO
queue served by `PoolSize` threads; a file operation runs in the step that takes
it, a job occupies its thread until the interpreter ends. `Timeout` leaves the
job where it is. `Cancel` drops a handler at any await: mutex and queue place are
released, pool tasks stay, an INSERT may or may not have been handed over.
`Restart` keeps rows and directories and forgets everything else. A code in
`Runaway` is a program that does not end by itself.

Data: a program is a language and a code (a code stands for a text with its
timeout); an output is the program it came from and whether it is its output or
an interpreter's diagnostics. The job appends to the buffer when the interpreter
has ended, as `execute_in_wasm` does.

### ExecutionPromise

One clerk serves the clients one after the other, without cache, timers, files
or pool. A client has its program run at most once; then a row is entered and
the client is answered with that run or, if there was none, with a failure or
with the run of another client whose program has the same hash, if both allowed
it to be cached. Clients may be dropped at any time; a row may still follow.
`ExecutionService` implements it (`ImplementsPromise`): `turn` is the holder of
the mutex, `runs` the outputs of the jobs that ended in time, `answer` what was
sent, `table` the rows. `ResumeJob` is where a run happens, not the end of the
job, so what a job puts out after its timeout is nobody's run; `Cancel`,
`FailPreparing` and `Restart` drop clients; all else but arrival, admission, the
INSERT and the answer is a stutter. Mistakes it catches that no invariant
mentions: an answer or a row that changes afterwards, two runs for one request, a
hit for a request with `use_cache = false` or of such a request, an answer before
its row.

### ExecutionStats

The table is a sequence of rows; `/stats` asks its questions in the order of the
awaits, each a transaction of its own, while `RecordExecution` may happen in
between. The average is left out. A timestamp is one digit of seconds and three bits
for the three groups of decimals `to_rfc3339` writes as needed; text is compared
by character code, so what matters is where `+`, `.` and the digits sort.

### GuestMemory and StringTransfer

A memory is a function from addresses to bytes. A byte is one of `Base` values
and four bytes make an address, so that `Base` alone scales the address space.
One behaviour is one transfer. `BeginPull` and `BeginPush` choose size and
contents of the memory, text, buffer, length and offset word freely: the guest
is a program of a user. A call of `write_string_chunks` is one action
(`WriteChunk`, `WriteLastChunk` or `FailPull`), because a guest cannot run while
the host function does; between two calls the guest empties its buffer
(`TakeChunk`), and the position is in its memory only. `read_string_chunks` is
one action per turn of its loop; the caller's `write_fn` takes a chunk
(`ReadChunk`) or refuses it, which ends the call (`FailSink`). Overflow of `buffer_ptr + offset` panics with
overflow checks and wraps around without them; both are possible.

### HostFunctions, Simulation, SandboxPolicy, FunctionCalls

These parts keep no state between calls. Each function is an operator that
returns the set of outcomes a call may have (value, trap, panic), and
`FunctionCalls` has one action for each way in: a guest's call (`CallHost`), a
printed call or text under simulation (`SimulateCall`, `SimulateText`), the
argument parser (`ParseCall`), the two policies (`AskPath`, `AskUrl`). `I32Half`
and `I64Half` are half the number of values of an `i32` and an `i64`; where an
operation overflows, the outcomes are a panic and the wrapped value
(`RandomWrapped` follows the wrapped range of the simulated `random_int` to the
number it yields). `fibonacci`
is computed in limbs of nine digits, at full width. The parser works on
tokens (words, numerals, single characters) with the code's states of quote and
depth. Paths are sequences of components, domains of labels.

### LanguageDispatch and WasmRuntime

The dispatch asks a text only whether it contains certain patterns, what its
first line contains and how it ends; a text is a record of just that, and a
wrapper is the set of patterns its text has. `WasmRuntime` has the warm-up turn
by turn (`Preload`, `FailPreload`, `FinishPreload`), executions that load a
module on demand and hold the manager (`Execute`, `Return`), jobs with the
registry they share (`StartJob`, `FailJob`, `EndJob`), handlers that leave their
job behind (`Abandon`: a timeout or a hang-up) and `RegisterHostFunction`.
`Arc::get_mut` succeeds exactly when no job lives. It is separate from
`ExecutionService`, which has the same handlers and jobs in more detail but no
modules: nothing a module or the registry does changes what `ExecutionService`
says about files, cache and table, except that an execution may fail, which is
there.

## 3. The runs

| Run | Instance | Shows |
|---|---|---|
| `cache` | 3 keys, capacity 2, ttls 0 to 2, 2 lookups | type invariant, capacity bound, and that what has expired is dropped eventually |
| `observed_cache` | 4 keys of which 2 collide, 2 responses, capacity 2, clock readings may coincide | the cache implements `TtlMap` |
| `service` | 3 requests, 2 programs, 1 thread, cache of 1 | what is served, cached and recorded belongs together; the service implements `ExecutionPromise` |
| `service_faults` | 2 requests, an endless program, failing files and database, hang-ups, restarts | `ExecutionPromise` is implemented, and answers are recorded, whatever fails; directories are reclaimed; the mutex blocks nobody for ever |
| `service_liveness` | 2 requests, all faults but restarts and endless programs | every waiting request is answered, every job ends |
| `stats` | 2 languages, 3 rows, 4 times | reports composed of several queries are consistent one way |
| `string_transfer` | bytes of one bit (16 addresses), chunks of 2, memories of 11 and 16 bytes, texts up to 6 bytes | what arrives, what may fail and when, what may be overwritten, that transfers end |
| `functions` | `i32` of 9 bits, `i64` of 11, strings up to 12 bytes, all corners of arguments | each function against its definition; the simulation against the registry; both policies |
| `wasm_runtime` | 2 executions, 5 kinds of program, one default and one other function, only Python installed | warm-up statistics, the shared registry, where programs run |
| `runaway_program` | an endless program, 1 thread | finding |
| `failed_program` | 2 requests | finding |
| `ruby_program` | 1 Ruby program, all interpreters installed | finding |

Why the bounds are enough. *Cache*: capacity 2 with three keys is the least at
which a full cache has a choice of what to evict and a mixture of fresh and
expired entries; ttls 0, 1 and 2 order expiry against age in every way. Capacity
0 is in no run: `CacheLenBounded` covers it.
*Service*: two handlers give every pairwise race (a mutex, a queue place, a slot,
a pool thread); the third lets one hold, one wait and one store or be counted
before. With one pool thread the queue of the pool is as congested as it can
be. *Transfers*: chunks of 2 bytes and texts of 0 to 6 give no, one, two and
three chunks, ended by a full or a short one; an address space of 16 puts all
overlaps of buffer, word and the end of memory within reach, and a memory of all
16 bytes the wrap-around; `MaxString` (5) is shorter than the longest text.
`MaxReceived` bounds a guest that asks for ever, which only one without an
offset word can. *Functions*: 9 bits hold the indices of `fibonacci` up to 97
and all its boundaries, and squares of primes for `is_prime`; every `i32` is
tried there. The widths are constants, and the theorems about them hold for the
real ones. *Runtime*: one execution holds the manager, another is abandoned.

Every operation of every part is reached, the ones of the fault switches in the
runs that turn them on. Deadlock is not checked where the system may rest: after
all requests, after a transfer, after a call. Handlers and executions are
interchangeable, so the safety runs use them as symmetry sets; the liveness runs
do not.

Fairness. `FairSpec` of the cache: the cleanup task loops on an interval, so
`CleanupExpired` is weakly fair and nothing else is. `FairSpec` of the service:
the runtime polls each task that can go on (`HandlerStep(h)`, which includes the
timer), SQLite's thread serves what it is handed, the pool's threads take
tasks, and an interpreter that is not endless ends. The pool is fair as a whole:
the queue decides whose task is next. No request, hang-up, failure, restart, clear
or tick is ever owed. `FairSpec` of the transfer: a guest that has begun to pull
goes on (`WF(Pull)`), and a host function runs to its end (`WF(Push)`); nothing
has to begin.

### Findings

* `runaway_program`: `tokio::time::timeout` cannot stop a `spawn_blocking` job
  (`wasm_runtime.rs:516`). The thread stays taken, and the clean-up that the same
  request awaits next needs a thread of the same pool while it holds the manager's
  mutex. With as many endless programs as pool threads (512 by default) no
  request is ever answered again.
* `failed_program`: the exit status of the interpreter is ignored
  (`wasm_runtime.rs:650`), so a failing program is a success and is cached, while
  the log line at `wasm_runtime.rs:252` promises that failures are not.
* `ruby_program`: the interpreter is chosen by patterns in the wrapped text
  (`wasm_runtime.rs:631`). The Ruby wrapper contains `function ` and `=>`, so no
  Ruby program is ever run by Ruby; the test at `http_server.rs:362` expects one
  to print its greeting. `DivertedAsWritten` says exactly which programs go
  where.

Noticed on the way, without a run of their own:

* With `CACHE_CAPACITY=0` the cache holds, and serves, one response;
  `LenBounded` has the exception.
* A restart, a hang-up and an error before the job leave the sandbox directory
  behind for ever; `SandboxReclaimed` states exactly these exceptions.
* `fibonacci` accepts 93 ("max 93 for i64", `host_functions.rs:243`), whose number
  does not fit; `FibonacciExact` has it as the one exception. `random_int`
  overflows for ranges of 2^31 numbers and more.
* `check_memory_bounds` answers 0 for a range that is out of bounds, where the
  tests at `host_functions.rs:577` to 581 expect an error.
* `string_compare` compares lengths and never looks at the strings.
* The offset word is not reset when a transfer ends, so a second transfer with
  the same word fails or panics; with `offset_ptr = 0` a string of more than one
  chunk never ends. `read_string_chunks` compares each chunk, not the string,
  with `buffer_len`, and reads past the buffer of a string of several chunks.
* The default allowed path `./sandbox` is relative, and no canonical path
  starts with it, so `is_path_allowed` admits nothing by default; the blocked
  list never decides anything (lemma `BlockedDecideNothing`).
* In the simulation a lone quote panics (`wasm_runtime.rs:745`), `random_int` with
  `min = max + 1` divides by zero, and `fibonacci` of a negative number never
  ends.
* `main.rs:62` uses the `Option` that `get_warmup_stats` returns as if it were a
  value, and `sandbox.rs:221` the `&str` of `scheme()` as if it were an `Option`; the
  stubs put a memory before their imports, which the text format forbids; the
  engine is configured for async and instantiates synchronously. The models
  follow what the code means in these places.

## 4. The proofs

All theorems hold for every value of the constants that satisfies the named
`ASSUME`s of the modules, which say no more than the types of the constants, with
these exceptions. `CacheAssumption`: the hash maps programs to slots, and
`NoResponse` is no response. `MemorySizesAssumption`: the memory a range is
checked against is smaller than 2^31 bytes. `PathsAssumption` and
`UrlsAssumption`: allowed paths and domains are not empty, and the `url` crate
gives every http URL a host. `I64Assumption`: an `i64` is at least one bit wider
than an `i32`. `NumeralsAssumption`: no numeral is a character the parser looks
for. `LayoutsAssumption`: around an argument a program puts spaces, and either
no quotes or a pair of the same. `FormsAssumption`: what an argument of any form
is, in terms of the text alone. Some of its texts between a quote and the next one
like it are its quotations; they are apart and every quote is in one. Outside of
them a comma is only where brackets are open, all brackets are closed in the end,
and the argument stands for the text without the ends of its quotations,
trimmed, and not empty. Nothing in it mentions the parser.

*Cache.* `CacheTypeCorrect`, `CacheLenBounded` (`ExecutionCacheProofs`): the
inductive invariant is `CacheInv == TypeOK /\ LenBounded`; the bound needs that
the map is finite, the type needs nothing else. The argument is in
`OldestExists` (a non-empty map of positive ages has an oldest entry) and
`MakeRoomBound` (sweeping or evicting leaves fewer than `Capacity` entries).
`GrowthNeedsOneReading` is what remains if clock readings may coincide: a full
cache grows only when all its entries were created at the reading the insert
takes (`MakeRoomShrinks`), which is the growth `TtlMap` admits too.
`CacheKeepsPromise` (`ObservedCacheProofs`): `ObservedSpec` implements `TtlMap`
under `live <- EvictExpired(entries)`. `SurvivorsOfMakeRoom` is the heart: what
`MakeRoom` may leave, seen through the mapping, is what the abstract store may
leave, whether or not there was something to sweep.

*Service.* `ExecutionsExclusive`, `MissedSlotsStayEmpty`
(`ExecutionServiceProofs`): `MissedSlotStaysEmpty` alone is not inductive, an
insert by another executing handler would fill the slot; `MutexInv` adds that the
holder is exactly the handler that executes or records.

`ServiceRunProofs` proves the other invariants of the service runs, for any number
of requests and threads and with every fault: `ServiceTypeCorrect`,
`MutexStaysConsistent`, `CachedAreRuns`, `OwnProgramServed`, `AnswersRecorded`,
`CachedRecorded`, `SandboxesReclaimed`, `SuccessesHappened`. None of them is
inductive. They follow from one invariant, `ServiceInv`, whose parts are

| Part | Says | Needed because |
|---|---|---|
| `StagesOK` | how far files, job, result, response and INSERT of an execution have come at each `pc`; an output is that of the requested program | each step relies on what the steps before have left |
| `PoolOK` | a queued task is the only one of its kind for its handler, which awaits it or has been dropped | a second file task could make a removed directory again, a second job write a second output |
| `LineOK` | the queue of the mutex has each waiting handler once | a handler queued twice would lock the mutex after its end |
| `StoredOK`, `SuccessesOK` | a stored response is the successful one of the execution whose id it bears; every successful response is the output of a run whose program has the hash that was asked for | hits copy stored responses into new ones |
| `TableOK` | the rows are those of the INSERTs that went through | so no id meets an older row, across restarts as well |
| `LookupsOK`, `FaultsOK` | the counters never exceed the handlers that got the mutex; switches that are off have caused nothing | the type invariant; `CachedAreRecorded` |

`ServiceKeepsPromise`: `Spec => ImplementsPromise`. Besides `ServiceInv` it needs
`PromiseInv`: a success that is no hit is the run of its own request; a hit has no
run of its own, and its request and that of the run both allow caching; who has
not arrived has asked for nothing. `OutcomePromised` derives from it that the
response of a handler is an outcome the promise allows and that its row says the
same. One lemma per kind of step (admission, execution, pool, INSERT, answer,
end, restart) maps the step to a step of the clerk or to a stutter, with
`OthersSee` for the clients the step is not about.

`NobodyOvertakes`: of two handlers that wait for the mutex the later one does not
get it first. `LineSteps` says what a step does to the queue: nothing, an entry at
the end, or one handler less, which was the first unless it hung up. The same
lemma keeps `LineOK`.

*Statistics.* `StatsTypeCorrect`, `FailuresAreReal` (`ExecutionStatsProofs`):
`StatsInv` says what the report holds after each query. The total is read before
the successes and rows are only added, so what the report calls failures is
bounded by the failures of the moment the successes were counted, and these only
grow (`RecordingCounted`).

`LanguagesAccountForAll` adds to `StatsInv` that the breakdown, once answered,
covers the totals (`CoverInv`). When it is asked it covers the whole table,
which the totals cannot exceed: `SumOfClasses` says that the sizes of the classes
of a finite set add up to its size. The sum is the fold that
`MapThenSumSet` is, over a set whose elements come in an order nobody knows; the
proof takes a smallest subset for which the sum would be wrong and removes the
element the fold takes first.

`RecentIsRight` adds that the list, once answered, is in the order of the clock
and leaves out no counted row for an older one (`NewestInv`). Its heart is
`TextOrder`: an earlier time has the smaller text, although texts differ in
length. `DecimalsWritten` and `CharactersWritten` say which character is where;
of two texts that agree up to the end of the shorter one's decimals, the shorter
has its `+` there and the other a dot or a digit. An offset written as `Z` would
sort after both: that is the mutant of the run.

*Transfers.* `TransferTypeCorrect`, `PullsInOrder`, `PullsFailAtFirst`,
`PushesInOrder`, `PullsWriteInside` (`StringTransferProofs`) for every chunk size,
memory and text. `TransferInv` says how far the transfer has come: for a guest
that keeps to the protocol the word in memory, read back, is the number of bytes
received, which rests on `FromLe` inverting `ToLe` and on a write to the buffer
leaving the word alone (`PositionInWord`); for any guest it says that after a
first call that succeeded the word is readable, its offset inside the string and
the next chunk inside the buffer (`NextCallSucceeds`), from which
`PullsFailAtFirst` follows. `PullsAdvance`: every call but the last moves the word
by `CHUNK_SIZE` (`WordMoves`: it is written after the chunk, so even a chunk that
overlaps it cannot hold it back), which bounds the number of calls.

*Functions.* `RandomStaysWithin`, `RefusalsAreRight`, `PathsStayBelow`,
`RequestsAreInside` (`FunctionCallsProofs`), for every width and every list.

`FibonacciIsExact`, at full width. `LoopFindsFibs`: the loop holds the number of
each index, as limbs. `ExactSum` and `Comparison`: `Plus` and `AtMost` of limbs
are sum and order of the numbers they stand for. `LastOfI64`: the number of index
92 is below 2^63 and the one of 93 is not, computed eight steps at a time
(`EightSteps`) from 0 and 1.

`PrimesAreFound`, for an `i32` of any width. `RootProperties`: there is a rounded
root and it is what its definition chooses. `SmallDivisor`: one of two factors is
not above it. `CandidatesSuffice`: an odd number has an odd divisor up to its root
if it has any.

`SimulationIsRight` follows a printed call through everything that
`evaluate_host_function` and its callers do with it. `parse_args` is a fold over
the text; `ParseFold` turns it into a run, a state before each character, and
`ReadsOnce` and `ReadsAfter` say that the run of a text is unique and that runs of
parts join. Along the run the parser is `At` a list of arguments, a quote and a
buffer that holds nothing or one numeral: one lemma per character says how that
changes (`SpaceRead`, `QuoteOpened`, `QuoteClosed`, `WordRead`, `CommaRead`), and
`ParsedOne` and `ParsedTwo` what the parser returns. `SimulatedCall`: a written
call is no quoted text, its name ends at the first bracket and its arguments at
the last character. `CallOfOne` and `CallOfTwo` join these. What is left is that
the two implementations agree (`EvaluatedAgrees`): an exact `i32` is an exact
`i64`, the loop of the simulation is the other one shifted by one turn
(`TurnsAgree`), all divisors up to the root decide what the odd ones do
(`PrimesAgree`), and twice a range that fits an `i32` fits an `i64`
(`RandomAgrees`).

`ArgumentsAreRecovered` follows the parser through arguments of any form.
`Midway` is its state after some characters of one: its depth is the number of
brackets opened outside quotations so far less the number closed (`Depth`), its
quote is that of the quotation it is in, and what it has kept is what `Without`
keeps up to there. `CharacterRead` says that each character leads on (`QuotedRead`
in a quotation, `BareRead` outside), with `CountNext` for the brackets; `FormRead`
joins the characters of an argument, and `FormAndComma` and `LastForm` end it.
A comma is read as one of the argument because the depth differs from 0, and the
next argument starts afresh because it is 0 again at its end. `WrittenTwo` and
`WrittenThree` are about the list a call is written with.

The provers cannot instantiate a theorem of induction. Where a fact about a
recursive function or a fold is needed, the proof either takes the least
counterexample (`LeastNumber`, from the well-foundedness of the natural numbers)
or uses `Induction`, which is stated about a set of numbers instead of a predicate.

*Runtime.* `RuntimeTypeCorrect`, `PrewarmedIsLoaded`, `RegistryStable`,
`PanicsExplained`, `DivertedAlways` (`WasmRuntimeProofs`) from `RuntimeInv`, which
adds to the properties that the holder is the executing request and that a live
job's handler executes or has abandoned it (`ManagerInv`), and that what has been
preloaded stays loaded. `InterpreterOfWrapped` computes the
choice of the interpreter for every set of patterns.

Only model-checked: liveness under fairness, which the prover does not do
(`ExpiredEventuallyDropped`, `WaitersServed`, `JobsEnd`, `PullsEnd`).
`NobodyOvertakes` and `PullsAdvance` are the parts of the argument for two of them
that do not need fairness. Every invariant and every action property of the
passing runs is also a theorem, and so are both refinements. No module declares
a recursive operator.

## 5. Not modelled

* Averages of execution times (floating point), `new` and `init` of the database.
* Texts: what wrappers and simulated outputs say beyond the patterns and the
  results that matter, logging, the README of a sandbox directory. What the bridge
  in a wrapper computes is computed by the interpreter.
* HTTP parsing, the listener, environment parsing: plain I/O.
* Compilation by wasmtime is a step that succeeds or fails. The stubs' exports
  are called by nobody; the test client is not part of the service.
* Panics of handlers. One in a job is `FailJob`, since `execute_with_timeout`
  turns the `JoinError` into an error; `WasmRuntime` has where it comes from.
* `build_wasi_ctx`, which nothing calls and which only hands values to a builder;
  the check of UTF-8 in `read_string_safe`.

What SQLite, tokio, chrono, wasmtime and the clock do is modelled from how the
code uses them and marked external.

## 6. Plan

1. Compose `WasmRuntime` with `ExecutionService`, so that a change of the registry
   meets the cache: a response cached before it is served after it.
2. A fair `ExecutionPromise`, under which every client is answered, as the
   liveness half of the refinement (by TLC).
