# A verification of http-wasm-host-go

http-wasm-host-go lets a Go HTTP server run handlers written in WebAssembly. A
*guest* (an instance of a Wasm module) exports `handle_request` and
`handle_response`; the host calls the first before and the second after the
next HTTP handler, and gives the guest host functions to read and edit the
request and the response. This project models that host in TLA+, checks the
models with TLC, and proves nearly all that it checks with TLAPS: the guest pool for
any number of requests, the response for chains of any length, the request
body, the headers, the construction and the values and lists that cross the
boundary for any bodies, names and bounds, and what the compatibility kit's verdict
says of a host that leaves functions unimplemented.

Paths below are relative to the repository's root, which `PROJECT.json` and the
modules call `src/`.

- [1. The system](#1-the-system)
- [2. The modules](#2-the-modules)
- [3. What each run checks](#3-what-each-run-checks)
- [4. Atomicity, fairness and environment](#4-atomicity-fairness-and-environment)
- [5. What is proved](#5-what-is-proved)
- [6. Where code and documentation disagree](#6-where-code-and-documentation-disagree)
- [7. What is not modelled](#7-what-is-not-modelled)
- [8. Plan](#8-plan)

## 1. The system

| Part | Code | State it keeps | Operations |
| --- | --- | --- | --- |
| Guest pool and request life cycle | `handler/middleware.go`, `handler/state.go` | one Wasm runtime, a `sync.Pool` of guests, an instance counter, `m.features`; per request `s.g`, `s.features`, `s.afterNext` and four cached body readers and writers | `NewMiddleware`, `HandleRequest`, `HandleResponse`, `Close`, `enable_features`, finalizers |
| net/http binding: response | `handler/nethttp/middleware.go`, `buffer.go`, `host.go` | `s.w`, a `bufferingResponseWriter`'s status and body, the deferred release | `ServeHTTP`, `handleNext`, `handleErr`, `set_status_code`, `write_body` |
| net/http binding: request | the same | `r.Body`, a chain of `bufferingRequestBody`, the cached reader and writer | `read_body`, `write_body`, `enable_features`, `handleNext` |
| Headers and trailers | `handler/nethttp/host.go`, `handler/middleware.go` | `r.Header`, `r.Host`, `w.Header()` | `get_header_names`, `get_header_values`, `set_`, `add_header_value`, `remove_header` |
| ABI encoding | `handler/cstring.go`, `handler/middleware.go` | none (the guest's memory) | NUL-terminated lists, limits, `CountLen`, `EOFLen`; `get_config`, `get_method`, `set_method`, `get_uri`, `set_uri`, `get_protocol_version`, `get_source_addr`, `log`, `log_enabled` |
| Construction | `handler/middleware.go`, `handler/options.go` | the runtime, the compiled guest, host modules | `NewMiddleware`, `compileGuest`, `detectImports`, `instantiateHost`, `getOrCreateGuest` |
| ABI and host interfaces | `api/` | none | declarations, features, `CtxNext`, `UnimplementedHost`, loggers |
| Technology compatibility kit | `tck/run.go`, `tck/guest/main.go`, `tck/backend.go` | the test under way, its request and response, the failures reported | `Run` and its tests, `checkResponse`, the guest's `handleRequest`, `BackendHandler` |
| handlertest, examples, test guests | `testing/`, `examples/`, `internal/test/` | none of the running system | unit tests, guests |

**How they interact.** `nethttp.guest.ServeHTTP` runs in one goroutine per
request. It makes a request state of its own (`s.w`, `r.Body`), calls
`HandleRequest` of the middleware, which gets a guest from the pool, makes a
second request state (`s.g`, cached readers and writers) and calls the guest.
The guest calls back: host functions of `handler/middleware.go` check a gate
(`mustBeforeNext`, `mustBeforeNextOrFeature`, `mustHeaderMutable`) and delegate to `nethttp.host`. If
the guest says so `ServeHTTP` calls the next handler, which may be another Wasm
handler with a pool of its own and is given this handler's response writer, and
then `HandleResponse`. What requests share is the pool, the counter, the
runtime and `m.features`; the last one is read and written without
synchronisation. What a guest and the host exchange is numbers and regions of
the guest's memory. `tck.Run` is a client of such a server from outside: its
tests see a host through HTTP responses only.

**What is hard.** Which of two requests has a guest, and when it goes back
(`HandleRequest` keeps it across the next handler, for `HandleResponse`);
`sync.Pool`, which may lose any item and may claim to be empty; one failed
instantiation closing the runtime under everybody; a guest that traps, exits or
never returns; readers and writers that were cached before the next handler
ran, or before a feature was enabled, and are used after it; one handler's
buffer passed to the next handler, which takes it for its own; a body that
arrives in pieces; names in several spellings; results that are as long as the
limit, or reach the last byte of the memory; verdicts that depend on the host
they judge. `PROJECT.json` lists these
hazards, each at its line.

**What makes each part correct.**

- *Pool*: one request per guest at a time; a request keeps one guest from
  `handle_request` to `handle_response`, and the guest still knows it; everything is
  given back on every path; a request never waits for another one's guest;
  the middleware's features and runtime do not change under load.
- *Response*: nothing buffered reaches the client early, everything buffered
  does in the end, once and status first; the first write after the next
  handler overwrites; a failing `handle_request` is answered with 500, a failing
  `handle_response` loses nothing that was buffered.
- *Request body*: the next handler sees the original body or exactly what the
  guest wrote, and the guest then what that handler left of it, or of the body it
  put in its place.
- *Headers*: an edit changes what it says and nothing else, under every
  spelling; the listed names are those with values; a guest that buffers has
  the last word on the fields the client is sent, unless a handler behind it
  releases its buffer.
- *ABI encoding*: a value arrives whole or not at all; lengths, counts and EOF
  agree with what was written; nothing outside the guest's buffer is touched; a
  guest that sets what it read changes nothing.
- *Construction*: what can fail fails there, and leaves no runtime open.
- *Kit*: a conforming host passes; a host that passes conforms; what the guest
  found wrong is reported.

## 2. The modules

`GuestLease` is the abstract specification of the pool: each guest is *unborn*,
*free*, *leased* or *gone*, each request *waiting*, *holding* one guest or
*finished*, and only these steps exist: create a free guest, acquire, return,
abandon, drop, fail to create. It says what the pool promises its caller and
nothing of how.

`GuestPool` is the detailed one. The variables have the names of the code
where it has one:

| Variable | Code |
| --- | --- |
| `runtime`, `module` | the wazero runtime and its modules: closing the runtime closes them all |
| `instanceCounter` | `m.instanceCounter`; guest *i* is the module named "*i*" |
| `pool`, `mfeatures` | the items in `m.pool`; `m.features` |
| `memory` | what a guest keeps in its own memory per `ctx`: the request it last answered with it |
| `pc` | the place of each request's goroutine |
| `held` | `s.g` (before `s` exists, the local `g`) |
| `features`, `opened` | `s.features`; which of the four cached body readers and writers are not nil |
| `seen` | `m.features` as a start function read it, before it writes it back |
| `ctxNext` | the result of `HandleRequest` |

A request goes `idle` → `get` → (`create` → `start` →) `begin` → `guest` →
`returned` → `next` → `response` → `done`; failures shorten it. The operators
`CloseRequest` and `Close` are the functions of `state.go`, `Deferred` is the
deferred function of `HandleRequest`.

`ResponseChain` has one request and a chain of `N` Wasm handlers over an
application. Writers are numbered: 0 is the client's `ResponseWriter`, *i* the
buffer handler *i* created; `out` maps each to a status and a body, which is a
sequence of chunks named after who wrote them in which phase. `w`, `cached`,
`reader` and `release` are `s.w`, `s.responseBodyWriter`, `s.responseBodyReader`
and the buffer `ServeHTTP` deferred the release of; that they can differ is what
the module is about. `Skip`, `RequestFails`, `Proceed`, `HandleResponse` and
`ResponseEnds` are the ways through `ServeHTTP`.

`HeldResponse` is the abstract specification of what buffering promises there: the
client's response only grows and keeps its status; one handler at most *holds* the
response, and while it does the client is sent nothing; what is held is sent in
one step, whole and with its status, or is lost to the next handler that is called. Of
`ResponseChain` it is told which handlers were called (`called`), what the
client's writer has (`client`), and for a handler that buffers, wrote nothing early
and shares its buffer with nobody, what its buffer has (`HeldBy`).

`RequestBody` has one request. Body objects are the client's body, buffers the
guest writes, and `bufferingRequestBody` wrappers around another object; each
knows the object at the end of its chain of delegates (`base`) and the wrappers
a read of it passes. `body`, `reader`, `writer` are `r.Body` and the cached
reader and writer, all numbers of objects, so that they can point to the same or
to different ones. A read takes chunks from the base in pieces, with `io.EOF`
in or after the last one, as `io.Reader` allows. The request is followed
through the next handler into `handle_response`. That handler has the same
`*http.Request`: it reads as much of the body as it likes, closes it, or puts
another in its place (`NextReads`, `NextCloses`, `NextReplaces`), in any order; another
Wasm handler may do each of these. `saw` is the body it had last, and whether that can be read.

`Headers` has one request and the two maps behind the four header kinds, with
canonical, lower-case and other spellings of names, the `Host` field, the
trailer prefix, and the moment the client is sent the fields. The next handler
edits the fields, responds, and may release the guest's buffer, as another Wasm handler
does with the one it is given (`NextReleases`).

`Abi` has operators only: reads and writes of the guest's memory, the limit
rule, NUL-terminated lists with their `CountLen`, and the guest's side of them,
splitting a buffer as the documentation of `CountLen` says. A memory is a
function of its addresses, a word of two 32-bit halves a record.

`Construction` is `NewMiddleware` from its options to the first instance's start
function: `step` is what it did last, `runtime` and `modules` the wazero runtime
and its host modules, and a guest is what its Wasm declares (exports, imports,
memory). `GuestPool` begins where it ends.

`GuestCalls` composes the two: a guest that `Construction` made, from its start
function on, calls the host functions that pass values through its memory.
Each call is two steps, because the guest's choice of offset, limit and input
is one and the host's answer, or its panic, another: `Prepare` and then
`GetString`, `GetHeaderValues`, `Set`, `ReadBody`, `Log` or `LogEnabled`, or
`ExportTraps`. `req` is the `*http.Request` as the host functions see it, with
the escaping, forced question mark and splitting of its URL.

`Tck` is the kit against the host of `handler/nethttp` with any `MaxMissing` of
the functions in `HostFunction` left to `handler.UnimplementedHost`: all that the kit calls, and a
few that it does not; the others of `handler.Host`, which it does not call either, are left out. `at` is whose turn it is:
runner, guest, backend, or runner again to check the response; a `Test*` action
is a test function of the guest, `Wants` what the runner's test checks besides
`checkResponse`, and `w.sent` when a host that does not buffer sends the header.

The data-path modules do not compose with `GuestPool`: a request's state is
touched by its own goroutine only, and which guest runs makes no difference to
it. What they share with it, the phases and the gates, is in each of them.
`MCGuestPool`, `MCRequestBody`, `MCHeaders` and `MCGuestCalls` give TLC constants
a configuration cannot express. `GuestPoolProofs`, `GuestPoolLease`,
`ResponseChainProofs`, `RequestBodyProofs`, `HeadersProofs`, `AbiProofs`,
`GuestCallsProofs` and `TckProofs` hold the proofs.

Operators marked *Mutant* stand before a definition and are no part of the
specification: each is the definition with a plausible bug, with which the
property it is paired with in `PROJECT.json` fails.

## 3. What each run checks

| Run | Bounds | Shows |
| --- | --- | --- |
| `pool_exclusive` | 3 requests, 4 instances, symmetric | `Exclusive`, `Pinned`, `RuntimeSurvives`, `UsableGuests`: with pool hits, misses, evictions and finalizers between any two steps, no guest serves two requests, guests in use are not closed, and module names do not collide |
| `pool_lease` | 2 requests, 3 instances, request reader and writer, response writer, both buffering features, every failure | `Released`, `RequestBodyHandedOver`, `FeaturesStable`, `Terminates`, and `ImplementsLease`: the refinement of `GuestLease` |
| `chain` | 2 handlers, 2 writes per guest and phase, failing `closeRequest` | `Withheld`, `Delivered`, `ReadsWhatNextWrote`, `FirstWriteOverwrites`, `RequestFailureIs500`, and `ImplementsHeld`: the refinement of `HeldResponse` |
| `body` | body of 3 chunks, limits 1, 2 and 4, 5 objects, 2 writes | `UntouchedOrWholeIsSeen`, `WrittenIsSeen`, `RestIsRead` |
| `headers` | 2 fields in 2 spellings, 1 trailer, 1 value, 2 values per field | `HeadersEditedAsDocumented`, `NamesAgreeWithValues`, `LastWordOnHeaders` |
| `calls` | 4 bytes of memory, offsets 0, 1 and 3, limits 0, 2, 3 and 4, 1 value set, 14 guests, 2 options, 3 runtimes, 2 requests | construction: `NoRuntimeLeaks`, `ImportsProvided`, `ReadyIsServable`; calls: `StringsArrive`, `ListsArrive`, `NothingElseWritten`, `BodyInOrder`, `UriReadBack` |
| `tck` | every host that lacks at most 2 of the functions in `HostFunction`, 2 protocols | `ConformingHostPasses`, `PassingHostConforms`, `ObjectionsAreReported` |

Each of `pool_exclusive`, `chain`, `body`, `headers`, `calls` and `tck` also checks the type
invariant of its module. The five runs `pool_leak`, `chain_nested`,
`chain_overwrite`, `body_pieces` and `headers_trailers` each find a sentence of
the documentation violated (section 6). Each has the smallest constants in which
the disagreement appears.

**Why the bounds are enough.** In the pool runs `MaxInstances` is the number of
requests plus one. A request creates at most one instance and the middleware
one ahead of them, so the bound is never reached and no step is cut off. Three
requests are needed for one to take a guest that a second returns while a third
holds another; two are enough for the refinement, whose mapping treats one
request and one guest at a time, and section 5 proves these properties for any
number. One `CtxNext` with a `ctx` and one without are enough to tell a note
of this request from one of another. Each request is served once: a request
served again is another request.

In `ResponseChain` two handlers are the least in which one is given the other's
buffer, as delegate or as `s.w`; a third could only repeat that. Two writes per
phase tell "overwrites once" from "always overwrites" and from "appends".
`RequestBody` needs three chunks to tell a first, a middle and a last piece; the
limits lie below, at and above what is left; five objects are the client's
body, one buffer and three wrappers, one of them outside and one inside the
buffer. In `Headers` one field has all edits and the other is `Host`; a list of
two values tells set from add.

In `GuestCalls` a memory of four bytes holds the longest value exactly; the
offsets and limits put a buffer at its start, at its very end and across its end,
and make it one byte too short, exact, longer than needed, or empty. One value
set per request is enough: what a guest set is in the state in which the
properties read it back, and setting another would only replace it or add a
third value to a list that has two. The
guests are one for every set of imports and one for every defect of `compileGuest`'s
checks. In `Tck` two missing functions are the least in which one can hide
another, which they do (`SetStatusCode` hides what only the guest sees); three
could only hide one in two ways.

The properties of the passing runs state their conditions openly, and where a
condition is there because the unconditional sentence of the documentation
fails, a run for the unconditional one is next to it: `Withheld` has `~Shared`
and `~early`, `BufferedIsWithheld` only the latter; `FirstWriteOverwrites` has
`~early`, `FirstWriteAfterNextOverwrites` has not; `UntouchedOrWholeIsSeen` is
weaker than `NextSeesOriginal`; `HeadersEditedAsDocumented` leaves out trailers,
which `AddKeepsTheOthers` is about, and the `Host` of a request, which no edit reaches.
`LastWordOnHeaders` has the condition that no handler behind the guest released its
buffer, which is what `chain_nested` shows of the response; `RestIsRead` that the client's
body was not closed, after which `read_body` traps; `RequestFailureIs500` is not about
`handle_response`, whose failure makes `ServeHTTP` panic and leaves the client with what was buffered (`Delivered`). `ReadsWhatNextWrote` has the condition that no
reader was taken before, since that keeps what the buffer held then; `ListsArrive`
that no value has a NUL, which nothing rejects when a guest sets it;
`PassingHostConforms` and `ObjectionsAreReported` that the host can set a status
code, without which the runner is told of none of the failures the guest
found. `early` is in `Withheld` because a guest may
write the response in `handle_request`, before it enables the buffering, and the
client then has it, as documented.

`CHECK_DEADLOCK` is on everywhere: the states in which a system really is
finished have an explicit stuttering step (`Finished`, `Answered`, `Failed`,
`Ended`), and any
other state without a successor is an error. In `pool_lease` that
includes every combination of failures.

## 4. Atomicity, fairness and environment

**Atomicity.** In `GuestPool` an action ends before the next step another
goroutine's action can matter to: `pool.Get`, the counter, instantiation, the
read and the write of `m.features` by a start function, each call into a
guest, its return together with the deferred function, and the test of the
result. `HandleRequest`'s deferred function is one step with the return of the
guest call: between the two the goroutine touches only its own request state,
and the `pool.Put` in it is the only step others see. `pool.Get` returns nil
nondeterministically, also when the pool is not empty, because `sync.Pool` keeps
items per processor and may drop any of them. The other modules are about one
goroutine at a time; their steps are the calls of guest, host, application,
runner and backend.

`m.features` is read by `HandleRequest` and read and written by start functions
of guests created under load, a data race in Go. The model splits the read from
the write. That all guests are instances of one compiled module, with the same
start function, is why the race cannot change the value: `StartFeatures` is a
constant.

**Failures.** A start function may fail (`StartMayFail`), a guest may trap,
panic in a host function or call `proc_exit` (`GuestMayExit`), and the host may
close the middleware under load (`HostMayClose`). Each is a constant, so that
`RuntimeSurvives` and `UsableGuests` can be stated under the conditions they
need.

**Fairness.** Only `Terminates` needs it: weak fairness of
`Acquiring(r) \/ Serving(r)` for the requests in `FairRequests`. The Go scheduler
justifies it for the host's own code. That a guest call and the next handler
return is an assumption about them, which the host does nothing to enforce (it
has no timeouts), and so it is made for `FairRequests` only. In `pool_lease`
that is one of the two requests: the other may hang anywhere for ever, holding a
guest, and the first one still finishes, because the pool is not capped. The
middleware's steps and the garbage collector are not fair at all.

**Environment.** A guest may call any host function any number of times, within
the bounds, in any order, and return any `CtxNext` of `Results`. A call whose
gate refuses it panics, which `HandleRequestFails`, `RequestFails` and their
`handle_response` counterparts stand for. net/http's own rules (the first status wins, header fields
are sent once) are external and modelled from the contract `nethttp` relies on.

## 5. What is proved

| Theorem | Statement | Module |
| --- | --- | --- |
| `TypeCorrect` | `Spec => []TypeOK` | `GuestPool` |
| `ExclusiveGuests` | `Spec => []Exclusive` | |
| `GuestsPinned` | `Spec => []Pinned` | |
| `RequestsReleased` | `Spec => [](WellFormed => Released)` | |
| `RequestBodiesHandedOver` | `Spec => []RequestBodyHandedOver` | |
| `FeaturesNeverChange` | `Spec => FeaturesStable` | |
| `RuntimeStaysOpen` | `Spec => []RuntimeSurvives` | |
| `GuestsUsable` | `Spec => []UsableGuests` | |
| `PoolImplementsLease` | `Spec => ImplementsLease` | |
| `ResponseChainTypes` | `Spec => []TypeOK` | `ResponseChain` |
| `NothingIsSentEarly` | `Spec => []Withheld` | |
| `BufferIsDelivered` | `Spec => []Delivered` | |
| `NextIsRead` | `Spec => []ReadsWhatNextWrote` | |
| `NextIsOverwritten` | `Spec => []FirstWriteOverwrites` | |
| `FailureIsReported` | `Spec => RequestFailureIs500` | |
| `ChainImplementsHeld` | `Spec => ImplementsHeld` | |
| `RequestBodyTypes` | `Spec => []TypeOK` | `RequestBody` |
| `OriginalIsKept` | `Spec => []UntouchedOrWholeIsSeen` | |
| `WrittenReplaces` | `Spec => []WrittenIsSeen` | |
| `HandlerLeavesTheRest` | `Spec => []RestIsRead` | |
| `HeaderTypes` | `Spec => []TypeOK` | `Headers` |
| `HeaderEditsAreExact` | `Spec => HeadersEditedAsDocumented` | |
| `GuestHasLastWord` | `Spec => []LastWordOnHeaders` | |
| `NamesAndValuesAgree` | `Spec => []NamesAgreeWithValues` | |
| `RuntimeIsClosed` | `Spec => []NoRuntimeLeaks` | `GuestCalls` |
| `HostIsProvided` | `Spec => []ImportsProvided` | |
| `ReadyIsReady` | `Spec => []ReadyIsServable` | |
| `BodyIsReadInOrder` | `Spec => []BodyInOrder` | |
| `StringsAreWhole` | `Spec => []StringsArrive` | |
| `TypeCorrect` | `Spec => []TypeOK` | |
| `ListsAreWhole` | `Spec => []ListsArrive` | |
| `BuffersAreBounds` | `Spec => NothingElseWritten` | |
| `UrisRoundTrip` | `Spec => []UriReadBack` | |
| `ListSplits` | a list without NUL in a value has as many terminators as values and splits into them | `Abi` |
| `TypeCorrect` | `Spec => []TypeOK` | `Tck` |
| `ConformingPasses` | `Spec => []ConformingHostPasses` | |
| `PassingConforms` | `Spec => []PassingHostConforms` | |
| `FailsAreReported` | `Spec => []ObjectionsAreReported` | |

The theorems about `GuestPool` hold for any set of requests, any bound on
instances, any features and any guest; those about `ResponseChain` for chains of
any length and any number of writes; those about `RequestBody` for a body of any
length, any limits and any number of body objects; those about `Headers` for
any names, spellings and values; those about `GuestCalls` for a memory of any
size, any guests, options, requests, inputs, offsets and limits; `ListSplits` for lists
of any length; those about `Tck` for hosts that lack any set of the
functions in `HostFunction` (any `MaxMissing`). They rest on
the assumptions of the modules that declare the constants, which say no more
than their types, but for four:

- `NameAssumption`: a name, its canonical and its lower-case form have one
  canonical and one lower-case form, and `Host` is canonical;
- `OriginalAssumption`: the client's body is not empty;
- `BytesAssumption`: the five bytes that have a meaning in a URI, or that the host
  writes itself, are bytes and not NUL;
- `CallsAssumption`: the clients' URLs are such as net/http's parser makes of a request
  line (`Parsed`): a path that starts with a slash if it is not empty, without the bytes that end
  or escape it, and `ForceQuery` for an empty query only. The request line `*` and
  those with an absolute URL, which a proxy would get, are left out.

None needs fairness, or the requests to be finitely many.

`WellFormed` says that a guest that skips the next handler returns the whole
value zero. `Released` is false without it (run `pool_leak`).

**The argument for the pool.** Each step cites the ones before.

1. `TypeInv` is `TypeOK` with `PhaseInv`, that there are no instances and no
   started requests before construction: without it the eager guest might be
   given a number beyond `Guest`.
2. `ClaimInv`. `Exclusive` is not inductive. It speaks of requests that serve;
   `StartReturns` makes a request serve, so the claim must hold from the moment
   a request's instance has a name, and `NewGuest` takes the counter's next
   number, so every guest in the pool or held must carry a number the counter
   has reached. `ClaimInv` says both.
3. `RequestInv` says what holds of one request at each place of its goroutine:
   when it holds a guest, which readers and writers are cached, and, after
   `handle_request` returned, that its guest's note under its `ctx` is about it.
   That no other request overwrites the note is `ClaimInv`: only who claims a
   guest runs it. `Pinned`, `Released` and `RequestBodyHandedOver` are lines of
   `RequestInv` at different places; each needs the lines of the places before.
4. `FeaturesInv`: once the middleware is ready `m.features` *is* `StartFeatures`,
   and so is what every start function has read. A stale write back is then
   harmless.
5. `RuntimeInv` relates modules to who may reach them: without failures a pooled
   guest and one in use are open, one being created is starting, and every
   number beyond the counter is no module yet, so that the names of two
   instances never collide. The finalizer closes unreachable guests only, and a
   guest that is pooled or claimed is reachable.
6. `PoolImplementsLease`. The mapping reads a guest's status off the pool, the
   requests that serve with it and the counter. Four lemmas (`AcquireStep`,
   `FinishStep`, `FailStep`, `UnseenStep`) say which changes of one request and
   one guest are which step of the lease; each action of the pool is then shown
   to be one of those changes. `ClaimInv` gives that the other requests have
   nothing to do with the guest, `RequestInv` that a request that finishes with
   a guest has one.

**The argument for the response.** Everything rests on `ControlInv`, which,
but for its types, says nothing of what the writers hold:

1. `OrderInv`: the handlers run one inside the other. All but one of those in a
   call are in `next`, so a step is one of a single handler with nobody awake in
   front of or behind it.
2. `WriterInv`, `ReleaseInv`, `CacheInv` and `ReaderInv`: a handler's writer is
   the one it was given, or a buffer of its own if that is the client's; the deferred
   buffer is still `s.w`, and that of every handler called since; unless the guest
   wrote before the next handler, the response body writer is created by its
   first write after it; and a reader taken in `handle_response` has been read.
3. The operators on writers (`WriteHeader`, `Write`, `Release`, `HandleErr`) are each
   shown once to change one writer, to what (`Effect`). Lemmas `StepElsewhere` and
   `NobodyElse` then dispose of all the steps of handlers that have nothing to do
   with a buffer.
4. `Withheld`, `ReadsWhatNextWrote` and `FirstWriteOverwrites` are about handlers
   in a phase that is over later, and `Delivered` about what is so after it: each gets an
   invariant of one handler (`WithheldInv`, `DeliveredInv`, `ReadsInv`,
   `OverwritesInv`) that says what holds on the way. The delegate of a buffer that
   nobody shares is the client's writer, because a handler that is given a
   buffer makes none of its own; so nothing between it and the client can hold
   back or repeat what it releases.
5. `ChainImplementsHeld`. That the client's response only grows is shown of each
   operator on writers (`HeaderLater`, `WriteLater`, `DeferredLater` and the others) and
   composed (`LaterThan`, since growing is transitive). A handler that holds the response is the
   last that was called (`Holder`, by `ReleaseInv`), so there is one at most
   (`OneHolder`). It begins by letting the next handler run, which nobody does while
   another holds the response (`HolderBefore`, `NobodyProceeds`), and ends by returning or by the
   call of another (`HolderAfter`, `CallStep`); in between `WithheldInv` is that the client
   is sent nothing, and `SendStep` that all of the buffer goes to the client at the end.
   The abstract specification has `called` for one reason: without it a handler could stop
   holding the response at any time, and what was held could be lost.

**The argument for the request body.** `ObjectInv` describes the graph of body
objects: delegates are older, the base of a chain does not wrap, and the
wrappers a read passes end in the same base. A step either creates an object
(`Grow`) or changes what objects hold (`Keep`), and both preserve it. What the
next handler sees needs three facts of what went before: `UnwrittenInv` (while
the guest wrote nothing the client's body is at the end of `r.Body`, and the
buffers are empty, or the outermost one has all of it), `WrittenInv` (once it
wrote, the cached writer is at the end of `r.Body`, with what it wrote, and no
wrapper around it holds anything), and `RestInv` (from the call of the next handler on,
what that took, what the guest was told, and what is left make up the body the next
handler was given or put in its place, no reader is cached before `handle_response`, and
one that is, is over the same base as `r.Body`).

**The argument for the headers.** An edit goes through `Put`, which changes one of
three maps at one place. `RequestEdited` and `ResponseEdited` show for each of
the four kinds what a guest reads there before and after: two spellings meet
exactly if their canonical forms are one, and `Host` is the one name that is
not read from the map that is edited. `LastWordOnHeaders` is about the end of
`ServeHTTP` and needs `LastWordInv` on the way there: a buffer whose release was
deferred stays, and so nothing is sent before, unless the next handler releases it. `NamesAgreeWithValues` needs that
two names with one lower-case form have one canonical form.

**The argument for the calls.** The construction's three invariants are about its own
steps; the only work is that no call of a guest touches them. `CallInv` is the
type of what a call depends on, with the fact that an answer starts from the
memory the guest prepared; `TypeCorrect` adds what no other property needs.
`StringsArrive` then is what `Write` does (`Abi`), `NothingElseWritten` that every
answer is one such write of no more than its result says, and none if that is over the
limit, and `BodyInOrder` that `ReadBody` moves a prefix of `rest` to `got`, through the memory,
as much as was asked for unless it says EOF.

`UriReadBack` holds of the URLs a parser produces and not of every record of their
type, so its invariant is `UrlInv`: `req.url` is always `Parsed`, since `SetURI` puts
there what it parsed. What remains is a fact without state, `UriRoundTrip`: the
path is escaped so that no question mark of its own is left in it, the first one in the URI is
therefore where the parser splits it, and unescaping undoes the escaping byte by byte.

**The argument for lists.** `ByteCount` and `Terminated` are folds, and the guest's
side (`Strings`) is recursive over the positions of the terminators. The library's
induction theorems cannot be instantiated by the provers, so `AbiProofs` makes its own out
of the least element of a set of naturals: `Induction` and `Recursion` take a *set* and
a *function* where the library's take an operator. `Recursion` gives, for a list, the
function `J` of the bytes written after each of its values (`Joins`); `Terminated` is its last
value, `ByteCount` the length of that, and `NextTerminator` says that without a NUL in a
value the first terminator after `J[k-1]` is the last byte of `J[k]`. So the guest cuts where the
host joined, the empty values included. `ListsArrive` is this with `Write`.

**The argument for the kit.** A verdict is about a host, which does not change,
and so the invariant (`KitInv`) predicts it. `Needs` gives for each test the
functions without which it must be reported; a test is `Flawed` if the host lacks
one of them. The response under way is at each turn `Deserved`: what is left of the
test will find nothing wrong with it if all that the host lacks is unused by the
kit, and will find something if the test is flawed. The flaw is there already when
the guest is done, in the response or in the request that the backend echoes.
Hence of the tests that are done every flawed one is reported, and none at all of a
conforming host (`ConformingHostPasses`). For `PassingHostConforms`,
`RunIsAllTests` shows that `Run` has every test, and `EachIsTested` that each function
is needed by one of them. `ObjectionsAreReported` needs that a failing guest's
status 500 lasts until the check: no later call of the test changes it.

**Only model-checked**

- `Terminates`: it is a liveness property, and rests on fairness, hence on `ENABLED`,
  which is out of the prover's reach. Run `pool_lease` checks it for two requests.
- The five counterexamples, which are behaviours and need no proof.

Every other property of a passing run is a theorem.

## 6. Where code and documentation disagree

| Run | Documentation | Code |
| --- | --- | --- |
| `pool_leak` | `Close` releases everything; a non-zero `CtxNext` "will call the next handler" | the host tests the whole value in one place and its low half in another, so `next=0` with a `ctx` loses the guest and leaves the response writer unflushed |
| `chain_nested` | a buffered response is not sent immediately | an inner buffering handler releases the outer one's buffer, which the outer one then sends again |
| `chain_overwrite` | the first write after next overwrites | not if the guest also wrote before next: the cached writer is used again |
| `body_pieces` | "buffers anything read from the delegate" | only a piece that came with an error, that is `io.EOF`, is kept |
| `headers_trailers` | `add_header_value` adds | for trailers it overwrites |

The full quotations are under "findings" in `PROJECT.json`. The models also show
behaviours the documentation is silent about, or about which it says too little
to be refuted:

- after a failing `closeRequest` the error is sent *and* the next handler called;
- an edit of a request's `Host` reaches nobody: it is read from `r.Host` and set in
  `r.Header`;
- request trailers are kept in the response's header map;
- a guest that called `proc_exit` goes back to the pool closed, and fails every
  request that gets it;
- `enable_features(FeatureBufferResponse)` in `handle_response` opens the gate of
  the response's body and status, and what is written there is lost, since the
  buffer to release was chosen before;
- after a failing `handle_response` the client is sent what was buffered, with its
  status, while `ServeHTTP` panics;
- a handler that closes the body it was given, as a proxy or another Wasm handler
  does, leaves the guest nothing to read in `handle_response`: `read_body` traps;
- a header value with a NUL is accepted when set and split when listed;
- a string that fits the limit but not the memory is not written, while its
  length is returned as if it were;
- the kit's runner panics when a request of its client fails, and reports none of
  the failures that only its guest can see for a host that cannot set a status
  code.

## 7. What is not modelled

- *Handler test suite* (`testing/handlertest`): unit tests of one `handler.Host`
  function each, without a state of their own.
- *Examples and test guests*: guests are the environment of every module; the
  models let them do anything the ABI allows, but for `tck/guest`, which is part
  of `Tck`.
- `Features.String`, error messages, and what is logged: wording.
- *Starting the kit's backend* on an address, and its flags: I/O.
- Names that are not valid header field names, such as `Trailer:x` used as a
  header, and the order of listed names.
- Integer widths: lengths are below 2^32, because the memory they must fit in is;
  offsets and lengths are compared without wrapping around, as wazero does with
  64 bits.
- Closing the middleware while it is constructed: `NewMiddleware` has not
  returned it yet.

## 8. Plan

The order was: the pool first, since it is the only part where requests meet,
with its abstract specification and proofs; then the response, the request body
and the headers, each against the sentences of `api/handler` about it; then what
crosses the boundary, construction and the kit; then the proofs of the data path,
of the lists and of the kit.
What could be added: properties for two hazards without one, the panic of the next
handler that becomes an ordinary response and a failing `closeRequest`, after which
the next handler is called all the same. Both are actions of `ResponseChain`; what the client should receive is for
the project to decide.

To run a check: `tlc -config MCGuestPool_lease.cfg MCGuestPool`; to check proofs:
`tlapm GuestPoolLease.tla`.
