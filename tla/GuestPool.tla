------------------------------ MODULE GuestPool ------------------------------
(***************************************************************************)
(* handler/middleware.go and handler/state.go: the middleware keeps one    *)
(* Wasm runtime and a sync.Pool of instances (guests) of one compiled      *)
(* module. Concurrent HTTP requests take a guest from the pool, or create  *)
(* one, run its handle_request, let the next handler run, run its          *)
(* handle_response, and put the guest back. The caller that drives this is *)
(* ServeHTTP of handler/nethttp/middleware.go.                             *)
(*                                                                         *)
(* Each request is one goroutine; pc[r] says which part of that code it is *)
(* in. A step ends where another goroutine's step can matter: around       *)
(* pool.Get and pool.Put, the instance counter, the runtime, the           *)
(* unsynchronised m.features, and every call into guest code.              *)
(***************************************************************************)
EXTENDS Integers, FiniteSets

CONSTANTS
  Request,       \* the HTTP requests, each served once
  MaxInstances,  \* bound: instances ever created (cfg: never reached)
  Feature,       \* feature bits a guest may ask for
  StartFeatures, \* features the guest's start function enables
  Results,       \* CtxNext values handle_request may return
  Bodies,        \* body readers and writers the guest may use
  StartMayFail,  \* may instantiation fail?
  GuestMayExit,  \* may a guest call proc_exit, which closes its module?
  HostMayClose,  \* may the host close the middleware while it serves?
  FairRequests   \* requests whose goroutine and guest calls make progress

NoGuest == 0
NoRequest == 0
Guest == 1 .. MaxInstances
CtxNext == [ctx : Nat, next : Nat]
NoResult == [ctx |-> 0, next |-> 0]  \* uint64(0): skip, or an error

RequestBodies  == {"requestReader", "requestWriter"}
ResponseBodies == {"responseReader", "responseWriter"}

ASSUME InstancesAssumption == MaxInstances \in Nat \ {0}
ASSUME FeatureAssumption == StartFeatures \subseteq Feature
ASSUME ResultsAssumption == Results \subseteq CtxNext
ASSUME BodiesAssumption == Bodies \subseteq RequestBodies \cup ResponseBodies
ASSUME SwitchAssumption == {StartMayFail, GuestMayExit, HostMayClose} \subseteq BOOLEAN
ASSUME FairAssumption == FairRequests \subseteq Request

VARIABLES
  phase,            \* of the middleware: "new", "ready" or "failed"
  runtime,          \* wazero runtime: "open" or "closed"
  instanceCounter,  \* m.instanceCounter
  module,           \* Guest -> state of its wazero module
  pool,             \* guests in m.pool
  mfeatures,        \* m.features
  memory,           \* Guest -> what the guest keeps per CtxNext ctx: a request
  pc,               \* Request -> where its goroutine is
  held,             \* Request -> s.g, or the local g before s exists
  seen,             \* Request -> m.features as enable_features read it
  features,         \* Request -> s.features
  opened,           \* Request -> body readers and writers cached in s
  ctxNext           \* Request -> result of HandleRequest

shared  == <<phase, runtime, instanceCounter, module, pool, mfeatures, memory>>
request == <<held, seen, features, opened, ctxNext>>
vars == <<shared, pc, request>>

PC == {"idle", "get", "create", "start", "begin", "guest", "returned",
       "next", "response", "done"}

TypeOK ==
  /\ phase \in {"new", "ready", "failed"}
  /\ runtime \in {"open", "closed"}
  /\ instanceCounter \in 0 .. MaxInstances
  /\ module \in [Guest -> {"none", "starting", "open", "closed"}]
  /\ pool \subseteq Guest
  /\ mfeatures \subseteq Feature
  /\ memory \in [Guest -> [{x.ctx : x \in Results} -> Request \cup {NoRequest}]]
  /\ pc \in [Request -> PC]
  /\ held \in [Request -> Guest \cup {NoGuest}]
  /\ seen \in [Request -> SUBSET Feature]
  /\ features \in [Request -> SUBSET Feature]
  /\ opened \in [Request -> SUBSET Bodies]
  /\ ctxNext \in [Request -> Results \cup {NoResult}]

Init ==
  /\ phase = "new"
  /\ runtime = "open"
  /\ instanceCounter = 0
  /\ module = [g \in Guest |-> "none"]
  /\ pool = {}
  /\ mfeatures = {}
  /\ memory = [g \in Guest |-> [c \in {x.ctx : x \in Results} |-> NoRequest]]
  /\ pc = [r \in Request |-> "idle"]
  /\ held = [r \in Request |-> NoGuest]
  /\ seen = [r \in Request |-> {}]
  /\ features = [r \in Request |-> {}]
  /\ opened = [r \in Request |-> {}]
  /\ ctxNext = [r \in Request |-> NoResult]

-----------------------------------------------------------------------------
(* Helpers of the code *)

Goto(r, label) == pc' = [pc EXCEPT ![r] = label]

WithEnabled(fs, more) == fs \cup more

\* Mutant: the name is the number of open guests plus one, without a counter.
NextNameByCount == Cardinality({g \in Guest : module[g] = "open"}) + 1

\* atomic.AddUint64(&m.instanceCounter, 1): the name of the new module.
NextName == instanceCounter + 1

\* Closing the runtime closes every module it instantiated.
CloseRuntime(mod) ==
  /\ runtime' = "closed"
  /\ module' = [g \in Guest |-> IF mod[g] = "none" THEN "none" ELSE "closed"]

\* Mutant: the reader of the request body is forgotten.
CloseRequestWriter(r) ==
  /\ opened' = [opened EXCEPT ![r] = @ \ {"requestWriter"}]
  /\ UNCHANGED <<pool, held>>

\* requestState.closeRequest: flushes and forgets the request body's reader
\* and writer.
CloseRequest(r) ==
  /\ opened' = [opened EXCEPT ![r] = @ \ RequestBodies]
  /\ UNCHANGED <<pool, held>>

\* Mutant: s.g is cleared before it is put, so the pool receives a nil guest.
CloseClearsFirst(r) ==
  /\ held' = [held EXCEPT ![r] = NoGuest]
  /\ pool' = pool \cup {held'[r]}
  /\ opened' = [opened EXCEPT ![r] = {}]

\* Mutant: only the request body is released.
CloseRequestOnly(r) ==
  /\ pool' = pool \cup ({held[r]} \ {NoGuest})
  /\ held' = [held EXCEPT ![r] = NoGuest]
  /\ opened' = [opened EXCEPT ![r] = @ \ RequestBodies]

\* requestState.Close: the guest goes back to the pool whatever its state,
\* and every body reader and writer is released.
Close(r) ==
  /\ pool' = pool \cup ({held[r]} \ {NoGuest})
  /\ held' = [held EXCEPT ![r] = NoGuest]
  /\ opened' = [opened EXCEPT ![r] = {}]

\* Mutant: the guest is put back although handle_response is yet to come.
DeferredPutsGuest(r, x) ==
  /\ pool' = pool \cup {held[r]}
  /\ opened' = [opened EXCEPT ![r] = {}]
  /\ IF x # NoResult THEN UNCHANGED held ELSE held' = [held EXCEPT ![r] = NoGuest]

\* The deferred function of HandleRequest tests the whole CtxNext value.
Deferred(r, x) == IF x # NoResult THEN CloseRequest(r) ELSE Close(r)

AfterNext(r) == pc[r] = "response"

InGuest(r) == pc[r] \in {"guest", "response"}

\* The guards of read_body and write_body.
Allowed(r, b) ==
  \/ ~AfterNext(r)
  \/ b = "requestReader" /\ "BufferRequest" \in features[r]
  \/ b \in ResponseBodies /\ "BufferResponse" \in features[r]

-----------------------------------------------------------------------------
(* The middleware *)

\* NewMiddleware: one guest is created eagerly and put in the pool. Nothing
\* else runs yet, so its start function's enable_features is not split.
NewMiddleware ==
  /\ phase = "new"
  /\ phase' = "ready"
  /\ instanceCounter' = NextName
  /\ module' = [module EXCEPT ![NextName] = "open"]
  /\ mfeatures' = WithEnabled(mfeatures, StartFeatures)
  /\ pool' = {NextName}
  /\ UNCHANGED <<runtime, memory, pc, request>>

\* The eager guest cannot be instantiated: "fail fast".
NewMiddlewareFails ==
  /\ phase = "new"
  /\ StartMayFail
  /\ phase' = "failed"
  /\ instanceCounter' = NextName
  /\ CloseRuntime([module EXCEPT ![NextName] = "starting"])
  /\ UNCHANGED <<mfeatures, pool, memory, pc, request>>

\* Middleware.Close, which does not wait for requests in flight.
CloseMiddleware ==
  /\ HostMayClose
  /\ phase = "ready"
  /\ runtime = "open"
  /\ CloseRuntime(module)
  /\ UNCHANGED <<phase, instanceCounter, pool, mfeatures, memory, pc, request>>

\* sync.Pool lets the garbage collector drop any pooled item.
PoolDrop(g) ==
  /\ g \in pool
  /\ pool' = pool \ {g}
  /\ UNCHANGED <<phase, runtime, instanceCounter, module, mfeatures, memory, pc, request>>

Reachable(g) == g \in pool \/ \E r \in Request : pc[r] # "done" /\ held[r] = g

\* Mutant: the finalizer is set on the request state instead of the guest.
FinalizeRequestState(g) ==
  /\ module[g] = "open"
  /\ \A r \in Request : pc[r] # "done" => held[r] # g
  /\ module' = [module EXCEPT ![g] = "closed"]
  /\ UNCHANGED <<phase, runtime, instanceCounter, pool, mfeatures, memory, pc, request>>

\* The finalizer getOrCreateGuest sets closes the module of a lost guest.
Finalize(g) ==
  /\ module[g] = "open"
  /\ ~Reachable(g)
  /\ module' = [module EXCEPT ![g] = "closed"]
  /\ UNCHANGED <<phase, runtime, instanceCounter, pool, mfeatures, memory, pc, request>>

-----------------------------------------------------------------------------
(* A request, step by step *)

ServeHTTP(r) ==
  /\ phase = "ready"
  /\ pc[r] = "idle"
  /\ Goto(r, "get")
  /\ UNCHANGED <<shared, request>>

\* Mutant: the guest is looked up but stays in the pool.
PoolPeek(r) ==
  /\ pc[r] = "get"
  /\ \E g \in pool : held' = [held EXCEPT ![r] = g]
  /\ Goto(r, "begin")
  /\ UNCHANGED <<shared, seen, features, opened, ctxNext>>

\* pool.Get returns a pooled guest.
PoolHit(r) ==
  /\ pc[r] = "get"
  /\ \E g \in pool :
       /\ pool' = pool \ {g}
       /\ held' = [held EXCEPT ![r] = g]
  /\ Goto(r, "begin")
  /\ UNCHANGED <<phase, runtime, instanceCounter, module, mfeatures, memory,
                 seen, features, opened, ctxNext>>

\* Mutant: a capped pool, where a request waits while another has the guest.
PoolMissCapped(r) ==
  /\ pc[r] = "get"
  /\ \A q \in Request \ {r} : pc[q] \in {"idle", "get", "done"}
  /\ Goto(r, "create")
  /\ UNCHANGED <<shared, request>>

\* pool.Get returns nil. A sync.Pool may do so even when it holds items.
PoolMiss(r) ==
  /\ pc[r] = "get"
  /\ Goto(r, "create")
  /\ UNCHANGED <<shared, request>>

\* newGuest: the counter names the module; its start function begins to run
\* and enters enable_features without a request state: m.features is read.
NewGuest(r) ==
  /\ pc[r] = "create"
  /\ instanceCounter < MaxInstances
  /\ runtime = "open"
  /\ module[NextName] \notin {"starting", "open"}
  /\ instanceCounter' = NextName
  /\ module' = [module EXCEPT ![NextName] = "starting"]
  /\ held' = [held EXCEPT ![r] = NextName]
  /\ seen' = [seen EXCEPT ![r] = mfeatures]
  /\ Goto(r, "start")
  /\ UNCHANGED <<phase, runtime, pool, mfeatures, memory, features, opened, ctxNext>>

\* newGuest on a closed runtime, or with a module name that is in use. The
\* whole runtime is closed and the request ends with status 500.
NewGuestFails(r) ==
  /\ pc[r] = "create"
  /\ instanceCounter < MaxInstances
  /\ runtime = "closed" \/ module[NextName] \in {"starting", "open"}
  /\ instanceCounter' = NextName
  /\ CloseRuntime(module)
  /\ Goto(r, "done")
  /\ UNCHANGED <<phase, pool, mfeatures, memory, request>>

\* The start function writes m.features back and instantiation succeeds.
StartReturns(r) ==
  /\ pc[r] = "start"
  /\ module[held[r]] = "starting"
  /\ mfeatures' = WithEnabled(seen[r], StartFeatures)
  /\ module' = [module EXCEPT ![held[r]] = "open"]
  /\ Goto(r, "begin")
  /\ UNCHANGED <<phase, runtime, instanceCounter, pool, memory, request>>

\* The start function traps, or its module was closed under it. The request
\* ends with status 500 and every other guest loses its module.
StartFails(r) ==
  /\ pc[r] = "start"
  /\ StartMayFail \/ module[held[r]] = "closed"
  /\ CloseRuntime(module)
  /\ held' = [held EXCEPT ![r] = NoGuest]
  /\ Goto(r, "done")
  /\ UNCHANGED <<phase, instanceCounter, pool, mfeatures, memory, seen, features,
                 opened, ctxNext>>

\* HandleRequest creates the request state and calls handle_request.
HandleRequest(r) ==
  /\ pc[r] = "begin"
  /\ features' = [features EXCEPT ![r] = mfeatures]
  /\ Goto(r, "guest")
  /\ UNCHANGED <<shared, held, seen, opened, ctxNext>>

\* Mutant: a request's enable_features writes the middleware's features.
EnableFeaturesGlobally(r) ==
  /\ InGuest(r)
  /\ \E f \in Feature : mfeatures' = WithEnabled(mfeatures, {f})
  /\ UNCHANGED <<phase, runtime, instanceCounter, module, pool, memory, pc, request>>

\* enable_features called by the guest while it serves the request.
EnableFeatures(r) ==
  /\ InGuest(r)
  /\ \E f \in Feature : features' = [features EXCEPT ![r] = WithEnabled(@, {f})]
  /\ UNCHANGED <<shared, pc, held, seen, opened, ctxNext>>

\* read_body or write_body: the reader or writer is created on first use. A
\* refused call panics, which the guest's caller sees as an error.
UseBody(r) ==
  /\ InGuest(r)
  /\ \E b \in Bodies : Allowed(r, b) /\ opened' = [opened EXCEPT ![r] = @ \cup {b}]
  /\ UNCHANGED <<shared, pc, held, seen, features, ctxNext>>

\* handle_request returns x; the guest has noted the request under x's ctx.
\* The deferred function runs before ServeHTTP sees the result.
HandleRequestReturns(r) ==
  /\ pc[r] = "guest"
  /\ module[held[r]] = "open"
  /\ \E x \in Results :
       /\ memory' = [memory EXCEPT ![held[r]][x.ctx] = r]
       /\ ctxNext' = [ctxNext EXCEPT ![r] = x]
       /\ Deferred(r, x)
  /\ Goto(r, "returned")
  /\ UNCHANGED <<phase, runtime, instanceCounter, module, mfeatures, seen, features>>

\* A guest call fails: a trap or a host function's panic leaves the module as
\* it is, proc_exit closes it, and a call into a closed module always fails.
GuestCallFails(r) ==
  \/ UNCHANGED module
  \/ /\ GuestMayExit
     /\ module' = [module EXCEPT ![held[r]] = "closed"]

HandleRequestFails(r) ==
  /\ pc[r] = "guest"
  /\ GuestCallFails(r)
  /\ ctxNext' = [ctxNext EXCEPT ![r] = NoResult]
  /\ Deferred(r, NoResult)
  /\ Goto(r, "returned")
  /\ UNCHANGED <<phase, runtime, instanceCounter, mfeatures, memory, seen, features>>

\* ServeHTTP tests the low half of CtxNext, and either returns ...
Skip(r) ==
  /\ pc[r] = "returned"
  /\ ctxNext[r].next = 0
  /\ Goto(r, "done")
  /\ UNCHANGED <<shared, request>>

\* ... or calls the next handler, which runs for as long as it likes.
CallNext(r) ==
  /\ pc[r] = "returned"
  /\ ctxNext[r].next # 0
  /\ Goto(r, "next")
  /\ UNCHANGED <<shared, request>>

\* Mutant: handle_response is called on whichever guest the pool has.
HandleResponseAnyGuest(r) ==
  /\ pc[r] = "next"
  /\ \E g \in pool \cup {held[r]} :
       /\ pool' = (pool \cup {held[r]}) \ {g}
       /\ held' = [held EXCEPT ![r] = g]
  /\ Goto(r, "response")
  /\ UNCHANGED <<phase, runtime, instanceCounter, module, mfeatures, memory,
                 seen, features, opened, ctxNext>>

\* The next handler returned or panicked: HandleResponse calls the guest.
HandleResponse(r) ==
  /\ pc[r] = "next"
  /\ Goto(r, "response")
  /\ UNCHANGED <<shared, request>>

HandleResponseReturns(r) ==
  /\ pc[r] = "response"
  /\ module[held[r]] = "open"
  /\ Close(r)
  /\ Goto(r, "done")
  /\ UNCHANGED <<phase, runtime, instanceCounter, module, mfeatures, memory,
                 seen, features, ctxNext>>

\* handle_response fails; ServeHTTP panics after the deferred Close.
HandleResponseFails(r) ==
  /\ pc[r] = "response"
  /\ GuestCallFails(r)
  /\ Close(r)
  /\ Goto(r, "done")
  /\ UNCHANGED <<phase, runtime, instanceCounter, mfeatures, memory, seen,
                 features, ctxNext>>

Acquiring(r) ==
  \/ PoolHit(r) \/ PoolMiss(r) \/ NewGuest(r) \/ NewGuestFails(r)
  \/ StartReturns(r) \/ StartFails(r)

Serving(r) ==
  \/ HandleRequest(r) \/ EnableFeatures(r) \/ UseBody(r)
  \/ HandleRequestReturns(r) \/ HandleRequestFails(r)
  \/ Skip(r) \/ CallNext(r) \/ HandleResponse(r)
  \/ HandleResponseReturns(r) \/ HandleResponseFails(r)

Environment ==
  \/ NewMiddleware \/ NewMiddlewareFails \/ CloseMiddleware
  \/ \E g \in Guest : PoolDrop(g) \/ Finalize(g)

\* Nothing is left to do: every request was served, or none ever can be.
Finished ==
  /\ phase = "failed" \/ \A r \in Request : pc[r] = "done"
  /\ UNCHANGED vars

Next ==
  \/ Environment
  \/ \E r \in Request : ServeHTTP(r) \/ Acquiring(r) \/ Serving(r)
  \/ Finished

\* The goroutines of FairRequests are scheduled and the guest and next-handler
\* calls they make return. The others may hang anywhere, for ever.
Fairness == \A r \in FairRequests : WF_vars(Acquiring(r) \/ Serving(r))

Spec == Init /\ [][Next]_vars /\ Fairness
-----------------------------------------------------------------------------
(* Properties *)

\* From the moment it got a guest until ServeHTTP returns.
Serves(r) == pc[r] \in {"begin", "guest", "returned", "next", "response"}

\* Wasm is not thread-safe (RATIONALE.md, "Guest pool"): a guest is never used
\* by two requests at once, and never handed out while a request may still
\* call it. HandleRequest keeps the guest across the next handler, so what
\* its deferred function and HandleResponse put back, and when, decides this.
Exclusive ==
  /\ \A r \in Request : Serves(r) => held[r] \notin pool
  /\ \A r, q \in Request :
       Serves(r) /\ Serves(q) /\ r # q /\ held[r] = held[q] => held[r] = NoGuest

\* Guest pinning (RATIONALE.md): while the next handler runs and when
\* handle_response is called, the request holds the very guest that served
\* its handle_request, and what that guest noted under the CtxNext ctx is
\* still about this request, whatever other requests did meanwhile.
Pinned ==
  \A r \in Request : pc[r] \in {"next", "response"} =>
    held[r] # NoGuest /\ memory[held[r]][ctxNext[r].ctx] = r

\* "Close releases all resources for the current request" (state.go:48): a
\* request that ServeHTTP is finished with holds no guest and no body reader
\* or writer, on every path through skip, next, error and panic.
Released ==
  \A r \in Request : pc[r] = "done" => held[r] = NoGuest /\ opened[r] = {}

\* closeRequest: when the next handler takes over, the guest's reader and
\* writer of the request body are flushed and closed.
RequestBodyHandedOver ==
  \A r \in Request : pc[r] \in {"returned", "next"} => opened[r] \cap RequestBodies = {}

\* "This value won't change per-request" (middleware.go:42): once the middleware
\* is constructed, neither a request's enable_features nor the unsynchronised
\* read and write of m.features by start functions of guests created
\* concurrently change Middleware.Features.
FeaturesStable == [][phase = "ready" => UNCHANGED mfeatures]_vars

\* newGuest closes the whole runtime when an instantiation fails. As long as
\* start functions succeed and the host does not close it, it never does:
\* the counter gives concurrently created guests distinct module names.
RuntimeSurvives ==
  ~StartMayFail /\ ~HostMayClose => runtime = "open"

\* While the runtime is open and no guest calls proc_exit, every guest in the
\* pool and every guest a request uses is open: no finalizer closes a module
\* that is still reachable, none is handed out half initialised.
UsableGuests ==
  ~GuestMayExit /\ runtime = "open" =>
    /\ \A g \in pool : module[g] = "open"
    /\ \A r \in Request : Serves(r) /\ held[r] # NoGuest => module[held[r]] = "open"

\* The pool is uncapped (RATIONALE.md:12): a request that asks for a guest is
\* finished whatever the others do with theirs, even if they never return.
Terminates == \A r \in FairRequests : pc[r] = "get" ~> pc[r] = "done"

-----------------------------------------------------------------------------
(* GuestPool implements GuestLease *)

BeingCreated(g) == \E r \in Request : pc[r] = "start" /\ held[r] = g
BeingUsed(g) == \E r \in Request : Serves(r) /\ held[r] = g

LeaseStatus ==
  [g \in Guest |->
     IF g \in pool THEN "free"
     ELSE IF BeingUsed(g) THEN "leased"
     ELSE IF g > instanceCounter \/ BeingCreated(g) THEN "unborn"
     ELSE "gone"]

LeaseHolder == [r \in Request |-> IF Serves(r) THEN held[r] ELSE NoGuest]

LeaseLife ==
  [r \in Request |->
     IF pc[r] \in {"idle", "get", "create", "start"} THEN "waiting"
     ELSE IF LeaseHolder[r] # NoGuest THEN "holding"
     ELSE "finished"]

Lease == INSTANCE GuestLease
           WITH status <- LeaseStatus, holder <- LeaseHolder, life <- LeaseLife

\* Every behaviour of the pool is one of the abstract lease: one request per
\* guest, one guest per request, and a lost guest is never handed out again.
ImplementsLease == Lease!Spec
=============================================================================
