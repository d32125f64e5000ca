--------------------------- MODULE GuestPoolProofs ---------------------------
(***************************************************************************)
(* Theorems about GuestPool, for any set of requests, any number of        *)
(* instances and any guest: that no guest is shared, what each request is  *)
(* guaranteed (its guest is pinned, its body is handed over, what it used  *)
(* is released), and what the requests share (the features, the runtime,   *)
(* the modules of the guests).                                             *)
(***************************************************************************)
EXTENDS GuestPool, TLAPS

-----------------------------------------------------------------------------
(* Types *)

\* Before the middleware is constructed there is no guest and no request.
PhaseInv ==
  phase = "new" => instanceCounter = 0 /\ \A r \in Request : pc[r] = "idle"

TypeInv == TypeOK /\ PhaseInv

\* The constants, as NewMiddleware and its caller choose them.
LEMMA Constants ==
  /\ MaxInstances \in Nat \ {0}
  /\ StartFeatures \subseteq Feature
  /\ Results \subseteq [ctx : Nat, next : Nat]
BY InstancesAssumption, FeatureAssumption, ResultsAssumption DEF CtxNext

\* Middleware, runtime and garbage collector leave the types alone.
LEMMA TypeEnvironment ==
  ASSUME TypeInv, Environment
  PROVE  TypeInv'
<1>1. CASE NewMiddleware
  <2>1. instanceCounter' \in 0 .. MaxInstances /\ pool' \subseteq Guest
    BY <1>1, Constants DEF TypeInv, PhaseInv, NewMiddleware, NextName, Guest
  <2>2. module' \in [Guest -> {"none", "starting", "open", "closed"}]
    BY <1>1 DEF TypeInv, TypeOK, NewMiddleware
  <2>3. mfeatures' \subseteq Feature
    BY <1>1, Constants DEF TypeInv, TypeOK, NewMiddleware, WithEnabled
  <2> QED
    BY <1>1, <2>1, <2>2, <2>3, Constants
    DEF TypeInv, TypeOK, PhaseInv, NewMiddleware, Guest, request
<1>2. CASE NewMiddlewareFails
  <2>1. instanceCounter' \in 0 .. MaxInstances
    BY <1>2, Constants DEF TypeInv, PhaseInv, NewMiddlewareFails, NextName
  <2>2. module' \in [Guest -> {"none", "starting", "open", "closed"}]
    BY <1>2 DEF TypeInv, TypeOK, NewMiddlewareFails, CloseRuntime
  <2> QED
    BY <1>2, <2>1, <2>2, Constants
    DEF TypeInv, TypeOK, PhaseInv, NewMiddlewareFails, CloseRuntime, request
<1>3. CASE CloseMiddleware
  BY <1>3 DEF TypeInv, TypeOK, PhaseInv, CloseMiddleware, CloseRuntime, request
<1>4. ASSUME NEW g \in Guest, PoolDrop(g) PROVE TypeInv'
  BY <1>4 DEF TypeInv, TypeOK, PhaseInv, PoolDrop, request
<1>5. ASSUME NEW g \in Guest, Finalize(g) PROVE TypeInv'
  BY <1>5 DEF TypeInv, TypeOK, PhaseInv, Finalize, request
<1> QED
  BY <1>1, <1>2, <1>3, <1>4, <1>5 DEF Environment

\* A request that is not idle was let in by a middleware that is ready.
LEMMA Constructed ==
  ASSUME TypeInv, NEW r \in Request, pc[r] # "idle"
  PROVE  phase # "new"
BY DEF TypeInv, PhaseInv

LEMMA TypeAcquiring ==
  ASSUME TypeInv, NEW r \in Request, Acquiring(r)
  PROVE  TypeInv'
<1>0. phase # "new" /\ phase' = phase
  BY Constructed
  DEF Acquiring, PoolHit, PoolMiss, NewGuest, NewGuestFails, StartReturns, StartFails, shared
<1>1. CASE PoolHit(r)
  BY <1>0, <1>1 DEF TypeInv, TypeOK, PhaseInv, PoolHit, Goto, PC
<1>2. CASE PoolMiss(r)
  BY <1>0, <1>2 DEF TypeInv, TypeOK, PhaseInv, PoolMiss, Goto, PC, shared, request
<1>3. CASE NewGuest(r)
  <2>1. instanceCounter' \in 0 .. MaxInstances /\ instanceCounter' \in Guest
    BY <1>3, Constants DEF TypeInv, TypeOK, NewGuest, NextName, Guest
  <2>2. held' \in [Request -> Guest \cup {NoGuest}]
    BY <1>3, <2>1 DEF TypeInv, TypeOK, NewGuest
  <2> QED
    BY <1>0, <1>3, <2>1, <2>2 DEF TypeInv, TypeOK, PhaseInv, NewGuest, Goto, PC
<1>4. CASE NewGuestFails(r)
  <2>1. instanceCounter' \in 0 .. MaxInstances
    BY <1>4, Constants DEF TypeInv, TypeOK, NewGuestFails, NextName
  <2> QED
    BY <1>0, <1>4, <2>1
    DEF TypeInv, TypeOK, PhaseInv, NewGuestFails, CloseRuntime, Goto, PC, request
<1>5. CASE StartReturns(r)
  <2>1. mfeatures' \subseteq Feature
    BY <1>5, Constants DEF TypeInv, TypeOK, StartReturns, WithEnabled
  <2> QED
    BY <1>0, <1>5, <2>1 DEF TypeInv, TypeOK, PhaseInv, StartReturns, Goto, PC, request
<1>6. CASE StartFails(r)
  BY <1>0, <1>6 DEF TypeInv, TypeOK, PhaseInv, StartFails, CloseRuntime, Goto, PC
<1> QED
  BY <1>1, <1>2, <1>3, <1>4, <1>5, <1>6 DEF Acquiring

\* What the deferred function and Close do to the pool, a request's guest and
\* its body readers and writers has the right type.
LEMMA TypeClose ==
  ASSUME TypeOK, NEW r \in Request, Close(r)
  PROVE  /\ pool' \subseteq Guest
         /\ held' \in [Request -> Guest \cup {NoGuest}]
         /\ opened' \in [Request -> SUBSET Bodies]
BY DEF TypeOK, Close

LEMMA TypeDeferred ==
  ASSUME TypeOK, NEW r \in Request, NEW x, Deferred(r, x)
  PROVE  /\ pool' \subseteq Guest
         /\ held' \in [Request -> Guest \cup {NoGuest}]
         /\ opened' \in [Request -> SUBSET Bodies]
<1>1. CASE x # NoResult
  BY <1>1 DEF TypeOK, Deferred, CloseRequest
<1>2. CASE x = NoResult
  BY <1>2, TypeClose DEF Deferred
<1> QED
  BY <1>1, <1>2

LEMMA TypeServing ==
  ASSUME TypeInv, NEW r \in Request, Serving(r)
  PROVE  TypeInv'
<1>0. phase # "new" /\ phase' = phase
  BY Constructed
  DEF Serving, HandleRequest, EnableFeatures, InGuest, UseBody, HandleRequestReturns,
      HandleRequestFails, Skip, CallNext, HandleResponse, HandleResponseReturns,
      HandleResponseFails, shared
<1>1. CASE HandleRequest(r)
  BY <1>0, <1>1 DEF TypeInv, TypeOK, PhaseInv, HandleRequest, Goto, PC, shared
<1>2. CASE EnableFeatures(r)
  <2>1. PICK f \in Feature : features' = [features EXCEPT ![r] = @ \cup {f}]
    BY <1>2 DEF EnableFeatures, WithEnabled
  <2>2. features' \in [Request -> SUBSET Feature]
    BY <2>1 DEF TypeInv, TypeOK
  <2> QED
    BY <1>0, <1>2, <2>2 DEF TypeInv, TypeOK, PhaseInv, EnableFeatures, shared
<1>3. CASE UseBody(r)
  <2>1. PICK b \in Bodies : opened' = [opened EXCEPT ![r] = @ \cup {b}]
    BY <1>3 DEF UseBody
  <2>2. opened' \in [Request -> SUBSET Bodies]
    BY <2>1 DEF TypeInv, TypeOK
  <2> QED
    BY <1>0, <1>3, <2>2 DEF TypeInv, TypeOK, PhaseInv, UseBody, shared
<1>4. CASE HandleRequestReturns(r)
  <2>1. PICK x \in Results :
          /\ memory' = [memory EXCEPT ![held[r]][x.ctx] = r]
          /\ ctxNext' = [ctxNext EXCEPT ![r] = x]
          /\ Deferred(r, x)
    BY <1>4 DEF HandleRequestReturns
  <2>2. memory' \in [Guest -> [{y.ctx : y \in Results} -> Request \cup {NoRequest}]]
    BY <2>1 DEF TypeInv, TypeOK
  <2>3. ctxNext' \in [Request -> Results \cup {NoResult}]
    BY <2>1 DEF TypeInv, TypeOK
  <2> QED
    BY <1>0, <1>4, <2>1, <2>2, <2>3, TypeDeferred
    DEF TypeInv, TypeOK, PhaseInv, HandleRequestReturns, Goto, PC
<1>5. CASE HandleRequestFails(r)
  <2>1. module' \in [Guest -> {"none", "starting", "open", "closed"}]
    BY <1>5 DEF TypeInv, TypeOK, HandleRequestFails, GuestCallFails
  <2> QED
    BY <1>0, <1>5, <2>1, TypeDeferred
    DEF TypeInv, TypeOK, PhaseInv, HandleRequestFails, Goto, PC
<1>6. CASE Skip(r)
  BY <1>0, <1>6 DEF TypeInv, TypeOK, PhaseInv, Skip, Goto, PC, shared, request
<1>7. CASE CallNext(r)
  BY <1>0, <1>7 DEF TypeInv, TypeOK, PhaseInv, CallNext, Goto, PC, shared, request
<1>8. CASE HandleResponse(r)
  BY <1>0, <1>8 DEF TypeInv, TypeOK, PhaseInv, HandleResponse, Goto, PC, shared, request
<1>9. CASE HandleResponseReturns(r)
  BY <1>0, <1>9, TypeClose
  DEF TypeInv, TypeOK, PhaseInv, HandleResponseReturns, Goto, PC
<1>10. CASE HandleResponseFails(r)
  <2>1. module' \in [Guest -> {"none", "starting", "open", "closed"}]
    BY <1>10 DEF TypeInv, TypeOK, HandleResponseFails, GuestCallFails
  <2> QED
    BY <1>0, <1>10, <2>1, TypeClose
    DEF TypeInv, TypeOK, PhaseInv, HandleResponseFails, Goto, PC
<1> QED
  BY <1>1, <1>2, <1>3, <1>4, <1>5, <1>6, <1>7, <1>8, <1>9, <1>10 DEF Serving

LEMMA TypeNext == TypeInv /\ [Next]_vars => TypeInv'
<1> SUFFICES ASSUME TypeInv, [Next]_vars PROVE TypeInv'
  OBVIOUS
<1>1. ASSUME NEW r \in Request, ServeHTTP(r) PROVE TypeInv'
  BY <1>1 DEF TypeInv, TypeOK, PhaseInv, ServeHTTP, Goto, PC, shared, request
<1>2. CASE UNCHANGED vars
  BY <1>2 DEF TypeInv, TypeOK, PhaseInv, vars, shared, request
<1> QED
  BY <1>1, <1>2, TypeEnvironment, TypeAcquiring, TypeServing DEF Next, Finished

\* Every variable keeps its type, and nothing is served before the middleware
\* was constructed.
THEOREM TypeCorrect == Spec => []TypeOK
<1>1. Init => TypeInv
  BY Constants DEF Init, TypeInv, TypeOK, PhaseInv, PC
<1> QED
  BY <1>1, TypeNext, PTL DEF Spec, TypeInv

-----------------------------------------------------------------------------
(* One request per guest *)

\* A request claims its guest from the moment the instance has a name.
Claims(r) == pc[r] = "start" \/ Serves(r)

\* Guests that exist carry a number the counter has reached; a claimed guest is
\* not in the pool, and no two requests claim the same one. Exclusive says so
\* of requests that serve; newGuest needs it of those that start a guest too,
\* and needs to know that the counter's next number is nobody's.
ClaimInv ==
  /\ \A g \in pool : g <= instanceCounter
  /\ \A r \in Request : held[r] <= instanceCounter
  /\ \A r \in Request : Claims(r) => held[r] \notin pool
  /\ \A r, q \in Request :
       Claims(r) /\ Claims(q) /\ r # q /\ held[r] = held[q] => held[r] = NoGuest

\* Steps that give no request a new claim and put nothing in the pool.
LEMMA ClaimKept ==
  ASSUME TypeOK, ClaimInv,
         pool' \subseteq pool, held' = held,
         instanceCounter' \in {instanceCounter, instanceCounter + 1},
         \A r \in Request : Claims(r)' => Claims(r)
  PROVE  ClaimInv'
<1>1. instanceCounter \in Int /\ instanceCounter <= instanceCounter'
  BY InstancesAssumption DEF TypeOK
<1>2. \A r \in Request : held[r] \in Int
  BY InstancesAssumption DEF TypeOK, Guest, NoGuest
<1>3. \A g \in pool : g \in Int
  <2>1. pool \subseteq Guest
    BY DEF TypeOK
  <2>2. Guest \subseteq Int
    BY InstancesAssumption DEF Guest
  <2> QED
    BY <2>1, <2>2
<1>4. instanceCounter' \in Int
  BY <1>1
<1>5. \A g \in pool' : g <= instanceCounter'
  BY <1>1, <1>3, <1>4 DEF ClaimInv
<1>6. \A r \in Request : held'[r] <= instanceCounter'
  BY <1>1, <1>2, <1>4 DEF ClaimInv
<1>7. \A r \in Request : Claims(r)' => held'[r] \notin pool'
  BY DEF ClaimInv
<1>8. \A r, q \in Request :
         Claims(r)' /\ Claims(q)' /\ r # q /\ held'[r] = held'[q] => held'[r] = NoGuest
  BY DEF ClaimInv
<1> QED
  BY <1>5, <1>6, <1>7, <1>8 DEF ClaimInv

\* A request that claims its guest puts it back and holds none.
LEMMA ClaimClosed ==
  ASSUME TypeOK, ClaimInv, NEW r \in Request, Claims(r), Close(r),
         UNCHANGED instanceCounter,
         \A q \in Request : Claims(q)' => Claims(q)
  PROVE  ClaimInv'
<1>1. /\ pool' = pool \cup ({held[r]} \ {NoGuest})
      /\ held' = [held EXCEPT ![r] = NoGuest]
  BY DEF Close
<1>2. instanceCounter \in Nat
  BY InstancesAssumption DEF TypeOK
<1>3. held'[r] = NoGuest /\ \A q \in Request \ {r} : held'[q] = held[q]
  BY <1>1 DEF TypeOK
<1>4. NoGuest \notin pool /\ NoGuest \notin pool'
  BY <1>1, InstancesAssumption DEF TypeOK, Guest, NoGuest
<1>5. \A g \in pool' : g <= instanceCounter
  BY <1>1 DEF ClaimInv
<1>6. \A q \in Request : held'[q] <= instanceCounter
  BY <1>2, <1>3 DEF ClaimInv, NoGuest
<1>7. ASSUME NEW q \in Request, Claims(q)' PROVE held'[q] \notin pool'
  <2>1. CASE q = r
    BY <2>1, <1>3, <1>4
  <2>2. CASE q # r
    BY <2>2, <1>1, <1>3, <1>7 DEF ClaimInv
  <2> QED
    BY <2>1, <2>2
<1>8. ASSUME NEW q \in Request, NEW p \in Request, Claims(q)', Claims(p)',
             q # p, held'[q] = held'[p]
      PROVE  held'[q] = NoGuest
  BY <1>3, <1>8 DEF ClaimInv
<1> QED
  BY <1>5, <1>6, <1>7, <1>8 DEF ClaimInv

LEMMA ClaimEnvironment ==
  ASSUME TypeInv, ClaimInv, Environment
  PROVE  ClaimInv'
<1>1. CASE NewMiddleware
  <2>1. instanceCounter = 0 /\ \A r \in Request : pc[r] = "idle"
    BY <1>1 DEF TypeInv, PhaseInv, NewMiddleware
  <2>2. pool' = {1} /\ instanceCounter' = 1 /\ UNCHANGED <<held, pc>>
    BY <1>1, <2>1 DEF NewMiddleware, NextName, request
  <2>3. \A r \in Request : ~Claims(r)'
    BY <2>1, <2>2 DEF Claims, Serves
  <2>4. \A r \in Request : held'[r] <= instanceCounter'
    BY <2>1, <2>2, InstancesAssumption DEF TypeInv, TypeOK, ClaimInv, Guest, NoGuest
  <2> QED
    BY <2>2, <2>3, <2>4 DEF ClaimInv
<1>2. CASE NewMiddlewareFails
  BY <1>2, ClaimKept DEF TypeInv, NewMiddlewareFails, NextName, Claims, Serves, request
<1>3. CASE CloseMiddleware
  BY <1>3, ClaimKept DEF TypeInv, CloseMiddleware, Claims, Serves, request
<1>4. ASSUME NEW g \in Guest, PoolDrop(g) PROVE ClaimInv'
  BY <1>4, ClaimKept DEF TypeInv, PoolDrop, Claims, Serves, request
<1>5. ASSUME NEW g \in Guest, Finalize(g) PROVE ClaimInv'
  BY <1>5, ClaimKept DEF TypeInv, Finalize, Claims, Serves, request
<1> QED
  BY <1>1, <1>2, <1>3, <1>4, <1>5 DEF Environment

\* Moving one request's goroutine changes nobody else's claim.
LEMMA ClaimsAfterGoto ==
  ASSUME TypeOK, NEW r \in Request, NEW label, Goto(r, label)
  PROVE  /\ \A q \in Request \ {r} : Claims(q)' <=> Claims(q)
         /\ Claims(r)' => label \in {"start", "begin", "guest", "returned", "next", "response"}
BY DEF TypeOK, Goto, Claims, Serves

LEMMA ClaimAcquiring ==
  ASSUME TypeInv, ClaimInv, NEW r \in Request, Acquiring(r)
  PROVE  ClaimInv'
<1>0. TypeOK /\ r \in DOMAIN held
  BY DEF TypeInv, TypeOK
<1>1. CASE PoolHit(r)
  <2>1. PICK g \in pool : pool' = pool \ {g} /\ held' = [held EXCEPT ![r] = g]
    BY <1>1 DEF PoolHit
  <2>2. /\ held'[r] = g /\ \A q \in Request \ {r} : held'[q] = held[q]
        /\ UNCHANGED instanceCounter
        /\ \A q \in Request \ {r} : Claims(q)' => Claims(q)
    BY <1>0, <1>1, <2>1, ClaimsAfterGoto DEF PoolHit, TypeOK
  <2>3. \A q \in Request : held'[q] <= instanceCounter'
    BY <2>1, <2>2 DEF ClaimInv
  <2>4. \A q \in Request : Claims(q)' => held'[q] \notin pool'
    BY <2>1, <2>2 DEF ClaimInv
  <2>5. \A p, q \in Request :
          Claims(p)' /\ Claims(q)' /\ p # q /\ held'[p] = held'[q] => held'[p] = NoGuest
    BY <2>1, <2>2 DEF ClaimInv
  <2> QED
    BY <2>1, <2>2, <2>3, <2>4, <2>5 DEF ClaimInv
<1>2. CASE PoolMiss(r)
  BY <1>0, <1>2, ClaimsAfterGoto, ClaimKept DEF PoolMiss, shared, request
<1>3. CASE NewGuest(r)
  <2>1. instanceCounter \in Nat /\ instanceCounter' = instanceCounter + 1
    BY <1>0, <1>3, InstancesAssumption DEF TypeOK, NewGuest, NextName
  <2>2. /\ held'[r] = instanceCounter + 1
        /\ \A q \in Request \ {r} : held'[q] = held[q]
        /\ UNCHANGED pool
        /\ \A q \in Request \ {r} : Claims(q)' => Claims(q)
    BY <1>0, <1>3, ClaimsAfterGoto DEF NewGuest, NextName, TypeOK
  <2>3. \A q \in Request : held[q] \in Int
    BY InstancesAssumption, <1>0 DEF TypeOK, Guest, NoGuest
  <2>4. \A g \in pool : g \in Int
    <3>1. pool \subseteq Guest
      BY <1>0 DEF TypeOK
    <3> QED
      BY <3>1, InstancesAssumption DEF Guest
  <2>5. \A g \in pool' : g <= instanceCounter'
    BY <2>1, <2>2, <2>4 DEF ClaimInv
  <2>6. \A q \in Request : held'[q] <= instanceCounter'
    BY <2>1, <2>2, <2>3 DEF ClaimInv
  <2>7. \A q \in Request : Claims(q)' => held'[q] \notin pool'
    BY <2>1, <2>2, <2>4 DEF ClaimInv
  <2>8. \A p, q \in Request :
          Claims(p)' /\ Claims(q)' /\ p # q /\ held'[p] = held'[q] => held'[p] = NoGuest
    BY <2>1, <2>2, <2>3 DEF ClaimInv
  <2> QED
    BY <2>5, <2>6, <2>7, <2>8 DEF ClaimInv
<1>4. CASE NewGuestFails(r)
  BY <1>0, <1>4, ClaimsAfterGoto, ClaimKept DEF NewGuestFails, NextName, request
<1>5. CASE StartReturns(r)
  <2>1. Claims(r)
    BY <1>5 DEF StartReturns, Claims
  <2> QED
    BY <1>0, <1>5, <2>1, ClaimsAfterGoto, ClaimKept DEF StartReturns, request
<1>6. CASE StartFails(r)
  <2>0. ~Claims(r)' /\ \A q \in Request \ {r} : Claims(q)' => Claims(q)
    BY <1>0, <1>6, ClaimsAfterGoto DEF StartFails
  <2>1. /\ held'[r] = NoGuest /\ \A q \in Request \ {r} : held'[q] = held[q]
        /\ UNCHANGED <<instanceCounter, pool>>
    BY <1>0, <1>6 DEF StartFails, TypeOK
  <2>2. instanceCounter \in Nat
    BY <1>0, InstancesAssumption DEF TypeOK
  <2>3. \A q \in Request : held'[q] <= instanceCounter'
    BY <2>1, <2>2 DEF ClaimInv, NoGuest
  <2> QED
    BY <2>0, <2>1, <2>3 DEF ClaimInv
<1> QED
  BY <1>1, <1>2, <1>3, <1>4, <1>5, <1>6 DEF Acquiring

LEMMA ClaimServing ==
  ASSUME TypeInv, ClaimInv, NEW r \in Request, Serving(r)
  PROVE  ClaimInv'
<1>0. TypeOK /\ Claims(r)
  BY DEF TypeInv, Serving, HandleRequest, EnableFeatures, InGuest, UseBody,
     HandleRequestReturns, HandleRequestFails, Skip, CallNext, HandleResponse,
     HandleResponseReturns, HandleResponseFails, Claims, Serves
<1>1. CASE HandleRequest(r)
  BY <1>0, <1>1, ClaimsAfterGoto, ClaimKept DEF HandleRequest, shared
<1>2. CASE EnableFeatures(r)
  BY <1>0, <1>2, ClaimKept DEF EnableFeatures, shared, Claims, Serves
<1>3. CASE UseBody(r)
  BY <1>0, <1>3, ClaimKept DEF UseBody, shared, Claims, Serves
<1>4. CASE HandleRequestReturns(r)
  <2>1. PICK x \in Results : Deferred(r, x)
    BY <1>4 DEF HandleRequestReturns
  <2>2. UNCHANGED instanceCounter /\ \A q \in Request : Claims(q)' => Claims(q)
    BY <1>0, <1>4, ClaimsAfterGoto DEF HandleRequestReturns
  <2>3. CASE x # NoResult
    BY <1>0, <2>1, <2>2, <2>3, ClaimKept DEF Deferred, CloseRequest
  <2>4. CASE x = NoResult
    BY <1>0, <2>1, <2>2, <2>4, ClaimClosed DEF Deferred
  <2> QED
    BY <2>3, <2>4
<1>5. CASE HandleRequestFails(r)
  BY <1>0, <1>5, ClaimsAfterGoto, ClaimClosed DEF HandleRequestFails, Deferred
<1>6. CASE Skip(r)
  BY <1>0, <1>6, ClaimsAfterGoto, ClaimKept DEF Skip, shared, request
<1>7. CASE CallNext(r)
  BY <1>0, <1>7, ClaimsAfterGoto, ClaimKept DEF CallNext, shared, request
<1>8. CASE HandleResponse(r)
  BY <1>0, <1>8, ClaimsAfterGoto, ClaimKept DEF HandleResponse, shared, request
<1>9. CASE HandleResponseReturns(r)
  BY <1>0, <1>9, ClaimsAfterGoto, ClaimClosed DEF HandleResponseReturns
<1>10. CASE HandleResponseFails(r)
  BY <1>0, <1>10, ClaimsAfterGoto, ClaimClosed DEF HandleResponseFails
<1> QED
  BY <1>1, <1>2, <1>3, <1>4, <1>5, <1>6, <1>7, <1>8, <1>9, <1>10 DEF Serving

LEMMA ClaimNext == TypeInv /\ ClaimInv /\ [Next]_vars => ClaimInv'
<1> SUFFICES ASSUME TypeInv, ClaimInv, [Next]_vars PROVE ClaimInv'
  OBVIOUS
<1>0. TypeOK
  BY DEF TypeInv
<1>1. ASSUME NEW r \in Request, ServeHTTP(r) PROVE ClaimInv'
  BY <1>0, <1>1, ClaimsAfterGoto, ClaimKept DEF ServeHTTP, shared, request
<1>2. CASE UNCHANGED vars
  BY <1>0, <1>2, ClaimKept DEF vars, shared, request, Claims, Serves
<1> QED
  BY <1>1, <1>2, ClaimEnvironment, ClaimAcquiring, ClaimServing DEF Next, Finished

\* No guest is used by two requests at once, nor handed out while a request may
\* still call it.
THEOREM ExclusiveGuests == Spec => []Exclusive
<1>1. Init => TypeInv /\ ClaimInv
  <2>1. Init => TypeInv
    BY Constants DEF Init, TypeInv, TypeOK, PhaseInv, PC
  <2>2. Init => ClaimInv
    BY DEF Init, ClaimInv, Claims, Serves, NoGuest
  <2> QED
    BY <2>1, <2>2
<1>2. TypeInv /\ ClaimInv => Exclusive
  BY DEF TypeInv, ClaimInv, Exclusive, Claims
<1> QED
  BY <1>1, <1>2, TypeNext, ClaimNext, PTL DEF Spec

-----------------------------------------------------------------------------
(* Requests *)

\* Guests answer CtxNext as documented: skip is the whole value zero.
WellFormed == \A x \in Results : x.next = 0 => x = NoResult

\* What holds of request r at each place of its goroutine. Pinned, Released and
\* RequestBodyHandedOver each read one line of it; to be kept, that line needs
\* those of the places before it.
RequestAt(r) ==
  /\ pc[r] \in {"idle", "get", "create"} => held[r] = NoGuest
  /\ pc[r] \in {"start", "begin", "guest"} => held[r] \in Guest
  /\ pc[r] \in {"idle", "get", "create", "start", "begin"} => opened[r] = {}
  /\ pc[r] \in {"returned", "next"} => opened[r] \cap RequestBodies = {}
  /\ pc[r] \in {"returned", "next", "response"} /\ ctxNext[r] # NoResult =>
       /\ held[r] \in Guest
       /\ ctxNext[r] \in Results
       /\ memory[held[r]][ctxNext[r].ctx] = r
  /\ pc[r] = "returned" /\ ctxNext[r] = NoResult => held[r] = NoGuest /\ opened[r] = {}
  /\ pc[r] \in {"next", "response"} => ctxNext[r] # NoResult
  /\ pc[r] = "done" /\ WellFormed => held[r] = NoGuest /\ opened[r] = {}

RequestInv == \A r \in Request : RequestAt(r)

\* What RequestAt says of one request does not change if neither its own state
\* nor what its guest noted does.
LEMMA RequestAtKept ==
  ASSUME NEW r \in Request, RequestAt(r),
         pc'[r] = pc[r], held'[r] = held[r], opened'[r] = opened[r],
         ctxNext'[r] = ctxNext[r],
         memory'[held[r]][ctxNext[r].ctx] = memory[held[r]][ctxNext[r].ctx]
  PROVE  RequestAt(r)'
BY DEF RequestAt, WellFormed

\* A step of request r that leaves the guests' notes alone.
LEMMA RequestStep ==
  ASSUME RequestInv, NEW r \in Request, RequestAt(r)', UNCHANGED memory,
         \A q \in Request \ {r} : /\ pc'[q] = pc[q] /\ held'[q] = held[q]
                                  /\ opened'[q] = opened[q] /\ ctxNext'[q] = ctxNext[q]
  PROVE  RequestInv'
BY RequestAtKept DEF RequestInv

LEMMA RequestEnvironment ==
  ASSUME RequestInv, Environment
  PROVE  RequestInv'
<1>1. UNCHANGED <<memory, pc, request>>
  BY DEF Environment, NewMiddleware, NewMiddlewareFails, CloseMiddleware, PoolDrop, Finalize
<1> QED
  BY <1>1, RequestAtKept DEF RequestInv, request

LEMMA RequestAcquiring ==
  ASSUME TypeOK, RequestInv, NEW r \in Request, Acquiring(r)
  PROVE  RequestInv'
<1>0. RequestAt(r)
  BY DEF RequestInv
<1>1. CASE PoolHit(r)
  <2>1. held'[r] \in Guest /\ \A q \in Request \ {r} : held'[q] = held[q]
    BY <1>1 DEF PoolHit, TypeOK
  <2>2. RequestAt(r)'
    BY <1>0, <1>1, <2>1 DEF PoolHit, Goto, TypeOK, RequestAt
  <2> QED
    BY <1>1, <2>1, <2>2, RequestStep DEF PoolHit, Goto, TypeOK
<1>2. CASE PoolMiss(r)
  <2>1. RequestAt(r)'
    BY <1>0, <1>2 DEF PoolMiss, Goto, TypeOK, RequestAt, request
  <2> QED
    BY <1>2, <2>1, RequestStep DEF PoolMiss, Goto, TypeOK, shared, request
<1>3. CASE NewGuest(r)
  <2>1. NextName \in Guest
    BY <1>3, InstancesAssumption DEF NewGuest, NextName, Guest, TypeOK
  <2>2. RequestAt(r)'
    BY <1>0, <1>3, <2>1 DEF NewGuest, Goto, TypeOK, RequestAt
  <2> QED
    BY <1>3, <2>2, RequestStep DEF NewGuest, Goto, TypeOK
<1>4. CASE NewGuestFails(r)
  <2>1. RequestAt(r)'
    BY <1>0, <1>4 DEF NewGuestFails, Goto, TypeOK, RequestAt, request
  <2> QED
    BY <1>4, <2>1, RequestStep DEF NewGuestFails, Goto, TypeOK, request
<1>5. CASE StartReturns(r)
  <2>1. RequestAt(r)'
    BY <1>0, <1>5 DEF StartReturns, Goto, TypeOK, RequestAt, request
  <2> QED
    BY <1>5, <2>1, RequestStep DEF StartReturns, Goto, TypeOK, request
<1>6. CASE StartFails(r)
  <2>1. RequestAt(r)'
    BY <1>0, <1>6 DEF StartFails, Goto, TypeOK, RequestAt
  <2> QED
    BY <1>6, <2>1, RequestStep DEF StartFails, Goto, TypeOK
<1> QED
  BY <1>1, <1>2, <1>3, <1>4, <1>5, <1>6 DEF Acquiring

\* requestState.Close releases everything and changes no other request.
LEMMA CloseReleases ==
  ASSUME TypeOK, NEW r \in Request, Close(r)
  PROVE  /\ held'[r] = NoGuest /\ opened'[r] = {}
         /\ \A q \in Request \ {r} : held'[q] = held[q] /\ opened'[q] = opened[q]
BY DEF TypeOK, Close

\* A request's guest notes it under its ctx: no other request's note is lost,
\* because no other request claims that guest.
LEMMA RequestReturns ==
  ASSUME TypeOK, ClaimInv, RequestInv, NEW r \in Request, HandleRequestReturns(r)
  PROVE  RequestInv'
<1>0. RequestAt(r) /\ pc[r] = "guest" /\ held[r] \in Guest /\ held[r] # NoGuest
  BY InstancesAssumption DEF RequestInv, RequestAt, HandleRequestReturns, Guest, NoGuest
<1>1. PICK x \in Results :
        /\ memory' = [memory EXCEPT ![held[r]][x.ctx] = r]
        /\ ctxNext' = [ctxNext EXCEPT ![r] = x]
        /\ Deferred(r, x)
  BY DEF HandleRequestReturns
<1>2. pc' = [pc EXCEPT ![r] = "returned"]
  BY DEF HandleRequestReturns, Goto
<1>3. pc'[r] = "returned" /\ ctxNext'[r] = x /\ memory'[held[r]][x.ctx] = r
  BY <1>0, <1>1, <1>2 DEF TypeOK
<1>4. \A q \in Request \ {r} : held'[q] = held[q] /\ opened'[q] = opened[q]
  <2>1. CASE x # NoResult
    BY <1>1, <2>1 DEF Deferred, CloseRequest, TypeOK
  <2>2. CASE x = NoResult
    BY <1>1, <2>2, CloseReleases DEF Deferred
  <2> QED
    BY <2>1, <2>2
<1>5. RequestAt(r)'
  <2>1. CASE x # NoResult
    <3>1. held'[r] = held[r] /\ opened'[r] \cap RequestBodies = {}
      BY <1>1, <2>1 DEF Deferred, CloseRequest, TypeOK
    <3> QED
      BY <1>0, <1>1, <1>3, <2>1, <3>1 DEF RequestAt
  <2>2. CASE x = NoResult
    <3>1. held'[r] = NoGuest /\ opened'[r] = {}
      BY <1>1, <2>2, CloseReleases DEF Deferred
    <3> QED
      BY <1>3, <2>2, <3>1 DEF RequestAt
  <2> QED
    BY <2>1, <2>2
<1>6. ASSUME NEW q \in Request \ {r} PROVE RequestAt(q)'
  <2>0. RequestAt(q)
    BY DEF RequestInv
  <2>1. /\ pc'[q] = pc[q] /\ ctxNext'[q] = ctxNext[q]
        /\ held'[q] = held[q] /\ opened'[q] = opened[q]
    BY <1>1, <1>2, <1>4 DEF TypeOK
  <2>2. CASE held[q] # held[r]
    <3>1. memory'[held[q]] = memory[held[q]]
      BY <1>1, <2>2 DEF TypeOK
    <3> QED
      BY <2>0, <2>1, <3>1, RequestAtKept
  <2>3. CASE held[q] = held[r]
    <3>1. ~Claims(q)
      BY <1>0, <2>3 DEF ClaimInv, Claims, Serves
    <3>2. pc[q] \notin {"start", "begin", "guest", "returned", "next", "response"}
      BY <3>1 DEF Claims, Serves
    <3> QED
      BY <2>0, <2>1, <3>2 DEF RequestAt, WellFormed
  <2> QED
    BY <2>2, <2>3
<1> QED
  BY <1>5, <1>6 DEF RequestInv

LEMMA RequestServing ==
  ASSUME TypeOK, ClaimInv, RequestInv, NEW r \in Request, Serving(r)
  PROVE  RequestInv'
<1>0. RequestAt(r)
  BY DEF RequestInv
<1>1. CASE HandleRequest(r)
  <2>1. RequestAt(r)'
    BY <1>0, <1>1 DEF HandleRequest, Goto, TypeOK, RequestAt, shared
  <2> QED
    BY <1>1, <2>1, RequestStep DEF HandleRequest, Goto, TypeOK, shared
<1>2. CASE EnableFeatures(r)
  BY <1>2, RequestAtKept DEF EnableFeatures, RequestInv, shared
<1>3. CASE UseBody(r)
  <2>1. pc[r] \in {"guest", "response"} /\ UNCHANGED <<pc, held, ctxNext, memory>>
    BY <1>3 DEF UseBody, InGuest, shared
  <2>2. \A q \in Request \ {r} : opened'[q] = opened[q]
    BY <1>3 DEF UseBody, TypeOK
  <2>3. RequestAt(r)'
    BY <1>0, <2>1 DEF RequestAt
  <2> QED
    BY <2>1, <2>2, <2>3, RequestStep
<1>4. CASE HandleRequestReturns(r)
  BY <1>4, RequestReturns
<1>5. CASE HandleRequestFails(r)
  <2>1. Close(r)
    BY <1>5 DEF HandleRequestFails, Deferred
  <2>2. /\ pc'[r] = "returned" /\ ctxNext'[r] = NoResult
        /\ \A q \in Request \ {r} : pc'[q] = pc[q] /\ ctxNext'[q] = ctxNext[q]
        /\ UNCHANGED memory
    BY <1>5 DEF HandleRequestFails, Goto, TypeOK
  <2>3. RequestAt(r)'
    BY <2>1, <2>2, CloseReleases DEF RequestAt
  <2> QED
    BY <2>1, <2>2, <2>3, CloseReleases, RequestStep
<1>6. CASE Skip(r)
  <2>1. /\ pc[r] = "returned" /\ ctxNext[r].next = 0 /\ pc'[r] = "done"
        /\ \A q \in Request \ {r} : pc'[q] = pc[q]
        /\ UNCHANGED <<held, opened, ctxNext, memory>>
    BY <1>6 DEF Skip, Goto, TypeOK, shared, request
  <2>2. WellFormed => ctxNext[r] = NoResult
    BY <1>0, <2>1 DEF RequestAt, WellFormed
  <2>3. RequestAt(r)'
    BY <1>0, <2>1, <2>2 DEF RequestAt, WellFormed
  <2> QED
    BY <2>1, <2>3, RequestStep
<1>7. CASE CallNext(r)
  <2>1. /\ pc[r] = "returned" /\ ctxNext[r].next # 0 /\ pc'[r] = "next"
        /\ \A q \in Request \ {r} : pc'[q] = pc[q]
        /\ UNCHANGED <<held, opened, ctxNext, memory>>
    BY <1>7 DEF CallNext, Goto, TypeOK, shared, request
  <2>2. ctxNext[r] # NoResult
    BY <2>1 DEF NoResult
  <2>3. RequestAt(r)'
    BY <1>0, <2>1, <2>2 DEF RequestAt
  <2> QED
    BY <2>1, <2>3, RequestStep
<1>8. CASE HandleResponse(r)
  <2>1. RequestAt(r)'
    BY <1>0, <1>8 DEF HandleResponse, Goto, TypeOK, RequestAt, shared, request
  <2> QED
    BY <1>8, <2>1, RequestStep DEF HandleResponse, Goto, TypeOK, shared, request
<1>9. CASE HandleResponseReturns(r)
  <2>1. RequestAt(r)'
    BY <1>9, CloseReleases DEF HandleResponseReturns, Goto, TypeOK, RequestAt
  <2> QED
    BY <1>9, <2>1, CloseReleases, RequestStep DEF HandleResponseReturns, Goto, TypeOK
<1>10. CASE HandleResponseFails(r)
  <2>1. RequestAt(r)'
    BY <1>10, CloseReleases DEF HandleResponseFails, Goto, TypeOK, RequestAt
  <2> QED
    BY <1>10, <2>1, CloseReleases, RequestStep DEF HandleResponseFails, Goto, TypeOK
<1> QED
  BY <1>1, <1>2, <1>3, <1>4, <1>5, <1>6, <1>7, <1>8, <1>9, <1>10 DEF Serving

LEMMA RequestNext == TypeInv /\ ClaimInv /\ RequestInv /\ [Next]_vars => RequestInv'
<1> SUFFICES ASSUME TypeInv, ClaimInv, RequestInv, [Next]_vars PROVE RequestInv'
  OBVIOUS
<1>0. TypeOK
  BY DEF TypeInv
<1>1. ASSUME NEW r \in Request, ServeHTTP(r) PROVE RequestInv'
  <2>0. RequestAt(r)
    BY DEF RequestInv
  <2>1. RequestAt(r)'
    BY <1>0, <1>1, <2>0 DEF ServeHTTP, Goto, TypeOK, RequestAt, shared, request
  <2> QED
    BY <1>0, <1>1, <2>1, RequestStep DEF ServeHTTP, Goto, TypeOK, shared, request
<1>2. CASE UNCHANGED vars
  BY <1>2, RequestAtKept DEF vars, shared, request, RequestInv
<1> QED
  BY <1>0, <1>1, <1>2, RequestEnvironment, RequestAcquiring, RequestServing
  DEF Next, Finished

\* The invariant of the three theorems below holds of every behaviour.
LEMMA RequestsCorrect == Spec => []RequestInv
<1>1. Init => TypeInv /\ ClaimInv
  <2>1. Init => TypeInv
    BY Constants DEF Init, TypeInv, TypeOK, PhaseInv, PC
  <2>2. Init => ClaimInv
    BY DEF Init, ClaimInv, Claims, Serves, NoGuest
  <2> QED
    BY <2>1, <2>2
<1>2. Init => RequestInv
  BY DEF Init, RequestInv, RequestAt, WellFormed
<1> QED
  BY <1>1, <1>2, TypeNext, ClaimNext, RequestNext, PTL DEF Spec

\* While the next handler runs and when handle_response is called, a request
\* holds the guest that served its handle_request, which still knows it.
THEOREM GuestsPinned == Spec => []Pinned
<1>1. RequestInv => Pinned
  BY InstancesAssumption DEF RequestInv, RequestAt, Pinned, Guest, NoGuest
<1> QED
  BY <1>1, RequestsCorrect, PTL

\* If guests answer CtxNext as documented, a request that is finished holds no
\* guest and no body reader or writer.
THEOREM RequestsReleased == Spec => [](WellFormed => Released)
<1>1. RequestInv => (WellFormed => Released)
  BY DEF RequestInv, RequestAt, Released
<1> QED
  BY <1>1, RequestsCorrect, PTL

\* When the next handler takes over, the guest's reader and writer of the
\* request body are closed.
THEOREM RequestBodiesHandedOver == Spec => []RequestBodyHandedOver
<1>1. RequestInv => RequestBodyHandedOver
  BY DEF RequestInv, RequestAt, RequestBodyHandedOver
<1> QED
  BY <1>1, RequestsCorrect, PTL

-----------------------------------------------------------------------------
(* Features *)

\* Start functions read m.features without a lock and write it back later. It
\* does not matter: what each of them read and will write is the same set.
FeaturesInv ==
  /\ phase = "new" => mfeatures = {}
  /\ phase = "ready" => mfeatures = StartFeatures
  /\ \A r \in Request : pc[r] # "idle" => phase = "ready"
  /\ \A r \in Request : pc[r] = "start" => seen[r] = StartFeatures

LEMMA FeaturesNext ==
  TypeInv /\ FeaturesInv /\ [Next]_vars =>
    FeaturesInv' /\ (phase = "ready" => UNCHANGED mfeatures)
<1> SUFFICES ASSUME TypeInv, FeaturesInv, [Next]_vars
             PROVE  FeaturesInv' /\ (phase = "ready" => UNCHANGED mfeatures)
  OBVIOUS
<1>0. TypeOK /\ PhaseInv
  BY DEF TypeInv
<1>1. CASE Environment
  BY <1>0, <1>1
  DEF Environment, NewMiddleware, NewMiddlewareFails, CloseMiddleware, PoolDrop, Finalize,
      WithEnabled, FeaturesInv, PhaseInv, request
<1>2. ASSUME NEW r \in Request, ServeHTTP(r)
      PROVE  FeaturesInv' /\ (phase = "ready" => UNCHANGED mfeatures)
  BY <1>0, <1>2 DEF ServeHTTP, Goto, TypeOK, FeaturesInv, shared, request
<1>3. ASSUME NEW r \in Request, Acquiring(r)
      PROVE  FeaturesInv' /\ (phase = "ready" => UNCHANGED mfeatures)
  <2>1. phase = "ready" /\ mfeatures = StartFeatures
    BY <1>3 DEF Acquiring, PoolHit, PoolMiss, NewGuest, NewGuestFails, StartReturns,
                StartFails, FeaturesInv
  <2>2. mfeatures' = StartFeatures
    BY <1>3, <2>1 DEF Acquiring, PoolHit, PoolMiss, NewGuest, NewGuestFails, StartReturns,
                      StartFails, WithEnabled, FeaturesInv, shared
  <2>3. phase' = "ready" /\ \A q \in Request \ {r} : pc'[q] = pc[q] /\ seen'[q] = seen[q]
    BY <1>0, <1>3, <2>1
    DEF Acquiring, PoolHit, PoolMiss, NewGuest, NewGuestFails, StartReturns, StartFails,
        Goto, TypeOK, shared, request
  <2>4. pc'[r] = "start" => seen'[r] = StartFeatures
    BY <1>0, <1>3, <2>1
    DEF Acquiring, PoolHit, PoolMiss, NewGuest, NewGuestFails, StartReturns, StartFails,
        Goto, TypeOK
  <2> QED
    BY <2>1, <2>2, <2>3, <2>4 DEF FeaturesInv
<1>4. ASSUME NEW r \in Request, Serving(r)
      PROVE  FeaturesInv' /\ (phase = "ready" => UNCHANGED mfeatures)
  <2>1. UNCHANGED <<phase, mfeatures, seen>>
    BY <1>4 DEF Serving, HandleRequest, EnableFeatures, UseBody, HandleRequestReturns,
                HandleRequestFails, Skip, CallNext, HandleResponse, HandleResponseReturns,
                HandleResponseFails, shared, request
  <2>2. pc[r] # "idle" /\ pc'[r] # "start" /\ \A q \in Request \ {r} : pc'[q] = pc[q]
    BY <1>0, <1>4
    DEF Serving, HandleRequest, EnableFeatures, UseBody, HandleRequestReturns, InGuest,
        HandleRequestFails, Skip, CallNext, HandleResponse, HandleResponseReturns,
        HandleResponseFails, Goto, TypeOK, shared
  <2> QED
    BY <2>1, <2>2 DEF FeaturesInv
<1>5. CASE UNCHANGED vars
  BY <1>5 DEF vars, shared, request, FeaturesInv
<1> QED
  BY <1>1, <1>2, <1>3, <1>4, <1>5 DEF Next, Finished

\* Once the middleware is constructed its features never change, although
\* guests are created concurrently and requests enable features of their own.
THEOREM FeaturesNeverChange == Spec => FeaturesStable
<1>1. Init => TypeInv /\ FeaturesInv
  <2>1. Init => TypeInv
    BY Constants DEF Init, TypeInv, TypeOK, PhaseInv, PC
  <2>2. Init => FeaturesInv
    BY DEF Init, FeaturesInv
  <2> QED
    BY <2>1, <2>2
<1> QED
  BY <1>1, TypeNext, FeaturesNext, PTL DEF Spec, FeaturesStable

-----------------------------------------------------------------------------
(* Runtime and modules *)

\* The module of a guest that is being started is still starting, those in the
\* pool and those that serve are open, and names the counter has not reached
\* are free: so newGuest finds its name free, and never closes the runtime.
RuntimeInv ==
  /\ \A g \in Guest : g > instanceCounter => module[g] = "none"
  /\ \A r \in Request : pc[r] = "start" /\ runtime = "open" => module[held[r]] = "starting"
  /\ RuntimeSurvives
  /\ UsableGuests

\* Steps that touch no module, put nothing in the pool and keep the claims.
LEMMA RuntimeKept ==
  ASSUME TypeOK, RuntimeInv,
         UNCHANGED <<runtime, instanceCounter, module, held>>, pool' \subseteq pool,
         \A r \in Request : pc'[r] = "start" => pc[r] = "start",
         \A r \in Request : Serves(r)' => Serves(r)
  PROVE  RuntimeInv'
BY DEF RuntimeInv, RuntimeSurvives, UsableGuests

\* The runtime is closed: what remains is that the counter's next name is free.
LEMMA RuntimeClosed ==
  ASSUME TypeOK, RuntimeInv, NEW mod, CloseRuntime(mod),
         StartMayFail \/ HostMayClose,
         \A g \in Guest : g > instanceCounter' => mod[g] = "none"
  PROVE  RuntimeInv'
BY DEF RuntimeInv, RuntimeSurvives, UsableGuests, CloseRuntime, TypeOK

LEMMA RuntimeEnvironment ==
  ASSUME TypeInv, ClaimInv, RequestInv, RuntimeInv, Environment
  PROVE  RuntimeInv'
<1>0. TypeOK
  BY DEF TypeInv
<1>a. instanceCounter \in Nat
  BY <1>0, InstancesAssumption DEF TypeOK
<1>1. CASE NewMiddleware
  <2>1. instanceCounter = 0 /\ \A r \in Request : pc[r] = "idle"
    BY <1>1 DEF TypeInv, PhaseInv, NewMiddleware
  <2>2. /\ instanceCounter' = 1 /\ pool' = {1} /\ UNCHANGED <<runtime, held, pc>>
        /\ 1 \in Guest /\ module' = [module EXCEPT ![1] = "open"]
    BY <1>1, <2>1, InstancesAssumption DEF NewMiddleware, NextName, Guest, request
  <2>3. \A g \in Guest : g > 1 => module'[g] = "none"
    BY <1>0, <2>1, <2>2, InstancesAssumption DEF RuntimeInv, TypeOK, Guest
  <2>4. module'[1] = "open"
    BY <1>0, <2>2 DEF TypeOK
  <2> QED
    BY <2>1, <2>2, <2>3, <2>4 DEF RuntimeInv, RuntimeSurvives, UsableGuests, Serves
<1>2. CASE NewMiddlewareFails
  <2>1. instanceCounter = 0 /\ instanceCounter' = 1 /\ StartMayFail
    BY <1>2 DEF TypeInv, PhaseInv, NewMiddlewareFails, NextName
  <2> DEFINE mod == [module EXCEPT ![NextName] = "starting"]
  <2>2. NextName = 1
    BY <2>1 DEF NextName
  <2>3. \A g \in Guest : g > 1 => mod[g] = "none"
    <3>1. \A g \in Guest : g > 1 => module[g] = "none"
      BY <2>1, InstancesAssumption DEF RuntimeInv, Guest
    <3>2. \A g \in Guest : g # 1 => mod[g] = module[g]
      BY <1>0, <2>2 DEF TypeOK
    <3> QED
      BY <3>1, <3>2, InstancesAssumption DEF Guest
  <2>4. CloseRuntime(mod)
    BY <1>2 DEF NewMiddlewareFails
  <2> HIDE DEF mod
  <2> QED
    BY <1>0, <2>1, <2>3, <2>4, RuntimeClosed
<1>3. CASE CloseMiddleware
  <2>1. HostMayClose /\ CloseRuntime(module) /\ instanceCounter' = instanceCounter
    BY <1>3 DEF CloseMiddleware
  <2>2. \A g \in Guest : g > instanceCounter' => module[g] = "none"
    BY <2>1 DEF RuntimeInv
  <2> QED
    BY <1>0, <1>a, <2>1, <2>2, RuntimeClosed
<1>4. ASSUME NEW g \in Guest, PoolDrop(g) PROVE RuntimeInv'
  BY <1>0, <1>4, RuntimeKept DEF PoolDrop, Serves, request
<1>5. ASSUME NEW g \in Guest, Finalize(g) PROVE RuntimeInv'
  <2>1. /\ module[g] = "open" /\ g \notin pool
        /\ \A r \in Request : pc[r] # "done" => held[r] # g
        /\ module' = [module EXCEPT ![g] = "closed"]
        /\ UNCHANGED <<runtime, instanceCounter, pool, pc, held>>
    BY <1>5 DEF Finalize, Reachable, request
  <2>2. g <= instanceCounter /\ g \in Int
    BY <1>a, <2>1, InstancesAssumption DEF RuntimeInv, Guest
  <2>3. \A h \in Guest : h # g => module'[h] = module[h]
    BY <1>0, <2>1 DEF TypeOK
  <2>4. \A h \in Guest : h > instanceCounter' => module'[h] = "none"
    BY <1>0, <2>1, <2>2, <2>3, InstancesAssumption DEF RuntimeInv, Guest
  <2>5. \A r \in Request : pc[r] = "start" /\ runtime = "open" => module'[held[r]] = "starting"
    BY <2>1, <2>3 DEF RuntimeInv, RequestInv, RequestAt
  <2>6. UsableGuests'
    <3>1. pool \subseteq Guest
      BY <1>0 DEF TypeOK
    <3>2. \A r \in Request : Serves(r) => held[r] # g
      BY <2>1 DEF Serves
    <3>3. \A r \in Request : held[r] # NoGuest => held[r] \in Guest
      BY <1>0 DEF TypeOK
    <3> QED
      BY <2>1, <2>3, <3>1, <3>2, <3>3 DEF RuntimeInv, UsableGuests, Serves
  <2> QED
    BY <2>1, <2>4, <2>5, <2>6 DEF RuntimeInv, RuntimeSurvives
<1> QED
  BY <1>1, <1>2, <1>3, <1>4, <1>5 DEF Environment

LEMMA RuntimeAcquiring ==
  ASSUME TypeInv, ClaimInv, RequestInv, RuntimeInv, NEW r \in Request, Acquiring(r)
  PROVE  RuntimeInv'
<1>0. TypeOK
  BY DEF TypeInv
<1>a. instanceCounter \in Nat
  BY <1>0, InstancesAssumption DEF TypeOK
<1>1. CASE PoolHit(r)
  <2>1. PICK g \in pool : pool' = pool \ {g} /\ held' = [held EXCEPT ![r] = g]
    BY <1>1 DEF PoolHit
  <2>2. /\ held'[r] = g /\ \A q \in Request \ {r} : held'[q] = held[q]
        /\ UNCHANGED <<runtime, instanceCounter, module>>
        /\ pc'[r] = "begin" /\ \A q \in Request \ {r} : pc'[q] = pc[q]
    BY <1>0, <1>1, <2>1 DEF PoolHit, Goto, TypeOK
  <2>3. \A q \in Request : pc'[q] = "start" /\ runtime = "open" => module[held'[q]] = "starting"
    BY <2>2 DEF RuntimeInv
  <2>4. UsableGuests'
    BY <2>1, <2>2 DEF RuntimeInv, UsableGuests, Serves
  <2> QED
    BY <2>2, <2>3, <2>4 DEF RuntimeInv, RuntimeSurvives
<1>2. CASE PoolMiss(r)
  <2>1. /\ UNCHANGED <<runtime, instanceCounter, module, held, pool>>
        /\ pc'[r] = "create" /\ \A q \in Request \ {r} : pc'[q] = pc[q]
    BY <1>0, <1>2 DEF PoolMiss, Goto, TypeOK, shared, request
  <2> QED
    BY <1>0, <2>1, RuntimeKept DEF Serves
<1>3. CASE NewGuest(r)
  <2> DEFINE n == instanceCounter + 1
  <2>1. /\ n \in Guest /\ instanceCounter' = n /\ UNCHANGED <<runtime, pool>>
        /\ module' = [module EXCEPT ![n] = "starting"]
        /\ held' = [held EXCEPT ![r] = n]
    BY <1>a, <1>3, InstancesAssumption DEF NewGuest, NextName, Guest
  <2>2. /\ held'[r] = n /\ \A q \in Request \ {r} : held'[q] = held[q]
        /\ pc'[r] = "start" /\ \A q \in Request \ {r} : pc'[q] = pc[q]
    BY <1>0, <1>3, <2>1 DEF NewGuest, Goto, TypeOK
  <2>3. module'[n] = "starting" /\ \A g \in Guest : g # n => module'[g] = module[g]
    BY <1>0, <2>1 DEF TypeOK
  <2>4. \A g \in Guest : g > instanceCounter' => module'[g] = "none"
    BY <1>a, <2>1, <2>3, InstancesAssumption DEF RuntimeInv, Guest
  <2>5. \A q \in Request : held[q] # n
    BY <1>a, <2>1 DEF ClaimInv
  <2>6. \A g \in pool : g # n
    BY <1>a, <2>1 DEF ClaimInv
  <2> HIDE DEF n
  <2>7. \A q \in Request : pc'[q] = "start" /\ runtime' = "open" => module'[held'[q]] = "starting"
    <3>1. \A q \in Request : pc[q] = "start" => held[q] \in Guest
      BY DEF RequestInv, RequestAt
    <3> QED
      BY <2>1, <2>2, <2>3, <2>5, <3>1 DEF RuntimeInv
  <2>8. UsableGuests'
    <3>1. pool \subseteq Guest /\ \A q \in Request : held[q] # NoGuest => held[q] \in Guest
      BY <1>0 DEF TypeOK
    <3>2. \A q \in Request : Serves(q)' => q # r /\ Serves(q)
      BY <2>2 DEF Serves
    <3> QED
      BY <2>1, <2>2, <2>3, <2>5, <2>6, <3>1, <3>2 DEF RuntimeInv, UsableGuests
  <2> QED
    BY <2>1, <2>4, <2>7, <2>8 DEF RuntimeInv, RuntimeSurvives
<1>4. CASE NewGuestFails(r)
  <2>1. /\ CloseRuntime(module) /\ instanceCounter' = instanceCounter + 1
        /\ instanceCounter + 1 \in Guest
        /\ runtime = "closed" \/ module[instanceCounter + 1] \in {"starting", "open"}
    BY <1>a, <1>4, InstancesAssumption DEF NewGuestFails, NextName, Guest
  <2>2. module[instanceCounter + 1] = "none"
    BY <1>a, <2>1 DEF RuntimeInv
  <2>3. StartMayFail \/ HostMayClose
    BY <2>1, <2>2 DEF RuntimeInv, RuntimeSurvives
  <2>4. \A g \in Guest : g > instanceCounter' => module[g] = "none"
    BY <1>a, <2>1, InstancesAssumption DEF RuntimeInv, Guest
  <2> QED
    BY <1>0, <1>a, <2>1, <2>3, <2>4, RuntimeClosed
<1>5. CASE StartReturns(r)
  <2>1. held[r] \in Guest /\ Claims(r)
    BY <1>5 DEF StartReturns, RequestInv, RequestAt, Claims
  <2>2. /\ UNCHANGED <<runtime, instanceCounter, pool, held>>
        /\ module'[held[r]] = "open"
        /\ \A g \in Guest : g # held[r] => module'[g] = module[g]
        /\ pc'[r] = "begin" /\ \A q \in Request \ {r} : pc'[q] = pc[q]
    BY <1>0, <1>5, <2>1 DEF StartReturns, Goto, TypeOK, request
  <2>3. \A g \in Guest : g > instanceCounter => module'[g] = "none"
    BY <1>a, <2>1, <2>2, InstancesAssumption DEF RuntimeInv, ClaimInv, Guest
  <2>4. \A q \in Request \ {r} : Claims(q) /\ held[q] # NoGuest => held[q] # held[r]
    BY <2>1 DEF ClaimInv
  <2>5. \A q \in Request : pc'[q] = "start" /\ runtime' = "open" => module'[held'[q]] = "starting"
    <3>1. \A q \in Request : pc[q] = "start" => held[q] \in Guest /\ held[q] # NoGuest
      BY InstancesAssumption DEF RequestInv, RequestAt, Guest, NoGuest
    <3> QED
      BY <2>2, <2>4, <3>1 DEF RuntimeInv, Claims
  <2>6. UsableGuests'
    <3>1. pool \subseteq Guest /\ \A q \in Request : held[q] # NoGuest => held[q] \in Guest
      BY <1>0 DEF TypeOK
    <3>2. \A q \in Request \ {r} : Serves(q)' => Serves(q)
      BY <2>2 DEF Serves
    <3> QED
      BY <2>2, <2>4, <3>1, <3>2 DEF RuntimeInv, UsableGuests, Claims
  <2> QED
    BY <2>2, <2>3, <2>5, <2>6 DEF RuntimeInv, RuntimeSurvives
<1>6. CASE StartFails(r)
  <2>1. /\ CloseRuntime(module) /\ instanceCounter' = instanceCounter
        /\ pc[r] = "start" /\ (StartMayFail \/ module[held[r]] = "closed")
    BY <1>6 DEF StartFails
  <2>2. StartMayFail \/ HostMayClose
    BY <1>0, <2>1 DEF RuntimeInv, RuntimeSurvives, TypeOK
  <2>3. \A g \in Guest : g > instanceCounter' => module[g] = "none"
    BY <2>1 DEF RuntimeInv
  <2> QED
    BY <1>0, <1>a, <2>1, <2>2, <2>3, RuntimeClosed
<1> QED
  BY <1>1, <1>2, <1>3, <1>4, <1>5, <1>6 DEF Acquiring

\* A step of a request that serves, and does not end: nothing is put back.
LEMMA RuntimeStays ==
  ASSUME TypeOK, RuntimeInv, NEW r \in Request, NEW label,
         Serves(r), Goto(r, label), label # "start",
         UNCHANGED <<runtime, instanceCounter, module, held, pool>>
  PROVE  RuntimeInv'
<1>1. pc'[r] = label /\ \A q \in Request \ {r} : pc'[q] = pc[q]
  BY DEF Goto, TypeOK
<1> QED
  BY <1>1, RuntimeKept DEF Serves

\* A call into a request's guest may close its module, if guests may exit.
LEMMA RuntimeGuestCall ==
  ASSUME TypeOK, ClaimInv, RuntimeInv, NEW r \in Request, Serves(r), held[r] \in Guest,
         GuestCallFails(r),
         UNCHANGED <<runtime, instanceCounter>>,
         \A q \in Request \ {r} : pc'[q] = pc[q] /\ held'[q] = held[q],
         pc'[r] # "start", held'[r] = NoGuest,
         pool' = pool \cup ({held[r]} \ {NoGuest})
  PROVE  RuntimeInv'
<1>1. CASE UNCHANGED module
  <2>1. \A q \in Request : pc'[q] = "start" => pc[q] = "start" /\ held'[q] = held[q]
    OBVIOUS
  <2>2. UsableGuests'
    <3>1. \A q \in Request : Serves(q)' /\ held'[q] # NoGuest => Serves(q) /\ held'[q] = held[q]
      BY DEF Serves
    <3> QED
      BY <1>1, <3>1 DEF RuntimeInv, UsableGuests
  <2> QED
    BY <1>1, <2>1, <2>2 DEF RuntimeInv, RuntimeSurvives
<1>2. CASE GuestMayExit /\ module' = [module EXCEPT ![held[r]] = "closed"]
  <2>1. instanceCounter \in Nat /\ held[r] \in Int /\ held[r] # NoGuest
    BY InstancesAssumption DEF TypeOK, Guest, NoGuest
  <2>2. \A g \in Guest : g # held[r] => module'[g] = module[g]
    BY <1>2 DEF TypeOK
  <2>3. \A g \in Guest : g > instanceCounter => module'[g] = "none"
    BY <2>1, <2>2, InstancesAssumption DEF RuntimeInv, ClaimInv, Guest
  <2>4. ASSUME NEW q \in Request, pc'[q] = "start", runtime = "open"
        PROVE  module'[held'[q]] = "starting"
    <3>1. q # r /\ pc[q] = "start" /\ held'[q] = held[q] /\ Claims(q) /\ Claims(r)
      BY <2>4 DEF Claims
    <3>2. held[q] # held[r]
      BY <2>1, <3>1 DEF ClaimInv
    <3>3. module'[held[q]] = module[held[q]]
      BY <1>2, <3>2 DEF TypeOK
    <3> QED
      BY <2>4, <3>1, <3>3 DEF RuntimeInv
  <2>5. UsableGuests'
    BY <1>2 DEF UsableGuests
  <2> QED
    BY <2>3, <2>4, <2>5 DEF RuntimeInv, RuntimeSurvives
<1> QED
  BY <1>1, <1>2 DEF GuestCallFails

\* The same for a call after which requestState.Close runs.
LEMMA RuntimeCloses ==
  ASSUME TypeOK, ClaimInv, RuntimeInv, NEW r \in Request, NEW label,
         Serves(r), held[r] \in Guest, GuestCallFails(r), Close(r), Goto(r, label),
         label # "start", UNCHANGED <<runtime, instanceCounter>>
  PROVE  RuntimeInv'
<1>1. pc'[r] = label /\ \A q \in Request \ {r} : pc'[q] = pc[q]
  BY DEF Goto, TypeOK
<1>2. pool' = pool \cup ({held[r]} \ {NoGuest})
  BY DEF Close
<1> QED
  BY <1>1, <1>2, CloseReleases, RuntimeGuestCall

LEMMA RuntimeServing ==
  ASSUME TypeInv, ClaimInv, RequestInv, RuntimeInv, NEW r \in Request, Serving(r)
  PROVE  RuntimeInv'
<1>0. TypeOK /\ Serves(r)
  BY DEF TypeInv, Serves, Serving, HandleRequest, EnableFeatures, InGuest, UseBody,
     HandleRequestReturns, HandleRequestFails, Skip, CallNext, HandleResponse,
     HandleResponseReturns, HandleResponseFails
<1>1. CASE HandleRequest(r)
  BY <1>0, <1>1, RuntimeStays DEF HandleRequest, shared
<1>2. CASE EnableFeatures(r)
  BY <1>0, <1>2, RuntimeKept DEF EnableFeatures, shared, Serves
<1>3. CASE UseBody(r)
  BY <1>0, <1>3, RuntimeKept DEF UseBody, shared, Serves
<1>4. CASE HandleRequestReturns(r)
  <2>1. PICK x \in Results : Deferred(r, x)
    BY <1>4 DEF HandleRequestReturns
  <2>2. /\ pc[r] = "guest" /\ Goto(r, "returned")
        /\ UNCHANGED <<runtime, instanceCounter, module>>
    BY <1>4 DEF HandleRequestReturns
  <2>3. CASE x # NoResult
    <3>1. UNCHANGED <<held, pool>>
      BY <2>1, <2>3 DEF Deferred, CloseRequest
    <3> QED
      BY <1>0, <2>2, <3>1, RuntimeStays
  <2>4. CASE x = NoResult
    <3>1. Close(r) /\ GuestCallFails(r) /\ held[r] \in Guest
      BY <2>1, <2>2, <2>4 DEF Deferred, GuestCallFails, RequestInv, RequestAt
    <3> QED
      BY <1>0, <2>2, <3>1, RuntimeCloses
  <2> QED
    BY <2>3, <2>4
<1>5. CASE HandleRequestFails(r)
  <2>1. held[r] \in Guest /\ Close(r)
    BY <1>5 DEF HandleRequestFails, Deferred, RequestInv, RequestAt
  <2> QED
    BY <1>0, <1>5, <2>1, RuntimeCloses DEF HandleRequestFails
<1>6. CASE Skip(r)
  BY <1>0, <1>6, RuntimeStays DEF Skip, shared, request
<1>7. CASE CallNext(r)
  BY <1>0, <1>7, RuntimeStays DEF CallNext, shared, request
<1>8. CASE HandleResponse(r)
  BY <1>0, <1>8, RuntimeStays DEF HandleResponse, shared, request
<1>9. CASE HandleResponseReturns(r)
  <2>1. held[r] \in Guest /\ GuestCallFails(r)
    BY <1>9 DEF HandleResponseReturns, GuestCallFails, RequestInv, RequestAt
  <2> QED
    BY <1>0, <1>9, <2>1, RuntimeCloses DEF HandleResponseReturns
<1>10. CASE HandleResponseFails(r)
  <2>1. held[r] \in Guest
    BY <1>10 DEF HandleResponseFails, RequestInv, RequestAt
  <2> QED
    BY <1>0, <1>10, <2>1, RuntimeCloses DEF HandleResponseFails
<1> QED
  BY <1>1, <1>2, <1>3, <1>4, <1>5, <1>6, <1>7, <1>8, <1>9, <1>10 DEF Serving

LEMMA RuntimeNext ==
  TypeInv /\ ClaimInv /\ RequestInv /\ RuntimeInv /\ [Next]_vars => RuntimeInv'
<1> SUFFICES ASSUME TypeInv, ClaimInv, RequestInv, RuntimeInv, [Next]_vars PROVE RuntimeInv'
  OBVIOUS
<1>0. TypeOK
  BY DEF TypeInv
<1>1. ASSUME NEW r \in Request, ServeHTTP(r) PROVE RuntimeInv'
  <2>1. /\ UNCHANGED <<runtime, instanceCounter, module, held, pool>>
        /\ pc'[r] = "get" /\ \A q \in Request \ {r} : pc'[q] = pc[q]
    BY <1>0, <1>1 DEF ServeHTTP, Goto, TypeOK, shared, request
  <2> QED
    BY <1>0, <2>1, RuntimeKept DEF Serves
<1>2. CASE UNCHANGED vars
  BY <1>0, <1>2, RuntimeKept DEF vars, shared, request, Serves
<1> QED
  BY <1>1, <1>2, RuntimeEnvironment, RuntimeAcquiring, RuntimeServing DEF Next, Finished

LEMMA RuntimeCorrect == Spec => []RuntimeInv
<1>1. Init => TypeInv /\ ClaimInv
  <2>1. Init => TypeInv
    BY Constants DEF Init, TypeInv, TypeOK, PhaseInv, PC
  <2>2. Init => ClaimInv
    BY DEF Init, ClaimInv, Claims, Serves, NoGuest
  <2> QED
    BY <2>1, <2>2
<1>2. Init => RequestInv
  BY DEF Init, RequestInv, RequestAt, WellFormed
<1>3. Init => RuntimeInv
  BY DEF Init, RuntimeInv, RuntimeSurvives, UsableGuests, Serves
<1> QED
  BY <1>1, <1>2, <1>3, TypeNext, ClaimNext, RequestNext, RuntimeNext, PTL DEF Spec

\* As long as start functions succeed and the host does not close it, no
\* instantiation closes the runtime: no two guests get the same name.
THEOREM RuntimeStaysOpen == Spec => []RuntimeSurvives
<1>1. RuntimeInv => RuntimeSurvives
  BY DEF RuntimeInv
<1> QED
  BY <1>1, RuntimeCorrect, PTL

\* While the runtime is open and guests do not exit, pooled guests and those in
\* use are open, although finalizers close modules at any time.
THEOREM GuestsUsable == Spec => []UsableGuests
<1>1. RuntimeInv => UsableGuests
  BY DEF RuntimeInv
<1> QED
  BY <1>1, RuntimeCorrect, PTL
=============================================================================
