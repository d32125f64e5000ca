--------------------------- MODULE GuestPoolLease ---------------------------
(***************************************************************************)
(* GuestPool implements GuestLease: every step of the pool is, through the *)
(* mapping of LeaseStatus, LeaseHolder and LeaseLife, a step of the lease  *)
(* or changes nothing of it.                                               *)
(***************************************************************************)
EXTENDS GuestPoolProofs

\* What the mapping reads of request r for guest g.
Creates(r, g) == pc[r] = "start" /\ held[r] = g
Uses(r, g) == Serves(r) /\ held[r] = g
Waits(r) == pc[r] \in {"idle", "get", "create", "start"}
Holds(r) == Serves(r) /\ held[r] # NoGuest

\* The three mapped functions, point by point.
LEMMA Mapped ==
  /\ \A g \in Guest : LeaseStatus[g] =
       IF g \in pool THEN "free"
       ELSE IF \E r \in Request : Uses(r, g) THEN "leased"
       ELSE IF g > instanceCounter \/ \E r \in Request : Creates(r, g) THEN "unborn"
       ELSE "gone"
  /\ \A r \in Request : LeaseHolder[r] = IF Serves(r) THEN held[r] ELSE NoGuest
  /\ \A r \in Request : LeaseLife[r] =
       IF Waits(r) THEN "waiting" ELSE IF Holds(r) THEN "holding" ELSE "finished"
BY DEF LeaseStatus, LeaseHolder, LeaseLife, BeingUsed, BeingCreated, Uses, Creates,
       Waits, Holds, Serves

LEMMA MappedNext ==
  /\ \A g \in Guest : LeaseStatus'[g] =
       IF g \in pool' THEN "free"
       ELSE IF \E r \in Request : Uses(r, g)' THEN "leased"
       ELSE IF g > instanceCounter' \/ \E r \in Request : Creates(r, g)' THEN "unborn"
       ELSE "gone"
  /\ \A r \in Request : LeaseHolder'[r] = IF Serves(r)' THEN held'[r] ELSE NoGuest
  /\ \A r \in Request : LeaseLife'[r] =
       IF Waits(r)' THEN "waiting" ELSE IF Holds(r)' THEN "holding" ELSE "finished"
BY DEF LeaseStatus, LeaseHolder, LeaseLife, BeingUsed, BeingCreated, Uses, Creates,
       Waits, Holds, Serves

\* Only request r moves.
Moves(r) == \A q \in Request \ {r} : pc'[q] = pc[q] /\ held'[q] = held[q]

\* The other requests then look the same.
LEMMA OthersStay ==
  ASSUME NEW r \in Request, Moves(r)
  PROVE  \A q \in Request \ {r} :
           LeaseHolder'[q] = LeaseHolder[q] /\ LeaseLife'[q] = LeaseLife[q]
BY Mapped, MappedNext DEF Moves, Serves, Waits, Holds

\* And so does every guest the step is not about.
LEMMA StatusStays ==
  ASSUME NEW r \in Request, Moves(r), NEW g \in Guest,
         g \in pool' <=> g \in pool,
         g > instanceCounter' <=> g > instanceCounter,
         Creates(r, g)' <=> Creates(r, g),
         Uses(r, g)' <=> Uses(r, g)
  PROVE  LeaseStatus'[g] = LeaseStatus[g]
<1>1. (\E q \in Request : Uses(q, g)') <=> (\E q \in Request : Uses(q, g))
  BY DEF Moves, Uses, Serves
<1>2. (\E q \in Request : Creates(q, g)') <=> (\E q \in Request : Creates(q, g))
  BY DEF Moves, Creates
<1> QED
  BY <1>1, <1>2, Mapped, MappedNext

\* Equal at every point, the functions are equal.
LEMMA SameFunctions ==
  ASSUME \A g \in Guest : LeaseStatus'[g] = LeaseStatus[g],
         \A r \in Request : LeaseHolder'[r] = LeaseHolder[r] /\ LeaseLife'[r] = LeaseLife[r]
  PROVE  UNCHANGED Lease!vars
<1>1. LeaseStatus' = LeaseStatus
  BY DEF LeaseStatus
<1>2. LeaseHolder' = LeaseHolder
  BY DEF LeaseHolder
<1>3. LeaseLife' = LeaseLife
  BY DEF LeaseLife
<1> QED
  BY <1>1, <1>2, <1>3 DEF Lease!vars

LEMMA StatusExcept ==
  ASSUME NEW g \in Guest, NEW s,
         LeaseStatus'[g] = s, \A h \in Guest \ {g} : LeaseStatus'[h] = LeaseStatus[h]
  PROVE  LeaseStatus' = [LeaseStatus EXCEPT ![g] = s]
BY DEF LeaseStatus

LEMMA RequestExcept ==
  ASSUME NEW r \in Request, Moves(r)
  PROVE  /\ LeaseHolder' = [LeaseHolder EXCEPT ![r] = LeaseHolder'[r]]
         /\ LeaseLife' = [LeaseLife EXCEPT ![r] = LeaseLife'[r]]
<1>1. LeaseHolder' = [LeaseHolder EXCEPT ![r] = LeaseHolder'[r]]
  BY OthersStay DEF LeaseHolder
<1>2. LeaseLife' = [LeaseLife EXCEPT ![r] = LeaseLife'[r]]
  BY OthersStay DEF LeaseLife
<1> QED
  BY <1>1, <1>2

-----------------------------------------------------------------------------
(* Which steps of the lease a request's steps are *)

LeaseStep == Lease!Next \/ UNCHANGED Lease!vars

LEMMA AcquireStep ==
  ASSUME NEW r \in Request, NEW g \in Guest, Moves(r),
         Waits(r), Holds(r)', held'[r] = g,
         LeaseStatus[g] \in {"unborn", "free"}, LeaseStatus'[g] = "leased",
         \A h \in Guest \ {g} : LeaseStatus'[h] = LeaseStatus[h]
  PROVE  LeaseStep
<1>1. LeaseLife[r] = "waiting" /\ LeaseLife'[r] = "holding" /\ LeaseHolder'[r] = g
  BY Mapped, MappedNext DEF Waits, Holds, Serves
<1> QED
  BY <1>1, StatusExcept, RequestExcept DEF LeaseStep, Lease!Next, Lease!Acquire

LEMMA FinishStep ==
  ASSUME NEW r \in Request, Moves(r), held[r] \in Guest,
         Holds(r), ~Holds(r)', ~Waits(r)',
         LeaseStatus'[held[r]] \in {"free", "gone"},
         \A h \in Guest \ {held[r]} : LeaseStatus'[h] = LeaseStatus[h]
  PROVE  LeaseStep
<1>1. /\ LeaseLife[r] = "holding" /\ LeaseHolder[r] = held[r]
      /\ LeaseLife'[r] = "finished" /\ LeaseHolder'[r] = NoGuest
  BY Mapped, MappedNext DEF Waits, Holds, Serves
<1>2. Lease!Finish(r, LeaseStatus'[held[r]])
  BY <1>1, StatusExcept, RequestExcept DEF Lease!Finish
<1> QED
  BY <1>2 DEF LeaseStep, Lease!Next, Lease!Return, Lease!Abandon

LEMMA FailStep ==
  ASSUME NEW r \in Request, NEW g \in Guest, Moves(r),
         Waits(r), ~Waits(r)', ~Holds(r)',
         LeaseStatus[g] = "unborn", LeaseStatus'[g] = "gone",
         \A h \in Guest \ {g} : LeaseStatus'[h] = LeaseStatus[h]
  PROVE  LeaseStep
<1>1. /\ LeaseLife[r] = "waiting" /\ LeaseHolder[r] = NoGuest
      /\ LeaseLife'[r] = "finished" /\ LeaseHolder'[r] = NoGuest
  BY Mapped, MappedNext DEF Waits, Holds, Serves
<1>2. LeaseHolder' = LeaseHolder
  BY <1>1, OthersStay DEF LeaseHolder
<1> QED
  BY <1>1, <1>2, StatusExcept, RequestExcept DEF LeaseStep, Lease!Next, Lease!FailToCreate

\* A step the lease does not see: the request's place changes in a way the
\* mapping does not read, and pool and counter do not change at all.
LEMMA UnseenStep ==
  ASSUME NEW r \in Request, Moves(r), UNCHANGED <<pool, instanceCounter>>,
         Waits(r)' <=> Waits(r), Holds(r)' <=> Holds(r), held'[r] = held[r],
         (pc'[r] = "start") <=> (pc[r] = "start"),
         held[r] \in Guest \cup {NoGuest}
  PROVE  LeaseStep
<1>0. \A g \in Guest : g # NoGuest
  BY InstancesAssumption DEF Guest, NoGuest
<1>1. \A g \in Guest : LeaseStatus'[g] = LeaseStatus[g]
  BY <1>0, StatusStays DEF Creates, Uses, Holds
<1>2. LeaseHolder'[r] = LeaseHolder[r] /\ LeaseLife'[r] = LeaseLife[r]
  BY Mapped, MappedNext DEF Holds
<1> QED
  BY <1>1, <1>2, OthersStay, SameFunctions DEF LeaseStep

\* The middleware's and the collector's steps move no request.
LEMMA LeaseEnvironment ==
  ASSUME TypeInv, ClaimInv, Environment
  PROVE  LeaseStep
<1>0. TypeOK /\ instanceCounter \in Nat /\ UNCHANGED <<pc, held>>
  <2>1. TypeOK
    BY DEF TypeInv
  <2>2. instanceCounter \in Nat
    BY <2>1, InstancesAssumption DEF TypeOK
  <2>3. UNCHANGED <<pc, held>>
    BY DEF Environment, NewMiddleware, NewMiddlewareFails, CloseMiddleware, PoolDrop,
           Finalize, request
  <2> QED
    BY <2>1, <2>2, <2>3
<1>1. /\ \A r \in Request, g \in Guest : (Creates(r, g)' <=> Creates(r, g)) /\ (Uses(r, g)' <=> Uses(r, g))
      /\ LeaseHolder' = LeaseHolder /\ LeaseLife' = LeaseLife
  BY <1>0 DEF Creates, Uses, Serves, LeaseHolder, LeaseLife
<1>2. \A g \in Guest : g \in Nat /\ g > 0
  BY InstancesAssumption DEF Guest
<1>3. ASSUME phase = "new"
      PROVE  /\ instanceCounter = 0 /\ pool = {} /\ 1 \in Guest
             /\ \A r \in Request, g \in Guest : ~Creates(r, g) /\ ~Uses(r, g)
  <2>1. instanceCounter = 0 /\ \A r \in Request : pc[r] = "idle"
    BY <1>3 DEF TypeInv, PhaseInv
  <2>2. \A g \in pool : g \in Guest /\ g <= 0
    BY <1>0, <2>1 DEF TypeOK, ClaimInv
  <2>3. pool = {}
    BY <1>2, <2>2
  <2> QED
    BY <2>1, <2>3, InstancesAssumption DEF Creates, Uses, Serves, Guest
<1>4. CASE NewMiddleware
  <2>1. /\ instanceCounter = 0 /\ pool = {} /\ 1 \in Guest
        /\ \A r \in Request, g \in Guest : ~Creates(r, g) /\ ~Uses(r, g)
    BY <1>3, <1>4 DEF NewMiddleware
  <2>2. instanceCounter' = 1 /\ pool' = {1}
    BY <1>4, <2>1 DEF NewMiddleware, NextName
  <2>3. LeaseStatus[1] = "unborn"
    BY <2>1, Mapped
  <2>4. LeaseStatus'[1] = "free"
    BY <2>1, <2>2, MappedNext
  <2>5. \A g \in Guest \ {1} : LeaseStatus'[g] = LeaseStatus[g]
    BY <1>1, <1>2, <2>1, <2>2, Mapped, MappedNext
  <2> QED
    BY <1>1, <2>1, <2>3, <2>4, <2>5, StatusExcept
    DEF LeaseStep, Lease!Next, Lease!CreateFree
<1>5. CASE NewMiddlewareFails
  <2>1. /\ instanceCounter = 0 /\ pool = {} /\ 1 \in Guest
        /\ \A r \in Request, g \in Guest : ~Creates(r, g) /\ ~Uses(r, g)
    BY <1>3, <1>5 DEF NewMiddlewareFails
  <2>2. instanceCounter' = 1 /\ pool' = {}
    BY <1>5, <2>1 DEF NewMiddlewareFails, NextName
  <2>3. LeaseStatus[1] = "unborn"
    BY <2>1, Mapped
  <2>4. LeaseStatus'[1] = "gone"
    BY <1>1, <2>1, <2>2, MappedNext
  <2>5. \A g \in Guest \ {1} : LeaseStatus'[g] = LeaseStatus[g]
    BY <1>1, <1>2, <2>1, <2>2, Mapped, MappedNext
  <2> QED
    BY <1>1, <2>1, <2>3, <2>4, <2>5, StatusExcept
    DEF LeaseStep, Lease!Next, Lease!Drop
<1>6. ASSUME NEW g \in Guest, PoolDrop(g) PROVE LeaseStep
  <2>1. g \in pool /\ pool' = pool \ {g} /\ UNCHANGED instanceCounter
    BY <1>6 DEF PoolDrop
  <2>2. g <= instanceCounter /\ g \in Nat
    BY <1>2, <2>1 DEF ClaimInv
  <2>3. \A r \in Request : ~Uses(r, g) /\ ~Creates(r, g)
    BY <2>1 DEF ClaimInv, Claims, Uses, Creates
  <2>4. LeaseStatus[g] = "free"
    BY <2>1, Mapped
  <2>5. LeaseStatus'[g] = "gone"
    BY <1>0, <1>1, <2>1, <2>2, <2>3, MappedNext
  <2>6. \A h \in Guest \ {g} : LeaseStatus'[h] = LeaseStatus[h]
    BY <1>1, <2>1, Mapped, MappedNext
  <2> QED
    BY <1>1, <2>4, <2>5, <2>6, StatusExcept DEF LeaseStep, Lease!Next, Lease!Drop
<1>7. ASSUME UNCHANGED <<pool, instanceCounter>> PROVE LeaseStep
  <2>1. \A g \in Guest : LeaseStatus'[g] = LeaseStatus[g]
    BY <1>1, <1>7, Mapped, MappedNext
  <2> QED
    BY <1>1, <2>1, SameFunctions DEF LeaseStep
<1> QED
  BY <1>4, <1>5, <1>6, <1>7 DEF Environment, CloseMiddleware, Finalize

-----------------------------------------------------------------------------
(* The steps of a request *)

\* What a step of request r is about, if it concerns guest g only.
LEMMA OtherStatuses ==
  ASSUME NEW r \in Request, NEW g \in Guest, Moves(r),
         held[r] \in {g, NoGuest}, held'[r] \in {g, NoGuest},
         \A h \in Guest \ {g} : /\ h \in pool' <=> h \in pool
                                /\ h > instanceCounter' <=> h > instanceCounter
  PROVE  \A h \in Guest \ {g} : LeaseStatus'[h] = LeaseStatus[h]
<1>1. \A h \in Guest \ {g} : /\ Creates(r, h)' <=> Creates(r, h)
                             /\ Uses(r, h)' <=> Uses(r, h)
  BY InstancesAssumption DEF Creates, Uses, Guest, NoGuest
<1> QED
  BY <1>1, StatusStays

\* Nobody else has anything to do with the guest a request claims.
LEMMA ClaimedAlone ==
  ASSUME TypeOK, ClaimInv, NEW r \in Request, Claims(r), held[r] \in Guest
  PROVE  /\ held[r] \notin pool
         /\ ~(held[r] > instanceCounter)
         /\ \A q \in Request \ {r} : ~Uses(q, held[r]) /\ ~Creates(q, held[r])
<1>1. held[r] \notin pool
  BY DEF ClaimInv
<1>2. held[r] \in Nat /\ held[r] # NoGuest
  BY InstancesAssumption DEF Guest, NoGuest
<1>3. instanceCounter \in Nat
  BY InstancesAssumption DEF TypeOK
<1>4. ~(held[r] > instanceCounter)
  BY <1>2, <1>3 DEF ClaimInv
<1>5. \A q \in Request \ {r} : ~Uses(q, held[r]) /\ ~Creates(q, held[r])
  BY <1>2 DEF ClaimInv, Claims, Uses, Creates
<1> QED
  BY <1>1, <1>4, <1>5

\* Nobody has anything to do with the counter's next guest.
LEMMA NextAlone ==
  ASSUME TypeOK, ClaimInv, instanceCounter < MaxInstances
  PROVE  \E g \in Guest :
           /\ g = NextName
           /\ LeaseStatus[g] = "unborn"
           /\ g \notin pool
           /\ \A q \in Request : held[q] # g
           /\ ~(g > NextName)
           /\ \A h \in Guest \ {g} : h > NextName <=> h > instanceCounter
<1>1. instanceCounter \in Nat /\ MaxInstances \in Nat
  BY InstancesAssumption DEF TypeOK
<1>2. PICK g \in Guest : g = NextName
  BY <1>1 DEF NextName, Guest
<1>3. g \in Nat /\ g = instanceCounter + 1
  BY <1>1, <1>2 DEF NextName
<1>4. g \notin pool
  BY <1>1, <1>3 DEF ClaimInv
<1>5. \A q \in Request : held[q] # g
  BY <1>1, <1>3 DEF ClaimInv
<1>6. LeaseStatus[g] = "unborn"
  BY <1>1, <1>3, <1>4, <1>5, Mapped DEF Uses
<1>7. \A h \in Guest \ {g} : h > g <=> h > instanceCounter
  BY <1>1, <1>3 DEF Guest
<1> QED
  BY <1>2, <1>3, <1>4, <1>5, <1>6, <1>7

LEMMA LeaseAcquiring ==
  ASSUME TypeOK, ClaimInv, RequestInv, NEW r \in Request, Acquiring(r)
  PROVE  LeaseStep
<1>0. /\ RequestAt(r)
      /\ held[r] \in Guest \cup {NoGuest}
      /\ \A g \in Guest : g # NoGuest
  BY InstancesAssumption DEF RequestInv, TypeOK, Guest, NoGuest
<1>1. CASE PoolHit(r)
  <2>1. PICK g \in pool : pool' = pool \ {g} /\ held' = [held EXCEPT ![r] = g]
    BY <1>1 DEF PoolHit
  <2>2. /\ g \in Guest /\ held[r] = NoGuest /\ held'[r] = g
        /\ pc[r] = "get" /\ pc'[r] = "begin" /\ UNCHANGED instanceCounter
    BY <1>0, <1>1, <2>1 DEF PoolHit, Goto, TypeOK, RequestAt
  <2>3. Moves(r)
    BY <1>1, <2>1 DEF Moves, PoolHit, Goto, TypeOK
  <2>4. Waits(r) /\ Holds(r)' /\ Uses(r, g)'
    BY <1>0, <2>2 DEF Waits, Holds, Uses, Serves
  <2>5. LeaseStatus[g] = "free" /\ LeaseStatus'[g] = "leased"
    BY <2>1, <2>2, <2>4, Mapped, MappedNext
  <2>6. \A h \in Guest \ {g} : LeaseStatus'[h] = LeaseStatus[h]
    BY <2>1, <2>2, <2>3, OtherStatuses
  <2> QED
    BY <2>2, <2>3, <2>4, <2>5, <2>6, AcquireStep
<1>2. CASE PoolMiss(r)
  <2>1. pc[r] = "get" /\ pc'[r] = "create" /\ Moves(r)
    BY <1>2 DEF PoolMiss, Goto, TypeOK, Moves, request
  <2>2. UNCHANGED <<pool, instanceCounter>> /\ held'[r] = held[r]
    BY <1>2 DEF PoolMiss, shared, request
  <2> QED
    BY <1>0, <2>1, <2>2, UnseenStep DEF Waits, Holds, Serves
<1>3. CASE NewGuest(r)
  <2>1. /\ instanceCounter < MaxInstances /\ instanceCounter' = NextName
        /\ held'[r] = NextName /\ held[r] = NoGuest /\ UNCHANGED pool
        /\ pc[r] = "create" /\ pc'[r] = "start" /\ Moves(r)
    BY <1>0, <1>3 DEF NewGuest, Goto, TypeOK, Moves, RequestAt
  <2>2. PICK g \in Guest :
          /\ g = NextName /\ LeaseStatus[g] = "unborn" /\ g \notin pool
          /\ \A q \in Request : held[q] # g
          /\ \A h \in Guest \ {g} : h > NextName <=> h > instanceCounter
    BY <2>1, NextAlone
  <2>3. Creates(r, g)' /\ \A q \in Request : ~Uses(q, g)'
    BY <2>1, <2>2 DEF Creates, Uses, Serves, Moves
  <2>4. LeaseStatus'[g] = "unborn"
    BY <2>1, <2>2, <2>3, MappedNext
  <2>5. \A h \in Guest : LeaseStatus'[h] = LeaseStatus[h]
    BY <2>1, <2>2, <2>4, OtherStatuses
  <2>6. LeaseHolder'[r] = LeaseHolder[r] /\ LeaseLife'[r] = LeaseLife[r]
    BY <2>1, Mapped, MappedNext DEF Waits, Serves
  <2> QED
    BY <2>1, <2>5, <2>6, OthersStay, SameFunctions DEF LeaseStep
<1>4. CASE NewGuestFails(r)
  <2>1. /\ instanceCounter < MaxInstances /\ instanceCounter' = NextName
        /\ held'[r] = NoGuest /\ held[r] = NoGuest /\ UNCHANGED pool
        /\ pc[r] = "create" /\ pc'[r] = "done" /\ Moves(r)
    BY <1>0, <1>4 DEF NewGuestFails, Goto, TypeOK, Moves, RequestAt, request
  <2>2. PICK g \in Guest :
          /\ LeaseStatus[g] = "unborn" /\ g \notin pool /\ ~(g > NextName)
          /\ \A q \in Request : held[q] # g
          /\ \A h \in Guest \ {g} : h > NextName <=> h > instanceCounter
    BY <2>1, NextAlone
  <2>3. \A q \in Request : ~Uses(q, g)' /\ ~Creates(q, g)'
    BY <2>1, <2>2 DEF Creates, Uses, Serves, Moves
  <2>4. LeaseStatus'[g] = "gone"
    BY <2>1, <2>2, <2>3, MappedNext
  <2>5. \A h \in Guest \ {g} : LeaseStatus'[h] = LeaseStatus[h]
    BY <2>1, <2>2, OtherStatuses
  <2>6. Waits(r) /\ ~Waits(r)' /\ ~Holds(r)'
    BY <2>1 DEF Waits, Holds, Serves
  <2> QED
    BY <2>1, <2>2, <2>4, <2>5, <2>6, FailStep
<1>5. CASE StartReturns(r)
  <2>1. /\ UNCHANGED <<pool, instanceCounter>> /\ held'[r] = held[r]
        /\ pc[r] = "start" /\ pc'[r] = "begin" /\ Moves(r)
    BY <1>5 DEF StartReturns, Goto, TypeOK, Moves, request
  <2>2. PICK g \in Guest : g = held[r]
    BY <1>0, <2>1 DEF RequestAt
  <2>3. /\ g \notin pool
        /\ \A q \in Request \ {r} : ~Uses(q, g) /\ ~Creates(q, g)
    BY <2>1, <2>2, ClaimedAlone DEF Claims
  <2>4. Creates(r, g) /\ ~Uses(r, g) /\ Uses(r, g)' /\ Waits(r) /\ Holds(r)'
    BY <1>0, <2>1, <2>2 DEF Creates, Uses, Serves, Waits, Holds
  <2>5. LeaseStatus[g] = "unborn" /\ LeaseStatus'[g] = "leased"
    BY <2>1, <2>3, <2>4, Mapped, MappedNext
  <2>6. \A h \in Guest \ {g} : LeaseStatus'[h] = LeaseStatus[h]
    BY <2>1, <2>2, OtherStatuses
  <2> QED
    BY <2>1, <2>2, <2>4, <2>5, <2>6, AcquireStep
<1>6. CASE StartFails(r)
  <2>1. /\ UNCHANGED <<pool, instanceCounter>> /\ held'[r] = NoGuest
        /\ pc[r] = "start" /\ pc'[r] = "done" /\ Moves(r)
    BY <1>6 DEF StartFails, Goto, TypeOK, Moves
  <2>2. PICK g \in Guest : g = held[r]
    BY <1>0, <2>1 DEF RequestAt
  <2>3. /\ g \notin pool /\ ~(g > instanceCounter)
        /\ \A q \in Request \ {r} : ~Uses(q, g) /\ ~Creates(q, g)
    BY <2>1, <2>2, ClaimedAlone DEF Claims
  <2>4. /\ Creates(r, g) /\ ~Uses(r, g) /\ Waits(r) /\ ~Waits(r)' /\ ~Holds(r)'
        /\ \A q \in Request : ~Uses(q, g)' /\ ~Creates(q, g)'
    BY <2>1, <2>2, <2>3 DEF Creates, Uses, Serves, Waits, Holds, Moves
  <2>5. LeaseStatus[g] = "unborn" /\ LeaseStatus'[g] = "gone"
    BY <2>1, <2>3, <2>4, Mapped, MappedNext
  <2>6. \A h \in Guest \ {g} : LeaseStatus'[h] = LeaseStatus[h]
    BY <2>1, <2>2, OtherStatuses
  <2> QED
    BY <2>1, <2>4, <2>5, <2>6, FailStep
<1> QED
  BY <1>1, <1>2, <1>3, <1>4, <1>5, <1>6 DEF Acquiring

LEMMA LeaseServing ==
  ASSUME TypeOK, ClaimInv, RequestInv, NEW r \in Request, Serving(r)
  PROVE  LeaseStep
<1>0. /\ RequestAt(r)
      /\ held[r] \in Guest \cup {NoGuest}
      /\ \A g \in Guest : g # NoGuest
  BY InstancesAssumption DEF RequestInv, TypeOK, Guest, NoGuest
\* Steps within Serves that keep the guest.
<1>1. ASSUME Moves(r), UNCHANGED <<pool, instanceCounter>>, held'[r] = held[r],
             Serves(r), Serves(r)'
      PROVE  LeaseStep
  <2>1. ~Waits(r) /\ ~Waits(r)' /\ pc[r] # "start" /\ pc'[r] # "start"
    BY <1>1 DEF Waits, Serves
  <2> QED
    BY <1>0, <1>1, <2>1, UnseenStep DEF Holds
\* Steps that put the guest back.
<1>2. ASSUME Moves(r), Close(r), UNCHANGED instanceCounter, held[r] \in Guest,
             Serves(r), pc'[r] \in {"returned", "done"}
      PROVE  LeaseStep
  <2>1. held'[r] = NoGuest /\ pool' = pool \cup {held[r]}
    BY <1>0, <1>2, CloseReleases DEF Close
  <2>2. PICK g \in Guest : g = held[r]
    BY <1>2
  <2>3. Holds(r) /\ ~Holds(r)' /\ ~Waits(r)'
    BY <1>0, <1>2, <2>1 DEF Holds, Waits
  <2>4. LeaseStatus'[g] = "free"
    BY <2>1, <2>2, MappedNext
  <2>5. \A h \in Guest \ {g} : LeaseStatus'[h] = LeaseStatus[h]
    BY <1>2, <2>1, <2>2, OtherStatuses
  <2> QED
    BY <1>2, <2>2, <2>3, <2>4, <2>5, FinishStep
<1>3. CASE HandleRequest(r)
  <2>1. Moves(r) /\ UNCHANGED <<pool, instanceCounter>> /\ held'[r] = held[r]
    BY <1>3 DEF HandleRequest, Goto, TypeOK, Moves, shared
  <2>2. Serves(r) /\ Serves(r)'
    BY <1>3 DEF HandleRequest, Goto, TypeOK, Serves
  <2> QED
    BY <1>1, <2>1, <2>2
<1>4. CASE EnableFeatures(r) \/ UseBody(r)
  <2>1. Moves(r) /\ UNCHANGED <<pool, instanceCounter>> /\ held'[r] = held[r]
    BY <1>4 DEF EnableFeatures, UseBody, Moves, shared
  <2>2. Serves(r) /\ Serves(r)'
    BY <1>4 DEF EnableFeatures, UseBody, InGuest, Serves
  <2> QED
    BY <1>1, <2>1, <2>2
<1>5. CASE HandleRequestReturns(r)
  <2>1. PICK x \in Results : Deferred(r, x)
    BY <1>5 DEF HandleRequestReturns
  <2>2. /\ pc[r] = "guest" /\ pc'[r] = "returned" /\ UNCHANGED instanceCounter
        /\ \A q \in Request \ {r} : pc'[q] = pc[q]
    BY <1>5 DEF HandleRequestReturns, Goto, TypeOK
  <2>3. held[r] \in Guest /\ Serves(r) /\ Serves(r)'
    BY <1>0, <2>2 DEF RequestAt, Serves
  <2>4. CASE x = NoResult
    <3>1. Close(r)
      BY <2>1, <2>4 DEF Deferred
    <3>2. Moves(r)
      BY <2>2, <3>1, CloseReleases DEF Moves
    <3> QED
      BY <1>2, <2>2, <2>3, <3>1, <3>2
  <2>5. CASE x # NoResult
    <3>1. UNCHANGED <<pool, held>>
      BY <2>1, <2>5 DEF Deferred, CloseRequest
    <3>2. Moves(r)
      BY <2>2, <3>1 DEF Moves
    <3> QED
      BY <1>1, <2>2, <2>3, <3>1, <3>2
  <2> QED
    BY <2>4, <2>5
<1>6. CASE HandleRequestFails(r)
  <2>1. /\ pc[r] = "guest" /\ pc'[r] = "returned" /\ UNCHANGED instanceCounter
        /\ Close(r) /\ \A q \in Request \ {r} : pc'[q] = pc[q]
    BY <1>6 DEF HandleRequestFails, Deferred, Goto, TypeOK
  <2>2. held[r] \in Guest /\ Serves(r)
    BY <1>0, <2>1 DEF RequestAt, Serves
  <2>3. Moves(r)
    BY <2>1, CloseReleases DEF Moves
  <2> QED
    BY <1>2, <2>1, <2>2, <2>3
<1>7. CASE Skip(r)
  <2>1. /\ pc[r] = "returned" /\ pc'[r] = "done" /\ held'[r] = held[r]
        /\ UNCHANGED <<pool, instanceCounter>> /\ Moves(r)
    BY <1>7 DEF Skip, Goto, TypeOK, Moves, shared, request
  <2>2. CASE held[r] = NoGuest
    BY <1>0, <2>1, <2>2, UnseenStep DEF Waits, Holds, Serves
  <2>3. CASE held[r] \in Guest
    <3>1. PICK g \in Guest : g = held[r]
      BY <2>3
    <3>2. /\ g \notin pool /\ ~(g > instanceCounter)
          /\ \A q \in Request \ {r} : ~Uses(q, g) /\ ~Creates(q, g)
      BY <2>1, <3>1, ClaimedAlone DEF Claims, Serves
    <3>3. /\ Holds(r) /\ ~Holds(r)' /\ ~Waits(r)'
          /\ \A q \in Request : ~Uses(q, g)' /\ ~Creates(q, g)'
      BY <1>0, <2>1, <3>1, <3>2 DEF Creates, Uses, Serves, Waits, Holds, Moves
    <3>4. LeaseStatus'[g] = "gone"
      BY <2>1, <3>2, <3>3, MappedNext
    <3>5. \A h \in Guest \ {g} : LeaseStatus'[h] = LeaseStatus[h]
      BY <2>1, <3>1, OtherStatuses
    <3> QED
      BY <2>1, <3>1, <3>3, <3>4, <3>5, FinishStep
  <2> QED
    BY <1>0, <2>2, <2>3
<1>8. CASE CallNext(r) \/ HandleResponse(r)
  <2>1. Moves(r) /\ UNCHANGED <<pool, instanceCounter>> /\ held'[r] = held[r]
    BY <1>8 DEF CallNext, HandleResponse, Goto, TypeOK, Moves, shared, request
  <2>2. Serves(r) /\ Serves(r)'
    BY <1>8 DEF CallNext, HandleResponse, Goto, TypeOK, Serves
  <2> QED
    BY <1>1, <2>1, <2>2
<1>9. CASE HandleResponseReturns(r) \/ HandleResponseFails(r)
  <2>1. /\ pc[r] = "response" /\ pc'[r] = "done" /\ UNCHANGED instanceCounter
        /\ Close(r) /\ \A q \in Request \ {r} : pc'[q] = pc[q]
    BY <1>9 DEF HandleResponseReturns, HandleResponseFails, Goto, TypeOK
  <2>2. held[r] \in Guest /\ Serves(r)
    BY <1>0, <2>1 DEF RequestAt, Serves
  <2>3. Moves(r)
    BY <2>1, CloseReleases DEF Moves
  <2> QED
    BY <1>2, <2>1, <2>2, <2>3
<1> QED
  BY <1>3, <1>4, <1>5, <1>6, <1>7, <1>8, <1>9 DEF Serving

LEMMA LeaseNext ==
  TypeInv /\ ClaimInv /\ RequestInv /\ [Next]_vars => LeaseStep
<1> SUFFICES ASSUME TypeInv, ClaimInv, RequestInv, [Next]_vars PROVE LeaseStep
  OBVIOUS
<1>0. TypeOK
  BY DEF TypeInv
<1>1. ASSUME NEW r \in Request, ServeHTTP(r) PROVE LeaseStep
  <2>1. /\ pc[r] = "idle" /\ pc'[r] = "get" /\ held'[r] = held[r]
        /\ UNCHANGED <<pool, instanceCounter>> /\ Moves(r)
    BY <1>0, <1>1 DEF ServeHTTP, Goto, TypeOK, Moves, shared, request
  <2>2. held[r] \in Guest \cup {NoGuest}
    BY <1>0 DEF TypeOK
  <2> QED
    BY <2>1, <2>2, UnseenStep DEF Waits, Holds, Serves
<1>2. ASSUME UNCHANGED vars PROVE LeaseStep
  <2>1. UNCHANGED <<pool, instanceCounter, pc, held>>
    BY <1>2 DEF vars, shared, request
  <2> QED
    BY <2>1 DEF LeaseStep, Lease!vars, LeaseStatus, LeaseHolder, LeaseLife, BeingUsed,
                BeingCreated, Serves
<1> QED
  BY <1>0, <1>1, <1>2, LeaseEnvironment, LeaseAcquiring, LeaseServing DEF Next, Finished

\* The guest pool implements the abstract lease: one request per guest, one
\* guest per request, and a guest that was dropped is never handed out again.
THEOREM PoolImplementsLease == Spec => ImplementsLease
<1>1. Init => Lease!Init
  <2> SUFFICES ASSUME Init PROVE Lease!Init
    OBVIOUS
  <2>1. \A g \in Guest : g > 0
    BY InstancesAssumption DEF Guest
  <2>2. LeaseStatus = [g \in Guest |-> "unborn"]
    BY <2>1 DEF Init, LeaseStatus, BeingUsed, Serves
  <2>3. LeaseHolder = [r \in Request |-> NoGuest]
    BY DEF Init, LeaseHolder, Serves
  <2>4. LeaseLife = [r \in Request |-> "waiting"]
    BY DEF Init, LeaseLife
  <2> QED
    BY <2>2, <2>3, <2>4 DEF Lease!Init
<1>2. TypeInv /\ ClaimInv /\ RequestInv /\ [Next]_vars => [Lease!Next]_(Lease!vars)
  BY LeaseNext DEF LeaseStep
<1>3. Init => TypeInv /\ ClaimInv
  <2>1. Init => TypeInv
    BY Constants DEF Init, TypeInv, TypeOK, PhaseInv, PC
  <2>2. Init => ClaimInv
    BY DEF Init, ClaimInv, Claims, Serves, NoGuest
  <2> QED
    BY <2>1, <2>2
<1> QED
  BY <1>1, <1>2, <1>3, RequestsCorrect, TypeNext, ClaimNext, PTL
  DEF Spec, ImplementsLease, Lease!Spec
=============================================================================
