----------------------------- MODULE GuestLease -----------------------------
(***************************************************************************)
(* What the guest pool of a middleware promises its caller, without saying *)
(* how (RATIONALE.md, "Guest pool" and "Guest pinning"):                   *)
(*                                                                         *)
(*   - a Wasm instance (a guest) serves one request at a time;             *)
(*   - a request is served by one instance from the moment it acquires it  *)
(*     until it is finished, and never acquires another;                   *)
(*   - an instance that was dropped is never handed out again.             *)
(*                                                                         *)
(* GuestPool is shown to implement this specification.                     *)
(***************************************************************************)
CONSTANTS
  Request,   \* HTTP requests
  Guest,     \* guest instances, born or not
  NoGuest    \* what a request holds when it holds no guest

VARIABLES
  status,    \* Guest   -> where the instance is in its life
  holder,    \* Request -> the guest it holds
  life       \* Request -> where the request is in its life

vars == <<status, holder, life>>

Status == {"unborn", "free", "leased", "gone"}
Life   == {"waiting", "holding", "finished"}

TypeOK ==
  /\ status \in [Guest -> Status]
  /\ holder \in [Request -> Guest \cup {NoGuest}]
  /\ life   \in [Request -> Life]

Init ==
  /\ status = [g \in Guest |-> "unborn"]
  /\ holder = [r \in Request |-> NoGuest]
  /\ life   = [r \in Request |-> "waiting"]

\* An instance is created ahead of any request.
CreateFree(g) ==
  /\ status[g] = "unborn"
  /\ status' = [status EXCEPT ![g] = "free"]
  /\ UNCHANGED <<holder, life>>

\* A waiting request gets an instance, a pooled or a new one.
Acquire(r, g) ==
  /\ life[r] = "waiting"
  /\ status[g] \in {"unborn", "free"}
  /\ status' = [status EXCEPT ![g] = "leased"]
  /\ holder' = [holder EXCEPT ![r] = g]
  /\ life'   = [life EXCEPT ![r] = "holding"]

\* A request is finished with its instance: it goes back, or is lost.
Finish(r, fate) ==
  /\ life[r] = "holding"
  /\ status' = [status EXCEPT ![holder[r]] = fate]
  /\ holder' = [holder EXCEPT ![r] = NoGuest]
  /\ life'   = [life EXCEPT ![r] = "finished"]

Return(r)  == Finish(r, "free")
Abandon(r) == Finish(r, "gone")

\* An instance nobody holds goes away.
Drop(g) ==
  /\ status[g] \in {"unborn", "free"}
  /\ status' = [status EXCEPT ![g] = "gone"]
  /\ UNCHANGED <<holder, life>>

\* The instance a request was waiting for cannot be created.
FailToCreate(r, g) ==
  /\ life[r] = "waiting"
  /\ status[g] = "unborn"
  /\ status' = [status EXCEPT ![g] = "gone"]
  /\ life'   = [life EXCEPT ![r] = "finished"]
  /\ UNCHANGED holder

Next ==
  \/ \E g \in Guest : CreateFree(g) \/ Drop(g)
  \/ \E r \in Request : Return(r) \/ Abandon(r)
  \/ \E r \in Request, g \in Guest : Acquire(r, g) \/ FailToCreate(r, g)

Spec == Init /\ [][Next]_vars
=============================================================================
