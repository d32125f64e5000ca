---------------------------- MODULE HeldResponse ----------------------------
(***************************************************************************)
(* What buffering promises of the response of one request, without saying  *)
(* how (FeatureBufferResponse in api/handler/features.go):                 *)
(*                                                                         *)
(*   - what the client was sent is never taken back, and its status is the *)
(*     first one it was sent;                                              *)
(*   - while a handler holds the response the client is sent nothing, and  *)
(*     whatever is written, read or replaced changes what is held only;    *)
(*   - what is held in the end is sent once and whole, in one step.        *)
(*                                                                         *)
(* A handler loses the response to the next handler if that is called: it  *)
(* has the same buffer then, and only the first of these is still promised. *)
(* ResponseChain is shown to implement this specification.                 *)
(***************************************************************************)
EXTENDS Integers, SequencesExt

CONSTANTS
  Handler,   \* the Wasm handlers of the chain
  Response   \* responses: a status, 0 if there is none yet, and a body

VARIABLES
  called,    \* the handlers that were called
  client,    \* what the client was sent
  held       \* the handler that holds the response, if any -> what it holds

vars == <<called, client, held>>

Nothing == [status |-> 0, body |-> <<>>]
NotHeld == [i \in {} |-> Nothing]

Init ==
  /\ called = {}
  /\ client = Nothing
  /\ held = NotHeld

\* More was sent: net/http sends 200 with the first part of a body that no
\* status was written before.
Grows(old, new) ==
  /\ new \in Response
  /\ IsPrefix(old.body, new.body)
  /\ old.status # 0 => new.status = old.status
  /\ new.body # old.body => new.status # 0

\* The client was sent all of r after c.
Sent(c, r) ==
  [status |-> CASE c.status # 0 -> c.status
                [] c.status = 0 /\ r.status # 0 -> r.status
                [] c.status = 0 /\ r.status = 0 -> IF r.body = <<>> THEN 0 ELSE 200,
   body   |-> c.body \o r.body]

\* A handler is called: it may hold the response later, the others not any more.
Call(i) ==
  /\ i \notin called
  /\ called' = called \cup {i}
  /\ held' = NotHeld
  /\ UNCHANGED client

\* Handlers and the application respond directly.
Respond ==
  /\ held = NotHeld
  /\ Grows(client, client')
  /\ UNCHANGED <<called, held>>

\* Handler i holds the response from now on.
Hold(i) ==
  /\ held = NotHeld
  /\ i \in called
  /\ held' \in [{i} -> Response]
  /\ Grows(client, client')
  /\ UNCHANGED called

\* What is held is written or replaced.
Revise(i) ==
  /\ DOMAIN held = {i}
  /\ held' \in [{i} -> Response]
  /\ UNCHANGED <<called, client>>

\* What is held goes to the client.
Send(i) ==
  /\ DOMAIN held = {i}
  /\ client' = Sent(client, held[i])
  /\ held' = NotHeld
  /\ UNCHANGED called

Next ==
  \/ Respond
  \/ \E i \in Handler : Call(i) \/ Hold(i) \/ Revise(i) \/ Send(i)

Spec == Init /\ [][Next]_vars
=============================================================================
