---------------------------- MODULE ResponseChain ----------------------------
(***************************************************************************)
(* The response of one HTTP request that passes a chain of Wasm handlers:  *)
(* handler/nethttp (middleware.go, buffer.go, host.go) with the gates and  *)
(* cached writers of handler/middleware.go and handler/state.go.           *)
(*                                                                         *)
(* Handler 1 is called by net/http with the client's ResponseWriter;       *)
(* handler i calls handler i+1 with its own s.w; the last one calls the    *)
(* application. A handler whose guest enables FeatureBufferResponse wraps  *)
(* the writer in a bufferingResponseWriter, unless it was given one.       *)
(*                                                                         *)
(* Everything runs in one goroutine; what is open is what the guests and   *)
(* the application do. A chunk of body is named after who wrote it.        *)
(***************************************************************************)
EXTENDS Integers, Sequences

CONSTANTS
  N,            \* Wasm handlers in the chain
  MaxWrites,    \* bound: write_body calls per guest and phase
  CloseMayFail  \* may closing the request body reader fail?

ASSUME ChainAssumption == N \in Nat \ {0}
ASSUME WritesAssumption == MaxWrites \in Nat
ASSUME CloseAssumption == CloseMayFail \in BOOLEAN

Level == 1 .. N
App == N + 1          \* the application, at the end of the chain
Raw == 0              \* the client's ResponseWriter
Writer == 0 .. N      \* writer i > 0 is the buffer created by handler i
NoWriter == -1

VARIABLES
  pc,       \* Level and App -> where its call is
  w,        \* Level -> s.w
  out,      \* Writer -> status and body: sent to the client, or buffered
  buffers,  \* Level -> is FeatureBufferResponse in the request's features?
  cached,   \* Level -> s.responseBodyWriter
  reader,   \* Level -> the phase s.responseBodyReader was created in, or "none"
  release,  \* Level -> the buffer ServeHTTP deferred the release of, or Raw
  writes,   \* Level and App -> write_body calls in the current phase
  early,    \* history: Level -> did the guest write before the next handler?
  seen,     \* history: Level -> what its handle_response read of the response
  sent      \* history: Level -> what the client had when next was called

chain == <<w, buffers, release>>
reads == <<reader, seen>>
vars == <<pc, chain, out, cached, writes, early, sent, reads>>

PC == {"idle", "request", "next", "response", "running", "done", "panicked"}
Ended == {"done", "panicked"}

StatusOf(i) == 200 + i
Status == {0, 200, 500} \cup {StatusOf(i) : i \in 1 .. App}
Chunk == (Level \X {"request", "response", "error"} \X (0 .. MaxWrites))
           \cup ({App} \X {"running"} \X (0 .. MaxWrites))
Response == [status : Status, body : Seq(Chunk)]
Empty == [status |-> 0, body |-> <<>>]

TypeOK ==
  /\ pc \in [1 .. App -> PC]
  /\ w \in [Level -> Writer]
  /\ out \in [Writer -> Response]
  /\ buffers \in [Level -> BOOLEAN]
  /\ cached \in [Level -> Writer \cup {NoWriter}]
  /\ release \in [Level -> Writer]
  /\ writes \in [1 .. App -> 0 .. MaxWrites]
  /\ early \in [Level -> BOOLEAN]
  /\ sent \in [Level -> Response]
  /\ reader \in [Level -> {"none", "request", "response"}]
  /\ seen \in [Level -> Seq(Seq(Chunk))]

Init ==
  /\ pc = [i \in 1 .. App |-> "idle"]
  /\ w = [i \in Level |-> Raw]
  /\ out = [x \in Writer |-> Empty]
  /\ buffers = [i \in Level |-> FALSE]
  /\ cached = [i \in Level |-> NoWriter]
  /\ release = [i \in Level |-> Raw]
  /\ writes = [i \in 1 .. App |-> 0]
  /\ early = [i \in Level |-> FALSE]
  /\ sent = [i \in Level |-> Empty]
  /\ reader = [i \in Level |-> "none"]
  /\ seen = [i \in Level |-> <<>>]

-----------------------------------------------------------------------------
(* Writers. Each operator maps the responses o to those after the call. *)

\* Mutant: the buffer keeps the status in a byte.
WriteHeaderByte(o, x, status) ==
  [o EXCEPT ![x].status = IF x = Raw /\ @ # 0 THEN @ ELSE status % 256]

\* WriteHeader: the client keeps the first status, a buffer the last one.
WriteHeader(o, x, status) ==
  [o EXCEPT ![x].status = IF x = Raw /\ @ # 0 THEN @ ELSE status]

\* Write: the client's status becomes 200 if none was written before.
Write(o, x, body) ==
  [o EXCEPT ![x] = [status |-> IF x = Raw /\ @.status = 0 THEN 200 ELSE @.status,
                    body   |-> @.body \o body]]

\* The writer ServeHTTP of handler i is called with, which is also the
\* delegate of a buffer that handler i creates.
Given(i) == IF i = 1 THEN Raw ELSE w[i - 1]

\* Mutant: the body is released before the status.
ReleaseBodyFirst(o, x) ==
  LET body == IF o[x].body = <<>> THEN o ELSE Write(o, Given(x), o[x].body)
  IN  IF o[x].status = 0 THEN body ELSE WriteHeader(body, Given(x), o[x].status)

\* bufferingResponseWriter.release, which does not empty the buffer.
Release(o, x) ==
  LET header == IF o[x].status = 0 THEN o ELSE WriteHeader(o, Given(x), o[x].status)
  IN  IF o[x].body = <<>> THEN header ELSE Write(header, Given(x), o[x].body)

\* Mutant: a buffer without a status is taken for an empty one.
DeferredIfStatus(o, x) == IF x = Raw \/ o[x].status = 0 THEN o ELSE Release(o, x)

\* The deferred release of ServeHTTP, if there was a buffer to defer it of.
Deferred(o, x) == IF x = Raw THEN o ELSE Release(o, x)

ErrorText(i) == <<i, "error", 0>>

\* Mutant: the text of the error is written before the status.
HandleErrBodyFirst(o, i) ==
  WriteHeader(Write(o, Given(i), <<ErrorText(i)>>), Given(i), 500)

\* handleErr writes to the writer ServeHTTP was called with, not to s.w.
HandleErr(o, i) == Write(WriteHeader(o, Given(i), 500), Given(i), <<ErrorText(i)>>)

-----------------------------------------------------------------------------
(* ServeHTTP of handler i *)

\* enableFeatures wraps a writer that is not a buffer yet.
Wrap(i, x) == IF x # Raw THEN x ELSE i

Called(i) == pc[i] = "idle" /\ (i > 1 => pc[i - 1] = "next")

\* newRequestState, with the features the guest's start function enabled.
ServeHTTP(i) ==
  /\ Called(i)
  /\ pc' = [pc EXCEPT ![i] = "request"]
  /\ \E start \in BOOLEAN :
       /\ buffers' = [buffers EXCEPT ![i] = start]
       /\ w' = [w EXCEPT ![i] = IF start THEN Wrap(i, Given(i)) ELSE Given(i)]
  /\ UNCHANGED <<release, out, cached, writes, early, sent, reads>>

InGuest(i) == pc[i] \in {"request", "response"}

\* mustBeforeNextOrFeature for the response's body and status.
MayOverwrite(i) == pc[i] = "request" \/ buffers[i]

\* enable_features(FeatureBufferResponse), in either phase.
EnableFeatures(i) ==
  /\ InGuest(i)
  /\ ~buffers[i]
  /\ buffers' = [buffers EXCEPT ![i] = TRUE]
  /\ w' = [w EXCEPT ![i] = Wrap(i, @)]
  /\ UNCHANGED <<pc, release, out, cached, writes, early, sent, reads>>

SetStatusCode(i) ==
  /\ InGuest(i)
  /\ MayOverwrite(i)
  /\ out' = WriteHeader(out, w[i], StatusOf(i))
  /\ UNCHANGED <<pc, chain, cached, writes, early, sent, reads>>

\* Mutant: the buffer is not reset.
ResponseBodyWriterAppends(o, x) == o

\* ResponseBodyWriter resets the buffer; it is only called on the first use.
ResponseBodyWriter(o, x) == IF x = Raw THEN o ELSE [o EXCEPT ![x].body = <<>>]

\* write_body of the response: the writer is created once and kept.
WriteBody(i) ==
  /\ InGuest(i)
  /\ MayOverwrite(i)
  /\ writes[i] < MaxWrites
  /\ writes' = [writes EXCEPT ![i] = @ + 1]
  /\ early' = [early EXCEPT ![i] = @ \/ pc[i] = "request"]
  /\ LET x == IF cached[i] = NoWriter THEN w[i] ELSE cached[i]
         o == IF cached[i] = NoWriter THEN ResponseBodyWriter(out, x) ELSE out
     IN  /\ cached' = [cached EXCEPT ![i] = x]
         /\ out' = Write(o, x, <<<<i, pc[i], writes'[i]>>>>)
  /\ UNCHANGED <<pc, chain, sent, reads>>

\* ResponseBodyReader reads what the buffer holds when it is created.
ResponseBodyReader(i) == out[w[i]].body

\* Mutant: the buffer is reset when it is read, as it is when it is written.
ReadBodyResets(i) ==
  /\ InGuest(i)
  /\ MayOverwrite(i)
  /\ w[i] # Raw
  /\ seen[i] = <<>>
  /\ reader' = [reader EXCEPT ![i] = pc[i]]
  /\ pc[i] = "response" => seen' = [seen EXCEPT ![i] = <<ResponseBodyReader(i)>>]
  /\ pc[i] = "request" => UNCHANGED seen
  /\ out' = ResponseBodyWriter(out, w[i])
  /\ UNCHANGED <<pc, chain, cached, writes, early, sent>>

\* read_body of the response, to the end: the reader is created once and kept,
\* so that a second read finds nothing. Without a buffer the type assertion of
\* ResponseBodyReader panics.
ReadBody(i) ==
  /\ InGuest(i)
  /\ MayOverwrite(i)
  /\ w[i] # Raw
  /\ seen[i] = <<>>
  /\ reader' = [reader EXCEPT ![i] = IF @ = "none" THEN pc[i] ELSE @]
  /\ pc[i] = "response" =>
       seen' = [seen EXCEPT ![i] = <<IF reader[i] = "none" THEN ResponseBodyReader(i) ELSE <<>>>>]
  /\ pc[i] = "request" => UNCHANGED seen
  /\ UNCHANGED <<pc, chain, out, cached, writes, early, sent>>

\* get_status_code, which needs a buffer as well.
GetStatusCode(o, x) == IF o[x].status = 0 THEN 200 ELSE o[x].status

\* The end of the request state of handler i.
CloseReader(i) ==
  /\ reader' = [reader EXCEPT ![i] = "none"]
  /\ seen' = [seen EXCEPT ![i] = <<>>]

\* handle_request returns next=0: the response is what the guest wrote.
Skip(i) ==
  /\ pc[i] = "request"
  /\ pc' = [pc EXCEPT ![i] = "done"]
  /\ cached' = [cached EXCEPT ![i] = NoWriter]
  /\ out' = Deferred(out, w[i])
  /\ CloseReader(i)
  /\ UNCHANGED <<chain, writes, early, sent>>

\* handle_request fails: status 500, then whatever the guest had buffered.
RequestFails(i) ==
  /\ pc[i] = "request"
  /\ pc' = [pc EXCEPT ![i] = "done"]
  /\ cached' = [cached EXCEPT ![i] = NoWriter]
  /\ out' = Deferred(HandleErr(out, i), w[i])
  /\ CloseReader(i)
  /\ UNCHANGED <<chain, writes, early, sent>>

\* Mutant: the buffer is released before the next handler is called.
ProceedReleases(i) ==
  /\ pc[i] = "request"
  /\ pc' = [pc EXCEPT ![i] = "next"]
  /\ release' = [release EXCEPT ![i] = w[i]]
  /\ sent' = [sent EXCEPT ![i] = out[Raw]]
  /\ out' = Deferred(out, w[i])
  /\ UNCHANGED <<w, buffers, cached, writes, early, reads>>

\* handle_request returns next=1. An error of closeRequest is written to the
\* client, and the next handler called all the same. The buffer to release is
\* the one s.w is now, and the cached writer stays.
Proceed(i) ==
  /\ pc[i] = "request"
  /\ pc' = [pc EXCEPT ![i] = "next"]
  /\ \/ UNCHANGED out
     \/ CloseMayFail /\ out' = HandleErr(out, i)
  /\ release' = [release EXCEPT ![i] = w[i]]
  /\ sent' = [sent EXCEPT ![i] = out'[Raw]]
  /\ UNCHANGED <<w, buffers, cached, writes, early, reads>>

\* What the guest's is_error tells: handleNext recovered a panic.
IsError(i) == pc[i + 1] = "panicked"

\* The next handler returned, or its panic was recovered: HandleResponse.
HandleResponse(i) ==
  /\ pc[i] = "next"
  /\ pc[i + 1] \in Ended
  /\ pc' = [pc EXCEPT ![i] = "response"]
  /\ writes' = [writes EXCEPT ![i] = 0]
  /\ UNCHANGED <<chain, out, cached, early, sent, reads>>

\* handle_response returns, or fails and ServeHTTP panics. Both release.
ResponseEnds(i) ==
  /\ pc[i] = "response"
  /\ \E end \in Ended : pc' = [pc EXCEPT ![i] = end]
  /\ cached' = [cached EXCEPT ![i] = NoWriter]
  /\ out' = Deferred(out, release[i])
  /\ CloseReader(i)
  /\ UNCHANGED <<chain, writes, early, sent>>

-----------------------------------------------------------------------------
(* The application: a net/http handler *)

AppServeHTTP ==
  /\ Called(App)
  /\ pc' = [pc EXCEPT ![App] = "running"]
  /\ UNCHANGED <<chain, out, cached, writes, early, sent, reads>>

AppWrites ==
  /\ pc[App] = "running"
  /\ \/ /\ out' = WriteHeader(out, Given(App), StatusOf(App))
        /\ UNCHANGED writes
     \/ /\ writes[App] < MaxWrites
        /\ writes' = [writes EXCEPT ![App] = @ + 1]
        /\ out' = Write(out, Given(App), <<<<App, "running", writes'[App]>>>>)
  /\ UNCHANGED <<pc, chain, cached, early, sent, reads>>

AppEnds ==
  /\ pc[App] = "running"
  /\ \E end \in Ended : pc' = [pc EXCEPT ![App] = end]
  /\ UNCHANGED <<chain, out, cached, writes, early, sent, reads>>

Guest(i) ==
  \/ EnableFeatures(i) \/ SetStatusCode(i) \/ WriteBody(i) \/ ReadBody(i)
  \/ Skip(i) \/ RequestFails(i) \/ Proceed(i) \/ ResponseEnds(i)

Answered == pc[1] \in Ended /\ UNCHANGED vars

Next ==
  \/ \E i \in Level : ServeHTTP(i) \/ Guest(i) \/ HandleResponse(i)
  \/ AppServeHTTP \/ AppWrites \/ AppEnds
  \/ Answered

Spec == Init /\ [][Next]_vars
-----------------------------------------------------------------------------
(* Properties *)

\* Handler i asked for the response to be buffered before it let the next
\* handler run.
Buffers(i) == pc[i] \in {"next", "response"} /\ release[i] # Raw

\* A handler behind i in the chain was given i's buffer.
Shared(i) == \E j \in i + 1 .. N : pc[j] # "idle" /\ w[j] = w[i]

\* FeatureBufferResponse "buffers the HTTP response produced by FuncNext instead
\* of sending it immediately" (features.go:21). From the call of the next
\* handler until the guest is finished with the response, nothing reaches the
\* client, neither from the handlers behind nor from the guest, provided the
\* guest did not write before it, and no handler behind has the same buffer.
Withheld ==
  \A i \in Level : Buffers(i) /\ ~early[i] /\ ~Shared(i) => out[Raw] = sent[i]

\* The same without a condition on the handlers behind.
BufferedIsWithheld ==
  \A i \in Level : Buffers(i) /\ ~early[i] => out[Raw] = sent[i]

\* When ServeHTTP of a handler that buffered returns, the client has been sent
\* exactly what the buffer holds, once, with the status get_status_code tells:
\* nothing the guest or the handlers behind left in the buffer is lost,
\* repeated or has another status.
Delivered ==
  \A i \in Level :
    /\ pc[i] \in Ended /\ (i > 1 => pc[i - 1] = "next")
    /\ release[i] = i /\ ~early[i] /\ ~Shared(i)
    => /\ out[Raw].body = sent[i].body \o out[i].body
       /\ sent[i].status = 0 /\ out[i] # Empty => out[Raw].status = GetStatusCode(out, i)

\* "FeatureBufferResponse is required to read the response body produced by
\* FuncNext" (wasm.go:98), and enough: until it writes, a guest that buffered
\* reads in handle_response all that will be sent of the handlers behind it, if
\* it did not take a reader before they ran.
ReadsWhatNextWrote ==
  \A i \in Level :
    pc[i] = "response" /\ Buffers(i) /\ writes[i] = 0 /\ reader[i] = "response" =>
      seen[i] = <<out[w[i]].body>>

\* "The first call to FuncWriteBody in FuncHandleRequest or after FuncNext
\* overwrites any response body" (wasm.go:106): once the guest wrote in
\* handle_response, what the next handler wrote is gone and its own chunks are
\* all there is. It is so unless it wrote in handle_request as well.
FirstWriteOverwrites ==
  \A i \in Level :
    pc[i] = "response" /\ Buffers(i) /\ writes[i] > 0 /\ ~early[i] =>
      out[w[i]].body = [k \in 1 .. writes[i] |-> <<i, "response", k>>]

\* The same without the condition.
FirstWriteAfterNextOverwrites ==
  \A i \in Level : pc[i] = "response" /\ Buffers(i) /\ writes[i] > 0 =>
    out[w[i]].body = [k \in 1 .. writes[i] |-> <<i, "response", k>>]

\* What handlers hold of the response: a handler that buffers, did not write
\* before and shares no buffer, the content of its buffer.
Holds(i) == Buffers(i) /\ ~early[i] /\ ~Shared(i)
HeldBy == [i \in {j \in Level : Holds(j)} |-> out[release[i]]]

Held ==
  INSTANCE HeldResponse WITH
    Handler <- Level, called <- {i \in Level : pc[i] # "idle"}, client <- out[Raw], held <- HeldBy

\* Every step of the chain is, to the client and to the handler that holds the
\* response, a step of HeldResponse: the client's response only grows and keeps
\* its status, one handler at most holds it, and what that one holds is not lost:
\* it is sent in one step, with its status, unless another handler is called.
ImplementsHeld == Held!Spec

\* A request whose handle_request fails before anything was sent is answered with
\* status 500, whichever writer of the chain the error is written to, and whatever
\* status the guest had buffered. A handle_response that fails is another matter:
\* ServeHTTP panics and its deferred release sends what was buffered, as Delivered
\* says (nethttp/middleware.go:123-138).
RequestFailureIs500 ==
  [][\A i \in Level : RequestFails(i) /\ out[Raw] = Empty => out'[Raw].status = 500]_vars
=============================================================================
