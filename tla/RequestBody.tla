----------------------------- MODULE RequestBody -----------------------------
(***************************************************************************)
(* The body of one HTTP request on its way through a Wasm handler to the   *)
(* next one and back: handler/nethttp (middleware.go, buffer.go, host.go)  *)
(* and the readers and writers handler/middleware.go and state.go keep.    *)
(*                                                                         *)
(* r.Body, the cached reader and the cached writer point to body objects:  *)
(* the client's body, a buffer the guest writes, or a bufferingRequestBody *)
(* around another object. The client's body may return io.EOF together     *)
(* with the last bytes or on its own, and in any number of pieces, as the  *)
(* contract of io.Reader allows.                                           *)
(***************************************************************************)
EXTENDS Integers, Sequences

CONSTANTS
  Original,    \* the client's body, a sequence of chunks
  Limits,      \* buf_limit values of read_body, in chunks
  MaxObjects,  \* bound: body objects created
  MaxWrites    \* bound: write_body calls

ASSUME OriginalAssumption == Original \in Seq(STRING) /\ Original # <<>>
ASSUME LimitsAssumption == Limits \subseteq Nat \ {0}
ASSUME BoundsAssumption == MaxObjects \in Nat \ {0} /\ MaxWrites \in Nat

None == 0
Client == 1

VARIABLES
  pc,       \* where ServeHTTP is; "returned" between closeRequest and handleNext
  obj,      \* body objects, in order of creation
  body,     \* r.Body
  reader,   \* s.requestBodyReader, or None
  writer,   \* s.requestBodyWriter, or None
  enabled,  \* is FeatureBufferRequest in the request's features?
  closed,   \* was the client's body closed?
  saw,      \* the body the next handler was given, or put in its place
  took,     \* what it read of it
  after,    \* history: what read_body told the guest in handle_response
  wrote,    \* history: what the guest wrote
  read      \* history: how the guest read (see Consumed)

state == <<obj, body, reader, writer, enabled, closed>>
history == <<saw, took, after, wrote, read>>
vars == <<pc, state, history>>

Chunk == {Original[k] : k \in DOMAIN Original} \cup {"w"}
Kind == {"client", "written", "buffering"}

\* A body object: base is the object at the end of the chain of delegates, and
\* passes the buffering bodies that a read of it goes through.
Object == [kind : Kind, of : Nat, base : Nat, passes : SUBSET Nat, data : Seq(Chunk)]

TypeOK ==
  /\ pc \in {"idle", "request", "returned", "next", "running", "response", "done"}
  /\ obj \in Seq(Object) /\ Len(obj) \in 1 .. MaxObjects + 1
  /\ \A i \in DOMAIN obj :
       /\ obj[i].of \in 0 .. i - 1 /\ obj[i].base \in 1 .. i
       /\ obj[i].passes \subseteq 1 .. i
  /\ body \in DOMAIN obj
  /\ reader \in {None} \cup DOMAIN obj
  /\ writer \in {None} \cup DOMAIN obj
  /\ enabled \in BOOLEAN
  /\ closed \in BOOLEAN
  /\ saw \in [ok : BOOLEAN, data : Seq(Chunk)]
  /\ took \in Seq(Chunk)
  /\ after \in [data : Seq(Chunk), eof : BOOLEAN, full : BOOLEAN]
  /\ wrote \in Seq({"w"})
  /\ read \in {"nothing", "unbuffered", "whole", "other", "own"}

Init ==
  /\ pc = "idle"
  /\ obj = <<[kind |-> "client", of |-> None, base |-> Client, passes |-> {}, data |-> Original]>>
  /\ body = Client
  /\ reader = None
  /\ writer = None
  /\ enabled = FALSE
  /\ closed = FALSE
  /\ saw = [ok |-> FALSE, data |-> <<>>]
  /\ took = <<>>
  /\ after = [data |-> <<>>, eof |-> FALSE, full |-> TRUE]
  /\ wrote = <<>>
  /\ read = "nothing"

-----------------------------------------------------------------------------
(* Body objects *)

IsBuffering(i) == obj[i].kind = "buffering"

\* A new object that holds data itself, or wraps another one.
Holding(data) ==
  [kind |-> "written", of |-> None, base |-> Len(obj) + 1, passes |-> {}, data |-> data]
Wrapping(i) ==
  [kind |-> "buffering", of |-> i, base |-> obj[i].base,
   passes |-> obj[i].passes \cup {Len(obj) + 1}, data |-> <<>>]

Create(object) == obj' = Append(obj, object)

\* Bound on what the guest creates; handleNext may create one more.
Room == Len(obj) < MaxObjects

\* Mutant: nothing is ever buffered.
BuffersNothing(data, d, q, eof) == data

\* Mutant: all of the slice it was given is kept, not only what was read into it.
BuffersSlice(data, d, q, eof) == IF eof THEN data \o d \o <<"stale">> ELSE data

\* bufferingRequestBody.Read: only the piece that io.EOF came with is kept.
Buffers(data, d, q, eof) ==
  IF eof THEN data \o SubSeq(d, Len(d) - q + 1, Len(d)) ELSE data

\* The read loop of read_body takes n chunks from the base, in pieces: until
\* they are as many as the limit, or EOF, which the last q of them come with.
Reads(base, limit, n, q, eof) ==
  /\ n <= limit
  /\ IF eof THEN n = Len(obj[base].data) ELSE n = limit /\ q = 0
  /\ q <= n
  /\ eof /\ n = limit => q > 0
  /\ eof /\ obj[base].kind = "written" => q = 0

\* History: what a guest that read has consumed. "own": some of what it wrote
\* itself; "unbuffered": the client's body, before it enabled the buffering;
\* "whole": the client's body, all of it buffered in one piece.
Consumed(base, q) ==
  IF read = "own" \/ obj[base].kind = "written" THEN "own"
  ELSE IF read # "nothing" THEN read
  ELSE IF ~enabled THEN "unbuffered"
  ELSE IF q = Len(Original) THEN "whole"
  ELSE "other"

\* And what it was told, after the next handler.
Records(base, n, q, eof, full) ==
  IF pc = "request"
  THEN read' = Consumed(base, q) /\ UNCHANGED after
  ELSE /\ after' = [data |-> after.data \o SubSeq(obj[base].data, 1, n),
                    eof |-> eof, full |-> full]
       /\ UNCHANGED read

-----------------------------------------------------------------------------
(* Handlers *)

\* requestState.enableFeatures wraps r.Body, on each call, if the features
\* enabled so far include the buffering of requests.
Wrap(wanted) ==
  IF wanted
  THEN Room /\ Create(Wrapping(body)) /\ body' = Len(obj) + 1
  ELSE UNCHANGED <<obj, body>>

\* ServeHTTP with the features of the guest's start function.
ServeHTTP ==
  /\ pc = "idle"
  /\ pc' = "request"
  /\ enabled' \in BOOLEAN
  /\ Wrap(enabled')
  /\ UNCHANGED <<reader, writer, closed, history>>

\* enable_features, with the bit of request buffering or with another one.
EnableFeatures ==
  /\ pc \in {"request", "response"}
  /\ enabled' \in {enabled, TRUE}
  /\ Wrap(enabled')
  /\ read' = IF enabled' /\ read = "whole" /\ pc = "request" THEN "other" ELSE read
  /\ UNCHANGED <<pc, reader, writer, closed, saw, took, after, wrote>>

Unreadable(base) == base = Client /\ closed
From == IF reader = None THEN body ELSE reader

\* read_body of the request: the reader is created once and kept. After the next
\* handler it needs the feature, and traps if the client's body was closed.
ReadBody ==
  /\ pc = "request" \/ (pc = "response" /\ enabled)
  /\ LET from == From
         base == obj[from].base
         data == obj[base].data
     IN  /\ ~Unreadable(base)
         /\ \E limit \in Limits, eof \in BOOLEAN, n, q \in 0 .. Len(data) :
              /\ Reads(base, limit, n, q, eof)
              /\ reader' = from
              /\ obj' = [i \in DOMAIN obj |->
                   IF i = base
                     THEN [obj[i] EXCEPT !.data = SubSeq(data, n + 1, Len(data))]
                   ELSE IF i \in obj[from].passes
                     THEN [obj[i] EXCEPT !.data = Buffers(@, SubSeq(data, 1, n), q, eof)]
                   ELSE obj[i]]
              /\ Records(base, n, q, eof, n = limit)
  /\ UNCHANGED <<pc, body, writer, enabled, closed, saw, took, wrote>>

\* Mutant: the new buffer starts with the client's body.
RequestBodyWriterAppends(chunk) == Create(Holding(Append(Original, chunk)))

\* host.RequestBodyWriter: a new buffer becomes r.Body, and gets the chunk.
RequestBodyWriter(chunk) == Create(Holding(<<chunk>>))

\* write_body of the request: the writer is created once and kept.
WriteBody ==
  /\ pc = "request"
  /\ Len(wrote) < MaxWrites
  /\ wrote' = Append(wrote, "w")
  /\ IF writer = None
     THEN /\ Room
          /\ RequestBodyWriter("w")
          /\ writer' = Len(obj) + 1
          /\ body' = writer'
     ELSE /\ obj' = [obj EXCEPT ![writer].data = Append(@, "w")]
          /\ UNCHANGED <<writer, body>>
  /\ UNCHANGED <<pc, reader, enabled, closed, saw, took, after, read>>

\* Closing an object closes the client's body if that is at its end.
Closes(i) == closed' = (closed \/ obj[i].base = Client)

\* Mutant: the reader is closed and kept.
CloseRequestKeepsReader ==
  /\ writer' = None
  /\ IF reader = None THEN UNCHANGED closed ELSE Closes(reader)
  /\ UNCHANGED reader

\* requestState.closeRequest
CloseRequest ==
  /\ reader' = None
  /\ writer' = None
  /\ IF reader = None THEN UNCHANGED closed ELSE Closes(reader)

\* handle_request returns next=1.
Proceed ==
  /\ pc = "request"
  /\ pc' = "returned"
  /\ CloseRequest
  /\ UNCHANGED <<obj, body, enabled, history>>

\* handle_request returns next=0 or fails, and the next handler is not called,
\* or handle_response returns or fails.
Stop ==
  /\ pc \in {"request", "response"}
  /\ pc' = "done"
  /\ CloseRequest
  /\ UNCHANGED <<obj, body, enabled, history>>

\* handleNext: the outermost buffering body is replaced by what it buffered, or
\* by the body it wraps if that is nothing.
Unwrapped ==
  IF ~IsBuffering(body)
  THEN UNCHANGED <<obj, body, closed>>
  ELSE IF obj[body].data = <<>>
  THEN body' = obj[body].of /\ UNCHANGED <<obj, closed>>
  ELSE Closes(body) /\ Create(Holding(obj[body].data)) /\ body' = Len(obj) + 1

CallNext ==
  /\ pc = "returned"
  /\ pc' = "next"
  /\ Unwrapped
  /\ LET base == obj'[body'].base
     IN  saw' = [ok |-> ~(base = Client /\ closed'), data |-> obj'[base].data]
  /\ UNCHANGED <<reader, writer, enabled, took, after, wrote, read>>

\* The next handler, which has the same request, does something with its body:
\* it is "running" from the first time it does.
InNext == pc \in {"next", "running"} /\ pc' = "running"

\* It reads some of it. What a wrapper left in r.Body buffers of that matters only
\* to a handler that replaces the body by it.
NextReads ==
  /\ InNext
  /\ LET base == obj[body].base
         data == obj[base].data
     IN  /\ ~Unreadable(base)
         /\ \E n \in 1 .. Len(data) :
              /\ took' = took \o SubSeq(data, 1, n)
              /\ obj' = [obj EXCEPT ![base].data = SubSeq(data, n + 1, Len(data))]
  /\ UNCHANGED <<body, reader, writer, enabled, closed, saw, after, wrote, read>>

\* It closes r.Body, as closeRequest of another Wasm handler does.
NextCloses ==
  /\ InNext
  /\ Closes(body)
  /\ saw' = [saw EXCEPT !.ok = @ /\ obj[body].base # Client]
  /\ UNCHANGED <<obj, body, reader, writer, enabled, took, after, wrote, read>>

\* It sets r.Body: write_body of another Wasm handler to what that writes, and
\* its handleNext to what it buffered of the client's.
NextReplaces ==
  /\ InNext
  /\ Room
  /\ \E data \in {<<>>, <<"w">>, Original} :
       /\ Create(Holding(data))
       /\ saw' = [ok |-> TRUE, data |-> data]
  /\ body' = Len(obj) + 1
  /\ took' = <<>>
  /\ UNCHANGED <<reader, writer, enabled, closed, after, wrote, read>>

\* It returns, or its panic is recovered, and handle_response is called.
HandleResponse ==
  /\ pc \in {"next", "running"}
  /\ pc' = "response"
  /\ UNCHANGED <<state, history>>

Finished == pc = "done" /\ UNCHANGED vars

Next ==
  \/ ServeHTTP \/ EnableFeatures \/ ReadBody \/ WriteBody
  \/ Proceed \/ Stop \/ CallNext
  \/ NextReads \/ NextCloses \/ NextReplaces \/ HandleResponse \/ Finished

Spec == Init /\ [][Next]_vars

-----------------------------------------------------------------------------
(* Properties *)

\* The next handler can read the client's body to the end, from its beginning.
SeesOriginal == saw = [ok |-> TRUE, data |-> Original]

\* A guest that neither reads nor writes the body leaves it alone, however often
\* it enables features. One that does read keeps it for the next handler if the
\* buffering was enabled before, the body came in one piece with io.EOF, and
\* no feature was enabled afterwards.
UntouchedOrWholeIsSeen ==
  pc = "next" /\ wrote = <<>> /\ read \in {"nothing", "whole"} => SeesOriginal

\* FeatureBufferRequest "buffers the HTTP request body when reading, so that
\* FuncNext can see the original" (features.go:13), if it is enabled before the
\* body is read.
NextSeesOriginal ==
  pc = "next" /\ wrote = <<>> /\ read # "unbuffered" => SeesOriginal

\* "The first call to FuncWriteBody in FuncHandleRequest overwrites any request
\* body" (wasm.go:92): the next handler reads what the guest wrote and nothing
\* else, however much of the client's body the guest read before or after, and
\* whatever it enabled since, unless it read back what it wrote.
WrittenIsSeen ==
  pc = "next" /\ wrote # <<>> /\ read # "own" => saw = [ok |-> TRUE, data |-> wrote]

\* read_body "reads what's remaining in the stream" (wasm.go:288), also after
\* the next handler: a guest gets in handle_response what the handler left of
\* the body it was given, or of the one it set in its place, in order, once; EOF
\* only when it has all of it, and always with less than it asked for. It can
\* read it unless the client's body was closed before the handler or by it,
\* whatever the guest itself read and closed before.
RestIsRead ==
  pc = "response" /\ saw.ok =>
    /\ ~Unreadable(obj[From].base)
    /\ took \o after.data \o obj[obj[body].base].data = saw.data
    /\ after.eof => took \o after.data = saw.data
    /\ after.eof \/ after.full
=============================================================================
