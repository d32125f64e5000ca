------------------------------ MODULE GuestCalls ------------------------------
(***************************************************************************)
(* The calls a guest makes to the host functions of handler/middleware.go  *)
(* that pass values through its memory, from its start function on: the    *)
(* strings and lists it gets, the method, URI and header values it sets,   *)
(* and the pieces of the request body it reads. The values are those of    *)
(* handler/nethttp/host.go.                                                *)
(*                                                                         *)
(* A guest prepares a call: it may put anything in its memory, and choose  *)
(* any offset and length. The host then answers it or panics, which traps  *)
(* the guest and fails the call of its export.                             *)
(***************************************************************************)
EXTENDS Abi, Construction

CONSTANTS
  Clients,      \* requests as they arrive (see NoRequest)
  Inputs,       \* function -> the strings guests pass to it
  Body,         \* the body of each request
  Offsets, Limits,
  ProtocolVersion, SourceAddr,
  MaxSets       \* bound: values a guest sets in a request

VARIABLES
  turn,    \* "guest", or "host" between a call and its answer
  mem,     \* the guest's memory
  call,    \* the call the guest made last, if any
  result,  \* what the host answered
  req,     \* *http.Request: method, url and the values of a header
  rest,    \* of the body: what was not read
  got,     \* history: what read_body told the guest
  sets     \* history: values the guest has set in the request

request == <<req, rest, got, sets>>
boundary == <<turn, mem, call, result>>
vars == <<construction, boundary, request>>

Garbage == [a \in Addr |-> "x"]
Url == [path : Seq(Byte), force : BOOLEAN, query : Seq(Byte)]
Request == [method : Seq(Byte), url : Url, values : Seq(Seq(Byte))]
NoRequest == [method |-> <<>>, url |-> [path |-> <<>>, force |-> FALSE, query |-> <<>>],
              values |-> <<>>]
NoCall == [fn |-> "none", offset |-> 0, count |-> 0]
NoResult == [len |-> 0, count |-> 0, eof |-> FALSE]

StringGetters == {"get_config", "get_method", "get_uri", "get_protocol_version",
                  "get_source_addr"}
Setters == {"set_method", "set_uri", "add_header_value"}
Functions ==
  StringGetters \cup Setters \cup {"get_header_values", "read_body", "log", "log_enabled"}

ASSUME BytesAssumption == {"x", "/", "?", " ", "%20"} \subseteq Byte \ {Nul}

\* The URLs net/http parses from a request: a path has none of the bytes that end
\* it or are written otherwise, and ForceQuery stands for an empty query.
Parsed(url) ==
  /\ url.path # <<>> => url.path[1] = "/"
  /\ {"?", "%20", Nul} \cap ToSet(url.path) = {}
  /\ Nul \notin ToSet(url.query)
  /\ url.force => url.query = <<>>

ASSUME CallsAssumption ==
  /\ Offsets \subseteq Nat /\ Limits \subseteq Nat
  /\ MaxSets \in Nat
  /\ Clients \subseteq Request /\ \A r \in Clients : Parsed(r.url)
  /\ {Body, ProtocolVersion, SourceAddr} \subseteq Seq(Byte)
  /\ \A o \in Options : o.config \in Seq(Byte)
  /\ \A fn \in Setters \cup {"log", "log_enabled"} : Inputs[fn] \subseteq Seq(Byte)

TypeOK ==
  /\ step \in Steps \cup {"request", "response"}
  /\ binary \in Binary
  /\ runtime \in {"none", "open", "closed"}
  /\ modules \subseteq Module
  /\ turn \in {"guest", "host"}
  /\ mem \in Memory
  /\ call \in [fn : Functions \cup {"none"}, offset : Nat, count : Nat]
  /\ result \in [len : Nat, count : Nat, eof : BOOLEAN]
  /\ req \in Request
  /\ rest \in Seq(Byte) /\ got \in Seq(Byte)
  /\ sets \in 0 .. MaxSets

Init ==
  /\ ConstructionInit
  /\ turn = "guest"
  /\ mem = Garbage
  /\ call = NoCall
  /\ result = NoResult
  /\ req = NoRequest
  /\ rest = <<>>
  /\ got = <<>>
  /\ sets = 0

-----------------------------------------------------------------------------
(* The URL of a request (host.go, net/url) *)

Escape(path) == [k \in DOMAIN path |-> IF path[k] = " " THEN "%20" ELSE path[k]]
Unescape(path) == [k \in DOMAIN path |-> IF path[k] = "%20" THEN " " ELSE path[k]]
Marks(uri) == {k \in DOMAIN uri : uri[k] = "?"}

\* url.ParseRequestURI rejects what does not start with a slash, and control
\* characters.
Parses(uri) == uri = <<>> \/ (uri[1] = "/" /\ Nul \notin ToSet(uri))

\* url.ParseRequestURI: a query is what follows the first question mark, and
\* ForceQuery that nothing does.
Parse(uri) ==
  IF Marks(uri) = {} THEN [path |-> Unescape(uri), force |-> FALSE, query |-> <<>>]
  ELSE LET k == Min(Marks(uri))
       IN  [path |-> Unescape(SubSeq(uri, 1, k - 1)), force |-> k = Len(uri),
            query |-> SubSeq(uri, k + 1, Len(uri))]

\* host.SetURI
SetURI(uri) == IF uri = <<>> THEN Parse(<<"/">>) ELSE Parse(uri)

\* Mutant: a question mark is only added to a query that is not empty.
GetURIUnforced(url) ==
  (IF url.path = <<>> THEN <<"/">> ELSE Escape(url.path))
    \o (IF url.query # <<>> THEN <<"?">> \o url.query ELSE <<>>)

\* host.GetURI
GetURI(url) ==
  (IF url.path = <<>> THEN <<"/">> ELSE Escape(url.path))
    \o (IF url.force \/ url.query # <<>> THEN <<"?">> \o url.query ELSE <<>>)

-----------------------------------------------------------------------------
(* What the guest does *)

InGuest == turn = "guest" /\ step \in {"start", "request", "response"}

\* Between two calls of its exports, nothing of the guest matters.
Leaves ==
  /\ turn' = "guest" /\ mem' = Garbage /\ call' = NoCall /\ result' = NoResult

\* The guest calls fn, with input in its memory at the offset if it fits.
Prepare(fn, offset, count, input) ==
  /\ InGuest /\ HostModule \in binary.imports
  /\ turn' = "host"
  /\ mem' = Write(Garbage, offset, input)
  /\ call' = [fn |-> fn, offset |-> offset, count |-> count]
  /\ result' = NoResult
  /\ UNCHANGED <<construction, request>>

PrepareGet ==
  \E fn \in StringGetters \cup {"get_header_values", "read_body"}, o \in Offsets, n \in Limits :
    Prepare(fn, o, n, <<>>)

PrepareSet ==
  \E fn \in Setters \cup {"log", "log_enabled"}, o \in Offsets :
    \E v \in Inputs[fn] :
      /\ fn \in Setters => sets < MaxSets
      /\ Prepare(fn, o, Len(v), v)

-----------------------------------------------------------------------------
(* What the host does *)

Input == Read(mem, call.offset, call.count)

\* These look up the state of a request, which there is none of while a guest
\* is instantiated.
RequestFunctions == Functions \ {"get_config", "log", "log_enabled"}

\* api.NoopLogger and api.ConsoleLogger, for messages at level info.
IsEnabled == options.logger = "console"

\* Does the call panic? mustRead panics for a region outside the memory, and
\* mustBeforeNext once the next handler was called. (It lets read_body through
\* then if the request's body is buffered, which is part of RequestBody.)
Refused ==
  \/ call.fn \in RequestFunctions /\ step = "start"
  \/ call.fn \in Setters \cup {"read_body"} /\ step = "response"
  \/ call.fn \in Setters \cup {"read_body"} /\ call.count > 0 /\ ~InMemory(call.offset, call.count)
  \/ call.fn \in {"set_method", "read_body"} /\ call.count = 0
  \/ call.fn = "get_protocol_version" /\ ProtocolVersion = <<>>
  \/ call.fn = "set_uri" /\ InMemory(call.offset, call.count) /\ ~Parses(Input)
  \/ call.fn = "log" /\ IsEnabled /\ call.count > 0 /\ ~InMemory(call.offset, call.count)
  \/ call.fn = "get_header_values" /\ ListOutOfMemory(call.offset, call.count, req.values)

\* The host's answer. It only comes if the call is not refused.
Answers ==
  /\ turn = "host" /\ ~Refused
  /\ turn' = "guest"
  /\ UNCHANGED <<construction, call>>

\* get_config, get_method, get_uri, get_protocol_version, get_source_addr
String ==
  [get_config           |-> options.config,
   get_method           |-> req.method,
   get_uri              |-> GetURI(req.url),
   get_protocol_version |-> ProtocolVersion,
   get_source_addr      |-> SourceAddr]

GetString ==
  /\ Answers
  /\ call.fn \in StringGetters
  /\ mem' = WriteIfUnderLimit(mem, call.offset, call.count, String[call.fn])
  /\ result' = [NoResult EXCEPT !.len = Len(String[call.fn])]
  /\ UNCHANGED request

GetHeaderValues ==
  /\ Answers
  /\ call.fn = "get_header_values"
  /\ mem' = WriteNULTerminated(mem, call.offset, call.count, req.values)
  /\ result' = [NoResult EXCEPT !.len = CountLen(req.values).len,
                                !.count = CountLen(req.values).count]
  /\ UNCHANGED request

\* set_method, set_uri, add_header_value: values read from the memory.
Set ==
  /\ Answers
  /\ call.fn \in Setters
  /\ sets' = sets + 1
  /\ req' = CASE call.fn = "set_method" -> [req EXCEPT !.method = Input]
              [] call.fn = "set_uri" -> [req EXCEPT !.url = SetURI(Input)]
              [] call.fn = "add_header_value" -> [req EXCEPT !.values = Append(@, Input)]
  /\ UNCHANGED <<mem, result, rest, got>>

\* Mutant: a full buffer is taken for the end of the body.
ReadBodyFullIsEOF ==
  /\ Answers
  /\ call.fn = "read_body"
  /\ LET n == Min({call.count, Len(rest)})
     IN  /\ mem' = Write(mem, call.offset, SubSeq(rest, 1, n))
         /\ rest' = SubSeq(rest, n + 1, Len(rest))
         /\ result' = [NoResult EXCEPT !.len = n, !.eof = (n = call.count)]
         /\ got' = got \o Read(mem', call.offset, result'.len)
  /\ UNCHANGED <<req, sets>>

\* read_body fills the buffer from the reader until that returns an error. It
\* may return io.EOF with the last bytes, or only to a read after them.
ReadBody ==
  /\ Answers
  /\ call.fn = "read_body"
  /\ LET n == Min({call.count, Len(rest)})
     IN  \E eof \in BOOLEAN :
           /\ call.count < Len(rest) => ~eof
           /\ call.count > Len(rest) => eof
           /\ mem' = Write(mem, call.offset, SubSeq(rest, 1, n))
           /\ rest' = SubSeq(rest, n + 1, Len(rest))
           /\ result' = [NoResult EXCEPT !.len = n, !.eof = eof]
           /\ got' = got \o Read(mem', call.offset, result'.len)
  /\ UNCHANGED <<req, sets>>

LogEnabled ==
  /\ Answers
  /\ call.fn = "log_enabled"
  /\ result' = [NoResult EXCEPT !.len = IF IsEnabled THEN 1 ELSE 0]
  /\ UNCHANGED <<mem, request>>

Log ==
  /\ Answers
  /\ call.fn = "log"
  /\ UNCHANGED <<mem, result, request>>

-----------------------------------------------------------------------------
(* The calls of the guest's exports *)

HandleRequest ==
  /\ step = "ready"
  /\ step' = "request"
  /\ req' \in Clients
  /\ rest' = Body
  /\ UNCHANGED <<binary, options, runtime, modules, boundary, got, sets>>

RequestEnds ==
  /\ step' = "ready"
  /\ Leaves
  /\ req' = NoRequest /\ rest' = <<>> /\ got' = <<>> /\ sets' = 0
  /\ UNCHANGED <<binary, options, runtime, modules>>

\* handle_request returns next=1, and the next handler returns.
Proceed ==
  /\ InGuest /\ step = "request"
  /\ step' = "response"
  /\ Leaves
  /\ UNCHANGED <<binary, options, runtime, modules, request>>

\* The start function returns, or the last export of the request does.
ExportReturns ==
  /\ InGuest
  /\ \/ StartReturns /\ Leaves /\ UNCHANGED request
     \/ step # "start" /\ RequestEnds

\* The guest traps by itself, or the host function it called panics: for what it
\* asked, or as the client's body cannot be read.
ExportTraps ==
  /\ turn = "host" => Refused \/ call.fn = "read_body"
  /\ \/ StartTraps /\ Leaves /\ UNCHANGED request
     \/ step \in {"request", "response"} /\ RequestEnds

ConstructionStep == Construct /\ UNCHANGED <<boundary, request>>

Failed == step = "failed" /\ UNCHANGED vars

Next ==
  \/ ConstructionStep
  \/ HandleRequest \/ Proceed \/ ExportReturns \/ ExportTraps
  \/ PrepareGet \/ PrepareSet
  \/ GetString \/ GetHeaderValues \/ Set \/ ReadBody \/ LogEnabled \/ Log
  \/ Failed

Spec == Init /\ [][Next]_vars

-----------------------------------------------------------------------------
(* Properties *)

Answered(fns) == turn = "guest" /\ call.fn \in fns

\* A guest that calls get_method and the like finds the value in its memory if
\* it asked for enough and has room for it, and is otherwise told the length
\* to retry with: "caller can retry with a larger limit" (middleware.go:777).
\* A value that fits the limit and not the memory is not written at all
\* (middleware.go:780).
StringsArrive ==
  Answered(StringGetters) =>
    /\ result.len = Len(String[call.fn])
    /\ IF result.len <= call.count /\ InMemory(call.offset, result.len)
       THEN Read(mem, call.offset, result.len) = String[call.fn]
       ELSE mem = Garbage

\* The count get_header_values returns is that of the values; if the limit
\* sufficed, a guest that splits as many bytes as it returned the length of, as
\* CountLen documents (wasm.go:37), has the values, in their order. A value with
\* a NUL, which only a guest can have set, would be split.
ListsArrive ==
  Answered({"get_header_values"}) =>
    /\ result.count = Len(req.values)
    /\ result.len <= call.count /\ NulFree(req.values) =>
         LET bytes == Read(mem, call.offset, result.len)
         IN  /\ Cardinality(Nuls(bytes)) = result.count
             /\ Strings(bytes, result.count) = req.values

\* The addresses a host function says it has written.
Returned == IF result.len <= call.count THEN Region(call.offset, result.len) ELSE {}

\* A host function changes nothing of the guest's memory but as many bytes at
\* the offset as it returns the length of, and none at all if that is more than
\* the limit: "If the actual value is larger than this, nothing is written to
\* memory" (wasm.go:33).
NothingElseWritten ==
  [][turn = "host" /\ turn' = "guest" /\ step' = step =>
       \A a \in Addr \ Returned' : mem'[a] = mem[a]]_vars

\* read_body is stateful: whatever limits a guest reads with, it gets the body
\* once, in order; it is told EOF only when it has all of it, and always with
\* less than it asked for, so that a loop that reads to EOF ends
\* (wasm.go:288, EOFLen).
BodyInOrder ==
  step \in {"request", "response"} =>
    /\ got \o rest = Body
    /\ result.eof => rest = <<>>
    /\ Answered({"read_body"}) => result.eof \/ result.len = call.count

\* A guest that sets the URI it has read changes nothing of the request's URL,
\* although that is escaped, put together, split and unescaped on the way, but
\* that an empty path, which it reads as a slash, becomes one (host.go:48).
UriReadBack ==
  step \in {"request", "response"} =>
    /\ Parses(GetURI(req.url))
    /\ SetURI(GetURI(req.url)) =
         [req.url EXCEPT !.path = IF @ = <<>> THEN <<"/">> ELSE @]
=============================================================================
