---------------------------------- MODULE Tck ----------------------------------
(***************************************************************************)
(* The technology compatibility kit (tck/run.go, tck/guest/main.go,        *)
(* tck/backend.go): what its verdict says of a host. The runner sends a    *)
(* request for each test, the guest tries the function the test is about,  *)
(* a backend echoes the request, and the runner checks the response.       *)
(*                                                                         *)
(* The host under test is that of handler/nethttp, with some of the        *)
(* functions in HostFunction left to handler.UnimplementedHost. Those of   *)
(* handler.Host that are not in it are, like Unused, never called here.    *)
(***************************************************************************)
EXTENDS Integers, Sequences, FiniteSets, FiniteSetsExt

CONSTANTS
  Protocols,   \* of the client
  MaxMissing   \* bound: functions a host does not implement

ASSUME ProtocolsAssumption == Protocols \subseteq {"HTTP/1.1", "HTTP/2.0"}
ASSUME MissingAssumption == MaxMissing \in Nat

VARIABLES
  missing,   \* functions of handler.Host the host does not implement
  proto,     \* the protocol of the client
  k,         \* the test of Run that is next or under way
  at,        \* whose turn it is
  r,         \* *http.Request of the test
  w,         \* the response: what the client gets once it is sent
  failed,    \* tests the runner reported an error of
  objected   \* history: tests in which the guest called fail

vars == <<missing, proto, k, at, r, w, failed, objected>>
host == <<missing, proto>>

\* The functions of handler.Host the kit exercises, and some of the others.
RequestGetters == {"GetMethod", "GetURI", "GetRequestHeaderNames", "RequestBodyReader",
                   "GetSourceAddr"}
RequestSetters == {"SetMethod", "SetURI", "SetRequestHeaderValue", "AddRequestHeaderValue",
                   "RemoveRequestHeader"}
Carriers == {"EnableFeatures", "GetRequestHeaderValues", "SetResponseHeaderValue",
             "ResponseBodyWriter"}
Unused == {"RequestBodyWriter", "GetStatusCode", "ResponseBodyReader", "AddResponseHeaderValue",
           "SetRequestTrailerValue", "SetResponseTrailerValue"}
HostFunction ==
  RequestGetters \cup RequestSetters \cup Carriers \cup Unused
    \cup {"GetProtocolVersion", "SetStatusCode"}

\* What the host does not implement is left to UnimplementedHost.
Has(fn) == fn \notin missing

-----------------------------------------------------------------------------
(* The tests, in the order of Run *)

Tests(fn, args) == [i \in DOMAIN args |-> [fn |-> fn, arg |-> args[i]]]

\* A URI is its path, as it is escaped, and its query.
Uris == <<<<"/simple", "">>, <<"/simple%26clean", "">>, <<"/animal", "name=panda">>,
          <<"/disney", "name=chip%26dale">>>>

Keys == <<"single-header", "Single-Header", "not-header", "multi-header">>
Edited == <<"new-header", "existing-header">>

Run ==
  Tests("get_protocol_version", <<"">>)
    \o Tests("get_method", <<"GET", "HEAD", "POST", "PUT", "DELETE", "OPTIONS", "TRACE", "PATCH">>)
    \o Tests("set_method", <<"">>)
    \o Tests("get_uri", Uris) \o Tests("set_uri", Uris)
    \o Tests("get_header_values", Keys)
    \o Tests("get_header_names", <<"">>)
    \o Tests("set_header_value", Edited) \o Tests("add_header_value", Edited)
    \o Tests("remove_header", Edited)
    \o Tests("read_body", <<0, 5, 2048, 4096, 5000>>)
    \o Tests("get_source_addr", <<"">>)

Test == Run[k]
Testing(fn) == at = "guest" /\ Has("GetRequestHeaderValues") /\ Test.fn = fn

\* Header fields, under the name the header map has them.
Canonical(name) == IF name = "single-header" THEN "Single-Header" ELSE name
Field == {Canonical(n) : n \in {Keys[i] : i \in DOMAIN Keys} \cup {Edited[i] : i \in DOMAIN Edited}}
           \cup {"A-Header", "B-Header"}
Lower(name) ==
  CASE name = "Single-Header" -> "single-header"
    [] name = "A-Header" -> "a-header"
    [] name = "B-Header" -> "b-header"
    [] OTHER -> name
NoFields == [f \in Field |-> <<>>]

ValuesSent(key) ==
  CASE key = "not-header" -> <<>>
    [] key = "multi-header" -> <<"value1", "value2">>
    [] OTHER -> <<"value">>

FieldsSent(test) ==
  CASE test.fn = "get_header_values" ->
         [NoFields EXCEPT ![Canonical(test.arg)] = ValuesSent(test.arg)]
    [] test.fn = "get_header_names" ->
         [NoFields EXCEPT !["A-Header"] = <<"value1">>, !["B-Header"] = <<"2">>]
    [] test.fn \in {"set_header_value", "add_header_value", "remove_header"} ->
         [NoFields EXCEPT !["existing-header"] = <<"bear">>]
    [] OTHER -> NoFields

-----------------------------------------------------------------------------
(* The host *)

\* net/url: the path is kept escaped if it would be escaped otherwise.
Parse(uri) ==
  IF uri[1] = "/simple%26clean"
  THEN [path |-> "/simple&clean", raw |-> uri[1], query |-> uri[2]]
  ELSE [path |-> uri[1], raw |-> "", query |-> uri[2]]

GetURI(url) == <<IF url.raw # "" THEN url.raw ELSE url.path, url.query>>

\* The buffering that the guest's start function enables.
Buffers == Has("EnableFeatures")

SetStatusCode(resp) ==
  IF ~Has("SetStatusCode") \/ resp.sent THEN resp
  ELSE [resp EXCEPT !.status = 500, !.sent = ~Buffers]

\* Header fields that are set after the header was sent are not.
SetHeader(resp, name, value) ==
  IF resp.sent THEN resp ELSE [resp EXCEPT !.header[name] = value]

SetResponseHeaderValue(resp, name) ==
  IF Has("SetResponseHeaderValue") THEN SetHeader(resp, name, TRUE) ELSE resp

WriteBody(resp, text) ==
  IF Has("ResponseBodyWriter") THEN [resp EXCEPT !.body = text, !.sent = @ \/ ~Buffers] ELSE resp

-----------------------------------------------------------------------------
(* The runner *)

NoUri == <<"", "">>
Method == {"", "GET", "HEAD", "POST", "PUT", "DELETE", "OPTIONS", "TRACE", "PATCH"}
Uri == {NoUri, <<"/", "">>, <<"/get_protocol_version", "">>} \cup {Uris[i] : i \in DOMAIN Uris}
Text == {"", "missing x-httpwasm-tck-testid header", "HTTP/1.1"} \cup Protocols
Fields == [Field -> Seq({"value", "value1", "value2", "2", "bear"})]

Request ==
  [method : Method, uri : Uri, url : {Parse(u) : u \in Uri}, fields : Fields, body : Nat]
Response ==
  [status : {200, 500}, sent : BOOLEAN, body : Text,
   header : [handled : BOOLEAN, failed : BOOLEAN, method : Method, uri : Uri, fields : Fields]]

TypeOK ==
  /\ missing \subseteq HostFunction
  /\ proto \in Protocols
  /\ k \in 1 .. Len(Run) + 1
  /\ at \in {"runner", "guest", "backend", "check", "panicked"}
  /\ r \in Request /\ w \in Response
  /\ failed \subseteq 1 .. k - 1
  /\ objected \subseteq 1 .. k

NoRequest == [method |-> "", uri |-> NoUri, url |-> Parse(NoUri), fields |-> NoFields, body |-> 0]
NoResponse ==
  [status |-> 200, sent |-> FALSE, body |-> "",
   header |-> [handled |-> FALSE, failed |-> FALSE, method |-> "", uri |-> NoUri,
               fields |-> NoFields]]

Init ==
  /\ missing \in UNION {kSubset(n, HostFunction) : n \in 0 .. MaxMissing}
  /\ proto \in Protocols
  /\ k = 1 /\ at = "runner"
  /\ r = NoRequest /\ w = NoResponse
  /\ failed = {} /\ objected = {}

\* The request of a test, as the server gets it.
RequestOf(test) ==
  LET uri == CASE test.fn = "get_uri" -> test.arg
               [] test.fn = "get_protocol_version" -> <<"/get_protocol_version", "">>
               [] OTHER -> <<"/", "">>
  IN  [method |-> CASE test.fn = "get_method" -> test.arg
                    [] test.fn = "read_body" -> "POST"
                    [] OTHER -> "GET",
       uri    |-> uri,
       url    |-> Parse(uri),
       fields |-> FieldsSent(test),
       body   |-> IF test.fn = "read_body" THEN test.arg ELSE 0]

Do ==
  /\ at = "runner" /\ k <= Len(Run)
  /\ at' = "guest"
  /\ r' = RequestOf(Test)
  /\ w' = NoResponse
  /\ UNCHANGED <<host, k, failed, objected>>

\* client.Do returns an error and no response: checkResponse reads its header.
DoFails ==
  /\ at = "runner" /\ k <= Len(Run)
  /\ at' = "panicked"
  /\ UNCHANGED <<host, k, r, w, failed, objected>>

First(values) == IF values = <<>> THEN "" ELSE values[1]

\* What the test of a function wants besides what checkResponse does.
Wants(resp) ==
  CASE Test.fn = "get_protocol_version" -> resp.body = proto
    [] Test.fn = "set_method" -> resp.header.method = "POST"
    [] Test.fn = "set_uri" -> resp.header.uri = Test.arg
    [] Test.fn = "set_header_value" -> First(resp.header.fields[Test.arg]) = "value"
    [] Test.fn = "add_header_value" ->
         resp.header.fields[Test.arg] =
           IF Test.arg = "new-header" THEN <<"value">> ELSE <<"bear", "value">>
    [] Test.fn = "remove_header" ->
         First(resp.header.fields["existing-header"]) =
           IF Test.arg = "existing-header" THEN "" ELSE "bear"
    [] OTHER -> TRUE

\* checkResponse looks for the guest's message only under status 500.
CheckResponse(resp) == resp.header.handled /\ resp.status # 500

\* Mutant: the error is reported of the test that follows.
CheckCountsFirst ==
  /\ at = "check"
  /\ at' = "runner"
  /\ k' = k + 1
  /\ failed' = IF CheckResponse(w) /\ Wants(w) THEN failed ELSE failed \cup {k'}
  /\ UNCHANGED <<host, r, w, objected>>

Check ==
  /\ at = "check"
  /\ at' = "runner"
  /\ k' = k + 1
  /\ failed' = IF CheckResponse(w) /\ Wants(w) THEN failed ELSE failed \cup {k}
  /\ UNCHANGED <<host, r, w, objected>>

-----------------------------------------------------------------------------
(* The guest: handleRequest *)

\* Mutant: the message is set, the status is not.
FailMessageOnly(resp) == SetResponseHeaderValue(resp, "failed")

Fail(resp) == SetResponseHeaderValue(SetStatusCode(resp), "failed")

MissingTestID ==
  /\ at = "guest" /\ ~Has("GetRequestHeaderValues")
  /\ at' = "check"
  /\ w' = WriteBody(SetStatusCode(w), "missing x-httpwasm-tck-testid header")
  /\ UNCHANGED <<host, k, r, failed, objected>>

\* The end of every test: it passes the request on if next is TRUE.
Handled(resp, next) ==
  /\ at' = IF next THEN "backend" ELSE "check"
  /\ w' = SetResponseHeaderValue(resp, "handled")
  /\ UNCHANGED <<host, k, failed>>

\* A test of a getter: the guest sees if it got what it expects, and otherwise
\* fails; get_method and get_uri pass the request on even so.
Expects(ok, nextAnyway) ==
  /\ Handled(IF ok THEN w ELSE Fail(w), ok \/ nextAnyway)
  /\ objected' = IF ok THEN objected ELSE objected \cup {k}
  /\ UNCHANGED r

TestGetMethod ==
  /\ Testing("get_method")
  /\ Expects((IF Has("GetMethod") THEN r.method ELSE "GET") = Test.arg, TRUE)

TestGetURI ==
  /\ Testing("get_uri")
  /\ Expects((IF Has("GetURI") THEN GetURI(r.url) ELSE NoUri) = Test.arg, TRUE)

TestGetRequestHeader ==
  /\ Testing("get_header_values")
  /\ Expects(r.fields[Canonical(Test.arg)] = ValuesSent(Test.arg), FALSE)

\* getHeaderNames gives the names in lower case.
TestGetRequestHeaderNames ==
  /\ Testing("get_header_names")
  /\ LET names == IF Has("GetRequestHeaderNames")
                  THEN {Lower(f) : f \in {g \in Field : r.fields[g] # <<>>}} ELSE {}
     IN  Expects({"a-header", "b-header"} \subseteq names, FALSE)

TestReadBody ==
  /\ Testing("read_body")
  /\ Expects((IF Has("RequestBodyReader") THEN r.body ELSE 0) = Test.arg, FALSE)

\* Mutant: an unexpected address is not held against the host.
TestGetSourceAddrSilent == Testing("get_source_addr") /\ Expects(TRUE, FALSE)

\* The runner is on the server's machine.
TestGetSourceAddr ==
  /\ Testing("get_source_addr")
  /\ Expects((IF Has("GetSourceAddr") THEN "127.0.0.1" ELSE "1.1.1.1") = "127.0.0.1", FALSE)

TestGetProtocolVersion ==
  /\ Testing("get_protocol_version")
  /\ Handled(WriteBody(w, IF Has("GetProtocolVersion") THEN proto ELSE "HTTP/1.1"), TRUE)
  /\ UNCHANGED <<r, objected>>

\* The tests of what changes a request, which the runner judges.
TestSet(test, fn, changed) ==
  /\ Testing(test)
  /\ r' = IF Has(fn) THEN changed ELSE r
  /\ Handled(w, TRUE)
  /\ UNCHANGED objected

TestSetMethod == TestSet("set_method", "SetMethod", [r EXCEPT !.method = "POST"])

\* Mutant: the URL is changed and the request's URI is not.
TestSetURIOfURL == TestSet("set_uri", "SetURI", [r EXCEPT !.url = Parse(Test.arg)])

TestSetURI ==
  TestSet("set_uri", "SetURI", [r EXCEPT !.uri = Test.arg, !.url = Parse(Test.arg)])

TestSetRequestHeader ==
  TestSet("set_header_value", "SetRequestHeaderValue",
          [r EXCEPT !.fields[Test.arg] = <<"value">>])

TestAddRequestHeader ==
  TestSet("add_header_value", "AddRequestHeaderValue",
          [r EXCEPT !.fields[Test.arg] = Append(@, "value")])

TestRemoveRequestHeader ==
  TestSet("remove_header", "RemoveRequestHeader", [r EXCEPT !.fields[Test.arg] = <<>>])

-----------------------------------------------------------------------------
(* The backend *)

\* What the backend adds to a response of what it was asked.
Echoed(resp, req) ==
  SetHeader(SetHeader(SetHeader(resp, "method", req.method), "uri", req.uri), "fields", req.fields)

BackendHandler ==
  /\ at = "backend"
  /\ at' = "check"
  /\ w' = Echoed(w, r)
  /\ UNCHANGED <<host, k, r, failed, objected>>

Ended == at = "panicked" \/ (at = "runner" /\ k > Len(Run))

Next ==
  \/ Do \/ DoFails \/ Check
  \/ MissingTestID
  \/ TestGetProtocolVersion \/ TestGetMethod \/ TestSetMethod \/ TestGetURI \/ TestSetURI
  \/ TestGetRequestHeader \/ TestGetRequestHeaderNames \/ TestSetRequestHeader
  \/ TestAddRequestHeader \/ TestRemoveRequestHeader \/ TestReadBody \/ TestGetSourceAddr
  \/ BackendHandler
  \/ Ended /\ UNCHANGED vars

Spec == Init /\ [][Next]_vars

-----------------------------------------------------------------------------
(* Properties *)

\* "checking conformance of http-wasm implementations" (tck/README.md:3): the
\* kit finds nothing wrong with a host that implements all it exercises, over
\* either protocol.
ConformingHostPasses == missing \subseteq Unused => failed = {}

\* A host that passes the whole kit implements what the runner can see by
\* itself: what changes the request, and what carries the tests. It implements
\* the rest, which only the guest can see, provided it can set a status code,
\* and get_protocol_version provided the client does not speak the protocol of
\* UnimplementedHost.
SeenByRunner ==
  RequestSetters \cup Carriers \cup (IF proto = "HTTP/1.1" THEN {} ELSE {"GetProtocolVersion"})

PassingHostConforms ==
  k > Len(Run) /\ failed = {} =>
    /\ missing \cap SeenByRunner = {}
    /\ Has("SetStatusCode") => missing \cap RequestGetters = {}

\* A test that the guest judged to have failed is one that the runner reports,
\* although nothing but a status and a header field of the response tells it so,
\* provided the host can set a status code.
ObjectionsAreReported ==
  Has("SetStatusCode") => objected \ {k} \subseteq failed
=============================================================================
