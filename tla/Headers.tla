------------------------------- MODULE Headers -------------------------------
(***************************************************************************)
(* The HTTP headers and trailers of one request, as a Wasm guest reads and *)
(* edits them through the header functions of handler/middleware.go and    *)
(* their implementation in handler/nethttp/host.go.                        *)
(*                                                                         *)
(* There are four kinds of header but two maps: r.Header and the Header()  *)
(* of the response writer, which a bufferingResponseWriter shares with the *)
(* client's. net/http sends its header fields when the first status or     *)
(* body reaches the client. Keys of the second map that start with         *)
(* http.TrailerPrefix are `trailer' here; they serve both trailer kinds.   *)
(*                                                                         *)
(* A header field name has several spellings. net/textproto stores fields  *)
(* under the canonical one; a prefixed key is not a valid name and is      *)
(* stored as it was spelled. Guests use valid field names only. The order  *)
(* of a list of names, and a name that is listed twice, are left out.      *)
(***************************************************************************)
EXTENDS Integers, Sequences

CONSTANTS
  Name,         \* spellings of header field names
  TrailerName,  \* the spellings that are used in trailers
  Canonical,    \* Name -> textproto.CanonicalMIMEHeaderKey
  Lower,        \* Name -> strings.ToLower
  Value,        \* header field values
  MaxValues     \* bound: values of one field

Host == "Host"

ASSUME NameAssumption ==
  /\ TrailerName \subseteq Name
  /\ Canonical \in [Name -> Name]
  /\ Lower \in [Name -> Name]
  /\ \A n \in Name : Canonical[Canonical[n]] = Canonical[n]
  /\ \A n \in Name : Canonical[Lower[n]] = Canonical[n]
  /\ \A n \in Name : Lower[Canonical[n]] = Lower[n]
  /\ Host \in Name /\ Canonical[Host] = Host
ASSUME ValuesAssumption == MaxValues \in Nat \ {0}

Field == {Canonical[n] : n \in Name}
Values == UNION {[1 .. k -> Value] : k \in 0 .. MaxValues}
Absent == <<>>

RequestKind == "request"
ResponseKind == "response"
TrailerKinds == {"request trailers", "response trailers"}
HeaderKind == {RequestKind, ResponseKind} \cup TrailerKinds

VARIABLES
  pc,        \* where the request is
  host,      \* r.Host
  request,   \* r.Header
  response,  \* w.Header(), the keys without http.TrailerPrefix
  trailer,   \* w.Header(), the keys with it
  buffers,   \* FeatureBufferResponse is enabled, and s.w a buffer
  release,   \* has ServeHTTP deferred the release of the buffer?
  client,    \* the header fields the client has been sent, if any
  early,     \* history: was the client sent any before next was called?
  released   \* history: was the buffer released by a handler behind?

maps == <<host, request, response, trailer>>
history == <<early, released>>
vars == <<pc, maps, buffers, release, client, history>>

NotSent == [sent |-> FALSE, fields |-> [f \in Field |-> Absent]]

TypeOK ==
  /\ pc \in {"idle", "request", "next", "response", "done", "panicked"}
  /\ host \in Value \cup {""}
  /\ request \in [Field -> Values]
  /\ response \in [Field -> Values]
  /\ trailer \in [TrailerName -> Values]
  /\ buffers \in BOOLEAN
  /\ release \in BOOLEAN
  /\ client \in [sent : BOOLEAN, fields : [Field -> Values]]
  /\ early \in BOOLEAN
  /\ released \in BOOLEAN

\* net/http moves the Host field of a request to r.Host.
Init ==
  /\ pc = "idle"
  /\ host \in Value \cup {""}
  /\ request \in {h \in [Field -> Values] :
                    \A f \in Field : Len(h[f]) < 2 /\ (f = Host => h[f] = Absent)}
  /\ response = [f \in Field |-> Absent]
  /\ trailer = [n \in TrailerName |-> Absent]
  /\ buffers = FALSE
  /\ release = FALSE
  /\ client = NotSent
  /\ early = FALSE
  /\ released = FALSE

-----------------------------------------------------------------------------
(* Reading: what get_header_names and get_header_values return *)

\* The host lists the keys of its maps, and r.Host beside them.
RequestHeaderNames ==
  {f \in Field : request[f] # Absent} \cup (IF host = "" THEN {} ELSE {Host})

TrailerNames == {n \in TrailerName : trailer[n] # Absent}

\* Mutant: the keys with the prefix are not skipped.
AllResponseNames == {f \in Field : response[f] # Absent} \cup TrailerNames

ResponseHeaderNames == {f \in Field : response[f] # Absent}

\* The middleware writes them in lower case.
GetHeaderNames(k) ==
  {Lower[n] : n \in CASE k = RequestKind -> RequestHeaderNames
                      [] k = ResponseKind -> ResponseHeaderNames
                      [] k \in TrailerKinds -> TrailerNames}

\* The Host header of a request is r.Host, whatever r.Header holds.
RequestHeaderValues(n) ==
  IF Canonical[n] = Host THEN <<host>> ELSE request[Canonical[n]]

TrailerValues(n) == IF n \in TrailerName THEN trailer[n] ELSE Absent

GetHeaderValues(k, n) ==
  CASE k = RequestKind -> RequestHeaderValues(n)
    [] k = ResponseKind -> response[Canonical[n]]
    [] k \in TrailerKinds -> TrailerValues(n)

-----------------------------------------------------------------------------
(* Editing *)

InGuest == pc \in {"request", "response"}

\* mustHeaderMutable.
Mutable(k) ==
  \/ pc = "request"
  \/ pc = "response" /\ buffers /\ k \in {ResponseKind, "response trailers"}

\* Mutant: edits of request headers reach the response's.
PutResponse(k, n, values) ==
  /\ UNCHANGED request
  /\ response' = IF k \in TrailerKinds
                 THEN response ELSE [response EXCEPT ![Canonical[n]] = values]
  /\ trailer' = IF k \in TrailerKinds THEN [trailer EXCEPT ![n] = values] ELSE trailer

\* The map of the kind gets values in the place of those it has for the name.
Put(k, n, values) ==
  /\ request' = IF k = RequestKind
                THEN [request EXCEPT ![Canonical[n]] = values] ELSE request
  /\ response' = IF k = ResponseKind
                 THEN [response EXCEPT ![Canonical[n]] = values] ELSE response
  /\ trailer' = IF k \in TrailerKinds THEN [trailer EXCEPT ![n] = values] ELSE trailer

Editable(k) == IF k \in TrailerKinds THEN TrailerName ELSE Name

SetHeaderValue(k, n, v) ==
  /\ Mutable(k)
  /\ Put(k, n, <<v>>)
  /\ UNCHANGED <<pc, host, buffers, release, client, history>>

\* What adding v leaves in the map: addTrailer calls Set where the headers' Add
\* is called for the others.
Added(k, n, v) ==
  CASE k = RequestKind -> Append(request[Canonical[n]], v)
    [] k = ResponseKind -> Append(response[Canonical[n]], v)
    [] k \in TrailerKinds -> <<v>>

AddHeaderValue(k, n, v) ==
  /\ Mutable(k)
  /\ Len(Added(k, n, v)) <= MaxValues
  /\ Put(k, n, Added(k, n, v))
  /\ UNCHANGED <<pc, host, buffers, release, client, history>>

\* Mutant: the field is left with an empty value.
RemoveHeaderBlanks(k, n) ==
  /\ Mutable(k)
  /\ Put(k, n, <<"">>)
  /\ UNCHANGED <<pc, host, buffers, release, client, history>>

RemoveHeader(k, n) ==
  /\ Mutable(k)
  /\ Put(k, n, Absent)
  /\ UNCHANGED <<pc, host, buffers, release, client, history>>

-----------------------------------------------------------------------------
(* The request's way through ServeHTTP *)

\* The client is sent the header fields, once.
Commit == client' = IF client.sent THEN client ELSE [sent |-> TRUE, fields |-> response]

\* Mutant: a buffer passes the status on.
RespondThrough == Commit

\* A status or a body is written to s.w: the client's writer, or a buffer. A
\* writer of the client's that is still cached has sent the fields already.
Respond == IF buffers THEN UNCHANGED client ELSE Commit

ServeHTTP ==
  /\ pc = "idle"
  /\ pc' = "request"
  /\ buffers' \in BOOLEAN
  /\ UNCHANGED <<maps, release, client, history>>

EnableFeatures ==
  /\ InGuest
  /\ ~buffers
  /\ buffers' = TRUE
  /\ UNCHANGED <<pc, maps, release, client, history>>

\* set_status_code or write_body of the response.
WriteResponse ==
  /\ Mutable(ResponseKind)
  /\ Respond
  /\ UNCHANGED <<pc, maps, buffers, release, history>>

\* handle_request returns next=0 or fails: with or without a buffer, net/http
\* sends the fields when ServeHTTP is finished, if nothing did before.
Stop ==
  /\ pc = "request"
  /\ pc' = "done"
  /\ Commit
  /\ release' = buffers
  /\ early' = client.sent
  /\ UNCHANGED <<maps, buffers, released>>

\* handle_request returns next=1; an error of closeRequest is sent right away.
Proceed ==
  /\ pc = "request"
  /\ pc' = "next"
  /\ \/ UNCHANGED client
     \/ Commit
  /\ release' = buffers
  /\ early' = client'.sent
  /\ UNCHANGED <<maps, buffers, released>>

\* The next handler edits the maps it shares with the guest, and responds.
NextEdits ==
  /\ pc = "next"
  /\ \E values \in Values :
       \/ /\ \E f \in Field : request' = [request EXCEPT ![f] = values]
          /\ UNCHANGED <<response, trailer>>
       \/ /\ \E f \in Field : response' = [response EXCEPT ![f] = values]
          /\ UNCHANGED <<request, trailer>>
       \/ /\ \E n \in TrailerName : trailer' = [trailer EXCEPT ![n] = values]
          /\ UNCHANGED <<request, response>>
  /\ UNCHANGED <<pc, host, buffers, release, client, history>>

NextResponds ==
  /\ pc = "next"
  /\ Respond
  /\ UNCHANGED <<pc, maps, buffers, release, history>>

\* It is a Wasm handler, and releases the buffer it was given as if it were its
\* own: what that holds is sent, if anything.
NextReleases ==
  /\ pc = "next"
  /\ buffers
  /\ released' = TRUE
  /\ Commit \/ UNCHANGED client
  /\ UNCHANGED <<pc, maps, buffers, release, early>>

\* It returned, or handleNext recovered its panic.
HandleResponse ==
  /\ pc = "next"
  /\ pc' = "response"
  /\ UNCHANGED <<maps, buffers, release, client, history>>

HandleResponseReturns ==
  /\ pc = "response"
  /\ pc' = "done"
  /\ Commit
  /\ UNCHANGED <<maps, buffers, release, history>>

\* ServeHTTP panics: only the release of the buffer can still send fields.
HandleResponseFails ==
  /\ pc = "response"
  /\ pc' = "panicked"
  /\ \/ UNCHANGED client
     \/ release /\ Commit
  /\ UNCHANGED <<maps, buffers, release, history>>

Edits ==
  \E k \in HeaderKind : \E n \in Editable(k) :
    \/ \E v \in Value : AddHeaderValue(k, n, v) \/ SetHeaderValue(k, n, v)
    \/ RemoveHeader(k, n)

Answered == pc \in {"done", "panicked"} /\ UNCHANGED vars

Next ==
  \/ ServeHTTP \/ EnableFeatures \/ Edits \/ WriteResponse
  \/ Stop \/ Proceed \/ NextEdits \/ NextResponds \/ NextReleases
  \/ HandleResponse \/ HandleResponseReturns \/ HandleResponseFails
  \/ Answered

Spec == Init /\ [][Next]_vars

-----------------------------------------------------------------------------
(* Properties *)

\* Two spellings of one name.
Same(n, o) == Canonical[n] = Canonical[o]

\* After an edit a guest reads the new values under every spelling of the name
\* it edited, and of every other kind and name what it read before.
Edited(k, n, values) ==
  \A j \in HeaderKind, o \in Name :
    GetHeaderValues(j, o)' =
      IF j = k /\ Same(n, o) THEN values ELSE GetHeaderValues(j, o)

EditedAsDocumented(k, n) ==
  /\ \A v \in Value : SetHeaderValue(k, n, v) => Edited(k, n, <<v>>)
  /\ \A v \in Value : AddHeaderValue(k, n, v) =>
       Edited(k, n, Append(GetHeaderValues(k, n), v))
  /\ RemoveHeader(k, n) => Edited(k, n, Absent)

\* set_header_value "overwrites all values of the given HeaderKind and name",
\* add_header_value "adds a single value" and remove_header "removes any"
\* (wasm.go:264-276): exactly that, for request and response headers under any
\* spelling, but for the Host of a request, which no edit reaches.
HeadersEditedAsDocumented ==
  [][\A k \in {RequestKind, ResponseKind}, n \in Name :
       ~(k = RequestKind /\ Canonical[n] = Host) => EditedAsDocumented(k, n)]_vars

\* "FuncAddHeaderValue adds a single value for the given HeaderKind and name"
\* (wasm.go:270), also to a trailer.
AddKeepsTheOthers ==
  [][\A k \in TrailerKinds, n \in TrailerName, v \in Value :
       AddHeaderValue(k, n, v) =>
         GetHeaderValues(k, n)' = Append(GetHeaderValues(k, n), v)]_vars

\* A guest that walks over the names of the request's or the response's headers
\* finds values under each of them, and misses no name that has any, however it
\* was spelled when it was set, if the next handler too uses the methods of
\* http.Header, which store it under the canonical spelling.
NamesAgreeWithValues ==
  \A k \in {RequestKind, ResponseKind}, n \in Name : Canonical[n] # Host =>
    (Lower[n] \in GetHeaderNames(k) <=> GetHeaderValues(k, n) # Absent)

\* A guest that buffers the response before the next handler is called, and had
\* not responded by then, has the last word on the header fields: the client is
\* sent what they are when ServeHTTP returns, although the next handler wrote
\* its status and body long before, and nothing after it was lost. Not so if the
\* next handler released the buffer, as another Wasm handler does with the one it
\* is given (nethttp/middleware.go:123-125).
LastWordOnHeaders ==
  pc = "done" /\ release /\ ~early /\ ~released =>
    client = [sent |-> TRUE, fields |-> response]
=============================================================================
