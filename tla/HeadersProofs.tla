---------------------------- MODULE HeadersProofs ----------------------------
(***************************************************************************)
(* Theorems about Headers, for any names, spellings and values, and lists  *)
(* of values of any length.                                                *)
(***************************************************************************)
EXTENDS Headers, SequenceTheorems, TLAPS

-----------------------------------------------------------------------------
(* What an edit changes *)

\* The two header kinds and the two trailer kinds are four.
LEMMA Kinds ==
  /\ RequestKind \notin TrailerKinds /\ ResponseKind \notin TrailerKinds
  /\ RequestKind # ResponseKind
BY DEF RequestKind, ResponseKind, TrailerKinds

\* What a guest reads of each kind, before and after a step.
LEMMA ValuesRead ==
  ASSUME NEW o \in Name
  PROVE  /\ GetHeaderValues(RequestKind, o) = RequestHeaderValues(o)
         /\ GetHeaderValues(ResponseKind, o) = response[Canonical[o]]
         /\ \A j \in TrailerKinds : GetHeaderValues(j, o) = TrailerValues(o)
BY Kinds DEF GetHeaderValues

LEMMA ValuesReadNext ==
  ASSUME NEW o \in Name
  PROVE  /\ GetHeaderValues(RequestKind, o)' = RequestHeaderValues(o)'
         /\ GetHeaderValues(ResponseKind, o)' = response'[Canonical[o]]
         /\ \A j \in TrailerKinds : GetHeaderValues(j, o)' = TrailerValues(o)'
BY Kinds DEF GetHeaderValues

\* The maps have a place for every name.
Maps ==
  /\ DOMAIN request = Field /\ request = [f \in Field |-> request[f]]
  /\ DOMAIN response = Field /\ response = [f \in Field |-> response[f]]

\* Put edits a request header, which is not the Host, as documented.
LEMMA RequestEdited ==
  ASSUME Maps, NEW n \in Name, NEW values, Canonical[n] # Host, UNCHANGED host,
         Put(RequestKind, n, values)
  PROVE  Edited(RequestKind, n, values)
<1>1. /\ request' = [request EXCEPT ![Canonical[n]] = values]
      /\ UNCHANGED <<host, response, trailer>>
  BY Kinds DEF Put
<1>2. \A o \in Name : Canonical[o] \in Field
  BY DEF Field
<1>3. ASSUME NEW j \in HeaderKind, NEW o \in Name
      PROVE  GetHeaderValues(j, o)' =
               IF j = RequestKind /\ Same(n, o) THEN values ELSE GetHeaderValues(j, o)
  <2>1. CASE j = RequestKind
    BY <1>1, <1>2, <2>1, ValuesRead, ValuesReadNext DEF RequestHeaderValues, Same, Maps
  <2>2. CASE j = ResponseKind
    BY <1>1, <2>2, Kinds, ValuesRead, ValuesReadNext
  <2>3. CASE j \in TrailerKinds
    BY <1>1, <2>3, Kinds, ValuesRead, ValuesReadNext DEF TrailerValues
  <2> QED
    BY <2>1, <2>2, <2>3 DEF HeaderKind
<1> QED
  BY <1>3 DEF Edited

\* And a response header.
LEMMA ResponseEdited ==
  ASSUME Maps, NEW n \in Name, NEW values, UNCHANGED host,
         Put(ResponseKind, n, values)
  PROVE  Edited(ResponseKind, n, values)
<1>1. /\ response' = [response EXCEPT ![Canonical[n]] = values]
      /\ UNCHANGED <<host, request, trailer>>
  BY Kinds DEF Put
<1>2. \A o \in Name : Canonical[o] \in Field
  BY DEF Field
<1>3. ASSUME NEW j \in HeaderKind, NEW o \in Name
      PROVE  GetHeaderValues(j, o)' =
               IF j = ResponseKind /\ Same(n, o) THEN values ELSE GetHeaderValues(j, o)
  <2>1. CASE j = RequestKind
    BY <1>1, <2>1, Kinds, ValuesRead, ValuesReadNext DEF RequestHeaderValues
  <2>2. CASE j = ResponseKind
    BY <1>1, <1>2, <2>2, ValuesRead, ValuesReadNext DEF Same, Maps
  <2>3. CASE j \in TrailerKinds
    BY <1>1, <2>3, Kinds, ValuesRead, ValuesReadNext DEF TrailerValues
  <2> QED
    BY <2>1, <2>2, <2>3 DEF HeaderKind
<1> QED
  BY <1>3 DEF Edited

\* Set, add and remove of headers are edits as documented.
LEMMA EditsAreDocumented ==
  ASSUME Maps, NEW k \in {RequestKind, ResponseKind}, NEW n \in Name,
         ~(k = RequestKind /\ Canonical[n] = Host)
  PROVE  EditedAsDocumented(k, n)
<1>1. ASSUME NEW values, Put(k, n, values), UNCHANGED host
      PROVE  Edited(k, n, values)
  <2>1. CASE k = RequestKind
    BY <1>1, <2>1, RequestEdited
  <2>2. CASE k = ResponseKind
    BY <1>1, <2>2, ResponseEdited
  <2> QED
    BY <2>1, <2>2
<1>2. \A v \in Value : Added(k, n, v) = Append(GetHeaderValues(k, n), v)
  BY Kinds, ValuesRead DEF Added, RequestHeaderValues
<1>3. ASSUME NEW v \in Value, SetHeaderValue(k, n, v) PROVE Edited(k, n, <<v>>)
  BY <1>1, <1>3 DEF SetHeaderValue
<1>4. ASSUME NEW v \in Value, AddHeaderValue(k, n, v)
      PROVE  Edited(k, n, Append(GetHeaderValues(k, n), v))
  BY <1>1, <1>2, <1>4 DEF AddHeaderValue
<1>5. ASSUME RemoveHeader(k, n) PROVE Edited(k, n, Absent)
  BY <1>1, <1>5 DEF RemoveHeader
<1> QED
  BY <1>3, <1>4, <1>5 DEF EditedAsDocumented

-----------------------------------------------------------------------------
(* Types *)

LEMMA ListsOfValues ==
  /\ Absent \in Values
  /\ \A v \in Value : <<v>> \in Values
  /\ \A s \in Values, v \in Value : Len(Append(s, v)) <= MaxValues => Append(s, v) \in Values
<1>1. 0 \in 0 .. MaxValues /\ 1 \in 0 .. MaxValues
  BY ValuesAssumption
<1>2. Absent \in [1 .. 0 -> Value] /\ \A v \in Value : <<v>> \in [1 .. 1 -> Value]
  BY DEF Absent
<1>3. ASSUME NEW s \in Values, NEW v \in Value, Len(Append(s, v)) <= MaxValues
      PROVE  Append(s, v) \in Values
  <2>1. PICK k \in 0 .. MaxValues : s \in [1 .. k -> Value]
    BY DEF Values
  <2>2. s \in Seq(Value) /\ Len(s) = k
    BY <2>1, ValuesAssumption
  <2>3. Append(s, v) \in Seq(Value) /\ Len(Append(s, v)) = k + 1
    BY <2>2
  <2>4. Append(s, v) \in [1 .. k + 1 -> Value]
    BY <2>3, LenProperties
  <2>5. k + 1 \in 0 .. MaxValues
    BY <1>3, <2>3, ValuesAssumption
  <2> QED
    BY <2>4, <2>5 DEF Values
<1> QED
  BY <1>1, <1>2, <1>3 DEF Values

\* The types of the maps.
MapsOK ==
  /\ request \in [Field -> Values]
  /\ response \in [Field -> Values]
  /\ trailer \in [TrailerName -> Values]

LEMMA PutKeepsTypes ==
  ASSUME MapsOK, NEW k \in HeaderKind, NEW n \in Editable(k), NEW values \in Values,
         Put(k, n, values)
  PROVE  MapsOK'
<1>1. n \in Name /\ Canonical[n] \in Field
  BY NameAssumption DEF Editable, Field
<1>2. request' \in [Field -> Values] /\ response' \in [Field -> Values]
  BY <1>1 DEF MapsOK, Put
<1>3. trailer' \in [TrailerName -> Values]
  BY DEF MapsOK, Put, Editable
<1> QED
  BY <1>2, <1>3 DEF MapsOK

\* Adding puts at most MaxValues values.
LEMMA AddedIsList ==
  ASSUME MapsOK, NEW k \in HeaderKind, NEW n \in Name, NEW v \in Value,
         Len(Added(k, n, v)) <= MaxValues
  PROVE  Added(k, n, v) \in Values
<1>1. request[Canonical[n]] \in Values /\ response[Canonical[n]] \in Values
  BY DEF MapsOK, Field
<1>2. CASE k = RequestKind
  <2>1. Added(k, n, v) = Append(request[Canonical[n]], v)
    BY <1>2, Kinds DEF Added
  <2> QED
    BY <1>1, <2>1, ListsOfValues
<1>3. CASE k = ResponseKind
  <2>1. Added(k, n, v) = Append(response[Canonical[n]], v)
    BY <1>3, Kinds DEF Added
  <2> QED
    BY <1>1, <2>1, ListsOfValues
<1>4. CASE k \in TrailerKinds
  <2>1. Added(k, n, v) = <<v>>
    BY <1>4, Kinds DEF Added
  <2> QED
    BY <2>1, ListsOfValues
<1> QED
  BY <1>2, <1>3, <1>4 DEF HeaderKind

\* An edit changes the maps and keeps their types.
LEMMA EditsKeepTypes ==
  ASSUME TypeOK, Edits
  PROVE  MapsOK' /\ UNCHANGED <<pc, host, buffers, release, client, history>>
<1>0. MapsOK
  BY DEF TypeOK, MapsOK
<1>. PICK k \in HeaderKind : \E n \in Editable(k) :
        \/ \E v \in Value : AddHeaderValue(k, n, v) \/ SetHeaderValue(k, n, v)
        \/ RemoveHeader(k, n)
  BY DEF Edits
<1>1. PICK n \in Editable(k) :
        \/ \E v \in Value : AddHeaderValue(k, n, v) \/ SetHeaderValue(k, n, v)
        \/ RemoveHeader(k, n)
  OBVIOUS
<1>2. n \in Name
  BY NameAssumption DEF Editable
<1>3. ASSUME NEW v \in Value, AddHeaderValue(k, n, v)
      PROVE  MapsOK' /\ UNCHANGED <<pc, host, buffers, release, client, history>>
  BY <1>0, <1>2, <1>3, AddedIsList, PutKeepsTypes DEF AddHeaderValue
<1>4. ASSUME NEW v \in Value, SetHeaderValue(k, n, v)
      PROVE  MapsOK' /\ UNCHANGED <<pc, host, buffers, release, client, history>>
  BY <1>0, <1>4, ListsOfValues, PutKeepsTypes DEF SetHeaderValue
<1>5. ASSUME RemoveHeader(k, n)
      PROVE  MapsOK' /\ UNCHANGED <<pc, host, buffers, release, client, history>>
  BY <1>0, <1>5, ListsOfValues, PutKeepsTypes DEF RemoveHeader
<1> QED
  BY <1>1, <1>3, <1>4, <1>5

\* Sending the fields keeps the types.
LEMMA CommitKeepsTypes ==
  ASSUME TypeOK, Commit \/ UNCHANGED client
  PROVE  /\ client' \in [sent : BOOLEAN, fields : [Field -> Values]]
         /\ client'.sent \in BOOLEAN
<1>1. /\ client \in [sent : BOOLEAN, fields : [Field -> Values]]
      /\ response \in [Field -> Values]
  BY DEF TypeOK
<1>2. [sent |-> TRUE, fields |-> response] \in [sent : BOOLEAN, fields : [Field -> Values]]
  BY <1>1
<1>3. client' = client \/ client' = [sent |-> TRUE, fields |-> response]
  BY DEF Commit
<1>4. client' \in [sent : BOOLEAN, fields : [Field -> Values]]
  BY <1>1, <1>2, <1>3
<1> QED
  BY <1>4

LEMMA NextEditsKeepsTypes ==
  ASSUME TypeOK, NextEdits
  PROVE  MapsOK'
BY DEF TypeOK, NextEdits, MapsOK

\* Every variable keeps its type.
LEMMA TypeNext == TypeOK /\ [Next]_vars => TypeOK'
<1> SUFFICES ASSUME TypeOK, [Next]_vars PROVE TypeOK'
  OBVIOUS
<1>1. CASE Edits
  BY <1>1, EditsKeepTypes DEF TypeOK, MapsOK, history
<1>2. CASE NextEdits
  BY <1>2, NextEditsKeepsTypes DEF TypeOK, MapsOK, NextEdits, history
<1>3. CASE ServeHTTP \/ EnableFeatures \/ HandleResponse
  BY <1>3 DEF TypeOK, ServeHTTP, EnableFeatures, HandleResponse, maps, history
<1>4. CASE WriteResponse \/ NextResponds \/ NextReleases
  <2>1. Commit \/ UNCHANGED client
    BY <1>4 DEF WriteResponse, NextResponds, NextReleases, Respond
  <2> QED
    BY <1>4, <2>1, CommitKeepsTypes
    DEF TypeOK, WriteResponse, NextResponds, NextReleases, maps, history
<1>5. CASE Stop \/ Proceed
  <2>1. Commit \/ UNCHANGED client
    BY <1>5 DEF Stop, Proceed
  <2>2. client.sent \in BOOLEAN
    BY DEF TypeOK
  <2> QED
    BY <1>5, <2>1, <2>2, CommitKeepsTypes DEF TypeOK, Stop, Proceed, maps
<1>6. CASE HandleResponseReturns \/ HandleResponseFails
  <2>1. Commit \/ UNCHANGED client
    BY <1>6 DEF HandleResponseReturns, HandleResponseFails
  <2> QED
    BY <1>6, <2>1, CommitKeepsTypes
    DEF TypeOK, HandleResponseReturns, HandleResponseFails, maps, history
<1>7. CASE UNCHANGED vars
  BY <1>7 DEF TypeOK, vars, maps, history
<1> QED
  BY <1>1, <1>2, <1>3, <1>4, <1>5, <1>6, <1>7 DEF Next, Answered

LEMMA TypeInit == Init => TypeOK
<1> SUFFICES ASSUME Init PROVE TypeOK
  OBVIOUS
<1>1. client \in [sent : BOOLEAN, fields : [Field -> Values]]
  BY ListsOfValues DEF Init, NotSent
<1>2. /\ response \in [Field -> Values] /\ trailer \in [TrailerName -> Values]
      /\ request \in [Field -> Values]
  BY ListsOfValues DEF Init
<1> QED
  BY <1>1, <1>2 DEF Init, TypeOK

\* Every variable of Headers always has its type: whatever the guest and the next
\* handler edit, a field has values they gave, or none.
THEOREM HeaderTypes == Spec => []TypeOK
BY TypeInit, TypeNext, PTL DEF Spec

-----------------------------------------------------------------------------
(* Edits and the last word *)

\* Edits of request and response headers change what they are documented to
\* change and nothing else, but for the Host of a request.
THEOREM HeaderEditsAreExact == Spec => HeadersEditedAsDocumented
<1>1. TypeOK => Maps
  BY DEF TypeOK, Maps
<1>2. TypeOK => [\A k \in {RequestKind, ResponseKind}, n \in Name :
                   ~(k = RequestKind /\ Canonical[n] = Host) => EditedAsDocumented(k, n)]_vars
  BY <1>1, EditsAreDocumented
<1> QED
  BY <1>2, HeaderTypes, PTL DEF Spec, HeadersEditedAsDocumented

\* A buffer that was there when the next handler was called is still there, and
\* nothing was sent if no handler behind released it, until ServeHTTP is finished and sends what there is.
LastWordInv ==
  /\ pc \in {"idle", "request"} => ~release
  /\ pc \in {"next", "response"} /\ release => buffers
  /\ pc \in {"next", "response"} /\ release /\ ~early /\ ~released => ~client.sent
  /\ LastWordOnHeaders

LEMMA LastWordNext == TypeOK /\ LastWordInv /\ [Next]_vars => LastWordInv'
<1> SUFFICES ASSUME TypeOK, LastWordInv, [Next]_vars PROVE LastWordInv'
  OBVIOUS
<1>1. CASE Edits
  <2>1. UNCHANGED <<pc, host, buffers, release, client, history>>
    BY <1>1, EditsKeepTypes
  <2>2. pc \in {"request", "response"}
    BY <1>1 DEF Edits, AddHeaderValue, SetHeaderValue, RemoveHeader, Mutable
  <2> QED
    BY <2>1, <2>2 DEF LastWordInv, LastWordOnHeaders, history
<1>2. CASE NextEdits
  BY <1>2 DEF NextEdits, history, LastWordInv, LastWordOnHeaders
<1>3. CASE ServeHTTP \/ EnableFeatures \/ HandleResponse
  BY <1>3 DEF ServeHTTP, EnableFeatures, InGuest, HandleResponse, maps, history,
              LastWordInv, LastWordOnHeaders
<1>4. CASE WriteResponse
  <2>1. UNCHANGED <<pc, response, buffers, release, history>>
    BY <1>4 DEF WriteResponse, maps, history
  <2>2. CASE pc = "request"
    BY <2>1, <2>2 DEF LastWordInv, LastWordOnHeaders, history
  <2>3. CASE pc = "response" /\ UNCHANGED client
    BY <2>1, <2>3 DEF LastWordInv, LastWordOnHeaders, history
  <2>4. pc = "request" \/ (pc = "response" /\ UNCHANGED client)
    <3>1. pc = "request" \/ (pc = "response" /\ buffers)
      BY <1>4 DEF WriteResponse, Mutable
    <3> QED
      BY <1>4, <3>1 DEF WriteResponse, Respond, Commit
  <2> QED
    BY <2>2, <2>3, <2>4
<1>5. CASE NextResponds
  <2>1. pc = "next" /\ (buffers => UNCHANGED client)
    BY <1>5 DEF NextResponds, Respond
  <2> QED
    BY <1>5, <2>1 DEF NextResponds, maps, history, LastWordInv, LastWordOnHeaders
<1>6. CASE Stop
  BY <1>6 DEF Stop, Commit, maps, history, LastWordInv, LastWordOnHeaders
<1>7. CASE Proceed
  BY <1>7 DEF Proceed, maps, history, LastWordInv, LastWordOnHeaders
<1>8. CASE HandleResponseReturns
  BY <1>8 DEF HandleResponseReturns, Commit, maps, history, LastWordInv, LastWordOnHeaders
<1>9. CASE HandleResponseFails
  BY <1>9 DEF HandleResponseFails, history, LastWordInv, LastWordOnHeaders
<1>10. CASE UNCHANGED vars
  BY <1>10 DEF vars, maps, history, LastWordInv, LastWordOnHeaders
<1>11. CASE NextReleases
  BY <1>11 DEF NextReleases, maps, LastWordInv, LastWordOnHeaders
<1> QED
  BY <1>1, <1>2, <1>3, <1>4, <1>5, <1>6, <1>7, <1>8, <1>9, <1>10, <1>11 DEF Next, Answered

\* A guest that buffers the response in time decides which header fields the
\* client is sent, if no handler behind it releases its buffer.
THEOREM GuestHasLastWord == Spec => []LastWordOnHeaders
<1>1. Init => LastWordInv
  BY DEF Init, LastWordInv, LastWordOnHeaders
<1>2. LastWordInv => LastWordOnHeaders
  BY DEF LastWordInv
<1> QED
  BY <1>1, <1>2, HeaderTypes, LastWordNext, PTL DEF Spec

-----------------------------------------------------------------------------
(* Names *)

\* Fields with one spelling in lower case are the same field.
LEMMA LowerIsOneToOne ==
  ASSUME NEW f \in Field, NEW n \in Name
  PROVE  Lower[f] = Lower[n] <=> f = Canonical[n]
<1>1. f \in Name /\ Canonical[f] = f /\ Canonical[Lower[f]] = Canonical[f]
  BY NameAssumption DEF Field
<1>2. Canonical[Lower[n]] = Canonical[n] /\ Lower[Canonical[n]] = Lower[n]
  BY NameAssumption
<1> QED
  BY <1>1, <1>2

\* Names and values are taken from maps with different keys, and agree.
THEOREM NamesAndValuesAgree == Spec => []NamesAgreeWithValues
<1>1. NamesAgreeWithValues
  <2> SUFFICES ASSUME NEW k \in {RequestKind, ResponseKind}, NEW n \in Name, Canonical[n] # Host
               PROVE  Lower[n] \in GetHeaderNames(k) <=> GetHeaderValues(k, n) # Absent
    BY DEF NamesAgreeWithValues
  <2>1. Canonical[n] \in Field /\ Host \in Field
    BY NameAssumption DEF Field
  <2>2. CASE k = RequestKind
    <3>1. GetHeaderNames(k) = {Lower[f] : f \in RequestHeaderNames}
      BY <2>2, Kinds DEF GetHeaderNames
    <3>2. RequestHeaderNames \subseteq Field
      BY <2>1 DEF RequestHeaderNames
    <3>3. Lower[n] \in GetHeaderNames(k) <=> Canonical[n] \in RequestHeaderNames
      BY <2>1, <3>1, <3>2, LowerIsOneToOne
    <3>4. GetHeaderValues(k, n) = request[Canonical[n]]
      BY <2>2, ValuesRead DEF RequestHeaderValues
    <3> QED
      BY <2>1, <3>3, <3>4 DEF RequestHeaderNames
  <2>3. CASE k = ResponseKind
    <3>1. GetHeaderNames(k) = {Lower[f] : f \in ResponseHeaderNames}
      BY <2>3, Kinds DEF GetHeaderNames
    <3>2. Lower[n] \in GetHeaderNames(k) <=> Canonical[n] \in ResponseHeaderNames
      BY <2>1, <3>1, LowerIsOneToOne DEF ResponseHeaderNames
    <3>3. GetHeaderValues(k, n) = response[Canonical[n]]
      BY <2>3, ValuesRead
    <3> QED
      BY <2>1, <3>2, <3>3 DEF ResponseHeaderNames
  <2> QED
    BY <2>2, <2>3
<1> QED
  BY <1>1, PTL
=============================================================================
