------------------------------- MODULE TckProofs -------------------------------
(***************************************************************************)
(* Theorems about Tck, for a host that leaves any of its functions         *)
(* unimplemented: what the verdict of the kit says of it.                  *)
(***************************************************************************)
EXTENDS Tck, SequenceTheorems, TLAPS

-----------------------------------------------------------------------------
(* The tests of Run *)

About(fn, args) == {[fn |-> fn, arg |-> a] : a \in args}

Methods == {"GET", "HEAD", "POST", "PUT", "DELETE", "OPTIONS", "TRACE", "PATCH"}
UriArgs == {Uris[1], Uris[2], Uris[3], Uris[4]}
KeyArgs == {"single-header", "Single-Header", "not-header", "multi-header"}
EditedArgs == {"new-header", "existing-header"}
BodySizes == {0, 5, 2048, 4096, 5000}
NoArgs == {""}

\* All tests, in no order.
AllTests ==
  About("get_protocol_version", NoArgs) \cup About("get_method", Methods)
    \cup About("set_method", NoArgs) \cup About("get_uri", UriArgs) \cup About("set_uri", UriArgs)
    \cup About("get_header_values", KeyArgs) \cup About("get_header_names", NoArgs)
    \cup About("set_header_value", EditedArgs) \cup About("add_header_value", EditedArgs)
    \cup About("remove_header", EditedArgs)
    \cup About("read_body", BodySizes) \cup About("get_source_addr", NoArgs)

In(x, s) == \E i \in 1 .. Len(s) : s[i] = x

\* A sequence of all that are in a set, in any order.
Lists(s, S) == s \in Seq(S) /\ \A x \in S : In(x, s)

\* The tests of one function are those of its arguments.
LEMMA TestsOf ==
  ASSUME NEW fn, NEW S, NEW args, Lists(args, S)
  PROVE  Lists(Tests(fn, args), About(fn, S))
<1>1. /\ DOMAIN args = 1 .. Len(args) /\ Len(args) \in Nat
      /\ \A i \in 1 .. Len(args) : args[i] \in S
  BY DEF Lists
<1>2. Tests(fn, args) \in [1 .. Len(args) -> About(fn, S)]
  BY <1>1 DEF Tests, About
<1>3. Tests(fn, args) \in Seq(About(fn, S)) /\ Len(Tests(fn, args)) = Len(args)
  BY <1>1, <1>2, IsASeq, LenProperties
<1>4. \A i \in 1 .. Len(args) : Tests(fn, args)[i] = [fn |-> fn, arg |-> args[i]]
  BY <1>1 DEF Tests
<1>5. \A x \in About(fn, S) : In(x, Tests(fn, args))
  BY <1>3, <1>4 DEF In, About, Lists
<1> QED
  BY <1>3, <1>5 DEF Lists

LEMMA Both ==
  ASSUME NEW S, NEW T, NEW s, NEW t, Lists(s, S), Lists(t, T)
  PROVE  Lists(s \o t, S \cup T)
<1>1. s \in Seq(S \cup T) /\ t \in Seq(S \cup T)
  BY DEF Lists
<1>2. s \o t \in Seq(S \cup T)
  BY <1>1, ConcatProperties
<1>3. /\ Len(s \o t) = Len(s) + Len(t) /\ Len(s) \in Nat /\ Len(t) \in Nat
      /\ \A i \in 1 .. Len(s) : (s \o t)[i] = s[i]
      /\ \A i \in 1 .. Len(t) : (s \o t)[Len(s) + i] = t[i]
  BY <1>1
<1>4. ASSUME NEW x, In(x, s)
      PROVE  In(x, s \o t)
  <2>1. PICK i \in 1 .. Len(s) : s[i] = x
    BY <1>4 DEF In
  <2>2. i \in 1 .. Len(s \o t) /\ (s \o t)[i] = x
    BY <1>3, <2>1
  <2> QED
    BY <2>2 DEF In
<1>5. ASSUME NEW x, In(x, t)
      PROVE  In(x, s \o t)
  <2>1. PICK i \in 1 .. Len(t) : t[i] = x
    BY <1>5 DEF In
  <2>2. Len(s) + i \in 1 .. Len(s \o t) /\ (s \o t)[Len(s) + i] = x
    BY <1>3, <2>1
  <2> QED
    BY <2>2 DEF In
<1> QED
  BY <1>2, <1>4, <1>5 DEF Lists

LEMMA One ==
  ASSUME NEW a
  PROVE  Lists(<<a>>, {a})
<1>1. <<a>> \in Seq({a}) /\ Len(<<a>>) = 1 /\ <<a>>[1] = a
  OBVIOUS
<1>2. In(a, <<a>>)
  <2>1. 1 \in 1 .. Len(<<a>>)
    BY <1>1
  <2> QED
    BY <1>1, <2>1 DEF In
<1> QED
  BY <1>1, <1>2 DEF Lists

LEMMA Four ==
  ASSUME NEW a, NEW b, NEW c, NEW d
  PROVE  Lists(<<a, b, c, d>>, {a, b, c, d})
<1> DEFINE s == <<a, b, c, d>>
<1>1. /\ s \in Seq({a, b, c, d}) /\ Len(s) = 4
      /\ s[1] = a /\ s[2] = b /\ s[3] = c /\ s[4] = d
  OBVIOUS
<1> HIDE DEF s
<1>2. 1 \in 1 .. Len(s) /\ 2 \in 1 .. Len(s) /\ 3 \in 1 .. Len(s) /\ 4 \in 1 .. Len(s)
  BY <1>1
<1>3. In(a, s) /\ In(b, s) /\ In(c, s) /\ In(d, s)
  BY <1>1, <1>2 DEF In
<1>4. Lists(s, {a, b, c, d})
  BY <1>1, <1>3 DEF Lists
<1> QED
  BY <1>4 DEF s

\* Run sends a request for each test, and for nothing else.
LEMMA RunIsAllTests == Lists(Run, AllTests)
<1> DEFINE
      p1 == Tests("get_protocol_version", <<"">>)
      p2 == Tests("get_method", <<"GET", "HEAD", "POST", "PUT", "DELETE", "OPTIONS", "TRACE", "PATCH">>)
      p3 == Tests("set_method", <<"">>)
      p4 == Tests("get_uri", Uris)
      p5 == Tests("set_uri", Uris)
      p6 == Tests("get_header_values", Keys)
      p7 == Tests("get_header_names", <<"">>)
      p8 == Tests("set_header_value", Edited)
      p9 == Tests("add_header_value", Edited)
      p10 == Tests("remove_header", Edited)
      p11 == Tests("read_body", <<0, 5, 2048, 4096, 5000>>)
      p12 == Tests("get_source_addr", <<"">>)
      s1 == About("get_protocol_version", NoArgs)
      s2 == About("get_method", Methods)
      s3 == About("set_method", NoArgs)
      s4 == About("get_uri", UriArgs)
      s5 == About("set_uri", UriArgs)
      s6 == About("get_header_values", KeyArgs)
      s7 == About("get_header_names", NoArgs)
      s8 == About("set_header_value", EditedArgs)
      s9 == About("add_header_value", EditedArgs)
      s10 == About("remove_header", EditedArgs)
      s11 == About("read_body", BodySizes)
      s12 == About("get_source_addr", NoArgs)
<1>1. Lists(<<"">>, NoArgs)
  BY One DEF NoArgs
<1>2. Lists(<<"GET", "HEAD", "POST", "PUT", "DELETE", "OPTIONS", "TRACE", "PATCH">>, Methods)
  BY DEF Lists, In, Methods
<1>3. Lists(Uris, UriArgs)
  <2>1. Uris = <<Uris[1], Uris[2], Uris[3], Uris[4]>>
    BY DEF Uris
  <2> QED
    BY <2>1, Four DEF UriArgs
<1>4. Lists(Keys, KeyArgs)
  BY DEF Lists, In, Keys, KeyArgs
<1>5. Lists(Edited, EditedArgs)
  BY DEF Lists, In, Edited, EditedArgs
<1>6. Lists(<<0, 5, 2048, 4096, 5000>>, BodySizes)
  BY DEF Lists, In, BodySizes
<1>7. /\ Lists(p1, s1) /\ Lists(p2, s2) /\ Lists(p3, s3) /\ Lists(p4, s4)
      /\ Lists(p5, s5) /\ Lists(p6, s6) /\ Lists(p7, s7) /\ Lists(p8, s8)
      /\ Lists(p9, s9) /\ Lists(p10, s10) /\ Lists(p11, s11) /\ Lists(p12, s12)
  <2>1. Lists(p1, s1)
    BY <1>1, TestsOf
  <2>2. Lists(p2, s2)
    BY <1>2, TestsOf
  <2>3. Lists(p3, s3)
    BY <1>1, TestsOf
  <2>4. Lists(p4, s4)
    BY <1>3, TestsOf
  <2>5. Lists(p5, s5)
    BY <1>3, TestsOf
  <2>6. Lists(p6, s6)
    BY <1>4, TestsOf
  <2>7. Lists(p7, s7)
    BY <1>1, TestsOf
  <2>8. Lists(p8, s8)
    BY <1>5, TestsOf
  <2>9. Lists(p9, s9)
    BY <1>5, TestsOf
  <2>10. Lists(p10, s10)
    BY <1>5, TestsOf
  <2>11. Lists(p11, s11)
    BY <1>6, TestsOf
  <2>12. Lists(p12, s12)
    BY <1>1, TestsOf
  <2> HIDE DEF p1, p2, p3, p4, p5, p6, p7, p8, p9, p10, p11, p12, s1, s2, s3, s4, s5, s6, s7, s8,
               s9, s10, s11, s12
  <2> QED
    BY <2>1, <2>2, <2>3, <2>4, <2>5, <2>6, <2>7, <2>8, <2>9, <2>10, <2>11, <2>12
<1>8. Run = p1 \o p2 \o p3 \o p4 \o p5 \o p6 \o p7 \o p8 \o p9 \o p10 \o p11 \o p12
  BY DEF Run
<1>9. AllTests = s1 \cup s2 \cup s3 \cup s4 \cup s5 \cup s6 \cup s7 \cup s8 \cup s9 \cup s10
                   \cup s11 \cup s12
  BY DEF AllTests
<1> HIDE DEF p1, p2, p3, p4, p5, p6, p7, p8, p9, p10, p11, p12, s1, s2, s3, s4, s5, s6, s7, s8, s9,
             s10, s11, s12
<1>10. Lists(p1 \o p2, s1 \cup s2)
  BY <1>7, Both
<1>11. Lists(p1 \o p2 \o p3, s1 \cup s2 \cup s3)
  BY <1>7, <1>10, Both
<1>12. Lists(p1 \o p2 \o p3 \o p4, s1 \cup s2 \cup s3 \cup s4)
  BY <1>7, <1>11, Both
<1>13. Lists(p1 \o p2 \o p3 \o p4 \o p5, s1 \cup s2 \cup s3 \cup s4 \cup s5)
  BY <1>7, <1>12, Both
<1>14. Lists(p1 \o p2 \o p3 \o p4 \o p5 \o p6, s1 \cup s2 \cup s3 \cup s4 \cup s5 \cup s6)
  BY <1>7, <1>13, Both
<1>15. Lists(p1 \o p2 \o p3 \o p4 \o p5 \o p6 \o p7,
             s1 \cup s2 \cup s3 \cup s4 \cup s5 \cup s6 \cup s7)
  BY <1>7, <1>14, Both
<1>16. Lists(p1 \o p2 \o p3 \o p4 \o p5 \o p6 \o p7 \o p8,
             s1 \cup s2 \cup s3 \cup s4 \cup s5 \cup s6 \cup s7 \cup s8)
  BY <1>7, <1>15, Both
<1>17. Lists(p1 \o p2 \o p3 \o p4 \o p5 \o p6 \o p7 \o p8 \o p9,
             s1 \cup s2 \cup s3 \cup s4 \cup s5 \cup s6 \cup s7 \cup s8 \cup s9)
  BY <1>7, <1>16, Both
<1>18. Lists(p1 \o p2 \o p3 \o p4 \o p5 \o p6 \o p7 \o p8 \o p9 \o p10,
             s1 \cup s2 \cup s3 \cup s4 \cup s5 \cup s6 \cup s7 \cup s8 \cup s9 \cup s10)
  BY <1>7, <1>17, Both
<1>19. Lists(p1 \o p2 \o p3 \o p4 \o p5 \o p6 \o p7 \o p8 \o p9 \o p10 \o p11,
             s1 \cup s2 \cup s3 \cup s4 \cup s5 \cup s6 \cup s7 \cup s8 \cup s9 \cup s10 \cup s11)
  BY <1>7, <1>18, Both
<1> QED
  BY <1>7, <1>8, <1>9, <1>19, Both

-----------------------------------------------------------------------------
(* The invariant *)

\* The functions without which a test is one that the runner reports.
Needs(test) ==
  {"GetRequestHeaderValues", "SetResponseHeaderValue"} \cup
    CASE test.fn = "get_protocol_version" ->
           {"ResponseBodyWriter", "EnableFeatures"}
             \cup (IF proto = "HTTP/1.1" THEN {} ELSE {"GetProtocolVersion"})
      [] test.fn = "set_method" -> {"SetMethod"}
      [] test.fn = "set_uri" -> {"SetURI"}
      [] test.fn = "set_header_value" -> {"SetRequestHeaderValue"}
      [] test.fn = "add_header_value" -> {"AddRequestHeaderValue"}
      [] test.fn = "remove_header" /\ test.arg = "existing-header" -> {"RemoveRequestHeader"}
      [] test.fn = "get_method" /\ test.arg # "GET" /\ Has("SetStatusCode") -> {"GetMethod"}
      [] test.fn = "get_uri" /\ Has("SetStatusCode") -> {"GetURI"}
      [] test.fn = "get_header_names" /\ Has("SetStatusCode") -> {"GetRequestHeaderNames"}
      [] test.fn = "read_body" /\ test.arg # 0 /\ Has("SetStatusCode") -> {"RequestBodyReader"}
      [] test.fn = "get_source_addr" /\ Has("SetStatusCode") -> {"GetSourceAddr"}
      [] OTHER -> {}

Flawed(test) == missing \cap Needs(test) # {}

\* The runner will judge a response as the host deserves.
Deserved(resp) ==
  /\ missing \subseteq Unused => CheckResponse(resp) /\ Wants(resp)
  /\ Flawed(Test) => ~(CheckResponse(resp) /\ Wants(resp))

InTurn ==
  /\ at \in {"guest", "backend", "check"} => k <= Len(Run)
  /\ at = "guest" => r = RequestOf(Test) /\ w = NoResponse
  /\ at \in {"runner", "guest"} => k \notin objected
  /\ at \in {"backend", "check"} /\ k \in objected /\ Has("SetStatusCode") => w.status = 500
  /\ at = "backend" => Deserved(Echoed(w, r))
  /\ at = "check" => Deserved(w)

FlawsAreReported == \A i \in 1 .. k - 1 : Flawed(Run[i]) => i \in failed

KitInv == TypeOK /\ InTurn /\ ConformingHostPasses /\ ObjectionsAreReported /\ FlawsAreReported

-----------------------------------------------------------------------------
(* Types *)

IsAbout(t, fn, args) == t.fn = fn /\ t.arg \in args

\* What the test of a function is about.
LEMMA ArgOf ==
  ASSUME NEW t \in AllTests
  PROVE  \/ IsAbout(t, "get_protocol_version", NoArgs)
         \/ IsAbout(t, "get_method", Methods)
         \/ IsAbout(t, "set_method", NoArgs)
         \/ IsAbout(t, "get_uri", UriArgs)
         \/ IsAbout(t, "set_uri", UriArgs)
         \/ IsAbout(t, "get_header_values", KeyArgs)
         \/ IsAbout(t, "get_header_names", NoArgs)
         \/ IsAbout(t, "set_header_value", EditedArgs)
         \/ IsAbout(t, "add_header_value", EditedArgs)
         \/ IsAbout(t, "remove_header", EditedArgs)
         \/ IsAbout(t, "read_body", BodySizes)
         \/ IsAbout(t, "get_source_addr", NoArgs)
<1>1. ASSUME NEW fn, NEW args
      PROVE  t \in About(fn, args) => IsAbout(t, fn, args)
  BY DEF About, IsAbout
<1> QED
  BY <1>1 DEF AllTests

LEMMA ArgsOf ==
  ASSUME NEW t \in AllTests
  PROVE  /\ t.fn = "get_method" => t.arg \in Methods
         /\ t.fn \in {"get_uri", "set_uri"} => t.arg \in UriArgs
         /\ t.fn = "get_header_values" => t.arg \in KeyArgs
         /\ t.fn \in {"set_header_value", "add_header_value", "remove_header"} =>
              t.arg \in EditedArgs
         /\ t.fn = "read_body" => t.arg \in BodySizes
BY ArgOf DEF IsAbout

LEMMA FieldsAre ==
  Field = {"Single-Header", "not-header", "multi-header", "new-header", "existing-header",
           "A-Header", "B-Header"}
<1>1. {Keys[i] : i \in DOMAIN Keys} = KeyArgs
  BY DEF Keys, KeyArgs
<1>2. {Edited[i] : i \in DOMAIN Edited} = EditedArgs
  BY DEF Edited, EditedArgs
<1> QED
  BY <1>1, <1>2 DEF Field, Canonical, KeyArgs, EditedArgs

Values == {"value", "value1", "value2", "2", "bear"}

LEMMA FieldsTyped ==
  /\ Fields = [Field -> Seq(Values)]
  /\ NoFields \in Fields
  /\ \A h \in Fields : \A f : \A v \in Seq(Values) : [h EXCEPT ![f] = v] \in Fields
<1>1. <<>> \in Seq(Values)
  OBVIOUS
<1> QED
  BY <1>1 DEF NoFields, Fields, Values

LEMMA UrisAre ==
  /\ UriArgs = {<<"/simple", "">>, <<"/simple%26clean", "">>, <<"/animal", "name=panda">>,
                <<"/disney", "name=chip%26dale">>}
  /\ Uri = {NoUri, <<"/", "">>, <<"/get_protocol_version", "">>} \cup UriArgs
<1>1. {Uris[i] : i \in DOMAIN Uris} = UriArgs
  <2>1. DOMAIN Uris = 1 .. 4
    BY DEF Uris
  <2> QED
    BY <2>1 DEF UriArgs
<1>2. /\ Uris[1] = <<"/simple", "">> /\ Uris[2] = <<"/simple%26clean", "">>
      /\ Uris[3] = <<"/animal", "name=panda">> /\ Uris[4] = <<"/disney", "name=chip%26dale">>
  BY DEF Uris
<1> QED
  BY <1>1, <1>2 DEF Uri, UriArgs

LEMMA SentTyped ==
  ASSUME NEW t \in AllTests
  PROVE  FieldsSent(t) \in Fields
<1>1. ASSUME NEW a \in Values
      PROVE  <<a>> \in Seq(Values)
  OBVIOUS
<1>2. ASSUME NEW a \in Values, NEW b \in Values
      PROVE  <<a, b>> \in Seq(Values)
  OBVIOUS
<1>3. /\ <<>> \in Seq(Values) /\ <<"value1", "value2">> \in Seq(Values)
      /\ <<"value">> \in Seq(Values) /\ <<"value1">> \in Seq(Values)
      /\ <<"2">> \in Seq(Values) /\ <<"bear">> \in Seq(Values)
  <2>1. {"value", "value1", "value2", "2", "bear"} \subseteq Values
    BY DEF Values
  <2> QED
    BY <1>1, <1>2, <2>1
<1>4. ASSUME NEW key
      PROVE  ValuesSent(key) \in Seq(Values)
  BY <1>3 DEF ValuesSent
<1>5. [NoFields EXCEPT !["A-Header"] = <<"value1">>, !["B-Header"] = <<"2">>] \in Fields
  BY <1>3, FieldsTyped
<1> QED
  BY <1>3, <1>4, <1>5, FieldsTyped DEF FieldsSent

LEMMA UriReadBack ==
  ASSUME NEW uri \in UriArgs
  PROVE  GetURI(Parse(uri)) = uri /\ uri # NoUri /\ uri # <<"/", "">>
<1>1. ASSUME NEW path, NEW query, path # ""
      PROVE  GetURI(Parse(<<path, query>>)) = <<path, query>> /\ <<path, query>> # NoUri
  BY <1>1 DEF GetURI, Parse, NoUri
<1>2. PICK path, query : path # "" /\ uri = <<path, query>> /\ path # "/"
  BY UrisAre
<1> QED
  BY <1>1, <1>2

LEMMA RequestTyped ==
  ASSUME NEW t \in AllTests
  PROVE  RequestOf(t) \in Request
<1> DEFINE uri == CASE t.fn = "get_uri" -> t.arg
                    [] t.fn = "get_protocol_version" -> <<"/get_protocol_version", "">>
                    [] OTHER -> <<"/", "">>
           method == CASE t.fn = "get_method" -> t.arg
                       [] t.fn = "read_body" -> "POST"
                       [] OTHER -> "GET"
           body == IF t.fn = "read_body" THEN t.arg ELSE 0
<1>1. t.fn = "get_uri" => t.arg \in Uri
  BY ArgsOf, UrisAre
<1>2. uri \in Uri
  BY <1>1 DEF Uri
<1>3. method \in Method
  <2>1. t.fn = "get_method" => t.arg \in Method
    BY ArgsOf DEF Methods, Method
  <2> QED
    BY <2>1 DEF Method
<1>4. body \in Nat
  BY ArgsOf DEF BodySizes
<1>5. RequestOf(t) = [method |-> method, uri |-> uri, url |-> Parse(uri),
                      fields |-> FieldsSent(t), body |-> body]
  BY DEF RequestOf
<1> HIDE DEF uri, method, body
<1> QED
  BY <1>2, <1>3, <1>4, <1>5, SentTyped DEF Request

LEMMA FirstTyped == NoResponse \in Response /\ NoRequest \in Request
<1>1. NoUri \in Uri /\ "" \in Method /\ "" \in Text
  BY DEF Uri, Method, Text
<1>2. NoResponse \in Response
  BY <1>1, FieldsTyped DEF NoResponse, Response
<1>3. NoRequest \in Request
  BY <1>1, FieldsTyped DEF NoRequest, Request
<1> QED
  BY <1>2, <1>3

-----------------------------------------------------------------------------
(* Responses *)

LEMMA SetHeaderTyped ==
  ASSUME NEW resp \in Response
  PROVE  /\ \A b \in BOOLEAN : SetHeader(resp, "handled", b) \in Response
         /\ \A b \in BOOLEAN : SetHeader(resp, "failed", b) \in Response
         /\ \A m \in Method : SetHeader(resp, "method", m) \in Response
         /\ \A u \in Uri : SetHeader(resp, "uri", u) \in Response
         /\ \A h \in Fields : SetHeader(resp, "fields", h) \in Response
BY DEF SetHeader, Response

LEMMA HeaderValueSet ==
  ASSUME NEW resp \in Response
  PROVE  LET x == SetResponseHeaderValue(resp, "handled")
             y == SetResponseHeaderValue(resp, "failed")
         IN  /\ x \in Response /\ y \in Response
             /\ x.status = resp.status /\ y.status = resp.status
             /\ x.body = resp.body /\ x.sent = resp.sent
             /\ y.header.handled = resp.header.handled
             /\ ~resp.sent /\ Has("SetResponseHeaderValue") => x.header.handled
             /\ ~Has("SetResponseHeaderValue") \/ resp.sent =>
                  x.header.handled = resp.header.handled
<1>1. TRUE \in BOOLEAN
  OBVIOUS
<1>2. SetHeader(resp, "handled", TRUE) \in Response /\ SetHeader(resp, "failed", TRUE) \in Response
  BY <1>1, SetHeaderTyped
<1>3. /\ SetHeader(resp, "handled", TRUE).status = resp.status
      /\ SetHeader(resp, "failed", TRUE).status = resp.status
      /\ SetHeader(resp, "handled", TRUE).body = resp.body
      /\ SetHeader(resp, "handled", TRUE).sent = resp.sent
  BY DEF SetHeader, Response
<1>4. SetHeader(resp, "failed", TRUE).header.handled = resp.header.handled
  BY DEF SetHeader, Response
<1>5. SetHeader(resp, "handled", TRUE).header.handled = IF resp.sent THEN resp.header.handled ELSE TRUE
  BY DEF SetHeader, Response
<1> QED
  BY <1>2, <1>3, <1>4, <1>5 DEF SetResponseHeaderValue

\* A response as the guest leaves it.
LEMMA HandledResponse ==
  LET resp == SetResponseHeaderValue(NoResponse, "handled")
  IN  /\ resp \in Response
      /\ resp.status = 200 /\ ~resp.sent
      /\ resp.header.handled <=> Has("SetResponseHeaderValue")
<1>1. NoResponse \in Response
  BY FirstTyped
<1>2. NoResponse.status = 200 /\ ~NoResponse.sent /\ ~NoResponse.header.handled
  BY DEF NoResponse
<1> QED
  BY <1>1, <1>2, HeaderValueSet

LEMMA StatusSet ==
  LET x == SetStatusCode(NoResponse)
  IN  x \in Response /\ (Has("SetStatusCode") => x.status = 500) /\ ~x.header.handled
<1> DEFINE x == SetStatusCode(NoResponse)
<1>1. NoResponse \in Response
  BY FirstTyped
<1>2. ~NoResponse.sent /\ ~NoResponse.header.handled
  BY DEF NoResponse
<1>3. (~Buffers) \in BOOLEAN
  OBVIOUS
<1>4. CASE Has("SetStatusCode")
  <2> DEFINE z == [NoResponse EXCEPT !.status = 500]
  <2>1. z \in Response /\ z.status = 500 /\ ~z.header.handled
    BY <1>1, <1>2 DEF Response
  <2>2. x = [z EXCEPT !.sent = ~Buffers]
    BY <1>2, <1>4 DEF SetStatusCode
  <2> HIDE DEF x, z
  <2>3. PICK b \in BOOLEAN : x = [z EXCEPT !.sent = b]
    BY <1>3, <2>2, Zenon
  <2>4. x \in Response
    BY <2>1, <2>3 DEF Response
  <2>5. x.status = 500 /\ ~x.header.handled
    BY <2>1, <2>3 DEF Response
  <2>6. x \in Response /\ (Has("SetStatusCode") => x.status = 500) /\ ~x.header.handled
    BY <2>4, <2>5
  <2> QED
    BY <2>6 DEF x
<1>5. CASE ~Has("SetStatusCode")
  BY <1>1, <1>2, <1>5 DEF SetStatusCode
<1> QED
  BY <1>4, <1>5

\* A response as it is after the guest has called fail.
LEMMA FailedResponse ==
  LET resp == SetResponseHeaderValue(Fail(NoResponse), "handled")
  IN  /\ resp \in Response
      /\ Has("SetStatusCode") => resp.status = 500
      /\ resp.header.handled => Has("SetResponseHeaderValue")
<1> DEFINE x == SetStatusCode(NoResponse)
<1>1. x \in Response /\ (Has("SetStatusCode") => x.status = 500) /\ ~x.header.handled
  BY StatusSet
<1> HIDE DEF x
<1> DEFINE y == SetResponseHeaderValue(x, "failed")
<1>2. y \in Response /\ y.status = x.status /\ ~y.header.handled
  BY <1>1, HeaderValueSet
<1> HIDE DEF y
<1>3. LET z == SetResponseHeaderValue(y, "handled")
      IN  z \in Response /\ z.status = y.status
            /\ (~Has("SetResponseHeaderValue") => ~z.header.handled)
  BY <1>2, HeaderValueSet
<1>4. y = Fail(NoResponse)
  BY DEF x, y, Fail
<1> QED
  BY <1>1, <1>2, <1>3, <1>4

LEMMA BodyWritten ==
  ASSUME NEW resp \in Response, NEW text \in Text
  PROVE  LET x == WriteBody(resp, text)
         IN  /\ x \in Response /\ x.status = resp.status
             /\ x.header.handled <=> resp.header.handled
             /\ x.body = IF Has("ResponseBodyWriter") THEN text ELSE resp.body
             /\ x.sent <=> resp.sent \/ (Has("ResponseBodyWriter") /\ ~Buffers)
<1> DEFINE x == WriteBody(resp, text)
<1>1. CASE Has("ResponseBodyWriter")
  <2> DEFINE z == [resp EXCEPT !.body = text]
             sent == resp.sent \/ ~Buffers
  <2>1. /\ z \in Response /\ z.body = text /\ z.status = resp.status
        /\ z.header.handled = resp.header.handled /\ z.sent = resp.sent
    BY DEF Response
  <2>2. x = [z EXCEPT !.sent = sent]
    BY <1>1 DEF WriteBody, Response
  <2>3. sent \in BOOLEAN
    OBVIOUS
  <2> HIDE DEF x, z
  <2>4. PICK b \in BOOLEAN : (b <=> sent) /\ x = [z EXCEPT !.sent = b]
    BY <2>2, <2>3, Zenon
  <2>5. x \in Response
    BY <2>1, <2>4 DEF Response
  <2>6. /\ x.status = z.status /\ x.body = z.body /\ x.sent = b
        /\ x.header.handled = z.header.handled
    BY <2>1, <2>4 DEF Response
  <2> QED
    BY <1>1, <2>1, <2>4, <2>5, <2>6 DEF x
<1>2. CASE ~Has("ResponseBodyWriter")
  BY <1>2 DEF WriteBody
<1> QED
  BY <1>1, <1>2

\* The backend adds what it was asked, and changes nothing else.
LEMMA EchoedResponse ==
  ASSUME NEW resp \in Response, NEW req \in Request
  PROVE  /\ Echoed(resp, req) \in Response
         /\ Echoed(resp, req).status = resp.status /\ Echoed(resp, req).body = resp.body
         /\ Echoed(resp, req).header.handled <=> resp.header.handled
         /\ ~resp.sent =>
              /\ Echoed(resp, req).header.method = req.method
              /\ Echoed(resp, req).header.uri = req.uri
              /\ Echoed(resp, req).header.fields = req.fields
<1> DEFINE x == SetHeader(resp, "method", req.method)
           y == SetHeader(x, "uri", req.uri)
<1>1. req.method \in Method /\ req.uri \in Uri /\ req.fields \in Fields
  BY DEF Request
<1>2. /\ x \in Response
      /\ x.status = resp.status /\ x.body = resp.body /\ x.sent = resp.sent
      /\ x.header.handled <=> resp.header.handled
      /\ ~resp.sent => x.header.method = req.method
  BY <1>1, SetHeaderTyped DEF SetHeader, Response
<1> HIDE DEF x
<1>3. /\ y \in Response
      /\ y.status = x.status /\ y.body = x.body /\ y.sent = x.sent
      /\ y.header.handled <=> x.header.handled
      /\ y.header.method = x.header.method
      /\ ~x.sent => y.header.uri = req.uri
  BY <1>1, <1>2, SetHeaderTyped DEF SetHeader, Response
<1> HIDE DEF y
<1>4. LET z == SetHeader(y, "fields", req.fields)
      IN  /\ z \in Response
          /\ z.status = y.status /\ z.body = y.body
          /\ z.header.handled <=> y.header.handled
          /\ z.header.method = y.header.method /\ z.header.uri = y.header.uri
          /\ ~y.sent => z.header.fields = req.fields
  BY <1>1, <1>3, SetHeaderTyped DEF SetHeader, Response
<1>5. Echoed(resp, req) = SetHeader(y, "fields", req.fields)
  BY DEF Echoed, x, y
<1> QED
  BY <1>2, <1>3, <1>4, <1>5

-----------------------------------------------------------------------------
(* The steps *)

LEMMA OfRun ==
  /\ Len(Run) \in Nat
  /\ \A i \in 1 .. Len(Run) : Run[i] \in AllTests
  /\ \A t \in AllTests : \E i \in 1 .. Len(Run) : Run[i] = t
<1>1. Run \in Seq(AllTests)
  BY RunIsAllTests DEF Lists
<1> HIDE DEF Run
<1>2. \A t \in AllTests : In(t, Run)
  BY RunIsAllTests DEF Lists
<1> QED
  BY <1>1, <1>2 DEF In

LEMMA InitHolds == Init => KitInv
<1> SUFFICES ASSUME Init
             PROVE  KitInv
  OBVIOUS
<1>1. missing \subseteq HostFunction
  <2>1. PICK n \in 0 .. MaxMissing : missing \in kSubset(n, HostFunction)
    BY DEF Init
  <2> QED
    BY <2>1 DEF kSubset
<1>2. TypeOK
  BY <1>1, OfRun, FirstTyped DEF Init, TypeOK
<1>3. InTurn
  BY DEF Init, InTurn
<1>4. ConformingHostPasses /\ ObjectionsAreReported /\ FlawsAreReported
  BY DEF Init, ConformingHostPasses, ObjectionsAreReported, FlawsAreReported
<1> QED
  BY <1>2, <1>3, <1>4 DEF KitInv

\* What a response deserves depends on the host and the test alone.
LEMMA StillDeserved ==
  ASSUME missing' = missing, proto' = proto, k' = k
  PROVE  /\ Deserved(w)' <=> Deserved(w')
         /\ Deserved(Echoed(w, r))' <=> Deserved(Echoed(w', r'))
<1>1. Test' = Test /\ Needs(Test)' = Needs(Test) /\ Flawed(Test)' = Flawed(Test)
  BY DEF Test, Needs, Flawed, Has
<1>2. Deserved(w)' <=> Deserved(w')
  <2>1. Wants(w)' <=> Wants(w')
    BY <1>1, Zenon DEF Wants
  <2>2. CheckResponse(w)' <=> CheckResponse(w')
    BY DEF CheckResponse
  <2> QED
    BY <1>1, <2>1, <2>2 DEF Deserved
<1>3. Deserved(Echoed(w, r))' <=> Deserved(Echoed(w', r'))
  <2>1. Wants(Echoed(w, r))' <=> Wants(Echoed(w', r'))
    BY <1>1, Zenon DEF Wants
  <2>2. CheckResponse(Echoed(w, r))' <=> CheckResponse(Echoed(w', r'))
    BY DEF CheckResponse
  <2> QED
    BY <1>1, <2>1, <2>2 DEF Deserved
<1> QED
  BY <1>2, <1>3

\* While a test is under way, only the response and what the guest and the
\* backend have made of the request matter.
LEMMA UnderWay ==
  ASSUME KitInv, k <= Len(Run), UNCHANGED <<host, k, failed>>,
         at' \in {"backend", "check"}, r' \in Request, w' \in Response,
         objected' \in {objected, objected \cup {k}},
         k \in objected' /\ Has("SetStatusCode") => w'.status = 500,
         at' = "backend" => Deserved(Echoed(w', r')),
         at' = "check" => Deserved(w')
  PROVE  KitInv'
<1> USE DEF KitInv
<1>1. missing' = missing /\ proto' = proto /\ k' = k /\ failed' = failed
  BY DEF host
<1>2. TypeOK'
  BY <1>1 DEF TypeOK
<1>3. InTurn'
  BY <1>1, StillDeserved DEF InTurn, Has
<1>4. ConformingHostPasses'
  BY <1>1 DEF ConformingHostPasses
<1>5. ObjectionsAreReported'
  BY <1>1 DEF ObjectionsAreReported, Has
<1>6. FlawsAreReported'
  BY <1>1 DEF FlawsAreReported, Flawed, Needs, Has
<1> QED
  BY <1>2, <1>3, <1>4, <1>5, <1>6

Getters == {"get_method", "get_uri", "get_header_values", "get_header_names", "read_body",
            "get_source_addr"}

\* In the test of a getter, the guest got what it expects, or it failed.
LEMMA AsExpected ==
  ASSUME KitInv, at = "guest", Test.fn \in Getters, UNCHANGED <<host, k, failed, r, objected>>,
         at' \in {"backend", "check"}, w' = SetResponseHeaderValue(w, "handled"),
         Flawed(Test) => ~Has("SetResponseHeaderValue")
  PROVE  KitInv'
<1>1. k <= Len(Run) /\ w = NoResponse /\ k \notin objected /\ r \in Request
  BY DEF KitInv, InTurn, TypeOK
<1>2. /\ w' \in Response /\ w'.status = 200
      /\ w'.header.handled <=> Has("SetResponseHeaderValue")
  BY <1>1, HandledResponse
<1>3. Wants(w') /\ Wants(Echoed(w', r'))
  BY DEF Wants, Getters
<1>4. /\ Echoed(w', r').status = 200
      /\ Echoed(w', r').header.handled <=> Has("SetResponseHeaderValue")
  BY <1>1, <1>2, EchoedResponse
<1>5. missing \subseteq Unused => Has("SetResponseHeaderValue")
  BY DEF Has, Unused
<1>6. Deserved(w') /\ Deserved(Echoed(w', r'))
  BY <1>2, <1>3, <1>4, <1>5 DEF Deserved, CheckResponse
<1> QED
  BY <1>1, <1>2, <1>6, UnderWay

LEMMA NotAsExpected ==
  ASSUME KitInv, at = "guest", UNCHANGED <<host, k, failed, r>>, objected' = objected \cup {k},
         at' \in {"backend", "check"}, w' = SetResponseHeaderValue(Fail(w), "handled"),
         ~(missing \subseteq Unused),
         Flawed(Test) => ~Has("SetResponseHeaderValue") \/ Has("SetStatusCode")
  PROVE  KitInv'
<1>1. k <= Len(Run) /\ w = NoResponse /\ r \in Request
  BY DEF KitInv, InTurn, TypeOK
<1>2. /\ w' \in Response
      /\ Has("SetStatusCode") => w'.status = 500
      /\ w'.header.handled => Has("SetResponseHeaderValue")
  BY <1>1, FailedResponse
<1>3. /\ Echoed(w', r').status = w'.status
      /\ Echoed(w', r').header.handled <=> w'.header.handled
  BY <1>1, <1>2, EchoedResponse
<1>4. Deserved(w') /\ Deserved(Echoed(w', r'))
  BY <1>2, <1>3 DEF Deserved, CheckResponse
<1> QED
  BY <1>1, <1>2, <1>4, UnderWay

\* In the test of a setter, the guest passes on the request as it leaves it.
LEMMA PassedOn ==
  ASSUME KitInv, at = "guest", UNCHANGED <<host, k, failed, objected>>, at' = "backend",
         r' \in Request, w' = SetResponseHeaderValue(w, "handled"),
         ASSUME NEW resp \in Response,
                resp.header.method = r'.method, resp.header.uri = r'.uri,
                resp.header.fields = r'.fields
         PROVE  /\ missing \subseteq Unused => Wants(resp)
                /\ Flawed(Test) => ~Wants(resp) \/ ~Has("SetResponseHeaderValue")
  PROVE  KitInv'
<1>1. k <= Len(Run) /\ w = NoResponse /\ k \notin objected
  BY DEF KitInv, InTurn, TypeOK
<1>2. /\ w' \in Response /\ w'.status = 200 /\ ~w'.sent
      /\ w'.header.handled <=> Has("SetResponseHeaderValue")
  BY <1>1, HandledResponse
<1> DEFINE resp == Echoed(w', r')
<1>3. /\ resp \in Response /\ resp.status = 200
      /\ resp.header.handled <=> Has("SetResponseHeaderValue")
      /\ resp.header.method = r'.method /\ resp.header.uri = r'.uri
      /\ resp.header.fields = r'.fields
  BY <1>2, EchoedResponse
<1> HIDE DEF resp
<1>4. missing \subseteq Unused => Has("SetResponseHeaderValue")
  BY DEF Has, Unused
<1>5. Deserved(resp)
  BY <1>3, <1>4 DEF Deserved, CheckResponse
<1> QED
  BY <1>1, <1>2, <1>5, UnderWay DEF resp

LEMMA RequestIs ==
  ASSUME NEW t
  PROVE  /\ RequestOf(t).fields = FieldsSent(t)
         /\ t.fn = "get_method" => RequestOf(t).method = t.arg
         /\ t.fn = "get_uri" => RequestOf(t).url = Parse(t.arg)
         /\ t.fn = "read_body" => RequestOf(t).body = t.arg
         /\ t.fn \notin {"get_method", "read_body"} => RequestOf(t).method = "GET"
         /\ t.fn \notin {"get_uri", "get_protocol_version"} => RequestOf(t).uri = <<"/", "">>
<1>1. RequestOf(t).fields = FieldsSent(t)
  BY DEF RequestOf
<1>2. t.fn = "get_method" => RequestOf(t).method = t.arg
  BY DEF RequestOf
<1>3. t.fn = "get_uri" => RequestOf(t).url = Parse(t.arg)
  BY DEF RequestOf
<1>4. t.fn = "read_body" => RequestOf(t).body = t.arg
  BY DEF RequestOf
<1>5. t.fn \notin {"get_method", "read_body"} => RequestOf(t).method = "GET"
  BY DEF RequestOf
<1>6. t.fn \notin {"get_uri", "get_protocol_version"} => RequestOf(t).uri = <<"/", "">>
  BY DEF RequestOf
<1> QED
  BY <1>1, <1>2, <1>3, <1>4, <1>5, <1>6

\* What a step of the guest starts from.
LEMMA GuestsTurn ==
  ASSUME KitInv, NEW fn, Testing(fn)
  PROVE  /\ at = "guest" /\ Has("GetRequestHeaderValues") /\ Test.fn = fn
         /\ k \in 1 .. Len(Run) /\ Test \in AllTests
         /\ r = RequestOf(Test) /\ r \in Request /\ w = NoResponse
<1>1. at = "guest" /\ Has("GetRequestHeaderValues") /\ Test.fn = fn
  BY DEF Testing
<1>2. k \in 1 .. Len(Run)
  BY <1>1, OfRun DEF KitInv, TypeOK, InTurn
<1> QED
  BY <1>1, <1>2, OfRun DEF KitInv, TypeOK, InTurn, Test

\* A test of a getter preserves the invariant if the guest gets what it
\* expects of a host that implements the getter, and does not of one that
\* does not and is required to.
LEMMA Expecting ==
  ASSUME KitInv, NEW fn \in Getters, Testing(fn), NEW ok, NEW nextAnyway, Expects(ok, nextAnyway),
         missing \subseteq Unused => ok,
         Flawed(Test) /\ ok => ~Has("SetResponseHeaderValue"),
         Flawed(Test) => ~Has("SetResponseHeaderValue") \/ Has("SetStatusCode")
  PROVE  KitInv'
<1>1. at = "guest" /\ Test.fn \in Getters
  BY GuestsTurn
<1>2. at' \in {"backend", "check"} /\ UNCHANGED <<host, k, failed, r>>
  BY DEF Expects, Handled
<1>3. CASE ok
  <2>1. w' = SetResponseHeaderValue(w, "handled") /\ objected' = objected
    BY <1>3 DEF Expects, Handled
  <2> QED
    BY <1>1, <1>2, <1>3, <2>1, AsExpected
<1>4. CASE ~ok
  <2>1. w' = SetResponseHeaderValue(Fail(w), "handled") /\ objected' = objected \cup {k}
    BY <1>4 DEF Expects, Handled
  <2> QED
    BY <1>1, <1>2, <1>4, <2>1, NotAsExpected
<1> QED
  BY <1>3, <1>4

LEMMA GetMethodHolds == ASSUME KitInv, TestGetMethod PROVE KitInv'
<1>1. Testing("get_method")
  BY DEF TestGetMethod
<1>2. Test \in AllTests /\ r.method = Test.arg /\ Test.fn = "get_method"
  BY <1>1, GuestsTurn, RequestIs
<1> DEFINE method == IF Has("GetMethod") THEN r.method ELSE "GET"
<1>3. missing \subseteq Unused => method = Test.arg
  BY <1>2 DEF Has, Unused
<1>4. Needs(Test) = {"GetRequestHeaderValues", "SetResponseHeaderValue"} \cup
                      IF Test.arg # "GET" /\ Has("SetStatusCode") THEN {"GetMethod"} ELSE {}
  BY <1>2 DEF Needs
<1>5. Flawed(Test) /\ method = Test.arg => ~Has("SetResponseHeaderValue")
  BY <1>1, <1>4, GuestsTurn DEF Flawed, Has
<1>6. Flawed(Test) => ~Has("SetResponseHeaderValue") \/ Has("SetStatusCode")
  BY <1>1, <1>4, GuestsTurn DEF Flawed, Has
<1>7. Expects(method = Test.arg, TRUE)
  BY DEF TestGetMethod
<1> HIDE DEF method
<1> QED
  BY <1>1, <1>3, <1>5, <1>6, <1>7, Expecting DEF Getters

LEMMA GetURIHolds == ASSUME KitInv, TestGetURI PROVE KitInv'
<1>1. Testing("get_uri")
  BY DEF TestGetURI
<1>2. Test \in AllTests /\ r.url = Parse(Test.arg) /\ Test.fn = "get_uri"
  BY <1>1, GuestsTurn, RequestIs
<1>3. GetURI(r.url) = Test.arg /\ Test.arg # NoUri
  BY <1>2, ArgsOf, UriReadBack
<1> DEFINE uri == IF Has("GetURI") THEN GetURI(r.url) ELSE NoUri
<1>4. missing \subseteq Unused => uri = Test.arg
  BY <1>3 DEF Has, Unused
<1>5. Needs(Test) = {"GetRequestHeaderValues", "SetResponseHeaderValue"} \cup
                      IF Has("SetStatusCode") THEN {"GetURI"} ELSE {}
  BY <1>2 DEF Needs
<1>6. Flawed(Test) /\ uri = Test.arg => ~Has("SetResponseHeaderValue")
  BY <1>1, <1>3, <1>5, GuestsTurn DEF Flawed, Has
<1>7. Flawed(Test) => ~Has("SetResponseHeaderValue") \/ Has("SetStatusCode")
  BY <1>1, <1>5, GuestsTurn DEF Flawed, Has
<1>8. Expects(uri = Test.arg, TRUE)
  BY DEF TestGetURI
<1> HIDE DEF uri
<1> QED
  BY <1>1, <1>4, <1>6, <1>7, <1>8, Expecting DEF Getters

LEMMA GetRequestHeaderHolds == ASSUME KitInv, TestGetRequestHeader PROVE KitInv'
<1>1. Testing("get_header_values")
  BY DEF TestGetRequestHeader
<1>2. /\ Test \in AllTests /\ Test.fn = "get_header_values"
      /\ r.fields = FieldsSent(Test) /\ Test.arg \in KeyArgs
  BY <1>1, GuestsTurn, RequestIs, ArgsOf
<1>3. Canonical(Test.arg) \in Field
  BY <1>2, FieldsAre DEF KeyArgs, Canonical
<1>4. r.fields = [NoFields EXCEPT ![Canonical(Test.arg)] = ValuesSent(Test.arg)]
  BY <1>2 DEF FieldsSent
<1>5. r.fields[Canonical(Test.arg)] = ValuesSent(Test.arg)
  BY <1>3, <1>4 DEF NoFields
<1>6. Needs(Test) = {"GetRequestHeaderValues", "SetResponseHeaderValue"}
  BY <1>2 DEF Needs
<1>7. Flawed(Test) => ~Has("SetResponseHeaderValue")
  BY <1>1, <1>6, GuestsTurn DEF Flawed, Has
<1>8. Expects(r.fields[Canonical(Test.arg)] = ValuesSent(Test.arg), FALSE)
  BY DEF TestGetRequestHeader
<1> QED
  BY <1>1, <1>5, <1>7, <1>8, Expecting DEF Getters

LEMMA GetRequestHeaderNamesHolds == ASSUME KitInv, TestGetRequestHeaderNames PROVE KitInv'
<1>1. Testing("get_header_names")
  BY DEF TestGetRequestHeaderNames
<1>2. Test \in AllTests /\ Test.fn = "get_header_names" /\ r.fields = FieldsSent(Test)
  BY <1>1, GuestsTurn, RequestIs
<1>3. r.fields = [NoFields EXCEPT !["A-Header"] = <<"value1">>, !["B-Header"] = <<"2">>]
  BY <1>2 DEF FieldsSent
<1>4. r.fields["A-Header"] # <<>> /\ r.fields["B-Header"] # <<>>
  BY <1>3, FieldsAre DEF NoFields
<1>5. Lower("A-Header") = "a-header" /\ Lower("B-Header") = "b-header"
  BY DEF Lower
<1> DEFINE names == IF Has("GetRequestHeaderNames")
                    THEN {Lower(f) : f \in {g \in Field : r.fields[g] # <<>>}} ELSE {}
<1>6. Has("GetRequestHeaderNames") <=> {"a-header", "b-header"} \subseteq names
  BY <1>4, <1>5, FieldsAre
<1>7. Expects({"a-header", "b-header"} \subseteq names, FALSE)
  BY DEF TestGetRequestHeaderNames
<1> HIDE DEF names
<1>8. missing \subseteq Unused => {"a-header", "b-header"} \subseteq names
  BY <1>6 DEF Has, Unused
<1>9. Needs(Test) = {"GetRequestHeaderValues", "SetResponseHeaderValue"} \cup
                      IF Has("SetStatusCode") THEN {"GetRequestHeaderNames"} ELSE {}
  BY <1>2 DEF Needs
<1>10. Flawed(Test) /\ {"a-header", "b-header"} \subseteq names => ~Has("SetResponseHeaderValue")
  BY <1>1, <1>6, <1>9, GuestsTurn DEF Flawed, Has
<1>11. Flawed(Test) => ~Has("SetResponseHeaderValue") \/ Has("SetStatusCode")
  BY <1>1, <1>9, GuestsTurn DEF Flawed, Has
<1> QED
  BY <1>1, <1>7, <1>8, <1>10, <1>11, Expecting DEF Getters

LEMMA ReadBodyHolds == ASSUME KitInv, TestReadBody PROVE KitInv'
<1>1. Testing("read_body")
  BY DEF TestReadBody
<1>2. Test \in AllTests /\ Test.fn = "read_body" /\ r.body = Test.arg
  BY <1>1, GuestsTurn, RequestIs
<1> DEFINE body == IF Has("RequestBodyReader") THEN r.body ELSE 0
<1>3. missing \subseteq Unused => body = Test.arg
  BY <1>2 DEF Has, Unused
<1>4. Needs(Test) = {"GetRequestHeaderValues", "SetResponseHeaderValue"} \cup
                      IF Test.arg # 0 /\ Has("SetStatusCode") THEN {"RequestBodyReader"} ELSE {}
  BY <1>2 DEF Needs
<1>5. Flawed(Test) /\ body = Test.arg => ~Has("SetResponseHeaderValue")
  BY <1>1, <1>4, GuestsTurn DEF Flawed, Has
<1>6. Flawed(Test) => ~Has("SetResponseHeaderValue") \/ Has("SetStatusCode")
  BY <1>1, <1>4, GuestsTurn DEF Flawed, Has
<1>7. Expects(body = Test.arg, FALSE)
  BY DEF TestReadBody
<1> HIDE DEF body
<1> QED
  BY <1>1, <1>3, <1>5, <1>6, <1>7, Expecting DEF Getters

LEMMA GetSourceAddrHolds == ASSUME KitInv, TestGetSourceAddr PROVE KitInv'
<1>1. Testing("get_source_addr")
  BY DEF TestGetSourceAddr
<1>2. Test.fn = "get_source_addr"
  BY <1>1, GuestsTurn
<1> DEFINE addr == IF Has("GetSourceAddr") THEN "127.0.0.1" ELSE "1.1.1.1"
<1>3. missing \subseteq Unused => addr = "127.0.0.1"
  BY DEF Has, Unused
<1>4. Needs(Test) = {"GetRequestHeaderValues", "SetResponseHeaderValue"} \cup
                      IF Has("SetStatusCode") THEN {"GetSourceAddr"} ELSE {}
  BY <1>2 DEF Needs
<1>5. Flawed(Test) /\ addr = "127.0.0.1" => ~Has("SetResponseHeaderValue")
  BY <1>1, <1>4, GuestsTurn DEF Flawed, Has
<1>6. Flawed(Test) => ~Has("SetResponseHeaderValue") \/ Has("SetStatusCode")
  BY <1>1, <1>4, GuestsTurn DEF Flawed, Has
<1>7. Expects(addr = "127.0.0.1", FALSE)
  BY DEF TestGetSourceAddr
<1> HIDE DEF addr
<1> QED
  BY <1>1, <1>3, <1>5, <1>6, <1>7, Expecting DEF Getters

LEMMA SetMethodHolds == ASSUME KitInv, TestSetMethod PROVE KitInv'
<1> DEFINE changed == [r EXCEPT !.method = "POST"]
<1>1. /\ Testing("set_method") /\ r' = IF Has("SetMethod") THEN changed ELSE r
      /\ UNCHANGED <<host, k, failed, objected>> /\ at' = "backend"
      /\ w' = SetResponseHeaderValue(w, "handled")
  BY DEF TestSetMethod, TestSet, Handled
<1>2. Test.fn = "set_method" /\ r \in Request /\ r.method = "GET" /\ at = "guest"
  <2>1. Test.fn = "set_method" /\ r \in Request /\ r = RequestOf(Test) /\ at = "guest"
    BY <1>1, GuestsTurn
  <2> QED
    BY <2>1, RequestIs
<1>3. changed \in Request /\ changed.method = "POST"
  BY <1>2 DEF Request, Method
<1> HIDE DEF changed
<1>4. r' \in Request /\ (r'.method = "POST" <=> Has("SetMethod"))
  BY <1>1, <1>2, <1>3
<1>5. \A resp : Wants(resp) <=> resp.header.method = "POST"
  BY <1>2 DEF Wants
<1>6. Needs(Test) = {"GetRequestHeaderValues", "SetResponseHeaderValue", "SetMethod"}
  BY <1>2 DEF Needs
<1>7. Flawed(Test) => ~Has("SetMethod") \/ ~Has("SetResponseHeaderValue")
  BY <1>1, <1>6, GuestsTurn DEF Flawed, Has
<1>8. missing \subseteq Unused => Has("SetMethod")
  BY DEF Has, Unused
<1> QED
  BY <1>1, <1>2, <1>4, <1>5, <1>7, <1>8, PassedOn

LEMMA SetURIHolds == ASSUME KitInv, TestSetURI PROVE KitInv'
<1> DEFINE changed == [r EXCEPT !.uri = Test.arg, !.url = Parse(Test.arg)]
<1>1. /\ Testing("set_uri") /\ r' = IF Has("SetURI") THEN changed ELSE r
      /\ UNCHANGED <<host, k, failed, objected>> /\ at' = "backend"
      /\ w' = SetResponseHeaderValue(w, "handled")
  BY DEF TestSetURI, TestSet, Handled
<1>2. /\ Test \in AllTests /\ Test.fn = "set_uri" /\ r \in Request /\ r.uri = <<"/", "">>
      /\ at = "guest"
  <2>1. /\ Test \in AllTests /\ Test.fn = "set_uri" /\ r \in Request /\ r = RequestOf(Test)
        /\ at = "guest"
    BY <1>1, GuestsTurn
  <2> QED
    BY <2>1, RequestIs
<1>3. Test.arg \in Uri /\ Test.arg # <<"/", "">>
  <2>1. Test.arg \in UriArgs
    BY <1>2, ArgsOf
  <2> QED
    BY <2>1, UrisAre, UriReadBack
<1>4. changed \in Request /\ changed.uri = Test.arg
  <2> DEFINE z == [r EXCEPT !.uri = Test.arg]
  <2>1. z \in Request /\ z.uri = Test.arg
    BY <1>2, <1>3 DEF Request
  <2>2. changed = [z EXCEPT !.url = Parse(Test.arg)]
    BY <1>2 DEF Request
  <2> HIDE DEF z, changed
  <2> QED
    BY <1>3, <2>1, <2>2 DEF Request
<1> HIDE DEF changed
<1>5. r' \in Request /\ (r'.uri = Test.arg <=> Has("SetURI"))
  BY <1>1, <1>2, <1>3, <1>4
<1>6. \A resp : Wants(resp) <=> resp.header.uri = Test.arg
  BY <1>2 DEF Wants
<1>7. Needs(Test) = {"GetRequestHeaderValues", "SetResponseHeaderValue", "SetURI"}
  BY <1>2 DEF Needs
<1>8. Flawed(Test) => ~Has("SetURI") \/ ~Has("SetResponseHeaderValue")
  BY <1>1, <1>7, GuestsTurn DEF Flawed, Has
<1>9. missing \subseteq Unused => Has("SetURI")
  BY DEF Has, Unused
<1> QED
  BY <1>1, <1>2, <1>5, <1>6, <1>8, <1>9, PassedOn

\* What the request of a header's test has, before it is edited.
LEMMA FieldsBefore ==
  ASSUME NEW t \in AllTests, t.fn \in {"set_header_value", "add_header_value", "remove_header"}
  PROVE  /\ t.arg \in {"new-header", "existing-header"}
         /\ FieldsSent(t) \in Fields /\ FieldsSent(t)["new-header"] = <<>>
         /\ FieldsSent(t)["existing-header"] = <<"bear">>
<1>1. FieldsSent(t) = [NoFields EXCEPT !["existing-header"] = <<"bear">>]
  BY DEF FieldsSent
<1>2. t.arg \in EditedArgs
  BY ArgsOf
<1> QED
  BY <1>1, <1>2, FieldsAre, SentTyped DEF NoFields, EditedArgs

\* A header's test preserves the invariant if the backend gets what it wants
\* when the header is edited, and only then.
LEMMA Editing ==
  ASSUME KitInv, NEW test \in {"set_header_value", "add_header_value", "remove_header"},
         NEW fn, fn \notin Unused, NEW edited \in Fields,
         TestSet(test, fn, [r EXCEPT !.fields = edited]),
         Needs(Test) \subseteq {"GetRequestHeaderValues", "SetResponseHeaderValue", fn},
         \A resp \in Response : resp.header.fields = edited => Wants(resp),
         fn \in Needs(Test) =>
           \A resp \in Response : resp.header.fields = FieldsSent(Test) => ~Wants(resp)
  PROVE  KitInv'
<1> DEFINE changed == [r EXCEPT !.fields = edited]
<1>1. /\ Testing(test) /\ r' = IF Has(fn) THEN changed ELSE r
      /\ UNCHANGED <<host, k, failed, objected>> /\ at' = "backend"
      /\ w' = SetResponseHeaderValue(w, "handled")
  BY DEF TestSet, Handled
<1>2. at = "guest" /\ Test.fn = test /\ r \in Request /\ r.fields = FieldsSent(Test)
  BY <1>1, GuestsTurn, RequestIs
<1>3. changed \in Request /\ changed.fields = edited
  BY <1>2 DEF Request
<1> HIDE DEF changed
<1>4. r' \in Request /\ r'.fields = IF Has(fn) THEN edited ELSE FieldsSent(Test)
  BY <1>1, <1>2, <1>3
<1>5. Flawed(Test) => (fn \in Needs(Test) /\ ~Has(fn)) \/ ~Has("SetResponseHeaderValue")
  BY <1>1, GuestsTurn DEF Flawed, Has
<1>6. missing \subseteq Unused => Has(fn)
  BY DEF Has
<1> QED
  BY <1>1, <1>2, <1>4, <1>5, <1>6, PassedOn

LEMMA SetRequestHeaderHolds == ASSUME KitInv, TestSetRequestHeader PROVE KitInv'
<1> DEFINE sent == FieldsSent(Test)
           edited == [sent EXCEPT ![Test.arg] = <<"value">>]
<1>1. Testing("set_header_value")
  BY DEF TestSetRequestHeader, TestSet
<1>2. Test \in AllTests /\ Test.fn = "set_header_value" /\ r.fields = sent
  BY <1>1, GuestsTurn, RequestIs
<1>3. /\ Test.arg \in {"new-header", "existing-header"} /\ Test.arg \in Field /\ sent \in Fields
      /\ sent[Test.arg] \in {<<>>, <<"bear">>}
  BY <1>2, FieldsBefore, FieldsAre
<1>4. edited \in Fields /\ edited[Test.arg] = <<"value">>
  <2>1. <<"value">> \in Seq(Values)
    BY DEF Values
  <2> QED
    BY <1>3, <2>1, FieldsTyped
<1>5. TestSet("set_header_value", "SetRequestHeaderValue", [r EXCEPT !.fields = edited])
  BY <1>2 DEF TestSetRequestHeader
<1> HIDE DEF edited
<1>6. \A resp : Wants(resp) <=> First(resp.header.fields[Test.arg]) = "value"
  BY <1>2 DEF Wants
<1>7. First(<<"value">>) = "value" /\ First(<<>>) # "value" /\ First(<<"bear">>) # "value"
  BY DEF First
<1>8. /\ \A resp \in Response : resp.header.fields = edited => Wants(resp)
      /\ \A resp \in Response : resp.header.fields = sent => ~Wants(resp)
  BY <1>3, <1>4, <1>6, <1>7
<1>9. Needs(Test) = {"GetRequestHeaderValues", "SetResponseHeaderValue", "SetRequestHeaderValue"}
  BY <1>2 DEF Needs
<1>10. "SetRequestHeaderValue" \notin Unused
  BY DEF Unused
<1> QED
  BY <1>4, <1>5, <1>8, <1>9, <1>10, Editing

LEMMA AppendToOne ==
  ASSUME NEW a, NEW b
  PROVE  Append(<<a>>, b) = <<a, b>>
<1> DEFINE S == {a, b}
           s == <<a>>
           t == <<a, b>>
<1>1. s \in Seq(S) /\ Len(s) = 1 /\ s[1] = a /\ b \in S
  OBVIOUS
<1>2. t \in Seq(S) /\ Len(t) = 2 /\ t[1] = a /\ t[2] = b
  OBVIOUS
<1> HIDE DEF S, s, t
<1> DEFINE u == Append(s, b)
<1>3. /\ u \in Seq(S) /\ Len(u) = Len(s) + 1 /\ u[Len(s) + 1] = b
      /\ \A i \in 1 .. Len(s) : u[i] = s[i]
  <2>1. u \in Seq(S)
    BY <1>1, AppendProperties
  <2>2. Len(u) = Len(s) + 1 /\ \A i \in 1 .. Len(s) : u[i] = s[i]
    BY <1>1, AppendProperties
  <2>3. u[Len(s) + 1] = b
    BY <1>1, AppendProperties
  <2> QED
    BY <2>1, <2>2, <2>3
<1> HIDE DEF u
<1>4. Len(u) = 2 /\ u[1] = a /\ u[2] = b
  BY <1>1, <1>3
<1>5. \A i \in 1 .. Len(u) : u[i] = t[i]
  BY <1>2, <1>4
<1>6. u = t
  BY <1>2, <1>3, <1>4, <1>5, SeqEqual
<1> QED
  BY <1>6 DEF s, t, u

LEMMA AddRequestHeaderHolds == ASSUME KitInv, TestAddRequestHeader PROVE KitInv'
<1> DEFINE sent == FieldsSent(Test)
           edited == [sent EXCEPT ![Test.arg] = Append(@, "value")]
<1>1. Testing("add_header_value")
  BY DEF TestAddRequestHeader, TestSet
<1>2. Test \in AllTests /\ Test.fn = "add_header_value" /\ r.fields = sent
  BY <1>1, GuestsTurn, RequestIs
<1>3. /\ Test.arg \in {"new-header", "existing-header"} /\ Test.arg \in Field /\ sent \in Fields
      /\ sent[Test.arg] = IF Test.arg = "new-header" THEN <<>> ELSE <<"bear">>
  BY <1>2, FieldsBefore, FieldsAre
<1> DEFINE wanted == IF Test.arg = "new-header" THEN <<"value">> ELSE <<"bear", "value">>
<1>4. wanted \in Seq(Values) /\ Append(sent[Test.arg], "value") = wanted /\ sent[Test.arg] # wanted
  <2>1. <<"value">> \in Seq(Values) /\ <<"bear", "value">> \in Seq(Values)
    <3>1. "value" \in Values /\ "bear" \in Values
      BY DEF Values
    <3> QED
      BY <3>1
  <2>3. Append(<<>>, "value") = <<"value">> /\ Append(<<"bear">>, "value") = <<"bear", "value">>
    <3>1. \A b : Append(<<>>, b) = <<b>>
      OBVIOUS
    <3> QED
      BY <3>1, AppendToOne, Zenon
  <2>2. <<>> # <<"value">> /\ <<"bear">> # <<"bear", "value">>
    OBVIOUS
  <2> QED
    BY <1>3, <2>1, <2>2, <2>3
<1>5. edited \in Fields /\ edited[Test.arg] = wanted
  BY <1>3, <1>4, FieldsTyped
<1>6. TestSet("add_header_value", "AddRequestHeaderValue", [r EXCEPT !.fields = edited])
  BY <1>2 DEF TestAddRequestHeader
<1>7. \A resp : Wants(resp) <=> resp.header.fields[Test.arg] = wanted
  BY <1>2 DEF Wants
<1> HIDE DEF edited, wanted
<1>8. /\ \A resp \in Response : resp.header.fields = edited => Wants(resp)
      /\ \A resp \in Response : resp.header.fields = sent => ~Wants(resp)
  BY <1>4, <1>5, <1>7
<1>9. Needs(Test) = {"GetRequestHeaderValues", "SetResponseHeaderValue", "AddRequestHeaderValue"}
  BY <1>2 DEF Needs
<1>10. "AddRequestHeaderValue" \notin Unused
  BY DEF Unused
<1> QED
  BY <1>5, <1>6, <1>8, <1>9, <1>10, Editing

LEMMA RemoveRequestHeaderHolds == ASSUME KitInv, TestRemoveRequestHeader PROVE KitInv'
<1> DEFINE sent == FieldsSent(Test)
           edited == [sent EXCEPT ![Test.arg] = <<>>]
           wanted == IF Test.arg = "existing-header" THEN "" ELSE "bear"
<1>1. Testing("remove_header")
  BY DEF TestRemoveRequestHeader, TestSet
<1>2. Test \in AllTests /\ Test.fn = "remove_header" /\ r.fields = sent
  BY <1>1, GuestsTurn, RequestIs
<1>3. /\ Test.arg \in {"new-header", "existing-header"} /\ Test.arg \in Field /\ sent \in Fields
      /\ sent["existing-header"] = <<"bear">> /\ "existing-header" \in Field
  BY <1>2, FieldsBefore, FieldsAre
<1>4. /\ edited \in Fields
      /\ edited["existing-header"] = IF Test.arg = "existing-header" THEN <<>> ELSE <<"bear">>
  <2>1. <<>> \in Seq(Values)
    OBVIOUS
  <2> QED
    BY <1>3, <2>1, FieldsTyped
<1>5. TestSet("remove_header", "RemoveRequestHeader", [r EXCEPT !.fields = edited])
  BY <1>2 DEF TestRemoveRequestHeader
<1> HIDE DEF edited
<1>6. \A resp : Wants(resp) <=> First(resp.header.fields["existing-header"]) = wanted
  BY <1>2 DEF Wants
<1>7. First(<<>>) = "" /\ First(<<"bear">>) = "bear"
  BY DEF First
<1>8. \A resp \in Response : resp.header.fields = edited => Wants(resp)
  BY <1>4, <1>6, <1>7
<1>9. Needs(Test) = {"GetRequestHeaderValues", "SetResponseHeaderValue"} \cup
                      IF Test.arg = "existing-header" THEN {"RemoveRequestHeader"} ELSE {}
  BY <1>2 DEF Needs
<1>10. "RemoveRequestHeader" \in Needs(Test) =>
         \A resp \in Response : resp.header.fields = sent => ~Wants(resp)
  BY <1>3, <1>6, <1>7, <1>9
<1>11. "RemoveRequestHeader" \notin Unused
  BY DEF Unused
<1> QED
  BY <1>4, <1>5, <1>8, <1>9, <1>10, <1>11, Editing

LEMMA MissingTestIDHolds == ASSUME KitInv, MissingTestID PROVE KitInv'
<1>1. /\ at = "guest" /\ k <= Len(Run) /\ k \notin objected /\ w = NoResponse /\ r \in Request
      /\ at' = "check" /\ UNCHANGED <<host, k, r, failed, objected>>
  BY DEF KitInv, InTurn, TypeOK, MissingTestID
<1> DEFINE x == SetStatusCode(w)
           text == "missing x-httpwasm-tck-testid header"
<1>2. x \in Response /\ ~x.header.handled
  BY <1>1, StatusSet
<1>3. w' = WriteBody(x, text)
  BY DEF MissingTestID
<1> HIDE DEF x
<1>4. w' \in Response /\ ~w'.header.handled
  BY <1>2, <1>3, BodyWritten DEF Text
<1>5. ~(missing \subseteq Unused)
  BY DEF MissingTestID, Has, Unused
<1>6. Deserved(w')
  BY <1>4, <1>5 DEF Deserved, CheckResponse
<1> QED
  BY <1>1, <1>4, <1>6, UnderWay

LEMMA GetProtocolVersionHolds == ASSUME KitInv, TestGetProtocolVersion PROVE KitInv'
<1> DEFINE text == IF Has("GetProtocolVersion") THEN proto ELSE "HTTP/1.1"
           x == WriteBody(w, text)
<1>1. /\ Testing("get_protocol_version") /\ at' = "backend"
      /\ UNCHANGED <<host, k, r, failed, objected>>
      /\ w' = SetResponseHeaderValue(x, "handled")
  BY DEF TestGetProtocolVersion, Handled
<1>2. /\ at = "guest" /\ Test.fn = "get_protocol_version" /\ k <= Len(Run) /\ k \notin objected
      /\ w = NoResponse /\ r \in Request /\ proto \in Protocols
  BY <1>1, GuestsTurn DEF KitInv, TypeOK, InTurn
<1>3. text \in Text
  BY <1>2 DEF Text
<1>4. w.body = "" /\ ~w.sent /\ ~w.header.handled /\ w \in Response /\ w.status = 200
  BY <1>2, FirstTyped DEF NoResponse
<1>5. proto # ""
  BY <1>2, ProtocolsAssumption
<1>6. /\ x \in Response /\ x.body = IF Has("ResponseBodyWriter") THEN text ELSE ""
      /\ ~x.header.handled /\ x.status = 200
      /\ x.sent <=> Has("ResponseBodyWriter") /\ ~Has("EnableFeatures")
  <2> HIDE DEF text
  <2>1. /\ x \in Response /\ x.status = w.status
        /\ x.header.handled <=> w.header.handled
        /\ x.body = IF Has("ResponseBodyWriter") THEN text ELSE w.body
        /\ x.sent <=> w.sent \/ (Has("ResponseBodyWriter") /\ ~Buffers)
    BY <1>3, <1>4, BodyWritten
  <2> HIDE DEF x
  <2> QED
    BY <1>4, <2>1 DEF Buffers
<1>7. text = proto <=> Has("GetProtocolVersion") \/ proto = "HTTP/1.1"
  OBVIOUS
<1> HIDE DEF x, text
<1>8. /\ w' \in Response /\ w'.body = x.body /\ w'.status = 200
      /\ w'.header.handled <=> Has("SetResponseHeaderValue") /\ ~x.sent
  BY <1>1, <1>6, HeaderValueSet
<1> DEFINE resp == Echoed(w', r')
<1>9. /\ resp.body = x.body /\ resp.status = 200
      /\ resp.header.handled <=> Has("SetResponseHeaderValue") /\ ~x.sent
  BY <1>1, <1>2, <1>8, EchoedResponse
<1> HIDE DEF resp
<1>10. Wants(resp) <=> resp.body = proto
  BY <1>2 DEF Wants
<1>11. /\ missing \subseteq Unused =>
            /\ Has("SetResponseHeaderValue") /\ Has("ResponseBodyWriter")
            /\ Has("EnableFeatures") /\ Has("GetProtocolVersion")
  BY DEF Has, Unused
<1>12. Needs(Test) = {"GetRequestHeaderValues", "SetResponseHeaderValue"} \cup
         ({"ResponseBodyWriter", "EnableFeatures"} \cup
            IF proto = "HTTP/1.1" THEN {} ELSE {"GetProtocolVersion"})
  BY <1>2 DEF Needs
<1>13. Flawed(Test) =>
         \/ ~Has("SetResponseHeaderValue") \/ ~Has("ResponseBodyWriter") \/ ~Has("EnableFeatures")
         \/ proto # "HTTP/1.1" /\ ~Has("GetProtocolVersion")
  BY <1>1, <1>12, GuestsTurn DEF Flawed, Has
<1>14. Deserved(resp)
  <2>1. CheckResponse(resp) <=>
          Has("SetResponseHeaderValue") /\ ~(Has("ResponseBodyWriter") /\ ~Has("EnableFeatures"))
    <3>1. CheckResponse(resp) <=> resp.header.handled
      BY <1>9 DEF CheckResponse
    <3>2. resp.header.handled <=> Has("SetResponseHeaderValue") /\ ~x.sent
      BY <1>9
    <3>3. x.sent <=> Has("ResponseBodyWriter") /\ ~Has("EnableFeatures")
      BY <1>6
    <3> QED
      BY <3>1, <3>2, <3>3, Zenon
  <2>2. Wants(resp) <=>
          Has("ResponseBodyWriter") /\ (Has("GetProtocolVersion") \/ proto = "HTTP/1.1")
    <3>1. Wants(resp) <=> x.body = proto
      BY <1>9, <1>10
    <3>2. x.body = proto <=> Has("ResponseBodyWriter") /\ text = proto
      BY <1>5, <1>6
    <3> QED
      BY <1>7, <3>1, <3>2, Zenon
  <2> QED
    BY <1>11, <1>13, <2>1, <2>2, Zenon DEF Deserved
<1> QED
  BY <1>1, <1>2, <1>8, <1>14, UnderWay DEF resp

LEMMA DoHolds == ASSUME KitInv, Do PROVE KitInv'
<1>1. /\ at = "runner" /\ k <= Len(Run) /\ at' = "guest" /\ r' = RequestOf(Test) /\ w' = NoResponse
      /\ missing' = missing /\ proto' = proto /\ k' = k /\ failed' = failed /\ objected' = objected
  BY DEF Do, host
<1>2. k \in 1 .. Len(Run) /\ Test \in AllTests /\ k \notin objected
  BY <1>1, OfRun DEF KitInv, TypeOK, InTurn, Test
<1>3. TypeOK'
  BY <1>1, <1>2, RequestTyped, FirstTyped DEF KitInv, TypeOK
<1>4. Test' = Test
  BY <1>1 DEF Test
<1>5. InTurn'
  BY <1>1, <1>2, <1>4 DEF InTurn
<1>6. (ConformingHostPasses /\ ObjectionsAreReported /\ FlawsAreReported)'
  BY <1>1 DEF KitInv, ConformingHostPasses, ObjectionsAreReported, FlawsAreReported, Flawed, Needs,
              Has
<1> QED
  BY <1>3, <1>5, <1>6 DEF KitInv

LEMMA DoFailsHolds == ASSUME KitInv, DoFails PROVE KitInv'
<1>1. /\ at' = "panicked" /\ missing' = missing /\ proto' = proto /\ k' = k /\ failed' = failed
      /\ objected' = objected /\ r' = r /\ w' = w
  BY DEF DoFails, host
<1>2. TypeOK'
  BY <1>1 DEF KitInv, TypeOK
<1>3. InTurn'
  BY <1>1 DEF InTurn
<1>4. (ConformingHostPasses /\ ObjectionsAreReported /\ FlawsAreReported)'
  BY <1>1 DEF KitInv, ConformingHostPasses, ObjectionsAreReported, FlawsAreReported, Flawed, Needs,
              Has
<1> QED
  BY <1>2, <1>3, <1>4 DEF KitInv

LEMMA BackendHandlerHolds == ASSUME KitInv, BackendHandler PROVE KitInv'
<1>1. /\ at = "backend" /\ at' = "check" /\ w' = Echoed(w, r)
      /\ UNCHANGED <<host, k, r, failed, objected>>
  BY DEF BackendHandler
<1>2. /\ k <= Len(Run) /\ w \in Response /\ r \in Request /\ Deserved(w')
      /\ k \in objected /\ Has("SetStatusCode") => w.status = 500
  BY <1>1 DEF KitInv, TypeOK, InTurn
<1>3. w' \in Response /\ w'.status = w.status
  BY <1>1, <1>2, EchoedResponse
<1> QED
  BY <1>1, <1>2, <1>3, UnderWay

\* The verdict of a test is the one its response deserves.
LEMMA CheckHolds == ASSUME KitInv, Check PROVE KitInv'
<1> DEFINE passes == CheckResponse(w) /\ Wants(w)
<1>1. /\ at = "check" /\ at' = "runner" /\ k' = k + 1 /\ r' = r /\ w' = w /\ objected' = objected
      /\ missing' = missing /\ proto' = proto
      /\ failed' = IF passes THEN failed ELSE failed \cup {k}
  BY DEF Check, host
<1>2. k \in 1 .. Len(Run) /\ Len(Run) \in Nat
  BY <1>1, OfRun DEF KitInv, TypeOK, InTurn
<1>3. /\ missing \subseteq Unused => passes
      /\ Flawed(Test) => ~passes
      /\ k \in objected /\ Has("SetStatusCode") => ~passes
  BY <1>1 DEF KitInv, InTurn, Deserved, CheckResponse
<1> HIDE DEF passes
<1>4. TypeOK'
  BY <1>1, <1>2 DEF KitInv, TypeOK
<1>5. InTurn'
  BY <1>1, <1>2 DEF KitInv, TypeOK, InTurn
<1>6. ConformingHostPasses'
  BY <1>1, <1>3 DEF KitInv, ConformingHostPasses
<1>7. ObjectionsAreReported'
  BY <1>1, <1>3 DEF KitInv, ObjectionsAreReported, Has
<1>8. FlawsAreReported'
  <2> SUFFICES ASSUME NEW i \in 1 .. k, Flawed(Run[i])
               PROVE  i \in failed'
    BY <1>1, <1>2 DEF FlawsAreReported, Flawed, Needs, Has
  <2>1. CASE i = k
    BY <1>1, <1>3, <2>1 DEF Test
  <2>2. CASE i \in 1 .. k - 1
    BY <1>1, <2>2 DEF KitInv, FlawsAreReported
  <2> QED
    BY <1>2, <2>1, <2>2
<1> QED
  BY <1>4, <1>5, <1>6, <1>7, <1>8 DEF KitInv

\* The invariant of the kit is inductive.
LEMMA NextHolds == KitInv /\ [Next]_vars => KitInv'
<1> SUFFICES ASSUME KitInv, [Next]_vars
             PROVE  KitInv'
  OBVIOUS
<1>1. CASE Do \/ DoFails \/ Check \/ MissingTestID \/ BackendHandler
  BY <1>1, DoHolds, DoFailsHolds, CheckHolds, MissingTestIDHolds, BackendHandlerHolds
<1>2. CASE TestGetProtocolVersion \/ TestGetMethod \/ TestGetURI \/ TestGetRequestHeader
             \/ TestGetRequestHeaderNames \/ TestReadBody \/ TestGetSourceAddr
  BY <1>2, GetProtocolVersionHolds, GetMethodHolds, GetURIHolds, GetRequestHeaderHolds,
     GetRequestHeaderNamesHolds, ReadBodyHolds, GetSourceAddrHolds
<1>3. CASE TestSetMethod \/ TestSetURI \/ TestSetRequestHeader \/ TestAddRequestHeader
             \/ TestRemoveRequestHeader
  BY <1>3, SetMethodHolds, SetURIHolds, SetRequestHeaderHolds, AddRequestHeaderHolds,
     RemoveRequestHeaderHolds
<1>4. CASE UNCHANGED vars
  <2>1. /\ missing' = missing /\ proto' = proto /\ k' = k /\ at' = at /\ r' = r /\ w' = w
        /\ failed' = failed /\ objected' = objected
    BY <1>4 DEF vars
  <2>2. TypeOK'
    BY <2>1 DEF KitInv, TypeOK
  <2>3. InTurn'
    BY <2>1, StillDeserved DEF KitInv, InTurn, Test, Has
  <2>4. (ConformingHostPasses /\ ObjectionsAreReported /\ FlawsAreReported)'
    BY <2>1 DEF KitInv, ConformingHostPasses, ObjectionsAreReported, FlawsAreReported, Flawed,
                Needs, Has
  <2> QED
    BY <2>2, <2>3, <2>4 DEF KitInv
<1> QED
  BY <1>1, <1>2, <1>3, <1>4 DEF Next

LEMMA AlwaysKitInv == Spec => []KitInv
BY InitHolds, NextHolds, PTL DEF Spec

-----------------------------------------------------------------------------
(* The theorems *)

\* The kit's state is of its type, whatever the host does not implement.
THEOREM TypeCorrect == Spec => []TypeOK
<1>1. KitInv => TypeOK
  BY DEF KitInv
<1> QED
  BY <1>1, AlwaysKitInv, PTL

\* The kit finds nothing wrong with a host that implements all it exercises
\* (testRunner.checkResponse reports no test of it).
THEOREM ConformingPasses == Spec => []ConformingHostPasses
<1>1. KitInv => ConformingHostPasses
  BY DEF KitInv
<1> QED
  BY <1>1, AlwaysKitInv, PTL

\* A test in which the guest called fail is reported by the runner, of any host
\* that can set a status code.
THEOREM FailsAreReported == Spec => []ObjectionsAreReported
<1>1. KitInv => ObjectionsAreReported
  BY DEF KitInv
<1> QED
  BY <1>1, AlwaysKitInv, PTL

\* For each function that the verdict is about, a test that needs it.
LEMMA EachIsTested ==
  /\ \A fn \in SeenByRunner : \E t \in AllTests : fn \in Needs(t)
  /\ Has("SetStatusCode") => \A fn \in RequestGetters : \E t \in AllTests : fn \in Needs(t)
<1> DEFINE T(fn, arg) == [fn |-> fn, arg |-> arg]
<1>1. /\ T("get_protocol_version", "") \in AllTests /\ T("set_method", "") \in AllTests
      /\ T("get_header_names", "") \in AllTests /\ T("get_source_addr", "") \in AllTests
  BY DEF AllTests, About, NoArgs
<1>2. T("get_method", "POST") \in AllTests /\ T("read_body", 5) \in AllTests
  BY DEF AllTests, About, Methods, BodySizes
<1>3. T("get_uri", Uris[1]) \in AllTests /\ T("set_uri", Uris[1]) \in AllTests
  BY DEF AllTests, About, UriArgs
<1>4. /\ T("set_header_value", "existing-header") \in AllTests
      /\ T("add_header_value", "existing-header") \in AllTests
      /\ T("remove_header", "existing-header") \in AllTests
  BY DEF AllTests, About, EditedArgs
<1> HIDE DEF T
<1>5. \A fn, arg : T(fn, arg).fn = fn /\ T(fn, arg).arg = arg
  BY DEF T
<1>6. \A t : {"GetRequestHeaderValues", "SetResponseHeaderValue"} \subseteq Needs(t)
  BY DEF Needs
<1>7. LET t == T("get_protocol_version", "")
      IN  /\ "ResponseBodyWriter" \in Needs(t) /\ "EnableFeatures" \in Needs(t)
          /\ proto # "HTTP/1.1" => "GetProtocolVersion" \in Needs(t)
  <2>1. ASSUME NEW t, t.fn = "get_protocol_version"
        PROVE  /\ "ResponseBodyWriter" \in Needs(t) /\ "EnableFeatures" \in Needs(t)
               /\ proto # "HTTP/1.1" => "GetProtocolVersion" \in Needs(t)
    BY <2>1 DEF Needs
  <2> QED
    BY <1>5, <2>1
<1>8. "SetMethod" \in Needs(T("set_method", "")) /\ "SetURI" \in Needs(T("set_uri", Uris[1]))
  <2>1. \A t : t.fn = "set_method" => "SetMethod" \in Needs(t)
    BY DEF Needs
  <2>2. \A t : t.fn = "set_uri" => "SetURI" \in Needs(t)
    BY DEF Needs
  <2> QED
    BY <1>5, <2>1, <2>2
<1>9. /\ "SetRequestHeaderValue" \in Needs(T("set_header_value", "existing-header"))
      /\ "AddRequestHeaderValue" \in Needs(T("add_header_value", "existing-header"))
      /\ "RemoveRequestHeader" \in Needs(T("remove_header", "existing-header"))
  BY <1>5 DEF Needs
<1>10. Has("SetStatusCode") =>
         /\ "GetMethod" \in Needs(T("get_method", "POST"))
         /\ "GetURI" \in Needs(T("get_uri", Uris[1]))
         /\ "GetRequestHeaderNames" \in Needs(T("get_header_names", ""))
         /\ "RequestBodyReader" \in Needs(T("read_body", 5))
         /\ "GetSourceAddr" \in Needs(T("get_source_addr", ""))
  <2> SUFFICES ASSUME Has("SetStatusCode")
               PROVE  /\ "GetMethod" \in Needs(T("get_method", "POST"))
                      /\ "GetURI" \in Needs(T("get_uri", Uris[1]))
                      /\ "GetRequestHeaderNames" \in Needs(T("get_header_names", ""))
                      /\ "RequestBodyReader" \in Needs(T("read_body", 5))
                      /\ "GetSourceAddr" \in Needs(T("get_source_addr", ""))
    OBVIOUS
  <2>1. \A t : t.fn = "get_method" /\ t.arg # "GET" => "GetMethod" \in Needs(t)
    BY DEF Needs
  <2>2. \A t : t.fn = "get_uri" => "GetURI" \in Needs(t)
    BY DEF Needs
  <2>3. \A t : t.fn = "get_header_names" => "GetRequestHeaderNames" \in Needs(t)
    BY DEF Needs
  <2>4. \A t : t.fn = "read_body" /\ t.arg # 0 => "RequestBodyReader" \in Needs(t)
    BY DEF Needs
  <2>5. \A t : t.fn = "get_source_addr" => "GetSourceAddr" \in Needs(t)
    BY DEF Needs
  <2>6. /\ "GetMethod" \in Needs(T("get_method", "POST"))
        /\ "RequestBodyReader" \in Needs(T("read_body", 5))
    BY <1>5, <2>1, <2>4
  <2> QED
    BY <1>5, <2>2, <2>3, <2>5, <2>6
<1>11. ASSUME NEW fn \in SeenByRunner
       PROVE  \E t \in AllTests : fn \in Needs(t)
  <2>1. CASE fn \in RequestSetters
    BY <1>1, <1>3, <1>4, <1>8, <1>9, <2>1 DEF RequestSetters
  <2>2. CASE fn \in Carriers
    BY <1>1, <1>6, <1>7, <2>2 DEF Carriers
  <2>3. CASE proto # "HTTP/1.1" /\ fn = "GetProtocolVersion"
    BY <1>1, <1>7, <2>3
  <2> QED
    BY <2>1, <2>2, <2>3 DEF SeenByRunner
<1>12. ASSUME Has("SetStatusCode"), NEW fn \in RequestGetters
       PROVE  \E t \in AllTests : fn \in Needs(t)
  BY <1>1, <1>2, <1>3, <1>10, <1>12 DEF RequestGetters
<1> QED
  BY <1>11, <1>12

\* A host that passes every test implements all that the runner can see, and
\* the getters that only the guest can see if the host can set a status code.
THEOREM PassingConforms == Spec => []PassingHostConforms
<1>1. KitInv => PassingHostConforms
  <2> SUFFICES ASSUME KitInv, k > Len(Run), failed = {}
               PROVE  /\ missing \cap SeenByRunner = {}
                      /\ Has("SetStatusCode") => missing \cap RequestGetters = {}
    BY DEF PassingHostConforms
  <2>1. ASSUME NEW t \in AllTests
        PROVE  missing \cap Needs(t) = {}
    <3>1. PICK i \in 1 .. Len(Run) : Run[i] = t
      BY OfRun
    <3>2. i \in 1 .. k - 1
      BY OfRun DEF KitInv, TypeOK
    <3> QED
      BY <3>1, <3>2 DEF KitInv, FlawsAreReported, Flawed
  <2> QED
    BY <2>1, EachIsTested
<1> QED
  BY <1>1, AlwaysKitInv, PTL

=============================================================================
