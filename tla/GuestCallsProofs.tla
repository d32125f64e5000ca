--------------------------- MODULE GuestCallsProofs ---------------------------
(***************************************************************************)
(* Theorems about GuestCalls and the construction of a middleware, for any *)
(* guests, options and requests, and any size of the memory and of the     *)
(* values that pass through it.                                            *)
(***************************************************************************)
EXTENDS GuestCalls, AbiProofs

-----------------------------------------------------------------------------
(* The construction *)

\* The steps of a request leave the construction alone, but for where it is.
LEMMA ConstructionKept ==
  ASSUME [Next]_vars
  PROVE  \/ Construct
         \/ step \in {"start", "ready", "request", "response"} /\ runtime' = runtime
            /\ step' \in {"start", "ready", "request", "response"} /\ UNCHANGED <<binary, modules>>
         \/ step = "start" /\ Fails
         \/ UNCHANGED construction
<1>1. CASE HandleRequest \/ Proceed \/ ExportReturns
  BY <1>1 DEF HandleRequest, Proceed, ExportReturns, StartReturns, RequestEnds, InGuest
<1>2. CASE ExportTraps
  BY <1>2 DEF ExportTraps, StartTraps, RequestEnds
<1>3. CASE PrepareGet \/ PrepareSet
  BY <1>3 DEF PrepareGet, PrepareSet, Prepare
<1>4. CASE GetString \/ GetHeaderValues \/ Set \/ ReadBody \/ LogEnabled \/ Log
  BY <1>4 DEF GetString, GetHeaderValues, Set, ReadBody, LogEnabled, Log, Answers
<1>5. CASE Failed \/ UNCHANGED vars
  BY <1>5 DEF Failed, vars
<1>6. CASE ConstructionStep
  BY <1>6 DEF ConstructionStep
<1> QED
  BY <1>1, <1>2, <1>3, <1>4, <1>5, <1>6 DEF Next

RuntimeInv == NoRuntimeLeaks /\ (step = "new" => runtime = "none")

\* The runtime is open, or closed, or was never made.
THEOREM RuntimeIsClosed == Spec => []NoRuntimeLeaks
<1>1. Init => RuntimeInv
  BY DEF Init, ConstructionInit, RuntimeInv, NoRuntimeLeaks
<1>2. RuntimeInv /\ [Next]_vars => RuntimeInv'
  <2> SUFFICES ASSUME RuntimeInv, [Next]_vars PROVE RuntimeInv'
    OBVIOUS
  <2>1. CASE Construct
    BY <2>1 DEF Construct, NewRuntime, NewRuntimeFails, CompileGuest, InstantiateHost, NewGuest,
       Fails, RuntimeInv, NoRuntimeLeaks
  <2>2. CASE step = "start" /\ Fails
    BY <2>2 DEF Fails, RuntimeInv, NoRuntimeLeaks
  <2>3. CASE /\ step \in {"start", "ready", "request", "response"} /\ runtime' = runtime
             /\ step' \in {"start", "ready", "request", "response"}
    BY <2>3 DEF RuntimeInv, NoRuntimeLeaks
  <2>4. CASE UNCHANGED construction
    BY <2>4 DEF construction, RuntimeInv, NoRuntimeLeaks
  <2> QED
    BY <2>1, <2>2, <2>3, <2>4, ConstructionKept
<1> QED
  BY <1>1, <1>2, PTL DEF Spec, RuntimeInv

\* The host modules a guest imports are there before it is instantiated.
THEOREM HostIsProvided == Spec => []ImportsProvided
<1>1. Init => ImportsProvided
  BY DEF Init, ConstructionInit, ImportsProvided
<1>2. ImportsProvided /\ [Next]_vars => ImportsProvided'
  <2> SUFFICES ASSUME ImportsProvided, [Next]_vars PROVE ImportsProvided'
    OBVIOUS
  <2>1. CASE InstantiateHost
    BY <2>1 DEF InstantiateHost, Provided, Fails, ImportsProvided
  <2>2. CASE NewRuntime \/ NewRuntimeFails \/ CompileGuest \/ NewGuest
    BY <2>2 DEF NewRuntime, NewRuntimeFails, CompileGuest, NewGuest, Fails, ImportsProvided
  <2>3. CASE step = "start" /\ Fails
    BY <2>3 DEF Fails, ImportsProvided
  <2>4. CASE step' \in {"start", "ready", "request", "response"}
    BY <2>4 DEF ImportsProvided
  <2>5. CASE UNCHANGED construction
    BY <2>5 DEF construction, ImportsProvided
  <2> QED
    BY <2>1, <2>2, <2>3, <2>4, <2>5, ConstructionKept DEF Construct
<1> QED
  BY <1>1, <1>2, PTL DEF Spec

\* A middleware that was returned has a guest it can serve requests with.
THEOREM ReadyIsReady == Spec => []ReadyIsServable
<1>1. Init => ReadyIsServable
  BY DEF Init, ConstructionInit, ReadyIsServable
<1>2. ReadyIsServable /\ [Next]_vars => ReadyIsServable'
  <2> SUFFICES ASSUME ReadyIsServable, [Next]_vars PROVE ReadyIsServable'
    OBVIOUS
  <2>1. CASE Construct
    BY <2>1 DEF Construct, NewRuntime, NewRuntimeFails, CompileGuest, Conforms, InstantiateHost,
       NewGuest, Fails, ReadyIsServable
  <2>2. CASE step = "start" /\ Fails
    BY <2>2 DEF Fails, ReadyIsServable
  <2>3. CASE /\ step \in {"start", "ready", "request", "response"}
             /\ step' \in {"start", "ready", "request", "response"} /\ UNCHANGED <<binary, modules>>
    BY <2>3 DEF ReadyIsServable
  <2>4. CASE UNCHANGED construction
    BY <2>4 DEF construction, ReadyIsServable
  <2> QED
    BY <2>1, <2>2, <2>3, <2>4, ConstructionKept
<1> QED
  BY <1>1, <1>2, PTL DEF Spec

-----------------------------------------------------------------------------
(* The memory *)

\* A guest that gives no input leaves its memory as it was.
LEMMA NothingWritten ==
  ASSUME NEW offset \in Nat
  PROVE  Write(Garbage, offset, <<>>) = Garbage
BY MemSizeAssumption DEF Write, Garbage, Region, Addr
-----------------------------------------------------------------------------
(* The least number of a set *)
-----------------------------------------------------------------------------
(* The types of the values *)

LEMMA Separators ==
  "x" \in Byte /\ "/" \in Byte /\ "?" \in Byte /\ "%20" \in Byte
BY BytesAssumption, Zenon

LEMMA Space == " " \in Byte
BY BytesAssumption, Zenon

LEMMA NotNul ==
  Nul # "/" /\ Nul # "?" /\ Nul # " " /\ Nul # "%20"
BY BytesAssumption, Zenon

\* A byte of a path as GetURI writes it, and as a parser reads it.
Written(b) == IF b = " " THEN "%20" ELSE b
Taken(b) == IF b = "%20" THEN " " ELSE b

LEMMA WrittenByte ==
  ASSUME NEW b
  PROVE  /\ b # "?" => Written(b) # "?"
         /\ b # Nul => Written(b) # Nul
         /\ b = "/" => Written(b) = "/"
         /\ b # "%20" => Taken(Written(b)) = b
BY NotNul, Zenon DEF Written, Taken

LEMMA TakenByte ==
  ASSUME NEW b
  PROVE  /\ b # "?" => Taken(b) # "?"
         /\ b # Nul => Taken(b) # Nul
         /\ b = "/" => Taken(b) = "/"
         /\ Taken(b) # "%20"
BY NotNul, Zenon DEF Taken

LEMMA Unescaped ==
  ASSUME NEW path \in Seq(Byte)
  PROVE  /\ Unescape(path) \in Seq(Byte) /\ Len(Unescape(path)) = Len(path)
         /\ \A k \in 1 .. Len(path) : Unescape(path)[k] = Taken(path[k])
<1>1. DOMAIN path = 1 .. Len(path) /\ Len(path) \in Nat /\ \A k \in 1 .. Len(path) : path[k] \in Byte
  OBVIOUS
<1>2. Unescape(path) \in [1 .. Len(path) -> Byte]
  BY <1>1, Space DEF Unescape
<1>3. Unescape(path) \in Seq(Byte) /\ DOMAIN Unescape(path) = 1 .. Len(path)
  BY <1>1, <1>2, IsASeq
<1>4. Len(Unescape(path)) = Len(path)
  BY <1>1, <1>3, LenProperties
<1> QED
  BY <1>1, <1>3, <1>4 DEF Unescape, Taken

LEMMA Escaped ==
  ASSUME NEW path \in Seq(Byte)
  PROVE  /\ Escape(path) \in Seq(Byte) /\ Len(Escape(path)) = Len(path)
         /\ \A k \in 1 .. Len(path) : Escape(path)[k] = Written(path[k])
<1>1. DOMAIN path = 1 .. Len(path) /\ Len(path) \in Nat /\ \A k \in 1 .. Len(path) : path[k] \in Byte
  OBVIOUS
<1>2. Escape(path) \in [1 .. Len(path) -> Byte]
  BY <1>1, Separators DEF Escape
<1>3. Escape(path) \in Seq(Byte) /\ DOMAIN Escape(path) = 1 .. Len(path)
  BY <1>1, <1>2, IsASeq
<1>4. Len(Escape(path)) = Len(path)
  BY <1>1, <1>3, LenProperties
<1> QED
  BY <1>1, <1>3, <1>4 DEF Escape, Written

\* A URL is put together and split within the bytes it is made of.
LEMMA UriTyped ==
  ASSUME NEW url \in Url
  PROVE  GetURI(url) \in Seq(Byte)
<1>1. url.path \in Seq(Byte) /\ url.query \in Seq(Byte)
  BY DEF Url
<1>2. Escape(url.path) \in Seq(Byte)
  BY <1>1, Escaped
<1>3. <<"/">> \in Seq(Byte) /\ <<"?">> \in Seq(Byte) /\ <<>> \in Seq(Byte)
  BY Separators
<1>4. PICK p \in Seq(Byte) : p = IF url.path = <<>> THEN <<"/">> ELSE Escape(url.path)
  BY <1>2, <1>3
<1>5. PICK q \in Seq(Byte) : q = IF url.force \/ url.query # <<>> THEN <<"?">> \o url.query ELSE <<>>
  BY <1>1, <1>3, ConcatProperties
<1>6. p \o q \in Seq(Byte)
  BY ConcatProperties
<1> QED
  BY <1>4, <1>5, <1>6 DEF GetURI

LEMMA ParseTyped ==
  ASSUME NEW uri \in Seq(Byte)
  PROVE  Parse(uri) \in Url
<1>1. <<>> \in Seq(Byte) /\ Len(uri) \in Nat /\ DOMAIN uri = 1 .. Len(uri)
  OBVIOUS
<1>2. CASE Marks(uri) = {}
  BY <1>1, <1>2, Unescaped DEF Parse, Url
<1>3. CASE Marks(uri) # {}
  <2>1. PICK k : k = Min(Marks(uri))
    OBVIOUS
  <2>2. k \in 1 .. Len(uri)
    <3>1. Marks(uri) \subseteq Nat
      BY <1>1 DEF Marks
    <3> QED
      BY <1>1, <1>3, <2>1, <3>1, Least DEF Marks
  <2>3. SubSeq(uri, 1, k - 1) \in Seq(Byte) /\ SubSeq(uri, k + 1, Len(uri)) \in Seq(Byte)
    BY <1>1, <2>2
  <2>4. Parse(uri) = [path |-> Unescape(SubSeq(uri, 1, k - 1)), force |-> k = Len(uri),
                      query |-> SubSeq(uri, k + 1, Len(uri))]
    BY <1>3, <2>1 DEF Parse
  <2>5. Unescape(SubSeq(uri, 1, k - 1)) \in Seq(Byte)
    BY <2>3, Unescaped
  <2> QED
    BY <2>3, <2>4, <2>5 DEF Url
<1> QED
  BY <1>2, <1>3

LEMMA SetURITyped ==
  ASSUME NEW uri \in Seq(Byte)
  PROVE  SetURI(uri) \in Url
<1>1. <<"/">> \in Seq(Byte)
  BY Separators
<1> QED
  BY <1>1, ParseTyped DEF SetURI

-----------------------------------------------------------------------------
(* UriReadBack *)

LEMMA Bytes ==
  ASSUME NEW s \in Seq(Byte)
  PROVE  ToSet(s) = {s[k] : k \in 1 .. Len(s)}
BY DEF ToSet

\* A part without question marks that starts with a slash is a path, unescaped.
LEMMA PathParsed ==
  ASSUME NEW p \in Seq(Byte), p # <<>>, p[1] = "/", Nul \notin ToSet(p), "?" \notin ToSet(p),
         NEW url, url.path = Unescape(p), Nul \notin ToSet(url.query), url.force => url.query = <<>>
  PROVE  Parsed(url)
<1>1. /\ Len(p) \in Nat /\ 1 \in 1 .. Len(p)
      /\ \A k \in 1 .. Len(p) : p[k] # Nul /\ p[k] # "?"
  BY Bytes
<1>2. PICK path \in Seq(Byte) : /\ path = Unescape(p) /\ Len(path) = Len(p)
                                /\ \A k \in 1 .. Len(p) : path[k] = Taken(p[k])
  BY Unescaped
<1>3. path[1] = "/"
  BY <1>1, <1>2, TakenByte
<1>4. \A k \in 1 .. Len(path) : path[k] # "?" /\ path[k] # "%20"
  BY <1>1, <1>2, TakenByte
<1>5. \A k \in 1 .. Len(path) : path[k] # Nul
  BY <1>1, <1>2, TakenByte
<1>6. "?" \notin ToSet(path) /\ "%20" \notin ToSet(path)
  BY <1>4, Bytes
<1>7. Nul \notin ToSet(path)
  BY <1>5, Bytes
<1>8. {"?", "%20", Nul} \cap ToSet(path) = {}
  BY <1>6, <1>7, Zenon
<1> QED
  BY <1>2, <1>3, <1>8 DEF Parsed

\* What SetURI takes for a URL is one that a client's request could have.
LEMMA SetURIParsed ==
  ASSUME NEW uri \in Seq(Byte), Parses(uri)
  PROVE  Parsed(SetURI(uri))
<1>1. ASSUME NEW u \in Seq(Byte), u # <<>>, u[1] = "/", Nul \notin ToSet(u)
      PROVE  Parsed(Parse(u))
  <2>1. Len(u) \in Nat /\ DOMAIN u = 1 .. Len(u) /\ 1 \in 1 .. Len(u)
    BY <1>1
  <2>2. Nul \notin ToSet(<<>>)
    BY DEF ToSet
  <2>3. CASE Marks(u) = {}
    <3>1. "?" \notin ToSet(u)
      BY <2>1, <2>3 DEF Marks, ToSet
    <3>2. /\ Parse(u).path = Unescape(u) /\ Parse(u).query = <<>>
          /\ Parse(u).force = FALSE
      BY <2>3 DEF Parse
    <3> QED
      BY <1>1, <2>2, <3>1, <3>2, PathParsed
  <2>4. CASE Marks(u) # {}
    <3> DEFINE k == Min(Marks(u))
               p == SubSeq(u, 1, k - 1)
               q == SubSeq(u, k + 1, Len(u))
    <3>1. k \in Marks(u) /\ \A m \in Marks(u) : k <= m
      <4>1. Marks(u) \subseteq Nat
        BY <2>1 DEF Marks
      <4> QED
        BY <2>4, <4>1, Least
    <3>2. /\ Parse(u).path = Unescape(p) /\ Parse(u).query = q
          /\ Parse(u).force = (k = Len(u))
      BY <2>4 DEF Parse
    <3> HIDE DEF k
    <3>3. k \in 2 .. Len(u) /\ u[k] = "?" /\ \A m \in 1 .. k - 1 : u[m] # "?"
      BY <1>1, <2>1, <3>1 DEF Marks
    <3>4. p \in Seq(Byte) /\ Len(p) = k - 1 /\ \A m \in 1 .. k - 1 : p[m] = u[m]
      BY <2>1, <3>3
    <3>5. q \in Seq(Byte) /\ \A m \in 1 .. Len(q) : k + m \in 1 .. Len(u) /\ q[m] = u[k + m]
      BY <2>1, <3>3
    <3>6. k = Len(u) => q = <<>>
      BY <2>1, <3>3
    <3> HIDE DEF p, q
    <3>7. p # <<>> /\ p[1] = "/"
      BY <1>1, <3>3, <3>4
    <3>8. \A m \in 1 .. Len(u) : u[m] # Nul
      BY <1>1, Bytes
    <3>9. Nul \notin ToSet(p) /\ Nul \notin ToSet(q)
      <4>1. \A m \in 1 .. Len(p) : p[m] # Nul
        BY <2>1, <3>3, <3>4, <3>8
      <4>2. \A m \in 1 .. Len(q) : q[m] # Nul
        BY <3>5, <3>8
      <4> QED
        BY <3>4, <3>5, <4>1, <4>2, Bytes
    <3>10. "?" \notin ToSet(p)
      <4>1. \A m \in 1 .. Len(p) : p[m] # "?"
        BY <3>3, <3>4
      <4> QED
        BY <3>4, <4>1, Bytes
    <3> QED
      BY <3>2, <3>4, <3>6, <3>7, <3>9, <3>10, PathParsed
  <2> QED
    BY <2>3, <2>4
<1>2. CASE uri = <<>>
  <2>1. <<"/">> \in Seq(Byte) /\ <<"/">> # <<>> /\ <<"/">>[1] = "/"
    BY Separators
  <2>2. Nul \notin ToSet(<<"/">>)
    <3>1. Nul # "/"
      BY NotNul, Zenon
    <3>2. \A m \in 1 .. Len(<<"/">>) : <<"/">>[m] # Nul
      BY <3>1
    <3> QED
      BY <2>1, <3>2, Bytes
  <2> QED
    BY <1>1, <1>2, <2>1, <2>2 DEF SetURI
<1>3. CASE uri # <<>>
  BY <1>1, <1>3 DEF SetURI, Parses
<1> QED
  BY <1>2, <1>3

\* The path of a URL as GetURI writes it: none of it ends the path, and nothing
\* of it is lost.
LEMMA PathWritten ==
  ASSUME NEW url \in Url, Parsed(url), NEW p,
         p = IF url.path = <<>> THEN <<"/">> ELSE Escape(url.path)
  PROVE  /\ p \in Seq(Byte) /\ p # <<>> /\ p[1] = "/"
         /\ \A k \in 1 .. Len(p) : p[k] # "?" /\ p[k] # Nul
         /\ Unescape(p) = IF url.path = <<>> THEN <<"/">> ELSE url.path
<1>1. CASE url.path = <<>>
  <2>1. p = <<"/">> /\ p \in Seq(Byte) /\ p # <<>> /\ p[1] = "/" /\ Len(p) = 1
    BY <1>1, Separators
  <2>2. Nul # "/"
    BY NotNul, Zenon
  <2>3. \A k \in 1 .. Len(p) : p[k] # "?" /\ p[k] # Nul
    BY <2>1, <2>2
  <2>4. PICK u \in Seq(Byte) : /\ u = Unescape(p) /\ Len(u) = Len(p)
                               /\ \A k \in 1 .. Len(p) : u[k] = Taken(p[k])
    BY <2>1, Unescaped
  <2>5. \A k \in 1 .. Len(p) : u[k] = p[k]
    BY <2>1, <2>4, TakenByte
  <2>6. Unescape(p) = p
    BY <2>1, <2>4, <2>5, SeqEqual
  <2> QED
    BY <1>1, <2>1, <2>3, <2>6
<1>2. CASE url.path # <<>>
  <2> DEFINE path == url.path
  <2>1. path \in Seq(Byte) /\ Len(path) \in Nat /\ 1 \in 1 .. Len(path) /\ path[1] = "/"
    BY <1>2 DEF Url, Parsed
  <2>2. \A k \in 1 .. Len(path) : path[k] # "?" /\ path[k] # "%20" /\ path[k] # Nul
    <3>1. "?" \notin ToSet(path) /\ "%20" \notin ToSet(path) /\ Nul \notin ToSet(path)
      BY Zenon DEF Parsed
    <3> QED
      BY <2>1, <3>1, Bytes
  <2> HIDE DEF path
  <2>3. p = Escape(path)
    BY <1>2 DEF path
  <2>4. /\ p \in Seq(Byte) /\ Len(p) = Len(path)
        /\ \A k \in 1 .. Len(path) : p[k] = Written(path[k])
    BY <2>1, <2>3, Escaped
  <2>5. p # <<>> /\ p[1] = "/"
    BY <2>1, <2>4, WrittenByte
  <2>6. \A k \in 1 .. Len(p) : p[k] # "?"
    BY <2>2, <2>4, WrittenByte
  <2>7. \A k \in 1 .. Len(p) : p[k] # Nul
    <3> TAKE k \in 1 .. Len(p)
    <3>1. path[k] # Nul /\ p[k] = Written(path[k])
      BY <2>2, <2>4
    <3> QED
      BY <3>1, WrittenByte, Zenon
  <2>8. Unescape(p) = path
    <3>1. PICK u \in Seq(Byte) : /\ u = Unescape(p) /\ Len(u) = Len(p)
                                 /\ \A k \in 1 .. Len(p) : u[k] = Taken(p[k])
      BY <2>4, Unescaped
    <3>2. \A k \in 1 .. Len(p) : u[k] = path[k]
      BY <2>2, <2>4, <3>1, WrittenByte
    <3> QED
      BY <2>1, <2>4, <3>1, <3>2, SeqEqual
  <2> QED
    BY <1>2, <2>4, <2>5, <2>6, <2>7, <2>8 DEF path
<1> QED
  BY <1>1, <1>2

\* What GetURI returns parses, to the URL that it was put together from.
LEMMA UriRoundTrip ==
  ASSUME NEW url \in Url, Parsed(url)
  PROVE  /\ Parses(GetURI(url))
         /\ SetURI(GetURI(url)) = [url EXCEPT !.path = IF @ = <<>> THEN <<"/">> ELSE @]
<1>1. PICK p : p = IF url.path = <<>> THEN <<"/">> ELSE Escape(url.path)
  OBVIOUS
<1>2. /\ p \in Seq(Byte) /\ p # <<>> /\ p[1] = "/"
      /\ \A k \in 1 .. Len(p) : p[k] # "?" /\ p[k] # Nul
      /\ Unescape(p) = IF url.path = <<>> THEN <<"/">> ELSE url.path
  BY <1>1, PathWritten
<1>3. Len(p) \in Nat /\ Len(p) > 0
  BY <1>2
<1>4. PICK query \in Seq(Byte) : query = url.query /\ \A k \in 1 .. Len(query) : query[k] # Nul
  BY Bytes DEF Url, Parsed
<1>5. url.force \in BOOLEAN /\ (url.force => query = <<>>)
  BY <1>4 DEF Url, Parsed
<1>6. ASSUME NEW uri \in Seq(Byte), uri # <<>>, uri[1] = "/",
             \A k \in 1 .. Len(uri) : uri[k] # Nul,
             Parse(uri) = [path |-> Unescape(p), force |-> url.force, query |-> query],
             uri = GetURI(url)
      PROVE  /\ Parses(uri)
             /\ SetURI(uri) = [url EXCEPT !.path = IF @ = <<>> THEN <<"/">> ELSE @]
  <2>1. Parses(uri)
    BY <1>6, Bytes DEF Parses
  <2>2. SetURI(uri) = [path |-> IF url.path = <<>> THEN <<"/">> ELSE url.path,
                       force |-> url.force, query |-> url.query]
    BY <1>2, <1>4, <1>6 DEF SetURI
  <2> QED
    BY <2>1, <2>2 DEF Url
<1>7. CASE ~ (url.force \/ query # <<>>)
  <2>1. GetURI(url) = p
    <3>1. GetURI(url) = p \o <<>>
      BY <1>1, <1>4, <1>7 DEF GetURI
    <3> QED
      BY <1>2, <3>1, ConcatEmptySeq
  <2>2. Marks(p) = {}
    BY <1>2 DEF Marks
  <2>3. Parse(p) = [path |-> Unescape(p), force |-> url.force, query |-> query]
    BY <1>5, <1>7, <2>2 DEF Parse
  <2> QED
    BY <1>2, <1>6, <2>1, <2>3
<1>8. CASE url.force \/ query # <<>>
  <2>1. PICK q \in Seq(Byte) : q = <<"?">> \o query
    <3>1. <<"?">> \in Seq(Byte)
      BY Separators
    <3>2. <<"?">> \o query \in Seq(Byte)
      BY <3>1, ConcatProperties
    <3> QED
      BY <3>2
  <2>2. /\ Len(q) = Len(query) + 1 /\ q[1] = "?"
        /\ \A k \in 1 .. Len(query) : q[k + 1] = query[k]
    BY <1>4, <2>1
  <2>3. \A k \in 1 .. Len(q) : q[k] # Nul
    <3>1. Nul # "?"
      BY NotNul, Zenon
    <3>2. \A k \in 1 .. Len(q) : k = 1 \/ (k - 1 \in 1 .. Len(query) /\ q[(k - 1) + 1] = q[k])
      BY <2>2
    <3> QED
      BY <1>4, <2>2, <3>1, <3>2
  <2>4. PICK uri \in Seq(Byte) : uri = p \o q
    <3>1. p \o q \in Seq(Byte)
      BY <1>2, ConcatProperties
    <3> QED
      BY <3>1
  <2>5. GetURI(url) = uri
    BY <1>1, <1>4, <1>8, <2>1, <2>4 DEF GetURI
  <2>6. /\ Len(uri) = Len(p) + Len(q)
        /\ \A k \in 1 .. Len(p) : uri[k] = p[k]
        /\ \A k \in 1 .. Len(q) : uri[Len(p) + k] = q[k]
    BY <1>2, <2>1, <2>4
  <2> DEFINE n == Len(p) + 1
  <2>7. n \in Marks(uri) /\ n \in Nat /\ Len(query) \in Nat
    <3>1. DOMAIN uri = 1 .. Len(uri) /\ Len(query) \in Nat
      BY <1>4
    <3>2. n \in Marks(uri)
      BY <1>3, <2>2, <2>6, <3>1 DEF Marks
    <3> QED
      BY <1>3, <3>1, <3>2
  <2>8. Min(Marks(uri)) = n
    <3> HIDE DEF n
    <3>1. \A m \in Marks(uri) : m \in Nat /\ n <= m
      <4> TAKE m \in Marks(uri)
      <4>1. m \in 1 .. Len(uri) /\ uri[m] = "?"
        BY DEF Marks
      <4>2. m \notin 1 .. Len(p)
        BY <1>2, <2>6, <4>1
      <4> QED
        BY <1>3, <4>1, <4>2 DEF n
    <3>2. Min(Marks(uri)) \in Marks(uri) /\ Min(Marks(uri)) <= n
      BY <2>7, <3>1, Least
    <3>3. Min(Marks(uri)) \in Nat /\ n <= Min(Marks(uri))
      BY <3>1, <3>2
    <3> QED
      BY <2>7, <3>2, <3>3
  <2>9. SubSeq(uri, 1, n - 1) = p
    <3>1. n - 1 = Len(p) /\ Len(p) <= Len(uri)
      BY <1>3, <2>2, <2>6
    <3>2. SubSeq(uri, 1, Len(p)) \in Seq(Byte) /\ Len(SubSeq(uri, 1, Len(p))) = Len(p)
      BY <1>3, <3>1
    <3>3. \A k \in 1 .. Len(p) : SubSeq(uri, 1, Len(p))[k] = p[k]
      BY <1>3, <2>6, <3>1
    <3> QED
      BY <1>2, <3>1, <3>2, <3>3, SeqEqual
  <2>10. SubSeq(uri, n + 1, Len(uri)) = query
    <3>1. Len(uri) = n + Len(query) /\ n \in Nat /\ Len(query) \in Nat
      BY <1>3, <2>2, <2>6, <2>7
    <3>2. \A k \in 1 .. Len(query) : uri[n + k] = query[k]
      <4> TAKE k \in 1 .. Len(query)
      <4>1. k + 1 \in 1 .. Len(q) /\ Len(p) + (k + 1) = n + k
        BY <1>3, <2>2, <3>1
      <4>2. uri[Len(p) + (k + 1)] = q[k + 1]
        BY <2>6, <4>1
      <4> QED
        BY <2>2, <4>1, <4>2
    <3> HIDE DEF n
    <3>3. PICK rst \in Seq(Byte) : rst = SubSeq(uri, n + 1, Len(uri)) /\ Len(rst) = Len(query)
      <4>1. SubSeq(uri, n + 1, Len(uri)) \in Seq(Byte)
        BY <3>1
      <4>2. Len(SubSeq(uri, n + 1, Len(uri))) = Len(query)
        BY <3>1
      <4> QED
        BY <4>1, <4>2
    <3>4. \A k \in 1 .. Len(query) : rst[k] = query[k]
      BY <3>1, <3>2, <3>3
    <3> QED
      BY <1>4, <3>3, <3>4, SeqEqual
  <2>11. (n = Len(uri)) = url.force
    BY <1>3, <1>4, <1>5, <1>8, <2>2, <2>6
  <2>12. Parse(uri) = [path |-> Unescape(p), force |-> url.force, query |-> query]
    BY <2>7, <2>8, <2>9, <2>10, <2>11 DEF Parse
  <2>13. \A k \in 1 .. Len(uri) : uri[k] # Nul
    <3>1. \A k \in 1 .. Len(uri) : k \in 1 .. Len(p) \/ (k - Len(p) \in 1 .. Len(q))
      BY <1>3, <2>6
    <3>2. \A k \in 1 .. Len(uri) : k - Len(p) \in 1 .. Len(q) => uri[k] = q[k - Len(p)]
      BY <1>3, <2>6
    <3> QED
      BY <1>2, <2>3, <2>6, <3>1, <3>2
  <2>14. uri # <<>> /\ uri[1] = "/"
    BY <1>2, <1>3, <2>6
  <2> QED
    BY <1>6, <2>5, <2>12, <2>13, <2>14
<1> QED
  BY <1>4, <1>7, <1>8

-----------------------------------------------------------------------------
(* What is always so of a call *)

InExport == step \in {"start", "request", "response"}

\* The host's answer to a call of a guest starts from a memory that only holds
\* what the guest put there, and from no result.
CallInv ==
  /\ options \in Options
  /\ req \in Request
  /\ rest \in Seq(Byte) /\ got \in Seq(Byte)
  /\ call.offset \in Nat /\ call.count \in Nat
  /\ turn \in {"guest", "host"}
  /\ turn = "host" => mem \in Memory /\ result = NoResult
  /\ turn = "host" /\ call.fn \in StringGetters => mem = Garbage
  /\ ~InExport => turn = "guest" /\ call = NoCall /\ result = NoResult
  /\ step \notin {"request", "response"} => got = <<>>

LEMMA Fresh ==
  /\ Garbage \in Memory /\ NoRequest \in Request /\ <<>> \in Seq(Byte)
  /\ NoCall.offset = 0 /\ NoCall.count = 0 /\ NoCall.fn = "none" /\ ~NoResult.eof
  /\ "none" \notin StringGetters /\ "none" \notin {"read_body"}
BY Separators DEF Garbage, Memory, NoRequest, Request, Url, NoCall, NoResult, StringGetters

LEMMA CallInit == Init => CallInv
BY Fresh DEF Init, ConstructionInit, CallInv, InExport

\* The values the host reads from the guest's memory are bytes.
LEMMA InputTyped ==
  ASSUME CallInv, turn = "host", ~Refused, call.fn \in Setters
  PROVE  Input \in Seq(Byte)
<1>1. call.count = 0 \/ InMemory(call.offset, call.count)
  BY DEF CallInv, Refused
<1> QED
  BY <1>1, ReadTyped DEF CallInv, Input

LEMMA PrepareStep ==
  ASSUME CallInv, NEW fn, NEW offset \in Nat, NEW count \in Nat, NEW input \in Seq(Byte),
         Prepare(fn, offset, count, input), fn \in StringGetters => input = <<>>
  PROVE  CallInv'
<1>1. mem' = Write(Garbage, offset, input) /\ mem' \in Memory
  BY Fresh, WriteTyped DEF Prepare
<1>2. fn \in StringGetters => mem' = Garbage
  BY <1>1, NothingWritten
<1>3. /\ call' = [fn |-> fn, offset |-> offset, count |-> count]
      /\ turn' = "host" /\ result' = NoResult
      /\ UNCHANGED <<step, options, req, rest, got>> /\ InExport
  BY DEF Prepare, construction, request, InGuest, InExport
<1> QED
  BY <1>1, <1>2, <1>3 DEF CallInv, InExport

LEMMA SetStep ==
  ASSUME CallInv, Set
  PROVE  CallInv'
<1>1. Input \in Seq(Byte) /\ req \in Request
  BY InputTyped DEF Set, Answers, CallInv
<1>2. req' \in Request
  <2>1. CASE call.fn = "set_method"
    BY <1>1, <2>1 DEF Set, Request
  <2>2. CASE call.fn = "set_uri"
    BY <1>1, <2>2, SetURITyped DEF Set, Request
  <2>3. CASE call.fn = "add_header_value"
    <3>1. req' = [req EXCEPT !.values = Append(req.values, Input)]
      BY <2>3 DEF Set
    <3>2. Append(req.values, Input) \in Seq(Seq(Byte))
      BY <1>1, AppendProperties DEF Request
    <3> QED
      BY <1>1, <3>1, <3>2 DEF Request
  <2> QED
    BY <2>1, <2>2, <2>3 DEF Set, Setters
<1>3. /\ turn = "host" /\ turn' = "guest"
      /\ UNCHANGED <<step, options, rest, got, call>>
  BY DEF Set, Answers, construction
<1> QED
  BY <1>2, <1>3 DEF CallInv, InExport

\* What read_body does, with n bytes of what is left.
LEMMA BodyRead ==
  ASSUME CallInv, ReadBody
  PROVE  \E n \in Nat :
           /\ n <= Len(rest)
           /\ rest' = SubSeq(rest, n + 1, Len(rest))
           /\ got' = got \o SubSeq(rest, 1, n)
           /\ result'.eof => n = Len(rest)
           /\ result'.eof \/ result'.len = call.count
<1>1. PICK n : n = Min({call.count, Len(rest)})
  OBVIOUS
<1>2. /\ rest \in Seq(Byte) /\ call.count \in Nat /\ call.offset \in Nat /\ Len(rest) \in Nat
      /\ InMemory(call.offset, call.count)
  <2>1. call.fn = "read_body" /\ ~Refused
    BY DEF ReadBody, Answers
  <2>2. call.count > 0 /\ InMemory(call.offset, call.count)
    BY <2>1 DEF Refused, CallInv
  <2> QED
    BY <2>2 DEF CallInv
<1>3. n = IF call.count <= Len(rest) THEN call.count ELSE Len(rest)
  BY <1>1, <1>2, MinOfTwo
<1>4. n \in Nat /\ n <= Len(rest) /\ n <= call.count
  BY <1>2, <1>3
<1>5. PICK piece \in Seq(Byte) : piece = SubSeq(rest, 1, n) /\ Len(piece) = n
  <2>1. SubSeq(rest, 1, n) \in Seq(Byte)
    BY <1>2, <1>4
  <2>2. Len(SubSeq(rest, 1, n)) = n
    BY <1>2, <1>4
  <2> QED
    BY <2>1, <2>2
<1>6. InMemory(call.offset, Len(piece))
  BY <1>2, <1>4, <1>5, MemSizeAssumption DEF InMemory
<1>7. PICK eof \in BOOLEAN :
        /\ call.count < Len(rest) => ~eof
        /\ call.count > Len(rest) => eof
        /\ mem' = Write(mem, call.offset, piece)
        /\ rest' = SubSeq(rest, n + 1, Len(rest))
        /\ result' = [NoResult EXCEPT !.len = n, !.eof = eof]
        /\ got' = got \o Read(mem', call.offset, result'.len)
  BY <1>1, <1>5 DEF ReadBody
<1>8. result'.len = n /\ result'.eof = eof
  BY <1>7 DEF NoResult
<1>9. Read(mem', call.offset, n) = piece
  BY <1>2, <1>5, <1>6, <1>7, ReadBack
<1>10. got' = got \o SubSeq(rest, 1, n)
  BY <1>5, <1>7, <1>8, <1>9
<1>11. (result'.eof => n = Len(rest)) /\ (result'.eof \/ result'.len = call.count)
  BY <1>2, <1>3, <1>7, <1>8
<1> QED
  BY <1>4, <1>7, <1>10, <1>11

LEMMA ReadBodyStep ==
  ASSUME CallInv, ReadBody
  PROVE  CallInv'
<1>1. PICK n \in Nat :
           /\ n <= Len(rest)
           /\ rest' = SubSeq(rest, n + 1, Len(rest))
           /\ got' = got \o SubSeq(rest, 1, n)
  BY BodyRead
<1>2. rest \in Seq(Byte) /\ got \in Seq(Byte) /\ Len(rest) \in Nat
  BY DEF CallInv
<1>3. rest' \in Seq(Byte) /\ SubSeq(rest, 1, n) \in Seq(Byte)
  BY <1>1, <1>2, SubSeqProperties
<1>4. got' \in Seq(Byte)
  BY <1>1, <1>2, <1>3, ConcatProperties
<1>5. /\ turn = "host" /\ turn' = "guest" /\ call.fn = "read_body" /\ ~Refused
      /\ UNCHANGED <<step, options, call, req>>
  BY DEF ReadBody, Answers, construction
<1>6. step \in {"request", "response"}
  BY <1>5 DEF CallInv, InExport, Refused, RequestFunctions, Functions
<1> QED
  BY <1>3, <1>4, <1>5, <1>6 DEF CallInv, InExport

LEMMA CallStep == CallInv /\ [Next]_vars => CallInv'
<1> SUFFICES ASSUME CallInv, [Next]_vars PROVE CallInv'
  OBVIOUS
<1>1. CASE ConstructionStep
  <2>1. /\ UNCHANGED <<options, turn, mem, call, result, req, rest, got>> /\ ~InExport
        /\ step' \notin {"request", "response"}
    BY <1>1 DEF ConstructionStep, Construct, NewRuntime, NewRuntimeFails, CompileGuest,
       InstantiateHost, NewGuest, Fails, boundary, request, InExport
  <2> QED
    BY <2>1 DEF CallInv, InExport
<1>2. CASE HandleRequest
  <2>1. req' \in Request /\ rest' \in Seq(Byte)
    BY <1>2, CallsAssumption DEF HandleRequest
  <2> QED
    BY <1>2, <2>1 DEF HandleRequest, boundary, CallInv, InExport
<1>3. CASE Proceed
  BY <1>3, Fresh DEF Proceed, InGuest, Leaves, request, CallInv, InExport
<1>4. CASE ExportReturns \/ ExportTraps
  <2>1. ASSUME Leaves, UNCHANGED <<options, req, rest, got>>, step = "start",
               step' \in {"ready", "failed"}
        PROVE  CallInv'
    BY <2>1, Fresh DEF Leaves, CallInv, InExport
  <2>2. ASSUME RequestEnds
        PROVE  CallInv'
    BY <2>2, Fresh DEF RequestEnds, Leaves, CallInv, InExport
  <2> QED
    BY <1>4, <2>1, <2>2 DEF ExportReturns, ExportTraps, StartReturns, StartTraps, Fails, request
<1>5. CASE PrepareGet
  <2>1. PICK fn \in StringGetters \cup {"get_header_values", "read_body"},
            o \in Offsets, n \in Limits : Prepare(fn, o, n, <<>>)
    BY <1>5 DEF PrepareGet
  <2> QED
    BY <2>1, Fresh, PrepareStep, CallsAssumption
<1>6. CASE PrepareSet
  <2>1. PICK fn \in Setters \cup {"log", "log_enabled"}, o \in Offsets :
          \E v \in Inputs[fn] : Prepare(fn, o, Len(v), v)
    BY <1>6 DEF PrepareSet
  <2>2. PICK v \in Seq(Byte) : Prepare(fn, o, Len(v), v)
    BY <2>1, CallsAssumption
  <2>3. fn \notin StringGetters /\ o \in Nat /\ Len(v) \in Nat
    BY CallsAssumption DEF Setters, StringGetters
  <2> QED
    BY <2>2, <2>3, PrepareStep
<1>7. CASE GetString \/ GetHeaderValues \/ LogEnabled \/ Log
  <2>1. /\ turn = "host" /\ turn' = "guest"
        /\ UNCHANGED <<step, options, req, rest, got, call>>
    BY <1>7 DEF GetString, GetHeaderValues, LogEnabled, Log, Answers, construction, request
  <2> QED
    BY <2>1 DEF CallInv, InExport
<1>8. CASE Failed \/ UNCHANGED vars
  BY <1>8 DEF Failed, vars, construction, boundary, request, CallInv, InExport
<1> QED
  BY <1>1, <1>2, <1>3, <1>4, <1>5, <1>6, <1>7, <1>8, SetStep, ReadBodyStep DEF Next

\* The call, the memory, the request and what is left of its body keep the types
\* that the properties of a call's answer rest on.
THEOREM CallsAreTyped == Spec => []CallInv
BY CallInit, CallStep, PTL DEF Spec

-----------------------------------------------------------------------------
(* BodyInOrder *)

\* A call of read_body was answered with EOF, or with all it asked for.
ToldOrFull == Answered({"read_body"}) => result.eof \/ result.len = call.count

BodyInv == BodyInOrder /\ (result.eof => rest = <<>>) /\ ToldOrFull

\* Moving a prefix from one sequence to the end of another.
LEMMA PieceMoved ==
  ASSUME NEW s \in Seq(Byte), NEW t \in Seq(Byte), NEW n \in Nat, n <= Len(t)
  PROVE  (s \o SubSeq(t, 1, n)) \o SubSeq(t, n + 1, Len(t)) = s \o t
<1>1. PICK a \in Seq(Byte), b \in Seq(Byte) :
        a = SubSeq(t, 1, n) /\ b = SubSeq(t, n + 1, Len(t))
  <2>1. SubSeq(t, 1, n) \in Seq(Byte) /\ SubSeq(t, n + 1, Len(t)) \in Seq(Byte)
    OBVIOUS
  <2> QED
    BY <2>1
<1>2. a \o b = t
  <2>1. 1 \in 1 .. Len(t) + 1 /\ n \in 1 - 1 .. Len(t) /\ Len(t) \in n .. Len(t)
    OBVIOUS
  <2>2. SubSeq(t, 1, n) \o SubSeq(t, n + 1, Len(t)) = SubSeq(t, 1, Len(t))
    BY <2>1, ConcatAdjacentSubSeq
  <2> QED
    BY <1>1, <2>2, SubSeqFull
<1>3. (s \o a) \o b = s \o (a \o b)
  BY ConcatAssociative
<1> QED
  BY <1>1, <1>2, <1>3

LEMMA BodyStep == CallInv /\ BodyInv /\ [Next]_vars => BodyInv'
<1> SUFFICES ASSUME CallInv, BodyInv, [Next]_vars PROVE BodyInv'
  OBVIOUS
<1>1. CASE ReadBody
  <2>1. PICK n \in Nat :
           /\ n <= Len(rest)
           /\ rest' = SubSeq(rest, n + 1, Len(rest))
           /\ got' = got \o SubSeq(rest, 1, n)
           /\ result'.eof => n = Len(rest)
           /\ result'.eof \/ result'.len = call.count
    BY <1>1, BodyRead
  <2>2. rest \in Seq(Byte) /\ got \in Seq(Byte)
    BY DEF CallInv
  <2>3. got' \o rest' = got \o rest
    BY <2>1, <2>2, PieceMoved
  <2>4. result'.eof => rest' = <<>>
    <3>1. SubSeq(rest, Len(rest) + 1, Len(rest)) = <<>>
      BY <2>2
    <3> QED
      BY <2>1, <3>1
  <2>5. step' = step /\ call' = call
    BY <1>1 DEF ReadBody, Answers, construction
  <2> QED
    BY <2>1, <2>3, <2>4, <2>5 DEF BodyInv, BodyInOrder, ToldOrFull
<1>2. CASE HandleRequest
  <2>1. got' = <<>> /\ rest' = Body /\ ~result'.eof /\ UNCHANGED <<turn, call, result>>
    BY <1>2, Fresh DEF HandleRequest, boundary, CallInv, InExport
  <2>2. <<>> \o Body = Body
    BY CallsAssumption, ConcatEmptySeq
  <2> QED
    BY <2>1, <2>2 DEF BodyInv, BodyInOrder, ToldOrFull, Answered
<1>3. CASE Proceed
  BY <1>3, Fresh DEF Proceed, InGuest, Leaves, request, NoCall, Answered,
       BodyInv, BodyInOrder, ToldOrFull
<1>4. CASE ExportReturns \/ ExportTraps
  <2>1. Leaves /\ step' \in {"ready", "failed"}
    BY <1>4 DEF ExportReturns, ExportTraps, StartReturns, StartTraps, RequestEnds, Fails
  <2> QED
    BY <2>1, Fresh DEF Leaves, NoCall, Answered, BodyInv, BodyInOrder, ToldOrFull
<1>5. CASE ConstructionStep
  <2>1. UNCHANGED <<turn, call, result, rest>> /\ step' \notin {"request", "response"}
    BY <1>5 DEF ConstructionStep, Construct, NewRuntime, NewRuntimeFails, CompileGuest,
       InstantiateHost, NewGuest, Fails, boundary, request
  <2> QED
    BY <2>1 DEF BodyInv, BodyInOrder, ToldOrFull, Answered
<1>6. CASE PrepareGet \/ PrepareSet
  BY <1>6, Fresh DEF PrepareGet, PrepareSet, Prepare, construction, request, Answered,
       BodyInv, BodyInOrder, ToldOrFull
<1>7. CASE GetString \/ GetHeaderValues \/ Set \/ LogEnabled \/ Log
  <2>1. UNCHANGED <<step, rest, got>>
    BY <1>7 DEF GetString, GetHeaderValues, Set, LogEnabled, Log, Answers, construction, request
  <2>2. result'.eof = FALSE \/ result' = result
    BY <1>7 DEF GetString, GetHeaderValues, Set, LogEnabled, Log, NoResult
  <2>3. call'.fn # "read_body"
    BY <1>7 DEF GetString, GetHeaderValues, Set, LogEnabled, Log, Answers, StringGetters, Setters
  <2> QED
    BY <2>1, <2>2, <2>3 DEF BodyInv, BodyInOrder, ToldOrFull, Answered
<1>8. CASE Failed \/ UNCHANGED vars
  BY <1>8 DEF Failed, vars, construction, boundary, request, Answered,
       BodyInv, BodyInOrder, ToldOrFull
<1> QED
  BY <1>1, <1>2, <1>3, <1>4, <1>5, <1>6, <1>7, <1>8 DEF Next

\* A guest gets the body once and in order, however it reads it, and is told EOF
\* when there is no more.
THEOREM BodyIsReadInOrder == Spec => []BodyInOrder
<1>1. Init => BodyInv
  BY Fresh DEF Init, ConstructionInit, NoCall, Answered, BodyInv, BodyInOrder, ToldOrFull
<1>2. BodyInv => BodyInOrder
  BY DEF BodyInv
<1> QED
  BY <1>1, <1>2, CallsAreTyped, BodyStep, PTL DEF Spec

-----------------------------------------------------------------------------
(* StringsArrive *)

LEMMA StringTyped ==
  ASSUME CallInv, NEW fn \in StringGetters
  PROVE  String[fn] \in Seq(Byte)
<1>1. /\ options.config \in Seq(Byte) /\ req.method \in Seq(Byte) /\ req.url \in Url
      /\ ProtocolVersion \in Seq(Byte) /\ SourceAddr \in Seq(Byte)
  BY CallsAssumption DEF CallInv, Request
<1>2. GetURI(req.url) \in Seq(Byte)
  BY <1>1, UriTyped
<1> QED
  BY <1>1, <1>2 DEF String, StringGetters

LEMMA StringWritten ==
  ASSUME CallInv, GetString
  PROVE  StringsArrive'
<1>1. /\ turn = "host" /\ call' = call /\ call.fn \in StringGetters
      /\ mem = Garbage /\ call.offset \in Nat
      /\ UNCHANGED <<options, req>>
  BY DEF GetString, Answers, construction, request, CallInv
<1>2. PICK v \in Seq(Byte) : v = String[call.fn]
  BY <1>1, StringTyped
<1>3. String'[call.fn] = v
  BY <1>1, <1>2 DEF String
<1>4. mem' = WriteIfUnderLimit(Garbage, call.offset, call.count, v) /\ result'.len = Len(v)
  BY <1>1, <1>2 DEF GetString, NoResult
<1>5. call.count \in Nat /\ Len(v) \in Nat
  BY DEF CallInv
<1>6. IF Len(v) <= call.count /\ InMemory(call.offset, Len(v))
      THEN Read(mem', call.offset, Len(v)) = v
      ELSE mem' = Garbage
  <2>1. CASE Len(v) > call.count
    BY <1>4, <1>5, <2>1 DEF WriteIfUnderLimit
  <2>2. CASE Len(v) <= call.count
    <3>1. mem' = Write(Garbage, call.offset, v)
      BY <1>4, <1>5, <2>2 DEF WriteIfUnderLimit
    <3>2. CASE InMemory(call.offset, Len(v))
      BY <1>1, <2>2, <3>1, <3>2, ReadBack
    <3>3. CASE ~InMemory(call.offset, Len(v))
      BY <3>1, <3>3 DEF Write
    <3> QED
      BY <2>2, <3>2, <3>3
  <2> QED
    BY <1>5, <2>1, <2>2
<1> QED
  BY <1>1, <1>3, <1>4, <1>6 DEF StringsArrive

LEMMA StringStep == CallInv /\ StringsArrive /\ [Next]_vars => StringsArrive'
<1> SUFFICES ASSUME CallInv, StringsArrive, [Next]_vars PROVE StringsArrive'
  OBVIOUS
<1>1. CASE GetString
  BY <1>1, StringWritten
\* Other calls are not about strings, and a request starts without a call.
<1>2. CASE HandleRequest
  BY <1>2, Fresh DEF HandleRequest, boundary, CallInv, InExport, StringsArrive, Answered
<1>3. CASE Proceed
  BY <1>3, Fresh DEF Proceed, Leaves, StringsArrive, Answered
<1>4. CASE ExportReturns \/ ExportTraps
  <2>1. Leaves
    BY <1>4 DEF ExportReturns, ExportTraps, RequestEnds
  <2> QED
    BY <2>1, Fresh DEF Leaves, StringsArrive, Answered
<1>5. CASE PrepareGet \/ PrepareSet
  BY <1>5 DEF PrepareGet, PrepareSet, Prepare, StringsArrive, Answered
<1>6. CASE GetHeaderValues \/ Set \/ ReadBody \/ LogEnabled \/ Log
  BY <1>6 DEF GetHeaderValues, Set, ReadBody, LogEnabled, Log, Answers, Setters, StringGetters,
     StringsArrive, Answered
<1>7. CASE ConstructionStep
  <2>1. UNCHANGED <<options, turn, mem, call, result, req>>
    BY <1>7 DEF ConstructionStep, Construct, NewRuntime, NewRuntimeFails, CompileGuest,
       InstantiateHost, NewGuest, Fails, boundary, request
  <2> QED
    BY <2>1 DEF StringsArrive, Answered, String
<1>8. CASE Failed \/ UNCHANGED vars
  BY <1>8 DEF Failed, vars, construction, boundary, request, StringsArrive, Answered, String
<1> QED
  BY <1>1, <1>2, <1>3, <1>4, <1>5, <1>6, <1>7, <1>8 DEF Next

\* A string arrives as a whole, or not at all and with its length.
THEOREM StringsAreWhole == Spec => []StringsArrive
<1>1. Init => StringsArrive
  BY Fresh DEF Init, StringsArrive, Answered
<1> QED
  BY <1>1, CallsAreTyped, StringStep, PTL DEF Spec

-----------------------------------------------------------------------------
(* TypeOK *)

ConstructionTyped ==
  /\ step \in Steps \cup {"request", "response"}
  /\ binary \in Binary
  /\ runtime \in {"none", "open", "closed"}
  /\ modules \subseteq Module

Calls == [fn : Functions \cup {"none"}, offset : Nat, count : Nat]
Answer == [len : Nat, count : Nat, eof : BOOLEAN]
BoundaryTyped == mem \in Memory /\ call \in Calls /\ result \in Answer

\* A guest only prepares to set a value if there is room for one more.
SetsInv == sets \in 0 .. MaxSets /\ (turn = "host" /\ call.fn \in Setters => sets < MaxSets)

TypeInv == ConstructionTyped /\ BoundaryTyped /\ SetsInv

LEMMA ConstructionStepTyped == ConstructionTyped /\ [Next]_vars => ConstructionTyped'
<1> SUFFICES ASSUME ConstructionTyped, [Next]_vars PROVE ConstructionTyped'
  OBVIOUS
<1>1. CASE Construct
  BY <1>1, PreloadedAssumption DEF Construct, NewRuntime, NewRuntimeFails, CompileGuest,
     InstantiateHost, NewGuest, Provided, Fails, Steps, Module, ConstructionTyped
<1>2. CASE step = "start" /\ Fails
  BY <1>2 DEF Fails, Steps, ConstructionTyped
<1>3. CASE /\ step \in {"start", "ready", "request", "response"} /\ runtime' = runtime
           /\ step' \in {"start", "ready", "request", "response"} /\ UNCHANGED <<binary, modules>>
  BY <1>3 DEF Steps, ConstructionTyped
<1>4. CASE UNCHANGED construction
  BY <1>4 DEF construction, ConstructionTyped
<1> QED
  BY <1>1, <1>2, <1>3, <1>4, ConstructionKept

LEMMA NothingTyped ==
  NoCall \in Calls /\ NoResult \in Answer /\ Garbage \in Memory
BY Fresh DEF NoCall, NoResult, Calls, Answer

LEMMA LeavesTyped ==
  ASSUME SetsInv, Leaves, sets' = sets \/ sets' = 0
  PROVE  BoundaryTyped' /\ SetsInv'
<1>1. sets' \in 0 .. MaxSets /\ turn' = "guest"
  BY CallsAssumption DEF SetsInv, Leaves
<1> QED
  BY <1>1, NothingTyped DEF Leaves, BoundaryTyped, SetsInv

LEMMA PrepareTyped ==
  ASSUME BoundaryTyped, SetsInv, NEW fn \in Functions, NEW offset \in Nat, NEW count \in Nat,
         NEW input \in Seq(Byte), fn \in Setters => sets < MaxSets,
         Prepare(fn, offset, count, input)
  PROVE  BoundaryTyped' /\ SetsInv'
<1>1. mem' \in Memory
  BY NothingTyped, WriteTyped DEF Prepare
<1>2. call' = [fn |-> fn, offset |-> offset, count |-> count] /\ result' = NoResult /\ sets' = sets
  BY DEF Prepare, request
<1>3. call' \in Calls /\ call'.fn = fn
  BY <1>2 DEF Calls
<1> QED
  BY <1>1, <1>2, <1>3, NothingTyped DEF BoundaryTyped, SetsInv

LEMMA AnswerTyped ==
  ASSUME CallInv, BoundaryTyped, SetsInv,
         GetString \/ GetHeaderValues \/ Set \/ ReadBody \/ LogEnabled \/ Log
  PROVE  BoundaryTyped' /\ SetsInv'
<1>1. /\ turn = "host" /\ turn' = "guest" /\ call' = call
      /\ call.offset \in Nat /\ call.count \in Nat /\ mem \in Memory
  BY DEF GetString, GetHeaderValues, Set, ReadBody, LogEnabled, Log, Answers, BoundaryTyped, CallInv
<1>2. CASE GetString
  <2>1. PICK v \in Seq(Byte) : v = String[call.fn]
    BY <1>2, StringTyped DEF GetString
  <2>2. mem' \in Memory
    BY <1>1, <1>2, <2>1, WriteTyped DEF GetString, WriteIfUnderLimit
  <2>3. result' = [len |-> Len(v), count |-> 0, eof |-> FALSE] /\ sets' = sets
    BY <1>2, <2>1 DEF GetString, NoResult, request
  <2>4. result' \in Answer
    BY <2>3 DEF Answer
  <2> QED
    BY <1>1, <2>2, <2>3, <2>4 DEF BoundaryTyped, SetsInv
<1>3. CASE GetHeaderValues
  <2>1. PICK list \in Lists : list = req.values
    BY DEF CallInv, Request, Lists
  <2>2. PICK bytes \in Seq(Byte) : /\ bytes = Terminated(list)
                                   /\ CountLen(list).len = Len(bytes)
                                   /\ CountLen(list).count = Len(list)
    BY ListLength
  <2>3. SubSeq(bytes, 1, Len(bytes)) = bytes /\ Len(bytes) \in Nat /\ Len(list) \in Nat
    <3>1. Len(list) \in Nat
      BY DEF Lists
    <3> QED
      BY <3>1, SubSeqFull
  <2>4. mem' \in Memory
    <3>1. mem' = WriteNULTerminated(mem, call.offset, call.count, list)
      BY <1>3, <2>1 DEF GetHeaderValues
    <3>2. mem' = IF Len(bytes) > call.count THEN mem ELSE Write(mem, call.offset, bytes)
      BY <2>2, <2>3, <3>1 DEF WriteNULTerminated
    <3> QED
      BY <1>1, <3>2, WriteTyped
  <2>5. result' = [len |-> Len(bytes), count |-> Len(list), eof |-> FALSE] /\ sets' = sets
    BY <1>3, <2>1, <2>2 DEF GetHeaderValues, NoResult, request
  <2>6. result' \in Answer
    BY <2>3, <2>5 DEF Answer
  <2> QED
    BY <1>1, <2>4, <2>5, <2>6 DEF BoundaryTyped, SetsInv
<1>4. CASE Set
  <2>1. call.fn \in Setters /\ sets' = sets + 1 /\ UNCHANGED <<mem, result>>
    BY <1>4 DEF Set
  <2>2. sets' \in 0 .. MaxSets
    BY <1>1, <2>1, CallsAssumption DEF SetsInv
  <2> QED
    BY <1>1, <2>1, <2>2 DEF BoundaryTyped, SetsInv
<1>5. CASE ReadBody
  <2>1. PICK n : n = Min({call.count, Len(rest)})
    OBVIOUS
  <2>2. rest \in Seq(Byte) /\ Len(rest) \in Nat
    BY DEF CallInv
  <2>3. n \in Nat /\ n <= Len(rest)
    BY <1>1, <2>1, <2>2, MinOfTwo
  <2>4. SubSeq(rest, 1, n) \in Seq(Byte)
    BY <2>2, <2>3
  <2>5. PICK eof \in BOOLEAN : /\ mem' = Write(mem, call.offset, SubSeq(rest, 1, n))
                               /\ result' = [NoResult EXCEPT !.len = n, !.eof = eof]
    BY <1>5, <2>1 DEF ReadBody
  <2>6. mem' \in Memory
    BY <1>1, <2>4, <2>5, WriteTyped
  <2>7. result' = [len |-> n, count |-> 0, eof |-> eof]
    BY <2>5 DEF NoResult
  <2>8. result' \in Answer
    BY <2>3, <2>7 DEF Answer
  <2>9. sets' = sets
    BY <1>5 DEF ReadBody
  <2> QED
    BY <1>1, <2>6, <2>8, <2>9 DEF BoundaryTyped, SetsInv
<1>6. CASE LogEnabled
  <2>1. PICK on \in {0, 1} : result' = [len |-> on, count |-> 0, eof |-> FALSE]
    <3>1. PICK on \in {0, 1} : on = IF IsEnabled THEN 1 ELSE 0
      OBVIOUS
    <3> QED
      BY <1>6, <3>1 DEF LogEnabled, NoResult
  <2>2. result' \in Answer
    BY <2>1 DEF Answer
  <2>3. UNCHANGED <<mem, sets>>
    BY <1>6 DEF LogEnabled, request
  <2> QED
    BY <1>1, <2>2, <2>3 DEF BoundaryTyped, SetsInv
<1>7. CASE Log
  BY <1>1, <1>7 DEF Log, request, BoundaryTyped, SetsInv
<1> QED
  BY <1>2, <1>3, <1>4, <1>5, <1>6, <1>7

LEMMA TypeStep == CallInv /\ TypeInv /\ [Next]_vars => TypeInv'
<1> SUFFICES ASSUME CallInv, BoundaryTyped, SetsInv, [Next]_vars PROVE BoundaryTyped' /\ SetsInv'
  BY ConstructionStepTyped DEF TypeInv
<1>1. CASE ConstructionStep \/ Failed \/ UNCHANGED vars
  BY <1>1 DEF ConstructionStep, Failed, vars, boundary, request, BoundaryTyped, SetsInv
<1>2. CASE HandleRequest
  BY <1>2 DEF HandleRequest, boundary, BoundaryTyped, SetsInv
<1>3. CASE Proceed \/ ExportReturns \/ ExportTraps
  <2>1. Leaves /\ (sets' = sets \/ sets' = 0)
    BY <1>3 DEF Proceed, ExportReturns, ExportTraps, RequestEnds, request
  <2> QED
    BY <2>1, LeavesTyped
<1>4. CASE PrepareGet
  <2>1. PICK fn \in StringGetters \cup {"get_header_values", "read_body"},
            o \in Offsets, n \in Limits : Prepare(fn, o, n, <<>>)
    BY <1>4 DEF PrepareGet
  <2>2. fn \in Functions /\ fn \notin Setters /\ o \in Nat /\ n \in Nat
    BY CallsAssumption DEF Functions, StringGetters, Setters
  <2> QED
    BY <2>1, <2>2, Fresh, PrepareTyped
<1>5. CASE PrepareSet
  <2>1. PICK fn \in Setters \cup {"log", "log_enabled"}, o \in Offsets :
          \E v \in Inputs[fn] : (fn \in Setters => sets < MaxSets) /\ Prepare(fn, o, Len(v), v)
    BY <1>5 DEF PrepareSet
  <2>2. PICK v \in Seq(Byte) : (fn \in Setters => sets < MaxSets) /\ Prepare(fn, o, Len(v), v)
    BY <2>1, CallsAssumption
  <2>3. fn \in Functions /\ o \in Nat /\ Len(v) \in Nat
    BY CallsAssumption DEF Functions
  <2> QED
    BY <2>2, <2>3, PrepareTyped
<1>6. CASE GetString \/ GetHeaderValues \/ Set \/ ReadBody \/ LogEnabled \/ Log
  BY <1>6, AnswerTyped
<1> QED
  BY <1>1, <1>2, <1>3, <1>4, <1>5, <1>6 DEF Next

\* Every variable keeps its type, the bound on what a guest sets included.
THEOREM TypeCorrect == Spec => []TypeOK
<1>1. Init => TypeInv
  BY NothingTyped, CallsAssumption DEF Init, ConstructionInit, Steps, TypeInv, ConstructionTyped,
     BoundaryTyped, SetsInv
<1>2. CallInv /\ TypeInv => TypeOK
  BY DEF CallInv, TypeInv, ConstructionTyped, BoundaryTyped, SetsInv, Calls, Answer, TypeOK
<1> QED
  BY <1>1, <1>2, CallsAreTyped, TypeStep, PTL DEF Spec

-----------------------------------------------------------------------------
(* ListsArrive *)

LEMMA ListWritten ==
  ASSUME CallInv, GetHeaderValues
  PROVE  ListsArrive'
<1>1. /\ turn = "host" /\ UNCHANGED <<call, req>>
      /\ call.fn = "get_header_values" /\ call.offset \in Nat /\ call.count \in Nat
  BY DEF GetHeaderValues, Answers, request, CallInv
<1>2. PICK list \in Lists : list = req.values
  BY DEF CallInv, Request, Lists
<1>3. PICK bytes \in Seq(Byte) : /\ bytes = Terminated(list)
                                 /\ CountLen(list).len = Len(bytes)
                                 /\ CountLen(list).count = Len(list)
  BY ListLength
<1>4. Len(bytes) \in Nat
  OBVIOUS
<1>5. result'.len = Len(bytes) /\ result'.count = Len(list)
  BY <1>2, <1>3 DEF GetHeaderValues, NoResult
<1>6. ASSUME Len(bytes) <= call.count
      PROVE  Read(mem', call.offset, Len(bytes)) = bytes
  <2>1. CASE Len(bytes) = 0
    <3>1. Read(mem', call.offset, 0) \in [1 .. 0 -> Byte] /\ bytes \in [1 .. 0 -> Byte]
      BY <2>1 DEF Read
    <3> QED
      BY <2>1, <3>1
  <2>2. CASE Len(bytes) > 0
    <3>1. InMemory(call.offset, Len(bytes))
      BY <1>1, <1>2, <1>3, <1>4, <1>6, <2>2 DEF GetHeaderValues, Answers, Refused, ListOutOfMemory
    <3>2. SubSeq(bytes, 1, Len(bytes)) = bytes
      BY SubSeqFull
    <3>3. mem' = Write(mem, call.offset, bytes)
      <4>1. mem' = WriteNULTerminated(mem, call.offset, call.count, list)
        BY <1>2 DEF GetHeaderValues
      <4>2. ~ (CountLen(list).len > call.count)
        BY <1>1, <1>3, <1>4, <1>6
      <4>3. mem' = Write(mem, call.offset, SubSeq(bytes, 1, Len(bytes)))
        BY <1>3, <4>1, <4>2 DEF WriteNULTerminated
      <4> QED
        BY <3>2, <4>3
    <3> QED
      BY <1>1, <3>1, <3>3, ReadBack
  <2> QED
    BY <1>4, <2>1, <2>2
<1>7. NulFree(list) => Cardinality(Nuls(bytes)) = Len(list) /\ Strings(bytes, Len(list)) = list
  BY <1>3, ListSplits
<1>8. req'.values = list /\ call' = call
  BY <1>1, <1>2
<1> QED
  BY <1>5, <1>6, <1>7, <1>8 DEF ListsArrive

LEMMA ListStep == CallInv /\ ListsArrive /\ [Next]_vars => ListsArrive'
<1> SUFFICES ASSUME CallInv, ListsArrive, [Next]_vars PROVE ListsArrive'
  OBVIOUS
<1>1. CASE GetHeaderValues
  BY <1>1, ListWritten
<1>2. CASE HandleRequest
  BY <1>2, Fresh DEF HandleRequest, boundary, CallInv, InExport, NoCall, ListsArrive, Answered
<1>3. CASE Proceed
  BY <1>3 DEF Proceed, Leaves, NoCall, ListsArrive, Answered
<1>4. CASE ExportReturns \/ ExportTraps
  <2>1. Leaves
    BY <1>4 DEF ExportReturns, ExportTraps, RequestEnds
  <2> QED
    BY <2>1 DEF Leaves, NoCall, ListsArrive, Answered
<1>5. CASE PrepareGet \/ PrepareSet
  BY <1>5 DEF PrepareGet, PrepareSet, Prepare, ListsArrive, Answered
<1>6. CASE GetString \/ Set \/ ReadBody \/ LogEnabled \/ Log
  BY <1>6 DEF GetString, Set, ReadBody, LogEnabled, Log, Answers, Setters, StringGetters,
     ListsArrive, Answered
<1>7. CASE ConstructionStep
  BY <1>7 DEF ConstructionStep, boundary, request, ListsArrive, Answered
<1>8. CASE Failed \/ UNCHANGED vars
  BY <1>8 DEF Failed, vars, boundary, request, ListsArrive, Answered
<1> QED
  BY <1>1, <1>2, <1>3, <1>4, <1>5, <1>6, <1>7, <1>8 DEF Next

\* A list that was asked for with a sufficient limit arrives as a whole, and is
\* split into the values it was made of.
THEOREM ListsAreWhole == Spec => []ListsArrive
<1>1. Init => ListsArrive
  BY DEF Init, NoCall, ListsArrive, Answered
<1> QED
  BY <1>1, CallsAreTyped, ListStep, PTL DEF Spec

-----------------------------------------------------------------------------
(* NothingElseWritten *)

\* A value is written in as many bytes as it is long.
LEMMA WrittenWithin ==
  ASSUME NEW mem0 \in Memory, NEW offset \in Nat, NEW v \in Seq(Byte),
         NEW a \in Addr \ Region(offset, Len(v))
  PROVE  Write(mem0, offset, v)[a] = mem0[a]
BY DEF Write

\* An answer that writes a value no longer than the limit, and returns its length.
LEMMA ValueWritten ==
  ASSUME CallInv, turn = "host", NEW v \in Seq(Byte), call' = call, result'.len = Len(v),
         mem' = IF Len(v) > call.count THEN mem ELSE Write(mem, call.offset, v),
         NEW a \in Addr \ Returned'
  PROVE  mem'[a] = mem[a]
<1>1. CASE Len(v) > call.count
  BY <1>1
<1>2. CASE ~(Len(v) > call.count)
  <2>1. Len(v) \in Nat /\ Len(v) <= call.count
    BY <1>2 DEF CallInv
  <2>2. Returned' = Region(call.offset, Len(v))
    BY <2>1 DEF Returned, Region
  <2>3. a \in Addr \ Region(call.offset, Len(v))
    BY <2>2
  <2>4. mem' = Write(mem, call.offset, v)
    BY <1>2
  <2>5. mem \in Memory /\ call.offset \in Nat
    BY DEF CallInv
  <2> QED
    BY <2>3, <2>4, <2>5, WrittenWithin
<1> QED
  BY <1>1, <1>2

LEMMA AnswerWritten ==
  ASSUME CallInv, [Next]_vars, turn = "host", turn' = "guest", step' = step,
         NEW a \in Addr \ Returned'
  PROVE  mem'[a] = mem[a]
<1>1. call.offset \in Nat /\ call.count \in Nat /\ mem \in Memory
  BY DEF CallInv
<1>2. CASE GetString
  <2>1. PICK v \in Seq(Byte) : v = String[call.fn]
    BY <1>2, StringTyped DEF GetString
  <2>2. mem' = IF Len(v) > call.count THEN mem ELSE Write(mem, call.offset, v)
    BY <1>2, <2>1 DEF GetString, WriteIfUnderLimit
  <2>3. call' = call /\ result'.len = Len(v)
    BY <1>2, <2>1 DEF GetString, Answers, NoResult
  <2> QED
    BY <2>2, <2>3, ValueWritten
<1>3. CASE GetHeaderValues
  <2>1. PICK bytes \in Seq(Byte) : /\ bytes = Terminated(req.values)
                                   /\ CountLen(req.values).len = Len(bytes)
    <3>1. req.values \in Lists
      BY DEF CallInv, Request, Lists
    <3> QED
      BY <3>1, ListLength
  <2>2. SubSeq(bytes, 1, Len(bytes)) = bytes /\ Len(bytes) \in Nat
    BY SubSeqFull
  <2>3. mem' = IF Len(bytes) > call.count THEN mem ELSE Write(mem, call.offset, bytes)
    BY <1>3, <2>1, <2>2 DEF GetHeaderValues, WriteNULTerminated
  <2>4. call' = call /\ result'.len = Len(bytes)
    BY <1>3, <2>1 DEF GetHeaderValues, Answers, NoResult
  <2> QED
    BY <2>3, <2>4, ValueWritten
<1>4. CASE ReadBody
  <2>1. PICK n : n = Min({call.count, Len(rest)})
    OBVIOUS
  <2>2. rest \in Seq(Byte) /\ Len(rest) \in Nat
    BY DEF CallInv
  <2>3. n \in Nat /\ n <= call.count /\ n <= Len(rest)
    BY <1>1, <2>1, <2>2, MinOfTwo
  <2>4. PICK piece \in Seq(Byte) : piece = SubSeq(rest, 1, n) /\ Len(piece) = n
    <3>1. SubSeq(rest, 1, n) \in Seq(Byte)
      BY <2>2, <2>3
    <3>2. Len(SubSeq(rest, 1, n)) = n
      BY <2>2, <2>3
    <3> QED
      BY <3>1, <3>2
  <2>5. PICK eof : /\ mem' = Write(mem, call.offset, piece)
                  /\ result' = [NoResult EXCEPT !.len = n, !.eof = eof]
    BY <1>4, <2>1, <2>4 DEF ReadBody
  <2>6. call' = call /\ result'.len = Len(piece)
    BY <1>4, <2>4, <2>5 DEF ReadBody, Answers, NoResult
  <2>7. ~(Len(piece) > call.count)
    BY <1>1, <2>3, <2>4
  <2> QED
    BY <2>5, <2>6, <2>7, ValueWritten
<1>5. CASE Set \/ LogEnabled \/ Log
  BY <1>5 DEF Set, LogEnabled, Log
<1>6. CASE ConstructionStep \/ HandleRequest \/ UNCHANGED vars \/ Failed
  BY <1>6 DEF ConstructionStep, HandleRequest, Failed, vars, boundary
<1>7. CASE Proceed \/ ExportReturns \/ PrepareGet \/ PrepareSet
  BY <1>7 DEF Proceed, ExportReturns, PrepareGet, PrepareSet, Prepare, InGuest
<1>8. CASE ExportTraps
  BY <1>8 DEF ExportTraps, StartTraps, RequestEnds, Fails
<1> QED
  BY <1>2, <1>3, <1>4, <1>5, <1>6, <1>7, <1>8 DEF Next

\* The host writes what it returns the length of into the buffer it was given, and
\* nothing else; if that is longer than the limit, nothing.
THEOREM BuffersAreBounds == Spec => NothingElseWritten
<1>1. CallInv /\ [Next]_vars =>
        [turn = "host" /\ turn' = "guest" /\ step' = step =>
           \A a \in Addr \ Returned' : mem'[a] = mem[a]]_vars
  BY AnswerWritten
<1> QED
  BY <1>1, CallsAreTyped, PTL DEF Spec, NothingElseWritten

-----------------------------------------------------------------------------
(* UriReadBack *)

\* The URL is one that a request can arrive with, also when a guest has set it.
UrlInv == Parsed(req.url)

LEMMA UrlStep == CallInv /\ UrlInv /\ [Next]_vars => UrlInv'
<1> SUFFICES ASSUME CallInv, Parsed(req.url), [Next]_vars PROVE Parsed(req'.url)
  BY DEF UrlInv
<1>1. CASE Set
  <2>1. Input \in Seq(Byte) /\ call.count \in Nat
    BY <1>1, InputTyped DEF Set, Answers, CallInv
  <2>2. CASE call.fn = "set_uri"
    <3>1. Parses(Input)
      <4>1. ~Refused
        BY <1>1 DEF Set, Answers
      <4>2. CASE InMemory(call.offset, call.count)
        BY <2>2, <4>1, <4>2 DEF Refused
      <4>3. CASE call.count = 0
        <5>1. Input \in [1 .. 0 -> Byte] /\ Len(Input) = 0
          BY <2>1, <4>3 DEF Input, Read
        <5>2. Input = <<>>
          BY <2>1, <5>1, EmptySeq
        <5> QED
          BY <5>2 DEF Parses
      <4> QED
        BY <2>1, <2>2, <4>1, <4>2, <4>3 DEF Refused, Setters
    <3>2. req'.url = SetURI(Input)
      BY <1>1, <2>2 DEF Set, CallInv, Request
    <3> QED
      BY <2>1, <3>1, <3>2, SetURIParsed
  <2>3. CASE call.fn # "set_uri"
    <3>1. req'.url = req.url
      BY <1>1, <2>3 DEF Set, Setters, CallInv, Request
    <3> QED
      BY <3>1
  <2> QED
    BY <2>2, <2>3
<1>2. CASE HandleRequest
  BY <1>2, CallsAssumption DEF HandleRequest
<1>3. CASE ExportReturns \/ ExportTraps
  <2>1. Parsed(NoRequest.url)
    <3>1. NoRequest.url.path = <<>> /\ NoRequest.url.query = <<>> /\ NoRequest.url.force = FALSE
      BY DEF NoRequest
    <3>2. ToSet(<<>>) = {}
      BY DEF ToSet
    <3> QED
      BY <3>1, <3>2 DEF Parsed
  <2>2. req' = req \/ req' = NoRequest
    BY <1>3 DEF ExportReturns, ExportTraps, RequestEnds, request
  <2> QED
    BY <2>1, <2>2
<1>4. CASE Proceed \/ PrepareGet \/ PrepareSet \/ ConstructionStep \/ Failed \/ UNCHANGED vars
  BY <1>4 DEF Proceed, PrepareGet, PrepareSet, Prepare, ConstructionStep, Failed, vars, request
<1>5. CASE GetString \/ GetHeaderValues \/ ReadBody \/ LogEnabled \/ Log
  BY <1>5 DEF GetString, GetHeaderValues, ReadBody, LogEnabled, Log, request
<1> QED
  BY <1>1, <1>2, <1>3, <1>4, <1>5 DEF Next

\* A guest can read the URI of a request and set it, without changing the request.
THEOREM UrisRoundTrip == Spec => []UriReadBack
<1>1. Init => UrlInv
  <2>1. ToSet(<<>>) = {}
    BY DEF ToSet
  <2> QED
    BY <2>1 DEF Init, NoRequest, Parsed, UrlInv
<1>2. CallInv /\ UrlInv => UriReadBack
  <2> SUFFICES ASSUME CallInv, Parsed(req.url) PROVE UriReadBack
    BY DEF UrlInv
  <2>1. req.url \in Url
    BY DEF CallInv, Request
  <2> QED
    BY <2>1, UriRoundTrip DEF UriReadBack
<1> QED
  BY <1>1, <1>2, CallsAreTyped, UrlStep, PTL DEF Spec
=============================================================================
