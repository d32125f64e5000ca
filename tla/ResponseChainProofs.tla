------------------------- MODULE ResponseChainProofs -------------------------
(***************************************************************************)
(* Theorems about ResponseChain, for chains of any length and guests that  *)
(* write any number of times.                                              *)
(***************************************************************************)
EXTENDS ResponseChain, SequenceTheorems, TLAPS

-----------------------------------------------------------------------------
(* Writers *)

Responses == [Writer -> Response]

LEMMA Levels ==
  /\ N \in Nat /\ N >= 1 /\ MaxWrites \in Nat
  /\ Level \subseteq Writer /\ Raw \in Writer /\ Raw \notin Level /\ NoWriter \notin Writer
  /\ \A x \in Writer : x # Raw => x \in Level
  /\ Level \subseteq 1 .. App /\ App \notin Level /\ App \in 1 .. App
  /\ \A i \in 1 .. App : i # App => i \in Level /\ i + 1 \in 1 .. App
  /\ \A i \in Level : i + 1 \in 1 .. App /\ i \in Int
BY ChainAssumption, WritesAssumption DEF Level, Writer, Raw, App, NoWriter

LEMMA Statuses ==
  /\ 0 \in Status /\ 200 \in Status /\ 500 \in Status
  /\ \A i \in 1 .. App : StatusOf(i) \in Status
  /\ \A s \in Status : s \in Nat
BY Levels DEF Status, StatusOf, App

LEMMA Chunks ==
  /\ \A i \in Level, phase \in {"request", "response", "error"}, k \in 0 .. MaxWrites :
       <<i, phase, k>> \in Chunk
  /\ \A k \in 0 .. MaxWrites : <<App, "running", k>> \in Chunk
  /\ \A i \in Level : ErrorText(i) \in Chunk
<1>1. 0 \in 0 .. MaxWrites
  BY Levels
<1> QED
  BY <1>1 DEF Chunk, ErrorText

LEMMA Singleton ==
  ASSUME NEW c \in Chunk
  PROVE  <<c>> \in Seq(Chunk) /\ <<c>> # <<>> /\ <<>> \in Seq(Chunk)
OBVIOUS

\* A response that is not a function of its status and its body alone would not
\* be updated by them.
LEMMA ResponseFields ==
  ASSUME NEW o \in Responses, NEW x \in Writer
  PROVE  /\ o[x] \in Response /\ o[x].status \in Status /\ o[x].status \in Nat
         /\ o[x].body \in Seq(Chunk)
         /\ o[x] = [status |-> o[x].status, body |-> o[x].body]
BY Statuses DEF Responses, Response

\* The call changed what writer x holds to this body and status, and no other one.
Effect(o, p, x, body, status) ==
  /\ p \in Responses
  /\ \A y \in Writer : y # x => p[y] = o[y]
  /\ p[x].body = body
  /\ p[x].status = status

LEMMA HeaderWritten ==
  ASSUME NEW o \in Responses, NEW x \in Writer, NEW status \in Status
  PROVE  Effect(o, WriteHeader(o, x, status), x, o[x].body,
                IF x = Raw /\ o[x].status # 0 THEN o[x].status ELSE status)
<1> DEFINE s == IF x = Raw /\ o[x].status # 0 THEN o[x].status ELSE status
<1>1. s \in Status /\ o[x] \in Response
  BY ResponseFields
<1>2. WriteHeader(o, x, status) = [o EXCEPT ![x].status = s]
  BY DEF WriteHeader
<1>3. [o[x] EXCEPT !.status = s] \in Response
  BY <1>1 DEF Response
<1> HIDE DEF s
<1>4. [o[x] EXCEPT !.status = s].status = s /\ [o[x] EXCEPT !.status = s].body = o[x].body
  BY <1>1 DEF Response
<1>5. Effect(o, [o EXCEPT ![x].status = s], x, o[x].body, s)
  BY <1>3, <1>4 DEF Responses, Effect
<1> QED
  BY <1>2, <1>5 DEF s

LEMMA Written ==
  ASSUME NEW o \in Responses, NEW x \in Writer, NEW body \in Seq(Chunk)
  PROVE  Effect(o, Write(o, x, body), x, o[x].body \o body,
                IF x = Raw /\ o[x].status = 0 THEN 200 ELSE o[x].status)
<1> DEFINE s == IF x = Raw /\ o[x].status = 0 THEN 200 ELSE o[x].status
           b == o[x].body \o body
<1>1. s \in Status
  BY ResponseFields, Statuses
<1>2. b \in Seq(Chunk)
  BY ResponseFields, ConcatProperties
<1>3. Write(o, x, body) = [o EXCEPT ![x] = [status |-> s, body |-> b]]
  BY DEF Write
<1> HIDE DEF s, b
<1>4. [status |-> s, body |-> b] \in Response
  BY <1>1, <1>2 DEF Response
<1>5. Effect(o, [o EXCEPT ![x] = [status |-> s, body |-> b]], x, b, s)
  BY <1>4 DEF Responses, Effect
<1> QED
  BY <1>3, <1>5 DEF s, b

LEMMA Reset ==
  ASSUME NEW o \in Responses, NEW x \in Writer
  PROVE  Effect(o, ResponseBodyWriter(o, x), x, IF x = Raw THEN o[x].body ELSE <<>>, o[x].status)
<1>1. o[x] \in Response /\ <<>> \in Seq(Chunk)
  BY ResponseFields, EmptySeq
<1>2. CASE x = Raw
  BY <1>2 DEF ResponseBodyWriter, Effect
<1>3. CASE x # Raw
  <2>1. ResponseBodyWriter(o, x) = [o EXCEPT ![x].body = <<>>]
    BY <1>3 DEF ResponseBodyWriter
  <2>2. [o[x] EXCEPT !.body = <<>>] \in Response
    BY <1>1 DEF Response
  <2>3. [o[x] EXCEPT !.body = <<>>].body = <<>> /\ [o[x] EXCEPT !.body = <<>>].status = o[x].status
    BY <1>1 DEF Response
  <2> QED
    BY <1>3, <2>1, <2>2, <2>3 DEF Responses, Effect
<1> QED
  BY <1>2, <1>3

\* release writes to the delegate, and only to it; a status the client was sent
\* before stays, and otherwise the client is sent that of the buffer.
LEMMA Released ==
  ASSUME NEW o \in Responses, NEW x \in Writer, NEW y \in Writer, y = Given(x), y # x
  PROVE  \E status :
           /\ Effect(o, Release(o, x), y, o[y].body \o o[x].body, status)
           /\ y = Raw /\ o[y].status # 0 => status = o[y].status
           /\ y = Raw /\ o[y].status = 0 /\ o[x] # Empty =>
                status = IF o[x].status = 0 THEN 200 ELSE o[x].status
<1>0. /\ o[x].status \in Status /\ o[x].status \in Nat /\ o[x].body \in Seq(Chunk)
      /\ o[y].body \in Seq(Chunk) /\ o[x] = [status |-> o[x].status, body |-> o[x].body]
  BY ResponseFields
<1>1. PICK h, t :
        /\ h = IF o[x].status = 0 THEN o ELSE WriteHeader(o, y, o[x].status)
        /\ Effect(o, h, y, o[y].body, t)
        /\ t = IF o[x].status = 0 \/ (y = Raw /\ o[y].status # 0) THEN o[y].status
               ELSE o[x].status
  <2>1. CASE o[x].status = 0
    BY <2>1 DEF Effect
  <2>2. CASE o[x].status # 0
    BY <1>0, <2>2, HeaderWritten
  <2> QED
    BY <2>1, <2>2
<1>2. h \in Responses /\ h[y].body = o[y].body /\ h[y].status = t /\ \A z \in Writer : z # y => h[z] = o[z]
  BY <1>1 DEF Effect
<1>3. Release(o, x) = IF o[x].body = <<>> THEN h ELSE Write(h, y, o[x].body)
  BY <1>1 DEF Release
<1>4. CASE o[x].body = <<>>
  <2>1. o[y].body \o o[x].body = o[y].body
    BY <1>0, <1>4, ConcatEmptySeq
  <2>2. o[x] # Empty => o[x].status # 0
    BY <1>0, <1>4 DEF Empty
  <2>3. Effect(o, Release(o, x), y, o[y].body \o o[x].body, t)
    BY <1>1, <1>3, <1>4, <2>1
  <2> QED
    BY <1>1, <2>2, <2>3
<1>5. CASE o[x].body # <<>>
  <2> DEFINE s == IF y = Raw /\ t = 0 THEN 200 ELSE t
  <2>1. Effect(h, Write(h, y, o[x].body), y, o[y].body \o o[x].body, s)
    BY <1>0, <1>2, Written
  <2>2. Effect(o, Release(o, x), y, o[y].body \o o[x].body, s)
    BY <1>2, <1>3, <1>5, <2>1 DEF Effect
  <2>3. /\ y = Raw /\ o[y].status # 0 => s = o[y].status
        /\ y = Raw /\ o[y].status = 0 => s = IF o[x].status = 0 THEN 200 ELSE o[x].status
    BY <1>0, <1>1
  <2> HIDE DEF s
  <2> QED
    BY <2>2, <2>3
<1> QED
  BY <1>4, <1>5

\* handleErr writes to the writer ServeHTTP was called with, and only to it.
LEMMA ErrWritten ==
  ASSUME NEW o \in Responses, NEW i \in Level, NEW y \in Writer, y = Given(i)
  PROVE  \E body, status :
           /\ Effect(o, HandleErr(o, i), y, body, status)
           /\ y # Raw \/ o[y].status = 0 => status = 500
<1>1. PICK h, k :
        /\ h = WriteHeader(o, y, 500) /\ Effect(o, h, y, o[y].body, k)
        /\ k = IF y = Raw /\ o[y].status # 0 THEN o[y].status ELSE 500
  BY Statuses, HeaderWritten
<1>2. h \in Responses /\ h[y].status = k /\ \A z \in Writer : z # y => h[z] = o[z]
  BY <1>1 DEF Effect
<1>3. PICK b \in Seq(Chunk) : b = <<ErrorText(i)>>
  BY Chunks, Singleton
<1>4. HandleErr(o, i) = Write(h, y, b)
  BY <1>1, <1>3 DEF HandleErr
<1>5. Effect(h, Write(h, y, b), y, h[y].body \o b, IF y = Raw /\ k = 0 THEN 200 ELSE k)
  BY <1>2, Written
<1>6. Effect(o, HandleErr(o, i), y, h[y].body \o b, IF y = Raw /\ k = 0 THEN 200 ELSE k)
  BY <1>2, <1>4, <1>5 DEF Effect
<1>7. y # Raw \/ o[y].status = 0 => (IF y = Raw /\ k = 0 THEN 200 ELSE k) = 500
  BY <1>1
<1> QED
  BY <1>6, <1>7

-----------------------------------------------------------------------------
(* The inductive invariant *)

Active(i) == pc[i] \in {"request", "next", "response"}
Idle(i) == pc[i] = "idle"

\* One goroutine: before the handler that runs, every one is waiting for its
\* next; behind it nobody has been called, or everybody has returned.
OrderInv ==
  /\ pc[App] \in {"idle", "running"} \cup Ended
  /\ \A i \in Level : pc[i] # "running"
  /\ \A i, j \in 1 .. App : i < j =>
       /\ pc[i] \in {"idle", "request"} => pc[j] = "idle"
       /\ pc[i] # "next" => pc[j] \in {"idle"} \cup Ended

\* A handler uses the buffer it was given, or makes one on the client's writer.
WriterInv(i) ==
  /\ w[i] <= i
  /\ Active(i) => w[i] \in IF Given(i) = Raw THEN {Raw, i} ELSE {Given(i)}
  /\ Active(i) /\ w[i] # Raw => Given(w[i]) = Raw

\* The buffer ServeHTTP will release is still s.w, and that of every handler
\* called since.
ReleaseInv(i) ==
  /\ pc[i] \in {"idle", "request"} => release[i] = Raw
  /\ release[i] # Raw =>
       w[i] = release[i] /\ \A j \in i + 1 .. N : pc[j] # "idle" => w[j] = w[i]

\* Unless the guest wrote in handle_request, its first write in handle_response
\* creates the response body writer, on s.w.
CacheInv(i) ==
  /\ pc[i] \in {"idle", "request", "next"} /\ ~early[i] => cached[i] = NoWriter
  /\ pc[i] = "response" /\ release[i] # Raw /\ ~early[i] =>
       cached[i] = IF writes[i] = 0 THEN NoWriter ELSE w[i]

ReaderInv(i) == reader[i] = "response" => pc[i] = "response" /\ seen[i] # <<>>

ControlInv ==
  /\ TypeOK
  /\ OrderInv
  /\ \A i \in Level : WriterInv(i) /\ ReleaseInv(i) /\ CacheInv(i) /\ ReaderInv(i)

-----------------------------------------------------------------------------
(* What the order of the calls implies *)

\* Whoever runs is called by the ones before it.
LEMMA Upstream ==
  ASSUME OrderInv, NEW i \in 1 .. App, NEW k \in 1 .. App, k < i,
         pc[i] \notin {"idle"} \cup Ended
  PROVE  pc[k] = "next"
BY DEF OrderInv

\* So is whoever is called next.
LEMMA UpstreamOfCalled ==
  ASSUME OrderInv, NEW i \in 1 .. App, NEW k \in 1 .. App, k < i, Called(i)
  PROVE  pc[k] = "next"
<1>1. i - 1 \in 1 .. App /\ pc[i - 1] = "next"
  BY Levels DEF Called
<1>2. CASE k = i - 1
  BY <1>1, <1>2
<1>3. CASE k # i - 1
  <2>1. k < i - 1
    BY Levels, <1>3
  <2> QED
    BY <1>1, <2>1 DEF OrderInv, Ended
<1> QED
  BY <1>2, <1>3

Runs(i) == pc[i] \in {"request", "response", "running"}

\* While the guest of handler i is in handle_response, nobody else runs.
LEMMA Sole ==
  ASSUME OrderInv, NEW i \in Level, NEW k \in 1 .. App, pc[i] = "response", Runs(k)
  PROVE  k = i
<1>1. i \in 1 .. App
  BY Levels
<1>2. CASE k < i
  BY <1>1, <1>2, Upstream DEF Runs, Ended
<1>3. CASE i < k
  BY <1>1, <1>3 DEF OrderInv, Runs, Ended
<1> QED
  BY <1>1, <1>2, <1>3, Levels

\* Call i changed its state from pc[i] to v.
LEMMA OrderStep ==
  ASSUME pc \in [1 .. App -> PC], OrderInv, NEW i \in 1 .. App, NEW v \in PC,
         pc' = [pc EXCEPT ![i] = v],
         \/ Called(i) /\ v = IF i = App THEN "running" ELSE "request"
         \/ i \in Level /\ pc[i] = "request" /\ v \in {"next"} \cup Ended
         \/ i \in Level /\ pc[i] = "next" /\ pc[i + 1] \in Ended /\ v = "response"
         \/ pc[i] \in {"response", "running"} /\ v \in Ended
  PROVE  OrderInv'
<1>0. pc'[i] = v /\ \A k \in 1 .. App : k # i => pc'[k] = pc[k]
  OBVIOUS
<1>1. pc'[App] \in {"idle", "running"} \cup Ended
  BY <1>0, Levels DEF OrderInv
<1>2. \A k \in Level : pc'[k] # "running"
  BY <1>0, Levels DEF OrderInv, Ended
<1>3. ASSUME NEW k \in 1 .. App, k < i
      PROVE  pc'[k] = "next"
  <2>1. CASE Called(i)
    BY <1>0, <1>3, <2>1, UpstreamOfCalled
  <2>2. CASE pc[i] \notin {"idle"} \cup Ended
    BY <1>0, <1>3, <2>2, Upstream
  <2> QED
    BY <2>1, <2>2 DEF Ended
<1>4. ASSUME NEW j \in 1 .. App, i < j
      PROVE  /\ v \in {"idle", "request"} => pc'[j] = "idle"
             /\ v # "next" => pc'[j] \in {"idle"} \cup Ended
  <2>1. CASE pc[i] \in {"idle", "request"}
    BY <1>0, <1>4, <2>1, Levels DEF OrderInv
  <2>2. CASE pc[i] = "next" /\ pc[i + 1] \in Ended /\ v = "response"
    <3>1. i + 1 \in 1 .. App
      BY <1>4, Levels
    <3>2. CASE j = i + 1
      BY <1>0, <1>4, <2>2, <3>2
    <3>3. CASE i + 1 < j
      BY <1>0, <1>4, <2>2, <3>1, <3>3 DEF OrderInv, Ended
    <3> QED
      BY <1>4, <2>2, <3>2, <3>3
  <2>3. CASE pc[i] \in {"response", "running"} /\ v \in Ended
    BY <1>0, <1>4, <2>3 DEF OrderInv, Ended
  <2> QED
    BY <2>1, <2>2, <2>3 DEF Called
<1>5. \A k, j \in 1 .. App : k < j /\ k # i /\ j # i =>
        /\ pc'[k] \in {"idle", "request"} => pc'[j] = "idle"
        /\ pc'[k] # "next" => pc'[j] \in {"idle"} \cup Ended
  BY <1>0 DEF OrderInv
<1>6. \A k, j \in 1 .. App : k < j =>
        /\ pc'[k] \in {"idle", "request"} => pc'[j] = "idle"
        /\ pc'[k] # "next" => pc'[j] \in {"idle"} \cup Ended
  BY <1>0, <1>3, <1>4, <1>5
<1> QED
  BY <1>1, <1>2, <1>6 DEF OrderInv

-----------------------------------------------------------------------------
(* The writers a step may leave behind *)

\* Nothing of handler k changed.
Kept(k) ==
  /\ pc'[k] = pc[k] /\ w'[k] = w[k] /\ release'[k] = release[k] /\ writes'[k] = writes[k]
  /\ cached'[k] = cached[k] /\ early'[k] = early[k] /\ sent'[k] = sent[k]
  /\ reader'[k] = reader[k] /\ seen'[k] = seen[k]

OnlyAt(i) == \A k \in Level : k # i => Kept(k)

\* Handler i is called.
Starts(i) ==
  /\ Called(i)
  /\ pc'[i] = "request"
  /\ w'[i] \in {Given(i), Wrap(i, Given(i))}
  /\ release'[i] = release[i]

\* It goes on: nothing, or a writer that is no buffer, becomes its buffer.
Continues(i) ==
  /\ pc'[i] = pc[i] /\ InGuest(i)
  /\ w'[i] \in {w[i], Wrap(i, w[i])}
  /\ release'[i] = release[i]

\* It goes to its next phase.
Advances(i) ==
  /\ Active(i)
  /\ pc'[i] \in {"next", "response"} \cup Ended
  /\ w'[i] = w[i]
  /\ \/ pc[i] = "request" /\ release'[i] = w[i]
     \/ release'[i] = release[i]

LEMMA GivenTyped ==
  ASSUME TypeOK, NEW i \in 1 .. App
  PROVE  Given(i) \in Writer /\ (i # 1 => i - 1 \in Level)
BY Levels DEF TypeOK, Given, Level, Writer, App, Raw

\* Writers are taken from the front of the chain.
LEMMA GivenBelow ==
  ASSUME TypeOK, NEW i \in Level, \A k \in Level : w[k] <= k
  PROVE  Given(i) < i
BY Levels DEF TypeOK, Given, Level, Writer, Raw

LEMMA WriterStep ==
  ASSUME ControlInv, NEW i \in Level, OnlyAt(i), w' \in [Level -> Writer],
         Starts(i) \/ Continues(i) \/ Advances(i),
         NEW j \in Level
  PROVE  WriterInv(j)'
<1> DEFINE G(k) == IF k = 1 THEN Raw ELSE w'[k - 1]
<1>0. /\ TypeOK /\ OrderInv /\ \A k \in Level : WriterInv(k) /\ k \in 1 .. App /\ k \in Int
      /\ \A x \in Writer : x # Raw => x \in Level
      /\ Level = 1 .. N /\ N \in Nat
  BY Levels DEF ControlInv, Level
<1>1. \A k \in Level : k # i => w'[k] = w[k] /\ pc'[k] = pc[k]
  BY DEF OnlyAt, Kept
<1>2. Active(j) \/ (j = i /\ Called(j)) \/ pc'[j] \notin {"request", "next", "response"}
  BY <1>1 DEF Starts, Continues, Advances, InGuest, Active
\* The handlers in front of one that is called or runs keep their writers.
<1>3. ASSUME Active(j) \/ (j = i /\ Called(j)), NEW k \in Level, k < j
      PROVE  pc[k] = "next" /\ w'[k] = w[k]
  <2>1. pc[k] = "next"
    BY <1>0, <1>3, Upstream, UpstreamOfCalled DEF Active, Ended
  <2>2. k = i => w'[k] = w[k]
    BY <2>1 DEF Starts, Called, Continues, InGuest, Advances
  <2> QED
    BY <1>1, <2>1, <2>2
<1>4. ASSUME Active(j) \/ (j = i /\ Called(j)), NEW k \in Level, k <= j
      PROVE  G(k) = Given(k)
  <2>1. CASE k = 1
    BY <2>1 DEF Given
  <2>2. CASE k # 1
    <3>1. k - 1 \in Level /\ k - 1 < j
      BY <1>0, <1>4, <2>2
    <3> QED
      BY <1>3, <1>4, <2>2, <3>1 DEF Given
  <2> QED
    BY <2>1, <2>2
<1>5. /\ \A k \in Level : w[k] <= k
      /\ WriterInv(j)
  BY <1>0 DEF WriterInv
<1>6. w'[j] <= j
  <2>1. Given(j) < j
    BY <1>0, <1>5, GivenBelow
  <2>2. Given(j) \in Writer
    BY <1>0, GivenTyped
  <2> QED
    BY <1>0, <1>1, <1>5, <2>1, <2>2 DEF Starts, Continues, Advances, Wrap, Writer
<1>7. ASSUME pc'[j] \in {"request", "next", "response"}
      PROVE  w'[j] \in IF G(j) = Raw THEN {Raw, j} ELSE {G(j)}
  <2>1. G(j) = Given(j)
    BY <1>0, <1>2, <1>4, <1>7
  <2>2. Active(j) => w[j] \in IF Given(j) = Raw THEN {Raw, j} ELSE {Given(j)}
    BY <1>5 DEF WriterInv
  <2>3. CASE j # i
    <3>1. Active(j)
      BY <1>2, <1>7, <2>3
    <3> QED
      BY <1>1, <2>1, <2>2, <2>3, <3>1
  <2>4. CASE j = i
    <3>1. CASE Starts(i)
      BY <2>1, <2>4, <3>1 DEF Starts, Wrap
    <3>2. CASE Continues(i)
      <4>1. Active(j)
        BY <2>4, <3>2 DEF Continues, InGuest, Active
      <4> QED
        BY <2>1, <2>2, <2>4, <3>2, <4>1 DEF Continues, Wrap
    <3>3. CASE Advances(i)
      BY <2>1, <2>2, <2>4, <3>3 DEF Advances
    <3> QED
      BY <3>1, <3>2, <3>3
  <2> QED
    BY <2>3, <2>4
<1>8. ASSUME pc'[j] \in {"request", "next", "response"}, w'[j] # Raw
      PROVE  G(w'[j]) = Raw
  <2>1. PICK x \in Level : x = w'[j] /\ x <= j
    BY <1>0, <1>6, <1>8
  <2>2. Active(j) \/ (j = i /\ Called(j))
    BY <1>2, <1>8
  <2>3. G(x) = Given(x) /\ G(j) = Given(j)
    BY <1>0, <1>4, <2>1, <2>2
  <2>4. CASE G(j) = Raw
    BY <1>7, <1>8, <2>1, <2>3, <2>4
  <2>5. CASE G(j) # Raw
    <3>1. j # 1 /\ j - 1 \in Level /\ j - 1 < j
      BY <1>0, <2>5
    <3>2. x = w[j - 1] /\ pc[j - 1] = "next"
      BY <1>3, <1>7, <1>8, <2>1, <2>2, <2>3, <2>5, <3>1 DEF Given
    <3>3. WriterInv(j - 1) /\ Active(j - 1)
      BY <1>0, <3>1, <3>2 DEF Active
    <3>4. Given(x) = Raw
      BY <1>8, <2>1, <3>2, <3>3 DEF WriterInv
    <3> QED
      BY <2>1, <2>3, <3>4
  <2> QED
    BY <2>4, <2>5
<1> HIDE DEF G
<1>9. \A k : Given(k)' = G(k')
  BY DEF Given, G
<1> QED
  BY <1>6, <1>7, <1>8, <1>9 DEF WriterInv, Active

LEMMA ReleaseStep ==
  ASSUME ControlInv, NEW i \in Level, OnlyAt(i),
         Starts(i) \/ Continues(i) \/ Advances(i),
         NEW j \in Level
  PROVE  ReleaseInv(j)'
<1>0. /\ OrderInv /\ \A k \in Level : ReleaseInv(k) /\ k \in 1 .. App /\ k \in Int
      /\ Level = 1 .. N /\ N \in Nat
  BY Levels DEF ControlInv, Level
<1>1. \A k \in Level : k # i => w'[k] = w[k] /\ pc'[k] = pc[k] /\ release'[k] = release[k]
  BY DEF OnlyAt, Kept
<1>2. ReleaseInv(j) /\ \A k \in j + 1 .. N : k \in Level /\ j < k
  BY <1>0
<1>3. pc'[j] \in {"idle", "request"} => release'[j] = Raw
  BY <1>1, <1>2 DEF ReleaseInv, Starts, Called, Continues, Advances, Ended
<1>4. ASSUME release'[j] # Raw, j # i
      PROVE  w'[j] = release'[j] /\ \A k \in j + 1 .. N : pc'[k] # "idle" => w'[k] = w'[j]
  <2>1. w[j] = release[j] /\ w[j] # Raw /\ w'[j] = w[j] /\ release'[j] = release[j]
    BY <1>1, <1>2, <1>4 DEF ReleaseInv
  <2>2. \A k \in j + 1 .. N : pc[k] # "idle" => w[k] = w[j]
    BY <1>1, <1>2, <1>4 DEF ReleaseInv
  <2>3. ASSUME i \in j + 1 .. N
        PROVE  w'[i] = w[j]
    <3>1. CASE Starts(i)
      <4>1. Given(i) = w[i - 1] /\ pc[i - 1] = "next"
        BY <1>0, <2>3, <3>1 DEF Starts, Called, Given
      <4>2. w[i - 1] = w[j]
        <5>1. CASE i - 1 = j
          BY <5>1
        <5>2. CASE i - 1 # j
          <6>1. i - 1 \in j + 1 .. N
            BY <1>0, <2>3, <5>2
          <6> QED
            BY <2>2, <4>1, <6>1
        <5> QED
          BY <5>1, <5>2
      <4> QED
        BY <2>1, <3>1, <4>1, <4>2 DEF Starts, Wrap
    <3>2. CASE Continues(i)
      BY <2>1, <2>2, <2>3, <3>2 DEF Continues, InGuest, Wrap
    <3>3. CASE Advances(i)
      BY <2>1, <2>2, <2>3, <3>3 DEF Advances, Active
    <3> QED
      BY <3>1, <3>2, <3>3
  <2> QED
    BY <1>1, <1>2, <2>1, <2>2, <2>3
<1>5. ASSUME release'[j] # Raw, j = i
      PROVE  w'[j] = release'[j] /\ \A k \in j + 1 .. N : pc'[k] # "idle" => w'[k] = w'[j]
  <2>1. \A k \in j + 1 .. N : k # i /\ w'[k] = w[k] /\ pc'[k] = pc[k]
    BY <1>0, <1>1, <1>2, <1>5
  <2>2. CASE Advances(i) /\ pc[i] = "request" /\ release'[i] = w[i]
    <3>1. \A k \in j + 1 .. N : pc[k] = "idle"
      BY <1>0, <1>2, <1>5, <2>2 DEF OrderInv
    <3> QED
      BY <1>5, <2>1, <2>2, <3>1 DEF Advances
  <2>3. CASE release'[i] = release[i]
    <3>1. w[i] = release[i] /\ w[i] # Raw /\ pc[i] # "idle"
      BY <1>2, <1>5, <2>3 DEF ReleaseInv
    <3>2. w'[i] = w[i]
      BY <3>1 DEF Starts, Called, Continues, Advances, Wrap
    <3> QED
      BY <1>2, <1>5, <2>1, <2>3, <3>1, <3>2 DEF ReleaseInv
  <2> QED
    BY <2>2, <2>3 DEF Starts, Continues, Advances
<1> QED
  BY <1>3, <1>4, <1>5 DEF ReleaseInv

LEMMA LocalStep ==
  ASSUME ControlInv, NEW i \in Level, OnlyAt(i), TypeOK', OrderInv',
         Starts(i) \/ Continues(i) \/ Advances(i),
         CacheInv(i)', ReaderInv(i)'
  PROVE  ControlInv'
<1>1. w' \in [Level -> Writer]
  BY DEF TypeOK
<1>2. ASSUME NEW j \in Level
      PROVE  WriterInv(j)' /\ ReleaseInv(j)'
  BY <1>1, <1>2, WriterStep, ReleaseStep
<1>3. ASSUME NEW j \in Level
      PROVE  CacheInv(j)' /\ ReaderInv(j)'
  <2>1. CASE j = i
    BY <2>1
  <2>2. CASE j # i
    <3>1. Kept(j) /\ CacheInv(j) /\ ReaderInv(j)
      BY <1>3, <2>2 DEF OnlyAt, ControlInv
    <3> QED
      BY <3>1 DEF Kept, CacheInv, ReaderInv
  <2> QED
    BY <2>1, <2>2
<1> QED
  BY <1>2, <1>3 DEF ControlInv

\* What ControlInv says of one handler.
LEMMA AtLevel ==
  ASSUME ControlInv, NEW i \in Level
  PROVE  /\ TypeOK /\ OrderInv
         /\ WriterInv(i) /\ ReleaseInv(i) /\ CacheInv(i) /\ ReaderInv(i)
         /\ i \in 1 .. App /\ w[i] \in Writer /\ Given(i) \in Writer /\ Given(i) # i
         /\ out \in Responses
<1>1. TypeOK /\ i \in 1 .. App /\ i \in Int /\ \A k \in Level : w[k] <= k
  BY Levels DEF ControlInv, WriterInv
<1>2. w[i] \in Writer /\ out \in Responses
  BY <1>1 DEF TypeOK, Responses
<1>3. Given(i) \in Writer /\ Given(i) < i
  BY <1>1, GivenTyped, GivenBelow
<1>4. Given(i) # i
  BY <1>1, <1>3 DEF Writer
<1> QED
  BY <1>1, <1>2, <1>3, <1>4 DEF ControlInv

\* The deferred release writes to the delegate of the buffer.
LEMMA DeferredEffect ==
  ASSUME ControlInv, NEW o \in Responses, NEW x \in Writer
  PROVE  /\ Deferred(o, x) \in Responses
         /\ x = Raw => Deferred(o, x) = o
         /\ x # Raw => \E status :
              /\ Effect(o, Deferred(o, x), Given(x), o[Given(x)].body \o o[x].body, status)
              /\ Given(x) = Raw /\ o[Raw].status # 0 => status = o[Raw].status
              /\ Given(x) = Raw /\ o[Raw].status = 0 /\ o[x] # Empty =>
                   status = IF o[x].status = 0 THEN 200 ELSE o[x].status
<1>1. CASE x = Raw
  BY <1>1 DEF Deferred
<1>2. CASE x # Raw
  <2>1. x \in Level
    BY <1>2, Levels
  <2>2. PICK y \in Writer : y = Given(x) /\ y # x
    BY <2>1, AtLevel
  <2>3. Deferred(o, x) = Release(o, x)
    BY <1>2 DEF Deferred
  <2>4. \E status :
          /\ Effect(o, Release(o, x), y, o[y].body \o o[x].body, status)
          /\ y = Raw /\ o[y].status # 0 => status = o[y].status
          /\ y = Raw /\ o[y].status = 0 /\ o[x] # Empty =>
                status = IF o[x].status = 0 THEN 200 ELSE o[x].status
    BY <2>2, Released
  <2>5. Release(o, x) \in Responses
    BY <2>4 DEF Effect
  <2> QED
    BY <1>2, <2>2, <2>3, <2>4, <2>5
<1> QED
  BY <1>1, <1>2

LEMMA HandleErrTyped ==
  ASSUME ControlInv, NEW i \in Level
  PROVE  HandleErr(out, i) \in Responses
<1>1. PICK y \in Writer : y = Given(i)
  BY AtLevel
<1>2. out \in Responses
  BY AtLevel
<1>3. \E body, status : Effect(out, HandleErr(out, i), y, body, status)
  BY <1>1, <1>2, ErrWritten
<1> QED
  BY <1>3 DEF Effect

-----------------------------------------------------------------------------
(* Every action preserves the invariant *)

LEMMA ServeHTTPStep ==
  ASSUME ControlInv, NEW i \in Level, ServeHTTP(i)
  PROVE  ControlInv'
<1>1. TypeOK /\ OrderInv /\ i \in 1 .. App /\ Given(i) \in Writer /\ i # App
      /\ CacheInv(i) /\ ReaderInv(i) /\ ReleaseInv(i) /\ i \in Writer
  BY AtLevel, Levels
<1>2. PICK start \in BOOLEAN :
        /\ buffers' = [buffers EXCEPT ![i] = start]
        /\ w' = [w EXCEPT ![i] = IF start THEN Wrap(i, Given(i)) ELSE Given(i)]
  BY DEF ServeHTTP
<1>3. Called(i) /\ pc[i] = "idle" /\ pc' = [pc EXCEPT ![i] = "request"]
      /\ UNCHANGED <<release, out, cached, writes, early, sent, reader, seen>>
  BY DEF ServeHTTP, Called, reads
<1>4. TypeOK'
  BY <1>1, <1>2, <1>3 DEF TypeOK, PC, Wrap
<1>5. OnlyAt(i)
  BY <1>1, <1>2, <1>3, Levels DEF TypeOK, OnlyAt, Kept
<1>6. Starts(i)
  BY <1>1, <1>2, <1>3 DEF TypeOK, Starts
<1>7. OrderInv'
  BY <1>1, <1>3, OrderStep DEF TypeOK, PC
<1>8. CacheInv(i)' /\ ReaderInv(i)'
  <2>1. pc'[i] = "request"
    BY <1>6 DEF Starts
  <2> QED
    BY <1>1, <1>3, <2>1 DEF CacheInv, ReaderInv
<1> QED
  BY <1>4, <1>5, <1>6, <1>7, <1>8, LocalStep

LEMMA EnableFeaturesStep ==
  ASSUME ControlInv, NEW i \in Level, EnableFeatures(i)
  PROVE  ControlInv'
<1>1. TypeOK /\ OrderInv /\ i \in 1 .. App /\ w[i] \in Writer /\ i \in Writer
      /\ CacheInv(i) /\ ReaderInv(i) /\ ReleaseInv(i)
  BY AtLevel, Levels
<1>2. /\ InGuest(i) /\ w' = [w EXCEPT ![i] = Wrap(i, w[i])]
      /\ buffers' = [buffers EXCEPT ![i] = TRUE]
      /\ UNCHANGED <<pc, release, out, cached, writes, early, sent, reader, seen>>
  BY DEF EnableFeatures, reads
<1>3. w'[i] = Wrap(i, w[i]) /\ \A k \in Level : k # i => w'[k] = w[k]
  BY <1>1, <1>2 DEF TypeOK
<1>4. TypeOK'
  BY <1>1, <1>2 DEF TypeOK, Wrap
<1>5. OnlyAt(i) /\ Continues(i)
  BY <1>2, <1>3 DEF OnlyAt, Kept, Continues
<1>6. OrderInv'
  BY <1>1, <1>2 DEF OrderInv
<1>7. release[i] # Raw => w'[i] = w[i]
  BY <1>1, <1>3 DEF ReleaseInv, Wrap
<1>8. CacheInv(i)' /\ ReaderInv(i)'
  BY <1>1, <1>2, <1>7 DEF CacheInv, ReaderInv
<1> QED
  BY <1>4, <1>5, <1>6, <1>8, LocalStep

LEMMA SetStatusCodeStep ==
  ASSUME ControlInv, NEW i \in Level, SetStatusCode(i)
  PROVE  /\ ControlInv'
         /\ \E status : Effect(out, out', w[i], out[w[i]].body, status)
<1>1. TypeOK /\ OrderInv /\ i \in 1 .. App /\ out \in Responses
      /\ CacheInv(i) /\ ReaderInv(i)
  BY AtLevel
<1>2. PICK x \in Writer : x = w[i]
  BY AtLevel
<1>3. PICK s \in Status : s = StatusOf(i)
  BY <1>1, Statuses
<1>4. out' = WriteHeader(out, x, s) /\ InGuest(i)
      /\ UNCHANGED <<pc, w, buffers, release, cached, writes, early, sent, reader, seen>>
  BY <1>2, <1>3 DEF SetStatusCode, chain, reads
<1>5. \E status : Effect(out, out', x, out[x].body, status)
  BY <1>1, <1>4, HeaderWritten
<1>6. TypeOK'
  BY <1>1, <1>4, <1>5 DEF Effect, Responses, TypeOK
<1>7. OnlyAt(i) /\ Continues(i)
  BY <1>4 DEF OnlyAt, Kept, Continues
<1>8. OrderInv' /\ CacheInv(i)' /\ ReaderInv(i)'
  BY <1>1, <1>4 DEF OrderInv, CacheInv, ReaderInv
<1> QED
  BY <1>2, <1>5, <1>6, <1>7, <1>8, LocalStep

\* The writer of write_body, and the body it holds when the guest writes.
Cached(i) == IF cached[i] = NoWriter THEN w[i] ELSE cached[i]
Before(i) == IF cached[i] = NoWriter /\ w[i] # Raw THEN <<>> ELSE out[Cached(i)].body

LEMMA WriteBodyStep ==
  ASSUME ControlInv, NEW i \in Level, WriteBody(i)
  PROVE  /\ ControlInv'
         /\ \E status :
              Effect(out, out', Cached(i), Before(i) \o <<<<i, pc[i], writes[i] + 1>>>>, status)
<1>1. TypeOK /\ OrderInv /\ i \in 1 .. App /\ out \in Responses
      /\ CacheInv(i) /\ ReaderInv(i) /\ MaxWrites \in Nat /\ w[i] \in Writer
  BY AtLevel, Levels
<1>2. PICK x \in Writer : x = Cached(i)
  <2>1. cached[i] \in Writer \cup {NoWriter}
    BY <1>1 DEF TypeOK
  <2> QED
    BY <1>1, <2>1 DEF Cached
<1>3. PICK k \in 0 .. MaxWrites : k = writes[i] + 1 /\ k # 0
  <2>1. writes[i] \in Nat
    BY <1>1 DEF TypeOK
  <2>2. writes[i] < MaxWrites
    BY DEF WriteBody
  <2> QED
    BY <1>1, <2>1, <2>2
<1>4. /\ InGuest(i) /\ writes' = [writes EXCEPT ![i] = k]
      /\ early' = [early EXCEPT ![i] = @ \/ pc[i] = "request"]
      /\ cached' = [cached EXCEPT ![i] = x]
      /\ UNCHANGED <<pc, w, buffers, release, sent, reader, seen>>
  BY <1>2, <1>3 DEF WriteBody, Cached, chain, reads
<1>5. writes'[i] = k
  BY <1>1, <1>4 DEF TypeOK
<1>6. PICK c \in Seq(Chunk) : c = <<<<i, pc[i], k>>>>
  BY <1>4, Chunks, Singleton DEF InGuest
<1>7. PICK o : /\ o = IF cached[i] = NoWriter THEN ResponseBodyWriter(out, x) ELSE out
               /\ Effect(out, o, x, Before(i), out[x].status)
  <2>1. CASE cached[i] = NoWriter
    <3>1. Effect(out, ResponseBodyWriter(out, x), x, IF x = Raw THEN out[x].body ELSE <<>>, out[x].status)
      BY <1>1, Reset
    <3> QED
      BY <1>2, <2>1, <3>1 DEF Before, Cached
  <2>2. CASE cached[i] # NoWriter
    BY <1>1, <1>2, <2>2 DEF Before, Effect
  <2> QED
    BY <2>1, <2>2
<1>8. out' = Write(o, x, c)
  BY <1>2, <1>5, <1>6, <1>7 DEF WriteBody, Cached
<1>9. o \in Responses /\ o[x].body = Before(i) /\ \A y \in Writer : y # x => o[y] = out[y]
  BY <1>7 DEF Effect
<1>10. PICK status : Effect(o, out', x, Before(i) \o c, status)
  BY <1>8, <1>9, Written
<1>11. Effect(out, out', x, Before(i) \o c, status)
  BY <1>9, <1>10 DEF Effect
<1>12. out' \in [Writer -> Response]
  BY <1>11 DEF Effect, Responses
<1>13. TypeOK'
  BY <1>1, <1>4, <1>12 DEF TypeOK
<1>14. /\ \A j \in Level : j # i => writes'[j] = writes[j] /\ early'[j] = early[j] /\ cached'[j] = cached[j]
       /\ early'[i] = (early[i] \/ pc[i] = "request") /\ cached'[i] = x
  BY <1>1, <1>4, Levels DEF TypeOK
<1>15. OnlyAt(i) /\ Continues(i)
  BY <1>4, <1>14 DEF OnlyAt, Kept, Continues
<1>16. OrderInv' /\ ReaderInv(i)'
  BY <1>1, <1>4 DEF OrderInv, ReaderInv
<1>17. CacheInv(i)'
  BY <1>1, <1>2, <1>3, <1>4, <1>5, <1>14 DEF CacheInv, InGuest, Cached
<1> QED
  BY <1>2, <1>3, <1>6, <1>11, <1>13, <1>15, <1>16, <1>17, LocalStep

LEMMA ReadBodyStep ==
  ASSUME ControlInv, NEW i \in Level, ReadBody(i)
  PROVE  ControlInv'
<1>1. TypeOK /\ OrderInv /\ i \in 1 .. App /\ out \in Responses /\ w[i] \in Writer
      /\ CacheInv(i) /\ ReaderInv(i)
  BY AtLevel
<1>2. PICK b \in Seq(Chunk) : b = out[w[i]].body
  BY <1>1, ResponseFields
<1>3. /\ InGuest(i) /\ reader' = [reader EXCEPT ![i] = IF @ = "none" THEN pc[i] ELSE @]
      /\ pc[i] = "response" => seen' = [seen EXCEPT ![i] = <<IF reader[i] = "none" THEN b ELSE <<>>>>]
      /\ pc[i] = "request" => seen' = seen
      /\ UNCHANGED <<pc, w, buffers, release, out, cached, writes, early, sent>>
  BY <1>2 DEF ReadBody, ResponseBodyReader, chain
<1>4. reader'[i] = (IF reader[i] = "none" THEN pc[i] ELSE reader[i])
      /\ \A k \in Level : k # i => reader'[k] = reader[k]
  BY <1>1, <1>3 DEF TypeOK
<1>5. reader' \in [Level -> {"none", "request", "response"}]
  BY <1>1, <1>3 DEF TypeOK, InGuest
<1>6. PICK d \in Seq(Chunk) : d = IF reader[i] = "none" THEN b ELSE <<>>
  BY <1>2, EmptySeq
<1>7. <<d>> \in Seq(Seq(Chunk)) /\ <<d>> # <<>>
  OBVIOUS
<1>8. /\ seen' \in [Level -> Seq(Seq(Chunk))]
      /\ \A k \in Level : k # i => seen'[k] = seen[k]
      /\ pc[i] = "response" => seen'[i] # <<>>
  <2>1. CASE pc[i] = "response"
    BY <1>1, <1>3, <1>6, <1>7, <2>1 DEF TypeOK
  <2>2. CASE pc[i] = "request"
    BY <1>1, <1>3, <2>2 DEF TypeOK
  <2> QED
    BY <1>3, <2>1, <2>2 DEF InGuest
<1>9. TypeOK'
  BY <1>1, <1>3, <1>5, <1>8 DEF TypeOK
<1>10. OnlyAt(i) /\ Continues(i)
  BY <1>3, <1>4, <1>8 DEF OnlyAt, Kept, Continues
<1>11. OrderInv' /\ CacheInv(i)' /\ ReaderInv(i)'
  BY <1>1, <1>3, <1>4, <1>8 DEF OrderInv, CacheInv, ReaderInv, InGuest
<1> QED
  BY <1>9, <1>10, <1>11, LocalStep

\* A handler that ends sends o and the buffer x.
LEMMA EndStep ==
  ASSUME ControlInv, NEW i \in Level, pc[i] \in {"request", "response"}, NEW end \in Ended,
         pc' = [pc EXCEPT ![i] = end], cached' = [cached EXCEPT ![i] = NoWriter],
         CloseReader(i), out' \in Responses,
         UNCHANGED <<chain, writes, early, sent>>
  PROVE  ControlInv'
<1>1. TypeOK /\ OrderInv /\ i \in 1 .. App /\ end \in PC
  BY AtLevel DEF Ended, PC
<1>2. UNCHANGED <<w, buffers, release, writes, early, sent>>
  BY DEF chain
<1>3. /\ reader' = [reader EXCEPT ![i] = "none"]
      /\ seen' = [seen EXCEPT ![i] = <<>>]
  BY DEF CloseReader
<1>4. <<>> \in Seq(Seq(Chunk))
  OBVIOUS
<1>5. TypeOK'
  BY <1>1, <1>2, <1>3, <1>4 DEF TypeOK, Responses
<1>6. pc'[i] = end /\ OnlyAt(i)
  BY <1>1, <1>2, <1>3, Levels DEF TypeOK, OnlyAt, Kept
<1>7. Advances(i)
  BY <1>2, <1>6 DEF Advances, Active
<1>8. OrderInv'
  BY <1>1, OrderStep DEF TypeOK
<1>9. CacheInv(i)' /\ ReaderInv(i)'
  <2>1. reader'[i] = "none"
    BY <1>1, <1>3 DEF TypeOK
  <2> QED
    BY <1>6, <2>1 DEF CacheInv, ReaderInv, Ended
<1> QED
  BY <1>5, <1>6, <1>7, <1>8, <1>9, LocalStep

LEMMA SkipStep ==
  ASSUME ControlInv, NEW i \in Level, Skip(i)
  PROVE  ControlInv'
<1>1. Deferred(out, w[i]) \in Responses
  BY AtLevel, DeferredEffect
<1> QED
  BY <1>1, EndStep DEF Skip, Ended

LEMMA RequestFailsStep ==
  ASSUME ControlInv, NEW i \in Level, RequestFails(i)
  PROVE  ControlInv'
<1>1. PICK o \in Responses : o = HandleErr(out, i)
  BY HandleErrTyped
<1>2. Deferred(o, w[i]) \in Responses
  BY AtLevel, DeferredEffect
<1> QED
  BY <1>1, <1>2, EndStep DEF RequestFails, Ended

LEMMA ProceedStep ==
  ASSUME ControlInv, NEW i \in Level, Proceed(i)
  PROVE  /\ ControlInv' /\ OnlyAt(i)
         /\ pc[i] = "request" /\ pc'[i] = "next" /\ sent'[i] = out'[Raw]
<1>1. TypeOK /\ OrderInv /\ i \in 1 .. App /\ out \in Responses /\ w[i] \in Writer
      /\ CacheInv(i) /\ ReaderInv(i) /\ "next" \in PC
  BY AtLevel DEF PC
<1>2. out' \in Responses
  BY <1>1, HandleErrTyped DEF Proceed
<1>3. /\ pc[i] = "request" /\ pc' = [pc EXCEPT ![i] = "next"]
      /\ release' = [release EXCEPT ![i] = w[i]]
      /\ sent' = [sent EXCEPT ![i] = out'[Raw]]
      /\ UNCHANGED <<w, buffers, cached, writes, early, reader, seen>>
  BY DEF Proceed, reads
<1>4. out'[Raw] \in Response
  BY <1>2, Levels DEF Responses
<1>5. TypeOK'
  BY <1>1, <1>2, <1>3, <1>4 DEF TypeOK, Responses
<1>6. /\ pc'[i] = "next" /\ release'[i] = w[i] /\ sent'[i] = out'[Raw]
      /\ OnlyAt(i)
  BY <1>1, <1>3, Levels DEF TypeOK, OnlyAt, Kept
<1>7. Advances(i)
  BY <1>3, <1>6 DEF Advances, Active
<1>8. OrderInv'
  BY <1>1, <1>3, OrderStep DEF TypeOK
<1>9. CacheInv(i)' /\ ReaderInv(i)'
  BY <1>1, <1>3, <1>6 DEF CacheInv, ReaderInv
<1> QED
  BY <1>3, <1>5, <1>6, <1>7, <1>8, <1>9, LocalStep

LEMMA HandleResponseStep ==
  ASSUME ControlInv, NEW i \in Level, HandleResponse(i)
  PROVE  /\ ControlInv' /\ OnlyAt(i) /\ writes'[i] = 0
         /\ pc[i] = "next" /\ pc'[i] = "response"
<1>1. TypeOK /\ OrderInv /\ i \in 1 .. App /\ CacheInv(i) /\ ReaderInv(i)
      /\ "response" \in PC /\ MaxWrites \in Nat
  BY AtLevel, Levels DEF PC
<1>2. /\ pc[i] = "next" /\ pc[i + 1] \in Ended /\ pc' = [pc EXCEPT ![i] = "response"]
      /\ writes' = [writes EXCEPT ![i] = 0]
      /\ UNCHANGED <<w, buffers, release, out, cached, early, sent, reader, seen>>
  BY DEF HandleResponse, chain, reads
<1>3. TypeOK'
  BY <1>1, <1>2 DEF TypeOK
<1>4. /\ pc'[i] = "response" /\ writes'[i] = 0 /\ OnlyAt(i)
  BY <1>1, <1>2, Levels DEF TypeOK, OnlyAt, Kept
<1>5. Advances(i)
  BY <1>2, <1>4 DEF Advances, Active
<1>6. OrderInv'
  BY <1>1, <1>2, OrderStep DEF TypeOK
<1>7. CacheInv(i)' /\ ReaderInv(i)'
  BY <1>1, <1>2, <1>4 DEF CacheInv, ReaderInv
<1> QED
  BY <1>2, <1>3, <1>4, <1>5, <1>6, <1>7, LocalStep

LEMMA ResponseEndsStep ==
  ASSUME ControlInv, NEW i \in Level, ResponseEnds(i)
  PROVE  /\ ControlInv' /\ OnlyAt(i)
         /\ pc[i] = "response" /\ pc'[i] \in Ended
<1>1. TypeOK /\ i \in 1 .. App /\ out \in Responses
  BY AtLevel
<1>2. release[i] \in Writer
  BY <1>1 DEF TypeOK
<1>3. Deferred(out, release[i]) \in Responses
  BY <1>1, <1>2, DeferredEffect
<1>4. PICK end \in Ended : pc' = [pc EXCEPT ![i] = end]
  BY DEF ResponseEnds
<1>5. ControlInv'
  BY <1>3, <1>4, EndStep DEF ResponseEnds
<1>6. pc'[i] = end /\ OnlyAt(i)
  BY <1>1, <1>4, Levels DEF TypeOK, OnlyAt, Kept, ResponseEnds, CloseReader, chain
<1> QED
  BY <1>4, <1>5, <1>6 DEF ResponseEnds

\* The steps of the application: it is behind all the handlers.
LEMMA AppStep ==
  ASSUME ControlInv, \A k \in Level : Kept(k), TypeOK', OrderInv'
  PROVE  ControlInv'
<1>1. \A k \in 1 .. N : k \in Level /\ (k # 1 => k - 1 \in Level) /\ \A j \in k + 1 .. N : j \in Level
  BY Levels DEF Level
<1>2. \A x \in Writer : x # Raw => x \in Level /\ (x # 1 => x - 1 \in Level)
  BY <1>1, Levels DEF Level
<1>3. \A x \in Level : w[x] \in Writer /\ w'[x] = w[x]
  BY DEF ControlInv, TypeOK, Kept
<1>4. \A x \in Level : (IF x = 1 THEN Raw ELSE w'[x - 1]) = IF x = 1 THEN Raw ELSE w[x - 1]
  BY <1>2, <1>3, Levels
<1>5. ASSUME NEW i \in Level
      PROVE  WriterInv(i)'
  <2>1. w'[i] = w[i] /\ pc'[i] = pc[i] /\ WriterInv(i)
    BY DEF Kept, ControlInv
  <2>2. PICK x : x = w[i] /\ x \in Writer
    BY <1>3
  <2>3. x # Raw => (IF x = 1 THEN Raw ELSE w'[x - 1]) = IF x = 1 THEN Raw ELSE w[x - 1]
    BY <1>2, <1>4, <2>2
  <2>4. (IF i = 1 THEN Raw ELSE w'[i - 1]) = IF i = 1 THEN Raw ELSE w[i - 1]
    BY <1>4
  <2> QED
    BY <2>1, <2>2, <2>3, <2>4 DEF WriterInv, Active, Given
<1>6. ASSUME NEW i \in Level
      PROVE  ReleaseInv(i)' /\ CacheInv(i)' /\ ReaderInv(i)'
  <2>1. Kept(i) /\ ReleaseInv(i) /\ CacheInv(i) /\ ReaderInv(i)
    BY DEF ControlInv
  <2>2. \A j \in i + 1 .. N : Kept(j)
    BY <1>1 DEF Level
  <2> QED
    BY <2>1, <2>2 DEF Kept, ReleaseInv, CacheInv, ReaderInv
<1> QED
  BY <1>5, <1>6 DEF ControlInv

LEMMA AppServeHTTPStep ==
  ASSUME ControlInv, AppServeHTTP
  PROVE  ControlInv'
<1>1. TypeOK /\ OrderInv /\ App \in 1 .. App /\ "running" \in PC
  BY Levels DEF ControlInv, PC
<1>2. /\ Called(App) /\ pc' = [pc EXCEPT ![App] = "running"]
      /\ UNCHANGED <<w, buffers, release, out, cached, writes, early, sent, reader, seen>>
  BY DEF AppServeHTTP, chain, reads
<1>3. TypeOK'
  BY <1>1, <1>2 DEF TypeOK
<1>4. \A k \in Level : Kept(k)
  BY <1>1, <1>2, Levels DEF TypeOK, Kept
<1>5. OrderInv'
  BY <1>1, <1>2, OrderStep DEF TypeOK
<1> QED
  BY <1>3, <1>4, <1>5, AppStep

LEMMA AppEndsStep ==
  ASSUME ControlInv, AppEnds
  PROVE  ControlInv'
<1>1. TypeOK /\ OrderInv /\ App \in 1 .. App
  BY Levels DEF ControlInv
<1>2. PICK end \in Ended :
      /\ pc[App] = "running" /\ pc' = [pc EXCEPT ![App] = end]
      /\ UNCHANGED <<w, buffers, release, out, cached, writes, early, sent, reader, seen>>
  BY DEF AppEnds, chain, reads
<1>3. end \in PC
  BY DEF PC, Ended
<1>4. TypeOK'
  BY <1>1, <1>2, <1>3 DEF TypeOK
<1>5. \A k \in Level : Kept(k)
  BY <1>1, <1>2, Levels DEF TypeOK, Kept
<1>6. OrderInv'
  BY <1>1, <1>2, <1>3, OrderStep DEF TypeOK
<1> QED
  BY <1>4, <1>5, <1>6, AppStep

LEMMA AppWritesStep ==
  ASSUME ControlInv, AppWrites
  PROVE  /\ ControlInv' /\ \A k \in Level : Kept(k)
         /\ pc[App] = "running"
         /\ \E body, status : Effect(out, out', Given(App), body, status)
<1>1. TypeOK /\ OrderInv /\ App \in 1 .. App /\ out \in Responses /\ MaxWrites \in Nat
  BY Levels DEF ControlInv, TypeOK, Responses
<1>2. PICK x \in Writer : x = Given(App)
  BY <1>1, GivenTyped
<1>3. /\ pc[App] = "running"
      /\ UNCHANGED <<pc, w, buffers, release, cached, early, sent, reader, seen>>
  BY DEF AppWrites, chain, reads
<1>4. /\ \E body, status : Effect(out, out', x, body, status)
      /\ writes' \in [1 .. App -> 0 .. MaxWrites]
      /\ \A k \in Level : writes'[k] = writes[k]
  <2>1. CASE out' = WriteHeader(out, Given(App), StatusOf(App)) /\ UNCHANGED writes
    <3>1. PICK s \in Status : s = StatusOf(App)
      BY <1>1, Statuses
    <3>2. out' = WriteHeader(out, x, s)
      BY <1>2, <2>1, <3>1
    <3>3. \E body, status : Effect(out, out', x, body, status)
      BY <1>1, <3>2, HeaderWritten
    <3> QED
      BY <1>1, <2>1, <3>3 DEF TypeOK
  <2>2. CASE /\ writes[App] < MaxWrites
             /\ writes' = [writes EXCEPT ![App] = @ + 1]
             /\ out' = Write(out, Given(App), <<<<App, "running", writes'[App]>>>>)
    <3>1. writes' \in [1 .. App -> 0 .. MaxWrites]
      BY <1>1, <2>2 DEF TypeOK
    <3>2. \A k \in Level : writes'[k] = writes[k]
      BY <1>1, <2>2, Levels DEF TypeOK
    <3>3. PICK k \in 0 .. MaxWrites : k = writes'[App]
      BY <1>1, <3>1
    <3>4. PICK c \in Seq(Chunk) : c = <<<<App, "running", k>>>>
      BY Chunks, Singleton
    <3>5. out' = Write(out, x, c)
      BY <1>2, <2>2, <3>3, <3>4
    <3>6. \E body, status : Effect(out, out', x, body, status)
      BY <1>1, <3>5, Written
    <3> QED
      BY <3>1, <3>2, <3>6
  <2> QED
    BY <2>1, <2>2 DEF AppWrites
<1>5. out' \in [Writer -> Response]
  BY <1>4 DEF Effect, Responses
<1>6. TypeOK'
  BY <1>1, <1>3, <1>4, <1>5 DEF TypeOK
<1>7. OrderInv' /\ \A k \in Level : Kept(k)
  BY <1>1, <1>3, <1>4 DEF OrderInv, Kept
<1>8. ControlInv'
  BY <1>6, <1>7, AppStep
<1> QED
  BY <1>2, <1>3, <1>4, <1>7, <1>8

LEMMA InitControl ==
  Init => ControlInv
<1> SUFFICES ASSUME Init PROVE ControlInv
  OBVIOUS
<1>1. /\ \A i \in 1 .. App : pc[i] = "idle" /\ writes[i] = 0
      /\ \A i \in Level : w[i] = Raw /\ release[i] = Raw /\ cached[i] = NoWriter /\ reader[i] = "none"
  BY Levels DEF Init
<1>2. Empty \in Response /\ <<>> \in Seq(Seq(Chunk))
  BY Statuses DEF Empty, Response
<1>3. TypeOK
  BY <1>2, Levels DEF Init, TypeOK, PC
<1>4. OrderInv
  BY <1>1, Levels DEF OrderInv
<1>5. \A i \in Level : WriterInv(i)
  BY <1>1, Levels DEF WriterInv, Active, Level, Raw
<1>6. \A i \in Level : ReleaseInv(i) /\ CacheInv(i) /\ ReaderInv(i)
  BY <1>1, Levels DEF ReleaseInv, CacheInv, ReaderInv
<1> QED
  BY <1>3, <1>4, <1>5, <1>6 DEF ControlInv

LEMMA StutterControl ==
  ASSUME ControlInv, UNCHANGED vars
  PROVE  ControlInv'
<1>1. UNCHANGED <<pc, w, buffers, release, out, cached, writes, early, sent, reader, seen>>
  BY DEF vars, chain, reads
<1>2. TypeOK' /\ OrderInv'
  BY <1>1 DEF ControlInv, TypeOK, OrderInv
<1>3. \A k \in Level : Kept(k)
  BY <1>1 DEF Kept
<1> QED
  BY <1>2, <1>3, AppStep

LEMMA ControlStep ==
  ASSUME ControlInv, [Next]_vars
  PROVE  ControlInv'
<1>1. ASSUME NEW i \in Level, ServeHTTP(i) \/ Guest(i) \/ HandleResponse(i)
      PROVE  ControlInv'
  BY <1>1, ServeHTTPStep, EnableFeaturesStep, SetStatusCodeStep, WriteBodyStep, ReadBodyStep,
     SkipStep, RequestFailsStep, ProceedStep, ResponseEndsStep, HandleResponseStep DEF Guest
<1>2. CASE AppServeHTTP \/ AppWrites \/ AppEnds
  BY <1>2, AppServeHTTPStep, AppWritesStep, AppEndsStep
<1>3. CASE UNCHANGED vars
  BY <1>3, StutterControl
<1> QED
  BY <1>1, <1>2, <1>3 DEF Next, Answered

\* Handlers run one inside the other, and a handler's writer, deferred buffer and
\* cached reader and writer are those its place in the chain allows.
THEOREM ControlIsInvariant == Spec => []ControlInv
<1>1. ControlInv /\ [Next]_vars => ControlInv'
  BY ControlStep
<1> QED
  BY InitControl, <1>1, PTL DEF Spec

\* Whatever the chain's guests and the application do, the state has its type.
THEOREM ResponseChainTypes == Spec => []TypeOK
<1>1. ControlInv => TypeOK
  BY DEF ControlInv
<1> QED
  BY <1>1, ControlIsInvariant, PTL

-----------------------------------------------------------------------------
(* What a step of another handler may do *)

\* The phases of a handler follow each other.
LEMMA Phases ==
  ASSUME ControlInv, [Next]_vars, NEW j \in Level
  PROVE  \/ pc'[j] = pc[j]
         \/ pc[j] = "idle" /\ pc'[j] = "request"
         \/ pc[j] = "request" /\ pc'[j] \in {"next"} \cup Ended
         \/ pc[j] = "next" /\ pc'[j] = "response"
         \/ pc[j] = "response" /\ pc'[j] \in Ended
<1>0. pc \in [1 .. App -> PC] /\ j \in 1 .. App /\ j # App
  BY Levels DEF ControlInv, TypeOK
<1>1. ASSUME NEW i \in Level, ServeHTTP(i) \/ Guest(i) \/ HandleResponse(i)
      PROVE  \E v \in PC :
        /\ pc' = pc \/ pc' = [pc EXCEPT ![i] = v]
        /\ \/ pc' = pc
           \/ pc[i] = "idle" /\ v = "request"
           \/ pc[i] = "request" /\ v \in {"next"} \cup Ended
           \/ pc[i] = "next" /\ v = "response"
           \/ pc[i] = "response" /\ v \in Ended
  BY <1>1 DEF ServeHTTP, Called, Guest, EnableFeatures, SetStatusCode, WriteBody, ReadBody, Skip,
     RequestFails, Proceed, ResponseEnds, HandleResponse, PC, Ended
<1>2. ASSUME AppServeHTTP \/ AppWrites \/ AppEnds
      PROVE  pc'[j] = pc[j]
  BY <1>0, <1>2 DEF AppServeHTTP, AppWrites, AppEnds
<1>3. CASE \E i \in Level : ServeHTTP(i) \/ Guest(i) \/ HandleResponse(i)
  BY <1>0, <1>1, <1>3
<1>4. CASE UNCHANGED vars
  BY <1>4 DEF vars
<1> QED
  BY <1>2, <1>3, <1>4 DEF Next, Answered

\* A step of somebody else.
Elsewhere(i) ==
  /\ Kept(i)
  /\ \/ out' = out
     \/ \E k \in Level : k # i /\ Runs(k) /\ pc'[k] # "idle"
     \/ /\ pc[App] = "running"
        /\ \E body, status : Effect(out, out', Given(App), body, status)

LEMMA StepElsewhere ==
  ASSUME ControlInv, [Next]_vars, NEW i \in Level
  PROVE  ServeHTTP(i) \/ Guest(i) \/ HandleResponse(i) \/ Elsewhere(i)
<1>0. TypeOK /\ \A k \in Level : k \in 1 .. App /\ k # App
  BY Levels DEF ControlInv
<1>1. ASSUME NEW k \in Level, ServeHTTP(k) \/ Guest(k) \/ HandleResponse(k), k # i
      PROVE  Elsewhere(i)
  <2>1. Kept(i)
    <3>1. CASE ServeHTTP(k)
      BY <1>0, <1>1, <3>1 DEF ServeHTTP, TypeOK, Kept, reads
    <3>2. CASE EnableFeatures(k) \/ SetStatusCode(k) \/ WriteBody(k)
      BY <1>0, <1>1, <3>2 DEF EnableFeatures, SetStatusCode, WriteBody, TypeOK, Kept, chain, reads
    <3>3. CASE ReadBody(k)
      BY <1>0, <1>1, <3>3 DEF ReadBody, InGuest, TypeOK, Kept, chain
    <3>4. CASE Skip(k) \/ RequestFails(k) \/ ResponseEnds(k)
      BY <1>0, <1>1, <3>4 DEF Skip, RequestFails, ResponseEnds, CloseReader, TypeOK, Kept, chain
    <3>5. CASE Proceed(k) \/ HandleResponse(k)
      BY <1>0, <1>1, <3>5 DEF Proceed, HandleResponse, TypeOK, Kept, chain, reads
    <3> QED
      BY <1>1, <3>1, <3>2, <3>3, <3>4, <3>5 DEF Guest
  <2>2. CASE out' = out
    BY <2>1, <2>2 DEF Elsewhere
  <2>3. CASE out' # out
    <3>1. Runs(k)
      BY <1>1, <2>3 DEF ServeHTTP, Guest, EnableFeatures, SetStatusCode, WriteBody, ReadBody, Skip,
         RequestFails, Proceed, ResponseEnds, HandleResponse, InGuest, Runs
    <3>2. pc'[k] # "idle"
      BY <3>1, Phases DEF Runs, Ended
    <3> QED
      BY <1>1, <2>1, <3>1, <3>2 DEF Elsewhere
  <2> QED
    BY <2>2, <2>3
<1>2. CASE AppWrites
  BY <1>2, AppWritesStep DEF Elsewhere
<1>3. CASE AppServeHTTP \/ AppEnds
  BY <1>0, <1>3 DEF AppServeHTTP, AppEnds, Elsewhere, Kept, TypeOK, chain, reads
<1>4. CASE UNCHANGED vars
  BY <1>4 DEF vars, chain, reads, Elsewhere, Kept
<1> QED
  BY <1>1, <1>2, <1>3, <1>4 DEF Next, Answered

\* Nobody behind a handler that buffered uses another buffer than it, so that it
\* shares its buffer as soon as there is a handler behind it.
Alone(i) == \A k \in Level : i < k => pc[k] = "idle"

LEMMA NotShared ==
  ASSUME NEW i \in Level, ReleaseInv(i), release[i] # Raw
  PROVE  ~Shared(i) <=> Alone(i)
<1>1. \A k : k \in i + 1 .. N <=> k \in Level /\ i < k
  BY Levels DEF Level
<1> QED
  BY <1>1 DEF ReleaseInv, Shared, Alone

LEMMA NotSharedNext ==
  ASSUME NEW i \in Level, ReleaseInv(i)', release'[i] # Raw
  PROVE  ~Shared(i)' <=> Alone(i)'
<1>1. \A k : k \in i + 1 .. N <=> k \in Level /\ i < k
  BY Levels DEF Level
<1> QED
  BY <1>1 DEF ReleaseInv, Shared, Alone

LEMMA AloneBefore ==
  ASSUME ControlInv, [Next]_vars, NEW i \in Level, Alone(i)'
  PROVE  Alone(i)
BY Phases DEF Alone, Ended

-----------------------------------------------------------------------------
(* Withheld *)

WithheldInv(i) ==
  pc[i] \in {"next", "response"} /\ release[i] # Raw /\ ~early[i] /\ Alone(i) =>
    out[Raw] = sent[i]

\* What a handler that buffered writes goes into its buffer.
LEMMA BufferedWrites ==
  ASSUME ControlInv, NEW i \in Level, pc[i] = "response", release[i] # Raw, ~early[i]
  PROVE  Cached(i) = w[i] /\ w[i] # Raw /\ w[i] \in Writer
BY AtLevel DEF CacheInv, ReleaseInv, Cached

LEMMA WithheldStep ==
  ASSUME ControlInv, [Next]_vars, NEW i \in Level, WithheldInv(i)
  PROVE  WithheldInv(i)'
<1> SUFFICES ASSUME pc'[i] \in {"next", "response"}, release'[i] # Raw, ~early'[i], Alone(i)'
             PROVE  out'[Raw] = sent'[i]
  BY DEF WithheldInv
<1>1. Alone(i)
  BY AloneBefore
<1>2. pc[i] \in {"request", "next", "response"} /\ TypeOK /\ OrderInv /\ Raw \in Writer
      /\ i \in 1 .. App /\ App \in 1 .. App /\ ReleaseInv(i) /\ i # App
  BY Phases, AtLevel, Levels DEF Ended
<1>3. CASE Proceed(i)
  BY <1>3, ProceedStep
<1>4. CASE Skip(i) \/ RequestFails(i) \/ ResponseEnds(i)
  <2>1. pc'[i] \in Ended
    BY <1>2, <1>4 DEF Skip, RequestFails, ResponseEnds, TypeOK, Ended
  <2> QED
    BY <2>1 DEF Ended
<1>5. CASE ServeHTTP(i)
  BY <1>2, <1>5 DEF ServeHTTP, Called
<1>6. CASE EnableFeatures(i) \/ ReadBody(i) \/ HandleResponse(i)
  <2>1. out' = out /\ sent' = sent /\ early' = early /\ release' = release
    BY <1>6 DEF EnableFeatures, ReadBody, HandleResponse, chain
  <2>2. pc[i] # "request"
    BY <1>2, <2>1 DEF ReleaseInv
  <2> QED
    BY <1>1, <1>2, <2>1, <2>2 DEF WithheldInv
<1>7. CASE SetStatusCode(i) \/ WriteBody(i)
  <2>1. pc' = pc /\ sent' = sent /\ release' = release /\ (early'[i] = early[i] \/ early'[i])
    BY <1>2, <1>7 DEF SetStatusCode, WriteBody, chain, TypeOK
  <2>2. pc[i] = "response" /\ ~early[i]
    <3>1. InGuest(i) /\ pc[i] # "request"
      BY <1>2, <1>7, <2>1 DEF ReleaseInv, SetStatusCode, WriteBody
    <3>2. early[i] => early'[i]
      BY <1>2, <1>7 DEF SetStatusCode, WriteBody, TypeOK
    <3> QED
      BY <3>1, <3>2 DEF InGuest
  <2>3. Cached(i) = w[i] /\ w[i] # Raw
    BY <2>1, <2>2, BufferedWrites
  <2>4. \E body, status : Effect(out, out', w[i], body, status)
    <3>1. SetStatusCode(i) => \E status : Effect(out, out', w[i], out[w[i]].body, status)
      BY SetStatusCodeStep
    <3>2. WriteBody(i) => \E status : Effect(out, out', Cached(i), Before(i) \o <<<<i, pc[i], writes[i] + 1>>>>, status)
      BY WriteBodyStep
    <3> QED
      BY <1>7, <2>3, <3>1, <3>2
  <2>5. out'[Raw] = out[Raw]
    BY <1>2, <2>3, <2>4 DEF Effect
  <2> QED
    BY <1>1, <2>1, <2>2, <2>5 DEF WithheldInv
<1>8. CASE Elsewhere(i)
  <2>1. /\ pc'[i] = pc[i] /\ release'[i] = release[i] /\ early'[i] = early[i] /\ sent'[i] = sent[i]
        /\ pc[i] # "request"
    BY <1>2, <1>8 DEF Elsewhere, Kept, ReleaseInv
  <2>2. CASE out' = out
    BY <1>1, <2>1, <2>2 DEF WithheldInv
  \* A handler in front waits; one behind has not been called.
  <2>3. CASE \E k \in Level : k # i /\ Runs(k) /\ pc'[k] # "idle"
    <3>1. PICK k \in Level : k # i /\ Runs(k) /\ pc'[k] # "idle"
      BY <2>3
    <3>2. k \in 1 .. App /\ k \in Int /\ i \in Int
      BY Levels
    <3>3. ~(i < k)
      BY <3>1 DEF Alone
    <3>4. ~(k < i)
      BY <1>2, <2>1, <3>1, <3>2, Upstream DEF Runs, Ended
    <3> QED
      BY <3>1, <3>2, <3>3, <3>4
  \* The application was called by handler i itself, with i's buffer.
  <2>4. CASE /\ pc[App] = "running"
             /\ \E body, status : Effect(out, out', Given(App), body, status)
    <3>1. \A k \in Level : pc[k] = "next"
      BY <1>2, <2>4, Levels, Upstream DEF Ended, Level, App
    <3>2. i = N
      BY <1>1, <3>1, Levels DEF Alone, Level
    <3>3. Given(App) = w[i] /\ w[i] # Raw
      BY <1>2, <2>1, <3>2, Levels DEF Given, App, ReleaseInv
    <3>4. out'[Raw] = out[Raw]
      BY <1>2, <2>4, <3>3 DEF Effect
    <3> QED
      BY <1>1, <2>1, <3>4 DEF WithheldInv
  <2> QED
    BY <1>8, <2>2, <2>3, <2>4 DEF Elsewhere
<1> QED
  BY <1>3, <1>4, <1>5, <1>6, <1>7, <1>8, StepElsewhere DEF Guest

\* Nothing reaches the client while a handler that buffers has the response to
\* itself, whatever the handlers in front of it do.
THEOREM NothingIsSentEarly == Spec => []Withheld
<1> DEFINE Inv == ControlInv /\ \A i \in Level : WithheldInv(i)
<1>1. Init => Inv
  <2>1. Init => \A i \in Level : WithheldInv(i)
    BY Levels DEF Init, WithheldInv
  <2> QED
    BY <2>1, InitControl
<1>2. Inv /\ [Next]_vars => Inv'
  BY ControlStep, WithheldStep
<1>3. Inv => Withheld
  BY AtLevel, NotShared DEF Withheld, WithheldInv, Buffers
<1> QED
  BY <1>1, <1>2, <1>3, PTL DEF Spec

-----------------------------------------------------------------------------
(* Delivered *)

DeliveredInv(i) ==
  pc[i] \in Ended /\ (i > 1 => pc[i - 1] = "next") /\ release[i] = i /\ ~early[i] /\ Alone(i) =>
    /\ out[Raw].body = sent[i].body \o out[i].body
    /\ sent[i].status = 0 /\ out[i] # Empty => out[Raw].status = GetStatusCode(out, i)

LEMMA DeliveredStep ==
  ASSUME ControlInv, [Next]_vars, NEW i \in Level, WithheldInv(i), DeliveredInv(i)
  PROVE  DeliveredInv(i)'
<1> SUFFICES ASSUME pc'[i] \in Ended, i > 1 => pc'[i - 1] = "next", release'[i] = i,
                    ~early'[i], Alone(i)'
             PROVE  /\ out'[Raw].body = sent'[i].body \o out'[i].body
                    /\ sent'[i].status = 0 /\ out'[i] # Empty =>
                         out'[Raw].status = GetStatusCode(out, i)'
  BY DEF DeliveredInv
<1>1. /\ TypeOK /\ OrderInv /\ ReleaseInv(i) /\ WriterInv(i) /\ out \in Responses
      /\ i \in Writer /\ i # Raw /\ Raw \in Writer /\ i \in 1 .. App /\ i \in Int
      /\ i > 1 => i - 1 \in Level
      /\ Alone(i)
  BY AtLevel, Levels, AloneBefore DEF Level
<1>2. CASE ResponseEnds(i)
  <2>1. /\ pc[i] = "response" /\ out' = Deferred(out, release[i])
        /\ UNCHANGED <<w, release, early, sent>>
    BY <1>2 DEF ResponseEnds, chain
  <2>2. release[i] = i /\ w[i] = i /\ Given(i) = Raw
    BY <1>1, <2>1 DEF ReleaseInv, WriterInv, Active
  <2>3. out[Raw] = sent[i]
    BY <1>1, <2>1, <2>2 DEF WithheldInv
  <2>4. PICK status :
          /\ Effect(out, out', Raw, out[Raw].body \o out[i].body, status)
          /\ out[Raw].status = 0 /\ out[i] # Empty =>
               status = IF out[i].status = 0 THEN 200 ELSE out[i].status
    BY <1>1, <2>1, <2>2, DeferredEffect
  <2>5. out'[i] = out[i] /\ out'[Raw].body = out[Raw].body \o out[i].body /\ out'[Raw].status = status
    BY <1>1, <2>4 DEF Effect
  <2> QED
    BY <2>1, <2>3, <2>4, <2>5 DEF GetStatusCode
\* Without next there is no release of the buffer to wait for.
<1>3. CASE Skip(i) \/ RequestFails(i)
  BY <1>1, <1>3 DEF Skip, RequestFails, chain, ReleaseInv
<1>4. ~(ServeHTTP(i) \/ HandleResponse(i) \/ Proceed(i))
  BY <1>1 DEF ServeHTTP, HandleResponse, Proceed, TypeOK, Ended
<1>5. ~(EnableFeatures(i) \/ SetStatusCode(i) \/ WriteBody(i) \/ ReadBody(i))
  BY <1>1 DEF EnableFeatures, SetStatusCode, WriteBody, ReadBody, InGuest, Ended
<1>6. CASE Elsewhere(i)
  <2>1. /\ pc'[i] = pc[i] /\ release'[i] = release[i] /\ early'[i] = early[i] /\ sent'[i] = sent[i]
    BY <1>6 DEF Elsewhere, Kept
  <2>2. ASSUME i > 1 PROVE pc[i - 1] = "next"
    <3>1. PICK j \in Level : j = i - 1 /\ j \in 1 .. App /\ j < i
      BY <1>1, <2>2, Levels
    <3>2. pc[j] # "request"
      BY <1>1, <2>1, <3>1 DEF OrderInv, Ended
    <3>3. pc'[j] = "next"
      BY <2>2, <3>1
    <3> QED
      BY <3>1, <3>2, <3>3, Phases DEF Ended
  <2>3. CASE out' = out
    BY <1>1, <2>1, <2>2, <2>3 DEF DeliveredInv, GetStatusCode
  \* Everyone in front waits, and everyone behind has not been called.
  <2>4. ASSUME NEW k \in 1 .. App, k # i
        PROVE  ~Runs(k)
    <3>1. CASE i < k
      BY <1>1, <2>1, <3>1, <2>4 DEF OrderInv, Runs, Ended
    <3>2. CASE k = i - 1
      BY <1>1, <2>2, <2>4, <3>2 DEF Runs
    <3>3. CASE k < i - 1
      <4>1. PICK j \in 1 .. App : j = i - 1 /\ k < j /\ pc[j] = "next"
        BY <1>1, <2>2, <2>4, <3>3, Levels
      <4>2. pc[k] = "next"
        BY <1>1, <4>1, Upstream DEF Ended
      <4> QED
        BY <4>2 DEF Runs
    <3> QED
      BY <1>1, <2>4, <3>1, <3>2, <3>3
  <2>5. ~Runs(App) /\ \A k \in Level : k # i => ~Runs(k)
    BY <1>1, <2>4, Levels
  <2> QED
    BY <1>6, <2>3, <2>5 DEF Elsewhere, Runs
<1> QED
  BY <1>2, <1>3, <1>4, <1>5, <1>6, StepElsewhere DEF Guest

\* What a handler buffered is sent once, and completely.
THEOREM BufferIsDelivered == Spec => []Delivered
<1> DEFINE Inv == ControlInv /\ \A i \in Level : WithheldInv(i) /\ DeliveredInv(i)
<1>1. Init => Inv
  <2>1. Init => \A i \in Level : WithheldInv(i) /\ DeliveredInv(i)
    BY Levels DEF Init, WithheldInv, DeliveredInv, Ended
  <2> QED
    BY <2>1, InitControl
<1>2. Inv /\ [Next]_vars => Inv'
  BY ControlStep, WithheldStep, DeliveredStep
<1>3. Inv => Delivered
  <2> SUFFICES ASSUME Inv, NEW i \in Level, pc[i] \in Ended, i > 1 => pc[i - 1] = "next",
                      release[i] = i, ~early[i], ~Shared(i)
               PROVE  /\ out[Raw].body = sent[i].body \o out[i].body
                      /\ sent[i].status = 0 /\ out[i] # Empty => out[Raw].status = GetStatusCode(out, i)
    BY DEF Delivered
  <2>1. Alone(i)
    BY AtLevel, NotShared, Levels
  <2> QED
    BY <2>1 DEF DeliveredInv
<1> QED
  BY <1>1, <1>2, <1>3, PTL DEF Spec

-----------------------------------------------------------------------------
(* ReadsWhatNextWrote and FirstWriteOverwrites *)

ReadsInv(i) ==
  pc[i] = "response" /\ Buffers(i) /\ writes[i] = 0 /\ reader[i] = "response" =>
    seen[i] = <<out[w[i]].body>>

\* Chunks the guest of handler i wrote in handle_response.
OwnChunks(i, n) == [k \in 1 .. n |-> <<i, "response", k>>]

OverwritesInv(i) ==
  pc[i] = "response" /\ Buffers(i) /\ writes[i] > 0 /\ ~early[i] =>
    out[w[i]].body = OwnChunks(i, writes[i])

\* Nobody else writes while the guest of a handler is in handle_response.
LEMMA NobodyElse ==
  ASSUME ControlInv, NEW i \in Level, Elsewhere(i), pc'[i] = "response"
  PROVE  Kept(i) /\ out' = out /\ pc[i] = "response"
<1>1. OrderInv /\ App \in 1 .. App /\ i # App /\ \A k \in Level : k \in 1 .. App
  BY Levels DEF ControlInv
<1>2. Kept(i) /\ pc[i] = "response"
  BY DEF Elsewhere, Kept
<1> QED
  BY <1>1, <1>2, Sole DEF Elsewhere, Runs

LEMMA OneMore ==
  ASSUME NEW i, NEW n \in Nat, NEW c, c = <<i, "response", n + 1>>
  PROVE  OwnChunks(i, n) \o <<c>> = OwnChunks(i, n + 1)
<1>1. OwnChunks(i, n) \in Seq({<<i, "response", k>> : k \in Nat}) /\ Len(OwnChunks(i, n)) = n
  BY IsASeq DEF OwnChunks
<1> QED
  BY <1>1 DEF OwnChunks

LEMMA WritesTyped ==
  ASSUME TypeOK, NEW i \in 1 .. App
  PROVE  writes[i] \in Nat
<1>1. writes[i] \in 0 .. MaxWrites
  BY DEF TypeOK
<1> QED
  BY <1>1, Levels

LEMMA ReadsStep ==
  ASSUME ControlInv, [Next]_vars, NEW i \in Level, ReadsInv(i)
  PROVE  ReadsInv(i)'
<1> SUFFICES ASSUME pc'[i] = "response", release'[i] # Raw, writes'[i] = 0, reader'[i] = "response"
             PROVE  seen'[i] = <<out'[w'[i]].body>>
  BY DEF ReadsInv, Buffers
<1>1. /\ TypeOK /\ ReleaseInv(i) /\ ReaderInv(i) /\ out \in Responses /\ i \in 1 .. App
      /\ w[i] \in Writer
  BY AtLevel
<1>2. CASE ReadBody(i)
  <2>1. /\ pc[i] = "response" /\ out' = out /\ w' = w /\ release' = release /\ writes' = writes
        /\ seen[i] = <<>>
    BY <1>2 DEF ReadBody, chain
  <2>2. reader[i] = "none"
    BY <1>1, <1>2, <2>1 DEF ReadBody, ReaderInv, TypeOK
  <2> QED
    BY <1>1, <1>2, <2>1, <2>2 DEF ReadBody, ResponseBodyReader, TypeOK
<1>3. CASE EnableFeatures(i)
  <2>1. /\ pc[i] = "response" /\ release[i] # Raw
        /\ UNCHANGED <<out, writes, reader, seen>>
    BY <1>3 DEF EnableFeatures, reads
  <2>2. w'[i] = w[i]
    BY <1>1, <1>3, <2>1 DEF EnableFeatures, ReleaseInv, Wrap, TypeOK
  <2> QED
    BY <2>1, <2>2 DEF ReadsInv, Buffers
<1>4. CASE SetStatusCode(i)
  <2>1. /\ pc[i] = "response" /\ release[i] # Raw
        /\ UNCHANGED <<w, writes, reader, seen>>
    BY <1>4 DEF SetStatusCode, chain, reads
  <2>2. out'[w[i]].body = out[w[i]].body
    BY <1>4, SetStatusCodeStep DEF Effect
  <2> QED
    BY <2>1, <2>2, <1>4 DEF ReadsInv, Buffers, SetStatusCode
<1>5. ~WriteBody(i)
  <2>1. WriteBody(i) => writes'[i] = writes[i] + 1
    BY <1>1 DEF WriteBody, TypeOK
  <2>2. writes[i] \in Nat
    BY <1>1, WritesTyped
  <2> QED
    BY <2>1, <2>2
<1>6. ~(Skip(i) \/ RequestFails(i) \/ ResponseEnds(i) \/ Proceed(i) \/ ServeHTTP(i))
  BY <1>1 DEF Skip, RequestFails, ResponseEnds, Proceed, ServeHTTP, TypeOK, Ended
\* The reader of handle_response is not there when it starts.
<1>7. ~HandleResponse(i)
  BY <1>1 DEF HandleResponse, ReaderInv, reads
<1>8. CASE Elsewhere(i)
  BY <1>8, NobodyElse DEF Kept, ReadsInv, Buffers
<1> QED
  BY <1>2, <1>3, <1>4, <1>5, <1>6, <1>7, <1>8, StepElsewhere DEF Guest

LEMMA OverwritesStep ==
  ASSUME ControlInv, [Next]_vars, NEW i \in Level, OverwritesInv(i)
  PROVE  OverwritesInv(i)'
<1> SUFFICES ASSUME pc'[i] = "response", release'[i] # Raw, writes'[i] > 0, ~early'[i]
             PROVE  out'[w'[i]].body = OwnChunks(i, writes'[i])
  BY DEF OverwritesInv, Buffers, OwnChunks
<1>1. /\ TypeOK /\ ReleaseInv(i) /\ CacheInv(i) /\ out \in Responses /\ i \in 1 .. App
      /\ w[i] \in Writer
  BY AtLevel
<1>0. writes[i] \in Nat
  BY <1>1, WritesTyped
<1>2. CASE WriteBody(i)
  <2>1. /\ pc[i] = "response" /\ release[i] # Raw /\ w' = w
        /\ writes'[i] = writes[i] + 1 /\ ~early[i]
    BY <1>0, <1>1, <1>2 DEF WriteBody, chain, TypeOK
  <2>2. Cached(i) = w[i] /\ w[i] # Raw
    BY <2>1, BufferedWrites
  <2>3. PICK c : c = <<i, "response", writes[i] + 1>>
    OBVIOUS
  <2>4. out'[w[i]].body = Before(i) \o <<c>>
    BY <1>2, <2>1, <2>2, <2>3, WriteBodyStep DEF Effect
  <2>5. Before(i) = OwnChunks(i, writes[i])
    <3>1. CASE writes[i] = 0
      <4>1. cached[i] = NoWriter
        BY <1>1, <2>1, <3>1 DEF CacheInv
      <4>2. OwnChunks(i, 0) = <<>>
        BY DEF OwnChunks
      <4> QED
        BY <2>2, <3>1, <4>1, <4>2 DEF Before
    <3>2. CASE writes[i] > 0
      <4>1. cached[i] = w[i] /\ w[i] # NoWriter
        BY <1>1, <2>1, <3>2, Levels DEF CacheInv
      <4>2. out[w[i]].body = OwnChunks(i, writes[i])
        BY <2>1, <3>2 DEF OverwritesInv, Buffers
      <4> QED
        BY <2>2, <4>1, <4>2 DEF Before
    <3> QED
      BY <1>0, <3>1, <3>2
  <2> QED
    BY <1>0, <2>1, <2>3, <2>4, <2>5, OneMore
<1>3. CASE EnableFeatures(i)
  <2>1. /\ pc[i] = "response" /\ release[i] # Raw
        /\ UNCHANGED <<out, writes, early>>
    BY <1>3 DEF EnableFeatures
  <2>2. w'[i] = w[i]
    BY <1>1, <1>3, <2>1 DEF EnableFeatures, ReleaseInv, Wrap, TypeOK
  <2> QED
    BY <2>1, <2>2 DEF OverwritesInv, Buffers
<1>4. CASE SetStatusCode(i)
  <2>1. /\ pc[i] = "response" /\ release[i] # Raw
        /\ UNCHANGED <<w, writes, early>>
    BY <1>4 DEF SetStatusCode, chain
  <2>2. out'[w[i]].body = out[w[i]].body
    BY <1>4, SetStatusCodeStep DEF Effect
  <2> QED
    BY <2>1, <2>2, <1>4 DEF OverwritesInv, Buffers, SetStatusCode
<1>5. CASE ReadBody(i)
  BY <1>5 DEF ReadBody, chain, OverwritesInv, Buffers
<1>6. ~(Skip(i) \/ RequestFails(i) \/ ResponseEnds(i) \/ Proceed(i) \/ ServeHTTP(i))
  BY <1>1 DEF Skip, RequestFails, ResponseEnds, Proceed, ServeHTTP, TypeOK, Ended
<1>7. ~HandleResponse(i)
  BY HandleResponseStep
<1>8. CASE Elsewhere(i)
  BY <1>8, NobodyElse DEF Kept, OverwritesInv, Buffers
<1> QED
  BY <1>2, <1>3, <1>4, <1>5, <1>6, <1>7, <1>8, StepElsewhere DEF Guest

\* A guest that buffered reads all that was written behind it.
THEOREM NextIsRead == Spec => []ReadsWhatNextWrote
<1> DEFINE Inv == ControlInv /\ \A i \in Level : ReadsInv(i)
<1>1. Init => Inv
  <2>1. Init => \A i \in Level : ReadsInv(i)
    BY Levels DEF Init, ReadsInv
  <2> QED
    BY <2>1, InitControl
<1>2. Inv /\ [Next]_vars => Inv'
  BY ControlStep, ReadsStep
<1>3. Inv => ReadsWhatNextWrote
  BY DEF ReadsWhatNextWrote, ReadsInv
<1> QED
  BY <1>1, <1>2, <1>3, PTL DEF Spec

\* Its first write replaces what was written behind it.
THEOREM NextIsOverwritten == Spec => []FirstWriteOverwrites
<1> DEFINE Inv == ControlInv /\ \A i \in Level : OverwritesInv(i)
<1>1. Init => Inv
  <2>1. Init => \A i \in Level : OverwritesInv(i)
    BY Levels DEF Init, OverwritesInv
  <2> QED
    BY <2>1, InitControl
<1>2. Inv /\ [Next]_vars => Inv'
  BY ControlStep, OverwritesStep
<1>3. Inv => FirstWriteOverwrites
  BY DEF FirstWriteOverwrites, OverwritesInv, OwnChunks
<1> QED
  BY <1>1, <1>2, <1>3, PTL DEF Spec

-----------------------------------------------------------------------------
(* RequestFailureIs500 *)

LEMMA FailureStep ==
  ASSUME ControlInv, NEW i \in Level, RequestFails(i), out[Raw] = Empty
  PROVE  out'[Raw].status = 500
<1>1. /\ WriterInv(i) /\ pc[i] = "request" /\ out \in Responses /\ w[i] \in Writer
      /\ Raw \in Writer /\ out[Raw].status = 0
  BY AtLevel, Levels DEF RequestFails, Empty
<1>2. PICK y \in Writer : y = Given(i)
  BY AtLevel
<1>3. PICK o \in Responses : o = HandleErr(out, i)
  BY HandleErrTyped
<1>4. PICK body, status :
        /\ Effect(out, o, y, body, status)
        /\ y # Raw \/ out[y].status = 0 => status = 500
  BY <1>1, <1>2, <1>3, ErrWritten
<1>5. /\ o \in Responses /\ o[y].status = 500
      /\ \A z \in Writer : z # y => o[z] = out[z]
  BY <1>1, <1>4 DEF Effect
<1>6. out' = Deferred(o, w[i])
  BY <1>3 DEF RequestFails
\* The error was written to the client, and what is buffered does not replace it.
<1>7. CASE y = Raw
  <2>1. CASE w[i] = Raw
    BY <1>1, <1>5, <1>6, <1>7, <2>1, DeferredEffect
  <2>2. CASE w[i] # Raw
    <3>1. Given(w[i]) = Raw
      BY <1>1, <2>2 DEF WriterInv, Active
    <3>2. PICK x \in Writer : x = w[i] /\ x # Raw
      BY <1>1, <2>2
    <3>3. \E s :
            /\ Effect(o, Deferred(o, x), Given(x), o[Given(x)].body \o o[x].body, s)
            /\ Given(x) = Raw /\ o[Raw].status # 0 => s = o[Raw].status
            /\ Given(x) = Raw /\ o[Raw].status = 0 /\ o[x] # Empty =>
                 s = IF o[x].status = 0 THEN 200 ELSE o[x].status
      BY <3>2, DeferredEffect
    <3>4. Effect(o, out', Raw, o[Raw].body \o o[x].body, 500)
      BY <1>5, <1>6, <1>7, <3>1, <3>2, <3>3
    <3> QED
      BY <3>4 DEF Effect
  <2> QED
    BY <2>1, <2>2
\* It was written to the buffer, and is sent with it.
<1>8. CASE y # Raw
  <2>1. w[i] = y /\ Given(y) = Raw
    BY <1>1, <1>2, <1>8 DEF WriterInv, Active
  <2>2. o[Raw].status = 0 /\ o[y] # Empty
    BY <1>1, <1>5, <1>8 DEF Empty
  <2>3. \E s : Effect(o, Deferred(o, y), Given(y), o[Given(y)].body \o o[y].body, s)
               /\ (Given(y) = Raw /\ o[Raw].status = 0 /\ o[y] # Empty =>
                     s = IF o[y].status = 0 THEN 200 ELSE o[y].status)
    BY <1>5, <1>8, DeferredEffect
  <2> QED
    BY <1>5, <1>6, <2>1, <2>2, <2>3 DEF Effect
<1> QED
  BY <1>7, <1>8

\* A handle_request that fails before anything was sent is answered with 500.
THEOREM FailureIsReported == Spec => RequestFailureIs500
<1> DEFINE Reported == \A i \in Level : RequestFails(i) /\ out[Raw] = Empty => out'[Raw].status = 500
<1>1. ControlInv => Reported
  BY FailureStep
<1>2. ControlInv /\ [Next]_vars => [Reported]_vars
  BY <1>1
<1> QED
  BY <1>2, ControlIsInvariant, PTL DEF Spec, RequestFailureIs500

-----------------------------------------------------------------------------
(* HeldResponse: the client's response only grows *)

LEMMA PrefixIs ==
  ASSUME NEW s \in Seq(Chunk), NEW t \in Seq(Chunk)
  PROVE  Held!IsPrefix(s, t) <=> Len(s) <= Len(t) /\ \A k \in 1 .. Len(s) : s[k] = t[k]
<1>1. /\ Len(s) \in Nat /\ Len(t) \in Nat
      /\ s = [k \in 1 .. Len(s) |-> s[k]]
  OBVIOUS
<1>2. SubSeq(s, 1, Len(s)) = [k \in 1 .. Len(s) |-> s[k]]
  BY <1>1
<1>3. SubSeq(t, 1, Len(s)) = [k \in 1 .. Len(s) |-> t[k]]
  BY <1>1
<1> QED
  BY <1>1, <1>2, <1>3 DEF Held!IsPrefix

LEMMA PrefixOfConcat ==
  ASSUME NEW s \in Seq(Chunk), NEW t \in Seq(Chunk)
  PROVE  Held!IsPrefix(s, s \o t)
<1>1. PICK u : u = s \o t
  OBVIOUS
<1>2. u \in Seq(Chunk) /\ Len(u) = Len(s) + Len(t)
  BY <1>1, ConcatProperties
<1>3. \A k \in 1 .. Len(s) : u[k] = s[k]
  BY <1>1
<1>4. Len(s) \in Nat /\ Len(t) \in Nat
  OBVIOUS
<1>5. Len(s) <= Len(u)
  BY <1>2, <1>4
<1> QED
  BY <1>1, <1>2, <1>3, <1>5, PrefixIs

LEMMA PrefixOfPrefix ==
  ASSUME NEW s \in Seq(Chunk), NEW t \in Seq(Chunk), NEW u \in Seq(Chunk),
         Held!IsPrefix(s, t), Held!IsPrefix(t, u)
  PROVE  Held!IsPrefix(s, u)
<1>1. Len(s) \in Nat /\ Len(t) \in Nat /\ Len(u) \in Nat
  OBVIOUS
<1> QED
  BY <1>1, PrefixIs

\* Responses p after o: the client was sent no less.
Later(o, p) == p \in Responses /\ Held!Grows(o[Raw], p[Raw])

LEMMA LaterOf ==
  ASSUME NEW o \in Responses, NEW p \in Responses, NEW x \in Writer, NEW body \in Seq(Chunk), NEW status,
         Effect(o, p, x, body, status),
         x = Raw => /\ Held!IsPrefix(o[Raw].body, body)
                    /\ o[Raw].status # 0 => status = o[Raw].status
                    /\ body # o[Raw].body => status # 0
  PROVE  Later(o, p)
<1>1. o[Raw] \in Response /\ p[Raw] \in Response /\ o[Raw].body \in Seq(Chunk) /\ Raw \in Writer
  BY Levels, ResponseFields
<1>2. CASE x = Raw
  BY <1>1, <1>2 DEF Later, Effect, Held!Grows
<1>3. CASE x # Raw
  <2>1. p[Raw] = o[Raw]
    BY <1>1, <1>3 DEF Effect
  <2>2. Held!IsPrefix(o[Raw].body, o[Raw].body)
    BY <1>1, PrefixIs
  <2> QED
    BY <1>1, <2>1, <2>2 DEF Later, Held!Grows
<1> QED
  BY <1>2, <1>3

LEMMA LaterSame ==
  ASSUME NEW o \in Responses
  PROVE  Later(o, o)
<1>1. o[Raw] \in Response /\ o[Raw].body \in Seq(Chunk)
  BY Levels, ResponseFields
<1>2. Held!IsPrefix(o[Raw].body, o[Raw].body)
  BY <1>1, PrefixIs
<1> QED
  BY <1>1, <1>2 DEF Later, Held!Grows

LEMMA LaterThan ==
  ASSUME NEW o \in Responses, NEW p \in Responses, NEW q \in Responses, Later(o, p), Later(p, q)
  PROVE  Later(o, q)
<1>1. /\ o[Raw].body \in Seq(Chunk) /\ p[Raw].body \in Seq(Chunk) /\ q[Raw].body \in Seq(Chunk)
  BY Levels, ResponseFields
<1>2. Held!IsPrefix(o[Raw].body, q[Raw].body)
  BY <1>1, PrefixOfPrefix DEF Later, Held!Grows
<1> QED
  BY <1>2 DEF Later, Held!Grows

LEMMA HeaderLater ==
  ASSUME NEW o \in Responses, NEW x \in Writer, NEW status \in Status
  PROVE  Later(o, WriteHeader(o, x, status))
<1>1. PICK p : p = WriteHeader(o, x, status)
  OBVIOUS
<1>2. PICK s : s = IF x = Raw /\ o[x].status # 0 THEN o[x].status ELSE status
  OBVIOUS
<1>3. Effect(o, p, x, o[x].body, s)
  BY <1>1, <1>2, HeaderWritten
<1>4. p \in Responses /\ o[x].body \in Seq(Chunk)
  BY <1>3, ResponseFields DEF Effect
<1>5. Held!IsPrefix(o[x].body, o[x].body)
  BY <1>4, PrefixIs
<1> QED
  BY <1>1, <1>2, <1>3, <1>4, <1>5, LaterOf

LEMMA WriteLater ==
  ASSUME NEW o \in Responses, NEW x \in Writer, NEW body \in Seq(Chunk)
  PROVE  Later(o, Write(o, x, body))
<1>1. PICK p : p = Write(o, x, body)
  OBVIOUS
<1>2. PICK s : s = IF x = Raw /\ o[x].status = 0 THEN 200 ELSE o[x].status
  OBVIOUS
<1>3. PICK b : b = o[x].body \o body
  OBVIOUS
<1>4. /\ Effect(o, p, x, b, s) /\ p \in Responses /\ b \in Seq(Chunk)
      /\ o[x].body \in Seq(Chunk)
  BY <1>1, <1>2, <1>3, Written, ResponseFields, ConcatProperties DEF Effect
<1>5. Held!IsPrefix(o[x].body, b)
  BY <1>3, <1>4, PrefixOfConcat
<1>6. x = Raw => /\ o[Raw].status # 0 => s = o[Raw].status
                 /\ s # 0
  BY <1>2
<1> QED
  BY <1>1, <1>4, <1>5, <1>6, LaterOf

LEMMA ResetLater ==
  ASSUME NEW o \in Responses, NEW x \in Writer
  PROVE  Later(o, ResponseBodyWriter(o, x))
<1>1. CASE x = Raw
  BY <1>1, LaterSame DEF ResponseBodyWriter
<1>2. CASE x # Raw
  <2>1. PICK p : p = ResponseBodyWriter(o, x)
    OBVIOUS
  <2>2. PICK b \in Seq(Chunk) : b = <<>>
    BY EmptySeq
  <2>3. Effect(o, p, x, b, o[x].status) /\ p \in Responses
    BY <1>2, <2>1, <2>2, Reset DEF Effect
  <2> QED
    BY <1>2, <2>1, <2>2, <2>3, LaterOf
<1> QED
  BY <1>1, <1>2

LEMMA ErrLater ==
  ASSUME NEW o \in Responses, NEW i \in Level, Given(i) \in Writer
  PROVE  Later(o, HandleErr(o, i))
<1>1. PICK y \in Writer : y = Given(i)
  OBVIOUS
<1>2. PICK h : h = WriteHeader(o, y, 500)
  OBVIOUS
<1>3. Later(o, h) /\ h \in Responses
  <2>1. 500 \in Status
    BY Statuses
  <2>2. Later(o, h)
    BY <1>2, <2>1, HeaderLater
  <2> QED
    BY <2>2 DEF Later
<1>4. PICK b \in Seq(Chunk) : b = <<ErrorText(i)>>
  BY Chunks, Singleton
<1>5. Later(h, Write(h, y, b))
  BY <1>3, WriteLater
<1>6. HandleErr(o, i) = Write(h, y, b) /\ Write(h, y, b) \in Responses
  BY <1>1, <1>2, <1>4, <1>5 DEF HandleErr, Later
<1> QED
  BY <1>3, <1>5, <1>6, LaterThan

LEMMA DeferredLater ==
  ASSUME NEW o \in Responses, NEW x \in Writer, x # Raw => Given(x) \in Writer
  PROVE  Later(o, Deferred(o, x))
<1>0. CASE x = Raw
  BY <1>0, LaterSame DEF Deferred
<1> SUFFICES ASSUME x # Raw PROVE Later(o, Deferred(o, x))
  BY <1>0
<1>1. PICK y \in Writer : y = Given(x)
  OBVIOUS
<1>2. o[x].status \in Status /\ o[x].body \in Seq(Chunk)
  BY ResponseFields
<1>3. PICK h : h = IF o[x].status = 0 THEN o ELSE WriteHeader(o, y, o[x].status)
  OBVIOUS
<1>4. Later(o, h) /\ h \in Responses
  <2>1. CASE o[x].status = 0
    BY <1>3, <2>1, LaterSame
  <2>2. CASE o[x].status # 0
    <3>1. h = WriteHeader(o, y, o[x].status)
      BY <1>3, <2>2
    <3>2. Later(o, h)
      BY <1>2, <3>1, HeaderLater
    <3> QED
      BY <3>2 DEF Later
  <2> QED
    BY <2>1, <2>2
<1>5. PICK q : q = IF o[x].body = <<>> THEN h ELSE Write(h, y, o[x].body)
  OBVIOUS
<1>6. Later(h, q) /\ q \in Responses
  BY <1>2, <1>4, <1>5, WriteLater, LaterSame DEF Later
<1>7. Later(o, q)
  BY <1>4, <1>6, LaterThan
<1>8. Deferred(o, x) = q
  BY <1>1, <1>3, <1>5 DEF Deferred, Release
<1> QED
  BY <1>7, <1>8

\* The client's response only grows.
LEMMA ClientStep ==
  ASSUME ControlInv, [Next]_vars
  PROVE  Later(out, out')
<1>0. TypeOK /\ out \in Responses
  BY DEF ControlInv, TypeOK, Responses
<1>1. ASSUME out' = out PROVE Later(out, out')
  BY <1>0, <1>1, LaterSame
<1>2. ASSUME NEW i \in Level, Guest(i)
      PROVE  Later(out, out')
  <2>0. w[i] \in Writer /\ Given(i) \in Writer /\ release[i] \in Writer /\ i \in 1 .. App
    BY <1>0, AtLevel DEF TypeOK
  <2>1. CASE EnableFeatures(i) \/ ReadBody(i)
    BY <1>1, <2>1 DEF EnableFeatures, ReadBody
  <2>2. CASE SetStatusCode(i)
    <3>1. StatusOf(i) \in Status
      BY <2>0, Statuses
    <3> QED
      BY <1>0, <2>0, <2>2, <3>1, HeaderLater DEF SetStatusCode
  <2>3. CASE WriteBody(i)
    <3>1. PICK c \in Chunk : c = <<i, pc[i], writes'[i]>>
      <4>1. writes'[i] \in 0 .. MaxWrites /\ pc[i] \in {"request", "response", "error"}
        <5>1. writes' = [writes EXCEPT ![i] = writes[i] + 1] /\ writes[i] < MaxWrites
          BY <2>3 DEF WriteBody
        <5>2. writes \in [1 .. App -> 0 .. MaxWrites] /\ MaxWrites \in Nat
          BY <1>0, Levels DEF TypeOK
        <5>3. writes'[i] = writes[i] + 1 /\ writes[i] \in 0 .. MaxWrites
          BY <2>0, <5>1, <5>2
        <5> QED
          BY <2>3, <5>1, <5>2, <5>3 DEF WriteBody, InGuest
      <4> QED
        BY <4>1, Chunks
    <3>2. PICK x \in Writer : x = IF cached[i] = NoWriter THEN w[i] ELSE cached[i]
      BY <1>0, <2>0 DEF TypeOK
    <3>3. PICK o : o = IF cached[i] = NoWriter THEN ResponseBodyWriter(out, x) ELSE out
      OBVIOUS
    <3>4. Later(out, o) /\ o \in Responses
      <4>1. Later(out, o)
        BY <1>0, <3>2, <3>3, ResetLater, LaterSame
      <4> QED
        BY <4>1 DEF Later
    <3>5. out' = Write(o, x, <<c>>)
      BY <2>3, <3>1, <3>2, <3>3 DEF WriteBody
    <3>6. Later(o, out')
      BY <3>4, <3>5, Singleton, WriteLater
    <3>7. out' \in Responses
      BY <3>6 DEF Later
    <3> QED
      BY <1>0, <3>4, <3>6, <3>7, LaterThan
  <2>4. ASSUME NEW x \in Writer, x # Raw
        PROVE  Given(x) \in Writer
    BY <2>4, AtLevel, Levels
  <2>5. CASE Skip(i)
    BY <1>0, <2>0, <2>4, <2>5, DeferredLater DEF Skip
  <2>6. CASE ResponseEnds(i)
    BY <1>0, <2>0, <2>4, <2>6, DeferredLater DEF ResponseEnds
  <2>7. PICK o : o = HandleErr(out, i)
    OBVIOUS
  <2>8. Later(out, o) /\ o \in Responses
    <3>1. Later(out, o)
      BY <1>0, <2>0, <2>7, ErrLater
    <3> QED
      BY <3>1 DEF Later
  <2>9. CASE RequestFails(i)
    <3>1. out' = Deferred(o, w[i])
      BY <2>7, <2>9 DEF RequestFails
    <3>2. Later(o, out')
      BY <2>0, <2>4, <2>8, <3>1, DeferredLater
    <3>3. out' \in Responses
      BY <3>2 DEF Later
    <3> QED
      BY <1>0, <2>8, <3>2, <3>3, LaterThan
  <2>10. CASE Proceed(i)
    BY <1>1, <2>7, <2>8, <2>10 DEF Proceed
  <2> QED
    BY <1>2, <2>1, <2>2, <2>3, <2>5, <2>6, <2>9, <2>10 DEF Guest
<1>3. CASE \E i \in Level : ServeHTTP(i) \/ HandleResponse(i)
  BY <1>1, <1>3 DEF ServeHTTP, HandleResponse
<1>4. CASE AppWrites
  <2>0. /\ Given(App) \in Writer /\ App \in 1 .. App /\ App = N + 1
    BY <1>0, Levels, GivenTyped DEF App
  <2>1. CASE out' = WriteHeader(out, Given(App), StatusOf(App))
    <3>1. StatusOf(App) \in Status
      BY <2>0, Statuses
    <3> QED
      BY <1>0, <2>0, <2>1, <3>1, HeaderLater
  <2>2. CASE /\ writes[App] < MaxWrites
             /\ writes' = [writes EXCEPT ![App] = writes[App] + 1]
             /\ out' = Write(out, Given(App), <<<<App, "running", writes'[App]>>>>)
    <3>1. writes'[App] \in 0 .. MaxWrites
      BY <1>0, <2>0, <2>2, Levels DEF TypeOK
    <3>2. PICK c \in Chunk : c = <<App, "running", writes'[App]>>
      BY <3>1, Chunks
    <3> QED
      BY <1>0, <2>0, <2>2, <3>2, Singleton, WriteLater
  <2> QED
    BY <1>4, <2>1, <2>2 DEF AppWrites
<1>5. CASE AppServeHTTP \/ AppEnds \/ Answered \/ UNCHANGED vars
  BY <1>1, <1>5 DEF AppServeHTTP, AppEnds, Answered, vars
<1> QED
  BY <1>2, <1>3, <1>4, <1>5 DEF Next

-----------------------------------------------------------------------------
(* HeldResponse: one handler at most holds the response *)

\* Handler i holds the response.
Holder(i) == pc[i] \in {"next", "response"} /\ release[i] # Raw /\ ~early[i] /\ Alone(i)

LEMMA HolderIs ==
  ASSUME ControlInv, NEW i \in Level
  PROVE  Holds(i) <=> Holder(i)
BY AtLevel, NotShared DEF Holds, Holder, Buffers

LEMMA OneHolder ==
  ASSUME NEW i \in Level, NEW j \in Level, Holder(i), Holder(j)
  PROVE  i = j
<1>1. i \in Int /\ j \in Int
  BY DEF Level
<1> QED
  BY <1>1 DEF Holder, Alone

LEMMA HeldNothing ==
  ControlInv /\ (\A i \in Level : ~Holder(i)) => HeldBy = Held!NotHeld
<1> SUFFICES ASSUME ControlInv, \A i \in Level : ~Holder(i) PROVE HeldBy = Held!NotHeld
  OBVIOUS
<1>1. {j \in Level : Holds(j)} = {}
  BY HolderIs
<1> QED
  BY <1>1 DEF HeldBy, Held!NotHeld

HeldIsBuffered ==
  \A i \in Level : Holder(i) =>
    DOMAIN HeldBy = {i} /\ HeldBy \in [{i} -> Response] /\ HeldBy[i] = out[release[i]]

LEMMA HeldSomething == ControlInv => HeldIsBuffered
<1> SUFFICES ASSUME ControlInv, NEW i \in Level, Holder(i)
             PROVE  DOMAIN HeldBy = {i} /\ HeldBy \in [{i} -> Response] /\ HeldBy[i] = out[release[i]]
  BY DEF HeldIsBuffered
<1>1. {j \in Level : Holds(j)} = {i}
  BY HolderIs, OneHolder
<1>2. out[release[i]] \in Response
  BY DEF ControlInv, TypeOK
<1> QED
  BY <1>1, <1>2 DEF HeldBy

\* The same at the end of a step.
LEMMA HeldNothingNext ==
  ASSUME ControlInv', \A i \in Level : ~Holder(i)'
  PROVE  HeldBy' = Held!NotHeld
<1>1. (ControlInv /\ (\A i \in Level : ~Holder(i)) => HeldBy = Held!NotHeld)'
  BY HeldNothing, PTL
<1> QED
  BY <1>1 DEF Held!NotHeld

LEMMA HeldSomethingNext ==
  ASSUME ControlInv', NEW i \in Level, Holder(i)'
  PROVE  DOMAIN HeldBy' = {i} /\ HeldBy' \in [{i} -> Response]
<1>1. (ControlInv => HeldIsBuffered)'
  BY HeldSomething, PTL
<1> QED
  BY <1>1 DEF HeldIsBuffered

\* Nobody lets the next handler run while another handler holds the response.
LEMMA NobodyProceeds ==
  ASSUME ControlInv, NEW i \in Level, Holder(i), NEW j \in Level
  PROVE  pc[j] # "request"
<1>1. OrderInv /\ i \in 1 .. App /\ j \in 1 .. App /\ i \in Int /\ j \in Int
  BY AtLevel
<1>2. ~(i < j /\ pc[j] = "request")
  BY DEF Holder, Alone
<1>3. ~(j < i /\ pc[j] = "request")
  BY <1>1, Upstream DEF Holder, Ended
<1> QED
  BY <1>1, <1>2, <1>3 DEF Holder

\* A handler begins to hold the response by letting the next handler run.
LEMMA HolderBefore ==
  ASSUME ControlInv, [Next]_vars, NEW j \in Level, Holder(j)', pc[j] # "request"
  PROVE  Holder(j) /\ sent'[j] = sent[j]
<1>1. Alone(j) /\ TypeOK /\ j \in 1 .. App /\ pc[j] \in {"next", "response"}
  BY AtLevel, AloneBefore, Phases DEF Holder, Ended
<1>2. CASE EnableFeatures(j) \/ SetStatusCode(j) \/ WriteBody(j) \/ ReadBody(j) \/ HandleResponse(j)
  <2>1. release' = release /\ sent' = sent /\ (early[j] => early'[j])
    BY <1>1, <1>2 DEF EnableFeatures, SetStatusCode, WriteBody, ReadBody, HandleResponse, chain, TypeOK
  <2> QED
    BY <1>1, <2>1 DEF Holder
<1>3. CASE ResponseEnds(j)
  BY <1>3, ResponseEndsStep DEF Holder, Ended
<1>4. CASE Elsewhere(j)
  BY <1>1, <1>4 DEF Elsewhere, Kept, Holder
<1>5. ~(ServeHTTP(j) \/ Skip(j) \/ RequestFails(j) \/ Proceed(j))
  BY <1>1 DEF ServeHTTP, Called, Skip, RequestFails, Proceed
<1> QED
  BY <1>2, <1>3, <1>4, <1>5, StepElsewhere DEF Guest

\* It no longer does when its ServeHTTP returns, or another is called.
LEMMA HolderAfter ==
  ASSUME ControlInv, [Next]_vars, NEW i \in Level, Holder(i), ~Holder(i)'
  PROVE  ResponseEnds(i) \/ \E k \in Level : ServeHTTP(k)
<1>1. TypeOK /\ i \in 1 .. App
  BY AtLevel
<1>2. CASE EnableFeatures(i) \/ SetStatusCode(i) \/ WriteBody(i) \/ ReadBody(i)
  <2>1. pc' = pc /\ release' = release /\ InGuest(i)
    BY <1>2 DEF EnableFeatures, SetStatusCode, WriteBody, ReadBody, chain
  <2>2. early'[i] = early[i]
    BY <1>1, <1>2, <2>1 DEF EnableFeatures, SetStatusCode, WriteBody, ReadBody, TypeOK, Holder
  <2> QED
    BY <2>1, <2>2 DEF Holder, Alone
<1>3. CASE HandleResponse(i)
  <2>1. /\ pc' = [pc EXCEPT ![i] = "response"] /\ release' = release /\ early' = early
    BY <1>3 DEF HandleResponse, chain
  <2>2. pc'[i] = "response" /\ \A k \in Level : k # i => pc'[k] = pc[k]
    BY <1>1, <2>1, Levels DEF TypeOK
  <2>3. i \in Int
    BY DEF Level
  <2> QED
    BY <2>1, <2>2, <2>3 DEF Holder, Alone
<1>4. CASE Elsewhere(i)
  <2>1. ~Alone(i)'
    BY <1>4 DEF Elsewhere, Kept, Holder
  <2>2. PICK k \in Level : i < k /\ pc'[k] # "idle"
    BY <2>1 DEF Alone
  <2>3. pc[k] = "idle"
    BY <2>2 DEF Holder, Alone
  <2>4. ~Guest(k) /\ ~HandleResponse(k) /\ ~Elsewhere(k)
    BY <2>2, <2>3 DEF Guest, EnableFeatures, SetStatusCode, WriteBody, ReadBody, Skip, RequestFails,
       Proceed, ResponseEnds, HandleResponse, InGuest, Elsewhere, Kept
  <2> QED
    BY <2>4, StepElsewhere
<1>5. ~(ServeHTTP(i) \/ Skip(i) \/ RequestFails(i) \/ Proceed(i))
  BY DEF ServeHTTP, Called, Skip, RequestFails, Proceed, Holder
<1> QED
  BY <1>2, <1>3, <1>4, <1>5, StepElsewhere DEF Guest

-----------------------------------------------------------------------------
(* HeldResponse: the refinement *)

\* All that was held is sent.
LEMMA SendStep ==
  ASSUME ControlInv, NEW i \in Level, Holder(i), ResponseEnds(i)
  PROVE  out'[Raw] = Held!Sent(out[Raw], out[release[i]])
<1>1. /\ out' = Deferred(out, release[i]) /\ out \in Responses /\ Raw \in Writer
      /\ release[i] \in Writer /\ release[i] # Raw /\ w[i] = release[i]
      /\ Given(w[i]) = Raw
  BY AtLevel, Levels DEF ResponseEnds, Holder, ReleaseInv, WriterInv, Active, TypeOK
<1>2. PICK x \in Writer : x = release[i] /\ x # Raw /\ Given(x) = Raw
  BY <1>1
<1>3. out[x].body \in Seq(Chunk) /\ out[x].status \in Nat /\ out[Raw].status \in Nat
      /\ out[Raw].body \in Seq(Chunk)
      /\ out[x] = [status |-> out[x].status, body |-> out[x].body]
      /\ out[Raw] = [status |-> out[Raw].status, body |-> out[Raw].body]
  BY <1>1, ResponseFields
<1>4. CASE out[x] = Empty
  <2>1. out[x].status = 0 /\ out[x].body = <<>>
    BY <1>4 DEF Empty
  <2>2. out' = out
    BY <1>1, <1>2, <2>1 DEF Deferred, Release
  <2>3. out[Raw].body \o out[x].body = out[Raw].body
    BY <1>3, <2>1, ConcatEmptySeq
  <2> QED
    BY <1>2, <1>3, <2>1, <2>2, <2>3 DEF Held!Sent
<1>5. CASE out[x] # Empty
  <2>1. PICK status :
          /\ Effect(out, Deferred(out, x), Given(x), out[Given(x)].body \o out[x].body, status)
          /\ Given(x) = Raw /\ out[Raw].status # 0 => status = out[Raw].status
          /\ Given(x) = Raw /\ out[Raw].status = 0 /\ out[x] # Empty =>
               status = IF out[x].status = 0 THEN 200 ELSE out[x].status
    BY <1>1, <1>2, DeferredEffect
  <2>2. /\ out' \in Responses /\ out'[Raw].body = out[Raw].body \o out[x].body
        /\ out'[Raw].status = status
    BY <1>1, <1>2, <2>1 DEF Effect
  <2>3. out'[Raw] = [status |-> status, body |-> out[Raw].body \o out[x].body]
    BY <1>1, <2>2, ResponseFields
  <2>4. out[x].status = 0 => out[x].body # <<>>
    BY <1>3, <1>5 DEF Empty
  <2>5. status = CASE out[Raw].status # 0 -> out[Raw].status
                   [] out[Raw].status = 0 /\ out[x].status # 0 -> out[x].status
                   [] out[Raw].status = 0 /\ out[x].status = 0 ->
                        IF out[x].body = <<>> THEN 0 ELSE 200
    BY <1>2, <1>5, <2>1, <2>4
  <2> QED
    BY <1>2, <2>3, <2>5 DEF Held!Sent
<1> QED
  BY <1>4, <1>5

\* The handlers that were called.
CalledLevels == {i \in Level : pc[i] # "idle"}

LEMMA CalledStep ==
  ASSUME ControlInv, [Next]_vars, \A k \in Level : ~ServeHTTP(k)
  PROVE  CalledLevels' = CalledLevels
<1>1. ASSUME NEW j \in Level
      PROVE  pc'[j] = "idle" <=> pc[j] = "idle"
  <2>1. CASE Guest(j) \/ HandleResponse(j)
    <3>1. pc[j] # "idle"
      BY <2>1 DEF Guest, EnableFeatures, SetStatusCode, WriteBody, ReadBody, Skip, RequestFails,
         Proceed, ResponseEnds, HandleResponse, InGuest
    <3> QED
      BY <3>1, Phases DEF Ended
  <2>2. CASE Elsewhere(j)
    BY <2>2 DEF Elsewhere, Kept
  <2> QED
    BY <2>1, <2>2, StepElsewhere
<1> QED
  BY <1>1 DEF CalledLevels

\* While handler k is in handle_request nobody holds the response: the handlers
\* before it are not alone, and those behind it are idle.
LEMMA CallStep ==
  ASSUME ControlInv, ControlInv', NEW k \in Level, ServeHTTP(k)
  PROVE  /\ k \notin CalledLevels /\ CalledLevels' = CalledLevels \cup {k}
         /\ \A j \in Level : ~Holder(j)'
<1>1. TypeOK /\ OrderInv' /\ Level \subseteq 1 .. App /\ Level \subseteq Int
  BY Levels DEF ControlInv, Level
<1>2. pc[k] = "idle" /\ pc'[k] = "request" /\ \A j \in Level : j # k => pc'[j] = pc[j]
  BY <1>1 DEF ServeHTTP, Called, TypeOK
<1>3. ASSUME NEW j \in Level, Holder(j)'
      PROVE  FALSE
  <2>1. CASE j < k
    BY <1>2, <1>3, <2>1 DEF Holder, Alone
  <2>2. CASE k < j
    BY <1>1, <1>2, <1>3, <2>2 DEF Holder, OrderInv
  <2>3. j # k
    BY <1>2, <1>3 DEF Holder
  <2> QED
    BY <1>1, <2>1, <2>2, <2>3
<1> QED
  BY <1>2, <1>3 DEF CalledLevels

LEMMA HeldStep ==
  ASSUME ControlInv, ControlInv', [Next]_vars, \A i \in Level : WithheldInv(i) /\ WithheldInv(i)'
  PROVE  Held!Next \/ UNCHANGED Held!vars
<1>1. Held!Grows(out[Raw], out'[Raw])
  BY ClientStep DEF Later
\* A handler is called.
<1>2. ASSUME NEW k \in Level, ServeHTTP(k)
      PROVE  Held!Next
  <2>1. k \notin CalledLevels /\ CalledLevels' = CalledLevels \cup {k} /\ out' = out
    BY <1>2, CallStep DEF ServeHTTP
  <2>2. HeldBy' = Held!NotHeld
    BY <1>2, CallStep, HeldNothingNext
  <2>3. Held!Call(k)
    BY <2>1, <2>2 DEF Held!Call, CalledLevels
  <2> QED
    BY <2>3 DEF Held!Next
\* The response is held before the step.
<1>3. ASSUME NEW i \in Level, Holder(i), CalledLevels' = CalledLevels,
             \A k \in Level : ~ServeHTTP(k)
      PROVE  Held!Next
  <2>1. DOMAIN HeldBy = {i} /\ HeldBy[i] = out[release[i]]
    BY <1>3, HeldSomething DEF HeldIsBuffered
  <2>2. \A j \in Level : Holder(j)' => j = i /\ sent'[j] = sent[j]
    BY <1>3, NobodyProceeds, HolderBefore, OneHolder
  <2>3. CASE Holder(i)'
    <3>1. out'[Raw] = out[Raw]
      BY <1>3, <2>2, <2>3 DEF WithheldInv, Holder
    <3>2. HeldBy' \in [{i} -> Response]
      BY <2>3, HeldSomethingNext
    <3>3. Held!Revise(i)
      BY <1>3, <2>1, <3>1, <3>2 DEF Held!Revise, CalledLevels
    <3> QED
      BY <3>3 DEF Held!Next
  <2>4. CASE ~Holder(i)'
    <3>1. HeldBy' = Held!NotHeld
      BY <2>2, <2>4, HeldNothingNext
    <3>2. ResponseEnds(i)
      BY <1>3, <2>4, HolderAfter
    <3>3. out'[Raw] = Held!Sent(out[Raw], HeldBy[i])
      BY <1>3, <2>1, <3>2, SendStep
    <3>4. Held!Send(i)
      BY <1>3, <2>1, <3>1, <3>3 DEF Held!Send, CalledLevels
    <3> QED
      BY <3>4 DEF Held!Next
  <2> QED
    BY <2>3, <2>4
\* It is not.
<1>4. ASSUME \A i \in Level : ~Holder(i), CalledLevels' = CalledLevels
      PROVE  Held!Next
  <2>1. HeldBy = Held!NotHeld
    BY <1>4, HeldNothing
  <2>2. CASE \A i \in Level : ~Holder(i)'
    <3>1. HeldBy' = Held!NotHeld
      BY <2>2, HeldNothingNext
    <3>2. Held!Respond
      BY <1>1, <1>4, <2>1, <3>1 DEF Held!Respond, CalledLevels
    <3> QED
      BY <3>2 DEF Held!Next
  <2>3. ASSUME NEW i \in Level, Holder(i)'
        PROVE  Held!Next
    <3>1. HeldBy' \in [{i} -> Response]
      BY <2>3, HeldSomethingNext
    <3>2. i \in CalledLevels
      BY <1>4, <2>3 DEF CalledLevels, Holder
    <3>3. Held!Hold(i)
      BY <1>1, <1>4, <2>1, <3>1, <3>2 DEF Held!Hold, CalledLevels
    <3> QED
      BY <3>3 DEF Held!Next
  <2> QED
    BY <2>2, <2>3
<1>5. (\A k \in Level : ~ServeHTTP(k)) => CalledLevels' = CalledLevels
  BY CalledStep
<1> QED
  BY <1>2, <1>3, <1>4, <1>5

\* The chain implements the abstract specification of a held response.
THEOREM ChainImplementsHeld == Spec => ImplementsHeld
<1> DEFINE Inv == ControlInv /\ \A i \in Level : WithheldInv(i)
<1>1. Init => Inv /\ Held!Init
  <2> SUFFICES ASSUME Init PROVE Inv /\ Held!Init
    OBVIOUS
  <2>1. ControlInv
    BY InitControl
  <2>2. \A i \in Level : ~Holder(i) /\ WithheldInv(i)
    BY Levels DEF Init, Holder, WithheldInv
  <2>3. HeldBy = Held!NotHeld
    BY <2>1, <2>2, HeldNothing
  <2>4. out[Raw] = Held!Nothing /\ CalledLevels = {}
    BY Levels DEF Init, Empty, Held!Nothing, CalledLevels
  <2> QED
    BY <2>1, <2>2, <2>3, <2>4 DEF Held!Init, CalledLevels
<1>2. Inv /\ [Next]_vars => Inv'
  BY ControlStep, WithheldStep
<1>3. Inv /\ Inv' /\ [Next]_vars => [Held!Next]_(Held!vars)
  BY HeldStep
<1> QED
  BY <1>1, <1>2, <1>3, PTL DEF Spec, ImplementsHeld, Held!Spec
=============================================================================
