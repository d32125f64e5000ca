-------------------------- MODULE RequestBodyProofs --------------------------
(***************************************************************************)
(* Theorems about RequestBody, for a client's body of any length, any      *)
(* limits and any number of body objects and writes.                       *)
(***************************************************************************)
EXTENDS RequestBody, SequenceTheorems, TLAPS

-----------------------------------------------------------------------------
(* Chunks *)

LEMMA Chunks == Original \in Seq(Chunk) /\ "w" \in Chunk
<1>1. Original \in [1 .. Len(Original) -> Chunk] /\ Len(Original) \in Nat
  BY OriginalAssumption, LenProperties DEF Chunk
<1> QED
  BY <1>1, SeqDef DEF Chunk

\* A function on 1 .. n is a sequence.
LEMMA SeqOfFunction ==
  ASSUME NEW S, NEW n \in Nat, NEW f \in [1 .. n -> S]
  PROVE  f \in Seq(S) /\ Len(f) = n
<1>1. f \in Seq(S)
  BY SeqDef
<1> QED
  BY <1>1, LenProperties

\* The first n chunks of a body and the rest of it.
LEMMA Split ==
  ASSUME NEW d \in Seq(Chunk), NEW n \in 0 .. Len(d)
  PROVE  /\ SubSeq(d, 1, n) \in Seq(Chunk)
         /\ SubSeq(d, n + 1, Len(d)) \in Seq(Chunk)
         /\ SubSeq(d, 1, n) \o SubSeq(d, n + 1, Len(d)) = d
         /\ n = Len(d) => SubSeq(d, n + 1, Len(d)) = <<>>
<1>1. Len(d) \in Nat /\ \A i \in 1 .. Len(d) : d[i] \in Chunk
  BY LenProperties, ElementOfSeq
<1>2. SubSeq(d, 1, n) \in Seq(Chunk)
  BY <1>1, SubSeqProperties
<1>3. SubSeq(d, n + 1, Len(d)) \in Seq(Chunk)
  BY <1>1, SubSeqProperties
<1>4. SubSeq(d, 1, n) \o SubSeq(d, n + 1, Len(d)) = d
  <2>1. 1 \in 1 .. Len(d) + 1 /\ n \in 1 - 1 .. Len(d) /\ Len(d) \in n .. Len(d)
    BY <1>1
  <2>2. SubSeq(d, 1, n) \o SubSeq(d, n + 1, Len(d)) = SubSeq(d, 1, Len(d))
    BY <2>1, ConcatAdjacentSubSeq
  <2> QED
    BY <2>2, SubSeqFull
<1>5. n = Len(d) => SubSeq(d, n + 1, Len(d)) = <<>>
  BY <1>1, SubSeqEmpty
<1> QED
  BY <1>2, <1>3, <1>4, <1>5

LEMMA Associative ==
  ASSUME NEW S, NEW x \in Seq(S), NEW y \in Seq(S), NEW z \in Seq(S)
  PROVE  (x \o y) \o z = x \o (y \o z)
BY ConcatAssociative

\* A name for \o that the provers leave alone where only equalities are needed.
Join(s, t) == s \o t

\* Moving chunks from what is left to what was read leaves the whole the same.
LEMMA Moved ==
  ASSUME NEW S, NEW t \in Seq(S), NEW h \in Seq(S), NEW a \in Seq(S), NEW r \in Seq(S)
  PROVE  Join(Join(t, Join(h, a)), r) = Join(Join(t, h), Join(a, r))
<1>1. t \o h \in Seq(S)
  BY ConcatProperties
<1>2. (t \o h) \o a = t \o (h \o a)
  BY Associative
<1>3. ((t \o h) \o a) \o r = (t \o h) \o (a \o r)
  <2>1. ASSUME NEW x \in Seq(S) PROVE (x \o a) \o r = x \o (a \o r)
    BY Associative
  <2> DEFINE x == t \o h
  <2>2. x \in Seq(S)
    BY <1>1
  <2> HIDE DEF x
  <2>3. (x \o a) \o r = x \o (a \o r)
    BY <2>1, <2>2
  <2> QED
    BY <2>3 DEF x
<1>4. Join(Join(t, h), a) = Join(t, Join(h, a))
  BY <1>2 DEF Join
<1>5. Join(Join(Join(t, h), a), r) = Join(Join(t, h), Join(a, r))
  BY <1>3 DEF Join
<1> QED
  BY <1>4, <1>5

\* What bufferingRequestBody keeps of a piece.
LEMMA Keeps ==
  ASSUME NEW data \in Seq(Chunk), NEW d \in Seq(Chunk), NEW q \in 0 .. Len(d),
         NEW eof \in BOOLEAN
  PROVE  /\ Buffers(data, d, q, eof) \in Seq(Chunk)
         /\ d = <<>> => Buffers(data, d, q, eof) = data
         /\ eof /\ q = Len(d) /\ data = <<>> => Buffers(data, d, q, eof) = d
<1>1. Len(d) \in Nat /\ \A i \in 1 .. Len(d) : d[i] \in Chunk
  BY LenProperties, ElementOfSeq
<1> DEFINE last == SubSeq(d, Len(d) - q + 1, Len(d))
<1>2. last \in Seq(Chunk)
  <2>1. Len(d) - q + 1 \in Int /\ \A i \in Len(d) - q + 1 .. Len(d) : d[i] \in Chunk
    BY <1>1
  <2> QED
    BY <1>1, <2>1, SubSeqProperties
<1>3. data \o last \in Seq(Chunk)
  BY <1>2, ConcatProperties
<1>4. d = <<>> => last = <<>>
  <2> SUFFICES ASSUME d = <<>> PROVE last = <<>>
    OBVIOUS
  <2>1. Len(d) = 0
    BY EmptySeq
  <2> QED
    BY <1>1, <2>1, SubSeqEmpty
<1>5. q = Len(d) => last = d
  <2> SUFFICES ASSUME q = Len(d) PROVE last = d
    OBVIOUS
  <2>1. Len(d) - q + 1 = 1
    BY <1>1
  <2> QED
    BY <2>1, SubSeqFull
<1>6. data \o <<>> = data /\ (data = <<>> => data \o d = d)
  BY ConcatEmptySeq
<1> HIDE DEF last
<1>7. Buffers(data, d, q, eof) = IF eof THEN data \o last ELSE data
  BY DEF Buffers, last
<1> QED
  BY <1>3, <1>4, <1>5, <1>6, <1>7

-----------------------------------------------------------------------------
(* Body objects *)

\* An object that does not wrap another one is its own base, and a read of one
\* that does goes through buffering bodies with the same base.
ObjectInv(i) ==
  LET o == obj[i]
  IN  /\ o.of \in 0 .. i - 1 /\ o.base \in 1 .. i /\ o.passes \subseteq 1 .. i
      /\ o.kind = "client" <=> i = Client
      /\ ~IsBuffering(o.base)
      /\ ~IsBuffering(i) => o.base = i /\ o.passes = {}
      /\ IsBuffering(i) => /\ o.of \in 1 .. i - 1 /\ obj[o.of].base = o.base
                           /\ i \in o.passes
      /\ \A j \in o.passes : IsBuffering(j) /\ obj[j].base = o.base

ObjectsInv ==
  /\ obj \in Seq(Object) /\ Len(obj) \in 1 .. MaxObjects + 1
  /\ \A i \in 1 .. Len(obj) : ObjectInv(i)

LEMMA ObjectTypes ==
  ASSUME ObjectsInv
  PROVE  /\ Len(obj) \in Nat /\ DOMAIN obj = 1 .. Len(obj)
         /\ \A i \in 1 .. Len(obj) : obj[i] \in Object
BY LenProperties, ElementOfSeq DEF ObjectsInv

\* A step that changes no more of the objects than what they hold.
Keep ==
  /\ obj' \in Seq(Object) /\ Len(obj') = Len(obj)
  /\ \A i \in 1 .. Len(obj) :
       /\ obj'[i].kind = obj[i].kind /\ obj'[i].of = obj[i].of
       /\ obj'[i].base = obj[i].base /\ obj'[i].passes = obj[i].passes

\* A step that creates the object o.
Grow(o) ==
  /\ obj' \in Seq(Object) /\ Len(obj') = Len(obj) + 1
  /\ \A i \in 1 .. Len(obj) : obj'[i] = obj[i]
  /\ obj'[Len(obj) + 1] = o

LEMMA Unchanged == ASSUME ObjectsInv, UNCHANGED obj PROVE Keep
BY DEF ObjectsInv, Keep

LEMMA KeepObjects ==
  ASSUME ObjectsInv, Keep
  PROVE  ObjectsInv'
<1>1. ASSUME NEW i \in 1 .. Len(obj)
      PROVE  ObjectInv(i)'
  <2>1. ObjectInv(i) /\ Len(obj) \in Nat
    BY ObjectTypes DEF ObjectsInv
  <2>2. \A j \in 1 .. Len(obj) : IsBuffering(j)' <=> IsBuffering(j)
    BY DEF Keep, IsBuffering
  <2>3. \A j \in 1 .. i : j \in 1 .. Len(obj)
    BY <2>1
  <2> QED
    BY <2>1, <2>2, <2>3 DEF ObjectInv, Keep
<1> QED
  BY <1>1 DEF ObjectsInv, Keep

LEMMA GrowObjects ==
  ASSUME ObjectsInv, Len(obj) <= MaxObjects,
         \/ \E d \in Seq(Chunk) : Grow(Holding(d))
         \/ \E b \in 1 .. Len(obj) : Grow(Wrapping(b))
  PROVE  ObjectsInv'
<1>l. Len(obj) \in Nat /\ Len(obj) >= 1 /\ MaxObjects \in Nat
  BY ObjectTypes, BoundsAssumption DEF ObjectsInv
<1> PICK n \in Nat : n = Len(obj) + 1
  BY <1>l
<1>0. Len(obj) \in Nat /\ Len(obj) >= 1 /\ n = Len(obj) + 1 /\ MaxObjects \in Nat
  BY <1>l
<1>1. /\ obj' \in Seq(Object) /\ Len(obj') = n
      /\ \A i \in 1 .. Len(obj) : obj'[i] = obj[i]
  BY DEF Grow
<1>2. \A i \in 1 .. Len(obj) : ObjectInv(i)
  BY DEF ObjectsInv
<1>3. ASSUME NEW i \in 1 .. Len(obj)
      PROVE  ObjectInv(i)'
  <2>1. \A j \in 1 .. i : j \in 1 .. Len(obj)
    BY <1>0
  <2>2. ObjectInv(i) /\ obj'[i] = obj[i]
    BY <1>1, <1>2
  <2>3. obj[i].base \in 1 .. Len(obj) /\ obj'[obj[i].base] = obj[obj[i].base]
    BY <1>1, <2>1, <2>2 DEF ObjectInv
  <2>4. \A j \in obj[i].passes : obj'[j] = obj[j]
    BY <1>1, <2>1, <2>2 DEF ObjectInv
  <2>5. IsBuffering(i) => obj'[obj[i].of] = obj[obj[i].of]
    BY <1>0, <1>1, <2>1, <2>2 DEF ObjectInv
  <2> QED
    BY <2>2, <2>3, <2>4, <2>5 DEF ObjectInv, IsBuffering
<1>4. ObjectInv(n)'
  <2>1. ASSUME NEW d \in Seq(Chunk), Grow(Holding(d))
        PROVE  ObjectInv(n)'
    <3>1. /\ obj'[n].kind = "written" /\ obj'[n].of = 0 /\ obj'[n].base = n
          /\ obj'[n].passes = {}
      BY <2>1 DEF Grow, Holding, None
    <3> QED
      BY <1>0, <3>1 DEF ObjectInv, IsBuffering, Client
  <2>2. ASSUME NEW b \in 1 .. Len(obj), Grow(Wrapping(b))
        PROVE  ObjectInv(n)'
    <3>1. /\ obj'[n].kind = "buffering" /\ obj'[n].of = b /\ obj'[n].base = obj[b].base
          /\ obj'[n].passes = obj[b].passes \cup {n}
      BY <2>2 DEF Grow, Wrapping
    <3>2. obj'[b] = obj[b] /\ ObjectInv(b) /\ b \in 1 .. n - 1
      BY <1>0, <1>1, <1>2
    <3>3. obj[b].base \in 1 .. b /\ ~IsBuffering(obj[b].base) /\ obj[b].passes \subseteq 1 .. b
      BY <3>2 DEF ObjectInv
    <3>4. obj[b].base \in 1 .. Len(obj) /\ obj[b].passes \subseteq 1 .. Len(obj)
      BY <1>0, <3>3
    <3>5. obj'[obj[b].base].kind # "buffering"
      BY <1>1, <3>3, <3>4 DEF IsBuffering
    <3>6. \A j \in obj[b].passes : obj'[j].kind = "buffering" /\ obj'[j].base = obj[b].base
      BY <1>1, <3>2, <3>4 DEF ObjectInv, IsBuffering
    <3>7. obj[b].base \in 1 .. n /\ obj[b].passes \cup {n} \subseteq 1 .. n /\ n # Client
      BY <1>0, <3>3, <3>4 DEF Client
    <3> QED
      BY <1>0, <3>1, <3>2, <3>5, <3>6, <3>7 DEF ObjectInv, IsBuffering
  <2> QED
    BY <2>1, <2>2
<1>5. Len(obj') \in 1 .. MaxObjects + 1 /\ \A i \in 1 .. Len(obj') : i \in 1 .. Len(obj) \/ i = n
  BY <1>0, <1>1
<1>6. \A i \in 1 .. Len(obj') : ObjectInv(i)'
  BY <1>3, <1>4, <1>5
<1> QED
  BY <1>1, <1>5, <1>6 DEF ObjectsInv

\* What handlers create is an object.
LEMMA CreateHolding ==
  ASSUME ObjectsInv, NEW d \in Seq(Chunk), Create(Holding(d))
  PROVE  Grow(Holding(d))
<1>1. Len(obj) \in Nat /\ obj \in Seq(Object)
  BY ObjectTypes DEF ObjectsInv
<1>2. Holding(d) \in Object
  BY <1>1 DEF Holding, Object, Kind, None
<1> QED
  BY <1>1, <1>2, AppendProperties DEF Create, Grow

LEMMA CreateWrapping ==
  ASSUME ObjectsInv, NEW b \in 1 .. Len(obj), Create(Wrapping(b))
  PROVE  Grow(Wrapping(b))
<1>1. Len(obj) \in Nat /\ obj \in Seq(Object) /\ obj[b] \in Object
  BY ObjectTypes DEF ObjectsInv
<1>2. obj[b].base \in Nat /\ obj[b].passes \cup {Len(obj) + 1} \subseteq Nat
  BY <1>1 DEF Object
<1>3. <<>> \in Seq(Chunk)
  BY EmptySeq
<1>4. Wrapping(b) \in Object
  BY <1>1, <1>2, <1>3 DEF Wrapping, Object, Kind
<1> QED
  BY <1>1, <1>4, AppendProperties DEF Create, Grow

\* A step that changes what the objects hold.
LEMMA Refill ==
  ASSUME ObjectsInv, NEW f, f \in [1 .. Len(obj) -> Seq(Chunk)],
         obj' = [i \in 1 .. Len(obj) |-> [obj[i] EXCEPT !.data = f[i]]]
  PROVE  Keep /\ \A i \in 1 .. Len(obj) : obj'[i].data = f[i]
<1>1. Len(obj) \in Nat /\ \A i \in 1 .. Len(obj) : obj[i] \in Object
  BY ObjectTypes
<1>2. ASSUME NEW i \in 1 .. Len(obj)
      PROVE  /\ obj'[i] \in Object /\ obj'[i].data = f[i]
             /\ obj'[i].kind = obj[i].kind /\ obj'[i].of = obj[i].of
             /\ obj'[i].base = obj[i].base /\ obj'[i].passes = obj[i].passes
  <2>1. obj[i] \in Object /\ f[i] \in Seq(Chunk)
    BY <1>1
  <2>2. obj'[i] = [obj[i] EXCEPT !.data = f[i]]
    OBVIOUS
  <2> QED
    BY <2>1, <2>2 DEF Object
<1>3. obj' \in [1 .. Len(obj) -> Object]
  BY <1>2
<1>4. obj' \in Seq(Object) /\ Len(obj') = Len(obj)
  BY <1>1, <1>3, SeqOfFunction
<1> QED
  BY <1>2, <1>4 DEF Keep

-----------------------------------------------------------------------------
(* Types *)

Before == pc \in {"idle", "request", "returned"}

TypeInv ==
  /\ pc \in {"idle", "request", "returned", "next", "running", "response", "done"}
  /\ ObjectsInv
  /\ Before => Len(obj) <= MaxObjects
  /\ body \in 1 .. Len(obj)
  /\ reader \in {None} \cup 1 .. Len(obj)
  /\ writer \in {None} \cup 1 .. Len(obj)
  /\ enabled \in BOOLEAN
  /\ closed \in BOOLEAN
  /\ saw \in [ok : BOOLEAN, data : Seq(Chunk)]
  /\ took \in Seq(Chunk)
  /\ after \in [data : Seq(Chunk), eof : BOOLEAN, full : BOOLEAN]
  /\ wrote \in Seq({"w"})
  /\ read \in {"nothing", "unbuffered", "whole", "other", "own"}

LEMMA TypeInvImplies == ASSUME TypeInv PROVE TypeOK
<1>1. DOMAIN obj = 1 .. Len(obj)
  BY ObjectTypes DEF TypeInv
<1>2. \A i \in DOMAIN obj :
        /\ obj[i].of \in 0 .. i - 1 /\ obj[i].base \in 1 .. i
        /\ obj[i].passes \subseteq 1 .. i
  BY <1>1 DEF TypeInv, ObjectsInv, ObjectInv
<1> QED
  BY <1>1, <1>2 DEF TypeInv, ObjectsInv, TypeOK

\* What a read of n chunks does, the last q of them with io.EOF if eof, or as many
\* as the limit if full.
ReadOf(base, n, q, eof, full) ==
  LET data == obj[base].data
      passes == obj[From].passes
  IN  /\ base = obj[From].base /\ ~Unreadable(base)
      /\ base \in 1 .. Len(obj) /\ data \in Seq(Chunk)
      /\ n \in 0 .. Len(data) /\ q \in 0 .. n /\ eof \in BOOLEAN
      /\ full \in BOOLEAN /\ (eof \/ full)
      /\ eof => n = Len(data)
      /\ ~eof => q = 0
      /\ reader' = From
      /\ Keep
      /\ obj'[base].data = SubSeq(data, n + 1, Len(data))
      /\ \A i \in 1 .. Len(obj) :
           /\ i \in passes => obj'[i].data = Buffers(obj[i].data, SubSeq(data, 1, n), q, eof)
           /\ i # base /\ i \notin passes => obj'[i].data = obj[i].data
      /\ Records(base, n, q, eof, full)

LEMMA FromType ==
  ASSUME TypeInv
  PROVE  From \in 1 .. Len(obj) /\ ObjectInv(From) /\ obj[From].base \in 1 .. Len(obj)
<1>1. From \in 1 .. Len(obj) /\ Len(obj) \in Nat
  BY ObjectTypes DEF TypeInv, From
<1>2. ObjectInv(From)
  BY <1>1 DEF TypeInv, ObjectsInv
<1> QED
  BY <1>1, <1>2 DEF ObjectInv

LEMMA ReadStep ==
  ASSUME TypeInv, ReadBody
  PROVE  \E base, n, q, eof, full : ReadOf(base, n, q, eof, full)
<1> DEFINE from == From
           base == obj[from].base
           data == obj[base].data
<1>1. /\ from \in 1 .. Len(obj) /\ base \in 1 .. Len(obj) /\ DOMAIN obj = 1 .. Len(obj)
      /\ ObjectsInv /\ ObjectInv(from) /\ data \in Seq(Chunk) /\ Len(data) \in Nat
  <2>1. \A i \in 1 .. Len(obj) : obj[i] \in Object
    BY ObjectTypes DEF TypeInv
  <2>2. from \in 1 .. Len(obj) /\ base \in 1 .. Len(obj) /\ ObjectInv(from)
    BY FromType
  <2>3. data \in Seq(Chunk)
    BY <2>1, <2>2 DEF Object
  <2> QED
    BY <2>2, <2>3, ObjectTypes, LenProperties DEF TypeInv
<1> DEFINE filled(n, q, eof) ==
             [i \in 1 .. Len(obj) |->
                IF i = base THEN SubSeq(data, n + 1, Len(data))
                ELSE IF i \in obj[from].passes
                THEN Buffers(obj[i].data, SubSeq(data, 1, n), q, eof) ELSE obj[i].data]
           objects(n, q, eof) ==
             [i \in DOMAIN obj |->
                IF i = base
                THEN [obj[i] EXCEPT !.data = SubSeq(data, n + 1, Len(data))]
                ELSE IF i \in obj[from].passes
                THEN [obj[i] EXCEPT !.data = Buffers(@, SubSeq(data, 1, n), q, eof)]
                ELSE obj[i]]
<1>2. /\ ~Unreadable(base)
      /\ \E limit \in Limits, eof \in BOOLEAN, n, q \in 0 .. Len(data) :
           /\ Reads(base, limit, n, q, eof) /\ reader' = from
           /\ obj' = objects(n, q, eof)
           /\ Records(base, n, q, eof, n = limit)
  BY ZenonT(60) DEF ReadBody
<1>3. PICK limit \in Limits, eof \in BOOLEAN, n, q \in 0 .. Len(data) :
           /\ Reads(base, limit, n, q, eof) /\ reader' = from
           /\ obj' = objects(n, q, eof)
           /\ Records(base, n, q, eof, n = limit)
  BY <1>2
<1>4. /\ q \in 0 .. n /\ (eof => n = Len(data)) /\ (~eof => q = 0)
      /\ (n = limit) \in BOOLEAN /\ (eof \/ n = limit)
  BY <1>1, <1>3 DEF Reads
<1>5. /\ SubSeq(data, 1, n) \in Seq(Chunk) /\ SubSeq(data, n + 1, Len(data)) \in Seq(Chunk)
      /\ Len(SubSeq(data, 1, n)) = n
  <2>1. Len(SubSeq(data, 1, n)) = n
    <3>1. \A i \in 1 .. n : data[i] \in Chunk
      BY <1>1, ElementOfSeq
    <3>2. Len(SubSeq(data, 1, n)) = IF 1 <= n THEN n - 1 + 1 ELSE 0
      BY <1>1, <3>1, SubSeqProperties
    <3> QED
      BY <1>1, <3>2
  <2> QED
    BY <1>1, <2>1, Split
<1>6. \A i \in 1 .. Len(obj) : obj[i] \in Object /\ obj[i].data \in Seq(Chunk)
  <2>1. \A i \in 1 .. Len(obj) : obj[i] \in Object
    BY <1>1, ObjectTypes
  <2> QED
    BY <2>1 DEF Object
<1>7. filled(n, q, eof) \in [1 .. Len(obj) -> Seq(Chunk)]
  <2>1. \A i \in 1 .. Len(obj) : Buffers(obj[i].data, SubSeq(data, 1, n), q, eof) \in Seq(Chunk)
    BY <1>4, <1>5, <1>6, Keeps
  <2> HIDE DEF data, base, from
  <2> QED
    BY <1>5, <1>6, <2>1
<1>8. obj' = [i \in 1 .. Len(obj) |-> [obj[i] EXCEPT !.data = filled(n, q, eof)[i]]]
  <2>1. obj' = objects(n, q, eof) /\ DOMAIN obj = 1 .. Len(obj)
    BY <1>1, <1>3
  <2>2. ASSUME NEW i \in 1 .. Len(obj)
        PROVE  obj'[i] = [obj[i] EXCEPT !.data = filled(n, q, eof)[i]]
    <3>1. obj[i] = [obj[i] EXCEPT !.data = obj[i].data]
      BY <1>6 DEF Object
    <3> HIDE DEF data, base, from
    <3> QED
      BY <2>1, <3>1
  <2> HIDE DEF filled
  <2> QED
    BY <2>1, <2>2
<1>9. Keep /\ \A i \in 1 .. Len(obj) : obj'[i].data = filled(n, q, eof)[i]
  <2> HIDE DEF filled
  <2> QED
    BY <1>1, <1>7, <1>8, Refill
<1>10. base \notin obj[from].passes
  BY <1>1 DEF ObjectInv
<1>11. /\ obj'[base].data = SubSeq(data, n + 1, Len(data))
       /\ \A i \in 1 .. Len(obj) :
            /\ i \in obj[from].passes =>
                 obj'[i].data = Buffers(obj[i].data, SubSeq(data, 1, n), q, eof)
            /\ i # base /\ i \notin obj[from].passes => obj'[i].data = obj[i].data
  <2> HIDE DEF data, base, from
  <2> QED
    BY <1>1, <1>9, <1>10
<1>12. ReadOf(base, n, q, eof, n = limit)
  <2> HIDE DEF objects, filled
  <2> QED
    BY <1>1, <1>2, <1>3, <1>4, <1>9, <1>11 DEF ReadOf
<1> QED
  BY <1>12

\* The objects after one was created.
LEMMA Grown ==
  ASSUME ObjectsInv, Len(obj) <= MaxObjects,
         \/ \E d \in Seq(Chunk) : Grow(Holding(d))
         \/ \E b \in 1 .. Len(obj) : Grow(Wrapping(b))
  PROVE  /\ ObjectsInv' /\ Len(obj) \in Nat /\ Len(obj') = Len(obj) + 1
         /\ Len(obj) + 1 \in 1 .. Len(obj') /\ 1 .. Len(obj) \subseteq 1 .. Len(obj')
<1>1. Len(obj) \in Nat
  BY ObjectTypes
<1>2. Len(obj') = Len(obj) + 1
  BY DEF Grow
<1> QED
  BY <1>1, <1>2, GrowObjects

\* enableFeatures wraps the body, or leaves everything as it is.
LEMMA WrapStep ==
  ASSUME TypeInv, NEW wanted \in BOOLEAN, Wrap(wanted)
  PROVE  \/ /\ wanted /\ Len(obj) < MaxObjects /\ Grow(Wrapping(body))
            /\ body' = Len(obj) + 1
         \/ ~wanted /\ UNCHANGED <<obj, body>>
<1>1. ObjectsInv /\ body \in 1 .. Len(obj)
  BY DEF TypeInv
<1>2. CASE wanted
  BY <1>1, <1>2, CreateWrapping DEF Wrap, Room
<1>3. CASE ~wanted
  BY <1>3 DEF Wrap
<1> QED
  BY <1>2, <1>3

\* write_body creates an object or appends to the one it created.
LEMMA WriteStep ==
  ASSUME TypeInv, WriteBody
  PROVE  \/ /\ writer = None /\ Len(obj) < MaxObjects /\ Grow(Holding(<<"w">>))
            /\ writer' = Len(obj) + 1 /\ body' = Len(obj) + 1
         \/ /\ writer \in 1 .. Len(obj) /\ Keep /\ UNCHANGED <<writer, body>>
            /\ obj'[writer].data = Append(obj[writer].data, "w")
            /\ \A i \in 1 .. Len(obj) : i # writer => obj'[i].data = obj[i].data
<1>1. ObjectsInv /\ \A i \in 1 .. Len(obj) : obj[i] \in Object
  BY ObjectTypes DEF TypeInv
<1>2. <<"w">> \in Seq(Chunk)
  <2>1. <<>> \in Seq(Chunk) /\ Append(<<>>, "w") = <<"w">>
    BY EmptySeq
  <2> QED
    BY <2>1, Chunks, AppendProperties
<1>3. CASE writer = None
  <2>1. Room /\ Create(Holding(<<"w">>)) /\ writer' = Len(obj) + 1 /\ body' = writer'
    BY <1>3 DEF WriteBody, RequestBodyWriter
  <2> QED
    BY <1>1, <1>2, <1>3, <2>1, CreateHolding DEF Room
<1>4. CASE writer # None
  <2>1. /\ writer \in 1 .. Len(obj) /\ UNCHANGED <<writer, body>>
        /\ obj' = [obj EXCEPT ![writer].data = Append(@, "w")]
    BY <1>4 DEF WriteBody, TypeInv
  <2> DEFINE f == [i \in 1 .. Len(obj) |->
                     IF i = writer THEN Append(obj[i].data, "w") ELSE obj[i].data]
  <2>2. \A i \in 1 .. Len(obj) : obj[i].data \in Seq(Chunk)
    BY <1>1 DEF Object
  <2>3. Append(obj[writer].data, "w") \in Seq(Chunk)
    BY <2>1, <2>2, Chunks, AppendProperties
  <2>4. f \in [1 .. Len(obj) -> Seq(Chunk)]
    BY <2>2, <2>3
  <2>5. obj' = [i \in 1 .. Len(obj) |-> [obj[i] EXCEPT !.data = f[i]]]
    <3>1. DOMAIN obj = 1 .. Len(obj)
      BY <1>1, ObjectTypes
    <3>2. \A i \in 1 .. Len(obj) : obj[i] = [obj[i] EXCEPT !.data = obj[i].data]
      BY <1>1 DEF Object
    <3> QED
      BY <2>1, <3>1, <3>2
  <2>6. Keep /\ \A i \in 1 .. Len(obj) : obj'[i].data = f[i]
    <3> HIDE DEF f
    <3> QED
      BY <1>1, <2>4, <2>5, Refill
  <2> QED
    BY <2>1, <2>6
<1> QED
  BY <1>3, <1>4

\* handleNext leaves the body, takes the one it wraps, or a copy of the buffer.
LEMMA CallNextStep ==
  ASSUME TypeInv, CallNext
  PROVE  /\ Len(obj) <= MaxObjects
         /\ \/ ~IsBuffering(body) /\ UNCHANGED <<obj, body, closed>>
            \/ /\ IsBuffering(body) /\ obj[body].data = <<>>
               /\ body' = obj[body].of /\ UNCHANGED <<obj, closed>>
            \/ /\ IsBuffering(body) /\ obj[body].data # <<>>
               /\ Grow(Holding(obj[body].data)) /\ body' = Len(obj) + 1
               /\ closed' \in BOOLEAN
<1>1. ObjectsInv /\ obj[body] \in Object /\ Len(obj) <= MaxObjects
  BY ObjectTypes DEF TypeInv, Before, CallNext
<1>2. obj[body].data \in Seq(Chunk)
  BY <1>1 DEF Object
<1> QED
  BY <1>1, <1>2, CreateHolding DEF CallNext, Unwrapped, Closes, TypeInv

\* The next handler takes some of what is left.
HandlerTook(base, n) ==
  LET data == obj[base].data
  IN  /\ base = obj[body].base /\ base \in 1 .. Len(obj)
      /\ data \in Seq(Chunk) /\ n \in 0 .. Len(data)
      /\ Keep
      /\ took' = took \o SubSeq(data, 1, n)
      /\ obj'[base].data = SubSeq(data, n + 1, Len(data))
      /\ \A i \in 1 .. Len(obj) : i # base => obj'[i].data = obj[i].data

LEMMA NextReadsStep ==
  ASSUME TypeInv, NextReads
  PROVE  \E base, n : HandlerTook(base, n)
<1> DEFINE base == obj[body].base
           data == obj[base].data
<1>1. ObjectsInv /\ \A i \in 1 .. Len(obj) : obj[i] \in Object /\ ObjectInv(i)
  BY ObjectTypes DEF TypeInv, ObjectsInv
<1>2. /\ body \in 1 .. Len(obj) /\ base \in 1 .. Len(obj) /\ DOMAIN obj = 1 .. Len(obj)
      /\ data \in Seq(Chunk)
  <2>1. body \in 1 .. Len(obj) /\ Len(obj) \in Nat /\ DOMAIN obj = 1 .. Len(obj)
    BY ObjectTypes DEF TypeInv
  <2>2. base \in 1 .. body
    BY <1>1, <2>1 DEF ObjectInv
  <2>3. base \in 1 .. Len(obj)
    BY <2>1, <2>2
  <2> QED
    BY <1>1, <2>1, <2>3 DEF Object
<1>3. PICK n \in 0 .. Len(data) :
        /\ took' = took \o SubSeq(data, 1, n)
        /\ obj' = [obj EXCEPT ![base].data = SubSeq(data, n + 1, Len(data))]
  <2>1. PICK n \in 1 .. Len(data) :
          /\ took' = took \o SubSeq(data, 1, n)
          /\ obj' = [obj EXCEPT ![base].data = SubSeq(data, n + 1, Len(data))]
    BY DEF NextReads
  <2>2. n \in 0 .. Len(data)
    BY <2>1
  <2> QED
    BY <2>1, <2>2
<1> DEFINE rest == SubSeq(data, n + 1, Len(data))
           f == [i \in 1 .. Len(obj) |-> IF i = base THEN rest ELSE obj[i].data]
<1>4. rest \in Seq(Chunk)
  BY <1>2, Split
<1>5. \A i \in 1 .. Len(obj) : obj[i].data \in Seq(Chunk)
  BY <1>1 DEF Object
<1>6. f \in [1 .. Len(obj) -> Seq(Chunk)]
  <2> HIDE DEF rest, base
  <2> QED
    BY <1>4, <1>5
<1>7. obj' = [i \in 1 .. Len(obj) |-> [obj[i] EXCEPT !.data = f[i]]]
  <2>1. \A i \in 1 .. Len(obj) : obj[i] = [obj[i] EXCEPT !.data = obj[i].data]
    BY <1>1 DEF Object
  <2>2. obj' = [obj EXCEPT ![base].data = rest]
    BY <1>3
  <2> HIDE DEF rest, base
  <2> QED
    BY <1>2, <2>1, <2>2
<1>8. Keep /\ \A i \in 1 .. Len(obj) : obj'[i].data = f[i]
  <2> HIDE DEF f
  <2> QED
    BY <1>1, <1>6, <1>7, Refill
<1>9. obj'[base].data = rest /\ \A i \in 1 .. Len(obj) : i # base => obj'[i].data = obj[i].data
  <2> HIDE DEF rest, base
  <2> QED
    BY <1>2, <1>8
<1>10. HandlerTook(base, n)
  BY <1>2, <1>3, <1>8, <1>9 DEF HandlerTook
<1> QED
  BY <1>10

\* The next handler puts a body of its own in the place of the one it was given.
LEMMA NextReplacesStep ==
  ASSUME TypeInv, NextReplaces
  PROVE  /\ Len(obj) <= MaxObjects /\ body' = Len(obj) + 1 /\ took' = <<>>
         /\ \E data \in Seq(Chunk) :
              Grow(Holding(data)) /\ saw' = [ok |-> TRUE, data |-> data]
<1>1. ObjectsInv /\ Len(obj) \in Nat
  BY ObjectTypes DEF TypeInv
<1>2. Len(obj) <= MaxObjects /\ body' = Len(obj) + 1 /\ took' = <<>>
  BY <1>1, BoundsAssumption DEF NextReplaces, Room
<1>3. PICK data \in {<<>>, <<"w">>, Original} :
        Create(Holding(data)) /\ saw' = [ok |-> TRUE, data |-> data]
  BY DEF NextReplaces
<1>4. data \in Seq(Chunk)
  <2>1. <<>> \in Seq(Chunk) /\ <<"w">> \in Seq(Chunk)
    BY Chunks, EmptySeq
  <2> QED
    BY <1>3, <2>1, Chunks
<1> QED
  BY <1>1, <1>2, <1>3, <1>4, CreateHolding

\* A step that creates no object, and one that does, leave numbers of objects.
LEMMA KeptRange ==
  ASSUME TypeInv, Keep
  PROVE  ObjectsInv' /\ Len(obj') = Len(obj)
BY KeepObjects DEF TypeInv, Keep

LEMMA TypeInit == Init => TypeInv
<1> SUFFICES ASSUME Init PROVE TypeInv
  OBVIOUS
<1> DEFINE o == [kind |-> "client", of |-> None, base |-> Client, passes |-> {}, data |-> Original]
<1>1. o \in Object
  BY Chunks DEF Object, Kind, None, Client
<1>2. obj = <<o>> /\ obj \in Seq(Object) /\ Len(obj) = 1 /\ obj[1] = o
  BY <1>1 DEF Init
<1>3. ObjectInv(1)
  BY <1>2 DEF ObjectInv, IsBuffering, None, Client
<1>4. ObjectsInv /\ Len(obj) <= MaxObjects
  BY <1>2, <1>3, BoundsAssumption DEF ObjectsInv
<1>5. <<>> \in Seq(Chunk) /\ <<>> \in Seq({"w"})
  BY EmptySeq
<1>6. body \in 1 .. Len(obj) /\ reader = None /\ writer = None
  BY <1>2 DEF Init, Client
<1>7. /\ saw \in [ok : BOOLEAN, data : Seq(Chunk)] /\ took \in Seq(Chunk)
      /\ after \in [data : Seq(Chunk), eof : BOOLEAN, full : BOOLEAN]
      /\ wrote \in Seq({"w"})
  BY <1>5 DEF Init
<1> HIDE DEF o
<1> QED
  BY <1>4, <1>6, <1>7 DEF Init, TypeInv

LEMMA TypeStep == TypeInv /\ [Next]_vars => TypeInv'
<1> SUFFICES ASSUME TypeInv, [Next]_vars PROVE TypeInv'
  OBVIOUS
<1>0. ObjectsInv /\ Len(obj) \in Nat /\ body \in 1 .. Len(obj)
  BY ObjectTypes DEF TypeInv
<1>w. ASSUME NEW wanted \in BOOLEAN, Wrap(wanted), UNCHANGED <<reader, writer>>
      PROVE  /\ ObjectsInv' /\ body' \in 1 .. Len(obj')
             /\ reader' \in {None} \cup 1 .. Len(obj')
             /\ writer' \in {None} \cup 1 .. Len(obj')
             /\ Len(obj) <= MaxObjects => Len(obj') <= MaxObjects
  <2>1. CASE Len(obj) < MaxObjects /\ Grow(Wrapping(body)) /\ body' = Len(obj) + 1
    <3>1. Len(obj) <= MaxObjects /\ MaxObjects \in Nat
      BY <1>0, <2>1, BoundsAssumption
    <3>2. /\ ObjectsInv' /\ Len(obj') = Len(obj) + 1 /\ Len(obj) + 1 \in 1 .. Len(obj')
          /\ 1 .. Len(obj) \subseteq 1 .. Len(obj')
      BY <1>0, <2>1, <3>1, Grown
    <3> QED
      BY <1>0, <1>w, <2>1, <3>1, <3>2 DEF TypeInv
  <2>2. CASE UNCHANGED <<obj, body>>
    BY <1>0, <1>w, <2>2, Unchanged, KeptRange DEF TypeInv
  <2> QED
    BY <1>w, <2>1, <2>2, WrapStep
<1>1. CASE ServeHTTP
  <2>1. enabled' \in BOOLEAN /\ Wrap(enabled') /\ UNCHANGED <<reader, writer, closed, history>>
    BY <1>1 DEF ServeHTTP
  <2>2. pc' = "request" /\ Len(obj) <= MaxObjects
    BY <1>1 DEF ServeHTTP, TypeInv, Before
  <2>3. /\ ObjectsInv' /\ body' \in 1 .. Len(obj') /\ reader' \in {None} \cup 1 .. Len(obj')
        /\ writer' \in {None} \cup 1 .. Len(obj') /\ Len(obj') <= MaxObjects
    BY <1>w, <2>1, <2>2
  <2> QED
    BY <2>1, <2>2, <2>3 DEF TypeInv, history
<1>2. CASE EnableFeatures
  <2>1. /\ enabled' \in BOOLEAN /\ Wrap(enabled')
        /\ UNCHANGED <<pc, reader, writer, closed, saw, took, after, wrote>>
        /\ read' \in {"other", read}
    BY <1>2 DEF EnableFeatures, TypeInv
  <2>2. /\ ObjectsInv' /\ body' \in 1 .. Len(obj') /\ reader' \in {None} \cup 1 .. Len(obj')
        /\ writer' \in {None} \cup 1 .. Len(obj')
        /\ Len(obj) <= MaxObjects => Len(obj') <= MaxObjects
    BY <1>w, <2>1
  <2> QED
    BY <2>1, <2>2 DEF TypeInv, Before
<1>3. CASE ReadBody
  <2>1. PICK base, n, q, eof, full : ReadOf(base, n, q, eof, full)
    BY <1>3, ReadStep
  <2>2. ObjectsInv' /\ Len(obj') = Len(obj)
    BY <2>1, KeptRange DEF ReadOf
  <2>3. reader' \in 1 .. Len(obj) /\ UNCHANGED <<pc, body, writer, enabled, closed, saw, took, wrote>>
    BY <1>3, <2>1, FromType DEF ReadBody, ReadOf
  <2>4. SubSeq(obj[base].data, 1, n) \in Seq(Chunk)
    BY <2>1, Split DEF ReadOf
  <2>5. after.data \o SubSeq(obj[base].data, 1, n) \in Seq(Chunk)
    BY <2>4, ConcatProperties DEF TypeInv
  <2>6. after' \in [data : Seq(Chunk), eof : BOOLEAN, full : BOOLEAN]
    <3>1. /\ eof \in BOOLEAN /\ full \in BOOLEAN
          /\ after \in [data : Seq(Chunk), eof : BOOLEAN, full : BOOLEAN]
      BY <2>1 DEF ReadOf, TypeInv
    <3>2. \/ UNCHANGED after
          \/ after' = [data |-> after.data \o SubSeq(obj[base].data, 1, n),
                       eof |-> eof, full |-> full]
      BY <2>1 DEF ReadOf, Records
    <3>3. [data |-> after.data \o SubSeq(obj[base].data, 1, n), eof |-> eof, full |-> full]
            \in [data : Seq(Chunk), eof : BOOLEAN, full : BOOLEAN]
      <4>1. \A d \in Seq(Chunk), e \in BOOLEAN, f \in BOOLEAN :
              [data |-> d, eof |-> e, full |-> f]
                \in [data : Seq(Chunk), eof : BOOLEAN, full : BOOLEAN]
        OBVIOUS
      <4> QED
        BY <2>5, <3>1, <4>1, Zenon
    <3> QED
      BY <3>1, <3>2, <3>3, Zenon
  <2>7. read' \in {"nothing", "unbuffered", "whole", "other", "own"}
    BY <2>1 DEF ReadOf, Records, TypeInv, Consumed
  <2> QED
    BY <2>2, <2>3, <2>6, <2>7 DEF TypeInv, Before
<1>4. CASE WriteBody
  <2>1. /\ pc = "request" /\ wrote' = Append(wrote, "w")
        /\ UNCHANGED <<pc, reader, enabled, closed, saw, took, after, read>>
    BY <1>4 DEF WriteBody
  <2>2. wrote' \in Seq({"w"})
    BY <2>1, AppendProperties DEF TypeInv
  <2>3. /\ ObjectsInv' /\ body' \in 1 .. Len(obj') /\ writer' \in 1 .. Len(obj')
        /\ 1 .. Len(obj) \subseteq 1 .. Len(obj') /\ Len(obj') <= MaxObjects
    <3>1. CASE /\ Len(obj) < MaxObjects /\ Grow(Holding(<<"w">>))
               /\ writer' = Len(obj) + 1 /\ body' = Len(obj) + 1
      <4>1. Len(obj) <= MaxObjects /\ MaxObjects \in Nat
        BY <1>0, <3>1, BoundsAssumption
      <4>2. <<"w">> \in Seq(Chunk)
        BY Chunks
      <4>3. /\ ObjectsInv' /\ Len(obj') = Len(obj) + 1 /\ Len(obj) + 1 \in 1 .. Len(obj')
            /\ 1 .. Len(obj) \subseteq 1 .. Len(obj')
        BY <1>0, <3>1, <4>1, <4>2, Grown
      <4> QED
        BY <1>0, <3>1, <4>1, <4>3
    <3>2. CASE writer \in 1 .. Len(obj) /\ Keep /\ UNCHANGED <<writer, body>>
      BY <1>0, <2>1, <3>2, KeptRange DEF TypeInv, Before
    <3> QED
      BY <1>4, <3>1, <3>2, WriteStep
  <2> QED
    BY <2>1, <2>2, <2>3 DEF TypeInv
<1>5. CASE Proceed \/ Stop
  <2>1. /\ UNCHANGED <<obj, body, enabled, history>> /\ CloseRequest
        /\ pc' \in {"returned", "done"} /\ (pc' = "returned" => pc = "request")
    BY <1>5 DEF Proceed, Stop
  <2>2. reader' = None /\ writer' = None /\ closed' \in BOOLEAN
    BY <2>1 DEF CloseRequest, Closes, TypeInv
  <2>3. ObjectsInv' /\ Len(obj') = Len(obj)
    BY <1>0, <2>1, Unchanged, KeptRange
  <2> QED
    BY <2>1, <2>2, <2>3 DEF TypeInv, Before, history
<1>6. CASE CallNext
  <2>1. /\ pc' = "next" /\ UNCHANGED <<reader, writer, enabled, took, after, wrote, read>>
        /\ saw' = [ok |-> ~(obj'[body'].base = Client /\ closed'), data |-> obj'[obj'[body'].base].data]
    BY <1>6 DEF CallNext
  <2>2. /\ ObjectsInv' /\ body' \in 1 .. Len(obj') /\ 1 .. Len(obj) \subseteq 1 .. Len(obj')
        /\ closed' \in BOOLEAN
    <3>1. CASE UNCHANGED <<obj, body, closed>>
      BY <1>0, <3>1, Unchanged, KeptRange DEF TypeInv
    <3>2. CASE IsBuffering(body) /\ body' = obj[body].of /\ UNCHANGED <<obj, closed>>
      <4>1. obj[body].of \in 1 .. body - 1
        BY <1>0, <3>2 DEF ObjectsInv, ObjectInv
      <4> QED
        BY <1>0, <3>2, <4>1, Unchanged, KeptRange DEF TypeInv
    <3>3. CASE /\ Len(obj) <= MaxObjects /\ Grow(Holding(obj[body].data))
               /\ body' = Len(obj) + 1 /\ closed' \in BOOLEAN
      <4>1. obj[body].data \in Seq(Chunk)
        BY <1>0, ObjectTypes DEF Object
      <4> QED
        BY <1>0, <3>3, <4>1, Grown
    <3> QED
      BY <1>6, <3>1, <3>2, <3>3, CallNextStep
  <2>3. saw' \in [ok : BOOLEAN, data : Seq(Chunk)]
    <3>1. obj'[body'].base \in 1 .. body' /\ Len(obj') \in Nat /\ body' \in 1 .. Len(obj')
      BY <2>2 DEF ObjectsInv, ObjectInv
    <3>2. obj'[body'].base \in 1 .. Len(obj') /\ obj' \in Seq(Object)
      BY <2>2, <3>1 DEF ObjectsInv
    <3>3. obj'[obj'[body'].base] \in Object
      BY <3>2, ElementOfSeq
    <3> QED
      BY <2>1, <3>3 DEF Object
  <2> QED
    BY <2>1, <2>2, <2>3 DEF TypeInv, Before
<1>7. CASE NextReads
  <2>1. PICK base, n : HandlerTook(base, n)
    BY <1>7, NextReadsStep
  <2>2. /\ pc' = "running"
        /\ UNCHANGED <<body, reader, writer, enabled, closed, saw, after, wrote, read>>
    BY <1>7 DEF NextReads, InNext
  <2>3. ObjectsInv' /\ Len(obj') = Len(obj)
    BY <2>1, KeptRange DEF HandlerTook
  <2>4. took' \in Seq(Chunk)
    <3>1. SubSeq(obj[base].data, 1, n) \in Seq(Chunk)
      BY <2>1, Split DEF HandlerTook
    <3> QED
      BY <2>1, <3>1, ConcatProperties DEF HandlerTook, TypeInv
  <2> QED
    BY <2>2, <2>3, <2>4 DEF TypeInv, Before
<1>8. CASE NextCloses
  <2>1. /\ pc' = "running" /\ closed' \in BOOLEAN
        /\ saw' = [saw EXCEPT !.ok = @ /\ obj[body].base # Client]
        /\ UNCHANGED <<obj, body, reader, writer, enabled, took, after, wrote, read>>
    BY <1>8 DEF NextCloses, InNext, Closes, TypeInv
  <2>2. ObjectsInv' /\ Len(obj') = Len(obj)
    BY <1>0, <2>1, Unchanged, KeptRange
  <2>3. saw' \in [ok : BOOLEAN, data : Seq(Chunk)]
    BY <2>1 DEF TypeInv
  <2> QED
    BY <2>1, <2>2, <2>3 DEF TypeInv, Before
<1>9. CASE NextReplaces
  <2>1. /\ pc' = "running"
        /\ UNCHANGED <<reader, writer, enabled, closed, after, wrote, read>>
    BY <1>9 DEF NextReplaces, InNext
  <2>2. /\ Len(obj) <= MaxObjects /\ body' = Len(obj) + 1 /\ took' = <<>>
        /\ \E data \in Seq(Chunk) :
             Grow(Holding(data)) /\ saw' = [ok |-> TRUE, data |-> data]
    BY <1>9, NextReplacesStep
  <2>3. /\ ObjectsInv' /\ Len(obj) + 1 \in 1 .. Len(obj')
        /\ 1 .. Len(obj) \subseteq 1 .. Len(obj')
    BY <1>0, <2>2, Grown
  <2>4. saw' \in [ok : BOOLEAN, data : Seq(Chunk)] /\ took' \in Seq(Chunk)
    BY <2>2, EmptySeq
  <2> QED
    BY <2>1, <2>2, <2>3, <2>4 DEF TypeInv, Before
<1>10. CASE HandleResponse
  <2>1. pc' = "response" /\ UNCHANGED <<state, history>>
    BY <1>10 DEF HandleResponse
  <2>2. ObjectsInv' /\ Len(obj') = Len(obj)
    BY <1>0, <2>1, Unchanged, KeptRange DEF state
  <2> QED
    BY <2>1, <2>2 DEF TypeInv, Before, state, history
<1>11. CASE Finished \/ UNCHANGED vars
  <2>1. UNCHANGED vars
    BY <1>11 DEF Finished
  <2>2. ObjectsInv' /\ Len(obj') = Len(obj)
    BY <1>0, <2>1, Unchanged, KeptRange DEF vars, state
  <2> QED
    BY <2>1, <2>2 DEF TypeInv, Before, vars, state, history
<1> QED
  BY <1>1, <1>2, <1>3, <1>4, <1>5, <1>6, <1>7, <1>8, <1>9, <1>10, <1>11 DEF Next

\* Nothing happens before ServeHTTP.
IdleInv == pc = "idle" => Init

LEMMA IdleStep == IdleInv /\ [Next]_vars => IdleInv'
<1>1. ASSUME Next PROVE pc' # "idle" \/ UNCHANGED vars
  BY <1>1 DEF Next, ServeHTTP, EnableFeatures, ReadBody, WriteBody, Proceed, Stop, CallNext,
       NextReads, NextCloses, NextReplaces, InNext, HandleResponse, Finished
<1>2. ASSUME IdleInv, UNCHANGED vars PROVE IdleInv'
  BY <1>2 DEF IdleInv, Init, vars, state, history
<1> QED
  BY <1>1, <1>2 DEF IdleInv

\* Cached readers and writers are bodies that exist.
THEOREM RequestBodyTypes == Spec => []TypeOK
<1>1. Spec => []TypeInv
  BY TypeInit, TypeStep, PTL DEF Spec
<1>2. TypeInv => TypeOK
  BY TypeInvImplies
<1> QED
  BY <1>1, <1>2, PTL

-----------------------------------------------------------------------------
(* A guest that writes nothing *)

\* Before the next handler is called, if the guest wrote nothing: r.Body leads to
\* the client's, which is whole and open as long as the guest read nothing, and
\* is in the outermost buffer after it read all of it there.
UnwrittenInv ==
  Before /\ wrote = <<>> =>
    /\ obj[body].base = Client
    /\ enabled => IsBuffering(body)
    /\ read = "nothing" =>
         /\ ~closed /\ obj[Client].data = Original
         /\ pc # "returned" => reader = None
         /\ \A i \in 1 .. Len(obj) : IsBuffering(i) => obj[i].data = <<>>
    /\ read = "whole" =>
         /\ IsBuffering(body) /\ obj[body].data = Original
         /\ obj[Client].data = <<>>
         /\ pc # "returned" => reader = body

LEMMA UnwrittenInit == Init => UnwrittenInv
BY DEF Init, UnwrittenInv, IsBuffering, Client, None

LEMMA ClientExists ==
  ASSUME TypeInv
  PROVE  /\ Client \in 1 .. Len(obj) /\ ~IsBuffering(Client) /\ ObjectInv(body)
         /\ \A i \in 1 .. Len(obj) : ObjectInv(i) /\ obj[i] \in Object
<1>1. Client \in 1 .. Len(obj) /\ \A i \in 1 .. Len(obj) : ObjectInv(i) /\ obj[i] \in Object
  BY ObjectTypes DEF TypeInv, ObjectsInv, Client
<1> QED
  BY <1>1 DEF ObjectInv, TypeInv, IsBuffering

\* An object that is created has the base of the one it wraps, and others do not change.
LEMMA Wrapped ==
  ASSUME TypeInv, Grow(Wrapping(body)), body' = Len(obj) + 1
  PROVE  /\ obj'[body'].base = obj[body].base /\ IsBuffering(body)' /\ obj'[body'].data = <<>>
         /\ Len(obj') = Len(obj) + 1
         /\ \A i \in 1 .. Len(obj) : obj'[i] = obj[i]
         /\ \A i \in 1 .. Len(obj') : i \in 1 .. Len(obj) \/ i = body'
<1>1. Len(obj) \in Nat
  BY ObjectTypes DEF TypeInv
<1> QED
  BY <1>1 DEF Grow, Wrapping, IsBuffering

LEMMA UnwrittenWrap ==
  ASSUME TypeInv, UnwrittenInv, Wrap(enabled'), enabled' \in {enabled, TRUE},
         Before, Before', UNCHANGED <<reader, wrote, closed>>, pc # "returned",
         pc' # "returned",
         read' = IF enabled' /\ read = "whole" /\ pc = "request" THEN "other" ELSE read,
         pc = "request" \/ read = "nothing"
  PROVE  UnwrittenInv'
<1> SUFFICES ASSUME wrote = <<>> PROVE UnwrittenInv'
  BY DEF UnwrittenInv
<1>0. enabled' \in BOOLEAN
  BY DEF TypeInv
<1>1. CASE enabled' /\ Grow(Wrapping(body)) /\ body' = Len(obj) + 1
  <2>1. /\ obj'[body'].base = obj[body].base /\ IsBuffering(body)' /\ obj'[body'].data = <<>>
        /\ Len(obj') = Len(obj) + 1
        /\ \A i \in 1 .. Len(obj) : obj'[i] = obj[i]
        /\ \A i \in 1 .. Len(obj') : i \in 1 .. Len(obj) \/ i = body'
    BY <1>1, Wrapped
  <2>2. obj'[Client] = obj[Client]
    BY <2>1, ClientExists
  <2>3. read' # "whole" /\ (read' = "nothing" => read = "nothing")
    BY <1>1
  <2>4. (\A i \in 1 .. Len(obj) : IsBuffering(i) => obj[i].data = <<>>)
          => \A i \in 1 .. Len(obj') : obj'[i].kind = "buffering" => obj'[i].data = <<>>
    BY <2>1 DEF IsBuffering
  <2> QED
    BY <2>1, <2>2, <2>3, <2>4 DEF UnwrittenInv, IsBuffering
<1>2. CASE ~enabled' /\ UNCHANGED <<obj, body>>
  <2>1. ~enabled /\ read' = read
    BY <1>0, <1>2 DEF TypeInv
  <2> QED
    BY <1>2, <2>1 DEF UnwrittenInv, IsBuffering
<1> QED
  BY <1>0, <1>1, <1>2, WrapStep

LEMMA UnwrittenRead ==
  ASSUME TypeInv, UnwrittenInv, ReadBody, pc = "request"
  PROVE  UnwrittenInv'
<1>1. PICK base, n, q, eof, full : ReadOf(base, n, q, eof, full)
  BY ReadStep
<1>2. UNCHANGED <<pc, body, writer, enabled, closed, saw, took, wrote>>
  BY DEF ReadBody
<1> SUFFICES ASSUME wrote = <<>> PROVE UnwrittenInv'
  BY <1>2 DEF UnwrittenInv
<1>3. /\ obj[body].base = Client /\ (enabled => IsBuffering(body))
      /\ Client \in 1 .. Len(obj) /\ body \in 1 .. Len(obj)
  BY ClientExists DEF UnwrittenInv, Before, TypeInv
<1>4. /\ read' = Consumed(base, q) /\ reader' = From /\ base = obj[From].base
      /\ n \in 0 .. Len(obj[base].data) /\ q \in 0 .. n /\ eof \in BOOLEAN
      /\ (eof => n = Len(obj[base].data)) /\ (~eof => q = 0)
      /\ obj[base].data \in Seq(Chunk)
      /\ obj'[base].data = SubSeq(obj[base].data, n + 1, Len(obj[base].data))
  BY <1>1 DEF ReadOf, Records
<1>5. obj'[body].base = Client /\ (IsBuffering(body)' <=> IsBuffering(body))
  BY <1>1, <1>2, <1>3 DEF ReadOf, Keep, IsBuffering
<1>6. read' # "nothing"
  BY <1>4 DEF Consumed, TypeInv
<1>7. ASSUME read' = "whole"
      PROVE  /\ IsBuffering(body)' /\ obj'[body].data = Original
             /\ obj'[Client].data = <<>> /\ reader' = body
  <2>1. read = "whole" \/ (read = "nothing" /\ enabled /\ q = Len(Original))
    BY <1>4, <1>7 DEF Consumed, TypeInv
  <2>2. From = body /\ IsBuffering(body)
    <3>1. Before /\ pc # "returned"
      BY DEF Before
    <3>2. IsBuffering(body) /\ reader \in {None, body}
      BY <2>1, <3>1 DEF UnwrittenInv
    <3> QED
      BY <3>2 DEF From
  <2>3. base = Client
    BY <1>3, <1>4, <2>2
  <2>4. body \in obj[From].passes
    BY <2>2, ClientExists DEF ObjectInv
  <2>5. obj'[body].data = Buffers(obj[body].data, SubSeq(obj[base].data, 1, n), q, eof)
    BY <1>1, <1>3, <2>4 DEF ReadOf
  <2>6. obj[body].data \in Seq(Chunk) /\ SubSeq(obj[base].data, 1, n) \in Seq(Chunk)
    BY <1>3, <1>4, ClientExists, Split DEF Object
  <2>7. CASE read = "whole"
    <3>1. obj[base].data = <<>> /\ obj[body].data = Original
      BY <2>3, <2>7 DEF UnwrittenInv, Before
    <3>2. n = 0 /\ q = 0 /\ Len(obj[base].data) = 0
      BY <1>4, <3>1, EmptySeq
    <3>3. SubSeq(obj[base].data, 1, n) = <<>> /\ obj'[base].data = <<>>
      BY <1>4, <3>2, SubSeqEmpty
    <3>5. obj'[body].data = Original
      <4>1. <<>> \in Seq(Chunk) /\ Len(<<>>) = 0 /\ q \in 0 .. Len(<<>>)
        BY <3>2, EmptySeq
      <4>2. Buffers(Original, <<>>, q, eof) = Original
        BY <1>4, <4>1, Chunks, Keeps
      <4> QED
        BY <2>5, <3>1, <3>3, <4>2
    <3> QED
      BY <1>4, <1>5, <2>2, <2>3, <3>3, <3>5
  <2>8. CASE read = "nothing" /\ enabled /\ q = Len(Original)
    <3>1. obj[base].data = Original /\ obj[body].data = <<>>
      BY <1>3, <2>2, <2>3, <2>8 DEF UnwrittenInv, Before
    <3>2. Len(Original) \in Nat \ {0}
      BY OriginalAssumption, EmptySeq
    <3>3. eof /\ n = Len(Original)
      BY <1>4, <2>8, <3>1, <3>2
    <3>4. SubSeq(Original, 1, n) = Original /\ obj'[base].data = <<>>
      BY <1>4, <3>1, <3>2, <3>3, Chunks, SubSeqFull, SubSeqEmpty
    <3>5. obj'[body].data = Original
      <4>1. q \in 0 .. Len(Original) /\ q = Len(Original) /\ Original \in Seq(Chunk)
        BY <2>8, <3>2, Chunks
      <4>2. <<>> \in Seq(Chunk)
        BY EmptySeq
      <4>3. Buffers(<<>>, Original, q, eof) = Original
        BY <1>4, <3>3, <4>1, <4>2, Keeps
      <4> QED
        BY <2>5, <3>1, <3>4, <4>3
    <3> QED
      BY <1>4, <1>5, <2>2, <2>3, <3>4, <3>5
  <2> QED
    BY <2>1, <2>7, <2>8
<1> QED
  BY <1>2, <1>3, <1>5, <1>6, <1>7 DEF UnwrittenInv, Before

LEMMA UnwrittenStep == TypeInv /\ IdleInv /\ UnwrittenInv /\ [Next]_vars => UnwrittenInv'
<1> SUFFICES ASSUME TypeInv, IdleInv, UnwrittenInv, [Next]_vars PROVE UnwrittenInv'
  OBVIOUS
<1>1. CASE ServeHTTP
  <2>1. /\ pc = "idle" /\ pc' = "request" /\ enabled' \in BOOLEAN /\ Wrap(enabled')
        /\ UNCHANGED <<reader, closed, wrote, read>>
    BY <1>1 DEF ServeHTTP, history
  <2>2. enabled = FALSE /\ read = "nothing"
    BY <2>1 DEF IdleInv, Init
  <2> QED
    BY <2>1, <2>2, UnwrittenWrap DEF Before
<1>2. CASE EnableFeatures
  <2>1. CASE pc = "request"
    BY <1>2, <2>1, UnwrittenWrap DEF EnableFeatures, Before
  <2>2. CASE pc = "response"
    BY <1>2, <2>2 DEF EnableFeatures, Before, UnwrittenInv
  <2> QED
    BY <1>2, <2>1, <2>2 DEF EnableFeatures
<1>3. CASE ReadBody
  <2>1. CASE pc = "request"
    BY <1>3, <2>1, UnwrittenRead
  <2>2. CASE pc = "response"
    BY <1>3, <2>2 DEF ReadBody, Before, UnwrittenInv
  <2> QED
    BY <1>3, <2>1, <2>2 DEF ReadBody
<1>4. CASE WriteBody
  <2>1. wrote' # <<>>
    BY <1>4, AppendProperties DEF WriteBody, TypeInv
  <2> QED
    BY <2>1 DEF UnwrittenInv
<1>5. CASE Proceed
  <2>1. /\ pc = "request" /\ pc' = "returned" /\ UNCHANGED <<obj, body, enabled, wrote, read>>
        /\ reader = None => closed' = closed
    BY <1>5 DEF Proceed, CloseRequest, history
  <2> QED
    BY <2>1 DEF UnwrittenInv, Before, IsBuffering
<1>6. CASE Stop \/ CallNext \/ NextReads \/ NextCloses \/ NextReplaces \/ HandleResponse
  BY <1>6 DEF Stop, CallNext, NextReads, NextCloses, NextReplaces, InNext, HandleResponse,
       UnwrittenInv, Before
<1>7. CASE Finished \/ UNCHANGED vars
  BY <1>7 DEF Finished, vars, state, history, UnwrittenInv, Before, IsBuffering
<1> QED
  BY <1>1, <1>2, <1>3, <1>4, <1>5, <1>6, <1>7 DEF Next

-----------------------------------------------------------------------------
(* A guest that writes *)

\* Before the next handler is called, if the guest wrote: r.Body leads to what it
\* wrote, and until the guest reads that, no buffer around it holds anything.
WrittenInv ==
  /\ pc = "request" => (writer = None <=> wrote = <<>>)
  /\ Before /\ wrote # <<>> =>
       LET written == obj[body].base
       IN  /\ obj[written].kind = "written"
           /\ pc = "request" => writer = written
           /\ read # "own" =>
                /\ obj[written].data = wrote
                /\ \A i \in 1 .. Len(obj) :
                     IsBuffering(i) /\ obj[i].base = written => obj[i].data = <<>>

LEMMA WrittenInit == Init => WrittenInv
BY DEF Init, WrittenInv

\* The end of the chain that starts at the body.
LEMMA BodyBase ==
  ASSUME TypeInv
  PROVE  obj[body].base \in 1 .. Len(obj) /\ ~IsBuffering(obj[body].base)
<1>1. ObjectInv(body) /\ body \in 1 .. Len(obj) /\ Len(obj) \in Nat
  BY ClientExists, ObjectTypes DEF TypeInv
<1> QED
  BY <1>1 DEF ObjectInv

LEMMA WrittenEnable ==
  ASSUME TypeInv, WrittenInv, EnableFeatures, pc = "request"
  PROVE  WrittenInv'
<1>1. /\ UNCHANGED <<pc, writer, wrote>> /\ enabled' \in BOOLEAN /\ Wrap(enabled')
      /\ read' # "own" => read # "own"
  BY DEF EnableFeatures, TypeInv
<1>2. CASE Grow(Wrapping(body)) /\ body' = Len(obj) + 1
  <2>1. /\ obj'[body'].base = obj[body].base /\ obj'[body'].data = <<>>
        /\ \A i \in 1 .. Len(obj) : obj'[i] = obj[i]
        /\ \A i \in 1 .. Len(obj') : i \in 1 .. Len(obj) \/ i = body'
    BY <1>2, Wrapped
  <2>2. obj'[obj[body].base] = obj[obj[body].base]
    BY <2>1, BodyBase
  <2> QED
    BY <1>1, <2>1, <2>2 DEF WrittenInv, Before, IsBuffering
<1>3. CASE UNCHANGED <<obj, body>>
  BY <1>1, <1>3 DEF WrittenInv, Before, IsBuffering
<1> QED
  BY <1>1, <1>2, <1>3, WrapStep

LEMMA WrittenRead ==
  ASSUME TypeInv, WrittenInv, ReadBody, pc = "request"
  PROVE  WrittenInv'
<1>1. PICK base, n, q, eof, full : ReadOf(base, n, q, eof, full)
  BY ReadStep
<1>2. UNCHANGED <<pc, body, writer, wrote>>
  BY DEF ReadBody
<1> SUFFICES ASSUME wrote # <<>> PROVE WrittenInv'
  BY <1>2 DEF WrittenInv
<1> PICK written \in 1 .. Len(obj) : written = obj[body].base
  BY BodyBase
<1>3. obj[written].kind = "written" /\ writer = written
  BY DEF WrittenInv, Before
<1>4. obj'[body].base = written /\ obj'[written].kind = "written"
  BY <1>1, <1>3 DEF ReadOf, Keep, TypeInv
<1>5. ASSUME read' # "own"
      PROVE  /\ obj'[written].data = wrote
             /\ \A i \in 1 .. Len(obj) :
                  obj'[i].kind = "buffering" /\ obj'[i].base = written => obj'[i].data = <<>>
  <2>1. read # "own" /\ obj[base].kind # "written"
    BY <1>1, <1>5 DEF ReadOf, Records, Consumed
  <2>2. /\ obj[written].data = wrote
        /\ \A i \in 1 .. Len(obj) :
             IsBuffering(i) /\ obj[i].base = written => obj[i].data = <<>>
    BY <2>1 DEF WrittenInv, Before
  <2>3. base # written /\ base = obj[From].base
    BY <1>1, <1>3, <2>1 DEF ReadOf
  <2>4. \A j \in obj[From].passes : IsBuffering(j) /\ obj[j].base = base
    BY <2>3, FromType DEF ObjectInv
  <2>5. written \notin obj[From].passes
    BY <1>3, <2>4 DEF IsBuffering
  <2>6. obj'[written].data = wrote
    BY <1>1, <2>2, <2>3, <2>5 DEF ReadOf
  <2>7. ASSUME NEW i \in 1 .. Len(obj), obj'[i].kind = "buffering", obj'[i].base = written
        PROVE  obj'[i].data = <<>>
    <3>1. obj[i].kind = "buffering" /\ obj[i].base = written
      BY <1>1, <2>7 DEF ReadOf, Keep
    <3>2. i \notin obj[From].passes
      BY <2>3, <2>4, <3>1
    <3>3. ~IsBuffering(base)
      BY <2>3, FromType DEF ObjectInv
    <3>4. i # base
      BY <3>1, <3>3 DEF IsBuffering
    <3> QED
      BY <1>1, <2>2, <3>1, <3>2, <3>4 DEF ReadOf, IsBuffering
  <2> QED
    BY <2>6, <2>7
<1>6. body \in 1 .. Len(obj) /\ Len(obj') = Len(obj)
  BY <1>1 DEF TypeInv, ReadOf, Keep
<1>7. obj'[body'].base = written /\ writer' = written
  BY <1>2, <1>3, <1>4
<1> QED
  BY <1>2, <1>4, <1>5, <1>6, <1>7 DEF WrittenInv, IsBuffering

LEMMA WrittenWrite ==
  ASSUME TypeInv, WrittenInv, WriteBody
  PROVE  WrittenInv'
<1>1. /\ pc = "request" /\ pc' = "request" /\ read' = read /\ wrote' = Append(wrote, "w")
  BY DEF WriteBody
<1>2. wrote' # <<>>
  BY <1>1, AppendProperties DEF TypeInv
<1>3. CASE /\ writer = None /\ Grow(Holding(<<"w">>))
           /\ writer' = Len(obj) + 1 /\ body' = Len(obj) + 1
  <2>1. Len(obj) \in Nat /\ \A i \in 1 .. Len(obj) : obj[i].base \in 1 .. i
    BY ObjectTypes, ClientExists DEF TypeInv, ObjectInv
  <2>2. wrote' = <<"w">>
    BY <1>1, <1>3 DEF WrittenInv
  <2>3. PICK m : m = Len(obj) + 1
    OBVIOUS
  <2>4. /\ obj'[m].kind = "written" /\ obj'[m].base = m /\ obj'[m].data = <<"w">>
        /\ Len(obj') = m /\ \A i \in 1 .. Len(obj) : obj'[i] = obj[i]
    BY <1>3, <2>3 DEF Grow, Holding
  <2>5. ASSUME NEW i \in 1 .. Len(obj'), obj'[i].kind = "buffering"
        PROVE  obj'[i].base # m
    <3>1. i \in 1 .. Len(obj)
      BY <2>1, <2>3, <2>4, <2>5
    <3> QED
      BY <2>1, <2>3, <2>4, <3>1
  <2>6. writer' = m /\ body' = m /\ writer' # None
    BY <1>3, <2>1, <2>3 DEF None
  <2> QED
    BY <1>1, <1>2, <2>2, <2>4, <2>5, <2>6 DEF WrittenInv, IsBuffering
<1>4. CASE /\ writer \in 1 .. Len(obj) /\ Keep /\ UNCHANGED <<writer, body>>
           /\ obj'[writer].data = Append(obj[writer].data, "w")
           /\ \A i \in 1 .. Len(obj) : i # writer => obj'[i].data = obj[i].data
  <2>1. writer # None /\ wrote # <<>>
    BY <1>1, <1>4 DEF WrittenInv, None
  <2>2. /\ obj[body].base = writer /\ obj[writer].kind = "written"
        /\ read # "own" => /\ obj[writer].data = wrote
                           /\ \A i \in 1 .. Len(obj) :
                                IsBuffering(i) /\ obj[i].base = writer => obj[i].data = <<>>
    BY <1>1, <2>1 DEF WrittenInv, Before
  <2>3. obj'[body'].base = writer /\ obj'[writer].kind = "written" /\ Len(obj') = Len(obj)
    BY <1>4, <2>2 DEF Keep, TypeInv
  <2>4. read # "own" => obj'[writer].data = wrote'
    BY <1>1, <1>4, <2>2
  <2>5. ASSUME NEW i \in 1 .. Len(obj), read # "own",
               obj'[i].kind = "buffering", obj'[i].base = writer
        PROVE  obj'[i].data = <<>>
    <3>1. obj[i].kind = "buffering" /\ obj[i].base = writer
      BY <1>4, <2>5 DEF Keep
    <3>2. i # writer
      BY <2>2, <3>1
    <3> QED
      BY <1>4, <2>2, <2>5, <3>1, <3>2 DEF IsBuffering
  <2> QED
    BY <1>1, <1>2, <1>4, <2>1, <2>3, <2>4, <2>5 DEF WrittenInv, IsBuffering
<1> QED
  BY <1>3, <1>4, WriteStep

LEMMA WrittenStep == TypeInv /\ IdleInv /\ WrittenInv /\ [Next]_vars => WrittenInv'
<1> SUFFICES ASSUME TypeInv, IdleInv, WrittenInv, [Next]_vars PROVE WrittenInv'
  OBVIOUS
<1>1. CASE ServeHTTP
  <2>1. pc' = "request" /\ UNCHANGED <<writer, wrote>> /\ writer = None /\ wrote = <<>>
    BY <1>1 DEF ServeHTTP, history, IdleInv, Init
  <2> QED
    BY <2>1 DEF WrittenInv
<1>2. CASE EnableFeatures
  <2>1. pc = "request" \/ (pc = "response" /\ pc' = "response")
    BY <1>2 DEF EnableFeatures
  <2> QED
    BY <1>2, <2>1, WrittenEnable DEF WrittenInv, Before
<1>3. CASE ReadBody
  <2>1. pc = "request" \/ (pc = "response" /\ pc' = "response")
    BY <1>3 DEF ReadBody
  <2> QED
    BY <1>3, <2>1, WrittenRead DEF WrittenInv, Before
<1>4. CASE WriteBody
  BY <1>4, WrittenWrite
<1>5. CASE Proceed
  <2>1. pc = "request" /\ pc' = "returned" /\ UNCHANGED <<obj, body, wrote, read>>
    BY <1>5 DEF Proceed, history
  <2> QED
    BY <2>1 DEF WrittenInv, Before, IsBuffering
<1>6. CASE Stop \/ CallNext \/ NextReads \/ NextCloses \/ NextReplaces \/ HandleResponse
  BY <1>6 DEF Stop, CallNext, NextReads, NextCloses, NextReplaces, InNext, HandleResponse,
       WrittenInv, Before
<1>7. CASE Finished \/ UNCHANGED vars
  BY <1>7 DEF Finished, vars, state, history, WrittenInv, Before, IsBuffering
<1> QED
  BY <1>1, <1>2, <1>3, <1>4, <1>5, <1>6, <1>7 DEF Next

-----------------------------------------------------------------------------
(* What the next handler is given *)

\* The call of the next handler, for a guest that wrote nothing.
LEMMA UnwrittenSeen ==
  ASSUME TypeInv, UnwrittenInv, CallNext, wrote = <<>>, read \in {"nothing", "whole"}
  PROVE  SeesOriginal'
<1>1. Before /\ pc = "returned" /\ obj[body].base = Client
  BY DEF CallNext, Before, UnwrittenInv
<1>2. saw' = [ok |-> ~(obj'[body'].base = Client /\ closed'), data |-> obj'[obj'[body'].base].data]
  BY DEF CallNext
<1>3. ObjectInv(body) /\ body \in 1 .. Len(obj) /\ Len(obj) \in Nat
  BY ClientExists, ObjectTypes DEF TypeInv
<1>4. CASE read = "nothing"
  <2>1. /\ ~closed /\ obj[Client].data = Original
        /\ IsBuffering(body) => obj[body].data = <<>>
    BY <1>1, <1>3, <1>4 DEF UnwrittenInv
  <2>2. UNCHANGED <<obj, closed>> /\ obj'[body'].base = Client
    BY <1>1, <1>3, <2>1, CallNextStep DEF ObjectInv
  <2> QED
    BY <1>2, <2>1, <2>2 DEF SeesOriginal
<1>5. CASE read = "whole"
  <2>1. IsBuffering(body) /\ obj[body].data = Original
    BY <1>1, <1>5 DEF UnwrittenInv
  <2>2. Grow(Holding(Original)) /\ body' = Len(obj) + 1
    BY <2>1, OriginalAssumption, CallNextStep
  <2>3. /\ obj'[body'].base = Len(obj) + 1 /\ obj'[Len(obj) + 1].data = Original
        /\ Len(obj) + 1 # Client
    BY <1>3, <2>2 DEF Grow, Holding, Client
  <2> QED
    BY <1>2, <2>3 DEF SeesOriginal
<1> QED
  BY <1>4, <1>5

\* And for one that wrote.
LEMMA WrittenSeen ==
  ASSUME TypeInv, WrittenInv, CallNext, wrote # <<>>, read # "own"
  PROVE  saw' = [ok |-> TRUE, data |-> wrote]
<1> PICK written \in 1 .. Len(obj) : written = obj[body].base
  BY BodyBase
<1>1. /\ obj[written].kind = "written" /\ obj[written].data = wrote
      /\ \A i \in 1 .. Len(obj) :
           IsBuffering(i) /\ obj[i].base = written => obj[i].data = <<>>
  BY DEF CallNext, Before, WrittenInv
<1>2. saw' = [ok |-> ~(obj'[body'].base = Client /\ closed'), data |-> obj'[obj'[body'].base].data]
  BY DEF CallNext
<1>3. ObjectInv(body) /\ body \in 1 .. Len(obj) /\ ObjectInv(written)
  BY ClientExists DEF TypeInv
<1>4. written # Client
  BY <1>1, <1>3 DEF ObjectInv
<1>5. UNCHANGED obj /\ obj'[body'].base = written
  BY <1>1, <1>3, CallNextStep DEF ObjectInv
<1> QED
  BY <1>1, <1>2, <1>4, <1>5

SeenInv == UntouchedOrWholeIsSeen /\ WrittenIsSeen

LEMMA SeenStep ==
  TypeInv /\ UnwrittenInv /\ WrittenInv /\ SeenInv /\ [Next]_vars => SeenInv'
<1> SUFFICES ASSUME TypeInv, UnwrittenInv, WrittenInv, SeenInv, [Next]_vars PROVE SeenInv'
  OBVIOUS
<1>1. CASE CallNext
  <2>1. UNCHANGED <<wrote, read>>
    BY <1>1 DEF CallNext
  <2>2. wrote = <<>> /\ read \in {"nothing", "whole"} => SeesOriginal'
    BY <1>1, UnwrittenSeen
  <2>3. wrote # <<>> /\ read # "own" => saw' = [ok |-> TRUE, data |-> wrote']
    BY <1>1, <2>1, WrittenSeen
  <2> QED
    BY <2>1, <2>2, <2>3 DEF SeenInv, UntouchedOrWholeIsSeen, WrittenIsSeen
<1>2. CASE UNCHANGED vars
  BY <1>2 DEF SeenInv, UntouchedOrWholeIsSeen, WrittenIsSeen, SeesOriginal, vars, state, history
<1>3. CASE Next /\ ~CallNext
  <2>1. pc' # "next" \/ UNCHANGED vars
    BY <1>3 DEF Next, ServeHTTP, EnableFeatures, ReadBody, WriteBody, Proceed, Stop,
         NextReads, NextCloses, NextReplaces, InNext, HandleResponse, Finished
  <2> QED
    BY <1>2, <2>1 DEF SeenInv, UntouchedOrWholeIsSeen, WrittenIsSeen
<1> QED
  BY <1>1, <1>2, <1>3

BodyInv == TypeInv /\ IdleInv /\ UnwrittenInv /\ WrittenInv /\ SeenInv

LEMMA BodyInvariant == Spec => []BodyInv
<1>1. Init => BodyInv
  BY TypeInit, UnwrittenInit, WrittenInit
  DEF BodyInv, IdleInv, SeenInv, UntouchedOrWholeIsSeen, WrittenIsSeen, Init
<1>2. BodyInv /\ [Next]_vars => BodyInv'
  BY TypeStep, IdleStep, UnwrittenStep, WrittenStep, SeenStep DEF BodyInv
<1> QED
  BY <1>1, <1>2, PTL DEF Spec

\* A guest that leaves the body alone, or reads all of it at once into a buffer,
\* keeps it for the next handler, whatever the body's length.
THEOREM OriginalIsKept == Spec => []UntouchedOrWholeIsSeen
<1>1. BodyInv => UntouchedOrWholeIsSeen
  BY DEF BodyInv, SeenInv
<1> QED
  BY <1>1, BodyInvariant, PTL

\* What a guest writes is what the next handler reads, and all of it, however often
\* it writes, reads the client's body and enables features in between.
THEOREM WrittenReplaces == Spec => []WrittenIsSeen
<1>1. BodyInv => WrittenIsSeen
  BY DEF BodyInv, SeenInv
<1> QED
  BY <1>1, BodyInvariant, PTL

-----------------------------------------------------------------------------
(* What handle_response reads of it *)

\* The guest has not read after the next handler yet.
Unread == after = [data |-> <<>>, eof |-> FALSE, full |-> TRUE]

\* From the call of the next handler: the cached reader, which there is none of until
\* it returned, ends at the object that r.Body ends at, and what was read and what is
\* left there is what the handler was given or put in its place.
RestInv ==
  /\ pc \in {"idle", "request", "returned", "next"} => took = <<>>
  /\ pc \in {"idle", "request", "returned", "next", "running"} => Unread
  /\ pc \in {"returned", "next", "running"} => reader = None
  /\ after.eof \/ after.full
  /\ pc \in {"next", "running", "response"} /\ saw.ok =>
       LET base == obj[body].base
       IN  /\ ~Unreadable(base)
           /\ reader # None => obj[reader].base = base
           /\ took \o after.data \o obj[base].data = saw.data
           /\ after.eof => obj[base].data = <<>>

LEMMA RestInit == Init => RestInv
BY DEF Init, RestInv, Unread

LEMMA RestEnable ==
  ASSUME TypeInv, RestInv, EnableFeatures, pc = "response"
  PROVE  RestInv'
<1>1. /\ UNCHANGED <<pc, reader, closed, saw, took, after>>
      /\ enabled' \in BOOLEAN /\ Wrap(enabled')
  BY DEF EnableFeatures, TypeInv
<1>2. CASE Grow(Wrapping(body)) /\ body' = Len(obj) + 1
  <2>1. /\ obj'[body'].base = obj[body].base
        /\ \A i \in 1 .. Len(obj) : obj'[i] = obj[i]
    BY <1>2, Wrapped
  <2>2. obj'[obj[body].base] = obj[obj[body].base]
    BY <2>1, BodyBase
  <2>3. reader # None => obj'[reader] = obj[reader]
    BY <2>1 DEF TypeInv
  <2> QED
    BY <1>1, <2>1, <2>2, <2>3 DEF RestInv, Unreadable
<1>3. CASE UNCHANGED <<obj, body>>
  BY <1>1, <1>3 DEF RestInv, Unreadable
<1> QED
  BY <1>1, <1>2, <1>3, WrapStep

LEMMA RestRead ==
  ASSUME TypeInv, RestInv, ReadBody, pc = "response"
  PROVE  RestInv'
<1>1. PICK base, n, q, eof, full : ReadOf(base, n, q, eof, full)
  BY ReadStep
<1>2. UNCHANGED <<pc, body, closed, saw, took>>
  BY DEF ReadBody
<1>t. /\ after' = [data |-> after.data \o SubSeq(obj[base].data, 1, n),
                  eof |-> eof, full |-> full]
      /\ eof => n = Len(obj[base].data)
      /\ eof \/ full
  BY <1>1, ZenonT(30) DEF ReadOf, Records
<1> SUFFICES ASSUME saw.ok PROVE RestInv'
  BY <1>2, <1>t DEF RestInv
<1> DEFINE data == obj[base].data
           rest == SubSeq(data, n + 1, Len(data))
<1>3. /\ base = obj[body].base /\ base = obj[From].base /\ From \in 1 .. Len(obj)
  BY <1>1, FromType DEF RestInv, ReadOf, From
<1>4. /\ obj'[body].base = base /\ obj'[reader'].base = base /\ obj'[base].data = rest
      /\ ~Unreadable(base)
  BY <1>1, <1>3 DEF ReadOf, Keep, TypeInv
<1>5. /\ SubSeq(data, 1, n) \in Seq(Chunk) /\ rest \in Seq(Chunk)
      /\ SubSeq(data, 1, n) \o rest = data /\ (n = Len(data) => rest = <<>>)
  BY <1>1, Split DEF ReadOf
<1>6. after'.data = after.data \o SubSeq(data, 1, n) /\ (after'.eof => rest = <<>>)
  <2>1. after'.data = after.data \o SubSeq(data, 1, n) /\ after'.eof = eof
    BY <1>t
  <2> QED
    BY <1>5, <1>t, <2>1
<1>7. took \in Seq(Chunk) /\ after.data \in Seq(Chunk) /\ took \o after.data \in Seq(Chunk)
  BY ConcatProperties DEF TypeInv
<1> HIDE DEF rest
<1>8. took \o after.data \o data = saw.data
  BY <1>3 DEF RestInv
<1>9. took \o after'.data \o rest = saw.data
  <2>1. /\ after'.data = Join(after.data, SubSeq(data, 1, n))
        /\ Join(SubSeq(data, 1, n), rest) = data
        /\ Join(Join(took, after.data), data) = saw.data
    BY <1>5, <1>6, <1>8 DEF Join
  <2>2. Join(Join(took, after'.data), rest) = saw.data
    <3>1. PICK a \in Seq(Chunk) : a = SubSeq(data, 1, n)
      BY <1>5
    <3>2. /\ after'.data = Join(after.data, a) /\ Join(a, rest) = data
          /\ Join(Join(took, after.data), data) = saw.data
      BY <2>1, <3>1
    <3>3. Join(Join(took, Join(after.data, a)), rest) = Join(Join(took, after.data), Join(a, rest))
      BY <1>5, <1>7, Moved
    <3> QED
      BY <3>2, <3>3
  <2> QED
    BY <2>2 DEF Join
<1>10. ~Unreadable(base)'
  BY <1>2, <1>4 DEF Unreadable
<1>11. took' \o after'.data \o obj'[obj'[body'].base].data = saw'.data
  BY <1>2, <1>4, <1>9
<1>12. after'.eof => obj'[obj'[body'].base].data = <<>>
  BY <1>2, <1>4, <1>6
<1> QED
  BY <1>2, <1>4, <1>11, <1>12, <1>t DEF RestInv, Unreadable

LEMMA RestCallNext ==
  ASSUME TypeInv, RestInv, CallNext
  PROVE  RestInv'
<1>1. /\ pc = "returned" /\ pc' = "next" /\ UNCHANGED <<reader, took, after>>
      /\ saw' = [ok |-> ~(obj'[body'].base = Client /\ closed'), data |-> obj'[obj'[body'].base].data]
  BY DEF CallNext
<1>2. reader = None /\ took = <<>> /\ Unread /\ after.data = <<>> /\ ~after.eof /\ after.full
  BY <1>1 DEF RestInv, Unread
<1>3. obj'[obj'[body'].base].data \in Seq(Chunk) /\ <<>> \in Seq(Chunk)
  <2>1. saw' \in [ok : BOOLEAN, data : Seq(Chunk)]
    BY TypeStep DEF Next, TypeInv
  <2> QED
    BY <1>1, <2>1, EmptySeq
<1>4. took' \o after'.data \o obj'[obj'[body'].base].data = saw'.data
  <2> PICK d \in Seq(Chunk) : d = obj'[obj'[body'].base].data
    BY <1>3
  <2>1. <<>> \o <<>> = <<>> /\ <<>> \o d = d
    BY <1>3, ConcatEmptySeq
  <2> QED
    BY <1>1, <1>2, <2>1
<1>5. saw'.ok => ~(obj'[body'].base = Client /\ closed')
  BY <1>1
<1>6. reader' = None /\ took' = <<>> /\ Unread' /\ ~after'.eof /\ after'.full
  BY <1>1, <1>2 DEF Unread
<1> QED
  BY <1>1, <1>4, <1>5, <1>6 DEF RestInv, Unreadable

LEMMA RestNextReads ==
  ASSUME TypeInv, RestInv, NextReads
  PROVE  RestInv'
<1>1. PICK base, n : HandlerTook(base, n)
  BY NextReadsStep
<1>2. /\ pc \in {"next", "running"} /\ pc' = "running"
      /\ UNCHANGED <<body, reader, closed, saw, after>>
  BY DEF NextReads, InNext
<1>3. reader = None /\ Unread /\ after.data = <<>> /\ ~after.eof /\ after.full
  BY <1>2 DEF RestInv, Unread
<1>4. reader' = None /\ Unread' /\ after'.data = <<>> /\ ~after'.eof /\ after'.full
  BY <1>2, <1>3 DEF Unread
<1> SUFFICES ASSUME saw.ok PROVE RestInv'
  BY <1>2, <1>4 DEF RestInv
<1> PICK d \in Seq(Chunk) : d = obj[base].data
  BY <1>1 DEF HandlerTook
<1>5. /\ base = obj[body].base /\ obj'[body].base = base /\ n \in 0 .. Len(d)
      /\ took' = took \o SubSeq(d, 1, n) /\ obj'[base].data = SubSeq(d, n + 1, Len(d))
  BY <1>1 DEF HandlerTook, Keep, TypeInv
<1>6. PICK a \in Seq(Chunk), rest \in Seq(Chunk) :
        a = SubSeq(d, 1, n) /\ rest = SubSeq(d, n + 1, Len(d)) /\ a \o rest = d
  <2>1. /\ SubSeq(d, 1, n) \in Seq(Chunk) /\ SubSeq(d, n + 1, Len(d)) \in Seq(Chunk)
        /\ SubSeq(d, 1, n) \o SubSeq(d, n + 1, Len(d)) = d
    BY <1>5, Split
  <2> QED
    BY <2>1, Zenon
<1>7. took \in Seq(Chunk) /\ took \o a \in Seq(Chunk)
  BY <1>6, ConcatProperties DEF TypeInv
<1>8. ~Unreadable(base) /\ took \o d = saw.data
  <2>1. ~Unreadable(base) /\ took \o <<>> \o d = saw.data
    BY <1>2, <1>3, <1>5 DEF RestInv
  <2>2. took \o <<>> = took
    BY <1>7, ConcatEmptySeq
  <2> QED
    BY <2>1, <2>2
<1>9. took' \o after'.data \o obj'[obj'[body'].base].data = saw'.data
  <2>1. (took \o a) \o <<>> = took \o a
    BY <1>7, ConcatEmptySeq
  <2>2. (took \o a) \o rest = took \o d
    <3>1. \A t \in Seq(Chunk) : (t \o a) \o rest = t \o (a \o rest)
      BY Associative
    <3>2. (took \o a) \o rest = took \o (a \o rest)
      BY <1>7, <3>1
    <3> QED
      BY <1>6, <3>2
  <2> QED
    BY <1>2, <1>4, <1>5, <1>6, <1>8, <2>1, <2>2
<1> QED
  BY <1>2, <1>4, <1>5, <1>8, <1>9 DEF RestInv, Unreadable

LEMMA RestNextCloses ==
  ASSUME TypeInv, RestInv, NextCloses
  PROVE  RestInv'
<1>1. /\ pc \in {"next", "running"} /\ pc' = "running" /\ Closes(body)
      /\ saw' = [saw EXCEPT !.ok = @ /\ obj[body].base # Client]
      /\ UNCHANGED <<obj, body, reader, took, after>>
  BY DEF NextCloses, InNext
<1>2. reader' = None /\ Unread' /\ ~after'.eof /\ after'.full
  BY <1>1 DEF RestInv, Unread
<1>3. saw'.data = saw.data /\ (saw'.ok => saw.ok /\ obj[body].base # Client)
  BY <1>1 DEF TypeInv
<1>4. saw.ok => took \o after.data \o obj[obj[body].base].data = saw.data
  BY <1>1 DEF RestInv
<1> QED
  BY <1>1, <1>2, <1>3, <1>4 DEF RestInv, Unreadable

LEMMA RestNextReplaces ==
  ASSUME TypeInv, RestInv, NextReplaces
  PROVE  RestInv'
<1>1. /\ pc \in {"next", "running"} /\ pc' = "running"
      /\ UNCHANGED <<reader, closed, after>>
  BY DEF NextReplaces, InNext
<1>2. reader' = None /\ Unread' /\ after'.data = <<>> /\ ~after'.eof /\ after'.full
  BY <1>1 DEF RestInv, Unread
<1>3. body' = Len(obj) + 1 /\ took' = <<>>
  BY NextReplacesStep
<1>4. PICK data \in Seq(Chunk) : Grow(Holding(data)) /\ saw' = [ok |-> TRUE, data |-> data]
  BY NextReplacesStep
<1>5. Len(obj) \in Nat /\ Len(obj) >= 1
  BY ObjectTypes DEF TypeInv, ObjectsInv
<1>6. /\ obj'[body'].base = Len(obj) + 1 /\ obj'[Len(obj) + 1].data = data
      /\ Len(obj) + 1 # Client
  BY <1>3, <1>4, <1>5 DEF Grow, Holding, Client
<1>7. <<>> \o <<>> \o data = data
  BY <1>4, EmptySeq, ConcatEmptySeq
<1>8. took' \o after'.data \o obj'[obj'[body'].base].data = saw'.data
  BY <1>2, <1>3, <1>4, <1>6, <1>7
<1> QED
  BY <1>1, <1>2, <1>6, <1>8 DEF RestInv, Unreadable

LEMMA RestStep == TypeInv /\ RestInv /\ [Next]_vars => RestInv'
<1> SUFFICES ASSUME TypeInv, RestInv, [Next]_vars PROVE RestInv'
  OBVIOUS
<1>1. CASE ServeHTTP
  <2>1. pc = "idle" /\ pc' = "request" /\ UNCHANGED <<took, after>>
    BY <1>1 DEF ServeHTTP, history
  <2> QED
    BY <2>1 DEF RestInv, Unread
<1>2. CASE EnableFeatures
  <2>1. CASE pc = "request"
    BY <1>2, <2>1 DEF EnableFeatures, RestInv, Unread
  <2> QED
    BY <1>2, <2>1, RestEnable DEF EnableFeatures
<1>3. CASE ReadBody
  <2>1. CASE pc = "request"
    <3>1. PICK base, n, q, eof, full : ReadOf(base, n, q, eof, full)
      BY <1>3, ReadStep
    <3>2. UNCHANGED after
      BY <2>1, <3>1 DEF ReadOf, Records
    <3> QED
      BY <1>3, <2>1, <3>2 DEF ReadBody, RestInv, Unread
  <2> QED
    BY <1>3, <2>1, RestRead DEF ReadBody
<1>4. CASE WriteBody
  BY <1>4 DEF WriteBody, RestInv, Unread
<1>5. CASE Proceed
  BY <1>5 DEF Proceed, CloseRequest, history, RestInv, Unread
<1>6. CASE Stop
  BY <1>6 DEF Stop, RestInv, history
<1>7. CASE CallNext
  BY <1>7, RestCallNext
<1>8. CASE NextReads
  BY <1>8, RestNextReads
<1>9. CASE NextCloses
  BY <1>9, RestNextCloses
<1>10. CASE NextReplaces
  BY <1>10, RestNextReplaces
<1>11. CASE HandleResponse \/ Finished \/ UNCHANGED vars
  <2>1. /\ UNCHANGED <<obj, body, reader, closed, saw, took, after>>
        /\ pc' = pc \/ (pc \in {"next", "running"} /\ pc' = "response")
    BY <1>11 DEF HandleResponse, Finished, vars, state, history
  <2>2. \A base : Unreadable(base)' <=> Unreadable(base)
    BY <2>1 DEF Unreadable
  <2> QED
    BY <2>1, <2>2 DEF RestInv, Unread
<1> QED
  BY <1>1, <1>2, <1>3, <1>4, <1>5, <1>6, <1>7, <1>8, <1>9, <1>10, <1>11 DEF Next

LEMMA RestIsWhatIsLeft == ASSUME TypeInv, RestInv PROVE RestIsRead
<1> SUFFICES ASSUME pc = "response", saw.ok
             PROVE  /\ ~Unreadable(obj[From].base)
                    /\ took \o after.data \o obj[obj[body].base].data = saw.data
                    /\ after.eof => took \o after.data = saw.data
                    /\ after.eof \/ after.full
  BY DEF RestIsRead
<1>1. /\ ~Unreadable(obj[body].base)
      /\ reader # None => obj[reader].base = obj[body].base
      /\ took \o after.data \o obj[obj[body].base].data = saw.data
      /\ after.eof => obj[obj[body].base].data = <<>>
      /\ after.eof \/ after.full
  BY DEF RestInv
<1>2. took \o after.data \in Seq(Chunk)
  BY ConcatProperties DEF TypeInv
<1>3. (took \o after.data) \o <<>> = took \o after.data
  BY <1>2, ConcatEmptySeq
<1> QED
  BY <1>1, <1>3 DEF From

\* handle_response reads exactly what the next handler left of the body, or of the one
\* it put in its place, in any number of reads, through any number of buffers, and is
\* told EOF when that is less than it asked for; if the client's body is at the end
\* of it, as long as nobody closed that.
THEOREM HandlerLeavesTheRest == Spec => []RestIsRead
<1>1. Spec => [](TypeInv /\ RestInv)
  <2>1. Init => TypeInv /\ RestInv
    BY TypeInit, RestInit
  <2>2. TypeInv /\ RestInv /\ [Next]_vars => (TypeInv /\ RestInv)'
    BY TypeStep, RestStep
  <2> QED
    BY <2>1, <2>2, PTL DEF Spec
<1>2. TypeInv /\ RestInv => RestIsRead
  BY RestIsWhatIsLeft
<1> QED
  BY <1>1, <1>2, PTL
=============================================================================
