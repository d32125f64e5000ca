--------------------------------- MODULE Abi ---------------------------------
(***************************************************************************)
(* How values cross the boundary between the host and a guest: the limit   *)
(* rules and the NUL-terminated lists of handler/middleware.go and         *)
(* handler/cstring.go, over the linear memory wazero gives the host.       *)
(*                                                                         *)
(* A word of two 32-bit halves (CountLen, EOFLen) is a record of its       *)
(* halves. Lengths stay below 2^32, as the memory they have to fit in does.*)
(***************************************************************************)
EXTENDS Integers, Sequences, SequencesExt

CONSTANTS
  MemSize,  \* bytes of guest memory
  Byte,     \* the bytes the properties tell apart
  Nul       \* the byte 0

ASSUME MemSizeAssumption == MemSize \in Nat
ASSUME NulAssumption == Nul \in Byte

Addr == 0 .. MemSize - 1
Memory == [Addr -> Byte]
Region(offset, count) == offset .. offset + count - 1

-----------------------------------------------------------------------------
(* wazero Memory *)

InMemory(offset, count) == offset + count <= MemSize

\* Memory.Read of a region that is in memory.
Read(mem, offset, count) == [k \in 1 .. count |-> mem[offset + k - 1]]

\* Memory.Write, which writes nothing if the region is not in memory.
Write(mem, offset, v) ==
  IF InMemory(offset, Len(v))
  THEN [a \in Addr |-> IF a \in Region(offset, Len(v)) THEN v[a - offset + 1] ELSE mem[a]]
  ELSE mem

-----------------------------------------------------------------------------
(* Host to guest *)

\* Mutant: as much of the value as the limit allows is written.
WriteUpToLimit(mem, offset, limit, v) ==
  Write(mem, offset, IF Len(v) > limit THEN SubSeq(v, 1, limit) ELSE v)

\* Mutant: the limit is off by one.
WriteOneOver(mem, offset, limit, v) ==
  IF Len(v) > limit + 1 THEN mem ELSE Write(mem, offset, v)

\* writeIfUnderLimit and writeStringIfUnderLimit, which return Len(v) in any
\* case: "caller can retry with a larger limit".
WriteIfUnderLimit(mem, offset, limit, v) ==
  IF Len(v) > limit THEN mem ELSE Write(mem, offset, v)

Terminated(list) == FlattenSeq([k \in DOMAIN list |-> Append(list[k], Nul)])

\* Mutant: one terminator is counted for the whole list.
ByteCountOneNul(list) ==
  LET bytes[k \in 0 .. Len(list)] == IF k = 0 THEN 1 ELSE bytes[k - 1] + Len(list[k])
  IN  bytes[Len(list)]

\* A terminator for each string, and their lengths.
ByteCount(list) ==
  LET bytes[k \in 0 .. Len(list)] == IF k = 0 THEN Len(list) ELSE bytes[k - 1] + Len(list[k])
  IN  bytes[Len(list)]

\* Mutant: the last terminator is not counted, nor an empty list told apart.
CountLenUnterminated(list) == [count |-> Len(list), len |-> ByteCount(list) - 1]

CountLen(list) == [count |-> Len(list), len |-> IF list = <<>> THEN 0 ELSE ByteCount(list)]

\* Does writeNULTerminated panic? The region is only looked at if it is used.
ListOutOfMemory(offset, limit, list) ==
  /\ CountLen(list).len \in 1 .. limit
  /\ ~InMemory(offset, CountLen(list).len)

\* writeNULTerminated: the buffer is the guest's memory as far as it was read.
WriteNULTerminated(mem, offset, limit, list) ==
  LET len == CountLen(list).len
  IN  IF len > limit THEN mem ELSE Write(mem, offset, SubSeq(Terminated(list), 1, len))

-----------------------------------------------------------------------------
(* The guest's side, as the documentation of CountLen describes it *)

Nuls(bytes) == {p \in DOMAIN bytes : bytes[p] = Nul}

NextNul(bytes, start) == Min({p \in Nuls(bytes) : start <= p})

\* The first strings of a region: each one starts after the terminator of the one
\* before, and ends before the next one.
Strings(bytes, count) ==
  LET start[k \in 0 .. count] == IF k = 0 THEN 1 ELSE NextNul(bytes, start[k - 1]) + 1
  IN  [k \in 1 .. count |-> SubSeq(bytes, start[k - 1], start[k] - 2)]

NulFree(list) == \A k \in DOMAIN list : Nul \notin ToSet(list[k])
=============================================================================
