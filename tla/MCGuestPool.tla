---------------------------- MODULE MCGuestPool ----------------------------
(***************************************************************************)
(* Values for the constants of GuestPool that a .cfg cannot express.       *)
(***************************************************************************)
EXTENDS GuestPool, TLC

\* CtxNext values as the documentation of CtxNext builds them: skip, proceed,
\* and proceed with a correlation id.
WellFormedResults ==
  {[ctx |-> 0, next |-> 0], [ctx |-> 0, next |-> 1], [ctx |-> 16, next |-> 1]}

\* The documented example "16<<32|16: the value 16 is ignored" has a zero low
\* half in the words of FuncHandleRequest: next=0 with a ctx.
SkipWithContext == WellFormedResults \cup {[ctx |-> 16, next |-> 0]}

RequestSymmetry == Permutations(Request)
=============================================================================
