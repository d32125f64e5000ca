----------------------------- MODULE MCHeaders -----------------------------
(***************************************************************************)
(* Spellings of two header field names for Headers.                        *)
(***************************************************************************)
EXTENDS Headers

HostAndTe == [n \in {"Host", "host", "Te", "te"} |->
                IF n \in {"Host", "host"} THEN "Host" ELSE "Te"]
HostAndTeLower == [n \in {"Host", "host", "Te", "te"} |->
                     IF n \in {"Host", "host"} THEN "host" ELSE "te"]
=============================================================================
