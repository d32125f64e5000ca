----------------------------- MODULE MCGuestCalls -----------------------------
(***************************************************************************)
(* Guests, options, requests and inputs for GuestCalls.                    *)
(***************************************************************************)
EXTENDS GuestCalls

Bytes == {"NUL", "x", "a", "/", "?", " ", "%20"}

Good(imports) ==
  [valid |-> TRUE, handleRequest |-> "right", handleResponse |-> "right",
   memory |-> TRUE, imports |-> imports]

\* Conforming guests with all kinds of imports, and one for every defect.
Binaries ==
  {Good(imports) : imports \in SUBSET Module}
    \cup {[Good({HostModule}) EXCEPT !.valid = FALSE],
          [Good({HostModule}) EXCEPT !.memory = FALSE]}
    \cup {[Good({HostModule}) EXCEPT !.handleRequest = e] : e \in {"none", "wrong"}}
    \cup {[Good({HostModule}) EXCEPT !.handleResponse = e] : e \in {"none", "wrong"}}

AllOptions == {[config |-> <<>>, logger |-> "noop"], [config |-> <<"a", "/">>, logger |-> "console"]}
Runtimes == {{}, {Wasi}, {HostModule}}

\* One asks for "/?" and has a header field twice, the second time without a
\* value; the other one has an empty path.
Requests ==
  {[method |-> <<"a">>, url |-> [path |-> <<"/">>, force |-> TRUE, query |-> <<>>],
    values |-> <<<<"a">>, <<>>>>],
   [method |-> <<"a", "a">>, url |-> NoRequest.url, values |-> <<>>]}

GuestInputs ==
  [set_method       |-> {<<>>, <<"/">>},
   set_uri          |-> {<<>>, <<"/", "?">>, <<"/", " ">>, <<"/", "%20">>, <<"/", "?", "?">>, <<"?">>},
   add_header_value |-> {<<>>, <<"/">>, <<"a", "NUL">>},
   log              |-> {<<>>, <<"a">>},
   log_enabled      |-> {<<>>}]

TwoBytes == <<"a", "/">>
ThreeBytes == <<"a", "/", "a">>
FourBytes == <<"a", "/", "a", "a">>
=============================================================================
