----------------------------- MODULE Construction -----------------------------
(***************************************************************************)
(* NewMiddleware (handler/middleware.go, handler/options.go): the options, *)
(* the runtime, the compilation of the guest and the check of its exports, *)
(* the host modules it imports, and the first instance with its start      *)
(* function. Every step may be the last one.                               *)
(***************************************************************************)
EXTENDS FiniteSets

CONSTANTS
  Binary,     \* guests: what their Wasm declares (see Declares)
  Options,    \* what the options of NewMiddleware amount to
  Preloaded   \* sets of modules the runtime of NewRuntime may come with

HostModule == "http_handler"
Wasi == "wasi_snapshot_preview1"
Module == {HostModule, Wasi, "env"}

\* Exported functions have the signature of the ABI, another one, or are missing.
Export == {"none", "wrong", "right"}
Declares == [valid : BOOLEAN, handleRequest : Export, handleResponse : Export,
             memory : BOOLEAN, imports : SUBSET Module]

ASSUME BinaryAssumption == Binary \subseteq Declares
ASSUME PreloadedAssumption == Preloaded \subseteq SUBSET {HostModule, Wasi}

VARIABLES
  step,     \* what NewMiddleware did last; see Steps
  binary,   \* the guest it was given
  options,  \* the options it was given
  runtime,  \* "none", "open" or "closed"
  modules   \* host modules instantiated in the runtime

construction == <<step, binary, options, runtime, modules>>

Steps == {"new", "runtime", "compiled", "linked", "start", "ready", "failed"}

ConstructionInit ==
  /\ step = "new"
  /\ binary \in Binary
  /\ options \in Options
  /\ runtime = "none"
  /\ modules = {}

\* Mutant: the runtime is left open.
FailsOpen ==
  /\ step' = "failed"
  /\ UNCHANGED <<runtime, binary, options, modules>>

\* An error of NewMiddleware, after the runtime was created.
Fails ==
  /\ step' = "failed"
  /\ runtime' = "closed"
  /\ UNCHANGED <<binary, options, modules>>

NewRuntime ==
  /\ step = "new"
  /\ step' = "runtime"
  /\ runtime' = "open"
  /\ modules' \in Preloaded
  /\ UNCHANGED <<binary, options>>

NewRuntimeFails ==
  /\ step = "new"
  /\ step' = "failed"
  /\ UNCHANGED <<binary, options, runtime, modules>>

\* Mutant: handle_response is only looked up.
ConformsUnchecked ==
  /\ binary.valid
  /\ binary.handleRequest = "right"
  /\ binary.handleResponse # "none"
  /\ binary.memory

\* The checks of compileGuest.
Conforms ==
  /\ binary.valid
  /\ binary.handleRequest = "right"
  /\ binary.handleResponse = "right"
  /\ binary.memory

CompileGuest ==
  /\ step = "runtime"
  /\ IF Conforms
     THEN /\ step' = "compiled"
          /\ UNCHANGED <<binary, options, runtime, modules>>
     ELSE Fails

\* Mutant: a guest that imports WASI gets no other module.
ProvidedFirst ==
  IF Wasi \in binary.imports THEN {Wasi}
  ELSE IF HostModule \in binary.imports THEN {HostModule} ELSE {}

\* The modules NewMiddleware has to have for the guest: WASI if it imports it,
\* the host's own if it imports either.
Provided ==
  (binary.imports \cap {Wasi})
    \cup (IF binary.imports \cap {Wasi, HostModule} = {} THEN {} ELSE {HostModule})

\* Only WASI may be in the runtime before: a name cannot be instantiated twice.
NameTaken == HostModule \in Provided \cap modules

InstantiateHost ==
  /\ step = "compiled"
  /\ IF NameTaken
     THEN Fails
     ELSE /\ step' = "linked"
          /\ modules' = modules \cup Provided
          /\ UNCHANGED <<binary, options, runtime>>

\* getOrCreateGuest: the first instance, whose imports wazero resolves.
NewGuest ==
  /\ step = "linked"
  /\ IF binary.imports \subseteq modules
     THEN /\ step' = "start"
          /\ UNCHANGED <<binary, options, runtime, modules>>
     ELSE Fails

StartReturns ==
  /\ step = "start"
  /\ step' = "ready"
  /\ UNCHANGED <<binary, options, runtime, modules>>

StartTraps == step = "start" /\ Fails

Construct == NewRuntime \/ NewRuntimeFails \/ CompileGuest \/ InstantiateHost \/ NewGuest

-----------------------------------------------------------------------------
(* Properties *)

\* NewMiddleware closes the runtime it created on each of its error paths, and
\* leaves it open otherwise: nobody else could close it after an error.
NoRuntimeLeaks ==
  /\ step = "failed" => runtime \in {"none", "closed"}
  /\ step \notin {"new", "failed"} => runtime = "open"

\* A guest that conforms to the ABI and imports nothing but the modules of the
\* host can be instantiated: whichever of the two it imports, in whatever
\* runtime, both are there when its imports are resolved.
ImportsProvided ==
  step = "linked" => binary.imports \cap {HostModule, Wasi} \subseteq modules

\* What can fail fails at construction ("fail fast", middleware.go:114): the
\* guest of a middleware that was returned has the exports that are called for
\* each request, with their signatures, the memory, and all that it imports.
ReadyIsServable ==
  step \in {"new", "runtime", "failed"} \/
    /\ binary.handleRequest = "right" /\ binary.handleResponse = "right"
    /\ binary.memory
    /\ step \in {"compiled", "linked"} \/ binary.imports \subseteq modules
=============================================================================
