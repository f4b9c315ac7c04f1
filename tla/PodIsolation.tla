---------------------------- MODULE PodIsolation ----------------------------
(***************************************************************************)
(* How a pod gets the isolation it asked for (runtime/v1).  A RuntimeClass *)
(* handler is resolved to a sandbox backend through HandlerConfig; a wasm  *)
(* pod may ask for its modules to be verified, which travels as            *)
(* PodBox.wasm_signature and is classified by ClassifyWasmSignature.       *)
(*                                                                         *)
(* The provider that builds the PodBox and the runtime that starts it are  *)
(* other programs: they are modelled from the contract these two functions *)
(* state.  The pod's annotations may change at any time, the runtime may   *)
(* restart, and a PodBox may come from a producer that stamps what it      *)
(* likes.                                                                  *)
(***************************************************************************)
EXTENDS Naturals, Sequences, FiniteSets

CONSTANTS Undefined  \* a backend number no enum value has

UNSPECIFIED == 0
VM == 4
WASM == 5
SandboxBackend_name == 0..5

HandlerVM == "vm"
HandlerWasm == "wasm"
Handlers == {"", HandlerVM, HandlerWasm, "Wasm", "gvisor"}

-----------------------------------------------------------------------------
(* HandlerConfig: a table, as a function, and a default. *)
DefaultHandlerConfig ==
    [handlers |-> [h \in {HandlerVM, HandlerWasm} |-> IF h = HandlerVM THEN VM ELSE WASM],
     defaultBackend |-> UNSPECIFIED]

validBackend(b) == b \in SandboxBackend_name

Validate(c) ==
    /\ validBackend(c.defaultBackend)
    /\ \A h \in DOMAIN c.handlers : h # "" /\ validBackend(c.handlers[h])

WithDefaults(c) ==
    LET def == DefaultHandlerConfig.handlers IN
    [c EXCEPT !.handlers = [h \in DOMAIN c.handlers \cup DOMAIN def |->
                               IF h \in DOMAIN c.handlers THEN c.handlers[h] ELSE def[h]]]

(* {} is ErrUnknownHandler. *)
Backend(c, handler) ==
    IF handler = "" THEN {c.defaultBackend}
    ELSE IF handler \in DOMAIN c.handlers THEN {c.handlers[handler]} ELSE {}

-----------------------------------------------------------------------------
(* PodBox.wasm_signature: absent is {}. *)
WasmSignatures == {{}} \cup {{[required |-> r, key |-> k]} : r \in BOOLEAN, k \in {"", "der"}}

(* A classification through the proto3 getter alone. *)
ClassifyWasmSignature_Getter(s) ==
    IF \E x \in s : x.required THEN "Enforce" ELSE "None"

ClassifyWasmSignature(s) ==
    CASE s = {} -> "None"
      [] \E x \in s : x.required /\ x.key # "" -> "Enforce"
      [] OTHER -> "Invalid"

(* The provider's closed truth table over the two annotations, read once at  *)
(* create; {} is a refusal.                                                  *)
Stamp(sig, key) ==
    CASE sig = "required" /\ key = "pem" -> {{[required |-> TRUE, key |-> "der"]}}
      [] sig = "absent" /\ key = "absent" -> {{}}
      [] OTHER -> {}

-----------------------------------------------------------------------------
VARIABLES config,  \* the node's handler table, as configured
          pod,     \* handler and annotations, as the API has them now
          asked,   \* the same as they were when the pod was created
          box,     \* the PodBox: {} until the pod is created
          ready,   \* the node reports WasmBackendAvailable
          state    \* "pending", "refused", "running" or "stopped", and how

vars == <<config, pod, asked, box, ready, state>>

Pods == [handler : Handlers, sig : {"absent", "required", "other"}, key : {"absent", "pem", "garbage"}]
Tables == {<<>>, DefaultHandlerConfig.handlers, [h \in {HandlerVM} |-> UNSPECIFIED],
           [h \in {"gvisor"} |-> VM], [h \in {HandlerVM, ""} |-> VM], [h \in {HandlerWasm} |-> Undefined]}
Configs == [handlers : Tables, defaultBackend : {UNSPECIFIED, 1, Undefined}]

Pending == [phase |-> "pending", verified |-> FALSE]
Refusal == [phase |-> "refused", verified |-> FALSE]

Init ==
    /\ config \in Configs
    /\ pod \in Pods
    /\ asked = pod /\ box = {} /\ ready \in BOOLEAN /\ state = Pending

(* The provider resolves the handler against the filled-in, checked table,   *)
(* stamps the signature, and refuses the pod when either is not to be had.   *)
Resolved == IF Validate(config) THEN Backend(WithDefaults(config), pod.handler) ELSE {}
Stamped(b) == IF b # WASM THEN {{}}
              ELSE {s \in Stamp(pod.sig, pod.key) : s # {} => ready}

Create ==
    /\ box = {} /\ state = Pending
    /\ LET made == {[backend |-> b, wasm |-> s] : b \in Resolved, s \in UNION {Stamped(c) : c \in Resolved}}
       IN  /\ box' = made
           /\ state' = IF made = {} THEN Refusal ELSE state
    /\ asked' = pod
    /\ UNCHANGED <<config, pod, ready>>

(* Another producer sends a PodBox of its own making. *)
CreateStray ==
    /\ box = {} /\ state = Pending
    /\ \E s \in WasmSignatures : box' = {[backend |-> WASM, wasm |-> s]}
    /\ asked' = [pod EXCEPT !.handler = "", !.sig = "absent"]
    /\ UNCHANGED <<config, pod, ready, state>>

(* The runtime starts a box, or starts it again after a restart, from the    *)
(* box alone.                                                                *)
Start ==
    /\ state.phase \in {"pending", "stopped"}
    /\ \E b \in box :
         LET mode == IF b.backend = WASM THEN ClassifyWasmSignature(b.wasm) ELSE "None"
         IN  state' = CASE mode = "None" -> [phase |-> "running", verified |-> FALSE]
                        [] mode = "Enforce" /\ ready /\ (\A x \in b.wasm : x.key # "")
                              -> [phase |-> "running", verified |-> TRUE]
                        [] OTHER -> Refusal
    /\ UNCHANGED <<config, pod, asked, box, ready>>

RuntimeRestarts ==
    /\ state.phase = "running"
    /\ state' = [phase |-> "stopped", verified |-> FALSE]
    /\ ready' \in BOOLEAN
    /\ UNCHANGED <<config, pod, asked, box>>

Patch ==
    /\ pod' \in {[pod EXCEPT !.sig = s, !.key = k] : s \in {"absent", "required"}, k \in {"absent", "pem"}}
    /\ UNCHANGED <<config, asked, box, ready, state>>

Next == Create \/ CreateStray \/ Start \/ RuntimeRestarts \/ Patch
Spec == Init /\ [][Next]_vars

-----------------------------------------------------------------------------
(* A pod that named a handler runs on the backend the node's own table, or   *)
(* the built-in one where the node's has no row, gives that very name.  The  *)
(* default backend never stands in: such a pod is a host process only where  *)
(* the node's own row says so, which Validate allows of "vm" too.            *)
NamedIsolationIsGiven ==
    state.phase = "running" /\ asked.handler # "" =>
        \A b \in box :
            \/ asked.handler \in DOMAIN config.handlers /\ b.backend = config.handlers[asked.handler]
            \/ /\ asked.handler \in DOMAIN DefaultHandlerConfig.handlers \ DOMAIN config.handlers
               /\ b.backend = DefaultHandlerConfig.handlers[asked.handler]

(* A wasm pod whose author asked for a check, or whose box carries a         *)
(* signature message in any state, never runs unverified: not after its      *)
(* annotations change, not after the runtime restarts without a verifier.    *)
RequestedCheckIsNeverSkipped ==
    state.phase = "running" /\ ~state.verified =>
        \A b \in box : b.backend = WASM => b.wasm = {} /\ asked.sig = "absent"
=============================================================================
