---------------------------- MODULE NativeModel ----------------------------
(***************************************************************************)
(* What the llama.cpp binding asks of whoever drives it, as the header of  *)
(* bat/adapters/llama_cpp_client.py and ARCHITECTURE.md ("One generation   *)
(* at a time") state it: at most one native call runs at any moment, a     *)
(* generation runs on an instance that is in memory, no instance is freed  *)
(* while one runs, and every generation is rendered, once, with the        *)
(* template its caller asked for.                                          *)
(* LlamaClient is shown to implement this specification.                   *)
(***************************************************************************)
CONSTANTS Calls,          \* generations that may be asked for
          Wanted,         \* the template each call must be rendered with
          NoTemplate      \* the call has not been rendered yet

VARIABLES resident,       \* the instances in memory
          using,          \* the instances a running generation uses
          rendered        \* the template each call was rendered with

vars == <<resident, using, rendered>>

Idle == using = {}

Init == /\ resident \in {{}, {1}}
        /\ using = {}
        /\ rendered = [c \in Calls |-> NoTemplate]

(* A new instance; which number identifies it does not matter.             *)
Load == /\ Idle
        /\ \E w \in resident' : w \notin resident /\ resident' = resident \cup {w}
        /\ UNCHANGED <<using, rendered>>

Free(w) == /\ Idle
           /\ resident' = resident \ {w}
           /\ UNCHANGED <<using, rendered>>

Begin(c, w) == /\ Idle
               /\ w \in resident
               /\ rendered[c] = NoTemplate
               /\ using' = {w}
               /\ rendered' = [rendered EXCEPT ![c] = Wanted[c]]
               /\ UNCHANGED resident

End == /\ ~Idle
       /\ using' = {}
       /\ UNCHANGED <<resident, rendered>>

Next == \/ Load
        \/ \E w \in resident : Free(w)
        \/ \E c \in Calls, w \in resident : Begin(c, w)
        \/ End

Spec == Init /\ [][Next]_vars
=============================================================================
