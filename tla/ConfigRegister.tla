----------------------------- MODULE ConfigRegister -----------------------------
(***************************************************************************)
(* What a generation-checked configuration file promises its callers: one  *)
(* register of [generation, payload]; a write names the generation it      *)
(* expects, takes effect at one instant or not at all, and its answer says *)
(* which, except that an exception says nothing.                           *)
(***************************************************************************)
EXTENDS Naturals

CONSTANTS Writers,        \* processes that call the store
          Payloads,       \* configurations that may be written
          Generations,    \* generations a caller may expect (bounds the model)
          NoPayload       \* what a store with no file holds

VARIABLES register,       \* the configuration every reader sees
          call,           \* call[w]: the write that w has in progress
          answer          \* answer[w]: how the last write of w was answered

Snapshots == [generation : Nat, payload : Payloads \cup {NoPayload}]
Absent    == [generation |-> 0, payload |-> NoPayload]

(* A call has not taken effect ("open"), has taken effect ("installed"),   *)
(* or has found another generation than the one it expects ("stale").      *)
Phases == {"idle", "open", "installed", "stale"}
Calls  == [phase : Phases, expected : Nat, payload : Payloads \cup {NoPayload}]
NoCall == [phase |-> "idle", expected |-> 0, payload |-> NoPayload]

vars == <<register, call, answer>>

Init == /\ register = Absent
        /\ call = [w \in Writers |-> NoCall]
        /\ answer = [w \in Writers |-> "NONE"]

Call(w, g, v) ==
    /\ call[w].phase = "idle"
    /\ call' = [call EXCEPT ![w] = [phase |-> "open", expected |-> g, payload |-> v]]
    /\ UNCHANGED <<register, answer>>

Install(w) ==
    /\ call[w].phase = "open"
    /\ call[w].expected = register.generation
    /\ register' = [generation |-> register.generation + 1, payload |-> call[w].payload]
    /\ call' = [call EXCEPT ![w].phase = "installed"]
    /\ UNCHANGED answer

Refuse(w) ==
    /\ call[w].phase = "open"
    /\ call[w].expected # register.generation
    /\ call' = [call EXCEPT ![w].phase = "stale"]
    /\ UNCHANGED <<register, answer>>

(* The answers a caller may be given in each phase; a caller that dies     *)
(* before it is answered is LOST.                                          *)
Truthful(phase) == CASE phase = "open"      -> {"WRITER_CONFLICT", "ERROR", "LOST"}
                     [] phase = "installed" -> {"WRITTEN", "ERROR", "LOST"}
                     [] phase = "stale"     -> {"GENERATION_CONFLICT", "ERROR", "LOST"}
                     [] OTHER               -> {}

Return(w) ==
    /\ \E a \in Truthful(call[w].phase) : answer' = [answer EXCEPT ![w] = a]
    /\ call' = [call EXCEPT ![w] = NoCall]
    /\ UNCHANGED register

Next == \E w \in Writers :
           \/ \E g \in Generations, v \in Payloads : Call(w, g, v)
           \/ Install(w)
           \/ Refuse(w)
           \/ Return(w)

Spec == Init /\ [][Next]_vars
=================================================================================
