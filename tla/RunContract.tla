---------------------------- MODULE RunContract ----------------------------
(***************************************************************************)
(* What an AI operation promises whoever asked for it, with everything     *)
(* about pipes, deadlines and goroutines left out: it starts at most so    *)
(* many engine processes, one at a time, it answers once, and it answers   *)
(* only when none of its processes is left unreaped.  Module AiRun is the  *)
(* implementation.                                                         *)
(***************************************************************************)
EXTENDS Naturals

CONSTANTS Ops,          \* the operations the renderer asks for
          Kinds,        \* the kinds of operation there are
          Answers,      \* every way an operation can end
          Budget(_)     \* how many processes an operation of a kind may start

VARIABLES phase,        \* "idle", "open" or "over", by operation
          kind,         \* what kind of operation it is
          starts,       \* how many processes it has started
          live,         \* the operations with a process not reaped yet
          answer        \* what it ended with

contractVars == <<phase, kind, starts, live, answer>>

Init ==
    /\ phase = [o \in Ops |-> "idle"]
    /\ kind \in [Ops -> Kinds]
    /\ starts = [o \in Ops |-> 0]
    /\ live = {}
    /\ answer = [o \in Ops |-> "none"]

Ask(o) ==
    /\ phase[o] = "idle"
    /\ phase' = [phase EXCEPT ![o] = "open"]
    /\ \E k \in Kinds : kind' = [kind EXCEPT ![o] = k]
    /\ UNCHANGED <<starts, live, answer>>

Start(o) ==
    /\ phase[o] = "open"
    /\ o \notin live
    /\ starts[o] < Budget(kind[o])
    /\ starts' = [starts EXCEPT ![o] = @ + 1]
    /\ live' = live \cup {o}
    /\ UNCHANGED <<phase, kind, answer>>

Finish(o) ==
    /\ o \in live
    /\ live' = live \ {o}
    /\ UNCHANGED <<phase, kind, starts, answer>>

Answer(o) ==
    /\ phase[o] = "open"
    /\ o \notin live
    /\ phase' = [phase EXCEPT ![o] = "over"]
    /\ \E a \in Answers : answer' = [answer EXCEPT ![o] = a]
    /\ UNCHANGED <<kind, starts, live>>

Next == \E o \in Ops : Ask(o) \/ Start(o) \/ Finish(o) \/ Answer(o)

Contract == Init /\ [][Next]_contractVars
=============================================================================
