---------------------------- MODULE SingleFlight ----------------------------
(***************************************************************************)
(* What GetOrCreateAsync promises concurrent callers of one key: while no  *)
(* value is cached at most one of them runs its factory, the value it      *)
(* makes is cached, and everybody is answered with the cached value.       *)
(***************************************************************************)
CONSTANTS Callers, NoValue, Initial

VARIABLES
    value,      \* the cached value, NoValue when there is none
    runner,     \* the callers running their factory
    answer      \* what each caller was given, NoValue while it waits

vars == <<value, runner, answer>>

Init ==
    /\ value \in {NoValue, Initial}
    /\ runner = {}
    /\ answer = [c \in Callers |-> NoValue]

Run(c) ==
    /\ value = NoValue /\ runner = {}
    /\ runner' = {c}
    /\ UNCHANGED <<value, answer>>

Cache(c) ==
    /\ runner = {c}
    /\ value' = c
    /\ runner' = {}
    /\ UNCHANGED answer

Answer(c) ==
    /\ value # NoValue /\ answer[c] = NoValue
    /\ answer' = [answer EXCEPT ![c] = value]
    /\ UNCHANGED <<value, runner>>

Next == \E c \in Callers : Run(c) \/ Cache(c) \/ Answer(c)

Spec == Init /\ [][Next]_vars

=============================================================================
