---------------------------- MODULE DataflowRun ----------------------------
(***************************************************************************)
(* What csinn_session_run promises, with no counts and no buffers: in each *)
(* run every layer of the plan fires once, only on values of this run, and *)
(* a value may be forgotten only when nobody can still ask for it.         *)
(***************************************************************************)
EXTENDS GrefGraph

CONSTANTS Tensor, MaxRuns

VARIABLES
  g,        \* the graph of the session
  running,  \* between the call of csinn_session_run and its return
  fired,    \* the layers that have run in this run
  val,      \* the run a tensor's value belongs to, NoValue when it has none
  run       \* the number of runs begun

NoValue == 0

vars == <<g, running, fired, val, run>>

Layers == 1 .. Len(g.plan)

Init ==
  /\ GraphOK(g, Tensor)
  /\ running = FALSE /\ fired = {} /\ run = 0
  /\ val = [t \in Tensor |-> NoValue]

(* The application provides an input of the next run ...                   *)
Feed(t) ==
  /\ ~running /\ run < MaxRuns
  /\ val' = [val EXCEPT ![t] = run + 1]
  /\ UNCHANGED <<g, running, fired, run>>

(* ... or drops results of an earlier one.                                 *)
Release(S) ==
  /\ ~running
  /\ val' = [t \in Tensor |-> IF t \in S THEN NoValue ELSE val[t]]
  /\ UNCHANGED <<g, running, fired, run>>

Begin ==
  /\ ~running /\ run < MaxRuns
  /\ \A t \in Elems(g.input) : val[t] = run + 1
  /\ running' = TRUE /\ fired' = {} /\ run' = run + 1
  /\ UNCHANGED <<g, val>>

Fire(k) ==
  /\ running /\ k \notin fired
  /\ \A t \in Elems(g.plan[k].in) : val[t] = run
  /\ fired' = fired \cup {k}
  /\ val' = [t \in Tensor |-> IF t \in Elems(g.plan[k].out) THEN run ELSE val[t]]
  /\ UNCHANGED <<g, running, run>>

NeededLater(t) ==
  \/ t \in Elems(g.input) \cup Elems(g.output)
  \/ \E k \in Layers \ fired : t \in Elems(g.plan[k].in)

Forget(t) ==
  /\ running /\ ~NeededLater(t)
  /\ val' = [val EXCEPT ![t] = NoValue]
  /\ UNCHANGED <<g, running, fired, run>>

Return ==
  /\ running /\ fired = Layers
  /\ \A t \in Elems(g.output) : val[t] = run
  /\ running' = FALSE /\ fired' = {}
  /\ UNCHANGED <<g, val, run>>

Next ==
  \/ \E t \in Elems(g.input) : Feed(t)
  \/ \E S \in SUBSET Elems(g.output) : Release(S)
  \/ Begin \/ Return
  \/ \E k \in Layers : Fire(k)
  \/ \E t \in Tensor : Forget(t)

Spec == Init /\ [][Next]_vars
=============================================================================
