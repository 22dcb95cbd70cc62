------------------------------- MODULE JobPool -------------------------------
(***************************************************************************)
(* What a task queue of the HTTP server promises to the listener: jobs are *)
(* begun in the order they were queued, each once, never more than Max at  *)
(* a time, and shutdown returns when every job that was queued has ended.  *)
(* HttplibServer takes its pool for one of these; ThreadPool implements it.*)
(***************************************************************************)
EXTENDS Naturals, Sequences, FiniteSets

CONSTANTS Jobs, Max

VARIABLES
  queued,   \* jobs that wait
  busy,     \* jobs being run
  begun,    \* jobs ever begun
  up        \* the pool has not been shut down

vars == <<queued, busy, begun, up>>

Init == queued = <<>> /\ busy = {} /\ begun = {} /\ up = TRUE

Push(j) ==
  /\ up
  /\ j \notin begun
  /\ \A i \in 1..Len(queued) : queued[i] # j
  /\ queued' = Append(queued, j)
  /\ UNCHANGED <<busy, begun, up>>

Begin ==
  /\ queued # <<>>
  /\ Cardinality(busy) < Max
  /\ queued' = Tail(queued)
  /\ busy' = busy \cup {Head(queued)}
  /\ begun' = begun \cup {Head(queued)}
  /\ up' = up

End(j) ==
  /\ j \in busy
  /\ busy' = busy \ {j}
  /\ UNCHANGED <<queued, begun, up>>

Close ==
  /\ up
  /\ queued = <<>>
  /\ busy = {}
  /\ up' = FALSE
  /\ UNCHANGED <<queued, busy, begun>>

Next == (\E j \in Jobs : Push(j) \/ End(j)) \/ Begin \/ Close

Spec == Init /\ [][Next]_vars
=============================================================================
