------------------------------ MODULE BatchSample ------------------------------
(***************************************************************************)
(* What the batch OD engine promises (spec 4.F): workers report OD trips  *)
(* of the sample, each OD trip at most once over all workers, and every    *)
(* worker eventually finishes.  An empty batch may finish at once.         *)
(***************************************************************************)
CONSTANTS Workers, OdTrips

VARIABLES
  sample,     \* the OD trips the batch is to route
  reported,   \* [Workers -> SUBSET OdTrips], reported by each worker
  finished    \* [Workers -> BOOLEAN]

vars == <<sample, reported, finished>>

Reported == UNION {reported[w] : w \in Workers}

Init ==
  /\ sample \in SUBSET OdTrips
  /\ reported = [w \in Workers |-> {}]
  /\ \/ finished = [w \in Workers |-> FALSE]
     \/ sample = {} /\ finished = [w \in Workers |-> TRUE]

(* Worker w reports an OD trip of the sample nobody has reported. *)
Report(w, o) ==
  /\ ~finished[w]
  /\ o \in sample \ Reported
  /\ reported' = [reported EXCEPT ![w] = @ \cup {o}]
  /\ UNCHANGED <<sample, finished>>

Finish(w) ==
  /\ ~finished[w]
  /\ finished' = [finished EXCEPT ![w] = TRUE]
  /\ UNCHANGED <<sample, reported>>

Next == \E w \in Workers : Finish(w) \/ \E o \in OdTrips : Report(w, o)

SafeSpec == Init /\ [][Next]_vars

Spec == SafeSpec /\ \A w \in Workers : WF_vars(Finish(w))

(* Finish(w) stays enabled until w has finished, so its weak fairness says *)
(* no more than that w eventually finishes; this is the form checked under *)
(* a refinement mapping, where no ENABLED needs evaluating.                *)
Termination == \A w \in Workers : <>finished[w]
=============================================================================
