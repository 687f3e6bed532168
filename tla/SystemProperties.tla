--------------------------- MODULE SystemProperties ---------------------------
(* What holds of the scheduler and the caches together. *)
EXTENDS System, SchedulerProperties, CacheProperties

(* Every memory instruction asks the caches once, in its first cycle in    *)
(* EX, whether or not it waits there: no more and no fewer requests than   *)
(* such instructions have been made when the issue stage begins.           *)
LookupOnce ==
  stage = "issue" /\ pos = 1 /\ count = 0 =>
    stats[1].reads =
      Cardinality({k \in Insts : listInst[k].mem # 0 /\ Reached(k, "EX") /\ At(k, "EX") < cycle})

(* A memory instruction of type 2 is in EX for 5, 10 or 20 cycles: as many *)
(* as its own request was answered, which depends on every request that    *)
(* was made before it.                                                     *)
Slow == {k \in InState({"WB"}) : listInst[k].type = 2 /\ At(k, "WB") = At(k, "EX") + 20}
Middle == {k \in InState({"WB"}) : listInst[k].type = 2 /\ At(k, "WB") = At(k, "EX") + 10}
TimesMatchStats ==
  stage = "done" /\ (\A k \in Insts : listInst[k].type = 2 <=> listInst[k].mem # 0) =>
    /\ Cardinality(Slow) = stats[Last].readMisses
    /\ Cardinality(Slow \cup Middle) = stats[1].readMisses

(* Asking real caches gives no behaviour the scheduler alone, told any of  *)
(* the three latencies, does not have.                                     *)
ImplementsScheduler == Spec
=============================================================================
