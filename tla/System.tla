-------------------------------- MODULE System --------------------------------
(***************************************************************************)
(* The simulator with its caches: the scheduler's loop, whose lookups      *)
(* (dis_exec_cache_lookup) are the requests the caches serve, in the order *)
(* in which instructions are met on list_exec.                             *)
(***************************************************************************)
EXTENDS Scheduler, Cache

ASSUME SystemAssumption ==
  /\ HasL1 /\ RefType = {"r"} /\ MaxTrace <= MaxRequests
  /\ {5, 10, 20} \subseteq LookupLatency \* the hit and miss latencies of the caches
  /\ \A e \in TraceEntry : e.mem # 0 => e.mem \in Addr

sysVars == <<vars, cacheVars>>

AtLookup == stage = "execute" /\ pos <= Len(exec) /\ LooksUp(exec[pos].data)

(* dis_exec_cache_lookup: the latency the request returns is added to that *)
(* of the instruction, which then stays in EX or leaves it.                *)
Lookup ==
  /\ AtLookup
  /\ Request("r", listInst[exec[pos].data].mem)
  /\ ExecuteWait(last'.latency) \/ ExecuteComplete(last'.latency)

Quiet == ~AtLookup /\ Next /\ UNCHANGED cacheVars

SystemInit == Init /\ CacheInit
SystemNext == Lookup \/ Quiet
SystemSpec == SystemInit /\ [][SystemNext]_sysVars
=============================================================================
