----------------------------- MODULE RunnerPool -----------------------------
(***************************************************************************)
(* A pool of runners that follows the capacity plan: each recommendation   *)
(* is carried out, provisioned runners register some time later, and the   *)
(* demand moves.  The code recommends; what carries it out is outside.     *)
(***************************************************************************)
EXTENDS Capacity

CONSTANTS
    PoolPolicies,   \* CapacityScalingPolicy values, one of which the pool has
    Demands         \* RunnerPoolDemand values the pool may meet

\* The numbers are u32.
ASSUME PoolAssumption ==
    /\ \A p \in PoolPolicies :
        {p.min, p.max, p.slots, p.backlog, p.utilization, p.headroom, p.up, p.down,
         p.eventWeight} \subseteq 0..MaxU32
    /\ Demands \subseteq Demand

VARIABLE pool

Recommended == RecommendPoolScaling(pool.policy, pool.demand, pool.supply)

PoolInit ==
    \E p \in PoolPolicies, d \in Demands :
        pool = [policy |-> p, demand |-> d, supply |-> NoSupply, last |-> "Steady"]

\* Carry out the plan: start what it adds, stop idle runners it retires.
FollowPlan ==
    LET stopped == Min({Recommended.retire, pool.supply.dispatchable})
    IN  pool' = [pool EXCEPT !.supply.pending = @ + Recommended.provision,
                             !.supply.dispatchable = @ - stopped,
                             !.last = Recommended.action]

RunnerArrives ==
    /\ pool.supply.pending > 0
    /\ pool' = [pool EXCEPT !.supply.pending = @ - 1, !.supply.dispatchable = @ + 1]

RunnerLost ==
    /\ pool.supply.dispatchable > 0
    /\ pool' = [pool EXCEPT !.supply.dispatchable = @ - 1, !.last = "Steady"]

DemandMoves ==
    \E d \in Demands \ {pool.demand} : pool' = [pool EXCEPT !.demand = d, !.last = "Steady"]

PoolNext == FollowPlan \/ RunnerArrives \/ RunnerLost \/ DemandMoves
PoolSpec == PoolInit /\ [][PoolNext]_pool

\* Following the plan never takes a pool past its policy's maximum, counting
\* the runners still starting, and while the demand stands still the plan does
\* not turn round: what it adds it does not then retire
\* (recommend_pool_scaling counts pending_runners as supply).
PlanDoesNotOvershoot ==
    [][/\ EffectiveRunners(pool'.supply) <= pool.policy.max
       /\ (pool'.demand = pool.demand /\ pool.last = "ScaleUp") => pool'.last # "ScaleDown"
      ]_pool
=============================================================================
