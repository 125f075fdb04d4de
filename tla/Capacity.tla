------------------------------ MODULE Capacity ------------------------------
(***************************************************************************)
(* The capacity plan for a pool of runners: what is asked for, what the    *)
(* heartbeats show, and how many runners a bounded policy adds or retires. *)
(* Numbers are u32 and saturate at MaxU32.                                 *)
(***************************************************************************)
EXTENDS Naturals, FiniteSetsExt

CONSTANT MaxU32     \* u32::MAX, or a small number that is reached sooner

ASSUME MaxU32Assumption == MaxU32 \in Nat \ {0}

Sat(n) == Min({n, MaxU32})
SatSub(a, b) == IF a > b THEN a - b ELSE 0
CeilDiv(n, d) == IF n = 0 THEN 0 ELSE 1 + ((n - 1) \div Max({d, 1}))

\* RunnerPoolDemand and RunnerPoolSupply.
Demand == [queued : Nat, running : Nat, unmatched : Nat, events : Nat, boost : Nat]
Supply == [dispatchable : Nat, running : Nat, pending : Nat]

\* CapacityScalingPolicy::default, enabled.
DefaultPolicy ==
    [enabled |-> TRUE, mode |-> "RecommendOnly", min |-> 0, max |-> 8, slots |-> 1,
     backlog |-> 2, utilization |-> 75, headroom |-> 0, up |-> 2, down |-> 1,
     fromEvents |-> TRUE, eventWeight |-> 1]

DemandUnits(policy, demand) ==
    LET events == IF policy.fromEvents
                  THEN Sat(demand.events * Max({policy.eventWeight, 1})) ELSE 0
    IN  Sat(Sat(Sat(demand.queued + demand.unmatched) + events) + demand.boost)

UtilizationRunners(policy, demand, supply) ==
    CeilDiv(Sat(Max({demand.running, supply.running}) * 100),
            Sat(Max({policy.slots, 1}) * Max({1, Min({policy.utilization, 100})})))

DesiredRunners(policy, demand, supply) ==
    Min({Max({policy.min,
              Sat(CeilDiv(DemandUnits(policy, demand), Max({policy.backlog, 1}))
                  + policy.headroom),
              UtilizationRunners(policy, demand, supply)}),
         policy.max})

EffectiveRunners(supply) == Sat(supply.dispatchable + supply.pending)

\* Mutant: counts only runners that take tasks now, not those under way.
RecommendIgnoringPending(policy, demand, supply) ==
    LET desired == DesiredRunners(policy, demand, supply)
    IN  [action |-> IF desired > supply.dispatchable THEN "ScaleUp"
                    ELSE IF supply.dispatchable > desired THEN "ScaleDown" ELSE "Steady",
         provision |-> Min({SatSub(desired, supply.dispatchable), policy.up}),
         retire |-> Min({SatSub(supply.dispatchable, desired), policy.down})]

\* recommend_pool_scaling.
RecommendPoolScaling(policy, demand, supply) ==
    LET desired == DesiredRunners(policy, demand, supply)
        current == EffectiveRunners(supply)
    IN  [action |-> IF desired > current THEN "ScaleUp"
                    ELSE IF current > desired THEN "ScaleDown" ELSE "Steady",
         provision |-> Min({SatSub(desired, current), policy.up}),
         retire |-> Min({SatSub(current, desired), policy.down})]

NoSupply == [dispatchable |-> 0, running |-> 0, pending |-> 0]

\* RunnerScalingDecision::recommend over the pools that have a demand; a pool
\* without supply counts as empty.
Recommend(policy, demands, supplies) ==
    [pool \in DOMAIN demands |->
        RecommendPoolScaling(policy, demands[pool],
            IF pool \in DOMAIN supplies THEN supplies[pool] ELSE NoSupply)]

ScalingStatus(policy, decisions) ==
    IF ~policy.enabled \/ policy.mode = "Manual" THEN "Noop"
    ELSE IF \E p \in DOMAIN decisions :
                decisions[p].action = "ScaleUp" /\ decisions[p].provision > 0
         THEN "ProvisionRecommended"
    ELSE IF \E p \in DOMAIN decisions : decisions[p].action = "ScaleDown"
         THEN "RetirementRecommended"
    ELSE "Steady"
=============================================================================
