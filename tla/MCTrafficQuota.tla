--------------------------- MODULE MCTrafficQuota ---------------------------
(***************************************************************************)
(* Small instances of TrafficQuota for TLC.                                *)
(***************************************************************************)
EXTENDS TrafficQuota

QuotasOf(state) ==
    {state.quota} \cup IF state.original = NoNetwork THEN {} ELSE {state.original.quota}

QuotasInPlay ==
    {owned.quota, stored.quota, pending.quota} \cup QuotasOf(snapshot)
        \cup IF file = Corrupt THEN {} ELSE QuotasOf(file)

\* Bound: a quota is raised or lowered to another one than none only as long as there has
\* been no reinstall, crash or fault.
TwoQuotas == 1 \in QuotasInPlay => crashes + reinstalls + faults = 0
=============================================================================
