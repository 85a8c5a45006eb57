-------------------------------- MODULE Payouts --------------------------------
(***************************************************************************)
(* Affiliate withdrawals and the routing of revenue in one process, on one *)
(* table of payouts.  The process may be restarted at any await: running   *)
(* calls and jobs are gone, tables, registry and chain are not.            *)
(***************************************************************************)
EXTENDS AffiliateWithdrawals, RevenueRouting

vars == <<kind, pc, recordVars, moneyVars, faults, withdrawalVars, routingVars>>

Init == RecordInit /\ WithdrawalInit /\ RoutingInit

Withdrawing ==
  /\ (\E j \in Job : AgentStep(j)) \/ (\E p \in Payer : WithdrawalStep(p))
  /\ UNCHANGED routingVars

Routing ==
  /\ (\E p \in Payer : RoutingStep(p)) \/ RoutingOutside
  /\ UNCHANGED withdrawalVars

Restart ==
  /\ Fault
  /\ pc' = [p \in Payer |-> IF Active(p) THEN "end" ELSE pc[p]]
  /\ StopJobs
  /\ UNCHANGED <<kind, recordVars, moneyVars, tableVars, authority, owner, asked, reply,
                 routingVars>>

Next == Withdrawing \/ Routing \/ Restart

Spec == Init /\ [][Next]_vars

=============================================================================
