---------------------------- MODULE SponsoredWatches ----------------------------
(***************************************************************************)
(* Sponsored watches: calls create them while the campaign cycle, on its   *)
(* timer and on request, drives them to their report.                      *)
(***************************************************************************)
EXTENDS WatchCreation, WatchCycle

vars == <<recordVars, creationVars, cycleVars>>

Init == RecordsInit /\ CreationInit /\ CycleInit

\* The process ends and starts again: the run and the calls are lost.
Restart ==
  /\ Fault
  /\ CallsEnd
  /\ RunRest
  /\ UNCHANGED <<started, ghostVars, order, minted, made, spent, orders, now, watch,
                 nextWatchId, anchored, feed, alert, submitted>>

World ==
  \/ \E e \in Event : Track(e)
  \/ \E i \in DOMAIN submitted : \E r \in submitted[i] : Publish(i, r)
  \/ Tick

Next ==
  \/ (\E c \in Call : CallStep(c)) /\ UNCHANGED cycleVars
  \/ (Begin \/ RunStep) /\ UNCHANGED creationVars
  \/ World /\ UNCHANGED <<creationVars, cycleVars>>
  \/ Restart

Spec == Init /\ [][Next]_vars

\* The timer fires for ever, a run takes its steps, time passes, and KeeperHub
\* mines one of the reports it was asked to publish, or reports it so.
Published ==
  \E i \in DOMAIN submitted : \E r \in submitted[i] : Publish(i, r)

FairSpec ==
  /\ Spec
  /\ WF_vars(Begin /\ UNCHANGED creationVars)
  /\ WF_vars(RunStep /\ UNCHANGED creationVars)
  /\ WF_vars(Tick /\ UNCHANGED <<creationVars, cycleVars>>)
  /\ WF_vars(Published /\ UNCHANGED <<creationVars, cycleVars>>)

=============================================================================
