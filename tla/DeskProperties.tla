---------------------------- MODULE DeskProperties ----------------------------
(***************************************************************************)
(* What makes the desk's intents correct.                                  *)
(***************************************************************************)
EXTENDS DeskIntents

\* Places where a process has an intent in hand.
IntentPlaces == {"execute", "read_status", "write_status", "submit", "wait", "publish"}

\* The type invariant.  A process at a step on an intent has one that exists.
TypeOK ==
  /\ intent \in [Intent -> [status : Status, strategy : Strategy \union {"none"}]]
  /\ run \in [Intent -> [Key -> RunState]]
  /\ tickets \in [Intent -> Nat]
  /\ pc \in [Proc -> {"idle", "answered", "gates", "find_open", "insert"} \union IntentPlaces]
  /\ cur \in [Proc -> Intent \union {NoIntent}]
  /\ gates \in [Tick -> Gates]
  /\ move \in [Proc -> Move]
  /\ attempt \in [Tick -> Attempt]
  /\ reaper \in [listed : BOOLEAN, todo : SUBSET Intent]
  /\ lost \subseteq Intent
  /\ crashes \in Nat
  /\ \A p \in Proc :
       pc[p] \in IntentPlaces => cur[p] \in Intent /\ intent[cur[p]].status /= "none"

-----------------------------------------------------------------------------
(* Safety *)

HasFill(i) == \E k \in Key : run[i][k] = "done"

\* "refusing to log fake fill": an intent is filled, and a trade ticket exists,
\* only when a run of it really ended with a transaction, whichever of the
\* runner, a callback or a reconciliation after a timeout wrote the status.
FilledMeansDone ==
  \A i \in Intent : intent[i].status = "filled" \/ tickets[i] > 0 => HasFill(i)

\* At most one open intent per strategy, although the gates, propose's own
\* query and the insert are several awaits apart (intent-service.ts:151).
OneOpenPerStrategy ==
  \A i, j \in Intent :
    Open(i) /\ Open(j) /\ intent[i].strategy = intent[j].strategy => i = j

\* An intent whose trade happened is reported failed only if the program lost
\* sight of its outcome (timeout, lost request, failing database, boot reaper)
\* or another run of it failed: a failing ticket, a late status read or a second
\* report never does that.
FailureOfFillIsExplained ==
  \A i \in Intent :
    intent[i].status = "failed" /\ HasFill(i)
      => i \in lost \/ \E k \in Key : run[i][k] = "failed"

-----------------------------------------------------------------------------
(* Liveness *)

\* "fail them so single-flight does not block forever": an executing intent is
\* settled, by its runner or after a restart by the reaper.
ExecutingSettles ==
  \A i \in Intent :
    intent[i].status = "executing" ~> intent[i].status \in {"filled", "failed"}

=============================================================================
