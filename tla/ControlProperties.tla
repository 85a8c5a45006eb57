--------------------------- MODULE ControlProperties ---------------------------
(***************************************************************************)
(* What the desk's control plane promises: its money is where its books    *)
(* say, its limits are passed on outdated readings only, and a switch that *)
(* was armed stays armed and empties the desk.                             *)
(***************************************************************************)
EXTENDS DeskControl

Place ==
  {"idle", "end",
   "c_mark", "c_treasury", "c_history", "c_decide", "c_send", "c_verify", "c_record_in",
   "c_guard", "c_run", "c_record_out", "c_unwind",
   "t_heartbeat", "t_mark", "t_gate", "t_note_read", "t_note_write", "t_trade",
   "t_touch_read", "t_touch_write", "t_evaluate", "t_arm_save",
   "k_arm", "k_arm_save", "k_mark", "k_trip", "k_run", "k_save"}

Cooldown == {"on", "off"}

Book == [free : Nat, stock : Nat, treasury : Nat, cooldown : Cooldown]

\* Every variable has its type.
TypeOK ==
  /\ treasury \in Nat /\ desk \in Nat /\ stock \in Nat
  /\ booked \in Int
  /\ late \subseteq [flow : Flow, n : Nat, by : Proc, id : Nat]
  /\ switch \in SwitchState
  /\ pc \in [Proc -> Place]
  /\ amount \in [Proc -> Nat]
  /\ past \subseteq Events
  /\ faults \in 0 .. MaxFaults
  /\ book \in [Proc -> Book]
  /\ cooldown \in Cooldown
  /\ paid \subseteq Proc
  /\ behind \in [Proc -> SUBSET Reading]
  /\ hydrated \in {"no", "yes", "blind"}
  /\ row \in SwitchState
  /\ seen \in [Proc -> SwitchState]
  /\ free \in [Proc -> Nat]

\* Some transfer is between the chain and its row.
InTransit == paid /= {} \/ \E p \in Proc : pc[p] = "c_record_out"

\* desk_capital_moves accounts for the treasury, move by move, unless an
\* answer, a row or a process was lost, or the kill switch tripped (which
\* writes no row): a row is written for money that moved, once and with the
\* amount that moved.
BooksBalance == InTransit \/ "untold" \in past \/ treasury + booked = Funds

\* The treasury falls below its operating reserve only by a top-up decided on
\* a balance that another top-up has outdated.
ReserveExplained == treasury < Reserve => "treasury" \in past

\* The desk holds more than MaxAum only by a top-up decided on a mark that
\* another top-up has outdated, or on a mark that failed.
AumExplained == Equity > MaxAum => "equity" \in past

\* Once POST /desk/kill has answered, a process that could read the switch's
\* row has it armed, across restarts and trips, unless an upsert of the desk
\* tick wrote back the kill_armed it had read before.
SwitchSurvives ==
  ("saved" \in past /\ hydrated = "yes") => (Armed \/ "clobbered" \in past)

\* kill-switch-service.ts:15 without that exception.
ArmSurvives == ("saved" \in past /\ hydrated = "yes") => Armed

-----------------------------------------------------------------------------

\* The scheduler's timer goes on and its calls return; hydrate returns; runs
\* nobody waits for end.
FairSpec ==
  /\ Spec
  /\ WF_vars(StartCycle)
  /\ WF_vars(CallStep(Scheduler))
  /\ WF_vars(Hydrate /\ UNCHANGED capitalVars)
  /\ WF_vars(\E r \in late : LateRunEnds(r) /\ UNCHANGED <<capitalVars, switchVars>>)

\* An armed desk ends with nothing free: whatever top-ups, trades and runs
\* were under way when the switch was armed, the scheduler's emergency returns
\* win.
EventuallyFlat == <>[](Armed => desk = 0)

=============================================================================
