------------------------------- MODULE DeskControl -------------------------------
(***************************************************************************)
(* The desk's control plane in one process: the scheduler's cycle (a       *)
(* capital tick, then a desk tick), the requests POST                      *)
(* /keeperhub/desk/capital, /tick and /kill beside it, the kill switch     *)
(* restored at boot, and restarts.                                         *)
(*                                                                         *)
(* Of the desk tick (control-plane runDeskTick) this module keeps what     *)
(* meets the capital manager and the switch: the heartbeat, the mark, the  *)
(* gates, a trade that turns free USDC into inventory or back, the times   *)
(* it writes to desk_control_state and the evaluation of the switch.       *)
(* DeskIntents models what lies between the gates and the trade.           *)
(***************************************************************************)
EXTENDS CapitalManager, KillSwitch

vars == <<moveVars, switch, pc, amount, past, faults, capitalVars, switchVars>>

Init == BookInit /\ CapitalInit /\ SwitchInit

TickIdle == UNCHANGED <<switch, past, capitalVars, hydrated, row>>

-----------------------------------------------------------------------------
(* Beginnings *)

Begin(p, place) ==
  /\ At(p, "idle")
  /\ Go(p, place)
  /\ UNCHANGED <<moveVars, switch, amount, past, faults, capitalVars, switchVars>>

\* One cycle at a time: the flag inFlight.
StartCycle == Begin(Scheduler, "c_mark")

StartRequest(p) ==
  /\ p \in Request
  /\ \E place \in {"c_mark", "t_heartbeat", "k_arm"} : Begin(p, place)

-----------------------------------------------------------------------------
(* The desk tick *)

TouchHeartbeat(p) ==
  /\ At(p, "t_heartbeat")
  /\ \/ NoFault /\ Go(p, "t_mark")
     \/ Fault /\ Go(p, Home(p))
  /\ amount' = [amount EXCEPT ![p] = 0]
  /\ UNCHANGED <<moveVars, seen, free>>
  /\ TickIdle

\* Without a mark nothing is traded and the switch is told of nothing free.
MarkForTick(p) ==
  /\ At(p, "t_mark")
  /\ \/ NoFault /\ free' = [free EXCEPT ![p] = desk] /\ Go(p, "t_gate")
     \/ Fault /\ Go(p, "t_evaluate") /\ UNCHANGED free
  /\ UNCHANGED <<moveVars, amount, seen>>
  /\ TickIdle

\* desk_paused and kill_armed, in memory; a boot that has not restored the
\* switch leaves them open.
Gate == ~Armed

\* A strategy's intent, or an event trade, whose time is noted before it runs;
\* or nothing.
PassGate(p) ==
  /\ At(p, "t_gate")
  /\ NoFault
  /\ \/ Gate /\ Go(p, "t_trade")
     \/ Gate /\ Go(p, "t_note_read")
     \/ Go(p, "t_evaluate")
  /\ UNCHANGED <<moveVars, amount, seen, free>>
  /\ TickIdle

\* The trade is made, in either direction, or it fails.  A maintenance trade
\* that is filled has its time noted.
Trade(p) ==
  /\ At(p, "t_trade")
  /\ NoFault
  /\ \/ desk > 0 /\ desk' = desk - 1 /\ stock' = stock + 1
     \/ stock > 0 /\ desk' = desk + 1 /\ stock' = stock - 1
     \/ UNCHANGED <<desk, stock>>
  /\ \/ Go(p, "t_evaluate")
     \/ desk' /= desk /\ Go(p, "t_touch_read")
  /\ UNCHANGED <<treasury, booked, late, amount, seen, free>>
  /\ TickIdle

-----------------------------------------------------------------------------
(* upsert of last_event_microtrade_at and last_maintenance_at *)

ReadingRow(p) == pc[p] \in {"t_note_read", "t_touch_read"}
WritingRow(p) == pc[p] \in {"t_note_write", "t_touch_write"}

Then(place) ==
  CASE place = "t_note_read"   -> "t_note_write"
    [] place = "t_note_write"  -> "t_trade"
    [] place = "t_touch_read"  -> "t_touch_write"
    [] place = "t_touch_write" -> "t_evaluate"

\* A time that cannot be noted is not noted.
AfterNote(place) == IF place = "t_note_read" THEN "t_trade" ELSE "t_evaluate"

\* The upsert begins by reading the row.
ReadRow(p) ==
  /\ ReadingRow(p)
  /\ \/ NoFault /\ seen' = [seen EXCEPT ![p] = row] /\ Go(p, Then(pc[p]))
     \/ Fault /\ Go(p, AfterNote(pc[p])) /\ UNCHANGED seen
  /\ UNCHANGED <<moveVars, amount, free>>
  /\ TickIdle

\* It ends by writing every column, kill_armed too.
WriteRow(p) ==
  /\ WritingRow(p)
  /\ \/ NoFault /\ row' = seen[p]
     \/ Fault /\ row' \in {row, seen[p]}
  /\ IF row' = row THEN UNCHANGED past ELSE Happens("clobbered")
  /\ seen' = [seen EXCEPT ![p] = "off"]
  /\ Go(p, Then(pc[p]))
  /\ UNCHANGED <<moveVars, switch, amount, free, hydrated, capitalVars>>

-----------------------------------------------------------------------------
(* The process *)

Awaited(p) == pc[p] \in {"c_run", "c_unwind", "k_run"}

Left(p) == [flow |-> IF pc[p] = "c_unwind" THEN "unwind" ELSE "return",
            n |-> amount[p], by |-> p, id |-> faults]

\* Memory is gone; the table, the row, the chain and the runs are not.
Restart ==
  /\ Fault
  /\ late' = late \union {Left(p) : p \in {q \in Proc : Awaited(q)}}
  /\ IF paid = {} /\ \A p \in Proc : pc[p] \notin {"c_run", "k_run", "c_record_out"}
       THEN UNCHANGED past
       ELSE Happens("untold")
  /\ pc' = [p \in Proc |-> IF Ending(p) THEN pc[p] ELSE Home(p)]
  /\ amount' = [p \in Proc |-> 0]
  /\ switch' = "off"
  /\ hydrated' = "no"
  /\ book' = [p \in Proc |-> NoBook]
  /\ paid' = {}
  /\ behind' = [p \in Proc |-> {}]
  /\ seen' = [p \in Proc |-> "off"]
  /\ free' = [p \in Proc |-> 0]
  /\ UNCHANGED <<chainVars, booked, cooldown, row>>

TickStep(p) ==
  \/ TouchHeartbeat(p) \/ MarkForTick(p) \/ PassGate(p) \/ Trade(p)
  \/ ReadRow(p) \/ WriteRow(p)

CallStep(p) ==
  \/ CapitalStep(p) /\ UNCHANGED switchVars
  \/ SwitchStep(p) /\ UNCHANGED capitalVars
  \/ TickStep(p)

Outside ==
  /\ CooldownEnds \/ \E r \in late : LateRunEnds(r) /\ UNCHANGED capitalVars
  /\ UNCHANGED switchVars

Next ==
  \/ StartCycle
  \/ \E p \in Request : StartRequest(p)
  \/ \E p \in Proc : CallStep(p)
  \/ Hydrate /\ UNCHANGED capitalVars
  \/ Outside
  \/ Restart

Spec == Init /\ [][Next]_vars

=============================================================================
