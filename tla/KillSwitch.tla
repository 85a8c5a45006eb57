------------------------------- MODULE KillSwitch -------------------------------
(***************************************************************************)
(* The kill switch (desk/kill-switch-service), its row in                  *)
(* desk_control_state and the heartbeat that may arm it.                   *)
(*                                                                         *)
(* switch is memory; a boot restores it from the row with hydrate, which    *)
(* arm, trip and evaluate wait for and the readers of switch do not.  Every *)
(* write of the row is an upsert that reads the whole row and writes it    *)
(* back with its own columns changed: the switch writes kill_armed, the    *)
(* desk tick the time of its last maintenance or event trade.  Nobody      *)
(* calls disarm.                                                           *)
(***************************************************************************)
EXTENDS DeskBook

VARIABLES
  hydrated,  \* "no" while hydrate runs, "yes", "blind" if it could not read
  row,       \* desk_control_state.kill_armed
  seen,      \* per call: kill_armed as its upsert read it
  free       \* per call: USDC on the desk when it was marked

switchVars == <<hydrated, row, seen, free>>

SwitchInit ==
  /\ hydrated = "no"
  /\ row = "off"
  /\ seen = [p \in Proc |-> "off"]
  /\ free = [p \in Proc |-> 0]

SwitchIdle == UNCHANGED <<moveVars, amount>>

\* hydrate at boot; a row that cannot be read leaves the switch unarmed.
Hydrate ==
  /\ hydrated = "no"
  /\ \/ NoFault /\ hydrated' = "yes" /\ switch' = row
     \/ Fault /\ hydrated' = "blind" /\ UNCHANGED switch
  /\ SwitchIdle
  /\ UNCHANGED <<pc, past, row, seen, free>>

-----------------------------------------------------------------------------
(* Arming and saving *)

\* Mutant: it does not wait for hydrate.
ArmAtOnce(p, next) ==
  /\ switch' = "armed"
  /\ Go(p, next)
  /\ SwitchIdle /\ NoFault
  /\ UNCHANGED <<past, switchVars>>

\* ensureHydrated, then the flag and the pause, then persist.
Arm(p, next) ==
  /\ hydrated /= "no"
  /\ switch' = "armed"
  /\ Go(p, next)
  /\ SwitchIdle /\ NoFault
  /\ UNCHANGED <<past, switchVars>>

\* persist writes what the switch is in memory: armed, wherever it is called.
\* It throws if the write fails, or seems to.
Persist(p, next, failed) ==
  /\ \/ NoFault /\ row' = switch /\ Go(p, next)
     \/ Fault /\ row' \in {row, switch} /\ Go(p, failed)
  /\ SwitchIdle
  /\ UNCHANGED <<switch, hydrated, seen, free>>

-----------------------------------------------------------------------------
(* POST /keeperhub/desk/kill *)

ArmByRequest(p) == At(p, "k_arm") /\ Arm(p, "k_arm_save")

\* armKill answers, or marks the desk and trips.
SaveArmByRequest(p) ==
  /\ At(p, "k_arm_save")
  /\ Persist(p, "k_mark", "end") \/ Persist(p, "end", "end")
  /\ IF faults' = faults THEN Happens("saved") ELSE UNCHANGED past

\* A mark that fails counts as nothing to return.
MarkForTrip(p) ==
  /\ At(p, "k_mark")
  /\ \/ NoFault /\ free' = [free EXCEPT ![p] = desk]
     \/ Fault /\ UNCHANGED free
  /\ Go(p, "k_trip")
  /\ SwitchIdle
  /\ UNCHANGED <<switch, past, hydrated, row, seen>>

-----------------------------------------------------------------------------
(* evaluate, at the end of a desk tick *)

\* It waits for hydrate.  armed trips; a heartbeat older than killHeartbeatMs
\* by now, which every tick begins by renewing, arms and trips.
Evaluate(p) ==
  /\ At(p, "t_evaluate")
  /\ hydrated /= "no"
  /\ \/ Armed /\ NoFault /\ Go(p, "k_trip") /\ UNCHANGED <<switch, free>>
     \/ ~Armed /\ NoFault /\ switch' = "armed" /\ Go(p, "t_arm_save") /\ UNCHANGED free
     \/ /\ ~Armed
        /\ NoFault \/ Fault
        /\ Go(p, Home(p))
        /\ free' = [free EXCEPT ![p] = 0]
        /\ UNCHANGED switch
  /\ SwitchIdle
  /\ UNCHANGED <<past, hydrated, row, seen>>

SaveArm(p) ==
  /\ At(p, "t_arm_save")
  /\ Persist(p, "k_trip", Home(p))
  /\ UNCHANGED past

-----------------------------------------------------------------------------
(* trip *)

\* The switch is saved (again) before money moves; with nothing free it is
\* saved a last time, and reported as not tripped.
SaveTrip(p) ==
  /\ At(p, "k_trip")
  /\ \/ NoFault /\ row' = switch /\ Go(p, IF free[p] > 0 THEN "k_run" ELSE "k_save")
     \/ Fault /\ row' \in {row, switch} /\ Go(p, Home(p))
  /\ amount' = [amount EXCEPT ![p] = free[p]]
  /\ free' = [free EXCEPT ![p] = 0]
  /\ UNCHANGED <<moveVars, switch, past, hydrated, seen>>

\* The kill_switch workflow with what was free at the mark, under a fresh key;
\* whatever it moves, no row of desk_capital_moves tells of it.
RunTrip(p) ==
  /\ At(p, "k_run")
  /\ AwaitRun(p, "return", "k_save", "k_save", Home(p))
  /\ UNCHANGED <<amount, switch, switchVars>>

SaveTripped(p) ==
  /\ At(p, "k_save")
  /\ Persist(p, Home(p), Home(p))
  /\ UNCHANGED past

-----------------------------------------------------------------------------

SwitchStep(p) ==
  \/ ArmByRequest(p) \/ SaveArmByRequest(p) \/ MarkForTrip(p)
  \/ Evaluate(p) \/ SaveArm(p)
  \/ SaveTrip(p) \/ RunTrip(p) \/ SaveTripped(p)

=============================================================================
