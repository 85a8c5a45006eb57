--------------------------- MODULE DeskControlProofs ---------------------------
(***************************************************************************)
(* Proofs about the desk's control plane, for any number of requests and   *)
(* faults and every setting of its limits.                                 *)
(***************************************************************************)
EXTENDS ControlProperties, FiniteSetTheorems, TLAPS

-----------------------------------------------------------------------------
(* Types *)

\* The scheduler and the requests are the calls, and every call has a home.
LEMMA Homes ==
  ASSUME NEW p \in Proc
  PROVE  Home(p) \in Place /\ AfterCapital(p) \in Place
  BY DEF Home, AfterCapital, Place

\* The types, in four parts.
MoneyTypes ==
  /\ treasury \in Nat /\ desk \in Nat /\ stock \in Nat
  /\ booked \in Int
  /\ past \subseteq Events
  /\ faults \in 0 .. MaxFaults

CallTypes ==
  /\ late \subseteq [flow : Flow, n : Nat, by : Proc, id : Nat]
  /\ pc \in [Proc -> Place]
  /\ amount \in [Proc -> Nat]

ReadingTypes ==
  /\ book \in [Proc -> Book]
  /\ cooldown \in Cooldown
  /\ paid \subseteq Proc
  /\ behind \in [Proc -> SUBSET Reading]

SwitchTypes ==
  /\ switch \in SwitchState
  /\ hydrated \in {"no", "yes", "blind"}
  /\ row \in SwitchState
  /\ seen \in [Proc -> SwitchState]
  /\ free \in [Proc -> Nat]

\* What may happen to the desk is listed.
LEMMA PastTypes ==
  /\ past \subseteq Events /\ Happens("untold") => past' \subseteq Events
  /\ past \subseteq Events /\ Happens("saved") => past' \subseteq Events
  /\ past \subseteq Events /\ Happens("clobbered") => past' \subseteq Events
  BY DEF Happens, Events

\* The parts make up the whole.
LEMMA TypeParts == TypeOK <=> MoneyTypes /\ CallTypes /\ ReadingTypes /\ SwitchTypes
  BY DEF TypeOK, MoneyTypes, CallTypes, ReadingTypes, SwitchTypes

\* Initially the types hold.
LEMMA InitTypes == Init => TypeOK
  BY BookConfig, CapitalConfig
  DEF Init, BookInit, CapitalInit, SwitchInit, TypeOK, Place, NoBook, Book, Flow, Reading,
      SwitchState, Cooldown, Events

\* What a run does to the money.
LEMMA RunTypes ==
  ASSUME TypeOK, NEW p \in Proc, NEW flow \in Flow,
         NEW next \in Place, NEW noHash \in Place, NEW failed \in Place,
         AwaitRun(p, flow, next, noHash, failed)
  PROVE  /\ treasury' \in Nat /\ desk' \in Nat /\ stock' \in Nat
         /\ booked' \in Int
         /\ past' \subseteq Events
         /\ late' \subseteq [flow : Flow, n : Nat, by : Proc, id : Nat]
         /\ pc' \in [Proc -> Place]
         /\ faults' \in 0 .. MaxFaults
<1> USE BookConfig DEF TypeOK, chainVars, Fault, NoFault, Go, Happens, Events
<1>1. ASSUME Moved(flow, amount[p])
      PROVE  treasury' \in Nat /\ desk' \in Nat /\ stock' \in Nat
  BY <1>1 DEF Moved, Covered, Flow
<1>2. treasury' \in Nat /\ desk' \in Nat /\ stock' \in Nat /\ booked' \in Int
  BY <1>1 DEF AwaitRun, Short
<1>3. past' \subseteq Events
  BY DEF AwaitRun, Untold
<1>4. late' \subseteq [flow : Flow, n : Nat, by : Proc, id : Nat]
  <2>1. [flow |-> flow, n |-> amount[p], by |-> p, id |-> faults]
          \in [flow : Flow, n : Nat, by : Proc, id : Nat]
    OBVIOUS
  <2>2. \/ late' = late
        \/ late' = late \union {[flow |-> flow, n |-> amount[p], by |-> p, id |-> faults]}
    BY DEF AwaitRun
  <2> QED
    BY <2>1, <2>2
<1>5. pc' \in [Proc -> Place]
  BY DEF AwaitRun
<1>6. faults' \in 0 .. MaxFaults
  BY DEF AwaitRun
<1> QED
  BY <1>2, <1>3, <1>4, <1>5, <1>6

\* Steps of the capital tick preserve the types.
LEMMA CapitalTypes ==
  ASSUME TypeOK, NEW p \in Proc, CapitalStep(p), UNCHANGED switchVars
  PROVE  TypeOK'
<1> SUFFICES ASSUME MoneyTypes, CallTypes, ReadingTypes, SwitchTypes
             PROVE  MoneyTypes' /\ CallTypes' /\ ReadingTypes'
  <2>1. UNCHANGED switch
    BY DEF CapitalStep, MarkDesk, ReadTreasury, ReadHistory, Decide, SendTopup, VerifyTopup,
           RecordTopup, GuardSweep, RunReturn, RecordReturn, RunUnwind, CapitalIdle, capitalVars
  <2>2. SwitchTypes'
    BY <2>1, TypeParts DEF switchVars, SwitchTypes
  <2> QED
    BY <2>2, TypeParts DEF TypeOK, MoneyTypes, CallTypes, ReadingTypes, SwitchTypes
<1> USE BookConfig, CapitalConfig, Homes, PastTypes
    DEF chainVars, moveVars, capitalVars, switchVars, Fault, NoFault, Go, At,
        CapitalIdle, Finish
<1>1. CASE MarkDesk(p)
  <2>1. "c_treasury" \in Place
    BY DEF Place
  <2>2. [NoBook EXCEPT !.free = desk, !.stock = stock] \in Book
    BY DEF NoBook, Book, Cooldown, MoneyTypes
  <2>3. {"equity"} \in SUBSET Reading
    BY DEF Reading
  <2>4. MoneyTypes'
    BY <1>1, <2>1, <2>2, <2>3 DEF MarkDesk, MoneyTypes
  <2>5. CallTypes'
    BY <1>1, <2>1, <2>2, <2>3 DEF MarkDesk, CallTypes
  <2>6. ReadingTypes'
    BY <1>1, <2>1, <2>2, <2>3 DEF MarkDesk, ReadingTypes
  <2> QED
    BY <2>4, <2>5, <2>6
<1>2. CASE ReadTreasury(p)
  <2>1. "c_history" \in Place
    BY DEF Place
  <2>2. NoBook \in Book
    BY DEF NoBook, Book, Cooldown
  <2>3. [book[p] EXCEPT !.treasury = treasury] \in Book
    BY DEF Book, ReadingTypes, MoneyTypes
  <2>4. MoneyTypes'
    BY <1>2, <2>1, <2>2, <2>3 DEF ReadTreasury, MoneyTypes
  <2>5. CallTypes'
    BY <1>2, <2>1, <2>2, <2>3 DEF ReadTreasury, CallTypes
  <2>6. ReadingTypes'
    BY <1>2, <2>1, <2>2, <2>3 DEF ReadTreasury, ReadingTypes
  <2> QED
    BY <2>4, <2>5, <2>6
<1>3. CASE ReadHistory(p)
  <2>1. "c_decide" \in Place
    BY DEF Place
  <2>2. NoBook \in Book
    BY DEF NoBook, Book, Cooldown
  <2>3. [book[p] EXCEPT !.cooldown = cooldown] \in Book
    BY DEF Book, ReadingTypes
  <2>4. MoneyTypes'
    BY <1>3, <2>1, <2>2, <2>3 DEF ReadHistory, MoneyTypes
  <2>5. CallTypes'
    BY <1>3, <2>1, <2>2, <2>3 DEF ReadHistory, CallTypes
  <2>6. ReadingTypes'
    BY <1>3, <2>1, <2>2, <2>3 DEF ReadHistory, ReadingTypes
  <2> QED
    BY <2>4, <2>5, <2>6
<1>4. CASE Decide(p)
  <2>1. \A b \in Book : ReturnAmount(b) \in Nat /\ SweepAmount(b) \in Nat
    BY DEF ReturnAmount, SweepAmount, Least, Excess, BookEquity, Book
  <2>2. \A b \in Book : Least(Chunk, b.stock) \in Nat
    BY DEF Least, Book
  <2>3. book[p] \in Book /\ NoBook \in Book /\ AfterCapital(p) \in Place
    BY DEF ReadingTypes, NoBook, Book, Cooldown
  <2>4. "c_run" \in Place /\ "c_guard" \in Place /\ "c_unwind" \in Place /\ "c_send" \in Place
    BY DEF Place
  <2>5. \/ DecideForNothing(p)
        \/ \E n \in Nat, place \in Place : DecideFor(p, place, n)
    BY <1>4, <2>1, <2>2, <2>3, <2>4 DEF Decide, DecideNormally
  <2>6. UNCHANGED <<moveVars, cooldown, paid, past, switch, faults>>
    BY <1>4 DEF Decide
  <2>7. CASE DecideForNothing(p)
    BY <2>3, <2>6, <2>7 DEF DecideForNothing, MoneyTypes, CallTypes, ReadingTypes
  <2>8. CASE \E n \in Nat, place \in Place : DecideFor(p, place, n)
    BY <2>3, <2>6, <2>8 DEF DecideFor, MoneyTypes, CallTypes, ReadingTypes
  <2> QED
    BY <2>5, <2>7, <2>8
<1>5. CASE SendTopup(p)
  <2>1. "c_verify" \in Place
    BY DEF Place
  <2>2. NoBook \in Book
    BY DEF NoBook, Book, Cooldown
  <2>3. \A q \in Proc : Reads(q) \in SUBSET Reading
    BY DEF Reading, Reads
  <2>4. MoneyTypes'
    <3>1. treasury' \in Nat /\ desk' \in Nat /\ stock' \in Nat /\ booked' \in Int
      BY <1>5 DEF SendTopup, TopupMoved, MoneyTypes
    <3>2. past' \subseteq Events
      BY <1>5 DEF SendTopup, TopupMoved, MoneyTypes, ReadingTypes, Reading, Events
    <3>3. faults' \in 0 .. MaxFaults
      BY <1>5 DEF SendTopup, MoneyTypes
    <3> QED
      BY <3>1, <3>2, <3>3 DEF MoneyTypes
  <2>5. CallTypes'
    BY <1>5, <2>1 DEF SendTopup, CallTypes
  <2>6. behind \in [Proc -> SUBSET Reading] /\ book \in [Proc -> Book]
    BY DEF ReadingTypes
  <2>7. behind' \in [Proc -> SUBSET Reading]
    BY <1>5, <2>3, <2>6 DEF SendTopup, TopupMoved
  <2>8. book' \in [Proc -> Book] /\ cooldown' \in Cooldown /\ paid' \subseteq Proc
    BY <1>5, <2>2, <2>6 DEF SendTopup, ReadingTypes
  <2>9. ReadingTypes'
    BY <2>7, <2>8 DEF ReadingTypes
  <2> QED
    BY <2>4, <2>5, <2>9
<1>6. CASE VerifyTopup(p)
  <2>1. "c_record_in" \in Place
    BY DEF Place
  <2>2. MoneyTypes'
    BY <1>6, <2>1 DEF VerifyTopup, GiveUpTopup, MoneyTypes
  <2>3. CallTypes'
    BY <1>6, <2>1 DEF VerifyTopup, GiveUpTopup, CallTypes
  <2>4. ReadingTypes'
    BY <1>6, <2>1 DEF VerifyTopup, GiveUpTopup, ReadingTypes
  <2> QED
    BY <2>2, <2>3, <2>4
<1>7. CASE RecordTopup(p)
  <2>1. MoneyTypes'
    BY <1>7 DEF RecordTopup, Inserted, Cooldown, CallTypes, MoneyTypes
  <2>2. CallTypes'
    BY <1>7 DEF RecordTopup, Inserted, Cooldown, CallTypes
  <2>3. ReadingTypes'
    BY <1>7 DEF RecordTopup, Inserted, Cooldown, CallTypes, ReadingTypes
  <2> QED
    BY <2>1, <2>2, <2>3
<1>8. CASE GuardSweep(p)
  <2>1. "c_run" \in Place
    BY DEF Place
  <2>2. MoneyTypes'
    BY <1>8, <2>1 DEF GuardSweep, Least, Excess, MoneyTypes
  <2>3. CallTypes'
    BY <1>8, <2>1 DEF GuardSweep, Least, Excess, MoneyTypes, CallTypes
  <2>4. ReadingTypes'
    BY <1>8, <2>1 DEF GuardSweep, Least, Excess, MoneyTypes, ReadingTypes
  <2> QED
    BY <2>2, <2>3, <2>4
<1>9. CASE RunReturn(p)
  <2>1. \E next, noHash, failed \in Place : AwaitRun(p, "return", next, noHash, failed)
    <3>1. "c_record_out" \in Place
      BY DEF Place
    <3> QED
      BY <1>9, <3>1 DEF RunReturn
  <2>2. "return" \in Flow
    BY DEF Flow
  <2>3. MoneyTypes' /\ late' \subseteq [flow : Flow, n : Nat, by : Proc, id : Nat]
          /\ pc' \in [Proc -> Place]
    BY <2>1, <2>2, RunTypes, TypeParts DEF MoneyTypes
  <2>4. CallTypes'
    BY <1>9, <2>3 DEF RunReturn, CallTypes
  <2>5. ReadingTypes'
    BY <1>9 DEF RunReturn, ReadingTypes
  <2> QED
    BY <2>3, <2>4, <2>5
<1>10. CASE RecordReturn(p)
  <2>1. MoneyTypes'
    BY <1>10 DEF RecordReturn, Inserted, CallTypes, MoneyTypes
  <2>2. CallTypes'
    BY <1>10 DEF RecordReturn, Inserted, CallTypes
  <2>3. ReadingTypes'
    BY <1>10 DEF RecordReturn, Inserted, CallTypes, ReadingTypes
  <2> QED
    BY <2>1, <2>2, <2>3
<1>11. CASE RunUnwind(p)
  <2>1. \E next, noHash, failed \in Place : AwaitRun(p, "unwind", next, noHash, failed)
    BY <1>11 DEF RunUnwind
  <2>2. "unwind" \in Flow
    BY DEF Flow
  <2>3. MoneyTypes' /\ late' \subseteq [flow : Flow, n : Nat, by : Proc, id : Nat]
          /\ pc' \in [Proc -> Place]
    BY <2>1, <2>2, RunTypes, TypeParts DEF MoneyTypes
  <2>4. CallTypes'
    BY <1>11, <2>3 DEF RunUnwind, CallTypes
  <2>5. ReadingTypes'
    BY <1>11 DEF RunUnwind, ReadingTypes
  <2> QED
    BY <2>3, <2>4, <2>5
<1> QED
  BY <1>1, <1>2, <1>3, <1>4, <1>5, <1>6, <1>7, <1>8, <1>9, <1>10, <1>11 DEF CapitalStep

\* Steps of the kill switch preserve the types.
LEMMA KillTypes ==
  ASSUME TypeOK, NEW p \in Proc, SwitchStep(p), UNCHANGED capitalVars
  PROVE  TypeOK'
<1> SUFFICES ASSUME MoneyTypes, CallTypes, ReadingTypes, SwitchTypes
             PROVE  MoneyTypes' /\ CallTypes' /\ SwitchTypes'
  BY TypeParts DEF TypeOK, MoneyTypes, CallTypes, ReadingTypes, SwitchTypes, capitalVars
<1> USE BookConfig, Homes, PastTypes
    DEF chainVars, moveVars, capitalVars, switchVars, Fault, NoFault, Go, At,
        SwitchIdle, Persist
<1>1. CASE ArmByRequest(p)
  <2>1. "k_arm_save" \in Place
    BY DEF Place
  <2>2. MoneyTypes'
    BY <1>1, <2>1 DEF ArmByRequest, Arm, SwitchState, MoneyTypes
  <2>3. CallTypes'
    BY <1>1, <2>1 DEF ArmByRequest, Arm, SwitchState, CallTypes
  <2>4. SwitchTypes'
    BY <1>1, <2>1 DEF ArmByRequest, Arm, SwitchState, SwitchTypes
  <2> QED
    BY <2>2, <2>3, <2>4
<1>2. CASE SaveArmByRequest(p)
  <2>1. "k_mark" \in Place /\ "end" \in Place
    BY DEF Place
  <2>2. MoneyTypes'
    BY <1>2, <2>1 DEF SaveArmByRequest, MoneyTypes
  <2>3. CallTypes'
    BY <1>2, <2>1 DEF SaveArmByRequest, CallTypes
  <2>4. SwitchTypes'
    BY <1>2, <2>1 DEF SaveArmByRequest, SwitchTypes
  <2> QED
    BY <2>2, <2>3, <2>4
<1>3. CASE SaveArm(p)
  <2>1. "k_trip" \in Place
    BY DEF Place
  <2>2. MoneyTypes'
    BY <1>3, <2>1 DEF SaveArm, MoneyTypes
  <2>3. CallTypes'
    BY <1>3, <2>1 DEF SaveArm, CallTypes
  <2>4. SwitchTypes'
    BY <1>3, <2>1 DEF SaveArm, SwitchTypes
  <2> QED
    BY <2>2, <2>3, <2>4
<1>4. CASE SaveTripped(p)
  <2>1. MoneyTypes'
    BY <1>4 DEF SaveTripped, MoneyTypes
  <2>2. CallTypes'
    BY <1>4 DEF SaveTripped, CallTypes
  <2>3. SwitchTypes'
    BY <1>4 DEF SaveTripped, SwitchTypes
  <2> QED
    BY <2>1, <2>2, <2>3
<1>5. CASE MarkForTrip(p)
  <2>1. "k_trip" \in Place
    BY DEF Place
  <2>2. MoneyTypes'
    BY <1>5, <2>1 DEF MarkForTrip, MoneyTypes
  <2>3. CallTypes'
    BY <1>5, <2>1 DEF MarkForTrip, MoneyTypes, CallTypes
  <2>4. SwitchTypes'
    BY <1>5, <2>1 DEF MarkForTrip, MoneyTypes, SwitchTypes
  <2> QED
    BY <2>2, <2>3, <2>4
<1>6. CASE Evaluate(p)
  <2>1. "k_trip" \in Place /\ "t_arm_save" \in Place
    BY DEF Place
  <2>2. MoneyTypes'
    BY <1>6, <2>1 DEF Evaluate, SwitchState, MoneyTypes
  <2>3. CallTypes'
    BY <1>6, <2>1 DEF Evaluate, SwitchState, CallTypes
  <2>4. SwitchTypes'
    BY <1>6, <2>1 DEF Evaluate, SwitchState, SwitchTypes
  <2> QED
    BY <2>2, <2>3, <2>4
<1>7. CASE SaveTrip(p)
  <2>1. "k_run" \in Place /\ "k_save" \in Place
    BY DEF Place
  <2>2. MoneyTypes'
    BY <1>7, <2>1 DEF SaveTrip, SwitchTypes, MoneyTypes
  <2>3. CallTypes'
    BY <1>7, <2>1 DEF SaveTrip, SwitchTypes, CallTypes
  <2>4. SwitchTypes'
    BY <1>7, <2>1 DEF SaveTrip, SwitchTypes
  <2> QED
    BY <2>2, <2>3, <2>4
<1>8. CASE RunTrip(p)
  <2>1. \E next, noHash, failed \in Place : AwaitRun(p, "return", next, noHash, failed)
    <3>1. "k_save" \in Place
      BY DEF Place
    <3> QED
      BY <1>8, <3>1 DEF RunTrip
  <2>2. "return" \in Flow
    BY DEF Flow
  <2>3. MoneyTypes' /\ late' \subseteq [flow : Flow, n : Nat, by : Proc, id : Nat]
          /\ pc' \in [Proc -> Place]
    BY <2>1, <2>2, RunTypes, TypeParts DEF MoneyTypes
  <2>4. CallTypes'
    BY <1>8, <2>3 DEF RunTrip, CallTypes
  <2>5. SwitchTypes'
    BY <1>8 DEF RunTrip, SwitchTypes
  <2> QED
    BY <2>3, <2>4, <2>5
<1> QED
  BY <1>1, <1>2, <1>3, <1>4, <1>5, <1>6, <1>7, <1>8 DEF SwitchStep

\* Steps of the desk tick preserve the types.
LEMMA TickTypes ==
  ASSUME TypeOK, NEW p \in Proc, TickStep(p)
  PROVE  TypeOK'
<1> SUFFICES ASSUME MoneyTypes, CallTypes, ReadingTypes, SwitchTypes
             PROVE  MoneyTypes' /\ CallTypes' /\ ReadingTypes' /\ SwitchTypes'
  BY DEF TypeOK, MoneyTypes, CallTypes, ReadingTypes, SwitchTypes
<1> USE BookConfig, Homes, PastTypes
    DEF chainVars, moveVars, capitalVars, switchVars, Fault, NoFault, Go, At,
        TickIdle
<1>1. CASE TouchHeartbeat(p)
  <2>1. "t_mark" \in Place
    BY DEF Place
  <2>2. MoneyTypes'
    BY <1>1, <2>1 DEF TouchHeartbeat, MoneyTypes
  <2>3. CallTypes'
    BY <1>1, <2>1 DEF TouchHeartbeat, CallTypes
  <2>4. ReadingTypes'
    BY <1>1, <2>1 DEF TouchHeartbeat, ReadingTypes
  <2>5. SwitchTypes'
    BY <1>1, <2>1 DEF TouchHeartbeat, SwitchTypes
  <2> QED
    BY <2>2, <2>3, <2>4, <2>5
<1>2. CASE MarkForTick(p)
  <2>1. "t_gate" \in Place /\ "t_evaluate" \in Place
    BY DEF Place
  <2>2. MoneyTypes'
    BY <1>2, <2>1 DEF MarkForTick, MoneyTypes
  <2>3. CallTypes'
    BY <1>2, <2>1 DEF MarkForTick, MoneyTypes, CallTypes
  <2>4. ReadingTypes'
    BY <1>2, <2>1 DEF MarkForTick, MoneyTypes, ReadingTypes
  <2>5. SwitchTypes'
    BY <1>2, <2>1 DEF MarkForTick, MoneyTypes, SwitchTypes
  <2> QED
    BY <2>2, <2>3, <2>4, <2>5
<1>3. CASE PassGate(p)
  <2>1. "t_trade" \in Place /\ "t_note_read" \in Place /\ "t_evaluate" \in Place
    BY DEF Place
  <2>2. MoneyTypes'
    BY <1>3, <2>1 DEF PassGate, MoneyTypes
  <2>3. CallTypes'
    BY <1>3, <2>1 DEF PassGate, CallTypes
  <2>4. ReadingTypes'
    BY <1>3, <2>1 DEF PassGate, ReadingTypes
  <2>5. SwitchTypes'
    BY <1>3, <2>1 DEF PassGate, SwitchTypes
  <2> QED
    BY <2>2, <2>3, <2>4, <2>5
<1>4. CASE Trade(p)
  <2>1. "t_touch_read" \in Place /\ "t_evaluate" \in Place
    BY DEF Place
  <2>2. MoneyTypes'
    BY <1>4, <2>1 DEF Trade, MoneyTypes
  <2>3. CallTypes'
    BY <1>4, <2>1 DEF Trade, CallTypes
  <2>4. ReadingTypes'
    BY <1>4, <2>1 DEF Trade, ReadingTypes
  <2>5. SwitchTypes'
    BY <1>4, <2>1 DEF Trade, SwitchTypes
  <2> QED
    BY <2>2, <2>3, <2>4, <2>5
<1>5. CASE ReadRow(p)
  <2>1. Then(pc[p]) \in Place /\ AfterNote(pc[p]) \in Place
    BY <1>5 DEF ReadRow, ReadingRow, Then, AfterNote, Place
  <2>2. MoneyTypes'
    BY <1>5, <2>1 DEF ReadRow, SwitchTypes, MoneyTypes
  <2>3. CallTypes'
    BY <1>5, <2>1 DEF ReadRow, SwitchTypes, CallTypes
  <2>4. ReadingTypes'
    BY <1>5, <2>1 DEF ReadRow, SwitchTypes, ReadingTypes
  <2>5. SwitchTypes'
    BY <1>5, <2>1 DEF ReadRow, SwitchTypes
  <2> QED
    BY <2>2, <2>3, <2>4, <2>5
<1>6. CASE WriteRow(p)
  <2>1. Then(pc[p]) \in Place
    BY <1>6 DEF WriteRow, WritingRow, Then, Place
  <2>2. MoneyTypes'
    BY <1>6, <2>1 DEF WriteRow, SwitchTypes, SwitchState, MoneyTypes
  <2>3. CallTypes'
    BY <1>6, <2>1 DEF WriteRow, SwitchTypes, SwitchState, CallTypes
  <2>4. ReadingTypes'
    BY <1>6, <2>1 DEF WriteRow, SwitchTypes, SwitchState, ReadingTypes
  <2>5. SwitchTypes'
    BY <1>6, <2>1 DEF WriteRow, SwitchTypes, SwitchState, SwitchTypes
  <2> QED
    BY <2>2, <2>3, <2>4, <2>5
<1> QED
  BY <1>1, <1>2, <1>3, <1>4, <1>5, <1>6 DEF TickStep

\* Everything else preserves the types.
LEMMA OtherTypes ==
  ASSUME TypeOK,
         \/ StartCycle \/ \E p \in Request : StartRequest(p)
         \/ Hydrate /\ UNCHANGED capitalVars
         \/ Outside \/ Restart \/ UNCHANGED vars
  PROVE  TypeOK'
<1> SUFFICES ASSUME MoneyTypes, CallTypes, ReadingTypes, SwitchTypes
             PROVE  MoneyTypes' /\ CallTypes' /\ ReadingTypes' /\ SwitchTypes'
  BY DEF TypeOK, MoneyTypes, CallTypes, ReadingTypes, SwitchTypes
<1> USE BookConfig
    DEF vars, chainVars, moveVars, capitalVars, switchVars, Fault, NoFault, Go, At
<1>1. CASE StartCycle \/ \E p \in Request : StartRequest(p)
  <2>1. \E p \in Proc, place \in Place : Begin(p, place)
    BY <1>1 DEF StartCycle, StartRequest, Proc, Place
  <2> QED
    BY <2>1 DEF Begin, MoneyTypes, CallTypes, ReadingTypes, SwitchTypes
<1>2. CASE Hydrate /\ UNCHANGED capitalVars
  BY <1>2 DEF Hydrate, SwitchIdle, MoneyTypes, CallTypes, ReadingTypes, SwitchTypes
<1>3. CASE CooldownEnds /\ UNCHANGED switchVars
  BY <1>3 DEF CooldownEnds, MoneyTypes, CallTypes, ReadingTypes, SwitchTypes, Cooldown
<1>4. CASE (\E r \in late : LateRunEnds(r) /\ UNCHANGED capitalVars) /\ UNCHANGED switchVars
  <2>1. PICK r \in late : LateRunEnds(r) /\ UNCHANGED capitalVars
    BY <1>4
  <2>2. r.n \in Nat /\ r.flow \in Flow
    BY DEF CallTypes
  <2>3. treasury' \in Nat /\ desk' \in Nat /\ stock' \in Nat
    BY <2>1, <2>2 DEF LateRunEnds, Moved, Short, Covered, Flow, MoneyTypes
  <2> QED
    BY <1>4, <2>1, <2>3 DEF LateRunEnds, MoneyTypes, CallTypes, ReadingTypes, SwitchTypes
<1>5. CASE Restart
  <2>1. \A p \in Proc : Left(p) \in [flow : Flow, n : Nat, by : Proc, id : Nat]
    BY DEF Left, Flow, CallTypes, MoneyTypes
  <2>2. CallTypes'
    BY <1>5, <2>1, Homes DEF Restart, CallTypes
  <2>3. MoneyTypes'
    BY <1>5 DEF Restart, MoneyTypes, Happens, Events
  <2>4. NoBook \in Book
    BY DEF NoBook, Book, Cooldown
  <2>5. ReadingTypes'
    BY <1>5, <2>4 DEF Restart, ReadingTypes
  <2>6. SwitchTypes'
    BY <1>5 DEF Restart, SwitchTypes, SwitchState
  <2> QED
    BY <2>2, <2>3, <2>5, <2>6
<1>6. CASE UNCHANGED vars
  BY <1>6 DEF MoneyTypes, CallTypes, ReadingTypes, SwitchTypes
<1> QED
  BY <1>1, <1>2, <1>3, <1>4, <1>5, <1>6 DEF Outside

\* Every step preserves the types.
LEMMA NextTypes == TypeOK /\ [Next]_vars => TypeOK'
<1> SUFFICES ASSUME TypeOK, [Next]_vars PROVE TypeOK'
  OBVIOUS
<1>1. ASSUME NEW p \in Proc, CallStep(p) PROVE TypeOK'
  BY <1>1, CapitalTypes, KillTypes, TickTypes DEF CallStep
<1> QED
  BY <1>1, OtherTypes DEF Next

\* Every variable has its type.
THEOREM TypeCorrect == Spec => []TypeOK
  BY InitTypes, NextTypes, PTL DEF Spec

-----------------------------------------------------------------------------
(* The switch *)

\* Where a call has armed the switch, or found it armed.
ArmedPlace == {"k_arm_save", "k_mark", "k_trip", "k_run", "k_save", "t_arm_save"}

\* Such a call finds it armed still, so that it saves an armed switch; and what
\* was saved is in the row and, once that is restored, in memory.
SwitchInv ==
  /\ \A p \in Proc : pc[p] \in ArmedPlace => hydrated /= "no" /\ Armed
  /\ \/ "clobbered" \in past
     \/ /\ "saved" \in past => row = "armed"
        /\ (hydrated = "yes" /\ row = "armed") => Armed

\* A step that leaves the switch alone and arms nothing.
LEMMA SwitchQuiet ==
  ASSUME TypeOK, SwitchInv, NEW p \in Proc, NEW place \in Place \ ArmedPlace,
         Go(p, place), UNCHANGED <<switch, hydrated, row>>,
         past \subseteq past', "saved" \in past' => "saved" \in past
  PROVE  SwitchInv'
<1>1. \A q \in Proc : pc'[q] \in ArmedPlace => pc[q] \in ArmedPlace
  BY DEF TypeOK, Go
<1> QED
  BY <1>1 DEF SwitchInv, Armed

\* A run leaves the switch alone.
LEMMA RunKeepsSwitch ==
  ASSUME TypeOK, SwitchInv, NEW p \in Proc, NEW flow,
         NEW next \in Place \ ArmedPlace, NEW noHash \in Place \ ArmedPlace,
         NEW failed \in Place \ ArmedPlace,
         AwaitRun(p, flow, next, noHash, failed), UNCHANGED <<switch, hydrated, row>>
  PROVE  SwitchInv'
<1>1. past \subseteq past' /\ ("saved" \in past' => "saved" \in past)
  BY DEF AwaitRun, Untold, Happens
<1>2. Go(p, next) \/ Go(p, noHash) \/ Go(p, failed)
  BY DEF AwaitRun
<1> QED
  BY <1>1, <1>2, SwitchQuiet

\* The capital tick leaves the switch alone.
LEMMA CapitalKeepsSwitch ==
  ASSUME TypeOK, SwitchInv, NEW p \in Proc, CapitalStep(p), UNCHANGED switchVars
  PROVE  SwitchInv'
<1> DEFINE Quiet == Place \ ArmedPlace
<1>1. UNCHANGED <<switch, hydrated, row>>
  BY DEF CapitalStep, MarkDesk, ReadTreasury, ReadHistory, Decide, SendTopup, VerifyTopup,
         RecordTopup, GuardSweep, RunReturn, RecordReturn, RunUnwind, CapitalIdle, capitalVars,
         switchVars
<1>2. AfterCapital(p) \in Quiet
  BY DEF AfterCapital, Place, ArmedPlace
<1>3. /\ "c_treasury" \in Quiet /\ "c_history" \in Quiet /\ "c_decide" \in Quiet
      /\ "c_send" \in Quiet /\ "c_verify" \in Quiet /\ "c_record_in" \in Quiet
      /\ "c_guard" \in Quiet /\ "c_run" \in Quiet /\ "c_unwind" \in Quiet
      /\ "c_record_out" \in Quiet
  BY DEF Place, ArmedPlace
<1> HIDE DEF Quiet
<1>4. ASSUME NEW place \in Quiet, Go(p, place),
             past \subseteq past', "saved" \in past' => "saved" \in past
      PROVE  SwitchInv'
  BY <1>1, <1>4, SwitchQuiet DEF Quiet
<1>5. CASE MarkDesk(p) \/ ReadTreasury(p) \/ ReadHistory(p)
  BY <1>2, <1>3, <1>4, <1>5 DEF MarkDesk, ReadTreasury, ReadHistory, CapitalIdle, Finish
<1>6. CASE Decide(p)
  BY <1>2, <1>3, <1>4, <1>6 DEF Decide, DecideNormally, DecideFor, DecideForNothing, Finish
<1>7. CASE SendTopup(p)
  <2>1. behind[p] \subseteq Reading
    BY DEF TypeOK
  <2>2. past \subseteq past' /\ ("saved" \in past' => "saved" \in past)
    BY <1>7, <2>1 DEF SendTopup, TopupMoved, Reading
  <2>3. Go(p, "c_verify") \/ Go(p, AfterCapital(p))
    BY <1>7 DEF SendTopup, Finish
  <2> QED
    BY <1>2, <1>3, <1>4, <2>2, <2>3
<1>8. CASE VerifyTopup(p)
  BY <1>2, <1>3, <1>4, <1>8 DEF VerifyTopup, GiveUpTopup, Happens
<1>9. CASE RecordTopup(p) \/ RecordReturn(p)
  BY <1>2, <1>3, <1>4, <1>9 DEF RecordTopup, RecordReturn, Happens
<1>10. CASE GuardSweep(p)
  BY <1>2, <1>3, <1>4, <1>10 DEF GuardSweep
<1>11. CASE RunReturn(p) \/ RunUnwind(p)
  BY <1>1, <1>2, <1>3, <1>11, RunKeepsSwitch DEF RunReturn, RunUnwind, Quiet
<1> QED
  BY <1>5, <1>6, <1>7, <1>8, <1>9, <1>10, <1>11 DEF CapitalStep

\* Arming and tripping keep it, and save an armed switch.
LEMMA KillKeepsSwitch ==
  ASSUME TypeOK, SwitchInv, NEW p \in Proc, SwitchStep(p)
  PROVE  SwitchInv'
<1>1. \A q \in Proc : \A place : Go(p, place) /\ q /= p => pc'[q] = pc[q]
  BY DEF Go, TypeOK
<1>2. ArmedPlace \subseteq Place /\ Home(p) \notin ArmedPlace
  BY DEF ArmedPlace, Place, Home
<1>3. ASSUME Armed', hydrated /= "no", UNCHANGED hydrated, row' \in {row, "armed"},
             NEW place, Go(p, place), past \subseteq past',
             ("saved" \in past' => "saved" \in past) \/ row' = "armed"
      PROVE  SwitchInv'
  BY <1>3 DEF SwitchInv, Armed
<1>4. CASE ArmByRequest(p)
  BY <1>3, <1>4 DEF ArmByRequest, Arm, switchVars, Armed
<1>5. CASE At(p, "k_arm_save") \/ At(p, "k_mark") \/ At(p, "k_trip") \/ At(p, "k_run")
             \/ At(p, "k_save") \/ At(p, "t_arm_save")
  <2>1. Armed /\ hydrated /= "no"
    BY <1>5 DEF SwitchInv, At, ArmedPlace
  <2>2. switch = "armed"
    BY <2>1 DEF Armed
  <2>3. CASE SaveArmByRequest(p)
    <3>1. /\ UNCHANGED <<switch, hydrated>>
          /\ row' \in {row, "armed"}
          /\ Go(p, "k_mark") \/ Go(p, "end")
          /\ past \subseteq past'
      BY <2>2, <2>3 DEF SaveArmByRequest, Persist, Happens
    <3>2. ("saved" \in past' => "saved" \in past) \/ row' = "armed"
      BY <2>2, <2>3 DEF SaveArmByRequest, Persist, Fault, NoFault, TypeOK
    <3> QED
      BY <1>3, <2>1, <3>1, <3>2 DEF Armed
  <2>4. CASE SaveArm(p) \/ SaveTripped(p)
    BY <1>3, <2>1, <2>2, <2>4 DEF SaveArm, SaveTripped, Persist, Armed
  <2>5. CASE MarkForTrip(p)
    BY <1>3, <2>1, <2>5 DEF MarkForTrip, Armed
  <2>6. CASE SaveTrip(p)
    BY <1>3, <2>1, <2>2, <2>6 DEF SaveTrip, Armed
  <2>7. CASE RunTrip(p)
    <3>1. past \subseteq past' /\ ("saved" \in past' => "saved" \in past)
      BY <2>7 DEF RunTrip, AwaitRun, Untold, Happens
    <3>2. Go(p, "k_save") \/ Go(p, Home(p))
      BY <2>7 DEF RunTrip, AwaitRun
    <3> QED
      BY <1>3, <2>1, <2>7, <3>1, <3>2 DEF RunTrip, switchVars, Armed
  <2>8. ~At(p, "k_arm") /\ ~At(p, "t_evaluate")
    BY <1>5 DEF At
  <2> QED
    BY <2>3, <2>4, <2>5, <2>6, <2>7, <2>8 DEF SwitchStep, ArmByRequest, Evaluate
<1>6. CASE Evaluate(p)
  <2>1. CASE Armed'
    BY <1>3, <1>6, <2>1 DEF Evaluate, Armed
  <2>2. CASE ~Armed'
    <3>1. Go(p, Home(p)) /\ UNCHANGED <<switch, hydrated, row, past>>
      BY <1>6, <2>2 DEF Evaluate, Armed
    <3> QED
      BY <1>2, <3>1, Homes, SwitchQuiet
  <2> QED
    BY <2>1, <2>2
<1> QED
  BY <1>4, <1>5, <1>6 DEF SwitchStep, SaveArmByRequest, MarkForTrip, SaveArm, SaveTrip,
                           RunTrip, SaveTripped

\* The desk tick keeps it, or clobbers the row.
LEMMA TickKeepsSwitch ==
  ASSUME TypeOK, SwitchInv, NEW p \in Proc, TickStep(p)
  PROVE  SwitchInv'
<1> DEFINE Quiet == Place \ ArmedPlace
<1>1. /\ "t_mark" \in Quiet /\ "t_gate" \in Quiet /\ "t_evaluate" \in Quiet
      /\ "t_trade" \in Quiet /\ "t_note_read" \in Quiet /\ "t_touch_read" \in Quiet
      /\ Home(p) \in Quiet
  BY DEF Place, ArmedPlace, Home
<1>2. ReadingRow(p) \/ WritingRow(p) => Then(pc[p]) \in Quiet /\ AfterNote(pc[p]) \in Quiet
  BY DEF ReadingRow, WritingRow, Then, AfterNote, Place, ArmedPlace
<1> HIDE DEF Quiet
<1>3. CASE UNCHANGED <<switch, hydrated, row, past>>
  <2>1. \E place \in Quiet : Go(p, place)
    BY <1>1, <1>2 DEF TickStep, TouchHeartbeat, MarkForTick, PassGate, Trade, ReadRow, WriteRow
  <2> QED
    BY <1>3, <2>1, SwitchQuiet DEF Quiet
<1>4. CASE ~UNCHANGED <<switch, hydrated, row, past>>
  <2>1. WriteRow(p)
    BY <1>4 DEF TickStep, TouchHeartbeat, MarkForTick, PassGate, Trade, ReadRow, TickIdle
  <2>2. Go(p, Then(pc[p])) /\ Then(pc[p]) \in Quiet /\ UNCHANGED <<switch, hydrated>>
    BY <1>2, <2>1 DEF WriteRow
  <2>3. Happens("clobbered")
    BY <1>4, <2>1 DEF WriteRow
  <2>4. \A q \in Proc : pc'[q] \in ArmedPlace => pc[q] \in ArmedPlace
    BY <2>2 DEF TypeOK, Go, Quiet
  <2> QED
    BY <2>2, <2>3, <2>4 DEF SwitchInv, Armed, Happens
<1> QED
  BY <1>3, <1>4

\* Every step keeps it.
LEMMA NextSwitch == TypeOK /\ SwitchInv /\ [Next]_vars => SwitchInv'
<1> SUFFICES ASSUME TypeOK, SwitchInv, [Next]_vars PROVE SwitchInv'
  OBVIOUS
<1>1. CASE StartCycle \/ \E p \in Request : StartRequest(p)
  <2>1. \E p \in Proc, place \in Place \ ArmedPlace : Begin(p, place)
    BY <1>1 DEF StartCycle, StartRequest, Proc, Place, ArmedPlace
  <2> QED
    BY <2>1, SwitchQuiet DEF Begin, switchVars
<1>2. ASSUME NEW p \in Proc, CallStep(p) PROVE SwitchInv'
  BY <1>2, CapitalKeepsSwitch, KillKeepsSwitch, TickKeepsSwitch DEF CallStep
<1>3. CASE Hydrate /\ UNCHANGED capitalVars
  BY <1>3 DEF Hydrate, SwitchInv, Armed
<1>4. CASE Outside \/ UNCHANGED vars
  BY <1>4 DEF Outside, CooldownEnds, LateRunEnds, SwitchInv, Armed, vars, switchVars
<1>5. CASE Restart
  <2>1. \A p \in Proc : pc'[p] \notin ArmedPlace
    BY <1>5 DEF Restart, Ending, Home, ArmedPlace, TypeOK
  <2>2. past' = past \/ past' = past \union {"untold"}
    BY <1>5 DEF Restart, Happens
  <2> QED
    BY <1>5, <2>1, <2>2 DEF Restart, SwitchInv
<1> QED
  BY <1>1, <1>2, <1>3, <1>4, <1>5 DEF Next

\* A kill switch that was saved as armed is armed in every process that could
\* read it, unless the desk tick overwrote its row.
THEOREM SwitchKept == Spec => []SwitchSurvives
<1>1. Init => SwitchInv
  BY DEF Init, BookInit, SwitchInit, SwitchInv, ArmedPlace
<1>2. SwitchInv => SwitchSurvives
  BY DEF SwitchInv, SwitchSurvives
<1> QED
  BY <1>1, <1>2, InitTypes, NextTypes, NextSwitch, PTL DEF Spec

-----------------------------------------------------------------------------
(* The limits *)

\* Where a call relies on what it has read.
Careful == {"c_treasury", "c_history", "c_decide", "c_send"}

\* A reading no top-up has outdated still errs on the careful side, since
\* nothing but a top-up lowers the treasury or raises the desk's equity; a
\* top-up decided on it keeps the limit.
Cautious(p) ==
  /\ (pc[p] \in {"c_history", "c_decide"} /\ "treasury" \notin behind[p])
       => book[p].treasury <= treasury
  /\ (pc[p] = "c_send" /\ "treasury" \notin behind[p]) => treasury >= Reserve + Chunk
  /\ (pc[p] \in {"c_treasury", "c_history", "c_decide"} /\ "equity" \notin behind[p])
       => BookEquity(book[p]) >= Equity
  /\ (pc[p] = "c_send" /\ "equity" \notin behind[p]) => Equity + Chunk <= MaxAum

Limits ==
  /\ treasury >= Reserve \/ "treasury" \in past
  /\ Equity <= MaxAum \/ "equity" \in past

LimitInv == Limits /\ \A p \in Proc : Cautious(p)

\* Money is counted in whole units.
LEMMA Units ==
  /\ TypeOK => treasury \in Nat /\ desk \in Nat /\ stock \in Nat /\ Equity \in Nat
  /\ TypeOK' => treasury' \in Nat /\ desk' \in Nat /\ stock' \in Nat /\ Equity' \in Nat
<1>1. TypeOK => treasury \in Nat /\ desk \in Nat /\ stock \in Nat
  BY DEF TypeOK
<1>2. TypeOK' => treasury' \in Nat /\ desk' \in Nat /\ stock' \in Nat
  BY DEF TypeOK
<1> QED
  BY <1>1, <1>2 DEF Equity

\* Money that only goes back keeps the limits.
LEMMA LimitsQuiet ==
  ASSUME TypeOK, TypeOK', Limits, treasury' >= treasury, Equity' <= Equity, past \subseteq past'
  PROVE  Limits'
<1>1. treasury \in Nat /\ treasury' \in Nat /\ Equity \in Nat /\ Equity' \in Nat
  BY Units
<1>2. Reserve \in Nat /\ MaxAum \in Nat
  BY CapitalConfig
<1> HIDE DEF Equity
<1> QED
  BY <1>1, <1>2 DEF Limits

\* And the caution of a call that does not move.
LEMMA CautionQuiet ==
  ASSUME TypeOK, TypeOK', NEW q \in Proc, Cautious(q),
         treasury' >= treasury, Equity' <= Equity,
         \/ pc'[q] \notin Careful
         \/ pc'[q] = pc[q] /\ book'[q] = book[q] /\ behind'[q] = behind[q]
  PROVE  Cautious(q)'
<1>1. CASE pc'[q] \notin Careful
  BY <1>1 DEF Cautious, Careful
<1>2. CASE pc'[q] = pc[q] /\ book'[q] = book[q] /\ behind'[q] = behind[q]
  <2>1. book[q].treasury \in Nat /\ BookEquity(book[q]) \in Nat /\ BookEquity(book[q])' = BookEquity(book[q])
    BY <1>2 DEF TypeOK, Book, BookEquity
  <2>2. treasury \in Nat /\ treasury' \in Nat /\ Equity \in Nat /\ Equity' \in Nat
    BY Units
  <2>3. Reserve \in Nat /\ MaxAum \in Nat /\ Chunk \in Nat
    BY CapitalConfig
  <2>4. ASSUME pc'[q] \in {"c_history", "c_decide"}, "treasury" \notin behind'[q]
        PROVE  book'[q].treasury <= treasury'
    <3>1. book[q].treasury <= treasury
      BY <1>2, <2>4 DEF Cautious
    <3> QED
      BY <1>2, <2>1, <2>2, <3>1
  <2>5. ASSUME pc'[q] = "c_send", "treasury" \notin behind'[q]
        PROVE  treasury' >= Reserve + Chunk
    <3>1. treasury >= Reserve + Chunk
      BY <1>2, <2>5 DEF Cautious
    <3> QED
      BY <2>2, <2>3, <3>1
  <2>6. ASSUME pc'[q] \in {"c_treasury", "c_history", "c_decide"}, "equity" \notin behind'[q]
        PROVE  BookEquity(book[q])' >= Equity'
    <3>1. BookEquity(book[q]) >= Equity
      BY <1>2, <2>6 DEF Cautious
    <3> QED
      BY <2>1, <2>2, <3>1
  <2>7. ASSUME pc'[q] = "c_send", "equity" \notin behind'[q]
        PROVE  Equity' + Chunk <= MaxAum
    <3>1. Equity + Chunk <= MaxAum
      BY <1>2, <2>7 DEF Cautious
    <3>2. \A a, b \in Nat : (a <= b /\ b + Chunk <= MaxAum) => a + Chunk <= MaxAum
      BY <2>3
    <3> QED
      BY <2>2, <3>1, <3>2
  <2> QED
    BY <2>4, <2>5, <2>6, <2>7 DEF Cautious
<1> QED
  BY <1>1, <1>2

\* A step of one call that leaves the money, or sends it back, and relies on
\* nothing afterwards.
LEMMA LimitQuiet ==
  ASSUME TypeOK, TypeOK', LimitInv, treasury' >= treasury, Equity' <= Equity,
         past \subseteq past',
         \A q \in Proc : \/ pc'[q] \notin Careful
                         \/ pc'[q] = pc[q] /\ book'[q] = book[q] /\ behind'[q] = behind[q]
  PROVE  LimitInv'
  BY LimitsQuiet, CautionQuiet DEF LimitInv

\* A transfer or a run sends money back, or moves it within the desk.
LEMMA MovedBack ==
  ASSUME TypeOK, NEW flow \in Flow, NEW n \in Nat, Moved(flow, n)
  PROVE  treasury' >= treasury /\ Equity' <= Equity
  BY DEF Moved, Covered, Flow, TypeOK, Equity

\* So does a run, whatever its caller hears of it.
LEMMA RunKeepsLimits ==
  ASSUME TypeOK, TypeOK', LimitInv, NEW p \in Proc, NEW flow \in Flow,
         NEW next \in Place \ Careful, NEW noHash \in Place \ Careful,
         NEW failed \in Place \ Careful,
         AwaitRun(p, flow, next, noHash, failed), UNCHANGED <<book, behind>>
  PROVE  LimitInv'
<1>1. amount[p] \in Nat
  BY DEF TypeOK
<1>2. Moved(flow, amount[p]) \/ UNCHANGED chainVars
  BY DEF AwaitRun, Short
<1>3. treasury' >= treasury /\ Equity' <= Equity
  <2>1. treasury >= treasury /\ Equity <= Equity
    BY Units
  <2> QED
    BY <1>1, <1>2, <2>1, MovedBack DEF chainVars, Equity
<1>4. past \subseteq past'
  BY DEF AwaitRun, Untold, Happens
<1>5. Go(p, next) \/ Go(p, noHash) \/ Go(p, failed)
  BY DEF AwaitRun
<1>6. \A q \in Proc : pc'[q] \notin Careful \/ pc'[q] = pc[q]
  BY <1>5 DEF Go, TypeOK
<1> QED
  BY <1>3, <1>4, <1>6, LimitQuiet

\* A call that goes on to a place, and the other calls.
LEMMA OthersStay ==
  ASSUME TypeOK, NEW p \in Proc, NEW place, Go(p, place)
  PROVE  pc'[p] = place /\ \A q \in Proc \ {p} : pc'[q] = pc[q]
  BY DEF Go, TypeOK

\* A step of one call that does not move money and after which it relies on
\* what it has good reason to.
LEMMA LimitRead ==
  ASSUME TypeOK, TypeOK', LimitInv, NEW p \in Proc, NEW place, Go(p, place),
         UNCHANGED <<treasury, desk, stock>>, past \subseteq past',
         \A q \in Proc \ {p} : book'[q] = book[q] /\ behind'[q] = behind[q],
         Cautious(p)'
  PROVE  LimitInv'
<1>1. treasury' >= treasury /\ Equity' <= Equity
  BY DEF TypeOK, Equity
<1>2. Limits'
  BY <1>1, LimitsQuiet DEF LimitInv
<1>3. \A q \in Proc \ {p} : Cautious(q)'
  BY <1>1, OthersStay, CautionQuiet DEF LimitInv
<1> QED
  BY <1>2, <1>3 DEF LimitInv

\* A call that relies on nothing is cautious.
LEMMA Careless ==
  ASSUME NEW p \in Proc, pc'[p] \notin Careful
  PROVE  Cautious(p)'
  BY DEF Cautious, Careful

\* The capital tick's readings.
LEMMA ReadingKeepsLimits ==
  ASSUME TypeOK, TypeOK', LimitInv, NEW p \in Proc,
         MarkDesk(p) \/ ReadTreasury(p) \/ ReadHistory(p)
  PROVE  LimitInv'
<1>1. AfterCapital(p) \notin Careful
  BY DEF AfterCapital, Careful
<1>2. UNCHANGED <<treasury, desk, stock, past>>
  BY DEF MarkDesk, ReadTreasury, ReadHistory, CapitalIdle, moveVars, chainVars
<1>3. UNCHANGED Equity
  BY <1>2 DEF Equity
<1>4. \A q \in Proc \ {p} : book'[q] = book[q] /\ behind'[q] = behind[q]
  BY DEF MarkDesk, ReadTreasury, ReadHistory, Finish, TypeOK
<1>5. \E place : Go(p, place)
  BY DEF MarkDesk, ReadTreasury, ReadHistory, Finish
<1>6. Cautious(p)
  BY DEF LimitInv
<1>7. Cautious(p)'
  <2>1. CASE MarkDesk(p)
    <3>1. pc'[p] = "c_treasury"
      BY <2>1, OthersStay DEF MarkDesk
    <3>2. CASE behind'[p] = {"equity"}
      BY <3>1, <3>2 DEF Cautious
    <3>3. CASE book'[p] = [NoBook EXCEPT !.free = desk, !.stock = stock]
      <4>1. BookEquity(book[p])' = Equity
        BY <3>3 DEF BookEquity, NoBook, Equity
      <4>2. Equity' >= Equity' /\ Equity \in Nat
        BY Units
      <4> QED
        BY <1>3, <3>1, <4>1, <4>2 DEF Cautious
    <3> QED
      BY <2>1, <3>2, <3>3 DEF MarkDesk, TypeOK
  <2>2. CASE ReadTreasury(p)
    <3>1. CASE Go(p, "c_history") /\ book' = [book EXCEPT ![p].treasury = treasury] /\ UNCHANGED behind
      <4>1. pc[p] = "c_treasury" /\ pc'[p] = "c_history"
        BY <2>2, <3>1, OthersStay DEF ReadTreasury, At
      <4>2. book'[p] = [book[p] EXCEPT !.treasury = treasury]
        BY <3>1 DEF TypeOK
      <4>3. book'[p].treasury = treasury /\ BookEquity(book[p])' = BookEquity(book[p])
        BY <4>2 DEF BookEquity, TypeOK, Book
      <4>4. treasury <= treasury
        BY DEF TypeOK
      <4> QED
        BY <1>2, <1>3, <1>6, <3>1, <4>1, <4>3, <4>4 DEF Cautious
    <3>2. CASE Finish(p)
      BY <1>1, <3>2, OthersStay, Careless DEF Finish
    <3> QED
      BY <2>2, <3>1, <3>2 DEF ReadTreasury
  <2>3. CASE ReadHistory(p)
    <3>1. CASE Go(p, "c_decide") /\ book' = [book EXCEPT ![p].cooldown = cooldown] /\ UNCHANGED behind
      <4>1. pc[p] = "c_history" /\ pc'[p] = "c_decide"
        BY <2>3, <3>1, OthersStay DEF ReadHistory, At
      <4>2. book'[p] = [book[p] EXCEPT !.cooldown = cooldown]
        BY <3>1 DEF TypeOK
      <4>3. book'[p].treasury = book[p].treasury /\ BookEquity(book[p])' = BookEquity(book[p])
        BY <4>2 DEF BookEquity, TypeOK, Book
      <4> QED
        BY <1>2, <1>3, <1>6, <3>1, <4>1, <4>3 DEF Cautious
    <3>2. CASE Finish(p)
      BY <1>1, <3>2, OthersStay, Careless DEF Finish
    <3> QED
      BY <2>3, <3>1, <3>2 DEF ReadHistory
  <2> QED
    BY <2>1, <2>2, <2>3
<1> QED
  BY <1>2, <1>4, <1>5, <1>7, LimitRead

\* The decision for a top-up is made within the limits as they were read.
LEMMA DecisionKeepsLimits ==
  ASSUME TypeOK, TypeOK', LimitInv, NEW p \in Proc, Decide(p)
  PROVE  LimitInv'
<1>1. AfterCapital(p) \notin Careful /\ "c_run" \notin Careful /\ "c_guard" \notin Careful
        /\ "c_unwind" \notin Careful
  BY DEF AfterCapital, Careful
<1>2. UNCHANGED <<treasury, desk, stock, past>> /\ UNCHANGED Equity
  BY DEF Decide, moveVars, chainVars, Equity
<1>3. \/ DecideForNothing(p)
      \/ \E n, place : DecideFor(p, place, n) /\ (place \notin Careful \/ TopupDue(book[p]))
  BY <1>1 DEF Decide, DecideNormally
<1>4. \A q \in Proc \ {p} : book'[q] = book[q] /\ behind'[q] = behind[q]
  BY <1>3 DEF DecideForNothing, DecideFor, Finish, TypeOK
<1>5. \E place : Go(p, place)
  BY <1>3 DEF DecideForNothing, DecideFor, Finish
<1>6. Cautious(p) /\ pc[p] = "c_decide"
  BY DEF LimitInv, Decide, At
<1>7. Cautious(p)'
  <2>1. CASE pc'[p] \notin Careful
    BY <2>1, Careless
  <2>2. CASE pc'[p] \in Careful
    <3>1. PICK place : Go(p, place) /\ UNCHANGED behind /\ (place \notin Careful \/ TopupDue(book[p]))
                       /\ place \in {"c_send", "c_run", "c_guard", "c_unwind"}
      <4>1. ~DecideForNothing(p)
        BY <1>1, <2>2, OthersStay DEF DecideForNothing, Finish
      <4> QED
        BY <4>1, <1>1 DEF Decide, DecideNormally, DecideFor
    <3>2. pc'[p] = place /\ place = "c_send" /\ TopupDue(book[p])
      BY <1>1, <2>2, <3>1, OthersStay DEF Careful
    <3>3. book[p].treasury >= Reserve + Chunk /\ BookEquity(book[p]) + Chunk <= MaxAum
      BY <3>2 DEF TopupDue
    <3>4. book[p].treasury \in Nat /\ BookEquity(book[p]) \in Nat /\ treasury \in Nat /\ Equity \in Nat
      BY DEF TypeOK, Book, BookEquity, Equity
    <3>5. "treasury" \notin behind[p] => treasury >= Reserve + Chunk
      BY <1>6, <3>3, <3>4, CapitalConfig DEF Cautious
    <3>6. "equity" \notin behind[p] => Equity + Chunk <= MaxAum
      BY <1>6, <3>3, <3>4, CapitalConfig DEF Cautious
    <3> QED
      BY <1>2, <3>1, <3>2, <3>5, <3>6 DEF Cautious
  <2> QED
    BY <2>1, <2>2
<1> QED
  BY <1>2, <1>4, <1>5, <1>7, LimitRead

\* A top-up outdates what the others have read, and passes a limit only when it
\* was decided on what another had outdated.
LEMMA TopupKeepsLimits ==
  ASSUME TypeOK, TypeOK', LimitInv, NEW p \in Proc, SendTopup(p)
  PROVE  LimitInv'
<1>1. AfterCapital(p) \notin Careful /\ "c_verify" \notin Careful
  BY DEF AfterCapital, Careful
<1>2. PICK place : Go(p, place) /\ place \notin Careful
  BY <1>1 DEF SendTopup, Finish
<1>3. Cautious(p)'
  BY <1>2, OthersStay, Careless
<1>4. CASE UNCHANGED chainVars /\ past' = past
  <2>1. \A q \in Proc \ {p} : book'[q] = book[q] /\ behind'[q] = behind[q]
    <3>1. \/ book' = [book EXCEPT ![p] = NoBook] /\ behind' = [behind EXCEPT ![p] = {}]
          \/ book' = book /\ behind' = [behind EXCEPT ![p] = {}]
          \/ \E lost : TopupMoved(p, lost)
      BY DEF SendTopup, Finish
    <3>2. ~ \E lost : TopupMoved(p, lost)
      BY <1>4, Units, CapitalConfig DEF TopupMoved, chainVars
    <3> QED
      BY <3>1, <3>2 DEF TypeOK
  <2> QED
    BY <1>2, <1>3, <1>4, <2>1, LimitRead DEF chainVars
<1>5. CASE \E lost : TopupMoved(p, lost)
  <2>1. /\ treasury' = treasury - Chunk /\ desk' = desk + Chunk /\ stock' = stock
        /\ past \union behind[p] \subseteq past'
        /\ \A q \in Proc : behind'[q] = IF q = p THEN {} ELSE behind[q] \union Reads(q)
    BY <1>5 DEF TopupMoved
  <2>2. Cautious(p) /\ pc[p] = "c_send" /\ Limits
    BY DEF LimitInv, SendTopup, At
  <2>3. Reserve \in Nat /\ MaxAum \in Nat /\ Chunk \in Nat
    BY CapitalConfig
  <2>4. treasury' >= Reserve \/ "treasury" \in past'
    <3>1. CASE "treasury" \in behind[p]
      BY <2>1, <3>1
    <3>2. CASE "treasury" \notin behind[p]
      <4>1. treasury >= Reserve + Chunk
        BY <2>2, <3>2 DEF Cautious
      <4> QED
        BY <2>1, <2>3, <4>1, Units
    <3> QED
      BY <3>1, <3>2
  <2>5. Equity' <= MaxAum \/ "equity" \in past'
    <3>1. CASE "equity" \in behind[p]
      BY <2>1, <3>1
    <3>2. CASE "equity" \notin behind[p]
      <4>1. Equity + Chunk <= MaxAum
        BY <2>2, <3>2 DEF Cautious
      <4>2. Equity' = Equity + Chunk
        BY <2>1, <2>3, Units DEF Equity
      <4> QED
        BY <4>1, <4>2
    <3> QED
      BY <3>1, <3>2
  <2>6. ASSUME NEW q \in Proc \ {p} PROVE Cautious(q)'
    <3>1. pc'[q] = pc[q]
      BY <1>2, OthersStay
    <3>2. Reads(q) \subseteq behind'[q]
      BY <2>1
    <3>3. /\ pc'[q] \in {"c_history", "c_decide", "c_send"} => "treasury" \in behind'[q]
          /\ pc'[q] \in Careful => "equity" \in behind'[q]
      BY <3>1, <3>2 DEF Reads, Reading, Careful
    <3> QED
      BY <3>3 DEF Cautious, Careful
  <2> QED
    BY <1>3, <2>4, <2>5, <2>6 DEF LimitInv, Limits
<1> QED
  BY <1>4, <1>5 DEF SendTopup, chainVars

\* Every other step of a call leaves the money or sends it back.
LEMMA CallKeepsLimits ==
  ASSUME TypeOK, TypeOK', LimitInv, NEW p \in Proc, CallStep(p)
  PROVE  LimitInv'
<1> DEFINE Quiet == Place \ Careful
<1>1. /\ AfterCapital(p) \in Quiet /\ Home(p) \in Quiet
      /\ "c_verify" \in Quiet /\ "c_record_in" \in Quiet /\ "c_run" \in Quiet
      /\ "c_record_out" \in Quiet
      /\ "k_arm_save" \in Quiet /\ "k_mark" \in Quiet /\ "end" \in Quiet
      /\ "k_trip" \in Quiet /\ "k_run" \in Quiet /\ "k_save" \in Quiet /\ "t_arm_save" \in Quiet
      /\ "t_mark" \in Quiet /\ "t_gate" \in Quiet /\ "t_evaluate" \in Quiet
      /\ "t_trade" \in Quiet /\ "t_note_read" \in Quiet /\ "t_touch_read" \in Quiet
  BY DEF AfterCapital, Home, Careful, Place
<1>2. ReadingRow(p) \/ WritingRow(p) => Then(pc[p]) \in Quiet /\ AfterNote(pc[p]) \in Quiet
  BY DEF ReadingRow, WritingRow, Then, AfterNote, Place, Careful
<1> HIDE DEF Quiet
<1>3. ASSUME NEW place \in Quiet, Go(p, place), UNCHANGED <<book, behind>>,
             treasury' = treasury, Equity' = Equity, past \subseteq past'
      PROVE  LimitInv'
  <2>1. treasury' >= treasury /\ Equity' <= Equity
    BY <1>3, Units
  <2>2. \A q \in Proc : pc'[q] \notin Careful \/ pc'[q] = pc[q]
    BY <1>3, OthersStay DEF Quiet
  <2> QED
    BY <1>3, <2>1, <2>2, LimitQuiet
<1>4. CASE CapitalStep(p) /\ UNCHANGED switchVars
  <2>1. CASE VerifyTopup(p)
    BY <1>1, <1>3, <2>1 DEF VerifyTopup, GiveUpTopup, Happens, chainVars, capitalVars, Equity
  <2>2. CASE RecordTopup(p) \/ RecordReturn(p)
    BY <1>1, <1>3, <2>2 DEF RecordTopup, RecordReturn, Happens, chainVars, capitalVars, Equity
  <2>3. CASE GuardSweep(p)
    BY <1>1, <1>3, <2>3 DEF GuardSweep, moveVars, chainVars, capitalVars, Equity
  <2>4. CASE RunReturn(p) \/ RunUnwind(p)
    <3>1. "return" \in Flow /\ "unwind" \in Flow
      BY DEF Flow
    <3> QED
      BY <1>1, <2>4, <3>1, RunKeepsLimits DEF RunReturn, RunUnwind, capitalVars, Quiet
  <2> QED
    BY <1>4, <2>1, <2>2, <2>3, <2>4, ReadingKeepsLimits, DecisionKeepsLimits, TopupKeepsLimits
    DEF CapitalStep
<1>5. CASE SwitchStep(p) /\ UNCHANGED capitalVars
  <2>1. CASE RunTrip(p)
    <3>1. "return" \in Flow
      BY DEF Flow
    <3> QED
      BY <1>1, <1>5, <2>1, <3>1, RunKeepsLimits DEF RunTrip, capitalVars, Quiet
  <2>2. CASE ArmByRequest(p) \/ MarkForTrip(p) \/ Evaluate(p)
    BY <1>1, <1>3, <1>5, <2>2
    DEF ArmByRequest, Arm, MarkForTrip, Evaluate, SwitchIdle, moveVars, chainVars, capitalVars, Equity
  <2>3. CASE SaveArmByRequest(p) \/ SaveArm(p) \/ SaveTripped(p)
    BY <1>1, <1>3, <1>5, <2>3
    DEF SaveArmByRequest, SaveArm, SaveTripped, Persist, SwitchIdle, Happens, moveVars, chainVars,
        capitalVars, Equity
  <2>4. CASE SaveTrip(p)
    BY <1>1, <1>3, <1>5, <2>4 DEF SaveTrip, moveVars, chainVars, capitalVars, Equity
  <2> QED
    BY <1>5, <2>1, <2>2, <2>3, <2>4 DEF SwitchStep
<1>6. CASE TickStep(p)
  <2>1. CASE Trade(p)
    <3>1. treasury' = treasury /\ Equity' = Equity
      BY <2>1, Units DEF Trade, Equity
    <3> QED
      BY <1>1, <1>3, <2>1, <3>1 DEF Trade, TickIdle, capitalVars
  <2>2. CASE TouchHeartbeat(p) \/ MarkForTick(p) \/ PassGate(p) \/ ReadRow(p)
    BY <1>1, <1>2, <1>3, <2>2
    DEF TouchHeartbeat, MarkForTick, PassGate, ReadRow, TickIdle, moveVars, chainVars, capitalVars,
        Equity
  <2>3. CASE WriteRow(p)
    BY <1>2, <1>3, <2>3 DEF WriteRow, Happens, moveVars, chainVars, capitalVars, Equity
  <2> QED
    BY <1>6, <2>1, <2>2, <2>3 DEF TickStep
<1> QED
  BY <1>4, <1>5, <1>6 DEF CallStep

\* Every step keeps the limits.
LEMMA NextLimits == TypeOK /\ TypeOK' /\ LimitInv /\ [Next]_vars => LimitInv'
<1> SUFFICES ASSUME TypeOK, TypeOK', LimitInv, [Next]_vars PROVE LimitInv'
  OBVIOUS
<1>1. treasury >= treasury /\ Equity <= Equity
  BY Units
<1>2. CASE StartCycle \/ \E p \in Request : StartRequest(p)
  <2>1. PICK p \in Proc, place \in {"c_mark", "t_heartbeat", "k_arm"} : Begin(p, place)
    BY <1>2 DEF StartCycle, StartRequest, Proc
  <2>2. pc'[p] \notin Careful /\ \A q \in Proc \ {p} : pc'[q] = pc[q]
    BY <2>1, OthersStay DEF Begin, Careful
  <2> QED
    BY <1>1, <2>1, <2>2, LimitQuiet DEF Begin, moveVars, chainVars, capitalVars, Equity
<1>3. CASE UNCHANGED <<treasury, desk, stock, pc, past, book, behind>>
  BY <1>1, <1>3, LimitQuiet DEF Equity
<1>4. CASE \E r \in late : LateRunEnds(r) /\ UNCHANGED capitalVars
  <2>1. PICK r \in late : LateRunEnds(r) /\ UNCHANGED capitalVars
    BY <1>4
  <2>2. r.flow \in Flow /\ r.n \in Nat
    BY DEF TypeOK
  <2>3. Moved(r.flow, r.n) \/ UNCHANGED chainVars
    BY <2>1 DEF LateRunEnds, Short
  <2>4. treasury' >= treasury /\ Equity' <= Equity
    BY <1>1, <2>2, <2>3, MovedBack DEF chainVars, Equity
  <2> QED
    BY <2>1, <2>4, LimitQuiet DEF LateRunEnds, capitalVars
<1>5. CASE Restart
  <2>1. \A q \in Proc : pc'[q] \notin Careful
    BY <1>5 DEF Restart, Ending, Home, Careful, TypeOK
  <2>2. past \subseteq past' /\ UNCHANGED <<treasury, desk, stock>>
    BY <1>5 DEF Restart, Happens, chainVars
  <2> QED
    BY <1>1, <2>1, <2>2, LimitQuiet DEF Equity
<1>6. CASE Hydrate /\ UNCHANGED capitalVars
  BY <1>3, <1>6 DEF Hydrate, SwitchIdle, moveVars, chainVars, capitalVars
<1>7. CASE Outside
  BY <1>3, <1>4, <1>7 DEF Outside, CooldownEnds, moveVars, chainVars
<1>8. CASE UNCHANGED vars
  BY <1>3, <1>8 DEF vars, moveVars, chainVars, capitalVars
<1> QED
  BY <1>2, <1>5, <1>6, <1>7, <1>8, CallKeepsLimits DEF Next

\* The limits hold, unless a top-up was decided on an outdated reading.
LEMMA LimitsHold == Spec => []Limits
<1>1. Init => LimitInv
  <2> SUFFICES ASSUME Init PROVE LimitInv
    OBVIOUS
  <2>1. treasury = Funds /\ desk = 0 /\ stock = 0
    BY DEF Init, BookInit
  <2>2. Equity = 0
    BY <2>1 DEF Equity
  <2>3. Limits
    BY <2>1, <2>2, CapitalConfig, BookConfig DEF Limits
  <2>4. \A p \in Proc : pc[p] = "idle"
    BY DEF Init, BookInit
  <2> QED
    BY <2>3, <2>4 DEF LimitInv, Cautious
<1>2. LimitInv => Limits
  BY DEF LimitInv
<1>3. TypeOK /\ LimitInv /\ [Next]_vars => LimitInv'
  BY NextTypes, NextLimits
<1> QED
  BY <1>1, <1>2, <1>3, InitTypes, NextTypes, PTL DEF Spec

\* The treasury keeps its reserve, unless a top-up was decided on a balance that
\* another had outdated.
THEOREM ReserveKept == Spec => []ReserveExplained
<1>1. TypeOK /\ Limits => ReserveExplained
  BY Units, CapitalConfig DEF Limits, ReserveExplained
<1> QED
  BY <1>1, LimitsHold, TypeCorrect, PTL

\* The desk keeps its maximum, unless a top-up was decided on a mark that had
\* failed or that another had outdated.
THEOREM AumKept == Spec => []AumExplained
<1>1. TypeOK /\ Limits => AumExplained
  BY Units, CapitalConfig DEF Limits, AumExplained
<1> QED
  BY <1>1, LimitsHold, TypeCorrect, PTL

-----------------------------------------------------------------------------
(* The books *)

\* The units on their way from the treasury's books to the desk's, and back:
\* they have moved on chain, and the row that tells of them is still to come.
UnitsOf(p)  == {<<p, k>> : k \in 1 .. amount[p]}
GoingIn    == UNION {UnitsOf(p) : p \in paid}
Returning  == {p \in Proc : pc[p] = "c_record_out"}
ComingOut  == UNION {UnitsOf(p) : p \in Returning}

\* The calls with a good transfer are about to verify or to record it.
PaidPlaces ==
  /\ \A p \in paid : pc[p] \in {"c_verify", "c_record_in"}
  /\ \A p \in Proc : pc[p] = "c_record_in" => p \in paid
  /\ \A p \in Proc : pc[p] = "c_send" => amount[p] = Chunk

Accounts ==
  /\ \A r \in late : r.flow = "unwind"
  /\ IsFiniteSet(GoingIn) /\ IsFiniteSet(ComingOut)
  /\ treasury + booked + Cardinality(GoingIn) = Funds + Cardinality(ComingOut)

BookInv == PaidPlaces /\ ("untold" \notin past => Accounts)

\* The units of one call are as many as it moves.
LEMMA UnitsOfOne ==
  ASSUME NEW x, NEW n \in Nat
  PROVE  /\ IsFiniteSet({<<x, k>> : k \in 1 .. n})
         /\ Cardinality({<<x, k>> : k \in 1 .. n}) = n
<1> DEFINE T == {<<x, k>> : k \in 1 .. n}
           f == [k \in 1 .. n |-> <<x, k>>]
<1>1. IsFiniteSet(1 .. n) /\ Cardinality(1 .. n) = n
  BY FS_Interval
<1>2. f \in Bijection(1 .. n, T)
  <2>1. f \in [1 .. n -> T]
    OBVIOUS
  <2>2. \A a, b \in 1 .. n : f[a] = f[b] => a = b
    OBVIOUS
  <2>3. \A t \in T : \E a \in 1 .. n : f[a] = t
    OBVIOUS
  <2> QED
    BY <2>1, <2>2, <2>3 DEF Bijection, Injection, Surjection, IsInjective
<1>3. ExistsBijection(1 .. n, T)
  BY <1>2 DEF ExistsBijection
<1> QED
  BY <1>1, <1>3, FS_Bijection

\* So they are for a call at work.
LEMMA UnitsOfCall ==
  ASSUME TypeOK, NEW p \in Proc
  PROVE  /\ IsFiniteSet(UnitsOf(p)) /\ Cardinality(UnitsOf(p)) = amount[p]
         /\ amount[p] \in Nat
<1>1. amount[p] \in Nat
  BY DEF TypeOK
<1> QED
  BY <1>1, UnitsOfOne DEF UnitsOf

\* Units that are apart are counted one after the other.
LEMMA CountedApart ==
  ASSUME NEW S, NEW T, NEW U, T = S \union U, S \intersect U = {},
         IsFiniteSet(U), IsFiniteSet(S) \/ IsFiniteSet(T)
  PROVE  /\ IsFiniteSet(S) /\ IsFiniteSet(T)
         /\ Cardinality(T) = Cardinality(S) + Cardinality(U)
<1>1. IsFiniteSet(S) /\ S \in SUBSET T
  BY FS_Subset
<1>2. IsFiniteSet(T) /\ Cardinality(T) = Cardinality(S) + Cardinality(U) - Cardinality(S \intersect U)
  BY <1>1, FS_Union
<1>3. Cardinality(S) \in Nat /\ Cardinality(U) \in Nat /\ Cardinality(S \intersect U) = 0
  BY <1>1, FS_CardinalityType, FS_EmptySet
<1> QED
  BY <1>1, <1>2, <1>3

\* Where the good transfers are, as long as none is made or recorded.
LEMMA PlacesQuiet ==
  ASSUME TypeOK, PaidPlaces, UNCHANGED paid,
         \A q \in Proc :
           \/ amount'[q] = amount[q] /\ pc'[q] = pc[q]
           \/ amount'[q] = amount[q] /\ q \in paid /\ pc[q] = "c_verify" /\ pc'[q] = "c_record_in"
           \/ /\ q \notin paid /\ pc'[q] /= "c_record_in"
              /\ pc'[q] = "c_send" => amount'[q] = Chunk
  PROVE  PaidPlaces'
  BY DEF PaidPlaces, TypeOK

\* A step that moves no money between the treasury and its rows, and leaves the
\* transfers on their way where they are, or one of them verified.
LEMMA BookQuiet ==
  ASSUME TypeOK, BookInv, past \subseteq past', UNCHANGED <<treasury, booked, paid>>,
         "untold" \notin past' => \A r \in late' : r \in late \/ r.flow = "unwind",
         \A q \in Proc :
           \/ amount'[q] = amount[q] /\ pc'[q] = pc[q]
           \/ amount'[q] = amount[q] /\ q \in paid /\ pc[q] = "c_verify" /\ pc'[q] = "c_record_in"
           \/ /\ q \notin paid /\ pc[q] /= "c_record_out"
              /\ pc'[q] \notin {"c_record_in", "c_record_out"}
              /\ pc'[q] = "c_send" => amount'[q] = Chunk
  PROVE  BookInv'
<1>1. PaidPlaces'
  BY PlacesQuiet DEF BookInv
<1>2. ASSUME "untold" \notin past'
      PROVE  Accounts'
  <2>1. Accounts
    BY <1>2 DEF BookInv
  <2>2. GoingIn' = GoingIn
    <3>1. \A p \in paid : amount'[p] = amount[p]
      BY DEF TypeOK, BookInv, PaidPlaces
    <3> QED
      BY <3>1 DEF GoingIn, UnitsOf
  <2>3. Returning' = Returning /\ \A p \in Returning : amount'[p] = amount[p]
    BY DEF Returning, BookInv, PaidPlaces
  <2>4. ComingOut' = ComingOut
    BY <2>3 DEF ComingOut, UnitsOf
  <2> QED
    BY <1>2, <2>1, <2>2, <2>4 DEF Accounts
<1> QED
  BY <1>1, <1>2 DEF BookInv

\* A row is written, or its transfer is made: the units on their way grow or
\* shrink by what moves.
LEMMA InGrows ==
  ASSUME TypeOK, NEW p \in Proc, p \notin paid, paid' = paid \union {p}, UNCHANGED amount,
         IsFiniteSet(GoingIn)
  PROVE  IsFiniteSet(GoingIn') /\ Cardinality(GoingIn') = Cardinality(GoingIn) + amount[p]
<1>1. GoingIn \union UnitsOf(p) = GoingIn' /\ GoingIn \intersect UnitsOf(p) = {}
  BY DEF GoingIn, UnitsOf
<1>2. IsFiniteSet(UnitsOf(p)) /\ Cardinality(UnitsOf(p)) = amount[p]
  BY UnitsOfCall
<1>3. /\ IsFiniteSet(GoingIn \union UnitsOf(p))
      /\ Cardinality(GoingIn \union UnitsOf(p)) = Cardinality(GoingIn) + Cardinality(UnitsOf(p))
  BY <1>1, <1>2, CountedApart
<1> QED
  BY <1>1, <1>2, <1>3

LEMMA InShrinks ==
  ASSUME TypeOK, NEW p \in paid, paid' = paid \ {p}, UNCHANGED amount,
         IsFiniteSet(GoingIn)
  PROVE  IsFiniteSet(GoingIn') /\ Cardinality(GoingIn) = Cardinality(GoingIn') + amount[p]
<1>1. GoingIn = GoingIn' \union UnitsOf(p) /\ GoingIn' \intersect UnitsOf(p) = {}
  BY DEF GoingIn, UnitsOf
<1>2. p \in Proc
  BY DEF TypeOK
<1> QED
  BY <1>1, <1>2, UnitsOfCall, CountedApart

LEMMA OutGrows ==
  ASSUME TypeOK, NEW p \in Proc, p \notin Returning, Go(p, "c_record_out"), UNCHANGED amount,
         IsFiniteSet(ComingOut)
  PROVE  IsFiniteSet(ComingOut') /\ Cardinality(ComingOut') = Cardinality(ComingOut) + amount[p]
<1>1. Returning' = Returning \union {p}
  BY DEF Returning, Go, TypeOK
<1>2. ComingOut \union UnitsOf(p) = ComingOut' /\ ComingOut \intersect UnitsOf(p) = {}
  BY <1>1 DEF ComingOut, UnitsOf
<1>3. IsFiniteSet(UnitsOf(p)) /\ Cardinality(UnitsOf(p)) = amount[p]
  BY UnitsOfCall
<1>4. /\ IsFiniteSet(ComingOut \union UnitsOf(p))
      /\ Cardinality(ComingOut \union UnitsOf(p)) = Cardinality(ComingOut) + Cardinality(UnitsOf(p))
  BY <1>2, <1>3, CountedApart
<1> QED
  BY <1>2, <1>3, <1>4

LEMMA OutShrinks ==
  ASSUME TypeOK, NEW p \in Returning, pc'[p] /= "c_record_out",
         \A q \in Proc \ {p} : pc'[q] = pc[q], UNCHANGED amount,
         IsFiniteSet(ComingOut)
  PROVE  IsFiniteSet(ComingOut') /\ Cardinality(ComingOut) = Cardinality(ComingOut') + amount[p]
<1>1. Returning = Returning' \union {p} /\ p \notin Returning'
  BY DEF Returning
<1>2. ComingOut = ComingOut' \union UnitsOf(p) /\ ComingOut' \intersect UnitsOf(p) = {}
  BY <1>1 DEF ComingOut, UnitsOf
<1>3. p \in Proc
  BY DEF Returning
<1> QED
  BY <1>2, <1>3, UnitsOfCall, CountedApart

\* Nothing comes out, or goes in, by a step that moves one call from one place
\* without a row to another.
LEMMA SameOut ==
  ASSUME TypeOK, NEW p \in Proc, p \notin Returning, UNCHANGED amount,
         pc'[p] /= "c_record_out", \A q \in Proc \ {p} : pc'[q] = pc[q]
  PROVE  ComingOut' = ComingOut
<1>1. Returning' = Returning
  BY DEF Returning
<1> QED
  BY <1>1 DEF ComingOut, UnitsOf

LEMMA SameIn ==
  ASSUME UNCHANGED <<paid, amount>>
  PROVE  GoingIn' = GoingIn
  BY DEF GoingIn, UnitsOf

\* A run: what it moves to the treasury comes out with its caller, or is untold.
LEMMA RunKeepsBook ==
  ASSUME TypeOK, BookInv, NEW p \in Proc, NEW flow \in Flow, NEW next, NEW noHash, NEW failed,
         pc[p] \in {"c_run", "c_unwind", "k_run"},
         next \notin {"c_record_in", "c_send"}, flow = "unwind" => next /= "c_record_out",
         {noHash, failed} \intersect {"c_record_in", "c_record_out", "c_send"} = {},
         AwaitRun(p, flow, next, noHash, failed), UNCHANGED <<amount, paid>>
  PROVE  BookInv'
<1>1. p \notin paid /\ p \notin Returning /\ amount[p] \in Nat
  BY DEF BookInv, PaidPlaces, Returning, TypeOK
<1>2. PICK place \in {next, noHash, failed} : Go(p, place)
  BY DEF AwaitRun
<1>3. pc'[p] = place /\ \A q \in Proc \ {p} : pc'[q] = pc[q]
  BY <1>2, OthersStay
<1>4. past \subseteq past' /\ UNCHANGED booked
  BY DEF AwaitRun, Untold, Happens
<1>5. PaidPlaces'
  BY <1>1, <1>3, PlacesQuiet DEF BookInv
<1>6. ASSUME UNCHANGED treasury, place /= "c_record_out",
             "untold" \notin past' => \A r \in late' : r \in late \/ r.flow = "unwind"
      PROVE  BookInv'
  <2>1. \A q \in Proc :
          \/ amount'[q] = amount[q] /\ pc'[q] = pc[q]
          \/ /\ q \notin paid /\ pc[q] /= "c_record_out"
             /\ pc'[q] \notin {"c_record_in", "c_record_out"} /\ pc'[q] /= "c_send"
    BY <1>1, <1>3, <1>6 DEF Returning
  <2> QED
    BY <1>4, <1>6, <2>1, BookQuiet
<1>7. ASSUME "untold" \in past' PROVE BookInv'
  BY <1>5, <1>7 DEF BookInv
<1>8. ASSUME UNCHANGED <<late, treasury>>, place /= "c_record_out" PROVE BookInv'
  BY <1>6, <1>8
<1>9. ASSUME Moved(flow, amount[p]), Untold(flow, next), Go(p, next), UNCHANGED late
      PROVE  BookInv'
  <2>1. CASE flow = "unwind"
    <3>1. UNCHANGED treasury /\ pc'[p] /= "c_record_out"
      BY <1>9, <2>1, OthersStay DEF Moved
    <3> QED
      BY <1>3, <1>8, <1>9, <3>1
  <2>2. CASE flow = "return" /\ next /= "c_record_out"
    BY <1>7, <1>9, <2>2 DEF Untold, Happens
  <2>3. CASE flow = "return" /\ next = "c_record_out"
    <3>1. ASSUME "untold" \notin past' PROVE Accounts'
      <4>1. Accounts
        BY <1>4, <3>1 DEF BookInv
      <4>2. GoingIn' = GoingIn
        BY SameIn
      <4>3. /\ IsFiniteSet(ComingOut')
            /\ Cardinality(ComingOut') = Cardinality(ComingOut) + amount[p]
        BY <1>1, <1>9, <2>3, <4>1, OutGrows DEF Accounts
      <4>4. treasury' = treasury + amount[p] /\ late' = late
        BY <1>9, <2>3 DEF Moved
      <4>5. /\ Cardinality(GoingIn) \in Nat /\ Cardinality(ComingOut) \in Nat
            /\ treasury \in Nat /\ booked \in Int /\ Funds \in Nat
        BY <4>1, FS_CardinalityType, BookConfig DEF Accounts, TypeOK
      <4> QED
        BY <1>1, <1>4, <4>1, <4>2, <4>3, <4>4, <4>5 DEF Accounts
    <3> QED
      BY <1>5, <3>1 DEF BookInv
  <2> QED
    BY <2>1, <2>2, <2>3 DEF Flow
<1>10. ASSUME Short(flow, amount[p]), Go(p, failed), UNCHANGED <<past, late>>
       PROVE  BookInv'
  <2>1. UNCHANGED treasury /\ pc'[p] /= "c_record_out"
    BY <1>10, OthersStay DEF Short, chainVars
  <2> QED
    BY <1>3, <1>8, <1>10, <2>1
<1>11. ASSUME Moved(flow, amount[p]), Untold(flow, noHash), Go(p, noHash), UNCHANGED late
       PROVE  BookInv'
  <2>1. pc'[p] /= "c_record_out"
    BY <1>11, OthersStay
  <2>2. CASE flow = "unwind"
    BY <1>3, <1>8, <1>11, <2>1, <2>2 DEF Moved
  <2>3. CASE flow = "return"
    BY <1>7, <1>11, <2>3 DEF Untold, Happens
  <2> QED
    BY <2>2, <2>3 DEF Flow
<1>12. ASSUME Go(p, failed), UNCHANGED <<chainVars, past, late>>
       PROVE  BookInv'
  <2>1. pc'[p] /= "c_record_out"
    BY <1>12, OthersStay
  <2> QED
    BY <1>3, <1>8, <1>12, <2>1 DEF chainVars
<1>13. ASSUME late' = late \union {[flow |-> flow, n |-> amount[p], by |-> p, id |-> faults]},
              Untold(flow, failed), Go(p, failed), UNCHANGED chainVars
       PROVE  BookInv'
  <2>1. pc'[p] /= "c_record_out"
    BY <1>13, OthersStay
  <2>2. CASE flow = "unwind"
    BY <1>3, <1>6, <1>13, <2>1, <2>2 DEF chainVars
  <2>3. CASE flow = "return"
    BY <1>7, <1>13, <2>3 DEF Untold, Happens
  <2> QED
    BY <2>2, <2>3 DEF Flow
<1> QED
  BY <1>9, <1>10, <1>11, <1>12, <1>13 DEF AwaitRun

\* A call goes on from a place without money to another.
LEMMA CallQuiet ==
  ASSUME TypeOK, BookInv, NEW p \in Proc, NEW place, Go(p, place),
         pc[p] \notin {"c_verify", "c_record_in", "c_record_out"},
         place \notin {"c_record_in", "c_record_out"}, place = "c_send" => amount'[p] = Chunk,
         past \subseteq past', UNCHANGED <<treasury, booked, paid, late>>,
         \A q \in Proc \ {p} : amount'[q] = amount[q]
  PROVE  BookInv'
<1>1. pc'[p] = place /\ \A q \in Proc \ {p} : pc'[q] = pc[q]
  BY OthersStay
<1>2. p \notin paid
  BY DEF BookInv, PaidPlaces
<1>3. \A q \in Proc :
        \/ amount'[q] = amount[q] /\ pc'[q] = pc[q]
        \/ /\ q \notin paid /\ pc[q] /= "c_record_out"
           /\ pc'[q] \notin {"c_record_in", "c_record_out"}
           /\ pc'[q] = "c_send" => amount'[q] = Chunk
  BY <1>1, <1>2
<1> QED
  BY <1>3, BookQuiet

\* A top-up that is made, and told of or not.
LEMMA SendKeepsBook ==
  ASSUME TypeOK, BookInv, NEW p \in Proc, SendTopup(p)
  PROVE  BookInv'
<1>1. /\ pc[p] = "c_send" /\ p \notin paid /\ p \notin Returning /\ amount[p] = Chunk
      /\ UNCHANGED <<amount, late, booked>>
  BY DEF SendTopup, At, BookInv, PaidPlaces, Returning
<1>2. AfterCapital(p) \notin {"c_record_in", "c_record_out", "c_send"}
  BY DEF AfterCapital
<1>3. ASSUME TopupMoved(p, {}), paid' = paid \union {p}, Go(p, "c_verify")
      PROVE  BookInv'
  <2>1. pc'[p] = "c_verify" /\ \A q \in Proc \ {p} : pc'[q] = pc[q]
    BY <1>3, OthersStay
  <2>2. PaidPlaces'
    BY <1>1, <1>3, <2>1 DEF BookInv, PaidPlaces, TypeOK
  <2>3. ASSUME "untold" \notin past' PROVE Accounts'
    <3>1. Accounts
      BY <1>3, <2>3 DEF BookInv, TopupMoved
    <3>2. IsFiniteSet(GoingIn') /\ Cardinality(GoingIn') = Cardinality(GoingIn) + amount[p]
      BY <1>1, <1>3, <3>1, InGrows DEF Accounts
    <3>3. ComingOut' = ComingOut
      BY <1>1, <2>1, SameOut
    <3>4. treasury' = treasury - amount[p] /\ late' = late
      BY <1>1, <1>3 DEF TopupMoved
    <3>5. /\ Cardinality(GoingIn) \in Nat /\ Cardinality(ComingOut) \in Nat
          /\ treasury \in Nat /\ booked \in Int /\ Funds \in Nat /\ amount[p] \in Nat
      BY <3>1, FS_CardinalityType, BookConfig DEF Accounts, TypeOK
    <3> QED
      BY <1>1, <3>1, <3>2, <3>3, <3>4, <3>5 DEF Accounts
  <2> QED
    BY <2>2, <2>3 DEF BookInv
<1>4. ASSUME TopupMoved(p, {"untold"}), Go(p, AfterCapital(p)), UNCHANGED paid
      PROVE  BookInv'
  <2>1. pc'[p] \notin {"c_record_in", "c_send"} /\ \A q \in Proc \ {p} : pc'[q] = pc[q]
    BY <1>2, <1>4, OthersStay
  <2>2. PaidPlaces'
    BY <1>1, <1>4, <2>1, PlacesQuiet DEF BookInv
  <2> QED
    BY <1>4, <2>2 DEF BookInv, TopupMoved
<1>5. ASSUME Go(p, AfterCapital(p)) \/ Go(p, "c_verify"), UNCHANGED <<chainVars, past, paid>>
      PROVE  BookInv'
  BY <1>1, <1>2, <1>5, CallQuiet DEF chainVars
<1> QED
  BY <1>3, <1>4, <1>5 DEF SendTopup, Finish

\* Its hash is verified.
LEMMA VerifyKeepsBook ==
  ASSUME TypeOK, BookInv, NEW p \in Proc, VerifyTopup(p)
  PROVE  BookInv'
<1>1. /\ pc[p] = "c_verify" /\ UNCHANGED <<treasury, amount, late, booked>>
      /\ past \subseteq past'
  BY DEF VerifyTopup, At, chainVars, GiveUpTopup, Happens
<1>2. CASE p \in paid /\ Go(p, "c_record_in") /\ UNCHANGED paid
  <2>1. pc'[p] = "c_record_in" /\ \A q \in Proc \ {p} : pc'[q] = pc[q]
    BY <1>2, OthersStay
  <2> QED
    BY <1>1, <1>2, <2>1, BookQuiet
<1>3. CASE GiveUpTopup(p)
  <2>1. AfterCapital(p) \notin {"c_record_in", "c_record_out", "c_send"}
    BY DEF AfterCapital
  <2>2. pc'[p] = AfterCapital(p) /\ \A q \in Proc \ {p} : pc'[q] = pc[q]
    BY <1>3, OthersStay DEF GiveUpTopup
  <2>3. CASE p \in paid
    <3>1. PaidPlaces'
      BY <1>1, <1>3, <2>1, <2>2 DEF GiveUpTopup, BookInv, PaidPlaces, TypeOK
    <3> QED
      BY <1>3, <2>3, <3>1 DEF GiveUpTopup, Happens, BookInv
  <2>4. CASE p \notin paid
    <3>1. paid' = paid
      BY <1>3, <2>4 DEF GiveUpTopup
    <3>2. \A q \in Proc :
            \/ amount'[q] = amount[q] /\ pc'[q] = pc[q]
            \/ /\ q \notin paid /\ pc[q] /= "c_record_out"
               /\ pc'[q] \notin {"c_record_in", "c_record_out"} /\ pc'[q] /= "c_send"
      BY <1>1, <2>1, <2>2, <2>4
    <3> QED
      BY <1>1, <3>1, <3>2, BookQuiet
  <2> QED
    BY <2>3, <2>4
<1> QED
  BY <1>2, <1>3 DEF VerifyTopup

\* Its row is written, or lost.
LEMMA RecordInKeepsBook ==
  ASSUME TypeOK, BookInv, NEW p \in Proc, RecordTopup(p)
  PROVE  BookInv'
<1>1. /\ pc[p] = "c_record_in" /\ p \in paid /\ p \notin Returning
      /\ paid' = paid \ {p} /\ Go(p, AfterCapital(p))
      /\ UNCHANGED <<treasury, amount, late>>
  BY DEF RecordTopup, At, chainVars, BookInv, PaidPlaces, Returning
<1>2. AfterCapital(p) \notin {"c_record_in", "c_record_out", "c_send"}
  BY DEF AfterCapital
<1>3. pc'[p] = AfterCapital(p) /\ \A q \in Proc \ {p} : pc'[q] = pc[q]
  BY <1>1, OthersStay
<1>4. PaidPlaces'
  BY <1>1, <1>2, <1>3 DEF BookInv, PaidPlaces, TypeOK
<1>5. ASSUME "untold" \notin past' PROVE Accounts'
  <2>1. Inserted(amount[p]) /\ UNCHANGED past
    BY <1>5 DEF RecordTopup, Happens
  <2>2. Accounts /\ booked' = booked + amount[p]
    BY <1>5, <2>1 DEF Inserted, BookInv
  <2>3. IsFiniteSet(GoingIn') /\ Cardinality(GoingIn) = Cardinality(GoingIn') + amount[p]
    BY <1>1, <2>2, InShrinks DEF Accounts
  <2>4. ComingOut' = ComingOut
    BY <1>1, <1>2, <1>3, SameOut
  <2>5. /\ Cardinality(GoingIn') \in Nat /\ Cardinality(ComingOut) \in Nat
        /\ treasury \in Nat /\ booked \in Int /\ Funds \in Nat /\ amount[p] \in Nat
    BY <2>2, <2>3, FS_CardinalityType, BookConfig DEF Accounts, TypeOK
  <2> QED
    BY <1>1, <2>2, <2>3, <2>4, <2>5 DEF Accounts
<1> QED
  BY <1>4, <1>5 DEF BookInv

\* So is the row of a return.
LEMMA RecordOutKeepsBook ==
  ASSUME TypeOK, BookInv, NEW p \in Proc, RecordReturn(p)
  PROVE  BookInv'
<1>1. /\ pc[p] = "c_record_out" /\ p \notin paid /\ p \in Returning
      /\ Go(p, AfterCapital(p)) /\ UNCHANGED <<treasury, amount, late, paid>>
  BY DEF RecordReturn, At, chainVars, capitalVars, BookInv, PaidPlaces, Returning
<1>2. AfterCapital(p) \notin {"c_record_in", "c_record_out", "c_send"}
  BY DEF AfterCapital
<1>3. pc'[p] = AfterCapital(p) /\ \A q \in Proc \ {p} : pc'[q] = pc[q]
  BY <1>1, OthersStay
<1>4. PaidPlaces'
  BY <1>1, <1>2, <1>3, PlacesQuiet DEF BookInv
<1>5. ASSUME "untold" \notin past' PROVE Accounts'
  <2>1. Inserted(-amount[p]) /\ UNCHANGED past
    BY <1>5 DEF RecordReturn, Happens
  <2>2. Accounts /\ booked' = booked + (-amount[p])
    BY <1>5, <2>1 DEF Inserted, BookInv
  <2>3. IsFiniteSet(ComingOut') /\ Cardinality(ComingOut) = Cardinality(ComingOut') + amount[p]
    BY <1>1, <1>2, <1>3, <2>2, OutShrinks DEF Accounts
  <2>4. GoingIn' = GoingIn
    BY <1>1, SameIn
  <2>5. /\ Cardinality(ComingOut') \in Nat /\ Cardinality(GoingIn) \in Nat
        /\ treasury \in Nat /\ booked \in Int /\ Funds \in Nat /\ amount[p] \in Nat
    BY <2>2, <2>3, FS_CardinalityType, BookConfig DEF Accounts, TypeOK
  <2> QED
    BY <1>1, <2>2, <2>3, <2>4, <2>5 DEF Accounts
<1> QED
  BY <1>4, <1>5 DEF BookInv

\* Every step of a call keeps the books.
LEMMA CallKeepsBook ==
  ASSUME TypeOK, BookInv, NEW p \in Proc, CallStep(p)
  PROVE  BookInv'
<1> DEFINE Moneyless == Place \ {"c_send", "c_record_in", "c_record_out"}
<1>1. /\ AfterCapital(p) \in Moneyless /\ Home(p) \in Moneyless
      /\ "c_treasury" \in Moneyless /\ "c_history" \in Moneyless /\ "c_decide" \in Moneyless
      /\ "c_guard" \in Moneyless /\ "c_run" \in Moneyless /\ "c_unwind" \in Moneyless
      /\ "k_arm_save" \in Moneyless /\ "k_mark" \in Moneyless /\ "end" \in Moneyless
      /\ "k_trip" \in Moneyless /\ "k_run" \in Moneyless /\ "k_save" \in Moneyless
      /\ "t_arm_save" \in Moneyless
      /\ "t_mark" \in Moneyless /\ "t_gate" \in Moneyless /\ "t_evaluate" \in Moneyless
      /\ "t_trade" \in Moneyless /\ "t_note_read" \in Moneyless /\ "t_touch_read" \in Moneyless
  BY DEF AfterCapital, Home, Place
<1>2. ReadingRow(p) \/ WritingRow(p) =>
        /\ Then(pc[p]) \in Moneyless /\ AfterNote(pc[p]) \in Moneyless
        /\ pc[p] \notin {"c_verify", "c_record_in", "c_record_out"}
  BY DEF ReadingRow, WritingRow, Then, AfterNote, Place
<1>3. ASSUME NEW place \in Moneyless, Go(p, place),
             pc[p] \notin {"c_verify", "c_record_in", "c_record_out"},
             past \subseteq past', UNCHANGED <<treasury, booked, paid, late>>,
             \A q \in Proc \ {p} : amount'[q] = amount[q]
      PROVE  BookInv'
  BY <1>3, CallQuiet
<1> HIDE DEF Moneyless
<1>4. CASE CapitalStep(p) /\ UNCHANGED switchVars
  <2>1. CASE MarkDesk(p) \/ ReadTreasury(p) \/ ReadHistory(p)
    BY <1>1, <1>3, <2>1
    DEF MarkDesk, ReadTreasury, ReadHistory, At, Finish, CapitalIdle, moveVars, chainVars
  <2>2. CASE Decide(p)
    <3>1. ASSUME NEW place \in Moneyless \union {"c_send"}, NEW n \in Int, DecideFor(p, place, n),
                 place = "c_send" => n = Chunk
          PROVE  BookInv'
      <4>1. Go(p, place) /\ amount'[p] = n /\ \A q \in Proc \ {p} : amount'[q] = amount[q]
        BY <3>1 DEF DecideFor, TypeOK
      <4> QED
        BY <2>2, <3>1, <4>1, CallQuiet DEF Decide, At, moveVars, chainVars, Moneyless
    <3>2. ASSUME DecideForNothing(p) PROVE BookInv'
      BY <1>1, <1>3, <2>2, <3>2 DEF DecideForNothing, Finish, Decide, At, moveVars, chainVars
    <3>3. /\ ReturnAmount(book[p]) \in Int /\ SweepAmount(book[p]) \in Int
          /\ Least(Chunk, book[p].stock) \in Int /\ Chunk \in Int
      BY CapitalConfig
      DEF TypeOK, Book, ReturnAmount, SweepAmount, Least, Excess, BookEquity
    <3>4. ASSUME NEW suppressed \in BOOLEAN, DecideNormally(p, book[p], suppressed)
          PROVE  BookInv'
      BY <1>1, <3>1, <3>2, <3>3, <3>4 DEF DecideNormally
    <3> QED
      BY <1>1, <2>2, <3>1, <3>2, <3>3, <3>4 DEF Decide
  <2>3. CASE GuardSweep(p)
    <3>1. \A q \in Proc \ {p} : amount'[q] = amount[q]
      BY <2>3 DEF GuardSweep, TypeOK
    <3> QED
      BY <1>1, <1>3, <2>3, <3>1 DEF GuardSweep, At, moveVars, chainVars, capitalVars
  <2>4. CASE RunReturn(p)
    <3>1. "return" \in Flow /\ AfterCapital(p) \notin {"c_record_in", "c_record_out", "c_send"}
      BY DEF Flow, AfterCapital
    <3> QED
      BY <2>4, <3>1, RunKeepsBook DEF RunReturn, At, capitalVars
  <2>5. CASE RunUnwind(p)
    <3>1. "unwind" \in Flow /\ AfterCapital(p) \notin {"c_record_in", "c_record_out", "c_send"}
      BY DEF Flow, AfterCapital
    <3> QED
      BY <2>5, <3>1, RunKeepsBook DEF RunUnwind, At, capitalVars
  <2> QED
    BY <1>4, <2>1, <2>2, <2>3, <2>4, <2>5, SendKeepsBook, VerifyKeepsBook, RecordInKeepsBook,
       RecordOutKeepsBook
    DEF CapitalStep
<1>5. CASE SwitchStep(p) /\ UNCHANGED capitalVars
  <2>1. CASE RunTrip(p)
    <3>1. "return" \in Flow /\ Home(p) \notin {"c_record_in", "c_record_out", "c_send"}
      BY DEF Flow, Home
    <3> QED
      BY <1>5, <2>1, <3>1, RunKeepsBook DEF RunTrip, At, capitalVars
  <2>2. CASE ArmByRequest(p) \/ MarkForTrip(p) \/ Evaluate(p)
    BY <1>1, <1>3, <1>5, <2>2
    DEF ArmByRequest, Arm, MarkForTrip, Evaluate, SwitchIdle, At, moveVars, chainVars, capitalVars
  <2>3. CASE SaveArmByRequest(p) \/ SaveArm(p) \/ SaveTripped(p)
    BY <1>1, <1>3, <1>5, <2>3
    DEF SaveArmByRequest, SaveArm, SaveTripped, Persist, SwitchIdle, Happens, At, moveVars,
        chainVars, capitalVars
  <2>4. CASE SaveTrip(p)
    <3>1. \A q \in Proc \ {p} : amount'[q] = amount[q]
      BY <2>4 DEF SaveTrip, TypeOK
    <3> QED
      BY <1>1, <1>3, <1>5, <2>4, <3>1 DEF SaveTrip, At, moveVars, chainVars, capitalVars
  <2> QED
    BY <1>5, <2>1, <2>2, <2>3, <2>4 DEF SwitchStep
<1>6. CASE TickStep(p)
  <2>1. CASE TouchHeartbeat(p)
    <3>1. \A q \in Proc \ {p} : amount'[q] = amount[q]
      BY <2>1 DEF TouchHeartbeat, TypeOK
    <3> QED
      BY <1>1, <1>3, <2>1, <3>1
      DEF TouchHeartbeat, TickIdle, At, moveVars, chainVars, capitalVars
  <2>2. CASE MarkForTick(p) \/ PassGate(p) \/ Trade(p)
    BY <1>1, <1>3, <2>2
    DEF MarkForTick, PassGate, Trade, TickIdle, At, moveVars, chainVars, capitalVars
  <2>3. CASE ReadRow(p)
    BY <1>2, <1>3, <2>3 DEF ReadRow, TickIdle, moveVars, chainVars, capitalVars
  <2>4. CASE WriteRow(p)
    BY <1>2, <1>3, <2>4 DEF WriteRow, Happens, moveVars, chainVars, capitalVars
  <2> QED
    BY <1>6, <2>1, <2>2, <2>3, <2>4 DEF TickStep
<1> QED
  BY <1>4, <1>5, <1>6 DEF CallStep

\* So does a restart, which loses a row or has none to lose.
LEMMA RestartKeepsBook ==
  ASSUME TypeOK, BookInv, Restart
  PROVE  BookInv'
<1>1. \A q \in Proc : pc'[q] \notin {"c_send", "c_verify", "c_record_in", "c_record_out"}
  BY DEF Restart, Ending, Home, TypeOK
<1>2. PaidPlaces'
  BY <1>1 DEF Restart, PaidPlaces
<1>3. ASSUME "untold" \notin past' PROVE Accounts'
  <2>1. /\ paid = {} /\ past' = past
        /\ \A q \in Proc : pc[q] \notin {"c_run", "k_run", "c_record_out"}
    BY <1>3 DEF Restart, Happens
  <2>2. Accounts /\ UNCHANGED <<treasury, booked>>
    BY <1>3, <2>1 DEF Restart, BookInv, chainVars
  <2>3. GoingIn = {} /\ GoingIn' = {}
    BY <2>1 DEF Restart, GoingIn
  <2>4. Returning = {} /\ Returning' = {}
    BY <1>1, <2>1 DEF Returning
  <2>5. ComingOut = {} /\ ComingOut' = {}
    BY <2>4 DEF ComingOut
  <2>6. \A r \in late' : r.flow = "unwind"
    <3> SUFFICES ASSUME NEW r \in late' PROVE r.flow = "unwind"
      OBVIOUS
    <3>1. CASE r \in late
      BY <2>2, <3>1 DEF Accounts
    <3>2. CASE r \notin late
      <4>1. PICK q \in Proc : Awaited(q) /\ r = Left(q)
        BY <3>2 DEF Restart
      <4> QED
        BY <2>1, <4>1 DEF Awaited, Left
    <3> QED
      BY <3>1, <3>2
  <2> QED
    BY <2>2, <2>3, <2>5, <2>6 DEF Accounts
<1> QED
  BY <1>2, <1>3 DEF BookInv

\* Every step keeps the books.
LEMMA NextBook == TypeOK /\ BookInv /\ [Next]_vars => BookInv'
<1> SUFFICES ASSUME TypeOK, BookInv, [Next]_vars PROVE BookInv'
  OBVIOUS
<1>1. CASE StartCycle \/ \E p \in Request : StartRequest(p)
  <2>1. PICK p \in Proc, place \in {"c_mark", "t_heartbeat", "k_arm"} : Begin(p, place)
    BY <1>1 DEF StartCycle, StartRequest, Proc
  <2> QED
    BY <2>1, CallQuiet DEF Begin, At, moveVars, chainVars, capitalVars
<1>2. CASE UNCHANGED <<treasury, booked, late, pc, amount, past, paid>>
  BY <1>2, BookQuiet
<1>3. CASE \E r \in late : LateRunEnds(r) /\ UNCHANGED capitalVars
  <2>1. PICK r \in late : LateRunEnds(r) /\ UNCHANGED capitalVars
    BY <1>3
  <2>2. "untold" \notin past => UNCHANGED treasury
    BY <2>1 DEF BookInv, Accounts, LateRunEnds, Moved, Short, chainVars
  <2>3. UNCHANGED <<pc, amount, past, paid, booked>> /\ late' \subseteq late
    BY <2>1 DEF LateRunEnds, capitalVars
  <2>4. CASE UNCHANGED treasury
    BY <2>3, <2>4, BookQuiet
  <2>5. CASE "untold" \in past
    <3>1. PaidPlaces'
      BY <2>3, PlacesQuiet DEF BookInv
    <3> QED
      BY <2>3, <2>5, <3>1 DEF BookInv
  <2> QED
    BY <2>2, <2>4, <2>5
<1>4. CASE Hydrate /\ UNCHANGED capitalVars
  BY <1>2, <1>4 DEF Hydrate, SwitchIdle, moveVars, chainVars, capitalVars
<1>5. CASE Outside
  BY <1>2, <1>3, <1>5 DEF Outside, CooldownEnds, moveVars, chainVars
<1>6. CASE UNCHANGED vars
  BY <1>2, <1>6 DEF vars, moveVars, chainVars, capitalVars
<1> QED
  BY <1>1, <1>4, <1>5, <1>6, CallKeepsBook, RestartKeepsBook DEF Next

\* While no transfer is on its way and none is untold, the treasury and
\* desk_capital_moves add up to what the treasury began with: for any number of
\* requests, cycles, late runs, faults and restarts.
THEOREM BooksKept == Spec => []BooksBalance
<1>1. Init => BookInv
  <2> SUFFICES ASSUME Init PROVE BookInv
    OBVIOUS
  <2>1. /\ treasury = Funds /\ booked = 0 /\ late = {} /\ paid = {} /\ past = {}
        /\ \A p \in Proc : pc[p] = "idle"
    BY DEF Init, BookInit, CapitalInit
  <2>2. GoingIn = {}
    BY <2>1 DEF GoingIn
  <2>3. Returning = {}
    BY <2>1 DEF Returning
  <2>4. ComingOut = {}
    BY <2>3 DEF ComingOut
  <2>5. Accounts
    BY <2>1, <2>2, <2>4, FS_EmptySet, BookConfig DEF Accounts
  <2> QED
    BY <2>1, <2>5 DEF BookInv, PaidPlaces
<1>2. TypeOK /\ BookInv => BooksBalance
  <2> SUFFICES ASSUME TypeOK, BookInv, ~InTransit, "untold" \notin past
               PROVE  treasury + booked = Funds
    BY DEF BooksBalance
  <2>1. GoingIn = {}
    BY DEF InTransit, GoingIn
  <2>2. Returning = {}
    BY DEF InTransit, Returning
  <2>3. ComingOut = {}
    BY <2>2 DEF ComingOut
  <2> QED
    BY <2>1, <2>3, FS_EmptySet, BookConfig DEF BookInv, Accounts, TypeOK
<1> QED
  BY <1>1, <1>2, InitTypes, NextTypes, NextBook, PTL DEF Spec

=============================================================================
