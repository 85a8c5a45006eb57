--------------------------- MODULE DeskIntentsProofs ---------------------------
(***************************************************************************)
(* Proofs about the desk's intents for every set of intents, ticks and     *)
(* callbacks: type correctness, one open intent per strategy, no fill      *)
(* without a transaction, and no trade reported failed without a reason.   *)
(***************************************************************************)
EXTENDS DeskProperties, TLAPS

Deciding(p) == pc[p] \in {"read_status", "write_status"}

Places == {"idle", "answered", "gates", "find_open", "insert"} \union IntentPlaces

RowsOK == intent \in [Intent -> [status : Status, strategy : Strategy \union {"none"}]]

LocalsOK ==
  /\ pc \in [Proc -> Places]
  /\ cur \in [Proc -> Intent \union {NoIntent}]
  /\ gates \in [Tick -> Gates]
  /\ move \in [Proc -> Move]
  /\ attempt \in [Tick -> Attempt]

InHand ==
  \A p \in Proc : pc[p] \in IntentPlaces => cur[p] \in Intent /\ intent[cur[p]].status /= "none"

\* KeeperHub runs exist for intents that exist.
RunsOfIntents ==
  \A i \in Intent, k \in Key : run[i][k] /= "none" => intent[i].status /= "none"

\* An intent that exists, and a proposal under way, have a strategy.
StrategiesKnown ==
  /\ \A i \in Intent : intent[i].status /= "none" => intent[i].strategy \in Strategy
  /\ \A p \in Tick : pc[p] \in {"find_open", "insert"} => gates[p].strategy \in Strategy

\* No status change under way removes an intent.
MovesKnown == \A p \in Proc : Deciding(p) => move[p].to /= "none"

\* The reaper lists intents that exist.
ReaperKnown == \A i \in reaper.todo : intent[i].status /= "none"

\* The inductive invariant behind the types.
TypeInv ==
  /\ TypeOK
  /\ RunsOfIntents
  /\ StrategiesKnown
  /\ MovesKnown
  /\ ReaperKnown

-----------------------------------------------------------------------------
(* What the control helpers do to the process and leave to the others *)

Others(p) ==
  /\ \A q \in Proc \ {p} : pc'[q] = pc[q] /\ cur'[q] = cur[q] /\ move'[q] = move[q]
  /\ \A q \in Tick \ {p} : gates'[q] = gates[q]

LEMMA Literals ==
  /\ NoMove \in Move
  /\ NoGates \in Gates
  /\ "rest" \in Attempt
BY DEF NoMove, Move, Status, NoGates, Gates, Attempt

LEMMA RestType == ASSUME NEW p PROVE Rest(p) \in {"idle", "answered"}
BY DEF Rest

LEMMA StopEffect ==
  ASSUME LocalsOK, NEW p \in Proc, Stop(p)
  PROVE  LocalsOK' /\ Others(p) /\ pc'[p] \in {"idle", "answered"}
<1>1. pc' \in [Proc -> Places] /\ pc'[p] \in {"idle", "answered"}
  BY RestType DEF LocalsOK, Stop, Goto, Places
<1>2. cur' \in [Proc -> Intent \union {NoIntent}] /\ move' \in [Proc -> Move]
  BY Literals DEF LocalsOK, Stop
<1>3. gates' \in [Tick -> Gates] /\ attempt' \in [Tick -> Attempt]
  BY Literals DEF LocalsOK, Stop
<1>4. Others(p)
  BY DEF LocalsOK, Stop, Goto, Others
<1> QED
  BY <1>1, <1>2, <1>3, <1>4 DEF LocalsOK

LEMMA MoveType ==
  ASSUME NEW to \in Status
  PROVE  /\ \A c \in BOOLEAN : [NoMove EXCEPT !.to = to, !.caught = c] \in Move
         /\ \A f \in BOOLEAN : [NoMove EXCEPT !.to = to, !.force = f] \in Move
         /\ [NoMove EXCEPT !.to = to] \in Move
BY DEF NoMove, Move

LEMMA ChangeEffect ==
  ASSUME LocalsOK, NEW p \in Proc, NEW to \in Status, Change(p, to)
  PROVE  /\ LocalsOK'
         /\ Others(p)
         /\ pc'[p] = "read_status"
         /\ cur' = cur
         /\ move'[p].to = to
<1>1. pc' \in [Proc -> Places] /\ pc'[p] = "read_status"
  BY DEF LocalsOK, Change, Goto, Places, IntentPlaces
<1>2. PICK c \in BOOLEAN : move' = [move EXCEPT ![p] = [NoMove EXCEPT !.to = to, !.caught = c]]
  BY DEF Change
<1>3. move' \in [Proc -> Move]
  BY <1>2, MoveType DEF LocalsOK
<1>4. move'[p].to = to
  BY <1>2 DEF LocalsOK, NoMove
<1>5. attempt' \in [Tick -> Attempt]
  BY Literals DEF LocalsOK, Change
<1>6. Others(p)
  BY <1>2 DEF LocalsOK, Change, Goto, Others
<1> QED
  BY <1>1, <1>3, <1>4, <1>5, <1>6 DEF LocalsOK, Change

\* An error fails the intent or ends the call.
LEMMA ThrewEffect ==
  ASSUME LocalsOK, NEW p \in Proc, Threw(p)
  PROVE  /\ LocalsOK'
         /\ Others(p)
         /\ \/ pc'[p] \in {"idle", "answered"}
            \/ pc'[p] = "read_status" /\ cur' = cur /\ move'[p].to = "failed"
<1>1. "failed" \in Status
  BY DEF Status
<1> QED
  BY <1>1, StopEffect, ChangeEffect DEF Threw

LEMMA NextPhaseEffect ==
  ASSUME LocalsOK, NEW p \in Tick, NextPhase(p)
  PROVE  LocalsOK' /\ Others(p) /\ pc'[p] \in {"idle", "answered", "gates"}
<1>1. p \in Proc
  BY DEF Proc
<1>2. CASE Stop(p)
  BY <1>1, <1>2, StopEffect
<1>3. CASE ~Stop(p)
  <2> DEFINE new == [NoGates EXCEPT !.todo = {"open", "any"}, !.micro = TRUE]
  <2>1. new \in Gates
    BY DEF NoGates, Gates
  <2> HIDE DEF new
  <2>2. /\ Goto(p, "gates")
        /\ gates' = [gates EXCEPT ![p] = new]
        /\ UNCHANGED <<cur, move, attempt>>
    BY <1>3 DEF NextPhase, new
  <2> QED
    BY <1>1, <2>1, <2>2 DEF LocalsOK, Goto, Places, Others
<1> QED
  BY <1>2, <1>3

-----------------------------------------------------------------------------
(* Type correctness *)

LEMMA InitTypeInv == Init => TypeInv
<1> SUFFICES ASSUME Init PROVE TypeInv
  OBVIOUS
<1>1. TypeOK
  BY DeskConfig, Literals
  DEF Init, TypeOK, IntentPlaces, Status, RunState, Key
<1>2. RunsOfIntents /\ StrategiesKnown /\ MovesKnown /\ ReaperKnown
  BY DEF Init, RunsOfIntents, StrategiesKnown, MovesKnown, ReaperKnown, Deciding, Proc
<1> QED
  BY <1>1, <1>2 DEF TypeInv

LEMMA OpenStrategiesKnown ==
  ASSUME RowsOK, StrategiesKnown
  PROVE  OpenStrategies \subseteq Strategy
BY DEF RowsOK, StrategiesKnown, OpenStrategies, Open, OpenStatuses

\* What a step of a process leaves to the others, with intents that only come
\* into being and runs only of intents that exist, keeps the type invariant if
\* it does for the process.
LEMMA ProcessKeepsTypeInv ==
  ASSUME TypeInv, LocalsOK', RowsOK', NEW p \in Proc, Others(p),
         tickets' \in [Intent -> Nat], run' \in [Intent -> [Key -> RunState]],
         RunsOfIntents', reaper' = reaper, lost' \subseteq Intent, crashes' = crashes,
         \A i \in Intent : intent[i].status /= "none" => intent'[i].status /= "none",
         \A i \in Intent : intent'[i].status /= "none" => intent'[i].strategy \in Strategy,
         pc'[p] \in IntentPlaces => cur'[p] \in Intent /\ intent'[cur'[p]].status /= "none",
         p \in Tick /\ pc'[p] \in {"find_open", "insert"} => gates'[p].strategy \in Strategy,
         pc'[p] \in {"read_status", "write_status"} => move'[p].to /= "none"
  PROVE  TypeInv'
<1>1. InHand'
  BY DEF TypeInv, TypeOK, Others, InHand
<1>2. StrategiesKnown'
  <2>1. \A q \in Tick : q \in Proc
    BY DEF Proc
  <2> QED
    BY <2>1 DEF TypeInv, Others, StrategiesKnown
<1>3. MovesKnown'
  BY DEF TypeInv, Others, MovesKnown, Deciding
<1>4. TypeOK'
  BY <1>1 DEF TypeInv, TypeOK, LocalsOK, RowsOK, Places, InHand
<1>5. ReaperKnown'
  BY DEF TypeInv, TypeOK, ReaperKnown
<1> QED
  BY <1>2, <1>3, <1>4, <1>5 DEF TypeInv

\* The same for a step that leaves the tables and KeeperHub alone.
LEMMA LocalStepKeepsTypeInv ==
  ASSUME TypeInv, LocalsOK', NEW p \in Proc, Others(p), lost' \subseteq Intent,
         UNCHANGED <<rows, run, reaper, crashes>>,
         pc'[p] \in IntentPlaces => cur'[p] = cur[p] /\ pc[p] \in IntentPlaces,
         p \in Tick /\ pc'[p] \in {"find_open", "insert"} => gates'[p].strategy \in Strategy,
         pc'[p] \in {"read_status", "write_status"} => move'[p].to /= "none"
  PROVE  TypeInv'
<1>1. RowsOK' /\ tickets' \in [Intent -> Nat] /\ run' \in [Intent -> [Key -> RunState]]
  BY DEF TypeInv, TypeOK, RowsOK, rows
<1>2. RunsOfIntents'
  BY DEF TypeInv, RunsOfIntents, rows
<1>3. \A i \in Intent : /\ intent[i].status /= "none" => intent'[i].status /= "none"
                        /\ intent'[i].status /= "none" => intent'[i].strategy \in Strategy
  BY DEF TypeInv, StrategiesKnown, rows
<1>4. pc'[p] \in IntentPlaces => cur'[p] \in Intent /\ intent'[cur'[p]].status /= "none"
  BY DEF TypeInv, TypeOK, rows
<1> QED
  BY <1>1, <1>2, <1>3, <1>4, ProcessKeepsTypeInv

LEMMA TypeInvParts ==
  ASSUME TypeInv
  PROVE  /\ RowsOK /\ LocalsOK /\ InHand /\ RunsOfIntents /\ StrategiesKnown /\ MovesKnown
         /\ ReaperKnown
         /\ tickets \in [Intent -> Nat] /\ run \in [Intent -> [Key -> RunState]]
         /\ reaper \in [listed : BOOLEAN, todo : SUBSET Intent]
         /\ lost \subseteq Intent
         /\ crashes \in Nat
BY DEF TypeInv, TypeOK, RowsOK, LocalsOK, InHand, Places

\* Reading the gates, and proposing.
LEMMA GateStepTypes ==
  ASSUME TypeInv, NEW p \in Tick,
         \/ StartTick(p) \/ ReadOpen(p) \/ ReadAny(p) \/ ReadFails(p) \/ Refuse(p)
         \/ Allow(p) \/ FindOpen(p) \/ InsertRefused(p)
  PROVE  TypeInv'
<1> USE TypeInvParts
<1>p. p \in Proc
  BY DEF Proc
<1>g. \A g \in Gates, T \in SUBSET {"open", "any"} :
        /\ \A S \in SUBSET Strategy : [g EXCEPT !.todo = T, !.open = S] \in Gates
        /\ \A b \in BOOLEAN : [g EXCEPT !.todo = T, !.any = b] \in Gates
        /\ [g EXCEPT !.todo = T] \in Gates
        /\ g.todo \ T \in SUBSET {"open", "any"}
        /\ \A s \in Strategy : /\ [g EXCEPT !.strategy = s] \in Gates
                               /\ [g EXCEPT !.strategy = s].strategy = s
  BY DEF Gates
<1>1. CASE StartTick(p)
  <2>1. gates' \in [Tick -> Gates]
    BY <1>1, <1>g DEF StartTick, LocalsOK
  <2> QED
    BY <1>1, <1>p, <2>1, LocalStepKeepsTypeInv
    DEF StartTick, LocalsOK, Goto, Places, IntentPlaces, Others, rows, external
<1>2. CASE ReadOpen(p)
  <2> DEFINE todo == gates[p].todo \ {"open"}
             new == [gates[p] EXCEPT !.todo = todo, !.open = OpenStrategies]
  <2>1. gates' = [gates EXCEPT ![p] = new]
    BY <1>2 DEF ReadOpen, LocalsOK
  <2>2. new \in Gates
    <3>1. gates[p] \in Gates /\ OpenStrategies \in SUBSET Strategy
      BY OpenStrategiesKnown DEF LocalsOK
    <3>2. todo \in SUBSET {"open", "any"}
      BY <1>g, <3>1
    <3> HIDE DEF todo
    <3> QED
      BY <1>g, <3>1, <3>2
  <2> HIDE DEF new
  <2>3. gates' \in [Tick -> Gates] /\ \A q \in Tick \ {p} : gates'[q] = gates[q]
    BY <2>1, <2>2 DEF LocalsOK
  <2> QED
    BY <1>2, <1>p, <2>3, LocalStepKeepsTypeInv
    DEF ReadOpen, LocalsOK, IntentPlaces, Others, rows, external
<1>3. CASE ReadAny(p)
  <2> DEFINE todo == gates[p].todo \ {"any"}
             new(b) == [gates[p] EXCEPT !.todo = todo, !.any = b]
  <2>1. PICK b \in BOOLEAN : gates' = [gates EXCEPT ![p] = new(b)]
    BY <1>3 DEF ReadAny, LocalsOK
  <2>2. new(b) \in Gates
    <3>1. gates[p] \in Gates
      BY DEF LocalsOK
    <3>2. todo \in SUBSET {"open", "any"}
      BY <1>g, <3>1
    <3> HIDE DEF todo
    <3> QED
      BY <1>g, <3>1, <3>2
  <2> HIDE DEF new
  <2>3. gates' \in [Tick -> Gates] /\ \A q \in Tick \ {p} : gates'[q] = gates[q]
    BY <2>1, <2>2 DEF LocalsOK
  <2> QED
    BY <1>3, <1>p, <2>3, LocalStepKeepsTypeInv
    DEF ReadAny, LocalsOK, IntentPlaces, Others, rows, external
<1>4. CASE ReadFails(p)
  BY <1>4, <1>p, StopEffect, LocalStepKeepsTypeInv
  DEF ReadFails, IntentPlaces, rows, external
<1>5. CASE Refuse(p) \/ InsertRefused(p)
  <2>1. NextPhase(p)
    BY <1>5 DEF Refuse, InsertRefused
  <2>2. LocalsOK' /\ Others(p) /\ pc'[p] \in {"idle", "answered", "gates"}
    BY <2>1, NextPhaseEffect
  <2> QED
    BY <1>5, <1>p, <2>2, LocalStepKeepsTypeInv
    DEF Refuse, InsertRefused, IntentPlaces, rows, external
<1>6. CASE Allow(p)
  <2>1. PICK s \in Strategy : gates' = [gates EXCEPT ![p].strategy = s]
    BY <1>6 DEF Allow
  <2> DEFINE new == [gates[p] EXCEPT !.strategy = s]
  <2>2. gates \in [Tick -> Gates] /\ gates' = [gates EXCEPT ![p] = new]
    BY <2>1 DEF LocalsOK
  <2>3. new \in Gates /\ new.strategy = s
    BY <1>g, <2>2
  <2> HIDE DEF new
  <2>4. gates' \in [Tick -> Gates] /\ gates'[p].strategy \in Strategy
    BY <2>2, <2>3
  <2> QED
    BY <1>6, <1>p, <2>2, <2>4, LocalStepKeepsTypeInv
    DEF Allow, LocalsOK, Goto, Places, IntentPlaces, Others, rows, external
<1>7. CASE FindOpen(p)
  <2>1. CASE NextPhase(p)
    BY <1>7, <1>p, <2>1, NextPhaseEffect, LocalStepKeepsTypeInv
    DEF FindOpen, IntentPlaces, rows, external
  <2>2. CASE Goto(p, "insert") /\ UNCHANGED <<cur, gates, move, attempt>>
    BY <1>7, <1>p, <2>2, LocalStepKeepsTypeInv
    DEF FindOpen, StrategiesKnown, LocalsOK, Goto, Places, IntentPlaces, Others, rows, external
  <2> QED
    BY <1>7, <2>1, <2>2 DEF FindOpen
<1> QED
  BY <1>1, <1>2, <1>3, <1>4, <1>5, <1>6, <1>7

LEMMA RecordTypes ==
  /\ \A st \in Status, sg \in Strategy \union {"none"} :
       [status |-> st, strategy |-> sg] \in [status : Status, strategy : Strategy \union {"none"}]
  /\ \A x \in [status : Status, strategy : Strategy \union {"none"}] :
       x.status \in Status /\ x.strategy \in Strategy \union {"none"}
OBVIOUS

\* Setting a status keeps the row's strategy and the other rows.
LEMMA SetStatusEffect ==
  ASSUME RowsOK, NEW i \in Intent, NEW st \in Status, SetStatus(i, st)
  PROVE  /\ RowsOK'
         /\ intent'[i].status = st
         /\ \A j \in Intent : intent'[j].strategy = intent[j].strategy
         /\ \A j \in Intent \ {i} : intent'[j] = intent[j]
BY DEF RowsOK, SetStatus

\* Proposing.
LEMMA InsertTypes ==
  ASSUME TypeInv, NEW p \in Tick, Insert(p)
  PROVE  TypeInv'
<1> USE TypeInvParts
<1>p. p \in Proc
  BY DEF Proc
<1>1. PICK i \in Intent :
        /\ intent[i].status = "none"
        /\ intent' = [intent EXCEPT ![i] =
                        [status |-> "proposed", strategy |-> gates[p].strategy]]
        /\ \/ /\ Goto(p, "execute")
              /\ cur' = [cur EXCEPT ![p] = i]
              /\ gates' = [gates EXCEPT ![p] = NoGates]
              /\ UNCHANGED <<move, attempt>>
           \/ Stop(p)
           \/ DbFaults /\ NextPhase(p)
  BY DEF Insert
<1>2. gates[p].strategy \in Strategy
  BY DEF Insert, StrategiesKnown
<1>3. /\ RowsOK'
      /\ intent'[i].status = "proposed" /\ intent'[i].strategy = gates[p].strategy
      /\ \A j \in Intent \ {i} : intent'[j] = intent[j]
  BY <1>1, <1>2 DEF RowsOK, Status
<1>4. /\ tickets' = tickets /\ run' = run /\ reaper' = reaper
      /\ lost' = lost /\ crashes' = crashes
  BY DEF Insert, external
<1>5. RunsOfIntents'
  BY <1>3, <1>4 DEF RunsOfIntents
<1>6. \A j \in Intent : /\ intent[j].status /= "none" => intent'[j].status /= "none"
                        /\ intent'[j].status /= "none" => intent'[j].strategy \in Strategy
  BY <1>2, <1>3 DEF StrategiesKnown
<1>7. /\ LocalsOK' /\ Others(p)
      /\ \/ pc'[p] \in {"idle", "answered", "gates"}
         \/ pc'[p] = "execute" /\ cur'[p] = i
  <2>1. CASE /\ Goto(p, "execute")
             /\ cur' = [cur EXCEPT ![p] = i]
             /\ gates' = [gates EXCEPT ![p] = NoGates]
             /\ UNCHANGED <<move, attempt>>
    BY <1>p, <2>1, Literals DEF LocalsOK, Goto, Places, IntentPlaces, Others
  <2>2. CASE Stop(p)
    BY <1>p, <2>2, StopEffect
  <2>3. CASE NextPhase(p)
    BY <2>3, NextPhaseEffect
  <2> QED
    BY <1>1, <2>1, <2>2, <2>3
<1> QED
  BY <1>p, <1>3, <1>4, <1>5, <1>6, <1>7, ProcessKeepsTypeInv DEF IntentPlaces

\* Where a call goes on after it wrote the status.
LEMMA WrittenEffect ==
  ASSUME TypeInv, NEW p \in Proc, pc[p] = "write_status", Written(p)
  PROVE  /\ LocalsOK' /\ Others(p)
         /\ \/ pc'[p] \in {"idle", "answered", "submit"} /\ cur' = cur
            \/ pc'[p] \in {"idle", "answered"}
            \/ /\ pc'[p] = "read_status" /\ cur' = cur /\ move'[p].to = "filled"
               /\ p \in Callback /\ move[p].to = "executing"
            \/ /\ pc'[p] = "publish" /\ cur' = cur /\ move' = move
               /\ move[p].to = "filled"
<1> USE TypeInvParts
<1>1. CASE move[p].to = "executing" /\ p \in Tick
  <2>1. /\ Goto(p, "submit")
        /\ move' = [move EXCEPT ![p] = NoMove]
        /\ UNCHANGED <<cur, gates, attempt>>
    BY <1>1, DeskConfig DEF Written
  <2> QED
    BY <2>1, Literals DEF LocalsOK, Goto, Places, IntentPlaces, Others
<1>2. CASE move[p].to = "executing" /\ p \in Callback
  <2>1. "filled" \in Status
    BY DEF Status
  <2>2. p \notin Tick
    BY <1>2, DeskConfig
  <2>3. Change(p, "filled")
    BY <1>2, <2>2 DEF Written
  <2> QED
    BY <1>2, <2>1, <2>3, ChangeEffect
<1>3. CASE move[p].to = "filled"
  BY <1>3 DEF Written, LocalsOK, Goto, Places, IntentPlaces, Others
<1>4. CASE move[p].to \notin {"executing", "filled"}
  <2>1. Stop(p)
    BY <1>4 DEF Written
  <2> QED
    BY <2>1, StopEffect
<1> QED
  BY <1>1, <1>2, <1>3, <1>4 DEF Proc

\* Changing a status and publishing the ticket.
LEMMA StatusStepTypes ==
  ASSUME TypeInv, NEW p \in Proc, StatusStep(p)
  PROVE  TypeInv'
<1> USE TypeInvParts
<1>c. cur[p] \in Intent /\ intent[cur[p]].status /= "none"
  BY DEF StatusStep, ReadStatus, WriteStatus, Publish, InHand, IntentPlaces
<1>t. ASSUME Threw(p)
      PROVE  /\ LocalsOK' /\ Others(p)
             /\ \/ pc'[p] \in {"idle", "answered"}
                \/ pc'[p] = "read_status" /\ cur' = cur /\ move'[p].to = "failed"
  BY <1>t, ThrewEffect
<1>1. CASE ReadStatus(p)
  <2>1. lost' \subseteq Intent
    BY <1>c, <1>1 DEF ReadStatus
  <2>2. CASE /\ Goto(p, "write_status")
             /\ UNCHANGED <<cur, gates, move, attempt, lost>>
    BY <1>1, <2>1, <2>2, LocalStepKeepsTypeInv
    DEF ReadStatus, LocalsOK, Goto, Places, IntentPlaces, Others, rows, external,
        MovesKnown, Deciding
  <2>3. CASE Threw(p)
    BY <1>1, <1>t, <2>1, <2>3, LocalStepKeepsTypeInv
    DEF ReadStatus, IntentPlaces, rows, external
  <2> QED
    BY <1>1, <2>2, <2>3 DEF ReadStatus
<1>2. CASE WriteStatus(p)
  <2> DEFINE to == move[p].to
  <2>1. to \in Status /\ to /= "none"
    BY <1>2 DEF WriteStatus, MovesKnown, Deciding, LocalsOK, Move
  <2>2. /\ tickets' = tickets /\ run' = run /\ reaper' = reaper /\ crashes' = crashes
        /\ lost' \subseteq Intent
    BY <1>c, <1>2 DEF WriteStatus, external
  <2>3. SetStatus(cur[p], to) \/ intent' = intent
    BY <1>2 DEF WriteStatus
  <2>4. /\ RowsOK'
        /\ \A j \in Intent : /\ intent[j].status /= "none" => intent'[j].status /= "none"
                             /\ intent'[j].status /= "none" => intent[j].status /= "none"
                             /\ intent'[j].strategy = intent[j].strategy
    BY <1>c, <2>1, <2>3, SetStatusEffect DEF RowsOK
  <2>5. RunsOfIntents'
    BY <2>2, <2>4 DEF RunsOfIntents
  <2>6. CASE Threw(p)
    BY <1>c, <1>t, <2>2, <2>4, <2>5, <2>6, ProcessKeepsTypeInv
    DEF IntentPlaces, StrategiesKnown
  <2>7. CASE Written(p)
    BY <1>c, <1>2, <2>2, <2>4, <2>5, <2>7, WrittenEffect, ProcessKeepsTypeInv
    DEF WriteStatus, IntentPlaces, StrategiesKnown
  <2> QED
    BY <1>2, <2>6, <2>7 DEF WriteStatus
<1>3. CASE Publish(p)
  <2>1. /\ tickets' \in [Intent -> Nat]
        /\ UNCHANGED <<intent, run, reaper, lost, crashes>>
    BY <1>c, <1>3 DEF Publish, external
  <2>2. /\ LocalsOK' /\ Others(p)
        /\ \/ pc'[p] \in {"idle", "answered"}
           \/ pc'[p] = "read_status" /\ cur' = cur /\ move'[p].to = "failed"
    BY <1>3, <1>t, StopEffect DEF Publish
  <2>3. RunsOfIntents' /\ RowsOK'
    BY <2>1 DEF RunsOfIntents, RowsOK
  <2> QED
    BY <1>c, <2>1, <2>2, <2>3, ProcessKeepsTypeInv DEF IntentPlaces, StrategiesKnown
<1> QED
  BY <1>1, <1>2, <1>3 DEF StatusStep

\* Executing the intent as a workflow run.
LEMMA RunStepTypes ==
  ASSUME TypeInv, NEW p \in Tick,
         \/ Execute(p) \/ Submit(p) \/ SubmitFails(p)
         \/ Receipt(p) \/ NoTxHash(p) \/ WaitFails(p)
  PROVE  TypeInv'
<1> USE TypeInvParts
<1>p. p \in Proc
  BY DEF Proc
<1>c. pc[p] \in {"execute", "submit", "wait"} /\ cur[p] \in Intent
      /\ intent[cur[p]].status /= "none"
  BY <1>p DEF Execute, Submit, SubmitFails, Receipt, NoTxHash, WaitFails, InHand, IntentPlaces
<1>s. {"executing", "filled", "failed"} \subseteq Status
  BY DEF Status
<1>f. ASSUME NEW to \in {"filled", "failed"}, Change(p, to)
      PROVE  /\ LocalsOK' /\ Others(p)
             /\ pc'[p] = "read_status" /\ cur' = cur /\ move'[p].to = to
  BY <1>f, <1>p, <1>s, ChangeEffect
<1>a. ASSUME TryAgain(p)
      PROVE  LocalsOK' /\ Others(p) /\ pc'[p] = "submit" /\ cur' = cur
  BY <1>a, <1>p DEF TryAgain, LocalsOK, Goto, Places, IntentPlaces, Others
<1>n. ASSUME NEW to \in {"executing", "failed"}, NEW a \in Attempt,
             Goto(p, "read_status"),
             move' = [move EXCEPT ![p] = [NoMove EXCEPT !.to = to]],
             attempt' = [attempt EXCEPT ![p] = a],
             UNCHANGED <<cur, gates>>
      PROVE  /\ LocalsOK' /\ Others(p)
             /\ pc'[p] = "read_status" /\ cur' = cur /\ move'[p].to = to
  <2> DEFINE new == [NoMove EXCEPT !.to = to]
  <2>1. new \in Move /\ new.to = to
    BY <1>s, MoveType DEF NoMove
  <2> HIDE DEF new
  <2>2. move' = [move EXCEPT ![p] = new]
    BY <1>n DEF new
  <2> QED
    BY <1>n, <1>p, <2>1, <2>2 DEF LocalsOK, Goto, Places, IntentPlaces, Others
<1>r. /\ Started(p) \in [Intent -> [Key -> RunState]]
      /\ \A i \in Intent, k \in Key :
           Started(p)[i][k] /= "none" => run[i][k] /= "none" \/ i = cur[p]
  BY <1>c DEF Started, RunState
<1>1. CASE Execute(p)
  <2>1. /\ LocalsOK' /\ Others(p)
        /\ pc'[p] = "read_status" /\ cur' = cur /\ move'[p].to /= "none"
    <3>1. CASE Change(p, "failed")
      BY <1>f, <3>1
    <3>2. CASE /\ Goto(p, "read_status")
               /\ move' = [move EXCEPT ![p] = [NoMove EXCEPT !.to = "executing"]]
               /\ attempt' = [attempt EXCEPT ![p] = IF UseMcp THEN "mcp" ELSE "rest"]
               /\ UNCHANGED <<cur, gates>>
      <4>1. (IF UseMcp THEN "mcp" ELSE "rest") \in Attempt
        BY DEF Attempt
      <4> QED
        BY <1>n, <3>2, <4>1
    <3> QED
      BY <1>1, <3>1, <3>2 DEF Execute
  <2> QED
    BY <1>1, <1>p, <2>1, LocalStepKeepsTypeInv DEF Execute, IntentPlaces, rows, external
<1>2. CASE Receipt(p)
  BY <1>2, <1>p, <1>f, LocalStepKeepsTypeInv DEF Receipt, IntentPlaces, rows, external
<1>3. CASE NoTxHash(p)
  <2>1. /\ LocalsOK' /\ Others(p)
        /\ pc'[p] = "read_status" /\ cur' = cur /\ move'[p].to = "failed"
    BY <1>3, <1>n, Literals DEF NoTxHash
  <2> QED
    BY <1>3, <1>p, <2>1, LocalStepKeepsTypeInv DEF NoTxHash, IntentPlaces, rows, external
<1>4. CASE WaitFails(p)
  <2>1. lost' \subseteq Intent
    BY <1>4, <1>c DEF WaitFails
  <2>2. /\ LocalsOK' /\ Others(p) /\ cur' = cur
        /\ pc'[p] = "submit" \/ (pc'[p] = "read_status" /\ move'[p].to = "failed")
    BY <1>4, <1>a, <1>f DEF WaitFails
  <2> QED
    BY <1>4, <1>p, <2>1, <2>2, LocalStepKeepsTypeInv DEF WaitFails, IntentPlaces, rows, external
<1>5. CASE Submit(p) \/ SubmitFails(p)
  <2>1. run' \in {run, Started(p)}
    BY <1>5 DEF Submit, SubmitFails
  <2>2. run' \in [Intent -> [Key -> RunState]] /\ RunsOfIntents'
    BY <1>5, <1>c, <1>r, <2>1 DEF Submit, SubmitFails, RunsOfIntents, rows
  <2>3. /\ UNCHANGED <<rows, reaper, crashes>>
        /\ lost' \subseteq Intent
    BY <1>5, <1>c DEF Submit, SubmitFails
  <2>4. /\ LocalsOK' /\ Others(p) /\ cur' = cur
        /\ \/ pc'[p] \in {"submit", "wait"}
           \/ pc'[p] = "read_status" /\ move'[p].to = "failed"
    <3>1. CASE Submit(p)
      BY <1>p, <3>1 DEF Submit, LocalsOK, Goto, Places, IntentPlaces, Others
    <3>2. CASE SubmitFails(p)
      BY <1>a, <1>f, <3>2 DEF SubmitFails
    <3> QED
      BY <1>5, <3>1, <3>2
  <2>5. /\ RowsOK' /\ tickets' \in [Intent -> Nat]
        /\ \A i \in Intent : intent'[i] = intent[i]
    BY <2>3 DEF RowsOK, rows
  <2> QED
    BY <1>p, <1>c, <2>2, <2>3, <2>4, <2>5, ProcessKeepsTypeInv
    DEF IntentPlaces, StrategiesKnown
<1> QED
  BY <1>1, <1>2, <1>3, <1>4, <1>5

\* What a report of KeeperHub makes the callback do.
LEMMA ReportEffect ==
  ASSUME TypeInv, NEW c \in Callback, Report(c)
  PROVE  /\ LocalsOK' /\ Others(c)
         /\ pc'[c] = "read_status"
         /\ \E i \in Intent, k \in Key :
              /\ cur'[c] = i
              /\ run[i][k] \in {"done", "failed"}
              /\ move'[c].to \in {"executing", "filled", "failed"}
              /\ run[i][k] = "failed" => move'[c].to = "failed"
              /\ move'[c].to = "failed" => run[i][k] = "failed"
              /\ move'[c].to = "executing" => intent[i].status = "proposed"
<1> USE TypeInvParts
<1>c. c \in Proc
  BY DEF Proc
<1>1. PICK i \in Intent, k \in Key, to \in Status, f \in BOOLEAN :
        /\ run[i][k] \in {"done", "failed"}
        /\ cur' = [cur EXCEPT ![c] = i]
        /\ move' = [move EXCEPT ![c] = [NoMove EXCEPT !.to = to, !.force = f]]
        /\ to \in {"executing", "filled", "failed"}
        /\ run[i][k] = "failed" => to = "failed"
        /\ to = "failed" => run[i][k] = "failed"
        /\ to = "executing" => intent[i].status = "proposed"
  <2>1. PICK i \in Intent, k \in Key :
          LET existing == intent[i].status
              to == IF run[i][k] = "failed" THEN "failed"
                    ELSE IF existing = "proposed" THEN "executing" ELSE "filled"
          IN  /\ run[i][k] \in {"done", "failed"}
              /\ cur' = [cur EXCEPT ![c] = i]
              /\ move' = [move EXCEPT ![c] =
                            [NoMove EXCEPT !.to = to,
                                           !.force = (to = "filled" /\ existing = "failed")]]
    BY DEF Report
  <2> DEFINE to == IF run[i][k] = "failed" THEN "failed"
                   ELSE IF intent[i].status = "proposed" THEN "executing" ELSE "filled"
             f == (to = "filled" /\ intent[i].status = "failed")
  <2>2. /\ to \in {"executing", "filled", "failed"}
        /\ run[i][k] = "failed" => to = "failed"
        /\ to = "failed" => run[i][k] = "failed"
        /\ to = "executing" => intent[i].status = "proposed"
    OBVIOUS
  <2>3. f \in BOOLEAN /\ to \in Status
    BY <2>2 DEF Status
  <2>4. /\ run[i][k] \in {"done", "failed"}
        /\ cur' = [cur EXCEPT ![c] = i]
        /\ move' = [move EXCEPT ![c] = [NoMove EXCEPT !.to = to, !.force = f]]
    BY <2>1
  <2> HIDE DEF to, f
  <2> QED
    BY <2>2, <2>3, <2>4
<1> DEFINE new == [NoMove EXCEPT !.to = to, !.force = f]
<1>2. new \in Move /\ new.to = to
  BY MoveType DEF NoMove
<1>3. move' = [move EXCEPT ![c] = new]
  BY <1>1
<1> HIDE DEF new
<1>4. Goto(c, "read_status") /\ UNCHANGED <<gates, attempt>>
  BY DEF Report
<1> QED
  BY <1>c, <1>1, <1>2, <1>3, <1>4 DEF LocalsOK, Goto, Places, IntentPlaces, Others

LEMMA ReportTypes ==
  ASSUME TypeInv, NEW c \in Callback, Report(c)
  PROVE  TypeInv'
<1> USE TypeInvParts
<1>c. c \in Proc /\ c \notin Tick
  BY DeskConfig DEF Proc
<1>1. /\ LocalsOK' /\ Others(c)
      /\ pc'[c] = "read_status" /\ cur'[c] \in Intent
      /\ intent[cur'[c]].status /= "none" /\ move'[c].to /= "none"
  BY ReportEffect DEF RunsOfIntents
<1>2. UNCHANGED <<intent, tickets, run, reaper, lost, crashes>>
  BY DEF Report, rows, external
<1>3. RowsOK' /\ RunsOfIntents'
  BY <1>2 DEF RowsOK, RunsOfIntents
<1> QED
  BY <1>c, <1>1, <1>2, <1>3, ProcessKeepsTypeInv DEF StrategiesKnown

\* KeeperHub and the reaper touch no process.
LEMMA WorldKeepsTypeInv ==
  ASSUME TypeInv, UNCHANGED locals, RowsOK', RunsOfIntents',
         tickets' = tickets, run' \in [Intent -> [Key -> RunState]], ReaperKnown',
         reaper' \in [listed : BOOLEAN, todo : SUBSET Intent],
         lost' \subseteq Intent, crashes' \in Nat,
         \A i \in Intent : intent[i].status /= "none" => intent'[i].status /= "none",
         \A i \in Intent : intent'[i].status /= "none" => intent'[i].strategy \in Strategy
  PROVE  TypeInv'
BY DEF TypeInv, TypeOK, StrategiesKnown, MovesKnown, Deciding, RowsOK, locals

LEMMA KeeperHubTypes ==
  ASSUME TypeInv, NEW i \in Intent, RunOutside(i) \/ \E k \in Key : RunEnds(i, k)
  PROVE  TypeInv'
<1> USE TypeInvParts
<1>1. run' \in [Intent -> [Key -> RunState]] /\ RunsOfIntents'
  <2>1. CASE RunOutside(i)
    BY <2>1 DEF RunOutside, RunState, Key, RunsOfIntents, rows
  <2>2. CASE \E k \in Key : RunEnds(i, k)
    BY <2>2 DEF RunEnds, RunState, RunsOfIntents, rows
  <2> QED
    BY <2>1, <2>2
<1>2. UNCHANGED <<intent, tickets, locals, reaper, lost, crashes>>
  BY DEF RunOutside, RunEnds, rows
<1> QED
  BY <1>1, <1>2, WorldKeepsTypeInv DEF RowsOK, StrategiesKnown, ReaperKnown

LEMMA ReaperTypes ==
  ASSUME TypeInv, ReaperStep
  PROVE  TypeInv'
<1> USE TypeInvParts
<1>1. CASE ReapList
  <2>1. reaper' \in [listed : BOOLEAN, todo : SUBSET Intent]
    <3>1. PICK T \in SUBSET Intent : reaper' = [listed |-> TRUE, todo |-> T]
      BY <1>1 DEF ReapList, Abandoned
    <3> QED
      BY <3>1
  <2>2. UNCHANGED <<intent, run, tickets, locals, lost, crashes>>
    BY <1>1 DEF ReapList, rows, external
  <2>3. RowsOK' /\ RunsOfIntents' /\ ReaperKnown'
    BY <1>1, <2>2 DEF ReapList, Abandoned, RowsOK, RunsOfIntents, ReaperKnown
  <2> QED
    BY <2>1, <2>2, <2>3, WorldKeepsTypeInv DEF StrategiesKnown
<1>2. ASSUME NEW i \in Intent, Reap(i)
      PROVE  TypeInv'
  <2>1. reaper' \in [listed : BOOLEAN, todo : SUBSET Intent]
    <3>1. \A r \in [listed : BOOLEAN, todo : SUBSET Intent] :
            /\ r.todo \ {i} \in SUBSET Intent
            /\ \A T \in SUBSET Intent :
                 [r EXCEPT !.todo = T] \in [listed : BOOLEAN, todo : SUBSET Intent]
      OBVIOUS
    <3> DEFINE T == reaper.todo \ {i}
    <3>2. T \in SUBSET Intent
      BY <3>1
    <3>3. reaper' = [reaper EXCEPT !.todo = T]
      BY <1>2 DEF Reap
    <3> HIDE DEF T
    <3> QED
      BY <3>1, <3>2, <3>3
  <2>2. UNCHANGED <<run, tickets, locals, crashes>> /\ lost' \subseteq Intent
    BY <1>2 DEF Reap, external
  <2>3. /\ RowsOK'
        /\ \A j \in Intent : /\ j = i \/ intent'[j].status = intent[j].status
                             /\ intent'[j].strategy = intent[j].strategy
        /\ intent'[i].status \in {"failed", intent[i].status}
    <3>1. CASE SetStatus(i, "failed")
      BY <1>2, <3>1, SetStatusEffect DEF Status
    <3>2. CASE intent' = intent
      BY <1>2, <3>2 DEF RowsOK
    <3> QED
      BY <1>2, <3>1, <3>2 DEF Reap
  <2>4. \A j \in Intent : /\ intent[j].status /= "none" => intent'[j].status /= "none"
                          /\ intent'[j].status /= "none" => intent'[j].strategy \in Strategy
    BY <1>2, <2>3 DEF Reap, ReaperKnown, StrategiesKnown
  <2>5. RunsOfIntents'
    BY <2>2, <2>4 DEF RunsOfIntents
  <2>6. ReaperKnown'
    BY <1>2, <2>4 DEF Reap, ReaperKnown
  <2> QED
    BY <2>1, <2>2, <2>3, <2>4, <2>5, <2>6, WorldKeepsTypeInv
<1> QED
  BY <1>1, <1>2 DEF ReaperStep

LEMMA CrashTypes ==
  ASSUME TypeInv, Crash
  PROVE  TypeInv'
<1> USE TypeInvParts
<1>1. \A p \in Proc : pc'[p] \in {"idle", "answered"}
  BY RestType DEF Crash
<1>2. LocalsOK'
  <2>1. pc' \in [Proc -> Places]
    BY RestType DEF Crash, Places
  <2>2. /\ cur' \in [Proc -> Intent \union {NoIntent}]
        /\ gates' \in [Tick -> Gates]
        /\ move' \in [Proc -> Move]
        /\ attempt' \in [Tick -> Attempt]
    BY Literals DEF Crash
  <2> QED
    BY <2>1, <2>2 DEF LocalsOK
<1>3. /\ UNCHANGED <<intent, tickets, run, lost>>
      /\ reaper' \in [listed : BOOLEAN, todo : SUBSET Intent]
      /\ crashes' \in Nat
  BY DEF Crash, rows, external
<1>4. RunsOfIntents' /\ StrategiesKnown' /\ MovesKnown' /\ ReaperKnown'
  BY <1>1, <1>3 DEF Crash, RunsOfIntents, StrategiesKnown, MovesKnown, ReaperKnown, Deciding,
                    Proc
<1>5. TypeOK'
  BY <1>1, <1>2, <1>3 DEF TypeOK, LocalsOK, RowsOK, Places, IntentPlaces
<1> QED
  BY <1>4, <1>5 DEF TypeInv

LEMMA NextKeepsTypeInv == TypeInv /\ [Next]_vars => TypeInv'
<1> SUFFICES ASSUME TypeInv, [Next]_vars PROVE TypeInv'
  OBVIOUS
<1>1. ASSUME NEW p \in Tick, StartTick(p) \/ TickStep(p)
      PROVE  TypeInv'
  BY <1>1, GateStepTypes, InsertTypes, RunStepTypes DEF TickStep
<1>2. ASSUME NEW p \in Proc, StatusStep(p)
      PROVE  TypeInv'
  BY <1>2, StatusStepTypes
<1>3. ASSUME NEW c \in Callback, Report(c)
      PROVE  TypeInv'
  BY <1>3, ReportTypes
<1>4. ASSUME NEW i \in Intent, RunOutside(i) \/ \E k \in Key : RunEnds(i, k)
      PROVE  TypeInv'
  BY <1>4, KeeperHubTypes
<1>5. CASE ReaperStep
  BY <1>5, ReaperTypes
<1>6. CASE Crash
  BY <1>6, CrashTypes
<1>7. CASE UNCHANGED vars
  BY <1>7 DEF vars, TypeInv, TypeOK, RunsOfIntents, StrategiesKnown, MovesKnown, ReaperKnown,
              Deciding
<1> QED
  BY <1>1, <1>2, <1>3, <1>4, <1>5, <1>6, <1>7 DEF Next

LEMMA TypesAreInvariant == Spec => []TypeInv
BY InitTypeInv, NextKeepsTypeInv, PTL DEF Spec

\* The desk is well typed, and a process at a step on an intent has one that
\* exists: no interleaving of ticks, callbacks, reaper and restarts makes
\* IntentService work on a missing row.
THEOREM TypeCorrect == Spec => []TypeOK
BY TypesAreInvariant, PTL DEF TypeInv

-----------------------------------------------------------------------------
(* One open intent per strategy *)

\* What the unique index lets into a row keeps it unique.
LEMMA IndexKeepsUnique ==
  ASSUME OneOpenPerStrategy, NEW i \in Intent,
         \A j \in Intent \ {i} : intent'[j] = intent[j],
         IndexAllows(i, intent'[i].strategy, intent'[i].status)
  PROVE  OneOpenPerStrategy'
BY DEF OneOpenPerStrategy, IndexAllows, Open

LEMMA NextKeepsUnique == TypeInv /\ OneOpenPerStrategy /\ [Next]_vars => OneOpenPerStrategy'
<1> SUFFICES ASSUME TypeInv, OneOpenPerStrategy, [Next]_vars PROVE OneOpenPerStrategy'
  OBVIOUS
<1> USE TypeInvParts
<1>1. ASSUME intent' = intent PROVE OneOpenPerStrategy'
  BY <1>1 DEF OneOpenPerStrategy, Open
<1>2. ASSUME NEW p \in Tick, Insert(p)
      PROVE  OneOpenPerStrategy'
  <2>1. PICK i \in Intent :
          /\ IndexAllows(i, gates[p].strategy, "proposed")
          /\ intent' = [intent EXCEPT ![i] =
                          [status |-> "proposed", strategy |-> gates[p].strategy]]
    BY <1>2 DEF Insert
  <2>2. /\ intent'[i].strategy = gates[p].strategy /\ intent'[i].status = "proposed"
        /\ \A j \in Intent \ {i} : intent'[j] = intent[j]
    BY <2>1 DEF RowsOK
  <2> QED
    BY <2>1, <2>2, IndexKeepsUnique
<1>3. ASSUME NEW p \in Proc, WriteStatus(p)
      PROVE  OneOpenPerStrategy'
  <2>1. cur[p] \in Intent /\ move[p].to \in Status
    BY <1>3 DEF WriteStatus, InHand, IntentPlaces, LocalsOK, Move
  <2>2. CASE /\ IndexAllows(cur[p], intent[cur[p]].strategy, move[p].to)
             /\ SetStatus(cur[p], move[p].to)
    BY <2>1, <2>2, SetStatusEffect, IndexKeepsUnique
  <2> QED
    BY <1>1, <1>3, <2>2 DEF WriteStatus
<1>4. ASSUME NEW i \in Intent, Reap(i)
      PROVE  OneOpenPerStrategy'
  <2>1. CASE SetStatus(i, "failed")
    <3>1. IndexAllows(i, intent'[i].strategy, "failed") /\ "failed" \in Status
      BY DEF IndexAllows, OpenStatuses, Status
    <3> QED
      BY <1>4, <2>1, <3>1, SetStatusEffect, IndexKeepsUnique
  <2> QED
    BY <1>1, <1>4, <2>1 DEF Reap
<1>5. ASSUME NEW p \in Tick, StartTick(p) \/ TickStep(p), ~Insert(p)
      PROVE  intent' = intent
  BY <1>5 DEF StartTick, TickStep, ReadOpen, ReadAny, ReadFails, Refuse, Allow, FindOpen,
              InsertRefused, Execute, Submit, SubmitFails, Receipt, NoTxHash, WaitFails, rows
<1>6. ASSUME NEW p \in Proc, ReadStatus(p) \/ Publish(p)
      PROVE  intent' = intent
  BY <1>6 DEF ReadStatus, Publish, rows
<1>7. ASSUME NEW c \in Callback, Report(c)
      PROVE  intent' = intent
  BY <1>7 DEF Report, rows
<1>8. ASSUME NEW i \in Intent, RunOutside(i) \/ \E k \in Key : RunEnds(i, k)
      PROVE  intent' = intent
  BY <1>8 DEF RunOutside, RunEnds, rows
<1>9. CASE ReapList \/ Crash \/ UNCHANGED vars
  BY <1>1, <1>9 DEF ReapList, Crash, rows, vars
<1> QED
  BY <1>1, <1>2, <1>3, <1>4, <1>5, <1>6, <1>7, <1>8, <1>9 DEF Next, StatusStep, ReaperStep

\* At most one open intent per strategy, for any number of concurrent ticks and
\* callbacks: an update may reopen an intent, but never next to another one.
THEOREM OneOpen == Spec => []OneOpenPerStrategy
<1>1. Init => OneOpenPerStrategy
  BY DEF Init, OneOpenPerStrategy, Open, OpenStatuses
<1> QED
  BY <1>1, TypesAreInvariant, NextKeepsUnique, PTL DEF Spec

-----------------------------------------------------------------------------
(* No fill without a transaction *)

\* Whoever is about to record a fill, or to publish one, has a run that traded;
\* a callback that marks an intent executing does so on its way to filled.
FillsInHand ==
  /\ \A p \in Proc : pc[p] = "publish" => HasFill(cur[p])
  /\ \A p \in Proc : Deciding(p) /\ move[p].to = "filled" => HasFill(cur[p])
  /\ \A c \in Callback : Deciding(c) /\ move[c].to = "executing" => HasFill(cur[c])

\* The inductive invariant behind FilledMeansDone: status and tickets alone do
\* not remember why a process came to write them.
FillInv == FilledMeansDone /\ FillsInHand

\* A run that traded stays so.
LEMMA FillsAreStable ==
  ASSUME TypeInv, [Next]_vars, NEW i \in Intent, HasFill(i)
  PROVE  HasFill(i)'
<1> USE TypeInvParts
<1> SUFFICES ASSUME NEW k \in Key, run[i][k] = "done" PROVE run'[i][k] = "done"
  BY DEF HasFill
<1>1. CASE run' = run
  BY <1>1
<1>2. ASSUME NEW p \in Tick, run' = Started(p) PROVE run'[i][k] = "done"
  BY <1>2 DEF Started
<1>3. ASSUME NEW j \in Intent, NEW h \in Key, RunEnds(j, h) PROVE run'[i][k] = "done"
  BY <1>3 DEF RunEnds
<1>4. ASSUME NEW j \in Intent, RunOutside(j) PROVE run'[i][k] = "done"
  BY <1>4 DEF RunOutside
<1>5. ASSUME NEW p \in Tick, StartTick(p) \/ TickStep(p)
      PROVE  run' = run \/ run' = Started(p)
  BY <1>5 DEF StartTick, TickStep, ReadOpen, ReadAny, ReadFails, Refuse, Allow, FindOpen,
              Insert, InsertRefused, Execute, Submit, SubmitFails, Receipt, NoTxHash,
              WaitFails, external
<1>6. ASSUME NEW p \in Proc, StatusStep(p)
      PROVE  run' = run
  BY <1>6 DEF StatusStep, ReadStatus, WriteStatus, Publish, external
<1>7. ASSUME NEW c \in Callback, Report(c)
      PROVE  run' = run
  BY <1>7 DEF Report, external
<1>8. ReaperStep \/ Crash \/ UNCHANGED vars => run' = run
  BY DEF ReaperStep, ReapList, Reap, Crash, external, vars
<1> QED
  BY <1>1, <1>2, <1>3, <1>4, <1>5, <1>6, <1>7, <1>8 DEF Next

\* A step that only moves process p keeps the invariant if it does for p.
LEMMA ProcessKeepsFillInv ==
  ASSUME TypeInv, FillInv, [Next]_vars, NEW p \in Proc, Others(p),
         pc'[p] = "publish" => cur'[p] \in Intent /\ HasFill(cur'[p]),
         pc'[p] \in {"read_status", "write_status"} /\ move'[p].to = "filled"
           => cur'[p] \in Intent /\ HasFill(cur'[p]),
         p \in Callback /\ pc'[p] \in {"read_status", "write_status"}
           /\ move'[p].to = "executing" => cur'[p] \in Intent /\ HasFill(cur'[p]),
         \A i \in Intent : \/ intent'[i].status = "filled" /\ intent[i].status /= "filled"
                           \/ tickets'[i] > 0 /\ ~(tickets[i] > 0)
                           => HasFill(i)
  PROVE  FillInv'
<1>1. \A q \in Proc \ {p} : pc'[q] = pc[q] /\ cur'[q] = cur[q] /\ move'[q] = move[q]
  BY DEF Others
<1>2. \A q \in Proc : pc[q] \in IntentPlaces => cur[q] \in Intent
  BY TypeInvParts DEF InHand
<1>3. \A i \in Intent : HasFill(i) => HasFill(i)'
  BY FillsAreStable
<1>4. FilledMeansDone'
  BY <1>3 DEF FillInv, FilledMeansDone
<1>5. ASSUME NEW q \in Proc, pc'[q] = "publish"
      PROVE  HasFill(cur[q])'
  BY <1>1, <1>2, <1>3, <1>5 DEF FillInv, FillsInHand, IntentPlaces, HasFill
<1>6. ASSUME NEW q \in Proc, Deciding(q)', move'[q].to = "filled"
      PROVE  HasFill(cur[q])'
  BY <1>1, <1>2, <1>3, <1>6 DEF FillInv, FillsInHand, IntentPlaces, HasFill, Deciding
<1>7. ASSUME NEW q \in Callback, Deciding(q)', move'[q].to = "executing"
      PROVE  HasFill(cur[q])'
  BY <1>1, <1>2, <1>3, <1>7 DEF FillInv, FillsInHand, IntentPlaces, HasFill, Deciding, Proc
<1> QED
  BY <1>4, <1>5, <1>6, <1>7 DEF FillInv, FillsInHand

\* Before a run is asked for, nothing is filled.
LEMMA GateStepKeepsFillInv ==
  ASSUME TypeInv, FillInv, [Next]_vars, NEW p \in Tick,
         \/ StartTick(p) \/ ReadOpen(p) \/ ReadAny(p) \/ ReadFails(p) \/ Refuse(p)
         \/ Allow(p) \/ FindOpen(p) \/ Insert(p) \/ InsertRefused(p)
  PROVE  FillInv'
<1> USE TypeInvParts
<1>p. p \in Proc
  BY DEF Proc
<1>1. \A i \in Intent : intent'[i].status = "filled" => intent[i].status = "filled"
  BY DEF StartTick, ReadOpen, ReadAny, ReadFails, Refuse, Allow, FindOpen, Insert,
         InsertRefused, rows, RowsOK
<1>2. tickets' = tickets
  BY DEF StartTick, ReadOpen, ReadAny, ReadFails, Refuse, Allow, FindOpen, Insert,
         InsertRefused, rows
<1>3. Others(p) /\ pc'[p] \in {"idle", "answered", "gates", "find_open", "insert", "execute"}
  <2>1. CASE StartTick(p) \/ ReadOpen(p) \/ ReadAny(p) \/ Allow(p)
    BY <1>p, <2>1 DEF StartTick, ReadOpen, ReadAny, Allow, LocalsOK, Goto, Others
  <2>2. CASE ReadFails(p)
    BY <1>p, <2>2, StopEffect DEF ReadFails
  <2>3. CASE NextPhase(p)
    BY <2>3, NextPhaseEffect
  <2>4. CASE FindOpen(p) /\ ~NextPhase(p)
    BY <1>p, <2>4 DEF FindOpen, LocalsOK, Goto, Others
  <2>5. CASE Insert(p) /\ ~NextPhase(p)
    <3>1. CASE Stop(p)
      BY <1>p, <3>1, StopEffect
    <3>2. CASE ~Stop(p)
      BY <1>p, <2>5, <3>2 DEF Insert, LocalsOK, Goto, Others
    <3> QED
      BY <3>1, <3>2
  <2> QED
    BY <2>1, <2>2, <2>3, <2>4, <2>5 DEF Refuse, InsertRefused
<1> QED
  BY <1>p, <1>1, <1>2, <1>3, ProcessKeepsFillInv

\* Only a run that ended with a transaction makes its tick record a fill.
LEMMA RunStepKeepsFillInv ==
  ASSUME TypeInv, FillInv, [Next]_vars, NEW p \in Tick,
         \/ Execute(p) \/ Submit(p) \/ SubmitFails(p)
         \/ Receipt(p) \/ NoTxHash(p) \/ WaitFails(p)
  PROVE  FillInv'
<1> USE TypeInvParts
<1>p. p \in Proc /\ p \notin Callback
  BY DeskConfig DEF Proc
<1>1. UNCHANGED <<intent, tickets>>
  BY DEF Execute, Submit, SubmitFails, Receipt, NoTxHash, WaitFails, rows
<1>f. ASSUME NEW to \in {"filled", "failed"}, Change(p, to)
      PROVE  Others(p) /\ pc'[p] = "read_status" /\ cur' = cur /\ move'[p].to = to
  BY <1>f, <1>p, ChangeEffect DEF Status
<1>n. ASSUME NEW to \in {"executing", "failed"}, Goto(p, "read_status"),
             move' = [move EXCEPT ![p] = [NoMove EXCEPT !.to = to]], cur' = cur,
             \A q \in Tick \ {p} : gates'[q] = gates[q]
      PROVE  Others(p) /\ pc'[p] = "read_status" /\ move'[p].to /= "filled"
  <2> DEFINE new == [NoMove EXCEPT !.to = to]
  <2>1. new.to = to
    BY DEF NoMove
  <2> HIDE DEF new
  <2>2. move' = [move EXCEPT ![p] = new]
    BY <1>n DEF new
  <2> QED
    BY <1>n, <1>p, <2>1, <2>2 DEF LocalsOK, Goto, Others
<1>2. CASE Receipt(p)
  <2>1. cur[p] \in Intent
    BY <1>p, <1>2 DEF Receipt, InHand, IntentPlaces
  <2>2. HasFill(cur[p])
    BY <1>2, <2>1 DEF Receipt, RunOf, HasFill, KeyOf, Key
  <2> QED
    BY <1>1, <1>2, <1>f, <1>p, <2>1, <2>2, ProcessKeepsFillInv DEF Receipt
<1>3. CASE ~Receipt(p)
  <2>1. /\ Others(p)
        /\ \/ pc'[p] \in {"submit", "wait"}
           \/ pc'[p] = "read_status" /\ move'[p].to /= "filled"
    <3>1. CASE TryAgain(p)
      BY <1>p, <3>1 DEF TryAgain, LocalsOK, Goto, Others
    <3>2. CASE Change(p, "failed")
      BY <1>f, <3>2
    <3>3. CASE Submit(p)
      BY <1>p, <3>3 DEF Submit, LocalsOK, Goto, Others
    <3>4. CASE Execute(p) /\ ~Change(p, "failed")
      BY <1>n, <3>4 DEF Execute
    <3>5. CASE NoTxHash(p)
      BY <1>n, <3>5 DEF NoTxHash
    <3> QED
      BY <1>3, <3>1, <3>2, <3>3, <3>4, <3>5 DEF SubmitFails, WaitFails
  <2> QED
    BY <1>1, <1>p, <2>1, ProcessKeepsFillInv
<1> QED
  BY <1>2, <1>3

\* The unconditional update writes what its process has in hand, whatever the
\* row became since it was read.
LEMMA StatusStepKeepsFillInv ==
  ASSUME TypeInv, FillInv, [Next]_vars, NEW p \in Proc, StatusStep(p)
  PROVE  FillInv'
<1> USE TypeInvParts
<1>c. cur[p] \in Intent
  BY DEF StatusStep, ReadStatus, WriteStatus, Publish, InHand, IntentPlaces
<1>t. ASSUME Threw(p)
      PROVE  /\ Others(p)
             /\ \/ pc'[p] \in {"idle", "answered"}
                \/ pc'[p] = "read_status" /\ move'[p].to = "failed"
  BY <1>t, ThrewEffect
<1>1. CASE ReadStatus(p)
  <2>1. UNCHANGED <<intent, tickets>>
    BY <1>1 DEF ReadStatus, rows
  <2>2. CASE /\ Goto(p, "write_status")
             /\ UNCHANGED <<cur, gates, move, attempt, lost>>
    <3>1. Others(p) /\ pc'[p] = "write_status"
      BY <2>2 DEF LocalsOK, Goto, Others
    <3>2. move[p].to = "filled" => HasFill(cur[p])
      BY <1>1 DEF ReadStatus, FillInv, FillsInHand, Deciding
    <3>3. p \in Callback /\ move[p].to = "executing" => HasFill(cur[p])
      BY <1>1 DEF ReadStatus, FillInv, FillsInHand, Deciding
    <3> QED
      BY <1>c, <2>1, <2>2, <3>1, <3>2, <3>3, ProcessKeepsFillInv
  <2>3. CASE Threw(p)
    BY <1>t, <2>1, <2>3, ProcessKeepsFillInv
  <2> QED
    BY <1>1, <2>2, <2>3 DEF ReadStatus
<1>2. CASE WriteStatus(p)
  <2> DEFINE to == move[p].to
  <2>1. /\ to = "filled" => HasFill(cur[p])
        /\ p \in Callback /\ to = "executing" => HasFill(cur[p])
    BY <1>2 DEF WriteStatus, FillInv, FillsInHand, Deciding
  <2>2. tickets' = tickets /\ to \in Status
    BY <1>2 DEF WriteStatus, LocalsOK, Move
  <2>3. SetStatus(cur[p], to) \/ intent' = intent
    BY <1>2 DEF WriteStatus
  <2>4. \A i \in Intent : intent'[i].status = "filled" /\ intent[i].status /= "filled"
                          => HasFill(i)
    BY <1>c, <2>1, <2>2, <2>3, SetStatusEffect
  <2>5. CASE Threw(p)
    BY <1>t, <2>2, <2>4, <2>5, ProcessKeepsFillInv
  <2>6. CASE Written(p)
    BY <1>c, <1>2, <2>1, <2>2, <2>4, <2>6, WrittenEffect, ProcessKeepsFillInv
    DEF WriteStatus
  <2> QED
    BY <1>2, <2>5, <2>6 DEF WriteStatus
<1>3. CASE Publish(p)
  <2>1. HasFill(cur[p])
    BY <1>3 DEF Publish, FillInv, FillsInHand
  <2>2. /\ intent' = intent
        /\ \A i \in Intent : tickets'[i] = tickets[i] \/ i = cur[p]
    BY <1>c, <1>3 DEF Publish
  <2>3. Stop(p) \/ Threw(p)
    BY <1>3 DEF Publish
  <2>4. /\ Others(p)
        /\ \/ pc'[p] \in {"idle", "answered"}
           \/ pc'[p] = "read_status" /\ move'[p].to = "failed"
    BY <1>t, <2>3, StopEffect
  <2> QED
    BY <2>1, <2>2, <2>4, ProcessKeepsFillInv
<1> QED
  BY <1>1, <1>2, <1>3 DEF StatusStep

LEMMA ReportKeepsFillInv ==
  ASSUME TypeInv, FillInv, [Next]_vars, NEW c \in Callback, Report(c)
  PROVE  FillInv'
<1>1. c \in Proc /\ UNCHANGED <<intent, tickets>>
  BY DEF Proc, Report, rows
<1>2. PICK i \in Intent, k \in Key :
        /\ cur'[c] = i
        /\ run[i][k] \in {"done", "failed"}
        /\ move'[c].to \in {"executing", "filled", "failed"}
        /\ run[i][k] = "failed" => move'[c].to = "failed"
  BY ReportEffect
<1>3. Others(c) /\ pc'[c] = "read_status"
  BY ReportEffect
<1>4. move'[c].to \in {"executing", "filled"} => HasFill(cur'[c])
  BY <1>2 DEF HasFill
<1> QED
  BY <1>1, <1>2, <1>3, <1>4, ProcessKeepsFillInv

\* KeeperHub, the reaper and a restart write no fill.
LEMMA WorldKeepsFillInv ==
  ASSUME TypeInv, FillInv, [Next]_vars,
         \/ \E i \in Intent : RunOutside(i) \/ \E k \in Key : RunEnds(i, k)
         \/ ReaperStep
         \/ Crash
         \/ UNCHANGED vars
  PROVE  FillInv'
<1> USE TypeInvParts
<1>1. \A i \in Intent : HasFill(i) => HasFill(i)'
  BY FillsAreStable
<1>2. \A i \in Intent : intent'[i].status = "filled" => intent[i].status = "filled"
  BY DEF RunOutside, RunEnds, ReaperStep, ReapList, Reap, SetStatus, Crash, rows, vars, RowsOK
<1>3. tickets' = tickets
  BY DEF RunOutside, RunEnds, ReaperStep, ReapList, Reap, Crash, rows, vars
<1>4. FilledMeansDone'
  BY <1>1, <1>2, <1>3 DEF FillInv, FilledMeansDone
<1>5. FillsInHand'
  <2>1. CASE Crash
    <3>1. \A p \in Proc : pc'[p] \in {"idle", "answered"}
      BY <2>1, RestType DEF Crash
    <3> QED
      BY <3>1 DEF FillsInHand, Deciding, Proc
  <2>2. CASE ~Crash
    <3>1. UNCHANGED <<pc, cur, move>>
      BY <2>2 DEF RunOutside, RunEnds, ReaperStep, ReapList, Reap, locals, vars
    <3>2. \A p \in Proc : pc[p] \in IntentPlaces => cur[p] \in Intent
      BY DEF InHand
    <3>3. \A p \in Proc : pc[p] \in IntentPlaces /\ HasFill(cur[p]) => HasFill(cur[p])'
      BY <1>1, <3>1, <3>2 DEF HasFill
    <3> QED
      BY <3>1, <3>3 DEF FillInv, FillsInHand, Deciding, IntentPlaces, Proc
  <2> QED
    BY <2>1, <2>2
<1> QED
  BY <1>4, <1>5 DEF FillInv

LEMMA NextKeepsFillInv == TypeInv /\ FillInv /\ [Next]_vars => FillInv'
BY GateStepKeepsFillInv, RunStepKeepsFillInv, StatusStepKeepsFillInv, ReportKeepsFillInv,
   WorldKeepsFillInv
DEF Next, TickStep

\* "refusing to log fake fill": whatever the ticks, callbacks, timeouts, faults
\* and restarts do, an intent is filled, and has a ticket, only if a workflow
\* run of it ended with a transaction.
THEOREM NoFakeFill == Spec => []FilledMeansDone
<1>1. Init => FillInv
  BY DEF Init, FillInv, FilledMeansDone, FillsInHand, Deciding, Proc
<1>2. FillInv => FilledMeansDone
  BY DEF FillInv
<1> QED
  BY <1>1, <1>2, TypesAreInvariant, NextKeepsFillInv, PTL DEF Spec

-----------------------------------------------------------------------------
(* A trade that happened is reported failed only for a reason *)

Explained(i) == i \in lost \/ \E k \in Key : run[i][k] = "failed"

\* No run was asked for; none of those asked for trades any more.
Unrun(i) == \A k \in Key : run[i][k] = "none"
Spent(i) == \A k \in Key : run[i][k] \in {"none", "empty"}

\* Only an intent in hand is at an intent's place; a tick shares its own with no
\* other tick, and nobody ran it while it is proposed.
Owned ==
  /\ \A p \in Proc : cur[p] /= NoIntent => pc[p] \in IntentPlaces
  /\ \A p, q \in Tick : cur[p] = cur[q] /\ cur[p] /= NoIntent => p = q
  /\ \A p \in Tick : cur[p] /= NoIntent /\ intent[cur[p]].status = "proposed" => Unrun(cur[p])

\* What a tick knows of its intent, unless its failure is explained already: how
\* far the status has come, and which runs there can be.
TickKnows(p) ==
  LET i == cur[p]
      s == intent[i].status
  IN  /\ Deciding(p) => move[p].to /= "proposed"
      /\ pc[p] = "execute" => s = "proposed"
      /\ Deciding(p) /\ move[p].to = "executing" => s = "proposed" /\ attempt[p] /= "fallback"
      /\ pc[p] = "submit" =>
           /\ s /= "proposed"
           /\ Explained(i) \/ (s = "executing" /\ Unrun(i) /\ attempt[p] /= "fallback")
      /\ pc[p] = "wait" =>
           /\ s /= "proposed"
           /\ \/ Explained(i)
              \/ /\ s \in {"executing", "filled"}
                 /\ run[i]["fallback"] = "none" /\ attempt[p] /= "fallback"
      /\ Deciding(p) /\ move[p].to = "filled" =>
           s /= "proposed" /\ (Explained(i) \/ s \in {"executing", "filled"})
      /\ pc[p] = "publish" => s /= "proposed" /\ (Explained(i) \/ s = "filled")
      /\ pc[p] = "read_status" /\ move[p].to = "failed" =>
           Explained(i) \/ Spent(i) \/ s = "filled"
      /\ pc[p] = "write_status" /\ move[p].to = "failed" => Explained(i) \/ Spent(i)

\* A callback has a run to report, and fails an intent for a run that failed; it
\* marks one executing that no tick has in hand.
CallbackKnows(c) ==
  /\ Deciding(c) => move[c].to /= "proposed"
  /\ cur[c] /= NoIntent => ~Unrun(cur[c])
  /\ Deciding(c) /\ move[c].to = "failed" => Explained(cur[c])
  /\ Deciding(c) /\ move[c].to = "executing" => \A p \in Tick : cur[p] /= cur[c]

FailedIsOver == \A i \in Intent : intent[i].status = "failed" => Explained(i) \/ Spent(i)

FailInv ==
  /\ FailedIsOver
  /\ Owned
  /\ \A p \in Tick : TickKnows(p)
  /\ \A c \in Callback : CallbackKnows(c)
  /\ \A i \in reaper.todo : intent[i].status /= "proposed"

-----------------------------------------------------------------------------
(* What a step leaves of it *)

Aside(p) == Others(p) /\ \A q \in Tick \ {p} : attempt'[q] = attempt[q]

\* What a step may do to an intent that another process has in hand.
Evolves(i) ==
  /\ \A k \in Key : run'[i][k] = run[i][k] \/ run[i][k] = "running"
  /\ i \in lost => i \in lost'
  /\ \/ intent'[i].status = intent[i].status
     \/ intent'[i].status = "filled" /\ ~Unrun(i)
     \/ /\ intent'[i].status = "failed" /\ Explained(i)'
        /\ ~Unrun(i) \/ intent[i].status /= "proposed"

\* Runs are started, and end; what ended stays.
RunsGrow ==
  \A i \in Intent, k \in Key :
    \/ run'[i][k] = run[i][k]
    \/ run[i][k] \in {"none", "running"} /\ run'[i][k] /= "none"

LEMMA ExplainedStays ==
  ASSUME RunsGrow, lost \subseteq lost', NEW i \in Intent
  PROVE  /\ Explained(i) => Explained(i)'
         /\ ~Unrun(i) => ~Unrun(i)'
BY DEF RunsGrow, Explained, Unrun

LEMMA StopLeaves ==
  ASSUME LocalsOK, NEW p \in Proc, Stop(p)
  PROVE  Aside(p) /\ cur'[p] = NoIntent /\ pc'[p] \in {"idle", "answered"}
BY StopEffect DEF Stop, Aside, LocalsOK

LEMMA ChangeLeaves ==
  ASSUME LocalsOK, NEW p \in Proc, NEW to \in Status, Change(p, to)
  PROVE  Aside(p) /\ pc'[p] = "read_status" /\ cur' = cur /\ move'[p].to = to
<1>1. \A q \in Tick \ {p} : attempt'[q] = attempt[q]
  BY DEF Change
<1> QED BY <1>1, ChangeEffect DEF Aside

LEMMA ThrewLeaves ==
  ASSUME LocalsOK, NEW p \in Proc, Threw(p)
  PROVE  /\ Aside(p)
         /\ \/ pc'[p] \in {"idle", "answered"} /\ cur'[p] = NoIntent
            \/ /\ p \in Tick /\ pc'[p] = "read_status" /\ cur' = cur
               /\ move'[p].to = "failed"
<1>1. "failed" \in Status
  BY DEF Status
<1> QED BY <1>1, StopLeaves, ChangeLeaves DEF Threw

\* A tick that stands still keeps what it knows.
LEMMA TickStays ==
  ASSUME TypeInv, NEW q \in Tick, TickKnows(q),
         pc'[q] = pc[q], cur'[q] = cur[q], move'[q] = move[q], attempt'[q] = attempt[q],
         \A i \in Intent : pc[q] \in IntentPlaces /\ i = cur[q] => Evolves(i),
         pc[q] \in IntentPlaces /\ intent[cur[q]].status = "proposed" => Unrun(cur[q])
  PROVE  TickKnows(q)'
<1> SUFFICES ASSUME pc[q] \in IntentPlaces PROVE TickKnows(q)'
  BY DEF TickKnows, IntentPlaces, Deciding
<1>1. PICK i \in Intent : cur[q] = i /\ cur'[q] = i
  BY TypeInvParts DEF InHand, Proc
<1>2. /\ Explained(i) => Explained(i)'
      /\ Unrun(i) => Unrun(i)'
      /\ Spent(i) => Spent(i)'
      /\ run[i]["fallback"] = "none" => run'[i]["fallback"] = "none"
  BY <1>1 DEF Evolves, Explained, Unrun, Spent, Key
<1>3. Evolves(i) /\ (intent[i].status = "proposed" => Unrun(i))
  BY <1>1
<1> DEFINE s == intent[i].status
           t == intent'[i].status
<1>4. CASE t = s
  BY <1>1, <1>2, <1>4 DEF TickKnows, Deciding
<1>5. CASE t = "filled" /\ ~Unrun(i)
  BY <1>1, <1>2, <1>3, <1>5 DEF TickKnows, Deciding
<1>6. CASE t = "failed" /\ Explained(i)' /\ (~Unrun(i) \/ s /= "proposed")
  BY <1>1, <1>2, <1>3, <1>6 DEF TickKnows, Deciding
<1> QED BY <1>3, <1>4, <1>5, <1>6 DEF Evolves

LEMMA CallbackStays ==
  ASSUME TypeInv, NEW c \in Callback, CallbackKnows(c), RunsGrow, lost \subseteq lost',
         pc'[c] = pc[c], cur'[c] = cur[c], move'[c] = move[c],
         \A p \in Tick : cur'[p] = cur[c] => cur[p] = cur[c],
         cur[c] /= NoIntent => pc[c] \in IntentPlaces
  PROVE  CallbackKnows(c)'
<1>1. CASE pc[c] \in IntentPlaces
  <2>1. PICK i \in Intent : cur[c] = i /\ cur'[c] = i
    BY <1>1, TypeInvParts DEF InHand, Proc
  <2>2. /\ Explained(i) => Explained(i)'
        /\ ~Unrun(i) => ~Unrun(i)'
    BY ExplainedStays
  <2> QED BY <2>1, <2>2 DEF CallbackKnows, Deciding
<1>2. CASE pc[c] \notin IntentPlaces
  BY <1>2 DEF CallbackKnows, Deciding, IntentPlaces
<1> QED BY <1>1, <1>2

\* A step of process p keeps the invariant where it does so for p, for the row p
\* has in hand, and for a tick that has the same row.
LEMMA ProcessKeepsFailInv ==
  ASSUME TypeInv, FailInv, NEW p \in Proc, Aside(p),
         RunsGrow, lost \subseteq lost', reaper' = reaper,
         \A i \in Intent : i /= cur[p] =>
           intent'[i].status = intent[i].status /\ run'[i] = run[i],
         \A i \in Intent : intent'[i].status = "proposed" => intent[i].status = "proposed",
         \A i \in Intent : i = cur[p] /\ intent'[i].status = "failed"
           => Explained(i)' \/ Spent(i)',
         cur'[p] /= NoIntent => pc'[p] \in IntentPlaces,
         p \in Tick =>
           /\ cur'[p] \in {cur[p], NoIntent}
           /\ TickKnows(p)'
           /\ cur'[p] /= NoIntent /\ intent'[cur'[p]].status = "proposed" => Unrun(cur[p])',
         p \in Callback =>
           /\ CallbackKnows(p)'
           /\ \A q \in Tick, i \in Intent : cur[q] = i /\ cur[p] = i => Evolves(i)
  PROVE  FailInv'
<1> USE TypeInvParts
<1>t. Tick \subseteq Proc /\ Callback \subseteq Proc /\ NoIntent \notin Intent
      /\ (p \in Tick \/ p \in Callback) /\ Tick \intersect Callback = {}
  BY DeskConfig DEF Proc
<1>h. \A q \in Proc : cur[q] /= NoIntent => pc[q] \in IntentPlaces /\ cur[q] \in Intent
  BY DEF FailInv, Owned, InHand
<1>u. \A q \in Tick : cur[q] /= NoIntent /\ intent[cur[q]].status = "proposed" => Unrun(cur[q])
  BY DEF FailInv, Owned
<1>a. \A q, r \in Tick : cur[q] = cur[r] /\ cur[q] /= NoIntent => q = r
  BY DEF FailInv, Owned
<1>o. \A q \in Proc \ {p} : pc'[q] = pc[q] /\ cur'[q] = cur[q] /\ move'[q] = move[q]
  BY DEF Aside, Others
<1>e. ASSUME NEW i \in Intent, i /= cur[p]
      PROVE  Evolves(i)
  BY <1>e DEF Evolves
<1>1. ASSUME NEW q \in Tick, q /= p, NEW i \in Intent, i = cur[q]
      PROVE  Evolves(i)
  <2>1. CASE i /= cur[p]
    BY <1>e, <2>1
  <2>2. CASE i = cur[p]
    <3>1. p \in Callback
      BY <1>1, <1>a, <1>t, <2>2
    <3> QED BY <1>1, <2>2, <3>1
  <2> QED BY <2>1, <2>2
<1>2. ASSUME NEW q \in Tick
      PROVE  TickKnows(q)'
  <2>1. CASE q /= p
    <3>1. pc[q] \in IntentPlaces => cur[q] /= NoIntent
      BY <1>t DEF InHand
    <3> QED BY <1>1, <1>o, <1>t, <1>u, <2>1, <3>1, TickStays DEF FailInv, Aside
  <2> QED BY <2>1
<1>3. ASSUME NEW c \in Callback
      PROVE  CallbackKnows(c)'
  <2>1. CASE c /= p
    <3>1. \A q \in Tick : cur'[q] \in {cur[q], NoIntent}
      BY <1>o, <1>t
    <3>2. \A q \in Tick : cur'[q] = cur[c] /\ cur[c] /= NoIntent => cur[q] = cur[c]
      BY <3>1
    <3>3. CASE cur[c] /= NoIntent
      <4>1. \A q \in Tick : cur'[q] = cur[c] => cur[q] = cur[c]
        BY <3>2, <3>3
      <4> QED BY <1>h, <1>o, <1>t, <2>1, <4>1, CallbackStays DEF FailInv
    <3>4. CASE cur[c] = NoIntent
      <4>1. pc[c] \notin IntentPlaces
        BY <1>t, <3>4 DEF InHand
      <4> QED BY <1>o, <1>t, <2>1, <3>4, <4>1 DEF CallbackKnows, Deciding, IntentPlaces
    <3> QED BY <3>3, <3>4
  <2> QED BY <2>1
<1>4. FailedIsOver'
  <2> SUFFICES ASSUME NEW i \in Intent, intent'[i].status = "failed"
               PROVE  Explained(i)' \/ Spent(i)'
    BY DEF FailedIsOver
  <2>1. CASE i /= cur[p]
    <3>1. Explained(i) \/ Spent(i)
      BY <2>1 DEF FailInv, FailedIsOver
    <3>2. Explained(i) => Explained(i)'
      BY ExplainedStays
    <3>3. Spent(i) => Spent(i)'
      BY <2>1 DEF Spent
    <3> QED BY <3>1, <3>2, <3>3
  <2> QED BY <2>1
<1>5. Owned'
  <2>1. \A q \in Proc : cur'[q] /= NoIntent => pc'[q] \in IntentPlaces
    BY <1>h, <1>o
  <2>2. \A q, r \in Tick : cur'[q] = cur'[r] /\ cur'[q] /= NoIntent => q = r
    <3>1. \A q \in Tick : cur'[q] \in {cur[q], NoIntent}
      BY <1>o, <1>t
    <3> QED BY <3>1 DEF FailInv, Owned
  <2>3. ASSUME NEW q \in Tick, cur'[q] /= NoIntent, intent'[cur'[q]].status = "proposed"
        PROVE  Unrun(cur[q])'
    <3>1. CASE q /= p
      <4>1. PICK i \in Intent : cur'[q] = i /\ cur[q] = i
        BY <1>h, <1>o, <1>t, <2>3, <3>1
      <4>2. Unrun(i) /\ Evolves(i)
        BY <1>1, <1>u, <2>3, <3>1, <4>1
      <4> QED BY <4>1, <4>2 DEF Evolves, Unrun
    <3> QED BY <2>3, <3>1
  <2> QED BY <2>1, <2>2, <2>3 DEF Owned
<1>6. \A i \in reaper'.todo : intent'[i].status /= "proposed"
  BY DEF FailInv
<1> QED BY <1>2, <1>3, <1>4, <1>5, <1>6 DEF FailInv

\* Reading the gates and proposing to no avail, with nothing in hand.
LEMMA GateStepKeepsFailInv ==
  ASSUME TypeInv, FailInv, NEW p \in Tick,
         \/ StartTick(p) \/ ReadOpen(p) \/ ReadAny(p) \/ ReadFails(p) \/ Refuse(p)
         \/ Allow(p) \/ FindOpen(p) \/ InsertRefused(p)
  PROVE  FailInv'
<1> USE TypeInvParts
<1>p. p \in Proc /\ p \notin Callback
  BY DeskConfig DEF Proc
<1>1. UNCHANGED <<intent, run, lost, reaper>> /\ pc[p] \notin IntentPlaces
  BY DEF StartTick, ReadOpen, ReadAny, ReadFails, Refuse, Allow, FindOpen, InsertRefused, rows,
         external, IntentPlaces
<1>2. /\ Aside(p) /\ cur'[p] \in {cur[p], NoIntent}
      /\ pc'[p] \in {"idle", "answered", "gates", "find_open", "insert"}
  <2>1. CASE StartTick(p) \/ ReadOpen(p) \/ ReadAny(p) \/ Allow(p)
    BY <1>p, <2>1 DEF StartTick, ReadOpen, ReadAny, Allow, LocalsOK, Goto, Others, Aside
  <2>2. CASE Stop(p)
    BY <1>p, <2>2, StopLeaves
  <2>3. CASE NextPhase(p) /\ ~Stop(p)
    BY <1>p, <2>3, NextPhaseEffect DEF NextPhase, Aside
  <2>4. CASE FindOpen(p) /\ ~NextPhase(p)
    BY <1>p, <2>4 DEF FindOpen, LocalsOK, Goto, Others, Aside
  <2> QED BY <2>1, <2>2, <2>3, <2>4 DEF ReadFails, Refuse, InsertRefused
<1>3. cur'[p] = NoIntent
  BY <1>p, <1>1, <1>2 DEF FailInv, Owned
<1>4. TickKnows(p)'
  BY <1>2 DEF TickKnows, Deciding
<1>5. RunsGrow /\ lost \subseteq lost'
  BY <1>1 DEF RunsGrow
<1>6. cur[p] \notin Intent
  BY <1>p, <1>1, DeskConfig DEF FailInv, Owned
<1> QED BY <1>p, <1>1, <1>2, <1>3, <1>4, <1>5, <1>6, ProcessKeepsFailInv

\* A new intent is nobody else's and has no run.
LEMMA InsertKeepsFailInv ==
  ASSUME TypeInv, FailInv, NEW p \in Tick, Insert(p)
  PROVE  FailInv'
<1> USE TypeInvParts
<1>p. /\ p \in Proc /\ p \notin Callback /\ Tick \subseteq Proc /\ Callback \subseteq Proc
      /\ NoIntent \notin Intent
  BY DeskConfig DEF Proc
<1>1. PICK i \in Intent :
        /\ intent[i].status = "none"
        /\ intent' = [intent EXCEPT ![i] =
                        [status |-> "proposed", strategy |-> gates[p].strategy]]
        /\ \/ Goto(p, "execute") /\ cur' = [cur EXCEPT ![p] = i] /\ UNCHANGED <<move, attempt>>
              /\ gates' = [gates EXCEPT ![p] = NoGates]
           \/ Stop(p)
           \/ NextPhase(p)
  BY DEF Insert
<1>2. /\ intent'[i].status = "proposed" /\ \A j \in Intent \ {i} : intent'[j] = intent[j]
      /\ UNCHANGED <<run, lost, reaper>> /\ pc[p] = "insert"
  BY <1>1 DEF Insert, RowsOK, external
<1>3. \A q \in Proc : cur[q] /= NoIntent => cur[q] \in Intent /\ cur[q] /= i
  BY <1>1 DEF FailInv, Owned, InHand
<1>4. Unrun(i)
  BY <1>1 DEF RunsOfIntents, Unrun
<1>5. i \notin reaper.todo
  BY <1>1 DEF ReaperKnown
<1>6. /\ Aside(p)
      /\ \/ pc'[p] = "execute" /\ cur'[p] = i
         \/ pc'[p] \in {"idle", "answered", "gates"} /\ cur'[p] = NoIntent
  <2>0. cur[p] = NoIntent
    BY <1>p, <1>2 DEF FailInv, Owned, IntentPlaces
  <2>1. CASE Stop(p)
    BY <1>p, <2>1, StopLeaves
  <2>2. CASE NextPhase(p) /\ ~Stop(p)
    BY <1>p, <2>0, <2>2, NextPhaseEffect DEF NextPhase, Aside
  <2>3. CASE Goto(p, "execute") /\ cur' = [cur EXCEPT ![p] = i] /\ UNCHANGED <<move, attempt>>
             /\ gates' = [gates EXCEPT ![p] = NoGates]
    BY <1>p, <2>3 DEF LocalsOK, Goto, Others, Aside
  <2> QED BY <1>1, <2>1, <2>2, <2>3
<1>o. \A q \in Proc \ {p} : pc'[q] = pc[q] /\ cur'[q] = cur[q] /\ move'[q] = move[q]
  BY <1>6 DEF Aside, Others
<1>7. \A j \in Intent : j /= i => Evolves(j)
  BY <1>2 DEF Evolves
<1>8. ASSUME NEW q \in Tick PROVE TickKnows(q)'
  <2>1. CASE q /= p
    <3>1. \A j \in Intent : pc[q] \in IntentPlaces /\ j = cur[q] => Evolves(j)
      BY <1>p, <1>3, <1>7
    <3>2. pc[q] \in IntentPlaces /\ intent[cur[q]].status = "proposed" => Unrun(cur[q])
      BY <1>p DEF FailInv, Owned, InHand
    <3> QED BY <1>6, <1>o, <1>p, <2>1, <3>1, <3>2, TickStays DEF FailInv, Aside
  <2>2. CASE q = p
    BY <1>2, <1>6, <2>2 DEF TickKnows, Deciding
  <2> QED BY <2>1, <2>2
<1>9. ASSUME NEW c \in Callback PROVE CallbackKnows(c)'
  <2>1. RunsGrow /\ lost \subseteq lost' /\ c \in Proc \ {p}
    BY <1>2, <1>p DEF RunsGrow
  <2>2. CASE cur[c] /= NoIntent
    <3>1. \A q \in Tick : cur'[q] = cur[c] => cur[q] = cur[c]
      BY <1>3, <1>6, <1>o, <1>p, <2>2
    <3>2. pc[c] \in IntentPlaces
      BY <1>p, <2>2 DEF FailInv, Owned
    <3> QED BY <1>o, <2>1, <3>1, <3>2, CallbackStays DEF FailInv
  <2>3. CASE cur[c] = NoIntent
    <3>1. pc[c] \notin IntentPlaces
      BY <1>p, <2>3 DEF InHand
    <3> QED BY <1>o, <2>1, <2>3, <3>1 DEF CallbackKnows, Deciding, IntentPlaces
  <2> QED BY <2>2, <2>3
<1>10. FailedIsOver'
  BY <1>2 DEF FailInv, FailedIsOver, Explained, Spent
<1>11. Owned'
  <2>1. \A q \in Proc : cur'[q] /= NoIntent => pc'[q] \in IntentPlaces
    BY <1>6, <1>o DEF FailInv, Owned, IntentPlaces
  <2>2. \A q, r \in Tick : cur'[q] = cur'[r] /\ cur'[q] /= NoIntent => q = r
    BY <1>3, <1>6, <1>o, <1>p DEF FailInv, Owned
  <2>3. ASSUME NEW q \in Tick, cur'[q] /= NoIntent, intent'[cur'[q]].status = "proposed"
        PROVE  Unrun(cur[q])'
    <3>1. PICK j \in Intent : cur'[q] = j
      BY <1>3, <1>6, <1>o, <1>p, <2>3
    <3>2. CASE j = i
      BY <1>2, <1>4, <3>1, <3>2 DEF Unrun
    <3>3. CASE j /= i
      <4>1. cur[q] = j /\ intent[j].status = "proposed"
        BY <1>2, <1>6, <1>o, <1>p, <2>3, <3>1, <3>3
      <4>2. Unrun(j)
        BY <1>p, <4>1 DEF FailInv, Owned
      <4> QED BY <1>2, <3>1, <4>2 DEF Unrun
    <3> QED BY <3>2, <3>3
  <2> QED BY <2>1, <2>2, <2>3 DEF Owned
<1>12. \A j \in reaper'.todo : intent'[j].status /= "proposed"
  BY <1>2, <1>5 DEF FailInv
<1> QED BY <1>8, <1>9, <1>10, <1>11, <1>12 DEF FailInv

\* What a tick does to its own intent, for a step that leaves the rows alone.
LEMMA OwnStepKeepsFailInv ==
  ASSUME TypeInv, FailInv, NEW p \in Tick, NEW i \in Intent, cur[p] = i, Aside(p),
         UNCHANGED <<intent, reaper>>, lost \subseteq lost', RunsGrow,
         \A j \in Intent : j /= i => run'[j] = run[j],
         Spent(i) => Spent(i)' \/ intent[i].status /= "failed" \/ Explained(i)',
         \/ cur'[p] = NoIntent /\ pc'[p] \in {"idle", "answered"}
         \/ /\ cur'[p] = i /\ pc'[p] \in IntentPlaces
            /\ intent[i].status = "proposed" => Unrun(i)',
         TickKnows(p)'
  PROVE  FailInv'
<1>p. p \in Proc /\ p \notin Callback /\ NoIntent \notin Intent
  BY DeskConfig DEF Proc
<1>1. intent[i].status = "failed" => Explained(i)' \/ Spent(i)'
  BY ExplainedStays DEF FailInv, FailedIsOver
<1>2. cur'[p] /= NoIntent /\ intent'[cur'[p]].status = "proposed" => Unrun(cur[p])'
  BY DEF Unrun
<1> QED BY <1>p, <1>1, <1>2, ProcessKeepsFailInv

\* Executing: what a tick gives up on was not run, ended without a trade, failed,
\* or is out of sight.
LEMMA RunStepKeepsFailInv ==
  ASSUME TypeInv, FailInv, NEW p \in Tick,
         \/ Execute(p) \/ Submit(p) \/ SubmitFails(p)
         \/ Receipt(p) \/ NoTxHash(p) \/ WaitFails(p)
  PROVE  FailInv'
<1> USE TypeInvParts
<1>p. p \in Proc /\ p \notin Callback
  BY DeskConfig DEF Proc
<1>s. pc[p] \in {"execute", "submit", "wait"} /\ UNCHANGED <<intent, reaper>>
  BY DEF Execute, Submit, SubmitFails, Receipt, NoTxHash, WaitFails, rows
<1>1. PICK i \in Intent : cur[p] = i
  BY <1>p, <1>s DEF InHand, IntentPlaces
<1>k. TickKnows(p) /\ (intent[i].status = "proposed" => Unrun(i))
  BY <1>1, DeskConfig DEF FailInv, Owned
<1>r. run' = Started(p) => RunsGrow /\ \A j \in Intent : j /= i => run'[j] = run[j]
  BY <1>1 DEF Started, RunsGrow
<1>q. run' = run => RunsGrow /\ (Spent(i) => Spent(i)') /\ (Unrun(i) => Unrun(i)')
                    /\ (Explained(i) /\ lost \subseteq lost' => Explained(i)')
  BY DEF RunsGrow, Spent, Unrun, Explained
<1>c. ASSUME NEW to \in {"filled", "failed"}, Change(p, to)
      PROVE  Aside(p) /\ pc'[p] = "read_status" /\ cur' = cur /\ move'[p].to = to
  BY <1>c, <1>p, ChangeLeaves DEF Status
<1>n. ASSUME NEW to \in {"executing", "failed"}, Goto(p, "read_status"),
             move' = [move EXCEPT ![p] = [NoMove EXCEPT !.to = to]], UNCHANGED <<cur, gates>>,
             \A q \in Tick \ {p} : attempt'[q] = attempt[q]
      PROVE  Aside(p) /\ pc'[p] = "read_status" /\ move'[p].to = to
  <2> DEFINE new == [NoMove EXCEPT !.to = to]
  <2>1. new.to = to
    BY DEF NoMove
  <2> HIDE DEF new
  <2>2. move' = [move EXCEPT ![p] = new]
    BY <1>n DEF new
  <2> QED BY <1>n, <1>p, <2>1, <2>2 DEF LocalsOK, Goto, Others, Aside
<1>f. ASSUME Aside(p), pc'[p] = "read_status", cur' = cur, move'[p].to = "failed",
             lost \subseteq lost', RunsGrow, \A j \in Intent : j /= i => run'[j] = run[j],
             intent[i].status = "proposed" => Unrun(i)', Explained(i)' \/ Spent(i)'
      PROVE  FailInv'
  <2>1. TickKnows(p)'
    BY <1>1, <1>f DEF TickKnows, Deciding
  <2> QED BY <1>1, <1>s, <1>f, <2>1, OwnStepKeepsFailInv DEF IntentPlaces
<1>a. ASSUME TryAgain(p), lost \subseteq lost', RunsGrow,
             \A j \in Intent : j /= i => run'[j] = run[j], Explained(i)',
             intent[i].status /= "proposed"
      PROVE  FailInv'
  <2>1. Aside(p) /\ pc'[p] = "submit" /\ cur' = cur
    BY <1>a, <1>p DEF TryAgain, Goto, LocalsOK, Others, Aside
  <2>2. TickKnows(p)'
    BY <1>1, <1>s, <1>a, <2>1 DEF TickKnows, Deciding
  <2> QED BY <1>1, <1>s, <1>a, <2>1, <2>2, OwnStepKeepsFailInv DEF IntentPlaces
<1>2. CASE Execute(p)
  <2>1. intent[i].status = "proposed" /\ Unrun(i) /\ run' = run /\ lost' = lost
    BY <1>1, <1>2, <1>k DEF Execute, TickKnows, external
  <2>2. CASE Change(p, "failed")
    BY <1>c, <1>f, <1>q, <2>1, <2>2 DEF Unrun, Spent
  <2>3. CASE ~Change(p, "failed")
    <3>1. /\ Aside(p) /\ pc'[p] = "read_status" /\ move'[p].to = "executing" /\ cur' = cur
          /\ attempt'[p] /= "fallback"
      BY <1>2, <1>n, <2>3 DEF Execute, LocalsOK
    <3>2. TickKnows(p)'
      BY <1>1, <1>s, <2>1, <3>1 DEF TickKnows, Deciding
    <3> QED BY <1>1, <1>q, <1>s, <2>1, <3>1, <3>2, OwnStepKeepsFailInv DEF IntentPlaces
  <2> QED BY <2>2, <2>3
<1>3. CASE Submit(p)
  <2>1. /\ run' = Started(p) /\ lost' = lost /\ Aside(p) /\ pc'[p] = "wait" /\ cur' = cur
        /\ attempt' = attempt
    BY <1>3, <1>p DEF Submit, LocalsOK, Goto, Others, Aside
  <2>2. intent[i].status /= "proposed"
    BY <1>1, <1>3, <1>k DEF Submit, TickKnows
  <2>3. \/ Explained(i)
        \/ intent[i].status = "executing" /\ Unrun(i) /\ attempt[p] /= "fallback"
    BY <1>1, <1>3, <1>k DEF Submit, TickKnows
  <2>4. Explained(i) => Explained(i)'
    BY <1>r, <2>1, ExplainedStays
  <2>5. CASE intent[i].status = "executing" /\ Unrun(i) /\ attempt[p] /= "fallback"
    <3>1. run'[i]["fallback"] = "none"
      BY <1>1, <2>1, <2>5 DEF Started, KeyOf, Unrun, Key
    <3>2. TickKnows(p)'
      BY <1>1, <1>s, <2>1, <2>5, <3>1 DEF TickKnows, Deciding
    <3> QED BY <1>1, <1>r, <1>s, <2>1, <2>5, <3>2, OwnStepKeepsFailInv DEF IntentPlaces
  <2>6. CASE Explained(i)
    <3>1. TickKnows(p)'
      BY <1>1, <1>s, <2>1, <2>2, <2>4, <2>6 DEF TickKnows, Deciding
    <3> QED BY <1>1, <1>r, <1>s, <2>1, <2>2, <2>4, <2>6, <3>1, OwnStepKeepsFailInv DEF IntentPlaces
  <2> QED BY <2>3, <2>5, <2>6
<1>4. CASE SubmitFails(p)
  <2>1. /\ run' = run \/ run' = Started(p)
        /\ lost \subseteq lost' /\ Explained(i)'
    BY <1>1, <1>4 DEF SubmitFails, Explained
  <2>2. intent[i].status /= "proposed"
    BY <1>1, <1>4, <1>k DEF SubmitFails, TickKnows
  <2>3. RunsGrow /\ \A j \in Intent : j /= i => run'[j] = run[j]
    BY <1>q, <1>r, <2>1
  <2> QED BY <1>4, <1>a, <1>c, <1>f, <2>1, <2>2, <2>3 DEF SubmitFails
<1>5. CASE Receipt(p)
  <2>1. run' = run /\ lost' = lost /\ Change(p, "filled") /\ pc[p] = "wait"
    BY <1>5 DEF Receipt, external
  <2>2. /\ intent[i].status /= "proposed"
        /\ Explained(i) \/ intent[i].status \in {"executing", "filled"}
    BY <1>1, <1>k, <2>1 DEF TickKnows
  <2>3. TickKnows(p)'
    BY <1>1, <1>c, <1>q, <1>s, <2>1, <2>2 DEF TickKnows, Deciding
  <2> QED BY <1>1, <1>c, <1>q, <1>s, <2>1, <2>2, <2>3, OwnStepKeepsFailInv DEF IntentPlaces
<1>6. CASE NoTxHash(p)
  <2>1. run' = run /\ lost' = lost /\ pc[p] = "wait" /\ RunOf(p) = "empty"
    BY <1>6 DEF NoTxHash, external
  <2>2. intent[i].status /= "proposed"
    BY <1>1, <1>k, <2>1 DEF TickKnows
  <2>3. Aside(p) /\ pc'[p] = "read_status" /\ cur' = cur /\ move'[p].to = "failed"
    BY <1>6, <1>n DEF NoTxHash, LocalsOK
  <2>4. Explained(i) \/ Spent(i)
    <3>1. CASE attempt[p] /= "fallback" /\ run[i]["fallback"] = "none"
      <4>1. run[i]["intent"] = "empty"
        BY <1>1, <2>1, <3>1 DEF RunOf, KeyOf
      <4> QED BY <3>1, <4>1 DEF Spent, Key
    <3> QED BY <1>1, <1>k, <2>1, <3>1 DEF TickKnows
  <2> QED BY <1>f, <1>q, <2>1, <2>2, <2>3, <2>4
<1>7. CASE WaitFails(p)
  <2>1. /\ run' = run /\ lost \subseteq lost' /\ pc[p] = "wait"
        /\ RunOf(p) = "failed" \/ i \in lost'
    BY <1>1, <1>7 DEF WaitFails, external
  <2>2. intent[i].status /= "proposed"
    BY <1>1, <1>k, <2>1 DEF TickKnows
  <2>3. Explained(i)'
    BY <1>1, <2>1 DEF Explained, RunOf, KeyOf, Key
  <2> QED BY <1>7, <1>a, <1>c, <1>f, <1>q, <2>1, <2>2, <2>3 DEF WaitFails
<1> QED BY <1>2, <1>3, <1>4, <1>5, <1>6, <1>7

\* findById and the unconditional update: what was decided on the status read
\* holds of the one overwritten, or the failure is explained.
LEMMA TickStatusKeepsFailInv ==
  ASSUME TypeInv, FailInv, NEW p \in Tick, StatusStep(p)
  PROVE  FailInv'
<1> USE TypeInvParts
<1>p. p \in Proc /\ p \notin Callback /\ NoIntent \notin Intent
  BY DeskConfig DEF Proc
<1>s. /\ pc[p] \in {"read_status", "write_status", "publish"}
      /\ UNCHANGED <<run, reaper>> /\ lost \subseteq lost'
  BY DEF StatusStep, ReadStatus, WriteStatus, Publish, external
<1>1. PICK i \in Intent : cur[p] = i
  BY <1>p, <1>s DEF InHand, IntentPlaces
<1>k. TickKnows(p) /\ (intent[i].status = "proposed" => Unrun(i))
  BY <1>1, <1>p DEF FailInv, Owned
<1>q. /\ RunsGrow
      /\ Explained(i) => Explained(i)'
      /\ Spent(i) <=> Spent(i)'
      /\ Unrun(i) <=> Unrun(i)'
  BY <1>s DEF RunsGrow, Spent, Unrun, Explained
<1>m. move[p].to \in Status
  BY <1>p DEF LocalsOK, Move
<1> DEFINE s == intent[i].status
           to == move[p].to
<1>t. ASSUME Threw(p), \A j \in Intent : j /= i => intent'[j].status = intent[j].status,
             Explained(i)' \/ Spent(i)' \/ intent'[i].status = "filled",
             intent'[i].status = "failed" => Explained(i)' \/ Spent(i)',
             intent'[i].status = "proposed" => s = "proposed"
      PROVE  FailInv'
  <2>1. /\ Aside(p)
        /\ \/ pc'[p] \in {"idle", "answered"} /\ cur'[p] = NoIntent
           \/ pc'[p] = "read_status" /\ cur' = cur /\ move'[p].to = "failed"
    BY <1>p, <1>t, ThrewLeaves
  <2>2. TickKnows(p)'
    BY <1>1, <1>t, <2>1 DEF TickKnows, Deciding
  <2>3. cur'[p] \in {cur[p], NoIntent} /\ (cur'[p] /= NoIntent => pc'[p] \in IntentPlaces)
    BY <2>1 DEF IntentPlaces
  <2>4. cur'[p] /= NoIntent /\ intent'[cur'[p]].status = "proposed" => Unrun(cur[p])'
    BY <1>1, <1>k, <1>q, <1>t, <2>1 DEF Unrun
  <2>5. \A j \in Intent : intent'[j].status = "proposed" => intent[j].status = "proposed"
    BY <1>t
  <2>6. \A j \in Intent : j = cur[p] /\ intent'[j].status = "failed" => Explained(j)' \/ Spent(j)'
    BY <1>1, <1>t
  <2> QED BY <1>1, <1>p, <1>q, <1>s, <1>t, <2>1, <2>2, <2>3, <2>4, <2>5, <2>6, ProcessKeepsFailInv
<1>a. ASSUME Aside(p), \A j \in Intent : j /= i => intent'[j].status = intent[j].status,
             intent'[i].status /= "proposed" \/ (intent'[i].status = s /\ cur'[p] = NoIntent),
             intent'[i].status = "failed" => Explained(i)' \/ Spent(i)',
             \/ cur'[p] = NoIntent
             \/ cur'[p] = i /\ pc'[p] \in IntentPlaces,
             TickKnows(p)'
      PROVE  FailInv'
  BY <1>1, <1>a, <1>p, <1>q, <1>s, ProcessKeepsFailInv
<1>f. s = "failed" => Explained(i) \/ Spent(i)
  BY DEF FailInv, FailedIsOver
<1>2. CASE ReadStatus(p)
  <2>1. intent' = intent /\ pc[p] = "read_status" /\ Deciding(p)
    BY <1>2 DEF ReadStatus, rows, Deciding
  <2>2. CASE /\ Legal(move[p], s) /\ Goto(p, "write_status")
             /\ UNCHANGED <<cur, gates, move, attempt, lost>>
    <3>1. Aside(p) /\ pc'[p] = "write_status" /\ cur'[p] = i
      BY <1>1, <1>p, <2>2 DEF LocalsOK, Goto, Others, Aside
    <3>2. to = "failed" => s /= "filled"
      BY <2>2 DEF Legal, CanTransition
    <3>3. TickKnows(p)'
      BY <1>1, <1>k, <1>q, <2>1, <2>2, <3>1, <3>2 DEF TickKnows, Deciding
    <3> QED BY <1>1, <1>k, <1>q, <1>s, <2>1, <3>1, <3>3, OwnStepKeepsFailInv DEF IntentPlaces
  <2>3. CASE DbFaults /\ Threw(p) /\ lost' = lost \union {cur[p]}
    <3>1. Explained(i)'
      BY <1>1, <2>3 DEF Explained
    <3> QED BY <1>t, <2>1, <2>3, <3>1
  <2>4. CASE ~Legal(move[p], s) /\ Threw(p) /\ UNCHANGED lost
    <3>1. to /= "none"
      BY <1>p, <2>1 DEF MovesKnown
    <3>2. CASE to = "executing"
      <4>1. s = "proposed"
        BY <1>1, <1>k, <2>1, <3>2 DEF TickKnows
      <4> QED BY <1>k, <1>q, <1>t, <2>1, <2>4, <4>1 DEF Unrun, Spent
    <3>3. CASE to = "filled"
      <4>1. Explained(i) \/ s \in {"executing", "filled"}
        BY <1>1, <1>k, <2>1, <3>3 DEF TickKnows
      <4>2. s /= "executing"
        BY <2>4, <3>3 DEF Legal, CanTransition
      <4> QED BY <1>f, <1>q, <1>t, <2>1, <2>4, <4>1, <4>2
    <3>4. CASE to = "failed"
      <4>1. Explained(i) \/ Spent(i) \/ s = "filled"
        BY <1>1, <1>k, <2>1, <3>4 DEF TickKnows
      <4> QED BY <1>f, <1>q, <1>t, <2>1, <2>4, <4>1
    <3>5. CASE to = "proposed"
      <4> QED BY <1>1, <1>k, <2>1, <3>5 DEF TickKnows
    <3> QED BY <1>m, <3>1, <3>2, <3>3, <3>4, <3>5 DEF Status
  <2> QED BY <1>1, <1>2, <2>2, <2>3, <2>4 DEF ReadStatus
<1>3. CASE WriteStatus(p)
  <2>1. pc[p] = "write_status" /\ Deciding(p) /\ to /= "proposed" /\ to /= "none"
    BY <1>3, <1>k, <1>p DEF WriteStatus, Deciding, TickKnows, MovesKnown
  <2>w. ASSUME SetStatus(i, to)
        PROVE  intent'[i].status = to /\ \A j \in Intent : j /= i => intent'[j].status = intent[j].status
    BY <1>m, <2>w, SetStatusEffect
  <2>2. CASE SetStatus(i, to) /\ Written(p) /\ UNCHANGED lost
    <3>1. CASE to = "executing"
      <4>1. Goto(p, "submit") /\ UNCHANGED <<cur, gates, attempt>> /\ move' = [move EXCEPT ![p] = NoMove]
        BY <1>p, <2>2, <3>1 DEF Written
      <4>2. Aside(p) /\ pc'[p] = "submit" /\ cur' = cur /\ attempt'[p] = attempt[p]
        BY <1>p, <4>1 DEF LocalsOK, Goto, Others, Aside
      <4>3. s = "proposed" /\ attempt[p] /= "fallback"
        BY <1>1, <1>k, <2>1, <3>1 DEF TickKnows
      <4>4. TickKnows(p)'
        BY <1>1, <1>k, <1>q, <2>2, <2>w, <3>1, <4>2, <4>3 DEF TickKnows, Deciding
      <4> QED BY <1>1, <1>a, <2>2, <2>w, <3>1, <4>2, <4>4 DEF IntentPlaces
    <3>2. CASE to = "filled"
      <4>1. Goto(p, "publish") /\ UNCHANGED <<cur, gates, move, attempt>>
        BY <2>2, <3>2 DEF Written
      <4>2. Aside(p) /\ pc'[p] = "publish" /\ cur' = cur
        BY <1>p, <4>1 DEF LocalsOK, Goto, Others, Aside
      <4>3. TickKnows(p)'
        BY <1>1, <2>2, <2>w, <3>2, <4>2 DEF TickKnows, Deciding
      <4> QED BY <1>1, <1>a, <2>2, <2>w, <3>2, <4>2, <4>3 DEF IntentPlaces
    <3>3. CASE to = "failed"
      <4>1. Stop(p)
        BY <2>2, <3>3 DEF Written
      <4>2. Aside(p) /\ cur'[p] = NoIntent /\ pc'[p] \in {"idle", "answered"}
        BY <1>p, <4>1, StopLeaves
      <4>3. Explained(i) \/ Spent(i)
        BY <1>1, <1>3, <1>k, <3>3 DEF TickKnows, WriteStatus
      <4>4. TickKnows(p)'
        BY <4>2 DEF TickKnows, Deciding
      <4> QED BY <1>a, <1>q, <2>2, <2>w, <3>3, <4>2, <4>3, <4>4
    <3> QED BY <1>m, <2>1, <3>1, <3>2, <3>3 DEF Status
  <2>3. CASE ~IndexAllows(i, intent[i].strategy, to) /\ UNCHANGED <<intent, lost>> /\ Threw(p)
    <3>1. to = "executing"
      BY <2>1, <2>3 DEF IndexAllows, OpenStatuses
    <3>2. s = "proposed" /\ Unrun(i)
      BY <1>1, <1>k, <2>1, <3>1 DEF TickKnows
    <3> QED BY <1>q, <1>t, <2>3, <3>2 DEF Unrun, Spent
  <2>4. CASE (SetStatus(i, to) \/ UNCHANGED intent) /\ Threw(p) /\ lost' = lost \union {i}
    <3>1. Explained(i)'
      BY <2>4 DEF Explained
    <3> QED BY <1>t, <2>1, <2>4, <2>w, <3>1
  <2> QED BY <1>1, <1>3, <2>2, <2>3, <2>4 DEF WriteStatus
<1>4. CASE Publish(p)
  <2>1. intent' = intent /\ UNCHANGED lost /\ s /= "proposed" /\ (Explained(i) \/ s = "filled")
    BY <1>1, <1>4, <1>k DEF Publish, TickKnows
  <2>2. CASE Stop(p)
    <3>1. Aside(p) /\ cur'[p] = NoIntent /\ pc'[p] \in {"idle", "answered"}
      BY <1>p, <2>2, StopLeaves
    <3>2. TickKnows(p)'
      BY <3>1 DEF TickKnows, Deciding
    <3> QED BY <1>a, <1>f, <1>q, <2>1, <3>1, <3>2
  <2>3. CASE Threw(p)
    BY <1>q, <1>t, <2>1, <2>3
  <2> QED BY <1>4, <1>p, <2>2, <2>3 DEF Publish
<1> QED BY <1>2, <1>3, <1>4 DEF StatusStep

\* A callback's intent has run; it fails one that a run failed, and what it fills
\* was not waiting to be proposed.
LEMMA CallbackStatusKeepsFailInv ==
  ASSUME TypeInv, FailInv, NEW c \in Callback, StatusStep(c)
  PROVE  FailInv'
<1> USE TypeInvParts
<1>p. c \in Proc /\ c \notin Tick /\ NoIntent \notin Intent
  BY DeskConfig DEF Proc
<1>s. /\ pc[c] \in {"read_status", "write_status", "publish"}
      /\ UNCHANGED <<run, reaper>> /\ lost \subseteq lost'
  BY DEF StatusStep, ReadStatus, WriteStatus, Publish, external
<1>1. PICK i \in Intent : cur[c] = i
  BY <1>p, <1>s DEF InHand, IntentPlaces
<1>k. CallbackKnows(c) /\ ~Unrun(i)
  BY <1>1, <1>p DEF FailInv, CallbackKnows
<1>q. /\ RunsGrow
      /\ Explained(i) => Explained(i)'
      /\ Spent(i) <=> Spent(i)'
      /\ Unrun(i) <=> Unrun(i)'
  BY <1>s DEF RunsGrow, Spent, Unrun, Explained
<1>m. move[c].to \in Status
  BY <1>p DEF LocalsOK, Move
<1> DEFINE s == intent[i].status
           to == move[c].to
<1>a. ASSUME Aside(c), \A j \in Intent : j /= i => intent'[j].status = intent[j].status,
             \/ intent'[i].status = s
             \/ intent'[i].status = "filled"
             \/ intent'[i].status = "failed" /\ Explained(i)'
             \/ intent'[i].status = "executing" /\ \A p \in Tick : cur[p] /= i,
             \/ cur'[c] = NoIntent /\ pc'[c] \in {"idle", "answered"}
             \/ /\ cur'[c] = i /\ pc'[c] \in IntentPlaces
                /\ Deciding(c)' =>
                     /\ move'[c].to /= "proposed"
                     /\ move'[c].to = "failed" => Explained(i)'
                     /\ move'[c].to = "executing" => \A p \in Tick : cur[p] /= i
      PROVE  FailInv'
  <2>1. \A j \in Intent : intent'[j].status = "proposed" => intent[j].status = "proposed"
    BY <1>a
  <2>2. ASSUME NEW j \in Intent, j = cur[c], intent'[j].status = "failed"
        PROVE  Explained(j)' \/ Spent(j)'
    <3>1. CASE s = "failed"
      BY <1>1, <1>q, <2>2, <3>1 DEF FailInv, FailedIsOver
    <3>2. CASE s /= "failed"
      BY <1>1, <1>a, <2>2, <3>2
    <3> QED BY <3>1, <3>2
  <2>3. \A p \in Tick : cur'[p] = cur[p]
    BY <1>a, <1>p DEF Aside, Others, Proc
  <2>4. CallbackKnows(c)'
    <3>1. CASE cur'[c] = NoIntent /\ pc'[c] \in {"idle", "answered"}
      BY <3>1 DEF CallbackKnows, Deciding
    <3>2. CASE cur'[c] = i /\ pc'[c] \in IntentPlaces
      BY <1>a, <1>k, <1>p, <1>q, <2>3, <3>2 DEF CallbackKnows
    <3> QED BY <1>a, <3>1, <3>2
  <2>5. ASSUME NEW q \in Tick, NEW j \in Intent, cur[q] = j, cur[c] = j
        PROVE  Evolves(j)
    BY <1>1, <1>a, <1>k, <1>s, <2>5 DEF Evolves
  <2>6. cur'[c] /= NoIntent => pc'[c] \in IntentPlaces
    BY <1>a
  <2>7. \A j \in Intent : j /= cur[c] =>
          intent'[j].status = intent[j].status /\ run'[j] = run[j]
    BY <1>1, <1>a, <1>s
  <2> QED BY <1>a, <1>p, <1>q, <1>s, <2>1, <2>2, <2>4, <2>5, <2>6, <2>7, ProcessKeepsFailInv
<1>t. ASSUME Threw(c), \A j \in Intent : j /= i => intent'[j].status = intent[j].status,
             \/ intent'[i].status = s
             \/ intent'[i].status = "filled"
             \/ intent'[i].status = "failed" /\ Explained(i)'
             \/ intent'[i].status = "executing" /\ \A p \in Tick : cur[p] /= i
      PROVE  FailInv'
  BY <1>a, <1>p, <1>t, StopLeaves DEF Threw
<1>d. Deciding(c) =>
        /\ to \in {"executing", "filled", "failed"}
        /\ to = "failed" => Explained(i)
        /\ to = "executing" => \A p \in Tick : cur[p] /= i
  BY <1>1, <1>k, <1>m, <1>p DEF CallbackKnows, MovesKnown, Status
<1>2. CASE ReadStatus(c)
  <2>1. intent' = intent /\ Deciding(c)
    BY <1>2 DEF ReadStatus, rows, Deciding
  <2>2. CASE Goto(c, "write_status") /\ UNCHANGED <<cur, gates, move, attempt, lost>>
    <3>1. Aside(c) /\ pc'[c] = "write_status" /\ cur'[c] = i /\ move' = move
      BY <1>1, <1>p, <2>2 DEF LocalsOK, Goto, Others, Aside
    <3> QED BY <1>a, <1>d, <1>q, <2>1, <3>1 DEF IntentPlaces
  <2>3. CASE Threw(c)
    BY <1>t, <2>1, <2>3
  <2> QED BY <1>2, <2>2, <2>3 DEF ReadStatus
<1>3. CASE WriteStatus(c)
  <2>1. Deciding(c)
    BY <1>3 DEF WriteStatus, Deciding
  <2>2. SetStatus(i, to) \/ intent' = intent
    BY <1>1, <1>3 DEF WriteStatus
  <2>3. /\ \A j \in Intent : j /= i => intent'[j].status = intent[j].status
        /\ intent'[i].status = to \/ intent'[i].status = s
    BY <1>m, <2>2, SetStatusEffect
  <2>4. CASE Threw(c)
    BY <1>d, <1>q, <1>t, <2>1, <2>3, <2>4
  <2>5. CASE Written(c)
    <3>1. CASE to = "executing"
      <4>1. Change(c, "filled") /\ "filled" \in Status
        BY <1>p, <2>5, <3>1 DEF Written, Status
      <4>2. Aside(c) /\ pc'[c] = "read_status" /\ cur' = cur /\ move'[c].to = "filled"
        BY <1>p, <4>1, ChangeLeaves
      <4> QED BY <1>1, <1>a, <1>d, <2>1, <2>3, <3>1, <4>2 DEF IntentPlaces
    <3>2. CASE to = "filled"
      <4>1. Goto(c, "publish") /\ UNCHANGED <<cur, gates, move, attempt>>
        BY <2>5, <3>2 DEF Written
      <4>2. Aside(c) /\ pc'[c] = "publish" /\ cur' = cur
        BY <1>p, <4>1 DEF LocalsOK, Goto, Others, Aside
      <4> QED BY <1>1, <1>a, <2>3, <3>2, <4>2 DEF IntentPlaces, Deciding
    <3>3. CASE to = "failed"
      <4>1. Stop(c)
        BY <2>5, <3>3 DEF Written
      <4> QED BY <1>a, <1>d, <1>p, <1>q, <2>1, <2>3, <3>3, <4>1, StopLeaves
    <3> QED BY <1>d, <2>1, <3>1, <3>2, <3>3
  <2> QED BY <1>3, <2>4, <2>5 DEF WriteStatus
<1>4. CASE Publish(c)
  <2>1. intent' = intent /\ (Stop(c) \/ Threw(c))
    BY <1>4 DEF Publish
  <2>2. CASE Stop(c)
    BY <1>a, <1>p, <2>1, <2>2, StopLeaves
  <2>3. CASE Threw(c)
    BY <1>t, <2>1, <2>3
  <2> QED BY <2>1, <2>2, <2>3
<1> QED BY <1>2, <1>3, <1>4 DEF StatusStep

\* A report is of a run that was made, and marks executing only what is still
\* proposed: no tick has such an intent in hand.
LEMMA ReportKeepsFailInv ==
  ASSUME TypeInv, FailInv, NEW c \in Callback, Report(c)
  PROVE  FailInv'
<1> USE TypeInvParts
<1>p. c \in Proc /\ c \notin Tick /\ NoIntent \notin Intent
  BY DeskConfig DEF Proc
<1>1. PICK i \in Intent, k \in Key :
        /\ cur'[c] = i
        /\ run[i][k] \in {"done", "failed"}
        /\ move'[c].to \in {"executing", "filled", "failed"}
        /\ move'[c].to = "failed" => run[i][k] = "failed"
        /\ move'[c].to = "executing" => intent[i].status = "proposed"
  BY ReportEffect
<1>2. /\ UNCHANGED <<intent, run, reaper, lost>>
      /\ Aside(c) /\ pc'[c] = "read_status"
  <2>1. UNCHANGED <<intent, run, reaper, lost, attempt>>
    BY DEF Report, rows, external
  <2>2. Others(c) /\ pc'[c] = "read_status"
    BY ReportEffect
  <2> QED BY <2>1, <2>2 DEF Aside
<1>3. cur[c] = NoIntent
  BY <1>p DEF Report, FailInv, Owned, IntentPlaces
<1>4. ~Unrun(i)
  BY <1>1 DEF Unrun
<1>5. \A p \in Tick : cur[p] = i => intent[i].status /= "proposed"
  BY <1>4, <1>p DEF FailInv, Owned
<1>6. \A p \in Tick : cur'[p] = cur[p]
  BY <1>2, <1>p DEF Aside, Others, Proc
<1>7. CallbackKnows(c)'
  <2>1. ~Unrun(i)'
    BY <1>2, <1>4 DEF Unrun
  <2>2. move'[c].to = "failed" => Explained(i)'
    BY <1>1, <1>2 DEF Explained
  <2> QED BY <1>1, <1>5, <1>6, <2>1, <2>2 DEF CallbackKnows
<1>8. RunsGrow
  BY <1>2 DEF RunsGrow
<1>9. pc'[c] \in IntentPlaces
  BY <1>2 DEF IntentPlaces
<1>10. \A q \in Tick, j \in Intent : cur[q] = j /\ cur[c] = j => Evolves(j)
  BY <1>3, <1>p
<1> QED BY <1>p, <1>2, <1>3, <1>7, <1>8, <1>9, <1>10, ProcessKeepsFailInv

\* KeeperHub and the reaper move an intent only in ways a call that has it in
\* hand can live with; a restart leaves nothing in hand.
LEMMA WorldKeepsFailInv ==
  ASSUME TypeInv, FailInv,
         \/ \E i \in Intent : RunOutside(i) \/ \E k \in Key : RunEnds(i, k)
         \/ ReaperStep
         \/ Crash
         \/ UNCHANGED vars
  PROVE  FailInv'
<1> USE TypeInvParts
<1>p. Tick \subseteq Proc /\ Callback \subseteq Proc /\ NoIntent \notin Intent
  BY DeskConfig DEF Proc
<1>h. \A q \in Proc : cur[q] /= NoIntent => pc[q] \in IntentPlaces /\ cur[q] \in Intent
  BY DEF FailInv, Owned, InHand
<1>u. \A q \in Tick : cur[q] /= NoIntent /\ intent[cur[q]].status = "proposed" => Unrun(cur[q])
  BY DEF FailInv, Owned
<1>w. ASSUME UNCHANGED <<pc, cur, move, attempt>>, RunsGrow, lost \subseteq lost',
             \A q \in Tick, i \in Intent : cur[q] = i => Evolves(i),
             \A i \in Intent : intent'[i].status = "failed" => Explained(i)' \/ Spent(i)',
             \A i \in reaper'.todo : intent'[i].status /= "proposed"
      PROVE  FailInv'
  <2>1. ASSUME NEW q \in Tick
        PROVE  TickKnows(q)'
    <3>1. pc[q] \in IntentPlaces => cur[q] /= NoIntent
      BY <1>p DEF InHand
    <3> QED BY <1>u, <1>w, <3>1, TickStays DEF FailInv
  <2>2. ASSUME NEW c \in Callback
        PROVE  CallbackKnows(c)'
    BY <1>h, <1>p, <1>w, CallbackStays DEF FailInv
  <2>3. FailedIsOver'
    BY <1>w DEF FailedIsOver
  <2>4. Owned'
    <3>1. ASSUME NEW q \in Tick, cur'[q] /= NoIntent, intent'[cur'[q]].status = "proposed"
          PROVE  Unrun(cur[q])'
      <4>1. PICK i \in Intent : cur[q] = i /\ cur'[q] = i
        BY <1>h, <1>p, <1>w, <3>1
      <4>2. Evolves(i) /\ Unrun(i)
        BY <1>u, <1>p, <1>w, <3>1, <4>1 DEF Evolves
      <4> QED BY <4>1, <4>2 DEF Evolves, Unrun
    <3> QED BY <1>w, <3>1 DEF FailInv, Owned
  <2> QED BY <1>w, <2>1, <2>2, <2>3, <2>4 DEF FailInv
<1>f. ASSUME intent' = intent, RunsGrow, lost' = lost,
             \A i \in Intent : Spent(i) /\ intent[i].status = "failed" => Spent(i)'
      PROVE  \A i \in Intent : intent'[i].status = "failed" => Explained(i)' \/ Spent(i)'
  BY <1>f, ExplainedStays DEF FailInv, FailedIsOver
<1>1. ASSUME NEW i \in Intent, RunOutside(i)
      PROVE  FailInv'
  <2>1. /\ UNCHANGED <<intent, pc, cur, move, attempt, reaper, lost>>
        /\ intent[i].status = "proposed" /\ run[i]["intent"] = "none"
        /\ run' = [run EXCEPT ![i]["intent"] = "running"]
        /\ \A q \in Proc : cur[q] /= i
    BY <1>1 DEF RunOutside, rows, locals
  <2>2. RunsGrow
    BY <2>1 DEF RunsGrow, Key
  <2>3. \A j \in Intent : j /= i => run'[j] = run[j]
    BY <2>1
  <2>4. \A q \in Tick, j \in Intent : cur[q] = j => Evolves(j)
    BY <1>p, <2>1, <2>3 DEF Evolves
  <2>5. \A j \in Intent : Spent(j) /\ intent[j].status = "failed" => Spent(j)'
    BY <2>1, <2>3 DEF Spent
  <2> QED BY <1>f, <1>w, <2>1, <2>2, <2>4, <2>5 DEF FailInv
<1>2. ASSUME NEW i \in Intent, NEW k \in Key, RunEnds(i, k)
      PROVE  FailInv'
  <2>1. PICK outcome \in {"done", "empty", "failed"} :
          /\ UNCHANGED <<intent, pc, cur, move, attempt, reaper, lost>>
          /\ run[i][k] = "running"
          /\ run' = [run EXCEPT ![i][k] = outcome]
    BY <1>2 DEF RunEnds, rows, locals
  <2>2. \A j \in Intent, l \in Key : run'[j][l] = IF j = i /\ l = k THEN outcome ELSE run[j][l]
    BY <2>1
  <2>3. RunsGrow
    BY <2>1, <2>2 DEF RunsGrow
  <2>4. \A q \in Tick, j \in Intent : cur[q] = j => Evolves(j)
    BY <2>1, <2>2 DEF Evolves
  <2>5. \A j \in Intent : Spent(j) => Spent(j)'
    BY <2>1, <2>2 DEF Spent
  <2> QED BY <1>f, <1>w, <2>1, <2>3, <2>4, <2>5 DEF FailInv
<1>3. CASE ReapList
  <2>1. /\ UNCHANGED <<intent, run, pc, cur, move, attempt, lost>>
        /\ \A i \in reaper'.todo : intent[i].status = "executing"
    BY <1>3 DEF ReapList, Abandoned, rows, external, locals
  <2>2. RunsGrow /\ (\A j \in Intent : Evolves(j)) /\ (\A j \in Intent : Spent(j) => Spent(j)')
    BY <2>1 DEF RunsGrow, Evolves, Spent
  <2> QED BY <1>f, <1>w, <2>1, <2>2
<1>4. ASSUME NEW i \in Intent, Reap(i)
      PROVE  FailInv'
  <2>1. /\ UNCHANGED <<run, pc, cur, move, attempt>>
        /\ i \in reaper.todo /\ reaper'.todo = reaper.todo \ {i}
        /\ lost' = lost \union {i}
        /\ SetStatus(i, "failed") \/ intent' = intent
    BY <1>4 DEF Reap, external, locals
  <2>2. /\ \A j \in Intent : j /= i => intent'[j].status = intent[j].status
        /\ intent'[i].status \in {intent[i].status, "failed"}
    BY <2>1, SetStatusEffect DEF Status
  <2>3. intent[i].status /= "proposed"
    BY <2>1 DEF FailInv
  <2>4. RunsGrow /\ Explained(i)'
    BY <2>1 DEF RunsGrow, Explained
  <2>5. \A j \in Intent : Evolves(j)
    BY <2>1, <2>2, <2>3, <2>4 DEF Evolves
  <2>6. ASSUME NEW j \in Intent, intent'[j].status = "failed"
        PROVE  Explained(j)' \/ Spent(j)'
    <3>1. CASE j = i
      BY <2>4, <3>1
    <3>2. CASE j /= i
      <4>1. Explained(j) \/ Spent(j)
        BY <2>2, <2>6, <3>2 DEF FailInv, FailedIsOver
      <4>2. (Explained(j) => Explained(j)') /\ (Spent(j) => Spent(j)')
        BY <2>1, <2>4, ExplainedStays DEF Spent
      <4> QED BY <4>1, <4>2
    <3> QED BY <3>1, <3>2
  <2>7. \A j \in reaper'.todo : intent'[j].status /= "proposed"
    BY <2>1, <2>2 DEF FailInv
  <2> QED BY <1>w, <2>1, <2>4, <2>5, <2>6, <2>7
<1>5. CASE Crash
  <2>1. /\ UNCHANGED <<intent, run, lost>> /\ reaper'.todo = {}
        /\ \A q \in Proc : cur'[q] = NoIntent /\ pc'[q] \in {"idle", "answered"}
    BY <1>5, RestType DEF Crash, rows, external
  <2>2. Owned' /\ (\A q \in Tick : TickKnows(q)') /\ (\A c \in Callback : CallbackKnows(c)')
    BY <1>p, <2>1 DEF Owned, TickKnows, CallbackKnows, Deciding
  <2>3. RunsGrow /\ \A j \in Intent : Spent(j) => Spent(j)'
    BY <2>1 DEF RunsGrow, Spent
  <2> QED BY <1>f, <2>1, <2>2, <2>3 DEF FailInv, FailedIsOver
<1>6. CASE UNCHANGED vars
  <2>1. UNCHANGED <<intent, run, pc, cur, move, attempt, reaper, lost>>
    BY <1>6 DEF vars
  <2>2. RunsGrow /\ (\A j \in Intent : Evolves(j)) /\ (\A j \in Intent : Spent(j) => Spent(j)')
    BY <2>1 DEF RunsGrow, Evolves, Spent
  <2> QED BY <1>f, <1>w, <2>1, <2>2 DEF FailInv
<1> QED BY <1>1, <1>2, <1>3, <1>4, <1>5, <1>6 DEF ReaperStep

LEMMA NextKeepsFailInv == TypeInv /\ FailInv /\ [Next]_vars => FailInv'
BY GateStepKeepsFailInv, InsertKeepsFailInv, RunStepKeepsFailInv, TickStatusKeepsFailInv,
   CallbackStatusKeepsFailInv, ReportKeepsFailInv, WorldKeepsFailInv
DEF Next, TickStep, Proc

\* An intent whose run traded is recorded failed only if the program lost sight
\* of the run, or another of its runs failed: no error after the fill, no late
\* report and no status read too early turns a trade into a failure.
THEOREM FillFailureExplained == Spec => []FailureOfFillIsExplained
<1>1. Init => FailInv
  BY DEF Init, FailInv, FailedIsOver, Owned, TickKnows, CallbackKnows, Deciding, Proc
<1>2. TypeInv /\ FailInv => FailureOfFillIsExplained
  BY DEF FailInv, FailedIsOver, FailureOfFillIsExplained, HasFill, Explained, Spent
<1> QED
  BY <1>1, <1>2, TypesAreInvariant, NextKeepsFailInv, PTL DEF Spec

=============================================================================
