------------------------------ MODULE DeskIntents ------------------------------
(***************************************************************************)
(* The trading desk's intents (apps/api/src/desk): a desk tick reads the   *)
(* policy gates, proposes at most one intent, and executes it as a         *)
(* KeeperHub workflow run; KeeperHub calls back with the result; a boot    *)
(* reaper fails what a dead process left executing.                        *)
(*                                                                         *)
(* Ticks (the scheduler's, single-flight, and those of POST /desk/tick),   *)
(* callbacks and the reaper run side by side in one process and meet only  *)
(* in the table desk_intents.  A status change is two awaits: findById,    *)
(* then an update that is not conditional on what was read.                *)
(*                                                                         *)
(* KeeperHub is external: a run started under an idempotency key is        *)
(* started once, and ends with a transaction, without one, or failed.      *)
(***************************************************************************)
EXTENDS Naturals, FiniteSets

CONSTANTS
  Intent,         \* identities of the intents that can be created (bound)
  Strategy,       \* the desk's strategies in play
  Scheduler,      \* the in-process desk scheduler
  Request,        \* POST /desk/tick requests, each served once
  Callback,       \* POST /desk/execution-result requests, each served once
  NoIntent,       \* "no intent"
  UseMcp,         \* runs are started over MCP first, over REST otherwise
  PublicFallback, \* a public fallback workflow is configured
  Microtrade,     \* config.eventMicrotradeEnabled
  DbFaults,       \* database calls may fail
  MaxCrashes      \* bound: restarts of the API process

Defend == "risk_defend"

Tick == {Scheduler} \union Request
Proc == Tick \union Callback

ASSUME DeskConfig ==
  /\ IsFiniteSet(Intent)
  /\ NoIntent \notin Intent
  /\ Strategy \subseteq {Defend, "yield_rotation", "oracle_amm"}
  /\ Tick \intersect Callback = {}
  /\ Scheduler \notin Request
  /\ UseMcp \in BOOLEAN
  /\ PublicFallback \in BOOLEAN
  /\ Microtrade \in BOOLEAN
  /\ DbFaults \in BOOLEAN
  /\ MaxCrashes \in Nat

VARIABLES
  intent,   \* the table: Intent -> [status, strategy]
  run,      \* KeeperHub: Intent -> Key -> state of the run under that key
  tickets,  \* trade tickets inserted per intent
  pc,       \* per process: where it is
  cur,      \* per process: the intent it works on
  gates,    \* per tick: what it has read of the policy gates
  move,     \* per process: the status change under way
  attempt,  \* per tick: which way it runs the workflow
  reaper,   \* the boot reaper: has it listed, and what is left to fail
  lost,     \* ghost: intents whose outcome the program lost sight of, because
            \* a wait ended before the run, a request or the database failed,
            \* or the reaper took them
  crashes   \* restarts so far

external == <<run>>
rows     == <<intent, tickets>>
locals   == <<pc, cur, gates, move, attempt>>
vars     == <<intent, run, tickets, pc, cur, gates, move, attempt, reaper, lost, crashes>>

-----------------------------------------------------------------------------
(* Intents: approved, deferred and cancelled have no writer in the program  *)

Status       == {"none", "proposed", "executing", "filled", "failed"}
OpenStatuses == {"proposed", "executing"}

\* Mutant: a filled intent may still be failed.
CanTransitionFromFilled(from, to) ==
  \/ from = to
  \/ from = "proposed"  /\ to \in {"executing", "failed"}
  \/ from \in {"executing", "filled"} /\ to \in {"filled", "failed"}

CanTransition(from, to) ==
  \/ from = to
  \/ from = "proposed"  /\ to \in {"executing", "failed"}
  \/ from = "executing" /\ to \in {"filled", "failed"}

Open(i) == intent[i].status \in OpenStatuses
OpenStrategies == {intent[i].strategy : i \in {j \in Intent : Open(j)}}

\* Mutant: the table has no unique index.
IndexAllowsAny(i, strategy, status) == TRUE

\* idx_desk_intents_open_strategy, against the other rows.
IndexAllows(i, strategy, status) ==
  status \in OpenStatuses =>
    \A j \in Intent \ {i} : ~(Open(j) /\ intent[j].strategy = strategy)

SetStatus(i, status) == intent' = [intent EXCEPT ![i].status = status]

Key      == {"intent", "fallback"}
RunState == {"none", "running", "done", "empty", "failed"}
Attempt  == {"mcp", "rest", "fallback"}

\* MCP and REST start the same workflow under the same idempotency key.
KeyOf(a) == IF a = "fallback" THEN "fallback" ELSE "intent"

\* caught: an error now leaves executeIntent, its catch clause is behind.
Move == [to : Status, force : BOOLEAN, caught : BOOLEAN]
NoMove == [to |-> "none", force |-> FALSE, caught |-> FALSE]

Gates == [todo : SUBSET {"open", "any"}, open : SUBSET Strategy, any : BOOLEAN,
          micro : BOOLEAN, strategy : Strategy \union {"none"}]

NoGates == [todo |-> {}, open |-> {}, any |-> FALSE, micro |-> FALSE, strategy |-> "none"]

Init ==
  /\ intent = [i \in Intent |-> [status |-> "none", strategy |-> "none"]]
  /\ run = [i \in Intent |-> [k \in Key |-> "none"]]
  /\ tickets = [i \in Intent |-> 0]
  /\ pc = [p \in Proc |-> "idle"]
  /\ cur = [p \in Proc |-> NoIntent]
  /\ gates = [p \in Tick |-> NoGates]
  /\ move = [p \in Proc |-> NoMove]
  /\ attempt = [p \in Tick |-> "rest"]
  /\ reaper = [listed |-> TRUE, todo |-> {}]
  /\ lost = {}
  /\ crashes = 0

Goto(p, place) == pc' = [pc EXCEPT ![p] = place]

Rest(p) == IF p = Scheduler THEN "idle" ELSE "answered"

\* The call ends, normally or with an error.
Stop(p) ==
  /\ Goto(p, Rest(p))
  /\ cur' = [cur EXCEPT ![p] = NoIntent]
  /\ gates' = [t \in Tick |-> IF t = p THEN NoGates ELSE gates[t]]
  /\ attempt' = [t \in Tick |-> IF t = p THEN "rest" ELSE attempt[t]]
  /\ move' = [move EXCEPT ![p] = NoMove]

\* The call goes on to change the status of its intent.
Change(p, to) ==
  /\ Goto(p, "read_status")
  /\ move' = [move EXCEPT ![p] = [NoMove EXCEPT !.to = to, !.caught = (to = "failed")]]
  /\ attempt' = [t \in Tick |-> IF t = p THEN "rest" ELSE attempt[t]]
  /\ UNCHANGED <<cur, gates>>

-----------------------------------------------------------------------------
(* runDeskTick: gates, policy, propose *)

\* A tick that may trade at all: not paused, with a mark of the positions.
StartTick(p) ==
  /\ pc[p] = "idle"
  /\ Goto(p, "gates")
  /\ gates' = [gates EXCEPT ![p].todo = {"open", "any"}]
  /\ UNCHANGED <<rows, external, cur, move, attempt, reaper, lost, crashes>>

\* The strategy phase reads in parallel; the event microtrade phase reads
\* hasAnyOpen first and goes on only without an open intent.
ReadOpen(p) ==
  /\ pc[p] = "gates"
  /\ "open" \in gates[p].todo
  /\ gates[p].micro => "any" \notin gates[p].todo /\ ~gates[p].any
  /\ gates' = [gates EXCEPT ![p].todo = @ \ {"open"}, ![p].open = OpenStrategies]
  /\ UNCHANGED <<rows, external, pc, cur, move, attempt, reaper, lost, crashes>>

ReadAny(p) ==
  /\ pc[p] = "gates"
  /\ "any" \in gates[p].todo
  /\ gates' = [gates EXCEPT ![p].todo = @ \ {"any"}, ![p].any = (OpenStrategies /= {})]
  /\ UNCHANGED <<rows, external, pc, cur, move, attempt, reaper, lost, crashes>>

\* Rule 4 of the policy engine; every other rule can only refuse.
SingleFlight(g, strategy) ==
  /\ strategy \notin g.open
  /\ strategy /= Defend /\ g.any => Defend \in g.open

\* No intent in this phase: the strategy phase is followed by the microtrade's.
NextPhase(p) ==
  IF Microtrade /\ ~gates[p].micro
    THEN /\ Goto(p, "gates")
         /\ gates' = [gates EXCEPT ![p] =
                        [NoGates EXCEPT !.todo = {"open", "any"}, !.micro = TRUE]]
         /\ UNCHANGED <<cur, move, attempt>>
    ELSE Stop(p)

Refuse(p) ==
  /\ pc[p] = "gates"
  /\ gates[p].todo = {} \/ (gates[p].micro /\ "any" \notin gates[p].todo)
  /\ NextPhase(p)
  /\ UNCHANGED <<rows, external, reaper, lost, crashes>>

ReadFails(p) ==
  /\ pc[p] = "gates"
  /\ DbFaults
  /\ Stop(p)
  /\ UNCHANGED <<rows, external, reaper, lost, crashes>>

Allow(p) ==
  /\ pc[p] = "gates"
  /\ gates[p].todo = {}
  /\ \E s \in Strategy :
       /\ gates[p].micro => s /= Defend
       /\ SingleFlight(gates[p], s)
       /\ gates' = [gates EXCEPT ![p].strategy = s]
  /\ Goto(p, "find_open")
  /\ UNCHANGED <<rows, external, cur, move, attempt, reaper, lost, crashes>>

\* propose: findOpenByStrategy ...
FindOpen(p) ==
  /\ pc[p] = "find_open"
  /\ \/ /\ gates[p].strategy \in OpenStrategies \/ DbFaults
        /\ NextPhase(p)
     \/ /\ gates[p].strategy \notin OpenStrategies
        /\ Goto(p, "insert")
        /\ UNCHANGED <<cur, gates, move, attempt>>
  /\ UNCHANGED <<rows, external, reaper, lost, crashes>>

\* ... then create, which the unique index may refuse.  The tick executes what
\* it proposed, or leaves it to others (execute = false).
Insert(p) ==
  /\ pc[p] = "insert"
  /\ \E i \in Intent :
       /\ intent[i].status = "none"
       /\ IndexAllows(i, gates[p].strategy, "proposed")
       /\ intent' = [intent EXCEPT ![i] =
                       [status |-> "proposed", strategy |-> gates[p].strategy]]
       /\ \/ /\ Goto(p, "execute")
             /\ cur' = [cur EXCEPT ![p] = i]
             /\ gates' = [gates EXCEPT ![p] = NoGates]
             /\ UNCHANGED <<move, attempt>>
          \/ Stop(p)
          \/ DbFaults /\ NextPhase(p)
  /\ UNCHANGED <<tickets, external, reaper, lost, crashes>>

InsertRefused(p) ==
  /\ pc[p] = "insert"
  /\ \/ \A i \in Intent :
          intent[i].status = "none" => ~IndexAllows(i, gates[p].strategy, "proposed")
     \/ DbFaults
  /\ NextPhase(p)
  /\ UNCHANGED <<rows, external, reaper, lost, crashes>>

-----------------------------------------------------------------------------
(* IntentService.transition and reconcileFilled *)

\* reconcileFilled accepts executing and failed.
Legal(m, from) ==
  IF m.force THEN from \in {"executing", "failed"} ELSE CanTransition(from, m.to)

\* executeIntent's catch fails the intent; an error of that, or of what precedes
\* the try, ends the tick, and any error ends a callback.
Threw(p) ==
  IF p \in Tick /\ ~move[p].caught THEN Change(p, "failed") ELSE Stop(p)

ReadStatus(p) ==
  /\ pc[p] = "read_status"
  /\ LET from == intent[cur[p]].status
     IN  \/ /\ Legal(move[p], from)
            /\ Goto(p, "write_status")
            /\ UNCHANGED <<cur, gates, move, attempt, lost>>
         \/ ~Legal(move[p], from) /\ Threw(p) /\ UNCHANGED lost
         \/ DbFaults /\ Threw(p) /\ lost' = lost \union {cur[p]}
  /\ UNCHANGED <<rows, external, reaper, crashes>>

\* Where the call goes on once the status is written.
Written(p) ==
  CASE move[p].to = "executing" /\ p \in Tick ->
         /\ Goto(p, "submit")
         /\ move' = [move EXCEPT ![p] = NoMove]
         /\ UNCHANGED <<cur, gates, attempt>>
    [] move[p].to = "executing" /\ p \in Callback -> Change(p, "filled")
    [] move[p].to = "filled" ->
         Goto(p, "publish") /\ UNCHANGED <<cur, gates, move, attempt>>
    [] OTHER -> Stop(p)

\* The update asks nothing of the status it overwrites.
WriteStatus(p) ==
  LET i  == cur[p]
      to == move[p].to
  IN  /\ pc[p] = "write_status"
      /\ \/ /\ IndexAllows(i, intent[i].strategy, to)
            /\ SetStatus(i, to)
            /\ Written(p)
            /\ UNCHANGED lost
         \/ /\ ~IndexAllows(i, intent[i].strategy, to)
            /\ UNCHANGED <<intent, lost>>
            /\ Threw(p)
         \/ /\ DbFaults
            /\ \/ IndexAllows(i, intent[i].strategy, to) /\ SetStatus(i, to)
               \/ UNCHANGED intent
            /\ Threw(p)
            /\ lost' = lost \union {i}
      /\ UNCHANGED <<tickets, external, reaper, crashes>>

-----------------------------------------------------------------------------
(* executeIntent and ExecutionBridge.execute *)

\* Without a bridge, a workflow input or a clean simulation the intent fails.
Execute(p) ==
  /\ pc[p] = "execute"
  /\ \/ Change(p, "failed")
     \/ /\ Goto(p, "read_status")
        /\ move' = [move EXCEPT ![p] = [NoMove EXCEPT !.to = "executing"]]
        /\ attempt' = [attempt EXCEPT ![p] = IF UseMcp THEN "mcp" ELSE "rest"]
        /\ UNCHANGED <<cur, gates>>
  /\ UNCHANGED <<rows, external, reaper, lost, crashes>>

Started(p) ==
  [run EXCEPT ![cur[p]][KeyOf(attempt[p])] = IF @ = "none" THEN "running" ELSE @]

\* A failed MCP attempt may be repeated over REST; one that timed out moves on
\* to the public fallback workflow under a fresh key.
MayFollow(a, next, timedOut) ==
  \/ a = "mcp" /\ next = "rest" /\ ~(timedOut /\ PublicFallback)
  \/ a /= "fallback" /\ next = "fallback" /\ timedOut /\ PublicFallback

TryAgain(p) ==
  /\ \E next \in Attempt, timedOut \in BOOLEAN :
       /\ MayFollow(attempt[p], next, timedOut)
       /\ attempt' = [attempt EXCEPT ![p] = next]
  /\ Goto(p, "submit")
  /\ UNCHANGED <<cur, gates, move>>

Submit(p) ==
  /\ pc[p] = "submit"
  /\ run' = Started(p)
  /\ Goto(p, "wait")
  /\ UNCHANGED <<rows, cur, gates, move, attempt, reaper, lost, crashes>>

\* The request fails although KeeperHub may have started the run.
SubmitFails(p) ==
  /\ pc[p] = "submit"
  /\ run' \in {run, Started(p)}
  /\ TryAgain(p) \/ Change(p, "failed")
  /\ lost' = lost \union {cur[p]}
  /\ UNCHANGED <<rows, reaper, crashes>>

RunOf(p) == run[cur[p]][KeyOf(attempt[p])]

\* Mutant: any completed run is a fill.
ReceiptWithoutHash(p) ==
  /\ pc[p] = "wait"
  /\ RunOf(p) \in {"done", "empty"}
  /\ Change(p, "filled")
  /\ UNCHANGED <<rows, external, reaper, lost, crashes>>

Receipt(p) ==
  /\ pc[p] = "wait"
  /\ RunOf(p) = "done"
  /\ Change(p, "filled")
  /\ UNCHANGED <<rows, external, reaper, lost, crashes>>

\* "refusing to log fake fill"
NoTxHash(p) ==
  /\ pc[p] = "wait"
  /\ RunOf(p) = "empty"
  /\ Goto(p, "read_status")
  /\ move' = [move EXCEPT ![p] = [NoMove EXCEPT !.to = "failed"]]
  /\ attempt' = [attempt EXCEPT ![p] = "rest"]
  /\ UNCHANGED <<rows, external, cur, gates, reaper, lost, crashes>>

\* The run failed, the poll deadline passed, or a poll request failed.
WaitFails(p) ==
  /\ pc[p] = "wait"
  /\ TryAgain(p) \/ Change(p, "failed")
  /\ lost' = IF RunOf(p) = "failed" THEN lost ELSE lost \union {cur[p]}
  /\ UNCHANGED <<rows, external, reaper, crashes>>

\* tickets.publish inserts a row with a hash over its own time stamp, so that no
\* unique index refuses a second one; a later step of it may throw.  A callback
\* may ask for no ticket.
Publish(p) ==
  /\ pc[p] = "publish"
  /\ \/ /\ tickets' = [tickets EXCEPT ![cur[p]] = @ + 1]
        /\ Stop(p)
     \/ /\ p \in Callback
        /\ UNCHANGED tickets
        /\ Stop(p)
     \/ /\ DbFaults
        /\ tickets' \in {tickets, [tickets EXCEPT ![cur[p]] = @ + 1]}
        /\ Threw(p)
  /\ UNCHANGED <<intent, external, reaper, lost, crashes>>

-----------------------------------------------------------------------------
(* applyExecutionResult *)

\* KeeperHub reports a failed run, or a run with its transactions.  The first
\* await reads the row and decides how the intent gets to filled.
Report(c) ==
  /\ pc[c] = "idle"
  /\ \E i \in Intent, k \in Key :
       LET existing == intent[i].status
           to == IF run[i][k] = "failed" THEN "failed"
                 ELSE IF existing = "proposed" THEN "executing" ELSE "filled"
       IN  /\ run[i][k] \in {"done", "failed"}
           /\ cur' = [cur EXCEPT ![c] = i]
           /\ move' = [move EXCEPT ![c] =
                         [NoMove EXCEPT !.to = to,
                                        !.force = (to = "filled" /\ existing = "failed")]]
  /\ Goto(c, "read_status")
  /\ UNCHANGED <<rows, external, gates, attempt, reaper, lost, crashes>>

-----------------------------------------------------------------------------
(* KeeperHub, the boot reaper, restarts *)

RunEnds(i, k) ==
  /\ run[i][k] = "running"
  /\ \E outcome \in {"done", "empty", "failed"} :
       run' = [run EXCEPT ![i][k] = outcome]
  /\ UNCHANGED <<rows, locals, reaper, lost, crashes>>

\* An intent left proposed by a tick with execute = false is run by a workflow
\* outside the API, which reports back.
RunOutside(i) ==
  /\ intent[i].status = "proposed"
  /\ \A p \in Proc : cur[p] /= i
  /\ run[i]["intent"] = "none"
  /\ run' = [run EXCEPT ![i]["intent"] = "running"]
  /\ UNCHANGED <<rows, locals, reaper, lost, crashes>>

\* Mutant: looks for intents that were not started.
AbandonedProposed == {i \in Intent : intent[i].status = "proposed"}

Abandoned == {i \in Intent : intent[i].status = "executing"}

\* Not awaited at boot: ticks and callbacks may run before and meanwhile.
ReapList ==
  /\ ~reaper.listed
  /\ \/ reaper' = [listed |-> TRUE, todo |-> Abandoned]
     \/ DbFaults /\ reaper' = [listed |-> TRUE, todo |-> {}]
  /\ UNCHANGED <<rows, external, locals, lost, crashes>>

Reap(i) ==
  /\ i \in reaper.todo
  /\ reaper' = [reaper EXCEPT !.todo = @ \ {i}]
  /\ SetStatus(i, "failed") \/ (DbFaults /\ UNCHANGED intent)
  /\ lost' = lost \union {i}
  /\ UNCHANGED <<tickets, external, locals, crashes>>

Crash ==
  /\ crashes < MaxCrashes
  /\ crashes' = crashes + 1
  /\ pc' = [p \in Proc |-> IF pc[p] = "idle" THEN "idle" ELSE Rest(p)]
  /\ cur' = [p \in Proc |-> NoIntent]
  /\ gates' = [p \in Tick |-> NoGates]
  /\ move' = [p \in Proc |-> NoMove]
  /\ attempt' = [p \in Tick |-> "rest"]
  /\ reaper' = [listed |-> FALSE, todo |-> {}]
  /\ UNCHANGED <<rows, external, lost>>

-----------------------------------------------------------------------------

StatusStep(p) == ReadStatus(p) \/ WriteStatus(p) \/ Publish(p)

TickStep(p) ==
  \/ ReadOpen(p) \/ ReadAny(p) \/ ReadFails(p) \/ Refuse(p) \/ Allow(p)
  \/ FindOpen(p) \/ Insert(p) \/ InsertRefused(p)
  \/ Execute(p) \/ Submit(p) \/ SubmitFails(p)
  \/ Receipt(p) \/ NoTxHash(p) \/ WaitFails(p)

ReaperStep == ReapList \/ \E i \in Intent : Reap(i)

Next ==
  \/ \E p \in Tick : StartTick(p) \/ TickStep(p)
  \/ \E p \in Proc : StatusStep(p)
  \/ \E c \in Callback : Report(c)
  \/ \E i \in Intent : RunOutside(i) \/ \E k \in Key : RunEnds(i, k)
  \/ ReaperStep
  \/ Crash

Spec == Init /\ [][Next]_vars

\* Running calls and the reaper go on; KeeperHub and HTTP clients owe nothing.
Fairness ==
  /\ \A p \in Tick : WF_vars(TickStep(p))
  /\ \A p \in Proc : WF_vars(StatusStep(p))
  /\ WF_vars(ReaperStep)

FairSpec == Spec /\ Fairness

=============================================================================
