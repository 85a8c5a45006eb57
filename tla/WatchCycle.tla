------------------------------- MODULE WatchCycle -------------------------------
(***************************************************************************)
(* processCampaignCycle: one run at a time activates the watches whose     *)
(* window has begun, monitors those inside it, and completes those past    *)
(* it.  A run lists the rows of each phase and takes them one by one, with *)
(* the time of its start.                                                  *)
(*                                                                         *)
(* Nothing else updates a row, so a row is read where it is used.  The     *)
(* registry writes of an alert fail softly and change nothing here.        *)
(***************************************************************************)
EXTENDS WatchRecords

VARIABLES
  phase,     \* of the run
  started,   \* the time it goes by
  batch,     \* rows of the phase it has yet to take
  cur,       \* the row it is at
  step,      \* the await in that row
  matched,   \* the events collected for the row
  primary,   \* the first of those that are new
  dmOk,      \* how the owner's message went
  report,    \* the report it wrote
  dmed,      \* ghost: per watch, events its owner was told of
  posted,    \* ghost: per watch, events the community was told of
  repeated,  \* ghost: per watch, events told twice in one place
  folded,    \* ghost: per watch, events passed over in silence by design
  rode,      \* ghost: per watch, events that went with an older alert's text
  spoke      \* ghost: per watch, when it last told anyone

runVars   == <<phase, started, batch, cur, step, matched, primary, dmOk, report>>
ghostVars == <<dmed, posted, repeated, folded, rode, spoke>>
cycleVars == <<runVars, ghostVars>>

Phase == {"idle", "activate", "monitor", "complete"}

Step == {"none", "dm", "decide", "publish", "commit_new", "commit_old",
         "submit", "await", "close"}

NoReport == [root |-> {}, text |-> None]

RunRest ==
  /\ phase' = "idle" /\ batch' = {}
  /\ cur' = None /\ step' = "none"
  /\ matched' = {} /\ primary' = None /\ dmOk' = "no" /\ report' = NoReport

CycleInit ==
  /\ phase = "idle" /\ started = 0 /\ batch = {}
  /\ cur = None /\ step = "none"
  /\ matched = {} /\ primary = None /\ dmOk = "no" /\ report = NoReport
  /\ dmed = [w \in Watch |-> {}]
  /\ posted = [w \in Watch |-> {}]
  /\ repeated = [w \in Watch |-> {}]
  /\ folded = [w \in Watch |-> {}]
  /\ rode = [w \in Watch |-> {}]
  /\ spoke = [w \in Watch |-> None]

-----------------------------------------------------------------------------

\* A phase begins with its list, or with none when the read fails.
Enter(next, list) ==
  /\ phase' = next
  /\ \/ batch' = list /\ NoFault
     \/ batch' = {} /\ Fault
  /\ UNCHANGED <<cur, step, matched, primary, dmOk, report, ghostVars, now, watch,
                 nextWatchId, anchored, feed, alert, submitted>>

Done == batch = {} /\ cur = None

Begin ==
  /\ phase = "idle"
  /\ started' = now
  /\ Enter("activate", {w \in Watch : watch[w].status = "accepted" /\ InWindow(w, now)})

BeginMonitoring ==
  /\ phase = "activate" /\ Done
  /\ UNCHANGED started
  /\ Enter("monitor", {w \in Watch : watch[w].status = "monitoring" /\ InWindow(w, started)})

\* Mutant: a watch that was never monitored is not completed.
BeginCompletionMonitored ==
  /\ phase = "monitor" /\ Done
  /\ UNCHANGED started
  /\ Enter("complete", {w \in Watch : watch[w].status = "monitoring" /\ EndOf(w) <= started})

\* Mutant: a watch is reported on one moment too early.
BeginCompletionEarly ==
  /\ phase = "monitor" /\ Done
  /\ UNCHANGED started
  /\ Enter("complete", {w \in Watch : Open(w) /\ EndOf(w) <= started + 1})

BeginCompletion ==
  /\ phase = "monitor" /\ Done
  /\ UNCHANGED started
  /\ Enter("complete", {w \in Watch : Open(w) /\ EndOf(w) <= started})

EndRun ==
  /\ phase = "complete" /\ Done
  /\ RunRest
  /\ UNCHANGED <<started, ghostVars, recordVars>>

\* The run is through with a row.
Leave ==
  /\ cur' = None /\ step' = "none"
  /\ matched' = {} /\ primary' = None /\ dmOk' = "no" /\ report' = NoReport
  /\ UNCHANGED <<phase, started>>

Activate(w) ==
  /\ phase = "activate" /\ w \in batch
  /\ batch' = batch \ {w}
  /\ \/ Put(w, [watch[w] EXCEPT !.status = "monitoring"]) /\ NoFault
     \/ UNCHANGED watch /\ Fault
  /\ UNCHANGED <<phase, started, cur, step, matched, primary, dmOk, report, ghostVars,
                 now, nextWatchId, anchored, feed, alert, submitted>>

-----------------------------------------------------------------------------

\* collectMatchingEvents: the rows known by id, those of the window scan, and
\* one that a scan of the chain may find, which is recorded if it is not yet.
\* The chain is scanned for a wallet, for a report, and for a contract unless
\* all its events came by the tracker.
Known(w, lost) == (watch[w].cursor \intersect Captured) \ lost

Untracked(events) ==
  \E i \in DOMAIN feed : feed[i].event \in events /\ feed[i].source = "scan"

ScansChain(w, forced, soFar) ==
  forced \/ watch[w].kind = "wallet" \/ soFar = {} \/ Untracked(soFar)

\* Mutant: a report is written from the events known so far.
CollectKnown(w, forced, lost, found) ==
  LET soFar == IF forced THEN Known(w, lost) ELSE Known(w, lost) \union Scanned(w)
  IN /\ found \in (Event \ Foreign) \union {None}
     /\ found /= None => ScansChain(w, forced, soFar)
     /\ matched' = soFar \union ({found} \ {None})
     /\ feed' = IF found \in Captured \union {None} THEN feed
                ELSE Append(feed, [event |-> found, at |-> now, source |-> "scan"])
     /\ IF lost = {} THEN NoFault ELSE Fault

Collect(w, forced, lost, found) ==
  LET soFar == Known(w, lost) \union Scanned(w)
  IN /\ found \in (Event \ Foreign) \union {None}
     /\ found /= None => ScansChain(w, forced, soFar)
     /\ matched' = soFar \union ({found} \ {None})
     /\ feed' = IF found \in Captured \union {None} THEN feed
                ELSE Append(feed, [event |-> found, at |-> now, source |-> "scan"])
     /\ IF lost = {} THEN NoFault ELSE Fault

\* The first of the new events: in feed order, what the chain scan found last.
IsFirst(e, fresh) ==
  /\ e \in fresh
  /\ \A d \in (fresh \ {e}) \intersect Captured :
       \E i, j \in DOMAIN feed : feed[i].event = e /\ feed[j].event = d /\ i < j

New(w) == matched \ watch[w].cursor

AfterCollect(w, fresh) ==
  IF fresh = {} THEN "commit_new"
  ELSE IF watch[w].audience = "public" THEN "decide" ELSE "dm"

CollectEvents(w, lost, found) ==
  /\ phase = "monitor" /\ cur = None /\ w \in batch
  /\ Collect(w, FALSE, lost, found)
  /\ cur' = w /\ batch' = batch \ {w}
  /\ LET fresh == matched' \ watch[w].cursor
     IN /\ step' = AfterCollect(w, fresh)
        /\ IF fresh = {} THEN primary' = None
           ELSE primary' \in fresh /\ IsFirst(primary', fresh)
  /\ UNCHANGED <<phase, started, dmOk, report, ghostVars, now, watch, nextWatchId,
                 anchored, alert, submitted>>

\* The events cannot be listed: the row is left for the next run.
CollectFails(w) ==
  /\ phase \in {"monitor", "complete"} /\ cur = None /\ w \in batch
  /\ Fault
  /\ batch' = batch \ {w}
  /\ UNCHANGED <<phase, started, cur, step, matched, primary, dmOk, report, ghostVars,
                 now, watch, nextWatchId, anchored, feed, alert, submitted>>

-----------------------------------------------------------------------------

\* Mutant: the cursor advances whatever became of the message.
CommitAnyway(ok) == "commit_new"

\* deliverWatchAlert
Commit(ok) == IF ok THEN "commit_new" ELSE "commit_old"

Tell(w, heard, events) ==
  /\ repeated' = [repeated EXCEPT ![w] = @ \union (heard \intersect events)]
  /\ spoke' = [spoke EXCEPT ![w] = started]

\* deliverWatchDm: the owner is told, or not, or is told and the answer is lost.
\* For a private watch that is the delivery.
SendDm(w) ==
  /\ step = "dm" /\ cur = w
  /\ \/ dmOk' = "yes" /\ NoFault
     \/ dmOk' = "no" /\ Fault
  /\ \/ /\ Tell(w, dmed[w], New(w))
        /\ dmed' = [dmed EXCEPT ![w] = @ \union New(w)]
     \/ dmOk' = "no" /\ UNCHANGED <<dmed, repeated, spoke>>
  /\ step' = IF watch[w].audience = "private" THEN Commit(dmOk' = "yes") ELSE "decide"
  /\ UNCHANGED <<phase, started, batch, cur, matched, primary, report, posted, folded, rode,
                 now, watch, nextWatchId, anchored, feed, alert, submitted>>

Throttled(w) == watch[w].last /= None /\ started < watch[w].last + Throttle

\* Throttled, or a wallet: nothing is published, and the owner's message, if
\* there is an owner to tell, is the delivery.
FoldEvents(w) ==
  /\ step = "decide" /\ cur = w
  /\ Throttled(w) \/ watch[w].kind = "wallet"
  /\ IF watch[w].audience = "bound"
     THEN step' = Commit(dmOk = "yes") /\ UNCHANGED folded
     ELSE step' = "commit_new" /\ folded' = [folded EXCEPT ![w] = @ \union New(w)]
  /\ UNCHANGED <<phase, started, batch, cur, matched, primary, dmOk, report, dmed, posted,
                 repeated, rode, spoke, recordVars>>

\* The alert of the first new event: an earlier attempt's row is used as it is.
PrepareAlert(w) ==
  /\ step = "decide" /\ cur = w
  /\ ~Throttled(w) /\ watch[w].kind = "contract"
  /\ \/ step' = "publish" /\ NoFault
     \/ step' = "commit_old" /\ Fault
  /\ \/ /\ alert[w][primary].status = "none"
        /\ alert' = [alert EXCEPT ![w][primary] = [status |-> "queued", text |-> New(w)]]
     \/ /\ alert[w][primary].status /= "none" \/ step' = "commit_old"
        /\ UNCHANGED alert
  /\ UNCHANGED <<phase, started, batch, cur, matched, primary, dmOk, report, ghostVars,
                 now, watch, nextWatchId, anchored, feed, submitted>>

\* publishAlert: the alert is on the public feed once its row says so; the
\* registry write before it and the broadcast after it fail softly.
PublishAlert(w) ==
  LET text == alert[w][primary].text
  IN /\ step = "publish" /\ cur = w
     /\ \/ step' = "commit_new" /\ NoFault
        \/ step' = "commit_old" /\ Fault
     /\ \/ /\ alert' = [alert EXCEPT ![w][primary].status = "published"]
           /\ Tell(w, posted[w], text)
           /\ posted' = [posted EXCEPT ![w] = @ \union text]
        \/ step' = "commit_old" /\ UNCHANGED <<alert, posted, repeated, spoke>>
     /\ rode' = [rode EXCEPT ![w] = @ \union (New(w) \ text)]
     /\ UNCHANGED <<phase, started, batch, cur, matched, primary, dmOk, report, dmed, folded,
                    now, watch, nextWatchId, anchored, feed, submitted>>

\* Mutant: the cursor holds the new events only.
MonitoredNewOnly(w) ==
  [watch[w] EXCEPT !.status = "monitoring",
                   !.cursor = IF step = "commit_new" THEN New(w) ELSE @,
                   !.last = IF step = "commit_new" /\ New(w) /= {} THEN started ELSE @]

\* refreshMonitoring: the cursor advances, and the throttle starts, with what
\* deliverWatchAlert has answered.
Monitored(w) ==
  [watch[w] EXCEPT !.status = "monitoring",
                   !.cursor = IF step = "commit_new" THEN matched ELSE @,
                   !.last = IF step = "commit_new" /\ New(w) /= {} THEN started ELSE @]

CommitMonitoring(w) ==
  /\ step \in {"commit_new", "commit_old"} /\ cur = w
  /\ \/ Put(w, Monitored(w)) /\ NoFault
     \/ Put(w, Monitored(w)) /\ Fault
     \/ UNCHANGED watch /\ Fault
  /\ Leave
  /\ UNCHANGED <<batch, ghostVars, now, nextWatchId, anchored, feed, alert, submitted>>

-----------------------------------------------------------------------------

\* completeEndedWatch: events are collected with a scan of the chain, and a
\* narrative is written about them.
WriteReport(w, lost, found, text) ==
  /\ phase = "complete" /\ cur = None /\ w \in batch
  /\ Collect(w, TRUE, lost, found)
  /\ cur' = w /\ batch' = batch \ {w}
  /\ report' = [root |-> matched', text |-> text]
  /\ step' = "submit"
  /\ UNCHANGED <<phase, started, primary, dmOk, ghostVars, now, watch, nextWatchId,
                 anchored, alert, submitted>>

\* completeWatchInternal: publishSponsoredReport is asked of KeeperHub.
Submit(w) ==
  /\ step = "submit" /\ cur = w
  /\ submitted' = [submitted EXCEPT ![watch[w].id] = @ \union {report}]
  /\ step' = "await"
  /\ UNCHANGED <<phase, started, batch, cur, matched, primary, dmOk, report, ghostVars,
                 now, watch, nextWatchId, anchored, feed, alert, faults>>

ToClose ==
  /\ step' = "close"
  /\ UNCHANGED <<phase, started, batch, cur, matched, primary, dmOk, report, ghostVars,
                 now, watch, nextWatchId, anchored, feed, alert, submitted>>

\* Mutant: the answer to the request is taken for the receipt.
ConfirmedEarly(w) ==
  /\ step = "await" /\ cur = w
  /\ NoFault
  /\ ToClose

\* The receipt of the transaction.
Confirmed(w) ==
  /\ step = "await" /\ cur = w
  /\ anchored[watch[w].id] = report
  /\ NoFault
  /\ ToClose

\* "report already published": the row is completed all the same.
Refused(w) ==
  /\ step = "await" /\ cur = w
  /\ anchored[watch[w].id] \notin {None, report}
  /\ NoFault
  /\ ToClose

\* "completed without a transaction hash" is taken for the same.
Hashless(w) ==
  /\ step = "await" /\ cur = w
  /\ Fault
  /\ ToClose

\* A read fails, or the answer does not come: the next run tries again.
GiveUp(w) ==
  /\ step \in {"submit", "await"} /\ cur = w
  /\ Fault
  /\ Leave
  /\ UNCHANGED <<batch, ghostVars, now, watch, nextWatchId, anchored, feed, alert, submitted>>

Completed(w) ==
  [watch[w] EXCEPT !.status = "completed", !.report = report, !.cursor = report.root]

Complete(w) ==
  /\ step = "close" /\ cur = w
  /\ \/ Put(w, Completed(w)) /\ NoFault
     \/ Put(w, Completed(w)) /\ Fault
     \/ UNCHANGED watch /\ Fault
  /\ Leave
  /\ UNCHANGED <<batch, ghostVars, now, nextWatchId, anchored, feed, alert, submitted>>

-----------------------------------------------------------------------------

RowStep(w) ==
  \/ Activate(w)
  \/ \E lost \in SUBSET watch[w].cursor, found \in Event \union {None} :
       \/ CollectEvents(w, lost, found)
       \/ \E text \in Text : WriteReport(w, lost, found, text)
  \/ CollectFails(w)
  \/ SendDm(w) \/ FoldEvents(w) \/ PrepareAlert(w) \/ PublishAlert(w)
  \/ CommitMonitoring(w)
  \/ Submit(w) \/ Confirmed(w) \/ Refused(w) \/ Hashless(w) \/ GiveUp(w) \/ Complete(w)

RunStep ==
  \/ BeginMonitoring \/ BeginCompletion \/ EndRun
  \/ \E w \in Watch : RowStep(w)

=============================================================================
