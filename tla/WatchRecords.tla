------------------------------ MODULE WatchRecords ------------------------------
(***************************************************************************)
(* What the sponsored watches share: the table sponsored_watches, the      *)
(* recorded events, the public alerts, the campaigns of the registry       *)
(* contract, and what the world does to them between two steps of the      *)
(* service.                                                                *)
(*                                                                         *)
(* A report is its source root and its text: its hash covers both, and a   *)
(* model writes another text each time it is asked.                        *)
(***************************************************************************)
EXTENDS Integers, FiniteSets, Sequences

CONSTANTS
  Watch,      \* rows of sponsored_watches (bound)
  Call,       \* requests that create watches (bound)
  Request,    \* marketplace request ids, each with a one-time binding code
  TelegramRequest, \* those that come by Telegram
  Event,      \* monitored events
  Foreign,    \* those that concern no watched address
  Text,       \* what the narrative of a report can be
  Targets,    \* what watches are for: their target_kind and whom they alert
  None,
  Horizon,    \* bound: the last moment
  LastCall,   \* bound: the last moment at which a call comes
  Duration,   \* of a campaign
  Throttle,   \* WATCH_ALERT_THROTTLE_MS
  ScanLimit,  \* the limit of listInWindow
  MaxFaults   \* bound: failing calls, lost answers and restarts

\* Whom a watch alerts: the community, the community and its owner, the owner.
Audience == {"public", "bound", "private"}

ASSUME WatchConfig ==
  /\ Foreign \subseteq Event /\ TelegramRequest \subseteq Request
  /\ IsFiniteSet(Watch) /\ IsFiniteSet(Call)
  /\ Targets \subseteq {"contract", "wallet"} \X Audience
  /\ None \notin Watch \union Call \union Request \union Event \union Text
  /\ None \notin 0..Cardinality(Call)
  /\ Horizon \in Nat /\ LastCall \in Nat
  /\ Duration \in Nat \ {0} /\ Throttle \in Nat \ {0}
  /\ ScanLimit \in Nat \ {0} /\ MaxFaults \in Nat

VARIABLES
  now,
  watch,       \* sponsored_watches
  nextWatchId, \* of the registry contract
  anchored,    \* its sponsoredWatches: the report of each campaign
  feed,        \* monitored_events, in the order of captured_at
  alert,       \* public_alerts, by the watch and the event of the dedupe key
  submitted,   \* reports KeeperHub was asked to publish, per campaign
  faults

recordVars == <<now, watch, nextWatchId, anchored, feed, alert, submitted, faults>>

Report == [root : SUBSET Event, text : Text]

ASSUME NoReportYet == None \notin Report

NoWatch == [status |-> "none", kind |-> "contract", audience |-> "public",
            starts |-> 0, request |-> None, id |-> 0, cursor |-> {},
            last |-> None, report |-> None]

NoAlert == [status |-> "none", text |-> {}]

RecordsInit ==
  /\ now = 0
  /\ watch = [w \in Watch |-> NoWatch]
  /\ nextWatchId = 0
  /\ anchored = [i \in 0..Cardinality(Call) |-> None]
  /\ feed = <<>>
  /\ alert = [w \in Watch |-> [e \in Event |-> NoAlert]]
  /\ submitted = [i \in 0..Cardinality(Call) |-> {}]
  /\ faults = 0

NoFault == UNCHANGED faults

Fault ==
  /\ faults < MaxFaults
  /\ faults' = faults + 1

Put(w, row) == watch' = [watch EXCEPT ![w] = row]

EndOf(w) == watch[w].starts + Duration

Open(w) == watch[w].status \in {"accepted", "monitoring"}

InWindow(w, t) == watch[w].starts <= t /\ t < EndOf(w)

Captured == {feed[i].event : i \in DOMAIN feed}

\* eventIsInCampaignWindow and eventMatchesWatchTarget
Matches(w, record) ==
  /\ record.event \notin Foreign
  /\ watch[w].starts <= record.at /\ record.at <= EndOf(w)

\* listInWindow: records of whatever target, the oldest first, up to a limit.
InScan(w, i) ==
  /\ watch[w].starts <= feed[i].at /\ feed[i].at <= EndOf(w)
  /\ Cardinality({j \in 1..i : watch[w].starts <= feed[j].at}) <= ScanLimit

Scanned(w) ==
  {feed[i].event : i \in {j \in DOMAIN feed : InScan(w, j) /\ Matches(w, feed[j])}}

\* The Event Tracker, or a block dispatcher, records an event.
Track(e) ==
  /\ e \notin Captured
  /\ feed' = Append(feed, [event |-> e, at |-> now, source |-> "tracker"])
  /\ UNCHANGED <<now, watch, nextWatchId, anchored, alert, submitted, faults>>

\* publishSponsoredReport of the contract: a campaign has one report.
Publish(i, r) ==
  /\ r \in submitted[i]
  /\ anchored[i] = None
  /\ anchored' = [anchored EXCEPT ![i] = r]
  /\ UNCHANGED <<now, watch, nextWatchId, feed, alert, submitted, faults>>

Tick ==
  /\ now < Horizon
  /\ now' = now + 1
  /\ UNCHANGED <<watch, nextWatchId, anchored, feed, alert, submitted, faults>>

=============================================================================
