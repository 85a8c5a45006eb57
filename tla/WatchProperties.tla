---------------------------- MODULE WatchProperties ----------------------------
(***************************************************************************)
(* What a sponsored watch promises: a campaign that is tracked, alerts     *)
(* that are sent once and not lost, and a report that is on chain.         *)
(***************************************************************************)
EXTENDS SponsoredWatches

WatchRow ==
  [status : {"none", "accepted", "monitoring", "completed"},
   kind : {"contract", "wallet"}, audience : Audience, starts : Nat,
   request : Request \union {None}, id : 0..Cardinality(Call),
   cursor : SUBSET Event, last : Nat \union {None},
   report : Report \union {None}]

AlertRow == [status : {"none", "queued", "published"}, text : SUBSET Event]

FeedRow == [event : Event, at : Nat, source : {"tracker", "scan"}]

RecordsTyped ==
  /\ now \in Nat /\ faults \in Nat
  /\ watch \in [Watch -> WatchRow]
  /\ nextWatchId \in 0..Cardinality(Call)
  /\ anchored \in [0..Cardinality(Call) -> Report \union {None}]
  /\ feed \in Seq(FeedRow)
  /\ alert \in [Watch -> [Event -> AlertRow]]
  /\ submitted \in [0..Cardinality(Call) -> SUBSET Report]

Plan == [kind : {"contract", "wallet"}, audience : Audience, starts : Nat]

CreationTyped ==
  /\ at \in [Call -> CallPlace]
  /\ asked \in [Call -> Request \union {None}]
  /\ plan \in [Call -> Plan]
  /\ id \in [Call -> 0..Cardinality(Call) \union {None}]
  /\ unspent \subseteq Call
  /\ order \in [Request -> Plan]
  /\ minted \in [Request -> 0..Cardinality(Call) \union {None}]
  /\ made \in [0..Cardinality(Call) -> [kind : {"none", "contract", "wallet"}, starts : Nat]]
  /\ spent \subseteq Request
  /\ orders \in Nat
  /\ forsaken \subseteq 0..Cardinality(Call)

RunTyped ==
  /\ phase \in Phase /\ started \in Nat /\ batch \subseteq Watch
  /\ cur \in Watch \union {None}
  /\ step \in Step
  /\ matched \subseteq Event
  /\ primary \in Event \union {None}
  /\ dmOk \in {"yes", "no"}
  /\ report \in [root : SUBSET Event, text : Text \union {None}]

GhostsTyped ==
  /\ dmed \in [Watch -> SUBSET Event] /\ posted \in [Watch -> SUBSET Event]
  /\ repeated \in [Watch -> SUBSET Event] /\ folded \in [Watch -> SUBSET Event]
  /\ rode \in [Watch -> SUBSET Event]
  /\ spoke \in [Watch -> Nat \union {None}]

\* Every variable has its type.
TypeOK == RecordsTyped /\ CreationTyped /\ RunTyped /\ GhostsTyped

\* Two rows may have one campaign, when different requests ask for the same
\* watch of the same moment: KeeperHub takes them for one.
Alike(v, w) ==
  /\ watch[v].kind = watch[w].kind /\ watch[v].starts = watch[w].starts
  /\ watch[v].request = None \/ watch[v].request /= watch[w].request

Trackers(i) == {w \in Watch : watch[w].status /= "none" /\ watch[w].id = i}

\* A campaign created on chain is tracked, unless its call is still under way or
\* was told, or left to see, that it failed: retries of a request that race each
\* other never leave a campaign nobody watches behind a success, nor two rows of
\* one request.
CampaignTracked ==
  \A i \in 0..(nextWatchId - 1) :
    /\ \A v, w \in Trackers(i) : v = w \/ Alike(v, w)
    /\ Trackers(i) /= {} \/ i \in forsaken \/ \E c \in Call : id[c] = i

\* The cursor never passes an event in silence: the owner was told of it, or
\* the community was, or the watch is one that keeps silent about it by design,
\* or it went with the alert of an earlier attempt.  For a private watch only
\* the first counts, and the last needs a failure.
CursorExplained ==
  \A w \in Watch : watch[w].status = "monitoring" =>
    /\ watch[w].cursor \subseteq dmed[w] \union posted[w] \union folded[w] \union rode[w]
    /\ watch[w].audience = "private" => watch[w].cursor \subseteq dmed[w]
    /\ watch[w].audience = "bound" => folded[w] = {}
    /\ rode[w] /= {} => faults > 0

\* Nobody is told twice of an event in the same place unless a call failed, its
\* answer was lost, or the process died between the message and the cursor.
ToldTwiceExplained ==
  \A w \in Watch : repeated[w] /= {} => faults > 0

\* The report of a completed campaign covers every event of its target that was
\* recorded while it ran, but for those behind the limit of the window scan and,
\* when they were known before, a read that failed.
ReportCovers ==
  \A w \in Watch : watch[w].status = "completed" =>
    \A i \in DOMAIN feed :
      (feed[i].at < EndOf(w) /\ Matches(w, feed[i]) /\ InScan(w, i))
        => feed[i].event \in watch[w].report.root

\* What a completed row says was published is what the chain holds, unless an
\* earlier attempt's answer was lost, KeeperHub gave no transaction, or another
\* row has the same campaign.
AnchorExplained ==
  \A w \in Watch : watch[w].status = "completed" =>
    /\ watch[w].report \in submitted[watch[w].id]
    /\ \/ anchored[watch[w].id] = watch[w].report
       \/ faults > 0
       \/ Trackers(watch[w].id) /= {w}

-----------------------------------------------------------------------------
(* Refinement: each row keeps the promise of WatchPromise.  A private watch *)
(* is heard by its owner alone; what is kept silent by design, or goes with *)
(* an older alert, counts as heard for the others.                          *)

ShownRow(w) ==
  CASE watch[w].status = "none"      -> [status |-> "none"]
    [] watch[w].status = "completed" -> [status |-> "closed", report |-> watch[w].report]
    [] OTHER                         ->
         [status |-> "open", campaign |-> watch[w].id, ends |-> EndOf(w),
          passed |-> watch[w].cursor]

HeardBy(w) ==
  IF watch[w].audience = "private" THEN dmed[w]
  ELSE dmed[w] \union posted[w] \union folded[w] \union rode[w]

Promise == INSTANCE WatchPromise WITH
  Campaign  <- 0..Cardinality(Call),
  clock     <- now,
  row       <- [w \in Watch |-> ShownRow(w)],
  heard     <- [w \in Watch |-> HeardBy(w)],
  asked     <- submitted,
  published <- anchored

\* The service keeps the promise of a watch, for every row at once: the cursor
\* passes only what was heard of, a report is asked for when the campaign is over
\* and not before, and a row is closed once, with a report that was asked for.
KeepsWatchPromise == Promise!PromiseSpec

-----------------------------------------------------------------------------
(* Liveness *)

\* A campaign that has ended gets its report, whatever failed on the way.
EndedCompletes ==
  \A w \in Watch :
    (Open(w) /\ EndOf(w) <= Horizon) ~> watch[w].status = "completed"

=============================================================================
