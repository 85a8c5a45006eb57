------------------------ MODULE SponsoredWatchesProofs ------------------------
(***************************************************************************)
(* Proofs about SponsoredWatches: type correctness, that no campaign       *)
(* created on chain is lost from sight, that reports are anchored and      *)
(* cover their campaign, and that events are told, and told once.          *)
(***************************************************************************)
EXTENDS WatchProperties, FiniteSetTheorems, TLAPS

-----------------------------------------------------------------------------
(* Type correctness *)

\* A run at a step on a row has the row, its event and its report; what it has
\* listed exists; a call that inserts has a campaign.
Placed ==
  /\ step \in {"dm", "decide", "publish"} => primary \in Event
  /\ step \in {"submit", "await", "close"} => report \in Report
  /\ \A w \in Watch : w \in batch \/ w = cur => watch[w].status /= "none"
  /\ \A c \in Call :
       /\ (at[c] = "insert" \/ (at[c] = "find" /\ ~ByTelegram(c)))
            => id[c] \in 0..Cardinality(Call)
       /\ at[c] \in {"find", "reread", "consume"} => asked[c] \in Request

TypeInv == TypeOK /\ Placed

LEMMA CallsCount == Cardinality(Call) \in Nat
  BY WatchConfig, FS_CardinalityType

LEMMA PutRow ==
  ASSUME watch \in [Watch -> WatchRow], NEW w \in Watch, NEW r \in WatchRow, Put(w, r)
  PROVE  /\ watch' \in [Watch -> WatchRow]
         /\ watch'[w] = r
         /\ \A v \in Watch \ {w} : watch'[v] = watch[v]
  BY DEF Put

\* What the cycle keeps of a row.
Same(r, s) ==
  /\ s.id = r.id /\ s.request = r.request /\ s.kind = r.kind /\ s.starts = r.starts
  /\ s.audience = r.audience

LEMMA ActivatedRow ==
  ASSUME NEW r \in WatchRow
  PROVE  LET s == [r EXCEPT !.status = "monitoring"]
         IN s \in WatchRow /\ s.status = "monitoring" /\ Same(r, s)
  BY DEF WatchRow, Same

LEMMA MonitoredRow ==
  ASSUME TypeOK, NEW w \in Watch
  PROVE  /\ Monitored(w) \in WatchRow /\ Monitored(w).status = "monitoring"
         /\ Same(watch[w], Monitored(w))
<1>1. watch[w] \in WatchRow /\ matched \in SUBSET Event /\ started \in Nat \union {None}
  BY DEF TypeOK, RecordsTyped, RunTyped
<1> DEFINE c == IF step = "commit_new" THEN matched ELSE watch[w].cursor
           l == IF step = "commit_new" /\ New(w) /= {} THEN started ELSE watch[w].last
<1>2. c \in SUBSET Event /\ l \in Nat \union {None}
  BY <1>1 DEF WatchRow
<1>3. Monitored(w) = [watch[w] EXCEPT !.status = "monitoring", !.cursor = c, !.last = l]
  BY DEF Monitored
<1> HIDE DEF c, l
<1> QED BY <1>1, <1>2, <1>3 DEF WatchRow, Same

LEMMA CompletedRow ==
  ASSUME TypeOK, NEW w \in Watch, report \in Report
  PROVE  /\ Completed(w) \in WatchRow /\ Completed(w).status = "completed"
         /\ Same(watch[w], Completed(w))
<1>1. watch[w] \in WatchRow /\ report.root \in SUBSET Event
  BY DEF TypeOK, RecordsTyped, Report
<1> QED BY <1>1 DEF Completed, WatchRow, Same

LEMMA NewWatchRow ==
  ASSUME TypeOK, NEW c \in Call, id[c] \in 0..Cardinality(Call)
  PROVE  /\ NewWatch(c) \in WatchRow /\ NewWatch(c).status \in {"monitoring", "accepted"}
         /\ NewWatch(c).request = asked[c] /\ NewWatch(c).id = id[c]
         /\ NewWatch(c).kind = plan[c].kind /\ NewWatch(c).starts = plan[c].starts
<1>1. plan[c] \in Plan /\ asked[c] \in Request \union {None}
  BY DEF TypeOK, CreationTyped
<1> DEFINE s == IF plan[c].starts <= now /\ now < plan[c].starts + Duration
                THEN "monitoring" ELSE "accepted"
<1>2. s \in {"monitoring", "accepted"}
  OBVIOUS
<1>3. NewWatch(c) = [status |-> s, kind |-> plan[c].kind, audience |-> plan[c].audience,
            starts |-> plan[c].starts, request |-> asked[c], id |-> id[c], cursor |-> {},
            last |-> None, report |-> None]
  BY DEF NewWatch
<1> HIDE DEF s
<1> QED BY <1>1, <1>2, <1>3 DEF WatchRow, Plan

LEMMA InitTyped == Init => TypeInv
<1> SUFFICES ASSUME Init PROVE TypeInv
  OBVIOUS
<1> USE CallsCount, WatchConfig
<1>1. RecordsTyped
  BY DEF Init, RecordsInit, RecordsTyped, NoWatch, WatchRow, NoAlert, AlertRow, Audience
<1>2. CreationTyped
  BY DEF Init, CreationInit, CreationTyped, NoPlan, Plan, NoSpec, CallPlace, Audience
<1>3. RunTyped
  BY DEF Init, CycleInit, RunTyped, NoReport, Phase, Step
<1>4. GhostsTyped
  BY DEF Init, CycleInit, GhostsTyped
<1>5. Placed
  BY DEF Init, CycleInit, CreationInit, Placed
<1> QED BY <1>1, <1>2, <1>3, <1>4, <1>5 DEF TypeInv, TypeOK

-----------------------------------------------------------------------------
(* Calls *)

\* Where the calls left the run alone, they leave its types and places.
LEMMA CallKeepsRun ==
  ASSUME TypeInv, UNCHANGED cycleVars
  PROVE  RunTyped' /\ GhostsTyped'
BY DEF TypeInv, TypeOK, RunTyped, GhostsTyped, cycleVars, runVars, ghostVars

\* The ways in which a call takes a campaign.
LEMMA CampaignTyped ==
  ASSUME TypeInv, NewCampaign
  PROVE  /\ nextWatchId \in 0..Cardinality(Call) /\ nextWatchId' \in 0..Cardinality(Call)
         /\ nextWatchId' = nextWatchId + 1
BY CallsCount DEF TypeInv, TypeOK, RecordsTyped, NewCampaign

\* A call that ends or goes on has nothing to be placed with.
LEMMA EndTyped ==
  ASSUME TypeInv, NEW c \in Call, End(c)
  PROVE  /\ at' \in [Call -> CallPlace] /\ at'[c] = "done"
         /\ asked' \in [Call -> Request \union {None}]
         /\ plan' \in [Call -> Plan]
         /\ id' \in [Call -> 0..Cardinality(Call) \union {None}] /\ id'[c] = None
         /\ unspent' \subseteq Call
         /\ \A d \in Call \ {c} : at'[d] = at[d] /\ asked'[d] = asked[d] /\ id'[d] = id[d]
                               /\ plan'[d] = plan[d]
<1>1. "done" \in CallPlace
  BY DEF CallPlace
<1>2. NoPlan \in Plan
  BY DEF NoPlan, Plan, Audience
<1> QED BY <1>1, <1>2 DEF TypeInv, TypeOK, CreationTyped, End, Go

LEMMA RefuseTyped ==
  ASSUME TypeInv, NEW c \in Call, Refuse(c)
  PROVE  End(c) /\ forsaken' \subseteq 0..Cardinality(Call)
BY DEF TypeInv, TypeOK, CreationTyped, Refuse

LEMMA ProceedTyped ==
  ASSUME TypeInv, NEW c \in Call, NEW place \in CallPlace, Proceed(c, place)
  PROVE  /\ at' \in [Call -> CallPlace] /\ at'[c] = place
         /\ \A d \in Call \ {c} : at'[d] = at[d]
         /\ UNCHANGED <<asked, plan, id, unspent, forsaken>>
BY DEF TypeInv, TypeOK, CreationTyped, Proceed, Go

\* Placed after a step of a call that keeps the rows there are.
LEMMA CallKeepsPlaced ==
  ASSUME TypeInv, NEW c \in Call, UNCHANGED cycleVars,
         \A w \in Watch : watch[w].status /= "none" => watch'[w].status /= "none",
         \A d \in Call \ {c} : at'[d] = at[d] /\ asked'[d] = asked[d] /\ id'[d] = id[d],
         (at'[c] = "insert" \/ (at'[c] = "find" /\ asked'[c] \notin TelegramRequest))
           => id'[c] \in 0..Cardinality(Call),
         at'[c] \in {"find", "reread", "consume"} => asked'[c] \in Request
  PROVE  Placed'
BY DEF TypeInv, Placed, cycleVars, runVars, ByTelegram

LEMMA AskTyped ==
  ASSUME TypeInv, NEW c \in Call, NEW q \in Request \union {None},
         NEW target \in Targets, NEW starts \in Nat,
         Ask(c, q, target[1], target[2], starts)
  PROVE  /\ asked' \in [Call -> Request \union {None}] /\ asked'[c] = q
         /\ plan' \in [Call -> Plan]
         /\ \A d \in Call \ {c} : asked'[d] = asked[d] /\ plan'[d] = plan[d]
<1>1. target[1] \in {"contract", "wallet"} /\ target[2] \in Audience
  BY WatchConfig
<1>2. [kind |-> target[1], audience |-> target[2], starts |-> starts] \in Plan
  BY <1>1 DEF Plan
<1> QED BY <1>2 DEF TypeInv, TypeOK, CreationTyped, Ask

LEMMA SaysTyped ==
  ASSUME TypeInv, NEW q \in Request, NEW target \in Targets, NEW starts \in Nat,
         Says(q, target[1], target[2], starts)
  PROVE  order' \in [Request -> Plan] /\ orders' \in Nat
<1>1. target[1] \in {"contract", "wallet"} /\ target[2] \in Audience
  BY WatchConfig
<1>2. [kind |-> target[1], audience |-> target[2], starts |-> starts] \in Plan
  BY <1>1 DEF Plan
<1>3. order \in [Request -> Plan] /\ orders \in Nat
  BY DEF TypeInv, TypeOK, CreationTyped
<1>4. CASE UNCHANGED <<order, orders>>
  BY <1>3, <1>4
<1>5. CASE /\ order' = [order EXCEPT ![q] = [kind |-> target[1], audience |-> target[2],
                                            starts |-> starts]]
           /\ NewOrder
  BY <1>2, <1>3, <1>5 DEF NewOrder
<1> QED BY <1>4, <1>5 DEF Says

\* Everything a call leaves to others.
Rest == <<order, minted, made, spent, orders>>

LEMMA SettlePaidTyped ==
  ASSUME TypeInv, UNCHANGED cycleVars, NEW c \in Call, NEW target \in Targets, NEW starts \in Nat,
         SettlePaid(c, target[1], target[2], starts)
  PROVE  TypeInv'
<1>1. Ask(c, None, target[1], target[2], starts)
  BY DEF SettlePaid
<1>2. "create" \in CallPlace
  BY DEF CallPlace
<1>3. RecordsTyped'
  BY DEF TypeInv, TypeOK, RecordsTyped, SettlePaid, recordVars
<1>4. CreationTyped'
  <2>1. at' \in [Call -> CallPlace] /\ orders' \in Nat
    BY <1>2 DEF TypeInv, TypeOK, CreationTyped, SettlePaid, Go, NewOrder
  <2>2. UNCHANGED <<id, unspent, order, minted, made, spent, forsaken>>
    BY DEF SettlePaid
  <2> QED BY <1>1, <2>1, <2>2, AskTyped DEF TypeInv, TypeOK, CreationTyped
<1>5. Placed'
  <2>1. at'[c] = "create" /\ \A d \in Call \ {c} : at'[d] = at[d] /\ id'[d] = id[d]
    BY DEF TypeInv, TypeOK, CreationTyped, SettlePaid, Go
  <2>2. watch' = watch
    BY DEF SettlePaid, recordVars
  <2> QED BY <1>1, <2>1, <2>2, AskTyped, CallKeepsPlaced
<1> QED BY <1>3, <1>4, <1>5, CallKeepsRun DEF TypeInv, TypeOK

LEMMA TelegramRequestedTyped ==
  ASSUME TypeInv, UNCHANGED cycleVars, NEW c \in Call, NEW q \in TelegramRequest,
         NEW target \in Targets, TelegramRequested(c, q, target[1], target[2])
  PROVE  TypeInv'
<1>1. /\ Ask(c, q, target[1], target[2], now) /\ now \in Nat /\ q \in Request
      /\ Says(q, target[1], target[2], 0)
  BY WatchConfig DEF TelegramRequested, TypeInv, TypeOK, RecordsTyped
<1>2. "find" \in CallPlace
  BY DEF CallPlace
<1>3. RecordsTyped'
  BY DEF TypeInv, TypeOK, RecordsTyped, TelegramRequested, recordVars
<1>4. CreationTyped'
  BY <1>1, <1>2, AskTyped, SaysTyped
  DEF TypeInv, TypeOK, CreationTyped, TelegramRequested, Go
<1>5. Placed'
  <2>1. at'[c] = "find" /\ \A d \in Call \ {c} : at'[d] = at[d] /\ id'[d] = id[d]
    BY DEF TypeInv, TypeOK, CreationTyped, TelegramRequested, Go
  <2>2. watch' = watch
    BY DEF TelegramRequested, recordVars
  <2> QED BY <1>1, <2>1, <2>2, AskTyped, CallKeepsPlaced
<1> QED BY <1>3, <1>4, <1>5, CallKeepsRun DEF TypeInv, TypeOK

LEMMA MarketplaceRegisterTyped ==
  ASSUME TypeInv, UNCHANGED cycleVars, NEW c \in Call, NEW q \in Request,
         NEW target \in Targets, NEW starts \in Nat,
         MarketplaceRegister(c, q, target[1], target[2], starts)
  PROVE  TypeInv'
<1>1. /\ Ask(c, q, target[1], target[2], starts)
      /\ Says(q, target[1], target[2], starts)
  BY DEF MarketplaceRegister
<1>2. "find" \in CallPlace
  BY DEF CallPlace
<1>3. PICK i \in 0..Cardinality(Call) :
        /\ id' = [id EXCEPT ![c] = i]
        /\ minted' \in [Request -> 0..Cardinality(Call) \union {None}]
        /\ nextWatchId' \in 0..Cardinality(Call)
  <2>1. CASE minted[q] = None
    BY <2>1, CampaignTyped DEF TypeInv, TypeOK, CreationTyped, MarketplaceRegister
  <2>2. CASE minted[q] /= None
    BY <2>2 DEF TypeInv, TypeOK, CreationTyped, RecordsTyped, MarketplaceRegister
  <2> QED BY <2>1, <2>2
<1>4. RecordsTyped'
  BY <1>3 DEF TypeInv, TypeOK, RecordsTyped, MarketplaceRegister
<1>5. CreationTyped'
  BY <1>1, <1>2, <1>3, AskTyped, SaysTyped
  DEF TypeInv, TypeOK, CreationTyped, MarketplaceRegister, Go
<1>6. Placed'
  <2>1. /\ at'[c] = "find" /\ id'[c] = i
        /\ \A d \in Call \ {c} : at'[d] = at[d] /\ id'[d] = id[d]
    BY <1>3 DEF TypeInv, TypeOK, CreationTyped, MarketplaceRegister, Go
  <2>2. watch' = watch
    BY DEF MarketplaceRegister
  <2> QED BY <1>1, <1>3, <2>1, <2>2, AskTyped, CallKeepsPlaced
<1> QED BY <1>4, <1>5, <1>6, CallKeepsRun DEF TypeInv, TypeOK

\* A step of a call that ends, refused or not.
LEMMA EndKeepsTypes ==
  ASSUME TypeInv, UNCHANGED cycleVars, NEW c \in Call, End(c), RecordsTyped',
         forsaken' \subseteq 0..Cardinality(Call), spent' \subseteq Request,
         made' \in [0..Cardinality(Call) -> [kind : {"none", "contract", "wallet"}, starts : Nat]],
         UNCHANGED <<order, minted, orders, watch>>
  PROVE  TypeInv'
<1>1. CreationTyped'
  BY EndTyped DEF TypeInv, TypeOK, CreationTyped
<1>2. Placed'
  BY EndTyped, CallKeepsPlaced
<1> QED BY <1>1, <1>2, CallKeepsRun DEF TypeInv, TypeOK

\* A step of a call that goes on with what it has.
LEMMA ProceedKeepsTypes ==
  ASSUME TypeInv, UNCHANGED cycleVars, NEW c \in Call, NEW place \in CallPlace \ {"find", "insert"},
         asked[c] \in Request, Proceed(c, place), RecordsTyped', UNCHANGED Rest,
         \A w \in Watch : watch[w].status /= "none" => watch'[w].status /= "none"
  PROVE  TypeInv'
<1>1. CreationTyped'
  BY ProceedTyped DEF TypeInv, TypeOK, CreationTyped, Rest
<1>2. Placed'
  BY ProceedTyped, CallKeepsPlaced
<1> QED BY <1>1, <1>2, CallKeepsRun DEF TypeInv, TypeOK

LEMMA AcceptTyped ==
  ASSUME TypeInv, NEW c \in Call, Accept(c)
  PROVE  End(c) /\ forsaken' \subseteq 0..Cardinality(Call)
BY DEF TypeInv, TypeOK, CreationTyped, Accept

\* Faults are counted.
LEMMA FaultTyped ==
  ASSUME TypeInv, Fault \/ NoFault
  PROVE  faults' \in Nat
BY DEF TypeInv, TypeOK, RecordsTyped, Fault, NoFault

LEMMA FindRequestTyped ==
  ASSUME TypeInv, UNCHANGED cycleVars, NEW c \in Call, FindRequest(c)
  PROVE  TypeInv'
<1>1. UNCHANGED <<order, minted, made, spent, orders, now, watch, nextWatchId, anchored,
                  feed, alert, submitted>>
  BY DEF FindRequest
<1>2. RecordsTyped'
  <2>1. Fault \/ NoFault
    BY DEF FindRequest
  <2> QED BY <1>1, <2>1, FaultTyped DEF TypeInv, TypeOK, RecordsTyped
<1>3. CASE Accept(c) \/ Refuse(c)
  BY <1>1, <1>2, <1>3, AcceptTyped, RefuseTyped, EndKeepsTypes
  DEF TypeInv, TypeOK, CreationTyped
<1>4. CASE ~(Accept(c) \/ Refuse(c))
  <2>1. PICK place \in CallPlace :
          /\ Go(c, place)
          /\ place \in {"create", "consume"} \/ (place = "insert" /\ ~ByTelegram(c))
    BY <1>4 DEF FindRequest, CallPlace
  <2>2. at[c] = "find" /\ unspent' \subseteq Call /\ UNCHANGED <<asked, plan, id, forsaken>>
    BY <1>4 DEF FindRequest, TypeInv, TypeOK, CreationTyped
  <2>3. at' \in [Call -> CallPlace] /\ at'[c] = place /\ \A d \in Call \ {c} : at'[d] = at[d]
    BY <2>1 DEF TypeInv, TypeOK, CreationTyped, Go
  <2>4. CreationTyped'
    BY <1>1, <2>2, <2>3 DEF TypeInv, TypeOK, CreationTyped
  <2>5. asked[c] \in Request /\ (place = "insert" => id[c] \in 0..Cardinality(Call))
    BY <2>1, <2>2 DEF TypeInv, Placed
  <2>6. Placed'
    BY <1>1, <2>1, <2>2, <2>3, <2>5, CallKeepsPlaced
  <2> QED BY <1>2, <2>4, <2>6, CallKeepsRun DEF TypeInv, TypeOK
<1> QED BY <1>3, <1>4

LEMMA CreateOnChainTyped ==
  ASSUME TypeInv, UNCHANGED cycleVars, NEW c \in Call, CreateOnChain(c)
  PROVE  TypeInv'
<1> DEFINE Made == [0..Cardinality(Call) -> [kind : {"none", "contract", "wallet"}, starts : Nat]]
<1>1. UNCHANGED <<order, minted, spent, orders, now, watch, anchored, feed, alert, submitted>>
  BY DEF CreateOnChain
<1>2. AskedFor(c) \in [kind : {"none", "contract", "wallet"}, starts : Nat]
  BY DEF TypeInv, TypeOK, CreationTyped, Plan, AskedFor
<1>3. made \in Made /\ DOMAIN made = 0..Cardinality(Call)
  BY DEF TypeInv, TypeOK, CreationTyped
<1>4. RecordsTyped'
  <2>1. Fault \/ NoFault
    BY DEF CreateOnChain
  <2>2. nextWatchId' \in 0..Cardinality(Call)
    <3>1. NewCampaign \/ UNCHANGED nextWatchId
      BY DEF CreateOnChain
    <3> QED BY <3>1, CampaignTyped DEF TypeInv, TypeOK, RecordsTyped
  <2> QED BY <1>1, <2>1, <2>2, FaultTyped DEF TypeInv, TypeOK, RecordsTyped
<1>5. CASE /\ \/ NewCampaign /\ id' = [id EXCEPT ![c] = nextWatchId]
              \/ \E i \in DOMAIN made : id' = [id EXCEPT ![c] = i]
           /\ made' = [made EXCEPT ![id'[c]] = AskedFor(c)]
           /\ Go(c, "insert") /\ UNCHANGED <<asked, plan, unspent, forsaken>>
  <2>1. PICK i \in 0..Cardinality(Call) : id' = [id EXCEPT ![c] = i]
    BY <1>3, <1>5, CampaignTyped
  <2>2. made' \in Made
    <3>1. id'[c] = i
      BY <2>1 DEF TypeInv, TypeOK, CreationTyped
    <3>2. made' = [made EXCEPT ![i] = AskedFor(c)]
      BY <1>5, <3>1
    <3> QED BY <1>2, <1>3, <3>2
  <2>3. "insert" \in CallPlace
    BY DEF CallPlace
  <2>4. /\ at' \in [Call -> CallPlace] /\ at'[c] = "insert" /\ id'[c] = i
        /\ \A d \in Call \ {c} : at'[d] = at[d] /\ id'[d] = id[d]
    BY <1>5, <2>1, <2>3 DEF TypeInv, TypeOK, CreationTyped, Go
  <2>5. CreationTyped'
    BY <1>1, <1>5, <2>1, <2>2, <2>4 DEF TypeInv, TypeOK, CreationTyped
  <2>6. Placed'
    BY <1>1, <1>5, <2>4, CallKeepsPlaced
  <2> QED BY <1>4, <2>5, <2>6, CallKeepsRun DEF TypeInv, TypeOK
<1>6. CASE /\ NewCampaign /\ End(c) /\ made' = [made EXCEPT ![nextWatchId] = AskedFor(c)]
           /\ forsaken' = forsaken \union {nextWatchId}
  <2>1. made' \in Made
    BY <1>2, <1>3, <1>6, CampaignTyped
  <2>2. forsaken' \subseteq 0..Cardinality(Call) /\ spent \subseteq Request
    BY <1>6, CampaignTyped DEF TypeInv, TypeOK, CreationTyped
  <2> QED BY <1>1, <1>4, <1>6, <2>1, <2>2, EndKeepsTypes
<1>7. CASE UNCHANGED made /\ Refuse(c)
  BY <1>1, <1>3, <1>4, <1>7, RefuseTyped, EndKeepsTypes DEF TypeInv, TypeOK, CreationTyped
<1> QED BY <1>5, <1>6, <1>7 DEF CreateOnChain


LEMMA AfterConflictTyped ==
  ASSUME TypeInv, UNCHANGED cycleVars, NEW c \in Call, AfterConflict(c), RecordsTyped',
         UNCHANGED Rest, UNCHANGED watch
  PROVE  TypeInv'
<1>1. CASE ByMarket(c) /\ Proceed(c, "reread")
  BY <1>1, ProceedKeepsTypes DEF CallPlace, ByMarket
<1>2. CASE Refuse(c)
  BY <1>2, RefuseTyped, EndKeepsTypes DEF Rest, TypeInv, TypeOK, CreationTyped
<1> QED BY <1>1, <1>2 DEF AfterConflict

LEMMA InsertTyped ==
  ASSUME TypeInv, UNCHANGED cycleVars, NEW c \in Call, NEW w \in Watch, Insert(c, w)
  PROVE  TypeInv'
<1>1. /\ at[c] = "insert" /\ watch[w].status = "none" /\ Put(w, NewWatch(c))
      /\ UNCHANGED <<Rest, now, nextWatchId, anchored, feed, alert, submitted>>
      /\ (Fault \/ NoFault)
  BY DEF Insert, Rest
<1>2. /\ watch' \in [Watch -> WatchRow] /\ watch'[w] = NewWatch(c)
      /\ \A v \in Watch \ {w} : watch'[v] = watch[v]
      /\ NewWatch(c).status /= "none"
  <2>1. TypeOK /\ watch \in [Watch -> WatchRow] /\ id[c] \in 0..Cardinality(Call)
    BY <1>1 DEF TypeInv, TypeOK, RecordsTyped, Placed
  <2>2. NewWatch(c) \in WatchRow /\ NewWatch(c).status \in {"monitoring", "accepted"}
    BY <2>1, NewWatchRow
  <2> QED BY <1>1, <2>1, <2>2, PutRow
<1>3. RecordsTyped'
  BY <1>1, <1>2, FaultTyped DEF TypeInv, TypeOK, RecordsTyped
<1>4. \A v \in Watch : watch[v].status /= "none" => watch'[v].status /= "none"
  BY <1>2
<1>5. CASE Accept(c) \/ Refuse(c)
  <2>1. End(c) /\ forsaken' \subseteq 0..Cardinality(Call)
    BY <1>5, AcceptTyped, RefuseTyped
  <2>2. CreationTyped'
    BY <1>1, <2>1, EndTyped DEF TypeInv, TypeOK, CreationTyped, Rest
  <2>3. Placed'
    BY <1>4, <2>1, EndTyped, CallKeepsPlaced
  <2> QED BY <1>3, <2>2, <2>3, CallKeepsRun DEF TypeInv, TypeOK
<1>6. CASE asked[c] /= None /\ \E place \in {"consume", "reread"} : Proceed(c, place)
  <2>1. asked[c] \in Request
    BY <1>6 DEF TypeInv, TypeOK, CreationTyped
  <2> QED BY <1>1, <1>3, <1>4, <1>6, <2>1, ProceedKeepsTypes DEF CallPlace
<1>7. ByMarket(c) => asked[c] /= None
  BY WatchConfig DEF ByMarket
<1> QED BY <1>5, <1>6, <1>7 DEF Insert, AfterConflict

LEMMA LaterCallTyped ==
  ASSUME TypeInv, UNCHANGED cycleVars, NEW c \in Call, InsertFails(c) \/ Reread(c) \/ MarkUsed(c)
  PROVE  TypeInv'
<1>1. /\ UNCHANGED <<order, minted, made, orders, now, watch, nextWatchId, anchored, feed,
                     alert, submitted>>
      /\ (Fault \/ NoFault)
  BY DEF InsertFails, Reread, MarkUsed
<1>2. RecordsTyped'
  BY <1>1, FaultTyped DEF TypeInv, TypeOK, RecordsTyped
<1>3. CASE InsertFails(c)
  BY <1>1, <1>2, <1>3, AfterConflictTyped DEF InsertFails, Rest
<1>4. CASE Reread(c)
  <2>1. CASE Proceed(c, "consume")
    BY <1>1, <1>2, <1>4, <2>1, ProceedKeepsTypes DEF Reread, Rest, CallPlace, TypeInv, Placed
  <2>2. CASE Refuse(c)
    BY <1>1, <1>2, <1>4, <2>2, RefuseTyped, EndKeepsTypes
    DEF Reread, TypeInv, TypeOK, CreationTyped
  <2> QED BY <1>4, <2>1, <2>2 DEF Reread
<1>5. CASE MarkUsed(c)
  <2>1. End(c) /\ forsaken' \subseteq 0..Cardinality(Call)
    BY <1>5, AcceptTyped, RefuseTyped DEF MarkUsed
  <2>2. spent' \subseteq Request
    <3>1. asked[c] \in Request \union {None} /\ spent \subseteq Request
      BY DEF TypeInv, TypeOK, CreationTyped
    <3>2. at[c] = "consume"
      BY <1>5 DEF MarkUsed
    <3>3. asked[c] \in Request
      BY <3>2 DEF TypeInv, Placed
    <3> QED BY <1>5, <3>1, <3>3 DEF MarkUsed
  <2> QED BY <1>1, <1>2, <2>1, <2>2, EndKeepsTypes DEF TypeInv, TypeOK, CreationTyped
<1> QED BY <1>3, <1>4, <1>5

LEMMA CallTyped ==
  ASSUME TypeInv, UNCHANGED cycleVars, NEW c \in Call, CallStep(c)
  PROVE  TypeInv'
<1>1. now \in Nat /\ 0..now \subseteq Nat
  BY DEF TypeInv, TypeOK, RecordsTyped
<1>2. CASE \E target \in Targets, starts \in {now, now + 1} :
             SettlePaid(c, target[1], target[2], starts)
  BY <1>1, <1>2, SettlePaidTyped
<1>3. CASE \E q \in Request, target \in {t \in Targets : t[2] /= "public"} :
             \/ q \in TelegramRequest /\ TelegramRequested(c, q, target[1], target[2])
             \/ /\ q \notin TelegramRequest
                /\ \E starts \in 0..now :
                     MarketplaceRegister(c, q, target[1], target[2], starts)
  BY <1>1, <1>3, TelegramRequestedTyped, MarketplaceRegisterTyped
<1> QED BY <1>2, <1>3, FindRequestTyped, CreateOnChainTyped, InsertTyped, LaterCallTyped
        DEF CallStep

-----------------------------------------------------------------------------
(* The cycle *)

\* The run leaves the calls alone.
LEMMA RunKeepsCalls ==
  ASSUME TypeInv, UNCHANGED creationVars
  PROVE  /\ CreationTyped'
         /\ \A c \in Call : at'[c] = at[c] /\ asked'[c] = asked[c] /\ id'[c] = id[c]
BY DEF TypeInv, TypeOK, CreationTyped, creationVars

\* Placed after a step of the run.
LEMMA RunKeepsPlaced ==
  ASSUME TypeInv, UNCHANGED creationVars,
         step' \in {"dm", "decide", "publish"} => primary' \in Event,
         step' \in {"submit", "await", "close"} => report' \in Report,
         \A w \in Watch : w \in batch' \/ w = cur' => watch'[w].status /= "none"
  PROVE  Placed'
BY DEF TypeInv, Placed, creationVars, ByTelegram

LEMMA EnterTyped ==
  ASSUME TypeInv, UNCHANGED creationVars, started' \in Nat, NEW next \in Phase,
         NEW list \in SUBSET {w \in Watch : watch[w].status /= "none"},
         Enter(next, list)
  PROVE  TypeInv'
<1>1. RecordsTyped'
  BY FaultTyped DEF TypeInv, TypeOK, RecordsTyped, Enter
<1>2. RunTyped'
  BY DEF TypeInv, TypeOK, RunTyped, Enter
<1>3. GhostsTyped'
  BY DEF TypeInv, TypeOK, GhostsTyped, Enter, ghostVars
<1>4. Placed'
  <2>1. /\ batch' \subseteq list
        /\ UNCHANGED <<cur, step, primary, report, watch>>
    BY DEF Enter
  <2> QED BY <2>1, RunKeepsPlaced DEF TypeInv, Placed
<1> QED BY <1>1, <1>2, <1>3, <1>4, RunKeepsCalls DEF TypeInv, TypeOK

LEMMA PhasesTyped ==
  ASSUME TypeInv, UNCHANGED creationVars, Begin \/ BeginMonitoring \/ BeginCompletion
  PROVE  TypeInv'
<1>1. now \in Nat /\ started \in Nat
  BY DEF TypeInv, TypeOK, RecordsTyped, RunTyped
<1>2. {"activate", "monitor", "complete"} \subseteq Phase
  BY DEF Phase
<1> DEFINE Some == {w \in Watch : watch[w].status /= "none"}
<1>3. CASE Begin
  BY <1>1, <1>2, <1>3, EnterTyped DEF Begin
<1>4. CASE BeginMonitoring
  BY <1>1, <1>2, <1>4, EnterTyped DEF BeginMonitoring
<1>5. CASE BeginCompletion
  <2>1. {w \in Watch : Open(w) /\ EndOf(w) <= started} \subseteq Some
    BY DEF Open
  <2> QED BY <1>1, <1>2, <1>5, <2>1, EnterTyped DEF BeginCompletion
<1> QED BY <1>3, <1>4, <1>5

LEMMA RestTyped ==
  ASSUME TypeInv, RunRest, UNCHANGED started
  PROVE  RunTyped' /\ step' = "none" /\ batch' = {} /\ cur' = None
BY DEF TypeInv, TypeOK, RunTyped, RunRest, Phase, Step, NoReport

LEMMA LeaveTyped ==
  ASSUME TypeInv, Leave, batch' \subseteq batch
  PROVE  RunTyped' /\ step' = "none" /\ cur' = None
BY DEF TypeInv, TypeOK, RunTyped, Leave, Step, NoReport

LEMMA EndRunTyped ==
  ASSUME TypeInv, UNCHANGED creationVars, EndRun
  PROVE  TypeInv'
<1>1. RunTyped' /\ step' = "none" /\ batch' = {} /\ cur' = None
  BY RestTyped DEF EndRun
<1>2. RecordsTyped'
  BY DEF TypeInv, TypeOK, RecordsTyped, EndRun, recordVars
<1>3. GhostsTyped'
  BY DEF TypeInv, TypeOK, GhostsTyped, EndRun, ghostVars
<1>4. Placed'
  BY <1>1, WatchConfig, RunKeepsPlaced
<1> QED BY <1>1, <1>2, <1>3, <1>4, RunKeepsCalls DEF TypeInv, TypeOK

\* A row the run may take, or has taken, is one that exists.
LEMMA TakenRow ==
  ASSUME TypeInv, NEW w \in Watch, w \in batch \/ w = cur
  PROVE  watch[w] \in WatchRow /\ watch[w].status /= "none"
BY DEF TypeInv, TypeOK, RecordsTyped, Placed

LEMMA ActivateTyped ==
  ASSUME TypeInv, UNCHANGED creationVars, NEW w \in Watch, Activate(w)
  PROVE  TypeInv'
<1>1. /\ watch' \in [Watch -> WatchRow] /\ (Fault \/ NoFault)
      /\ \A v \in Watch : watch[v].status /= "none" => watch'[v].status /= "none"
  <2>1. watch[w] \in WatchRow /\ watch \in [Watch -> WatchRow]
    BY DEF TypeInv, TypeOK, RecordsTyped
  <2>2. CASE UNCHANGED watch /\ Fault
    BY <2>1, <2>2
  <2>3. CASE Put(w, [watch[w] EXCEPT !.status = "monitoring"]) /\ NoFault
    <3> DEFINE new == [watch[w] EXCEPT !.status = "monitoring"]
    <3>1. new \in WatchRow /\ new.status = "monitoring"
      BY <2>1, ActivatedRow
    <3>2. Put(w, new)
      BY <2>3
    <3> HIDE DEF new
    <3>3. /\ watch' \in [Watch -> WatchRow] /\ watch'[w] = new
          /\ \A v \in Watch \ {w} : watch'[v] = watch[v]
      BY <2>1, <3>1, <3>2, PutRow
    <3> QED BY <2>3, <3>1, <3>3
  <2> QED BY <2>2, <2>3 DEF Activate
<1>2. RecordsTyped'
  BY <1>1, FaultTyped DEF TypeInv, TypeOK, RecordsTyped, Activate
<1>3. RunTyped' /\ GhostsTyped'
  BY DEF TypeInv, TypeOK, RunTyped, GhostsTyped, Activate, ghostVars
<1>4. Placed'
  <2>1. batch' \subseteq batch /\ UNCHANGED <<step, primary, report, cur>>
    BY DEF Activate
  <2> QED BY <1>1, <2>1, RunKeepsPlaced DEF TypeInv, Placed
<1> QED BY <1>2, <1>3, <1>4, RunKeepsCalls DEF TypeInv, TypeOK

LEMMA CollectTyped ==
  ASSUME TypeInv, NEW w \in Watch, NEW forced \in BOOLEAN, NEW lost, NEW found \in Event \union {None},
         Collect(w, forced, lost, found)
  PROVE  /\ matched' \subseteq Event /\ feed' \in Seq(FeedRow) /\ (Fault \/ NoFault)
<1>1. now \in Nat /\ feed \in Seq(FeedRow) /\ watch[w] \in WatchRow
  BY DEF TypeInv, TypeOK, RecordsTyped
<1>2. Captured \subseteq Event
  <2>1. \A i \in DOMAIN feed : feed[i] \in FeedRow
    BY <1>1
  <2> QED BY <2>1 DEF Captured, FeedRow
<1>3. Scanned(w) \subseteq Event
  BY <1>2 DEF Scanned, Captured
<1>4. matched' \subseteq Event
  BY <1>2, <1>3 DEF Collect, Known
<1>5. feed' \in Seq(FeedRow)
  <2>1. CASE found \in Captured \union {None}
    BY <1>1, <2>1 DEF Collect
  <2>2. CASE found \notin Captured \union {None}
    <3>1. [event |-> found, at |-> now, source |-> "scan"] \in FeedRow
      BY <1>1, <2>2 DEF FeedRow
    <3>2. feed' = Append(feed, [event |-> found, at |-> now, source |-> "scan"])
      BY <2>2 DEF Collect
    <3> QED BY <1>1, <3>1, <3>2
  <2> QED BY <2>1, <2>2
<1>6. Fault \/ NoFault
  BY DEF Collect
<1> QED BY <1>4, <1>5, <1>6

LEMMA CollectEventsTyped ==
  ASSUME TypeInv, UNCHANGED creationVars, NEW w \in Watch, NEW lost,
         NEW found \in Event \union {None}, CollectEvents(w, lost, found)
  PROVE  TypeInv'
<1>1. matched' \subseteq Event /\ feed' \in Seq(FeedRow) /\ (Fault \/ NoFault)
  BY CollectTyped DEF CollectEvents
<1>2. RecordsTyped'
  BY <1>1, FaultTyped DEF TypeInv, TypeOK, RecordsTyped, CollectEvents
<1>3. /\ step' \in {"commit_new", "decide", "dm"}
      /\ primary' \in Event \union {None}
      /\ step' \in {"dm", "decide", "publish"} => primary' \in Event
  BY <1>1 DEF CollectEvents, AfterCollect
<1>4. RunTyped' /\ GhostsTyped'
  <2>1. step' \in Step
    BY <1>3 DEF Step
  <2> QED BY <1>1, <1>3, <2>1 DEF TypeInv, TypeOK, RunTyped, GhostsTyped, CollectEvents, ghostVars
<1>5. Placed'
  <2>1. /\ batch' \subseteq batch /\ cur' = w /\ w \in batch /\ watch' = watch
        /\ step' \notin {"submit", "await", "close"}
    BY <1>3 DEF CollectEvents
  <2> QED BY <1>3, <2>1, TakenRow, RunKeepsPlaced DEF TypeInv, Placed
<1> QED BY <1>2, <1>4, <1>5, RunKeepsCalls DEF TypeInv, TypeOK

LEMMA WriteReportTyped ==
  ASSUME TypeInv, UNCHANGED creationVars, NEW w \in Watch, NEW lost,
         NEW found \in Event \union {None}, NEW text \in Text,
         WriteReport(w, lost, found, text)
  PROVE  TypeInv'
<1>1. matched' \subseteq Event /\ feed' \in Seq(FeedRow) /\ (Fault \/ NoFault)
  BY CollectTyped DEF WriteReport
<1>2. RecordsTyped'
  BY <1>1, FaultTyped DEF TypeInv, TypeOK, RecordsTyped, WriteReport
<1>3. step' = "submit" /\ report' \in Report /\ report' \in [root : SUBSET Event, text : Text \union {None}]
  BY <1>1 DEF WriteReport, Report
<1>4. RunTyped' /\ GhostsTyped'
  <2>1. step' \in Step
    BY <1>3 DEF Step
  <2> QED BY <1>1, <1>3, <2>1 DEF TypeInv, TypeOK, RunTyped, GhostsTyped, WriteReport, ghostVars
<1>5. Placed'
  <2>1. batch' \subseteq batch /\ cur' = w /\ w \in batch /\ watch' = watch
    BY DEF WriteReport
  <2> QED BY <1>3, <2>1, TakenRow, RunKeepsPlaced DEF TypeInv, Placed
<1> QED BY <1>2, <1>4, <1>5, RunKeepsCalls DEF TypeInv, TypeOK

LEMMA CollectFailsTyped ==
  ASSUME TypeInv, UNCHANGED creationVars, NEW w \in Watch, CollectFails(w)
  PROVE  TypeInv'
<1>1. RecordsTyped'
  BY FaultTyped DEF TypeInv, TypeOK, RecordsTyped, CollectFails
<1>2. RunTyped' /\ GhostsTyped'
  BY DEF TypeInv, TypeOK, RunTyped, GhostsTyped, CollectFails, ghostVars
<1>3. Placed'
  <2>1. batch' \subseteq batch /\ UNCHANGED <<step, primary, report, cur, watch>>
    BY DEF CollectFails
  <2> QED BY <2>1, RunKeepsPlaced DEF TypeInv, Placed
<1> QED BY <1>1, <1>2, <1>3, RunKeepsCalls DEF TypeInv, TypeOK

\* What a step of the run on an alert leaves alone.
LEMMA AlertStepPlaced ==
  ASSUME TypeInv, UNCHANGED creationVars, UNCHANGED <<batch, cur, primary, report, watch>>,
         step' \in {"decide", "publish"} => primary \in Event,
         step' \in {"decide", "publish", "commit_new", "commit_old"}
  PROVE  Placed'
BY RunKeepsPlaced DEF TypeInv, Placed

LEMMA TellTyped ==
  ASSUME TypeInv, NEW w \in Watch, NEW heard, NEW events \in SUBSET Event, Tell(w, heard, events)
  PROVE  repeated' \in [Watch -> SUBSET Event] /\ spoke' \in [Watch -> Nat \union {None}]
<1>1. started \in Nat
  BY DEF TypeInv, TypeOK, RunTyped
<1> QED BY <1>1 DEF TypeInv, TypeOK, GhostsTyped, Tell

LEMMA NewTyped ==
  ASSUME TypeInv, NEW w \in Watch
  PROVE  New(w) \subseteq Event
BY DEF TypeInv, TypeOK, RunTyped, New

LEMMA SendDmTyped ==
  ASSUME TypeInv, UNCHANGED creationVars, NEW w \in Watch, SendDm(w)
  PROVE  TypeInv'
<1>1. RecordsTyped'
  BY FaultTyped DEF TypeInv, TypeOK, RecordsTyped, SendDm
<1>2. step' \in {"decide", "commit_new", "commit_old"} /\ step = "dm"
  BY DEF SendDm, Commit
<1>3. RunTyped'
  <2>1. step' \in Step
    BY <1>2 DEF Step
  <2> QED BY <2>1 DEF TypeInv, TypeOK, RunTyped, SendDm
<1>4. GhostsTyped'
  <2>1. CASE UNCHANGED <<dmed, repeated, spoke>>
    BY <2>1 DEF TypeInv, TypeOK, GhostsTyped, SendDm
  <2>2. CASE /\ Tell(w, dmed[w], New(w))
             /\ dmed' = [dmed EXCEPT ![w] = @ \union New(w)]
    <3>1. dmed' \in [Watch -> SUBSET Event]
      BY <2>2, NewTyped DEF TypeInv, TypeOK, GhostsTyped
    <3> QED BY <2>2, <3>1, NewTyped, TellTyped DEF TypeInv, TypeOK, GhostsTyped, SendDm
  <2> QED BY <2>1, <2>2 DEF SendDm
<1>5. Placed'
  <2>1. UNCHANGED <<batch, cur, primary, report, watch>>
    BY DEF SendDm
  <2> QED BY <1>2, <2>1, AlertStepPlaced DEF TypeInv, Placed
<1> QED BY <1>1, <1>3, <1>4, <1>5, RunKeepsCalls DEF TypeInv, TypeOK

LEMMA FoldEventsTyped ==
  ASSUME TypeInv, UNCHANGED creationVars, NEW w \in Watch, FoldEvents(w)
  PROVE  TypeInv'
<1>1. RecordsTyped'
  BY DEF TypeInv, TypeOK, RecordsTyped, FoldEvents, recordVars
<1>2. step' \in {"commit_new", "commit_old"}
  BY DEF FoldEvents, Commit
<1>3. RunTyped'
  <2>1. step' \in Step
    BY <1>2 DEF Step
  <2> QED BY <2>1 DEF TypeInv, TypeOK, RunTyped, FoldEvents
<1>4. GhostsTyped'
  <2>1. folded' \in [Watch -> SUBSET Event]
    BY NewTyped DEF TypeInv, TypeOK, GhostsTyped, FoldEvents
  <2> QED BY <2>1 DEF TypeInv, TypeOK, GhostsTyped, FoldEvents
<1>5. Placed'
  <2>1. UNCHANGED <<batch, cur, primary, report, watch>>
    BY DEF FoldEvents, recordVars
  <2> QED BY <1>2, <2>1, AlertStepPlaced
<1> QED BY <1>1, <1>3, <1>4, <1>5, RunKeepsCalls DEF TypeInv, TypeOK

LEMMA PrepareAlertTyped ==
  ASSUME TypeInv, UNCHANGED creationVars, NEW w \in Watch, PrepareAlert(w)
  PROVE  TypeInv'
<1>1. step' \in {"publish", "commit_old"} /\ step = "decide" /\ (Fault \/ NoFault)
  BY DEF PrepareAlert
<1>2. primary \in Event
  BY <1>1 DEF TypeInv, Placed
<1>3. alert' \in [Watch -> [Event -> AlertRow]]
  <2>1. [status |-> "queued", text |-> New(w)] \in AlertRow
    BY NewTyped DEF AlertRow
  <2>2. CASE UNCHANGED alert
    BY <2>2 DEF TypeInv, TypeOK, RecordsTyped
  <2>3. CASE alert' = [alert EXCEPT ![w][primary] = [status |-> "queued", text |-> New(w)]]
    BY <1>2, <2>1, <2>3 DEF TypeInv, TypeOK, RecordsTyped
  <2> QED BY <2>2, <2>3 DEF PrepareAlert
<1>4. RecordsTyped'
  BY <1>1, <1>3, FaultTyped DEF TypeInv, TypeOK, RecordsTyped, PrepareAlert
<1>5. RunTyped' /\ GhostsTyped'
  <2>1. step' \in Step
    BY <1>1 DEF Step
  <2> QED BY <2>1 DEF TypeInv, TypeOK, RunTyped, GhostsTyped, PrepareAlert, ghostVars
<1>6. Placed'
  <2>1. UNCHANGED <<batch, cur, primary, report, watch>>
    BY DEF PrepareAlert
  <2> QED BY <1>1, <1>2, <2>1, AlertStepPlaced
<1> QED BY <1>4, <1>5, <1>6, RunKeepsCalls DEF TypeInv, TypeOK

LEMMA PublishAlertTyped ==
  ASSUME TypeInv, UNCHANGED creationVars, NEW w \in Watch, PublishAlert(w)
  PROVE  TypeInv'
<1>1. step' \in {"commit_new", "commit_old"} /\ step = "publish" /\ (Fault \/ NoFault)
  BY DEF PublishAlert
<1>2. primary \in Event
  BY <1>1 DEF TypeInv, Placed
<1>3. alert[w][primary] \in AlertRow /\ alert[w][primary].text \subseteq Event
  BY <1>2 DEF TypeInv, TypeOK, RecordsTyped, AlertRow
<1>4. alert' \in [Watch -> [Event -> AlertRow]]
  <2>1. [alert[w][primary] EXCEPT !.status = "published"] \in AlertRow
    BY <1>3 DEF AlertRow
  <2>2. CASE UNCHANGED alert
    BY <2>2 DEF TypeInv, TypeOK, RecordsTyped
  <2>3. CASE alert' = [alert EXCEPT ![w][primary].status = "published"]
    BY <1>2, <2>1, <2>3 DEF TypeInv, TypeOK, RecordsTyped
  <2> QED BY <2>2, <2>3 DEF PublishAlert
<1>5. RecordsTyped'
  BY <1>1, <1>4, FaultTyped DEF TypeInv, TypeOK, RecordsTyped, PublishAlert
<1>6. RunTyped'
  <2>1. step' \in Step
    BY <1>1 DEF Step
  <2> QED BY <2>1 DEF TypeInv, TypeOK, RunTyped, PublishAlert
<1>7. GhostsTyped'
  <2>1. rode' \in [Watch -> SUBSET Event]
    BY <1>3, NewTyped DEF TypeInv, TypeOK, GhostsTyped, PublishAlert
  <2>2. /\ posted' \in [Watch -> SUBSET Event] /\ repeated' \in [Watch -> SUBSET Event]
        /\ spoke' \in [Watch -> Nat \union {None}]
    <3>1. CASE UNCHANGED <<posted, repeated, spoke>>
      BY <3>1 DEF TypeInv, TypeOK, GhostsTyped
    <3>2. CASE /\ Tell(w, posted[w], alert[w][primary].text)
               /\ posted' = [posted EXCEPT ![w] = @ \union alert[w][primary].text]
      <4>1. posted' \in [Watch -> SUBSET Event]
        BY <1>3, <3>2 DEF TypeInv, TypeOK, GhostsTyped
      <4> QED BY <1>3, <3>2, <4>1, TellTyped
    <3> QED BY <3>1, <3>2 DEF PublishAlert
  <2> QED BY <2>1, <2>2 DEF TypeInv, TypeOK, GhostsTyped, PublishAlert
<1>8. Placed'
  <2>1. UNCHANGED <<batch, cur, primary, report, watch>>
    BY DEF PublishAlert
  <2> QED BY <1>1, <2>1, AlertStepPlaced
<1> QED BY <1>5, <1>6, <1>7, <1>8, RunKeepsCalls DEF TypeInv, TypeOK

LEMMA CommitMonitoringTyped ==
  ASSUME TypeInv, UNCHANGED creationVars, NEW w \in Watch, CommitMonitoring(w)
  PROVE  TypeInv'
<1>1. /\ watch' \in [Watch -> WatchRow] /\ (Fault \/ NoFault)
      /\ \A v \in Watch : watch[v].status /= "none" => watch'[v].status /= "none"
  <2>1. watch \in [Watch -> WatchRow] /\ TypeOK
    BY DEF TypeInv, TypeOK, RecordsTyped
  <2>2. CASE UNCHANGED watch /\ Fault
    BY <2>1, <2>2
  <2>3. CASE Put(w, Monitored(w)) /\ (Fault \/ NoFault)
    BY <2>1, <2>3, PutRow, MonitoredRow
  <2> QED BY <2>2, <2>3 DEF CommitMonitoring
<1>2. RecordsTyped'
  BY <1>1, FaultTyped DEF TypeInv, TypeOK, RecordsTyped, CommitMonitoring
<1>3. RunTyped' /\ step' = "none" /\ cur' = None /\ batch' = batch
  BY LeaveTyped DEF CommitMonitoring
<1>4. GhostsTyped'
  BY DEF TypeInv, TypeOK, GhostsTyped, CommitMonitoring, ghostVars
<1>5. Placed'
  BY <1>1, <1>3, WatchConfig, RunKeepsPlaced DEF TypeInv, Placed
<1> QED BY <1>2, <1>3, <1>4, <1>5, RunKeepsCalls DEF TypeInv, TypeOK

LEMMA CompleteTyped ==
  ASSUME TypeInv, UNCHANGED creationVars, NEW w \in Watch, Complete(w)
  PROVE  TypeInv'
<1>1. /\ watch' \in [Watch -> WatchRow] /\ (Fault \/ NoFault)
      /\ \A v \in Watch : watch[v].status /= "none" => watch'[v].status /= "none"
  <2>1. watch \in [Watch -> WatchRow] /\ TypeOK /\ report \in Report
    BY DEF TypeInv, TypeOK, RecordsTyped, Placed, Complete
  <2>2. CASE UNCHANGED watch /\ Fault
    BY <2>1, <2>2
  <2>3. CASE Put(w, Completed(w)) /\ (Fault \/ NoFault)
    BY <2>1, <2>3, PutRow, CompletedRow
  <2> QED BY <2>2, <2>3 DEF Complete
<1>2. RecordsTyped'
  BY <1>1, FaultTyped DEF TypeInv, TypeOK, RecordsTyped, Complete
<1>3. RunTyped' /\ step' = "none" /\ cur' = None /\ batch' = batch
  BY LeaveTyped DEF Complete
<1>4. GhostsTyped'
  BY DEF TypeInv, TypeOK, GhostsTyped, Complete, ghostVars
<1>5. Placed'
  BY <1>1, <1>3, WatchConfig, RunKeepsPlaced DEF TypeInv, Placed
<1> QED BY <1>2, <1>3, <1>4, <1>5, RunKeepsCalls DEF TypeInv, TypeOK

LEMMA SubmitTyped ==
  ASSUME TypeInv, UNCHANGED creationVars, NEW w \in Watch, Submit(w)
  PROVE  TypeInv'
<1>1. step = "submit" /\ step' = "await" /\ report \in Report
  BY DEF Submit, TypeInv, Placed
<1>2. RecordsTyped'
  <2>1. watch[w].id \in 0..Cardinality(Call)
    BY DEF TypeInv, TypeOK, RecordsTyped, WatchRow
  <2>2. submitted' \in [0..Cardinality(Call) -> SUBSET Report]
    BY <1>1, <2>1 DEF TypeInv, TypeOK, RecordsTyped, Submit
  <2> QED BY <2>2 DEF TypeInv, TypeOK, RecordsTyped, Submit
<1>3. RunTyped' /\ GhostsTyped'
  <2>1. step' \in Step
    BY <1>1 DEF Step
  <2> QED BY <2>1 DEF TypeInv, TypeOK, RunTyped, GhostsTyped, Submit, ghostVars
<1>4. Placed'
  <2>1. UNCHANGED <<batch, cur, primary, report, watch>>
    BY DEF Submit
  <2> QED BY <1>1, <2>1, RunKeepsPlaced DEF TypeInv, Placed
<1> QED BY <1>2, <1>3, <1>4, RunKeepsCalls DEF TypeInv, TypeOK

LEMMA AwaitTyped ==
  ASSUME TypeInv, UNCHANGED creationVars, NEW w \in Watch,
         Confirmed(w) \/ Refused(w) \/ Hashless(w)
  PROVE  TypeInv'
<1>1. step = "await" /\ ToClose /\ (Fault \/ NoFault)
  BY DEF Confirmed, Refused, Hashless
<1>2. RecordsTyped'
  BY <1>1, FaultTyped DEF TypeInv, TypeOK, RecordsTyped, ToClose
<1>3. RunTyped' /\ GhostsTyped'
  <2>1. "close" \in Step
    BY DEF Step
  <2> QED BY <1>1, <2>1 DEF TypeInv, TypeOK, RunTyped, GhostsTyped, ToClose, ghostVars
<1>4. Placed'
  <2>1. UNCHANGED <<batch, cur, primary, report, watch>> /\ step' = "close"
    BY <1>1 DEF ToClose
  <2> QED BY <1>1, <2>1, RunKeepsPlaced DEF TypeInv, Placed
<1> QED BY <1>2, <1>3, <1>4, RunKeepsCalls DEF TypeInv, TypeOK

LEMMA GiveUpTyped ==
  ASSUME TypeInv, UNCHANGED creationVars, NEW w \in Watch, GiveUp(w)
  PROVE  TypeInv'
<1>1. RecordsTyped'
  BY FaultTyped DEF TypeInv, TypeOK, RecordsTyped, GiveUp
<1>2. RunTyped' /\ step' = "none" /\ cur' = None /\ batch' = batch /\ watch' = watch
  BY LeaveTyped DEF GiveUp
<1>3. GhostsTyped'
  BY DEF TypeInv, TypeOK, GhostsTyped, GiveUp, ghostVars
<1>4. Placed'
  BY <1>2, WatchConfig, RunKeepsPlaced DEF TypeInv, Placed
<1> QED BY <1>1, <1>2, <1>3, <1>4, RunKeepsCalls DEF TypeInv, TypeOK

LEMMA RunTypedKept ==
  ASSUME TypeInv, UNCHANGED creationVars, Begin \/ RunStep
  PROVE  TypeInv'
<1>1. CASE Begin \/ BeginMonitoring \/ BeginCompletion \/ EndRun
  BY <1>1, PhasesTyped, EndRunTyped
<1>2. ASSUME NEW w \in Watch, RowStep(w)
      PROVE  TypeInv'
  BY <1>2, ActivateTyped, CollectEventsTyped, WriteReportTyped, CollectFailsTyped, SendDmTyped,
     FoldEventsTyped, PrepareAlertTyped, PublishAlertTyped, CommitMonitoringTyped, SubmitTyped,
     AwaitTyped, GiveUpTyped, CompleteTyped DEF RowStep
<1> QED BY <1>1, <1>2 DEF RunStep

-----------------------------------------------------------------------------
(* The world, restarts *)

LEMMA WorldTyped ==
  ASSUME TypeInv, UNCHANGED <<creationVars, cycleVars>>, World
  PROVE  TypeInv'
<1>1. RecordsTyped'
  <2>1. CASE Tick
    BY <2>1 DEF TypeInv, TypeOK, RecordsTyped, Tick
  <2>2. ASSUME NEW e \in Event, Track(e)
        PROVE  RecordsTyped'
    <3>1. [event |-> e, at |-> now, source |-> "tracker"] \in FeedRow
      BY DEF TypeInv, TypeOK, RecordsTyped, FeedRow
    <3>2. feed' \in Seq(FeedRow)
      BY <2>2, <3>1 DEF TypeInv, TypeOK, RecordsTyped, Track
    <3> QED BY <2>2, <3>2 DEF TypeInv, TypeOK, RecordsTyped, Track
  <2>3. ASSUME NEW i \in DOMAIN submitted, NEW r \in submitted[i], Publish(i, r)
        PROVE  RecordsTyped'
    <3>1. i \in 0..Cardinality(Call) /\ r \in Report
      BY DEF TypeInv, TypeOK, RecordsTyped
    <3>2. anchored' \in [0..Cardinality(Call) -> Report \union {None}]
      BY <2>3, <3>1 DEF TypeInv, TypeOK, RecordsTyped, Publish
    <3> QED BY <2>3, <3>2 DEF TypeInv, TypeOK, RecordsTyped, Publish
  <2> QED BY <2>1, <2>2, <2>3 DEF World
<1>2. watch' = watch
  BY DEF World, Tick, Track, Publish
<1>3. RunTyped' /\ GhostsTyped'
  BY CallKeepsRun
<1>4. Placed'
  BY <1>2, RunKeepsPlaced DEF cycleVars, runVars, TypeInv, Placed
<1> QED BY <1>1, <1>3, <1>4, RunKeepsCalls DEF TypeInv, TypeOK

LEMMA RestartTyped ==
  ASSUME TypeInv, Restart
  PROVE  TypeInv'
<1>1. RunTyped' /\ step' = "none" /\ batch' = {} /\ cur' = None
  BY RestTyped DEF Restart
<1>2. RecordsTyped'
  BY FaultTyped DEF TypeInv, TypeOK, RecordsTyped, Restart
<1>3. GhostsTyped'
  BY DEF TypeInv, TypeOK, GhostsTyped, Restart, ghostVars
<1>4. CreationTyped'
  <2>1. NoPlan \in Plan /\ "done" \in CallPlace /\ "idle" \in CallPlace
    BY DEF NoPlan, Plan, Audience, CallPlace
  <2>2. forsaken' \subseteq 0..Cardinality(Call)
    <3>1. \A c \in Call : id[c] \in 0..Cardinality(Call) \union {None}
      BY DEF TypeInv, TypeOK, CreationTyped
    <3>2. forsaken' = forsaken \union ({id[c] : c \in Call} \ {None})
      BY DEF Restart, CallsEnd
    <3>3. forsaken \subseteq 0..Cardinality(Call)
      BY DEF TypeInv, TypeOK, CreationTyped
    <3> QED BY <3>1, <3>2, <3>3
  <2> QED BY <2>1, <2>2 DEF TypeInv, TypeOK, CreationTyped, Restart, CallsEnd
<1>5. Placed'
  <2>1. \A c \in Call : at'[c] \in {"idle", "done"}
    BY DEF Restart, CallsEnd
  <2> QED BY <1>1, <2>1, WatchConfig DEF Placed
<1> QED BY <1>1, <1>2, <1>3, <1>4, <1>5 DEF TypeInv, TypeOK

LEMMA NextTyped == TypeInv /\ [Next]_vars => TypeInv'
<1> SUFFICES ASSUME TypeInv, [Next]_vars
             PROVE  TypeInv'
  OBVIOUS
<1>1. CASE Next
  BY <1>1, CallTyped, RunTypedKept, WorldTyped, RestartTyped DEF Next
<1>2. CASE UNCHANGED vars
  <2>1. RecordsTyped'
    BY <1>2 DEF TypeInv, TypeOK, RecordsTyped, vars, recordVars
  <2>2. UNCHANGED <<creationVars, cycleVars, watch>>
    BY <1>2 DEF vars, recordVars
  <2>3. Placed'
    BY <2>2, RunKeepsPlaced DEF cycleVars, runVars, TypeInv, Placed
  <2> QED BY <2>1, <2>2, <2>3, CallKeepsRun, RunKeepsCalls DEF TypeInv, TypeOK
<1> QED BY <1>1, <1>2

LEMMA TypesKept == Spec => []TypeInv
BY InitTyped, NextTyped, PTL DEF Spec

\* Every variable has its type, at every step of every interleaving of calls,
\* cycle, world and restarts.
THEOREM TypeCorrect == Spec => []TypeOK
BY TypesKept, PTL DEF TypeInv

-----------------------------------------------------------------------------
(* Campaigns are tracked *)

Exists(w) == watch[w].status /= "none"

Market == Request \ TelegramRequest

\* Campaigns the service asked for, and those that workflows created: a
\* campaign is of one specification, or of one request.
CampaignsKnown ==
  /\ \A q \in Request : minted[q] /= None =>
       minted[q] < nextWatchId /\ made[minted[q]] = NoSpec
  /\ \A q, r \in Request : minted[q] /= None /\ minted[q] = minted[r] => q = r
  /\ \A i \in 0..Cardinality(Call) : made[i] /= NoSpec => i < nextWatchId

\* What a call has in hand is the campaign of its request or specification.
CallKnown(c) ==
  /\ id[c] /= None => id[c] < nextWatchId
  /\ at[c] \in {"idle", "create", "done"} => id[c] = None /\ asked[c] \notin Market
  /\ at[c] = "find" /\ ByTelegram(c) => id[c] = None
  /\ at[c] = "reread" => asked[c] \in Market
  /\ asked[c] \in Market => id[c] = minted[asked[c]] /\ id[c] /= None
  /\ asked[c] \notin Market /\ id[c] /= None => made[id[c]] = AskedFor(c)

CallsKnown == \A c \in Call : CallKnown(c)

\* So is what a row has; and a request has one row.
RowsKnown ==
  /\ \A w \in Watch : Exists(w) =>
       /\ watch[w].id < nextWatchId
       /\ watch[w].request \in Market => minted[watch[w].request] = watch[w].id
       /\ watch[w].request \notin Market =>
            made[watch[w].id] = [kind |-> watch[w].kind, starts |-> watch[w].starts]
  /\ \A v, w \in Watch :
       Exists(v) /\ Exists(w) /\ watch[v].request = watch[w].request
         /\ watch[v].request /= None => v = w

\* A call that is about to use its binding code has a row.
RowsInHand ==
  \A c \in Call : at[c] = "consume" =>
    \E w \in Watch : Exists(w) /\ watch[w].request = asked[c] /\ watch[w].id = id[c]

Covered ==
  \A i \in 0..Cardinality(Call) : i < nextWatchId =>
    \/ \E w \in Watch : Exists(w) /\ watch[w].id = i
    \/ i \in forsaken
    \/ \E c \in Call : id[c] = i

TrackInv == CampaignsKnown /\ CallsKnown /\ RowsKnown /\ RowsInHand /\ Covered

\* The cycle keeps who a row is.
RowsKeep ==
  \A w \in Watch : /\ Exists(w)' <=> Exists(w)
                   /\ Same(watch[w], watch'[w])

LEMMA SameRefl == \A w \in Watch : Same(watch[w], watch[w])
  BY DEF Same

LEMMA UntouchedRowsKeep ==
  ASSUME UNCHANGED watch
  PROVE  RowsKeep
BY DEF RowsKeep, Exists, Same

LEMMA PutRowsKeep ==
  ASSUME TypeInv, NEW w \in Watch, NEW r \in WatchRow, Put(w, r), Exists(w),
         r.status /= "none", Same(watch[w], r)
  PROVE  RowsKeep
<1>1. watch'[w] = r /\ \A v \in Watch \ {w} : watch'[v] = watch[v]
  BY PutRow DEF TypeInv, TypeOK, RecordsTyped
<1> QED BY <1>1, SameRefl DEF RowsKeep, Exists

LEMMA CycleKeepsRows ==
  ASSUME TypeInv, Begin \/ RunStep
  PROVE  RowsKeep /\ UNCHANGED nextWatchId
<1>1. UNCHANGED nextWatchId
  BY DEF Begin, RunStep, BeginMonitoring, BeginCompletion, Enter, EndRun, recordVars, RowStep,
         Activate, CollectEvents, WriteReport, CollectFails, SendDm, FoldEvents, PrepareAlert,
         PublishAlert, CommitMonitoring, Submit, Confirmed, Refused, Hashless, ToClose, GiveUp,
         Complete
<1>2. CASE UNCHANGED watch
  BY <1>1, <1>2, UntouchedRowsKeep
<1>3. ASSUME NEW w \in Watch, Activate(w)
      PROVE  RowsKeep
  <2>1. watch[w] \in WatchRow /\ Exists(w)
    BY <1>3, TakenRow DEF Activate, Exists
  <2>2. CASE UNCHANGED watch
    BY <2>2, UntouchedRowsKeep
  <2>3. CASE Put(w, [watch[w] EXCEPT !.status = "monitoring"])
    BY <2>1, <2>3, ActivatedRow, PutRowsKeep
  <2> QED BY <1>3, <2>2, <2>3 DEF Activate
<1>4. ASSUME NEW w \in Watch, CommitMonitoring(w)
      PROVE  RowsKeep
  <2>1. TypeOK /\ Exists(w)
    BY <1>4, TakenRow DEF CommitMonitoring, Exists, TypeInv
  <2>2. CASE UNCHANGED watch
    BY <2>2, UntouchedRowsKeep
  <2>3. CASE Put(w, Monitored(w))
    BY <2>1, <2>3, MonitoredRow, PutRowsKeep
  <2> QED BY <1>4, <2>2, <2>3 DEF CommitMonitoring
<1>5. ASSUME NEW w \in Watch, Complete(w)
      PROVE  RowsKeep
  <2>1. TypeOK /\ Exists(w) /\ report \in Report
    BY <1>5, TakenRow DEF Complete, Exists, TypeInv, Placed
  <2>2. CASE UNCHANGED watch
    BY <2>2, UntouchedRowsKeep
  <2>3. CASE Put(w, Completed(w))
    BY <2>1, <2>3, CompletedRow, PutRowsKeep
  <2> QED BY <1>5, <2>2, <2>3 DEF Complete
<1>6. \/ UNCHANGED watch
      \/ \E w \in Watch : Activate(w) \/ CommitMonitoring(w) \/ Complete(w)
  BY DEF Begin, RunStep, BeginMonitoring, BeginCompletion, Enter, EndRun, recordVars, RowStep,
         CollectEvents, WriteReport, CollectFails, SendDm, FoldEvents, PrepareAlert,
         PublishAlert, Submit, Confirmed, Refused, Hashless, ToClose, GiveUp
<1> QED BY <1>1, <1>2, <1>3, <1>4, <1>5, <1>6

\* What leaves the calls, the campaigns and the identity of rows alone keeps
\* campaigns tracked.
LEMMA QuietKeepsTracking ==
  ASSUME TypeInv, TrackInv, RowsKeep, UNCHANGED <<creationVars, nextWatchId>>
  PROVE  TrackInv'
<1>1. \A w \in Watch :
        /\ watch'[w].id = watch[w].id /\ watch'[w].request = watch[w].request
        /\ watch'[w].kind = watch[w].kind /\ watch'[w].starts = watch[w].starts
        /\ Exists(w)' <=> Exists(w)
  BY DEF RowsKeep, Same
<1>2. /\ CampaignsKnown' /\ CallsKnown'
  BY DEF TrackInv, CampaignsKnown, CallsKnown, CallKnown, creationVars, AskedFor, ByTelegram
<1>3. RowsKnown'
  BY <1>1 DEF TrackInv, RowsKnown, creationVars
<1>4. RowsInHand' /\ Covered'
  BY <1>1 DEF TrackInv, RowsInHand, Covered, creationVars
<1> QED BY <1>2, <1>3, <1>4 DEF TrackInv

\* A call may end when its campaign, if it has one, has a row or is given up.
LEMMA EndKeepsTracking ==
  ASSUME TypeInv, TrackInv, NEW c \in Call, End(c), forsaken \subseteq forsaken',
         UNCHANGED <<watch, nextWatchId, minted, made>>,
         \/ id[c] = None
         \/ id[c] \in forsaken'
         \/ \E w \in Watch : Exists(w) /\ watch[w].id = id[c]
  PROVE  TrackInv'
<1>1. /\ at'[c] = "done" /\ id'[c] = None /\ asked'[c] = None
      /\ \A d \in Call \ {c} : at'[d] = at[d] /\ asked'[d] = asked[d] /\ id'[d] = id[d]
                            /\ plan'[d] = plan[d]
  BY EndTyped DEF End, TypeInv, TypeOK, CreationTyped
<1>2. None \notin Market
  BY WatchConfig DEF Market
<1>3. CampaignsKnown' /\ RowsKnown'
  BY DEF TrackInv, CampaignsKnown, RowsKnown, Exists
<1>4. CallsKnown'
  BY <1>1, <1>2 DEF TrackInv, CallsKnown, CallKnown, AskedFor, ByTelegram
<1>5. RowsInHand'
  BY <1>1 DEF TrackInv, RowsInHand, Exists
<1>6. Covered'
  <2> SUFFICES ASSUME NEW i \in 0..Cardinality(Call), i < nextWatchId,
                      ~ \E w \in Watch : Exists(w) /\ watch[w].id = i, i \notin forsaken'
               PROVE  \E d \in Call : id'[d] = i
    BY DEF Covered, Exists
  <2>1. PICK d \in Call : id[d] = i
    BY DEF TrackInv, Covered
  <2>2. i /= None
    BY WatchConfig
  <2>3. d /= c
    BY <2>1, <2>2
  <2> QED BY <1>1, <2>1, <2>3
<1> QED BY <1>3, <1>4, <1>5, <1>6 DEF TrackInv

LEMMA RefuseKeepsTracking ==
  ASSUME TypeInv, TrackInv, NEW c \in Call, Refuse(c),
         UNCHANGED <<watch, nextWatchId, minted, made>>
  PROVE  TrackInv'
BY EndKeepsTracking DEF Refuse

\* A call goes on with what it has.
LEMMA ProceedKeepsTracking ==
  ASSUME TypeInv, TrackInv, NEW c \in Call, NEW place \in CallPlace, Go(c, place),
         UNCHANGED <<asked, plan, id, forsaken, watch, nextWatchId, minted, made>>,
         place \in {"create", "consume", "insert", "reread"},
         place = "create" => id[c] = None /\ asked[c] \notin Market,
         place = "reread" => asked[c] \in Market,
         place = "consume" =>
           \E w \in Watch : Exists(w) /\ watch[w].request = asked[c] /\ watch[w].id = id[c]
  PROVE  TrackInv'
<1>1. at'[c] = place /\ \A d \in Call \ {c} : at'[d] = at[d]
  BY DEF Go, TypeInv, TypeOK, CreationTyped
<1>2. CampaignsKnown' /\ RowsKnown' /\ Covered'
  BY DEF TrackInv, CampaignsKnown, RowsKnown, Covered, Exists
<1>3. CallsKnown'
  BY <1>1 DEF TrackInv, CallsKnown, CallKnown, AskedFor, ByTelegram
<1>4. RowsInHand'
  BY <1>1 DEF TrackInv, RowsInHand, Exists
<1> QED BY <1>2, <1>3, <1>4 DEF TrackInv

LEMMA AskKeepsTracking ==
  ASSUME TypeInv, TrackInv, NEW c \in Call, at[c] = "idle", NEW place \in {"create", "find"},
         Go(c, place), asked'[c] \notin Market,
         place = "create" \/ asked'[c] \in TelegramRequest,
         \A d \in Call \ {c} : asked'[d] = asked[d] /\ plan'[d] = plan[d],
         UNCHANGED <<id, forsaken, watch, nextWatchId, minted, made>>
  PROVE  TrackInv'
<1>1. at'[c] = place /\ \A d \in Call \ {c} : at'[d] = at[d]
  BY DEF Go, TypeInv, TypeOK, CreationTyped
<1>2. id[c] = None
  BY DEF TrackInv, CallsKnown, CallKnown
<1>3. CampaignsKnown' /\ RowsKnown' /\ Covered'
  BY DEF TrackInv, CampaignsKnown, RowsKnown, Covered, Exists
<1>4. CallsKnown'
  BY <1>1, <1>2 DEF TrackInv, CallsKnown, CallKnown, AskedFor, ByTelegram
<1>5. RowsInHand'
  BY <1>1 DEF TrackInv, RowsInHand, Exists
<1> QED BY <1>3, <1>4, <1>5 DEF TrackInv

LEMMA SettlePaidTracked ==
  ASSUME TypeInv, TrackInv, NEW c \in Call, NEW target \in Targets, NEW starts \in Nat,
         SettlePaid(c, target[1], target[2], starts)
  PROVE  TrackInv'
<1>1. Ask(c, None, target[1], target[2], starts) /\ at[c] = "idle" /\ Go(c, "create")
  BY DEF SettlePaid, Ask
<1>2. UNCHANGED <<id, forsaken, watch, nextWatchId, minted, made>>
  BY DEF SettlePaid, recordVars
<1>3. None \notin Market
  BY WatchConfig DEF Market
<1> QED BY <1>1, <1>2, <1>3, AskTyped, AskKeepsTracking

LEMMA TelegramRequestedTracked ==
  ASSUME TypeInv, TrackInv, NEW c \in Call, NEW q \in TelegramRequest, NEW target \in Targets,
         TelegramRequested(c, q, target[1], target[2])
  PROVE  TrackInv'
<1>1. /\ Ask(c, q, target[1], target[2], now) /\ at[c] = "idle" /\ Go(c, "find")
      /\ now \in Nat /\ q \in Request /\ q \notin Market
  BY WatchConfig DEF TelegramRequested, Ask, Market, TypeInv, TypeOK, RecordsTyped
<1>2. UNCHANGED <<id, forsaken, watch, nextWatchId, minted, made>>
  BY DEF TelegramRequested, recordVars
<1> QED BY <1>1, <1>2, AskTyped, AskKeepsTracking

LEMMA MarketplaceRegisterTracked ==
  ASSUME TypeInv, TrackInv, NEW c \in Call, NEW q \in Market, NEW target \in Targets,
         NEW starts \in Nat, MarketplaceRegister(c, q, target[1], target[2], starts)
  PROVE  TrackInv'
<1>1. /\ Ask(c, q, target[1], target[2], starts) /\ at[c] = "idle" /\ Go(c, "find")
      /\ q \in Request /\ q \notin TelegramRequest
      /\ UNCHANGED <<forsaken, watch, made>>
  BY DEF MarketplaceRegister, Ask, Market
<1>2. /\ asked'[c] = q
      /\ \A d \in Call \ {c} : asked'[d] = asked[d] /\ plan'[d] = plan[d]
  BY <1>1, AskTyped
<1>3. at'[c] = "find" /\ \A d \in Call \ {c} : at'[d] = at[d]
  BY <1>1 DEF Go, TypeInv, TypeOK, CreationTyped
<1>4. id[c] = None
  BY <1>1 DEF TrackInv, CallsKnown, CallKnown
<1>5. /\ minted'[q] /= None /\ minted'[q] \in 0..Cardinality(Call)
      /\ \A r \in Request \ {q} : minted'[r] = minted[r]
      /\ minted[q] /= None => minted'[q] = minted[q] /\ nextWatchId' = nextWatchId
      /\ minted[q] = None => minted'[q] = nextWatchId /\ nextWatchId' = nextWatchId + 1
      /\ id'[c] = minted'[q]
      /\ \A d \in Call \ {c} : id'[d] = id[d]
  <2>1. /\ minted \in [Request -> 0..Cardinality(Call) \union {None}]
        /\ id \in [Call -> 0..Cardinality(Call) \union {None}]
    BY DEF TypeInv, TypeOK, CreationTyped
  <2>2. CASE minted[q] = None
    <3>1. nextWatchId \in 0..Cardinality(Call) /\ nextWatchId' = nextWatchId + 1
      BY <2>2, CampaignTyped DEF MarketplaceRegister
    <3>2. nextWatchId /= None
      BY <3>1, WatchConfig
    <3> QED BY <1>1, <2>1, <2>2, <3>1, <3>2 DEF MarketplaceRegister
  <2>3. CASE minted[q] /= None
    BY <1>1, <2>1, <2>3 DEF MarketplaceRegister
  <2> QED BY <2>2, <2>3
<1>6. /\ nextWatchId \in Nat /\ nextWatchId' \in Nat /\ nextWatchId <= nextWatchId'
      /\ \A i \in 0..Cardinality(Call) : i < nextWatchId' => i < nextWatchId \/ i = minted'[q]
      /\ minted'[q] < nextWatchId'
      /\ \A r \in Request : minted[r] = None \/ minted[r] \in Nat
      /\ \A d \in Call : id[d] = None \/ id[d] \in Nat
  <2>1. /\ nextWatchId \in Nat
        /\ \A r \in Request : minted[r] = None \/ minted[r] \in Nat
        /\ \A d \in Call : id[d] = None \/ id[d] \in Nat
    BY CallsCount DEF TypeInv, TypeOK, RecordsTyped, CreationTyped
  <2>2. minted[q] /= None => minted[q] < nextWatchId
    BY <1>1 DEF TrackInv, CampaignsKnown
  <2> QED BY <1>5, <2>1, <2>2, CallsCount
<1>7. CampaignsKnown'
  <2>1. made[minted'[q]] = NoSpec
    <3>1. CASE minted[q] /= None
      BY <1>1, <1>5, <3>1 DEF TrackInv, CampaignsKnown
    <3>2. CASE minted[q] = None
      BY <1>5, <1>6, <3>2 DEF TrackInv, CampaignsKnown
    <3> QED BY <3>1, <3>2
  <2>2. \A r \in Request : minted'[r] /= None =>
           minted'[r] < nextWatchId' /\ made[minted'[r]] = NoSpec
    BY <1>5, <1>6, <2>1 DEF TrackInv, CampaignsKnown
  <2>3. \A r \in Request \ {q} : minted[r] /= None => minted[r] /= minted'[q]
    <3>1. CASE minted[q] /= None
      BY <1>1, <1>5, <3>1 DEF TrackInv, CampaignsKnown
    <3>2. CASE minted[q] = None
      BY <1>5, <1>6, <3>2 DEF TrackInv, CampaignsKnown
    <3> QED BY <3>1, <3>2
  <2>4. \A r, s \in Request : minted'[r] /= None /\ minted'[r] = minted'[s] => r = s
    <3> SUFFICES ASSUME NEW r \in Request, NEW s \in Request, minted'[r] /= None,
                        minted'[r] = minted'[s]
                 PROVE  r = s
      OBVIOUS
    <3>1. CASE r = q \/ s = q
      BY <1>5, <2>3, <3>1
    <3>2. CASE r /= q /\ s /= q
      BY <1>5, <3>2 DEF TrackInv, CampaignsKnown
    <3> QED BY <3>1, <3>2
  <2>5. \A i \in 0..Cardinality(Call) : made[i] /= NoSpec => i < nextWatchId'
    BY <1>6, CallsCount DEF TrackInv, CampaignsKnown
  <2> QED BY <1>1, <2>2, <2>4, <2>5 DEF CampaignsKnown
<1>8. CallsKnown'
  <2>1. \A d \in Call \ {c} : asked[d] \in Market => minted'[asked[d]] = minted[asked[d]]
    BY <1>5 DEF TrackInv, CallsKnown, CallKnown, Market
  <2>2. \A d \in Call \ {c} : id[d] /= None => id[d] < nextWatchId'
    BY <1>6 DEF TrackInv, CallsKnown, CallKnown
  <2>3. made' = made
    BY <1>1
  <2>4. \A d \in Call \ {c} : CallKnown(d)'
    BY <1>2, <1>3, <1>5, <2>1, <2>2, <2>3 DEF TrackInv, CallsKnown, CallKnown, AskedFor, ByTelegram
  <2>5. CallKnown(c)'
    BY <1>1, <1>2, <1>3, <1>5, <1>6 DEF CallKnown, ByTelegram, Market
  <2> QED BY <2>4, <2>5 DEF CallsKnown, CallKnown
<1>9. RowsKnown'
  <2>1. \A w \in Watch : Exists(w) => watch[w].id < nextWatchId /\ watch[w].id \in Nat
    <3>1. \A w \in Watch : watch[w].id \in Nat
      BY CallsCount DEF TypeInv, TypeOK, RecordsTyped, WatchRow
    <3> QED BY <3>1 DEF TrackInv, RowsKnown
  <2>2. \A w \in Watch : Exists(w) /\ watch[w].request \in Market =>
          minted'[watch[w].request] = watch[w].id
    <3> SUFFICES ASSUME NEW w \in Watch, Exists(w), watch[w].request \in Market
                 PROVE  minted'[watch[w].request] = watch[w].id
      OBVIOUS
    <3>1. minted[watch[w].request] = watch[w].id
      BY DEF TrackInv, RowsKnown
    <3>2. watch[w].id /= None
      BY WatchConfig DEF TypeInv, TypeOK, RecordsTyped, WatchRow
    <3> QED BY <1>5, <3>1, <3>2 DEF Market
  <2> QED BY <1>1, <1>6, <2>1, <2>2 DEF TrackInv, RowsKnown, Exists
<1>10. RowsInHand'
  BY <1>1, <1>2, <1>3, <1>5 DEF TrackInv, RowsInHand, Exists
<1>11. Covered'
  <2> SUFFICES ASSUME NEW i \in 0..Cardinality(Call), i < nextWatchId',
                      ~ \E w \in Watch : Exists(w) /\ watch[w].id = i, i \notin forsaken
               PROVE  \E d \in Call : id'[d] = i
    BY <1>1 DEF Covered, Exists
  <2>1. CASE i = minted'[q]
    BY <1>5, <2>1
  <2>2. CASE i < nextWatchId
    <3>1. PICK d \in Call : id[d] = i
      BY <2>2 DEF TrackInv, Covered
    <3>2. i /= None
      BY WatchConfig
    <3> QED BY <1>4, <1>5, <3>1, <3>2
  <2> QED BY <1>6, <2>1, <2>2
<1> QED BY <1>7, <1>8, <1>9, <1>10, <1>11 DEF TrackInv

\* The row of a registered request has the campaign its calls have.
LEMMA RegisteredRow ==
  ASSUME TypeInv, TrackInv, NEW c \in Call, asked[c] \in Market, Registered(asked[c])
  PROVE  \E w \in Watch : Exists(w) /\ watch[w].request = asked[c] /\ watch[w].id = id[c]
<1>1. PICK w \in Watch : Exists(w) /\ watch[w].request = asked[c]
  BY DEF Registered, Exists
<1>2. id[c] = minted[asked[c]]
  BY DEF TrackInv, CallsKnown, CallKnown
<1>3. watch[w].id = minted[asked[c]]
  BY <1>1 DEF TrackInv, RowsKnown
<1> QED BY <1>1, <1>2, <1>3

LEMMA FindRequestTracked ==
  ASSUME TypeInv, TrackInv, NEW c \in Call, FindRequest(c)
  PROVE  TrackInv'
<1>1. UNCHANGED <<watch, nextWatchId, minted, made>> /\ at[c] = "find"
  BY DEF FindRequest
<1>2. CASE Refuse(c)
  BY <1>1, <1>2, RefuseKeepsTracking
<1>3. CASE ByTelegram(c) /\ Accept(c)
  <2>1. id[c] = None
    BY <1>1, <1>3 DEF TrackInv, CallsKnown, CallKnown
  <2> QED BY <1>1, <1>3, <2>1, EndKeepsTracking DEF Accept
<1>4. CASE /\ Go(c, IF ByTelegram(c) THEN "create"
                    ELSE IF Registered(asked[c]) THEN "consume" ELSE "insert")
           /\ UNCHANGED <<asked, plan, id, forsaken>>
  <2>1. asked[c] \in Request
    BY <1>1 DEF TypeInv, Placed
  <2>2. CASE ByTelegram(c)
    <3>1. id[c] = None /\ asked[c] \notin Market /\ "create" \in CallPlace
      BY <1>1, <2>2 DEF TrackInv, CallsKnown, CallKnown, ByTelegram, Market, CallPlace
    <3> QED BY <1>1, <1>4, <2>2, <3>1, ProceedKeepsTracking
  <2>3. CASE ~ByTelegram(c) /\ Registered(asked[c])
    <3>1. asked[c] \in Market /\ "consume" \in CallPlace
      BY <2>1, <2>3 DEF ByTelegram, Market, CallPlace
    <3> QED BY <1>1, <1>4, <2>3, <3>1, RegisteredRow, ProceedKeepsTracking
  <2>4. CASE ~ByTelegram(c) /\ ~Registered(asked[c])
    <3>1. "insert" \in CallPlace
      BY DEF CallPlace
    <3> QED BY <1>1, <1>4, <2>4, <3>1, ProceedKeepsTracking
  <2> QED BY <2>2, <2>3, <2>4
<1> QED BY <1>2, <1>3, <1>4 DEF FindRequest

\* A campaign that KeeperHub created now, or had created before for the same
\* specification.
LEMMA CampaignTaken ==
  ASSUME TypeInv, TrackInv, NEW c \in Call, NEW i \in 0..Cardinality(Call),
         asked[c] \notin Market,
         made' = [made EXCEPT ![i] = AskedFor(c)],
         \/ i = nextWatchId /\ nextWatchId' = nextWatchId + 1
         \/ made[i] = AskedFor(c) /\ nextWatchId' = nextWatchId,
         UNCHANGED <<minted, watch>>
  PROVE  /\ CampaignsKnown' /\ RowsKnown' /\ i < nextWatchId' /\ nextWatchId <= nextWatchId'
         /\ made'[i] = AskedFor(c)
         /\ \A j \in 0..Cardinality(Call) : j < nextWatchId => made'[j] = made[j]
<1>1. /\ nextWatchId \in Nat /\ AskedFor(c) /= NoSpec
      /\ made \in [0..Cardinality(Call) -> [kind : {"none", "contract", "wallet"}, starts : Nat]]
      /\ \A w \in Watch : watch[w].id \in 0..Cardinality(Call)
      /\ \A q \in Request : minted[q] \in 0..Cardinality(Call) \union {None}
  <2>1. AskedFor(c) /= NoSpec
    BY DEF TypeInv, TypeOK, CreationTyped, Plan, AskedFor, NoSpec
  <2>2. \A w \in Watch : watch[w].id \in 0..Cardinality(Call)
    BY DEF TypeInv, TypeOK, RecordsTyped, WatchRow
  <2> QED BY <2>1, <2>2, CallsCount DEF TypeInv, TypeOK, RecordsTyped, CreationTyped
<1>2. made'[i] = AskedFor(c) /\ \A j \in 0..Cardinality(Call) \ {i} : made'[j] = made[j]
  BY <1>1
<1>3. i < nextWatchId' /\ nextWatchId <= nextWatchId'
  BY <1>1 DEF TrackInv, CampaignsKnown
<1>4. \A j \in 0..Cardinality(Call) : j < nextWatchId => made'[j] = made[j]
  BY <1>1, <1>2
<1>5. CampaignsKnown'
  <2>1. \A q \in Request : minted[q] /= None =>
          minted[q] < nextWatchId' /\ made'[minted[q]] = NoSpec
    <3> SUFFICES ASSUME NEW q \in Request, minted[q] /= None
                 PROVE  minted[q] < nextWatchId' /\ made'[minted[q]] = NoSpec
      OBVIOUS
    <3>1. minted[q] < nextWatchId /\ made[minted[q]] = NoSpec /\ minted[q] \in 0..Cardinality(Call)
      BY <1>1 DEF TrackInv, CampaignsKnown
    <3>2. minted[q] < nextWatchId'
      BY <1>1, <1>3, <3>1, CallsCount
    <3> QED BY <1>4, <3>1, <3>2
  <2>2. \A j \in 0..Cardinality(Call) : made'[j] /= NoSpec => j < nextWatchId'
    BY <1>1, <1>2, <1>3, CallsCount DEF TrackInv, CampaignsKnown
  <2> QED BY <2>1, <2>2 DEF TrackInv, CampaignsKnown
<1>6. RowsKnown'
  <2>1. \A w \in Watch : Exists(w) => watch[w].id < nextWatchId
    BY DEF TrackInv, RowsKnown
  <2>2. \A w \in Watch : Exists(w) =>
          watch[w].id < nextWatchId' /\ made'[watch[w].id] = made[watch[w].id]
    BY <1>1, <1>3, <1>4, <2>1, CallsCount
  <2> QED BY <2>2 DEF TrackInv, RowsKnown, Exists
<1> QED BY <1>2, <1>3, <1>4, <1>5, <1>6

LEMMA CreateOnChainTracked ==
  ASSUME TypeInv, TrackInv, NEW c \in Call, CreateOnChain(c)
  PROVE  TrackInv'
<1>1. UNCHANGED <<watch, minted>> /\ at[c] = "create"
  BY DEF CreateOnChain
<1>2. id[c] = None /\ asked[c] \notin Market
  BY <1>1 DEF TrackInv, CallsKnown, CallKnown
<1>3. /\ nextWatchId \in Nat
      /\ \A d \in Call : id[d] \in 0..Cardinality(Call) \union {None}
      /\ id \in [Call -> 0..Cardinality(Call) \union {None}]
      /\ at \in [Call -> CallPlace]
  BY CallsCount DEF TypeInv, TypeOK, RecordsTyped, CreationTyped
<1>4. ASSUME NEW i \in 0..Cardinality(Call),
             made' = [made EXCEPT ![i] = AskedFor(c)],
             \/ i = nextWatchId /\ nextWatchId' = nextWatchId + 1
             \/ made[i] = AskedFor(c) /\ nextWatchId' = nextWatchId,
             id' = [id EXCEPT ![c] = i], Go(c, "insert"), UNCHANGED <<asked, plan, forsaken>>
      PROVE  TrackInv'
  <2>1. /\ CampaignsKnown' /\ RowsKnown' /\ i < nextWatchId' /\ nextWatchId <= nextWatchId'
        /\ made'[i] = AskedFor(c)
        /\ \A j \in 0..Cardinality(Call) : j < nextWatchId => made'[j] = made[j]
    BY <1>1, <1>2, <1>4, CampaignTaken
  <2>2. /\ at'[c] = "insert" /\ id'[c] = i
        /\ \A d \in Call \ {c} : at'[d] = at[d] /\ id'[d] = id[d]
    BY <1>3, <1>4 DEF Go
  <2>3. \A d \in Call \ {c} : id[d] /= None =>
          id[d] < nextWatchId' /\ made'[id[d]] = made[id[d]]
    <3>1. \A d \in Call : id[d] /= None => id[d] < nextWatchId
      BY DEF TrackInv, CallsKnown, CallKnown
    <3>2. \A d \in Call : id[d] /= None => id[d] \in Nat /\ id[d] \in 0..Cardinality(Call)
      BY <1>3, CallsCount
    <3>3. nextWatchId' \in Nat
      BY <1>3, <1>4
    <3> QED BY <1>3, <2>1, <3>1, <3>2, <3>3
  <2>4. CallsKnown'
    <3>1. \A d \in Call \ {c} : CallKnown(d)'
      BY <1>1, <1>4, <2>2, <2>3 DEF TrackInv, CallsKnown, CallKnown, AskedFor, ByTelegram
    <3>2. CallKnown(c)'
      BY <1>2, <1>4, <2>1, <2>2 DEF CallKnown, AskedFor
    <3> QED BY <3>1, <3>2 DEF CallsKnown
  <2>5. RowsInHand'
    BY <1>1, <1>4, <2>2 DEF TrackInv, RowsInHand, Exists
  <2>6. Covered'
    <3> SUFFICES ASSUME NEW j \in 0..Cardinality(Call), j < nextWatchId',
                        ~ \E w \in Watch : Exists(w) /\ watch[w].id = j, j \notin forsaken
                 PROVE  \E d \in Call : id'[d] = j
      BY <1>1, <1>4 DEF Covered, Exists
    <3>1. CASE j = i
      BY <2>2, <3>1
    <3>2. CASE j < nextWatchId
      <4>1. PICK d \in Call : id[d] = j
        BY <3>2 DEF TrackInv, Covered
      <4>2. j /= None
        BY WatchConfig
      <4> QED BY <1>2, <2>2, <4>1, <4>2
    <3>3. j < nextWatchId \/ j = i
      BY <1>3, <1>4, CallsCount
    <3> QED BY <3>1, <3>2, <3>3
  <2> QED BY <2>1, <2>4, <2>5, <2>6 DEF TrackInv
<1>5. CASE /\ NewCampaign
           /\ made' = [made EXCEPT ![nextWatchId] = AskedFor(c)]
           /\ End(c)
           /\ forsaken' = forsaken \union {nextWatchId}
  <2>1. nextWatchId \in 0..Cardinality(Call) /\ nextWatchId' = nextWatchId + 1
    BY <1>5, CampaignTyped
  <2>2. /\ CampaignsKnown' /\ RowsKnown' /\ nextWatchId <= nextWatchId'
        /\ \A j \in 0..Cardinality(Call) : j < nextWatchId => made'[j] = made[j]
    BY <1>1, <1>2, <1>5, <2>1, CampaignTaken
  <2>3. /\ at'[c] = "done" /\ id'[c] = None /\ asked'[c] = None
        /\ \A d \in Call \ {c} : at'[d] = at[d] /\ asked'[d] = asked[d] /\ id'[d] = id[d]
                              /\ plan'[d] = plan[d]
    BY <1>5, EndTyped DEF End, TypeInv, TypeOK, CreationTyped
  <2>4. \A d \in Call \ {c} : id[d] /= None =>
          id[d] < nextWatchId' /\ made'[id[d]] = made[id[d]]
    <3>1. \A d \in Call : id[d] /= None => id[d] < nextWatchId
      BY DEF TrackInv, CallsKnown, CallKnown
    <3> QED BY <1>3, <2>1, <2>2, <3>1, CallsCount
  <2>5. CallsKnown'
    <3>1. \A d \in Call \ {c} : CallKnown(d)'
      BY <1>1, <2>3, <2>4 DEF TrackInv, CallsKnown, CallKnown, AskedFor, ByTelegram
    <3>2. CallKnown(c)'
      BY <2>3, WatchConfig DEF CallKnown, Market
    <3> QED BY <3>1, <3>2 DEF CallsKnown
  <2>6. RowsInHand'
    BY <1>1, <2>3 DEF TrackInv, RowsInHand, Exists
  <2>7. Covered'
    <3> SUFFICES ASSUME NEW j \in 0..Cardinality(Call), j < nextWatchId',
                        ~ \E w \in Watch : Exists(w) /\ watch[w].id = j, j \notin forsaken'
                 PROVE  \E d \in Call : id'[d] = j
      BY <1>1 DEF Covered, Exists
    <3>1. j < nextWatchId /\ j \notin forsaken
      BY <1>3, <1>5, <2>1, CallsCount
    <3>2. PICK d \in Call : id[d] = j
      BY <3>1 DEF TrackInv, Covered
    <3>3. j /= None
      BY WatchConfig
    <3> QED BY <1>2, <2>3, <3>2, <3>3
  <2> QED BY <2>2, <2>5, <2>6, <2>7 DEF TrackInv
<1>6. CASE UNCHANGED <<nextWatchId, made>> /\ Refuse(c)
  BY <1>1, <1>6, RefuseKeepsTracking
<1>7. CASE /\ \/ NewCampaign /\ id' = [id EXCEPT ![c] = nextWatchId]
              \/ /\ \E i \in DOMAIN made :
                     made[i] = AskedFor(c) /\ id' = [id EXCEPT ![c] = i]
                 /\ UNCHANGED nextWatchId
           /\ made' = [made EXCEPT ![id'[c]] = AskedFor(c)]
           /\ Go(c, "insert")
           /\ UNCHANGED <<asked, plan, forsaken>>
  <2>1. CASE NewCampaign /\ id' = [id EXCEPT ![c] = nextWatchId]
    <3>1. nextWatchId \in 0..Cardinality(Call) /\ nextWatchId' = nextWatchId + 1
      BY <2>1, CampaignTyped
    <3>2. id'[c] = nextWatchId
      BY <1>3, <2>1
    <3> QED BY <1>4, <1>7, <2>1, <3>1, <3>2
  <2>2. CASE /\ \E i \in DOMAIN made :
                  made[i] = AskedFor(c) /\ id' = [id EXCEPT ![c] = i]
             /\ UNCHANGED nextWatchId
    <3>1. PICK i \in 0..Cardinality(Call) :
            made[i] = AskedFor(c) /\ id' = [id EXCEPT ![c] = i]
      BY <2>2 DEF TypeInv, TypeOK, CreationTyped
    <3>2. id'[c] = i
      BY <1>3, <3>1
    <3> QED BY <1>4, <1>7, <2>2, <3>1, <3>2
  <2> QED BY <1>7, <2>1, <2>2
<1> QED BY <1>5, <1>6, <1>7 DEF CreateOnChain

\* The row a call inserts is known: it is the only one of its request.
LEMMA InsertedRow ==
  ASSUME TypeInv, TrackInv, NEW c \in Call, NEW w \in Watch, Insert(c, w)
  PROVE  /\ Exists(w)' /\ watch'[w].request = asked[c] /\ watch'[w].id = id[c]
         /\ ~Exists(w) /\ id[c] \in 0..Cardinality(Call)
         /\ \A v \in Watch \ {w} : watch'[v] = watch[v]
         /\ RowsKnown'
<1>1. /\ at[c] = "insert" /\ ~Exists(w) /\ Admitted(c) /\ Put(w, NewWatch(c))
      /\ UNCHANGED <<minted, made, nextWatchId>>
  BY DEF Insert, Exists
<1>2. id[c] \in 0..Cardinality(Call) /\ id[c] /= None
  BY <1>1, WatchConfig DEF TypeInv, Placed
<1>3. /\ NewWatch(c) \in WatchRow /\ NewWatch(c).status /= "none"
      /\ NewWatch(c).request = asked[c] /\ NewWatch(c).id = id[c]
      /\ NewWatch(c).kind = plan[c].kind /\ NewWatch(c).starts = plan[c].starts
  BY <1>2, NewWatchRow DEF TypeInv
<1>4. watch'[w] = NewWatch(c) /\ \A v \in Watch \ {w} : watch'[v] = watch[v]
  BY <1>1, <1>3, PutRow DEF TypeInv, TypeOK, RecordsTyped
<1>5. /\ id[c] < nextWatchId
      /\ asked[c] \in Market => minted[asked[c]] = id[c]
      /\ asked[c] \notin Market => made[id[c]] = [kind |-> plan[c].kind, starts |-> plan[c].starts]
  BY <1>2 DEF TrackInv, CallsKnown, CallKnown, AskedFor
<1>6. RowsKnown'
  <2>1. ASSUME NEW v \in Watch, Exists(v)'
        PROVE  /\ watch'[v].id < nextWatchId
               /\ watch'[v].request \in Market => minted[watch'[v].request] = watch'[v].id
               /\ watch'[v].request \notin Market =>
                    made[watch'[v].id] = [kind |-> watch'[v].kind, starts |-> watch'[v].starts]
    <3>1. CASE v = w
      BY <1>3, <1>4, <1>5, <3>1
    <3>2. CASE v /= w
      BY <1>4, <2>1, <3>2 DEF TrackInv, RowsKnown, Exists
    <3> QED BY <3>1, <3>2
  <2>2. ASSUME NEW u \in Watch, NEW v \in Watch, Exists(u)', Exists(v)',
               watch'[u].request = watch'[v].request, watch'[u].request /= None
        PROVE  u = v
    <3>1. \A x \in Watch : Exists(x) => watch[x].request /= asked[c] \/ asked[c] = None
      BY <1>1 DEF Admitted, Registered, Exists
    <3>2. CASE u /= w /\ v /= w
      BY <1>4, <2>2, <3>2 DEF TrackInv, RowsKnown, Exists
    <3>3. CASE u = w \/ v = w
      BY <1>3, <1>4, <2>2, <3>1, <3>3 DEF Exists
    <3> QED BY <3>2, <3>3
  <2> QED BY <1>1, <2>1, <2>2 DEF RowsKnown
<1> QED BY <1>1, <1>2, <1>3, <1>4, <1>6 DEF Exists

LEMMA InsertTracked ==
  ASSUME TypeInv, TrackInv, NEW c \in Call, NEW w \in Watch, Insert(c, w)
  PROVE  TrackInv'
<1>1. /\ Exists(w)' /\ watch'[w].request = asked[c] /\ watch'[w].id = id[c]
      /\ ~Exists(w) /\ id[c] \in 0..Cardinality(Call)
      /\ \A v \in Watch \ {w} : watch'[v] = watch[v]
      /\ RowsKnown'
  BY InsertedRow
<1>2. UNCHANGED <<minted, made, nextWatchId>> /\ at[c] = "insert"
  BY DEF Insert
<1>3. /\ \A d \in Call \ {c} : at'[d] = at[d] /\ asked'[d] = asked[d] /\ id'[d] = id[d]
                            /\ plan'[d] = plan[d]
      /\ forsaken \subseteq forsaken'
      /\ \/ at'[c] = "done" /\ id'[c] = None /\ asked'[c] = None
         \/ /\ UNCHANGED <<asked, plan, id>>
            /\ at'[c] = "consume" \/ (at'[c] = "reread" /\ asked[c] \in Market)
  <2>1. CASE Accept(c) \/ Refuse(c)
    <3>1. End(c) /\ forsaken \subseteq forsaken'
      BY <2>1 DEF Accept, Refuse
    <3> QED BY <3>1, EndTyped DEF End, TypeInv, TypeOK, CreationTyped
  <2>2. CASE Proceed(c, "consume") \/ (ByMarket(c) /\ Proceed(c, "reread"))
    <3>1. "consume" \in CallPlace /\ "reread" \in CallPlace
      BY DEF CallPlace
    <3> QED BY <2>2, <3>1, ProceedTyped DEF ByMarket, Market
  <2> QED BY <2>1, <2>2 DEF Insert, AfterConflict
<1>4. CampaignsKnown'
  BY <1>2 DEF TrackInv, CampaignsKnown
<1>5. CallsKnown'
  <2>1. \A d \in Call \ {c} : CallKnown(d)'
    BY <1>2, <1>3 DEF TrackInv, CallsKnown, CallKnown, AskedFor, ByTelegram
  <2>2. None \notin Market
    BY WatchConfig DEF Market
  <2>3. CallKnown(c)
    BY DEF TrackInv, CallsKnown
  <2>4. ASSUME at'[c] = "done", id'[c] = None, asked'[c] = None
        PROVE  CallKnown(c)'
    BY <2>2, <2>4 DEF CallKnown
  <2>5. ASSUME UNCHANGED <<asked, plan, id>>,
               at'[c] = "consume" \/ (at'[c] = "reread" /\ asked[c] \in Market)
        PROVE  CallKnown(c)'
    BY <1>2, <2>3, <2>5 DEF CallKnown, AskedFor, ByTelegram
  <2> QED BY <1>3, <2>1, <2>4, <2>5 DEF CallsKnown
<1>6. RowsInHand'
  <2> SUFFICES ASSUME NEW d \in Call, at'[d] = "consume"
               PROVE  \E v \in Watch : Exists(v)' /\ watch'[v].request = asked'[d]
                                    /\ watch'[v].id = id'[d]
    BY DEF RowsInHand, Exists
  <2>1. CASE d = c
    BY <1>1, <1>3, <2>1
  <2>2. CASE d /= c
    <3>1. PICK v \in Watch : Exists(v) /\ watch[v].request = asked[d] /\ watch[v].id = id[d]
      BY <1>3, <2>2 DEF TrackInv, RowsInHand
    <3>2. v /= w
      BY <1>1, <3>1
    <3> QED BY <1>1, <1>3, <2>2, <3>1, <3>2 DEF Exists
  <2> QED BY <2>1, <2>2
<1>7. Covered'
  <2> SUFFICES ASSUME NEW i \in 0..Cardinality(Call), i < nextWatchId
               PROVE  \/ \E v \in Watch : Exists(v)' /\ watch'[v].id = i
                      \/ i \in forsaken'
                      \/ \E d \in Call : id'[d] = i
    BY <1>2 DEF Covered, Exists
  <2>1. ASSUME NEW v \in Watch, Exists(v), watch[v].id = i
        PROVE  \E u \in Watch : Exists(u)' /\ watch'[u].id = i
    <3>1. v /= w
      BY <1>1, <2>1
    <3> QED BY <1>1, <2>1, <3>1 DEF Exists
  <2>2. ASSUME NEW d \in Call, id[d] = i
        PROVE  \/ \E u \in Watch : Exists(u)' /\ watch'[u].id = i
               \/ \E u \in Call : id'[u] = i
    BY <1>1, <1>3, <2>2
  <2> QED BY <1>3, <2>1, <2>2 DEF TrackInv, Covered
<1> QED BY <1>1, <1>4, <1>5, <1>6, <1>7 DEF TrackInv

LEMMA InsertFailsTracked ==
  ASSUME TypeInv, TrackInv, NEW c \in Call, InsertFails(c)
  PROVE  TrackInv'
<1>1. UNCHANGED <<watch, nextWatchId, minted, made>>
  BY DEF InsertFails
<1>2. CASE Refuse(c)
  BY <1>1, <1>2, RefuseKeepsTracking
<1>3. CASE ByMarket(c) /\ Proceed(c, "reread")
  <2>1. asked[c] \in Market /\ "reread" \in CallPlace /\ Go(c, "reread")
        /\ UNCHANGED <<asked, plan, id, forsaken>>
    BY <1>3 DEF ByMarket, Market, CallPlace, Proceed
  <2> QED BY <1>1, <2>1, ProceedKeepsTracking
<1> QED BY <1>2, <1>3 DEF InsertFails, AfterConflict

LEMMA RereadTracked ==
  ASSUME TypeInv, TrackInv, NEW c \in Call, Reread(c)
  PROVE  TrackInv'
<1>1. UNCHANGED <<watch, nextWatchId, minted, made>> /\ at[c] = "reread"
  BY DEF Reread
<1>2. CASE Refuse(c)
  BY <1>1, <1>2, RefuseKeepsTracking
<1>3. CASE Registered(asked[c]) /\ Proceed(c, "consume")
  <2>1. asked[c] \in Market /\ "consume" \in CallPlace /\ Go(c, "consume")
        /\ UNCHANGED <<asked, plan, id, forsaken>>
    BY <1>1, <1>3 DEF CallPlace, Proceed, TrackInv, CallsKnown, CallKnown
  <2>2. \E w \in Watch : Exists(w) /\ watch[w].request = asked[c] /\ watch[w].id = id[c]
    BY <1>3, <2>1, RegisteredRow
  <2> QED BY <1>1, <2>1, <2>2, ProceedKeepsTracking
<1> QED BY <1>2, <1>3 DEF Reread

LEMMA MarkUsedTracked ==
  ASSUME TypeInv, TrackInv, NEW c \in Call, MarkUsed(c)
  PROVE  TrackInv'
<1>1. UNCHANGED <<watch, nextWatchId, minted, made>> /\ at[c] = "consume"
  BY DEF MarkUsed
<1>2. CASE Refuse(c)
  BY <1>1, <1>2, RefuseKeepsTracking
<1>3. CASE Accept(c)
  <2>1. \E w \in Watch : Exists(w) /\ watch[w].id = id[c]
    BY <1>1 DEF TrackInv, RowsInHand
  <2> QED BY <1>1, <1>3, <2>1, EndKeepsTracking DEF Accept
<1> QED BY <1>2, <1>3 DEF MarkUsed

LEMMA CallTracked ==
  ASSUME TypeInv, TrackInv, NEW c \in Call, CallStep(c)
  PROVE  TrackInv'
<1>1. ASSUME NEW target \in Targets, NEW starts \in {now, now + 1},
             SettlePaid(c, target[1], target[2], starts)
      PROVE  TrackInv'
  <2>1. starts \in Nat
    BY DEF TypeInv, TypeOK, RecordsTyped
  <2> QED BY <1>1, <2>1, SettlePaidTracked
<1>2. ASSUME NEW q \in Request, NEW target \in Targets, q \in TelegramRequest,
             TelegramRequested(c, q, target[1], target[2])
      PROVE  TrackInv'
  BY <1>2, TelegramRequestedTracked
<1>3. ASSUME NEW q \in Request, NEW target \in Targets, NEW starts \in 0..now,
             q \notin TelegramRequest, MarketplaceRegister(c, q, target[1], target[2], starts)
      PROVE  TrackInv'
  <2>1. starts \in Nat /\ q \in Market
    BY <1>3 DEF Market, TypeInv, TypeOK, RecordsTyped
  <2> QED BY <1>3, <2>1, MarketplaceRegisterTracked
<1> QED BY <1>1, <1>2, <1>3, FindRequestTracked, CreateOnChainTracked, InsertTracked,
           InsertFailsTracked, RereadTracked, MarkUsedTracked DEF CallStep

LEMMA InitTracked == Init => TrackInv
<1> SUFFICES ASSUME Init PROVE TrackInv
  OBVIOUS
<1>1. /\ None \notin Market /\ nextWatchId = 0
      /\ \A q \in Request : minted[q] = None
      /\ \A c \in Call : at[c] = "idle" /\ asked[c] = None /\ id[c] = None
      /\ \A w \in Watch : ~Exists(w)
      /\ \A i \in 0..Cardinality(Call) : made[i] = NoSpec
  BY WatchConfig DEF Init, RecordsInit, CreationInit, Market, Exists, NoWatch
<1>2. CampaignsKnown
  BY <1>1 DEF CampaignsKnown
<1>3. CallsKnown
  BY <1>1 DEF CallsKnown, CallKnown, ByTelegram
<1>4. RowsKnown /\ RowsInHand
  BY <1>1 DEF RowsKnown, RowsInHand
<1>5. Covered
  BY <1>1, CallsCount DEF Covered
<1> QED BY <1>2, <1>3, <1>4, <1>5 DEF TrackInv

\* A restart ends every call; it leaves its campaign without a watch in sight.
LEMMA RestartTracked ==
  ASSUME TypeInv, TrackInv, Restart
  PROVE  TrackInv'
<1>1. /\ UNCHANGED <<watch, nextWatchId, minted, made>> /\ None \notin Market
      /\ \A c \in Call : at'[c] \in {"idle", "done"} /\ asked'[c] = None /\ id'[c] = None
      /\ forsaken' = forsaken \union ({id[c] : c \in Call} \ {None})
  BY WatchConfig DEF Restart, CallsEnd, Market
<1>2. CampaignsKnown' /\ RowsKnown'
  BY <1>1 DEF TrackInv, CampaignsKnown, RowsKnown, Exists
<1>3. CallsKnown'
  BY <1>1 DEF CallsKnown, CallKnown, ByTelegram
<1>4. RowsInHand'
  BY <1>1 DEF RowsInHand
<1>5. Covered'
  <2> SUFFICES ASSUME NEW i \in 0..Cardinality(Call), i < nextWatchId,
                      ~ \E w \in Watch : Exists(w) /\ watch[w].id = i
               PROVE  i \in forsaken'
    BY <1>1 DEF Covered, Exists
  <2>1. i /= None
    BY WatchConfig
  <2> QED BY <1>1, <2>1 DEF TrackInv, Covered
<1> QED BY <1>2, <1>3, <1>4, <1>5 DEF TrackInv

LEMMA NextTracked == TypeInv /\ TrackInv /\ [Next]_vars => TrackInv'
<1> SUFFICES ASSUME TypeInv, TrackInv, [Next]_vars
             PROVE  TrackInv'
  OBVIOUS
<1>1. CASE \E c \in Call : CallStep(c)
  BY <1>1, CallTracked
<1>2. CASE (Begin \/ RunStep) /\ UNCHANGED creationVars
  BY <1>2, CycleKeepsRows, QuietKeepsTracking
<1>3. CASE World /\ UNCHANGED creationVars
  <2>1. UNCHANGED <<watch, nextWatchId>>
    BY <1>3 DEF World, Tick, Track, Publish
  <2> QED BY <1>3, <2>1, UntouchedRowsKeep, QuietKeepsTracking
<1>4. CASE Restart
  BY <1>4, RestartTracked
<1>5. CASE UNCHANGED vars
  BY <1>5, UntouchedRowsKeep, QuietKeepsTracking DEF vars, recordVars
<1> QED BY <1>1, <1>2, <1>3, <1>4, <1>5 DEF Next

\* Two rows of one campaign are alike: a workflow's campaign has the one row of
\* its request, and KeeperHub shares a campaign within one specification only.
LEMMA TrackersAlike ==
  ASSUME TypeInv, TrackInv, NEW v \in Watch, NEW w \in Watch, Exists(v), Exists(w),
         watch[v].id = watch[w].id, v /= w
  PROVE  Alike(v, w)
<1>1. watch[v] \in WatchRow /\ watch[w] \in WatchRow
  BY DEF TypeInv, TypeOK, RecordsTyped
<1>2. ASSUME NEW u \in Watch, Exists(u), watch[u].request \in Market
      PROVE  made[watch[u].id] = NoSpec
  <2>1. minted[watch[u].request] = watch[u].id
    BY <1>2 DEF TrackInv, RowsKnown
  <2>2. watch[u].id /= None
    BY WatchConfig DEF TypeInv, TypeOK, RecordsTyped, WatchRow
  <2> QED BY <1>2, <2>1, <2>2 DEF TrackInv, CampaignsKnown, Market
<1>3. ASSUME NEW u \in Watch, Exists(u), watch[u].request \notin Market
      PROVE  /\ made[watch[u].id] = [kind |-> watch[u].kind, starts |-> watch[u].starts]
             /\ made[watch[u].id] /= NoSpec
  <2>1. watch[u] \in WatchRow
    BY DEF TypeInv, TypeOK, RecordsTyped
  <2>2. watch[u].kind /= "none"
    BY <2>1 DEF WatchRow
  <2> QED BY <1>3, <2>2 DEF TrackInv, RowsKnown, NoSpec
<1>4. watch[v].request /= watch[w].request \/ watch[v].request = None
  BY DEF TrackInv, RowsKnown
<1>5. CASE watch[v].request \in Market
  <2>1. watch[w].request \in Market
    BY <1>2, <1>3, <1>5
  <2>2. minted[watch[v].request] = watch[v].id /\ minted[watch[w].request] = watch[w].id
    BY <1>5, <2>1 DEF TrackInv, RowsKnown
  <2>3. watch[v].id /= None
    BY WatchConfig DEF TypeInv, TypeOK, RecordsTyped, WatchRow
  <2>4. watch[v].request = watch[w].request
    BY <1>5, <2>1, <2>2, <2>3 DEF TrackInv, CampaignsKnown, Market
  <2>5. None \notin Market
    BY WatchConfig DEF Market
  <2> QED BY <1>4, <1>5, <2>4, <2>5
<1>6. CASE watch[v].request \notin Market
  <2>1. watch[w].request \notin Market
    BY <1>2, <1>3, <1>6
  <2>2. [kind |-> watch[v].kind, starts |-> watch[v].starts]
          = [kind |-> watch[w].kind, starts |-> watch[w].starts]
    BY <1>3, <1>6, <2>1
  <2>3. watch[v].kind = watch[w].kind /\ watch[v].starts = watch[w].starts
    BY <2>2
  <2> QED BY <1>4, <2>3 DEF Alike
<1> QED BY <1>5, <1>6

LEMMA TrackInvTracks == TypeInv /\ TrackInv => CampaignTracked
<1> SUFFICES ASSUME TypeInv, TrackInv, NEW i \in 0..(nextWatchId - 1)
             PROVE  /\ \A v, w \in Trackers(i) : v = w \/ Alike(v, w)
                    /\ Trackers(i) /= {} \/ i \in forsaken \/ \E c \in Call : id[c] = i
  BY DEF CampaignTracked
<1>1. i \in 0..Cardinality(Call) /\ i < nextWatchId
  BY CallsCount DEF TypeInv, TypeOK, RecordsTyped
<1>2. \A v, w \in Trackers(i) : v = w \/ Alike(v, w)
  BY TrackersAlike DEF Trackers, Exists
<1>3. Trackers(i) /= {} \/ i \in forsaken \/ \E c \in Call : id[c] = i
  <2>1. CASE \E w \in Watch : Exists(w) /\ watch[w].id = i
    BY <2>1 DEF Trackers, Exists
  <2> QED BY <1>1, <2>1 DEF TrackInv, Covered
<1> QED BY <1>2, <1>3

\* However calls, retries of a request, the cycle and restarts interleave, a
\* campaign created on chain has a watch, or a call that still has it in hand,
\* or one that was told, or left to see, that it failed; and two watches share a
\* campaign only where they ask for the same at the same moment.
THEOREM Tracked == Spec => []CampaignTracked
<1>1. TypeInv /\ TrackInv /\ [Next]_vars => TrackInv'
  BY NextTracked
<1>2. Spec => []TrackInv
  BY <1>1, InitTracked, TypesKept, PTL DEF Spec
<1> QED BY <1>2, TrackInvTracks, TypesKept, PTL

-----------------------------------------------------------------------------
(* Where the run is *)

Talking   == {"dm", "decide", "publish", "commit_new", "commit_old"}
Reporting == {"submit", "await", "close"}

\* A run drives rows of the status of its phase, and reports on campaigns that
\* have ended.
Driven ==
  /\ started <= now
  /\ cur = None <=> step = "none"
  /\ cur \notin batch
  /\ phase = "idle" => batch = {} /\ cur = None
  /\ phase = "activate" => cur = None /\ \A w \in batch : watch[w].status = "accepted"
  /\ step \in Talking => phase = "monitor"
  /\ step \in Reporting => phase = "complete"
  /\ phase = "monitor" =>
       \A w \in Watch : w \in batch \/ w = cur => watch[w].status = "monitoring"
  /\ phase = "complete" =>
       \A w \in Watch : w \in batch \/ w = cur => Open(w) /\ EndOf(w) <= started
  /\ cur = None => dmOk = "no"

\* A call adds rows, and leaves the others and the run's records alone.
LEMMA CallRows ==
  ASSUME TypeInv, NEW c \in Call, CallStep(c)
  PROVE  /\ UNCHANGED <<now, feed, alert, submitted, anchored>>
         /\ \/ UNCHANGED watch
            \/ \E w \in Watch :
                 /\ ~Exists(w)
                 /\ watch' = [watch EXCEPT ![w] = NewWatch(c)]
                 /\ id[c] \in 0..Cardinality(Call)
         /\ faults' \in {faults, faults + 1}
<1>1. CASE \E w \in Watch : Insert(c, w)
  <2>1. PICK w \in Watch : Insert(c, w)
    BY <1>1
  <2>2. id[c] \in 0..Cardinality(Call)
    BY <2>1 DEF Insert, TypeInv, Placed
  <2> QED BY <2>1, <2>2 DEF Insert, Put, Exists, Fault, NoFault
<1>2. CASE \E target \in Targets, starts \in {now, now + 1} :
             SettlePaid(c, target[1], target[2], starts)
  BY <1>2 DEF SettlePaid, recordVars
<1>3. CASE \E q \in Request, target \in {t \in Targets : t[2] /= "public"} :
             \/ q \in TelegramRequest /\ TelegramRequested(c, q, target[1], target[2])
             \/ /\ q \notin TelegramRequest
                /\ \E starts \in 0..now : MarketplaceRegister(c, q, target[1], target[2], starts)
  BY <1>3 DEF TelegramRequested, MarketplaceRegister, recordVars
<1>4. CASE FindRequest(c) \/ CreateOnChain(c) \/ InsertFails(c) \/ Reread(c) \/ MarkUsed(c)
  BY <1>4 DEF FindRequest, CreateOnChain, InsertFails, Reread, MarkUsed, Fault, NoFault
<1> QED BY <1>1, <1>2, <1>3, <1>4 DEF CallStep

\* What a new row is like.
LEMMA AddedRow ==
  ASSUME TypeInv, NEW c \in Call, NEW w \in Watch, id[c] \in 0..Cardinality(Call),
         watch' = [watch EXCEPT ![w] = NewWatch(c)]
  PROVE  /\ watch'[w].status \in {"accepted", "monitoring"} /\ watch'[w].cursor = {}
         /\ watch'[w].report = None
         /\ \A v \in Watch \ {w} : watch'[v] = watch[v]
<1>1. watch'[w] = NewWatch(c) /\ \A v \in Watch \ {w} : watch'[v] = watch[v]
  BY DEF TypeInv, TypeOK, RecordsTyped
<1> QED BY <1>1, NewWatchRow DEF NewWatch, TypeInv

\* So the rows there are stay as they are.
LEMMA CallKeepsRows ==
  ASSUME TypeInv, NEW c \in Call, CallStep(c)
  PROVE  \A w \in Watch : Exists(w) => watch'[w] = watch[w]
  BY CallRows, AddedRow

\* The clock goes on.
LEMMA ClockTyped ==
  ASSUME TypeInv
  PROVE  /\ now \in Nat /\ started \in Nat /\ Duration \in Nat
         /\ \A w \in Watch : watch[w] \in WatchRow /\ watch[w].starts \in Nat /\ EndOf(w) \in Nat
         /\ None \notin Watch
<1>1. now \in Nat /\ started \in Nat /\ Duration \in Nat /\ None \notin Watch
      /\ \A w \in Watch : watch[w] \in WatchRow
  BY WatchConfig DEF TypeInv, TypeOK, RecordsTyped, RunTyped
<1>2. \A w \in Watch : watch[w].starts \in Nat
  BY <1>1 DEF WatchRow
<1> QED BY <1>1, <1>2 DEF EndOf

\* Where the run stands, steps of others do not move it.
LEMMA OthersDriven ==
  ASSUME TypeInv, Driven, UNCHANGED cycleVars, now' \in {now, now + 1},
         \A w \in Watch : Exists(w) => watch'[w] = watch[w]
  PROVE  Driven'
<1>1. UNCHANGED <<phase, started, batch, cur, step, dmOk>>
  BY DEF cycleVars, runVars
<1>2. \A w \in Watch : w \in batch \/ w = cur => watch'[w] = watch[w]
  BY DEF TypeInv, Placed, Exists
<1>3. started <= now'
  BY ClockTyped DEF Driven
<1>4. \A w \in batch : w \in Watch
  BY DEF TypeInv, TypeOK, RunTyped
<1>5. \A w \in Watch : w \in batch \/ w = cur => (Open(w)' <=> Open(w)) /\ EndOf(w)' = EndOf(w)
  BY <1>2 DEF Open, EndOf
<1> HIDE DEF Open, EndOf
<1> QED BY <1>1, <1>2, <1>3, <1>4, <1>5 DEF Driven

\* A run that leaves a row takes no other with it.
LEMMA LeaveDriven ==
  ASSUME TypeInv, Driven, Leave, UNCHANGED <<batch, now>>, NEW w \in Watch, w = cur,
         \A v \in Watch \ {w} : watch'[v] = watch[v]
  PROVE  Driven'
<1>1. UNCHANGED <<phase, started>> /\ cur' = None /\ step' = "none" /\ dmOk' = "no"
  BY DEF Leave
<1>2. cur \in Watch /\ w \notin batch /\ cur /= None
  BY ClockTyped DEF Driven
<1>3. phase \in {"monitor", "complete"} /\ step' \notin Talking \union Reporting
  BY <1>1, <1>2 DEF Driven, TypeInv, TypeOK, RunTyped, Phase, Talking, Reporting
<1>4. \A v \in Watch : v \in batch' \/ v = cur' =>
        v \in batch /\ watch'[v] = watch[v]
  BY <1>1, <1>2, ClockTyped
<1>5. \A v \in Watch : v \in batch' \/ v = cur' =>
        v \in batch /\ watch'[v].status = watch[v].status
        /\ (Open(v)' <=> Open(v)) /\ EndOf(v)' = EndOf(v)
  BY <1>4 DEF Open, EndOf
<1>6. cur' \notin batch' /\ batch \subseteq Watch
  BY <1>1, ClockTyped DEF TypeInv, TypeOK, RunTyped
<1> HIDE DEF Open, EndOf
<1> QED BY <1>1, <1>3, <1>5, <1>6 DEF Driven

\* A run that goes on with its row stays with it.
LEMMA GoesOnDriven ==
  ASSUME TypeInv, Driven, NEW w \in Watch, w = cur,
         UNCHANGED <<phase, started, batch, cur, watch, now>>,
         \/ step \in Talking /\ step' \in Talking
         \/ step \in Reporting /\ step' \in Reporting
  PROVE  Driven'
<1>1. cur /= None /\ step' /= "none"
  BY ClockTyped DEF Talking, Reporting
<1>2. \A v \in Watch : (Open(v)' <=> Open(v)) /\ EndOf(v)' = EndOf(v)
  BY DEF Open, EndOf
<1>3. (step' \in Talking => phase = "monitor") /\ (step' \in Reporting => phase = "complete")
  BY DEF Driven, Talking, Reporting
<1> HIDE DEF Open, EndOf
<1> QED BY <1>1, <1>2, <1>3 DEF Driven

\* The phases.
LEMMA PhasesDriven ==
  ASSUME TypeInv, Driven, Begin \/ BeginMonitoring \/ BeginCompletion \/ EndRun
  PROVE  Driven'
<1>1. cur = None /\ batch = {} /\ step = "none" /\ dmOk = "no"
  BY DEF Begin, BeginMonitoring, BeginCompletion, EndRun, Done, Driven
<1>2. UNCHANGED <<watch, now>> /\ cur' = None /\ step' = "none" /\ dmOk' = "no"
  BY <1>1 DEF Begin, BeginMonitoring, BeginCompletion, EndRun, RunRest, Enter, recordVars
<1>3. started' <= now
  BY ClockTyped DEF Driven, Begin, BeginMonitoring, BeginCompletion, EndRun
<1>4. \A v \in Watch : (Open(v)' <=> Open(v)) /\ EndOf(v)' = EndOf(v) /\ watch'[v] = watch[v]
  BY <1>2 DEF Open, EndOf
<1>5. None \notin batch'
  BY ClockTyped DEF Begin, BeginMonitoring, BeginCompletion, EndRun, RunRest, Enter
<1>6. /\ phase' = "idle" => batch' = {}
      /\ phase' = "activate" => \A w \in batch' : watch[w].status = "accepted"
      /\ phase' = "monitor" => \A w \in batch' : watch[w].status = "monitoring"
      /\ phase' = "complete" => \A w \in batch' : Open(w) /\ EndOf(w) <= started'
  BY DEF Begin, BeginMonitoring, BeginCompletion, EndRun, RunRest, Enter
<1>7. \A w \in Watch : w /= None
  BY ClockTyped
<1>8. batch' \subseteq Watch
  BY DEF Begin, BeginMonitoring, BeginCompletion, EndRun, RunRest, Enter
<1> HIDE DEF Open, EndOf
<1> QED BY <1>2, <1>3, <1>4, <1>5, <1>6, <1>7, <1>8 DEF Driven, Talking, Reporting

\* A row is taken, or left for the next run.
LEMMA TakenDriven ==
  ASSUME TypeInv, Driven, NEW w \in batch, batch' = batch \ {w}, w \in Watch, cur = None,
         UNCHANGED <<phase, started, now, watch, dmOk>>,
         \/ UNCHANGED <<cur, step>>
         \/ /\ cur' = w
            /\ \/ phase = "monitor" /\ step' \in Talking
               \/ phase = "complete" /\ step' \in Reporting
  PROVE  Driven'
<1>1. w /= None /\ None \notin batch
  BY ClockTyped DEF TypeInv, TypeOK, RunTyped
<1>2. \A v \in Watch : (Open(v)' <=> Open(v)) /\ EndOf(v)' = EndOf(v)
  BY DEF Open, EndOf
<1>3. phase \notin {"idle", "activate"} \/ UNCHANGED <<cur, step>>
  OBVIOUS
<1>4. CASE UNCHANGED <<cur, step>>
  BY <1>1, <1>2, <1>4 DEF Driven, Talking, Reporting
<1>5. CASE /\ cur' = w
           /\ \/ phase = "monitor" /\ step' \in Talking
              \/ phase = "complete" /\ step' \in Reporting
  <2>1. step' /= "none" /\ ~(step' \in Talking /\ step' \in Reporting)
    BY <1>5 DEF Talking, Reporting
  <2> HIDE DEF Open, EndOf
  <2> QED BY <1>1, <1>2, <1>5, <2>1 DEF Driven
<1> QED BY <1>4, <1>5

\* Every step of the run.
LEMMA RunDriven ==
  ASSUME TypeInv, Driven, Begin \/ RunStep
  PROVE  Driven'
<1>1. CASE Begin \/ BeginMonitoring \/ BeginCompletion \/ EndRun
  BY <1>1, PhasesDriven
<1>2. ASSUME NEW w \in Watch, RowStep(w)
      PROVE  Driven'
  <2>1. CASE Activate(w)
    <3>1. \A v \in batch' : watch'[v] = watch[v] /\ v \in batch
      BY <2>1 DEF Activate, Put, TypeInv, TypeOK, RecordsTyped, RunTyped
    <3>2. phase' = "activate" /\ cur' = None /\ step' = "none" /\ dmOk' = "no"
          /\ UNCHANGED <<started, now>> /\ batch' \subseteq batch /\ None \notin batch
      BY <2>1, ClockTyped DEF Activate, Driven, TypeInv, TypeOK, RunTyped
    <3>3. \A v \in batch' : watch'[v].status = "accepted"
      BY <3>1, <3>2, <2>1 DEF Driven, Activate
    <3> QED BY <3>2, <3>3 DEF Driven, Talking, Reporting
  <2>2. ASSUME NEW lost, NEW found, CollectEvents(w, lost, found) PROVE Driven'
    <3>1. step' \in Talking
      BY <2>2 DEF CollectEvents, AfterCollect, Talking
    <3> QED BY <2>2, <3>1, TakenDriven DEF CollectEvents
  <2>3. ASSUME NEW lost, NEW found, NEW text, WriteReport(w, lost, found, text) PROVE Driven'
    <3>1. step' \in Reporting
      BY <2>3 DEF WriteReport, Reporting
    <3> QED BY <2>3, <3>1, TakenDriven DEF WriteReport
  <2>4. CASE CollectFails(w)
    BY <2>4, TakenDriven DEF CollectFails
  <2>5. CASE SendDm(w) \/ FoldEvents(w) \/ PrepareAlert(w) \/ PublishAlert(w)
    <3>1. step \in Talking /\ step' \in Talking
      BY <2>5 DEF SendDm, FoldEvents, PrepareAlert, PublishAlert, Commit, Talking
    <3>2. UNCHANGED <<phase, started, batch, cur, watch, now>> /\ w = cur
      BY <2>5 DEF SendDm, FoldEvents, PrepareAlert, PublishAlert, recordVars
    <3> QED BY <3>1, <3>2, GoesOnDriven
  <2>6. CASE Submit(w) \/ Confirmed(w) \/ Refused(w) \/ Hashless(w)
    <3>1. step \in Reporting /\ step' \in Reporting
      BY <2>6 DEF Submit, Confirmed, Refused, Hashless, ToClose, Reporting
    <3>2. UNCHANGED <<phase, started, batch, cur, watch, now>> /\ w = cur
      BY <2>6 DEF Submit, Confirmed, Refused, Hashless, ToClose
    <3> QED BY <3>1, <3>2, GoesOnDriven
  <2>7. CASE CommitMonitoring(w) \/ GiveUp(w) \/ Complete(w)
    <3>1. \A v \in Watch \ {w} : watch'[v] = watch[v]
      BY <2>7 DEF CommitMonitoring, GiveUp, Complete, Put, TypeInv, TypeOK, RecordsTyped
    <3> QED BY <2>7, <3>1, LeaveDriven DEF CommitMonitoring, GiveUp, Complete
  <2> QED BY <1>2, <2>1, <2>2, <2>3, <2>4, <2>5, <2>6, <2>7 DEF RowStep
<1> QED BY <1>1, <1>2 DEF RunStep

LEMMA NextDriven == TypeInv /\ Driven /\ [Next]_vars => Driven'
<1> SUFFICES ASSUME TypeInv, Driven, [Next]_vars PROVE Driven'
  OBVIOUS
<1>1. CASE (\E c \in Call : CallStep(c)) /\ UNCHANGED cycleVars
  BY <1>1, CallRows, CallKeepsRows, OthersDriven
<1>2. CASE World /\ UNCHANGED cycleVars
  BY <1>2, OthersDriven DEF World, Track, Publish, Tick
<1>3. CASE Restart
  <2>1. /\ UNCHANGED <<started, now>> /\ phase' = "idle" /\ batch' = {} /\ cur' = None
        /\ step' = "none" /\ dmOk' = "no"
    BY <1>3 DEF Restart, RunRest
  <2> QED BY <2>1 DEF Driven, Talking, Reporting
<1>4. CASE UNCHANGED vars
  BY <1>4, OthersDriven DEF vars, recordVars
<1> QED BY <1>1, <1>2, <1>3, <1>4, RunDriven DEF Next

LEMMA AlwaysDriven == Spec => []Driven
<1>1. Init => Driven
  BY ClockTyped, WatchConfig DEF Init, RecordsInit, CycleInit, Driven, Talking, Reporting
<1> QED BY <1>1, NextDriven, TypesKept, PTL DEF Spec

-----------------------------------------------------------------------------
(* The reports on chain *)

\* Another row has the campaign of this one.
Shared(w) == \E v \in Watch \ {w} : Exists(v) /\ watch[v].id = watch[w].id

\* What KeeperHub was asked to publish came from a row of the campaign, and the
\* chain has nothing else.  Without a fault a row that has its campaign to itself
\* asks once.
AnchorInv ==
  /\ \A i \in 0..Cardinality(Call) :
       /\ submitted[i] /= {} => \E w \in Watch : Exists(w) /\ watch[w].id = i
       /\ anchored[i] \in submitted[i] \union {None}
  /\ \A w \in Watch : watch[w].status = "completed" =>
       /\ watch[w].report \in submitted[watch[w].id]
       /\ anchored[watch[w].id] = watch[w].report \/ faults > 0 \/ Shared(w)
  /\ step \in {"await", "close"} => report \in submitted[watch[cur].id]
  /\ step = "close" => anchored[watch[cur].id] = report \/ faults > 0 \/ Shared(cur)
  /\ \A w \in Watch : Open(w) /\ faults = 0 /\ ~Shared(w) =>
       submitted[watch[w].id] \subseteq
         IF w = cur /\ step \in {"await", "close"} THEN {report} ELSE {}

\* A campaign of a row is one of the chain's.
LEMMA CampaignOfRow ==
  ASSUME TypeInv
  PROVE  /\ \A w \in Watch : watch[w].id \in 0..Cardinality(Call)
         /\ \A i \in 0..Cardinality(Call) : submitted[i] \subseteq Report
         /\ faults \in Nat
  BY DEF TypeInv, TypeOK, RecordsTyped, WatchRow

\* Rows keep their campaigns, so what is shared stays shared.
LEMMA RowsStayShared ==
  ASSUME RowsKeep
  PROVE  /\ \A w \in Watch : watch'[w].id = watch[w].id /\ (Exists(w)' <=> Exists(w))
         /\ \A w \in Watch : Shared(w)' <=> Shared(w)
  BY DEF RowsKeep, Same, Shared, Exists

\* A step that asks for no report and leaves reports in hand alone, or without a
\* fault has none in hand, keeps them: a row may be opened or driven.
LEMMA AnchorQuiet ==
  ASSUME TypeInv, Driven, AnchorInv, RowsKeep, UNCHANGED submitted, faults' \in {faults, faults + 1},
         \A i \in 0..Cardinality(Call) :
           anchored'[i] = anchored[i] \/ (anchored[i] = None /\ anchored'[i] \in submitted[i]),
         \/ UNCHANGED <<cur, step, report>>
         \/ faults' > 0 /\ step' \notin {"await", "close"}
         \/ step \notin {"await", "close"} /\ step' \notin {"await", "close"},
         \A w \in Watch : watch'[w].status = "completed" =>
           watch[w].status = "completed" /\ watch'[w].report = watch[w].report,
         \A w \in Watch : Open(w)' => Open(w)
  PROVE  AnchorInv'
<1>1. /\ \A w \in Watch : watch'[w].id = watch[w].id /\ (Exists(w)' <=> Exists(w))
      /\ \A w \in Watch : Shared(w)' <=> Shared(w)
  BY RowsStayShared
<1>2. faults \in Nat /\ faults' \in Nat /\ (faults > 0 => faults' > 0) /\ (faults' = 0 => faults = 0)
  BY CampaignOfRow
<1>3. \A w \in Watch : watch[w].id \in 0..Cardinality(Call)
  BY CampaignOfRow
<1>4. \A i \in 0..Cardinality(Call) : \A r \in submitted[i] :
        anchored[i] = r => anchored'[i] = r
  BY CampaignOfRow, NoReportYet
<1>5. \A i \in 0..Cardinality(Call) :
        /\ submitted'[i] /= {} => \E w \in Watch : Exists(w)' /\ watch'[w].id = i
        /\ anchored'[i] \in submitted'[i] \union {None}
  BY <1>1 DEF AnchorInv
<1>6. \A w \in Watch : watch'[w].status = "completed" =>
        /\ watch'[w].report \in submitted'[watch'[w].id]
        /\ anchored'[watch'[w].id] = watch'[w].report \/ faults' > 0 \/ Shared(w)'
  BY <1>1, <1>2, <1>3, <1>4 DEF AnchorInv
<1>7. ASSUME step' \in {"await", "close"}
      PROVE  /\ report' \in submitted'[watch'[cur'].id]
             /\ step' = "close" =>
                  anchored'[watch'[cur'].id] = report' \/ faults' > 0 \/ Shared(cur)'
  <2>1. UNCHANGED <<cur, step, report>>
    BY <1>7
  <2>2. cur \in Watch
    BY <1>7, <2>1, ClockTyped DEF TypeInv, TypeOK, RunTyped, Driven
  <2> QED BY <1>1, <1>2, <1>3, <1>4, <1>7, <2>1, <2>2 DEF AnchorInv
<1>8. ASSUME NEW w \in Watch, Open(w)', faults' = 0, ~Shared(w)'
      PROVE  submitted'[watch'[w].id] \subseteq
               IF w = cur' /\ step' \in {"await", "close"} THEN {report'} ELSE {}
  <2>1. Open(w) /\ faults = 0 /\ ~Shared(w) /\ watch'[w].id = watch[w].id
    BY <1>1, <1>2, <1>8
  <2> QED BY <1>2, <1>8, <2>1 DEF AnchorInv
<1> HIDE DEF Open, Shared
<1> QED BY <1>5, <1>6, <1>7, <1>8 DEF AnchorInv

\* A row that is opened finds its campaign without a report, or shares it with
\* the row that asked for one.
LEMMA AddedAnchored ==
  ASSUME TypeInv, Driven, AnchorInv, NEW c \in Call, CallStep(c), UNCHANGED cycleVars
  PROVE  AnchorInv'
<1>1. /\ UNCHANGED <<submitted, anchored, cur, step, report>> /\ faults' \in {faults, faults + 1}
      /\ \A w \in Watch : Exists(w) => watch'[w] = watch[w]
  BY CallRows, CallKeepsRows DEF cycleVars, runVars
<1>2. \A w \in Watch : ~Exists(w) =>
        watch'[w] = watch[w] \/ watch'[w].status \in {"accepted", "monitoring"}
  BY CallRows, AddedRow
<1>3. faults \in Nat /\ faults' \in Nat /\ (faults > 0 => faults' > 0) /\ (faults' = 0 => faults = 0)
  BY <1>1, CampaignOfRow
<1>4. \A w \in Watch : Exists(w) => Exists(w)' /\ (Shared(w) => Shared(w)')
  BY <1>1 DEF Exists, Shared
<1>5. \A i \in 0..Cardinality(Call) :
        /\ submitted'[i] /= {} => \E w \in Watch : Exists(w)' /\ watch'[w].id = i
        /\ anchored'[i] \in submitted'[i] \union {None}
  BY <1>1, <1>4 DEF AnchorInv
<1>6. ASSUME NEW w \in Watch, watch'[w].status = "completed"
      PROVE  /\ watch'[w].report \in submitted'[watch'[w].id]
             /\ anchored'[watch'[w].id] = watch'[w].report \/ faults' > 0 \/ Shared(w)'
  <2>1. Exists(w)
    BY <1>2, <1>6 DEF Exists
  <2> QED BY <1>1, <1>3, <1>4, <1>6, <2>1 DEF AnchorInv
<1>7. ASSUME step' \in {"await", "close"}
      PROVE  /\ report' \in submitted'[watch'[cur'].id]
             /\ step' = "close" =>
                  anchored'[watch'[cur'].id] = report' \/ faults' > 0 \/ Shared(cur)'
  <2>1. cur \in Watch /\ Exists(cur) /\ UNCHANGED <<cur, step, report>>
    BY <1>1, <1>7, TakenRow DEF TypeInv, TypeOK, RunTyped, Driven, Exists
  <2> QED BY <1>1, <1>3, <1>4, <1>7, <2>1 DEF AnchorInv
<1>8. ASSUME NEW w \in Watch, Open(w)', faults' = 0, ~Shared(w)'
      PROVE  submitted'[watch'[w].id] \subseteq
               IF w = cur' /\ step' \in {"await", "close"} THEN {report'} ELSE {}
  <2>1. CASE Exists(w)
    <3>1. Open(w) /\ faults = 0 /\ ~Shared(w) /\ watch'[w].id = watch[w].id
      BY <1>1, <1>3, <1>4, <1>8, <2>1 DEF Open
    <3> QED BY <1>1, <1>8, <3>1 DEF AnchorInv
  <2>2. CASE ~Exists(w)
    <3>1. ASSUME submitted[watch'[w].id] /= {} PROVE FALSE
      <4>1. watch'[w].id \in 0..Cardinality(Call)
        <5>1. TypeInv'
          BY CallTyped
        <5> QED BY <5>1 DEF TypeInv, TypeOK, RecordsTyped, WatchRow
      <4>2. PICK v \in Watch : Exists(v) /\ watch[v].id = watch'[w].id
        BY <3>1, <4>1 DEF AnchorInv
      <4>3. v /= w /\ Exists(v)' /\ watch'[v].id = watch'[w].id
        BY <1>1, <1>4, <2>2, <4>2
      <4> QED BY <1>8, <4>3 DEF Shared
    <3> QED BY <1>1, <3>1
  <2> QED BY <2>1, <2>2
<1> HIDE DEF Open, Shared
<1> QED BY <1>5, <1>6, <1>7, <1>8 DEF AnchorInv

\* KeeperHub is asked to publish: for the first time, without a fault.
LEMMA SubmitAnchored ==
  ASSUME TypeInv, Driven, AnchorInv, NEW w \in Watch, Submit(w)
  PROVE  AnchorInv'
<1> DEFINE i == watch[w].id
<1>1. /\ step = "submit" /\ cur = w /\ step' = "await" /\ cur' = w /\ report' = report
      /\ UNCHANGED <<watch, anchored, faults>> /\ Exists(w) /\ Open(w)
  BY TakenRow DEF Submit, Exists, Driven, Reporting
<1>2. i \in 0..Cardinality(Call) /\ submitted'[i] = submitted[i] \union {report}
      /\ \A k \in 0..Cardinality(Call) : k /= i => submitted'[k] = submitted[k]
  BY CampaignOfRow DEF Submit, TypeInv, TypeOK, RecordsTyped
<1>3. \A v \in Watch : /\ watch[v].id \in 0..Cardinality(Call)
                       /\ submitted[watch[v].id] \subseteq submitted'[watch[v].id]
  BY <1>2, CampaignOfRow
<1>4. \A v \in Watch : (Shared(v)' <=> Shared(v)) /\ (Open(v)' <=> Open(v))
  BY <1>1 DEF Shared, Open, Exists
<1>5. \A k \in 0..Cardinality(Call) :
        /\ submitted'[k] /= {} => \E v \in Watch : Exists(v)' /\ watch'[v].id = k
        /\ anchored'[k] \in submitted'[k] \union {None}
  BY <1>1, <1>2 DEF AnchorInv, Exists
<1>6. \A v \in Watch : watch'[v].status = "completed" =>
        /\ watch'[v].report \in submitted'[watch'[v].id]
        /\ anchored'[watch'[v].id] = watch'[v].report \/ faults' > 0 \/ Shared(v)'
  BY <1>1, <1>3, <1>4 DEF AnchorInv
<1>7. ASSUME NEW v \in Watch, Open(v)', faults' = 0, ~Shared(v)'
      PROVE  submitted'[watch'[v].id] \subseteq
               IF v = cur' /\ step' \in {"await", "close"} THEN {report'} ELSE {}
  <2>1. Open(v) /\ faults = 0 /\ ~Shared(v)
    BY <1>1, <1>4, <1>7
  <2>2. submitted[watch[v].id] = {}
    BY <1>1, <2>1 DEF AnchorInv
  <2>3. CASE v = w
    BY <1>1, <1>2, <2>2, <2>3
  <2>4. CASE v /= w
    <3>1. watch[v].id /= i
      BY <1>1, <2>1, <2>4 DEF Shared
    <3> QED BY <1>1, <1>2, <1>3, <2>2, <3>1
  <2> QED BY <2>3, <2>4
<1>8. report' \in submitted'[watch'[cur'].id] /\ step' /= "close"
  BY <1>1, <1>2
<1> HIDE DEF Open, Shared
<1> QED BY <1>5, <1>6, <1>7, <1>8 DEF AnchorInv

\* Its answer: the chain has the report, or another one that this row did not
\* ask for, or nobody knows.
LEMMA AnswerAnchored ==
  ASSUME TypeInv, Driven, AnchorInv, NEW w \in Watch, Confirmed(w) \/ Refused(w) \/ Hashless(w)
  PROVE  AnchorInv'
<1>1. /\ step = "await" /\ cur = w /\ step' = "close" /\ cur' = w /\ report' = report
      /\ UNCHANGED <<watch, anchored, submitted>> /\ faults' \in {faults, faults + 1}
      /\ Exists(w) /\ Open(w)
  BY TakenRow DEF Confirmed, Refused, Hashless, ToClose, Exists, Driven, Reporting, Fault, NoFault
<1>2. faults \in Nat /\ faults' \in Nat /\ (faults > 0 => faults' > 0) /\ (faults' = 0 => faults = 0)
  BY <1>1, CampaignOfRow
<1>3. \A v \in Watch : (Shared(v)' <=> Shared(v)) /\ (Open(v)' <=> Open(v)) /\ (Exists(v)' <=> Exists(v))
  BY <1>1 DEF Shared, Open, Exists
<1>4. watch[w].id \in 0..Cardinality(Call)
  BY CampaignOfRow
<1>5. anchored[watch[w].id] = report \/ faults' > 0 \/ Shared(w)
  <2>1. CASE Hashless(w)
    BY <2>1, <1>2 DEF Hashless, Fault
  <2>2. CASE Confirmed(w)
    BY <2>2 DEF Confirmed
  <2>3. CASE Refused(w)
    <3> SUFFICES ASSUME faults = 0, ~Shared(w) PROVE FALSE
      BY <1>2, <2>3 DEF Refused, NoFault
    <3>1. anchored[watch[w].id] \in submitted[watch[w].id]
      BY <1>4, <2>3 DEF AnchorInv, Refused
    <3>2. submitted[watch[w].id] \subseteq {report}
      BY <1>1 DEF AnchorInv
    <3> QED BY <2>3, <3>1, <3>2 DEF Refused
  <2> QED BY <2>1, <2>2, <2>3
<1>6. \A v \in Watch : watch'[v].status = "completed" =>
        /\ watch'[v].report \in submitted'[watch'[v].id]
        /\ anchored'[watch'[v].id] = watch'[v].report \/ faults' > 0 \/ Shared(v)'
  BY <1>1, <1>2, <1>3 DEF AnchorInv
<1>7. \A k \in 0..Cardinality(Call) :
        /\ submitted'[k] /= {} => \E v \in Watch : Exists(v)' /\ watch'[v].id = k
        /\ anchored'[k] \in submitted'[k] \union {None}
  BY <1>1, <1>3 DEF AnchorInv
<1>8. \A v \in Watch : Open(v)' /\ faults' = 0 /\ ~Shared(v)' =>
        submitted'[watch'[v].id] \subseteq
          IF v = cur' /\ step' \in {"await", "close"} THEN {report'} ELSE {}
  BY <1>1, <1>2, <1>3 DEF AnchorInv
<1>9. /\ report' \in submitted'[watch'[cur'].id]
      /\ anchored'[watch'[cur'].id] = report' \/ faults' > 0 \/ Shared(cur)'
  BY <1>1, <1>3, <1>5 DEF AnchorInv
<1> HIDE DEF Open, Shared
<1> QED BY <1>6, <1>7, <1>8, <1>9 DEF AnchorInv

\* The row is completed with the report in hand.
LEMMA CompleteAnchored ==
  ASSUME TypeInv, Driven, AnchorInv, NEW w \in Watch, Complete(w)
  PROVE  AnchorInv'
<1>1. /\ step = "close" /\ cur = w /\ step' = "none" /\ cur' = None
      /\ UNCHANGED <<anchored, submitted>> /\ faults' \in {faults, faults + 1}
      /\ RowsKeep
  BY CycleKeepsRows DEF Complete, Leave, Fault, NoFault, RunStep, RowStep
<1>2. CASE UNCHANGED watch /\ Fault
  <2>1. faults' > 0
    BY <1>2, CampaignOfRow DEF Fault
  <2>2. \A v \in Watch : Open(v)' => Open(v)
    BY <1>2 DEF Open
  <2>3. \A v \in Watch : watch'[v].status = "completed" =>
          watch[v].status = "completed" /\ watch'[v].report = watch[v].report
    BY <1>2
  <2>4. \A i \in 0..Cardinality(Call) :
          anchored'[i] = anchored[i] \/ (anchored[i] = None /\ anchored'[i] \in submitted[i])
    BY <1>1
  <2>5. step' \notin {"await", "close"}
    BY <1>1
  <2> HIDE DEF Open
  <2> QED BY <1>1, <2>1, <2>2, <2>3, <2>4, <2>5, AnchorQuiet
<1>3. CASE Put(w, Completed(w))
  <2>1. /\ \A v \in Watch : watch'[v].id = watch[v].id /\ (Exists(v)' <=> Exists(v))
        /\ \A v \in Watch : Shared(v)' <=> Shared(v)
    BY <1>1, RowsStayShared
  <2>2. faults \in Nat /\ faults' \in Nat /\ (faults > 0 => faults' > 0) /\ (faults' = 0 => faults = 0)
    BY <1>1, CampaignOfRow
  <2>3. watch'[w].status = "completed" /\ watch'[w].report = report
        /\ \A v \in Watch \ {w} : watch'[v] = watch[v]
    BY <1>3 DEF Put, Completed, TypeInv, TypeOK, RecordsTyped, WatchRow
  <2>4. \A k \in 0..Cardinality(Call) :
          /\ submitted'[k] /= {} => \E v \in Watch : Exists(v)' /\ watch'[v].id = k
          /\ anchored'[k] \in submitted'[k] \union {None}
    BY <1>1, <2>1 DEF AnchorInv
  <2>5. \A v \in Watch : watch'[v].status = "completed" =>
          /\ watch'[v].report \in submitted'[watch'[v].id]
          /\ anchored'[watch'[v].id] = watch'[v].report \/ faults' > 0 \/ Shared(v)'
    <3> SUFFICES ASSUME NEW v \in Watch, watch'[v].status = "completed"
                 PROVE  /\ watch'[v].report \in submitted'[watch'[v].id]
                        /\ anchored'[watch'[v].id] = watch'[v].report \/ faults' > 0 \/ Shared(v)'
      OBVIOUS
    <3>1. CASE v = w
      BY <1>1, <2>1, <2>2, <2>3, <3>1 DEF AnchorInv
    <3>2. CASE v /= w
      BY <1>1, <2>1, <2>2, <2>3, <3>2 DEF AnchorInv
    <3> QED BY <3>1, <3>2
  <2>6. ASSUME NEW v \in Watch, Open(v)', faults' = 0, ~Shared(v)'
        PROVE  submitted'[watch'[v].id] = {}
    <3>1. v /= w /\ Open(v) /\ faults = 0 /\ ~Shared(v) /\ watch'[v].id = watch[v].id
      BY <2>1, <2>2, <2>3, <2>6 DEF Open
    <3> QED BY <1>1, <3>1 DEF AnchorInv
  <2> HIDE DEF Open, Shared
  <2> QED BY <1>1, <2>4, <2>5, <2>6 DEF AnchorInv
<1> QED BY <1>2, <1>3 DEF Complete

\* Every step of the run.
LEMMA RunAnchored ==
  ASSUME TypeInv, Driven, AnchorInv, Begin \/ RunStep
  PROVE  AnchorInv'
<1>1. RowsKeep
  BY CycleKeepsRows
<1>2. ASSUME UNCHANGED <<submitted, anchored>>, faults' \in {faults, faults + 1},
             \/ UNCHANGED <<cur, step, report>>
             \/ faults' > 0 /\ step' \notin {"await", "close"}
             \/ step \notin {"await", "close"} /\ step' \notin {"await", "close"},
             \A w \in Watch : \/ watch'[w] = watch[w]
                              \/ watch'[w].status = "monitoring" /\ Open(w)
      PROVE  AnchorInv'
  <2>1. \A w \in Watch : watch'[w].status = "completed" =>
          watch[w].status = "completed" /\ watch'[w].report = watch[w].report
    BY <1>2
  <2>2. \A w \in Watch : Open(w)' => Open(w)
    BY <1>2 DEF Open
  <2>3. \A i \in 0..Cardinality(Call) :
          anchored'[i] = anchored[i] \/ (anchored[i] = None /\ anchored'[i] \in submitted[i])
    BY <1>2
  <2> HIDE DEF Open
  <2> QED BY <1>1, <1>2, <2>1, <2>2, <2>3, AnchorQuiet
<1>3. CASE Begin \/ BeginMonitoring \/ BeginCompletion
  BY <1>2, <1>3 DEF Begin, BeginMonitoring, BeginCompletion, Enter, Fault, NoFault
<1>4. CASE EndRun
  BY <1>2, <1>4 DEF EndRun, RunRest, recordVars, Done, Driven
<1>5. ASSUME NEW w \in Watch, RowStep(w)
      PROVE  AnchorInv'
  <2>1. CASE Activate(w)
    <3>1. watch[w] \in WatchRow /\ watch[w].status = "accepted"
      BY <2>1, TakenRow DEF Activate, Driven
    <3>2. \A v \in Watch : watch'[v] = watch[v] \/ (watch'[v].status = "monitoring" /\ Open(v))
      <4>1. CASE UNCHANGED watch
        BY <4>1
      <4>2. CASE Put(w, [watch[w] EXCEPT !.status = "monitoring"])
        <5>1. watch \in [Watch -> WatchRow]
          BY DEF TypeInv, TypeOK, RecordsTyped
        <5>2. watch'[w].status = "monitoring" /\ \A v \in Watch \ {w} : watch'[v] = watch[v]
          BY <3>1, <4>2, <5>1, ActivatedRow, PutRow
        <5> QED BY <3>1, <5>2 DEF Open
      <4> QED BY <2>1, <4>1, <4>2 DEF Activate
    <3> QED BY <1>2, <2>1, <3>2 DEF Activate, Fault, NoFault
  <2>2. ASSUME NEW lost, NEW found,
               \/ CollectEvents(w, lost, found)
               \/ \E text \in Text : WriteReport(w, lost, found, text)
        PROVE  AnchorInv'
    <3>1. step = "none"
      BY <2>2 DEF CollectEvents, WriteReport, Driven
    <3> QED BY <1>2, <2>2, <3>1 DEF CollectEvents, WriteReport, AfterCollect, Collect, Fault, NoFault
  <2>3. CASE CollectFails(w)
    BY <1>2, <2>3 DEF CollectFails, Fault
  <2>4. CASE SendDm(w) \/ FoldEvents(w) \/ PrepareAlert(w) \/ PublishAlert(w)
    BY <1>2, <2>4
    DEF SendDm, FoldEvents, PrepareAlert, PublishAlert, Commit, recordVars, Fault, NoFault
  <2>5. CASE CommitMonitoring(w)
    <3>1. watch[w] \in WatchRow /\ watch[w].status = "monitoring"
      BY <2>5, TakenRow DEF CommitMonitoring, Driven, Talking
    <3>2. \A v \in Watch : watch'[v] = watch[v] \/ (watch'[v].status = "monitoring" /\ Open(v))
      <4>1. CASE UNCHANGED watch
        BY <4>1
      <4>2. CASE Put(w, Monitored(w))
        BY <3>1, <4>2, MonitoredRow, PutRow DEF TypeInv, TypeOK, RecordsTyped, Open
      <4> QED BY <2>5, <4>1, <4>2 DEF CommitMonitoring
    <3> QED BY <1>2, <2>5, <3>2 DEF CommitMonitoring, Leave, Fault, NoFault
  <2>6. CASE GiveUp(w)
    <3>1. faults' > 0 /\ faults' = faults + 1
      BY <2>6, CampaignOfRow DEF GiveUp, Fault
    <3> QED BY <1>2, <2>6, <3>1 DEF GiveUp, Leave
  <2> QED BY <1>5, <2>1, <2>2, <2>3, <2>4, <2>5, <2>6, SubmitAnchored, AnswerAnchored,
             CompleteAnchored
          DEF RowStep
<1> QED BY <1>3, <1>4, <1>5 DEF RunStep

LEMMA NextAnchored == TypeInv /\ Driven /\ AnchorInv /\ [Next]_vars => AnchorInv'
<1> SUFFICES ASSUME TypeInv, Driven, AnchorInv, [Next]_vars PROVE AnchorInv'
  OBVIOUS
<1>1. ASSUME UNCHANGED <<watch, submitted>>, faults' \in {faults, faults + 1},
             \A i \in 0..Cardinality(Call) :
               anchored'[i] = anchored[i] \/ (anchored[i] = None /\ anchored'[i] \in submitted[i]),
             \/ UNCHANGED <<cur, step, report>>
             \/ faults' > 0 /\ step' \notin {"await", "close"}
      PROVE  AnchorInv'
  <2>1. \A w \in Watch : Open(w)' => Open(w)
    BY <1>1 DEF Open
  <2>2. \A w \in Watch : watch'[w].status = "completed" =>
          watch[w].status = "completed" /\ watch'[w].report = watch[w].report
    BY <1>1
  <2> HIDE DEF Open
  <2> QED BY <1>1, <2>1, <2>2, UntouchedRowsKeep, AnchorQuiet
<1>2. CASE World /\ UNCHANGED cycleVars
  <2>1. CASE Tick \/ \E e \in Event : Track(e)
    BY <1>1, <1>2, <2>1 DEF Tick, Track, cycleVars, runVars
  <2>2. ASSUME NEW i \in DOMAIN submitted, NEW r \in submitted[i], Publish(i, r)
        PROVE  AnchorInv'
    <3>1. \A k \in 0..Cardinality(Call) :
            anchored'[k] = anchored[k] \/ (anchored[k] = None /\ anchored'[k] \in submitted[k])
      BY <2>2 DEF Publish, TypeInv, TypeOK, RecordsTyped
    <3> QED BY <1>1, <1>2, <2>2, <3>1 DEF Publish, cycleVars, runVars
  <2> QED BY <1>2, <2>1, <2>2 DEF World
<1>3. CASE Restart
  <2>1. faults' > 0 /\ faults' = faults + 1
    BY <1>3, CampaignOfRow DEF Restart, Fault
  <2> QED BY <1>1, <1>3, <2>1 DEF Restart, RunRest
<1>4. CASE UNCHANGED vars
  BY <1>1, <1>4 DEF vars, recordVars, cycleVars, runVars
<1> QED BY <1>2, <1>3, <1>4, AddedAnchored, RunAnchored DEF Next

LEMMA AlwaysAnchored == Spec => []AnchorInv
<1>1. Init => AnchorInv
  <2> SUFFICES ASSUME Init PROVE AnchorInv
    OBVIOUS
  <2>1. /\ \A w \in Watch : watch[w].status = "none" /\ watch[w].id \in 0..Cardinality(Call)
        /\ \A i \in 0..Cardinality(Call) : submitted[i] = {} /\ anchored[i] = None
        /\ step = "none"
    BY CallsCount DEF Init, RecordsInit, CycleInit, NoWatch
  <2> QED BY <2>1 DEF AnchorInv, Open
<1> QED BY <1>1, NextAnchored, AlwaysDriven, TypesKept, PTL DEF Spec

\* What a completed row says was published is what the chain holds, unless a call
\* failed, an answer was lost, or another row has the same campaign: for any
\* number of watches, calls, events, faults and restarts.
THEOREM ReportsAnchored == Spec => []AnchorExplained
<1>1. TypeInv /\ AnchorInv => AnchorExplained
  <2> SUFFICES ASSUME TypeInv, AnchorInv, NEW w \in Watch, watch[w].status = "completed"
               PROVE  /\ watch[w].report \in submitted[watch[w].id]
                      /\ \/ anchored[watch[w].id] = watch[w].report
                         \/ faults > 0
                         \/ Trackers(watch[w].id) /= {w}
    BY DEF AnchorExplained
  <2>1. Shared(w) => Trackers(watch[w].id) /= {w}
    BY DEF Shared, Trackers, Exists
  <2> QED BY <2>1 DEF AnchorInv
<1> QED BY <1>1, AlwaysAnchored, TypesKept, PTL

-----------------------------------------------------------------------------
(* What a report covers *)

Within(w, i) == feed[i].at < EndOf(w) /\ Matches(w, feed[i]) /\ InScan(w, i)

Covers(w, root) == \A i \in DOMAIN feed : Within(w, i) => feed[i].event \in root

\* A report in hand covers its campaign, which has ended, and so does that of a
\* completed row.
CoverInv ==
  /\ step \in Reporting => Covers(cur, report.root)
  /\ \A w \in Watch : watch[w].status = "completed" =>
       EndOf(w) <= now /\ Covers(w, watch[w].report.root)

\* The feed only grows, by what happens now; so a report of a campaign that has
\* ended goes on covering it.
FeedGrows ==
  \/ UNCHANGED feed
  \/ \E record \in FeedRow : record.at = now /\ feed' = Append(feed, record)

LEMMA FeedKeepsCover ==
  ASSUME TypeInv, FeedGrows, NEW w \in Watch, NEW root, Covers(w, root), EndOf(w) <= now,
         watch'[w].starts = watch[w].starts
  PROVE  /\ \A i \in DOMAIN feed' : (Within(w, i))' => feed'[i].event \in root
         /\ EndOf(w)' = EndOf(w)
<1>1. EndOf(w)' = EndOf(w) /\ EndOf(w) \in Nat /\ now \in Nat /\ watch[w].starts \in Nat
  BY ClockTyped DEF EndOf
<1>2. ASSUME NEW i \in DOMAIN feed', (Within(w, i))' PROVE feed'[i].event \in root
  <2>1. feed \in Seq(FeedRow)
    BY DEF TypeInv, TypeOK, RecordsTyped
  <2>2. CASE i \in DOMAIN feed
    <3>1. i \in Nat /\ \A j \in 1..i : j \in DOMAIN feed /\ feed'[j] = feed[j]
      BY <2>1, <2>2 DEF FeedGrows
    <3>2. {j \in 1..i : watch[w].starts <= feed[j].at} = {j \in 1..i : watch'[w].starts <= feed'[j].at}
      BY <3>1
    <3>3. feed'[i] = feed[i]
      BY <2>1, <2>2 DEF FeedGrows
    <3>4. (InScan(w, i))' => InScan(w, i)
      BY <1>1, <3>2, <3>3 DEF InScan
    <3>5. (Matches(w, feed[i]))' => Matches(w, feed[i])
      BY <1>1, <3>3 DEF Matches
    <3>6. Within(w, i)
      BY <1>1, <1>2, <3>3, <3>4, <3>5 DEF Within
    <3> QED BY <2>2, <3>3, <3>6 DEF Covers
  <2>3. CASE i \notin DOMAIN feed
    <3>1. feed'[i].at = now
      BY <1>2, <2>1, <2>3 DEF FeedGrows
    <3> QED BY <1>1, <1>2, <3>1 DEF Within
  <2> QED BY <2>2, <2>3
<1> QED BY <1>1, <1>2

\* A step that leaves reports alone, whatever it adds to the feed.
LEMMA CoverQuiet ==
  ASSUME TypeInv, Driven, CoverInv, FeedGrows, now' \in {now, now + 1},
         \A w \in Watch : Exists(w) => watch'[w].starts = watch[w].starts,
         step' \in Reporting => step \in Reporting /\ UNCHANGED <<cur, report>>,
         \A w \in Watch : watch'[w].status = "completed" =>
           watch[w].status = "completed" /\ watch'[w].report = watch[w].report
  PROVE  CoverInv'
<1>1. now \in Nat /\ started \in Nat /\ now <= now'
  BY ClockTyped
<1>2. ASSUME step' \in Reporting PROVE (Covers(cur, report.root))'
  <2>1. step \in Reporting /\ cur' = cur /\ report' = report
    BY <1>2
  <2>2. cur \in Watch /\ cur /= None /\ phase = "complete"
    BY <2>1, ClockTyped DEF Driven, Reporting, TypeInv, TypeOK, RunTyped
  <2>3. EndOf(cur) <= started /\ Exists(cur) /\ EndOf(cur) \in Nat
    BY <2>2, TakenRow, ClockTyped DEF Driven, Exists
  <2>4. EndOf(cur) <= now
    BY <1>1, <2>3 DEF Driven
  <2>5. Covers(cur, report.root)
    BY <2>1 DEF CoverInv
  <2>6. \A i \in DOMAIN feed' : (Within(cur, i))' => feed'[i].event \in report.root
    <3>1. \A w \in Watch : w = cur =>
            \A i \in DOMAIN feed' : (Within(w, i))' => feed'[i].event \in report.root
      BY <2>3, <2>4, <2>5, FeedKeepsCover
    <3> QED BY <2>1, <2>2, <3>1 DEF Within, Matches, InScan, EndOf
  <2> QED BY <2>1, <2>6 DEF Covers
<1>3. ASSUME NEW w \in Watch, watch'[w].status = "completed"
      PROVE  EndOf(w)' <= now' /\ (Covers(w, watch[w].report.root))'
  <2>1. watch[w].status = "completed" /\ watch'[w].report = watch[w].report /\ Exists(w)
    BY <1>3 DEF Exists
  <2>2. EndOf(w) <= now /\ EndOf(w) \in Nat /\ Covers(w, watch[w].report.root)
    BY <2>1, ClockTyped DEF CoverInv
  <2>3. /\ \A i \in DOMAIN feed' : (Within(w, i))' => feed'[i].event \in watch[w].report.root
        /\ EndOf(w)' = EndOf(w)
    BY <2>1, <2>2, FeedKeepsCover
  <2>4. EndOf(w)' <= now'
    BY <1>1, <2>2, <2>3
  <2> QED BY <2>1, <2>3, <2>4 DEF Covers
<1> QED BY <1>2, <1>3 DEF CoverInv

\* What is collected is recorded.
LEMMA CollectGrows ==
  ASSUME TypeInv, NEW w, NEW forced, NEW lost, NEW found, Collect(w, forced, lost, found)
  PROVE  /\ FeedGrows
         /\ Scanned(w) \subseteq matched'
         /\ faults' \in {faults, faults + 1} /\ (lost /= {} => faults' = faults + 1)
<1>1. now \in Nat
  BY DEF TypeInv, TypeOK, RecordsTyped
<1>2. FeedGrows
  <2>1. CASE found \in Captured \union {None}
    BY <2>1 DEF Collect, FeedGrows
  <2>2. CASE found \notin Captured \union {None}
    <3>1. [event |-> found, at |-> now, source |-> "scan"] \in FeedRow
      BY <1>1, <2>2 DEF Collect, FeedRow
    <3> QED BY <2>2, <3>1 DEF Collect, FeedGrows
  <2> QED BY <2>1, <2>2
<1> QED BY <1>2 DEF Collect, Fault, NoFault

\* A report is written of all that the window scan finds.
LEMMA WriteCovers ==
  ASSUME TypeInv, Driven, CoverInv, NEW w \in Watch, NEW lost, NEW found, NEW text,
         WriteReport(w, lost, found, text)
  PROVE  CoverInv'
<1>1. FeedGrows /\ Scanned(w) \subseteq matched'
  BY CollectGrows DEF WriteReport
<1>2. UNCHANGED <<watch, now>> /\ cur' = w /\ report'.root = matched' /\ w \in batch
      /\ phase = "complete"
  BY DEF WriteReport
<1>3. EndOf(w) <= started /\ started <= now /\ EndOf(w) \in Nat /\ started \in Nat /\ now \in Nat
  BY <1>2, ClockTyped DEF Driven
<1>4. EndOf(w) <= now
  BY <1>3
<1>5. Covers(w, matched')
  BY <1>1 DEF Covers, Within, Scanned
<1>6. (Covers(cur, report.root))'
  <2>1. \A i \in DOMAIN feed' : (Within(w, i))' => feed'[i].event \in matched'
    BY <1>1, <1>2, <1>4, <1>5, FeedKeepsCover
  <2> QED BY <1>2, <2>1 DEF Covers, Within, Matches, InScan, EndOf
<1>7. ASSUME NEW v \in Watch, watch'[v].status = "completed"
      PROVE  EndOf(v)' <= now' /\ (Covers(v, watch[v].report.root))'
  <2>1. EndOf(v) <= now /\ Covers(v, watch[v].report.root)
    BY <1>2, <1>7 DEF CoverInv
  <2>2. /\ \A i \in DOMAIN feed' : (Within(v, i))' => feed'[i].event \in watch[v].report.root
        /\ EndOf(v)' = EndOf(v)
    BY <1>1, <1>2, <2>1, FeedKeepsCover
  <2> QED BY <1>2, <2>1, <2>2 DEF Covers
<1> QED BY <1>6, <1>7 DEF CoverInv

\* The row is completed with it.
LEMMA CompleteCovers ==
  ASSUME TypeInv, Driven, CoverInv, NEW w \in Watch, Complete(w)
  PROVE  CoverInv'
<1>1. UNCHANGED <<feed, now>> /\ step' \notin Reporting /\ cur = w /\ step \in Reporting
  BY DEF Complete, Leave, Reporting
<1>2. FeedGrows
  BY <1>1 DEF FeedGrows
<1>3. CASE UNCHANGED watch
  BY <1>1, <1>2, <1>3, CoverQuiet
<1>4. CASE Put(w, Completed(w))
  <2>1. watch'[w].report = report /\ watch'[w].starts = watch[w].starts
        /\ \A v \in Watch \ {w} : watch'[v] = watch[v]
    BY <1>4 DEF Put, Completed, TypeInv, TypeOK, RecordsTyped, WatchRow
  <2>2. EndOf(w) <= now
    <3>1. EndOf(w) <= started /\ EndOf(w) \in Nat
      BY <1>1, ClockTyped DEF Driven
    <3> QED BY <3>1, ClockTyped DEF Driven
  <2>3. EndOf(w)' <= now' /\ (Covers(w, watch[w].report.root))'
    <3>1. Covers(w, report.root)
      BY <1>1 DEF CoverInv
    <3>2. /\ \A i \in DOMAIN feed' : (Within(w, i))' => feed'[i].event \in report.root
          /\ EndOf(w)' = EndOf(w)
      BY <1>2, <2>1, <2>2, <3>1, FeedKeepsCover
    <3> QED BY <1>1, <2>1, <2>2, <3>2 DEF Covers
  <2>4. ASSUME NEW v \in Watch \ {w}, watch'[v].status = "completed"
        PROVE  EndOf(v)' <= now' /\ (Covers(v, watch[v].report.root))'
    <3>1. EndOf(v) <= now /\ Covers(v, watch[v].report.root) /\ watch'[v] = watch[v]
      BY <2>1, <2>4 DEF CoverInv
    <3>2. /\ \A i \in DOMAIN feed' : (Within(v, i))' => feed'[i].event \in watch[v].report.root
          /\ EndOf(v)' = EndOf(v)
      BY <1>2, <3>1, FeedKeepsCover
    <3> QED BY <1>1, <3>1, <3>2 DEF Covers
  <2> QED BY <1>1, <2>3, <2>4 DEF CoverInv
<1> QED BY <1>3, <1>4 DEF Complete

LEMMA NextCovered == TypeInv /\ Driven /\ CoverInv /\ [Next]_vars => CoverInv'
<1> SUFFICES ASSUME TypeInv, Driven, CoverInv, [Next]_vars PROVE CoverInv'
  OBVIOUS
<1>1. ASSUME FeedGrows, UNCHANGED now,
             \A w \in Watch : watch'[w].starts = watch[w].starts,
             step' \in Reporting => step \in Reporting /\ UNCHANGED <<cur, report>>,
             \A w \in Watch : watch'[w] = watch[w] \/ watch'[w].status = "monitoring"
      PROVE  CoverInv'
  <2>1. \A w \in Watch : watch'[w].status = "completed" =>
          watch[w].status = "completed" /\ watch'[w].report = watch[w].report
    BY <1>1
  <2> QED BY <1>1, <2>1, CoverQuiet
<1>2. CASE Begin \/ RunStep
  <2>1. \A w \in Watch : watch'[w].starts = watch[w].starts
    BY <1>2, CycleKeepsRows DEF RowsKeep, Same
  <2>2. CASE Begin \/ BeginMonitoring \/ BeginCompletion \/ EndRun
    BY <1>1, <2>2
    DEF Begin, BeginMonitoring, BeginCompletion, EndRun, Enter, RunRest, recordVars, FeedGrows,
        Reporting
  <2>3. ASSUME NEW w \in Watch, RowStep(w)
        PROVE  CoverInv'
    <3>1. watch[w] \in WatchRow /\ watch \in [Watch -> WatchRow]
      BY DEF TypeInv, TypeOK, RecordsTyped
    <3>2. CASE Activate(w)
      <4>1. \A v \in Watch : watch'[v] = watch[v] \/ watch'[v].status = "monitoring"
        <5>1. CASE UNCHANGED watch
          BY <5>1
        <5>2. CASE Put(w, [watch[w] EXCEPT !.status = "monitoring"])
          <6>1. /\ watch'[w].status = "monitoring"
                /\ \A v \in Watch \ {w} : watch'[v] = watch[v]
            BY <3>1, <5>2, ActivatedRow, PutRow
          <6> QED BY <6>1
        <5> QED BY <3>2, <5>1, <5>2 DEF Activate
      <4> QED BY <1>1, <2>1, <3>2, <4>1 DEF Activate, FeedGrows
    <3>3. ASSUME NEW lost, NEW found, CollectEvents(w, lost, found) PROVE CoverInv'
      <4>1. FeedGrows
        BY <3>3, CollectGrows DEF CollectEvents
      <4>2. step' \notin Reporting
        BY <3>3 DEF CollectEvents, AfterCollect, Reporting
      <4> QED BY <1>1, <2>1, <3>3, <4>1, <4>2 DEF CollectEvents
    <3>4. CASE CollectFails(w)
      BY <1>1, <2>1, <3>4 DEF CollectFails, FeedGrows
    <3>5. CASE SendDm(w) \/ FoldEvents(w) \/ PrepareAlert(w) \/ PublishAlert(w)
      BY <1>1, <2>1, <3>5
      DEF SendDm, FoldEvents, PrepareAlert, PublishAlert, Commit, recordVars, FeedGrows, Reporting
    <3>6. CASE CommitMonitoring(w)
      <4>1. \A v \in Watch : watch'[v] = watch[v] \/ watch'[v].status = "monitoring"
        <5>1. CASE UNCHANGED watch
          BY <5>1
        <5>2. CASE Put(w, Monitored(w))
          BY <3>1, <5>2, MonitoredRow, PutRow DEF TypeInv
        <5> QED BY <3>6, <5>1, <5>2 DEF CommitMonitoring
      <4> QED BY <1>1, <2>1, <3>6, <4>1 DEF CommitMonitoring, Leave, FeedGrows, Reporting
    <3>7. CASE Submit(w) \/ Confirmed(w) \/ Refused(w) \/ Hashless(w) \/ GiveUp(w)
      BY <1>1, <2>1, <3>7
      DEF Submit, Confirmed, Refused, Hashless, ToClose, GiveUp, Leave, FeedGrows, Reporting
    <3> QED BY <2>3, <3>2, <3>3, <3>4, <3>5, <3>6, <3>7, WriteCovers, CompleteCovers DEF RowStep
  <2> QED BY <1>2, <2>2, <2>3 DEF RunStep
<1>3. CASE (\E c \in Call : CallStep(c)) /\ UNCHANGED cycleVars
  <2>1. PICK c \in Call : CallStep(c)
    BY <1>3
  <2>2. UNCHANGED <<now, feed, cur, step, report>>
        /\ \A w \in Watch : Exists(w) => watch'[w] = watch[w]
    BY <1>3, <2>1, CallRows, CallKeepsRows DEF cycleVars, runVars
  <2>3. \A w \in Watch : watch'[w].status = "completed" =>
          watch[w].status = "completed" /\ watch'[w].report = watch[w].report
    BY <2>1, CallRows, AddedRow
  <2> QED BY <2>2, <2>3, CoverQuiet DEF FeedGrows
<1>4. CASE World /\ UNCHANGED cycleVars
  <2>1. FeedGrows
    <3>1. ASSUME NEW e \in Event, Track(e) PROVE FeedGrows
      <4>1. [event |-> e, at |-> now, source |-> "tracker"] \in FeedRow
        BY ClockTyped DEF FeedRow
      <4> QED BY <3>1, <4>1 DEF Track, FeedGrows
    <3> QED BY <1>4, <3>1 DEF World, Tick, Publish, FeedGrows
  <2>2. UNCHANGED <<watch, cur, step, report>> /\ now' \in {now, now + 1}
    BY <1>4 DEF World, Tick, Publish, Track, cycleVars, runVars
  <2> QED BY <2>1, <2>2, CoverQuiet
<1>5. CASE Restart
  BY <1>1, <1>5 DEF Restart, RunRest, FeedGrows, Reporting
<1>6. CASE UNCHANGED vars
  BY <1>1, <1>6 DEF vars, recordVars, cycleVars, runVars, FeedGrows
<1> QED BY <1>2, <1>3, <1>4, <1>5, <1>6 DEF Next

\* The report of a completed campaign covers every event of its target that was
\* recorded while it ran, within the limit of the window scan: for any number of
\* watches and events, whatever was recorded after the campaign and whatever
\* failed.
THEOREM ReportsCover == Spec => []ReportCovers
<1>1. Init => CoverInv
  BY DEF Init, RecordsInit, CycleInit, NoWatch, CoverInv, Reporting
<1>2. CoverInv => ReportCovers
  BY DEF CoverInv, Covers, Within, ReportCovers
<1> QED BY <1>1, <1>2, NextCovered, AlwaysDriven, TypesKept, PTL DEF Spec
-----------------------------------------------------------------------------
(* What is told *)

\* The events are explained: told, or kept silent about by design, or gone with
\* an older alert.
Explained(w, events) ==
  /\ events \subseteq dmed[w] \union posted[w] \union folded[w] \union rode[w]
  /\ watch[w].audience = "private" => events \subseteq dmed[w]

\* A cursor holds what is explained, and so does what a run is about to put
\* there, whatever failed.
HeardInv ==
  /\ \A w \in Watch : ~Exists(w) =>
       /\ dmed[w] = {} /\ posted[w] = {} /\ folded[w] = {} /\ rode[w] = {}
       /\ \A e \in Event : alert[w][e].status = "none"
  /\ \A w \in Watch : watch[w].status /= "completed" => Explained(w, watch[w].cursor)
  /\ \A w \in Watch : watch[w].audience = "bound" => folded[w] = {}
  /\ step \in {"decide", "publish"} => watch[cur].audience /= "private"
  /\ step = "decide" /\ dmOk = "yes" /\ watch[cur].audience = "bound"
       => New(cur) \subseteq dmed[cur]
  /\ step = "commit_new" => Explained(cur, matched)

\* What a row has come to when the run is at one of the steps with it.
Upto(w, steps) == IF w = cur /\ step \in steps THEN matched ELSE watch[w].cursor

\* Without a fault nothing was told that the cursor does not hold, but for the
\* row at hand, and nothing was told twice.
CalmInv ==
  /\ step /= "commit_old"
  /\ step \in Talking => watch[cur].cursor \subseteq matched /\ matched \subseteq Captured
  /\ step \in {"dm", "decide", "publish"} => primary \in New(cur)
  /\ step = "decide" /\ watch[cur].audience /= "public" => dmOk = "yes"
  /\ step = "publish" => alert[cur][primary].text = New(cur)
  /\ \A w \in Watch : repeated[w] = {} /\ rode[w] = {}
  /\ \A w \in Watch : watch[w].status /= "completed" =>
       /\ watch[w].cursor \subseteq Captured
       /\ dmed[w] \subseteq Upto(w, {"decide", "publish", "commit_new"})
       /\ posted[w] \subseteq Upto(w, {"commit_new"})
       /\ \A e \in Event : alert[w][e].status /= "none" => e \in Upto(w, {"publish", "commit_new"})

TellInv == HeardInv /\ (faults = 0 => CalmInv)

\* A row the run talks about is monitored.
LEMMA TalkedRow ==
  ASSUME TypeInv, Driven, step \in Talking
  PROVE  /\ cur \in Watch /\ Exists(cur) /\ watch[cur].status = "monitoring"
         /\ watch[cur] \in WatchRow
<1>1. cur \in Watch
  BY DEF Driven, Talking, TypeInv, TypeOK, RunTyped
<1>2. phase = "monitor"
  BY DEF Driven
<1>3. watch[cur].status = "monitoring"
  BY <1>1, <1>2 DEF Driven
<1> QED BY <1>1, <1>3 DEF Exists, TypeInv, TypeOK, RecordsTyped

\* Faults are counted.
LEMMA Faultless ==
  ASSUME TypeInv, faults' \in {faults, faults + 1}
  PROVE  faults' = 0 => faults = 0
BY CampaignOfRow

\* A step that tells nobody anything and moves no cursor.
LEMMA TellQuiet ==
  ASSUME TypeInv, Driven, TellInv, UNCHANGED <<ghostVars, alert>>, Captured \subseteq Captured',
         faults' \in {faults, faults + 1},
         \A w \in Watch : Exists(w) =>
           /\ Exists(w)' /\ watch'[w].audience = watch[w].audience
           /\ watch'[w].status /= "completed" =>
                watch[w].status /= "completed" /\ watch'[w].cursor = watch[w].cursor,
         \A w \in Watch : ~Exists(w) => watch'[w] = watch[w] \/ watch'[w].cursor = {},
         \/ /\ UNCHANGED <<step, cur, matched, primary, dmOk>>
            /\ \A w \in Watch : Exists(w) => watch'[w] = watch[w]
         \/ step' \notin Talking /\ (step \notin Talking \/ faults' > 0)
  PROVE  TellInv'
<1>1. UNCHANGED <<dmed, posted, folded, rode, repeated, alert>>
  BY DEF ghostVars
<1>2. ASSUME step' \in Talking
      PROVE  /\ step \in Talking /\ UNCHANGED <<step, cur, matched, primary, dmOk>>
             /\ cur \in Watch /\ watch'[cur] = watch[cur]
  BY <1>2, TalkedRow
<1>3. HeardInv'
  <2>1. ASSUME NEW w \in Watch
        PROVE  /\ ~Exists(w)' =>
                    /\ dmed[w] = {} /\ posted[w] = {} /\ folded[w] = {} /\ rode[w] = {}
                    /\ \A e \in Event : alert[w][e].status = "none"
               /\ watch'[w].status /= "completed" => (Explained(w, watch[w].cursor))'
               /\ watch'[w].audience = "bound" => folded[w] = {}
    <3>1. CASE Exists(w)
      BY <1>1, <2>1, <3>1 DEF TellInv, HeardInv, Explained
    <3>2. CASE ~Exists(w)
      <4>1. dmed[w] = {} /\ posted[w] = {} /\ folded[w] = {} /\ rode[w] = {}
            /\ \A e \in Event : alert[w][e].status = "none"
        BY <2>1, <3>2 DEF TellInv, HeardInv
      <4>2. CASE watch'[w].cursor = {}
        BY <1>1, <4>1, <4>2 DEF Explained
      <4>3. CASE watch'[w] = watch[w]
        BY <1>1, <2>1, <3>2, <4>1, <4>3 DEF TellInv, HeardInv, Explained, Exists
      <4> QED BY <2>1, <3>2, <4>2, <4>3
    <3> QED BY <3>1, <3>2
  <2>2. /\ step' \in {"decide", "publish"} => watch'[cur'].audience /= "private"
        /\ step' = "decide" /\ dmOk' = "yes" /\ watch'[cur'].audience = "bound"
             => (New(cur) \subseteq dmed[cur])'
        /\ step' = "commit_new" => (Explained(cur, matched))'
    BY <1>1, <1>2 DEF TellInv, HeardInv, Explained, New, Talking
  <2> QED BY <1>1, <2>1, <2>2 DEF HeardInv
<1>4. ASSUME faults' = 0 PROVE CalmInv'
  <2>1. CalmInv /\ (step' \notin Talking => step \notin Talking)
    BY <1>4, Faultless DEF TellInv
  <2>2. /\ step' /= "commit_old"
        /\ step' \in Talking => (watch[cur].cursor \subseteq matched)' /\ (matched \subseteq Captured)'
        /\ step' \in {"dm", "decide", "publish"} => (primary \in New(cur))'
        /\ step' = "decide" /\ watch'[cur'].audience /= "public" => dmOk' = "yes"
        /\ step' = "publish" => (alert[cur][primary].text = New(cur))'
        /\ \A w \in Watch : repeated'[w] = {} /\ rode'[w] = {}
    BY <1>1, <1>2, <2>1 DEF CalmInv, New, Talking
  <2>3. ASSUME NEW w \in Watch, watch'[w].status /= "completed"
        PROVE  /\ (watch[w].cursor \subseteq Captured)'
               /\ (dmed[w] \subseteq Upto(w, {"decide", "publish", "commit_new"}))'
               /\ (posted[w] \subseteq Upto(w, {"commit_new"}))'
               /\ \A e \in Event : alert'[w][e].status /= "none"
                    => (e \in Upto(w, {"publish", "commit_new"}))'
    <3>1. CASE Exists(w)
      <4>1. /\ watch[w].status /= "completed" /\ watch'[w].cursor = watch[w].cursor
        BY <2>3, <3>1
      <4>2. \A steps \in SUBSET Talking : (Upto(w, steps))' = Upto(w, steps)
        BY <1>2, <2>1, <4>1 DEF Upto
      <4>3. {"decide", "publish", "commit_new"} \in SUBSET Talking
            /\ {"commit_new"} \in SUBSET Talking /\ {"publish", "commit_new"} \in SUBSET Talking
        BY DEF Talking
      <4> HIDE DEF Upto
      <4> QED BY <1>1, <2>1, <4>1, <4>2, <4>3 DEF CalmInv
    <3>2. CASE ~Exists(w)
      <4>1. dmed[w] = {} /\ posted[w] = {} /\ \A e \in Event : alert[w][e].status = "none"
        BY <2>3, <3>2 DEF TellInv, HeardInv
      <4>2. watch'[w].cursor \subseteq Captured
        BY <2>1, <2>3, <3>2 DEF CalmInv, Exists
      <4> QED BY <1>1, <4>1, <4>2
    <3> QED BY <3>1, <3>2
  <2> QED BY <2>2, <2>3 DEF CalmInv
<1> QED BY <1>3, <1>4 DEF TellInv

\* A step of the run with a row, which stays as it is: what is left to show is
\* about that row.
LEMMA RowHeard ==
  ASSUME TypeInv, Driven, HeardInv, NEW w \in Watch, cur = w, cur' = w, UNCHANGED watch,
         Exists(w),
         \A v \in Watch \ {w} : /\ dmed'[v] = dmed[v] /\ posted'[v] = posted[v]
                                /\ folded'[v] = folded[v] /\ rode'[v] = rode[v]
                                /\ alert'[v] = alert[v],
         dmed[w] \subseteq dmed'[w], posted[w] \subseteq posted'[w],
         folded[w] \subseteq folded'[w], rode[w] \subseteq rode'[w],
         watch[w].audience = "bound" => folded'[w] = {},
         step' \in {"decide", "publish"} => watch[w].audience /= "private",
         step' = "decide" /\ dmOk' = "yes" /\ watch[w].audience = "bound"
           => (New(w) \subseteq dmed[w])',
         step' = "commit_new" => (Explained(w, matched))'
  PROVE  HeardInv'
<1>1. \A v \in Watch : ~Exists(v)' =>
        /\ dmed'[v] = {} /\ posted'[v] = {} /\ folded'[v] = {} /\ rode'[v] = {}
        /\ \A e \in Event : alert'[v][e].status = "none"
  BY DEF HeardInv, Exists
<1>2. \A v \in Watch : watch'[v].status /= "completed" => (Explained(v, watch[v].cursor))'
  BY DEF HeardInv, Explained
<1>3. \A v \in Watch : watch'[v].audience = "bound" => folded'[v] = {}
  BY DEF HeardInv
<1>4. step' = "decide" /\ dmOk' = "yes" /\ watch'[cur'].audience = "bound"
        => (New(cur) \subseteq dmed[cur])'
  BY DEF New
<1>5. step' = "commit_new" => (Explained(cur, matched))'
  BY DEF Explained
<1> QED BY <1>1, <1>2, <1>3, <1>4, <1>5 DEF HeardInv

LEMMA RowCalm ==
  ASSUME TypeInv, Driven, CalmInv, NEW w \in Watch, cur = w, cur' = w,
         UNCHANGED <<watch, feed, matched, primary>>, step \in Talking, step' \in Talking,
         step' /= "commit_old",
         step' \in {"dm", "decide", "publish"} => step \in {"dm", "decide", "publish"},
         \A v \in Watch \ {w} : /\ dmed'[v] = dmed[v] /\ posted'[v] = posted[v]
                                /\ repeated'[v] = repeated[v] /\ rode'[v] = rode[v]
                                /\ alert'[v] = alert[v],
         repeated'[w] = {}, rode'[w] = {},
         dmed'[w] \subseteq (Upto(w, {"decide", "publish", "commit_new"}))',
         posted'[w] \subseteq (Upto(w, {"commit_new"}))',
         \A e \in Event : alert'[w][e].status /= "none"
           => e \in (Upto(w, {"publish", "commit_new"}))',
         step' = "decide" /\ watch[w].audience /= "public" => dmOk' = "yes",
         step' = "publish" => alert'[w][primary].text = New(w)
  PROVE  CalmInv'
<1>1. /\ step' \in Talking => (watch[cur].cursor \subseteq matched)' /\ (matched \subseteq Captured)'
      /\ step' \in {"dm", "decide", "publish"} => (primary \in New(cur))'
      /\ step' = "publish" => (alert[cur][primary].text = New(cur))'
      /\ step' = "decide" /\ watch'[cur'].audience /= "public" => dmOk' = "yes"
  BY DEF CalmInv, New, Captured
<1>2. \A v \in Watch : repeated'[v] = {} /\ rode'[v] = {}
  BY DEF CalmInv
<1>3. ASSUME NEW v \in Watch, watch'[v].status /= "completed"
      PROVE  /\ (watch[v].cursor \subseteq Captured)'
             /\ (dmed[v] \subseteq Upto(v, {"decide", "publish", "commit_new"}))'
             /\ (posted[v] \subseteq Upto(v, {"commit_new"}))'
             /\ \A e \in Event : alert'[v][e].status /= "none"
                  => (e \in Upto(v, {"publish", "commit_new"}))'
  <2>1. (watch[v].cursor \subseteq Captured)'
    BY <1>3 DEF CalmInv, Captured
  <2>2. CASE v = w
    BY <2>1, <2>2
  <2>3. CASE v /= w
    BY <1>3, <2>1, <2>3 DEF CalmInv, Upto
  <2> QED BY <2>2, <2>3
<1> QED BY <1>1, <1>2, <1>3 DEF CalmInv

LEMMA TellRow ==
  ASSUME TypeInv, NEW w \in Watch, NEW heard, NEW events, Tell(w, heard, events)
  PROVE  /\ repeated'[w] = repeated[w] \union (heard \intersect events)
         /\ \A v \in Watch \ {w} : repeated'[v] = repeated[v]
BY DEF Tell, TypeInv, TypeOK, GhostsTyped

LEMMA SendDmTold ==
  ASSUME TypeInv, Driven, TellInv, NEW w \in Watch, SendDm(w)
  PROVE  TellInv'
<1>1. /\ step = "dm" /\ cur = w /\ cur' = w /\ faults' \in {faults, faults + 1}
      /\ UNCHANGED <<watch, alert, feed, matched, primary, posted, folded, rode>>
      /\ watch[w].status = "monitoring" /\ Exists(w)
      /\ step' \in {"decide", "commit_new", "commit_old"}
      /\ step \in Talking /\ step' \in Talking
  BY TalkedRow DEF SendDm, Commit, Fault, NoFault, Talking
<1>2. /\ \A v \in Watch \ {w} : dmed'[v] = dmed[v] /\ repeated'[v] = repeated[v]
      /\ \/ /\ dmed'[w] = dmed[w] \union New(w)
            /\ repeated'[w] = repeated[w] \union (dmed[w] \intersect New(w))
         \/ dmOk' = "no" /\ dmed'[w] = dmed[w] /\ repeated'[w] = repeated[w]
  BY TellRow DEF SendDm, TypeInv, TypeOK, GhostsTyped
<1>3. New(w)' = New(w) /\ matched \subseteq watch[w].cursor \union New(w)
  BY <1>1 DEF New
<1>4. HeardInv'
  <2>1. step' \in {"decide", "publish"} => watch[w].audience /= "private"
    BY DEF SendDm, Commit
  <2>2. step' = "commit_new" => (Explained(w, matched))'
    <3> SUFFICES ASSUME step' = "commit_new" PROVE (Explained(w, matched))'
      OBVIOUS
    <3>1. watch[w].audience = "private" /\ dmOk' = "yes"
      BY DEF SendDm, Commit
    <3>2. watch[w].cursor \subseteq dmed[w]
      BY <1>1, <3>1 DEF TellInv, HeardInv, Explained
    <3> QED BY <1>1, <1>2, <1>3, <3>1, <3>2 DEF Explained
  <2>3. watch[w].audience = "bound" => folded'[w] = {}
    BY <1>1 DEF TellInv, HeardInv
  <2> QED BY <1>1, <1>2, <1>3, <2>1, <2>2, <2>3, RowHeard DEF TellInv
<1>5. ASSUME faults' = 0 PROVE CalmInv'
  <2>1. CalmInv
    BY <1>1, <1>5, Faultless DEF TellInv
  <2>2. dmOk' = "yes" /\ step' \in {"decide", "commit_new"}
    BY <1>5, CampaignOfRow DEF SendDm, Commit, Fault
  <2>3. /\ dmed[w] \subseteq watch[w].cursor /\ posted[w] \subseteq watch[w].cursor
        /\ \A e \in Event : alert[w][e].status /= "none" => e \in watch[w].cursor
        /\ watch[w].cursor \subseteq matched /\ repeated[w] = {} /\ rode[w] = {}
    BY <1>1, <2>1 DEF CalmInv, Upto
  <2>4. New(w) \subseteq matched /\ dmed[w] \intersect New(w) = {}
    BY <2>3 DEF New
  <2>5. repeated'[w] = {} /\ dmed'[w] \subseteq matched
    BY <1>2, <2>2, <2>3, <2>4
  <2>6. /\ dmed'[w] \subseteq (Upto(w, {"decide", "publish", "commit_new"}))'
        /\ posted'[w] \subseteq (Upto(w, {"commit_new"}))'
        /\ \A e \in Event : alert'[w][e].status /= "none"
             => e \in (Upto(w, {"publish", "commit_new"}))'
    BY <1>1, <2>2, <2>3, <2>5 DEF Upto
  <2> HIDE DEF Upto
  <2> QED BY <1>1, <1>2, <2>1, <2>2, <2>3, <2>5, <2>6, RowCalm
<1> QED BY <1>4, <1>5 DEF TellInv

LEMMA FoldTold ==
  ASSUME TypeInv, Driven, TellInv, NEW w \in Watch, FoldEvents(w)
  PROVE  TellInv'
<1>1. /\ step = "decide" /\ cur = w /\ cur' = w /\ UNCHANGED faults
      /\ UNCHANGED <<watch, alert, feed, matched, primary, dmOk, dmed, posted, rode, repeated>>
      /\ watch[w].status = "monitoring" /\ Exists(w)
      /\ step' \in {"commit_new", "commit_old"}
      /\ step \in Talking /\ step' \in Talking
  BY TalkedRow DEF FoldEvents, Commit, recordVars, Talking
<1>2. /\ \A v \in Watch \ {w} : folded'[v] = folded[v]
      /\ \/ watch[w].audience = "bound" /\ folded'[w] = folded[w] /\ step' = Commit(dmOk = "yes")
         \/ /\ watch[w].audience /= "bound" /\ step' = "commit_new"
            /\ folded'[w] = folded[w] \union New(w)
  BY DEF FoldEvents, TypeInv, TypeOK, GhostsTyped
<1>3. matched \subseteq watch[w].cursor \union New(w)
      /\ watch[w].audience /= "private"
      /\ watch[w].cursor \subseteq dmed[w] \union posted[w] \union folded[w] \union rode[w]
  BY <1>1 DEF New, TellInv, HeardInv, Explained
<1>4. HeardInv'
  <2>1. step' = "commit_new" => (Explained(w, matched))'
    <3>1. step' = "commit_new" /\ watch[w].audience = "bound" => New(w) \subseteq dmed[w]
      BY <1>1, <1>2 DEF TellInv, HeardInv, Commit
    <3> QED BY <1>1, <1>2, <1>3, <3>1 DEF Explained
  <2>2. watch[w].audience = "bound" => folded'[w] = {}
    BY <1>2 DEF TellInv, HeardInv
  <2> QED BY <1>1, <1>2, <2>1, <2>2, RowHeard DEF TellInv
<1>5. ASSUME faults' = 0 PROVE CalmInv'
  <2>1. CalmInv
    BY <1>1, <1>5 DEF TellInv
  <2>2. step' = "commit_new"
    BY <1>1, <1>2, <2>1 DEF CalmInv, Commit
  <2>3. /\ dmed[w] \subseteq matched /\ posted[w] \subseteq watch[w].cursor
        /\ \A e \in Event : alert[w][e].status /= "none" => e \in watch[w].cursor
        /\ watch[w].cursor \subseteq matched /\ repeated[w] = {} /\ rode[w] = {}
    BY <1>1, <2>1 DEF CalmInv, Upto
  <2>4. /\ dmed'[w] \subseteq (Upto(w, {"decide", "publish", "commit_new"}))'
        /\ posted'[w] \subseteq (Upto(w, {"commit_new"}))'
        /\ \A e \in Event : alert'[w][e].status /= "none"
             => e \in (Upto(w, {"publish", "commit_new"}))'
    BY <1>1, <2>2, <2>3 DEF Upto
  <2> HIDE DEF Upto
  <2> QED BY <1>1, <2>1, <2>2, <2>3, <2>4, RowCalm
<1> QED BY <1>4, <1>5 DEF TellInv

LEMMA PrepareTold ==
  ASSUME TypeInv, Driven, TellInv, NEW w \in Watch, PrepareAlert(w)
  PROVE  TellInv'
<1>1. /\ step = "decide" /\ cur = w /\ cur' = w /\ faults' \in {faults, faults + 1}
      /\ UNCHANGED <<watch, feed, matched, primary, dmOk, dmed, posted, folded, rode, repeated>>
      /\ watch[w].status = "monitoring" /\ Exists(w)
      /\ step' \in {"publish", "commit_old"}
      /\ step \in Talking /\ step' \in Talking
  BY TalkedRow DEF PrepareAlert, ghostVars, Fault, NoFault, Talking
<1>2. primary \in Event
  BY <1>1 DEF TypeInv, Placed
<1>3. /\ \A v \in Watch \ {w} : alert'[v] = alert[v]
      /\ \/ /\ alert'[w][primary] = [status |-> "queued", text |-> New(w)]
            /\ \A e \in Event \ {primary} : alert'[w][e] = alert[w][e]
         \/ (alert[w][primary].status /= "none" \/ step' = "commit_old") /\ alert' = alert
  BY <1>2 DEF PrepareAlert, TypeInv, TypeOK, RecordsTyped
<1>4. HeardInv'
  <2>1. watch[w].audience /= "private" /\ (watch[w].audience = "bound" => folded[w] = {})
    BY <1>1 DEF TellInv, HeardInv
  <2> QED BY <1>1, <1>3, <2>1, RowHeard DEF TellInv
<1>5. ASSUME faults' = 0 PROVE CalmInv'
  <2>1. CalmInv
    BY <1>1, <1>5, Faultless DEF TellInv
  <2>2. step' = "publish"
    BY <1>5, CampaignOfRow DEF PrepareAlert, Fault
  <2>3. /\ dmed[w] \subseteq matched /\ posted[w] \subseteq watch[w].cursor
        /\ \A e \in Event : alert[w][e].status /= "none" => e \in watch[w].cursor
        /\ watch[w].cursor \subseteq matched /\ repeated[w] = {} /\ rode[w] = {}
        /\ primary \in New(w)
    BY <1>1, <2>1 DEF CalmInv, Upto
  <2>4. New(w) \subseteq matched /\ primary \notin watch[w].cursor
    BY <2>3 DEF New
  <2>5. /\ alert'[w][primary] = [status |-> "queued", text |-> New(w)]
        /\ \A e \in Event \ {primary} : alert'[w][e] = alert[w][e]
    BY <1>2, <1>3, <2>2, <2>3, <2>4
  <2>6. /\ alert'[w][primary].text = New(w)
        /\ \A e \in Event : alert'[w][e].status /= "none" => e \in matched
    BY <2>3, <2>4, <2>5
  <2>7. /\ dmed'[w] \subseteq (Upto(w, {"decide", "publish", "commit_new"}))'
        /\ posted'[w] \subseteq (Upto(w, {"commit_new"}))'
        /\ \A e \in Event : alert'[w][e].status /= "none"
             => e \in (Upto(w, {"publish", "commit_new"}))'
    BY <1>1, <2>2, <2>3, <2>6 DEF Upto
  <2> HIDE DEF Upto
  <2> QED BY <1>1, <1>3, <2>1, <2>2, <2>3, <2>6, <2>7, RowCalm
<1> QED BY <1>4, <1>5 DEF TellInv

LEMMA PublishTold ==
  ASSUME TypeInv, Driven, TellInv, NEW w \in Watch, PublishAlert(w)
  PROVE  TellInv'
<1> DEFINE text == alert[w][primary].text
<1>1. /\ step = "publish" /\ cur = w /\ cur' = w /\ faults' \in {faults, faults + 1}
      /\ UNCHANGED <<watch, feed, matched, primary, dmOk, dmed, folded>>
      /\ watch[w].status = "monitoring" /\ Exists(w)
      /\ step' \in {"commit_new", "commit_old"}
      /\ step \in Talking /\ step' \in Talking
  BY TalkedRow DEF PublishAlert, Fault, NoFault, Talking
<1>2. primary \in Event
  BY <1>1 DEF TypeInv, Placed
<1>3. /\ \A v \in Watch \ {w} : rode'[v] = rode[v]
      /\ rode'[w] = rode[w] \union (New(w) \ text)
  BY DEF PublishAlert, TypeInv, TypeOK, GhostsTyped
<1>4. \/ /\ alert' = [alert EXCEPT ![w][primary].status = "published"]
         /\ Tell(w, posted[w], text)
         /\ posted' = [posted EXCEPT ![w] = @ \union text]
      \/ step' = "commit_old" /\ UNCHANGED <<alert, posted, repeated, spoke>>
  BY DEF PublishAlert
<1>5. /\ \A v \in Watch \ {w} : /\ alert'[v] = alert[v] /\ posted'[v] = posted[v]
                                /\ repeated'[v] = repeated[v]
      /\ \A e \in Event \ {primary} : alert'[w][e] = alert[w][e]
      /\ \/ /\ posted'[w] = posted[w] \union text
            /\ repeated'[w] = repeated[w] \union (posted[w] \intersect text)
         \/ step' = "commit_old" /\ posted'[w] = posted[w] /\ repeated'[w] = repeated[w]
  <2>1. posted \in [Watch -> SUBSET Event] /\ alert \in [Watch -> [Event -> AlertRow]]
    BY DEF TypeInv, TypeOK, RecordsTyped, GhostsTyped
  <2> HIDE DEF text
  <2>2. CASE step' = "commit_old" /\ UNCHANGED <<alert, posted, repeated, spoke>>
    BY <2>2
  <2>3. CASE /\ alert' = [alert EXCEPT ![w][primary].status = "published"]
             /\ Tell(w, posted[w], text)
             /\ posted' = [posted EXCEPT ![w] = @ \union text]
    <3>1. /\ repeated'[w] = repeated[w] \union (posted[w] \intersect text)
          /\ \A v \in Watch \ {w} : repeated'[v] = repeated[v]
      BY <2>3, TellRow
    <3> QED BY <1>2, <2>1, <2>3, <3>1
  <2> QED BY <1>4, <2>2, <2>3
<1>6. matched \subseteq watch[w].cursor \union New(w)
      /\ watch[w].audience /= "private"
      /\ watch[w].cursor \subseteq dmed[w] \union posted[w] \union folded[w] \union rode[w]
      /\ (watch[w].audience = "bound" => folded[w] = {})
  BY <1>1 DEF New, TellInv, HeardInv, Explained
<1> HIDE DEF text
<1>7. HeardInv'
  <2>1. step' = "commit_new" => (Explained(w, matched))'
    BY <1>1, <1>3, <1>5, <1>6 DEF Explained
  <2>2. /\ posted[w] \subseteq posted'[w] /\ rode[w] \subseteq rode'[w]
        /\ step' \notin {"decide", "publish"}
    BY <1>1, <1>3, <1>5
  <2> QED BY <1>1, <1>3, <1>5, <1>6, <2>1, <2>2, RowHeard DEF TellInv
<1>8. ASSUME faults' = 0 PROVE CalmInv'
  <2>1. CalmInv
    BY <1>1, <1>8, Faultless DEF TellInv
  <2>2. step' = "commit_new"
    BY <1>8, CampaignOfRow DEF PublishAlert, Fault
  <2>3. /\ dmed[w] \subseteq matched /\ posted[w] \subseteq watch[w].cursor
        /\ \A e \in Event : alert[w][e].status /= "none" => e \in matched
        /\ watch[w].cursor \subseteq matched /\ repeated[w] = {} /\ rode[w] = {}
        /\ primary \in New(w) /\ text = New(w)
    BY <1>1, <2>1 DEF CalmInv, Upto, text
  <2>4. New(w) \subseteq matched /\ posted[w] \intersect New(w) = {} /\ primary \in matched
    BY <2>3 DEF New
  <2>5. repeated'[w] = {} /\ rode'[w] = {} /\ posted'[w] \subseteq matched
    BY <1>3, <1>5, <2>2, <2>3, <2>4
  <2>6. \A e \in Event : alert'[w][e].status /= "none" => e \in matched
    BY <1>2, <1>5, <2>3, <2>4
  <2>7. /\ dmed'[w] \subseteq (Upto(w, {"decide", "publish", "commit_new"}))'
        /\ posted'[w] \subseteq (Upto(w, {"commit_new"}))'
        /\ \A e \in Event : alert'[w][e].status /= "none"
             => e \in (Upto(w, {"publish", "commit_new"}))'
    BY <1>1, <2>2, <2>3, <2>5, <2>6 DEF Upto
  <2> HIDE DEF Upto
  <2> QED BY <1>1, <1>3, <1>5, <2>1, <2>2, <2>3, <2>5, <2>7, RowCalm
<1> QED BY <1>7, <1>8 DEF TellInv

\* What is found is recorded, so nothing is forgotten that was known.
LEMMA CollectKeepsCaptured ==
  ASSUME TypeInv, NEW w \in Watch, NEW forced, NEW lost, NEW found, Collect(w, forced, lost, found)
  PROVE  /\ Captured \subseteq Captured'
         /\ found /= None => found \in Captured'
<1>1. feed \in Seq(FeedRow)
  BY DEF TypeInv, TypeOK, RecordsTyped
<1>2. CASE found \in Captured \union {None}
  BY <1>2 DEF Collect, Captured
<1>3. CASE found \notin Captured \union {None}
  <2>1. feed' = Append(feed, [event |-> found, at |-> now, source |-> "scan"])
    BY <1>3 DEF Collect
  <2>2. /\ \A i \in DOMAIN feed : i \in DOMAIN feed' /\ feed'[i] = feed[i]
        /\ Len(feed) + 1 \in DOMAIN feed'
        /\ feed'[Len(feed) + 1] = [event |-> found, at |-> now, source |-> "scan"]
    BY <1>1, <2>1
  <2>3. feed'[Len(feed) + 1].event = found
    BY <2>2
  <2> QED BY <2>2, <2>3 DEF Captured
<1> QED BY <1>2, <1>3

LEMMA CollectTold ==
  ASSUME TypeInv, Driven, TellInv, NEW w \in Watch, NEW lost, NEW found,
         CollectEvents(w, lost, found)
  PROVE  TellInv'
<1> DEFINE fresh == matched' \ watch[w].cursor
<1>1. /\ Collect(w, FALSE, lost, found) /\ cur' = w /\ step' = AfterCollect(w, fresh)
      /\ fresh /= {} => primary' \in fresh
      /\ UNCHANGED <<watch, alert, dmed, posted, folded, rode, repeated>>
      /\ phase = "monitor" /\ w \in batch /\ cur = None
  BY DEF CollectEvents, ghostVars
<1>2. watch[w].status = "monitoring" /\ Exists(w) /\ step = "none"
  BY <1>1 DEF Driven, Exists
<1>3. /\ Captured \subseteq Captured' /\ (found /= None => found \in Captured')
      /\ faults' \in {faults, faults + 1} /\ (lost /= {} => faults' = faults + 1)
  BY <1>1, CollectKeepsCaptured, CollectGrows
<1>4. /\ step' \in {"commit_new", "decide", "dm"}
      /\ step' = "commit_new" => matched' \subseteq watch[w].cursor
      /\ step' = "decide" => watch[w].audience = "public"
      /\ step' \in {"dm", "decide"} => fresh /= {}
  BY <1>1 DEF AfterCollect
<1>5. HeardInv'
  <2>1. step' = "commit_new" => (Explained(w, matched))'
    BY <1>1, <1>2, <1>4 DEF TellInv, HeardInv, Explained
  <2>2. /\ \A v \in Watch : ~Exists(v)' =>
             /\ dmed'[v] = {} /\ posted'[v] = {} /\ folded'[v] = {} /\ rode'[v] = {}
             /\ \A e \in Event : alert'[v][e].status = "none"
        /\ \A v \in Watch : watch'[v].status /= "completed" => (Explained(v, watch[v].cursor))'
        /\ \A v \in Watch : watch'[v].audience = "bound" => folded'[v] = {}
    BY <1>1 DEF TellInv, HeardInv, Explained, Exists
  <2>3. step' = "commit_new" => (Explained(cur, matched))'
    BY <1>1, <2>1 DEF Explained
  <2> QED BY <1>1, <1>4, <2>2, <2>3 DEF HeardInv
<1>6. ASSUME faults' = 0 PROVE CalmInv'
  <2>1. CalmInv /\ lost = {}
    BY <1>3, <1>6, CampaignOfRow DEF TellInv
  <2>2. watch[w].cursor \subseteq Captured
    BY <1>2, <2>1 DEF CalmInv
  <2>3. watch[w].cursor \subseteq matched' /\ matched' \subseteq Captured'
    <3>1. Scanned(w) \subseteq Captured
      BY DEF Scanned, Captured
    <3> QED BY <1>1, <1>3, <2>1, <2>2, <3>1 DEF Collect, Known
  <2>4. /\ step' \in Talking => (watch[cur].cursor \subseteq matched)' /\ (matched \subseteq Captured)'
        /\ step' \in {"dm", "decide", "publish"} => (primary \in New(cur))'
        /\ step' = "decide" /\ watch'[cur'].audience /= "public" => dmOk' = "yes"
        /\ step' \notin {"publish", "commit_old"}
    BY <1>1, <1>4, <2>3 DEF New
  <2>5. ASSUME NEW v \in Watch, watch'[v].status /= "completed"
        PROVE  /\ (watch[v].cursor \subseteq Captured)'
               /\ (dmed[v] \subseteq Upto(v, {"decide", "publish", "commit_new"}))'
               /\ (posted[v] \subseteq Upto(v, {"commit_new"}))'
               /\ \A e \in Event : alert'[v][e].status /= "none"
                    => (e \in Upto(v, {"publish", "commit_new"}))'
    <3>1. /\ watch[v].cursor \subseteq Captured
          /\ dmed[v] \subseteq watch[v].cursor /\ posted[v] \subseteq watch[v].cursor
          /\ \A e \in Event : alert[v][e].status /= "none" => e \in watch[v].cursor
      BY <1>1, <1>2, <2>1, <2>5 DEF CalmInv, Upto
    <3>2. \A steps : watch[v].cursor \subseteq (Upto(v, steps))'
      BY <1>1, <2>3 DEF Upto
    <3> HIDE DEF Upto
    <3> QED BY <1>1, <1>3, <3>1, <3>2
  <2>6. \A v \in Watch : repeated'[v] = {} /\ rode'[v] = {}
    BY <1>1, <2>1 DEF CalmInv
  <2> QED BY <2>4, <2>5, <2>6 DEF CalmInv
<1> QED BY <1>5, <1>6 DEF TellInv

\* The cursor takes in what was explained.
LEMMA CommitTold ==
  ASSUME TypeInv, Driven, TellInv, NEW w \in Watch, CommitMonitoring(w)
  PROVE  TellInv'
<1>1. /\ step \in {"commit_new", "commit_old"} /\ cur = w /\ cur' = None /\ step' = "none"
      /\ UNCHANGED <<alert, feed, dmed, posted, folded, rode, repeated>>
      /\ faults' \in {faults, faults + 1}
      /\ watch[w].status = "monitoring" /\ Exists(w) /\ RowsKeep
      /\ step \in Talking /\ cur' \notin Watch
  BY TalkedRow, CycleKeepsRows, WatchConfig
  DEF CommitMonitoring, Leave, ghostVars, Fault, NoFault, Talking, RunStep, RowStep
<1>2. /\ \A v \in Watch \ {w} : watch'[v] = watch[v]
      /\ \/ UNCHANGED watch /\ Fault
         \/ /\ watch'[w].status = "monitoring"
            /\ watch'[w].cursor = IF step = "commit_new" THEN matched ELSE watch[w].cursor
  <2>1. watch[w] \in WatchRow
    BY DEF TypeInv, TypeOK, RecordsTyped
  <2>2. CASE Put(w, Monitored(w))
    <3>1. watch'[w] = Monitored(w) /\ \A v \in Watch \ {w} : watch'[v] = watch[v]
      BY <2>2, MonitoredRow, PutRow DEF TypeInv, TypeOK, RecordsTyped
    <3>2. /\ Monitored(w).status = "monitoring"
          /\ Monitored(w).cursor = IF step = "commit_new" THEN matched ELSE watch[w].cursor
      BY <2>1 DEF Monitored, WatchRow
    <3> QED BY <3>1, <3>2
  <2> QED BY <2>2 DEF CommitMonitoring
<1>3. \A v \in Watch : watch'[v].audience = watch[v].audience /\ (Exists(v)' <=> Exists(v))
  BY <1>1 DEF RowsKeep, Same
<1>4. HeardInv'
  <2>1. ASSUME NEW v \in Watch, watch'[v].status /= "completed"
        PROVE  (Explained(v, watch[v].cursor))'
    <3>1. CASE watch'[v].cursor = watch[v].cursor /\ watch[v].status /= "completed"
      BY <1>1, <1>3, <3>1 DEF TellInv, HeardInv, Explained
    <3>2. CASE v = w /\ step = "commit_new" /\ watch'[v].cursor = matched
      BY <1>1, <1>3, <3>2 DEF TellInv, HeardInv, Explained
    <3> QED BY <1>1, <1>2, <2>1, <3>1, <3>2
  <2>2. \A v \in Watch :
          /\ ~Exists(v)' =>
               /\ dmed'[v] = {} /\ posted'[v] = {} /\ folded'[v] = {} /\ rode'[v] = {}
               /\ \A e \in Event : alert'[v][e].status = "none"
          /\ watch'[v].audience = "bound" => folded'[v] = {}
    BY <1>1, <1>3 DEF TellInv, HeardInv
  <2> QED BY <1>1, <2>1, <2>2 DEF HeardInv
<1>5. ASSUME faults' = 0 PROVE CalmInv'
  <2>1. CalmInv /\ step = "commit_new"
    BY <1>1, <1>5, Faultless DEF TellInv, CalmInv
  <2>2. watch'[w].cursor = matched \/ faults' = faults + 1
    BY <1>2, <2>1 DEF Fault
  <2>3. watch'[w].cursor = matched
    BY <1>5, <2>2, CampaignOfRow
  <2>4. ASSUME NEW v \in Watch, watch'[v].status /= "completed"
        PROVE  /\ (watch[v].cursor \subseteq Captured)'
               /\ (dmed[v] \subseteq Upto(v, {"decide", "publish", "commit_new"}))'
               /\ (posted[v] \subseteq Upto(v, {"commit_new"}))'
               /\ \A e \in Event : alert'[v][e].status /= "none"
                    => (e \in Upto(v, {"publish", "commit_new"}))'
    <3>1. /\ watch[v].status /= "completed"
          /\ watch'[v].cursor = IF v = w THEN matched ELSE watch[v].cursor
      BY <1>1, <1>2, <2>3, <2>4
    <3>2. /\ watch'[v].cursor \subseteq Captured
          /\ dmed[v] \subseteq watch'[v].cursor /\ posted[v] \subseteq watch'[v].cursor
          /\ \A e \in Event : alert[v][e].status /= "none" => e \in watch'[v].cursor
      BY <1>1, <2>1, <3>1 DEF CalmInv, Upto
    <3>3. \A steps : (Upto(v, steps))' = watch'[v].cursor
      BY <1>1 DEF Upto
    <3>4. Captured' = Captured
      BY <1>1 DEF Captured
    <3> HIDE DEF Upto
    <3> QED BY <1>1, <3>2, <3>3, <3>4
  <2>5. \A v \in Watch : repeated'[v] = {} /\ rode'[v] = {}
    BY <1>1, <2>1 DEF CalmInv
  <2> QED BY <1>1, <2>4, <2>5 DEF CalmInv, Talking
<1> QED BY <1>4, <1>5 DEF TellInv

LEMMA FeedKeepsCaptured ==
  ASSUME TypeInv, FeedGrows
  PROVE  Captured \subseteq Captured'
<1>1. feed \in Seq(FeedRow)
  BY DEF TypeInv, TypeOK, RecordsTyped
<1>2. \A i \in DOMAIN feed : i \in DOMAIN feed' /\ feed'[i] = feed[i]
  BY <1>1 DEF FeedGrows
<1> QED BY <1>2 DEF Captured

LEMMA NextTold == TypeInv /\ Driven /\ TellInv /\ [Next]_vars => TellInv'
<1> SUFFICES ASSUME TypeInv, Driven, TellInv, [Next]_vars PROVE TellInv'
  OBVIOUS
<1>1. ASSUME UNCHANGED <<ghostVars, alert, watch>>, Captured \subseteq Captured',
             faults' \in {faults, faults + 1},
             \/ UNCHANGED <<step, cur, matched, primary, dmOk>>
             \/ step' \notin Talking /\ (step \notin Talking \/ faults' > 0)
      PROVE  TellInv'
  BY <1>1, TellQuiet DEF Exists
<1>2. UNCHANGED feed => Captured' = Captured
  BY DEF Captured
<1>3. CASE Begin \/ RunStep
  <2>1. CASE Begin \/ BeginMonitoring \/ BeginCompletion \/ EndRun
    <3>1. UNCHANGED <<ghostVars, alert, watch, feed>> /\ step \notin Talking /\ step' \notin Talking
          /\ faults' \in {faults, faults + 1}
      BY <2>1 DEF Begin, BeginMonitoring, BeginCompletion, EndRun, Enter, RunRest, recordVars,
                  Done, Driven, Talking, Fault, NoFault
    <3> QED BY <1>1, <1>2, <3>1
  <2>2. ASSUME NEW w \in Watch, RowStep(w)
        PROVE  TellInv'
    <3>1. RowsKeep
      BY <1>3, CycleKeepsRows
    <3>2. CASE Activate(w)
      <4>1. /\ UNCHANGED <<ghostVars, alert, feed, step, cur>> /\ faults' \in {faults, faults + 1}
            /\ cur = None
        BY <3>2 DEF Activate, Driven, Fault, NoFault
      <4>2. step \notin Talking /\ step' \notin Talking
        BY <4>1 DEF Driven, Talking
      <4>3. \A v \in Watch : watch'[v] = watch[v]
              \/ (v = w /\ watch[v].status /= "completed" /\ watch'[v].cursor = watch[v].cursor)
        <5>1. watch \in [Watch -> WatchRow] /\ watch[w].status = "accepted"
          BY <3>2 DEF Activate, Driven, TypeInv, TypeOK, RecordsTyped
        <5>2. watch[w] \in WatchRow
          BY <5>1
        <5>3. CASE Put(w, [watch[w] EXCEPT !.status = "monitoring"])
          <6>1. /\ watch'[w] = [watch[w] EXCEPT !.status = "monitoring"]
                /\ \A v \in Watch \ {w} : watch'[v] = watch[v]
            BY <5>1, <5>2, <5>3, ActivatedRow, PutRow
          <6>2. watch'[w].cursor = watch[w].cursor
            BY <5>2, <6>1 DEF WatchRow
          <6> QED BY <5>1, <6>1, <6>2
        <5> QED BY <3>2, <5>3 DEF Activate
      <4>4. \A v \in Watch : Exists(v) =>
              /\ Exists(v)' /\ watch'[v].audience = watch[v].audience
              /\ watch'[v].status /= "completed" =>
                   watch[v].status /= "completed" /\ watch'[v].cursor = watch[v].cursor
        BY <3>1, <4>3 DEF RowsKeep, Same
      <4>5. \A v \in Watch : ~Exists(v) => watch'[v] = watch[v]
        BY <3>2, <4>3, TakenRow DEF Activate, Exists
      <4> QED BY <1>2, <4>1, <4>2, <4>4, <4>5, TellQuiet
    <3>3. ASSUME NEW lost, NEW found, NEW text, WriteReport(w, lost, found, text)
          PROVE  TellInv'
      <4>1. UNCHANGED <<ghostVars, alert, watch>> /\ step \notin Talking /\ step' \notin Talking
        BY <3>3 DEF WriteReport, Driven, Talking
      <4>2. Collect(w, TRUE, lost, found)
        BY <3>3 DEF WriteReport
      <4>3. Captured \subseteq Captured' /\ faults' \in {faults, faults + 1}
        BY <4>2, CollectKeepsCaptured, CollectGrows
      <4> QED BY <1>1, <4>1, <4>3
    <3>4. CASE CollectFails(w)
      <4>1. UNCHANGED <<ghostVars, alert, watch, feed, step, cur, matched, primary, dmOk>>
            /\ faults' \in {faults, faults + 1}
        BY <3>4 DEF CollectFails, Fault
      <4> QED BY <1>1, <1>2, <4>1
    <3>5. CASE Submit(w) \/ Confirmed(w) \/ Refused(w) \/ Hashless(w) \/ GiveUp(w)
      <4>1. UNCHANGED <<ghostVars, alert, watch, feed>> /\ step \notin Talking
            /\ step' \notin Talking /\ faults' \in {faults, faults + 1}
        BY <3>5 DEF Submit, Confirmed, Refused, Hashless, ToClose, GiveUp, Leave, Talking,
                    Fault, NoFault
      <4> QED BY <1>1, <1>2, <4>1
    <3>6. CASE Complete(w)
      <4>1. UNCHANGED <<ghostVars, alert, feed>> /\ step \notin Talking
            /\ step' \notin Talking /\ faults' \in {faults, faults + 1} /\ Exists(w)
        BY <3>6, TakenRow DEF Complete, Leave, Talking, Fault, NoFault, Exists
      <4>2. \A v \in Watch : watch'[v] = watch[v] \/ (v = w /\ watch'[v].status = "completed")
        <5>1. report \in Report
          BY <3>6 DEF Complete, TypeInv, Placed
        <5>2. CASE Put(w, Completed(w))
          <6>1. /\ watch'[w].status = "completed"
                /\ \A v \in Watch \ {w} : watch'[v] = watch[v]
            BY <5>1, <5>2, CompletedRow, PutRow DEF TypeInv, TypeOK, RecordsTyped
          <6> QED BY <6>1
        <5> QED BY <3>6, <5>2 DEF Complete
      <4>3. \A v \in Watch : Exists(v) =>
              /\ Exists(v)' /\ watch'[v].audience = watch[v].audience
              /\ watch'[v].status /= "completed" =>
                   watch[v].status /= "completed" /\ watch'[v].cursor = watch[v].cursor
        BY <3>1, <4>2 DEF RowsKeep, Same
      <4>4. \A v \in Watch : ~Exists(v) => watch'[v] = watch[v]
        BY <4>1, <4>2
      <4> QED BY <1>2, <4>1, <4>3, <4>4, TellQuiet
    <3> QED BY <2>2, <3>2, <3>3, <3>4, <3>5, <3>6, SendDmTold, FoldTold, PrepareTold,
               PublishTold, CollectTold, CommitTold
            DEF RowStep
  <2> QED BY <1>3, <2>1, <2>2 DEF RunStep
<1>4. CASE (\E c \in Call : CallStep(c)) /\ UNCHANGED cycleVars
  <2>1. PICK c \in Call : CallStep(c)
    BY <1>4
  <2>2. /\ UNCHANGED <<ghostVars, alert, feed, step, cur, matched, primary, dmOk>>
        /\ faults' \in {faults, faults + 1}
        /\ \A w \in Watch : Exists(w) => watch'[w] = watch[w]
    BY <1>4, <2>1, CallRows, CallKeepsRows DEF cycleVars, runVars
  <2>3. \A w \in Watch : ~Exists(w) => watch'[w] = watch[w] \/ watch'[w].cursor = {}
    BY <2>1, CallRows, AddedRow
  <2>4. \A w \in Watch : Exists(w) =>
          /\ Exists(w)' /\ watch'[w].audience = watch[w].audience
          /\ watch'[w].status /= "completed" =>
               watch[w].status /= "completed" /\ watch'[w].cursor = watch[w].cursor
    BY <2>2 DEF Exists
  <2> QED BY <1>2, <2>2, <2>3, <2>4, TellQuiet
<1>5. CASE World /\ UNCHANGED cycleVars
  <2>1. UNCHANGED <<ghostVars, alert, watch, faults, step, cur, matched, primary, dmOk>>
    BY <1>5 DEF World, Tick, Publish, Track, cycleVars, runVars
  <2>2. FeedGrows
    <3>1. ASSUME NEW e \in Event, Track(e) PROVE FeedGrows
      <4>1. [event |-> e, at |-> now, source |-> "tracker"] \in FeedRow
        BY ClockTyped DEF FeedRow
      <4> QED BY <3>1, <4>1 DEF Track, FeedGrows
    <3> QED BY <1>5, <3>1 DEF World, Tick, Publish, FeedGrows
  <2> QED BY <1>1, <2>1, <2>2, FeedKeepsCaptured
<1>6. CASE Restart
  <2>1. UNCHANGED <<ghostVars, alert, watch, feed>> /\ step' \notin Talking
        /\ faults' = faults + 1
    BY <1>6 DEF Restart, RunRest, Fault, Talking
  <2>2. faults' > 0
    BY <2>1, CampaignOfRow
  <2> QED BY <1>1, <1>2, <2>1, <2>2
<1>7. CASE UNCHANGED vars
  BY <1>1, <1>2, <1>7 DEF vars, recordVars, cycleVars, runVars
<1> QED BY <1>3, <1>4, <1>5, <1>6, <1>7 DEF Next

LEMMA AlwaysTold == Spec => []TellInv
<1>1. Init => TellInv
  <2> SUFFICES ASSUME Init PROVE TellInv
    OBVIOUS
  <2>1. /\ \A w \in Watch : /\ watch[w].status = "none" /\ watch[w].cursor = {}
                            /\ watch[w].audience = "public"
                            /\ dmed[w] = {} /\ posted[w] = {} /\ folded[w] = {} /\ rode[w] = {}
                            /\ rode[w] = {} /\ repeated[w] = {}
                            /\ \A e \in Event : alert[w][e].status = "none"
        /\ step = "none"
    BY DEF Init, RecordsInit, CycleInit, NoWatch, NoAlert
  <2> QED BY <2>1 DEF TellInv, HeardInv, CalmInv, Explained, Talking
<1> QED BY <1>1, NextTold, AlwaysDriven, TypesKept, PTL DEF Spec

\* The cursor of a watch never passes an event in silence, whatever call fails
\* and whenever the process ends: the owner or the community was told, or the
\* watch is silent about it by design, or it went with an older alert; for a
\* private watch only its owner counts.
THEOREM CursorKept == Spec => []CursorExplained
<1>1. TypeInv /\ TellInv => CursorExplained
  <2> SUFFICES ASSUME TypeInv, TellInv, NEW w \in Watch, watch[w].status = "monitoring"
               PROVE  /\ Explained(w, watch[w].cursor)
                      /\ watch[w].audience = "bound" => folded[w] = {}
                      /\ rode[w] /= {} => faults > 0
    BY DEF CursorExplained, Explained
  <2>1. rode[w] /= {} => faults > 0
    BY CampaignOfRow DEF TellInv, CalmInv
  <2> QED BY <2>1 DEF TellInv, HeardInv
<1> QED BY <1>1, AlwaysTold, TypesKept, PTL

\* Nobody is told twice of an event in one place unless a call failed, its answer
\* was lost, or the process ended between the message and the cursor: for any
\* number of watches, events and runs.
THEOREM ToldOnce == Spec => []ToldTwiceExplained
<1>1. TypeInv /\ TellInv => ToldTwiceExplained
  BY CampaignOfRow DEF TellInv, CalmInv, ToldTwiceExplained
<1> QED BY <1>1, AlwaysTold, TypesKept, PTL
-----------------------------------------------------------------------------
(* The promise of a watch *)

\* A step that shows nothing.
LEMMA NothingShown ==
  ASSUME UNCHANGED <<now, watch, anchored, submitted, dmed, posted, folded, rode>>
  PROVE  UNCHANGED Promise!promiseVars
<1>1. \A w \in Watch : ShownRow(w)' = ShownRow(w) /\ HeardBy(w)' = HeardBy(w)
  BY DEF ShownRow, HeardBy, Open, EndOf
<1> QED BY <1>1 DEF Promise!promiseVars

\* A step that shows at most one row in another state.
LEMMA OneRowShown ==
  ASSUME NEW w \in Watch, \A v \in Watch \ {w} : watch'[v] = watch[v],
         UNCHANGED <<now, anchored, submitted, dmed, posted, folded, rode>>,
         HeardBy(w)' = HeardBy(w), NEW r, ShownRow(w)' = r
  PROVE  Promise!Show(w, r)
<1>1. \A v \in Watch \ {w} : ShownRow(v)' = ShownRow(v) /\ HeardBy(v)' = HeardBy(v)
  BY DEF ShownRow, HeardBy, Open, EndOf
<1> QED BY <1>1 DEF Promise!Show

\* A row that does not exist is silent, so it matters not what it becomes.
LEMMA BeginShown ==
  ASSUME TypeInv, TypeInv', TellInv, NEW w \in Watch, ~Exists(w), Open(w)',
         watch'[w].cursor = {}, \A v \in Watch \ {w} : watch'[v] = watch[v],
         UNCHANGED <<now, anchored, submitted, dmed, posted, folded, rode>>
  PROVE  Promise!Begin(w)
<1> DEFINE r == [status |-> "open", campaign |-> watch'[w].id, ends |-> watch'[w].starts + Duration,
               passed |-> {}]
<1>1. HeardBy(w)' = HeardBy(w)
  BY DEF HeardBy, TellInv, HeardInv
<1>2. ShownRow(w) = [status |-> "none"]
  BY DEF ShownRow, EndOf, Exists
<1>3. ShownRow(w)' = r
  BY DEF ShownRow, EndOf, Open
<1>4. r \in [status : {"open"}, campaign : 0..Cardinality(Call), ends : Nat,
             passed : SUBSET Event] /\ r.passed = {}
  <2>1. watch'[w] \in WatchRow
    BY DEF TypeInv, TypeOK, RecordsTyped
  <2> QED BY <2>1, WatchConfig DEF WatchRow
<1> HIDE DEF r
<1>5. Promise!Show(w, r)
  BY <1>1, <1>3, OneRowShown
<1> HIDE DEF ShownRow, HeardBy
<1> QED BY <1>2, <1>3, <1>4, <1>5 DEF Promise!Begin, Promise!NoRow, Promise!OpenRow

LEMMA HearShown ==
  ASSUME TypeInv, TypeInv', NEW w \in Watch, watch[w].status = "monitoring",
         UNCHANGED <<now, watch, anchored, submitted>>,
         \A v \in Watch \ {w} : /\ dmed'[v] = dmed[v] /\ posted'[v] = posted[v]
                                /\ folded'[v] = folded[v] /\ rode'[v] = rode[v],
         dmed[w] \subseteq dmed'[w], posted[w] \subseteq posted'[w],
         folded[w] \subseteq folded'[w], rode[w] \subseteq rode'[w]
  PROVE  Promise!Hear(w)
<1>1. \A v \in Watch : ShownRow(v)' = ShownRow(v)
  BY DEF ShownRow, Open, EndOf
<1>2. \A v \in Watch \ {w} : HeardBy(v)' = HeardBy(v)
  BY DEF HeardBy
<1>3. HeardBy(w)' \in SUBSET Event /\ HeardBy(w) \subseteq HeardBy(w)'
  BY DEF HeardBy, TypeInv, TypeOK, GhostsTyped
<1>4. ShownRow(w).status = "open"
  BY DEF ShownRow, EndOf, Open
<1>5. PICK events \in SUBSET Event : HeardBy(w)' = HeardBy(w) \union events
  BY <1>3
<1> HIDE DEF ShownRow, HeardBy
<1>6. [v \in Watch |-> HeardBy(v)'] = [v \in Watch |-> IF v = w THEN HeardBy(v) \union events
                                                           ELSE HeardBy(v)]
  BY <1>2, <1>5
<1>7. [v \in Watch |-> ShownRow(v)'] = [v \in Watch |-> ShownRow(v)]
  BY <1>1
<1> QED BY <1>4, <1>6, <1>7 DEF Promise!Hear, Promise!IsOpen

LEMMA PassShown ==
  ASSUME TypeInv, TypeInv', NEW w \in Watch, watch[w].status = "monitoring",
         watch'[w].status = "monitoring", Same(watch[w], watch'[w]),
         Explained(w, watch'[w].cursor), \A v \in Watch \ {w} : watch'[v] = watch[v],
         UNCHANGED <<now, anchored, submitted, dmed, posted, folded, rode>>
  PROVE  Promise!Pass(w)
<1>1. HeardBy(w)' = HeardBy(w) /\ watch'[w].cursor \subseteq HeardBy(w)
  BY DEF HeardBy, Same, Explained
<1>2. /\ ShownRow(w) = [status |-> "open", campaign |-> watch[w].id, ends |-> EndOf(w),
                        passed |-> watch[w].cursor]
      /\ ShownRow(w)' = [status |-> "open", campaign |-> watch[w].id, ends |-> EndOf(w),
                         passed |-> watch'[w].cursor]
  BY DEF ShownRow, EndOf, Same
<1>3. /\ ShownRow(w)' = [ShownRow(w) EXCEPT !.passed = watch'[w].cursor]
      /\ ShownRow(w).status = "open"
  BY <1>2
<1> HIDE DEF ShownRow, HeardBy
<1>4. Promise!Show(w, [ShownRow(w) EXCEPT !.passed = watch'[w].cursor])
  BY <1>1, <1>3, OneRowShown
<1> QED BY <1>1, <1>3, <1>4 DEF Promise!Pass, Promise!IsOpen

LEMMA AskShown ==
  ASSUME TypeInv, Driven, NEW w \in Watch, Submit(w)
  PROVE  Promise!Ask(w)
<1>1. /\ step = "submit" /\ cur = w /\ Open(w) /\ EndOf(w) <= now /\ report \in Report
      /\ UNCHANGED <<now, watch, anchored, dmed, posted, folded, rode>>
      /\ submitted' = [submitted EXCEPT ![watch[w].id] = @ \union {report}]
  <2>1. step = "submit" /\ cur = w
    BY DEF Submit
  <2>2. phase = "complete" /\ report \in Report
    BY <2>1 DEF Driven, Reporting, TypeInv, Placed
  <2>3. Open(w) /\ EndOf(w) <= started /\ started <= now
    BY <2>1, <2>2 DEF Driven
  <2>4. EndOf(w) <= now
    BY <2>3, ClockTyped DEF EndOf
  <2> QED BY <2>1, <2>2, <2>3, <2>4 DEF Submit, ghostVars
<1>2. \A v \in Watch : ShownRow(v)' = ShownRow(v) /\ HeardBy(v)' = HeardBy(v)
  BY <1>1 DEF ShownRow, HeardBy, Open, EndOf
<1>3. ShownRow(w) = [status |-> "open", campaign |-> watch[w].id, ends |-> EndOf(w),
                     passed |-> watch[w].cursor]
  BY <1>1 DEF ShownRow, EndOf, Open
<1>4. report \in Promise!Report
  BY <1>1 DEF Report, Promise!Report
<1> HIDE DEF ShownRow, HeardBy
<1>5. /\ [v \in Watch |-> ShownRow(v)'] = [v \in Watch |-> ShownRow(v)]
      /\ [v \in Watch |-> HeardBy(v)'] = [v \in Watch |-> HeardBy(v)]
  BY <1>2
<1>6. ShownRow(w).status = "open" /\ ShownRow(w).ends <= now /\ ShownRow(w).campaign = watch[w].id
  BY <1>1, <1>3
<1> QED BY <1>1, <1>4, <1>5, <1>6 DEF Promise!Ask, Promise!IsOpen, Promise!IsOver

LEMMA CloseShown ==
  ASSUME TypeInv, Driven, AnchorInv, NEW w \in Watch, Complete(w)
  PROVE  Promise!Close(w) \/ UNCHANGED Promise!promiseVars
<1>1. /\ step = "close" /\ cur = w /\ Open(w) /\ EndOf(w) <= now
      /\ UNCHANGED <<now, anchored, submitted, dmed, posted, folded, rode>>
      /\ report \in Report /\ report \in submitted[watch[w].id]
  <2>1. step = "close" /\ cur = w
    BY DEF Complete
  <2>2. phase = "complete" /\ report \in Report /\ report \in submitted[watch[w].id]
    BY <2>1 DEF Driven, Reporting, TypeInv, Placed, AnchorInv
  <2>3. Open(w) /\ EndOf(w) <= started /\ started <= now
    BY <2>1, <2>2 DEF Driven
  <2>4. EndOf(w) <= now
    BY <2>3, ClockTyped DEF EndOf
  <2> QED BY <2>1, <2>2, <2>3, <2>4 DEF Complete, ghostVars
<1>2. CASE UNCHANGED watch
  BY <1>1, <1>2, NothingShown
<1>3. CASE Put(w, Completed(w))
  <2>1. /\ watch'[w].status = "completed" /\ watch'[w].report = report
        /\ watch'[w].audience = watch[w].audience
        /\ \A v \in Watch \ {w} : watch'[v] = watch[v]
    <3>1. watch[w] \in WatchRow /\ watch \in [Watch -> WatchRow]
      BY DEF TypeInv, TypeOK, RecordsTyped
    <3>2. Completed(w) \in WatchRow
      BY <1>1, CompletedRow DEF TypeInv
    <3>3. watch'[w] = Completed(w) /\ \A v \in Watch \ {w} : watch'[v] = watch[v]
      BY <1>3, <3>1, <3>2, PutRow
    <3> QED BY <3>1, <3>3 DEF Completed, WatchRow
  <2>2. HeardBy(w)' = HeardBy(w)
    BY <1>1, <2>1 DEF HeardBy
  <2>3. ShownRow(w)' = [status |-> "closed", report |-> report]
    BY <1>1, <2>1 DEF ShownRow, EndOf, Complete, Leave
  <2>4. Promise!Show(w, [status |-> "closed", report |-> report])
    BY <1>1, <2>1, <2>2, <2>3, OneRowShown
  <2>5. ShownRow(w) = [status |-> "open", campaign |-> watch[w].id, ends |-> EndOf(w),
                       passed |-> watch[w].cursor]
    BY <1>1 DEF ShownRow, EndOf, Open
  <2> HIDE DEF ShownRow, HeardBy
  <2> QED BY <1>1, <2>3, <2>4, <2>5 DEF Promise!Close, Promise!IsOpen, Promise!IsOver
<1> QED BY <1>2, <1>3 DEF Complete

LEMMA CommitShown ==
  ASSUME TypeInv, TypeInv', Driven, TellInv, NEW w \in Watch, CommitMonitoring(w)
  PROVE  Promise!Pass(w) \/ UNCHANGED Promise!promiseVars
<1>1. /\ step \in {"commit_new", "commit_old"} /\ cur = w /\ watch[w].status = "monitoring"
      /\ UNCHANGED <<now, anchored, submitted, dmed, posted, folded, rode>>
  BY TalkedRow DEF CommitMonitoring, ghostVars, Talking
<1>2. CASE UNCHANGED watch
  BY <1>1, <1>2, NothingShown
<1>3. CASE Put(w, Monitored(w))
  <2>1. watch'[w] = Monitored(w) /\ \A v \in Watch \ {w} : watch'[v] = watch[v]
    BY <1>3, MonitoredRow, PutRow DEF TypeInv, TypeOK, RecordsTyped
  <2>2. watch'[w].status = "monitoring" /\ Same(watch[w], watch'[w])
    BY <2>1, MonitoredRow DEF TypeInv
  <2>3. watch'[w].cursor = IF step = "commit_new" THEN matched ELSE watch[w].cursor
    BY <2>1 DEF Monitored, TypeInv, TypeOK, RecordsTyped, WatchRow
  <2>4. Explained(w, watch'[w].cursor)
    BY <1>1, <2>3 DEF TellInv, HeardInv
  <2> QED BY <1>1, <2>1, <2>2, <2>4, PassShown
<1> QED BY <1>2, <1>3 DEF CommitMonitoring

\* The first activation of a row is not visible.
LEMMA ActivationHidden ==
  ASSUME TypeInv, Driven, NEW w \in Watch, Activate(w)
  PROVE  UNCHANGED Promise!promiseVars
<1>1. UNCHANGED <<now, anchored, submitted, dmed, posted, folded, rode>>
  BY DEF Activate, ghostVars
<1>2. CASE UNCHANGED watch
  BY <1>1, <1>2, NothingShown
<1>3. CASE Put(w, [watch[w] EXCEPT !.status = "monitoring"])
  <2>1. watch[w] \in WatchRow /\ watch \in [Watch -> WatchRow] /\ watch[w].status = "accepted"
    BY DEF Activate, Driven, TypeInv, TypeOK, RecordsTyped
  <2>2. /\ watch'[w] = [watch[w] EXCEPT !.status = "monitoring"]
        /\ \A v \in Watch \ {w} : watch'[v] = watch[v]
    BY <1>3, <2>1, ActivatedRow, PutRow
  <2>3. /\ watch'[w].status = "monitoring" /\ Same(watch[w], watch'[w])
        /\ watch'[w].cursor = watch[w].cursor
    BY <2>1, <2>2 DEF WatchRow, Same
  <2>4. ShownRow(w)' = ShownRow(w) /\ HeardBy(w)' = HeardBy(w)
    BY <1>1, <2>1, <2>3 DEF ShownRow, EndOf, HeardBy, Same
  <2>5. \A v \in Watch \ {w} : ShownRow(v)' = ShownRow(v) /\ HeardBy(v)' = HeardBy(v)
    BY <1>1, <2>2 DEF ShownRow, EndOf, HeardBy
  <2> HIDE DEF ShownRow, HeardBy
  <2> QED BY <1>1, <2>4, <2>5 DEF Promise!promiseVars
<1> QED BY <1>2, <1>3 DEF Activate

\* What is told while a run is at a row is heard of that row.
LEMMA TellingShown ==
  ASSUME TypeInv, TypeInv', Driven, NEW w \in Watch,
         SendDm(w) \/ FoldEvents(w) \/ PublishAlert(w)
  PROVE  Promise!Hear(w)
<1>1. /\ watch[w].status = "monitoring" /\ UNCHANGED <<now, watch, anchored, submitted>>
  BY TalkedRow DEF SendDm, FoldEvents, PublishAlert, recordVars, Talking
<1>2. /\ dmed \in [Watch -> SUBSET Event] /\ posted \in [Watch -> SUBSET Event]
      /\ folded \in [Watch -> SUBSET Event] /\ rode \in [Watch -> SUBSET Event]
  BY DEF TypeInv, TypeOK, GhostsTyped
<1>3. /\ \A v \in Watch \ {w} : /\ dmed'[v] = dmed[v] /\ posted'[v] = posted[v]
                                /\ folded'[v] = folded[v] /\ rode'[v] = rode[v]
      /\ dmed[w] \subseteq dmed'[w] /\ posted[w] \subseteq posted'[w]
      /\ folded[w] \subseteq folded'[w] /\ rode[w] \subseteq rode'[w]
  <2>1. CASE SendDm(w)
    BY <1>2, <2>1 DEF SendDm
  <2>2. CASE FoldEvents(w)
    BY <1>2, <2>2 DEF FoldEvents
  <2>3. CASE PublishAlert(w)
    BY <1>2, <2>3 DEF PublishAlert
  <2> QED BY <2>1, <2>2, <2>3
<1> QED BY <1>1, <1>3, HearShown

LEMMA RunKeepsPromise ==
  ASSUME TypeInv, TypeInv', Driven, TellInv, AnchorInv, NEW w \in Watch, RowStep(w)
  PROVE  Promise!PromiseNext \/ UNCHANGED Promise!promiseVars
<1>1. CASE Activate(w)
  BY <1>1, ActivationHidden
<1>2. ASSUME NEW lost, NEW found, CollectEvents(w, lost, found)
      PROVE  UNCHANGED Promise!promiseVars
  BY <1>2, NothingShown DEF CollectEvents, ghostVars
<1>3. ASSUME NEW lost, NEW found, NEW text, WriteReport(w, lost, found, text)
      PROVE  UNCHANGED Promise!promiseVars
  BY <1>3, NothingShown DEF WriteReport, ghostVars
<1>4. CASE CollectFails(w) \/ PrepareAlert(w)
  BY <1>4, NothingShown DEF CollectFails, PrepareAlert, ghostVars
<1>5. CASE Confirmed(w) \/ Refused(w) \/ Hashless(w) \/ GiveUp(w)
  BY <1>5, NothingShown DEF Confirmed, Refused, Hashless, GiveUp, ToClose, ghostVars
<1>6. CASE SendDm(w) \/ FoldEvents(w) \/ PublishAlert(w)
  BY <1>6, TellingShown DEF Promise!PromiseNext
<1>7. CASE CommitMonitoring(w)
  BY <1>7, CommitShown DEF Promise!PromiseNext
<1>8. CASE Submit(w)
  BY <1>8, AskShown DEF Promise!PromiseNext
<1>9. CASE Complete(w)
  BY <1>9, CloseShown DEF Promise!PromiseNext
<1> QED BY <1>1, <1>2, <1>3, <1>4, <1>5, <1>6, <1>7, <1>8, <1>9 DEF RowStep

LEMMA NextKeepsPromise ==
  ASSUME TypeInv, TypeInv', Driven, TellInv, AnchorInv, [Next]_vars
  PROVE  Promise!PromiseNext \/ UNCHANGED Promise!promiseVars
<1>1. CASE Begin \/ BeginMonitoring \/ BeginCompletion \/ EndRun
  BY <1>1, NothingShown DEF Begin, BeginMonitoring, BeginCompletion, EndRun, Enter, recordVars,
                            ghostVars
<1>2. ASSUME NEW c \in Call, CallStep(c), UNCHANGED cycleVars
      PROVE  Promise!PromiseNext \/ UNCHANGED Promise!promiseVars
  <2>1. UNCHANGED <<now, anchored, submitted, dmed, posted, folded, rode>>
    BY <1>2, CallRows DEF cycleVars, ghostVars
  <2>2. CASE UNCHANGED watch
    BY <2>1, <2>2, NothingShown
  <2>3. ASSUME NEW w \in Watch, ~Exists(w), watch' = [watch EXCEPT ![w] = NewWatch(c)],
               id[c] \in 0..Cardinality(Call)
        PROVE  Promise!Begin(w)
    <3>1. /\ watch'[w].status \in {"accepted", "monitoring"} /\ watch'[w].cursor = {}
          /\ \A v \in Watch \ {w} : watch'[v] = watch[v]
      BY <2>3, AddedRow
    <3> QED BY <2>1, <2>3, <3>1, BeginShown DEF Open
  <2> QED BY <1>2, <2>2, <2>3, CallRows DEF Promise!PromiseNext
<1>3. ASSUME NEW e \in Event, Track(e), UNCHANGED cycleVars
      PROVE  UNCHANGED Promise!promiseVars
  BY <1>3, NothingShown DEF Track, cycleVars, ghostVars
<1>4. ASSUME NEW i \in DOMAIN submitted, NEW r \in submitted[i], Publish(i, r), UNCHANGED cycleVars
      PROVE  Promise!PromiseNext
  <2>1. i \in 0..Cardinality(Call)
    BY DEF TypeInv, TypeOK, RecordsTyped
  <2>2. /\ UNCHANGED <<now, watch, submitted, dmed, posted, folded, rode>>
        /\ anchored[i] = None /\ anchored' = [anchored EXCEPT ![i] = r]
    BY <1>4 DEF Publish, cycleVars, ghostVars
  <2>3. \A w \in Watch : ShownRow(w)' = ShownRow(w) /\ HeardBy(w)' = HeardBy(w)
    BY <2>2 DEF ShownRow, HeardBy, EndOf
  <2> HIDE DEF ShownRow, HeardBy
  <2>4. Promise!Anchor(i)
    BY <2>2, <2>3 DEF Promise!Anchor
  <2> QED BY <2>1, <2>4 DEF Promise!PromiseNext
<1>5. CASE Tick /\ UNCHANGED cycleVars
  <2>1. /\ now' = now + 1
        /\ UNCHANGED <<watch, anchored, submitted, dmed, posted, folded, rode>>
    BY <1>5 DEF Tick, cycleVars, ghostVars
  <2>2. \A w \in Watch : ShownRow(w)' = ShownRow(w) /\ HeardBy(w)' = HeardBy(w)
    BY <2>1 DEF ShownRow, HeardBy, EndOf
  <2> HIDE DEF ShownRow, HeardBy
  <2>3. Promise!Pace
    BY <2>1, <2>2 DEF Promise!Pace
  <2> QED BY <2>3 DEF Promise!PromiseNext
<1>6. CASE Restart
  BY <1>6, NothingShown DEF Restart, ghostVars
<1>7. CASE UNCHANGED vars
  BY <1>7, NothingShown DEF vars, recordVars, cycleVars, ghostVars
<1> QED BY <1>1, <1>2, <1>3, <1>4, <1>5, <1>6, <1>7, RunKeepsPromise DEF Next, RunStep, World

\* The service keeps the promise of WatchPromise, for any number of rows, calls,
\* events and faults: a row moves past events only when they were heard of, asks
\* for a report when its campaign is over, and is closed once and for all, with a
\* report that was asked for.
THEOREM Implements == Spec => KeepsWatchPromise
<1>1. Init => Promise!PromiseInit
  <2> SUFFICES ASSUME Init PROVE Promise!PromiseInit
    OBVIOUS
  <2>1. \A w \in Watch : ShownRow(w) = [status |-> "none"] /\ HeardBy(w) = {}
    BY DEF Init, RecordsInit, CycleInit, NoWatch, ShownRow, HeardBy, EndOf
  <2> HIDE DEF ShownRow, HeardBy
  <2> QED BY <2>1 DEF Init, RecordsInit, Promise!PromiseInit, Promise!NoRow
<1>2. TypeInv /\ TypeInv' /\ Driven /\ TellInv /\ AnchorInv /\ [Next]_vars
        => [Promise!PromiseNext]_(Promise!promiseVars)
  BY NextKeepsPromise
<1> QED BY <1>1, <1>2, AlwaysAnchored, AlwaysDriven, AlwaysTold, TypesKept, PTL
        DEF Spec, KeepsWatchPromise, Promise!PromiseSpec

\* What WatchPromise entails holds of the service: a row under way has moved past
\* only events that were heard of, and a completed row and the registry show
\* reports that were asked for.
THEOREM HonestThroughout == Spec => []Promise!Honest
<1>1. Promise!PromiseInit => Promise!Honest
  BY DEF Promise!PromiseInit, Promise!Honest, Promise!IsOpen, Promise!NoRow
<1>2. ASSUME Promise!Honest, [Promise!PromiseNext]_(Promise!promiseVars)
      PROVE  Promise!Honest'
  <2> USE DEF Promise!IsOpen
  <2>1. CASE UNCHANGED Promise!promiseVars
    BY <1>2, <2>1 DEF Promise!Honest, Promise!promiseVars
  <2>2. ASSUME NEW w \in Watch, Promise!Begin(w)
        PROVE  Promise!Honest'
    BY <1>2, <2>2 DEF Promise!Honest, Promise!Begin, Promise!Show, Promise!OpenRow
  <2>3. ASSUME NEW w \in Watch, Promise!Hear(w)
        PROVE  Promise!Honest'
    BY <1>2, <2>3 DEF Promise!Honest, Promise!Hear
  <2>4. ASSUME NEW w \in Watch, Promise!Pass(w)
        PROVE  Promise!Honest'
    <3> DEFINE shown == [v \in Watch |-> ShownRow(v)]
               heard == [v \in Watch |-> HeardBy(v)]
    <3>1. PICK events \in SUBSET HeardBy(w) :
            shown' = [shown EXCEPT ![w] = [shown[w] EXCEPT !.passed = events]]
      BY <2>4 DEF Promise!Pass, Promise!Show
    <3>2. /\ shown[w] \in Promise!OpenRow /\ shown[w].status = "open"
          /\ UNCHANGED <<heard, submitted, anchored>>
      BY <1>2, <2>4 DEF Promise!Honest, Promise!Pass, Promise!Show
    <3>3. \A v \in Watch \ {w} : ShownRow(v)' = ShownRow(v)
      BY <3>1
    <3>4. \A v \in Watch : HeardBy(v)' = HeardBy(v)
      BY <3>2
    <3>5. /\ ShownRow(w)' \in Promise!OpenRow /\ ShownRow(w)'.status = "open"
          /\ ShownRow(w)'.passed = events
      <4>1. events \subseteq Event
        BY <1>2 DEF Promise!Honest
      <4>2. ShownRow(w)' = [shown[w] EXCEPT !.passed = events]
        BY <3>1
      <4> HIDE DEF shown
      <4> QED BY <3>2, <4>1, <4>2 DEF Promise!OpenRow
    <3> QED BY <1>2, <3>2, <3>3, <3>4, <3>5 DEF Promise!Honest
  <2>5. ASSUME NEW w \in Watch, Promise!Ask(w)
        PROVE  Promise!Honest'
    BY <1>2, <2>5 DEF Promise!Honest, Promise!Ask
  <2>6. ASSUME NEW w \in Watch, Promise!Close(w)
        PROVE  Promise!Honest'
    <3> DEFINE shown == [v \in Watch |-> ShownRow(v)]
    <3>1. shown[w] \in Promise!OpenRow
      BY <1>2, <2>6 DEF Promise!Honest, Promise!Close
    <3>2. PICK r \in submitted[shown[w].campaign] :
            shown' = [shown EXCEPT ![w] = [status |-> "closed", report |-> r]]
      BY <2>6 DEF Promise!Close, Promise!Show
    <3>3. /\ UNCHANGED <<[v \in Watch |-> HeardBy(v)], submitted, anchored>>
          /\ shown[w].campaign \in 0..Cardinality(Call)
      BY <2>6, <3>1 DEF Promise!Close, Promise!Show, Promise!OpenRow
    <3>4. \A v \in Watch \ {w} : ShownRow(v)' = ShownRow(v)
      BY <3>2
    <3>5. \A v \in Watch : HeardBy(v)' = HeardBy(v)
      BY <3>3
    <3>6. ShownRow(w)'.status = "closed" /\ ShownRow(w)'.report = r
      BY <3>2
    <3> QED BY <1>2, <3>2, <3>3, <3>4, <3>5, <3>6 DEF Promise!Honest
  <2>7. ASSUME NEW i \in 0..Cardinality(Call), Promise!Anchor(i)
        PROVE  Promise!Honest'
    BY <1>2, <2>7 DEF Promise!Honest, Promise!Anchor
  <2>8. CASE Promise!Pace
    BY <1>2, <2>8 DEF Promise!Honest, Promise!Pace
  <2> QED BY <1>2, <2>1, <2>2, <2>3, <2>4, <2>5, <2>6, <2>7, <2>8 DEF Promise!PromiseNext
<1> QED BY <1>1, <1>2, Implements, PTL DEF KeepsWatchPromise, Promise!PromiseSpec

=============================================================================
