----------------------------- MODULE WatchCreation -----------------------------
(***************************************************************************)
(* The three ways a watch comes to be: a settled payment creates it in the *)
(* background, a Telegram message creates it for the marketplace, and a    *)
(* marketplace workflow that has created the campaign itself registers it. *)
(* Telegram and KeeperHub retry: two calls may carry the same request.     *)
(***************************************************************************)
EXTENDS WatchRecords

VARIABLES
  at,        \* per call: the await it is at
  asked,     \* per call: the marketplace request, None for a payment
  plan,      \* per call: kind, audience and start of the watch
  id,        \* per call: its campaign on chain
  unspent,   \* calls that read the binding code before it was used
  order,     \* per request: what it asks for
  minted,    \* per request: the campaign its workflow created
  made,      \* per campaign: what the service asked KeeperHub to create
  spent,     \* requests whose binding code has been used
  orders,    \* different orders so far (bounded by the rows there are)
  forsaken   \* ghost: campaigns whose call was refused or lost

creationVars == <<at, asked, plan, id, unspent, order, minted, made, spent, orders,
                 forsaken>>

CallPlace == {"idle", "find", "create", "insert", "reread", "consume", "done"}

NoPlan == [kind |-> "contract", audience |-> "public", starts |-> 0]

NoSpec == [kind |-> "none", starts |-> 0]

CreationInit ==
  /\ at = [c \in Call |-> "idle"]
  /\ asked = [c \in Call |-> None]
  /\ plan = [c \in Call |-> NoPlan]
  /\ id = [c \in Call |-> None]
  /\ unspent = {}
  /\ order = [q \in Request |-> NoPlan]
  /\ minted = [q \in Request |-> None]
  /\ made = [i \in 0..Cardinality(Call) |-> NoSpec]
  /\ spent = {}
  /\ orders = 0
  /\ forsaken = {}

Go(c, place) == at' = [at EXCEPT ![c] = place]

\* A call ends with an error, whatever it has done before, or with success.
End(c) ==
  /\ Go(c, "done")
  /\ asked' = [asked EXCEPT ![c] = None]
  /\ plan' = [plan EXCEPT ![c] = NoPlan]
  /\ id' = [id EXCEPT ![c] = None]
  /\ unspent' = unspent \ {c}

Accept(c) == End(c) /\ UNCHANGED forsaken

Refuse(c) == End(c) /\ forsaken' = forsaken \union ({id[c]} \ {None})

Proceed(c, place) == Go(c, place) /\ UNCHANGED <<asked, plan, id, unspent, forsaken>>

Registered(q) == \E w \in Watch : watch[w].status /= "none" /\ watch[w].request = q

ByTelegram(c) == asked[c] \in TelegramRequest

ByMarket(c) == asked[c] \in Request \ TelegramRequest

\* The first call of a request says what is wanted, and its retries repeat it.
NewOrder ==
  /\ orders < Cardinality(Watch)
  /\ orders' = orders + 1

Says(q, kind, audience, starts) ==
  LET wanted == [kind |-> kind, audience |-> audience, starts |-> starts]
  IN \/ order[q] = wanted /\ UNCHANGED <<order, orders>>
     \/ /\ order[q] = NoPlan
        /\ order' = [order EXCEPT ![q] = wanted]
        /\ NewOrder

Ask(c, q, kind, audience, starts) ==
  /\ at[c] = "idle" /\ now <= LastCall
  /\ asked' = [asked EXCEPT ![c] = q]
  /\ plan' = [plan EXCEPT ![c] = [kind |-> kind, audience |-> audience, starts |-> starts]]

\* createSponsoredWatch of the contract
NewCampaign ==
  /\ nextWatchId < Cardinality(Call)
  /\ nextWatchId' = nextWatchId + 1

\* POST /payments/settlements, newly settled: the response does not wait.
SettlePaid(c, kind, audience, starts) ==
  /\ Ask(c, None, kind, audience, starts)
  /\ NewOrder
  /\ Go(c, "create")
  /\ UNCHANGED <<id, unspent, order, minted, made, spent, forsaken, recordVars>>

\* A watch request from the Telegram transport group; it begins when it comes.
TelegramRequested(c, q, kind, audience) ==
  /\ Says(q, kind, audience, 0)
  /\ Ask(c, q, kind, audience, now)
  /\ Go(c, "find")
  /\ UNCHANGED <<id, unspent, minted, made, spent, forsaken, recordVars>>

\* The marketplace workflow creates the campaign, once, and registers it; its
\* retries register the same transaction.
MarketplaceRegister(c, q, kind, audience, starts) ==
  /\ Says(q, kind, audience, starts)
  /\ Ask(c, q, kind, audience, starts)
  /\ Go(c, "find")
  /\ IF minted[q] = None
     THEN /\ NewCampaign
          /\ id' = [id EXCEPT ![c] = nextWatchId]
          /\ minted' = [minted EXCEPT ![q] = nextWatchId]
     ELSE /\ id' = [id EXCEPT ![c] = minted[q]]
          /\ UNCHANGED <<minted, nextWatchId>>
  /\ UNCHANGED <<unspent, made, spent, forsaken, now, watch, anchored, feed, alert, submitted, faults>>

\* findByMarketplaceRequestId.  The code must be valid; it may have been used.
FindRequest(c) ==
  /\ at[c] = "find"
  /\ \/ /\ NoFault
        /\ \/ /\ ByTelegram(c) /\ Registered(asked[c])
              /\ Accept(c)
           \/ /\ ~(ByTelegram(c) /\ Registered(asked[c]))
              /\ Go(c, IF ByTelegram(c) THEN "create"
                       ELSE IF Registered(asked[c]) THEN "consume" ELSE "insert")
              /\ unspent' = IF asked[c] \in spent THEN unspent ELSE unspent \union {c}
              /\ UNCHANGED <<asked, plan, id, forsaken>>
     \/ Fault /\ Refuse(c)
  /\ UNCHANGED <<order, minted, made, spent, orders, now, watch, nextWatchId, anchored,
                 feed, alert, submitted>>

\* client.createSponsoredWatch.  KeeperHub may answer with the campaign of an
\* earlier request: the idempotency key is the specification and its window,
\* whatever the payment or message.  It fails before the chain has the campaign;
\* or after, or its campaign id cannot be decoded.
AskedFor(c) == [kind |-> plan[c].kind, starts |-> plan[c].starts]

CreateOnChain(c) ==
  /\ at[c] = "create"
  /\ \/ /\ \/ NewCampaign /\ id' = [id EXCEPT ![c] = nextWatchId]
           \/ /\ \E i \in DOMAIN made :
                  made[i] = AskedFor(c) /\ id' = [id EXCEPT ![c] = i]
              /\ UNCHANGED nextWatchId
        /\ NoFault
        /\ made' = [made EXCEPT ![id'[c]] = AskedFor(c)]
        /\ Go(c, "insert")
        /\ UNCHANGED <<asked, plan, unspent, forsaken>>
     \/ /\ NewCampaign /\ Fault
        /\ made' = [made EXCEPT ![nextWatchId] = AskedFor(c)]
        /\ End(c)
        /\ forsaken' = forsaken \union {nextWatchId}
     \/ UNCHANGED <<nextWatchId, made>> /\ Fault /\ Refuse(c)
  /\ UNCHANGED <<order, minted, spent, orders, now, watch, anchored, feed, alert, submitted>>

NewWatch(c) ==
  [status |-> IF plan[c].starts <= now /\ now < plan[c].starts + Duration
              THEN "monitoring" ELSE "accepted",
   kind |-> plan[c].kind, audience |-> plan[c].audience, starts |-> plan[c].starts,
   request |-> asked[c], id |-> id[c], cursor |-> {}, last |-> None, report |-> None]

\* Mutant: without the unique index.
AdmittedAlways(c) == TRUE

\* The index on marketplace_request_id admits one row of a request.
Admitted(c) == asked[c] = None \/ ~Registered(asked[c])

\* An insert that failed ends a call; a registration first looks again.
AfterConflict(c) == IF ByMarket(c) THEN Proceed(c, "reread") ELSE Refuse(c)

Insert(c, w) ==
  /\ at[c] = "insert"
  /\ watch[w].status = "none"
  /\ Admitted(c)
  /\ Put(w, NewWatch(c))
  /\ \/ NoFault /\ IF asked[c] = None THEN Accept(c) ELSE Proceed(c, "consume")
     \/ Fault /\ AfterConflict(c)
  /\ UNCHANGED <<order, minted, made, spent, orders, now, nextWatchId, anchored, feed, alert,
                 submitted>>

\* The insert conflicts with the row of another call, or fails.
InsertFails(c) ==
  /\ at[c] = "insert"
  /\ \/ ~Admitted(c) /\ NoFault
     \/ Fault
  /\ AfterConflict(c)
  /\ UNCHANGED <<order, minted, made, spent, orders, now, watch, nextWatchId, anchored, feed,
                 alert, submitted>>

Reread(c) ==
  /\ at[c] = "reread"
  /\ \/ Registered(asked[c]) /\ NoFault /\ Proceed(c, "consume")
     \/ ~Registered(asked[c]) /\ NoFault /\ Refuse(c)
     \/ Fault /\ Refuse(c)
  /\ UNCHANGED <<order, minted, made, spent, orders, now, watch, nextWatchId, anchored, feed,
                 alert, submitted>>

\* markUsed takes an unused code only.  That it does not matters to a call that
\* had read the code unused, though the watch is there.
MarkUsed(c) ==
  /\ at[c] = "consume"
  /\ \/ /\ asked[c] \notin spent
        /\ NoFault
        /\ spent' = spent \union {asked[c]}
        /\ Accept(c)
     \/ /\ (asked[c] \in spent /\ NoFault) \/ Fault
        /\ UNCHANGED spent
        /\ IF c \in unspent THEN Refuse(c) ELSE Accept(c)
  /\ UNCHANGED <<order, minted, made, orders, now, watch, nextWatchId, anchored, feed, alert,
                 submitted>>

CallStep(c) ==
  \/ \E target \in Targets, starts \in {now, now + 1} :
       SettlePaid(c, target[1], target[2], starts)
  \/ \E q \in Request, target \in {t \in Targets : t[2] /= "public"} :
       \/ q \in TelegramRequest /\ TelegramRequested(c, q, target[1], target[2])
       \/ /\ q \notin TelegramRequest
          /\ \E starts \in 0..now : MarketplaceRegister(c, q, target[1], target[2], starts)
  \/ FindRequest(c) \/ CreateOnChain(c)
  \/ \E w \in Watch : Insert(c, w)
  \/ InsertFails(c) \/ Reread(c) \/ MarkUsed(c)

\* A restart ends every call where it stands.
CallsEnd ==
  /\ at' = [c \in Call |-> IF at[c] = "idle" THEN "idle" ELSE "done"]
  /\ asked' = [c \in Call |-> None]
  /\ plan' = [c \in Call |-> NoPlan]
  /\ id' = [c \in Call |-> None]
  /\ unspent' = {}
  /\ forsaken' = forsaken \union ({id[c] : c \in Call} \ {None})

=============================================================================
