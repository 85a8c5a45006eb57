-------------------------------- MODULE DeskBook --------------------------------
(***************************************************************************)
(* The money of the trading desk, and the calls that move it: USDC in the  *)
(* treasury, free USDC on the desk and the desk's inventory (LINK, Aave),  *)
(* in whole units at a constant price.                                     *)
(*                                                                         *)
(* A call is the scheduler (desk/desk-scheduler, one cycle at a time, for  *)
(* ever) or an HTTP request to the control plane, each used once.  pc is   *)
(* the await a call is at.  Money moves by a transfer the treasury's Para  *)
(* wallet broadcasts, or by a KeeperHub run, which takes the money when it *)
(* ends: a run whose caller has given up, or is gone, ends all the same.   *)
(* Wallet, KeeperHub and chain are external.                               *)
(***************************************************************************)
EXTENDS Integers, FiniteSets

CONSTANTS
  Request,    \* HTTP requests, each used once (bound)
  Scheduler,  \* the scheduler
  Funds,      \* USDC in the treasury at first
  MaxFaults   \* bound: failing calls, lost answers and restarts

ASSUME BookConfig ==
  /\ Scheduler \notin Request
  /\ IsFiniteSet(Request)
  /\ Funds \in Nat
  /\ MaxFaults \in Nat

Proc == Request \union {Scheduler}

VARIABLES
  treasury,  \* USDC of the treasury
  desk,      \* free USDC of the desk
  stock,     \* the desk's inventory
  booked,    \* the table desk_capital_moves: top-ups less returns, while complete
  late,      \* runs whose caller no longer waits
  switch,    \* the kill switch in memory, which is also "desk paused"
  pc,        \* per call: the await it is at
  amount,    \* per call: what it is about to move
  past,      \* ghost: what has happened, of Events
  faults     \* faults so far

chainVars == <<treasury, desk, stock>>
moveVars  == <<chainVars, booked, late>>

Flow == {"return", "unwind"}

SwitchState == {"armed", "off"}

Armed == switch = "armed"

\* untold: a transfer was made that no row will tell of.
\* equity, treasury: a top-up was made on such a reading, outdated by another.
\* saved: POST /keeperhub/desk/kill has answered.
\* clobbered: an upsert of the desk tick wrote an old kill_armed.
Events == {"untold", "equity", "treasury", "saved", "clobbered"}

BookInit ==
  /\ treasury = Funds
  /\ desk = 0
  /\ stock = 0
  /\ booked = 0
  /\ late = {}
  /\ switch = "off"
  /\ pc = [p \in Proc |-> "idle"]
  /\ amount = [p \in Proc |-> 0]
  /\ past = {}
  /\ faults = 0

Fault   == faults < MaxFaults /\ faults' = faults + 1
NoFault == UNCHANGED faults

Happens(event) == past' = past \union {event}

Equity == desk + stock

At(p, place) == pc[p] = place

Go(p, place) == pc' = [pc EXCEPT ![p] = place]

\* The scheduler starts over, a request is answered.
Home(p) == IF p = Scheduler THEN "idle" ELSE "end"

\* After its capital tick the scheduler runs a desk tick.
AfterCapital(p) == IF p = Scheduler THEN "t_heartbeat" ELSE "end"

Ending(p) == pc[p] \in {"idle", "end"}

\* A row of desk_capital_moves, n into the desk.  An incomplete table is not
\* added up any more.
Inserted(n) == booked' = IF "untold" \in past THEN booked ELSE booked + n

-----------------------------------------------------------------------------
(* Transfers on chain *)

Covered(flow, n) == n <= (IF flow = "return" THEN desk ELSE stock)

\* return: desk to treasury.  unwind: inventory to free USDC.
Moved(flow, n) ==
  /\ Covered(flow, n)
  /\ desk' = IF flow = "return" THEN desk - n ELSE desk + n
  /\ treasury' = IF flow = "return" THEN treasury + n ELSE treasury
  /\ stock' = IF flow = "return" THEN stock ELSE stock - n

\* A run that moves nothing: too little is there.
Short(flow, n) == ~Covered(flow, n) /\ UNCHANGED chainVars

\* A return is worth a row, and only one caller goes on to write it; a swap
\* inside the desk is not.
Untold(flow, next) ==
  IF flow = "return" /\ next /= "c_record_out" THEN Happens("untold") ELSE UNCHANGED past

\* The bridge waits for its run.  It ends with a hash, or for lack of money;
\* it ends and no hash is found, fails for another reason, or the wait is over
\* before the run.
AwaitRun(p, flow, next, noHash, failed) ==
  /\ \/ /\ NoFault
        /\ Moved(flow, amount[p])
        /\ Untold(flow, next)
        /\ Go(p, next)
        /\ UNCHANGED late
     \/ /\ NoFault
        /\ Short(flow, amount[p])
        /\ Go(p, failed)
        /\ UNCHANGED <<past, late>>
     \/ /\ Fault
        /\ Moved(flow, amount[p])
        /\ Untold(flow, noHash)
        /\ Go(p, noHash)
        /\ UNCHANGED late
     \/ /\ Fault
        /\ Go(p, failed)
        /\ UNCHANGED <<chainVars, past, late>>
     \/ /\ Fault
        /\ late' = late \union {[flow |-> flow, n |-> amount[p], by |-> p, id |-> faults]}
        /\ Untold(flow, failed)
        /\ Go(p, failed)
        /\ UNCHANGED chainVars
  /\ UNCHANGED booked

\* A run nobody waits for ends.
LateRunEnds(r) ==
  /\ r \in late
  /\ late' = late \ {r}
  /\ Moved(r.flow, r.n) \/ Short(r.flow, r.n)
  /\ UNCHANGED <<booked, switch, pc, amount, past, faults>>

=============================================================================
