----------------------------- MODULE CapitalManager -----------------------------
(***************************************************************************)
(* The capital tick (control-plane runCapitalTick, desk/capital-manager    *)
(* and the eligibility rules of desk/policy-engine): read the desk's mark, *)
(* the treasury and the history, decide for at most one move, make it and  *)
(* record it.  The scheduler runs it in every cycle and POST               *)
(* /keeperhub/desk/capital at any time beside it.                          *)
(*                                                                         *)
(* Left out: the values a request may override, the starvation report      *)
(* (which moves nothing), alerts, logs and the registry audit of a move.   *)
(***************************************************************************)
EXTENDS DeskBook

CONSTANTS
  Chunk,        \* topupChunkUsdc and inventoryTopupUsdc
  Reserve,      \* usdcOperatingReserve of the treasury
  MinAum,       \* below it a top-up is urgent
  Target,       \* targetAumUsdc
  MaxAum,       \* maxAumUsdc
  MinFree,      \* minFreeUsdc, the dry powder
  ProfitSweep   \* profitSweepUsdc

ASSUME CapitalConfig ==
  /\ Reserve \in Nat /\ MinAum \in Nat /\ Target \in Nat /\ MaxAum \in Nat
  /\ MinFree \in Nat /\ ProfitSweep \in Nat
  /\ Chunk \in Nat \ {0}
  /\ MinAum <= Target
  /\ Target <= MaxAum
  /\ Reserve <= Funds

VARIABLES
  book,      \* per call: the balances it has read
  cooldown,  \* "on" while the last recorded top-up is younger than topupCooldownMs
  paid,      \* calls with the hash of a transfer that is good
  behind     \* ghost: per call, the readings a later top-up has outdated

capitalVars == <<book, cooldown, paid, behind>>

NoBook == [free |-> 0, stock |-> 0, treasury |-> 0, cooldown |-> "off"]

Reading == {"equity", "treasury"}

CapitalInit ==
  /\ book = [p \in Proc |-> NoBook]
  /\ cooldown = "off"
  /\ paid = {}
  /\ behind = [p \in Proc |-> {}]

-----------------------------------------------------------------------------
(* Eligibility, on what was read *)

Least(a, b)  == IF a <= b THEN a ELSE b
Excess(a, b) == IF a <= b THEN 0 ELSE a - b

BookEquity(b) == b.free + b.stock

\* evaluateSweepEligibility in an emergency: all that is free.
ReturnAmount(b) == b.free

\* evaluateSweepEligibility otherwise: what exceeds the target and the powder.
SweepAmount(b) == Least(Excess(BookEquity(b), Target), Excess(b.free, MinFree))

\* suppressed: sweeps have just been undone by maintenance fills, or one of
\* these is recent.
SweepDue(b, suppressed) ==
  /\ SweepAmount(b) > 0
  /\ \/ BookEquity(b) > MaxAum /\ ~suppressed
     \/ /\ b.free >= ProfitSweep
        /\ BookEquity(b) - Excess(b.free, MinFree) >= Target

Shortfall(b) == b.free < MinFree

CanUnwind(b) == b.stock > 0 /\ b.stock >= Least(Chunk, MinFree - b.free)

\* evaluateFreeInventoryShortfall prefers the desk's own inventory.
UnwindDue(b) == Shortfall(b) /\ CanUnwind(b) /\ BookEquity(b) >= MinAum

ForcedTopup(b) ==
  /\ Shortfall(b)
  /\ ~CanUnwind(b)
  /\ ~(BookEquity(b) + Chunk > MaxAum /\ BookEquity(b) >= Target)

\* Mutant: the maximum is not asked for.
TopupDueUncapped(b) ==
  /\ BookEquity(b) < Target \/ ForcedTopup(b)
  /\ b.treasury >= Reserve + Chunk
  /\ b.cooldown = "off" \/ cooldown = "off"

\* Mutant: the treasury's reserve is not asked for.
TopupDueUnreserved(b) ==
  /\ BookEquity(b) < Target \/ ForcedTopup(b)
  /\ BookEquity(b) + Chunk <= MaxAum
  /\ b.treasury >= Chunk
  /\ b.cooldown = "off" \/ cooldown = "off"

\* evaluateTopupEligibility; an urgent one is below the target as well.
TopupDue(b) ==
  /\ BookEquity(b) < Target \/ ForcedTopup(b)
  /\ BookEquity(b) + Chunk <= MaxAum
  /\ b.treasury >= Reserve + Chunk
  /\ b.cooldown = "off" \/ cooldown = "off"

-----------------------------------------------------------------------------
(* The tick *)

CapitalIdle == UNCHANGED <<moveVars, amount, cooldown, paid, past, switch>>

Finish(p) == Go(p, AfterCapital(p)) /\ book' = [book EXCEPT ![p] = NoBook]
                                    /\ behind' = [behind EXCEPT ![p] = {}]

\* safeMark: a mark that fails counts as an empty desk.
MarkDesk(p) ==
  /\ At(p, "c_mark")
  /\ \/ /\ NoFault
        /\ book' = [book EXCEPT ![p] = [NoBook EXCEPT !.free = desk, !.stock = stock]]
        /\ UNCHANGED behind
     \/ /\ Fault
        /\ behind' = [behind EXCEPT ![p] = {"equity"}]
        /\ UNCHANGED book
  /\ Go(p, "c_treasury")
  /\ CapitalIdle

\* loadTreasuryBalances; without a balance nothing is done, not even a return.
ReadTreasury(p) ==
  /\ At(p, "c_treasury")
  /\ \/ /\ NoFault
        /\ book' = [book EXCEPT ![p].treasury = treasury]
        /\ Go(p, "c_history")
        /\ UNCHANGED behind
     \/ Fault /\ Finish(p)
  /\ CapitalIdle

\* findLatestByDirection("topup"), which throws if it fails.
ReadHistory(p) ==
  /\ At(p, "c_history")
  /\ \/ /\ NoFault
        /\ book' = [book EXCEPT ![p].cooldown = cooldown]
        /\ Go(p, "c_decide")
        /\ UNCHANGED behind
     \/ Fault /\ Finish(p)
  /\ CapitalIdle

\* decide returns one action; the switch is read here, in memory.
DecideFor(p, place, n) ==
  /\ Go(p, place)
  /\ amount' = [amount EXCEPT ![p] = n]
  /\ book' = [book EXCEPT ![p] = NoBook]
  /\ UNCHANGED behind

DecideForNothing(p) == Finish(p) /\ UNCHANGED amount

DecideNormally(p, b, suppressed) ==
  \/ SweepDue(b, suppressed) /\ DecideFor(p, "c_guard", SweepAmount(b))
  \/ /\ ~SweepDue(b, suppressed)
     /\ UnwindDue(b)
     /\ DecideFor(p, "c_unwind", Least(Chunk, b.stock))
  \/ /\ ~SweepDue(b, suppressed)
     /\ ~UnwindDue(b)
     /\ IF TopupDue(b) THEN DecideFor(p, "c_send", Chunk) ELSE DecideForNothing(p)

\* Mutant: with nothing to return an armed desk is decided for like another.
DecideOn(p) ==
  /\ At(p, "c_decide")
  /\ IF Armed /\ ReturnAmount(book[p]) > 0
       THEN DecideFor(p, "c_run", ReturnAmount(book[p]))
       ELSE \E suppressed \in BOOLEAN : DecideNormally(p, book[p], suppressed)
  /\ NoFault
  /\ UNCHANGED <<moveVars, cooldown, paid, past, switch>>

\* The emergency comes first, and nothing else is decided in one.
Decide(p) ==
  /\ At(p, "c_decide")
  /\ IF Armed
       THEN IF ReturnAmount(book[p]) > 0
              THEN DecideFor(p, "c_run", ReturnAmount(book[p]))
              ELSE DecideForNothing(p)
       ELSE \E suppressed \in BOOLEAN : DecideNormally(p, book[p], suppressed)
  /\ NoFault
  /\ UNCHANGED <<moveVars, cooldown, paid, past, switch>>

-----------------------------------------------------------------------------
(* Top-up *)

\* The calls whose readings a transfer of p outdates.
Reads(q) ==
  CASE pc[q] = "c_treasury" -> {"equity"}
    [] pc[q] \in {"c_history", "c_decide", "c_send"} -> Reading
    [] OTHER -> {}

\* lost: what no caller will hear of.
TopupMoved(p, lost) ==
  /\ treasury >= Chunk
  /\ treasury' = treasury - Chunk
  /\ desk' = desk + Chunk
  /\ past' = past \union behind[p] \union lost
  /\ behind' = [q \in Proc |-> IF q = p THEN {} ELSE behind[q] \union Reads(q)]
  /\ UNCHANGED stock

\* paraTreasury.sendTransfer, under a fresh key: broadcast, refused, lost after
\* the broadcast, or answered with a hash that is reverted.
SendTopup(p) ==
  /\ At(p, "c_send")
  /\ \/ /\ NoFault
        /\ TopupMoved(p, {})
        /\ paid' = paid \union {p}
        /\ Go(p, "c_verify")
        /\ UNCHANGED book
     \/ /\ NoFault
        /\ treasury < Chunk
        /\ Finish(p)
        /\ UNCHANGED <<chainVars, past, paid>>
     \/ /\ Fault
        /\ Finish(p)
        /\ UNCHANGED <<chainVars, past, paid>>
     \/ /\ Fault
        /\ TopupMoved(p, {"untold"})
        /\ Go(p, AfterCapital(p))
        /\ UNCHANGED <<book, paid>>
     \/ /\ Fault
        /\ Go(p, "c_verify")
        /\ behind' = [behind EXCEPT ![p] = {}]
        /\ UNCHANGED <<chainVars, past, book, paid>>
  /\ UNCHANGED <<booked, late, amount, cooldown, switch>>

GiveUpTopup(p) ==
  /\ IF p \in paid THEN Happens("untold") ELSE UNCHANGED past
  /\ paid' = paid \ {p}
  /\ Go(p, AfterCapital(p))

\* Mutant: a hash is as good as a transfer.
VerifyHashOnly(p) ==
  /\ At(p, "c_verify")
  /\ NoFault
  /\ Go(p, "c_record_in")
  /\ UNCHANGED <<chainVars, booked, late, amount, switch, past, capitalVars>>

\* verifyTransfer reads the receipt.
VerifyTopup(p) ==
  /\ At(p, "c_verify")
  /\ \/ NoFault /\ p \in paid /\ Go(p, "c_record_in") /\ UNCHANGED <<paid, past>>
     \/ NoFault /\ p \notin paid /\ GiveUpTopup(p)
     \/ Fault /\ GiveUpTopup(p)
  /\ UNCHANGED <<chainVars, booked, late, amount, switch, book, cooldown, behind>>

\* findByTxHash and create; an insert that is reported as an error may be there.
RecordTopup(p) ==
  /\ At(p, "c_record_in")
  /\ \/ /\ NoFault
        /\ Inserted(amount[p])
        /\ cooldown' = "on"
        /\ UNCHANGED past
     \/ /\ Fault
        /\ cooldown' \in {cooldown, "on"}
        /\ UNCHANGED booked
        /\ Happens("untold")
  /\ paid' = paid \ {p}
  /\ Go(p, AfterCapital(p))
  /\ UNCHANGED <<chainVars, late, amount, switch, book, behind>>

-----------------------------------------------------------------------------
(* Sweep, emergency return, unwinding *)

\* A sweep reads the desk's balance again and keeps the powder; an emergency
\* return does not come by here.
GuardSweep(p) ==
  /\ At(p, "c_guard")
  /\ \/ /\ NoFault
        /\ LET n == Least(amount[p], Excess(desk, MinFree))
           IN IF n > 0
                THEN amount' = [amount EXCEPT ![p] = n] /\ Go(p, "c_run")
                ELSE Go(p, AfterCapital(p)) /\ UNCHANGED amount
     \/ Fault /\ Go(p, AfterCapital(p)) /\ UNCHANGED amount
  /\ UNCHANGED <<moveVars, switch, past, capitalVars>>

RunReturn(p) ==
  /\ At(p, "c_run")
  /\ AwaitRun(p, "return", "c_record_out", AfterCapital(p), AfterCapital(p))
  /\ UNCHANGED <<amount, switch, capitalVars>>

RecordReturn(p) ==
  /\ At(p, "c_record_out")
  /\ \/ NoFault /\ Inserted(-amount[p]) /\ UNCHANGED past
     \/ Fault /\ Happens("untold") /\ UNCHANGED booked
  /\ Go(p, AfterCapital(p))
  /\ UNCHANGED <<chainVars, late, amount, switch, capitalVars>>

\* executeFreeInventory moves inside the desk and records nothing.
RunUnwind(p) ==
  /\ At(p, "c_unwind")
  /\ AwaitRun(p, "unwind", AfterCapital(p), AfterCapital(p), AfterCapital(p))
  /\ UNCHANGED <<amount, switch, capitalVars>>

CooldownEnds ==
  /\ cooldown = "on"
  /\ cooldown' = "off"
  /\ UNCHANGED <<moveVars, switch, pc, amount, past, faults, book, paid, behind>>

CapitalStep(p) ==
  \/ MarkDesk(p) \/ ReadTreasury(p) \/ ReadHistory(p) \/ Decide(p)
  \/ SendTopup(p) \/ VerifyTopup(p) \/ RecordTopup(p)
  \/ GuardSweep(p) \/ RunReturn(p) \/ RecordReturn(p) \/ RunUnwind(p)

=============================================================================
