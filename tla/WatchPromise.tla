----------------------------- MODULE WatchPromise -----------------------------
(***************************************************************************)
(* What the service promises to whoever ordered a watch, seen from         *)
(* outside: the row moves past an event only after it was heard of, asks   *)
(* for a report only when its campaign is over, is closed once, with a     *)
(* report that was asked for, and never speaks again; the registry holds   *)
(* one report of a campaign, one of those it was asked to hold.            *)
(*                                                                         *)
(* How the service gets there (runs of the cycle, its phases, throttles,   *)
(* alerts and their retries, restarts, calls that create watches) is not   *)
(* visible at this level.                                                  *)
(***************************************************************************)
EXTENDS Integers

CONSTANTS Watch, Campaign, Event, Text, None

VARIABLES
  clock,
  row,       \* what a watch shows: Watch -> Row
  heard,     \* events that its audience was told of, or need not be told of
  asked,     \* reports asked for, per campaign
  published  \* the report of a campaign on the registry

promiseVars == <<clock, row, heard, asked, published>>

Report == [root : SUBSET Event, text : Text]

NoRow == [status |-> "none"]

OpenRow ==
  [status : {"open"}, campaign : Campaign, ends : Nat, passed : SUBSET Event]

PromiseInit ==
  /\ clock = 0
  /\ row = [w \in Watch |-> NoRow]
  /\ heard = [w \in Watch |-> {}]
  /\ asked = [i \in Campaign |-> {}]
  /\ published = [i \in Campaign |-> None]

Show(w, r) ==
  /\ row' = [row EXCEPT ![w] = r]
  /\ UNCHANGED <<clock, heard, asked, published>>

IsOpen(w) == row[w].status = "open"

IsOver(w) == row[w].ends <= clock

Begin(w) ==
  /\ row[w] = NoRow
  /\ row'[w] \in OpenRow /\ row'[w].passed = {}
  /\ Show(w, row'[w])

Hear(w) ==
  /\ IsOpen(w)
  /\ \E events \in SUBSET Event : heard' = [heard EXCEPT ![w] = @ \union events]
  /\ UNCHANGED <<clock, row, asked, published>>

\* The set may shrink: an event may be forgotten, and then heard of again.
Pass(w) ==
  /\ IsOpen(w)
  /\ \E events \in SUBSET heard[w] : Show(w, [row[w] EXCEPT !.passed = events])

Ask(w) ==
  /\ IsOpen(w) /\ IsOver(w)
  /\ \E r \in Report : asked' = [asked EXCEPT ![row[w].campaign] = @ \union {r}]
  /\ UNCHANGED <<clock, row, heard, published>>

Close(w) ==
  /\ IsOpen(w) /\ IsOver(w)
  /\ \E r \in asked[row[w].campaign] : Show(w, [status |-> "closed", report |-> r])

Anchor(i) ==
  /\ published[i] = None
  /\ \E r \in asked[i] : published' = [published EXCEPT ![i] = r]
  /\ UNCHANGED <<clock, row, heard, asked>>

Pace ==
  /\ clock' = clock + 1
  /\ UNCHANGED <<row, heard, asked, published>>

PromiseNext ==
  \/ \E w \in Watch : Begin(w) \/ Hear(w) \/ Pass(w) \/ Ask(w) \/ Close(w)
  \/ \E i \in Campaign : Anchor(i)
  \/ Pace

PromiseSpec == PromiseInit /\ [][PromiseNext]_promiseVars

\* What follows from it at any time: an open row has passed only what was heard
\* of, and a closed row and the registry show reports that were asked for.
Honest ==
  /\ \A w \in Watch :
       /\ heard[w] \subseteq Event
       /\ IsOpen(w) => row[w] \in OpenRow /\ row[w].passed \subseteq heard[w]
       /\ row[w].status = "closed" => \E i \in Campaign : row[w].report \in asked[i]
  /\ \A i \in Campaign : published[i] = None \/ published[i] \in asked[i]

=============================================================================
