--------------------------- MODULE CctpPromiseProofs ---------------------------
(***************************************************************************)
(* Proofs about CctpRebalance: what a row says of its burn and its mint is *)
(* so, its statuses move as documented, and the service implements the     *)
(* promise of one transfer (CctpTransfer), for every set of rows and       *)
(* requests, every amount and every combination of faults.                 *)
(***************************************************************************)
EXTENDS CctpRebalanceProofs

-----------------------------------------------------------------------------
(* What rows and processes know *)

Recorded == ResumableStatuses \union {"minted"}

\* What a row says agrees with the chains.
Accurate(s, r) ==
  /\ s.status = "none" => burn[r] = "none"
  /\ s.status \in Recorded => s.hash /\ burn[r] = "done"
  /\ s.status = "minting" => s.message
  /\ s.message => r \in attested
  /\ s.status = "minted" => s.via /= "none"
  /\ s.status = "minted" /\ s.via \in {"direct", "nonce_used"} => r \in mint
  /\ s.status \in InFlightStatuses => s.attempts < MintMaxAttempts

RowFacts(r) == Accurate(row[r], r)

\* Nothing is attested or can be minted that was not burned.
ChainFacts(r) ==
  /\ r \in attested => burn[r] = "done"
  /\ r \in loose => burn[r] = "done"

\* A process that starts a transfer is alone with its row.
StartFacts(p) ==
  /\ pc[p] = "begin" => row[cur[p]].status = "pending"
  /\ pc[p] \in {"allowance", "approve", "to_burning"} => row[cur[p]].status = "approving"
  /\ pc[p] \in {"burn", "burn_receipt", "record_burn"} => row[cur[p]].status = "burning"
  /\ pc[p] = "fail_start" => row[cur[p]].status \in {"approving", "burning"}
  /\ pc[p] \in {"begin", "allowance", "approve", "to_burning", "burn"} => burn[cur[p]] = "none"
  /\ pc[p] = "record_burn" => burn[cur[p]] = "done"

\* The row objects of a list are old, but what they say of messages stays true.
CopyFacts(p) ==
  \A r \in Row :
    /\ copy[p][r].status = "minting" => copy[p][r].message
    /\ copy[p][r].message => r \in attested

\* A process mints with a message, and says minted of what is.
MintFacts(p) ==
  /\ pc[p] \in {"send_mint", "mint_receipt"} => copy[p][cur[p]].message
  /\ pc[p] = "to_minting" => cur[p] \in attested
  /\ pc[p] \in {"record_mint", "treat_as_minted"} => cur[p] \in mint
  /\ pc[p] = "mint_receipt" /\ receipt[p] = "ok" => cur[p] \in mint
  /\ pc[p] = "retry_later" => Attempt(p) < MintMaxAttempts
  /\ receipt[p] /= "none" => pc[p] \in {"mint_receipt", "record_mint", "fail_mint", "retry_later"}
  /\ \A r \in Row : p \in pool[r] => pc[p] = "mint_receipt" /\ cur[p] = r /\ receipt[p] = "none"

Alone ==
  \A p, q \in Proc :
    pc[p] \in StartPlaces /\ pc[q] \in StartPlaces /\ cur[p] = cur[q] => p = q

ProcFacts(p) == StartFacts(p) /\ CopyFacts(p) /\ MintFacts(p)

Facts ==
  /\ \A r \in Row : RowFacts(r) /\ ChainFacts(r)
  /\ \A p \in Proc : ProcFacts(p)
  /\ Alone

LEMMA InitFacts == Init => Facts
<1> SUFFICES ASSUME Init PROVE Facts
  OBVIOUS
<1>1. ASSUME NEW r \in Row
      PROVE  RowFacts(r) /\ ChainFacts(r)
  BY RebalanceConfig DEF Init, RowFacts, Accurate, ChainFacts, EmptyRow, Recorded, ResumableStatuses, InFlightStatuses
<1>2. ASSUME NEW p \in Proc
      PROVE  ProcFacts(p)
  BY DEF Init, ProcFacts, StartFacts, CopyFacts, MintFacts, EmptyRow
<1>3. Alone
  BY DEF Init, Alone, StartPlaces
<1> QED BY <1>1, <1>2, <1>3 DEF Facts

\* The others stand still.
Aside(p) ==
  \A q \in Proc \ {p} :
    /\ pc'[q] = pc[q] /\ cur'[q] = cur[q] /\ copy'[q] = copy[q] /\ receipt'[q] = receipt[q]
    /\ \A r \in Row : q \in pool'[r] => q \in pool[r]

\* Nobody who starts a transfer finds its row or its burn changed.
StartersKeep(p) ==
  \A q \in Proc \ {p} : pc[q] \in StartPlaces =>
    row'[cur[q]].status = row[cur[q]].status /\ burn'[cur[q]] = burn[cur[q]]

\* A process that stands still keeps what it knows while the world only learns.
LEMMA StillKeeps ==
  ASSUME TypeOK, NEW q \in Proc, ProcFacts(q),
         pc'[q] = pc[q], cur'[q] = cur[q], copy'[q] = copy[q], receipt'[q] = receipt[q],
         \A r \in Row : q \in pool'[r] => q \in pool[r],
         attested \subseteq attested', mint \subseteq mint',
         pc[q] \in StartPlaces =>
           /\ row'[cur[q]].status = row[cur[q]].status
           /\ burn'[cur[q]] = burn[cur[q]] \/ burn[cur[q]] = "sent"
  PROVE  ProcFacts(q)'
<1>1. StartFacts(q)'
  BY DEF ProcFacts, StartFacts, StartPlaces
<1>2. CopyFacts(q)'
  BY DEF ProcFacts, CopyFacts
<1>3. MintFacts(q)'
  BY DEF ProcFacts, MintFacts, Attempt
<1> QED BY <1>1, <1>2, <1>3 DEF ProcFacts

\* A step of one process keeps the facts where it keeps its own, the rows' and
\* the starters' of other rows.
LEMMA StepKeeps ==
  ASSUME TypeOK, Facts, NEW p \in Proc, Aside(p), StartersKeep(p),
         UNCHANGED <<attested, mint>>,
         \A r \in Row : RowFacts(r)' /\ ChainFacts(r)',
         ProcFacts(p)',
         pc'[p] \in StartPlaces =>
           \A q \in Proc \ {p} : pc[q] \in StartPlaces => cur[q] /= cur'[p]
  PROVE  Facts'
<1>1. \A q \in Proc \ {p} : ProcFacts(q)'
  <2> TAKE q \in Proc \ {p}
  <2> QED BY StillKeeps DEF Facts, Aside, StartersKeep
<1>2. Alone'
  BY DEF Facts, Alone, Aside
<1> QED BY <1>1, <1>2 DEF Facts

LEMMA UntouchedRows ==
  ASSUME Facts, UNCHANGED <<row, burn, attested, mint, loose>>
  PROVE  \A r \in Row : RowFacts(r)' /\ ChainFacts(r)'
BY DEF Facts, RowFacts, Accurate, ChainFacts

LEMMA AsideOf ==
  ASSUME TypeOK, NEW p \in Proc, UNCHANGED pool,
         \/ Stop(p) \/ Return(p)
         \/ \E place \in Locations : Stay(p, place)
         \/ \E place \in Locations : \E new : Hold(p, new, place)
  PROVE  Aside(p)
BY DEF TypeOK, LocalsOK, Aside, Stop, Return, Stay, Hold, Goto

\* A call that ends.
LEMMA StopFacts ==
  ASSUME TypeOK, Facts, NEW p \in Proc, Stop(p), UNCHANGED <<attested, pool>>,
         pc[p] \notin MintPlaces
  PROVE  Aside(p) /\ ProcFacts(p)' /\ pc'[p] \notin StartPlaces
<1>1. pc'[p] \in {"idle", "answered"} /\ copy' = copy /\ receipt' = receipt
  BY DEF Stop, Goto, Rest, TypeOK, LocalsOK
<1>2. receipt[p] = "none" /\ \A r \in Row : p \notin pool[r]
  BY DEF Facts, ProcFacts, MintFacts, MintPlaces
<1>3. ProcFacts(p)'
  BY <1>1, <1>2 DEF Facts, ProcFacts, StartFacts, CopyFacts, MintFacts
<1> QED BY <1>1, <1>3, AsideOf DEF StartPlaces

\* A row of the list is done with.
LEMMA ReturnFacts ==
  ASSUME TypeOK, Facts, NEW p \in Proc, Return(p), UNCHANGED <<attested, pool>>,
         pc[p] \in RowPlaces \ {"mint_receipt"}
  PROVE  Aside(p) /\ ProcFacts(p)' /\ pc'[p] \notin StartPlaces
<1>1. /\ pc'[p] = "next" /\ receipt'[p] = "none" /\ cur[p] \in Row
      /\ copy'[p][cur[p]] = EmptyRow
      /\ \A r \in Row \ {cur[p]} : copy'[p][r] = copy[p][r]
  BY DEF Return, Goto, TypeOK, LocalsOK
<1>2. \A r \in Row : p \notin pool[r]
  BY DEF Facts, ProcFacts, MintFacts
<1>3. CopyFacts(p)'
  BY <1>1 DEF Facts, ProcFacts, CopyFacts, EmptyRow
<1>4. ProcFacts(p)'
  BY <1>1, <1>2, <1>3 DEF ProcFacts, StartFacts, MintFacts
<1> QED BY <1>1, <1>4, AsideOf DEF StartPlaces

\* A step that touches neither the table nor the chains.
LEMMA QuietKeeps ==
  ASSUME TypeOK, Facts, NEW p \in Proc, Aside(p), UNCHANGED <<row, chain>>, ProcFacts(p)',
         pc'[p] \in StartPlaces => pc[p] \in StartPlaces /\ cur'[p] = cur[p]
  PROVE  Facts'
<1>1. UNCHANGED <<burn, attested, mint, loose>>
  BY DEF chain
<1>2. StartersKeep(p)
  BY <1>1 DEF StartersKeep
<1>3. pc'[p] \in StartPlaces =>
        \A q \in Proc \ {p} : pc[q] \in StartPlaces => cur[q] /= cur'[p]
  BY DEF Facts, Alone
<1> QED BY <1>1, <1>2, <1>3, UntouchedRows, StepKeeps

-----------------------------------------------------------------------------
(* Steps that only read *)

\* Deciding whether to start a transfer, and starting a call.
LEMMA DecidingFacts ==
  ASSUME TypeOK, Facts, NEW p \in Proc,
         \/ ReadBalances(p) \/ CountInFlight(p) \/ ReadLastBurn(p)
         \/ (p = Worker /\ StartCycle) \/ StartForce(p) \/ StartResume(p)
  PROVE  Facts'
<1>1. /\ UNCHANGED <<table, chain, cur, copy, receipt>>
      /\ \E place \in {"list", "balances", "count", "last_burn", "decide"} : Goto(p, place)
      /\ pc[p] \in {"idle", "balances", "count", "last_burn"}
  BY DEF ReadBalances, CountInFlight, ReadLastBurn, StartCycle, StartForce, StartResume, Goto
<1>2. Aside(p) /\ pc'[p] \in {"list", "balances", "count", "last_burn", "decide"}
  BY <1>1 DEF Aside, Goto, TypeOK, LocalsOK, chain
<1>3. receipt[p] = "none" /\ \A r \in Row : p \notin pool[r]
  BY <1>1 DEF Facts, ProcFacts, MintFacts
<1>4. ProcFacts(p)'
  BY <1>1, <1>2, <1>3 DEF Facts, ProcFacts, StartFacts, CopyFacts, MintFacts, chain
<1> QED BY <1>1, <1>2, <1>4, QuietKeeps DEF StartPlaces, table

LEMMA EndingFacts ==
  ASSUME TypeOK, Facts, NEW p \in Proc, ReadFails(p) \/ Skip(p)
  PROVE  Facts'
<1>1. Stop(p) /\ UNCHANGED <<table, chain>> /\ pc[p] \notin MintPlaces
  BY DEF ReadFails, Skip, MintPlaces
<1> QED BY <1>1, StopFacts, QuietKeeps DEF table, chain

\* What startTransfer reads and awaits.
LEMMA BurningFacts ==
  ASSUME TypeOK, Facts, NEW p \in Proc,
         ReadAllowance(p) \/ BurnNotSent(p) \/ BurnConfirmed(p) \/ BurnThrows(p)
  PROVE  Facts'
<1>1. /\ UNCHANGED <<table, chain>>
      /\ pc[p] \in {"allowance", "burn", "burn_receipt"}
      /\ \E place \in {"approve", "to_burning", "fail_start", "record_burn"} :
           /\ Stay(p, place)
           /\ place \in {"approve", "to_burning"} => pc[p] = "allowance"
           /\ place = "record_burn" => pc[p] = "burn_receipt" /\ burn[cur[p]] = "done"
  BY DEF ReadAllowance, BurnNotSent, BurnConfirmed, BurnThrows
<1>2. PICK place \in {"approve", "to_burning", "fail_start", "record_burn"} :
           /\ Stay(p, place)
           /\ place \in {"approve", "to_burning"} => pc[p] = "allowance"
           /\ place = "record_burn" => pc[p] = "burn_receipt" /\ burn[cur[p]] = "done"
  BY <1>1
<1>3. pc'[p] = place /\ UNCHANGED <<cur, copy, receipt>> /\ place \in Locations
  BY <1>2, PlacesKnown DEF Stay, Goto, TypeOK, LocalsOK, StartPlaces
<1>4. Aside(p)
  BY <1>1, <1>2, <1>3, AsideOf DEF chain
<1>5. ProcFacts(p)'
  <2>1. StartFacts(p)'
    BY <1>1, <1>2, <1>3 DEF Facts, ProcFacts, StartFacts, table, chain
  <2>2. CopyFacts(p)' /\ MintFacts(p)'
    BY <1>1, <1>2, <1>3 DEF Facts, ProcFacts, CopyFacts, MintFacts, chain
  <2> QED BY <2>1, <2>2 DEF ProcFacts
<1> QED BY <1>1, <1>3, <1>4, <1>5, QuietKeeps DEF StartPlaces, table

LEMMA ListingFacts ==
  ASSUME TypeOK, Facts, NEW p \in Proc, List(p) \/ EndResume(p) \/ NextRow(p)
  PROVE  Facts'
<1>q. UNCHANGED <<table, chain>> /\ pc[p] \in {"list", "next"}
  BY DEF List, EndResume, NextRow
<1>i. receipt[p] = "none" /\ \A r \in Row : p \notin pool[r]
  BY <1>q DEF Facts, ProcFacts, MintFacts
<1>1. CASE List(p)
  <2>1. pc'[p] = "next" /\ Aside(p) /\ UNCHANGED <<cur, receipt>>
    BY <1>1 DEF List, Goto, Aside, TypeOK, LocalsOK, chain
  <2>2. \A r \in Row : copy'[p][r] = copy[p][r] \/ copy'[p][r] = EmptyRow \/ copy'[p][r] = row[r]
    BY <1>1 DEF List, TypeOK, LocalsOK
  <2>3. CopyFacts(p)'
    <3>1. EmptyRow.status /= "minting" /\ ~EmptyRow.message
      BY DEF EmptyRow
    <3>2. attested' = attested
      BY <1>q DEF chain
    <3> QED BY <2>2, <3>1, <3>2 DEF Facts, RowFacts, Accurate, ProcFacts, CopyFacts
  <2>4. ProcFacts(p)'
    BY <1>q, <1>i, <2>1, <2>3 DEF ProcFacts, StartFacts, MintFacts, chain
  <2> QED BY <1>q, <2>1, <2>4, QuietKeeps DEF StartPlaces, table
<1>2. CASE EndResume(p)
  <2>1. CASE Stop(p)
    <3>1. pc[p] \notin MintPlaces
      BY <1>q DEF MintPlaces
    <3> QED BY <1>q, <2>1, <3>1, StopFacts, QuietKeeps DEF table, chain
  <2>2. CASE Goto(p, "balances") /\ UNCHANGED <<cur, copy, seen, receipt>>
    <3>1. pc'[p] = "balances" /\ Aside(p)
      BY <1>q, <2>2 DEF Goto, Aside, TypeOK, LocalsOK, chain
    <3>2. ProcFacts(p)'
      BY <1>q, <1>i, <2>2, <3>1 DEF Facts, ProcFacts, StartFacts, CopyFacts, MintFacts, chain
    <3> QED BY <1>q, <3>1, <3>2, QuietKeeps DEF StartPlaces, table
  <2> QED BY <1>2, <2>1, <2>2 DEF EndResume
<1>3. CASE NextRow(p)
  <2>1. PICK r \in Row : /\ copy[p][r] /= EmptyRow
                         /\ cur' = [cur EXCEPT ![p] = r]
                         /\ Goto(p, PlaceFor(copy[p][r]))
                         /\ UNCHANGED <<copy, receipt>>
    BY <1>3 DEF NextRow
  <2>2. /\ pc'[p] = PlaceFor(copy[p][r]) /\ cur'[p] = r /\ Aside(p)
        /\ pc'[p] \in {"unstick", "send_mint", "to_minting", "poll"}
    BY <1>q, <2>1 DEF Goto, Aside, TypeOK, LocalsOK, chain, PlaceFor
  <2>3. /\ pc'[p] = "send_mint" => copy[p][r].message
        /\ pc'[p] = "to_minting" => r \in attested
    BY <2>2 DEF PlaceFor, Facts, ProcFacts, CopyFacts
  <2>4. CopyFacts(p)' /\ StartFacts(p)'
    BY <1>q, <2>1, <2>2 DEF Facts, ProcFacts, CopyFacts, StartFacts, chain
  <2>5. MintFacts(p)'
    BY <1>q, <1>i, <2>1, <2>2, <2>3 DEF MintFacts, chain
  <2> QED BY <1>q, <2>2, <2>4, <2>5, QuietKeeps DEF ProcFacts, StartPlaces, table
<1> QED BY <1>1, <1>2, <1>3

LEMMA PollingFacts ==
  ASSUME TypeOK, Facts, NEW p \in Proc,
         PollForwarded(p) \/ PollComplete(p) \/ PollTimeout(p) \/ Reread(p)
  PROVE  Facts'
<1>q. UNCHANGED <<table, chain>> /\ pc[p] \in {"poll", "reread"}
  BY DEF PollForwarded, PollComplete, PollTimeout, Reread
<1>i. /\ receipt[p] = "none" /\ cur[p] \in Row
      /\ \A r \in Row : p \notin pool[r]
      /\ pc[p] \in RowPlaces \ {"mint_receipt"}
  BY <1>q, PlacesKnown DEF Facts, ProcFacts, MintFacts, TypeOK, LocalsOK, PollPlaces
<1>1. CASE PollForwarded(p) \/ PollComplete(p) \/ PollTimeout(p)
  <2>1. PICK place \in {"accept_forward", "to_minting", "mark_stuck"} :
          Stay(p, place) /\ (place = "to_minting" => cur[p] \in attested)
    BY <1>1 DEF PollForwarded, PollComplete, PollTimeout
  <2>2. /\ pc'[p] = place /\ UNCHANGED <<cur, copy, receipt>>
        /\ place \in Locations /\ place \notin StartPlaces
    BY <2>1, PlacesKnown DEF Stay, Goto, TypeOK, LocalsOK, PollPlaces, StartPlaces
  <2>3. Aside(p)
    BY <1>q, <2>1, <2>2, AsideOf DEF chain
  <2>4. ProcFacts(p)'
    BY <1>q, <1>i, <2>1, <2>2 DEF Facts, ProcFacts, CopyFacts, StartFacts, MintFacts, chain
  <2> QED BY <1>q, <2>2, <2>3, <2>4, QuietKeeps DEF table
<1>2. CASE Return(p)
  BY <1>q, <1>i, <1>2, ReturnFacts, QuietKeeps DEF table, chain
<1>3. CASE row[cur[p]].status = "minting" /\ Hold(p, row[cur[p]], "send_mint")
  <2>1. /\ pc'[p] = "send_mint" /\ UNCHANGED <<cur, receipt>>
        /\ copy'[p][cur[p]] = row[cur[p]]
        /\ \A r \in Row \ {cur[p]} : copy'[p][r] = copy[p][r]
    BY <1>i, <1>3 DEF Hold, Goto, TypeOK, LocalsOK
  <2>2. "send_mint" \in Locations /\ "send_mint" \notin StartPlaces
    BY PlacesKnown DEF MintPlaces, StartPlaces
  <2>3. Aside(p)
    BY <1>q, <1>3, <2>2, AsideOf DEF chain
  <2>4. CopyFacts(p)' /\ copy'[p][cur[p]].message
    BY <1>q, <1>i, <1>3, <2>1 DEF Facts, RowFacts, Accurate, ProcFacts, CopyFacts, chain
  <2>5. ProcFacts(p)'
    BY <1>q, <1>i, <2>1, <2>4 DEF ProcFacts, StartFacts, MintFacts, chain
  <2> QED BY <1>q, <2>1, <2>2, <2>3, <2>5, QuietKeeps DEF table
<1> QED BY <1>1, <1>2, <1>3 DEF Reread

\* receiveMessage answered, or was not sent.
LEMMA AnsweredFacts ==
  ASSUME TypeOK, Facts, NEW p \in Proc,
         MintNotSent(p) \/ MintConfirmed(p) \/ MintReverted(p)
  PROVE  Facts'
<1>q. UNCHANGED <<table, chain>> /\ pc[p] \in {"send_mint", "mint_receipt"}
  BY DEF MintNotSent, MintConfirmed, MintReverted
<1>i. /\ cur[p] \in Row
      /\ pc[p] = "send_mint" => receipt[p] = "none"
  BY <1>q, PlacesKnown DEF Facts, ProcFacts, MintFacts, TypeOK, LocalsOK, MintPlaces
<1>1. PICK place \in {"treat_as_minted", "record_mint", "fail_mint", "retry_later"} :
        /\ Stay(p, place)
        /\ place = "treat_as_minted" => cur[p] \in mint /\ pc[p] = "send_mint"
        /\ place = "record_mint" => cur[p] \in mint
        /\ place = "retry_later" => Attempt(p) < MintMaxAttempts
        /\ \A r \in Row : p \notin pool[r]
  <2>1. CASE MintNotSent(p)
    BY <2>1 DEF MintNotSent, PlaceAfterError, Facts, ProcFacts, MintFacts
  <2>2. CASE MintConfirmed(p)
    BY <2>2 DEF MintConfirmed, Facts, ProcFacts, MintFacts
  <2>3. CASE MintReverted(p)
    BY <2>3 DEF MintReverted, PlaceAfterError, Facts, ProcFacts, MintFacts
  <2> QED BY <2>1, <2>2, <2>3
<1>2. /\ pc'[p] = place /\ UNCHANGED <<cur, copy, receipt>>
      /\ place \in Locations /\ place \notin StartPlaces
  BY <1>1, PlacesKnown DEF Stay, Goto, TypeOK, LocalsOK, MintPlaces, StartPlaces
<1>3. Aside(p)
  BY <1>q, <1>1, <1>2, AsideOf DEF chain
<1>4. MintFacts(p)'
  BY <1>q, <1>i, <1>1, <1>2 DEF MintFacts, Attempt, chain
<1>5. ProcFacts(p)'
  BY <1>q, <1>1, <1>2, <1>4 DEF Facts, ProcFacts, CopyFacts, StartFacts, chain
<1> QED BY <1>q, <1>2, <1>3, <1>5, QuietKeeps DEF table

-----------------------------------------------------------------------------
(* Steps that update a row *)

LEMMA FromResumable ==
  /\ {"stuck"} \subseteq ResumableStatuses /\ {"minting"} \subseteq ResumableStatuses
  /\ {"awaiting_attestation"} \subseteq ResumableStatuses
  /\ {"awaiting_attestation", "stuck"} \subseteq ResumableStatuses
BY DEF ResumableStatuses

\* A row that is updated stays accurate, and so do the others.
LEMMA UpdatedRow ==
  ASSUME TypeOK, Facts, NEW p \in Proc, cur[p] \in Row, NEW from, NEW new,
         Transition(cur[p], from, new) \/ TransitionFails(cur[p], from, new),
         row[cur[p]].status \in from => Accurate(new, cur[p]),
         pc[p] \in StartPlaces \/ from \subseteq ResumableStatuses,
         UNCHANGED chain
  PROVE  (\A r \in Row : RowFacts(r)' /\ ChainFacts(r)') /\ StartersKeep(p)
<1>0. UNCHANGED <<burn, attested, mint, loose>>
  BY DEF chain
<1>1. CASE row' = row
  BY <1>0, <1>1, UntouchedRows DEF StartersKeep
<1>2. CASE row[cur[p]].status \in from /\ row' = [row EXCEPT ![cur[p]] = new]
  <2>1. row'[cur[p]] = new /\ \A r \in Row \ {cur[p]} : row'[r] = row[r]
    BY <1>2 DEF TypeOK, TableOK
  <2>2. \A r \in Row : RowFacts(r)' /\ ChainFacts(r)'
    BY <1>0, <1>2, <2>1 DEF Facts, RowFacts, Accurate, ChainFacts
  <2>3. ASSUME NEW q \in Proc \ {p}, pc[q] \in StartPlaces
        PROVE  cur[q] /= cur[p] /\ cur[q] \in Row
    <3>1. cur[q] \in Row
      BY <2>3, PlacesKnown DEF TypeOK, LocalsOK
    <3>2. row[cur[q]].status \in {"pending", "approving", "burning"}
      BY <2>3 DEF Facts, ProcFacts, StartFacts, StartPlaces
    <3>3. CASE pc[p] \in StartPlaces
      BY <2>3, <3>1, <3>3 DEF Facts, Alone
    <3>4. CASE from \subseteq ResumableStatuses
      BY <1>2, <3>1, <3>2, <3>4 DEF ResumableStatuses
    <3> QED BY <3>3, <3>4
  <2>4. StartersKeep(p)
    BY <1>0, <2>1, <2>3 DEF StartersKeep
  <2> QED BY <2>2, <2>4
<1> QED BY <1>1, <1>2, TransitionEffect

\* The call ends, or goes on to the next row, whatever the update did.
LEMMA LeavingKeeps ==
  ASSUME TypeOK, Facts, NEW p \in Proc, UNCHANGED chain,
         \/ Stop(p) /\ pc[p] \notin MintPlaces
         \/ Return(p) /\ pc[p] \in RowPlaces \ {"mint_receipt"},
         StartersKeep(p), \A r \in Row : RowFacts(r)' /\ ChainFacts(r)'
  PROVE  Facts'
<1>1. UNCHANGED <<attested, pool, mint>>
  BY DEF chain
<1>2. Aside(p) /\ ProcFacts(p)' /\ pc'[p] \notin StartPlaces
  BY <1>1, StopFacts, ReturnFacts
<1> QED BY <1>1, <1>2, StepKeeps

\* startTransfer goes on with the row in its new status.
LEMMA StartingKeeps ==
  ASSUME TypeOK, Facts, NEW p \in Proc, UNCHANGED chain, pc[p] \in StartPlaces,
         NEW place \in StartPlaces, Stay(p, place),
         StartersKeep(p), \A r \in Row : RowFacts(r)' /\ ChainFacts(r)', StartFacts(p)'
  PROVE  Facts'
<1>1. UNCHANGED <<attested, pool, mint>>
  BY DEF chain
<1>2. /\ pc'[p] = place /\ UNCHANGED <<cur, copy, receipt>> /\ place \in Locations
  BY PlacesKnown DEF Stay, Goto, TypeOK, LocalsOK
<1>3. Aside(p)
  BY <1>1, <1>2, AsideOf
<1>4. receipt[p] = "none" /\ \A r \in Row : p \notin pool[r]
  BY DEF Facts, ProcFacts, MintFacts, StartPlaces
<1>5. CopyFacts(p)' /\ MintFacts(p)'
  BY <1>1, <1>2, <1>4 DEF Facts, ProcFacts, CopyFacts, MintFacts, StartPlaces
<1>6. \A q \in Proc \ {p} : pc[q] \in StartPlaces => cur[q] /= cur'[p]
  BY <1>2 DEF Facts, Alone
<1> QED BY <1>1, <1>3, <1>5, <1>6, StepKeeps DEF ProcFacts

LEMMA BeginFacts ==
  ASSUME TypeOK, Facts, NEW p \in Proc, Begin(p)
  PROVE  Facts'
<1> DEFINE new == [row[cur[p]] EXCEPT !.status = "approving"]
<1>1. /\ pc[p] = "begin" /\ "begin" \in StartPlaces /\ "allowance" \in StartPlaces
      /\ "begin" \notin MintPlaces /\ UNCHANGED chain
  BY DEF Begin, StartPlaces, MintPlaces
<1>2. cur[p] \in Row /\ row[cur[p]] \in RowRecord
  BY <1>1, PlacesKnown, CopyTypes
<1>3. row[cur[p]].status = "pending" /\ burn[cur[p]] = "none"
  BY <1>1 DEF Facts, ProcFacts, StartFacts
<1>4. Accurate(new, cur[p]) /\ new.status = "approving"
  BY <1>2, <1>3 DEF Facts, RowFacts, Accurate, RowRecord, Recorded, ResumableStatuses,
                    InFlightStatuses, Status
<1>5. (\A r \in Row : RowFacts(r)' /\ ChainFacts(r)') /\ StartersKeep(p)
  BY <1>1, <1>2, <1>4, UpdatedRow DEF Begin
<1>6. CASE Transition(cur[p], {"pending"}, new) /\ Stay(p, "allowance")
  <2>1. row'[cur[p]] = new /\ pc'[p] = "allowance" /\ cur' = cur
    BY <1>2, <1>6 DEF Transition, Stay, Goto, TypeOK, TableOK, LocalsOK
  <2>2. StartFacts(p)'
    BY <1>1, <1>3, <1>4, <2>1 DEF StartFacts, chain
  <2> QED BY <1>1, <1>5, <1>6, <2>2, StartingKeeps
<1>7. CASE Stop(p)
  BY <1>1, <1>5, <1>7, LeavingKeeps
<1> QED BY <1>6, <1>7 DEF Begin

LEMMA ToBurningFacts ==
  ASSUME TypeOK, Facts, NEW p \in Proc, ToBurning(p)
  PROVE  Facts'
<1> DEFINE new == [row[cur[p]] EXCEPT !.status = "burning"]
<1>1. /\ pc[p] = "to_burning" /\ "to_burning" \in StartPlaces /\ "burn" \in StartPlaces
      /\ "to_burning" \notin MintPlaces /\ UNCHANGED chain
  BY DEF ToBurning, StartPlaces, MintPlaces
<1>2. cur[p] \in Row /\ row[cur[p]] \in RowRecord
  BY <1>1, PlacesKnown, CopyTypes
<1>3. row[cur[p]].status = "approving" /\ burn[cur[p]] = "none"
  BY <1>1 DEF Facts, ProcFacts, StartFacts
<1>4. Accurate(new, cur[p]) /\ new.status = "burning"
  BY <1>2, <1>3 DEF Facts, RowFacts, Accurate, RowRecord, Recorded, ResumableStatuses,
                    InFlightStatuses, Status
<1>5. (\A r \in Row : RowFacts(r)' /\ ChainFacts(r)') /\ StartersKeep(p)
  BY <1>1, <1>2, <1>4, UpdatedRow DEF ToBurning
<1>6. CASE Transition(cur[p], {"approving"}, new) /\ Stay(p, "burn")
  <2>1. row'[cur[p]] = new /\ pc'[p] = "burn" /\ cur' = cur
    BY <1>2, <1>6 DEF Transition, Stay, Goto, TypeOK, TableOK, LocalsOK
  <2>2. StartFacts(p)'
    BY <1>1, <1>3, <1>4, <2>1 DEF StartFacts, chain
  <2> QED BY <1>1, <1>5, <1>6, <2>2, StartingKeeps
<1>7. CASE Stop(p)
  BY <1>1, <1>5, <1>7, LeavingKeeps
<1> QED BY <1>6, <1>7 DEF ToBurning

LEMMA RecordBurnFacts ==
  ASSUME TypeOK, Facts, NEW p \in Proc, RecordBurn(p)
  PROVE  Facts'
<1> DEFINE new == [row[cur[p]] EXCEPT !.status = "awaiting_attestation", !.hash = TRUE]
<1>1. /\ pc[p] = "record_burn" /\ "record_burn" \in StartPlaces
      /\ "record_burn" \notin MintPlaces /\ UNCHANGED chain /\ Stop(p)
  BY DEF RecordBurn, StartPlaces, MintPlaces
<1>2. cur[p] \in Row /\ row[cur[p]] \in RowRecord
  BY <1>1, PlacesKnown, CopyTypes
<1>3. row[cur[p]].status = "burning" /\ burn[cur[p]] = "done"
  BY <1>1 DEF Facts, ProcFacts, StartFacts
<1>4. Accurate(new, cur[p])
  BY <1>2, <1>3 DEF Facts, RowFacts, Accurate, RowRecord, Recorded, ResumableStatuses,
                    InFlightStatuses, Status
<1>5. (\A r \in Row : RowFacts(r)' /\ ChainFacts(r)') /\ StartersKeep(p)
  BY <1>1, <1>2, <1>4, UpdatedRow DEF RecordBurn
<1> QED BY <1>1, <1>5, LeavingKeeps

LEMMA FailStartFacts ==
  ASSUME TypeOK, Facts, NEW p \in Proc, FailStart(p)
  PROVE  Facts'
<1> DEFINE new == [row[cur[p]] EXCEPT !.status = "failed"]
<1>1. /\ pc[p] = "fail_start" /\ "fail_start" \in StartPlaces
      /\ "fail_start" \notin MintPlaces /\ UNCHANGED chain /\ Stop(p)
  BY DEF FailStart, StartPlaces, MintPlaces
<1>2. cur[p] \in Row /\ row[cur[p]] \in RowRecord
  BY <1>1, PlacesKnown, CopyTypes
<1>4. Accurate(new, cur[p])
  BY <1>2 DEF Facts, RowFacts, Accurate, RowRecord, Recorded, ResumableStatuses,
              InFlightStatuses, Status
<1>5. (\A r \in Row : RowFacts(r)' /\ ChainFacts(r)') /\ StartersKeep(p)
  BY <1>1, <1>2, <1>4, UpdatedRow DEF FailStart
<1> QED BY <1>1, <1>5, LeavingKeeps

LEMMA MarkStuckFacts ==
  ASSUME TypeOK, Facts, NEW p \in Proc, MarkStuck(p)
  PROVE  Facts'
<1> DEFINE new == [row[cur[p]] EXCEPT !.status = "stuck"]
           from == {"awaiting_attestation"}
<1>1. pc[p] = "mark_stuck" /\ UNCHANGED chain /\ Return(p)
  BY DEF MarkStuck
<1>2. pc[p] \in RowPlaces \ {"mint_receipt"}
  BY <1>1, PlacesKnown DEF PollPlaces, MintPlaces
<1>3. cur[p] \in Row /\ row[cur[p]] \in RowRecord /\ Attempt(p) \in Nat
  BY <1>2, CopyTypes
<1>4. row[cur[p]].status \in from => Accurate(new, cur[p])
  BY <1>1, <1>3 DEF Facts, ProcFacts, MintFacts, RowFacts, Accurate, RowRecord, Recorded,
                    ResumableStatuses, InFlightStatuses, Status, Via
<1>5. (\A r \in Row : RowFacts(r)' /\ ChainFacts(r)') /\ StartersKeep(p)
  BY <1>1, <1>3, <1>4, FromResumable, UpdatedRow DEF MarkStuck
<1> QED BY <1>1, <1>2, <1>5, LeavingKeeps

LEMMA AcceptForwardFacts ==
  ASSUME TypeOK, Facts, NEW p \in Proc, AcceptForward(p)
  PROVE  Facts'
<1> DEFINE new == [row[cur[p]] EXCEPT !.status = "minted", !.via = "forwarding",
                                         !.message = @ \/ cur[p] \in attested]
           from == {"awaiting_attestation"}
<1>1. pc[p] = "accept_forward" /\ UNCHANGED chain /\ Return(p)
  BY DEF AcceptForward
<1>2. pc[p] \in RowPlaces \ {"mint_receipt"}
  BY <1>1, PlacesKnown DEF PollPlaces, MintPlaces
<1>3. cur[p] \in Row /\ row[cur[p]] \in RowRecord /\ Attempt(p) \in Nat
  BY <1>2, CopyTypes
<1>4. row[cur[p]].status \in from => Accurate(new, cur[p])
  BY <1>1, <1>3 DEF Facts, ProcFacts, MintFacts, RowFacts, Accurate, RowRecord, Recorded,
                    ResumableStatuses, InFlightStatuses, Status, Via
<1>5. (\A r \in Row : RowFacts(r)' /\ ChainFacts(r)') /\ StartersKeep(p)
  BY <1>1, <1>3, <1>4, FromResumable, UpdatedRow DEF AcceptForward
<1> QED BY <1>1, <1>2, <1>5, LeavingKeeps

LEMMA RecordMintFacts ==
  ASSUME TypeOK, Facts, NEW p \in Proc, RecordMint(p)
  PROVE  Facts'
<1> DEFINE new == [row[cur[p]] EXCEPT !.status = "minted", !.via = "direct",
                                         !.attempts = Attempt(p)]
           from == {"minting"}
<1>1. pc[p] = "record_mint" /\ UNCHANGED chain /\ Return(p)
  BY DEF RecordMint
<1>2. pc[p] \in RowPlaces \ {"mint_receipt"}
  BY <1>1, PlacesKnown DEF PollPlaces, MintPlaces
<1>3. cur[p] \in Row /\ row[cur[p]] \in RowRecord /\ Attempt(p) \in Nat
  BY <1>2, CopyTypes
<1>4. row[cur[p]].status \in from => Accurate(new, cur[p])
  BY <1>1, <1>3 DEF Facts, ProcFacts, MintFacts, RowFacts, Accurate, RowRecord, Recorded,
                    ResumableStatuses, InFlightStatuses, Status, Via
<1>5. (\A r \in Row : RowFacts(r)' /\ ChainFacts(r)') /\ StartersKeep(p)
  BY <1>1, <1>3, <1>4, FromResumable, UpdatedRow DEF RecordMint
<1> QED BY <1>1, <1>2, <1>5, LeavingKeeps

LEMMA FailMintFacts ==
  ASSUME TypeOK, Facts, NEW p \in Proc, FailMint(p)
  PROVE  Facts'
<1> DEFINE new == [row[cur[p]] EXCEPT !.status = "failed"]
           from == {"minting"}
<1>1. pc[p] = "fail_mint" /\ UNCHANGED chain /\ Return(p)
  BY DEF FailMint
<1>2. pc[p] \in RowPlaces \ {"mint_receipt"}
  BY <1>1, PlacesKnown DEF PollPlaces, MintPlaces
<1>3. cur[p] \in Row /\ row[cur[p]] \in RowRecord /\ Attempt(p) \in Nat
  BY <1>2, CopyTypes
<1>4. row[cur[p]].status \in from => Accurate(new, cur[p])
  BY <1>1, <1>3 DEF Facts, ProcFacts, MintFacts, RowFacts, Accurate, RowRecord, Recorded,
                    ResumableStatuses, InFlightStatuses, Status, Via
<1>5. (\A r \in Row : RowFacts(r)' /\ ChainFacts(r)') /\ StartersKeep(p)
  BY <1>1, <1>3, <1>4, FromResumable, UpdatedRow DEF FailMint
<1> QED BY <1>1, <1>2, <1>5, LeavingKeeps

LEMMA RetryLaterFacts ==
  ASSUME TypeOK, Facts, NEW p \in Proc, RetryLater(p)
  PROVE  Facts'
<1> DEFINE new == [row[cur[p]] EXCEPT !.status = "stuck", !.attempts = Attempt(p)]
           from == {"minting"}
<1>1. pc[p] = "retry_later" /\ UNCHANGED chain /\ Return(p)
  BY DEF RetryLater
<1>2. pc[p] \in RowPlaces \ {"mint_receipt"}
  BY <1>1, PlacesKnown DEF PollPlaces, MintPlaces
<1>3. cur[p] \in Row /\ row[cur[p]] \in RowRecord /\ Attempt(p) \in Nat
  BY <1>2, CopyTypes
<1>4. row[cur[p]].status \in from => Accurate(new, cur[p])
  BY <1>1, <1>3 DEF Facts, ProcFacts, MintFacts, RowFacts, Accurate, RowRecord, Recorded,
                    ResumableStatuses, InFlightStatuses, Status, Via
<1>5. (\A r \in Row : RowFacts(r)' /\ ChainFacts(r)') /\ StartersKeep(p)
  BY <1>1, <1>3, <1>4, FromResumable, UpdatedRow DEF RetryLater
<1> QED BY <1>1, <1>2, <1>5, LeavingKeeps

\* A resumer goes on with a row object: the one it has, or a new one.
LEMMA ResumingKeeps ==
  ASSUME TypeOK, Facts, NEW p \in Proc, UNCHANGED chain, receipt[p] = "none",
         NEW place \in {"send_mint", "reread", "fail_mint", "to_minting", "poll"},
         cur[p] \in Row, \A r \in Row : p \notin pool[r],
         \/ Stay(p, place)
         \/ \E new : Hold(p, new, place) /\ (new.status = "minting" => new.message)
                     /\ (new.message => cur[p] \in attested),
         place = "send_mint" => copy'[p][cur[p]].message,
         place = "to_minting" => cur[p] \in attested,
         StartersKeep(p), \A r \in Row : RowFacts(r)' /\ ChainFacts(r)'
  PROVE  Facts'
<1>1. UNCHANGED <<attested, pool, mint>>
  BY DEF chain
<1>2. /\ pc'[p] = place /\ UNCHANGED <<cur, receipt>>
      /\ place \in Locations /\ place \notin StartPlaces
  BY PlacesKnown DEF Stay, Hold, Goto, TypeOK, LocalsOK, PollPlaces, MintPlaces, StartPlaces
<1>3. Aside(p)
  BY <1>1, <1>2, AsideOf
<1>4. CopyFacts(p)'
  <2>1. CASE copy' = copy
    BY <1>1, <2>1 DEF Facts, ProcFacts, CopyFacts
  <2>2. ASSUME NEW new, copy' = [copy EXCEPT ![p][cur[p]] = new],
               new.status = "minting" => new.message, new.message => cur[p] \in attested
        PROVE  CopyFacts(p)'
    <3>1. /\ copy'[p][cur[p]] = new
          /\ \A r \in Row \ {cur[p]} : copy'[p][r] = copy[p][r]
      BY <2>2 DEF TypeOK, LocalsOK
    <3> QED BY <1>1, <2>2, <3>1 DEF Facts, ProcFacts, CopyFacts
  <2> QED BY <2>1, <2>2 DEF Stay, Hold
<1>5. MintFacts(p)'
  BY <1>1, <1>2 DEF MintFacts
<1>6. ProcFacts(p)'
  BY <1>2, <1>4, <1>5 DEF ProcFacts, StartFacts
<1> QED BY <1>1, <1>2, <1>3, <1>6, StepKeeps

LEMMA UnstickFacts ==
  ASSUME TypeOK, Facts, NEW p \in Proc, Unstick(p)
  PROVE  Facts'
<1> DEFINE new == [row[cur[p]] EXCEPT !.status = "awaiting_attestation"]
<1>1. pc[p] = "unstick" /\ UNCHANGED chain
  BY DEF Unstick
<1>2. pc[p] \in RowPlaces \ {"mint_receipt"}
  BY <1>1, PlacesKnown DEF PollPlaces
<1>3. /\ cur[p] \in Row /\ row[cur[p]] \in RowRecord /\ receipt[p] = "none"
      /\ \A r \in Row : p \notin pool[r]
  BY <1>1, <1>2, CopyTypes DEF Facts, ProcFacts, MintFacts
<1>4. /\ row[cur[p]].status \in {"stuck"} => Accurate(new, cur[p])
      /\ new.status = "awaiting_attestation" /\ (new.message => cur[p] \in attested)
  BY <1>3 DEF Facts, RowFacts, Accurate, RowRecord, Recorded, ResumableStatuses, InFlightStatuses,
              Status
<1>5. (\A r \in Row : RowFacts(r)' /\ ChainFacts(r)') /\ StartersKeep(p)
  BY <1>1, <1>3, <1>4, FromResumable, UpdatedRow DEF Unstick
<1>6. CASE Hold(p, new, PlaceFor(new))
  <2>1. /\ PlaceFor(new) \in {"to_minting", "poll"}
        /\ PlaceFor(new) = "to_minting" => new.message
    BY <1>4 DEF PlaceFor
  <2> HIDE DEF new
  <2> QED BY <1>1, <1>3, <1>4, <1>5, <1>6, <2>1, ResumingKeeps
<1>7. CASE Return(p)
  BY <1>1, <1>2, <1>5, <1>7, LeavingKeeps
<1> QED BY <1>6, <1>7 DEF Unstick

LEMMA ToMintingFacts ==
  ASSUME TypeOK, Facts, NEW p \in Proc, ToMinting(p)
  PROVE  Facts'
<1> DEFINE new == [row[cur[p]] EXCEPT !.status = "minting", !.message = TRUE]
           from == {"awaiting_attestation", "stuck"}
<1>1. pc[p] = "to_minting" /\ UNCHANGED chain
  BY DEF ToMinting
<1>2. pc[p] \in RowPlaces \ {"mint_receipt"}
  BY <1>1, PlacesKnown DEF PollPlaces
<1>3. /\ cur[p] \in Row /\ row[cur[p]] \in RowRecord /\ receipt[p] = "none"
      /\ cur[p] \in attested
      /\ \A r \in Row : p \notin pool[r]
  BY <1>1, <1>2, CopyTypes DEF Facts, ProcFacts, MintFacts
<1>4. (row[cur[p]].status \in from => Accurate(new, cur[p])) /\ new.message
  BY <1>3 DEF Facts, RowFacts, Accurate, RowRecord, Recorded, ResumableStatuses, InFlightStatuses,
              Status
<1>5. (\A r \in Row : RowFacts(r)' /\ ChainFacts(r)') /\ StartersKeep(p)
  BY <1>1, <1>3, <1>4, FromResumable, UpdatedRow DEF ToMinting
<1>6. CASE Hold(p, new, "send_mint")
  <2>1. copy'[p][cur[p]] = new
    BY <1>3, <1>6 DEF Hold, TypeOK, LocalsOK
  <2> HIDE DEF new
  <2> QED BY <1>1, <1>3, <1>4, <1>5, <1>6, <2>1, ResumingKeeps
<1>7. CASE Stay(p, "reread")
  BY <1>1, <1>3, <1>5, <1>7, ResumingKeeps
<1> QED BY <1>6, <1>7 DEF ToMinting

LEMMA TreatAsMintedFacts ==
  ASSUME TypeOK, Facts, NEW p \in Proc, TreatAsMinted(p)
  PROVE  Facts'
<1> DEFINE new == [row[cur[p]] EXCEPT !.status = "minted", !.via = "nonce_used",
                                      !.attempts = Attempt(p)]
<1>1. pc[p] = "treat_as_minted" /\ UNCHANGED chain
  BY DEF TreatAsMinted
<1>2. pc[p] \in RowPlaces \ {"mint_receipt"}
  BY <1>1, PlacesKnown DEF MintPlaces
<1>3. /\ cur[p] \in Row /\ row[cur[p]] \in RowRecord /\ receipt[p] = "none"
      /\ cur[p] \in mint
      /\ \A r \in Row : p \notin pool[r]
  BY <1>1, <1>2, CopyTypes DEF Facts, ProcFacts, MintFacts
<1>4. row[cur[p]].status \in {"minting"} => Accurate(new, cur[p])
  BY <1>3 DEF Facts, RowFacts, Accurate, RowRecord, Recorded, ResumableStatuses, InFlightStatuses,
              Status
<1>5. (\A r \in Row : RowFacts(r)' /\ ChainFacts(r)') /\ StartersKeep(p)
  BY <1>1, <1>3, <1>4, FromResumable, UpdatedRow DEF TreatAsMinted
<1>6. CASE Return(p)
  BY <1>1, <1>2, <1>5, <1>6, LeavingKeeps
<1>7. CASE Stay(p, "fail_mint")
  BY <1>1, <1>3, <1>5, <1>7, ResumingKeeps
<1> QED BY <1>6, <1>7 DEF TreatAsMinted

-----------------------------------------------------------------------------
(* Creating a transfer, sending transactions *)

\* A new row is accurate, and no starter works on it yet.
LEMMA InsertedRowFacts ==
  ASSUME TypeOK, Facts, NEW p \in Proc, NEW r \in Row, Insert(p, r), UNCHANGED chain
  PROVE  /\ \A s \in Row : RowFacts(s)' /\ ChainFacts(s)'
         /\ StartersKeep(p)
         /\ row'[r].status = "pending" /\ burn'[r] = "none"
         /\ \A q \in Proc : pc[q] \in StartPlaces => cur[q] /= r
<1>0. UNCHANGED <<burn, attested, mint, loose>>
  BY DEF chain
<1>1. row[r].status = "none" /\ burn[r] = "none"
  BY DEF Insert, Facts, RowFacts, Accurate
<1>2. /\ row'[r].status = "pending" /\ ~row'[r].message /\ row'[r].attempts = 0
      /\ \A s \in Row \ {r} : row'[s] = row[s]
  BY DEF Insert, NewRow, EmptyRow, TypeOK, TableOK
<1>3. Accurate(row[r], r)' /\ ChainFacts(r)'
  BY <1>0, <1>1, <1>2, RebalanceConfig
  DEF Facts, Accurate, ChainFacts, Recorded, ResumableStatuses
<1>4. \A s \in Row : RowFacts(s)' /\ ChainFacts(s)'
  BY <1>0, <1>2, <1>3 DEF Facts, RowFacts, Accurate, ChainFacts
<1>5. ASSUME NEW q \in Proc, pc[q] \in StartPlaces
      PROVE  cur[q] /= r /\ cur[q] \in Row
  <2>1. row[cur[q]].status \in {"pending", "approving", "burning"}
    BY <1>5 DEF Facts, ProcFacts, StartFacts, StartPlaces
  <2>2. cur[q] \in Row
    BY <1>5, PlacesKnown DEF TypeOK, LocalsOK
  <2> QED BY <1>1, <2>1, <2>2
<1>6. StartersKeep(p)
  BY <1>0, <1>2, <1>5 DEF StartersKeep
<1> QED BY <1>0, <1>1, <1>2, <1>4, <1>5, <1>6

LEMMA CreateFacts ==
  ASSUME TypeOK, Facts, NEW p \in Proc, Create(p)
  PROVE  Facts'
<1>1. PICK r \in Row : Insert(p, r) /\ cur' = [cur EXCEPT ![p] = r]
  BY DEF Create
<1>2. pc[p] = "decide" /\ Goto(p, "begin") /\ UNCHANGED <<chain, copy, receipt>>
  BY DEF Create
<1>3. UNCHANGED <<attested, mint, pool>>
  BY <1>2 DEF chain
<1>4. pc'[p] = "begin" /\ cur'[p] = r /\ Aside(p)
  BY <1>1, <1>2, <1>3 DEF Goto, Aside, TypeOK, LocalsOK
<1>5. receipt[p] = "none" /\ \A s \in Row : p \notin pool[s]
  BY <1>2 DEF Facts, ProcFacts, MintFacts
<1>6. StartFacts(p)'
  BY <1>1, <1>2, <1>4, InsertedRowFacts DEF StartFacts
<1>7. CopyFacts(p)' /\ MintFacts(p)'
  BY <1>2, <1>3, <1>4, <1>5 DEF Facts, ProcFacts, CopyFacts, MintFacts
<1> QED BY <1>1, <1>2, <1>3, <1>4, <1>6, <1>7, InsertedRowFacts, StepKeeps DEF ProcFacts

LEMMA CreateFailsFacts ==
  ASSUME TypeOK, Facts, NEW p \in Proc, CreateFails(p)
  PROVE  Facts'
<1>1. PICK r \in Row : Insert(p, r)
  BY DEF CreateFails
<1>2. Stop(p) /\ UNCHANGED chain /\ pc[p] \notin MintPlaces
  BY DEF CreateFails, MintPlaces
<1> QED BY <1>1, <1>2, InsertedRowFacts, LeavingKeeps

LEMMA ApproveFacts ==
  ASSUME TypeOK, Facts, NEW p \in Proc, Approve(p)
  PROVE  Facts'
<1>1. /\ UNCHANGED <<row, burn, attested, mint, pool, loose>> /\ pc[p] = "approve"
      /\ \E place \in {"to_burning", "fail_start"} : Stay(p, place)
  BY DEF Approve, table
<1>2. PICK place \in {"to_burning", "fail_start"} : Stay(p, place)
  BY <1>1
<1>3. pc'[p] = place /\ UNCHANGED <<cur, copy, receipt>> /\ place \in Locations
  BY <1>2, PlacesKnown DEF Stay, Goto, TypeOK, LocalsOK, StartPlaces
<1>4. Aside(p)
  BY <1>1, <1>2, <1>3, AsideOf
<1>5. StartFacts(p)'
  BY <1>1, <1>3 DEF Facts, ProcFacts, StartFacts
<1>6. CopyFacts(p)' /\ MintFacts(p)'
  BY <1>1, <1>3 DEF Facts, ProcFacts, CopyFacts, MintFacts
<1>7. \A q \in Proc \ {p} : pc[q] \in StartPlaces => cur[q] /= cur'[p]
  BY <1>1, <1>3 DEF Facts, Alone, StartPlaces
<1>8. StartersKeep(p)
  BY <1>1 DEF StartersKeep
<1> QED BY <1>1, <1>4, <1>5, <1>6, <1>7, <1>8, UntouchedRows, StepKeeps DEF ProcFacts

LEMMA SendBurnFacts ==
  ASSUME TypeOK, Facts, NEW p \in Proc, SendBurn(p)
  PROVE  Facts'
<1>1. /\ UNCHANGED <<row, attested, mint, pool, loose>> /\ pc[p] = "burn"
      /\ Stay(p, "burn_receipt") /\ burn' = [burn EXCEPT ![cur[p]] = "sent"]
  BY DEF SendBurn, table
<1>2. /\ pc'[p] = "burn_receipt" /\ UNCHANGED <<cur, copy, receipt>>
      /\ "burn_receipt" \in Locations /\ pc[p] \in StartPlaces
  BY <1>1, PlacesKnown DEF Stay, Goto, TypeOK, LocalsOK, StartPlaces
<1>3. cur[p] \in Row /\ row[cur[p]].status = "burning" /\ burn[cur[p]] = "none"
  BY <1>1, <1>2, PlacesKnown DEF Facts, ProcFacts, StartFacts, TypeOK, LocalsOK
<1>4. burn'[cur[p]] = "sent" /\ \A r \in Row \ {cur[p]} : burn'[r] = burn[r]
  BY <1>1, <1>3 DEF TypeOK, ChainOK
<1>5. \A r \in Row : RowFacts(r)' /\ ChainFacts(r)'
  <2>1. \A r \in Row \ {cur[p]} : RowFacts(r)' /\ ChainFacts(r)'
    BY <1>1, <1>4 DEF Facts, RowFacts, Accurate, ChainFacts
  <2>2. ASSUME NEW r \in Row, r = cur[p]
        PROVE  RowFacts(r)' /\ ChainFacts(r)'
    BY <1>1, <1>2, <1>3, <1>4, <2>2
    DEF Facts, RowFacts, Accurate, ChainFacts, Recorded, ResumableStatuses
  <2> QED BY <2>1, <2>2
<1>6. \A q \in Proc \ {p} : pc[q] \in StartPlaces => cur[q] /= cur[p] /\ cur[q] \in Row
  BY <1>2, PlacesKnown DEF Facts, Alone, TypeOK, LocalsOK
<1>7. StartersKeep(p)
  BY <1>1, <1>4, <1>6 DEF StartersKeep
<1>8. Aside(p)
  BY <1>1, <1>2, AsideOf
<1>9. StartFacts(p)'
  BY <1>1, <1>2, <1>3 DEF StartFacts
<1>10. CopyFacts(p)' /\ MintFacts(p)'
  BY <1>1, <1>2 DEF Facts, ProcFacts, CopyFacts, MintFacts
<1> QED BY <1>1, <1>2, <1>5, <1>6, <1>7, <1>8, <1>9, <1>10, StepKeeps DEF ProcFacts

LEMMA SendMintFacts ==
  ASSUME TypeOK, Facts, NEW p \in Proc, SendMint(p)
  PROVE  Facts'
<1>1. /\ UNCHANGED <<row, burn, attested, mint, loose>> /\ pc[p] = "send_mint"
      /\ Stay(p, "mint_receipt") /\ pool' = [pool EXCEPT ![cur[p]] = @ \union {p}]
  BY DEF SendMint, table
<1>2. /\ pc'[p] = "mint_receipt" /\ UNCHANGED <<cur, copy, receipt>>
      /\ cur[p] \in Row
  BY <1>1, PlacesKnown DEF Stay, Goto, TypeOK, LocalsOK, MintPlaces
<1>3. /\ \A r \in Row : p \notin pool[r]
      /\ receipt[p] = "none" /\ copy[p][cur[p]].message
  BY <1>1 DEF Facts, ProcFacts, MintFacts
<1>4. /\ pool'[cur[p]] = pool[cur[p]] \union {p}
      /\ \A r \in Row \ {cur[p]} : pool'[r] = pool[r]
  BY <1>1, <1>2 DEF TypeOK, ChainOK
<1>5. Aside(p)
  BY <1>1, <1>4 DEF Aside, Stay, Goto, TypeOK, LocalsOK
<1>6. StartFacts(p)' /\ CopyFacts(p)'
  BY <1>1, <1>2 DEF Facts, ProcFacts, StartFacts, CopyFacts
<1>7. MintFacts(p)'
  BY <1>2, <1>3, <1>4 DEF MintFacts
<1>8. StartersKeep(p)
  BY <1>1 DEF StartersKeep
<1> QED BY <1>1, <1>2, <1>5, <1>6, <1>7, <1>8, UntouchedRows, StepKeeps DEF ProcFacts, StartPlaces

\* What may still be minted was burned: it was sent with a message.
LEMMA PooledIsBurned ==
  ASSUME TypeOK, Facts, NEW p \in Proc, NEW r \in Row, p \in pool[r]
  PROVE  burn[r] = "done" /\ pc[p] = "mint_receipt" /\ cur[p] = r /\ receipt[p] = "none"
<1>1. pc[p] = "mint_receipt" /\ cur[p] = r /\ receipt[p] = "none"
  BY DEF Facts, ProcFacts, MintFacts
<1>2. copy[p][r].message
  BY <1>1 DEF Facts, ProcFacts, MintFacts
<1> QED BY <1>1, <1>2 DEF Facts, ProcFacts, CopyFacts, ChainFacts

LEMMA MintTimesOutFacts ==
  ASSUME TypeOK, Facts, NEW p \in Proc, MintTimesOut(p)
  PROVE  Facts'
<1>1. /\ UNCHANGED <<row, burn, attested, mint>> /\ pc[p] = "mint_receipt"
      /\ Stay(p, PlaceAfterError(p, TRUE))
      /\ pool' = [pool EXCEPT ![cur[p]] = @ \ {p}]
      /\ loose' = IF p \in pool[cur[p]] THEN loose \union {cur[p]} ELSE loose
  BY DEF MintTimesOut, table
<1>2. /\ pc'[p] = PlaceAfterError(p, TRUE) /\ UNCHANGED <<cur, copy, receipt>>
      /\ cur[p] \in Row
  BY <1>1, PlacesKnown DEF Stay, Goto, TypeOK, LocalsOK, MintPlaces
<1>3. /\ pc'[p] \in {"retry_later", "fail_mint"}
      /\ pc'[p] = "retry_later" => Attempt(p) < MintMaxAttempts
  BY <1>2 DEF PlaceAfterError
<1>4. /\ pool'[cur[p]] = pool[cur[p]] \ {p}
      /\ \A r \in Row \ {cur[p]} : pool'[r] = pool[r]
  BY <1>1, <1>2 DEF TypeOK, ChainOK
<1>5. \A r \in Row : p \notin pool'[r]
  BY <1>4 DEF Facts, ProcFacts, MintFacts
<1>6. Aside(p)
  BY <1>1, <1>4 DEF Aside, Stay, Goto, TypeOK, LocalsOK
<1>7. \A r \in Row : RowFacts(r)' /\ ChainFacts(r)'
  <2>1. \A r \in Row : r \in loose' => burn[r] = "done"
    BY <1>1, <1>2, PooledIsBurned DEF Facts, ChainFacts
  <2> QED BY <1>1, <2>1 DEF Facts, RowFacts, Accurate, ChainFacts
<1>8. StartFacts(p)' /\ CopyFacts(p)'
  BY <1>1, <1>2, <1>3 DEF Facts, ProcFacts, StartFacts, CopyFacts
<1>9. MintFacts(p)'
  BY <1>2, <1>3, <1>5 DEF MintFacts, Attempt
<1>10. StartersKeep(p)
  BY <1>1 DEF StartersKeep
<1> QED BY <1>1, <1>3, <1>6, <1>7, <1>8, <1>9, <1>10, StepKeeps DEF ProcFacts, StartPlaces

-----------------------------------------------------------------------------
(* The chains, restarts *)

LEMMA ChainStepFacts ==
  ASSUME TypeOK, Facts, NEW r \in Row, ChainStep(r) \/ CooldownElapses(r)
  PROVE  Facts'
<1>w. /\ UNCHANGED <<row, pc, cur, copy>>
      /\ attested \subseteq attested' /\ mint \subseteq mint'
  BY DEF ChainStep, MineBurn, Attest, Forward, MineLoose, MineMint, CooldownElapses, table, chain,
         locals
<1>a. Alone'
  BY <1>w DEF Facts, Alone
<1>1. CASE MineBurn(r)
  <2>1. /\ UNCHANGED <<attested, mint, pool, loose, receipt>> /\ burn[r] = "sent"
        /\ \A s \in Row : burn'[s] = burn[s] \/ (s = r /\ burn'[s] \in {"done", "reverted"})
    BY <1>1 DEF MineBurn, locals, TypeOK, ChainOK
  <2>2. \A s \in Row : RowFacts(s)' /\ ChainFacts(s)'
    BY <1>w, <2>1 DEF Facts, RowFacts, Accurate, ChainFacts
  <2>3. \A q \in Proc : ProcFacts(q)'
    <3> TAKE q \in Proc
    <3>1. pc[q] \in StartPlaces => burn'[cur[q]] = burn[cur[q]] \/ burn[cur[q]] = "sent"
      BY <2>1, PlacesKnown DEF TypeOK, LocalsOK
    <3> QED BY <1>w, <2>1, <3>1, StillKeeps DEF Facts
  <2> QED BY <1>a, <2>2, <2>3 DEF Facts
<1>2. CASE Attest(r) \/ Forward(r) \/ MineLoose(r) \/ CooldownElapses(r)
  <2>1. /\ UNCHANGED <<burn, pool, receipt>>
        /\ \A s \in Row : s \in attested' => s \in attested \/ burn[s] = "done"
        /\ \A s \in Row : s \in loose' => s \in loose \/ burn[s] = "done"
    BY <1>2 DEF Attest, Forward, MineLoose, CooldownElapses, locals, chain
  <2>2. \A s \in Row : RowFacts(s)' /\ ChainFacts(s)'
    BY <1>w, <2>1 DEF Facts, RowFacts, Accurate, ChainFacts
  <2>3. \A q \in Proc : ProcFacts(q)'
    BY <1>w, <2>1, StillKeeps DEF Facts
  <2> QED BY <1>a, <2>2, <2>3 DEF Facts
<1>3. ASSUME NEW p \in Proc, MineMint(r, p)
      PROVE  Facts'
  <2>1. /\ UNCHANGED <<burn, attested, loose>> /\ p \in pool[r]
        /\ pool'[r] = pool[r] \ {p}
        /\ \A s \in Row \ {r} : pool'[s] = pool[s]
        /\ \A q \in Proc \ {p} : receipt'[q] = receipt[q]
        /\ receipt'[p] = "ok" => r \in mint'
    BY <1>3 DEF MineMint, TypeOK, ChainOK, LocalsOK
  <2>2. pc[p] = "mint_receipt" /\ cur[p] = r
    BY <2>1, PooledIsBurned
  <2>3. \A s \in Row : RowFacts(s)' /\ ChainFacts(s)'
    BY <1>w, <2>1 DEF Facts, RowFacts, Accurate, ChainFacts
  <2>4. \A q \in Proc \ {p} : ProcFacts(q)'
    <3> TAKE q \in Proc \ {p}
    <3>1. \A s \in Row : q \in pool'[s] => q \in pool[s]
      BY <2>1
    <3> QED BY <1>w, <2>1, <3>1, StillKeeps DEF Facts
  <2>5. MintFacts(p)'
    <3>1. \A s \in Row : p \notin pool'[s]
      BY <2>1, <2>2 DEF Facts, ProcFacts, MintFacts
    <3> QED BY <1>w, <2>1, <2>2, <3>1 DEF Facts, ProcFacts, MintFacts
  <2>6. StartFacts(p)' /\ CopyFacts(p)'
    BY <1>w, <2>1, <2>2 DEF Facts, ProcFacts, StartFacts, CopyFacts
  <2> QED BY <1>a, <2>3, <2>4, <2>5, <2>6 DEF Facts, ProcFacts
<1> QED BY <1>1, <1>2, <1>3 DEF ChainStep

LEMMA CrashFacts ==
  ASSUME TypeOK, Facts, Crash
  PROVE  Facts'
<1>1. /\ UNCHANGED <<row, burn, attested, mint>>
      /\ \A p \in Proc : pc'[p] \in {"idle", "answered"} /\ receipt'[p] = "none"
      /\ \A p \in Proc : \A r \in Row : copy'[p][r] = EmptyRow
      /\ \A r \in Row : pool'[r] = {}
  BY DEF Crash, Rest, table
<1>2. \A r \in Row : r \in loose' => burn[r] = "done"
  <2> SUFFICES ASSUME NEW r \in Row, r \in loose', r \notin loose
               PROVE  burn[r] = "done"
    BY DEF Facts, ChainFacts
  <2>1. pool[r] /= {} /\ pool[r] \subseteq Proc
    BY DEF Crash, TypeOK, ChainOK
  <2>2. PICK p \in Proc : p \in pool[r]
    BY <2>1
  <2> QED BY <2>2, PooledIsBurned
<1>3. \A r \in Row : RowFacts(r)' /\ ChainFacts(r)'
  BY <1>1, <1>2 DEF Facts, RowFacts, Accurate, ChainFacts
<1>4. \A p \in Proc : ProcFacts(p)'
  BY <1>1 DEF ProcFacts, StartFacts, CopyFacts, MintFacts, EmptyRow
<1>5. Alone'
  BY <1>1 DEF Alone, StartPlaces
<1> QED BY <1>3, <1>4, <1>5 DEF Facts

LEMMA ProcessStepFacts ==
  ASSUME TypeOK, Facts, NEW p \in Proc, ProcessStep(p)
  PROVE  Facts'
<1>1. CASE StartStep(p)
  BY <1>1, DecidingFacts, EndingFacts, BurningFacts, CreateFacts, CreateFailsFacts, BeginFacts,
     ApproveFacts, ToBurningFacts, SendBurnFacts, RecordBurnFacts, FailStartFacts DEF StartStep
<1>2. CASE ResumeStep(p)
  BY <1>2, ListingFacts, PollingFacts, UnstickFacts, MarkStuckFacts, AcceptForwardFacts,
     ToMintingFacts DEF ResumeStep
<1>3. CASE MintStep(p)
  BY <1>3, SendMintFacts, AnsweredFacts, MintTimesOutFacts, RecordMintFacts, TreatAsMintedFacts,
     FailMintFacts, RetryLaterFacts DEF MintStep
<1> QED BY <1>1, <1>2, <1>3 DEF ProcessStep

LEMMA NextFacts == TypeOK /\ Facts /\ [Next]_vars => Facts'
<1> SUFFICES ASSUME TypeOK, Facts, [Next]_vars
             PROVE  Facts'
  OBVIOUS
<1>1. Worker \in Proc /\ Route \subseteq Proc
  BY DEF Proc
<1>2. CASE UNCHANGED vars
  <2>1. UNCHANGED <<row, burn, attested, mint, loose, pool, pc, cur, copy, receipt>>
    BY <1>2 DEF vars, table, chain, locals
  <2>2. \A q \in Proc : ProcFacts(q)'
    BY <2>1, StillKeeps DEF Facts
  <2> QED BY <2>1, <2>2, UntouchedRows DEF Facts, Alone
<1> QED BY <1>1, <1>2, DecidingFacts, ProcessStepFacts, ChainStepFacts, CrashFacts DEF Next

LEMMA FactsKept == Spec => []Facts
BY InitFacts, NextFacts, TypeCorrect, PTL DEF Spec

-----------------------------------------------------------------------------
(* What rows say is so *)

\* Whatever receipts are late, updates fail or restarts happen, a row past
\* burning carries the hash of a burn that is on chain (startTransfer).
THEOREM BurnRecorded == Spec => []RecordedBurnHappened
<1>1. Facts => RecordedBurnHappened
  BY DEF Facts, RowFacts, Accurate, RecordedBurnHappened, Recorded
<1> QED BY <1>1, FactsKept, PTL

\* completeDirectMint never lacks its message, however old the row object is.
THEOREM MintInputs == Spec => []MintInputsComplete
<1>1. TypeOK /\ Facts => MintInputsComplete
  BY DEF Facts, RowFacts, Accurate, ProcFacts, MintFacts, MintInputsComplete
<1> QED BY <1>1, TypeCorrect, FactsKept, PTL

\* A direct mint is recorded only when Sepolia accepted the message, however
\* resumers race, receipts are late and transactions are left behind.
THEOREM MintRecorded == Spec => []MintedOnChain
<1>1. Facts => MintedOnChain
  BY DEF Facts, RowFacts, Accurate, MintedOnChain
<1> QED BY <1>1, FactsKept, PTL

-----------------------------------------------------------------------------
(* Steps as they are seen from outside *)

Left == {r \in Row : burn[r] = "done"}

\* One row moves, as documented; the chains do not.
Move(r) ==
  /\ \A s \in Row \ {r} : row'[s] = row[s]
  /\ UNCHANGED <<burn, mint>>
  /\ \/ row'[r] = row[r]
     \/ row[r].status = "none" /\ row'[r].status = "pending"
     \/ <<row[r].status, row'[r].status>> \in AllowedTransitions

\* A burn or a mint reaches its chain, or nothing is to be seen.
Mined ==
  /\ UNCHANGED row
  /\ \/ Left' = Left /\ UNCHANGED mint
     \/ \E r \in Row : burn[r] = "sent" /\ burn' = [burn EXCEPT ![r] = "done"] /\ UNCHANGED mint
     \/ \E r \in Row : UNCHANGED burn /\ burn[r] = "done" /\ mint' = mint \union {r}

LEMMA UpdateMoves ==
  ASSUME TypeOK, NEW r \in Row, NEW from, NEW new,
         Transition(r, from, new) \/ TransitionFails(r, from, new),
         NEW status, new.status = status, \A s \in from : <<s, status>> \in AllowedTransitions,
         UNCHANGED chain
  PROVE  Move(r)
<1>1. UNCHANGED <<burn, mint>>
  BY DEF chain
<1>2. CASE row' = row
  BY <1>1, <1>2 DEF Move
<1>3. CASE row[r].status \in from /\ row' = [row EXCEPT ![r] = new]
  <2>1. row'[r] = new /\ \A s \in Row \ {r} : row'[s] = row[s]
    BY <1>3 DEF TypeOK, TableOK
  <2> QED BY <1>1, <1>3, <2>1 DEF Move
<1> QED BY <1>2, <1>3, TransitionEffect

LEMMA InsertMoves ==
  ASSUME TypeOK, NEW p \in Proc, NEW r \in Row, Insert(p, r), UNCHANGED chain
  PROVE  Move(r)
<1>1. /\ row[r].status = "none" /\ row'[r].status = "pending"
      /\ \A s \in Row \ {r} : row'[s] = row[s]
  BY DEF Insert, NewRow, EmptyRow, TypeOK, TableOK
<1> QED BY <1>1 DEF Move, chain

LEMMA UnseenStep ==
  ASSUME UNCHANGED <<row, burn, mint>>
  PROVE  Mined
BY DEF Mined, Left

LEMMA StartStepSeen ==
  ASSUME TypeOK, Facts, NEW p \in Proc, StartStep(p)
  PROVE  Mined \/ \E r \in Row : Move(r)
<1>s. ASSUME pc[p] \in StartPlaces
      PROVE  cur[p] \in Row /\ row[cur[p]] \in RowRecord
  BY <1>s, PlacesKnown, CopyTypes
<1>1. CASE \/ ReadBalances(p) \/ CountInFlight(p) \/ ReadLastBurn(p) \/ ReadFails(p) \/ Skip(p)
           \/ ReadAllowance(p) \/ Approve(p) \/ BurnNotSent(p) \/ BurnConfirmed(p) \/ BurnThrows(p)
  <2>1. UNCHANGED <<row, burn, mint>>
    BY <1>1 DEF ReadBalances, CountInFlight, ReadLastBurn, ReadFails, Skip, ReadAllowance, Approve,
                BurnNotSent, BurnConfirmed, BurnThrows, table, chain
  <2> QED BY <2>1, UnseenStep
<1>2. CASE Create(p) \/ CreateFails(p)
  BY <1>2, InsertMoves DEF Create, CreateFails
<1>3. CASE Begin(p)
  <2> DEFINE new == [row[cur[p]] EXCEPT !.status = "approving"]
  <2>1. cur[p] \in Row /\ new.status = "approving" /\ UNCHANGED chain
    BY <1>3, <1>s DEF Begin, StartPlaces, RowRecord
  <2>2. \A s \in {"pending"} : <<s, "approving">> \in AllowedTransitions
    BY DEF AllowedTransitions
  <2>3. \/ Transition(cur[p], {"pending"}, new)
        \/ TransitionFails(cur[p], {"pending"}, new)
    BY <1>3 DEF Begin
  <2> HIDE DEF new
  <2> QED BY <2>1, <2>2, <2>3, UpdateMoves
<1>4. CASE ToBurning(p)
  <2> DEFINE new == [row[cur[p]] EXCEPT !.status = "burning"]
  <2>1. cur[p] \in Row /\ new.status = "burning" /\ UNCHANGED chain
    BY <1>4, <1>s DEF ToBurning, StartPlaces, RowRecord
  <2>2. \A s \in {"approving"} : <<s, "burning">> \in AllowedTransitions
    BY DEF AllowedTransitions
  <2>3. \/ Transition(cur[p], {"approving"}, new)
        \/ TransitionFails(cur[p], {"approving"}, new)
    BY <1>4 DEF ToBurning
  <2> HIDE DEF new
  <2> QED BY <2>1, <2>2, <2>3, UpdateMoves
<1>5. CASE SendBurn(p)
  <2>1. cur[p] \in Row /\ burn[cur[p]] = "none"
    BY <1>5, <1>s DEF SendBurn, StartPlaces, Facts, ProcFacts, StartFacts
  <2>2. Left' = Left
    BY <1>5, <2>1 DEF SendBurn, Left, TypeOK, ChainOK
  <2> QED BY <1>5, <2>2 DEF SendBurn, Mined, table
<1>6. CASE RecordBurn(p)
  <2> DEFINE new == [row[cur[p]] EXCEPT !.status = "awaiting_attestation", !.hash = TRUE]
  <2>1. cur[p] \in Row /\ new.status = "awaiting_attestation" /\ UNCHANGED chain
    BY <1>6, <1>s DEF RecordBurn, StartPlaces, RowRecord
  <2>2. \A s \in {"burning"} : <<s, "awaiting_attestation">> \in AllowedTransitions
    BY DEF AllowedTransitions
  <2>3. \/ Transition(cur[p], {"burning"}, new)
        \/ TransitionFails(cur[p], {"burning"}, new)
    BY <1>6 DEF RecordBurn
  <2> HIDE DEF new
  <2> QED BY <2>1, <2>2, <2>3, UpdateMoves
<1>7. CASE FailStart(p)
  <2> DEFINE new == [row[cur[p]] EXCEPT !.status = "failed"]
  <2>1. cur[p] \in Row /\ new.status = "failed" /\ UNCHANGED chain
    BY <1>7, <1>s DEF FailStart, StartPlaces, RowRecord
  <2>2. \A s \in {"approving", "burning"} : <<s, "failed">> \in AllowedTransitions
    BY DEF AllowedTransitions
  <2>3. \/ Transition(cur[p], {"approving", "burning"}, new)
        \/ TransitionFails(cur[p], {"approving", "burning"}, new)
    BY <1>7 DEF FailStart
  <2> HIDE DEF new
  <2> QED BY <2>1, <2>2, <2>3, UpdateMoves
<1> QED BY <1>1, <1>2, <1>3, <1>4, <1>5, <1>6, <1>7 DEF StartStep

LEMMA ResumeStepSeen ==
  ASSUME TypeOK, Facts, NEW p \in Proc, ResumeStep(p)
  PROVE  Mined \/ \E r \in Row : Move(r)
<1>s. ASSUME pc[p] \in PollPlaces
      PROVE  cur[p] \in Row /\ row[cur[p]] \in RowRecord
  BY <1>s, PlacesKnown, CopyTypes
<1>1. CASE \/ List(p) \/ EndResume(p) \/ NextRow(p) \/ PollForwarded(p) \/ PollComplete(p)
           \/ PollTimeout(p) \/ Reread(p)
  <2>1. UNCHANGED <<row, burn, mint>>
    BY <1>1 DEF List, EndResume, NextRow, PollForwarded, PollComplete, PollTimeout, Reread,
                table, chain
  <2> QED BY <2>1, UnseenStep
<1>2. CASE Unstick(p)
  <2> DEFINE new == [row[cur[p]] EXCEPT !.status = "awaiting_attestation"]
  <2>1. cur[p] \in Row /\ new.status = "awaiting_attestation" /\ UNCHANGED chain
    BY <1>2, <1>s DEF Unstick, PollPlaces, RowRecord
  <2>2. \A s \in {"stuck"} : <<s, "awaiting_attestation">> \in AllowedTransitions
    BY DEF AllowedTransitions
  <2>3. \/ Transition(cur[p], {"stuck"}, new)
        \/ TransitionFails(cur[p], {"stuck"}, new)
    BY <1>2 DEF Unstick
  <2> HIDE DEF new
  <2> QED BY <2>1, <2>2, <2>3, UpdateMoves
<1>3. CASE MarkStuck(p)
  <2> DEFINE new == [row[cur[p]] EXCEPT !.status = "stuck"]
  <2>1. cur[p] \in Row /\ new.status = "stuck" /\ UNCHANGED chain
    BY <1>3, <1>s DEF MarkStuck, PollPlaces, RowRecord
  <2>2. \A s \in {"awaiting_attestation"} : <<s, "stuck">> \in AllowedTransitions
    BY DEF AllowedTransitions
  <2>3. \/ Transition(cur[p], {"awaiting_attestation"}, new)
        \/ TransitionFails(cur[p], {"awaiting_attestation"}, new)
    BY <1>3 DEF MarkStuck
  <2> HIDE DEF new
  <2> QED BY <2>1, <2>2, <2>3, UpdateMoves
<1>4. CASE AcceptForward(p)
  <2> DEFINE new == [row[cur[p]] EXCEPT !.status = "minted", !.via = "forwarding",
                                         !.message = @ \/ cur[p] \in attested]
  <2>1. cur[p] \in Row /\ new.status = "minted" /\ UNCHANGED chain
    BY <1>4, <1>s DEF AcceptForward, PollPlaces, RowRecord
  <2>2. \A s \in {"awaiting_attestation"} : <<s, "minted">> \in AllowedTransitions
    BY DEF AllowedTransitions
  <2>3. \/ Transition(cur[p], {"awaiting_attestation"}, new)
        \/ TransitionFails(cur[p], {"awaiting_attestation"}, new)
    BY <1>4 DEF AcceptForward
  <2> HIDE DEF new
  <2> QED BY <2>1, <2>2, <2>3, UpdateMoves
<1>5. CASE ToMinting(p)
  <2> DEFINE new == [row[cur[p]] EXCEPT !.status = "minting", !.message = TRUE]
  <2>1. cur[p] \in Row /\ new.status = "minting" /\ UNCHANGED chain
    BY <1>5, <1>s DEF ToMinting, PollPlaces, RowRecord
  <2>2. \A s \in {"awaiting_attestation", "stuck"} : <<s, "minting">> \in AllowedTransitions
    BY DEF AllowedTransitions
  <2>3. \/ Transition(cur[p], {"awaiting_attestation", "stuck"}, new)
        \/ TransitionFails(cur[p], {"awaiting_attestation", "stuck"}, new)
    BY <1>5 DEF ToMinting
  <2> HIDE DEF new
  <2> QED BY <2>1, <2>2, <2>3, UpdateMoves
<1> QED BY <1>1, <1>2, <1>3, <1>4, <1>5 DEF ResumeStep

LEMMA MintStepSeen ==
  ASSUME TypeOK, Facts, NEW p \in Proc, MintStep(p)
  PROVE  Mined \/ \E r \in Row : Move(r)
<1>s. ASSUME pc[p] \in MintPlaces
      PROVE  cur[p] \in Row /\ row[cur[p]] \in RowRecord
  BY <1>s, PlacesKnown, CopyTypes
<1>1. CASE \/ SendMint(p) \/ MintNotSent(p) \/ MintConfirmed(p) \/ MintReverted(p)
           \/ MintTimesOut(p)
  <2>1. UNCHANGED <<row, burn, mint>>
    BY <1>1 DEF SendMint, MintNotSent, MintConfirmed, MintReverted, MintTimesOut, table, chain
  <2> QED BY <2>1, UnseenStep
<1>2. CASE RecordMint(p)
  <2> DEFINE new == [row[cur[p]] EXCEPT !.status = "minted", !.via = "direct",
                                         !.attempts = Attempt(p)]
  <2>1. cur[p] \in Row /\ new.status = "minted" /\ UNCHANGED chain
    BY <1>2, <1>s DEF RecordMint, MintPlaces, RowRecord
  <2>2. \A s \in {"minting"} : <<s, "minted">> \in AllowedTransitions
    BY DEF AllowedTransitions
  <2>3. \/ Transition(cur[p], {"minting"}, new)
        \/ TransitionFails(cur[p], {"minting"}, new)
    BY <1>2 DEF RecordMint
  <2> HIDE DEF new
  <2> QED BY <2>1, <2>2, <2>3, UpdateMoves
<1>3. CASE TreatAsMinted(p)
  <2> DEFINE new == [row[cur[p]] EXCEPT !.status = "minted", !.via = "nonce_used",
                                         !.attempts = Attempt(p)]
  <2>1. cur[p] \in Row /\ new.status = "minted" /\ UNCHANGED chain
    BY <1>3, <1>s DEF TreatAsMinted, MintPlaces, RowRecord
  <2>2. \A s \in {"minting"} : <<s, "minted">> \in AllowedTransitions
    BY DEF AllowedTransitions
  <2>3. \/ Transition(cur[p], {"minting"}, new)
        \/ TransitionFails(cur[p], {"minting"}, new)
    BY <1>3 DEF TreatAsMinted
  <2> HIDE DEF new
  <2> QED BY <2>1, <2>2, <2>3, UpdateMoves
<1>4. CASE FailMint(p)
  <2> DEFINE new == [row[cur[p]] EXCEPT !.status = "failed"]
  <2>1. cur[p] \in Row /\ new.status = "failed" /\ UNCHANGED chain
    BY <1>4, <1>s DEF FailMint, MintPlaces, RowRecord
  <2>2. \A s \in {"minting"} : <<s, "failed">> \in AllowedTransitions
    BY DEF AllowedTransitions
  <2>3. \/ Transition(cur[p], {"minting"}, new)
        \/ TransitionFails(cur[p], {"minting"}, new)
    BY <1>4 DEF FailMint
  <2> HIDE DEF new
  <2> QED BY <2>1, <2>2, <2>3, UpdateMoves
<1>5. CASE RetryLater(p)
  <2> DEFINE new == [row[cur[p]] EXCEPT !.status = "stuck",
                                         !.attempts = Attempt(p)]
  <2>1. cur[p] \in Row /\ new.status = "stuck" /\ UNCHANGED chain
    BY <1>5, <1>s DEF RetryLater, MintPlaces, RowRecord
  <2>2. \A s \in {"minting"} : <<s, "stuck">> \in AllowedTransitions
    BY DEF AllowedTransitions
  <2>3. \/ Transition(cur[p], {"minting"}, new)
        \/ TransitionFails(cur[p], {"minting"}, new)
    BY <1>5 DEF RetryLater
  <2> HIDE DEF new
  <2> QED BY <2>1, <2>2, <2>3, UpdateMoves
<1> QED BY <1>1, <1>2, <1>3, <1>4, <1>5 DEF MintStep

LEMMA ChainStepSeen ==
  ASSUME TypeOK, Facts, NEW r \in Row, ChainStep(r)
  PROVE  Mined
<1>1. CASE MineBurn(r)
  <2>1. /\ UNCHANGED <<row, mint>> /\ burn[r] = "sent"
        /\ burn' = [burn EXCEPT ![r] = "done"] \/ burn' = [burn EXCEPT ![r] = "reverted"]
    BY <1>1 DEF MineBurn, table
  <2>2. CASE burn' = [burn EXCEPT ![r] = "done"]
    BY <2>1, <2>2 DEF Mined
  <2>3. CASE burn' = [burn EXCEPT ![r] = "reverted"]
    <3>1. Left' = Left
      BY <2>1, <2>3 DEF Left, TypeOK, ChainOK
    <3> QED BY <2>1, <3>1 DEF Mined
  <2> QED BY <2>1, <2>2, <2>3
<1>2. CASE Attest(r) \/ Forward(r)
  BY <1>2, UnseenStep DEF Attest, Forward, table
<1>3. CASE MineLoose(r)
  <2>1. UNCHANGED <<row, burn>> /\ burn[r] = "done" /\ (mint' = mint \union {r} \/ mint' = mint)
    BY <1>3 DEF MineLoose, table, Facts, ChainFacts
  <2> QED BY <2>1, UnseenStep DEF Mined
<1>4. ASSUME NEW p \in Proc, MineMint(r, p)
      PROVE  Mined
  <2>1. burn[r] = "done"
    BY <1>4, PooledIsBurned DEF MineMint
  <2>2. UNCHANGED <<row, burn>> /\ (mint' = mint \union {r} \/ mint' = mint)
    BY <1>4 DEF MineMint, table
  <2> QED BY <2>1, <2>2, UnseenStep DEF Mined
<1> QED BY <1>1, <1>2, <1>3, <1>4 DEF ChainStep

LEMMA StepSeen ==
  ASSUME TypeOK, Facts, [Next]_vars
  PROVE  Mined \/ \E r \in Row : Move(r)
<1>1. CASE \/ StartCycle \/ Crash \/ UNCHANGED vars
           \/ \E p \in Route : StartForce(p) \/ StartResume(p)
           \/ \E r \in Row : CooldownElapses(r)
  <2>1. UNCHANGED <<row, burn, mint>>
    BY <1>1 DEF StartCycle, Crash, vars, StartForce, StartResume, CooldownElapses, table, chain
  <2> QED BY <2>1, UnseenStep
<1>2. CASE \E p \in Proc : ProcessStep(p)
  BY <1>2, StartStepSeen, ResumeStepSeen, MintStepSeen DEF ProcessStep
<1>3. CASE \E r \in Row : ChainStep(r)
  BY <1>3, ChainStepSeen
<1> QED BY <1>1, <1>2, <1>3 DEF Next

\* Rows move along CCTP_ALLOWED_TRANSITIONS only, whoever holds which row
\* object, and what is minted or failed is never written again.
THEOREM Legal == Spec => LegalTransitions
<1> DEFINE Step == \A r \in Row :
       row'[r] /= row[r] =>
         \/ row[r].status = "none"
         \/ <<row[r].status, row'[r].status>> \in AllowedTransitions
<1>1. TypeOK /\ Facts /\ [Next]_vars => [Step]_vars
  BY StepSeen DEF Mined, Move
<1>2. Spec => [][Step]_vars
  BY <1>1, TypeCorrect, FactsKept, PTL DEF Spec
<1> QED BY <1>2 DEF LegalTransitions

-----------------------------------------------------------------------------
(* The refinement *)

Claims == [r \in Row |-> ClaimOf(r)]

\* A row that moves speaks as the promise allows: its facts afterwards say that
\* the money left, or arrived.
LEMMA MoveKeepsPromise ==
  ASSUME TypeOK, Facts, TypeOK', Facts', NEW r \in Row, Move(r)
  PROVE  Claims' = Claims \/ Promise!Open(r) \/ Promise!Commit(r) \/ Promise!Deliver(r)
           \/ Promise!Close(r)
<1>1. /\ Claims' = [Claims EXCEPT ![r] = ClaimOf(r)']
      /\ \A s \in Row : Claims[s] = ClaimOf(s)
  <2>1. \A s \in Row \ {r} : ClaimOf(s)' = ClaimOf(s)
    BY DEF Move, ClaimOf
  <2> QED BY <2>1 DEF Claims
<1>2. Left' = Left /\ mint' = mint
  BY DEF Move, Left
<1>3. ASSUME NEW before, ClaimOf(r) \in before
      PROVE  Promise!Say(r, before, ClaimOf(r)')
  BY <1>1, <1>2, <1>3 DEF Promise!Say, Claims, Left
<1>4. CASE row'[r] = row[r]
  <2>1. ClaimOf(r)' = ClaimOf(r)
    BY <1>4 DEF ClaimOf
  <2> QED BY <1>1, <2>1 DEF Claims
<1>5. CASE row[r].status = "none" /\ row'[r].status = "pending"
  <2>1. ClaimOf(r) = "none" /\ ClaimOf(r)' = "open"
    BY <1>5 DEF ClaimOf, ResumableStatuses
  <2> QED BY <1>3, <2>1 DEF Promise!Open
<1>6. CASE <<row[r].status, row'[r].status>> \in AllowedTransitions
  <2>1. CASE row[r].status \in {"pending", "approving", "burning"}
             /\ row'[r].status \in {"approving", "burning"}
    <3>1. ClaimOf(r) = "open" /\ ClaimOf(r)' = "open"
      BY <2>1 DEF ClaimOf, ResumableStatuses
    <3> QED BY <1>1, <3>1 DEF Claims
  <2>2. CASE row[r].status \in {"pending", "approving", "burning"} \union ResumableStatuses
             /\ row'[r].status = "failed"
    <3>1. ClaimOf(r) \in {"open", "moving"} /\ ClaimOf(r)' = "closed"
      BY <2>2 DEF ClaimOf, ResumableStatuses
    <3> QED BY <1>3, <3>1 DEF Promise!Close
  <2>3. CASE row[r].status = "burning" /\ row'[r].status = "awaiting_attestation"
    <3>1. ClaimOf(r) = "open" /\ ClaimOf(r)' = "moving"
      BY <2>3 DEF ClaimOf, ResumableStatuses
    <3>2. r \in Left
      BY <1>2, <2>3 DEF Facts, RowFacts, Accurate, Recorded, ResumableStatuses, Left
    <3> QED BY <1>3, <3>1, <3>2 DEF Promise!Commit, Left
  <2>4. CASE row[r].status \in ResumableStatuses /\ row'[r].status \in ResumableStatuses
    <3>1. ClaimOf(r) = "moving" /\ ClaimOf(r)' = "moving"
      BY <2>4 DEF ClaimOf, ResumableStatuses
    <3> QED BY <1>1, <3>1 DEF Claims
  <2>5. CASE row[r].status \in ResumableStatuses /\ row'[r].status = "minted"
    <3>1. ClaimOf(r) = "moving"
      BY <2>5 DEF ClaimOf, ResumableStatuses
    <3>2. CASE row'[r].via = "forwarding"
      <4>1. ClaimOf(r)' = "moving"
        BY <2>5, <3>2 DEF ClaimOf, ResumableStatuses
      <4> QED BY <1>1, <3>1, <4>1 DEF Claims
    <3>3. CASE row'[r].via /= "forwarding"
      <4>1. row'[r].via \in Via
        BY DEF TypeOK, TableOK, RowRecord
      <4>2. ClaimOf(r)' = "delivered" /\ r \in mint
        BY <1>2, <2>5, <3>3, <4>1 DEF ClaimOf, ResumableStatuses, Via, Facts, RowFacts, Accurate
      <4> QED BY <1>3, <3>1, <4>2 DEF Promise!Deliver
    <3> QED BY <3>2, <3>3
  <2> QED BY <1>6, <2>1, <2>2, <2>3, <2>4, <2>5 DEF AllowedTransitions, ResumableStatuses
<1> QED BY <1>4, <1>5, <1>6 DEF Move

LEMMA MinedKeepsPromise ==
  ASSUME TypeOK, Facts, Mined
  PROVE  /\ Claims' = Claims
         /\ \/ Left' = Left /\ mint' = mint
            \/ \E r \in Row : Promise!Leave(r) \/ Promise!Arrive(r)
<1>1. Claims' = Claims
  BY DEF Mined, Claims, ClaimOf
<1>2. ASSUME NEW r \in Row, burn[r] = "sent", burn' = [burn EXCEPT ![r] = "done"], mint' = mint
      PROVE  Promise!Leave(r)
  <2>1. Left' = Left \union {r} /\ r \notin Left
    BY <1>2 DEF Left, TypeOK, ChainOK
  <2>2. row[r].status \in Status \ {"none"}
    BY <1>2 DEF Facts, RowFacts, Accurate, TypeOK, TableOK, RowRecord
  <2>3. Claims[r] /= "none"
    <3>1. ClaimOf(r) /= "none"
      BY <2>2 DEF ClaimOf, Status, TerminalStatuses, InFlightStatuses, ResumableStatuses
    <3> QED BY <3>1 DEF Claims
  <2> QED BY <1>1, <1>2, <2>1, <2>3 DEF Promise!Leave, Claims, Left
<1>3. ASSUME NEW r \in Row, burn' = burn, burn[r] = "done", mint' = mint \union {r}, r \notin mint
      PROVE  Promise!Arrive(r)
  BY <1>1, <1>3 DEF Promise!Arrive, Claims, Left
<1>4. ASSUME NEW r \in Row, burn' = burn, mint' = mint \union {r}, r \in mint
      PROVE  Left' = Left /\ mint' = mint
  BY <1>4 DEF Left
<1> QED BY <1>1, <1>2, <1>3, <1>4 DEF Mined

\* The service implements the promise of one transfer for every row at once:
\* money leaves Base once, arrives on Sepolia once and after it left, and the
\* record claims neither before it is so.
THEOREM Implements == Spec => KeepsPromise
<1>1. Init => Promise!TransferInit
  <2> SUFFICES ASSUME Init PROVE Promise!TransferInit
    OBVIOUS
  <2>1. \A r \in Row : ClaimOf(r) = "none" /\ burn[r] /= "done"
    BY DEF Init, ClaimOf, EmptyRow, ResumableStatuses
  <2> QED BY <2>1 DEF Init, Promise!TransferInit
<1>2. TypeOK /\ Facts /\ TypeOK' /\ Facts' /\ [Next]_vars
        => [Promise!TransferNext]_(Promise!transferVars)
  <2> SUFFICES ASSUME TypeOK, Facts, TypeOK', Facts', [Next]_vars
               PROVE  Promise!TransferNext \/ UNCHANGED Promise!transferVars
    OBVIOUS
  <2>1. CASE Mined
    BY <2>1, MinedKeepsPromise DEF Promise!TransferNext, Promise!transferVars, Claims, Left
  <2>2. ASSUME NEW r \in Row, Move(r)
        PROVE  Promise!TransferNext \/ UNCHANGED Promise!transferVars
    <3>1. Left' = Left /\ mint' = mint
      BY <2>2 DEF Move, Left
    <3> QED BY <2>2, <3>1, MoveKeepsPromise
            DEF Promise!TransferNext, Promise!transferVars, Claims, Left
  <2> QED BY <2>1, <2>2, StepSeen
<1> QED BY <1>1, <1>2, TypeCorrect, FactsKept, PTL DEF Spec, KeepsPromise, Promise!TransferSpec

\* What the promise of a transfer entails holds of the service: no USDC arrives on
\* Sepolia that did not leave Base, and no row says of its money what is not so.
THEOREM HonestThroughout == Spec => []Promise!Honest
<1>1. Promise!TransferInit => Promise!Honest
  BY DEF Promise!TransferInit, Promise!Honest
<1>2. ASSUME Promise!Honest, [Promise!TransferNext]_(Promise!transferVars)
      PROVE  Promise!Honest'
  <2>1. CASE UNCHANGED Promise!transferVars
    BY <1>2, <2>1 DEF Promise!Honest, Promise!transferVars
  <2>2. ASSUME NEW r \in Row,
               \/ Promise!Open(r) \/ Promise!Commit(r) \/ Promise!Deliver(r) \/ Promise!Close(r)
        PROVE  Promise!Honest'
    BY <1>2, <2>2
    DEF Promise!Honest, Promise!Open, Promise!Commit, Promise!Deliver, Promise!Close, Promise!Say
  <2>3. ASSUME NEW r \in Row, Promise!Leave(r) \/ Promise!Arrive(r)
        PROVE  Promise!Honest'
    BY <1>2, <2>3 DEF Promise!Honest, Promise!Leave, Promise!Arrive
  <2> QED BY <1>2, <2>1, <2>2, <2>3 DEF Promise!TransferNext
<1> QED BY <1>1, <1>2, Implements, PTL DEF KeepsPromise, Promise!TransferSpec

-----------------------------------------------------------------------------
(* The safety buffer *)

\* Places where the worker holds a reading of the balance.
Deciding == {"count", "last_burn", "decide"}

\* Requests whose call is over, or has burned.  A request makes one call.
Spenders ==
  {p \in Route : pc[p] = "answered" \/ (pc[p] \in StartPlaces /\ burn[cur[p]] = "done")}

Orphans == {r \in Row : OrphanBurn(r)}

\* What requests and orphans may have taken out of the buffer.
Excused == (Cardinality(Spenders) + Cardinality(Orphans)) * MaxChunk

\* The buffer, or where the treasury stood at first.
Floor == Smaller(BaseSafetyBuffer, InitialBase)

\* Rows with a hash were burned, and only they are resumed; a row no process is
\* at work on no process names.
HashFacts ==
  /\ \A r \in Row : row[r].hash => burn[r] = "done"
  /\ \A p \in Proc :
       /\ \A r \in Row : copy[p][r] /= EmptyRow => row[r].hash
       /\ pc[p] \in PollPlaces \union MintPlaces => row[cur[p]].hash
       /\ pc[p] \notin RowPlaces => cur[p] = NoRow

\* But for what is excused, the floor holds, the worker has not read more than
\* there is, and the burn it is about leaves the floor alone.
Cushion ==
  /\ \A r \in Row : row[r].amount <= MaxChunk
  /\ base + Excused >= Floor
  /\ pc[Worker] \in Deciding => seen[Worker].base <= base + Excused
  /\ pc[Worker] \in StartPlaces /\ burn[cur[Worker]] \in {"none", "sent"} =>
       base + Excused - row[cur[Worker]].amount >= Floor

\* A step that leaves the cushion as it is: burns are sent or revert, a hash is
\* written where the burn is done, a new row has an amount within the limit ...
CalmWorld(p) ==
  /\ base' = base
  /\ \A r \in Row : \/ burn'[r] = burn[r]
                    \/ burn[r] = "none" /\ burn'[r] = "sent"
                    \/ burn[r] = "sent" /\ burn'[r] = "reverted"
  /\ \A r \in Row : \/ row'[r].hash = row[r].hash
                    \/ row'[r].hash /\ burn[r] = "done" /\ r = cur[p]
  /\ \A r \in Row : \/ row'[r].amount = row[r].amount
                    \/ row[r].status = "none" /\ row'[r].amount <= MaxChunk

\* ... and the process goes on with nothing, with a row that has its hash, or
\* with what it had.
CalmProc(p) ==
  /\ \A r \in Row : copy'[p][r] = EmptyRow \/ copy[p][r] /= EmptyRow \/ row[r].hash
  /\ \/ /\ cur'[p] = NoRow /\ pc'[p] \notin RowPlaces
        /\ p = Worker => pc'[p] \notin Deciding
        /\ pc[p] /= "answered" /\ (pc[p] \in StartPlaces => pc'[p] = Rest(p))
     \/ /\ cur'[p] \in Row /\ row[cur'[p]].hash
        /\ pc[p] \notin StartPlaces \union {"answered"}
        /\ pc'[p] \in PollPlaces \union MintPlaces
     \/ /\ cur'[p] = cur[p] /\ cur[p] \in Row
        /\ pc[p] \in StartPlaces /\ pc'[p] \in StartPlaces
     \/ /\ cur'[p] = cur[p] /\ seen'[p].base = seen[p].base
        /\ pc[p] \in Deciding /\ pc'[p] \in Deciding
     \/ UNCHANGED <<row, pc, cur, seen>>

Calm(p) == CalmWorld(p) /\ CalmProc(p)

\* The others stand still.
Others(p) ==
  \A q \in Proc \ {p} :
    pc'[q] = pc[q] /\ cur'[q] = cur[q] /\ copy'[q] = copy[q] /\ seen'[q] = seen[q]

LEMMA PlacesApart ==
  /\ StartPlaces \intersect (PollPlaces \union MintPlaces) = {}
  /\ Deciding \intersect RowPlaces = {}
  /\ "answered" \notin RowPlaces \union Deciding
BY DEF StartPlaces, PollPlaces, MintPlaces, Deciding, RowPlaces

LEMMA TwoProcs == Worker \in Proc /\ Worker \notin Route /\ Route \subseteq Proc
BY RebalanceConfig DEF Proc

\* More is excused when more have spent or more is orphaned.
LEMMA ExcusedGrows ==
  ASSUME Spenders \subseteq Spenders', Orphans \subseteq Orphans'
  PROVE  /\ Excused \in Nat /\ Excused' \in Nat /\ Excused' >= Excused
         /\ Spenders' /= Spenders \/ Orphans' /= Orphans => Excused' >= Excused + MaxChunk
<1> DEFINE s == Cardinality(Spenders)
           t == Cardinality(Spenders')
           o == Cardinality(Orphans)
           u == Cardinality(Orphans')
<1>1. /\ IsFiniteSet(Spenders) /\ IsFiniteSet(Spenders')
      /\ IsFiniteSet(Orphans) /\ IsFiniteSet(Orphans')
  BY RebalanceConfig, FS_Subset DEF Spenders, Orphans
<1>2. /\ s \in Nat /\ t \in Nat /\ o \in Nat /\ u \in Nat /\ s <= t /\ o <= u
      /\ (Spenders' /= Spenders => s < t) /\ (Orphans' /= Orphans => o < u)
  BY <1>1, FS_Subset, FS_CardinalityType
<1> HIDE DEF s, t, o, u
<1>3. \A m, n \in Nat : m <= n => m * MaxChunk \in Nat /\ m * MaxChunk <= n * MaxChunk
  BY PolicyConfig
<1>4. \A n \in Nat : (n + 1) * MaxChunk = n * MaxChunk + MaxChunk
  BY PolicyConfig
<1>5. (s + o) * MaxChunk \in Nat /\ (t + u) * MaxChunk \in Nat
      /\ (s + o) * MaxChunk <= (t + u) * MaxChunk
  BY <1>2, <1>3
<1>6. Spenders' /= Spenders \/ Orphans' /= Orphans
        => (s + o) * MaxChunk + MaxChunk <= (t + u) * MaxChunk
  <2> SUFFICES ASSUME Spenders' /= Spenders \/ Orphans' /= Orphans
               PROVE  (s + o) * MaxChunk + MaxChunk <= (t + u) * MaxChunk
    OBVIOUS
  <2>1. s + o + 1 <= t + u /\ s + o \in Nat /\ s + o + 1 \in Nat /\ t + u \in Nat
    BY <1>2
  <2> QED BY <2>1, <1>3, <1>4
<1> QED BY <1>5, <1>6 DEF Excused, s, t, o, u

\* What held of balance and excuses together holds when they grow together.
LEMMA CushionCarried ==
  ASSUME base \in Nat, base' \in Nat, Excused \in Nat, Excused' \in Nat, Floor \in Nat,
         \/ base' = base /\ Excused' >= Excused
         \/ base' + Excused' >= base + Excused
  PROVE  /\ base + Excused >= Floor => base' + Excused' >= Floor
         /\ \A n \in Nat : n <= base + Excused => n <= base' + Excused'
         /\ \A n \in Nat : base + Excused - n >= Floor => base' + Excused' - n >= Floor
<1>1. PICK b \in Nat, c \in Nat, x \in Nat, y \in Nat, f \in Nat :
        b = base /\ c = base' /\ x = Excused /\ y = Excused' /\ f = Floor
  OBVIOUS
<1>2. c + y >= b + x
  <2>1. CASE base' = base /\ Excused' >= Excused
    <3>1. c = b /\ y >= x
      BY <1>1, <2>1
    <3> QED BY <3>1
  <2>2. CASE base' + Excused' >= base + Excused
    BY <1>1, <2>2
  <2> QED BY <2>1, <2>2
<1>3. /\ b + x >= f => c + y >= f
      /\ \A n \in Nat : n <= b + x => n <= c + y
      /\ \A n \in Nat : b + x - n >= f => c + y - n >= f
  BY <1>2
<1> QED BY <1>1, <1>3

LEMMA CalmKeepsHashFacts ==
  ASSUME TypeOK, NEW p \in Proc, HashFacts, Calm(p), Others(p)
  PROVE  HashFacts'
<1>1. \A r \in Row : burn[r] = "done" => burn'[r] = "done"
  BY DEF Calm, CalmWorld
<1>2. \A r \in Row : row'[r].hash => burn'[r] = "done"
  BY <1>1 DEF Calm, CalmWorld, HashFacts
<1>3. \A r \in Row : row[r].hash => row'[r].hash
  BY DEF Calm, CalmWorld
<1>4. ASSUME NEW q \in Proc
      PROVE  /\ \A r \in Row : copy'[q][r] /= EmptyRow => row'[r].hash
             /\ pc'[q] \in PollPlaces \union MintPlaces => row'[cur'[q]].hash
             /\ pc'[q] \notin RowPlaces => cur'[q] = NoRow
  <2>0. pc[q] \in RowPlaces => cur[q] \in Row
    BY DEF TypeOK, LocalsOK
  <2>1. CASE q /= p
    BY <1>3, <2>0, <2>1, PlacesKnown DEF Others, HashFacts, RowPlaces
  <2>2. CASE q = p
    <3>1. \A r \in Row : copy'[q][r] /= EmptyRow => row'[r].hash
      BY <1>3, <2>2 DEF Calm, CalmProc, HashFacts
    <3>2. pc'[q] \in PollPlaces \union MintPlaces => row'[cur'[q]].hash
      BY <1>3, <2>0, <2>2, PlacesApart, PlacesKnown DEF Calm, CalmProc, HashFacts
    <3>3. pc'[q] \notin RowPlaces => cur'[q] = NoRow
      BY <2>2, PlacesApart, PlacesKnown DEF Calm, CalmProc, HashFacts
    <3> QED BY <3>1, <3>2, <3>3
  <2> QED BY <2>1, <2>2
<1> QED BY <1>2, <1>4 DEF HashFacts

\* Nobody who has spent comes back: a request that starts a transfer ends with it.
LEMMA CalmExcuses ==
  ASSUME TypeOK, NEW p \in Proc, HashFacts, Calm(p), Others(p)
  PROVE  Spenders \subseteq Spenders' /\ Orphans \subseteq Orphans'
<1>1. \A r \in Row : burn[r] = "done" => burn'[r] = "done"
  BY DEF Calm, CalmWorld
<1>2. ASSUME NEW q \in Spenders
      PROVE  q \in Spenders'
  <2>0. q \in Route /\ q \in Proc /\ q /= Worker /\ (pc[q] \in RowPlaces => cur[q] \in Row)
    BY TwoProcs DEF Spenders, TypeOK, LocalsOK
  <2>1. CASE q /= p
    BY <1>1, <2>0, <2>1, PlacesKnown DEF Others, Spenders, RowPlaces
  <2>2. CASE q = p
    BY <1>1, <2>0, <2>2, PlacesApart, PlacesKnown DEF Calm, CalmProc, Spenders, Rest, RowPlaces
  <2> QED BY <2>1, <2>2
<1>3. ASSUME NEW r \in Row, OrphanBurn(r)
      PROVE  OrphanBurn(r)'
  <2>1. burn'[r] = "done" /\ ~row[r].hash /\ r /= NoRow /\ \A q \in Proc : cur[q] /= r
    BY <1>1, <1>3, RebalanceConfig DEF OrphanBurn
  <2>2. ~row'[r].hash
    BY <2>1 DEF Calm, CalmWorld
  <2>3. \A q \in Proc : cur'[q] /= r
    BY <2>1 DEF Calm, CalmProc, Others
  <2> QED BY <2>1, <2>2, <2>3 DEF OrphanBurn
<1> QED BY <1>2, <1>3 DEF Orphans

LEMMA CalmKeeps ==
  ASSUME TypeOK, Facts, NEW p \in Proc, HashFacts, Cushion, Calm(p), Others(p)
  PROVE  HashFacts' /\ Cushion'
<1>1. Excused' >= Excused /\ Excused \in Nat /\ Excused' \in Nat
  BY CalmExcuses, ExcusedGrows
<1>2. base' = base /\ base \in Nat /\ base' \in Nat /\ Floor \in Nat
  BY PolicyConfig, RebalanceConfig DEF Calm, CalmWorld, TypeOK, ChainOK, Floor, Smaller
<1>3. \A r \in Row : row'[r].amount <= MaxChunk
  BY DEF Calm, CalmWorld, Cushion
<1>4. base' + Excused' >= Floor
  <2>1. base + Excused >= Floor
    BY DEF Cushion
  <2> QED BY <1>1, <1>2, <2>1, CushionCarried
<1>5. pc'[Worker] \in Deciding =>
        pc[Worker] \in Deciding /\ seen'[Worker].base = seen[Worker].base
  BY TwoProcs, PlacesApart, PlacesKnown DEF Calm, CalmProc, Others
<1>6. seen[Worker].base \in Nat
  BY TwoProcs DEF TypeOK, LocalsOK, Readings
<1>7. pc'[Worker] \in Deciding => seen'[Worker].base <= base' + Excused'
  <2>1. pc[Worker] \in Deciding => seen[Worker].base <= base + Excused
    BY DEF Cushion
  <2> QED BY <1>1, <1>2, <1>5, <1>6, <2>1, CushionCarried
<1>8. pc[Worker] \in StartPlaces => cur[Worker] \in Row /\ row[cur[Worker]].status /= "none"
  BY TwoProcs, PlacesKnown DEF TypeOK, LocalsOK, Facts, ProcFacts, StartFacts, StartPlaces
<1>9. pc'[Worker] \in StartPlaces =>
        /\ pc[Worker] \in StartPlaces /\ cur'[Worker] = cur[Worker]
        /\ row'[cur[Worker]].amount = row[cur[Worker]].amount
  BY <1>8, TwoProcs, PlacesApart, PlacesKnown DEF Calm, CalmWorld, CalmProc, Others
<1>10. \A r \in Row : burn'[r] \in {"none", "sent"} => burn[r] \in {"none", "sent"}
  BY DEF Calm, CalmWorld
<1>11. pc'[Worker] \in StartPlaces /\ burn'[cur'[Worker]] \in {"none", "sent"} =>
         base' + Excused' - row'[cur'[Worker]].amount >= Floor
  <2> SUFFICES ASSUME pc'[Worker] \in StartPlaces, burn'[cur'[Worker]] \in {"none", "sent"}
               PROVE  base' + Excused' - row'[cur'[Worker]].amount >= Floor
    OBVIOUS
  <2>1. /\ base + Excused - row[cur[Worker]].amount >= Floor
        /\ row'[cur'[Worker]].amount = row[cur[Worker]].amount
    BY <1>8, <1>9, <1>10 DEF Cushion
  <2>2. row[cur[Worker]].amount \in Nat
    BY <1>8, <1>9 DEF TypeOK, TableOK, RowRecord
  <2> QED BY <1>1, <1>2, <2>1, <2>2, CushionCarried
<1> QED BY <1>3, <1>4, <1>7, <1>11, CalmKeepsHashFacts DEF Cushion

\* The call, or the work on a row, ends.
LEMMA EndCalm ==
  ASSUME TypeOK, NEW p \in Proc, pc[p] /= "answered",
         Stop(p) \/ (Return(p) /\ pc[p] \notin StartPlaces)
  PROVE  CalmProc(p)
<1>1. /\ cur'[p] = NoRow /\ pc'[p] \in {Rest(p), "next"}
      /\ pc[p] \in StartPlaces => pc'[p] = Rest(p)
      /\ \A r \in Row : copy'[p][r] \in {copy[p][r], EmptyRow}
  BY DEF Stop, Return, Goto, TypeOK, LocalsOK
<1>2. Rest(p) \in {"idle", "answered"}
  BY DEF Rest
<1> QED BY <1>1, <1>2 DEF CalmProc, Deciding, RowPlaces, StartPlaces, PollPlaces, MintPlaces

LEMMA AwayCalm ==
  ASSUME TypeOK, NEW p \in Proc, pc[p] \in PollPlaces \union MintPlaces, Return(p)
  PROVE  CalmProc(p)
BY EndCalm, PlacesApart, PlacesKnown

\* It goes on with the transfer it starts ...
LEMMA StartCalm ==
  ASSUME TypeOK, NEW p \in Proc, NEW place \in StartPlaces, Stay(p, place),
         pc[p] \in StartPlaces
  PROVE  CalmProc(p)
<1>1. /\ cur'[p] = cur[p] /\ cur[p] \in Row /\ pc'[p] = place
      /\ copy' = copy
  BY PlacesKnown DEF Stay, Goto, TypeOK, LocalsOK
<1> QED BY <1>1 DEF CalmProc

\* ... or with the row it resumes.
LEMMA ResumeCalm ==
  ASSUME TypeOK, NEW p \in Proc, HashFacts, NEW place \in PollPlaces \union MintPlaces,
         Stay(p, place) \/ (\E new : Hold(p, new, place)),
         pc[p] \in PollPlaces \union MintPlaces
  PROVE  CalmProc(p)
<1>1. /\ cur'[p] = cur[p] /\ cur[p] \in Row /\ pc'[p] = place
      /\ \A r \in Row \ {cur[p]} : copy'[p][r] = copy[p][r]
  BY PlacesKnown DEF Stay, Hold, Goto, TypeOK, LocalsOK
<1>2. row[cur[p]].hash /\ pc[p] \notin StartPlaces \union {"answered"}
  BY PlacesApart, PlacesKnown DEF HashFacts
<1>3. \A r \in Row : copy'[p][r] = EmptyRow \/ copy[p][r] /= EmptyRow \/ row[r].hash
  BY <1>1, <1>2
<1> QED BY <1>1, <1>2, <1>3 DEF CalmProc

\* An update of the table that leaves hash and amount.
LEMMA UpdateCalm ==
  ASSUME TypeOK, NEW p \in Proc, NEW r \in Row, NEW from, NEW new,
         Transition(r, from, new) \/ TransitionFails(r, from, new),
         new.hash = row[r].hash, new.amount = row[r].amount, UNCHANGED chain
  PROVE  CalmWorld(p)
<1>1. \A s \in Row : row'[s].hash = row[s].hash /\ row'[s].amount = row[s].amount
  BY TransitionEffect DEF TypeOK, TableOK
<1> QED BY <1>1 DEF CalmWorld, chain

LEMMA QuietCalm ==
  ASSUME NEW p \in Proc, UNCHANGED <<row, base, burn>>
  PROVE  CalmWorld(p)
BY DEF CalmWorld

\* What the policy lets by leaves the buffer of the balance that was read.
LEMMA InsertedAmount ==
  ASSUME TypeOK, Facts, HashFacts, NEW p \in Proc, NEW r \in Row, Insert(p, r)
  PROVE  /\ row[r].status = "none" /\ burn[r] = "none"
         /\ ~row[r].hash /\ row'[r].hash = row[r].hash
         /\ \A s \in Row \ {r} : row'[s] = row[s]
         /\ row'[r].amount \in Nat /\ row'[r].amount <= MaxChunk
         /\ seen[p].base - row'[r].amount >= BaseSafetyBuffer
<1> DEFINE amount == BurnAmount(seen[p].base, seen[p].override)
<1>1. PICK mode \in Modes, gas \in Gas, starved \in BOOLEAN :
        /\ PolicyAllows(p, mode, gas, starved)
        /\ row[r].status = "none"
        /\ row' = [row EXCEPT ![r] = NewRow(amount, mode)]
  BY DEF Insert
<1>2. burn[r] = "none" /\ ~row[r].hash /\ row[r].hash \in BOOLEAN
  BY <1>1 DEF HashFacts, Facts, RowFacts, Accurate, TypeOK, TableOK, RowRecord
<1>3. /\ row'[r].amount = amount /\ ~row'[r].hash /\ row'[r].hash \in BOOLEAN
      /\ \A s \in Row \ {r} : row'[s] = row[s]
  BY <1>1 DEF NewRow, EmptyRow, TypeOK, TableOK
<1>4. seen[p].base \in Nat /\ seen[p].override \in Nat
  BY DEF TypeOK, LocalsOK, Readings
<1>5. /\ amount \in Nat /\ amount <= MaxChunk
      /\ seen[p].base - amount - MaxFee >= BaseSafetyBuffer
  <2>1. PolicyView(p, starved).base = seen[p].base
    BY DEF PolicyView
  <2>2. Eligible(PolicyView(p, starved), gas, mode, seen[p].override)
    BY <1>1 DEF PolicyAllows
  <2> HIDE DEF amount
  <2>3. amount = BurnAmount(PolicyView(p, starved).base, seen[p].override)
    BY <2>1 DEF amount
  <2> QED BY <1>4, <2>1, <2>2, <2>3, EligibleAmountIsSafe
<1> HIDE DEF amount
<1>6. seen[p].base - amount >= BaseSafetyBuffer
  BY <1>4, <1>5, PolicyConfig
<1> QED BY <1>1, <1>2, <1>3, <1>5, <1>6

\* Deciding, and the end of a call that starts nothing.
LEMMA DecidingCalm ==
  ASSUME TypeOK, Facts, NEW p \in Proc, HashFacts,
         \/ (p = Worker /\ StartCycle) \/ StartForce(p) \/ StartResume(p)
         \/ (p /= Worker /\ ReadBalances(p)) \/ CountInFlight(p) \/ ReadLastBurn(p)
         \/ ReadFails(p) \/ Skip(p) \/ CreateFails(p)
  PROVE  Calm(p)
<1>1. CASE \/ (p = Worker /\ StartCycle) \/ StartForce(p) \/ StartResume(p)
           \/ (p /= Worker /\ ReadBalances(p))
  <2>1. /\ pc'[p] \in {"list", "balances", "count"} /\ pc[p] \in {"idle", "balances"}
        /\ p = Worker => pc'[p] /= "count"
        /\ UNCHANGED <<copy, row, base, burn, cur>>
    BY <1>1 DEF StartCycle, StartForce, StartResume, ReadBalances, Goto, TypeOK, LocalsOK, table,
                chain
  <2>2. cur'[p] = NoRow
    BY <2>1 DEF HashFacts, RowPlaces, StartPlaces, PollPlaces, MintPlaces
  <2> QED BY <2>1, <2>2, QuietCalm
          DEF Calm, CalmProc, Deciding, RowPlaces, StartPlaces, PollPlaces, MintPlaces
<1>2. CASE CountInFlight(p) \/ ReadLastBurn(p)
  <2>1. /\ cur' = cur /\ seen'[p].base = seen[p].base
        /\ pc[p] \in Deciding /\ pc'[p] \in Deciding
        /\ UNCHANGED <<copy, row, base, burn>>
    BY <1>2 DEF CountInFlight, ReadLastBurn, Goto, Deciding, TypeOK, LocalsOK, Readings, table, chain
  <2> QED BY <2>1, QuietCalm DEF Calm, CalmProc
<1>3. CASE ReadFails(p) \/ Skip(p)
  <2>1. /\ Stop(p) /\ pc[p] \notin StartPlaces \union {"answered"}
        /\ UNCHANGED <<row, base, burn>>
    BY <1>3 DEF ReadFails, Skip, StartPlaces, table, chain
  <2> QED BY <2>1, EndCalm, QuietCalm DEF Calm
<1>4. CASE CreateFails(p)
  <2>1. PICK r \in Row : Insert(p, r)
    BY <1>4 DEF CreateFails
  <2>2. CalmWorld(p)
    BY <1>4, <2>1, InsertedAmount DEF CalmWorld, CreateFails, chain
  <2>3. Stop(p) /\ pc[p] = "decide"
    BY <1>4 DEF CreateFails
  <2> QED BY <2>2, <2>3, EndCalm DEF Calm
<1> QED BY <1>1, <1>2, <1>3, <1>4

\* startTransfer, up to its last update.
LEMMA StartingCalm ==
  ASSUME TypeOK, Facts, NEW p \in Proc, HashFacts,
         \/ Begin(p) \/ ReadAllowance(p) \/ Approve(p) \/ ToBurning(p)
         \/ SendBurn(p) \/ BurnNotSent(p) \/ BurnConfirmed(p) \/ BurnThrows(p)
         \/ RecordBurn(p) \/ FailStart(p)
  PROVE  Calm(p)
<1>s. pc[p] \in StartPlaces /\ cur[p] \in Row /\ row[cur[p]] \in RowRecord
  <2>1. pc[p] \in StartPlaces
    BY DEF Begin, ReadAllowance, Approve, ToBurning, SendBurn, BurnNotSent, BurnConfirmed,
           BurnThrows, RecordBurn, FailStart, StartPlaces
  <2> QED BY <2>1, PlacesKnown DEF TypeOK, TableOK, LocalsOK
<1>1. CASE \/ ReadAllowance(p) \/ Approve(p) \/ BurnNotSent(p)
           \/ BurnConfirmed(p) \/ BurnThrows(p)
  <2>1. UNCHANGED <<row, base, burn>>
    BY <1>1 DEF ReadAllowance, Approve, BurnNotSent, BurnConfirmed, BurnThrows, table, chain
  <2>2. PICK place \in StartPlaces : Stay(p, place)
    BY <1>1 DEF ReadAllowance, Approve, BurnNotSent, BurnConfirmed, BurnThrows, StartPlaces
  <2> QED BY <1>s, <2>1, <2>2, QuietCalm, StartCalm DEF Calm
<1>2. CASE SendBurn(p)
  <2>1. /\ UNCHANGED <<row, base>> /\ Stay(p, "burn_receipt")
        /\ burn[cur[p]] = "none" /\ burn' = [burn EXCEPT ![cur[p]] = "sent"]
    BY <1>2 DEF SendBurn, table, Facts, ProcFacts, StartFacts
  <2>2. CalmWorld(p)
    BY <1>s, <2>1 DEF CalmWorld, TypeOK, ChainOK
  <2>3. "burn_receipt" \in StartPlaces
    BY DEF StartPlaces
  <2> QED BY <1>s, <2>1, <2>2, <2>3, StartCalm DEF Calm
<1>3. CASE Begin(p)
  <2> DEFINE new == [row[cur[p]] EXCEPT !.status = "approving"]
  <2>1. new.hash = row[cur[p]].hash /\ new.amount = row[cur[p]].amount
    BY <1>s DEF RowRecord
  <2>2. \/ Transition(cur[p], {"pending"}, new) /\ Stay(p, "allowance")
        \/ TransitionFails(cur[p], {"pending"}, new) /\ Stop(p)
    BY <1>3 DEF Begin
  <2>3. CalmWorld(p)
    <3> HIDE DEF new
    <3> QED BY <1>3, <1>s, <2>1, <2>2, UpdateCalm DEF Begin
  <2>4. "allowance" \in StartPlaces /\ pc[p] /= "answered"
    BY <1>s, PlacesApart, PlacesKnown DEF StartPlaces
  <2>5. Stay(p, "allowance") \/ Stop(p)
    BY <2>2
  <2>6. CalmProc(p)
    BY <1>s, <2>4, <2>5, StartCalm, EndCalm
  <2> QED BY <2>3, <2>6 DEF Calm
<1>4. CASE ToBurning(p)
  <2> DEFINE new == [row[cur[p]] EXCEPT !.status = "burning"]
  <2>1. new.hash = row[cur[p]].hash /\ new.amount = row[cur[p]].amount
    BY <1>s DEF RowRecord
  <2>2. \/ Transition(cur[p], {"approving"}, new) /\ Stay(p, "burn")
        \/ TransitionFails(cur[p], {"approving"}, new) /\ Stop(p)
    BY <1>4 DEF ToBurning
  <2>3. CalmWorld(p)
    <3> HIDE DEF new
    <3> QED BY <1>4, <1>s, <2>1, <2>2, UpdateCalm DEF ToBurning
  <2>4. "burn" \in StartPlaces /\ pc[p] /= "answered"
    BY <1>s, PlacesApart, PlacesKnown DEF StartPlaces
  <2>5. Stay(p, "burn") \/ Stop(p)
    BY <2>2
  <2>6. CalmProc(p)
    BY <1>s, <2>4, <2>5, StartCalm, EndCalm
  <2> QED BY <2>3, <2>6 DEF Calm
<1>5. CASE FailStart(p)
  <2> DEFINE new == [row[cur[p]] EXCEPT !.status = "failed"]
  <2>1. new.hash = row[cur[p]].hash /\ new.amount = row[cur[p]].amount
    BY <1>s DEF RowRecord
  <2>2. \/ Transition(cur[p], {"approving", "burning"}, new)
        \/ TransitionFails(cur[p], {"approving", "burning"}, new)
    BY <1>5 DEF FailStart
  <2>3. CalmWorld(p)
    <3> HIDE DEF new
    <3> QED BY <1>5, <1>s, <2>1, <2>2, UpdateCalm DEF FailStart
  <2>4. Stop(p) /\ pc[p] /= "answered"
    BY <1>5 DEF FailStart
  <2> QED BY <2>3, <2>4, EndCalm DEF Calm
<1>6. CASE RecordBurn(p)
  <2> DEFINE new == [row[cur[p]] EXCEPT !.status = "awaiting_attestation", !.hash = TRUE]
  <2>1. new.hash
    BY <1>s DEF RowRecord
  <2>2. \/ Transition(cur[p], {"burning"}, new)
        \/ TransitionFails(cur[p], {"burning"}, new)
    BY <1>6 DEF RecordBurn
  <2>3. burn[cur[p]] = "done"
    BY <1>6 DEF RecordBurn, Facts, ProcFacts, StartFacts
  <2>4. row' = row \/ row' = [row EXCEPT ![cur[p]] = new]
    BY <2>2, TransitionEffect
  <2>5. \A s \in Row : row'[s].hash = row[s].hash \/ (row'[s].hash /\ s = cur[p])
    <3> HIDE DEF new
    <3> QED BY <2>1, <2>4 DEF TypeOK, TableOK
  <2>6. \A s \in Row : row'[s].amount = row[s].amount
    <3>1. new.amount = row[cur[p]].amount
      BY <1>s DEF RowRecord
    <3> HIDE DEF new
    <3> QED BY <1>s, <2>4, <3>1 DEF TypeOK, TableOK
  <2>7. CalmWorld(p)
    BY <1>6, <2>3, <2>5, <2>6 DEF RecordBurn, CalmWorld, chain
  <2>8. Stop(p) /\ pc[p] /= "answered"
    BY <1>6 DEF RecordBurn
  <2> QED BY <2>7, <2>8, EndCalm DEF Calm
<1> QED BY <1>1, <1>2, <1>3, <1>4, <1>5, <1>6

\* resumeInFlight.
LEMMA ResumingCalm ==
  ASSUME TypeOK, Facts, NEW p \in Proc, HashFacts, ResumeStep(p)
  PROVE  Calm(p)
<1>s. ASSUME pc[p] \in PollPlaces
      PROVE  cur[p] \in Row /\ row[cur[p]] \in RowRecord
  BY <1>s, PlacesKnown DEF TypeOK, TableOK, LocalsOK
<1>p. \A old : PlaceFor(old) \in PollPlaces \union MintPlaces
  BY DEF PlaceFor, PollPlaces, MintPlaces
<1>1. CASE List(p)
  <2>1. /\ UNCHANGED <<row, base, burn, cur>> /\ pc'[p] = "next" /\ pc[p] = "list"
        /\ \A r \in Row : \/ copy'[p][r] \in {copy[p][r], EmptyRow}
                          \/ r \in Resumable
    BY <1>1 DEF List, Goto, TypeOK, LocalsOK, table, chain
  <2>2. \A r \in Resumable : row[r].hash
    BY DEF Resumable, Facts, RowFacts, Accurate, Recorded
  <2>3. cur[p] = NoRow
    BY <2>1 DEF HashFacts, RowPlaces, StartPlaces, PollPlaces, MintPlaces
  <2> QED BY <2>1, <2>2, <2>3, QuietCalm
          DEF Calm, CalmProc, Deciding, RowPlaces, StartPlaces, PollPlaces, MintPlaces
<1>2. CASE EndResume(p)
  <2>1. CASE Stop(p)
    <3>1. pc[p] /= "answered" /\ UNCHANGED <<row, base, burn>>
      BY <1>2 DEF EndResume, table, chain
    <3> QED BY <2>1, <3>1, EndCalm, QuietCalm DEF Calm
  <2>2. CASE Goto(p, "balances") /\ UNCHANGED <<cur, copy, seen, receipt>>
    <3>1. /\ UNCHANGED <<row, base, burn, copy>> /\ pc'[p] = "balances"
          /\ cur'[p] = NoRow /\ pc[p] = "next"
      BY <1>2, <2>2 DEF EndResume, Goto, HashFacts, RowPlaces, StartPlaces, PollPlaces,
            MintPlaces, TypeOK, LocalsOK, table, chain
    <3> QED BY <3>1, QuietCalm
            DEF Calm, CalmProc, Deciding, RowPlaces, StartPlaces, PollPlaces, MintPlaces
  <2> QED BY <1>2, <2>1, <2>2 DEF EndResume
<1>3. CASE NextRow(p)
  <2>1. PICK r \in Row : /\ copy[p][r] /= EmptyRow
                         /\ cur' = [cur EXCEPT ![p] = r]
                         /\ Goto(p, PlaceFor(copy[p][r]))
    BY <1>3 DEF NextRow
  <2>2. cur'[p] = r /\ pc'[p] \in PollPlaces \union MintPlaces /\ row[r].hash
    BY <1>p, <2>1 DEF Goto, HashFacts, TypeOK, LocalsOK
  <2>3. pc[p] \notin StartPlaces \union {"answered"} /\ UNCHANGED <<row, base, burn, copy>>
    BY <1>3 DEF NextRow, StartPlaces, table, chain
  <2> QED BY <2>2, <2>3, QuietCalm DEF Calm, CalmProc
<1>4. CASE \/ PollForwarded(p) \/ PollComplete(p) \/ PollTimeout(p)
           \/ Reread(p)
  <2>1. UNCHANGED <<row, base, burn>> /\ pc[p] \in PollPlaces
    BY <1>4 DEF PollForwarded, PollComplete, PollTimeout, Reread, table, chain, PollPlaces
  <2>2. \/ \E place \in PollPlaces \union MintPlaces :
             Stay(p, place) \/ \E new : Hold(p, new, place)
        \/ Return(p)
    BY <1>4 DEF PollForwarded, PollComplete, PollTimeout, Reread, PollPlaces, MintPlaces
  <2> QED BY <2>1, <2>2, QuietCalm, ResumeCalm, AwayCalm DEF Calm
<1>5. CASE Unstick(p)
  <2> DEFINE new == [row[cur[p]] EXCEPT !.status = "awaiting_attestation"]
  <2>0. pc[p] \in PollPlaces /\ UNCHANGED chain
    BY <1>5 DEF Unstick, PollPlaces
  <2>1. new.hash = row[cur[p]].hash /\ new.amount = row[cur[p]].amount
    BY <1>s, <2>0 DEF RowRecord
  <2>2. \/ Transition(cur[p], {"stuck"}, new) /\ Hold(p, new, PlaceFor(new))
        \/ TransitionFails(cur[p], {"stuck"}, new) /\ Return(p)
    BY <1>5 DEF Unstick
  <2> HIDE DEF new
  <2>3. CalmWorld(p)
    BY <1>s, <2>0, <2>1, <2>2, UpdateCalm
  <2>4. CalmProc(p)
    BY <1>p, <2>0, <2>2, ResumeCalm, AwayCalm
  <2> QED BY <2>3, <2>4 DEF Calm
<1>6. CASE MarkStuck(p)
  <2> DEFINE new == [row[cur[p]] EXCEPT !.status = "stuck"]
  <2>0. pc[p] \in PollPlaces /\ UNCHANGED chain /\ Return(p)
    BY <1>6 DEF MarkStuck, PollPlaces
  <2>1. new.hash = row[cur[p]].hash /\ new.amount = row[cur[p]].amount
    BY <1>s, <2>0 DEF RowRecord
  <2>2. \/ Transition(cur[p], {"awaiting_attestation"}, new)
        \/ TransitionFails(cur[p], {"awaiting_attestation"}, new)
    BY <1>6 DEF MarkStuck
  <2> HIDE DEF new
  <2> QED BY <1>s, <2>0, <2>1, <2>2, UpdateCalm, AwayCalm DEF Calm
<1>7. CASE AcceptForward(p)
  <2> DEFINE new == [row[cur[p]] EXCEPT !.status = "minted", !.via = "forwarding",
                                              !.message = @ \/ cur[p] \in attested]
  <2>0. pc[p] \in PollPlaces /\ UNCHANGED chain /\ Return(p)
    BY <1>7 DEF AcceptForward, PollPlaces
  <2>1. new.hash = row[cur[p]].hash /\ new.amount = row[cur[p]].amount
    BY <1>s, <2>0 DEF RowRecord
  <2>2. \/ Transition(cur[p], {"awaiting_attestation"}, new)
        \/ TransitionFails(cur[p], {"awaiting_attestation"}, new)
    BY <1>7 DEF AcceptForward
  <2> HIDE DEF new
  <2> QED BY <1>s, <2>0, <2>1, <2>2, UpdateCalm, AwayCalm DEF Calm
<1>8. CASE ToMinting(p)
  <2> DEFINE new == [row[cur[p]] EXCEPT !.status = "minting", !.message = TRUE]
  <2>0. pc[p] \in PollPlaces /\ UNCHANGED chain
    BY <1>8 DEF ToMinting, PollPlaces
  <2>1. new.hash = row[cur[p]].hash /\ new.amount = row[cur[p]].amount
    BY <1>s, <2>0 DEF RowRecord
  <2>2. \/ /\ Transition(cur[p], {"awaiting_attestation", "stuck"}, new)
           /\ Hold(p, new, "send_mint")
        \/ /\ TransitionFails(cur[p], {"awaiting_attestation", "stuck"}, new)
           /\ Stay(p, "reread")
    BY <1>8 DEF ToMinting
  <2>3. "send_mint" \in MintPlaces /\ "reread" \in PollPlaces
    BY DEF MintPlaces, PollPlaces
  <2> HIDE DEF new
  <2>4. CalmWorld(p)
    BY <1>s, <2>0, <2>1, <2>2, UpdateCalm
  <2>5. CalmProc(p)
    BY <2>0, <2>2, <2>3, ResumeCalm
  <2> QED BY <2>4, <2>5 DEF Calm
<1> QED BY <1>1, <1>2, <1>3, <1>4, <1>5, <1>6, <1>7, <1>8 DEF ResumeStep

\* completeDirectMint.
LEMMA MintingCalm ==
  ASSUME TypeOK, Facts, NEW p \in Proc, HashFacts, MintStep(p)
  PROVE  Calm(p)
<1>s. pc[p] \in MintPlaces /\ cur[p] \in Row /\ row[cur[p]] \in RowRecord
  <2>1. pc[p] \in MintPlaces
    BY DEF MintStep, SendMint, MintNotSent, MintConfirmed, MintReverted, MintTimesOut, RecordMint,
           TreatAsMinted, FailMint, RetryLater, MintPlaces
  <2> QED BY <2>1, PlacesKnown DEF TypeOK, TableOK, LocalsOK
<1>1. CASE \/ SendMint(p) \/ MintNotSent(p) \/ MintConfirmed(p)
           \/ MintReverted(p) \/ MintTimesOut(p)
  <2>1. UNCHANGED <<row, base, burn>>
    BY <1>1 DEF SendMint, MintNotSent, MintConfirmed, MintReverted, MintTimesOut, table, chain
  <2>2. \A retryable : PlaceAfterError(p, retryable) \in MintPlaces
    BY DEF PlaceAfterError, MintPlaces
  <2>3. \E place \in MintPlaces : Stay(p, place)
    BY <1>1, <2>2 DEF SendMint, MintNotSent, MintConfirmed, MintReverted, MintTimesOut, MintPlaces
  <2> QED BY <1>s, <2>1, <2>3, QuietCalm, ResumeCalm DEF Calm
<1>2. ASSUME NEW from, NEW new, Transition(cur[p], from, new) \/ TransitionFails(cur[p], from, new),
             new.hash = row[cur[p]].hash, new.amount = row[cur[p]].amount,
             UNCHANGED chain, Return(p) \/ Stay(p, "fail_mint")
      PROVE  Calm(p)
  <2>1. CalmWorld(p)
    BY <1>s, <1>2, UpdateCalm
  <2>2. "fail_mint" \in MintPlaces
    BY DEF MintPlaces
  <2>3. CalmProc(p)
    BY <1>s, <1>2, <2>2, ResumeCalm, AwayCalm
  <2> QED BY <2>1, <2>3 DEF Calm
<1>3. CASE RecordMint(p)
  <2> DEFINE new == [row[cur[p]] EXCEPT !.status = "minted", !.via = "direct",
                                              !.attempts = Attempt(p)]
  <2>1. new.hash = row[cur[p]].hash /\ new.amount = row[cur[p]].amount
    BY <1>s DEF RowRecord
  <2>2. /\ \/ Transition(cur[p], {"minting"}, new)
           \/ TransitionFails(cur[p], {"minting"}, new)
        /\ UNCHANGED chain /\ Return(p)
    BY <1>3 DEF RecordMint
  <2> HIDE DEF new
  <2> QED BY <1>2, <2>1, <2>2
<1>4. CASE TreatAsMinted(p)
  <2> DEFINE new == [row[cur[p]] EXCEPT !.status = "minted", !.via = "nonce_used",
                                              !.attempts = Attempt(p)]
  <2>1. new.hash = row[cur[p]].hash /\ new.amount = row[cur[p]].amount
    BY <1>s DEF RowRecord
  <2>2. /\ \/ Transition(cur[p], {"minting"}, new)
           \/ TransitionFails(cur[p], {"minting"}, new)
        /\ UNCHANGED chain /\ (Return(p) \/ Stay(p, "fail_mint"))
    BY <1>4 DEF TreatAsMinted
  <2> HIDE DEF new
  <2> QED BY <1>2, <2>1, <2>2
<1>5. CASE FailMint(p)
  <2> DEFINE new == [row[cur[p]] EXCEPT !.status = "failed"]
  <2>1. new.hash = row[cur[p]].hash /\ new.amount = row[cur[p]].amount
    BY <1>s DEF RowRecord
  <2>2. /\ \/ Transition(cur[p], {"minting"}, new)
           \/ TransitionFails(cur[p], {"minting"}, new)
        /\ UNCHANGED chain /\ Return(p)
    BY <1>5 DEF FailMint
  <2> HIDE DEF new
  <2> QED BY <1>2, <2>1, <2>2
<1>6. CASE RetryLater(p)
  <2> DEFINE new == [row[cur[p]] EXCEPT !.status = "stuck", !.attempts = Attempt(p)]
  <2>1. new.hash = row[cur[p]].hash /\ new.amount = row[cur[p]].amount
    BY <1>s DEF RowRecord
  <2>2. /\ \/ Transition(cur[p], {"minting"}, new)
           \/ TransitionFails(cur[p], {"minting"}, new)
        /\ UNCHANGED chain /\ Return(p)
    BY <1>6 DEF RetryLater
  <2> HIDE DEF new
  <2> QED BY <1>2, <2>1, <2>2
<1> QED BY <1>1, <1>3, <1>4, <1>5, <1>6 DEF MintStep

\* Each process moves itself only.
LEMMA OthersStill ==
  ASSUME TypeOK, NEW p \in Proc, ProcessStep(p)
  PROVE  Others(p)
<1>1. ASSUME \/ Stop(p) \/ Return(p) \/ \E place : Stay(p, place)
             \/ \E new, place : Hold(p, new, place)
      PROVE  Others(p)
  BY <1>1 DEF Others, Stop, Return, Stay, Hold, Goto, TypeOK, LocalsOK
<1>2. CASE StartStep(p)
  <2>1. CASE ReadBalances(p) \/ CountInFlight(p) \/ ReadLastBurn(p) \/ Create(p)
    BY <2>1 DEF Others, ReadBalances, CountInFlight, ReadLastBurn, Create, Goto, TypeOK, LocalsOK
  <2>2. CASE \/ ReadFails(p) \/ Skip(p) \/ CreateFails(p)
             \/ Begin(p) \/ ReadAllowance(p) \/ Approve(p) \/ ToBurning(p)
             \/ SendBurn(p) \/ BurnNotSent(p) \/ BurnConfirmed(p) \/ BurnThrows(p)
             \/ RecordBurn(p) \/ FailStart(p)
    <3>1. Stop(p) \/ \E place : Stay(p, place)
      BY <2>2 DEF ReadFails, Skip, CreateFails, Begin, ReadAllowance, Approve, ToBurning, SendBurn,
                  BurnNotSent, BurnConfirmed, BurnThrows, RecordBurn, FailStart
    <3> QED BY <1>1, <3>1
  <2> QED BY <1>2, <2>1, <2>2 DEF StartStep
<1>3. CASE ResumeStep(p)
  <2>1. CASE List(p) \/ NextRow(p)
    BY <2>1 DEF Others, List, NextRow, Goto, TypeOK, LocalsOK
  <2>2. CASE EndResume(p)
    <3>1. CASE Stop(p)
      BY <1>1, <3>1
    <3>2. CASE Goto(p, "balances") /\ UNCHANGED <<cur, copy, seen>>
      BY <3>2 DEF Others, Goto, TypeOK, LocalsOK
    <3> QED BY <2>2, <3>1, <3>2 DEF EndResume
  <2>3. CASE \/ Unstick(p) \/ PollForwarded(p) \/ PollComplete(p) \/ PollTimeout(p)
             \/ MarkStuck(p) \/ AcceptForward(p) \/ ToMinting(p) \/ Reread(p)
    <3>1. \/ Return(p) \/ \E place : Stay(p, place)
          \/ \E new, place : Hold(p, new, place)
      BY <2>3 DEF Unstick, PollForwarded, PollComplete, PollTimeout, MarkStuck, AcceptForward,
                  ToMinting, Reread
    <3> QED BY <1>1, <3>1
  <2> QED BY <1>3, <2>1, <2>2, <2>3 DEF ResumeStep
<1>4. CASE MintStep(p)
  <2>1. Return(p) \/ \E place : Stay(p, place)
    BY <1>4 DEF MintStep, SendMint, MintNotSent, MintConfirmed, MintReverted, MintTimesOut,
                RecordMint, TreatAsMinted, FailMint, RetryLater
  <2> QED BY <1>1, <2>1
<1> QED BY <1>2, <1>3, <1>4 DEF ProcessStep

\* The chains, but for a burn that is mined, and the cooldown.
LEMMA WorldCalm ==
  ASSUME TypeOK, HashFacts,
         \/ UNCHANGED vars
         \/ \E r \in Row : \/ Attest(r) \/ Forward(r) \/ MineLoose(r) \/ CooldownElapses(r)
                           \/ \E p \in Proc : MineMint(r, p)
                           \/ MineBurn(r) /\ burn'[r] /= "done"
  PROVE  Calm(Worker) /\ Others(Worker)
<1>1. ASSUME NEW r \in Row, MineBurn(r), burn'[r] /= "done"
      PROVE  Calm(Worker) /\ Others(Worker)
  <2>1. /\ burn[r] = "sent" /\ burn' = [burn EXCEPT ![r] = "reverted"] /\ base' = base
        /\ UNCHANGED <<row, pc, cur, seen, copy>>
    BY <1>1 DEF MineBurn, TypeOK, ChainOK, table, locals
  <2>2. CalmWorld(Worker)
    BY <2>1 DEF CalmWorld, TypeOK, ChainOK
  <2> QED BY <2>1, <2>2 DEF Calm, CalmProc, Others
<1>2. CASE \/ UNCHANGED vars
           \/ \E r \in Row : \/ Attest(r) \/ Forward(r) \/ MineLoose(r) \/ CooldownElapses(r)
                             \/ \E p \in Proc : MineMint(r, p)
  <2>1. UNCHANGED <<row, base, burn, pc, cur, seen, copy>>
    BY <1>2 DEF Attest, Forward, MineLoose, CooldownElapses, MineMint, vars, table, chain, locals
  <2> QED BY <2>1, TwoProcs, QuietCalm DEF Calm, CalmProc, Others
<1> QED BY <1>1, <1>2

\* A restart ends every call: no request comes back, and no burn is taken up.
LEMMA CrashKeeps ==
  ASSUME TypeOK, HashFacts, Cushion, Crash
  PROVE  HashFacts' /\ Cushion'
<1>1. /\ UNCHANGED <<row, base, burn>>
      /\ \A p \in Proc : /\ cur'[p] = NoRow
                         /\ pc'[p] = IF pc[p] = "idle" THEN "idle" ELSE Rest(p)
                         /\ \A r \in Row : copy'[p][r] = EmptyRow
  BY DEF Crash, table
<1>2. \A p \in Proc : pc'[p] \in {"idle", "answered"}
  BY <1>1 DEF Rest
<1>3. HashFacts'
  BY <1>1, <1>2 DEF HashFacts, RowPlaces, StartPlaces, PollPlaces, MintPlaces
<1>4. Spenders \subseteq Spenders'
  <2>1. "idle" \notin StartPlaces
    BY DEF StartPlaces
  <2> QED BY <1>1, <2>1, TwoProcs DEF Spenders, Rest
<1>5. Orphans \subseteq Orphans'
  BY <1>1, RebalanceConfig DEF Orphans, OrphanBurn
<1>6. Excused' >= Excused /\ Excused \in Nat /\ Excused' \in Nat
  BY <1>4, <1>5, ExcusedGrows
<1>7. base \in Nat /\ Floor \in Nat
  BY PolicyConfig, RebalanceConfig DEF TypeOK, ChainOK, Floor, Smaller
<1>8. base' + Excused' >= Floor
  <2>1. base + Excused >= Floor
    BY DEF Cushion
  <2> QED BY <1>1, <1>6, <1>7, <2>1, CushionCarried
<1>9. pc'[Worker] \notin StartPlaces \union Deciding
  BY <1>2, TwoProcs DEF StartPlaces, Deciding
<1> QED BY <1>1, <1>3, <1>8, <1>9 DEF Cushion

\* The worker reads the balance as it is.
LEMMA ReadingKeeps ==
  ASSUME TypeOK, HashFacts, Cushion, ReadBalances(Worker)
  PROVE  HashFacts' /\ Cushion'
<1>1. /\ pc[Worker] = "balances" /\ pc'[Worker] = "count" /\ seen'[Worker].base = base
      /\ UNCHANGED <<row, base, burn, cur, copy>>
      /\ \A p \in Proc \ {Worker} : pc'[p] = pc[p]
  BY TwoProcs DEF ReadBalances, Goto, TypeOK, LocalsOK, Readings, table, chain
<1>2. HashFacts'
  BY <1>1 DEF HashFacts, RowPlaces, StartPlaces, PollPlaces, MintPlaces
<1>3. Spenders \subseteq Spenders' /\ Orphans \subseteq Orphans'
  BY <1>1, TwoProcs DEF Spenders, Orphans, OrphanBurn
<1>4. Excused' >= Excused /\ Excused \in Nat /\ Excused' \in Nat
  BY <1>3, ExcusedGrows
<1>5. base \in Nat /\ Floor \in Nat
  BY PolicyConfig, RebalanceConfig DEF TypeOK, ChainOK, Floor, Smaller
<1>6. base' + Excused' >= Floor /\ seen'[Worker].base <= base' + Excused'
  <2>1. base + Excused >= Floor
    BY DEF Cushion
  <2>2. base' \in Nat /\ base' = base /\ seen'[Worker].base = base
    BY <1>1, <1>5
  <2>3. base <= base + Excused
    BY <1>4, <1>5
  <2> QED BY <1>4, <1>5, <2>1, <2>2, <2>3, CushionCarried
<1>7. "count" \notin StartPlaces
  BY DEF StartPlaces
<1> QED BY <1>1, <1>2, <1>6, <1>7 DEF Cushion

\* The policy picks an amount that leaves the buffer and the fee (policy.ts).
LEMMA CreatingKeeps ==
  ASSUME TypeOK, Facts, HashFacts, Cushion, NEW p \in Proc, Create(p)
  PROVE  HashFacts' /\ Cushion'
<1>1. PICK r \in Row : Insert(p, r) /\ cur' = [cur EXCEPT ![p] = r]
  BY DEF Create
<1>2. /\ row[r].status = "none" /\ burn[r] = "none"
      /\ ~row[r].hash /\ row'[r].hash = row[r].hash
      /\ \A s \in Row \ {r} : row'[s] = row[s]
      /\ row'[r].amount \in Nat /\ row'[r].amount <= MaxChunk
      /\ seen[p].base - row'[r].amount >= BaseSafetyBuffer
  BY <1>1, InsertedAmount
<1>3. /\ pc[p] = "decide" /\ pc'[p] = "begin" /\ cur'[p] = r
      /\ UNCHANGED <<base, burn, copy, seen>>
      /\ \A q \in Proc \ {p} : pc'[q] = pc[q] /\ cur'[q] = cur[q]
  BY <1>1 DEF Create, Goto, TypeOK, LocalsOK, chain
<1>4. \A s \in Row : row'[s].hash = row[s].hash
  BY <1>2
<1>5. HashFacts'
  <2>1. \A s \in Row : row'[s].hash => burn'[s] = "done"
    BY <1>3, <1>4 DEF HashFacts
  <2>2. ASSUME NEW q \in Proc
        PROVE  /\ \A s \in Row : copy'[q][s] /= EmptyRow => row'[s].hash
               /\ pc'[q] \in PollPlaces \union MintPlaces => row'[cur'[q]].hash
               /\ pc'[q] \notin RowPlaces => cur'[q] = NoRow
    <3>1. pc[q] \in RowPlaces => cur[q] \in Row
      BY DEF TypeOK, LocalsOK
    <3>2. CASE q = p
      BY <1>3, <1>4, <3>2 DEF HashFacts, RowPlaces, StartPlaces, PollPlaces, MintPlaces
    <3>3. CASE q /= p
      BY <1>3, <1>4, <3>1, <3>3, PlacesKnown DEF HashFacts
    <3> QED BY <3>2, <3>3
  <2> QED BY <2>1, <2>2 DEF HashFacts
<1>6. Spenders \subseteq Spenders'
  <2>1. p \notin Spenders
    BY <1>3 DEF Spenders, StartPlaces
  <2> QED BY <1>3, <2>1, TwoProcs DEF Spenders
<1>7. Orphans \subseteq Orphans'
  BY <1>2, <1>3, <1>4 DEF Orphans, OrphanBurn
<1>8. Excused' >= Excused /\ Excused \in Nat /\ Excused' \in Nat
  BY <1>6, <1>7, ExcusedGrows
<1>9. base \in Nat /\ Floor \in Nat /\ Floor <= BaseSafetyBuffer /\ BaseSafetyBuffer \in Nat
  BY PolicyConfig, RebalanceConfig DEF TypeOK, ChainOK, Floor, Smaller
<1>10. /\ \A s \in Row : row'[s].amount <= MaxChunk
       /\ base' + Excused' >= Floor
  <2>1. base + Excused >= Floor /\ \A s \in Row : row[s].amount <= MaxChunk
    BY DEF Cushion
  <2>2. \A s \in Row : row'[s].amount <= MaxChunk
    BY <1>2, <2>1
  <2>3. base' + Excused' >= Floor
    BY <1>3, <1>8, <1>9, <2>1, CushionCarried
  <2> QED BY <2>2, <2>3
<1>11. CASE p = Worker
  <2>1. pc'[Worker] \notin Deciding
    BY <1>3, <1>11 DEF Deciding
  <2>2. seen[Worker].base <= base + Excused /\ seen[Worker].base \in Nat
    BY <1>3, <1>11, TwoProcs DEF Cushion, Deciding, TypeOK, LocalsOK, Readings
  <2>3. base' + Excused' - row'[cur'[Worker]].amount >= Floor
    BY <1>2, <1>3, <1>8, <1>9, <1>11, <2>2
  <2> QED BY <1>5, <1>10, <2>1, <2>3 DEF Cushion
<1>12. CASE p /= Worker
  <2>1. pc'[Worker] = pc[Worker] /\ cur'[Worker] = cur[Worker]
    BY <1>3, <1>12, TwoProcs
  <2>2. seen[Worker].base \in Nat
    BY TwoProcs DEF TypeOK, LocalsOK, Readings
  <2>3. pc'[Worker] \in Deciding => seen'[Worker].base <= base' + Excused'
    BY <1>3, <1>8, <1>9, <2>1, <2>2 DEF Cushion
  <2>4. ASSUME pc[Worker] \in StartPlaces
        PROVE  /\ row'[cur[Worker]] = row[cur[Worker]] /\ row[cur[Worker]].amount \in Nat
    <3>1. cur[Worker] \in Row /\ row[cur[Worker]].status /= "none"
      BY <2>4, TwoProcs, PlacesKnown
      DEF TypeOK, LocalsOK, Facts, ProcFacts, StartFacts, StartPlaces
    <3> QED BY <1>2, <3>1 DEF TypeOK, TableOK, RowRecord
  <2>5. pc'[Worker] \in StartPlaces /\ burn'[cur'[Worker]] \in {"none", "sent"} =>
          base' + Excused' - row'[cur'[Worker]].amount >= Floor
    <3> SUFFICES ASSUME pc'[Worker] \in StartPlaces, burn'[cur'[Worker]] \in {"none", "sent"}
                 PROVE  base' + Excused' - row'[cur'[Worker]].amount >= Floor
      OBVIOUS
    <3>1. base + Excused - row[cur[Worker]].amount >= Floor
      BY <1>3, <2>1 DEF Cushion
    <3> QED BY <1>3, <1>8, <1>9, <2>1, <2>4, <3>1
  <2> QED BY <1>5, <1>10, <2>3, <2>5 DEF Cushion
<1> QED BY <1>11, <1>12

\* A burn that is mined is the one the worker is about, the one a request is
\* about, or an orphan.
LEMMA BurningKeeps ==
  ASSUME TypeOK, HashFacts, Cushion, NEW r \in Row, MineBurn(r), burn'[r] = "done"
  PROVE  HashFacts' /\ Cushion'
<1>1. /\ burn[r] = "sent" /\ burn' = [burn EXCEPT ![r] = "done"]
      /\ base' = base - row[r].amount
      /\ UNCHANGED <<row, pc, cur, seen, copy>>
  BY DEF MineBurn, TypeOK, ChainOK, table, locals
<1>2. \A s \in Row \ {r} : burn'[s] = burn[s]
  BY <1>1 DEF TypeOK, ChainOK
<1>3. HashFacts'
  BY <1>1, <1>2 DEF HashFacts
<1>4. ~row[r].hash
  BY <1>1 DEF HashFacts
<1>5. \A p \in Proc : cur[p] = r => pc[p] \in StartPlaces
  BY <1>4, RebalanceConfig DEF HashFacts, RowPlaces
<1>6. Spenders \subseteq Spenders' /\ Orphans \subseteq Orphans'
  BY <1>1, <1>2 DEF Spenders, Orphans, OrphanBurn
<1>7. Excused' >= Excused /\ Excused \in Nat /\ Excused' \in Nat
  BY <1>6, ExcusedGrows
<1>8. /\ base \in Nat /\ Floor \in Nat /\ MaxChunk \in Nat
      /\ row[r].amount \in Nat /\ row[r].amount <= MaxChunk
  BY PolicyConfig, RebalanceConfig
  DEF TypeOK, ChainOK, TableOK, RowRecord, Floor, Smaller, Cushion
<1>9. CASE cur[Worker] = r
  <2>1. pc[Worker] \in StartPlaces
    BY <1>5, <1>9, TwoProcs
  <2>2. base' + Excused' >= Floor
    BY <1>1, <1>7, <1>8, <1>9, <2>1 DEF Cushion
  <2>3. pc'[Worker] \notin Deciding
    BY <1>1, <2>1, PlacesApart, PlacesKnown
  <2>4. burn'[cur'[Worker]] = "done"
    BY <1>1, <1>9 DEF TypeOK, ChainOK
  <2> QED BY <1>1, <1>3, <2>2, <2>3, <2>4 DEF Cushion
<1>10. CASE cur[Worker] /= r
  <2>1. Spenders' /= Spenders \/ Orphans' /= Orphans
    <3>1. CASE \E p \in Route : cur[p] = r
      <4>1. PICK p \in Route : cur[p] = r
        BY <3>1
      <4>2. pc[p] \in StartPlaces /\ pc[p] /= "answered"
        BY <1>5, <4>1, TwoProcs, PlacesApart, PlacesKnown
      <4>3. p \notin Spenders
        BY <1>1, <4>1, <4>2 DEF Spenders
      <4>4. p \in Spenders'
        BY <1>1, <4>1, <4>2 DEF Spenders, TypeOK, ChainOK
      <4> QED BY <4>3, <4>4
    <3>2. CASE \A p \in Route : cur[p] /= r
      <4>1. \A p \in Proc : cur[p] /= r
        BY <1>10, <3>2 DEF Proc
      <4>2. r \in Orphans'
        BY <1>1, <1>4, <4>1 DEF Orphans, OrphanBurn, TypeOK, ChainOK
      <4>3. r \notin Orphans
        BY <1>1 DEF Orphans, OrphanBurn
      <4> QED BY <4>2, <4>3
    <3> QED BY <3>1, <3>2
  <2>2. Excused' >= Excused + MaxChunk
    BY <1>6, <2>1, ExcusedGrows
  <2>3. base' + Excused' >= base + Excused /\ base' \in Nat
    <3>1. base' \in Nat
      BY DEF MineBurn, TypeOK, ChainOK, TableOK, RowRecord
    <3> QED BY <1>1, <1>7, <1>8, <2>2, <3>1
  <2>4. base' + Excused' >= Floor
    <3>1. base + Excused >= Floor
      BY DEF Cushion
    <3> QED BY <1>7, <1>8, <2>3, <3>1, CushionCarried
  <2>5. pc'[Worker] \in Deciding => seen'[Worker].base <= base' + Excused'
    <3>1. seen[Worker].base \in Nat
      BY TwoProcs DEF TypeOK, LocalsOK, Readings
    <3> QED BY <1>1, <1>7, <1>8, <2>3, <3>1 DEF Cushion
  <2>6. pc'[Worker] \in StartPlaces /\ burn'[cur'[Worker]] \in {"none", "sent"} =>
          base' + Excused' - row'[cur'[Worker]].amount >= Floor
    <3> SUFFICES ASSUME pc[Worker] \in StartPlaces, burn'[cur[Worker]] \in {"none", "sent"}
                 PROVE  base' + Excused' - row[cur[Worker]].amount >= Floor
      BY <1>1
    <3>1. cur[Worker] \in Row
      BY TwoProcs, PlacesKnown DEF TypeOK, LocalsOK
    <3>2. base + Excused - row[cur[Worker]].amount >= Floor
      BY <1>2, <1>10, <3>1 DEF Cushion
    <3>3. row[cur[Worker]].amount \in Nat
      BY <3>1 DEF TypeOK, TableOK, RowRecord
    <3> QED BY <1>7, <1>8, <2>3, <3>2, <3>3, CushionCarried
  <2> QED BY <1>1, <1>3, <2>4, <2>5, <2>6 DEF Cushion
<1> QED BY <1>9, <1>10

Cushioned == HashFacts /\ Cushion

LEMMA NextCushioned ==
  ASSUME TypeOK, Facts, Cushioned, [Next]_vars
  PROVE  Cushioned'
<1>h. HashFacts /\ Cushion
  BY DEF Cushioned
<1>c. ASSUME NEW p \in Proc, Calm(p), Others(p)
      PROVE  Cushioned'
  BY <1>h, <1>c, CalmKeeps DEF Cushioned
<1>1. CASE StartCycle
  <2>1. Others(Worker)
    BY <1>1 DEF Others, StartCycle, TypeOK, LocalsOK
  <2> QED BY <1>1, <1>c, <1>h, <2>1, TwoProcs, DecidingCalm
<1>2. CASE \E p \in Route : StartForce(p) \/ StartResume(p)
  <2>1. PICK p \in Route : StartForce(p) \/ StartResume(p)
    BY <1>2
  <2>2. p \in Proc
    BY TwoProcs
  <2>3. Others(p)
    BY <2>1, <2>2 DEF Others, StartForce, StartResume, Goto, TypeOK, LocalsOK
  <2> QED BY <1>c, <1>h, <2>1, <2>2, <2>3, DecidingCalm
<1>3. ASSUME NEW p \in Proc, ProcessStep(p)
      PROVE  Cushioned'
  <2>1. CASE p = Worker /\ ReadBalances(p)
    BY <1>h, <2>1, ReadingKeeps DEF Cushioned
  <2>2. CASE Create(p)
    BY <1>h, <2>2, CreatingKeeps DEF Cushioned
  <2>3. CASE \/ (p /= Worker /\ ReadBalances(p)) \/ CountInFlight(p) \/ ReadLastBurn(p)
             \/ ReadFails(p) \/ Skip(p) \/ CreateFails(p)
    BY <1>3, <1>c, <1>h, <2>3, OthersStill, DecidingCalm
  <2>4. CASE \/ Begin(p) \/ ReadAllowance(p) \/ Approve(p) \/ ToBurning(p)
             \/ SendBurn(p) \/ BurnNotSent(p) \/ BurnConfirmed(p) \/ BurnThrows(p)
             \/ RecordBurn(p) \/ FailStart(p)
    BY <1>3, <1>c, <1>h, <2>4, OthersStill, StartingCalm
  <2>5. CASE ResumeStep(p) \/ MintStep(p)
    BY <1>3, <1>c, <1>h, <2>5, OthersStill, ResumingCalm, MintingCalm
  <2> QED BY <1>3, <2>1, <2>2, <2>3, <2>4, <2>5 DEF ProcessStep, StartStep
<1>4. ASSUME NEW r \in Row, ChainStep(r) \/ CooldownElapses(r)
      PROVE  Cushioned'
  <2>1. CASE MineBurn(r) /\ burn'[r] = "done"
    BY <1>h, <2>1, BurningKeeps DEF Cushioned
  <2>2. CASE \/ Attest(r) \/ Forward(r) \/ MineLoose(r) \/ CooldownElapses(r)
             \/ (\E p \in Proc : MineMint(r, p)) \/ (MineBurn(r) /\ burn'[r] /= "done")
    BY <1>c, <1>h, <2>2, TwoProcs, WorldCalm
  <2> QED BY <1>4, <2>1, <2>2 DEF ChainStep
<1>5. CASE Crash
  BY <1>5, <1>h, CrashKeeps DEF Cushioned
<1>6. CASE UNCHANGED vars
  BY <1>6, <1>c, <1>h, TwoProcs, WorldCalm
<1> QED BY <1>1, <1>2, <1>3, <1>4, <1>5, <1>6 DEF Next

LEMMA InitCushioned ==
  ASSUME Init
  PROVE  Cushioned
<1>1. /\ base = InitialBase
      /\ \A p \in Proc : /\ pc[p] = "idle" /\ cur[p] = NoRow
                         /\ \A r \in Row : copy[p][r] = EmptyRow
      /\ \A r \in Row : ~row[r].hash /\ row[r].amount = 0
  BY DEF Init, EmptyRow
<1>2. HashFacts
  BY <1>1 DEF HashFacts, RowPlaces, StartPlaces, PollPlaces, MintPlaces
<1>3. pc[Worker] \notin StartPlaces \union Deciding
  BY <1>1, TwoProcs DEF StartPlaces, Deciding
<1>4. Excused \in Nat
  <2>1. Cardinality(Spenders) \in Nat /\ Cardinality(Orphans) \in Nat
    BY RebalanceConfig, FS_Subset, FS_CardinalityType DEF Spenders, Orphans
  <2>2. \A n \in Nat : n * MaxChunk \in Nat
    BY PolicyConfig
  <2> DEFINE s == Cardinality(Spenders)
             o == Cardinality(Orphans)
  <2>3. s \in Nat /\ o \in Nat
    BY <2>1
  <2> HIDE DEF s, o
  <2>4. s + o \in Nat
    BY <2>3
  <2> QED BY <2>2, <2>4 DEF Excused, s, o
<1>5. base + Excused >= Floor
  BY <1>1, <1>4, PolicyConfig, RebalanceConfig DEF Floor, Smaller
<1>6. \A r \in Row : row[r].amount <= MaxChunk
  BY <1>1, PolicyConfig
<1> QED BY <1>2, <1>3, <1>5, <1>6 DEF Cushioned, Cushion

\* Each request makes one call, so no more can spend than there are.
LEMMA CushionBounds ==
  ASSUME TypeOK, Cushioned
  PROVE  BreachIsBounded
<1> DEFINE s == Cardinality(Spenders)
           n == Cardinality(Route)
           o == Cardinality(Orphans)
<1>1. s \in Nat /\ n \in Nat /\ o \in Nat /\ s <= n
  BY RebalanceConfig, FS_Subset, FS_CardinalityType DEF Spenders, Orphans
<1>2. base + (s + o) * MaxChunk >= Floor /\ base \in Nat
  BY DEF Cushioned, Cushion, Excused, TypeOK, ChainOK
<1>3. base + (n + o) * MaxChunk >= Floor
  <2> HIDE DEF s, n, o
  <2>1. Floor \in Nat
    BY PolicyConfig, RebalanceConfig DEF Floor, Smaller
  <2>2. (s + o) * MaxChunk \in Nat /\ (n + o) * MaxChunk \in Nat
        /\ (s + o) * MaxChunk <= (n + o) * MaxChunk
    BY <1>1, PolicyConfig
  <2> QED BY <1>2, <2>1, <2>2
<1> QED BY <1>3 DEF BreachIsBounded, Floor, Orphans

\* However many requests and restarts there are and whatever fails, the treasury
\* sinks below its buffer by no more than the requests may burn on the balance
\* they read, and by the burns that landed after their call had given up on them.
\* The worker itself never acts on a balance that is too high.
THEOREM BufferKept == Spec => []BreachIsBounded
<1>1. Init => Cushioned
  BY InitCushioned
<1>2. TypeOK /\ Facts /\ Cushioned /\ [Next]_vars => Cushioned'
  BY NextCushioned
<1>3. TypeOK /\ Cushioned => BreachIsBounded
  BY CushionBounds
<1> QED BY <1>1, <1>2, <1>3, TypeCorrect, FactsKept, PTL DEF Spec

-----------------------------------------------------------------------------
(* What a transfer costs on Sepolia *)

\* Places where an attempt is on its way, sent or not.
Attempting == MintPlaces \ {"send_mint"}

\* Requests whose one attempt on a row is on its way, and requests that are done
\* with the row for good.
Spending(r) == {p \in Route : pc[p] \in Attempting /\ cur[p] = r}
Through(r)  == {p \in Route : pc[p] \notin {"idle", "list"} /\ copy[p][r] = EmptyRow}

\* What the requests and the restarts may have cost beyond the counter: one that
\* is done may also have set it back, to one attempt at least.
Allowance(r) ==
  Cardinality(Spending(r)) + MintMaxAttempts * Cardinality(Through(r)) + crashes

\* The attempt of the worker that is on its way is not counted yet.
Open(r)    == IF pc[Worker] \in Attempting /\ cur[Worker] = r THEN 1 ELSE 0
Settled(r) == sends[r] - Open(r)

Counted(r) ==
  IF row[r].status \in TerminalStatuses THEN MintMaxAttempts ELSE row[r].attempts

\* A row the worker holds as minting, but that somebody else has moved, leaves
\* room for the attempt it will make in vain; and the number it will write is
\* not too small.
Affordable(r) ==
  /\ Settled(r) <= Counted(r) + Allowance(r)
  /\ copy[Worker][r].status = "minting" =>
       /\ row[r].status /= "minting" => Settled(r) + 1 <= Counted(r) + Allowance(r)
       /\ Settled(r) <= copy[Worker][r].attempts + Allowance(r)

\* What a process holds of the row it polls or mints.
Held(p) ==
  /\ pc[p] \in PollPlaces => copy[p][cur[p]] /= EmptyRow
  /\ pc[p] \in MintPlaces => copy[p][cur[p]].status = "minting"

Ledger ==
  /\ \A p \in Proc : Held(p)
  /\ \A r \in Row : row[r].status = "none" => row[r].attempts = 0
  /\ \A r \in Row : Affordable(r)

LEMMA LedgerSizes ==
  ASSUME NEW r \in Row
  PROVE  /\ Cardinality(Spending(r)) \in Nat /\ Cardinality(Through(r)) \in Nat
         /\ Cardinality(Spending(r)') \in Nat /\ Cardinality(Through(r)') \in Nat
         /\ IsFiniteSet(Spending(r)) /\ IsFiniteSet(Spending(r)')
         /\ IsFiniteSet(Through(r)) /\ IsFiniteSet(Through(r)')
<1>1. /\ Spending(r) \subseteq Route /\ Through(r) \subseteq Route
      /\ Spending(r)' \subseteq Route /\ Through(r)' \subseteq Route
  BY DEF Spending, Through
<1>2. \A S \in SUBSET Route : IsFiniteSet(S) /\ Cardinality(S) \in Nat
  BY RebalanceConfig, FS_Subset, FS_CardinalityType
<1> QED BY <1>1, <1>2

\* The weight of requests that go from one attempt on its way to done.
LEMMA Weight ==
  ASSUME NEW m \in Nat \ {0}, NEW s \in Nat, NEW s1 \in Nat, NEW t \in Nat,
         NEW d \in Nat, NEW d1 \in Nat, s <= s1 + t, d + t <= d1
  PROVE  s + m * d + (m - 1) * t <= s1 + m * d1
<1>1. PICK e \in Nat : d1 = d + t + e
  BY d1 - (d + t) \in Nat
<1>2. m * d1 = m * d + m * t + m * e
  BY <1>1
<1>3. m * e \in Nat /\ m * d \in Nat /\ m * t \in Nat
  OBVIOUS
<1>4. (m - 1) * t = m * t - t
  OBVIOUS
<1> QED BY <1>2, <1>3, <1>4

LEMMA LedgerTypes ==
  ASSUME TypeOK, TypeOK', NEW r \in Row
  PROVE  /\ Allowance(r) \in Nat /\ Allowance(r)' \in Nat
         /\ Counted(r) \in Nat /\ Counted(r)' \in Nat
         /\ Settled(r) \in Int /\ Settled(r)' \in Int
<1>1. \A n \in Nat : MintMaxAttempts * n \in Nat
  BY RebalanceConfig
<1>2. Allowance(r) \in Nat
  BY <1>1, LedgerSizes DEF Allowance, TypeOK
<1>3. Allowance(r)' \in Nat
  BY <1>1, LedgerSizes DEF Allowance, TypeOK
<1>4. Counted(r) \in Nat /\ Counted(r)' \in Nat
  BY RebalanceConfig DEF Counted, TypeOK, TableOK, RowRecord
<1>5. Settled(r) \in Int /\ Settled(r)' \in Int
  BY DEF Settled, Open, TypeOK, ChainOK
<1> QED BY <1>2, <1>3, <1>4, <1>5

\* A request that ends its attempt and is done with the row leaves room for one
\* round of attempts instead of one attempt.
LEMMA AllowanceMoves ==
  ASSUME TypeOK, TypeOK', NEW r \in Row, Through(r) \subseteq Through(r)',
         Spending(r) \ Spending(r)' \subseteq Through(r)' \ Through(r)
  PROVE  /\ Cardinality(Spending(r) \ Spending(r)') \in Nat
         /\ Allowance(r)' >= Allowance(r) + (crashes' - crashes)
              + (MintMaxAttempts - 1) * Cardinality(Spending(r) \ Spending(r)')
<1> DEFINE T == Spending(r) \ Spending(r)'
           s == Cardinality(Spending(r))
           d == Cardinality(Through(r))
           s1 == Cardinality(Spending(r)')
           d1 == Cardinality(Through(r)')
           t == Cardinality(T)
<1>1. s \in Nat /\ d \in Nat /\ s1 \in Nat /\ d1 \in Nat /\ IsFiniteSet(T) /\ t \in Nat
  BY LedgerSizes, FS_Subset, FS_CardinalityType
<1>2. s <= s1 + t
  <2>1. Spending(r) \subseteq Spending(r)' \union T
    OBVIOUS
  <2>2. Spending(r)' \intersect T = {}
    OBVIOUS
  <2>3. /\ IsFiniteSet(Spending(r)' \union T)
        /\ Cardinality(Spending(r)' \union T) = s1 + t - Cardinality({})
    BY <1>1, <2>2, LedgerSizes, FS_Union
  <2>4. s <= Cardinality(Spending(r)' \union T)
    BY <2>1, <2>3, FS_Subset
  <2>5. Cardinality({}) = 0
    BY FS_EmptySet
  <2> HIDE DEF s, s1, t
  <2> QED BY <1>1, <2>3, <2>4, <2>5
<1>3. d + t <= d1
  <2>1. Through(r) \union T \subseteq Through(r)' /\ Through(r) \intersect T = {}
    OBVIOUS
  <2>2. /\ IsFiniteSet(Through(r) \union T)
        /\ Cardinality(Through(r) \union T) = d + t - Cardinality({})
    BY <1>1, <2>1, LedgerSizes, FS_Union
  <2>3. Cardinality(Through(r) \union T) <= d1
    BY <2>1, LedgerSizes, FS_Subset
  <2>4. Cardinality({}) = 0
    BY FS_EmptySet
  <2> HIDE DEF d, d1, t
  <2> QED BY <1>1, <2>2, <2>3, <2>4
<1>4. Allowance(r) = s + MintMaxAttempts * d + crashes
  BY DEF Allowance
<1>5. Allowance(r)' = s1 + MintMaxAttempts * d1 + crashes'
  BY DEF Allowance
<1>6. crashes \in Nat /\ crashes' \in Nat
  BY DEF TypeOK
<1> HIDE DEF s, d, s1, d1, t
<1>7. s + MintMaxAttempts * d + (MintMaxAttempts - 1) * t <= s1 + MintMaxAttempts * d1
  BY <1>1, <1>2, <1>3, RebalanceConfig, Weight
<1>8. /\ (MintMaxAttempts - 1) * t \in Nat /\ MintMaxAttempts * d \in Nat
      /\ MintMaxAttempts * d1 \in Nat
  BY <1>1, RebalanceConfig
<1>9. Allowance(r)' >= Allowance(r) + (crashes' - crashes) + (MintMaxAttempts - 1) * t
  BY <1>1, <1>4, <1>5, <1>6, <1>7, <1>8
<1> QED BY <1>1, <1>9 DEF t

\* No request that has cost something is forgotten.
LEMMA AllowanceGrows ==
  ASSUME TypeOK, TypeOK', NEW r \in Row,
         Through(r) \subseteq Through(r)',
         Spending(r) \ Spending(r)' \subseteq Through(r)' \ Through(r)
  PROVE  Allowance(r)' >= Allowance(r) + (crashes' - crashes)
<1> DEFINE t == Cardinality(Spending(r) \ Spending(r)')
           a == Allowance(r)
           a1 == Allowance(r)'
           k == crashes' - crashes
           w == (MintMaxAttempts - 1) * t
<1>1. t \in Nat /\ a1 >= a + k + w
  BY AllowanceMoves
<1>2. a \in Nat /\ a1 \in Nat /\ k \in Int
  BY LedgerTypes DEF TypeOK
<1>3. w \in Nat
  BY <1>1, RebalanceConfig
<1> HIDE DEF t, a, a1, k, w
<1>4. a1 >= a + k
  BY <1>1, <1>2, <1>3
<1> QED BY <1>4 DEF a, a1, k

\* A request that sends a mint is one more that has an attempt on its way.
LEMMA AllowanceAdds ==
  ASSUME TypeOK, TypeOK', NEW r \in Row, NEW p \in Route, p \notin Spending(r),
         Spending(r)' = Spending(r) \union {p}, Through(r)' = Through(r), crashes' = crashes
  PROVE  Allowance(r)' = Allowance(r) + 1
<1> DEFINE s == Cardinality(Spending(r))
           d == Cardinality(Through(r))
<1>1. s \in Nat /\ d \in Nat /\ crashes \in Nat
  BY LedgerSizes DEF TypeOK
<1>2. Cardinality(Spending(r)') = s + 1
  BY LedgerSizes, FS_AddElement
<1>3. Allowance(r) = s + MintMaxAttempts * d + crashes
  BY DEF Allowance
<1>4. Allowance(r)' = (s + 1) + MintMaxAttempts * d + crashes
  BY <1>2 DEF Allowance
<1>5. MintMaxAttempts * d \in Nat
  BY <1>1, RebalanceConfig
<1> HIDE DEF s, d
<1> QED BY <1>1, <1>3, <1>4, <1>5

-----------------------------------------------------------------------------
(* Steps that neither send nor end an attempt *)

\* A row moves, if at all, before or after its mint, and keeps its counter.
Steady(r) ==
  \/ row'[r] = row[r]
  \/ /\ row[r].status \notin {"minting"} \union TerminalStatuses
     /\ row'[r].status \in TerminalStatuses \/ row'[r].attempts = row[r].attempts
     /\ row'[r].status /= "none"

\* A process gains no row object but the row itself, and forgets none for good
\* that a request has read.
HushedProc(p) ==
  /\ pc[p] \notin Attempting /\ pc'[p] \notin Attempting
  /\ p \in Route /\ pc[p] \notin {"idle", "list"} =>
       /\ pc'[p] \notin {"idle", "list"}
       /\ \A r \in Row : copy[p][r] = EmptyRow => copy'[p][r] = EmptyRow
  /\ \A r \in Row :
       copy'[p][r].status = "minting" => copy'[p][r] = copy[p][r] \/ copy'[p][r] = row'[r]
  /\ Held(p)'

Hushed(p) == (\A r \in Row : Steady(r)) /\ HushedProc(p) /\ Others(p) /\ crashes' = crashes

LEMMA HushedKeeps ==
  ASSUME TypeOK, TypeOK', Facts, Ledger, NEW p \in Proc, Hushed(p), sends' = sends
  PROVE  Ledger'
<1>1. \A q \in Proc : q /= p => pc'[q] = pc[q] /\ cur'[q] = cur[q] /\ copy'[q] = copy[q]
  BY DEF Hushed, Others
<1>2. sends' = sends /\ sends \in [Row -> Nat]
  BY DEF TypeOK, ChainOK
<1>3. \A q \in Proc : Held(q)'
  BY <1>1 DEF Hushed, HushedProc, Ledger, Held
<1>4. \A r \in Row : row'[r].status = "none" => row'[r].attempts = 0
  BY DEF Hushed, Steady, Ledger, TerminalStatuses
<1>5. ASSUME NEW r \in Row
      PROVE  Affordable(r)'
  <2>1. Spending(r)' = Spending(r)
    <3>1. \A q \in Route : pc'[q] \in Attempting /\ cur'[q] = r <=> pc[q] \in Attempting /\ cur[q] = r
      BY <1>1, TwoProcs DEF Hushed, HushedProc
    <3> QED BY <3>1 DEF Spending
  <2>2. Through(r) \subseteq Through(r)'
    BY <1>1, TwoProcs DEF Hushed, HushedProc, Through
  <2>3. crashes' = crashes /\ crashes \in Nat
    BY DEF Hushed, TypeOK
  <2>4. Allowance(r)' >= Allowance(r)
    BY <2>1, <2>2, <2>3, AllowanceGrows, LedgerTypes, <1>2
  <2>5. Settled(r)' = Settled(r)
    <3>1. pc[Worker] \in Attempting /\ cur[Worker] = r <=> pc'[Worker] \in Attempting /\ cur'[Worker] = r
      BY <1>1, TwoProcs DEF Hushed, HushedProc
    <3> QED BY <1>2, <3>1 DEF Settled, Open
  <2>6. Counted(r)' >= Counted(r)
    <3>1. row[r] \in RowRecord /\ row'[r] \in RowRecord
      BY DEF TypeOK, TableOK
    <3>2. row[r].status \notin TerminalStatuses => row[r].attempts < MintMaxAttempts
      BY <3>1, RebalanceConfig
      DEF Facts, RowFacts, Accurate, InFlightStatuses, TerminalStatuses, RowRecord, Ledger
    <3>3. Steady(r)
      BY DEF Hushed
    <3> QED BY <3>1, <3>2, <3>3, RebalanceConfig DEF Counted, Steady, RowRecord
  <2>7. /\ Allowance(r) \in Nat /\ Allowance(r)' \in Nat /\ Counted(r) \in Nat /\ Counted(r)' \in Nat
        /\ Settled(r) \in Int /\ Settled(r)' \in Int
    BY <1>2, LedgerTypes
  <2>8. copy'[Worker][r].status = "minting" =>
          copy'[Worker][r] = copy[Worker][r] \/ copy'[Worker][r] = row'[r]
    BY <1>1, TwoProcs DEF Hushed, HushedProc
  <2>9. row[r].status = "minting" => row'[r].status = "minting"
    BY DEF Hushed, Steady
  <2>10. row'[r].status = "minting" => Counted(r)' = row'[r].attempts
    BY DEF Counted, TerminalStatuses
  <2>11. copy[Worker][r].attempts \in Nat
    BY TwoProcs DEF TypeOK, LocalsOK, RowRecord
  <2> DEFINE a == Allowance(r)  a1 == Allowance(r)'
             c == Counted(r)    c1 == Counted(r)'
             x == Settled(r)    x1 == Settled(r)'
  <2>12. x <= c + a /\ (copy[Worker][r].status = "minting" =>
           /\ row[r].status /= "minting" => x + 1 <= c + a
           /\ x <= copy[Worker][r].attempts + a)
    BY DEF Ledger, Affordable
  <2>13. /\ x1 = x /\ a1 >= a /\ c1 >= c /\ a \in Nat /\ a1 \in Nat /\ c \in Nat /\ c1 \in Nat
         /\ x \in Int /\ (row'[r].status = "minting" => c1 = row'[r].attempts)
    BY <2>4, <2>5, <2>6, <2>7, <2>10
  <2> HIDE DEF a, a1, c, c1, x, x1
  <2>14. x1 <= c1 + a1
    BY <2>12, <2>13
  <2>15. ASSUME copy'[Worker][r].status = "minting"
         PROVE  /\ row'[r].status /= "minting" => x1 + 1 <= c1 + a1
                /\ x1 <= copy'[Worker][r].attempts + a1
    <3>1. CASE copy'[Worker][r] = copy[Worker][r]
      BY <2>9, <2>11, <2>12, <2>13, <2>15, <3>1
    <3>2. CASE copy'[Worker][r] = row'[r]
      BY <2>13, <2>14, <2>15, <3>2
    <3> QED BY <2>8, <2>15, <3>1, <3>2
  <2> QED BY <2>14, <2>15 DEF Affordable, a1, c1, x1
<1> QED BY <1>2, <1>3, <1>4, <1>5 DEF Ledger


\* repo.transition before the mint, or out of the starting statuses.
LEMMA UpdateSteady ==
  ASSUME TypeOK, NEW r \in Row, NEW from,
         from \intersect ({"minting"} \union TerminalStatuses) = {}, NEW new,
         Transition(r, from, new) \/ TransitionFails(r, from, new),
         new.attempts = row[r].attempts, new.status /= "none"
  PROVE  \A s \in Row : Steady(s)
<1>1. row' = row \/ (row[r].status \in from /\ row' = [row EXCEPT ![r] = new])
  BY TransitionEffect
<1>2. CASE row[r].status \in from /\ row' = [row EXCEPT ![r] = new]
  <2>1. row'[r] = new /\ \A s \in Row \ {r} : row'[s] = row[s]
    BY <1>2 DEF TypeOK, TableOK
  <2> QED BY <1>2, <2>1 DEF Steady
<1> QED BY <1>1, <1>2 DEF Steady

LEMMA SameRows ==
  ASSUME UNCHANGED row
  PROVE  \A r \in Row : Steady(r)
BY DEF Steady

LEMMA RowsApart ==
  /\ Attempting \intersect (StartPlaces \union PollPlaces) = {}
  /\ PollPlaces \intersect MintPlaces = {}
  /\ {"idle", "answered", "list", "next", "balances", "count", "last_burn", "decide"}
       \intersect RowPlaces = {}
  /\ Attempting \subseteq MintPlaces /\ "send_mint" \notin Attempting
BY DEF Attempting, MintPlaces, PollPlaces, StartPlaces, RowPlaces

\* A step that keeps the row objects and is about no row to be resumed.
LEMMA AwayHushed ==
  ASSUME NEW p \in Proc, copy'[p] = copy[p], pc[p] \notin Attempting,
         pc'[p] \notin PollPlaces \union MintPlaces,
         p \in Route /\ pc[p] \notin {"idle", "list"} => pc'[p] \notin {"idle", "list"}
  PROVE  HushedProc(p)
BY RowsApart DEF HushedProc, Held

LEMMA StopHushed ==
  ASSUME TypeOK, NEW p \in Proc, Stop(p), pc[p] \notin Attempting
  PROVE  HushedProc(p)
<1>1. pc'[p] = Rest(p) /\ copy' = copy
  BY DEF Stop, Goto, TypeOK, LocalsOK
<1>2. Rest(p) \in {"idle", "answered"} /\ (p \in Route => Rest(p) = "answered")
  BY TwoProcs DEF Rest
<1>3. {"idle", "answered"} \intersect (PollPlaces \union MintPlaces) = {}
  BY DEF PollPlaces, MintPlaces
<1> QED BY <1>1, <1>2, <1>3, AwayHushed

\* The call starts, decides or ends.
LEMMA CallHushed ==
  ASSUME TypeOK, Ledger, NEW p \in Proc,
         \/ (p = Worker /\ StartCycle) \/ StartForce(p) \/ StartResume(p)
         \/ ReadBalances(p) \/ CountInFlight(p) \/ ReadLastBurn(p)
         \/ ReadFails(p) \/ Skip(p) \/ Create(p) \/ CreateFails(p)
  PROVE  (\A r \in Row : Steady(r)) /\ HushedProc(p)
<1>1. CASE \/ (p = Worker /\ StartCycle) \/ StartForce(p) \/ StartResume(p)
           \/ ReadBalances(p) \/ CountInFlight(p) \/ ReadLastBurn(p)
  <2>1. /\ UNCHANGED <<row, copy>>
        /\ pc[p] \in {"idle", "balances", "count", "last_burn"}
        /\ pc'[p] \in {"list", "balances", "count", "last_burn", "decide"}
        /\ pc[p] /= "idle" => pc'[p] /= "list"
    BY <1>1 DEF StartCycle, StartForce, StartResume, ReadBalances, CountInFlight, ReadLastBurn,
                Goto, TypeOK, LocalsOK, table
  <2>2. pc[p] \notin Attempting /\ pc'[p] \notin PollPlaces \union MintPlaces
    BY <2>1 DEF Attempting, PollPlaces, MintPlaces
  <2>3. p \in Route /\ pc[p] \notin {"idle", "list"} => pc'[p] \notin {"idle", "list"}
    BY <2>1
  <2> QED BY <2>1, <2>2, <2>3, AwayHushed, SameRows
<1>2. CASE ReadFails(p) \/ Skip(p)
  <2>1. Stop(p) /\ UNCHANGED row /\ pc[p] \in {"balances", "count", "last_burn", "decide"}
    BY <1>2 DEF ReadFails, Skip, table
  <2>2. pc[p] \notin Attempting
    BY <2>1 DEF Attempting, MintPlaces
  <2> QED BY <2>1, <2>2, StopHushed, SameRows
<1>3. CASE Create(p) \/ CreateFails(p)
  <2>1. PICK r \in Row : Insert(p, r)
    BY <1>3 DEF Create, CreateFails
  <2>2. /\ row[r].status = "none" /\ row'[r].status = "pending" /\ row'[r].attempts = 0
        /\ \A s \in Row \ {r} : row'[s] = row[s]
    BY <2>1 DEF Insert, NewRow, EmptyRow, TypeOK, TableOK
  <2>3. \A s \in Row : Steady(s)
    BY <2>2 DEF Ledger, Steady, TerminalStatuses
  <2>4. CASE Create(p)
    <3>1. copy' = copy /\ pc[p] = "decide" /\ pc'[p] = "begin"
      BY <2>4 DEF Create, Goto, TypeOK, LocalsOK
    <3>2. pc[p] \notin Attempting /\ pc'[p] \notin PollPlaces \union MintPlaces
      BY <3>1 DEF Attempting, PollPlaces, MintPlaces
    <3> QED BY <2>3, <3>1, <3>2, AwayHushed
  <2>5. CASE CreateFails(p)
    <3>1. Stop(p) /\ pc[p] = "decide"
      BY <2>5 DEF CreateFails
    <3>2. pc[p] \notin Attempting
      BY <3>1 DEF Attempting, MintPlaces
    <3> QED BY <2>3, <3>1, <3>2, StopHushed
  <2> QED BY <1>3, <2>4, <2>5
<1> QED BY <1>1, <1>2, <1>3

\* startTransfer.
LEMMA TransferHushed ==
  ASSUME TypeOK, NEW p \in Proc,
         \/ Begin(p) \/ ReadAllowance(p) \/ Approve(p) \/ ToBurning(p)
         \/ SendBurn(p) \/ BurnNotSent(p) \/ BurnConfirmed(p) \/ BurnThrows(p)
         \/ RecordBurn(p) \/ FailStart(p)
  PROVE  (\A r \in Row : Steady(r)) /\ HushedProc(p)
<1>s. pc[p] \in StartPlaces /\ cur[p] \in Row /\ row[cur[p]] \in RowRecord
  <2>1. pc[p] \in StartPlaces
    BY DEF Begin, ReadAllowance, Approve, ToBurning, SendBurn, BurnNotSent, BurnConfirmed,
           BurnThrows, RecordBurn, FailStart, StartPlaces
  <2> QED BY <2>1, PlacesKnown DEF TypeOK, TableOK, LocalsOK
<1>1. HushedProc(p)
  <2>1. Stop(p) \/ \E place \in StartPlaces : Stay(p, place)
    BY DEF Begin, ReadAllowance, Approve, ToBurning, SendBurn, BurnNotSent, BurnConfirmed,
           BurnThrows, RecordBurn, FailStart, StartPlaces
  <2>2. pc[p] \notin Attempting
    BY <1>s, RowsApart
  <2>3. ASSUME NEW place \in StartPlaces, Stay(p, place)
        PROVE  HushedProc(p)
    <3>1. pc'[p] = place /\ copy' = copy
      BY <2>3 DEF Stay, Goto, TypeOK, LocalsOK
    <3>2. place \notin PollPlaces \union MintPlaces \union {"idle", "list"}
      BY PlacesApart, PlacesKnown, RowsApart
    <3> QED BY <2>2, <3>1, <3>2, AwayHushed
  <2> QED BY <2>1, <2>2, <2>3, StopHushed
<1>u. ASSUME NEW from, from \subseteq {"pending", "approving", "burning"}, NEW new,
             Transition(cur[p], from, new) \/ TransitionFails(cur[p], from, new),
             new.attempts = row[cur[p]].attempts, new.status /= "none"
      PROVE  \A r \in Row : Steady(r)
  <2>1. from \intersect ({"minting"} \union TerminalStatuses) = {}
    BY <1>u DEF TerminalStatuses
  <2> QED BY <1>s, <1>u, <2>1, UpdateSteady
<1>2. CASE \/ ReadAllowance(p) \/ Approve(p) \/ SendBurn(p) \/ BurnNotSent(p)
           \/ BurnConfirmed(p) \/ BurnThrows(p)
  <2>1. UNCHANGED row
    BY <1>2 DEF ReadAllowance, Approve, SendBurn, BurnNotSent, BurnConfirmed, BurnThrows, table
  <2> QED BY <1>1, <2>1, SameRows
<1>3. CASE Begin(p)
  <2> DEFINE new == [row[cur[p]] EXCEPT !.status = "approving"]
  <2>1. new.attempts = row[cur[p]].attempts /\ new.status /= "none"
    BY <1>s DEF RowRecord
  <2>2. Transition(cur[p], {"pending"}, new) \/ TransitionFails(cur[p], {"pending"}, new)
    BY <1>3 DEF Begin
  <2> HIDE DEF new
  <2> QED BY <1>1, <1>u, <2>1, <2>2
<1>4. CASE ToBurning(p)
  <2> DEFINE new == [row[cur[p]] EXCEPT !.status = "burning"]
  <2>1. new.attempts = row[cur[p]].attempts /\ new.status /= "none"
    BY <1>s DEF RowRecord
  <2>2. Transition(cur[p], {"approving"}, new) \/ TransitionFails(cur[p], {"approving"}, new)
    BY <1>4 DEF ToBurning
  <2> HIDE DEF new
  <2> QED BY <1>1, <1>u, <2>1, <2>2
<1>5. CASE RecordBurn(p)
  <2> DEFINE new == [row[cur[p]] EXCEPT !.status = "awaiting_attestation", !.hash = TRUE]
  <2>1. new.attempts = row[cur[p]].attempts /\ new.status /= "none"
    BY <1>s DEF RowRecord
  <2>2. Transition(cur[p], {"burning"}, new) \/ TransitionFails(cur[p], {"burning"}, new)
    BY <1>5 DEF RecordBurn
  <2> HIDE DEF new
  <2> QED BY <1>1, <1>u, <2>1, <2>2
<1>6. CASE FailStart(p)
  <2> DEFINE new == [row[cur[p]] EXCEPT !.status = "failed"]
  <2>1. new.attempts = row[cur[p]].attempts /\ new.status /= "none"
    BY <1>s DEF RowRecord
  <2>2. \/ Transition(cur[p], {"approving", "burning"}, new)
        \/ TransitionFails(cur[p], {"approving", "burning"}, new)
    BY <1>6 DEF FailStart
  <2> HIDE DEF new
  <2> QED BY <1>1, <1>u, <2>1, <2>2
<1> QED BY <1>2, <1>3, <1>4, <1>5, <1>6


\* A row of the list is done with, before its mint.
LEMMA ReturnHushed ==
  ASSUME TypeOK, NEW p \in Proc, Return(p), pc[p] \in PollPlaces
  PROVE  HushedProc(p)
<1>1. /\ pc'[p] = "next" /\ cur[p] \in Row /\ copy'[p][cur[p]] = EmptyRow
      /\ \A r \in Row \ {cur[p]} : copy'[p][r] = copy[p][r]
  BY PlacesKnown DEF Return, Goto, TypeOK, LocalsOK
<1>2. pc[p] \notin Attempting /\ pc'[p] \notin PollPlaces \union MintPlaces \union {"idle", "list"}
  BY <1>1, RowsApart, PlacesKnown
<1>3. pc'[p] \notin Attempting
  BY <1>2, RowsApart
<1>4. EmptyRow.status /= "minting"
  BY DEF EmptyRow
<1> QED BY <1>1, <1>2, <1>3, <1>4 DEF HushedProc, Held

\* It is polled further, perhaps with a new object of it.
LEMMA PollHushed ==
  ASSUME TypeOK, Ledger, NEW p \in Proc, pc[p] \in PollPlaces,
         NEW place \in PollPlaces \union {"send_mint"}, NEW new,
         \/ Stay(p, place) /\ place /= "send_mint" /\ new = copy[p][cur[p]]
         \/ Hold(p, new, place),
         new.status /= "none",
         place = "send_mint" => new.status = "minting",
         new.status = "minting" => new = copy[p][cur[p]] \/ new = row'[cur[p]]
  PROVE  HushedProc(p)
<1>1. /\ pc'[p] = place /\ cur'[p] = cur[p] /\ cur[p] \in Row
      /\ copy'[p][cur[p]] = new
      /\ \A r \in Row \ {cur[p]} : copy'[p][r] = copy[p][r]
  BY PlacesKnown DEF Stay, Hold, Goto, TypeOK, LocalsOK
<1>2. /\ pc[p] \notin Attempting /\ place \notin Attempting
      /\ place \notin {"idle", "list"}
      /\ place \in MintPlaces => place = "send_mint"
  BY RowsApart, PlacesKnown DEF PollPlaces
<1>3. copy[p][cur[p]] /= EmptyRow
  BY DEF Ledger, Held
<1>4. new /= EmptyRow
  BY DEF EmptyRow
<1>5. Held(p)'
  BY <1>1, <1>2, <1>4 DEF Held
<1>6. \A r \in Row : copy[p][r] = EmptyRow => copy'[p][r] = EmptyRow
  BY <1>1, <1>3
<1> QED BY <1>1, <1>2, <1>5, <1>6 DEF HushedProc

\* resumeInFlight, up to the mint.
LEMMA ResumeHushed ==
  ASSUME TypeOK, Facts, Ledger, NEW p \in Proc, ResumeStep(p)
  PROVE  (\A r \in Row : Steady(r)) /\ HushedProc(p)
<1>s. ASSUME pc[p] \in PollPlaces
      PROVE  /\ cur[p] \in Row /\ row[cur[p]] \in RowRecord
             /\ copy[p][cur[p]] \in RowRecord
  BY <1>s, PlacesKnown, CopyTypes
<1>u. ASSUME pc[p] \in PollPlaces, NEW from, from \subseteq {"awaiting_attestation", "stuck"},
             NEW new, Transition(cur[p], from, new) \/ TransitionFails(cur[p], from, new),
             new.attempts = row[cur[p]].attempts, new.status /= "none"
      PROVE  \A r \in Row : Steady(r)
  <2>1. from \intersect ({"minting"} \union TerminalStatuses) = {}
    BY <1>u DEF TerminalStatuses
  <2> QED BY <1>s, <1>u, <2>1, UpdateSteady
<1>1. CASE List(p)
  <2>1. /\ UNCHANGED <<row, cur>> /\ pc'[p] = "next" /\ pc[p] = "list"
        /\ \A r \in Row : copy'[p][r] \in {copy[p][r], EmptyRow, row[r]}
    BY <1>1 DEF List, Goto, TypeOK, LocalsOK, table
  <2>2. EmptyRow.status /= "minting"
    BY DEF EmptyRow
  <2>3. /\ pc[p] \notin Attempting /\ pc'[p] \notin Attempting
        /\ pc'[p] \notin PollPlaces \union MintPlaces
    BY <2>1 DEF Attempting, PollPlaces, MintPlaces
  <2> QED BY <2>1, <2>2, <2>3, SameRows DEF HushedProc, Held
<1>2. CASE EndResume(p)
  <2>1. UNCHANGED row /\ pc[p] = "next" /\ pc[p] \notin Attempting
    BY <1>2 DEF EndResume, table, Attempting, MintPlaces
  <2>2. CASE Stop(p)
    BY <2>1, <2>2, StopHushed, SameRows
  <2>3. CASE Goto(p, "balances") /\ UNCHANGED copy
    <3>1. pc'[p] = "balances" /\ copy'[p] = copy[p]
      BY <2>3 DEF Goto, TypeOK, LocalsOK
    <3>2. pc'[p] \notin PollPlaces \union MintPlaces
      BY <3>1 DEF PollPlaces, MintPlaces
    <3> QED BY <2>1, <3>1, <3>2, AwayHushed, SameRows
  <2> QED BY <1>2, <2>2, <2>3 DEF EndResume
<1>3. CASE NextRow(p)
  <2>1. PICK r \in Row : /\ copy[p][r] /= EmptyRow
                         /\ cur' = [cur EXCEPT ![p] = r]
                         /\ Goto(p, PlaceFor(copy[p][r]))
    BY <1>3 DEF NextRow
  <2>2. /\ UNCHANGED <<row, copy>> /\ cur'[p] = r /\ pc'[p] = PlaceFor(copy[p][r])
        /\ pc[p] = "next" /\ pc[p] \notin Attempting
    BY <1>3, <2>1 DEF NextRow, Goto, TypeOK, LocalsOK, table, Attempting, MintPlaces
  <2>3. /\ pc'[p] \in {"unstick", "send_mint", "to_minting", "poll"}
        /\ pc'[p] = "send_mint" => copy[p][r].status = "minting"
    BY <2>2 DEF PlaceFor
  <2>4. pc'[p] \notin Attempting \union {"idle", "list"}
        /\ (pc'[p] \in MintPlaces => pc'[p] = "send_mint")
    BY <2>3 DEF Attempting, MintPlaces
  <2>5. Held(p)'
    BY <2>1, <2>2, <2>3, <2>4 DEF Held
  <2> QED BY <2>2, <2>4, <2>5, SameRows DEF HushedProc
<1>4. CASE PollForwarded(p) \/ PollComplete(p) \/ PollTimeout(p)
  <2>1. UNCHANGED row /\ pc[p] \in PollPlaces
    BY <1>4 DEF PollForwarded, PollComplete, PollTimeout, table, PollPlaces
  <2>2. PICK place \in PollPlaces : Stay(p, place) /\ place /= "send_mint"
    BY <1>4 DEF PollForwarded, PollComplete, PollTimeout, PollPlaces
  <2>3. pc'[p] = place /\ cur' = cur /\ copy' = copy
    BY <2>2 DEF Stay, Goto, TypeOK, LocalsOK
  <2>4. /\ pc[p] \notin Attempting /\ place \notin Attempting \union MintPlaces
        /\ place \notin {"idle", "list"}
    BY <2>1, RowsApart, PlacesKnown
  <2>5. Held(p)'
    BY <2>1, <2>3, <2>4 DEF Ledger, Held
  <2> QED BY <2>1, <2>3, <2>4, <2>5, SameRows DEF HushedProc
<1>5. CASE Unstick(p)
  <2> DEFINE new == [row[cur[p]] EXCEPT !.status = "awaiting_attestation"]
  <2>0. pc[p] \in PollPlaces
    BY <1>5 DEF Unstick, PollPlaces
  <2>1. new.attempts = row[cur[p]].attempts /\ new.status = "awaiting_attestation"
    BY <1>s, <2>0 DEF RowRecord
  <2>2. \/ Transition(cur[p], {"stuck"}, new) /\ Hold(p, new, PlaceFor(new))
        \/ TransitionFails(cur[p], {"stuck"}, new) /\ Return(p)
    BY <1>5 DEF Unstick
  <2>3. PlaceFor(new) \in PollPlaces
    BY <2>1 DEF PlaceFor, PollPlaces
  <2> HIDE DEF new
  <2>4. \A r \in Row : Steady(r)
    BY <1>u, <2>0, <2>1, <2>2
  <2>5. CASE Hold(p, new, PlaceFor(new))
    <3>1. PlaceFor(new) /= "send_mint"
      BY <2>3 DEF PollPlaces
    <3> QED BY <2>0, <2>1, <2>3, <2>4, <2>5, <3>1, PollHushed
  <2>6. CASE Return(p)
    BY <2>0, <2>4, <2>6, ReturnHushed
  <2> QED BY <2>2, <2>5, <2>6
<1>6. CASE MarkStuck(p)
  <2> DEFINE new == [row[cur[p]] EXCEPT !.status = "stuck"]
  <2>0. pc[p] \in PollPlaces /\ Return(p)
    BY <1>6 DEF MarkStuck, PollPlaces
  <2>1. new.attempts = row[cur[p]].attempts /\ new.status = "stuck"
    BY <1>s, <2>0 DEF RowRecord
  <2>2. \/ Transition(cur[p], {"awaiting_attestation"}, new)
        \/ TransitionFails(cur[p], {"awaiting_attestation"}, new)
    BY <1>6 DEF MarkStuck
  <2> HIDE DEF new
  <2> QED BY <1>u, <2>0, <2>1, <2>2, ReturnHushed
<1>7. CASE AcceptForward(p)
  <2> DEFINE new == [row[cur[p]] EXCEPT !.status = "minted", !.via = "forwarding",
                                              !.message = @ \/ cur[p] \in attested]
  <2>0. pc[p] \in PollPlaces /\ Return(p)
    BY <1>7 DEF AcceptForward, PollPlaces
  <2>1. new.attempts = row[cur[p]].attempts /\ new.status = "minted"
    BY <1>s, <2>0 DEF RowRecord
  <2>2. \/ Transition(cur[p], {"awaiting_attestation"}, new)
        \/ TransitionFails(cur[p], {"awaiting_attestation"}, new)
    BY <1>7 DEF AcceptForward
  <2> HIDE DEF new
  <2> QED BY <1>u, <2>0, <2>1, <2>2, ReturnHushed
<1>8. CASE ToMinting(p)
  <2> DEFINE new == [row[cur[p]] EXCEPT !.status = "minting", !.message = TRUE]
             from == {"awaiting_attestation", "stuck"}
  <2>0. pc[p] \in PollPlaces
    BY <1>8 DEF ToMinting, PollPlaces
  <2>1. new.attempts = row[cur[p]].attempts /\ new.status = "minting"
    BY <1>s, <2>0 DEF RowRecord
  <2>2. \/ Transition(cur[p], from, new) /\ Hold(p, new, "send_mint")
        \/ TransitionFails(cur[p], from, new) /\ Stay(p, "reread")
    BY <1>8 DEF ToMinting
  <2> HIDE DEF new
  <2>4. \A r \in Row : Steady(r)
    BY <1>u, <2>0, <2>1, <2>2
  <2>5. CASE Transition(cur[p], from, new) /\ Hold(p, new, "send_mint")
    <3>1. row'[cur[p]] = new
      BY <1>s, <2>0, <2>5 DEF Transition, TypeOK, TableOK
    <3> QED BY <2>0, <2>1, <2>4, <2>5, <3>1, PollHushed
  <2>6. CASE Stay(p, "reread")
    <3>1. pc'[p] = "reread" /\ cur' = cur /\ copy' = copy
      BY <2>6 DEF Stay, Goto, TypeOK, LocalsOK
    <3>2. pc[p] \notin Attempting /\ "reread" \notin Attempting \union MintPlaces
      BY <2>0, RowsApart DEF Attempting, MintPlaces
    <3>3. Held(p)'
      BY <2>0, <3>1, <3>2 DEF Ledger, Held
    <3> QED BY <2>4, <3>1, <3>2, <3>3 DEF HushedProc
  <2> QED BY <2>2, <2>5, <2>6
<1>9. CASE Reread(p)
  <2>1. UNCHANGED row /\ pc[p] \in PollPlaces
    BY <1>9 DEF Reread, PollPlaces, table
  <2>2. CASE row[cur[p]].status = "minting" /\ Hold(p, row[cur[p]], "send_mint")
    <3>1. row'[cur[p]] = row[cur[p]]
      BY <2>1
    <3> QED BY <2>1, <2>2, <3>1, PollHushed, SameRows
  <2>3. CASE Return(p)
    BY <2>1, <2>3, ReturnHushed, SameRows
  <2> QED BY <1>9, <2>2, <2>3 DEF Reread
<1> QED BY <1>1, <1>2, <1>3, <1>4, <1>5, <1>6, <1>7, <1>8, <1>9 DEF ResumeStep


-----------------------------------------------------------------------------
(* Attempts *)

LEMMA SameLedger ==
  ASSUME Ledger, UNCHANGED <<row, pc, cur, copy, crashes, sends>>
  PROVE  Ledger'
<1>1. \A r \in Row : Affordable(r)'
  BY DEF Ledger, Affordable, Settled, Open, Counted, Allowance, Spending, Through
<1> QED BY <1>1 DEF Ledger, Held

\* The chains, the cooldown, and nothing.
LEMMA WorldKeepsLedger ==
  ASSUME Ledger, \E r \in Row : ChainStep(r) \/ CooldownElapses(r)
  PROVE  Ledger'
<1>1. UNCHANGED <<row, pc, cur, copy, crashes, sends>>
  BY DEF ChainStep, CooldownElapses, MineBurn, Attest, Forward, MineLoose, MineMint, table, chain,
         locals
<1> QED BY <1>1, SameLedger

\* The attempt begins, or goes on.
LEMMA AttemptKeeps ==
  ASSUME TypeOK, TypeOK', Facts, Ledger, NEW p \in Proc, Others(p),
         \/ sends' = sends
         \/ pc[p] = "send_mint" /\ sends' = [sends EXCEPT ![cur[p]] = @ + 1],
         UNCHANGED <<row, cur, copy, crashes>>,
         pc[p] \in MintPlaces, pc'[p] \in Attempting
  PROVE  Ledger'
<1>1. /\ \A q \in Proc \ {p} : pc'[q] = pc[q]
      /\ cur[p] \in Row /\ sends \in [Row -> Nat] /\ sends' \in [Row -> Nat]
  <2>1. \A q \in Proc \ {p} : pc'[q] = pc[q]
    BY DEF Others
  <2>2. cur[p] \in Row
    BY PlacesKnown DEF TypeOK, LocalsOK
  <2> QED BY <2>1, <2>2 DEF TypeOK, ChainOK
<1>2. ASSUME NEW r \in Row
      PROVE  \/ sends'[r] = sends[r]
             \/ cur[p] = r /\ pc[p] = "send_mint" /\ sends'[r] = sends[r] + 1
  BY <1>1
<1>3. \A q \in Proc : Held(q)'
  <2>1. Attempting \subseteq MintPlaces /\ Attempting \intersect PollPlaces = {}
    BY RowsApart
  <2> QED BY <1>1, <2>1 DEF Ledger, Held
<1>4. ASSUME NEW r \in Row
      PROVE  Affordable(r)'
  <2>1. Through(r)' = Through(r)
    <3>1. {"idle", "list"} \intersect MintPlaces = {} /\ Attempting \subseteq MintPlaces
      BY DEF Attempting, MintPlaces
    <3> QED BY <1>1, <3>1, TwoProcs DEF Through
  <2>2. \E k \in {0, 1} : Settled(r)' <= Settled(r) + k /\ Allowance(r)' >= Allowance(r) + k
    <3>0. crashes' - crashes = 0 /\ Allowance(r) \in Nat /\ Allowance(r)' \in Nat
      BY <1>1, LedgerTypes DEF TypeOK
    <3>1. CASE p = Worker
      <4>1. Spending(r)' = Spending(r)
        BY <1>1, <3>1, TwoProcs DEF Spending
      <4>2. Allowance(r)' >= Allowance(r)
        BY <1>1, <2>1, <3>0, <4>1, AllowanceGrows
      <4>3. Settled(r)' <= Settled(r)
        BY <1>1, <1>2, <3>1, RowsApart DEF Settled, Open
      <4>4. Settled(r) \in Int /\ Settled(r)' \in Int
        BY <1>1, LedgerTypes
      <4> QED BY <3>0, <4>2, <4>3, <4>4
    <3>2. CASE p /= Worker /\ cur[p] = r /\ pc[p] = "send_mint"
      <4>1. p \in Route
        BY <3>2 DEF Proc
      <4>2. p \notin Spending(r) /\ Spending(r)' = Spending(r) \union {p}
        BY <1>1, <3>2, <4>1, TwoProcs, RowsApart DEF Spending
      <4>3. Allowance(r)' = Allowance(r) + 1
        BY <2>1, <4>1, <4>2, AllowanceAdds
      <4>4. Settled(r)' <= Settled(r) + 1
        BY <1>1, <1>2, <3>2, TwoProcs DEF Settled, Open
      <4> QED BY <3>0, <4>3, <4>4
    <3>3. CASE p /= Worker /\ ~(cur[p] = r /\ pc[p] = "send_mint")
      <4>1. pc[p] \in Attempting \/ cur[p] /= r
        BY <3>3 DEF Attempting
      <4>2. Spending(r)' = Spending(r)
        BY <1>1, <4>1, TwoProcs DEF Spending
      <4>3. Allowance(r)' >= Allowance(r)
        BY <1>1, <2>1, <3>0, <4>2, AllowanceGrows
      <4>4. Settled(r)' = Settled(r) /\ Settled(r) \in Int
        BY <1>1, <1>2, <3>3, TwoProcs DEF Settled, Open
      <4> QED BY <3>0, <4>3, <4>4
    <3> QED BY <3>1, <3>2, <3>3
  <2>3. PICK k \in {0, 1} : Settled(r)' <= Settled(r) + k /\ Allowance(r)' >= Allowance(r) + k
    BY <2>2
  <2>4. /\ Allowance(r) \in Nat /\ Allowance(r)' \in Nat /\ Counted(r) \in Nat
        /\ Settled(r) \in Int /\ Settled(r)' \in Int /\ Counted(r)' = Counted(r)
    BY <1>1, LedgerTypes DEF Counted
  <2>5. copy[Worker][r].attempts \in Nat
    BY TwoProcs DEF TypeOK, LocalsOK, RowRecord
  <2> DEFINE a == Allowance(r)  a1 == Allowance(r)'
             c == Counted(r)    x == Settled(r)    x1 == Settled(r)'
  <2>6. /\ x <= c + a
        /\ copy[Worker][r].status = "minting" =>
             /\ row[r].status /= "minting" => x + 1 <= c + a
             /\ x <= copy[Worker][r].attempts + a
    BY DEF Ledger, Affordable
  <2>7. x1 <= x + k /\ a1 >= a + k /\ a \in Nat /\ a1 \in Nat /\ c \in Nat /\ x \in Int /\ x1 \in Int
    BY <2>3, <2>4
  <2> HIDE DEF a, a1, c, x, x1
  <2>8. /\ x1 <= c + a1
        /\ copy[Worker][r].status = "minting" =>
             /\ row[r].status /= "minting" => x1 + 1 <= c + a1
             /\ x1 <= copy[Worker][r].attempts + a1
    BY <2>5, <2>6, <2>7
  <2>9. row' = row /\ copy' = copy /\ Counted(r)' = c
    BY <2>4 DEF c
  <2> QED BY <2>8, <2>9 DEF Affordable, a1, x1
<1> QED BY <1>1, <1>3, <1>4 DEF Ledger


\* A caller ends its attempt and leaves the row: it has written what became of
\* it, or found that somebody else had moved the row on.
LEMMA EndingKeeps ==
  ASSUME TypeOK, TypeOK', Facts, Ledger, NEW p \in Proc, Others(p), sends' = sends, crashes' = crashes,
         pc[p] \in Attempting, Return(p),
         \A r \in Row \ {cur[p]} : row'[r] = row[r],
         \/ row'[cur[p]] = row[cur[p]] /\ row[cur[p]].status /= "minting"
         \/ /\ row[cur[p]].status = "minting"
            /\ \/ row'[cur[p]].status \in TerminalStatuses
               \/ row'[cur[p]].status = "stuck" /\ row'[cur[p]].attempts = Attempt(p)
  PROVE  Ledger'
<1>1. /\ cur[p] \in Row /\ pc'[p] = "next" /\ cur'[p] = NoRow /\ copy'[p][cur[p]] = EmptyRow
      /\ \A r \in Row \ {cur[p]} : copy'[p][r] = copy[p][r]
      /\ \A q \in Proc \ {p} : pc'[q] = pc[q] /\ cur'[q] = cur[q] /\ copy'[q] = copy[q]
      /\ Attempt(p) \in Nat /\ copy[p][cur[p]].attempts \in Nat
  <2>1. cur[p] \in Row /\ Attempt(p) \in Nat /\ copy[p][cur[p]].attempts \in Nat
    BY RowsApart, PlacesKnown, CopyTypes DEF RowRecord
  <2> QED BY <2>1 DEF Return, Goto, TypeOK, LocalsOK, Others
<1>2. copy[p][cur[p]].status = "minting" /\ copy[p][cur[p]] /= EmptyRow
  BY RowsApart DEF Ledger, Held, EmptyRow
<1>3. sends' = sends /\ sends \in [Row -> Nat]
  BY DEF TypeOK, ChainOK
<1>4. \A q \in Proc : Held(q)'
  <2>1. "next" \notin PollPlaces \union MintPlaces
    BY DEF PollPlaces, MintPlaces
  <2> QED BY <1>1, <2>1 DEF Ledger, Held
<1>5. \A r \in Row : row'[r].status = "none" => row'[r].attempts = 0
  BY <1>1 DEF Ledger, TerminalStatuses
<1>6. "next" \notin Attempting \union {"idle", "list"}
  BY DEF Attempting, MintPlaces
<1>7. crashes' - crashes = 0
  BY DEF TypeOK
<1>8. ASSUME NEW r \in Row \ {cur[p]}
      PROVE  Affordable(r)'
  <2>1. Spending(r)' = Spending(r)
    BY <1>1, <1>6, TwoProcs DEF Spending
  <2>2. Through(r) \subseteq Through(r)'
    BY <1>1, <1>6, TwoProcs DEF Through
  <2>3. Allowance(r)' >= Allowance(r)
    BY <1>3, <1>7, <2>1, <2>2, AllowanceGrows, LedgerTypes
  <2>4. Settled(r)' = Settled(r) /\ Settled(r) \in Int
    BY <1>1, <1>3, <1>6, TwoProcs DEF Settled, Open
  <2>5. row'[r] = row[r] /\ copy'[Worker][r] = copy[Worker][r] /\ Counted(r)' = Counted(r)
    BY <1>1, TwoProcs DEF Counted
  <2>6. Allowance(r) \in Nat /\ Allowance(r)' \in Nat /\ Counted(r) \in Nat
    BY <1>3, LedgerTypes
  <2>7. copy[Worker][r].attempts \in Nat
    BY TwoProcs DEF TypeOK, LocalsOK, RowRecord
  <2> DEFINE a == Allowance(r)  a1 == Allowance(r)'
             c == Counted(r)    x == Settled(r)
  <2>8. /\ x <= c + a
        /\ copy[Worker][r].status = "minting" =>
             /\ row[r].status /= "minting" => x + 1 <= c + a
             /\ x <= copy[Worker][r].attempts + a
    BY DEF Ledger, Affordable
  <2>9. a1 >= a /\ a \in Nat /\ a1 \in Nat /\ c \in Nat /\ x \in Int
    BY <2>3, <2>4, <2>6
  <2> HIDE DEF a, a1, c, x
  <2>10. /\ x <= c + a1
         /\ copy[Worker][r].status = "minting" =>
              /\ row[r].status /= "minting" => x + 1 <= c + a1
              /\ x <= copy[Worker][r].attempts + a1
    BY <2>7, <2>8, <2>9
  <2>11. Settled(r)' = x /\ Counted(r)' = c /\ Allowance(r)' = a1
    BY <2>4, <2>5 DEF x, c, a1
  <2> QED BY <2>5, <2>10, <2>11 DEF Affordable
<1>9. ASSUME NEW s \in Row, s = cur[p]
      PROVE  Affordable(s)'
  <2>1. /\ Allowance(s) \in Nat /\ Allowance(s)' \in Nat
        /\ Counted(s) \in Nat /\ Counted(s)' \in Nat
        /\ Settled(s) \in Int /\ Settled(s)' \in Int
    BY <1>3, LedgerTypes
  <2>2. /\ row[s] \in RowRecord /\ row'[s] \in RowRecord
        /\ row[s].attempts \in Nat /\ row'[s].attempts \in Nat
    BY DEF TypeOK, TableOK, RowRecord
  <2>3. Attempt(p) = copy[p][s].attempts + 1
    BY <1>9 DEF Attempt
  <2>4. row[s].status = "minting" => Counted(s) = row[s].attempts /\ row[s].attempts < MintMaxAttempts
    BY DEF Facts, RowFacts, Accurate, InFlightStatuses, Status, TerminalStatuses, Counted
  <2>5. /\ row'[s] = row[s] => Counted(s)' = Counted(s)
        /\ row'[s].status \in TerminalStatuses => Counted(s)' = MintMaxAttempts
        /\ row'[s].status = "stuck" => Counted(s)' = row'[s].attempts
    BY DEF Counted, TerminalStatuses
  <2>6. Through(s) \subseteq Through(s)'
    BY <1>1, <1>6, TwoProcs DEF Through
  <2>7. MintMaxAttempts \in Nat \ {0}
    BY RebalanceConfig
  <2>8. CASE p = Worker
    <3>1. Spending(s)' = Spending(s)
      BY <1>1, <1>6, <2>8, TwoProcs DEF Spending
    <3>2. Allowance(s)' >= Allowance(s)
      BY <1>3, <1>7, <2>1, <2>6, <3>1, AllowanceGrows
    <3>3. Settled(s)' = Settled(s) + 1
      <4>1. Open(s) = 1 /\ Open(s)' = 0
        BY <1>1, <1>6, <1>9, <2>8 DEF Open
      <4> QED BY <1>3, <4>1 DEF Settled
    <3>4. copy'[Worker][s].status /= "minting"
      BY <1>1, <1>9, <2>8 DEF EmptyRow
    <3> DEFINE a == Allowance(s)  a1 == Allowance(s)'
               c == Counted(s)    c1 == Counted(s)'
               x == Settled(s)    x1 == Settled(s)'
               n == copy[p][s].attempts
    <3>5. /\ row[s].status /= "minting" => x + 1 <= c + a
          /\ x <= n + a /\ x <= c + a
      BY <1>2, <1>9, <2>8 DEF Ledger, Affordable
    <3>6. /\ a \in Nat /\ a1 \in Nat /\ c \in Nat /\ c1 \in Nat /\ x \in Int /\ x1 = x + 1
          /\ a1 >= a /\ n \in Nat /\ Attempt(p) = n + 1
          /\ row[s].status = "minting" => c = row[s].attempts /\ row[s].attempts < MintMaxAttempts
          /\ row'[s] = row[s] => c1 = c
          /\ row'[s].status \in TerminalStatuses => c1 = MintMaxAttempts
          /\ row'[s].status = "stuck" => c1 = row'[s].attempts
      BY <1>1, <1>9, <2>1, <2>3, <2>4, <2>5, <3>2, <3>3
    <3> HIDE DEF a, a1, c, c1, x, x1, n
    <3>7. x1 <= c1 + a1
      BY <1>9, <2>2, <2>7, <3>5, <3>6
    <3> QED BY <3>4, <3>7 DEF Affordable, a1, c1, x1
  <2>9. CASE p /= Worker
    <3>0. p \in Route
      BY <2>9 DEF Proc
    <3>1. Spending(s) \ Spending(s)' = {p}
      BY <1>1, <1>6, <1>9, <3>0, TwoProcs DEF Spending
    <3>2. p \in Through(s)' \ Through(s)
      BY <1>1, <1>2, <1>6, <1>9, <3>0 DEF Through
    <3>3. Allowance(s)' >= Allowance(s) + MintMaxAttempts - 1
      <4>1. /\ Cardinality({p}) = 1
            /\ Allowance(s)' >= Allowance(s) + (crashes' - crashes)
                 + (MintMaxAttempts - 1) * Cardinality({p})
        BY <2>6, <3>1, <3>2, AllowanceMoves, FS_Singleton
      <4>2. (MintMaxAttempts - 1) * 1 = MintMaxAttempts - 1
        BY <2>7
      <4> HIDE DEF Allowance
      <4> QED BY <1>7, <2>1, <2>7, <4>1, <4>2
    <3>4. Settled(s)' = Settled(s)
      BY <1>1, <1>3, <2>9, TwoProcs DEF Settled, Open
    <3>5. copy'[Worker][s] = copy[Worker][s] /\ copy[Worker][s].attempts \in Nat
      BY <1>1, <2>9, TwoProcs DEF TypeOK, LocalsOK, RowRecord
    <3> DEFINE a == Allowance(s)  a1 == Allowance(s)'
               c == Counted(s)    c1 == Counted(s)'
               x == Settled(s)    x1 == Settled(s)'
               n == copy[p][s].attempts
               w == copy[Worker][s]
    <3>6. /\ x <= c + a
          /\ w.status = "minting" =>
               /\ row[s].status /= "minting" => x + 1 <= c + a
               /\ x <= w.attempts + a
      BY DEF Ledger, Affordable
    <3>7. /\ a \in Nat /\ a1 \in Nat /\ c \in Nat /\ c1 \in Nat /\ x \in Int /\ x1 = x
          /\ a1 >= a + MintMaxAttempts - 1 /\ n \in Nat /\ Attempt(p) = n + 1
          /\ row[s].status = "minting" => c = row[s].attempts /\ row[s].attempts < MintMaxAttempts
          /\ row'[s] = row[s] => c1 = c
          /\ row'[s].status \in TerminalStatuses => c1 = MintMaxAttempts
          /\ row'[s].status = "stuck" => c1 = row'[s].attempts
      BY <1>1, <1>9, <2>1, <2>3, <2>4, <2>5, <3>3, <3>4
    <3> HIDE DEF a, a1, c, c1, x, x1, n, w
    <3>8. x1 <= c1 + a1 /\ (row[s].status = "minting" => x1 + 1 <= c1 + a1)
      BY <1>9, <2>2, <2>7, <3>6, <3>7
    <3>9. w.status = "minting" => x1 + 1 <= c1 + a1 /\ x1 <= w.attempts + a1
      <4>1. w.attempts \in Nat
        BY <3>5 DEF w
      <4>2. ASSUME w.status = "minting"
            PROVE  x1 <= w.attempts + a1
        BY <2>7, <3>6, <3>7, <4>1, <4>2
      <4>3. ASSUME w.status = "minting"
            PROVE  x1 + 1 <= c1 + a1
        <5>1. row[s].status /= "minting" => c1 = c
          BY <1>9, <3>7
        <5> QED BY <2>7, <3>6, <3>7, <3>8, <4>3, <5>1
      <4> QED BY <4>2, <4>3
    <3> QED BY <3>5, <3>8, <3>9 DEF Affordable, a1, c1, x1, w
  <2> QED BY <2>8, <2>9
<1>10. \A r \in Row : Affordable(r)'
  <2>1. PICK s \in Row : s = cur[p]
    BY <1>1
  <2>2. Affordable(s)'
    BY <1>9, <2>1
  <2> QED BY <1>8, <2>1, <2>2
<1> QED BY <1>3, <1>4, <1>5, <1>10 DEF Ledger

\* completeDirectMint, while the database answers.
LEMMA MintKeeps ==
  ASSUME TypeOK, TypeOK', Facts, Ledger, "db" \notin Faults, NEW p \in Proc, MintStep(p)
  PROVE  Ledger'
<1>s. /\ pc[p] \in MintPlaces /\ Others(p) /\ crashes' = crashes
      /\ cur[p] \in Row /\ row[cur[p]] \in RowRecord /\ Attempt(p) \in Nat
  <2>1. pc[p] \in MintPlaces /\ crashes' = crashes
    BY DEF MintStep, SendMint, MintNotSent, MintConfirmed, MintReverted, MintTimesOut,
           RecordMint, TreatAsMinted, FailMint, RetryLater, MintPlaces
  <2>2. Others(p)
    BY OthersStill DEF ProcessStep
  <2> QED BY <2>1, <2>2, PlacesKnown, CopyTypes
<1>m. \/ sends' = sends
      \/ pc[p] = "send_mint" /\ sends' = [sends EXCEPT ![cur[p]] = @ + 1]
  BY DEF MintStep, SendMint, MintNotSent, MintConfirmed, MintReverted, MintTimesOut,
         RecordMint, TreatAsMinted, FailMint, RetryLater, chain
<1>a. ASSUME UNCHANGED row, NEW place \in Attempting, Stay(p, place)
      PROVE  Ledger'
  <2>1. pc'[p] = place /\ UNCHANGED <<cur, copy>>
    BY <1>a DEF Stay, Goto, TypeOK, LocalsOK
  <2> QED BY <1>a, <1>m, <1>s, <2>1, AttemptKeeps
<1>b. \A retryable \in BOOLEAN : PlaceAfterError(p, retryable) \in Attempting
  BY DEF PlaceAfterError, Attempting, MintPlaces
<1>1. CASE SendMint(p) \/ MintNotSent(p) \/ MintConfirmed(p) \/ MintReverted(p) \/ MintTimesOut(p)
  <2>1. UNCHANGED row
    BY <1>1 DEF SendMint, MintNotSent, MintConfirmed, MintReverted, MintTimesOut, table
  <2>2. \E place \in Attempting : Stay(p, place)
    BY <1>1, <1>b DEF SendMint, MintNotSent, MintConfirmed, MintReverted, MintTimesOut,
                      Attempting, MintPlaces
  <2> QED BY <1>a, <2>1, <2>2
<1>c. ASSUME pc[p] \in Attempting, Return(p), NEW new,
             \/ Transition(cur[p], {"minting"}, new)
             \/ TransitionFails(cur[p], {"minting"}, new),
             \/ new.status \in TerminalStatuses
             \/ new.status = "stuck" /\ new.attempts = Attempt(p)
      PROVE  Ledger'
  <2>1. \/ row[cur[p]].status = "minting" /\ row' = [row EXCEPT ![cur[p]] = new]
        \/ row[cur[p]].status /= "minting" /\ row' = row
    BY <1>c DEF Transition, TransitionFails
  <2>2. /\ \A r \in Row \ {cur[p]} : row'[r] = row[r]
        /\ \/ row'[cur[p]] = row[cur[p]] /\ row[cur[p]].status /= "minting"
           \/ row'[cur[p]] = new /\ row[cur[p]].status = "minting"
    BY <1>s, <2>1 DEF TypeOK, TableOK
  <2>3. sends' = sends
    BY <1>c, <1>m, RowsApart
  <2> QED BY <1>c, <1>s, <2>2, <2>3, EndingKeeps
<1>2. CASE RecordMint(p)
  <2> DEFINE new == [row[cur[p]] EXCEPT !.status = "minted", !.via = "direct",
                                        !.attempts = Attempt(p)]
  <2>1. pc[p] \in Attempting /\ Return(p)
    BY <1>2 DEF RecordMint, Attempting, MintPlaces
  <2>2. new.status \in TerminalStatuses
    BY <1>s DEF RowRecord, TerminalStatuses
  <2>3. Transition(cur[p], {"minting"}, new) \/ TransitionFails(cur[p], {"minting"}, new)
    BY <1>2 DEF RecordMint
  <2> HIDE DEF new
  <2> QED BY <1>c, <2>1, <2>2, <2>3
<1>3. CASE TreatAsMinted(p)
  <2> DEFINE new == [row[cur[p]] EXCEPT !.status = "minted", !.via = "nonce_used",
                                        !.attempts = Attempt(p)]
  <2>1. pc[p] \in Attempting /\ "fail_mint" \in Attempting
    BY <1>3 DEF TreatAsMinted, Attempting, MintPlaces
  <2>2. new.status \in TerminalStatuses
    BY <1>s DEF RowRecord, TerminalStatuses
  <2>3. \/ Transition(cur[p], {"minting"}, new) /\ Return(p)
        \/ TransitionFails(cur[p], {"minting"}, new) /\ Stay(p, "fail_mint")
    BY <1>3 DEF TreatAsMinted
  <2> HIDE DEF new
  <2>4. CASE Transition(cur[p], {"minting"}, new) /\ Return(p)
    BY <1>c, <2>1, <2>2, <2>4
  <2>5. CASE TransitionFails(cur[p], {"minting"}, new) /\ Stay(p, "fail_mint")
    <3>1. UNCHANGED row
      BY <2>5 DEF TransitionFails
    <3> QED BY <1>a, <2>1, <2>5, <3>1
  <2> QED BY <2>3, <2>4, <2>5
<1>4. CASE FailMint(p)
  <2> DEFINE new == [row[cur[p]] EXCEPT !.status = "failed"]
  <2>1. pc[p] \in Attempting /\ Return(p)
    BY <1>4 DEF FailMint, Attempting, MintPlaces
  <2>2. new.status \in TerminalStatuses
    BY <1>s DEF RowRecord, TerminalStatuses
  <2>3. Transition(cur[p], {"minting"}, new) \/ TransitionFails(cur[p], {"minting"}, new)
    BY <1>4 DEF FailMint
  <2> HIDE DEF new
  <2> QED BY <1>c, <2>1, <2>2, <2>3
<1>5. CASE RetryLater(p)
  <2> DEFINE new == [row[cur[p]] EXCEPT !.status = "stuck", !.attempts = Attempt(p)]
  <2>1. pc[p] \in Attempting /\ Return(p)
    BY <1>5 DEF RetryLater, Attempting, MintPlaces
  <2>2. new.status = "stuck" /\ new.attempts = Attempt(p)
    BY <1>s DEF RowRecord
  <2>3. Transition(cur[p], {"minting"}, new) \/ TransitionFails(cur[p], {"minting"}, new)
    BY <1>5 DEF RetryLater
  <2> HIDE DEF new
  <2> QED BY <1>c, <2>1, <2>2, <2>3
<1> QED BY <1>1, <1>2, <1>3, <1>4, <1>5 DEF MintStep

\* A restart forgets the requests, and pays for one attempt that the worker had
\* on its way.
LEMMA RestartKeeps ==
  ASSUME TypeOK, TypeOK', Ledger, Crash
  PROVE  Ledger'
<1>1. /\ UNCHANGED row /\ crashes' = crashes + 1 /\ crashes \in Nat
      /\ \A p \in Proc : /\ pc'[p] \in {"idle", "answered"}
                         /\ p \in Route /\ pc[p] /= "idle" => pc'[p] = "answered"
                         /\ \A r \in Row : copy'[p][r] = EmptyRow
  BY TwoProcs DEF Crash, Rest, table, TypeOK
<1>2. {"idle", "answered"} \intersect (PollPlaces \union MintPlaces) = {}
  BY DEF PollPlaces, MintPlaces
<1>3. sends' = sends /\ sends \in [Row -> Nat]
  BY DEF Crash, TypeOK, ChainOK
<1>4. \A q \in Proc : Held(q)'
  BY <1>1, <1>2 DEF Held
<1>5. \A r \in Row : row'[r].status = "none" => row'[r].attempts = 0
  BY <1>1 DEF Ledger
<1>6. ASSUME NEW r \in Row
      PROVE  Affordable(r)'
  <2>1. Through(r) \subseteq Through(r)'
    BY <1>1, TwoProcs DEF Through
  <2>2. Spending(r) \ Spending(r)' \subseteq Through(r)' \ Through(r)
    <3>1. ASSUME NEW p \in Spending(r)
          PROVE  p \in Through(r)' /\ p \notin Through(r)
      <4>1. p \in Route /\ pc[p] \in MintPlaces /\ cur[p] = r /\ p \in Proc
        BY <3>1, TwoProcs, RowsApart DEF Spending
      <4>2. pc[p] \notin {"idle", "list"}
        BY <4>1 DEF MintPlaces
      <4>3. copy[p][r] /= EmptyRow
        BY <4>1 DEF Ledger, Held, EmptyRow
      <4> QED BY <1>1, <4>1, <4>2, <4>3 DEF Through
    <3> QED BY <3>1
  <2> DEFINE a == Allowance(r)  a1 == Allowance(r)'
             c == Counted(r)    c1 == Counted(r)'
             x == Settled(r)    x1 == Settled(r)'
             k == crashes' - crashes
  <2>3. a1 >= a + k /\ k = 1
    BY <1>1, <1>3, <2>1, <2>2, AllowanceGrows
  <2>4. x1 <= x + 1
    BY <1>3 DEF Settled, Open
  <2>5. x <= c + a
    BY DEF Ledger, Affordable
  <2>6. a \in Nat /\ a1 \in Nat /\ c \in Nat /\ c1 = c /\ x \in Int /\ x1 \in Int
    BY <1>1, <1>3, LedgerTypes DEF Counted
  <2>7. copy'[Worker][r].status /= "minting"
    BY <1>1, TwoProcs DEF EmptyRow
  <2> HIDE DEF a, a1, c, c1, x, x1, k
  <2>8. x1 <= c1 + a1
    BY <2>3, <2>4, <2>5, <2>6
  <2> QED BY <2>7, <2>8 DEF Affordable, a1, c1, x1
<1> QED BY <1>3, <1>4, <1>5, <1>6 DEF Ledger

LEMMA InitLedger ==
  ASSUME Init
  PROVE  Ledger
<1>1. /\ sends = [r \in Row |-> 0] /\ crashes = 0
      /\ \A p \in Proc : pc[p] = "idle" /\ \A r \in Row : copy[p][r] = EmptyRow
      /\ \A r \in Row : row[r] = EmptyRow
  BY DEF Init
<1>2. "idle" \notin PollPlaces \union MintPlaces \union Attempting
  BY DEF PollPlaces, MintPlaces, Attempting
<1>3. EmptyRow.status = "none" /\ EmptyRow.attempts = 0
  BY DEF EmptyRow
<1>4. ASSUME NEW r \in Row
      PROVE  Affordable(r)
  <2>1. Spending(r) = {} /\ Through(r) = {}
    BY <1>1, <1>2, TwoProcs DEF Spending, Through
  <2>2. Allowance(r) = 0
    BY <1>1, <2>1, FS_EmptySet, RebalanceConfig DEF Allowance
  <2>3. Settled(r) = 0 /\ Counted(r) = 0
    BY <1>1, <1>2, <1>3, TwoProcs DEF Settled, Open, Counted, TerminalStatuses
  <2> QED BY <1>1, <1>3, <2>2, <2>3, TwoProcs DEF Affordable
<1> QED BY <1>1, <1>2, <1>3, <1>4 DEF Ledger, Held

LEMMA NextLedger ==
  ASSUME TypeOK, TypeOK', Facts, Ledger, "db" \notin Faults, [Next]_vars
  PROVE  Ledger'
<1>c. ASSUME NEW p \in Proc, Others(p), crashes' = crashes, sends' = sends,
             \A r \in Row : Steady(r), HushedProc(p)
      PROVE  Ledger'
  BY <1>c, HushedKeeps DEF Hushed
<1>1. CASE StartCycle
  <2>1. Others(Worker) /\ UNCHANGED <<crashes, sends>>
    BY <1>1 DEF Others, StartCycle, TypeOK, LocalsOK, chain
  <2> QED BY <1>1, <1>c, <2>1, TwoProcs, CallHushed
<1>2. CASE \E p \in Route : StartForce(p) \/ StartResume(p)
  <2>1. PICK p \in Route : StartForce(p) \/ StartResume(p)
    BY <1>2
  <2>2. p \in Proc
    BY TwoProcs
  <2>3. Others(p) /\ UNCHANGED <<crashes, sends>>
    BY <2>1, <2>2 DEF Others, StartForce, StartResume, Goto, TypeOK, LocalsOK, chain
  <2> QED BY <1>2, <1>c, <2>1, <2>2, <2>3, CallHushed
<1>3. ASSUME NEW p \in Proc, ProcessStep(p)
      PROVE  Ledger'
  <2>0. Others(p)
    BY <1>3, OthersStill
  <2>1. CASE \/ ReadBalances(p) \/ CountInFlight(p) \/ ReadLastBurn(p)
             \/ ReadFails(p) \/ Skip(p) \/ Create(p) \/ CreateFails(p)
    <3>1. UNCHANGED <<crashes, sends>>
      BY <2>1 DEF ReadBalances, CountInFlight, ReadLastBurn, ReadFails, Skip, Create, CreateFails,
                  chain
    <3> QED BY <1>3, <1>c, <2>0, <2>1, <3>1, CallHushed
  <2>2. CASE \/ Begin(p) \/ ReadAllowance(p) \/ Approve(p) \/ ToBurning(p)
             \/ SendBurn(p) \/ BurnNotSent(p) \/ BurnConfirmed(p) \/ BurnThrows(p)
             \/ RecordBurn(p) \/ FailStart(p)
    <3>1. UNCHANGED <<crashes, sends>>
      BY <2>2 DEF Begin, ReadAllowance, Approve, ToBurning, SendBurn, BurnNotSent, BurnConfirmed,
                  BurnThrows, RecordBurn, FailStart, chain
    <3> QED BY <1>3, <1>c, <2>0, <2>2, <3>1, TransferHushed
  <2>3. CASE ResumeStep(p)
    <3>1. UNCHANGED <<crashes, sends>>
      BY <2>3 DEF ResumeStep, List, EndResume, NextRow, Unstick, PollForwarded, PollComplete,
                  PollTimeout, MarkStuck, AcceptForward, ToMinting, Reread, chain
    <3> QED BY <1>3, <1>c, <2>0, <2>3, <3>1, ResumeHushed
  <2>4. CASE MintStep(p)
    BY <1>3, <2>4, MintKeeps
  <2> QED BY <1>3, <2>1, <2>2, <2>3, <2>4 DEF ProcessStep, StartStep
<1>4. CASE \E r \in Row : ChainStep(r) \/ CooldownElapses(r)
  BY <1>4, WorldKeepsLedger
<1>5. CASE Crash
  BY <1>5, RestartKeeps
<1>6. CASE UNCHANGED vars
  BY <1>6, SameLedger DEF vars, table, chain, locals
<1> QED BY <1>1, <1>2, <1>3, <1>4, <1>5, <1>6 DEF Next

LEMMA LedgerBounds ==
  ASSUME TypeOK, Facts, Ledger, NEW r \in Row
  PROVE  sends[r] <= MintMaxAttempts * (1 + Cardinality(Route)) + crashes
<1> DEFINE s == Cardinality(Spending(r))
           d == Cardinality(Through(r))
           n == Cardinality(Route)
           c == Counted(r)
<1>1. s \in Nat /\ d \in Nat /\ n \in Nat
  BY RebalanceConfig, FS_Subset, FS_CardinalityType DEF Spending, Through
<1>2. s + d <= n
  <2>1. Spending(r) \subseteq Route /\ Through(r) \subseteq Route
    BY DEF Spending, Through
  <2>2. Spending(r) \intersect Through(r) = {}
    <3>1. ASSUME NEW p \in Spending(r)
          PROVE  copy[p][r] /= EmptyRow
      BY <3>1, TwoProcs, RowsApart DEF Spending, Ledger, Held, EmptyRow
    <3> QED BY <3>1 DEF Through
  <2>3. IsFiniteSet(Spending(r)) /\ IsFiniteSet(Through(r))
    BY <2>1, RebalanceConfig, FS_Subset
  <2>4. /\ IsFiniteSet(Spending(r) \union Through(r))
        /\ Cardinality(Spending(r) \union Through(r)) = s + d - Cardinality({})
    BY <2>2, <2>3, FS_Union
  <2>5. Cardinality(Spending(r) \union Through(r)) <= n
    BY <2>1, RebalanceConfig, FS_Subset
  <2>6. Cardinality({}) = 0
    BY FS_EmptySet
  <2> HIDE DEF s, d, n
  <2> QED BY <1>1, <2>4, <2>5, <2>6
<1>3. crashes \in Nat /\ sends[r] \in Nat /\ c \in Nat /\ c <= MintMaxAttempts
  <2>1. row[r] \in RowRecord /\ MintMaxAttempts \in Nat \ {0}
    BY RebalanceConfig DEF TypeOK, TableOK
  <2>2. /\ row[r].status \in InFlightStatuses => row[r].attempts < MintMaxAttempts
        /\ row[r].status = "none" => row[r].attempts = 0
    BY DEF Facts, RowFacts, Accurate, Ledger
  <2>3. row[r].attempts \in Nat /\ row[r].status \in Status
    BY <2>1 DEF RowRecord
  <2>4. row[r].status \in TerminalStatuses \union InFlightStatuses \union {"none"}
    BY <2>3 DEF TerminalStatuses, InFlightStatuses
  <2>5. c \in Nat /\ c <= MintMaxAttempts
    BY <2>1, <2>2, <2>3, <2>4 DEF Counted
  <2> QED BY <2>5 DEF TypeOK, ChainOK
<1>4. s + MintMaxAttempts * d <= MintMaxAttempts * n
  <2>1. MintMaxAttempts * 0 = 0 /\ (MintMaxAttempts - 1) * s \in Nat /\ MintMaxAttempts * n \in Nat
        /\ MintMaxAttempts * d \in Nat
    BY <1>1, RebalanceConfig
  <2> HIDE DEF s, d, n
  <2>2. s <= 0 + s /\ d + s <= n /\ 0 \in Nat
    BY <1>1, <1>2
  <2>3. s + MintMaxAttempts * d + (MintMaxAttempts - 1) * s <= 0 + MintMaxAttempts * n
    BY <1>1, <2>2, RebalanceConfig, Weight
  <2> QED BY <1>1, <2>1, <2>3
<1>5. MintMaxAttempts * (1 + n) = MintMaxAttempts + MintMaxAttempts * n
  <2> HIDE DEF n
  <2> QED BY <1>1, RebalanceConfig
<1> DEFINE o == Open(r)
           m == MintMaxAttempts * d
           t == MintMaxAttempts * n
<1>6. o \in {0, 1} /\ (sends[r] - o <= c + (s + m + crashes))
  BY DEF Ledger, Affordable, Settled, Open, Allowance
<1>7. o = 1 => copy[Worker][r].status = "minting"
  BY TwoProcs, RowsApart DEF Open, Ledger, Held
<1>8. row[r].status /= "minting" /\ o = 1 => sends[r] - o + 1 <= c + (s + m + crashes)
  BY <1>7 DEF Ledger, Affordable, Settled, Allowance
<1>9. row[r].status = "minting" => c < MintMaxAttempts
  BY DEF Facts, RowFacts, Accurate, InFlightStatuses, Status, TerminalStatuses, Counted
<1>10. m \in Nat /\ t \in Nat /\ s + m <= t /\ MintMaxAttempts \in Nat
  <2>1. m \in Nat /\ t \in Nat /\ MintMaxAttempts \in Nat
    <3> HIDE DEF d, n
    <3> QED BY <1>1, RebalanceConfig
  <2> QED BY <1>4, <2>1
<1> HIDE DEF s, d, n, c, o, m, t
<1>11. sends[r] <= MintMaxAttempts + t + crashes
  BY <1>1, <1>3, <1>6, <1>8, <1>9, <1>10
<1>12. MintMaxAttempts * (1 + n) = MintMaxAttempts + t
  BY <1>5 DEF t
<1> QED BY <1>11, <1>12 DEF n

\* CCTP_MINT_MAX_ATTEMPTS limits what a transfer costs, whatever the copies the
\* callers count from: while the database answers, each request adds at most one
\* round of mints to the worker's own, and each restart one mint.
THEOREM MintsLimited == Spec => []MintsBounded
<1> DEFINE Paid == "db" \notin Faults => Ledger
<1>1. Init => Paid
  BY InitLedger
<1>2. TypeOK /\ TypeOK' /\ Facts /\ Paid /\ [Next]_vars => Paid'
  BY NextLedger
<1>3. TypeOK /\ Facts /\ Paid => MintsBounded
  BY LedgerBounds DEF MintsBounded
<1> QED BY <1>1, <1>2, <1>3, TypeCorrect, FactsKept, PTL DEF Spec

=============================================================================
