------------------------- MODULE CctpRebalanceProofs -------------------------
(***************************************************************************)
(* Proofs about CctpRebalance for every set of rows and requests, every    *)
(* amount and every combination of faults.                                 *)
(***************************************************************************)
EXTENDS CctpProperties, FiniteSetTheorems, TLAPS

-----------------------------------------------------------------------------
(* The policy *)

\* The amount selected and the amount burned are integers.
LEMMA AmountTypes ==
  ASSUME NEW b \in Nat, NEW o \in Nat
  PROVE  SelectAmount(b, o) \in Int /\ BurnAmount(b, o) \in Int
BY PolicyConfig DEF SelectAmount, BurnAmount, Smaller, AvailableAboveBuffer, NoOverride

\* evaluateRebalancePolicy never authorises an amount that, with the fee on
\* top, would leave less than the safety buffer of the balance it was shown,
\* nor more than the chunk cap, nor nothing.
THEOREM EligibleAmountIsSafe ==
  ASSUME NEW seenBy, seenBy.base \in Nat, NEW gas, NEW mode, NEW o \in Nat,
         Eligible(seenBy, gas, mode, o)
  PROVE  /\ BurnAmount(seenBy.base, o) \in Nat \ {0}
         /\ BurnAmount(seenBy.base, o) <= MaxChunk
         /\ seenBy.base - BurnAmount(seenBy.base, o) - MaxFee >= BaseSafetyBuffer
BY PolicyConfig DEF Eligible, SelectAmount, BurnAmount, Smaller, AvailableAboveBuffer, NoOverride

-----------------------------------------------------------------------------
(* Type correctness *)

LEMMA InitTypeOK == Init => TypeOK
BY RebalanceConfig, PolicyConfig
DEF Init, TypeOK, TableOK, ChainOK, LocalsOK, EmptyRow, RowRecord, Status, Mode, Via,
    Unread, Readings, NoOverride, Locations, RowPlaces, StartPlaces, PollPlaces, MintPlaces

\* Going on to another place of the code with the same objects.
LEMMA StayKeepsLocals ==
  ASSUME LocalsOK, NEW p \in Proc, NEW place \in Locations, Stay(p, place),
         place \in RowPlaces => cur[p] \in Row
  PROVE  LocalsOK'
BY DEF LocalsOK, Stay, Goto

LEMMA HoldKeepsLocals ==
  ASSUME LocalsOK, NEW p \in Proc, NEW place \in Locations, NEW new \in RowRecord,
         Hold(p, new, place), cur[p] \in Row
  PROVE  LocalsOK'
BY DEF LocalsOK, Hold, Goto

LEMMA EmptyRowType == EmptyRow \in RowRecord
BY DEF EmptyRow, RowRecord, Status, Mode, Via

LEMMA StopKeepsLocals ==
  ASSUME LocalsOK, NEW p \in Proc, Stop(p)
  PROVE  LocalsOK'
<1>1. Unread \in Readings
  BY DEF Unread, Readings, NoOverride
<1>2. Rest(p) \in Locations /\ Rest(p) \notin RowPlaces
  BY DEF Rest, Locations, RowPlaces, StartPlaces, PollPlaces, MintPlaces
<1> QED
  BY <1>1, <1>2 DEF LocalsOK, Stop, Goto

LEMMA ReturnKeepsLocals ==
  ASSUME LocalsOK, NEW p \in Proc, Return(p)
  PROVE  LocalsOK'
<1>1. "next" \in Locations /\ "next" \notin RowPlaces
  BY DEF Locations, RowPlaces, StartPlaces, PollPlaces, MintPlaces
<1> QED
  BY <1>1, EmptyRowType DEF LocalsOK, Return, Goto

\* Whatever repo.transition answers, the row is left alone or takes the new
\* value from one of the statuses expected.
LEMMA TransitionEffect ==
  ASSUME NEW r, NEW from, NEW new,
         Transition(r, from, new) \/ TransitionFails(r, from, new)
  PROVE  row' = row \/ (row[r].status \in from /\ row' = [row EXCEPT ![r] = new])
BY DEF Transition, TransitionFails

LEMMA TransitionKeepsTable ==
  ASSUME row \in [Row -> RowRecord], NEW r \in Row, NEW from, NEW new \in RowRecord,
         Transition(r, from, new) \/ TransitionFails(r, from, new)
  PROVE  row' \in [Row -> RowRecord]
BY TransitionEffect

LEMMA PlacesKnown ==
  /\ RowPlaces \subseteq Locations
  /\ StartPlaces \subseteq RowPlaces
  /\ PollPlaces \subseteq RowPlaces
  /\ MintPlaces \subseteq RowPlaces
BY DEF Locations, RowPlaces

\* The statuses a compare-and-set writes are statuses, and the record keeps
\* its type.
LEMMA NewStatusType ==
  ASSUME NEW old \in RowRecord, NEW status \in Status
  PROVE  [old EXCEPT !.status = status] \in RowRecord
BY DEF RowRecord

\* The inserted row is well typed: the policy lets only a positive amount by.
LEMMA InsertKeepsTable ==
  ASSUME TypeOK, NEW p \in Proc, NEW r \in Row, Insert(p, r)
  PROVE  row' \in [Row -> RowRecord]
<1> DEFINE amount == BurnAmount(seen[p].base, seen[p].override)
<1>1. PICK mode \in Modes, gas \in Gas, starved \in BOOLEAN :
        PolicyAllows(p, mode, gas, starved) /\ row' = [row EXCEPT ![r] = NewRow(amount, mode)]
  BY DEF Insert
<1>2. mode \in Mode
  BY DEF Modes, Mode
<1>3. seen[p].base \in Nat /\ seen[p].override \in Nat
  BY DEF TypeOK, LocalsOK, Readings
<1>4. PolicyView(p, starved).base = seen[p].base
  BY DEF PolicyView
<1>5. amount > 0
  BY <1>1, <1>4 DEF PolicyAllows, Eligible
<1>6. amount \in Nat
  BY <1>3, <1>5, AmountTypes
<1>7. NewRow(amount, mode) \in RowRecord
  BY <1>2, <1>6, EmptyRowType DEF NewRow, RowRecord, Status
<1> QED
  BY <1>1, <1>7 DEF TypeOK, TableOK

\* Reading, deciding, creating, approving and burning.
LEMMA StartStepTypes ==
  ASSUME TypeOK, NEW p \in Proc, StartStep(p)
  PROVE  TypeOK'
<1> USE DEF TypeOK
<1>s. \A s \in {"pending", "approving", "burning", "awaiting_attestation", "failed"} :
        s \in Status
  BY DEF Status
<1>r. ASSUME pc[p] \in StartPlaces
      PROVE  cur[p] \in Row /\ row[cur[p]] \in RowRecord /\ Coverage(cur[p]) \in Nat
  BY <1>r, PlacesKnown, PolicyConfig DEF LocalsOK, TableOK, Coverage, RowRecord
<1>1. CASE ReadBalances(p) \/ CountInFlight(p) \/ ReadLastBurn(p)
  <2>1. Cardinality(InFlight) \in Nat
    <3>1. IsFiniteSet(Row) /\ InFlight \subseteq Row
      BY RebalanceConfig DEF InFlight
    <3>2. IsFiniteSet(InFlight)
      BY <3>1, FS_Subset
    <3> QED
      BY <3>2, FS_CardinalityType
  <2>2. \A value \in BOOLEAN : [seen[p] EXCEPT !.cooling = value] \in Readings
    BY DEF LocalsOK, Readings
  <2>3. CASE ReadBalances(p)
    BY <2>3 DEF ReadBalances, table, chain, LocalsOK, TableOK, ChainOK, Readings, Goto,
                Locations, RowPlaces, StartPlaces, PollPlaces, MintPlaces
  <2>4. CASE CountInFlight(p)
    BY <2>1, <2>4 DEF CountInFlight, table, chain, LocalsOK, TableOK, ChainOK, Readings, Goto,
                      Locations, RowPlaces, StartPlaces, PollPlaces, MintPlaces
  <2>5. CASE ReadLastBurn(p)
    <3>1. PICK value \in BOOLEAN : seen' = [seen EXCEPT ![p] = [@ EXCEPT !.cooling = value]]
      BY <2>5 DEF ReadLastBurn
    <3>2. seen' \in [Proc -> Readings]
      BY <2>2, <3>1 DEF LocalsOK
    <3> QED
      BY <2>5, <3>2 DEF ReadLastBurn, table, chain, LocalsOK, TableOK, ChainOK, Goto,
                        Locations, RowPlaces, StartPlaces, PollPlaces, MintPlaces
  <2> QED
    BY <1>1, <2>3, <2>4, <2>5
<1>2. CASE ReadFails(p) \/ Skip(p)
  BY <1>2, StopKeepsLocals DEF ReadFails, Skip, table, chain, TableOK, ChainOK
<1>3. CASE Create(p)
  <2>1. PICK r \in Row : Insert(p, r) /\ cur' = [cur EXCEPT ![p] = r]
    BY <1>3 DEF Create
  <2>2. row' \in [Row -> RowRecord]
    BY <2>1, InsertKeepsTable
  <2>3. pc' = [pc EXCEPT ![p] = "begin"] /\ "begin" \in Locations
    BY <1>3 DEF Create, Goto, Locations, RowPlaces, StartPlaces
  <2> QED
    BY <1>3, <2>1, <2>2, <2>3 DEF Create, chain, LocalsOK, TableOK, ChainOK
<1>12. CASE CreateFails(p)
  <2>1. PICK r \in Row : Insert(p, r)
    BY <1>12 DEF CreateFails
  <2>2. row' \in [Row -> RowRecord]
    BY <2>1, InsertKeepsTable
  <2> QED
    BY <1>12, <2>2, StopKeepsLocals DEF CreateFails, chain, TableOK, ChainOK
<1>4. CASE Begin(p)
  <2>1. cur[p] \in Row /\ row[cur[p]] \in RowRecord
    BY <1>4, <1>r DEF Begin, StartPlaces
  <2>2. row' \in [Row -> RowRecord]
    BY <1>4, <2>1, <1>s, NewStatusType, TransitionKeepsTable DEF Begin, TableOK
  <2>3. LocalsOK'
    BY <1>4, <2>1, StayKeepsLocals, StopKeepsLocals, PlacesKnown DEF Begin, StartPlaces
  <2> QED
    BY <1>4, <2>2, <2>3 DEF Begin, chain, TableOK, ChainOK
<1>5. CASE ReadAllowance(p)
  <2>1. cur[p] \in Row
    BY <1>5, <1>r DEF ReadAllowance, StartPlaces
  <2>2. LocalsOK'
    BY <1>5, <2>1, StayKeepsLocals, PlacesKnown DEF ReadAllowance, StartPlaces
  <2> QED
    BY <1>5, <2>2 DEF ReadAllowance, table, chain, TableOK, ChainOK
<1>6. CASE Approve(p)
  <2>1. cur[p] \in Row /\ Coverage(cur[p]) \in Nat
    BY <1>6, <1>r DEF Approve, StartPlaces
  <2>2. LocalsOK'
    BY <1>6, <2>1, StayKeepsLocals, PlacesKnown DEF Approve, StartPlaces
  <2> QED
    BY <1>6, <2>1, <2>2 DEF Approve, table, TableOK, ChainOK
<1>7. CASE ToBurning(p)
  <2>1. cur[p] \in Row /\ row[cur[p]] \in RowRecord
    BY <1>7, <1>r DEF ToBurning, StartPlaces
  <2>2. row' \in [Row -> RowRecord]
    BY <1>7, <2>1, <1>s, NewStatusType, TransitionKeepsTable DEF ToBurning, TableOK
  <2>3. LocalsOK'
    BY <1>7, <2>1, StayKeepsLocals, StopKeepsLocals, PlacesKnown DEF ToBurning, StartPlaces
  <2> QED
    BY <1>7, <2>2, <2>3 DEF ToBurning, chain, TableOK, ChainOK
<1>8. CASE SendBurn(p)
  <2>1. cur[p] \in Row
    BY <1>8, <1>r DEF SendBurn, StartPlaces
  <2>2. LocalsOK'
    BY <1>8, <2>1, StayKeepsLocals, PlacesKnown DEF SendBurn, StartPlaces
  <2> QED
    BY <1>8, <2>2 DEF SendBurn, table, TableOK, ChainOK
<1>9. CASE BurnNotSent(p) \/ BurnConfirmed(p) \/ BurnThrows(p)
  <2>1. cur[p] \in Row
    BY <1>9, <1>r DEF BurnNotSent, BurnConfirmed, BurnThrows, StartPlaces
  <2>2. LocalsOK'
    BY <1>9, <2>1, StayKeepsLocals, PlacesKnown
    DEF BurnNotSent, BurnConfirmed, BurnThrows, StartPlaces
  <2> QED
    BY <1>9, <2>2 DEF BurnNotSent, BurnConfirmed, BurnThrows, table, chain, TableOK, ChainOK
<1>10. CASE RecordBurn(p)
  <2> DEFINE new == [row[cur[p]] EXCEPT !.status = "awaiting_attestation", !.hash = TRUE]
  <2>1. cur[p] \in Row /\ row[cur[p]] \in RowRecord
    BY <1>10, <1>r DEF RecordBurn, StartPlaces
  <2>2. new \in RowRecord
    BY <2>1, <1>s DEF RowRecord
  <2>3. row' \in [Row -> RowRecord]
    BY <1>10, <2>1, <2>2, TransitionKeepsTable DEF RecordBurn, TableOK
  <2> QED
    BY <1>10, <2>1, <2>3, StopKeepsLocals DEF RecordBurn, chain, TableOK, ChainOK
<1>11. CASE FailStart(p)
  <2>1. cur[p] \in Row /\ row[cur[p]] \in RowRecord
    BY <1>11, <1>r DEF FailStart, StartPlaces
  <2>2. row' \in [Row -> RowRecord]
    BY <1>11, <2>1, <1>s, NewStatusType, TransitionKeepsTable DEF FailStart, TableOK
  <2> QED
    BY <1>11, <2>2, StopKeepsLocals DEF FailStart, chain, TableOK, ChainOK
<1> QED
  BY <1>1, <1>2, <1>3, <1>4, <1>5, <1>6, <1>7, <1>8, <1>9, <1>10, <1>11, <1>12
  DEF StartStep

\* A row object a process holds.
LEMMA CopyTypes ==
  ASSUME TypeOK, NEW p \in Proc, pc[p] \in RowPlaces
  PROVE  /\ cur[p] \in Row
         /\ row[cur[p]] \in RowRecord
         /\ copy[p][cur[p]] \in RowRecord
         /\ Attempt(p) \in Nat
BY DEF TypeOK, LocalsOK, TableOK, RowRecord, Attempt

\* The place a listed row is taken up at.
LEMMA PlaceForKnown ==
  ASSUME NEW old
  PROVE  PlaceFor(old) \in RowPlaces /\ PlaceFor(old) \in Locations
BY PlacesKnown DEF PlaceFor, PollPlaces, MintPlaces

\* The worker and the resume route advancing the rows of their list.
LEMMA ResumeStepTypes ==
  ASSUME TypeOK, NEW p \in Proc, ResumeStep(p)
  PROVE  TypeOK'
<1> USE DEF TypeOK
<1>s. \A s \in {"awaiting_attestation", "minting", "minted", "stuck"} : s \in Status
  BY DEF Status
<1>p. /\ \A place \in {"unstick", "poll", "accept_forward", "mark_stuck", "to_minting",
                         "reread", "send_mint"} : place \in RowPlaces /\ place \in Locations
      /\ \A place \in {"next", "list", "balances"} : place \in Locations /\ place \notin RowPlaces
  BY PlacesKnown DEF PollPlaces, MintPlaces, StartPlaces, RowPlaces, Locations
<1>1. CASE List(p)
  <2> DEFINE listed == [r \in Row |-> IF r \in Resumable THEN row[r] ELSE EmptyRow]
  <2>0. listed \in [Row -> RowRecord]
    BY EmptyRowType DEF TableOK
  <2>1. copy' \in [Proc -> [Row -> RowRecord]]
    <3>1. copy' = [copy EXCEPT ![p] = listed] \/ copy' = copy
      BY <1>1 DEF List
    <3> HIDE DEF listed
    <3> QED
      BY <2>0, <3>1 DEF LocalsOK
  <2> QED
    BY <1>1, <1>p, <2>1 DEF List, Goto, table, chain, LocalsOK, TableOK, ChainOK
<1>2. CASE EndResume(p)
  <2>1. LocalsOK'
    BY <1>2, <1>p, StopKeepsLocals DEF EndResume, Goto, LocalsOK
  <2> QED
    BY <1>2, <2>1 DEF EndResume, table, chain, TableOK, ChainOK
<1>3. CASE NextRow(p)
  <2>1. PICK r \in Row : /\ copy[p][r] /= EmptyRow
                         /\ cur' = [cur EXCEPT ![p] = r]
                         /\ Goto(p, PlaceFor(copy[p][r]))
    BY <1>3 DEF NextRow
  <2>2. LocalsOK'
    BY <1>3, <2>1, PlaceForKnown DEF NextRow, Goto, LocalsOK
  <2> QED
    BY <1>3, <2>2 DEF NextRow, table, chain, TableOK, ChainOK
<1>4. CASE Unstick(p)
  <2> DEFINE new == [row[cur[p]] EXCEPT !.status = "awaiting_attestation"]
  <2>1. cur[p] \in Row /\ row[cur[p]] \in RowRecord
    BY <1>4, <1>p, CopyTypes DEF Unstick
  <2>2. new \in RowRecord
    BY <2>1, <1>s, NewStatusType
  <2>3. row' \in [Row -> RowRecord]
    BY <1>4, <2>1, <2>2, TransitionKeepsTable DEF Unstick, TableOK
  <2>4. PlaceFor(new) \in Locations
    BY PlaceForKnown
  <2>5. LocalsOK'
    BY <1>4, <2>1, <2>2, <2>4, HoldKeepsLocals, ReturnKeepsLocals DEF Unstick
  <2> QED
    BY <1>4, <2>3, <2>5 DEF Unstick, chain, TableOK, ChainOK
<1>5. CASE PollForwarded(p) \/ PollComplete(p) \/ PollTimeout(p)
  <2>1. cur[p] \in Row
    BY <1>5, <1>p, CopyTypes DEF PollForwarded, PollComplete, PollTimeout
  <2>2. LocalsOK'
    BY <1>5, <1>p, <2>1, StayKeepsLocals DEF PollForwarded, PollComplete, PollTimeout
  <2> QED
    BY <1>5, <2>2 DEF PollForwarded, PollComplete, PollTimeout, table, chain, TableOK, ChainOK
<1>6. CASE MarkStuck(p)
  <2>1. cur[p] \in Row /\ row[cur[p]] \in RowRecord
    BY <1>6, <1>p, CopyTypes DEF MarkStuck
  <2>2. row' \in [Row -> RowRecord]
    BY <1>6, <2>1, <1>s, NewStatusType, TransitionKeepsTable DEF MarkStuck, TableOK
  <2> QED
    BY <1>6, <2>2, ReturnKeepsLocals DEF MarkStuck, chain, TableOK, ChainOK
<1>7. CASE AcceptForward(p)
  <2> DEFINE known == row[cur[p]].message \/ cur[p] \in attested
  <2> DEFINE new == [row[cur[p]] EXCEPT !.status = "minted", !.via = "forwarding",
                                        !.message = known]
  <2>1. cur[p] \in Row /\ row[cur[p]] \in RowRecord
    BY <1>7, <1>p, CopyTypes DEF AcceptForward
  <2>2. new \in RowRecord
    <3>1. known \in BOOLEAN
      OBVIOUS
    <3>2. \A value \in BOOLEAN :
            [row[cur[p]] EXCEPT !.status = "minted", !.via = "forwarding", !.message = value]
              \in RowRecord
      BY <2>1, <1>s DEF RowRecord, Via
    <3> HIDE DEF known
    <3> QED
      BY <3>1, <3>2
  <2>3. row' \in [Row -> RowRecord]
    BY <1>7, <2>1, <2>2, TransitionKeepsTable DEF AcceptForward, TableOK
  <2> QED
    BY <1>7, <2>3, ReturnKeepsLocals DEF AcceptForward, chain, TableOK, ChainOK
<1>8. CASE ToMinting(p)
  <2> DEFINE new == [row[cur[p]] EXCEPT !.status = "minting", !.message = TRUE]
  <2>1. cur[p] \in Row /\ row[cur[p]] \in RowRecord
    BY <1>8, <1>p, CopyTypes DEF ToMinting
  <2>2. new \in RowRecord
    BY <2>1, <1>s DEF RowRecord
  <2>3. row' \in [Row -> RowRecord]
    BY <1>8, <2>1, <2>2, TransitionKeepsTable DEF ToMinting, TableOK
  <2>4. LocalsOK'
    BY <1>8, <1>p, <2>1, <2>2, HoldKeepsLocals, StayKeepsLocals DEF ToMinting
  <2> QED
    BY <1>8, <2>3, <2>4 DEF ToMinting, chain, TableOK, ChainOK
<1>9. CASE Reread(p)
  <2>1. cur[p] \in Row /\ row[cur[p]] \in RowRecord
    BY <1>9, <1>p, CopyTypes DEF Reread
  <2>2. LocalsOK'
    BY <1>9, <1>p, <2>1, HoldKeepsLocals, ReturnKeepsLocals DEF Reread
  <2> QED
    BY <1>9, <2>2 DEF Reread, table, chain, TableOK, ChainOK
<1> QED
  BY <1>1, <1>2, <1>3, <1>4, <1>5, <1>6, <1>7, <1>8, <1>9 DEF ResumeStep

\* receiveMessage and what its outcome makes of the row.
LEMMA MintStepTypes ==
  ASSUME TypeOK, NEW p \in Proc, MintStep(p)
  PROVE  TypeOK'
<1> USE DEF TypeOK
<1>s. \A s \in {"minted", "stuck", "failed"} : s \in Status
  BY DEF Status
<1>v. "direct" \in Via /\ "nonce_used" \in Via
  BY DEF Via
<1>p. \A place \in {"send_mint", "mint_receipt", "record_mint", "treat_as_minted", "fail_mint",
                     "retry_later"} : place \in RowPlaces /\ place \in Locations
  BY PlacesKnown DEF MintPlaces
<1>e. \A retryable \in BOOLEAN : PlaceAfterError(p, retryable) \in {"fail_mint", "retry_later"}
  BY DEF PlaceAfterError
<1>1. CASE SendMint(p)
  <2>1. cur[p] \in Row
    BY <1>1, <1>p, CopyTypes DEF SendMint
  <2>2. LocalsOK'
    BY <1>1, <1>p, <2>1, StayKeepsLocals DEF SendMint
  <2>3. pool' \in [Row -> SUBSET Proc]
    BY <1>1, <2>1 DEF SendMint, ChainOK
  <2> QED
    BY <1>1, <2>2, <2>3 DEF SendMint, table, TableOK, ChainOK
<1>2. CASE MintNotSent(p) \/ MintConfirmed(p) \/ MintReverted(p)
  <2>1. cur[p] \in Row
    BY <1>2, <1>p, CopyTypes DEF MintNotSent, MintConfirmed, MintReverted
  <2>2. LocalsOK'
    BY <1>2, <1>p, <1>e, <2>1, StayKeepsLocals DEF MintNotSent, MintConfirmed, MintReverted
  <2> QED
    BY <1>2, <2>2 DEF MintNotSent, MintConfirmed, MintReverted, table, chain, TableOK, ChainOK
<1>3. CASE MintTimesOut(p)
  <2>1. cur[p] \in Row
    BY <1>3, <1>p, CopyTypes DEF MintTimesOut
  <2>2. LocalsOK'
    BY <1>3, <1>p, <1>e, <2>1, StayKeepsLocals DEF MintTimesOut
  <2>3. pool' \in [Row -> SUBSET Proc] /\ loose' \subseteq Row
    BY <1>3, <2>1 DEF MintTimesOut, ChainOK
  <2> QED
    BY <1>3, <2>2, <2>3 DEF MintTimesOut, table, TableOK, ChainOK
<1>4. CASE RecordMint(p)
  <2> DEFINE new == [row[cur[p]] EXCEPT !.status = "minted", !.via = "direct",
                                        !.attempts = Attempt(p)]
  <2>1. cur[p] \in Row /\ row[cur[p]] \in RowRecord /\ Attempt(p) \in Nat
    BY <1>4, <1>p, CopyTypes DEF RecordMint
  <2>2. new \in RowRecord
    BY <2>1, <1>s, <1>v DEF RowRecord
  <2>3. row' \in [Row -> RowRecord]
    BY <1>4, <2>1, <2>2, TransitionKeepsTable DEF RecordMint, TableOK
  <2> QED
    BY <1>4, <2>3, ReturnKeepsLocals DEF RecordMint, chain, TableOK, ChainOK
<1>5. CASE TreatAsMinted(p)
  <2> DEFINE new == [row[cur[p]] EXCEPT !.status = "minted", !.via = "nonce_used",
                                        !.attempts = Attempt(p)]
  <2>1. cur[p] \in Row /\ row[cur[p]] \in RowRecord /\ Attempt(p) \in Nat
    BY <1>5, <1>p, CopyTypes DEF TreatAsMinted
  <2>2. new \in RowRecord
    BY <2>1, <1>s, <1>v DEF RowRecord
  <2>3. row' \in [Row -> RowRecord]
    BY <1>5, <2>1, <2>2, TransitionKeepsTable DEF TreatAsMinted, TableOK
  <2>4. LocalsOK'
    BY <1>5, <1>p, <2>1, ReturnKeepsLocals, StayKeepsLocals DEF TreatAsMinted
  <2> QED
    BY <1>5, <2>3, <2>4 DEF TreatAsMinted, chain, TableOK, ChainOK
<1>6. CASE FailMint(p)
  <2>1. cur[p] \in Row /\ row[cur[p]] \in RowRecord
    BY <1>6, <1>p, CopyTypes DEF FailMint
  <2>2. row' \in [Row -> RowRecord]
    BY <1>6, <2>1, <1>s, NewStatusType, TransitionKeepsTable DEF FailMint, TableOK
  <2> QED
    BY <1>6, <2>2, ReturnKeepsLocals DEF FailMint, chain, TableOK, ChainOK
<1>7. CASE RetryLater(p)
  <2> DEFINE new == [row[cur[p]] EXCEPT !.status = "stuck", !.attempts = Attempt(p)]
  <2>1. cur[p] \in Row /\ row[cur[p]] \in RowRecord /\ Attempt(p) \in Nat
    BY <1>7, <1>p, CopyTypes DEF RetryLater
  <2>2. new \in RowRecord
    BY <2>1, <1>s DEF RowRecord
  <2>3. row' \in [Row -> RowRecord]
    BY <1>7, <2>1, <2>2, TransitionKeepsTable DEF RetryLater, TableOK
  <2> QED
    BY <1>7, <2>3, ReturnKeepsLocals DEF RetryLater, chain, TableOK, ChainOK
<1> QED
  BY <1>1, <1>2, <1>3, <1>4, <1>5, <1>6, <1>7 DEF MintStep

\* The chains, Iris and the passing of time.
LEMMA ChainStepTypes ==
  ASSUME TypeOK, NEW r \in Row, ChainStep(r) \/ CooldownElapses(r)
  PROVE  TypeOK'
<1> USE DEF TypeOK
<1>1. row[r].amount \in Nat
  BY DEF TableOK, RowRecord
<1>2. CASE MineBurn(r)
  <2>1. TableOK' /\ LocalsOK' /\ crashes' \in Nat
    BY <1>2 DEF MineBurn, table, locals, TableOK, LocalsOK
  <2>2. base' \in Nat /\ allowance' \in Nat
    BY <1>1, <1>2 DEF MineBurn, ChainOK
  <2>3. burn' \in [Row -> {"none", "sent", "done", "reverted"}]
    BY <1>2 DEF MineBurn, ChainOK
  <2> QED
    BY <1>2, <2>1, <2>2, <2>3 DEF MineBurn, ChainOK
<1>3. CASE Attest(r) \/ Forward(r) \/ MineLoose(r)
  BY <1>3 DEF Attest, Forward, MineLoose, table, locals, TableOK, ChainOK, LocalsOK
<1>4. ASSUME NEW p \in Proc, MineMint(r, p)
      PROVE  TypeOK'
  BY <1>4 DEF MineMint, table, TableOK, ChainOK, LocalsOK
<1>5. CASE CooldownElapses(r)
  BY <1>5 DEF CooldownElapses, chain, locals, TableOK, ChainOK, LocalsOK
<1> QED
  BY <1>2, <1>3, <1>4, <1>5 DEF ChainStep

\* The start of a call, and a restart.
LEMMA CallStepTypes ==
  ASSUME TypeOK, StartCycle \/ Crash \/ \E p \in Route : StartForce(p) \/ StartResume(p)
  PROVE  TypeOK'
<1> USE DEF TypeOK
<1>p. \A place \in {"list", "balances", "idle", "answered"} :
        place \in Locations /\ place \notin RowPlaces
  BY DEF Locations, RowPlaces, StartPlaces, PollPlaces, MintPlaces
<1>w. Worker \in Proc /\ Route \subseteq Proc
  BY DEF Proc
<1>1. CASE StartCycle
  BY <1>1, <1>p, <1>w DEF StartCycle, table, chain, TableOK, ChainOK, LocalsOK
<1>2. ASSUME NEW p \in Route, StartForce(p)
      PROVE  TypeOK'
  <2>1. PICK amount \in Overrides \union {NoOverride} :
          seen' = [seen EXCEPT ![p].override = amount]
    BY <1>2 DEF StartForce
  <2>2. amount \in Nat
    BY <2>1, RebalanceConfig DEF NoOverride
  <2>3. seen' \in [Proc -> Readings]
    BY <1>w, <2>1, <2>2 DEF LocalsOK, Readings
  <2> QED
    BY <1>2, <1>p, <1>w, <2>3 DEF StartForce, Goto, table, chain, TableOK, ChainOK, LocalsOK
<1>3. ASSUME NEW p \in Route, StartResume(p)
      PROVE  TypeOK'
  BY <1>3, <1>p, <1>w DEF StartResume, Goto, table, chain, TableOK, ChainOK, LocalsOK
<1>4. CASE Crash
  <2>1. Unread \in Readings
    BY DEF Unread, Readings, NoOverride
  <2>2. \A p \in Proc : pc'[p] \in {"idle", "answered"}
    BY <1>4 DEF Crash, Rest
  <2>3. pc' \in [Proc -> Locations]
    BY <1>4, <1>p, <2>2 DEF Crash
  <2>4. LocalsOK'
    BY <1>4, <1>p, <2>1, <2>2, <2>3, EmptyRowType DEF Crash, LocalsOK
  <2> QED
    BY <1>4, <2>4 DEF Crash, table, TableOK, ChainOK
<1> QED
  BY <1>1, <1>2, <1>3, <1>4

\* Nothing happens.
LEMMA StutterTypes ==
  ASSUME TypeOK, UNCHANGED vars
  PROVE  TypeOK'
BY DEF TypeOK, TableOK, ChainOK, LocalsOK, vars, table, chain, locals

\* The table, the chains and every process stay well typed; a process at a step
\* on a row has that row, and no amount or counter sinks below zero.
THEOREM TypeCorrect == Spec => []TypeOK
<1>1. TypeOK /\ [Next]_vars => TypeOK'
  BY StartStepTypes, ResumeStepTypes, MintStepTypes, ChainStepTypes, CallStepTypes,
     StutterTypes
  DEF Next, ProcessStep
<1> QED
  BY <1>1, InitTypeOK, PTL DEF Spec

-----------------------------------------------------------------------------
(* The limit of transfers in flight *)

\* Callers whose stale count still lets them create a transfer.
Permits ==
  {p \in Proc : pc[p] \in {"last_burn", "decide"} /\ seen[p].inFlight < MaxInFlight}

\* The inductive invariant behind InFlightBounded: a permit is as good as a
\* transfer in flight.  A permit is given only below the limit, when at most
\* every process holds one; creating a transfer uses it up.
FlightInv == Cardinality(InFlight) + Cardinality(Permits) <= MaxInFlight + Cardinality(Route)

LEMMA FlightFinite ==
  /\ IsFiniteSet(InFlight) /\ IsFiniteSet(InFlight')
  /\ IsFiniteSet(Permits) /\ IsFiniteSet(Permits')
  /\ Cardinality(InFlight) \in Nat /\ Cardinality(InFlight') \in Nat
  /\ Cardinality(Permits) \in Nat /\ Cardinality(Permits') \in Nat
  /\ IsFiniteSet(Proc) /\ Cardinality(Route) \in Nat
  /\ Cardinality(Proc) = Cardinality(Route) + 1
<1>1. InFlight \subseteq Row /\ InFlight' \subseteq Row
  BY DEF InFlight
<1>2. Proc = Route \union {Worker}
  BY DEF Proc
<1>3. /\ IsFiniteSet(Proc)
      /\ Cardinality(Proc) = Cardinality(Route) + 1
  BY <1>2, RebalanceConfig, FS_AddElement
<1>4. Permits \subseteq Proc /\ Permits' \subseteq Proc
  BY DEF Permits
<1>5. /\ IsFiniteSet(InFlight) /\ IsFiniteSet(InFlight')
      /\ IsFiniteSet(Permits) /\ IsFiniteSet(Permits')
  BY <1>1, <1>3, <1>4, RebalanceConfig, FS_Subset
<1> QED
  BY <1>3, <1>5, RebalanceConfig, FS_CardinalityType

\* Fewer transfers and fewer permits keep the bound.
LEMMA FewerIsFine ==
  ASSUME FlightInv, InFlight' \subseteq InFlight, Permits' \subseteq Permits
  PROVE  FlightInv'
<1>1. Cardinality(InFlight') <= Cardinality(InFlight)
  BY FlightFinite, FS_Subset
<1>2. Cardinality(Permits') <= Cardinality(Permits)
  BY FlightFinite, FS_Subset
<1> QED
  BY <1>1, <1>2, FlightFinite, PolicyConfig DEF FlightInv

\* A compare-and-set from an in-flight status puts no row in flight.
LEMMA TransitionAddsNone ==
  ASSUME TypeOK, NEW r, NEW from, NEW new, from \subseteq InFlightStatuses,
         Transition(r, from, new) \/ TransitionFails(r, from, new)
  PROVE  InFlight' \subseteq InFlight
<1>1. CASE row' = row
  BY <1>1 DEF InFlight
<1>2. CASE row[r].status \in from /\ row' = [row EXCEPT ![r] = new]
  BY <1>2 DEF InFlight, TypeOK, TableOK
<1> QED
  BY <1>1, <1>2, TransitionEffect

\* A process that goes anywhere but to its decision has no permit afterwards.
LEMMA NoPermitElsewhere ==
  ASSUME TypeOK, NEW p \in Proc, NEW place, place \notin {"last_burn", "decide"},
         Goto(p, place), \A q \in Proc \ {p} : seen'[q] = seen[q]
  PROVE  Permits' \subseteq Permits /\ p \notin Permits'
BY DEF Permits, Goto, TypeOK, LocalsOK

LEMMA StayLosesPermit ==
  ASSUME TypeOK, NEW p \in Proc, NEW place, place \notin {"last_burn", "decide"},
         Stay(p, place)
  PROVE  Permits' \subseteq Permits /\ p \notin Permits'
BY NoPermitElsewhere DEF Stay

LEMMA HoldLosesPermit ==
  ASSUME TypeOK, NEW p \in Proc, NEW place, place \notin {"last_burn", "decide"}, NEW new,
         Hold(p, new, place)
  PROVE  Permits' \subseteq Permits /\ p \notin Permits'
BY NoPermitElsewhere DEF Hold

LEMMA EndLosesPermit ==
  ASSUME TypeOK, NEW p \in Proc, Stop(p) \/ Return(p)
  PROVE  Permits' \subseteq Permits /\ p \notin Permits'
<1>1. Rest(p) \notin {"last_burn", "decide"} /\ "next" \notin {"last_burn", "decide"}
  BY DEF Rest
<1>2. \A q \in Proc \ {p} : seen'[q] = seen[q]
  BY DEF Stop, Return, TypeOK, LocalsOK
<1> QED
  BY <1>1, <1>2, NoPermitElsewhere DEF Stop, Return

LEMMA RowsSame == ASSUME UNCHANGED row PROVE InFlight' = InFlight
BY DEF InFlight

LEMMA LocalsSame ==
  ASSUME pc' = pc, seen' = seen
  PROVE  Permits' = Permits
BY DEF Permits

\* Counting hands out a permit only below the limit.
LEMMA CountingIsBounded ==
  ASSUME TypeOK, FlightInv, NEW p \in Proc, CountInFlight(p)
  PROVE  FlightInv'
<1>1. InFlight' = InFlight
  BY RowsSame DEF CountInFlight, table
<1>2. /\ pc' = [pc EXCEPT ![p] = "last_burn"]
      /\ seen' = [seen EXCEPT ![p].inFlight = Cardinality(InFlight)]
  BY DEF CountInFlight, Goto
<1>3. CASE Cardinality(InFlight) < MaxInFlight
  <2>1. Permits' \subseteq Proc
    BY DEF Permits
  <2>2. Cardinality(Permits') <= Cardinality(Route) + 1
    BY <2>1, FlightFinite, FS_Subset
  <2> QED
    BY <1>1, <1>3, <2>2, FlightFinite, PolicyConfig DEF FlightInv
<1>4. CASE ~(Cardinality(InFlight) < MaxInFlight)
  <2>1. Permits' \subseteq Permits
    BY <1>2, <1>4 DEF Permits, TypeOK, LocalsOK, Readings
  <2> QED
    BY <1>1, <2>1, FewerIsFine
<1> QED
  BY <1>3, <1>4

\* Creating a transfer costs the permit it was created with.
LEMMA CreatingIsPaid ==
  ASSUME TypeOK, FlightInv, NEW p \in Proc, pc[p] = "decide", NEW r \in Row, Insert(p, r),
         Permits' \subseteq Permits, p \notin Permits'
  PROVE  FlightInv'
<1>1. p \in Permits
  <2>1. PICK mode \in Modes, gas \in Gas, starved \in BOOLEAN : PolicyAllows(p, mode, gas, starved)
    BY DEF Insert
  <2>2. PolicyView(p, starved).inFlight < MaxInFlight
    BY <2>1 DEF PolicyAllows, Eligible
  <2>3. seen[p].inFlight < MaxInFlight
    BY <2>2 DEF PolicyView
  <2> QED
    BY <2>3 DEF Permits
<1>2. InFlight' = InFlight \union {r} /\ r \notin InFlight
  BY DEF Insert, InFlight, InFlightStatuses, Status, NewRow, EmptyRow, TypeOK, TableOK
<1>3. Cardinality(InFlight') = Cardinality(InFlight) + 1
  BY <1>2, FlightFinite, FS_AddElement
<1>4. Cardinality(Permits') <= Cardinality(Permits) - 1
  <2>1. /\ IsFiniteSet(Permits' \union {p})
        /\ Cardinality(Permits' \union {p}) = Cardinality(Permits') + 1
    BY FlightFinite, FS_AddElement
  <2>2. Permits' \union {p} \subseteq Permits
    BY <1>1
  <2>3. Cardinality(Permits' \union {p}) <= Cardinality(Permits)
    BY <2>2, FlightFinite, FS_Subset
  <2> QED
    BY <2>1, <2>3, FlightFinite
<1> QED
  BY <1>3, <1>4, FlightFinite, PolicyConfig DEF FlightInv

\* Reading, deciding, creating, approving and burning.
LEMMA StartStepFlight ==
  ASSUME TypeOK, FlightInv, NEW p \in Proc, StartStep(p)
  PROVE  FlightInv'
<1>s. {"pending"} \subseteq InFlightStatuses /\ {"approving"} \subseteq InFlightStatuses
      /\ {"burning"} \subseteq InFlightStatuses /\ {"approving", "burning"} \subseteq InFlightStatuses
  BY DEF InFlightStatuses, Status
<1>1. CASE ReadBalances(p)
  <2>1. Permits' \subseteq Permits
    <3>1. \A q \in Proc \ {p} : seen'[q] = seen[q]
      BY <1>1 DEF ReadBalances, TypeOK, LocalsOK
    <3> QED
      BY <1>1, <3>1, NoPermitElsewhere DEF ReadBalances
  <2> QED
    BY <1>1, <2>1, RowsSame, FewerIsFine DEF ReadBalances, table
<1>2. CASE CountInFlight(p)
  BY <1>2, CountingIsBounded
<1>3. CASE ReadLastBurn(p)
  <2>1. \A q \in Proc : seen'[q].inFlight = seen[q].inFlight
    BY <1>3 DEF ReadLastBurn, TypeOK, LocalsOK, Readings
  <2>2. Permits' \subseteq Permits
    BY <1>3, <2>1 DEF ReadLastBurn, Goto, Permits, TypeOK, LocalsOK
  <2> QED
    BY <1>3, <2>2, RowsSame, FewerIsFine DEF ReadLastBurn, table
<1>4. CASE ReadFails(p) \/ Skip(p)
  BY <1>4, StayLosesPermit, HoldLosesPermit, EndLosesPermit, RowsSame, FewerIsFine DEF ReadFails, Skip, table
<1>5. CASE Create(p)
  <2>1. \A q \in Proc \ {p} : seen'[q] = seen[q]
    BY <1>5 DEF Create
  <2>2. Permits' \subseteq Permits /\ p \notin Permits'
    BY <1>5, <2>1, NoPermitElsewhere DEF Create
  <2> QED
    BY <1>5, <2>2, CreatingIsPaid DEF Create
<1>6. CASE CreateFails(p)
  <2>1. Permits' \subseteq Permits /\ p \notin Permits'
    BY <1>6, StayLosesPermit, HoldLosesPermit, EndLosesPermit DEF CreateFails
  <2> QED
    BY <1>6, <2>1, CreatingIsPaid DEF CreateFails
<1>7. CASE Begin(p) \/ ToBurning(p)
  <2>1. Permits' \subseteq Permits
    BY <1>7, StayLosesPermit, HoldLosesPermit, EndLosesPermit DEF Begin, ToBurning
  <2>2. InFlight' \subseteq InFlight
    BY <1>7, <1>s, TransitionAddsNone DEF Begin, ToBurning
  <2> QED
    BY <2>1, <2>2, FewerIsFine
<1>8. CASE ReadAllowance(p) \/ Approve(p) \/ SendBurn(p) \/ BurnNotSent(p) \/ BurnConfirmed(p)
           \/ BurnThrows(p)
  <2>1. Permits' \subseteq Permits
    BY <1>8, StayLosesPermit, HoldLosesPermit, EndLosesPermit
    DEF ReadAllowance, Approve, SendBurn, BurnNotSent, BurnConfirmed, BurnThrows
  <2> QED
    BY <1>8, <2>1, RowsSame, FewerIsFine
    DEF ReadAllowance, Approve, SendBurn, BurnNotSent, BurnConfirmed, BurnThrows, table
<1>9. CASE RecordBurn(p) \/ FailStart(p)
  <2>1. Permits' \subseteq Permits
    BY <1>9, StayLosesPermit, HoldLosesPermit, EndLosesPermit DEF RecordBurn, FailStart
  <2>2. InFlight' \subseteq InFlight
    BY <1>9, <1>s, TransitionAddsNone DEF RecordBurn, FailStart
  <2> QED
    BY <2>1, <2>2, FewerIsFine
<1> QED
  BY <1>1, <1>2, <1>3, <1>4, <1>5, <1>6, <1>7, <1>8, <1>9 DEF StartStep

\* Resuming and minting only move rows that are in flight.
LEMMA ResumeStepFlight ==
  ASSUME TypeOK, FlightInv, NEW p \in Proc, ResumeStep(p) \/ MintStep(p)
  PROVE  FlightInv'
<1>s. /\ {"stuck"} \subseteq InFlightStatuses
      /\ {"awaiting_attestation"} \subseteq InFlightStatuses
      /\ {"awaiting_attestation", "stuck"} \subseteq InFlightStatuses
      /\ {"minting"} \subseteq InFlightStatuses
  BY DEF InFlightStatuses, Status
<1>p. \A old : PlaceFor(old) \notin {"last_burn", "decide"}
  BY DEF PlaceFor
<1>e. \A retryable \in BOOLEAN : PlaceAfterError(p, retryable) \notin {"last_burn", "decide"}
  BY DEF PlaceAfterError
<1>1. CASE List(p) \/ EndResume(p) \/ NextRow(p)
  <2>1. Permits' \subseteq Permits
    <3>1. CASE List(p)
      BY <3>1, NoPermitElsewhere DEF List
    <3>2. CASE EndResume(p)
      BY <3>2, NoPermitElsewhere, StayLosesPermit, HoldLosesPermit, EndLosesPermit DEF EndResume
    <3>3. CASE NextRow(p)
      BY <3>3, <1>p, NoPermitElsewhere DEF NextRow
    <3> QED
      BY <1>1, <3>1, <3>2, <3>3
  <2> QED
    BY <1>1, <2>1, RowsSame, FewerIsFine DEF List, EndResume, NextRow, table
<1>2. CASE Unstick(p)
  <2>1. Permits' \subseteq Permits
    BY <1>2, <1>p, StayLosesPermit, HoldLosesPermit, EndLosesPermit DEF Unstick
  <2>2. InFlight' \subseteq InFlight
    BY <1>2, <1>s, TransitionAddsNone DEF Unstick
  <2> QED
    BY <2>1, <2>2, FewerIsFine
<1>3. CASE PollForwarded(p) \/ PollComplete(p) \/ PollTimeout(p) \/ Reread(p)
  <2>1. Permits' \subseteq Permits
    BY <1>3, StayLosesPermit, HoldLosesPermit, EndLosesPermit DEF PollForwarded, PollComplete, PollTimeout, Reread
  <2> QED
    BY <1>3, <2>1, RowsSame, FewerIsFine
    DEF PollForwarded, PollComplete, PollTimeout, Reread, table
<1>4. CASE MarkStuck(p) \/ AcceptForward(p) \/ ToMinting(p)
  <2>1. Permits' \subseteq Permits
    BY <1>4, StayLosesPermit, HoldLosesPermit, EndLosesPermit DEF MarkStuck, AcceptForward, ToMinting
  <2>2. InFlight' \subseteq InFlight
    BY <1>4, <1>s, TransitionAddsNone DEF MarkStuck, AcceptForward, ToMinting
  <2> QED
    BY <2>1, <2>2, FewerIsFine
<1>5. CASE SendMint(p) \/ MintNotSent(p) \/ MintConfirmed(p) \/ MintReverted(p) \/ MintTimesOut(p)
  <2>1. Permits' \subseteq Permits
    BY <1>5, <1>e, StayLosesPermit, HoldLosesPermit, EndLosesPermit
    DEF SendMint, MintNotSent, MintConfirmed, MintReverted, MintTimesOut
  <2> QED
    BY <1>5, <2>1, RowsSame, FewerIsFine
    DEF SendMint, MintNotSent, MintConfirmed, MintReverted, MintTimesOut, table
<1>6. CASE RecordMint(p) \/ TreatAsMinted(p) \/ FailMint(p) \/ RetryLater(p)
  <2>1. Permits' \subseteq Permits
    BY <1>6, StayLosesPermit, HoldLosesPermit, EndLosesPermit DEF RecordMint, TreatAsMinted, FailMint, RetryLater
  <2>2. InFlight' \subseteq InFlight
    BY <1>6, <1>s, TransitionAddsNone DEF RecordMint, TreatAsMinted, FailMint, RetryLater
  <2> QED
    BY <2>1, <2>2, FewerIsFine
<1> QED
  BY <1>1, <1>2, <1>3, <1>4, <1>5, <1>6 DEF ResumeStep, MintStep

\* The chains, the cooldown, the start of a call and a restart create nothing.
LEMMA OtherStepFlight ==
  ASSUME TypeOK, FlightInv,
         \/ StartCycle \/ Crash \/ UNCHANGED vars
         \/ \E p \in Route : StartForce(p) \/ StartResume(p)
         \/ \E r \in Row : ChainStep(r) \/ CooldownElapses(r)
  PROVE  FlightInv'
<1>w. Worker \in Proc /\ Route \subseteq Proc
  BY DEF Proc
<1>1. CASE StartCycle
  BY <1>1, <1>w, RowsSame, NoPermitElsewhere, FewerIsFine DEF StartCycle, Goto, table
<1>2. ASSUME NEW p \in Route, StartForce(p) \/ StartResume(p)
      PROVE  FlightInv'
  <2>1. \A q \in Proc \ {p} : seen'[q] = seen[q]
    BY <1>2, <1>w DEF StartForce, StartResume, TypeOK, LocalsOK
  <2>2. Permits' \subseteq Permits
    BY <1>2, <1>w, <2>1, NoPermitElsewhere DEF StartForce, StartResume
  <2> QED
    BY <1>2, <2>2, RowsSame, FewerIsFine DEF StartForce, StartResume, table
<1>3. CASE Crash
  <2>1. \A p \in Proc : pc'[p] \notin {"last_burn", "decide"}
    BY <1>3 DEF Crash, Rest
  <2>2. Permits' \subseteq Permits
    BY <2>1 DEF Permits
  <2> QED
    BY <1>3, <2>2, RowsSame, FewerIsFine DEF Crash, table
<1>4. CASE \/ \E r \in Row : CooldownElapses(r) \/ ChainStep(r)
           \/ UNCHANGED vars
  <2>1. row' = row /\ pc' = pc /\ seen' = seen
    BY <1>4 DEF ChainStep, MineBurn, Attest, Forward, MineLoose, MineMint, CooldownElapses,
                vars, table, locals
  <2> QED
    BY <2>1, RowsSame, LocalsSame, FewerIsFine
<1> QED
  BY <1>1, <1>2, <1>3, <1>4

LEMMA InitFlight == Init => FlightInv
<1> SUFFICES ASSUME Init PROVE FlightInv
  OBVIOUS
<1>1. InFlight = {}
  BY DEF Init, InFlight, InFlightStatuses, EmptyRow
<1>2. Permits = {}
  BY DEF Init, Permits
<1> QED
  BY <1>1, <1>2, FS_EmptySet, FlightFinite, PolicyConfig DEF FlightInv

\* However many requests run beside the worker, the transfers in flight exceed
\* CCTP_MAX_IN_FLIGHT by no more than the number of those requests.
THEOREM FlightBounded == Spec => []InFlightBounded
<1>1. FlightInv /\ TypeOK /\ [Next]_vars => FlightInv'
  BY StartStepFlight, ResumeStepFlight, OtherStepFlight DEF Next, ProcessStep
<1>2. FlightInv => InFlightBounded
  BY FlightFinite, PolicyConfig DEF FlightInv, InFlightBounded
<1> QED
  BY <1>1, <1>2, InitFlight, TypeCorrect, PTL DEF Spec

=============================================================================
