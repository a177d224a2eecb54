-------------------------- MODULE LiveTradingProofs --------------------------
(***************************************************************************)
(* For every set of order ids, order size, price moves, limit and bound:   *)
(* IInv is an inductive invariant of LiveTrading; LiveTrading implements   *)
(* LivePosition; relative to IInv, the limits and the count of outcomes    *)
(* hold (LimitsInv, BookedInv) and, where orders fill whole, the tracked   *)
(* quantity is held (HeldInv).                                             *)
(***************************************************************************)
EXTENDS LiveTrading, SumTheorems

USE VenueAssumption, LiveAssumption

\* The empty book, file and ledger of a first start satisfy IInv.
LEMMA InitIInv == Init => IInv
<1> SUFFICES ASSUME Init PROVE IInv
  OBVIOUS
<1> USE DEF Init, VenueInit
<1>1. TypeOK
  BY DEF TypeOK, Order, OrderStatus, Working, Filled, AbsentOrder, Position, Flat, NoStamp,
         Days, OrderResult, NoResult, SubmitState, RecStatus, Answer, NoAnswer
<1>2. BookOK
  BY DEF BookOK, AbsentOrder, Flat
<1>3. CloseInHand /\ EntryInHand
  BY DEF CloseInHand, EntryInHand, ClosingSteps, SettleSteps, EntrySteps, Days
<1>4. CloseAccounted /\ LedgerReal /\ TornKeepsPosition
  BY DEF CloseAccounted, LedgerReal, TornKeepsPosition, LiveClose, Recorded,
         AbsentOrder, Flat
<1>5. DailyBudget
  BY DEF DailyBudget, Days
<1> QED
  BY <1>1, <1>2, <1>3, <1>4, <1>5 DEF IInv

\* A fill price, relative to the entry, is an integer.
LEMMA MoveIsInt == \A m \in Moves \cup {0} : m \in Int
  <1>1. \A m \in Moves : m \in Int
    BY VenueAssumption, Zenon
  <1>2. 0 \in Int
    OBVIOUS
  <1> QED
    BY <1>1, <1>2, Zenon

\* What appending one outcome does to the ledger's domain and entries.
LEMMA AppendLedger ==
  ASSUME NEW s \in Seq(Outcome), NEW e \in Outcome
  PROVE  /\ Append(s, e) \in Seq(Outcome)
         /\ DOMAIN Append(s, e) = DOMAIN s \cup {Len(s) + 1}
         /\ Len(s) + 1 \notin DOMAIN s
         /\ \A i \in DOMAIN s : Append(s, e)[i] = s[i]
         /\ Append(s, e)[Len(s) + 1] = e
OBVIOUS

\* A line appended for the close in hand claims what the venue executed of it,
\* and the ledger knows that close from then on.
LEMMA AppendOutcome ==
  ASSUME IInv, pc = "ledger", ledger' = Append(ledger, OutcomeOf(cur, ans)),
         UNCHANGED <<orders, pos>>
  PROVE  /\ ledger' \in Seq(Outcome) /\ cur \in OrderId /\ pos.open /\ pos.closeId = cur
         /\ orders[cur].kind = "close" /\ orders[cur].executed > 0
         /\ \A o : Recorded(o)' <=> Recorded(o) \/ o = cur
         /\ CloseAccounted' /\ LedgerReal'
<1> DEFINE e == OutcomeOf(cur, ans)
           n == Len(ledger) + 1
<1>1. /\ cur \in OrderId /\ ans.executed \in 1..orders[cur].executed
      /\ ans.move = orders[cur].move /\ orders[cur].kind = "close"
      /\ pos.open /\ pos.closeId = cur
  BY DEF IInv, CloseInHand, ClosingSteps, SettleSteps
<1>2. e \in Outcome /\ e.order = cur /\ e.qty = ans.executed /\ e.pnl = e.qty * ans.move
  <2>1. ans.executed \in 1..Size /\ ans.move \in Int /\ day \in Days
    <3>1. orders[cur].executed \in 0..Size /\ ans.move \in Moves \cup {0}
      BY <1>1 DEF IInv, TypeOK, Answer, Order
    <3>2. Moves \subseteq Int /\ Size \in Nat
      BY VenueAssumption
    <3>3. day \in Days
      BY DEF IInv, TypeOK
    <3>4. ans.move \in Int
      BY <3>1, MoveIsInt
    <3>5. ans.executed \in 1..Size
      BY <1>1, <3>1, <3>2
    <3> QED
      BY <3>3, <3>4, <3>5
  <2>2. ans.executed * ans.move \in Int
    BY <2>1
  <2> QED
    BY <1>1, <2>1, <2>2 DEF OutcomeOf, Outcome
<1>3. /\ ledger' \in Seq(Outcome) /\ DOMAIN ledger' = DOMAIN ledger \cup {n}
      /\ n \notin DOMAIN ledger
      /\ \A i \in DOMAIN ledger : ledger'[i] = ledger[i]
      /\ ledger'[n] = e
  <2> HIDE DEF e
  <2>1. ledger \in Seq(Outcome) /\ ledger' = Append(ledger, e)
    BY DEF IInv, TypeOK, e
  <2> QED
    BY <1>2, <2>1, AppendLedger
<1> HIDE DEF e, n
<1>4. \A o : Recorded(o)' <=> Recorded(o) \/ o = cur
  BY <1>2, <1>3 DEF Recorded
<1>5. CloseAccounted'
  BY <1>4 DEF IInv, CloseAccounted, LiveClose
<1>6. LedgerReal'
  BY <1>1, <1>2, <1>3 DEF IInv, LedgerReal
<1>7. orders[cur].executed > 0
  <2>1. orders[cur].executed \in Nat
    BY <1>1 DEF IInv, TypeOK, Order
  <2> QED
    BY <1>1, <2>1
<1> QED
  BY <1>1, <1>3, <1>4, <1>5, <1>6, <1>7

\* RecordOutcome books the executed quantity of the close in hand.
LEMMA RecordStep == ASSUME IInv, RecordOutcome PROVE IInv'
<1> USE DEF RecordOutcome, Goto, venueVars, envVars
<1>1. /\ ledger' \in Seq(Outcome) /\ cur \in OrderId /\ pos.open /\ pos.closeId = cur
      /\ orders[cur].executed > 0
      /\ \A o : Recorded(o)' <=> Recorded(o) \/ o = cur
      /\ CloseAccounted' /\ LedgerReal'
  BY AppendOutcome
<1>2. TypeOK'
  BY <1>1 DEF IInv, TypeOK, SettleSteps
<1>3. BookOK' /\ TornKeepsPosition' /\ DailyBudget'
  BY DEF IInv, BookOK, TornKeepsPosition, DailyBudget, Days
<1>4. CloseInHand'
  BY <1>1 DEF IInv, CloseInHand, ClosingSteps, SettleSteps
<1>5. EntryInHand'
  BY DEF IInv, EntryInHand, EntrySteps, Days
<1> QED
  BY <1>1, <1>2, <1>3, <1>4, <1>5 DEF IInv

-----------------------------------------------------------------------------
(***************************************************************************)
(* Steps that only move the runner: what is left to show is what the       *)
(* program counter says.                                                   *)
(***************************************************************************)
LocalType == /\ pc \in {"idle", "entry"} \cup SettleSteps \cup EntrySteps
             /\ stage \in {"none", "live", "refused"}
             /\ cur \in OrderId \cup {NoOrder} /\ ans \in Answer
             /\ submit \in SubmitState /\ rec \in RecStatus

\* A step that changes no file and nothing at the venue keeps IInv when the
\* facts about the program counter are kept.
LEMMA LocalStep ==
  ASSUME IInv, UNCHANGED <<venueVars, fileVars, envVars>>,
         LocalType', CloseInHand', EntryInHand'
  PROVE  IInv'
<1> USE DEF venueVars, fileVars, envVars
<1>1. TypeOK' /\ BookOK'
  BY DEF IInv, TypeOK, LocalType, BookOK
<1>2. CloseAccounted' /\ LedgerReal' /\ TornKeepsPosition' /\ DailyBudget'
  BY DEF IInv, CloseAccounted, LiveClose, Recorded, LedgerReal, TornKeepsPosition,
         DailyBudget
<1> QED
  BY <1>1, <1>2 DEF IInv

\* The answers of a query are typed and say what the book says.
LEMMA QueryFacts ==
  ASSUME TypeOK, NEW o \in OrderId, NEW a \in QueryAnswers(o)
  PROVE  /\ a \in Answer
         /\ a.code = "not_found" => orders[o].status = "ABSENT"
         /\ a.code = "ok" => /\ orders[o].status # "ABSENT"
                             /\ a.status = orders[o].status
                             /\ a.executed = orders[o].executed
                             /\ a.move = orders[o].move
         /\ a.priced => a.code = "ok" /\ a.executed > 0
<1>1. orders[o] \in Order
  BY DEF TypeOK
<1>2. NoAnswer \in Answer /\ [NoAnswer EXCEPT !.code = "not_found"] \in Answer
  <2>1. 0 \in 0..Size /\ 0 \in Moves \cup {0} /\ "ABSENT" \in OrderStatus
    BY DEF OrderStatus
  <2>2. NoAnswer \in Answer
    BY <2>1 DEF NoAnswer, Answer
  <2> QED
    BY <2>2 DEF Answer
<1>3. CASE a = NoAnswer
  BY <1>2, <1>3 DEF NoAnswer
<1>4. CASE a = [NoAnswer EXCEPT !.code = "not_found"] /\ orders[o].status = "ABSENT"
  BY <1>2, <1>4 DEF NoAnswer
<1>5. CASE /\ orders[o].status # "ABSENT"
           /\ \E pr \in IF orders[o].executed > 0 THEN BOOLEAN ELSE {FALSE} :
                a = [code |-> "ok", status |-> orders[o].status,
                     executed |-> orders[o].executed, move |-> orders[o].move,
                     priced |-> pr]
  <2>1. PICK pr \in IF orders[o].executed > 0 THEN BOOLEAN ELSE {FALSE} :
          a = [code |-> "ok", status |-> orders[o].status,
               executed |-> orders[o].executed, move |-> orders[o].move,
               priced |-> pr]
    BY <1>5
  <2>2. pr \in BOOLEAN /\ (pr => orders[o].executed > 0)
    OBVIOUS
  <2>3. a \in Answer
    BY <1>1, <2>1, <2>2 DEF Answer, Order
  <2> QED
    BY <1>5, <2>1, <2>2, <2>3
<1> QED
  BY <1>3, <1>4, <1>5 DEF QueryAnswers, OrderAnswer

\* The locals are typed after a cycle ends.
LEMMA EndCycleLocal == ASSUME EndCycle PROVE LocalType'
  BY DEF EndCycle, LocalType, Answer, NoAnswer, OrderStatus, SubmitState, RecStatus

\* An append that raises ends the cycle and leaves the files as they are.
LEMMA RecordRaisesStep == ASSUME IInv, RecordRaises PROVE IInv'
<1> USE DEF RecordRaises, AppendRaises, venueVars, fileVars, envVars
<1>1. LocalType'
  BY EndCycleLocal
<1>2. CloseInHand' /\ EntryInHand'
  BY DEF EndCycle, IInv, CloseInHand, ClosingSteps, SettleSteps, EntryInHand, EntrySteps
<1> QED
  BY <1>1, <1>2, LocalStep

\* A new cycle starts in the settlement, with nothing in hand.
LEMMA StartCycleStep ==
  ASSUME IInv, NEW s \in {"live", "refused"}, StartCycle(s) PROVE IInv'
<1> USE DEF StartCycle, venueVars, fileVars, envVars
<1>1. LocalType'
  BY DEF IInv, TypeOK, LocalType, SettleSteps
<1>2. CloseInHand' /\ EntryInHand'
  BY DEF IInv, CloseInHand, ClosingSteps, SettleSteps, EntryInHand, EntrySteps,
         Recorded
<1> QED
  BY <1>1, <1>2, LocalStep

\* Without a tracked position the cycle goes on to the entry.
LEMMA SettleFlatStep == ASSUME IInv, SettleFlat PROVE IInv'
<1> USE DEF SettleFlat, Goto, venueVars, fileVars, envVars
<1>1. LocalType'
  BY DEF IInv, TypeOK, LocalType
<1>2. CloseInHand' /\ EntryInHand'
  BY DEF IInv, CloseInHand, ClosingSteps, SettleSteps, EntryInHand, EntrySteps,
         Recorded
<1> QED
  BY <1>1, <1>2, LocalStep

\* A refused close has not been sent: its id is still unused.
LEMMA CloseGuardBlocksStep == ASSUME IInv, CloseGuardBlocks PROVE IInv'
<1> USE DEF CloseGuardBlocks, Goto, venueVars, fileVars, envVars
<1>1. LocalType'
  BY DEF IInv, TypeOK, LocalType, SettleSteps
<1>2. CloseInHand' /\ EntryInHand'
  BY DEF IInv, CloseInHand, ClosingSteps, SettleSteps, EntryInHand, EntrySteps,
         Recorded
<1> QED
  BY <1>1, <1>2, LocalStep

\* Only a venue that does not know the close lets the kernel abandon it.
LEMMA ResolveCloseStep == ASSUME IInv, ResolveClose PROVE IInv'
<1> USE DEF ResolveClose, Goto, venueVars, fileVars, envVars
<1>1. cur \in OrderId
  BY DEF IInv, CloseInHand, ClosingSteps, SettleSteps
<1>2. PICK a \in QueryAnswers(cur) :
        pc' = IF a.code = "not_found" THEN "close_failed" ELSE "close_query"
  OBVIOUS
<1>3. a.code = "not_found" => orders[cur].status = "ABSENT"
  BY <1>1, QueryFacts DEF IInv
<1>4. LocalType'
  BY <1>2 DEF IInv, TypeOK, LocalType, SettleSteps
<1>5. CloseInHand' /\ EntryInHand'
  BY <1>2, <1>3 DEF IInv, CloseInHand, ClosingSteps, SettleSteps, EntryInHand,
         EntrySteps, Recorded
<1> QED
  BY <1>4, <1>5, LocalStep

\* The fill that goes to the ledger is the one on the venue's book.
LEMMA ReadCloseFillStep == ASSUME IInv, ReadCloseFill PROVE IInv'
<1> USE DEF ReadCloseFill, Goto, venueVars, fileVars, envVars
<1>1. cur \in OrderId /\ pos.closeId = cur /\ pos.open
  BY DEF IInv, CloseInHand, ClosingSteps, SettleSteps
<1>2. PICK a \in QueryAnswers(cur) : \/ FillConfirmed(a) /\ pc' = "ledger" /\ ans' = a
                                     \/ pc' = "entry" /\ ans' = ans
  OBVIOUS
<1>3. CASE pc' = "entry" /\ ans' = ans
  <2>1. LocalType'
    BY <1>3 DEF IInv, TypeOK, LocalType
  <2>2. CloseInHand' /\ EntryInHand'
    BY <1>3 DEF IInv, CloseInHand, ClosingSteps, SettleSteps, EntryInHand,
           EntrySteps, Recorded
  <2> QED
    BY <2>1, <2>2, LocalStep
<1>4. CASE FillConfirmed(a) /\ pc' = "ledger" /\ ans' = a
  <2>1. /\ a \in Answer /\ orders[cur].status # "ABSENT"
        /\ a.executed > 0 /\ a.executed = orders[cur].executed
        /\ a.move = orders[cur].move
    BY <1>1, <1>4, QueryFacts DEF IInv, FillConfirmed
  <2>2. orders[cur].kind = "close"
    BY <1>1, <2>1 DEF IInv, BookOK, TypeOK, Order
  <2>3. LocalType'
    BY <1>4, <2>1 DEF IInv, TypeOK, LocalType, SettleSteps
  <2>4. CloseInHand'
    BY <1>1, <1>4, <2>1, <2>2 DEF IInv, CloseInHand, ClosingSteps, SettleSteps, Answer
  <2>5. EntryInHand'
    BY <1>4 DEF IInv, EntryInHand, EntrySteps, Recorded
  <2> QED
    BY <2>3, <2>4, <2>5, LocalStep
<1> QED
  BY <1>2, <1>3, <1>4

\* A cycle that enters nothing leaves files and venue alone.
LEMMA SkipEntryStep == ASSUME IInv, SkipEntry PROVE IInv'
<1> USE DEF SkipEntry, venueVars, fileVars, envVars
<1>1. LocalType'
  BY EndCycleLocal
<1>2. CloseInHand' /\ EntryInHand'
  BY DEF EndCycle, IInv, CloseInHand, ClosingSteps, SettleSteps, EntryInHand,
         EntrySteps, Recorded
<1> QED
  BY <1>1, <1>2, LocalStep

\* The absent answer is an answer.
LEMMA NoAnswerType == NoAnswer \in Answer
  BY DEF NoAnswer, Answer, OrderStatus

\* An entry starts with an unused id while nothing is tracked.
LEMMA BeginEntryStep ==
  ASSUME IInv, NEW o \in OrderId, BeginEntry(o) PROVE IInv'
<1> USE DEF BeginEntry, Goto, venueVars, fileVars, envVars
<1>1. LocalType'
  BY NoAnswerType DEF IInv, TypeOK, LocalType, EntrySteps
<1>2. CloseInHand' /\ EntryInHand'
  BY DEF GateAdmits, Fresh, IInv, CloseInHand, ClosingSteps, SettleSteps, EntryInHand,
         EntrySteps, Recorded
<1> QED
  BY <1>1, <1>2, LocalStep

\* The guard lets an entry through only below the daily count.
LEMMA FinalGuardReadyStep == ASSUME IInv, FinalGuardReady PROVE IInv'
<1> USE DEF FinalGuardReady, Goto, venueVars, fileVars, envVars
<1>1. LocalType'
  BY DEF IInv, TypeOK, LocalType, EntrySteps
<1>2. counter[day] < MaxDaily
  BY DEF final_guard_ready
<1>3. CloseInHand' /\ EntryInHand'
  BY <1>2 DEF IInv, CloseInHand, ClosingSteps, SettleSteps, EntryInHand,
         EntrySteps, Recorded
<1> QED
  BY <1>1, <1>3, LocalStep

\* A blocked entry only writes its result.
LEMMA FinalGuardBlocksStep == ASSUME IInv, FinalGuardBlocks PROVE IInv'
<1> USE DEF FinalGuardBlocks, venueVars, fileVars, envVars
<1>1. LocalType'
  BY DEF IInv, TypeOK, LocalType, EntrySteps, SubmitState
<1>2. CloseInHand' /\ EntryInHand'
  BY DEF IInv, CloseInHand, ClosingSteps, SettleSteps, EntryInHand,
         EntrySteps, Recorded
<1> QED
  BY <1>1, <1>2, LocalStep

\* Resolving a lost answer leads to the counter or to the result.
LEMMA ResolveEntryStep == ASSUME IInv, ResolveEntry PROVE IInv'
<1> USE DEF ResolveEntry, venueVars, fileVars, envVars
<1>1. submit' \in SubmitState /\ pc' \in {"record", "result"}
  BY DEF ResolvedSubmit, SubmitState
<1>2. LocalType'
  BY <1>1 DEF IInv, TypeOK, LocalType, EntrySteps
<1>3. CloseInHand' /\ EntryInHand'
  BY <1>1 DEF IInv, CloseInHand, ClosingSteps, SettleSteps, EntryInHand,
         EntrySteps, Recorded
<1> QED
  BY <1>2, <1>3, LocalStep

\* The order half of the reconciliation reads a typed answer.
LEMMA ReconcileOrderStep == ASSUME IInv, ReconcileOrder PROVE IInv'
<1> USE DEF ReconcileOrder, venueVars, fileVars, envVars
<1>1. ans' \in Answer
  BY QueryFacts DEF IInv, TypeOK, EntryInHand
<1>2. LocalType'
  BY <1>1 DEF IInv, TypeOK, LocalType, EntrySteps, RecStatus
<1>3. CloseInHand' /\ EntryInHand'
  BY DEF IInv, CloseInHand, ClosingSteps, SettleSteps, EntryInHand,
         EntrySteps, Recorded
<1> QED
  BY <1>2, <1>3, LocalStep

\* The position half of the reconciliation only sets its status.
LEMMA ReconcilePositionStep ==
  ASSUME IInv, NEW reachable \in BOOLEAN, ReconcilePosition(reachable) PROVE IInv'
<1> USE DEF ReconcilePosition, venueVars, fileVars, envVars
<1>1. LocalType'
  BY DEF IInv, TypeOK, LocalType, EntrySteps, RecStatus, compare
<1>2. CloseInHand' /\ EntryInHand'
  BY DEF IInv, CloseInHand, ClosingSteps, SettleSteps, EntryInHand,
         EntrySteps, Recorded
<1> QED
  BY <1>1, <1>2, LocalStep

-----------------------------------------------------------------------------
(***************************************************************************)
(* Steps that rewrite the position file: the book and the ledger stand.    *)
(***************************************************************************)
\* A step that rewrites the position file alone keeps the ledger's and the
\* counter's parts of IInv.
LEMMA PositionStep ==
  ASSUME IInv, UNCHANGED <<venueVars, envVars, counter, ledger, torn, result>>,
         LocalType', pos' \in Position, BookOK', CloseInHand', EntryInHand',
         CloseAccounted', TornKeepsPosition'
  PROVE  IInv'
<1> USE DEF venueVars, envVars
<1>1. TypeOK'
  BY DEF IInv, TypeOK, LocalType
<1>2. LedgerReal' /\ DailyBudget'
  BY DEF IInv, LedgerReal, DailyBudget
<1> QED
  BY <1>1, <1>2 DEF IInv

\* A pending close that is dead or never was may be retired.
LEMMA RetireFacts ==
  ASSUME IInv, pos.open, pos.closeId \in OrderId, ~LiveClose(pos.closeId),
         pos' = RetirePending(pos), UNCHANGED <<orders, ledger, torn>>
  PROVE  /\ pos' \in Position /\ BookOK' /\ CloseAccounted' /\ TornKeepsPosition'
         /\ pos'.open /\ pos'.closeId = NoOrder
<1>1. pos' \in Position /\ pos'.open = pos.open /\ pos'.closeId = NoOrder
  BY DEF IInv, TypeOK, Position, RetirePending
<1>2. BookOK' /\ CloseAccounted' /\ TornKeepsPosition'
  BY <1>1 DEF IInv, BookOK, CloseAccounted, LiveClose, Recorded, TornKeepsPosition
<1> QED
  BY <1>1, <1>2

\* A close that never reached the book is retired.
LEMMA AbandonCloseStep == ASSUME IInv, AbandonClose PROVE IInv'
<1> USE DEF AbandonClose, Goto, venueVars, envVars
<1>1. pos.open /\ pos.closeId \in OrderId /\ ~LiveClose(pos.closeId)
  BY DEF IInv, CloseInHand, ClosingSteps, SettleSteps, LiveClose, Working, Filled
<1>2. /\ pos' \in Position /\ BookOK' /\ CloseAccounted' /\ TornKeepsPosition'
      /\ pos'.open /\ pos'.closeId = NoOrder
  BY <1>1, RetireFacts
<1>3. LocalType'
  BY DEF IInv, TypeOK, LocalType
<1>4. CloseInHand' /\ EntryInHand'
  BY <1>2 DEF IInv, CloseInHand, ClosingSteps, SettleSteps, EntryInHand,
         EntrySteps, Recorded
<1> QED
  BY <1>2, <1>3, <1>4, PositionStep

\* The file is cleared once the close is recorded.
LEMMA ClearPositionStep == ASSUME IInv, ClearPosition PROVE IInv'
<1> USE DEF ClearPosition, AfterFill, Goto, venueVars, envVars
<1>1. pos.closeId = cur /\ Recorded(cur) /\ torn = "no"
  BY DEF IInv, CloseInHand, ClosingSteps, SettleSteps
<1>2. pos' \in Position /\ ~pos'.open /\ pos'.closeId = NoOrder
  BY DEF Flat, Position, NoStamp
<1>3. BookOK' /\ TornKeepsPosition'
  BY <1>1, <1>2 DEF IInv, BookOK, TornKeepsPosition
<1>4. CloseAccounted'
  BY <1>1 DEF IInv, CloseAccounted, LiveClose, Recorded
<1>5. LocalType'
  BY DEF IInv, TypeOK, LocalType
<1>6. CloseInHand' /\ EntryInHand'
  BY <1>2 DEF IInv, CloseInHand, ClosingSteps, SettleSteps, EntryInHand,
         EntrySteps, Recorded
<1> QED
  BY <1>2, <1>3, <1>4, <1>5, <1>6, PositionStep

\* A pending close is booked, retired when proven dead, or kept.
LEMMA ResolvePendingStep == ASSUME IInv, resolve_pending_close PROVE IInv'
<1> USE DEF resolve_pending_close, Goto, venueVars, envVars
<1>1. pos.open /\ pos.closeId \in OrderId
  BY DEF IInv, TypeOK, Position
<1>2. PICK a \in QueryAnswers(pos.closeId) :
        \/ FillConfirmed(a) /\ pc' = "ledger" /\ cur' = pos.closeId /\ ans' = a
           /\ pos' = pos
        \/ ProvenDead(a) /\ pc' = "evaluate" /\ pos' = RetirePending(pos)
           /\ UNCHANGED <<cur, ans>>
        \/ pc' = "entry" /\ UNCHANGED <<pos, cur, ans>>
  OBVIOUS
<1>3. CASE FillConfirmed(a) /\ pc' = "ledger" /\ cur' = pos.closeId /\ ans' = a /\ pos' = pos
  <2>1. /\ a \in Answer /\ orders[pos.closeId].status # "ABSENT"
        /\ a.executed > 0 /\ a.executed = orders[pos.closeId].executed
        /\ a.move = orders[pos.closeId].move
    BY <1>1, <1>3, QueryFacts DEF IInv, FillConfirmed
  <2>2. orders[pos.closeId].kind = "close"
    BY <1>1, <2>1 DEF IInv, BookOK, TypeOK, Order
  <2>3. LocalType'
    BY <1>1, <1>3, <2>1 DEF IInv, TypeOK, LocalType, SettleSteps
  <2>4. CloseInHand'
    BY <1>1, <1>3, <2>1, <2>2 DEF IInv, CloseInHand, ClosingSteps, SettleSteps, Answer
  <2>5. EntryInHand'
    BY <1>3 DEF IInv, EntryInHand, EntrySteps, Recorded
  <2> QED
    BY <1>3, <2>3, <2>4, <2>5, LocalStep DEF fileVars
<1>4. CASE ProvenDead(a) /\ pc' = "evaluate" /\ pos' = RetirePending(pos)
           /\ UNCHANGED <<cur, ans>>
  <2>1. ~LiveClose(pos.closeId)
    BY <1>1, <1>4, QueryFacts DEF IInv, ProvenDead, LiveClose, Working, Filled
  <2>2. /\ pos' \in Position /\ BookOK' /\ CloseAccounted' /\ TornKeepsPosition'
        /\ pos'.open /\ pos'.closeId = NoOrder
    BY <1>1, <1>4, <2>1, RetireFacts
  <2>3. LocalType'
    BY <1>4 DEF IInv, TypeOK, LocalType, SettleSteps
  <2>4. CloseInHand' /\ EntryInHand'
    BY <1>4, <2>2 DEF IInv, CloseInHand, ClosingSteps, SettleSteps, EntryInHand,
         EntrySteps, Recorded
  <2> QED
    BY <2>2, <2>3, <2>4, PositionStep
<1>5. CASE pc' = "entry" /\ UNCHANGED <<pos, cur, ans>>
  <2>1. LocalType'
    BY <1>5 DEF IInv, TypeOK, LocalType
  <2>2. CloseInHand' /\ EntryInHand'
    BY <1>5 DEF IInv, CloseInHand, ClosingSteps, SettleSteps, EntryInHand,
         EntrySteps, Recorded
  <2> QED
    BY <1>5, <2>1, <2>2, LocalStep DEF fileVars
<1> QED
  BY <1>2, <1>3, <1>4, <1>5

\* Counting a bar touches neither the position's status nor quantity nor
\* pending id.
LEMMA AdvanceFacts ==
  ASSUME TypeOK, NEW ts \in Stamps
  PROVE  /\ advance_holding(pos, ts) \in Position
         /\ advance_holding(pos, ts).open = pos.open
         /\ advance_holding(pos, ts).closeId = pos.closeId
         /\ advance_holding(pos, ts).qty = pos.qty
<1>1. ts \in 0..MaxCandle
  BY DEF Stamps, NoStamp, TypeOK
<1>2. pos \in Position
  BY DEF TypeOK
<1>3. CASE ts # NoStamp /\ ts = pos.seen
  BY <1>2, <1>3 DEF advance_holding
<1>4. CASE ~(ts # NoStamp /\ ts = pos.seen)
  <2> DEFINE h == IF pos.hold < MaxHold THEN pos.hold + 1 ELSE pos.hold
             n == IF ts # NoStamp THEN ts ELSE pos.seen
  <2>1. h \in Nat /\ n \in 0..MaxCandle
    BY <1>1, <1>2 DEF Position
  <2>2. advance_holding(pos, ts) = [pos EXCEPT !.hold = h, !.seen = n]
    BY <1>4 DEF advance_holding
  <2> HIDE DEF h, n
  <2> QED
    BY <1>2, <2>1, <2>2 DEF Position
<1> QED
  BY <1>3, <1>4

\* The write-ahead names an unused id before anything is sent.
LEMMA EvaluateExitStep ==
  ASSUME IInv, NEW ts \in Stamps, NEW touched \in BOOLEAN, NEW priced \in BOOLEAN,
         EvaluateExit(ts, touched, priced)
  PROVE  IInv'
<1> USE DEF EvaluateExit, Goto, venueVars, envVars
<1> DEFINE p == advance_holding(pos, ts)
<1>1. p \in Position /\ p.open = pos.open /\ p.closeId = pos.closeId
  BY AdvanceFacts DEF IInv
<1>2. pos.open /\ pos.closeId = NoOrder
  BY DEF IInv, CloseInHand
<1>3. \/ pos' = p /\ pc' = "entry" /\ UNCHANGED <<cur, ans>>
      \/ \E o \in OrderId : /\ Fresh(o) /\ pos' = [p EXCEPT !.closeId = o]
                            /\ cur' = o /\ pc' = "close_post" /\ ans' = ans
  BY DEF WriteAheadClose
<1> HIDE DEF p
<1>4. CASE pos' = p /\ pc' = "entry" /\ UNCHANGED <<cur, ans>>
  <2>1. LocalType'
    BY <1>4 DEF IInv, TypeOK, LocalType
  <2>2. BookOK' /\ CloseAccounted' /\ TornKeepsPosition'
    BY <1>1, <1>2, <1>4 DEF IInv, BookOK, CloseAccounted, LiveClose, Recorded, TornKeepsPosition
  <2>3. CloseInHand' /\ EntryInHand'
    BY <1>4 DEF IInv, CloseInHand, ClosingSteps, SettleSteps, EntryInHand,
         EntrySteps, Recorded
  <2> QED
    BY <1>1, <1>4, <2>1, <2>2, <2>3, PositionStep
<1>5. ASSUME NEW o \in OrderId, Fresh(o), pos' = [p EXCEPT !.closeId = o],
             cur' = o, pc' = "close_post", ans' = ans
      PROVE  IInv'
  <2>1. pos' \in Position /\ pos'.open /\ pos'.closeId = o
    BY <1>1, <1>2, <1>5 DEF Position
  <2>2. orders[o].status = "ABSENT" /\ orders[o].kind = "none" /\ ~Recorded(o)
    BY <1>5 DEF Fresh, IInv, BookOK, LedgerReal, Recorded
  <2>3. LocalType'
    BY <1>5 DEF IInv, TypeOK, LocalType, SettleSteps
  <2>4. BookOK' /\ CloseAccounted' /\ TornKeepsPosition'
    BY <1>2, <2>1, <2>2 DEF IInv, BookOK, CloseAccounted, LiveClose, Recorded, TornKeepsPosition
  <2>5. CloseInHand' /\ EntryInHand'
    BY <1>5, <2>1, <2>2 DEF IInv, CloseInHand, ClosingSteps, SettleSteps, EntryInHand,
         EntrySteps, Recorded
  <2> QED
    BY <2>1, <2>3, <2>4, <2>5, PositionStep
<1> QED
  BY <1>3, <1>4, <1>5

\* A reconciled entry opens a position without a pending close.
LEMMA OpenPositionStep == ASSUME IInv, open_from_live_execution PROVE IInv'
<1> USE DEF open_from_live_execution, venueVars, envVars
<1>1. ~pos.open /\ pos.closeId = NoOrder /\ cur \in OrderId
  BY DEF IInv, EntryInHand, EntrySteps, BookOK
<1>2. pos' \in Position /\ pos'.closeId = NoOrder
  BY <1>1 DEF IInv, TypeOK, Position, Answer, PositionFromFill, NoStamp
<1>3. LocalType'
  BY EndCycleLocal
<1>4. BookOK' /\ CloseAccounted' /\ TornKeepsPosition'
  BY <1>1, <1>2 DEF IInv, BookOK, CloseAccounted, LiveClose, Recorded, TornKeepsPosition
<1>5. CloseInHand' /\ EntryInHand'
  BY DEF EndCycle, IInv, CloseInHand, ClosingSteps, SettleSteps, EntryInHand,
         EntrySteps, Recorded
<1> QED
  BY <1>2, <1>3, <1>4, <1>5, PositionStep

-----------------------------------------------------------------------------
(***************************************************************************)
(* The order counter and the order result file.                            *)
(***************************************************************************)
\* Counting a submission stays within the limit the guard checked.
LEMMA RecordSubmissionStep == ASSUME IInv, record_submission PROVE IInv'
<1> USE DEF record_submission, Goto, venueVars, envVars
<1>1. /\ counter \in [Days -> Nat] /\ day \in Days /\ counter[day] < MaxDaily
      /\ \A d \in Days : counter[d] <= MaxDaily
  BY DEF IInv, TypeOK, EntryInHand, DailyBudget
<1>2. TypeOK' /\ DailyBudget'
  BY <1>1 DEF IInv, TypeOK, DailyBudget, EntrySteps
<1>3. \A d \in Days : d > day => counter'[d] = 0
  BY <1>1 DEF IInv, EntryInHand, Days
<1>4. BookOK' /\ CloseAccounted' /\ LedgerReal' /\ TornKeepsPosition'
  BY DEF IInv, BookOK, CloseAccounted, LiveClose, Recorded, LedgerReal,
         TornKeepsPosition
<1>5. CloseInHand' /\ EntryInHand'
  BY <1>3 DEF IInv, CloseInHand, ClosingSteps, SettleSteps, EntryInHand,
         EntrySteps, Recorded
<1> QED
  BY <1>2, <1>4, <1>5 DEF IInv

\* The result file names the entry in hand.
LEMMA WriteResultStep == ASSUME IInv, WriteResult PROVE IInv'
<1> USE DEF WriteResult, venueVars, envVars
<1>1. cur \in OrderId /\ result' \in OrderResult /\ result'.order = cur
  BY DEF IInv, TypeOK, EntryInHand, EntrySteps, OrderResult
<1>2. LocalType' /\ pc' \in {"reconcile", "idle"}
  BY EndCycleLocal DEF Goto, EndCycle, IInv, TypeOK, LocalType, EntrySteps
<1>3. TypeOK'
  BY <1>1, <1>2 DEF IInv, TypeOK, LocalType
<1>4. /\ BookOK' /\ CloseAccounted' /\ LedgerReal' /\ TornKeepsPosition'
      /\ DailyBudget'
  BY DEF IInv, BookOK, CloseAccounted, LiveClose, Recorded, LedgerReal,
         TornKeepsPosition, DailyBudget
<1>5. CloseInHand' /\ EntryInHand'
  BY <1>1, <1>2 DEF Goto, EndCycle, IInv, CloseInHand, ClosingSteps, SettleSteps, EntryInHand,
         EntrySteps, Recorded
<1> QED
  BY <1>3, <1>4, <1>5 DEF IInv

-----------------------------------------------------------------------------
(***************************************************************************)
(* Steps that change the book.                                             *)
(***************************************************************************)
\* Every ledger entry names an order id of the venue.
LEMMA LedgerEntry ==
  ASSUME TypeOK PROVE \A i \in DOMAIN ledger : ledger[i] \in Outcome /\ ledger[i].order \in OrderId
<1>1. ledger \in Seq(Outcome)
  BY DEF TypeOK
<1>2. \A i \in DOMAIN ledger : ledger[i] \in Outcome
  BY <1>1
<1>3. \A e \in Outcome : e.order \in OrderId
  BY DEF Outcome
<1> QED
  BY <1>2, <1>3

\* The order a POST leaves behind.
NewOrder(kind, qty) == [kind |-> kind, status |-> "NEW", qty |-> qty,
                        executed |-> 0, move |-> 0]

\* What one POST may change at the venue.
LEMMA PostFacts ==
  ASSUME IInv, NEW o \in OrderId, NEW kind \in {"entry", "close"}, NEW qty \in 0..Size,
         NEW out \in PostOutcome, Post(o, kind, qty, out), orders[o].status = "ABSENT"
  PROVE  /\ orders' \in [OrderId -> Order] /\ held' = held
         /\ \A x \in OrderId \ {o} : orders'[x] = orders[x]
         /\ orders'[o] \in {orders[o], NewOrder(kind, qty)}
         /\ out = "rejected" => orders'[o] = orders[o]
         /\ ~Recorded(o)
<1>1. NewOrder(kind, qty) \in Order
  BY DEF NewOrder, Order, OrderStatus, Working
<1>2. orders \in [OrderId -> Order] /\ ~Recorded(o)
  BY DEF IInv, TypeOK, BookOK, LedgerReal, Recorded
<1>3. \/ orders' = orders
      \/ ReachesBook(out) /\ orders' = [orders EXCEPT ![o] = NewOrder(kind, qty)]
  BY DEF Post, NewOrder
<1>4. out = "rejected" => ~ReachesBook(out)
  BY DEF ReachesBook
<1> HIDE DEF NewOrder
<1> QED
  BY <1>1, <1>2, <1>3, <1>4 DEF Post

\* The close that reaches the book is the one the file names.
LEMMA PostCloseStep ==
  ASSUME IInv, NEW out \in PostOutcome, PostClose(out) PROVE IInv'
<1> USE DEF PostClose, Goto, fileVars, envVars
<1>1. /\ cur \in OrderId /\ pos.open /\ pos.closeId = cur /\ orders[cur].status = "ABSENT"
      /\ pos.qty \in 0..Size
  BY DEF IInv, TypeOK, Position, CloseInHand, ClosingSteps, SettleSteps
<1>2. /\ orders' \in [OrderId -> Order] /\ held' = held
      /\ \A x \in OrderId \ {cur} : orders'[x] = orders[x]
      /\ orders'[cur] \in {orders[cur], NewOrder("close", pos.qty)}
      /\ out = "rejected" => orders'[cur] = orders[cur]
      /\ ~Recorded(cur)
  BY <1>1, PostFacts
<1>3. /\ pc' \in {"close_query", "close_failed", "close_resolve"}
      /\ pc' = "close_failed" => out = "rejected"
  BY DEF PostOutcome
<1>4. TypeOK'
  BY <1>2, <1>3 DEF IInv, TypeOK, SettleSteps
<1>5. BookOK'
  BY <1>1, <1>2 DEF IInv, BookOK, NewOrder
<1>6. CloseAccounted'
  BY <1>1, <1>2 DEF IInv, CloseAccounted, LiveClose, Recorded
<1>7. LedgerReal'
  <2>1. \A i \in DOMAIN ledger : ledger[i].order \in OrderId \ {cur}
    BY <1>1, <1>2, LedgerEntry DEF IInv, Recorded
  <2> QED
    BY <1>2, <2>1 DEF IInv, LedgerReal
<1>8. TornKeepsPosition' /\ DailyBudget'
  BY <1>3 DEF IInv, TornKeepsPosition, DailyBudget
<1>9. CloseInHand' /\ EntryInHand'
  BY <1>1, <1>2, <1>3 DEF IInv, CloseInHand, ClosingSteps, SettleSteps, EntryInHand,
         EntrySteps, Recorded
<1> QED
  BY <1>4, <1>5, <1>6, <1>7, <1>8, <1>9 DEF IInv

\* An entry is no close: it needs no place in the file.
LEMMA PostEntryStep ==
  ASSUME IInv, NEW out \in PostOutcome, PostEntry(out) PROVE IInv'
<1> USE DEF PostEntry, fileVars, envVars
<1>1. /\ cur \in OrderId /\ ~pos.open /\ pos.closeId = NoOrder
      /\ orders[cur].status = "ABSENT"
  BY DEF IInv, EntryInHand, EntrySteps, BookOK
<1>2. /\ orders' \in [OrderId -> Order] /\ held' = held
      /\ \A x \in OrderId \ {cur} : orders'[x] = orders[x]
      /\ orders'[cur] \in {orders[cur], NewOrder("entry", Size)}
      /\ ~Recorded(cur)
  BY <1>1, PostFacts
<1>3. pc' \in {"record", "result", "entry_resolve"} /\ submit' \in SubmitState
  BY DEF IInv, TypeOK, SubmitState
<1>4. TypeOK'
  BY <1>2, <1>3 DEF IInv, TypeOK, EntrySteps
<1>5. BookOK'
  BY <1>1, <1>2 DEF IInv, BookOK, NewOrder
<1>6. CloseAccounted'
  BY <1>1, <1>2 DEF IInv, CloseAccounted, LiveClose, Recorded, NewOrder
<1>7. LedgerReal'
  <2>1. \A i \in DOMAIN ledger : ledger[i].order \in OrderId \ {cur}
    BY <1>1, <1>2, LedgerEntry DEF IInv, Recorded
  <2> QED
    BY <1>2, <2>1 DEF IInv, LedgerReal
<1>8. TornKeepsPosition' /\ DailyBudget'
  BY <1>1 DEF IInv, TornKeepsPosition, DailyBudget
<1>9. CloseInHand' /\ EntryInHand'
  BY <1>1, <1>3 DEF IInv, CloseInHand, ClosingSteps, SettleSteps, EntryInHand,
         EntrySteps, Recorded
<1> QED
  BY <1>4, <1>5, <1>6, <1>7, <1>8, <1>9 DEF IInv

\* What the venue does to one order on its own.
LEMMA VenueFacts ==
  ASSUME TypeOK, VenueStep
  PROVE  /\ orders' \in [OrderId -> Order] /\ held' \in Nat
         /\ \A x \in OrderId :
              /\ orders'[x].kind = orders[x].kind
              /\ orders'[x].status = "ABSENT" <=> orders[x].status = "ABSENT"
              /\ orders'[x].status \in Working \cup Filled =>
                   orders[x].status \in Working \cup Filled
              /\ orders'[x].executed >= orders[x].executed
              /\ orders[x].executed > 0 => orders'[x].move = orders[x].move
<1> USE DEF TypeOK
<1>1. ASSUME NEW o \in OrderId, NEW n \in 1..Size, NEW m \in Moves \cup {0}, Fill(o, n, m)
      PROVE  /\ orders' \in [OrderId -> Order] /\ held' \in Nat
             /\ \A x \in OrderId \ {o} : orders'[x] = orders[x]
             /\ orders'[o].kind = orders[o].kind
             /\ orders'[o].status \in Filled /\ orders[o].status \in Working
             /\ orders'[o].executed >= orders[o].executed
             /\ orders[o].executed > 0 => orders'[o].move = orders[o].move
  <2> DEFINE ord == orders[o]
             st == IF ord.executed + n = ord.qty THEN "FILLED" ELSE "PARTIALLY_FILLED"
             new == [ord EXCEPT !.executed = ord.executed + n, !.move = m, !.status = st]
  <2>1. ord \in Order
    OBVIOUS
  <2>2. ord.executed + n \in 0..Size /\ st \in Filled /\ ord.status \in Working
    <3>1. /\ ord.executed \in 0..Size /\ ord.qty \in 0..Size
          /\ ord.executed + n <= ord.qty /\ ord.status \in Working
      BY <1>1, <2>1 DEF Fill, Order
    <3>2. ord.executed + n \in 0..Size
      BY <3>1
    <3> QED
      BY <3>1, <3>2 DEF Filled
  <2>3. new \in Order /\ new.kind = ord.kind /\ new.executed = ord.executed + n /\ new.move = m
        /\ new.status = st
    <3> HIDE DEF ord, st
    <3> QED
      BY <2>1, <2>2 DEF Order, OrderStatus
  <2>4. orders' = [orders EXCEPT ![o] = new]
    BY <1>1 DEF Fill
  <2>5. orders'[o] = new /\ \A x \in OrderId \ {o} : orders'[x] = orders[x]
    BY <2>4
  <2>6. orders' \in [OrderId -> Order]
    BY <2>3, <2>4
  <2>7. held' \in Nat
    <3>1. held \in Nat
      OBVIOUS
    <3>2. held' = held + n \/ (n <= held /\ held' = held - n)
      BY <1>1 DEF Fill
    <3> QED
      BY <3>1, <3>2
  <2>8. ord.executed > 0 => m = ord.move
    BY <1>1 DEF Fill
  <2> QED
    <3>1. ord.executed \in Nat
      BY <2>1 DEF Order
    <3>2. new.executed >= ord.executed
      BY <2>3, <3>1
    <3> HIDE DEF new, st
    <3> QED
      BY <2>2, <2>3, <2>5, <2>6, <2>7, <2>8, <3>2
<1>2. ASSUME NEW o \in OrderId, Expire(o)
      PROVE  /\ orders' \in [OrderId -> Order] /\ held' \in Nat
             /\ \A x \in OrderId \ {o} : orders'[x] = orders[x]
             /\ orders'[o].kind = orders[o].kind
             /\ orders'[o].status = "DEAD" /\ orders[o].status \in Working
             /\ orders'[o].executed = orders[o].executed
             /\ orders'[o].move = orders[o].move
  <2>1. PICK ord \in Order : ord = orders[o]
    OBVIOUS
  <2>2. PICK new : new = [ord EXCEPT !.status = "DEAD"]
    OBVIOUS
  <2>3. /\ new \in Order /\ new.kind = ord.kind /\ new.status = "DEAD"
        /\ new.executed = ord.executed /\ new.move = ord.move
    BY <2>2 DEF Order, OrderStatus
  <2>4. orders' = [orders EXCEPT ![o] = new] /\ held' = held /\ ord.status \in Working
    BY <1>2, <2>1, <2>2 DEF Expire
  <2>5. orders' \in [OrderId -> Order]
    BY <2>3, <2>4
  <2>6. orders'[o] = new /\ \A x \in OrderId \ {o} : orders'[x] = orders[x]
    BY <2>4
  <2> QED
    BY <2>1, <2>3, <2>4, <2>5, <2>6
<1>3. \A x \in OrderId : orders[x].executed \in Nat
  BY DEF Order
<1>4. ASSUME NEW o \in OrderId, NEW n \in 1..Size, NEW m \in Moves \cup {0}, Fill(o, n, m)
      PROVE  /\ orders' \in [OrderId -> Order] /\ held' \in Nat
             /\ \A x \in OrderId :
                  /\ orders'[x].kind = orders[x].kind
                  /\ orders'[x].status = "ABSENT" <=> orders[x].status = "ABSENT"
                  /\ orders'[x].status \in Working \cup Filled =>
                       orders[x].status \in Working \cup Filled
                  /\ orders'[x].executed >= orders[x].executed
                  /\ orders[x].executed > 0 => orders'[x].move = orders[x].move
  <2>1. /\ orders' \in [OrderId -> Order] /\ held' \in Nat
        /\ \A x \in OrderId \ {o} : orders'[x] = orders[x]
        /\ orders'[o].kind = orders[o].kind
        /\ orders'[o].status \in Filled /\ orders[o].status \in Working
        /\ orders'[o].executed >= orders[o].executed
        /\ orders[o].executed > 0 => orders'[o].move = orders[o].move
    BY <1>1, <1>4
  <2>2. orders'[o].status # "ABSENT" /\ orders[o].status # "ABSENT"
    BY <2>1 DEF Working, Filled
  <2> SUFFICES ASSUME NEW x \in OrderId
               PROVE  /\ orders'[x].kind = orders[x].kind
                      /\ orders'[x].status = "ABSENT" <=> orders[x].status = "ABSENT"
                      /\ orders'[x].status \in Working \cup Filled =>
                           orders[x].status \in Working \cup Filled
                      /\ orders'[x].executed >= orders[x].executed
                      /\ orders[x].executed > 0 => orders'[x].move = orders[x].move
    BY <2>1
  <2>3. CASE x = o
    BY <2>1, <2>2, <2>3
  <2>4. CASE x # o
    <3>1. orders'[x] = orders[x] /\ orders[x].executed \in Nat
      BY <1>3, <2>1, <2>4
    <3> QED
      BY <3>1
  <2> QED
    BY <2>3, <2>4
<1>5. ASSUME NEW o \in OrderId, Expire(o)
      PROVE  /\ orders' \in [OrderId -> Order] /\ held' \in Nat
             /\ \A x \in OrderId :
                  /\ orders'[x].kind = orders[x].kind
                  /\ orders'[x].status = "ABSENT" <=> orders[x].status = "ABSENT"
                  /\ orders'[x].status \in Working \cup Filled =>
                       orders[x].status \in Working \cup Filled
                  /\ orders'[x].executed >= orders[x].executed
                  /\ orders[x].executed > 0 => orders'[x].move = orders[x].move
  BY <1>2, <1>3, <1>5 DEF Working, Filled
<1> QED
  BY <1>4, <1>5 DEF VenueStep

\* Fills and expiries never undo what the file or the ledger says.
LEMMA VenueInvStep == ASSUME IInv, Venue PROVE IInv'
<1> USE DEF Venue, fileVars, runVars, envVars
<1>1. /\ orders' \in [OrderId -> Order] /\ held' \in Nat
      /\ \A x \in OrderId :
           /\ orders'[x].kind = orders[x].kind
           /\ orders'[x].status = "ABSENT" <=> orders[x].status = "ABSENT"
           /\ orders'[x].status \in Working \cup Filled =>
                orders[x].status \in Working \cup Filled
           /\ orders'[x].executed >= orders[x].executed
           /\ orders[x].executed > 0 => orders'[x].move = orders[x].move
           /\ orders[x].executed \in Nat /\ orders'[x].executed \in Nat
  <2>1. TypeOK /\ VenueStep
    BY DEF IInv
  <2>2. \A f \in [OrderId -> Order] : \A x \in OrderId : f[x].executed \in Nat
    BY DEF Order
  <2> QED
    BY <2>1, <2>2, VenueFacts DEF TypeOK
<1>2. TypeOK'
  BY <1>1 DEF IInv, TypeOK
<1>3. BookOK'
  BY <1>1 DEF IInv, BookOK, TypeOK, Position
<1>4. CloseAccounted'
  BY <1>1 DEF IInv, CloseAccounted, LiveClose, Recorded
<1>5. LedgerReal'
  <2>1. \A i \in DOMAIN ledger : ledger[i].order \in OrderId
    BY LedgerEntry DEF IInv
  <2> SUFFICES ASSUME NEW i \in DOMAIN ledger
               PROVE  LET o == ledger[i].order
                      IN  /\ orders'[o].kind = "close"
                          /\ ledger[i].qty \in 1..orders'[o].executed
                          /\ ledger[i].pnl = ledger[i].qty * orders'[o].move
    BY DEF LedgerReal
  <2> DEFINE o == ledger[i].order
  <2>2. /\ o \in OrderId /\ orders[o].kind = "close"
        /\ ledger[i].qty \in 1..orders[o].executed
        /\ ledger[i].pnl = ledger[i].qty * orders[o].move
    BY <2>1 DEF IInv, LedgerReal
  <2>3. orders[o].executed > 0 /\ ledger[i].qty \in 1..orders'[o].executed
    BY <1>1, <2>2
  <2>4. orders'[o].kind = "close" /\ orders'[o].move = orders[o].move
    BY <1>1, <2>2, <2>3
  <2> QED
    BY <2>2, <2>3, <2>4
<1>6. TornKeepsPosition' /\ DailyBudget'
  BY DEF IInv, TornKeepsPosition, DailyBudget
<1>7. EntryInHand'
  BY <1>1 DEF IInv, EntryInHand, EntrySteps
<1>8. CloseInHand'
  BY <1>1 DEF IInv, CloseInHand, ClosingSteps, SettleSteps, Recorded, TypeOK, Answer
<1> QED
  BY <1>2, <1>3, <1>4, <1>5, <1>6, <1>7, <1>8 DEF IInv

-----------------------------------------------------------------------------
(***************************************************************************)
(* Crashes and the clock.                                                  *)
(***************************************************************************)
\* A crash drops the locals; the files still account for every close.
LEMMA CrashStep == ASSUME IInv, Crash PROVE IInv'
<1> USE DEF Crash, venueVars, fileVars
<1>1. LocalType' /\ pc' = "idle"
  BY EndCycleLocal DEF EndCycle
<1>2. crashes' \in 0..MaxCrash /\ crashes' > 0
  BY DEF IInv, TypeOK
<1>3. TypeOK' /\ BookOK'
  BY <1>1, <1>2 DEF IInv, TypeOK, LocalType, BookOK
<1>4. CloseAccounted' /\ LedgerReal' /\ DailyBudget'
  BY DEF IInv, CloseAccounted, LiveClose, Recorded, LedgerReal, DailyBudget
<1>5. TornKeepsPosition'
  BY DEF IInv, TornKeepsPosition
<1>6. CloseInHand' /\ EntryInHand'
  BY <1>1 DEF IInv, CloseInHand, ClosingSteps, SettleSteps, EntryInHand, EntrySteps
<1> QED
  BY <1>3, <1>4, <1>5, <1>6 DEF IInv

\* A crash inside the append leaves a whole outcome or none, behind it a tail
\* that takes no other, and the position in the file.
LEMMA TearStep == ASSUME IInv, TearLedger PROVE IInv'
<1> USE DEF TearLedger, venueVars
<1>1. LocalType' /\ pc' = "idle"
  BY EndCycleLocal DEF EndCycle
<1>2. crashes' \in 0..MaxCrash /\ torn' \in {"line", "newline"}
  BY DEF IInv, TypeOK
<1>3. pos.open
  BY DEF IInv, CloseInHand, ClosingSteps, SettleSteps
<1>4. ledger' \in Seq(Outcome) /\ CloseAccounted' /\ LedgerReal'
  <2>1. CASE UNCHANGED ledger
    BY <2>1 DEF IInv, TypeOK, CloseAccounted, LiveClose, Recorded, LedgerReal
  <2>2. CASE ledger' = Append(ledger, OutcomeOf(cur, ans))
    BY <2>2, AppendOutcome
  <2> QED
    BY <2>1, <2>2
<1>5. TypeOK' /\ BookOK' /\ DailyBudget'
  BY <1>1, <1>2, <1>4 DEF IInv, TypeOK, LocalType, BookOK, DailyBudget
<1>6. CloseInHand' /\ EntryInHand' /\ TornKeepsPosition'
  BY <1>1, <1>3 DEF IInv, CloseInHand, ClosingSteps, SettleSteps, EntryInHand, EntrySteps,
         TornKeepsPosition
<1> QED
  BY <1>4, <1>5, <1>6 DEF IInv

\* The new day's counter is still zero, so a guard passed before midnight
\* holds after it.
LEMMA NextDayStep == ASSUME IInv, NextDay PROVE IInv'
<1> USE DEF NextDay, venueVars, fileVars, runVars
<1>1. day' \in Days /\ day' = day + 1 /\ day \in Days /\ counter \in [Days -> Nat]
  BY DEF IInv, TypeOK, Days
<1>2. TypeOK' /\ BookOK'
  BY <1>1 DEF IInv, TypeOK, BookOK
<1>3. /\ CloseAccounted' /\ LedgerReal' /\ TornKeepsPosition'
      /\ DailyBudget' /\ CloseInHand'
  BY DEF IInv, CloseAccounted, LiveClose, Recorded, LedgerReal, TornKeepsPosition,
         DailyBudget, CloseInHand
<1>4. EntryInHand'
  <2>1. counter[day'] = 0 /\ \A d \in Days : d > day' => counter[d] = 0
    BY <1>1 DEF IInv, EntryInHand, Days
  <2>2. counter[day] < MaxDaily => 0 < MaxDaily
    BY <1>1
  <2> QED
    BY <2>1, <2>2 DEF IInv, EntryInHand
<1> QED
  BY <1>2, <1>3, <1>4 DEF IInv

\* A new candle touches nothing IInv speaks of.
LEMMA NextCandleStep == ASSUME IInv, NextCandle PROVE IInv'
<1> USE DEF NextCandle, venueVars, fileVars, runVars
<1>1. TypeOK' /\ BookOK'
  BY DEF IInv, TypeOK, BookOK
<1>2. /\ CloseAccounted' /\ LedgerReal' /\ TornKeepsPosition'
      /\ DailyBudget' /\ CloseInHand' /\ EntryInHand'
  BY DEF IInv, CloseAccounted, LiveClose, Recorded, LedgerReal, TornKeepsPosition,
         DailyBudget, CloseInHand, EntryInHand
<1> QED
  BY <1>1, <1>2 DEF IInv

\* A stuttering step keeps IInv.
LEMMA StutterStep == ASSUME IInv, UNCHANGED vars PROVE IInv'
  BY DEF vars, IInv, TypeOK, BookOK, CloseInHand, EntryInHand, CloseAccounted,
         LiveClose, Recorded, LedgerReal, TornKeepsPosition, DailyBudget

\* One lemma per action: every step of the specification keeps IInv.
LEMMA NextIInv == IInv /\ [Next]_vars => IInv'
<1> SUFFICES ASSUME IInv, [Next]_vars PROVE IInv'
  OBVIOUS
<1>1. CASE \E s \in {"live", "refused"} : StartCycle(s)
  BY <1>1, StartCycleStep
<1>2. CASE Settle
  BY <1>2, SettleFlatStep, ResolvePendingStep, EvaluateExitStep, CloseGuardBlocksStep,
     PostCloseStep, ResolveCloseStep, AbandonCloseStep, ReadCloseFillStep, RecordStep,
     RecordRaisesStep, ClearPositionStep DEF Settle
<1>3. CASE Enter
  BY <1>3, SkipEntryStep, BeginEntryStep, FinalGuardReadyStep, FinalGuardBlocksStep,
     PostEntryStep, ResolveEntryStep, RecordSubmissionStep, WriteResultStep,
     ReconcileOrderStep, ReconcilePositionStep, OpenPositionStep DEF Enter
<1>4. CASE Crash \/ TearLedger \/ Venue \/ NextDay \/ NextCandle
  BY <1>4, CrashStep, TearStep, VenueInvStep, NextDayStep, NextCandleStep
<1>5. CASE UNCHANGED vars
  BY <1>5, StutterStep
<1> QED
  BY <1>1, <1>2, <1>3, <1>4, <1>5 DEF Next

-----------------------------------------------------------------------------
(***************************************************************************)
(* The theorems.                                                           *)
(***************************************************************************)
\* IInv, which ties the runner's step to the position file, the venue's book
\* and the ledger, holds in every reachable state of the live stage.
THEOREM Invariance == Spec => []IInv
  BY InitIInv, NextIInv, PTL DEF Spec

\* Files, locals and the venue's answers keep their types through every
\* cycle, crash and lost answer of the live stage.
THEOREM TypeCorrect == Spec => []TypeOK
<1>1. IInv => TypeOK
  BY DEF IInv
<1> QED
  BY <1>1, Invariance, PTL

\* The write-ahead of the close (live_position_kernel.py:432-437) is sound:
\* no crash, lost answer or retry leaves a close working or filled at the
\* venue that neither the position file nor the ledger names.
THEOREM CloseNeverLost == Spec => []CloseAccounted
<1>1. IInv => CloseAccounted
  BY DEF IInv
<1> QED
  BY <1>1, Invariance, PTL

\* _settle_from_fill appends only outcomes of real close orders, each for a
\* quantity the venue executed at the price it executed it.
THEOREM LedgerNeverInvents == Spec => []LedgerReal
<1>1. IInv => LedgerReal
  BY DEF IInv
<1> QED
  BY <1>1, Invariance, PTL

\* A ledger with a cut tail takes no outcome any more, and the position stays in
\* the file with it: no entry is guarded, sent or reconciled from then on.
THEOREM TornLedgerHolds == Spec => []TornLedgerStopsEntries
<1>1. IInv => TornLedgerStopsEntries
  BY DEF IInv, TornKeepsPosition, EntryInHand, TornLedgerStopsEntries
<1> QED
  BY <1>1, Invariance, PTL

\* The final guard keeps every day's order count within the limit, although
\* the count is read before the POST and written after it, on a day that may
\* be another one by then.
THEOREM BudgetNeverOverrun == Spec => []DailyBudget
<1>1. IInv => DailyBudget
  BY DEF IInv
<1> QED
  BY <1>1, Invariance, PTL

-----------------------------------------------------------------------------
(***************************************************************************)
(* LiveTrading implements LivePosition, for every value of the constants:  *)
(* an initial state maps to an initial state, and every step, from a state *)
(* of IInv, to one action of the kernel's promise or to a stutter.         *)
(***************************************************************************)
\* Steps that leave the book, the ledger and what the file names alone are
\* stutters of LivePosition.
LEMMA KernelStutter ==
  ASSUME UNCHANGED <<orders, ledger>>, pos'.open = pos.open, pos'.closeId = pos.closeId
  PROVE  UNCHANGED Kernel!vars
  BY DEF Kernel!vars, LiveCloses, ExecutedCloses, BookedCloses, LiveClose, Recorded

\* The kernel's sets depend on the book and the ledger alone.
LEMMA KernelSets ==
  /\ UNCHANGED orders => UNCHANGED <<LiveCloses, ExecutedCloses>>
  /\ UNCHANGED ledger => UNCHANGED BookedCloses
  BY DEF LiveCloses, ExecutedCloses, BookedCloses, LiveClose, Recorded

\* An id the venue never saw is no close of any kind.
LEMMA AbsentIsUnused ==
  ASSUME IInv, NEW o \in OrderId, orders[o].status = "ABSENT"
  PROVE  o \notin LiveCloses \cup ExecutedCloses \cup BookedCloses
<1>1. orders[o].kind = "none"
  BY DEF IInv, BookOK
<1>2. ~Recorded(o)
  BY <1>1 DEF IInv, LedgerReal, Recorded
<1> QED
  BY <1>1, <1>2 DEF LiveCloses, ExecutedCloses, BookedCloses, LiveClose

\* Giving up a pending close that is not live is Retire.
LEMMA RetireRefines ==
  ASSUME IInv, pos.open, pos.closeId \in OrderId, ~LiveClose(pos.closeId),
         pos' = RetirePending(pos), UNCHANGED <<orders, ledger, torn>>
  PROVE  Kernel!Retire
<1>1. pos'.open /\ pos'.closeId = NoOrder
  BY RetireFacts
<1>2. pos.closeId \notin LiveCloses
  BY DEF LiveCloses
<1> QED
  BY <1>1, <1>2, KernelSets DEF Kernel!Retire

\* A pending close is booked later, retired, or waited for.
LEMMA ResolvePendingRefines ==
  ASSUME IInv, resolve_pending_close PROVE Kernel!Retire \/ UNCHANGED Kernel!vars
<1> USE DEF resolve_pending_close, venueVars
<1>1. pos.open /\ pos.closeId \in OrderId
  BY DEF IInv, TypeOK, Position
<1>2. PICK a \in QueryAnswers(pos.closeId) :
        \/ pos' = pos
        \/ ProvenDead(a) /\ pos' = RetirePending(pos)
  OBVIOUS
<1>3. CASE pos' = pos
  BY <1>3, KernelStutter
<1>4. CASE ProvenDead(a) /\ pos' = RetirePending(pos)
  <2>1. ~LiveClose(pos.closeId)
    BY <1>1, <1>4, QueryFacts DEF IInv, ProvenDead, LiveClose, Working, Filled
  <2> QED
    BY <1>1, <1>4, <2>1, RetireRefines
<1> QED
  BY <1>2, <1>3, <1>4

\* A close that never reached the book is given up.
LEMMA AbandonRefines == ASSUME IInv, AbandonClose PROVE Kernel!Retire
<1> USE DEF AbandonClose, venueVars
<1>1. pos.open /\ pos.closeId \in OrderId /\ ~LiveClose(pos.closeId)
  BY DEF IInv, CloseInHand, ClosingSteps, SettleSteps, LiveClose, Working, Filled
<1> QED
  BY <1>1, RetireRefines

\* The write-ahead is NameClose; a bar without an exit is a stutter.
LEMMA EvaluateExitRefines ==
  ASSUME IInv, NEW ts \in Stamps, NEW touched \in BOOLEAN, NEW priced \in BOOLEAN,
         EvaluateExit(ts, touched, priced)
  PROVE  (\E o \in OrderId : Kernel!NameClose(o)) \/ UNCHANGED Kernel!vars
<1> USE DEF EvaluateExit, venueVars
<1> DEFINE p == advance_holding(pos, ts)
<1>1. p \in Position /\ p.open = pos.open /\ p.closeId = pos.closeId
  BY AdvanceFacts DEF IInv
<1>2. pos.open /\ pos.closeId = NoOrder
  BY DEF IInv, CloseInHand
<1>3. \/ pos' = p
      \/ \E o \in OrderId : Fresh(o) /\ pos' = [p EXCEPT !.closeId = o]
  BY DEF WriteAheadClose
<1>4. UNCHANGED <<orders, ledger>>
  OBVIOUS
<1> HIDE DEF p
<1>5. CASE pos' = p
  BY <1>1, <1>4, <1>5, KernelStutter
<1>6. ASSUME NEW o \in OrderId, Fresh(o), pos' = [p EXCEPT !.closeId = o]
      PROVE  Kernel!NameClose(o)
  <2>1. pos'.open /\ pos'.closeId = o
    BY <1>1, <1>2, <1>6 DEF Position
  <2>2. o \notin LiveCloses \cup ExecutedCloses \cup BookedCloses
    BY <1>6, AbsentIsUnused DEF Fresh
  <2> QED
    BY <1>2, <1>4, <2>1, <2>2, KernelSets DEF Kernel!NameClose
<1> QED
  BY <1>3, <1>5, <1>6

\* What a POST of an unused id does to the sets of closes.
LEMMA PostSets ==
  ASSUME IInv, NEW o \in OrderId, NEW kind \in {"entry", "close"}, NEW qty \in 0..Size,
         NEW out \in PostOutcome, Post(o, kind, qty, out), orders[o].status = "ABSENT"
  PROVE  /\ ExecutedCloses' = ExecutedCloses
         /\ \/ LiveCloses' = LiveCloses
            \/ kind = "close" /\ LiveCloses' = LiveCloses \cup {o}
<1>1. /\ \A x \in OrderId \ {o} : orders'[x] = orders[x]
      /\ orders'[o] \in {orders[o], NewOrder(kind, qty)}
  BY PostFacts
<1>2. o \notin LiveCloses \cup ExecutedCloses
  BY AbsentIsUnused
<1>3. ExecutedCloses' = ExecutedCloses
  BY <1>1, <1>2 DEF ExecutedCloses, NewOrder
<1>4. CASE orders'[o] = orders[o]
  <2>1. LiveCloses' = LiveCloses
    BY <1>1, <1>4 DEF LiveCloses, LiveClose
  <2> QED
    BY <1>3, <2>1
<1>5. CASE orders'[o] = NewOrder("entry", qty) /\ kind = "entry"
  <2>1. LiveCloses' = LiveCloses
    BY <1>1, <1>2, <1>5 DEF LiveCloses, LiveClose, NewOrder
  <2> QED
    BY <1>3, <2>1
<1>6. CASE orders'[o] = NewOrder("close", qty) /\ kind = "close"
  <2>1. LiveCloses' = LiveCloses \cup {o}
    BY <1>1, <1>6 DEF LiveCloses, LiveClose, NewOrder, Working
  <2> QED
    BY <1>3, <1>6, <2>1
<1> QED
  BY <1>1, <1>4, <1>5, <1>6

\* The close that reaches the book is the named one, for the first time.
LEMMA PostCloseRefines ==
  ASSUME IInv, NEW out \in PostOutcome, PostClose(out)
  PROVE  Kernel!SendClose \/ UNCHANGED Kernel!vars
<1> USE DEF PostClose, fileVars
<1>1. /\ cur \in OrderId /\ pos.open /\ pos.closeId = cur /\ orders[cur].status = "ABSENT"
      /\ pos.qty \in 0..Size
  BY DEF IInv, TypeOK, Position, CloseInHand, ClosingSteps, SettleSteps
<1>2. /\ ExecutedCloses' = ExecutedCloses
      /\ LiveCloses' = LiveCloses \/ LiveCloses' = LiveCloses \cup {cur}
  BY <1>1, PostSets
<1>3. cur \notin LiveCloses \cup ExecutedCloses
  BY <1>1, AbsentIsUnused
<1>4. UNCHANGED BookedCloses /\ pos' = pos
  BY KernelSets
<1>5. CASE LiveCloses' = LiveCloses
  BY <1>2, <1>4, <1>5 DEF Kernel!vars
<1>6. CASE LiveCloses' = LiveCloses \cup {cur}
  BY <1>1, <1>2, <1>3, <1>4, <1>6 DEF Kernel!SendClose
<1> QED
  BY <1>2, <1>5, <1>6

\* An entry is no close.
LEMMA PostEntryRefines ==
  ASSUME IInv, NEW out \in PostOutcome, PostEntry(out) PROVE UNCHANGED Kernel!vars
<1> USE DEF PostEntry, fileVars
<1>1. cur \in OrderId /\ orders[cur].status = "ABSENT" /\ Size \in 0..Size
  BY DEF IInv, EntryInHand, EntrySteps
<1>2. ExecutedCloses' = ExecutedCloses /\ LiveCloses' = LiveCloses
  BY <1>1, PostSets
<1> QED
  BY <1>2, KernelSets DEF Kernel!vars

\* A line appended for the close in hand is Book.
LEMMA BookRefines ==
  ASSUME IInv, pc = "ledger", ledger' = Append(ledger, OutcomeOf(cur, ans)),
         UNCHANGED <<orders, pos>>
  PROVE  Kernel!Book
<1>1. /\ cur \in OrderId /\ pos.open /\ pos.closeId = cur
      /\ orders[cur].kind = "close" /\ orders[cur].executed > 0
      /\ \A o : Recorded(o)' <=> Recorded(o) \/ o = cur
  BY AppendOutcome
<1>2. cur \in ExecutedCloses
  BY <1>1 DEF ExecutedCloses
<1>3. BookedCloses' = BookedCloses \cup {cur}
  BY <1>1 DEF BookedCloses
<1> QED
  BY <1>1, <1>2, <1>3, KernelSets DEF Kernel!Book

\* RecordOutcome is Book.
LEMMA RecordRefines == ASSUME IInv, RecordOutcome PROVE Kernel!Book
  BY BookRefines DEF RecordOutcome, venueVars

\* A crash inside the append is Book when the line was whole, and else nothing.
LEMMA TearRefines ==
  ASSUME IInv, TearLedger PROVE Kernel!Book \/ UNCHANGED Kernel!vars
<1>1. pc = "ledger" /\ UNCHANGED <<orders, pos>>
  BY DEF TearLedger, venueVars
<1>2. UNCHANGED ledger \/ ledger' = Append(ledger, OutcomeOf(cur, ans))
  BY DEF TearLedger
<1> QED
  BY <1>1, <1>2, BookRefines, KernelStutter

\* ClearPosition is Clear.
LEMMA ClearRefines == ASSUME IInv, ClearPosition PROVE Kernel!Clear
<1> USE DEF ClearPosition, AfterFill, venueVars
<1>1. cur \in OrderId /\ pos.open /\ pos.closeId = cur /\ Recorded(cur)
  BY DEF IInv, CloseInHand, ClosingSteps, SettleSteps
<1>2. pos.closeId \in BookedCloses
  BY <1>1 DEF BookedCloses
<1>3. ~pos'.open /\ pos'.closeId = NoOrder
  BY DEF Flat
<1> QED
  BY <1>1, <1>2, <1>3, KernelSets DEF Kernel!Clear

\* open_from_live_execution is Open, or finds nothing to track.
LEMMA OpenRefines ==
  ASSUME IInv, open_from_live_execution PROVE Kernel!Open \/ UNCHANGED Kernel!vars
<1> USE DEF open_from_live_execution, venueVars
<1>1. ~pos.open /\ pos.closeId = NoOrder
  BY DEF IInv, EntryInHand, EntrySteps, BookOK
<1>2. CASE pos' = pos
  BY <1>2, KernelStutter
<1>3. CASE pos' = PositionFromFill(cur, ans)
  <2>1. pos'.open /\ pos'.closeId = NoOrder
    BY <1>3 DEF PositionFromFill
  <2> QED
    BY <1>1, <2>1, KernelSets DEF Kernel!Open
<1> QED
  BY <1>2, <1>3

\* A fill of a close is VenueExecutes, its end VenueEnds; entries are no
\* business of the kernel's.
LEMMA VenueRefines ==
  ASSUME IInv, Venue
  PROVE  \/ \E o \in OrderId : Kernel!VenueExecutes(o) \/ Kernel!VenueEnds(o)
         \/ UNCHANGED Kernel!vars
<1> USE DEF Venue, fileVars
<1>1. orders \in [OrderId -> Order] /\ UNCHANGED <<pos, BookedCloses>>
  BY KernelSets DEF IInv, TypeOK
<1>2. ASSUME NEW o \in OrderId, NEW n \in 1..Size, NEW mv \in Moves \cup {0}, Fill(o, n, mv)
      PROVE  Kernel!VenueExecutes(o) \/ UNCHANGED Kernel!vars
  <2>1. /\ \A x \in OrderId \ {o} : orders'[x] = orders[x]
        /\ orders'[o].kind = orders[o].kind /\ orders'[o].executed = orders[o].executed + n
        /\ orders'[o].status \in Filled /\ orders[o].status \in Working
    BY <1>1, <1>2 DEF Fill, Filled, Order
  <2>2. orders'[o].executed > 0
    BY <1>1, <2>1 DEF Order
  <2>3. LiveCloses' = LiveCloses
    BY <2>1 DEF LiveCloses, LiveClose
  <2>4. CASE orders[o].kind = "close"
    <3>1. o \in LiveCloses
      BY <2>1, <2>4 DEF LiveCloses, LiveClose
    <3>2. ExecutedCloses' = ExecutedCloses \cup {o}
      BY <2>1, <2>2, <2>4 DEF ExecutedCloses
    <3> QED
      BY <1>1, <2>3, <3>1, <3>2 DEF Kernel!VenueExecutes
  <2>5. CASE orders[o].kind # "close"
    <3>1. ExecutedCloses' = ExecutedCloses
      BY <2>1, <2>5 DEF ExecutedCloses
    <3> QED
      BY <1>1, <2>3, <3>1 DEF Kernel!vars
  <2> QED
    BY <2>4, <2>5
<1>3. ASSUME NEW o \in OrderId, Expire(o)
      PROVE  Kernel!VenueEnds(o) \/ UNCHANGED Kernel!vars
  <2>1. /\ \A x \in OrderId \ {o} : orders'[x] = orders[x]
        /\ orders'[o].kind = orders[o].kind /\ orders'[o].executed = orders[o].executed
        /\ orders'[o].status = "DEAD" /\ orders[o].status \in Working
    BY <1>1, <1>3 DEF Expire, Order
  <2>2. ExecutedCloses' = ExecutedCloses
    BY <2>1 DEF ExecutedCloses
  <2>3. LiveCloses' = LiveCloses \ {o}
    BY <2>1 DEF LiveCloses, LiveClose, Working, Filled
  <2>4. CASE o \in LiveCloses
    BY <1>1, <2>2, <2>3, <2>4 DEF Kernel!VenueEnds
  <2>5. CASE o \notin LiveCloses
    BY <1>1, <2>2, <2>3, <2>5 DEF Kernel!vars
  <2> QED
    BY <2>4, <2>5
<1>4. VenueStep
  OBVIOUS
<1> QED
  BY <1>2, <1>3, <1>4 DEF VenueStep

\* Every step of the live stage is a step of the kernel's promise.
LEMMA NextRefines == IInv /\ [Next]_vars => [Kernel!Next]_(Kernel!vars)
<1> SUFFICES ASSUME IInv, [Next]_vars PROVE Kernel!Next \/ UNCHANGED Kernel!vars
  OBVIOUS
<1>1. CASE resolve_pending_close \/ AbandonClose
  BY <1>1, ResolvePendingRefines, AbandonRefines DEF Kernel!Next
<1>2. CASE \E ts \in Stamps, touched, priced \in BOOLEAN : EvaluateExit(ts, touched, priced)
  BY <1>2, EvaluateExitRefines DEF Kernel!Next
<1>3. CASE \E out \in PostOutcome : PostClose(out) \/ PostEntry(out)
  BY <1>3, PostCloseRefines, PostEntryRefines DEF Kernel!Next
<1>4. CASE RecordOutcome \/ TearLedger \/ ClearPosition \/ open_from_live_execution
  BY <1>4, RecordRefines, TearRefines, ClearRefines, OpenRefines DEF Kernel!Next
<1>5. CASE Venue
  BY <1>5, VenueRefines DEF Kernel!Next
<1>6. CASE \/ \E s \in {"live", "refused"} : StartCycle(s)
           \/ SettleFlat \/ CloseGuardBlocks \/ ResolveClose \/ ReadCloseFill
           \/ RecordRaises
  BY <1>6, KernelStutter DEF StartCycle, SettleFlat, CloseGuardBlocks, ResolveClose,
     ReadCloseFill, RecordRaises, fileVars, venueVars
<1>7. CASE \/ \E o \in OrderId : BeginEntry(o)
           \/ \E reachable \in BOOLEAN : ReconcilePosition(reachable)
           \/ SkipEntry \/ FinalGuardReady \/ FinalGuardBlocks \/ ResolveEntry
           \/ record_submission \/ WriteResult \/ ReconcileOrder
  BY <1>7, KernelStutter DEF SkipEntry, BeginEntry, FinalGuardReady, FinalGuardBlocks,
     ResolveEntry, record_submission, WriteResult, ReconcileOrder, ReconcilePosition,
     fileVars, venueVars
<1>8. CASE Crash \/ NextDay \/ NextCandle \/ UNCHANGED vars
  BY <1>8, KernelStutter DEF Crash, NextDay, NextCandle, fileVars, venueVars, vars
<1> QED
  BY <1>1, <1>2, <1>3, <1>4, <1>5, <1>6, <1>7, <1>8 DEF Next, Settle, Enter

\* The empty book, file and ledger are the kernel's initial state.
LEMMA InitRefines == Init => Kernel!Init
  BY DEF Init, VenueInit, AbsentOrder, Flat, Kernel!Init, LiveCloses, ExecutedCloses,
         BookedCloses, LiveClose, Recorded

\* The live stage implements the kernel's promise: through cycles, lost
\* answers, retries, crashes, days and candles, one position is tracked, its
\* close is named before it is sent, sent once, given up only when the venue
\* can no longer fill it, and the position dropped only when it is booked.
THEOREM LiveTradingImplements == Spec => ImplementsLivePosition
<1>1. Init => Kernel!Init
  BY InitRefines
<1>2. IInv /\ [Next]_vars => [Kernel!Next]_(Kernel!vars)
  BY NextRefines
<1> QED
  BY <1>1, <1>2, Invariance, PTL DEF Spec, ImplementsLivePosition, Kernel!Spec

\* The kernel never fabricates a close (live_position_kernel.py:12-15): the
\* file goes from OPEN to CLOSED only when the venue has executed a part of
\* the pending close and the ledger holds its outcome.
THEOREM CloseNeverFabricated ==
  Spec => [][pos.open /\ ~pos'.open =>
               pos.closeId \in BookedCloses \cap ExecutedCloses]_vars
<1>1. ASSUME IInv, [Next]_vars, pos.open, ~pos'.open
      PROVE  pos.closeId \in BookedCloses \cap ExecutedCloses
  <2>1. Kernel!Next \/ UNCHANGED Kernel!vars
    BY <1>1, NextRefines
  <2>2. Kernel!Clear
    BY <1>1, <2>1 DEF Kernel!Next, Kernel!Open, Kernel!NameClose, Kernel!SendClose,
       Kernel!VenueExecutes, Kernel!VenueEnds, Kernel!Retire, Kernel!Book, Kernel!vars
  <2>3. BookedCloses \subseteq ExecutedCloses
    <3>1. ASSUME NEW i \in DOMAIN ledger
          PROVE  orders[ledger[i].order].kind = "close"
                 /\ orders[ledger[i].order].executed > 0
      <4>1. ledger[i].order \in OrderId
        BY <1>1, LedgerEntry DEF IInv
      <4>2. orders[ledger[i].order].executed \in Nat
        BY <1>1, <4>1 DEF IInv, TypeOK, Order
      <4> QED
        BY <1>1, <4>2 DEF IInv, LedgerReal
    <3> QED
      BY <3>1 DEF BookedCloses, ExecutedCloses, Recorded
  <2> QED
    BY <2>2, <2>3 DEF Kernel!Clear
<1>2. IInv /\ [Next]_vars =>
        [pos.open /\ ~pos'.open => pos.closeId \in BookedCloses \cap ExecutedCloses]_vars
  BY <1>1
<1> QED
  BY <1>2, Invariance, PTL DEF Spec

-----------------------------------------------------------------------------
(***************************************************************************)
(* The limits, relative to IInv: the order counter against the venue's     *)
(* book, and the daily loss against the ledger.                            *)
(***************************************************************************)
\* A day's realized result is an integer.
LEMMA RealizedType == ASSUME TypeOK, NEW d PROVE RealizedOn(d) \in Int
<1> DEFINE S == {i \in DOMAIN ledger : ledger[i].day = d}
           f == [i \in DOMAIN ledger |-> ledger[i].pnl]
<1>1. ledger \in Seq(Outcome) /\ \A e \in Outcome : e.pnl \in Int
  BY DEF TypeOK, Outcome
<1>2. IsFiniteSet(S)
  <2>1. DOMAIN ledger = 1..Len(ledger) /\ Len(ledger) \in Nat
    BY <1>1
  <2>2. IsFiniteSet(DOMAIN ledger)
    BY <2>1, FS_Interval
  <2> QED
    BY <2>2, FS_Subset
<1>3. \A i \in S : f[i] \in Int
  <2>1. \A i \in DOMAIN ledger : ledger[i] \in Outcome
    BY <1>1
  <2> QED
    BY <1>1, <2>1
<1> HIDE DEF S, f
<1>4. SumFunctionOnSet(f, S) \in Int
  BY <1>2, <1>3, SumType
<1> QED
  BY <1>4 DEF RealizedOn, S, f

\* The days of a model are finitely many.
LEMMA DaysFinite == IsFiniteSet(Days)
<1>1. MaxDay \in Int /\ 1 \in Int
  OBVIOUS
<1> QED
  BY <1>1, FS_Interval, Zenon DEF Days

\* The counters of all days add up to a natural number.
LEMMA CountType == ASSUME TypeOK PROVE SumFunction(counter) \in Nat
<1>1. counter \in [Days -> Nat] /\ IsFiniteSet(Days)
  BY DaysFinite DEF TypeOK
<1>2. \A d \in Days : counter[d] \in Nat
  BY <1>1
<1>3. SumFunctionOnSet(counter, Days) \in Nat
  BY <1>1, <1>2, SumNat
<1> QED
  BY <1>1, <1>3 DEF SumFunction

\* Losing sight of one order costs at most one.
LEMMA OneMore ==
  ASSUME NEW S, IsFiniteSet(S), NEW x
  PROVE  Cardinality(S) \in Nat /\ Cardinality(S \ {x}) \in Nat
         /\ Cardinality(S) <= Cardinality(S \ {x}) + 1
  BY FS_RemoveElement, FS_CardinalityType, FS_Subset

\* What is counted stays counted while nothing leaves the runner's hand.
LEMMA CountKept ==
  ASSUME TypeOK, EntriesCounted, UNCHANGED <<counter, crashes>>, NEW o,
         EntryOrders' \subseteq EntryOrders \cup {o},
         EntryOrders' \ InFlight' \subseteq EntryOrders \ InFlight
  PROVE  EntriesCounted'
<1> DEFINE A == EntryOrders \ InFlight
           B == EntryOrders' \ InFlight'
<1>1. IsFiniteSet(EntryOrders) /\ IsFiniteSet(A) /\ IsFiniteSet(EntryOrders')
  BY FS_Subset, FS_AddElement DEF EntriesCounted
<1>2. Cardinality(B) \in Nat /\ Cardinality(B) <= Cardinality(A) /\ Cardinality(A) \in Nat
  BY <1>1, FS_Subset, FS_CardinalityType
<1>3. SumFunction(counter)' = SumFunction(counter) /\ SumFunction(counter) \in Nat
  BY CountType
<1>4. crashes \in Nat /\ crashes' = crashes
  BY DEF TypeOK
<1>5. Cardinality(A) <= SumFunction(counter) + crashes
  BY DEF EntriesCounted
<1>6. Cardinality(B) <= SumFunction(counter)' + crashes'
  <2> HIDE DEF A, B
  <2> QED
    BY <1>2, <1>3, <1>4, <1>5
<1> QED
  BY <1>1, <1>6 DEF EntriesCounted

\* The breaker's verdict holds as long as nothing is booked on the day.
LEMMA LossesKept ==
  ASSUME LossesSeen, UNCHANGED <<ledger, day>>, pc' = "post" => pc = "post"
  PROVE  LossesSeen'
  BY DEF LossesSeen, RealizedOn

\* A line appended for the close in hand is booked on the day it is.
LEMMA BookedToday ==
  ASSUME TypeOK, LossesSeen, ledger' \in Seq(Outcome),
         ledger' = Append(ledger, OutcomeOf(cur, ans)), day' = day, pc' # "post"
  PROVE  LossesSeen'
<1> DEFINE e == OutcomeOf(cur, ans)
<1>1. ledger \in Seq(Outcome) /\ ledger' = Append(ledger, e) /\ e.day = day
  BY DEF OutcomeOf, TypeOK
<1> HIDE DEF e
<1>2. \A i \in DOMAIN ledger' :
        ledger'[i] = e \/ (i \in DOMAIN ledger /\ ledger'[i] = ledger[i])
  BY <1>1
<1>3. day \in Int
  BY DEF TypeOK, Days
<1> QED
  BY <1>1, <1>2, <1>3 DEF LossesSeen

\* Steps that leave book, counter, ledger and day alone.
LEMMA LimitsKept ==
  ASSUME TypeOK, LimitsInv, UNCHANGED <<orders, counter, ledger, day, crashes>>,
         EntryOrders \cap InFlight \subseteq InFlight', pc' = "post" => pc = "post"
  PROVE  LimitsInv'
<1>1. EntryOrders' = EntryOrders
  BY DEF EntryOrders
<1>2. EntriesCounted'
  BY <1>1, CountKept DEF LimitsInv
<1> QED
  BY <1>2, LossesKept DEF LimitsInv

\* The empty ledger and book are inside every limit.
LEMMA InitLimits == Init => LimitsInv
<1> SUFFICES ASSUME Init PROVE LimitsInv
  OBVIOUS
<1>1. TypeOK
  BY InitIInv DEF IInv
<1>2. EntryOrders = {} /\ InFlight = {}
  BY DEF Init, VenueInit, EntryOrders, AbsentOrder, InFlight
<1>3. SumFunction(counter) + crashes \in Nat
  BY <1>1, CountType DEF TypeOK
<1>4. EntriesCounted
  BY <1>2, <1>3, FS_EmptySet DEF EntriesCounted
<1>5. LossesSeen
  BY DEF Init, LossesSeen
<1> QED
  BY <1>4, <1>5 DEF LimitsInv

\* A settlement step touches neither entries nor counter.
LEMMA SettleLimits == ASSUME IInv, LimitsInv, Settle PROVE LimitsInv'
<1> USE DEF Goto, venueVars, fileVars, envVars
<1>1. TypeOK
  BY DEF IInv
<1>2. InFlight = {} \/ pc \in {"entry_resolve", "record"}
  BY DEF InFlight
<1>3. CASE \/ SettleFlat \/ resolve_pending_close \/ CloseGuardBlocks \/ ResolveClose
           \/ AbandonClose \/ ReadCloseFill \/ RecordRaises \/ ClearPosition
           \/ \E ts \in Stamps, touched, priced \in BOOLEAN : EvaluateExit(ts, touched, priced)
  <2>1. UNCHANGED <<orders, counter, ledger, day, crashes>>
    BY <1>3 DEF SettleFlat, resolve_pending_close, CloseGuardBlocks, ResolveClose,
       AbandonClose, ReadCloseFill, RecordRaises, AppendRaises, EndCycle,
       ClearPosition, EvaluateExit
  <2>2. pc \notin {"entry_resolve", "record"} /\ pc' # "post"
    BY <1>3 DEF SettleFlat, resolve_pending_close, CloseGuardBlocks, ResolveClose,
       AbandonClose, ReadCloseFill, RecordRaises, AppendRaises, EndCycle,
       ClearPosition, EvaluateExit
  <2> QED
    BY <1>1, <1>2, <2>1, <2>2, LimitsKept
<1>4. ASSUME NEW out \in PostOutcome, PostClose(out) PROVE LimitsInv'
  <2>1. /\ cur \in OrderId /\ orders[cur].status = "ABSENT" /\ pos.qty \in 0..Size
        /\ pc = "close_post" /\ pc' # "post" /\ UNCHANGED <<counter, ledger, day, crashes>>
    BY <1>4 DEF IInv, TypeOK, Position, CloseInHand, ClosingSteps, SettleSteps, PostClose
  <2>2. /\ \A x \in OrderId \ {cur} : orders'[x] = orders[x]
        /\ orders'[cur] \in {orders[cur], NewOrder("close", pos.qty)}
    BY <1>4, <2>1, PostFacts DEF PostClose
  <2>3. EntryOrders' \subseteq EntryOrders
    BY <2>1, <2>2 DEF EntryOrders, NewOrder
  <2>4. InFlight = {}
    BY <2>1 DEF InFlight
  <2>5. EntriesCounted'
    BY <1>1, <2>1, <2>3, <2>4, CountKept DEF LimitsInv
  <2> QED
    BY <2>1, <2>5, LossesKept DEF LimitsInv
<1>5. CASE RecordOutcome
  <2>1. pc = "ledger" /\ pc' = "clear" /\ UNCHANGED <<orders, counter, day, crashes>>
    BY <1>5 DEF RecordOutcome
  <2>2. EntryOrders' = EntryOrders /\ InFlight = {}
    BY <2>1 DEF EntryOrders, InFlight
  <2>3. EntriesCounted'
    BY <1>1, <2>1, <2>2, CountKept DEF LimitsInv
  <2>4. ledger' \in Seq(Outcome)
    BY <1>5, RecordStep DEF IInv, TypeOK
  <2>5. LossesSeen'
    BY <1>1, <1>5, <2>1, <2>4, BookedToday DEF RecordOutcome, LimitsInv
  <2> QED
    BY <2>3, <2>5 DEF LimitsInv
<1> QED
  BY <1>3, <1>4, <1>5 DEF Settle

\* An entry passes the guard only inside the day's loss limit, and one that
\* may be at the venue stays in hand until it is counted.
LEMMA EnterLimits == ASSUME IInv, LimitsInv, Enter PROVE LimitsInv'
<1> USE DEF Goto, venueVars, fileVars, envVars
<1>1. TypeOK
  BY DEF IInv
<1>2. pc \notin {"entry_resolve", "record"} => InFlight = {}
  BY DEF InFlight
<1>3. CASE \/ SkipEntry \/ FinalGuardBlocks \/ WriteResult \/ ReconcileOrder
           \/ open_from_live_execution
           \/ \E o \in OrderId : BeginEntry(o)
           \/ \E reachable \in BOOLEAN : ReconcilePosition(reachable)
  <2>1. UNCHANGED <<orders, counter, ledger, day, crashes>>
    BY <1>3 DEF SkipEntry, FinalGuardBlocks, WriteResult, ReconcileOrder,
       open_from_live_execution, BeginEntry, ReconcilePosition
  <2>2. pc \notin {"entry_resolve", "record"} /\ pc' # "post"
    BY <1>3 DEF SkipEntry, FinalGuardBlocks, WriteResult, ReconcileOrder,
       open_from_live_execution, BeginEntry, ReconcilePosition, EndCycle
  <2> QED
    BY <1>1, <1>2, <2>1, <2>2, LimitsKept
<1>4. CASE FinalGuardReady
  <2>1. UNCHANGED <<orders, counter, ledger, day, crashes>> /\ InFlight = {}
    BY <1>4 DEF FinalGuardReady, InFlight
  <2>2. EntryOrders' = EntryOrders
    BY <2>1 DEF EntryOrders
  <2>3. EntriesCounted'
    BY <1>1, <2>1, <2>2, CountKept DEF LimitsInv
  <2>4. RealizedOn(day) \in Int /\ ~(LossLimit <= 0) /\ ~(RealizedOn(day) <= -LossLimit)
    BY <1>1, <1>4, RealizedType DEF FinalGuardReady, final_guard_ready,
       daily_loss_limit_breached
  <2>5. LossLimit > 0 /\ RealizedOn(day) > -LossLimit
    BY <2>4
  <2>6. RealizedOn(day)' = RealizedOn(day)
    BY <2>1 DEF RealizedOn
  <2> QED
    BY <2>1, <2>3, <2>5, <2>6 DEF LimitsInv, LossesSeen
<1>5. ASSUME NEW out \in PostOutcome, PostEntry(out) PROVE LimitsInv'
  <2>1. /\ cur \in OrderId /\ orders[cur].status = "ABSENT" /\ cur' = cur
        /\ pc = "post" /\ pc' # "post" /\ UNCHANGED <<counter, ledger, day, crashes>>
    BY <1>5 DEF IInv, EntryInHand, EntrySteps, PostEntry
  <2>2. /\ \A x \in OrderId \ {cur} : orders'[x] = orders[x]
        /\ orders'[cur] \in {orders[cur], NewOrder("entry", Size)}
        /\ out = "rejected" => orders'[cur] = orders[cur]
    BY <1>5, <2>1, PostFacts DEF PostEntry
  <2>3. EntryOrders' \subseteq EntryOrders \cup {cur}
    BY <2>2 DEF EntryOrders
  <2>4. out # "rejected" => cur \in InFlight'
    BY <1>5, <2>1 DEF InFlight, PostEntry
  <2>5. out = "rejected" => EntryOrders' \subseteq EntryOrders
    BY <2>2 DEF EntryOrders
  <2>6. EntriesCounted'
    BY <1>1, <1>2, <2>1, <2>3, <2>4, <2>5, CountKept DEF LimitsInv
  <2> QED
    BY <2>1, <2>6, LossesKept DEF LimitsInv
<1>6. CASE ResolveEntry
  <2>1. UNCHANGED <<orders, counter, ledger, day, crashes, cur>> /\ pc = "entry_resolve"
    BY <1>6 DEF ResolveEntry
  <2>2. PICK a \in QueryAnswers(cur) :
          pc' = IF Performed(ResolvedSubmit(a)) THEN "record" ELSE "result"
    BY <1>6 DEF ResolveEntry
  <2>3. cur \in OrderId /\ InFlight = {cur}
    BY <2>1 DEF IInv, EntryInHand, EntrySteps, InFlight
  <2>4. CASE a.code = "not_found"
    <3>1. cur \notin EntryOrders
      BY <1>1, <2>3, <2>4, QueryFacts DEF IInv, BookOK, EntryOrders
    <3>2. pc' # "post"
      BY <2>2
    <3> QED
      BY <1>1, <2>1, <2>3, <3>1, <3>2, LimitsKept
  <2>5. CASE a.code # "not_found"
    <3>1. pc' = "record"
      BY <2>2, <2>5 DEF Performed, ResolvedSubmit
    <3>2. InFlight' = {cur}
      BY <2>1, <3>1 DEF InFlight
    <3> QED
      BY <1>1, <2>1, <2>3, <3>1, <3>2, LimitsKept
  <2> QED
    BY <2>4, <2>5
<1>7. CASE record_submission
  <2>1. /\ pc = "record" /\ pc' = "result" /\ UNCHANGED <<orders, ledger, day, crashes>>
        /\ counter' = [counter EXCEPT ![day] = @ + 1]
    BY <1>7 DEF record_submission
  <2>2. /\ counter \in [Days -> Nat] /\ day \in Days /\ IsFiniteSet(Days)
        /\ crashes \in Nat
    BY <1>1, DaysFinite DEF TypeOK
  <2>3. SumFunction(counter') = SumFunction(counter) + 1 /\ SumFunction(counter) \in Nat
    <3>1. /\ \A d \in Days : counter[d] \in Int
          /\ counter'[day] \in Int /\ counter'[day] = counter[day] + 1
          /\ \A d \in Days \ {day} : counter'[d] = counter[d]
          /\ DOMAIN counter = Days /\ DOMAIN counter' = Days
      BY <2>1, <2>2
    <3>2. SumFunctionOnSet(counter', Days)
            = SumFunctionOnSet(counter, Days) + (counter'[day] - counter[day])
      BY <2>2, <3>1, SumUpdates
    <3>3. SumFunction(counter) \in Nat
      BY <1>1, CountType
    <3> QED
      BY <2>2, <3>1, <3>2, <3>3 DEF SumFunction
  <2>4. EntryOrders' = EntryOrders /\ InFlight = {cur} /\ InFlight' = {}
    BY <2>1 DEF EntryOrders, InFlight
  <2>5. IsFiniteSet(EntryOrders)
        /\ Cardinality(EntryOrders \ {cur}) <= SumFunction(counter) + crashes
    BY <2>4 DEF LimitsInv, EntriesCounted
  <2>6. Cardinality(EntryOrders) <= SumFunction(counter') + crashes'
    <3> HIDE DEF EntryOrders
    <3>1. /\ Cardinality(EntryOrders) \in Nat /\ Cardinality(EntryOrders \ {cur}) \in Nat
          /\ Cardinality(EntryOrders) <= Cardinality(EntryOrders \ {cur}) + 1
      BY <2>5, OneMore
    <3> QED
      BY <2>1, <2>2, <2>3, <2>5, <3>1
  <2>7. EntryOrders' \ InFlight' = EntryOrders
    BY <2>4
  <2>8. EntriesCounted'
    BY <2>4, <2>5, <2>6, <2>7 DEF EntriesCounted
  <2> QED
    BY <2>1, <2>8, LossesKept DEF LimitsInv
<1> QED
  BY <1>3, <1>4, <1>5, <1>6, <1>7 DEF Enter

\* The venue makes no entry of its own, a crash cuts off at most one, and a
\* new day starts without losses.
LEMMA WorldLimits ==
  ASSUME IInv, LimitsInv,
         \/ \E s \in {"live", "refused"} : StartCycle(s)
         \/ Crash \/ TearLedger \/ Venue \/ NextDay \/ NextCandle \/ UNCHANGED vars
  PROVE  LimitsInv'
<1> USE DEF venueVars, fileVars, runVars, envVars
<1>1. TypeOK
  BY DEF IInv
<1>2. CASE (\E s \in {"live", "refused"} : StartCycle(s)) \/ NextCandle \/ UNCHANGED vars
  <2>1. pc' # "post" \/ pc' = pc
    BY <1>2 DEF StartCycle, NextCandle, vars
  <2>2. UNCHANGED <<orders, counter, ledger, day, crashes>>
    BY <1>2 DEF StartCycle, NextCandle, vars
  <2>3. InFlight = {} \/ InFlight' = InFlight
    BY <1>2 DEF StartCycle, NextCandle, vars, InFlight
  <2>4. pc' = "post" => pc = "post"
    BY <2>1
  <2>5. EntryOrders \cap InFlight \subseteq InFlight'
    BY <2>3
  <2> QED
    BY <1>1, <2>2, <2>4, <2>5, LimitsKept
<1>3. CASE Venue
  <2>1. \A x \in OrderId : orders'[x].kind = orders[x].kind
    BY <1>1, <1>3, VenueFacts DEF Venue
  <2>2. EntryOrders' = EntryOrders
    BY <2>1 DEF EntryOrders
  <2>3. UNCHANGED <<counter, ledger, day, crashes, pc, cur>>
    BY <1>3 DEF Venue
  <2>4. InFlight' = InFlight
    BY <2>3 DEF InFlight
  <2>5. EntriesCounted'
    BY <1>1, <2>2, <2>3, <2>4, CountKept DEF LimitsInv
  <2> QED
    BY <2>3, <2>5, LossesKept DEF LimitsInv
<1>4. CASE Crash
  <2>1. UNCHANGED <<orders, counter, ledger, day>> /\ pc' = "idle" /\ crashes' = crashes + 1
    BY <1>4 DEF Crash, EndCycle
  <2>2. EntryOrders' = EntryOrders /\ InFlight \subseteq {cur} /\ InFlight' = {}
    BY <2>1 DEF EntryOrders, InFlight
  <2>3. IsFiniteSet(EntryOrders) /\ SumFunction(counter) \in Nat /\ crashes \in Nat
        /\ SumFunction(counter)' = SumFunction(counter)
        /\ Cardinality(EntryOrders \ InFlight) <= SumFunction(counter) + crashes
    BY <1>1, <2>1, CountType DEF LimitsInv, EntriesCounted, TypeOK
  <2>4. Cardinality(EntryOrders) <= SumFunction(counter)' + crashes'
    <3> HIDE DEF EntryOrders, InFlight
    <3>1. /\ Cardinality(EntryOrders) \in Nat /\ Cardinality(EntryOrders \ {cur}) \in Nat
          /\ Cardinality(EntryOrders) <= Cardinality(EntryOrders \ {cur}) + 1
      BY <2>3, OneMore
    <3>2. EntryOrders \ {cur} \subseteq EntryOrders \ InFlight
      BY <2>2
    <3>3. IsFiniteSet(EntryOrders \ InFlight)
      BY <2>3, FS_Subset
    <3>4. Cardinality(EntryOrders \ {cur}) <= Cardinality(EntryOrders \ InFlight)
          /\ Cardinality(EntryOrders \ InFlight) \in Nat
      BY <3>2, <3>3, FS_Subset, FS_CardinalityType
    <3> QED
      BY <2>1, <2>3, <3>1, <3>4
  <2>5. EntryOrders' \ InFlight' = EntryOrders
    BY <2>2
  <2>6. EntriesCounted'
    BY <2>2, <2>3, <2>4, <2>5 DEF EntriesCounted
  <2> QED
    BY <2>1, <2>6, LossesKept DEF LimitsInv
<1>5. CASE NextDay
  <2>1. UNCHANGED <<orders, counter, ledger, crashes, pc, cur>> /\ day' = day + 1
    BY <1>5 DEF NextDay
  <2>2. EntryOrders' = EntryOrders /\ InFlight' = InFlight
    BY <2>1 DEF EntryOrders, InFlight
  <2>3. EntriesCounted'
    BY <1>1, <2>1, <2>2, CountKept DEF LimitsInv
  <2>4. \A i \in DOMAIN ledger : ledger[i].day <= day' /\ ledger[i].day # day'
    <3>1. \A e \in Outcome : e.day \in Int
      BY DEF Outcome, Days
    <3>2. \A i \in DOMAIN ledger : ledger[i].day \in Int /\ ledger[i].day <= day
      BY <1>1, <3>1, LedgerEntry DEF LimitsInv, LossesSeen
    <3>3. day \in Int
      BY <1>1 DEF TypeOK, Days
    <3> QED
      BY <2>1, <3>2, <3>3
  <2>5. RealizedOn(day') = 0
    <3>1. {i \in DOMAIN ledger : ledger[i].day = day'} = {}
      BY <2>4
    <3> QED
      BY <3>1, SumEmpty DEF RealizedOn
  <2>6. RealizedOn(day)' = 0
    BY <2>1, <2>5 DEF RealizedOn
  <2>7. pc' = "post" => LossLimit > 0
    BY <2>1 DEF LimitsInv, LossesSeen
  <2>8. pc' = "post" => LossLimit > 0 /\ RealizedOn(day)' > -LossLimit
    BY <2>6, <2>7
  <2>9. LossesSeen'
    BY <2>1, <2>4, <2>8 DEF LossesSeen
  <2> QED
    BY <2>3, <2>9 DEF LimitsInv
<1>6. CASE TearLedger
  <2>1. /\ UNCHANGED <<orders, counter, day>> /\ pc = "ledger" /\ pc' = "idle"
        /\ crashes' = crashes + 1
        /\ UNCHANGED ledger \/ ledger' = Append(ledger, OutcomeOf(cur, ans))
    BY <1>6 DEF TearLedger, EndCycle
  <2>2. EntryOrders' = EntryOrders /\ InFlight' = InFlight
    BY <2>1 DEF EntryOrders, InFlight
  <2>3. /\ IsFiniteSet(EntryOrders) /\ SumFunction(counter)' = SumFunction(counter)
        /\ SumFunction(counter) \in Nat /\ crashes \in Nat
        /\ Cardinality(EntryOrders \ InFlight) \in Nat
        /\ Cardinality(EntryOrders \ InFlight) <= SumFunction(counter) + crashes
    BY <1>1, <2>1, CountType, FS_Subset, FS_CardinalityType
       DEF LimitsInv, EntriesCounted, TypeOK
  <2>4. EntriesCounted'
    <3> HIDE DEF EntryOrders, InFlight
    <3>1. Cardinality(EntryOrders \ InFlight) <= SumFunction(counter)' + crashes'
      BY <2>1, <2>3
    <3> QED
      BY <2>2, <2>3, <3>1 DEF EntriesCounted
  <2>5. ledger' \in Seq(Outcome)
    BY <1>6, TearStep DEF IInv, TypeOK
  <2>6. LossesSeen'
    BY <1>1, <2>1, <2>5, BookedToday, LossesKept DEF LimitsInv
  <2> QED
    BY <2>4, <2>6 DEF LimitsInv
<1> QED
  BY <1>2, <1>3, <1>4, <1>5, <1>6

\* Every step keeps the limits.
LEMMA NextLimits == IInv /\ LimitsInv /\ [Next]_vars => LimitsInv'
  BY SettleLimits, EnterLimits, WorldLimits DEF Next

\* In every reachable state the entries at the venue are counted, but for the
\* one in hand and one per crash, and the breaker has the day's losses.
THEOREM LimitsInvariance == Spec => []LimitsInv
  BY InitLimits, NextLimits, Invariance, PTL DEF Spec

\* Every entry the venue took is counted against the budget, answered or not:
\* only a crash between the POST and record_submission hides one.
THEOREM BudgetNeverShort == Spec => []BudgetCoversVenue
<1>1. ASSUME IInv, LimitsInv PROVE BudgetCoversVenue
  <2>1. TypeOK /\ IsFiniteSet(EntryOrders)
    BY <1>1 DEF IInv, LimitsInv, EntriesCounted
  <2>2. SumFunction(counter) \in Nat /\ crashes \in Nat
    BY <2>1, CountType DEF TypeOK
  <2>3. CASE pc \in {"entry_resolve", "record"}
    <3>1. Cardinality(EntryOrders \ {cur}) <= SumFunction(counter) + crashes
      BY <1>1, <2>3 DEF LimitsInv, EntriesCounted, InFlight
    <3>2. /\ Cardinality(EntryOrders) \in Nat /\ Cardinality(EntryOrders \ {cur}) \in Nat
          /\ Cardinality(EntryOrders) <= Cardinality(EntryOrders \ {cur}) + 1
      BY <2>1, OneMore
    <3> QED
      BY <2>2, <2>3, <3>1, <3>2 DEF BudgetCoversVenue
  <2>4. CASE pc \notin {"entry_resolve", "record"}
    <3>1. EntryOrders \ InFlight = EntryOrders
      BY <2>4 DEF InFlight
    <3>2. Cardinality(EntryOrders) <= SumFunction(counter) + crashes
      BY <1>1, <3>1 DEF LimitsInv, EntriesCounted
    <3> QED
      BY <2>2, <2>4, <3>2 DEF BudgetCoversVenue
  <2> QED
    BY <2>3, <2>4
<1> QED
  BY <1>1, Invariance, LimitsInvariance, PTL

\* The daily-loss breaker is never blind: when an entry is sent, every close
\* the venue may have filled is in the ledger and the day's sum is inside the
\* limit, over midnight too.
THEOREM LossesSeenAtEntry == Spec => []EntrySeesLosses
<1>1. ASSUME IInv, LimitsInv PROVE EntrySeesLosses
  <2>1. pc = "post" => ~pos.open
    BY <1>1 DEF IInv, EntryInHand, EntrySteps
  <2> QED
    BY <1>1, <2>1 DEF IInv, CloseAccounted, LimitsInv, LossesSeen, EntrySeesLosses
<1> QED
  BY <1>1, Invariance, LimitsInvariance, PTL

-----------------------------------------------------------------------------
(***************************************************************************)
(* A crash costs at most one double booking (BookedInv, relative to IInv). *)
(***************************************************************************)
\* The numbers of BookedInv are naturals.
LEMMA BookedTypes ==
  ASSUME TypeOK, IsFiniteSet(BookedCloses)
  PROVE  Len(ledger) \in Nat /\ crashes \in Nat /\ Cardinality(BookedCloses) \in Nat
<1>1. ledger \in Seq(Outcome) /\ crashes \in Nat
  BY DEF TypeOK
<1>2. Len(ledger) \in Nat
  BY <1>1
<1> QED
  BY <1>1, <1>2, FS_CardinalityType

\* Where nothing is booked, a crash pays for the close that will be booked again.
LEMMA BookedKept ==
  ASSUME TypeOK, BookedInv, UNCHANGED ledger,
         \/ crashes' = crashes /\ (BookedAgain' => BookedAgain)
         \/ crashes' = crashes + 1
  PROVE  BookedInv'
<1>1. BookedCloses' = BookedCloses
  BY KernelSets
<1>2. /\ IsFiniteSet(BookedCloses) /\ Len(ledger) \in Nat /\ crashes \in Nat
      /\ Cardinality(BookedCloses) \in Nat
  BY BookedTypes DEF BookedInv
<1> HIDE DEF BookedCloses, BookedAgain
<1>3. Len(ledger) + (IF BookedAgain THEN 1 ELSE 0) <= Cardinality(BookedCloses) + crashes
  BY DEF BookedInv
<1> PICK again \in {0, 1} : again = IF BookedAgain THEN 1 ELSE 0
  OBVIOUS
<1> PICK next \in {0, 1} : next = IF BookedAgain' THEN 1 ELSE 0
  OBVIOUS
<1>4. (crashes' = crashes /\ next <= again) \/ crashes' = crashes + 1
  OBVIOUS
<1>5. Len(ledger) + next <= Cardinality(BookedCloses) + crashes'
  BY <1>2, <1>3, <1>4
<1> QED
  BY <1>1, <1>2, <1>5 DEF BookedInv

\* A line appended is a new close's, or uses up what a crash paid for.
LEMMA BookedOnceMore ==
  ASSUME IInv, BookedInv, pc = "ledger", ledger' = Append(ledger, OutcomeOf(cur, ans)),
         UNCHANGED <<orders, pos>>
  PROVE  /\ IsFiniteSet(BookedCloses') /\ Cardinality(BookedCloses') \in Nat
         /\ Len(ledger') \in Nat /\ crashes \in Nat
         /\ Len(ledger') <= Cardinality(BookedCloses') + crashes
<1>1. /\ cur \in OrderId /\ pos.closeId = cur
      /\ \A o : Recorded(o)' <=> Recorded(o) \/ o = cur
  BY AppendOutcome
<1>2. BookedCloses' = BookedCloses \cup {cur}
  BY <1>1 DEF BookedCloses
<1>3. BookedAgain <=> cur \in BookedCloses
  BY <1>1 DEF BookedAgain, BookedCloses
<1>4. /\ IsFiniteSet(BookedCloses) /\ Len(ledger) \in Nat /\ crashes \in Nat
      /\ Cardinality(BookedCloses) \in Nat
  BY BookedTypes DEF IInv, BookedInv
<1>5. Len(ledger') = Len(ledger) + 1
  <2> DEFINE e == OutcomeOf(cur, ans)
  <2>1. ledger \in Seq(Outcome) /\ ledger' = Append(ledger, e)
    BY DEF IInv, TypeOK
  <2> HIDE DEF e
  <2> QED
    BY <2>1
<1>6. Len(ledger) + (IF cur \in BookedCloses THEN 1 ELSE 0) <= Cardinality(BookedCloses) + crashes
  BY <1>3 DEF BookedInv
<1>7. /\ IsFiniteSet(BookedCloses \cup {cur})
      /\ Cardinality(BookedCloses \cup {cur}) =
           IF cur \in BookedCloses THEN Cardinality(BookedCloses)
                                   ELSE Cardinality(BookedCloses) + 1
  BY <1>4, FS_AddElement
<1> QED
  BY <1>2, <1>4, <1>5, <1>6, <1>7

\* Nothing but the clearing ends the way to Clear, and no close that is booked
\* is named anew.
LEMMA AgainKept ==
  ASSUME IInv, UNCHANGED <<ledger, crashes>>,
         \/ pos'.closeId = pos.closeId /\ (pc # "clear" \/ pc' = pc)
         \/ pos'.closeId \notin OrderId
         \/ pos'.closeId \in OrderId /\ orders[pos'.closeId].status = "ABSENT"
  PROVE  crashes' = crashes /\ (BookedAgain' => BookedAgain)
<1>1. \A o : Recorded(o)' <=> Recorded(o)
  BY DEF Recorded
<1>2. \A o \in OrderId : orders[o].status = "ABSENT" => ~Recorded(o)
  BY AbsentIsUnused DEF BookedCloses
<1> QED
  BY <1>1, <1>2 DEF BookedAgain

\* Settlement steps, one by one.
LEMMA SettleBooked == ASSUME IInv, BookedInv, Settle PROVE BookedInv'
<1> USE DEF Goto, venueVars, fileVars, envVars
<1>1. TypeOK /\ NoOrder \notin OrderId /\ pos \in Position
  BY DEF IInv, TypeOK
<1>2. CASE \/ SettleFlat \/ CloseGuardBlocks \/ ResolveClose \/ ReadCloseFill
           \/ RecordRaises \/ \E out \in PostOutcome : PostClose(out)
  <2>1. UNCHANGED <<ledger, crashes, pos>> /\ pc # "clear"
    BY <1>2 DEF SettleFlat, CloseGuardBlocks, ResolveClose, ReadCloseFill, RecordRaises,
       PostClose
  <2> QED
    BY <1>1, <2>1, AgainKept, BookedKept
<1>3. CASE resolve_pending_close \/ AbandonClose
  <2>1. UNCHANGED <<ledger, crashes>> /\ pc # "clear"
        /\ (pos' = pos \/ pos' = RetirePending(pos))
    BY <1>3 DEF resolve_pending_close, AbandonClose
  <2>2. pos' = pos \/ pos'.closeId = NoOrder
    BY <1>1, <2>1 DEF RetirePending, Position
  <2> QED
    BY <1>1, <2>1, <2>2, AgainKept, BookedKept
<1>4. ASSUME NEW ts \in Stamps, NEW touched \in BOOLEAN, NEW priced \in BOOLEAN,
             EvaluateExit(ts, touched, priced)
      PROVE  BookedInv'
  <2> DEFINE p == advance_holding(pos, ts)
  <2>1. p \in Position /\ p.closeId = pos.closeId
    BY <1>1, AdvanceFacts
  <2>2. UNCHANGED <<ledger, crashes>> /\ pc # "clear"
        /\ \/ pos' = p
           \/ \E o \in OrderId : Fresh(o) /\ pos' = [p EXCEPT !.closeId = o]
    BY <1>4 DEF EvaluateExit, WriteAheadClose
  <2> HIDE DEF p
  <2>3. \/ pos'.closeId = pos.closeId
        \/ pos'.closeId \in OrderId /\ orders[pos'.closeId].status = "ABSENT"
    BY <2>1, <2>2 DEF Fresh, Position
  <2> QED
    BY <1>1, <2>2, <2>3, AgainKept, BookedKept
<1>5. CASE RecordOutcome
  <2>1. /\ pc = "ledger" /\ ledger' = Append(ledger, OutcomeOf(cur, ans))
        /\ UNCHANGED <<orders, pos, crashes>> /\ pc' = "clear"
    BY <1>5 DEF RecordOutcome
  <2>2. ~BookedAgain'
    BY <2>1 DEF BookedAgain
  <2>3. /\ IsFiniteSet(BookedCloses') /\ Len(ledger') \in Nat
        /\ Len(ledger') <= Cardinality(BookedCloses') + crashes
    BY <2>1, BookedOnceMore
  <2> QED
    BY <2>1, <2>2, <2>3 DEF BookedInv
<1>6. CASE ClearPosition
  <2>1. UNCHANGED <<ledger, crashes>> /\ pos'.closeId = NoOrder
    BY <1>6 DEF ClearPosition, AfterFill, Flat
  <2> QED
    BY <1>1, <2>1, AgainKept, BookedKept
<1> QED
  BY <1>2, <1>3, <1>4, <1>5, <1>6 DEF Settle

\* Every step keeps BookedInv.
LEMMA NextBooked == IInv /\ BookedInv /\ [Next]_vars => BookedInv'
<1> SUFFICES ASSUME IInv, BookedInv, [Next]_vars PROVE BookedInv'
  OBVIOUS
<1> USE DEF venueVars, fileVars, envVars, runVars
<1>1. TypeOK /\ NoOrder \notin OrderId
  BY DEF IInv
<1>2. CASE Enter
  <2>1. UNCHANGED <<ledger, crashes>> /\ pc # "clear"
    BY <1>2 DEF Enter, SkipEntry, BeginEntry, FinalGuardReady, FinalGuardBlocks, PostEntry,
       ResolveEntry, record_submission, WriteResult, ReconcileOrder, ReconcilePosition,
       open_from_live_execution
  <2>2. pos' = pos \/ pos'.closeId = NoOrder
    BY <1>2 DEF Enter, SkipEntry, BeginEntry, FinalGuardReady, FinalGuardBlocks, PostEntry,
       ResolveEntry, record_submission, WriteResult, ReconcileOrder, ReconcilePosition,
       open_from_live_execution, PositionFromFill
  <2> QED
    BY <1>1, <2>1, <2>2, AgainKept, BookedKept
<1>3. CASE \/ \E s \in {"live", "refused"} : StartCycle(s)
           \/ Venue \/ NextDay \/ NextCandle \/ UNCHANGED vars
  <2>1. UNCHANGED <<ledger, crashes, pos>> /\ (pc # "clear" \/ pc' = pc)
    BY <1>3 DEF StartCycle, Venue, NextDay, NextCandle, vars
  <2> QED
    BY <1>1, <2>1, AgainKept, BookedKept
<1>4. CASE Crash
  <2>1. UNCHANGED ledger /\ crashes' = crashes + 1
    BY <1>4 DEF Crash
  <2> QED
    BY <1>1, <2>1, BookedKept
<1>5. CASE TearLedger
  <2>1. pc = "ledger" /\ UNCHANGED <<orders, pos>> /\ crashes' = crashes + 1
    BY <1>5 DEF TearLedger
  <2>2. CASE UNCHANGED ledger
    BY <1>1, <2>1, <2>2, BookedKept
  <2>3. CASE ledger' = Append(ledger, OutcomeOf(cur, ans))
    <3>1. /\ IsFiniteSet(BookedCloses') /\ Cardinality(BookedCloses') \in Nat
          /\ Len(ledger') \in Nat /\ crashes \in Nat
          /\ Len(ledger') <= Cardinality(BookedCloses') + crashes
      BY <2>1, <2>3, BookedOnceMore
    <3>2. Len(ledger') + (IF BookedAgain' THEN 1 ELSE 0) <= Cardinality(BookedCloses') + crashes'
      BY <2>1, <3>1
    <3> QED
      BY <3>1, <3>2 DEF BookedInv
  <2> QED
    BY <1>5, <2>2, <2>3 DEF TearLedger
<1> QED
  BY <1>2, <1>3, <1>4, <1>5, SettleBooked DEF Next

\* Nothing is booked at a first start.
LEMMA InitBooked == Init => BookedInv
<1> SUFFICES ASSUME Init PROVE BookedInv
  OBVIOUS
<1>1. ledger = <<>> /\ crashes = 0 /\ pos.closeId = NoOrder
  BY DEF Init, Flat
<1>2. BookedCloses = {} /\ ~BookedAgain
  BY <1>1 DEF BookedCloses, Recorded, BookedAgain
<1> QED
  BY <1>1, <1>2, FS_EmptySet DEF BookedInv

\* The ledger holds a line for every booked close, and at most one more for
\* every crash: a crash between the append and the clearing of the file books
\* the close again, and never a second time.
THEOREM BookedOncePerCrash == Spec => []OneDuplicatePerCrash
<1>1. ASSUME IInv, BookedInv PROVE OneDuplicatePerCrash
  <2>1. /\ Len(ledger) \in Nat /\ crashes \in Nat /\ Cardinality(BookedCloses) \in Nat
        /\ Len(ledger) + (IF BookedAgain THEN 1 ELSE 0) <= Cardinality(BookedCloses) + crashes
    BY <1>1, BookedTypes DEF IInv, BookedInv
  <2> QED
    BY <2>1 DEF OneDuplicatePerCrash
<1> QED
  BY <1>1, InitBooked, NextBooked, Invariance, PTL DEF Spec

-----------------------------------------------------------------------------
(***************************************************************************)
(* Where orders fill whole (Size = 1): the tracked quantity is held.       *)
(***************************************************************************)
\* What the pending close has taken off the position so far.
Taken == IF pos.closeId = NoOrder THEN 0 ELSE orders[pos.closeId].executed

\* Quantities of the book, the file and the answers are naturals.
LEMMA HeldTypes ==
  ASSUME TypeOK
  PROVE  /\ held \in Nat /\ Taken \in Nat /\ pos.qty \in Nat /\ ans.executed \in Nat
         /\ \A o \in OrderId : orders[o] \in Order /\ orders[o].executed \in Nat
<1>1. /\ orders \in [OrderId -> Order] /\ pos \in Position /\ ans \in Answer
      /\ held \in Nat
  BY DEF TypeOK
<1>2. \A o \in OrderId : orders[o] \in Order /\ orders[o].executed \in Nat
  BY <1>1 DEF Order
<1>3. /\ pos.qty \in Nat /\ ans.executed \in Nat
      /\ pos.closeId = NoOrder \/ pos.closeId \in OrderId
  BY <1>1 DEF Position, Answer
<1> QED
  BY <1>1, <1>2, <1>3 DEF Taken

\* Steps that leave book and file alone, and reconcile nothing.
LEMMA HeldKept ==
  ASSUME HeldInv, UNCHANGED <<orders, held, pos>>,
         \/ pc' # "open" \/ rec' # "RECONCILED"
         \/ UNCHANGED <<pc, rec, ans>>
  PROVE  HeldInv'
<1>1. WholeFills' /\ TrackedIsHeld'
  BY DEF HeldInv, WholeFills, TrackedIsHeld
<1>2. AnswerHeld'
  BY DEF HeldInv, AnswerHeld
<1> QED
  BY <1>1, <1>2 DEF HeldInv

\* Steps that rewrite the file of a tracked position, between two closes.
LEMMA HeldRewritten ==
  ASSUME HeldInv, UNCHANGED <<orders, held>>, pc' # "open",
         pos'.open => pos.open /\ pos'.qty = pos.qty /\ Taken' = Taken
  PROVE  HeldInv'
<1>1. WholeFills' /\ AnswerHeld'
  BY DEF HeldInv, WholeFills, AnswerHeld
<1>2. TrackedIsHeld'
  BY DEF HeldInv, TrackedIsHeld, Taken
<1> QED
  BY <1>1, <1>2 DEF HeldInv

\* Nothing is tracked and nothing filled at a first start.
LEMMA InitHeld == Init => HeldInv
  BY DEF Init, VenueInit, AbsentOrder, Flat, HeldInv, WholeFills, AnswerHeld, TrackedIsHeld

\* A close that is given up has taken nothing, nor has the next one.
LEMMA SettleHeld == ASSUME IInv, HeldInv, Settle PROVE HeldInv'
<1> USE DEF Goto, venueVars, fileVars, envVars
<1>1. TypeOK /\ pos \in Position
  BY DEF IInv, TypeOK
<1>2. ASSUME pos.open, pos.closeId \in OrderId, orders[pos.closeId].status # "FILLED",
             pos' = RetirePending(pos), UNCHANGED <<orders, held>>, pc' # "open"
      PROVE  HeldInv'
  <2>1. pos'.qty = pos.qty /\ pos'.closeId = NoOrder
    BY <1>1, <1>2 DEF RetirePending, Position
  <2>2. Taken = 0 /\ Taken' = 0
    BY <1>2, <2>1 DEF Taken, HeldInv, WholeFills
  <2> QED
    BY <1>2, <2>1, <2>2, HeldRewritten
<1>3. CASE \/ SettleFlat \/ CloseGuardBlocks \/ ResolveClose \/ ReadCloseFill
           \/ RecordOutcome \/ RecordRaises
  <2>1. UNCHANGED <<orders, held, pos>> /\ pc' # "open"
    BY <1>3 DEF SettleFlat, CloseGuardBlocks, ResolveClose, ReadCloseFill, RecordOutcome,
       RecordRaises, AppendRaises, EndCycle
  <2> QED
    BY <2>1, HeldKept
<1>4. CASE resolve_pending_close
  <2>1. /\ pos.open /\ pos.closeId \in OrderId /\ UNCHANGED <<orders, held>> /\ pc' # "open"
        /\ \/ pos' = pos
           \/ \E a \in QueryAnswers(pos.closeId) : ProvenDead(a) /\ pos' = RetirePending(pos)
    BY <1>1, <1>4 DEF resolve_pending_close, Position
  <2>2. CASE pos' = pos
    BY <2>1, <2>2, HeldKept
  <2>3. ASSUME NEW a \in QueryAnswers(pos.closeId), ProvenDead(a), pos' = RetirePending(pos)
        PROVE  HeldInv'
    <3>1. orders[pos.closeId].status # "FILLED"
      BY <1>1, <2>1, <2>3, QueryFacts DEF ProvenDead
    <3> QED
      BY <1>2, <2>1, <2>3, <3>1
  <2> QED
    BY <2>1, <2>2, <2>3
<1>5. ASSUME NEW ts \in Stamps, NEW touched \in BOOLEAN, NEW priced \in BOOLEAN,
             EvaluateExit(ts, touched, priced)
      PROVE  HeldInv'
  <2> DEFINE p == advance_holding(pos, ts)
  <2>1. p \in Position /\ p.open = pos.open /\ p.closeId = pos.closeId /\ p.qty = pos.qty
    BY <1>1, AdvanceFacts
  <2>2. pos.open /\ pos.closeId = NoOrder
    BY <1>5 DEF IInv, CloseInHand, EvaluateExit
  <2>3. /\ UNCHANGED <<orders, held>> /\ pc' # "open"
        /\ \/ pos' = p
           \/ \E o \in OrderId : Fresh(o) /\ pos' = [p EXCEPT !.closeId = o]
    BY <1>5 DEF EvaluateExit, WriteAheadClose
  <2> HIDE DEF p
  <2>4. CASE pos' = p
    <3>1. Taken' = Taken /\ pos'.qty = pos.qty
      BY <2>1, <2>2, <2>4 DEF Taken
    <3> QED
      BY <2>2, <2>3, <3>1, HeldRewritten
  <2>5. ASSUME NEW o \in OrderId, Fresh(o), pos' = [p EXCEPT !.closeId = o]
        PROVE  HeldInv'
    <3>1. pos'.closeId = o /\ pos'.qty = pos.qty
      BY <2>1, <2>5 DEF Position
    <3>2. orders[o].executed = 0
      BY <2>5 DEF Fresh, HeldInv, WholeFills
    <3>3. Taken = 0 /\ Taken' = 0
      BY <2>2, <2>3, <3>1, <3>2 DEF Taken
    <3> QED
      BY <2>2, <2>3, <3>1, <3>3, HeldRewritten
  <2> QED
    BY <2>3, <2>4, <2>5
<1>6. ASSUME NEW out \in PostOutcome, PostClose(out) PROVE HeldInv'
  <2>1. /\ cur \in OrderId /\ orders[cur].status = "ABSENT" /\ pos.qty \in 0..Size
        /\ pc' # "open" /\ pos' = pos
    BY <1>6 DEF IInv, TypeOK, Position, CloseInHand, ClosingSteps, SettleSteps, PostClose
  <2>2. /\ held' = held /\ \A x \in OrderId \ {cur} : orders'[x] = orders[x]
        /\ orders'[cur] \in {orders[cur], NewOrder("close", pos.qty)}
    BY <1>6, <2>1, PostFacts DEF PostClose
  <2>3. orders[cur].executed = 0 /\ orders'[cur].executed = 0
    BY <2>1, <2>2 DEF HeldInv, WholeFills, NewOrder
  <2>4. \A x \in OrderId : orders'[x].executed = orders[x].executed
    BY <2>2, <2>3
  <2>5. WholeFills'
    BY <2>2, <2>3 DEF HeldInv, WholeFills
  <2>6. TrackedIsHeld'
    BY <1>1, <2>1, <2>2, <2>4 DEF HeldInv, TrackedIsHeld, Position
  <2> QED
    BY <2>1, <2>5, <2>6 DEF HeldInv, AnswerHeld
<1>7. CASE AbandonClose
  <2>1. /\ pos.open /\ pos.closeId \in OrderId /\ orders[pos.closeId].status = "ABSENT"
        /\ pos' = RetirePending(pos) /\ UNCHANGED <<orders, held>> /\ pc' # "open"
    BY <1>7 DEF IInv, CloseInHand, ClosingSteps, SettleSteps, AbandonClose
  <2> QED
    BY <1>2, <2>1
<1>8. CASE ClearPosition
  <2>1. UNCHANGED <<orders, held>> /\ pc' # "open" /\ ~pos'.open
    BY <1>8 DEF ClearPosition, AfterFill, Flat
  <2> QED
    BY <2>1, HeldRewritten
<1> QED
  BY <1>3, <1>4, <1>5, <1>6, <1>7, <1>8 DEF Settle

\* A position is opened only for a quantity that the venue was seen to hold.
LEMMA EnterHeld == ASSUME IInv, HeldInv, Enter PROVE HeldInv'
<1> USE DEF Goto, venueVars, fileVars, envVars
<1>1. TypeOK
  BY DEF IInv
<1>2. CASE \/ SkipEntry \/ FinalGuardReady \/ FinalGuardBlocks \/ ResolveEntry
           \/ record_submission \/ WriteResult \/ ReconcileOrder
           \/ \E o \in OrderId : BeginEntry(o)
  <2>1. UNCHANGED <<orders, held, pos>> /\ (pc' # "open" \/ rec' # "RECONCILED")
    BY <1>2 DEF SkipEntry, FinalGuardReady, FinalGuardBlocks, ResolveEntry,
       record_submission, WriteResult, ReconcileOrder, BeginEntry, EndCycle
  <2> QED
    BY <2>1, HeldKept
<1>3. ASSUME NEW out \in PostOutcome, PostEntry(out) PROVE HeldInv'
  <2>1. /\ cur \in OrderId /\ orders[cur].status = "ABSENT" /\ Size \in 0..Size
        /\ pc' # "open" /\ pos' = pos /\ ~pos.open
    BY <1>3 DEF IInv, EntryInHand, EntrySteps, PostEntry
  <2>2. /\ held' = held /\ \A x \in OrderId \ {cur} : orders'[x] = orders[x]
        /\ orders'[cur] \in {orders[cur], NewOrder("entry", Size)}
    BY <1>3, <2>1, PostFacts DEF PostEntry
  <2>3. orders[cur].executed = 0 /\ orders'[cur].executed = 0
    BY <2>1, <2>2 DEF HeldInv, WholeFills, NewOrder
  <2>4. WholeFills'
    BY <2>2, <2>3 DEF HeldInv, WholeFills
  <2> QED
    BY <2>1, <2>4 DEF HeldInv, AnswerHeld, TrackedIsHeld
<1>4. ASSUME NEW reachable \in BOOLEAN, ReconcilePosition(reachable) PROVE HeldInv'
  <2>1. /\ UNCHANGED <<orders, held, pos, ans>>
        /\ rec' = "RECONCILED" => compare(ans) = "RECONCILED"
    BY <1>4 DEF ReconcilePosition
  <2>2. AnswerHeld'
    <3>1. rec' = "RECONCILED" /\ ans.status \in Filled => ans.executed = held
      BY <2>1 DEF compare
    <3>2. held \in Nat
      BY <1>1, HeldTypes
    <3> QED
      BY <2>1, <3>1, <3>2 DEF AnswerHeld
  <2>3. WholeFills' /\ TrackedIsHeld'
    BY <2>1 DEF HeldInv, WholeFills, TrackedIsHeld
  <2> QED
    BY <2>2, <2>3 DEF HeldInv
<1>5. CASE open_from_live_execution
  <2>1. UNCHANGED <<orders, held>> /\ pc' # "open" /\ pc = "open" /\ ~pos.open
    BY <1>5 DEF IInv, EntryInHand, EntrySteps, open_from_live_execution, EndCycle
  <2>2. WholeFills' /\ AnswerHeld'
    BY <2>1 DEF HeldInv, WholeFills, AnswerHeld
  <2>3. CASE pos' = pos
    BY <2>1, <2>2, <2>3 DEF HeldInv, TrackedIsHeld
  <2>4. CASE rec = "RECONCILED" /\ ans.status \in Filled /\ pos' = PositionFromFill(cur, ans)
    <3>1. pos'.qty = ans.executed /\ pos'.closeId = NoOrder
      BY <2>4 DEF PositionFromFill
    <3>2. ans.executed <= held
      BY <2>1, <2>4 DEF HeldInv, AnswerHeld
    <3>3. held \in Nat /\ ans.executed \in Nat
      BY <1>1, HeldTypes
    <3>4. TrackedIsHeld'
      BY <2>1, <3>1, <3>2, <3>3 DEF TrackedIsHeld
    <3> QED
      BY <2>2, <3>4 DEF HeldInv
  <2> QED
    BY <1>5, <2>3, <2>4 DEF open_from_live_execution
<1> QED
  BY <1>2, <1>3, <1>4, <1>5 DEF Enter

\* A working close has taken nothing yet, so the ledger does not hold it and
\* it is the pending one: what it takes, its own count shows.
LEMMA VenueHeld == ASSUME Size = 1, IInv, HeldInv, Venue PROVE HeldInv'
<1>1. /\ TypeOK /\ VenueStep /\ UNCHANGED <<pos, ledger, pc, rec, ans>>
      /\ orders \in [OrderId -> Order]
  BY DEF Venue, IInv, TypeOK, fileVars, runVars
<1>2. /\ held \in Nat /\ Taken \in Nat /\ pos.qty \in Nat /\ ans.executed \in Nat
      /\ \A o \in OrderId : orders[o] \in Order /\ orders[o].executed \in Nat
  BY <1>1, HeldTypes
<1>3. ASSUME NEW o \in OrderId, NEW n \in 1..Size, NEW m \in Moves \cup {0}, Fill(o, n, m)
      PROVE  HeldInv'
  <2>1. /\ orders[o].status \in Working /\ orders[o].executed + n <= orders[o].qty
        /\ orders[o].kind = "close" => held' = held - n /\ n <= held
        /\ orders[o].kind # "close" => held' = held + n
        /\ \A x \in OrderId \ {o} : orders'[x] = orders[x]
        /\ orders'[o].executed = orders[o].executed + n
        /\ orders[o].executed + n = orders[o].qty => orders'[o].status = "FILLED"
    BY <1>1, <1>2, <1>3 DEF Fill, Order
  <2>2. n = 1 /\ orders[o].qty \in 0..1 /\ orders[o].executed = 0
    BY <1>2, <2>1 DEF Order, HeldInv, WholeFills, Working
  <2>3. orders'[o].status = "FILLED" /\ orders'[o].executed = 1
    BY <2>1, <2>2
  <2>4. WholeFills'
    BY <2>1, <2>3 DEF HeldInv, WholeFills
  <2>5. CASE orders[o].kind = "close"
    <3>1. ~Recorded(o)
      <4> SUFFICES ASSUME NEW i \in DOMAIN ledger, ledger[i].order = o PROVE FALSE
        BY DEF Recorded
      <4>1. ledger[i].qty \in 1..orders[o].executed
        BY DEF IInv, LedgerReal
      <4> QED
        BY <2>2, <4>1
    <3>2. pos.open /\ pos.closeId = o
      BY <2>1, <2>5, <3>1 DEF IInv, CloseAccounted, LiveClose
    <3>3. o # NoOrder
      OBVIOUS
    <3>4. Taken = 0 /\ held' = held - 1 /\ pos'.closeId = o /\ orders'[o].executed = 1
      BY <1>1, <2>1, <2>2, <2>3, <2>5, <3>2, <3>3 DEF Taken
    <3>5. pos.qty <= held
      BY <1>2, <3>2, <3>4 DEF HeldInv, TrackedIsHeld, Taken
    <3>6. TrackedIsHeld'
      BY <1>1, <1>2, <3>3, <3>4, <3>5 DEF TrackedIsHeld
    <3>7. pc # "open"
      BY <3>2 DEF IInv, EntryInHand, EntrySteps
    <3>8. AnswerHeld'
      BY <1>1, <3>7 DEF AnswerHeld
    <3> QED
      BY <2>4, <3>6, <3>8 DEF HeldInv
  <2>6. CASE orders[o].kind # "close"
    <3>1. held' = held + 1
      BY <2>1, <2>2, <2>6
    <3>2. AnswerHeld'
      BY <1>1, <1>2, <3>1 DEF HeldInv, AnswerHeld
    <3>3. Taken' \in Nat /\ Taken' >= Taken
      <4>1. pos'.closeId = pos.closeId
            /\ (pos.closeId = NoOrder \/ pos.closeId \in OrderId)
        BY <1>1 DEF TypeOK, Position
      <4>2. \A x \in OrderId : orders'[x].executed \in Nat
                               /\ orders'[x].executed >= orders[x].executed
        BY <1>2, <2>1, <2>2
      <4> QED
        BY <4>1, <4>2, <1>2 DEF Taken
    <3>4. pos.open => pos.qty <= held + Taken
      BY DEF HeldInv, TrackedIsHeld, Taken
    <3>5. pos'.open => pos'.qty <= held' + Taken'
      BY <1>1, <1>2, <3>1, <3>3, <3>4
    <3>6. TrackedIsHeld'
      BY <3>5 DEF TrackedIsHeld, Taken
    <3> QED
      BY <2>4, <3>2, <3>6 DEF HeldInv
  <2> QED
    BY <2>5, <2>6
<1>4. ASSUME NEW o \in OrderId, Expire(o) PROVE HeldInv'
  <2>1. /\ held' = held /\ \A x \in OrderId \ {o} : orders'[x] = orders[x]
        /\ orders'[o].executed = orders[o].executed
        /\ orders[o].status # "FILLED"
    BY <1>1, <1>4 DEF Expire, Order, Working
  <2>2. \A x \in OrderId : orders'[x].executed = orders[x].executed
    BY <2>1
  <2>3. WholeFills'
    BY <2>1 DEF HeldInv, WholeFills
  <2>4. TrackedIsHeld'
    BY <1>1, <2>1, <2>2 DEF HeldInv, TrackedIsHeld, TypeOK, Position
  <2>5. AnswerHeld'
    BY <1>1, <2>1 DEF HeldInv, AnswerHeld
  <2> QED
    BY <2>3, <2>4, <2>5 DEF HeldInv
<1> QED
  BY <1>1, <1>3, <1>4 DEF VenueStep

\* Every step keeps the tracked quantity held.
LEMMA NextHeld == ASSUME Size = 1 PROVE IInv /\ HeldInv /\ [Next]_vars => HeldInv'
<1> SUFFICES ASSUME IInv, HeldInv, [Next]_vars PROVE HeldInv'
  OBVIOUS
<1>1. CASE \/ \E s \in {"live", "refused"} : StartCycle(s)
           \/ Crash \/ TearLedger \/ NextDay \/ NextCandle \/ UNCHANGED vars
  <2>1. UNCHANGED <<orders, held, pos>> /\ (pc' # "open" \/ UNCHANGED <<pc, rec, ans>>)
    BY <1>1 DEF StartCycle, Crash, TearLedger, EndCycle, NextDay, NextCandle, vars, venueVars, fileVars,
       runVars
  <2> QED
    BY <2>1, HeldKept
<1> QED
  BY <1>1, SettleHeld, EnterHeld, VenueHeld DEF Next

\* Where an order fills whole or not at all, the tracked quantity is on the
\* venue's book until the pending close takes it off: no crash, lost answer
\* or retry lets a second close go out for a position that is gone.
THEOREM TrackedIsReallyHeld == ASSUME Size = 1 PROVE Spec => []TrackedIsHeld
<1>1. Init => HeldInv
  BY InitHeld
<1>2. IInv /\ HeldInv /\ [Next]_vars => HeldInv'
  BY NextHeld
<1>3. HeldInv => TrackedIsHeld
  BY DEF HeldInv
<1> QED
  BY <1>1, <1>2, <1>3, Invariance, PTL DEF Spec
=============================================================================
