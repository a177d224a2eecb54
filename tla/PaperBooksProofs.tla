--------------------------- MODULE PaperBooksProofs ---------------------------
(***************************************************************************)
(* IInv is an inductive invariant of PaperBooks, for every finite set of   *)
(* strategies, all caps and limits, and every bound.  AttributionInv and   *)
(* ConsumptionInv are inductive relative to it.                            *)
(***************************************************************************)
EXTENDS PaperBooks, SequenceTheorems, SumTheorems

USE PaperAssumption

-----------------------------------------------------------------------------
(***************************************************************************)
(* The engine and the portfolio.                                           *)
(***************************************************************************)
\* A sale's delta counts as what it sells.
LEMMA AbsNegative == \A n \in Nat : abs(-n) = n
  BY DEF abs

\* What the engine fills of an intent of the pipeline reconciles cleanly.
LEMMA FillReconciles ==
  ASSUME NEW d, NEW intent \in OrderIntents(d),
         is_filled(simulate_paper_execution(intent, DefaultConfig))
  PROVE  reconcile_paper_execution_record(simulate_paper_execution(intent, DefaultConfig))
           = CleanReconciliation
<1> DEFINE record == simulate_paper_execution(intent, DefaultConfig)
<1>1. PICK q \in {0, 2} :
        intent = [created |-> TRUE, ids |-> ChainIds, gate |-> "approved", live |-> FALSE,
                  direction |-> signal.side, side |-> SideOf(signal.side),
                  quantity |-> q, priced |-> q > 0]
  BY DEF OrderIntents, Full
<1>a. /\ intent.ids = ChainIds /\ intent.gate = "approved" /\ intent.live = FALSE
      /\ intent.quantity = q /\ intent.created = TRUE /\ intent.priced = (q > 0)
  BY <1>1
<1>2. q = 2
  <2>1. CASE q = 0
    <3>1. blockers(intent) # {}
      BY <1>a, <2>1 DEF blockers
    <3>2. record.fill_status = "NO_FILL"
      BY <3>1 DEF simulate_paper_execution
    <3> QED
      BY <3>2 DEF is_filled
  <2> QED
    BY <1>1, <2>1
<1>3. blockers(intent) = {}
  <2>1. 2 > 0
    OBVIOUS
  <2>2. intent.priced /\ intent.quantity > 0
    BY <1>a, <1>2, <2>1
  <2> QED
    BY <1>a, <2>2 DEF blockers
<1>4. record = [status |-> "PAPER_PENDING_RECONCILIATION", intent |-> intent, fill_ratio |-> 2,
                 filled_quantity |-> 2, fill_status |-> "FILLED",
                 position_delta |-> position_delta(intent, 2), reconciliation_required |-> TRUE]
  <2>1. (2 * 2) \div 2 = 2
    OBVIOUS
  <2> QED
    BY <1>a, <1>2, <1>3, <2>1 DEF simulate_paper_execution, DefaultConfig, Full
<1>5. failed_checks(record) = {}
  <2>1. CASE intent.side = "BUY"
    <3>1. record.position_delta = [side |-> intent.side, quantity |-> 2]
      BY <1>4, <2>1 DEF position_delta
    <3>2. abs(record.position_delta.quantity) = 2 /\ record.position_delta.side = intent.side
      BY <3>1 DEF abs
    <3> QED
      BY <1>a, <1>2, <1>4, <3>2 DEF failed_checks, expected_side, ChainIds, Full
  <2>2. CASE intent.side # "BUY"
    <3>1. record.position_delta = [side |-> intent.side, quantity |-> -2]
      BY <1>4, <2>2 DEF position_delta
    <3>2. abs(record.position_delta.quantity) = 2 /\ record.position_delta.side = intent.side
      BY <3>1, AbsNegative
    <3> QED
      BY <1>a, <1>2, <1>4, <3>2 DEF failed_checks, expected_side, ChainIds, Full
  <2> QED
    BY <2>1, <2>2
<1>6. record.reconciliation_required = TRUE
  BY <1>4
<1> HIDE DEF record
<1>7. reconcile_paper_execution_record(record) =
        [by |-> "paper_reconciliation_v2", status |-> "RECONCILED",
         reconciled |-> "RECONCILED" = "RECONCILED", promotion_blocker |-> promotion_blocker("RECONCILED")]
  BY <1>5, <1>6 DEF reconcile_paper_execution_record
<1>8. reconcile_paper_execution_record(record) = CleanReconciliation
  BY <1>7 DEF promotion_blocker, CleanReconciliation
<1> QED
  BY <1>8 DEF record

\* Both reconciliations a position may be opened on.
LEMMA ReconciliationTypes ==
  /\ CleanReconciliation \in Reconciliation /\ legacy_reconciliation \in Reconciliation
  /\ outcome_closed(CleanReconciliation)
<1>1. CleanReconciliation \in Reconciliation /\ legacy_reconciliation \in Reconciliation
  BY DEF CleanReconciliation, legacy_reconciliation, Reconciliation, ReconciliationStatus,
         promotion_blocker
<1>2. outcome_status(CleanReconciliation) = "OUTCOME_RECORDED"
  BY DEF CleanReconciliation, outcome_status
<1> QED
  BY <1>1, <1>2 DEF outcome_closed

\* There are finitely many books.
LEMMA BooksFinite == IsFiniteSet(Book) /\ IsFiniteSet(open_books)
<1>1. IsFiniteSet(Book)
  BY FS_AddElement DEF Book
<1> QED
  BY <1>1, FS_Subset DEF open_books

\* A set of books counts no more than a set it is part of.
LEMMA Fewer ==
  ASSUME NEW S \in SUBSET Book, NEW T \in SUBSET S
  PROVE  Cardinality(T) <= Cardinality(S) /\ Cardinality(S) \in Nat /\ Cardinality(T) \in Nat
  BY BooksFinite, FS_Subset, FS_CardinalityType

\* One book more counts at most one more.
LEMMA OneMore ==
  ASSUME NEW S \in SUBSET Book, NEW b \in Book, NEW T \in SUBSET (S \cup {b})
  PROVE  Cardinality(T) <= Cardinality(S) + 1 /\ Cardinality(S) \in Nat /\ Cardinality(T) \in Nat
<1>1. IsFiniteSet(S)
  BY BooksFinite, FS_Subset
<1>2. IsFiniteSet(S \cup {b}) /\ Cardinality(S \cup {b}) \in Nat /\ Cardinality(S) \in Nat
  BY <1>1, FS_AddElement, FS_CardinalityType
<1>3. Cardinality(S \cup {b}) <= Cardinality(S) + 1
  <2>1. CASE b \in S
    <3>1. S \cup {b} = S
      BY <2>1
    <3> QED
      BY <1>2, <3>1
  <2>2. CASE b \notin S
    BY <1>1, <1>2, <2>2, FS_AddElement
  <2> QED
    BY <2>1, <2>2
<1> QED
  BY <1>2, <1>3, FS_Subset, FS_CardinalityType

\* The caps hold of a portfolio that lost some books.
LEMMA CapsShrink ==
  ASSUME TypeOK, CapsHold, \A b \in Book : books'[b] # NoPosition => books'[b] = books[b]
  PROVE  CapsHold'
<1>1. open_books' \subseteq open_books /\ open_books \subseteq Book
  BY DEF open_books
<1>2. Cardinality(open_books') <= MaxOpenBooks
  BY <1>1, Fewer DEF CapsHold
<1>3. ASSUME NEW d \in Side
      PROVE  LET same == {b \in open_books' : books'[b].signal.side = d}
             IN  /\ Cardinality(same) <= MaxSameDirection
                 /\ \A n \in 1..MaxSnapshot :
                      Cardinality({b \in same : books'[b].signal.id = n}) <= MaxSameSignalDirection
  <2> DEFINE old == {b \in open_books : books[b].signal.side = d}
             new == {b \in open_books' : books'[b].signal.side = d}
  <2>1. new \subseteq old /\ old \subseteq Book /\ \A b \in new : books'[b] = books[b]
    BY <1>1 DEF open_books
  <2>2. Cardinality(new) <= MaxSameDirection
    <3>1. Cardinality(old) <= MaxSameDirection
      BY DEF CapsHold
    <3> QED
      BY <2>1, <3>1, Fewer
  <2>3. ASSUME NEW n \in 1..MaxSnapshot
        PROVE  Cardinality({b \in new : books'[b].signal.id = n}) <= MaxSameSignalDirection
    <3> DEFINE oldn == {b \in old : books[b].signal.id = n}
               newn == {b \in new : books'[b].signal.id = n}
    <3>1. newn \subseteq oldn /\ oldn \subseteq Book
      BY <2>1
    <3>2. Cardinality(oldn) <= MaxSameSignalDirection
      BY DEF CapsHold
    <3> HIDE DEF oldn, newn
    <3>3. Cardinality(newn) <= MaxSameSignalDirection
      BY <3>1, <3>2, Fewer
    <3> QED
      BY <3>3 DEF newn
  <2> QED
    BY <2>2, <2>3
<1> QED
  BY <1>2, <1>3 DEF CapsHold

-----------------------------------------------------------------------------
(***************************************************************************)
(* Every step keeps IInv.                                                  *)
(***************************************************************************)
\* Without positions, outcomes and a running cycle, IInv holds.
LEMMA InitIInv == Init => IInv
<1> SUFFICES ASSUME Init PROVE IInv
  OBVIOUS
<1> USE DEF Init
<1>1. TypeOK
  <2>1. NoDecision \in Decision /\ NoDecision.book = Default
    BY DEF NoDecision, Decision, Book
  <2>2. << >> \in Seq(Outcome) /\ << >> \in Seq(Summary) /\ << >> \in Seq(Attempt)
        /\ << >> \in Seq(Strategy)
    BY EmptySeq
  <2>3. books \in [Book -> Position \cup {NoPosition}] /\ fate \in [Book -> Result \cup {"hold"}]
    OBVIOUS
  <2>4. signal \in Signal /\ toSettle \subseteq Book /\ openCount \in Nat /\ cycle \in 0..MaxCycle
    OBVIOUS
  <2> QED
    BY <2>1, <2>2, <2>3, <2>4 DEF TypeOK
<1>2. open_books = {}
  BY DEF open_books
<1>3. InHand /\ FillsReconcile /\ SummariesRecorded /\ WalkCounts
  BY <1>2 DEF InHand, FillsReconcile, SummariesRecorded, WalkCounts, WalkSteps, AttemptSteps,
              is_filled, NoExecution
<1>4. RecordedOnce /\ ClearedIsRecorded /\ StrategyFillHasRoom
  BY DEF RecordedOnce, ClearedIsRecorded, StrategyFillHasRoom
<1>5. CapsHold
  <2>1. Cardinality({}) = 0
    BY FS_EmptySet
  <2>2. \A d \in Side : {b \in open_books : books[b].signal.side = d} = {}
    BY <1>2
  <2> QED
    BY <1>2, <2>1, <2>2 DEF CapsHold
<1> QED
  BY <1>1, <1>3, <1>4, <1>5 DEF IInv

\* A step that touches neither the positions nor the registry, nor the saved
\* closes, keeps what is said of these.
LEMMA FilesUntouched ==
  ASSUME IInv, UNCHANGED <<books, outcomes, settled>>
  PROVE  /\ RecordedOnce' /\ ClearedIsRecorded' /\ CapsHold' /\ open_books' = open_books
         /\ \A x : Recorded(x)' = Recorded(x)
<1>1. open_books' = open_books
  BY DEF open_books
<1>2. RecordedOnce' /\ ClearedIsRecorded' /\ \A x : Recorded(x)' = Recorded(x)
  BY DEF IInv, RecordedOnce, ClearedIsRecorded, Recorded
<1>3. CapsHold'
  BY <1>1 DEF IInv, CapsHold
<1> QED
  BY <1>1, <1>2, <1>3

\* A stage that is left has nothing in hand.
LEMMA ReturnsNothing ==
  ASSUME IInv, Returns, UNCHANGED <<books, fate, signal, cycle>>,
         settled' \in Seq(Summary), outcomes' \in Seq(Outcome)
  PROVE  /\ TypeOK' /\ InHand' /\ FillsReconcile' /\ SummariesRecorded' /\ WalkCounts'
         /\ StrategyFillHasRoom'
<1> USE DEF Returns
<1>1. TypeOK'
  <2>1. NoDecision \in Decision /\ NoDecision.book = Default
    BY DEF NoDecision, Decision, Book
  <2>2. << >> \in Seq(Summary) /\ << >> \in Seq(Attempt) /\ << >> \in Seq(Strategy)
    BY EmptySeq
  <2> QED
    BY <2>1, <2>2 DEF IInv, TypeOK
<1>2. InHand'
  BY DEF InHand, WalkSteps, AttemptSteps
<1>3. FillsReconcile'
  BY DEF IInv, FillsReconcile, NoExecution, is_filled, open_books
<1>4. SummariesRecorded' /\ WalkCounts' /\ StrategyFillHasRoom'
  BY DEF SummariesRecorded, WalkCounts, WalkSteps, AttemptSteps, StrategyFillHasRoom
<1> QED
  BY <1>1, <1>2, <1>3, <1>4

\* Only the market moves.
LEMMA NewCandleStep == ASSUME IInv, NewCandle PROVE IInv'
<1> USE DEF NewCandle, market, walk, history
<1>0. UNCHANGED <<books, outcomes, settled>>
  OBVIOUS
<1>1. /\ RecordedOnce' /\ ClearedIsRecorded' /\ CapsHold' /\ open_books' = open_books
      /\ \A x : Recorded(x)' = Recorded(x)
  BY <1>0, FilesUntouched
<1>2. TypeOK'
  <2>1. signal' \in Signal
    BY DEF NewSignal
  <2> QED
    BY <2>1 DEF IInv, TypeOK, WalkSteps, AttemptSteps
<1>3. InHand'
  BY <1>1 DEF IInv, TypeOK, InHand, WalkSteps, AttemptSteps
<1>4. FillsReconcile'
  BY <1>1 DEF IInv, FillsReconcile
<1>5. SummariesRecorded'
  BY <1>1 DEF IInv, TypeOK, SummariesRecorded
<1>6. WalkCounts'
  BY <1>1 DEF IInv, TypeOK, InHand, WalkCounts, WalkSteps, AttemptSteps, Opened
<1>7. StrategyFillHasRoom'
  BY DEF IInv, TypeOK, StrategyFillHasRoom
<1> QED
  BY <1>1, <1>2, <1>3, <1>4, <1>5, <1>6, <1>7 DEF IInv

\* Only the signal moves.
LEMMA NewFeaturesStep == ASSUME IInv, NewFeatures PROVE IInv'
<1> USE DEF NewFeatures, market, walk, history
<1>0. UNCHANGED <<books, outcomes, settled>>
  OBVIOUS
<1>1. /\ RecordedOnce' /\ ClearedIsRecorded' /\ CapsHold' /\ open_books' = open_books
      /\ \A x : Recorded(x)' = Recorded(x)
  BY <1>0, FilesUntouched
<1>2. TypeOK'
  <2>1. signal' \in Signal
    BY DEF NewSignal
  <2> QED
    BY <2>1 DEF IInv, TypeOK, WalkSteps, AttemptSteps
<1>3. InHand'
  BY <1>1 DEF IInv, TypeOK, InHand, WalkSteps, AttemptSteps
<1>4. FillsReconcile'
  BY <1>1 DEF IInv, FillsReconcile
<1>5. SummariesRecorded'
  BY <1>1 DEF IInv, TypeOK, SummariesRecorded
<1>6. WalkCounts'
  BY <1>1 DEF IInv, TypeOK, InHand, WalkCounts, WalkSteps, AttemptSteps, Opened
<1>7. StrategyFillHasRoom'
  BY DEF IInv, TypeOK, StrategyFillHasRoom
<1> QED
  BY <1>1, <1>2, <1>3, <1>4, <1>5, <1>6, <1>7 DEF IInv

\* A cycle starts with every open book to settle.
LEMMA ValidateStep == ASSUME IInv, Validate PROVE IInv'
<1> USE DEF Validate, market, walk, history, positions_to_settle
<1>0. UNCHANGED <<books, outcomes, settled>>
  OBVIOUS
<1>1. /\ RecordedOnce' /\ ClearedIsRecorded' /\ CapsHold' /\ open_books' = open_books
      /\ \A x : Recorded(x)' = Recorded(x)
  BY <1>0, FilesUntouched
<1>2. TypeOK'
  <2>1. cycle' \in 0..MaxCycle /\ toSettle' \subseteq Book
    BY DEF IInv, TypeOK, open_books
  <2>2. summaries' \in Seq(Summary)
    BY EmptySeq
  <2>3. entries' \in Seq(Attempt)
    BY EmptySeq
  <2>4. verdict' \in BOOLEAN
    BY DEF run_risk_guard
  <2> QED
    BY <2>1, <2>2, <2>3, <2>4 DEF IInv, TypeOK, WalkSteps, AttemptSteps
<1>3. InHand'
  BY <1>1 DEF IInv, TypeOK, InHand, WalkSteps, AttemptSteps
<1>4. FillsReconcile'
  BY <1>1 DEF IInv, FillsReconcile
<1>5. SummariesRecorded'
  BY <1>1 DEF IInv, TypeOK, SummariesRecorded
<1>6. WalkCounts'
  BY <1>1 DEF IInv, TypeOK, InHand, WalkCounts, WalkSteps, AttemptSteps, Opened
<1>7. StrategyFillHasRoom'
  BY DEF IInv, TypeOK, StrategyFillHasRoom
<1> QED
  BY <1>1, <1>2, <1>3, <1>4, <1>5, <1>6, <1>7 DEF IInv

\* The walk starts with the open books counted and with candidates without one.
LEMMA StartWalkStep == ASSUME IInv, StartWalk PROVE IInv'
<1> USE DEF StartWalk, market, walk, history, Candidates
<1>0. UNCHANGED <<books, outcomes, settled>>
  OBVIOUS
<1>1. /\ RecordedOnce' /\ ClearedIsRecorded' /\ CapsHold' /\ open_books' = open_books
      /\ \A x : Recorded(x)' = Recorded(x)
  BY <1>0, FilesUntouched
<1>2. TypeOK'
  <2>1. research' \in Decision /\ research'.book = Default
    <3>1. PICK allow \in {FALSE, verdict /\ Cardinality(open_books) < MaxOpenBooks} :
            research' = [book |-> Default, cycle |-> cycle, allow |-> allow, consumed |-> FALSE]
      OBVIOUS
    <3>2. allow \in BOOLEAN
      BY <3>1 DEF IInv, TypeOK
    <3> QED
      BY <3>1, <3>2 DEF IInv, TypeOK, Decision, Book
  <2>2. todo' \in Seq(Strategy) /\ openCount' \in Nat
    BY BooksFinite, FS_CardinalityType
  <2> QED
    BY <2>1, <2>2 DEF IInv, TypeOK, WalkSteps, AttemptSteps
<1>3. InHand'
  BY <1>1 DEF IInv, TypeOK, InHand, WalkSteps, AttemptSteps
<1>4. FillsReconcile'
  BY <1>1 DEF IInv, FillsReconcile
<1>5. SummariesRecorded'
  BY <1>1 DEF IInv, TypeOK, SummariesRecorded
<1>6. WalkCounts'
  <2>1. \A i \in DOMAIN todo' : todo'[i] \notin open_books
    OBVIOUS
  <2>2. \A i, j \in DOMAIN todo' : todo'[i] = todo'[j] => i = j
    OBVIOUS
  <2>3. Opened' = 0 /\ openCount' = Cardinality(open_books) /\ openCount' \in Nat
    <3>1. entries' = <<>>
      BY DEF IInv, InHand, WalkSteps, AttemptSteps
    <3>2. {i \in DOMAIN entries' : entries'[i].opened} = {}
      BY <3>1
    <3> QED
      BY <3>2, FS_EmptySet, BooksFinite, FS_CardinalityType DEF Opened
  <2> QED
    BY <1>1, <2>1, <2>2, <2>3 DEF WalkCounts, AttemptSteps
<1>7. StrategyFillHasRoom'
  BY DEF IInv, TypeOK, StrategyFillHasRoom
<1> QED
  BY <1>1, <1>2, <1>3, <1>4, <1>5, <1>6, <1>7 DEF IInv

\* Attribution takes a close off the list.
LEMMA AttributeStep == ASSUME IInv, Attribute PROVE IInv'
<1> USE DEF Attribute, market, walk, history
<1>0. UNCHANGED <<books, outcomes, settled>>
  OBVIOUS
<1>1. /\ RecordedOnce' /\ ClearedIsRecorded' /\ CapsHold' /\ open_books' = open_books
      /\ \A x : Recorded(x)' = Recorded(x)
  BY <1>0, FilesUntouched
<1>2. TypeOK'
  BY DEF IInv, TypeOK, InHand, WalkSteps, AttemptSteps
<1>3. InHand'
  BY <1>1 DEF IInv, TypeOK, InHand, WalkSteps, AttemptSteps
<1>4. FillsReconcile'
  BY <1>1 DEF IInv, FillsReconcile
<1>5. SummariesRecorded'
  BY <1>1 DEF IInv, TypeOK, SummariesRecorded
<1>6. WalkCounts'
  BY <1>1 DEF IInv, TypeOK, InHand, WalkCounts, WalkSteps, AttemptSteps, Opened
<1>7. StrategyFillHasRoom'
  BY DEF IInv, TypeOK, StrategyFillHasRoom
<1> QED
  BY <1>1, <1>2, <1>3, <1>4, <1>5, <1>6, <1>7 DEF IInv

\* A refused candidate is dropped.
LEMMA SkipCandidateStep == ASSUME IInv, SkipCandidate PROVE IInv'
<1> USE DEF SkipCandidate, market, walk, history
<1>0. UNCHANGED <<books, outcomes, settled>>
  OBVIOUS
<1>1. /\ RecordedOnce' /\ ClearedIsRecorded' /\ CapsHold' /\ open_books' = open_books
      /\ \A x : Recorded(x)' = Recorded(x)
  BY <1>0, FilesUntouched
<1>2. TypeOK'
  BY DEF IInv, TypeOK, InHand, WalkSteps, AttemptSteps
<1>3. InHand'
  BY <1>1 DEF IInv, TypeOK, InHand, WalkSteps, AttemptSteps
<1>4. FillsReconcile'
  BY <1>1 DEF IInv, FillsReconcile
<1>5. SummariesRecorded'
  BY <1>1 DEF IInv, TypeOK, SummariesRecorded
<1>6. WalkCounts'
  BY <1>1 DEF IInv, TypeOK, InHand, WalkCounts, WalkSteps, AttemptSteps, Opened
<1>7. StrategyFillHasRoom'
  BY DEF IInv, TypeOK, StrategyFillHasRoom
<1> QED
  BY <1>1, <1>2, <1>3, <1>4, <1>5, <1>6, <1>7 DEF IInv

\* The gate lets a strategy try while there is room.
LEMMA PersistCandidateStep == ASSUME IInv, PersistCandidate PROVE IInv'
<1> USE DEF PersistCandidate, market, walk, history, GateAdmits
<1>0. UNCHANGED <<books, outcomes, settled>>
  OBVIOUS
<1>1. /\ RecordedOnce' /\ ClearedIsRecorded' /\ CapsHold' /\ open_books' = open_books
      /\ \A x : Recorded(x)' = Recorded(x)
  BY <1>0, FilesUntouched
<1>2. TypeOK'
  BY DEF IInv, TypeOK, InHand, WalkSteps, AttemptSteps
<1>3. InHand'
  <2>1. decision' \in Decision /\ decision'.cycle > 0
    BY DEF IInv, TypeOK, InHand, Decision, Book, WalkSteps, AttemptSteps
  <2> QED
    BY <1>1, <2>1 DEF IInv, InHand, WalkSteps, AttemptSteps
<1>4. FillsReconcile'
  BY <1>1 DEF IInv, FillsReconcile
<1>5. SummariesRecorded'
  BY <1>1 DEF IInv, TypeOK, SummariesRecorded
<1>6. WalkCounts'
  <2>1. /\ Cardinality(open_books) <= openCount + Opened
        /\ \A i \in DOMAIN todo : todo[i] \notin open_books
        /\ \A i, j \in DOMAIN todo : todo[i] = todo[j] => i = j
    BY DEF IInv, WalkCounts, WalkSteps
  <2>2. todo \in Seq(Strategy) /\ todo # <<>> /\ openCount \in Nat
    BY DEF IInv, TypeOK
  <2>3. /\ decision'.book = todo[1] /\ 1 \in DOMAIN todo
        /\ \A i \in DOMAIN todo' : i + 1 \in DOMAIN todo /\ i \in Nat \ {0} /\ todo'[i] = todo[i + 1]
    BY <2>2
  <2>4. Opened \in Nat /\ Opened' = Opened
    <3>1. entries \in Seq(Attempt)
      BY DEF IInv, TypeOK
    <3>2. IsFiniteSet(DOMAIN entries)
      BY <3>1, FS_Interval
    <3> QED
      BY <3>2, FS_Subset, FS_CardinalityType DEF Opened
  <2>5. Cardinality(open_books) < MaxOpenBooks
    BY <2>1, <2>2, <2>4, BooksFinite, FS_CardinalityType
  <2>6. \A i, j \in DOMAIN todo' : todo'[i] = todo'[j] => i = j
    BY <2>1, <2>3
  <2> QED
    BY <1>1, <2>1, <2>3, <2>4, <2>5, <2>6 DEF WalkCounts, WalkSteps, AttemptSteps
<1>7. StrategyFillHasRoom'
  BY DEF IInv, TypeOK, StrategyFillHasRoom
<1> QED
  BY <1>1, <1>2, <1>3, <1>4, <1>5, <1>6, <1>7 DEF IInv

\* The research decision takes its turn.
LEMMA PersistResearchStep == ASSUME IInv, PersistResearch PROVE IInv'
<1> USE DEF PersistResearch, market, walk, history, ResearchTurn, Attempted
<1>0. UNCHANGED <<books, outcomes, settled>>
  OBVIOUS
<1>1. /\ RecordedOnce' /\ ClearedIsRecorded' /\ CapsHold' /\ open_books' = open_books
      /\ \A x : Recorded(x)' = Recorded(x)
  BY <1>0, FilesUntouched
<1>2. TypeOK'
  BY DEF IInv, TypeOK, InHand, WalkSteps, AttemptSteps
<1>3. InHand'
  BY <1>1 DEF IInv, TypeOK, InHand, WalkSteps, AttemptSteps
<1>4. FillsReconcile'
  BY <1>1 DEF IInv, FillsReconcile
<1>5. SummariesRecorded'
  BY <1>1 DEF IInv, TypeOK, SummariesRecorded
<1>6. WalkCounts'
  BY <1>1 DEF IInv, TypeOK, InHand, WalkCounts, WalkSteps, AttemptSteps, Opened
<1>7. StrategyFillHasRoom'
  BY DEF IInv, TypeOK, StrategyFillHasRoom
<1> QED
  BY <1>1, <1>2, <1>3, <1>4, <1>5, <1>6, <1>7 DEF IInv

\* What the engine makes of the intent reconciles if it is a fill.
LEMMA CreateIntentStep == ASSUME IInv, CreateIntent PROVE IInv'
<1> USE DEF CreateIntent, market, walk, history
<1>0. UNCHANGED <<books, outcomes, settled>>
  OBVIOUS
<1>1. /\ RecordedOnce' /\ ClearedIsRecorded' /\ CapsHold' /\ open_books' = open_books
      /\ \A x : Recorded(x)' = Recorded(x)
  BY <1>0, FilesUntouched
<1>2. TypeOK'
  BY DEF IInv, TypeOK, InHand, WalkSteps, AttemptSteps
<1>3. InHand'
  <2>1. decision' \in Decision /\ decision'.cycle > 0
    BY DEF IInv, InHand, Decision, AttemptSteps
  <2> QED
    BY <1>1, <2>1 DEF IInv, InHand, WalkSteps, AttemptSteps
<1>4. FillsReconcile'
  <2>1. is_filled(execution') => reconcile_paper_execution_record(execution') = CleanReconciliation
    BY FillReconciles
  <2> QED
    BY <1>1, <2>1 DEF IInv, FillsReconcile
<1>5. SummariesRecorded'
  BY <1>1 DEF IInv, TypeOK, SummariesRecorded
<1>6. WalkCounts'
  BY <1>1 DEF IInv, TypeOK, InHand, WalkCounts, WalkSteps, AttemptSteps, Opened
<1>7. StrategyFillHasRoom'
  BY DEF IInv, TypeOK, StrategyFillHasRoom
<1> QED
  BY <1>1, <1>2, <1>3, <1>4, <1>5, <1>6, <1>7 DEF IInv

\* Nothing is executed.
LEMMA NoIntentStep == ASSUME IInv, NoIntent PROVE IInv'
<1> USE DEF NoIntent, market, walk, history
<1>0. UNCHANGED <<books, outcomes, settled>>
  OBVIOUS
<1>1. /\ RecordedOnce' /\ ClearedIsRecorded' /\ CapsHold' /\ open_books' = open_books
      /\ \A x : Recorded(x)' = Recorded(x)
  BY <1>0, FilesUntouched
<1>2. TypeOK'
  BY DEF IInv, TypeOK, InHand, WalkSteps, AttemptSteps
<1>3. InHand'
  BY <1>1 DEF IInv, TypeOK, InHand, WalkSteps, AttemptSteps
<1>4. FillsReconcile'
  BY <1>1 DEF IInv, FillsReconcile
<1>5. SummariesRecorded'
  BY <1>1 DEF IInv, TypeOK, SummariesRecorded
<1>6. WalkCounts'
  BY <1>1 DEF IInv, TypeOK, InHand, WalkCounts, WalkSteps, AttemptSteps, Opened
<1>7. StrategyFillHasRoom'
  BY DEF IInv, TypeOK, StrategyFillHasRoom
<1> QED
  BY <1>1, <1>2, <1>3, <1>4, <1>5, <1>6, <1>7 DEF IInv

\* The record is appended.
LEMMA ExecutePaperOrderStep == ASSUME IInv, ExecutePaperOrder PROVE IInv'
<1> USE DEF ExecutePaperOrder, market, walk, history
<1>0. UNCHANGED <<books, outcomes, settled>>
  OBVIOUS
<1>1. /\ RecordedOnce' /\ ClearedIsRecorded' /\ CapsHold' /\ open_books' = open_books
      /\ \A x : Recorded(x)' = Recorded(x)
  BY <1>0, FilesUntouched
<1>2. TypeOK'
  BY DEF IInv, TypeOK, InHand, WalkSteps, AttemptSteps
<1>3. InHand'
  BY <1>1 DEF IInv, TypeOK, InHand, WalkSteps, AttemptSteps
<1>4. FillsReconcile'
  BY <1>1 DEF IInv, FillsReconcile
<1>5. SummariesRecorded'
  BY <1>1 DEF IInv, TypeOK, SummariesRecorded
<1>6. WalkCounts'
  BY <1>1 DEF IInv, TypeOK, InHand, WalkCounts, WalkSteps, AttemptSteps, Opened
<1>7. StrategyFillHasRoom'
  BY DEF IInv, TypeOK, StrategyFillHasRoom
<1> QED
  BY <1>1, <1>2, <1>3, <1>4, <1>5, <1>6, <1>7 DEF IInv

\* An attempt without a fill opens nothing.
LEMMA EnterNothingStep == ASSUME IInv, EnterNothing PROVE IInv'
<1> USE DEF EnterNothing, market, walk, history
<1>0. UNCHANGED <<books, outcomes, settled>>
  OBVIOUS
<1>1. /\ RecordedOnce' /\ ClearedIsRecorded' /\ CapsHold' /\ open_books' = open_books
      /\ \A x : Recorded(x)' = Recorded(x)
  BY <1>0, FilesUntouched
<1>2. TypeOK'
  <2>1. Entry(decision, FALSE, FALSE, "none") \in
          Attempt
    BY DEF IInv, InHand, AttemptSteps, Decision, Entry, Attempt, Refusal
  <2>2. entries' \in Seq(Attempt)
    BY <2>1, AppendProperties DEF IInv, TypeOK
  <2> QED
    BY <2>2 DEF IInv, TypeOK, WalkSteps, AttemptSteps
<1>3. InHand'
  BY <1>1 DEF IInv, TypeOK, InHand, WalkSteps, AttemptSteps
<1>4. FillsReconcile'
  <2>1. ~is_filled(NoExecution)
    BY DEF is_filled, NoExecution
  <2> QED
    BY <1>1, <2>1 DEF IInv, FillsReconcile
<1>5. SummariesRecorded'
  BY <1>1 DEF IInv, TypeOK, SummariesRecorded
<1>6. WalkCounts'
  <2>1. Opened' = Opened
    <3>1. {i \in DOMAIN entries' : entries'[i].opened} = {i \in DOMAIN entries : entries[i].opened}
      BY DEF IInv, TypeOK, Entry
    <3> QED
      BY <3>1 DEF Opened
  <2> QED
    BY <1>1, <2>1 DEF IInv, WalkCounts, WalkSteps, AttemptSteps
<1>7. StrategyFillHasRoom'
  BY DEF IInv, TypeOK, StrategyFillHasRoom, Entry
<1> QED
  BY <1>1, <1>2, <1>3, <1>4, <1>5, <1>6, <1>7 DEF IInv

\* A book that holds is passed over.
LEMMA SettleHoldStep == ASSUME IInv, NEW b \in Book, SettleHold(b) PROVE IInv'
<1> USE DEF SettleHold, market, walk, history
<1>0. UNCHANGED <<books, outcomes, settled>>
  OBVIOUS
<1>1. /\ RecordedOnce' /\ ClearedIsRecorded' /\ CapsHold' /\ open_books' = open_books
      /\ \A x : Recorded(x)' = Recorded(x)
  BY <1>0, FilesUntouched
<1>2. TypeOK'
  BY DEF IInv, TypeOK, InHand, WalkSteps, AttemptSteps
<1>3. InHand'
  BY <1>1 DEF IInv, TypeOK, InHand, WalkSteps, AttemptSteps
<1>4. FillsReconcile'
  BY <1>1 DEF IInv, FillsReconcile
<1>5. SummariesRecorded'
  BY <1>1 DEF IInv, TypeOK, SummariesRecorded
<1>6. WalkCounts'
  BY <1>1 DEF IInv, TypeOK, InHand, WalkCounts, WalkSteps, AttemptSteps, Opened
<1>7. StrategyFillHasRoom'
  BY DEF IInv, TypeOK, StrategyFillHasRoom
<1> QED
  BY <1>1, <1>2, <1>3, <1>4, <1>5, <1>6, <1>7 DEF IInv

\* A damaged registry ends the stage with nothing saved.
LEMMA SettleRaisesStep == ASSUME IInv, NEW b \in Book, SettleRaises(b) PROVE IInv'
<1> USE DEF SettleRaises, market, history
<1>1. UNCHANGED <<books, outcomes, settled, fate, signal, cycle>> /\ Returns
  OBVIOUS
<1>2. RecordedOnce' /\ ClearedIsRecorded' /\ CapsHold'
  BY <1>1, FilesUntouched
<1>3. settled' \in Seq(Summary) /\ outcomes' \in Seq(Outcome)
  BY <1>1 DEF IInv, TypeOK
<1>4. /\ TypeOK' /\ InHand' /\ FillsReconcile' /\ SummariesRecorded' /\ WalkCounts'
      /\ StrategyFillHasRoom'
  BY <1>1, <1>3, ReturnsNothing
<1> QED
  BY <1>2, <1>4 DEF IInv

\* A damaged execution registry ends the stage.
LEMMA ExecuteRaisesStep == ASSUME IInv, ExecuteRaises PROVE IInv'
<1> USE DEF ExecuteRaises, market, history
<1>1. UNCHANGED <<books, outcomes, settled, fate, signal, cycle>> /\ Returns
  OBVIOUS
<1>2. RecordedOnce' /\ ClearedIsRecorded' /\ CapsHold'
  BY <1>1, FilesUntouched
<1>3. settled' \in Seq(Summary) /\ outcomes' \in Seq(Outcome)
  BY <1>1 DEF IInv, TypeOK
<1>4. /\ TypeOK' /\ InHand' /\ FillsReconcile' /\ SummariesRecorded' /\ WalkCounts'
      /\ StrategyFillHasRoom'
  BY <1>1, <1>3, ReturnsNothing
<1> QED
  BY <1>2, <1>4 DEF IInv

\* The walk is over: the decision of the first fill stays in the file.
LEMMA EndWalkStep == ASSUME IInv, EndWalk PROVE IInv'
<1> USE DEF EndWalk, market, history
<1>1. UNCHANGED <<books, outcomes, settled, fate, signal, cycle>> /\ Returns
  OBVIOUS
<1>2. RecordedOnce' /\ ClearedIsRecorded' /\ CapsHold'
  BY <1>1, FilesUntouched
<1>3. settled' \in Seq(Summary) /\ outcomes' \in Seq(Outcome)
  BY <1>1 DEF IInv, TypeOK
<1>4. /\ TypeOK' /\ InHand' /\ FillsReconcile' /\ SummariesRecorded' /\ WalkCounts'
      /\ StrategyFillHasRoom'
  BY <1>1, <1>3, ReturnsNothing
<1> QED
  BY <1>2, <1>4 DEF IInv

\* A crash between two writes drops the locals.
LEMMA CrashStep == ASSUME IInv, Crash PROVE IInv'
<1> USE DEF Crash, market, history, Dies
<1>1. UNCHANGED <<books, outcomes, settled, fate, signal, cycle>> /\ Returns
  OBVIOUS
<1>2. RecordedOnce' /\ ClearedIsRecorded' /\ CapsHold'
  BY <1>1, FilesUntouched
<1>3. settled' \in Seq(Summary) /\ outcomes' \in Seq(Outcome)
  BY <1>1 DEF IInv, TypeOK
<1>4. /\ TypeOK' /\ InHand' /\ FillsReconcile' /\ SummariesRecorded' /\ WalkCounts'
      /\ StrategyFillHasRoom'
  BY <1>1, <1>3, ReturnsNothing
<1> QED
  BY <1>2, <1>4 DEF IInv

\* A crash in the append of an execution or of a reconciliation.
LEMMA CrashInAppendStep == ASSUME IInv, CrashInAppend PROVE IInv'
<1> USE DEF CrashInAppend, market, history, Dies
<1>1. UNCHANGED <<books, outcomes, settled, fate, signal, cycle>> /\ Returns
  OBVIOUS
<1>2. RecordedOnce' /\ ClearedIsRecorded' /\ CapsHold'
  BY <1>1, FilesUntouched
<1>3. settled' \in Seq(Summary) /\ outcomes' \in Seq(Outcome)
  BY <1>1 DEF IInv, TypeOK
<1>4. /\ TypeOK' /\ InHand' /\ FillsReconcile' /\ SummariesRecorded' /\ WalkCounts'
      /\ StrategyFillHasRoom'
  BY <1>1, <1>3, ReturnsNothing
<1> QED
  BY <1>2, <1>4 DEF IInv

\* The registry grows by an execution it did not hold; what was recorded stays.
LEMMA Grows ==
  ASSUME IInv, NEW e \in Outcome, ~Recorded(e.exec), outcomes' = Append(outcomes, e)
  PROVE  /\ outcomes' \in Seq(Outcome) /\ RecordedOnce' /\ Recorded(e.exec)'
         /\ \A x : Recorded(x) => Recorded(x)'
<1>1. outcomes \in Seq(Outcome)
  BY DEF IInv, TypeOK
<1>2. /\ outcomes' \in Seq(Outcome) /\ DOMAIN outcomes' = 1..(Len(outcomes) + 1)
      /\ \A i \in DOMAIN outcomes : i \in DOMAIN outcomes' /\ outcomes'[i] = outcomes[i]
      /\ outcomes'[Len(outcomes) + 1] = e
  BY <1>1
<1>3. RecordedOnce'
  <2>1. \A i \in DOMAIN outcomes' : i = Len(outcomes) + 1 \/ i \in DOMAIN outcomes
    BY <1>1, <1>2
  <2> QED
    BY <1>2, <2>1 DEF IInv, RecordedOnce, Recorded
<1>4. Recorded(e.exec)' /\ \A x : Recorded(x) => Recorded(x)'
  BY <1>1, <1>2 DEF Recorded
<1> QED
  BY <1>2, <1>3, <1>4

\* The outcome of a close, unless it is skipped, is new to the registry.
LEMMA CloseGrows ==
  ASSUME IInv, NEW b \in open_books, fate[b] # "hold"
  PROVE  /\ books[b] \in Position /\ fate[b] \in Result /\ OutcomeOf(b) \in Outcome
         /\ OutcomeOf(b).exec = books[b].exec
         /\ outcome_skipped(books[b]) =>
              books[b].entry_reconciliation = legacy_reconciliation \/ Recorded(books[b].exec)
         /\ ~outcome_skipped(books[b]) => ~Recorded(books[b].exec)
<1>1. books[b] \in Position /\ fate[b] \in Result
  BY DEF IInv, TypeOK, open_books
<1>2. OutcomeOf(b) \in Outcome /\ OutcomeOf(b).exec = books[b].exec
  BY <1>1 DEF OutcomeOf, Outcome, Position
<1>3. books[b].entry_reconciliation \in {CleanReconciliation, legacy_reconciliation}
  BY DEF IInv, FillsReconcile
<1> QED
  BY <1>1, <1>2, <1>3, ReconciliationTypes DEF outcome_skipped

\* A close is recorded before it is passed on to be saved.
LEMMA SettleCloseStep == ASSUME IInv, NEW b \in Book, SettleClose(b) PROVE IInv'
<1> USE DEF SettleClose, market, walk, history
<1>1. b \in open_books /\ fate[b] # "hold" /\ open_books' = open_books
  BY DEF IInv, InHand, open_books
<1>2. /\ outcomes' \in Seq(Outcome) /\ RecordedOnce' /\ \A x : Recorded(x) => Recorded(x)'
      /\ books[b].entry_reconciliation # legacy_reconciliation => Recorded(books[b].exec)'
  <2>1. CASE outcome_skipped(books[b])
    <3>1. outcomes' = outcomes
      BY <2>1
    <3>2. RecordedOnce' /\ \A x : Recorded(x)' = Recorded(x)
      BY <3>1 DEF IInv, RecordedOnce, Recorded
    <3> QED
      BY <1>1, <2>1, <3>1, <3>2, CloseGrows DEF IInv, TypeOK
  <2>2. CASE ~outcome_skipped(books[b])
    <3>1. outcomes' = Append(outcomes, OutcomeOf(b))
      BY <2>2
    <3> QED
      BY <1>1, <2>2, <3>1, CloseGrows, Grows
  <2> QED
    BY <2>1, <2>2
<1> DEFINE s == [book |-> b, result |-> fate[b], position |-> books[b]]
<1>3. s \in Summary /\ s.position = books[b]
  BY <1>1, CloseGrows DEF Summary
<1>4. summaries \in Seq(Summary) /\ summaries' = Append(summaries, s)
  BY DEF IInv, TypeOK
<1> HIDE DEF s
<1>5. summaries' \in Seq(Summary)
  BY <1>3, <1>4
<1>6. TypeOK'
  BY <1>2, <1>5 DEF IInv, TypeOK
<1>7. InHand' /\ FillsReconcile' /\ WalkCounts' /\ StrategyFillHasRoom'
  BY <1>1 DEF IInv, InHand, FillsReconcile, WalkCounts, WalkSteps, AttemptSteps,
              StrategyFillHasRoom
<1>8. SummariesRecorded'
  <2>1. \A i \in DOMAIN summaries' :
          (i \in DOMAIN summaries /\ summaries'[i] = summaries[i]) \/ summaries'[i] = s
    BY <1>4
  <2> QED
    BY <1>2, <1>3, <2>1 DEF IInv, SummariesRecorded
<1>9. ClearedIsRecorded'
  BY <1>2 DEF IInv, ClearedIsRecorded
<1>10. CapsHold'
  BY <1>1 DEF IInv, CapsHold
<1> QED
  BY <1>2, <1>6, <1>7, <1>8, <1>9, <1>10 DEF IInv

\* A crash in the append of an outcome leaves it out or leaves it whole.
LEMMA CrashInOutcomeStep == ASSUME IInv, NEW b \in Book, CrashInOutcome(b) PROVE IInv'
<1> USE DEF CrashInOutcome, Dies, market
<1>1. b \in open_books /\ fate[b] # "hold" /\ ~outcome_skipped(books[b]) /\ Returns
  BY DEF IInv, InHand
<1>2. outcomes' \in Seq(Outcome) /\ RecordedOnce' /\ \A x : Recorded(x) => Recorded(x)'
  <2>1. CASE outcomes' = outcomes
    BY <2>1 DEF IInv, TypeOK, RecordedOnce, Recorded
  <2>2. CASE outcomes' = Append(outcomes, OutcomeOf(b))
    BY <1>1, <2>2, CloseGrows, Grows
  <2> QED
    BY <2>1, <2>2
<1>3. UNCHANGED <<books, fate, signal, cycle, settled>>
  OBVIOUS
<1>4. settled' \in Seq(Summary)
  BY <1>3 DEF IInv, TypeOK
<1>5. /\ TypeOK' /\ InHand' /\ FillsReconcile' /\ SummariesRecorded' /\ WalkCounts'
      /\ StrategyFillHasRoom'
  BY <1>1, <1>2, <1>3, <1>4, ReturnsNothing
<1>6. ClearedIsRecorded'
  BY <1>2, <1>3 DEF IInv, ClearedIsRecorded
<1>7. CapsHold'
  BY <1>3 DEF IInv, CapsHold, open_books
<1> QED
  BY <1>2, <1>5, <1>6, <1>7 DEF IInv

\* The closed books are cleared with their closes on record.
LEMMA SaveSettledStep == ASSUME IInv, SaveSettled PROVE IInv'
<1> USE DEF SaveSettled, save_books, walk
<1>1. TypeOK'
  <2>1. books' \in [Book -> Position \cup {NoPosition}] /\ fate' \in [Book -> Result \cup {"hold"}]
    BY DEF IInv, TypeOK
  <2>2. settled' \in Seq(Summary)
    BY ConcatProperties DEF IInv, TypeOK
  <2> QED
    BY <2>1, <2>2 DEF IInv, TypeOK
<1>2. /\ \A b \in Book : books'[b] # NoPosition => books'[b] = books[b]
      /\ open_books' \subseteq open_books
  BY DEF IInv, TypeOK, open_books
<1>3. CapsHold'
  BY <1>2, CapsShrink DEF IInv
<1>4. InHand'
  BY DEF IInv, InHand, WalkSteps, AttemptSteps
<1>5. FillsReconcile'
  BY <1>2 DEF IInv, FillsReconcile, open_books
<1>6. /\ SummariesRecorded' /\ RecordedOnce' /\ StrategyFillHasRoom'
      /\ \A x : Recorded(x)' = Recorded(x)
  BY DEF IInv, SummariesRecorded, RecordedOnce, StrategyFillHasRoom, Recorded
<1>7. ClearedIsRecorded'
  <2>1. summaries \in Seq(Summary) /\ settled \in Seq(Summary)
    BY DEF IInv, TypeOK
  <2>2. \A i \in DOMAIN settled' :
          \/ i \in DOMAIN settled /\ settled'[i] = settled[i]
          \/ i - Len(settled) \in DOMAIN summaries /\ settled'[i] = summaries[i - Len(settled)]
    BY <2>1
  <2> QED
    BY <1>6, <2>2 DEF IInv, ClearedIsRecorded, SummariesRecorded
<1>8. WalkCounts'
  BY DEF WalkCounts, WalkSteps, AttemptSteps
<1> QED
  BY <1>1, <1>3, <1>4, <1>5, <1>6, <1>7, <1>8 DEF IInv

\* An attempt is entered once, and counted as opened only if it is.
LEMMA OneAttemptMore ==
  ASSUME IInv, NEW e \in Attempt, entries' = Append(entries, e)
  PROVE  /\ entries' \in Seq(Attempt) /\ Opened \in Nat
         /\ Opened' = IF e.opened THEN Opened + 1 ELSE Opened
         /\ \A i \in DOMAIN entries' :
              (i \in DOMAIN entries /\ entries'[i] = entries[i]) \/ entries'[i] = e
<1> DEFINE before == {i \in DOMAIN entries : entries[i].opened}
           after == {i \in DOMAIN entries' : entries'[i].opened}
           n == Len(entries) + 1
<1>1. entries \in Seq(Attempt) /\ e.opened \in BOOLEAN
  BY DEF IInv, TypeOK, Attempt
<1>2. /\ entries' \in Seq(Attempt) /\ DOMAIN entries' = DOMAIN entries \cup {n}
      /\ n \notin DOMAIN entries /\ entries'[n] = e
      /\ \A i \in DOMAIN entries : entries'[i] = entries[i]
  BY <1>1
<1>3. IsFiniteSet(before)
  <2>1. IsFiniteSet(DOMAIN entries)
    BY <1>1, FS_Interval
  <2> QED
    BY <2>1, FS_Subset
<1>4. after = IF e.opened THEN before \cup {n} ELSE before
  BY <1>2
<1>5. n \notin before
  BY <1>2
<1>6. Cardinality(before) \in Nat
      /\ Cardinality(after) = IF e.opened THEN Cardinality(before) + 1 ELSE Cardinality(before)
  <2> HIDE DEF before, after, n
  <2> QED
    BY <1>3, <1>4, <1>5, FS_AddElement, FS_CardinalityType
<1> QED
  BY <1>2, <1>6 DEF Opened

\* What an attempt is entered as.
LEMMA AttemptOf ==
  ASSUME NEW d \in Decision, NEW o \in BOOLEAN, NEW r \in Refusal
  PROVE  LET e == Entry(d, TRUE, o, r)
         IN  e \in Attempt /\ e.book = d.book /\ e.opened = o /\ e.refusal = r
  BY DEF Entry, Attempt, Decision

\* A refused fill opens no book; a strategy's is never refused for want of one.
LEMMA RefusedStep ==
  ASSUME IInv, OpenInBook, refusal_reason(decision.book) # "none"
  PROVE  IInv'
<1> USE DEF OpenInBook, walk, history
<1> DEFINE b == decision.book
           e == Entry(decision, TRUE, FALSE, refusal_reason(b))
<1>1. UNCHANGED <<books, outcomes, settled, fate>> /\ decision \in Decision /\ b \in Book
  BY DEF IInv, InHand, AttemptSteps, Decision
<1>2. /\ RecordedOnce' /\ ClearedIsRecorded' /\ CapsHold' /\ open_books' = open_books
      /\ \A x : Recorded(x)' = Recorded(x)
  BY <1>1, FilesUntouched
<1>3. e \in Attempt /\ entries' = Append(entries, e) /\ ~e.opened /\ e.book = b
      /\ e.refusal = refusal_reason(b)
  <2>1. refusal_reason(b) \in Refusal
    BY DEF refusal_reason, Refusal
  <2>2. e \in Attempt /\ e.opened = FALSE /\ e.book = b /\ e.refusal = refusal_reason(b)
    BY <1>1, <2>1, AttemptOf
  <2>3. (refusal_reason(b) = "none") = FALSE
    OBVIOUS
  <2>4. entries' = Append(entries, e)
    BY <2>3
  <2> QED
    BY <2>2, <2>4
<1> HIDE DEF e
<1>4. /\ entries' \in Seq(Attempt) /\ Opened' = Opened
      /\ \A i \in DOMAIN entries' :
           (i \in DOMAIN entries /\ entries'[i] = entries[i]) \/ entries'[i] = e
  BY <1>3, OneAttemptMore
<1>5. TypeOK'
  BY <1>1, <1>4 DEF IInv, TypeOK, WalkSteps, AttemptSteps
<1>6. InHand'
  BY <1>2 DEF IInv, InHand, WalkSteps, AttemptSteps
<1>7. FillsReconcile'
  BY <1>1, <1>2 DEF IInv, FillsReconcile, is_filled, NoExecution
<1>8. SummariesRecorded'
  BY <1>2 DEF IInv, SummariesRecorded
<1>9. WalkCounts'
  BY <1>2, <1>4 DEF IInv, WalkCounts, WalkSteps, AttemptSteps
<1>10. StrategyFillHasRoom'
  <2>1. b \in Strategy => b \notin open_books /\ Cardinality(open_books) < MaxOpenBooks
    BY DEF IInv, WalkCounts, WalkSteps, AttemptSteps
  <2>2. b \in Strategy => refusal_reason(b) \notin {"MAX_OPEN_BOOKS", "BOOK_ALREADY_OPEN"}
    <3>1. Cardinality(open_books) \in Nat
      BY BooksFinite, FS_CardinalityType
    <3> QED
      BY <2>1, <3>1 DEF refusal_reason
  <2> QED
    BY <1>3, <1>4, <2>2 DEF IInv, StrategyFillHasRoom
<1> QED
  BY <1>2, <1>5, <1>6, <1>7, <1>8, <1>9, <1>10 DEF IInv

\* The portfolio with one book more, opened where every cap has room.
LEMMA CapsGrow ==
  ASSUME IInv, NEW b \in Book, NEW p \in Position, p.signal = signal,
         books' = [books EXCEPT ![b] = p], refusal_reason(b) = "none"
  PROVE  CapsHold' /\ b \notin open_books /\ open_books' \subseteq open_books \cup {b}
         /\ Cardinality(open_books') <= Cardinality(open_books) + 1
<1>1. books \in [Book -> Position \cup {NoPosition}] /\ signal \in Signal
  BY DEF IInv, TypeOK
<1>2. /\ books'[b] = p /\ \A c \in Book \ {b} : books'[c] = books[c]
      /\ open_books' \subseteq open_books \cup {b} /\ open_books \subseteq Book
  BY <1>1 DEF open_books
<1>3. /\ b \notin open_books /\ ~(Cardinality(open_books) >= MaxOpenBooks)
      /\ ~(Cardinality(SameDirection) >= MaxSameDirection)
      /\ ~(Cardinality(SameSignalDirection) >= MaxSameSignalDirection)
  BY DEF refusal_reason
<1>4. Cardinality(open_books') <= Cardinality(open_books) + 1
      /\ Cardinality(open_books') <= MaxOpenBooks
  BY <1>2, <1>3, OneMore
<1>5. ASSUME NEW d \in Side
      PROVE  LET same == {c \in open_books' : books'[c].signal.side = d}
             IN  /\ Cardinality(same) <= MaxSameDirection
                 /\ \A n \in 1..MaxSnapshot :
                      Cardinality({c \in same : books'[c].signal.id = n}) <= MaxSameSignalDirection
  <2> DEFINE old == {c \in open_books : books[c].signal.side = d}
             new == {c \in open_books' : books'[c].signal.side = d}
  <2>1. old \subseteq Book /\ new \subseteq old \cup {b} /\ (d # signal.side => new \subseteq old)
        /\ (d = signal.side => old = SameDirection) /\ \A c \in new : c # b => books'[c] = books[c]
    BY <1>2 DEF SameDirection
  <2>2. Cardinality(old) <= MaxSameDirection
    BY DEF IInv, CapsHold
  <2>3. Cardinality(new) <= MaxSameDirection
    <3>1. CASE d = signal.side
      <4>1. ~(Cardinality(old) >= MaxSameDirection)
        BY <1>3, <2>1, <3>1
      <4> QED
        BY <2>1, <4>1, OneMore
    <3>2. CASE d # signal.side
      BY <2>1, <2>2, <3>2, Fewer
    <3> QED
      BY <3>1, <3>2
  <2>4. ASSUME NEW n \in 1..MaxSnapshot
        PROVE  Cardinality({c \in new : books'[c].signal.id = n}) <= MaxSameSignalDirection
    <3> DEFINE oldn == {c \in old : books[c].signal.id = n}
               newn == {c \in new : books'[c].signal.id = n}
    <3>1. oldn \subseteq Book /\ newn \subseteq oldn \cup {b}
          /\ (~(d = signal.side /\ n = signal.id) => newn \subseteq oldn)
          /\ (d = signal.side /\ n = signal.id => oldn = SameSignalDirection)
      BY <1>2, <2>1 DEF SameSignalDirection
    <3>2. Cardinality(oldn) <= MaxSameSignalDirection
      BY DEF IInv, CapsHold
    <3> HIDE DEF oldn, newn
    <3>3. Cardinality(newn) <= MaxSameSignalDirection
      <4>1. CASE d = signal.side /\ n = signal.id
        <5>1. ~(Cardinality(oldn) >= MaxSameSignalDirection)
          BY <1>3, <3>1, <4>1
        <5> QED
          BY <3>1, <5>1, OneMore
      <4>2. CASE ~(d = signal.side /\ n = signal.id)
        BY <3>1, <3>2, <4>2, Fewer
      <4> QED
        BY <4>1, <4>2
    <3> QED
      BY <3>3 DEF newn
  <2> QED
    BY <2>3, <2>4
<1> QED
  BY <1>2, <1>3, <1>4, <1>5 DEF CapsHold

\* A fill that is not refused opens a book of its own, on the reconciliation
\* that answered.
LEMMA OpenedStep ==
  ASSUME IInv, OpenInBook, refusal_reason(decision.book) = "none"
  PROVE  IInv'
<1> USE DEF OpenInBook, walk, history
<1> DEFINE b == decision.book
           e == Entry(decision, TRUE, TRUE, "none")
           p == [exec |-> execution_id(decision), signal |-> signal,
                 entry_reconciliation |-> run_reconciler]
<1>1. decision \in Decision /\ decision.cycle > 0 /\ b \in Book
  BY DEF IInv, InHand, AttemptSteps, Decision
<1>2. /\ run_reconciler \in {CleanReconciliation, legacy_reconciliation}
      /\ run_reconciler \in Reconciliation
  BY ReconciliationTypes DEF IInv, FillsReconcile, run_reconciler
<1>3. p \in Position /\ p.signal = signal /\ p.entry_reconciliation = run_reconciler
  <2>1. execution_id(decision) \in ExecutionId
    BY <1>1 DEF IInv, TypeOK, execution_id, ExecutionId, Signal, Decision, Book
  <2> QED
    BY <1>2, <2>1 DEF IInv, TypeOK, Position
<1>4. books' = [books EXCEPT ![b] = p] /\ fate' \in [Book -> Result \cup {"hold"}]
  BY <1>1 DEF IInv, TypeOK
<1>5. UNCHANGED <<outcomes, settled, summaries, signal, cycle, toSettle, todo, openCount, research>>
  OBVIOUS
<1>6. e \in Attempt /\ entries' = Append(entries, e) /\ e.opened /\ e.book = b /\ e.refusal = "none"
  <2>1. e \in Attempt /\ e.opened = TRUE /\ e.book = b /\ e.refusal = "none"
    BY <1>1, AttemptOf DEF Refusal
  <2>2. (refusal_reason(b) = "none") = TRUE
    OBVIOUS
  <2>3. entries' = Append(entries, e)
    BY <2>2
  <2> QED
    BY <2>1, <2>3
<1> HIDE DEF e, p
<1>7. /\ entries' \in Seq(Attempt) /\ Opened \in Nat /\ Opened' = Opened + 1
      /\ \A i \in DOMAIN entries' :
           (i \in DOMAIN entries /\ entries'[i] = entries[i]) \/ entries'[i] = e
  BY <1>6, OneAttemptMore
<1>8. CapsHold' /\ b \notin open_books /\ open_books' \subseteq open_books \cup {b}
      /\ Cardinality(open_books') <= Cardinality(open_books) + 1
  BY <1>1, <1>3, <1>4, CapsGrow
<1>9. books' \in [Book -> Position \cup {NoPosition}] /\ books'[b] = p
      /\ \A c \in Book \ {b} : books'[c] = books[c]
  BY <1>1, <1>3, <1>4 DEF IInv, TypeOK
<1>10. TypeOK'
  <2>1. verdict' = verdict /\ pc' = "walk"
    OBVIOUS
  <2>2. /\ signal' \in Signal /\ cycle' \in 0..MaxCycle /\ toSettle' \subseteq Book
        /\ openCount' \in Nat /\ research' \in Decision /\ research'.book = Default
        /\ outcomes' \in Seq(Outcome) /\ summaries' \in Seq(Summary)
        /\ settled' \in Seq(Summary) /\ todo' \in Seq(Strategy) /\ verdict' \in BOOLEAN
    BY <1>5, <2>1 DEF IInv, TypeOK
  <2> QED
    BY <1>4, <1>7, <1>9, <2>1, <2>2 DEF TypeOK, WalkSteps
<1>11. InHand'
  BY <1>5 DEF IInv, InHand, WalkSteps, AttemptSteps
<1>12. FillsReconcile'
  <2>1. ~is_filled(NoExecution)
    BY DEF is_filled, NoExecution
  <2>2. \A c \in open_books' :
          books'[c].entry_reconciliation \in {CleanReconciliation, legacy_reconciliation}
    <3> SUFFICES ASSUME NEW c \in open_books'
                 PROVE  books'[c].entry_reconciliation \in {CleanReconciliation, legacy_reconciliation}
      OBVIOUS
    <3>1. CASE c = b
      BY <1>2, <1>3, <1>9, <3>1
    <3>2. CASE c # b
      BY <1>8, <1>9, <3>2 DEF IInv, FillsReconcile, open_books
    <3> QED
      BY <3>1, <3>2
  <2> QED
    BY <2>1, <2>2 DEF FillsReconcile
<1>13. /\ SummariesRecorded' /\ RecordedOnce' /\ ClearedIsRecorded'
  BY <1>5 DEF IInv, SummariesRecorded, RecordedOnce, ClearedIsRecorded, Recorded
<1>14. WalkCounts'
  <2>1. /\ Cardinality(open_books) <= openCount + Opened
        /\ \A i \in DOMAIN todo : todo[i] \notin open_books /\ todo[i] # b
        /\ \A i, j \in DOMAIN todo : todo[i] = todo[j] => i = j
    BY DEF IInv, WalkCounts, WalkSteps, AttemptSteps
  <2>2. Cardinality(open_books') <= openCount' + Opened'
    <3>1. openCount \in Nat /\ Cardinality(open_books) \in Nat /\ Cardinality(open_books') \in Nat
      <4>1. IsFiniteSet(open_books')
        BY <1>1, <1>8, BooksFinite, FS_AddElement, FS_Subset
      <4> QED
        BY <4>1, BooksFinite, FS_CardinalityType DEF IInv, TypeOK
    <3> QED
      BY <1>5, <1>7, <1>8, <2>1, <3>1
  <2> QED
    BY <1>5, <1>8, <2>1, <2>2 DEF WalkCounts, AttemptSteps
<1>15. StrategyFillHasRoom'
  BY <1>6, <1>7 DEF IInv, StrategyFillHasRoom
<1> QED
  BY <1>8, <1>10, <1>11, <1>12, <1>13, <1>14, <1>15 DEF IInv

\* A step that changes nothing keeps everything.
LEMMA StutterStep == ASSUME IInv, UNCHANGED vars PROVE IInv'
<1> USE DEF vars, market, walk, history
<1>1. /\ RecordedOnce' /\ ClearedIsRecorded' /\ CapsHold' /\ open_books' = open_books
      /\ \A x : Recorded(x)' = Recorded(x)
  BY FilesUntouched
<1>2. TypeOK' /\ InHand' /\ StrategyFillHasRoom'
  BY <1>1 DEF IInv, TypeOK, InHand, StrategyFillHasRoom
<1>3. FillsReconcile' /\ SummariesRecorded' /\ WalkCounts'
  BY <1>1 DEF IInv, FillsReconcile, SummariesRecorded, WalkCounts, Opened
<1> QED
  BY <1>1, <1>2, <1>3 DEF IInv

\* No step, and no crash, breaks IInv.
LEMMA NextIInv == IInv /\ [Next]_vars => IInv'
<1> SUFFICES ASSUME IInv, [Next]_vars PROVE IInv'
  OBVIOUS
<1>1. CASE NewCandle \/ NewFeatures \/ Validate
  BY <1>1, NewCandleStep, NewFeaturesStep, ValidateStep
<1>2. CASE \E b \in Book : SettleHold(b) \/ SettleClose(b) \/ SettleRaises(b)
  BY <1>2, SettleHoldStep, SettleCloseStep, SettleRaisesStep
<1>3. CASE SaveSettled \/ Attribute \/ StartWalk \/ SkipCandidate
  BY <1>3, SaveSettledStep, AttributeStep, StartWalkStep, SkipCandidateStep
<1>4. CASE PersistCandidate \/ PersistResearch \/ CreateIntent \/ NoIntent
  BY <1>4, PersistCandidateStep, PersistResearchStep, CreateIntentStep, NoIntentStep
<1>5. CASE ExecutePaperOrder \/ ExecuteRaises \/ EnterNothing \/ EndWalk
  BY <1>5, ExecutePaperOrderStep, ExecuteRaisesStep, EnterNothingStep, EndWalkStep
<1>6. CASE OpenInBook
  BY <1>6, RefusedStep, OpenedStep
<1>7. CASE Crash \/ (\E b \in Book : CrashInOutcome(b)) \/ CrashInAppend
  BY <1>7, CrashStep, CrashInOutcomeStep, CrashInAppendStep
<1>8. CASE Done \/ UNCHANGED vars
  BY <1>8, StutterStep DEF Done
<1> QED
  BY <1>1, <1>2, <1>3, <1>4, <1>5, <1>6, <1>7, <1>8 DEF Next

-----------------------------------------------------------------------------
(***************************************************************************)
(* What is attributed.  AttributionInv is kept by every step, given IInv.  *)
(***************************************************************************)
\* What IInv says of the variables of the attribution.
LEMMA AttributionTypes ==
  ASSUME IInv
  PROVE  /\ open_books \subseteq Book /\ toSettle \subseteq open_books
         /\ \A b \in open_books : books[b] \in Position /\ books[b].exec \in ExecutionId
         /\ outcomes \in Seq(Outcome) /\ summaries \in Seq(Summary) /\ cycle \in Nat
         /\ \A i \in DOMAIN summaries : summaries[i] \in Summary
         /\ \A i \in DOMAIN outcomes : outcomes[i] \in Outcome
  BY DEF IInv, TypeOK, InHand, open_books, Position

\* What is over stays over.
LEMMA PastStays ==
  ASSUME NEW exec \in ExecutionId, cycle \in Nat, cycle' \in Nat, cycle' >= cycle, Past(exec)
  PROVE  Past(exec)'
<1>1. exec.at \in Int
  BY DEF ExecutionId
<1> QED
  BY <1>1 DEF Past

\* A step that closes nothing, opens nothing and attributes nothing, and that
\* leaves a settlement only with nothing recorded of an open book.
LEMMA AttributionQuiet ==
  ASSUME IInv, AttributionInv,
         UNCHANGED <<books, outcomes, attributed, cycle>>, toSettle' \subseteq toSettle,
         pc' \in AttemptSteps /\ decision'.book \in Strategy => decision'.cycle = cycle,
         \/ UNCHANGED <<pc, summaries, torn, cut>>
         \/ /\ pc' \notin {"settle", "attribute"} /\ summaries' = <<>>
            /\ ~cut' => /\ ~cut /\ torn' = torn
                        /\ \A b \in open_books \cap Strategy : ~Recorded(books[b].exec)
  PROVE  AttributionInv'
<1>1. open_books' = open_books /\ \A x : Recorded(x)' = Recorded(x) /\ Past(x)' = Past(x)
  BY DEF open_books, Recorded, Past
<1>2. CASE UNCHANGED <<pc, summaries, torn, cut>>
  <2>1. Closed' = Closed
    BY <1>2 DEF Closed
  <2>2. OwnCycle'
    BY <1>1, <1>2 DEF AttributionInv, OwnCycle
  <2>3. InStep' /\ DivergenceNeedsCut'
    BY <1>1, <1>2, <2>1 DEF AttributionInv, InStep, DivergenceNeedsCut
  <2> QED
    BY <2>2, <2>3 DEF AttributionInv
<1>3. CASE /\ pc' \notin {"settle", "attribute"} /\ summaries' = <<>>
           /\ ~cut' => /\ ~cut /\ torn' = torn
                       /\ \A b \in open_books \cap Strategy : ~Recorded(books[b].exec)
  <2>1. Closed' = {}
    BY <1>3 DEF Closed
  <2>2. OwnCycle'
    BY <1>1, <1>3 DEF AttributionInv, OwnCycle
  <2>3. InStep' /\ DivergenceNeedsCut'
    BY <1>1, <1>3, <2>1 DEF AttributionInv, InStep, DivergenceNeedsCut
  <2> QED
    BY <2>2, <2>3 DEF AttributionInv
<1> QED
  BY <1>2, <1>3

\* Outside a settlement, and in one that closed nothing, no open book of a
\* strategy is recorded unless an outcome was parted from its book.
LEMMA NotRecorded ==
  ASSUME AttributionInv, ~cut, pc # "settle" \/ summaries = <<>>
  PROVE  \A b \in open_books \cap Strategy : ~Recorded(books[b].exec)
<1>1. summaries = <<>> => Closed = {}
  BY DEF Closed
<1> QED
  BY <1>1 DEF AttributionInv, InStep

\* The steps of the market and of the walk, and the ends of the stage.
LEMMA AttributionKept ==
  ASSUME IInv, AttributionInv,
         \/ NewCandle \/ NewFeatures \/ (\E b \in Book : SettleHold(b)) \/ SkipCandidate
         \/ StartWalk \/ PersistCandidate \/ PersistResearch \/ CreateIntent \/ NoIntent
         \/ ExecutePaperOrder \/ EnterNothing \/ ExecuteRaises \/ EndWalk
         \/ (\E b \in Book : SettleRaises(b)) \/ Crash \/ CrashInAppend \/ UNCHANGED vars
  PROVE  AttributionInv'
<1> USE DEF market, walk, history, AttemptSteps
<1>0. /\ pc \in AttemptSteps /\ decision.book \in Strategy => decision.cycle = cycle
      /\ pc \notin {"settle", "attribute"} => summaries = <<>>
      /\ ~cut => torn = "no"
  BY DEF AttributionInv, OwnCycle, InStep
<1>1. CASE \/ NewCandle \/ NewFeatures \/ (\E b \in Book : SettleHold(b)) \/ SkipCandidate
           \/ UNCHANGED vars
  <2>1. /\ UNCHANGED <<books, outcomes, attributed, cycle, decision>> /\ toSettle' \subseteq toSettle
        /\ UNCHANGED <<pc, summaries, torn, cut>>
    BY <1>1 DEF NewCandle, NewFeatures, SettleHold, SkipCandidate, vars
  <2> QED
    BY <1>0, <2>1, AttributionQuiet
<1>2. CASE StartWalk
  <2>1. /\ UNCHANGED <<books, outcomes, attributed, cycle, toSettle, summaries, torn, cut>>
        /\ pc' = "walk" /\ summaries = <<>>
    BY <1>2 DEF StartWalk
  <2> QED
    BY <2>1, NotRecorded, AttributionQuiet
<1>3. CASE PersistCandidate \/ PersistResearch \/ CreateIntent \/ NoIntent \/ ExecutePaperOrder
           \/ EnterNothing
  <2>1. /\ UNCHANGED <<books, outcomes, attributed, cycle, toSettle, summaries, torn, cut>>
        /\ pc \notin {"settle", "attribute"} /\ pc' \notin {"settle", "attribute"}
    BY <1>3 DEF PersistCandidate, PersistResearch, CreateIntent, NoIntent, ExecutePaperOrder,
                EnterNothing
  <2>2. pc' \in AttemptSteps /\ decision'.book \in Strategy => decision'.cycle = cycle
    <3>1. CASE PersistCandidate
      <4>1. decision' = [book |-> Head(todo), cycle |-> cycle, allow |-> TRUE, consumed |-> FALSE]
        BY <3>1 DEF PersistCandidate
      <4> QED
        BY <4>1
    <3>2. CASE PersistResearch
      <4>1. decision' = research /\ research.book = Default
        BY <3>2 DEF PersistResearch, IInv, TypeOK
      <4> QED
        BY <4>1
    <3>3. CASE CreateIntent
      <4>1. decision' = [decision EXCEPT !.consumed = TRUE] /\ pc \in AttemptSteps
        BY <3>3 DEF CreateIntent
      <4>2. decision'.book = decision.book /\ decision'.cycle = decision.cycle
        BY <4>1 DEF IInv, InHand, Decision
      <4> QED
        BY <1>0, <4>1, <4>2
    <3>4. CASE NoIntent \/ ExecutePaperOrder \/ EnterNothing
      <4>1. decision' = decision /\ pc \in AttemptSteps
        BY <3>4 DEF NoIntent, ExecutePaperOrder, EnterNothing
      <4> QED
        BY <1>0, <4>1
    <3> QED
      BY <1>3, <3>1, <3>2, <3>3, <3>4
  <2> QED
    BY <1>0, <2>1, <2>2, NotRecorded, AttributionQuiet
<1>4. CASE ExecuteRaises \/ EndWalk \/ (\E b \in Book : SettleRaises(b)) \/ Crash \/ CrashInAppend
  <2>1. /\ UNCHANGED <<books, outcomes, attributed, cycle, torn>> /\ Returns
        /\ ~cut' => ~cut /\ (pc # "settle" \/ summaries = <<>>)
    <3>1. CASE ExecuteRaises \/ EndWalk \/ CrashInAppend
      BY <3>1 DEF ExecuteRaises, EndWalk, CrashInAppend, Dies
    <3>2. CASE \E b \in Book : SettleRaises(b)
      <4>1. torn # "no" /\ cut' = cut
        BY <3>2 DEF SettleRaises, Raises
      <4> QED
        BY <1>0, <3>2, <4>1 DEF SettleRaises
    <3>3. CASE Crash
      BY <3>3 DEF Crash, Dies
    <3> QED
      BY <1>4, <3>1, <3>2, <3>3
  <2>2. ~cut' => \A b \in open_books \cap Strategy : ~Recorded(books[b].exec)
    BY <2>1, NotRecorded
  <2> QED
    BY <2>1, <2>2, AttributionQuiet DEF Returns
<1> QED
  BY <1>1, <1>2, <1>3, <1>4

\* A new cycle: what was opened, recorded or attributed is of an older one.
LEMMA AttributionValidate == ASSUME IInv, AttributionInv, Validate PROVE AttributionInv'
<1> USE DEF Validate, market, history
<1>1. /\ open_books' = open_books /\ Closed' = {} /\ cycle \in Nat /\ cycle' = cycle + 1
      /\ \A x : Recorded(x)' = Recorded(x)
  BY AttributionTypes DEF open_books, Recorded, Closed
<1>2. \A b \in open_books :
        Past(books[b].exec)' /\ (b \in Strategy => books[b].exec.at <= cycle')
  <2> TAKE b \in open_books
  <2>1. books[b].exec \in ExecutionId /\ books[b].exec.by = b
        /\ (b \in Strategy => books[b].exec.at <= cycle)
    BY AttributionTypes DEF AttributionInv, OwnCycle
  <2>2. books[b].exec.at \in Int
    BY <2>1 DEF ExecutionId
  <2> QED
    BY <1>1, <2>1, <2>2 DEF Past
<1>3. \A i \in DOMAIN outcomes : Past(outcomes[i].exec)'
  <2> TAKE i \in DOMAIN outcomes
  <2>1. outcomes[i].exec \in ExecutionId /\ Past(outcomes[i].exec)
    BY AttributionTypes DEF AttributionInv, OwnCycle, Outcome
  <2> QED
    BY <1>1, <2>1, PastStays
<1>4. \A i \in DOMAIN attributed : Past(attributed[i].exec)'
  <2> TAKE i \in DOMAIN attributed
  <2>1. attributed[i] \in Outcome /\ Past(attributed[i].exec)
    BY DEF AttributionInv, OwnCycle
  <2> QED
    BY <1>1, <2>1, PastStays DEF Outcome
<1>5. OwnCycle'
  BY <1>1, <1>2, <1>3, <1>4 DEF AttributionInv, OwnCycle, AttemptSteps
<1>6. ~cut => \A b \in open_books \cap Strategy : ~Recorded(books[b].exec)
  BY NotRecorded
<1>7. InStep' /\ DivergenceNeedsCut'
  BY <1>1, <1>6 DEF AttributionInv, InStep, DivergenceNeedsCut
<1> QED
  BY <1>5, <1>7 DEF AttributionInv

\* A close is recorded with its result, or with the one it already has.
LEMMA AttributionClose ==
  ASSUME IInv, AttributionInv, NEW b \in Book, SettleClose(b)
  PROVE  AttributionInv'
<1> USE DEF SettleClose, market, walk, history
<1> DEFINE s == [book |-> b, result |-> fate[b], position |-> books[b]]
<1>1. /\ b \in open_books /\ fate[b] # "hold" /\ open_books' = open_books /\ pc = "settle"
      /\ s.book = b /\ s.position.exec = books[b].exec /\ s.result = fate[b]
      /\ books[b].exec.by = b /\ Past(books[b].exec)
      /\ summaries \in Seq(Summary) /\ summaries' = Append(summaries, s)
      /\ \A x : Past(x)' = Past(x)
  BY AttributionTypes DEF AttributionInv, OwnCycle, open_books, Past
<1> HIDE DEF s
<1>2. /\ \A i \in DOMAIN summaries' :
           (i \in DOMAIN summaries /\ summaries'[i] = summaries[i]) \/ summaries'[i] = s
      /\ \E i \in DOMAIN summaries' : summaries'[i] = s
      /\ \A i \in DOMAIN summaries : i \in DOMAIN summaries' /\ summaries'[i] = summaries[i]
  <2>1. s \in Summary
    BY <1>1, CloseGrows DEF Summary, s
  <2>2. summaries' \in Seq(Summary) /\ Len(summaries') = Len(summaries) + 1
        /\ \A i \in 1..Len(summaries) : summaries'[i] = summaries[i]
        /\ summaries'[Len(summaries) + 1] = s
    BY <1>1, <2>1
  <2> QED
    BY <1>1, <2>2
<1>3. Closed' = Closed \cup {b}
  BY <1>1, <1>2 DEF Closed
<1>4. \A j \in DOMAIN outcomes' :
        \/ j \in DOMAIN outcomes /\ outcomes'[j] = outcomes[j]
        \/ outcomes'[j].exec = books[b].exec /\ outcomes'[j].result = fate[b]
  <2>1. CASE outcome_skipped(books[b])
    BY <2>1
  <2>2. CASE ~outcome_skipped(books[b])
    <3>1. outcomes' = Append(outcomes, OutcomeOf(b)) /\ outcomes \in Seq(Outcome)
      BY <2>2, AttributionTypes
    <3>2. \A j \in DOMAIN outcomes' :
            (j \in DOMAIN outcomes /\ outcomes'[j] = outcomes[j]) \/ outcomes'[j] = OutcomeOf(b)
      BY <3>1
    <3> QED
      BY <3>2 DEF OutcomeOf
  <2> QED
    BY <2>1, <2>2
<1>5. \A x : Recorded(x)' => Recorded(x) \/ x = books[b].exec
  BY <1>4 DEF Recorded
<1>6. OwnCycle'
  BY <1>1, <1>2, <1>4 DEF AttributionInv, OwnCycle, AttemptSteps
<1>7. InStep'
  <2> SUFFICES ASSUME ~cut PROVE InStep'
    BY DEF InStep
  <2>1. torn' = "no" /\ toSettle' \cap Closed' = {} /\ b \notin Closed
    BY <1>3 DEF AttributionInv, InStep
  <2>2. \A c \in open_books \cap Strategy : Recorded(books[c].exec)' => c \in Closed'
    BY <1>3, <1>5, <1>1 DEF AttributionInv, InStep, OwnCycle
  <2>3. ASSUME NEW i \in DOMAIN summaries', NEW j \in DOMAIN outcomes',
               summaries'[i].book \in Strategy,
               outcomes'[j].exec = summaries'[i].position.exec
        PROVE  outcomes'[j].result = summaries'[i].result
    <3>1. CASE i \in DOMAIN summaries /\ summaries'[i] = summaries[i]
      <4>1. summaries[i].position.exec.by = summaries[i].book /\ summaries[i].book \in Closed
        BY <3>1 DEF AttributionInv, OwnCycle, Closed
      <4>2. outcomes'[j].exec # books[b].exec
        BY <1>1, <2>1, <2>3, <3>1, <4>1
      <4> QED
        BY <1>4, <2>3, <3>1, <4>2 DEF AttributionInv, InStep
    <3>2. CASE summaries'[i] = s
      <4>1. ~Recorded(books[b].exec)
        BY <1>1, <2>1, <2>3, <3>2 DEF AttributionInv, InStep
      <4>2. outcomes'[j].exec = books[b].exec /\ summaries'[i].result = fate[b]
        BY <1>1, <2>3, <3>2
      <4> QED
        BY <1>4, <4>1, <4>2 DEF Recorded
    <3> QED
      BY <1>2, <3>1, <3>2
  <2> QED
    BY <1>1, <2>1, <2>2, <2>3 DEF AttributionInv, InStep
<1>8. DivergenceNeedsCut'
  BY <1>1, <1>4 DEF AttributionInv, InStep, DivergenceNeedsCut
<1> QED
  BY <1>6, <1>7, <1>8 DEF AttributionInv

\* The closed books are cleared together: what is recorded of a strategy's
\* book now belongs to a position that is gone.
LEMMA AttributionSave == ASSUME IInv, AttributionInv, SaveSettled PROVE AttributionInv'
<1> USE DEF SaveSettled, walk
<1>1. /\ pc = "settle" /\ pc' = "attribute" /\ Closed' = Closed /\ open_books \subseteq Book
      /\ open_books' = open_books \ Closed
      /\ \A b \in open_books' : b \in open_books /\ books'[b] = books[b]
      /\ \A x : Recorded(x)' = Recorded(x) /\ Past(x)' = Past(x)
  BY AttributionTypes DEF save_books, open_books, Closed, Recorded, Past
<1>2. OwnCycle'
  BY <1>1 DEF AttributionInv, OwnCycle, AttemptSteps
<1>3. InStep' /\ DivergenceNeedsCut'
  BY <1>1 DEF AttributionInv, InStep, DivergenceNeedsCut
<1> QED
  BY <1>2, <1>3 DEF AttributionInv

\* A close is attributed with the result that is on record.
LEMMA AttributionAttribute == ASSUME IInv, AttributionInv, Attribute PROVE AttributionInv'
<1> USE DEF Attribute, market, walk, history
<1>1. /\ pc = "attribute" /\ UNCHANGED <<books, outcomes, cycle, pc, torn, cut, toSettle>>
      /\ open_books' = open_books /\ \A x : Recorded(x)' = Recorded(x) /\ Past(x)' = Past(x)
  BY DEF open_books, Recorded, Past
<1>2. /\ summaries \in Seq(Summary) /\ summaries # <<>> /\ summaries' = Tail(summaries)
      /\ 1 \in DOMAIN summaries /\ Head(summaries) = summaries[1] /\ summaries[1] \in Summary
      /\ \A i \in DOMAIN summaries' : i + 1 \in DOMAIN summaries /\ summaries'[i] = summaries[i + 1]
  BY AttributionTypes
<1>3. Closed' \subseteq Closed /\ summaries[1].book \in Closed
  BY <1>2 DEF Closed
<1> DEFINE e == [exec |-> summaries[1].position.exec, result |-> summaries[1].result]
<1>4. e.exec = summaries[1].position.exec /\ e.result = summaries[1].result /\ e \in Outcome
  BY <1>2 DEF Summary, Position, Outcome
<1> HIDE DEF e
<1>5. /\ attributed' \in Seq(Outcome)
      /\ \A i \in DOMAIN attributed' :
           \/ i \in DOMAIN attributed /\ attributed'[i] = attributed[i]
           \/ attributed'[i] = e /\ summaries[1].book \in Strategy
  <2>1. attributed \in Seq(Outcome)
    BY DEF AttributionInv, OwnCycle
  <2>2. CASE attributed' = attributed
    BY <2>1, <2>2
  <2>3. CASE summaries[1].book \in Strategy /\ attributed' = Append(attributed, e)
    BY <1>4, <2>1, <2>3
  <2> QED
    BY <1>2, <2>2, <2>3 DEF e
<1>6. e.exec.by = summaries[1].book /\ Past(e.exec)
  BY <1>2, <1>4 DEF AttributionInv, OwnCycle
<1>7. OwnCycle'
  <2>1. \A i \in DOMAIN summaries' :
          summaries'[i].position.exec.by = summaries'[i].book /\ Past(summaries'[i].position.exec)
    BY <1>2 DEF AttributionInv, OwnCycle
  <2>2. \A i \in DOMAIN attributed' : attributed'[i].exec.by \in Strategy /\ Past(attributed'[i].exec)
    BY <1>5, <1>6 DEF AttributionInv, OwnCycle
  <2> QED
    BY <1>1, <1>5, <2>1, <2>2 DEF AttributionInv, OwnCycle, AttemptSteps
<1>8. InStep'
  <2> SUFFICES ASSUME ~cut PROVE InStep'
    BY <1>1 DEF InStep
  <2>1. /\ torn = "no" /\ toSettle \cap Closed = {} /\ open_books \cap Closed = {}
        /\ \A b \in open_books \cap Strategy : ~Recorded(books[b].exec)
    BY <1>1 DEF AttributionInv, InStep
  <2>2. ASSUME NEW i \in DOMAIN attributed', NEW b \in open_books
        PROVE  attributed'[i].exec # books[b].exec
    <3>1. CASE i \in DOMAIN attributed /\ attributed'[i] = attributed[i]
      BY <3>1 DEF AttributionInv, InStep
    <3>2. CASE attributed'[i] = e
      <4>1. books[b].exec.by = b
        BY DEF AttributionInv, OwnCycle
      <4> QED
        BY <1>3, <1>6, <2>1, <3>2, <4>1
    <3> QED
      BY <1>5, <3>1, <3>2
  <2>3. \A i \in DOMAIN summaries', j \in DOMAIN outcomes :
          summaries'[i].book \in Strategy /\ outcomes[j].exec = summaries'[i].position.exec =>
            outcomes[j].result = summaries'[i].result
    BY <1>2 DEF AttributionInv, InStep
  <2> QED
    BY <1>1, <1>3, <2>1, <2>2, <2>3 DEF InStep
<1>9. DivergenceNeedsCut'
  <2> SUFFICES ASSUME ~cut, NEW i \in DOMAIN attributed', NEW j \in DOMAIN outcomes,
                      attributed'[i].exec = outcomes[j].exec
               PROVE  attributed'[i] = outcomes[j]
    BY <1>1 DEF DivergenceNeedsCut
  <2>1. CASE i \in DOMAIN attributed /\ attributed'[i] = attributed[i]
    BY <2>1 DEF AttributionInv, DivergenceNeedsCut
  <2>2. CASE attributed'[i] = e /\ summaries[1].book \in Strategy
    <3>1. outcomes[j].result = e.result /\ outcomes[j].exec = e.exec
      BY <1>2, <1>4, <2>2 DEF AttributionInv, InStep
    <3>2. outcomes[j] \in Outcome
      BY AttributionTypes
    <3> QED
      BY <1>4, <2>2, <3>1, <3>2 DEF Outcome
  <2> QED
    BY <1>5, <2>1, <2>2
<1> QED
  BY <1>7, <1>8, <1>9 DEF AttributionInv

\* A position that is opened has an execution of its own cycle, which nothing
\* recorded or attributed is of.
LEMMA AttributionOpen == ASSUME IInv, AttributionInv, OpenInBook PROVE AttributionInv'
<1> USE DEF OpenInBook, walk, history, AttemptSteps
<1>0. /\ UNCHANGED <<outcomes, attributed, cycle, torn, cut, toSettle, summaries, decision>>
      /\ pc = "open" /\ pc' = "walk" /\ summaries = <<>> /\ Closed = {} /\ Closed' = {}
  BY DEF AttributionInv, OwnCycle, Closed
<1>1. CASE refusal_reason(decision.book) # "none"
  <2>1. UNCHANGED books
    BY <1>1
  <2>2. ~cut => torn = "no" /\ \A b \in open_books \cap Strategy : ~Recorded(books[b].exec)
    BY <1>0, NotRecorded DEF AttributionInv, InStep
  <2> QED
    BY <1>0, <2>1, <2>2, AttributionQuiet
<1>2. CASE refusal_reason(decision.book) = "none"
  <2> DEFINE b == decision.book
             p == [exec |-> execution_id(decision), signal |-> signal,
                   entry_reconciliation |-> run_reconciler]
  <2>1. decision \in Decision /\ b \in Book /\ (b \in Strategy => decision.cycle = cycle)
    BY DEF IInv, InHand, AttributionInv, OwnCycle, Decision
  <2>2. p.exec.by = b /\ (b \in Strategy => p.exec.at = cycle)
    BY <2>1 DEF execution_id
  <2>3. books' = [books EXCEPT ![b] = p] /\ books \in [Book -> Position \cup {NoPosition}]
    BY <1>2 DEF IInv, TypeOK
  <2> HIDE DEF b, p
  <2>4. /\ open_books' \subseteq open_books \cup {b} /\ books'[b] = p
        /\ \A c \in open_books' : c # b => c \in open_books /\ books'[c] = books[c]
        /\ \A x : Recorded(x)' = Recorded(x) /\ Past(x)' = Past(x)
    BY <1>0, <2>1, <2>3 DEF open_books, Recorded, Past
  <2>5. cycle \in Nat /\ b \in Strategy => ~Past(p.exec)
    BY <2>2 DEF Past
  <2>6. cycle \in Nat
    BY AttributionTypes
  <2>7. OwnCycle'
    <3>1. \A c \in open_books' :
            books'[c].exec.by = c /\ (c \in Strategy => books'[c].exec.at <= cycle)
      <4> TAKE c \in open_books'
      <4>1. CASE c = b
        BY <2>2, <2>4, <2>6, <4>1
      <4>2. CASE c # b
        BY <2>4, <4>2 DEF AttributionInv, OwnCycle
      <4> QED
        BY <4>1, <4>2
    <3> QED
      BY <1>0, <2>4, <3>1 DEF AttributionInv, OwnCycle
  <2>8. ~cut => \A c \in open_books' \cap Strategy : ~Recorded(books'[c].exec)
    <3> SUFFICES ASSUME ~cut, NEW c \in open_books' \cap Strategy
                 PROVE  ~Recorded(books'[c].exec)
      OBVIOUS
    <3>1. CASE c = b
      BY <2>4, <2>5, <2>6, <3>1 DEF AttributionInv, OwnCycle, Recorded
    <3>2. CASE c # b
      BY <1>0, <2>4, <3>2, NotRecorded
    <3> QED
      BY <3>1, <3>2
  <2>9. ~cut => \A i \in DOMAIN attributed, c \in open_books' :
                  attributed[i].exec # books'[c].exec
    <3> SUFFICES ASSUME ~cut, NEW i \in DOMAIN attributed, NEW c \in open_books'
                 PROVE  attributed[i].exec # books'[c].exec
      OBVIOUS
    <3>1. CASE c = b
      BY <2>2, <2>4, <2>5, <2>6, <3>1 DEF AttributionInv, OwnCycle
    <3>2. CASE c # b
      BY <2>4, <3>2 DEF AttributionInv, InStep
    <3> QED
      BY <3>1, <3>2
  <2>10. InStep' /\ DivergenceNeedsCut'
    BY <1>0, <2>4, <2>8, <2>9 DEF AttributionInv, InStep, DivergenceNeedsCut
  <2> QED
    BY <2>7, <2>10 DEF AttributionInv
<1> QED
  BY <1>1, <1>2

\* A crash in the append of an outcome parts it from its book.
LEMMA AttributionCrash ==
  ASSUME IInv, AttributionInv, NEW b \in Book, CrashInOutcome(b)
  PROVE  AttributionInv'
<1> USE DEF CrashInOutcome, Dies, market, Returns
<1>1. /\ UNCHANGED <<books, attributed, cycle>> /\ cut' = TRUE /\ open_books' = open_books
      /\ pc = "settle" /\ pc' = "idle" /\ summaries' = <<>> /\ b \in open_books
      /\ \A x : Past(x)' = Past(x)
  BY AttributionTypes DEF open_books, Past
<1>2. \A j \in DOMAIN outcomes' : Past(outcomes'[j].exec)
  <2>1. Past(books[b].exec) /\ outcomes \in Seq(Outcome)
    BY <1>1, AttributionTypes DEF AttributionInv, OwnCycle
  <2>2. CASE outcomes' = outcomes
    BY <2>2 DEF AttributionInv, OwnCycle
  <2>3. CASE outcomes' = Append(outcomes, OutcomeOf(b))
    <3>1. \A j \in DOMAIN outcomes' :
            (j \in DOMAIN outcomes /\ outcomes'[j] = outcomes[j]) \/ outcomes'[j] = OutcomeOf(b)
      BY <2>1, <2>3
    <3> QED
      BY <2>1, <3>1 DEF OutcomeOf, AttributionInv, OwnCycle
  <2> QED
    BY <2>2, <2>3
<1>3. OwnCycle'
  BY <1>1, <1>2 DEF AttributionInv, OwnCycle, AttemptSteps
<1>4. InStep' /\ DivergenceNeedsCut'
  BY <1>1 DEF InStep, DivergenceNeedsCut
<1> QED
  BY <1>3, <1>4 DEF AttributionInv

\* What is attributed agrees with what is recorded, step by step.
LEMMA NextAttribution == IInv /\ AttributionInv /\ [Next]_vars => AttributionInv'
<1> SUFFICES ASSUME IInv, AttributionInv, [Next]_vars PROVE AttributionInv'
  OBVIOUS
<1>1. CASE NewCandle \/ NewFeatures \/ SkipCandidate \/ StartWalk
  BY <1>1, AttributionKept
<1>2. CASE PersistCandidate \/ PersistResearch \/ CreateIntent \/ NoIntent
  BY <1>2, AttributionKept
<1>3. CASE ExecutePaperOrder \/ EnterNothing \/ ExecuteRaises \/ EndWalk
  BY <1>3, AttributionKept
<1>4. CASE Crash \/ CrashInAppend \/ Done \/ UNCHANGED vars
  BY <1>4, AttributionKept DEF Done
<1>5. CASE Validate \/ SaveSettled \/ Attribute \/ OpenInBook
  BY <1>5, AttributionValidate, AttributionSave, AttributionAttribute, AttributionOpen
<1>6. CASE \E b \in Book : SettleHold(b) \/ SettleClose(b) \/ SettleRaises(b)
  BY <1>6, AttributionKept, AttributionClose
<1>7. CASE \E b \in Book : CrashInOutcome(b)
  BY <1>7, AttributionCrash
<1> QED
  BY <1>1, <1>2, <1>3, <1>4, <1>5, <1>6, <1>7 DEF Next

LEMMA InitAttribution == Init => AttributionInv
<1> SUFFICES ASSUME Init PROVE AttributionInv
  OBVIOUS
<1> USE DEF Init
<1>1. open_books = {} /\ Closed = {} /\ attributed \in Seq(Outcome)
  BY EmptySeq DEF open_books, Closed
<1>2. OwnCycle
  BY <1>1 DEF OwnCycle, AttemptSteps
<1>3. InStep /\ DivergenceNeedsCut
  BY <1>1 DEF InStep, DivergenceNeedsCut
<1> QED
  BY <1>2, <1>3 DEF AttributionInv

-----------------------------------------------------------------------------
(***************************************************************************)
(* What was filled.  ConsumptionInv is kept by every step, given IInv.     *)
(***************************************************************************)
\* A step that fills nothing, attempts nothing and begins no cycle.
LEMMA ConsumptionQuiet ==
  ASSUME ConsumptionInv, UNCHANGED <<filled, cycle, decision, research>>,
         \/ UNCHANGED <<pc, entries, todo>>
         \/ /\ todo \in Seq(Strategy) /\ todo # <<>> /\ todo' = Tail(todo)
            /\ UNCHANGED <<pc, entries>>
         \/ pc' = "attribute" /\ pc = "settle" /\ UNCHANGED <<entries, todo>>
  PROVE  ConsumptionInv'
<1>1. \A x : Attempted(x)' = Attempted(x)
  BY DEF Attempted
<1>2. FilledIsConsumed'
  BY DEF ConsumptionInv, FilledIsConsumed
<1>3. \A i \in DOMAIN todo' : \E j \in DOMAIN todo : todo'[i] = todo[j]
  <2>1. CASE todo \in Seq(Strategy) /\ todo # <<>> /\ todo' = Tail(todo)
    BY <2>1
  <2> QED
    BY <2>1
<1>4. pc' \in WalkSteps => \A i \in DOMAIN todo' : ~Attempted(todo'[i])
  BY <1>3 DEF ConsumptionInv, AttemptedOnce, WalkSteps, AttemptSteps
<1>5. AttemptedOnce'
  BY <1>1, <1>4 DEF ConsumptionInv, AttemptedOnce, WalkSteps, AttemptSteps, Unfilled
<1> QED
  BY <1>2, <1>5 DEF ConsumptionInv

\* A stage that is left makes no attempts.
LEMMA ConsumptionReturns ==
  ASSUME ConsumptionInv, UNCHANGED <<filled, cycle>>, Returns, decision' \in Decision,
         FilledIsConsumed'
  PROVE  ConsumptionInv'
<1> USE DEF Returns
<1>1. AttemptedOnce'
  BY DEF ConsumptionInv, AttemptedOnce, WalkSteps, AttemptSteps
<1> QED
  BY <1>1 DEF ConsumptionInv

\* Nothing of a new cycle was filled.
LEMMA ConsumptionValidate == ASSUME IInv, ConsumptionInv, Validate PROVE ConsumptionInv'
<1> USE DEF Validate, history
<1>1. cycle \in Nat /\ cycle' = cycle + 1 /\ UNCHANGED <<filled, decision>>
      /\ entries' = <<>> /\ pc' = "settle"
  BY DEF IInv, TypeOK
<1>2. \A f \in filled : f[2] \in Nat /\ f[2] <= cycle' /\ f[2] < cycle'
  BY <1>1 DEF ConsumptionInv, AttemptedOnce
<1>3. AttemptedOnce'
  BY <1>1, <1>2 DEF ConsumptionInv, AttemptedOnce, WalkSteps, AttemptSteps
<1>4. FilledIsConsumed'
  BY <1>1 DEF ConsumptionInv, FilledIsConsumed
<1> QED
  BY <1>3, <1>4 DEF ConsumptionInv

\* The walk starts with nothing attempted and nothing filled.
LEMMA ConsumptionStart == ASSUME IInv, ConsumptionInv, StartWalk PROVE ConsumptionInv'
<1> USE DEF StartWalk, history
<1>1. /\ pc = "attribute" /\ pc' = "walk" /\ entries' = <<>> /\ cycle \in 0..MaxCycle
      /\ UNCHANGED <<filled, cycle>>
  BY DEF IInv, TypeOK, InHand, WalkSteps, AttemptSteps
<1>2. research'.cycle = cycle /\ decision' = research' /\ research' \in Decision
  <2>1. PICK allow \in {FALSE, verdict /\ Cardinality(open_books) < MaxOpenBooks} :
          research' = [book |-> Default, cycle |-> cycle, allow |-> allow, consumed |-> FALSE]
    OBVIOUS
  <2>2. allow \in BOOLEAN
    BY <2>1
  <2> QED
    BY <1>1, <2>1, <2>2 DEF Decision, Book
<1>3. \A f \in filled : f[2] \in Nat /\ f[2] < cycle
  BY <1>1 DEF ConsumptionInv, AttemptedOnce
<1>4. AttemptedOnce'
  BY <1>1, <1>2, <1>3 DEF ConsumptionInv, AttemptedOnce, Attempted, AttemptSteps
<1>5. FilledIsConsumed'
  BY <1>1, <1>2, <1>3 DEF FilledIsConsumed
<1> QED
  BY <1>4, <1>5 DEF ConsumptionInv

\* The decision of a new attempt was not filled: its book was not attempted.
LEMMA ConsumptionPersist ==
  ASSUME IInv, ConsumptionInv, PersistCandidate \/ PersistResearch
  PROVE  ConsumptionInv'
<1> USE DEF PersistCandidate, PersistResearch, history, walk
<1>1. /\ pc = "walk" /\ pc' = "execute" /\ UNCHANGED <<filled, cycle, entries, research>>
      /\ \A x : Attempted(x)' = Attempted(x)
      /\ research.cycle = cycle /\ todo \in Seq(Strategy) /\ cycle \in 0..MaxCycle
  BY DEF ConsumptionInv, AttemptedOnce, WalkSteps, Attempted, IInv, TypeOK
<1>2. decision' \in Decision /\ decision'.cycle = cycle /\ ~Attempted(decision'.book)
  <2>1. CASE PersistCandidate
    <3>1. decision' = [book |-> Head(todo), cycle |-> cycle, allow |-> TRUE, consumed |-> FALSE]
          /\ Head(todo) \in Strategy /\ Head(todo) = todo[1] /\ 1 \in DOMAIN todo
      BY <1>1, <2>1
    <3>2. ~Attempted(todo[1])
      BY <1>1, <3>1 DEF ConsumptionInv, AttemptedOnce, WalkSteps
    <3> QED
      BY <1>1, <3>1, <3>2 DEF Decision, Book
  <2>2. CASE PersistResearch
    <3>1. decision' = research /\ ~Attempted(Default) /\ research \in Decision
          /\ research.book = Default
      BY <2>2 DEF IInv, TypeOK, ResearchTurn
    <3> QED
      BY <1>1, <3>1
  <2> QED
    BY <2>1, <2>2
<1>3. <<decision'.book, decision'.cycle>> \notin filled
  <2>1. \A f \in filled : f[2] = cycle => Attempted(f[1])
    BY <1>1 DEF ConsumptionInv, AttemptedOnce, WalkSteps
  <2> QED
    BY <1>2, <2>1
<1>4. \A i \in DOMAIN todo' : ~Attempted(todo'[i])
  <2>1. \A i \in DOMAIN todo : ~Attempted(todo[i])
    BY <1>1 DEF ConsumptionInv, AttemptedOnce, WalkSteps
  <2>2. CASE todo' = Tail(todo) /\ todo # <<>>
    <3>1. \A i \in DOMAIN todo' : i + 1 \in DOMAIN todo /\ todo'[i] = todo[i + 1]
      BY <1>1, <2>2
    <3> QED
      BY <2>1, <3>1
  <2> QED
    BY <2>1, <2>2
<1>5. AttemptedOnce'
  BY <1>1, <1>2, <1>4 DEF ConsumptionInv, AttemptedOnce, WalkSteps, AttemptSteps, Unfilled
<1>6. FilledIsConsumed'
  BY <1>1, <1>3 DEF FilledIsConsumed
<1> QED
  BY <1>5, <1>6 DEF ConsumptionInv

\* A decision is marked before its order is placed.
LEMMA ConsumptionIntent ==
  ASSUME IInv, ConsumptionInv, CreateIntent \/ NoIntent
  PROVE  ConsumptionInv'
<1> USE DEF CreateIntent, NoIntent, history, walk
<1>1. /\ pc = "execute" /\ UNCHANGED <<filled, cycle, entries, research, todo>>
      /\ \A x : Attempted(x)' = Attempted(x)
  BY DEF Attempted
<1>2. /\ decision \in Decision /\ decision' \in Decision
      /\ decision'.book = decision.book /\ decision'.cycle = decision.cycle
      /\ \/ pc' = "submit" /\ decision'.consumed
         \/ pc' = "open" /\ decision' = decision
  <2>1. decision \in Decision
    BY DEF ConsumptionInv, AttemptedOnce
  <2>2. CASE CreateIntent
    <3>1. decision' = [decision EXCEPT !.consumed = TRUE]
      BY <2>2
    <3> QED
      BY <2>1, <2>2, <3>1 DEF Decision
  <2> QED
    BY <2>1, <2>2
<1>3. AttemptedOnce'
  BY <1>1, <1>2 DEF ConsumptionInv, AttemptedOnce, WalkSteps, AttemptSteps, Unfilled
<1>4. FilledIsConsumed'
  BY <1>1, <1>2 DEF ConsumptionInv, FilledIsConsumed
<1> QED
  BY <1>3, <1>4 DEF ConsumptionInv

\* What is filled is the decision in hand, which is consumed; no entry is of it.
LEMMA ConsumptionFill == ASSUME IInv, ConsumptionInv, ExecutePaperOrder PROVE ConsumptionInv'
<1> USE DEF ExecutePaperOrder, walk
<1>1. /\ pc = "submit" /\ pc' = "open" /\ UNCHANGED <<cycle, decision, entries, research, todo>>
      /\ \A x : Attempted(x)' = Attempted(x) /\ decision \in Decision /\ decision.consumed
      /\ decision.cycle = cycle /\ ~Attempted(decision.book) /\ cycle \in Nat
  BY DEF Attempted, ConsumptionInv, AttemptedOnce, AttemptSteps, IInv, TypeOK
<1> DEFINE f == <<decision.book, decision.cycle>>
<1>2. /\ filled' \subseteq filled \cup {f} /\ f[1] = decision.book /\ f[2] = cycle
      /\ f \in Book \X Nat /\ f[2] <= cycle
  BY <1>1 DEF Decision
<1>3. \A i \in DOMAIN entries :
        LET d == entries[i].decision
        IN  d.book = entries[i].book /\ (<<d.book, d.cycle>> \notin filled' \/ d.consumed)
  <2> TAKE i \in DOMAIN entries
  <2> DEFINE d == entries[i].decision
  <2>1. d.book = entries[i].book /\ (<<d.book, d.cycle>> \notin filled \/ d.consumed)
    BY DEF ConsumptionInv, AttemptedOnce, Unfilled
  <2>2. d.book # decision.book
    BY <1>1, <2>1 DEF Attempted
  <2>3. <<d.book, d.cycle>> # f
    BY <2>2
  <2>4. <<d.book, d.cycle>> \notin filled' \/ d.consumed
    BY <1>2, <2>1, <2>3
  <2> QED
    BY <2>1, <2>4
<1> HIDE DEF f
<1>4. AttemptedOnce'
  <2>1. \A g \in filled' : g \in Book \X Nat /\ g[2] <= cycle
    BY <1>2 DEF ConsumptionInv, AttemptedOnce
  <2>2. \A g \in filled' : g[2] = cycle => Attempted(g[1]) \/ g[1] = decision.book
    BY <1>1, <1>2 DEF ConsumptionInv, AttemptedOnce, WalkSteps, AttemptSteps
  <2>3. /\ research.cycle = cycle /\ \A i \in DOMAIN todo : ~Attempted(todo[i])
    BY <1>1 DEF ConsumptionInv, AttemptedOnce, WalkSteps, AttemptSteps
  <2> QED
    BY <1>1, <1>3, <2>1, <2>2, <2>3 DEF AttemptedOnce, WalkSteps, AttemptSteps, Unfilled
<1>5. FilledIsConsumed'
  BY <1>1 DEF FilledIsConsumed
<1> QED
  BY <1>4, <1>5 DEF ConsumptionInv

\* An attempt is entered with the decision as it is then.
LEMMA ConsumptionEnter ==
  ASSUME IInv, ConsumptionInv, EnterNothing \/ OpenInBook
  PROVE  ConsumptionInv'
<1> USE DEF EnterNothing, OpenInBook, history
<1>1. /\ pc = "open" /\ pc' = "walk" /\ UNCHANGED <<filled, cycle, decision, research, todo>>
      /\ decision.cycle = cycle /\ research.cycle = cycle /\ decision \in Decision
  BY DEF ConsumptionInv, AttemptedOnce, AttemptSteps, WalkSteps
<1>2. PICK e : /\ entries' = Append(entries, e) /\ e.decision = decision /\ e.book = decision.book
               /\ e \in Attempt
  <2>1. CASE EnterNothing
    <3>1. Entry(decision, FALSE, FALSE, "none") \in Attempt
      BY <1>1 DEF Entry, Attempt, Refusal, Decision
    <3>2. /\ Entry(decision, FALSE, FALSE, "none").decision = decision
          /\ Entry(decision, FALSE, FALSE, "none").book = decision.book
      BY DEF Entry
    <3> QED
      BY <2>1, <3>1, <3>2
  <2>2. CASE OpenInBook
    <3> DEFINE r == refusal_reason(decision.book)
               e == Entry(decision, TRUE, r = "none", r)
    <3>1. r \in Refusal
      BY DEF refusal_reason, Refusal
    <3>2. e \in Attempt /\ e.decision = decision /\ e.book = decision.book
      BY <1>1, <3>1 DEF Entry, Attempt, Decision
    <3>3. entries' = Append(entries, e)
      BY <2>2
    <3> QED
      BY <3>2, <3>3
  <2> QED
    BY <2>1, <2>2
<1>3. /\ \A i \in DOMAIN entries : i \in DOMAIN entries' /\ entries'[i] = entries[i]
      /\ \E i \in DOMAIN entries' : entries'[i] = e
      /\ \A i \in DOMAIN entries' :
           (i \in DOMAIN entries /\ entries'[i] = entries[i]) \/ entries'[i] = e
  <2>1. entries \in Seq(Attempt)
    BY DEF IInv, TypeOK
  <2>2. /\ DOMAIN entries' = 1..(Len(entries) + 1) /\ entries'[Len(entries) + 1] = e
        /\ \A i \in 1..Len(entries) : entries'[i] = entries[i]
    BY <1>2, <2>1
  <2> QED
    BY <2>1, <2>2
<1>4. \A x : Attempted(x)' <=> Attempted(x) \/ x = decision.book
  BY <1>2, <1>3 DEF Attempted
<1>5. \A i \in DOMAIN todo : ~Attempted(todo[i])'
  BY <1>1, <1>4 DEF ConsumptionInv, AttemptedOnce, IInv, WalkCounts, WalkSteps, AttemptSteps
<1>6. \A f \in filled : f[2] = cycle => Attempted(f[1])'
  BY <1>1, <1>4 DEF ConsumptionInv, AttemptedOnce, WalkSteps, AttemptSteps
<1>7. \A i \in DOMAIN entries' :
        LET d == entries'[i].decision IN d.book = entries'[i].book /\ (Unfilled(d) \/ d.consumed)
  <2>1. Unfilled(decision) \/ decision.consumed
    BY DEF ConsumptionInv, FilledIsConsumed, Unfilled
  <2> QED
    BY <1>2, <1>3, <2>1 DEF ConsumptionInv, AttemptedOnce
<1>8. AttemptedOnce'
  BY <1>1, <1>5, <1>6, <1>7 DEF ConsumptionInv, AttemptedOnce, WalkSteps, AttemptSteps, Unfilled
<1>9. FilledIsConsumed'
  BY <1>1 DEF ConsumptionInv, FilledIsConsumed
<1> QED
  BY <1>8, <1>9 DEF ConsumptionInv

\* The walk leaves the decision of one of its attempts, or the one it found.
LEMMA ConsumptionEnd == ASSUME IInv, ConsumptionInv, EndWalk PROVE ConsumptionInv'
<1> USE DEF EndWalk, history
<1>1. decision' \in Decision /\ (Unfilled(decision') \/ decision'.consumed)
  <2>1. CASE entries = <<>>
    BY <2>1 DEF ConsumptionInv, AttemptedOnce, FilledIsConsumed, Unfilled
  <2>2. CASE entries # <<>>
    <3>1. entries \in Seq(Attempt)
      BY DEF IInv, TypeOK
    <3>2. \E i \in DOMAIN entries : representative = entries[i]
      <4>1. CASE Fills = {}
        BY <2>2, <3>1, <4>1 DEF representative
      <4>2. CASE Fills # {}
        <5>1. Fills \subseteq Nat /\ Fills \subseteq DOMAIN entries
          BY <3>1 DEF Fills
        <5>2. \E i \in Fills : \A j \in Fills : i <= j
          BY <4>2, <5>1, LeastExists
        <5> DEFINE first == CHOOSE i \in Fills : \A j \in Fills : i <= j
        <5>3. first \in Fills
          BY <5>2
        <5>4. representative = entries[first]
          BY <4>2 DEF representative
        <5> HIDE DEF first
        <5> QED
          BY <5>1, <5>3, <5>4
      <4> QED
        BY <4>1, <4>2
    <3>3. PICK i \in DOMAIN entries : representative = entries[i]
      BY <3>2
    <3>4. entries[i].decision \in Decision
      <4>1. entries[i] \in Attempt
        BY <3>1
      <4> QED
        BY <4>1 DEF Attempt
    <3>5. Unfilled(entries[i].decision) \/ entries[i].decision.consumed
      BY DEF ConsumptionInv, AttemptedOnce
    <3> QED
      BY <2>2, <3>3, <3>4, <3>5
  <2> QED
    BY <2>1, <2>2
<1>2. FilledIsConsumed'
  BY <1>1 DEF FilledIsConsumed, Unfilled
<1> QED
  BY <1>1, <1>2, ConsumptionReturns

\* The fills and the decisions agree, step by step.
LEMMA NextConsumption == IInv /\ ConsumptionInv /\ [Next]_vars => ConsumptionInv'
<1> SUFFICES ASSUME IInv, ConsumptionInv, [Next]_vars PROVE ConsumptionInv'
  OBVIOUS
<1>1. CASE \/ NewCandle \/ NewFeatures \/ (\E b \in Book : SettleHold(b) \/ SettleClose(b))
           \/ SaveSettled \/ Attribute \/ SkipCandidate \/ Done \/ UNCHANGED vars
  <2>1. /\ UNCHANGED <<filled, cycle, decision, research>>
        /\ \/ UNCHANGED <<pc, entries, todo>>
           \/ pc = pc' /\ todo' = Tail(todo) /\ todo # <<>> /\ UNCHANGED entries
           \/ pc' = "attribute" /\ pc = "settle" /\ UNCHANGED <<entries, todo>>
    BY <1>1 DEF NewCandle, NewFeatures, SettleHold, SettleClose, SaveSettled, Attribute,
                SkipCandidate, Done, vars, walk, history
  <2>2. todo \in Seq(Strategy)
    BY DEF IInv, TypeOK
  <2> QED
    BY <2>1, <2>2, ConsumptionQuiet
<1>2. CASE \/ (\E b \in Book : SettleRaises(b)) \/ ExecuteRaises \/ Crash \/ CrashInAppend
           \/ (\E b \in Book : CrashInOutcome(b))
  <2>1. UNCHANGED <<filled, cycle, decision>> /\ Returns
    BY <1>2 DEF SettleRaises, ExecuteRaises, Crash, CrashInAppend, CrashInOutcome, Dies, history
  <2>2. decision' \in Decision /\ FilledIsConsumed'
    BY <2>1 DEF ConsumptionInv, AttemptedOnce, FilledIsConsumed
  <2> QED
    BY <2>1, <2>2, ConsumptionReturns
<1>3. CASE Validate \/ StartWalk \/ PersistCandidate \/ PersistResearch
  BY <1>3, ConsumptionValidate, ConsumptionStart, ConsumptionPersist
<1>4. CASE CreateIntent \/ NoIntent \/ ExecutePaperOrder
  BY <1>4, ConsumptionIntent, ConsumptionFill
<1>5. CASE EnterNothing \/ OpenInBook \/ EndWalk
  BY <1>5, ConsumptionEnter, ConsumptionEnd
<1> QED
  BY <1>1, <1>2, <1>3, <1>4, <1>5 DEF Next

LEMMA InitConsumption == Init => ConsumptionInv
<1> SUFFICES ASSUME Init PROVE ConsumptionInv
  OBVIOUS
<1> USE DEF Init
<1>1. NoDecision \in Decision
  BY DEF NoDecision, Decision, Book
<1>2. AttemptedOnce
  BY <1>1 DEF AttemptedOnce, WalkSteps, AttemptSteps
<1>3. FilledIsConsumed
  BY DEF FilledIsConsumed
<1> QED
  BY <1>2, <1>3 DEF ConsumptionInv

-----------------------------------------------------------------------------
(***************************************************************************)
(* Theorems.                                                               *)
(***************************************************************************)
\* What the files and the steps of a paper cycle say of each other, IInv,
\* holds in every reachable state, whatever is interrupted.
THEOREM BooksInvariance == Spec => []IInv
  BY InitIInv, NextIInv, PTL DEF Spec

\* Each execution is in the outcome registry at most once, however often a
\* crash makes settle_books close its book again (outcome_analytics_v2.py:591-593).
THEOREM OutcomesOnce == Spec => []RecordedOnce
<1>1. IInv => RecordedOnce
  BY DEF IInv
<1> QED
  BY <1>1, BooksInvariance, PTL

\* No book is cleared before its close is on record, but for one that was
\* opened on the legacy reconciliation.
THEOREM RecordedBeforeCleared == Spec => []ClearedIsRecorded
<1>1. IInv => ClearedIsRecorded
  BY DEF IInv
<1> QED
  BY <1>1, BooksInvariance, PTL

\* The gate counts the books the walk opens: no strategy fills without room.
THEOREM FilledHasRoom == Spec => []StrategyFillHasRoom
<1>1. IInv => StrategyFillHasRoom
  BY DEF IInv
<1> QED
  BY <1>1, BooksInvariance, PTL

\* The three caps of the portfolio hold (paper_book_kernel.py:14-18).
THEOREM CapsAlwaysHold == Spec => []CapsHold
<1>1. IInv => CapsHold
  BY DEF IInv
<1> QED
  BY <1>1, BooksInvariance, PTL

\* What is recorded, attributed and open agrees on executions and cycles.
THEOREM AttributionInvariance == Spec => []AttributionInv
  BY InitAttribution, NextAttribution, BooksInvariance, PTL DEF Spec

\* The result a strategy is judged by is the one the risk guard counts, unless
\* a crash parted an outcome from its book.
THEOREM AttributedAsRecorded == Spec => []DivergenceNeedsCut
<1>1. AttributionInv => DivergenceNeedsCut
  BY DEF AttributionInv
<1> QED
  BY <1>1, AttributionInvariance, PTL

\* What is filled is among the attempts of its cycle, and is consumed.
THEOREM ConsumptionInvariance == Spec => []ConsumptionInv
  BY InitConsumption, NextConsumption, BooksInvariance, PTL DEF Spec

\* The decision on disk is never one that was filled and is not consumed, so
\* that no later run of the executor fills it again.
THEOREM FillConsumes == Spec => []FilledIsConsumed
<1>1. ConsumptionInv => FilledIsConsumed
  BY DEF ConsumptionInv
<1> QED
  BY <1>1, ConsumptionInvariance, PTL
=============================================================================
