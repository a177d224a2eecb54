------------------------------ MODULE PaperBooks ------------------------------
(***************************************************************************)
(* The multi-book paper stage (paper_book_kernel.py, trading_steps/,       *)
(* outcome_analytics_v2.py, risk_guard.py): one cycle validates, settles   *)
(* every open book on the latest closed candle, saves the books once,      *)
(* attributes the closes, and walks the ranked candidates and then the     *)
(* research decision.  A process may die between any two file writes.      *)
(*                                                                         *)
(* Prices are abstracted to what the exit math makes of a position on a    *)
(* candle; the loss limits to the consecutive one, any other may only      *)
(* close the gate.  The runner lock makes cycles sequential.               *)
(***************************************************************************)
EXTENDS Integers, Sequences, FiniteSets, PaperEngine

CONSTANTS Strategy,
          Default,               \* DEFAULT_BOOK_ID
          MaxOpenBooks, MaxSameDirection, MaxSameSignalDirection,
          MaxEntries,            \* MULTIBOOK_MAX_ENTRIES_PER_CYCLE
          MaxConsecutiveLosses,
          MaxCycle, MaxSnapshot, MaxCrash   \* bounds of the model

Book == Strategy \cup {Default}

ASSUME PaperAssumption ==
  /\ Default \notin Strategy /\ IsFiniteSet(Strategy)
  /\ MaxOpenBooks \in Nat /\ MaxSameDirection \in Nat /\ MaxSameSignalDirection \in Nat
  /\ MaxEntries \in Nat /\ MaxConsecutiveLosses \in Nat \ {0}
  /\ MaxCycle \in Nat /\ MaxSnapshot \in Nat \ {0} /\ MaxCrash \in Nat

VARIABLES
  \* files
  books,        \* paper_books.json
  outcomes,     \* outcome_feedback_registry.jsonl
  torn,         \* did a crash cut its last line, or the newline only?
  attributed,   \* the attributed-outcome registry (S8)
  damaged,      \* the execution and reconciliation registries with a cut last line
  decision,     \* latest_trade_decision.json
  \* the market, as the data and research stages of the cycle leave it
  snapshot,     \* counts the distinct candles and feature values
  signal,       \* the research signal: its id is a function of the snapshot
  fate,         \* what settle_trade_plan makes of each open book on this candle
  \* the running cycle
  cycle, pc, verdict,
  toSettle,     \* open books settle_books has not looked at yet
  summaries,    \* what settle_books returns
  openCount, todo, entries, research,
  execution,    \* paper_execution_record.json, until the reconciler has read it
  \* history
  settled,      \* the closes that were saved
  filled,       \* the decisions a paper fill was made for
  cut,          \* a crash between an outcome's append and the save of the books
  crashes

market == <<snapshot, signal, fate>>
walk == <<openCount, todo, entries, research, execution>>
history == <<settled, filled, cut, crashes>>
vars == <<books, outcomes, torn, attributed, damaged, decision, market,
          cycle, pc, verdict, toSettle, summaries, walk, history>>

Side == {"LONG", "SHORT"}
Result == {"win", "loss"}
\* A strategy's decision id carries the cycle; the research decision's id is
\* derived from the signal, and so is everything that is derived from it.
ExecutionId == [by : Strategy, at : 1..MaxCycle] \cup [by : {Default}, at : 1..MaxSnapshot]
Signal == [id : 1..MaxSnapshot, side : Side]
ReconciliationStatus == {"RECONCILED", "RECONCILIATION_MISMATCH", "RECONCILIATION_NOT_REQUIRED",
                         "UNSAFE_LIVE_SIDE_EFFECT"}
Reconciliation ==
  [by : {"paper_reconciliation_v2", "legacy"}, status : ReconciliationStatus, reconciled : BOOLEAN,
   promotion_blocker : {"none"} \cup {promotion_blocker(s) : s \in ReconciliationStatus}]
Position == [exec : ExecutionId, signal : Signal, entry_reconciliation : Reconciliation]
NoPosition == [exec |-> [by |-> Default, at |-> 0]]
Outcome == [exec : ExecutionId, result : Result]
Decision == [book : Book, cycle : 0..MaxCycle, allow : BOOLEAN, consumed : BOOLEAN]
NoExecution == [fill_status |-> "NO_FILL"]
NoDecision == [book |-> Default, cycle |-> 0, allow |-> FALSE, consumed |-> FALSE]

open_books == {b \in Book : books[b] # NoPosition}

Init ==
  /\ books = [b \in Book |-> NoPosition]
  /\ outcomes = <<>> /\ torn = "no" /\ attributed = <<>> /\ damaged = {}
  /\ decision = NoDecision
  /\ snapshot = 1 /\ signal \in {s \in Signal : s.id = 1}
  /\ fate = [b \in Book |-> "hold"]
  /\ cycle = 0 /\ pc = "idle" /\ verdict = FALSE
  /\ toSettle = {} /\ summaries = <<>>
  /\ openCount = 0 /\ todo = <<>> /\ entries = <<>> /\ research = NoDecision
  /\ execution = NoExecution
  /\ settled = <<>> /\ filled = {} /\ cut = FALSE /\ crashes = 0

\* The trading stage is over: its locals are gone, the files stay.
Returns ==
  /\ pc' = "idle" /\ verdict' = FALSE
  /\ toSettle' = {} /\ summaries' = <<>>
  /\ openCount' = 0 /\ todo' = <<>> /\ entries' = <<>>
  /\ research' = NoDecision /\ execution' = NoExecution

-----------------------------------------------------------------------------
(***************************************************************************)
(* Between cycles the market moves.  Several cycles may see one candle.    *)
(***************************************************************************)
Fates(b) == IF books[b] = NoPosition THEN {"hold"} ELSE Result \cup {"hold"}

NewSignal == signal' \in {s \in Signal : s.id = snapshot + 1}

NewCandle ==
  /\ pc = "idle" /\ snapshot < MaxSnapshot
  /\ snapshot' = snapshot + 1 /\ NewSignal
  /\ fate' \in {f \in [Book -> Result \cup {"hold"}] : \A b \in Book : f[b] \in Fates(b)}
  /\ UNCHANGED <<books, outcomes, torn, attributed, damaged, decision, cycle,
                 pc, verdict, toSettle, summaries, walk, history>>

\* Funding or open interest moves within the candle: a signal of its own.
NewFeatures ==
  /\ pc = "idle" /\ snapshot < MaxSnapshot
  /\ snapshot' = snapshot + 1 /\ NewSignal
  /\ UNCHANGED <<books, outcomes, torn, attributed, damaged, decision, fate,
                 cycle, pc, verdict, toSettle, summaries, walk, history>>

-----------------------------------------------------------------------------
(***************************************************************************)
(* Validation                                                              *)
(***************************************************************************)
consecutive_losses ==
  Cardinality({i \in DOMAIN outcomes :
                 \A j \in i..Len(outcomes) : outcomes[j].result = "loss"})

\* load_registry_records parses a last line that only lacks its newline.
run_risk_guard == torn # "line" /\ consecutive_losses < MaxConsecutiveLosses

positions_to_settle == open_books

Validate ==
  /\ pc = "idle" /\ cycle < MaxCycle
  /\ cycle' = cycle + 1
  /\ verdict' \in {FALSE, run_risk_guard}
  /\ toSettle' = positions_to_settle /\ summaries' = <<>> /\ entries' = <<>>
  /\ pc' = "settle"
  /\ UNCHANGED <<books, outcomes, torn, attributed, damaged, decision, market,
                 openCount, todo, research, execution, history>>

-----------------------------------------------------------------------------
(***************************************************************************)
(* settle_books.  A close reaches the registry at once, the books are      *)
(* saved after the last one.                                               *)
(***************************************************************************)
SettleHold(b) ==
  /\ pc = "settle" /\ b \in toSettle /\ fate[b] = "hold"
  /\ toSettle' = toSettle \ {b}
  /\ UNCHANGED <<books, outcomes, torn, attributed, damaged, decision, market,
                 cycle, pc, verdict, summaries, walk, history>>

Recorded(exec) == \E i \in DOMAIN outcomes : outcomes[i].exec = exec

\* Mutant: an execution that is in the registry already is appended again.
MutOutcomeSkipped(p) == ~outcome_closed(p.entry_reconciliation)

\* not_closed, or a duplicate.
outcome_skipped(p) == ~outcome_closed(p.entry_reconciliation) \/ Recorded(p.exec)

OutcomeOf(b) == [exec |-> books[b].exec, result |-> fate[b]]

\* Every reader needs the last line to parse, an append its newline too.
Raises(b) == torn = "line" \/ (torn = "newline" /\ ~outcome_skipped(books[b]))

SettleClose(b) ==
  /\ pc = "settle" /\ b \in toSettle /\ fate[b] # "hold" /\ ~Raises(b)
  /\ outcomes' = IF outcome_skipped(books[b]) THEN outcomes
                 ELSE Append(outcomes, OutcomeOf(b))
  /\ summaries' = Append(summaries, [book |-> b, result |-> fate[b], position |-> books[b]])
  /\ toSettle' = toSettle \ {b}
  /\ UNCHANGED <<books, torn, attributed, damaged, decision, market, cycle, pc,
                 verdict, walk, history>>

\* Mutant: the error is swallowed and the close goes on without its outcome.
MutSettleRaises(b) ==
  /\ pc = "settle" /\ b \in toSettle /\ fate[b] # "hold" /\ Raises(b)
  /\ summaries' = Append(summaries, [book |-> b, result |-> fate[b], position |-> books[b]])
  /\ toSettle' = toSettle \ {b}
  /\ UNCHANGED <<books, outcomes, torn, attributed, damaged, decision, market,
                 cycle, pc, verdict, walk, history>>

\* A damaged registry raises: the stage fails and no book is saved.
SettleRaises(b) ==
  /\ pc = "settle" /\ b \in toSettle /\ fate[b] # "hold" /\ Raises(b)
  /\ Returns
  /\ UNCHANGED <<books, outcomes, torn, attributed, damaged, decision, market,
                 cycle, history>>

Closed == {summaries[i].book : i \in DOMAIN summaries}

\* Mutant: the closed books are not written back.
MutSaveBooks == UNCHANGED <<books, fate>>

save_books ==
  /\ books' = [b \in Book |-> IF b \in Closed THEN NoPosition ELSE books[b]]
  /\ fate' = [b \in Book |-> IF b \in Closed THEN "hold" ELSE fate[b]]

SaveSettled ==
  /\ pc = "settle" /\ toSettle = {}
  /\ save_books
  /\ settled' = settled \o summaries
  /\ pc' = "attribute"
  /\ UNCHANGED <<outcomes, torn, attributed, damaged, decision, snapshot,
                 signal, cycle, verdict, toSettle, summaries, walk, filled, cut, crashes>>

\* record_strategy_outcome, best effort; a research close has no strategy.
Attribute ==
  /\ pc = "attribute" /\ summaries # <<>>
  /\ \/ /\ Head(summaries).book \in Strategy
        /\ attributed' = Append(attributed, [exec |-> Head(summaries).position.exec,
                                             result |-> Head(summaries).result])
     \/ UNCHANGED attributed
  /\ summaries' = Tail(summaries)
  /\ UNCHANGED <<books, outcomes, torn, damaged, decision, market, cycle, pc,
                 verdict, toSettle, walk, history>>

-----------------------------------------------------------------------------
(***************************************************************************)
(* run_multibook_entries                                                   *)
(***************************************************************************)
\* ranked_candidates, without the strategies whose book is open.
\* Research permits one direction: an admitted candidate goes the signal's way.
Candidates ==
  LET free == Strategy \ open_books
  IN  {c \in UNION {[1..n -> free] : n \in 0..Cardinality(free)} :
         \A i, j \in DOMAIN c : c[i] = c[j] => i = j}

\* The gate of the research decision is evaluated here, before the walk.
StartWalk ==
  /\ pc = "attribute" /\ summaries = <<>>
  /\ openCount' = Cardinality(open_books)
  /\ \E allow \in {FALSE, verdict /\ Cardinality(open_books) < MaxOpenBooks} :
       research' = [book |-> Default, cycle |-> cycle, allow |-> allow, consumed |-> FALSE]
  /\ decision' = research'
  /\ todo' \in Candidates
  /\ pc' = "walk"
  /\ UNCHANGED <<books, outcomes, torn, attributed, damaged, market, cycle,
                 verdict, toSettle, summaries, entries, execution, history>>

Opened == Cardinality({i \in DOMAIN entries : entries[i].opened})

\* Mutant: the books opened by this walk are not counted.
MutGateAdmits == verdict /\ openCount < MaxOpenBooks

GateAdmits == verdict /\ openCount + Opened < MaxOpenBooks

\* The permission or the gate refuses: no attempt.
SkipCandidate ==
  /\ pc = "walk" /\ todo # <<>> /\ Len(entries) < MaxEntries
  /\ todo' = Tail(todo)
  /\ UNCHANGED <<books, outcomes, torn, attributed, damaged, decision, market,
                 cycle, pc, verdict, toSettle, summaries, openCount, entries,
                 research, execution, history>>

PersistCandidate ==
  /\ pc = "walk" /\ todo # <<>> /\ Len(entries) < MaxEntries
  /\ GateAdmits
  /\ decision' = [book |-> Head(todo), cycle |-> cycle, allow |-> TRUE, consumed |-> FALSE]
  /\ todo' = Tail(todo)
  /\ pc' = "execute"
  /\ UNCHANGED <<books, outcomes, torn, attributed, damaged, market, cycle,
                 verdict, toSettle, summaries, openCount, entries, research, execution, history>>

Attempted(b) == \E i \in DOMAIN entries : entries[i].book = b

\* The research decision comes last, whatever it allows.
ResearchTurn == /\ todo = <<>> /\ Len(entries) < MaxEntries
                /\ Default \notin open_books /\ ~Attempted(Default)

PersistResearch ==
  /\ pc = "walk" /\ ResearchTurn
  /\ decision' = research
  /\ pc' = "execute"
  /\ UNCHANGED <<books, outcomes, torn, attributed, damaged, market, cycle,
                 verdict, toSettle, summaries, walk, history>>

\* Mutant: the entry keeps the decision as it was before the executor.
MutEntry(d, fill, opened, refusal) ==
  [book |-> d.book, filled |-> fill, opened |-> opened, refusal |-> refusal,
   decision |-> [d EXCEPT !.consumed = FALSE]]

Entry(d, fill, opened, refusal) ==
  [book |-> d.book, filled |-> fill, opened |-> opened, refusal |-> refusal,
   decision |-> d]

\* The intent the executor builds: its quantity comes from the decision, or
\* from the notional and the entry price, which may be missing.
OrderIntents(d) ==
  {[created |-> TRUE, ids |-> ChainIds, gate |-> "approved", live |-> FALSE,
    direction |-> signal.side, side |-> SideOf(signal.side),
    quantity |-> q, priced |-> q > 0] : q \in {0, Full}}

\* run_order_executor: a decision that makes an intent is marked first.
CreateIntent ==
  /\ pc = "execute" /\ decision.allow /\ ~decision.consumed
  /\ decision' = [decision EXCEPT !.consumed = TRUE]
  /\ \E intent \in OrderIntents(decision) :
       execution' = simulate_paper_execution(intent, DefaultConfig)
  /\ pc' = "submit"
  /\ UNCHANGED <<books, outcomes, torn, attributed, damaged, market, cycle, verdict,
                 toSettle, summaries, openCount, todo, entries, research, history>>

\* Not allowed, consumed before, or malformed; the reconciler then reads an
\* older execution, and nothing comes of it.
NoIntent ==
  /\ pc = "execute"
  /\ pc' = "open"
  /\ UNCHANGED <<books, outcomes, torn, attributed, damaged, decision, market,
                 cycle, verdict, toSettle, summaries, walk, history>>

\* execute_and_persist_paper_order: the record, then the registry.
ExecutePaperOrder ==
  /\ pc = "submit" /\ "execution" \notin damaged
  /\ filled' = IF is_filled(execution) THEN filled \cup {<<decision.book, decision.cycle>>}
               ELSE filled
  /\ pc' = "open"
  /\ UNCHANGED <<books, outcomes, torn, attributed, damaged, decision, market, cycle,
                 verdict, toSettle, summaries, walk, settled, cut, crashes>>

\* A damaged registry raises: the stage fails, and the decision stays consumed.
ExecuteRaises ==
  /\ pc = "submit" /\ "execution" \in damaged
  /\ Returns
  /\ UNCHANGED <<books, outcomes, torn, attributed, damaged, decision, market, cycle,
                 history>>

\* run_reconciler: when its registry cannot be appended to, the legacy
\* reconciler answers.
run_reconciler ==
  IF "reconciliation" \in damaged THEN legacy_reconciliation
  ELSE reconcile_paper_execution_record(execution)

EnterNothing ==
  /\ pc = "open" /\ ~is_filled(execution)
  /\ entries' = Append(entries, Entry(decision, FALSE, FALSE, "none"))
  /\ execution' = NoExecution
  /\ pc' = "walk"
  /\ UNCHANGED <<books, outcomes, torn, attributed, damaged, decision, market,
                 cycle, verdict, toSettle, summaries, openCount, todo, research, history>>

execution_id(d) ==
  [by |-> d.book, at |-> IF d.book = Default THEN signal.id ELSE d.cycle]

SameDirection == {b \in open_books : books[b].signal.side = signal.side}
SameSignalDirection == {b \in SameDirection : books[b].signal.id = signal.id}

\* Mutant: the caps of the whole portfolio are left to the gate.
MutRefusal(b) ==
  IF b \in open_books THEN "BOOK_ALREADY_OPEN" ELSE "none"

refusal_reason(b) ==
  CASE b \in open_books -> "BOOK_ALREADY_OPEN"
    [] Cardinality(open_books) >= MaxOpenBooks -> "MAX_OPEN_BOOKS"
    [] Cardinality(SameDirection) >= MaxSameDirection -> "MAX_SAME_DIRECTION"
    [] Cardinality(SameSignalDirection) >= MaxSameSignalDirection -> "MAX_SAME_SIGNAL_DIRECTION"
    [] OTHER -> "none"

\* run_reconciler, then open_in_book, which takes any reconciliation.
OpenInBook ==
  LET b == decision.book
      refusal == refusal_reason(b)
  IN
  /\ pc = "open" /\ is_filled(execution)
  /\ \/ /\ refusal = "none"
        /\ books' = [books EXCEPT ![b] = [exec |-> execution_id(decision),
                                          signal |-> signal,
                                          entry_reconciliation |-> run_reconciler]]
        /\ \E f \in Result \cup {"hold"} : fate' = [fate EXCEPT ![b] = f]
     \/ refusal # "none" /\ UNCHANGED <<books, fate>>
  /\ entries' = Append(entries, Entry(decision, TRUE, refusal = "none", refusal))
  /\ execution' = NoExecution
  /\ pc' = "walk"
  /\ UNCHANGED <<outcomes, torn, attributed, damaged, decision, snapshot,
                 signal, cycle, verdict, toSettle, summaries, openCount, todo,
                 research, history>>

Fills == {i \in DOMAIN entries : entries[i].filled}

\* The first fill, else the last attempt.
representative ==
  IF Fills = {} THEN entries[Len(entries)]
  ELSE entries[CHOOSE i \in Fills : \A j \in Fills : i <= j]

\* The feedback stage that follows sees an open position: it appends nothing.
EndWalk ==
  /\ pc = "walk"
  /\ Len(entries) >= MaxEntries \/ (todo = <<>> /\ ~ResearchTurn)
  /\ decision' = IF entries = <<>> THEN decision ELSE representative.decision
  /\ Returns
  /\ UNCHANGED <<books, outcomes, torn, attributed, damaged, market, cycle, history>>

-----------------------------------------------------------------------------
Dies ==
  /\ pc # "idle" /\ crashes < MaxCrash
  /\ crashes' = crashes + 1
  /\ Returns
  /\ UNCHANGED <<books, attributed, decision, market, cycle, settled, filled>>

\* The process dies between two writes, ...
Crash ==
  /\ Dies
  /\ cut' = (cut \/ (pc = "settle" /\ summaries # <<>>))
  /\ UNCHANGED <<outcomes, torn, damaged>>

\* ... in the append of an outcome, ...
CrashInOutcome(b) ==
  /\ pc = "settle" /\ b \in toSettle /\ fate[b] # "hold"
  /\ torn = "no" /\ ~outcome_skipped(books[b])
  /\ Dies
  /\ \/ torn' = "line" /\ UNCHANGED outcomes
     \/ torn' = "newline" /\ outcomes' = Append(outcomes, OutcomeOf(b))
  /\ cut' = TRUE
  /\ UNCHANGED damaged

\* ... or in the append of an execution or of a reconciliation.
CrashInAppend ==
  /\ pc \in {"submit", "open"} /\ Dies
  /\ damaged' = damaged \cup {IF pc = "submit" THEN "execution" ELSE "reconciliation"}
  /\ UNCHANGED <<outcomes, torn, cut>>

\* Bound: the last cycle is over.
Done == pc = "idle" /\ cycle = MaxCycle /\ UNCHANGED vars

Next == \/ NewCandle \/ NewFeatures \/ Validate
        \/ \E b \in Book : SettleHold(b) \/ SettleClose(b) \/ SettleRaises(b)
        \/ SaveSettled \/ Attribute
        \/ StartWalk \/ SkipCandidate \/ PersistCandidate \/ PersistResearch
        \/ CreateIntent \/ NoIntent \/ ExecutePaperOrder \/ ExecuteRaises
        \/ EnterNothing \/ OpenInBook \/ EndWalk
        \/ Crash \/ (\E b \in Book : CrashInOutcome(b)) \/ CrashInAppend
        \/ Done

Spec == Init /\ [][Next]_vars
-----------------------------------------------------------------------------
(***************************************************************************)
(* Properties                                                              *)
(***************************************************************************)
\* outcome_analytics_v2.py:591-593: each execution is in the registry at most
\* once, though a crash before the save makes settle_books close a book again.
RecordedOnce ==
  \A i, j \in DOMAIN outcomes : outcomes[i].exec = outcomes[j].exec => i = j

\* No book is cleared before its execution is in the registry the loss limits
\* are computed from, whatever crashes and whatever the registry's state; only
\* a position that was opened on a legacy reconciliation leaves none.
ClearedIsRecorded ==
  \A i \in DOMAIN settled :
    settled[i].position.entry_reconciliation # legacy_reconciliation => Recorded(settled[i].position.exec)

\* The result a strategy is judged by (S9) is the one the risk guard counts,
\* unless a crash parted the outcome from its book: the book is then settled
\* again, on a later candle, and the registry keeps the first result.
DivergenceNeedsCut ==
  \A i \in DOMAIN attributed, j \in DOMAIN outcomes :
    attributed[i].exec = outcomes[j].exec /\ ~cut => attributed[i] = outcomes[j]

\* A decision that was filled is never left unconsumed on disk, where another
\* run of the executor would fill it again: not in the walk, not after it.
FilledIsConsumed ==
  <<decision.book, decision.cycle>> \in filled => decision.consumed

\* The gate counts what the walk has opened: a strategy's fill is never refused
\* for want of a book.  (The research decision was gated before the walk.)
StrategyFillHasRoom ==
  \A i \in DOMAIN entries :
    entries[i].book \in Strategy =>
      entries[i].refusal \notin {"MAX_OPEN_BOOKS", "BOOK_ALREADY_OPEN"}

\* paper_book_kernel.py:14-18: the caps on books, on one direction and on one
\* signal hold after every crash, replayed close and re-entry.
CapsHold ==
  /\ Cardinality(open_books) <= MaxOpenBooks
  /\ \A d \in Side :
       LET same == {b \in open_books : books[b].signal.side = d}
       IN  /\ Cardinality(same) <= MaxSameDirection
           /\ \A n \in 1..MaxSnapshot :
                Cardinality({b \in same : books[b].signal.id = n}) <= MaxSameSignalDirection

-----------------------------------------------------------------------------
(***************************************************************************)
(* The inductive invariant behind RecordedOnce, ClearedIsRecorded,         *)
(* StrategyFillHasRoom and CapsHold.                                       *)
(***************************************************************************)
Summary == [book : Book, result : Result, position : Position]
Refusal == {"none", "BOOK_ALREADY_OPEN", "MAX_OPEN_BOOKS", "MAX_SAME_DIRECTION",
            "MAX_SAME_SIGNAL_DIRECTION"}
Attempt == [book : Book, opened : BOOLEAN, filled : BOOLEAN, refusal : Refusal,
            decision : Decision]

AttemptSteps == {"execute", "submit", "open"}
WalkSteps == {"walk"} \cup AttemptSteps

\* The files and locals that the properties relate have their types.
TypeOK ==
  /\ books \in [Book -> Position \cup {NoPosition}]
  /\ fate \in [Book -> Result \cup {"hold"}] /\ signal \in Signal
  /\ outcomes \in Seq(Outcome) /\ summaries \in Seq(Summary) /\ settled \in Seq(Summary)
  /\ pc \in {"idle", "settle", "attribute"} \cup WalkSteps
  /\ cycle \in 0..MaxCycle /\ toSettle \subseteq Book /\ todo \in Seq(Strategy)
  /\ verdict \in BOOLEAN /\ openCount \in Nat /\ research \in Decision /\ research.book = Default
  /\ entries \in Seq(Attempt)

\* What the steps of a cycle have in hand.
InHand ==
  /\ toSettle \subseteq open_books /\ (pc # "settle" => toSettle = {})
  /\ pc # "idle" => cycle > 0
  /\ pc \in WalkSteps => research.cycle > 0
  /\ pc \in AttemptSteps => decision \in Decision /\ decision.cycle > 0
  /\ pc \notin WalkSteps => entries = <<>>

\* A fill of the engine reconciles, so that each position was opened on a
\* clean reconciliation or on the legacy one.
CleanReconciliation ==
  [by |-> "paper_reconciliation_v2", status |-> "RECONCILED", reconciled |-> TRUE,
   promotion_blocker |-> "NO_PROMOTION_BLOCKER"]

FillsReconcile ==
  /\ is_filled(execution) =>
       reconcile_paper_execution_record(execution) = CleanReconciliation
  /\ \A b \in open_books :
       books[b].entry_reconciliation \in {CleanReconciliation, legacy_reconciliation}

\* What settle_books has closed and not saved yet is recorded already.
SummariesRecorded ==
  \A i \in DOMAIN summaries :
    summaries[i].position.entry_reconciliation # legacy_reconciliation =>
      Recorded(summaries[i].position.exec)

\* In the walk the open books are counted, no candidate has one, and a
\* strategy's attempt is made with room left.
WalkCounts ==
  pc \in WalkSteps =>
    /\ Cardinality(open_books) <= openCount + Opened
    /\ \A i \in DOMAIN todo : todo[i] \notin open_books
    /\ \A i, j \in DOMAIN todo : todo[i] = todo[j] => i = j
    /\ pc \in AttemptSteps /\ decision.book \in Strategy =>
         /\ decision.book \notin open_books /\ Cardinality(open_books) < MaxOpenBooks
    /\ pc \in AttemptSteps => \A i \in DOMAIN todo : todo[i] # decision.book

IInv == /\ TypeOK /\ InHand /\ FillsReconcile /\ SummariesRecorded /\ WalkCounts
        /\ RecordedOnce /\ ClearedIsRecorded /\ StrategyFillHasRoom /\ CapsHold

-----------------------------------------------------------------------------
(***************************************************************************)
(* What DivergenceNeedsCut rests on: an execution of a strategy is of its  *)
(* book and of one cycle, and what is recorded or attributed is of a cycle *)
(* that is over.                                                           *)
(***************************************************************************)
Past(exec) == exec.by \in Strategy => exec.at < cycle

OwnCycle ==
  /\ attributed \in Seq(Outcome)
  /\ \A b \in open_books :
       /\ books[b].exec.by = b
       /\ b \in Strategy => books[b].exec.at <= cycle
       /\ pc \in {"settle", "attribute"} => Past(books[b].exec)
  /\ \A i \in DOMAIN summaries :
       /\ summaries[i].position.exec.by = summaries[i].book
       /\ Past(summaries[i].position.exec)
  /\ pc \notin {"settle", "attribute"} => summaries = <<>>
  /\ pc \in AttemptSteps /\ decision.book \in Strategy => decision.cycle = cycle
  /\ \A i \in DOMAIN outcomes : Past(outcomes[i].exec)
  /\ \A i \in DOMAIN attributed : attributed[i].exec.by \in Strategy /\ Past(attributed[i].exec)

\* As long as no crash parted an outcome from its book: an open book has no
\* outcome but one of this very settlement, and the summaries agree with theirs.
InStep ==
  ~cut =>
    /\ torn = "no" /\ toSettle \cap Closed = {}
    /\ pc = "attribute" => open_books \cap Closed = {}
    /\ \A b \in open_books \cap Strategy :
         Recorded(books[b].exec) => pc = "settle" /\ b \in Closed
    /\ \A i \in DOMAIN summaries, j \in DOMAIN outcomes :
         summaries[i].book \in Strategy /\ outcomes[j].exec = summaries[i].position.exec =>
           outcomes[j].result = summaries[i].result
    /\ \A i \in DOMAIN attributed, b \in open_books : attributed[i].exec # books[b].exec

AttributionInv == OwnCycle /\ InStep /\ DivergenceNeedsCut

\* What FilledIsConsumed rests on: a book is attempted once in a cycle, and
\* what was filled in this one is among the attempts, or is the one in hand.
Unfilled(d) == <<d.book, d.cycle>> \notin filled

AttemptedOnce ==
  /\ decision \in Decision
  /\ \A f \in filled : f \in Book \X Nat /\ f[2] <= cycle
  /\ pc \in {"settle", "attribute"} => \A f \in filled : f[2] < cycle
  /\ pc \in WalkSteps =>
       /\ research.cycle = cycle
       /\ \A i \in DOMAIN todo : ~Attempted(todo[i])
       /\ \A f \in filled : f[2] = cycle =>
            Attempted(f[1]) \/ (pc = "open" /\ f[1] = decision.book)
  /\ pc \in AttemptSteps => decision.cycle = cycle /\ ~Attempted(decision.book)
  /\ pc = "submit" => decision.consumed
  /\ \A i \in DOMAIN entries :
       LET d == entries[i].decision IN d.book = entries[i].book /\ (Unfilled(d) \/ d.consumed)

ConsumptionInv == AttemptedOnce /\ FilledIsConsumed
=============================================================================
