----------------------------- MODULE LiveTrading -----------------------------
(***************************************************************************)
(* The live stage of one pipeline runner (trading_agent.py) against the    *)
(* venue: settle the tracked position (live_position_kernel.py), then      *)
(* enter at most once (live_strategy_execution.py), cycle after cycle.     *)
(*                                                                         *)
(* A step ends at every file write and every venue call, so that a crash   *)
(* may fall between any two of them.  The runner holds the pipeline lock;  *)
(* what an unlocked second process can do is module OrderExecutor.         *)
(***************************************************************************)
EXTENDS LiveVenue, Sequences, Functions

CONSTANTS MaxDaily,        \* LIVE_STRATEGY_MAX_DAILY_ORDER_COUNT
          LossLimit,       \* LIVE_STRATEGY_DAILY_LOSS_LIMIT_USDT
          ExposureCap,     \* LIVE_STRATEGY_MAX_OPEN_NOTIONAL_USDT
          MaxHold,         \* MAX_HOLD_BARS
          UntimedCandles,  \* may a cycle see no candle timestamp?
          MaxDay, MaxCandle, MaxCrash   \* bounds of the model

ASSUME LiveAssumption == /\ MaxDaily \in Nat /\ LossLimit \in Int
                         /\ ExposureCap \in Int /\ MaxHold \in Nat
                         /\ UntimedCandles \in BOOLEAN
                         /\ MaxDay \in Nat \ {0} /\ MaxCandle \in Nat \ {0}
                         /\ MaxCrash \in Nat

VARIABLES
  \* files
  pos,       \* live_position_v1.json
  counter,   \* live_strategy_order_counter.json, by day
  ledger,    \* the live outcome registry
  torn,      \* did a crash cut its last line, or the newline only?
  result,    \* ORDER_RESULT_PATH: how the last entry was submitted
  \* the runner, lost in a crash
  pc, stage,
  cur,       \* the client order id in hand
  ans,       \* the last answer of the venue
  submit,    \* what _resolve_submit made of the POST
  rec,       \* the reconciliation's status
  \* the environment
  day, candle, crashes

fileVars == <<pos, counter, ledger, torn, result>>
runVars == <<pc, stage, cur, ans, submit, rec>>
envVars == <<day, candle, crashes>>
vars == <<orders, held, pos, counter, ledger, torn, result, pc, stage, cur, ans,
          submit, rec, day, candle, crashes>>

Days == 1..MaxDay
NoStamp == 0

Position == [open : BOOLEAN, entry : OrderId \cup {NoOrder}, qty : 0..Size,
             hold : Nat, seen : 0..MaxCandle, openedAt : 0..MaxCandle,
             closeId : OrderId \cup {NoOrder}]

Outcome == [day : Days, order : OrderId, qty : 1..Size, pnl : Int]

\* {"status": "CLOSED"}
Flat == [open |-> FALSE, entry |-> NoOrder, qty |-> 0, hold |-> 0,
         seen |-> NoStamp, openedAt |-> NoStamp, closeId |-> NoOrder]

SubmitState == {"none", "accepted", "by_query", "unresolved", "not_submitted"}

\* external_order_submission_performed, and a truthy exchange_order_id: only
\* the answer of the POST itself carries the venue's id.
Performed(s) == s \in {"accepted", "by_query", "unresolved"}
HasExchangeId(s) == s = "accepted"

OrderResult == [submit : SubmitState, order : OrderId \cup {NoOrder}]
NoResult == [submit |-> "none", order |-> NoOrder]

RecStatus == {"none", "NO_SUBMISSION", "UNRECONCILED", "MISMATCH", "RECONCILED"}

SettleSteps == {"settle", "evaluate", "close_post", "close_resolve", "close_failed",
                "close_blocked", "close_query", "ledger", "clear"}
EntrySteps == {"guard", "post", "entry_resolve", "record", "result",
               "reconcile", "reconcile_pos", "open"}

Init == /\ VenueInit
        /\ pos = Flat /\ ledger = <<>> /\ torn = "no" /\ result = NoResult
        /\ counter = [d \in Days |-> 0]
        /\ pc = "idle" /\ stage = "none" /\ cur = NoOrder /\ ans = NoAnswer
        /\ submit = "none" /\ rec = "none"
        /\ day = 1 /\ candle = 1 /\ crashes = 0

\* An id never used at the venue and not the one a pending close holds.
Fresh(o) == orders[o].status = "ABSENT" /\ o # pos.closeId

RealizedOn(d) == SumFunctionOnSet([i \in DOMAIN ledger |-> ledger[i].pnl],
                                  {i \in DOMAIN ledger : ledger[i].day = d})

daily_loss_limit_breached == LossLimit <= 0 \/ RealizedOn(day) <= -LossLimit

\* The runner's locals are dropped when a cycle ends, however it ends.
EndCycle == /\ pc' = "idle" /\ stage' = "none" /\ cur' = NoOrder
            /\ ans' = NoAnswer /\ submit' = "none" /\ rec' = "none"

Goto(step) == pc' = step /\ UNCHANGED <<stage, submit, rec>>

-----------------------------------------------------------------------------
(***************************************************************************)
(* Settlement: settle_open_live_position, in the live stage and, before    *)
(* the refusal, in a refused one (_settle_live_before_refusal).            *)
(***************************************************************************)
\* Mutant: a refused stage returns before the settlement.
MutStartCycle(s) ==
  /\ pc = "idle" /\ (s = "live" => torn # "line")
  /\ pc' = IF s = "refused" THEN "entry" ELSE "settle"
  /\ stage' = s
  /\ UNCHANGED <<venueVars, fileVars, envVars, cur, ans, submit, rec>>

\* live_risk_snapshot reads the ledger first: over a torn line it raises, and a
\* live stage ends before it touched anything.  A refused stage does not read.
StartCycle(s) ==
  /\ pc = "idle" /\ (s = "live" => torn # "line")
  /\ pc' = "settle" /\ stage' = s
  /\ UNCHANGED <<venueVars, fileVars, envVars, cur, ans, submit, rec>>

SettleFlat ==
  /\ pc = "settle" /\ ~pos.open
  /\ Goto("entry")
  /\ UNCHANGED <<venueVars, fileVars, envVars, cur, ans>>

\* Mutant: any answer about the order is taken for its fill.
MutFillConfirmed(a) == a.code = "ok"

\* A fill the kernel believes: a filled status with a price.
FillConfirmed(a) == a.code = "ok" /\ a.status \in Filled /\ a.priced

\* Mutant: a failed query is taken for a dead order.
MutProvenDead(a) == a.code # "ok" \/ a.status = "DEAD"

\* The pending id is proven dead: gone from the book, or never on it.
ProvenDead(a) == \/ a.code = "ok" /\ a.status = "DEAD"
                 \/ a.code = "not_found"

\* Mutant: retiring the close drops the position with it.
MutRetirePending(p) == Flat

RetirePending(p) == [p EXCEPT !.closeId = NoOrder]

resolve_pending_close ==
  /\ pc = "settle" /\ pos.open /\ pos.closeId # NoOrder
  /\ \E a \in QueryAnswers(pos.closeId) :
       \/ FillConfirmed(a) /\ Goto("ledger") /\ cur' = pos.closeId /\ ans' = a
          /\ pos' = pos
       \/ ProvenDead(a) /\ Goto("evaluate") /\ pos' = RetirePending(pos)
          /\ UNCHANGED <<cur, ans>>
       \/ ~FillConfirmed(a) /\ ~ProvenDead(a) /\ Goto("entry")
          /\ UNCHANGED <<pos, cur, ans>>
  /\ UNCHANGED <<venueVars, envVars, counter, ledger, torn, result>>

\* Once per distinct candle; per call when the candle has no timestamp.
\* Bound: the count saturates at MaxHold, the only value it is compared with.
advance_holding(p, ts) ==
  IF ts # NoStamp /\ ts = p.seen THEN p
  ELSE [p EXCEPT !.hold = IF @ < MaxHold THEN @ + 1 ELSE @,
                 !.seen = IF ts # NoStamp THEN ts ELSE @]

\* touched: stop loss or take profit inside the candle; priced: a last close.
exit_signal(p, touched, priced) == touched \/ (priced /\ p.hold >= MaxHold)

\* Mutant: the close id is not saved before the submit.
MutWriteAheadClose(p, o) == p

\* Write-ahead: the close id is in the file before the order is sent.
WriteAheadClose(p, o) == [p EXCEPT !.closeId = o]

EvaluateExit(ts, touched, priced) ==
  /\ pc = "evaluate" \/ (pc = "settle" /\ pos.open /\ pos.closeId = NoOrder)
  /\ LET p == advance_holding(pos, ts)
     IN  \/ /\ ~exit_signal(p, touched, priced)
            /\ pos' = p
            /\ Goto("entry") /\ UNCHANGED <<cur, ans>>
         \/ /\ exit_signal(p, touched, priced)
            /\ \E o \in OrderId : /\ Fresh(o)
                                  /\ pos' = WriteAheadClose(p, o)
                                  /\ cur' = o
            /\ Goto("close_post") /\ UNCHANGED ans
  /\ UNCHANGED <<venueVars, envVars, counter, ledger, torn, result>>

\* evaluate_live_close_guard refuses: flags, confirmation, host or key.
CloseGuardBlocks ==
  /\ pc = "close_post"
  /\ Goto("close_blocked")
  /\ UNCHANGED <<venueVars, fileVars, envVars, cur, ans>>

PostClose(out) ==
  /\ pc = "close_post"
  /\ Post(cur, "close", pos.qty, out)
  /\ Goto(CASE out = "accepted" -> "close_query"
            [] out = "rejected" -> "close_failed"
            [] OTHER -> "close_resolve")
  /\ UNCHANGED <<fileVars, envVars, cur, ans>>

\* An unresolved close counts as performed: its id stays pending.
ResolveClose ==
  /\ pc = "close_resolve"
  /\ \E a \in QueryAnswers(cur) :
       Goto(IF a.code = "not_found" THEN "close_failed" ELSE "close_query")
  /\ UNCHANGED <<venueVars, fileVars, envVars, cur, ans>>

AbandonClose ==
  /\ pc \in {"close_failed", "close_blocked"}
  /\ pos' = RetirePending(pos)
  /\ Goto("entry")
  /\ UNCHANGED <<venueVars, envVars, counter, ledger, torn, result, cur, ans>>

ReadCloseFill ==
  /\ pc = "close_query"
  /\ \E a \in QueryAnswers(cur) :
       \/ FillConfirmed(a) /\ Goto("ledger") /\ ans' = a
       \/ ~FillConfirmed(a) /\ Goto("entry") /\ UNCHANGED ans
  /\ UNCHANGED <<venueVars, fileVars, envVars, cur>>

\* Mutant: the tracked quantity is booked whatever was executed.
MutOutcomeOf(o, a) == [day |-> day, order |-> o, qty |-> pos.qty,
                       pnl |-> pos.qty * a.move]

OutcomeOf(o, a) == [day |-> day, order |-> o, qty |-> a.executed,
                    pnl |-> a.executed * a.move]

\* Mutant: a part fill leaves the position and its pending id in the file.
MutAfterFill(p, a) == IF a.executed < p.qty THEN p ELSE Flat

AfterFill(p, a) == Flat

\* _settle_from_fill: the outcome is appended first, the file cleared second.
RecordOutcome ==
  /\ pc = "ledger" /\ torn = "no"
  /\ ledger' = Append(ledger, OutcomeOf(cur, ans))
  /\ Goto("clear")
  /\ UNCHANGED <<venueVars, envVars, pos, counter, torn, result, cur, ans>>

\* Mutant: a failed append is logged and the settlement goes on.
MutAppendRaises == Goto("clear") /\ UNCHANGED <<cur, ans>>

\* append_registry_record validates the tail first: behind a line or a newline
\* that was cut it raises, which ends the cycle (Agent.run, or the handler of
\* _settle_live_before_refusal).
AppendRaises == EndCycle

RecordRaises ==
  /\ pc = "ledger" /\ torn # "no"
  /\ AppendRaises
  /\ UNCHANGED <<venueVars, fileVars, envVars>>

\* The process dies inside the append.  A line without its newline still
\* parses: the ledger is read with it, but takes no other.
TearLedger ==
  /\ pc = "ledger" /\ torn = "no" /\ crashes < MaxCrash
  /\ \/ torn' = "line" /\ UNCHANGED ledger
     \/ torn' = "newline" /\ ledger' = Append(ledger, OutcomeOf(cur, ans))
  /\ crashes' = crashes + 1
  /\ EndCycle
  /\ UNCHANGED <<venueVars, pos, counter, result, day, candle>>

ClearPosition ==
  /\ pc = "clear"
  /\ pos' = AfterFill(pos, ans)
  /\ Goto("entry")
  /\ UNCHANGED <<venueVars, envVars, counter, ledger, torn, result, cur, ans>>

-----------------------------------------------------------------------------
(***************************************************************************)
(* Entry: run_single_entry with the strategy drive, the only path with a   *)
(* live profile.                                                           *)
(***************************************************************************)
\* A refused stage, no candidate, or a gate that declines.
SkipEntry ==
  /\ pc = "entry"
  /\ EndCycle
  /\ UNCHANGED <<venueVars, fileVars, envVars>>

\* Mutant: the gate does not count the tracked position.
MutGateAdmits == TRUE

\* PreOrderRiskGate: open_positions < max_open_positions = 1.
GateAdmits == ~pos.open

\* Bound: the last id is kept for the close.
BeginEntry(o) ==
  /\ pc = "entry" /\ stage = "live"
  /\ GateAdmits
  /\ Fresh(o) /\ \E f \in OrderId \ {o} : Fresh(f)
  /\ Goto("guard") /\ cur' = o /\ ans' = NoAnswer
  /\ UNCHANGED <<venueVars, fileVars, envVars>>

open_live_notional == IF pos.open THEN pos.qty ELSE 0

\* Mutant: the order count is compared one too high.
MutFinalGuardReady ==
  /\ ~daily_loss_limit_breached
  /\ counter[day] <= MaxDaily
  /\ open_live_notional + Size <= ExposureCap

\* Flags, promotion, host, key and RiskGate record are the caller's choice.
final_guard_ready ==
  /\ ~daily_loss_limit_breached
  /\ counter[day] < MaxDaily
  /\ open_live_notional + Size <= ExposureCap

FinalGuardReady ==
  /\ pc = "guard" /\ final_guard_ready
  /\ Goto("post")
  /\ UNCHANGED <<venueVars, fileVars, envVars, cur, ans>>

FinalGuardBlocks ==
  /\ pc = "guard"
  /\ pc' = "result" /\ submit' = "not_submitted"
  /\ UNCHANGED <<venueVars, fileVars, envVars, stage, cur, ans, rec>>

PostEntry(out) ==
  /\ pc = "post"
  /\ Post(cur, "entry", Size, out)
  /\ \/ out = "accepted" /\ pc' = "record" /\ submit' = "accepted"
     \/ out = "rejected" /\ pc' = "result" /\ submit' = "not_submitted"
     \/ out \in {"lost_answer", "lost_request"} /\ pc' = "entry_resolve"
        /\ UNCHANGED submit
  /\ UNCHANGED <<fileVars, envVars, stage, cur, ans, rec>>

\* Mutant: an unresolved submit is assumed away.
MutResolvedSubmit(a) == IF a.code = "ok" THEN "by_query" ELSE "not_submitted"

\* resolve_ambiguous_submit: True, False or None.
ResolvedSubmit(a) == CASE a.code = "ok" -> "by_query"
                       [] a.code = "not_found" -> "not_submitted"
                       [] OTHER -> "unresolved"

ResolveEntry ==
  /\ pc = "entry_resolve"
  /\ \E a \in QueryAnswers(cur) :
       /\ submit' = ResolvedSubmit(a)
       /\ pc' = IF Performed(ResolvedSubmit(a)) THEN "record" ELSE "result"
  /\ UNCHANGED <<venueVars, fileVars, envVars, stage, cur, ans, rec>>

record_submission ==
  /\ pc = "record"
  /\ counter' = [counter EXCEPT ![day] = @ + 1]
  /\ Goto("result")
  /\ UNCHANGED <<venueVars, envVars, pos, ledger, torn, result, cur, ans>>

WriteResult ==
  /\ pc = "result"
  /\ result' = [submit |-> submit, order |-> cur]
  /\ IF Performed(submit) THEN Goto("reconcile") /\ UNCHANGED <<cur, ans>>
                          ELSE EndCycle
  /\ UNCHANGED <<venueVars, envVars, pos, counter, ledger, torn>>

-----------------------------------------------------------------------------
(***************************************************************************)
(* Reconciliation of the persisted result (reconcile_signed_testnet), then *)
(* open_from_live_execution.  The order and the position are two queries.  *)
(***************************************************************************)
Reconcilable(r) == Performed(r.submit) /\ HasExchangeId(r.submit)

ReconcileOrder ==
  /\ pc = "reconcile"
  /\ \/ /\ Reconcilable(result)
        /\ pc' = "reconcile_pos" /\ ans' \in QueryAnswers(result.order)
        /\ UNCHANGED rec
     \/ /\ ~Reconcilable(result)
        /\ pc' = "open" /\ rec' = "NO_SUBMISSION" /\ UNCHANGED ans
  /\ UNCHANGED <<venueVars, fileVars, envVars, stage, cur, submit>>

\* A filled entry must be the whole position of the symbol.
compare(a) == IF a.status \in Filled /\ (held = 0 \/ a.executed # held)
                THEN "MISMATCH" ELSE "RECONCILED"

ReconcilePosition(reachable) ==
  /\ pc = "reconcile_pos"
  /\ rec' = IF ans.code = "ok" /\ reachable THEN compare(ans) ELSE "UNRECONCILED"
  /\ pc' = "open"
  /\ UNCHANGED <<venueVars, fileVars, envVars, stage, cur, ans, submit>>

PositionFromFill(o, a) ==
  [open |-> TRUE, entry |-> o, qty |-> a.executed, hold |-> 0, seen |-> NoStamp,
   openedAt |-> candle, closeId |-> NoOrder]

open_from_live_execution ==
  /\ pc = "open"
  /\ pos' = IF ~pos.open /\ rec = "RECONCILED" /\ ans.status \in Filled
              THEN PositionFromFill(cur, ans) ELSE pos
  /\ EndCycle
  /\ UNCHANGED <<venueVars, envVars, counter, ledger, torn, result>>

-----------------------------------------------------------------------------
(***************************************************************************)
(* The process dies, or an exception ends the cycle (Agent.run turns it    *)
(* into an ERROR result): the files stay, the locals are gone.             *)
(***************************************************************************)
Crash ==
  /\ pc # "idle" /\ crashes < MaxCrash
  /\ crashes' = crashes + 1
  /\ EndCycle
  /\ UNCHANGED <<venueVars, fileVars, day, candle>>

NextDay ==
  /\ day < MaxDay /\ day' = day + 1
  /\ UNCHANGED <<venueVars, fileVars, runVars, candle, crashes>>

NextCandle ==
  /\ candle < MaxCandle /\ candle' = candle + 1
  /\ UNCHANGED <<venueVars, fileVars, runVars, day, crashes>>

Venue == VenueStep /\ UNCHANGED <<fileVars, runVars, envVars>>

Stamps == {candle} \cup (IF UntimedCandles THEN {NoStamp} ELSE {})

Settle == \/ SettleFlat
          \/ resolve_pending_close
          \/ \E ts \in Stamps, touched, priced \in BOOLEAN :
                EvaluateExit(ts, touched, priced)
          \/ CloseGuardBlocks
          \/ \E out \in PostOutcome : PostClose(out)
          \/ ResolveClose
          \/ AbandonClose
          \/ ReadCloseFill
          \/ RecordOutcome
          \/ RecordRaises
          \/ ClearPosition

Enter == \/ SkipEntry
         \/ \E o \in OrderId : BeginEntry(o)
         \/ FinalGuardReady
         \/ FinalGuardBlocks
         \/ \E out \in PostOutcome : PostEntry(out)
         \/ ResolveEntry
         \/ record_submission
         \/ WriteResult
         \/ ReconcileOrder
         \/ \E reachable \in BOOLEAN : ReconcilePosition(reachable)
         \/ open_from_live_execution

Next == \/ \E s \in {"live", "refused"} : StartCycle(s)
        \/ Settle
        \/ Enter
        \/ Crash
        \/ TearLedger
        \/ Venue
        \/ NextDay
        \/ NextCandle

Spec == Init /\ [][Next]_vars

(***************************************************************************)
(* Fairness.  The scheduler loop starts the next cycle whatever the last   *)
(* one did, and a cycle that is not cut goes on to its end (weak).  The    *)
(* venue works off its book (weak).  What is retried every cycle succeeds  *)
(* some time: a query is answered, the snapshot has a last close, a close  *)
(* is accepted or else refused by the bot's own guard (strong).  Nothing   *)
(* is assumed of the guard: its confirmation may stay cleared for ever.    *)
(***************************************************************************)
Fairness == /\ WF_vars(\E s \in {"live", "refused"} : StartCycle(s))
            /\ WF_vars(Settle) /\ WF_vars(Enter) /\ WF_vars(Venue)
            /\ SF_vars(resolve_pending_close /\ pc' # "entry")
            /\ SF_vars(\E ts \in Stamps : EvaluateExit(ts, FALSE, TRUE))
            /\ SF_vars(PostClose("accepted") \/ CloseGuardBlocks)

FairSpec == Spec /\ Fairness

-----------------------------------------------------------------------------
(***************************************************************************)
(* Properties                                                              *)
(***************************************************************************)
\* Every file, local and venue record has its type.
TypeOK ==
  /\ orders \in [OrderId -> Order] /\ held \in Nat
  /\ pos \in Position /\ counter \in [Days -> Nat] /\ ledger \in Seq(Outcome)
  /\ torn \in {"no", "line", "newline"}
  /\ result \in OrderResult
  /\ pc \in {"idle", "entry"} \cup SettleSteps \cup EntrySteps
  /\ stage \in {"none", "live", "refused"}
  /\ cur \in OrderId \cup {NoOrder} /\ ans \in Answer
  /\ submit \in SubmitState /\ rec \in RecStatus
  /\ day \in Days /\ candle \in 1..MaxCandle /\ crashes \in 0..MaxCrash

Recorded(o) == \E i \in DOMAIN ledger : ledger[i].order = o

\* A close the venue may still fill or has filled.
LiveClose(o) == orders[o].kind = "close" /\ orders[o].status \in Working \cup Filled

\* Write-ahead of the close (live_position_kernel.py:433-437): whatever is
\* interrupted, a close that is live or filled at the venue is the id the
\* open position's file names, or its outcome is already in the ledger.
CloseAccounted ==
  \A o \in OrderId : LiveClose(o) =>
      Recorded(o) \/ (pos.open /\ pos.closeId = o)

\* The kernel never fabricates an outcome: each ledger record belongs to a
\* close order of the venue and claims no more than it executed.
LedgerReal ==
  \A i \in DOMAIN ledger :
     LET o == ledger[i].order
     IN  /\ orders[o].kind = "close"
         /\ ledger[i].qty \in 1..orders[o].executed
         /\ ledger[i].pnl = ledger[i].qty * orders[o].move

BookedCloses == {o \in OrderId : Recorded(o)}

\* A close is booked once, but for the one that a crash between the append and
\* the clearing of the file makes the next cycle settle again: each crash costs
\* the daily loss at most one double count, however often the close is retried.
OneDuplicatePerCrash == Len(ledger) <= Cardinality(BookedCloses) + crashes

\* A ledger whose tail a crash cut takes no outcome any more.  The position it
\* was cut for stays in the file with it, so that no entry is begun on a daily
\* loss that cannot be raised.
TornLedgerStopsEntries == torn # "no" => pos.open /\ pc \notin EntrySteps

\* No day's budget is overrun, even when midnight falls between the guard's
\* count_today and record_submission.
DailyBudget == \A d \in Days : counter[d] <= MaxDaily

EntryOrders == {o \in OrderId : orders[o].kind = "entry"}

\* Every entry the venue took is counted, answered or not, except the one a
\* crash cut off between the POST and record_submission.
BudgetCoversVenue ==
  Cardinality(EntryOrders) <=
    SumFunction(counter) + crashes
      + (IF pc \in {"entry_resolve", "record"} THEN 1 ELSE 0)

\* When an entry is sent, the daily-loss breaker has seen the loss of every
\* close the venue filled, and today's total is inside the limit.
EntrySeesLosses ==
  pc = "post" => /\ \A o \in OrderId : LiveClose(o) => Recorded(o)
                 /\ RealizedOn(day) > -LossLimit

\* The live stage implements LivePosition: whatever cycles, answers, retries
\* and crashes do, the file, the venue's closes and the ledger change only as
\* the kernel's docstring promises (live_position_kernel.py:1-16).
LiveCloses == {o \in OrderId : LiveClose(o)}
ExecutedCloses == {o \in OrderId : orders[o].kind = "close" /\ orders[o].executed > 0}

Kernel == INSTANCE LivePosition WITH
  open <- pos.open, pending <- pos.closeId,
  live <- LiveCloses, done <- ExecutedCloses, booked <- BookedCloses

ImplementsLivePosition == Kernel!Spec

\* Where orders fill whole (Size = 1), the tracked quantity is on the venue's
\* book until the pending close takes it off: no second close goes out.
TrackedIsHeld ==
  pos.open => pos.qty <= held + (IF pos.closeId = NoOrder THEN 0
                                 ELSE orders[pos.closeId].executed)

\* Two things alone strand a tracked position: a crash inside the append of its
\* outcome, and the bot's own close guard, when it refuses again and again.
\* Otherwise it is closed, in refused stages too, through lost answers, failed
\* queries, expired closes and every other crash.
OpenEventuallyClosed ==
  pos.open ~> (~pos.open \/ torn # "no" \/ pc = "close_blocked")

\* live_position_kernel.py:6-9: the kernel "reads the actual close fill back
\* from the exchange [...] and feeds the L1 live P&L ledger".
EveryCloseFillReachesLedger ==
  \A o \in OrderId : orders[o].kind = "close" /\ orders[o].executed > 0 =>
      Recorded(o) \/ (pos.open /\ pos.closeId = o)

-----------------------------------------------------------------------------
(***************************************************************************)
(* The inductive invariant behind the safety properties: what the runner's *)
(* program counter says of the file, the book and the ledger.              *)
(***************************************************************************)
\* An id is on the book exactly when it has a kind, and the pending id is
\* never an entry's.
BookOK ==
  /\ \A o \in OrderId : orders[o].kind = "none" <=> orders[o].status = "ABSENT"
  /\ ~pos.open => pos.closeId = NoOrder
  /\ pos.closeId # NoOrder => orders[pos.closeId].kind # "entry"

\* From the write-ahead to the clearing, the file names the close in hand.
ClosingSteps == SettleSteps \ {"settle", "evaluate"}

CloseInHand ==
  /\ pc \in ClosingSteps => pos.open /\ cur \in OrderId /\ pos.closeId = cur
  /\ pc = "evaluate" => pos.open /\ pos.closeId = NoOrder
  /\ pc \in {"close_post", "close_failed", "close_blocked"} =>
        orders[cur].status = "ABSENT"
  /\ pc = "ledger" => /\ ans.executed \in 1..orders[cur].executed
                      /\ ans.move = orders[cur].move
                      /\ orders[cur].kind = "close"
  /\ pc = "clear" => /\ Recorded(cur) /\ orders[cur].executed > 0
                     /\ torn = "no"

\* An entry is made while nothing is tracked, with an unused id.
EntryInHand ==
  /\ pc \in EntrySteps => ~pos.open /\ cur \in OrderId
  /\ pc \in {"guard", "post"} => orders[cur].status = "ABSENT"
  /\ pc = "reconcile" => result.order \in OrderId
  /\ pc \in {"post", "entry_resolve", "record"} => counter[day] < MaxDaily
  /\ \A d \in Days : d > day => counter[d] = 0

TornKeepsPosition == torn # "no" => pos.open

IInv == /\ TypeOK /\ BookOK /\ CloseInHand /\ EntryInHand
        /\ CloseAccounted /\ LedgerReal /\ TornKeepsPosition /\ DailyBudget

\* A pending close that is in the ledger and not on its way to Clear: a crash
\* was paid for it, and the next settlement books it again.
BookedAgain ==
  pc # "clear" /\ pos.closeId \in OrderId /\ Recorded(pos.closeId)

BookedInv == /\ IsFiniteSet(BookedCloses)
             /\ Len(ledger) + (IF BookedAgain THEN 1 ELSE 0)
                  <= Cardinality(BookedCloses) + crashes

\* The entry that the venue may have taken and the counter does not show yet.
InFlight == IF pc \in {"entry_resolve", "record"} THEN {cur} ELSE {}

\* Every other entry is counted, or a crash cut it off: at most one a crash.
EntriesCounted ==
  /\ IsFiniteSet(EntryOrders)
  /\ Cardinality(EntryOrders \ InFlight) <= SumFunction(counter) + crashes

\* No outcome is booked ahead of the day, so that a guard passed before
\* midnight holds after it.
LossesSeen ==
  /\ \A i \in DOMAIN ledger : ledger[i].day <= day
  /\ pc = "post" => LossLimit > 0 /\ RealizedOn(day) > -LossLimit

LimitsInv == EntriesCounted /\ LossesSeen

\* Where orders fill whole, an order that executed is done, and nothing but
\* the pending close takes from the position a reconciled entry was read as.
WholeFills == \A o \in OrderId : orders[o].status # "FILLED" => orders[o].executed = 0

AnswerHeld ==
  pc = "open" /\ rec = "RECONCILED" /\ ans.status \in Filled => ans.executed <= held

HeldInv == WholeFills /\ AnswerHeld /\ TrackedIsHeld
=============================================================================
