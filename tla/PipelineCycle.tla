---------------------------- MODULE PipelineCycle ----------------------------
(***************************************************************************)
(* One pipeline cycle after another: the scheduler, the orchestrator and   *)
(* the agents (pipeline/, scheduler/loop.py, run_scheduler.py).            *)
(*                                                                         *)
(* What the agents compute is left to the modules of their components;     *)
(* kept here is the control that joins them: which stage halts the trade   *)
(* path, which positions a cycle settles, what counts as a trade, and the  *)
(* exit code.  A position kind is a position file of its own.  Nothing is  *)
(* counted, so the state space is finite without a bound.                  *)
(***************************************************************************)
EXTENDS Integers, FiniteSets

CONSTANTS Configs   \* the settings an operator may restart the runner with

Live == {"off", "partial", "full"}       \* the LIVE_STRATEGY_* settings
Testnet == {"off", "flag", "confirmed"}
Config == [live : Live, legacy : BOOLEAN, testnet : Testnet,
           multibook : BOOLEAN, routing : BOOLEAN]

ASSUME ConfigAssumption == Configs \subseteq Config /\ Configs # {}

VARIABLES
  config,     \* settings, read when the process starts
  position,   \* the kinds with an open position (files)
  pc,         \* what the runner does next
  status,     \* StageResult.status of each stage of this cycle
  synthetic,  \* this cycle's market data is not real
  verdict,    \* ctx.verdict: "none" until validation has set it
  order,      \* what became of this cycle's order
  traded,     \* PipelineRun.trade_executed
  evaluated,  \* the kinds whose exits this cycle has evaluated
  shadowed,   \* a counterfactual was recorded for this cycle's signal
  exit        \* the exit code of the last cycle

vars == <<config, position, pc, status, synthetic, verdict, order, traded,
          evaluated, shadowed, exit>>

Stage == {"data", "research", "validation", "strategy_routing", "trading", "feedback"}
Kind == {"single", "books", "live"}
StageStatus == {"none", "OK", "DEGRADED", "SKIPPED", "BLOCKED", "ERROR"}

EXIT_OK == 0
EXIT_NO_TRADE == 2
EXIT_SAFETY_BLOCK == 10
EXIT_UPSTREAM_ERROR == 20
EXIT_TRADING_ERROR == 30
EXIT_ALREADY_RUNNING == 40
EXIT_FEEDBACK_ERROR == 50
UNHEALTHY_CODES == {EXIT_SAFETY_BLOCK, EXIT_UPSTREAM_ERROR, EXIT_TRADING_ERROR,
                    EXIT_ALREADY_RUNNING, EXIT_FEEDBACK_ERROR}
is_healthy(code) == code \notin UNHEALTHY_CODES

Init ==
  /\ config \in Configs /\ position = {} /\ pc = "idle"
  /\ status = [s \in Stage |-> "none"] /\ synthetic = FALSE /\ verdict = "none"
  /\ order = "none" /\ traded = FALSE /\ evaluated = {} /\ shadowed = FALSE
  /\ exit = EXIT_NO_TRADE

-----------------------------------------------------------------------------
(***************************************************************************)
(* The runner.  A cycle starts with an empty PipelineContext; another run  *)
(* that holds the lock costs it the cycle.                                 *)
(***************************************************************************)
StartCycle ==
  /\ pc = "idle"
  /\ pc' = "data"
  /\ status' = [s \in Stage |-> "none"] /\ synthetic' = FALSE /\ verdict' = "none"
  /\ order' = "none" /\ traded' = FALSE /\ evaluated' = {} /\ shadowed' = FALSE
  /\ UNCHANGED <<config, position, exit>>

LockHeld ==
  /\ pc = "idle"
  /\ exit' = EXIT_ALREADY_RUNNING /\ evaluated' = {}
  /\ UNCHANGED <<config, position, pc, status, synthetic, verdict, order, traded, shadowed>>

\* The operator edits the environment and restarts the runner.
Reconfigure ==
  /\ pc = "idle"
  /\ config' \in Configs
  /\ UNCHANGED <<position, pc, status, synthetic, verdict, order, traded,
                 evaluated, shadowed, exit>>

-----------------------------------------------------------------------------
(***************************************************************************)
(* Pre-trade stages.  The run wrapper turns a raise into an ERROR that is  *)
(* fatal unless the agent is advisory; every BLOCKED here is fatal.        *)
(***************************************************************************)
FatalOnError == Stage \ {"strategy_routing", "feedback"}

\* Mutant: only a BLOCKED stage halts.
MutHalts(s, st) == s \in FatalOnError /\ st = "BLOCKED"

halts(s, st) == s \in FatalOnError /\ st \in {"ERROR", "BLOCKED"}

After(s, st, next) == IF halts(s, st) THEN "feedback" ELSE next

\* The stage's result, and the trading stage skipped if it halts.
Finish(s, st, next) ==
  /\ pc' = After(s, st, next)
  /\ status' = [status EXCEPT ![s] = st,
                              !["trading"] = IF halts(s, st) /\ s # "trading"
                                             THEN "SKIPPED" ELSE @]

Data ==
  /\ pc = "data"
  /\ \E st \in {"OK", "DEGRADED", "BLOCKED", "ERROR"} :
       Finish("data", st, "research") /\ synthetic' = (st = "DEGRADED")
  /\ UNCHANGED <<config, position, verdict, order, traded, evaluated, shadowed, exit>>

Research ==
  /\ pc = "research"
  /\ \E st \in {"OK", "BLOCKED", "ERROR"} : Finish("research", st, "validation")
  /\ UNCHANGED <<config, position, synthetic, verdict, order, traded, evaluated,
                 shadowed, exit>>

AfterValidation == IF config.routing THEN "strategy_routing" ELSE "trading"

\* run_data_health_check refuses synthetic and fallback market data (the
\* defaults of BLOCK_*_DATA_FOR_TRADING); every other check of it and of
\* run_risk_guard may refuse.
Verdicts == IF synthetic THEN {"deny"} ELSE {"allow", "deny"}

Validation ==
  /\ pc = "validation"
  /\ \/ \E v \in Verdicts :
          /\ verdict' = v
          /\ Finish("validation", IF v = "allow" THEN "OK" ELSE "DEGRADED", AfterValidation)
     \/ verdict' = verdict /\ Finish("validation", "ERROR", AfterValidation)
  /\ UNCHANGED <<config, position, synthetic, order, traded, evaluated, shadowed, exit>>

StrategyRouting ==
  /\ pc = "strategy_routing"
  /\ \E st \in {"OK", "ERROR"} : Finish("strategy_routing", st, "trading")
  /\ UNCHANGED <<config, position, synthetic, verdict, order, traded, evaluated,
                 shadowed, exit>>

-----------------------------------------------------------------------------
(***************************************************************************)
(* Trading                                                                 *)
(***************************************************************************)
_live_strategy_requested == config.live # "off"

resolve_execution_stage ==
  CASE config.legacy -> "refused"
    [] ~config.legacy /\ _live_strategy_requested ->
         IF config.live = "full" THEN "live" ELSE "refused"
    [] ~config.legacy /\ ~_live_strategy_requested ->
         CASE config.testnet = "flag" -> "refused"
           [] config.testnet = "confirmed" -> "signed_testnet"
           [] config.testnet = "off" -> "paper"

execution_stage == resolve_execution_stage

\* The position file of the stage, if it has one.
StageKind(stage) ==
  CASE stage = "paper" -> IF config.multibook THEN {"books"} ELSE {"single"}
    [] stage = "live" -> {"live"}
    [] OTHER -> {}

\* Mutant: a refused stage settles nothing.
MutSettlesOnRefusal == FALSE

SettlesOnRefusal == _live_strategy_requested /\ "live" \in position

\* _settle_live_before_refusal swallows its own failure.
Refuse ==
  /\ pc = "trading" /\ execution_stage = "refused"
  /\ \/ /\ SettlesOnRefusal
        /\ evaluated' = evaluated \cup {"live"}
        /\ position' \in {position, position \ {"live"}}
     \/ UNCHANGED <<evaluated, position>>
  /\ Finish("trading", "BLOCKED", "feedback")
  /\ UNCHANGED <<config, synthetic, verdict, order, traded, shadowed, exit>>

\* Settle-first.  Some of the books may close and some stay, so an
\* evaluated kind may stay open.
Settle ==
  /\ pc = "trading" /\ execution_stage # "refused"
  /\ evaluated' = StageKind(execution_stage)
  /\ position' \in {position, position \ StageKind(execution_stage)}
  /\ pc' = "entry"
  /\ UNCHANGED <<config, status, synthetic, verdict, order, traded, shadowed, exit>>

\* Mutant: the gate counts the single paper slot at every stage.
MutRoomFor(stage) == "single" \notin position

\* count_open_positions against max_open_positions: books have caps of their
\* own and may be joined; a testnet position is not counted.
RoomFor(stage) == StageKind(stage) \in {{}, {"books"}} \/ StageKind(stage) \cap position = {}

OrderOutcome(stage) == IF stage = "paper" THEN {"filled"} ELSE {"submitted", "unresolved"}

\* The bridge or the drive admits an order only under the verdict and with
\* room; the executor, the final guards and the venue may still refuse it.
\* A book is opened within the walk, or refused by the kernel.
Entry ==
  /\ pc = "entry"
  /\ \E o \in {"none"} \cup (IF verdict = "allow" /\ RoomFor(execution_stage)
                             THEN OrderOutcome(execution_stage) ELSE {}) :
       /\ order' = o
       /\ position' \in IF o = "filled" /\ config.multibook
                       THEN {position, position \cup {"books"}} ELSE {position}
  /\ pc' = "lifecycle"
  /\ UNCHANGED <<config, status, synthetic, verdict, traded, evaluated, shadowed, exit>>

\* Mutant: only the statuses of the paper engine count as a trade.
MutTradeExecuted == order = "filled"

trade_executed == order \in {"filled", "submitted"}

\* A counterfactual is best-effort.  A live position opens from any order
\* that was performed, when its fill can be read.
Lifecycle ==
  /\ pc = "lifecycle"
  /\ shadowed' \in IF trade_executed THEN {FALSE} ELSE BOOLEAN
  /\ position' \in CASE execution_stage = "paper" /\ ~config.multibook /\ order = "filled"
                          -> {position \cup {"single"}, position}
                     [] execution_stage = "live" /\ order # "none" /\ "live" \notin position
                          -> {position \cup {"live"}, position}
                     [] OTHER -> {position}
  /\ traded' = trade_executed
  /\ Finish("trading", IF verdict = "allow" THEN "OK" ELSE "DEGRADED", "feedback")
  /\ UNCHANGED <<config, synthetic, verdict, order, evaluated, exit>>

\* Any call of the stage raises: the results so far are lost, the files stay.
TradingRaises ==
  /\ pc \in {"trading", "entry", "lifecycle"} /\ (pc = "trading" => execution_stage # "refused")
  /\ Finish("trading", "ERROR", "feedback")
  /\ UNCHANGED <<config, position, synthetic, verdict, order, traded, evaluated,
                 shadowed, exit>>

-----------------------------------------------------------------------------
(***************************************************************************)
(* Feedback always runs; the exit code comes from the first stage, in      *)
(* order, that is worth one.                                               *)
(***************************************************************************)
Feedback ==
  /\ pc = "feedback"
  /\ \E st \in {"OK", "ERROR"} : Finish("feedback", st, "report")
  /\ UNCHANGED <<config, position, synthetic, verdict, order, traded, evaluated,
                 shadowed, exit>>

Order(s) == CASE s = "data" -> 1 [] s = "research" -> 2 [] s = "validation" -> 3
              [] s = "strategy_routing" -> 4 [] s = "trading" -> 5 [] s = "feedback" -> 6

Coded(s) == halts(s, status[s]) \/ (s = "feedback" /\ status[s] = "ERROR")

exit_code_for ==
  IF \A s \in Stage : ~Coded(s)
  THEN IF traded THEN EXIT_OK ELSE EXIT_NO_TRADE
  ELSE LET s == CHOOSE x \in Stage : Coded(x) /\ \A y \in Stage : Coded(y) => Order(x) <= Order(y)
       IN  CASE status[s] = "BLOCKED" -> EXIT_SAFETY_BLOCK
             [] status[s] = "ERROR" /\ s = "feedback" -> EXIT_FEEDBACK_ERROR
             [] status[s] = "ERROR" /\ s = "trading" -> EXIT_TRADING_ERROR
             [] OTHER -> EXIT_UPSTREAM_ERROR

Report ==
  /\ pc = "report"
  /\ exit' = exit_code_for
  /\ pc' = "idle"
  /\ UNCHANGED <<config, position, status, synthetic, verdict, order, traded,
                 evaluated, shadowed>>

-----------------------------------------------------------------------------
Next ==
  \/ StartCycle \/ LockHeld \/ Reconfigure
  \/ Data \/ Research \/ Validation \/ StrategyRouting
  \/ Refuse \/ Settle \/ Entry \/ Lifecycle \/ TradingRaises
  \/ Feedback \/ Report

Spec == Init /\ [][Next]_vars

\* The runner goes on by itself; a lock that is held or a stage that fails
\* is not failing for ever.
Running == StartCycle \/ Data \/ Research \/ Validation \/ StrategyRouting
             \/ Refuse \/ Settle \/ Entry \/ Lifecycle \/ Feedback \/ Report
Passes(s) == status'[s] \in {"OK", "DEGRADED"}

Fairness ==
  /\ WF_vars(Running)
  /\ SF_vars(StartCycle)
  /\ SF_vars(Data /\ Passes("data"))
  /\ SF_vars(Research /\ Passes("research"))
  /\ SF_vars(Validation /\ Passes("validation"))
  /\ SF_vars(Settle)
  /\ SF_vars(Refuse /\ (SettlesOnRefusal => "live" \in evaluated'))

LiveSpec == Spec /\ Fairness

-----------------------------------------------------------------------------
TypeOK ==
  /\ config \in Configs /\ position \subseteq Kind
  /\ pc \in {"idle", "data", "research", "validation", "strategy_routing", "trading",
             "entry", "lifecycle", "feedback", "report"}
  /\ status \in [Stage -> StageStatus] /\ synthetic \in BOOLEAN
  /\ verdict \in {"none", "allow", "deny"}
  /\ order \in {"none", "filled", "submitted", "unresolved"} /\ traded \in BOOLEAN
  /\ evaluated \subseteq Kind /\ shadowed \in BOOLEAN
  /\ exit \in UNHEALTHY_CODES \cup {EXIT_OK, EXIT_NO_TRADE}

\* An order leaves only in a cycle whose data was real and whose data,
\* research and validation stages all came through: whatever a stage raised,
\* blocked or degraded on, no later stage trades on it.
OrderNeedsCleanCycle ==
  order # "none" =>
    /\ \A s \in {"data", "research", "validation"} : status[s] = "OK"
    /\ ~synthetic

\* A cycle that ends with a healthy exit code completed: no fatal stage
\* halted, trading was not skipped and feedback was not lost (exit_codes.py:
\* an error must never look like a clean success to the task scheduler).
HealthyMeansCompleted ==
  pc = "idle" /\ is_healthy(exit) /\ status["data"] # "none" =>
    /\ status["trading"] \in {"OK", "DEGRADED"}
    /\ status["feedback"] = "OK"
    /\ \A s \in FatalOnError : status[s] \notin {"ERROR", "BLOCKED"}

\* At most one single-slot position and one live position: an order of a
\* stage with a single slot is sent only after this cycle has found the slot
\* of THAT stage empty.
OrderNeedsEmptySlot ==
  order # "none" /\ pc = "lifecycle" =>
    \A k \in StageKind(execution_stage) \ {"books"} : k \notin position /\ k \in evaluated

\* While the operator keeps asking for the live stage, an open live position
\* has its exits evaluated again and again, also while every cycle is refused
\* (kill switch, cleared notional limit, legacy flags).
RequestedLiveIsServed ==
  <>[](_live_strategy_requested) => []<>("live" \notin position \/ "live" \in evaluated)

\* What exit code 2 says (exit_codes.py:8), "normal, no trade this cycle", is
\* true up to a submit whose answer was lost: the order may rest at the venue.
NoTradeExitMeansNoOrder ==
  pc = "idle" /\ exit = EXIT_NO_TRADE => order \in {"none", "unresolved"}

-----------------------------------------------------------------------------
(***************************************************************************)
(* The inductive invariant behind the safety properties.                   *)
(***************************************************************************)
PreTrade == {"data", "research", "validation"}

Clean == (\A s \in PreTrade : status[s] = "OK") /\ ~synthetic

\* What the stages before pc have left; a verdict is set once, on clean input.
StagesSoFar ==
  /\ pc \in {"research", "validation"} =>
       status["data"] \in {"OK", "DEGRADED"} /\ (synthetic <=> status["data"] = "DEGRADED")
  /\ pc = "validation" => status["research"] = "OK"
  /\ pc \in PreTrade => verdict = "none"
  /\ verdict = "allow" => Clean

\* An order is a matter of the steps after the entry.
OrderSoFar ==
  /\ pc \in PreTrade \cup {"strategy_routing", "trading", "entry"} => order = "none"
  /\ order # "none" => verdict = "allow"
  /\ pc = "entry" => evaluated = StageKind(execution_stage)

Halted == \E s \in FatalOnError : halts(s, status[s])

\* A cycle that reaches its end has a trading result, or halted.
EndSoFar ==
  /\ pc \in {"feedback", "report"} =>
       /\ status["trading"] \in {"OK", "DEGRADED"} \/ Halted
       /\ status["trading"] \in {"OK", "DEGRADED"} => traded = trade_executed
  /\ pc = "report" => status["feedback"] \in {"OK", "ERROR"}

IInv == /\ TypeOK /\ StagesSoFar /\ OrderSoFar /\ EndSoFar /\ OrderNeedsCleanCycle
        /\ OrderNeedsEmptySlot /\ HealthyMeansCompleted /\ NoTradeExitMeansNoOrder
=============================================================================
