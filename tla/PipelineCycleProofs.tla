------------------------- MODULE PipelineCycleProofs -------------------------
(***************************************************************************)
(* IInv is an inductive invariant of PipelineCycle, whatever settings the  *)
(* operator may choose from.                                               *)
(***************************************************************************)
EXTENDS PipelineCycle, TLAPS

USE ConfigAssumption

\* The first start satisfies IInv.
LEMMA InitIInv == Init => IInv
<1> SUFFICES ASSUME Init PROVE IInv
  OBVIOUS
<1> USE DEF Init
<1>1. TypeOK
  BY DEF TypeOK, StageStatus
<1>2. StagesSoFar /\ OrderSoFar /\ EndSoFar
  BY DEF StagesSoFar, OrderSoFar, EndSoFar, PreTrade
<1>3. OrderNeedsCleanCycle /\ OrderNeedsEmptySlot
  BY DEF OrderNeedsCleanCycle, OrderNeedsEmptySlot
<1>4. HealthyMeansCompleted /\ NoTradeExitMeansNoOrder
  BY DEF HealthyMeansCompleted, NoTradeExitMeansNoOrder, Stage
<1> QED
  BY <1>1, <1>2, <1>3, <1>4 DEF IInv

\* Recording a stage's result touches that stage and the trading stage only.
LEMMA FinishFacts ==
  ASSUME TypeOK, NEW s \in Stage, NEW st \in StageStatus \ {"none"}, NEW next, Finish(s, st, next)
  PROVE  /\ status' \in [Stage -> StageStatus] /\ status'[s] = st
         /\ \A x \in Stage \ {s, "trading"} : status'[x] = status[x]
         /\ s # "trading" => status'["trading"] = IF halts(s, st) THEN "SKIPPED"
                                                  ELSE status["trading"]
         /\ pc' = IF halts(s, st) THEN "feedback" ELSE next
  BY DEF Finish, After, TypeOK, Stage, StageStatus

\* Every setting has the type of the settings.
LEMMA ConfigType == TypeOK => config \in Config
  BY DEF TypeOK

\* A cycle starts with an empty context.
LEMMA StartCycleStep == ASSUME IInv, StartCycle PROVE IInv'
<1>1. TypeOK'
  BY ConfigType DEF StartCycle, IInv, TypeOK, StageStatus
<1>2. StagesSoFar'
  BY ConfigType DEF StartCycle, StagesSoFar
<1>3. OrderSoFar'
  BY ConfigType DEF StartCycle, OrderSoFar
<1>4. EndSoFar'
  BY ConfigType DEF StartCycle, EndSoFar
<1>5. OrderNeedsCleanCycle'
  BY <1>2, <1>3 DEF OrderNeedsCleanCycle, StagesSoFar, OrderSoFar, Clean, PreTrade
<1>6. OrderNeedsEmptySlot'
  BY ConfigType DEF StartCycle, OrderNeedsEmptySlot
<1>7. HealthyMeansCompleted' /\ NoTradeExitMeansNoOrder'
  BY ConfigType DEF StartCycle, HealthyMeansCompleted, NoTradeExitMeansNoOrder
<1> QED
  BY <1>1, <1>2, <1>3, <1>4, <1>5, <1>6, <1>7 DEF IInv

\* A lock that is held costs a cycle its exit code, and nothing else.
LEMMA LockHeldStep == ASSUME IInv, LockHeld PROVE IInv'
<1>1. TypeOK'
  BY ConfigType DEF LockHeld, IInv, TypeOK, UNHEALTHY_CODES
<1>2. StagesSoFar'
  BY ConfigType DEF LockHeld, IInv, StagesSoFar, Clean
<1>3. OrderSoFar'
  BY ConfigType DEF LockHeld, IInv, OrderSoFar
<1>4. EndSoFar'
  BY ConfigType DEF LockHeld, EndSoFar
<1>5. OrderNeedsCleanCycle'
  BY <1>2, <1>3 DEF OrderNeedsCleanCycle, StagesSoFar, OrderSoFar, Clean, PreTrade
<1>6. OrderNeedsEmptySlot'
  BY ConfigType DEF LockHeld, OrderNeedsEmptySlot
<1>7. HealthyMeansCompleted' /\ NoTradeExitMeansNoOrder'
  BY ConfigType DEF LockHeld, HealthyMeansCompleted, NoTradeExitMeansNoOrder,
     is_healthy, UNHEALTHY_CODES, EXIT_ALREADY_RUNNING, EXIT_NO_TRADE
<1> QED
  BY <1>1, <1>2, <1>3, <1>4, <1>5, <1>6, <1>7 DEF IInv

\* The settings change between cycles only.
LEMMA ReconfigureStep == ASSUME IInv, Reconfigure PROVE IInv'
<1>1. TypeOK'
  BY ConfigType DEF Reconfigure, IInv, TypeOK
<1>2. StagesSoFar'
  BY ConfigType DEF Reconfigure, IInv, StagesSoFar, Clean
<1>3. OrderSoFar'
  BY ConfigType DEF Reconfigure, IInv, OrderSoFar
<1>4. EndSoFar'
  BY ConfigType DEF Reconfigure, EndSoFar
<1>5. OrderNeedsCleanCycle'
  BY <1>2, <1>3 DEF OrderNeedsCleanCycle, StagesSoFar, OrderSoFar, Clean, PreTrade
<1>6. OrderNeedsEmptySlot'
  BY ConfigType DEF Reconfigure, OrderNeedsEmptySlot
<1>7. HealthyMeansCompleted' /\ NoTradeExitMeansNoOrder'
  BY ConfigType DEF Reconfigure, IInv, HealthyMeansCompleted, NoTradeExitMeansNoOrder
<1> QED
  BY <1>1, <1>2, <1>3, <1>4, <1>5, <1>6, <1>7 DEF IInv

\* A data stage that degrades is marked synthetic, one that fails halts.
LEMMA DataStep == ASSUME IInv, Data PROVE IInv'
<1>0. PICK st \in {"OK", "DEGRADED", "BLOCKED", "ERROR"},
           next \in {"research", "validation",
                    "strategy_routing", "trading", "feedback", "report"} :
        Finish("data", st, next)
  BY DEF Data, AfterValidation
<1>F. /\ status' \in [Stage -> StageStatus] /\ status'["data"] = st
      /\ \A x \in Stage \ {"data", "trading"} : status'[x] = status[x]
      /\ status'["trading"] = IF halts("data", st) THEN "SKIPPED"
                             ELSE status["trading"]
      /\ pc' = IF halts("data", st) THEN "feedback" ELSE next
  BY <1>0, FinishFacts DEF IInv, Stage, StageStatus
<1>1. TypeOK'
  BY <1>F, <1>0, ConfigType DEF Data, IInv, TypeOK
<1>2. StagesSoFar'
  BY <1>F, <1>0, ConfigType DEF Data, Finish, After, IInv, StagesSoFar, PreTrade,
     Stage, halts, FatalOnError
<1>3. OrderSoFar'
  BY <1>F, <1>0, ConfigType DEF Data, IInv, OrderSoFar, PreTrade
<1>4. EndSoFar'
  BY <1>F, <1>0, ConfigType DEF Data, Finish, After, EndSoFar, Halted, halts, FatalOnError
<1>5. OrderNeedsCleanCycle'
  BY <1>2, <1>3 DEF OrderNeedsCleanCycle, StagesSoFar, OrderSoFar, Clean, PreTrade
<1>6. OrderNeedsEmptySlot'
  BY <1>F, <1>0, ConfigType DEF OrderNeedsEmptySlot
<1>7. HealthyMeansCompleted' /\ NoTradeExitMeansNoOrder'
  BY <1>F, <1>0, ConfigType DEF HealthyMeansCompleted, NoTradeExitMeansNoOrder
<1> QED
  BY <1>1, <1>2, <1>3, <1>4, <1>5, <1>6, <1>7 DEF IInv

\* Research passes, or halts.
LEMMA ResearchStep == ASSUME IInv, Research PROVE IInv'
<1>0. PICK st \in {"OK", "BLOCKED", "ERROR"},
           next \in {"research", "validation",
                    "strategy_routing", "trading", "feedback", "report"} :
        Finish("research", st, next)
  BY DEF Research, AfterValidation
<1>F. /\ status' \in [Stage -> StageStatus] /\ status'["research"] = st
      /\ \A x \in Stage \ {"research", "trading"} : status'[x] = status[x]
      /\ status'["trading"] = IF halts("research", st) THEN "SKIPPED"
                             ELSE status["trading"]
      /\ pc' = IF halts("research", st) THEN "feedback" ELSE next
  BY <1>0, FinishFacts DEF IInv, Stage, StageStatus
<1>1. TypeOK'
  BY <1>F, <1>0, ConfigType DEF Research, IInv, TypeOK
<1>2. StagesSoFar'
  BY <1>F, <1>0, ConfigType DEF Research, IInv, StagesSoFar, PreTrade, Stage, halts,
     FatalOnError
<1>3. OrderSoFar'
  BY <1>F, <1>0, ConfigType DEF Research, IInv, OrderSoFar, PreTrade
<1>4. EndSoFar'
  BY <1>F, <1>0, ConfigType DEF Research, Finish, After, EndSoFar, Halted, halts,
     FatalOnError
<1>5. OrderNeedsCleanCycle'
  BY <1>2, <1>3 DEF OrderNeedsCleanCycle, StagesSoFar, OrderSoFar, Clean, PreTrade
<1>6. OrderNeedsEmptySlot'
  BY <1>F, <1>0, ConfigType DEF OrderNeedsEmptySlot
<1>7. HealthyMeansCompleted' /\ NoTradeExitMeansNoOrder'
  BY <1>F, <1>0, ConfigType DEF HealthyMeansCompleted, NoTradeExitMeansNoOrder
<1> QED
  BY <1>1, <1>2, <1>3, <1>4, <1>5, <1>6, <1>7 DEF IInv

\* Only real data is allowed.
LEMMA ValidationStep == ASSUME IInv, Validation PROVE IInv'
<1>0. PICK st \in {"OK", "DEGRADED", "ERROR"},
           next \in {"research", "validation",
                    "strategy_routing", "trading", "feedback", "report"} :
        Finish("validation", st, next)
  BY DEF Validation, AfterValidation
<1>F. /\ status' \in [Stage -> StageStatus] /\ status'["validation"] = st
      /\ \A x \in Stage \ {"validation", "trading"} : status'[x] = status[x]
      /\ status'["trading"] = IF halts("validation", st) THEN "SKIPPED"
                             ELSE status["trading"]
      /\ pc' = IF halts("validation", st) THEN "feedback" ELSE next
  BY <1>0, FinishFacts DEF IInv, Stage, StageStatus
<1>1. TypeOK'
  BY <1>F, <1>0, ConfigType DEF Validation, IInv, TypeOK, Verdicts
<1>N. pc' \in {"strategy_routing", "trading", "feedback"}
  BY DEF Validation, Finish, After, AfterValidation
<1>V. verdict' = "allow" => ~synthetic /\ st = "OK"
  <2>1. pc = "validation" /\ verdict = "none" /\ st = status'["validation"]
    BY <1>F DEF Validation, IInv, StagesSoFar, PreTrade
  <2>2. CASE \E v \in Verdicts :
               /\ verdict' = v
               /\ Finish("validation", IF v = "allow" THEN "OK" ELSE "DEGRADED", AfterValidation)
    <3>1. PICK v \in Verdicts :
            /\ verdict' = v
            /\ Finish("validation", IF v = "allow" THEN "OK" ELSE "DEGRADED", AfterValidation)
      BY <2>2
    <3>2. CASE v = "allow"
      <4>1. Finish("validation", "OK", AfterValidation) /\ ~synthetic
        BY <3>1, <3>2 DEF Verdicts
      <4>2. status'["validation"] = "OK"
        BY <4>1, FinishFacts DEF IInv, Stage, StageStatus
      <4> QED
        BY <2>1, <4>1, <4>2
    <3>3. CASE v # "allow"
      BY <3>1, <3>3
    <3> QED
      BY <3>2, <3>3
  <2>3. CASE verdict' = verdict
    BY <2>1, <2>3
  <2> QED
    BY <2>2, <2>3 DEF Validation
<1>U. /\ pc = "validation" /\ synthetic' = synthetic
      /\ status'["data"] = status["data"] /\ status'["research"] = status["research"]
  BY <1>F DEF Validation, Stage
<1>2. StagesSoFar'
  <2>1. verdict' = "allow" => Clean'
    <3> SUFFICES ASSUME verdict' = "allow" PROVE Clean'
      OBVIOUS
    <3>1. ~synthetic /\ status'["validation"] = "OK"
      BY <1>F, <1>V
    <3>2. status["data"] = "OK" /\ status["research"] = "OK"
      BY <1>U, <3>1 DEF IInv, StagesSoFar
    <3> QED
      BY <1>U, <3>1, <3>2 DEF Clean, PreTrade
  <2>2. pc' \notin PreTrade
    BY <1>N DEF PreTrade
  <2> QED
    BY <2>1, <2>2 DEF StagesSoFar, PreTrade
<1>3. OrderSoFar'
  BY <1>F, <1>0, ConfigType DEF Validation, IInv, OrderSoFar, PreTrade
<1>4. EndSoFar'
  BY <1>F, <1>0, ConfigType DEF Validation, Finish, After, AfterValidation, EndSoFar,
     Halted, halts, FatalOnError
<1>5. OrderNeedsCleanCycle'
  BY <1>2, <1>3 DEF OrderNeedsCleanCycle, StagesSoFar, OrderSoFar, Clean, PreTrade
<1>6. OrderNeedsEmptySlot'
  BY <1>F, <1>0, ConfigType DEF OrderNeedsEmptySlot
<1>7. HealthyMeansCompleted' /\ NoTradeExitMeansNoOrder'
  BY <1>F, <1>0, ConfigType DEF HealthyMeansCompleted, NoTradeExitMeansNoOrder
<1> QED
  BY <1>1, <1>2, <1>3, <1>4, <1>5, <1>6, <1>7 DEF IInv

\* Routing is advisory.
LEMMA StrategyRoutingStep == ASSUME IInv, StrategyRouting PROVE IInv'
<1>0. PICK st \in {"OK", "ERROR"},
           next \in {"research", "validation",
                    "strategy_routing", "trading", "feedback", "report"} :
        Finish("strategy_routing", st, next)
  BY DEF StrategyRouting, AfterValidation
<1>F. /\ status' \in [Stage -> StageStatus] /\ status'["strategy_routing"] = st
      /\ \A x \in Stage \ {"strategy_routing", "trading"} : status'[x] = status[x]
      /\ status'["trading"] = IF halts("strategy_routing", st) THEN "SKIPPED"
                             ELSE status["trading"]
      /\ pc' = IF halts("strategy_routing", st) THEN "feedback" ELSE next
  BY <1>0, FinishFacts DEF IInv, Stage, StageStatus
<1>1. TypeOK'
  BY <1>F, <1>0, ConfigType DEF StrategyRouting, IInv, TypeOK
<1>2. StagesSoFar'
  BY <1>F, <1>0, ConfigType DEF StrategyRouting, Finish, After, IInv, StagesSoFar,
     Clean, PreTrade, Stage
<1>3. OrderSoFar'
  BY <1>F, <1>0, ConfigType DEF StrategyRouting, IInv, OrderSoFar
<1>4. EndSoFar'
  BY <1>F, <1>0, ConfigType DEF StrategyRouting, Finish, After, EndSoFar, halts,
     FatalOnError
<1>5. OrderNeedsCleanCycle'
  BY <1>2, <1>3 DEF OrderNeedsCleanCycle, StagesSoFar, OrderSoFar, Clean, PreTrade
<1>6. OrderNeedsEmptySlot'
  BY <1>F, <1>0, ConfigType DEF OrderNeedsEmptySlot
<1>7. HealthyMeansCompleted' /\ NoTradeExitMeansNoOrder'
  BY <1>F, <1>0, ConfigType DEF HealthyMeansCompleted, NoTradeExitMeansNoOrder
<1> QED
  BY <1>1, <1>2, <1>3, <1>4, <1>5, <1>6, <1>7 DEF IInv

\* A refused stage makes no order.
LEMMA RefuseStep == ASSUME IInv, Refuse PROVE IInv'
<1>0. PICK st \in {"BLOCKED"},
           next \in {"research", "validation",
                    "strategy_routing", "trading", "feedback", "report"} :
        Finish("trading", st, next)
  BY DEF Refuse, AfterValidation
<1>F. /\ status' \in [Stage -> StageStatus] /\ status'["trading"] = st
      /\ \A x \in Stage \ {"trading"} : status'[x] = status[x]
      /\ pc' = IF halts("trading", st) THEN "feedback" ELSE next
  BY <1>0, FinishFacts DEF IInv, Stage, StageStatus
<1>1. TypeOK'
  BY <1>F, <1>0, ConfigType DEF Refuse, Finish, After, IInv, TypeOK, Kind
<1>2. StagesSoFar'
  BY <1>F, <1>0, ConfigType DEF Refuse, IInv, StagesSoFar, Clean, PreTrade, Stage,
     halts, FatalOnError
<1>3. OrderSoFar'
  BY <1>F, <1>0, ConfigType DEF Refuse, IInv, OrderSoFar
<1>4. EndSoFar'
  BY <1>F, <1>0, ConfigType DEF EndSoFar, Halted, halts, FatalOnError, Stage
<1>5. OrderNeedsCleanCycle'
  BY <1>2, <1>3 DEF OrderNeedsCleanCycle, StagesSoFar, OrderSoFar, Clean, PreTrade
<1>6. OrderNeedsEmptySlot'
  BY <1>F, <1>0, ConfigType DEF OrderNeedsEmptySlot
<1>7. HealthyMeansCompleted' /\ NoTradeExitMeansNoOrder'
  BY <1>F, <1>0, ConfigType DEF HealthyMeansCompleted, NoTradeExitMeansNoOrder
<1> QED
  BY <1>1, <1>2, <1>3, <1>4, <1>5, <1>6, <1>7 DEF IInv

\* The settlement evaluates the kind of the stage.
LEMMA SettleStep == ASSUME IInv, Settle PROVE IInv'
<1>1. TypeOK'
  BY ConfigType DEF Settle, IInv, TypeOK, Kind, StageKind
<1>2. StagesSoFar'
  BY ConfigType DEF Settle, IInv, StagesSoFar, Clean, PreTrade
<1>3. OrderSoFar'
  BY ConfigType DEF Settle, IInv, OrderSoFar, execution_stage,
     resolve_execution_stage, StageKind
<1>4. EndSoFar'
  BY ConfigType DEF Settle, EndSoFar
<1>5. OrderNeedsCleanCycle'
  BY <1>2, <1>3 DEF OrderNeedsCleanCycle, StagesSoFar, OrderSoFar, Clean, PreTrade
<1>6. OrderNeedsEmptySlot'
  BY ConfigType DEF Settle, OrderNeedsEmptySlot
<1>7. HealthyMeansCompleted' /\ NoTradeExitMeansNoOrder'
  BY ConfigType DEF Settle, HealthyMeansCompleted, NoTradeExitMeansNoOrder
<1> QED
  BY <1>1, <1>2, <1>3, <1>4, <1>5, <1>6, <1>7 DEF IInv

\* An order needs the verdict and an empty slot.
LEMMA EntryStep == ASSUME IInv, Entry PROVE IInv'
<1>1. TypeOK'
  BY ConfigType DEF Entry, IInv, TypeOK, Kind, OrderOutcome
<1>2. StagesSoFar'
  BY ConfigType DEF Entry, IInv, StagesSoFar, Clean, PreTrade
<1>3. OrderSoFar'
  BY ConfigType DEF Entry, OrderSoFar, PreTrade
<1>4. EndSoFar'
  BY ConfigType DEF Entry, EndSoFar
<1>5. OrderNeedsCleanCycle'
  BY <1>2, <1>3 DEF OrderNeedsCleanCycle, StagesSoFar, OrderSoFar, Clean, PreTrade
<1>6. OrderNeedsEmptySlot'
  BY ConfigType DEF Entry, IInv, OrderNeedsEmptySlot, OrderSoFar, RoomFor,
     execution_stage, resolve_execution_stage, StageKind, _live_strategy_requested
<1>7. HealthyMeansCompleted' /\ NoTradeExitMeansNoOrder'
  BY ConfigType DEF Entry, HealthyMeansCompleted, NoTradeExitMeansNoOrder
<1> QED
  BY <1>1, <1>2, <1>3, <1>4, <1>5, <1>6, <1>7 DEF IInv

\* The trading result says whether there was a trade.
LEMMA LifecycleStep == ASSUME IInv, Lifecycle PROVE IInv'
<1>0. PICK st \in {"OK", "DEGRADED"},
           next \in {"research", "validation",
                    "strategy_routing", "trading", "feedback", "report"} :
        Finish("trading", st, next)
  BY DEF Lifecycle, AfterValidation
<1>F. /\ status' \in [Stage -> StageStatus] /\ status'["trading"] = st
      /\ \A x \in Stage \ {"trading"} : status'[x] = status[x]
      /\ pc' = IF halts("trading", st) THEN "feedback" ELSE next
  BY <1>0, FinishFacts DEF IInv, Stage, StageStatus
<1>1. TypeOK'
  <2>1. position' \subseteq Kind
    BY DEF Lifecycle, IInv, TypeOK, Kind
  <2>2. traded' \in BOOLEAN /\ shadowed' \in BOOLEAN
    <3>1. traded' = (order \in {"filled", "submitted"})
      BY Zenon DEF Lifecycle, trade_executed
    <3>2. traded' \in BOOLEAN
      BY <3>1
    <3> QED
      BY <3>2 DEF Lifecycle
  <2>3. pc' = "feedback"
    BY <1>0 DEF Lifecycle, Finish, After
  <2> QED
    BY <1>F, <2>1, <2>2, <2>3 DEF Lifecycle, IInv, TypeOK
<1>2. StagesSoFar'
  BY <1>F, <1>0, ConfigType DEF Lifecycle, Finish, After, IInv, StagesSoFar, Clean,
     PreTrade, Stage
<1>3. OrderSoFar'
  BY <1>F, <1>0, ConfigType DEF Lifecycle, Finish, After, IInv, OrderSoFar, PreTrade
<1>4. EndSoFar'
  BY <1>F, <1>0, ConfigType DEF Lifecycle, Finish, After, EndSoFar, trade_executed
<1>5. OrderNeedsCleanCycle'
  BY <1>2, <1>3 DEF OrderNeedsCleanCycle, StagesSoFar, OrderSoFar, Clean, PreTrade
<1>6. OrderNeedsEmptySlot'
  BY <1>F, <1>0, ConfigType DEF OrderNeedsEmptySlot
<1>7. HealthyMeansCompleted' /\ NoTradeExitMeansNoOrder'
  BY <1>F, <1>0, ConfigType DEF HealthyMeansCompleted, NoTradeExitMeansNoOrder
<1> QED
  BY <1>1, <1>2, <1>3, <1>4, <1>5, <1>6, <1>7 DEF IInv

\* A raise is an ERROR of the trading stage.
LEMMA TradingRaisesStep == ASSUME IInv, TradingRaises PROVE IInv'
<1>0. PICK st \in {"ERROR"},
           next \in {"research", "validation",
                    "strategy_routing", "trading", "feedback", "report"} :
        Finish("trading", st, next)
  BY DEF TradingRaises, AfterValidation
<1>F. /\ status' \in [Stage -> StageStatus] /\ status'["trading"] = st
      /\ \A x \in Stage \ {"trading"} : status'[x] = status[x]
      /\ pc' = IF halts("trading", st) THEN "feedback" ELSE next
  BY <1>0, FinishFacts DEF IInv, Stage, StageStatus
<1>1. TypeOK'
  BY <1>F, <1>0, ConfigType DEF TradingRaises, IInv, TypeOK
<1>2. StagesSoFar'
  BY <1>F, <1>0, ConfigType DEF TradingRaises, IInv, StagesSoFar, Clean, PreTrade,
     Stage, halts, FatalOnError
<1>3. OrderSoFar'
  BY <1>F, <1>0, ConfigType DEF TradingRaises, Finish, After, IInv, OrderSoFar, PreTrade
<1>4. EndSoFar'
  BY <1>F, <1>0, ConfigType DEF EndSoFar, Halted, halts, FatalOnError, Stage
<1>5. OrderNeedsCleanCycle'
  BY <1>2, <1>3 DEF OrderNeedsCleanCycle, StagesSoFar, OrderSoFar, Clean, PreTrade
<1>6. OrderNeedsEmptySlot'
  BY <1>F, <1>0, ConfigType DEF OrderNeedsEmptySlot
<1>7. HealthyMeansCompleted' /\ NoTradeExitMeansNoOrder'
  BY <1>F, <1>0, ConfigType DEF HealthyMeansCompleted, NoTradeExitMeansNoOrder
<1> QED
  BY <1>1, <1>2, <1>3, <1>4, <1>5, <1>6, <1>7 DEF IInv

\* Feedback never halts.
LEMMA FeedbackStep == ASSUME IInv, Feedback PROVE IInv'
<1>0. PICK st \in {"OK", "ERROR"},
           next \in {"research", "validation",
                    "strategy_routing", "trading", "feedback", "report"} :
        Finish("feedback", st, next)
  BY DEF Feedback, AfterValidation
<1>F. /\ status' \in [Stage -> StageStatus] /\ status'["feedback"] = st
      /\ \A x \in Stage \ {"feedback", "trading"} : status'[x] = status[x]
      /\ status'["trading"] = IF halts("feedback", st) THEN "SKIPPED"
                             ELSE status["trading"]
      /\ pc' = IF halts("feedback", st) THEN "feedback" ELSE next
  BY <1>0, FinishFacts DEF IInv, Stage, StageStatus
<1>1. TypeOK'
  BY <1>F, <1>0, ConfigType DEF Feedback, IInv, TypeOK
<1>2. StagesSoFar'
  BY <1>F, <1>0, ConfigType DEF Feedback, Finish, After, IInv, StagesSoFar, Clean,
     PreTrade, Stage
<1>3. OrderSoFar'
  BY <1>F, <1>0, ConfigType DEF Feedback, Finish, After, IInv, OrderSoFar, PreTrade
<1>4. EndSoFar'
  BY <1>F, <1>0, ConfigType DEF Feedback, IInv, EndSoFar, Halted, halts, FatalOnError,
     trade_executed
<1>5. OrderNeedsCleanCycle'
  BY <1>2, <1>3 DEF OrderNeedsCleanCycle, StagesSoFar, OrderSoFar, Clean, PreTrade
<1>6. OrderNeedsEmptySlot'
  BY <1>F, <1>0, ConfigType DEF OrderNeedsEmptySlot
<1>7. HealthyMeansCompleted' /\ NoTradeExitMeansNoOrder'
  BY <1>F, <1>0, ConfigType DEF HealthyMeansCompleted, NoTradeExitMeansNoOrder
<1> QED
  BY <1>1, <1>2, <1>3, <1>4, <1>5, <1>6, <1>7 DEF IInv

\* A healthy code is earned: no stage of the cycle is worth an unhealthy one.
LEMMA ExitFacts ==
  /\ exit_code_for \in UNHEALTHY_CODES \cup {EXIT_OK, EXIT_NO_TRADE}
  /\ exit_code_for \notin UNHEALTHY_CODES => \A s \in Stage : ~Coded(s)
  /\ exit_code_for = EXIT_NO_TRADE => ~traded
<1>1. CASE \A s \in Stage : ~Coded(s)
  BY <1>1 DEF exit_code_for, EXIT_OK, EXIT_NO_TRADE
<1>2. CASE ~(\A s \in Stage : ~Coded(s))
  <2> DEFINE s == CHOOSE x \in Stage : Coded(x) /\ \A y \in Stage : Coded(y) => Order(x) <= Order(y)
  <2>1. exit_code_for = CASE status[s] = "BLOCKED" -> EXIT_SAFETY_BLOCK
             [] status[s] = "ERROR" /\ s = "feedback" -> EXIT_FEEDBACK_ERROR
             [] status[s] = "ERROR" /\ s = "trading" -> EXIT_TRADING_ERROR
             [] OTHER -> EXIT_UPSTREAM_ERROR
    BY <1>2, Zenon DEF exit_code_for
  <2> HIDE DEF s
  <2>2. exit_code_for \in {EXIT_SAFETY_BLOCK, EXIT_FEEDBACK_ERROR, EXIT_TRADING_ERROR,
                           EXIT_UPSTREAM_ERROR}
    BY <2>1
  <2> QED
    BY <2>2 DEF UNHEALTHY_CODES, EXIT_NO_TRADE, EXIT_SAFETY_BLOCK,
       EXIT_UPSTREAM_ERROR, EXIT_TRADING_ERROR, EXIT_FEEDBACK_ERROR
<1> QED
  BY <1>1, <1>2

\* The exit code is the verdict on the whole cycle.
LEMMA ReportStep == ASSUME IInv, Report PROVE IInv'
<1> USE DEF Report
<1>1. TypeOK'
  BY ExitFacts DEF IInv, TypeOK
<1>2. StagesSoFar' /\ OrderSoFar' /\ EndSoFar' /\ OrderNeedsCleanCycle' /\ OrderNeedsEmptySlot'
  BY DEF IInv, StagesSoFar, Clean, PreTrade, OrderSoFar, EndSoFar,
     OrderNeedsCleanCycle, OrderNeedsEmptySlot
<1>3. exit' \notin UNHEALTHY_CODES =>
        /\ status["trading"] \in {"OK", "DEGRADED"} /\ status["feedback"] = "OK"
        /\ \A s \in FatalOnError : ~halts(s, status[s])
        /\ traded = trade_executed
  BY ExitFacts DEF IInv, EndSoFar, Halted, Coded, FatalOnError, Stage
<1>4. HealthyMeansCompleted'
  BY <1>3 DEF HealthyMeansCompleted, is_healthy, halts, FatalOnError
<1>5. NoTradeExitMeansNoOrder'
  <2>1. EXIT_NO_TRADE \notin UNHEALTHY_CODES
    BY DEF UNHEALTHY_CODES, EXIT_NO_TRADE, EXIT_SAFETY_BLOCK, EXIT_UPSTREAM_ERROR,
       EXIT_TRADING_ERROR, EXIT_FEEDBACK_ERROR, EXIT_ALREADY_RUNNING
  <2> QED
    BY <1>3, <2>1, ExitFacts DEF IInv, TypeOK, NoTradeExitMeansNoOrder, trade_executed
<1> QED
  BY <1>1, <1>2, <1>4, <1>5 DEF IInv

\* A stuttering step keeps IInv.
LEMMA StutterStep == ASSUME IInv, UNCHANGED vars PROVE IInv'
<1> USE DEF vars
<1>1. TypeOK' /\ StagesSoFar' /\ EndSoFar'
  BY DEF IInv, TypeOK, StagesSoFar, Clean, EndSoFar, Halted, trade_executed
<1>2. OrderSoFar'
  BY DEF IInv, OrderSoFar, execution_stage, resolve_execution_stage,
     _live_strategy_requested, StageKind
<1>3. OrderNeedsCleanCycle' /\ OrderNeedsEmptySlot'
  BY DEF IInv, OrderNeedsCleanCycle, OrderNeedsEmptySlot, execution_stage,
     resolve_execution_stage, _live_strategy_requested, StageKind
<1>4. HealthyMeansCompleted' /\ NoTradeExitMeansNoOrder'
  BY DEF IInv, HealthyMeansCompleted, NoTradeExitMeansNoOrder
<1> QED
  BY <1>1, <1>2, <1>3, <1>4 DEF IInv

\* One lemma per action: every step of the specification keeps IInv.
LEMMA NextIInv == IInv /\ [Next]_vars => IInv'
  BY StartCycleStep, LockHeldStep, ReconfigureStep, DataStep, ResearchStep,
     ValidationStep, StrategyRoutingStep, RefuseStep, SettleStep, EntryStep,
     LifecycleStep, TradingRaisesStep, FeedbackStep, ReportStep, StutterStep DEF Next

\* What each stage has left to the next, IInv, holds in every reachable state.
THEOREM CycleInvariance == Spec => []IInv
  BY InitIInv, NextIInv, PTL DEF Spec

\* No setting and no failing stage lets a cycle trade on data that is not real
\* or past a stage that did not come through.
THEOREM OrdersAreClean == Spec => []OrderNeedsCleanCycle
<1>1. IInv => OrderNeedsCleanCycle
  BY DEF IInv
<1> QED
  BY <1>1, CycleInvariance, PTL

\* An order of a stage with one slot is sent only with the slot found empty.
THEOREM SlotIsEmpty == Spec => []OrderNeedsEmptySlot
<1>1. IInv => OrderNeedsEmptySlot
  BY DEF IInv
<1> QED
  BY <1>1, CycleInvariance, PTL

\* A healthy exit code means that the cycle traded or declined to, and learnt
\* from it (exit_codes.py): no error ever looks like a clean success.
THEOREM HealthyIsCompleted == Spec => []HealthyMeansCompleted
<1>1. IInv => HealthyMeansCompleted
  BY DEF IInv
<1> QED
  BY <1>1, CycleInvariance, PTL

\* The no-trade exit code is never given to a cycle whose order was filled or
\* taken by the venue.
THEOREM NoTradeIsNoOrder == Spec => []NoTradeExitMeansNoOrder
<1>1. IInv => NoTradeExitMeansNoOrder
  BY DEF IInv
<1> QED
  BY <1>1, CycleInvariance, PTL
=============================================================================
