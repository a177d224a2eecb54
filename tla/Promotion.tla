------------------------------ MODULE Promotion ------------------------------
(***************************************************************************)
(* The ladder from signed testnet to autonomous live trading: clean        *)
(* testnet sessions allow the live canary, and clean canary orders allow   *)
(* the live stage.                                                         *)
(*                                                                         *)
(* Three operator scripts place orders: run_testnet_session ("session"),   *)
(* run_testnet_order ("order", and the pipeline at the testnet stage does  *)
(* the same), run_live_canary_order ("canary").  None takes the run lock   *)
(* and all write their result to one file, which each of them reads back   *)
(* to reconcile.  Any number of canary processes may run at a time.  An    *)
(* order is for one unit; only the BUY side opens.                         *)
(***************************************************************************)
EXTENDS Naturals, FiniteSets, Sequences

CONSTANTS
  Sessions,      \* --sessions of the harness
  MinSessions,   \* LIVE_CANARY_MIN_CLEAN_TESTNET_SESSIONS
  TestnetCap,    \* SIGNED_TESTNET_MAX_DAILY_ORDER_COUNT
  MinOrders,     \* LIVE_STRATEGY_MIN_CLEAN_CANARY_ORDERS
  CanaryCap,     \* LIVE_CANARY_MAX_DAILY_ORDER_COUNT
  Testnet,       \* the testnet scripts that are used
  Canary,        \* the processes of run_live_canary_order
  Overlap,       \* they run beside each other and beside paper cycles
  Faults,        \* what may go wrong
  MaxOrders,     \* bound: orders sent
  MaxDays,       \* bound: days
  MaxCrashes     \* bound: killed processes

Scripts == Testnet \cup Canary
Fault == {"lag", "query", "timeout", "late"}

ASSUME PromotionAssumption ==
  /\ {Sessions, MinSessions, TestnetCap, MinOrders, CanaryCap, MaxOrders, MaxDays} \subseteq Nat \ {0}
  /\ Testnet \subseteq {"session", "order"} /\ Canary \cap {"session", "order"} = {}
  /\ Overlap \in BOOLEAN /\ Faults \subseteq Fault
  /\ MaxCrashes \in Nat

VARIABLES
  day,       \* the UTC day
  order,     \* the orders sent, as the venues know them
  position,  \* units held at each venue
  counter,   \* today's entry of each order counter file
  result,    \* latest_order_result.json
  report,    \* signed_testnet_session_report.json
  prepared,  \* live_canary_preparation.json
  registry,  \* live_canary_order_registry.jsonl
  proc,      \* the scripts
  crashes,   \* processes killed so far
  met        \* history: the canary processes whose run had another one beside it

vars == <<day, order, position, counter, result, report, prepared, registry, proc, crashes, met>>

Venue == {"testnet", "mainnet"}
VenueOf(p) == IF p \in Canary THEN "mainnet" ELSE "testnet"
Cap(p) == IF p \in Canary THEN CanaryCap ELSE TestnetCap

\* at: the venue that has it, or where it is; status as the venue reports it.
\* basis: the clean sessions the canary was allowed on (history).
Sent == 1..Len(order)
Placed(v) == {i \in Sent : order[i].at = v}

NoResult == [performed |-> FALSE, answered |-> FALSE, id |-> 0]
Idle == [pc |-> "idle", reduce |-> FALSE, id |-> 0, sent |-> NoResult, left |-> 0,
         open |-> NoResult, openOk |-> FALSE, submitted |-> 0, reconciled |-> 0, ok |-> {},
         basis |-> {}]

Init ==
  /\ day = 1 /\ order = <<>> /\ crashes = 0 /\ met = {}
  /\ position = [v \in Venue |-> 0]
  /\ counter = [v \in Venue |-> 0]
  /\ result = NoResult
  /\ report = [submitted |-> 0, reconciled |-> 0, ok |-> {}]
  /\ prepared = [ready |-> FALSE, on |-> {}]
  /\ registry = [records |-> <<>>, torn |-> FALSE]
  /\ proc = [p \in Scripts |-> Idle]

Goto(p, pc) == proc' = [proc EXCEPT ![p].pc = pc]
Free(p) == proc[p].pc = "idle" /\ (Overlap \/ \A q \in Scripts : proc[q].pc = "idle")

-----------------------------------------------------------------------------
(***************************************************************************)
(* Starting a script.                                                      *)
(***************************************************************************)
\* A session run looks whether the account is flat, but a query that fails
\* counts as flat and --force goes on regardless: it may start on any position.
StartSession ==
  /\ "session" \in Scripts /\ Free("session")
  /\ proc' = [proc EXCEPT !["session"] = [Idle EXCEPT !.pc = "guard", !.left = Sessions]]
  /\ UNCHANGED <<day, order, position, counter, result, report, prepared, registry, crashes, met>>

StartOrder ==
  /\ "order" \in Scripts /\ Free("order")
  /\ \E reduce \in BOOLEAN :
       proc' = [proc EXCEPT !["order"] = [Idle EXCEPT !.pc = "guard", !.reduce = reduce]]
  /\ UNCHANGED <<day, order, position, counter, result, report, prepared, registry, crashes, met>>

\* The guard that refuses an order; the flags, the confirmation, the kill
\* switch and the notional caps are the operator's and are taken as set.
GuardReady(p) == (p \in Canary => prepared.ready) /\ counter[VenueOf(p)] < Cap(p)

\* The canary processes after p has started: it and those it finds have met.
Beside(p) == {q \in Canary \ {p} : proc[q].pc # "idle"}
Meeting(p) == (met \ {p}) \cup Beside(p) \cup {q \in {p} : Beside(p) # {}}

\* The runner evaluates the guard once for show and refuses on it.  Nothing
\* keeps a second process out.
StartCanary(p) ==
  /\ p \in Canary /\ Free(p) /\ GuardReady(p)
  /\ \E reduce \in BOOLEAN :
       proc' = [proc EXCEPT ![p] = [Idle EXCEPT !.pc = "guard", !.reduce = reduce]]
  /\ met' = Meeting(p)
  /\ UNCHANGED <<day, order, position, counter, result, report, prepared, registry, crashes>>

-----------------------------------------------------------------------------
(***************************************************************************)
(* One order: guard, POST, resolve, count, result.                         *)
(***************************************************************************)
\* The final guard.  A refusal is a result, too.
Guard(p) ==
  /\ proc[p].pc = "guard"
  /\ IF GuardReady(p)
     THEN /\ proc' = [proc EXCEPT ![p].pc = "post", ![p].basis = prepared.on]
          /\ UNCHANGED result
     ELSE /\ proc' = [proc EXCEPT ![p].pc = "reconcile", ![p].sent = NoResult]
          /\ result' = NoResult
  /\ UNCHANGED <<day, order, position, counter, report, prepared, registry, crashes, met>>

\* A reduce-only order is rejected where nothing is held.
Take(v, reduce) == IF reduce THEN position[v] - 1 ELSE position[v] + 1

Takes(v, reduce) == reduce => position[v] > 0

Statuses == {"FILLED"} \cup (IF "lag" \in Faults THEN {"NEW"} ELSE {})

\* The order reaches the book, filled at once or resting; answered says
\* whether the script learns of it.
PostPlaced(p, answered) ==
  LET v == VenueOf(p) IN
  /\ Takes(v, proc[p].reduce)
  /\ \E status \in Statuses :
       /\ order' = Append(order, [at |-> v, by |-> p, day |-> day, status |-> status,
                                  reduce |-> proc[p].reduce, absent |-> FALSE,
                                  basis |-> proc[p].basis])
       /\ position' = IF status = "FILLED"
                      THEN [position EXCEPT ![v] = Take(v, proc[p].reduce)] ELSE position
  /\ proc' = [proc EXCEPT
       ![p].id = Len(order) + 1,
       ![p].sent = [performed |-> answered, answered |-> answered, id |-> Len(order) + 1],
       ![p].pc = CASE answered -> "count"
                   [] ~answered /\ p \notin Canary -> "resolve"
                   [] OTHER -> "write"]

\* The venue refuses, or the POST is lost, or (late) is still on its way.
PostMissing(p, at) ==
  /\ order' = Append(order, [at |-> at, by |-> p, day |-> day, status |-> "NEW",
                             reduce |-> proc[p].reduce, absent |-> FALSE, basis |-> proc[p].basis])
  /\ UNCHANGED position
  /\ proc' = [proc EXCEPT
       ![p].id = Len(order) + 1,
       ![p].sent = [performed |-> FALSE, answered |-> FALSE, id |-> Len(order) + 1],
       ![p].pc = IF at # "refused" /\ p \notin Canary THEN "resolve" ELSE "write"]

submit_order(p) ==
  /\ proc[p].pc = "post" /\ Len(order) < MaxOrders
  /\ \/ PostPlaced(p, TRUE)
     \/ "timeout" \in Faults /\ PostPlaced(p, FALSE)
     \/ PostMissing(p, "refused")
     \/ "timeout" \in Faults /\ PostMissing(p, "lost")
     \/ "late" \in Faults /\ PostMissing(p, "flying")
  /\ UNCHANGED <<day, counter, result, report, prepared, registry, crashes, met>>

\* Mutant: an order found by the query is not counted.
resolve_ambiguous_submit_Uncounted(p) ==
  LET placed == order[proc[p].id].at = "testnet"
      Performed(b) == proc' = [proc EXCEPT ![p].sent.performed = b, ![p].pc = "write"]
  IN
  /\ proc[p].pc = "resolve"
  /\ \/ /\ Performed(placed)
        /\ order' = [order EXCEPT ![proc[p].id].absent = ~placed]
     \/ "query" \in Faults /\ Performed(TRUE) /\ UNCHANGED order
  /\ UNCHANGED <<day, position, counter, result, report, prepared, registry, crashes, met>>

\* Testnet only: the venue is asked by client id.  It knows the order, or
\* says that it does not exist, or does not answer: then it may be live.
resolve_ambiguous_submit(p) ==
  LET placed == order[proc[p].id].at = "testnet"
      Performed(b) == proc' = [proc EXCEPT ![p].sent.performed = b,
                                           ![p].pc = IF b THEN "count" ELSE "write"]
  IN
  /\ proc[p].pc = "resolve"
  /\ \/ /\ Performed(placed)
        /\ order' = [order EXCEPT ![proc[p].id].absent = ~placed]
     \/ "query" \in Faults /\ Performed(TRUE) /\ UNCHANGED order
  /\ UNCHANGED <<day, position, counter, result, report, prepared, registry, crashes, met>>

record_submission(p) ==
  /\ proc[p].pc = "count"
  /\ counter' = [counter EXCEPT ![VenueOf(p)] = @ + 1]
  /\ Goto(p, "write")
  /\ UNCHANGED <<day, order, position, result, report, prepared, registry, crashes, met>>

\* Mutant: a submit that failed leaves the result of an earlier order.
WriteResult_OnSubmit(p) ==
  /\ proc[p].pc = "write"
  /\ result' = IF proc[p].sent.performed THEN proc[p].sent ELSE result
  /\ Goto(p, "reconcile")
  /\ UNCHANGED <<day, order, position, counter, report, prepared, registry, crashes, met>>

WriteResult(p) ==
  /\ proc[p].pc = "write"
  /\ result' = proc[p].sent
  /\ Goto(p, "reconcile")
  /\ UNCHANGED <<day, order, position, counter, report, prepared, registry, crashes, met>>

-----------------------------------------------------------------------------
(***************************************************************************)
(* Reconciliation of whatever the result file holds.                       *)
(***************************************************************************)
\* Opening orders must match the whole position; closing ones only must not
\* flip it, which reduceOnly prevents.
Mismatched(v, o) == ~o.reduce /\ o.status = "FILLED" /\ position[v] # 1

\* The statuses reconcile_signed_testnet may give when asked at venue v.
reconcile_signed_testnet(v) ==
  LET o == order[result.id] IN
  IF ~result.performed \/ ~result.answered THEN {"NO_SUBMISSION"}
  ELSE {IF o.at # v THEN "UNRECONCILED" ELSE IF Mismatched(v, o) THEN "MISMATCH" ELSE "RECONCILED"}
         \cup (IF "query" \in Faults THEN {"UNRECONCILED"} ELSE {})

\* legs_ok of run_one_session.
SessionOk(s, ok) == s.openOk /\ ok

\* A leg of a session: the open is followed by the close if it was submitted,
\* and a session that could not open ends the run.
ReconcileLeg ==
  LET s == proc["session"]
      legs == [s EXCEPT !.submitted = @ + (IF s.sent.performed THEN 1 ELSE 0)]
  IN
  /\ s.pc = "reconcile"
  /\ \E status \in reconcile_signed_testnet("testnet") :
       LET ok == status = "RECONCILED"
           done == [legs EXCEPT !.reconciled = @ + (IF ok THEN 1 ELSE 0)]
       IN  proc' = [proc EXCEPT !["session"] =
             IF ~s.reduce
             THEN IF s.sent.performed
                  THEN [done EXCEPT !.pc = "guard", !.reduce = TRUE, !.open = s.sent, !.openOk = ok]
                  ELSE [done EXCEPT !.pc = "report"]
             ELSE [done EXCEPT !.reduce = FALSE, !.left = @ - 1, !.open = NoResult, !.openOk = FALSE,
                     !.ok = IF SessionOk(s, ok) THEN @ \cup {<<s.open.id, s.sent.id>>} ELSE @,
                     !.pc = IF s.left = 1 THEN "report" ELSE "guard"]]
  /\ UNCHANGED <<day, order, position, counter, result, report, prepared, registry, crashes, met>>

\* aggregate, and the report file.
WriteReport ==
  /\ "session" \in Scripts /\ proc["session"].pc = "report"
  /\ report' = [submitted |-> proc["session"].submitted, reconciled |-> proc["session"].reconciled,
                ok |-> proc["session"].ok]
  /\ proc' = [proc EXCEPT !["session"] = Idle]
  /\ UNCHANGED <<day, order, position, counter, result, prepared, registry, crashes, met>>

ReconcileOrder ==
  /\ proc["order"].pc = "reconcile"
  /\ proc' = [proc EXCEPT !["order"] = Idle]
  /\ UNCHANGED <<day, order, position, counter, result, report, prepared, registry, crashes, met>>

\* run_live_canary_reconciliation: nothing submitted, nothing recorded.
ReconcileCanary(p) ==
  /\ proc[p].pc = "reconcile"
  /\ IF ~result.performed THEN proc' = [proc EXCEPT ![p] = Idle]
     ELSE \E status \in reconcile_signed_testnet("mainnet") :
            proc' = [proc EXCEPT ![p].pc = "record", ![p].id = result.id,
                                 ![p].openOk = status = "RECONCILED"]
  /\ UNCHANGED <<day, order, position, counter, result, report, prepared, registry, crashes, met>>

\* RECONCILED without a mismatch.
clean(c) == c.openOk

\* An append to a torn registry raises; the runner logs it and goes on.
record_canary_order(p) ==
  /\ p \in Canary /\ proc[p].pc = "record"
  /\ registry' = IF registry.torn THEN registry
                 ELSE [registry EXCEPT !.records =
                        Append(@, [id |-> proc[p].id, clean |-> clean(proc[p]), met |-> p \in met])]
  /\ proc' = [proc EXCEPT ![p] = Idle]
  /\ UNCHANGED <<day, order, position, counter, result, report, prepared, crashes, met>>

-----------------------------------------------------------------------------
(***************************************************************************)
(* The gates of the ladder.                                                *)
(***************************************************************************)
\* Mutant: some clean session is enough.
evaluate_testnet_session_evidence_Any ==
  report.submitted # 0 /\ report.reconciled = report.submitted

evaluate_testnet_session_evidence ==
  /\ Cardinality(report.ok) >= MinSessions
  /\ report.submitted # 0 /\ report.reconciled = report.submitted

\* The read-only probe of the live account may find the key and the symbol in
\* order or not, or not answer.
run_live_readonly_probe == BOOLEAN

preparation_ready(probe) == probe /\ evaluate_testnet_session_evidence

\* check_live_canary_readiness.  The preparation file has no expiry.
CheckReadiness ==
  /\ Canary # {}
  /\ \E probe \in run_live_readonly_probe :
       prepared' = [ready |-> preparation_ready(probe),
                    on |-> IF preparation_ready(probe) THEN report.ok ELSE {}]
  /\ UNCHANGED <<day, order, position, counter, result, report, registry, proc, crashes, met>>

CleanRecords == {i \in DOMAIN registry.records : registry.records[i].clean}
clean_canary_order_count == IF registry.torn THEN 0 ELSE Cardinality(CleanRecords)
live_promotion_ready == clean_canary_order_count >= MinOrders

-----------------------------------------------------------------------------
(***************************************************************************)
(* The venues, the calendar, the operator's hand and failures.             *)
(***************************************************************************)
Fill(i) ==
  /\ order[i].at \in Venue /\ order[i].status = "NEW" /\ Takes(order[i].at, order[i].reduce)
  /\ order' = [order EXCEPT ![i].status = "FILLED"]
  /\ position' = [position EXCEPT ![order[i].at] = Take(order[i].at, order[i].reduce)]
  /\ UNCHANGED <<day, counter, result, report, prepared, registry, proc, crashes, met>>

\* A POST that outlived its timeout arrives.
Arrive(i) ==
  /\ order[i].at = "flying"
  /\ order' = [order EXCEPT ![i].at = VenueOf(order[i].by)]
  /\ UNCHANGED <<day, position, counter, result, report, prepared, registry, proc, crashes, met>>

\* Positions closed on the web page of the venue.
Flatten(v) ==
  /\ position[v] > 0 /\ position' = [position EXCEPT ![v] = 0]
  /\ UNCHANGED <<day, order, counter, result, report, prepared, registry, proc, crashes, met>>

\* The counters are kept by day.
NewDay ==
  /\ day < MaxDays /\ day' = day + 1 /\ counter' = [v \in Venue |-> 0]
  /\ UNCHANGED <<order, position, result, report, prepared, registry, proc, crashes, met>>

\* A paper cycle of the pipeline writes the result file too.
PaperCycle ==
  /\ Overlap /\ result # NoResult /\ result' = NoResult
  /\ UNCHANGED <<day, order, position, counter, report, prepared, registry, proc, crashes, met>>

\* A killed script.  Killed in the append, it leaves half a line.
Crash(p) ==
  /\ proc[p].pc # "idle" /\ crashes < MaxCrashes /\ crashes' = crashes + 1
  /\ proc' = [proc EXCEPT ![p] = Idle]
  /\ \/ UNCHANGED registry
     \/ proc[p].pc = "record" /\ registry' = [registry EXCEPT !.torn = TRUE]
  /\ UNCHANGED <<day, order, position, counter, result, report, prepared, met>>

Next ==
  \/ StartSession \/ StartOrder \/ CheckReadiness
  \/ \E p \in Canary : StartCanary(p) \/ ReconcileCanary(p) \/ record_canary_order(p)
  \/ \E p \in Scripts : \/ Guard(p) \/ submit_order(p) \/ resolve_ambiguous_submit(p)
                        \/ record_submission(p) \/ WriteResult(p) \/ Crash(p)
  \/ "session" \in Scripts /\ ReconcileLeg
  \/ WriteReport
  \/ "order" \in Scripts /\ ReconcileOrder
  \/ \E i \in Sent : Fill(i) \/ Arrive(i)
  \/ \E v \in Venue : Flatten(v)
  \/ NewDay \/ PaperCycle

Spec == Init /\ [][Next]_vars

-----------------------------------------------------------------------------
Today(v) == {i \in Placed(v) : order[i].day = day}

(***************************************************************************)
(* A mainnet canary is sent only after one harness run of enough sessions, *)
(* each of which opened and closed with orders of its own that the testnet *)
(* really took: no crash, unanswered POST, failed query or day change lets *)
(* the ladder be climbed on anything less.                                 *)
(***************************************************************************)
LadderInOrder ==
  \A i \in Placed("mainnet") :
    /\ Cardinality(order[i].basis) >= MinSessions
    /\ \A s \in order[i].basis :
         /\ s[1] # s[2] /\ {s[1], s[2]} \subseteq Placed("testnet")
         /\ ~order[s[1]].reduce /\ order[s[2]].reduce
         /\ order[s[1]].by = "session" /\ order[s[2]].by = "session"

(***************************************************************************)
(* The testnet budget counts what the venue took: the orders of a day      *)
(* exceed the cap only by processes killed between the POST and the count, *)
(* and by orders a query did not find yet, which retry_policy.py takes for *)
(* "genuinely not submitted".                                              *)
(***************************************************************************)
TestnetBudget ==
  Cardinality({i \in Today("testnet") : ~order[i].absent}) <= TestnetCap + crashes

(***************************************************************************)
(* Every clean record is of an order that the mainnet venue has, although  *)
(* the reconciliation reads a result file that testnet orders, paper       *)
(* cycles and other canaries overwrite in between.  An order is recorded   *)
(* twice only by canary processes that ran beside each other: where there  *)
(* was none of these, live_promotion_ready means that many canary orders.  *)
(***************************************************************************)
EvidenceIsDistinct ==
  /\ \A i \in CleanRecords : registry.records[i].id \in Placed("mainnet")
  /\ \A i, j \in CleanRecords : registry.records[i].id = registry.records[j].id =>
       i = j \/ (registry.records[i].met /\ registry.records[j].met)
  /\ live_promotion_ready /\ (\A i \in CleanRecords : ~registry.records[i].met) =>
       Cardinality(Placed("mainnet")) >= MinOrders

-----------------------------------------------------------------------------
(***************************************************************************)
(* The inductive invariant behind the three properties.                    *)
(***************************************************************************)
Pair == Nat \X Nat
At == Venue \cup {"refused", "lost", "flying"}
Order == [at : At, by : Scripts, day : Nat, status : {"NEW", "FILLED"}, reduce : BOOLEAN,
          absent : BOOLEAN, basis : SUBSET Pair]
Result == [performed : BOOLEAN, answered : BOOLEAN, id : Nat]
Proc == [pc : {"idle", "guard", "post", "resolve", "count", "write", "reconcile", "report", "record"},
         reduce : BOOLEAN, id : Nat, sent : Result, left : 0..Sessions, open : Result,
         openOk : BOOLEAN, submitted : Nat, reconciled : Nat, ok : SUBSET Pair,
         basis : SUBSET Pair]
Record == [id : Nat, clean : BOOLEAN, met : BOOLEAN]
Registry == [records : Seq(Record), torn : BOOLEAN]
Legs == {"guard", "post", "resolve", "count", "write", "reconcile"}

TypeOK ==
  /\ day \in Nat /\ order \in Seq(Order) /\ crashes \in Nat
  /\ position \in [Venue -> Nat] /\ counter \in [Venue -> Nat] /\ result \in Result
  /\ report \in [submitted : Nat, reconciled : Nat, ok : SUBSET Pair]
  /\ prepared \in [ready : BOOLEAN, on : SUBSET Pair]
  /\ registry \in Registry /\ met \subseteq Canary
  /\ proc \in [Scripts -> Proc]
  /\ \A p \in Scripts : p = "session" /\ proc[p].pc \in Legs => proc[p].left > 0

\* An order is at the venue of its script, and not of a day to come.
OrdersPlaced ==
  \A i \in Sent : order[i].day <= day /\ (order[i].at \in Venue => order[i].at = VenueOf(order[i].by))

\* r tells of an order of script p, the one that the script has sent.
Tells(p, r, reduce) ==
  r.performed => r.id \in Sent /\ order[r.id].by = p /\ order[r.id].reduce = reduce

ResultsTell ==
  /\ result.performed => result.id \in Sent
  /\ \A p \in Scripts :
       /\ proc[p].pc \in {"resolve", "count", "write"} =>
            /\ proc[p].sent.id = proc[p].id /\ proc[p].id \in Sent
            /\ order[proc[p].id].by = p /\ order[proc[p].id].reduce = proc[p].reduce
       /\ proc[p].pc = "reconcile" => Tells(p, proc[p].sent, proc[p].reduce)

\* Without overlap: one script at a time, whose result nobody overwrites.
Alone ==
  ~Overlap =>
    /\ \A p, q \in Scripts : proc[p].pc # "idle" /\ proc[q].pc # "idle" => p = q
    /\ \A p \in Scripts : proc[p].pc = "reconcile" => result = proc[p].sent

-----------------------------------------------------------------------------
\* A session of the report: opened and closed by orders the testnet has.
Openings == {i \in Placed("testnet") : order[i].by = "session" /\ ~order[i].reduce}
Closings == {i \in Placed("testnet") : order[i].by = "session" /\ order[i].reduce}
Real(b) == b \subseteq Openings \X Closings
Enough(b) == Real(b) /\ Cardinality(b) >= MinSessions

LadderClimbed ==
  ~Overlap =>
    /\ Real(report.ok) /\ (prepared.ready => Enough(prepared.on))
    /\ "session" \in Scripts =>
         /\ Real(proc["session"].ok)
         /\ proc["session"].reduce /\ proc["session"].openOk => proc["session"].open.id \in Openings
    /\ \A p \in Canary : proc[p].pc = "post" => Enough(proc[p].basis)
    /\ \A i \in Sent : order[i].by \in Canary => Enough(order[i].basis)

\* Today's orders that a script left behind are in the counter, or it was
\* killed on the way to it.
OnItsWay == {proc[p].id : p \in {q \in Scripts : proc[q].pc \in {"resolve", "count"}}}
LeftBehind == {i \in Sent : /\ order[i].by \notin Canary /\ order[i].at \in {"testnet", "flying"}
                            /\ order[i].day = day /\ ~order[i].absent} \ OnItsWay

BudgetKept ==
  /\ Cardinality(LeftBehind) <= counter["testnet"] + crashes
  /\ ~Overlap =>
       /\ counter["testnet"] <= TestnetCap
       /\ \A p \in Scripts \ Canary :
            proc[p].pc \in {"post", "resolve", "count"} => counter["testnet"] < TestnetCap

\* Whatever record there is of the order, and the run of p, had company.
Shared(p, id) ==
  \A i \in CleanRecords : registry.records[i].id = id => registry.records[i].met /\ p \in met

\* The canary order that a canary has sent, finds in the result file or is
\* about to record has no record yet, or is shared.
RegistrySound ==
  /\ \A i \in CleanRecords : registry.records[i].id \in Placed("mainnet")
  /\ \A i, j \in CleanRecords : registry.records[i].id = registry.records[j].id =>
       i = j \/ (registry.records[i].met /\ registry.records[j].met)
  /\ \A p \in Canary :
       /\ proc[p].pc # "idle" /\ p \notin met => Beside(p) = {}
       /\ proc[p].pc \in {"resolve", "count", "write", "reconcile"} => Shared(p, proc[p].sent.id)
       /\ proc[p].pc = "reconcile" /\ result.performed /\ order[result.id].by \in Canary =>
            Shared(p, result.id)
       /\ proc[p].pc = "record" /\ proc[p].openOk =>
            proc[p].id \in Placed("mainnet") /\ Shared(p, proc[p].id)

IInv == TypeOK /\ OrdersPlaced /\ ResultsTell /\ Alone /\ LadderClimbed /\ BudgetKept /\ RegistrySound
=============================================================================
