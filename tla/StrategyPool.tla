---------------------------- MODULE StrategyPool -----------------------------
(***************************************************************************)
(* The active strategy pool and everyone who writes it: the factory and    *)
(* the rule miner, which are scripts an operator or a weekly task starts   *)
(* beside the running pipeline and which take no lock, and the lifecycle   *)
(* feedback at the end of each pipeline cycle.                             *)
(*                                                                         *)
(* The pool file is rewritten whole by each of them, from the copy it      *)
(* loaded.  What generation, validation, backtest and selection yield is a *)
(* choice here: any rule of the batch, at any score.  R multiples and      *)
(* scores are integers of one unit; a mean is compared by cross            *)
(* multiplication.                                                         *)
(***************************************************************************)
EXTENDS Integers, Sequences, FiniteSets, Functions

CONSTANTS
  Settings,         \* what runs beside what and within which bounds: records
                    \* [scripts, overlap, rules, scores, results, batch, seq, outcomes]
  Cap,              \* paper slots
  MaxPerFamily,     \* slots per family and symbol
  MinImprovement,   \* by which a champion must beat the weakest
  PseudoTrades,     \* weight of the backtest in the blended score
  WarnWindow, ProbationWindow, SuspendWindow, ArchiveMinTrades,
  MaxCrashes        \* bound: processes killed

\* scripts: those that run, a subset of {"factory", "miner"}; overlap: whether a
\* script may run beside a cycle or another script; rules: the rule sets,
\* records [hash, family, symbol, direction]; scores: what a backtest may give a
\* champion; results: the R multiples a trade may close with.  Bounds: batch,
\* specs accepted in one batch; seq, no script starts once the counter is past
\* it; outcomes, attributed outcomes.
ASSUME PoolAssumption ==
  /\ Cap \in Nat \ {0} /\ MaxPerFamily \in Nat \ {0} /\ PseudoTrades \in Nat \ {0}
  /\ \A w \in {WarnWindow, ProbationWindow, SuspendWindow, ArchiveMinTrades} : w \in Nat \ {0}
  /\ WarnWindow <= ProbationWindow
  /\ MinImprovement \in Int /\ MaxCrashes \in Nat
  /\ \A c \in Settings :
       /\ c.scripts \subseteq {"factory", "miner"} /\ c.overlap \in BOOLEAN
       /\ c.scores \subseteq Int /\ c.results \subseteq Int
       /\ c.batch \in Nat /\ c.seq \in Nat /\ c.outcomes \in Nat
       /\ \A r, s \in c.rules : r.hash = s.hash => r = s

VARIABLES
  setting,    \* one of Settings, chosen once
  pool,       \* the pool file: entries [id, rule, score, status, fails]
  counter,    \* the factory state file: the next strategy number
  outcomes,   \* the attributed-outcome registry
  lifecycle,  \* the lifecycle registry: status changes [id, rule, status, n]
  audit,      \* the active-strategy registry: ids recorded as added
  script,     \* each script's program counter and locals
  cycle,      \* the pipeline's
  held,       \* the open strategy position: a set of at most one [id, rule]
  crashes

vars == <<setting, pool, counter, outcomes, lifecycle, audit, script, cycle, held, crashes>>

OCCUPYING_STATUSES == {"PAPER_ACTIVE", "WARNING", "PROBATION"}
_TERMINAL == {"SUSPENDED", "ARCHIVED"}

IdleScript == [pc |-> "idle", seq |-> 0, pool |-> <<>>, seen |-> 0, chosen |-> 0]
IdleCycle == [pc |-> "idle", pool |-> <<>>, primary |-> {}, next |-> 0, changed |-> FALSE]

Init ==
  /\ setting \in Settings
  /\ pool = <<>> /\ counter = 1 /\ outcomes = <<>> /\ lifecycle = {} /\ audit = {}
  /\ script = [s \in setting.scripts |-> IdleScript] /\ cycle = IdleCycle
  /\ held = {} /\ crashes = 0

-----------------------------------------------------------------------------
(***************************************************************************)
(* Pure pool operations                                                    *)
(***************************************************************************)
Occupying(p) == {i \in DOMAIN p : p[i].status \in OCCUPYING_STATUSES}

\* Mutant: only the rule hash is looked at.
MutAlreadyActive(p, id, rule) == \E i \in Occupying(p) : p[i].rule.hash = rule.hash

\* is_rule_hash_active or is_strategy_id_active.
AlreadyActive(p, id, rule) ==
  \E i \in Occupying(p) : p[i].rule.hash = rule.hash \/ p[i].id = id

family_count(p, rule) ==
  Cardinality({i \in Occupying(p) :
                 p[i].rule.family = rule.family /\ p[i].rule.symbol = rule.symbol})

_make_entry(id, rule, score) ==
  [id |-> id, rule |-> rule, score |-> score, status |-> "PAPER_ACTIVE", fails |-> 0]

\* Every entry of that id.
set_status(p, id, status) ==
  [i \in DOMAIN p |-> IF p[i].id = id THEN [p[i] EXCEPT !.status = status] ELSE p[i]]

\* The outcome registry only grows: a copy of it, or the part of one strategy,
\* is a set of its positions.
\* Mutant: the outcomes of every strategy.
MutOutcomesOf(id, os) == os

OutcomesOf(id, os) == {i \in os : outcomes[i].id = id}
SumR(os) == SumFunctionOnSet([i \in DOMAIN outcomes |-> outcomes[i].r], os)

\* shrunk_live_blended_score as a fraction: w * live + (1 - w) * backtest.
Sls(e, os) ==
  LET own == OutcomesOf(e.id, os)
  IN  [num |-> SumR(own) + PseudoTrades * e.score, den |-> Cardinality(own) + PseudoTrades]

Below(a, b) == a.num * b.den < b.num * a.den

\* min() keeps the first of equals.
Weakest(p, os) ==
  CHOOSE i \in Occupying(p) :
    \A j \in Occupying(p) \ {i} : /\ ~Below(Sls(p[j], os), Sls(p[i], os))
                                  /\ j < i => Below(Sls(p[i], os), Sls(p[j], os))

ClearlyBetter(score, sls) == score * sls.den - sls.num >= MinImprovement * sls.den

HasSlot(p) == Cardinality(Occupying(p)) < Cap

\* The new pool; the old one when the champion is rejected.
add_champion(p, id, rule, score, os) ==
  CASE AlreadyActive(p, id, rule) -> p
    [] ~AlreadyActive(p, id, rule) /\ HasSlot(p) -> Append(p, _make_entry(id, rule, score))
    [] OTHER ->
         LET w == Weakest(p, os)
         IN  IF ClearlyBetter(score, Sls(p[w], os))
             THEN Append(set_status(p, p[w].id, "SUSPENDED"), _make_entry(id, rule, score))
             ELSE p

\* The diversity guard of run_factory_cycle and of the miner's loop.
Offer(p, id, rule, score, os) ==
  IF family_count(p, rule) >= MaxPerFamily THEN p ELSE add_champion(p, id, rule, score, os)

-----------------------------------------------------------------------------
(***************************************************************************)
(* The scripts                                                             *)
(***************************************************************************)
ScriptsIdle == \A s \in setting.scripts : script[s].pc = "idle"

\* Counters first, then the pool and the live evidence, then hours of backtest.
load_counters(s) ==
  /\ script[s].pc = "idle" /\ counter <= setting.seq
  /\ setting.overlap \/ (ScriptsIdle /\ cycle.pc = "idle")
  /\ script' = [script EXCEPT ![s] = [IdleScript EXCEPT !.pc = "load", !.seq = counter]]
  /\ UNCHANGED <<pool, counter, outcomes, lifecycle, audit, cycle, held, crashes>>

load_pool(s) ==
  /\ script[s].pc = "load"
  /\ script' = [script EXCEPT ![s].pc = "run", ![s].pool = pool, ![s].seen = Len(outcomes)]
  /\ UNCHANGED <<pool, counter, outcomes, lifecycle, audit, cycle, held, crashes>>

Evidence(s) == 1..script[s].seen

\* One generation: every accepted spec takes a number, at most one qualified
\* spec of the batch becomes the champion.
run_factory_cycle ==
  /\ "factory" \in setting.scripts /\ script["factory"].pc = "run"
  /\ LET me == script["factory"]
     IN  \E n \in 0..setting.batch :
           \/ script' = [script EXCEPT !["factory"].pc = "save", !["factory"].seq = @ + n]
           \/ \E k \in 0..n-1, rule \in setting.rules, score \in setting.scores :
                LET new == Offer(me.pool, me.seq + k, rule, score, Evidence("factory"))
                IN  script' = [script EXCEPT !["factory"] =
                      [me EXCEPT !.pc = "save", !.seq = @ + n, !.pool = new,
                                 !.chosen = IF new = me.pool THEN 0 ELSE me.seq + k]]
  /\ UNCHANGED <<pool, counter, outcomes, lifecycle, audit, cycle, held, crashes>>

\* One survivor of the search: its number is taken whatever becomes of it, and
\* its addition is recorded before the pool is saved.
MineSurvivor ==
  /\ "miner" \in setting.scripts /\ script["miner"].pc = "run"
  /\ LET me == script["miner"]
     IN  /\ me.seq < setting.seq + setting.batch
         /\ \/ script' = [script EXCEPT !["miner"].seq = @ + 1] /\ audit' = audit
            \/ \E rule \in setting.rules, score \in setting.scores :
                 LET new == Offer(me.pool, me.seq, rule, score, Evidence("miner"))
                 IN  /\ script' = [script EXCEPT !["miner"].seq = @ + 1, !["miner"].pool = new]
                     /\ audit' = IF new = me.pool THEN audit ELSE audit \cup {me.seq}
  /\ UNCHANGED <<pool, counter, outcomes, lifecycle, cycle, held, crashes>>

MineEnd ==
  /\ "miner" \in setting.scripts /\ script["miner"].pc = "run"
  /\ script' = [script EXCEPT !["miner"].pc = "save"]
  /\ UNCHANGED <<pool, counter, outcomes, lifecycle, audit, cycle, held, crashes>>

save_pool(s) ==
  /\ script[s].pc = "save"
  /\ pool' = script[s].pool
  /\ script' = [script EXCEPT ![s].pc = "count"]
  /\ UNCHANGED <<counter, outcomes, lifecycle, audit, cycle, held, crashes>>

NextSeq(s) == script[s].seq

save_counters(s) ==
  /\ script[s].pc = "count"
  /\ counter' = NextSeq(s)
  /\ script' = [script EXCEPT ![s] = IF s = "factory" THEN [@ EXCEPT !.pc = "record"]
                                                      ELSE IdleScript]
  /\ UNCHANGED <<pool, outcomes, lifecycle, audit, cycle, held, crashes>>

append_decision ==
  /\ "factory" \in setting.scripts /\ script["factory"].pc = "record"
  /\ audit' = audit \cup ({script["factory"].chosen} \ {0})
  /\ script' = [script EXCEPT !["factory"] = IdleScript]
  /\ UNCHANGED <<pool, counter, outcomes, lifecycle, cycle, held, crashes>>

ScriptCrash(s) ==
  /\ script[s].pc # "idle" /\ crashes < MaxCrashes
  /\ script' = [script EXCEPT ![s] = IdleScript] /\ crashes' = crashes + 1
  /\ UNCHANGED <<pool, counter, outcomes, lifecycle, audit, cycle, held>>

-----------------------------------------------------------------------------
(***************************************************************************)
(* A pipeline cycle: routing, then settlement and entry, then feedback     *)
(***************************************************************************)
_routable_entries(p) == Occupying(p)

Conflicted(p, matched) ==
  {p[i].rule.symbol : i \in {j \in matched : \E k \in matched :
      p[j].rule.symbol = p[k].rule.symbol /\ p[j].rule.direction # p[k].rule.direction}}

\* The survivor of highest score, then of highest id, as a set of at most one.
Primary(p, matched) ==
  LET survivors == {i \in matched : p[i].rule.symbol \notin Conflicted(p, matched)}
  IN  {[id |-> p[i].id, rule |-> p[i].rule] : i \in {j \in survivors : \A k \in survivors :
          p[k].score < p[j].score \/ (p[k].score = p[j].score /\ p[k].id <= p[j].id)}}

route_entries ==
  /\ cycle.pc = "idle"
  /\ setting.overlap \/ ScriptsIdle
  /\ \E matched \in SUBSET _routable_entries(pool) :
       cycle' = [IdleCycle EXCEPT !.pc = "trade", !.primary = Primary(pool, matched)]
  /\ UNCHANGED <<pool, counter, outcomes, lifecycle, audit, script, held, crashes>>

\* Settle first, then entry.  A close is attributed to the strategy the
\* position was opened for.
Trade ==
  /\ cycle.pc = "trade"
  /\ \E closed \in {{}} \cup IF Len(outcomes) < setting.outcomes THEN {held} ELSE {} :
       /\ \/ closed = {} /\ outcomes' = outcomes
          \/ \E b \in closed, r \in setting.results :
               outcomes' = Append(outcomes, [id |-> b.id, rule |-> b.rule, r |-> r])
       /\ held' \in {held \ closed} \cup (IF held \ closed = {} THEN {cycle.primary} ELSE {})
  /\ cycle' = [cycle EXCEPT !.pc = "load"]
  /\ UNCHANGED <<pool, counter, lifecycle, audit, script, crashes>>

LoadForFeedback ==
  /\ cycle.pc = "load"
  /\ cycle' = [IdleCycle EXCEPT !.pc = "evaluate", !.pool = pool, !.next = 1]
  /\ UNCHANGED <<pool, counter, outcomes, lifecycle, audit, script, held, crashes>>

\* compute_strategy_performance: the last w outcomes, if there are as many.
_full_window(own, w) == Cardinality(own) >= w
Rolling(own, w) == {i \in own : Cardinality({j \in own : j > i}) < w}
Gross(os, sign) == SumR({i \in os : outcomes[i].r * sign > 0}) * sign

\* profit_factor < num/den; undefined, and so not below, without a loss.
PfBelow(os, num, den) == Gross(os, -1) > 0 /\ Gross(os, 1) * den < Gross(os, -1) * num

warn(own) == _full_window(own, WarnWindow) /\
  LET w == Rolling(own, WarnWindow) IN SumR(w) < 0 \/ PfBelow(w, 1, 1)

\* expectancy <= -0.05.  No entry has a backtest_win_rate, so the drop of the
\* win rate never decides.
probation(own) == _full_window(own, ProbationWindow) /\
  LET w == Rolling(own, ProbationWindow) IN 20 * SumR(w) <= -Cardinality(w) \/ PfBelow(w, 9, 10)

suspend_metrics(own) == _full_window(own, SuspendWindow) /\
  LET w == Rolling(own, SuspendWindow) IN SumR(w) < 0 /\ PfBelow(w, 9, 10)

archive_metrics(own) == Cardinality(own) >= ArchiveMinTrades /\ SumR(own) < 0

failure(own) == warn(own) \/ probation(own)

Suspends(own, fails) == suspend_metrics(own) /\ fails >= 2

evaluate_lifecycle(e, own) ==
  LET fails == IF failure(own) THEN e.fails + 1 ELSE 0
  IN  [e EXCEPT !.fails = fails,
                !.status = CASE archive_metrics(own) /\ fails >= 3 -> "ARCHIVED"
                             [] ~(archive_metrics(own) /\ fails >= 3) /\ Suspends(own, fails)
                                  -> "SUSPENDED"
                             [] OTHER -> IF probation(own) THEN "PROBATION"
                                         ELSE IF warn(own) THEN "WARNING"
                                         ELSE "PAPER_ACTIVE"]

\* Mutant: entries without a slot are evaluated as well.
MutReevaluated(e, own) == evaluate_lifecycle(e, own)

\* Entries that hold no slot are passed over.
Reevaluated(e, own) == IF e.status \in OCCUPYING_STATUSES THEN evaluate_lifecycle(e, own) ELSE e

\* Mutant: the change is not recorded.
MutLogged(old, new, n) == {}

Logged(old, new, n) ==
  IF new.status = old.status THEN {}
  ELSE {[id |-> new.id, rule |-> new.rule, status |-> new.status, n |-> n]}

\* One entry of the loop.
Evaluate ==
  /\ cycle.pc = "evaluate" /\ cycle.next <= Len(cycle.pool)
  /\ LET e == cycle.pool[cycle.next]
         own == OutcomesOf(e.id, DOMAIN outcomes)
         new == Reevaluated(e, own)
     IN  /\ cycle' = [cycle EXCEPT !.pool[cycle.next] = new, !.next = @ + 1,
                                   !.changed = @ \/ new.status # e.status]
         /\ lifecycle' = lifecycle \cup Logged(e, new, Cardinality(own))
  /\ UNCHANGED <<pool, counter, outcomes, audit, script, held, crashes>>

\* The pool is saved only when some status changed.
EndFeedback ==
  /\ cycle.pc = "evaluate" /\ cycle.next > Len(cycle.pool)
  /\ pool' = IF cycle.changed THEN cycle.pool ELSE pool
  /\ cycle' = IdleCycle
  /\ UNCHANGED <<counter, outcomes, lifecycle, audit, script, held, crashes>>

CycleCrash ==
  /\ cycle.pc # "idle" /\ crashes < MaxCrashes
  /\ cycle' = IdleCycle /\ crashes' = crashes + 1
  /\ UNCHANGED <<pool, counter, outcomes, lifecycle, audit, script, held>>

-----------------------------------------------------------------------------
RunScript(s) == load_counters(s) \/ load_pool(s) \/ save_pool(s) \/ save_counters(s)

Next ==
  /\ UNCHANGED setting
  /\ \/ \E s \in setting.scripts : RunScript(s) \/ ScriptCrash(s)
     \/ run_factory_cycle \/ MineSurvivor \/ MineEnd \/ append_decision
     \/ route_entries \/ Trade \/ LoadForFeedback \/ Evaluate \/ EndFeedback \/ CycleCrash

Spec == Init /\ [][Next]_vars

-----------------------------------------------------------------------------
\* No two strategies that hold a slot share their rules or their id, no more
\* hold one than the cap, and no family fills a market: in every copy of the
\* pool, whichever writer's copy was saved last.
PoolSound(p) ==
  /\ \A i, j \in Occupying(p) : i # j => p[i].rule # p[j].rule /\ p[i].id # p[j].id
  /\ Cardinality(Occupying(p)) <= Cap
  /\ \A i \in Occupying(p) :
       Cardinality({j \in Occupying(p) : p[j].rule.family = p[i].rule.family
                                          /\ p[j].rule.symbol = p[i].rule.symbol}) <= MaxPerFamily
PoolAlwaysSound == PoolSound(pool) /\ \A s \in setting.scripts : PoolSound(script[s].pool)

\* The lifecycle registry knows every strategy the pool shows as degraded: a
\* crash may leave a record whose change was never saved, never a change
\* without its record.
DegradedIsLogged ==
  \A i \in DOMAIN pool : pool[i].status \in {"WARNING", "PROBATION", "ARCHIVED"} =>
    \E rec \in lifecycle : rec.id = pool[i].id /\ rec.status = pool[i].status

\* No two scripts run at a time.  Two that overlap load the same counter, give
\* the same id to different rules, and the later save drops the earlier's pool
\* entry; nothing but the operator's schedule keeps them apart.
Alone == setting.overlap => \A s, t \in setting.scripts : s = t

\* A strategy is judged on its own record alone: nothing degrades it before
\* it has closed a full warning window of trades itself.  The record is keyed
\* by the id, which factory_runner.py:11-12 calls unique; a crash between the
\* pool and the counters hands it out again, and the record is then shared.
JudgedOnOwnRecord ==
  Alone => \A i \in DOMAIN pool :
    /\ pool[i].status \in {"WARNING", "PROBATION", "ARCHIVED"}
    /\ \A j \in DOMAIN pool \ {i} : pool[j].id # pool[i].id
    => Cardinality({k \in DOMAIN outcomes : outcomes[k].rule = pool[i].rule}) >= WarnWindow

\* Suspended and archived are terminal: no step of the factory, the miner or
\* the feedback gives such an entry its slot back or forgets it
\* (strategy_lifecycle_agent.py:9-11, active_strategy_pool.py:11-12), as long
\* as no script runs beside a cycle: nothing but the operator's schedule keeps
\* an old copy of the pool from being saved over a suspension.
TerminalStaysTerminal ==
  [][~setting.overlap =>
       \A i \in DOMAIN pool : pool[i].status \in _TERMINAL =>
         i \in DOMAIN pool' /\ pool'[i].id = pool[i].id /\ pool'[i].status \in _TERMINAL]_vars

-----------------------------------------------------------------------------
(***************************************************************************)
(* The inductive invariant behind DegradedIsLogged and                     *)
(* TerminalStaysTerminal.                                                  *)
(***************************************************************************)
Rules == UNION {c.rules : c \in Settings}
Status == OCCUPYING_STATUSES \cup _TERMINAL
PoolEntry == [id : Nat, rule : Rules, score : Int, status : Status, fails : Nat]
Routed == [id : Nat, rule : Rules]

Script == [pc : {"idle", "load", "run", "save", "count", "record"}, seq : Nat,
           pool : Seq(PoolEntry), seen : Nat, chosen : Nat]
Cycle == [pc : {"idle", "trade", "load", "evaluate"}, pool : Seq(PoolEntry),
          primary : SUBSET Routed, next : Nat, changed : BOOLEAN]

TypeOK ==
  /\ setting \in Settings /\ pool \in Seq(PoolEntry) /\ counter \in Nat
  /\ outcomes \in Seq([id : Nat, rule : Rules, r : Int]) /\ held \in SUBSET Routed
  /\ script \in [setting.scripts -> Script] /\ cycle \in Cycle
  /\ cycle.pc = "evaluate" => cycle.next > 0

\* Every copy of the pool that may yet be saved is covered by the registry.
LoggedIn(p) ==
  \A i \in DOMAIN p : p[i].status \in {"WARNING", "PROBATION", "ARCHIVED"} =>
    \E rec \in lifecycle : rec.id = p[i].id /\ rec.status = p[i].status

CopiesLogged ==
  /\ LoggedIn(pool) /\ LoggedIn(cycle.pool)
  /\ \A s \in setting.scripts : LoggedIn(script[s].pool)

\* Without overlap one process runs at a time, and what it will save keeps the
\* terminal entries of the file.
KeepsTerminal(p, q) ==
  \A i \in DOMAIN p : p[i].status \in _TERMINAL =>
    i \in DOMAIN q /\ q[i].id = p[i].id /\ q[i].status \in _TERMINAL

OneAtATime ==
  ~setting.overlap =>
    /\ \A s \in setting.scripts : script[s].pc # "idle" =>
         cycle.pc = "idle" /\ \A t \in setting.scripts \ {s} : script[t].pc = "idle"
    /\ \A s \in setting.scripts : script[s].pc \in {"run", "save"} =>
         KeepsTerminal(pool, script[s].pool)
    /\ cycle.pc = "evaluate" => KeepsTerminal(pool, cycle.pool)

IInv == TypeOK /\ CopiesLogged /\ OneAtATime

\* Behind PoolAlwaysSound: each copy of the pool is sound, the feedback's too,
\* and no script has seen an outcome that is not there.
SoundInv ==
  /\ PoolAlwaysSound /\ PoolSound(cycle.pool)
  /\ \A s \in setting.scripts : script[s].seen <= Len(outcomes)

\* Behind JudgedOnOwnRecord: in each copy of the pool a degraded strategy has a
\* warning window of outcomes under its id.
Earned(p) ==
  \A i \in DOMAIN p : p[i].status \in {"WARNING", "PROBATION", "ARCHIVED"} =>
    Cardinality(OutcomesOf(p[i].id, DOMAIN outcomes)) >= WarnWindow

CopiesEarned ==
  /\ Earned(pool) /\ Earned(cycle.pool)
  /\ \A s \in setting.scripts : Earned(script[s].pool)

\* And the file never forgets a strategy that was routed, nor will what is saved
\* next, when no two scripts run at a time.
Name(e) == <<e.id, e.rule>>
Names(p) == {Name(p[i]) : i \in DOMAIN p}
RoutedNames == {Name(b) : b \in held \cup cycle.primary}
                 \cup {Name(outcomes[i]) : i \in DOMAIN outcomes}

NothingForgotten ==
  /\ RoutedNames \subseteq Names(pool)
  /\ \A s \in setting.scripts :
       script[s].pc \in {"run", "save"} => Names(pool) \subseteq Names(script[s].pool)
  /\ cycle.pc = "evaluate" => /\ Names(cycle.pool) \subseteq Names(pool)
                              /\ RoutedNames \subseteq Names(cycle.pool)

JudgedInv == CopiesEarned /\ (Alone => NothingForgotten)
=============================================================================
