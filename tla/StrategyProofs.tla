--------------------------- MODULE StrategyProofs ---------------------------
(***************************************************************************)
(* Theorems of StrategyPool: what the lifecycle registry covers, and what  *)
(* the writers of the pool file keep.  And of StrategySearch: what the     *)
(* search may look at, what it picks, and what it breeds.                  *)
(***************************************************************************)
EXTENDS StrategyPool, StrategySearch, SequenceTheorems, SumTheorems

-----------------------------------------------------------------------------
(***************************************************************************)
(* The pool operations.                                                    *)
(***************************************************************************)
LEMMA EntryMade ==
  ASSUME NEW id \in Nat, NEW rule \in Rules, NEW score \in Int
  PROVE _make_entry(id, rule, score) \in PoolEntry
BY DEF _make_entry, PoolEntry, Status, OCCUPYING_STATUSES

\* An entry appended to a pool keeps what is there.
LEMMA AppendKeeps ==
  ASSUME NEW p \in Seq(PoolEntry), NEW e \in PoolEntry, e.status = "PAPER_ACTIVE"
  PROVE /\ Append(p, e) \in Seq(PoolEntry)
        /\ LoggedIn(p) => LoggedIn(Append(p, e))
        /\ KeepsTerminal(p, Append(p, e))
BY DEF LoggedIn, KeepsTerminal

\* A suspension keeps the ids, and what is terminal stays so.
LEMMA SuspensionKeeps ==
  ASSUME NEW p \in Seq(PoolEntry), NEW id
  PROVE LET q == set_status(p, id, "SUSPENDED")
        IN  /\ q \in Seq(PoolEntry)
            /\ LoggedIn(p) => LoggedIn(q)
            /\ KeepsTerminal(p, q)
<1> DEFINE q == set_status(p, id, "SUSPENDED")
<1>1. /\ DOMAIN q = DOMAIN p
      /\ \A i \in DOMAIN p : q[i] = p[i] \/ q[i] = [p[i] EXCEPT !.status = "SUSPENDED"]
  BY DEF set_status
<1>2. \A i \in DOMAIN p : p[i] \in PoolEntry
  OBVIOUS
<1> HIDE DEF q
<1>3. ASSUME NEW i \in DOMAIN p PROVE q[i] \in PoolEntry
  <2>1. PICK e \in PoolEntry : e = p[i]
    BY <1>2
  <2>2. PICK f : f = [p[i] EXCEPT !.status = "SUSPENDED"]
    OBVIOUS
  <2>3. f \in PoolEntry
    <3>1. f = [e EXCEPT !.status = "SUSPENDED"]
      BY <2>1, <2>2, Zenon
    <3>2. "SUSPENDED" \in Status
      BY DEF Status, _TERMINAL
    <3> QED
      BY <3>1, <3>2 DEF PoolEntry
  <2>4. q[i] = p[i] \/ q[i] = f
    BY <1>1, <2>2
  <2> QED
    BY <2>1, <2>3, <2>4
<1>4. q \in Seq(PoolEntry)
  <2>1. q = [i \in 1..Len(p) |-> q[i]] /\ Len(p) \in Nat
    BY <1>1 DEF set_status, q
  <2>2. PICK n \in Nat : n = Len(p) /\ DOMAIN p = 1..n
    BY <2>1
  <2>3. \A i \in 1..n : q[i] \in PoolEntry
    BY <1>3, <2>2
  <2>4. q = [i \in 1..n |-> q[i]]
    BY <2>1, <2>2, Zenon
  <2>5. q \in [1..n -> PoolEntry]
    BY <2>3, <2>4, Zenon
  <2> QED
    BY <2>5
<1>5. \A i \in DOMAIN p :
        \/ q[i] = p[i]
        \/ q[i].id = p[i].id /\ q[i].status = "SUSPENDED"
  <2> SUFFICES ASSUME NEW i \in DOMAIN p, q[i] = [p[i] EXCEPT !.status = "SUSPENDED"]
               PROVE  q[i].id = p[i].id /\ q[i].status = "SUSPENDED"
    BY <1>1
  <2> QED
    BY <1>2 DEF PoolEntry
<1>6. LoggedIn(p) => LoggedIn(q)
  BY <1>1, <1>5 DEF LoggedIn
<1>7. KeepsTerminal(p, q)
  BY <1>1, <1>5 DEF KeepsTerminal, _TERMINAL
<1> QED
  BY <1>4, <1>6, <1>7 DEF q

LEMMA KeepsTransitive ==
  ASSUME NEW p, NEW q, NEW r, KeepsTerminal(p, q), KeepsTerminal(q, r)
  PROVE KeepsTerminal(p, r)
BY DEF KeepsTerminal

\* An offer, accepted, displacing or rejected.
LEMMA OfferKeeps ==
  ASSUME NEW p \in Seq(PoolEntry), NEW id \in Nat, NEW rule \in Rules, NEW score \in Int, NEW os
  PROVE LET q == Offer(p, id, rule, score, os)
        IN  /\ q \in Seq(PoolEntry)
            /\ LoggedIn(p) => LoggedIn(q)
            /\ KeepsTerminal(p, q)
<1> DEFINE e == _make_entry(id, rule, score)
           w == Weakest(p, os)
           d == set_status(p, p[w].id, "SUSPENDED")
<1>1. Offer(p, id, rule, score, os) \in {p, Append(p, e), Append(d, e)}
  <2> HIDE DEF e, w, d
  <2>1. add_champion(p, id, rule, score, os) \in {p, Append(p, e), Append(d, e)}
    BY DEF add_champion, e, w, d
  <2> QED
    BY <2>1 DEF Offer
<1>2. e \in PoolEntry /\ e.status = "PAPER_ACTIVE"
  BY EntryMade DEF _make_entry
<1>3. /\ d \in Seq(PoolEntry) /\ (LoggedIn(p) => LoggedIn(d)) /\ KeepsTerminal(p, d)
  BY SuspensionKeeps
<1> HIDE DEF e, w, d
<1>4. /\ Append(p, e) \in Seq(PoolEntry) /\ (LoggedIn(p) => LoggedIn(Append(p, e)))
      /\ KeepsTerminal(p, Append(p, e))
  BY <1>2, AppendKeeps
<1>5. /\ Append(d, e) \in Seq(PoolEntry) /\ (LoggedIn(p) => LoggedIn(Append(d, e)))
      /\ KeepsTerminal(p, Append(d, e))
  BY <1>2, <1>3, AppendKeeps, KeepsTransitive
<1>6. KeepsTerminal(p, p)
  BY DEF KeepsTerminal
<1> QED
  BY <1>1, <1>4, <1>5, <1>6

\* What the feedback makes of an entry.
LEMMA ReevaluatedKeeps ==
  ASSUME NEW e \in PoolEntry, NEW own
  PROVE /\ Reevaluated(e, own) \in PoolEntry /\ Reevaluated(e, own).id = e.id
        /\ e.status \in _TERMINAL => Reevaluated(e, own) = e
<1> DEFINE new == evaluate_lifecycle(e, own)
           fails == IF failure(own) THEN e.fails + 1 ELSE 0
           status == CASE archive_metrics(own) /\ fails >= 3 -> "ARCHIVED"
                       [] ~(archive_metrics(own) /\ fails >= 3) /\ Suspends(own, fails)
                            -> "SUSPENDED"
                       [] OTHER -> IF probation(own) THEN "PROBATION"
                                   ELSE IF warn(own) THEN "WARNING"
                                   ELSE "PAPER_ACTIVE"
<1>1. new \in PoolEntry /\ new.id = e.id
  <2>1. new = [e EXCEPT !.fails = fails, !.status = status]
    BY DEF evaluate_lifecycle
  <2>2. fails \in Nat
    BY DEF PoolEntry
  <2>3. status \in Status
    <3> HIDE DEF fails
    <3> QED
      BY DEF Status, OCCUPYING_STATUSES, _TERMINAL
  <2> HIDE DEF fails, status, new
  <2> QED
    BY <2>1, <2>2, <2>3 DEF PoolEntry
<1>2. e.status \in _TERMINAL => e.status \notin OCCUPYING_STATUSES
  BY DEF _TERMINAL, OCCUPYING_STATUSES
<1> HIDE DEF new
<1> QED
  BY <1>1, <1>2 DEF Reevaluated, new

LEMMA KeepsItself == ASSUME NEW p PROVE KeepsTerminal(p, p)
BY DEF KeepsTerminal

-----------------------------------------------------------------------------
(***************************************************************************)
(* The scripts: what a step of one of them may do, and that each action is *)
(* such a step.                                                            *)
(***************************************************************************)
\* It has no copy of the pool yet, or gives it up; without overlap it starts
\* only while all is idle.
Empties(me) ==
  /\ pool' = pool /\ me.pool = <<>> /\ me.seen = 0
  /\ \/ me.pc = "idle"
     \/ me.pc = "load" /\ (setting.overlap \/ (ScriptsIdle /\ cycle.pc = "idle"))

Copies(me) == pool' = pool /\ me.pc = "run" /\ me.pool = pool /\ me.seen = Len(outcomes)

Offers(s, me) ==
  /\ pool' = pool /\ script[s].pc = "run" /\ me.pc \in {"run", "save"}
  /\ me.seen = script[s].seen
  /\ \/ me.pool = script[s].pool
     \/ \E id \in Nat, rule \in Rules, score \in Int :
          me.pool = Offer(script[s].pool, id, rule, score, Evidence(s))

Writes(s, me) ==
  /\ \/ pool' = script[s].pool /\ script[s].pc = "save" /\ me.pc = "count"
     \/ pool' = pool /\ script[s].pc = "count" /\ me.pc = "record"
  /\ me.pool = script[s].pool /\ me.seen = script[s].seen

\* A step of script s that leaves it at me.
ScriptMove(s, me) ==
  /\ me \in Script /\ script' = [script EXCEPT ![s] = me] /\ counter' \in Nat
  /\ setting' = setting /\ outcomes' = outcomes /\ lifecycle' = lifecycle
  /\ cycle' = cycle /\ held' = held
  /\ \/ Empties(me) /\ (me.pc = "load" => script[s].pc = "idle")
     \/ Copies(me) /\ script[s].pc = "load"
     \/ Offers(s, me)
     \/ Writes(s, me)

Moves == \E s \in setting.scripts : \E me \in Script : ScriptMove(s, me)

LEMMA IdleIsScript ==
  /\ IdleScript \in Script /\ LoggedIn(IdleScript.pool)
  /\ IdleScript.pc = "idle" /\ IdleScript.pool = <<>> /\ IdleScript.seen = 0
BY EmptySeq DEF IdleScript, Script, LoggedIn

\* A script whose locals change stays a script.
LEMMA ScriptUpdated ==
  ASSUME NEW me \in Script, NEW at \in {"run", "save"}, NEW seq \in Nat
  PROVE /\ [me EXCEPT !.pc = at, !.seq = seq] \in Script
        /\ \A q \in Seq(PoolEntry) :
             /\ [me EXCEPT !.seq = seq, !.pool = q] \in Script
             /\ \A chosen \in Nat :
                  [me EXCEPT !.pc = at, !.seq = seq, !.pool = q, !.chosen = chosen] \in Script
BY DEF Script

\* What IInv says of one script.
LEMMA ScriptFacts ==
  ASSUME IInv, NEW s \in setting.scripts
  PROVE /\ script[s] \in Script /\ script[s].pool \in Seq(PoolEntry) /\ LoggedIn(script[s].pool)
        /\ pool \in Seq(PoolEntry) /\ counter \in Nat /\ outcomes \in Seq([id : Nat, rule : Rules, r : Int])
        /\ LoggedIn(pool)
        /\ ~setting.overlap /\ script[s].pc \in {"run", "save"} => KeepsTerminal(pool, script[s].pool)
BY DEF IInv, TypeOK, CopiesLogged, OneAtATime, Script

\* The setting is one of Settings, and its parts are of their types.
LEMMA SettingFacts ==
  ASSUME IInv
  PROVE /\ setting \in Settings /\ setting.batch \in Nat /\ setting.rules \subseteq Rules
        /\ setting.scores \subseteq Int /\ setting.results \subseteq Int
<1>1. setting \in Settings
  BY DEF IInv, TypeOK
<1>2. setting.batch \in Nat /\ setting.scores \subseteq Int /\ setting.results \subseteq Int
  BY <1>1, PoolAssumption
<1>3. setting.rules \subseteq Rules
  BY <1>1, Zenon DEF Rules
<1> QED
  BY <1>1, <1>2, <1>3

LEMMA LoadCountersMoves ==
  ASSUME IInv, setting' = setting, NEW s \in setting.scripts, load_counters(s)
  PROVE Moves
<1> DEFINE me == [IdleScript EXCEPT !.pc = "load", !.seq = counter]
<1>1. me \in Script /\ me.pc = "load" /\ me.pool = <<>> /\ me.seen = 0
  BY ScriptFacts, IdleIsScript DEF Script
<1> HIDE DEF me
<1>2. /\ script' = [script EXCEPT ![s] = me] /\ script[s].pc = "idle"
      /\ outcomes' = outcomes /\ lifecycle' = lifecycle /\ cycle' = cycle /\ held' = held
      /\ counter' \in Nat /\ pool' = pool
      /\ setting.overlap \/ (ScriptsIdle /\ cycle.pc = "idle")
  BY ScriptFacts DEF load_counters, me
<1>3. ScriptMove(s, me)
  BY <1>1, <1>2 DEF ScriptMove, Empties
<1> QED
  BY <1>1, <1>3 DEF Moves

LEMMA LoadPoolMoves ==
  ASSUME IInv, setting' = setting, NEW s \in setting.scripts, load_pool(s)
  PROVE Moves
<1> DEFINE me == [script[s] EXCEPT !.pc = "run", !.pool = pool, !.seen = Len(outcomes)]
<1>1. Len(outcomes) \in Nat /\ script[s] \in Script /\ pool \in Seq(PoolEntry)
  BY ScriptFacts, LenProperties
<1>2. me \in Script /\ me.pc = "run" /\ me.pool = pool /\ me.seen = Len(outcomes)
  BY <1>1 DEF Script
<1> HIDE DEF me
<1>3. /\ script' = [script EXCEPT ![s] = me] /\ script[s].pc = "load"
      /\ outcomes' = outcomes /\ lifecycle' = lifecycle /\ cycle' = cycle /\ held' = held
      /\ counter' \in Nat /\ pool' = pool
  BY ScriptFacts DEF load_pool, me
<1>4. ScriptMove(s, me)
  BY <1>2, <1>3 DEF ScriptMove, Copies
<1> QED
  BY <1>2, <1>4 DEF Moves

LEMMA RunFactoryCycleMoves ==
  ASSUME IInv, setting' = setting, run_factory_cycle
  PROVE Moves
<1> DEFINE me == script["factory"]
           next(n) == [me EXCEPT !.pc = "save", !.seq = @ + n]
           new(k, rule, score) == Offer(me.pool, me.seq + k, rule, score, Evidence("factory"))
           adopt(n, k, q) == [me EXCEPT !.pc = "save", !.seq = @ + n, !.pool = q,
                                        !.chosen = IF q = me.pool THEN 0 ELSE me.seq + k]
<1>1. /\ "factory" \in setting.scripts /\ me.pc = "run" /\ me \in Script
      /\ setting.batch \in Nat /\ setting.scores \subseteq Int /\ setting.rules \subseteq Rules
  <2>1. "factory" \in setting.scripts /\ me.pc = "run"
    BY DEF run_factory_cycle
  <2> QED
    BY <2>1, ScriptFacts, SettingFacts
<1>2. /\ outcomes' = outcomes /\ lifecycle' = lifecycle /\ cycle' = cycle /\ held' = held
      /\ counter' \in Nat /\ pool' = pool
  BY <1>1, ScriptFacts DEF run_factory_cycle
<1>3. PICK n \in 0..setting.batch :
        \/ script' = [script EXCEPT !["factory"] = next(n)]
        \/ \E k \in 0..n-1, rule \in setting.rules, score \in setting.scores :
             script' = [script EXCEPT !["factory"] = adopt(n, k, new(k, rule, score))]
  <2>1. \E n \in 0..setting.batch :
          \/ script' = [script EXCEPT !["factory"].pc = "save", !["factory"].seq = @ + n]
          \/ \E k \in 0..n-1, rule \in setting.rules, score \in setting.scores :
               script' = [script EXCEPT !["factory"] = adopt(n, k, new(k, rule, score))]
    BY DEF run_factory_cycle
  <2>2. "factory" \in DOMAIN script
    BY <1>1 DEF IInv, TypeOK
  <2>3. \A n : [script EXCEPT !["factory"].pc = "save", !["factory"].seq = @ + n]
               = [script EXCEPT !["factory"] = next(n)]
    BY <1>1, <2>2
  <2> HIDE DEF adopt, new, next
  <2> QED
    BY <2>1, <2>3
<1>4. n \in Nat /\ me.seq + n \in Nat
  BY <1>1 DEF Script
<1>5. CASE script' = [script EXCEPT !["factory"] = next(n)]
  <2>1. next(n).pc = "save" /\ next(n).pool = me.pool /\ next(n).seen = me.seen
    BY <1>1 DEF Script
  <2>2. next(n) \in Script
    BY <1>1, <1>4, ScriptUpdated
  <2> HIDE DEF next
  <2>3. ScriptMove("factory", next(n))
    BY <1>1, <1>2, <1>5, <2>1, <2>2 DEF ScriptMove, Offers
  <2> QED
    BY <1>1, <2>2, <2>3 DEF Moves
<1>6. ASSUME NEW k \in 0..n-1, NEW rule \in setting.rules, NEW score \in setting.scores,
             script' = [script EXCEPT !["factory"] = adopt(n, k, new(k, rule, score))]
      PROVE Moves
  <2>1. me.seq + k \in Nat /\ rule \in Rules /\ score \in Int /\ me.pool \in Seq(PoolEntry)
    BY <1>1, <1>4 DEF Script
  <2>2. PICK q \in Seq(PoolEntry) : q = new(k, rule, score)
    BY <2>1, OfferKeeps
  <2>3. PICK chosen \in Nat : chosen = IF q = me.pool THEN 0 ELSE me.seq + k
    BY <2>1
  <2>4. PICK after \in Script : after = adopt(n, k, q)
    BY <1>1, <1>4, <2>3, ScriptUpdated
  <2>5. after.pc = "save" /\ after.pool = q /\ after.seen = me.seen
    BY <1>1, <2>4 DEF Script
  <2>6. script' = [script EXCEPT !["factory"] = after]
    BY <1>6, <2>2, <2>4
  <2> HIDE DEF adopt
  <2>7. ScriptMove("factory", after)
    BY <1>1, <1>2, <2>1, <2>2, <2>5, <2>6 DEF ScriptMove, Offers
  <2> QED
    BY <1>1, <2>7 DEF Moves
<1> HIDE DEF next, adopt, new
<1> QED
  BY <1>3, <1>5, <1>6

LEMMA MineSurvivorMoves ==
  ASSUME IInv, setting' = setting, MineSurvivor
  PROVE Moves
<1> DEFINE me == script["miner"]
           next == [me EXCEPT !.seq = @ + 1]
           new(rule, score) == Offer(me.pool, me.seq, rule, score, Evidence("miner"))
           adopt(q) == [me EXCEPT !.seq = @ + 1, !.pool = q]
<1>1. /\ "miner" \in setting.scripts /\ me.pc = "run" /\ me \in Script
      /\ setting.scores \subseteq Int /\ setting.rules \subseteq Rules
  <2>1. "miner" \in setting.scripts /\ me.pc = "run"
    BY DEF MineSurvivor
  <2> QED
    BY <2>1, ScriptFacts, SettingFacts
<1>2. /\ outcomes' = outcomes /\ lifecycle' = lifecycle /\ cycle' = cycle /\ held' = held
      /\ counter' \in Nat /\ pool' = pool
  BY <1>1, ScriptFacts DEF MineSurvivor
<1>3. \/ script' = [script EXCEPT !["miner"] = next]
      \/ \E rule \in setting.rules, score \in setting.scores :
           script' = [script EXCEPT !["miner"] = adopt(new(rule, score))]
  <2>1. \/ script' = [script EXCEPT !["miner"].seq = @ + 1]
        \/ \E rule \in setting.rules, score \in setting.scores :
             script' = [script EXCEPT !["miner"].seq = @ + 1, !["miner"].pool = new(rule, score)]
    BY DEF MineSurvivor
  <2>2. "miner" \in DOMAIN script
    BY <1>1 DEF IInv, TypeOK
  <2>3. /\ [script EXCEPT !["miner"].seq = @ + 1] = [script EXCEPT !["miner"] = next]
        /\ \A q : [script EXCEPT !["miner"].seq = @ + 1, !["miner"].pool = q]
                  = [script EXCEPT !["miner"] = adopt(q)]
    BY <1>1, <2>2
  <2> HIDE DEF adopt, new, next
  <2> QED
    BY <2>1, <2>3
<1>4. me.seq \in Nat /\ me.seq + 1 \in Nat /\ me.pool \in Seq(PoolEntry)
  BY <1>1 DEF Script
<1>5. CASE script' = [script EXCEPT !["miner"] = next]
  <2>1. next \in Script /\ next.pc = "run" /\ next.pool = me.pool /\ next.seen = me.seen
    BY <1>1 DEF Script
  <2> HIDE DEF next
  <2>2. ScriptMove("miner", next)
    BY <1>1, <1>2, <1>5, <2>1 DEF ScriptMove, Offers
  <2> QED
    BY <1>1, <2>1, <2>2 DEF Moves
<1>6. ASSUME NEW rule \in setting.rules, NEW score \in setting.scores,
             script' = [script EXCEPT !["miner"] = adopt(new(rule, score))]
      PROVE Moves
  <2>1. rule \in Rules /\ score \in Int
    BY <1>1
  <2>2. PICK q \in Seq(PoolEntry) : q = new(rule, score)
    BY <1>4, <2>1, OfferKeeps
  <2>3. PICK after \in Script : after = adopt(q)
    BY <1>1, <1>4, ScriptUpdated
  <2>4. after.pc = "run" /\ after.pool = q /\ after.seen = me.seen
    BY <1>1, <2>3 DEF Script
  <2>5. script' = [script EXCEPT !["miner"] = after]
    BY <1>6, <2>2, <2>3
  <2> HIDE DEF adopt
  <2>6. ScriptMove("miner", after)
    BY <1>1, <1>2, <1>4, <2>1, <2>2, <2>4, <2>5 DEF ScriptMove, Offers
  <2> QED
    BY <1>1, <2>6 DEF Moves
<1> HIDE DEF next, adopt, new
<1> QED
  BY <1>3, <1>5, <1>6

LEMMA MineEndMoves ==
  ASSUME IInv, setting' = setting, MineEnd
  PROVE Moves
<1> DEFINE me == [script["miner"] EXCEPT !.pc = "save"]
<1>1. "miner" \in setting.scripts /\ script["miner"].pc = "run" /\ script["miner"] \in Script
  BY ScriptFacts DEF MineEnd
<1>2. /\ me \in Script /\ me.pc = "save" /\ me.pool = script["miner"].pool
      /\ me.seen = script["miner"].seen
  BY <1>1 DEF Script
<1>3. /\ script' = [script EXCEPT !["miner"] = me]
      /\ outcomes' = outcomes /\ lifecycle' = lifecycle /\ cycle' = cycle /\ held' = held
      /\ counter' \in Nat /\ pool' = pool
  BY <1>1, ScriptFacts DEF MineEnd
<1> HIDE DEF me
<1>4. ScriptMove("miner", me)
  BY <1>1, <1>2, <1>3 DEF ScriptMove, Offers
<1> QED
  BY <1>1, <1>2, <1>4 DEF Moves

LEMMA SavePoolMoves ==
  ASSUME IInv, setting' = setting, NEW s \in setting.scripts, save_pool(s)
  PROVE Moves
<1> DEFINE me == [script[s] EXCEPT !.pc = "count"]
<1>1. script[s] \in Script
  BY ScriptFacts
<1>2. me \in Script /\ me.pc = "count" /\ me.pool = script[s].pool /\ me.seen = script[s].seen
  BY <1>1 DEF Script
<1>3. /\ script' = [script EXCEPT ![s] = me]
      /\ outcomes' = outcomes /\ lifecycle' = lifecycle /\ cycle' = cycle /\ held' = held
      /\ counter' \in Nat /\ pool' = script[s].pool /\ script[s].pc = "save"
  BY ScriptFacts DEF save_pool
<1> HIDE DEF me
<1>4. ScriptMove(s, me)
  BY <1>2, <1>3 DEF ScriptMove, Writes
<1> QED
  BY <1>2, <1>4 DEF Moves

\* A script that ends, or is killed, gives its copy up.
LEMMA ScriptEnds ==
  ASSUME setting' = setting, outcomes' = outcomes, lifecycle' = lifecycle,
         cycle' = cycle, held' = held, counter' \in Nat, pool' = pool,
         NEW s \in setting.scripts, script' = [script EXCEPT ![s] = IdleScript]
  PROVE Moves
<1>1. ScriptMove(s, IdleScript)
  BY IdleIsScript DEF ScriptMove, Empties
<1> QED
  BY <1>1, IdleIsScript DEF Moves

LEMMA SaveCountersMoves ==
  ASSUME IInv, setting' = setting, NEW s \in setting.scripts, save_counters(s)
  PROVE Moves
<1>1. /\ outcomes' = outcomes /\ lifecycle' = lifecycle /\ cycle' = cycle /\ held' = held
      /\ pool' = pool /\ script[s].pc = "count" /\ counter' = script[s].seq
      /\ script[s] \in Script
  BY ScriptFacts DEF save_counters, NextSeq
<1>2. counter' \in Nat
  BY <1>1 DEF Script
<1>3. CASE s = "factory"
  <2> DEFINE me == [script[s] EXCEPT !.pc = "record"]
  <2>1. me \in Script /\ me.pc = "record" /\ me.pool = script[s].pool /\ me.seen = script[s].seen
    BY <1>1 DEF Script
  <2>2. script' = [script EXCEPT ![s] = me]
    BY <1>3 DEF save_counters
  <2> HIDE DEF me
  <2>3. ScriptMove(s, me)
    BY <1>1, <1>2, <2>1, <2>2 DEF ScriptMove, Writes
  <2> QED
    BY <2>1, <2>3 DEF Moves
<1>4. CASE s # "factory"
  <2>1. script' = [script EXCEPT ![s] = IdleScript]
    BY <1>4 DEF save_counters
  <2> QED
    BY <1>1, <1>2, <2>1, ScriptEnds
<1> QED
  BY <1>3, <1>4

LEMMA AppendDecisionMoves ==
  ASSUME IInv, setting' = setting, append_decision
  PROVE Moves
<1>1. "factory" \in setting.scripts /\ counter' \in Nat
  BY ScriptFacts DEF append_decision
<1> QED
  BY <1>1, ScriptEnds DEF append_decision

LEMMA ScriptCrashMoves ==
  ASSUME IInv, setting' = setting, NEW s \in setting.scripts, ScriptCrash(s)
  PROVE Moves
<1>1. counter' \in Nat
  BY ScriptFacts DEF ScriptCrash
<1> QED
  BY <1>1, ScriptEnds DEF ScriptCrash

\* A step of a script, or an action of the cycle.
LEMMA ScriptMoves ==
  ASSUME IInv, Next
  PROVE  \/ Moves
         \/ route_entries \/ Trade \/ LoadForFeedback \/ Evaluate \/ EndFeedback \/ CycleCrash
<1>1. setting' = setting
  BY DEF Next
<1>2. ASSUME NEW s \in setting.scripts, RunScript(s) \/ ScriptCrash(s) PROVE Moves
  BY <1>1, <1>2, LoadCountersMoves, LoadPoolMoves, SavePoolMoves, SaveCountersMoves,
     ScriptCrashMoves DEF RunScript
<1>3. CASE run_factory_cycle \/ MineSurvivor \/ MineEnd \/ append_decision
  BY <1>1, <1>3, RunFactoryCycleMoves, MineSurvivorMoves, MineEndMoves, AppendDecisionMoves
<1> QED
  BY <1>2, <1>3 DEF Next

\* No step of a script disturbs the invariant: what it saves is covered, and
\* without overlap nobody else holds a copy.
LEMMA MovesKeep ==
  ASSUME IInv, Moves
  PROVE IInv'
<1>1. PICK s \in setting.scripts, me \in Script : ScriptMove(s, me)
  BY DEF Moves
<1>2. /\ script \in [setting.scripts -> Script] /\ pool \in Seq(PoolEntry)
      /\ \A t \in setting.scripts : script[t] \in Script
  BY DEF IInv, TypeOK
<1>3. /\ script'[s] = me /\ script' \in [setting.scripts -> Script]
      /\ \A t \in setting.scripts \ {s} : script'[t] = script[t]
      /\ setting' = setting /\ outcomes' = outcomes /\ lifecycle' = lifecycle
      /\ cycle' = cycle /\ held' = held /\ counter' \in Nat
  BY <1>1, <1>2 DEF ScriptMove
<1>4. /\ pool' = pool \/ (pool' = script[s].pool /\ script[s].pc = "save" /\ me.pc = "count")
      /\ me.pc = "idle" \/ script[s].pc # "idle" \/ setting.overlap
           \/ (ScriptsIdle /\ cycle.pc = "idle")
  BY <1>1 DEF ScriptMove, Empties, Copies, Offers, Writes
<1>5. LoggedIn(me.pool) /\ (~setting.overlap /\ me.pc \in {"run", "save"} => KeepsTerminal(pool, me.pool))
  <2>1. /\ LoggedIn(script[s].pool) /\ script[s].pool \in Seq(PoolEntry) /\ LoggedIn(pool)
        /\ ~setting.overlap /\ script[s].pc \in {"run", "save"} => KeepsTerminal(pool, script[s].pool)
    BY ScriptFacts
  <2>2. CASE Empties(me)
    BY <2>2 DEF Empties, LoggedIn
  <2>3. CASE Copies(me)
    BY <2>1, <2>3, KeepsItself DEF Copies
  <2>4. CASE Offers(s, me)
    BY <2>1, <2>4, OfferKeeps, KeepsTransitive DEF Offers
  <2>5. CASE Writes(s, me)
    BY <2>1, <2>5 DEF Writes
  <2> QED
    BY <1>1, <2>2, <2>3, <2>4, <2>5 DEF ScriptMove
<1>6. TypeOK'
  <2>1. pool' \in Seq(PoolEntry)
    BY <1>2, <1>4, ScriptFacts
  <2> QED
    BY <1>3, <2>1 DEF IInv, TypeOK
<1>7. CopiesLogged'
  <2>1. \A p : LoggedIn(p)' <=> LoggedIn(p)
    BY <1>3 DEF LoggedIn
  <2>2. LoggedIn(pool')
    BY <1>4 DEF IInv, CopiesLogged
  <2>3. \A t \in setting.scripts : LoggedIn(script'[t].pool)
    BY <1>3, <1>5 DEF IInv, CopiesLogged
  <2>4. LoggedIn(cycle'.pool)
    BY <1>3 DEF IInv, CopiesLogged
  <2> QED
    BY <1>3, <2>2, <2>3, <2>4 DEF CopiesLogged, LoggedIn
<1>8. OneAtATime'
  <2> SUFFICES ASSUME ~setting.overlap PROVE OneAtATime'
    BY <1>3 DEF OneAtATime
  <2>1. /\ \A t \in setting.scripts : script[t].pc # "idle" =>
             cycle.pc = "idle" /\ \A u \in setting.scripts \ {t} : script[u].pc = "idle"
        /\ \A t \in setting.scripts : script[t].pc \in {"run", "save"} =>
             KeepsTerminal(pool, script[t].pool)
        /\ cycle.pc = "evaluate" => KeepsTerminal(pool, cycle.pool)
    BY DEF IInv, OneAtATime
  <2>2. me.pc # "idle" =>
          cycle.pc = "idle" /\ \A u \in setting.scripts \ {s} : script[u].pc = "idle"
    BY <1>4, <2>1 DEF ScriptsIdle
  <2>3. \A t \in setting.scripts : script'[t].pc # "idle" =>
          cycle.pc = "idle" /\ \A u \in setting.scripts \ {t} : script'[u].pc = "idle"
    BY <1>3, <2>1, <2>2
  <2>4. \A t \in setting.scripts : script'[t].pc \in {"run", "save"} =>
          KeepsTerminal(pool', script'[t].pool)
    BY <1>3, <1>4, <1>5, <2>1, <2>2
  <2>5. cycle.pc = "evaluate" => KeepsTerminal(pool', cycle.pool)
    BY <1>4, <2>1, <2>2
  <2> QED
    BY <1>3, <2>3, <2>4, <2>5 DEF OneAtATime, KeepsTerminal
<1> QED
  BY <1>6, <1>7, <1>8 DEF IInv

-----------------------------------------------------------------------------
(***************************************************************************)
(* The cycle, one lemma for each action.                                   *)
(***************************************************************************)
\* A step of the pipeline's cycle, which leaves it at me.  It may save its
\* copy, and without overlap it starts only while no script runs.
LEMMA CycleStep ==
  ASSUME IInv, setting' = setting, counter' = counter, script' = script,
         outcomes' \in Seq([id : Nat, rule : Rules, r : Int]), held' \in SUBSET Routed,
         NEW me \in Cycle, cycle' = me, me.pc = "evaluate" => me.next > 0,
         lifecycle \subseteq lifecycle', LoggedIn(me.pool)',
         \/ pool' = pool
         \/ pool' = cycle.pool /\ cycle.pc = "evaluate" /\ me.pc = "idle",
         ~setting.overlap =>
           /\ me.pc = "idle" \/ cycle.pc # "idle" \/ ScriptsIdle
           /\ me.pc = "evaluate" => KeepsTerminal(pool, me.pool)
  PROVE IInv'
<1>1. cycle \in Cycle /\ cycle.pool \in Seq(PoolEntry)
  BY DEF IInv, TypeOK, Cycle
<1>2. TypeOK'
  BY <1>1 DEF IInv, TypeOK
<1>3. CopiesLogged'
  <2>1. \A p : LoggedIn(p) => \A i \in DOMAIN p : p[i].status \in {"WARNING", "PROBATION", "ARCHIVED"}
                => \E rec \in lifecycle' : rec.id = p[i].id /\ rec.status = p[i].status
    BY DEF LoggedIn
  <2>2. LoggedIn(pool) /\ LoggedIn(cycle.pool) /\ \A s \in setting.scripts : LoggedIn(script[s].pool)
    BY DEF IInv, CopiesLogged
  <2>3. LoggedIn(pool)'
    BY <2>1, <2>2 DEF LoggedIn
  <2>4. LoggedIn(cycle.pool)'
    BY DEF LoggedIn
  <2>5. \A s \in setting.scripts : LoggedIn(script[s].pool)'
    BY <2>1, <2>2 DEF LoggedIn
  <2> QED
    BY <2>3, <2>4, <2>5 DEF CopiesLogged
<1>4. OneAtATime'
  <2> SUFFICES ASSUME ~setting.overlap PROVE OneAtATime'
    BY DEF OneAtATime
  <2>1. /\ \A s \in setting.scripts : script[s].pc # "idle" =>
             cycle.pc = "idle" /\ \A t \in setting.scripts \ {s} : script[t].pc = "idle"
        /\ \A s \in setting.scripts : script[s].pc \in {"run", "save"} =>
             KeepsTerminal(pool, script[s].pool)
    BY DEF IInv, OneAtATime
  <2>2. me.pc # "idle" => \A s \in setting.scripts : script[s].pc = "idle"
    BY <2>1 DEF ScriptsIdle
  <2>3. pool' # pool => \A s \in setting.scripts : script[s].pc = "idle"
    BY <2>1
  <2>4. \A s \in setting.scripts : script[s].pc # "idle" =>
          me.pc = "idle" /\ \A t \in setting.scripts \ {s} : script[t].pc = "idle"
    BY <2>1, <2>2
  <2>5. \A s \in setting.scripts : script[s].pc \in {"run", "save"} =>
          KeepsTerminal(pool', script[s].pool)
    BY <2>1, <2>3
  <2>6. me.pc = "evaluate" => KeepsTerminal(pool', me.pool)
    OBVIOUS
  <2> QED
    BY <2>4, <2>5, <2>6 DEF OneAtATime, KeepsTerminal
<1> QED
  BY <1>2, <1>3, <1>4 DEF IInv

LEMMA IdleIsCycle == IdleCycle \in Cycle /\ IdleCycle.pc = "idle" /\ IdleCycle.pool = <<>>
BY EmptySeq DEF IdleCycle, Cycle

\* What IInv says of the cycle.
LEMMA CycleFacts ==
  ASSUME IInv
  PROVE /\ cycle \in Cycle /\ pool \in Seq(PoolEntry) /\ held \in SUBSET Routed
        /\ outcomes \in Seq([id : Nat, rule : Rules, r : Int])
        /\ LoggedIn(pool) /\ LoggedIn(cycle.pool)
        /\ cycle.pc = "evaluate" => cycle.next > 0
        /\ ~setting.overlap /\ cycle.pc = "evaluate" => KeepsTerminal(pool, cycle.pool)
BY DEF IInv, TypeOK, CopiesLogged, OneAtATime

LEMMA PrimaryIsRouted ==
  ASSUME NEW p \in Seq(PoolEntry), NEW matched \in SUBSET _routable_entries(p)
  PROVE Primary(p, matched) \in SUBSET Routed
<1>1. \A i \in DOMAIN p : p[i] \in PoolEntry
  OBVIOUS
<1>2. \A i \in matched : p[i].id \in Nat /\ p[i].rule \in Rules
  BY <1>1 DEF _routable_entries, Occupying, PoolEntry
<1> QED
  BY <1>2 DEF Primary, Routed

LEMMA RouteEntriesKeeps ==
  ASSUME IInv, setting' = setting, route_entries
  PROVE IInv'
<1>1. PICK matched \in SUBSET _routable_entries(pool) :
        cycle' = [IdleCycle EXCEPT !.pc = "trade", !.primary = Primary(pool, matched)]
  BY DEF route_entries
<1>2. PICK primary \in SUBSET Routed : primary = Primary(pool, matched)
  BY CycleFacts, PrimaryIsRouted
<1> DEFINE me == [IdleCycle EXCEPT !.pc = "trade", !.primary = primary]
<1>3. me \in Cycle /\ me.pc = "trade" /\ me.pool = <<>>
  BY IdleIsCycle DEF Cycle
<1>4. LoggedIn(me.pool)'
  BY <1>3 DEF LoggedIn
<1>5. /\ counter' = counter /\ script' = script /\ cycle' = me
      /\ lifecycle' = lifecycle /\ pool' = pool /\ (setting.overlap \/ ScriptsIdle)
  BY <1>1, <1>2 DEF route_entries
<1>6. outcomes' \in Seq([id : Nat, rule : Rules, r : Int]) /\ held' \in SUBSET Routed
  BY CycleFacts DEF route_entries
<1> HIDE DEF me
<1> QED
  BY <1>3, <1>4, <1>5, <1>6, CycleStep

LEMMA TradeKeeps ==
  ASSUME IInv, setting' = setting, Trade
  PROVE IInv'
<1>1. cycle \in Cycle /\ LoggedIn(cycle.pool) /\ cycle.pc = "trade"
  BY CycleFacts DEF Trade
<1>2. PICK me \in Cycle : me = [cycle EXCEPT !.pc = "load"]
  BY <1>1 DEF Cycle
<1>3. me.pc = "load" /\ me.pool = cycle.pool
  BY <1>1, <1>2 DEF Cycle
<1>4. /\ counter' = counter /\ script' = script /\ cycle' = me
      /\ lifecycle' = lifecycle /\ pool' = pool
  BY <1>2 DEF Trade
<1>5. /\ outcomes' \in Seq([id : Nat, rule : Rules, r : Int])
      /\ held' \in SUBSET Routed
  <2>1. /\ held \in SUBSET Routed /\ cycle.primary \in SUBSET Routed
        /\ outcomes \in Seq([id : Nat, rule : Rules, r : Int]) /\ setting.results \subseteq Int
    <3>1. setting.results \subseteq Int
      BY SettingFacts
    <3> QED
      BY <3>1, CycleFacts DEF Cycle, IInv, TypeOK
  <2>2. PICK closed \in {{}} \cup IF Len(outcomes) < setting.outcomes THEN {held} ELSE {} :
          /\ \/ closed = {} /\ outcomes' = outcomes
             \/ \E b \in closed, r \in setting.results :
                  outcomes' = Append(outcomes, [id |-> b.id, rule |-> b.rule, r |-> r])
          /\ held' \in {held \ closed} \cup (IF held \ closed = {} THEN {cycle.primary} ELSE {})
    BY DEF Trade
  <2>3. closed \subseteq Routed
    BY <2>1
  <2>4. \A b \in closed, r \in setting.results :
          [id |-> b.id, rule |-> b.rule, r |-> r] \in [id : Nat, rule : Rules, r : Int]
    BY <2>1, <2>3 DEF Routed
  <2>5. outcomes' \in Seq([id : Nat, rule : Rules, r : Int])
    <3>1. CASE outcomes' = outcomes
      BY <2>1, <3>1
    <3>2. ASSUME NEW b \in closed, NEW r \in setting.results,
                 outcomes' = Append(outcomes, [id |-> b.id, rule |-> b.rule, r |-> r])
          PROVE outcomes' \in Seq([id : Nat, rule : Rules, r : Int])
      BY <2>1, <2>4, <3>2, AppendProperties
    <3> QED
      BY <2>2, <3>1, <3>2
  <2>6. held' \in SUBSET Routed
    BY <2>1, <2>2
  <2> QED
    BY <2>5, <2>6
<1>6. LoggedIn(me.pool)'
  <2>1. me.pool = cycle.pool /\ LoggedIn(cycle.pool) /\ lifecycle' = lifecycle
    BY <1>1, <1>3, <1>4
  <2> QED
    BY <2>1 DEF LoggedIn
<1> QED
  BY <1>1, <1>3, <1>4, <1>5, <1>6, CycleStep

LEMMA LoadForFeedbackKeeps ==
  ASSUME IInv, setting' = setting, LoadForFeedback
  PROVE IInv'
<1>1. /\ pool \in Seq(PoolEntry) /\ LoggedIn(pool) /\ held \in SUBSET Routed
      /\ outcomes \in Seq([id : Nat, rule : Rules, r : Int])
  BY CycleFacts
<1>2. PICK p \in Seq(PoolEntry) : p = pool
  BY <1>1
<1> DEFINE me == [IdleCycle EXCEPT !.pc = "evaluate", !.pool = p, !.next = 1]
<1>3. me \in Cycle /\ me.pc = "evaluate" /\ me.pool = p /\ me.next = 1
  BY IdleIsCycle DEF Cycle
<1> HIDE DEF me
<1>4. /\ counter' = counter /\ script' = script /\ cycle' = me /\ outcomes' = outcomes
      /\ held' = held /\ lifecycle' = lifecycle /\ pool' = pool /\ cycle.pc = "load"
  BY <1>2 DEF LoadForFeedback, me
<1>5. LoggedIn(me.pool)'
  BY <1>1, <1>2, <1>3, <1>4 DEF LoggedIn
<1>6. KeepsTerminal(pool, me.pool)
  BY <1>2, <1>3, KeepsItself
<1> QED
  BY <1>1, <1>3, <1>4, <1>5, <1>6, CycleStep

LEMMA CycleUpdated ==
  ASSUME NEW c \in Cycle, NEW q \in Seq(PoolEntry), NEW n \in Nat, NEW changed \in BOOLEAN
  PROVE [c EXCEPT !.pool = q, !.next = n, !.changed = changed] \in Cycle
BY DEF Cycle

\* An entry is recorded as what it becomes, unless it stays what it is.
LEMMA EvaluateKeeps ==
  ASSUME IInv, setting' = setting, Evaluate
  PROVE IInv'
<1>1. /\ cycle \in Cycle /\ LoggedIn(cycle.pool) /\ cycle.pc = "evaluate"
      /\ held' \in SUBSET Routed /\ outcomes' \in Seq([id : Nat, rule : Rules, r : Int])
      /\ ~setting.overlap => KeepsTerminal(pool, cycle.pool)
  BY CycleFacts DEF Evaluate
<1>2. PICK p \in Seq(PoolEntry), n \in Nat : p = cycle.pool /\ n = cycle.next
  BY <1>1 DEF Cycle
<1>3. n \in DOMAIN p /\ n > 0
  BY <1>1, <1>2, CycleFacts DEF Evaluate
<1>4. PICK e \in PoolEntry : e = p[n]
  BY <1>3
<1>5. PICK own : own = OutcomesOf(e.id, DOMAIN outcomes)
  OBVIOUS
<1>6. PICK new \in PoolEntry : /\ new = Reevaluated(e, own) /\ new.id = e.id
                               /\ e.status \in _TERMINAL => new = e
  BY ReevaluatedKeeps
<1>7. /\ counter' = counter /\ script' = script /\ pool' = pool
      /\ lifecycle' = lifecycle \cup Logged(e, new, Cardinality(own))
      /\ cycle' = [cycle EXCEPT !.pool[n] = new, !.next = @ + 1,
                                !.changed = @ \/ new.status # e.status]
  BY <1>2, <1>4, <1>5, <1>6 DEF Evaluate
<1> DEFINE q == [p EXCEPT ![n] = new]
<1>8. /\ q \in Seq(PoolEntry) /\ DOMAIN q = DOMAIN p /\ q[n] = new
      /\ \A i \in DOMAIN p \ {n} : q[i] = p[i]
  BY <1>3
<1> HIDE DEF q
<1> DEFINE changed == cycle.changed \/ new.status # e.status
<1>8b. changed \in BOOLEAN
  OBVIOUS
<1> HIDE DEF changed
<1>8c. n + 1 \in Nat
  OBVIOUS
<1>9. PICK me \in Cycle : me = [cycle EXCEPT !.pool = q, !.next = n + 1, !.changed = changed]
  BY <1>1, <1>8, <1>8b, <1>8c, CycleUpdated
<1>10. me.pc = "evaluate" /\ me.pool = q /\ me.next = n + 1
  BY <1>1, <1>9 DEF Cycle
<1>11. cycle' = me
  BY <1>1, <1>2, <1>7, <1>9 DEF Cycle, q, changed
<1>12. LoggedIn(me.pool)'
  <2>1. new.status # e.status =>
          \E rec \in lifecycle' : rec.id = new.id /\ rec.status = new.status
    <3> SUFFICES ASSUME new.status # e.status
                 PROVE \E rec \in lifecycle' : rec.id = new.id /\ rec.status = new.status
      OBVIOUS
    <3> DEFINE rec == [id |-> new.id, rule |-> new.rule, status |-> new.status, n |-> Cardinality(own)]
    <3>1. Logged(e, new, Cardinality(own)) = {rec}
      BY DEF Logged
    <3>2. rec.id = new.id /\ rec.status = new.status
      OBVIOUS
    <3> HIDE DEF rec
    <3> QED
      BY <1>7, <3>1, <3>2
  <2>2. \A i \in DOMAIN q : q[i].status \in {"WARNING", "PROBATION", "ARCHIVED"} =>
          \E rec \in lifecycle' : rec.id = q[i].id /\ rec.status = q[i].status
    <3> SUFFICES ASSUME NEW i \in DOMAIN q, q[i].status \in {"WARNING", "PROBATION", "ARCHIVED"}
                 PROVE \E rec \in lifecycle' : rec.id = q[i].id /\ rec.status = q[i].status
      OBVIOUS
    <3>1. CASE i = n /\ new.status # e.status
      BY <1>8, <2>1, <3>1
    <3>2. CASE i # n \/ new.status = e.status
      <4>1. q[i].id = p[i].id /\ q[i].status = p[i].status
        BY <1>4, <1>6, <1>8, <3>2
      <4>2. PICK rec \in lifecycle : rec.id = p[i].id /\ rec.status = p[i].status
        BY <1>1, <1>2, <1>8, <4>1 DEF LoggedIn
      <4> QED
        BY <1>7, <4>1, <4>2
    <3> QED
      BY <3>1, <3>2
  <2> QED
    BY <1>10, <2>2 DEF LoggedIn
<1>13. KeepsTerminal(p, q)
  BY <1>4, <1>6, <1>8 DEF KeepsTerminal
<1>14. ~setting.overlap => KeepsTerminal(pool, me.pool)
  BY <1>1, <1>2, <1>10, <1>13, KeepsTransitive
<1>15. lifecycle \subseteq lifecycle' /\ me.next > 0
  BY <1>7, <1>10
<1> QED
  BY <1>1, <1>7, <1>10, <1>11, <1>12, <1>14, <1>15, CycleStep

LEMMA EndFeedbackKeeps ==
  ASSUME IInv, setting' = setting, EndFeedback
  PROVE IInv'
<1>1. LoggedIn(IdleCycle.pool)'
  BY IdleIsCycle DEF LoggedIn
<1>2. /\ counter' = counter /\ script' = script /\ outcomes' = outcomes /\ held' = held
      /\ lifecycle' = lifecycle /\ cycle' = IdleCycle /\ cycle.pc = "evaluate"
      /\ pool' = pool \/ pool' = cycle.pool
  BY DEF EndFeedback
<1> QED
  BY <1>1, <1>2, IdleIsCycle, CycleFacts, CycleStep

LEMMA CycleCrashKeeps ==
  ASSUME IInv, setting' = setting, CycleCrash
  PROVE IInv'
<1>1. LoggedIn(IdleCycle.pool)'
  BY IdleIsCycle DEF LoggedIn
<1>2. /\ counter' = counter /\ script' = script /\ outcomes' = outcomes /\ held' = held
      /\ lifecycle' = lifecycle /\ cycle' = IdleCycle /\ pool' = pool
  BY DEF CycleCrash
<1> QED
  BY <1>1, <1>2, IdleIsCycle, CycleFacts, CycleStep

LEMMA InitEstablishes == Init => IInv
<1> SUFFICES ASSUME Init PROVE IInv
  OBVIOUS
<1>1. <<>> \in Seq(PoolEntry) /\ <<>> \in Seq([id : Nat, rule : Rules, r : Int])
  BY EmptySeq
<1>2. TypeOK
  BY <1>1, IdleIsScript, IdleIsCycle DEF Init, TypeOK
<1>3. CopiesLogged
  BY IdleIsScript, IdleIsCycle DEF Init, CopiesLogged, LoggedIn
<1>4. OneAtATime
  BY IdleIsCycle DEF Init, OneAtATime, IdleScript
<1> QED
  BY <1>2, <1>3, <1>4 DEF IInv

LEMMA NextKeeps == IInv /\ [Next]_vars => IInv'
<1> SUFFICES ASSUME IInv, [Next]_vars PROVE IInv'
  OBVIOUS
<1>1. CASE UNCHANGED vars
  BY <1>1 DEF vars, IInv, TypeOK, CopiesLogged, LoggedIn, OneAtATime, KeepsTerminal
<1>2. CASE Next
  BY <1>2, ScriptMoves, MovesKeep, RouteEntriesKeeps, TradeKeeps, LoadForFeedbackKeeps,
     EvaluateKeeps, EndFeedbackKeeps, CycleCrashKeeps DEF Next
<1> QED
  BY <1>1, <1>2

-----------------------------------------------------------------------------
(***************************************************************************)
(* The weakest entry: cross multiplication orders the scores.              *)
(***************************************************************************)
\* What a positive factor does to an order.
LEMMA Scaled ==
  ASSUME NEW a \in Int, NEW b \in Int, NEW d \in Nat \ {0}
  PROVE  a < b <=> a * d < b * d
<1>1. a < b => a * d < b * d
  OBVIOUS
<1>2. b <= a => b * d <= a * d
  OBVIOUS
<1> QED
  BY <1>1, <1>2

Fraction == [num : Int, den : Nat \ {0}]

\* A score below a second is below what is not below the second.
LEMMA BelowCarries ==
  ASSUME NEW a \in Fraction, NEW b \in Fraction, NEW c \in Fraction, Below(a, b), ~Below(c, b)
  PROVE  Below(a, c)
<1> DEFINE an == a.num ad == a.den bn == b.num bd == b.den cn == c.num cd == c.den
<1>1. an \in Int /\ bn \in Int /\ cn \in Int /\ ad \in Nat \ {0} /\ bd \in Nat \ {0} /\ cd \in Nat \ {0}
  BY DEF Fraction
<1>2. an * bd < bn * ad /\ bn * cd <= cn * bd
  <2>1. an * bd < bn * ad /\ ~(cn * bd < bn * cd)
    BY DEF Below
  <2>2. cn * bd \in Int /\ bn * cd \in Int
    BY <1>1
  <2> HIDE DEF an, ad, bn, bd, cn, cd
  <2> QED
    BY <2>1, <2>2
<1>3. Below(a, c) <=> an * cd < cn * ad
  BY DEF Below
<1> HIDE DEF an, ad, bn, bd, cn, cd
<1>4. (an * bd) * cd < (bn * ad) * cd
  BY <1>1, <1>2, Scaled
<1>5. (bn * cd) * ad <= (cn * bd) * ad
  BY <1>1, <1>2, Scaled
<1>6. /\ (an * bd) * cd = (an * cd) * bd /\ (bn * ad) * cd = (bn * cd) * ad
      /\ (cn * bd) * ad = (cn * ad) * bd
  BY <1>1
<1>7. (an * cd) * bd < (cn * ad) * bd
  BY <1>1, <1>4, <1>5, <1>6
<1> QED
  BY <1>1, <1>3, <1>7, Scaled

\* Of finitely many scores there is one that none is below, the first of its
\* equals.
LEMMA WeakestExists ==
  ASSUME NEW S, IsFiniteSet(S), S \subseteq Nat, S # {}, NEW f, \A i \in S : f[i] \in Fraction
  PROVE  \E i \in S : \A j \in S \ {i} : ~Below(f[j], f[i]) /\ (j < i => Below(f[i], f[j]))
<1> DEFINE Least(T, i) == \A j \in T \ {i} : ~Below(f[j], f[i]) /\ (j < i => Below(f[i], f[j]))
           G == {T \in SUBSET S : T # {} => \E i \in T : Least(T, i)}
<1>1. \A i, j, k \in S : Below(f[i], f[j]) /\ ~Below(f[k], f[j]) => Below(f[i], f[k])
  BY BelowCarries
<1>2. \A i, j \in S : Below(f[i], f[j]) => ~Below(f[j], f[i])
  <2> SUFFICES ASSUME NEW a \in Fraction, NEW b \in Fraction PROVE Below(a, b) => ~Below(b, a)
    OBVIOUS
  <2>1. PICK n \in Int, m \in Int : n = a.num * b.den /\ m = b.num * a.den
    BY DEF Fraction
  <2>2. ~(n < m /\ m < n)
    OBVIOUS
  <2> QED
    BY <2>1, <2>2 DEF Below
<1>3. ASSUME NEW T \in SUBSET S, \A x \in T : T \ {x} \in G PROVE T \in G
  <2> SUFFICES ASSUME NEW x \in T PROVE \E i \in T : Least(T, i)
    OBVIOUS
  <2>1. CASE T = {x}
    BY <2>1
  <2>2. CASE T # {x}
    <3>1. PICK m \in T \ {x} : Least(T \ {x}, m)
      BY <1>3, <2>2
    <3>2. CASE Below(f[x], f[m]) \/ (~Below(f[m], f[x]) /\ x < m)
      <4>1. ASSUME NEW j \in T \ {x} PROVE ~Below(f[j], f[x]) /\ (j < x => Below(f[x], f[j]))
        <5>1. (~Below(f[j], f[m]) /\ (j < m => Below(f[m], f[j]))) \/ j = m
          BY <3>1
        <5>2. ~Below(f[j], f[m])
          <6>1. j \in S /\ f[j] = f[j]
            OBVIOUS
          <6>2. CASE j = m
            BY <1>2, <6>1, <6>2
          <6> QED
            BY <5>1, <6>2
        <5>3. CASE Below(f[x], f[m])
          <6>1. Below(f[x], f[j])
            BY <1>1, <5>2, <5>3
          <6>2. ~Below(f[j], f[x])
            BY <1>1, <1>2, <6>1
          <6> QED
            BY <6>1, <6>2
        <5>4. CASE ~Below(f[m], f[x]) /\ x < m
          <6>1. ~Below(f[j], f[x])
            BY <1>1, <5>2, <5>4
          <6>2. ASSUME j < x PROVE Below(f[x], f[j])
            <7>1. j < m /\ j # m
              BY <5>4, <6>2
            <7>2. Below(f[m], f[j])
              BY <5>1, <7>1
            <7> QED
              BY <1>1, <5>4, <7>2
          <6> QED
            BY <6>1, <6>2
        <5> QED
          BY <3>2, <5>3, <5>4
      <4> QED
        BY <4>1
    <3>3. CASE ~(Below(f[x], f[m]) \/ (~Below(f[m], f[x]) /\ x < m))
      <4>1. ~Below(f[x], f[m]) /\ (x < m => Below(f[m], f[x]))
        BY <3>3
      <4>2. Least(T, m)
        BY <3>1, <4>1
      <4> QED
        BY <4>2
    <3> QED
      BY <3>2, <3>3
  <2> QED
    BY <2>1, <2>2
<1> HIDE DEF G
<1>4. SUBSET S \subseteq G
  BY <1>3, SetInduction
<1> USE DEF G
<1>5. S \in G
  BY <1>4
<1> QED
  BY <1>5

-----------------------------------------------------------------------------
(***************************************************************************)
(* Soundness of a pool.                                                    *)
(***************************************************************************)
\* The slots of a pool, and of a family in a market, are finitely many.
Family(p, rule) ==
  {j \in Occupying(p) : p[j].rule.family = rule.family /\ p[j].rule.symbol = rule.symbol}

LEMMA SlotsFinite ==
  ASSUME NEW p \in Seq(PoolEntry), NEW S, S \subseteq Occupying(p)
  PROVE  IsFiniteSet(S) /\ Cardinality(S) \in Nat /\ Cardinality(S) <= Cardinality(Occupying(p))
<1>1. Len(p) \in Int /\ 1 \in Int /\ DOMAIN p = 1..Len(p)
  OBVIOUS
<1>2. IsFiniteSet(DOMAIN p)
  BY <1>1, FS_Interval, Zenon
<1>3. Occupying(p) \subseteq DOMAIN p
  BY DEF Occupying
<1> QED
  BY <1>2, <1>3, FS_Subset, FS_CardinalityType

\* A pool some of whose slots are given up stays sound.
LEMMA SoundShrinks ==
  ASSUME NEW p \in Seq(PoolEntry), NEW q \in Seq(PoolEntry), PoolSound(p),
         Occupying(q) \subseteq Occupying(p),
         \A i \in Occupying(q) : q[i].id = p[i].id /\ q[i].rule = p[i].rule
  PROVE  /\ PoolSound(q)
         /\ \A rule : Family(q, rule) \subseteq Family(p, rule)
         /\ \A rule : family_count(q, rule) <= family_count(p, rule)
<1>1. /\ \A i, j \in Occupying(p) : i # j => p[i].rule # p[j].rule /\ p[i].id # p[j].id
      /\ Cardinality(Occupying(p)) <= Cap
      /\ \A i \in Occupying(p) : Cardinality(Family(p, p[i].rule)) <= MaxPerFamily
  BY DEF PoolSound, Family
<1>2. \A rule : Family(q, rule) \subseteq Family(p, rule) /\ Family(p, rule) \subseteq Occupying(p)
  BY DEF Family
<1>3. \A rule : /\ Cardinality(Family(q, rule)) \in Nat /\ Cardinality(Family(p, rule)) \in Nat
                /\ Cardinality(Family(q, rule)) <= Cardinality(Family(p, rule))
  <2> TAKE rule
  <2>1. IsFiniteSet(Family(p, rule))
    BY <1>2, SlotsFinite
  <2> QED
    BY <1>2, <2>1, FS_Subset, FS_CardinalityType
<1>4. Cardinality(Occupying(q)) <= Cardinality(Occupying(p)) /\ Cardinality(Occupying(p)) \in Nat
      /\ Cardinality(Occupying(q)) \in Nat
  BY SlotsFinite
<1>5. Cap \in Nat /\ MaxPerFamily \in Nat
  BY PoolAssumption
<1>6. \A i, j \in Occupying(q) : i # j => q[i].rule # q[j].rule /\ q[i].id # q[j].id
  BY <1>1
<1>7. Cardinality(Occupying(q)) <= Cap
  BY <1>1, <1>4, <1>5
<1>8. \A i \in Occupying(q) : Cardinality(Family(q, q[i].rule)) <= MaxPerFamily
  <2> SUFFICES ASSUME NEW i \in Occupying(q)
               PROVE Cardinality(Family(q, q[i].rule)) <= MaxPerFamily
    OBVIOUS
  <2>1. q[i].rule = p[i].rule /\ i \in Occupying(p)
    OBVIOUS
  <2>2. Cardinality(Family(p, q[i].rule)) <= MaxPerFamily
    BY <1>1, <2>1
  <2> QED
    BY <1>3, <1>5, <2>2
<1>9. PoolSound(q)
  BY <1>6, <1>7, <1>8 DEF PoolSound, Family
<1>10. \A rule : family_count(q, rule) <= family_count(p, rule)
  BY <1>3 DEF family_count, Family
<1> QED
  BY <1>2, <1>9, <1>10

\* A newcomer whose rules and id hold no slot, while the pool and its family
\* have room.
LEMMA SoundGrows ==
  ASSUME NEW p \in Seq(PoolEntry), PoolSound(p), NEW e \in PoolEntry,
         ~AlreadyActive(p, e.id, e.rule), Cardinality(Occupying(p)) < Cap,
         family_count(p, e.rule) < MaxPerFamily
  PROVE  PoolSound(Append(p, e))
<1> DEFINE q == Append(p, e)
           n == Len(p) + 1
<1>1. /\ \A i \in DOMAIN p : q[i] = p[i]
      /\ q[n] = e /\ n \notin DOMAIN p /\ DOMAIN q = DOMAIN p \cup {n}
  OBVIOUS
<1> HIDE DEF q, n
<1>2. /\ \A i, j \in Occupying(p) : i # j => p[i].rule # p[j].rule /\ p[i].id # p[j].id
      /\ \A i \in Occupying(p) : Cardinality(Family(p, p[i].rule)) <= MaxPerFamily
      /\ \A i \in Occupying(p) : p[i].rule # e.rule /\ p[i].id # e.id
  BY DEF PoolSound, Family, AlreadyActive
<1>3. Occupying(q) \subseteq Occupying(p) \cup {n} /\ n \notin Occupying(p)
  BY <1>1 DEF Occupying
<1>4. \A i \in Occupying(p) : q[i] = p[i]
  BY <1>1 DEF Occupying
<1>5. \A i, j \in Occupying(q) : i # j => q[i].rule # q[j].rule /\ q[i].id # q[j].id
  BY <1>1, <1>2, <1>3, <1>4
<1>6. \A S, T : /\ T \subseteq Occupying(p) /\ S \subseteq T \cup {n}
                => /\ Cardinality(S) \in Nat /\ Cardinality(T) \in Nat
                   /\ Cardinality(S) <= Cardinality(T) + 1
                   /\ S \subseteq T => Cardinality(S) <= Cardinality(T)
  <2> SUFFICES ASSUME NEW S, NEW T, T \subseteq Occupying(p), S \subseteq T \cup {n}
               PROVE  /\ Cardinality(S) \in Nat /\ Cardinality(T) \in Nat
                      /\ Cardinality(S) <= Cardinality(T) + 1
                      /\ S \subseteq T => Cardinality(S) <= Cardinality(T)
    OBVIOUS
  <2>1. IsFiniteSet(T) /\ Cardinality(T) \in Nat
    BY SlotsFinite
  <2>2. IsFiniteSet(T \cup {n}) /\ Cardinality(T \cup {n}) = Cardinality(T) + 1
    BY <1>3, <2>1, FS_AddElement
  <2>3. IsFiniteSet(S) /\ Cardinality(S) <= Cardinality(T \cup {n}) /\ Cardinality(S) \in Nat
    BY <2>2, FS_Subset, FS_CardinalityType
  <2>4. S \subseteq T => Cardinality(S) <= Cardinality(T)
    BY <2>1, FS_Subset
  <2> QED
    BY <2>1, <2>2, <2>3, <2>4
<1>7. Cap \in Nat /\ MaxPerFamily \in Nat
  BY PoolAssumption
<1>8. Cardinality(Occupying(q)) <= Cap
  <2>1. /\ Cardinality(Occupying(q)) \in Nat /\ Cardinality(Occupying(p)) \in Nat
        /\ Cardinality(Occupying(q)) <= Cardinality(Occupying(p)) + 1
    BY <1>3, <1>6
  <2> QED
    BY <1>7, <2>1
<1>9. ASSUME NEW i \in Occupying(q) PROVE Cardinality(Family(q, q[i].rule)) <= MaxPerFamily
  <2> DEFINE rule == q[i].rule
             same == rule.family = e.rule.family /\ rule.symbol = e.rule.symbol
  <2>1. Family(q, rule) \subseteq Family(p, rule) \cup {n} /\ Family(p, rule) \subseteq Occupying(p)
    BY <1>3, <1>4 DEF Family
  <2>2. /\ Cardinality(Family(q, rule)) \in Nat /\ Cardinality(Family(p, rule)) \in Nat
        /\ Cardinality(Family(q, rule)) <= Cardinality(Family(p, rule)) + 1
        /\ Family(q, rule) \subseteq Family(p, rule)
             => Cardinality(Family(q, rule)) <= Cardinality(Family(p, rule))
    BY <1>6, <2>1
  <2>3. CASE same
    <3>1. Family(p, rule) = Family(p, e.rule)
      BY <2>3 DEF Family
    <3>2. Cardinality(Family(p, rule)) < MaxPerFamily
      BY <3>1 DEF family_count, Family
    <3> QED
      BY <1>7, <2>2, <3>2
  <2>4. CASE ~same
    <3>1. n \notin Family(q, rule)
      BY <1>1, <2>4 DEF Family
    <3>2. Family(q, rule) \subseteq Family(p, rule)
      BY <2>1, <3>1
    <3>3. i \in Occupying(p) /\ rule = p[i].rule
      BY <1>1, <1>3, <1>4, <2>4
    <3>4. Cardinality(Family(p, rule)) <= MaxPerFamily
      BY <1>2, <3>3
    <3>5. Cardinality(Family(q, rule)) <= Cardinality(Family(p, rule))
      BY <2>2, <3>2
    <3> QED
      BY <1>7, <2>2, <3>4, <3>5
  <2> QED
    BY <2>3, <2>4
<1> HIDE DEF q
<1>10. PoolSound(q)
  BY <1>5, <1>8, <1>9 DEF PoolSound, Family
<1> QED
  BY <1>10 DEF q

\* The outcomes are finitely many, each with an id, rules and an integer R.
LEMMA OutcomeFacts ==
  ASSUME IInv
  PROVE  /\ \A i \in DOMAIN outcomes : /\ outcomes[i].r \in Int
                                       /\ outcomes[i].id \in Nat /\ outcomes[i].rule \in Rules
         /\ \A S : S \subseteq DOMAIN outcomes => IsFiniteSet(S) /\ Cardinality(S) \in Nat
<1>1. outcomes \in Seq([id : Nat, rule : Rules, r : Int])
  BY DEF IInv, TypeOK
<1>2. Len(outcomes) \in Int /\ 1 \in Int /\ DOMAIN outcomes = 1..Len(outcomes)
  BY <1>1
<1>3. IsFiniteSet(DOMAIN outcomes)
  BY <1>2, FS_Interval, Zenon
<1>4. \A i \in DOMAIN outcomes : outcomes[i] \in [id : Nat, rule : Rules, r : Int]
  BY <1>1, <1>2, ElementOfSeq
<1> QED
  BY <1>3, <1>4, FS_Subset, FS_CardinalityType

\* What has been seen of the outcomes gives every entry a score.
LEMMA SlsType ==
  ASSUME IInv, NEW os, os \subseteq DOMAIN outcomes, NEW e \in PoolEntry
  PROVE  Sls(e, os) \in Fraction
<1> DEFINE own == OutcomesOf(e.id, os)
           rs == [i \in DOMAIN outcomes |-> outcomes[i].r]
<1>1. own \subseteq DOMAIN outcomes
  BY DEF OutcomesOf
<1>2. IsFiniteSet(own) /\ Cardinality(own) \in Nat
  BY <1>1, OutcomeFacts
<1>3. \A i \in DOMAIN outcomes : outcomes[i].r \in Int
  BY OutcomeFacts
<1>4. SumR(own) \in Int
  <2>1. \A k \in DOMAIN outcomes : rs[k] \in Int
    BY <1>3
  <2>2. SumR(own) = SumFunctionOnSet(rs, own)
    BY DEF SumR
  <2> HIDE DEF own, rs
  <2>3. \A k \in own : rs[k] \in Int
    BY <1>1, <2>1
  <2> QED
    BY <1>2, <2>2, <2>3, SumType
<1> HIDE DEF own
<1>5. PseudoTrades \in Nat \ {0} /\ e.score \in Int
  BY PoolAssumption DEF PoolEntry
<1>6. SumR(own) + PseudoTrades * e.score \in Int /\ Cardinality(own) + PseudoTrades \in Nat \ {0}
  BY <1>2, <1>4, <1>5
<1> QED
  BY <1>6 DEF Sls, Fraction, own

\* A pool that holds a slot has a weakest one.
LEMMA WeakestOccupies ==
  ASSUME IInv, NEW os, os \subseteq DOMAIN outcomes, NEW p \in Seq(PoolEntry), Occupying(p) # {}
  PROVE  Weakest(p, os) \in Occupying(p)
<1> DEFINE S == Occupying(p)
           f == [i \in S |-> Sls(p[i], os)]
<1>1. S \subseteq DOMAIN p /\ DOMAIN p \subseteq Nat
  BY DEF Occupying
<1>2. IsFiniteSet(S) /\ S # {}
  BY SlotsFinite
<1>3. \A i \in S : f[i] \in Fraction
  <2>1. \A i \in S : p[i] \in PoolEntry
    BY <1>1
  <2> QED
    BY <2>1, SlsType
<1> HIDE DEF S, f
<1>4. \E i \in S : \A j \in S \ {i} : ~Below(f[j], f[i]) /\ (j < i => Below(f[i], f[j]))
  BY <1>1, <1>2, <1>3, WeakestExists
<1>5. \E i \in S : \A j \in S \ {i} : /\ ~Below(Sls(p[j], os), Sls(p[i], os))
                                      /\ j < i => Below(Sls(p[i], os), Sls(p[j], os))
  BY <1>4 DEF f
<1> QED
  BY <1>5 DEF Weakest, S

\* Whatever is offered, at whatever score, a sound pool stays sound.
LEMMA OfferSound ==
  ASSUME IInv, NEW os, os \subseteq DOMAIN outcomes, NEW p \in Seq(PoolEntry), PoolSound(p),
         NEW id \in Nat, NEW rule \in Rules, NEW score \in Int
  PROVE  PoolSound(Offer(p, id, rule, score, os))
<1> DEFINE e == _make_entry(id, rule, score)
           w == Weakest(p, os)
           d == set_status(p, p[w].id, "SUSPENDED")
<1>1. e \in PoolEntry /\ e.id = id /\ e.rule = rule
  BY EntryMade DEF _make_entry
<1>2. /\ Cap \in Nat \ {0} /\ MaxPerFamily \in Nat
      /\ Cardinality(Occupying(p)) \in Nat /\ Cardinality(Occupying(p)) <= Cap
      /\ family_count(p, rule) \in Nat
  <2>1. Family(p, rule) \subseteq Occupying(p)
    BY DEF Family
  <2> QED
    BY <2>1, PoolAssumption, SlotsFinite DEF PoolSound, family_count, Family
<1>3. CASE Offer(p, id, rule, score, os) = p
  BY <1>3
<1>4. CASE /\ Offer(p, id, rule, score, os) = Append(p, e)
           /\ ~AlreadyActive(p, id, rule) /\ HasSlot(p) /\ family_count(p, rule) < MaxPerFamily
  BY <1>1, <1>4, SoundGrows DEF HasSlot
<1>5. CASE /\ Offer(p, id, rule, score, os) = Append(d, e)
           /\ ~AlreadyActive(p, id, rule) /\ ~HasSlot(p) /\ family_count(p, rule) < MaxPerFamily
  <2>1. Occupying(p) # {}
    <3>1. Cardinality({}) = 0 /\ 0 < Cap
      BY <1>2, FS_EmptySet
    <3>2. ~(Cardinality(Occupying(p)) < Cap)
      BY <1>5 DEF HasSlot
    <3> QED
      BY <3>1, <3>2
  <2>2. w \in Occupying(p)
    BY <2>1, WeakestOccupies
  <2> HIDE DEF w
  <2>3. d \in Seq(PoolEntry)
    BY SuspensionKeeps
  <2>4. /\ DOMAIN d = DOMAIN p
        /\ \A i \in DOMAIN p : d[i] = IF p[i].id = p[w].id THEN [p[i] EXCEPT !.status = "SUSPENDED"]
                                                            ELSE p[i]
    BY DEF set_status
  <2>5. \A i \in DOMAIN p : p[i] \in PoolEntry
    OBVIOUS
  <2>6. /\ Occupying(d) \subseteq Occupying(p) \ {w}
        /\ \A i \in Occupying(d) : d[i].id = p[i].id /\ d[i].rule = p[i].rule
    <3>1. \A i \in DOMAIN p : p[i].id = p[w].id => d[i].status = "SUSPENDED"
      BY <2>4, <2>5 DEF PoolEntry
    <3>2. \A i \in DOMAIN p : i \in Occupying(d) => d[i] = p[i]
      BY <2>4, <3>1 DEF Occupying, OCCUPYING_STATUSES
    <3> QED
      BY <2>4, <3>1, <3>2 DEF Occupying, OCCUPYING_STATUSES
  <2> HIDE DEF d
  <2>7. PoolSound(d) /\ family_count(d, rule) <= family_count(p, rule)
    BY <2>3, <2>6, SoundShrinks
  <2>8. Cardinality(Occupying(d)) < Cap
    <3>1. IsFiniteSet(Occupying(p)) /\ IsFiniteSet(Occupying(p) \ {w})
          /\ Cardinality(Occupying(p) \ {w}) = Cardinality(Occupying(p)) - 1
      BY <2>2, SlotsFinite, FS_RemoveElement
    <3>2. Cardinality(Occupying(d)) <= Cardinality(Occupying(p) \ {w})
      BY <2>6, <3>1, FS_Subset
    <3>3. Cardinality(Occupying(d)) \in Nat
      BY <2>3, SlotsFinite
    <3> QED
      BY <1>2, <3>1, <3>2, <3>3
  <2>9. ~AlreadyActive(d, id, rule)
    BY <1>5, <2>6 DEF AlreadyActive
  <2>10. family_count(d, rule) < MaxPerFamily
    <3>1. family_count(d, rule) \in Nat
      <4>1. Family(d, rule) \subseteq Occupying(d)
        BY DEF Family
      <4> QED
        BY <2>3, <4>1, SlotsFinite DEF family_count, Family
    <3> QED
      BY <1>2, <1>5, <2>7, <3>1
  <2> QED
    BY <1>1, <1>5, <2>3, <2>7, <2>8, <2>9, <2>10, SoundGrows
<1>6. CASE family_count(p, rule) < MaxPerFamily
  <2> HIDE DEF e, w, d
  <2>1. Offer(p, id, rule, score, os) = add_champion(p, id, rule, score, os)
    BY <1>2, <1>6 DEF Offer
  <2>2. \/ add_champion(p, id, rule, score, os) = p
        \/ add_champion(p, id, rule, score, os) = Append(p, e)
             /\ ~AlreadyActive(p, id, rule) /\ HasSlot(p)
        \/ add_champion(p, id, rule, score, os) = Append(d, e)
             /\ ~AlreadyActive(p, id, rule) /\ ~HasSlot(p)
    BY DEF add_champion, e, w, d
  <2> QED
    BY <1>3, <1>4, <1>5, <1>6, <2>1, <2>2
<1>7. CASE ~(family_count(p, rule) < MaxPerFamily)
  BY <1>2, <1>3, <1>7 DEF Offer
<1> QED
  BY <1>6, <1>7

LEMMA EmptySound == PoolSound(<<>>)
<1>1. Occupying(<<>>) = {}
  BY DEF Occupying
<1> QED
  BY <1>1, FS_EmptySet, PoolAssumption DEF PoolSound

\* The rules stay, an entry without a slot is passed over, and what is found
\* degraded has a full warning window of its own.
LEMMA ReevaluatedJudges ==
  ASSUME NEW e \in PoolEntry, NEW own, Cardinality(own) \in Nat
  PROVE  LET new == Reevaluated(e, own)
         IN  /\ new.rule = e.rule
             /\ e.status \notin OCCUPYING_STATUSES => new = e
             /\ \/ new = e
                \/ new.status \in {"WARNING", "PROBATION", "ARCHIVED"} => Cardinality(own) >= WarnWindow
<1> DEFINE new == evaluate_lifecycle(e, own)
           fails == IF failure(own) THEN e.fails + 1 ELSE 0
           status == CASE archive_metrics(own) /\ fails >= 3 -> "ARCHIVED"
                       [] ~(archive_metrics(own) /\ fails >= 3) /\ Suspends(own, fails)
                            -> "SUSPENDED"
                       [] OTHER -> IF probation(own) THEN "PROBATION"
                                   ELSE IF warn(own) THEN "WARNING"
                                   ELSE "PAPER_ACTIVE"
<1>1. new.rule = e.rule /\ new.status = status
  <2>1. new = [e EXCEPT !.fails = fails, !.status = status]
    BY DEF evaluate_lifecycle
  <2> HIDE DEF fails, status, new
  <2> QED
    BY <2>1 DEF PoolEntry
<1>2. failure(own) => Cardinality(own) >= WarnWindow
  BY PoolAssumption DEF failure, warn, probation, _full_window
<1>3. fails >= 3 => failure(own)
  OBVIOUS
<1>4. status \in {"WARNING", "PROBATION", "ARCHIVED"} => failure(own)
  <2> HIDE DEF fails
  <2> QED
    BY <1>3 DEF failure
<1> HIDE DEF new, status, fails
<1> QED
  BY <1>1, <1>2, <1>4 DEF Reevaluated, new

\* One entry of the feedback's copy is replaced by what it is found to be.
LEMMA EvaluateReplaces ==
  ASSUME IInv, Evaluate
  PROVE  /\ cycle'.pc = "evaluate" /\ cycle'.primary = cycle.primary /\ cycle.pc = "evaluate"
         /\ pool' = pool /\ outcomes' = outcomes /\ held' = held /\ script' = script
         /\ \E n \in DOMAIN cycle.pool :
              cycle'.pool = [cycle.pool EXCEPT ![n] =
                Reevaluated(cycle.pool[n], OutcomesOf(cycle.pool[n].id, DOMAIN outcomes))]
<1>1. cycle \in Cycle /\ cycle.pool \in Seq(PoolEntry) /\ cycle.pc = "evaluate"
  BY CycleFacts DEF Evaluate, Cycle
<1>2. PICK p \in Seq(PoolEntry), n \in Nat : p = cycle.pool /\ n = cycle.next
  BY <1>1 DEF Cycle
<1>3. n \in DOMAIN p
  BY <1>1, <1>2, CycleFacts DEF Evaluate
<1>4. PICK new : new = Reevaluated(p[n], OutcomesOf(p[n].id, DOMAIN outcomes))
  OBVIOUS
<1>5. cycle' = [cycle EXCEPT !.pool[n] = new, !.next = @ + 1,
                             !.changed = @ \/ new.status # p[n].status]
  BY <1>2, <1>4 DEF Evaluate
<1>6. /\ cycle'.pool = [p EXCEPT ![n] = new] /\ cycle'.pc = "evaluate"
      /\ cycle'.primary = cycle.primary
  BY <1>1, <1>2, <1>5 DEF Cycle
<1> QED
  BY <1>1, <1>2, <1>3, <1>4, <1>6 DEF Evaluate

\* What else the cycle does: its copy is the file or none, and it may save it.
LEMMA CycleCopies ==
  ASSUME IInv, route_entries \/ LoadForFeedback \/ EndFeedback \/ CycleCrash
  PROVE  /\ script' = script /\ outcomes' = outcomes /\ held' = held
         /\ \/ /\ cycle'.pool = <<>> /\ pool' = pool /\ cycle'.pc \in {"idle", "trade"}
               /\ cycle'.primary = {} \/ \E matched \in SUBSET Occupying(pool) :
                                           cycle'.primary = Primary(pool, matched)
            \/ /\ cycle'.pool = pool /\ pool' = pool /\ cycle'.pc = "evaluate"
               /\ cycle'.primary = {}
            \/ /\ cycle'.pool = <<>> /\ pool' = cycle.pool /\ cycle'.pc = "idle"
               /\ cycle.pc = "evaluate" /\ cycle'.primary = {}
<1>1. IdleCycle.pc = "idle" /\ IdleCycle.pool = <<>> /\ IdleCycle.primary = {}
  BY DEF IdleCycle
<1>2. CASE route_entries
  <2>1. PICK matched \in SUBSET Occupying(pool) :
          cycle' = [IdleCycle EXCEPT !.pc = "trade", !.primary = Primary(pool, matched)]
    BY <1>2 DEF route_entries, _routable_entries
  <2>2. PICK primary : primary = Primary(pool, matched)
    OBVIOUS
  <2>3. cycle'.pool = <<>> /\ cycle'.pc = "trade" /\ cycle'.primary = primary
    BY <2>1, <2>2 DEF IdleCycle
  <2> QED
    BY <1>2, <2>2, <2>3 DEF route_entries
<1>3. CASE LoadForFeedback
  <2>1. cycle' = [IdleCycle EXCEPT !.pc = "evaluate", !.pool = pool, !.next = 1]
    BY <1>3 DEF LoadForFeedback
  <2>2. cycle'.pool = pool /\ cycle'.pc = "evaluate" /\ cycle'.primary = {}
    BY <2>1 DEF IdleCycle
  <2> QED
    BY <1>3, <2>2 DEF LoadForFeedback
<1>4. CASE EndFeedback
  BY <1>1, <1>4 DEF EndFeedback
<1>5. CASE CycleCrash
  BY <1>1, <1>5 DEF CycleCrash
<1> QED
  BY <1>2, <1>3, <1>4, <1>5

\* A trade may add an outcome of what was held, and take the primary.
LEMMA TradeAdds ==
  ASSUME IInv, Trade
  PROVE  /\ script' = script /\ pool' = pool /\ cycle'.pool = cycle.pool /\ cycle'.pc = "load"
         /\ cycle'.primary = cycle.primary /\ held' \subseteq held \cup cycle.primary
         /\ DOMAIN outcomes \subseteq DOMAIN outcomes' /\ Len(outcomes) <= Len(outcomes')
         /\ \A i \in DOMAIN outcomes : outcomes'[i] = outcomes[i]
         /\ \A i \in DOMAIN outcomes' \ DOMAIN outcomes :
              \E b \in held : outcomes'[i].id = b.id /\ outcomes'[i].rule = b.rule
<1>1. cycle \in Cycle /\ outcomes \in Seq([id : Nat, rule : Rules, r : Int]) /\ held \in SUBSET Routed
  BY CycleFacts
<1>2. cycle'.pool = cycle.pool /\ cycle'.pc = "load" /\ cycle'.primary = cycle.primary
  BY <1>1 DEF Trade, Cycle
<1>3. PICK closed \in {{}} \cup IF Len(outcomes) < setting.outcomes THEN {held} ELSE {} :
        /\ \/ closed = {} /\ outcomes' = outcomes
           \/ \E b \in closed, r \in setting.results :
                outcomes' = Append(outcomes, [id |-> b.id, rule |-> b.rule, r |-> r])
        /\ held' \in {held \ closed} \cup (IF held \ closed = {} THEN {cycle.primary} ELSE {})
  BY DEF Trade
<1>4. closed \subseteq held /\ held' \subseteq held \cup cycle.primary
  BY <1>3
<1>5. CASE outcomes' = outcomes
  <2>1. Len(outcomes) <= Len(outcomes)
    BY <1>1
  <2> QED
    BY <1>2, <1>4, <1>5, <2>1 DEF Trade
<1>6. ASSUME NEW b \in closed, NEW x, x.id = b.id, x.rule = b.rule, outcomes' = Append(outcomes, x)
      PROVE  /\ DOMAIN outcomes \subseteq DOMAIN outcomes' /\ Len(outcomes) <= Len(outcomes')
             /\ \A i \in DOMAIN outcomes : outcomes'[i] = outcomes[i]
             /\ \A i \in DOMAIN outcomes' \ DOMAIN outcomes : outcomes'[i] = x
  BY <1>1, <1>6
<1>7. ASSUME NEW b \in closed, NEW r \in setting.results,
             outcomes' = Append(outcomes, [id |-> b.id, rule |-> b.rule, r |-> r])
      PROVE  /\ DOMAIN outcomes \subseteq DOMAIN outcomes' /\ Len(outcomes) <= Len(outcomes')
             /\ \A i \in DOMAIN outcomes : outcomes'[i] = outcomes[i]
             /\ \A i \in DOMAIN outcomes' \ DOMAIN outcomes :
                  outcomes'[i].id = b.id /\ outcomes'[i].rule = b.rule
  <2>1. PICK x : x = [id |-> b.id, rule |-> b.rule, r |-> r]
    OBVIOUS
  <2>2. x.id = b.id /\ x.rule = b.rule /\ outcomes' = Append(outcomes, x)
    BY <1>7, <2>1
  <2> QED
    BY <1>6, <2>2
<1> QED
  BY <1>2, <1>3, <1>4, <1>5, <1>7 DEF Trade

-----------------------------------------------------------------------------
(***************************************************************************)
(* Every copy of the pool is sound.                                        *)
(***************************************************************************)
LEMMA SoundMoves ==
  ASSUME IInv, SoundInv, Moves
  PROVE  SoundInv'
<1>1. PICK s \in setting.scripts, me \in Script : ScriptMove(s, me)
  BY DEF Moves
<1>2. /\ script'[s] = me /\ \A t \in setting.scripts \ {s} : script'[t] = script[t]
      /\ setting' = setting /\ outcomes' = outcomes /\ cycle' = cycle
  BY <1>1 DEF ScriptMove, IInv, TypeOK
<1>3. /\ PoolSound(pool) /\ PoolSound(cycle.pool)
      /\ \A t \in setting.scripts : PoolSound(script[t].pool) /\ script[t].seen <= Len(outcomes)
      /\ Len(outcomes) \in Nat /\ script[s].seen \in Nat /\ script[s].pool \in Seq(PoolEntry)
  BY ScriptFacts, LenProperties DEF SoundInv, PoolAlwaysSound, Script
<1>4. PoolSound(me.pool) /\ me.seen <= Len(outcomes)
  <2>1. CASE Empties(me)
    BY <1>3, <2>1, EmptySound DEF Empties
  <2>2. CASE Copies(me)
    BY <1>3, <2>2 DEF Copies
  <2>3. CASE Offers(s, me)
    <3>1. Evidence(s) \subseteq DOMAIN outcomes
      <4>1. DOMAIN outcomes = 1..Len(outcomes)
        BY ScriptFacts, LenProperties
      <4> QED
        BY <1>3, <4>1 DEF Evidence
    <3>2. me.seen <= Len(outcomes)
      BY <1>3, <2>3 DEF Offers
    <3> QED
      BY <1>3, <2>3, <3>1, <3>2, OfferSound DEF Offers
  <2>4. CASE Writes(s, me)
    BY <1>3, <2>4 DEF Writes
  <2> QED
    BY <1>1, <2>1, <2>2, <2>3, <2>4 DEF ScriptMove
<1>5. PoolSound(pool')
  BY <1>1, <1>3 DEF ScriptMove, Empties, Copies, Offers, Writes
<1>6. \A t \in setting'.scripts : PoolSound(script'[t].pool) /\ script'[t].seen <= Len(outcomes')
  BY <1>2, <1>3, <1>4
<1>7. PoolSound(cycle'.pool)
  BY <1>2, <1>3
<1> QED
  BY <1>5, <1>6, <1>7 DEF SoundInv, PoolAlwaysSound, PoolSound, Occupying

LEMMA SoundNext ==
  ASSUME IInv, SoundInv, [Next]_vars
  PROVE  SoundInv'
<1> DEFINE Whole == /\ PoolSound(pool') /\ PoolSound(cycle'.pool) /\ script' = script
                    /\ Len(outcomes) <= Len(outcomes')
<1>1. /\ PoolSound(pool) /\ PoolSound(cycle.pool)
      /\ \A t \in setting.scripts : PoolSound(script[t].pool) /\ script[t].seen <= Len(outcomes)
      /\ Len(outcomes) \in Nat /\ \A t \in setting.scripts : script[t].seen \in Nat
      /\ cycle.pool \in Seq(PoolEntry)
  BY ScriptFacts, CycleFacts, LenProperties DEF SoundInv, PoolAlwaysSound, Script, Cycle, IInv, TypeOK
<1>2. IInv'
  BY NextKeeps
<1>3. ASSUME setting' = setting, Whole PROVE SoundInv'
  <2>1. Len(outcomes') \in Nat
    BY <1>2, LenProperties DEF IInv, TypeOK
  <2>2. \A t \in setting'.scripts : PoolSound(script'[t].pool) /\ script'[t].seen <= Len(outcomes')
    BY <1>1, <1>3, <2>1
  <2> QED
    BY <1>3, <2>2 DEF SoundInv, PoolAlwaysSound, PoolSound, Occupying
<1>4. CASE UNCHANGED vars
  BY <1>1, <1>3, <1>4 DEF vars
<1>5. ASSUME route_entries \/ LoadForFeedback \/ EndFeedback \/ CycleCrash PROVE Whole
  BY <1>1, <1>5, CycleCopies, EmptySound
<1>6. ASSUME Trade PROVE Whole
  BY <1>1, <1>6, TradeAdds
<1>7. ASSUME Evaluate PROVE Whole
  <2>1. PICK n \in DOMAIN cycle.pool :
          cycle'.pool = [cycle.pool EXCEPT ![n] =
            Reevaluated(cycle.pool[n], OutcomesOf(cycle.pool[n].id, DOMAIN outcomes))]
    BY <1>7, EvaluateReplaces
  <2>2. PICK p \in Seq(PoolEntry), e \in PoolEntry : p = cycle.pool /\ e = p[n]
    BY <1>1
  <2>2a. PICK own : own = OutcomesOf(e.id, DOMAIN outcomes)
    OBVIOUS
  <2>3. PICK new \in PoolEntry : /\ new = Reevaluated(e, own) /\ new.id = e.id /\ new.rule = e.rule
                                 /\ e.status \notin OCCUPYING_STATUSES => new = e
    <3>1. Cardinality(own) \in Nat
      BY <2>2a, OutcomeFacts DEF OutcomesOf
    <3> QED
      BY <3>1, ReevaluatedKeeps, ReevaluatedJudges
  <2>4. PICK q \in Seq(PoolEntry) : /\ q = cycle'.pool /\ DOMAIN q = DOMAIN p /\ q[n] = new
                                    /\ \A i \in DOMAIN p \ {n} : q[i] = p[i]
    BY <2>1, <2>2, <2>2a, <2>3
  <2>5. Occupying(q) \subseteq Occupying(p)
    BY <2>2, <2>3, <2>4 DEF Occupying
  <2>6. \A i \in Occupying(q) : q[i].id = p[i].id /\ q[i].rule = p[i].rule
    BY <2>2, <2>3, <2>4 DEF Occupying
  <2>7. PoolSound(q)
    BY <1>1, <2>2, <2>5, <2>6, SoundShrinks
  <2> QED
    BY <1>1, <1>7, <2>4, <2>7, EvaluateReplaces
<1>8. CASE Next
  <2>1. setting' = setting
    BY <1>8 DEF Next
  <2> HIDE DEF Whole
  <2> QED
    BY <1>3, <1>5, <1>6, <1>7, <1>8, <2>1, ScriptMoves, SoundMoves
<1> QED
  BY <1>4, <1>8

-----------------------------------------------------------------------------
(***************************************************************************)
(* What a degraded strategy has earned, and that none is forgotten.        *)
(***************************************************************************)
Outcome == [id : Nat, rule : Rules, r : Int]
Degraded == {"WARNING", "PROBATION", "ARCHIVED"}

\* Earned, of a registry that is given.
EarnedIn(p, os) ==
  \A i \in DOMAIN p : p[i].status \in Degraded =>
    Cardinality({k \in DOMAIN os : os[k].id = p[i].id}) >= WarnWindow

LEMMA RegistryFinite ==
  ASSUME NEW os \in Seq(Outcome), NEW S, S \subseteq DOMAIN os
  PROVE  IsFiniteSet(S) /\ Cardinality(S) \in Nat
<1>1. Len(os) \in Int /\ 1 \in Int /\ DOMAIN os = 1..Len(os)
  OBVIOUS
<1>2. IsFiniteSet(DOMAIN os)
  BY <1>1, FS_Interval, Zenon
<1> QED
  BY <1>2, FS_Subset, FS_CardinalityType

\* What was earned stays earned as the registry grows.
LEMMA EarnedGrows ==
  ASSUME NEW os \in Seq(Outcome), NEW more \in Seq(Outcome), DOMAIN os \subseteq DOMAIN more,
         \A k \in DOMAIN os : more[k] = os[k], NEW p, EarnedIn(p, os)
  PROVE  EarnedIn(p, more)
<1> SUFFICES ASSUME NEW i \in DOMAIN p, p[i].status \in Degraded
             PROVE  Cardinality({k \in DOMAIN more : more[k].id = p[i].id}) >= WarnWindow
  BY DEF EarnedIn
<1> DEFINE S == {k \in DOMAIN os : os[k].id = p[i].id}
           T == {k \in DOMAIN more : more[k].id = p[i].id}
<1>1. S \subseteq T /\ T \subseteq DOMAIN more /\ S \subseteq DOMAIN os
  OBVIOUS
<1>2. Cardinality(S) >= WarnWindow
  BY DEF EarnedIn
<1> HIDE DEF S, T
<1>3. IsFiniteSet(T) /\ Cardinality(T) \in Nat /\ Cardinality(S) \in Nat
  BY <1>1, RegistryFinite
<1>4. Cardinality(S) <= Cardinality(T)
  BY <1>1, <1>3, FS_Subset
<1>5. Cardinality(T) >= WarnWindow
  BY <1>2, <1>3, <1>4, PoolAssumption
<1> QED
  BY <1>5 DEF T

\* An offer degrades nobody, and forgets nobody.
LEMMA OfferShape ==
  ASSUME NEW p \in Seq(PoolEntry), NEW id \in Nat, NEW rule \in Rules, NEW score \in Int, NEW os
  PROVE  LET q == Offer(p, id, rule, score, os)
         IN  /\ \A i \in DOMAIN q : q[i].status \in Degraded => i \in DOMAIN p /\ q[i] = p[i]
             /\ \A i \in DOMAIN p : i \in DOMAIN q /\ q[i].id = p[i].id /\ q[i].rule = p[i].rule
<1> DEFINE e == _make_entry(id, rule, score)
           w == Weakest(p, os)
           d == set_status(p, p[w].id, "SUSPENDED")
           Shaped(q) ==
             /\ \A i \in DOMAIN q : q[i].status \in Degraded => i \in DOMAIN p /\ q[i] = p[i]
             /\ \A i \in DOMAIN p : i \in DOMAIN q /\ q[i].id = p[i].id /\ q[i].rule = p[i].rule
<1>1. Offer(p, id, rule, score, os) \in {p, Append(p, e), Append(d, e)}
  <2> HIDE DEF e, w, d
  <2>1. add_champion(p, id, rule, score, os) \in {p, Append(p, e), Append(d, e)}
    BY DEF add_champion, e, w, d
  <2> QED
    BY <2>1 DEF Offer
<1>2. e \in PoolEntry /\ e.status \notin Degraded
  BY EntryMade DEF _make_entry, Degraded
<1>3. d \in Seq(PoolEntry)
  BY SuspensionKeeps
<1>4. /\ DOMAIN d = DOMAIN p
      /\ \A i \in DOMAIN p : d[i] = p[i] \/ d[i] = [p[i] EXCEPT !.status = "SUSPENDED"]
  BY DEF set_status
<1>5. \A i \in DOMAIN p : p[i] \in PoolEntry
  OBVIOUS
<1>6. \A i \in DOMAIN p : /\ d[i].status \in Degraded => d[i] = p[i]
                          /\ d[i].id = p[i].id /\ d[i].rule = p[i].rule
  BY <1>4, <1>5 DEF PoolEntry, Degraded
<1> HIDE DEF e, w, d
<1>7. Shaped(p)
  OBVIOUS
<1>8. ASSUME NEW b \in Seq(PoolEntry), Shaped(b) PROVE Shaped(Append(b, e))
  BY <1>2, <1>8
<1>9. Shaped(d)
  BY <1>4, <1>6
<1> HIDE DEF Shaped
<1>10. Shaped(Offer(p, id, rule, score, os))
  BY <1>1, <1>3, <1>7, <1>8, <1>9
<1> QED
  BY <1>10 DEF Shaped

LEMMA EarnedMoves ==
  ASSUME IInv, CopiesEarned, Moves
  PROVE  CopiesEarned'
<1>1. PICK s \in setting.scripts, me \in Script : ScriptMove(s, me)
  BY DEF Moves
<1>2. /\ script'[s] = me /\ \A t \in setting.scripts \ {s} : script'[t] = script[t]
      /\ setting' = setting /\ outcomes' = outcomes /\ cycle' = cycle
  BY <1>1 DEF ScriptMove, IInv, TypeOK
<1>3. /\ EarnedIn(pool, outcomes) /\ EarnedIn(cycle.pool, outcomes)
      /\ \A t \in setting.scripts : EarnedIn(script[t].pool, outcomes)
  BY DEF CopiesEarned, Earned, EarnedIn, OutcomesOf, Degraded
<1>4. EarnedIn(me.pool, outcomes)
  <2>1. CASE Empties(me)
    BY <2>1 DEF Empties, EarnedIn
  <2>2. CASE Copies(me)
    BY <1>3, <2>2 DEF Copies
  <2>3. CASE Offers(s, me)
    <3>1. CASE me.pool = script[s].pool
      BY <1>3, <3>1
    <3>2. ASSUME NEW id \in Nat, NEW rule \in Rules, NEW score \in Int,
                 me.pool = Offer(script[s].pool, id, rule, score, Evidence(s))
          PROVE  EarnedIn(me.pool, outcomes)
      <4>1. script[s].pool \in Seq(PoolEntry)
        BY ScriptFacts
      <4>2. \A i \in DOMAIN me.pool : me.pool[i].status \in Degraded =>
              i \in DOMAIN script[s].pool /\ me.pool[i] = script[s].pool[i]
        BY <3>2, <4>1, OfferShape
      <4> QED
        BY <1>3, <4>2 DEF EarnedIn
    <3> QED
      BY <2>3, <3>1, <3>2 DEF Offers
  <2>4. CASE Writes(s, me)
    BY <1>3, <2>4 DEF Writes
  <2> QED
    BY <1>1, <2>1, <2>2, <2>3, <2>4 DEF ScriptMove
<1>5. EarnedIn(pool', outcomes')
  BY <1>1, <1>2, <1>3 DEF ScriptMove, Empties, Copies, Offers, Writes
<1>6. \A t \in setting'.scripts : EarnedIn(script'[t].pool, outcomes')
  BY <1>2, <1>3, <1>4
<1>7. EarnedIn(cycle'.pool, outcomes')
  BY <1>2, <1>3
<1> QED
  BY <1>5, <1>6, <1>7 DEF CopiesEarned, Earned, EarnedIn, OutcomesOf, Degraded

LEMMA EarnedNext ==
  ASSUME IInv, CopiesEarned, [Next]_vars
  PROVE  CopiesEarned'
<1> DEFINE Safe == /\ EarnedIn(pool', outcomes') /\ EarnedIn(cycle'.pool, outcomes')
                   /\ \A t \in setting.scripts : EarnedIn(script'[t].pool, outcomes')
<1>1. /\ EarnedIn(pool, outcomes) /\ EarnedIn(cycle.pool, outcomes) /\ EarnedIn(<<>>, outcomes)
      /\ \A t \in setting.scripts : EarnedIn(script[t].pool, outcomes)
  BY DEF CopiesEarned, Earned, EarnedIn, OutcomesOf, Degraded
<1>2. ASSUME setting' = setting, Safe PROVE CopiesEarned'
  BY <1>2 DEF CopiesEarned, Earned, EarnedIn, OutcomesOf, Degraded
<1>3. CASE UNCHANGED vars
  BY <1>1, <1>2, <1>3 DEF vars
<1>4. ASSUME route_entries \/ LoadForFeedback \/ EndFeedback \/ CycleCrash PROVE Safe
  BY <1>1, <1>4, CycleCopies
<1>5. ASSUME Trade PROVE Safe
  <2>1. outcomes \in Seq(Outcome)
    BY CycleFacts DEF Outcome
  <2>2. outcomes' \in Seq(Outcome)
    BY NextKeeps DEF IInv, TypeOK, Outcome
  <2>3. \A p : EarnedIn(p, outcomes) => EarnedIn(p, outcomes')
    BY <1>5, <2>1, <2>2, TradeAdds, EarnedGrows
  <2> QED
    BY <1>1, <1>5, <2>3, TradeAdds
<1>6. ASSUME Evaluate PROVE Safe
  <2>1. PICK n \in DOMAIN cycle.pool :
          cycle'.pool = [cycle.pool EXCEPT ![n] =
            Reevaluated(cycle.pool[n], OutcomesOf(cycle.pool[n].id, DOMAIN outcomes))]
    BY <1>6, EvaluateReplaces
  <2>2. PICK p \in Seq(PoolEntry), e \in PoolEntry : p = cycle.pool /\ e = p[n]
    BY CycleFacts DEF Cycle
  <2>3. PICK own : own = {k \in DOMAIN outcomes : outcomes[k].id = e.id}
    OBVIOUS
  <2>4. PICK new \in PoolEntry : /\ new = Reevaluated(e, own) /\ new.id = e.id
                                 /\ \/ new = e
                                    \/ new.status \in Degraded => Cardinality(own) >= WarnWindow
    <3>1. Cardinality(own) \in Nat
      BY <2>3, OutcomeFacts
    <3> QED
      BY <3>1, ReevaluatedKeeps, ReevaluatedJudges DEF Degraded
  <2>5. PICK q : /\ q = cycle'.pool /\ DOMAIN q = DOMAIN p /\ q[n] = new
                 /\ \A i \in DOMAIN p \ {n} : q[i] = p[i]
    BY <2>1, <2>2, <2>3, <2>4 DEF OutcomesOf
  <2>6. EarnedIn(q, outcomes)
    <3> SUFFICES ASSUME NEW i \in DOMAIN q, q[i].status \in Degraded
                 PROVE  Cardinality({k \in DOMAIN outcomes : outcomes[k].id = q[i].id}) >= WarnWindow
      BY DEF EarnedIn
    <3>1. CASE i = n /\ new # e
      BY <2>3, <2>4, <2>5, <3>1
    <3>2. CASE i # n \/ new = e
      <4>1. q[i] = p[i] /\ i \in DOMAIN p
        BY <2>2, <2>5, <3>2
      <4> QED
        BY <1>1, <2>2, <4>1 DEF EarnedIn
    <3> QED
      BY <3>1, <3>2
  <2> QED
    BY <1>1, <1>6, <2>5, <2>6, EvaluateReplaces
<1>7. CASE Next
  <2>1. setting' = setting
    BY <1>7 DEF Next
  <2> HIDE DEF Safe
  <2> QED
    BY <1>2, <1>4, <1>5, <1>6, <1>7, <2>1, ScriptMoves, EarnedMoves
<1> QED
  BY <1>3, <1>7

\* Everything routed is in the file, and in what is saved next.
LEMMA RememberedMoves ==
  ASSUME IInv, Alone, NothingForgotten, Moves
  PROVE  NothingForgotten'
<1>1. PICK s \in setting.scripts, me \in Script : ScriptMove(s, me)
  BY DEF Moves
<1>2. /\ script'[s] = me /\ \A t \in setting.scripts \ {s} : script'[t] = script[t]
      /\ setting' = setting /\ outcomes' = outcomes /\ cycle' = cycle /\ held' = held
  BY <1>1 DEF ScriptMove, IInv, TypeOK
<1>3. Names(pool) \subseteq Names(pool')
  BY <1>1 DEF ScriptMove, Empties, Copies, Offers, Writes, NothingForgotten
<1>4. \A t \in setting.scripts \ {s} : script[t].pc \in {"run", "save"} => pool' = pool
  BY <1>1 DEF ScriptMove, Empties, Copies, Offers, Writes, Alone, IInv, OneAtATime
<1>5. me.pc \in {"run", "save"} => Names(pool') \subseteq Names(me.pool)
  <2>1. CASE Empties(me)
    BY <2>1 DEF Empties
  <2>2. CASE Copies(me)
    BY <2>2 DEF Copies
  <2>3. CASE Offers(s, me)
    <3>1. Names(pool) \subseteq Names(script[s].pool) /\ pool' = pool
      BY <2>3 DEF Offers, NothingForgotten
    <3>2. CASE me.pool = script[s].pool
      BY <3>1, <3>2
    <3>3. ASSUME NEW id \in Nat, NEW rule \in Rules, NEW score \in Int,
                 me.pool = Offer(script[s].pool, id, rule, score, Evidence(s))
          PROVE  Names(script[s].pool) \subseteq Names(me.pool)
      <4>1. script[s].pool \in Seq(PoolEntry)
        BY ScriptFacts
      <4>2. \A i \in DOMAIN script[s].pool :
              /\ i \in DOMAIN me.pool /\ me.pool[i].id = script[s].pool[i].id
              /\ me.pool[i].rule = script[s].pool[i].rule
        BY <3>3, <4>1, OfferShape
      <4> QED
        BY <4>2 DEF Names, Name
    <3> QED
      BY <2>3, <3>1, <3>2, <3>3 DEF Offers
  <2>4. CASE Writes(s, me)
    BY <2>4 DEF Writes
  <2> QED
    BY <1>1, <2>1, <2>2, <2>3, <2>4 DEF ScriptMove
<1>6. RoutedNames' = RoutedNames
  BY <1>2 DEF RoutedNames
<1>7. RoutedNames \subseteq Names(pool')
  BY <1>3 DEF NothingForgotten
<1>8. \A t \in setting.scripts :
        script'[t].pc \in {"run", "save"} => Names(pool') \subseteq Names(script'[t].pool)
  BY <1>2, <1>4, <1>5 DEF NothingForgotten
<1>9. cycle.pc = "evaluate" => Names(cycle.pool) \subseteq Names(pool')
  BY <1>3 DEF NothingForgotten
<1>10. cycle.pc = "evaluate" => RoutedNames \subseteq Names(cycle.pool)
  BY DEF NothingForgotten
<1> QED
  BY <1>2, <1>6, <1>7, <1>8, <1>9, <1>10 DEF NothingForgotten, Names

LEMMA PrimaryNamed ==
  ASSUME NEW p, NEW matched \in SUBSET Occupying(p)
  PROVE  \A b \in Primary(p, matched) : Name(b) \in Names(p)
BY DEF Primary, Name, Names, Occupying

LEMMA RememberedNext ==
  ASSUME IInv, Alone, NothingForgotten, [Next]_vars
  PROVE  NothingForgotten'
<1>1. /\ RoutedNames \subseteq Names(pool)
      /\ \A s \in setting.scripts :
           script[s].pc \in {"run", "save"} => Names(pool) \subseteq Names(script[s].pool)
      /\ cycle.pc = "evaluate" =>
           Names(cycle.pool) \subseteq Names(pool) /\ RoutedNames \subseteq Names(cycle.pool)
  BY DEF NothingForgotten
<1>2. ASSUME setting' = setting, script' = script, RoutedNames' \subseteq Names(pool'),
             Names(pool') \subseteq Names(pool),
             cycle'.pc = "evaluate" => /\ Names(cycle'.pool) \subseteq Names(pool')
                                       /\ RoutedNames' \subseteq Names(cycle'.pool)
      PROVE  NothingForgotten'
  <2>1. \A s \in setting.scripts :
          script[s].pc \in {"run", "save"} => Names(pool') \subseteq Names(script[s].pool)
    BY <1>1, <1>2
  <2> QED
    BY <1>2, <2>1 DEF NothingForgotten, Names
<1>3. ASSUME held' = held, outcomes' = outcomes, cycle'.primary \subseteq cycle.primary
      PROVE  RoutedNames' \subseteq RoutedNames
  BY <1>3 DEF RoutedNames
<1>4. CASE UNCHANGED vars
  BY <1>1, <1>2, <1>3, <1>4 DEF vars
<1>5. ASSUME setting' = setting, route_entries \/ LoadForFeedback \/ EndFeedback \/ CycleCrash
      PROVE  NothingForgotten'
  <2>1. script' = script /\ outcomes' = outcomes /\ held' = held
    BY <1>5, CycleCopies
  <2>2. CASE /\ cycle'.pool = <<>> /\ pool' = pool /\ cycle'.pc \in {"idle", "trade"}
             /\ cycle'.primary = {} \/ \E matched \in SUBSET Occupying(pool) :
                                         cycle'.primary = Primary(pool, matched)
    <3>1. \A b \in cycle'.primary : Name(b) \in Names(pool)
      BY <2>2, PrimaryNamed
    <3>2. RoutedNames' \subseteq Names(pool)
      BY <1>1, <2>1, <3>1 DEF RoutedNames, Name
    <3> QED
      BY <1>2, <1>5, <2>1, <2>2, <3>2
  <2>3. CASE /\ cycle'.pool = pool /\ pool' = pool /\ cycle'.pc = "evaluate"
             /\ cycle'.primary = {}
    BY <1>1, <1>2, <1>3, <1>5, <2>1, <2>3
  <2>4. CASE /\ cycle'.pool = <<>> /\ pool' = cycle.pool /\ cycle'.pc = "idle"
             /\ cycle.pc = "evaluate" /\ cycle'.primary = {}
    BY <1>1, <1>2, <1>3, <1>5, <2>1, <2>4
  <2> QED
    BY <1>5, <2>2, <2>3, <2>4, CycleCopies
<1>6. ASSUME setting' = setting, Trade PROVE NothingForgotten'
  <2>1. RoutedNames' \subseteq RoutedNames
    <3> SUFFICES ASSUME NEW x \in RoutedNames' PROVE x \in RoutedNames
      OBVIOUS
    <3>1. \A b \in held' \cup cycle'.primary : b \in held \cup cycle.primary
      BY <1>6, TradeAdds
    <3>2. \A i \in DOMAIN outcomes' :
            \/ i \in DOMAIN outcomes /\ outcomes'[i] = outcomes[i]
            \/ \E b \in held : outcomes'[i].id = b.id /\ outcomes'[i].rule = b.rule
      BY <1>6, TradeAdds
    <3>3. x \in {<<b.id, b.rule>> : b \in held' \cup cycle'.primary}
            \/ x \in {<<outcomes'[i].id, outcomes'[i].rule>> : i \in DOMAIN outcomes'}
      BY DEF RoutedNames, Name
    <3> QED
      BY <3>1, <3>2, <3>3 DEF RoutedNames, Name
  <2>2. script' = script /\ pool' = pool /\ cycle'.pc = "load"
    BY <1>6, TradeAdds
  <2> QED
    BY <1>1, <1>2, <1>6, <2>1, <2>2
<1>7. ASSUME setting' = setting, Evaluate PROVE NothingForgotten'
  <2>1. PICK n \in DOMAIN cycle.pool :
          cycle'.pool = [cycle.pool EXCEPT ![n] =
            Reevaluated(cycle.pool[n], OutcomesOf(cycle.pool[n].id, DOMAIN outcomes))]
    BY <1>7, EvaluateReplaces
  <2>2. PICK p \in Seq(PoolEntry), e \in PoolEntry : p = cycle.pool /\ e = p[n]
    BY CycleFacts DEF Cycle
  <2>3. PICK own : own = OutcomesOf(e.id, DOMAIN outcomes)
    OBVIOUS
  <2>4. PICK new : new = Reevaluated(e, own) /\ new.id = e.id /\ new.rule = e.rule
    <3>1. Cardinality(own) \in Nat
      BY <2>3, OutcomeFacts DEF OutcomesOf
    <3> QED
      BY <3>1, ReevaluatedKeeps, ReevaluatedJudges
  <2>5. PICK q : /\ q = cycle'.pool /\ DOMAIN q = DOMAIN p /\ q[n] = new
                 /\ \A i \in DOMAIN p \ {n} : q[i] = p[i]
    BY <2>1, <2>2, <2>3, <2>4
  <2>6. \A i \in DOMAIN p : q[i].id = p[i].id /\ q[i].rule = p[i].rule
    BY <2>2, <2>4, <2>5
  <2>7. Names(q) = Names(p)
    BY <2>5, <2>6 DEF Names, Name
  <2>8. RoutedNames' \subseteq RoutedNames
    BY <1>3, <1>7, EvaluateReplaces
  <2> QED
    BY <1>1, <1>2, <1>7, <2>2, <2>5, <2>7, <2>8, EvaluateReplaces
<1>8. CASE Next
  <2>1. setting' = setting
    BY <1>8 DEF Next
  <2> QED
    BY <1>5, <1>6, <1>7, <1>8, <2>1, ScriptMoves, RememberedMoves
<1> QED
  BY <1>4, <1>8

LEMMA JudgedNext ==
  ASSUME IInv, JudgedInv, [Next]_vars
  PROVE  JudgedInv'
<1>1. setting' = setting
  BY DEF vars, Next
<1>2. Alone' => Alone
  BY <1>1 DEF Alone
<1> QED
  BY <1>2, EarnedNext, RememberedNext DEF JudgedInv

\* A strategy is taken from the file, and judged by what is recorded under its
\* id: as long as no other entry has that id, all of it is its own.
LEMMA JudgedFollows ==
  ASSUME IInv, JudgedInv
  PROVE  JudgedOnOwnRecord
<1> SUFFICES ASSUME Alone, NEW i \in DOMAIN pool,
                    pool[i].status \in {"WARNING", "PROBATION", "ARCHIVED"},
                    \A j \in DOMAIN pool \ {i} : pool[j].id # pool[i].id
             PROVE  Cardinality({k \in DOMAIN outcomes : outcomes[k].rule = pool[i].rule}) >= WarnWindow
  BY DEF JudgedOnOwnRecord
<1> DEFINE S == {k \in DOMAIN outcomes : outcomes[k].id = pool[i].id}
           T == {k \in DOMAIN outcomes : outcomes[k].rule = pool[i].rule}
<1>1. Cardinality(S) >= WarnWindow
  BY DEF JudgedInv, CopiesEarned, Earned, OutcomesOf
<1>2. S \subseteq T
  <2> SUFFICES ASSUME NEW k \in DOMAIN outcomes, outcomes[k].id = pool[i].id
               PROVE  outcomes[k].rule = pool[i].rule
    OBVIOUS
  <2>1. Name(outcomes[k]) \in Names(pool)
    BY DEF JudgedInv, NothingForgotten, RoutedNames
  <2>2. PICK j \in DOMAIN pool : Name(outcomes[k]) = Name(pool[j])
    BY <2>1 DEF Names
  <2>3. pool[j].id = outcomes[k].id /\ pool[j].rule = outcomes[k].rule
    BY <2>2 DEF Name
  <2> QED
    BY <2>3
<1>3. S \subseteq DOMAIN outcomes /\ T \subseteq DOMAIN outcomes
  OBVIOUS
<1> HIDE DEF S, T
<1>4. IsFiniteSet(T) /\ Cardinality(T) \in Nat /\ Cardinality(S) \in Nat
  BY <1>3, OutcomeFacts
<1>5. Cardinality(S) <= Cardinality(T)
  BY <1>2, <1>4, FS_Subset
<1>6. Cardinality(T) >= WarnWindow
  BY <1>1, <1>4, <1>5, PoolAssumption
<1> QED
  BY <1>6 DEF T

-----------------------------------------------------------------------------
(***************************************************************************)
(* The theorems.                                                           *)
(***************************************************************************)
\* The types, the registry's cover of every copy of the pool, and, without
\* overlap, one process at a time that forgets no terminal entry.
THEOREM PoolInvariance == Spec => []IInv
<1>1. Init => IInv
  BY InitEstablishes
<1>2. IInv /\ [Next]_vars => IInv'
  BY NextKeeps
<1> QED
  BY <1>1, <1>2, PTL DEF Spec

\* Whatever writers overlap and wherever they are killed, a strategy shown as
\* degraded in the pool file has its change in the lifecycle registry.
THEOREM DegradedLogged == Spec => []DegradedIsLogged
<1>1. IInv => DegradedIsLogged
  BY DEF IInv, CopiesLogged, LoggedIn, DegradedIsLogged
<1> QED
  BY <1>1, PoolInvariance, PTL

\* As long as no script runs beside a cycle, a suspension or an archival is
\* never undone, for any pool, cap and batch.
THEOREM TerminalStays == Spec => TerminalStaysTerminal
<1> DEFINE Stays == \A i \in DOMAIN pool : pool[i].status \in _TERMINAL =>
             i \in DOMAIN pool' /\ pool'[i].id = pool[i].id /\ pool'[i].status \in _TERMINAL
<1>1. IInv /\ [Next]_vars => [~setting.overlap => Stays]_vars
  <2> SUFFICES ASSUME IInv, Next, ~setting.overlap PROVE Stays
    OBVIOUS
  <2>1. CASE pool' = pool
    BY <2>1
  <2>2. ASSUME KeepsTerminal(pool, pool') PROVE Stays
    BY <2>2 DEF KeepsTerminal
  <2>3. ASSUME NEW s \in setting.scripts, save_pool(s) PROVE Stays
    <3>1. script[s].pc = "save" /\ pool' = script[s].pool
      BY <2>3 DEF save_pool
    <3>2. KeepsTerminal(pool, pool')
      BY <3>1, ScriptFacts
    <3> QED
      BY <2>2, <3>2
  <2>4. CASE EndFeedback
    <3>1. cycle.pc = "evaluate" /\ (pool' = pool \/ pool' = cycle.pool)
      BY <2>4 DEF EndFeedback
    <3>2. KeepsTerminal(pool, pool')
      BY <3>1, CycleFacts, KeepsItself
    <3> QED
      BY <2>2, <3>2
  <2>5. ASSUME NEW s \in setting.scripts, RunScript(s) \/ ScriptCrash(s) PROVE Stays
    BY <2>1, <2>3, <2>5 DEF RunScript, load_counters, load_pool, save_counters, ScriptCrash
  <2>6. CASE run_factory_cycle \/ MineSurvivor \/ MineEnd \/ append_decision
    BY <2>1, <2>6 DEF run_factory_cycle, MineSurvivor, MineEnd, append_decision
  <2>7. CASE route_entries \/ Trade \/ LoadForFeedback \/ Evaluate \/ CycleCrash
    BY <2>1, <2>7 DEF route_entries, Trade, LoadForFeedback, Evaluate, CycleCrash
  <2> HIDE DEF Stays
  <2> QED
    BY <2>4, <2>5, <2>6, <2>7 DEF Next
<1> QED
  BY <1>1, PoolInvariance, PTL DEF Spec, TerminalStaysTerminal

\* However many scripts overlap, and wherever they are killed, each copy of the
\* pool is sound: the file, the scripts' and the feedback's.
THEOREM SoundInvariance == Spec => []SoundInv
<1>1. Init => SoundInv
  <2> SUFFICES ASSUME Init PROVE SoundInv
    OBVIOUS
  <2>1. /\ pool = <<>> /\ cycle.pool = <<>> /\ Len(outcomes) = 0
        /\ \A s \in setting.scripts : script[s].pool = <<>> /\ script[s].seen = 0
    BY IdleIsScript, IdleIsCycle DEF Init
  <2> QED
    BY <2>1, EmptySound DEF SoundInv, PoolAlwaysSound
<1>2. IInv /\ SoundInv /\ [Next]_vars => SoundInv'
  BY SoundNext
<1> QED
  BY <1>1, <1>2, PoolInvariance, PTL DEF Spec

\* No two strategies that hold a slot share their rules or their id, no more
\* hold one than the cap, and no family fills a market, for any cap, quota,
\* batch and scores, in whichever writer's copy is saved last.
THEOREM PoolStaysSound == Spec => []PoolAlwaysSound
<1>1. SoundInv => PoolAlwaysSound
  BY DEF SoundInv
<1> QED
  BY <1>1, SoundInvariance, PTL

\* Every degraded entry has earned it under its id, and, when no two scripts
\* run at a time, the file forgets no strategy that was ever routed.
THEOREM JudgedInvariance == Spec => []JudgedInv
<1>1. Init => JudgedInv
  <2> SUFFICES ASSUME Init PROVE JudgedInv
    OBVIOUS
  <2>1. /\ pool = <<>> /\ cycle.pool = <<>> /\ cycle.pc = "idle" /\ cycle.primary = {}
        /\ outcomes = <<>> /\ held = {}
        /\ \A s \in setting.scripts : script[s].pool = <<>> /\ script[s].pc = "idle"
    BY IdleIsScript DEF Init, IdleCycle
  <2>2. CopiesEarned
    BY <2>1 DEF CopiesEarned, Earned
  <2>3. NothingForgotten
    BY <2>1 DEF NothingForgotten, RoutedNames
  <2> QED
    BY <2>2, <2>3 DEF JudgedInv
<1>2. IInv /\ JudgedInv /\ [Next]_vars => JudgedInv'
  BY JudgedNext
<1> QED
  BY <1>1, <1>2, PoolInvariance, PTL DEF Spec

\* When no two scripts run at a time, a strategy whose id no other entry has is
\* degraded only after a full warning window of trades of its own rules, for
\* any windows of which the warning's is not the longer.
THEOREM JudgedByOwnTrades == Spec => []JudgedOnOwnRecord
<1>1. IInv /\ JudgedInv => JudgedOnOwnRecord
  BY JudgedFollows
<1> QED
  BY <1>1, PoolInvariance, JudgedInvariance, PTL

-----------------------------------------------------------------------------
\* A case's two worlds have one training slice wherever they are searched.
OneSearch ==
  /\ case \in Cases
  /\ pc \in {"mine", "breed"} => case.script = "miner"
  /\ HoldoutUntouched

LEMMA OneTrain ==
  ASSUME OneSearch, case.script = "miner"
  PROVE  Train("history") = Train("twin")
<1>1. case \in Cases
  BY DEF OneSearch
<1>2. /\ Len(case.history) = Len(case.twin)
      /\ SubSeq(case.history, 1, (Len(case.history) * TrainPercent) \div 100)
           = SubSeq(case.twin, 1, (Len(case.history) * TrainPercent) \div 100)
  BY <1>1, TwinAssumption
<1>3. /\ Train("history") = SubSeq(case.history, 1, (Len(case.history) * TrainPercent) \div 100)
      /\ Train("twin") = SubSeq(case.twin, 1, (Len(case.twin) * TrainPercent) \div 100)
  BY Zenon DEF Train, split_train_holdout
<1> QED
  BY <1>2, <1>3

\* What both worlds make of equal searches by equal draws is equal.
LEMMA JoinAlike ==
  ASSUME NEW child, Join(child), child["history"] = child["twin"], HoldoutUntouched,
         Train("history") = Train("twin")
  PROVE  HoldoutUntouched'
  BY DEF Join, HoldoutUntouched, World

LEMMA OneSearchKept ==
  ASSUME OneSearch, [SearchNext]_search_vars
  PROVE  OneSearch'
<1>1. CASE UNCHANGED search_vars
  BY <1>1 DEF search_vars, OneSearch, HoldoutUntouched
<1>2. CASE GenerateAttempt \/ SelectChampion \/ NextCycle \/ GateSurvivor
  BY <1>2 DEF GenerateAttempt, SelectChampion, NextCycle, GateSurvivor, OneSearch, HoldoutUntouched
<1>3. CASE MineStart
  <2>1. case' = case /\ pc' \in {"gate", "breed"} /\ case.script = "miner"
    BY <1>3 DEF MineStart, OneSearch
  <2>2. Train("history") = Train("twin")
    BY <2>1, OneTrain
  <2>3. breed'["history"] = Seeded(Train("history")) /\ breed'["twin"] = Seeded(Train("twin"))
    BY <1>3 DEF MineStart, World
  <2> QED
    BY <2>1, <2>2, <2>3 DEF OneSearch, HoldoutUntouched
<1>4. ASSUME pc = "breed", case' = case, pc' = pc, NEW child, Join(child), child["history"] = child["twin"]
      PROVE  OneSearch'
  <2>1. Train("history") = Train("twin") /\ HoldoutUntouched
    BY <1>4, OneTrain DEF OneSearch
  <2>2. HoldoutUntouched'
    BY <1>4, <2>1, JoinAlike
  <2> QED
    BY <1>4, <2>2 DEF OneSearch
<1>5. CASE Populate
  <2>1. PICK x \in RandomDraw : Join([w \in World |-> random_rule_set(breed[w].pool, x)])
    BY <1>5 DEF Populate
  <2> DEFINE child == [w \in World |-> random_rule_set(breed[w].pool, x)]
  <2>2. child["history"] = child["twin"]
    BY DEF World, OneSearch, HoldoutUntouched
  <2>3. pc = "breed" /\ case' = case /\ pc' = pc
    BY <1>5, <2>1 DEF Populate, Growing, Join
  <2> HIDE DEF child
  <2> QED
    BY <1>4, <2>1, <2>2, <2>3 DEF child
<1>6. CASE BreedRandom
  <2>1. PICK x \in RandomDraw, change \in Change :
          Join([w \in World |-> mutate(random_rule_set(breed[w].pool, x), breed[w].pool, change)])
    BY <1>6 DEF BreedRandom
  <2> DEFINE child == [w \in World |-> mutate(random_rule_set(breed[w].pool, x), breed[w].pool, change)]
  <2>2. child["history"] = child["twin"]
    BY DEF World, OneSearch, HoldoutUntouched
  <2>3. pc = "breed" /\ case' = case /\ pc' = pc
    BY <1>6, <2>1 DEF BreedRandom, Growing, Join
  <2> HIDE DEF child
  <2> QED
    BY <1>4, <2>1, <2>2, <2>3 DEF child
<1>7. CASE BreedCross
  <2> DEFINE born(w, x, change) ==
        mutate(crossover(breed[w].current[x.a], breed[w].current[x.b], x), breed[w].pool, change)
  <2>1. PICK x \in CrossDraw, change \in Change : Join([w \in World |-> born(w, x, change)])
    BY <1>7 DEF BreedCross
  <2> DEFINE child == [w \in World |-> born(w, x, change)]
  <2>2. child["history"] = child["twin"]
    BY DEF World, OneSearch, HoldoutUntouched
  <2>3. pc = "breed" /\ case' = case /\ pc' = pc
    BY <1>7, <2>1 DEF BreedCross, Growing, Join
  <2> HIDE DEF child
  <2> QED
    BY <1>4, <2>1, <2>2, <2>3 DEF child
<1>8. CASE Rank
  <2> DEFINE ScoreOf(w, rs) == (CHOOSE e \in Range(breed[w].scored) : e.key = _key(rs)).score
             elite(w) == [breed[w] EXCEPT !.current =
                            FirstOf(Ranked(@, [k \in DOMAIN @ |-> ScoreOf(w, @[k])]), EliteSize)]
  <2>1. breed' = [w \in World |-> elite(w)] /\ case' = case /\ pc' \in {pc, "gate"}
    BY <1>8 DEF Rank
  <2>2. elite("history") = elite("twin")
    BY DEF OneSearch, HoldoutUntouched
  <2> HIDE DEF elite
  <2> QED
    BY <2>1, <2>2 DEF OneSearch, HoldoutUntouched, World
<1> QED
  BY <1>1, <1>2, <1>3, <1>5, <1>6, <1>7, <1>8 DEF SearchNext

\* Thresholds, scores, ranks and children are what they are whatever the
\* holdout holds (rule_miner.mine_rule_sets on the slice of
\* split_train_holdout).
THEOREM SearchIsBlind == SearchSpec => []HoldoutUntouched
<1>1. SearchInit => OneSearch
  BY SearchAssumption DEF SearchInit, OneSearch, HoldoutUntouched, World
<1>2. OneSearch /\ [SearchNext]_search_vars => OneSearch'
  BY OneSearchKept
<1>3. OneSearch => HoldoutUntouched
  BY DEF OneSearch
<1> QED
  BY <1>1, <1>2, <1>3, PTL DEF SearchSpec

-----------------------------------------------------------------------------
(***************************************************************************)
(* The backtest on two frames that part at a bar: what both do before it.  *)
(***************************************************************************)
LEMMA SeqOfNone == SetToSeq({}) = <<>>
<1>1. Cardinality({}) = 0
  BY FS_EmptySet
<1>2. \A f \in [1..0 -> {}] : f = <<>>
  <2> TAKE f \in [1..0 -> {}]
  <2>1. f \in Seq({}) /\ Len(f) = 0
    BY SeqDef
  <2> QED
    BY <2>1, EmptySeq
<1>3. IsInjective(<<>>)
  BY DEF IsInjective
<1>4. <<>> \in [1..0 -> {}]
  OBVIOUS
<1> QED
  BY <1>1, <1>2, <1>3, <1>4 DEF SetToSeq

LEMMA SeqOfOne ==
  ASSUME NEW x
  PROVE  SetToSeq({x}) = <<x>>
<1>1. Cardinality({x}) = 1
  BY FS_Singleton
<1>2. \A f \in [1..1 -> {x}] : f = <<x>>
  OBVIOUS
<1>3. <<x>> \in [1..1 -> {x}]
  OBVIOUS
<1>4. IsInjective(<<x>>)
  BY DEF IsInjective
<1> QED
  BY <1>1, <1>2, <1>3, <1>4 DEF SetToSeq

\* What a closed trade keeps of its position.
LEMMA CloseFields ==
  ASSUME NEW spec, NEW p, NEW i, NEW x
  PROVE  LET u == _close(spec, p, i, x)
         IN  u.entry_bar = p.entry_bar /\ u.stop = p.stop /\ u.target = p.target /\ u.exit_bar = i
  BY DEF _close

-----------------------------------------------------------------------------
(***************************************************************************)
(* The simulation, turn by turn.                                           *)
(***************************************************************************)
Start == [i |-> 1, position |-> {}, trades |-> <<>>]
NextTurn(spec, frame, s) == IF s.i > Len(frame) THEN s ELSE Turn(spec, frame, s)
Runs(spec, frame, run, n) ==
  run = [k \in 0..n |-> IF k = 0 THEN Start ELSE NextTurn(spec, frame, run[k - 1])]

\* The recursive function of the turns exists.
LEMMA RunExists ==
  ASSUME NEW spec, NEW frame, NEW n \in Nat
  PROVE  \E run : Runs(spec, frame, run, n)
<1> DEFINE G == {k \in Nat : \E run : Runs(spec, frame, run, k)}
<1>1. 0 \in G
  <2> DEFINE run == [k \in 0..0 |-> Start]
  <2>1. Runs(spec, frame, run, 0)
    BY DEF Runs
  <2> QED
    BY <2>1
<1>2. ASSUME NEW k \in Nat, k \in G PROVE k + 1 \in G
  <2>1. PICK run : Runs(spec, frame, run, k)
    BY <1>2
  <2> DEFINE longer == [j \in 0..(k + 1) |-> IF j <= k THEN run[j] ELSE NextTurn(spec, frame, run[k])]
  <2>2. \A j \in 0..k : run[j] = IF j = 0 THEN Start ELSE NextTurn(spec, frame, run[j - 1])
    BY <2>1 DEF Runs
  <2>3. \A j \in 0..(k + 1) :
          longer[j] = IF j = 0 THEN Start ELSE NextTurn(spec, frame, longer[j - 1])
    <3> TAKE j \in 0..(k + 1)
    <3>1. CASE j \in 0..k
      <4>1. longer[j] = run[j] /\ (j # 0 => longer[j - 1] = run[j - 1])
        BY <3>1
      <4> QED
        BY <2>2, <3>1, <4>1
    <3>2. CASE j = k + 1
      <4>1. j # 0 /\ longer[j] = NextTurn(spec, frame, run[k]) /\ longer[j - 1] = run[k]
        BY <3>2
      <4> QED
        BY <4>1
    <3> QED
      BY <3>1, <3>2
  <2>4. longer = [j \in 0..(k + 1) |-> longer[j]]
    OBVIOUS
  <2> HIDE DEF longer
  <2>5. Runs(spec, frame, longer, k + 1)
    BY <2>3, <2>4 DEF Runs
  <2> QED
    BY <2>5
<1> HIDE DEF G
<1>3. n \in G
  BY <1>1, <1>2, NatSetInduction
<1> QED
  BY <1>3 DEF G

\* A simulation is a run of turns, then the close at the end of the frame.
RunOf(spec, frame, run) ==
  /\ simulate_strategy(spec, frame) = ForceClosed(spec, frame, run[Len(frame)])
  /\ run[0] = Start
  /\ \A k \in 1..Len(frame) : run[k] = NextTurn(spec, frame, run[k - 1])

LEMMA SimulationRuns ==
  ASSUME NEW spec, NEW frame, Len(frame) \in Nat
  PROVE  \E run : RunOf(spec, frame, run)
<1> DEFINE run == CHOOSE run : Runs(spec, frame, run, Len(frame))
<1>1. Runs(spec, frame, run, Len(frame))
  BY RunExists
<1>2. simulate_strategy(spec, frame) = ForceClosed(spec, frame, run[Len(frame)])
  BY DEF simulate_strategy, Runs, NextTurn, Start
<1> HIDE DEF run
<1>3. run[0] = Start /\ \A k \in 1..Len(frame) : run[k] = NextTurn(spec, frame, run[k - 1])
  BY <1>1 DEF Runs
<1> QED
  BY <1>2, <1>3 DEF RunOf

-----------------------------------------------------------------------------
LEMMA AppendRange ==
  ASSUME NEW s, s \in Seq(Range(s)), NEW x
  PROVE  /\ s \o <<x>> \in Seq(Range(s \o <<x>>))
         /\ Range(s \o <<x>>) = Range(s) \cup {x}
<1> DEFINE T == Range(s) \cup {x}
           t == s \o <<x>>
<1>1. s \in Seq(T) /\ <<x>> \in Seq(T)
  BY SeqMonotonic
<1>2. /\ t \in Seq(T) /\ Len(t) = Len(s) + 1 /\ Len(s) \in Nat
      /\ \A i \in 1..Len(s) + 1 : t[i] = IF i <= Len(s) THEN s[i] ELSE x
  BY <1>1
<1>3. DOMAIN s = 1..Len(s) /\ DOMAIN t = 1..Len(s) + 1
  BY <1>1, <1>2
<1> HIDE DEF t
<1>4. Range(t) = T
  BY <1>2, <1>3 DEF Range
<1> QED
  BY <1>2, <1>4 DEF t

\* Position p, and a trade that ended it on bar i.
Ends(u, p, i) ==
  u.entry_bar = p.entry_bar /\ u.stop = p.stop /\ u.target = p.target /\ u.exit_bar = i

\* What bar i makes of position p beside these trades.
After(t, trades, p, i) ==
  /\ t = [i |-> i + 1, position |-> t.position, trades |-> t.trades]
  /\ \/ t.position = {p} /\ t.trades = trades
     \/ \E u : /\ Ends(u, p, i) /\ t.position = {}
               /\ t.trades \in Seq(Range(t.trades)) /\ Range(t.trades) = Range(trades) \cup {u}

\* A bar closes a position at most once.
LEMMA ExitsOnce ==
  ASSUME NEW spec, NEW p, NEW bar, NEW i
  PROVE  Exit(spec, p, bar, i) = {} \/ \E x : Exit(spec, p, bar, i) = {x}
<1>1. CASE _hit_stop(spec.direction, bar, p.stop)
  BY <1>1 DEF Exit
<1>2. CASE ~_hit_stop(spec.direction, bar, p.stop) /\ _hit_target(spec.direction, bar, p.target)
  BY <1>2 DEF Exit
<1>3. CASE ~_hit_stop(spec.direction, bar, p.stop) /\ ~_hit_target(spec.direction, bar, p.target)
  BY <1>3 DEF Exit
<1> QED
  BY <1>1, <1>2, <1>3

\* What is held after a bar: the position, or a trade more.
LEMMA HeldAfter ==
  ASSUME NEW spec, NEW trades, trades \in Seq(Range(trades)), NEW p, NEW i,
         NEW exits, exits = {} \/ \E x : exits = {x}
  PROVE  After(Held(spec, trades, p, i, exits), trades, p, i)
<1>1. CASE exits = {}
  <2>1. {_close(spec, p, i, x) : x \in exits} = {}
    BY <1>1
  <2>2. Held(spec, trades, p, i, exits) = [i |-> i + 1, position |-> {p}, trades |-> trades \o <<>>]
    BY <1>1, <2>1, SeqOfNone DEF Held
  <2>3. trades \o <<>> = trades
    BY ConcatEmptySeq
  <2> QED
    BY <2>2, <2>3 DEF After
<1>2. ASSUME NEW x, exits = {x} PROVE After(Held(spec, trades, p, i, exits), trades, p, i)
  <2> DEFINE u == _close(spec, p, i, x)
  <2>1. {_close(spec, p, i, y) : y \in exits} = {u}
    BY <1>2
  <2>2. Ends(u, p, i)
    BY CloseFields DEF Ends
  <2> HIDE DEF u
  <2>3. Held(spec, trades, p, i, exits) = [i |-> i + 1, position |-> {}, trades |-> trades \o <<u>>]
    BY <1>2, <2>1, SeqOfOne DEF Held
  <2>4. /\ trades \o <<u>> \in Seq(Range(trades \o <<u>>))
        /\ Range(trades \o <<u>>) = Range(trades) \cup {u}
    BY AppendRange
  <2> QED
    BY <2>2, <2>3, <2>4 DEF After
<1> QED
  BY <1>1, <1>2

\* Managing an open position is holding it through the bar's exits.
LEMMA ManageIs ==
  ASSUME NEW spec, NEW frame, NEW trades, NEW p, NEW i
  PROVE  Manage(spec, frame, trades, {p}, i) = Held(spec, trades, p, i, Exit(spec, p, frame[i], i))
<1> DEFINE h == Held(spec, trades, p, i, Exit(spec, p, frame[i], i))
<1>1. {Held(spec, trades, q, i, Exit(spec, q, frame[i], i)) : q \in {p}} = {h}
  OBVIOUS
<1> HIDE DEF h
<1> QED
  BY <1>1 DEF Manage, h

\* It depends on that bar alone.
ManagedOn(spec, bar, trades, position, i) ==
  CHOOSE s \in {Held(spec, trades, p, i, Exit(spec, p, bar, i)) : p \in position} : TRUE

LEMMA ManageAlike ==
  ASSUME NEW spec, NEW here, NEW there, NEW trades, NEW position, NEW i, here[i] = there[i],
         NEW a, a = Manage(spec, here, trades, position, i),
         NEW b, b = Manage(spec, there, trades, position, i)
  PROVE  a = b
<1>1. a = ManagedOn(spec, here[i], trades, position, i)
  BY Zenon DEF Manage, ManagedOn
<1>2. b = ManagedOn(spec, there[i], trades, position, i)
  BY Zenon DEF Manage, ManagedOn
<1> QED
  BY <1>1, <1>2, Zenon

\* A managed position is kept, or closed at that bar.
LEMMA ManageAfter ==
  ASSUME NEW spec, NEW frame, NEW trades, trades \in Seq(Range(trades)), NEW p, NEW i
  PROVE  After(Manage(spec, frame, trades, {p}, i), trades, p, i)
<1> DEFINE exits == Exit(spec, p, frame[i], i)
<1>1. Manage(spec, frame, trades, {p}, i) = Held(spec, trades, p, i, exits)
  BY ManageIs
<1>2. exits = {} \/ \E x : exits = {x}
  BY ExitsOnce
<1> HIDE DEF exits
<1> QED
  BY <1>1, <1>2, HeldAfter

\* A bar enters at most once, and fills on the next bar.
LEMMA EntersOnce ==
  ASSUME NEW spec, NEW frame, NEW i
  PROVE  \/ Entry(spec, frame, i) = {}
         \/ \E p : Entry(spec, frame, i) = {p} /\ p.entry_bar = i + 1
<1> DEFINE p == Position(spec, frame, i)
<1>1. p.entry_bar = i + 1
  BY DEF Position
<1>2. Entry(spec, frame, i) \in {{}, {q \in {p} : q.risk > 0}}
  BY DEF Entry
<1> HIDE DEF p
<1>3. {q \in {p} : q.risk > 0} \in {{}, {p}}
  OBVIOUS
<1> QED
  BY <1>1, <1>2, <1>3

\* The state of the loop: what it holds was entered, and what it closed was
\* closed, on bars it has been over.
State(s) ==
  /\ s = [i |-> s.i, position |-> s.position, trades |-> s.trades]
  /\ s.i \in Nat \ {0} /\ s.trades \in Seq(Range(s.trades))
  /\ s.position = {} \/ \E p : s.position = {p} /\ p.entry_bar \in Nat /\ p.entry_bar < s.i
  /\ \A u \in Range(s.trades) : u.exit_bar \in Nat /\ u.exit_bar < s.i

Openings(trades, position, d) ==
  {<<u.entry_bar, u.stop, u.target>> : u \in {v \in Range(trades) \cup position : v.entry_bar <= d}}
Opened(s, d) == Openings(s.trades, s.position, d)
Closed(s, d) == {u \in Range(s.trades) : u.exit_bar < d}
\* Two states agree on what was opened up to bar d, or closed before it.
Agree(a, b, d) == Closed(a, d) = Closed(b, d) /\ Opened(a, d) = Opened(b, d)

\* The run starts flat on the first bar.
LEMMA StartState == State(Start) /\ Start.i = 1
<1>1. Range(<<>>) = {} /\ <<>> \in Seq({})
  BY DEF Range
<1> QED
  BY <1>1 DEF State, Start

\* The position of a state was entered before its bar.
LEMMA StateHolds ==
  ASSUME NEW s, State(s), NEW p, s.position = {p}
  PROVE  p.entry_bar \in Nat /\ p.entry_bar < s.i /\ s.i \in Nat
<1>1. s.i \in Nat
  BY DEF State
<1>2. s.position = {} \/ \E q : s.position = {q} /\ q.entry_bar \in Nat /\ q.entry_bar < s.i
  BY Zenon DEF State
<1>3. PICK q : s.position = {q} /\ q.entry_bar \in Nat /\ q.entry_bar < s.i
  BY <1>2
<1>4. q = p
  BY <1>3
<1> QED
  BY <1>1, <1>3, <1>4

\* What one bar does to a position.
LEMMA AfterState ==
  ASSUME NEW s, State(s), NEW p, NEW i \in Nat, p.entry_bar \in Nat, p.entry_bar <= i, s.i <= i,
         NEW trades, trades = s.trades, NEW t, After(t, trades, p, i)
  PROVE  State(t) /\ t.i = i + 1
<1>1. CASE t.position = {p} /\ t.trades = trades
  BY <1>1 DEF State, After
<1>2. ASSUME NEW u, Ends(u, p, i), t.position = {}, t.trades \in Seq(Range(t.trades)),
             Range(t.trades) = Range(trades) \cup {u}
      PROVE  State(t) /\ t.i = i + 1
  <2>1. t.i = i + 1
    BY DEF After
  <2>2. u.exit_bar = i
    BY <1>2 DEF Ends
  <2>3. t = [i |-> t.i, position |-> t.position, trades |-> t.trades] /\ t.i \in Nat \ {0}
    BY <2>1 DEF After
  <2>4. ASSUME NEW v \in Range(t.trades) PROVE v.exit_bar \in Nat /\ v.exit_bar < t.i
    <3>1. CASE v = u
      BY <2>1, <2>2, <3>1
    <3>2. CASE v \in Range(trades)
      BY <2>1, <3>2 DEF State
    <3> QED
      BY <1>2, <3>1, <3>2
  <2> QED
    BY <1>2, <2>1, <2>3, <2>4 DEF State
<1> QED
  BY <1>1, <1>2 DEF After

\* It opens nothing, and closes nothing before its own bar.
LEMMA AfterAgrees ==
  ASSUME NEW s, NEW p, NEW i \in Nat, NEW d \in Nat, d <= i,
         Opened(s, d) = Openings(s.trades, {p}, d),
         NEW trades, trades = s.trades, NEW t, After(t, trades, p, i)
  PROVE  Agree(t, s, d)
<1>1. CASE t.position = {p} /\ t.trades = trades
  BY <1>1 DEF Agree, Closed, Opened
<1>2. ASSUME NEW u, Ends(u, p, i), t.position = {}, Range(t.trades) = Range(trades) \cup {u}
      PROVE  Agree(t, s, d)
  <2>1. /\ ~(u.exit_bar < d)
        /\ u.entry_bar = p.entry_bar /\ u.stop = p.stop /\ u.target = p.target
    BY <1>2 DEF Ends
  <2>2. Closed(t, d) = Closed(s, d)
    BY <1>2, <2>1 DEF Closed
  <2>3. Opened(t, d) = Openings(s.trades, {p}, d)
    BY <1>2, <2>1 DEF Opened, Openings
  <2> QED
    BY <2>2, <2>3 DEF Agree
<1> QED
  BY <1>1, <1>2 DEF After

\* From bar d on, a turn leaves what was opened up to d and what was closed
\* before d as it is.
LEMMA TurnLater ==
  ASSUME NEW spec, NEW frame, Len(frame) \in Nat, NEW s, State(s), s.i <= Len(frame),
         NEW d \in Nat, d <= s.i, NEW t, t = Turn(spec, frame, s)
  PROVE  State(t) /\ t.i > s.i /\ Agree(t, s, d)
<1>0. PICK n \in Nat, trades \in {s.trades} : n = s.i /\ trades = s.trades
  BY DEF State
<1>1. trades \in Seq(Range(trades)) /\ d <= n /\ d <= n + 1 /\ n + 1 \in Nat
  BY <1>0 DEF State
<1>2. ASSUME NEW p, s.position = {p}
      PROVE  State(t) /\ t.i > s.i /\ Agree(t, s, d)
  <2>1. t = Manage(spec, frame, trades, {p}, n)
    BY <1>0, <1>2 DEF Turn
  <2>2. p.entry_bar \in Nat /\ p.entry_bar <= n /\ s.i <= n
    BY <1>0, <1>2, StateHolds
  <2>3. After(t, trades, p, n)
    BY <1>1, <2>1, ManageAfter
  <2>4. State(t) /\ t.i = n + 1
    BY <1>0, <2>2, <2>3, AfterState
  <2>5. Opened(s, d) = Openings(s.trades, {p}, d)
    BY <1>2 DEF Opened
  <2>6. Agree(t, s, d)
    BY <1>0, <1>1, <2>3, <2>5, AfterAgrees
  <2> QED
    BY <1>0, <2>4, <2>6
<1>3. CASE s.position = {} /\ Entry(spec, frame, n) = {}
  <2>1. t = [s EXCEPT !.i = @ + 1]
    BY <1>0, <1>3 DEF Turn
  <2>2. t = [i |-> n + 1, position |-> {}, trades |-> trades]
    BY <1>0, <1>3, <2>1 DEF State
  <2>3. State(t)
    BY <1>0, <1>1, <2>2 DEF State
  <2>4. Closed(t, d) = Closed(s, d)
    BY <1>0, <2>2 DEF Closed
  <2>5. Opened(t, d) = Opened(s, d)
    BY <1>0, <1>3, <2>2 DEF Opened
  <2> QED
    BY <1>0, <2>2, <2>3, <2>4, <2>5 DEF Agree
<1>4. ASSUME s.position = {}, NEW p, Entry(spec, frame, n) = {p}, p.entry_bar = n + 1
      PROVE  State(t) /\ t.i > s.i /\ Agree(t, s, d)
  <2> PICK m \in Nat : m = n + 1
    OBVIOUS
  <2>1. t = Manage(spec, frame, trades, {p}, m)
    BY <1>0, <1>4 DEF Turn
  <2>2. After(t, trades, p, m)
    BY <1>1, <2>1, ManageAfter
  <2>3. d <= m /\ p.entry_bar \in Nat /\ p.entry_bar <= m /\ s.i <= m
    BY <1>0, <1>1, <1>4
  <2>4. State(t) /\ t.i = m + 1
    BY <1>0, <2>2, <2>3, AfterState
  <2>5. Opened(s, d) = Openings(s.trades, {p}, d)
    BY <1>0, <1>1, <1>4 DEF Opened, Openings
  <2>6. Agree(t, s, d)
    BY <1>0, <2>2, <2>3, <2>5, AfterAgrees
  <2> QED
    BY <1>0, <2>4, <2>6
<1>5. s.position = {} \/ \E p : s.position = {p}
  BY DEF State
<1>6. Entry(spec, frame, n) = {} \/ \E p : Entry(spec, frame, n) = {p} /\ p.entry_bar = n + 1
  BY EntersOnce
<1> QED
  BY <1>2, <1>3, <1>4, <1>5, <1>6

\* Two frames that are one before bar d, which opens on both at one price.
PartAt(here, there, d) ==
  /\ Len(here) \in Nat /\ Len(there) = Len(here) /\ d \in 1..(Len(here) + 1)
  /\ \A i \in 1..(d - 1) : here[i] = there[i]
  /\ d <= Len(here) => here[d].open = there[d].open

SameUpTo(a, b, d) ==
  /\ State(a) /\ State(b)
  /\ \/ a = b /\ a.i <= d
     \/ a.i > d /\ b.i > d /\ Agree(a, b, d)

\* Before the bar the frames part at, both enter alike.
LEMMA EntersAlike ==
  ASSUME NEW spec, NEW here, NEW there, NEW d, PartAt(here, there, d), NEW i \in 1..(d - 1)
  PROVE  Entry(spec, here, i) = Entry(spec, there, i)
<1>1. here[i] = there[i] /\ Len(here) \in Nat /\ Len(there) = Len(here) /\ d \in Nat
  BY DEF PartAt
<1>2. i < Len(here) => here[i + 1].open = there[i + 1].open
  <2>1. CASE i + 1 < d
    BY <1>1, <2>1 DEF PartAt
  <2>2. CASE i + 1 = d
    BY <1>1, <2>2 DEF PartAt
  <2> QED
    BY <1>1, <2>1, <2>2
<1>3. i < Len(here) => Position(spec, here, i) = Position(spec, there, i)
  BY <1>1, <1>2 DEF Position, SignalAtr
<1>4. CASE i < Len(here)
  BY <1>1, <1>2, <1>3, <1>4 DEF Entry, SignalAtr
<1>5. CASE ~(i < Len(here))
  BY <1>1, <1>5 DEF Entry
<1> QED
  BY <1>4, <1>5

\* Two runs that agree with one state agree with each other.
LEMMA AgreeBoth ==
  ASSUME NEW a, NEW b, NEW s, NEW d, Agree(a, s, d), Agree(b, s, d)
  PROVE  Agree(a, b, d)
BY DEF Agree

\* One turn on both frames.
LEMMA TurnAlike ==
  ASSUME NEW spec, NEW here, NEW there, NEW d, PartAt(here, there, d),
         NEW s, State(s), s.i <= d, s.i <= Len(here),
         NEW a, a = Turn(spec, here, s), NEW b, b = Turn(spec, there, s)
  PROVE  SameUpTo(a, b, d) /\ a.i > s.i /\ b.i > s.i
<1>0. PICK n \in Nat, trades \in {s.trades} : n = s.i /\ trades = s.trades
  BY DEF State
<1>1. /\ trades \in Seq(Range(trades)) /\ d \in Nat /\ n # 0
      /\ Len(here) \in Nat /\ Len(there) = Len(here)
  BY <1>0 DEF State, PartAt
<1>2. CASE n = d
  <2>1. State(a) /\ a.i > s.i /\ Agree(a, s, d)
    BY <1>0, <1>1, <1>2, TurnLater
  <2>2. State(b) /\ b.i > s.i /\ Agree(b, s, d)
    BY <1>0, <1>1, <1>2, TurnLater
  <2>3. a.i > d /\ b.i > d
    BY <1>0, <1>2, <2>1, <2>2
  <2>4. Agree(a, b, d)
    BY <2>1, <2>2, AgreeBoth
  <2> QED
    BY <2>1, <2>2, <2>3, <2>4 DEF SameUpTo
<1>3. ASSUME n < d, NEW p, s.position = {p}
      PROVE  SameUpTo(a, b, d) /\ a.i > s.i /\ b.i > s.i
  <2>1. here[n] = there[n]
    BY <1>1, <1>3 DEF PartAt
  <2>2. a = Manage(spec, here, trades, {p}, n) /\ b = Manage(spec, there, trades, {p}, n)
    BY <1>0, <1>3 DEF Turn
  <2>5. a = b
    <3>1. PICK P : P = {p}
      OBVIOUS
    <3>2. a = Manage(spec, here, trades, P, n) /\ b = Manage(spec, there, trades, P, n)
      BY <2>2, <3>1
    <3> QED
      BY <2>1, <3>2, ManageAlike
  <2>6. After(a, trades, p, n)
    BY <1>1, <2>2, ManageAfter
  <2>7. p.entry_bar \in Nat /\ p.entry_bar <= n /\ s.i <= n
    BY <1>0, <1>3, StateHolds
  <2>8. State(a) /\ a.i = n + 1
    BY <1>0, <2>6, <2>7, AfterState
  <2>9. a.i <= d /\ a.i > s.i
    BY <1>0, <1>1, <1>3, <2>8
  <2> QED
    BY <2>5, <2>8, <2>9 DEF SameUpTo
<1>4. CASE n < d /\ s.position = {} /\ Entry(spec, here, n) = {}
  <2>1. Entry(spec, there, n) = {}
    BY <1>1, <1>4, EntersAlike
  <2>2. a = [s EXCEPT !.i = @ + 1] /\ b = [s EXCEPT !.i = @ + 1]
    BY <1>0, <1>4, <2>1 DEF Turn
  <2>3. a = [i |-> n + 1, position |-> {}, trades |-> trades] /\ a = b
    BY <1>0, <1>4, <2>2 DEF State
  <2>4. State(a)
    BY <1>0, <1>1, <1>4, <2>3 DEF State
  <2>5. a.i <= d /\ a.i > s.i
    BY <1>0, <1>1, <1>4, <2>3
  <2> QED
    BY <2>3, <2>4, <2>5 DEF SameUpTo
<1>5. ASSUME n < d, s.position = {}, NEW p, Entry(spec, here, n) = {p}, p.entry_bar = n + 1
      PROVE  SameUpTo(a, b, d) /\ a.i > s.i /\ b.i > s.i
  <2> PICK m \in Nat : m = n + 1
    OBVIOUS
  <2>1. n \in 1..(d - 1)
    BY <1>1, <1>5
  <2>2. Entry(spec, there, n) = {p}
    BY <1>5, <2>1, EntersAlike
  <2>3. a = Manage(spec, here, trades, {p}, m) /\ b = Manage(spec, there, trades, {p}, m)
    BY <1>0, <1>5, <2>2 DEF Turn
  <2>4. After(a, trades, p, m) /\ After(b, trades, p, m)
    BY <1>1, <2>3, ManageAfter
  <2>5. p.entry_bar \in Nat /\ p.entry_bar <= m /\ s.i <= m
    BY <1>0, <1>5
  <2>6. State(a) /\ a.i = m + 1
    BY <1>0, <2>4, <2>5, AfterState
  <2>7. State(b) /\ b.i = m + 1
    BY <1>0, <2>4, <2>5, AfterState
  <2>8. a.i > s.i /\ b.i > s.i
    BY <1>0, <2>6, <2>7
  <2>9. CASE m < d
    <3>1. here[m] = there[m]
      BY <1>1, <2>9 DEF PartAt
    <3>2. PICK P : P = {p}
      OBVIOUS
    <3>3. a = b
      <4>1. a = Manage(spec, here, trades, P, m) /\ b = Manage(spec, there, trades, P, m)
        BY <2>3, <3>2
      <4> QED
        BY <3>1, <4>1, ManageAlike
    <3>4. a.i <= d
      BY <1>1, <2>6, <2>9
    <3> QED
      BY <2>6, <2>8, <3>3, <3>4 DEF SameUpTo
  <2>10. CASE m = d
    <3> PICK q : q = [i |-> n, position |-> {p}, trades |-> trades]
      OBVIOUS
    <3>1. Opened(q, d) = Openings(q.trades, {p}, d) /\ trades = q.trades /\ d <= m
      BY <2>10 DEF Opened
    <3>2. Agree(a, q, d)
      BY <1>1, <2>4, <3>1, AfterAgrees
    <3>3. Agree(b, q, d)
      BY <1>1, <2>4, <3>1, AfterAgrees
    <3>4. Agree(a, b, d) /\ a.i > d /\ b.i > d
      BY <2>6, <2>7, <2>10, <3>2, <3>3, AgreeBoth
    <3> QED
      BY <2>6, <2>7, <2>8, <3>4 DEF SameUpTo
  <2> QED
    BY <1>1, <1>5, <2>9, <2>10
<1>6. s.position = {} \/ \E p : s.position = {p}
  BY DEF State
<1>7. Entry(spec, here, n) = {} \/ \E p : Entry(spec, here, n) = {p} /\ p.entry_bar = n + 1
  BY EntersOnce
<1>8. n = d \/ n < d
  BY <1>0, <1>1
<1> QED
  BY <1>2, <1>3, <1>4, <1>5, <1>6, <1>7, <1>8

\* Runs that agree with two states that agree, agree.
LEMMA AgreeTransits ==
  ASSUME NEW a, NEW b, NEW c, NEW e, NEW d, Agree(a, c, d), Agree(b, e, d), Agree(c, e, d)
  PROVE  Agree(a, b, d)
BY DEF Agree

\* The loop goes on after bar d, and over one bar at least.
LEMMA NextLater ==
  ASSUME NEW spec, NEW frame, Len(frame) \in Nat, NEW s, State(s), NEW d \in Nat, d < s.i,
         NEW k \in 1..Len(frame), s.i > k - 1, NEW t, t = NextTurn(spec, frame, s)
  PROVE  State(t) /\ t.i > d /\ t.i > k /\ Agree(t, s, d)
<1>1. s.i \in Nat
  BY DEF State
<1>2. CASE s.i > Len(frame)
  BY <1>1, <1>2 DEF NextTurn, Agree
<1>3. CASE s.i <= Len(frame)
  <2>1. t = Turn(spec, frame, s)
    BY <1>1, <1>3 DEF NextTurn
  <2>2. State(t) /\ t.i > s.i /\ Agree(t, s, d)
    BY <1>1, <1>3, <2>1, TurnLater
  <2>3. t.i \in Nat
    BY <2>2 DEF State
  <2> QED
    BY <1>1, <2>2, <2>3
<1> QED
  BY <1>1, <1>2, <1>3

\* After k turns.
Alike(a, b, d, k) == SameUpTo(a, b, d) /\ a.i > k /\ b.i > k

\* One turn more on each frame keeps the runs alike.
LEMMA NextAlike ==
  ASSUME NEW spec, NEW here, NEW there, NEW d, PartAt(here, there, d), NEW k \in 1..Len(here),
         NEW j, j = k - 1, NEW a, NEW b, Alike(a, b, d, j),
         NEW u, u = NextTurn(spec, here, a), NEW v, v = NextTurn(spec, there, b)
  PROVE  Alike(u, v, d, k)
<1>1. /\ d \in Nat /\ Len(here) \in Nat /\ Len(there) = Len(here) /\ State(a) /\ State(b)
      /\ a.i \in Nat /\ b.i \in Nat /\ a.i > k - 1 /\ b.i > k - 1
  BY DEF Alike, PartAt, SameUpTo, State
<1>2. CASE a = b /\ a.i <= d /\ a.i > Len(here)
  <2>1. u = a /\ v = b
    BY <1>1, <1>2 DEF NextTurn
  <2> QED
    BY <1>1, <1>2, <2>1 DEF Alike
<1>3. CASE a = b /\ a.i <= d /\ a.i <= Len(here)
  <2>1. u = Turn(spec, here, a) /\ v = Turn(spec, there, a)
    BY <1>1, <1>3 DEF NextTurn
  <2>2. SameUpTo(u, v, d) /\ u.i > a.i /\ v.i > a.i
    BY <1>1, <1>3, <2>1, TurnAlike
  <2>3. u.i \in Nat /\ v.i \in Nat
    BY <2>2 DEF SameUpTo, State
  <2> QED
    BY <1>1, <2>2, <2>3 DEF Alike
<1>4. CASE a.i > d /\ b.i > d /\ Agree(a, b, d)
  <2>1. State(u) /\ u.i > d /\ u.i > k /\ Agree(u, a, d)
    BY <1>1, <1>4, NextLater
  <2>2. State(v) /\ v.i > d /\ v.i > k /\ Agree(v, b, d)
    BY <1>1, <1>4, NextLater
  <2>3. Agree(u, v, d)
    BY <1>4, <2>1, <2>2, AgreeTransits
  <2> QED
    BY <2>1, <2>2, <2>3 DEF Alike, SameUpTo
<1> QED
  BY <1>1, <1>2, <1>3, <1>4 DEF Alike, SameUpTo

\* All its turns.
LEMMA RunsAlike ==
  ASSUME NEW spec, NEW here, NEW there, NEW d, PartAt(here, there, d), NEW run, NEW twin,
         run[0] = Start, \A k \in 1..Len(here) : run[k] = NextTurn(spec, here, run[k - 1]),
         twin[0] = Start, \A k \in 1..Len(here) : twin[k] = NextTurn(spec, there, twin[k - 1])
  PROVE  Alike(run[Len(here)], twin[Len(here)], d, Len(here))
<1> DEFINE G == {k \in Nat : k <= Len(here) => Alike(run[k], twin[k], d, k)}
<1>1. Len(here) \in Nat /\ d \in Nat /\ d >= 1
  BY DEF PartAt
<1>2. 0 \in G
  <2>1. Alike(Start, Start, d, 0)
    BY <1>1, StartState DEF Alike, SameUpTo
  <2> QED
    BY <2>1
<1>3. ASSUME NEW k \in Nat, k \in G PROVE k + 1 \in G
  <2> SUFFICES ASSUME k + 1 <= Len(here) PROVE Alike(run[k + 1], twin[k + 1], d, k + 1)
    OBVIOUS
  <2> PICK j \in 1..Len(here) : j = k + 1
    BY <1>1
  <2> PICK a, b, u, v : a = run[k] /\ b = twin[k] /\ u = run[j] /\ v = twin[j]
    OBVIOUS
  <2>1. Alike(a, b, d, k) /\ k = j - 1
    BY <1>1, <1>3
  <2>2. u = NextTurn(spec, here, a) /\ v = NextTurn(spec, there, b)
    BY <2>1
  <2>3. Alike(u, v, d, j)
    BY <2>1, <2>2, NextAlike
  <2> QED
    BY <2>3
<1>4. Len(here) \in G
  <2> HIDE DEF G
  <2> QED
    BY <1>1, <1>2, <1>3, NatSetInduction
<1> QED
  BY <1>1, <1>4

\* What a ledger says of the entries up to bar d, and of the exits before it.
Entries(trades, d) ==
  {<<t.entry_bar, t.stop, t.target>> : t \in {u \in Range(trades) : u.entry_bar <= d}}
Ended(trades, d) == {t \in Range(trades) : t.exit_bar < d}

\* The close at the end opens nothing, and is no close before bar d.
LEMMA ForcedAgrees ==
  ASSUME NEW spec, NEW frame, Len(frame) \in Nat, frame[Len(frame)].close # Missing,
         NEW s, State(s), NEW d \in 1..Len(frame),
         NEW trades, trades = ForceClosed(spec, frame, s)
  PROVE  Entries(trades, d) = Opened(s, d) /\ Ended(trades, d) = Closed(s, d)
<1> DEFINE n == Len(frame)
           last == [reason |-> "FORCE_CLOSE", price |-> frame[n].close]
           open == {p \in s.position : last.price # Missing}
<1>1. s.trades \in Seq(Range(s.trades))
  BY DEF State
<1>2. trades = s.trades \o SetToSeq({_close(spec, p, n, last) : p \in open})
  BY DEF ForceClosed
<1>3. CASE s.position = {}
  <2>1. {_close(spec, p, n, last) : p \in open} = {}
    BY <1>3
  <2>2. trades = s.trades \o <<>>
    BY <1>2, <2>1, SeqOfNone
  <2>3. trades = s.trades
    BY <1>1, <2>2, ConcatEmptySeq
  <2> QED
    BY <1>3, <2>3 DEF Entries, Ended, Opened, Openings, Closed
<1>4. ASSUME NEW p, s.position = {p}
      PROVE  Entries(trades, d) = Opened(s, d) /\ Ended(trades, d) = Closed(s, d)
  <2> DEFINE u == _close(spec, p, n, last)
  <2>1. open = {p}
    BY <1>4
  <2>2. {_close(spec, q, n, last) : q \in open} = {u}
    BY <2>1
  <2>3. Ends(u, p, n)
    BY CloseFields DEF Ends
  <2> HIDE DEF u, open
  <2>4. trades = s.trades \o <<u>>
    BY <1>2, <2>2, SeqOfOne
  <2>5. Range(trades) = Range(s.trades) \cup {u}
    BY <1>1, <2>4, AppendRange
  <2>6. Entries(trades, d) = Opened(s, d)
    BY <1>4, <2>3, <2>5 DEF Ends, Entries, Opened, Openings
  <2>7. Ended(trades, d) = Closed(s, d)
    BY <2>3, <2>5 DEF Ends, Ended, Closed
  <2> QED
    BY <2>6, <2>7
<1> QED
  BY <1>3, <1>4 DEF State

\* The backtest of one rule set on two frames that part at bar d.
LEMMA SimulatesAlike ==
  ASSUME NEW spec, NEW here, NEW there, NEW d, PartAt(here, there, d), IsFrame(here), IsFrame(there)
  PROVE  LET a == simulate_strategy(spec, here)
             b == simulate_strategy(spec, there)
         IN  Entries(a, d) = Entries(b, d) /\ Ended(a, d) = Ended(b, d)
<1> DEFINE n == Len(here)
<1>1. n \in Nat /\ Len(there) = n /\ d \in 1..(n + 1)
  BY DEF PartAt
<1>2. CASE d = n + 1
  <2>1. \A i \in 1..n : here[i] = there[i]
    BY <1>1, <1>2 DEF PartAt
  <2>2. here = there
    <3>1. /\ here \in Seq(Range(here) \cup Range(there))
          /\ there \in Seq(Range(here) \cup Range(there))
      BY SeqMonotonic DEF IsFrame
    <3> QED
      BY <1>1, <2>1, <3>1, SeqEqual
  <2> QED
    BY <2>2
<1>3. CASE d \in 1..n
  <2>1. here # <<>> /\ there # <<>>
    BY <1>1, <1>3
  <2>2. here[n].close # Missing /\ there[n].close # Missing
    BY <1>1, <2>1 DEF IsFrame
  <2>3. PICK run : /\ simulate_strategy(spec, here) = ForceClosed(spec, here, run[n])
                   /\ run[0] = Start
                   /\ \A k \in 1..n : run[k] = NextTurn(spec, here, run[k - 1])
    <3>1. PICK run : RunOf(spec, here, run)
      BY <1>1, SimulationRuns
    <3> QED
      BY <1>1, <3>1 DEF RunOf
  <2>4. PICK twin : /\ simulate_strategy(spec, there) = ForceClosed(spec, there, twin[n])
                    /\ twin[0] = Start
                    /\ \A k \in 1..n : twin[k] = NextTurn(spec, there, twin[k - 1])
    <3>1. PICK other : RunOf(spec, there, other)
      BY <1>1, SimulationRuns
    <3> QED
      BY <1>1, <3>1 DEF RunOf
  <2>5. SameUpTo(run[n], twin[n], d) /\ run[n].i > n /\ twin[n].i > n
    <3>1. Alike(run[n], twin[n], d, n)
      BY <2>3, <2>4, RunsAlike
    <3> QED
      BY <3>1 DEF Alike
  <2>6. State(run[n]) /\ State(twin[n])
    BY <2>5 DEF SameUpTo
  <2>7. Agree(run[n], twin[n], d)
    <3>1. run[n].i \in Nat
      BY <2>6 DEF State
    <3>2. ~(run[n].i <= d)
      BY <1>1, <1>3, <2>5, <3>1
    <3> QED
      BY <2>5, <3>2 DEF SameUpTo
  <2>8. /\ Entries(simulate_strategy(spec, here), d) = Opened(run[n], d)
        /\ Ended(simulate_strategy(spec, here), d) = Closed(run[n], d)
    BY <1>1, <1>3, <2>2, <2>3, <2>6, ForcedAgrees
  <2>9. /\ Entries(simulate_strategy(spec, there), d) = Opened(twin[n], d)
        /\ Ended(simulate_strategy(spec, there), d) = Closed(twin[n], d)
    BY <1>1, <1>3, <2>2, <2>4, <2>6, ForcedAgrees
  <2> QED
    BY <2>7, <2>8, <2>9 DEF Agree
<1> QED
  BY <1>1, <1>2, <1>3

\* A case's histories part at Divergence.
LEMMA DivergencePartsAt ==
  ASSUME case \in Cases
  PROVE  PartAt(case.history, case.twin, Divergence)
<1> DEFINE h == case.history
           t == case.twin
           G == {d \in Nat : d \in 1..Len(h) /\ h[d] # t[d]}
           Parts(d) == /\ \A i \in 1..(d - 1) : h[i] = t[i]
                       /\ d <= Len(h) => h[d] # t[d]
<1>1. /\ Len(h) \in Nat /\ Len(t) = Len(h) /\ DOMAIN h = 1..Len(h)
      /\ \A d \in DOMAIN h : (\A i \in 1..(d - 1) : h[i] = t[i]) => h[d].open = t[d].open
  BY TwinAssumption DEF IsFrame
<1>2. \E d \in 1..(Len(h) + 1) : Parts(d)
  <2>1. CASE G = {}
    <3>1. Parts(Len(h) + 1)
      BY <1>1, <2>1
    <3> QED
      BY <1>1, <3>1
  <2>2. CASE G # {}
    <3>1. PICK d \in G : \A e \in G : d <= e
      BY <2>2, LeastExists
    <3>2. Parts(d)
      BY <1>1, <3>1
    <3> QED
      BY <1>1, <3>2
  <2> QED
    BY <2>1, <2>2
<1>3. Divergence = CHOOSE d \in 1..(Len(h) + 1) : Parts(d)
  BY DEF Divergence
<1>4. PICK d \in 1..(Len(h) + 1) : d = Divergence /\ Parts(d)
  BY <1>2, <1>3
<1>5. d <= Len(h) => h[d].open = t[d].open
  BY <1>1, <1>4
<1> QED
  BY <1>1, <1>4, <1>5 DEF PartAt

\* Whatever the specification backtested, up to the first bar in which two
\* histories differ it enters alike, and what it closed before is the same
\* (execution_simulator.simulate_strategy).
THEOREM NeverLooksAhead == SearchSpec => []NoLookAhead
<1>1. SearchInit => case \in Cases
  BY DEF SearchInit
<1>2. case \in Cases /\ [SearchNext]_search_vars => (case \in Cases)'
  BY DEF SearchNext, search_vars, GenerateAttempt, SelectChampion, NextCycle, MineStart, Populate,
         BreedRandom, BreedCross, Join, Rank, GateSurvivor
<1>3. ASSUME case \in Cases PROVE NoLookAhead
  <2>1. PartAt(case.history, case.twin, Divergence)
    BY <1>3, DivergencePartsAt
  <2>2. IsFrame(case.history) /\ IsFrame(case.twin)
    BY <1>3, TwinAssumption
  <2>3. ASSUME NEW spec
        PROVE  LET a == simulate_strategy(spec, case.history)
                   b == simulate_strategy(spec, case.twin)
               IN  /\ Entries(a, Divergence) = Entries(b, Divergence)
                   /\ Ended(a, Divergence) = Ended(b, Divergence)
    BY <2>1, <2>2, SimulatesAlike
  <2> QED
    BY <2>3 DEF NoLookAhead, Entries, Ended
<1> QED
  BY <1>1, <1>2, <1>3, PTL DEF SearchSpec

-----------------------------------------------------------------------------
(***************************************************************************)
(* A backtest of integers is one in integers.                              *)
(***************************************************************************)
(***************************************************************************)
(* A backtest of integers is one in integers.                              *)
(***************************************************************************)
Sized(spec) == spec.stop_atr \in Int /\ spec.target_atr \in Int
Priced(frame) ==
  /\ frame \in Seq(Range(frame))
  /\ \A bar \in Range(frame) : bar.open \in Int /\ bar.close \in Int /\ bar.atr \in Int
Costed(p) == p.stop \in Int /\ p.target \in Int /\ p.entry_intended \in Int /\ p.risk \in Nat \ {0}
Booked(trades) == trades \in Seq(Range(trades)) /\ \A u \in Range(trades) : u.r \in Int
Booking(s) ==
  /\ s = [i |-> s.i, position |-> s.position, trades |-> s.trades]
  /\ s.i \in Nat \ {0} /\ Booked(s.trades)
  /\ s.position = {} \/ \E p : s.position = {p} /\ Costed(p)

\* The prices of a bar of a priced frame.
LEMMA PricedBar ==
  ASSUME NEW frame, Priced(frame), NEW i \in 1..Len(frame)
  PROVE  frame[i].open \in Int /\ frame[i].close \in Int /\ frame[i].atr \in Int
<1>1. frame[i] \in Range(frame)
  BY DEF Priced, Range
<1> QED
  BY <1>1 DEF Priced

\* A trade closed at an integer price has an integer R.
LEMMA CloseInt ==
  ASSUME NEW spec, NEW p, Costed(p), NEW i, NEW x, x.price \in Int
  PROVE  _close(spec, p, i, x).r \in Int
<1> DEFINE side == spec.direction
           on_fills == Sign(side) * (fill_price(x.price, side, "exit")
                                       - fill_price(p.entry_intended, side, "entry"))
           r == (RUnit * (on_fills - 2 * Fee)) \div p.risk
<1>1. Sign(side) \in Int
  BY DEF Sign
<1>2. fill_price(x.price, side, "exit") \in Int /\ fill_price(p.entry_intended, side, "entry") \in Int
  BY <1>1, BacktestAssumption DEF fill_price, Costed
<1>3. on_fills \in Int
  <2> DEFINE a == fill_price(x.price, side, "exit")
             b == fill_price(p.entry_intended, side, "entry")
  <2>1. a - b \in Int
    BY <1>2
  <2> QED
    BY <1>1, <2>1
<1>4. r \in Int
  <2> HIDE DEF on_fills
  <2>1. RUnit * (on_fills - 2 * Fee) \in Int
    BY <1>3, BacktestAssumption
  <2> DEFINE a == RUnit * (on_fills - 2 * Fee)
  <2> HIDE DEF a
  <2>2. a \div p.risk \in Int
    BY <2>1 DEF Costed, a
  <2> QED
    BY <2>2 DEF a
<1>5. _close(spec, p, i, x).r = r
  BY DEF _close, settle_trade
<1> QED
  BY <1>4, <1>5

\* Booked trades and one more of integer R are booked.
LEMMA BookedMore ==
  ASSUME NEW trades, Booked(trades), NEW u, u.r \in Int
  PROVE  Booked(trades \o <<u>>)
<1>1. /\ trades \o <<u>> \in Seq(Range(trades \o <<u>>))
      /\ Range(trades \o <<u>>) = Range(trades) \cup {u}
  BY AppendRange DEF Booked
<1> QED
  BY <1>1 DEF Booked

\* Holding a position through its exits keeps the books in integers.
LEMMA HeldBooks ==
  ASSUME NEW spec, NEW trades, Booked(trades), NEW p, Costed(p), NEW i, i \in Nat,
         NEW exits, exits = {} \/ \E x : exits = {x} /\ x.price \in Int
  PROVE  Booking(Held(spec, trades, p, i, exits))
<1>1. CASE exits = {}
  <2>1. {_close(spec, p, i, x) : x \in exits} = {}
    BY <1>1
  <2>2. Held(spec, trades, p, i, exits) = [i |-> i + 1, position |-> {p}, trades |-> trades \o <<>>]
    BY <1>1, <2>1, SeqOfNone DEF Held
  <2>3. trades \o <<>> = trades
    BY ConcatEmptySeq DEF Booked
  <2> QED
    BY <2>2, <2>3 DEF Booking
<1>2. ASSUME NEW x, exits = {x}, x.price \in Int PROVE Booking(Held(spec, trades, p, i, exits))
  <2> DEFINE u == _close(spec, p, i, x)
  <2>1. {_close(spec, p, i, y) : y \in exits} = {u}
    BY <1>2
  <2>2. u.r \in Int
    BY <1>2, CloseInt
  <2> HIDE DEF u
  <2>3. Held(spec, trades, p, i, exits) = [i |-> i + 1, position |-> {}, trades |-> trades \o <<u>>]
    BY <1>2, <2>1, SeqOfOne DEF Held
  <2>4. Booked(trades \o <<u>>)
    BY <2>2, BookedMore
  <2> QED
    BY <2>3, <2>4 DEF Booking
<1> QED
  BY <1>1, <1>2

\* Every exit price is an integer.
LEMMA ExitInt ==
  ASSUME NEW spec, NEW p, Costed(p), NEW bar, bar.close \in Int, NEW i,
         NEW x \in Exit(spec, p, bar, i)
  PROVE  x.price \in Int
<1>1. CASE _hit_stop(spec.direction, bar, p.stop)
  BY <1>1 DEF Exit, Costed
<1>2. CASE ~_hit_stop(spec.direction, bar, p.stop) /\ _hit_target(spec.direction, bar, p.target)
  BY <1>2 DEF Exit, Costed
<1>3. CASE ~_hit_stop(spec.direction, bar, p.stop) /\ ~_hit_target(spec.direction, bar, p.target)
  BY <1>3 DEF Exit
<1> QED
  BY <1>1, <1>2, <1>3

\* Managing a position keeps the books in integers.
LEMMA ManageBooks ==
  ASSUME NEW spec, NEW frame, Priced(frame), NEW trades, Booked(trades), NEW p, Costed(p),
         NEW i, i \in 1..Len(frame)
  PROVE  Booking(Manage(spec, frame, trades, {p}, i))
<1> DEFINE exits == Exit(spec, p, frame[i], i)
<1>1. Manage(spec, frame, trades, {p}, i) = Held(spec, trades, p, i, exits)
  BY ManageIs
<1>2. exits = {} \/ \E x : exits = {x}
  BY ExitsOnce
<1>3. \A x \in exits : x.price \in Int
  BY PricedBar, ExitInt
<1>4. i \in Nat
  BY DEF Priced
<1> HIDE DEF exits
<1> QED
  BY <1>1, <1>2, <1>3, <1>4, HeldBooks

\* A position of positive risk has integer prices.
LEMMA PositionCosted ==
  ASSUME NEW spec, Sized(spec), NEW frame, Priced(frame), NEW i, i \in 1..Len(frame) - 1,
         Position(spec, frame, i).risk > 0
  PROVE  Costed(Position(spec, frame, i))
<1> DEFINE side == spec.direction
           mid == frame[i + 1].open
           entry == fill_price(mid, side, "entry")
           atr == frame[i].atr
           stop == stop_price(entry, atr, side, spec.stop_atr)
           target == target_price(entry, atr, side, spec.target_atr)
           risk == IF entry > stop THEN entry - stop ELSE stop - entry
<1>1. i \in 1..Len(frame) /\ i + 1 \in 1..Len(frame)
  BY DEF Priced
<1>2. mid \in Int /\ atr \in Int /\ Sign(side) \in Int
  BY <1>1, PricedBar DEF Sign
<1>3. entry \in Int
  BY <1>2, BacktestAssumption DEF fill_price
<1>4. stop \in Int /\ target \in Int
  <2> HIDE DEF entry, atr, mid
  <2>1. spec.stop_atr * atr \in Int /\ spec.target_atr * atr \in Int
    BY <1>2 DEF Sized
  <2> DEFINE a == spec.stop_atr * atr
             b == spec.target_atr * atr
  <2> HIDE DEF a, b
  <2>2. a \div 100 \in Int /\ b \div 100 \in Int
    BY <2>1 DEF a, b
  <2>3. Sign(side) * (a \div 100) \in Int /\ Sign(side) * (b \div 100) \in Int
    BY <1>2, <2>2
  <2> QED
    BY <1>3, <2>3 DEF stop_price, target_price, a, b
<1>5. /\ Position(spec, frame, i).stop = stop /\ Position(spec, frame, i).target = target
      /\ Position(spec, frame, i).entry_intended = mid /\ Position(spec, frame, i).risk = risk
  BY DEF Position, SignalAtr
<1> HIDE DEF entry, stop, target, mid
<1>6. risk \in Int
  BY <1>3, <1>4
<1> HIDE DEF risk
<1> QED
  BY <1>2, <1>4, <1>5, <1>6 DEF Costed

\* So has what the signal enters.
LEMMA EntryCosted ==
  ASSUME NEW spec, Sized(spec), NEW frame, Priced(frame), NEW i, i \in Nat \ {0},
         NEW p \in Entry(spec, frame, i)
  PROVE  Costed(p) /\ i + 1 \in 1..Len(frame)
<1>1. i < Len(frame) /\ p = Position(spec, frame, i) /\ p.risk > 0
  BY DEF Entry
<1>2. i \in 1..Len(frame) - 1 /\ i + 1 \in 1..Len(frame)
  BY <1>1 DEF Priced
<1> QED
  BY <1>1, <1>2, PositionCosted

\* A turn keeps the books in integers.
LEMMA TurnBooks ==
  ASSUME NEW spec, Sized(spec), NEW frame, Priced(frame), NEW s, Booking(s), s.i <= Len(frame)
  PROVE  Booking(Turn(spec, frame, s))
<1>0. PICK n \in Nat, trades \in {s.trades} : n = s.i /\ trades = s.trades
  BY DEF Booking
<1>1. n \in 1..Len(frame) /\ n # 0 /\ Booked(trades)
  BY <1>0 DEF Booking, Priced
<1>2. ASSUME NEW p, s.position = {p}, Costed(p) PROVE Booking(Turn(spec, frame, s))
  <2>1. Turn(spec, frame, s) = Manage(spec, frame, trades, {p}, n)
    BY <1>0, <1>2 DEF Turn
  <2>2. Booking(Manage(spec, frame, trades, {p}, n))
    BY <1>1, <1>2, ManageBooks
  <2> QED
    BY <2>1, <2>2
<1>3. CASE s.position = {} /\ Entry(spec, frame, n) = {}
  <2>1. Turn(spec, frame, s) = [s EXCEPT !.i = @ + 1]
    BY <1>0, <1>3 DEF Turn
  <2>2. Turn(spec, frame, s) = [i |-> n + 1, position |-> {}, trades |-> trades]
    BY <1>0, <1>3, <2>1 DEF Booking
  <2> QED
    BY <1>1, <2>2 DEF Booking
<1>4. ASSUME s.position = {}, NEW p, Entry(spec, frame, n) = {p}
      PROVE  Booking(Turn(spec, frame, s))
  <2>1. Costed(p) /\ n + 1 \in 1..Len(frame)
    BY <1>1, <1>4, EntryCosted
  <2>2. Turn(spec, frame, s) = Manage(spec, frame, trades, {p}, n + 1)
    BY <1>0, <1>4 DEF Turn
  <2>3. Booking(Manage(spec, frame, trades, {p}, n + 1))
    BY <1>1, <2>1, ManageBooks
  <2> QED
    BY <2>2, <2>3
<1>5. Entry(spec, frame, n) = {} \/ \E p : Entry(spec, frame, n) = {p}
  <2>1. PICK E : E = Entry(spec, frame, n)
    OBVIOUS
  <2>2. E = {} \/ \E p : E = {p} /\ p.entry_bar = n + 1
    BY <2>1, EntersOnce
  <2> QED
    BY <2>1, <2>2
<1>6. s.position = {} \/ \E p : s.position = {p} /\ Costed(p)
  BY Zenon DEF Booking
<1>7. CASE s.position = {}
  BY <1>3, <1>4, <1>5, <1>7
<1>8. CASE \E p : s.position = {p} /\ Costed(p)
  BY <1>2, <1>8
<1> QED
  BY <1>6, <1>7, <1>8

\* The trades of a simulation have integer R.
LEMMA SimulationBooks ==
  ASSUME NEW spec, Sized(spec), NEW frame, Priced(frame)
  PROVE  Booked(simulate_strategy(spec, frame))
<1>1. Len(frame) \in Nat
  BY DEF Priced
<1>2. PICK run : /\ simulate_strategy(spec, frame) = ForceClosed(spec, frame, run[Len(frame)])
                 /\ run[0] = Start
                 /\ \A k \in 1..Len(frame) : run[k] = NextTurn(spec, frame, run[k - 1])
  <2>1. PICK run : RunOf(spec, frame, run)
    BY <1>1, SimulationRuns
  <2> QED
    BY <2>1, Zenon DEF RunOf
<1> DEFINE G == {k \in Nat : k <= Len(frame) => Booking(run[k])}
<1>3. Booking(Start)
  <2>1. Range(<<>>) = {} /\ <<>> \in Seq({})
    BY DEF Range
  <2> QED
    BY <2>1 DEF Booking, Booked, Start
<1>4. 0 \in G
  BY <1>2, <1>3
<1>5. ASSUME NEW k \in Nat, k \in G PROVE k + 1 \in G
  <2> SUFFICES ASSUME k + 1 <= Len(frame) PROVE Booking(run[k + 1])
    OBVIOUS
  <2> PICK s : s = run[k]
    OBVIOUS
  <2>1. Booking(s) /\ run[k + 1] = NextTurn(spec, frame, s)
    <3>1. k + 1 \in 1..Len(frame) /\ (k + 1) - 1 = k /\ k <= Len(frame)
      BY <1>1
    <3> QED
      BY <1>2, <1>5, <3>1
  <2>2. CASE s.i > Len(frame)
    BY <2>1, <2>2 DEF NextTurn
  <2>3. CASE s.i <= Len(frame)
    <3>1. ~(s.i > Len(frame))
      BY <1>1, <2>1, <2>3 DEF Booking
    <3> QED
      BY <2>1, <2>3, <3>1, TurnBooks DEF NextTurn
  <2> QED
    BY <1>1, <2>1, <2>2, <2>3 DEF Booking
<1> HIDE DEF G
<1>6. Len(frame) \in G
  BY <1>1, <1>4, <1>5, NatSetInduction
<1>7. PICK s : s = run[Len(frame)]
  OBVIOUS
<1>8. Booking(s)
  BY <1>1, <1>6, <1>7 DEF G
<1> DEFINE n == Len(frame)
           last == [reason |-> "FORCE_CLOSE", price |-> frame[n].close]
           open == {p \in s.position : last.price # Missing}
<1>9. ForceClosed(spec, frame, s) = s.trades \o SetToSeq({_close(spec, p, n, last) : p \in open})
  BY DEF ForceClosed
<1>10. CASE open = {}
  <2>1. {_close(spec, p, n, last) : p \in open} = {}
    BY <1>10
  <2>2. ForceClosed(spec, frame, s) = s.trades \o <<>>
    BY <1>9, <2>1, SeqOfNone
  <2> QED
    BY <1>2, <1>7, <1>8, <2>2, ConcatEmptySeq DEF Booking, Booked
<1>11. ASSUME NEW p, open = {p}, Costed(p), n # 0 PROVE Booked(ForceClosed(spec, frame, s))
  <2> DEFINE u == _close(spec, p, n, last)
  <2>1. {_close(spec, q, n, last) : q \in open} = {u}
    BY <1>11
  <2>2. last.price \in Int
    <3>1. n \in 1..Len(frame)
      BY <1>1, <1>11
    <3> QED
      BY <3>1, PricedBar
  <2>3. u.r \in Int
    <3> HIDE DEF last
    <3> QED
      BY <1>11, <2>2, CloseInt
  <2> HIDE DEF u
  <2>4. ForceClosed(spec, frame, s) = s.trades \o <<u>>
    BY <1>9, <2>1, SeqOfOne
  <2> QED
    BY <1>8, <2>3, <2>4, BookedMore DEF Booking
<1>12. n = 0 => open = {}
  BY <1>2, <1>7 DEF Start
<1>13. open = {} \/ \E p : open = {p} /\ Costed(p)
  BY <1>8 DEF Booking
<1> HIDE DEF open
<1> QED
  BY <1>2, <1>7, <1>10, <1>11, <1>12, <1>13

-----------------------------------------------------------------------------
(***************************************************************************)
(* Totals, ratios and the drawdown.                                        *)
(***************************************************************************)
\* A total of integers, over a finite domain.
LEMMA TotalInt ==
  ASSUME NEW f, IsFiniteSet(DOMAIN f), \A k \in DOMAIN f : f[k] \in Int
  PROVE  Total(f) \in Int
BY SumType DEF Total, SumFunction

\* A total of naturals.
LEMMA TotalNat ==
  ASSUME NEW f, IsFiniteSet(DOMAIN f), \A k \in DOMAIN f : f[k] \in Nat
  PROVE  Total(f) \in Nat
BY SumNat DEF Total, SumFunction

\* A rounded ratio of integers is one.
LEMMA RatioInt ==
  ASSUME NEW a \in Int, NEW b \in Int, b > 0
  PROVE  Ratio(a, b) \in Int
<1> DEFINE c == 1000 * a
<1>1. c \in Int
  OBVIOUS
<1> HIDE DEF c
<1>2. c \div b \in Int
  BY <1>1
<1> QED
  BY <1>2 DEF Ratio, c

-----------------------------------------------------------------------------
(***************************************************************************)
(* The metrics of a ledger.                                                *)
(***************************************************************************)
NoFall == [cum |-> 0, peak |-> 0, dd |-> 0]
Falls(rs, after, n) ==
  after = [k \in 0..n |-> IF k = 0 THEN NoFall ELSE Deeper(after[k - 1], rs[k])]

\* The recursive function of the drawdown exists.
LEMMA FallsExist ==
  ASSUME NEW rs, NEW n \in Nat
  PROVE  \E after : Falls(rs, after, n)
<1> DEFINE G == {k \in Nat : \E after : Falls(rs, after, k)}
<1>1. 0 \in G
  <2> DEFINE after == [k \in 0..0 |-> NoFall]
  <2>1. Falls(rs, after, 0)
    BY DEF Falls
  <2> QED
    BY <2>1
<1>2. ASSUME NEW k \in Nat, k \in G PROVE k + 1 \in G
  <2>1. PICK after : Falls(rs, after, k)
    BY <1>2
  <2> DEFINE longer == [j \in 0..(k + 1) |-> IF j <= k THEN after[j] ELSE Deeper(after[k], rs[k + 1])]
  <2>2. \A j \in 0..k : after[j] = IF j = 0 THEN NoFall ELSE Deeper(after[j - 1], rs[j])
    BY <2>1 DEF Falls
  <2>3. \A j \in 0..(k + 1) :
          longer[j] = IF j = 0 THEN NoFall ELSE Deeper(longer[j - 1], rs[j])
    <3> TAKE j \in 0..(k + 1)
    <3>1. CASE j \in 0..k
      <4>1. longer[j] = after[j] /\ (j # 0 => longer[j - 1] = after[j - 1])
        BY <3>1
      <4> QED
        BY <2>2, <3>1, <4>1
    <3>2. CASE j = k + 1
      <4>1. j # 0 /\ longer[j] = Deeper(after[k], rs[j]) /\ longer[j - 1] = after[k]
        BY <3>2
      <4> QED
        BY <4>1
    <3> QED
      BY <3>1, <3>2
  <2>4. longer = [j \in 0..(k + 1) |-> longer[j]]
    OBVIOUS
  <2> HIDE DEF longer
  <2>5. Falls(rs, longer, k + 1)
    BY <2>3, <2>4 DEF Falls
  <2> QED
    BY <2>5
<1> HIDE DEF G
<1>3. n \in G
  BY <1>1, <1>2, NatSetInduction
<1> QED
  BY <1>3 DEF G

\* The drawdown of integers is one.
LEMMA DrawdownInt ==
  ASSUME NEW rs, Len(rs) \in Nat, \A k \in 1..Len(rs) : rs[k] \in Int
  PROVE  _max_drawdown_r(rs) \in Int
<1> DEFINE after == CHOOSE after : Falls(rs, after, Len(rs))
           IsFall(a) == a.cum \in Int /\ a.peak \in Int /\ a.dd \in Int
           G == {k \in Nat : k <= Len(rs) => IsFall(after[k])}
<1>1. Falls(rs, after, Len(rs))
  BY FallsExist
<1>2. _max_drawdown_r(rs) = after[Len(rs)].dd
  BY DEF _max_drawdown_r, Falls, NoFall
<1> HIDE DEF after
<1>3. \A k \in 0..Len(rs) : after[k] = IF k = 0 THEN NoFall ELSE Deeper(after[k - 1], rs[k])
  BY <1>1 DEF Falls
<1>4. 0 \in G
  BY <1>3 DEF NoFall
<1>5. ASSUME NEW k \in Nat, k \in G PROVE k + 1 \in G
  <2> SUFFICES ASSUME k + 1 <= Len(rs) PROVE IsFall(after[k + 1])
    OBVIOUS
  <2>1. after[k + 1] = Deeper(after[k], rs[k + 1]) /\ rs[k + 1] \in Int /\ IsFall(after[k])
    <3>1. k + 1 \in 0..Len(rs) /\ k + 1 \in 1..Len(rs) /\ k + 1 # 0 /\ (k + 1) - 1 = k /\ k <= Len(rs)
      OBVIOUS
    <3> QED
      BY <1>3, <1>5, <3>1
  <2> QED
    BY <2>1 DEF Deeper
<1> HIDE DEF G
<1>6. Len(rs) \in G
  BY <1>4, <1>5, NatSetInduction
<1> QED
  BY <1>2, <1>6 DEF G

\* The regime consistency is an integer.
LEMMA ConsistencyInt ==
  ASSUME NEW trades, trades \in Seq(Range(trades))
  PROVE  _regime_consistency(trades) \in Int
<1> DEFINE known == regimes_traded(trades) \ {{}}
           won == profitable_regimes(trades) \ {{}}
<1>1. IsFiniteSet(regimes_traded(trades))
  <2>1. DOMAIN trades = 1..Len(trades) /\ Len(trades) \in Nat
    OBVIOUS
  <2>2. IsFiniteSet(DOMAIN trades)
    BY <2>1, FS_Interval
  <2> DEFINE regime == [k \in DOMAIN trades |-> trades[k].regime]
  <2>3. regime \in Surjection(DOMAIN trades, regimes_traded(trades))
    BY DEF regimes_traded, Surjection
  <2> QED
    BY <2>2, <2>3, FS_Surjection
<1>2. IsFiniteSet(known) /\ won \subseteq known
  BY <1>1, FS_Subset DEF profitable_regimes
<1>3. IsFiniteSet(won)
  BY <1>2, FS_Subset
<1>4. Cardinality(known) \in Nat /\ Cardinality(won) \in Nat /\ (known # {} => Cardinality(known) # 0)
  BY <1>2, <1>3, FS_CardinalityType, FS_EmptySet
<1>5. _regime_consistency(trades) = IF known = {} THEN 0 ELSE Ratio(Cardinality(won), Cardinality(known))
  BY DEF _regime_consistency
<1> HIDE DEF known, won
<1> QED
  BY <1>4, <1>5, RatioInt

Measured(m) ==
  /\ m.trade_count \in Nat /\ m.total \in Int /\ m.profit \in Int /\ m.loss \in Int
  /\ m.drawdown \in Int /\ m.regime_consistency \in Int

\* The metrics of booked trades are integers.
LEMMA BooksMeasured ==
  ASSUME NEW trades, Booked(trades)
  PROVE  Measured(compute_backtest_metrics(trades))
<1> DEFINE rs == Rs(trades)
           won == [k \in DOMAIN rs |-> IF rs[k] > 0 THEN rs[k] ELSE 0]
           lost == [k \in DOMAIN rs |-> IF rs[k] < 0 THEN -rs[k] ELSE 0]
<1>1. trades \in Seq(Range(trades)) /\ Len(trades) \in Nat /\ DOMAIN trades = 1..Len(trades)
  BY DEF Booked
<1>2. DOMAIN rs = 1..Len(trades) /\ \A k \in 1..Len(trades) : rs[k] \in Int
  <2>1. \A k \in 1..Len(trades) : trades[k] \in Range(trades)
    BY <1>1 DEF Range
  <2> QED
    BY <1>1, <2>1 DEF Rs, Booked
<1>3. IsFiniteSet(1..Len(trades))
  BY <1>1, FS_Interval
<1>4. Len(rs) = Len(trades)
  BY <1>1 DEF Rs
<1> HIDE DEF rs
<1>5. Total(rs) \in Int
  BY <1>2, <1>3, TotalInt
<1>6. Total(won) \in Int
  BY <1>2, <1>3, TotalInt
<1>7. Total(lost) \in Int
  BY <1>2, <1>3, TotalInt
<1>8. _max_drawdown_r(rs) \in Int
  BY <1>1, <1>2, <1>4, DrawdownInt
<1>9. _regime_consistency(trades) \in Int
  BY <1>1, ConsistencyInt
<1> DEFINE m == compute_backtest_metrics(trades)
<1>10. /\ m.trade_count = Len(trades) /\ m.total = Total(rs) /\ m.profit = Total(won)
       /\ m.loss = Total(lost) /\ m.drawdown = _max_drawdown_r(rs)
       /\ m.regime_consistency = _regime_consistency(trades)
  BY DEF compute_backtest_metrics, rs
<1> HIDE DEF m, won, lost
<1> QED
  BY <1>1, <1>5, <1>6, <1>7, <1>8, <1>9, <1>10 DEF Measured, m

\* So is their expectancy, where there is a trade.
LEMMA ExpectancyInt ==
  ASSUME NEW m, Measured(m), m.trade_count > 0
  PROVE  expectancy_r(m) \in Int
<1>1. m.trade_count * RUnit \in Int /\ m.trade_count * RUnit > 0
  <2> DEFINE a == m.trade_count
  <2>1. a \in Nat /\ a > 0 /\ RUnit \in Nat /\ RUnit > 0
    BY BacktestAssumption DEF Measured
  <2> HIDE DEF a
  <2>2. a * RUnit \in Int /\ a * RUnit > 0
    BY <2>1
  <2> QED
    BY <2>2 DEF a
<1> QED
  BY <1>1, RatioInt DEF expectancy_r, Measured

\* Arithmetic: products with a natural number.
LEMMA ProductGrows ==
  ASSUME NEW a \in Int, NEW b \in Int, a <= b, NEW c \in Nat
  PROVE  a * c \in Int /\ b * c \in Int /\ a * c <= b * c
<1>1. PICK d \in Nat : b = a + d
  <2>1. b - a \in Nat /\ b = a + (b - a)
    OBVIOUS
  <2> QED
    BY <2>1
<1>2. b * c = a * c + d * c
  BY <1>1
<1>3. d * c \in Nat /\ a * c \in Int
  OBVIOUS
<1> QED
  BY <1>2, <1>3

\* Division with a remainder.
LEMMA Divides ==
  ASSUME NEW a \in Int, NEW b \in Nat \ {0}
  PROVE  \E q \in Int, r \in 0..(b - 1) : q = a \div b /\ r = a % b /\ a = b * q + r
<1>1. a \div b \in Int
  OBVIOUS
<1>2. a % b \in 0..(b - 1)
  OBVIOUS
<1>3. a % b = a - b * (a \div b)
  OBVIOUS
<1> DEFINE q == a \div b
           r == a % b
<1> HIDE DEF q, r
<1>4. a = b * q + r
  <2>1. r = a - b * q /\ q \in Int
    BY <1>1, <1>3 DEF q, r
  <2>2. b * q \in Int
    BY <2>1
  <2> QED
    BY <2>1, <2>2
<1> QED
  BY <1>1, <1>2, <1>4 DEF q, r

\* Quotients grow with what is divided.
LEMMA QuotientGrows ==
  ASSUME NEW a \in Int, NEW b \in Int, a <= b, NEW c \in Nat \ {0}
  PROVE  a \div c <= b \div c
<1>0. PICK x \in Int, d \in 0..(c - 1) : x = a \div c /\ d = a % c /\ a = c * x + d
  BY Divides
<1>1. PICK y \in Int, e \in 0..(c - 1) : y = b \div c /\ e = b % c /\ b = c * y + e
  BY Divides
<1>2. ASSUME x > y PROVE FALSE
  <2>1. (y + 1) * c <= x * c
    BY <1>2, ProductGrows
  <2>2. (y + 1) * c = y * c + c /\ x * c = c * x /\ y * c = c * y /\ c * x \in Int /\ c * y \in Int
    OBVIOUS
  <2> QED
    BY <1>0, <1>1, <2>1, <2>2
<1> QED
  BY <1>0, <1>1, <1>2

\* A quotient of naturals.
LEMMA QuotientNat ==
  ASSUME NEW a \in Nat, NEW c \in Nat \ {0}
  PROVE  a \div c \in Nat
<1>1. 0 \div c <= a \div c
  BY QuotientGrows
<1>2. 0 \div c = 0 /\ a \div c \in Int
  OBVIOUS
<1> QED
  BY <1>1, <1>2

\* A square is a natural number.
LEMMA SquareNat ==
  ASSUME NEW a \in Int
  PROVE  a * a \in Nat
<1>1. CASE a >= 0
  BY <1>1
<1>2. CASE a < 0
  <2>1. (-a) * (-a) = a * a /\ -a \in Nat
    BY <1>2
  <2> QED
    BY <2>1
<1> QED
  BY <1>1, <1>2

\* So is a root.
LEMMA RootNat ==
  ASSUME NEW n \in Nat
  PROVE  Root(n) \in Nat
<1> DEFINE T == {r \in Nat : n < (r + 1) * (r + 1)}
<1>1. n \in T
  <2>1. (n + 1) * (n + 1) = n * n + 2 * n + 1 /\ n * n \in Nat
    BY SquareNat
  <2> QED
    BY <2>1
<1>2. PICK r \in T : \A q \in T : r <= q
  <2> HIDE DEF T
  <2>1. T \subseteq Nat
    BY DEF T
  <2> QED
    BY <1>1, <2>1, LeastExists
<1>3. r \in 0..n
  BY <1>1, <1>2
<1>4. r * r <= n
  <2>1. CASE r = 0
    BY <2>1
  <2>2. CASE r # 0
    <3>1. r - 1 \in Nat /\ r - 1 \notin T
      BY <1>2, <2>2
    <3>2. (r - 1) + 1 = r
      BY <1>2
    <3>3. ~(n < r * r)
      BY <3>1, <3>2
    <3>4. r * r \in Nat
      BY <1>3, SquareNat
    <3> QED
      BY <3>3, <3>4
  <2> QED
    BY <2>1, <2>2
<1>5. \E q \in 0..n : q * q <= n /\ n < (q + 1) * (q + 1)
  BY <1>2, <1>3, <1>4
<1>6. Root(n) \in 0..n
  BY <1>5 DEF Root
<1> QED
  BY <1>6

-----------------------------------------------------------------------------
(***************************************************************************)
(* The walk forward.                                                       *)
(***************************************************************************)
\* Where a window starts, or the one before it ends.
StartOf(i, q, r) == i * q + (IF i < r THEN i ELSE r)

\* Where a window starts lies within the frame.
LEMMA StartWithin ==
  ASSUME NEW w \in Nat, NEW q \in Nat, NEW r \in Nat, NEW i \in Nat, i <= w
  PROVE  StartOf(i, q, r) \in Nat /\ StartOf(i, q, r) <= w * q + r
<1>1. i * q \in Int /\ w * q \in Int /\ i * q <= w * q
  BY ProductGrows
<1>2. i * q >= 0
  <2>1. 0 * q <= i * q
    BY ProductGrows
  <2> QED
    BY <2>1, <1>1
<1> DEFINE d == IF i < r THEN i ELSE r
<1>3. d \in Nat /\ d <= r
  OBVIOUS
<1>4. StartOf(i, q, r) = i * q + d
  BY DEF StartOf
<1> HIDE DEF d
<1> QED
  BY <1>1, <1>2, <1>3, <1>4

\* The windows of a split lie within the frame.
LEMMA WindowsWithin ==
  ASSUME NEW n \in Nat, NEW k \in Nat, NEW j \in DOMAIN split_windows(n, k)
  PROVE  /\ split_windows(n, k)[j].first \in 1..(n + 1)
         /\ split_windows(n, k)[j].last \in 0..n
<1>1. n > 0 /\ k > 0
  BY DEF split_windows
<1> DEFINE size == IF k < n THEN k ELSE n
<1>2. PICK w \in Nat : w = size
  OBVIOUS
<1>3. w # 0
  BY <1>1, <1>2
<1>S. split_windows(n, k)
        = [i \in 1..size |-> [first |-> StartOf(i - 1, n \div size, n % size) + 1,
                             last |-> StartOf(i, n \div size, n % size)]]
  <2>1. ~(n <= 0 \/ k <= 0)
    BY <1>1
  <2> QED
    BY <2>1, Zenon DEF split_windows, StartOf
<1> HIDE DEF size
<1>4. PICK q \in Int, r \in 0..(w - 1) : q = n \div w /\ r = n % w /\ n = w * q + r
  BY <1>3, Divides
<1>5. q \in Nat /\ r \in Nat
  BY <1>3, <1>4, QuotientNat
<1>6. /\ j \in 1..size
      /\ split_windows(n, k)[j] = [first |-> StartOf(j - 1, n \div size, n % size) + 1,
                                  last |-> StartOf(j, n \div size, n % size)]
  BY <1>S, Zenon
<1>7. j \in 1..w
  BY <1>2, <1>6
<1>8. j \in Nat /\ j - 1 \in Nat /\ j <= w /\ j - 1 <= w
  BY <1>7
<1>9. /\ StartOf(j - 1, q, r) \in Nat /\ StartOf(j - 1, q, r) <= w * q + r
      /\ StartOf(j, q, r) \in Nat /\ StartOf(j, q, r) <= w * q + r
  <2>1. StartOf(j, q, r) \in Nat /\ StartOf(j, q, r) <= w * q + r
    BY <1>5, <1>8, StartWithin
  <2>2. PICK i \in Nat : i = j - 1 /\ i <= w
    BY <1>8
  <2>3. StartOf(i, q, r) \in Nat /\ StartOf(i, q, r) <= w * q + r
    BY <1>5, <2>2, StartWithin
  <2> QED
    BY <2>1, <2>2, <2>3
<1>10. /\ split_windows(n, k)[j].first = StartOf(j - 1, q, r) + 1
       /\ split_windows(n, k)[j].last = StartOf(j, q, r)
  <2>1. split_windows(n, k)[j] = [first |-> StartOf(j - 1, q, r) + 1, last |-> StartOf(j, q, r)]
    BY <1>2, <1>4, <1>6, Zenon
  <2> QED
    BY <2>1
<1>11. /\ StartOf(j - 1, q, r) \in Nat /\ StartOf(j - 1, q, r) <= n
       /\ StartOf(j, q, r) \in Nat /\ StartOf(j, q, r) <= n
  BY <1>4, <1>9
<1> QED
  BY <1>10, <1>11

\* A slice of a priced frame is priced.
LEMMA PricedWindow ==
  ASSUME NEW frame, Priced(frame), NEW m \in 1..(Len(frame) + 1), NEW n \in 0..Len(frame)
  PROVE  Priced(SubSeq(frame, m, n))
<1>1. Len(frame) \in Nat /\ \A i \in m..n : frame[i] \in Range(frame)
  <2>1. Len(frame) \in Nat /\ DOMAIN frame = 1..Len(frame)
    BY DEF Priced
  <2> QED
    BY <2>1 DEF Range
<1> DEFINE t == SubSeq(frame, m, n)
<1>2. t \in Seq(Range(frame))
  BY <1>1, SubSeqProperties
<1> HIDE DEF t
<1>3. t \in Seq(Range(t)) /\ Range(t) \subseteq Range(frame)
  <2>1. DOMAIN t = 1..Len(t) /\ Len(t) \in Nat /\ \A i \in 1..Len(t) : t[i] \in Range(frame)
    BY <1>2
  <2>2. \A i \in 1..Len(t) : t[i] \in Range(t)
    BY <2>1 DEF Range
  <2>3. t = [i \in 1..Len(t) |-> t[i]]
    BY <1>2
  <2>4. t \in [1..Len(t) -> Range(t)]
    BY <2>2, <2>3
  <2>5. t \in Seq(Range(t))
    BY <2>1, <2>4, SeqDef
  <2> QED
    BY <2>1, <2>5 DEF Range
<1>4. Priced(t)
  BY <1>3 DEF Priced
<1> QED
  BY <1>4 DEF t

\* Expectancies, by window.
Expected(es) == IsFiniteSet(DOMAIN es) /\ \A k \in DOMAIN es : es[k] \in Int

\* Each window's expectancy is an integer.
LEMMA WindowsExpected ==
  ASSUME NEW spec, Sized(spec), NEW frame, Priced(frame)
  PROVE  Expected(WindowExpectancies(spec, frame))
<1> DEFINE windows == split_windows(Len(frame), NumWindows)
           tried == {i \in DOMAIN windows : windows[i].last > windows[i].first}
           measure(j) == compute_backtest_metrics(
                           simulate_strategy(spec, SubSeq(frame, windows[j].first, windows[j].last)))
           traded == {i \in tried : measure(i).trade_count > 0}
<1>1. Len(frame) \in Nat /\ NumWindows \in Nat
  BY BacktestAssumption DEF Priced
<1>2. IsFiniteSet(DOMAIN windows)
  <2> DEFINE w == IF NumWindows < Len(frame) THEN NumWindows ELSE Len(frame)
  <2>1. w \in Nat
    BY <1>1
  <2>2. DOMAIN windows = {} \/ DOMAIN windows = 1..w
    BY DEF split_windows
  <2> HIDE DEF w, windows
  <2> QED
    BY <2>1, <2>2, FS_Interval, FS_EmptySet
<1>3. ASSUME NEW j \in DOMAIN windows PROVE Measured(measure(j))
  <2>1. windows[j].first \in 1..(Len(frame) + 1) /\ windows[j].last \in 0..Len(frame)
    BY <1>1, WindowsWithin
  <2>2. Priced(SubSeq(frame, windows[j].first, windows[j].last))
    <3> HIDE DEF windows
    <3> QED
      BY <2>1, PricedWindow
  <2> QED
    BY <2>2, SimulationBooks, BooksMeasured
<1>4. WindowExpectancies(spec, frame) = [j \in traded |-> expectancy_r(measure(j))]
  <2> DEFINE metrics == [j \in tried |-> measure(j)]
  <2>1. WindowExpectancies(spec, frame) =
          [j \in {i \in DOMAIN metrics : metrics[i].trade_count > 0} |-> expectancy_r(metrics[j])]
    BY DEF WindowExpectancies
  <2>2. DOMAIN metrics = tried /\ \A j \in tried : metrics[j] = measure(j)
    OBVIOUS
  <2> HIDE DEF metrics, measure, windows, tried
  <2> QED
    BY <2>1, <2>2
<1> HIDE DEF measure, windows
<1>5. IsFiniteSet(traded)
  BY <1>2, FS_Subset
<1>6. \A j \in traded : expectancy_r(measure(j)) \in Int
  BY <1>3, ExpectancyInt
<1> HIDE DEF traded
<1> QED
  BY <1>4, <1>5, <1>6 DEF Expected

\* The temporal stability is none, or an integer.
LEMMA StabilityInt ==
  ASSUME NEW es, Expected(es)
  PROVE  _temporal_stability(es) = {} \/ \E v \in Int : _temporal_stability(es) = {v}
<1> DEFINE xs == [k \in DOMAIN es |-> es[k] \div 100]
           n == Cardinality(DOMAIN es)
           sum == Total(xs)
           squares == [k \in DOMAIN xs |-> (n * xs[k] - sum) * (n * xs[k] - sum)]
           spread == Root(Total(squares) \div n)
<1>1. _temporal_stability(es)
        = IF n < 2 THEN {} ELSE IF sum <= 0 THEN {0} ELSE {Ratio(sum, sum + spread)}
  BY DEF _temporal_stability
<1>2. n \in Nat /\ IsFiniteSet(DOMAIN es) /\ DOMAIN xs = DOMAIN es
  BY FS_CardinalityType DEF Expected
<1>3. \A k \in DOMAIN xs : xs[k] \in Int
  BY DEF Expected
<1> HIDE DEF xs
<1>4. sum \in Int
  BY <1>2, <1>3, TotalInt
<1> HIDE DEF sum, n
<1>5. Total(squares) \in Nat
  <2>1. \A k \in DOMAIN xs : n * xs[k] - sum \in Int
    BY <1>2, <1>3, <1>4
  <2>2. \A k \in DOMAIN squares : squares[k] \in Nat
    BY <2>1, SquareNat
  <2>3. DOMAIN squares = DOMAIN es
    BY <1>2
  <2> HIDE DEF squares
  <2> QED
    BY <1>2, <2>2, <2>3, TotalNat
<1> HIDE DEF squares
<1>6. CASE n >= 2 /\ sum > 0
  <2>1. Total(squares) \div n \in Nat
    BY <1>2, <1>5, <1>6, QuotientNat
  <2>2. spread \in Nat
    BY <2>1, RootNat
  <2> HIDE DEF spread
  <2>3. Ratio(sum, sum + spread) \in Int
    BY <1>4, <1>6, <2>2, RatioInt
  <2> QED
    BY <1>1, <1>4, <1>6, <1>2, <2>3
<1>7. CASE ~(n >= 2 /\ sum > 0)
  BY <1>1, <1>2, <1>4, <1>7
<1> QED
  BY <1>6, <1>7

-----------------------------------------------------------------------------
(***************************************************************************)
(* The champion of a batch.                                                *)
(***************************************************************************)
LEMMA IntBounds ==
  ASSUME NEW S, IsFiniteSet(S), S \subseteq Int, S # {}
  PROVE  (\E x \in S : \A y \in S : x <= y) /\ (\E x \in S : \A y \in S : x >= y)
<1> DEFINE Bounded(T) == (\E x \in T : \A y \in T : x <= y) /\ (\E x \in T : \A y \in T : x >= y)
           G == {T \in SUBSET S : T # {} => Bounded(T)}
<1>1. ASSUME NEW T \in SUBSET S, \A x \in T : T \ {x} \in G PROVE T \in G
  <2> SUFFICES ASSUME T # {} PROVE Bounded(T)
    OBVIOUS
  <2>1. PICK x \in T : TRUE
    OBVIOUS
  <2>2. CASE T \ {x} = {}
    <3>1. \A y \in T : y = x
      BY <2>2
    <3>2. x \in Int
      BY <2>1
    <3> QED
      BY <2>1, <3>1, <3>2
  <2>3. CASE T \ {x} # {}
    <3>1. Bounded(T \ {x})
      BY <1>1, <2>1, <2>3
    <3>2. PICK lo \in T \ {x} : \A y \in T \ {x} : lo <= y
      BY <3>1
    <3>3. PICK hi \in T \ {x} : \A y \in T \ {x} : hi >= y
      BY <3>1
    <3>4. \A y \in T : y \in Int /\ (y = x \/ y \in T \ {x})
      OBVIOUS
    <3>5. \E z \in T : \A y \in T : z <= y
      <4>1. CASE x <= lo
        <5>1. \A y \in T : x <= y
          BY <2>1, <3>2, <3>4, <4>1
        <5> QED
          BY <2>1, <5>1
      <4>2. CASE lo < x
        <5>1. \A y \in T : lo <= y
          BY <2>1, <3>2, <3>4, <4>2
        <5> QED
          BY <5>1
      <4> QED
        BY <2>1, <3>2, <3>4, <4>1, <4>2
    <3>6. \E z \in T : \A y \in T : z >= y
      <4>1. CASE x >= hi
        <5>1. \A y \in T : x >= y
          BY <2>1, <3>3, <3>4, <4>1
        <5> QED
          BY <2>1, <5>1
      <4>2. CASE hi > x
        <5>1. \A y \in T : hi >= y
          BY <2>1, <3>3, <3>4, <4>2
        <5> QED
          BY <5>1
      <4> QED
        BY <2>1, <3>3, <3>4, <4>1, <4>2
    <3> QED
      BY <3>5, <3>6
  <2> QED
    BY <2>2, <2>3
<1>2. SUBSET S \subseteq G
  <2> HIDE DEF G
  <2> QED
    BY <1>1, SetInduction
<1> QED
  BY <1>2

\* Normalising keeps the order.
LEMMA NormalizeGrows ==
  ASSUME NEW V, IsFiniteSet(V), V \subseteq Int, NEW v \in V, NEW u \in V, v <= u
  PROVE  /\ _normalize(v, V) \in Int /\ _normalize(u, V) \in Int
         /\ _normalize(v, V) <= _normalize(u, V)
<1> DEFINE lo == CHOOSE x \in V : \A y \in V : x <= y
           hi == CHOOSE x \in V : \A y \in V : x >= y
<1>1. lo \in V /\ (\A y \in V : lo <= y) /\ hi \in V /\ (\A y \in V : hi >= y)
  BY IntBounds
<1>2. \A w : _normalize(w, V) = IF hi = lo THEN 1000 ELSE Ratio(w - lo, hi - lo)
  BY DEF _normalize
<1> HIDE DEF lo, hi
<1>3. CASE hi = lo
  BY <1>2, <1>3
<1>4. CASE hi # lo
  <2>1. hi - lo \in Nat \ {0} /\ v - lo \in Int /\ u - lo \in Int /\ v - lo <= u - lo
    BY <1>1, <1>4
  <2> DEFINE a == 1000 * (v - lo)
             b == 1000 * (u - lo)
             c == hi - lo
  <2>2. a \in Int /\ b \in Int /\ a <= b /\ c \in Nat \ {0}
    BY <2>1
  <2>3. _normalize(v, V) = a \div c /\ _normalize(u, V) = b \div c
    BY <1>2, <1>4 DEF Ratio
  <2> HIDE DEF a, b, c
  <2>4. a \div c <= b \div c /\ a \div c \in Int /\ b \div c \in Int
    BY <2>2, QuotientGrows
  <2> QED
    BY <2>3, <2>4
<1> QED
  BY <1>3, <1>4

-----------------------------------------------------------------------------
IsCandidate(c) ==
  /\ c.expectancy \in Int /\ c.profit_factor \in Int /\ c.stability \in Int
  /\ c.regimes \in Int /\ c.sample \in Int /\ c.drawdown \in Int

\* a is at least as good as b in everything.
AsGood(a, b) ==
  /\ a.expectancy >= b.expectancy /\ a.profit_factor >= b.profit_factor
  /\ a.stability >= b.stability /\ a.regimes >= b.regimes
  /\ a.sample >= b.sample /\ a.drawdown <= b.drawdown

\* The range of a function with a finite domain is finite.
LEMMA ImageFinite ==
  ASSUME NEW f, IsFiniteSet(DOMAIN f)
  PROVE  IsFiniteSet(Range(f))
<1> DEFINE g == [k \in DOMAIN f |-> f[k]]
<1>1. g \in Surjection(DOMAIN f, Range(f))
  BY DEF Surjection, Range
<1> HIDE DEF g
<1> QED
  BY <1>1, FS_Surjection

\* A candidate as good in everything scores as much.
LEMMA ScoreGrows ==
  ASSUME NEW C, IsFiniteSet(C), \A d \in C : IsCandidate(d),
         NEW a \in C, NEW b \in C, AsGood(a, b)
  PROVE  /\ champion_score(a, C) \in Int /\ champion_score(b, C) \in Int
         /\ champion_score(b, C) <= champion_score(a, C)
<1> DEFINE E == {d.expectancy : d \in C}
           P == {d.profit_factor : d \in C}
           D == {d.drawdown : d \in C}
<1>1. IsFiniteSet(E) /\ IsFiniteSet(P) /\ IsFiniteSet(D)
  <2> DEFINE e == [d \in C |-> d.expectancy]
             p == [d \in C |-> d.profit_factor]
             w == [d \in C |-> d.drawdown]
  <2>1. E = Range(e) /\ P = Range(p) /\ D = Range(w)
    BY DEF Range
  <2>2. DOMAIN e = C /\ DOMAIN p = C /\ DOMAIN w = C
    OBVIOUS
  <2> HIDE DEF e, p, w, E, P, D
  <2> QED
    BY <2>1, <2>2, ImageFinite
<1>2. E \subseteq Int /\ P \subseteq Int /\ D \subseteq Int
  BY DEF IsCandidate
<1>3. /\ a.expectancy \in E /\ b.expectancy \in E /\ a.profit_factor \in P /\ b.profit_factor \in P
      /\ a.drawdown \in D /\ b.drawdown \in D
  OBVIOUS
<1>4. \A c : champion_score(c, C)
               = 30 * _normalize(c.expectancy, E) + 20 * _normalize(c.profit_factor, P)
                  + 20 * c.stability + 10 * c.regimes + 10 * c.sample
                  - 10 * _normalize(c.drawdown, D)
  BY DEF champion_score
<1> HIDE DEF E, P, D
<1>5. IsCandidate(a) /\ IsCandidate(b)
  OBVIOUS
<1>6. /\ _normalize(b.expectancy, E) \in Int /\ _normalize(a.expectancy, E) \in Int
      /\ _normalize(b.expectancy, E) <= _normalize(a.expectancy, E)
  <2>1. b.expectancy <= a.expectancy
    BY <1>5 DEF AsGood, IsCandidate
  <2> QED
    BY <1>1, <1>2, <1>3, <2>1, NormalizeGrows
<1>7. /\ _normalize(b.profit_factor, P) \in Int /\ _normalize(a.profit_factor, P) \in Int
      /\ _normalize(b.profit_factor, P) <= _normalize(a.profit_factor, P)
  <2>1. b.profit_factor <= a.profit_factor
    BY <1>5 DEF AsGood, IsCandidate
  <2> QED
    BY <1>1, <1>2, <1>3, <2>1, NormalizeGrows
<1>8. /\ _normalize(b.drawdown, D) \in Int /\ _normalize(a.drawdown, D) \in Int
      /\ _normalize(a.drawdown, D) <= _normalize(b.drawdown, D)
  <2>1. a.drawdown <= b.drawdown
    BY <1>5 DEF AsGood, IsCandidate
  <2> QED
    BY <1>1, <1>2, <1>3, <2>1, NormalizeGrows
<1>9. /\ a.stability \in Int /\ b.stability \in Int /\ b.stability <= a.stability
      /\ a.regimes \in Int /\ b.regimes \in Int /\ b.regimes <= a.regimes
      /\ a.sample \in Int /\ b.sample \in Int /\ b.sample <= a.sample
  BY <1>5 DEF AsGood, IsCandidate
<1> QED
  BY <1>4, <1>6, <1>7, <1>8, <1>9

\* The champion of a batch: nothing qualified is as good and better.
LEMMA ChampionBest ==
  ASSUME NEW rs, IsFiniteSet(DOMAIN rs),
         \A j \in DOMAIN rs : rs[j].qualified => IsCandidate(_candidate_metrics(rs[j])),
         NEW k \in select_batch_champion(rs), NEW j \in DOMAIN rs, rs[j].qualified,
         NEW a, a = _candidate_metrics(rs[j]), NEW b, b = _candidate_metrics(rs[k]),
         AsGood(a, b)
  PROVE  ~(a.expectancy > b.expectancy \/ a.drawdown < b.drawdown)
<1> DEFINE qualified == {i \in DOMAIN rs : rs[i].qualified}
           metrics == [i \in qualified |-> _candidate_metrics(rs[i])]
           C == Range(metrics)
           score == [i \in qualified |-> champion_score(metrics[i], C)]
           Key(i) == <<score[i], metrics[i].expectancy, -metrics[i].drawdown, i>>
           Worse(x, y) == \E i \in 1..4 : x[i] < y[i] /\ \A l \in 1..(i - 1) : x[l] = y[l]
<1>1. select_batch_champion(rs)
        = {i \in qualified : \A l \in qualified \ {i} : Worse(Key(l), Key(i))}
  BY DEF select_batch_champion
<1>2. k \in qualified /\ j \in qualified /\ \A l \in qualified \ {k} : Worse(Key(l), Key(k))
  BY <1>1
<1>3. metrics[j] = a /\ metrics[k] = b /\ a \in C /\ b \in C
  BY <1>2 DEF Range
<1>4. IsFiniteSet(C)
  <2>1. DOMAIN metrics = qualified /\ IsFiniteSet(qualified)
    BY FS_Subset
  <2> HIDE DEF metrics, qualified
  <2> QED
    BY <2>1, ImageFinite
<1>5. \A d \in C : IsCandidate(d)
  BY DEF Range
<1>6. score[j] = champion_score(a, C) /\ score[k] = champion_score(b, C)
  BY <1>2, <1>3
<1>7. SUFFICES ASSUME a.expectancy > b.expectancy \/ a.drawdown < b.drawdown PROVE FALSE
  OBVIOUS
<1>8. Key(j) = <<score[j], a.expectancy, -a.drawdown, j>>
        /\ Key(k) = <<score[k], b.expectancy, -b.drawdown, k>>
  BY <1>3
<1> HIDE DEF C, score, metrics, qualified
<1>9. /\ score[j] \in Int /\ score[k] \in Int /\ score[k] <= score[j]
  BY <1>3, <1>4, <1>5, <1>6, ScoreGrows
<1>10. /\ a.expectancy \in Int /\ b.expectancy \in Int /\ a.drawdown \in Int /\ b.drawdown \in Int
       /\ a.expectancy >= b.expectancy /\ a.drawdown <= b.drawdown
  BY <1>3, <1>5 DEF IsCandidate, AsGood
<1>11. j # k
  BY <1>3, <1>7, <1>10
<1>12. Worse(Key(j), Key(k))
  BY <1>2, <1>11
<1>13. PICK i \in 1..4 : Key(j)[i] < Key(k)[i] /\ \A l \in 1..(i - 1) : Key(j)[l] = Key(k)[l]
  BY <1>12
<1> HIDE DEF Key, Worse
<1>14. /\ Key(j)[1] = score[j] /\ Key(j)[2] = a.expectancy /\ Key(j)[3] = -a.drawdown
       /\ Key(k)[1] = score[k] /\ Key(k)[2] = b.expectancy /\ Key(k)[3] = -b.drawdown
  BY <1>8
<1>15. i # 1
  BY <1>9, <1>13, <1>14
<1>16. i # 2
  BY <1>10, <1>13, <1>14
<1>17. i # 3
  BY <1>10, <1>13, <1>14
<1>18. i # 4
  <2>1. SUFFICES ASSUME i = 4 PROVE FALSE
    OBVIOUS
  <2>2. a.expectancy = b.expectancy /\ -a.drawdown = -b.drawdown
    BY <1>13, <1>14, <2>1
  <2> QED
    BY <1>7, <1>10, <2>2
<1> QED
  BY <1>13, <1>15, <1>16, <1>17, <1>18

\* What qualifies has every metric the ranking compares.
LEMMA QualifiedIsCandidate ==
  ASSUME NEW spec, Sized(spec), NEW frame, Priced(frame), NEW r, r = run_backtest_agent(spec, frame),
         r.qualified
  PROVE  IsCandidate(_candidate_metrics(r))
<1>1. PICK es : es = WindowExpectancies(spec, frame)
  OBVIOUS
<1>2. PICK m : m = compute_backtest_metrics(simulate_strategy(spec, frame))
  OBVIOUS
<1>3. \E x : r = Judged(spec, m, es, x)
  BY <1>1, <1>2 DEF run_backtest_agent, BacktestOf, Rated
<1>4. PICK x : r = Judged(spec, m, es, x)
  BY <1>3
<1>5. r.metrics = m /\ r.stability = _temporal_stability(es) /\ evaluate_absolute_gate(spec, m, es, x)
  BY <1>4 DEF Judged
<1>6. m.trade_count > 0 /\ m.loss > 0 /\ _temporal_stability(es) # {}
  BY <1>5 DEF evaluate_absolute_gate
<1>7. Measured(m)
  BY <1>2, SimulationBooks, BooksMeasured
<1>8. PICK v \in Int : _temporal_stability(es) = {v}
  <2>1. Expected(es)
    BY <1>1, WindowsExpected
  <2> QED
    BY <1>6, <2>1, StabilityInt
<1>9. Total(SetToSeq(r.stability)) \in Int
  <2> DEFINE f == <<v>>
  <2>1. SetToSeq(r.stability) = f
    BY <1>5, <1>8, SeqOfOne
  <2>2. DOMAIN f = {1} /\ \A k \in DOMAIN f : f[k] \in Int
    OBVIOUS
  <2> HIDE DEF f
  <2>3. IsFiniteSet(DOMAIN f)
    BY <2>2, FS_Singleton
  <2>4. Total(f) \in Int
    BY <2>2, <2>3, TotalInt
  <2> QED
    BY <2>1, <2>4
<1>10. expectancy_r(m) \in Int
  BY <1>6, <1>7, ExpectancyInt
<1>11. Ratio(m.profit, m.loss) \in Int
  BY <1>6, <1>7, RatioInt DEF Measured
<1>12. _clamp01(Ratio(m.trade_count, SampleTarget)) \in Int
  <2>1. m.trade_count \in Int /\ SampleTarget \in Int /\ SampleTarget > 0
    BY <1>7, BacktestAssumption DEF Measured
  <2>2. Ratio(m.trade_count, SampleTarget) \in Int
    BY <2>1, RatioInt
  <2> QED
    BY <2>2 DEF _clamp01
<1>13. m.regime_consistency \in Int /\ m.drawdown \in Int
  BY <1>7 DEF Measured
<1> QED
  BY <1>5, <1>9, <1>10, <1>11, <1>12, <1>13 DEF IsCandidate, _candidate_metrics

-----------------------------------------------------------------------------
\* The inductive invariant of the factory's batches: records are of a batch whose
\* exits are numbers, and the champion was undominated when it was chosen.
Researched ==
  /\ case \in Cases
  /\ batch \in Seq(Range(batch)) /\ \A spec \in Range(batch) : Sized(spec)
  /\ pc # "selected" => records = <<>>
  /\ ChampionUndominated

\* A case's history is priced.
LEMMA HistoryPriced ==
  ASSUME NEW c \in Cases
  PROVE  Priced(c.history)
BY TwinAssumption DEF IsFrame, Priced

\* A template's instance has integer exits.
LEMMA MutatedSized ==
  ASSUME NEW shift \in Shifts, NEW t, NEW level
  PROVE  Sized(build_spec_dict(t, level, mutate_params(shift)))
<1>1. ASSUME NEW name \in {"stop_atr", "target_atr"} PROVE mutate_params(shift)[name] \in Int
  <2> DEFINE p == ExitSpace[name]
             d == shift[name]
  <2>1. p.lo \in Int /\ p.hi \in Int /\ p.base \in Int /\ d \in Int /\ name \in DOMAIN ExitSpace
    BY ExitAssumption
  <2>2. mutate_params(shift)[name]
          = IF p.base + ((p.hi - p.lo) * d) \div 1000 < p.lo THEN p.lo
            ELSE IF p.base + ((p.hi - p.lo) * d) \div 1000 > p.hi THEN p.hi
            ELSE p.base + ((p.hi - p.lo) * d) \div 1000
    BY <2>1 DEF mutate_params
  <2> HIDE DEF p, d
  <2>3. PICK w \in Int : w = (p.hi - p.lo) * d
    <3>1. p.hi - p.lo \in Int
      BY <2>1
    <3> QED
      BY <2>1, <3>1
  <2>4. w \div 1000 \in Int
    OBVIOUS
  <2> QED
    BY <2>1, <2>2, <2>3, <2>4
<1>2. /\ build_spec_dict(t, level, mutate_params(shift)).stop_atr = mutate_params(shift)["stop_atr"]
      /\ build_spec_dict(t, level, mutate_params(shift)).target_atr = mutate_params(shift)["target_atr"]
  BY DEF build_spec_dict
<1> QED
  BY <1>1, <1>2 DEF Sized

\* No qualified record of a batch is at least as good as its champion in every
\* metric and better in expectancy or drawdown, for any batch and history
\* (champion_selector_agent.select_batch_champion).
THEOREM ChampionIsUndominated == SearchSpec => []ChampionUndominated
<1>1. SearchInit => Researched
  BY DEF SearchInit, Researched, ChampionUndominated, Range
<1>2. Researched /\ [SearchNext]_search_vars => Researched'
  <2> SUFFICES ASSUME Researched, [SearchNext]_search_vars PROVE Researched'
    OBVIOUS
  <2>1. CASE GenerateAttempt
    <3>1. PICK level \in Levels, shift \in Shifts :
            LET t == templates_for_timeframe[1 + (Len(batch) % Len(templates_for_timeframe))]
                spec == build_spec_dict(t, level, mutate_params(shift))
            IN  batch' = batch \/ batch' = Append(batch, spec)
      BY <2>1 DEF GenerateAttempt
    <3>2. \E spec : Sized(spec) /\ (batch' = batch \/ batch' = Append(batch, spec))
      BY <3>1, MutatedSized
    <3>3. PICK spec : Sized(spec) /\ (batch' = batch \/ batch' = Append(batch, spec))
      BY <3>2
    <3>4. batch' \in Seq(Range(batch')) /\ \A s \in Range(batch') : Sized(s)
      <4>1. CASE batch' = batch
        BY <4>1 DEF Researched
      <4>2. CASE batch' = Append(batch, spec)
        <5>1. batch \in Seq(Range(batch)) /\ \A s \in Range(batch) : Sized(s)
          BY DEF Researched
        <5>2. batch' = batch \o <<spec>>
          BY <4>2, <5>1
        <5>3. batch' \in Seq(Range(batch')) /\ Range(batch') = Range(batch) \cup {spec}
          BY <5>1, <5>2, AppendRange
        <5> QED
          BY <3>3, <5>1, <5>3
      <4> QED
        BY <3>3, <4>1, <4>2
    <3>5. UNCHANGED <<case, pc, records, found>>
      BY <2>1 DEF GenerateAttempt
    <3> QED
      BY <3>4, <3>5 DEF Researched, ChampionUndominated
  <2>2. CASE SelectChampion
    <3>1. /\ records' = [k \in DOMAIN batch |-> run_backtest_agent(batch[k], case.history)]
          /\ found' = {records'[k] : k \in select_batch_champion(records')}
          /\ pc' = "selected" /\ UNCHANGED <<case, batch>>
      BY <2>2 DEF SelectChampion
    <3>2. IsFiniteSet(DOMAIN records') /\ DOMAIN records' = DOMAIN batch
      <4>1. DOMAIN batch = 1..Len(batch) /\ Len(batch) \in Nat
        BY DEF Researched
      <4> QED
        BY <3>1, <4>1, FS_Interval
    <3>3. \A j \in DOMAIN records' :
            records'[j].qualified => IsCandidate(_candidate_metrics(records'[j]))
      <4> SUFFICES ASSUME NEW j \in DOMAIN records', records'[j].qualified
                   PROVE IsCandidate(_candidate_metrics(records'[j]))
        OBVIOUS
      <4>1. Sized(batch[j]) /\ Priced(case.history)
        BY <3>2, HistoryPriced DEF Researched, Range
      <4>2. records'[j] = run_backtest_agent(batch[j], case.history)
        BY <3>1, <3>2
      <4> QED
        BY <4>1, <4>2, QualifiedIsCandidate
    <3>4. ChampionUndominated'
      <4> SUFFICES ASSUME NEW champion \in found', NEW r \in Range(records'), r.qualified,
                          NEW a, a = _candidate_metrics(r), NEW b, b = _candidate_metrics(champion),
                          AsGood(a, b)
                   PROVE  ~(a.expectancy > b.expectancy \/ a.drawdown < b.drawdown)
        BY DEF ChampionUndominated, AsGood
      <4>1. PICK k \in select_batch_champion(records') : champion = records'[k]
        BY <3>1
      <4>2. PICK j \in DOMAIN records' : r = records'[j]
        BY DEF Range
      <4> QED
        BY <3>2, <3>3, <4>1, <4>2, ChampionBest
    <3> QED
      BY <3>1, <3>4 DEF Researched
  <2>3. CASE NextCycle
    <3>1. records' = <<>> /\ found' = {} /\ batch' = <<>> /\ UNCHANGED case
      BY <2>3 DEF NextCycle
    <3> QED
      BY <3>1 DEF Researched, ChampionUndominated, Range
  <2>4. CASE GateSurvivor
    <3>1. records = <<>> /\ UNCHANGED <<case, batch, records, pc>>
      BY <2>4 DEF GateSurvivor, Researched
    <3>2. Range(records') = {}
      BY <3>1 DEF Range
    <3> QED
      BY <3>1, <3>2 DEF Researched, ChampionUndominated
  <2>5. ASSUME UNCHANGED <<case, batch, records, found>>, pc' # "selected" => pc # "selected"
        PROVE Researched'
    BY <2>5 DEF Researched, ChampionUndominated
  <2>6. CASE MineStart \/ Rank
    <3>1. UNCHANGED <<case, batch, records, found>> /\ pc # "selected"
      BY <2>6 DEF MineStart, Rank
    <3> QED
      BY <2>5, <3>1
  <2>7. CASE Populate \/ BreedRandom \/ BreedCross
    <3>1. UNCHANGED <<case, batch, records, found, pc>>
      BY <2>7 DEF Populate, BreedRandom, BreedCross, Join
    <3> QED
      BY <2>5, <3>1
  <2>8. CASE UNCHANGED search_vars
    BY <2>5, <2>8 DEF search_vars
  <2> QED
    BY <2>1, <2>2, <2>3, <2>4, <2>6, <2>7, <2>8 DEF SearchNext
<1>3. Researched => ChampionUndominated
  BY DEF Researched
<1> QED
  BY <1>1, <1>2, <1>3, PTL DEF SearchSpec

-----------------------------------------------------------------------------
(***************************************************************************)
(* Sequences: what is kept, flattened, and ranked.                         *)
(***************************************************************************)
(***************************************************************************)
(* Sequences: what is kept, flattened, and inserted.                       *)
(***************************************************************************)
Keeps(s, kept, out, n) ==
  out = [i \in 0..n |->
           IF i = 0 THEN <<>> ELSE IF i \in kept THEN Append(out[i - 1], s[i]) ELSE out[i - 1]]

\* The recursive function of Kept exists.
LEMMA KeepsExist ==
  ASSUME NEW s, NEW kept, NEW n \in Nat
  PROVE  \E out : Keeps(s, kept, out, n)
<1> DEFINE next(t, i) == IF i \in kept THEN Append(t, s[i]) ELSE t
           G == {k \in Nat : \E out : Keeps(s, kept, out, k)}
<1>1. 0 \in G
  <2> DEFINE out == [k \in 0..0 |-> <<>>]
  <2>1. Keeps(s, kept, out, 0)
    BY DEF Keeps
  <2> QED
    BY <2>1
<1>2. ASSUME NEW k \in Nat, k \in G PROVE k + 1 \in G
  <2>1. PICK out : Keeps(s, kept, out, k)
    BY <1>2
  <2> DEFINE longer == [j \in 0..(k + 1) |-> IF j <= k THEN out[j] ELSE next(out[k], k + 1)]
  <2>2. \A j \in 0..k : out[j] = IF j = 0 THEN <<>> ELSE next(out[j - 1], j)
    BY <2>1 DEF Keeps
  <2> HIDE DEF next
  <2>3. \A j \in 0..(k + 1) : longer[j] = IF j = 0 THEN <<>> ELSE next(longer[j - 1], j)
    <3> TAKE j \in 0..(k + 1)
    <3>1. CASE j \in 0..k
      <4>1. longer[j] = out[j] /\ (j # 0 => longer[j - 1] = out[j - 1])
        BY <3>1
      <4> QED
        BY <2>2, <3>1, <4>1
    <3>2. CASE j = k + 1
      <4>1. j # 0 /\ longer[j] = next(out[k], j) /\ longer[j - 1] = out[k]
        BY <3>2
      <4> QED
        BY <4>1
    <3> QED
      BY <3>1, <3>2
  <2>4. longer = [j \in 0..(k + 1) |-> longer[j]]
    OBVIOUS
  <2> HIDE DEF longer
  <2>5. longer = [j \in 0..(k + 1) |-> IF j = 0 THEN <<>> ELSE next(longer[j - 1], j)]
    BY <2>3, <2>4
  <2>6. Keeps(s, kept, longer, k + 1)
    BY <2>5 DEF Keeps, next
  <2> QED
    BY <2>6
<1> HIDE DEF G
<1>3. n \in G
  BY <1>1, <1>2, NatSetInduction
<1> QED
  BY <1>3 DEF G

\* Of the first n elements of s, t is those at some of the positions kept.
Picked(s, kept, n, idx, t) ==
  /\ idx \in Seq(Nat) /\ Len(idx) <= n /\ t \in Seq(Range(s)) /\ Len(t) = Len(idx)
  /\ \A k \in 1..Len(idx) : idx[k] \in kept /\ idx[k] \in 1..n /\ t[k] = s[idx[k]]
  /\ \A j, k \in 1..Len(idx) : idx[j] = idx[k] => j = k

\* What is picked of one position more.
LEMMA PickedMore ==
  ASSUME NEW s, s \in Seq(Range(s)), NEW kept, NEW n \in Nat, n + 1 <= Len(s), NEW idx, NEW t,
         Picked(s, kept, n, idx, t)
  PROVE  /\ Picked(s, kept, n + 1, idx, t)
         /\ n + 1 \in kept => Picked(s, kept, n + 1, Append(idx, n + 1), Append(t, s[n + 1]))
<1>1. /\ idx \in Seq(Nat) /\ Len(idx) \in Nat /\ Len(idx) <= n /\ t \in Seq(Range(s))
      /\ Len(t) = Len(idx) /\ Len(s) \in Nat
  BY DEF Picked
<1>2. Picked(s, kept, n + 1, idx, t)
  BY <1>1 DEF Picked
<1>3. ASSUME n + 1 \in kept PROVE Picked(s, kept, n + 1, Append(idx, n + 1), Append(t, s[n + 1]))
  <2> DEFINE longer == Append(idx, n + 1)
             more == Append(t, s[n + 1])
  <2>1. s[n + 1] \in Range(s)
    BY <1>1 DEF Range
  <2>2. /\ longer \in Seq(Nat) /\ Len(longer) = Len(idx) + 1
        /\ \A k \in 1..Len(idx) : longer[k] = idx[k]
        /\ longer[Len(idx) + 1] = n + 1
    BY <1>1
  <2>3. /\ more \in Seq(Range(s)) /\ Len(more) = Len(idx) + 1
        /\ \A k \in 1..Len(idx) : more[k] = t[k]
        /\ more[Len(idx) + 1] = s[n + 1]
    BY <1>1, <2>1
  <2> HIDE DEF longer, more
  <2>4. ASSUME NEW k \in 1..Len(longer)
        PROVE  longer[k] \in kept /\ longer[k] \in 1..(n + 1) /\ more[k] = s[longer[k]]
    <3>1. CASE k = Len(idx) + 1
      BY <1>3, <2>2, <2>3, <3>1
    <3>2. CASE k # Len(idx) + 1
      <4>1. k \in 1..Len(idx)
        BY <1>1, <2>2, <3>2
      <4> QED
        BY <2>2, <2>3, <4>1 DEF Picked
    <3> QED
      BY <3>1, <3>2
  <2>5. ASSUME NEW j \in 1..Len(longer), NEW k \in 1..Len(longer), longer[j] = longer[k] PROVE j = k
    <3>1. \A i \in 1..Len(longer) : i \in 1..Len(idx) \/ i = Len(idx) + 1
      BY <1>1, <2>2
    <3>2. \A i \in 1..Len(idx) : longer[i] = idx[i] /\ idx[i] \in 1..n
      BY <2>2 DEF Picked
    <3>3. \A i \in 1..Len(idx) : longer[i] # n + 1
      BY <3>2
    <3>4. CASE j \in 1..Len(idx) /\ k \in 1..Len(idx)
      <4>1. idx[j] = idx[k]
        BY <2>5, <3>2, <3>4
      <4> QED
        BY <3>4, <4>1 DEF Picked
    <3>5. CASE j \in 1..Len(idx) /\ k = Len(idx) + 1
      BY <2>2, <2>5, <3>3, <3>5
    <3>6. CASE j = Len(idx) + 1 /\ k \in 1..Len(idx)
      BY <2>2, <2>5, <3>3, <3>6
    <3> QED
      BY <3>1, <3>4, <3>5, <3>6
  <2>6. Picked(s, kept, n + 1, longer, more)
    BY <1>1, <2>2, <2>3, <2>4, <2>5 DEF Picked
  <2> QED
    BY <2>6 DEF longer, more
<1> QED
  BY <1>2, <1>3

\* Kept keeps elements at different positions, in a sequence.
LEMMA KeptIs ==
  ASSUME NEW s, s \in Seq(Range(s)), NEW kept
  PROVE  \E idx : Picked(s, kept, Len(s), idx, Kept(s, kept))
<1> DEFINE out == CHOOSE out : Keeps(s, kept, out, Len(s))
           G == {n \in Nat : n <= Len(s) => \E idx : Picked(s, kept, n, idx, out[n])}
<1>1. Len(s) \in Nat
  OBVIOUS
<1>2. Keeps(s, kept, out, Len(s))
  BY <1>1, KeepsExist
<1>3. Kept(s, kept) = out[Len(s)]
  BY DEF Kept, Keeps
<1> HIDE DEF out
<1>4. /\ out[0] = <<>>
      /\ \A i \in 1..Len(s) : out[i] = IF i \in kept THEN Append(out[i - 1], s[i]) ELSE out[i - 1]
  <2> DEFINE next(t, i) == IF i \in kept THEN Append(t, s[i]) ELSE t
  <2>1. out = [i \in 0..Len(s) |-> IF i = 0 THEN <<>> ELSE next(out[i - 1], i)]
    BY <1>2 DEF Keeps
  <2> HIDE DEF next
  <2>2. out[0] = <<>> /\ \A i \in 1..Len(s) : out[i] = next(out[i - 1], i)
    BY <1>1, <2>1
  <2> QED
    BY <2>2 DEF next
<1>5. 0 \in G
  <2>1. Picked(s, kept, 0, <<>>, <<>>)
    BY DEF Picked
  <2> QED
    BY <1>4, <2>1
<1>6. ASSUME NEW n \in Nat, n \in G PROVE n + 1 \in G
  <2> SUFFICES ASSUME n + 1 <= Len(s) PROVE \E idx : Picked(s, kept, n + 1, idx, out[n + 1])
    OBVIOUS
  <2>1. PICK idx : Picked(s, kept, n, idx, out[n])
    BY <1>1, <1>6
  <2>2. PICK t : t = out[n]
    OBVIOUS
  <2>3. out[n + 1] = IF n + 1 \in kept THEN Append(t, s[n + 1]) ELSE t
    BY <1>1, <1>4, <2>2
  <2>4. Picked(s, kept, n, idx, t)
    BY <2>1, <2>2
  <2>5. Picked(s, kept, n + 1, idx, t)
    BY <1>1, <2>4, PickedMore
  <2>6. n + 1 \in kept => Picked(s, kept, n + 1, Append(idx, n + 1), Append(t, s[n + 1]))
    BY <1>1, <2>4, PickedMore
  <2> QED
    BY <2>3, <2>5, <2>6
<1>7. Len(s) \in G
  <2> HIDE DEF G
  <2> QED
    BY <1>1, <1>5, <1>6, NatSetInduction
<1> QED
  BY <1>1, <1>3, <1>7

Flattens(seqs, flatten, n) ==
  flatten = [i \in 1..n |-> IF i = 1 THEN seqs[i] ELSE flatten[i - 1] \o seqs[i]]

\* The recursive function of FlattenSeq exists.
LEMMA FlattensExist ==
  ASSUME NEW seqs, NEW n \in Nat
  PROVE  \E flatten : Flattens(seqs, flatten, n)
<1> DEFINE next(t, i) == IF i = 1 THEN seqs[i] ELSE t \o seqs[i]
           G == {k \in Nat : \E flatten : Flattens(seqs, flatten, k)}
<1>1. 0 \in G
  <2> DEFINE flatten == [k \in 1..0 |-> <<>>]
  <2>1. Flattens(seqs, flatten, 0)
    BY DEF Flattens
  <2> QED
    BY <2>1
<1>2. ASSUME NEW k \in Nat, k \in G PROVE k + 1 \in G
  <2>1. PICK flatten : Flattens(seqs, flatten, k)
    BY <1>2
  <2> DEFINE longer == [j \in 1..(k + 1) |-> IF j <= k THEN flatten[j] ELSE next(flatten[k], k + 1)]
  <2>2. \A j \in 1..k : flatten[j] = next(flatten[j - 1], j)
    BY <2>1 DEF Flattens
  <2>3. \A t, u : next(t, 1) = next(u, 1)
    OBVIOUS
  <2> HIDE DEF next
  <2>4. \A j \in 1..(k + 1) : longer[j] = next(longer[j - 1], j)
    <3> TAKE j \in 1..(k + 1)
    <3>1. CASE j \in 1..k
      <4>1. longer[j] = flatten[j] /\ (j # 1 => longer[j - 1] = flatten[j - 1])
        BY <3>1
      <4> QED
        BY <2>2, <2>3, <3>1, <4>1
    <3>2. CASE j = k + 1
      <4>1. longer[j] = next(flatten[k], j) /\ (j # 1 => longer[j - 1] = flatten[k])
        BY <3>2
      <4> QED
        BY <2>3, <4>1
    <3> QED
      BY <3>1, <3>2
  <2>5. longer = [j \in 1..(k + 1) |-> longer[j]]
    OBVIOUS
  <2> HIDE DEF longer
  <2>6. longer = [j \in 1..(k + 1) |-> next(longer[j - 1], j)]
    BY <2>4, <2>5
  <2>7. Flattens(seqs, longer, k + 1)
    BY <2>6 DEF Flattens, next
  <2> QED
    BY <2>7
<1> HIDE DEF G
<1>3. n \in G
  BY <1>1, <1>2, NatSetInduction
<1> QED
  BY <1>3 DEF G

\* Sequences over a set flatten to one.
LEMMA FlattenIs ==
  ASSUME NEW V, NEW seqs, seqs \in Seq(Seq(V))
  PROVE  FlattenSeq(seqs) \in Seq(V)
<1> DEFINE flatten == CHOOSE flatten : Flattens(seqs, flatten, Len(seqs))
           G == {n \in Nat : n \in 1..Len(seqs) => flatten[n] \in Seq(V)}
<1>1. Len(seqs) \in Nat /\ \A i \in 1..Len(seqs) : seqs[i] \in Seq(V)
  OBVIOUS
<1>2. Flattens(seqs, flatten, Len(seqs))
  BY <1>1, FlattensExist
<1>3. FlattenSeq(seqs) = IF Len(seqs) = 0 THEN seqs ELSE flatten[Len(seqs)]
  BY DEF FlattenSeq, Flattens
<1> HIDE DEF flatten
<1>4. \A i \in 1..Len(seqs) : flatten[i] = IF i = 1 THEN seqs[i] ELSE flatten[i - 1] \o seqs[i]
  BY <1>2 DEF Flattens
<1>5. 0 \in G
  OBVIOUS
<1>6. ASSUME NEW n \in Nat, n \in G PROVE n + 1 \in G
  <2> SUFFICES ASSUME n + 1 \in 1..Len(seqs) PROVE flatten[n + 1] \in Seq(V)
    OBVIOUS
  <2>1. CASE n = 0
    BY <1>1, <1>4, <2>1
  <2>2. CASE n # 0
    <3>1. n \in 1..Len(seqs) /\ flatten[n] \in Seq(V)
      BY <1>1, <1>6, <2>2
    <3>2. flatten[n + 1] = flatten[n] \o seqs[n + 1]
      <4>1. PICK m \in 1..Len(seqs) : m = n + 1 /\ m - 1 = n /\ m # 1
        BY <2>2
      <4>2. flatten[m] = flatten[m - 1] \o seqs[m]
        BY <1>4, <4>1
      <4> QED
        BY <4>1, <4>2
    <3> QED
      BY <1>1, <3>1, <3>2
  <2> QED
    BY <2>1, <2>2
<1>7. Len(seqs) \in G
  <2> HIDE DEF G
  <2> QED
    BY <1>1, <1>5, <1>6, NatSetInduction
<1>8. CASE Len(seqs) = 0
  <2>1. seqs = <<>>
    BY <1>8
  <2> QED
    BY <1>3, <1>8, <2>1
<1> QED
  BY <1>1, <1>3, <1>7, <1>8

-----------------------------------------------------------------------------
(***************************************************************************)
(* Ranked rearranges.                                                      *)
(***************************************************************************)
LEMMA InsertIs ==
  ASSUME NEW V, NEW s \in Seq(V), NEW i \in 1..(Len(s) + 1), NEW e \in V
  PROVE  InsertAt(s, i, e) \in Seq(V) /\ Len(InsertAt(s, i, e)) = Len(s) + 1
<1>1. i \in Nat /\ i - 1 \in Nat /\ Len(s) \in Nat /\ i <= Len(s) + 1
  OBVIOUS
<1>2. SubSeq(s, 1, i - 1) \in Seq(V) /\ Len(SubSeq(s, 1, i - 1)) = i - 1
  <2>1. \A k \in 1..(i - 1) : s[k] \in V
    BY <1>1
  <2> QED
    BY <1>1, <2>1, SubSeqProperties
<1>3. SubSeq(s, i, Len(s)) \in Seq(V) /\ Len(SubSeq(s, i, Len(s))) = Len(s) - i + 1
  <2>1. \A k \in i..Len(s) : s[k] \in V
    BY <1>1
  <2> QED
    BY <1>1, <2>1, SubSeqProperties
<1>4. PICK a \in Seq(V), b \in Seq(V) : a = SubSeq(s, 1, i - 1) /\ b = SubSeq(s, i, Len(s))
  BY <1>2, <1>3
<1>5. InsertAt(s, i, e) = a \o <<e>> \o b
  BY <1>4 DEF InsertAt
<1>6. a \o <<e>> \o b \in Seq(V) /\ Len(a \o <<e>> \o b) = Len(a) + 1 + Len(b)
  OBVIOUS
<1>7. Len(a) = i - 1 /\ Len(b) = Len(s) - i + 1
  BY <1>2, <1>3, <1>4
<1>8. Len(a) + 1 + Len(b) = Len(s) + 1
  BY <1>1, <1>7
<1> QED
  BY <1>5, <1>6, <1>8

Better(score, i, j) == score[i][1] * score[j][2] > score[j][1] * score[i][2]
Ahead(score, before, n) == {k \in DOMAIN before : ~Better(score, n, before[k])}
Placed(score, before, n) == InsertAt(before, Cardinality(Ahead(score, before, n)) + 1, n)
Orders(score, order, n) ==
  order = [i \in 0..n |-> IF i = 0 THEN <<>> ELSE Placed(score, order[i - 1], i)]

\* The recursive function of the ranking exists.
LEMMA OrdersExist ==
  ASSUME NEW score, NEW n \in Nat
  PROVE  \E order : Orders(score, order, n)
<1> DEFINE G == {k \in Nat : \E order : Orders(score, order, k)}
<1>1. 0 \in G
  <2> DEFINE order == [k \in 0..0 |-> <<>>]
  <2>1. Orders(score, order, 0)
    BY DEF Orders
  <2> QED
    BY <2>1
<1>2. ASSUME NEW k \in Nat, k \in G PROVE k + 1 \in G
  <2>1. PICK order : Orders(score, order, k)
    BY <1>2
  <2> DEFINE longer == [j \in 0..(k + 1) |-> IF j <= k THEN order[j] ELSE Placed(score, order[k], k + 1)]
  <2>2. \A j \in 0..k : order[j] = IF j = 0 THEN <<>> ELSE Placed(score, order[j - 1], j)
    BY <2>1 DEF Orders
  <2>3. \A j \in 0..(k + 1) : longer[j] = IF j = 0 THEN <<>> ELSE Placed(score, longer[j - 1], j)
    <3> TAKE j \in 0..(k + 1)
    <3>1. CASE j \in 0..k
      <4>1. longer[j] = order[j] /\ (j # 0 => longer[j - 1] = order[j - 1])
        BY <3>1
      <4> QED
        BY <2>2, <3>1, <4>1
    <3>2. CASE j = k + 1
      <4>1. j # 0 /\ longer[j] = Placed(score, order[k], j) /\ longer[j - 1] = order[k]
        BY <3>2
      <4> QED
        BY <4>1
    <3> QED
      BY <3>1, <3>2
  <2>4. longer = [j \in 0..(k + 1) |-> longer[j]]
    OBVIOUS
  <2> HIDE DEF longer
  <2>5. Orders(score, longer, k + 1)
    BY <2>3, <2>4 DEF Orders
  <2> QED
    BY <2>5
<1> HIDE DEF G
<1>3. n \in G
  BY <1>1, <1>2, NatSetInduction
<1> QED
  BY <1>3 DEF G

\* A ranking keeps the length, and brings in nothing new.
LEMMA RankedIs ==
  ASSUME NEW s, s \in Seq(Range(s)), NEW score
  PROVE  Ranked(s, score) \in Seq(Range(s)) /\ Len(Ranked(s, score)) = Len(s)
<1> DEFINE order == CHOOSE order : Orders(score, order, Len(s))
           G == {n \in Nat : n <= Len(s) => order[n] \in Seq(1..Len(s)) /\ Len(order[n]) = n}
<1>1. Len(s) \in Nat /\ DOMAIN s = 1..Len(s)
  OBVIOUS
<1>2. Orders(score, order, Len(s))
  BY <1>1, OrdersExist
<1>3. Ranked(s, score) = [k \in DOMAIN s |-> s[order[Len(s)][k]]]
  BY DEF Ranked, Orders, Placed, Ahead, Better
<1> HIDE DEF order
<1>4. order[0] = <<>> /\ \A i \in 1..Len(s) : order[i] = Placed(score, order[i - 1], i)
  BY <1>1, <1>2 DEF Orders
<1>5. 0 \in G
  <2>1. <<>> \in Seq(1..Len(s)) /\ Len(<<>>) = 0
    OBVIOUS
  <2>2. order[0] \in Seq(1..Len(s)) /\ Len(order[0]) = 0
    BY <1>4, <2>1
  <2> QED
    BY <2>2
<1>6. ASSUME NEW n \in Nat, n \in G PROVE n + 1 \in G
  <2> SUFFICES ASSUME n + 1 <= Len(s) PROVE order[n + 1] \in Seq(1..Len(s)) /\ Len(order[n + 1]) = n + 1
    OBVIOUS
  <2> PICK before, m : before = order[n] /\ m = n + 1
    OBVIOUS
  <2>1. before \in Seq(1..Len(s)) /\ Len(before) = n /\ DOMAIN before = 1..n /\ m \in 1..Len(s)
    BY <1>1, <1>6
  <2>2. order[n + 1] = Placed(score, before, m)
    BY <1>1, <1>4
  <2>3. Cardinality(Ahead(score, before, m)) \in 0..n
    <3>1. Ahead(score, before, m) \subseteq 1..n
      BY <2>1 DEF Ahead
    <3>2. IsFiniteSet(1..n) /\ Cardinality(1..n) = n
      BY FS_Interval
    <3>3. /\ IsFiniteSet(Ahead(score, before, m))
          /\ Cardinality(Ahead(score, before, m)) <= Cardinality(1..n)
      BY <3>1, <3>2, FS_Subset
    <3>4. Cardinality(Ahead(score, before, m)) \in Nat
      BY <3>3, FS_CardinalityType
    <3> QED
      BY <3>2, <3>3, <3>4
  <2>4. PICK i \in 1..(n + 1) : i = Cardinality(Ahead(score, before, m)) + 1
    BY <2>3
  <2>5. InsertAt(before, i, m) \in Seq(1..Len(s)) /\ Len(InsertAt(before, i, m)) = Len(before) + 1
    BY <2>1, <2>4, InsertIs
  <2> QED
    BY <2>1, <2>2, <2>4, <2>5 DEF Placed
<1>7. order[Len(s)] \in Seq(1..Len(s)) /\ Len(order[Len(s)]) = Len(s)
  <2>1. Len(s) \in G
    <3> HIDE DEF G
    <3> QED
      BY <1>1, <1>5, <1>6, NatSetInduction
  <2> QED
    BY <1>1, <2>1
<1>8. \A k \in 1..Len(s) : s[order[Len(s)][k]] \in Range(s)
  <2>1. \A k \in 1..Len(s) : order[Len(s)][k] \in 1..Len(s)
    BY <1>7
  <2> QED
    BY <1>1, <2>1 DEF Range
<1>9. Ranked(s, score) \in [1..Len(s) -> Range(s)]
  BY <1>1, <1>3, <1>8
<1> QED
  BY <1>1, <1>9, SeqDef

(***************************************************************************)
(* What the validator asks of one condition, of a sequence of them, and of *)
(* the exits.                                                              *)
(***************************************************************************)
SoundCondition(c) ==
  /\ is_runtime_available_feature(c.feature)
  /\ c.comparison \in allowed_comparisons_for(c.feature)
  /\ c.value_from # "" => /\ is_runtime_available_feature(c.value_from)
                          /\ {c.feature, c.value_from} \subseteq NumericFeatures
  /\ c.value_from = "" => c.value \subseteq ValuesFor(c.feature)
  /\ (c.value_from = "") # (c.value = {})

Sound(cs) == cs \in Seq(Range(cs)) /\ \A c \in Range(cs) : SoundCondition(c)
OneEach(cs) == \A i, j \in 1..Len(cs) : cs[i].feature = cs[j].feature => i = j
ExitsInRange(x) ==
  /\ _in_range(x.stop_atr, StopAtrRange) /\ _in_range(x.target_atr, TargetAtrRange)
  /\ x.target_atr >= x.stop_atr
  /\ _in_range(x.max_holding_bars, HoldingRange)
Exited(x) ==
  /\ x.stop_atr > 0 /\ x.target_atr > 0 /\ x.max_holding_bars > 0
  /\ ExitsInRange(x)

\* A rule set the search may breed, and one it keeps.
Bred(rs) ==
  /\ rs = [direction |-> rs.direction, conditions |-> rs.conditions, stop_atr |-> rs.stop_atr,
           target_atr |-> rs.target_atr, max_holding_bars |-> rs.max_holding_bars]
  /\ Sound(rs.conditions) /\ OneEach(rs.conditions) /\ Len(rs.conditions) <= 4
  /\ Exited(rs)
Kin(rs) == Bred(rs) /\ Len(rs.conditions) >= 2

\* A sequence over sound conditions is sound.
LEMMA SoundOf ==
  ASSUME NEW V, NEW cs \in Seq(V), \A c \in V : SoundCondition(c)
  PROVE  Sound(cs)
<1>1. DOMAIN cs = 1..Len(cs) /\ Len(cs) \in Nat /\ \A i \in 1..Len(cs) : cs[i] \in V
  OBVIOUS
<1>2. \A i \in 1..Len(cs) : cs[i] \in Range(cs)
  BY <1>1 DEF Range
<1>3. cs = [i \in 1..Len(cs) |-> cs[i]]
  OBVIOUS
<1>4. cs \in [1..Len(cs) -> Range(cs)]
  BY <1>2, <1>3
<1>5. cs \in Seq(Range(cs))
  BY <1>1, <1>4, SeqDef
<1> QED
  BY <1>1, <1>5 DEF Sound, Range

\* So are two sound sequences in a row,
LEMMA SoundConcat ==
  ASSUME NEW a, Sound(a), NEW b, Sound(b)
  PROVE  Sound(a \o b)
<1> DEFINE V == Range(a) \cup Range(b)
<1>1. a \in Seq(V) /\ b \in Seq(V)
  BY SeqMonotonic DEF Sound
<1>2. \A c \in V : SoundCondition(c)
  BY DEF Sound
<1> HIDE DEF V
<1>3. a \o b \in Seq(V)
  BY <1>1
<1> QED
  BY <1>2, <1>3, SoundOf

\* one sound condition,
LEMMA SoundOne ==
  ASSUME NEW c, SoundCondition(c)
  PROVE  Sound(<<c>>)
<1>1. PICK V : V = {c}
  OBVIOUS
<1>2. <<c>> \in Seq(V) /\ \A e \in V : SoundCondition(e)
  BY <1>1
<1> QED
  BY <1>2, SoundOf

\* a sound sequence and one condition more,
LEMMA SoundAppend ==
  ASSUME NEW cs, Sound(cs), NEW c, SoundCondition(c)
  PROVE  Sound(Append(cs, c)) /\ Len(Append(cs, c)) = Len(cs) + 1
<1>1. cs \in Seq(Range(cs))
  BY DEF Sound
<1>2. Append(cs, c) = cs \o <<c>>
  BY <1>1
<1>3. Sound(cs \o <<c>>)
  BY SoundOne, SoundConcat
<1>4. Len(Append(cs, c)) = Len(cs) + 1
  BY <1>1
<1> QED
  BY <1>2, <1>3, <1>4

\* A function on 1..n to sound conditions.
LEMMA SoundSequence ==
  ASSUME NEW n \in Nat, NEW f, f = [k \in 1..n |-> f[k]], \A k \in 1..n : SoundCondition(f[k])
  PROVE  Sound(f) /\ Len(f) = n
<1> DEFINE V == {f[k] : k \in 1..n}
<1>1. f \in [1..n -> V]
  OBVIOUS
<1>2. f \in Seq(V)
  BY <1>1, SeqDef
<1>3. \A c \in V : SoundCondition(c)
  OBVIOUS
<1>4. Len(f) = n
  <2>1. DOMAIN f = 1..n
    OBVIOUS
  <2> QED
    BY <1>2, <2>1
<1> QED
  BY <1>2, <1>3, <1>4, SoundOf

\* and sound sequences flattened.
LEMMA SoundFlatten ==
  ASSUME NEW n \in Nat, NEW f, f = [k \in 1..n |-> f[k]], \A k \in 1..n : Sound(f[k])
  PROVE  Sound(FlattenSeq(f))
<1> DEFINE V == UNION {Range(f[k]) : k \in 1..n}
<1>1. \A k \in 1..n : f[k] \in Seq(V)
  <2> TAKE k \in 1..n
  <2>1. f[k] \in Seq(Range(f[k])) /\ Range(f[k]) \subseteq V
    BY DEF Sound
  <2> HIDE DEF V
  <2> QED
    BY <2>1, SeqMonotonic
<1>2. \A c \in V : SoundCondition(c)
  BY DEF Sound
<1> HIDE DEF V
<1>3. f \in [1..n -> Seq(V)]
  BY <1>1
<1>4. f \in Seq(Seq(V))
  BY <1>3, SeqDef
<1>5. FlattenSeq(f) \in Seq(V)
  BY <1>4, FlattenIs
<1> QED
  BY <1>2, <1>5, SoundOf

\* What is kept of a sound sequence is sound.
LEMMA KeptSound ==
  ASSUME NEW cs, Sound(cs), NEW kept
  PROVE  Sound(Kept(cs, kept))
<1>1. PICK idx : Picked(cs, kept, Len(cs), idx, Kept(cs, kept))
  BY KeptIs DEF Sound
<1>2. Kept(cs, kept) \in Seq(Range(cs))
  BY <1>1 DEF Picked
<1> QED
  BY <1>2, SoundOf DEF Sound

\* One condition for each feature.
LEMMA DedupeIs ==
  ASSUME NEW cs, Sound(cs), NEW d, d = _dedupe_features(cs)
  PROVE  Sound(d) /\ OneEach(d) /\ Len(d) \in Nat /\ Len(d) <= Len(cs)
<1> DEFINE kept == {i \in DOMAIN cs : \A j \in 1..(i - 1) : cs[j].feature # cs[i].feature}
<1>1. cs \in Seq(Range(cs)) /\ DOMAIN cs = 1..Len(cs) /\ Len(cs) \in Nat
  BY DEF Sound
<1>2. d = Kept(cs, kept)
  <2> DEFINE key == [k \in DOMAIN cs |-> cs[k].feature]
  <2>1. {i \in DOMAIN cs : \A j \in 1..(i - 1) : key[j] # key[i]} = kept
    <3>1. \A i \in DOMAIN cs : \A j \in 1..(i - 1) : j \in DOMAIN cs
      BY <1>1
    <3>2. \A i \in DOMAIN cs : key[i] = cs[i].feature
      OBVIOUS
    <3> HIDE DEF key
    <3> QED
      BY <3>1, <3>2
  <2> HIDE DEF kept
  <2> QED
    BY <2>1 DEF _dedupe_features, Distinct
<1>3. Sound(d)
  BY <1>2, KeptSound
<1>4. PICK idx : Picked(cs, kept, Len(cs), idx, d)
  BY <1>1, <1>2, KeptIs
<1>5. Len(d) = Len(idx) /\ Len(idx) \in Nat /\ Len(idx) <= Len(cs)
  BY <1>4 DEF Picked
<1>6. ASSUME NEW i \in 1..Len(d), NEW j \in 1..Len(d), d[i].feature = d[j].feature PROVE i = j
  <2> PICK a, b : a = idx[i] /\ b = idx[j]
    OBVIOUS
  <2>1. a \in kept /\ b \in kept /\ d[i] = cs[a] /\ d[j] = cs[b] /\ a \in 1..Len(cs) /\ b \in 1..Len(cs)
    BY <1>4, <1>5 DEF Picked
  <2>2. ~(a < b) /\ ~(b < a)
    <3>1. /\ \A k \in 1..(a - 1) : cs[k].feature # cs[a].feature
          /\ \A k \in 1..(b - 1) : cs[k].feature # cs[b].feature
      BY <2>1
    <3>2. a < b => a \in 1..(b - 1)
      BY <2>1
    <3>3. b < a => b \in 1..(a - 1)
      BY <2>1
    <3> QED
      BY <1>6, <2>1, <3>1, <3>2, <3>3
  <2>3. a = b
    BY <2>1, <2>2
  <2> QED
    BY <1>4, <1>5, <2>3 DEF Picked
<1> QED
  BY <1>3, <1>5, <1>6 DEF OneEach

\* A pick from a sound pool is a sound condition.
LEMMA PickIs ==
  ASSUME NEW from, Sound(from), from # <<>>, NEW n \in Nat
  PROVE  SoundCondition(Pick(from, n))
<1>1. from \in Seq(Range(from)) /\ Len(from) \in Nat /\ DOMAIN from = 1..Len(from) /\ Len(from) # 0
  BY DEF Sound
<1>2. PICK m \in Nat : m = Len(from) /\ m # 0
  BY <1>1
<1>3. n % m \in 0..(m - 1)
  BY <1>2
<1>4. 1 + (n % m) \in 1..m
  BY <1>2, <1>3
<1>5. Pick(from, n) \in Range(from)
  BY <1>1, <1>2, <1>4 DEF Pick, Range
<1> QED
  BY <1>5 DEF Sound

\* Picks from it are at most four sound conditions.
LEMMA PicksAre ==
  ASSUME NEW from, Sound(from), from # <<>>, NEW picks \in Picks,
         NEW cs, cs = [k \in DOMAIN picks |-> Pick(from, picks[k])]
  PROVE  Sound(cs) /\ Len(cs) <= 4
<1>1. PICK n \in 1..4 : n = Len(picks) /\ DOMAIN picks = 1..n /\ \A k \in 1..n : picks[k] \in Nat
  <2>1. picks \in Seq(Nat) /\ Len(picks) \in 1..4
    BY MiningAssumption
  <2> QED
    BY <2>1
<1>2. cs = [k \in 1..n |-> cs[k]] /\ \A k \in 1..n : cs[k] = Pick(from, picks[k])
  BY <1>1
<1>3. \A k \in 1..n : SoundCondition(cs[k])
  BY <1>1, <1>2, PickIs
<1>4. n \in Nat /\ n <= 4
  BY <1>1
<1> QED
  BY <1>2, <1>3, <1>4, SoundSequence

-----------------------------------------------------------------------------
(***************************************************************************)
(* A refill: drawing until there are two conditions.                       *)
(***************************************************************************)
RuleConditions(cs) == Sound(cs) /\ OneEach(cs) /\ Len(cs) \in Nat /\ Len(cs) <= 4

Refills(cs, from, picks, drawn, n) ==
  drawn = [i \in 0..n |-> IF i = 0 THEN cs ELSE Redrawn(drawn[i - 1], Pick(from, picks[i]))]

\* The recursive function of Refilled exists.
LEMMA RefillsExist ==
  ASSUME NEW cs, NEW from, NEW picks, NEW n \in Nat
  PROVE  \E drawn : Refills(cs, from, picks, drawn, n)
<1> DEFINE G == {k \in Nat : \E drawn : Refills(cs, from, picks, drawn, k)}
<1>1. 0 \in G
  <2> DEFINE drawn == [k \in 0..0 |-> cs]
  <2>1. Refills(cs, from, picks, drawn, 0)
    BY DEF Refills
  <2> QED
    BY <2>1
<1>2. ASSUME NEW k \in Nat, k \in G PROVE k + 1 \in G
  <2>1. PICK drawn : Refills(cs, from, picks, drawn, k)
    BY <1>2
  <2> DEFINE next(t, i) == Redrawn(t, Pick(from, picks[i]))
             longer == [j \in 0..(k + 1) |-> IF j <= k THEN drawn[j] ELSE next(drawn[k], k + 1)]
  <2>2. \A j \in 0..k : drawn[j] = IF j = 0 THEN cs ELSE next(drawn[j - 1], j)
    BY <2>1 DEF Refills
  <2> HIDE DEF next
  <2>3. \A j \in 0..(k + 1) : longer[j] = IF j = 0 THEN cs ELSE next(longer[j - 1], j)
    <3> TAKE j \in 0..(k + 1)
    <3>1. CASE j \in 0..k
      <4>1. longer[j] = drawn[j] /\ (j # 0 => longer[j - 1] = drawn[j - 1])
        BY <3>1
      <4> QED
        BY <2>2, <3>1, <4>1
    <3>2. CASE j = k + 1
      <4>1. j # 0 /\ longer[j] = next(drawn[k], j) /\ longer[j - 1] = drawn[k]
        BY <3>2
      <4> QED
        BY <4>1
    <3> QED
      BY <3>1, <3>2
  <2>4. longer = [j \in 0..(k + 1) |-> longer[j]]
    OBVIOUS
  <2> HIDE DEF longer
  <2>5. longer = [j \in 0..(k + 1) |-> IF j = 0 THEN cs ELSE next(longer[j - 1], j)]
    BY <2>3, <2>4
  <2>6. Refills(cs, from, picks, longer, k + 1)
    BY <2>5 DEF Refills, next
  <2> QED
    BY <2>6
<1> HIDE DEF G
<1>3. n \in G
  BY <1>1, <1>2, NatSetInduction
<1> QED
  BY <1>3 DEF G

\* A condition drawn in addition keeps the rules.
LEMMA RedrawnIs ==
  ASSUME NEW cs, RuleConditions(cs), NEW c, SoundCondition(c)
  PROVE  RuleConditions(Redrawn(cs, c))
<1>1. CASE Len(cs) < 2
  <2>1. Sound(Append(cs, c)) /\ Len(Append(cs, c)) = Len(cs) + 1
    BY SoundAppend DEF RuleConditions
  <2>2. PICK d : d = _dedupe_features(Append(cs, c))
    OBVIOUS
  <2>3. Sound(d) /\ OneEach(d) /\ Len(d) \in Nat /\ Len(d) <= Len(Append(cs, c))
    BY <2>1, <2>2, DedupeIs
  <2>4. Len(d) <= 4
    BY <1>1, <2>1, <2>3 DEF RuleConditions
  <2> QED
    BY <1>1, <2>2, <2>3, <2>4 DEF Redrawn, RuleConditions
<1>2. CASE ~(Len(cs) < 2)
  BY <1>2 DEF Redrawn
<1> QED
  BY <1>1, <1>2

\* So do all the draws of a refill.
LEMMA RefilledIs ==
  ASSUME NEW cs, RuleConditions(cs), NEW from, Sound(from), from # <<>>, NEW picks \in Seq(Nat)
  PROVE  RuleConditions(Refilled(cs, from, picks))
<1> DEFINE drawn == CHOOSE drawn : Refills(cs, from, picks, drawn, Len(picks))
           G == {n \in Nat : n <= Len(picks) => RuleConditions(drawn[n])}
<1>1. Len(picks) \in Nat /\ \A k \in 1..Len(picks) : picks[k] \in Nat
  OBVIOUS
<1>2. Refills(cs, from, picks, drawn, Len(picks))
  BY <1>1, RefillsExist
<1>3. Refilled(cs, from, picks) = drawn[Len(picks)]
  BY DEF Refilled, Refills
<1> HIDE DEF drawn
<1>4. /\ drawn[0] = cs
      /\ \A i \in 1..Len(picks) : drawn[i] = Redrawn(drawn[i - 1], Pick(from, picks[i]))
  BY <1>1, <1>2 DEF Refills
<1>5. 0 \in G
  BY <1>4
<1>6. ASSUME NEW n \in Nat, n \in G PROVE n + 1 \in G
  <2> SUFFICES ASSUME n + 1 <= Len(picks) PROVE RuleConditions(drawn[n + 1])
    OBVIOUS
  <2>1. PICK m \in 1..Len(picks), t \in {drawn[n]}, c \in {Pick(from, picks[n + 1])} :
              m = n + 1 /\ t = drawn[n] /\ c = Pick(from, picks[m])
    BY <1>1
  <2>2. RuleConditions(t) /\ SoundCondition(c)
    <3>1. picks[m] \in Nat
      BY <1>1
    <3>2. SoundCondition(Pick(from, picks[m]))
      BY <3>1, PickIs
    <3> QED
      BY <1>1, <1>6, <2>1, <3>2
  <2>3. drawn[m] = Redrawn(t, c)
    <3>1. drawn[m] = Redrawn(drawn[m - 1], Pick(from, picks[m])) /\ m - 1 = n
      BY <1>4, <2>1
    <3> QED
      BY <2>1, <3>1
  <2>4. RuleConditions(Redrawn(t, c))
    BY <2>2, RedrawnIs
  <2> QED
    BY <2>1, <2>3, <2>4
<1>7. Len(picks) \in G
  <2> HIDE DEF G
  <2> QED
    BY <1>1, <1>5, <1>6, NatSetInduction
<1> QED
  BY <1>1, <1>3, <1>7

-----------------------------------------------------------------------------
(***************************************************************************)
(* The operators of the search.                                            *)
(***************************************************************************)
LEMMA DedupeRules ==
  ASSUME NEW cs, Sound(cs), Len(cs) <= 4
  PROVE  RuleConditions(_dedupe_features(cs))
<1>1. PICK d : d = _dedupe_features(cs)
  OBVIOUS
<1>2. Sound(d) /\ OneEach(d) /\ Len(d) \in Nat /\ Len(d) <= Len(cs)
  BY <1>1, DedupeIs
<1>3. Len(cs) \in Nat
  BY DEF Sound
<1>4. Len(d) <= 4
  BY <1>2, <1>3
<1> QED
  BY <1>1, <1>2, <1>4 DEF RuleConditions

\* The conditions drawn for a rule set, one for each feature.
LEMMA DrawnRules ==
  ASSUME NEW from, Sound(from), from # <<>>, NEW picks \in Picks
  PROVE  RuleConditions(_dedupe_features([k \in DOMAIN picks |-> Pick(from, picks[k])]))
<1>1. PICK cs : cs = [k \in DOMAIN picks |-> Pick(from, picks[k])]
  OBVIOUS
<1>2. Sound(cs) /\ Len(cs) <= 4
  BY <1>1, PicksAre
<1> QED
  BY <1>1, <1>2, DedupeRules

\* The exits drawn are within the validator's ranges, the reward at least the risk.
LEMMA SampledExits ==
  ASSUME NEW x \in Exits
  PROVE  Exited(_sample_exits(x))
<1>1. PICK s \in Nat, t \in Nat, h \in Nat : x = [stop_atr |-> s, target_atr |-> t, max_holding_bars |-> h]
  BY BreedAssumption
<1>2. PICK sl \in Nat \ {0}, sh \in Nat : StopAtrRange = <<sl, sh>>
  BY BreedAssumption
<1>3. PICK tl \in Nat \ {0}, th \in Nat : TargetAtrRange = <<tl, th>>
  BY BreedAssumption
<1>4. PICK hl \in Nat \ {0}, hh \in Nat : HoldingRange = <<hl, hh>>
  BY BreedAssumption
<1>5. sl <= s /\ s <= sh /\ s <= th /\ tl <= t /\ t <= th /\ hl <= h /\ h <= hh
  <2>1. /\ _in_range(x.stop_atr, StopAtrRange) /\ x.stop_atr <= TargetAtrRange[2]
        /\ _in_range(x.target_atr, TargetAtrRange) /\ _in_range(x.max_holding_bars, HoldingRange)
    BY BreedAssumption
  <2> QED
    BY <1>1, <1>2, <1>3, <1>4, <2>1 DEF _in_range
<1>6. PICK u \in Nat : u = IF t < s THEN s ELSE t
  OBVIOUS
<1>7. _sample_exits(x) = [stop_atr |-> s, target_atr |-> u, max_holding_bars |-> h]
  BY <1>1, <1>6 DEF _sample_exits
<1>8. tl <= u /\ u <= th /\ s <= u
  BY <1>5, <1>6
<1> QED
  BY <1>2, <1>3, <1>4, <1>5, <1>7, <1>8 DEF Exited, ExitsInRange, _in_range

\* A random rule set (rule_miner.py, random_rule_set).
LEMMA RandomBred ==
  ASSUME NEW from, Sound(from), from # <<>>, NEW x \in RandomDraw
  PROVE  Bred(random_rule_set(from, x))
<1>1. x.picks \in Picks /\ x.exits \in Exits
  BY DEF RandomDraw
<1>2. PICK cs : cs = _dedupe_features([k \in DOMAIN x.picks |-> Pick(from, x.picks[k])])
  OBVIOUS
<1>3. RuleConditions(cs)
  BY <1>1, <1>2, DrawnRules
<1>4. PICK e : e = _sample_exits(x.exits)
  OBVIOUS
<1>5. Exited(e)
  BY <1>1, <1>4, SampledExits
<1>6. random_rule_set(from, x)
        = [direction |-> x.side, conditions |-> cs, stop_atr |-> e.stop_atr,
           target_atr |-> e.target_atr, max_holding_bars |-> e.max_holding_bars]
  BY <1>2, <1>4 DEF random_rule_set
<1> QED
  BY <1>3, <1>5, <1>6 DEF Bred, RuleConditions, Exited, ExitsInRange

\* A child of two parents (rule_miner.py, crossover).
LEMMA CrossBred ==
  ASSUME NEW a, Kin(a), NEW b, Kin(b), NEW x \in CrossDraw
  PROVE  Bred(crossover(a, b, x))
<1>1. PICK merged : merged = a.conditions \o b.conditions
  OBVIOUS
<1>2. Sound(merged) /\ merged # <<>>
  <2>1. Sound(a.conditions) /\ Sound(b.conditions) /\ Len(a.conditions) >= 2
    BY DEF Kin, Bred
  <2>2. PICK c, d : c = a.conditions /\ d = b.conditions
    OBVIOUS
  <2>3. Sound(c \o d)
    BY <2>1, <2>2, SoundConcat
  <2>4. c \in Seq(Range(c) \cup Range(d)) /\ d \in Seq(Range(c) \cup Range(d)) /\ Len(c) >= 2
    BY <2>1, <2>2, SeqMonotonic DEF Sound
  <2>5. c \o d # <<>>
    BY <2>4
  <2> QED
    BY <1>1, <2>2, <2>3, <2>5
<1>3. x.picks \in Picks
  BY DEF CrossDraw
<1>4. PICK cs : cs = _dedupe_features([k \in DOMAIN x.picks |-> Pick(merged, x.picks[k])])
  OBVIOUS
<1>5. RuleConditions(cs)
  BY <1>2, <1>3, <1>4, DrawnRules
<1>6. PICK parent : parent = IF x.first THEN a ELSE b
  OBVIOUS
<1>7. Bred(parent)
  BY <1>6 DEF Kin
<1>8. crossover(a, b, x) = [parent EXCEPT !.conditions = cs]
  BY <1>1, <1>4, <1>6 DEF crossover
<1>9. crossover(a, b, x)
        = [direction |-> parent.direction, conditions |-> cs, stop_atr |-> parent.stop_atr,
           target_atr |-> parent.target_atr, max_holding_bars |-> parent.max_holding_bars]
  BY <1>7, <1>8 DEF Bred
<1> QED
  BY <1>5, <1>7, <1>9 DEF Bred, RuleConditions, Exited, ExitsInRange

\* What is left of a few picks.
LEMMA TailNats ==
  ASSUME NEW s \in Seq(Nat), Len(s) \in 1..4
  PROVE  Tail(s) \in Seq(Nat)
<1>1. s # <<>>
  <2>1. Len(<<>>) = 0
    OBVIOUS
  <2>2. \A n \in 1..4 : n # 0
    OBVIOUS
  <2> QED
    BY <2>1, <2>2, Zenon
<1> QED
  BY <1>1, HeadTailProperties

\* A mutated rule set (rule_miner.py, mutate).
LEMMA MutateBred ==
  ASSUME NEW rs, Bred(rs), NEW from, Sound(from), from # <<>>, NEW change \in Change
  PROVE  Bred(mutate(rs, from, change))
<1>1. CASE change.what = "none"
  BY <1>1 DEF mutate
<1>2. CASE change.what = "condition"
  <2>1. change.picks \in Picks
    BY <1>2 DEF Change
  <2>2. PICK picks \in Seq(Nat) : picks = change.picks /\ Len(picks) \in 1..4
    BY <2>1, MiningAssumption
  <2>3. PICK at, c : at = 1 + (change.at % Len(rs.conditions)) /\ c = Pick(from, picks[1])
    OBVIOUS
  <2>4. SoundCondition(c)
    <3>1. picks[1] \in Nat
      BY <2>2
    <3> QED
      BY <2>3, <3>1, PickIs
  <2>5. PICK cs : cs = rs.conditions
    OBVIOUS
  <2>6. PICK replaced : replaced = [cs EXCEPT ![at] = c]
    OBVIOUS
  <2>7. Sound(replaced) /\ Len(replaced) <= 4
    <3>1. /\ cs \in Seq(Range(cs)) /\ Len(cs) \in Nat /\ Len(cs) <= 4 /\ DOMAIN cs = 1..Len(cs)
          /\ \A k \in 1..Len(cs) : SoundCondition(cs[k])
      BY <2>5 DEF Bred, Sound, Range
    <3>2. /\ replaced = [k \in 1..Len(cs) |-> replaced[k]]
          /\ \A k \in 1..Len(cs) : replaced[k] = c \/ replaced[k] = cs[k]
      BY <2>6, <3>1
    <3>3. \A k \in 1..Len(cs) : SoundCondition(replaced[k])
      BY <2>4, <3>1, <3>2
    <3>4. Sound(replaced) /\ Len(replaced) = Len(cs)
      BY <3>1, <3>2, <3>3, SoundSequence
    <3> QED
      BY <3>1, <3>4
  <2>8. PICK kept : kept = _dedupe_features(replaced)
    OBVIOUS
  <2>9. RuleConditions(kept)
    BY <2>7, <2>8, DedupeRules
  <2>10. Tail(picks) \in Seq(Nat)
    BY <2>2, TailNats
  <2>11. PICK filled : filled = Refilled(kept, from, Tail(picks))
    OBVIOUS
  <2>12. RuleConditions(filled)
    BY <2>9, <2>10, <2>11, RefilledIs
  <2>13. mutate(rs, from, change) = [rs EXCEPT !.conditions = filled]
    BY <1>2, <2>2, <2>3, <2>5, <2>6, <2>8, <2>11 DEF mutate
  <2>14. mutate(rs, from, change)
           = [direction |-> rs.direction, conditions |-> filled, stop_atr |-> rs.stop_atr,
              target_atr |-> rs.target_atr, max_holding_bars |-> rs.max_holding_bars]
    BY <2>13 DEF Bred
  <2> QED
    BY <2>12, <2>14 DEF Bred, RuleConditions, Exited, ExitsInRange
<1>3. CASE change.what = "exits"
  <2>1. change.exits \in Exits
    BY <1>3 DEF Change
  <2>2. PICK e : e = _sample_exits(change.exits)
    OBVIOUS
  <2>3. Exited(e)
    BY <2>1, <2>2, SampledExits
  <2>4. mutate(rs, from, change) = WithExits(rs, e)
    BY <1>3, <2>2 DEF mutate
  <2>5. mutate(rs, from, change)
          = [direction |-> rs.direction, conditions |-> rs.conditions, stop_atr |-> e.stop_atr,
             target_atr |-> e.target_atr, max_holding_bars |-> e.max_holding_bars]
    BY <2>4 DEF Bred, WithExits
  <2> QED
    BY <2>3, <2>5 DEF Bred, Exited, ExitsInRange
<1>4. CASE change.what \notin {"none", "condition", "exits"}
  <2>1. PICK d : d = CHOOSE s \in Side : s # rs.direction
    OBVIOUS
  <2>2. mutate(rs, from, change) = [rs EXCEPT !.direction = d]
    BY <1>4, <2>1 DEF mutate
  <2>3. mutate(rs, from, change)
          = [direction |-> d, conditions |-> rs.conditions, stop_atr |-> rs.stop_atr,
             target_atr |-> rs.target_atr, max_holding_bars |-> rs.max_holding_bars]
    BY <2>2 DEF Bred
  <2> QED
    BY <2>3 DEF Bred, Exited, ExitsInRange
<1> QED
  BY <1>1, <1>2, <1>3, <1>4

\* A sequence is one over its range.
LEMMA SeqOverRange ==
  ASSUME NEW V, NEW s \in Seq(V)
  PROVE  s \in Seq(Range(s)) /\ Range(s) \subseteq V
<1>1. DOMAIN s = 1..Len(s) /\ Len(s) \in Nat /\ \A i \in 1..Len(s) : s[i] \in V
  OBVIOUS
<1>2. \A i \in 1..Len(s) : s[i] \in Range(s)
  BY <1>1 DEF Range
<1>3. s = [i \in 1..Len(s) |-> s[i]]
  OBVIOUS
<1>4. s \in [1..Len(s) -> Range(s)]
  BY <1>2, <1>3
<1>5. s \in Seq(Range(s))
  BY <1>1, <1>4, SeqDef
<1>6. Range(s) = {s[i] : i \in DOMAIN s}
  BY DEF Range
<1>7. \A x \in Range(s) : x \in V
  BY <1>1, <1>6
<1> QED
  BY <1>5, <1>7

\* What is kept is over the same set, and from the kept positions.
LEMMA KeptFrom ==
  ASSUME NEW V, NEW s \in Seq(V), NEW kept
  PROVE  /\ Kept(s, kept) \in Seq(V)
         /\ \A e \in Range(Kept(s, kept)) : \E i \in kept : i \in 1..Len(s) /\ e = s[i]
<1>1. s \in Seq(Range(s)) /\ Range(s) \subseteq V
  BY SeqOverRange
<1>2. PICK idx : Picked(s, kept, Len(s), idx, Kept(s, kept))
  BY <1>1, KeptIs
<1>3. PICK t : t = Kept(s, kept)
  OBVIOUS
<1>4. /\ t \in Seq(Range(s)) /\ Len(t) = Len(idx)
      /\ \A k \in 1..Len(idx) : idx[k] \in kept /\ idx[k] \in 1..Len(s) /\ t[k] = s[idx[k]]
  BY <1>2, <1>3 DEF Picked
<1>5. t \in Seq(V)
  BY <1>1, <1>4, SeqMonotonic
<1>6. DOMAIN t = 1..Len(idx)
  BY <1>4
<1>7. ASSUME NEW e \in Range(t) PROVE \E i \in kept : i \in 1..Len(s) /\ e = s[i]
  <2>1. PICK k \in DOMAIN t : e = t[k]
    BY DEF Range
  <2> QED
    BY <1>4, <1>6, <2>1
<1> QED
  BY <1>3, <1>5, <1>7

-----------------------------------------------------------------------------
(***************************************************************************)
(* The pool of conditions.                                                 *)
(***************************************************************************)
Usable(fs, F) ==
  /\ fs \in Seq(F)
  /\ \A k \in 1..Len(fs) : fs[k] \in F /\ is_runtime_available_feature(fs[k])

\* Mineable features are available at run time.
LEMMA MineableIs ==
  ASSUME NEW F, NEW fs \in Seq(F)
  PROVE  Usable(Mineable(fs), F)
<1> DEFINE kept == {k \in DOMAIN fs : is_runtime_available_feature(fs[k]) /\ fs[k] \in Columns}
<1>1. \A i \in kept : is_runtime_available_feature(fs[i])
  OBVIOUS
<1>2. Mineable(fs) = Kept(fs, kept)
  BY DEF Mineable
<1> HIDE DEF kept
<1>3. PICK t : t = Mineable(fs)
  OBVIOUS
<1>4. t \in Seq(F) /\ \A e \in Range(t) : \E i \in kept : i \in 1..Len(fs) /\ e = fs[i]
  <2>1. /\ Kept(fs, kept) \in Seq(F)
        /\ \A e \in Range(Kept(fs, kept)) : \E i \in kept : i \in 1..Len(fs) /\ e = fs[i]
    BY KeptFrom
  <2> QED
    BY <1>2, <1>3, <2>1
<1>5. \A k \in 1..Len(t) : t[k] \in Range(t) /\ t[k] \in F
  BY <1>4 DEF Range
<1> QED
  BY <1>1, <1>3, <1>4, <1>5 DEF Usable

\* So are those kept of them.
LEMMA UsableKept ==
  ASSUME NEW F, NEW fs, Usable(fs, F), NEW kept
  PROVE  Usable(Kept(fs, kept), F)
<1>1. PICK t : t = Kept(fs, kept)
  OBVIOUS
<1>2. t \in Seq(F) /\ \A e \in Range(t) : \E i \in kept : i \in 1..Len(fs) /\ e = fs[i]
  <2>1. fs \in Seq(F)
    BY DEF Usable
  <2>2. /\ Kept(fs, kept) \in Seq(F)
        /\ \A e \in Range(Kept(fs, kept)) : \E i \in kept : i \in 1..Len(fs) /\ e = fs[i]
    BY <2>1, KeptFrom
  <2> QED
    BY <1>1, <2>2
<1>3. \A k \in 1..Len(t) : t[k] \in Range(t) /\ t[k] \in F
  BY <1>2 DEF Range
<1> QED
  BY <1>1, <1>2, <1>3 DEF Usable

\* A feature against a value it may be compared with.
LEMMA LiteralSound ==
  ASSUME NEW f, is_runtime_available_feature(f), NEW op, op \in allowed_comparisons_for(f),
         NEW v \in ValuesFor(f)
  PROVE  SoundCondition(Literal(f, op, v))
BY DEF SoundCondition, Literal

\* A feature against another.
LEMMA AgainstSound ==
  ASSUME NEW f \in NumericFeatures, is_runtime_available_feature(f), NEW op \in {">", "<"},
         NEW g \in NumericFeatures, is_runtime_available_feature(g)
  PROVE  SoundCondition(Against(f, op, g))
<1>1. g # ""
  BY MiningAssumption
<1>2. op \in allowed_comparisons_for(f)
  BY DEF allowed_comparisons_for
<1> QED
  BY <1>1, <1>2 DEF SoundCondition, Against

\* A column holds numbers, and so does its quantile.
LEMMA ColumnIs ==
  ASSUME NEW frame, frame \in Seq(Range(frame)), NEW f
  PROVE  Column(frame, f) \in Seq(Int)
<1> DEFINE kept == {i \in DOMAIN frame : f \in DOMAIN frame[i].row /\ frame[i].row[f] \in Int}
<1>1. PICK rows : rows = Kept(frame, kept)
  OBVIOUS
<1>2. PICK values : values = [k \in DOMAIN rows |-> rows[k].row[f]]
  OBVIOUS
<1>3. PICK score : score = [k \in DOMAIN values |-> <<-values[k], 1>>]
  OBVIOUS
<1>4. Column(frame, f) = Ranked(values, score)
  BY <1>1, <1>2, <1>3 DEF Column
<1>5. \A i \in kept : frame[i].row[f] \in Int
  OBVIOUS
<1> HIDE DEF kept
<1>6. PICK V : V = Range(frame) /\ frame \in Seq(V)
  OBVIOUS
<1>7. rows \in Seq(V) /\ \A e \in Range(rows) : \E i \in kept : i \in 1..Len(frame) /\ e = frame[i]
  <2>1. /\ Kept(frame, kept) \in Seq(V)
        /\ \A e \in Range(Kept(frame, kept)) : \E i \in kept : i \in 1..Len(frame) /\ e = frame[i]
    BY <1>6, KeptFrom
  <2> QED
    BY <1>1, <2>1
<1>8. PICK n \in Nat : n = Len(rows) /\ DOMAIN rows = 1..n
  BY <1>7
<1>9. \A k \in 1..n : rows[k].row[f] \in Int
  <2> TAKE k \in 1..n
  <2>1. rows[k] \in Range(rows)
    BY <1>8 DEF Range
  <2>2. PICK i \in kept : rows[k] = frame[i]
    BY <1>7, <2>1
  <2> QED
    BY <1>5, <2>2
<1>10. values \in [1..n -> Int]
  BY <1>2, <1>8, <1>9
<1>11. values \in Seq(Int)
  BY <1>10, SeqDef
<1>12. values \in Seq(Range(values)) /\ Range(values) \subseteq Int
  BY <1>11, SeqOverRange
<1>13. Ranked(values, score) \in Seq(Range(values))
  BY <1>12, RankedIs
<1>14. PICK t, R : t = Ranked(values, score) /\ R = Range(values) /\ t \in Seq(R) /\ R \subseteq Int
  BY <1>12, <1>13
<1>15. t \in Seq(Int)
  BY <1>14, SeqMonotonic
<1> QED
  BY <1>4, <1>14, <1>15

LEMMA QuantileIs ==
  ASSUME NEW column \in Seq(Int), Len(column) >= 1, NEW tenths \in 0..10
  PROVE  Quantile(column, tenths) \in Int
<1>1. PICK n \in Nat : n = Len(column) /\ n >= 1
  OBVIOUS
<1>2. PICK m \in Nat : m = n - 1
  BY <1>1
<1>3. PICK p \in Int : p = m * tenths /\ 0 <= p /\ p <= 10 * m
  <2>1. tenths \in Int /\ 0 <= tenths /\ tenths <= 10
    OBVIOUS
  <2>2. tenths * m \in Int /\ 10 * m \in Int /\ tenths * m <= 10 * m
    BY <2>1, ProductGrows
  <2>3. 0 * m \in Int /\ 0 * m <= tenths * m
    BY <2>1, ProductGrows
  <2> QED
    BY <2>1, <2>2, <2>3
<1>4. PICK i : i = 1 + (p \div 10) /\ i \in 1..n
  BY <1>1, <1>2, <1>3
<1>5. column[i] \in Int
  BY <1>1, <1>4
<1> QED
  BY <1>1, <1>2, <1>3, <1>4, <1>5 DEF Quantile

\* The three kinds of conditions mined (rule_miner.py, build_condition_pool).
LEMMA ThresholdsSound ==
  ASSUME NEW frame, frame \in Seq(Range(frame))
  PROVE  Sound(ThresholdConditions(frame))
<1>1. PICK mined : /\ Usable(mined, NumericFeatures)
                   /\ \A k \in 1..Len(mined) : Len(Column(frame, mined[k])) >= MinValues
                   /\ ThresholdConditions(frame)
                        = FlattenSeq([k \in DOMAIN mined |-> FlattenSeq([q \in DOMAIN Quantiles |->
                            [c \in DOMAIN NumericComparisons |->
                               Literal(mined[k], NumericComparisons[c],
                                       Quantile(Column(frame, mined[k]), Quantiles[q]))]])])
  <2>1. PICK fs : fs = Mineable(ThresholdFeatures)
    OBVIOUS
  <2>2. Usable(fs, NumericFeatures)
    <3>1. ThresholdFeatures \in Seq(NumericFeatures)
      BY MiningAssumption
    <3>2. Usable(Mineable(ThresholdFeatures), NumericFeatures)
      BY <3>1, MineableIs
    <3> QED
      BY <2>1, <3>2
  <2>3. PICK mined : mined = Kept(fs, {k \in DOMAIN fs : Len(Column(frame, fs[k])) >= MinValues})
    OBVIOUS
  <2>4. Usable(mined, NumericFeatures)
    BY <2>2, <2>3, UsableKept
  <2>5. \A k \in 1..Len(mined) : Len(Column(frame, mined[k])) >= MinValues
    <3> DEFINE kept == {k \in DOMAIN fs : Len(Column(frame, fs[k])) >= MinValues}
    <3>1. \A i \in kept : Len(Column(frame, fs[i])) >= MinValues
      OBVIOUS
    <3>2. mined = Kept(fs, kept)
      BY <2>3
    <3> HIDE DEF kept
    <3>3. fs \in Seq(NumericFeatures)
      BY <2>2 DEF Usable
    <3>4. \A e \in Range(mined) : \E i \in kept : i \in 1..Len(fs) /\ e = fs[i]
      BY <3>2, <3>3, KeptFrom
    <3>5. \A k \in 1..Len(mined) : mined[k] \in Range(mined)
      BY <2>4 DEF Range, Usable
    <3> QED
      BY <3>1, <3>4, <3>5
  <2> QED
    BY <2>1, <2>3, <2>4, <2>5 DEF ThresholdConditions
<1>2. PICK n \in Nat : n = Len(mined) /\ DOMAIN mined = 1..n
  BY <1>1 DEF Usable
<1>3. PICK l \in Nat : /\ l = Len(Quantiles) /\ DOMAIN Quantiles = 1..l
                       /\ \A q \in 1..l : Quantiles[q] \in 0..10
  <2>1. Quantiles \in Seq(0..10)
    BY MiningAssumption
  <2> QED
    BY <2>1
<1>4. PICK m \in Nat : /\ m = Len(NumericComparisons) /\ DOMAIN NumericComparisons = 1..m
                       /\ \A c \in 1..m : NumericComparisons[c] \in {">", ">=", "<", "<="}
  <2>1. NumericComparisons \in Seq({">", ">=", "<", "<="})
    BY MiningAssumption
  <2> QED
    BY <2>1
<1> DEFINE lit(k, q, c) == Literal(mined[k], NumericComparisons[c],
                                   Quantile(Column(frame, mined[k]), Quantiles[q]))
           row(k, q) == [c \in 1..m |-> lit(k, q, c)]
           rows(k) == [q \in 1..l |-> row(k, q)]
           all == [k \in 1..n |-> FlattenSeq(rows(k))]
<1>5. ASSUME NEW k \in 1..n, NEW q \in 1..l, NEW c \in 1..m PROVE SoundCondition(lit(k, q, c))
  <2>1. mined[k] \in NumericFeatures /\ is_runtime_available_feature(mined[k])
    BY <1>1, <1>2 DEF Usable
  <2>2. NumericComparisons[c] \in allowed_comparisons_for(mined[k])
    BY <1>4, <2>1 DEF allowed_comparisons_for
  <2>3. PICK column : column = Column(frame, mined[k]) /\ column \in Seq(Int)
    BY ColumnIs
  <2>4. Len(column) >= 1
    <3>1. Len(column) >= MinValues /\ Len(column) \in Nat
      BY <1>1, <1>2, <2>3
    <3>2. MinValues \in Nat \ {0}
      BY MiningAssumption
    <3> QED
      BY <3>1, <3>2
  <2>5. Quantiles[q] \in 0..10
    BY <1>3
  <2>6. Quantile(column, Quantiles[q]) \in Int
    BY <2>3, <2>4, <2>5, QuantileIs
  <2>7. Quantile(Column(frame, mined[k]), Quantiles[q]) \in ValuesFor(mined[k])
    BY <2>1, <2>3, <2>6 DEF ValuesFor
  <2> QED
    BY <2>1, <2>2, <2>7, LiteralSound
<1>6. ThresholdConditions(frame) = FlattenSeq(all)
  BY <1>1, <1>2, <1>3, <1>4
<1> HIDE DEF lit
<1>7. ASSUME NEW k \in 1..n, NEW q \in 1..l PROVE Sound(row(k, q))
  <2>1. PICK r : r = row(k, q)
    OBVIOUS
  <2>2. r = [c \in 1..m |-> r[c]] /\ \A c \in 1..m : r[c] = lit(k, q, c)
    BY <2>1
  <2>3. \A c \in 1..m : SoundCondition(r[c])
    BY <1>5, <2>2
  <2> QED
    BY <2>1, <2>2, <2>3, SoundSequence
<1> HIDE DEF row
<1>8. ASSUME NEW k \in 1..n PROVE Sound(FlattenSeq(rows(k)))
  <2>1. PICK r : r = rows(k)
    OBVIOUS
  <2>2. r = [q \in 1..l |-> r[q]] /\ \A q \in 1..l : r[q] = row(k, q)
    BY <2>1
  <2>3. \A q \in 1..l : Sound(r[q])
    BY <1>7, <2>2
  <2>4. Sound(FlattenSeq(r))
    BY <2>2, <2>3, SoundFlatten
  <2> QED
    BY <2>1, <2>4
<1> HIDE DEF rows
<1>9. all = [k \in 1..n |-> all[k]] /\ \A k \in 1..n : Sound(all[k])
  BY <1>8
<1> HIDE DEF all
<1> QED
  BY <1>6, <1>9, SoundFlatten

\* Prices against each other.
LEMMA PricesSound ==
  ASSUME NEW frame
  PROVE  Sound(PriceConditions(frame))
<1>1. PICK prices : prices = Mineable(PriceFeatures)
  OBVIOUS
<1>2. Usable(prices, NumericFeatures)
  <2>1. PriceFeatures \in Seq(NumericFeatures)
    BY MiningAssumption
  <2>2. Usable(Mineable(PriceFeatures), NumericFeatures)
    BY <2>1, MineableIs
  <2> QED
    BY <1>1, <2>2
<1>3. PICK n \in Nat : n = Len(prices) /\ DOMAIN prices = 1..n
  BY <1>2 DEF Usable
<1> DEFINE pair(a, b) == IF a = b THEN <<>>
                         ELSE <<Against(prices[a], ">", prices[b]), Against(prices[a], "<", prices[b])>>
           row(a) == [b \in 1..n |-> pair(a, b)]
           all == [a \in 1..n |-> FlattenSeq(row(a))]
<1>4. PriceConditions(frame) = FlattenSeq(all)
  BY <1>1, <1>3 DEF PriceConditions
<1>5. ASSUME NEW a \in 1..n, NEW b \in 1..n PROVE Sound(pair(a, b))
  <2>1. CASE a = b
    <3>1. Range(<<>>) = {} /\ <<>> \in Seq({})
      BY DEF Range
    <3> QED
      BY <2>1, <3>1 DEF Sound
  <2>2. CASE a # b
    <3>1. /\ prices[a] \in NumericFeatures /\ is_runtime_available_feature(prices[a])
          /\ prices[b] \in NumericFeatures /\ is_runtime_available_feature(prices[b])
      BY <1>2, <1>3 DEF Usable
    <3>2. PICK c, d : c = Against(prices[a], ">", prices[b]) /\ d = Against(prices[a], "<", prices[b])
      OBVIOUS
    <3>3. SoundCondition(c) /\ SoundCondition(d)
      <4>1. SoundCondition(Against(prices[a], ">", prices[b]))
        BY <3>1, AgainstSound
      <4>2. SoundCondition(Against(prices[a], "<", prices[b]))
        BY <3>1, AgainstSound
      <4> QED
        BY <3>2, <4>1, <4>2
    <3>4. PICK V : V = {c, d}
      OBVIOUS
    <3>5. <<c, d>> \in Seq(V) /\ \A e \in V : SoundCondition(e)
      BY <3>3, <3>4
    <3>6. Sound(<<c, d>>)
      BY <3>5, SoundOf
    <3> QED
      BY <2>2, <3>2, <3>6
  <2> QED
    BY <2>1, <2>2
<1> HIDE DEF pair
<1>6. ASSUME NEW a \in 1..n PROVE Sound(FlattenSeq(row(a)))
  <2>1. PICK r : r = row(a)
    OBVIOUS
  <2>2. r = [b \in 1..n |-> r[b]] /\ \A b \in 1..n : r[b] = pair(a, b)
    BY <2>1
  <2>3. \A b \in 1..n : Sound(r[b])
    BY <1>5, <2>2
  <2>4. Sound(FlattenSeq(r))
    BY <2>2, <2>3, SoundFlatten
  <2> QED
    BY <2>1, <2>4
<1> HIDE DEF row
<1>7. all = [a \in 1..n |-> all[a]] /\ \A a \in 1..n : Sound(all[a])
  BY <1>6
<1> HIDE DEF all
<1> QED
  BY <1>4, <1>7, SoundFlatten

\* Labels of the registry that the frame has shown.
LEMMA LabelsSound ==
  ASSUME NEW frame
  PROVE  Sound(LabelConditions(frame))
<1>1. PICK fs : fs = Mineable(LabelFeatures)
  OBVIOUS
<1>2. Usable(fs, CategoricalFeatures)
  <2>1. LabelFeatures \in Seq(CategoricalFeatures)
    BY MiningAssumption
  <2>2. Usable(Mineable(LabelFeatures), CategoricalFeatures)
    BY <2>1, MineableIs
  <2> QED
    BY <1>1, <2>2
<1>3. PICK n \in Nat : n = Len(fs) /\ DOMAIN fs = 1..n
  BY <1>2 DEF Usable
<1> DEFINE row(f) == [l \in DOMAIN SeenLabels(frame, f) |-> Literal(f, "==", SeenLabels(frame, f)[l])]
           all == [k \in 1..n |-> row(fs[k])]
<1>4. LabelConditions(frame) = FlattenSeq(all)
  BY <1>1, <1>3 DEF LabelConditions
<1>5. ASSUME NEW f \in CategoricalFeatures, is_runtime_available_feature(f) PROVE Sound(row(f))
  <2>1. PICK labels : labels = Labels[f] /\ labels \in Seq(Range(labels))
    BY MiningAssumption
  <2>2. PICK kept : SeenLabels(frame, f) = Kept(labels, kept)
    BY <2>1 DEF SeenLabels
  <2>3. PICK ls, V : ls = SeenLabels(frame, f) /\ V = Range(labels) /\ ls \in Seq(V)
    <3>1. Kept(labels, kept) \in Seq(Range(labels))
      BY <2>1, KeptFrom
    <3> QED
      BY <2>2, <3>1
  <2>4. PICK m \in Nat : m = Len(ls) /\ DOMAIN ls = 1..m /\ \A l \in 1..m : ls[l] \in V
    BY <2>3
  <2>5. V = ValuesFor(f)
    BY <2>1, <2>3, SearchAssumption DEF ValuesFor
  <2>6. "==" \in allowed_comparisons_for(f)
    BY DEF allowed_comparisons_for
  <2>7. \A l \in 1..m : SoundCondition(Literal(f, "==", ls[l]))
    BY <1>5, <2>4, <2>5, <2>6, LiteralSound
  <2>8. PICK r : r = row(f)
    OBVIOUS
  <2>9. r = [l \in 1..m |-> r[l]] /\ \A l \in 1..m : r[l] = Literal(f, "==", ls[l])
    BY <2>3, <2>4, <2>8
  <2>10. \A l \in 1..m : SoundCondition(r[l])
    BY <2>7, <2>9
  <2>11. Sound(r)
    BY <2>4, <2>9, <2>10, SoundSequence
  <2> QED
    BY <2>8, <2>11
<1> HIDE DEF row
<1>6. all = [k \in 1..n |-> all[k]] /\ \A k \in 1..n : Sound(all[k])
  BY <1>2, <1>3, <1>5 DEF Usable
<1> HIDE DEF all
<1> QED
  BY <1>4, <1>6, SoundFlatten

\* The miner's pool of conditions.
LEMMA ConditionsSound ==
  ASSUME NEW frame, frame \in Seq(Range(frame))
  PROVE  Sound(build_condition_pool(frame))
<1>1. PICK a, b, c : a = ThresholdConditions(frame) /\ b = PriceConditions(frame) /\ c = LabelConditions(frame)
  OBVIOUS
<1>2. Sound(a) /\ Sound(b) /\ Sound(c)
  BY <1>1, ThresholdsSound, PricesSound, LabelsSound
<1>3. Sound(a \o b)
  BY <1>2, SoundConcat
<1>4. Sound((a \o b) \o c)
  BY <1>2, <1>3, SoundConcat
<1> QED
  BY <1>1, <1>4 DEF build_condition_pool

\* The first n of a sequence.
LEMMA FirstIs ==
  ASSUME NEW V, NEW s \in Seq(V), NEW n \in Nat
  PROVE  /\ FirstOf(s, n) \in Seq(V)
         /\ Len(FirstOf(s, n)) = IF n < Len(s) THEN n ELSE Len(s)
<1>1. PICK m : m = IF n < Len(s) THEN n ELSE Len(s)
  OBVIOUS
<1>2. m \in Nat /\ m <= Len(s)
  BY <1>1
<1>3. FirstOf(s, n) = SubSeq(s, 1, m)
  BY <1>1 DEF FirstOf
<1>4. SubSeq(s, 1, m) \in Seq(V) /\ Len(SubSeq(s, 1, m)) = m
  <2>1. \A i \in 1..m : s[i] \in V
    BY <1>2
  <2>2. SubSeq(s, 1, m) \in Seq(V)
    BY <1>2, <2>1, SubSeqProperties
  <2>3. Len(SubSeq(s, 1, m)) = m
    BY <1>2, SubSeqProperties
  <2> QED
    BY <2>2, <2>3
<1> QED
  BY <1>1, <1>3, <1>4

\* A champion's conditions, one for each feature.
LEMMA SpecRules ==
  ASSUME NEW spec, validate_strategy(spec),
         spec.conditions \in Seq(Range(spec.conditions)), Len(spec.conditions) <= 4
  PROVE  RuleConditions(_dedupe_features(spec.conditions))
<1>1. PICK cs : cs = spec.conditions
  OBVIOUS
<1>2. Sound(cs) /\ Len(cs) <= 4
  BY <1>1 DEF validate_strategy, Parses, _validate_conditions, Sound, SoundCondition
<1>3. RuleConditions(_dedupe_features(cs))
  BY <1>2, DedupeRules
<1> QED
  BY <1>1, <1>3

\* A champion that is bred on is a valid rule set.
LEMMA SpecKin ==
  ASSUME NEW spec, validate_strategy(spec),
         spec.conditions \in Seq(Range(spec.conditions)), Len(spec.conditions) <= 4
  PROVE  \/ spec_to_rule_set(spec) = {}
         \/ \E rs : spec_to_rule_set(spec) = {rs} /\ Kin(rs)
<1>1. PICK cs : cs = _dedupe_features(spec.conditions)
  OBVIOUS
<1>2. RuleConditions(cs)
  BY <1>1, SpecRules
<1>3. PICK rs : rs = [direction |-> spec.direction, conditions |-> cs, stop_atr |-> spec.stop_atr,
                      target_atr |-> spec.target_atr, max_holding_bars |-> spec.max_holding_bars]
  OBVIOUS
<1>4. CASE spec.direction \in Side /\ Len(cs) >= 2
  <2>1. spec_to_rule_set(spec) = {rs}
    BY <1>1, <1>3, <1>4 DEF spec_to_rule_set
  <2>2. Exited(rs)
    BY <1>3 DEF validate_strategy, Parses, Exited, ExitsInRange, _validate_exit_and_risk
  <2>3. Kin(rs)
    BY <1>2, <1>3, <1>4, <2>2 DEF Kin, Bred, RuleConditions
  <2> QED
    BY <2>1, <2>3
<1>5. CASE ~(spec.direction \in Side /\ Len(cs) >= 2)
  BY <1>1, <1>5 DEF spec_to_rule_set
<1> QED
  BY <1>4, <1>5

\* The seeds are valid, and no more than the population.
LEMMA SeedsKin ==
  ASSUME case \in Cases
  PROVE  /\ Seeds \in Seq(Range(Seeds)) /\ Len(Seeds) <= Population
         /\ \A rs \in Range(Seeds) : Kin(rs)
<1>1. PICK champions : champions = case.champions
  OBVIOUS
<1>2. /\ champions \in Seq(Range(champions))
      /\ \A spec \in Range(champions) :
           /\ validate_strategy(spec)
           /\ spec.conditions \in Seq(Range(spec.conditions)) /\ Len(spec.conditions) <= 4
  BY <1>1, BreedAssumption
<1>3. PICK n \in Nat : n = Len(champions) /\ DOMAIN champions = 1..n
  BY <1>2
<1> DEFINE V == UNION {spec_to_rule_set(champions[k]) : k \in 1..n}
           lists == [k \in 1..n |-> SetToSeq(spec_to_rule_set(champions[k]))]
<1>4. ASSUME NEW k \in 1..n
      PROVE  \/ spec_to_rule_set(champions[k]) = {}
             \/ \E rs : spec_to_rule_set(champions[k]) = {rs} /\ Kin(rs)
  <2>1. PICK spec : spec = champions[k]
    OBVIOUS
  <2>2. spec \in Range(champions)
    BY <1>3, <2>1 DEF Range
  <2>3. spec_to_rule_set(spec) = {} \/ \E rs : spec_to_rule_set(spec) = {rs} /\ Kin(rs)
    BY <1>2, <2>2, SpecKin
  <2> QED
    BY <2>1, <2>3
<1>5. \A rs \in V : Kin(rs)
  BY <1>4
<1>6. ASSUME NEW k \in 1..n PROVE lists[k] \in Seq(V)
  <2>1. CASE spec_to_rule_set(champions[k]) = {}
    <3>1. lists[k] = <<>>
      BY <2>1, SeqOfNone
    <3> HIDE DEF V, lists
    <3> QED
      BY <3>1
  <2>2. ASSUME NEW rs, spec_to_rule_set(champions[k]) = {rs} PROVE lists[k] \in Seq(V)
    <3>1. rs \in V
      BY <2>2
    <3>2. lists[k] = <<rs>>
      BY <2>2, SeqOfOne
    <3> HIDE DEF V, lists
    <3> QED
      BY <3>1, <3>2
  <2> QED
    BY <1>4, <2>1, <2>2
<1>7. lists \in Seq(Seq(V))
  <2>1. lists \in [1..n -> Seq(V)]
    BY <1>6
  <2> HIDE DEF lists, V
  <2> QED
    BY <2>1, SeqDef
<1>8. PICK bred : bred = FlattenSeq(lists)
  OBVIOUS
<1>9. bred = FlattenSeq([k \in DOMAIN case.champions |->
                            SetToSeq(spec_to_rule_set(case.champions[k]))])
  BY <1>1, <1>3, <1>8
<1> HIDE DEF lists, V
<1>10. bred \in Seq(V)
  BY <1>7, <1>8, FlattenIs
<1>11. PICK kept : Seeds = FirstOf(Kept(bred, kept), Population)
  BY <1>9 DEF Seeds, Distinct
<1>12. PICK t : t = Kept(bred, kept) /\ t \in Seq(V)
  BY <1>10, KeptFrom
<1>13. Population \in Nat
  BY SearchAssumption
<1>14. PICK f : f = Seeds /\ f = FirstOf(t, Population)
  BY <1>11, <1>12
<1>15. f \in Seq(V) /\ Len(f) <= Population
  <2>1. FirstOf(t, Population) \in Seq(V)
    BY <1>12, <1>13, FirstIs
  <2>2. Len(FirstOf(t, Population)) = IF Population < Len(t) THEN Population ELSE Len(t)
    BY <1>12, <1>13, FirstIs
  <2>3. Len(t) \in Nat
    BY <1>12
  <2> QED
    BY <1>13, <1>14, <2>1, <2>2, <2>3
<1>16. f \in Seq(Range(f)) /\ Range(f) \subseteq V
  BY <1>15, SeqOverRange
<1> QED
  BY <1>5, <1>14, <1>15, <1>16

\* The training slice is a finite frame.
LEMMA TrainIsFrame ==
  ASSUME case \in Cases
  PROVE  Train("history") \in Seq(Range(Train("history")))
<1>1. PICK frame : frame = case.history
  OBVIOUS
<1>2. Priced(frame)
  BY <1>1, HistoryPriced
<1>3. PICK n \in Nat : n = Len(frame)
  BY <1>2 DEF Priced
<1>4. PICK cut : cut = (n * TrainPercent) \div 100
  OBVIOUS
<1>5. cut \in 0..n
  <2>1. TrainPercent \in Int /\ 0 <= TrainPercent /\ TrainPercent <= 100
    BY SearchAssumption
  <2>2. TrainPercent * n \in Int /\ 100 * n \in Int /\ TrainPercent * n <= 100 * n
    BY <2>1, ProductGrows
  <2>3. 0 * n \in Int /\ 0 * n <= TrainPercent * n
    BY <2>1, ProductGrows
  <2>4. PICK p \in Int : p = n * TrainPercent /\ 0 <= p /\ p <= 100 * n
    BY <2>1, <2>2, <2>3
  <2>5. p \div 100 \in 0..n
    BY <2>4
  <2> QED
    BY <1>4, <2>4, <2>5
<1>6. Train("history") = SubSeq(frame, 1, cut)
  BY <1>1, <1>3, <1>4 DEF Train, split_train_holdout
<1>7. PICK t : t = SubSeq(frame, 1, cut)
  OBVIOUS
<1>8. Priced(t)
  <2>1. 1 \in 1..(Len(frame) + 1) /\ cut \in 0..Len(frame)
    BY <1>3, <1>5
  <2>2. Priced(SubSeq(frame, 1, cut))
    BY <1>2, <2>1, PricedWindow
  <2> QED
    BY <1>7, <2>2
<1>9. t \in Seq(Range(t))
  BY <1>8 DEF Priced
<1> QED
  BY <1>6, <1>7, <1>9

\* With one condition for each feature there are as many features as conditions.
LEMMA FeaturesCounted ==
  ASSUME NEW cs, Sound(cs), OneEach(cs)
  PROVE  Cardinality({c.feature : c \in Range(cs)}) = Len(cs)
<1>1. PICK n \in Nat : n = Len(cs) /\ DOMAIN cs = 1..n
  BY DEF Sound
<1> DEFINE F == {c.feature : c \in Range(cs)}
           f == [k \in 1..n |-> cs[k].feature]
<1>2. F = {f[k] : k \in 1..n}
  BY <1>1 DEF Range
<1>3. \A i, j \in 1..n : f[i] = f[j] => i = j
  BY <1>1 DEF OneEach
<1>4. f \in [1..n -> F]
  BY <1>1 DEF Range
<1>5. IsFiniteSet(1..n) /\ Cardinality(1..n) = n
  BY FS_Interval
<1> HIDE DEF F, f
<1>6. f \in Bijection(1..n, F)
  BY <1>2, <1>3, <1>4 DEF Bijection, Injection, Surjection, IsInjective
<1>8. ExistsBijection(1..n, F)
  BY <1>6 DEF ExistsBijection
<1>9. Cardinality(F) = n
  BY <1>5, <1>8, FS_Bijection
<1> QED
  BY <1>1, <1>9 DEF F

\* What the search keeps, the validator would take.
BredValid(rs) ==
  /\ validate_strategy(rule_set_to_spec_dict(rs))
  /\ Len(rs.conditions) \in 2..4
  /\ Cardinality(mined_family(rs)) = Len(rs.conditions)

\* The search keeps only what the validator takes.
LEMMA KinValid ==
  ASSUME NEW rs, Kin(rs)
  PROVE  BredValid(rs)
<1>0. PICK cs : cs = rs.conditions
  OBVIOUS
<1>1. cs = rs.conditions /\ Sound(cs) /\ OneEach(cs) /\ Len(cs) \in 2..4
  <2>1. Sound(cs) /\ OneEach(cs) /\ Len(cs) <= 4 /\ Len(cs) >= 2
    BY <1>0 DEF Kin, Bred
  <2>2. PICK n \in Nat : n = Len(cs)
    BY <2>1 DEF Sound
  <2>3. n <= 4 /\ n >= 2
    BY <2>1, <2>2, Zenon
  <2>4. n \in 2..4
    BY <2>3
  <2> QED
    BY <1>0, <2>1, <2>2, <2>4, Zenon
<1>2. PICK spec : spec = rule_set_to_spec_dict(rs)
  OBVIOUS
<1>3. /\ spec.conditions = cs /\ spec.stop_atr = rs.stop_atr /\ spec.target_atr = rs.target_atr
      /\ spec.max_holding_bars = rs.max_holding_bars
      /\ spec.schema_version = SCHEMA_VERSION /\ spec.max_risk_per_trade_R = 100
  BY <1>1, <1>2 DEF rule_set_to_spec_dict
<1>4. Parses(spec)
  <2>1. cs # <<>>
    BY <1>1
  <2>2. \A c \in Range(cs) : (c.value_from = "") # (c.value = {})
    BY <1>1 DEF Sound, SoundCondition
  <2>3. rs.stop_atr > 0 /\ rs.target_atr > 0 /\ rs.max_holding_bars > 0
    BY DEF Kin, Bred, Exited
  <2>4. spec.conditions # <<>>
    BY <1>3, <2>1
  <2>5. \A c \in Range(spec.conditions) : (c.value_from = "") # (c.value = {})
    BY <1>3, <2>2, Zenon
  <2>6. /\ spec.stop_atr > 0 /\ spec.target_atr > 0 /\ spec.max_holding_bars > 0
        /\ spec.max_risk_per_trade_R > 0
    BY <1>3, <2>3
  <2> QED
    BY <2>4, <2>5, <2>6, Zenon DEF Parses
<1>5. _validate_conditions(spec)
  <2>1. Len(spec.conditions) <= 8
    <3>1. PICK n : n = Len(cs) /\ n \in 2..4
      BY <1>1
    <3>2. n <= 8
      BY <3>1
    <3> QED
      BY <1>3, <3>1, <3>2, Zenon
  <2>2. \A c \in Range(cs) : SoundCondition(c)
    BY <1>1 DEF Sound
  <2>3. \A c \in Range(spec.conditions) : SoundCondition(c)
    BY <1>3, <2>2, Zenon
  <2> QED
    BY <2>1, <2>3 DEF _validate_conditions, SoundCondition
<1>6. _validate_exit_and_risk(spec)
  <2>1. ExitsInRange(rs)
    BY DEF Kin, Bred, Exited
  <2> QED
    BY <1>3, <2>1 DEF _validate_exit_and_risk, ExitsInRange, MAX_RISK_PER_TRADE_R
<1>7. Cardinality({c.feature : c \in Range(cs)}) = Len(cs)
  BY <1>1, FeaturesCounted
<1>8. mined_family(rs) = {c.feature : c \in Range(cs)}
  BY <1>1 DEF mined_family
<1> QED
  BY <1>1, <1>2, <1>3, <1>4, <1>5, <1>6, <1>7, <1>8 DEF BredValid, validate_strategy

-----------------------------------------------------------------------------
(***************************************************************************)
(* The search: what it breeds.                                             *)
(***************************************************************************)
(***************************************************************************)
(* One world's search while it breeds: its pool of conditions, and rule    *)
(* sets the validator would take.                                          *)
(***************************************************************************)
Stock(b) ==
  /\ b = [pool |-> b.pool, current |-> b.current, scored |-> b.scored]
  /\ Sound(b.pool)
  /\ b.current \in Seq(Range(b.current)) /\ Len(b.current) <= Population
  /\ \A rs \in Range(b.current) : Kin(rs)

\* The inductive invariant: a generation after the first is headed by its elite.
Breeding ==
  /\ case \in Cases
  /\ Stock(breed["history"])
  /\ pc = "breed" => breed["history"].pool # <<>>
  /\ pc = "mine" => round = 0
  /\ pc = "breed" /\ round > 0 => Len(breed["history"].current) >= EliteSize

\* What a stock is made of.
LEMMA StockOf ==
  ASSUME NEW p, Sound(p), NEW c, c \in Seq(Range(c)), Len(c) <= Population,
         \A rs \in Range(c) : Kin(rs), NEW s, NEW b, b = [pool |-> p, current |-> c, scored |-> s]
  PROVE  Stock(b) /\ b.pool = p /\ b.current = c
BY DEF Stock

\* The empty sequence.
LEMMA NoneSound == Sound(<<>>) /\ Range(<<>>) = {} /\ <<>> \in Seq(Range(<<>>)) /\ Len(<<>>) = 0
<1>1. Range(<<>>) = {} /\ <<>> \in Seq({}) /\ Len(<<>>) = 0
  BY DEF Range
<1> QED
  BY <1>1 DEF Sound

\* A valid child joins the stock.
LEMMA StockGrows ==
  ASSUME NEW b, Stock(b), Len(b.current) < Population, NEW rs, Kin(rs), NEW train,
         NEW t, t = Scored(b, rs, train)
  PROVE  Stock(t) /\ t.pool = b.pool /\ Len(t.current) = Len(b.current) + 1
<1>1. PICK p, c, s : p = b.pool /\ c = b.current /\ s = b.scored
  OBVIOUS
<1>2. /\ b = [pool |-> p, current |-> c, scored |-> s]
      /\ Sound(p) /\ c \in Seq(Range(c)) /\ \A r \in Range(c) : Kin(r)
  BY <1>1 DEF Stock
<1>3. PICK more : more = Append(c, rs)
  OBVIOUS
<1>4. more \in Seq(Range(more)) /\ Range(more) = Range(c) \cup {rs} /\ Len(more) = Len(c) + 1
  <2>1. more = c \o <<rs>>
    BY <1>2, <1>3
  <2>2. /\ c \o <<rs>> \in Seq(Range(c \o <<rs>>))
        /\ Range(c \o <<rs>>) = Range(c) \cup {rs}
    BY <1>2, AppendRange
  <2>3. Len(more) = Len(c) + 1
    BY <1>2, <1>3
  <2> QED
    BY <2>1, <2>2, <2>3
<1>5. PICK x : t = [pool |-> p, current |-> more, scored |-> x]
  <2>1. PICK x : x = Scored(b, rs, train).scored
    OBVIOUS
  <2>2. Scored(b, rs, train) = [pool |-> p, current |-> more, scored |-> x]
    <3>1. PICK s2 : Scored(b, rs, train) = [b EXCEPT !.current = Append(@, rs), !.scored = s2]
      BY DEF Scored
    <3>2. Scored(b, rs, train) = [pool |-> p, current |-> Append(c, rs), scored |-> s2]
      BY <1>2, <3>1
    <3> QED
      BY <1>3, <2>1, <3>2
  <2> QED
    BY <2>2
<1>6. PICK n \in Nat : n = Len(c)
  BY <1>2
<1>7. n + 1 <= Population
  <2>1. n < Population
    BY <1>1, <1>6, Zenon
  <2> QED
    BY <1>6, <2>1, SearchAssumption
<1>8. Len(more) <= Population
  BY <1>4, <1>6, <1>7
<1>9. \A r \in Range(more) : Kin(r)
  BY <1>2, <1>4
<1>10. Stock(t) /\ t.pool = p /\ t.current = more
  BY <1>2, <1>4, <1>5, <1>8, <1>9, StockOf
<1> QED
  BY <1>1, <1>4, <1>10

\* The elite is a stock of its own.
LEMMA StockRanked ==
  ASSUME NEW b, Stock(b), Len(b.current) = Population, NEW score,
         NEW t, t = [b EXCEPT !.current = FirstOf(Ranked(b.current, score), EliteSize)]
  PROVE  Stock(t) /\ t.pool = b.pool /\ Len(t.current) = EliteSize
<1>1. PICK p, c, s : p = b.pool /\ c = b.current /\ s = b.scored
  OBVIOUS
<1>2. /\ b = [pool |-> p, current |-> c, scored |-> s]
      /\ Sound(p) /\ c \in Seq(Range(c)) /\ \A r \in Range(c) : Kin(r)
  BY <1>1 DEF Stock
<1>3. PICK r : r = Ranked(c, score) /\ r \in Seq(Range(c)) /\ Len(r) = Len(c)
  <2>1. Ranked(c, score) \in Seq(Range(c)) /\ Len(Ranked(c, score)) = Len(c)
    BY <1>2, RankedIs
  <2> QED
    BY <2>1
<1>4. EliteSize \in Nat /\ EliteSize <= Population /\ Population \in Nat
  BY SearchAssumption
<1>5. PICK f : f = FirstOf(r, EliteSize)
  OBVIOUS
<1>6. f \in Seq(Range(c)) /\ Len(f) = IF EliteSize < Len(r) THEN EliteSize ELSE Len(r)
  BY <1>3, <1>4, <1>5, FirstIs
<1>7. Len(f) = EliteSize
  <2>1. Len(r) = Population
    BY <1>1, <1>3
  <2> QED
    BY <1>4, <1>6, <2>1
<1>8. f \in Seq(Range(f)) /\ Range(f) \subseteq Range(c)
  BY <1>6, SeqOverRange
<1>9. t = [pool |-> p, current |-> f, scored |-> s]
  <2>1. t = [b EXCEPT !.current = f]
    BY <1>1, <1>3, <1>5
  <2>2. [b EXCEPT !.current = f] = [pool |-> p, current |-> f, scored |-> s]
    BY <1>2
  <2> QED
    BY <2>1, <2>2
<1>10. Stock(t) /\ t.pool = p /\ t.current = f
  <2>1. Sound(p) /\ Len(f) <= Population /\ \A rs \in Range(f) : Kin(rs)
    BY <1>2, <1>4, <1>7, <1>8
  <2>2. f \in Seq(Range(f))
    BY <1>8
  <2>3. t.pool = p /\ t.current = f /\ t.scored = s
    BY <1>9
  <2>4. t = [pool |-> t.pool, current |-> t.current, scored |-> t.scored]
    BY <1>9, <2>3
  <2> QED
    BY <2>1, <2>2, <2>3, <2>4 DEF Stock
<1> QED
  BY <1>1, <1>7, <1>10

\* A generation is started from the seeds.
LEMMA StockSeeded ==
  ASSUME case \in Cases, NEW b, b = Seeded(Train("history"))
  PROVE  Stock(b)
<1>1. PICK p, c, s : p = build_condition_pool(Train("history")) /\ c = Seeds
                     /\ s = [k \in DOMAIN Seeds |-> Evaluated(Seeds[k], Train("history"))]
  OBVIOUS
<1>2. b = [pool |-> p, current |-> c, scored |-> s]
  BY <1>1 DEF Seeded
<1>3. Sound(p)
  BY <1>1, TrainIsFrame, ConditionsSound
<1>4. c \in Seq(Range(c)) /\ Len(c) <= Population /\ \A rs \in Range(c) : Kin(rs)
  BY <1>1, SeedsKin
<1> QED
  BY <1>2, <1>3, <1>4, StockOf

\* The rule set bred last is valid.
LEMMA NewestKin ==
  ASSUME NEW b, Stock(b), NEW rs \in Newest(b.current)
  PROVE  Kin(rs)
<1>1. PICK c : c = b.current
  OBVIOUS
<1>2. c \in Seq(Range(c)) /\ \A r \in Range(c) : Kin(r)
  BY <1>1 DEF Stock
<1>3. c # <<>> /\ rs = c[Len(c)]
  BY <1>1 DEF Newest
<1>4. Len(c) \in DOMAIN c
  BY <1>2, <1>3
<1>5. rs \in Range(c)
  BY <1>3, <1>4 DEF Range
<1> QED
  BY <1>2, <1>5

\* A child that joins has the two conditions the validator asks for.
LEMMA JoinBreeds ==
  ASSUME Breeding, Growing, NEW child, Join(child), Bred(child["history"])
  PROVE  Breeding'
<1>1. PICK b, rs, train : b = breed["history"] /\ rs = child["history"] /\ train = Train("history")
  OBVIOUS
<1>2. /\ UNCHANGED <<case, pc, round>>
      /\ breed'["history"] = Scored(b, rs, train) /\ Len(rs.conditions) >= 2
  BY <1>1 DEF Join, World
<1>3. Kin(rs)
  BY <1>1, <1>2 DEF Kin
<1>4. Stock(b) /\ Len(b.current) < Population
  BY <1>1 DEF Breeding, Growing
<1>5. PICK t : t = Scored(b, rs, train)
  OBVIOUS
<1>6. Stock(t) /\ t.pool = b.pool /\ Len(t.current) = Len(b.current) + 1
  BY <1>3, <1>4, <1>5, StockGrows
<1>7. breed'["history"] = t
  BY <1>2, <1>5
<1>8. t.pool # <<>> /\ pc # "mine" /\ case \in Cases
  BY <1>1, <1>6 DEF Breeding, Growing
<1>9. round > 0 => Len(t.current) >= EliteSize
  <2>1. PICK n \in Nat : n = Len(b.current)
    <3>1. PICK c : c = b.current
      OBVIOUS
    <3>2. c \in Seq(Range(c))
      BY <1>4, <3>1 DEF Stock
    <3> QED
      BY <3>1, <3>2
  <2>2. round > 0 => n >= EliteSize
    BY <1>1, <2>1, Zenon DEF Breeding, Growing
  <2>3. round > 0 => n + 1 >= EliteSize
    BY <2>1, <2>2, SearchAssumption
  <2> QED
    BY <1>6, <2>1, <2>3
<1> QED
  BY <1>2, <1>6, <1>7, <1>8, <1>9 DEF Breeding

\* Whatever the miner breeds would pass the validator, and has two to four
\* conditions, one for each feature (rule_miner.py).
THEOREM BreedsOnlyValid == SearchSpec => []BredIsValid
<1>1. SearchInit => Breeding
  <2> SUFFICES ASSUME SearchInit PROVE Breeding
    OBVIOUS
  <2>1. breed["history"] = [pool |-> <<>>, current |-> <<>>, scored |-> <<>>]
    BY DEF SearchInit, World
  <2>2. Len(<<>>) <= Population
    BY NoneSound, SearchAssumption
  <2>3. PICK e, b : e = <<>> /\ b = breed["history"]
    OBVIOUS
  <2>4. Sound(e) /\ e \in Seq(Range(e)) /\ Len(e) <= Population /\ \A rs \in Range(e) : Kin(rs)
    BY <2>2, <2>3, NoneSound
  <2>5. b = [pool |-> e, current |-> e, scored |-> e]
    BY <2>1, <2>3
  <2>6. Stock(b)
    BY <2>4, <2>5, StockOf
  <2> QED
    BY <2>3, <2>6 DEF SearchInit, Breeding
<1>2. Breeding /\ [SearchNext]_search_vars => Breeding'
  <2> SUFFICES ASSUME Breeding, [SearchNext]_search_vars PROVE Breeding'
    OBVIOUS
  <2>1. ASSUME UNCHANGED <<case, breed, round>>, pc' = pc \/ pc' \in {"generate", "selected"}
        PROVE  Breeding'
    BY <2>1 DEF Breeding
  <2>2. CASE GenerateAttempt \/ SelectChampion \/ NextCycle \/ GateSurvivor \/ UNCHANGED search_vars
    <3>1. UNCHANGED <<case, breed, round>> /\ (pc' = pc \/ pc' \in {"generate", "selected"})
      BY <2>2 DEF GenerateAttempt, SelectChampion, NextCycle, GateSurvivor, search_vars
    <3> QED
      BY <2>1, <3>1
  <2>3. CASE MineStart
    <3>1. PICK b : b = Seeded(Train("history"))
      OBVIOUS
    <3>2. Stock(b)
      BY <3>1, StockSeeded DEF Breeding
    <3>3. /\ breed'["history"] = b /\ UNCHANGED <<case, round>> /\ round = 0
          /\ pc' = IF b.pool = <<>> THEN "gate" ELSE "breed"
      BY <2>3, <3>1 DEF MineStart, World, Breeding
    <3> QED
      BY <3>2, <3>3 DEF Breeding
  <2>4. CASE Populate
    <3>1. PICK x \in RandomDraw : Join([w \in World |-> random_rule_set(breed[w].pool, x)])
      BY <2>4 DEF Populate
    <3>2. PICK child : child = [w \in World |-> random_rule_set(breed[w].pool, x)]
      OBVIOUS
    <3>3. PICK p : p = breed["history"].pool /\ Sound(p) /\ p # <<>>
      BY <2>4 DEF Populate, Growing, Breeding, Stock
    <3>4. Bred(random_rule_set(p, x))
      BY <3>3, RandomBred
    <3>5. child["history"] = random_rule_set(p, x)
      BY <3>2, <3>3 DEF World
    <3>6. Join(child) /\ Growing
      BY <2>4, <3>1, <3>2 DEF Populate
    <3> QED
      BY <3>4, <3>5, <3>6, JoinBreeds
  <2>5. CASE BreedRandom
    <3>1. PICK x \in RandomDraw, change \in Change :
            Join([w \in World |-> mutate(random_rule_set(breed[w].pool, x), breed[w].pool, change)])
      BY <2>5 DEF BreedRandom
    <3>2. PICK child : child = [w \in World |->
                                  mutate(random_rule_set(breed[w].pool, x), breed[w].pool, change)]
      OBVIOUS
    <3>3. PICK p : p = breed["history"].pool /\ Sound(p) /\ p # <<>>
      BY <2>5 DEF BreedRandom, Growing, Breeding, Stock
    <3>4. PICK rs : rs = random_rule_set(p, x)
      OBVIOUS
    <3>5. Bred(rs)
      BY <3>3, <3>4, RandomBred
    <3>6. Bred(mutate(rs, p, change))
      BY <3>3, <3>5, MutateBred
    <3>7. child["history"] = mutate(rs, p, change)
      BY <3>2, <3>3, <3>4 DEF World
    <3>8. Join(child) /\ Growing
      BY <2>5, <3>1, <3>2 DEF BreedRandom
    <3> QED
      BY <3>6, <3>7, <3>8, JoinBreeds
  <2>6. CASE BreedCross
    <3>1. PICK x \in CrossDraw, change \in Change :
            Join([w \in World |->
                    LET elite == breed[w].current
                    IN  mutate(crossover(elite[x.a], elite[x.b], x), breed[w].pool, change)])
      BY <2>6 DEF BreedCross
    <3>2. PICK child : child = [w \in World |->
                         LET elite == breed[w].current
                         IN  mutate(crossover(elite[x.a], elite[x.b], x), breed[w].pool, change)]
      OBVIOUS
    <3>3. PICK p, c : /\ p = breed["history"].pool /\ Sound(p) /\ p # <<>>
                      /\ c = breed["history"].current /\ c \in Seq(Range(c))
                      /\ \A r \in Range(c) : Kin(r)
                      /\ Len(c) >= EliteSize
      BY <2>6 DEF BreedCross, Growing, Breeding, Stock
    <3>4. x.a \in DOMAIN c /\ x.b \in DOMAIN c
      <4>1. x.a \in 1..EliteSize /\ x.b \in 1..EliteSize
        BY DEF CrossDraw
      <4>2. PICK n \in Nat : n = Len(c) /\ DOMAIN c = 1..n
        BY <3>3
      <4>3. n >= EliteSize /\ EliteSize \in Nat
        BY <3>3, <4>2, SearchAssumption
      <4> QED
        BY <4>1, <4>2, <4>3
    <3>5. PICK a, b : a = c[x.a] /\ b = c[x.b] /\ Kin(a) /\ Kin(b)
      BY <3>3, <3>4 DEF Range
    <3>6. PICK rs : rs = crossover(a, b, x)
      OBVIOUS
    <3>7. Bred(rs)
      BY <3>5, <3>6, CrossBred
    <3>8. Bred(mutate(rs, p, change))
      BY <3>3, <3>7, MutateBred
    <3>9. child["history"] = mutate(rs, p, change)
      BY <3>2, <3>3, <3>5, <3>6 DEF World
    <3>10. Join(child) /\ Growing
      BY <2>6, <3>1, <3>2 DEF BreedCross
    <3> QED
      BY <3>8, <3>9, <3>10, JoinBreeds
  <2>7. CASE Rank
    <3>1. PICK b : b = breed["history"]
      OBVIOUS
    <3>2. Stock(b) /\ Len(b.current) = Population /\ b.pool # <<>> /\ pc = "breed"
      BY <2>7, <3>1 DEF Breeding, Rank
    <3>3. PICK score : breed'["history"]
                         = [b EXCEPT !.current = FirstOf(Ranked(b.current, score), EliteSize)]
      <4>1. PICK score : score = [k \in DOMAIN b.current |->
              (CHOOSE e \in Range(b.scored) : e.key = _key(b.current[k])).score]
        OBVIOUS
      <4> QED
        BY <2>7, <3>1, <4>1 DEF Rank, World
    <3>4. PICK t : t = [b EXCEPT !.current = FirstOf(Ranked(b.current, score), EliteSize)]
      OBVIOUS
    <3>5. Stock(t) /\ t.pool = b.pool /\ Len(t.current) = EliteSize
      BY <3>2, <3>4, StockRanked
    <3>6. breed'["history"] = t /\ UNCHANGED case /\ pc' \in {"breed", "gate"}
      BY <2>7, <3>2, <3>3, <3>4 DEF Rank
    <3>7. Len(t.current) >= EliteSize
      BY <3>5, SearchAssumption
    <3> QED
      BY <3>2, <3>5, <3>6, <3>7 DEF Breeding
  <2> QED
    BY <2>2, <2>3, <2>4, <2>5, <2>6, <2>7 DEF SearchNext
<1>3. Breeding => BredIsValid
  <2> SUFFICES ASSUME Breeding, NEW rs \in Newest(breed["history"].current) PROVE BredValid(rs)
    BY DEF BredIsValid, BredValid
  <2>1. PICK b : b = breed["history"] /\ Stock(b)
    BY DEF Breeding
  <2>2. Kin(rs)
    BY <2>1, NewestKin
  <2> QED
    BY <2>2, KinValid
<1> QED
  BY <1>1, <1>2, <1>3, PTL DEF SearchSpec
=============================================================================
