---------------------------- MODULE PromotionProofs ----------------------------
(***************************************************************************)
(* Theorems of Promotion: which rungs of the ladder can be skipped, what   *)
(* the budget of the testnet covers, and what a clean record is worth.     *)
(***************************************************************************)
EXTENDS Promotion, FiniteSetTheorems, TLAPS

-----------------------------------------------------------------------------
(***************************************************************************)
(* What every step keeps of the orders, and what follows for what is said  *)
(* of them.                                                                *)
(***************************************************************************)
Kept ==
  /\ Sent \subseteq Sent'
  /\ \A i \in Sent : /\ order'[i].by = order[i].by /\ order'[i].reduce = order[i].reduce
                     /\ order'[i].basis = order[i].basis
                     /\ order[i].at \in Venue => order'[i].at = order[i].at

LEMMA SentFinite ==
  ASSUME TypeOK
  PROVE Len(order) \in Nat /\ Sent = DOMAIN order /\ IsFiniteSet(Sent)
        /\ \A i \in Sent : order[i] \in Order
<1>1. Len(order) \in Nat /\ Sent = DOMAIN order
  BY DEF TypeOK, Sent
<1> QED
  BY <1>1, FS_Interval DEF TypeOK, Sent

LEMMA UnchangedKept == ASSUME order' = order PROVE Kept /\ Sent' = Sent
BY DEF Kept, Sent

LEMMA PlacedKept ==
  ASSUME Kept, NEW v \in Venue PROVE Placed(v) \subseteq Placed(v)'
BY DEF Kept, Placed

LEMMA LegsKept ==
  ASSUME Kept
  PROVE Openings \subseteq Openings' /\ Closings \subseteq Closings'
<1>1. \A i \in Placed("testnet") : i \in Sent /\ i \in Placed("testnet")'
  BY PlacedKept DEF Venue, Placed
<1> QED
  BY <1>1 DEF Openings, Closings, Kept

-----------------------------------------------------------------------------
(***************************************************************************)
(* One step of one script, by the conjuncts of the invariant.  me is the   *)
(* script after the step.                                                  *)
(***************************************************************************)
LEMMA StepTyped ==
  ASSUME TypeOK, NEW p \in Scripts, NEW me \in Proc, proc' = [proc EXCEPT ![p] = me],
         p = "session" /\ me.pc \in Legs => me.left > 0
  PROVE /\ proc' \in [Scripts -> Proc]
        /\ \A q \in Scripts : proc'[q] = IF q = p THEN me ELSE proc[q]
        /\ \A q \in Scripts : q = "session" /\ proc'[q].pc \in Legs => proc'[q].left > 0
BY DEF TypeOK

LEMMA StepTells ==
  ASSUME IInv, Kept, NEW p \in Scripts, NEW me \in Proc, proc' = [proc EXCEPT ![p] = me],
         result'.performed => result'.id \in Sent',
         me.pc \in {"resolve", "count", "write"} =>
           /\ me.sent.id = me.id /\ me.id \in Sent'
           /\ order'[me.id].by = p /\ order'[me.id].reduce = me.reduce,
         me.pc = "reconcile" => Tells(p, me.sent, me.reduce)'
  PROVE ResultsTell'
<1>1. \A q \in Scripts : proc'[q] = IF q = p THEN me ELSE proc[q]
  BY DEF IInv, TypeOK
<1>2. ASSUME NEW q \in Scripts, q # p, proc[q].pc \in {"resolve", "count", "write"}
      PROVE /\ proc[q].sent.id = proc[q].id /\ proc[q].id \in Sent'
            /\ order'[proc[q].id].by = q /\ order'[proc[q].id].reduce = proc[q].reduce
  BY <1>2 DEF IInv, ResultsTell, Kept
<1>3. ASSUME NEW q \in Scripts, q # p, proc[q].pc = "reconcile"
      PROVE Tells(q, proc[q].sent, proc[q].reduce)'
  <2>1. Tells(q, proc[q].sent, proc[q].reduce)
    BY <1>3 DEF IInv, ResultsTell
  <2> QED
    BY <1>1, <1>3, <2>1 DEF Tells, Kept
<1> QED
  BY <1>1, <1>2, <1>3 DEF ResultsTell

LEMMA StepAlone ==
  ASSUME IInv, NEW p \in Scripts, NEW me \in Proc, proc' = [proc EXCEPT ![p] = me],
         me.pc # "idle" => proc[p].pc # "idle" \/ Free(p),
         me.pc = "reconcile" => result' = me.sent,
         result' = result \/ proc[p].pc # "idle"
  PROVE Alone'
<1>1. \A q \in Scripts : proc'[q] = IF q = p THEN me ELSE proc[q]
  BY DEF IInv, TypeOK
<1> QED
  BY <1>1 DEF IInv, Alone, Free

LEMMA StepLadder ==
  ASSUME IInv, Kept, NEW p \in Scripts, NEW me \in Proc, proc' = [proc EXCEPT ![p] = me],
         ~Overlap =>
           /\ Real(report.ok)' /\ prepared' = prepared
           /\ p = "session" => Real(me.ok)' /\ (me.reduce /\ me.openOk => me.open.id \in Openings')
           /\ p \in Canary /\ me.pc = "post" => Enough(me.basis)'
           /\ \A i \in Sent' \ Sent : (order[i].by \in Canary => Enough(order[i].basis))'
  PROVE LadderClimbed'
<1> SUFFICES ASSUME ~Overlap PROVE LadderClimbed'
  BY DEF LadderClimbed
<1> USE DEF Real, Enough
<1>1. \A q \in Scripts : proc'[q] = IF q = p THEN me ELSE proc[q]
  BY DEF IInv, TypeOK
<1>2. Openings \subseteq Openings' /\ Closings \subseteq Closings'
  BY LegsKept
<1>3. (prepared.ready => Enough(prepared.on))'
  BY <1>2 DEF IInv, LadderClimbed
<1>4. ASSUME "session" \in Scripts
      PROVE /\ Real(proc["session"].ok)'
            /\ (proc["session"].reduce /\ proc["session"].openOk =>
                 proc["session"].open.id \in Openings)'
  BY <1>1, <1>2, <1>4 DEF IInv, LadderClimbed
<1>5. ASSUME NEW q \in Canary
      PROVE (proc[q].pc = "post" => Enough(proc[q].basis))'
  BY <1>1, <1>2, <1>5 DEF IInv, LadderClimbed, Scripts
<1>6. ASSUME NEW i \in Sent', (order[i].by \in Canary)'
      PROVE Enough(order[i].basis)'
  <2>1. CASE i \in Sent
    BY <1>2, <1>6, <2>1 DEF IInv, LadderClimbed, Kept
  <2> QED
    BY <1>6, <2>1
<1> QED
  BY <1>3, <1>4, <1>5, <1>6 DEF LadderClimbed

\* The orders left behind by a step of a script that leaves the orders alone:
\* at most the one it was about to count, and none if it still is.
StaysOnItsWay(p, me) ==
  \/ p \in Canary
  \/ proc[p].pc \notin {"resolve", "count"}
  \/ me.pc \in {"resolve", "count"} /\ me.id = proc[p].id

LEMMA LeftBehindGrows ==
  ASSUME IInv, order' = order, day' = day,
         NEW p \in Scripts, NEW me \in Proc, proc' = [proc EXCEPT ![p] = me]
  PROVE /\ LeftBehind' \subseteq LeftBehind \cup {proc[p].id}
        /\ StaysOnItsWay(p, me) => LeftBehind' \subseteq LeftBehind
<1>1. \A q \in Scripts : proc'[q] = IF q = p THEN me ELSE proc[q]
  BY DEF IInv, TypeOK
<1>2. ASSUME NEW i \in OnItsWay, i # proc[p].id PROVE i \in OnItsWay'
  BY <1>1, <1>2 DEF OnItsWay
<1>3. ASSUME StaysOnItsWay(p, me), NEW i \in OnItsWay
      PROVE i \in OnItsWay' \/ order[i].by \in Canary
  <2>1. CASE p \in Canary
    <3>1. proc[p].pc \in {"resolve", "count"} => order[proc[p].id].by \in Canary
      BY <2>1 DEF IInv, ResultsTell
    <3> QED
      BY <1>1, <1>3, <3>1 DEF OnItsWay
  <2>2. CASE p \notin Canary
    BY <1>1, <1>3, <2>2 DEF OnItsWay, StaysOnItsWay
  <2> QED
    BY <2>1, <2>2
<1> QED
  BY <1>2, <1>3 DEF LeftBehind, Sent

LEMMA LeftBehindCounts ==
  ASSUME TypeOK
  PROVE /\ Cardinality(LeftBehind) \in Nat
        /\ \A S : S \subseteq LeftBehind =>
             Cardinality(S) \in Nat /\ Cardinality(S) <= Cardinality(LeftBehind)
        /\ \A S, x : S \subseteq LeftBehind \cup {x} =>
             Cardinality(S) \in Nat /\ Cardinality(S) <= Cardinality(LeftBehind) + 1
<1>1. IsFiniteSet(LeftBehind)
  BY SentFinite, FS_Subset DEF LeftBehind
<1>2. Cardinality(LeftBehind) \in Nat
  BY <1>1, FS_CardinalityType
<1>3. ASSUME NEW S, S \subseteq LeftBehind
      PROVE Cardinality(S) \in Nat /\ Cardinality(S) <= Cardinality(LeftBehind)
  BY <1>1, <1>3, FS_Subset, FS_CardinalityType
<1>4. ASSUME NEW S, NEW x, S \subseteq LeftBehind \cup {x}
      PROVE Cardinality(S) \in Nat /\ Cardinality(S) <= Cardinality(LeftBehind) + 1
  <2>1. /\ IsFiniteSet(LeftBehind \cup {x})
        /\ Cardinality(LeftBehind \cup {x}) <= Cardinality(LeftBehind) + 1
    BY <1>1, <1>2, FS_AddElement
  <2>2. IsFiniteSet(S) /\ Cardinality(S) <= Cardinality(LeftBehind \cup {x})
    BY <1>4, <2>1, FS_Subset
  <2> QED
    BY <1>2, <2>1, <2>2, FS_CardinalityType
<1> QED
  BY <1>2, <1>3, <1>4

LEMMA StepBudget ==
  ASSUME IInv, NEW p \in Scripts, NEW me \in Proc, proc' = [proc EXCEPT ![p] = me],
         counter' \in [Venue -> Nat], crashes' \in Nat,
         \/ /\ LeftBehind' \subseteq LeftBehind
            /\ counter["testnet"] + crashes <= counter'["testnet"] + crashes'
         \/ /\ \E x : LeftBehind' \subseteq LeftBehind \cup {x}
            /\ counter["testnet"] + crashes + 1 = counter'["testnet"] + crashes',
         ~Overlap =>
           /\ counter'["testnet"] <= TestnetCap
           /\ counter' = counter \/ proc[p].pc # "idle"
           /\ p \notin Canary /\ me.pc \in {"post", "resolve", "count"} =>
                counter'["testnet"] < TestnetCap
  PROVE BudgetKept'
<1>1. \A q \in Scripts : proc'[q] = IF q = p THEN me ELSE proc[q]
  BY DEF IInv, TypeOK
<1>2. Cardinality(LeftBehind') <= counter'["testnet"] + crashes'
  <2>1. /\ counter["testnet"] \in Nat /\ crashes \in Nat /\ counter'["testnet"] \in Nat
        /\ Cardinality(LeftBehind) <= counter["testnet"] + crashes
        /\ Cardinality(LeftBehind) \in Nat
    BY LeftBehindCounts DEF IInv, TypeOK, BudgetKept, Venue
  <2>2. CASE LeftBehind' \subseteq LeftBehind
             /\ counter["testnet"] + crashes <= counter'["testnet"] + crashes'
    <3>1. Cardinality(LeftBehind') \in Nat /\ Cardinality(LeftBehind') <= Cardinality(LeftBehind)
      BY <2>2, LeftBehindCounts DEF IInv
    <3> QED
      BY <2>1, <2>2, <3>1
  <2>3. CASE (\E x : LeftBehind' \subseteq LeftBehind \cup {x})
             /\ counter["testnet"] + crashes + 1 = counter'["testnet"] + crashes'
    <3>1. /\ Cardinality(LeftBehind') \in Nat
          /\ Cardinality(LeftBehind') <= Cardinality(LeftBehind) + 1
      BY <2>3, LeftBehindCounts DEF IInv
    <3> QED
      BY <2>1, <2>3, <3>1
  <2> QED
    BY <2>2, <2>3
<1>3. ASSUME ~Overlap, NEW q \in Scripts \ Canary,
             proc'[q].pc \in {"post", "resolve", "count"}
      PROVE counter'["testnet"] < TestnetCap
  BY <1>1, <1>3 DEF IInv, Alone, BudgetKept
<1> QED
  BY <1>2, <1>3 DEF BudgetKept

\* A step that starts no canary leaves met alone; one that starts p updates it.
MetStep(p, me) ==
  \/ met' = met /\ (p \in Canary /\ me.pc # "idle" => proc[p].pc # "idle")
  \/ p \in Canary /\ met' = Meeting(p) /\ me.pc = "guard"

LEMMA StepRegistry ==
  ASSUME IInv, Kept, NEW p \in Scripts, NEW me \in Proc, proc' = [proc EXCEPT ![p] = me],
         registry'.records = registry.records, MetStep(p, me),
         result'.performed /\ (order[result.id].by \in Canary)' =>
           result' = result \/ (p \in Canary /\ proc[p].pc # "idle" /\ Shared(p, result'.id)),
         p \in Canary =>
           /\ me.pc \in {"resolve", "count", "write", "reconcile"} => Shared(p, me.sent.id)
           /\ me.pc = "reconcile" /\ result'.performed => result'.id = me.sent.id
           /\ me.pc = "record" /\ me.openOk => me.id \in Placed("mainnet")' /\ Shared(p, me.id)
  PROVE RegistrySound'
<1>1. \A q \in Scripts : proc'[q] = IF q = p THEN me ELSE proc[q]
  BY DEF IInv, TypeOK
<1>2. CleanRecords' = CleanRecords
  BY DEF CleanRecords
<1>3. \A i \in CleanRecords : registry.records[i].id \in Placed("mainnet")'
  BY PlacedKept DEF IInv, RegistrySound, Venue
<1>4. \A i, j \in CleanRecords : registry.records[i].id = registry.records[j].id =>
        i = j \/ (registry.records[i].met /\ registry.records[j].met)
  BY DEF IInv, RegistrySound
<1>5. Canary \subseteq Scripts
  BY DEF Scripts
<1>6. \A q \in met : q # p => q \in met'
  BY DEF MetStep, Meeting
<1>7. \A id : Shared(p, id) /\ me.pc # "guard" => Shared(p, id)'
  BY <1>2 DEF Shared, MetStep
<1>8. ASSUME NEW q \in Canary, q # p, NEW id, Shared(q, id) PROVE Shared(q, id)'
  BY <1>2, <1>6, <1>8 DEF Shared
<1>9. ASSUME NEW q \in Canary, proc'[q].pc # "idle", q \notin met' PROVE Beside(q)' = {}
  <2>1. CASE q = p /\ met' = met /\ me.pc # "idle" /\ proc[p].pc # "idle"
    <3>1. Beside(q) = {}
      BY <1>9, <2>1 DEF IInv, RegistrySound
    <3> QED
      BY <1>1, <1>5, <2>1, <3>1 DEF Beside
  <2>2. CASE q = p /\ met' = Meeting(p) /\ me.pc = "guard"
    BY <1>1, <1>5, <1>9, <2>2 DEF Meeting, Beside
  <2>3. CASE q # p
    <3>1. proc[q].pc # "idle" /\ q \notin met /\ Beside(q) = {}
      BY <1>1, <1>5, <1>6, <1>9, <2>3 DEF IInv, RegistrySound
    <3>2. p \in Canary => me.pc = "idle" \/ met' = Meeting(p)
      BY <2>3, <3>1 DEF MetStep, Beside
    <3>3. p \in Canary => met' # Meeting(p)
      BY <1>9, <2>3, <3>1 DEF Meeting, Beside
    <3> QED
      BY <1>1, <1>5, <2>3, <3>1, <3>2, <3>3 DEF Beside
  <2> QED
    BY <1>1, <1>5, <1>9, <2>1, <2>2, <2>3 DEF MetStep
<1>10. ASSUME NEW q \in Canary
       PROVE /\ (proc[q].pc \in {"resolve", "count", "write", "reconcile"} =>
                   Shared(q, proc[q].sent.id))'
             /\ (proc[q].pc = "record" /\ proc[q].openOk =>
                   proc[q].id \in Placed("mainnet") /\ Shared(q, proc[q].id))'
  <2>1. CASE q = p
    BY <1>1, <1>5, <1>7, <2>1
  <2>2. CASE q # p
    BY <1>1, <1>5, <1>8, <2>2, PlacedKept DEF IInv, RegistrySound, Venue
  <2> QED
    BY <2>1, <2>2
<1>11. ASSUME NEW q \in Canary, proc'[q].pc = "reconcile", result'.performed,
              (order[result.id].by \in Canary)'
       PROVE Shared(q, result.id)'
  <2>1. CASE q = p
    <3>1. me.pc = "reconcile" /\ Shared(p, me.sent.id) /\ result'.id = me.sent.id
      BY <1>1, <1>5, <1>11, <2>1
    <3> QED
      BY <1>7, <2>1, <3>1
  <2>2. CASE q # p /\ result' = result
    <3>1. proc[q].pc = "reconcile" /\ order[result.id].by \in Canary
      BY <1>1, <1>5, <1>11, <2>2 DEF IInv, ResultsTell, Kept
    <3>2. Shared(q, result.id)
      BY <1>11, <2>2, <3>1 DEF IInv, RegistrySound
    <3> QED
      BY <1>8, <2>2, <3>2
  <2>3. CASE q # p /\ result' # result
    <3>1. p \in Canary /\ proc[p].pc # "idle" /\ Shared(p, result'.id) /\ proc[q].pc # "idle"
      BY <1>1, <1>5, <1>11, <2>3
    <3>2. q \in met
      BY <2>3, <3>1 DEF IInv, RegistrySound, Beside
    <3>3. Shared(q, result'.id)
      BY <3>1, <3>2 DEF Shared
    <3> QED
      BY <1>8, <2>3, <3>3
  <2> QED
    BY <2>1, <2>2, <2>3
<1> QED
  BY <1>2, <1>3, <1>4, <1>9, <1>10, <1>11 DEF RegistrySound

-----------------------------------------------------------------------------
(***************************************************************************)
(* Steps that send nothing, count nothing and write no result.             *)
(***************************************************************************)
LEMMA IdleTyped == NoResult \in Result /\ Idle \in Proc
BY PromotionAssumption DEF NoResult, Result, Idle, Proc, Pair

\* A step of a script that leaves the orders alone.
LEMMA ScriptStep ==
  ASSUME IInv, NEW p \in Scripts, NEW me \in Proc, proc' = [proc EXCEPT ![p] = me],
         UNCHANGED <<day, order, position, prepared>>,
         result' \in Result, counter' \in [Venue -> Nat], crashes' \in Nat,
         report' \in [submitted : Nat, reconciled : Nat, ok : SUBSET Pair],
         registry' \in Registry,
         registry'.records = registry.records,
         p = "session" /\ me.pc \in Legs => me.left > 0,
         result' = result \/ (result' = me.sent /\ me.pc = "reconcile" /\ proc[p].pc # "idle"),
         me.pc \in {"resolve", "count", "write"} =>
           /\ me.sent.id = me.id /\ me.id \in Sent
           /\ order[me.id].by = p /\ order[me.id].reduce = me.reduce,
         me.pc = "reconcile" => result' = me.sent /\ Tells(p, me.sent, me.reduce),
         me.pc # "idle" => proc[p].pc # "idle" \/ Free(p),
         ~Overlap =>
           /\ Real(report'.ok)
           /\ p = "session" => Real(me.ok) /\ (me.reduce /\ me.openOk => me.open.id \in Openings)
           /\ p \in Canary /\ me.pc = "post" => Enough(me.basis)
           /\ counter'["testnet"] <= TestnetCap
           /\ counter' = counter \/ proc[p].pc # "idle"
           /\ p \notin Canary /\ me.pc \in {"post", "resolve", "count"} =>
                counter'["testnet"] < TestnetCap,
         \/ /\ StaysOnItsWay(p, me)
            /\ counter["testnet"] + crashes <= counter'["testnet"] + crashes'
         \/ counter["testnet"] + crashes + 1 = counter'["testnet"] + crashes',
         MetStep(p, me),
         p \in Canary =>
           /\ me.pc \in {"resolve", "count", "write", "reconcile"} => Shared(p, me.sent.id)
           /\ me.pc = "record" /\ me.openOk => me.id \in Placed("mainnet") /\ Shared(p, me.id)
  PROVE IInv'
<1>1. TypeOK'
  <2>1. met' \subseteq Canary
    BY DEF IInv, TypeOK, MetStep, Meeting, Beside
  <2> QED
    BY <2>1, StepTyped DEF IInv, TypeOK
<1>2. OrdersPlaced'
  BY DEF IInv, OrdersPlaced, Sent
<1>3. Kept /\ Sent' = Sent
  BY UnchangedKept
<1>4. ResultsTell'
  <2>1. result'.performed => result'.id \in Sent'
    BY <1>3 DEF IInv, ResultsTell, Tells
  <2>2. me.pc = "reconcile" => Tells(p, me.sent, me.reduce)'
    BY <1>3 DEF Tells
  <2> QED
    BY <1>3, <2>1, <2>2, StepTells
<1>5. Alone'
  BY StepAlone
<1>6. Openings' = Openings /\ Closings' = Closings /\ Placed("mainnet")' = Placed("mainnet")
  BY DEF Openings, Closings, Placed, Sent
<1>7. LadderClimbed'
  BY <1>3, <1>6, StepLadder DEF Real, Enough
<1>8. BudgetKept'
  BY LeftBehindGrows, StepBudget
<1>9. RegistrySound'
  <2>1. result'.performed /\ (order[result.id].by \in Canary)' =>
          result' = result \/ (p \in Canary /\ proc[p].pc # "idle" /\ Shared(p, result'.id))
    BY DEF Tells
  <2> QED
    BY <1>3, <1>6, <2>1, StepRegistry
<1> QED
  BY <1>1, <1>2, <1>4, <1>5, <1>7, <1>8, <1>9 DEF IInv

LEMMA StateFacts ==
  ASSUME IInv
  PROVE /\ result \in Result /\ counter \in [Venue -> Nat] /\ counter["testnet"] \in Nat
        /\ crashes \in Nat
        /\ report \in [submitted : Nat, reconciled : Nat, ok : SUBSET Pair]
        /\ registry \in Registry
        /\ \A p \in Scripts : /\ proc[p] \in Proc
                              /\ p = "session" /\ proc[p].pc \in Legs => proc[p].left > 0
        /\ ~Overlap =>
             /\ Real(report.ok) /\ counter["testnet"] <= TestnetCap
             /\ \A p \in Scripts : p = "session" =>
                  /\ Real(proc[p].ok)
                  /\ proc[p].reduce /\ proc[p].openOk => proc[p].open.id \in Openings
        /\ \A i \in CleanRecords : registry.records[i].id # 0
BY DEF IInv, TypeOK, Venue, BudgetKept, LadderClimbed, RegistrySound, Placed, Sent

LEMMA QuietStep ==
  ASSUME IInv, NEW p \in Scripts, NEW me \in Proc, proc' = [proc EXCEPT ![p] = me],
         UNCHANGED <<day, order, position, counter, result, prepared, registry, crashes>>,
         MetStep(p, me),
         report' \in [submitted : Nat, reconciled : Nat, ok : SUBSET Pair],
         p = "session" /\ me.pc \in Legs => me.left > 0,
         me.pc \notin {"resolve", "count", "write", "reconcile"},
         proc[p].pc \notin {"resolve", "count"},
         me.pc # "idle" => proc[p].pc # "idle" \/ Free(p),
         ~Overlap =>
           /\ Real(report'.ok)
           /\ p = "session" => Real(me.ok) /\ (me.reduce /\ me.openOk => me.open.id \in Openings)
           /\ p \in Canary /\ me.pc = "post" => Enough(me.basis)
           /\ p \notin Canary /\ me.pc = "post" => counter["testnet"] < TestnetCap,
         p \in Canary /\ me.pc = "record" /\ me.openOk =>
           me.id \in Placed("mainnet") /\ Shared(p, me.id)
  PROVE IInv'
<1>1. StaysOnItsWay(p, me) /\ counter["testnet"] + crashes <= counter'["testnet"] + crashes'
  BY StateFacts DEF StaysOnItsWay
<1> QED
  BY <1>1, StateFacts, ScriptStep

\* A script just started.
Started(p, me) ==
  /\ Free(p) /\ proc' = [proc EXCEPT ![p] = me]
  /\ me.pc = "guard" /\ (p = "session" => me.left > 0) /\ me.ok = {} /\ ~me.openOk
  /\ UNCHANGED <<day, order, position, counter, result, report, prepared, registry, crashes>>
  /\ MetStep(p, me)

LEMMA StartedKeeps ==
  ASSUME IInv, NEW p \in Scripts, NEW me \in Proc, Started(p, me) PROVE IInv'
<1>3. proc[p].pc = "idle"
  BY DEF Free, Started
<1>4. ~Overlap => Real(report'.ok) /\ Real(me.ok)
  BY DEF IInv, LadderClimbed, Real, Started
<1>5. report' \in [submitted : Nat, reconciled : Nat, ok : SUBSET Pair]
  BY DEF IInv, TypeOK, Started
<1> QED
  BY <1>3, <1>4, <1>5, QuietStep DEF Started

LEMMA StartSessionKeeps == ASSUME IInv, StartSession PROVE IInv'
<1> DEFINE me == [Idle EXCEPT !.pc = "guard", !.left = Sessions]
<1>0. Sessions \in 0..Sessions /\ Sessions > 0
  BY PromotionAssumption
<1>1. me \in Proc /\ me.pc = "guard" /\ me.left > 0 /\ me.ok = {} /\ ~me.openOk
  BY <1>0, IdleTyped DEF Proc, Idle
<1>2. "session" \in Scripts /\ proc' = [proc EXCEPT !["session"] = me] /\ "session" \notin Canary
  BY PromotionAssumption DEF StartSession
<1> HIDE DEF me
<1>3. Started("session", me)
  BY <1>1, <1>2 DEF StartSession, Started, MetStep
<1> QED
  BY <1>1, <1>2, <1>3, StartedKeeps

LEMMA OneOrderStarts ==
  ASSUME NEW r \in BOOLEAN
  PROVE LET me == [Idle EXCEPT !.pc = "guard", !.reduce = r]
        IN  me \in Proc /\ me.pc = "guard" /\ me.ok = {} /\ ~me.openOk
BY IdleTyped DEF Proc, Idle

LEMMA StartOrderKeeps == ASSUME IInv, StartOrder PROVE IInv'
<1>1. PICK r \in BOOLEAN :
        proc' = [proc EXCEPT !["order"] = [Idle EXCEPT !.pc = "guard", !.reduce = r]]
  BY DEF StartOrder
<1> DEFINE me == [Idle EXCEPT !.pc = "guard", !.reduce = r]
<1>2. me \in Proc /\ me.pc = "guard" /\ me.ok = {} /\ ~me.openOk
  BY OneOrderStarts
<1>3. "order" \in Scripts /\ proc' = [proc EXCEPT !["order"] = me] /\ "order" \notin Canary
  BY <1>1, PromotionAssumption DEF StartOrder
<1> HIDE DEF me
<1>4. Started("order", me)
  BY <1>2, <1>3 DEF StartOrder, Started, MetStep
<1> QED
  BY <1>2, <1>3, <1>4, StartedKeeps

LEMMA StartCanaryKeeps == ASSUME IInv, NEW p \in Canary, StartCanary(p) PROVE IInv'
<1>1. PICK r \in BOOLEAN :
        proc' = [proc EXCEPT ![p] = [Idle EXCEPT !.pc = "guard", !.reduce = r]]
  BY DEF StartCanary
<1> DEFINE me == [Idle EXCEPT !.pc = "guard", !.reduce = r]
<1>2. me \in Proc /\ me.pc = "guard" /\ me.ok = {} /\ ~me.openOk
  BY OneOrderStarts
<1>3. p \in Scripts /\ p # "session" /\ proc' = [proc EXCEPT ![p] = me]
  BY <1>1, PromotionAssumption DEF Scripts
<1> HIDE DEF me
<1>4. Started(p, me)
  BY <1>2, <1>3 DEF StartCanary, Started, MetStep
<1> QED
  BY <1>2, <1>3, <1>4, StartedKeeps

-----------------------------------------------------------------------------
LEMMA ReconcileLegKeeps ==
  ASSUME IInv, "session" \in Scripts, ReconcileLeg
  PROVE IInv'
<1> DEFINE s == proc["session"]
           legs == [s EXCEPT !.submitted = @ + (IF s.sent.performed THEN 1 ELSE 0)]
<1>1. s \in Proc /\ s.pc = "reconcile" /\ s.left > 0 /\ s.sent \in Result
  BY DEF ReconcileLeg, IInv, TypeOK, Legs, Proc
<1>2. PICK status \in reconcile_signed_testnet("testnet") :
        proc' = [proc EXCEPT !["session"] =
             IF ~s.reduce
             THEN IF s.sent.performed
                  THEN [[legs EXCEPT !.reconciled = @ + (IF status = "RECONCILED" THEN 1 ELSE 0)]
                          EXCEPT !.pc = "guard", !.reduce = TRUE, !.open = s.sent,
                                 !.openOk = (status = "RECONCILED")]
                  ELSE [[legs EXCEPT !.reconciled = @ + (IF status = "RECONCILED" THEN 1 ELSE 0)]
                          EXCEPT !.pc = "report"]
             ELSE [[legs EXCEPT !.reconciled = @ + (IF status = "RECONCILED" THEN 1 ELSE 0)]
                     EXCEPT !.reduce = FALSE, !.left = @ - 1, !.open = NoResult, !.openOk = FALSE,
                     !.ok = IF SessionOk(s, status = "RECONCILED")
                            THEN @ \cup {<<s.open.id, s.sent.id>>} ELSE @,
                     !.pc = IF s.left = 1 THEN "report" ELSE "guard"]]
  BY DEF ReconcileLeg
<1> DEFINE ok == status = "RECONCILED"
           done == [legs EXCEPT !.reconciled = @ + (IF ok THEN 1 ELSE 0)]
           opened == [done EXCEPT !.pc = "guard", !.reduce = TRUE, !.open = s.sent, !.openOk = ok]
           stopped == [done EXCEPT !.pc = "report"]
           closed == [done EXCEPT !.reduce = FALSE, !.left = @ - 1, !.open = NoResult,
                        !.openOk = FALSE,
                        !.ok = IF s.openOk /\ ok THEN @ \cup {<<s.open.id, s.sent.id>>} ELSE @,
                        !.pc = IF s.left = 1 THEN "report" ELSE "guard"]
           me == IF ~s.reduce THEN IF s.sent.performed THEN opened ELSE stopped ELSE closed
<1>3. /\ done \in Proc /\ done.left = s.left /\ done.ok = s.ok /\ done.reduce = s.reduce
      /\ done.pc = "reconcile"
  <2>1. legs \in Proc /\ legs.left = s.left /\ legs.ok = s.ok /\ legs.reduce = s.reduce
        /\ legs.pc = "reconcile"
    BY <1>1 DEF Proc
  <2> HIDE DEF legs
  <2> QED
    BY <2>1 DEF Proc
<1>4. proc' = [proc EXCEPT !["session"] = me]
  BY <1>2, Zenon DEF SessionOk
<1> HIDE DEF done
<1>5. /\ opened \in Proc /\ opened.pc = "guard" /\ opened.left > 0 /\ opened.open = s.sent
      /\ opened.openOk = ok /\ opened.ok = s.ok
  BY <1>1, <1>3 DEF Proc
<1>6. stopped \in Proc /\ stopped.pc = "report" /\ stopped.reduce = s.reduce /\ stopped.ok = s.ok
  BY <1>1, <1>3 DEF Proc
<1>7. /\ closed \in Proc /\ closed.pc \in {"guard", "report"}
      /\ closed.pc = "guard" => closed.left > 0
      /\ ~closed.reduce
      /\ closed.ok = IF s.openOk /\ ok THEN s.ok \cup {<<s.open.id, s.sent.id>>} ELSE s.ok
  <2>1. <<s.open.id, s.sent.id>> \in Pair /\ NoResult \in Result /\ s.left - 1 \in 0..Sessions
        /\ (s.left # 1 => s.left - 1 > 0)
    BY <1>1, IdleTyped, PromotionAssumption DEF Proc, Result, Pair
  <2> QED
    BY <1>1, <1>3, <2>1 DEF Proc
<1>8. ASSUME ~Overlap, ok
      PROVE /\ ~s.reduce => s.sent.id \in Openings
            /\ s.reduce => s.sent.id \in Closings
  <2>1. result = s.sent /\ Tells("session", s.sent, s.reduce)
    BY <1>1, <1>8 DEF IInv, Alone, ResultsTell
  <2>2. result.performed /\ order[result.id].at = "testnet"
    BY <1>2, <1>8 DEF reconcile_signed_testnet
  <2> QED
    BY <2>1, <2>2 DEF Tells, Openings, Closings, Placed
<1> HIDE DEF ok, opened, stopped, closed, s
<1>9. me \in Proc /\ me.pc \in {"guard", "report"} /\ (me.pc = "guard" => me.left > 0)
  BY <1>5, <1>6, <1>7
<1>10. ~Overlap => Real(me.ok) /\ (me.reduce /\ me.openOk => me.open.id \in Openings)
  <2>1. ~Overlap => Real(s.ok) /\ (s.reduce /\ s.openOk => s.open.id \in Openings)
    BY DEF IInv, LadderClimbed, s
  <2>2. CASE s.reduce
    <3>1. me.ok = s.ok \/ (s.openOk /\ ok /\ me.ok = s.ok \cup {<<s.open.id, s.sent.id>>})
      BY <1>7, <2>2
    <3> QED
      BY <1>7, <1>8, <2>1, <2>2, <3>1 DEF Real
  <2>3. CASE ~s.reduce
    BY <1>5, <1>6, <1>8, <2>1, <2>3
  <2> QED
    BY <2>2, <2>3
<1>11. UNCHANGED <<day, order, position, counter, result, report, prepared, registry, crashes, met>>
  BY DEF ReconcileLeg
<1>12. ~Overlap => Real(report'.ok)
  BY <1>11 DEF IInv, LadderClimbed, Real
<1>13. report' \in [submitted : Nat, reconciled : Nat, ok : SUBSET Pair]
  BY <1>11 DEF IInv, TypeOK
<1>14. s = proc["session"]
  BY DEF s
<1> HIDE DEF me
<1> QED
  BY <1>1, <1>4, <1>9, <1>10, <1>11, <1>12, <1>13, <1>14, QuietStep,
     PromotionAssumption DEF Legs, MetStep

LEMMA IdleFacts ==
  /\ Idle.pc = "idle" /\ Idle.ok = {} /\ ~Idle.openOk /\ ~Idle.sent.performed
  /\ NoResult.id = 0 /\ ~NoResult.performed
BY DEF Idle, NoResult

LEMMA WriteReportKeeps ==
  ASSUME IInv, WriteReport
  PROVE IInv'
<1>1. /\ "session" \in Scripts /\ proc["session"] \in Proc /\ proc["session"].pc = "report"
      /\ proc' = [proc EXCEPT !["session"] = Idle]
      /\ UNCHANGED <<day, order, position, counter, result, prepared, registry, crashes, met>>
  BY DEF WriteReport, IInv, TypeOK
<1>2. report' \in [submitted : Nat, reconciled : Nat, ok : SUBSET Pair]
  BY <1>1 DEF WriteReport, Proc
<1>3. ~Overlap => Real(report'.ok) /\ Real(Idle.ok)
  BY <1>1, IdleFacts DEF WriteReport, IInv, LadderClimbed, Real
<1> QED
  BY <1>1, <1>2, <1>3, IdleFacts, IdleTyped, QuietStep, PromotionAssumption DEF Legs, MetStep

LEMMA ReconcileOrderKeeps ==
  ASSUME IInv, "order" \in Scripts, ReconcileOrder
  PROVE IInv'
<1>1. /\ proc["order"].pc = "reconcile" /\ proc' = [proc EXCEPT !["order"] = Idle]
      /\ UNCHANGED <<day, order, position, counter, result, report, prepared, registry, crashes, met>>
  BY DEF ReconcileOrder
<1>2. report' \in [submitted : Nat, reconciled : Nat, ok : SUBSET Pair]
      /\ (~Overlap => Real(report'.ok))
  BY <1>1 DEF IInv, TypeOK, LadderClimbed, Real
<1> QED
  BY <1>1, <1>2, IdleFacts, IdleTyped, QuietStep, PromotionAssumption DEF MetStep

LEMMA ReconcileCanaryKeeps ==
  ASSUME IInv, NEW p \in Canary, ReconcileCanary(p)
  PROVE IInv'
<1> DEFINE c == proc[p]
<1>0. p \in Scripts /\ p # "session"
  BY PromotionAssumption DEF Scripts
<1>1. /\ c \in Proc /\ c.pc = "reconcile"
      /\ UNCHANGED <<day, order, position, counter, result, report, prepared, registry, crashes, met>>
  BY <1>0 DEF ReconcileCanary, IInv, TypeOK
<1>2. report' \in [submitted : Nat, reconciled : Nat, ok : SUBSET Pair]
      /\ (~Overlap => Real(report'.ok))
  BY <1>1 DEF IInv, TypeOK, LadderClimbed, Real
<1>3. CASE proc' = [proc EXCEPT ![p] = Idle]
  BY <1>0, <1>1, <1>2, <1>3, IdleFacts, IdleTyped, QuietStep DEF MetStep
<1>4. ASSUME NEW status \in reconcile_signed_testnet("mainnet"),
             proc' = [proc EXCEPT ![p].pc = "record", ![p].id = result.id,
                                  ![p].openOk = status = "RECONCILED"]
      PROVE IInv'
  <2> DEFINE ok == status = "RECONCILED"
             me == [c EXCEPT !.pc = "record", !.id = result.id, !.openOk = ok]
  <2>1. me \in Proc /\ me.pc = "record" /\ me.id = result.id /\ (me.openOk = ok)
    BY <1>1 DEF Proc, Result, IInv, TypeOK
  <2>2. proc' = [proc EXCEPT ![p] = me]
    BY <1>4
  <2>3. ASSUME ok
        PROVE /\ result.id \in Placed("mainnet")
              /\ Shared(p, result.id)
    <3>1. result.performed /\ order[result.id].at = "mainnet" /\ result.id \in Sent
      BY <1>4, <2>3 DEF reconcile_signed_testnet, IInv, ResultsTell
    <3>2. order[result.id].by \in Canary
      BY <3>1 DEF IInv, OrdersPlaced, VenueOf, Venue
    <3> QED
      BY <1>1, <3>1, <3>2 DEF Placed, IInv, RegistrySound
  <2> HIDE DEF me, ok
  <2> QED
    BY <1>0, <1>1, <1>2, <2>1, <2>2, <2>3, QuietStep DEF Legs, MetStep
<1> QED
  BY <1>3, <1>4 DEF ReconcileCanary

-----------------------------------------------------------------------------
(***************************************************************************)
(* The steps of an order.                                                  *)
(***************************************************************************)
LEMMA GuardKeeps ==
  ASSUME IInv, NEW p \in Scripts, Guard(p)
  PROVE IInv'
<1>1. /\ proc[p] \in Proc /\ proc[p].pc = "guard"
      /\ UNCHANGED <<day, order, position, counter, report, prepared, registry, crashes, met>>
  BY DEF Guard, IInv, TypeOK
<1>2. CASE GuardReady(p)
  <2> DEFINE me == [proc[p] EXCEPT !.pc = "post", !.basis = prepared.on]
  <2>1. /\ me \in Proc /\ me.pc = "post" /\ me.left = proc[p].left /\ me.basis = prepared.on
        /\ me.ok = proc[p].ok /\ me.reduce = proc[p].reduce /\ me.openOk = proc[p].openOk
        /\ me.open = proc[p].open
    BY <1>1 DEF Proc, IInv, TypeOK
  <2>2. proc' = [proc EXCEPT ![p] = me] /\ result' = result
    BY <1>2 DEF Guard
  <2>3. report' \in [submitted : Nat, reconciled : Nat, ok : SUBSET Pair]
        /\ (~Overlap => Real(report'.ok))
    BY <1>1 DEF IInv, TypeOK, LadderClimbed, Real
  <2>4. p = "session" => me.left > 0
    BY <1>1, <2>1 DEF IInv, TypeOK, Legs
  <2>5. ~Overlap /\ p = "session" =>
          Real(me.ok) /\ (me.reduce /\ me.openOk => me.open.id \in Openings)
    BY <2>1 DEF IInv, LadderClimbed
  <2>6. ~Overlap /\ p \in Canary => Enough(me.basis)
    BY <1>2, <2>1 DEF GuardReady, IInv, LadderClimbed
  <2>7. p \notin Canary => counter["testnet"] < TestnetCap
    BY <1>2 DEF GuardReady, VenueOf, Cap
  <2> HIDE DEF me
  <2> QED
    BY <1>1, <2>1, <2>2, <2>3, <2>4, <2>5, <2>6, <2>7, QuietStep DEF MetStep
<1>3. CASE ~GuardReady(p)
  <2> DEFINE me == [proc[p] EXCEPT !.pc = "reconcile", !.sent = NoResult]
  <2>1. /\ me \in Proc /\ me.pc = "reconcile" /\ me.left = proc[p].left /\ me.sent = NoResult
        /\ me.ok = proc[p].ok /\ me.reduce = proc[p].reduce /\ me.openOk = proc[p].openOk
        /\ me.open = proc[p].open
    BY <1>1, IdleTyped DEF Proc
  <2>2. proc' = [proc EXCEPT ![p] = me] /\ result' = NoResult
    BY <1>3 DEF Guard
  <2>3. p = "session" => me.left > 0
    BY <1>1, <2>1 DEF IInv, TypeOK, Legs
  <2> HIDE DEF me
  <2>4. Tells(p, me.sent, me.reduce)
    BY <2>1, IdleFacts DEF Tells
  <2>5. StaysOnItsWay(p, me) /\ counter["testnet"] + crashes <= counter'["testnet"] + crashes'
    BY <1>1, StateFacts DEF StaysOnItsWay
  <2>6. Shared(p, me.sent.id) /\ MetStep(p, me)
    BY <1>1, <2>1, IdleFacts, StateFacts DEF Shared, MetStep
  <2> QED
    BY <1>1, <2>1, <2>2, <2>3, <2>4, <2>5, <2>6, IdleFacts, IdleTyped, StateFacts, ScriptStep
<1> QED
  BY <1>2, <1>3

LEMMA RecordSubmissionKeeps ==
  ASSUME IInv, NEW p \in Scripts, record_submission(p)
  PROVE IInv'
<1> DEFINE me == [proc[p] EXCEPT !.pc = "write"]
<1>1. /\ proc[p] \in Proc /\ proc[p].pc = "count" /\ proc' = [proc EXCEPT ![p] = me]
      /\ counter' = [counter EXCEPT ![VenueOf(p)] = @ + 1]
      /\ UNCHANGED <<day, order, position, result, report, prepared, registry, crashes, met>>
  BY DEF record_submission, Goto, IInv, TypeOK
<1>2. /\ me \in Proc /\ me.pc = "write" /\ me.left = proc[p].left /\ me.sent = proc[p].sent
      /\ me.ok = proc[p].ok /\ me.reduce = proc[p].reduce /\ me.openOk = proc[p].openOk
      /\ me.open = proc[p].open /\ me.id = proc[p].id
  BY <1>1 DEF Proc
<1>3. p = "session" => me.left > 0
  BY <1>1, <1>2, StateFacts DEF Legs
<1> HIDE DEF me
<1>4. /\ me.sent.id = me.id /\ me.id \in Sent /\ order[me.id].by = p
      /\ order[me.id].reduce = me.reduce
  BY <1>1, <1>2 DEF IInv, ResultsTell
<1>5. counter' \in [Venue -> Nat] /\ VenueOf(p) \in Venue
  BY <1>1, StateFacts DEF Venue, VenueOf
<1>6. CASE p \in Canary
  <2>1. counter'["testnet"] = counter["testnet"] /\ StaysOnItsWay(p, me)
    BY <1>1, <1>6, StateFacts DEF VenueOf, StaysOnItsWay, Venue
  <2>2. Shared(p, me.sent.id)
    BY <1>1, <1>2, <1>6 DEF IInv, RegistrySound
  <2>3. counter["testnet"] + crashes <= counter'["testnet"] + crashes'
    BY <1>1, <2>1, StateFacts
  <2> QED
    BY <1>1, <1>2, <1>4, <1>5, <1>6, <2>1, <2>2, <2>3, StateFacts, ScriptStep,
       PromotionAssumption DEF MetStep
<1>7. CASE p \notin Canary
  <2>1. counter'["testnet"] = counter["testnet"] + 1
    BY <1>1, <1>7, StateFacts DEF VenueOf, Venue
  <2>2. ~Overlap => counter["testnet"] < TestnetCap
    BY <1>1, <1>7 DEF IInv, BudgetKept
  <2>3. counter["testnet"] + crashes + 1 = counter'["testnet"] + crashes'
        /\ (~Overlap => counter'["testnet"] <= TestnetCap)
    BY <1>1, <2>1, <2>2, StateFacts, PromotionAssumption
  <2> QED
    BY <1>1, <1>2, <1>3, <1>4, <1>5, <1>7, <2>3, StateFacts, ScriptStep DEF MetStep
<1> QED
  BY <1>6, <1>7

LEMMA WriteResultKeeps ==
  ASSUME IInv, NEW p \in Scripts, WriteResult(p)
  PROVE IInv'
<1> DEFINE me == [proc[p] EXCEPT !.pc = "reconcile"]
<1>1. /\ proc[p] \in Proc /\ proc[p].pc = "write" /\ proc' = [proc EXCEPT ![p] = me]
      /\ result' = proc[p].sent
      /\ UNCHANGED <<day, order, position, counter, report, prepared, registry, crashes, met>>
  BY DEF WriteResult, Goto, IInv, TypeOK
<1>2. /\ me \in Proc /\ me.pc = "reconcile" /\ me.left = proc[p].left /\ me.sent = proc[p].sent
      /\ me.ok = proc[p].ok /\ me.reduce = proc[p].reduce /\ me.openOk = proc[p].openOk
      /\ me.open = proc[p].open /\ me.id = proc[p].id /\ me.sent \in Result
  BY <1>1 DEF Proc
<1>3. p = "session" => me.left > 0
  BY <1>1, <1>2, StateFacts DEF Legs
<1> HIDE DEF me
<1>4. Tells(p, me.sent, me.reduce)
  BY <1>1, <1>2 DEF IInv, ResultsTell, Tells
<1>5. p \in Canary => Shared(p, me.sent.id)
  BY <1>1, <1>2 DEF IInv, RegistrySound
<1>6. StaysOnItsWay(p, me) /\ counter["testnet"] + crashes <= counter'["testnet"] + crashes'
  BY <1>1, StateFacts DEF StaysOnItsWay
<1> QED
  BY <1>1, <1>2, <1>3, <1>4, <1>5, <1>6, StateFacts, ScriptStep DEF MetStep

LEMMA CrashKeeps ==
  ASSUME IInv, NEW p \in Scripts, Crash(p)
  PROVE IInv'
<1>1. /\ proc[p].pc # "idle" /\ proc' = [proc EXCEPT ![p] = Idle] /\ crashes' = crashes + 1
      /\ UNCHANGED <<day, order, position, counter, result, report, prepared, met>>
      /\ registry' = registry \/ registry' = [registry EXCEPT !.torn = TRUE]
  BY DEF Crash
<1>2. /\ registry' \in Registry
      /\ registry'.records = registry.records
  <2>1. registry \in Registry
    BY StateFacts
  <2> QED
    BY <1>1, <2>1 DEF Registry
<1>3. crashes' \in Nat /\ counter["testnet"] + crashes + 1 = counter'["testnet"] + crashes'
  BY <1>1, StateFacts
<1>4. Real(Idle.ok) /\ Idle.pc \notin Legs
  BY IdleFacts DEF Real, Legs
<1> QED
  BY <1>1, <1>2, <1>3, <1>4, IdleFacts, IdleTyped, StateFacts, ScriptStep DEF MetStep

\* The canary's record: if the registry has its order, both runs had company.
LEMMA RecordKeeps ==
  ASSUME IInv, NEW p \in Canary, record_canary_order(p)
  PROVE IInv'
<1> DEFINE c == proc[p]
<1>1. /\ p \in Scripts /\ p # "session" /\ c \in Proc /\ c.pc = "record"
      /\ proc' = [proc EXCEPT ![p] = Idle]
      /\ UNCHANGED <<day, order, position, counter, result, report, prepared, crashes, met>>
  BY StateFacts, PromotionAssumption DEF record_canary_order, Scripts
<1>0. PICK rec \in Record :
        /\ rec.id = c.id /\ rec.clean = c.openOk /\ (rec.met <=> p \in met)
        /\ registry' = registry
             \/ registry' = [registry EXCEPT !.records = Append(registry.records, rec)]
  <2> DEFINE r == [id |-> c.id, clean |-> c.openOk, met |-> p \in met]
  <2>1. c.id \in Nat /\ c.openOk \in BOOLEAN
    BY <1>1 DEF Proc
  <2>2. \A b \in BOOLEAN : [id |-> c.id, clean |-> c.openOk, met |-> b] \in Record
    BY <2>1 DEF Record
  <2>3. (p \in met) \in BOOLEAN
    OBVIOUS
  <2>4. r \in Record
    BY <2>2, <2>3, Zenon
  <2>5. r.id = c.id /\ r.clean = c.openOk /\ (r.met <=> p \in met)
    BY Zenon
  <2>6. registry' = registry \/ registry' = [registry EXCEPT !.records = Append(registry.records, r)]
    BY DEF record_canary_order, clean
  <2> HIDE DEF r
  <2> QED
    BY <2>4, <2>5, <2>6
<1>2. CASE registry' = registry
  BY <1>1, <1>2, StateFacts, IdleFacts, IdleTyped, QuietStep DEF MetStep
<1>3. CASE registry' = [registry EXCEPT !.records = Append(registry.records, rec)]
  <2> DEFINE old == registry.records
             n == Len(old) + 1
  <2>0. registry \in Registry
    BY StateFacts
  <2>1. /\ old \in Seq(Record)
        /\ registry'.records = Append(old, rec)
        /\ registry' \in Registry
    BY <1>3, <2>0 DEF Registry
  <2>2. /\ DOMAIN registry'.records = DOMAIN old \cup {n} /\ n \notin DOMAIN old
        /\ \A i \in DOMAIN old : registry'.records[i] = old[i]
        /\ registry'.records[n] = rec
    BY <2>1
  <2>3. \A q \in Scripts : proc'[q] = IF q = p THEN Idle ELSE proc[q]
    BY <1>1 DEF IInv, TypeOK
  <2>4. TypeOK'
    BY <1>1, <2>1, <2>3, IdleFacts, IdleTyped DEF IInv, TypeOK, Legs
  <2>5. Kept /\ Sent' = Sent /\ Placed("mainnet")' = Placed("mainnet")
        /\ Openings' = Openings /\ Closings' = Closings
    BY <1>1, UnchangedKept DEF Placed, Openings, Closings, Sent
  <2>6. OrdersPlaced'
    BY <1>1 DEF IInv, OrdersPlaced, Sent
  <2>7. ResultsTell'
    BY <1>1, <2>5, IdleFacts, IdleTyped, StepTells DEF IInv, ResultsTell
  <2>8. Alone'
    BY <1>1, IdleFacts, IdleTyped, StepAlone
  <2>9. LadderClimbed'
    BY <1>1, <2>5, IdleFacts, IdleTyped, StepLadder DEF IInv, LadderClimbed, Real
  <2>10. BudgetKept'
    <3>1. LeftBehind' \subseteq LeftBehind
      BY <1>1, IdleTyped, LeftBehindGrows DEF StaysOnItsWay
    <3>2. counter["testnet"] + crashes <= counter'["testnet"] + crashes'
      BY <1>1, StateFacts
    <3> QED
      BY <1>1, <3>1, <3>2, StateFacts, IdleTyped, IdleFacts, StepBudget
  <2>11. RegistrySound'
    <3>1. CleanRecords' = CleanRecords \cup (IF c.openOk THEN {n} ELSE {})
      BY <1>0, <2>2 DEF CleanRecords
    <3>2. c.openOk => c.id \in Placed("mainnet") /\ Shared(p, c.id)
      BY <1>1 DEF IInv, RegistrySound
    <3>3. \A i \in CleanRecords : registry'.records[i] = old[i] /\ i # n
      BY <2>2 DEF CleanRecords
    <3>4. \A i \in CleanRecords' : registry'.records[i].id \in Placed("mainnet")'
      BY <1>0, <2>2, <2>5, <3>1, <3>2, <3>3 DEF IInv, RegistrySound
    <3>5. ASSUME NEW i \in CleanRecords', NEW j \in CleanRecords',
                 registry'.records[i].id = registry'.records[j].id, i # j
          PROVE  registry'.records[i].met /\ registry'.records[j].met
      <4>1. CASE i \in CleanRecords /\ j \in CleanRecords
        BY <3>3, <3>5, <4>1 DEF IInv, RegistrySound
      <4>2. ASSUME NEW k \in CleanRecords, c.openOk, old[k].id = c.id
            PROVE  old[k].met /\ rec.met
        BY <1>0, <3>2, <4>2 DEF Shared
      <4>3. rec.id = c.id /\ registry'.records[n] = rec
        BY <1>0, <2>2
      <4> HIDE DEF n, old
      <4>4. CASE i = n
        BY <3>1, <3>3, <3>5, <4>2, <4>3, <4>4
      <4>5. CASE j = n
        BY <3>1, <3>3, <3>5, <4>2, <4>3, <4>5
      <4> QED
        BY <3>1, <4>1, <4>4, <4>5
    <3>6. ASSUME NEW q \in Canary, q # p, proc[q].pc # "idle" PROVE p \in met /\ q \in met
      BY <1>1, <3>6 DEF IInv, RegistrySound, Beside
    <3>7. ASSUME NEW q \in Canary, q # p, proc[q].pc # "idle", NEW id, Shared(q, id)
          PROVE  Shared(q, id)'
      BY <1>0, <1>1, <2>2, <3>1, <3>3, <3>6, <3>7 DEF Shared
    <3>8. ASSUME NEW q \in Canary
          PROVE (/\ proc[q].pc # "idle" /\ q \notin met => Beside(q) = {}
                 /\ proc[q].pc \in {"resolve", "count", "write", "reconcile"} =>
                      Shared(q, proc[q].sent.id)
                 /\ proc[q].pc = "reconcile" /\ result.performed /\ order[result.id].by \in Canary =>
                      Shared(q, result.id)
                 /\ proc[q].pc = "record" /\ proc[q].openOk =>
                      proc[q].id \in Placed("mainnet") /\ Shared(q, proc[q].id))'
      <4>1. q \in Scripts /\ Canary \subseteq Scripts
        BY DEF Scripts
      <4>2. CASE q = p
        BY <2>3, <4>1, <4>2, IdleFacts
      <4>3. CASE q # p
        <5>1. proc'[q] = proc[q]
          BY <2>3, <4>1, <4>3
        <5>2. proc[q].pc # "idle" /\ q \notin met => Beside(q)' = {}
          BY <1>1, <2>3, <4>1, <4>3, IdleFacts DEF IInv, RegistrySound, Beside
        <5> QED
          BY <1>1, <2>5, <3>7, <4>3, <5>1, <5>2 DEF IInv, RegistrySound
      <4> QED
        BY <4>2, <4>3
    <3> QED
      BY <3>4, <3>5, <3>8 DEF RegistrySound
  <2> QED
    BY <2>4, <2>6, <2>7, <2>8, <2>9, <2>10, <2>11 DEF IInv
<1> QED
  BY <1>0, <1>2, <1>3

-----------------------------------------------------------------------------
(***************************************************************************)
(* The venues, the calendar and the operator.                              *)
(***************************************************************************)
LEMMA OutsideStep ==
  ASSUME IInv, Kept, Sent' = Sent, LeftBehind' \subseteq LeftBehind,
         UNCHANGED <<day, counter, result, report, prepared, registry, proc, crashes, met>>
  PROVE ResultsTell' /\ Alone' /\ LadderClimbed' /\ BudgetKept' /\ RegistrySound'
<1>1. ResultsTell'
  BY DEF IInv, ResultsTell, Tells, Kept
<1>2. Alone'
  BY DEF IInv, Alone
<1>3. LadderClimbed'
  BY LegsKept DEF IInv, LadderClimbed, Kept, Real, Enough
<1>4. BudgetKept'
  <2>1. Cardinality(LeftBehind') \in Nat /\ Cardinality(LeftBehind') <= Cardinality(LeftBehind)
        /\ Cardinality(LeftBehind) \in Nat /\ Cardinality(LeftBehind) <= counter["testnet"] + crashes
    BY LeftBehindCounts DEF IInv, BudgetKept
  <2> QED
    BY <2>1, StateFacts DEF IInv, BudgetKept
<1>5. RegistrySound'
  <2>1. Placed("mainnet") \subseteq Placed("mainnet")' /\ CleanRecords' = CleanRecords
    BY PlacedKept DEF Venue, CleanRecords
  <2> QED
    BY <2>1 DEF IInv, RegistrySound, Shared, Beside, ResultsTell, Kept
<1> QED
  BY <1>1, <1>2, <1>3, <1>4, <1>5

LEMMA CheckReadinessKeeps ==
  ASSUME IInv, CheckReadiness
  PROVE IInv'
<1>1. /\ UNCHANGED <<day, order, position, counter, result, report, registry, proc, crashes, met>>
      /\ prepared'.ready => prepared'.on = report.ok /\ Cardinality(report.ok) >= MinSessions
      /\ prepared' \in [ready : BOOLEAN, on : SUBSET Pair]
  <2>1. PICK ready \in BOOLEAN :
          /\ prepared' = [ready |-> ready, on |-> IF ready THEN report.ok ELSE {}]
          /\ ready => evaluate_testnet_session_evidence
    <3> DEFINE ready(probe) == preparation_ready(probe)
    <3>1. \A probe \in BOOLEAN : /\ ready(probe) \in BOOLEAN
                                 /\ ready(probe) => evaluate_testnet_session_evidence
      BY DEF preparation_ready
    <3>2. \E probe \in BOOLEAN :
            prepared' = [ready |-> ready(probe), on |-> IF ready(probe) THEN report.ok ELSE {}]
      BY DEF CheckReadiness, run_live_readonly_probe
    <3> HIDE DEF ready
    <3> QED
      BY <3>1, <3>2
  <2>2. report.ok \in SUBSET Pair
    BY StateFacts
  <2>3. ready => Cardinality(report.ok) >= MinSessions
    BY <2>1 DEF evaluate_testnet_session_evidence
  <2> QED
    BY <2>1, <2>2, <2>3 DEF CheckReadiness
<1>2. TypeOK'
  BY <1>1 DEF IInv, TypeOK
<1>3. LadderClimbed'
  BY <1>1 DEF IInv, LadderClimbed, Enough, Real, Openings, Closings, Placed, Sent
<1> QED
  BY <1>1, <1>2, <1>3 DEF IInv, OrdersPlaced, ResultsTell, Tells, Alone, BudgetKept, LeftBehind,
       OnItsWay, RegistrySound, Shared, Beside, CleanRecords, Placed, Sent

LEMMA NoOrderChange ==
  ASSUME IInv, UNCHANGED <<day, order, proc>>
  PROVE Kept /\ Sent' = Sent /\ LeftBehind' = LeftBehind /\ OrdersPlaced'
BY DEF Kept, Sent, LeftBehind, OnItsWay, IInv, OrdersPlaced

LEMMA FlattenKeeps ==
  ASSUME IInv, NEW v \in Venue, Flatten(v)
  PROVE IInv'
<1>1. TypeOK'
  BY DEF IInv, TypeOK, Flatten
<1> QED
  BY <1>1, NoOrderChange, OutsideStep DEF IInv, Flatten

LEMMA PaperCycleKeeps ==
  ASSUME IInv, PaperCycle
  PROVE IInv'
<1>1. /\ UNCHANGED <<day, order, position, counter, report, prepared, registry, proc, crashes, met>>
      /\ Overlap /\ result' = NoResult
  BY DEF PaperCycle
<1>2. TypeOK'
  BY <1>1, IdleTyped DEF IInv, TypeOK
<1>3. Sent' = Sent /\ LeftBehind' = LeftBehind /\ OrdersPlaced' /\ CleanRecords' = CleanRecords
      /\ Placed("mainnet")' = Placed("mainnet")
  BY <1>1, NoOrderChange DEF CleanRecords, Placed, Sent
<1>4. ResultsTell'
  BY <1>1, <1>3, IdleFacts DEF IInv, ResultsTell, Tells
<1>5. Alone' /\ LadderClimbed'
  BY <1>1 DEF Alone, LadderClimbed
<1>6. BudgetKept' /\ RegistrySound'
  BY <1>1, <1>3, IdleFacts DEF IInv, BudgetKept, RegistrySound, Shared, Beside
<1> QED
  BY <1>2, <1>3, <1>4, <1>5, <1>6 DEF IInv

LEMMA NewDayKeeps ==
  ASSUME IInv, NewDay
  PROVE IInv'
<1>1. /\ UNCHANGED <<order, position, result, report, prepared, registry, proc, crashes, met>>
      /\ day' = day + 1 /\ counter' = [v \in Venue |-> 0]
  BY DEF NewDay
<1>2. TypeOK'
  BY <1>1 DEF IInv, TypeOK
<1>3. OrdersPlaced' /\ Sent' = Sent /\ CleanRecords' = CleanRecords
      /\ Placed("mainnet")' = Placed("mainnet")
      /\ Openings' = Openings /\ Closings' = Closings
  BY <1>1, SentFinite DEF IInv, OrdersPlaced, TypeOK, Order, Sent, CleanRecords, Placed, Openings,
       Closings
<1>4. ResultsTell' /\ Alone'
  BY <1>1, <1>3 DEF IInv, ResultsTell, Tells, Alone
<1>5. LadderClimbed' /\ RegistrySound'
  BY <1>1, <1>3 DEF IInv, LadderClimbed, Real, Enough, RegistrySound, Shared, Beside
<1>6. BudgetKept'
  <2>1. LeftBehind' = {}
    BY <1>1, <1>3, SentFinite DEF IInv, OrdersPlaced, TypeOK, LeftBehind, Order
  <2>2. counter'["testnet"] = 0 /\ TestnetCap > 0
    BY <1>1, PromotionAssumption DEF Venue
  <2>3. Cardinality(LeftBehind') <= counter'["testnet"] + crashes'
    BY <1>1, <2>1, <2>2, FS_EmptySet, StateFacts
  <2> QED
    BY <1>1, <2>2, <2>3, PromotionAssumption DEF BudgetKept
<1> QED
  BY <1>2, <1>3, <1>4, <1>5, <1>6 DEF IInv

LEMMA FillKeeps ==
  ASSUME IInv, NEW i \in Sent, Fill(i)
  PROVE IInv'
<1> DEFINE v == order[i].at
<1>1. /\ v \in Venue /\ order' = [order EXCEPT ![i].status = "FILLED"]
      /\ Takes(v, order[i].reduce)
      /\ position' = [position EXCEPT ![v] = Take(v, order[i].reduce)]
      /\ UNCHANGED <<day, counter, result, report, prepared, registry, proc, crashes, met>>
  BY DEF Fill
<1>2. /\ order \in Seq(Order) /\ Sent = DOMAIN order /\ order[i] \in Order
      /\ \A j \in Sent : order[j] \in Order
  BY SentFinite DEF IInv, TypeOK
<1>3. [order[i] EXCEPT !.status = "FILLED"] \in Order
  BY <1>2 DEF Order
<1>4. /\ order' \in Seq(Order) /\ Sent' = Sent
      /\ \A j \in Sent : order'[j] = IF j = i THEN [order[i] EXCEPT !.status = "FILLED"] ELSE order[j]
  BY <1>1, <1>2, <1>3 DEF Sent
<1>5. \A j \in Sent : /\ order'[j].by = order[j].by /\ order'[j].reduce = order[j].reduce
                      /\ order'[j].basis = order[j].basis /\ order'[j].at = order[j].at
                      /\ order'[j].day = order[j].day /\ order'[j].absent = order[j].absent
  BY <1>2, <1>4 DEF Order
<1>6. position' \in [Venue -> Nat]
  BY <1>1 DEF IInv, TypeOK, Takes, Take
<1>7. TypeOK'
  BY <1>1, <1>4, <1>6 DEF IInv, TypeOK
<1>8. Kept /\ OrdersPlaced' /\ LeftBehind' = LeftBehind
  BY <1>1, <1>4, <1>5 DEF Kept, IInv, OrdersPlaced, LeftBehind, OnItsWay
<1> QED
  BY <1>1, <1>4, <1>7, <1>8, OutsideStep DEF IInv

LEMMA ArriveKeeps ==
  ASSUME IInv, NEW i \in Sent, Arrive(i)
  PROVE IInv'
<1> DEFINE new == [order[i] EXCEPT !.at = VenueOf(order[i].by)]
<1>1. /\ order[i].at = "flying" /\ order' = [order EXCEPT ![i] = new]
      /\ UNCHANGED <<day, position, counter, result, report, prepared, registry, proc, crashes, met>>
  BY DEF Arrive
<1>2. /\ order \in Seq(Order) /\ Sent = DOMAIN order /\ order[i] \in Order
      /\ \A j \in Sent : order[j] \in Order
  BY SentFinite DEF IInv, TypeOK
<1>3. VenueOf(order[i].by) \in Venue
      /\ (order[i].by \notin Canary => VenueOf(order[i].by) = "testnet")
      /\ (order[i].by \in Canary => VenueOf(order[i].by) = "mainnet")
  BY DEF VenueOf, Venue
<1>4. /\ new \in Order /\ new.at = VenueOf(order[i].by) /\ new.by = order[i].by
      /\ new.reduce = order[i].reduce /\ new.basis = order[i].basis /\ new.day = order[i].day
      /\ new.absent = order[i].absent
  BY <1>2, <1>3 DEF Order, At
<1> HIDE DEF new
<1>5. /\ order' \in Seq(Order) /\ Sent' = Sent
      /\ \A j \in Sent : order'[j] = IF j = i THEN new ELSE order[j]
  BY <1>1, <1>2, <1>4 DEF Sent
<1>6. TypeOK'
  BY <1>1, <1>5 DEF IInv, TypeOK
<1>7. Kept /\ OrdersPlaced' /\ LeftBehind' \subseteq LeftBehind
  BY <1>1, <1>3, <1>4, <1>5 DEF Kept, IInv, OrdersPlaced, LeftBehind, OnItsWay, Venue
<1> QED
  BY <1>1, <1>5, <1>6, <1>7, OutsideStep DEF IInv

-----------------------------------------------------------------------------
(***************************************************************************)
(* The POST and the query after it.                                        *)
(***************************************************************************)
\* What a POST makes of the orders and of its script.
PostedOrder(p, o) ==
  /\ o \in Order /\ o.by = p /\ o.day = day /\ o.reduce = proc[p].reduce /\ ~o.absent
  /\ o.basis = proc[p].basis /\ (o.at \in Venue => o.at = VenueOf(p))

PostedScript(p, o, me) ==
  /\ me \in Proc /\ me.pc \in {"resolve", "count", "write"}
  /\ me.id = Len(order) + 1 /\ me.sent.id = me.id
  /\ p \notin Canary /\ o.at \in {"testnet", "flying"} => me.pc \in {"resolve", "count"}
  /\ me.left = proc[p].left /\ me.ok = proc[p].ok /\ me.reduce = proc[p].reduce
  /\ me.openOk = proc[p].openOk /\ me.open = proc[p].open

Posted(p, o, me) ==
  /\ order' = Append(order, o) /\ proc' = [proc EXCEPT ![p] = me]
  /\ PostedOrder(p, o) /\ PostedScript(p, o, me)

LEMMA PostPlacedFacts ==
  ASSUME IInv, NEW p \in Scripts, NEW answered \in BOOLEAN, PostPlaced(p, answered)
  PROVE position' \in [Venue -> Nat] /\ \E o \in Order, me \in Proc : Posted(p, o, me)
<1> DEFINE v == VenueOf(p)
           n == Len(order) + 1
           sent == [performed |-> answered, answered |-> answered, id |-> n]
           pc == CASE answered -> "count"
                   [] ~answered /\ p \notin Canary -> "resolve"
                   [] OTHER -> "write"
           me == [proc[p] EXCEPT !.id = n, !.sent = sent, !.pc = pc]
<1>1. PICK status \in Statuses :
        /\ order' = Append(order, [at |-> v, by |-> p, day |-> day, status |-> status,
                                   reduce |-> proc[p].reduce, absent |-> FALSE,
                                   basis |-> proc[p].basis])
        /\ position' = IF status = "FILLED"
                       THEN [position EXCEPT ![v] = Take(v, proc[p].reduce)] ELSE position
  BY DEF PostPlaced
<1> DEFINE o == [at |-> v, by |-> p, day |-> day, status |-> status,
                 reduce |-> proc[p].reduce, absent |-> FALSE, basis |-> proc[p].basis]
<1>2. proc[p] \in Proc /\ day \in Nat /\ n \in Nat /\ v \in Venue /\ Takes(v, proc[p].reduce)
  BY SentFinite DEF IInv, TypeOK, VenueOf, Venue, PostPlaced
<1>3. position' \in [Venue -> Nat]
  BY <1>1, <1>2 DEF IInv, TypeOK, Takes, Take
<1>4. status \in {"NEW", "FILLED"}
  BY DEF Statuses
<1>5. o \in Order
  BY <1>2, <1>4 DEF Order, Proc, At
<1>6. PostedOrder(p, o)
  BY <1>5 DEF PostedOrder
<1>7. sent \in Result /\ sent.id = n
  BY <1>2 DEF Result
<1>8. pc \in {"resolve", "count", "write"} /\ (p \notin Canary => pc \in {"resolve", "count"})
  OBVIOUS
<1>9. proc' = [proc EXCEPT ![p] = me]
  BY DEF PostPlaced
<1> HIDE DEF pc, sent, n
<1>10. PostedScript(p, o, me)
  BY <1>2, <1>7, <1>8 DEF PostedScript, Proc, n
<1> HIDE DEF me, o
<1> QED
  BY <1>1, <1>3, <1>6, <1>9, <1>10 DEF Posted, PostedOrder, PostedScript, o

LEMMA PostMissingFacts ==
  ASSUME IInv, NEW p \in Scripts, NEW at \in {"refused", "lost", "flying"}, PostMissing(p, at)
  PROVE position' \in [Venue -> Nat] /\ \E o \in Order, me \in Proc : Posted(p, o, me)
<1> DEFINE n == Len(order) + 1
           sent == [performed |-> FALSE, answered |-> FALSE, id |-> n]
           pc == IF at # "refused" /\ p \notin Canary THEN "resolve" ELSE "write"
           me == [proc[p] EXCEPT !.id = n, !.sent = sent, !.pc = pc]
           o == [at |-> at, by |-> p, day |-> day, status |-> "NEW",
                 reduce |-> proc[p].reduce, absent |-> FALSE, basis |-> proc[p].basis]
<1>1. order' = Append(order, o) /\ proc' = [proc EXCEPT ![p] = me] /\ position' = position
  BY DEF PostMissing
<1>2. proc[p] \in Proc /\ day \in Nat /\ n \in Nat /\ position \in [Venue -> Nat]
  BY SentFinite DEF IInv, TypeOK
<1>3. o \in Order
  BY <1>2 DEF Order, Proc, At
<1>4. PostedOrder(p, o)
  BY <1>3 DEF PostedOrder, Venue
<1>5. sent \in Result /\ sent.id = n
  BY <1>2 DEF Result
<1>6. /\ pc \in {"resolve", "count", "write"}
      /\ p \notin Canary /\ at \in {"testnet", "flying"} => pc \in {"resolve", "count"}
  OBVIOUS
<1> HIDE DEF pc, sent, n
<1>7. PostedScript(p, o, me)
  BY <1>2, <1>5, <1>6 DEF PostedScript, Proc, n
<1> HIDE DEF me, o
<1> QED
  BY <1>1, <1>2, <1>4, <1>7 DEF Posted, PostedOrder, PostedScript

LEMMA SubmitKeeps ==
  ASSUME IInv, NEW p \in Scripts, submit_order(p)
  PROVE IInv'
<1>1. /\ proc[p].pc = "post"
      /\ UNCHANGED <<day, counter, result, report, prepared, registry, crashes, met>>
  BY DEF submit_order
<1>2. position' \in [Venue -> Nat] /\ \E o \in Order, me \in Proc : Posted(p, o, me)
  BY PostPlacedFacts, PostMissingFacts DEF submit_order
<1>3. PICK o \in Order, me \in Proc : Posted(p, o, me)
  BY <1>2
<1> DEFINE n == Len(order) + 1
<1>4. /\ n \in Nat /\ Sent' = Sent \cup {n} /\ n \notin Sent /\ order'[n] = o
      /\ order' \in Seq(Order) /\ \A i \in Sent : order'[i] = order[i]
  BY <1>3, SentFinite DEF Posted, IInv, TypeOK, Sent
<1>5. Kept
  BY <1>4 DEF Kept
<1>6. proc' = [proc EXCEPT ![p] = me] /\ PostedOrder(p, o) /\ PostedScript(p, o, me)
      /\ me.id = n
  BY <1>3 DEF Posted, PostedScript
<1>7. p = "session" => me.left > 0
  BY <1>1, <1>6, StateFacts DEF PostedScript, Legs
<1>8. TypeOK'
  BY <1>1, <1>2, <1>4, <1>6, <1>7, StepTyped DEF IInv, TypeOK
<1>9. OrdersPlaced'
  <2>1. day \in Nat /\ day' = day
    BY <1>1 DEF IInv, TypeOK
  <2>2. \A i \in Sent : order[i].day <= day /\ (order[i].at \in Venue => order[i].at = VenueOf(order[i].by))
    BY DEF IInv, OrdersPlaced
  <2>3. o.day <= day /\ (o.at \in Venue => o.at = VenueOf(o.by))
    BY <1>6, <2>1 DEF PostedOrder
  <2> QED
    BY <1>4, <2>1, <2>2, <2>3 DEF OrdersPlaced
<1>10. ResultsTell'
  <2>1. result'.performed => result'.id \in Sent'
    BY <1>1, <1>4 DEF IInv, ResultsTell
  <2>2. /\ me.sent.id = me.id /\ me.id \in Sent' /\ order'[me.id].by = p
        /\ order'[me.id].reduce = me.reduce /\ me.pc # "reconcile"
    BY <1>4, <1>6 DEF PostedOrder, PostedScript
  <2> QED
    BY <1>5, <1>6, <2>1, <2>2, StepTells
<1>11. Alone'
  BY <1>1, <1>6, StepAlone DEF PostedScript
<1>12. LadderClimbed'
  <2>1. Openings \subseteq Openings' /\ Closings \subseteq Closings'
    BY <1>5, LegsKept
  <2>2. ~Overlap => /\ Real(report.ok)' /\ prepared' = prepared
                    /\ p = "session" => Real(me.ok)'
                         /\ (me.reduce /\ me.openOk => me.open.id \in Openings')
    BY <1>1, <1>6, <2>1, StateFacts DEF Real, PostedScript
  <2>3. ASSUME ~Overlap, NEW i \in Sent' \ Sent, order'[i].by \in Canary
        PROVE Enough(order[i].basis)'
    <3>1. i = n /\ order'[i] = o /\ p \in Canary
      BY <1>4, <1>6, <2>3 DEF PostedOrder
    <3>2. Enough(proc[p].basis) /\ o.basis = proc[p].basis
      BY <1>1, <1>6, <2>3, <3>1 DEF PostedOrder, IInv, LadderClimbed
    <3> QED
      BY <2>1, <3>1, <3>2 DEF Enough, Real
  <2>4. me.pc # "post"
    BY <1>6 DEF PostedScript
  <2> QED
    BY <1>5, <1>6, <2>2, <2>3, <2>4, StepLadder
<1>13. BudgetKept'
  <2>1. \A q \in Scripts : proc'[q] = IF q = p THEN me ELSE proc[q]
    BY <1>6 DEF IInv, TypeOK
  <2>2. OnItsWay \subseteq OnItsWay'
    BY <1>1, <2>1 DEF OnItsWay
  <2>3. p \notin Canary /\ o.at \in {"testnet", "flying"} => n \in OnItsWay'
    BY <1>6, <2>1 DEF PostedScript, OnItsWay
  <2>4. LeftBehind' \subseteq LeftBehind
    BY <1>1, <1>4, <1>6, <2>2, <2>3 DEF LeftBehind, PostedOrder
  <2>5. counter["testnet"] + crashes <= counter'["testnet"] + crashes'
    BY <1>1, StateFacts
  <2>6. ~Overlap => /\ counter'["testnet"] <= TestnetCap
                    /\ p \notin Canary => counter'["testnet"] < TestnetCap
    BY <1>1 DEF IInv, BudgetKept
  <2> QED
    BY <1>1, <1>6, <2>4, <2>5, <2>6, StateFacts, StepBudget
<1>14. RegistrySound'
  <2>1. \A i \in CleanRecords : registry.records[i].id # n
    BY <1>4 DEF IInv, RegistrySound, Placed
  <2> QED
    BY <1>1, <1>5, <1>6, <2>1, StepRegistry DEF PostedScript, MetStep, Shared
<1> QED
  BY <1>8, <1>9, <1>10, <1>11, <1>12, <1>13, <1>14 DEF IInv

LEMMA ResolveKeeps ==
  ASSUME IInv, NEW p \in Scripts, resolve_ambiguous_submit(p)
  PROVE IInv'
<1> DEFINE id == proc[p].id
           placed == order[id].at = "testnet"
<1>1. /\ proc[p] \in Proc /\ proc[p].pc = "resolve" /\ id \in Sent /\ proc[p].sent.id = id
      /\ order[id].by = p /\ order[id].reduce = proc[p].reduce /\ order[id] \in Order
      /\ UNCHANGED <<day, position, counter, result, report, prepared, registry, crashes, met>>
  BY SentFinite DEF IInv, TypeOK, ResultsTell, resolve_ambiguous_submit
<1>2. PICK b \in BOOLEAN :
        /\ proc' = [proc EXCEPT ![p].sent.performed = b, ![p].pc = IF b THEN "count" ELSE "write"]
        /\ (b = placed /\ order' = [order EXCEPT ![id].absent = ~placed]) \/ (b /\ order' = order)
  <2>1. placed \in BOOLEAN
    OBVIOUS
  <2> QED
    BY <2>1 DEF resolve_ambiguous_submit
<1> DEFINE new == [order[id] EXCEPT !.absent = ~placed]
<1>3. PICK me \in Proc :
        /\ proc' = [proc EXCEPT ![p] = me]
        /\ me.pc \in {"count", "write"} /\ (b <=> me.pc = "count")
        /\ me.id = id /\ me.sent.id = id /\ me.left = proc[p].left /\ me.ok = proc[p].ok
        /\ me.reduce = proc[p].reduce /\ me.openOk = proc[p].openOk /\ me.open = proc[p].open
  <2> DEFINE sent == [proc[p].sent EXCEPT !.performed = b]
             m == [proc[p] EXCEPT !.sent = sent, !.pc = IF b THEN "count" ELSE "write"]
  <2>1. proc' = [proc EXCEPT ![p] = m]
    BY <1>1, <1>2 DEF IInv, TypeOK, Proc
  <2>2. sent \in Result /\ sent.id = id
    BY <1>1 DEF Proc, Result
  <2> HIDE DEF sent
  <2>3. /\ m \in Proc /\ m.pc \in {"count", "write"} /\ (b <=> m.pc = "count")
        /\ m.id = id /\ m.sent.id = id /\ m.left = proc[p].left /\ m.ok = proc[p].ok
        /\ m.reduce = proc[p].reduce /\ m.openOk = proc[p].openOk /\ m.open = proc[p].open
    BY <1>1, <2>2 DEF Proc
  <2> QED
    BY <2>1, <2>3
<1>5. new \in Order /\ new.by = order[id].by /\ new.reduce = order[id].reduce
      /\ new.basis = order[id].basis /\ new.at = order[id].at /\ new.day = order[id].day
      /\ new.absent = ~placed
  BY <1>1 DEF Order
<1> HIDE DEF new
<1>6. /\ order' \in Seq(Order) /\ Sent' = Sent
      /\ \A i \in Sent : order'[i] = order[i] \/ (i = id /\ order'[i] = new)
      /\ ~b => ~placed /\ order'[id] = new
  <2>1. order \in Seq(Order) /\ Sent = DOMAIN order
    BY SentFinite DEF IInv, TypeOK
  <2> QED
    BY <1>1, <1>2, <1>5, <2>1 DEF Sent, new
<1>7. \A i \in Sent : /\ order'[i].by = order[i].by /\ order'[i].reduce = order[i].reduce
                      /\ order'[i].basis = order[i].basis /\ order'[i].at = order[i].at
                      /\ order'[i].day = order[i].day
                      /\ ~order'[i].absent => ~order[i].absent \/ i = id
  BY <1>5, <1>6
<1>8. Kept
  BY <1>6, <1>7 DEF Kept
<1>9. p = "session" => me.left > 0
  BY <1>1, <1>3, StateFacts DEF Legs
<1>10. TypeOK'
  BY <1>1, <1>3, <1>6, <1>9, StepTyped DEF IInv, TypeOK
<1>11. OrdersPlaced'
  BY <1>1, <1>6, <1>7 DEF IInv, OrdersPlaced
<1>12. ResultsTell'
  <2>1. result'.performed => result'.id \in Sent'
    BY <1>1, <1>6 DEF IInv, ResultsTell
  <2>2. /\ me.sent.id = me.id /\ me.id \in Sent' /\ order'[me.id].by = p
        /\ order'[me.id].reduce = me.reduce /\ me.pc # "reconcile"
    BY <1>1, <1>3, <1>6, <1>7
  <2> QED
    BY <1>3, <1>8, <2>1, <2>2, StepTells
<1>13. Alone'
  BY <1>1, <1>3, StepAlone
<1>14. LadderClimbed'
  <2>1. Openings \subseteq Openings' /\ Closings \subseteq Closings'
    BY <1>8, LegsKept
  <2>2. ~Overlap => /\ Real(report.ok)' /\ prepared' = prepared
                    /\ p = "session" => Real(me.ok)'
                         /\ (me.reduce /\ me.openOk => me.open.id \in Openings')
    BY <1>1, <1>3, <2>1, StateFacts DEF Real
  <2> QED
    BY <1>3, <1>6, <1>8, <2>2, StepLadder
<1>15. BudgetKept'
  <2>1. \A q \in Scripts : proc'[q] = IF q = p THEN me ELSE proc[q]
    BY <1>3 DEF IInv, TypeOK
  <2>2. \A i \in OnItsWay : i # id => i \in OnItsWay'
    BY <2>1 DEF OnItsWay
  <2>3. id \in OnItsWay /\ (b => id \in OnItsWay')
    BY <1>1, <1>3, <2>1 DEF OnItsWay
  <2>4. id \notin LeftBehind'
    BY <1>5, <1>6, <2>3 DEF LeftBehind
  <2>5. LeftBehind' \subseteq LeftBehind
    BY <1>1, <1>6, <1>7, <2>2, <2>4 DEF LeftBehind
  <2>6. counter["testnet"] + crashes <= counter'["testnet"] + crashes'
    BY <1>1, StateFacts
  <2>7. ~Overlap => /\ counter'["testnet"] <= TestnetCap
                    /\ p \notin Canary => counter'["testnet"] < TestnetCap
    BY <1>1 DEF IInv, BudgetKept
  <2> QED
    BY <1>1, <1>3, <2>5, <2>6, <2>7, StateFacts, StepBudget
<1>16. RegistrySound'
  <2>1. p \in Canary => Shared(p, me.sent.id)
    BY <1>1, <1>3 DEF IInv, RegistrySound
  <2>2. me.pc # "record" /\ me.pc # "reconcile"
    BY <1>3
  <2> QED
    BY <1>1, <1>3, <1>8, <2>1, <2>2, StepRegistry DEF MetStep
<1> QED
  BY <1>10, <1>11, <1>12, <1>13, <1>14, <1>15, <1>16 DEF IInv

-----------------------------------------------------------------------------
(***************************************************************************)
(* The invariant and what it gives.                                        *)
(***************************************************************************)
LEMMA InitEstablishes == ASSUME Init PROVE IInv
<1>1. order = <<>> /\ Sent = {} /\ registry.records = <<>> /\ CleanRecords = {}
  BY DEF Init, Sent, CleanRecords
<1>2. \A p \in Scripts : proc[p] = Idle
  BY DEF Init
<1>3. TypeOK
  <2>1. registry \in Registry
    BY <1>1 DEF Init, Registry
  <2>2. proc \in [Scripts -> Proc] /\ result \in Result
    BY IdleTyped DEF Init
  <2>3. order \in Seq(Order) /\ met \subseteq Canary
    BY DEF Init
  <2>4. /\ position \in [Venue -> Nat] /\ counter \in [Venue -> Nat]
        /\ day \in Nat /\ crashes \in Nat
        /\ report \in [submitted : Nat, reconciled : Nat, ok : SUBSET Pair]
        /\ prepared \in [ready : BOOLEAN, on : SUBSET Pair]
    BY DEF Init
  <2>5. \A p \in Scripts : proc[p].pc \notin Legs
    BY <1>2, IdleFacts DEF Legs
  <2> QED
    BY <2>1, <2>2, <2>3, <2>4, <2>5 DEF TypeOK
<1>4. OrdersPlaced /\ ResultsTell /\ Alone
  BY <1>1, <1>2, IdleFacts DEF Init, OrdersPlaced, ResultsTell, Alone
<1>5. LadderClimbed
  BY <1>1, <1>2, IdleFacts DEF Init, LadderClimbed, Real, Scripts
<1>6. BudgetKept
  <2>1. LeftBehind = {} /\ counter["testnet"] = 0 /\ crashes = 0
    BY <1>1 DEF Init, LeftBehind, Venue
  <2> QED
    BY <2>1, FS_EmptySet, PromotionAssumption DEF BudgetKept
<1>7. RegistrySound
  <2>1. Canary \subseteq Scripts
    BY DEF Scripts
  <2> QED
    BY <1>1, <1>2, <2>1, IdleFacts DEF RegistrySound
<1> QED
  BY <1>3, <1>4, <1>5, <1>6, <1>7 DEF IInv

LEMMA NextKeeps == ASSUME IInv, [Next]_vars PROVE IInv'
<1>1. CASE UNCHANGED vars
  <2>1. TypeOK' /\ OrdersPlaced' /\ Alone'
    BY <1>1 DEF vars, IInv, TypeOK, OrdersPlaced, Alone, Placed, Sent
  <2>2. ResultsTell'
    BY <1>1 DEF vars, IInv, ResultsTell, Tells, Placed, Sent
  <2>3. LadderClimbed'
    BY <1>1 DEF vars, IInv, LadderClimbed, Enough, Real, Openings, Closings, Placed, Sent
  <2>4. BudgetKept'
    BY <1>1 DEF vars, IInv, BudgetKept, LeftBehind, OnItsWay, Placed, Sent
  <2>5. RegistrySound'
    BY <1>1 DEF vars, IInv, RegistrySound, Shared, Beside, CleanRecords, Placed, Sent
  <2> QED
    BY <2>1, <2>2, <2>3, <2>4, <2>5 DEF IInv
<1>2. ASSUME NEW p \in Scripts, Guard(p) \/ submit_order(p) \/ resolve_ambiguous_submit(p)
                                \/ record_submission(p) \/ WriteResult(p) \/ Crash(p)
      PROVE IInv'
  BY <1>2, GuardKeeps, SubmitKeeps, ResolveKeeps, RecordSubmissionKeeps, WriteResultKeeps,
     CrashKeeps
<1>3. ASSUME NEW i \in Sent, Fill(i) \/ Arrive(i) PROVE IInv'
  BY <1>3, FillKeeps, ArriveKeeps
<1>4. ASSUME NEW p \in Canary, StartCanary(p) \/ ReconcileCanary(p) \/ record_canary_order(p)
      PROVE IInv'
  BY <1>4, StartCanaryKeeps, ReconcileCanaryKeeps, RecordKeeps
<1> QED
  BY <1>1, <1>2, <1>3, <1>4, StartSessionKeeps, StartOrderKeeps, CheckReadinessKeeps, ReconcileLegKeeps, WriteReportKeeps,
     ReconcileOrderKeeps, FlattenKeeps, NewDayKeeps,
     PaperCycleKeeps DEF Next

\* The types, where the orders are, what the result file and the scripts
\* know of them, and what the report, the counter and the registry cover.
THEOREM PromotionInvariance == Spec => []IInv
<1>1. Init => IInv
  BY InitEstablishes
<1>2. IInv /\ [Next]_vars => IInv'
  BY NextKeeps
<1> QED
  BY <1>1, <1>2, PTL DEF Spec

\* As long as no script runs beside another, a mainnet canary is sent only on
\* a report of enough sessions, each opened and closed by orders of its own
\* that the testnet took: for any number of sessions, faults, days and kills.
THEOREM LadderClimbedInOrder ==
  ASSUME ~Overlap
  PROVE Spec => []LadderInOrder
<1>1. IInv => LadderInOrder
  <2> SUFFICES ASSUME IInv, NEW i \in Placed("mainnet") PROVE Enough(order[i].basis)
    BY DEF LadderInOrder, Enough, Real, Openings, Closings
  <2>1. i \in Sent /\ order[i].by \in Canary
    BY DEF Placed, IInv, OrdersPlaced, VenueOf, Venue
  <2> QED
    BY <2>1 DEF IInv, LadderClimbed
<1> QED
  BY <1>1, PromotionInvariance, PTL

\* As long as no script runs beside another, the orders of a day at the
\* testnet exceed the cap by at most the processes killed.
THEOREM TestnetBudgetCovers ==
  ASSUME ~Overlap
  PROVE Spec => []TestnetBudget
<1>1. IInv => TestnetBudget
  <2> SUFFICES ASSUME IInv PROVE TestnetBudget
    OBVIOUS
  <2> DEFINE T == {i \in Today("testnet") : ~order[i].absent}
  <2>1. \A i \in T : i \in LeftBehind \/ i \in OnItsWay
    BY DEF Today, Placed, LeftBehind, IInv, OrdersPlaced, VenueOf, Venue
  <2>2. /\ counter["testnet"] \in Nat /\ crashes \in Nat
        /\ Cardinality(LeftBehind) \in Nat
        /\ Cardinality(LeftBehind) <= counter["testnet"] + crashes
        /\ counter["testnet"] <= TestnetCap /\ TestnetCap \in Nat
    BY StateFacts, LeftBehindCounts, PromotionAssumption DEF IInv, BudgetKept
  <2>3. CASE \E p \in Scripts \ Canary : proc[p].pc \in {"resolve", "count"}
    <3>1. PICK p \in Scripts \ Canary : proc[p].pc \in {"resolve", "count"}
      BY <2>3
    <3>2. OnItsWay = {proc[p].id} /\ counter["testnet"] < TestnetCap
      BY <3>1 DEF OnItsWay, IInv, Alone, BudgetKept
    <3>3. T \subseteq LeftBehind \cup {proc[p].id}
      BY <2>1, <3>2
    <3>4. Cardinality(T) \in Nat /\ Cardinality(T) <= Cardinality(LeftBehind) + 1
      BY <3>3, LeftBehindCounts DEF IInv
    <3> QED
      BY <2>2, <3>2, <3>4 DEF TestnetBudget
  <2>4. CASE \A p \in Scripts \ Canary : proc[p].pc \notin {"resolve", "count"}
    <3>1. \A i \in OnItsWay : order[i].by \in Canary
      BY <2>4 DEF OnItsWay, IInv, ResultsTell
    <3>2. T \subseteq LeftBehind
      BY <2>1, <3>1 DEF Today, Placed, IInv, OrdersPlaced, VenueOf, Venue
    <3>3. Cardinality(T) \in Nat /\ Cardinality(T) <= Cardinality(LeftBehind)
      BY <3>2, LeftBehindCounts DEF IInv
    <3> QED
      BY <2>2, <3>3 DEF TestnetBudget
  <2> QED
    BY <2>3, <2>4
<1> QED
  BY <1>1, PromotionInvariance, PTL

\* However many scripts, canaries and paper cycles overlap, a clean record is
\* of an order the mainnet venue has, and the only record of it unless the
\* canaries that recorded it both ran beside another one.  So the live stage
\* opens on that many orders where no canary was started beside another.
THEOREM EvidenceDistinct == Spec => []EvidenceIsDistinct
<1>1. IInv => EvidenceIsDistinct
  <2> SUFFICES ASSUME IInv PROVE EvidenceIsDistinct
    OBVIOUS
  <2> DEFINE Ids == {registry.records[i].id : i \in CleanRecords}
             f == [i \in CleanRecords |-> registry.records[i].id]
  <2>1. /\ \A i \in CleanRecords : registry.records[i].id \in Placed("mainnet")
        /\ \A i, j \in CleanRecords : registry.records[i].id = registry.records[j].id =>
             i = j \/ (registry.records[i].met /\ registry.records[j].met)
    BY DEF IInv, RegistrySound
  <2>2. IsFiniteSet(CleanRecords)
    <3>1. registry.records \in Seq(Record) /\ Len(registry.records) \in Nat
          /\ DOMAIN registry.records = 1..Len(registry.records)
      BY StateFacts DEF Registry
    <3>2. IsFiniteSet(1..Len(registry.records))
      BY <3>1, FS_Interval
    <3> QED
      BY <3>1, <3>2, FS_Subset DEF CleanRecords
  <2>3. ASSUME \A i \in CleanRecords : ~registry.records[i].met, live_promotion_ready
        PROVE  Cardinality(Placed("mainnet")) >= MinOrders
    <3>0. f \in Bijection(CleanRecords, Ids)
      BY <2>1, <2>3 DEF Bijection, Injection, IsInjective, Surjection
    <3>1. Cardinality(Ids) = Cardinality(CleanRecords)
      BY <2>2, <3>0, FS_Bijection DEF ExistsBijection
    <3>2. IsFiniteSet(Placed("mainnet")) /\ IsFiniteSet(Ids)
      BY <2>1, SentFinite, FS_Subset DEF IInv, Placed
    <3>3. Cardinality(Ids) <= Cardinality(Placed("mainnet"))
      BY <2>1, <3>2, FS_Subset
    <3>4. Cardinality(Ids) \in Nat /\ Cardinality(Placed("mainnet")) \in Nat /\ MinOrders \in Nat
          /\ MinOrders > 0
      BY <3>2, FS_CardinalityType, PromotionAssumption
    <3> QED
      BY <2>3, <3>1, <3>3, <3>4 DEF live_promotion_ready, clean_canary_order_count
  <2> QED
    BY <2>1, <2>3 DEF EvidenceIsDistinct
<1> QED
  BY <1>1, PromotionInvariance, PTL
=============================================================================
