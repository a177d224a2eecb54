----------------------------- MODULE LivePosition -----------------------------
(***************************************************************************)
(* What the live position kernel promises (live_position_kernel.py:1-16):  *)
(* one tracked position, closed by an order the file names before the      *)
(* venue sees it, booked from what that order executed, and dropped only   *)
(* when its close is booked.  Cycles, answers, retries, crashes, days and  *)
(* candles are not in it: LiveTrading implements it.                       *)
(***************************************************************************)
CONSTANTS OrderId, NoOrder

VARIABLES open,     \* is a position tracked?
          pending,  \* the close the position names, or NoOrder
          live,     \* closes the venue may still fill or has filled
          done,     \* closes of which the venue has executed a part
          booked    \* closes in the ledger

vars == <<open, pending, live, done, booked>>

Init == open = FALSE /\ pending = NoOrder /\ live = {} /\ done = {} /\ booked = {}

Open == /\ ~open /\ open' = TRUE
        /\ UNCHANGED <<pending, live, done, booked>>

\* A close is named while none is, by an id that was never used.
NameClose(o) == /\ open /\ pending = NoOrder /\ o \notin live \cup done \cup booked
                /\ pending' = o
                /\ UNCHANGED <<open, live, done, booked>>

\* Only the named close is sent, and once.
SendClose == /\ open /\ pending \in OrderId \ (live \cup done)
             /\ live' = live \cup {pending}
             /\ UNCHANGED <<open, pending, done, booked>>

VenueExecutes(o) == /\ o \in live /\ done' = done \cup {o}
                    /\ UNCHANGED <<open, pending, live, booked>>

VenueEnds(o) == /\ o \in live /\ live' = live \ {o}
                /\ UNCHANGED <<open, pending, done, booked>>

\* A close is given up only when the venue can no longer fill it.
Retire == /\ open /\ pending \in OrderId \ live
          /\ pending' = NoOrder
          /\ UNCHANGED <<open, live, done, booked>>

Book == /\ open /\ pending \in done
        /\ booked' = booked \cup {pending}
        /\ UNCHANGED <<open, pending, live, done>>

Clear == /\ open /\ pending \in booked
         /\ open' = FALSE /\ pending' = NoOrder
         /\ UNCHANGED <<live, done, booked>>

Next == \/ Open
        \/ \E o \in OrderId : NameClose(o) \/ VenueExecutes(o) \/ VenueEnds(o)
        \/ SendClose \/ Retire \/ Book \/ Clear

Spec == Init /\ [][Next]_vars
=============================================================================
