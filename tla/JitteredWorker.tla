--------------------------- MODULE JitteredWorker ---------------------------
(***************************************************************************)
(* One worker of src/steal_backoff.h whole: the steps of StealBackoff and  *)
(* the draws they make, next to the generators of its colleagues.  A pause *)
(* comes before an attempt, and only a pause draws.                        *)
(***************************************************************************)
EXTENDS StealBackoff, Xorshift

CONSTANT Self  \* the worker

ASSUME SelfAssumption == Self \in Worker

JitteredInit == Init /\ Seeded

\* Before the first attempt there is a pause if the window was kept.
CallPaused(a) ==
  /\ Call(a)
  /\ IF window' # 0 THEN Draw(Self) ELSE UNCHANGED generators

\* Before a further attempt there is always one.
AbortPaused ==
  /\ RecordAbort
  /\ IF call'.pc = "steal" THEN Draw(Self) ELSE UNCHANGED generators

\* begin_search() does not rewind the random sequence.
NoPause ==
  /\ BeginSearch \/ Replace \/ \E r \in Outcome : Settle(r)
  /\ UNCHANGED generators

\* Another worker's pause.
Colleague ==
  /\ \E w \in Worker \ {Self} : Draw(w)
  /\ UNCHANGED vars

JitteredNext == (\E a \in Address : CallPaused(a)) \/ AbortPaused \/ NoPause \/ Colleague

JitteredSpec == JitteredInit /\ [][JitteredNext]_<<vars, generators>>
=============================================================================
