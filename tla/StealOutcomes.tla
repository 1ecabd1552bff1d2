--------------------------- MODULE StealOutcomes ---------------------------
(***************************************************************************)
(* What the results EMPTY and ABORT of steal() tell the caller, with a     *)
(* history variable that records, for each thief's current or last call,   *)
(* what happened to the deque meanwhile.                                   *)
(***************************************************************************)
EXTENDS DequeInvariants

VARIABLE witnessed  \* witnessed[p] = [empty, moved, switches] of p's last call

\* More than SwitchBound switches of the array in one call count as that many.
SwitchBound == 2

NothingSeen == [empty |-> FALSE, moved |-> FALSE, switches |-> 0]

EmptyDeques == {d \in Deque : Window(d) = {}}

\* What the call of p saw before this step, and in the state it leads to.
Seen(d, before) ==
  [empty |-> before.empty \/ d \in EmptyDeques',
   moved |-> before.moved \/ top'[d] # top[d],
   switches |-> IF active'[d] # active[d] /\ before.switches < SwitchBound
                THEN before.switches + 1
                ELSE before.switches]

Observe ==
  witnessed' = [p \in Thief |->
    CASE thief[p].pc = "idle" /\ thief'[p].pc = "idle" -> witnessed[p]
      [] thief[p].pc = "idle" /\ thief'[p].pc # "idle" -> Seen(thief'[p].d, NothingSeen)
      [] thief[p].pc # "idle" -> Seen(thief[p].d, witnessed[p])]

OutcomeInit == Init /\ witnessed = [p \in Thief |-> NothingSeen]
OutcomeNext == Next /\ Observe
OutcomeSpec == OutcomeInit /\ [][OutcomeNext]_<<vars, witnessed>>

Returned(p, result) == thief[p].pc = "idle" /\ thief[p].res = result

\* EMPTY is genuine: at some moment of the call no item waited in the deque.
EmptyIsGenuine ==
  \A p \in Thief : Returned(p, "EMPTY") => witnessed[p].empty

\* The code keeps this much of it: an EMPTY that is not genuine takes a
\* growth and a shrink back to the same array within one call.
EmptyIsGenuineUnlessSwitchedBack ==
  \A p \in Thief : Returned(p, "EMPTY") => witnessed[p].empty \/ witnessed[p].switches >= 2

\* ABORT means that another thread made progress during the call: top_ moved
\* (an item was taken, or a shrink invalidated the claims) or the owner grew
\* or shrank the deque.  No steal is turned away by a thread that is stopped.
AbortMeansProgress ==
  \A p \in Thief : Returned(p, "ABORT") => witnessed[p].moved \/ witnessed[p].switches >= 1
-----------------------------------------------------------------------------
(* The inductive invariant behind the two properties: what a call in       *)
(* progress has seen, as far as its snapshots tell.                        *)

SawType == [empty: BOOLEAN, moved: BOOLEAN, switches: 0..SwitchBound]

\* bottom_ was not past top_, or ahead of it by a multiple of the capacity of
\* the array that was active before and has not been replaced and put back.
LooksEmpty(h) ==
  \/ h.b <= h.t
  \/ h.old = active[h.d] /\ h.t = top[h.d] /\ Ambiguous(h.b - h.t, h.old)

CallSaw(h, s) ==
  /\ h.t = top[h.d] \/ s.moved
  /\ h.pc # "old" => h.old = active[h.d] \/ s.switches >= 1
  /\ h.pc \in {"recheck", "slot", "cas"} => h.a = active[h.d] \/ s.switches >= 1
  /\ h.pc = "array" /\ LooksEmpty(h) => s.empty \/ s.switches >= 2
  /\ h.pc = "recheck" /\ SnapshotsAgree(h) => s.empty \/ s.switches >= 2

\* Stale snapshots prove that the deque moved on during the call, and fresh
\* ones that look empty prove that it was empty at some moment of the call.
OutcomeInv ==
  /\ witnessed \in [Thief -> SawType]
  /\ \A p \in Thief : thief[p].pc # "idle" => CallSaw(thief[p], witnessed[p])
  /\ EmptyIsGenuineUnlessSwitchedBack /\ AbortMeansProgress
=============================================================================
