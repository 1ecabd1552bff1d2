--------------------------- MODULE AbstractDeque ---------------------------
(***************************************************************************)
(* What the deques of WorkStealingDeque, and the baseline of MutexDeque,   *)
(* promise their clients.  An open deque is a sequence of items: a push    *)
(* appends, a steal takes the first item, a pop takes the last one.  A pop *)
(* takes effect in two parts: it reserves the last item, and from then on  *)
(* either gets it or, when no other item waits, loses it to a steal.       *)
(*                                                                         *)
(* There are no buffers, indices or arrays here: growing, shrinking,       *)
(* failed claims and stale reads are steps that change nothing.            *)
(***************************************************************************)
EXTENDS Naturals, Sequences

CONSTANTS
  Deque,
  Value    \* contains every item: <<d, k>> is the k-th push into d

VARIABLES
  open,       \* open[d]: d is constructed
  queue,      \* queue[d]: the items waiting in d, oldest first
  reserved,   \* reserved[d]: the items (at most one) a pop of d has reserved
  committed,  \* committed[d]: no steal can get the reserved item any more
  accepted,   \* accepted[d]: pushes into d
  taken       \* taken[d][v]: how often a call on d returned v

vars == <<open, queue, reserved, committed, accepted, taken>>

Init ==
  /\ open = [d \in Deque |-> FALSE]
  /\ queue = [d \in Deque |-> <<>>]
  /\ reserved = [d \in Deque |-> {}]
  /\ committed = [d \in Deque |-> FALSE]
  /\ accepted = [d \in Deque |-> 0]
  /\ taken = [d \in Deque |-> [v \in Value |-> 0]]

Open(d) ==
  /\ ~open[d]
  /\ open' = [open EXCEPT ![d] = TRUE]
  /\ UNCHANGED <<queue, reserved, committed, accepted, taken>>

\* The items still waiting are dropped.
Close(d) ==
  /\ open[d] /\ reserved[d] = {}
  /\ open' = [open EXCEPT ![d] = FALSE]
  /\ queue' = [queue EXCEPT ![d] = <<>>]
  /\ UNCHANGED <<reserved, committed, accepted, taken>>

Push(d) ==
  /\ open[d] /\ reserved[d] = {}
  /\ accepted' = [accepted EXCEPT ![d] = @ + 1]
  /\ queue' = [queue EXCEPT ![d] = Append(@, <<d, accepted[d] + 1>>)]
  /\ UNCHANGED <<open, reserved, committed, taken>>

Reserve(d) ==
  /\ queue[d] # <<>> /\ reserved[d] = {}
  /\ reserved' = [reserved EXCEPT ![d] = {queue[d][Len(queue[d])]}]
  /\ queue' = [queue EXCEPT ![d] = SubSeq(@, 1, Len(@) - 1)]
  /\ UNCHANGED <<open, committed, accepted, taken>>

Commit(d) ==
  /\ reserved[d] # {}
  /\ committed' = [committed EXCEPT ![d] = TRUE]
  /\ UNCHANGED <<open, queue, reserved, accepted, taken>>

\* The pop returns the item it reserved.
TakeReserved(d) ==
  /\ \E v \in reserved[d] : taken' = [taken EXCEPT ![d][v] = @ + 1]
  /\ reserved' = [reserved EXCEPT ![d] = {}]
  /\ committed' = [committed EXCEPT ![d] = FALSE]
  /\ UNCHANGED <<open, queue, accepted>>

StealFirst(d) ==
  /\ queue[d] # <<>>
  /\ taken' = [taken EXCEPT ![d][Head(queue[d])] = @ + 1]
  /\ queue' = [queue EXCEPT ![d] = Tail(@)]
  /\ UNCHANGED <<open, reserved, committed, accepted>>

StealReserved(d) ==
  /\ queue[d] = <<>> /\ ~committed[d]
  /\ \E v \in reserved[d] : taken' = [taken EXCEPT ![d][v] = @ + 1]
  /\ reserved' = [reserved EXCEPT ![d] = {}]
  /\ UNCHANGED <<open, queue, committed, accepted>>

Next ==
  \E d \in Deque :
    \/ Open(d) \/ Close(d) \/ Push(d)
    \/ Reserve(d) \/ Commit(d) \/ TakeReserved(d)
    \/ StealFirst(d) \/ StealReserved(d)

Spec == Init /\ [][Next]_vars
=============================================================================
