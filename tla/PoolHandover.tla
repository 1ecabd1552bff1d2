---------------------------- MODULE PoolHandover ----------------------------
(***************************************************************************)
(* The memory orders by which a record of the pool of src/buffer_pool.h    *)
(* passes from owner to owner while thieves still hold its address.        *)
(*                                                                         *)
(* knows[x] is the set of events that happen before the next step of the   *)
(* thread x.  A release store leaves what its thread knows with the value  *)
(* it writes, an acquire read takes it up; a relaxed access does neither.  *)
(* The flag is written by release stores and acquire CASes, slots and      *)
(* active_array_ by seq_cst accesses, which release and acquire.           *)
(* low_water_mark_ and prev_ are plain: two accesses of which neither      *)
(* happens before the other are a data race, and undefined behaviour.      *)
(*                                                                         *)
(* One record is enough: a handover involves no other.  A use of it lasts  *)
(* from a claim to the return.                                             *)
(***************************************************************************)
EXTENDS Integers

CONSTANTS
  Owner,   \* the owner threads of the deques that share the pool
  Thief,
  MaxUses  \* bound: how often the record is claimed

ASSUME HandoverAssumption ==
  /\ MaxUses \in Nat
  /\ Owner \cap Thief = {}

NoUse == 0

VARIABLES
  claims,    \* number of the latest use
  flag,      \* the record's state: [owned, known]
  slot,      \* its slots: the use that wrote the latest value, and [known]
  active,    \* active_array_ of the deque in whose use it is: the use, [known]
  owner,     \* owner[o]: [pc, use]
  thief,     \* thief[p]: [pc, use, read]: the use in which it found the
             \* record, and the use that wrote the value it read
  accesses,  \* the events of plain accesses to the metadata so far
  knows

vars == <<claims, flag, slot, active, owner, thief, accesses, knows>>

\* Events of a use: accesses to the metadata, and the end of the claims of
\* thieves that found the record in that use.
Reset(u) == <<"reset", u>>
Link(u) == <<"link", u>>
Unlink(u) == <<"unlink", u>>
Invalidation(u) == <<"invalidation", u>>

Resting == [pc |-> "idle", use |-> NoUse]
Roaming == [pc |-> "idle", use |-> NoUse, read |-> NoUse]

\* The pool is built before any thread starts.
Init ==
  /\ claims = 0
  /\ flag = [owned |-> FALSE, known |-> {}]
  /\ slot = [use |-> NoUse, known |-> {}]
  /\ active = [use |-> NoUse, known |-> {}]
  /\ owner = [o \in Owner |-> Resting]
  /\ thief = [p \in Thief |-> Roaming]
  /\ accesses = {}
  /\ knows = [x \in Owner \cup Thief |-> {}]

Learns(x, events) == knows' = [knows EXCEPT ![x] = @ \cup events]

\* Faulty variant: the CAS is relaxed.
AcquiredRelaxed(known) == {}

\* What the CAS of a claim takes up from the flag.
Acquired(known) == known

-----------------------------------------------------------------------------
\* try_acquire(): the CAS, then reset_for_reuse().  A claim that fails has read
\* the flag by a relaxed load and touches nothing.
Claim(o) ==
  /\ owner[o].pc = "idle" /\ claims < MaxUses
  /\ ~flag.owned
  /\ claims' = claims + 1
  /\ flag' = [flag EXCEPT !.owned = TRUE]
  /\ owner' = [owner EXCEPT ![o] = [pc |-> "claimed", use |-> claims + 1]]
  /\ Learns(o, Acquired(flag.known) \cup {Reset(claims + 1)})
  /\ accesses' = accesses \cup {Reset(claims + 1)}
  /\ UNCHANGED <<slot, active, thief>>

\* A push, a growth into the record or a shrink back to it: it is linked or its
\* mark lowered, and slots are written.
Write(o) ==
  /\ owner[o].pc \in {"claimed", "written", "published", "unpublished"}
  /\ owner' = [owner EXCEPT ![o].pc = IF @ = "claimed" THEN "written" ELSE @]
  /\ Learns(o, {Link(owner[o].use)})
  /\ accesses' = accesses \cup {Link(owner[o].use)}
  /\ slot' = [use |-> owner[o].use, known |-> knows[o] \cup {Link(owner[o].use)}]
  /\ UNCHANGED <<claims, flag, active, thief>>

\* The record becomes the active array; a first buffer, which is that from the
\* start, becomes of interest to thieves by the first store of bottom_.
Publish(o) ==
  /\ owner[o].pc \in {"written", "unpublished"}
  /\ owner' = [owner EXCEPT ![o].pc = "published"]
  /\ active' = [use |-> owner[o].use, known |-> knows[o]]
  /\ UNCHANGED <<claims, flag, slot, thief, accesses, knows>>

\* A growth or a shrink makes another array the active one.
Unpublish(o) ==
  /\ owner[o].pc = "published"
  /\ owner' = [owner EXCEPT ![o].pc = "unpublished"]
  /\ active' = [active EXCEPT !.use = NoUse]
  /\ UNCHANGED <<claims, flag, slot, thief, accesses, knows>>

\* The CAS on top_, or the restored bottom_ after it has failed: no claim of a
\* thief succeeds any more that found the discarded array.
Invalidate(o) ==
  /\ owner[o].pc = "unpublished"
  /\ owner' = [owner EXCEPT ![o].pc = "invalidated"]
  /\ Learns(o, {Invalidation(owner[o].use)})
  /\ UNCHANGED <<claims, flag, slot, active, thief, accesses>>

\* Faulty variant: arrays are returned before the indices are moved.
MayReturnEarly(o) == owner[o].pc \in {"unpublished", "invalidated"}

\* The end of a shrink, or a destructor, whose deque no thief uses any more.
MayReturn(o) ==
  \/ owner[o].pc = "invalidated"
  \/ owner[o].pc # "idle" /\ \A p \in Thief : thief[p].use # owner[o].use

\* prev_ is cleared, then the flag.
Release(o) ==
  /\ MayReturn(o)
  /\ owner' = [owner EXCEPT ![o] = Resting]
  /\ Learns(o, {Unlink(owner[o].use)})
  /\ accesses' = accesses \cup {Unlink(owner[o].use)}
  /\ flag' = [owned |-> FALSE, known |-> knows[o] \cup {Unlink(owner[o].use)}]
  /\ active' = [active EXCEPT !.use = NoUse]
  /\ UNCHANGED <<claims, slot, thief>>

-----------------------------------------------------------------------------
\* A thief finds the record as the active array of a deque.
StealReadArray(p) ==
  /\ thief[p].pc = "idle" /\ active.use # NoUse
  /\ thief' = [thief EXCEPT ![p] = [pc |-> "found", use |-> active.use, read |-> NoUse]]
  /\ Learns(p, active.known)
  /\ UNCHANGED <<claims, flag, slot, active, owner, accesses>>

\* The speculative read, of whatever the record's slots hold now.
StealReadSlot(p) ==
  /\ thief[p].pc = "found"
  /\ thief' = [thief EXCEPT ![p].pc = "read", ![p].read = slot.use]
  /\ Learns(p, slot.known)
  /\ UNCHANGED <<claims, flag, slot, active, owner, accesses>>

\* The CAS on top_, with either outcome; or a return without it.
StealReturns(p) ==
  /\ thief[p].pc \in {"found", "read"}
  /\ thief' = [thief EXCEPT ![p] = Roaming]
  /\ UNCHANGED <<claims, flag, slot, active, owner, accesses, knows>>

OwnerStep(o) ==
  Claim(o) \/ Write(o) \/ Publish(o) \/ Unpublish(o) \/ Invalidate(o) \/ Release(o)

ThiefStep(p) == StealReadArray(p) \/ StealReadSlot(p) \/ StealReturns(p)

Next == (\E o \in Owner : OwnerStep(o)) \/ (\E p \in Thief : ThiefStep(p))

Spec == Init /\ [][Next]_vars
-----------------------------------------------------------------------------
\* The metadata has no data race: all accesses to it so far happen before
\* whatever its present holder does, though the fields are plain and the
\* holders know of each other only through the flag.
MetadataRaceFree ==
  \A o \in Owner : owner[o].pc # "idle" => accesses \subseteq knows[o]

\* A thief that read a value written in a later use of the record than the one
\* in which it found it knows that its claim was invalidated: the flag and the
\* slot carry the owner's invalidation to the borrower and on to the thief,
\* before its own CAS on top_.
ForeignValueIsKnownStale ==
  \A p \in Thief :
    thief[p].pc = "read" /\ thief[p].read # thief[p].use =>
      Invalidation(thief[p].use) \in knows[p]
=============================================================================
