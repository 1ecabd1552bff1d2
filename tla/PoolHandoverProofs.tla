------------------------- MODULE PoolHandoverProofs -------------------------
(***************************************************************************)
(* The handover of a record keeps its metadata free of data races and      *)
(* tells thieves that their claims have ended, for any number of owners,   *)
(* thieves and uses.                                                       *)
(***************************************************************************)
EXTENDS PoolHandover, TLAPS

Event == {"reset", "link", "unlink", "invalidation"} \X Nat

HandoverType ==
  /\ claims \in Nat
  /\ flag \in [owned: BOOLEAN, known: SUBSET Event]
  /\ slot \in [use: Nat, known: SUBSET Event]
  /\ active \in [use: Nat, known: SUBSET Event]
  /\ owner \in [Owner -> [pc: {"idle", "claimed", "written", "published",
                              "unpublished", "invalidated"}, use: Nat]]
  /\ thief \in [Thief -> [pc: {"idle", "found", "read"}, use: Nat, read: Nat]]
  /\ accesses \in SUBSET Event
  /\ knows \in [Owner \cup Thief -> SUBSET Event]

Holds(o) == owner[o].pc # "idle"

\* The record is held by one owner, in the latest use.
OneHolder ==
  /\ \A o \in Owner : Holds(o) => flag.owned /\ owner[o].use = claims
  /\ \A o, q \in Owner : Holds(o) /\ Holds(q) => o = q
  /\ \A o \in Owner :
       /\ owner[o].pc \in {"written", "published", "unpublished", "invalidated"} =>
            slot.use = claims
       /\ owner[o].pc = "invalidated" => Invalidation(claims) \in knows[o]
  /\ active.use # NoUse =>
       active.use = claims /\ \E o \in Owner : owner[o].pc = "published"
  /\ slot.use \in 0..claims

\* What has to be known is known to the holder or left with the flag.
Carried(events) ==
  /\ ~flag.owned => events \subseteq flag.known
  /\ \A o \in Owner : Holds(o) => events \subseteq knows[o]

\* The end of p's claim is carried along after the use in which it began, and
\* left with every value written later.
ClaimEnds(p) ==
  LET u == thief[p].use IN
  thief[p].pc # "idle" =>
    /\ u \in 1..claims /\ u <= slot.use
    /\ u < claims \/ ~flag.owned => Carried({Invalidation(u)})
    /\ u < slot.use => Invalidation(u) \in slot.known
    /\ thief[p].pc = "read" /\ thief[p].read # u => Invalidation(u) \in knows[p]

HandoverInv ==
  /\ HandoverType
  /\ \A p \in Thief : thief[p].pc = "idle" => thief[p].use = NoUse
  /\ OneHolder
  /\ Carried(accesses)
  /\ \A p \in Thief : ClaimEnds(p)

\* Before the first claim no access and no message was made.
LEMMA HandoverInit == Init => HandoverInv
PROOF
<1> QED BY DEF Init, HandoverInv, HandoverType, OneHolder, Carried, ClaimEnds, Holds, Resting, Roaming, NoUse

USE DEF NoUse

\* A claim learns what the last return has published.
LEMMA ClaimKeeps ==
  ASSUME HandoverInv, NEW o \in Owner, Claim(o) PROVE HandoverInv'
PROOF
<1> USE HandoverAssumption DEF HandoverInv, Claim, Learns, Acquired, Holds
<1>0. HandoverType'
  <2>1. claims + 1 \in Nat /\ Reset(claims + 1) \in Event
    BY DEF HandoverType, Reset, Event
  <2>2. flag.known \cup {Reset(claims + 1)} \in SUBSET Event
    BY <2>1 DEF HandoverType
  <2>3. knows' \in [Owner \cup Thief -> SUBSET Event]
    BY <2>2 DEF HandoverType
  <2>4. owner' \in [Owner -> [pc: {"idle", "claimed", "written", "published",
                                  "unpublished", "invalidated"}, use: Nat]]
    BY <2>1 DEF HandoverType
  <2> QED BY <2>1, <2>3, <2>4 DEF HandoverType
<1>1. OneHolder'  BY DEF HandoverType, OneHolder, Invalidation, Reset
<1>2. Carried(accesses)'  BY DEF HandoverType, OneHolder, Carried
<1>3. \A p \in Thief : ClaimEnds(p)'  BY DEF HandoverType, OneHolder, Carried, ClaimEnds
<1> QED BY <1>0, <1>1, <1>2, <1>3

\* A link or a lower mark comes after all earlier accesses to the metadata.
LEMMA WriteKeeps ==
  ASSUME HandoverInv, NEW o \in Owner, Write(o) PROVE HandoverInv'
PROOF
<1> USE HandoverAssumption DEF HandoverInv, Write, Learns, Holds
<1>0. HandoverType'  BY DEF HandoverType, OneHolder, Reset, Link, Unlink, Invalidation, Event
<1>1. OneHolder'  BY DEF HandoverType, OneHolder
<1>2. Carried(accesses)'  BY DEF HandoverType, OneHolder, Carried
<1>3. \A p \in Thief : ClaimEnds(p)'  BY DEF HandoverType, OneHolder, Carried, ClaimEnds
<1> QED BY <1>0, <1>1, <1>2, <1>3

\* Publishing and
LEMMA PublishKeeps ==
  ASSUME HandoverInv, NEW o \in Owner, Publish(o) PROVE HandoverInv'
PROOF
<1> USE HandoverAssumption DEF HandoverInv, Publish, Holds
<1>0. HandoverType'  BY DEF HandoverType, OneHolder, Reset, Link, Unlink, Invalidation, Event
<1>1. OneHolder'  BY DEF HandoverType, OneHolder
<1>2. Carried(accesses)'  BY DEF HandoverType, OneHolder, Carried
<1>3. \A q \in Thief : ClaimEnds(q)'  BY DEF HandoverType, OneHolder, Carried, ClaimEnds
<1> QED BY <1>0, <1>1, <1>2, <1>3

\* replacing the array touch no metadata.
LEMMA UnpublishKeeps ==
  ASSUME HandoverInv, NEW o \in Owner, Unpublish(o) PROVE HandoverInv'
PROOF
<1> USE HandoverAssumption DEF HandoverInv, Unpublish, Holds
<1>0. HandoverType'  BY DEF HandoverType, OneHolder, Reset, Link, Unlink, Invalidation, Event
<1>1. OneHolder'  BY DEF HandoverType, OneHolder
<1>2. Carried(accesses)'  BY DEF HandoverType, OneHolder, Carried
<1>3. \A q \in Thief : ClaimEnds(q)'  BY DEF HandoverType, OneHolder, Carried, ClaimEnds
<1> QED BY <1>0, <1>1, <1>2, <1>3

\* The invalidation of the claims precedes the return,
LEMMA InvalidateKeeps ==
  ASSUME HandoverInv, NEW o \in Owner, Invalidate(o) PROVE HandoverInv'
PROOF
<1> USE HandoverAssumption DEF HandoverInv, Invalidate, Learns, Holds
<1>0. HandoverType'  BY DEF HandoverType, OneHolder, Reset, Link, Unlink, Invalidation, Event
<1>1. OneHolder'  BY DEF HandoverType, OneHolder
<1>2. Carried(accesses)'  BY DEF HandoverType, OneHolder, Carried
<1>3. \A p \in Thief : ClaimEnds(p)'  BY DEF HandoverType, OneHolder, Carried, ClaimEnds
<1> QED BY <1>0, <1>1, <1>2, <1>3

\* Thieves that found the record in this use either have lost their claim to
\* the invalidation or do not exist.
LEMMA ReleaseKeeps ==
  ASSUME HandoverInv, NEW o \in Owner, Release(o) PROVE HandoverInv'
PROOF
<1> USE HandoverAssumption DEF HandoverInv, Release, MayReturn, Learns, Holds, Resting
<1>0. HandoverType'  BY DEF HandoverType, OneHolder, Reset, Link, Unlink, Invalidation, Event
<1>1. OneHolder'  BY DEF HandoverType, OneHolder
<1>2. Carried(accesses)'  BY DEF HandoverType, OneHolder, Carried
<1>3. ASSUME NEW p \in Thief PROVE ClaimEnds(p)'
  <2>1. CASE owner[o].pc = "invalidated"
    BY <2>1 DEF HandoverType, OneHolder, Carried, ClaimEnds
  <2>2. CASE \A q \in Thief : thief[q].use # owner[o].use
    BY <2>2 DEF HandoverType, OneHolder, Carried, ClaimEnds
  <2> QED BY <2>1, <2>2
<1> QED BY <1>0, <1>1, <1>2, <1>3

\* a thief takes the address of the record while it is published,
LEMMA ReadArrayKeeps ==
  ASSUME HandoverInv, NEW p \in Thief, StealReadArray(p) PROVE HandoverInv'
PROOF
<1> USE HandoverAssumption DEF HandoverInv, StealReadArray, Learns, Holds
<1>0. HandoverType'  BY DEF HandoverType, OneHolder, Reset, Link, Unlink, Invalidation, Event
<1>1. OneHolder'  BY DEF HandoverType, OneHolder
<1>2. Carried(accesses)'  BY DEF HandoverType, OneHolder, Carried
<1>3. \A q \in Thief : ClaimEnds(q)'  BY DEF HandoverType, OneHolder, Carried, ClaimEnds
<1> QED BY <1>0, <1>1, <1>2, <1>3

\* reads a slot of it however late,
LEMMA ReadSlotKeeps ==
  ASSUME HandoverInv, NEW p \in Thief, StealReadSlot(p) PROVE HandoverInv'
PROOF
<1> USE HandoverAssumption DEF HandoverInv, StealReadSlot, Learns, Holds
<1>6. [thief[p] EXCEPT !.pc = "read", !.read = slot.use]
        \in [pc: {"idle", "found", "read"}, use: Nat, read: Nat]
  BY DEF HandoverType
<1>7. thief' = [thief EXCEPT ![p] = [thief[p] EXCEPT !.pc = "read", !.read = slot.use]]
  BY DEF HandoverType
<1>4. thief' \in [Thief -> [pc: {"idle", "found", "read"}, use: Nat, read: Nat]]
  BY <1>6, <1>7 DEF HandoverType
<1>5. knows' \in [Owner \cup Thief -> SUBSET Event]
  BY DEF HandoverType
<1>0. HandoverType'  BY <1>4, <1>5 DEF HandoverType
<1>1. OneHolder'  BY DEF HandoverType, OneHolder
<1>2. Carried(accesses)'  BY DEF HandoverType, OneHolder, Carried
<1>3. \A q \in Thief : ClaimEnds(q)'  BY DEF HandoverType, OneHolder, Carried, ClaimEnds
<1> QED BY <1>0, <1>1, <1>2, <1>3 DEF HandoverType

\* and forgets it when its call returns.
LEMMA ReturnKeeps ==
  ASSUME HandoverInv, NEW p \in Thief, StealReturns(p) PROVE HandoverInv'
PROOF
<1> USE HandoverAssumption DEF HandoverInv, StealReturns, Roaming, Holds
<1>0. HandoverType'  BY DEF HandoverType, OneHolder, Reset, Link, Unlink, Invalidation, Event
<1>1. OneHolder'  BY DEF HandoverType, OneHolder
<1>2. Carried(accesses)'  BY DEF HandoverType, OneHolder, Carried
<1>3. \A q \in Thief : ClaimEnds(q)'  BY DEF HandoverType, OneHolder, Carried, ClaimEnds
<1> QED BY <1>0, <1>1, <1>2, <1>3

\* Claims, writes, switches, returns and steals by any number of threads keep
\* one holder per record and carry all that must be known along with it.
THEOREM HandoverKept == Spec => []HandoverInv
PROOF
<1>1. HandoverInv /\ [Next]_vars => HandoverInv'
  <2>1. ASSUME HandoverInv, UNCHANGED vars PROVE HandoverInv'
    BY <2>1 DEF HandoverInv, HandoverType, OneHolder, Carried, ClaimEnds, Holds, vars
  <2> QED
    BY <2>1, ClaimKeeps, WriteKeeps, PublishKeeps, UnpublishKeeps, InvalidateKeeps,
       ReleaseKeeps, ReadArrayKeeps, ReadSlotKeeps, ReturnKeeps
    DEF Next, OwnerStep, ThiefStep
<1> QED BY <1>1, HandoverInit, PTL DEF Spec

\* No two owners race on low_water_mark_ and prev_: the acquire CAS of a claim
\* takes up all that the release store of the return has left.
THEOREM NoMetadataRace == Spec => []MetadataRaceFree
PROOF
<1>1. HandoverInv => MetadataRaceFree
  BY DEF HandoverInv, Carried, MetadataRaceFree, Holds
<1> QED BY <1>1, HandoverKept, PTL

\* The comment at release(): a thief that reads a borrower's slot write has
\* acquired the invalidation of its claim.
THEOREM StaleClaimKnown == Spec => []ForeignValueIsKnownStale
PROOF
<1>1. HandoverInv => ForeignValueIsKnownStale
  BY DEF HandoverInv, ClaimEnds, ForeignValueIsKnownStale
<1> QED BY <1>1, HandoverKept, PTL
=============================================================================
