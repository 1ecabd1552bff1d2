----------------------------- MODULE BufferPool -----------------------------
(***************************************************************************)
(* The shared buffer pool of src/buffer_pool.h: permanent records, each    *)
(* with one atomic ownership flag.  Claiming is one strong CAS per record  *)
(* of a size class, in record order; returning is one store.               *)
(***************************************************************************)
EXTENDS CircularArray

VARIABLE state  \* state[r]: the ownership flag of record r

Available == "available"
Owned == "owned"

poolVars == <<buf, state>>

\* ranges_[log_size]: the records of one size class, empty when there is none.
SizeClass(c) == {r \in Record : Capacity[r] = c}

PoolInit ==
  /\ buf = [r \in Record |-> FreshBuffer(Capacity[r])]
  /\ state = [r \in Record |-> Available]

\* The record a scan over the untried records of its class inspects next.
IsNext(r, untried) ==
  /\ r \in untried
  /\ \A s \in untried : r <= s

\* Faulty variant: the flag is set without having been compared.
ClaimUnchecked(r, previous) ==
  /\ state' = [state EXCEPT ![r] = Owned]
  /\ ResetAndLink(r, previous)

\* The CAS that succeeds, and the private reset of the claimed record; the
\* caller links it in front of previous (NoRecord for a deque's first buffer).
Claim(r, previous) ==
  /\ state[r] = Available
  /\ state' = [state EXCEPT ![r] = Owned]
  /\ ResetAndLink(r, previous)

\* The CAS that fails: nothing of the record is read or written.
ClaimFails(r) ==
  /\ state[r] # Available
  /\ UNCHANGED poolVars

\* The caller clears prev_ and gives the record back.
Release(r) ==
  /\ state' = [state EXCEPT ![r] = Available]
  /\ buf' = [buf EXCEPT ![r].prev = NoRecord]

PoolTypeOK ==
  /\ BufferTypeOK
  /\ state \in [Record -> {Available, Owned}]
=============================================================================
