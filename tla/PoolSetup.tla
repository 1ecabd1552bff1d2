----------------------------- MODULE PoolSetup -----------------------------
(***************************************************************************)
(* The constructor of the pool in src/buffer_pool.h: it checks the         *)
(* requested size classes, lays the records out class by class, and throws *)
(* for what it cannot provide.  BufferPool begins where it has returned:   *)
(* there SizeClass(c) is the range of records laid out for c.              *)
(***************************************************************************)
EXTENDS Integers, Sequences, FiniteSets

CONSTANTS
  SizeDigits,   \* binary digits of std::size_t
  IndexDigits,  \* binary digits of std::int64_t
  VectorMax,    \* max_size() of the vector of records
  Config        \* the sequences of [log_size, count] that callers ask for

ASSUME SetupAssumption ==
  /\ SizeDigits \in Nat /\ IndexDigits \in Nat
  /\ SizeDigits >= 2 /\ IndexDigits >= 2
  /\ VectorMax \in 0 .. 2 ^ SizeDigits - 1
  /\ Config \subseteq Seq([log_size: Nat, count: Nat])

SizeMax == 2 ^ SizeDigits - 1
MaxLogSize == IF SizeDigits < IndexDigits THEN SizeDigits - 2 ELSE IndexDigits - 2

VARIABLES
  config,          \* the argument
  pc, i,           \* where the constructor is, and the entry it is at
  total, largest,  \* largest_log_size
  ranges,          \* ranges_: a function on 0..largest
  records          \* records_: the log_size of each record

vars == <<config, pc, i, total, largest, ranges, records>>

NoRange == [begin |-> 1, count |-> 0]

Init ==
  /\ config \in Config
  /\ pc = IF config = <<>> THEN "invalid_argument" ELSE "check"
  /\ i = 1
  /\ total = 0 /\ largest = 0
  /\ ranges = <<>> /\ records = <<>>

Entry == config[i]

Rejected == Entry.count = 0 \/ Entry.log_size > MaxLogSize

\* Faulty variant: the sum is compared after it has wrapped around.
TooManyWrapped == (total + Entry.count) % (SizeMax + 1) > SizeMax

TooMany == Entry.count > SizeMax - total

CheckRejects ==
  /\ pc = "check" /\ i <= Len(config)
  /\ \/ Rejected /\ pc' = "invalid_argument"
     \/ ~Rejected /\ TooMany /\ pc' = "length_error"
  /\ UNCHANGED <<config, i, total, largest, ranges, records>>

CheckEntry ==
  /\ pc = "check" /\ i <= Len(config)
  /\ ~Rejected /\ ~TooMany
  /\ i' = i + 1
  /\ total' = (total + Entry.count) % (SizeMax + 1)
  /\ largest' = IF Entry.log_size > largest THEN Entry.log_size ELSE largest
  /\ UNCHANGED <<config, pc, ranges, records>>

\* ranges_ is sized, then reserve() throws if no vector is that long.
Reserve ==
  /\ pc = "check" /\ i > Len(config)
  /\ pc' = IF total > VectorMax THEN "length_error" ELSE "lay"
  /\ i' = 1
  /\ ranges' = [log \in 0..largest |-> NoRange]
  /\ UNCHANGED <<config, total, largest, records>>

LayRejects ==
  /\ pc = "lay" /\ i <= Len(config)
  /\ ranges[Entry.log_size].count # 0
  /\ pc' = "invalid_argument"
  /\ UNCHANGED <<config, i, total, largest, ranges, records>>

\* Faulty variant: the range begins behind the records of its class.
BeginLate == Len(records') + 1

\* Positions count from 1 here.
Begin == Len(records) + 1

\* One class: its range, and a new record for each of its count.
LayEntry ==
  /\ pc = "lay" /\ i <= Len(config)
  /\ ranges[Entry.log_size].count = 0
  /\ i' = i + 1
  /\ records' = records \o [k \in 1..Entry.count |-> Entry.log_size]
  /\ ranges' = [ranges EXCEPT ![Entry.log_size] =
                  [begin |-> Begin, count |-> Entry.count]]
  /\ UNCHANGED <<config, pc, total, largest>>

Return ==
  /\ pc = "lay" /\ i > Len(config)
  /\ pc' = "built"
  /\ UNCHANGED <<config, i, total, largest, ranges, records>>

Next == CheckRejects \/ CheckEntry \/ Reserve \/ LayRejects \/ LayEntry \/ Return

Spec == Init /\ [][Next]_vars

\* try_acquire(log_size): the records it inspects.
Scanned(log_size) ==
  IF log_size \notin DOMAIN ranges THEN {}
  ELSE LET range == ranges[log_size] IN range.begin .. range.begin + range.count - 1
-----------------------------------------------------------------------------
WellFormed ==
  /\ config # <<>>
  /\ \A k \in DOMAIN config : config[k].count > 0 /\ config[k].log_size <= MaxLogSize
  /\ \A j, k \in DOMAIN config : config[j].log_size = config[k].log_size => j = k

\* The records that the first n entries ask for: their number is the sum of the
\* counts, which no size_t may hold.
Asked(n) == UNION {{k} \X (1..config[k].count) : k \in 1..n}
Requested == Cardinality(Asked(Len(config)))

\* The pool is built exactly for a well-formed request that fits, however the
\* counts add up modulo 2 ^ 64; otherwise the exception names a real reason.
BuiltIffPossible ==
  /\ pc = "built" => WellFormed /\ Requested <= VectorMax
  /\ pc = "invalid_argument" => ~WellFormed
  /\ pc = "length_error" => Requested > VectorMax

\* Of a pool that was built, try_acquire() scans all records of the class asked
\* for and no other, for any argument.
RangesAreSizeClasses ==
  pc = "built" =>
    /\ Len(records) = Requested
    /\ \A log_size \in 0 .. MaxLogSize + 1 :
         Scanned(log_size) = {r \in DOMAIN records : records[r] = log_size}
=============================================================================
