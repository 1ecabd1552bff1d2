-------------------------- MODULE PoolSetupProofs --------------------------
(***************************************************************************)
(* Theorems about PoolSetup for every request and every width of the       *)
(* integers: SetupInv is inductive.  While the entries are checked, the    *)
(* total is the number of records asked for so far, which never wraps      *)
(* around; while they are laid out, each class laid out has its range, and *)
(* the other classes have none and no records.                             *)
(***************************************************************************)
EXTENDS PoolSetup, FiniteSetTheorems, TLAPS

\* The first n entries passed the checks.
Passed(n) == \A k \in 1..n : config[k].count > 0 /\ config[k].log_size <= largest

Distinct(n) == \A j, k \in 1..n : config[j].log_size = config[k].log_size => j = k

InRange(r, log) == ranges[log].begin <= r /\ r < ranges[log].begin + ranges[log].count

\* The records of the first n entries are laid out.
Laid(n) ==
  /\ ranges \in [0..largest -> [begin: Nat, count: Nat]] /\ records \in Seq(0..largest)
  /\ Len(records) = Cardinality(Asked(n)) /\ Distinct(n)
  /\ \A log \in 0..largest :
       /\ ranges[log].count # 0 <=> \E k \in 1..n : config[k].log_size = log
       /\ \A r \in Int : InRange(r, log) <=> r \in 1..Len(records) /\ records[r] = log

SetupType ==
  /\ config \in Seq([log_size: Nat, count: Nat])
  /\ i \in 1 .. Len(config) + 1 /\ total \in Nat /\ largest \in 0..MaxLogSize
  /\ pc \in {"check", "lay", "built", "invalid_argument", "length_error"}

SetupInv ==
  /\ SetupType
  /\ pc \in {"check", "lay", "built"} => config # <<>>
  /\ pc = "check" => total = Cardinality(Asked(i - 1)) /\ total <= SizeMax /\ Passed(i - 1)
                  /\ records = <<>>
  /\ pc \in {"lay", "built"} =>
       Passed(Len(config)) /\ Requested <= VectorMax
       /\ Laid(IF pc = "lay" THEN i - 1 ELSE Len(config))
  /\ pc = "invalid_argument" => ~WellFormed
  /\ pc = "length_error" => Requested > VectorMax

-----------------------------------------------------------------------------
(* The widths, and the number of records asked for.                        *)

\* A size_t holds some numbers, and the lengths of vectors are among them.
LEMMA Widths ==
  /\ SizeMax \in Nat /\ VectorMax \in Nat /\ VectorMax <= SizeMax
  /\ MaxLogSize \in Nat
<1>1. 2 ^ SizeDigits \in Int
  BY SetupAssumption
<1> QED BY <1>1, SetupAssumption DEF SizeMax, MaxLogSize

\* A sequence and its elements.
LEMMA Elements ==
  ASSUME NEW S, NEW s \in Seq(S)
  PROVE  Len(s) \in Nat /\ DOMAIN s = 1..Len(s) /\ \A k \in 1..Len(s) : s[k] \in S
OBVIOUS

\* The entries of a request.
LEMMA Entries ==
  ASSUME config \in Seq([log_size: Nat, count: Nat])
  PROVE  /\ Len(config) \in Nat /\ DOMAIN config = 1..Len(config)
         /\ \A k \in 1..Len(config) : config[k].log_size \in Nat /\ config[k].count \in Nat
<1> DEFINE S == [log_size: Nat, count: Nat]
<1>1. Len(config) \in Nat /\ DOMAIN config = 1..Len(config) /\ \A k \in 1..Len(config) : config[k] \in S
  <2>1. config \in Seq(S)
    OBVIOUS
  <2> HIDE DEF S
  <2> QED BY <2>1, Elements
<1> QED BY <1>1

\* A sum that a size_t holds is not reduced.
LEMMA NoWrap ==
  ASSUME NEW m \in Nat, NEW x \in Nat, x <= m
  PROVE  x % (m + 1) = x
OBVIOUS

\* The numbers up to c.
LEMMA UpTo ==
  ASSUME NEW c \in Nat
  PROVE  IsFiniteSet(1..c) /\ Cardinality(1..c) = c
<1>1. 1 \in Int /\ c \in Int
  OBVIOUS
<1>2. IsFiniteSet(1..c) /\ Cardinality(1..c) = IF 1 > c THEN 0 ELSE c - 1 + 1
  BY <1>1, FS_Interval, Zenon
<1> QED BY <1>2

\* Any number of entries asks for finitely many records, and fewer entries do
\* not ask for more.
LEMMA AskedFinite ==
  ASSUME config \in Seq([log_size: Nat, count: Nat])
  PROVE  /\ \A n \in 0..Len(config) : IsFiniteSet(Asked(n)) /\ Cardinality(Asked(n)) \in Nat
         /\ \A m \in 0..Len(config) : Cardinality(Asked(m)) <= Requested
<1>1. ASSUME NEW n \in 0..Len(config)  PROVE IsFiniteSet(Asked(n))
  <2> DEFINE part(k) == {k} \X (1..config[k].count)
             parts == [k \in 1..n |-> part(k)]
             image == {part(k) : k \in 1..n}
  <2>1. IsFiniteSet(1..n)
    BY UpTo
  <2>2. parts \in Surjection(1..n, image)
    BY DEF Surjection
  <2>3. IsFiniteSet(image)
    <3> HIDE DEF parts, image
    <3> QED BY <2>1, <2>2, FS_Surjection
  <2>4. ASSUME NEW k \in 1..n  PROVE IsFiniteSet(part(k))
    <3>1. config[k].count \in Nat
      BY <2>4, Entries
    <3>2. IsFiniteSet(1..config[k].count)
      BY <3>1, UpTo
    <3>3. IsFiniteSet({k})
      BY FS_Singleton
    <3> QED BY <3>2, <3>3, FS_Product, Zenon
  <2>5. \A T \in image : IsFiniteSet(T)
    BY <2>4
  <2>6. IsFiniteSet(UNION image)
    <3> HIDE DEF image
    <3> QED BY <2>3, <2>5, FS_UNION
  <2> QED BY <2>6 DEF Asked
<1>2. ASSUME NEW m \in 0..Len(config)  PROVE Cardinality(Asked(m)) <= Requested
  <2>1. Asked(m) \subseteq Asked(Len(config)) /\ Len(config) \in 0..Len(config)
    <3>1. 1..m \subseteq 1..Len(config) /\ Len(config) \in Nat
      OBVIOUS
    <3> QED BY <3>1 DEF Asked
  <2>2. IsFiniteSet(Asked(Len(config)))
    BY <1>1, <2>1
  <2> QED BY <2>1, <2>2, FS_Subset DEF Requested
<1>3. \A n \in 0..Len(config) : Cardinality(Asked(n)) \in Nat
  BY <1>1, FS_CardinalityType
<1> QED BY <1>1, <1>2, <1>3

\* One entry more asks for its count of records more.
LEMMA AskedNext ==
  ASSUME config \in Seq([log_size: Nat, count: Nat]), NEW n \in 0 .. Len(config) - 1
  PROVE  /\ IsFiniteSet(Asked(n + 1))
         /\ Cardinality(Asked(n + 1)) = Cardinality(Asked(n)) + config[n + 1].count
<1> DEFINE c == config[n + 1].count
           more == {n + 1} \X (1..c)
<1>1. c \in Nat /\ n \in Nat
  <2>1. Len(config) \in Nat
    BY Entries
  <2>2. n \in Nat /\ n + 1 \in 1..Len(config)
    BY <2>1
  <2> QED BY <2>2, Entries
<1>2. IsFiniteSet(1..c) /\ Cardinality(1..c) = c
  <2> HIDE DEF c
  <2> QED BY <1>1, UpTo
<1>3. IsFiniteSet({n + 1}) /\ Cardinality({n + 1}) = 1
  BY FS_Singleton
<1>4. IsFiniteSet(more) /\ Cardinality(more) = c
  <2>1. IsFiniteSet(more) /\ Cardinality(more) = 1 * Cardinality(1..c)
    BY <1>2, <1>3, FS_Product, Zenon
  <2> HIDE DEF c, more
  <2> QED BY <1>1, <1>2, <2>1
<1>5. Asked(n + 1) = Asked(n) \cup more
  <2>1. 1 .. n + 1 = (1..n) \cup {n + 1}
    BY <1>1
  <2> QED BY <2>1 DEF Asked
<1>6. Asked(n) \cap more = {}
  BY <1>1 DEF Asked
<1>7. IsFiniteSet(Asked(n)) /\ Cardinality(Asked(n)) \in Nat
  BY AskedFinite
<1>8. /\ IsFiniteSet(Asked(n) \cup more)
      /\ Cardinality(Asked(n) \cup more)
           = Cardinality(Asked(n)) + Cardinality(more) - Cardinality(Asked(n) \cap more)
  <2> HIDE DEF c, more
  <2> QED BY <1>4, <1>7, FS_Union
<1>9. Cardinality(Asked(n + 1)) = Cardinality(Asked(n)) + c
  <2>1. Cardinality({}) = 0
    BY FS_EmptySet
  <2> HIDE DEF c, more
  <2>2. Cardinality(Asked(n + 1)) = Cardinality(Asked(n)) + c - 0
    BY <1>4, <1>5, <1>6, <1>8, <2>1
  <2> QED BY <1>1, <1>7, <2>2
<1> QED BY <1>5, <1>8, <1>9

-----------------------------------------------------------------------------
(* The steps of the constructor.                                           *)

\* A constructor starts with an empty total.
LEMMA InitSetup == Init => SetupInv
<1> SUFFICES ASSUME Init  PROVE SetupInv
  OBVIOUS
<1>1. config \in Seq([log_size: Nat, count: Nat]) /\ Len(config) \in Nat
  BY SetupAssumption DEF Init
<1>2. SetupType
  BY <1>1, Widths DEF Init, SetupType
<1>3. Cardinality(Asked(0)) = 0
  <2>1. Asked(0) = {}
    BY DEF Asked
  <2> QED BY <2>1, FS_EmptySet
<1>4. pc = "check" => total = Cardinality(Asked(i - 1)) /\ total <= SizeMax /\ Passed(i - 1)
                      /\ records = <<>>
  BY <1>3, Widths DEF Init, Passed
<1>5. pc \in {"check", "invalid_argument"} /\ (pc = "check" <=> config # <<>>)
  BY DEF Init
<1> QED BY <1>2, <1>4, <1>5 DEF SetupInv, WellFormed

\* An entry is rejected for a reason: it is not valid itself, or the records
\* asked for so far are more than any size_t counts.
LEMMA CheckRejectsKept ==
  ASSUME SetupInv, CheckRejects
  PROVE  SetupInv'
<1>1. /\ SetupType /\ pc = "check" /\ i \in 1..Len(config) /\ config # <<>>
      /\ total = Cardinality(Asked(i - 1)) /\ total <= SizeMax
      /\ UNCHANGED <<config, i, total, largest, ranges, records>>
  BY DEF SetupInv, SetupType, CheckRejects
<1>2. SetupType' /\ WellFormed' = WellFormed /\ Requested' = Requested
  BY <1>1 DEF SetupType, CheckRejects, WellFormed, Requested, Asked
<1>3. CASE Rejected /\ pc' = "invalid_argument"
  <2>1. i \in DOMAIN config /\ config[i].count \in Nat /\ config[i].log_size \in Nat
    BY <1>1, Entries DEF SetupType
  <2>2. config[i].count = 0 \/ config[i].log_size > MaxLogSize
    BY <1>3 DEF Rejected, Entry
  <2>3. ~(config[i].count > 0 /\ config[i].log_size <= MaxLogSize)
    BY <2>1, <2>2, Widths
  <2>4. ~WellFormed
    BY <2>1, <2>3 DEF WellFormed
  <2> QED BY <1>2, <1>3, <2>4 DEF SetupInv
<1>4. CASE TooMany /\ pc' = "length_error"
  <2> DEFINE n == i - 1
  <2>1. n \in 0 .. Len(config) - 1 /\ n + 1 \in 0..Len(config) /\ n + 1 = i
    BY <1>1 DEF SetupType
  <2>2. Cardinality(Asked(n + 1)) = Cardinality(Asked(n)) + config[n + 1].count
    <3> HIDE DEF n
    <3> QED BY <1>1, <2>1, AskedNext DEF SetupType
  <2>3. Cardinality(Asked(n + 1)) <= Requested
    <3> HIDE DEF n
    <3> QED BY <1>1, <2>1, AskedFinite DEF SetupType
  <2>4. Requested \in Nat /\ config[i].count \in Nat
    BY <1>1, AskedFinite, Entries DEF SetupType, Requested
  <2>5. total + config[i].count > SizeMax /\ total + config[i].count <= Requested
    <3>1. config[i].count > SizeMax - total
      BY <1>4 DEF TooMany, Entry
    <3>2. total \in Nat /\ SizeMax \in Nat
      BY <1>1, Widths DEF SetupType
    <3>3. total + config[i].count = Cardinality(Asked(n + 1))
      BY <1>1, <2>1, <2>2
    <3> HIDE DEF n
    <3> QED BY <2>3, <2>4, <3>1, <3>2, <3>3, SMTT(30)
  <2>6. Requested > VectorMax
    <3>1. total \in Nat
      BY <1>1 DEF SetupType
    <3> QED BY <2>4, <2>5, <3>1, Widths, SMTT(30)
  <2> QED BY <1>2, <1>4, <2>6 DEF SetupInv
<1> QED BY <1>3, <1>4 DEF CheckRejects

\* The total of the entries that pass does not wrap around.
LEMMA CheckEntryKept ==
  ASSUME SetupInv, CheckEntry
  PROVE  SetupInv'
<1>1. /\ SetupType /\ pc = "check" /\ i \in 1..Len(config) /\ config # <<>>
      /\ total = Cardinality(Asked(i - 1)) /\ total <= SizeMax /\ Passed(i - 1)
      /\ UNCHANGED <<config, pc, ranges, records>> /\ i' = i + 1 /\ records = <<>>
      /\ ~Rejected /\ ~TooMany
  BY DEF SetupInv, SetupType, CheckEntry
<1> DEFINE e == config[i]
<1>2. e.log_size \in Nat /\ e.count \in Nat /\ e.count > 0 /\ e.log_size <= MaxLogSize
  <2>1. e.log_size \in Nat /\ e.count \in Nat
    BY <1>1, Entries DEF SetupType
  <2>2. ~(e.count = 0 \/ e.log_size > MaxLogSize)
    BY <1>1 DEF Rejected, Entry
  <2> HIDE DEF e
  <2> QED BY <2>1, <2>2, Widths, SMTT(30)
<1>3. total + e.count \in Nat /\ total + e.count <= SizeMax
  <2>1. ~(e.count > SizeMax - total)
    BY <1>1 DEF TooMany, Entry
  <2>2. total \in Nat /\ SizeMax \in Nat
    BY <1>1, Widths DEF SetupType
  <2> HIDE DEF e
  <2> QED BY <1>2, <2>1, <2>2, SMTT(30)
<1>4. total' = total + e.count
  <2>1. total' = (total + e.count) % (SizeMax + 1)
    BY DEF CheckEntry, Entry
  <2> HIDE DEF e
  <2> QED BY <1>3, <2>1, NoWrap, Widths
<1>5. Cardinality(Asked(i)) = total + e.count
  <2> DEFINE n == i - 1
  <2>1. n \in 0 .. Len(config) - 1 /\ n + 1 = i
    BY <1>1 DEF SetupType
  <2>2. Cardinality(Asked(n + 1)) = Cardinality(Asked(n)) + config[n + 1].count
    <3> HIDE DEF n
    <3> QED BY <1>1, <2>1, AskedNext DEF SetupType
  <2> QED BY <1>1, <2>1, <2>2
<1>6. /\ largest' \in 0..MaxLogSize /\ largest <= largest' /\ e.log_size <= largest'
  <2> DEFINE l == e.log_size
  <2>1. l \in Nat /\ l <= MaxLogSize /\ largest' = IF l > largest THEN l ELSE largest
    BY <1>2 DEF CheckEntry, Entry
  <2>2. largest \in 0..MaxLogSize
    BY <1>1 DEF SetupType
  <2> HIDE DEF l
  <2>3. largest' \in 0..MaxLogSize /\ largest <= largest' /\ l <= largest'
    BY <2>1, <2>2, Widths
  <2> QED BY <2>3 DEF l
<1>7. Passed(i - 1)' /\ i' - 1 = i
  <2>1. i' - 1 = i
    BY <1>1 DEF SetupType
  <2>2. \A k \in 1..i : config'[k].count > 0 /\ config'[k].log_size <= largest'
    <3>1. \A k \in 1 .. i - 1 : config[k].count > 0 /\ config[k].log_size <= largest
      BY <1>1 DEF Passed
    <3>2. \A k \in 1..i : config[k].log_size \in Nat /\ (k = i \/ k \in 1 .. i - 1)
      BY <1>1, Entries DEF SetupType
    <3>3. largest \in Nat /\ largest' \in Nat /\ largest <= largest'
      BY <1>1, <1>6, Widths DEF SetupType
    <3>4. ASSUME NEW k \in 1..i  PROVE config[k].count > 0 /\ config[k].log_size <= largest'
      <4>1. CASE k = i
        BY <1>2, <1>6, <4>1
      <4>2. CASE k \in 1 .. i - 1
        BY <3>1, <3>2, <3>3, <4>2
      <4> QED BY <3>2, <4>1, <4>2
    <3> QED BY <1>1, <3>4
  <2> QED BY <2>1, <2>2 DEF Passed
<1>8. SetupType'
  BY <1>1, <1>3, <1>4, <1>6 DEF SetupType
<1>9. Asked(i - 1)' = Asked(i)
  BY <1>1, <1>7 DEF Asked
<1> QED BY <1>1, <1>3, <1>4, <1>5, <1>7, <1>8, <1>9, SMTT(30) DEF SetupInv

\* At first every range is empty.
LEMMA NothingLaid ==
  ASSUME ranges' = [log \in 0..largest' |-> NoRange], records' = <<>>
  PROVE  Laid(0)'
<1>1. Cardinality(Asked(0)') = 0
  <2>1. Asked(0)' = {}
    BY DEF Asked
  <2> QED BY <2>1, FS_EmptySet
<1>2. NoRange \in [begin: Nat, count: Nat] /\ NoRange.begin = 1 /\ NoRange.count = 0
  BY DEF NoRange
<1>3. ranges' \in [0..largest' -> [begin: Nat, count: Nat]]
      /\ \A log \in 0..largest' : ranges'[log].begin = 1 /\ ranges'[log].count = 0
  BY <1>2
<1>4. records' \in Seq(0..largest') /\ Len(records') = 0
  OBVIOUS
<1> QED BY <1>1, <1>3, <1>4 DEF Laid, Distinct, InRange

\* All entries have passed: the total is the number of records asked for.
LEMMA ReserveKept ==
  ASSUME SetupInv, Reserve
  PROVE  SetupInv'
<1>1. /\ SetupType /\ pc = "check" /\ i > Len(config) /\ config # <<>> /\ records = <<>>
      /\ total = Cardinality(Asked(i - 1)) /\ Passed(i - 1)
      /\ UNCHANGED <<config, total, largest, records>> /\ i' = 1
      /\ ranges' = [log \in 0..largest |-> NoRange]
      /\ pc' = IF total > VectorMax THEN "length_error" ELSE "lay"
  BY DEF SetupInv, SetupType, Reserve
<1>2. Len(config) \in Nat /\ i - 1 = Len(config) /\ i' - 1 = 0
  BY <1>1, Entries DEF SetupType
<1>3. total = Requested /\ Passed(Len(config)) /\ total \in Nat
  BY <1>1, <1>2 DEF Requested, SetupType
<1>4. SetupType' /\ Requested' = Requested /\ Passed(Len(config))'
  BY <1>1, <1>2, <1>3 DEF SetupType, Requested, Asked, Passed
<1>5. Laid(0)'
  BY <1>1, NothingLaid
<1> QED BY <1>1, <1>2, <1>3, <1>4, <1>5, Widths DEF SetupInv

\* A class with a range was laid out before: the request names it twice.
LEMMA LayRejectsKept ==
  ASSUME SetupInv, LayRejects
  PROVE  SetupInv'
<1>1. /\ SetupType /\ pc = "lay" /\ i \in 1..Len(config) /\ config # <<>>
      /\ UNCHANGED <<config, i, total, largest, ranges, records>> /\ pc' = "invalid_argument"
      /\ Laid(i - 1) /\ Passed(Len(config)) /\ ranges[config[i].log_size].count # 0
  BY DEF SetupInv, SetupType, LayRejects, Entry
<1>2. /\ Len(config) \in Nat /\ DOMAIN config = 1..Len(config)
      /\ config[i].log_size \in 0..largest
  BY <1>1, Entries, Widths DEF SetupType, Passed
<1>3. PICK k \in 1 .. i - 1 : config[k].log_size = config[i].log_size
  BY <1>1, <1>2 DEF Laid
<1>4. k \in DOMAIN config /\ i \in DOMAIN config /\ k # i
  BY <1>1, <1>2
<1>5. ~WellFormed
  BY <1>3, <1>4 DEF WellFormed
<1>6. ~WellFormed' /\ SetupType'
  BY <1>1, <1>5 DEF WellFormed, SetupType
<1> QED BY <1>1, <1>6 DEF SetupInv

\* Two sequences, one behind the other.
LEMMA Appended ==
  ASSUME NEW S, NEW s \in Seq(S), NEW t \in Seq(S)
  PROVE  /\ s \o t \in Seq(S) /\ Len(s \o t) = Len(s) + Len(t)
         /\ \A r \in 1..Len(s) : (s \o t)[r] = s[r]
         /\ \A r \in Len(s) + 1 .. Len(s) + Len(t) : (s \o t)[r] = t[r - Len(s)]
OBVIOUS

\* A class that is laid out gets its range behind the others.
LEMMA LayEntryKept ==
  ASSUME SetupInv, LayEntry
  PROVE  SetupInv'
<1> DEFINE l == config[i].log_size
           c == config[i].count
           n == Len(records)
<1>1. /\ SetupType /\ pc = "lay" /\ i \in 1..Len(config) /\ config # <<>>
      /\ UNCHANGED <<config, pc, total, largest>> /\ i' = i + 1
      /\ Laid(i - 1) /\ Passed(Len(config)) /\ Requested <= VectorMax /\ ranges[l].count = 0
      /\ records' = records \o [k \in 1..c |-> l]
      /\ ranges' = [ranges EXCEPT ![l] = [begin |-> n + 1, count |-> c]]
  BY DEF SetupInv, SetupType, LayEntry, Entry, Begin
<1>2. /\ Len(config) \in Nat /\ DOMAIN config = 1..Len(config)
      /\ l \in 0..largest /\ c \in Nat /\ c > 0
  <2>1. /\ Len(config) \in Nat /\ DOMAIN config = 1..Len(config) /\ l \in Nat /\ c \in Nat
        /\ largest \in Nat
    BY <1>1, Entries, Widths DEF SetupType
  <2>2. c > 0 /\ l <= largest
    BY <1>1 DEF Passed
  <2> QED BY <2>1, <2>2
<1>3. /\ ranges \in [0..largest -> [begin: Nat, count: Nat]] /\ records \in Seq(0..largest)
      /\ n = Cardinality(Asked(i - 1)) /\ Distinct(i - 1)
      /\ \A log \in 0..largest :
           /\ ranges[log].count # 0 <=> \E k \in 1 .. i - 1 : config[k].log_size = log
           /\ \A r \in Int : InRange(r, log) <=> r \in 1..n /\ records[r] = log
  BY <1>1 DEF Laid
<1>4. i \in Nat \ {0} /\ i' - 1 = i /\ n \in Nat
  BY <1>1, <1>3 DEF SetupType
<1>5. /\ records' \in Seq(0..largest) /\ Len(records') = n + c
      /\ \A r \in 1..n : records'[r] = records[r]
      /\ \A r \in n + 1 .. n + c : records'[r] = l
  <2> DEFINE more == [k \in 1..c |-> l]
             S == 0..largest
  <2>1. more \in Seq(S) /\ Len(more) = c /\ \A k \in 1..c : more[k] = l
    <3> HIDE DEF c, l
    <3> QED BY <1>2
  <2>2. records \in Seq(S) /\ records' = records \o more
    BY <1>1, <1>3
  <2> HIDE DEF c, l, more, S
  <2>3. /\ records' \in Seq(S) /\ Len(records') = n + c
        /\ \A r \in 1..n : records'[r] = records[r]
        /\ \A r \in n + 1 .. n + c : records'[r] = more[r - n]
    BY <2>1, <2>2, Appended
  <2>4. \A r \in n + 1 .. n + c : r - n \in 1..c
    BY <1>2, <1>4
  <2> QED BY <2>1, <2>3, <2>4 DEF S
<1>6. ranges' \in [0..largest -> [begin: Nat, count: Nat]]
      /\ ranges'[l].begin = n + 1 /\ ranges'[l].count = c
      /\ \A log \in 0..largest \ {l} : ranges'[log] = ranges[log]
  <2> HIDE DEF c, l, n
  <2> QED BY <1>1, <1>2, <1>3, <1>4
<1>7. n + c = Cardinality(Asked(i))
  <2> DEFINE m == i - 1
  <2>1. m \in 0 .. Len(config) - 1 /\ m + 1 = i
    BY <1>1, <1>2
  <2>2. Cardinality(Asked(m + 1)) = Cardinality(Asked(m)) + config[m + 1].count
    <3> HIDE DEF m
    <3> QED BY <1>1, <2>1, AskedNext DEF SetupType
  <2> QED BY <1>3, <2>1, <2>2
<1>8. Distinct(i)
  <2>1. \A k \in 1 .. i - 1 : config[k].log_size # l
    BY <1>1, <1>2, <1>3
  <2>2. \A k \in 1..i : k = i \/ k \in 1 .. i - 1
    BY <1>4
  <2> QED BY <1>3, <2>1, <2>2 DEF Distinct
<1>9. ASSUME NEW log \in 0..largest
      PROVE  /\ ranges'[log].count # 0 <=> \E k \in 1..i : config[k].log_size = log
             /\ \A r \in Int : InRange(r, log)' <=> r \in 1 .. n + c /\ records'[r] = log
  <2>1. (\E k \in 1..i : config[k].log_size = log) <=>
          log = l \/ \E k \in 1 .. i - 1 : config[k].log_size = log
    BY <1>4
  <2>2. CASE log = l
    <3>1. \A r \in Int : InRange(r, log)' <=> r \in n + 1 .. n + c
      <4> HIDE DEF c, n
      <4> QED BY <1>2, <1>4, <1>6, <2>2 DEF InRange
    <3>2. \A r \in 1..n : records[r] # l
      <4>1. \A r \in Int : ~InRange(r, l)
        BY <1>1, <1>2, <1>3 DEF InRange
      <4> QED BY <1>2, <1>3, <4>1
    <3>3. \A r \in 1 .. n + c : r \in 1..n \/ r \in n + 1 .. n + c
      BY <1>2, <1>4
    <3>4. n + 1 .. n + c \subseteq 1 .. n + c
      BY <1>4
    <3>5. ranges'[log].count # 0
      BY <1>2, <1>6, <2>2
    <3> HIDE DEF c, n, l
    <3> QED BY <1>5, <2>1, <2>2, <3>1, <3>2, <3>3, <3>4, <3>5
  <2>3. CASE log # l
    <3>1. ranges'[log] = ranges[log]
      BY <1>6, <2>3
    <3>2. \A r \in Int : InRange(r, log)' <=> InRange(r, log)
      BY <3>1 DEF InRange
    <3>3. \A r \in 1 .. n + c : r \in 1..n \/ r \in n + 1 .. n + c
      BY <1>2, <1>4
    <3>4. 1..n \subseteq 1 .. n + c
      BY <1>2, <1>4
    <3> HIDE DEF c, n, l
    <3> QED BY <1>3, <1>5, <2>1, <2>3, <3>1, <3>2, <3>3, <3>4
  <2> QED BY <2>2, <2>3
<1>10. Laid(i - 1)'
  <2>1. Asked(i - 1)' = Asked(i)
    BY <1>1, <1>4 DEF Asked
  <2>2. Distinct(i - 1)'
    BY <1>1, <1>4, <1>8 DEF Distinct
  <2>3. Len(records') = Cardinality(Asked(i - 1)')
    BY <1>5, <1>7, <2>1
  <2>4. ASSUME NEW log \in 0..largest'
        PROVE  /\ ranges'[log].count # 0 <=> \E k \in 1 .. i' - 1 : config'[k].log_size = log
               /\ \A r \in Int : InRange(r, log)' <=> r \in 1..Len(records') /\ records'[r] = log
    <3>1. log \in 0..largest
      BY <1>1, <2>4
    <3>2. /\ ranges'[log].count # 0 <=> \E k \in 1..i : config[k].log_size = log
          /\ \A r \in Int : InRange(r, log)' <=> r \in 1 .. n + c /\ records'[r] = log
      BY <1>9, <3>1
    <3>3. config' = config /\ i' - 1 = i /\ Len(records') = n + c
      BY <1>1, <1>4, <1>5
    <3> HIDE DEF c, n
    <3> QED BY <3>2, <3>3
  <2>5. ranges' \in [0..largest' -> [begin: Nat, count: Nat]] /\ records' \in Seq(0..largest')
    BY <1>1, <1>5, <1>6
  <2> HIDE DEF c, n, l
  <2> QED BY <2>2, <2>3, <2>4, <2>5 DEF Laid
<1>11. SetupType' /\ Passed(Len(config))' /\ Requested' = Requested
  BY <1>1, <1>4 DEF SetupType, Passed, Requested, Asked
<1> QED BY <1>1, <1>10, <1>11 DEF SetupInv

\* The last class is laid out, or nothing happens.
LEMMA ReturnKept ==
  ASSUME SetupInv, Return \/ UNCHANGED vars
  PROVE  SetupInv'
<1>1. CASE Return
  <2>1. /\ SetupType /\ pc = "lay" /\ i > Len(config) /\ pc' = "built" /\ config # <<>>
        /\ UNCHANGED <<config, i, total, largest, ranges, records>>
        /\ Laid(i - 1) /\ Passed(Len(config)) /\ Requested <= VectorMax
    BY <1>1 DEF SetupInv, SetupType, Return
  <2>2. i - 1 = Len(config)
    BY <2>1, Entries DEF SetupType
  <2>3. Laid(Len(config))
    BY <2>1, <2>2
  <2>4. Laid(Len(config))' /\ Passed(Len(config))' /\ Requested' = Requested
    BY <2>1, <2>3 DEF Laid, InRange, Passed, Requested, Asked, Distinct
  <2>5. SetupType'
    BY <2>1 DEF SetupType
  <2> QED BY <2>1, <2>4, <2>5 DEF SetupInv
<1>2. CASE UNCHANGED vars
  <2>1. /\ config' = config /\ pc' = pc /\ i' = i /\ total' = total
        /\ largest' = largest /\ ranges' = ranges /\ records' = records
    BY <1>2 DEF vars
  <2>2. SetupType'
    BY <2>1 DEF SetupInv, SetupType
  <2>3. Requested' = Requested /\ Asked(i - 1)' = Asked(i - 1)
    BY <2>1 DEF Requested, Asked
  <2>4. /\ Passed(i - 1)' <=> Passed(i - 1)
        /\ Passed(Len(config))' <=> Passed(Len(config))
    BY <2>1 DEF Passed
  <2>5. WellFormed' <=> WellFormed
    BY <2>1 DEF WellFormed
  <2>6. CASE pc = "check"
    BY <2>1, <2>2, <2>3, <2>4, <2>6 DEF SetupInv
  <2>7. CASE pc = "lay"
    <3>1. Laid(i - 1)
      BY <2>7 DEF SetupInv
    <3>2. Laid(i - 1)'
      BY <2>1, <3>1 DEF Laid, InRange, Asked, Distinct
    <3> QED BY <2>1, <2>2, <2>3, <2>4, <2>7, <3>2 DEF SetupInv
  <2>8. CASE pc = "built"
    <3>1. Laid(Len(config))
      BY <2>8 DEF SetupInv
    <3>2. Laid(Len(config))'
      BY <2>1, <3>1 DEF Laid, InRange, Asked, Distinct
    <3> QED BY <2>1, <2>2, <2>3, <2>4, <2>8, <3>2 DEF SetupInv
  <2>9. CASE pc \in {"invalid_argument", "length_error"}
    BY <2>1, <2>2, <2>3, <2>5, <2>9 DEF SetupInv
  <2> QED BY <2>6, <2>7, <2>8, <2>9 DEF SetupInv, SetupType
<1> QED BY <1>1, <1>2

-----------------------------------------------------------------------------
(* What the constructor promises.                                          *)

\* SetupInv holds in every reachable state.
LEMMA SetupForever == Spec => []SetupInv
<1>1. SetupInv /\ [Next]_vars => SetupInv'
  BY CheckRejectsKept, CheckEntryKept, ReserveKept, LayRejectsKept, LayEntryKept, ReturnKept DEF Next
<1> QED BY InitSetup, <1>1, PTL DEF Spec

\* For every request, whatever its counts and however they add up in a size_t:
\* a pool is built exactly if the request is well-formed and fits, and each
\* exception names a real reason.
THEOREM BuiltExactlyIfPossible == Spec => []BuiltIffPossible
<1>1. SetupInv => BuiltIffPossible
  <2> SUFFICES ASSUME SetupInv, pc = "built"  PROVE WellFormed /\ Requested <= VectorMax
    BY DEF SetupInv, BuiltIffPossible
  <2>1. SetupType /\ config # <<>> /\ Passed(Len(config)) /\ Distinct(Len(config)) /\ Requested <= VectorMax
    BY DEF SetupInv, Laid
  <2>2. /\ DOMAIN config = 1..Len(config) /\ largest \in 0..MaxLogSize
        /\ \A k \in 1..Len(config) : config[k].log_size \in Nat
    BY <2>1, Entries DEF SetupType
  <2>3. \A k \in DOMAIN config : config[k].count > 0 /\ config[k].log_size <= MaxLogSize
    BY <2>1, <2>2, Widths DEF Passed
  <2> QED BY <2>1, <2>2, <2>3 DEF WellFormed, Distinct
<1> QED BY SetupForever, <1>1, PTL

\* In a pool that was built, the range that try_acquire() scans is the size class
\* asked for: all of its records and none of another capacity.
THEOREM RangesMatchClasses == Spec => []RangesAreSizeClasses
<1>1. SetupInv => RangesAreSizeClasses
  <2> SUFFICES ASSUME SetupInv, pc = "built"
               PROVE  /\ Len(records) = Requested
                      /\ \A log \in 0 .. MaxLogSize + 1 :
                           Scanned(log) = {r \in DOMAIN records : records[r] = log}
    BY DEF RangesAreSizeClasses
  <2>1. Laid(Len(config)) /\ largest \in 0..MaxLogSize
    BY DEF SetupInv, SetupType
  <2>2. DOMAIN ranges = 0..largest
    BY <2>1 DEF Laid
  <2>3. /\ DOMAIN records = 1..Len(records) /\ Len(records) \in Nat
        /\ \A r \in 1..Len(records) : records[r] \in 0..largest
    <3>1. records \in Seq(0..largest)
      BY <2>1 DEF Laid
    <3> DEFINE S == 0..largest
    <3> HIDE DEF S
    <3>2. /\ DOMAIN records = 1..Len(records) /\ Len(records) \in Nat
          /\ \A r \in 1..Len(records) : records[r] \in S
      <4>1. records \in Seq(S)
        BY <3>1 DEF S
      <4> QED BY <4>1, Elements
    <3> QED BY <3>2 DEF S
  <2>4. ASSUME NEW log \in 0..largest
        PROVE  Scanned(log) = {r \in DOMAIN records : records[r] = log}
    <3>1. ranges[log].begin \in Nat /\ ranges[log].count \in Nat
      BY <2>1 DEF Laid
    <3>2. Scanned(log) = {r \in Int : InRange(r, log)}
      BY <2>2, <3>1 DEF Scanned, InRange
    <3>3. \A r \in Int : InRange(r, log) <=> r \in 1..Len(records) /\ records[r] = log
      BY <2>1 DEF Laid
    <3> QED BY <2>3, <3>2, <3>3
  <2>5. ASSUME NEW log \in 0 .. MaxLogSize + 1, log \notin 0..largest
        PROVE  Scanned(log) = {r \in DOMAIN records : records[r] = log}
    BY <2>2, <2>3, <2>5 DEF Scanned
  <2>6. Len(records) = Requested
    BY <2>1 DEF Laid, Requested
  <2> QED BY <2>4, <2>5, <2>6
<1> QED BY SetupForever, <1>1, PTL
=============================================================================
