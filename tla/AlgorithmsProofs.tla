-------------------------- MODULE AlgorithmsProofs --------------------------
(***************************************************************************)
(* What the algorithms compute, for every input: structured queries under  *)
(* their column filters and in both backends, byte ranges, durations and   *)
(* intervals, and the choices made when a dataset is loaded.               *)
(***************************************************************************)
EXTENDS MCAlgorithms, OperatorProofs, SequenceTheorems, TLAPS

\* The lesser and the greater of two numbers.
LEMMA MinOf ==
    ASSUME NEW a \in Nat, NEW b \in Nat
    PROVE  Min({a, b}) = IF a <= b THEN a ELSE b
  <1>1. {a, b} \in SUBSET Nat /\ {a, b} # {}
    OBVIOUS
  <1>2. Min({a, b}) \in {a, b} /\ \A y \in {a, b} : Min({a, b}) <= y
    BY <1>1, MinIsLeast
  <1> QED
    BY <1>2

LEMMA MaxOf ==
    ASSUME NEW a \in Nat, NEW b \in Nat
    PROVE  Max({a, b}) = IF a <= b THEN b ELSE a
  <1>1. \E x \in {a, b} : \A y \in {a, b} : x >= y
    BY SMT
  <1>2. Max({a, b}) \in {a, b} /\ \A y \in {a, b} : Max({a, b}) >= y
    BY <1>1 DEF Max
  <1> QED
    BY <1>2

-----------------------------------------------------------------------------
(***************************************************************************)
(* Byte ranges.                                                            *)
(***************************************************************************)
\* What a part of a range may be.
IsPart(p) == p.kind \in {"none", "num", "bad"} /\ p.n \in Nat

\* The bytes between the bounds of a well-formed range are those it asks for.
LEMMA BoundsWanted ==
    ASSUME NEW r, NEW total \in Nat, total # 0, IsPart(r.start), IsPart(r.end),
           "bad" \notin {r.start.kind, r.end.kind},
           ~ (r.start.kind = "none" /\ r.end.kind = "none")
    PROVE  LET b == Bounds(r, total) IN
           /\ b.start \in Nat /\ b.end \in Nat
           /\ r.start.kind = "none" /\ r.end.n = 0 => Wanted(r, total) = {}
           /\ b.start > b.end \/ b.start >= total => Wanted(r, total) = {}
           /\ ~ (b.start > b.end \/ b.start >= total) =>
                Wanted(r, total) = b.start .. b.end /\ b.start .. b.end # {}
  <1>1. CASE r.start.kind = "none"
    <2> DEFINE m == Min({r.end.n, total})
    <2>1. m = IF r.end.n <= total THEN r.end.n ELSE total
      BY MinOf DEF IsPart
    <2>2. Bounds(r, total) = [start |-> total - m, end |-> total - 1]
      BY <1>1 DEF Bounds
    <2>3. Wanted(r, total) = {i \in 0 .. total - 1 : i + r.end.n >= total}
      BY <1>1 DEF Wanted
    <2> HIDE DEF m
    <2> QED
      BY <1>1, <2>1, <2>2, <2>3 DEF IsPart
  <1>2. CASE r.start.kind # "none" /\ r.end.kind = "none"
    <2>1. Bounds(r, total) = [start |-> r.start.n, end |-> total - 1]
      BY <1>2 DEF Bounds
    <2>2. Wanted(r, total) = {i \in 0 .. total - 1 : i >= r.start.n}
      BY <1>2 DEF Wanted
    <2> QED
      BY <1>2, <2>1, <2>2 DEF IsPart
  <1>3. CASE r.start.kind # "none" /\ r.end.kind = "num"
    <2> DEFINE m == Min({r.end.n, total - 1})
    <2>1. m = IF r.end.n <= total - 1 THEN r.end.n ELSE total - 1
      BY MinOf DEF IsPart
    <2>2. Bounds(r, total) = [start |-> r.start.n, end |-> m]
      BY <1>3 DEF Bounds
    <2>3. Wanted(r, total) = {i \in 0 .. total - 1 : i >= r.start.n /\ i <= r.end.n}
      BY <1>3 DEF Wanted
    <2> HIDE DEF m
    <2> QED
      BY <1>3, <2>1, <2>2, <2>3 DEF IsPart
  <1> QED
    BY <1>1, <1>2, <1>3 DEF IsPart

\* An answer holds exactly the bytes the first range of a well-formed header
\* asks for, or says that there are none (parse_byte_range,
\* serve_bytes_with_range), for files and ranges of any length.
THEOREM RangesServed ==
    ASSUME NEW h, NEW total \in Nat, IsPart(Head(h.ranges).start), IsPart(Head(h.ranges).end)
    PROVE  RangeServed({h}, total)
  <1> DEFINE r == Head(h.ranges)
             v == parse_byte_range(h, total)
             a == serve_bytes_with_range({h}, total)
             b == Bounds(r, total)
  <1>1. SUFFICES ASSUME h.unit = "bytes", r.dash, "bad" \notin {r.start.kind, r.end.kind},
                        ~ (r.start.kind = "none" /\ r.end.kind = "none")
                 PROVE  /\ a.bytes = Wanted(r, total)
                        /\ a.status = IF a.bytes = {} THEN 416 ELSE 206
    BY DEF RangeServed
  <1>2. /\ v.kind = "unsatisfiable" => a.status = 416 /\ a.bytes = {}
        /\ v.kind = "range" => a.status = 206 /\ a.bytes = v.start .. v.end
    <2>1. {h} # {} /\ (CHOOSE x \in {h} : TRUE) = h
      OBVIOUS
    <2> QED
      BY <2>1, Zenon DEF serve_bytes_with_range
  <1>3. v = IF total = 0 \/ (r.start.kind = "none" /\ r.end.n = 0) THEN Unsatisfiable
            ELSE IF b.start > b.end \/ b.start >= total THEN Unsatisfiable
            ELSE [kind |-> "range", start |-> b.start, end |-> b.end]
    BY <1>1 DEF parse_byte_range
  <1>4. CASE total = 0
    <2>1. Wanted(r, total) = {}
      BY <1>4 DEF Wanted
    <2> QED
      BY <1>2, <1>3, <1>4, <2>1 DEF Unsatisfiable
  <1>5. CASE total # 0
    <2>1. /\ b.start \in Nat /\ b.end \in Nat
          /\ r.start.kind = "none" /\ r.end.n = 0 => Wanted(r, total) = {}
          /\ b.start > b.end \/ b.start >= total => Wanted(r, total) = {}
          /\ ~ (b.start > b.end \/ b.start >= total) =>
               Wanted(r, total) = b.start .. b.end /\ b.start .. b.end # {}
      BY <1>1, <1>5, BoundsWanted
    <2> HIDE DEF r, v, a, b
    <2> QED
      BY <1>2, <1>3, <1>5, <2>1 DEF Unsatisfiable
  <1> QED
    BY <1>4, <1>5

-----------------------------------------------------------------------------
(***************************************************************************)
(* Durations and intervals.                                                *)
(***************************************************************************)
\* A number that fits a word is not changed by wrapping.
LEMMA FitsWord ==
    ASSUME NEW m \in Nat, m < Word
    PROVE  m % Word = m
  BY WordAssumption

\* Whole units of a duration, written and read.
LEMMA UnitKept ==
    ASSUME NEW d \in Nat, d < Word, NEW u \in {"s", "m", "h", "d"},
           d % (1000 * UnitSeconds[u]) = 0
    PROVE  parse_duration(d \div (1000 * UnitSeconds[u]), u) = d
  <1> DEFINE k == UnitSeconds[u]
             n == d \div (1000 * k)
  <1>1. k \in {1, 60, 3600, 86400}
    BY DEF UnitSeconds
  <1>2. n \in Nat /\ d = 1000 * (n * k) /\ n * k \in Nat
    BY <1>1
  <1>3. n * k < Word /\ Word \in Nat
    BY <1>2, WordAssumption
  <1> HIDE DEF n, k
  <1>4. (n * k) % Word = n * k
    BY <1>2, <1>3, FitsWord
  <1> QED
    BY <1>2, <1>4 DEF parse_duration, n, k

\* A configured duration survives being written to a file and read again
\* (format_duration, parse_duration), unless it does not fit a word.
THEOREM DurationsKept ==
    ASSUME NEW n \in Nat, NEW unit \in {"ms", "s", "m", "h", "d"}
    PROVE  DurationKept(n, unit)
  <1> DEFINE d == parse_duration(n, unit)
             t == format_duration(d)
  <1>1. d \in Nat
    <2>1. unit # "ms" => UnitSeconds[unit] \in Nat
      BY DEF UnitSeconds
    <2>2. unit # "ms" => n * UnitSeconds[unit] \in Nat
      BY <2>1
    <2> QED
      BY <2>2, WordAssumption DEF parse_duration
  <1> HIDE DEF d
  <1>2. SUFFICES ASSUME d < Word PROVE parse_duration(t.n, t.unit) = d
    BY DEF DurationKept, d
  <1>3. d % Word = d
    BY <1>1, <1>2, WordAssumption
  <1> DEFINE exact(u) == d % (1000 * UnitSeconds[u]) = 0
             in(u) == [n |-> d \div (1000 * UnitSeconds[u]), unit |-> u]
  <1>4. \/ d = 0 /\ t = [n |-> 0, unit |-> "s"]
        \/ \E u \in {"d", "h", "m", "s"} : exact(u) /\ t = in(u)
        \/ t = [n |-> d, unit |-> "ms"]
    BY <1>3 DEF format_duration
  <1>5. CASE d = 0 /\ t = [n |-> 0, unit |-> "s"]
    <2>1. parse_duration(0, "s") = 0
      BY WordAssumption DEF parse_duration, UnitSeconds
    <2> HIDE DEF t
    <2> QED
      BY <1>5, <2>1
  <1>6. ASSUME NEW u \in {"d", "h", "m", "s"}, exact(u), t = in(u)
        PROVE  parse_duration(t.n, t.unit) = d
    <2>1. parse_duration(d \div (1000 * UnitSeconds[u]), u) = d
      BY <1>1, <1>2, <1>6, UnitKept
    <2> HIDE DEF t
    <2> QED
      BY <1>6, <2>1
  <1>7. CASE t = [n |-> d, unit |-> "ms"]
    <2> HIDE DEF t
    <2> QED
      BY <1>7 DEF parse_duration
  <1> QED
    BY <1>4, <1>5, <1>6, <1>7

\* Retries of a failing dataset come later and later, and never later than
\* eight times its interval (backoff_interval).
THEOREM BackoffsBounded ==
    ASSUME NEW base \in Nat, NEW failures \in Nat
    PROVE  BackoffBounded(base, failures)
  <1>1. 2 ^ 0 = 1 /\ 2 ^ 1 = 2 /\ 2 ^ 2 = 4 /\ 2 ^ 3 = 8
    OBVIOUS
  <1>2. \A f \in Nat : backoff_interval(base, f)
                         = base * IF f = 0 THEN 1 ELSE IF f = 1 THEN 2 ELSE IF f = 2 THEN 4 ELSE 8
    <2>1. SUFFICES ASSUME NEW f \in Nat
                   PROVE  backoff_interval(base, f)
                            = base * IF f = 0 THEN 1 ELSE IF f = 1 THEN 2 ELSE IF f = 2 THEN 4 ELSE 8
      OBVIOUS
    <2>2. Min({f, 3}) = IF f <= 3 THEN f ELSE 3
      BY MinOf
    <2> DEFINE m == Min({f, 3})
    <2>3. 2 ^ m = IF f = 0 THEN 1 ELSE IF f = 1 THEN 2 ELSE IF f = 2 THEN 4 ELSE 8
      <3> HIDE DEF m
      <3>1. m \in {0, 1, 2, 3} /\ (m = 0 <=> f = 0) /\ (m = 1 <=> f = 1) /\ (m = 2 <=> f = 2)
        BY <2>2 DEF m
      <3> QED
        BY <1>1, <3>1
    <2> QED
      BY <2>3 DEF backoff_interval
  <1> QED
    BY <1>2 DEF BackoffBounded

-----------------------------------------------------------------------------
(***************************************************************************)
(* Building a query dataset, and where a bucket is reached.                *)
(***************************************************************************)
\* [server.storage], as far as the pools read it.
IsOption(o) == o = {} \/ \E x \in Nat : o = {x}
IsStorage(s) == s.threshold \in Nat /\ IsOption(s.memory_mb) /\ IsOption(s.reservation_mb)

\* A sort can reserve its merge memory (materialization_pool_bytes,
\* materialization_sort_spill_bytes), whatever is configured, if a configured
\* reservation comes with a greater configured pool.
THEOREM ReservationsFit ==
    ASSUME NEW storage, storage = {} \/ \E s : IsStorage(s) /\ storage = {s}
    PROVE  ReservationFits(storage)
  <1> DEFINE pool == materialization_pool_bytes(storage)
             spill == materialization_sort_spill_bytes(storage, pool)
             set == UNION {s.reservation_mb : s \in storage}
  <1>1. SUFFICES ASSUME \A s \in storage : s.reservation_mb # {} =>
                          \E r \in s.reservation_mb, m \in s.memory_mb : r < m
                 PROVE  spill < pool
    BY DEF ReservationFits
  <1>2. ASSUME pool \in Nat, pool >= 12 * 1024, set = {} PROVE spill < pool
    <2> HIDE DEF pool
    <2>1. spill = Clamp(pool \div 4, 512, 10 * 1024)
      BY <1>2 DEF materialization_sort_spill_bytes, SpillFloor, DefaultReservation, MiB
    <2> QED
      BY <1>2, <2>1 DEF Clamp
  <1>3. CASE storage = {}
    <2>1. pool = 512 * 1024 /\ set = {}
      BY <1>3 DEF materialization_pool_bytes, MiB
    <2> HIDE DEF pool, set
    <2> QED
      BY <1>2, <2>1
  <1>4. ASSUME NEW s, IsStorage(s), storage = {s} PROVE spill < pool
    <2> DEFINE mb == IF s.memory_mb = {} THEN s.threshold
                     ELSE 1024 * CHOOSE m \in s.memory_mb : TRUE
    <2>1. mb \in Nat /\ \A m \in s.memory_mb : m \in Nat /\ mb = 1024 * m
      BY <1>4 DEF IsStorage, IsOption
    <2>2. storage # {} /\ (CHOOSE x \in storage : TRUE) = s
      BY <1>4
    <2>3. pool = Max({mb, 12 * 1024})
      <3> DEFINE x == CHOOSE y \in storage : TRUE
      <3>1. pool = Max({IF x.memory_mb = {} THEN x.threshold
                        ELSE 1024 * CHOOSE m \in x.memory_mb : TRUE, 12 * 1024})
        BY <2>2 DEF materialization_pool_bytes, MiB, SortSpillMin
      <3> HIDE DEF x, pool
      <3>2. x = s
        BY <2>2 DEF x
      <3> QED
        BY <3>1, <3>2
    <2> HIDE DEF mb
    <2>4. pool \in Nat /\ pool >= 12 * 1024 /\ pool >= mb
      BY <2>1, <2>3, MaxOf
    <2>5. set = s.reservation_mb
      BY <1>4
    <2>6. CASE s.reservation_mb = {}
      <3> HIDE DEF pool, set
      <3> QED
        BY <1>2, <2>4, <2>5, <2>6
    <2>7. ASSUME NEW r \in Nat, s.reservation_mb = {r} PROVE spill < pool
      <3>1. set # {} /\ (CHOOSE m \in set : TRUE) = r
        BY <2>5, <2>7
      <3>2. spill = Max({1024 * r, 512})
        <4> DEFINE y == CHOOSE m \in set : TRUE
        <4> HIDE DEF pool
        <4>1. spill = Max({1024 * y, 512})
          BY <3>1 DEF materialization_sort_spill_bytes, MiB, SpillFloor
        <4> HIDE DEF y, spill
        <4>2. y = r
          BY <3>1 DEF y
        <4> QED
          BY <4>1, <4>2
      <3>3. PICK m \in s.memory_mb : r < m
        BY <1>1, <1>4, <2>7
      <3>4. m \in Nat /\ mb = 1024 * m
        BY <2>1
      <3>5. spill = IF 1024 * r <= 512 THEN 512 ELSE 1024 * r
        BY <3>2, MaxOf
      <3> HIDE DEF spill, pool
      <3> QED
        BY <2>4, <2>7, <3>3, <3>4, <3>5
    <2> QED
      BY <1>4, <2>6, <2>7 DEF IsStorage, IsOption
  <1> QED
    BY <1>3, <1>4

\* Folding the bucket into the host is done once: the endpoint of an endpoint
\* is the endpoint (effective_endpoint).
THEOREM EndpointsStable ==
    ASSUME NEW T, NEW bucket \in T, NEW s3, "host" \in DOMAIN s3, s3.host \in Seq(T)
    PROVE  EndpointStable(s3, bucket)
  <1> DEFINE once == effective_endpoint(s3, bucket)
             again == [s3 EXCEPT !.host = once]
  <1>1. once = s3.host \/ once = <<bucket>> \o s3.host
    BY DEF effective_endpoint
  <1>2. /\ again.host = once /\ again.bucket_in_host = s3.bucket_in_host
        /\ again.style = s3.style
    OBVIOUS
  <1>3. CASE once = <<bucket>> \o s3.host
    <2>1. once # <<>> /\ Head(once) = bucket
      BY <1>3
    <2> HIDE DEF once, again
    <2> QED
      BY <1>2, <2>1 DEF EndpointStable, effective_endpoint, again, once
  <1>4. CASE once = s3.host
    <2> HIDE DEF again
    <2>1. effective_endpoint(again, bucket) = once
      BY <1>2, <1>4 DEF effective_endpoint
    <2> QED
      BY <2>1 DEF EndpointStable, again
  <1> QED
    BY <1>1, <1>3, <1>4

-----------------------------------------------------------------------------
(***************************************************************************)
(* Sources: the columns of files, the rows of a build, the credentials of  *)
(* a bucket.                                                               *)
(***************************************************************************)
-----------------------------------------------------------------------------
\* What append_partition_cols has after each key.
Fields(f, T, columns, keys) ==
    /\ f \in [0 .. Len(keys) -> Seq(T)]
    /\ f[0] = columns
    /\ \A k \in 1 .. Len(keys) :
          f[k] = IF keys[k] \in Range(f[k - 1]) THEN f[k - 1] ELSE Append(f[k - 1], keys[k])
    /\ append_partition_cols(columns, keys) = f[Len(keys)]

LEMMA FieldsSteps ==
    ASSUME NEW T, NEW columns \in Seq(T), NEW keys \in Seq(T)
    PROVE  \E f : Fields(f, T, columns, keys)
  <1> DEFINE n == Len(keys)
             E(k, s) == IF keys[k] \in Range(s) THEN s ELSE Append(s, keys[k])
             step == [x \in (1 .. n) \X Seq(T) |-> E(x[1], x[2])]
             Def(f) == [k \in 0 .. n |->
                             IF k = 0 THEN columns
                             ELSE IF keys[k] \in Range(f[k - 1]) THEN f[k - 1]
                             ELSE Append(f[k - 1], keys[k])]
             F == CHOOSE f : f = Def(f)
             seqs == Seq(T)
  <1>1. n \in Nat /\ columns \in seqs /\ step \in [(1 .. n) \X seqs -> seqs]
    <2>1. ASSUME NEW k \in 1 .. n, NEW s \in Seq(T) PROVE E(k, s) \in Seq(T)
      BY <2>1
    <2> HIDE DEF E
    <2>2. \A x \in (1 .. n) \X Seq(T) : E(x[1], x[2]) \in Seq(T)
      BY <2>1
    <2> QED
      BY <2>2
  <1>2. ASSUME NEW k \in 1 .. n, NEW s \in seqs PROVE step[<<k, s>>] = E(k, s)
    <2> HIDE DEF E
    <2>1. <<k, s>> \in (1 .. n) \X seqs
      BY <1>2
    <2> QED
      BY <2>1
  <1>3. PICK f : Unrolls(f, n, seqs, columns, step)
    <2> HIDE DEF n, step, seqs
    <2> QED
      BY <1>1, RecursionExists
  <1>4. f = Def(f)
    <2> HIDE DEF step, seqs
    <2>1. f = [k \in 0 .. n |-> f[k]] /\ f[0] = columns
      BY <1>3 DEF Unrolls
    <2>2. \A k \in 1 .. n : f[k - 1] \in seqs /\ f[k] = E(k, f[k - 1])
      <3> HIDE DEF E
      <3>1. \A k \in 1 .. n : f[k - 1] \in seqs /\ f[k] = step[<<k, f[k - 1]>>]
        <4>1. \A k \in 1 .. n : k - 1 \in 0 .. n
          BY <1>1
        <4> HIDE DEF n
        <4> QED
          BY <1>3, <4>1 DEF Unrolls
      <3> QED
        BY <1>2, <3>1
    <2>3. \A k \in 0 .. n : f[k] = IF k = 0 THEN columns ELSE E(k, f[k - 1])
      <3>1. \A k \in 0 .. n : k # 0 => k \in 1 .. n
        BY <1>1
      <3> HIDE DEF E, n
      <3> QED
        BY <2>1, <2>2, <3>1
    <2> QED
      BY <2>1, <2>3
  <1>5. F = Def(F)
    <2> HIDE DEF Def
    <2> QED
      BY <1>4
  <1> HIDE DEF F
  <1>6. /\ F = [k \in 0 .. n |-> F[k]] /\ F[0] = columns
        /\ \A k \in 1 .. n : F[k] = E(k, F[k - 1])
    <2>1. /\ Def(F) = [k \in 0 .. n |-> Def(F)[k]] /\ Def(F)[0] = columns
          /\ \A k \in 1 .. n : Def(F)[k] = E(k, F[k - 1])
      BY <1>1
    <2> HIDE DEF Def, E
    <2> QED
      BY <1>5, <2>1
  <1>7. Unrolls(F, n, seqs, columns, step)
    <2> HIDE DEF n, step, seqs, E
    <2>1. \A k \in 1 .. n : F[k - 1] \in seqs => F[k] = step[<<k, F[k - 1]>>]
      BY <1>2, <1>6
    <2> QED
      BY <1>1, <1>6, <2>1, RecursionTyped
  <1>8. append_partition_cols(columns, keys) = F[n]
    BY DEF append_partition_cols, F
  <1>9. Fields(F, T, columns, keys)
    <2>1. F \in [0 .. n -> seqs]
      BY <1>7 DEF Unrolls
    <2> QED
      BY <1>6, <1>8, <2>1 DEF Fields
  <1> QED
    BY <1>9
\* The columns of a table stay distinct when partition columns are added.
LEMMA PartitionsInjective ==
    ASSUME NEW T, NEW columns \in Seq(T), NEW keys \in Seq(T), IsInjective(columns)
    PROVE  IsInjective(append_partition_cols(columns, keys))
  <1> DEFINE n == Len(keys)
  <1>1. PICK f : Fields(f, T, columns, keys)
    BY FieldsSteps
  <1> DEFINE good == {k \in 0 .. n : IsInjective(f[k])}
  <1>2. n \in Nat /\ 0 \in 0 .. n /\ n \in 0 .. n
        /\ (\A k \in 1 .. n : k \in 0 .. n /\ k - 1 \in 0 .. n /\ keys[k] \in T)
    OBVIOUS
  <1>3. 0 \in good
    BY <1>1, <1>2 DEF Fields
  <1>4. ASSUME NEW k \in 1 .. n, k - 1 \in good PROVE k \in good
    <2>1. IsInjective(f[k - 1]) /\ f[k - 1] \in Seq(T) /\ keys[k] \in T
      BY <1>1, <1>2, <1>4 DEF Fields
    <2>2. f[k] = IF keys[k] \in Range(f[k - 1]) THEN f[k - 1] ELSE Append(f[k - 1], keys[k])
      BY <1>1 DEF Fields
    <2>3. IsInjective(f[k])
      BY <2>1, <2>2, AppendOne
    <2> QED
      BY <1>2, <2>3
  <1> HIDE DEF good
  <1>5. n \in good
    <2> HIDE DEF n
    <2> QED
      BY <1>2, <1>3, <1>4, UpToN
  <1> QED
    BY <1>1, <1>5 DEF good, Fields

-----------------------------------------------------------------------------
\* The sums of the first numbers, unfolded: they add up and never shrink.
LEMMA TotalsGrow ==
    ASSUME NEW amounts \in Seq(Nat)
    PROVE  /\ Totals(amounts) \in [0 .. Len(amounts) -> Nat]
           /\ Totals(amounts)[0] = 0
           /\ \A k \in 1 .. Len(amounts) : Totals(amounts)[k] = Totals(amounts)[k - 1] + amounts[k]
           /\ \A k \in 0 .. Len(amounts) : Totals(amounts)[k] <= Totals(amounts)[Len(amounts)]
  <1> DEFINE n == Len(amounts)
             E(k, s) == s + amounts[k]
             step == [x \in (1 .. n) \X Nat |-> E(x[1], x[2])]
             Def(size) == [k \in 0 .. n |->
                             IF k = 0 THEN 0 ELSE size[k - 1] + amounts[k]]
             F == CHOOSE f : f = Def(f)
  <1>1. n \in Nat /\ 0 \in Nat /\ step \in [(1 .. n) \X Nat -> Nat]
        /\ \A k \in 1 .. n : amounts[k] \in Nat
    <2>1. \A k \in 1 .. n : amounts[k] \in Nat
      OBVIOUS
    <2>2. ASSUME NEW k \in 1 .. n, NEW s \in Nat PROVE E(k, s) \in Nat
      BY <2>1, <2>2
    <2> HIDE DEF E
    <2>3. \A x \in (1 .. n) \X Nat : E(x[1], x[2]) \in Nat
      BY <2>2
    <2> QED
      BY <2>1, <2>3
  <1>2. ASSUME NEW k \in 1 .. n, NEW s \in Nat PROVE step[<<k, s>>] = E(k, s)
    <2> HIDE DEF E
    <2>1. <<k, s>> \in (1 .. n) \X Nat
      BY <1>2
    <2> QED
      BY <2>1
  <1>3. PICK f : Unrolls(f, n, Nat, 0, step)
    <2> HIDE DEF n, step
    <2> QED
      BY <1>1, RecursionExists
  <1>4. f = Def(f)
    <2> HIDE DEF step
    <2>1. f = [k \in 0 .. n |-> f[k]] /\ f[0] = 0
      BY <1>3 DEF Unrolls
    <2>2. \A k \in 1 .. n : f[k - 1] \in Nat /\ f[k] = E(k, f[k - 1])
      <3> HIDE DEF E
      <3>1. \A k \in 1 .. n : f[k - 1] \in Nat /\ f[k] = step[<<k, f[k - 1]>>]
        <4>1. \A k \in 1 .. n : k - 1 \in 0 .. n
          BY <1>1
        <4> HIDE DEF n
        <4> QED
          BY <1>3, <4>1 DEF Unrolls
      <3> QED
        BY <1>2, <3>1
    <2>3. \A k \in 0 .. n : f[k] = IF k = 0 THEN 0 ELSE E(k, f[k - 1])
      <3>1. \A k \in 0 .. n : k # 0 => k \in 1 .. n
        BY <1>1
      <3> HIDE DEF E, n
      <3> QED
        BY <2>1, <2>2, <3>1
    <2> QED
      BY <2>1, <2>3
  <1>5. F = Def(F)
    <2> HIDE DEF Def
    <2> QED
      BY <1>4
  <1> HIDE DEF F
  <1>6. /\ F = [k \in 0 .. n |-> F[k]] /\ F[0] = 0
        /\ \A k \in 1 .. n : F[k] = E(k, F[k - 1])
    <2>1. /\ Def(F) = [k \in 0 .. n |-> Def(F)[k]] /\ Def(F)[0] = 0
          /\ \A k \in 1 .. n : Def(F)[k] = E(k, F[k - 1])
      BY <1>1
    <2> HIDE DEF Def, E
    <2> QED
      BY <1>5, <2>1
  <1>7. Unrolls(F, n, Nat, 0, step)
    <2> HIDE DEF n, step, E
    <2>1. \A k \in 1 .. n : F[k - 1] \in Nat => F[k] = step[<<k, F[k - 1]>>]
      BY <1>2, <1>6
    <2> QED
      BY <1>1, <1>6, <2>1, RecursionTyped
  <1>8. Totals(amounts) = F
    BY DEF Totals, F
  <1>9. F \in [0 .. n -> Nat]
    BY <1>7 DEF Unrolls
  <1> DEFINE good == {k \in 0 .. n : \A j \in 0 .. k : F[j] <= F[k]}
  <1>10. 0 \in good
    BY <1>1, <1>6
  <1>11. ASSUME NEW k \in 1 .. n, k - 1 \in good PROVE k \in good
    <2>1. k \in 0 .. n /\ k - 1 \in 0 .. n /\ F[k] \in Nat /\ F[k - 1] \in Nat
          /\ F[k - 1] <= F[k]
      <3>1. k \in 0 .. n /\ k - 1 \in 0 .. n
        BY <1>1
      <3>2. F[k] \in Nat /\ F[k - 1] \in Nat
        BY <1>9, <3>1
      <3>3. F[k] = F[k - 1] + amounts[k] /\ amounts[k] \in Nat
        BY <1>1, <1>6
      <3> QED
        BY <3>1, <3>2, <3>3
    <2>2. ASSUME NEW j \in 0 .. k PROVE F[j] <= F[k]
      <3>1. CASE j = k
        BY <2>1, <3>1
      <3>2. CASE j # k
        <4>1. j \in 0 .. k - 1 /\ j \in 0 .. n
          BY <2>1, <3>2
        <4>2. F[j] <= F[k - 1] /\ F[j] \in Nat
          BY <1>9, <1>11, <4>1
        <4> QED
          BY <2>1, <4>2
      <3> QED
        BY <3>1, <3>2
    <2> QED
      BY <2>1, <2>2
  <1>12. n \in good
    <2>1. n \in 0 .. n
      BY <1>1
    <2> HIDE DEF good, n
    <2> QED
      BY <1>1, <1>10, <1>11, <2>1, UpToN
  <1> QED
    BY <1>6, <1>8, <1>9, <1>12

\* The sums of numbers that are each within a multiple of another are too.
LEMMA TotalsWithin ==
    ASSUME NEW few \in Seq(Nat), NEW many \in Seq(Nat), Len(few) = Len(many),
           \A k \in 1 .. Len(few) : few[k] <= BytesPerKiB * many[k]
    PROVE  Totals(few)[Len(few)] <= BytesPerKiB * Totals(many)[Len(many)]
  <1> DEFINE n == Len(few)
             F == Totals(few)
             M == Totals(many)
             good == {k \in 0 .. n : F[k] <= BytesPerKiB * M[k]}
  <1>1. /\ n \in Nat /\ n = Len(many)
        /\ F \in [0 .. n -> Nat] /\ F[0] = 0 /\ \A k \in 1 .. n : F[k] = F[k - 1] + few[k]
        /\ M \in [0 .. n -> Nat] /\ M[0] = 0 /\ \A k \in 1 .. n : M[k] = M[k - 1] + many[k]
    <2>1. Len(few) \in Nat
      OBVIOUS
    <2> QED
      BY <2>1, TotalsGrow, Zenon
  <1>2. \A k \in 1 .. n : few[k] \in Nat /\ many[k] \in Nat /\ few[k] <= BytesPerKiB * many[k]
    OBVIOUS
  <1> HIDE DEF n, F, M
  <1>3. 0 \in good
    BY <1>1 DEF BytesPerKiB
  <1>4. ASSUME NEW k \in 1 .. n, k - 1 \in good PROVE k \in good
    <2>1. k \in 0 .. n /\ k - 1 \in 0 .. n
      BY <1>1
    <2>2. F[k] \in Nat /\ F[k - 1] \in Nat /\ M[k] \in Nat /\ M[k - 1] \in Nat
      BY <1>1, <2>1
    <2>3. F[k] = F[k - 1] + few[k] /\ M[k] = M[k - 1] + many[k]
      BY <1>1
    <2>4. few[k] \in Nat /\ many[k] \in Nat /\ few[k] <= BytesPerKiB * many[k]
      BY <1>2
    <2>5. F[k - 1] <= BytesPerKiB * M[k - 1]
      BY <1>4
    <2>6. ASSUME NEW f \in Nat, NEW m \in Nat, NEW a \in Nat, NEW b \in Nat,
                 f <= BytesPerKiB * m, a <= BytesPerKiB * b
          PROVE  f + a <= BytesPerKiB * (m + b)
      BY <2>6 DEF BytesPerKiB
    <2>7. F[k] <= BytesPerKiB * M[k]
      BY <2>2, <2>3, <2>4, <2>5, <2>6
    <2> QED
      BY <2>1, <2>7
  <1> HIDE DEF good
  <1>5. n \in good
    <2>1. n \in 0 .. n
      BY <1>1
    <2> QED
      BY <1>1, <1>3, <1>4, <2>1, UpToN
  <1> QED
    BY <1>1, <1>5 DEF good, n, F, M

\* The sizes of the first batches never shrink.
LEMMA SizesGrow ==
    ASSUME NEW T, NEW batches \in Seq(T), \A b \in T : b.bytes \in Nat
    PROVE  /\ Sizes(batches) \in [0 .. Len(batches) -> Nat]
           /\ Sizes(batches)[0] = 0
           /\ \A k \in 0 .. Len(batches) : Sizes(batches)[k] <= Sizes(batches)[Len(batches)]
  <1> DEFINE amounts == [i \in DOMAIN batches |-> batches[i].bytes]
  <1>1. amounts \in Seq(Nat) /\ Len(amounts) = Len(batches)
    OBVIOUS
  <1>2. Sizes(batches) = Totals(amounts)
    BY DEF Sizes
  <1> HIDE DEF amounts
  <1> QED
    BY <1>1, <1>2, TotalsGrow

\* Where rows take bytes, a count of rows over the threshold is a size over it.
LEMMA RowsWithinBytes ==
    ASSUME NEW T, NEW full \in Seq(T),
           \A b \in T : b.bytes \in Nat /\ b.rows \in Nat, RowsTakeBytes(full)
    PROVE  /\ estimated_table_bytes(full) \in Nat /\ Bytes(full) \in Nat
           /\ estimated_table_bytes(full) <= BytesPerKiB * Bytes(full)
  <1> DEFINE rows == [i \in DOMAIN full |-> full[i].rows]
             sizes == [i \in DOMAIN full |-> full[i].bytes]
  <1>1. /\ rows \in Seq(Nat) /\ sizes \in Seq(Nat)
        /\ Len(rows) = Len(full) /\ Len(sizes) = Len(full) /\ Len(full) \in Nat
    OBVIOUS
  <1>2. \A k \in 1 .. Len(rows) : rows[k] <= BytesPerKiB * sizes[k]
    <2>1. \A k \in 1 .. Len(rows) : full[k].rows <= BytesPerKiB * full[k].bytes
      BY <1>1 DEF RowsTakeBytes, Range
    <2> QED
      BY <1>1, <2>1
  <1>3. /\ estimated_table_bytes(full) = Totals(rows)[Len(rows)]
        /\ Bytes(full) = Totals(sizes)[Len(sizes)]
    BY <1>1 DEF estimated_table_bytes, Bytes, Sizes
  <1> HIDE DEF rows, sizes
  <1>4. Totals(rows)[Len(rows)] \in Nat /\ Totals(sizes)[Len(sizes)] \in Nat
    <2>1. Totals(rows) \in [0 .. Len(rows) -> Nat] /\ Totals(sizes) \in [0 .. Len(sizes) -> Nat]
      BY <1>1, TotalsGrow
    <2>2. Len(rows) \in 0 .. Len(rows) /\ Len(sizes) \in 0 .. Len(sizes)
      BY <1>1
    <2> QED
      BY <2>1, <2>2, Zenon
  <1>5. Totals(rows)[Len(rows)] <= BytesPerKiB * Totals(sizes)[Len(sizes)]
    BY <1>1, <1>2, TotalsWithin
  <1> QED
    BY <1>3, <1>4, <1>5

\* Nothing read has no size.
LEMMA NothingRead == Bytes(<<>>) = 0
  <1> DEFINE none == <<>>
             T == {}
  <1>1. none \in Seq(T) /\ Len(none) = 0 /\ \A b \in T : b.bytes \in Nat
    OBVIOUS
  <1>2. Bytes(none) = Sizes(none)[Len(none)]
    BY DEF Bytes
  <1> HIDE DEF none, T
  <1>3. Sizes(none)[0] = 0
    BY <1>1, SizesGrow
  <1>4. Bytes(none) = 0
    BY <1>1, <1>2, <1>3
  <1> QED
    BY <1>4 DEF none

\* The batches of one file, and of two.
LEMMA FlattenOne ==
    ASSUME NEW a
    PROVE  FlattenSeq(<<a>>) = a
  <1> DEFINE seqs == <<a>>
             Def(f) == [i \in 1 .. Len(seqs) |->
                          IF i = 1 THEN seqs[i] ELSE f[i - 1] \o seqs[i]]
             F == CHOOSE f : f = Def(f)
             g == [i \in 1 .. 1 |-> a]
  <1>1. Len(seqs) = 1 /\ seqs[1] = a
    OBVIOUS
  <1>2. FlattenSeq(seqs) = F[1]
    <2>1. FlattenSeq(seqs) = F[Len(seqs)]
      BY <1>1 DEF FlattenSeq, F
    <2> HIDE DEF F, seqs
    <2> QED
      BY <1>1, <2>1
  <1>3. g = Def(g)
    <2>1. \A i \in 1 .. 1 : i = 1
      OBVIOUS
    <2> HIDE DEF seqs
    <2> QED
      BY <1>1, <2>1
  <1>4. F = Def(F)
    <2> HIDE DEF Def, g
    <2> QED
      BY <1>3
  <1> HIDE DEF F
  <1>5. Def(F)[1] = a
    <2> HIDE DEF seqs
    <2> QED
      BY <1>1
  <1> HIDE DEF Def
  <1>6. F[1] = a
    BY <1>4, <1>5
  <1> QED
    BY <1>2, <1>6

LEMMA FlattenTwo ==
    ASSUME NEW a, NEW b
    PROVE  FlattenSeq(<<a, b>>) = a \o b
  <1> DEFINE seqs == <<a, b>>
             Def(f) == [i \in 1 .. Len(seqs) |->
                          IF i = 1 THEN seqs[i] ELSE f[i - 1] \o seqs[i]]
             F == CHOOSE f : f = Def(f)
             g == [i \in 1 .. 2 |-> IF i = 1 THEN a ELSE a \o b]
  <1>1. Len(seqs) = 2 /\ seqs[1] = a /\ seqs[2] = b
    OBVIOUS
  <1>2. FlattenSeq(seqs) = F[2]
    <2>1. FlattenSeq(seqs) = F[Len(seqs)]
      BY <1>1 DEF FlattenSeq, F
    <2> HIDE DEF F, seqs
    <2> QED
      BY <1>1, <2>1
  <1>3. g = Def(g)
    <2>1. \A i \in 1 .. 2 : i = 1 \/ i = 2
      OBVIOUS
    <2>2. g[1] = a /\ g[2] = a \o b
      OBVIOUS
    <2>3. Def(g)[1] = a /\ Def(g)[2] = g[1] \o b
      <3> HIDE DEF seqs, g
      <3> QED
        BY <1>1
    <2>4. Def(g) = [i \in 1 .. 2 |-> Def(g)[i]]
      <3> HIDE DEF seqs, g
      <3> QED
        BY <1>1
    <2>5. g = [i \in 1 .. 2 |-> g[i]]
      OBVIOUS
    <2> HIDE DEF Def, g, seqs
    <2> QED
      BY <2>1, <2>2, <2>3, <2>4, <2>5
  <1>4. F = Def(F)
    <2> HIDE DEF Def, g
    <2> QED
      BY <1>3
  <1> HIDE DEF F
  <1>5. Def(F)[1] = a /\ Def(F)[2] = F[1] \o b
    <2> HIDE DEF seqs
    <2> QED
      BY <1>1
  <1> HIDE DEF Def
  <1>6. F[2] = a \o b
    BY <1>4, <1>5
  <1> QED
    BY <1>2, <1>6

LEMMA TwoFiles ==
    ASSUME NEW x, NEW y
    PROVE  <<x>> \o <<y>> = <<x, y>>
  <1> DEFINE T == {x, y}
             s == <<x>>
             t == <<y>>
             u == <<x, y>>
  <1>1. /\ s \in Seq(T) /\ t \in Seq(T) /\ u \in Seq(T)
        /\ Len(s) = 1 /\ Len(t) = 1 /\ Len(u) = 2
        /\ s[1] = x /\ t[1] = y /\ u[1] = x /\ u[2] = y
    OBVIOUS
  <1> HIDE DEF T, s, t, u
  <1>2. /\ s \o t \in Seq(T) /\ Len(s \o t) = 2
        /\ \A i \in 1 .. 2 : (s \o t)[i] = IF i <= 1 THEN s[i] ELSE t[i - 1]
    BY <1>1, ConcatProperties
  <1>3. (s \o t)[1] = u[1] /\ (s \o t)[2] = u[2]
    BY <1>1, <1>2
  <1>4. \A i \in 1 .. Len(s \o t) : (s \o t)[i] = u[i]
    <2>1. \A i \in 1 .. 2 : i = 1 \/ i = 2
      OBVIOUS
    <2> QED
      BY <1>2, <1>3, <2>1
  <1>5. s \o t = u
    BY <1>1, <1>2, <1>4, SeqEqual
  <1> QED
    BY <1>5 DEF s, t, u

LEMMA HeadIsFirst ==
    ASSUME NEW T, NEW s \in Seq(T), s # <<>>
    PROVE  Head(s) = s[1] /\ s[1] \in T
  OBVIOUS

\* The files of a demoted build hold its batches, the first after those
\* buffered with it.
LEMMA DemotedKeeps ==
    ASSUME NEW T, NEW full \in Seq(T), NEW m \in 1 .. Len(full)
    PROVE  LET g == FlattenSeq(Demoted(SubSeq(full, 1, m), SubSeq(full, m + 1, Len(full))))
           IN /\ g \in Seq(T)
              /\ Range(g) = Range(full)
              /\ IsInjective(full) => IsInjective(g)
  <1> DEFINE n == Len(full)
             buffer == SubSeq(full, 1, m)
             rest == SubSeq(full, m + 1, n)
             last == <<Head(buffer)>> \o rest
             g == FlattenSeq(Demoted(buffer, rest))
             p == [i \in 1 .. n |-> IF i < m THEN i + 1 ELSE IF i = m THEN 1 ELSE i]
  <1>1. n \in Nat /\ m \in Nat /\ 1 <= m /\ m <= n /\ DOMAIN full = 1 .. n
    OBVIOUS
  <1>2. /\ buffer \in Seq(T) /\ Len(buffer) = m /\ \A i \in 1 .. m : buffer[i] = full[i]
        /\ rest \in Seq(T) /\ Len(rest) = n - m /\ \A i \in 1 .. n - m : rest[i] = full[m + i]
    <2>1. \A i \in 1 .. n : full[i] \in T
      OBVIOUS
    <2>2. \A i \in 1 .. m : i \in 1 .. n /\ 1 + i - 1 = i
      BY <1>1
    <2>3. \A i \in m + 1 .. n : i \in 1 .. n
      BY <1>1
    <2>4. m - 1 + 1 = m /\ 1 <= m
      BY <1>1
    <2>5. \A i \in 1 .. m : full[i] \in T
      BY <2>1, <2>2
    <2>6. \A i \in m + 1 .. n : full[i] \in T
      BY <2>1, <2>3
    <2>7. /\ buffer \in Seq(T) /\ Len(buffer) = IF 1 <= m THEN m - 1 + 1 ELSE 0
          /\ \A i \in 1 .. m - 1 + 1 : buffer[i] = full[1 + i - 1]
      <3> HIDE DEF n
      <3> QED
        BY <1>1, <2>5, SubSeqProperties
    <2>8. buffer \in Seq(T) /\ Len(buffer) = m /\ \A i \in 1 .. m : buffer[i] = full[i]
      <3> HIDE DEF buffer
      <3> QED
        BY <2>2, <2>4, <2>7
    <2>9. /\ rest \in Seq(T) /\ Len(rest) = IF m + 1 <= n THEN n - (m + 1) + 1 ELSE 0
          /\ \A i \in 1 .. n - (m + 1) + 1 : rest[i] = full[m + 1 + i - 1]
      <3>1. m + 1 \in Int /\ n \in Int
        BY <1>1
      <3> HIDE DEF n
      <3> QED
        BY <2>6, <3>1, SubSeqProperties
    <2> HIDE DEF rest, buffer, n
    <2>10. Len(rest) = n - m
      BY <1>1, <2>9
    <2>11. ASSUME NEW i \in 1 .. n - m PROVE rest[i] = full[m + i]
      <3>1. i \in 1 .. n - (m + 1) + 1 /\ m + 1 + i - 1 = m + i
        BY <1>1
      <3> QED
        BY <2>9, <3>1
    <2> QED
      BY <2>8, <2>9, <2>10, <2>11
  <1>3. Head(buffer) = full[1] /\ full[1] \in T
    <2>1. buffer # <<>> /\ 1 \in 1 .. m
      <3> HIDE DEF buffer, n
      <3> QED
        BY <1>1, <1>2
    <2>2. Head(buffer) = buffer[1] /\ buffer[1] \in T
      <3> HIDE DEF buffer
      <3> QED
        BY <1>2, <2>1, HeadIsFirst
    <2> HIDE DEF buffer
    <2> QED
      BY <1>2, <2>1, <2>2
  <1>4. /\ last \in Seq(T) /\ Len(last) = n - m + 1 /\ last[1] = full[1]
        /\ \A i \in 2 .. n - m + 1 : last[i] = full[m + i - 1]
    <2> HIDE DEF buffer, rest
    <2>1. /\ <<Head(buffer)>> \in Seq(T) /\ Len(<<Head(buffer)>>) = 1
          /\ <<Head(buffer)>>[1] = full[1]
      BY <1>3
    <2>2. last \in Seq(T) /\ Len(last) = 1 + (n - m)
      BY <1>1, <1>2, <2>1
    <2>3. last[1] = full[1]
      BY <1>1, <1>2, <2>1
    <2>4. ASSUME NEW i \in 2 .. n - m + 1 PROVE last[i] = full[m + i - 1]
      <3>1. i - 1 \in 1 .. n - m /\ m + (i - 1) = m + i - 1
        BY <1>1
      <3>2. last[i] = rest[i - 1]
        BY <1>1, <1>2, <2>1
      <3> QED
        BY <1>2, <3>1, <3>2
    <2> QED
      BY <1>1, <2>2, <2>3, <2>4
  <1> HIDE DEF last
  <1>5. g \in Seq(T) /\ Len(g) = n /\ \A i \in 1 .. n : g[i] = full[p[i]]
    <2>1. CASE m = 1
      <3>1. Demoted(buffer, rest) = <<last>>
        <4>1. Demoted(buffer, rest) = <<>> \o <<last>>
          <5> HIDE DEF buffer, rest, n
          <5> QED
            BY <1>2, <2>1 DEF Demoted, last
        <4>2. <<>> \o <<last>> = <<last>>
          OBVIOUS
        <4> QED
          BY <4>1, <4>2, Zenon
      <3>2. g = last
        BY <3>1, FlattenOne
      <3>3. ASSUME NEW i \in 1 .. n PROVE last[i] = full[p[i]]
        BY <1>1, <1>4, <2>1, <3>3
      <3> QED
        BY <1>1, <1>4, <2>1, <3>2, <3>3
    <2>2. CASE m > 1
      <3>1. Demoted(buffer, rest) = <<Tail(buffer), last>>
        <4>1. Demoted(buffer, rest) = <<Tail(buffer)>> \o <<last>>
          <5> HIDE DEF buffer, rest, n
          <5> QED
            BY <1>2, <2>2 DEF Demoted, last
        <4> QED
          BY <4>1, TwoFiles, Zenon
      <3>2. g = Tail(buffer) \o last
        BY <3>1, FlattenTwo
      <3> DEFINE t == Tail(buffer)
      <3>3. t \in Seq(T) /\ Len(t) = m - 1 /\ \A i \in 1 .. m - 1 : t[i] = full[i + 1]
        <4> HIDE DEF buffer
        <4>1. t \in Seq(T) /\ Len(t) = m - 1 /\ \A i \in 1 .. m - 1 : t[i] = buffer[i + 1]
          BY <1>1, <1>2, <2>2
        <4>2. \A i \in 1 .. m - 1 : i + 1 \in 1 .. m
          BY <1>1
        <4> QED
          BY <1>2, <4>1, <4>2
      <3> HIDE DEF t, g, buffer, rest
      <3>4. g = t \o last
        BY <3>2 DEF t
      <3>5. g \in Seq(T) /\ Len(g) = n
        <4>1. g \in Seq(T) /\ Len(g) = Len(t) + Len(last)
          BY <1>4, <3>3, <3>4, ConcatProperties
        <4> QED
          BY <1>1, <1>4, <3>3, <4>1
      <3>6. ASSUME NEW i \in 1 .. n PROVE g[i] = full[p[i]]
        <4>1. CASE i < m
          <5>1. i \in 1 .. m - 1
            BY <1>1, <4>1
          <5>2. g[i] = t[i]
            BY <1>1, <1>4, <3>3, <3>4, <5>1
          <5> QED
            BY <3>3, <4>1, <5>1, <5>2
        <4>2. CASE i >= m
          <5>1. i - (m - 1) \in 1 .. n - m + 1 /\ i \in (m - 1) + 1 .. (m - 1) + (n - m + 1)
            BY <1>1, <4>2
          <5>2. g[i] = last[i - (m - 1)]
            BY <1>1, <1>4, <3>3, <3>4, <5>1
          <5>3. CASE i = m
            <6>1. i - (m - 1) = 1
              BY <1>1, <5>3
            <6>2. p[i] = 1
              BY <1>1, <5>3
            <6> QED
              BY <1>4, <5>2, <6>1, <6>2
          <5>4. CASE i # m
            <6>1. i - (m - 1) \in 2 .. n - m + 1 /\ m + (i - (m - 1)) - 1 = i
              BY <1>1, <4>2, <5>1, <5>4
            <6>2. p[i] = i
              BY <1>1, <4>2, <5>4
            <6> QED
              BY <1>4, <5>2, <6>1, <6>2
          <5> QED
            BY <5>3, <5>4
        <4> QED
          BY <1>1, <4>1, <4>2
      <3> QED
        BY <3>5, <3>6
    <2> QED
      BY <1>1, <2>1, <2>2
  <1>6. /\ \A i \in 1 .. n : p[i] \in 1 .. n
        /\ \A i, j \in 1 .. n : p[i] = p[j] => i = j
        /\ \A j \in 1 .. n : \E i \in 1 .. n : p[i] = j
    <2>1. ASSUME NEW i \in 1 .. n PROVE p[i] \in 1 .. n
      BY <1>1
    <2>2. ASSUME NEW i \in 1 .. n, NEW j \in 1 .. n, p[i] = p[j] PROVE i = j
      BY <1>1, <2>2
    <2>3. ASSUME NEW j \in 1 .. n PROVE \E i \in 1 .. n : p[i] = j
      <3>1. CASE j = 1
        BY <1>1, <3>1
      <3>2. CASE j > m
        BY <1>1, <3>2
      <3>3. CASE j > 1 /\ j <= m
        <4>1. j - 1 \in 1 .. n /\ j - 1 < m /\ j - 1 + 1 = j
          BY <1>1, <3>3
        <4> QED
          BY <4>1
      <3> QED
        BY <1>1, <3>1, <3>2, <3>3
    <2> QED
      BY <2>1, <2>2, <2>3
  <1>7. DOMAIN g = 1 .. n
    BY <1>5
  <1> HIDE DEF p, g, n
  <1>8. \A i \in 1 .. n : g[i] = full[p[i]]
    BY <1>5
  <1> DEFINE dom == 1 .. n
  <1>9. /\ DOMAIN g = dom /\ DOMAIN full = dom /\ \A i \in dom : g[i] = full[p[i]]
        /\ \A i \in dom : p[i] \in dom
        /\ \A i, j \in dom : p[i] = p[j] => i = j
        /\ \A j \in dom : \E i \in dom : p[i] = j
    BY <1>1, <1>6, <1>7, <1>8
  <1> HIDE DEF dom
  <1>10. Range(g) = Range(full)
    <2>1. ASSUME NEW i \in dom PROVE g[i] \in {full[j] : j \in dom}
      BY <1>9
    <2>2. ASSUME NEW j \in dom PROVE full[j] \in {g[i] : i \in dom}
      <3>1. PICK i \in dom : p[i] = j
        BY <1>9
      <3>2. g[i] = full[j]
        BY <1>9, <3>1
      <3> QED
        BY <3>2
    <2> QED
      BY <1>9, <2>1, <2>2 DEF Range
  <1>11. ASSUME IsInjective(full) PROVE IsInjective(g)
    <2>1. ASSUME NEW i \in dom, NEW j \in dom, g[i] = g[j] PROVE i = j
      <3>1. full[p[i]] = full[p[j]] /\ p[i] \in dom /\ p[j] \in dom
        BY <1>9, <2>1
      <3>2. p[i] = p[j]
        <4>1. \A a, b \in dom : full[a] = full[b] => a = b
          BY <1>9, <1>11, Zenon DEF IsInjective
        <4> QED
          BY <3>1, <4>1
      <3> QED
        BY <1>9, <3>2
    <2> QED
      BY <1>9, <2>1 DEF IsInjective
  <1> QED
    BY <1>5, <1>10, <1>11 DEF g, n

\* The ids of batches.
IdsOf(batches) == [i \in DOMAIN batches |-> batches[i].id]

LEMMA IdsKept ==
    ASSUME NEW T, NEW s \in Seq(T), IsInjective(s),
           \A x, y \in T : x.id = y.id => x = y
    PROVE  /\ IdsOf(s) \in Seq({b.id : b \in T})
           /\ IsInjective(IdsOf(s))
           /\ Range(IdsOf(s)) = {b.id : b \in Range(s)}
  <1>1. DOMAIN s = 1 .. Len(s) /\ Len(s) \in Nat /\ \A i \in DOMAIN s : s[i] \in T
    OBVIOUS
  <1>2. DOMAIN IdsOf(s) = DOMAIN s /\ \A i \in DOMAIN s : IdsOf(s)[i] = s[i].id
    BY DEF IdsOf
  <1>3. IdsOf(s) \in Seq({b.id : b \in T})
    BY <1>1 DEF IdsOf
  <1>4. IsInjective(IdsOf(s))
    BY <1>1, <1>2 DEF IsInjective
  <1>5. Range(IdsOf(s)) = {b.id : b \in Range(s)}
    BY <1>2 DEF Range
  <1> QED
    BY <1>3, <1>4, <1>5

LEMMA NoIds == IdsOf(<<>>) = <<>> /\ FlattenSeq(<<>>) = <<>>
  <1>1. IdsOf(<<>>) = <<>>
    BY DEF IdsOf
  <1>2. FlattenSeq(<<>>) = <<>>
    BY DEF FlattenSeq
  <1> QED
    BY <1>1, <1>2

\* A stream: batches whose ids tell them apart, with their sizes.
IsStream(T, stream) ==
    /\ stream \in Seq(T) /\ IsInjective(stream)
    /\ \A b \in T : b.bytes \in Nat /\ b.rows \in Nat
    /\ \A x, y \in T : x.id = y.id => x = y

\* The rows a build has, in memory and on disk.
RowsOf(r) == IdsOf(r.held) \o IdsOf(FlattenSeq(r.files))

LEMMA MemoryRows ==
    ASSUME NEW T, NEW full, IsStream(T, full), NEW exceeded
    PROVE  /\ RowsOf(InMemory(full, exceeded)) = IdsOf(full)
           /\ InMemory(full, exceeded).held = full
           /\ InMemory(full, exceeded).err = "ok"
           /\ InMemory(full, exceeded).exceeded = exceeded
  <1> DEFINE r == InMemory(full, exceeded)
             ids == IdsOf(full)
             none == <<>>
             S == {b.id : b \in T}
  <1>1. r.held = full /\ r.files = none /\ r.err = "ok" /\ r.exceeded = exceeded
    BY DEF InMemory
  <1>2. ids \in Seq(S)
    BY IdsKept DEF IsStream
  <1>3. IdsOf(FlattenSeq(none)) = none
    BY NoIds
  <1> HIDE DEF r, ids, S
  <1>4. ids \o none = ids
    BY <1>2, ConcatEmptySeq
  <1> HIDE DEF none
  <1>5. RowsOf(r) = ids
    BY <1>1, <1>3, <1>4, Zenon DEF RowsOf, ids
  <1> QED
    BY <1>1, <1>5 DEF r, ids

LEMMA DiskRows ==
    ASSUME NEW T, NEW files, IsStream(T, FlattenSeq(files)), NEW demoted
    PROVE  /\ RowsOf(OnDisk(files, demoted)) = IdsOf(FlattenSeq(files))
           /\ OnDisk(files, demoted).held = <<>>
           /\ OnDisk(files, demoted).err = "ok"
  <1> DEFINE r == OnDisk(files, demoted)
             ids == IdsOf(FlattenSeq(files))
             none == <<>>
             S == {b.id : b \in T}
  <1>1. r.held = none /\ r.files = files /\ r.err = "ok"
    BY DEF OnDisk
  <1>2. ids \in Seq(S)
    BY IdsKept DEF IsStream
  <1>3. IdsOf(none) = none
    BY NoIds
  <1> HIDE DEF r, ids, S
  <1>4. none \o ids = ids
    BY <1>2, ConcatEmptySeq
  <1> HIDE DEF none
  <1>5. RowsOf(r) = ids
    BY <1>1, <1>3, <1>4, Zenon DEF RowsOf, ids
  <1> QED
    BY <1>1, <1>5 DEF r, ids, none

\* The batches with rows are a stream of their own.
LEMMA NotEmptyStream ==
    ASSUME NEW T, NEW stream, IsStream(T, stream)
    PROVE  IsStream(T, NotEmpty(stream))
  <1> DEFINE S == {b \in Range(stream) : b.rows > 0}
  <1>1. NotEmpty(stream) = Selected(stream, S)
    BY DEF NotEmpty
  <1> HIDE DEF S
  <1>2. Selected(stream, S) \in Seq(T) /\ IsInjective(Selected(stream, S))
    BY SelectedRange, SelectedInjective DEF IsStream
  <1> QED
    BY <1>1, <1>2 DEF IsStream

\* build_query_auto crosses its threshold exactly when the whole is too large,
\* and what it then writes has the batches of the stream.
LEMMA AutoBuilt ==
    ASSUME NEW T, NEW stream, IsStream(T, stream), NEW threshold \in Nat,
           NotEmpty(stream) # <<>>
    PROVE  LET full == NotEmpty(stream)
               r == build_query_auto(stream, threshold)
           IN /\ ~ (Bytes(full) > threshold) => r = InMemory(full, FALSE)
              /\ Bytes(full) > threshold =>
                   \E files : /\ r = OnDisk(files, TRUE)
                              /\ IsStream(T, FlattenSeq(files))
                              /\ Range(FlattenSeq(files)) = Range(full)
  <1> DEFINE full == NotEmpty(stream)
             n == Len(full)
             size == Sizes(full)
             crossing == {k \in DOMAIN full : size[k] > threshold}
             m == Min(crossing)
             files == Demoted(SubSeq(full, 1, m), SubSeq(full, m + 1, n))
             r == build_query_auto(stream, threshold)
  <1>1. r = IF crossing = {} THEN InMemory(full, FALSE) ELSE OnDisk(files, TRUE)
    BY DEF build_query_auto
  <1>2. IsStream(T, full)
    BY NotEmptyStream
  <1> HIDE DEF r
  <1>3. full # <<>>
    OBVIOUS
  <1>4. Bytes(full) = size[n]
    BY DEF Bytes
  <1> HIDE DEF full
  <1>5. full \in Seq(T) /\ IsInjective(full) /\ \A b \in T : b.bytes \in Nat
    BY <1>2 DEF IsStream
  <1>6. n \in Nat /\ DOMAIN full = 1 .. n /\ n \in 1 .. n /\ \A k \in 1 .. n : k \in 0 .. n
    BY <1>3, <1>5
  <1>7. size \in [0 .. n -> Nat] /\ \A k \in 0 .. n : size[k] <= size[n]
    BY <1>5, SizesGrow
  <1>8. crossing = {} <=> ~ (Bytes(full) > threshold)
    <2> HIDE DEF size
    <2>1. ASSUME NEW k \in 1 .. n, size[k] > threshold PROVE size[n] > threshold
      <3>1. k \in 0 .. n /\ n \in 0 .. n
        BY <1>6
      <3>2. size[k] \in Nat /\ size[n] \in Nat /\ size[k] <= size[n]
        BY <1>7, <3>1
      <3> QED
        BY <2>1, <3>2
    <2> QED
      BY <1>4, <1>6, <2>1
  <1>9. ASSUME crossing # {}
        PROVE  IsStream(T, FlattenSeq(files)) /\ Range(FlattenSeq(files)) = Range(full)
    <2>1. crossing \in SUBSET Nat /\ crossing \subseteq 1 .. n
      BY <1>6
    <2>2. m \in 1 .. n
      <3> HIDE DEF crossing
      <3> QED
        BY <1>9, <2>1, MinIsLeast
    <2> HIDE DEF m
    <2>3. /\ FlattenSeq(files) \in Seq(T) /\ Range(FlattenSeq(files)) = Range(full)
          /\ IsInjective(FlattenSeq(files))
      BY <1>5, <2>2, DemotedKeeps
    <2> QED
      BY <1>2, <2>3 DEF IsStream
  <1> HIDE DEF crossing, files
  <1>10. Bytes(full) > threshold => r = OnDisk(files, TRUE) /\ crossing # {}
    BY <1>1, <1>8
  <1>11. ~ (Bytes(full) > threshold) => r = InMemory(full, FALSE)
    BY <1>1, <1>8
  <1> QED
    BY <1>9, <1>10, <1>11 DEF full, r

\* What BuildKeepsRows asks of two builds that put the stream in one place.
LEMMA SameRows ==
    ASSUME NEW T, NEW full, NEW one, NEW two, IsStream(T, full), IsStream(T, one),
           IsStream(T, two), Range(one) = Range(full), Range(two) = Range(full)
    PROVE  /\ IsInjective(IdsOf(one))
           /\ Range(IdsOf(one)) = Range(IdsOf(full))
           /\ Range(IdsOf(one)) = Range(IdsOf(two))
  BY IdsKept DEF IsStream

\* A build of a query dataset keeps every row of the stream, whatever batches
\* it comes in, in memory, on disk and when it is demoted half way
\* (build_query_dataset, build_query_auto, register_query_with_storage); only
\* memory residency holds more than the threshold in DataFusion, and DuckDB,
\* which compares a count of rows, demotes no more than DataFusion does as long
\* as rows take at least a byte.
THEOREM BuildsKeepRows ==
    ASSUME NEW T, NEW stream, IsStream(T, stream),
           NEW residency \in {"auto", "memory", "lazy"},
           NEW storage, storage = {} \/ \E s : s.threshold \in Nat /\ storage = {s}
    PROVE  BuildKeepsRows(residency, storage, stream)
  <1> DEFINE df == build_query_dataset(residency, storage, stream)
             duck == duck_build_query(residency, storage, stream)
             full == NotEmpty(stream)
             Kept == /\ IsInjective(RowsOf(df))
                     /\ Range(RowsOf(df)) = Range(IdsOf(full))
                     /\ Range(RowsOf(df)) = Range(RowsOf(duck))
                     /\ residency = "auto" \/ (df.held = <<>>) = (duck.held = <<>>)
                     /\ RowsTakeBytes(full) => (duck.held = <<>> => df.held = <<>>)
             Within == \A s \in storage :
                         Bytes(df.held) > s.threshold => residency = "memory" /\ df.exceeded
  <1>1. SUFFICES (df.err = "ok" => Kept) /\ Within
    BY Zenon DEF BuildKeepsRows, RowsOf, IdsOf
  <1>2. IsStream(T, full)
    BY NotEmptyStream
  <1>3. FlattenSeq(<<full>>) = full
    BY FlattenOne
  <1>4. \A s \in storage : s.threshold \in Nat
    OBVIOUS
  <1>5. \A s \in storage : ~ (Bytes(<<>>) > s.threshold)
    BY <1>4, NothingRead
  <1>6. ASSUME NEW err, df = Failed(err), err # "ok"
        PROVE  (df.err = "ok" => Kept) /\ Within
    <2>1. df.err = err /\ df.held = <<>>
      BY <1>6 DEF Failed
    <2> HIDE DEF df
    <2> QED
      BY <1>5, <1>6, <2>1
  <1>7. ASSUME NEW exceeded, NEW over, full # <<>>,
               df = InMemory(full, exceeded), duck = InMemory(full, over),
               \A s \in storage : Bytes(full) > s.threshold => residency = "memory" /\ exceeded
        PROVE  (df.err = "ok" => Kept) /\ Within
    <2>1. RowsOf(df) = IdsOf(full) /\ df.held = full /\ df.exceeded = exceeded
      BY <1>2, <1>7, MemoryRows
    <2>2. RowsOf(duck) = IdsOf(full) /\ duck.held = full
      BY <1>2, <1>7, MemoryRows
    <2>3. IsInjective(IdsOf(full))
      BY <1>2, SameRows
    <2> HIDE DEF df, duck, full
    <2> QED
      BY <1>7, <2>1, <2>2, <2>3
  <1>8. ASSUME NEW files, NEW demoted, df = OnDisk(files, demoted), full # <<>>,
               duck = OnDisk(<<full>>, TRUE) \/ (residency = "auto" /\ duck = InMemory(full, FALSE)),
               IsStream(T, FlattenSeq(files)), Range(FlattenSeq(files)) = Range(full)
        PROVE  (df.err = "ok" => Kept) /\ Within
    <2>1. RowsOf(df) = IdsOf(FlattenSeq(files)) /\ df.held = <<>>
      BY <1>8, DiskRows
    <2>2. RowsOf(duck) = IdsOf(full) /\ (duck.held = <<>> \/ residency = "auto")
      <3> DEFINE all == <<full>>
      <3>1. IsStream(T, FlattenSeq(all)) /\ IdsOf(FlattenSeq(all)) = IdsOf(full)
        BY <1>2, <1>3, Zenon
      <3> HIDE DEF all
      <3>2. RowsOf(OnDisk(all, TRUE)) = IdsOf(FlattenSeq(all)) /\ OnDisk(all, TRUE).held = <<>>
        BY <3>1, DiskRows, Zenon
      <3>3. RowsOf(InMemory(full, FALSE)) = IdsOf(full)
        BY <1>2, MemoryRows
      <3> HIDE DEF duck, full
      <3> QED
        BY <1>8, <3>1, <3>2, <3>3, Zenon DEF all
    <2>3. /\ IsInjective(IdsOf(FlattenSeq(files)))
          /\ Range(IdsOf(FlattenSeq(files))) = Range(IdsOf(full))
      BY <1>2, <1>8, SameRows
    <2> HIDE DEF df, duck, full
    <2> QED
      BY <1>5, <1>8, <2>1, <2>2, <2>3
  <1>9. CASE residency = "lazy"
    <2>1. CASE storage = {}
      <3>1. df = Failed("Internal")
        BY <1>9, <2>1 DEF build_query_dataset, effective_residency
      <3> HIDE DEF df
      <3> QED
        BY <1>6, <3>1
    <2>2. CASE storage # {} /\ full = <<>>
      <3>1. df = Failed("EmptyDataset")
        BY <1>9, <2>2 DEF build_query_dataset, effective_residency
      <3> QED
        BY <1>6, <3>1
    <2>3. CASE storage # {} /\ full # <<>>
      <3>1. df = OnDisk(<<full>>, FALSE) /\ duck = OnDisk(<<full>>, TRUE)
        BY <1>9, <2>3 DEF build_query_dataset, effective_residency, duck_build_query
      <3>2. IsStream(T, FlattenSeq(<<full>>)) /\ Range(FlattenSeq(<<full>>)) = Range(full)
        BY <1>2, <1>3, Zenon
      <3> QED
        BY <1>8, <2>3, <3>1, <3>2, Zenon
    <2> QED
      BY <2>1, <2>2, <2>3
  <1>10. CASE residency = "memory"
    <2>1. CASE full = <<>>
      <3>1. df = Failed("EmptyDataset")
        BY <1>10, <2>1 DEF build_query_dataset, effective_residency
      <3> QED
        BY <1>6, <3>1
    <2>2. CASE full # <<>>
      <3> DEFINE exceeded == \E s \in storage : Bytes(full) > s.threshold
                 over == \E s \in storage : QuotedNameBytes > BytesPerKiB * s.threshold
      <3>1. df = InMemory(full, exceeded) /\ duck = InMemory(full, over)
        BY <1>10, <2>2, Zenon DEF build_query_dataset, effective_residency, duck_build_query
      <3>2. \A s \in storage : Bytes(full) > s.threshold => residency = "memory" /\ exceeded
        BY <1>10
      <3> QED
        BY <1>7, <2>2, <3>1, <3>2, Zenon
    <2> QED
      BY <2>1, <2>2
  <1>11. CASE residency = "auto" /\ storage = {}
    <2>1. CASE full = <<>>
      <3>1. df = Failed("EmptyDataset")
        BY <1>11, <2>1 DEF build_query_dataset, effective_residency
      <3> QED
        BY <1>6, <3>1
    <2>2. CASE full # <<>>
      <3> DEFINE exceeded == \E s \in storage : Bytes(full) > s.threshold
      <3>1. df = InMemory(full, exceeded)
        BY <1>11, <2>2, Zenon DEF build_query_dataset, effective_residency
      <3>2. duck = InMemory(full, FALSE)
        BY <1>11, <2>2, Zenon DEF duck_build_query
      <3>3. \A s \in storage : Bytes(full) > s.threshold => residency = "memory" /\ exceeded
        BY <1>11
      <3> QED
        BY <1>7, <2>2, <3>1, <3>2, <3>3, Zenon
    <2> QED
      BY <2>1, <2>2
  <1>12. ASSUME NEW s, s.threshold \in Nat, storage = {s}, residency = "auto"
         PROVE  (df.err = "ok" => Kept) /\ Within
    <2>1. (CHOOSE x \in storage : TRUE) = s /\ storage # {}
      BY <1>12
    <2>2. df = build_query_auto(stream, s.threshold)
      <3> DEFINE x == CHOOSE y \in storage : TRUE
      <3>1. df = build_query_auto(stream, x.threshold)
        BY <1>12, <2>1, Zenon DEF build_query_dataset, effective_residency
      <3>2. x = s
        BY <2>1
      <3> HIDE DEF x, df
      <3> QED
        BY <3>1, <3>2
    <2> DEFINE over == \E x \in storage : estimated_table_bytes(full) > BytesPerKiB * x.threshold
    <2>6. duck = IF over THEN OnDisk(<<full>>, TRUE) ELSE InMemory(full, FALSE)
      BY <1>12, <2>1, Zenon DEF duck_build_query
    <2>7. over /\ RowsTakeBytes(full) => Bytes(full) > s.threshold
      <3> SUFFICES ASSUME over, RowsTakeBytes(full) PROVE Bytes(full) > s.threshold
        OBVIOUS
      <3>1. full \in Seq(T) /\ \A b \in T : b.bytes \in Nat /\ b.rows \in Nat
        BY <1>2 DEF IsStream
      <3> HIDE DEF full
      <3>2. /\ estimated_table_bytes(full) \in Nat /\ Bytes(full) \in Nat
            /\ estimated_table_bytes(full) <= BytesPerKiB * Bytes(full)
        BY <3>1, RowsWithinBytes
      <3>3. estimated_table_bytes(full) > BytesPerKiB * s.threshold
        BY <1>12
      <3> QED
        BY <1>12, <3>2, <3>3 DEF BytesPerKiB
    <2> HIDE DEF over
    <2>3. CASE full = <<>>
      <3>1. df = Failed("EmptyDataset")
        BY <2>2, <2>3 DEF build_query_auto
      <3> HIDE DEF df
      <3> QED
        BY <1>6, <3>1
    <2>4. CASE full # <<>> /\ ~ (Bytes(full) > s.threshold)
      <3>1. df = InMemory(full, FALSE)
        BY <1>12, <2>2, <2>4, AutoBuilt
      <3>2. duck = InMemory(full, FALSE) \/ (duck = OnDisk(<<full>>, TRUE) /\ ~RowsTakeBytes(full))
        BY <2>6, <2>7, <2>4
      <3>3. \A x \in storage : Bytes(full) > x.threshold => residency = "memory" /\ FALSE
        BY <1>12, <2>4
      <3>4. CASE duck = InMemory(full, FALSE)
        BY <1>7, <2>4, <3>1, <3>3, <3>4, Zenon
      <3>5. CASE duck = OnDisk(<<full>>, TRUE) /\ ~RowsTakeBytes(full)
        <4>1. RowsOf(df) = IdsOf(full) /\ df.held = full
          <5>1. /\ RowsOf(InMemory(full, FALSE)) = IdsOf(full)
                /\ InMemory(full, FALSE).held = full
            BY <1>2, MemoryRows
          <5> HIDE DEF df, full
          <5> QED
            BY <3>1, <5>1
        <4>2. RowsOf(duck) = IdsOf(full)
          <5> DEFINE all == <<full>>
          <5>1. IsStream(T, FlattenSeq(all)) /\ IdsOf(FlattenSeq(all)) = IdsOf(full)
            BY <1>2, <1>3, Zenon
          <5> HIDE DEF all
          <5>2. RowsOf(OnDisk(all, TRUE)) = IdsOf(FlattenSeq(all))
            BY <5>1, DiskRows, Zenon
          <5> HIDE DEF duck, full
          <5> QED
            BY <3>5, <5>1, <5>2, Zenon DEF all
        <4>3. IsInjective(IdsOf(full))
          BY <1>2, SameRows
        <4> HIDE DEF df, duck, full
        <4> QED
          BY <1>12, <2>4, <3>3, <3>5, <4>1, <4>2, <4>3
      <3> QED
        BY <3>2, <3>4, <3>5
    <2>5. CASE full # <<>> /\ Bytes(full) > s.threshold
      <3>1. PICK files : /\ df = OnDisk(files, TRUE)
                         /\ IsStream(T, FlattenSeq(files))
                         /\ Range(FlattenSeq(files)) = Range(full)
        BY <1>12, <2>2, <2>5, AutoBuilt, ZenonT(40)
      <3>2. duck = OnDisk(<<full>>, TRUE) \/ duck = InMemory(full, FALSE)
        BY <2>6
      <3> QED
        BY <1>8, <1>12, <2>5, <3>1, <3>2, Zenon
    <2> QED
      BY <2>3, <2>4, <2>5
  <1> QED
    BY <1>9, <1>10, <1>11, <1>12

-----------------------------------------------------------------------------
\* Both backends read a dataset with its own credentials, whatever is set in
\* the environment, as long as buckets and, in DuckDB, the names of secrets are
\* not shared (register_s3_object_store, build_s3_secret_sql).
THEOREM CredentialsKept ==
    ASSUME NEW T, NEW ds \in Seq(T), NEW env
    PROVE  OwnCredentials(ds, env)
  <1> DEFINE bucket == [i \in DOMAIN ds |-> ds[i].bucket]
             names == [i \in DOMAIN ds |-> Prefix[ds[i].name]]
  <1>1. SUFFICES ASSUME IsInjective(bucket), NEW d \in Range(ds)
                 PROVE  /\ df_store(d.bucket, ds, env) = resolved_creds(d, env)
                        /\ IsInjective(names) => SecretsFor(d, ds, env) = {resolved_creds(d, env)}
    BY Zenon DEF OwnCredentials
  <1>2. PICK i \in DOMAIN ds : d = ds[i]
    BY DEF Range
  <1>3. i \in Nat /\ \A j \in DOMAIN ds : j \in Nat
    OBVIOUS
  <1>4. \A j \in DOMAIN ds : ds[j].bucket = d.bucket => j = i
    BY <1>1, <1>2 DEF IsInjective
  <1>5. df_store(d.bucket, ds, env) = resolved_creds(d, env)
    <2> DEFINE users == {j \in DOMAIN ds : ds[j].bucket = d.bucket}
    <2>1. users = {i}
      BY <1>2, <1>4
    <2>2. Max({i}) = i
      <3>1. \E x \in {i} : \A y \in {i} : x >= y
        BY <1>3
      <3>2. Max({i}) \in {i}
        BY <3>1 DEF Max
      <3> QED
        BY <3>2
    <2>3. df_store(d.bucket, ds, env) = resolved_creds(ds[Max(users)], env)
      BY DEF df_store
    <2> HIDE DEF users
    <2> QED
      BY <1>2, <2>1, <2>2, <2>3
  <1>6. ASSUME IsInjective(names)
        PROVE  SecretsFor(d, ds, env) = {resolved_creds(d, env)}
    <2> DEFINE last == {j \in DOMAIN ds : \A k \in DOMAIN ds :
                          k > j => Prefix[ds[k].name] # Prefix[ds[j].name]}
               secret(j) == build_s3_secret_sql(ds[j], env)
    <2>1. last = DOMAIN ds
      <3>1. ASSUME NEW j \in DOMAIN ds, NEW k \in DOMAIN ds, k > j
            PROVE  Prefix[ds[k].name] # Prefix[ds[j].name]
        <4>1. k # j
          BY <1>3, <3>1
        <4> QED
          BY <1>6, <4>1 DEF IsInjective
      <3> QED
        BY <3>1
    <2>2. duck_secrets(ds, env) = {secret(j) : j \in last}
      BY DEF duck_secrets
    <2>3. \A j \in DOMAIN ds : /\ secret(j).scope = ds[j].bucket
                               /\ secret(j).creds = resolved_creds(ds[j], env)
      BY DEF build_s3_secret_sql
    <2> HIDE DEF secret, last
    <2>4. {x \in duck_secrets(ds, env) : x.scope = d.bucket} = {secret(i)}
      BY <1>2, <1>4, <2>1, <2>2, <2>3
    <2>5. SecretsFor(d, ds, env) = {s.creds : s \in {secret(i)}}
      BY <2>4 DEF SecretsFor
    <2> QED
      BY <1>2, <2>3, <2>5
  <1> QED
    BY <1>5, <1>6

\* A Delta table is taken or refused alike, read at once or lazily, but for the
\* one whose files are gone after the first: the probe of build_lazy_delta
\* reads one row.
THEOREM DeltasAlike ==
    ASSUME NEW t \in {"absent", "broken", "nofiles", "norows", "gone", "partly_gone", "sound"}
    PROVE  DeltaSame(t)
  BY DEF DeltaSame, build_lazy_delta, read_delta, open_delta_table

\* Both backends force the same datasets lazy, those on S3 aside
\* (should_force_lazy, force_lazy_bytes).
THEOREM ForcedAlike ==
    ASSUME NEW d, NEW threshold
    PROVE  ForceSame(d, threshold)
  BY DEF ForceSame, should_force_lazy, force_lazy_bytes

-----------------------------------------------------------------------------
\* A location of files: directories with their keys, columns told apart.
IsSource(Dir, T, src) ==
    /\ \A x \in Dir : x.key \in T
    /\ src.files \in Seq(Seq(Dir)) /\ src.parts \in Seq(Dir)
    /\ src.columns \in Seq(T) /\ IsInjective(src.columns)

LEMMA KeysTyped ==
    ASSUME NEW Dir, NEW T, \A x \in Dir : x.key \in T, NEW dirs \in Seq(Dir)
    PROVE  KeysOf(dirs) \in Seq(T)
  BY DEF KeysOf

LEMMA PairsTyped ==
    ASSUME NEW Dir, NEW T, \A x \in Dir : x.key \in T, NEW dirs \in Seq(Dir)
    PROVE  hive_pairs(dirs) \in Seq(T)
  <1> DEFINE S == {s \in Range(dirs) : Valued(s) /\ s.val # "a=b"}
  <1>1. hive_pairs(dirs) = KeysOf(Selected(dirs, S))
    BY DEF hive_pairs
  <1> HIDE DEF S
  <1>2. Selected(dirs, S) \in Seq(Dir)
    BY SelectedRange
  <1> QED
    BY <1>1, <1>2, KeysTyped

\* Part of a sequence.
LEMMA PartTyped ==
    ASSUME NEW T, NEW s \in Seq(T), NEW m \in Nat, m >= 1
    PROVE  SubSeq(s, m, Len(s)) \in Seq(T)
  <1>1. Len(s) \in Nat /\ \A i \in m .. Len(s) : s[i] \in T
    OBVIOUS
  <1> QED
    BY <1>1, SubSeqProperties

LEMMA GlobKeysTyped ==
    ASSUME NEW Dir, NEW T, \A x \in Dir : x.key \in T, NEW parts \in Seq(Dir)
    PROVE  split_glob_base_keys(parts).keys \in Seq(T)
  <1> DEFINE wild == {i \in DOMAIN parts : parts[i].wild}
             first_wild == IF wild = {} THEN Len(parts) + 1 ELSE Min(wild)
             part == SubSeq(parts, first_wild, Len(parts))
             S == {s \in Range(parts) : Keyed(s)}
  <1>1. split_glob_base_keys(parts).keys = KeysOf(Selected(part, S))
    BY DEF split_glob_base_keys
  <1>2. Len(parts) \in Nat /\ DOMAIN parts = 1 .. Len(parts)
    OBVIOUS
  <1>3. first_wild \in Nat /\ first_wild >= 1
    <2>1. CASE wild = {}
      BY <1>2, <2>1
    <2>2. CASE wild # {}
      <3>1. wild \in SUBSET Nat /\ \A i \in wild : i \in Nat /\ i >= 1
        BY <1>2
      <3> HIDE DEF wild
      <3>2. Min(wild) \in wild
        BY <2>2, <3>1, MinIsLeast
      <3> QED
        BY <2>2, <3>1, <3>2
    <2> QED
      BY <2>1, <2>2
  <1> HIDE DEF first_wild, S
  <1>4. part \in Seq(Dir)
    BY <1>3, PartTyped
  <1> HIDE DEF part
  <1>5. Selected(part, S) \in Seq(Dir)
    BY <1>4, SelectedRange
  <1> QED
    BY <1>1, <1>5, KeysTyped

\* Sequences have a longest.
LEMMA LongestExists ==
    ASSUME NEW T, NEW files \in Seq(Seq(T))
    PROVE  Max({Len(f) : f \in Range(files)} \cup {0}) \in Nat
  <1> DEFINE n == Len(files)
             len == [i \in 1 .. n |-> Len(files[i])]
             S == {Len(f) : f \in Range(files)} \cup {0}
             good == {k \in 0 .. n : \E b \in Nat : \A i \in 1 .. k : len[i] <= b}
  <1>1. n \in Nat /\ DOMAIN files = 1 .. n /\ len \in [1 .. n -> Nat]
    OBVIOUS
  <1>2. S = {len[i] : i \in 1 .. n} \cup {0}
    BY <1>1 DEF Range
  <1> HIDE DEF S, len
  <1>3. 0 \in good
    BY <1>1
  <1>4. ASSUME NEW k \in 1 .. n, k - 1 \in good PROVE k \in good
    <2>1. PICK b \in Nat : \A i \in 1 .. k - 1 : len[i] <= b
      BY <1>4
    <2>2. len[k] \in Nat /\ \A i \in 1 .. k - 1 : len[i] \in Nat
      <3>1. k \in 1 .. n /\ \A i \in 1 .. k - 1 : i \in 1 .. n
        BY <1>1
      <3> QED
        BY <1>1, <3>1
    <2> DEFINE c == b + len[k]
    <2>3. c \in Nat /\ b <= c /\ len[k] <= c
      BY <2>2
    <2> HIDE DEF c
    <2>4. ASSUME NEW i \in 1 .. k PROVE len[i] <= c
      <3>1. CASE i = k
        BY <2>3, <3>1
      <3>2. CASE i # k
        <4>1. i \in 1 .. k - 1
          BY <1>1, <3>2
        <4> QED
          BY <2>1, <2>2, <2>3, <4>1
      <3> QED
        BY <3>1, <3>2
    <2> QED
      BY <1>1, <2>3, <2>4
  <1>5. n \in good
    <2>1. n \in 0 .. n
      BY <1>1
    <2> HIDE DEF good, n
    <2> QED
      BY <1>1, <1>3, <1>4, <2>1, UpToN
  <1> DEFINE bounds == {b \in Nat : \A x \in S : x <= b}
             m == Min(bounds)
  <1>6. S \in SUBSET Nat /\ 0 \in S
    <2>1. \A i \in 1 .. n : len[i] \in Nat
      BY <1>1
    <2> QED
      BY <1>2, <2>1
  <1>7. bounds # {} /\ bounds \in SUBSET Nat
    <2>1. PICK b \in Nat : \A i \in 1 .. n : len[i] <= b
      BY <1>5
    <2>2. b \in bounds
      BY <1>2, <2>1
    <2> QED
      BY <2>2
  <1>8. m \in bounds /\ \A b \in bounds : m <= b
    <2> HIDE DEF bounds
    <2> QED
      BY <1>7, MinIsLeast
  <1> HIDE DEF m
  <1>9. m \in S
    <2>1. SUFFICES ASSUME m \notin S PROVE FALSE
      OBVIOUS
    <2>2. m \in Nat /\ \A x \in S : x \in Nat /\ x <= m /\ x # m
      BY <1>6, <1>8, <2>1
    <2>3. m # 0 /\ m - 1 \in Nat /\ \A x \in S : x <= m - 1
      BY <1>6, <2>2
    <2>4. m - 1 \in bounds
      BY <2>3
    <2>5. m <= m - 1
      BY <1>8, <2>4
    <2> QED
      BY <2>2, <2>5
  <1>10. \E x \in S : \A y \in S : x >= y
    BY <1>6, <1>8, <1>9
  <1>11. Max(S) \in S
    BY <1>10 DEF Max
  <1> QED
    BY <1>6, <1>11 DEF S

\* The keys found below a directory are keys of directories.
LEMMA FoundKeysTyped ==
    ASSUME NEW Dir, NEW T, \A x \in Dir : x.key \in T,
           NEW files \in Seq(Seq(Dir)), NEW base \in Seq(Dir)
    PROVE  discover_hive_keys(files, base) \in Seq(T)
  <1> DEFINE n == Max({Len(f) : f \in Range(files)} \cup {0})
             Below(cur) == Selected(files, {f \in Range(files) :
                             /\ Len(f) > Len(cur) /\ SubSeq(f, 1, Len(cur)) = cur
                             /\ Valued(f[Len(cur) + 1])})
             E(cur) == IF Below(cur) = <<>> THEN cur
                       ELSE Append(cur, Below(cur)[1][Len(cur) + 1])
             seqs == Seq(Dir)
             step == [x \in (1 .. n) \X seqs |-> E(x[2])]
             Def(path) == [k \in 0 .. n |->
                             IF k = 0 THEN base
                             ELSE LET cur == path[k - 1] IN
                                  IF Below(cur) = <<>> THEN cur
                                  ELSE Append(cur, Below(cur)[1][Len(cur) + 1])]
             F == CHOOSE f : f = Def(f)
  <1>1. n \in Nat
    BY LongestExists
  <1>2. ASSUME NEW cur \in seqs PROVE E(cur) \in seqs
    <2> DEFINE S == {f \in Range(files) : /\ Len(f) > Len(cur) /\ SubSeq(f, 1, Len(cur)) = cur
                                          /\ Valued(f[Len(cur) + 1])}
    <2>1. Below(cur) \in Seq(Seq(Dir)) /\ Range(Below(cur)) = Range(files) \cap S
      <3> HIDE DEF S
      <3>1. Selected(files, S) \in Seq(Seq(Dir)) /\ Range(Selected(files, S)) = Range(files) \cap S
        BY SelectedRange
      <3> QED
        BY <3>1 DEF S
    <2> DEFINE b == Below(cur)
    <2>2. CASE b = <<>>
      BY <2>2
    <2>3. CASE b # <<>>
      <3>1. b[1] \in S /\ b[1] \in Seq(Dir)
        <4>1. 1 \in DOMAIN b /\ b[1] \in Seq(Dir)
          <5> HIDE DEF b, Below
          <5> QED
            BY <2>1, <2>3 DEF b
        <4>2. b[1] \in Range(b)
          <5> HIDE DEF b
          <5> QED
            BY <4>1 DEF Range
        <4> HIDE DEF Below, S
        <4> QED
          BY <2>1, <4>1, <4>2
      <3> HIDE DEF b, Below
      <3>2. Len(b[1]) > Len(cur)
        BY <3>1
      <3>3. Len(cur) \in Nat /\ Len(b[1]) \in Nat
        BY <1>2, <3>1
      <3>4. b[1][Len(cur) + 1] \in Dir
        BY <3>1, <3>2, <3>3
      <3>5. Append(cur, b[1][Len(cur) + 1]) \in seqs
        BY <1>2, <3>4
      <3> QED
        BY <2>3, <3>5 DEF b
    <2> QED
      BY <2>2, <2>3
  <1>3. base \in seqs
    OBVIOUS
  <1>4. Def(F) = [k \in 0 .. n |-> IF k = 0 THEN base ELSE E(F[k - 1])]
    OBVIOUS
  <1>5. \A f : Def(f) = [k \in 0 .. n |-> IF k = 0 THEN base ELSE E(f[k - 1])]
    OBVIOUS
  <1>6. discover_hive_keys(files, base) = KeysOf(SubSeq(F[n], Len(base) + 1, Len(F[n])))
    BY DEF discover_hive_keys
  <1> HIDE DEF n, E, Below, seqs, Def
  <1>7. step \in [(1 .. n) \X seqs -> seqs]
    BY <1>2
  <1>8. \A k \in 1 .. n, s \in seqs : step[<<k, s>>] = E(s)
    OBVIOUS
  <1> HIDE DEF step
  <1>9. PICK f : Unrolls(f, n, seqs, base, step)
    BY <1>1, <1>3, <1>7, RecursionExists
  <1>10. f = Def(f)
    <2>1. f = [k \in 0 .. n |-> f[k]] /\ f[0] = base
      BY <1>9 DEF Unrolls
    <2>2. \A k \in 1 .. n : k - 1 \in 0 .. n
      BY <1>1
    <2>3. \A k \in 1 .. n : f[k] = E(f[k - 1])
      BY <1>8, <1>9, <2>2 DEF Unrolls
    <2>4. \A k \in 0 .. n : k = 0 \/ k \in 1 .. n
      BY <1>1
    <2>5. \A k \in 0 .. n : f[k] = IF k = 0 THEN base ELSE E(f[k - 1])
      BY <2>1, <2>3, <2>4
    <2> QED
      BY <1>5, <2>1, <2>5
  <1>11. F = Def(F)
    BY <1>10
  <1> HIDE DEF F
  <1>12. F = [k \in 0 .. n |-> F[k]] /\ F[0] = base /\ \A k \in 1 .. n : F[k] = E(F[k - 1])
    <2> DEFINE g == [k \in 0 .. n |-> IF k = 0 THEN base ELSE E(F[k - 1])]
    <2>1. g = [k \in 0 .. n |-> g[k]]
      OBVIOUS
    <2>2. g[0] = base
      BY <1>1
    <2>3. \A k \in 1 .. n : g[k] = E(F[k - 1])
      BY <1>1
    <2>4. F = g
      BY <1>4, <1>11
    <2> HIDE DEF g
    <2> QED
      BY <2>1, <2>2, <2>3, <2>4
  <1>13. Unrolls(F, n, seqs, base, step)
    <2>1. \A k \in 1 .. n : F[k - 1] \in seqs => F[k] = step[<<k, F[k - 1]>>]
      BY <1>8, <1>12
    <2> QED
      BY <1>1, <1>3, <1>7, <1>12, <2>1, RecursionTyped
  <1>14. F[n] \in Seq(Dir)
    BY <1>1, <1>13 DEF Unrolls, seqs
  <1>15. SubSeq(F[n], Len(base) + 1, Len(F[n])) \in Seq(Dir)
    <2>1. Len(base) + 1 \in Nat /\ Len(base) + 1 >= 1
      OBVIOUS
    <2> QED
      BY <1>14, <2>1, PartTyped
  <1> QED
    BY <1>6, <1>15, KeysTyped

\* A dataset of files has distinct columns, resident or lazy, and the same
\* ones where the layout allows it to become lazy (read_local_parquet,
\* lazy_local_listing, append_partition_cols).
THEOREM LayoutsKept ==
    ASSUME NEW Dir, NEW T, NEW src, IsSource(Dir, T, src)
    PROVE  LazySame(src)
  <1> DEFINE eager == read_local_parquet(src)
             lazy == build_lazy_local_parquet(src)
             files == resolve_local_parquet_files(src)
             l == lazy_local_listing(src)
             lower == {Lower[c] : c \in src.wanted}
             S == {c \in Range(src.columns) : Lower[c] \in lower}
             kept == IF src.wanted = {} THEN src.columns ELSE Selected(src.columns, S)
             Schema(f) == append_partition_cols(kept, hive_pairs(f))
             err == IF files = <<>> THEN "EmptyDataset"
                    ELSE IF kept = <<>> \/ \E f \in Range(files) : Schema(f) # Schema(files[1])
                    THEN "Internal" ELSE "ok"
  <1>1. eager = [err |-> err, columns |-> IF err = "ok" THEN Schema(files[1]) ELSE <<>>]
    BY Zenon DEF read_local_parquet
  <1>2. err = "ok" => files # <<>>
    OBVIOUS
  <1>3. kept \in Seq(T) /\ IsInjective(kept)
    <2> HIDE DEF S
    <2> QED
      BY SelectedRange, SelectedInjective DEF IsSource
  <1>4. src.wanted = {} => kept = src.columns
    OBVIOUS
  <1>5. files \in Seq(Seq(Dir))
    <2> DEFINE local == {f \in Range(src.files) : IF src.shape = "glob" THEN Matches(src.parts, f)
                                              ELSE f = src.parts}
    <2>1. files = Selected(src.files, local)
      BY DEF resolve_local_parquet_files
    <2> HIDE DEF local, files
    <2> QED
      BY <2>1, SelectedRange DEF IsSource
  <1> HIDE DEF files, kept, err
  <1>6. files # <<>> => files[1] \in Seq(Dir) /\ files[1] \in Range(files)
    <2>1. files # <<>> => 1 \in DOMAIN files /\ files[1] \in Seq(Dir)
      BY <1>5
    <2> QED
      BY <2>1 DEF Range
  <1>7. l.keys \in Seq(T)
    <2>1. CASE src.shape = "glob"
      BY <2>1, GlobKeysTyped DEF lazy_local_listing, IsSource
    <2>2. CASE src.shape = "dir"
      BY <2>2, FoundKeysTyped DEF lazy_local_listing, IsSource
    <2>3. CASE src.shape \notin {"glob", "dir"}
      BY <2>3 DEF lazy_local_listing
    <2> QED
      BY <2>1, <2>2, <2>3
  <1>8. IsInjective(<<>>)
    BY DEF IsInjective
  <1>9. IsInjective(eager.columns)
    <2>1. err = "ok" => IsInjective(Schema(files[1]))
      <3>1. err = "ok" => hive_pairs(files[1]) \in Seq(T)
        BY <1>2, <1>6, PairsTyped DEF IsSource
      <3> QED
        BY <1>3, <3>1, PartitionsInjective
    <2>2. eager.columns = IF err = "ok" THEN Schema(files[1]) ELSE <<>>
      BY <1>1
    <2> QED
      BY <1>8, <2>1, <2>2
  <1> HIDE DEF l
  <1>10. lazy = IF ListedFiles(src.files, l.base) = <<>>
                THEN [err |-> "EmptyDataset", columns |-> <<>>]
                ELSE [err |-> "ok", columns |-> append_partition_cols(src.columns, l.keys)]
    BY DEF build_lazy_local_parquet, Listing, l
  <1>11. IsInjective(lazy.columns)
    <2>1. IsInjective(append_partition_cols(src.columns, l.keys))
      BY <1>7, PartitionsInjective DEF IsSource
    <2> QED
      BY <1>8, <1>10, <2>1
  <1>12. ASSUME HiveShaped(src), eager.err = "ok" PROVE lazy = eager
    <2>1. err = "ok"
      BY <1>1, <1>12
    <2>2. /\ src.wanted = {}
          /\ \A f \in Range(files) : /\ f \in Range(ListedFiles(src.files, l.base))
                                     /\ hive_pairs(f) = l.keys
      BY <1>12, Zenon DEF HiveShaped, l, files
    <2>3. files[1] \in Range(files)
      BY <1>2, <1>6, <2>1
    <2>4. ListedFiles(src.files, l.base) # <<>>
      <3>1. Range(<<>>) = {}
        BY DEF Range
      <3> QED
        BY <2>2, <2>3, <3>1
    <2>5. Schema(files[1]) = append_partition_cols(src.columns, l.keys)
      BY <1>4, <2>2, <2>3
    <2> QED
      BY <1>1, <1>10, <2>1, <2>4, <2>5
  <1> QED
    BY <1>9, <1>11, <1>12 DEF LazySame

-----------------------------------------------------------------------------
(***************************************************************************)
(* Plans.                                                                  *)
(***************************************************************************)
LEMMA FirstOfThree ==
    ASSUME NEW a, NEW b, NEW c
    PROVE  FirstError(<<a, b, c>>) = "ok" <=> a = "ok" /\ b = "ok" /\ c = "ok"
  <1>1. DOMAIN <<a, b, c>> = {1, 2, 3}
    OBVIOUS
  <1> QED
    BY <1>1, FirstErrorOk

LEMMA FirstOfFour ==
    ASSUME NEW a, NEW b, NEW c, NEW d
    PROVE  FirstError(<<a, b, c, d>>) = "ok" <=> a = "ok" /\ b = "ok" /\ c = "ok" /\ d = "ok"
  <1>1. DOMAIN <<a, b, c, d>> = {1, 2, 3, 4}
    OBVIOUS
  <1> QED
    BY <1>1, FirstErrorOk

LEMMA FirstOfOne ==
    ASSUME NEW a
    PROVE  FirstError(<<a>>) = "ok" <=> a = "ok"
  <1>1. DOMAIN <<a>> = {1}
    OBVIOUS
  <1> QED
    BY <1>1, FirstErrorOk

\* A request whose lists are indexed by numbers.
NumberedLists(r) ==
    /\ DOMAIN r.columns \subseteq Nat /\ DOMAIN r.predicates \subseteq Nat
    /\ DOMAIN r.group_by \subseteq Nat /\ DOMAIN r.order_by \subseteq Nat

\* When a plan is made, the columns it needs were found.
LEMMA AggPlanChecked ==
    ASSUME NEW r, NEW s, NumberedLists(r), agg_plan_error(r, s) = "ok"
    PROVE  \A i \in DOMAIN r.group_by : find(s, r.group_by[i]) # {}
  <1> DEFINE groups == [i \in DOMAIN r.group_by |-> FindError(s, r.group_by[i])]
             both == IF r.distinct /\ (r.group_by # <<>> \/ r.aggregations # <<>>)
                     THEN "InvalidValue" ELSE "ok"
             alone == IF r.group_by = <<>> /\ r.aggregations # <<>>
                      THEN "InvalidValue" ELSE "ok"
             aggs == IF r.group_by = <<>> THEN "ok"
                     ELSE FirstError(Each(Aggregations(r), LAMBDA a : AggError(a, s)))
  <1>1. agg_plan_error(r, s) = FirstError(<<both, alone, FirstError(groups), aggs>>)
    BY Zenon DEF agg_plan_error, Each
  <1>2. FirstError(groups) = "ok"
    <2> HIDE DEF both, alone, groups, aggs
    <2> QED
      BY <1>1, FirstOfFour
  <1>3. DOMAIN groups = DOMAIN r.group_by /\ DOMAIN groups \subseteq Nat
    BY DEF NumberedLists
  <1>4. \A i \in DOMAIN r.group_by : groups[i] = "ok"
    <2> HIDE DEF groups
    <2> QED
      BY <1>2, <1>3, FirstErrorOk
  <1> QED
    BY <1>4 DEF FindError

LEMMA ColumnsChecked ==
    ASSUME NEW r, NEW s, NumberedLists(r), r.group_by = <<>>, ColumnError(r, s) = "ok"
    PROVE  \A i \in DOMAIN r.columns : find(s, r.columns[i]) # {}
  <1> DEFINE columns == [i \in DOMAIN r.columns |-> FindError(s, r.columns[i])]
  <1>1. FirstError(columns) = "ok"
    BY DEF ColumnError, Each
  <1>2. DOMAIN columns = DOMAIN r.columns /\ DOMAIN columns \subseteq Nat
    BY DEF NumberedLists
  <1>3. \A i \in DOMAIN r.columns : columns[i] = "ok"
    <2> HIDE DEF columns
    <2> QED
      BY <1>1, <1>2, FirstErrorOk
  <1> QED
    BY <1>3 DEF FindError

LEMMA WhereChecked ==
    ASSUME NEW r, NEW s, NEW backend, NumberedLists(r), FirstError(WhereErrors(backend, r, s)) = "ok"
    PROVE  \A i \in DOMAIN r.predicates : /\ find(s, r.predicates[i].col) # {}
                                          /\ pred_error(backend, r.predicates[i]) = "ok"
  <1> DEFINE W == WhereErrors(backend, r, s)
  <1>1. W = [i \in DOMAIN r.predicates |->
               FirstError(<<FindError(s, r.predicates[i].col), pred_error(backend, r.predicates[i])>>)]
    BY DEF WhereErrors, Each
  <1>2. \A i \in DOMAIN r.predicates : W[i] = "ok"
    <2>1. DOMAIN W = DOMAIN r.predicates /\ DOMAIN W \subseteq Nat
      BY <1>1 DEF NumberedLists
    <2> HIDE DEF W
    <2> QED
      BY <2>1, FirstErrorOk DEF W
  <1> HIDE DEF W
  <1>3. \A i \in DOMAIN r.predicates :
           FirstError(<<FindError(s, r.predicates[i].col), pred_error(backend, r.predicates[i])>>) = "ok"
    BY <1>1, <1>2
  <1>4. \A i \in DOMAIN r.predicates :
           FindError(s, r.predicates[i].col) = "ok" /\ pred_error(backend, r.predicates[i]) = "ok"
    BY <1>3, FirstOfTwo
  <1> QED
    BY <1>4 DEF FindError

LEMMA OrderChecked ==
    ASSUME NEW r, NEW s, NumberedLists(r), r.group_by = <<>>, order_by_error(r, s) = "ok"
    PROVE  \A i \in DOMAIN r.order_by : find(s, r.order_by[i].col) # {}
  <1> DEFINE dir(o) == IF o.dir \in {"asc", "desc"} THEN "ok" ELSE "InvalidValue"
             sort(o) == FirstError(<<dir(o), FindError(s, o.col)>>)
             order == [i \in DOMAIN r.order_by |-> sort(r.order_by[i])]
  <1>1. order_by_error(r, s) = FirstError(order)
    BY DEF order_by_error, Each
  <1>2. DOMAIN order = DOMAIN r.order_by /\ DOMAIN order \subseteq Nat
    BY DEF NumberedLists
  <1>3. \A i \in DOMAIN r.order_by : order[i] = "ok"
    <2> HIDE DEF order
    <2> QED
      BY <1>1, <1>2, FirstErrorOk
  <1>4. \A i \in DOMAIN r.order_by : sort(r.order_by[i]) = "ok"
    BY <1>3
  <1>5. \A i \in DOMAIN r.order_by : FindError(s, r.order_by[i].col) = "ok"
    <2> HIDE DEF dir
    <2> QED
      BY <1>4, FirstOfTwo, ZenonT(40)
  <1> QED
    BY <1>5 DEF FindError

\* A plan, with the checks it has passed.
LEMMA PlanPassed ==
    ASSUME NEW r, NEW s, NEW paged, NEW plan \in df_plan(r, s, paged).plan
    PROVE  /\ plan = Clauses(r, s, Window(r, paged))
           /\ agg_plan_error(r, s) = "ok" /\ ColumnError(r, s) = "ok"
           /\ PredError("df", r, s) = "ok" /\ order_by_error(r, s) = "ok"
  <1> DEFINE e == FirstError(<<agg_plan_error(r, s)>>)
             rest == FirstError(<<ColumnError(r, s), PredError("df", r, s), order_by_error(r, s)>>)
             err == IF e # "ok" THEN e ELSE rest
  <1>1. df_plan(r, s, paged).plan = IF err = "ok" THEN {Clauses(r, s, Window(r, paged))} ELSE {}
    BY DEF df_plan
  <1>2. plan = Clauses(r, s, Window(r, paged)) /\ e = "ok" /\ rest = "ok"
    <2> HIDE DEF e, rest
    <2> QED
      BY <1>1
  <1>3. agg_plan_error(r, s) = "ok"
    BY <1>2, FirstOfOne
  <1>4. ColumnError(r, s) = "ok" /\ PredError("df", r, s) = "ok" /\ order_by_error(r, s) = "ok"
    BY <1>2, FirstOfThree
  <1> QED
    BY <1>2, <1>3, <1>4

LEMMA TheColumnFound ==
    ASSUME NEW s, NEW n, find(s, n) # {}
    PROVE  TheColumn(s, n) \in find(s, n)
  BY DEF TheColumn

\* The columns a plan shows: its projection, or its groups and what it folds.
LEMMA ShownVisible ==
    ASSUME NEW r, NEW s, NumberedLists(r),
           \A n \in NamedColumns(r) : \A c \in find(s, n) : is_visible(s, c),
           (r.columns = <<>> /\ r.group_by = <<>>) =>
             \A c \in Range(s.columns) : is_visible(s, c),
           NEW w, agg_plan_error(r, s) = "ok", ColumnError(r, s) = "ok"
    PROVE  /\ \A c \in Range(Clauses(r, s, w).cols) : is_visible(s, c)
           /\ \A g \in Clauses(r, s, w).group :
                /\ \A c \in Range(g.group_cols) : is_visible(s, c)
                /\ \A a \in Range(g.aggs) : \A c \in a.col : is_visible(s, c)
  <1> DEFINE cols == Clauses(r, s, w).cols
             the == [i \in DOMAIN r.columns |-> TheColumn(s, r.columns[i])]
  <1>1. /\ cols = IF agg_plan(r, s) # {} THEN <<>>
                  ELSE IF r.columns = <<>> THEN s.columns ELSE the
        /\ Clauses(r, s, w).group = agg_plan(r, s)
    BY Zenon DEF Clauses
  <1>2. agg_plan(r, s) = {} <=> r.group_by = <<>>
    BY DEF agg_plan
  <1>3. ASSUME NEW c \in Range(cols) PROVE is_visible(s, c)
    <2> HIDE DEF cols, the
    <2>1. CASE cols = <<>>
      BY <1>3, <2>1 DEF Range
    <2>2. CASE r.group_by = <<>> /\ r.columns = <<>> /\ cols = s.columns
      BY <1>3, <2>2
    <2>3. CASE r.group_by = <<>> /\ cols = the
      <3>1. PICK i \in DOMAIN r.columns : c = TheColumn(s, r.columns[i])
        BY <1>3, <2>3 DEF Range, the
      <3>2. c \in find(s, r.columns[i])
        BY <2>3, <3>1, ColumnsChecked, TheColumnFound
      <3>3. r.columns[i] \in NamedColumns(r)
        BY DEF NamedColumns, Range
      <3> QED
        BY <3>2, <3>3
    <2> QED
      BY <1>1, <1>2, <2>1, <2>2, <2>3
  <1>4. ASSUME NEW g \in agg_plan(r, s)
        PROVE  /\ \A c \in Range(g.group_cols) : is_visible(s, c)
               /\ \A a \in Range(g.aggs) : \A c \in a.col : is_visible(s, c)
    <2> DEFINE keys == [i \in DOMAIN r.group_by |->
                          CHOOSE c \in find(s, r.group_by[i]) : TRUE]
               folds == [i \in DOMAIN Aggregations(r) |-> AggSpec(Aggregations(r)[i], s)]
    <2>0. agg_plan(r, s) = IF r.group_by = <<>> THEN {} ELSE {[group_cols |-> keys, aggs |-> folds]}
      BY Zenon DEF agg_plan
    <2>1. g.group_cols = keys /\ g.aggs = folds
      <3> HIDE DEF keys, folds
      <3> QED
        BY <1>4, <2>0
    <2>2. ASSUME NEW c \in Range(g.group_cols) PROVE is_visible(s, c)
      <3>1. PICK i \in DOMAIN r.group_by : c = CHOOSE x \in find(s, r.group_by[i]) : TRUE
        BY <2>1, <2>2 DEF Range
      <3>2. c \in find(s, r.group_by[i])
        BY <3>1, AggPlanChecked
      <3>3. r.group_by[i] \in NamedColumns(r)
        BY DEF NamedColumns, Range
      <3> QED
        BY <3>2, <3>3
    <2>3. ASSUME NEW a \in Range(g.aggs), NEW c \in a.col PROVE is_visible(s, c)
      <3>1. PICK i \in DOMAIN Aggregations(r) : a = AggSpec(Aggregations(r)[i], s)
        BY <2>1, <2>3 DEF Range
      <3>2. PICK n \in Aggregations(r)[i].col : c \in find(s, n)
        BY <2>3, <3>1 DEF AggSpec
      <3>3. r.aggregations # <<>>
        BY <3>2 DEF Aggregations, CountStar
      <3>4. n \in NamedColumns(r)
        <4>1. Aggregations(r)[i] \in Range(r.aggregations)
          BY <3>3 DEF Aggregations, Range
        <4> QED
          BY <3>2, <4>1 DEF NamedColumns
      <3> QED
        BY <3>2, <3>4
    <2> QED
      BY <2>2, <2>3
  <1> QED
    BY <1>1, <1>3, <1>4

\* The columns a plan tests and sorts by.
LEMMA TestedVisible ==
    ASSUME NEW r, NEW s, NumberedLists(r),
           \A n \in NamedColumns(r) : \A c \in find(s, n) : is_visible(s, c),
           \A p \in Range(r.predicates) : Allows(s.predicate_filter, Lower[p.col]),
           NEW w, PredError("df", r, s) = "ok", order_by_error(r, s) = "ok"
    PROVE  /\ \A c \in Range(Clauses(r, s, w).where) :
                is_visible(s, c.lhs) /\ Allows(s.predicate_filter, Lower[c.lhs])
           /\ Clauses(r, s, w).group = {} =>
                \A o \in Range(Clauses(r, s, w).order) : is_visible(s, o.key)
  <1>1. Clauses(r, s, w).where
          = [i \in DOMAIN r.predicates |->
               Condition(r.predicates[i], TheColumn(s, r.predicates[i].col))]
    BY Zenon DEF Clauses, Where
  <1>2. FirstError(WhereErrors("df", r, s)) = "ok"
    BY FirstOfThree DEF PredError
  <1>3. ASSUME NEW c \in Range(Clauses(r, s, w).where)
        PROVE  is_visible(s, c.lhs) /\ Allows(s.predicate_filter, Lower[c.lhs])
    <2>1. PICK i \in DOMAIN r.predicates :
             c = Condition(r.predicates[i], TheColumn(s, r.predicates[i].col))
      BY <1>1, <1>3 DEF Range
    <2> DEFINE p == r.predicates[i]
    <2>2. c.lhs \in find(s, p.col)
      <3>1. c.lhs = TheColumn(s, p.col)
        BY <2>1 DEF Condition
      <3> QED
        BY <1>2, <3>1, WhereChecked, TheColumnFound
    <2>3. p \in Range(r.predicates) /\ p.col \in NamedColumns(r)
      BY DEF NamedColumns, Range
    <2> HIDE DEF p
    <2> QED
      BY <2>2, <2>3 DEF find
  <1>4. ASSUME Clauses(r, s, w).group = {}, NEW o \in Range(Clauses(r, s, w).order)
        PROVE  is_visible(s, o.key)
    <2>1. agg_plan(r, s) = {} /\ r.group_by = <<>>
      <3>1. Clauses(r, s, w).group = agg_plan(r, s)
        BY Zenon DEF Clauses
      <3> QED
        BY <1>4, <3>1 DEF agg_plan
    <2>2. Clauses(r, s, w).order
            = [i \in DOMAIN r.order_by |-> [key |-> TheColumn(s, r.order_by[i].col),
                                            dir |-> r.order_by[i].dir]]
      BY <2>1 DEF Clauses
    <2>3. PICK i \in DOMAIN r.order_by : o.key = TheColumn(s, r.order_by[i].col)
      BY <1>4, <2>2 DEF Range
    <2>4. o.key \in find(s, r.order_by[i].col)
      BY <2>1, <2>3, OrderChecked, TheColumnFound
    <2>5. r.order_by[i].col \in NamedColumns(r)
      BY <2>1 DEF NamedColumns, Range
    <2> QED
      BY <2>4, <2>5
  <1> QED
    BY <1>3, <1>4

\* A structured query that passes enforce_column_filters, and has something to
\* show, shows, folds, tests and sorts by visible columns only, and tests only
\* those the predicate filter allows, for every schema and request.
THEOREM QueriesFiltered ==
    ASSUME NEW d, IsSchema(d.schema), NEW req, IsRequest(req)
    PROVE  FiltersKept(d, req)
  <1> DEFINE s == d.schema
             r == Narrowed(req, s)
             shown(plan) == Range(plan.cols)
                            \cup UNION {Range(g.group_cols)
                                        \cup UNION {a.col : a \in Range(g.aggs)} : g \in plan.group}
             tested(plan) == {c.lhs : c \in Range(plan.where)}
             sorted(plan) == IF plan.group = {} THEN {o.key : o \in Range(plan.order)} ELSE {}
  <1>1. SUFFICES ASSUME HasProjection(req, s), enforce_column_filters(req, s) = "ok",
                        NEW plan \in df_plan(r, s, TRUE).plan
                 PROVE  /\ \A c \in shown(plan) \cup tested(plan) \cup sorted(plan) : is_visible(s, c)
                        /\ \A c \in tested(plan) : Allows(s.predicate_filter, Lower[c])
    BY Zenon DEF FiltersKept
  <1> HIDE DEF s
  <1>2. IsSchema(s)
    BY DEF s
  <1>3. /\ \A n \in NamedColumns(r) : \A c \in find(s, n) : is_visible(s, c)
        /\ (r.columns = <<>> /\ r.group_by = <<>>) => \A c \in Range(s.columns) : is_visible(s, c)
        /\ \A p \in Range(r.predicates) : Allows(s.predicate_filter, Lower[p.col])
    <2>1. \A n \in NamedColumns(r) : is_visible(s, n)
      BY <1>1, <1>2, RequestsUseVisible
    <2>2. \A n : is_visible(s, n) => \A c \in find(s, n) : is_visible(s, c)
      BY DEF find, is_visible
    <2> QED
      BY <1>1, <1>2, <2>1, <2>2, RequestsUseVisible
  <1>4. NumberedLists(r)
    <2>1. visible_columns(s) \in Seq(Range(s.columns))
      BY <1>2, SelectedRange DEF IsSchema, visible_columns
    <2>2. DOMAIN visible_columns(s) \subseteq Nat
      BY <2>1
    <2> QED
      BY <2>2, NarrowedParts DEF NumberedLists, IsRequest
  <1> HIDE DEF r
  <1> DEFINE w == Window(r, TRUE)
  <1>5. /\ plan = Clauses(r, s, w)
        /\ agg_plan_error(r, s) = "ok" /\ ColumnError(r, s) = "ok"
        /\ PredError("df", r, s) = "ok" /\ order_by_error(r, s) = "ok"
    BY <1>1, PlanPassed
  <1> HIDE DEF w
  <1>6. /\ \A c \in Range(plan.cols) : is_visible(s, c)
        /\ \A g \in plan.group :
             /\ \A c \in Range(g.group_cols) : is_visible(s, c)
             /\ \A a \in Range(g.aggs) : \A c \in a.col : is_visible(s, c)
    BY <1>3, <1>4, <1>5, ShownVisible
  <1>7. /\ \A c \in Range(plan.where) :
             is_visible(s, c.lhs) /\ Allows(s.predicate_filter, Lower[c.lhs])
        /\ plan.group = {} => \A o \in Range(plan.order) : is_visible(s, o.key)
    BY <1>3, <1>4, <1>5, TestedVisible
  <1>8. \A c \in shown(plan) : is_visible(s, c)
    BY <1>6
  <1>9. \A c \in tested(plan) : is_visible(s, c) /\ Allows(s.predicate_filter, Lower[c])
    BY <1>7
  <1>10. \A c \in sorted(plan) : is_visible(s, c)
    BY <1>7
  <1> QED
    BY <1>8, <1>9, <1>10

-----------------------------------------------------------------------------
\* A predicate that asks for null is_null's way, if at all.
NoNull(p) == p.op \in {"is_null", "is_not_null"} \/ \A l \in Range(p.lits) : l.v # Null

LEMMA PredicatesAgree ==
    ASSUME NEW p, NoNull(p)
    PROVE  pred_error("df", p) = "ok" <=> pred_error("duckdb", p) = "ok"
  <1> DEFINE null == \E l \in Range(p.lits) : l.v = Null
             list == p.kind = "array" /\ p.lits # <<>>
  <1>1. p.op \in {"is_null", "is_not_null"} \/ ~null
    BY DEF NoNull
  <1>2. df_pred_error(p) = "ok" <=> (\/ p.op \in {"is_null", "is_not_null"}
                                     \/ p.op = "in" /\ list
                                     \/ p.op \in Comparisons /\ p.kind = "one")
    BY DEF df_pred_error, Comparisons
  <1>3. duck_pred_error(p) = "ok" <=> (\/ p.op \in {"is_null", "is_not_null"}
                                       \/ p.op = "in" /\ list /\ ~null
                                       \/ p.op \in Comparisons /\ p.kind = "one" /\ ~null)
    <2> HIDE DEF null
    <2>1. duck_pred_error(p)
            = IF p.op \in {"is_null", "is_not_null"} THEN "ok"
              ELSE IF p.op = "in" /\ ~list THEN "InvalidValue"
              ELSE IF p.op \notin Comparisons \cup {"in"} THEN "UnknownOperator"
              ELSE IF p.op # "in" /\ p.kind # "one" THEN "InvalidValue"
              ELSE IF null THEN "InvalidValue" ELSE "ok"
      BY Zenon DEF duck_pred_error, null
    <2> HIDE DEF list
    <2> QED
      BY <2>1 DEF Comparisons
  <1>4. pred_error("df", p) = df_pred_error(p) /\ pred_error("duckdb", p) = duck_pred_error(p)
    BY DEF pred_error
  <1> HIDE DEF null, list
  <1> QED
    BY <1>1, <1>2, <1>3, <1>4

\* A WHERE and a HAVING are accepted by both backends or by neither.
LEMMA ChecksAgree ==
    ASSUME NEW r, NEW s, DOMAIN r.predicates \subseteq Nat, DOMAIN r.having \subseteq Nat,
           \A p \in Range(r.predicates) \cup Range(r.having) : NoNull(p)
    PROVE  PredError("df", r, s) = "ok" <=> PredError("duckdb", r, s) = "ok"
  <1> DEFINE where(b) == [i \in DOMAIN r.predicates |->
                            FirstError(<<FindError(s, r.predicates[i].col),
                                         pred_error(b, r.predicates[i])>>)]
             having(b) == [i \in DOMAIN r.having |-> pred_error(b, r.having[i])]
  <1>1. ASSUME NEW b
        PROVE  PredError(b, r, s) = "ok"
                 <=> /\ \A i \in DOMAIN r.predicates :
                          FindError(s, r.predicates[i].col) = "ok" /\ pred_error(b, r.predicates[i]) = "ok"
                     /\ having_error(r, s) = "ok"
                     /\ \A i \in DOMAIN r.having : pred_error(b, r.having[i]) = "ok"
    <2>1. PredError(b, r, s)
            = FirstError(<<FirstError(where(b)), having_error(r, s), FirstError(having(b))>>)
      BY Zenon DEF PredError, WhereErrors, Each
    <2>2. FirstError(where(b)) = "ok" <=> \A i \in DOMAIN r.predicates : where(b)[i] = "ok"
      <3> DEFINE checks == where(b)
      <3>1. DOMAIN checks = DOMAIN r.predicates
        OBVIOUS
      <3> HIDE DEF checks
      <3>2. FirstError(checks) = "ok" <=> \A i \in DOMAIN checks : checks[i] = "ok"
        BY <3>1, FirstErrorOk
      <3> QED
        BY <3>1, <3>2, Zenon DEF checks
    <2>3. FirstError(having(b)) = "ok" <=> \A i \in DOMAIN r.having : having(b)[i] = "ok"
      <3> DEFINE checks == having(b)
      <3>1. DOMAIN checks = DOMAIN r.having
        OBVIOUS
      <3> HIDE DEF checks
      <3>2. FirstError(checks) = "ok" <=> \A i \in DOMAIN checks : checks[i] = "ok"
        BY <3>1, FirstErrorOk
      <3> QED
        BY <3>1, <3>2, Zenon DEF checks
    <2>4. \A i \in DOMAIN r.predicates :
             where(b)[i] = "ok" <=> /\ FindError(s, r.predicates[i].col) = "ok"
                                    /\ pred_error(b, r.predicates[i]) = "ok"
      BY FirstOfTwo
    <2>5. \A i \in DOMAIN r.having : having(b)[i] = pred_error(b, r.having[i])
      OBVIOUS
    <2> HIDE DEF where, having
    <2>6. PredError(b, r, s) = "ok" <=> /\ FirstError(where(b)) = "ok"
                                        /\ having_error(r, s) = "ok"
                                        /\ FirstError(having(b)) = "ok"
      BY <2>1, FirstOfThree
    <2> QED
      BY <2>2, <2>3, <2>4, <2>5, <2>6
  <1>2. \A i \in DOMAIN r.predicates :
           pred_error("df", r.predicates[i]) = "ok" <=> pred_error("duckdb", r.predicates[i]) = "ok"
    BY PredicatesAgree DEF Range
  <1>3. \A i \in DOMAIN r.having :
           pred_error("df", r.having[i]) = "ok" <=> pred_error("duckdb", r.having[i]) = "ok"
    BY PredicatesAgree DEF Range
  <1> QED
    BY <1>1, <1>2, <1>3

\* build_query_sql_with_suffix and DatasetRepository::query check a request in
\* different orders, so that their errors may differ.  Yet they accept the same
\* requests, and what they accept they plan alike, for every schema and every
\* request that compares nothing with null.
THEOREM BackendsPlanAlike ==
    ASSUME NEW d, NEW req, DOMAIN req.predicates \subseteq Nat, DOMAIN req.having \subseteq Nat
    PROVE  BackendsAgree(d, req)
  <1> DEFINE s == d.schema
             df(paged) == df_plan(req, s, paged)
             duck(paged) == duck_plan(req, s, paged)
  <1>1. SUFFICES ASSUME \A p \in Range(req.predicates) \cup Range(req.having) : NoNull(p),
                        NEW paged \in BOOLEAN
                 PROVE  /\ df(paged).plan = duck(paged).plan
                        /\ df(paged).err = "ok" <=> duck(paged).err = "ok"
    BY Zenon DEF BackendsAgree, NoNull
  <1> DEFINE plan == Clauses(req, s, Window(req, paged))
             agg == agg_plan_error(req, s)
             one == FirstError(<<agg>>)
             wheredf == PredError("df", req, s)
             whereduck == PredError("duckdb", req, s)
             order == order_by_error(req, s)
             cols == ColumnError(req, s)
             restdf == FirstError(<<cols, wheredf, order>>)
             restduck == FirstError(<<whereduck, order, cols>>)
             errdf == IF one # "ok" THEN one ELSE restdf
             errduck == IF agg # "ok" THEN agg ELSE restduck
  <1>2. /\ df(paged) = [err |-> errdf, plan |-> IF errdf = "ok" THEN {plan} ELSE {}]
        /\ duck(paged) = [err |-> errduck, plan |-> IF errduck = "ok" THEN {plan} ELSE {}]
    BY Zenon DEF df_plan, duck_plan
  <1>3. wheredf = "ok" <=> whereduck = "ok"
    BY <1>1, ChecksAgree
  <1> HIDE DEF agg, wheredf, whereduck, order, cols, plan, df, duck
  <1>4. one = "ok" <=> agg = "ok"
    BY FirstOfOne
  <1>5. restdf = "ok" <=> cols = "ok" /\ wheredf = "ok" /\ order = "ok"
    BY FirstOfThree
  <1>6. restduck = "ok" <=> whereduck = "ok" /\ order = "ok" /\ cols = "ok"
    BY FirstOfThree
  <1> HIDE DEF one, restdf, restduck
  <1>7. errdf = "ok" <=> errduck = "ok"
    BY <1>3, <1>4, <1>5, <1>6
  <1> HIDE DEF errdf, errduck
  <1> QED
    BY <1>2, <1>7

-----------------------------------------------------------------------------
\* What GuardSound needs of an input.
GuardInput ==
    /\ Is("group") => IsSchema(input.val[1].schema) /\ IsRequest(input.val[2])
    /\ Is("sql") => WellFormed(input.val[1])

LEMMA SchemaIsSchema ==
    ASSUME NEW f, NEW g
    PROVE  IsSchema(Schema2(f, g))
  <1> DEFINE cols == <<"a", "B">>
  <1>1. cols[1] = "a" /\ cols[2] = "B" /\ DOMAIN cols = {1, 2} /\ cols \in Seq({"a", "B"})
    OBVIOUS
  <1>2. Schema2(f, g).columns = cols
    BY DEF Schema2
  <1> HIDE DEF cols
  <1>3. Range(cols) = {"a", "B"}
    BY <1>1 DEF Range
  <1> QED
    BY <1>1, <1>2, <1>3 DEF IsSchema

LEMMA GroupsAreRequests ==
    ASSUME NEW r \in GroupReqs
    PROVE  IsRequest(r)
  <1> DEFINE Numbered(l) == DOMAIN l \subseteq Nat /\ (DOMAIN l = {} => l = <<>>)
             lists == {"columns", "predicates", "group_by", "aggregations", "order_by"}
  <1>1. Numbered(<<>>) /\ \A x, y : Numbered(<<x>>) /\ Numbered(<<x, y>>)
    OBVIOUS
  <1>2. PICK c \in {<<>>, <<"A">>, <<"b">>}, g \in {<<>>, <<"A">>, <<"b">>, <<"x">>},
             a \in Aggs, h \in Havings, o \in Orders, d \in BOOLEAN,
             p \in {<<>>, <<P("b", "is_null", "none", <<>>)>>} :
             r = Grouped(c, g, a, h, o, d, p)
    BY DEF GroupReqs
  <1>3. Numbered(c) /\ Numbered(g) /\ Numbered(a) /\ Numbered(o) /\ Numbered(p)
    <2> HIDE DEF Numbered
    <2>1. Numbered(c) /\ Numbered(g) /\ Numbered(p)
      BY <1>1, Zenon
    <2>2. Numbered(a)
      BY <1>1, Zenon DEF Aggs
    <2>3. Numbered(o)
      BY <1>1, Zenon DEF Orders, Desc
    <2> QED
      BY <2>1, <2>2, <2>3
  <1>4. /\ lists \subseteq DOMAIN r
        /\ r.columns = c /\ r.group_by = g /\ r.aggregations = a /\ r.order_by = o
        /\ r.predicates = p
    <2> HIDE DEF Numbered
    <2> QED
      BY <1>2 DEF Grouped, Req
  <1>5. \A f \in lists : Numbered(r[f])
    <2> HIDE DEF Numbered
    <2> QED
      BY <1>3, <1>4
  <1> QED
    BY <1>4, <1>5 DEF IsRequest

LEMMA StatementsWellFormed ==
    ASSUME NEW stmt \in Statements
    PROVE  WellFormed(stmt)
  <1> DEFINE Root(n) == n.place = "root" /\ n.parent = 0
             Whole(n) == {"tables", "cols", "unseen"} \subseteq DOMAIN n
  <1>1. \A p, pl, n, t, s, f :
           /\ Node(p, pl, n, t, s, f).parent = p /\ Node(p, pl, n, t, s, f).place = pl
           /\ Whole(Node(p, pl, n, t, s, f))
    BY DEF Node
  <1>2. ASSUME NEW r \in Roots PROVE Root(r) /\ Whole(r)
    <2>1. PICK t \in {"t", "w", "u"}, s \in Shows : r = Node(0, "root", NoName, t, s, {})
      BY DEF Roots, Node
    <2> HIDE DEF Whole
    <2> QED
      BY <1>1, <2>1
  <1>3. ASSUME NEW S, NEW F, NEW c \in Children2(S, F) PROVE c.parent \in S /\ Whole(c)
    <2>1. \E p \in S : \E pl, n, t, s, f : c = Node(p, pl, n, t, s, f)
      BY DEF Children2
    <2> HIDE DEF Whole
    <2> QED
      BY <1>1, <2>1
  <1>4. ASSUME NEW n, Whole(n), "place" \in DOMAIN n, "parent" \in DOMAIN n, NEW o \in Obscured(n)
        PROVE  Whole(o) /\ o.parent = n.parent /\ o.place = n.place
    BY <1>4 DEF Obscured
  <1> HIDE DEF Whole
  <1>5. \A p, pl, n, t, s, f : {"place", "parent"} \subseteq DOMAIN Node(p, pl, n, t, s, f)
    BY DEF Node
  <1>6. ASSUME NEW n \in Roots, NEW o \in Obscured(n) PROVE Root(o) /\ Whole(o)
    <2>1. PICK t \in {"t", "w", "u"}, s \in Shows : n = Node(0, "root", NoName, t, s, {})
      BY DEF Roots, Node
    <2> QED
      BY <1>2, <1>4, <1>5, <1>6, <2>1
  <1>7. ASSUME NEW S, NEW F, NEW n \in Children2(S, F), NEW o \in Obscured(n)
        PROVE  o.parent \in S /\ Whole(o)
    <2>1. \E p \in S : \E pl, m, t, s, f : n = Node(p, pl, m, t, s, f)
      BY DEF Children2
    <2> QED
      BY <1>3, <1>4, <1>5, <1>7, <2>1
  <1>8. ASSUME NEW r, Root(r), Whole(r), stmt.nodes = <<r>>, "nodes" \in DOMAIN stmt
        PROVE  WellFormed(stmt)
    BY <1>8 DEF WellFormed, Whole
  <1>9. ASSUME NEW r, Root(r), Whole(r), NEW c, c.parent \in {1}, Whole(c),
               stmt.nodes = <<r, c>>, "nodes" \in DOMAIN stmt
        PROVE  WellFormed(stmt)
    BY <1>9 DEF WellFormed, Whole
  <1>10. ASSUME NEW r, Root(r), Whole(r), NEW c, c.parent \in {1}, Whole(c),
                NEW e, e.parent \in {1, 2}, Whole(e),
                stmt.nodes = <<r, c, e>>, "nodes" \in DOMAIN stmt
         PROVE  WellFormed(stmt)
    BY <1>10 DEF WellFormed, Whole
  <1>11. \/ \E r \in Roots : stmt = [count |-> 1, kind |-> "query", nodes |-> <<r>>]
         \/ \E r \in Roots, c \in Children2({1}, {{}, {"glob"}}), n \in {1, 2}, k \in {"query", "describe"} :
              stmt = [count |-> n, kind |-> k, nodes |-> <<r, c>>]
         \/ \E r \in Roots, c \in Children2({1}, {{}}), e \in Children2({1, 2}, {{}}) :
              stmt = [count |-> 1, kind |-> "query", nodes |-> <<r, c, e>>]
         \/ \E n \in Roots : \E r \in Obscured(n) :
              stmt = [count |-> 1, kind |-> "query", nodes |-> <<r>>]
         \/ \E r \in Roots, n \in Children2({1}, {{}}) : \E c \in Obscured(n) :
              stmt = [count |-> 1, kind |-> "query", nodes |-> <<r, c>>]
    BY DEF Statements
  <1> HIDE DEF Root
  <1>12. CASE \E r \in Roots : stmt = [count |-> 1, kind |-> "query", nodes |-> <<r>>]
    BY <1>2, <1>8, <1>12
  <1>13. CASE \E r \in Roots, c \in Children2({1}, {{}, {"glob"}}), n \in {1, 2}, k \in {"query", "describe"} :
                stmt = [count |-> n, kind |-> k, nodes |-> <<r, c>>]
    BY <1>2, <1>3, <1>9, <1>13
  <1>14. CASE \E r \in Roots, c \in Children2({1}, {{}}), e \in Children2({1, 2}, {{}}) :
                stmt = [count |-> 1, kind |-> "query", nodes |-> <<r, c, e>>]
    BY <1>2, <1>3, <1>10, <1>14
  <1>15. CASE \E n \in Roots : \E r \in Obscured(n) :
                stmt = [count |-> 1, kind |-> "query", nodes |-> <<r>>]
    BY <1>6, <1>8, <1>15
  <1>16. CASE \E r \in Roots, n \in Children2({1}, {{}}) : \E c \in Obscured(n) :
                stmt = [count |-> 1, kind |-> "query", nodes |-> <<r, c>>]
    BY <1>2, <1>7, <1>9, <1>16
  <1> QED
    BY <1>11, <1>12, <1>13, <1>14, <1>15, <1>16

\* The next input comes after a start, and is one GuardSound can judge.
LEMMA NextGuardInput ==
    ASSUME GuardInput, [Next]_input
    PROVE  GuardInput'
  <1>1. CASE UNCHANGED input
    BY <1>1 DEF GuardInput, Is
  <1>2. CASE PickGroup
    <2>1. PICK f \in Filters, g \in Filters, r \in GroupReqs :
             input' = Pair("group", <<Dataset(Schema2(f, g), <<>>, Unindexed), r>>)
      BY <1>2, Zenon DEF PickGroup
    <2> DEFINE d == Dataset(Schema2(f, g), <<>>, Unindexed)
    <2>2. input'.kind = "group" /\ input'.val[1] = d /\ input'.val[2] = r
      <3> HIDE DEF d
      <3> QED
        BY <2>1 DEF Pair, d
    <2>3. d.schema = Schema2(f, g)
      BY DEF Dataset
    <2> HIDE DEF d
    <2> QED
      BY <2>2, <2>3, SchemaIsSchema, GroupsAreRequests DEF GuardInput, Is
  <1>3. CASE PickSql
    <2>1. PICK s \in Statements, f \in {NoFilter, [include |-> {}, exclude |-> {"b"}]} :
             input' = Pair("sql", <<s, f>>)
      BY <1>3, Zenon DEF PickSql
    <2>2. input'.kind = "sql" /\ input'.val[1] = s
      BY <2>1 DEF Pair
    <2> QED
      BY <2>2, StatementsWellFormed DEF GuardInput, Is
  <1>4. ASSUME NEW k, k # "group", k # "sql", \E v : input' = Pair(k, v)
        PROVE  GuardInput'
    <2>1. input'.kind = k
      BY <1>4 DEF Pair
    <2> QED
      BY <1>4, <2>1 DEF GuardInput, Is
  <1>5. CASE PickScan
    BY <1>4, <1>5 DEF PickScan
  <1>6. CASE PickRange
    BY <1>4, <1>6 DEF PickRange
  <1>7. CASE PickDuration
    BY <1>4, <1>7 DEF PickDuration
  <1>8. CASE PickTime
    BY <1>4, <1>8 DEF PickTime
  <1>9. CASE PickStart
    BY <1>4, <1>9 DEF PickStart
  <1>10. CASE PickFiles
    BY <1>4, <1>10 DEF PickFiles
  <1>11. CASE PickDelta
    BY <1>4, <1>11 DEF PickDelta
  <1>12. CASE PickBuild
    BY <1>4, <1>12, ZenonT(40) DEF PickBuild
  <1>13. CASE PickS3
    BY <1>4, <1>13 DEF PickS3
  <1>14. CASE PickEndpoint
    BY <1>4, <1>14 DEF PickEndpoint
  <1>15. CASE PickCell
    BY <1>4, <1>15 DEF PickCell
  <1> QED
    BY <1>1, <1>2, <1>3, <1>5, <1>6, <1>7, <1>8, <1>9, <1>10, <1>11, <1>12, <1>13, <1>14, <1>15
    DEF Next

\* On every input the gates hold: structured queries show and test what their
\* filters allow (enforce_column_filters, build_query_sql); statements refer to
\* registered datasets, TABLE t and stray names aside, and return visible
\* columns where they name their columns (validate_and_authorize);
\* canonicalize_identifiers changes spellings only.
THEOREM GuardsHold == Spec => []GuardSound
  <1>1. Init => GuardInput
    <2> SUFFICES ASSUME Init PROVE GuardInput
      OBVIOUS
    <2>1. input.kind = "start"
      BY DEF Init, Pair
    <2> QED
      BY <2>1 DEF GuardInput, Is
  <1>2. GuardInput /\ [Next]_input => GuardInput'
    BY NextGuardInput
  <1>3. GuardInput => GuardSound
    <2> SUFFICES ASSUME GuardInput PROVE GuardSound
      OBVIOUS
    <2>1. Is("group") => FiltersKept(input.val[1], input.val[2])
      BY QueriesFiltered DEF GuardInput
    <2>2. ASSUME Is("sql")
          PROVE  LET stmt == input.val[1]
                     s == Schema2(NoFilter, input.val[2])
                 IN /\ GatedStatement(stmt, {"t", "u"}, [n \in {"t", "u"} |-> s])
                    /\ CanonicalSame(stmt, [n \in {"t"} |-> "t"], [n \in {"b"} |-> "B"])
      <3>1. WellFormed(input.val[1])
        BY <2>2 DEF GuardInput
      <3> DEFINE names == {"t", "u"}
                 schemas == [n \in {"t", "u"} |-> Schema2(NoFilter, input.val[2])]
                 tables == [n \in {"t"} |-> "t"]
                 columns == [n \in {"b"} |-> "B"]
      <3>2. Spells(tables) /\ Spells(columns)
        BY LowerAssumption DEF Spells
      <3> HIDE DEF names, schemas, tables, columns
      <3>3. GatedStatement(input.val[1], names, schemas)
        BY <3>1, StatementsGated
      <3>4. CanonicalSame(input.val[1], tables, columns)
        BY <3>1, <3>2, SpellingKept
      <3> QED
        BY <3>3, <3>4 DEF names, schemas, tables, columns
    <2> QED
      BY <2>1, <2>2, Zenon DEF GuardSound
  <1> QED
    BY <1>1, <1>2, <1>3, PTL DEF Spec

-----------------------------------------------------------------------------
(***************************************************************************)
(* The inputs SourcesSound judges.                                         *)
(***************************************************************************)
TableStates == {"absent", "broken", "nofiles", "norows", "gone", "partly_gone", "sound"}

SourceInput ==
    /\ Is("files") => \E Dir, T : IsSource(Dir, T, input.val)
    /\ Is("delta") => input.val[1] \in TableStates
    /\ Is("build") => /\ input.val[1] \in {"auto", "memory", "lazy"}
                      /\ input.val[2] = {} \/ \E s : IsStorage(s) /\ input.val[2] = {s}
                      /\ \E T : IsStream(T, input.val[3])
    /\ Is("s3") => \E T : input.val[1] \in Seq(T)
    /\ Is("endpoint") => /\ "host" \in DOMAIN input.val
                         /\ \E T : input.val.host \in Seq(T) /\ "one" \in T

\* Locations of one or two directories.
LEMMA ShortPaths ==
    ASSUME NEW D, NEW parts, \/ \E x \in D : parts = <<x>>
                             \/ \E x, y \in D : parts = <<x, y>>
    PROVE  parts \in Seq(D)
  <1>1. \A x \in D : <<x>> \in Seq(D)
    OBVIOUS
  <1>2. \A x, y \in D : <<x, y>> \in Seq(D)
    OBVIOUS
  <1> QED
    BY <1>1, <1>2, Zenon

LEMMA FilesAreSources ==
    ASSUME PickFiles
    PROVE  input'.kind = "files" /\ \E Dir, T : IsSource(Dir, T, input'.val)
  <1> DEFINE D == Segs \cup Wilds
             T == {x.key : x \in D} \cup {"a", "B"}
             columns == <<"a", "B">>
  <1>1. Tops \subseteq D
    BY DEF Segs, Tops
  <1>2. /\ columns \in Seq(T) /\ IsInjective(columns)
    <2>1. columns \in Seq(T)
      OBVIOUS
    <2>2. DOMAIN columns = {1, 2} /\ columns[1] = "a" /\ columns[2] = "B"
      OBVIOUS
    <2> HIDE DEF columns
    <2> QED
      BY <2>1, <2>2 DEF IsInjective
  <1>3. PICK f \in Dirs, g \in Dirs, w \in {{}, {"A"}, {"x"}}, parts \in Locations,
             shape \in {"glob", "dir", "file"} :
             input' = Pair("files", Src(shape, parts, <<f, g>>, w))
    BY Zenon DEF PickFiles
  <1> DEFINE src == Src(shape, parts, <<f, g>>, w)
  <1>4. /\ src.files = <<f, g>> /\ src.parts = parts /\ src.columns = columns
    BY DEF Src
  <1>5. input'.kind = "files" /\ input'.val = src
    <2> HIDE DEF src
    <2> QED
      BY <1>3 DEF Pair, src
  <1> HIDE DEF src, columns
  <1>6. parts \in Seq(D)
    <2>1. \/ \E x \in D : parts = <<x>>
          \/ \E x \in Tops, y \in Wilds : parts = <<x, y>>
      BY <1>3 DEF Locations
    <2>2. \A y \in Wilds : y \in D
      OBVIOUS
    <2> HIDE DEF D
    <2> QED
      BY <1>1, <2>1, <2>2, ShortPaths
  <1>7. ASSUME NEW d \in Dirs PROVE d \in Seq(D)
    <2>1. \/ \E x \in Segs : d = <<x>>
          \/ \E x \in Tops, y \in Segs : d = <<x, y>>
      BY <1>7 DEF Dirs
    <2>2. \A y \in Segs : y \in D
      OBVIOUS
    <2> HIDE DEF D
    <2> QED
      BY <1>1, <2>1, <2>2, ShortPaths
  <1>8. <<f, g>> \in Seq(Seq(D))
    BY <1>7
  <1>9. IsSource(D, T, src)
    BY <1>2, <1>4, <1>6, <1>8 DEF IsSource
  <1> QED
    BY <1>5, <1>9

LEMMA BuildsAreStreams ==
    ASSUME PickBuild
    PROVE  /\ input'.kind = "build"
           /\ input'.val[1] \in {"auto", "memory", "lazy"}
           /\ input'.val[2] = {} \/ \E s : IsStorage(s) /\ input'.val[2] = {s}
           /\ \E T : IsStream(T, input'.val[3])
  <1> DEFINE memory == Opt({1, 16, 64})
             reserved == Opt({2, 13, 32})
             settings == [threshold : {0, 1024, 20 * 1024}, memory_mb : memory,
                          reservation_mb : reserved]
             lists == UNION {[1 .. n -> BatchSizes] : n \in 0 .. 3}
             Batch(sizes, i) == [id |-> i, rows |-> sizes[i][1], bytes |-> sizes[i][2]]
             Stream(sizes) == [i \in DOMAIN sizes |-> Batch(sizes, i)]
  <1>1. PICK res \in {"auto", "memory", "lazy"}, st \in Opt(settings), sizes \in lists :
             input' = Pair("build", <<res, st, Stream(sizes)>>)
    BY Zenon DEF PickBuild
  <1>2. /\ input'.kind = "build" /\ input'.val[1] = res /\ input'.val[2] = st
        /\ input'.val[3] = Stream(sizes)
    <2> HIDE DEF Stream
    <2> QED
      BY <1>1 DEF Pair
  <1>3. st = {} \/ \E s : IsStorage(s) /\ st = {s}
    <2>1. ASSUME NEW S \in SUBSET Nat, NEW o \in Opt(S) PROVE IsOption(o)
      BY <2>1 DEF Opt, IsOption
    <2>2. \A o \in memory : IsOption(o)
      <3>1. {1, 16, 64} \in SUBSET Nat
        OBVIOUS
      <3> QED
        BY <2>1, <3>1
    <2>3. \A o \in reserved : IsOption(o)
      <3>1. {2, 13, 32} \in SUBSET Nat
        OBVIOUS
      <3> QED
        BY <2>1, <3>1
    <2> HIDE DEF memory, reserved
    <2>4. \A s \in settings : IsStorage(s)
      BY <2>2, <2>3 DEF IsStorage
    <2> HIDE DEF settings
    <2> QED
      BY <2>4 DEF Opt
  <1>4. PICK n \in 0 .. 3 : sizes \in [1 .. n -> BatchSizes]
    OBVIOUS
  <1>5. /\ DOMAIN sizes = 1 .. n /\ n \in Nat
        /\ \A i \in 1 .. n : sizes[i][1] \in Nat /\ sizes[i][2] \in Nat
    <2>1. \A x \in BatchSizes : x[1] \in Nat /\ x[2] \in Nat
      BY DEF BatchSizes
    <2> QED
      BY <1>4, <2>1
  <1> DEFINE s == Stream(sizes)
             T == {Batch(sizes, i) : i \in 1 .. n}
  <1>6. \A i \in 1 .. n : /\ Batch(sizes, i).id = i
                         /\ Batch(sizes, i).bytes \in Nat /\ Batch(sizes, i).rows \in Nat
    BY <1>5
  <1> HIDE DEF Batch
  <1>7. s \in Seq(T) /\ DOMAIN s = 1 .. n /\ \A i \in 1 .. n : s[i] = Batch(sizes, i)
    <2>1. s = [i \in 1 .. n |-> Batch(sizes, i)]
      BY <1>5
    <2>2. \A i \in 1 .. n : Batch(sizes, i) \in T
      OBVIOUS
    <2> HIDE DEF s, T
    <2> QED
      BY <1>5, <2>1, <2>2
  <1> HIDE DEF s
  <1>8. IsInjective(s)
    BY <1>6, <1>7 DEF IsInjective
  <1>9. IsStream(T, s)
    BY <1>6, <1>7, <1>8, SMTT(30) DEF IsStream
  <1> QED
    BY <1>2, <1>3, <1>9, ZenonT(40) DEF s

\* The next input comes after a start, and is one SourcesSound can judge.
LEMMA NextSourceInput ==
    ASSUME SourceInput, [Next]_input
    PROVE  SourceInput'
  <1>1. CASE UNCHANGED input
    BY <1>1 DEF SourceInput, Is
  <1>2. CASE PickFiles
    BY <1>2, FilesAreSources DEF SourceInput, Is
  <1>3. CASE PickDelta
    <2>1. PICK t \in TableStates, lazy, s3 \in BOOLEAN, b \in {{}, {0}, {1}, {2}}, limit \in {0, 1} :
             input' = Pair("delta", <<t, [lazy |-> lazy, s3 |-> s3, bytes |-> b], limit>>)
      BY <1>3, Zenon DEF PickDelta, TableStates
    <2> DEFINE d == [lazy |-> lazy, s3 |-> s3, bytes |-> b]
    <2> HIDE DEF d
    <2>2. input' = Pair("delta", <<t, d, limit>>)
      BY <2>1 DEF d
    <2>3. input'.kind = "delta" /\ input'.val[1] = t
      BY <2>2 DEF Pair
    <2> QED
      BY <2>1, <2>3 DEF SourceInput, Is
  <1>4. CASE PickBuild
    BY <1>4, BuildsAreStreams DEF SourceInput, Is
  <1>5. CASE PickS3
    <2>1. PICK m \in {"a", "A"}, n \in {"A", "b"}, p, q \in {"one", "two"}, c, f, g, h \in Creds :
             input' = Pair("s3", <<<<Named(m, p, c), Named(n, q, Cred({"k2"}, f.secret))>>,
                                   Environment(g, h)>>)
      BY <1>5, Zenon DEF PickS3
    <2> DEFINE x == Named(m, p, c)
               y == Named(n, q, Cred({"k2"}, f.secret))
               e == Environment(g, h)
    <2>2. input' = Pair("s3", <<<<x, y>>, e>>)
      BY <2>1, Zenon
    <2> HIDE DEF x, y, e
    <2>3. input'.kind = "s3" /\ input'.val[1] = <<x, y>>
      BY <2>2 DEF Pair
    <2>4. <<x, y>> \in Seq({x, y})
      OBVIOUS
    <2>5. \E T : input'.val[1] \in Seq(T)
      BY <2>3, <2>4, Zenon
    <2> QED
      BY <2>3, <2>5 DEF SourceInput, Is
  <1>6. CASE PickEndpoint
    <2> DEFINE hosts == {<<>>, <<"one">>, <<"one", "x">>, <<"x">>}
               T == {"one", "x"}
    <2>1. PICK b \in {"true", "false", "auto"}, y \in {"virtual", "path"}, host \in hosts :
             input' = Pair("endpoint", [bucket_in_host |-> b, style |-> y, host |-> host])
      BY <1>6, Zenon DEF PickEndpoint
    <2>2. \A h \in hosts : h \in Seq(T)
      <3>1. <<>> \in Seq(T) /\ <<"one">> \in Seq(T)
        OBVIOUS
      <3>2. <<"one", "x">> \in Seq(T) /\ <<"x">> \in Seq(T)
        OBVIOUS
      <3> HIDE DEF T
      <3> QED
        BY <3>1, <3>2, Zenon
    <2> HIDE DEF hosts
    <2> DEFINE s3 == [bucket_in_host |-> b, style |-> y, host |-> host]
    <2>3. "host" \in DOMAIN s3 /\ s3.host = host
      OBVIOUS
    <2> HIDE DEF s3
    <2>4. input'.kind = "endpoint" /\ input'.val = s3
      BY <2>1 DEF Pair, s3
    <2>5. s3.host \in Seq(T) /\ "one" \in T
      BY <2>2, <2>3
    <2> HIDE DEF T
    <2> QED
      BY <2>3, <2>4, <2>5 DEF SourceInput, Is
  <1>7. ASSUME NEW k, k \notin {"files", "delta", "build", "s3", "endpoint"},
               \E v : input' = Pair(k, v)
        PROVE  SourceInput'
    <2>1. input'.kind = k
      BY <1>7 DEF Pair
    <2> QED
      BY <1>7, <2>1 DEF SourceInput, Is
  <1>8. CASE PickScan
    BY <1>7, <1>8 DEF PickScan
  <1>9. CASE PickGroup
    BY <1>7, <1>9 DEF PickGroup
  <1>10. CASE PickSql
    BY <1>7, <1>10 DEF PickSql
  <1>11. CASE PickRange
    BY <1>7, <1>11 DEF PickRange
  <1>12. CASE PickDuration
    BY <1>7, <1>12 DEF PickDuration
  <1>13. CASE PickTime
    BY <1>7, <1>13 DEF PickTime
  <1>14. CASE PickStart
    BY <1>7, <1>14 DEF PickStart
  <1>15. CASE PickCell
    BY <1>7, <1>15 DEF PickCell
  <1> QED
    BY <1>1, <1>2, <1>3, <1>4, <1>5, <1>6, <1>8, <1>9, <1>10, <1>11, <1>12, <1>13, <1>14, <1>15
    DEF Next

\* On every input files, Delta tables and buckets are read the same way,
\* resident or lazy, where the layout allows it, and the result of a query
\* keeps its rows in both backends, in memory or on disk (read_local_parquet,
\* build_lazy_delta, build_query_dataset, build_s3_secret_sql,
\* effective_endpoint).
THEOREM SourcesHold == Spec => []SourcesSound
  <1>1. Init => SourceInput
    <2> SUFFICES ASSUME Init PROVE SourceInput
      OBVIOUS
    <2>1. input.kind = "start"
      BY DEF Init, Pair
    <2> QED
      BY <2>1 DEF SourceInput, Is
  <1>2. SourceInput /\ [Next]_input => SourceInput'
    BY NextSourceInput
  <1>3. SourceInput => SourcesSound
    <2> SUFFICES ASSUME SourceInput PROVE SourcesSound
      OBVIOUS
    <2>1. Is("files") => LazySame(input.val)
      BY LayoutsKept DEF SourceInput
    <2>2. Is("delta") => DeltaSame(input.val[1]) /\ ForceSame(input.val[2], input.val[3])
      BY DeltasAlike, ForcedAlike DEF SourceInput, TableStates
    <2>3. ASSUME Is("build")
          PROVE  /\ BuildKeepsRows(input.val[1], input.val[2], input.val[3])
                 /\ ReservationFits(input.val[2])
      <3>1. ReservationFits(input.val[2])
        BY <2>3, ReservationsFit DEF SourceInput
      <3>2. input.val[2] = {} \/ \E s : s.threshold \in Nat /\ input.val[2] = {s}
        BY <2>3 DEF SourceInput, IsStorage
      <3>3. BuildKeepsRows(input.val[1], input.val[2], input.val[3])
        BY <2>3, <3>2, BuildsKeepRows DEF SourceInput
      <3> QED
        BY <3>1, <3>3
    <2>4. Is("s3") => OwnCredentials(input.val[1], input.val[2])
      BY CredentialsKept DEF SourceInput
    <2>5. Is("endpoint") => EndpointStable(input.val, "one")
      BY EndpointsStable DEF SourceInput
    <2> QED
      BY <2>1, <2>2, <2>3, <2>4, <2>5, Zenon DEF SourcesSound
  <1> QED
    BY <1>1, <1>2, <1>3, PTL DEF Spec

-----------------------------------------------------------------------------
(***************************************************************************)
(* The calendar.                                                           *)
(***************************************************************************)
\* A year later, by the rules of leap years.
LEMMA NextYear ==
    ASSUME NEW y \in Nat, y >= 1970
    PROVE  /\ DaysBeforeYear(y + 1) = DaysBeforeYear(y) + YearDays(y)
           /\ DaysBeforeYear(y) \in Int
           /\ YearDays(y) \in Nat /\ YearDays(y) >= 365
  <1> DEFINE z == y - 1
             leap == (y % 4 = 0 /\ y % 100 # 0) \/ y % 400 = 0
  <1>1. z \in Nat /\ y + 1 - 1 = y /\ y = z + 1
    OBVIOUS
  <1>2. y \div 4 = z \div 4 + IF y % 4 = 0 THEN 1 ELSE 0
    BY <1>1
  <1>3. y \div 100 = z \div 100 + IF y % 100 = 0 THEN 1 ELSE 0
    BY <1>1
  <1>4. y \div 400 = z \div 400 + IF y % 400 = 0 THEN 1 ELSE 0
    BY <1>1
  <1>5. (y % 400 = 0 => y % 100 = 0) /\ (y % 100 = 0 => y % 4 = 0)
    OBVIOUS
  <1>6. YearDays(y) = IF leap THEN 366 ELSE 365
    BY DEF YearDays, is_leap
  <1>7. /\ DaysBeforeYear(y) = 365 * (z - 1969) + (z \div 4 - z \div 100 + z \div 400) - 477
        /\ DaysBeforeYear(y + 1) = 365 * (y - 1969) + (y \div 4 - y \div 100 + y \div 400) - 477
    BY <1>1 DEF DaysBeforeYear
  <1>8. /\ z \div 4 \in Int /\ z \div 100 \in Int /\ z \div 400 \in Int
        /\ y \div 4 \in Int /\ y \div 100 \in Int /\ y \div 400 \in Int
    BY <1>1
  <1> DEFINE a == z \div 4
             b == z \div 100
             c == z \div 400
  <1>9. DaysBeforeYear(y + 1) = 365 * (y - 1969) + (a + (IF y % 4 = 0 THEN 1 ELSE 0)
            - (b + IF y % 100 = 0 THEN 1 ELSE 0) + (c + IF y % 400 = 0 THEN 1 ELSE 0)) - 477
    BY <1>2, <1>3, <1>4, <1>7
  <1>10. a \in Int /\ b \in Int /\ c \in Int
         /\ DaysBeforeYear(y) = 365 * (z - 1969) + (a - b + c) - 477
    BY <1>7, <1>8
  <1> HIDE DEF a, b, c
  <1> QED
    BY <1>1, <1>5, <1>6, <1>9, <1>10

\* What the loop over the years has after each round.
YearAt(a, days) ==
    /\ a \in [year : Nat, days : Nat]
    /\ a.year >= 1970
    /\ DaysBeforeYear(a.year) + a.days = days

LEMMA YearsTaken ==
    ASSUME NEW days \in Nat
    PROVE  YearAt(TakeYears(days), days) /\ TakeYears(days).days < YearDays(TakeYears(days).year)
  <1> DEFINE n == days \div 365
             State == [year : Nat, days : Nat]
             T == {a \in State : YearAt(a, days)}
             start == [year |-> 1970, days |-> days]
             E(a) == IF a.days < YearDays(a.year) THEN a
                     ELSE [year |-> a.year + 1, days |-> a.days - YearDays(a.year)]
             step == [x \in (1 .. n) \X T |-> E(x[2])]
             Def(at) == [k \in 0 .. n |->
                           IF k = 0 THEN start
                           ELSE LET a == at[k - 1] IN
                                IF a.days < YearDays(a.year) THEN a
                                ELSE [year |-> a.year + 1, days |-> a.days - YearDays(a.year)]]
             F == CHOOSE f : f = Def(f)
  <1>1. n \in Nat /\ days - 365 * n < 365
    OBVIOUS
  <1>2. start \in T
    <2>1. DaysBeforeYear(1970) = 0
      BY DEF DaysBeforeYear
    <2>2. start \in State /\ start.year = 1970 /\ start.days = days
      OBVIOUS
    <2> QED
      BY <2>1, <2>2 DEF YearAt
  <1>3. ASSUME NEW a \in T
        PROVE  /\ E(a) \in T
               /\ a.days \in Nat
               /\ a.days < YearDays(a.year) => E(a) = a
               /\ ~ (a.days < YearDays(a.year)) => E(a).days \in Nat /\ E(a).days <= a.days - 365
    <2>1. a.year \in Nat /\ a.days \in Nat /\ a.year >= 1970
          /\ DaysBeforeYear(a.year) + a.days = days
      BY <1>3 DEF YearAt
    <2>2. /\ DaysBeforeYear(a.year + 1) = DaysBeforeYear(a.year) + YearDays(a.year)
          /\ DaysBeforeYear(a.year) \in Int
          /\ YearDays(a.year) \in Nat /\ YearDays(a.year) >= 365
      BY <2>1, NextYear
    <2>3. CASE a.days < YearDays(a.year)
      BY <1>3, <2>1, <2>3
    <2>4. CASE ~ (a.days < YearDays(a.year))
      <3> DEFINE e == [year |-> a.year + 1, days |-> a.days - YearDays(a.year)]
      <3>1. E(a) = e
        BY <2>4
      <3>2. e.year = a.year + 1 /\ e.days = a.days - YearDays(a.year) /\ e \in State
        BY <2>1, <2>2, <2>4
      <3>3. YearAt(e, days)
        <4> HIDE DEF e
        <4> QED
          BY <2>1, <2>2, <3>2 DEF YearAt
      <3> HIDE DEF E, e
      <3> QED
        BY <2>1, <2>2, <2>4, <3>1, <3>2, <3>3
    <2> QED
      BY <2>3, <2>4
  <1>4. \A f : Def(f) = [k \in 0 .. n |-> IF k = 0 THEN start ELSE E(f[k - 1])]
    OBVIOUS
  <1>5. TakeYears(days) = F[n]
    BY DEF TakeYears
  <1> HIDE DEF n, T, E, start, Def
  <1>6. step \in [(1 .. n) \X T -> T]
    BY <1>3
  <1>7. \A k \in 1 .. n, a \in T : step[<<k, a>>] = E(a)
    OBVIOUS
  <1> HIDE DEF step
  <1>8. PICK f : Unrolls(f, n, T, start, step)
    BY <1>1, <1>2, <1>6, RecursionExists
  <1>9. \A k \in 1 .. n : k - 1 \in 0 .. n /\ k \in 0 .. n
    BY <1>1
  <1>10. f = Def(f)
    <2>1. f = [k \in 0 .. n |-> f[k]] /\ f[0] = start
      BY <1>8 DEF Unrolls
    <2>2. \A k \in 1 .. n : f[k] = E(f[k - 1])
      BY <1>7, <1>8, <1>9 DEF Unrolls
    <2>3. \A k \in 0 .. n : k = 0 \/ k \in 1 .. n
      BY <1>1
    <2>4. \A k \in 0 .. n : f[k] = IF k = 0 THEN start ELSE E(f[k - 1])
      BY <2>1, <2>2, <2>3
    <2> QED
      BY <1>4, <2>1, <2>4
  <1>11. F = Def(F)
    BY <1>10
  <1> HIDE DEF F
  <1>12. F = [k \in 0 .. n |-> F[k]] /\ F[0] = start /\ \A k \in 1 .. n : F[k] = E(F[k - 1])
    <2> DEFINE g == [k \in 0 .. n |-> IF k = 0 THEN start ELSE E(F[k - 1])]
    <2>1. g = [k \in 0 .. n |-> g[k]]
      OBVIOUS
    <2>2. g[0] = start /\ \A k \in 1 .. n : g[k] = E(F[k - 1])
      BY <1>1
    <2>3. F = g
      BY <1>4, <1>11
    <2> HIDE DEF g
    <2> QED
      BY <2>1, <2>2, <2>3
  <1>13. F \in [0 .. n -> T]
    <2>1. \A k \in 1 .. n : F[k - 1] \in T => F[k] = step[<<k, F[k - 1]>>]
      BY <1>7, <1>12
    <2>2. Unrolls(F, n, T, start, step)
      BY <1>1, <1>2, <1>6, <1>12, <2>1, RecursionTyped
    <2> QED
      BY <2>2 DEF Unrolls
  <1>14. start.days = days
    BY DEF start
  <1> DEFINE good == {k \in 0 .. n : F[k].days < YearDays(F[k].year) \/ F[k].days <= days - 365 * k}
  <1>15. 0 \in good
    BY <1>1, <1>12, <1>14
  <1>16. ASSUME NEW k \in 1 .. n, k - 1 \in good PROVE k \in good
    <2>1. F[k - 1] \in T /\ F[k] = E(F[k - 1]) /\ k \in Nat
      <3>1. k - 1 \in 0 .. n /\ k \in Nat
        BY <1>1
      <3>2. F[k] = E(F[k - 1])
        BY <1>12
      <3> QED
        BY <1>13, <3>1, <3>2
    <2>2. CASE F[k - 1].days < YearDays(F[k - 1].year)
      <3>1. F[k] = F[k - 1]
        BY <1>3, <2>1, <2>2
      <3> QED
        BY <1>9, <2>2, <3>1
    <2>3. CASE ~ (F[k - 1].days < YearDays(F[k - 1].year))
      <3>1. F[k - 1].days <= days - 365 * (k - 1)
        BY <1>16, <2>3
      <3>2. F[k].days \in Nat /\ F[k].days <= F[k - 1].days - 365 /\ F[k - 1].days \in Nat
        BY <1>3, <2>1, <2>3
      <3>3. F[k].days <= days - 365 * k
        BY <2>1, <3>1, <3>2
      <3> QED
        BY <1>9, <3>3
    <2> QED
      BY <2>2, <2>3
  <1>17. n \in good
    <2>1. n \in 0 .. n
      BY <1>1
    <2> HIDE DEF good
    <2> QED
      BY <1>1, <1>15, <1>16, <2>1, UpToN
  <1>18. F[n] \in T /\ YearAt(F[n], days)
    BY <1>1, <1>13 DEF T
  <1>19. F[n].days < YearDays(F[n].year)
    <2>1. F[n].days \in Nat /\ F[n].year \in Nat /\ F[n].year >= 1970
      BY <1>18 DEF YearAt
    <2>2. YearDays(F[n].year) \in Nat /\ YearDays(F[n].year) >= 365
      BY <2>1, NextYear
    <2> QED
      BY <1>1, <1>17, <2>1, <2>2
  <1> QED
    BY <1>5, <1>18, <1>19

\* The months of a year add up.
LEMMA NextMonth ==
    ASSUME NEW y \in Nat, NEW k \in 1 .. 12
    PROVE  /\ MonthDays(y)[k] \in Nat /\ MonthDays(y)[k] >= 1
           /\ DaysBeforeMonth(y, k) \in Nat
           /\ k < 12 => DaysBeforeMonth(y, k + 1) = DaysBeforeMonth(y, k) + MonthDays(y)[k]
           /\ k = 12 => DaysBeforeMonth(y, k) + MonthDays(y)[k] = YearDays(y)
  <1> DEFINE leap == is_leap(y)
             m == MonthDays(y)
             table == <<0, 31, 59, 90, 120, 151, 181, 212, 243, 273, 304, 334>>
  <1>1. /\ m[1] = 31 /\ m[2] = (IF leap THEN 29 ELSE 28) /\ m[3] = 31 /\ m[4] = 30
        /\ m[5] = 31 /\ m[6] = 30 /\ m[7] = 31 /\ m[8] = 31 /\ m[9] = 30 /\ m[10] = 31
        /\ m[11] = 30 /\ m[12] = 31
    BY DEF MonthDays
  <1>2. /\ table[1] = 0 /\ table[2] = 31 /\ table[3] = 59 /\ table[4] = 90 /\ table[5] = 120
        /\ table[6] = 151 /\ table[7] = 181 /\ table[8] = 212 /\ table[9] = 243
        /\ table[10] = 273 /\ table[11] = 304 /\ table[12] = 334
    OBVIOUS
  <1>3. \A j : DaysBeforeMonth(y, j) = table[j] + IF j > 2 /\ leap THEN 1 ELSE 0
    BY DEF DaysBeforeMonth
  <1>4. YearDays(y) = IF leap THEN 366 ELSE 365
    BY DEF YearDays
  <1>5. k \in {1, 2, 3, 4, 5, 6, 7, 8, 9, 10, 11, 12}
    OBVIOUS
  <1> HIDE DEF leap, m, table
  <1>6. m[k] \in Nat /\ m[k] >= 1 /\ DaysBeforeMonth(y, k) \in Nat
    BY <1>1, <1>2, <1>3, <1>5
  <1>7. ASSUME k < 12 PROVE DaysBeforeMonth(y, k + 1) = DaysBeforeMonth(y, k) + m[k]
    BY <1>1, <1>2, <1>3, <1>5, <1>7
  <1>8. ASSUME k = 12 PROVE DaysBeforeMonth(y, k) + m[k] = YearDays(y)
    BY <1>1, <1>2, <1>3, <1>4, <1>8
  <1> QED
    BY <1>6, <1>7, <1>8 DEF m

\* What the loop over the months has after k rounds: a month and the days left,
\* or the end of the year.
MonthAt(a, year, days, k) ==
    /\ a.days \in Nat /\ a.month \in 1 .. k + 1
    /\ a.month <= 12 => DaysBeforeMonth(year, a.month) + a.days = days
    /\ a.month = 13 => YearDays(year) + a.days = days
    /\ a.month # k + 1 => a.days < MonthDays(year)[a.month]

LEMMA MonthsTaken ==
    ASSUME NEW year \in Nat, NEW days \in Nat, days < YearDays(year), YearDays(year) \in Nat
    PROVE  LET a == TakeMonths(MonthDays(year), days)
           IN /\ a.days \in Nat /\ a.month \in 1 .. 12
              /\ DaysBeforeMonth(year, a.month) + a.days = days
              /\ a.days < MonthDays(year)[a.month]
  <1> DEFINE months == MonthDays(year)
             T == [month : Nat, days : Nat]
             start == [month |-> 1, days |-> days]
             E(k, a) == IF a.month # k \/ a.days < months[k] THEN a
                        ELSE [month |-> k + 1, days |-> a.days - months[k]]
             step == [x \in (1 .. 12) \X T |-> E(x[1], x[2])]
             Def(at) == [k \in 0 .. 12 |->
                           IF k = 0 THEN start
                           ELSE LET a == at[k - 1] IN
                                IF a.month # k \/ a.days < months[k] THEN a
                                ELSE [month |-> k + 1, days |-> a.days - months[k]]]
             F == CHOOSE f : f = Def(f)
  <1>1. \A k \in 1 .. 12 : /\ months[k] \in Nat /\ months[k] >= 1
                           /\ DaysBeforeMonth(year, k) \in Nat
    BY NextMonth
  <1>2. start \in T /\ start.month = 1 /\ start.days = days
    OBVIOUS
  <1> HIDE DEF months
  <1>3. ASSUME NEW k \in 1 .. 12, NEW a \in T PROVE E(k, a) \in T
    BY <1>1, <1>3
  <1>4. \A f : Def(f) = [k \in 0 .. 12 |-> IF k = 0 THEN start ELSE E(k, f[k - 1])]
    OBVIOUS
  <1>5. TakeMonths(months, days) = F[12]
    BY DEF TakeMonths
  <1> HIDE DEF T, E, start, Def
  <1>6. step \in [(1 .. 12) \X T -> T]
    BY <1>3
  <1>7. \A k \in 1 .. 12, a \in T : step[<<k, a>>] = E(k, a)
    OBVIOUS
  <1> HIDE DEF step
  <1>8. PICK f : Unrolls(f, 12, T, start, step)
    BY <1>2, <1>6, RecursionExists
  <1>9. \A k \in 1 .. 12 : k - 1 \in 0 .. 12 /\ k \in 0 .. 12
    OBVIOUS
  <1>10. f = Def(f)
    <2>1. f = [k \in 0 .. 12 |-> f[k]] /\ f[0] = start
      BY <1>8 DEF Unrolls
    <2>2. \A k \in 1 .. 12 : f[k] = E(k, f[k - 1])
      BY <1>7, <1>8, <1>9 DEF Unrolls
    <2>3. \A k \in 0 .. 12 : k = 0 \/ k \in 1 .. 12
      OBVIOUS
    <2>4. \A k \in 0 .. 12 : f[k] = IF k = 0 THEN start ELSE E(k, f[k - 1])
      BY <2>1, <2>2, <2>3
    <2> QED
      BY <1>4, <2>1, <2>4
  <1>11. F = Def(F)
    BY <1>10
  <1> HIDE DEF F
  <1>12. F[0] = start /\ \A k \in 1 .. 12 : F[k] = E(k, F[k - 1])
    <2> DEFINE g == [k \in 0 .. 12 |-> IF k = 0 THEN start ELSE E(k, F[k - 1])]
    <2>1. g[0] = start /\ \A k \in 1 .. 12 : g[k] = E(k, F[k - 1])
      OBVIOUS
    <2>2. F = g
      BY <1>4, <1>11
    <2> HIDE DEF g
    <2> QED
      BY <2>1, <2>2
  <1> DEFINE good == {k \in 0 .. 12 : MonthAt(F[k], year, days, k)}
  <1>13. 0 \in good
    <2>1. DaysBeforeMonth(year, 1) = 0
      BY DEF DaysBeforeMonth
    <2> QED
      BY <1>2, <1>12, <2>1 DEF MonthAt
  <1>14. ASSUME NEW k \in 1 .. 12, k - 1 \in good PROVE k \in good
    <2> DEFINE a == F[k - 1]
               b == F[k]
    <2>1. MonthAt(a, year, days, k - 1) /\ b = E(k, a)
      BY <1>12, <1>14
    <2> HIDE DEF a, b
    <2>2. /\ a.days \in Nat /\ a.month \in 1 .. k
          /\ DaysBeforeMonth(year, a.month) + a.days = days
          /\ a.month # k => a.days < months[a.month]
      BY <2>1 DEF MonthAt, months
    <2>3. CASE a.month # k \/ a.days < months[k]
      <3>1. b = a
        BY <2>1, <2>3 DEF E
      <3>2. a.month \in 1 .. k + 1 /\ a.month # 13 /\ a.days < months[a.month]
        BY <2>2, <2>3
      <3>3. MonthAt(b, year, days, k)
        BY <2>2, <3>1, <3>2 DEF MonthAt, months
      <3> QED
        BY <1>9, <3>3 DEF b
    <2>4. CASE a.month = k /\ ~ (a.days < months[k])
      <3>1. b.month = k + 1 /\ b.days = a.days - months[k]
        BY <2>1, <2>4 DEF E
      <3>2. b.days \in Nat /\ b.days + months[k] = a.days
        BY <1>1, <2>2, <2>4, <3>1
      <3>3. k + 1 <= 12 => DaysBeforeMonth(year, k + 1) + b.days = days
        <4>1. k < 12 => DaysBeforeMonth(year, k + 1) = DaysBeforeMonth(year, k) + months[k]
          BY NextMonth DEF months
        <4> QED
          BY <1>1, <2>2, <2>4, <3>2, <4>1
      <3>4. k + 1 = 13 => YearDays(year) + b.days = days
        <4>1. k = 12 => DaysBeforeMonth(year, k) + months[k] = YearDays(year)
          BY NextMonth DEF months
        <4> QED
          BY <1>1, <2>2, <2>4, <3>2, <4>1
      <3>5. MonthAt(b, year, days, k)
        BY <3>1, <3>2, <3>3, <3>4 DEF MonthAt
      <3> QED
        BY <1>9, <3>5 DEF b
    <2> QED
      BY <2>3, <2>4
  <1>15. 12 \in good
    <2> HIDE DEF good
    <2>1. 12 \in Nat /\ 12 \in 0 .. 12
      OBVIOUS
    <2> QED
      BY <1>13, <1>14, <2>1, UpToN
  <1>16. MonthAt(F[12], year, days, 12)
    BY <1>15
  <1> DEFINE a == F[12]
  <1> HIDE DEF a
  <1>17. a.days \in Nat /\ a.month \in 1 .. 13 /\ a.month # 13
    BY <1>16 DEF MonthAt, a
  <1>18. a.month \in 1 .. 12
    BY <1>17
  <1> QED
    BY <1>5, <1>16, <1>17, <1>18 DEF MonthAt, a, months

\* Seconds are days and what is left, and that is hours, minutes and seconds.
LEMMA SplitSeconds ==
    ASSUME NEW n \in Nat
    PROVE  /\ n \div 86400 \in Nat /\ n % 86400 \in Nat /\ n % 86400 < 86400
           /\ n = 86400 * (n \div 86400) + (n % 86400)
  OBVIOUS

LEMMA SplitDay ==
    ASSUME NEW n \in Nat, n < 86400
    PROVE  /\ n \div 3600 \in Nat /\ n \div 3600 < 24
           /\ (n % 3600) \div 60 \in Nat /\ (n % 3600) \div 60 < 60
           /\ n % 60 \in Nat /\ n % 60 < 60
           /\ n = 3600 * (n \div 3600) + 60 * ((n % 3600) \div 60) + (n % 60)
  <1> DEFINE h == n \div 3600
             r == n % 3600
             m == r \div 60
             s == r % 60
  <1>1. h \in Nat /\ h < 24 /\ r \in Nat /\ r < 3600 /\ n = 3600 * h + r
    OBVIOUS
  <1>2. m \in Nat /\ m < 60 /\ s \in Nat /\ s < 60 /\ r = 60 * m + s
    <2> HIDE DEF r
    <2> QED
      BY <1>1
  <1> HIDE DEF h, r, m, s
  <1>3. n = 60 * (60 * h + m) + s
    BY <1>1, <1>2
  <1>4. n % 60 = s
    <2> DEFINE k == 60 * h + m
    <2>1. k \in Nat /\ n = 60 * k + s
      BY <1>1, <1>2, <1>3
    <2> HIDE DEF k
    <2> QED
      BY <1>2, <2>1
  <1>5. n = 3600 * h + 60 * m + s
    BY <1>1, <1>2
  <1> QED
    BY <1>1, <1>2, <1>4, <1>5 DEF h, r, m

\* The times the status reports and the names of generations carry are those
\* meant, for every second since 1970 (format_rfc3339_secs, now_rfc3339,
\* days_to_ymd).
THEOREM TimesFaithful ==
    ASSUME NEW secs \in Nat
    PROVE  TimeFaithful(secs)
  <1> DEFINE days == secs \div 86400
             left == secs % 86400
             y == TakeYears(days)
             m == TakeMonths(MonthDays(y.year), y.days)
             t == format_rfc3339_secs(secs)
  <1>1. days \in Nat /\ left \in Nat /\ left < 86400 /\ secs = 86400 * days + left
    BY SplitSeconds
  <1>2. /\ t.date.year = y.year /\ t.date.month = m.month /\ t.date.day = m.days + 1
        /\ t.hh = left \div 3600 /\ t.mm = (left % 3600) \div 60 /\ t.ss = left % 60
    BY DEF format_rfc3339_secs, days_to_ymd
  <1> HIDE DEF days, left, y, m, t
  <1>3. /\ y.year \in Nat /\ y.days \in Nat /\ y.year >= 1970
        /\ DaysBeforeYear(y.year) + y.days = days /\ y.days < YearDays(y.year)
    <2>1. YearAt(y, days) /\ y.days < YearDays(y.year)
      BY <1>1, YearsTaken DEF y
    <2> QED
      BY <2>1 DEF YearAt
  <1>4. YearDays(y.year) \in Nat /\ DaysBeforeYear(y.year) \in Int
    BY <1>3, NextYear
  <1>5. /\ m.days \in Nat /\ m.month \in 1 .. 12
        /\ DaysBeforeMonth(y.year, m.month) + m.days = y.days
        /\ m.days < MonthDays(y.year)[m.month]
    BY <1>3, <1>4, MonthsTaken DEF m
  <1>6. DaysBeforeMonth(y.year, m.month) \in Nat /\ MonthDays(y.year)[m.month] \in Nat
    <2>1. \A year \in Nat, k \in 1 .. 12 : DaysBeforeMonth(year, k) \in Nat /\ MonthDays(year)[k] \in Nat
      BY NextMonth
    <2>2. y.year \in Nat /\ m.month \in 1 .. 12
      BY <1>3, <1>5
    <2> QED
      BY <2>1, <2>2
  <1>7. /\ t.hh \in Nat /\ t.hh < 24 /\ t.mm \in Nat /\ t.mm < 60 /\ t.ss \in Nat /\ t.ss < 60
        /\ left = 3600 * t.hh + 60 * t.mm + t.ss
    BY <1>1, <1>2, SplitDay
  <1>8. SecondsOf(t) = secs
    <2> DEFINE a == DaysBeforeYear(y.year)
               b == DaysBeforeMonth(y.year, m.month)
               d == m.days
    <2>1. SecondsOf(t) = 86400 * (a + b + (d + 1) - 1) + 3600 * t.hh + 60 * t.mm + t.ss
      BY <1>2 DEF SecondsOf
    <2>2. a \in Int /\ b \in Nat /\ d \in Nat /\ a + y.days = days /\ b + d = y.days
      BY <1>3, <1>4, <1>5, <1>6
    <2> DEFINE hh == t.hh
               mm == t.mm
               ss == t.ss
    <2>3. hh \in Nat /\ mm \in Nat /\ ss \in Nat /\ left = 3600 * hh + 60 * mm + ss
      BY <1>7
    <2> HIDE DEF a, b, d, hh, mm, ss
    <2>4. a + b + (d + 1) - 1 = days
      BY <2>2
    <2>5. SecondsOf(t) = 86400 * days + 3600 * hh + 60 * mm + ss
      BY <2>1, <2>4 DEF hh, mm, ss
    <2> QED
      BY <1>1, <2>3, <2>5
  <1>9. t.date.day \in 1 .. MonthDays(t.date.year)[t.date.month]
    BY <1>2, <1>5, <1>6
  <1> QED
    BY <1>2, <1>5, <1>7, <1>8, <1>9 DEF TimeFaithful, t

-----------------------------------------------------------------------------
(***************************************************************************)
(* The JSON of a text.  The reader is followed byte by byte.               *)
(***************************************************************************)
Reader == [bad : BOOLEAN, mode : {"plain", "escape", "hex"}, digits : Int, code : Int, text : Seq(Int)]

LEMMA ReadByteTyped ==
    ASSUME NEW st \in Reader, NEW c \in Int
    PROVE  ReadByte(st, c) \in Reader
  <1>1. /\ st.text \in Seq(Int) /\ st.digits \in Int /\ st.code \in Int
        /\ \A x \in Int : Append(st.text, x) \in Seq(Int)
    BY DEF Reader
  <1>2. Broken(st) \in Reader
    BY DEF Reader, Broken
  <1>3. ReadPlain(st, c) \in Reader
    BY <1>1, <1>2 DEF Reader, ReadPlain
  <1>4. \A x \in DOMAIN Unescape : Unescape[x] \in Int
    BY DEF Unescape, Quote, Backslash
  <1>5. ReadEscape(st, c) \in Reader
    <2>1. ASSUME NEW x \in Int PROVE [st EXCEPT !.mode = "plain", !.text = Append(@, x)] \in Reader
      BY <1>1 DEF Reader
    <2>2. [bad |-> FALSE, mode |-> "hex", digits |-> 0, code |-> 0, text |-> st.text] \in Reader
      BY <1>1 DEF Reader
    <2> QED
      BY <1>2, <1>4, <2>1, <2>2 DEF ReadEscape
  <1>6. HexValue(c) \in Int
    BY DEF HexValue
  <1>7. ReadHex(st, c) \in Reader
    <2>1. 16 * st.code + HexValue(c) \in Int /\ st.digits + 1 \in Int
      BY <1>1, <1>6
    <2> QED
      BY <1>1, <1>2, <2>1 DEF Reader, ReadHex
  <1> QED
    BY <1>3, <1>5, <1>7 DEF ReadByte

\* The reader goes on from one byte to the next.
LEMMA ReadingSteps ==
    ASSUME NEW chars \in Seq(Int)
    PROVE  /\ Reading(chars)[0] = ReadStart
           /\ \A k \in 1 .. Len(chars) :
                Reading(chars)[k] = ReadByte(Reading(chars)[k - 1], chars[k])
           /\ \A k \in 0 .. Len(chars) : Reading(chars)[k] \in Reader
  <1> DEFINE n == Len(chars)
             E(k, a) == ReadByte(a, chars[k])
             step == [x \in (1 .. n) \X Reader |-> E(x[1], x[2])]
             Def(st) == [k \in 0 .. n |-> IF k = 0 THEN ReadStart
                                          ELSE ReadByte(st[k - 1], chars[k])]
             F == CHOOSE f : f = Def(f)
  <1>1. n \in Nat /\ \A k \in 1 .. n : chars[k] \in Int
    OBVIOUS
  <1>2. ReadStart \in Reader
    BY DEF ReadStart, Reader
  <1>3. \A k \in 1 .. n, a \in Reader : E(k, a) \in Reader
    BY <1>1, ReadByteTyped
  <1>4. \A f : Def(f) = [k \in 0 .. n |-> IF k = 0 THEN ReadStart ELSE E(k, f[k - 1])]
    OBVIOUS
  <1>5. Reading(chars) = F
    BY DEF Reading
  <1> HIDE DEF n, E, Def
  <1>6. step \in [(1 .. n) \X Reader -> Reader]
    BY <1>3
  <1>7. \A k \in 1 .. n, a \in Reader : step[<<k, a>>] = E(k, a)
    OBVIOUS
  <1> HIDE DEF step
  <1>8. PICK f : Unrolls(f, n, Reader, ReadStart, step)
    BY <1>1, <1>2, <1>6, RecursionExists
  <1>9. \A k \in 1 .. n : k - 1 \in 0 .. n /\ k \in 0 .. n
    BY <1>1
  <1>10. f = Def(f)
    <2>1. f = [k \in 0 .. n |-> f[k]] /\ f[0] = ReadStart
      BY <1>8 DEF Unrolls
    <2>2. \A k \in 1 .. n : f[k] = E(k, f[k - 1])
      BY <1>7, <1>8, <1>9 DEF Unrolls
    <2>3. \A k \in 0 .. n : k = 0 \/ k \in 1 .. n
      BY <1>1
    <2>4. \A k \in 0 .. n : f[k] = IF k = 0 THEN ReadStart ELSE E(k, f[k - 1])
      BY <2>1, <2>2, <2>3
    <2> QED
      BY <1>4, <2>1, <2>4
  <1>11. F = Def(F)
    BY <1>10
  <1> HIDE DEF F
  <1>12. F = [k \in 0 .. n |-> F[k]] /\ F[0] = ReadStart /\ \A k \in 1 .. n : F[k] = E(k, F[k - 1])
    <2> DEFINE g == [k \in 0 .. n |-> IF k = 0 THEN ReadStart ELSE E(k, F[k - 1])]
    <2>1. g = [k \in 0 .. n |-> g[k]]
      OBVIOUS
    <2>2. g[0] = ReadStart /\ \A k \in 1 .. n : g[k] = E(k, F[k - 1])
      BY <1>1
    <2>3. F = g
      BY <1>4, <1>11
    <2> HIDE DEF g
    <2> QED
      BY <2>1, <2>2, <2>3
  <1>13. F \in [0 .. n -> Reader]
    <2>1. \A k \in 1 .. n : F[k - 1] \in Reader => F[k] = step[<<k, F[k - 1]>>]
      BY <1>7, <1>12
    <2>2. Unrolls(F, n, Reader, ReadStart, step)
      BY <1>1, <1>2, <1>6, <1>12, <2>1, RecursionTyped
    <2> QED
      BY <2>2 DEF Unrolls
  <1> QED
    BY <1>5, <1>12, <1>13 DEF n, E

\* More text changes nothing of what was read before.
LEMMA ReadPrefix ==
    ASSUME NEW a \in Seq(Int), NEW b \in Seq(Int)
    PROVE  \A k \in 0 .. Len(a) : Reading(a \o b)[k] = Reading(a)[k]
  <1> DEFINE c == a \o b
             n == Len(a)
             good == {k \in 0 .. n : Reading(c)[k] = Reading(a)[k]}
  <1>1. /\ c \in Seq(Int) /\ n \in Nat /\ Len(c) \in Nat /\ n <= Len(c)
        /\ \A k \in 1 .. n : c[k] = a[k]
    BY ConcatProperties
  <1>2. 0 \in good
    <2>1. Reading(a)[0] = ReadStart
      BY ReadingSteps
    <2>2. Reading(c)[0] = ReadStart
      BY <1>1, ReadingSteps
    <2> QED
      BY <1>1, <2>1, <2>2
  <1> HIDE DEF c
  <1>3. ASSUME NEW k \in 1 .. n, k - 1 \in good PROVE k \in good
    <2>1. Reading(a)[k] = ReadByte(Reading(a)[k - 1], a[k])
      BY ReadingSteps
    <2>2. k \in 1 .. Len(c) /\ k \in 0 .. n
      BY <1>1
    <2>3. Reading(c)[k] = ReadByte(Reading(c)[k - 1], c[k])
      BY <1>1, <2>2, ReadingSteps
    <2>4. c[k] = a[k] /\ Reading(c)[k - 1] = Reading(a)[k - 1]
      BY <1>1, <1>3
    <2> QED
      BY <2>1, <2>2, <2>3, <2>4
  <1>4. \A k \in 0 .. n : k \in good
    <2> HIDE DEF good, n
    <2> QED
      BY <1>1, <1>2, <1>3, UpToN
  <1> QED
    BY <1>4 DEF c

\* One byte more.
LEMMA ReadNext ==
    ASSUME NEW a \in Seq(Int), NEW b \in Seq(Int), NEW j \in 1 .. Len(b)
    PROVE  /\ Reading(a \o b)[Len(a) + j] = ReadByte(Reading(a \o b)[Len(a) + j - 1], b[j])
           /\ Reading(a \o b)[Len(a) + j] \in Reader
           /\ Reading(a \o b)[Len(a)] = Reading(a)[Len(a)]
           /\ Len(a \o b) = Len(a) + Len(b)
  <1> DEFINE c == a \o b
             k == Len(a) + j
  <1>1. /\ c \in Seq(Int) /\ Len(a) \in Nat /\ Len(b) \in Nat /\ Len(c) = Len(a) + Len(b)
        /\ k \in 1 .. Len(c) /\ k \in 0 .. Len(c) /\ c[k] = b[j]
    BY ConcatProperties
  <1>2. Reading(c)[Len(a)] = Reading(a)[Len(a)]
    BY <1>1, ReadPrefix
  <1> HIDE DEF c, k
  <1>3. Reading(c)[k] = ReadByte(Reading(c)[k - 1], c[k]) /\ Reading(c)[k] \in Reader
    BY <1>1, ReadingSteps
  <1> QED
    BY <1>1, <1>2, <1>3 DEF c, k
\* The reader stands between two bytes of the text and has read t.
PlainAt(st, t) == ~st.bad /\ st.mode = "plain" /\ st.text = t

LEMMA ReadPlainByte ==
    ASSUME NEW st \in Reader, NEW t \in Seq(Int), PlainAt(st, t), NEW b \in Nat,
           b \notin DOMAIN Short, b >= 32
    PROVE  PlainAt(ReadByte(st, b), Append(t, b))
  <1>1. b # Backslash /\ b # Quote /\ ~ (b < 32)
    BY DEF Short
  <1>2. ReadByte(st, b) = [st EXCEPT !.text = Append(@, b)]
    BY <1>1 DEF ReadByte, ReadPlain, PlainAt
  <1> QED
    BY <1>2 DEF PlainAt, Reader

LEMMA ReadBackslash ==
    ASSUME NEW st \in Reader, NEW t \in Seq(Int), PlainAt(st, t)
    PROVE  LET u == ReadByte(st, Backslash)
           IN u \in Reader /\ ~u.bad /\ u.mode = "escape" /\ u.text = t
  <1> DEFINE u == ReadByte(st, Backslash)
  <1>1. u = [st EXCEPT !.mode = "escape"]
    BY DEF ReadByte, ReadPlain, PlainAt
  <1>2. u \in Reader
    BY ReadByteTyped DEF Backslash
  <1> HIDE DEF u
  <1>3. ~u.bad /\ u.mode = "escape" /\ u.text = t
    BY <1>1 DEF PlainAt, Reader
  <1> QED
    BY <1>2, <1>3 DEF u

LEMMA ReadShort ==
    ASSUME NEW st \in Reader, NEW t \in Seq(Int), ~st.bad, st.mode = "escape", st.text = t,
           NEW b \in DOMAIN Short
    PROVE  PlainAt(ReadByte(st, Short[b]), Append(t, b))
  <1>1. Short[b] \in DOMAIN Unescape /\ Unescape[Short[b]] = b
    BY DEF Short, Unescape, Quote, Backslash
  <1> DEFINE c == Short[b]
  <1> HIDE DEF c
  <1>2. ReadByte(st, c) = [st EXCEPT !.mode = "plain", !.text = Append(@, b)]
    BY <1>1 DEF ReadByte, ReadEscape, c
  <1> QED
    BY <1>2 DEF PlainAt, Reader, c

\* Halfway through the digits of a code.
HexAt(st, t, digits, code) ==
    st \in Reader /\ ~st.bad /\ st.mode = "hex" /\ st.text = t /\ st.digits = digits /\ st.code = code

LEMMA ReadU ==
    ASSUME NEW st \in Reader, NEW t \in Seq(Int), ~st.bad, st.mode = "escape", st.text = t
    PROVE  HexAt(ReadByte(st, LetterU), t, 0, 0)
  <1>1. LetterU \notin DOMAIN Unescape /\ LetterU \in Int
    BY DEF Unescape, LetterU, Quote, Backslash
  <1> DEFINE u == ReadByte(st, LetterU)
  <1>2. u = [bad |-> FALSE, mode |-> "hex", digits |-> 0, code |-> 0, text |-> st.text]
    BY <1>1 DEF ReadByte, ReadEscape
  <1>3. u \in Reader
    BY <1>1, ReadByteTyped
  <1> HIDE DEF u
  <1> QED
    BY <1>2, <1>3 DEF HexAt, u

LEMMA HexDigit ==
    ASSUME NEW d \in 0 .. 15
    PROVE  Hex(d) \in Int /\ HexValue(Hex(d)) = d
  BY DEF Hex, HexValue, Digit0

LEMMA ReadDigit ==
    ASSUME NEW st, NEW t \in Seq(Int), NEW digits \in 0 .. 3, NEW code \in Int, HexAt(st, t, digits, code),
           NEW d \in 0 .. 15
    PROVE  LET u == ReadByte(st, Hex(d))
           IN IF digits < 3 THEN HexAt(u, t, digits + 1, 16 * code + d)
              ELSE PlainAt(u, Append(t, 16 * code + d))
  <1> DEFINE c == Hex(d)
             u == ReadByte(st, c)
             e == 16 * code + d
  <1>1. c \in Int /\ HexValue(c) = d /\ ~ (HexValue(c) < 0) /\ e \in Int
    <2>1. Hex(d) \in Int /\ HexValue(Hex(d)) = d
      BY HexDigit
    <2>2. d \in Int /\ ~ (d < 0)
      OBVIOUS
    <2> QED
      BY <2>1, <2>2
  <1>2. st \in Reader /\ ~st.bad /\ st.mode = "hex" /\ st.text = t /\ st.digits = digits /\ st.code = code
    BY DEF HexAt
  <1> HIDE DEF c, e
  <1>3. u \in Reader
    BY <1>1, <1>2, ReadByteTyped
  <1>4. u = IF digits < 3 THEN [st EXCEPT !.digits = @ + 1, !.code = e]
            ELSE [st EXCEPT !.mode = "plain", !.text = Append(@, e)]
    <2>1. u = ReadHex(st, c)
      BY <1>2 DEF ReadByte
    <2>2. 16 * st.code + HexValue(c) = e
      BY <1>1, <1>2 DEF e
    <2> QED
      BY <1>1, <1>2, <2>1, <2>2 DEF ReadHex
  <1> HIDE DEF u
  <1>5. CASE digits < 3
    <2>1. u = [st EXCEPT !.digits = @ + 1, !.code = e]
      BY <1>4, <1>5
    <2>2. u.digits = digits + 1 /\ u.code = e /\ u.mode = "hex" /\ u.text = t /\ ~u.bad
      BY <1>2, <2>1 DEF Reader
    <2> QED
      BY <1>3, <1>5, <2>2 DEF HexAt, c, u, e
  <1>6. CASE ~ (digits < 3)
    <2>1. u = [st EXCEPT !.mode = "plain", !.text = Append(@, e)]
      BY <1>4, <1>6
    <2>2. u.mode = "plain" /\ u.text = Append(t, e) /\ ~u.bad
      BY <1>2, <2>1 DEF Reader
    <2> QED
      BY <1>6, <2>2 DEF PlainAt, c, u, e
  <1> QED
    BY <1>5, <1>6

\* What write_str writes for a byte is read as that byte.
LEMMA ReadEscaped ==
    ASSUME NEW a \in Seq(Int), NEW t \in Seq(Int), PlainAt(Reading(a)[Len(a)], t), NEW b \in Nat
    PROVE  /\ Escaped(b) \in Seq(Int)
           /\ a \o Escaped(b) \in Seq(Int)
           /\ LET c == a \o Escaped(b) IN PlainAt(Reading(c)[Len(c)], Append(t, b))
  <1> DEFINE n == Len(a)
             e == Escaped(b)
             c == a \o e
             F == Reading(c)
  <1>1. n \in Nat /\ n \in 0 .. n
    OBVIOUS
  <1>2. Reading(a)[n] \in Reader
    BY <1>1, ReadingSteps
  <1>3. ASSUME e \in Seq(Int), NEW j \in 1 .. Len(e)
        PROVE  /\ c \in Seq(Int) /\ F[n + j] = ReadByte(F[n + j - 1], e[j]) /\ F[n + j] \in Reader
               /\ F[n] = Reading(a)[n] /\ Len(c) = n + Len(e)
    <2> HIDE DEF e
    <2> QED
      BY <1>3, ReadNext
  <1> DEFINE s(j) == F[n + j]
  <1>4. CASE b \in DOMAIN Short
    <2>1. e = <<Backslash, Short[b]>>
      BY <1>4 DEF Escaped
    <2>2. Short[b] \in Int /\ Backslash \in Int
      BY <1>4 DEF Short, Quote, Backslash
    <2>3. e \in Seq(Int) /\ Len(e) = 2 /\ e[1] = Backslash /\ e[2] = Short[b]
      BY <2>1, <2>2
    <2> HIDE DEF e
    <2>4. /\ c \in Seq(Int) /\ Len(c) = n + 2 /\ F[n] = Reading(a)[n]
          /\ F[n + 1] = ReadByte(F[n], Backslash) /\ F[n + 2] = ReadByte(F[n + 1], Short[b])
      <3>1. c \in Seq(Int) /\ Len(c) = n + 2 /\ F[n] = Reading(a)[n] /\ F[n + 1] = ReadByte(F[n + 1 - 1], e[1])
        BY <1>3, <2>3
      <3>2. F[n + 2] = ReadByte(F[n + 2 - 1], e[2])
        BY <1>3, <2>3
      <3>3. n + 1 - 1 = n /\ n + 2 - 1 = n + 1
        BY <1>1
      <3> HIDE DEF F
      <3> QED
        BY <2>3, <3>1, <3>2, <3>3
    <2> HIDE DEF c, F
    <2>5. F[n + 1] \in Reader /\ ~F[n + 1].bad /\ F[n + 1].mode = "escape" /\ F[n + 1].text = t
      BY <1>2, <2>4, ReadBackslash
    <2>6. PlainAt(F[n + 2], Append(t, b))
      BY <1>4, <2>4, <2>5, ReadShort
    <2> QED
      BY <2>3, <2>4, <2>6 DEF c, e, F
  <1>5. CASE b \notin DOMAIN Short /\ b < 32
    <2> DEFINE hi == b \div 16
               lo == b % 16
    <2>1. e = <<Backslash, LetterU, Digit0, Digit0, Hex(hi), Hex(lo)>>
      BY <1>5 DEF Escaped
    <2>2. hi \in 0 .. 15 /\ lo \in 0 .. 15 /\ 16 * hi + lo = b
      BY <1>5
    <2> HIDE DEF hi, lo
    <2>3. Digit0 = Hex(0) /\ 0 \in 0 .. 15
      BY DEF Hex, Digit0
    <2>4. Hex(0) \in Int /\ Hex(hi) \in Int /\ Hex(lo) \in Int /\ Backslash \in Int /\ LetterU \in Int
      <3>1. \A d \in 0 .. 15 : Hex(d) \in Int
        BY HexDigit
      <3>2. Backslash \in Int /\ LetterU \in Int
        BY DEF Backslash, LetterU
      <3> QED
        BY <2>2, <2>3, <3>1, <3>2
    <2>5. /\ e \in Seq(Int) /\ Len(e) = 6
          /\ e[1] = Backslash /\ e[2] = LetterU /\ e[3] = Hex(0) /\ e[4] = Hex(0)
          /\ e[5] = Hex(hi) /\ e[6] = Hex(lo)
      <3> DEFINE x == Hex(0)
                 y == Hex(hi)
                 z == Hex(lo)
                 p == Backslash
                 q == LetterU
      <3>1. e = <<p, q, x, x, y, z>>
        BY <2>1, <2>3
      <3>2. x \in Int /\ y \in Int /\ z \in Int /\ p \in Int /\ q \in Int
        BY <2>4
      <3> HIDE DEF x, y, z, p, q, e
      <3>3. /\ e \in Seq(Int) /\ Len(e) = 6
            /\ e[1] = p /\ e[2] = q /\ e[3] = x /\ e[4] = x /\ e[5] = y /\ e[6] = z
        BY <3>1, <3>2
      <3> QED
        BY <3>3 DEF x, y, z, p, q
    <2> HIDE DEF e
    <2>6. c \in Seq(Int) /\ Len(c) = n + 6 /\ F[n] = Reading(a)[n]
      <3>1. 1 \in 1 .. Len(e)
        BY <2>5
      <3> QED
        BY <1>3, <2>5, <3>1
    <2>7. \A j \in 1 .. 6 : F[n + j] = ReadByte(F[n + j - 1], e[j])
      BY <1>3, <2>5
    <2> HIDE DEF c, F
    <2>8. /\ F[n + 1] = ReadByte(F[n], Backslash) /\ F[n + 2] = ReadByte(F[n + 1], LetterU)
          /\ F[n + 3] = ReadByte(F[n + 2], Hex(0)) /\ F[n + 4] = ReadByte(F[n + 3], Hex(0))
          /\ F[n + 5] = ReadByte(F[n + 4], Hex(hi)) /\ F[n + 6] = ReadByte(F[n + 5], Hex(lo))
      <3>1. /\ n + 1 - 1 = n /\ n + 2 - 1 = n + 1 /\ n + 3 - 1 = n + 2 /\ n + 4 - 1 = n + 3
            /\ n + 5 - 1 = n + 4 /\ n + 6 - 1 = n + 5
        BY <1>1
      <3> QED
        BY <2>5, <2>7, <3>1
    <2>9. F[n + 1] \in Reader /\ ~F[n + 1].bad /\ F[n + 1].mode = "escape" /\ F[n + 1].text = t
      BY <1>2, <2>6, <2>8, ReadBackslash, SMTT(30)
    <2>10. HexAt(F[n + 2], t, 0, 0)
      BY <2>8, <2>9, ReadU
    <2>11. HexAt(F[n + 3], t, 0 + 1, 16 * 0 + 0)
      BY <2>3, <2>8, <2>10, ReadDigit
    <2>12. HexAt(F[n + 4], t, 1 + 1, 16 * 0 + 0)
      <3>1. HexAt(F[n + 3], t, 1, 0)
        BY <2>11
      <3> QED
        BY <2>3, <2>8, <3>1, ReadDigit
    <2>13. HexAt(F[n + 5], t, 2 + 1, 16 * 0 + hi)
      <3>1. HexAt(F[n + 4], t, 2, 0) /\ hi \in 0 .. 15
        BY <2>2, <2>12
      <3>2. F[n + 5] = ReadByte(F[n + 4], Hex(hi))
        BY <2>8
      <3>3. 2 \in 0 .. 3 /\ 0 \in Int
        BY <3>1
      <3>4. IF 2 < 3 THEN HexAt(ReadByte(F[n + 4], Hex(hi)), t, 2 + 1, 16 * 0 + hi)
            ELSE PlainAt(ReadByte(F[n + 4], Hex(hi)), Append(t, 16 * 0 + hi))
        BY <3>1, <3>3, ReadDigit, Zenon
      <3> QED
        BY <3>2, <3>4
    <2>14. PlainAt(F[n + 6], Append(t, 16 * hi + lo))
      <3>1. HexAt(F[n + 5], t, 3, hi) /\ hi \in Int /\ lo \in 0 .. 15
        BY <2>2, <2>13
      <3>2. F[n + 6] = ReadByte(F[n + 5], Hex(lo))
        BY <2>8
      <3>3. 3 \in 0 .. 3 /\ hi \in Int
        BY <3>1
      <3>4. IF 3 < 3 THEN HexAt(ReadByte(F[n + 5], Hex(lo)), t, 3 + 1, 16 * hi + lo)
            ELSE PlainAt(ReadByte(F[n + 5], Hex(lo)), Append(t, 16 * hi + lo))
        BY <3>1, <3>3, ReadDigit, Zenon
      <3> QED
        BY <3>2, <3>4
    <2> QED
      BY <2>2, <2>5, <2>6, <2>14 DEF c, e, F
  <1>6. CASE b \notin DOMAIN Short /\ b >= 32
    <2>1. e = <<b>> /\ b \in Int
      BY <1>6 DEF Escaped
    <2>2. e \in Seq(Int) /\ Len(e) = 1 /\ e[1] = b
      BY <2>1
    <2> HIDE DEF e
    <2>3. c \in Seq(Int) /\ Len(c) = n + 1 /\ F[n] = Reading(a)[n] /\ F[n + 1] = ReadByte(F[n + 1 - 1], b)
      BY <1>3, <2>2
    <2> HIDE DEF c, F
    <2>4. F[n + 1] = ReadByte(F[n], b)
      BY <1>1, <2>3
    <2>5. PlainAt(F[n + 1], Append(t, b))
      BY <1>2, <1>6, <2>3, <2>4, ReadPlainByte
    <2> QED
      BY <2>2, <2>3, <2>5 DEF c, e, F
  <1> QED
    BY <1>4, <1>5, <1>6
\* A text with one byte more.
LEMMA PrefixGrows ==
    ASSUME NEW T, NEW s \in Seq(T), NEW k \in 1 .. Len(s)
    PROVE  /\ SubSeq(s, 1, k - 1) \in Seq(T)
           /\ Append(SubSeq(s, 1, k - 1), s[k]) = SubSeq(s, 1, k)
  <1> DEFINE a == SubSeq(s, 1, k - 1)
             b == SubSeq(s, 1, k)
  <1>1. /\ a \in Seq(T) /\ Len(a) = k - 1 /\ \A i \in 1 .. k - 1 : a[i] = s[i]
        /\ b \in Seq(T) /\ Len(b) = k /\ \A i \in 1 .. k : b[i] = s[i]
        /\ s[k] \in T /\ k \in Nat
    OBVIOUS
  <1> HIDE DEF a, b
  <1> DEFINE c == Append(a, s[k])
  <1>2. /\ c \in Seq(T) /\ Len(c) = k /\ c[k] = s[k]
        /\ \A i \in 1 .. k - 1 : c[i] = a[i]
    BY <1>1, AppendProperties
  <1> HIDE DEF c
  <1>3. \A i \in 1 .. k : i \in 1 .. k - 1 \/ i = k
    BY <1>1
  <1>4. \A i \in 1 .. k : c[i] = b[i]
    BY <1>1, <1>2, <1>3
  <1>5. c = b
    BY <1>1, <1>2, <1>4, SeqEqual
  <1> QED
    BY <1>1, <1>5 DEF a, b, c

\* What write_str writes, byte by byte.
LEMMA WrittenSteps ==
    ASSUME NEW text \in Seq(Nat), Len(text) # 0
    PROVE  \E f : /\ write_str(text).chars = f[Len(text)]
                  /\ f[1] = Escaped(text[1])
                  /\ \A k \in 2 .. Len(text) : f[k] = f[k - 1] \o Escaped(text[k])
  <1> DEFINE n == Len(text)
             T == Seq(Int)
             seqs == [i \in DOMAIN text |-> Escaped(text[i])]
             step == [x \in (1 .. n) \X T |-> x[2] \o Escaped(text[x[1]])]
             Def(g) == [i \in 1 .. n |-> IF i = 1 THEN seqs[i] ELSE g[i - 1] \o seqs[i]]
             F == CHOOSE g : g = Def(g)
  <1>1. /\ n \in Nat /\ n # 0 /\ DOMAIN text = 1 .. n /\ 1 \in 1 .. n
        /\ \A k \in 1 .. n : text[k] \in Nat
    OBVIOUS
  <1>2. \A k \in 1 .. n : Escaped(text[k]) \in T
    <2>1. <<>> \in Seq(Int) /\ Len(<<>>) = 0
      OBVIOUS
    <2>2. PlainAt(Reading(<<>>)[Len(<<>>)], <<>>)
      <3>1. Reading(<<>>)[0] = ReadStart
        BY <2>1, ReadingSteps
      <3> QED
        BY <2>1, <3>1 DEF PlainAt, ReadStart
    <2>3. \A b \in Nat : Escaped(b) \in Seq(Int)
      BY <2>1, <2>2, ReadEscaped, Zenon
    <2> QED
      BY <1>1, <2>3
  <1>3. seqs = [i \in 1 .. n |-> Escaped(text[i])] /\ \A k \in 1 .. n : seqs[k] = Escaped(text[k])
    BY <1>1
  <1>4. seqs \in Seq(T) /\ Len(seqs) = n
    BY <1>1, <1>2, <1>3
  <1>5. write_str(text).chars = F[n]
    <2>1. write_str(text).chars = FlattenSeq(seqs)
      BY DEF write_str
    <2> HIDE DEF seqs
    <2>2. FlattenSeq(seqs) = F[n]
      BY <1>1, <1>4 DEF FlattenSeq
    <2> QED
      BY <2>1, <2>2
  <1> HIDE DEF n, T, seqs
  <1>6. <<>> \in T /\ \A a, b \in T : a \o b \in T /\ <<>> \o a = a
    BY DEF T
  <1>7. step \in [(1 .. n) \X T -> T]
    BY <1>2, <1>6
  <1>8. \A k \in 1 .. n, a \in T : step[<<k, a>>] = a \o Escaped(text[k])
    OBVIOUS
  <1> HIDE DEF step
  <1>9. PICK f : Unrolls(f, n, T, <<>>, step)
    BY <1>1, <1>6, <1>7, RecursionExists
  <1>10. /\ f[0] = <<>> /\ \A k \in 0 .. n : f[k] \in T
         /\ \A k \in 1 .. n : f[k] = f[k - 1] \o Escaped(text[k])
    <2>1. \A k \in 1 .. n : k - 1 \in 0 .. n
      BY <1>1
    <2> QED
      BY <1>8, <1>9, <2>1 DEF Unrolls
  <1> DEFINE g == [i \in 1 .. n |-> f[i]]
  <1>11. g = Def(g)
    <2>1. \A i \in 1 .. n : i = 1 \/ (i # 1 /\ i - 1 \in 1 .. n)
      BY <1>1
    <2>2. f[1] = seqs[1]
      <3>1. f[1] = f[1 - 1] \o Escaped(text[1]) /\ 1 - 1 = 0
        BY <1>1, <1>10
      <3> QED
        BY <1>1, <1>2, <1>3, <1>6, <1>10, <3>1
    <2>3. \A i \in 1 .. n : i # 1 => f[i] = g[i - 1] \o seqs[i]
      BY <1>3, <1>10, <2>1
    <2>4. \A i \in 1 .. n : f[i] = IF i = 1 THEN seqs[i] ELSE g[i - 1] \o seqs[i]
      BY <2>2, <2>3
    <2> QED
      BY <2>4
  <1>12. F = Def(F)
    <2> HIDE DEF g, Def
    <2> QED
      BY <1>11
  <1> HIDE DEF F
  <1>13. F[1] = seqs[1] /\ \A i \in 1 .. n : i # 1 => F[i] = F[i - 1] \o seqs[i]
    <2> DEFINE h == [i \in 1 .. n |-> IF i = 1 THEN seqs[i] ELSE F[i - 1] \o seqs[i]]
    <2>1. h[1] = seqs[1] /\ \A i \in 1 .. n : i # 1 => h[i] = F[i - 1] \o seqs[i]
      BY <1>1
    <2>2. F = h
      BY <1>12
    <2> HIDE DEF h
    <2> QED
      BY <2>1, <2>2
  <1>14. \A k \in 2 .. n : k \in 1 .. n /\ k # 1
    BY <1>1
  <1>15. F[1] = Escaped(text[1]) /\ \A k \in 2 .. n : F[k] = F[k - 1] \o Escaped(text[k])
    BY <1>1, <1>3, <1>13, <1>14
  <1> QED
    BY <1>5, <1>15 DEF n

\* A text that is written reads back.
LEMMA TextReads ==
    ASSUME NEW text \in Seq(Nat)
    PROVE  /\ write_str(text).kind = "string"
           /\ Read(write_str(text).chars).ok
           /\ Read(write_str(text).chars).text = text
  <1> DEFINE n == Len(text)
             w == write_str(text).chars
             Done(c, t) == c \in Seq(Int) /\ PlainAt(Reading(c)[Len(c)], t)
  <1>1. n \in Nat /\ \A k \in 1 .. n : text[k] \in Nat
    OBVIOUS
  <1>2. write_str(text).kind = "string"
    BY DEF write_str
  <1>3. Done(<<>>, <<>>)
    <2>1. <<>> \in Seq(Int) /\ Len(<<>>) = 0
      OBVIOUS
    <2>2. Reading(<<>>)[0] = ReadStart
      BY <2>1, ReadingSteps
    <2> QED
      BY <2>1, <2>2 DEF PlainAt, ReadStart
  <1>4. ASSUME NEW c, NEW t \in Seq(Int), Done(c, t), NEW b \in Nat
        PROVE  Done(c \o Escaped(b), Append(t, b)) /\ Escaped(b) \in Seq(Int)
    BY <1>4, ReadEscaped
  <1>5. Done(w, text)
    <2>1. CASE n = 0
      <3>1. text = <<>>
        BY <2>1
      <3>2. w = <<>>
        <4> DEFINE seqs == [i \in DOMAIN text |-> Escaped(text[i])]
        <4>1. seqs = <<>>
          BY <3>1
        <4>2. w = FlattenSeq(seqs)
          BY DEF write_str
        <4> HIDE DEF seqs
        <4> QED
          BY <4>1, <4>2 DEF FlattenSeq
      <3> QED
        BY <1>3, <3>1, <3>2
    <2>2. CASE n # 0
      <3>1. PICK f : /\ w = f[n]
                     /\ f[1] = Escaped(text[1])
                     /\ \A k \in 2 .. n : f[k] = f[k - 1] \o Escaped(text[k])
        BY <2>2, WrittenSteps
      <3> DEFINE good == {k \in 0 .. n : k = 0 \/ Done(f[k], SubSeq(text, 1, k))}
      <3>2. text \in Seq(Int) /\ \A k \in 1 .. n : SubSeq(text, 1, k - 1) \in Seq(Int)
        <4>1. text \in Seq(Int)
          OBVIOUS
        <4> QED
          BY <4>1, PrefixGrows
      <3>3. \A k \in 1 .. n : Append(SubSeq(text, 1, k - 1), text[k]) = SubSeq(text, 1, k)
        BY PrefixGrows
      <3> HIDE DEF w, n, Done
      <3>4. 0 \in good
        BY <1>1
      <3>5. ASSUME NEW k \in 1 .. n, k - 1 \in good PROVE k \in good
        <4>1. k \in 0 .. n /\ k \in Nat
          BY <1>1
        <4>2. CASE k = 1
          <5>1. SubSeq(text, 1, k - 1) = <<>>
            <6>1. text \in Seq(Nat) /\ SubSeq(text, 1, 0) = <<>> /\ 1 - 1 = 0
              OBVIOUS
            <6> QED
              BY <4>2, <6>1
          <5>2. Done(<<>> \o Escaped(text[k]), Append(<<>>, text[k])) /\ Escaped(text[k]) \in Seq(Int)
            <6>1. <<>> \in Seq(Int)
              OBVIOUS
            <6> QED
              BY <1>1, <1>3, <1>4, <6>1
          <5>3. <<>> \o Escaped(text[k]) = Escaped(text[k])
            BY <5>2
          <5>4. f[k] = Escaped(text[k])
            BY <3>1, <4>2
          <5>5. Append(<<>>, text[k]) = SubSeq(text, 1, k)
            BY <3>3, <5>1
          <5> QED
            BY <4>1, <5>2, <5>3, <5>4, <5>5
        <4>3. CASE k # 1
          <5>1. k \in 2 .. n /\ k - 1 # 0
            BY <4>1, <4>3
          <5>2. Done(f[k - 1], SubSeq(text, 1, k - 1))
            BY <3>5, <5>1
          <5>3. Done(f[k - 1] \o Escaped(text[k]), Append(SubSeq(text, 1, k - 1), text[k]))
            BY <1>1, <1>4, <3>2, <5>2
          <5> QED
            BY <3>1, <3>3, <4>1, <5>1, <5>3
        <4> QED
          BY <4>2, <4>3
      <3>6. n \in good
        <4>1. n \in 0 .. n
          BY <1>1
        <4> HIDE DEF good
        <4> QED
          BY <1>1, <3>4, <3>5, <4>1, UpToN
      <3>7. SubSeq(text, 1, n) = text
        BY DEF n
      <3> QED
        BY <2>2, <3>1, <3>6, <3>7
    <2> QED
      BY <2>1, <2>2
  <1> HIDE DEF w
  <1>6. Read(w).ok /\ Read(w).text = text
    BY <1>5 DEF Read, PlainAt
  <1> QED
    BY <1>2, <1>6 DEF w

\* A name reads back as it is when no byte of it needs escaping.
LEMMA NameReads ==
    ASSUME NEW name \in Seq(Nat), \A i \in DOMAIN name : Escaped(name[i]) = <<name[i]>>
    PROVE  Read(name).ok /\ Read(name).text = name
  <1> DEFINE n == Len(name)
             good == {k \in 0 .. n : PlainAt(Reading(name)[k], SubSeq(name, 1, k))}
  <1>1. n \in Nat /\ DOMAIN name = 1 .. n /\ name \in Seq(Int) /\ SubSeq(name, 1, 0) = <<>>
        /\ SubSeq(name, 1, n) = name
    OBVIOUS
  <1>2. /\ Reading(name)[0] = ReadStart
        /\ \A k \in 1 .. n : Reading(name)[k] = ReadByte(Reading(name)[k - 1], name[k])
        /\ \A k \in 0 .. n : Reading(name)[k] \in Reader
    BY <1>1, ReadingSteps
  <1>3. 0 \in good
    <2>1. PlainAt(ReadStart, <<>>) /\ 0 \in 0 .. n
      BY <1>1 DEF PlainAt, ReadStart
    <2> QED
      BY <1>1, <1>2, <2>1
  <1>4. ASSUME NEW k \in 1 .. n, k - 1 \in good PROVE k \in good
    <2> DEFINE b == name[k]
    <2>1. b \in Nat /\ Escaped(b) = <<b>> /\ k \in 0 .. n /\ k - 1 \in 0 .. n
      BY <1>1
    <2>2. b \notin DOMAIN Short /\ b >= 32
      <3> HIDE DEF b
      <3> DEFINE x == Short[b]
                 y == Hex(b \div 16)
                 z == Hex(b % 16)
      <3>1. /\ b \in DOMAIN Short => Escaped(b) = <<Backslash, x>>
            /\ b \notin DOMAIN Short /\ b < 32
                 => Escaped(b) = <<Backslash, LetterU, Digit0, Digit0, y, z>>
        BY DEF Escaped
      <3> HIDE DEF x, y, z
      <3>2. /\ Len(<<b>>) = 1 /\ Len(<<Backslash, x>>) = 2
            /\ Len(<<Backslash, LetterU, Digit0, Digit0, y, z>>) = 6
        OBVIOUS
      <3>3. b \notin DOMAIN Short
        BY <2>1, <3>1, <3>2
      <3>4. ~ (b < 32)
        BY <2>1, <3>1, <3>2, <3>3
      <3> QED
        BY <2>1, <3>3, <3>4
    <2>3. /\ SubSeq(name, 1, k - 1) \in Seq(Int)
          /\ Append(SubSeq(name, 1, k - 1), b) = SubSeq(name, 1, k)
      BY <1>1, PrefixGrows
    <2>4. PlainAt(Reading(name)[k - 1], SubSeq(name, 1, k - 1)) /\ Reading(name)[k - 1] \in Reader
      BY <1>2, <1>4, <2>1
    <2> HIDE DEF b
    <2>5. PlainAt(ReadByte(Reading(name)[k - 1], b), Append(SubSeq(name, 1, k - 1), b))
      BY <2>1, <2>2, <2>3, <2>4, ReadPlainByte
    <2> QED
      BY <1>2, <2>1, <2>3, <2>5 DEF b
  <1>5. n \in good
    <2>1. n \in 0 .. n
      BY <1>1
    <2> HIDE DEF good, n
    <2> QED
      BY <1>1, <1>3, <1>4, <2>1, UpToN
  <1> QED
    BY <1>1, <1>5 DEF Read, PlainAt
\* What a cell of a column holds: a text, a key into a dictionary of optional
\* texts, or a value with a text of its own, by type.
IsValue(type, v) ==
    /\ type \in Texts \cup {"Decimal"} => v \in Seq(Nat)
    /\ type = "DictI32Utf8" => DictText(v) \in Seq(Nat)
    /\ type = "Other" => v.chars \in Seq(Nat)

\* The JSON of a cell reads back as its value, null where there is none, for
\* texts of any length and any bytes; the writer of single values and the encoder
\* chosen per column agree; and names without a byte to escape read back
\* (serialize, cast_for_serialize, ColEnc, write_value, write_str).
THEOREM CellsKept ==
    ASSUME NEW name \in Seq(Nat), NEW type \in DataTypes, NEW cell,
           cell = {} \/ \E v : IsValue(type, v) /\ cell = {v}
    PROVE  CellKept(name, type, cell)
  <1> DEFINE s == serialize(name, type, cell)
             m == Meant(type, cell)
             kept == IF s.out.kind = "string"
                     THEN /\ Read(s.out.chars).ok
                          /\ m = [kind |-> "string", chars |-> Read(s.out.chars).text]
                     ELSE s.out = m
  <1>1. s.key.chars = name
    BY DEF serialize
  <1>2. (\A i \in DOMAIN name : Escaped(name[i]) = <<name[i]>>) => Read(name).ok /\ Read(name).text = name
    BY NameReads
  <1>3. JsonNull.kind # "string"
    BY DEF JsonNull, JsonLit
  <1>4. CASE cell = {}
    <2>1. m = JsonNull
      BY <1>4 DEF Meant
    <2> DEFINE c == cast_for_serialize(type, cell)
    <2>2. ~c.err /\ c.cell = {}
      BY <1>4 DEF cast_for_serialize
    <2>3. s.out = IF c.err THEN JsonNull ELSE ColEnc_write(c.type, c.cell)
      BY DEF serialize
    <2> HIDE DEF c
    <2>4. s.out = JsonNull
      BY <2>2, <2>3 DEF ColEnc_write
    <2> HIDE DEF s, m
    <2>5. kept
      BY <1>3, <2>1, <2>4
    <2> QED
      BY <1>1, <1>2, <1>4, <2>5 DEF CellKept, s, m
  <1>5. CASE cell # {}
    <2>1. PICK v : IsValue(type, v) /\ cell = {v}
      BY <1>5
    <2>2. (CHOOSE x \in cell : TRUE) = v
      BY <2>1
    <2> DEFINE c == cast_for_serialize(type, cell)
    <2>3. s.err = c.err /\ (~c.err => s.out = ColEnc_write(c.type, c.cell))
      BY DEF serialize
    <2>4. ASSUME NEW text \in Seq(Nat), s.out = write_str(text), m = [kind |-> "string", chars |-> text]
          PROVE  kept
      <3> HIDE DEF s, m
      <3> QED
        BY <2>4, TextReads
    <2>5. ASSUME type # "Other"
          PROVE  /\ kept
                 /\ \A x \in cell : write_value(type, x) = ColEnc_write(type, {x})
      <3>1. c.err = FALSE /\ c.type = type /\ c.cell = cell
        BY <2>5 DEF cast_for_serialize, writable_inline
      <3>2. s.out = ColEnc_write(type, cell)
        BY <2>3, <3>1
      <3>3. ColEnc(type) = type
        BY <2>5 DEF ColEnc
      <3> HIDE DEF s, c
      <3> DEFINE e == ColEnc_write(type, cell)
                 w == write_value(type, v)
      <3>4. CASE type \in Texts \cup {"Decimal"}
        <4>1. e = write_str(v)
          BY <1>5, <2>2, <3>3, <3>4 DEF ColEnc_write, Texts
        <4>2. w = write_str(v)
          BY <3>4 DEF write_value, Texts
        <4>3. m = [kind |-> "string", chars |-> v]
          BY <1>5, <2>2, <3>4 DEF Meant, Texts
        <4>4. v \in Seq(Nat)
          BY <2>1, <3>4 DEF IsValue
        <4> HIDE DEF m, e, w
        <4>5. kept
          BY <2>4, <3>2, <4>1, <4>3, <4>4 DEF e
        <4> QED
          BY <2>1, <4>1, <4>2, <4>5 DEF e, w
      <3>5. CASE type = "DictI32Utf8"
        <4>1. e = write_str(DictText(v))
          BY <1>5, <2>2, <3>3, <3>5 DEF ColEnc_write, Texts
        <4>2. w = write_str(DictText(v))
          BY <3>5 DEF write_value, Texts
        <4>3. m = [kind |-> "string", chars |-> DictText(v)]
          BY <1>5, <2>2, <3>5 DEF Meant, Texts
        <4>4. DictText(v) \in Seq(Nat)
          BY <2>1, <3>5 DEF IsValue
        <4> HIDE DEF m, e, w
        <4>5. kept
          BY <2>4, <3>2, <4>1, <4>3, <4>4 DEF e
        <4> QED
          BY <2>1, <4>1, <4>2, <4>5 DEF e, w
      <3>6. CASE type = "Boolean"
        <4> DEFINE j == JsonLit(IF v THEN "true" ELSE "false")
        <4>1. e = j
          BY <1>5, <2>2, <3>3, <3>6 DEF ColEnc_write, Texts
        <4>2. w = j
          BY <3>6 DEF write_value, Texts
        <4>3. m = j
          BY <1>5, <2>2, <3>6 DEF Meant, Texts
        <4>4. j.kind # "string"
          BY DEF JsonLit
        <4> HIDE DEF m, e, w, j
        <4>5. kept
          BY <3>2, <4>1, <4>3, <4>4 DEF e
        <4> QED
          BY <2>1, <4>1, <4>2, <4>5 DEF e, w
      <3>7. CASE type = "Int"
        <4> DEFINE j == [kind |-> "number", chars |-> <<v>>]
        <4>1. e = j
          BY <1>5, <2>2, <3>3, <3>7 DEF ColEnc_write, Texts
        <4>2. w = j
          BY <3>7 DEF write_value, Texts
        <4>3. m = j
          BY <1>5, <2>2, <3>7 DEF Meant, Texts
        <4>4. j.kind # "string"
          OBVIOUS
        <4> HIDE DEF m, e, w, j
        <4>5. kept
          BY <3>2, <4>1, <4>3, <4>4 DEF e
        <4> QED
          BY <2>1, <4>1, <4>2, <4>5 DEF e, w
      <3>8. CASE type = "Float"
        <4> DEFINE j == IF v.finite THEN [kind |-> "number", chars |-> <<v.n>>] ELSE JsonNull
        <4>1. e = j
          BY <1>5, <2>2, <3>3, <3>8 DEF ColEnc_write, Texts
        <4>2. w = j
          BY <3>8 DEF write_value, Texts
        <4>3. m = j
          BY <1>5, <2>2, <3>8 DEF Meant, Texts
        <4>4. j.kind # "string"
          BY <1>3
        <4> HIDE DEF m, e, w, j
        <4>5. kept
          BY <3>2, <4>1, <4>3, <4>4 DEF e
        <4> QED
          BY <2>1, <4>1, <4>2, <4>5 DEF e, w
      <3> QED
        BY <2>5, <3>4, <3>5, <3>6, <3>7, <3>8 DEF DataTypes
    <2>6. ASSUME type = "Other", ~s.err PROVE kept
      <3>1. c.err = (v.text = "error") /\ c.type = "Utf8"
            /\ c.cell = IF v.text = "none" THEN {} ELSE {v.chars}
        BY <1>5, <2>2, <2>6 DEF cast_for_serialize, writable_inline, cast
      <3>2. s.out = ColEnc_write("Utf8", IF v.text = "none" THEN {} ELSE {v.chars})
        BY <2>3, <2>6, <3>1
      <3>3. m = IF v.text = "none" THEN JsonNull ELSE [kind |-> "string", chars |-> v.chars]
        BY <1>5, <2>2, <2>6 DEF Meant, Texts
      <3> HIDE DEF s, m, c
      <3>4. CASE v.text = "none"
        <4>1. s.out = JsonNull
          BY <3>2, <3>4 DEF ColEnc_write
        <4> QED
          BY <1>3, <3>3, <3>4, <4>1
      <3>5. CASE v.text # "none"
        <4> DEFINE t == v.chars
        <4>1. s.out = ColEnc_write("Utf8", {t}) /\ m = [kind |-> "string", chars |-> t]
          BY <3>2, <3>3, <3>5
        <4>2. t \in Seq(Nat)
          BY <2>1, <2>6 DEF IsValue
        <4> HIDE DEF t
        <4>3. (CHOOSE x \in {t} : TRUE) = t
          OBVIOUS
        <4>4. ColEnc_write("Utf8", {t}) = write_str(t)
          BY <4>3 DEF ColEnc_write, ColEnc, DataTypes, Texts
        <4> QED
          BY <2>4, <4>1, <4>2, <4>4
      <3> QED
        BY <3>4, <3>5
    <2> HIDE DEF s, m, c
    <2>7. ~s.err => kept
      BY <2>5, <2>6
    <2>8. writable_inline(type) => \A x \in cell : write_value(type, x) = ColEnc_write(type, {x})
      BY <2>5 DEF writable_inline
    <2> QED
      BY <1>1, <1>2, <2>7, <2>8 DEF CellKept, s, m
  <1> QED
    BY <1>4, <1>5
-----------------------------------------------------------------------------
(***************************************************************************)
(* FormatsSound: the inputs are headers, durations, times and cells.       *)
(***************************************************************************)
FormatInput ==
    /\ Is("range") => /\ input.val[2] \in Nat
                      /\ \E h : /\ input.val[1] = {h}
                                /\ IsPart(Head(h.ranges).start) /\ IsPart(Head(h.ranges).end)
    /\ Is("duration") => input.val[1] \in Nat /\ input.val[2] \in {"ms", "s", "m", "h", "d"}
    /\ Is("time") => input.val \in Nat
    /\ Is("cell") => /\ input.val[1] \in Seq(Nat) /\ input.val[2] \in DataTypes
                     /\ \/ input.val[3] = {}
                        \/ \E v : IsValue(input.val[2], v) /\ input.val[3] = {v}

LEMMA HeadersHaveParts ==
    ASSUME NEW h \in Headers
    PROVE  IsPart(Head(h.ranges).start) /\ IsPart(Head(h.ranges).end)
  <1>1. \A p \in Parts : IsPart(p)
    BY DEF Parts, Absent, Bad, Num, IsPart
  <1> DEFINE Line(d, s, e) == [dash |-> d, start |-> s, end |-> e]
  <1>2. PICK u \in {"bytes", "items"}, d \in BOOLEAN, s \in Parts, e \in Parts :
               h = [unit |-> u, ranges |-> <<Line(d, s, e)>>]
    BY DEF Headers
  <1> DEFINE r == Line(d, s, e)
  <1>3. r.start = s /\ r.end = e
    OBVIOUS
  <1> HIDE DEF r, Line
  <1>4. h.ranges = <<r>>
    BY <1>2 DEF r
  <1>5. Head(<<r>>) = r
    OBVIOUS
  <1> QED
    BY <1>1, <1>3, <1>4, <1>5

LEMMA ValuesAreCells ==
    ASSUME NEW type \in DataTypes, NEW v \in CellValues(type)
    PROVE  IsValue(type, v)
  <1>1. \A s \in Strings : s \in Seq(Nat)
    <2> DEFINE bytes == {0, 10, 27, Quote, Backslash, LetterU, 97, 200}
    <2>1. bytes \subseteq Nat
      BY DEF Quote, Backslash, LetterU
    <2> HIDE DEF bytes
    <2>2. ASSUME NEW s \in Strings PROVE s \in Seq(Nat)
      <3>1. PICK n \in 0 .. 2 : s \in [1 .. n -> bytes]
        BY DEF Strings, bytes
      <3>2. n \in Nat
        OBVIOUS
      <3>3. \A i \in 1 .. n : s[i] \in Nat
        BY <2>1, <3>1
      <3>4. s = [i \in 1 .. n |-> s[i]]
        BY <3>1
      <3> QED
        BY <3>2, <3>3, <3>4
    <2> QED
      BY <2>2
  <1>2. CASE type \in Texts \cup {"Decimal"}
    <2>1. v \in Strings
      BY <1>2 DEF CellValues, Texts
    <2> QED
      BY <1>1, <1>2, <2>1 DEF IsValue, Texts
  <1>3. CASE type = "DictI32Utf8"
    <2> DEFINE a == <<97, 10>>
               b == <<>>
    <2>1. a \in Seq(Nat) /\ b \in Seq(Nat)
      OBVIOUS
    <2>2. v \in [key : 1 .. 2, values : [1 .. 2 -> {{}, {b}, {a}}]]
      BY <1>3 DEF CellValues, Texts
    <2> DEFINE x == v.values[v.key]
    <2> HIDE DEF a
    <2>3. x \in {{}, {b}, {a}}
      BY <2>2
    <2>4. DictText(v) = IF x = {} THEN b ELSE CHOOSE y \in x : TRUE
      BY DEF DictText
    <2> HIDE DEF x, b
    <2>5. DictText(v) \in Seq(Nat)
      BY <2>1, <2>3, <2>4
    <2> QED
      BY <1>3, <2>5 DEF IsValue, Texts
  <1>4. CASE type = "Other"
    <2>1. v \in [text : {"some", "none", "error"}, chars : Strings]
      BY <1>4 DEF CellValues, Texts
    <2>2. v.chars \in Strings
      BY <2>1
    <2> QED
      BY <1>1, <1>4, <2>2 DEF IsValue, Texts
  <1>5. CASE type \in {"Boolean", "Int", "Float"}
    BY <1>5 DEF IsValue, Texts
  <1> QED
    BY <1>2, <1>3, <1>4, <1>5 DEF DataTypes

\* The next input comes after a start, and is one FormatsSound can judge.
LEMMA NextFormatInput ==
    ASSUME FormatInput, [Next]_input
    PROVE  FormatInput'
  <1>1. CASE UNCHANGED input
    BY <1>1 DEF FormatInput, Is
  <1>2. CASE PickRange
    <2>1. PICK h \in Headers, total \in {0, 1, 4} : input' = Pair("range", <<{h}, total>>)
      BY <1>2, Zenon DEF PickRange
    <2>2. input'.kind = "range" /\ input'.val[1] = {h} /\ input'.val[2] = total /\ total \in Nat
      BY <2>1 DEF Pair
    <2>3. IsPart(Head(h.ranges).start) /\ IsPart(Head(h.ranges).end)
      BY HeadersHaveParts
    <2> QED
      BY <2>2, <2>3 DEF FormatInput, Is
  <1>3. CASE PickDuration
    <2> DEFINE numbers == {0, 1, 2, 59, 60, 90, 119, 1440}
               units == {"ms", "s", "m", "h", "d"}
    <2>1. numbers \subseteq Nat
      OBVIOUS
    <2> HIDE DEF numbers, units
    <2>2. PICK n \in numbers, u \in units :
             InWord(n, u) /\ input' = Pair("duration", <<n, u>>)
      BY <1>3, SMTT(30) DEF PickDuration, numbers, units
    <2>3. input'.kind = "duration" /\ input'.val[1] = n /\ input'.val[2] = u
      BY <2>2 DEF Pair
    <2>4. n \in Nat
      BY <2>1
    <2> QED
      BY <2>3, <2>4 DEF FormatInput, Is, units
  <1>4. CASE PickTime
    <2> DEFINE days == {0, 58, 59, 364, 365, 729, 789, 790, 1095, 10956, 11015, 11016, 11017,
                        11322, 20147, 24837}
               secs == {0, 1, 3599, 3600, 43261, 86399}
    <2>1. PICK d \in days, s \in secs : input' = Pair("time", 86400 * d + s)
      BY <1>4 DEF PickTime
    <2>2. d \in Nat /\ s \in Nat
      OBVIOUS
    <2> HIDE DEF days, secs
    <2>3. 86400 * d + s \in Nat
      BY <2>2
    <2>4. input'.kind = "time" /\ input'.val = 86400 * d + s
      BY <2>1 DEF Pair
    <2> QED
      BY <2>3, <2>4 DEF FormatInput, Is
  <1>5. CASE PickCell
    <2> DEFINE names == {<<97>>, <<97, Quote>>, <<Backslash, 97>>}
    <2>1. \A x \in names : x \in Seq(Nat)
      <3>1. Quote \in Nat /\ Backslash \in Nat
        BY DEF Quote, Backslash
      <3>2. <<97>> \in Seq(Nat) /\ <<97, Quote>> \in Seq(Nat) /\ <<Backslash, 97>> \in Seq(Nat)
        BY <3>1
      <3> QED
        BY <3>2, Zenon
    <2> HIDE DEF names
    <2>2. PICK type \in DataTypes, name \in names :
             \E cell \in {{}} \cup {{v} : v \in CellValues(type)} :
                 input' = Pair("cell", <<name, type, cell>>)
      BY <1>5, Zenon DEF PickCell, names
    <2>3. PICK cell \in {{}} \cup {{v} : v \in CellValues(type)} :
             input' = Pair("cell", <<name, type, cell>>)
      BY <2>2
    <2>4. cell = {} \/ \E v \in CellValues(type) : cell = {v}
      BY <2>3
    <2>5. cell = {} \/ \E v : IsValue(type, v) /\ cell = {v}
      BY <2>4, ValuesAreCells, Zenon
    <2>6. /\ input'.kind = "cell" /\ input'.val[1] = name /\ input'.val[2] = type
          /\ input'.val[3] = cell
      BY <2>3 DEF Pair
    <2>7. name \in Seq(Nat)
      BY <2>1
    <2> QED
      BY <2>5, <2>6, <2>7 DEF FormatInput, Is
  <1>6. ASSUME NEW k, k \notin {"range", "duration", "time", "cell"}, \E v : input' = Pair(k, v)
        PROVE  FormatInput'
    <2>1. input'.kind = k
      BY <1>6 DEF Pair
    <2> QED
      BY <1>6, <2>1 DEF FormatInput, Is
  <1>7. CASE PickScan
    BY <1>6, <1>7 DEF PickScan
  <1>8. CASE PickGroup
    BY <1>6, <1>8 DEF PickGroup
  <1>9. CASE PickSql
    BY <1>6, <1>9 DEF PickSql
  <1>10. CASE PickStart
    BY <1>6, <1>10 DEF PickStart
  <1>11. CASE PickFiles
    BY <1>6, <1>11 DEF PickFiles
  <1>12. CASE PickDelta
    BY <1>6, <1>12 DEF PickDelta
  <1>13. CASE PickBuild
    BY <1>6, <1>13, ZenonT(40) DEF PickBuild
  <1>14. CASE PickS3
    BY <1>6, <1>14 DEF PickS3
  <1>15. CASE PickEndpoint
    BY <1>6, <1>15 DEF PickEndpoint
  <1> QED
    BY <1>1, <1>2, <1>3, <1>4, <1>5, <1>7, <1>8, <1>9, <1>10, <1>11, <1>12, <1>13, <1>14, <1>15
    DEF Next

\* On every input byte ranges serve the bytes asked for, durations survive being
\* written and read, times are those of the calendar and rows read back
\* (parse_byte_range, format_duration, format_rfc3339_secs, serialize).
THEOREM FormatsHold == Spec => []FormatsSound
  <1>1. Init => FormatInput
    <2> SUFFICES ASSUME Init PROVE FormatInput
      OBVIOUS
    <2>1. input.kind = "start"
      BY DEF Init, Pair
    <2> QED
      BY <2>1 DEF FormatInput, Is
  <1>2. FormatInput /\ [Next]_input => FormatInput'
    BY NextFormatInput
  <1>3. FormatInput => FormatsSound
    <2> SUFFICES ASSUME FormatInput PROVE FormatsSound
      OBVIOUS
    <2>1. Is("range") => RangeServed(input.val[1], input.val[2])
      <3>1. SUFFICES ASSUME Is("range") PROVE RangeServed(input.val[1], input.val[2])
        OBVIOUS
      <3>2. PICK h : /\ input.val[1] = {h}
                     /\ IsPart(Head(h.ranges).start) /\ IsPart(Head(h.ranges).end)
        BY <3>1 DEF FormatInput
      <3>3. input.val[2] \in Nat
        BY <3>1 DEF FormatInput
      <3>4. RangeServed({h}, input.val[2])
        BY <3>2, <3>3, RangesServed
      <3> QED
        BY <3>2, <3>4
    <2>2. ASSUME Is("duration")
          PROVE  /\ DurationKept(input.val[1], input.val[2])
                 /\ BackoffBounded(1 + (input.val[1] % 5), input.val[1])
      <3>1. input.val[1] \in Nat /\ input.val[2] \in {"ms", "s", "m", "h", "d"}
        BY <2>2 DEF FormatInput
      <3>2. 1 + (input.val[1] % 5) \in Nat
        BY <3>1
      <3> QED
        BY <3>1, <3>2, DurationsKept, BackoffsBounded
    <2>3. Is("time") => TimeFaithful(input.val)
      BY TimesFaithful DEF FormatInput
    <2>4. Is("cell") => CellKept(input.val[1], input.val[2], input.val[3])
      BY CellsKept DEF FormatInput
    <2> QED
      BY <2>1, <2>2, <2>3, <2>4, Zenon DEF FormatsSound
  <1> QED
    BY <1>1, <1>2, <1>3, PTL DEF Spec

-----------------------------------------------------------------------------
(***************************************************************************)
(* Lists of lists.                                                         *)
(***************************************************************************)
\* f has the first lists joined.
Joins(f, seqs, T) ==
    /\ f \in [0 .. Len(seqs) -> Seq(T)]
    /\ f[0] = <<>>
    /\ \A k \in 1 .. Len(seqs) : f[k] = f[k - 1] \o seqs[k]

\* FlattenSeq joins one list after the other.
LEMMA FlattenSteps ==
    ASSUME NEW T, NEW seqs \in Seq(Seq(T))
    PROVE  \E f : Joins(f, seqs, T) /\ FlattenSeq(seqs) = f[Len(seqs)]
  <1> DEFINE n == Len(seqs)
             U == Seq(T)
             step == [x \in (1 .. n) \X U |-> x[2] \o seqs[x[1]]]
             Def(g) == [i \in 1 .. n |-> IF i = 1 THEN seqs[i] ELSE g[i - 1] \o seqs[i]]
             F == CHOOSE g : g = Def(g)
  <1>1. n \in Nat /\ \A k \in 1 .. n : seqs[k] \in U
    OBVIOUS
  <1>2. <<>> \in U /\ \A a, b \in U : a \o b \in U /\ <<>> \o a = a
    OBVIOUS
  <1>3. n # 0 => FlattenSeq(seqs) = F[n]
    BY DEF FlattenSeq
  <1>4. n = 0 => FlattenSeq(seqs) = <<>>
    BY DEF FlattenSeq
  <1> HIDE DEF U
  <1>5. step \in [(1 .. n) \X U -> U]
    BY <1>1, <1>2
  <1>6. \A k \in 1 .. n, a \in U : step[<<k, a>>] = a \o seqs[k]
    OBVIOUS
  <1> HIDE DEF n, step
  <1>7. PICK f : Unrolls(f, n, U, <<>>, step)
    BY <1>1, <1>2, <1>5, RecursionExists
  <1>8. /\ f \in [0 .. n -> U] /\ f[0] = <<>>
        /\ \A k \in 1 .. n : f[k] = f[k - 1] \o seqs[k]
    <2>1. \A k \in 1 .. n : k - 1 \in 0 .. n
      BY <1>1
    <2> QED
      BY <1>6, <1>7, <2>1 DEF Unrolls
  <1>9. Joins(f, seqs, T)
    BY <1>8 DEF Joins, n, U
  <1>10. FlattenSeq(seqs) = f[n]
    <2>1. CASE n = 0
      BY <1>4, <1>8, <2>1
    <2>2. CASE n # 0
      <3> DEFINE g == [i \in 1 .. n |-> f[i]]
      <3>1. /\ 1 \in 1 .. n /\ n \in 1 .. n /\ 1 - 1 = 0
            /\ \A i \in 1 .. n : i = 1 \/ (i # 1 /\ i - 1 \in 1 .. n)
        BY <1>1, <2>2
      <3>2. f[1] = seqs[1]
        BY <1>1, <1>2, <1>8, <3>1
      <3>3. \A i \in 1 .. n : f[i] = IF i = 1 THEN seqs[i] ELSE g[i - 1] \o seqs[i]
        BY <1>8, <3>1, <3>2
      <3>4. g = Def(g)
        BY <3>3
      <3>5. F = Def(F)
        <4> HIDE DEF g, Def
        <4> QED
          BY <3>4
      <3> HIDE DEF F
      <3>6. F[1] = seqs[1] /\ \A i \in 1 .. n : i # 1 => F[i] = F[i - 1] \o seqs[i]
        <4> DEFINE h == [i \in 1 .. n |-> IF i = 1 THEN seqs[i] ELSE F[i - 1] \o seqs[i]]
        <4>1. h[1] = seqs[1] /\ \A i \in 1 .. n : i # 1 => h[i] = F[i - 1] \o seqs[i]
          BY <3>1
        <4>2. F = h
          BY <3>5
        <4> HIDE DEF h
        <4> QED
          BY <4>1, <4>2
      <3> DEFINE good == {k \in 0 .. n : k = 0 \/ F[k] = f[k]}
      <3>7. 0 \in good
        BY <1>1
      <3>8. ASSUME NEW k \in 1 .. n, k - 1 \in good PROVE k \in good
        <4>1. k \in 0 .. n
          BY <1>1
        <4>2. CASE k = 1
          BY <3>2, <3>6, <4>1, <4>2
        <4>3. CASE k # 1
          <5>1. F[k - 1] = f[k - 1]
            BY <3>1, <3>8, <4>3
          <5> QED
            BY <1>8, <3>6, <4>1, <4>3, <5>1
        <4> QED
          BY <4>2, <4>3
      <3>9. \A k \in 0 .. n : k \in good
        <4> HIDE DEF good
        <4> QED
          BY <1>1, <3>7, <3>8, UpToN
      <3> QED
        BY <1>1, <1>3, <2>2, <3>1, <3>9
    <2> QED
      BY <2>1, <2>2
  <1> QED
    BY <1>9, <1>10 DEF n

\* Lists of some of the first lists joined are those of all.
LEMMA FlattenPrefix ==
    ASSUME NEW T, NEW seqs \in Seq(Seq(T)), NEW f, Joins(f, seqs, T), NEW m \in 0 .. Len(seqs)
    PROVE  FlattenSeq(SubSeq(seqs, 1, m)) = f[m]
  <1> DEFINE s == SubSeq(seqs, 1, m)
  <1>1. /\ s \in Seq(Seq(T)) /\ Len(s) = m /\ m \in Nat /\ Len(seqs) \in Nat
        /\ \A k \in 1 .. m : s[k] = seqs[k]
    OBVIOUS
  <1> HIDE DEF s
  <1>2. PICK g : Joins(g, s, T) /\ FlattenSeq(s) = g[Len(s)]
    BY <1>1, FlattenSteps
  <1> DEFINE good == {k \in 0 .. m : g[k] = f[k]}
  <1>3. 0 \in good
    BY <1>1, <1>2 DEF Joins
  <1>4. ASSUME NEW k \in 1 .. m, k - 1 \in good PROVE k \in good
    <2>1. k \in 1 .. Len(seqs) /\ k \in 0 .. m
      BY <1>1
    <2>2. f[k] = f[k - 1] \o seqs[k]
      BY <2>1 DEF Joins
    <2>3. g[k] = g[k - 1] \o s[k]
      BY <1>1, <1>2 DEF Joins
    <2> QED
      BY <1>1, <1>4, <2>1, <2>2, <2>3
  <1>5. \A k \in 0 .. m : k \in good
    <2> HIDE DEF good
    <2> QED
      BY <1>1, <1>3, <1>4, UpToN
  <1>6. m \in 0 .. m
    BY <1>1
  <1> QED
    BY <1>1, <1>2, <1>5, <1>6 DEF s

\* Where the elements of each list are in the joined one.
LEMMA JoinedAt ==
    ASSUME NEW T, NEW seqs \in Seq(Seq(T)), NEW f, Joins(f, seqs, T),
           NEW k \in 0 .. Len(seqs), NEW j \in k .. Len(seqs)
    PROVE  /\ Len(f[k]) \in Nat /\ Len(f[j]) \in Nat /\ Len(f[k]) <= Len(f[j])
           /\ \A i \in 1 .. Len(f[k]) : f[j][i] = f[k][i]
  <1> DEFINE n == Len(seqs)
             Extends(x) == /\ Len(f[k]) <= Len(f[x])
                           /\ \A i \in 1 .. Len(f[k]) : f[x][i] = f[k][i]
             good == {x \in 0 .. n : x < k \/ Extends(x)}
  <1>1. n \in Nat /\ k \in Nat /\ \A x \in 1 .. n : seqs[x] \in Seq(T)
    OBVIOUS
  <1>2. \A x \in 0 .. n : f[x] \in Seq(T) /\ Len(f[x]) \in Nat
    BY DEF Joins
  <1>3. Extends(k)
    BY <1>2
  <1>4. 0 \in good
    BY <1>1, <1>3
  <1>5. ASSUME NEW x \in 1 .. n, x - 1 \in good PROVE x \in good
    <2>1. x \in 0 .. n /\ x - 1 \in 0 .. n /\ x \in Nat
      BY <1>1
    <2>2. CASE x < k
      BY <2>1, <2>2
    <2>3. CASE x = k
      BY <1>3, <2>1, <2>3
    <2>4. CASE x > k
      <3>1. Extends(x - 1)
        BY <1>1, <1>5, <2>1, <2>4
      <3> DEFINE a == f[x - 1]
                 b == seqs[x]
      <3>2. f[x] = a \o b /\ a \in Seq(T) /\ b \in Seq(T)
        BY <1>1, <1>2, <2>1 DEF Joins
      <3> HIDE DEF b
      <3>3. Len(f[x]) = Len(a) + Len(b) /\ Len(b) \in Nat /\ \A i \in 1 .. Len(a) : f[x][i] = a[i]
        BY <3>2, ConcatProperties
      <3>4. Extends(x)
        BY <1>2, <2>1, <3>1, <3>3, SMTT(30)
      <3> QED
        BY <2>1, <3>4
    <2> QED
      BY <1>1, <2>1, <2>2, <2>3, <2>4
  <1>6. \A x \in 0 .. n : x \in good
    <2> HIDE DEF good, n
    <2> QED
      BY <1>1, <1>4, <1>5, UpToN
  <1>7. j \in 0 .. n /\ ~ (j < k)
    BY <1>1
  <1> QED
    BY <1>2, <1>6, <1>7

\* An element of one of the lists in the joined one.
Located(f, seqs, k) ==
    /\ Len(f[k]) = Len(f[k - 1]) + Len(seqs[k])
    /\ Len(f[k - 1]) \in Nat /\ Len(seqs[k]) \in Nat
    /\ Len(f[k]) <= Len(f[Len(seqs)])
    /\ \A i \in 1 .. Len(seqs[k]) : f[Len(seqs)][Len(f[k - 1]) + i] = seqs[k][i]

\* Where the elements of list k are in the joined list.
LEMMA ElementAt ==
    ASSUME NEW T, NEW seqs \in Seq(Seq(T)), NEW f, Joins(f, seqs, T),
           NEW k \in 1 .. Len(seqs)
    PROVE  Located(f, seqs, k)
  <1> DEFINE n == Len(seqs)
             a == f[k - 1]
             b == seqs[k]
  <1>1. n \in Nat /\ k \in 0 .. n /\ k - 1 \in 0 .. n /\ n \in k .. n /\ b \in Seq(T) /\ Len(b) \in Nat
    OBVIOUS
  <1>2. a \in Seq(T) /\ Len(a) \in Nat /\ f[k] = a \o b
    <2>1. f \in [0 .. n -> Seq(T)] /\ f[k] = a \o b
      BY DEF Joins
    <2>2. a \in Seq(T)
      BY <1>1, <2>1
    <2> HIDE DEF a, b
    <2> QED
      BY <2>1, <2>2
  <1>3. /\ Len(f[k]) = Len(a) + Len(b)
        /\ \A i \in 1 .. Len(b) : f[k][Len(a) + i] = b[i]
    <2> HIDE DEF a, b
    <2>1. /\ Len(a \o b) = Len(a) + Len(b)
          /\ \A i \in 1 .. Len(a) + Len(b) :
               (a \o b)[i] = IF i <= Len(a) THEN a[i] ELSE b[i - Len(a)]
      BY <1>1, <1>2, ConcatProperties
    <2>2. ASSUME NEW i \in 1 .. Len(b) PROVE (a \o b)[Len(a) + i] = b[i]
      <3>1. Len(a) + i \in 1 .. Len(a) + Len(b) /\ ~ (Len(a) + i <= Len(a)) /\ Len(a) + i - Len(a) = i
        BY <1>1, <1>2
      <3> QED
        BY <2>1, <3>1
    <2> QED
      BY <1>2, <2>1, <2>2
  <1>4. Len(f[k]) <= Len(f[n]) /\ \A i \in 1 .. Len(f[k]) : f[n][i] = f[k][i]
    <2> HIDE DEF n
    <2> QED
      BY <1>1, JoinedAt DEF n
  <1> HIDE DEF a, b, n
  <1>5. \A i \in 1 .. Len(b) : Len(a) + i \in 1 .. Len(f[k])
    BY <1>1, <1>2, <1>3
  <1> QED
    BY <1>1, <1>2, <1>3, <1>4, <1>5 DEF a, b, n, Located
-----------------------------------------------------------------------------
(***************************************************************************)
(* Lists in ascending order.                                               *)
(***************************************************************************)
\* Ascending, without repetition.
Rising(s) == \A i, j \in DOMAIN s : i < j => s[i] < s[j]

\* The first numbers of a rising list are as large as their places.
LEMMA RisingGrows ==
    ASSUME NEW s \in Seq(Nat), Rising(s)
    PROVE  \A k \in 1 .. Len(s) : s[k] >= s[1] + k - 1
  <1> DEFINE n == Len(s)
             good == {k \in 0 .. n : k = 0 \/ s[k] >= s[1] + k - 1}
  <1>1. n \in Nat /\ DOMAIN s = 1 .. n /\ \A k \in 1 .. n : s[k] \in Nat
    OBVIOUS
  <1> HIDE DEF n
  <1>2. 0 \in good
    BY <1>1
  <1>3. ASSUME NEW k \in 1 .. n, k - 1 \in good PROVE k \in good
    <2>1. k \in Nat /\ k \in 0 .. n /\ s[k] \in Nat
      BY <1>1
    <2>2. CASE k = 1
      BY <2>1, <2>2
    <2>3. CASE k # 1
      <3>1. k - 1 \in 1 .. n /\ k - 1 < k /\ 1 \in 1 .. n
        BY <1>1, <2>1, <2>3
      <3>2. s[k - 1] < s[k] /\ s[k - 1] \in Nat /\ s[1] \in Nat
        BY <1>1, <3>1 DEF Rising
      <3>3. s[k - 1] >= s[1] + (k - 1) - 1
        BY <1>3, <2>1, <2>3
      <3>4. s[k] >= s[1] + k - 1
        BY <2>1, <3>2, <3>3, SMTT(30)
      <3> QED
        BY <2>1, <3>4
    <2> QED
      BY <2>2, <2>3
  <1>4. \A k \in 0 .. n : k \in good
    <2> HIDE DEF good
    <2> QED
      BY <1>1, <1>2, <1>3, UpToN
  <1>5. \A k \in 1 .. n : k \in 0 .. n /\ k # 0
    BY <1>1
  <1> QED
    BY <1>4, <1>5 DEF n

\* A set of numbers has one list in ascending order.
LEMMA RisingUnique ==
    ASSUME NEW a \in Seq(Nat), NEW b \in Seq(Nat), Rising(a), Rising(b), Range(a) = Range(b)
    PROVE  a = b
  <1> DEFINE m == Len(a)
             n == Len(b)
  <1>1. /\ m \in Nat /\ n \in Nat /\ DOMAIN a = 1 .. m /\ DOMAIN b = 1 .. n
        /\ (\A i \in 1 .. m : a[i] \in Nat) /\ (\A i \in 1 .. n : b[i] \in Nat)
    OBVIOUS
  <1>2. /\ \A i \in 1 .. m : \E j \in 1 .. n : a[i] = b[j]
        /\ \A j \in 1 .. n : \E i \in 1 .. m : b[j] = a[i]
    BY <1>1 DEF Range
  <1>3. /\ \A i, j \in 1 .. m : i < j => a[i] < a[j]
        /\ \A i, j \in 1 .. n : i < j => b[i] < b[j]
    BY <1>1 DEF Rising
  <1> HIDE DEF m, n
  <1> DEFINE good == {k \in 0 .. m : k <= n /\ \A i \in 1 .. k : a[i] = b[i]}
  <1>4. 0 \in good
    BY <1>1
  <1>5. ASSUME NEW k \in 1 .. m, k - 1 \in good PROVE k \in good
    <2>1. k \in Nat /\ k \in 0 .. m /\ k - 1 <= n /\ \A i \in 1 .. k - 1 : a[i] = b[i]
      BY <1>1, <1>5
    <2>2. \A i \in 1 .. k - 1 : i \in 1 .. m /\ i < k /\ i \in Nat /\ a[i] < a[k]
      BY <1>1, <1>3, <2>1
    <2>3. PICK j \in 1 .. n : a[k] = b[j]
      BY <1>2
    <2>4. a[k] \in Nat /\ b[j] \in Nat /\ j \in Nat
      BY <1>1
    <2>5. j >= k
      <3>1. SUFFICES ASSUME j < k PROVE FALSE
        BY <2>1, <2>4
      <3>2. j \in 1 .. k - 1
        BY <2>1, <2>4, <3>1
      <3>3. a[j] = b[j] /\ a[j] < a[k]
        BY <2>1, <2>2, <3>2
      <3> QED
        BY <2>3, <2>4, <3>3
    <2>6. k <= n /\ k \in 1 .. n
      BY <1>1, <2>1, <2>4, <2>5
    <2>7. PICK i \in 1 .. m : b[k] = a[i]
      BY <1>2, <2>6
    <2>8. i \in Nat /\ a[i] \in Nat /\ b[k] \in Nat
      BY <1>1, <2>6
    <2>9. i >= k
      <3>1. SUFFICES ASSUME i < k PROVE FALSE
        BY <2>1, <2>8
      <3>2. i \in 1 .. k - 1 /\ i \in 1 .. n
        BY <1>1, <2>1, <2>6, <2>8, <3>1
      <3>3. a[i] = b[i] /\ b[i] < b[k]
        BY <1>3, <2>1, <2>6, <3>1, <3>2
      <3> QED
        BY <2>7, <2>8, <3>3
    <2>10. j = k
      <3>1. SUFFICES ASSUME j > k PROVE FALSE
        BY <2>1, <2>4, <2>5
      <3>2. b[k] < b[j]
        BY <1>3, <2>6, <3>1
      <3>3. i = k \/ a[k] < a[i]
        BY <1>3, <2>1, <2>8, <2>9
      <3> QED
        BY <2>3, <2>4, <2>7, <2>8, <3>2, <3>3
    <2>11. a[k] = b[k]
      BY <2>3, <2>10
    <2>12. \A x \in 1 .. k : x \in 1 .. k - 1 \/ x = k
      BY <2>1
    <2> QED
      BY <2>1, <2>6, <2>11, <2>12
  <1>6. \A k \in 0 .. m : k \in good
    <2> HIDE DEF good
    <2> QED
      BY <1>1, <1>4, <1>5, UpToN
  <1>7. m \in 0 .. m
    BY <1>1
  <1>8. m <= n /\ \A i \in 1 .. m : a[i] = b[i]
    BY <1>6, <1>7
  <1>9. m = n
    <2>1. SUFFICES ASSUME m < n PROVE FALSE
      BY <1>1, <1>8
    <2>2. n \in 1 .. n /\ n \in Nat
      BY <1>1, <2>1
    <2>3. PICK i \in 1 .. m : b[n] = a[i]
      BY <1>2, <2>2
    <2>4. a[i] = b[i] /\ i < n /\ i \in 1 .. n
      BY <1>1, <1>8, <2>1
    <2>5. b[i] < b[n] /\ b[n] \in Nat
      BY <1>1, <1>3, <2>2, <2>4
    <2> QED
      BY <2>3, <2>4, <2>5
  <1> QED
    BY <1>8, <1>9, SeqEqual DEF m, n

\* Selecting keeps the order.
LEMMA SelectedRising ==
    ASSUME NEW list \in Seq(Nat), Rising(list), NEW S
    PROVE  Rising(Selected(list, S)) /\ Selected(list, S) \in Seq(Nat)
  <1> DEFINE n == Len(list)
             Below(s, k) == \A i \in DOMAIN s : \E x \in 1 .. k : s[i] = list[x]
  <1>1. PICK kept : Keeps(kept, Nat, list, S)
    BY SelectedSteps
  <1> DEFINE good == {k \in 0 .. n : Rising(kept[k]) /\ Below(kept[k], k)}
  <1>2. n \in Nat /\ 0 \in 0 .. n /\ n \in 0 .. n
        /\ (\A k \in 1 .. n : k \in 0 .. n /\ k - 1 \in 0 .. n /\ list[k] \in Nat)
        /\ \A i, j \in 1 .. n : i < j => list[i] < list[j]
    BY DEF Rising
  <1>3. /\ \A k \in 0 .. n : kept[k] \in Seq(Nat)
        /\ kept[0] = <<>>
        /\ \A k \in 1 .. n : kept[k] = IF list[k] \in S THEN Append(kept[k - 1], list[k])
                                       ELSE kept[k - 1]
        /\ Selected(list, S) = kept[n]
    BY <1>1, <1>2 DEF Keeps
  <1> HIDE DEF n
  <1>4. 0 \in good
    BY <1>2, <1>3 DEF Rising
  <1>5. ASSUME NEW k \in 1 .. n, k - 1 \in good PROVE k \in good
    <2>1. k \in Nat /\ k \in 0 .. n /\ \A x \in 1 .. k - 1 : x \in 1 .. k /\ x \in 1 .. n /\ x < k
      BY <1>2
    <2> DEFINE s == kept[k - 1]
               y == list[k]
    <2>2. s \in Seq(Nat) /\ Rising(s) /\ Below(s, k - 1) /\ y \in Nat
      BY <1>2, <1>3, <1>5
    <2>3. Below(s, k)
      BY <2>1, <2>2
    <2>4. CASE y \notin S
      <3>1. kept[k] = s
        BY <1>3, <2>4
      <3> QED
        BY <2>1, <2>2, <2>3, <3>1
    <2>5. CASE y \in S
      <3>1. kept[k] = Append(s, y)
        BY <1>3, <2>5
      <3>2. \A i \in DOMAIN s : s[i] < y
        BY <1>2, <2>1, <2>2
      <3> DEFINE t == Append(s, y)
      <3> HIDE DEF s, y
      <3>3. /\ DOMAIN s = 1 .. Len(s) /\ Len(s) \in Nat /\ DOMAIN t = 1 .. Len(s) + 1
            /\ t[Len(s) + 1] = y /\ \A i \in 1 .. Len(s) : t[i] = s[i]
        BY <2>2, AppendProperties
      <3>4. \A i \in 1 .. Len(s) + 1 : i \in 1 .. Len(s) \/ i = Len(s) + 1
        BY <3>3
      <3> HIDE DEF t
      <3>5. Rising(t)
        <4>1. SUFFICES ASSUME NEW i \in 1 .. Len(s) + 1, NEW j \in 1 .. Len(s) + 1, i < j
                       PROVE  t[i] < t[j]
          BY <3>3 DEF Rising
        <4>2. i \in 1 .. Len(s)
          BY <3>3, <4>1
        <4>3. CASE j = Len(s) + 1
          BY <3>2, <3>3, <4>2, <4>3
        <4>4. CASE j \in 1 .. Len(s)
          BY <2>2, <3>3, <4>1, <4>2, <4>4 DEF Rising
        <4> QED
          BY <3>4, <4>3, <4>4
      <3>6. Below(t, k)
        <4>1. SUFFICES ASSUME NEW i \in 1 .. Len(s) + 1 PROVE \E x \in 1 .. k : t[i] = list[x]
          BY <3>3
        <4>2. CASE i \in 1 .. Len(s)
          BY <2>3, <3>3, <4>2
        <4>3. CASE i = Len(s) + 1
          <5>1. t[i] = list[k] /\ k \in 1 .. k
            BY <2>1, <3>3, <4>3 DEF y
          <5> QED
            BY <5>1
        <4> QED
          BY <3>4, <4>2, <4>3
      <3> QED
        BY <2>1, <3>1, <3>5, <3>6 DEF t
    <2> QED
      BY <2>4, <2>5
  <1>6. \A k \in 0 .. n : k \in good
    <2> HIDE DEF good
    <2> QED
      BY <1>2, <1>4, <1>5, UpToN
  <1> QED
    BY <1>2, <1>3, <1>6
-----------------------------------------------------------------------------
(***************************************************************************)
(* Rows at some positions.                                                 *)
(***************************************************************************)
\* A function on the first numbers is a list.
LEMMA ListOf ==
    ASSUME NEW n \in Nat, NEW T, NEW f, f = [i \in 1 .. n |-> f[i]], \A i \in 1 .. n : f[i] \in T
    PROVE  f \in Seq(T) /\ Len(f) = n /\ DOMAIN f = 1 .. n
  <1>1. f \in [1 .. n -> T]
    BY Zenon
  <1> QED
    BY <1>1

\* A piece of a list.
Piece(T, t, s, a, k) == t \in Seq(T) /\ Len(t) = k /\ \A i \in 1 .. k : t[i] = s[a + i]

\* What SubSeq cuts out.
LEMMA PieceAt ==
    ASSUME NEW T, NEW s \in Seq(T), NEW a \in Nat, NEW k \in Nat, a + k <= Len(s)
    PROVE  Piece(T, SubSeq(s, a + 1, a + k), s, a, k)
  <1>1. Len(s) \in Nat /\ a + 1 \in Int /\ a + k \in Int
    OBVIOUS
  <1>2. \A i \in a + 1 .. a + k : i \in 1 .. Len(s)
    BY <1>1
  <1>3. \A i \in a + 1 .. a + k : s[i] \in T
    BY <1>2
  <1> DEFINE t == SubSeq(s, a + 1, a + k)
  <1>4. /\ t \in Seq(T)
        /\ Len(t) = IF a + 1 <= a + k THEN (a + k) - (a + 1) + 1 ELSE 0
        /\ \A i \in 1 .. (a + k) - (a + 1) + 1 : t[i] = s[(a + 1) + i - 1]
    BY <1>1, <1>3, SubSeqProperties
  <1> HIDE DEF t
  <1>5. Len(t) = k /\ (a + k) - (a + 1) + 1 = k
    BY <1>4
  <1>6. \A i \in 1 .. k : (a + 1) + i - 1 = a + i
    OBVIOUS
  <1> QED
    BY <1>4, <1>5, <1>6 DEF t, Piece

\* Picked takes rising positions.
LEMMA PickedAt ==
    ASSUME NEW T, NEW rows \in Seq(T), NEW S
    PROVE  \E at \in Seq(Nat) :
             /\ Rising(at) /\ Range(at) = (1 .. Len(rows)) \cap S
             /\ Picked(rows, S) = [k \in 1 .. Len(at) |-> rows[at[k]]]
             /\ Picked(rows, S) \in Seq(T) /\ Len(Picked(rows, S)) = Len(at)
             /\ Len(at) <= Len(rows)
  <1> DEFINE n == Len(rows)
             ids == [i \in 1 .. n |-> i]
             at == Selected(ids, S)
  <1>1. n \in Nat /\ DOMAIN rows = 1 .. n /\ (\A i \in 1 .. n : i \in Nat /\ rows[i] \in T)
    OBVIOUS
  <1>2. ids \in Seq(Nat) /\ Rising(ids) /\ Range(ids) = 1 .. n
    BY <1>1 DEF Rising, Range
  <1>3. Picked(rows, S) = [k \in DOMAIN at |-> rows[at[k]]]
    BY <1>1 DEF Picked
  <1> HIDE DEF n, ids
  <1>4. at \in Seq(Nat) /\ Rising(at) /\ Range(at) = (1 .. n) \cap S
    BY <1>2, SelectedRange, SelectedRising, ZenonT(40)
  <1> HIDE DEF at
  <1>5. DOMAIN at = 1 .. Len(at) /\ Len(at) \in Nat /\ \A k \in 1 .. Len(at) : at[k] \in 1 .. n
    <2>1. DOMAIN at = 1 .. Len(at) /\ Len(at) \in Nat
      BY <1>4
    <2> QED
      BY <1>4, <2>1 DEF Range
  <1>6. Len(at) <= n
    <2>1. CASE Len(at) = 0
      BY <1>1, <2>1
    <2>2. CASE Len(at) # 0
      <3>1. Len(at) \in 1 .. Len(at) /\ 1 \in 1 .. Len(at)
        BY <1>5, <2>2
      <3>2. at[Len(at)] >= at[1] + Len(at) - 1
        BY <1>4, <3>1, RisingGrows
      <3>3. at[1] \in 1 .. n /\ at[Len(at)] \in 1 .. n
        BY <1>5, <3>1
      <3> QED
        BY <1>1, <1>5, <3>2, <3>3
    <2> QED
      BY <2>1, <2>2
  <1> DEFINE p == [k \in 1 .. Len(at) |-> rows[at[k]]]
  <1>7. p \in Seq(T) /\ Len(p) = Len(at)
    <2>1. p = [k \in 1 .. Len(at) |-> p[k]] /\ \A k \in 1 .. Len(at) : p[k] \in T
      BY <1>1, <1>5
    <2> HIDE DEF p
    <2> QED
      BY <1>5, <2>1, ListOf
  <1> QED
    BY <1>3, <1>4, <1>5, <1>6, <1>7 DEF n

\* Every row is picked.
LEMMA PickedAll ==
    ASSUME NEW T, NEW rows \in Seq(T), NEW S, 1 .. Len(rows) \subseteq S
    PROVE  Picked(rows, S) = rows
  <1> DEFINE n == Len(rows)
             ids == [i \in 1 .. n |-> i]
  <1>1. n \in Nat /\ rows = [i \in 1 .. n |-> rows[i]] /\ \A i \in 1 .. n : i \in Nat
    OBVIOUS
  <1>2. ids \in Seq(Nat) /\ Rising(ids) /\ Range(ids) = 1 .. n /\ Len(ids) = n
    BY <1>1 DEF Rising, Range
  <1>3. PICK at \in Seq(Nat) :
             /\ Rising(at) /\ Range(at) = (1 .. Len(rows)) \cap S
             /\ Picked(rows, S) = [k \in 1 .. Len(at) |-> rows[at[k]]]
             /\ Picked(rows, S) \in Seq(T) /\ Len(Picked(rows, S)) = Len(at)
             /\ Len(at) <= Len(rows)
    BY PickedAt
  <1>4. \A i \in 1 .. n : ids[i] = i
    OBVIOUS
  <1> HIDE DEF ids
  <1>5. at = ids
    BY <1>2, <1>3, RisingUnique
  <1> QED
    BY <1>1, <1>2, <1>3, <1>4, <1>5

-----------------------------------------------------------------------------
(***************************************************************************)
(* Slices.                                                                 *)
(***************************************************************************)
\* After some chunks: what is taken, and what is left to skip and to take.
TakenAt(seen, offset, limit) ==
    IF seen <= offset THEN 0 ELSE IF seen - offset >= limit THEN limit ELSE seen - offset

\* How far slice_global is once it has seen some rows: out is what it has taken.
SliceAt(skip, left, out, rows, seen, offset, limit) ==
    LET m == TakenAt(seen, offset, limit)
    IN /\ Len(out) = m /\ left = limit - m
       /\ \A i \in 1 .. m : out[i] = rows[offset + i]
       /\ left # 0 => skip = IF seen <= offset THEN offset - seen ELSE 0

\* A chunk of k rows after old ones gives take more.
TakenMore(old, k, offset, limit, skip, left, take) ==
    /\ TakenAt(old, offset, limit) \in Nat
    /\ TakenAt(old + k, offset, limit) = TakenAt(old, offset, limit) + take
    /\ left - take = limit - TakenAt(old + k, offset, limit)
    /\ left - take \in Nat
    /\ offset + TakenAt(old, offset, limit) = old + skip
    /\ old + k > offset

\* The rows taken from a chunk that is not skipped.
LEMMA TakenGrows ==
    ASSUME NEW old \in Nat, NEW k \in Nat, NEW offset \in Nat, NEW limit \in Nat,
           NEW skip \in Nat, NEW left \in Nat, NEW take \in Nat, left # 0, skip < k,
           take = IF left <= k - skip THEN left ELSE k - skip,
           left = limit - TakenAt(old, offset, limit),
           skip = IF old <= offset THEN offset - old ELSE 0
    PROVE  TakenMore(old, k, offset, limit, skip, left, take)
  <1>1. CASE old <= offset
    BY <1>1 DEF TakenAt, TakenMore
  <1>2. CASE old > offset
    BY <1>2 DEF TakenAt, TakenMore
  <1> QED
    BY <1>1, <1>2

\* A full page stays as it is.
LEMMA TakenStays ==
    ASSUME NEW old \in Nat, NEW k \in Nat, NEW offset \in Nat, NEW limit \in Nat,
           0 = limit - TakenAt(old, offset, limit)
    PROVE  TakenAt(old + k, offset, limit) = TakenAt(old, offset, limit)
  <1>1. CASE old <= offset
    BY <1>1 DEF TakenAt
  <1>2. CASE old > offset
    BY <1>2 DEF TakenAt
  <1> QED
    BY <1>1, <1>2

\* slice_global with nothing left to take.
LEMMA SliceKeeps ==
    ASSUME NEW rows, NEW out, NEW skip \in Nat, NEW old \in Nat, NEW k \in Nat,
           NEW offset \in Nat, NEW limit \in Nat,
           SliceAt(skip, 0, out, rows, old, offset, limit)
    PROVE  SliceAt(skip, 0, out, rows, old + k, offset, limit)
  <1>1. 0 = limit - TakenAt(old, offset, limit)
    BY DEF SliceAt
  <1>2. TakenAt(old + k, offset, limit) = TakenAt(old, offset, limit)
    BY <1>1, TakenStays
  <1> QED
    BY <1>2 DEF SliceAt

\* slice_global skips a whole chunk.
LEMMA SliceSkips ==
    ASSUME NEW rows, NEW out, NEW skip \in Nat, NEW left \in Nat, NEW old \in Nat,
           NEW k \in Nat, NEW offset \in Nat, NEW limit \in Nat, left # 0, skip >= k,
           SliceAt(skip, left, out, rows, old, offset, limit)
    PROVE  SliceAt(skip - k, left, out, rows, old + k, offset, limit)
  <1>1. skip = IF old <= offset THEN offset - old ELSE 0
    BY DEF SliceAt
  <1>2. CASE k = 0
    <2>1. old + k = old /\ skip - k = skip
      BY <1>2
    <2> QED
      BY <2>1
  <1>3. CASE k # 0
    <2>1. old <= offset /\ old + k <= offset /\ skip - k = offset - (old + k)
      BY <1>1, <1>3
    <2>2. TakenAt(old, offset, limit) = 0 /\ TakenAt(old + k, offset, limit) = 0
      BY <2>1 DEF TakenAt
    <2> QED
      BY <2>1, <2>2 DEF SliceAt
  <1> QED
    BY <1>2, <1>3

\* The rows from old on are those of c.
Within(rows, old, c) == \A i \in 1 .. Len(c) : rows[old + i] = c[i]

\* What taking s from a chunk makes of the slice.
SliceMore(T, rows, out, s, left, old, k, offset, limit, skip, take) ==
    /\ left - take \in Nat
    /\ out \o s \in Seq(T)
    /\ SliceAt(skip, left, out, rows, old, offset, limit) =>
         SliceAt(0, left - take, out \o s, rows, old + k, offset, limit)

\* slice_global takes rows of a chunk.
LEMMA SliceTakes ==
    ASSUME NEW T, NEW rows, NEW out \in Seq(T), NEW c \in Seq(T),
           NEW skip \in Nat, NEW left \in Nat, NEW old \in Nat,
           NEW k \in Nat, NEW offset \in Nat, NEW limit \in Nat, left # 0, skip < k, k = Len(c),
           Within(rows, old, c),
           NEW take \in Nat, take = IF left <= k - skip THEN left ELSE k - skip
    PROVE  SliceMore(T, rows, out, SubSeq(c, skip + 1, skip + take), left, old, k,
                     offset, limit, skip, take)
  <1> DEFINE s == SubSeq(c, skip + 1, skip + take)
             g == out \o s
             m == TakenAt(old, offset, limit)
             m2 == TakenAt(old + k, offset, limit)
  <1>2. take <= left /\ skip + take <= k /\ left - take \in Nat
    OBVIOUS
  <1>3. s \in Seq(T) /\ Len(s) = take /\ \A i \in 1 .. take : s[i] = c[skip + i]
    <2>1. Piece(T, s, c, skip, take)
      BY <1>2, PieceAt
    <2> HIDE DEF s
    <2> QED
      BY <2>1 DEF Piece
  <1> HIDE DEF s
  <1>4. /\ g \in Seq(T) /\ Len(g) = Len(out) + take /\ Len(out) \in Nat
        /\ \A i \in 1 .. Len(out) + take :
               g[i] = IF i <= Len(out) THEN out[i] ELSE s[i - Len(out)]
    <2>1. /\ g \in Seq(T) /\ Len(g) = Len(out) + Len(s) /\ Len(out) \in Nat
          /\ \A i \in 1 .. Len(out) + Len(s) :
               g[i] = IF i <= Len(out) THEN out[i] ELSE s[i - Len(out)]
      <3>1. s \in Seq(T) /\ out \in Seq(T)
        BY <1>3
      <3> QED
        BY <3>1, ConcatProperties
    <2> HIDE DEF g
    <2> QED
      BY <1>3, <2>1
  <1> HIDE DEF g
  <1>5. ASSUME SliceAt(skip, left, out, rows, old, offset, limit)
        PROVE  SliceAt(0, left - take, g, rows, old + k, offset, limit)
    <2>1. /\ Len(out) = m /\ left = limit - m
          /\ \A i \in 1 .. m : out[i] = rows[offset + i]
          /\ skip = IF old <= offset THEN offset - old ELSE 0
      BY <1>5 DEF SliceAt
    <2>2. /\ m \in Nat /\ m2 = m + take /\ left - take = limit - m2
          /\ offset + m = old + skip /\ old + k > offset
      <3>1. TakenMore(old, k, offset, limit, skip, left, take)
        BY <2>1, TakenGrows
      <3> QED
        BY <3>1 DEF TakenMore
    <2> HIDE DEF m, m2
    <2>3. ASSUME NEW i \in 1 .. m2 PROVE g[i] = rows[offset + i]
      <3>1. i \in 1 .. Len(out) + take /\ i \in Nat
        BY <1>2, <2>1, <2>2, SMTT(30)
      <3>2. CASE i <= m
        <4>1. i \in 1 .. m /\ i <= Len(out)
          BY <2>1, <2>2, <3>1, <3>2
        <4> QED
          BY <1>4, <2>1, <3>1, <4>1
      <3>3. CASE i > m
        <4> DEFINE j == i - m
        <4>1. /\ j \in 1 .. take /\ skip + j \in 1 .. k /\ i - Len(out) = j
              /\ offset + i = old + (skip + j) /\ ~ (i <= Len(out))
          BY <1>2, <2>1, <2>2, <3>1, <3>3, SMTT(30)
        <4> HIDE DEF j
        <4>2. g[i] = c[skip + j]
          BY <1>3, <1>4, <3>1, <4>1
        <4>3. rows[old + (skip + j)] = c[skip + j]
          BY <4>1 DEF Within
        <4> QED
          BY <4>1, <4>2, <4>3
      <3> QED
        BY <2>2, <3>1, <3>2, <3>3
    <2>4. Len(g) = m2
      BY <1>4, <2>1, <2>2
    <2>5. ~ (old + k <= offset)
      BY <2>2
    <2> QED
      BY <2>2, <2>3, <2>4, <2>5 DEF SliceAt, m2
  <1> QED
    BY <1>2, <1>4, <1>5 DEF g, s, SliceMore

\* One chunk of slice_global.
Sliced(acc, c) ==
    LET k == Len(c)
        take == Min({acc.left, k - acc.skip})
    IN IF acc.left = 0 THEN acc
       ELSE IF acc.skip >= k
       THEN [skip |-> acc.skip - k, left |-> acc.left, out |-> acc.out]
       ELSE [skip |-> 0, left |-> acc.left - take,
             out |-> acc.out \o SubSeq(c, acc.skip + 1, acc.skip + take)]

\* One chunk of slice_global.
LEMMA SliceStep ==
    ASSUME NEW T, NEW rows, NEW c \in Seq(T), NEW old \in Nat,
           NEW offset \in Nat, NEW limit \in Nat,
           Within(rows, old, c),
           NEW acc \in [skip : Nat, left : Nat, out : Seq(T)]
    PROVE  /\ Sliced(acc, c) \in [skip : Nat, left : Nat, out : Seq(T)]
           /\ SliceAt(acc.skip, acc.left, acc.out, rows, old, offset, limit) =>
                SliceAt(Sliced(acc, c).skip, Sliced(acc, c).left, Sliced(acc, c).out,
                        rows, old + Len(c), offset, limit)
  <1> DEFINE State == [skip : Nat, left : Nat, out : Seq(T)]
             skip == acc.skip
             left == acc.left
             out == acc.out
             k == Len(c)
             take == Min({left, k - skip})
             e == Sliced(acc, c)
             s == SubSeq(c, skip + 1, skip + take)
             Served(x, y, z, seen) == SliceAt(x, y, z, rows, seen, offset, limit)
  <1>1. skip \in Nat /\ left \in Nat /\ out \in Seq(T) /\ k \in Nat
    OBVIOUS
  <1>2. CASE left = 0
    <2>1. e = acc
      BY <1>2 DEF Sliced
    <2> HIDE DEF e, skip, out, k
    <2>2. Served(skip, 0, out, old) => Served(skip, 0, out, old + k)
      BY <1>1, SliceKeeps
    <2>3. Served(skip, left, out, old) => Served(skip, left, out, old + k)
      <3> HIDE DEF left, Served
      <3> QED
        BY <1>2, <2>2
    <2> QED
      BY <2>1, <2>3 DEF e, skip, out, k
  <1>3. CASE left # 0 /\ skip >= k
    <2> DEFINE g == [skip |-> skip - k, left |-> left, out |-> out]
    <2>1. e = g
      BY <1>3 DEF Sliced
    <2>2. skip - k \in Nat
      BY <1>1, <1>3
    <2>3. g \in State /\ g.skip = skip - k /\ g.left = left /\ g.out = out
      BY <1>1, <2>2
    <2> HIDE DEF e, g, skip, left, out, k
    <2>4. Served(skip, left, out, old) => Served(skip - k, left, out, old + k)
      BY <1>1, <1>3, SliceSkips
    <2>5. e \in State /\ (Served(skip, left, out, old) => Served(e.skip, e.left, e.out, old + k))
      <3> HIDE DEF Served, State
      <3> QED
        BY <2>1, <2>3, <2>4
    <2> QED
      BY <2>5 DEF e, skip, left, out, k
  <1>4. CASE left # 0 /\ ~ (skip >= k)
    <2> DEFINE g == [skip |-> 0, left |-> left - take, out |-> out \o s]
    <2>1. e = g
      BY <1>4 DEF Sliced
    <2>2. k = Len(c) /\ take = Min({left, k - skip})
      OBVIOUS
    <2> HIDE DEF e, skip, left, out, k, take
    <2>3. skip < k /\ k - skip \in Nat
      BY <1>1, <1>4
    <2>a. take = IF left <= k - skip THEN left ELSE k - skip
      BY <1>1, <2>2, <2>3, MinOf
    <2>b. take \in Nat
      BY <1>1, <2>3, <2>a
    <2>4. /\ left - take \in Nat /\ out \o s \in Seq(T)
          /\ Served(skip, left, out, old) => Served(0, left - take, out \o s, old + k)
      <3>1. SliceMore(T, rows, out, s, left, old, k, offset, limit, skip, take)
        BY <1>1, <1>4, <2>2, <2>3, <2>a, <2>b, SliceTakes
      <3> HIDE DEF s
      <3> QED
        BY <3>1 DEF SliceMore
    <2> HIDE DEF s
    <2>5. g \in State /\ g.skip = 0 /\ g.left = left - take /\ g.out = out \o s
      BY <2>b, <2>4
    <2> HIDE DEF g, Served, State
    <2>6. e \in State /\ (Served(skip, left, out, old) => Served(e.skip, e.left, e.out, old + k))
      BY <2>1, <2>4, <2>5
    <2> QED
      BY <2>6 DEF e, skip, left, out, k, Served, State
  <1> QED
    BY <1>2, <1>3, <1>4

\* slice_global cuts the rows as if they were one list.
LEMMA SliceServed ==
    ASSUME NEW T, NEW d, d.chunks \in Seq(Seq(T)), NEW offset \in Nat, NEW limit \in Nat,
           offset + limit <= Len(Rows(d))
    PROVE  slice_global(d, offset, limit) = SubSeq(Rows(d), offset + 1, offset + limit)
  <1> DEFINE chunks == d.chunks
             n == Len(chunks)
             rows == Rows(d)
             State == [skip : Nat, left : Nat, out : Seq(T)]
             start == [skip |-> offset, left |-> limit, out |-> <<>>]
             E(b, acc) == Sliced(acc, chunks[b])
             step == [x \in (1 .. n) \X State |-> E(x[1], x[2])]
             Def(taken) == [b \in 0 .. n |->
                              IF b = 0 THEN start ELSE E(b, taken[b - 1])]
             F == CHOOSE taken : taken = Def(taken)
  <1>1. n \in Nat /\ \A k \in 1 .. n : chunks[k] \in Seq(T) /\ Len(chunks[k]) \in Nat
    OBVIOUS
  <1>2. slice_global(d, offset, limit) = F[n].out
    BY DEF slice_global, Sliced
  <1>3. PICK f : Joins(f, chunks, T) /\ rows = f[n]
    BY FlattenSteps DEF Rows
  <1>4. rows \in Seq(T) /\ Len(rows) \in Nat /\ f[0] = <<>>
    <2>1. n \in 0 .. n
      BY <1>1
    <2> QED
      BY <1>3, <2>1, SMTT(30) DEF Joins
  <1>5. ASSUME NEW b \in 1 .. n
        PROVE  /\ Len(f[b]) = Len(f[b - 1]) + Len(chunks[b])
               /\ Len(f[b - 1]) \in Nat
               /\ Len(f[b]) <= Len(rows)
               /\ \A i \in 1 .. Len(chunks[b]) : rows[Len(f[b - 1]) + i] = chunks[b][i]
    <2>1. chunks \in Seq(Seq(T)) /\ b \in 1 .. Len(chunks)
      OBVIOUS
    <2>2. Located(f, chunks, b)
      <3> HIDE DEF chunks, rows, start, State, step, Def, F, E
      <3> QED
        BY <1>3, <2>1, ElementAt
    <2> QED
      BY <1>3, <2>2 DEF Located
  <1> HIDE DEF chunks, n, rows
  <1>6. start \in State /\ start.skip = offset /\ start.left = limit /\ start.out = <<>>
    OBVIOUS
  <1> DEFINE Served(acc, seen) == SliceAt(acc.skip, acc.left, acc.out, rows, seen, offset, limit)
  <1>7. ASSUME NEW b \in 1 .. n, NEW acc \in State
        PROVE  /\ E(b, acc) \in State
               /\ Served(acc, Len(f[b - 1])) => Served(E(b, acc), Len(f[b]))
    <2> DEFINE c == chunks[b]
               old == Len(f[b - 1])
    <2>1. c \in Seq(T) /\ old \in Nat /\ Within(rows, old, c)
      BY <1>1, <1>5 DEF Within
    <2>2. Len(f[b]) = old + Len(c)
      BY <1>5
    <2> HIDE DEF c, old
    <2>3. /\ Sliced(acc, c) \in State
          /\ Served(acc, old) => Served(Sliced(acc, c), old + Len(c))
      BY <2>1, SliceStep
    <2> QED
      BY <2>2, <2>3 DEF c, old
  <1>8. \A h : Def(h) = [b \in 0 .. n |-> IF b = 0 THEN start ELSE E(b, h[b - 1])]
    OBVIOUS
  <1> HIDE DEF State, E, start, Def, Served
  <1>9. step \in [(1 .. n) \X State -> State]
    BY <1>7
  <1>10. \A b \in 1 .. n, a \in State : step[<<b, a>>] = E(b, a)
    OBVIOUS
  <1> HIDE DEF step
  <1>11. PICK h : Unrolls(h, n, State, start, step)
    BY <1>1, <1>6, <1>9, RecursionExists
  <1>12. \A b \in 1 .. n : b - 1 \in 0 .. n /\ b \in 0 .. n
    BY <1>1
  <1>13. h = Def(h)
    <2>1. h = [b \in 0 .. n |-> h[b]] /\ h[0] = start
      BY <1>11 DEF Unrolls
    <2>2. \A b \in 1 .. n : h[b] = E(b, h[b - 1])
      BY <1>10, <1>11, <1>12 DEF Unrolls
    <2>3. \A b \in 0 .. n : b = 0 \/ b \in 1 .. n
      BY <1>1
    <2>4. \A b \in 0 .. n : h[b] = IF b = 0 THEN start ELSE E(b, h[b - 1])
      BY <2>1, <2>2, <2>3
    <2> QED
      BY <1>8, <2>1, <2>4
  <1>14. F = Def(F)
    BY <1>13
  <1> HIDE DEF F
  <1>15. F = [b \in 0 .. n |-> F[b]] /\ F[0] = start /\ \A b \in 1 .. n : F[b] = E(b, F[b - 1])
    <2> DEFINE g == [b \in 0 .. n |-> IF b = 0 THEN start ELSE E(b, F[b - 1])]
    <2>1. g = [b \in 0 .. n |-> g[b]]
      OBVIOUS
    <2>2. g[0] = start /\ \A b \in 1 .. n : g[b] = E(b, F[b - 1])
      BY <1>1
    <2>3. F = g
      BY <1>8, <1>14
    <2> HIDE DEF g
    <2> QED
      BY <2>1, <2>2, <2>3
  <1>16. F \in [0 .. n -> State]
    <2>1. \A b \in 1 .. n : F[b - 1] \in State => F[b] = step[<<b, F[b - 1]>>]
      BY <1>10, <1>15
    <2>2. Unrolls(F, n, State, start, step)
      BY <1>1, <1>6, <1>9, <1>15, <2>1, RecursionTyped
    <2> QED
      BY <2>2 DEF Unrolls
  <1> DEFINE good == {b \in 0 .. n : Served(F[b], Len(f[b]))}
  <1>17. 0 \in good
    <2>1. Len(f[0]) = 0 /\ Len(<<>>) = 0
      BY <1>4
    <2> QED
      BY <1>1, <1>6, <1>15, <2>1 DEF SliceAt, TakenAt, Served
  <1>18. ASSUME NEW b \in 1 .. n, b - 1 \in good PROVE b \in good
    <2>1. F[b - 1] \in State /\ Served(F[b - 1], Len(f[b - 1]))
      BY <1>12, <1>16, <1>18
    <2>2. Served(E(b, F[b - 1]), Len(f[b]))
      BY <1>7, <2>1
    <2> QED
      BY <1>12, <1>15, <2>2
  <1>19. n \in good
    <2>1. n \in 0 .. n
      BY <1>1
    <2> HIDE DEF good
    <2> QED
      BY <1>1, <1>17, <1>18, <2>1, UpToN
  <1> DEFINE out == F[n].out
             s == SubSeq(rows, offset + 1, offset + limit)
  <1>20. out \in Seq(T)
    <2>1. F[n] \in State
      BY <1>1, <1>16
    <2> QED
      BY <2>1 DEF State
  <1>21. Len(out) = limit /\ \A i \in 1 .. limit : out[i] = rows[offset + i]
    <2>1. Served(F[n], Len(rows))
      BY <1>3, <1>19
    <2>2. offset + limit <= Len(rows)
      BY DEF rows
    <2> DEFINE seen == Len(rows)
               m == TakenAt(seen, offset, limit)
    <2>3. m = limit
      BY <1>4, <2>2 DEF TakenAt
    <2>4. Len(out) = m /\ \A i \in 1 .. m : out[i] = rows[offset + i]
      BY <2>1 DEF SliceAt, Served
    <2> QED
      BY <2>3, <2>4
  <1>22. s \in Seq(T) /\ Len(s) = limit /\ \A i \in 1 .. limit : s[i] = rows[offset + i]
    <2>1. offset + limit <= Len(rows)
      BY DEF rows
    <2> QED
      BY <1>4, <2>1, PieceAt DEF Piece
  <1> HIDE DEF out, s
  <1>23. out = s
    BY <1>20, <1>21, <1>22, SeqEqual
  <1> QED
    BY <1>2, <1>23 DEF out, s, rows


\* Some of the first numbers have a greatest.
LEMMA GreatestOf ==
    ASSUME NEW n \in Nat, NEW S \in SUBSET (0 .. n), S # {}
    PROVE  Max(S) \in S /\ \A y \in S : Max(S) >= y
  <1> DEFINE rest == {n - x : x \in S}
  <1>1. rest \in SUBSET Nat /\ rest # {}
    <2>1. \A x \in S : x \in 0 .. n
      OBVIOUS
    <2>2. \A x \in 0 .. n : n - x \in Nat
      OBVIOUS
    <2> QED
      BY <2>1, <2>2
  <1>2. Min(rest) \in rest /\ \A y \in rest : Min(rest) <= y
    <2> HIDE DEF rest
    <2> QED
      BY <1>1, MinIsLeast
  <1>3. PICK x \in S : Min(rest) = n - x
    BY <1>2
  <1>4. ASSUME NEW y \in S PROVE x >= y
    <2>1. n - y \in rest /\ x \in 0 .. n /\ y \in 0 .. n
      OBVIOUS
    <2>2. n - x <= n - y
      BY <1>2, <1>3, <2>1
    <2> QED
      BY <2>1, <2>2
  <1> QED
    BY <1>3, <1>4 DEF Max

\* The last chunk that starts at or before a row holds it.
LEMMA ChunkHolds ==
    ASSUME NEW T, NEW chunks \in Seq(Seq(T)), NEW f, Joins(f, chunks, T),
           NEW id \in Nat, id < Len(f[Len(chunks)]),
           NEW b, b = Max({x \in 1 .. Len(chunks) : Len(f[x - 1]) <= id})
    PROVE  /\ b \in 1 .. Len(chunks)
           /\ chunks[b][id - Len(f[b - 1]) + 1] = f[Len(chunks)][id + 1]
  <1> DEFINE n == Len(chunks)
             S == {x \in 1 .. n : Len(f[x - 1]) <= id}
  <1>1. n \in Nat /\ f[0] = <<>> /\ Len(f[0]) = 0
    BY DEF Joins
  <1>2. n # 0
    BY <1>1
  <1>3. \A x \in 1 .. n : Located(f, chunks, x)
    BY ElementAt
  <1>4. 1 \in S /\ S \in SUBSET (0 .. n)
    <2>1. 1 \in 1 .. n /\ 1 - 1 = 0
      BY <1>1, <1>2
    <2>2. Len(f[1 - 1]) <= id
      BY <1>1, <2>1
    <2> QED
      BY <1>1, <2>1, <2>2
  <1>5. b \in S /\ \A y \in S : b >= y
    <2>1. b = Max(S)
      OBVIOUS
    <2> HIDE DEF S
    <2> QED
      BY <1>1, <1>4, <2>1, GreatestOf
  <1>6. b \in 1 .. n /\ b \in Nat /\ Len(f[b - 1]) <= id
    BY <1>5
  <1> DEFINE old == Len(f[b - 1])
             c == chunks[b]
  <1>7. /\ Len(f[b]) = old + Len(c) /\ old \in Nat /\ Len(c) \in Nat
        /\ \A i \in 1 .. Len(c) : f[n][old + i] = c[i]
    BY <1>3, <1>6 DEF Located
  <1>8. id < Len(f[b])
    <2>1. CASE b = n
      BY <2>1
    <2>2. CASE b # n
      <3>1. b + 1 \in 1 .. n /\ (b + 1) - 1 = b /\ ~ (b >= b + 1)
        BY <1>1, <1>6, <2>2
      <3>2. b + 1 \notin S
        BY <1>5, <3>1
      <3> DEFINE y == b + 1
      <3>3. y - 1 = b /\ ~ (Len(f[y - 1]) <= id)
        BY <3>1, <3>2
      <3> HIDE DEF y
      <3>4. ~ (Len(f[b]) <= id)
        BY <3>3, Zenon
      <3>5. Len(f[b]) \in Nat
        <4> HIDE DEF old, c
        <4> QED
          BY <1>7
      <3> QED
        BY <3>4, <3>5
    <2> QED
      BY <2>1, <2>2
  <1> HIDE DEF old, c, n
  <1>9. id - old + 1 \in 1 .. Len(c) /\ old + (id - old + 1) = id + 1
    BY <1>6, <1>7, <1>8 DEF old
  <1>10. f[n][id + 1] = c[id - old + 1]
    BY <1>7, <1>9
  <1> QED
    BY <1>6, <1>10 DEF old, c, n

\* The rows of a page.
PageIds(ids, offset, limit) ==
    LET start == Min({offset, Len(ids)})
    IN SubSeq(ids, start + 1, start + Min({limit, Len(ids) - start}))

\* Rows in chunks.
Chunked(d, T) == d.chunks \in Seq(Seq(T))
\* Row ids count from 0.
AreIds(ids, rows) == ids \in Seq(0 .. Len(rows) - 1)
\* The rows with these ids.
RowsAt(rows, ids) == [k \in 1 .. Len(ids) |-> rows[ids[k] + 1]]

\* take_page finds the rows of its page.
LEMMA PageTaken ==
    ASSUME NEW T, NEW d, Chunked(d, T), NEW ids, NEW offset, NEW limit,
           AreIds(PageIds(ids, offset, limit), Rows(d))
    PROVE  take_page(d, ids, offset, limit) = RowsAt(Rows(d), PageIds(ids, offset, limit))
  <1> DEFINE page == PageIds(ids, offset, limit)
             size == Len(page)
             chunks == d.chunks
             n == Len(chunks)
             rows == Rows(d)
             base(b) == Len(FlattenSeq(SubSeq(chunks, 1, b - 1)))
             ChunkOf(id) == Max({b \in DOMAIN chunks : base(b) <= id})
             bucket(b) == Selected([k \in DOMAIN page |-> k],
                                   {k \in DOMAIN page : ChunkOf(page[k]) = b})
             buckets == [b \in DOMAIN chunks |-> bucket(b)]
             dest == FlattenSeq(buckets)
             found(id) == chunks[ChunkOf(id)][id - base(ChunkOf(id)) + 1]
             stitched == [i \in DOMAIN dest |-> found(page[dest[i]])]
             inv(k) == CHOOSE i \in DOMAIN dest : dest[i] = k
  <1>1. take_page(d, ids, offset, limit) = [k \in DOMAIN page |-> stitched[inv(k)]]
    BY DEF take_page, PageIds
  <1>2. PICK f : Joins(f, chunks, T) /\ rows = f[n]
    BY FlattenSteps DEF Rows, Chunked
  <1>3. n \in Nat /\ DOMAIN chunks = 1 .. n /\ chunks \in Seq(Seq(T))
    BY DEF Chunked
  <1>4. size \in Nat /\ DOMAIN page = 1 .. size /\ \A k \in 1 .. size : page[k] \in 0 .. Len(rows) - 1
    BY DEF AreIds
  <1>a. Len(rows) \in Nat
    <2>1. n \in 0 .. n
      BY <1>3
    <2>2. rows \in Seq(T)
      BY <1>2, <2>1 DEF Joins
    <2> HIDE DEF rows
    <2> QED
      BY <2>2
  <1> HIDE DEF page, rows, chunks, size
  <1>5. \A b \in 1 .. n : base(b) = Len(f[b - 1])
    <2>1. \A b \in 1 .. n : b - 1 \in 0 .. n
      BY <1>3
    <2> QED
      BY <1>2, <1>3, <2>1, FlattenPrefix
  <1>6. ASSUME NEW id \in 0 .. Len(rows) - 1
        PROVE  ChunkOf(id) \in 1 .. n /\ found(id) = rows[id + 1]
    <2> DEFINE S == {b \in DOMAIN chunks : base(b) <= id}
               S2 == {b \in 1 .. n : Len(f[b - 1]) <= id}
    <2>1. S = S2
      BY <1>3, <1>5
    <2>2. id \in Nat /\ id < Len(f[n])
      BY <1>2, <1>a
    <2> DEFINE b == ChunkOf(id)
    <2>3. b = Max(S2)
      BY <2>1
    <2> HIDE DEF b
    <2>4. b \in 1 .. n /\ chunks[b][id - Len(f[b - 1]) + 1] = f[n][id + 1]
      BY <1>2, <1>3, <2>2, <2>3, ChunkHolds, ZenonT(40)
    <2>5. base(b) = Len(f[b - 1])
      BY <1>5, <2>4
    <2>6. chunks[b][id - base(b) + 1] = rows[id + 1]
      BY <1>2, <2>4, <2>5
    <2> QED
      BY <2>4, <2>6 DEF b
  <1> HIDE DEF base, ChunkOf
  <1>7. \A b \in 1 .. n : bucket(b) \in Seq(Nat) /\ Range(bucket(b)) = {k \in 1 .. size : ChunkOf(page[k]) = b}
    <2> DEFINE list == [k \in DOMAIN page |-> k]
    <2>1. list \in Seq(Nat) /\ Range(list) = 1 .. size
      <3>1. list = [k \in 1 .. size |-> list[k]] /\ \A k \in 1 .. size : list[k] = k /\ list[k] \in Nat
        BY <1>4
      <3> HIDE DEF list
      <3>2. list \in Seq(Nat) /\ DOMAIN list = 1 .. size
        BY <1>4, <3>1, ListOf
      <3> QED
        BY <3>1, <3>2 DEF Range
    <2> HIDE DEF list
    <2>2. ASSUME NEW b \in 1 .. n
          PROVE  bucket(b) \in Seq(Nat) /\ Range(bucket(b)) = {k \in 1 .. size : ChunkOf(page[k]) = b}
      <3> DEFINE S == {k \in DOMAIN page : ChunkOf(page[k]) = b}
      <3>1. bucket(b) = Selected(list, S)
        BY DEF list
      <3> HIDE DEF bucket
      <3>2. bucket(b) \in Seq(Nat) /\ Range(bucket(b)) = (1 .. size) \cap S
        <4> HIDE DEF S
        <4> QED
          <5>1. Selected(list, S) \in Seq(Nat) /\ Range(Selected(list, S)) = Range(list) \cap S
            BY <2>1, SelectedRange
          <5> QED
            BY <2>1, <3>1, <5>1
      <3> QED
        BY <1>4, <3>2
    <2> QED
      BY <2>2
  <1> HIDE DEF bucket
  <1>8. buckets \in Seq(Seq(Nat)) /\ Len(buckets) = n /\ \A b \in 1 .. n : buckets[b] = bucket(b)
    BY <1>3, <1>7
  <1> HIDE DEF buckets
  <1>9. PICK g : Joins(g, buckets, Nat) /\ dest = g[n]
    BY <1>8, FlattenSteps
  <1>10. dest \in Seq(Nat) /\ Len(dest) \in Nat /\ DOMAIN dest = 1 .. Len(dest)
    <2>1. n \in 0 .. n
      BY <1>3
    <2>2. dest \in Seq(Nat)
      BY <1>8, <1>9, <2>1 DEF Joins
    <2> HIDE DEF dest
    <2> QED
      BY <2>2
  <1> HIDE DEF dest
  <1>11. ASSUME NEW k \in 1 .. size PROVE \E i \in DOMAIN dest : dest[i] = k
    <2> DEFINE b == ChunkOf(page[k])
    <2>1. b \in 1 .. n
      BY <1>4, <1>6
    <2>2. k \in Range(bucket(b))
      BY <1>7, <2>1
    <2> HIDE DEF b
    <2>3. PICK i \in 1 .. Len(bucket(b)) : bucket(b)[i] = k
      BY <1>7, <2>1, <2>2 DEF Range
    <2>4. Located(g, buckets, b)
      BY <1>8, <1>9, <2>1, ElementAt
    <2> DEFINE old == Len(g[b - 1])
               c == bucket(b)
    <2>5. /\ Len(g[b]) = old + Len(c) /\ old \in Nat /\ Len(c) \in Nat /\ Len(g[b]) <= Len(dest)
          /\ \A x \in 1 .. Len(c) : dest[old + x] = c[x]
      BY <1>8, <1>9, <2>1, <2>4 DEF Located
    <2> HIDE DEF old
    <2>6. old + i \in 1 .. Len(dest)
      BY <1>10, <2>5
    <2>7. dest[old + i] = k
      BY <2>3, <2>5
    <2> QED
      BY <1>10, <2>6, <2>7
  <1>12. ASSUME NEW k \in 1 .. size PROVE stitched[inv(k)] = rows[page[k] + 1]
    <2>1. inv(k) \in DOMAIN dest /\ dest[inv(k)] = k
      BY <1>11
    <2> HIDE DEF inv, found
    <2>2. stitched[inv(k)] = found(page[k])
      BY <2>1
    <2> QED
      BY <1>4, <1>6, <2>2
  <1> HIDE DEF stitched, inv
  <1> QED
    BY <1>1, <1>4, <1>12 DEF page, size, rows, RowsAt


-----------------------------------------------------------------------------
(***************************************************************************)
(* Pages of a list.                                                        *)
(***************************************************************************)
\* A finite sequence.
IsList(s) == s \in Seq(Range(s))

\* A function on 1 .. n is a list.
LEMMA ListFrom ==
    ASSUME NEW n \in Nat, NEW s, s = [i \in 1 .. n |-> s[i]]
    PROVE  IsList(s) /\ Len(s) = n /\ DOMAIN s = 1 .. n
  <1>1. DOMAIN s = 1 .. n
    OBVIOUS
  <1>2. \A i \in 1 .. n : s[i] \in Range(s)
    BY <1>1 DEF Range
  <1> QED
    BY <1>1, <1>2, ListOf DEF IsList

\* Lists with the same elements are the same.
LEMMA ListEqual ==
    ASSUME NEW a, NEW b, IsList(a), IsList(b), Len(a) = Len(b),
           \A i \in 1 .. Len(a) : a[i] = b[i]
    PROVE  a = b
  <1>1. a = [i \in 1 .. Len(a) |-> a[i]] /\ b = [i \in 1 .. Len(b) |-> b[i]]
    BY DEF IsList
  <1> QED
    BY <1>1

\* Sequences are lists.
LEMMA SeqIsList ==
    ASSUME NEW T, NEW s \in Seq(T)
    PROVE  IsList(s)
  <1>1. Len(s) \in Nat /\ s = [i \in 1 .. Len(s) |-> s[i]]
    OBVIOUS
  <1> QED
    BY <1>1, ListFrom

\* How many elements of a list a page has.
Count(n, offset, limit) ==
    IF offset >= n THEN 0 ELSE IF limit <= n - offset THEN limit ELSE n - offset

\* x is the page of s that starts after offset rows and has at most limit.
PageIn(x, s, offset, limit) ==
    LET n == Count(Len(s), offset, limit)
    IN IsList(x) /\ Len(x) = n /\ \A i \in 1 .. n : x[i] = s[offset + i]

\* There is one such page.
LEMMA PageUnique ==
    ASSUME NEW x, NEW y, NEW s, NEW offset, NEW limit,
           PageIn(x, s, offset, limit), PageIn(y, s, offset, limit)
    PROVE  x = y
  <1> DEFINE n == Count(Len(s), offset, limit)
  <1>1. /\ IsList(x) /\ Len(x) = n /\ IsList(y) /\ Len(y) = n
        /\ \A i \in 1 .. n : x[i] = y[i]
    BY DEF PageIn
  <1> HIDE DEF n
  <1> QED
    BY <1>1, ListEqual

\* Cut and the two ways the resident path has of cutting make pages.
LEMMA CutIsPage ==
    ASSUME NEW s, IsList(s), NEW w, w.offset \in Nat, w.limit \in Nat
    PROVE  PageIn(Cut(s, w), s, w.offset, w.limit)
  <1> DEFINE a == w.offset
             l == w.limit
             n == Len(s)
             k == Count(n, a, l)
             top == Min({a + l, n})
             T == Range(s)
  <1>1. n \in Nat /\ s \in Seq(T) /\ a \in Nat /\ l \in Nat /\ a + l \in Nat
    BY DEF IsList
  <1>2. Cut(s, w) = SubSeq(s, a + 1, top)
    BY DEF Cut
  <1> HIDE DEF a, l, n, T, top
  <1>3. top = IF a + l <= n THEN a + l ELSE n
    BY <1>1, MinOf DEF top
  <1>4. CASE a >= n
    <2>1. k = 0 /\ top < a + 1 /\ top \in Int /\ a + 1 \in Int
      BY <1>1, <1>3, <1>4 DEF Count
    <2>2. SubSeq(s, a + 1, top) = <<>>
      BY <2>1, SubSeqEmpty
    <2>3. IsList(<<>>) /\ Len(<<>>) = 0
      BY DEF IsList
    <2>4. PageIn(<<>>, s, a, l)
      <3>1. Count(Len(s), a, l) = 0
        BY <2>1 DEF n
      <3> QED
        BY <2>3, <3>1 DEF PageIn
    <2> QED
      BY <1>2, <2>2, <2>4 DEF a, l
  <1>5. CASE ~ (a >= n)
    <2>1. k \in Nat /\ top = a + k /\ a + k <= n
      BY <1>1, <1>3, <1>5 DEF Count
    <2> HIDE DEF k
    <2>2. Piece(T, SubSeq(s, a + 1, a + k), s, a, k)
      BY <1>1, <2>1, PieceAt DEF n
    <2> DEFINE x == SubSeq(s, a + 1, a + k)
    <2>3. Cut(s, w) = x
      BY <1>2, <2>1
    <2> HIDE DEF x
    <2>4. x \in Seq(T) /\ Len(x) = k /\ \A i \in 1 .. k : x[i] = s[a + i]
      BY <2>2 DEF Piece, x
    <2>5. IsList(x)
      BY <2>4, SeqIsList
    <2> QED
      BY <2>3, <2>4, <2>5 DEF PageIn, a, l, n, k
  <1> QED
    BY <1>4, <1>5

\* take_page cuts a page out of the ids.
LEMMA IdsArePage ==
    ASSUME NEW s, IsList(s), NEW offset \in Nat, NEW limit \in Nat
    PROVE  /\ PageIn(PageIds(s, offset, limit), s, offset, limit)
           /\ LET start == Min({offset, Len(s)})
              IN start \in Nat /\ Min({limit, Len(s) - start}) \in Nat
                 /\ start + Min({limit, Len(s) - start}) <= Len(s)
  <1> DEFINE n == Len(s)
             start == Min({offset, n})
             m == Min({limit, n - start})
             k == Count(n, offset, limit)
             T == Range(s)
             x == SubSeq(s, start + 1, start + m)
  <1>1. n \in Nat /\ s \in Seq(T)
    BY DEF IsList
  <1>2. PageIds(s, offset, limit) = x
    BY DEF PageIds
  <1> HIDE DEF n, T, m
  <1>3. start = IF offset <= n THEN offset ELSE n
    BY <1>1, MinOf
  <1> HIDE DEF start
  <1>4. start \in Nat /\ n - start \in Nat
    BY <1>1, <1>3
  <1>5. m = IF limit <= n - start THEN limit ELSE n - start
    BY <1>4, MinOf DEF m
  <1>6. m \in Nat /\ start + m <= n /\ m = k /\ (m # 0 => start = offset)
    BY <1>1, <1>3, <1>4, <1>5 DEF Count
  <1>7. Piece(T, x, s, start, m)
    BY <1>1, <1>4, <1>6, PieceAt DEF n
  <1> HIDE DEF x, k
  <1>8. x \in Seq(T) /\ Len(x) = m /\ \A i \in 1 .. m : x[i] = s[start + i]
    BY <1>7 DEF Piece
  <1>9. \A i \in 1 .. m : x[i] = s[offset + i]
    <2>1. m = 0 \/ start = offset
      BY <1>6
    <2> QED
      BY <1>8, <2>1
  <1>10. IsList(x)
    BY <1>8, SeqIsList
  <1>11. PageIn(x, s, offset, limit)
    BY <1>6, <1>8, <1>9, <1>10 DEF PageIn, n, k
  <1> QED
    BY <1>2, <1>4, <1>6, <1>11 DEF start, m, n

\* A page of what is shown is what is shown of the page.
LEMMA ProjectedList ==
    ASSUME NEW s, IsList(s), NEW cols
    PROVE  /\ IsList(Projected(s, cols)) /\ Len(Projected(s, cols)) = Len(s)
           /\ \A i \in 1 .. Len(s) : Projected(s, cols)[i] = [c \in Range(cols) |-> s[i][c]]
  <1> DEFINE p == Projected(s, cols)
  <1>1. Len(s) \in Nat /\ DOMAIN s = 1 .. Len(s)
    BY DEF IsList
  <1>2. /\ p = [i \in 1 .. Len(s) |-> p[i]]
        /\ \A i \in 1 .. Len(s) : p[i] = [c \in Range(cols) |-> s[i][c]]
    BY <1>1 DEF Projected
  <1> HIDE DEF p
  <1>3. IsList(p) /\ Len(p) = Len(s)
    BY <1>1, <1>2, ListFrom
  <1> QED
    BY <1>2, <1>3 DEF p

\* Projecting a page and paging a projection are the same.
LEMMA ProjectedPage ==
    ASSUME NEW x, NEW s, IsList(s), NEW offset \in Nat, NEW limit \in Nat, NEW cols,
           PageIn(x, s, offset, limit)
    PROVE  PageIn(Projected(x, cols), Projected(s, cols), offset, limit)
  <1> DEFINE n == Len(s)
             k == Count(n, offset, limit)
             px == Projected(x, cols)
             ps == Projected(s, cols)
  <1>1. IsList(x) /\ Len(x) = k /\ \A i \in 1 .. k : x[i] = s[offset + i]
    BY DEF PageIn
  <1>2. n \in Nat
    BY DEF IsList
  <1>3. k \in Nat /\ \A i \in 1 .. k : offset + i \in 1 .. n
    <2> HIDE DEF n
    <2> QED
      BY <1>2 DEF Count
  <1> HIDE DEF k, n
  <1>4. /\ IsList(px) /\ Len(px) = k
        /\ \A i \in 1 .. k : px[i] = [c \in Range(cols) |-> x[i][c]]
    BY <1>1, ProjectedList
  <1>5. /\ Len(ps) = n
        /\ \A i \in 1 .. n : ps[i] = [c \in Range(cols) |-> s[i][c]]
    <2>1. /\ Len(Projected(s, cols)) = Len(s)
          /\ \A i \in 1 .. Len(s) : Projected(s, cols)[i] = [c \in Range(cols) |-> s[i][c]]
      BY ProjectedList
    <2> QED
      BY <2>1 DEF n
  <1> HIDE DEF px, ps
  <1>6. \A i \in 1 .. k : px[i] = ps[offset + i]
    BY <1>1, <1>3, <1>4, <1>5
  <1>7. PageIn(px, ps, offset, limit)
    BY <1>4, <1>5, <1>6 DEF PageIn, k
  <1> QED
    BY <1>7 DEF px, ps

-----------------------------------------------------------------------------
(***************************************************************************)
(* Row ids in order.                                                       *)
(***************************************************************************)
\* Ascending lists its numbers in order.
LEMMA AscendingOf ==
    ASSUME NEW n \in Nat, NEW I \in SUBSET (0 .. n)
    PROVE  Ascending(I) \in Seq(Nat) /\ Rising(Ascending(I)) /\ Range(Ascending(I)) = I
  <1> DEFINE S == I \cup {0}
             m == Max(S)
             list == [i \in 1 .. m + 1 |-> i - 1]
  <1>1. m \in S /\ \A y \in S : m >= y
    <2>1. S \in SUBSET (0 .. n) /\ S # {}
      OBVIOUS
    <2> HIDE DEF S
    <2> QED
      BY <2>1, GreatestOf
  <1>2. Ascending(I) = Selected(list, I)
    BY DEF Ascending
  <1>3. m \in Nat /\ I \subseteq 0 .. m
    <2> HIDE DEF m
    <2> QED
      BY <1>1
  <1> HIDE DEF m
  <1>4. list \in Seq(Nat) /\ Rising(list) /\ Range(list) = 0 .. m
    <2>1. list = [i \in 1 .. m + 1 |-> list[i]] /\ \A i \in 1 .. m + 1 : list[i] = i - 1 /\ list[i] \in Nat
      BY <1>3
    <2> HIDE DEF list
    <2>2. list \in Seq(Nat) /\ DOMAIN list = 1 .. m + 1
      BY <1>3, <2>1, ListOf, SMTT(30)
    <2>3. Rising(list)
      BY <2>1, <2>2 DEF Rising
    <2>4. ASSUME NEW x \in 0 .. m PROVE \E i \in DOMAIN list : list[i] = x
      <3>1. x + 1 \in 1 .. m + 1 /\ (x + 1) - 1 = x
        BY <1>3
      <3> QED
        BY <2>1, <2>2, <3>1
    <2>5. \A i \in DOMAIN list : list[i] \in 0 .. m
      BY <1>3, <2>1, <2>2
    <2> QED
      BY <2>2, <2>3, <2>4, <2>5 DEF Range
  <1> HIDE DEF list
  <1>5. Selected(list, I) \in Seq(Nat) /\ Range(Selected(list, I)) = Range(list) \cap I
    BY <1>4, SelectedRange
  <1>6. Rising(Selected(list, I))
    BY <1>4, SelectedRising
  <1> QED
    BY <1>2, <1>3, <1>4, <1>5, <1>6

\* The row ids, counted from 0, of the positions at, counted from 1.
LEMMA IdsOfPositions ==
    ASSUME NEW n \in Nat, NEW at \in Seq(Nat), Rising(at), NEW I \in SUBSET (0 .. n),
           Range(at) = {i + 1 : i \in I}
    PROVE  /\ Len(Ascending(I)) = Len(at) /\ Ascending(I) \in Seq(Nat)
           /\ \A k \in 1 .. Len(at) : Ascending(I)[k] \in I /\ Ascending(I)[k] + 1 = at[k]
  <1> DEFINE ids == Ascending(I)
             up == [k \in 1 .. Len(ids) |-> ids[k] + 1]
  <1>1. ids \in Seq(Nat) /\ Rising(ids) /\ Range(ids) = I
    BY AscendingOf
  <1> HIDE DEF ids
  <1>2. Len(ids) \in Nat /\ DOMAIN ids = 1 .. Len(ids) /\ \A k \in 1 .. Len(ids) : ids[k] \in Nat /\ ids[k] \in I
    <2>1. Len(ids) \in Nat /\ DOMAIN ids = 1 .. Len(ids) /\ \A k \in 1 .. Len(ids) : ids[k] \in Nat
      BY <1>1
    <2> QED
      BY <1>1, <2>1 DEF Range
  <1>3. up = [k \in 1 .. Len(ids) |-> up[k]] /\ \A k \in 1 .. Len(ids) : up[k] = ids[k] + 1 /\ up[k] \in Nat
    BY <1>2
  <1> HIDE DEF up
  <1>4. up \in Seq(Nat) /\ Len(up) = Len(ids) /\ DOMAIN up = 1 .. Len(ids)
    BY <1>2, <1>3, ListOf
  <1>5. Rising(up)
    BY <1>1, <1>2, <1>3, <1>4 DEF Rising
  <1>6. Range(up) = {i + 1 : i \in I}
    <2>1. ASSUME NEW i \in I PROVE \E k \in DOMAIN up : up[k] = i + 1
      <3>1. PICK k \in 1 .. Len(ids) : ids[k] = i
        BY <1>1, <1>2 DEF Range
      <3> QED
        BY <1>3, <1>4, <3>1
    <2>2. \A k \in DOMAIN up : \E i \in I : up[k] = i + 1
      BY <1>2, <1>3, <1>4
    <2> QED
      BY <2>1, <2>2 DEF Range
  <1>7. up = at
    BY <1>4, <1>5, <1>6, RisingUnique
  <1> QED
    BY <1>1, <1>2, <1>3, <1>4, <1>7 DEF ids


-----------------------------------------------------------------------------
(***************************************************************************)
(* The equality index.                                                     *)
(***************************************************************************)
\* A dataset whose rows are in T: its column names differ by more than case,
\* and what is indexed can be spelled.
IsTable(d, T) ==
    /\ {"schema", "chunks", "lazy", "index", "indexable"} \subseteq DOMAIN d
    /\ d.chunks \in Seq(Seq(T))
    /\ \A c, e \in Range(d.schema.columns) : Lower[c] = Lower[e] => c = e
    /\ d.indexable \subseteq Range(d.schema.columns)
    /\ \A r \in T, c \in d.indexable : r[c] \in DOMAIN Spelling

\* A request, parsed.
IsScan(req) ==
    /\ {"columns", "predicates", "group_by", "aggregations", "having", "distinct",
        "order_by", "limit", "page", "page_size"} \subseteq DOMAIN req
    /\ req.predicates \in Seq(Range(req.predicates))
    /\ \A p \in Range(req.predicates) : \A l \in Range(p.lits) : l.v \in DOMAIN Spelling
    /\ req.page \in Nat /\ req.page_size \in Nat
    /\ req.limit = {} \/ \E l \in Nat : req.limit = {l}

\* The rows of all chunks.
LEMMA RowsTyped ==
    ASSUME NEW T, NEW d, d.chunks \in Seq(Seq(T))
    PROVE  Rows(d) \in Seq(T) /\ Len(Rows(d)) \in Nat /\ DOMAIN Rows(d) = 1 .. Len(Rows(d))
  <1>1. PICK f : Joins(f, d.chunks, T) /\ FlattenSeq(d.chunks) = f[Len(d.chunks)]
    BY FlattenSteps
  <1>2. Len(d.chunks) \in 0 .. Len(d.chunks)
    OBVIOUS
  <1>3. Rows(d) \in Seq(T)
    BY <1>1, <1>2 DEF Joins, Rows
  <1> QED
    BY <1>3

\* A bucket has the rows whose value is spelled as its key.
LEMMA BucketHolds ==
    ASSUME NEW T, NEW d, IsTable(d, T), NEW c \in IndexedColumns(d), NEW key, NEW i
    PROVE  i \in Bucket(build_eq_index(d)[c], key)
             <=> /\ i \in 0 .. Len(Rows(d)) - 1
                 /\ Rows(d)[i + 1][c] # Null /\ Spelling[Rows(d)[i + 1][c]] = key
  <1> DEFINE rows == Rows(d)
             N == Len(rows)
             RowIds(y, k) == {x \in 0 .. N - 1 : rows[x + 1][y] # Null /\ Spelling[rows[x + 1][y]] = k}
             keys == {Spelling[v] : v \in Values(d, c)}
             bucket == build_eq_index(d)[c]
  <1>1. bucket = [k \in keys |-> RowIds(c, k)]
    BY DEF build_eq_index
  <1>2. N \in Nat /\ DOMAIN rows = 1 .. N
    BY RowsTyped DEF IsTable
  <1>3. Values(d, c) = {r[c] : r \in Range(rows)} \ {Null}
    BY DEF Values
  <1> HIDE DEF rows, bucket
  <1>4. ASSUME NEW x \in 0 .. N - 1, rows[x + 1][c] # Null PROVE Spelling[rows[x + 1][c]] \in keys
    <2>1. x + 1 \in DOMAIN rows
      BY <1>2
    <2>2. rows[x + 1] \in Range(rows)
      BY <2>1 DEF Range
    <2>3. rows[x + 1][c] \in Values(d, c)
      BY <1>3, <1>4, <2>2
    <2> QED
      BY <2>3
  <1> HIDE DEF keys
  <1>5. CASE key \in keys
    <2>1. Bucket(bucket, key) = RowIds(c, key)
      BY <1>1, <1>5 DEF Bucket
    <2> QED
      BY <2>1 DEF bucket, rows
  <1>6. CASE key \notin keys
    <2>1. Bucket(bucket, key) = {}
      BY <1>1, <1>6 DEF Bucket
    <2> QED
      BY <1>4, <1>6, <2>1 DEF bucket, rows
  <1> QED
    BY <1>5, <1>6

\* What try_index makes of one predicate.
IndexCols(index, p) == {c \in DOMAIN index : Lower[c] = Lower[p.col]}
\* A predicate try_index can answer.
IndexUsable(index, p) ==
    /\ IndexCols(index, p) # {}
    /\ \/ p.op = "eq" /\ p.kind = "one"
       \/ p.op = "in" /\ p.kind = "array"
    /\ \A l \in Range(p.lits) : HasKey(l)
\* The ids try_index finds for a predicate.
IndexMatch(index, p) ==
    UNION {Bucket(index[c], l.key) : c \in IndexCols(index, p), l \in Range(p.lits)}

\* When an equality holds of a row.
LEMMA EqualityHolds ==
    ASSUME NEW c, NEW row, c.op \in {"eq", "in"}
    PROVE  Holds(c, row) <=> /\ row[c.lhs] # Null
                             /\ \E v \in Range(c.vals) : v # Null /\ row[c.lhs] = v
  BY DEF Holds

\* The parts of a condition.
LEMMA ConditionParts ==
    ASSUME NEW p, NEW lhs
    PROVE  /\ Condition(p, lhs).lhs = lhs /\ Condition(p, lhs).op = p.op
           /\ Range(Condition(p, lhs).vals) = {l.v : l \in Range(p.lits)}
  BY DEF Condition, Range

\* It finds the rows that the condition of the predicate holds of.
LEMMA IndexFinds ==
    ASSUME NEW T, NEW d, IsTable(d, T), NEW p, IndexUsable(build_eq_index(d), p),
           \A l \in Range(p.lits) :
              l.v \in DOMAIN Spelling /\ (l.v # Null => l.key = Spelling[l.v])
    PROVE  /\ find(d.schema, p.col) # {}
           /\ \A i : i \in IndexMatch(build_eq_index(d), p)
                <=> /\ i \in 0 .. Len(Rows(d)) - 1
                    /\ Holds(Condition(p, TheColumn(d.schema, p.col)), Rows(d)[i + 1])
  <1> DEFINE rows == Rows(d)
             N == Len(rows)
             index == build_eq_index(d)
             s == d.schema
             col == TheColumn(s, p.col)
             cond == Condition(p, col)
  <1>1. DOMAIN index = IndexedColumns(d)
    BY DEF build_eq_index
  <1>2. IndexedColumns(d) \subseteq d.indexable
    BY DEF IndexedColumns
  <1>3. d.indexable \subseteq Range(s.columns) /\ \A x, y \in Range(s.columns) : Lower[x] = Lower[y] => x = y
    BY DEF IsTable
  <1>4. N \in Nat /\ \A i \in 0 .. N - 1 : rows[i + 1] \in T
    <2>1. rows \in Seq(T) /\ N \in Nat
      BY RowsTyped DEF IsTable
    <2>2. \A i \in 0 .. N - 1 : i + 1 \in 1 .. N
      BY <2>1
    <2> HIDE DEF rows
    <2> QED
      BY <2>1, <2>2
  <1>5. PICK c \in IndexCols(index, p) : TRUE
    BY DEF IndexUsable
  <1>6. /\ c \in IndexedColumns(d) /\ c \in d.indexable /\ c \in Range(s.columns) /\ Lower[c] = Lower[p.col]
        /\ IndexCols(index, p) = {c}
    <2>1. \A x \in IndexCols(index, p) :
            x \in IndexedColumns(d) /\ x \in Range(s.columns) /\ Lower[x] = Lower[p.col] /\ x \in d.indexable
      BY <1>1, <1>2, <1>3 DEF IndexCols
    <2>2. \A x \in IndexCols(index, p) : x = c
      BY <1>3, <1>5, <2>1
    <2> QED
      BY <1>5, <2>1, <2>2
  <1>7. find(s, p.col) = {c}
    BY <1>3, <1>6 DEF find
  <1>8. col = c
    BY <1>7 DEF TheColumn
  <1>9. cond.lhs = c /\ cond.op \in {"eq", "in"} /\ Range(cond.vals) = {l.v : l \in Range(p.lits)}
    <2>1. p.op \in {"eq", "in"}
      BY DEF IndexUsable
    <2> QED
      BY <1>8, <2>1, ConditionParts
  <1>10. \A l \in Range(p.lits) : l.v # Null /\ l.v \in DOMAIN Spelling /\ l.key = Spelling[l.v]
    BY DEF IndexUsable, HasKey
  <1> HIDE DEF cond, index, rows, col
  <1>11. ASSUME NEW i
         PROVE  i \in IndexMatch(index, p) <=> i \in 0 .. N - 1 /\ Holds(cond, rows[i + 1])
    <2> DEFINE x == rows[i + 1][c]
    <2>1. i \in IndexMatch(index, p) <=> \E l \in Range(p.lits) : i \in Bucket(index[c], l.key)
      BY <1>6 DEF IndexMatch
    <2>2. \A l \in Range(p.lits) :
             i \in Bucket(index[c], l.key) <=> i \in 0 .. N - 1 /\ x # Null /\ Spelling[x] = l.key
      BY <1>6, BucketHolds DEF index, rows
    <2>3. i \in 0 .. N - 1 => x \in DOMAIN Spelling
      BY <1>4, <1>6 DEF IsTable
    <2>4. i \in 0 .. N - 1 => \A l \in Range(p.lits) : Spelling[x] = l.key <=> x = l.v
      BY <1>10, <2>3, SpellingAssumption
    <2>5. Holds(cond, rows[i + 1]) <=> /\ x # Null
                                       /\ \E v \in Range(cond.vals) : v # Null /\ x = v
      BY <1>9, EqualityHolds
    <2> HIDE DEF x
    <2>6. (\E v \in Range(cond.vals) : v # Null /\ x = v) <=> \E l \in Range(p.lits) : x = l.v
      BY <1>9, <1>10
    <2> QED
      BY <2>1, <2>2, <2>4, <2>5, <2>6
  <1> QED
    BY <1>7, <1>11 DEF index, rows, cond, col

\* The positions, from 1, of the rows that match, and their ids, from 0.
MatchingIds(d, req) ==
    {i \in 0 .. Len(Rows(d)) - 1 : i + 1 \in Matching(Rows(d), Where(req, d.schema))}

\* The conditions of a WHERE.
LEMMA WhereRange ==
    ASSUME NEW req, NEW s
    PROVE  Range(Where(req, s)) = {Condition(p, TheColumn(s, p.col)) : p \in Range(req.predicates)}
  BY DEF Where, Range

\* try_index finds the rows that match, and answers only what SQL accepts.
LEMMA IndexAnswers ==
    ASSUME NEW T, NEW d, IsTable(d, T), NEW req, IsScan(req), Regular(req),
           try_index(build_eq_index(d), req.predicates) # {}
    PROVE  /\ try_index(build_eq_index(d), req.predicates) = {Ascending(MatchingIds(d, req))}
           /\ req.predicates # <<>>
           /\ \A p \in Range(req.predicates) :
                find(d.schema, p.col) # {} /\ pred_error("df", p) = "ok"
  <1> DEFINE rows == Rows(d)
             N == Len(rows)
             index == build_eq_index(d)
             s == d.schema
             preds == req.predicates
             ids == {i \in IndexMatch(index, preds[1]) :
                       \A p \in Range(preds) : i \in IndexMatch(index, p)}
             none == preds = <<>> \/ DOMAIN index = {} \/ \E p \in Range(preds) : ~IndexUsable(index, p)
             cond(p) == Condition(p, TheColumn(s, p.col))
  <1>1. try_index(index, preds) = IF none THEN {} ELSE {Ascending(ids)}
    BY DEF try_index, IndexUsable, IndexMatch, IndexCols
  <1>2. ~none
    <2> HIDE DEF none, ids
    <2> QED
      BY <1>1
  <1>3. preds # <<>> /\ \A p \in Range(preds) : IndexUsable(index, p)
    BY <1>2
  <1>4. preds[1] \in Range(preds)
    <2>1. preds \in Seq(Range(preds))
      BY DEF IsScan
    <2>2. 1 \in DOMAIN preds
      BY <1>3, <2>1
    <2> QED
      BY <2>2 DEF Range
  <1>5. \A p \in Range(preds) : \A l \in Range(p.lits) :
           l.v \in DOMAIN Spelling /\ (l.v # Null => l.key = Spelling[l.v])
    BY DEF IsScan, Regular
  <1>6. ASSUME NEW p \in Range(preds)
        PROVE  /\ find(s, p.col) # {}
               /\ \A i : i \in IndexMatch(index, p) <=> i \in 0 .. N - 1 /\ Holds(cond(p), rows[i + 1])
    BY <1>3, <1>5, IndexFinds
  <1>7. ASSUME NEW p \in Range(preds) PROVE pred_error("df", p) = "ok"
    <2>1. \/ p.op = "eq" /\ p.kind = "one"
          \/ p.op = "in" /\ p.kind = "array"
      BY <1>3 DEF IndexUsable
    <2>2. p.op = "in" => p.lits # <<>>
      BY DEF Regular
    <2> QED
      BY <2>1, <2>2 DEF pred_error, df_pred_error, Comparisons
  <1>8. N \in Nat /\ DOMAIN rows = 1 .. N
    BY RowsTyped DEF IsTable
  <1>9. Range(Where(req, s)) = {cond(p) : p \in Range(preds)}
    BY WhereRange
  <1> HIDE DEF index, rows, cond, preds
  <1>10. ASSUME NEW i
         PROVE  i \in ids <=> i \in 0 .. N - 1 /\ i + 1 \in Matching(rows, Where(req, s))
    <2>1. i \in ids <=> \A p \in Range(preds) : i \in IndexMatch(index, p)
      BY <1>4
    <2>2. i \in ids <=> i \in 0 .. N - 1 /\ \A p \in Range(preds) : Holds(cond(p), rows[i + 1])
      BY <1>4, <1>6, <2>1
    <2>3. i \in 0 .. N - 1 => i + 1 \in DOMAIN rows
      BY <1>8
    <2>4. i \in 0 .. N - 1 => (i + 1 \in Matching(rows, Where(req, s))
                                <=> \A p \in Range(preds) : Holds(cond(p), rows[i + 1]))
      BY <1>9, <2>3 DEF Matching
    <2> QED
      BY <2>2, <2>4
  <1>11. ids = MatchingIds(d, req)
    <2> HIDE DEF ids
    <2>1. \A i : i \in MatchingIds(d, req) <=> i \in 0 .. N - 1 /\ i + 1 \in Matching(rows, Where(req, s))
      BY DEF MatchingIds, rows
    <2> QED
      BY <1>10, <2>1
  <1> HIDE DEF none, ids
  <1> QED
    BY <1>1, <1>2, <1>3, <1>6, <1>7, <1>11 DEF preds, index


-----------------------------------------------------------------------------
(***************************************************************************)
(* Resident answers.                                                       *)
(***************************************************************************)
\* The ids, from 0, of the rows at positions M, from 1.
IdsOfRows(M, N) == {i \in 0 .. N - 1 : i + 1 \in M}

\* take_page makes the page of the rows that match.
LEMMA IndexedPage ==
    ASSUME NEW T, NEW d, d.chunks \in Seq(Seq(T)), NEW M, M \subseteq 1 .. Len(Rows(d)),
           NEW I, I = IdsOfRows(M, Len(Rows(d))),
           NEW offset \in Nat, NEW limit \in Nat
    PROVE  /\ PageIn(take_page(d, Ascending(I), offset, limit), Picked(Rows(d), M), offset, limit)
           /\ Len(Ascending(I)) = Len(Picked(Rows(d), M))
  <1> DEFINE rows == Rows(d)
             N == Len(rows)
             kept == Picked(rows, M)
             ids == Ascending(I)
             page == PageIds(ids, offset, limit)
             taken == take_page(d, ids, offset, limit)
  <1>1. rows \in Seq(T) /\ N \in Nat
    BY RowsTyped
  <1>2. I \in SUBSET (0 .. N) /\ I \subseteq 0 .. N - 1 /\ \A x : x \in M <=> \E i \in I : x = i + 1
    <2>1. \A x \in 1 .. N : x - 1 \in 0 .. N - 1 /\ (x - 1) + 1 = x
      BY <1>1
    <2> HIDE DEF rows
    <2>2. M \subseteq 1 .. N /\ I = IdsOfRows(M, N)
      BY DEF rows
    <2>3. \A x \in M : x - 1 \in I /\ (x - 1) + 1 = x
      BY <2>1, <2>2 DEF IdsOfRows
    <2>4. \A i \in I : i + 1 \in M /\ i \in 0 .. N - 1
      BY <2>2 DEF IdsOfRows
    <2>5. \A i \in 0 .. N - 1 : i \in 0 .. N
      BY <1>1
    <2>6. I \in SUBSET (0 .. N)
      BY <2>4, <2>5
    <2> QED
      BY <2>3, <2>4, <2>6
  <1>3. PICK at \in Seq(Nat) :
             /\ Rising(at) /\ Range(at) = (1 .. Len(rows)) \cap M
             /\ Picked(rows, M) = [k \in 1 .. Len(at) |-> rows[at[k]]]
             /\ Picked(rows, M) \in Seq(T) /\ Len(Picked(rows, M)) = Len(at)
             /\ Len(at) <= Len(rows)
    <2> HIDE DEF rows
    <2> QED
      BY <1>1, PickedAt
  <1>4. Range(at) = {i + 1 : i \in I}
    BY <1>2, <1>3
  <1> HIDE DEF rows
  <1>5. /\ Len(ids) = Len(at) /\ ids \in Seq(Nat)
        /\ \A k \in 1 .. Len(at) : ids[k] \in I /\ ids[k] + 1 = at[k]
    BY <1>1, <1>2, <1>3, <1>4, IdsOfPositions
  <1> HIDE DEF ids
  <1>6. IsList(ids) /\ Len(ids) \in Nat /\ Len(at) \in Nat
    BY <1>5, SeqIsList
  <1>7. PageIn(page, ids, offset, limit)
    BY <1>6, IdsArePage
  <1> DEFINE k == Count(Len(ids), offset, limit)
  <1>8. k \in Nat /\ \A i \in 1 .. k : offset + i \in 1 .. Len(ids)
    BY <1>6 DEF Count
  <1> HIDE DEF k, page
  <1>9. IsList(page) /\ Len(page) = k /\ \A i \in 1 .. k : page[i] = ids[offset + i]
    BY <1>7 DEF PageIn, k
  <1>10. page \in Seq(0 .. N - 1)
    <2>1. page = [i \in 1 .. k |-> page[i]]
      BY <1>9 DEF IsList
    <2>2. \A i \in 1 .. k : page[i] \in 0 .. N - 1
      BY <1>2, <1>5, <1>8, <1>9
    <2> DEFINE U == 0 .. N - 1
    <2>3. \A i \in 1 .. k : page[i] \in U
      BY <2>2
    <2> HIDE DEF U
    <2>4. page \in Seq(U)
      BY <1>8, <2>1, <2>3, ListOf
    <2> QED
      BY <2>4 DEF U
  <1>11. taken = [i \in 1 .. Len(page) |-> rows[page[i] + 1]]
    <2>1. page = PageIds(ids, offset, limit)
      BY DEF page
    <2>2. AreIds(PageIds(ids, offset, limit), Rows(d))
      BY <1>10 DEF page, rows, AreIds
    <2> HIDE DEF taken
    <2>3. take_page(d, ids, offset, limit) = RowsAt(Rows(d), PageIds(ids, offset, limit))
      <3>1. Chunked(d, T)
        BY DEF Chunked
      <3> QED
        BY <2>2, <3>1, PageTaken
    <2> QED
      BY <2>1, <2>3, Zenon DEF taken, rows, RowsAt
  <1> HIDE DEF taken
  <1>12. taken = [i \in 1 .. k |-> taken[i]] /\ \A i \in 1 .. k : taken[i] = rows[page[i] + 1]
    BY <1>9, <1>11
  <1>13. IsList(taken) /\ Len(taken) = k
    BY <1>8, <1>12, ListFrom
  <1>14. \A i \in 1 .. k : taken[i] = kept[offset + i]
    <2>1. \A i \in 1 .. Len(at) : kept[i] = rows[at[i]]
      BY <1>3
    <2> HIDE DEF kept
    <2>2. ASSUME NEW i \in 1 .. k PROVE taken[i] = kept[offset + i]
      <3> DEFINE j == offset + i
      <3>1. j \in 1 .. Len(at)
        BY <1>5, <1>8
      <3>2. page[i] = ids[j] /\ taken[i] = rows[page[i] + 1]
        BY <1>9, <1>12
      <3> HIDE DEF j
      <3>3. ids[j] + 1 = at[j] /\ kept[j] = rows[at[j]]
        BY <1>5, <2>1, <3>1
      <3> QED
        BY <3>2, <3>3 DEF j
    <2> QED
      BY <2>2
  <1>15. Len(kept) = Len(ids)
    BY <1>3, <1>5
  <1> HIDE DEF kept
  <1>16. PageIn(taken, kept, offset, limit)
    BY <1>13, <1>14, <1>15 DEF PageIn, k
  <1> QED
    BY <1>15, <1>16 DEF taken, kept, rows, ids

\* slice_global makes the page of all rows.
LEMMA SlicedPage ==
    ASSUME NEW T, NEW d, d.chunks \in Seq(Seq(T)), NEW offset \in Nat, NEW limit \in Nat
    PROVE  LET start == Min({offset, Len(Rows(d))})
           IN PageIn(slice_global(d, start, Min({limit, Len(Rows(d)) - start})),
                     Rows(d), offset, limit)
  <1> DEFINE rows == Rows(d)
             start == Min({offset, Len(rows)})
             m == Min({limit, Len(rows) - start})
  <1>1. rows \in Seq(T) /\ Len(rows) \in Nat
    BY RowsTyped
  <1>2. IsList(rows)
    BY <1>1, SeqIsList
  <1>3. /\ PageIn(PageIds(rows, offset, limit), rows, offset, limit)
        /\ start \in Nat /\ m \in Nat /\ start + m <= Len(rows)
    <2> HIDE DEF rows
    <2> QED
      BY <1>2, IdsArePage
  <1>4. PageIds(rows, offset, limit) = SubSeq(rows, start + 1, start + m)
    BY DEF PageIds
  <1>5. slice_global(d, start, m) = SubSeq(rows, start + 1, start + m)
    <2> HIDE DEF start, m
    <2> QED
      BY <1>3, SliceServed
  <1> QED
    BY <1>3, <1>4, <1>5

-----------------------------------------------------------------------------
(***************************************************************************)
(* Plans that neither group, sort nor drop duplicates.                     *)
(***************************************************************************)
\* The columns of a plan that does not group.
ShownColumns(req, s) ==
    IF req.columns = <<>> THEN s.columns
    ELSE [i \in DOMAIN req.columns |-> TheColumn(s, req.columns[i])]

\* The rows of such a plan before its window cuts them.
Uncut(req, s, rows) ==
    LET kept == Picked(rows, Matching(rows, Where(req, s)))
        sorted == IF req.order_by = <<>> THEN kept
                  ELSE SortedBy(kept, [key |-> TheColumn(s, req.order_by[1].col),
                                       dir |-> req.order_by[1].dir])
        shown == Projected(sorted, ShownColumns(req, s))
    IN IF req.distinct THEN Distinct(shown) ELSE shown

\* A plan that does not group cuts its window from its rows.
LEMMA EvaluateUngrouped ==
    ASSUME NEW req, NEW s, NEW w, NEW rows, req.group_by = <<>>, IsList(req.order_by)
    PROVE  Evaluate(Clauses(req, s, w), rows) = Cut(Uncut(req, s, rows), w)
  <1> DEFINE plan == Clauses(req, s, w)
             order == [i \in DOMAIN req.order_by |->
                         [key |-> TheColumn(s, req.order_by[i].col), dir |-> req.order_by[i].dir]]
  <1>1. agg_plan(req, s) = {}
    BY DEF agg_plan
  <1>2. plan.cols = ShownColumns(req, s)
    BY <1>1 DEF Clauses, ShownColumns
  <1>3. plan.where = Where(req, s) /\ plan.distinct = req.distinct /\ plan.window = w
    BY DEF Clauses
  <1>4. plan.order = order
    BY <1>1 DEF Clauses
  <1> HIDE DEF plan
  <1>5. Evaluate(plan, rows)
          = LET kept == Picked(rows, Matching(rows, Where(req, s)))
                sorted == IF order = <<>> THEN kept ELSE SortedBy(kept, order[1])
                shown == Projected(sorted, ShownColumns(req, s))
            IN Cut(IF req.distinct THEN Distinct(shown) ELSE shown, w)
    BY <1>2, <1>3, <1>4, Zenon DEF Evaluate
  <1>6. CASE req.order_by = <<>>
    <2>1. order = <<>>
      BY <1>6
    <2> QED
      BY <1>5, <1>6, <2>1, Zenon DEF Uncut, plan
  <1>7. CASE req.order_by # <<>>
    <2>1. 1 \in DOMAIN req.order_by
      BY <1>7 DEF IsList
    <2>2. order # <<>> /\ order[1] = [key |-> TheColumn(s, req.order_by[1].col), dir |-> req.order_by[1].dir]
      BY <2>1
    <2> HIDE DEF order
    <2> QED
      BY <1>5, <1>7, <2>2, Zenon DEF Uncut, plan
  <1> QED
    BY <1>6, <1>7


-----------------------------------------------------------------------------
(***************************************************************************)
(* What a plan refuses, and what it answers.                               *)
(***************************************************************************)
\* One check among those that pass.
LEMMA FirstAlone ==
    ASSUME NEW a
    PROVE  FirstError(<<a, "ok", "ok">>) = a
  <1> DEFINE checks == <<a, "ok", "ok">>
             bad == {i \in DOMAIN checks : checks[i] # "ok"}
  <1>1. CASE a = "ok"
    BY <1>1, FirstOfThree
  <1>2. CASE a # "ok"
    <2>1. bad = {1}
      BY <1>2
    <2>2. Min({1}) = 1
      BY MinIsLeast
    <2>3. FirstError(checks) = IF bad = {} THEN "ok" ELSE checks[Min(bad)]
      BY DEF FirstError
    <2>4. checks[1] = a
      OBVIOUS
    <2> HIDE DEF bad, checks
    <2> QED
      BY <2>1, <2>2, <2>3, <2>4 DEF checks
  <1> QED
    BY <1>1, <1>2

\* Where nothing is checked nothing fails.
LEMMA NoChecks ==
    ASSUME NEW checks, DOMAIN checks = {}
    PROVE  FirstError(checks) = "ok"
  BY DEF FirstError

\* Predicates that are sound, each by itself.
LEMMA WhereErrorsOk ==
    ASSUME NEW req, NEW s, DOMAIN req.predicates \subseteq Nat,
           \A p \in Range(req.predicates) : find(s, p.col) # {} /\ pred_error("df", p) = "ok"
    PROVE  FirstError(WhereErrors("df", req, s)) = "ok"
  <1> DEFINE checks == WhereErrors("df", req, s)
  <1>1. /\ DOMAIN checks = DOMAIN req.predicates
        /\ \A i \in DOMAIN req.predicates :
             checks[i] = FirstError(<<FindError(s, req.predicates[i].col),
                                      pred_error("df", req.predicates[i])>>)
    BY DEF WhereErrors, Each
  <1>2. ASSUME NEW i \in DOMAIN req.predicates
        PROVE  FirstError(<<FindError(s, req.predicates[i].col),
                            pred_error("df", req.predicates[i])>>) = "ok"
    <2>1. req.predicates[i] \in Range(req.predicates)
      BY DEF Range
    <2>2. FindError(s, req.predicates[i].col) = "ok" /\ pred_error("df", req.predicates[i]) = "ok"
      BY <2>1 DEF FindError
    <2> QED
      BY <2>2, FirstOfTwo
  <1> HIDE DEF checks
  <1>3. \A i \in DOMAIN checks : checks[i] = "ok"
    BY <1>1, <1>2
  <1>4. FirstError(checks) = "ok"
    BY <1>1, <1>3, FirstErrorOk
  <1> QED
    BY <1>4 DEF checks

\* A request without groups, having and order whose predicates are sound can
\* only name a column that does not exist.
LEMMA PlainError ==
    ASSUME NEW req, NEW s, NEW paged, req.group_by = <<>>, req.aggregations = <<>>,
           req.having = <<>>, req.order_by = <<>>, ~req.distinct,
           DOMAIN req.predicates \subseteq Nat,
           \A p \in Range(req.predicates) : find(s, p.col) # {} /\ pred_error("df", p) = "ok"
    PROVE  df_plan(req, s, paged).err = ColumnError(req, s)
  <1> DEFINE cols == ColumnError(req, s)
  <1>1. agg_plan_error(req, s) = "ok"
    <2> DEFINE groups == FirstError(Each(req.group_by, LAMBDA g : FindError(s, g)))
    <2>1. DOMAIN Each(req.group_by, LAMBDA g : FindError(s, g)) = {}
      BY DEF Each
    <2>2. groups = "ok"
      BY <2>1, NoChecks
    <2>3. agg_plan_error(req, s) = FirstError(<<"ok", "ok", groups, "ok">>)
      BY DEF agg_plan_error
    <2> HIDE DEF groups
    <2> QED
      BY <2>2, <2>3, FirstOfFour
  <1>2. FirstError(WhereErrors("df", req, s)) = "ok"
    BY WhereErrorsOk
  <1>3. PredError("df", req, s) = "ok"
    <2> DEFINE having == FirstError(Each(req.having, LAMBDA h : pred_error("df", h)))
    <2>1. DOMAIN Each(req.having, LAMBDA h : pred_error("df", h)) = {}
      BY DEF Each
    <2>2. having = "ok"
      BY <2>1, NoChecks
    <2>3. having_error(req, s) = "ok"
      BY DEF having_error
    <2>4. PredError("df", req, s) = FirstError(<<"ok", "ok", having>>)
      BY <1>2, <2>3 DEF PredError
    <2> HIDE DEF having
    <2> QED
      BY <2>2, <2>4, FirstOfThree
  <1>4. order_by_error(req, s) = "ok"
    BY NoChecks DEF order_by_error, Each
  <1>5. ColumnError(req, s) = cols
    OBVIOUS
  <1>6. FirstError(<<"ok">>) = "ok"
    BY FirstOfOne
  <1>7. df_plan(req, s, paged).err = FirstError(<<cols, "ok", "ok">>)
    <2> HIDE DEF cols
    <2> DEFINE e == FirstError(<<agg_plan_error(req, s)>>)
               err == IF e # "ok" THEN e
                      ELSE FirstError(<<ColumnError(req, s), PredError("df", req, s), order_by_error(req, s)>>)
    <2>1. df_plan(req, s, paged).err = err
      BY DEF df_plan
    <2>2. e = "ok"
      BY <1>1, <1>6
    <2> QED
      BY <1>3, <1>4, <1>5, <2>1, <2>2
  <1> HIDE DEF cols
  <1>8. df_plan(req, s, paged).err = cols
    BY <1>7, FirstAlone
  <1> QED
    BY <1>8 DEF cols

\* What SQL answers.
LEMMA SqlRows ==
    ASSUME NEW d, NEW req, NEW paged, req.group_by = <<>>, IsList(req.order_by)
    PROVE  LET err == df_plan(req, d.schema, paged).err
           IN SqlAnswer(d, df_plan(req, d.schema, paged))
                = [err |-> err,
                   rows |-> IF err # "ok" THEN <<>>
                            ELSE Cut(Uncut(req, d.schema, Rows(d)), Window(req, paged))]
  <1> DEFINE p == df_plan(req, d.schema, paged)
             plan == Clauses(req, d.schema, Window(req, paged))
             rows == Cut(Uncut(req, d.schema, Rows(d)), Window(req, paged))
  <1>1. p.plan = IF p.err = "ok" THEN {plan} ELSE {}
    BY DEF df_plan
  <1>2. Evaluate(plan, Rows(d)) = rows
    BY EvaluateUngrouped
  <1>3. SqlAnswer(d, p) = [err |-> p.err,
                           rows |-> IF p.err # "ok" THEN <<>>
                                    ELSE Evaluate(CHOOSE x \in p.plan : TRUE, Rows(d))]
    BY DEF SqlAnswer
  <1> HIDE DEF p, plan, rows
  <1>4. p.err = "ok" => (CHOOSE x \in p.plan : TRUE) = plan
    BY <1>1
  <1>5. p.err = "ok" => Evaluate(CHOOSE x \in p.plan : TRUE, Rows(d)) = rows
    BY <1>2, <1>4, Zenon
  <1>6. SqlAnswer(d, p) = [err |-> p.err, rows |-> IF p.err # "ok" THEN <<>> ELSE rows]
    BY <1>3, <1>5, Zenon
  <1> QED
    BY <1>6, Zenon DEF p, rows

\* Windows are numbers, and no page is empty by its size.
LEMMA WindowTyped ==
    ASSUME NEW req, IsScan(req), NEW paged \in BOOLEAN
    PROVE  /\ Window(req, paged).offset \in Nat /\ Window(req, paged).limit \in Nat
           /\ Offset(req, MaxPageSize) \in Nat /\ PageSize(req, MaxPageSize) \in Nat \ {0}
           /\ (paged /\ req.limit = {}) =>
                /\ Window(req, paged).offset = Offset(req, MaxPageSize)
                /\ Window(req, paged).limit = PageSize(req, MaxPageSize)
  <1> DEFINE off == Offset(req, MaxPageSize)
             size == PageSize(req, MaxPageSize)
  <1>1. req.page \in Nat /\ req.page_size \in Nat
    BY DEF IsScan
  <1>2. size \in Nat \ {0}
    BY <1>1, PageSizeAssumption DEF PageSize, Clamp
  <1>3. PageOf(req) \in Nat /\ PageOf(req) - 1 \in Int
    BY <1>1, WordAssumption DEF PageOf, Clamp
  <1>4. off \in Nat
    <2>1. off = ((PageOf(req) - 1) * size) % Word
      BY DEF Offset
    <2>2. (PageOf(req) - 1) * size \in Int
      BY <1>2, <1>3
    <2> QED
      BY <2>1, <2>2, WordAssumption
  <1> DEFINE top == CHOOSE l \in req.limit : TRUE
  <1>5. req.limit # {} => top \in Nat
    BY DEF IsScan
  <1> HIDE DEF off, size, top
  <1>6. CASE paged
    <2>1. /\ Window(req, paged).offset = off
          /\ Window(req, paged).limit
               = IF req.limit = {} THEN size
                 ELSE IF off >= top THEN 0 ELSE Min({size, top - off})
      BY <1>6 DEF Window, effective_limit_offset, off, size, top
    <2>2. (req.limit # {} /\ ~ (off >= top)) => Min({size, top - off}) \in Nat
      <3>1. ASSUME req.limit # {}, ~ (off >= top) PROVE Min({size, top - off}) \in Nat
        <4>1. top - off \in Nat
          BY <1>4, <1>5, <3>1
        <4>2. Min({size, top - off}) = IF size <= top - off THEN size ELSE top - off
          BY <1>2, <4>1, MinOf
        <4> QED
          BY <1>2, <4>1, <4>2
      <3> QED
        BY <3>1
    <2> QED
      BY <1>2, <1>4, <2>1, <2>2 DEF off, size
  <1>7. CASE ~paged
    <2>1. /\ Window(req, paged).offset = 0
          /\ Window(req, paged).limit = IF req.limit = {} THEN Word - 1 ELSE top
      BY <1>7 DEF Window, top
    <2> QED
      BY <1>2, <1>4, <1>5, <1>7, <2>1, WordAssumption DEF off, size
  <1> QED
    BY <1>6, <1>7

\* The uncut rows of a request that is only filtered.
LEMMA UncutPlain ==
    ASSUME NEW req, NEW s, NEW rows, req.order_by = <<>>, ~req.distinct
    PROVE  Uncut(req, s, rows)
             = Projected(Picked(rows, Matching(rows, Where(req, s))), ShownColumns(req, s))
  BY DEF Uncut


\* A dataset read lazily has the same rows.
LEMMA LazyParts ==
    ASSUME NEW T, NEW d, IsTable(d, T)
    PROVE  /\ AsLazy(d).lazy = TRUE /\ AsLazy(d).schema = d.schema
           /\ AsLazy(d).chunks = d.chunks /\ Rows(AsLazy(d)) = Rows(d)
  <1>1. {"schema", "chunks", "lazy", "index", "indexable"} \subseteq DOMAIN d
    BY DEF IsTable
  <1>2. /\ AsLazy(d).lazy = TRUE /\ AsLazy(d).schema = d.schema
        /\ AsLazy(d).chunks = d.chunks
    BY <1>1 DEF AsLazy
  <1> QED
    BY <1>2 DEF Rows

\* Rows found without the plan, projected, are what the plan shows of them.
LEMMA ProjectedAnswer ==
    ASSUME NEW T, NEW d, IsTable(d, T), NEW req, IsScan(req), Regular(req), NEW paged \in BOOLEAN,
           CanFastPath(d, req, paged),
           \A p \in Range(req.predicates) : find(d.schema, p.col) # {} /\ pred_error("df", p) = "ok",
           NEW found, NEW w, w = Window(req, paged),
           PageIn(found, Picked(Rows(d), Matching(Rows(d), Where(req, d.schema))), w.offset, w.limit)
    PROVE  project(d, found, req.columns) = SqlAnswer(d, df_plan(req, d.schema, paged))
  <1> DEFINE s == d.schema
             err == ColumnError(req, s)
             kept == Picked(Rows(d), Matching(Rows(d), Where(req, s)))
             cols == ShownColumns(req, s)
             plan == df_plan(req, s, paged)
  <1>1. req.order_by = <<>> /\ req.group_by = <<>> /\ ~req.distinct
    BY DEF CanFastPath
  <1>2. req.having = <<>> /\ req.aggregations = <<>>
    BY <1>1 DEF Regular
  <1>3. DOMAIN req.predicates \subseteq Nat
    <2>1. req.predicates \in Seq(Range(req.predicates))
      BY DEF IsScan
    <2> QED
      BY <2>1
  <1>4. plan.err = err
    BY <1>1, <1>2, <1>3, PlainError
  <1>5. IsList(req.order_by)
    BY <1>1 DEF IsList
  <1>6. SqlAnswer(d, plan) = [err |-> plan.err,
                              rows |-> IF plan.err # "ok" THEN <<>>
                                       ELSE Cut(Uncut(req, s, Rows(d)), w)]
    BY <1>1, <1>5, SqlRows
  <1>7. Uncut(req, s, Rows(d)) = Projected(kept, cols)
    BY <1>1, UncutPlain
  <1>8. project(d, found, req.columns)
          = [err |-> err, rows |-> IF err # "ok" THEN <<>> ELSE Projected(found, cols)]
    BY <1>1 DEF project, ShownColumns, ColumnError
  <1>9. IsList(kept)
    <2>1. Rows(d) \in Seq(T)
      BY RowsTyped DEF IsTable
    <2>2. kept \in Seq(T)
      BY <2>1, PickedAt
    <2> HIDE DEF kept
    <2> QED
      BY <2>2, SeqIsList
  <1>10. w.offset \in Nat /\ w.limit \in Nat
    BY WindowTyped
  <1> HIDE DEF kept, cols, err, plan, s
  <1>11. PageIn(found, kept, w.offset, w.limit)
    BY DEF kept, s
  <1>12. PageIn(Projected(found, cols), Projected(kept, cols), w.offset, w.limit)
    BY <1>9, <1>10, <1>11, ProjectedPage
  <1>13. PageIn(Cut(Projected(kept, cols), w), Projected(kept, cols), w.offset, w.limit)
    <2>1. IsList(Projected(kept, cols))
      BY <1>9, ProjectedList
    <2> QED
      BY <1>10, <2>1, CutIsPage
  <1>14. Projected(found, cols) = Cut(Projected(kept, cols), w)
    BY <1>12, <1>13, PageUnique
  <1>15. project(d, found, req.columns) = SqlAnswer(d, plan)
    BY <1>4, <1>6, <1>7, <1>8, <1>14
  <1> QED
    BY <1>15 DEF plan, s

\* Without predicates every row matches.
LEMMA AllMatch ==
    ASSUME NEW T, NEW rows \in Seq(T), NEW req, req.predicates = <<>>, NEW s
    PROVE  Picked(rows, Matching(rows, Where(req, s))) = rows
  <1>1. Range(Where(req, s)) = {}
    BY DEF Where, Range
  <1>2. DOMAIN rows = 1 .. Len(rows)
    OBVIOUS
  <1>3. 1 .. Len(rows) \subseteq Matching(rows, Where(req, s))
    BY <1>1, <1>2 DEF Matching
  <1> QED
    BY <1>3, PickedAll

\* The ids of the rows that match.
LEMMA MatchingRows ==
    ASSUME NEW T, NEW d, d.chunks \in Seq(Seq(T)), NEW req
    PROVE  /\ Matching(Rows(d), Where(req, d.schema)) \subseteq 1 .. Len(Rows(d))
           /\ MatchingIds(d, req)
                = IdsOfRows(Matching(Rows(d), Where(req, d.schema)), Len(Rows(d)))
  <1>1. DOMAIN Rows(d) = 1 .. Len(Rows(d))
    BY RowsTyped
  <1> QED
    BY <1>1 DEF Matching, MatchingIds, IdsOfRows

\* A lazy dataset is read through the plan.
LEMMA LazyQuery ==
    ASSUME NEW T, NEW d, IsTable(d, T), NEW req, NEW paged
    PROVE  query_batches_inner(AsLazy(d), req, paged)
             = SqlAnswer(d, df_plan(req, d.schema, paged))
  <1>1. ~CanFastPath(AsLazy(d), req, paged)
    BY LazyParts DEF CanFastPath
  <1>2. query_batches_inner(AsLazy(d), req, paged)
          = SqlAnswer(AsLazy(d), df_plan(req, AsLazy(d).schema, paged))
    BY <1>1 DEF query_batches_inner
  <1>3. AsLazy(d).schema = d.schema /\ Rows(AsLazy(d)) = Rows(d)
    BY LazyParts
  <1>4. \A p : SqlAnswer(AsLazy(d), p) = SqlAnswer(d, p)
    BY <1>3 DEF SqlAnswer
  <1> QED
    BY <1>2, <1>3, <1>4

\* The resident path answers as the plan does.
LEMMA FastQuery ==
    ASSUME NEW T, NEW d, IsTable(d, T), NEW req, IsScan(req), Regular(req),
           req.group_by = <<>>, NEW paged \in BOOLEAN
    PROVE  query_batches_inner(d, req, paged) = query_batches_inner(AsLazy(d), req, paged)
  <1> DEFINE s == d.schema
             rows == Rows(d)
             w == IF paged THEN [offset |-> Offset(req, MaxPageSize),
                                 limit |-> PageSize(req, MaxPageSize)]
                  ELSE Window(req, FALSE)
             v == Window(req, paged)
             total == Len(rows)
             start == Min({w.offset, total})
             ids == try_index(build_eq_index(d), req.predicates)
             sliced == slice_global(d, start, Min({w.limit, total - start}))
             taken == take_page(d, CHOOSE x \in ids : TRUE, w.offset, w.limit)
             fast == CanFastPath(d, req, paged)
             sql == SqlAnswer(d, df_plan(req, s, paged))
             M == Matching(rows, Where(req, s))
  <1>1. query_batches_inner(d, req, paged)
          = IF fast /\ req.predicates = <<>> THEN project(d, sliced, req.columns)
            ELSE IF fast /\ ids # {} THEN project(d, taken, req.columns)
            ELSE sql
    BY DEF query_batches_inner
  <1>2. query_batches_inner(AsLazy(d), req, paged) = sql
    BY LazyQuery
  <1>3. d.chunks \in Seq(Seq(T)) /\ rows \in Seq(T)
    BY RowsTyped DEF IsTable
  <1>4. fast => w.offset = v.offset /\ w.limit = v.limit
    <2>1. CASE paged
      <3>1. fast => req.limit = {}
        BY <2>1 DEF CanFastPath
      <3>2. w.offset = Offset(req, MaxPageSize) /\ w.limit = PageSize(req, MaxPageSize)
        BY <2>1
      <3> QED
        BY <2>1, <3>1, <3>2, WindowTyped
    <2>2. CASE ~paged
      <3>1. paged = FALSE
        BY <2>2
      <3> QED
        BY <3>1
    <2> QED
      BY <2>1, <2>2
  <1>5. v.offset \in Nat /\ v.limit \in Nat
    BY WindowTyped
  <1> HIDE DEF w, v
  <1>6. CASE fast /\ req.predicates = <<>>
    <2>1. w.offset \in Nat /\ w.limit \in Nat
      BY <1>4, <1>5, <1>6
    <2> DEFINE a == w.offset
               l == w.limit
    <2>2. PageIn(sliced, rows, a, l)
      <3>1. a \in Nat /\ l \in Nat
        BY <2>1
      <3> HIDE DEF a, l
      <3>2. LET st == Min({a, Len(Rows(d))})
            IN PageIn(slice_global(d, st, Min({l, Len(Rows(d)) - st})), Rows(d), a, l)
        BY <1>3, <3>1, SlicedPage
      <3> QED
        BY <3>2 DEF a, l
    <2>3. Picked(rows, M) = rows
      BY <1>3, <1>6, AllMatch
    <2>4. \A p \in Range(req.predicates) : find(s, p.col) # {} /\ pred_error("df", p) = "ok"
      BY <1>6 DEF Range
    <2>5. PageIn(sliced, Picked(rows, M), v.offset, v.limit)
      <3> HIDE DEF sliced, rows, M
      <3> QED
        BY <1>4, <1>6, <2>2, <2>3
    <2>6. project(d, sliced, req.columns) = sql
      <3> HIDE DEF sliced
      <3> QED
        BY <1>6, <2>4, <2>5, ProjectedAnswer DEF v
    <2> QED
      BY <1>1, <1>2, <1>6, <2>6
  <1>7. CASE fast /\ req.predicates # <<>> /\ ids # {}
    <2> DEFINE list == Ascending(MatchingIds(d, req))
    <2>1. /\ ids = {list}
          /\ \A p \in Range(req.predicates) : find(s, p.col) # {} /\ pred_error("df", p) = "ok"
      BY <1>7, IndexAnswers
    <2>2. taken = take_page(d, list, w.offset, w.limit)
      <3>1. (CHOOSE x \in {list} : TRUE) = list
        OBVIOUS
      <3> HIDE DEF list, ids
      <3> QED
        BY <2>1, <3>1
    <2>3. w.offset \in Nat /\ w.limit \in Nat
      BY <1>4, <1>5, <1>7
    <2>4. M \subseteq 1 .. Len(Rows(d)) /\ MatchingIds(d, req) = IdsOfRows(M, Len(Rows(d)))
      BY <1>3, MatchingRows
    <2> HIDE DEF M, taken
    <2>5. PageIn(taken, Picked(Rows(d), M), w.offset, w.limit)
      BY <1>3, <2>2, <2>3, <2>4, IndexedPage
    <2>6. PageIn(taken, Picked(Rows(d), M), v.offset, v.limit)
      BY <1>4, <1>7, <2>5
    <2>7. project(d, taken, req.columns) = sql
      BY <1>7, <2>1, <2>6, ProjectedAnswer DEF v, M
    <2> QED
      BY <1>1, <1>2, <1>7, <2>7 DEF taken
  <1> HIDE DEF fast, ids, sliced, taken, sql
  <1> QED
    BY <1>1, <1>2, <1>6, <1>7

\* The resident path counts as the plan does.
LEMMA FastCount ==
    ASSUME NEW T, NEW d, IsTable(d, T), NEW req, IsScan(req), Regular(req)
    PROVE  df_count(d, req) = df_count(AsLazy(d), req)
  <1> DEFINE s == d.schema
             rows == Rows(d)
             ids == try_index(build_eq_index(d), req.predicates)
             err == CountPlan(req, s)
             kept == Picked(rows, Matching(rows, Where(req, s)))
             sql == [err |-> err, n |-> IF err = "ok" THEN Len(kept) ELSE 0]
  <1>1. df_count(d, req)
          = IF ~d.lazy /\ req.predicates = <<>> THEN [err |-> "ok", n |-> Len(rows)]
            ELSE IF ~d.lazy /\ ids # {} THEN [err |-> "ok", n |-> Len(CHOOSE x \in ids : TRUE)]
            ELSE sql
    BY DEF df_count, SqlCount
  <1>2. df_count(AsLazy(d), req) = sql
    <2>1. AsLazy(d).schema = s /\ Rows(AsLazy(d)) = Rows(d) /\ AsLazy(d).lazy = TRUE
      BY LazyParts
    <2>2. df_count(AsLazy(d), req) = [err |-> CountPlan(req, AsLazy(d).schema),
                                      n |-> IF CountPlan(req, AsLazy(d).schema) = "ok"
                                            THEN SqlCount(AsLazy(d), req) ELSE 0]
      BY <2>1 DEF df_count
    <2>3. SqlCount(AsLazy(d), req) = Len(kept)
      BY <2>1 DEF SqlCount
    <2> QED
      BY <2>1, <2>2, <2>3
  <1>3. d.chunks \in Seq(Seq(T)) /\ rows \in Seq(T)
    BY RowsTyped DEF IsTable
  <1>4. DOMAIN req.predicates \subseteq Nat
    <2>1. req.predicates \in Seq(Range(req.predicates))
      BY DEF IsScan
    <2> QED
      BY <2>1
  <1>5. ASSUME \A p \in Range(req.predicates) : find(s, p.col) # {} /\ pred_error("df", p) = "ok"
        PROVE  err = "ok"
    BY <1>4, <1>5, WhereErrorsOk DEF CountPlan
  <1>6. CASE ~d.lazy /\ req.predicates = <<>>
    <2>1. kept = rows
      BY <1>3, <1>6, AllMatch
    <2>2. err = "ok"
      <3>1. \A p \in Range(req.predicates) : find(s, p.col) # {} /\ pred_error("df", p) = "ok"
        BY <1>6 DEF Range
      <3> QED
        BY <1>5, <3>1
    <2> HIDE DEF err, kept, rows, ids
    <2> QED
      BY <1>1, <1>2, <1>6, <2>1, <2>2
  <1>7. CASE ~d.lazy /\ req.predicates # <<>> /\ ids # {}
    <2> DEFINE list == Ascending(MatchingIds(d, req))
    <2>1. /\ ids = {list}
          /\ \A p \in Range(req.predicates) : find(s, p.col) # {} /\ pred_error("df", p) = "ok"
      BY <1>7, IndexAnswers
    <2>2. err = "ok"
      BY <1>5, <2>1
    <2> DEFINE M == Matching(rows, Where(req, s))
    <2>3. M \subseteq 1 .. Len(Rows(d)) /\ MatchingIds(d, req) = IdsOfRows(M, Len(Rows(d)))
      BY <1>3, MatchingRows
    <2>4. Len(list) = Len(kept)
      <3>1. kept = Picked(Rows(d), M)
        OBVIOUS
      <3>2. 0 \in Nat
        OBVIOUS
      <3> HIDE DEF M
      <3>3. Len(list) = Len(Picked(Rows(d), M))
        BY <1>3, <2>3, <3>2, IndexedPage
      <3> QED
        BY <3>1, <3>3
    <2>5. (CHOOSE x \in {list} : TRUE) = list
      OBVIOUS
    <2> HIDE DEF err, kept, rows, ids, list
    <2> QED
      BY <1>1, <1>2, <1>7, <2>1, <2>2, <2>4, <2>5
  <1> HIDE DEF ids, err, kept, rows, sql
  <1> QED
    BY <1>1, <1>2, <1>6, <1>7

\* Reading resident chunks, by slices or through the equality index, answers and
\* counts what the plan answers and counts over the same rows, for every
\* dataset whose columns differ by more than case and every request that
\* spells its values as the index does (query_batches_inner, Store::count).
THEOREM FastPathsAgree ==
    ASSUME NEW T, NEW d, IsTable(d, T), NEW req, IsScan(req)
    PROVE  FastPathAgrees(d, req)
  BY FastQuery, FastCount DEF FastPathAgrees


-----------------------------------------------------------------------------
(***************************************************************************)
(* Pages one after the other.                                              *)
(***************************************************************************)
\* A plan shows no more rows than there are.
LEMMA UncutList ==
    ASSUME NEW T, NEW rows \in Seq(T), NEW req, NEW s
    PROVE  IsList(Uncut(req, s, rows)) /\ Len(Uncut(req, s, rows)) <= Len(rows)
  <1> DEFINE kept == Picked(rows, Matching(rows, Where(req, s)))
             o == [key |-> TheColumn(s, req.order_by[1].col), dir |-> req.order_by[1].dir]
             sorted == IF req.order_by = <<>> THEN kept ELSE SortedBy(kept, o)
             shown == Projected(sorted, ShownColumns(req, s))
  <1>1. Uncut(req, s, rows) = IF req.distinct THEN Distinct(shown) ELSE shown
    BY DEF Uncut
  <1>2. kept \in Seq(T) /\ Len(kept) <= Len(rows) /\ Len(kept) \in Nat /\ Len(rows) \in Nat
    <2>1. PICK at \in Seq(Nat) : Picked(rows, Matching(rows, Where(req, s))) \in Seq(T)
                                 /\ Len(Picked(rows, Matching(rows, Where(req, s)))) = Len(at)
                                 /\ Len(at) <= Len(rows)
      BY PickedAt
    <2> QED
      BY <2>1
  <1> HIDE DEF kept, o
  <1>3. IsList(kept)
    BY <1>2, SeqIsList
  <1>4. IsList(SortedBy(kept, o)) /\ Len(SortedBy(kept, o)) = Len(kept)
    <2> DEFINE x == SortedBy(kept, o)
    <2>1. DOMAIN kept = 1 .. Len(kept)
      BY <1>2
    <2>2. x = [k \in 1 .. Len(kept) |-> x[k]]
      BY <2>1 DEF SortedBy
    <2> HIDE DEF x
    <2>3. IsList(x) /\ Len(x) = Len(kept)
      BY <1>2, <2>2, ListFrom
    <2> QED
      BY <2>3 DEF x
  <1>5. IsList(sorted) /\ Len(sorted) = Len(kept)
    BY <1>3, <1>4
  <1> HIDE DEF sorted
  <1>6. IsList(shown) /\ Len(shown) = Len(kept)
    BY <1>5, ProjectedList
  <1> HIDE DEF shown
  <1>7. IsList(Distinct(shown)) /\ Len(Distinct(shown)) <= Len(shown)
    <2> DEFINE U == Range(shown)
               S == {i \in DOMAIN shown : \A j \in 1 .. i - 1 : shown[j] # shown[i]}
    <2>1. Distinct(shown) = Picked(shown, S)
      BY DEF Distinct
    <2>2. shown \in Seq(U)
      BY <1>6 DEF IsList
    <2> HIDE DEF U, S
    <2>3. PICK at \in Seq(Nat) : Picked(shown, S) \in Seq(U) /\ Len(Picked(shown, S)) = Len(at)
                                 /\ Len(at) <= Len(shown)
      BY <2>2, PickedAt
    <2>4. IsList(Picked(shown, S))
      BY <2>3, SeqIsList
    <2> QED
      BY <2>1, <2>3, <2>4
  <1>8. CASE req.distinct
    BY <1>1, <1>2, <1>6, <1>7, <1>8
  <1>9. CASE ~req.distinct
    BY <1>1, <1>2, <1>6, <1>9
  <1> QED
    BY <1>8, <1>9

\* A page after the first ones.
LEMMA CountAdds ==
    ASSUME NEW n \in Nat, NEW a \in Nat, NEW b \in Nat
    PROVE  /\ Count(n, 0, a) \in Nat /\ Count(n, a, b) \in Nat
           /\ Count(n, 0, a + b) = Count(n, 0, a) + Count(n, a, b)
           /\ Count(n, a, b) # 0 => Count(n, 0, a) = a
           /\ Count(n, 0, a) <= n
  BY DEF Count

\* A page and the one after it.
LEMMA JoinPages ==
    ASSUME NEW s, IsList(s), NEW a \in Nat, NEW b \in Nat, NEW x, NEW y,
           PageIn(x, s, 0, a), PageIn(y, s, a, b)
    PROVE  PageIn(x \o y, s, 0, a + b)
  <1> DEFINE n == Len(s)
             k == Count(n, 0, a)
             j == Count(n, a, b)
             m == Count(n, 0, a + b)
             U == Range(x) \cup Range(y)
             z == x \o y
  <1>1. n \in Nat
    BY DEF IsList
  <1>2. k \in Nat /\ j \in Nat /\ m = k + j /\ (j # 0 => k = a)
    <2> HIDE DEF n
    <2> QED
      BY <1>1, CountAdds
  <1>3. /\ IsList(x) /\ Len(x) = k /\ \A i \in 1 .. k : x[i] = s[0 + i]
        /\ IsList(y) /\ Len(y) = j /\ \A i \in 1 .. j : y[i] = s[a + i]
    BY DEF PageIn
  <1> HIDE DEF k, j, m, n
  <1>4. x \in Seq(U) /\ y \in Seq(U)
    <2>1. x \in Seq(Range(x)) /\ y \in Seq(Range(y))
      BY <1>3 DEF IsList
    <2> QED
      BY <2>1
  <1> HIDE DEF U
  <1>5. /\ z \in Seq(U) /\ Len(z) = Len(x) + Len(y)
        /\ \A i \in 1 .. Len(x) + Len(y) : z[i] = IF i <= Len(x) THEN x[i] ELSE y[i - Len(x)]
    BY <1>4, ConcatProperties
  <1> HIDE DEF z
  <1>6. IsList(z) /\ Len(z) = m
    BY <1>2, <1>3, <1>5, SeqIsList
  <1>7. ASSUME NEW i \in 1 .. m PROVE z[i] = s[0 + i]
    <2>1. i \in 1 .. Len(x) + Len(y) /\ i \in Nat
      BY <1>2, <1>3
    <2>2. CASE i <= k
      <3>1. i \in 1 .. k /\ i <= Len(x)
        BY <1>2, <1>3, <2>1, <2>2
      <3> QED
        BY <1>3, <1>5, <2>1, <3>1
    <2>3. CASE i > k
      <3>1. i - k \in 1 .. j /\ ~ (i <= Len(x)) /\ j # 0
        BY <1>2, <1>3, <2>1, <2>3
      <3>2. a + (i - k) = 0 + i
        BY <1>2, <2>1, <3>1
      <3>3. z[i] = y[i - k]
        BY <1>3, <1>5, <2>1, <3>1
      <3>4. y[i - k] = s[a + (i - k)]
        BY <1>3, <3>1
      <3> QED
        BY <3>2, <3>3, <3>4
    <2> QED
      BY <1>2, <2>1, <2>2, <2>3
  <1>8. PageIn(z, s, 0, a + b)
    BY <1>6, <1>7 DEF PageIn, m, n
  <1> QED
    BY <1>8 DEF z

\* The whole list is its first page, if the page is long enough.
LEMMA WholePage ==
    ASSUME NEW s, IsList(s), NEW limit \in Nat, limit >= Len(s)
    PROVE  PageIn(s, s, 0, limit)
  <1>1. Len(s) \in Nat
    BY DEF IsList
  <1>2. Count(Len(s), 0, limit) = Len(s)
    BY <1>1 DEF Count
  <1>3. \A i \in 1 .. Len(s) : 0 + i = i
    BY <1>1
  <1> QED
    BY <1>2, <1>3 DEF PageIn

\* Offsets grow with the page.
LEMMA TimesGrow ==
    ASSUME NEW n \in Nat, NEW k \in Nat, k <= n, NEW size \in Nat \ {0}
    PROVE  /\ k * size \in Nat /\ n * size \in Nat /\ k * size <= n * size /\ n * size >= n
           /\ (k + 1) * size = k * size + size
  <1>1. /\ k * size \in Nat /\ n * size \in Nat /\ (n - k) * size \in Nat /\ n * (size - 1) \in Nat
        /\ n * size = k * size + (n - k) * size /\ n * size = n + n * (size - 1)
    OBVIOUS
  <1> QED
    BY <1>1

\* Enough pages are the whole list.
LEMMA PagesJoin ==
    ASSUME NEW s, IsList(s), NEW size \in Nat \ {0}, NEW n \in Nat, n >= Len(s), NEW pages,
           pages = [k \in 1 .. n |-> pages[k]],
           \A k \in 1 .. n : PageIn(pages[k], s, (k - 1) * size, size)
    PROVE  FlattenSeq(pages) = s
  <1> DEFINE U == Range(s)
  <1>1. Len(s) \in Nat /\ DOMAIN s = 1 .. Len(s) /\ s \in Seq(U)
    BY DEF IsList
  <1>2. ASSUME NEW k \in 1 .. n PROVE pages[k] \in Seq(U)
    <2> DEFINE x == pages[k]
               a == (k - 1) * size
               m == Count(Len(s), a, size)
    <2>1. a \in Nat
      <3>1. k - 1 \in Nat
        OBVIOUS
      <3> QED
        BY <3>1, TimesGrow
    <2>2. IsList(x) /\ Len(x) = m /\ \A i \in 1 .. m : x[i] = s[a + i]
      BY DEF PageIn
    <2> HIDE DEF x, a
    <2>3. m \in Nat /\ \A i \in 1 .. m : a + i \in 1 .. Len(s)
      BY <1>1, <2>1 DEF Count
    <2> HIDE DEF m
    <2>4. \A i \in 1 .. m : x[i] \in U
      BY <1>1, <2>2, <2>3 DEF Range
    <2>5. x = [i \in 1 .. m |-> x[i]]
      BY <2>2 DEF IsList
    <2> HIDE DEF U
    <2>6. x \in Seq(U)
      BY <2>3, <2>4, <2>5, ListOf
    <2> QED
      BY <2>6 DEF x
  <1> HIDE DEF U
  <1>3. pages \in Seq(Seq(U)) /\ Len(pages) = n
    <2> DEFINE V == Seq(U)
    <2>1. \A k \in 1 .. n : pages[k] \in V
      BY <1>2
    <2> HIDE DEF V
    <2>2. pages \in Seq(V) /\ Len(pages) = n
      BY <2>1, ListOf
    <2> QED
      BY <2>2 DEF V
  <1>4. PICK f : Joins(f, pages, U) /\ FlattenSeq(pages) = f[n]
    BY <1>3, FlattenSteps
  <1> DEFINE good == {k \in 0 .. n : PageIn(f[k], s, 0, k * size)}
  <1>5. 0 \in good
    <2>1. f[0] = <<>>
      BY <1>4 DEF Joins
    <2>2. IsList(<<>>) /\ Len(<<>>) = 0 /\ Count(Len(s), 0, 0) = 0 /\ 0 * size = 0
      BY <1>1 DEF IsList, Count
    <2>3. PageIn(<<>>, s, 0, 0)
      BY <2>2 DEF PageIn
    <2> QED
      BY <2>1, <2>2, <2>3
  <1>6. ASSUME NEW k \in 1 .. n, k - 1 \in good PROVE k \in good
    <2> DEFINE a == (k - 1) * size
    <2>1. k - 1 \in Nat /\ k \in 0 .. n
      OBVIOUS
    <2>2. a \in Nat /\ k * size = a + size
      <3>1. k - 1 <= k - 1 /\ (k - 1) + 1 = k
        BY <2>1
      <3>2. a \in Nat /\ ((k - 1) + 1) * size = a + size
        BY <2>1, <3>1, TimesGrow
      <3> QED
        BY <3>1, <3>2
    <2>3. f[k] = f[k - 1] \o pages[k]
      BY <1>3, <1>4 DEF Joins
    <2>4. PageIn(f[k - 1], s, 0, a) /\ PageIn(pages[k], s, a, size)
      BY <1>6
    <2> HIDE DEF a
    <2>5. PageIn(f[k - 1] \o pages[k], s, 0, a + size)
      BY <2>2, <2>4, JoinPages
    <2> QED
      BY <2>1, <2>2, <2>3, <2>5
  <1>7. n \in good
    <2>1. n \in 0 .. n
      OBVIOUS
    <2> HIDE DEF good
    <2> QED
      BY <1>5, <1>6, <2>1, UpToN
  <1>8. n * size \in Nat /\ n * size >= Len(s)
    <2>1. n <= n
      OBVIOUS
    <2>2. n * size \in Nat /\ n * size >= n
      BY <2>1, TimesGrow
    <2> DEFINE m == n * size
    <2> HIDE DEF m
    <2>3. m \in Nat /\ m >= n
      BY <2>2 DEF m
    <2>4. m >= Len(s)
      BY <1>1, <2>3
    <2> QED
      BY <2>3, <2>4 DEF m
  <1>9. PageIn(s, s, 0, n * size)
    BY <1>8, WholePage
  <1>10. PageIn(f[n], s, 0, n * size)
    BY <1>7
  <1> QED
    BY <1>4, <1>9, <1>10, PageUnique


\* What a page of size rows from off has of a list that limit cuts at cap.
LEMMA CapCounts ==
    ASSUME NEW n \in Nat, NEW off \in Nat, NEW size \in Nat, NEW cap \in Nat, NEW lim \in Nat,
           lim = IF off >= cap THEN 0 ELSE IF size <= cap - off THEN size ELSE cap - off
    PROVE  Count(n, off, lim) = Count(Count(n, 0, cap), off, size)
  <1>1. CASE off >= cap
    BY <1>1 DEF Count
  <1>2. CASE off < cap /\ cap <= n
    BY <1>2 DEF Count
  <1>3. CASE off < cap /\ cap > n
    BY <1>3 DEF Count
  <1> QED
    BY <1>1, <1>2, <1>3

\* A page of the rows that limit cuts.
LEMMA PageOfCut ==
    ASSUME NEW s, IsList(s), NEW all, NEW x, NEW off \in Nat, NEW size \in Nat, NEW cap \in Nat,
           NEW lim \in Nat, PageIn(all, s, 0, cap), PageIn(x, s, off, lim),
           \/ lim = IF off >= cap THEN 0 ELSE IF size <= cap - off THEN size ELSE cap - off
           \/ lim = size /\ cap >= Len(s)
    PROVE  PageIn(x, all, off, size)
  <1> DEFINE n == Len(s)
             k == Count(n, off, lim)
             m == Count(n, 0, cap)
  <1>1. n \in Nat
    BY DEF IsList
  <1>2. /\ IsList(x) /\ Len(x) = k /\ \A i \in 1 .. k : x[i] = s[off + i]
        /\ IsList(all) /\ Len(all) = m /\ \A i \in 1 .. m : all[i] = s[0 + i]
    BY DEF PageIn
  <1>3. k = Count(m, off, size)
    <2> HIDE DEF n
    <2>1. CASE lim = IF off >= cap THEN 0 ELSE IF size <= cap - off THEN size ELSE cap - off
      BY <1>1, <2>1, CapCounts
    <2>2. CASE lim = size /\ cap >= Len(s)
      <3>1. m = n
        BY <1>1, <2>2 DEF Count, n
      <3> QED
        BY <2>2, <3>1
    <2> QED
      BY <2>1, <2>2
  <1>4. m \in Nat
    <2> HIDE DEF n
    <2> QED
      BY <1>1 DEF Count
  <1> HIDE DEF m
  <1>5. k \in Nat /\ \A i \in 1 .. k : off + i \in 1 .. m /\ 0 + (off + i) = off + i
    <2> HIDE DEF k
    <2> QED
      BY <1>3, <1>4 DEF Count
  <1> HIDE DEF k, n
  <1>6. \A i \in 1 .. k : x[i] = all[off + i]
    <2>1. ASSUME NEW i \in 1 .. k PROVE x[i] = all[off + i]
      <3> DEFINE j == off + i
      <3>1. j \in 1 .. m /\ 0 + j = j /\ x[i] = s[j]
        BY <1>2, <1>5
      <3> HIDE DEF j
      <3>2. x[i] = all[j]
        BY <1>2, <3>1
      <3> QED
        BY <3>2 DEF j
    <2> QED
      BY <2>1
  <1> QED
    BY <1>2, <1>3, <1>6 DEF PageIn

\* The request for page k.
AtPage(req, k) == [req EXCEPT !.page = k]

\* Only the page differs.
LEMMA AtPageParts ==
    ASSUME NEW req, IsScan(req), NEW k
    PROVE  /\ AtPage(req, k).page = k
           /\ AtPage(req, k).columns = req.columns /\ AtPage(req, k).predicates = req.predicates
           /\ AtPage(req, k).group_by = req.group_by /\ AtPage(req, k).aggregations = req.aggregations
           /\ AtPage(req, k).having = req.having /\ AtPage(req, k).distinct = req.distinct
           /\ AtPage(req, k).order_by = req.order_by /\ AtPage(req, k).limit = req.limit
           /\ AtPage(req, k).page_size = req.page_size
           /\ DOMAIN AtPage(req, k) = DOMAIN req
  <1>1. {"columns", "predicates", "group_by", "aggregations", "having", "distinct",
         "order_by", "limit", "page", "page_size"} \subseteq DOMAIN req
    BY DEF IsScan
  <1> QED
    BY <1>1 DEF AtPage

\* Requests that differ in their page and their limit only.
SameQuery(r, req) ==
    /\ r.columns = req.columns /\ r.predicates = req.predicates /\ r.group_by = req.group_by
    /\ r.aggregations = req.aggregations /\ r.having = req.having /\ r.distinct = req.distinct
    /\ r.order_by = req.order_by

\* The error of the plan, whatever its window.
PlanError(req, s) ==
    LET e == FirstError(<<agg_plan_error(req, s)>>)
    IN IF e # "ok" THEN e
       ELSE FirstError(<<ColumnError(req, s), PredError("df", req, s), order_by_error(req, s)>>)

\* The page and limit matter to the window only.
LEMMA SamePlan ==
    ASSUME NEW r, NEW req, NEW s, NEW rows, SameQuery(r, req), req.group_by = <<>>
    PROVE  /\ PlanError(r, s) = PlanError(req, s)
           /\ Uncut(r, s, rows) = Uncut(req, s, rows)
  <1> USE DEF SameQuery
  <1>1. Where(r, s) = Where(req, s)
    BY Zenon DEF Where
  <1>2. ShownColumns(r, s) = ShownColumns(req, s)
    BY Zenon DEF ShownColumns
  <1>3. Uncut(r, s, rows) = Uncut(req, s, rows)
    BY <1>1, <1>2, Zenon DEF Uncut
  <1>4. agg_plan_error(r, s) = agg_plan_error(req, s)
    BY Zenon DEF agg_plan_error, Aggregations, Each
  <1>6. ColumnError(r, s) = ColumnError(req, s)
    BY Zenon DEF ColumnError, Each
  <1>7. having_error(r, s) = having_error(req, s)
    BY Zenon DEF having_error
  <1>8. WhereErrors("df", r, s) = WhereErrors("df", req, s)
    BY Zenon DEF WhereErrors, Each
  <1>9. PredError("df", r, s) = PredError("df", req, s)
    BY <1>7, <1>8, Zenon DEF PredError, Each
  <1>10. order_by_error(r, s) = order_by_error(req, s)
    <2> DEFINE Sort(o) == FirstError(<<IF o.dir \in {"asc", "desc"} THEN "ok"
                                       ELSE "InvalidValue", FindError(s, o.col)>>)
    <2>1. ASSUME NEW x, x.group_by = <<>>, x.order_by = req.order_by
          PROVE  order_by_error(x, s) = FirstError([i \in DOMAIN req.order_by |-> Sort(req.order_by[i])])
      BY <2>1 DEF order_by_error, Each
    <2> HIDE DEF Sort
    <2>2. order_by_error(r, s) = FirstError([i \in DOMAIN req.order_by |-> Sort(req.order_by[i])])
      BY <2>1
    <2>3. order_by_error(req, s) = FirstError([i \in DOMAIN req.order_by |-> Sort(req.order_by[i])])
      BY <2>1
    <2> QED
      BY <2>2, <2>3
  <1>11. PlanError(r, s) = PlanError(req, s)
    BY <1>4, <1>6, <1>9, <1>10, Zenon DEF PlanError
  <1> QED
    BY <1>3, <1>11

\* Where the window of a page that does not wrap starts, and how far it goes.
LEMMA PageWindow ==
    ASSUME NEW req, IsScan(req), NEW k \in Nat, k >= 1, k < Word,
           (k - 1) * PageSize(req, MaxPageSize) < Word
    PROVE  LET off == (k - 1) * PageSize(req, MaxPageSize)
               size == PageSize(req, MaxPageSize)
               top == CHOOSE l \in req.limit : TRUE
           IN /\ off \in Nat /\ size \in Nat \ {0}
              /\ IsScan(AtPage(req, k)) /\ ~Wraps(AtPage(req, k), MaxPageSize)
              /\ Window(AtPage(req, k), TRUE).offset = off
              /\ Window(AtPage(req, k), TRUE).limit \in Nat
              /\ req.limit = {} => Window(AtPage(req, k), TRUE).limit = size
              /\ req.limit # {} =>
                   /\ top \in Nat
                   /\ Window(AtPage(req, k), TRUE).limit
                        = IF off >= top THEN 0
                          ELSE IF size <= top - off THEN size ELSE top - off
  <1> DEFINE r == AtPage(req, k)
             size == PageSize(req, MaxPageSize)
             off == (k - 1) * size
             top == CHOOSE l \in req.limit : TRUE
             w == Window(r, TRUE)
  <1>1. /\ r.page = k /\ r.page_size = req.page_size /\ r.limit = req.limit
        /\ r.predicates = req.predicates /\ DOMAIN r = DOMAIN req
    BY AtPageParts
  <1> HIDE DEF r
  <1>2. IsScan(r)
    BY <1>1 DEF IsScan
  <1>3. size \in Nat \ {0}
    BY WindowTyped
  <1>4. off \in Nat
    <2>1. k - 1 \in Nat /\ k - 1 <= k - 1
      OBVIOUS
    <2> HIDE DEF size
    <2> QED
      BY <1>3, <2>1, TimesGrow
  <1>5. PageSize(r, MaxPageSize) = size /\ PageOf(r) = k
    <2>1. PageSize(r, MaxPageSize) = size
      BY <1>1 DEF PageSize
    <2>2. PageOf(r) = k
      BY <1>1, WordAssumption DEF PageOf, Clamp
    <2> QED
      BY <2>1, <2>2
  <1>6. Offset(r, MaxPageSize) = off /\ ~Wraps(r, MaxPageSize)
    <2>1. Offset(r, MaxPageSize) = off % Word
      BY <1>5 DEF Offset
    <2>2. off < Word
      OBVIOUS
    <2> HIDE DEF off
    <2>3. off % Word = off
      BY <1>4, <2>2, FitsWord
    <2>4. Wraps(r, MaxPageSize) <=> off >= Word
      BY <1>5 DEF Wraps, off
    <2> QED
      BY <1>4, <2>1, <2>2, <2>3, <2>4, WordAssumption
  <1>7. req.limit # {} => top \in Nat
    BY DEF IsScan
  <1> HIDE DEF off, size, top
  <1>8. /\ w.offset = off
        /\ w.limit = IF req.limit = {} THEN size
                     ELSE IF off >= top THEN 0 ELSE Min({size, top - off})
    BY <1>1, <1>5, <1>6 DEF Window, effective_limit_offset, top
  <1>9. ASSUME req.limit # {}, ~ (off >= top)
        PROVE  Min({size, top - off}) = IF size <= top - off THEN size ELSE top - off
    <2>1. top - off \in Nat
      BY <1>4, <1>7, <1>9
    <2> QED
      BY <1>3, <2>1, MinOf
  <1>10. w.limit \in Nat
    BY <1>2, WindowTyped
  <1> HIDE DEF w
  <1>11. req.limit = {} => w.limit = size
    BY <1>8
  <1>12. req.limit # {} => w.limit = IF off >= top THEN 0
                                     ELSE IF size <= top - off THEN size ELSE top - off
    BY <1>8, <1>9
  <1> QED
    BY <1>2, <1>3, <1>4, <1>6, <1>7, <1>8, <1>10, <1>11, <1>12 DEF w, r, off, size, top

\* Every page of a regular request is regular.
LEMMA RegularAtPage ==
    ASSUME NEW req, IsScan(req), Regular(req), NEW k, ~Wraps(AtPage(req, k), MaxPageSize)
    PROVE  Regular(AtPage(req, k))
  <1>1. /\ AtPage(req, k).predicates = req.predicates
        /\ AtPage(req, k).group_by = req.group_by /\ AtPage(req, k).aggregations = req.aggregations
        /\ AtPage(req, k).having = req.having
    BY AtPageParts
  <1> QED
    BY <1>1 DEF Regular

\* The answer is that of the plan.
LEMMA AnswerOfPlan ==
    ASSUME NEW T, NEW d, IsTable(d, T), NEW req, IsScan(req), Regular(req),
           req.group_by = <<>>, IsList(req.order_by), NEW paged \in BOOLEAN
    PROVE  LET a == query_batches_inner(d, req, paged)
               err == PlanError(req, d.schema)
           IN /\ a.err = err
              /\ a.rows = IF err # "ok" THEN <<>>
                          ELSE Cut(Uncut(req, d.schema, Rows(d)), Window(req, paged))
  <1> DEFINE a == query_batches_inner(d, req, paged)
             p == df_plan(req, d.schema, paged)
             err == PlanError(req, d.schema)
             rows == Cut(Uncut(req, d.schema, Rows(d)), Window(req, paged))
  <1>1. a = SqlAnswer(d, p)
    BY FastQuery, LazyQuery
  <1>2. SqlAnswer(d, p) = [err |-> err, rows |-> IF err # "ok" THEN <<>> ELSE rows]
    <2>1. p.err = err
      BY DEF df_plan, PlanError
    <2>2. SqlAnswer(d, p) = [err |-> p.err, rows |-> IF p.err # "ok" THEN <<>> ELSE rows]
      BY SqlRows
    <2> QED
      BY <2>1, <2>2, Zenon
  <1> HIDE DEF a, p, rows, err
  <1>3. a.err = err /\ a.rows = IF err # "ok" THEN <<>> ELSE rows
    BY <1>1, <1>2
  <1> QED
    BY <1>3 DEF a, p, rows, err

\* The pages of a request, one after the other, are its answer cut at limit: no
\* row is lost between two pages and none is served twice, on the resident path
\* and through the plan, as long as the offset of no page wraps
\* (query_batches_inner, effective_limit_offset).
THEOREM PagesTiled ==
    ASSUME NEW T, NEW d, IsTable(d, T), NEW req, IsScan(req), IsList(req.order_by)
    PROVE  PagesTile(d, req)
  <1> DEFINE size == PageSize(req, MaxPageSize)
             Page(k) == query_batches_inner(d, AtPage(req, k), TRUE)
             n == Len(Rows(d)) + 1
             all == query_batches_inner(d, req, FALSE)
  <1>1. SUFFICES ASSUME Regular(req), req.group_by = <<>>, (n - 1) * size < Word, n < Word
                 PROVE  /\ Page(1).err = all.err
                        /\ FlattenSeq([k \in 1 .. n |-> Page(k).rows]) = all.rows
    BY Zenon DEF PagesTile, AtPage
  <1> DEFINE s == d.schema
             rows == Rows(d)
             X == Uncut(req, s, rows)
             err == PlanError(req, s)
             cap == Window(req, FALSE).limit
             top == CHOOSE l \in req.limit : TRUE
  <1>2. rows \in Seq(T) /\ Len(rows) \in Nat /\ n \in Nat /\ n - 1 = Len(rows)
    BY RowsTyped DEF IsTable
  <1>3. IsList(X) /\ Len(X) <= Len(rows) /\ Len(X) \in Nat
    <2>1. IsList(X) /\ Len(X) <= Len(rows)
      BY <1>2, UncutList
    <2> HIDE DEF X
    <2> QED
      BY <2>1 DEF IsList
  <1>4. size \in Nat \ {0} /\ cap \in Nat /\ Window(req, FALSE).offset = 0
    <2>1. size \in Nat \ {0} /\ cap \in Nat
      BY WindowTyped
    <2>2. Window(req, FALSE).offset = 0
      BY DEF Window
    <2> QED
      BY <2>1, <2>2
  <1>5. /\ req.limit = {} => cap = Word - 1
        /\ req.limit # {} => cap = top
    BY DEF Window
  <1>6. all.err = err /\ all.rows = IF err # "ok" THEN <<>> ELSE Cut(X, Window(req, FALSE))
    BY <1>1, AnswerOfPlan
  <1> DEFINE Y == IF err # "ok" THEN <<>> ELSE X
  <1>7. IsList(Y) /\ Len(Y) <= Len(rows) /\ Len(Y) \in Nat
    <2>1. IsList(<<>>) /\ Len(<<>>) = 0
      BY DEF IsList
    <2> HIDE DEF X, rows, err
    <2>2. CASE err = "ok"
      BY <1>3, <2>2
    <2>3. CASE err # "ok"
      <3>1. Y = <<>>
        BY <2>3
      <3>2. 0 <= Len(rows)
        BY <1>2
      <3> QED
        BY <2>1, <3>1, <3>2
    <2> QED
      BY <2>2, <2>3
  <1>8. \A w : w.offset \in Nat /\ w.limit \in Nat => Cut(<<>>, w) = <<>>
    <2>1. IsList(<<>>) /\ Len(<<>>) = 0
      BY DEF IsList
    <2>2. ASSUME NEW w, w.offset \in Nat, w.limit \in Nat PROVE Cut(<<>>, w) = <<>>
      <3>1. PageIn(Cut(<<>>, w), <<>>, w.offset, w.limit)
        BY <2>1, <2>2, CutIsPage
      <3>2. Count(Len(<<>>), w.offset, w.limit) = 0
        BY <2>1, <2>2 DEF Count
      <3>3. IsList(Cut(<<>>, w)) /\ Len(Cut(<<>>, w)) = 0
        BY <3>1, <3>2 DEF PageIn
      <3>4. \A i \in 1 .. 0 : Cut(<<>>, w)[i] = <<>>[i]
        OBVIOUS
      <3> QED
        BY <2>1, <3>3, <3>4, ListEqual
    <2> QED
      BY <2>2
  <1>9. all.rows = Cut(Y, Window(req, FALSE))
    <2> DEFINE v == Window(req, FALSE)
    <2>1. v.offset \in Nat /\ v.limit \in Nat
      <3>1. v.offset = 0 /\ v.limit \in Nat
        BY <1>4, Zenon
      <3> HIDE DEF v
      <3> QED
        BY <3>1
    <2>2. all.err = err /\ all.rows = IF err # "ok" THEN <<>> ELSE Cut(X, v)
      BY <1>6
    <2> HIDE DEF all, X, err, v
    <2>3. Cut(<<>>, v) = <<>>
      BY <1>8, <2>1
    <2>4. CASE err = "ok"
      <3>1. Y = X
        BY <2>4
      <3> QED
        BY <2>2, <2>4, <3>1 DEF v
    <2>5. CASE err # "ok"
      <3>1. Y = <<>>
        BY <2>5
      <3> QED
        BY <2>2, <2>3, <2>5, <3>1 DEF v
    <2> QED
      BY <2>4, <2>5
  <1>10. ASSUME NEW k \in 1 .. n
         PROVE  /\ (k - 1) * size \in Nat
                /\ Page(k).err = err
                /\ PageIn(Page(k).rows, all.rows, (k - 1) * size, size)
    <2> DEFINE r == AtPage(req, k)
               off == (k - 1) * size
               w == Window(r, TRUE)
    <2>1. k \in Nat /\ k >= 1 /\ k < Word /\ k - 1 \in Nat /\ n - 1 \in Nat /\ k - 1 <= n - 1
      <3> HIDE DEF n
      <3> QED
        BY <1>1, <1>2, WordAssumption
    <2>2. off < Word /\ off \in Nat
      <3> HIDE DEF n, size
      <3>1. (k - 1) * size \in Nat /\ (n - 1) * size \in Nat /\ (k - 1) * size <= (n - 1) * size
        BY <1>4, <2>1, TimesGrow
      <3> DEFINE x == (k - 1) * size
                 y == (n - 1) * size
      <3>2. x \in Nat /\ y \in Nat /\ x <= y /\ y < Word
        BY <1>1, <3>1
      <3> HIDE DEF x, y
      <3>3. x < Word
        BY <3>2, WordAssumption
      <3> QED
        BY <3>2, <3>3 DEF x
    <2>3. /\ IsScan(r) /\ ~Wraps(r, MaxPageSize)
          /\ w.offset = off /\ w.limit \in Nat
          /\ req.limit = {} => w.limit = size
          /\ req.limit # {} => w.limit = IF off >= top THEN 0
                                         ELSE IF size <= top - off THEN size ELSE top - off
      BY <2>1, <2>2, PageWindow
    <2>4. Regular(r)
      BY <1>1, <2>3, RegularAtPage
    <2>5. /\ r.group_by = <<>> /\ IsList(r.order_by)
          /\ PlanError(r, s) = err /\ Uncut(r, s, rows) = X
      <3>1. /\ r.columns = req.columns /\ r.predicates = req.predicates
            /\ r.group_by = req.group_by /\ r.aggregations = req.aggregations
            /\ r.having = req.having /\ r.distinct = req.distinct /\ r.order_by = req.order_by
        BY AtPageParts
      <3> HIDE DEF r
      <3>2. PlanError(r, s) = PlanError(req, s) /\ Uncut(r, s, rows) = Uncut(req, s, rows)
        <4> HIDE DEF s, rows
        <4>1. req.group_by = <<>> /\ SameQuery(r, req)
          BY <1>1, <3>1 DEF SameQuery
        <4> QED
          BY <4>1, SamePlan
      <3>3. r.group_by = <<>> /\ IsList(r.order_by)
        BY <1>1, <3>1
      <3> QED
        BY <3>2, <3>3
    <2> HIDE DEF r
    <2>6. Page(k).err = err /\ Page(k).rows = IF err # "ok" THEN <<>> ELSE Cut(X, w)
      <3>1. LET a == query_batches_inner(d, r, TRUE)
                e == PlanError(r, s)
            IN /\ a.err = e
               /\ a.rows = IF e # "ok" THEN <<>> ELSE Cut(Uncut(r, s, rows), Window(r, TRUE))
        BY <2>3, <2>4, <2>5, AnswerOfPlan
      <3> QED
        BY <2>5, <3>1 DEF r
    <2> HIDE DEF w, off
    <2>7. Page(k).rows = Cut(Y, w)
      <3> HIDE DEF X, err, Page
      <3> QED
        BY <1>8, <2>2, <2>3, <2>6
    <2>8. PageIn(Page(k).rows, Y, off, w.limit)
      <3> HIDE DEF Y, Page
      <3>1. PageIn(Cut(Y, w), Y, w.offset, w.limit)
        BY <1>7, <2>2, <2>3, CutIsPage
      <3> QED
        BY <2>3, <2>7, <3>1
    <2>9. PageIn(all.rows, Y, 0, cap)
      <3> DEFINE v == Window(req, FALSE)
      <3>1. v.offset = 0 /\ v.limit = cap /\ v.offset \in Nat /\ v.limit \in Nat
        <4>1. v.offset = 0 /\ v.limit = cap /\ cap \in Nat
          BY <1>4, Zenon
        <4> HIDE DEF v, cap
        <4> QED
          BY <4>1
      <3> HIDE DEF Y, v, cap, all
      <3>2. PageIn(Cut(Y, v), Y, v.offset, v.limit)
        BY <1>7, <3>1, CutIsPage
      <3> QED
        BY <1>9, <3>1, <3>2 DEF v
    <2>10. \/ w.limit = IF off >= cap THEN 0 ELSE IF size <= cap - off THEN size ELSE cap - off
           \/ w.limit = size /\ cap >= Len(Y)
      <3>1. CASE req.limit = {}
        <4>1. cap = Word - 1 /\ w.limit = size
          BY <1>5, <2>3, <3>1
        <4>2. cap >= Len(Y)
          <5> HIDE DEF Y, cap, rows
          <5> QED
            BY <1>1, <1>2, <1>7, <4>1, WordAssumption
        <4> QED
          BY <4>1, <4>2
      <3>2. CASE req.limit # {}
        BY <1>5, <2>3, <3>2
      <3> QED
        BY <3>1, <3>2
    <2> HIDE DEF Y, cap, size, all, Page
    <2>11. PageIn(Page(k).rows, all.rows, off, size)
      BY <1>4, <1>7, <2>2, <2>3, <2>8, <2>9, <2>10, PageOfCut
    <2> QED
      BY <2>2, <2>6, <2>11 DEF off, Page
  <1>11. Page(1).err = all.err
    <2>1. 1 \in 1 .. n
      BY <1>2
    <2> HIDE DEF Page, all, err
    <2> QED
      BY <1>6, <1>10, <2>1
  <1>12. FlattenSeq([k \in 1 .. n |-> Page(k).rows]) = all.rows
    <2> DEFINE pages == [k \in 1 .. n |-> Page(k).rows]
               out == all.rows
    <2> HIDE DEF Page, all
    <2>1. /\ pages = [k \in 1 .. n |-> pages[k]]
          /\ \A k \in 1 .. n : PageIn(pages[k], out, (k - 1) * size, size)
      BY <1>10
    <2>2. IsList(out) /\ n >= Len(out)
      <3> DEFINE v == Window(req, FALSE)
      <3>1. v.offset = 0 /\ v.limit \in Nat /\ v.offset \in Nat
        <4>1. v.offset = 0 /\ v.limit \in Nat
          BY <1>4, Zenon
        <4> HIDE DEF v
        <4> QED
          BY <4>1
      <3> HIDE DEF Y, v
      <3>2. PageIn(Cut(Y, v), Y, v.offset, v.limit)
        BY <1>7, <3>1, CutIsPage
      <3>3. IsList(out) /\ Len(out) = Count(Len(Y), v.offset, v.limit)
        BY <1>9, <3>2 DEF PageIn, v
      <3>4. Len(out) <= Len(Y) /\ Len(out) \in Nat
        BY <1>7, <3>1, <3>3 DEF Count
      <3> HIDE DEF out, rows
      <3> QED
        BY <1>2, <1>7, <3>3, <3>4
    <2> HIDE DEF pages, out, size, n
    <2>3. FlattenSeq(pages) = out
      BY <1>2, <1>4, <2>1, <2>2, PagesJoin
    <2> QED
      BY <2>3 DEF pages, out
  <1> QED
    BY <1>11, <1>12


-----------------------------------------------------------------------------
(***************************************************************************)
(* The inputs of QueryAnswers.                                             *)
(***************************************************************************)
\* A predicate over values the index can spell.
Spelled(p) == \A l \in Range(p.lits) : l.v \in DOMAIN Spelling

\* The predicates of the inputs.
LEMMA PredsSpelled ==
    ASSUME NEW p \in Preds
    PROVE  Spelled(p)
  <1> DEFINE Good(lits) == \A l \in Range(lits) : l.v \in DOMAIN Spelling
  <1>1. \A c, op, kind, lits : P(c, op, kind, lits).lits = lits
    BY DEF P
  <1>2. Lit(1).v \in DOMAIN Spelling /\ Lit(2).v \in DOMAIN Spelling /\ Lit(-1).v \in DOMAIN Spelling
    BY SpelledAssumption DEF Lit
  <1>3. Good(<<>>)
    BY DEF Range
  <1>4. \A x : x.v \in DOMAIN Spelling => Good(<<x>>)
    BY DEF Range
  <1>5. \A x, y : x.v \in DOMAIN Spelling /\ y.v \in DOMAIN Spelling => Good(<<x, y>>)
    BY DEF Range
  <1>6. [v |-> 1, key |-> "1.0"].v \in DOMAIN Spelling
    BY SpelledAssumption
  <1> HIDE DEF Good
  <1>7. /\ Good(<<Lit(1)>>) /\ Good(<<Lit(2)>>) /\ Good(<<Lit(-1)>>) /\ Good(<<Lit(2), Lit(1)>>)
        /\ Good(<<[v |-> 1, key |-> "1.0"]>>)
    BY <1>2, <1>4, <1>5, <1>6
  <1>8. \A c, op, kind, lits : Good(lits) => Spelled(P(c, op, kind, lits))
    BY <1>1 DEF Spelled, Good
  <1> QED
    BY <1>3, <1>7, <1>8, Zenon DEF Preds

\* Their lists.
LEMMA PredSeqsSpelled ==
    ASSUME NEW s \in PredSeqs
    PROVE  s \in Seq(Range(s)) /\ \A p \in Range(s) : Spelled(p)
  <1> DEFINE q == P("A", "eq", "one", <<Lit(1)>>)
  <1>1. q \in Preds
    BY DEF Preds
  <1> HIDE DEF q
  <1>2. \/ s = <<>> \/ \E p \in Preds : s = <<p>>
        \/ \E p \in Preds : s = <<q, p>>
    BY Zenon DEF PredSeqs, q
  <1>3. CASE s = <<>>
    BY <1>3 DEF Range
  <1>4. CASE \E p \in Preds : s = <<p>>
    BY <1>4, PredsSpelled DEF Range
  <1>5. CASE \E p \in Preds : s = <<q, p>>
    <2>1. PICK p \in Preds : s = <<q, p>>
      BY <1>5
    <2>2. Spelled(q) /\ Spelled(p)
      BY <1>1, PredsSpelled
    <2>3. Range(s) = {q, p} /\ s \in Seq({q, p})
      BY <2>1 DEF Range
    <2> QED
      BY <2>2, <2>3
  <1> QED
    BY <1>2, <1>3, <1>4, <1>5

\* The requests of the scans are requests the theorems speak of.
LEMMA ScansAreScans ==
    ASSUME NEW r \in ScanReqs
    PROVE  IsScan(r) /\ IsList(r.order_by) /\ DOMAIN r.predicates \subseteq Nat
           /\ DOMAIN r.having \subseteq Nat
  <1>1. PICK c \in {<<>>, <<"A">>, <<"x">>}, p \in PredSeqs,
             o \in Arrangements,
             l \in {{}, {1}, {3}}, k \in {0, 2, (Word \div 2) + 1}, n \in {2, 9} :
               r = Scanned(c, p, o, l, k, n)
    BY DEF ScanReqs
  <1>2. /\ r.predicates = p /\ r.having = <<>> /\ r.order_by = o[2] /\ r.limit = l
        /\ r.page = k /\ r.page_size = n
        /\ {"columns", "predicates", "group_by", "aggregations", "having", "distinct",
            "order_by", "limit", "page", "page_size"} \subseteq DOMAIN r
    BY <1>1 DEF Scanned
  <1>3. p \in Seq(Range(p)) /\ \A x \in Range(p) : Spelled(x)
    BY PredSeqsSpelled
  <1>4. k \in Nat /\ n \in Nat
    <2>1. Word \div 2 \in Nat
      BY WordAssumption
    <2> QED
      BY <2>1
  <1>5. l = {} \/ \E x \in Nat : l = {x}
    OBVIOUS
  <1>6. IsList(o[2])
    <2>1. IsList(<<>>) /\ IsList(Desc)
      <3>1. <<>> \in Seq({}) /\ \A x : <<x>> \in Seq({x})
        OBVIOUS
      <3>2. \E x : Desc = <<x>>
        BY DEF Desc
      <3> QED
        BY <3>1, <3>2, SeqIsList
    <2>2. ASSUME NEW x, NEW y, o = <<x, y>> PROVE o[2] = y
      BY <2>2
    <2>3. o = <<FALSE, <<>>>> \/ o = <<TRUE, <<>>>> \/ o = <<FALSE, Desc>>
      BY Zenon DEF Arrangements
    <2>4. o[2] = <<>> \/ o[2] = Desc
      BY <2>2, <2>3, Zenon
    <2> QED
      BY <2>1, <2>4
  <1>7. IsScan(r)
    BY <1>2, <1>3, <1>4, <1>5, Zenon DEF IsScan, Spelled
  <1>8. DOMAIN p \subseteq Nat /\ DOMAIN <<>> \subseteq Nat
    BY <1>3
  <1> QED
    BY <1>2, <1>6, <1>7, <1>8

\* The datasets of the scans are tables.
LEMMA ScansAreTables ==
    ASSUME NEW f, NEW g, NEW c \in Chunkings, NEW p
    PROVE  IsTable(Dataset(Schema2(f, g), c, p), {R(x, y) : x \in {1, 2}, y \in {-1, 1, 2}})
  <1> DEFINE d == Dataset(Schema2(f, g), c, p)
             T == {R(x, y) : x \in {1, 2}, y \in {-1, 1, 2}}
  <1>1. /\ d.schema.columns = <<"a", "B">> /\ d.chunks = c /\ d.indexable = {"a", "B"}
        /\ {"schema", "chunks", "lazy", "index", "indexable"} \subseteq DOMAIN d
    BY DEF Dataset, Schema2
  <1>2. Range(<<"a", "B">>) = {"a", "B"}
    BY DEF Range
  <1>3. \A x, y \in {"a", "B"} : Lower[x] = Lower[y] => x = y
    BY LowerAssumption
  <1>4. \A r \in T, x \in {"a", "B"} : r[x] \in DOMAIN Spelling
    BY SpelledAssumption DEF R
  <1>5. c \in Seq(Seq(T))
    <2>1. R(1, 2) \in T /\ R(2, -1) \in T /\ R(1, -1) \in T /\ R(1, 1) \in T /\ R(2, 2) \in T
      OBVIOUS
    <2> HIDE DEF T
    <2>2. <<R(1, 2), R(2, -1)>> \in Seq(T) /\ <<>> \in Seq(T)
          /\ <<R(1, -1), R(1, 1), R(2, 2)>> \in Seq(T)
      BY <2>1
    <2>3. \A x, y, z \in Seq(T) : <<x, y, z>> \in Seq(Seq(T))
      OBVIOUS
    <2>4. <<>> \in Seq(Seq(T))
      OBVIOUS
    <2> QED
      BY <2>2, <2>3, <2>4 DEF Chunkings
  <1> HIDE DEF d, T
  <1>6. IsTable(d, T)
    BY <1>1, <1>2, <1>3, <1>4, <1>5 DEF IsTable
  <1> QED
    BY <1>6 DEF d, T

\* The predicates of the grouped inputs are lists.
LEMMA GroupsNumbered ==
    ASSUME NEW r \in GroupReqs
    PROVE  DOMAIN r.predicates \subseteq Nat /\ DOMAIN r.having \subseteq Nat
  <1>1. PICK c \in {<<>>, <<"A">>, <<"b">>}, g \in {<<>>, <<"A">>, <<"b">>, <<"x">>},
             a \in Aggs, h \in Havings, o \in Orders, d \in BOOLEAN,
             p \in {<<>>, <<P("b", "is_null", "none", <<>>)>>} :
             r = Grouped(c, g, a, h, o, d, p)
    BY DEF GroupReqs
  <1>2. r.predicates = p /\ r.having = h
    BY <1>1 DEF Grouped, Req
  <1>3. DOMAIN p \subseteq Nat
    OBVIOUS
  <1>4. DOMAIN h \subseteq Nat
    <2>1. h = <<>> \/ \E x : h = <<x>>
      BY Zenon DEF Havings
    <2> QED
      BY <2>1
  <1> QED
    BY <1>2, <1>3, <1>4

\* The inputs QueryAnswers judges.
QueryInput ==
    /\ Is("scan") => /\ \E T : IsTable(input.val[1], T)
                     /\ IsScan(input.val[2]) /\ IsList(input.val[2].order_by)
                     /\ DOMAIN input.val[2].predicates \subseteq Nat
                     /\ DOMAIN input.val[2].having \subseteq Nat
    /\ Is("group") => /\ DOMAIN input.val[2].predicates \subseteq Nat
                      /\ DOMAIN input.val[2].having \subseteq Nat

\* The next input comes after a start, and is one QueryAnswers can judge.
LEMMA NextQueryInput ==
    ASSUME QueryInput, [Next]_input
    PROVE  QueryInput'
  <1>1. CASE UNCHANGED input
    BY <1>1 DEF QueryInput, Is
  <1>2. CASE PickGroup
    <2>1. PICK f \in Filters, g \in Filters, r \in GroupReqs :
             input' = Pair("group", <<Dataset(Schema2(f, g), <<>>, Unindexed), r>>)
      BY <1>2, Zenon DEF PickGroup
    <2>2. input'.kind = "group" /\ input'.val[2] = r
      BY <2>1 DEF Pair
    <2> QED
      BY <2>2, GroupsNumbered DEF QueryInput, Is
  <1>3. CASE PickScan
    <2>1. PICK c \in Chunkings, p \in Policies, r \in ScanReqs :
             input' = Pair("scan", <<Dataset(Schema2(NoFilter, NoFilter), c, p), r>>)
      BY <1>3, Zenon DEF PickScan
    <2> DEFINE d == Dataset(Schema2(NoFilter, NoFilter), c, p)
    <2>2. \E T : IsTable(d, T)
      <3> DEFINE T == {R(x, y) : x \in {1, 2}, y \in {-1, 1, 2}}
      <3>1. IsTable(d, T)
        BY ScansAreTables
      <3> HIDE DEF d, T
      <3> QED
        BY <3>1
    <2> HIDE DEF d
    <2>3. input'.kind = "scan" /\ input'.val[1] = d /\ input'.val[2] = r
      BY <2>1 DEF Pair, d
    <2>4. /\ IsScan(r) /\ IsList(r.order_by) /\ DOMAIN r.predicates \subseteq Nat
          /\ DOMAIN r.having \subseteq Nat
      BY ScansAreScans
    <2> QED
      BY <2>2, <2>3, <2>4 DEF QueryInput, Is
  <1>4. ASSUME NEW k, k # "group", k # "scan", \E v : input' = Pair(k, v)
        PROVE  QueryInput'
    <2>1. input'.kind = k
      BY <1>4 DEF Pair
    <2> QED
      BY <1>4, <2>1 DEF QueryInput, Is
  <1>5. CASE PickSql
    BY <1>4, <1>5 DEF PickSql
  <1>6. CASE PickRange
    BY <1>4, <1>6 DEF PickRange
  <1>7. CASE PickDuration
    BY <1>4, <1>7 DEF PickDuration
  <1>8. CASE PickTime
    BY <1>4, <1>8 DEF PickTime
  <1>9. CASE PickStart
    BY <1>4, <1>9 DEF PickStart
  <1>10. CASE PickFiles
    BY <1>4, <1>10 DEF PickFiles
  <1>11. CASE PickDelta
    BY <1>4, <1>11 DEF PickDelta
  <1>12. CASE PickBuild
    BY <1>4, <1>12, ZenonT(40) DEF PickBuild
  <1>13. CASE PickS3
    BY <1>4, <1>13 DEF PickS3
  <1>14. CASE PickEndpoint
    BY <1>4, <1>14 DEF PickEndpoint
  <1>15. CASE PickCell
    BY <1>4, <1>15 DEF PickCell
  <1> QED
    BY <1>1, <1>2, <1>3, <1>5, <1>6, <1>7, <1>8, <1>9, <1>10, <1>11, <1>12, <1>13, <1>14, <1>15
    DEF Next

\* On every input the resident path answers what the plan answers, pages tile
\* the answer, and both backends make the same plan (query_batches_inner,
\* slice_global, try_index, take_page, DatasetRepository::query).
THEOREM QueriesAnswer == Spec => []QueryAnswers
  <1>1. Init => QueryInput
    <2> SUFFICES ASSUME Init PROVE QueryInput
      OBVIOUS
    <2>1. input.kind = "start"
      BY DEF Init, Pair
    <2> QED
      BY <2>1 DEF QueryInput, Is
  <1>2. QueryInput /\ [Next]_input => QueryInput'
    BY NextQueryInput
  <1>3. QueryInput => QueryAnswers
    <2> SUFFICES ASSUME QueryInput PROVE QueryAnswers
      OBVIOUS
    <2>1. ASSUME Is("scan")
          PROVE  /\ FastPathAgrees(input.val[1], input.val[2])
                 /\ PagesTile(input.val[1], input.val[2])
                 /\ BackendsAgree(input.val[1], input.val[2])
      <3> DEFINE d == input.val[1]
                 r == input.val[2]
      <3>1. PICK T : IsTable(d, T)
        BY <2>1 DEF QueryInput
      <3>2. /\ IsScan(r) /\ IsList(r.order_by) /\ DOMAIN r.predicates \subseteq Nat
            /\ DOMAIN r.having \subseteq Nat
        BY <2>1 DEF QueryInput
      <3> HIDE DEF d, r
      <3>3. FastPathAgrees(d, r)
        BY <3>1, <3>2, FastPathsAgree
      <3>4. PagesTile(d, r)
        BY <3>1, <3>2, PagesTiled
      <3>5. BackendsAgree(d, r)
        BY <3>2, BackendsPlanAlike
      <3> QED
        BY <3>3, <3>4, <3>5 DEF d, r
    <2>2. Is("group") => BackendsAgree(input.val[1], input.val[2])
      <3> DEFINE d == input.val[1]
                 r == input.val[2]
      <3> SUFFICES ASSUME Is("group") PROVE BackendsAgree(d, r)
        OBVIOUS
      <3>1. DOMAIN r.predicates \subseteq Nat /\ DOMAIN r.having \subseteq Nat
        BY DEF QueryInput
      <3> HIDE DEF d, r
      <3> QED
        BY <3>1, BackendsPlanAlike
    <2> QED
      BY <2>1, <2>2 DEF QueryAnswers
  <1> QED
    BY <1>1, <1>2, <1>3, PTL DEF Spec

-----------------------------------------------------------------------------
\* The datasets PickStart makes.
LEMMA BootConfig ==
    ASSUME NEW p \in DepSeqs, NEW q \in DepSeqs, NEW r \in DepSeqs, NEW o
    PROVE  \E D, T : IsConfig(D, T, <<Ds("a", p, o), Ds("b", q, "eager"), Ds("c", r, "eager")>>)
  <1> DEFINE x == Ds("a", p, o)
             y == Ds("b", q, "eager")
             z == Ds("c", r, "eager")
             ds == <<x, y, z>>
             T == {"a", "A", "b", "c"}
             D == {x, y, z}
             Fits(d) == /\ d.name \in T /\ d.depends_on \in Seq(T)
                        /\ is_query(d) \/ d.depends_on = <<>>
                        /\ d.sql = {Lower[v] : v \in Range(d.depends_on)}
  <1>1. \A deps \in DepSeqs : deps \in Seq(T)
    <2>1. ASSUME NEW v \in T, NEW w \in T PROVE <<v>> \in Seq(T) /\ <<v, w>> \in Seq(T)
      <3> HIDE DEF T
      <3> QED
        OBVIOUS
    <2>2. <<>> \in Seq(T)
      <3> HIDE DEF T
      <3> QED
        OBVIOUS
    <2>3. "a" \in T /\ "A" \in T /\ "b" \in T /\ "c" \in T
      OBVIOUS
    <2> HIDE DEF T
    <2>4. /\ <<"a">> \in Seq(T) /\ <<"A">> \in Seq(T) /\ <<"b">> \in Seq(T) /\ <<"c">> \in Seq(T)
          /\ <<"a", "b">> \in Seq(T) /\ <<"c", "a">> \in Seq(T) /\ <<"b", "c">> \in Seq(T)
      BY <2>1, <2>3, Zenon
    <2> QED
      BY <2>2, <2>4, Zenon DEF DepSeqs
  <1>2. ASSUME NEW n \in T, NEW deps \in DepSeqs, NEW e PROVE Fits(Ds(n, deps, e))
    <2> DEFINE d == Ds(n, deps, e)
    <2>1. /\ d.name = n /\ d.depends_on = deps /\ d.sql = {Lower[v] : v \in Range(deps)}
          /\ d.kind = IF deps = <<>> THEN "parquet" ELSE "query"
      BY DEF Ds
    <2> HIDE DEF d, T
    <2> QED
      BY <1>1, <1>2, <2>1 DEF is_query, d
  <1>3. Fits(x) /\ Fits(y) /\ Fits(z)
    <2>1. "a" \in T /\ "b" \in T /\ "c" \in T
      OBVIOUS
    <2> HIDE DEF Fits, T
    <2> QED
      BY <1>2, <2>1
  <1>4. x.name = "a" /\ y.name = "b" /\ z.name = "c"
    BY DEF Ds
  <1> HIDE DEF x, y, z, Fits, T
  <1>5. /\ ds \in Seq(D) /\ ds # <<>> /\ DOMAIN ds = {1, 2, 3}
        /\ ds[1] = x /\ ds[2] = y /\ ds[3] = z
    BY SMT
  <1> HIDE DEF ds, D
  <1>6. \A i \in DOMAIN ds : Fits(ds[i])
    BY <1>3, <1>5
  <1>7. \A i, j \in DOMAIN ds : Lower[ds[i].name] = Lower[ds[j].name] => i = j
    BY <1>4, <1>5, LowerAssumption
  <1>8. IsConfig(D, T, ds)
    BY <1>5, <1>6, <1>7 DEF IsConfig, Fits
  <1>9. \E D1, T1 : IsConfig(D1, T1, ds)
    BY <1>8
  <1> QED
    BY <1>9 DEF ds, x, y, z

\* The inputs StartupSound judges.
BootInput == Is("boot") => \E D, T : IsConfig(D, T, input.val[1])

\* The next input comes after a start, and is one StartupSound can judge.
LEMMA NextBootInput ==
    ASSUME BootInput, [Next]_input
    PROVE  BootInput'
  <1>1. CASE UNCHANGED input
    BY <1>1 DEF BootInput, Is
  <1>2. CASE PickStart
    <2>1. PICK p \in DepSeqs, q \in DepSeqs, r \in DepSeqs,
               f \in [1 .. 3 -> {"ok", "norows", "nofiles", "error"}],
               early \in {{}, {1, 2}, {3}}, o \in {"eager", "lazy"} :
             input' = Pair("boot", <<<<Ds("a", p, o), Ds("b", q, "eager"), Ds("c", r, "eager")>>,
                                     f, early>>)
      BY <1>2, ZenonT(40) DEF PickStart
    <2> DEFINE ds == <<Ds("a", p, o), Ds("b", q, "eager"), Ds("c", r, "eager")>>
    <2>2. \E D, T : IsConfig(D, T, ds)
      BY BootConfig
    <2> HIDE DEF ds
    <2>3. input'.val[1] = ds
      BY <2>1 DEF Pair, ds
    <2> QED
      BY <2>2, <2>3 DEF BootInput
  <1>3. ASSUME NEW k, k # "boot", \E v : input' = Pair(k, v)
        PROVE  BootInput'
    <2>1. input'.kind = k
      BY <1>3 DEF Pair
    <2> QED
      BY <1>3, <2>1 DEF BootInput, Is
  <1>4. CASE PickScan
    BY <1>3, <1>4 DEF PickScan
  <1>5. CASE PickGroup
    BY <1>3, <1>5 DEF PickGroup
  <1>6. CASE PickSql
    BY <1>3, <1>6 DEF PickSql
  <1>7. CASE PickRange
    BY <1>3, <1>7 DEF PickRange
  <1>8. CASE PickDuration
    BY <1>3, <1>8 DEF PickDuration
  <1>9. CASE PickTime
    BY <1>3, <1>9 DEF PickTime
  <1>10. CASE PickFiles
    BY <1>3, <1>10 DEF PickFiles
  <1>11. CASE PickDelta
    BY <1>3, <1>11 DEF PickDelta
  <1>12. CASE PickBuild
    BY <1>3, <1>12, ZenonT(40) DEF PickBuild
  <1>13. CASE PickS3
    BY <1>3, <1>13 DEF PickS3
  <1>14. CASE PickEndpoint
    BY <1>3, <1>14 DEF PickEndpoint
  <1>15. CASE PickCell
    BY <1>3, <1>15 DEF PickCell
  <1> QED
    BY <1>1, <1>2, <1>4, <1>5, <1>6, <1>7, <1>8, <1>9, <1>10, <1>11, <1>12, <1>13, <1>14, <1>15
    DEF Next

\* On every input the datasets come up exactly when all they need do, what has
\* no rows in DuckDB only, and the error for a cycle names one (startup_levels,
\* spawn_startup_builds, load_registry, topological_dataset_order,
\* find_cycle_path).
THEOREM StartupHolds == Spec => []StartupSound
  <1>1. Init => BootInput
    <2> SUFFICES ASSUME Init PROVE BootInput
      OBVIOUS
    <2>1. input.kind = "start"
      BY DEF Init, Pair
    <2> QED
      BY <2>1 DEF BootInput, Is
  <1>2. BootInput /\ [Next]_input => BootInput'
    BY NextBootInput
  <1>3. BootInput => StartupSound
    <2> SUFFICES ASSUME BootInput, Is("boot")
                 PROVE  StartsRight(input.val[1], input.val[2], input.val[3])
      BY DEF StartupSound
    <2> DEFINE ds == input.val[1]
               src == input.val[2]
               early == input.val[3]
    <2>1. PICK D, T : IsConfig(D, T, ds)
      BY DEF BootInput
    <2> HIDE DEF ds, src, early
    <2>2. StartsRight(ds, src, early)
      BY <2>1, StartsAreRight
    <2> QED
      BY <2>2 DEF ds, src, early
  <1> QED
    BY <1>1, <1>2, <1>3, PTL DEF Spec
=============================================================================
