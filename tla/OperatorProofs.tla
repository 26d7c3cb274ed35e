--------------------------- MODULE OperatorProofs ---------------------------
(***************************************************************************)
(* What the column filters and the SQL gate let through, for every schema, *)
(* request and statement, and what a start builds, for every configuration.*)
(* The lemmas about the operators of Config, QueryModel and SqlGuard come  *)
(* first.                                                                  *)
(***************************************************************************)
EXTENDS SqlGuard, Startup, WellFoundedInduction, SequenceTheorems, FiniteSetTheorems, TLAPS

\* A nonempty set of numbers has a least one.
LEMMA MinIsLeast ==
    ASSUME NEW S \in SUBSET Nat, S # {}
    PROVE  Min(S) \in S /\ \A y \in S : Min(S) <= y
  <1> DEFINE R == OpToRel(<, Nat)
  <1>1. IsWellFoundedOn(R, Nat)
    BY NatLessThanWellFounded
  <1>2. \A y, x \in Nat : y < x => <<y, x>> \in R
    BY DEF OpToRel
  <1> HIDE DEF R
  <1>3. PICK x \in S : \A y \in S : <<y, x>> \notin R
    BY <1>1, WFMin
  <1>4. ASSUME NEW y \in S PROVE x <= y
    <2>1. x \in Nat /\ y \in Nat
      OBVIOUS
    <2>2. ~ (y < x)
      BY <1>2, <1>3, <2>1
    <2> QED
      BY <2>1, <2>2
  <1> QED
    BY <1>3, <1>4 DEF Min

\* Checks without an error: FirstError says so, and only then.
LEMMA FirstErrorOk ==
    ASSUME NEW checks, DOMAIN checks \subseteq Nat
    PROVE  FirstError(checks) = "ok" <=> \A i \in DOMAIN checks : checks[i] = "ok"
  <1> DEFINE bad == {i \in DOMAIN checks : checks[i] # "ok"}
  <1>1. CASE bad = {}
    BY <1>1 DEF FirstError
  <1>2. CASE bad # {}
    <2>1. Min(bad) \in bad
      BY <1>2, MinIsLeast
    <2>2. FirstError(checks) = checks[Min(bad)]
      BY <1>2 DEF FirstError
    <2> QED
      BY <2>1, <2>2
  <1> QED
    BY <1>1, <1>2

\* The checks of a fixed list, one after the other.
LEMMA FirstOfTwo ==
    ASSUME NEW a, NEW b
    PROVE  FirstError(<<a, b>>) = "ok" <=> a = "ok" /\ b = "ok"
  <1>1. DOMAIN <<a, b>> = {1, 2}
    OBVIOUS
  <1> QED
    BY <1>1, FirstErrorOk

LEMMA FirstOfFive ==
    ASSUME NEW a, NEW b, NEW c, NEW d, NEW e
    PROVE  FirstError(<<a, b, c, d, e>>) = "ok"
             <=> a = "ok" /\ b = "ok" /\ c = "ok" /\ d = "ok" /\ e = "ok"
  <1>1. DOMAIN <<a, b, c, d, e>> = {1, 2, 3, 4, 5}
    OBVIOUS
  <1> QED
    BY <1>1, FirstErrorOk

\* Recursion over an interval, with the step as a function: a value for each
\* number that follows from the one before.
Unrolls(f, n, T, base, step) ==
    /\ f \in [0 .. n -> T]
    /\ f[0] = base
    /\ \A k \in 1 .. n : f[k] = step[<<k, f[k - 1]>>]

LEMMA RecursionExists ==
    ASSUME NEW T, NEW n \in Nat, NEW base \in T, NEW step \in [(1 .. n) \X T -> T]
    PROVE  \E f : Unrolls(f, n, T, base, step)
  <1> DEFINE upto(m) == {f \in [0 .. m -> T] :
                           f[0] = base /\ \A k \in 1 .. m : f[k] = step[<<k, f[k - 1]>>]}
             fails == {m \in 0 .. n : upto(m) = {}}
  <1>1. [k \in 0 .. 0 |-> base] \in upto(0)
    OBVIOUS
  <1>2. ASSUME NEW m \in 0 .. n, m < n, upto(m) # {} PROVE upto(m + 1) # {}
    <2>1. PICK f \in upto(m) : TRUE
      BY <1>2
    <2> DEFINE g == [k \in 0 .. m + 1 |-> IF k = m + 1 THEN step[<<m + 1, f[m]>>] ELSE f[k]]
    <2>2. f \in [0 .. m -> T] /\ f[m] \in T
      BY <2>1
    <2>3. <<m + 1, f[m]>> \in (1 .. n) \X T
      BY <1>2, <2>2
    <2>4. g \in [0 .. m + 1 -> T]
      BY <2>2, <2>3
    <2>5. g[0] = base
      BY <2>1
    <2>6. ASSUME NEW k \in 1 .. m + 1 PROVE g[k] = step[<<k, g[k - 1]>>]
      <3>1. g[m] = f[m]
        BY <1>2
      <3>2. CASE k = m + 1
        <4>1. g[m + 1] = step[<<m + 1, f[m]>>] /\ m + 1 - 1 = m
          OBVIOUS
        <4>2. k - 1 = m
          BY <3>2
        <4> HIDE DEF g
        <4> QED
          BY <3>1, <3>2, <4>1, <4>2
      <3>3. CASE k # m + 1
        <4>1. k \in 1 .. m /\ k - 1 \in 0 .. m /\ k - 1 # m + 1 /\ k \in 0 .. m + 1
              /\ k - 1 \in 0 .. m + 1
          BY <1>2, <3>3
        <4>2. f[k] = step[<<k, f[k - 1]>>]
          BY <2>1, <4>1
        <4>3. g[k] = f[k] /\ g[k - 1] = f[k - 1]
          BY <3>3, <4>1
        <4> QED
          BY <4>2, <4>3
      <3> QED
        BY <3>2, <3>3
    <2> QED
      BY <2>4, <2>5, <2>6
  <1>3. upto(n) # {}
    <2> HIDE DEF upto
    <2>1. SUFFICES ASSUME n \in fails PROVE FALSE
      BY DEF fails
    <2>2. fails \in SUBSET Nat
      BY DEF fails
    <2>3. Min(fails) \in fails /\ \A y \in fails : Min(fails) <= y
      BY <2>1, <2>2, MinIsLeast
    <2>4. PICK m \in 0 .. n : upto(m) = {} /\ \A y \in 0 .. n : y < m => upto(y) # {}
      <3>1. Min(fails) \in 0 .. n /\ upto(Min(fails)) = {}
        BY <2>3 DEF fails
      <3>2. ASSUME NEW y \in 0 .. n, y < Min(fails) PROVE upto(y) # {}
        <4>1. y \notin fails
          BY <2>3, <3>1, <3>2
        <4> QED
          BY <4>1 DEF fails
      <3> QED
        BY <3>1, <3>2
    <2>5. m # 0
      BY <1>1, <2>4
    <2>6. m - 1 \in 0 .. n /\ m - 1 < n /\ m - 1 < m /\ m - 1 + 1 = m
      BY <2>5
    <2>7. upto(m - 1) # {}
      BY <2>4, <2>6
    <2>8. upto(m - 1 + 1) # {}
      BY <1>2, <2>6, <2>7
    <2> QED
      BY <2>4, <2>6, <2>8
  <1>4. PICK f \in upto(n) : TRUE
    BY <1>3
  <1> QED
    BY <1>4 DEF Unrolls

\* Selected, unfolded: what it has kept after each element.
Keeps(kept, T, list, S) ==
    /\ kept \in [0 .. Len(list) -> Seq(T)]
    /\ kept[0] = <<>>
    /\ \A k \in 1 .. Len(list) :
          kept[k] = IF list[k] \in S THEN Append(kept[k - 1], list[k]) ELSE kept[k - 1]
    /\ Selected(list, S) = kept[Len(list)]

LEMMA SelectedSteps ==
    ASSUME NEW T, NEW list \in Seq(T), NEW S
    PROVE  \E kept : Keeps(kept, T, list, S)
  <1> DEFINE n == Len(list)
             step == [x \in (1 .. n) \X Seq(T) |->
                        IF list[x[1]] \in S THEN Append(x[2], list[x[1]]) ELSE x[2]]
             Def(kept) == [k \in 0 .. n |->
                             IF k = 0 THEN <<>>
                             ELSE IF list[k] \in S THEN Append(kept[k - 1], list[k])
                             ELSE kept[k - 1]]
             F == CHOOSE kept : kept = Def(kept)
  <1>1. n \in Nat /\ <<>> \in Seq(T) /\ step \in [(1 .. n) \X Seq(T) -> Seq(T)]
    <2>1. \A x \in (1 .. n) \X Seq(T) : list[x[1]] \in T /\ x[2] \in Seq(T)
      OBVIOUS
    <2>2. \A x \in (1 .. n) \X Seq(T) : Append(x[2], list[x[1]]) \in Seq(T)
      BY <2>1
    <2> QED
      BY <2>1, <2>2
  <1>2. PICK f \in [0 .. n -> Seq(T)] :
           f[0] = <<>> /\ \A k \in 1 .. n : f[k] = step[<<k, f[k - 1]>>]
    <2> DEFINE base == <<>>
               seqs == Seq(T)
    <2>1. n \in Nat /\ base \in seqs /\ step \in [(1 .. n) \X seqs -> seqs]
      BY <1>1
    <2> HIDE DEF n, step, base, seqs
    <2>2. \E f : Unrolls(f, n, seqs, base, step)
      BY <2>1, RecursionExists
    <2> QED
      BY <2>2 DEF Unrolls, base, seqs
  <1>3. \A k \in 1 .. n : f[k] = IF list[k] \in S THEN Append(f[k - 1], list[k])
                                 ELSE f[k - 1]
    <2>1. SUFFICES ASSUME NEW k \in 1 .. n
                   PROVE  f[k] = IF list[k] \in S THEN Append(f[k - 1], list[k])
                                 ELSE f[k - 1]
      OBVIOUS
    <2>2. f[k - 1] \in Seq(T)
      BY <1>2
    <2>3. <<k, f[k - 1]>> \in (1 .. n) \X Seq(T)
      BY <2>2
    <2> QED
      BY <1>2, <2>3
  <1>4. f = Def(f)
    <2>1. ASSUME NEW k \in 0 .. n PROVE f[k] = Def(f)[k]
      <3>1. CASE k = 0
        BY <1>2, <3>1
      <3>2. CASE k # 0
        <4>1. k \in 1 .. n
          BY <3>2
        <4> QED
          BY <1>3, <3>2, <4>1
      <3> QED
        BY <3>1, <3>2
    <2> QED
      BY <1>2, <2>1
  <1>5. ASSUME NEW g, g = Def(g) PROVE g = f
    <2>1. /\ DOMAIN g = 0 .. n
          /\ g = [k \in 0 .. n |-> g[k]]
          /\ g[0] = <<>>
          /\ \A k \in 1 .. n : g[k] = IF list[k] \in S THEN Append(g[k - 1], list[k])
                                       ELSE g[k - 1]
      <3>1. DOMAIN Def(g) = 0 .. n /\ Def(g) = [k \in 0 .. n |-> Def(g)[k]]
        OBVIOUS
      <3>2. 0 \in 0 .. n /\ Def(g)[0] = <<>>
        BY <1>1
      <3>3. \A k \in 1 .. n : Def(g)[k] = IF list[k] \in S THEN Append(g[k - 1], list[k])
                                          ELSE g[k - 1]
        BY <1>1
      <3> HIDE DEF Def
      <3> QED
        BY <1>5, <3>1, <3>2, <3>3
    <2> DEFINE bad == {k \in 0 .. n : g[k] # f[k]}
    <2>2. bad = {}
      <3>1. SUFFICES ASSUME bad # {} PROVE FALSE
        OBVIOUS
      <3>2. PICK k \in bad : \A j \in bad : k <= j
        <4>1. bad \in SUBSET Nat
          OBVIOUS
        <4> HIDE DEF bad
        <4> QED
          BY <3>1, <4>1, MinIsLeast
      <3>3. k # 0
        BY <1>2, <2>1, <3>2
      <3>4. k \in 1 .. n /\ k - 1 \in 0 .. n /\ ~ (k <= k - 1)
        BY <3>2, <3>3
      <3>5. g[k - 1] = f[k - 1]
        BY <3>2, <3>4
      <3> QED
        BY <1>3, <2>1, <3>2, <3>4, <3>5
    <2>3. f = [k \in 0 .. n |-> f[k]]
      BY <1>2
    <2> QED
      BY <2>1, <2>2, <2>3
  <1>6. F = f
    <2> HIDE DEF Def
    <2>1. F = Def(F)
      BY <1>4
    <2> QED
      BY <1>5, <2>1
  <1>7. Selected(list, S) = F[n]
    BY DEF Selected
  <1>8. Selected(list, S) = f[n]
    <2> HIDE DEF F, n
    <2> QED
      BY <1>6, <1>7
  <1>9. Keeps(f, T, list, S)
    <2> HIDE DEF F
    <2> QED
      BY <1>2, <1>3, <1>8 DEF Keeps
  <1> QED
    BY <1>9

\* Selected keeps what is in S, and all of it.
LEMMA SelectedRange ==
    ASSUME NEW T, NEW list \in Seq(T), NEW S
    PROVE  /\ Selected(list, S) \in Seq(T)
           /\ Range(Selected(list, S)) = Range(list) \cap S
  <1> DEFINE n == Len(list)
             seen(k) == {list[i] : i \in 1 .. k}
  <1>1. PICK kept : Keeps(kept, T, list, S)
    BY SelectedSteps
  <1>2. n \in Nat /\ DOMAIN list = 1 .. n /\ \A i \in 1 .. n : list[i] \in T
    OBVIOUS
  <1> DEFINE bad == {k \in 0 .. n : Range(kept[k]) # seen(k) \cap S}
  <1>3. bad = {}
    <2>1. SUFFICES ASSUME bad # {} PROVE FALSE
      OBVIOUS
    <2>2. PICK k \in bad : \A j \in bad : k <= j
      <3>1. bad \in SUBSET Nat
        OBVIOUS
      <3> HIDE DEF bad
      <3> QED
        BY <2>1, <3>1, MinIsLeast
    <2>3. k # 0
      <3>1. Range(kept[0]) = {} /\ seen(0) = {}
        BY <1>1 DEF Range, Keeps
      <3> QED
        BY <2>2, <3>1
    <2>4. k \in 1 .. n /\ k - 1 \in 0 .. n /\ ~ (k <= k - 1) /\ kept[k - 1] \in Seq(T)
      BY <1>1, <2>2, <2>3 DEF Keeps
    <2>5. Range(kept[k - 1]) = seen(k - 1) \cap S
      BY <2>2, <2>4
    <2>6. seen(k) = seen(k - 1) \cup {list[k]}
      BY <2>4
    <2>7. Range(Append(kept[k - 1], list[k])) = Range(kept[k - 1]) \cup {list[k]}
      <3>1. ASSUME NEW s \in Seq(T), NEW e \in T
            PROVE  Range(Append(s, e)) = Range(s) \cup {e}
        <4>1. DOMAIN s = 1 .. Len(s) /\ DOMAIN Append(s, e) = 1 .. Len(s) + 1 /\ Len(s) \in Nat
          OBVIOUS
        <4>2. Append(s, e)[Len(s) + 1] = e
          OBVIOUS
        <4>3. \A i \in 1 .. Len(s) : Append(s, e)[i] = s[i]
          OBVIOUS
        <4>4. Range(Append(s, e)) \subseteq Range(s) \cup {e}
          BY <4>1, <4>2, <4>3 DEF Range
        <4>5. Range(s) \subseteq Range(Append(s, e))
          BY <4>1, <4>3 DEF Range
        <4>6. e \in Range(Append(s, e))
          BY <4>1, <4>2 DEF Range
        <4> QED
          BY <4>4, <4>5, <4>6
      <3> QED
        BY <1>2, <2>4, <3>1
    <2>8. Range(kept[k]) = seen(k) \cap S
      BY <1>1, <2>4, <2>5, <2>6, <2>7 DEF Keeps
    <2> QED
      BY <2>2, <2>8
  <1>4. Range(list) = seen(n)
    BY <1>2 DEF Range
  <1>5. n \in 0 .. n
    BY <1>2
  <1> QED
    BY <1>1, <1>3, <1>4, <1>5, ZenonT(40) DEF Keeps

\* A function that follows the steps has their values.
LEMMA RecursionTyped ==
    ASSUME NEW T, NEW n \in Nat, NEW base \in T, NEW step \in [(1 .. n) \X T -> T],
           NEW g, g = [k \in 0 .. n |-> g[k]], g[0] = base,
           \A k \in 1 .. n : g[k - 1] \in T => g[k] = step[<<k, g[k - 1]>>]
    PROVE  Unrolls(g, n, T, base, step)
  <1> DEFINE bad == {k \in 0 .. n : g[k] \notin T}
  <1>1. bad = {}
    <2>1. SUFFICES ASSUME bad # {} PROVE FALSE
      OBVIOUS
    <2>2. PICK k \in bad : \A j \in bad : k <= j
      <3>1. bad \in SUBSET Nat
        OBVIOUS
      <3> HIDE DEF bad
      <3> QED
        BY <2>1, <3>1, MinIsLeast
    <2>3. k \in 1 .. n /\ k - 1 \in 0 .. n /\ ~ (k <= k - 1)
      BY <2>2
    <2>4. g[k - 1] \in T
      BY <2>2, <2>3
    <2>5. <<k, g[k - 1]>> \in (1 .. n) \X T
      BY <2>3, <2>4
    <2> QED
      BY <2>2, <2>3, <2>4, <2>5
  <1>2. \A k \in 0 .. n : g[k] \in T
    BY <1>1
  <1>3. \A k \in 1 .. n : k - 1 \in 0 .. n
    OBVIOUS
  <1> QED
    BY <1>2, <1>3 DEF Unrolls

\* A property of 0 that passes from each number to the next holds up to n.
LEMMA UpToN ==
    ASSUME NEW n \in Nat, NEW good, 0 \in good,
           \A k \in 1 .. n : k - 1 \in good => k \in good
    PROVE  \A k \in 0 .. n : k \in good
  <1> DEFINE bad == {k \in 0 .. n : k \notin good}
  <1>1. SUFFICES ASSUME bad # {} PROVE FALSE
    OBVIOUS
  <1>2. PICK k \in bad : \A j \in bad : k <= j
    <2>1. bad \in SUBSET Nat
      OBVIOUS
    <2> HIDE DEF bad
    <2> QED
      BY <1>1, <2>1, MinIsLeast
  <1>3. k \in 1 .. n /\ k - 1 \in 0 .. n /\ ~ (k <= k - 1)
    BY <1>2
  <1> QED
    BY <1>2, <1>3

\* An element more at the end.
LEMMA AppendOne ==
    ASSUME NEW T, NEW s \in Seq(T), NEW e \in T
    PROVE  /\ Append(s, e) \in Seq(T)
           /\ Range(Append(s, e)) = Range(s) \cup {e}
           /\ IsInjective(s) /\ e \notin Range(s) => IsInjective(Append(s, e))
  <1> DEFINE t == Append(s, e)
             n == Len(s)
  <1>1. n \in Nat /\ DOMAIN s = 1 .. n /\ DOMAIN t = 1 .. n + 1
    OBVIOUS
  <1>2. t[n + 1] = e /\ \A i \in 1 .. n : t[i] = s[i]
    OBVIOUS
  <1>3. t \in Seq(T)
    OBVIOUS
  <1>4. \A i \in 1 .. n + 1 : i \in 1 .. n \/ i = n + 1
    BY <1>1
  <1>5. \A i \in 1 .. n : i \in 1 .. n + 1
    BY <1>1
  <1>6. n + 1 \in 1 .. n + 1
    BY <1>1
  <1> HIDE DEF t, n
  <1>7. Range(t) = Range(s) \cup {e}
    BY <1>1, <1>2, <1>4, <1>5, <1>6 DEF Range
  <1>8. ASSUME IsInjective(s), e \notin Range(s) PROVE IsInjective(t)
    <2>1. \A i \in 1 .. n : s[i] # e
      BY <1>1, <1>8 DEF Range
    <2>2. ASSUME NEW a \in 1 .. n + 1, NEW b \in 1 .. n + 1, t[a] = t[b] PROVE a = b
      <3>1. CASE a = n + 1 \/ b = n + 1
        BY <1>2, <1>4, <2>1, <2>2, <3>1
      <3>2. CASE a \in 1 .. n /\ b \in 1 .. n
        BY <1>1, <1>2, <1>8, <2>2, <3>2 DEF IsInjective
      <3> QED
        BY <1>4, <3>1, <3>2
    <2> QED
      BY <1>1, <2>2 DEF IsInjective
  <1> QED
    BY <1>3, <1>7, <1>8 DEF t

\* What is selected from distinct elements is distinct.
LEMMA SelectedInjective ==
    ASSUME NEW T, NEW list \in Seq(T), NEW S, IsInjective(list)
    PROVE  IsInjective(Selected(list, S))
  <1> DEFINE n == Len(list)
             seen(k) == {list[i] : i \in 1 .. k}
  <1>1. PICK kept : Keeps(kept, T, list, S)
    BY SelectedSteps
  <1> DEFINE good == {k \in 0 .. n : IsInjective(kept[k]) /\ Range(kept[k]) \subseteq seen(k)}
  <1>2. n \in Nat /\ 0 \in 0 .. n /\ n \in 0 .. n
        /\ (\A k \in 1 .. n : k \in 0 .. n /\ k - 1 \in 0 .. n /\ list[k] \in T)
    OBVIOUS
  <1>3. 0 \in good
    BY <1>1, <1>2 DEF Keeps, IsInjective, Range
  <1>4. ASSUME NEW k \in 1 .. n, k - 1 \in good PROVE k \in good
    <2>1. /\ IsInjective(kept[k - 1]) /\ kept[k - 1] \in Seq(T) /\ list[k] \in T
          /\ Range(kept[k - 1]) \subseteq seen(k - 1)
      BY <1>1, <1>2, <1>4 DEF Keeps
    <2>2. kept[k] = IF list[k] \in S THEN Append(kept[k - 1], list[k]) ELSE kept[k - 1]
      BY <1>1 DEF Keeps
    <2>3. list[k] \notin seen(k - 1) /\ seen(k) = seen(k - 1) \cup {list[k]}
      <3>1. \A i \in 1 .. k - 1 : i \in DOMAIN list /\ k \in DOMAIN list /\ i # k
        BY <1>2
      <3>2. list[k] \notin seen(k - 1)
        BY <3>1 DEF IsInjective
      <3> QED
        BY <1>2, <3>2
    <2>4. list[k] \notin Range(kept[k - 1])
      BY <2>1, <2>3
    <2>5. IsInjective(kept[k]) /\ Range(kept[k]) \subseteq seen(k)
      <3> HIDE DEF seen
      <3> QED
        BY <2>1, <2>2, <2>3, <2>4, AppendOne
    <2> QED
      BY <1>2, <2>5
  <1> HIDE DEF good
  <1>5. n \in good
    <2> HIDE DEF n
    <2> QED
      BY <1>2, <1>3, <1>4, UpToN
  <1> QED
    BY <1>1, <1>5 DEF good, Keeps

-----------------------------------------------------------------------------
(***************************************************************************)
(* The column filters.                                                     *)
(***************************************************************************)

\* Visibility is about the name in lower case.
LEMMA FindVisible ==
    ASSUME NEW s, NEW n, find_visible(s, n) = "ok"
    PROVE  is_visible(s, n)
  BY DEF find_visible, find, is_visible

LEMMA FindForPredicate ==
    ASSUME NEW s, NEW n, find_for_predicate(s, n) = "ok"
    PROVE  /\ find_visible(s, n) = "ok"
           /\ Allows(s.predicate_filter, Lower[n])
  BY FirstOfTwo DEF find_for_predicate

\* Without filters every column is visible, and may be tested.
LEMMA NoFilters ==
    ASSUME NEW s, ~ has_column_filters(s), NEW c
    PROVE  is_visible(s, c) /\ Allows(s.predicate_filter, Lower[c])
  BY DEF has_column_filters, FilterActive, is_visible, Allows

\* A count that passes the filters has asked for each column it tests.
LEMMA PredicatesAsked ==
    ASSUME NEW req, NEW s, DOMAIN req.predicates \subseteq Nat, has_column_filters(s),
           count_enforce_column_filters(req, s) = "ok", NEW p \in Range(req.predicates)
    PROVE  find_for_predicate(s, p.col) = "ok"
  <1>1. PICK i \in DOMAIN req.predicates : p = req.predicates[i]
    BY DEF Range
  <1>2. FirstError(PredicateColumns(req, s)) = "ok"
    BY DEF count_enforce_column_filters
  <1>3. PredicateColumns(req, s)
          = [k \in DOMAIN req.predicates |-> find_for_predicate(s, req.predicates[k].col)]
    BY DEF PredicateColumns, Each
  <1>4. PredicateColumns(req, s)[i] = "ok" /\ i \in DOMAIN PredicateColumns(req, s)
    BY <1>2, <1>3, FirstErrorOk
  <1> QED
    BY <1>1, <1>3, <1>4

\* What enforce_column_filters has asked of a request it lets through.
LEMMA QueryFilterAsked ==
    ASSUME NEW req, NEW s, IsRequest(req), has_column_filters(s),
           enforce_column_filters(req, s) = "ok"
    PROVE  /\ \A p \in Range(req.predicates) : find_for_predicate(s, p.col) = "ok"
           /\ \A g \in Range(req.group_by) : find_visible(s, g) = "ok"
           /\ \A a \in Range(req.aggregations) : \A c \in a.col : find_visible(s, c) = "ok"
           /\ req.group_by = <<>> =>
                \A o \in Range(req.order_by) : find_visible(s, o.col) = "ok"
           /\ \A c \in Range(req.columns) : find_visible(s, c) = "ok"
  <1> DEFINE predicates == [i \in DOMAIN req.predicates |->
                              find_for_predicate(s, req.predicates[i].col)]
             groups == [i \in DOMAIN req.group_by |-> find_visible(s, req.group_by[i])]
             folded(a) == IF \A c \in a.col : find_visible(s, c) = "ok" THEN "ok"
                          ELSE "UnknownColumn"
             aggs == [i \in DOMAIN req.aggregations |-> folded(req.aggregations[i])]
             order == [i \in DOMAIN req.order_by |-> find_visible(s, req.order_by[i].col)]
             columns == [i \in DOMAIN req.columns |-> find_visible(s, req.columns[i])]
             sorted == IF req.group_by # <<>> THEN "ok" ELSE FirstError(order)
  <1>1. enforce_column_filters(req, s)
          = FirstError(<<FirstError(predicates), FirstError(groups), FirstError(aggs),
                         sorted, FirstError(columns)>>)
    BY DEF enforce_column_filters, PredicateColumns, Each
  <1>2. /\ FirstError(predicates) = "ok" /\ FirstError(groups) = "ok"
        /\ FirstError(aggs) = "ok" /\ sorted = "ok" /\ FirstError(columns) = "ok"
    <2> HIDE DEF predicates, groups, aggs, sorted, columns
    <2> QED
      BY <1>1, FirstOfFive
  <1>3. /\ DOMAIN req.predicates \subseteq Nat /\ DOMAIN req.group_by \subseteq Nat
        /\ DOMAIN req.aggregations \subseteq Nat /\ DOMAIN req.order_by \subseteq Nat
        /\ DOMAIN req.columns \subseteq Nat
    BY DEF IsRequest
  <1>4. /\ DOMAIN predicates = DOMAIN req.predicates /\ DOMAIN groups = DOMAIN req.group_by
        /\ DOMAIN aggs = DOMAIN req.aggregations /\ DOMAIN order = DOMAIN req.order_by
        /\ DOMAIN columns = DOMAIN req.columns
    OBVIOUS
  <1>5. /\ \A i \in DOMAIN req.predicates : predicates[i] = "ok"
        /\ \A i \in DOMAIN req.group_by : groups[i] = "ok"
        /\ \A i \in DOMAIN req.aggregations : aggs[i] = "ok"
        /\ \A i \in DOMAIN req.columns : columns[i] = "ok"
    <2> HIDE DEF predicates, groups, aggs, order, columns
    <2> QED
      BY <1>2, <1>3, <1>4, FirstErrorOk
  <1>6. ASSUME req.group_by = <<>> PROVE \A i \in DOMAIN req.order_by : order[i] = "ok"
    <2>1. FirstError(order) = "ok"
      BY <1>2, <1>6
    <2> HIDE DEF order
    <2> QED
      BY <1>3, <1>4, <2>1, FirstErrorOk
  <1>7. \A a \in Range(req.aggregations) : folded(a) = "ok"
    BY <1>5 DEF Range
  <1> QED
    BY <1>5, <1>6, <1>7 DEF Range

\* Narrowing leaves the other parts of a request alone.
LEMMA NarrowedParts ==
    ASSUME NEW req, NEW s, IsRequest(req)
    PROVE  /\ Narrowed(req, s).predicates = req.predicates
           /\ Narrowed(req, s).group_by = req.group_by
           /\ Narrowed(req, s).aggregations = req.aggregations
           /\ Narrowed(req, s).order_by = req.order_by
           /\ Narrowed(req, s).columns =
                IF /\ req.columns = <<>> /\ req.group_by = <<>>
                   /\ FilterActive(s.projection_filter)
                THEN visible_columns(s) ELSE req.columns
  BY DEF Narrowed, IsRequest

\* The names of columns in a request: shown, grouped, tested, folded, sorted by.
NamedColumns(r) ==
    Range(r.columns) \cup Range(r.group_by) \cup {p.col : p \in Range(r.predicates)}
    \cup (UNION {a.col : a \in Range(r.aggregations)})
    \cup (IF r.group_by # <<>> THEN {} ELSE {o.col : o \in Range(r.order_by)})

\* The columns a request names are visible once it has passed
\* enforce_column_filters and was narrowed, and it may test those it tests;
\* where it names none, and does not group, all columns are visible.
THEOREM RequestsUseVisible ==
    ASSUME NEW req, NEW s, IsRequest(req), IsSchema(s), HasProjection(req, s),
           enforce_column_filters(req, s) = "ok"
    PROVE  /\ \A n \in NamedColumns(Narrowed(req, s)) : is_visible(s, n)
           /\ (Narrowed(req, s).columns = <<>> /\ Narrowed(req, s).group_by = <<>>) =>
                \A c \in Range(s.columns) : is_visible(s, c)
           /\ \A p \in Range(Narrowed(req, s).predicates) :
                Allows(s.predicate_filter, Lower[p.col])
  <1> DEFINE r == Narrowed(req, s)
  <1>1. CASE ~ has_column_filters(s)
    <2>1. \A c : is_visible(s, c)
      BY <1>1, NoFilters
    <2>2. \A p \in Range(r.predicates) : Allows(s.predicate_filter, Lower[p.col])
      BY <1>1, NoFilters
    <2> QED
      BY <2>1, <2>2
  <1>2. CASE has_column_filters(s)
    <2> DEFINE shown == {c \in Range(s.columns) : is_visible(s, c)}
    <2>1. Range(visible_columns(s)) = shown
      BY SelectedRange DEF IsSchema, visible_columns
    <2>2. /\ \A p \in Range(req.predicates) : find_for_predicate(s, p.col) = "ok"
          /\ \A g \in Range(req.group_by) : find_visible(s, g) = "ok"
          /\ \A a \in Range(req.aggregations) : \A c \in a.col : find_visible(s, c) = "ok"
          /\ req.group_by = <<>> =>
               \A o \in Range(req.order_by) : find_visible(s, o.col) = "ok"
          /\ \A c \in Range(req.columns) : find_visible(s, c) = "ok"
      BY <1>2, QueryFilterAsked
    <2>3. \A n \in Range(r.columns) : is_visible(s, n)
      <3>1. CASE r.columns = req.columns
        BY <2>2, <3>1, FindVisible
      <3>2. CASE r.columns = visible_columns(s)
        BY <2>1, <3>2 DEF is_visible
      <3> QED
        BY <3>1, <3>2, NarrowedParts
    <2>4. \A n \in Range(r.group_by) : is_visible(s, n)
      BY <2>2, FindVisible, NarrowedParts
    <2>5. \A p \in Range(r.predicates) :
             /\ is_visible(s, p.col)
             /\ Allows(s.predicate_filter, Lower[p.col])
      BY <2>2, FindForPredicate, FindVisible, NarrowedParts
    <2>6. \A a \in Range(r.aggregations) : \A n \in a.col : is_visible(s, n)
      BY <2>2, FindVisible, NarrowedParts
    <2>7. r.group_by = <<>> =>
             \A o \in Range(r.order_by) : is_visible(s, o.col)
      BY <2>2, FindVisible, NarrowedParts
    <2>8. ASSUME r.columns = <<>>, r.group_by = <<>>
          PROVE  \A c \in Range(s.columns) : is_visible(s, c)
      <3>1. CASE FilterActive(s.projection_filter)
        <4>1. req.group_by = <<>>
          BY <2>8, NarrowedParts
        <4>2. req.columns = <<>>
          BY <2>8, <3>1, <4>1, NarrowedParts
        <4>3. visible_columns(s) = <<>>
          BY <2>8, <3>1, <4>1, <4>2, NarrowedParts
        <4>4. shown = {}
          BY <2>1, <4>3 DEF Range
        <4> QED
          BY <4>1, <4>2, <4>4 DEF HasProjection
      <3>2. CASE ~ FilterActive(s.projection_filter)
        BY <3>2 DEF FilterActive, is_visible, Allows
      <3> QED
        BY <3>1, <3>2
    <2>9. ASSUME NEW n \in NamedColumns(r) PROVE is_visible(s, n)
      <3> HIDE DEF r
      <3>1. \/ n \in Range(r.columns) \/ n \in Range(r.group_by)
            \/ \E p \in Range(r.predicates) : n = p.col
            \/ \E a \in Range(r.aggregations) : n \in a.col
            \/ r.group_by = <<>> /\ \E o \in Range(r.order_by) : n = o.col
        BY <2>9 DEF NamedColumns
      <3>2. CASE \E p \in Range(r.predicates) : n = p.col
        BY <2>5, <2>9, <3>2
      <3>3. CASE \E a \in Range(r.aggregations) : n \in a.col
        BY <2>6, <2>9, <3>3
      <3>4. CASE r.group_by = <<>> /\ \E o \in Range(r.order_by) : n = o.col
        BY <2>7, <2>9, <3>4
      <3> QED
        BY <2>3, <2>4, <2>9, <3>1, <3>2, <3>3, <3>4
    <2> QED
      BY <2>5, <2>8, <2>9
  <1> QED
    BY <1>1, <1>2

-----------------------------------------------------------------------------
(***************************************************************************)
(* The gate of the SQL endpoint.                                           *)
(***************************************************************************)

\* Nothing is above the root; above another query stands what is above its
\* parent.
LEMMA UpRoot ==
    ASSUME NEW stmt, WellFormed(stmt)
    PROVE  Up(stmt, 1) \subseteq {1}
  <1>1. {1} \in SUBSET DOMAIN stmt.nodes
    BY DEF WellFormed
  <1> QED
    BY <1>1 DEF Up, WellFormed

LEMMA UpStep ==
    ASSUME NEW stmt, WellFormed(stmt), NEW i \in DOMAIN stmt.nodes,
           NEW j \in Children(stmt, i)
    PROVE  Up(stmt, j) \subseteq {j} \cup Up(stmt, i)
  <1>1. SUFFICES ASSUME NEW k \in Up(stmt, j), k # j, k \notin Up(stmt, i) PROVE FALSE
    OBVIOUS
  <1>2. k \in DOMAIN stmt.nodes
    BY DEF Up
  <1>3. PICK S \in SUBSET DOMAIN stmt.nodes :
           /\ i \in S
           /\ \A m \in S : stmt.nodes[m].parent \in S \cup {0}
           /\ k \notin S
    BY <1>1, <1>2 DEF Up
  <1> DEFINE T == S \cup {j}
  <1>4. T \in SUBSET DOMAIN stmt.nodes /\ j \in T /\ k \notin T
    BY <1>1, <1>3 DEF Children
  <1>5. \A m \in T : stmt.nodes[m].parent \in T \cup {0}
    BY <1>3 DEF Children
  <1> HIDE DEF T
  <1> QED
    BY <1>1, <1>4, <1>5 DEF Up

\* A query is above itself, and what is above it is above its children.
LEMMA UpDown ==
    ASSUME NEW stmt, WellFormed(stmt), NEW i \in DOMAIN stmt.nodes,
           NEW j \in Children(stmt, i)
    PROVE  i \in Up(stmt, i) /\ Up(stmt, i) \subseteq Up(stmt, j)
  <1>1. i \in Up(stmt, i)
    BY DEF Up
  <1>2. ASSUME NEW k \in Up(stmt, i), NEW S \in SUBSET DOMAIN stmt.nodes, j \in S,
               \A m \in S : stmt.nodes[m].parent \in S \cup {0}
        PROVE  k \in S
    <2>1. i # 0 /\ stmt.nodes[j].parent = i
      BY DEF WellFormed, Children
    <2>2. i \in S
      BY <1>2, <2>1
    <2> QED
      BY <1>2, <2>2 DEF Up
  <1>3. \A k \in Up(stmt, i) : k \in DOMAIN stmt.nodes
    BY DEF Up
  <1> QED
    BY <1>1, <1>2, <1>3 DEF Up

\* The names validate takes for CTEs are names of CTEs of the statement.
LEMMA CteNamesAll ==
    ASSUME NEW stmt, NEW i
    PROVE  cte_names(stmt, i) \subseteq AllCteNames(stmt)
  BY DEF cte_names, AllCteNames, Ctes, Children, Range

\* A statement that validate accepts refers to registered datasets, and calls
\* none of the denied functions.
LEMMA ScopeKept ==
    ASSUME NEW stmt, NEW allowed, NEW cap, sql_validate(stmt, allowed, cap).err = "ok"
    PROVE  /\ BaseTables(stmt) \ (Stray(stmt) \cup Unmet(stmt)) \subseteq
                sql_validate(stmt, allowed, cap).datasets
           /\ \A i \in DOMAIN stmt.nodes :
                stmt.nodes[i].funcs \cap DENIED_FUNCTIONS = {}
  <1>1. /\ ScopeCheck(stmt, allowed).ok
        /\ sql_validate(stmt, allowed, cap).datasets = ScopeCheck(stmt, allowed).referenced
    BY DEF sql_validate
  <1>2. \A i \in DOMAIN stmt.nodes :
           /\ Met(stmt.nodes[i]) \subseteq allowed \cup cte_names(stmt, i)
           /\ stmt.nodes[i].funcs \cap DENIED_FUNCTIONS = {}
    BY <1>1 DEF ScopeCheck
  <1>3. ASSUME NEW t \in BaseTables(stmt), t \notin Stray(stmt), t \notin Unmet(stmt)
        PROVE  t \in ScopeCheck(stmt, allowed).referenced
    <2>1. PICK i \in DOMAIN stmt.nodes : t \in Met(stmt.nodes[i])
      BY <1>3 DEF BaseTables, BasesOf, Unmet
    <2>2. t \notin cte_names(stmt, i)
      BY <1>3, CteNamesAll DEF Stray
    <2>3. t \in (Met(stmt.nodes[i]) \ cte_names(stmt, i)) \cap allowed
      BY <1>2, <2>1, <2>2
    <2> QED
      BY <2>3 DEF ScopeCheck
  <1> QED
    BY <1>1, <1>2, <1>3

\* The columns of a dataset that passes enforce_column_access.
LEMMA ColumnAccess ==
    ASSUME NEW stmt, NEW s, enforce_column_access(stmt, s) = "ok",
           stmt.kind = "query", FilterActive(s.projection_filter)
    PROVE  /\ ~ query_has_wildcard(stmt)
           /\ \A c \in Range(s.columns) : \A i \in DOMAIN stmt.nodes :
                Lower[c] \in stmt.nodes[i].cols => is_visible(s, c)
  <1> DEFINE refs == UNION {stmt.nodes[i].cols : i \in DOMAIN stmt.nodes}
             named == {c \in Range(s.columns) : Lower[c] \in refs}
  <1>1. /\ ~ query_has_wildcard(stmt)
        /\ ~ \E c \in named : ~is_visible(s, c)
    BY Zenon DEF enforce_column_access, has_column_filters
  <1> QED
    BY <1>1

\* What a statement shows comes from a table.
LEMMA ShownIsBase ==
    ASSUME NEW stmt, NEW x, NEW f, <<1, f>> \in Showing(stmt, x)
    PROVE  x[1] \in BaseTables(stmt)
  <1>1. SUFFICES ASSUME x[1] \notin BaseTables(stmt) PROVE FALSE
    OBVIOUS
  <1>2. ASSUME NEW i \in DOMAIN stmt.nodes PROVE Passes(stmt, x, {}, i) = {}
    <2>1. \A t \in stmt.nodes[i].tables : BoundTo(stmt, i, t) = {} => t # x[1]
      BY <1>1 DEF BaseTables, BasesOf
    <2> QED
      BY <2>1 DEF Passes
  <1>3. {} \in SUBSET ((DOMAIN stmt.nodes) \X Forms)
    OBVIOUS
  <1>4. \A i \in DOMAIN stmt.nodes : {i} \X Passes(stmt, x, {}, i) \subseteq {}
    BY <1>2
  <1> QED
    BY <1>3, <1>4 DEF Showing

\* What a query shows in one step, when it has no unseen form and does not name
\* the column, and nothing is renamed so far: what it takes by an asterisk, and
\* what its branches and the subqueries of its SELECT list show.
LEMMA PassedOn ==
    ASSUME NEW stmt, NEW x, NEW N, NEW i, stmt.nodes[i].unseen = "none",
           x[2] \notin stmt.nodes[i].cols,
           \A p \in N : p[2] = "own", NEW f \in Passes(stmt, x, N, i)
    PROVE  \/ stmt.nodes[i].wildcard /\ f = "own"
           \/ f = "own" /\ \E j \in Children(stmt, i) :
                             stmt.nodes[j].place = "setop" /\ <<j, "own">> \in N
           \/ \E j \in Children(stmt, i) :
                stmt.nodes[j].place = "select" /\ <<j, "own">> \in N
  <1> DEFINE node == stmt.nodes[i]
             FromChild(places, g) == \E j \in Children(stmt, i) :
                                        stmt.nodes[j].place \in places /\ <<j, g>> \in N
             FromTable(t, g) == LET bound == BoundTo(stmt, i, t) IN
                                IF bound = {} THEN t = x[1] /\ g = "own"
                                ELSE <<Max(bound), g>> \in N
             offered == {g \in Forms : \/ FromChild({"from", "join"}, g)
                                       \/ \E t \in node.tables : FromTable(t, g)}
             taken == IF node.wildcard THEN offered
                      ELSE IF "new" \in offered /\ node.cols # {} THEN {"new"} ELSE {}
             branches == {g \in Forms : FromChild({"setop"}, g)}
             values == IF \E g \in Forms : FromChild({"select"}, g) THEN {"new"} ELSE {}
  <1>1. Passes(stmt, x, N, i) = taken \cup branches \cup values
    BY DEF Passes
  <1>2. \A j, g : <<j, g>> \in N => g = "own"
    OBVIOUS
  <1>3. \A g \in offered : g = "own"
    <2>1. ASSUME NEW g, NEW places, FromChild(places, g) PROVE g = "own"
      BY <1>2, <2>1
    <2>2. ASSUME NEW g, NEW t, FromTable(t, g) PROVE g = "own"
      BY <1>2, <2>2
    <2> HIDE DEF FromChild, FromTable
    <2> QED
      BY <2>1, <2>2
  <1>4. \A g \in taken : node.wildcard /\ g = "own"
    <2> HIDE DEF offered
    <2> QED
      BY <1>3
  <1>5. \A g \in branches : g = "own" /\ FromChild({"setop"}, "own")
    BY <1>2
  <1>6. \A g \in values : FromChild({"select"}, "own")
    BY <1>2
  <1>7. f \in taken \/ f \in branches \/ f \in values
    <2> HIDE DEF taken, branches, values
    <2> QED
      BY <1>1
  <1> HIDE DEF taken, branches, values
  <1> QED
    BY <1>4, <1>5, <1>6, <1>7

\* Unless the walk of query_has_wildcard finds an asterisk, a column shown is
\* a column named, where the statement names its columns: the queries the walk
\* does not enter show nothing by themselves.
LEMMA ShownIsNamed ==
    ASSUME NEW stmt, WellFormed(stmt), ~ query_has_wildcard(stmt), NamesItsColumns(stmt),
           NEW x, NEW f, <<1, f>> \in Showing(stmt, x)
    PROVE  \E i \in DOMAIN stmt.nodes : x[2] \in stmt.nodes[i].cols
  <1>1. SUFFICES ASSUME \A i \in DOMAIN stmt.nodes : x[2] \notin stmt.nodes[i].cols
                 PROVE  FALSE
    OBVIOUS
  <1> DEFINE walked(i) == \A j \in Up(stmt, i) : stmt.nodes[j].place \in WalkedPlaces
             listed(i) == \E j \in Up(stmt, i) : stmt.nodes[j].place = "select"
             M == {i \in DOMAIN stmt.nodes : ~ walked(i) /\ ~ listed(i)}
             N == {<<i, "own">> : i \in M}
  <1>2. ASSUME NEW i \in DOMAIN stmt.nodes, NEW g \in Passes(stmt, x, N, i)
        PROVE  <<i, g>> \in N
    <2>1. CASE stmt.nodes[i].wildcard /\ g = "own"
      BY <2>1 DEF query_has_wildcard, NamesItsColumns
    <2>2. ASSUME g = "own", NEW j \in Children(stmt, i), stmt.nodes[j].place = "setop",
                 <<j, "own">> \in N
          PROVE  <<i, g>> \in N
      <3>1. ~ walked(j) /\ ~ listed(j)
        BY <2>2
      <3>2. PICK k \in Up(stmt, j) : stmt.nodes[k].place \notin WalkedPlaces
        BY <3>1
      <3>3. k # j
        BY <2>2, <3>2 DEF WalkedPlaces
      <3>4. k \in Up(stmt, i)
        BY <3>2, <3>3, UpStep
      <3>5. ~ listed(i)
        BY <3>1, UpDown
      <3> QED
        BY <2>2, <3>2, <3>4, <3>5
    <2>3. ASSUME NEW j \in Children(stmt, i), stmt.nodes[j].place = "select", <<j, "own">> \in N
          PROVE  FALSE
      <3>1. j \in DOMAIN stmt.nodes /\ ~ listed(j)
        BY <2>3 DEF Children
      <3>2. j \in Up(stmt, j)
        BY <3>1 DEF Up
      <3> QED
        BY <2>3, <3>1, <3>2
    <2>4. \A p \in N : p[2] = "own"
      OBVIOUS
    <2>5. stmt.nodes[i].unseen = "none"
      BY DEF NamesItsColumns
    <2> HIDE DEF N
    <2> QED
      BY <1>1, <1>2, <2>1, <2>2, <2>3, <2>4, <2>5, PassedOn
  <1>3. N \in SUBSET ((DOMAIN stmt.nodes) \X Forms)
    BY DEF Forms
  <1>4. <<1, f>> \in N
    <2> HIDE DEF N
    <2>1. \A i \in DOMAIN stmt.nodes : {i} \X Passes(stmt, x, N, i) \subseteq N
      BY <1>2
    <2> QED
      BY <1>3, <2>1 DEF Showing
  <1>5. walked(1)
    BY UpRoot DEF WellFormed, WalkedPlaces
  <1>6. 1 \in M
    <2> HIDE DEF M
    <2> QED
      BY <1>4
  <1> QED
    BY <1>5, <1>6

\* A statement that validate_and_authorize lets through refers only to
\* registered datasets, but for TABLE t and tables that bear the name of a CTE
\* of another scope; denied functions stay out of it.  If it names its columns
\* in the ways enforce_column_access looks at (no list of new names, no whole
\* rows, no asterisk below a subquery of a SELECT list) it shows no hidden one.
THEOREM StatementsGated ==
    ASSUME NEW stmt, WellFormed(stmt), NEW names, NEW schemas
    PROVE  GatedStatement(stmt, names, schemas)
  <1> DEFINE allowed == {Lower[n] : n \in names}
             cap == Max({1, Cardinality(allowed)})
             v == sql_validate(stmt, allowed, cap)
             denied == {enforce_column_access(stmt, schemas[d]) :
                          d \in v.datasets \cap DOMAIN schemas} \ {"ok"}
             va == validate_and_authorize(stmt, names, schemas)
  <1>1. SUFFICES ASSUME va.err = "ok", stmt.kind = "query"
                 PROVE  /\ BaseTables(stmt) \ (Stray(stmt) \cup Unmet(stmt)) \subseteq va.datasets
                        /\ (Stray(stmt) = {} /\ NamesItsColumns(stmt)) =>
                             \A x \in Shown(stmt, schemas) : is_visible(schemas[x[1]], x[2])
                        /\ \A i \in DOMAIN stmt.nodes :
                             stmt.nodes[i].funcs \cap DENIED_FUNCTIONS = {}
    BY DEF GatedStatement
  <1>2. va = IF v.err = "ok" /\ denied # {}
             THEN [err |-> CHOOSE e \in denied : TRUE, datasets |-> {}] ELSE v
    BY DEF validate_and_authorize
  <1>3. va = v /\ v.err = "ok" /\ denied = {}
    <2>1. "ok" \notin denied
      OBVIOUS
    <2> HIDE DEF denied, v, va
    <2>2. denied # {} => (CHOOSE e \in denied : TRUE) \in denied
      OBVIOUS
    <2> QED
      BY <1>1, <1>2, <2>1, <2>2
  <1>4. /\ BaseTables(stmt) \ (Stray(stmt) \cup Unmet(stmt)) \subseteq v.datasets
        /\ \A i \in DOMAIN stmt.nodes : stmt.nodes[i].funcs \cap DENIED_FUNCTIONS = {}
    <2> HIDE DEF allowed, cap
    <2> QED
      BY <1>3, ScopeKept
  <1>5. ASSUME Stray(stmt) = {}, NamesItsColumns(stmt), NEW x \in Shown(stmt, schemas)
        PROVE  is_visible(schemas[x[1]], x[2])
    <2> HIDE DEF v, va
    <2> DEFINE y == <<x[1], Lower[x[2]]>>
    <2>1. /\ \E f : <<1, f>> \in Showing(stmt, y)
          /\ x[1] \in DOMAIN schemas /\ x[2] \in Range(schemas[x[1]].columns)
      BY DEF Shown
    <2>6. Unmet(stmt) = {}
      BY <1>5 DEF Unmet, Met, NamesItsColumns
    <2>7. y[1] = x[1] /\ y[2] = Lower[x[2]]
      OBVIOUS
    <2> HIDE DEF y
    <2>2. x[1] \in v.datasets \cap DOMAIN schemas
      BY <1>4, <1>5, <2>1, <2>6, <2>7, ShownIsBase
    <2> DEFINE s == schemas[x[1]]
    <2>3. enforce_column_access(stmt, s) = "ok"
      BY <1>3, <2>2
    <2> HIDE DEF s
    <2>4. CASE FilterActive(s.projection_filter)
      <3>1. \E i \in DOMAIN stmt.nodes : Lower[x[2]] \in stmt.nodes[i].cols
        BY <1>1, <1>5, <2>1, <2>3, <2>4, <2>7, ColumnAccess, ShownIsNamed
      <3> QED
        BY <1>1, <2>1, <2>3, <2>4, <3>1, ColumnAccess DEF s
    <2>5. CASE ~ FilterActive(s.projection_filter)
      BY <2>5 DEF FilterActive, is_visible, Allows, s
    <2> QED
      BY <2>4, <2>5
  <1> QED
    BY <1>3, <1>4, <1>5

-----------------------------------------------------------------------------
(***************************************************************************)
(* The rewriting of identifiers.                                           *)
(***************************************************************************)

\* The maps of canonicalize_identifiers: from the lower-case form of a name
\* to a spelling of it.
Spells(map) == \A n \in DOMAIN map : Lower[map[n]] = n

LowerAll(S) == {Lower[t] : t \in S}
Rewritten(map, S, met) == {IF t \in met THEN Rewrite(map, t) ELSE t : t \in S}

LEMMA RewriteSame ==
    ASSUME NEW map, Spells(map), NEW S, NEW met
    PROVE  LowerAll(Rewritten(map, S, met)) = LowerAll(S)
  <1>1. \A u \in S : Lower[Rewrite(map, u)] = Lower[u]
    BY DEF Spells, Rewrite
  <1> QED
    BY <1>1 DEF LowerAll, Rewritten

\* Canonical spelling does not change what a statement refers to
\* (canonicalize_identifiers), whatever the maps spell.
THEOREM SpellingKept ==
    ASSUME NEW stmt, WellFormed(stmt), NEW tables, Spells(tables), NEW columns, Spells(columns)
    PROVE  CanonicalSame(stmt, tables, columns)
  <1> DEFINE met(i) == Met(stmt.nodes[i])
             new(i) == [stmt.nodes[i] EXCEPT !.tables = {IF t \in met(i) THEN Rewrite(tables, t)
                                                         ELSE t : t \in @},
                                             !.cols = {Rewrite(columns, c) : c \in @}]
             c == canonicalize_identifiers(stmt, tables, columns)
  <1>1. c.nodes = [i \in DOMAIN stmt.nodes |-> new(i)]
    BY DEF canonicalize_identifiers, WellFormed
  <1>2. SUFFICES ASSUME NEW i \in DOMAIN stmt.nodes
                 PROVE  /\ LowerAll(c.nodes[i].tables) = LowerAll(stmt.nodes[i].tables)
                        /\ LowerAll(c.nodes[i].cols) = LowerAll(stmt.nodes[i].cols)
    BY DEF CanonicalSame, LowerAll
  <1>3. /\ new(i).tables = Rewritten(tables, stmt.nodes[i].tables, met(i))
        /\ new(i).cols = Rewritten(columns, stmt.nodes[i].cols, stmt.nodes[i].cols)
    BY DEF WellFormed, Rewritten
  <1>4. c.nodes[i] = new(i)
    <2> HIDE DEF c, new
    <2> QED
      BY <1>1
  <1> HIDE DEF c, new
  <1> QED
    BY <1>3, <1>4, RewriteSame

-----------------------------------------------------------------------------
(***************************************************************************)
(* Starting up: lists without repetitions.                                 *)
(***************************************************************************)
\* What a list without repetitions is without its head.
LEMMA TailRest ==
    ASSUME NEW T, NEW q \in Seq(T), q # <<>>, IsInjective(q)
    PROVE  /\ Head(q) \in T /\ Head(q) \in Range(q)
           /\ Tail(q) \in Seq(T) /\ IsInjective(Tail(q))
           /\ Range(Tail(q)) = Range(q) \ {Head(q)}
  <1> DEFINE t == Tail(q)
             n == Len(q)
  <1>1. /\ n \in Nat /\ n >= 1 /\ DOMAIN q = 1 .. n /\ Head(q) = q[1] /\ t \in Seq(T)
        /\ DOMAIN t = 1 .. n - 1 /\ \A i \in 1 .. n - 1 : t[i] = q[i + 1]
    OBVIOUS
  <1> HIDE DEF t, n
  <1>2. \A i \in 1 .. n - 1 : i + 1 \in 1 .. n /\ i + 1 # 1
    BY <1>1
  <1>3. \A i \in 1 .. n : i = 1 \/ (i - 1 \in 1 .. n - 1 /\ i - 1 + 1 = i)
    BY <1>1
  <1>4. 1 \in 1 .. n
    BY <1>1
  <1>5. IsInjective(t)
    <2>1. ASSUME NEW i \in 1 .. n - 1, NEW j \in 1 .. n - 1, t[i] = t[j] PROVE i = j
      <3> DEFINE a == i + 1
                 b == j + 1
      <3>1. q[a] = q[b] /\ a \in DOMAIN q /\ b \in DOMAIN q
        BY <1>1, <1>2, <2>1
      <3> HIDE DEF a, b
      <3>2. a = b
        BY <3>1, Zenon DEF IsInjective
      <3> QED
        BY <1>1, <3>2 DEF a, b
    <2> QED
      BY <1>1, <2>1 DEF IsInjective
  <1>6. Range(t) \subseteq Range(q) \ {q[1]}
    <2>1. ASSUME NEW i \in 1 .. n - 1 PROVE t[i] \in Range(q) /\ t[i] # q[1]
      <3> DEFINE a == i + 1
      <3>1. t[i] = q[a] /\ a \in DOMAIN q /\ 1 \in DOMAIN q /\ a # 1
        BY <1>1, <1>2, <1>4
      <3> HIDE DEF a
      <3> QED
        BY <3>1, Zenon DEF IsInjective, Range
    <2> QED
      BY <1>1, <2>1 DEF Range
  <1>7. Range(q) \ {q[1]} \subseteq Range(t)
    <2>1. ASSUME NEW i \in 1 .. n, i # 1 PROVE q[i] \in Range(t)
      <3>1. i - 1 \in 1 .. n - 1 /\ t[i - 1] = q[i]
        BY <1>1, <1>3, <2>1
      <3> QED
        BY <1>1, <3>1 DEF Range
    <2> QED
      BY <1>1, <2>1 DEF Range
  <1>8. q[1] \in Range(q) /\ q[1] \in T
    BY <1>1, <1>4 DEF Range
  <1> QED
    BY <1>1, <1>5, <1>6, <1>7, <1>8 DEF t

\* Two lists that share nothing, one after the other.
LEMMA JoinInjective ==
    ASSUME NEW T, NEW a \in Seq(T), NEW b \in Seq(T), IsInjective(a), IsInjective(b),
           Range(a) \cap Range(b) = {}
    PROVE  a \o b \in Seq(T) /\ IsInjective(a \o b) /\ Range(a \o b) = Range(a) \cup Range(b)
  <1> DEFINE c == a \o b
             m == Len(a)
             n == Len(b)
  <1>1. /\ m \in Nat /\ n \in Nat /\ DOMAIN a = 1 .. m /\ DOMAIN b = 1 .. n
        /\ c \in Seq(T) /\ DOMAIN c = 1 .. m + n
        /\ \A i \in 1 .. m + n : c[i] = IF i <= m THEN a[i] ELSE b[i - m]
    OBVIOUS
  <1> HIDE DEF c, m, n
  <1>2. \A i \in 1 .. m + n : (i <= m /\ i \in 1 .. m) \/ (~ (i <= m) /\ i - m \in 1 .. n)
    BY <1>1
  <1>3. \A i \in 1 .. m : i \in 1 .. m + n /\ i <= m
    BY <1>1
  <1>4. \A i \in 1 .. n : m + i \in 1 .. m + n /\ ~ (m + i <= m) /\ m + i - m = i
    BY <1>1
  <1>5. \A i \in 1 .. m : a[i] \in Range(a)
    BY <1>1 DEF Range
  <1>6. \A i \in 1 .. n : b[i] \in Range(b)
    BY <1>1 DEF Range
  <1>7. ASSUME NEW i \in 1 .. m + n, NEW j \in 1 .. m + n, c[i] = c[j] PROVE i = j
    <2>1. CASE i <= m /\ j <= m
      BY <1>1, <1>2, <1>7, <2>1 DEF IsInjective
    <2>2. CASE ~ (i <= m) /\ ~ (j <= m)
      <3>1. i - m = j - m
        BY <1>1, <1>2, <1>7, <2>2 DEF IsInjective
      <3> QED
        BY <1>1, <3>1
    <2>3. CASE i <= m /\ ~ (j <= m)
      BY <1>1, <1>2, <1>5, <1>6, <1>7, <2>3
    <2>4. CASE ~ (i <= m) /\ j <= m
      BY <1>1, <1>2, <1>5, <1>6, <1>7, <2>4
    <2> QED
      BY <2>1, <2>2, <2>3, <2>4
  <1>8. \A i \in 1 .. m + n : c[i] \in Range(a) \cup Range(b)
    BY <1>1, <1>2, <1>5, <1>6
  <1>9. Range(a) \subseteq Range(c)
    BY <1>1, <1>3 DEF Range
  <1>10. Range(b) \subseteq Range(c)
    <2>1. ASSUME NEW i \in 1 .. n PROVE b[i] \in Range(c)
      <3>1. c[m + i] = b[i]
        BY <1>1, <1>4
      <3> QED
        BY <1>1, <1>4, <3>1 DEF Range
    <2> QED
      BY <1>1, <2>1 DEF Range
  <1>11. Range(c) \subseteq Range(a) \cup Range(b)
    BY <1>1, <1>8 DEF Range
  <1> QED
    BY <1>1, <1>7, <1>9, <1>10, <1>11 DEF c, IsInjective

\* A list without repetitions that gets one more.
LEMMA AppendNew ==
    ASSUME NEW T, NEW a \in Seq(T), NEW e \in T, IsInjective(a), e \notin Range(a)
    PROVE  /\ Append(a, e) \in Seq(T) /\ IsInjective(Append(a, e))
           /\ Range(Append(a, e)) = Range(a) \cup {e} /\ Len(Append(a, e)) = Len(a) + 1
           /\ Append(a, e)[Len(a) + 1] = e
           /\ \A k \in 1 .. Len(a) : Append(a, e)[k] = a[k]
  <1> DEFINE c == Append(a, e)
             m == Len(a)
  <1>1. /\ m \in Nat /\ DOMAIN a = 1 .. m /\ c \in Seq(T) /\ Len(c) = m + 1
        /\ DOMAIN c = 1 .. m + 1 /\ c[m + 1] = e /\ \A k \in 1 .. m : c[k] = a[k]
    OBVIOUS
  <1> HIDE DEF c, m
  <1>2. \A k \in 1 .. m + 1 : k = m + 1 \/ (k \in 1 .. m /\ k # m + 1)
    BY <1>1
  <1>3. m + 1 \in 1 .. m + 1 /\ \A k \in 1 .. m : k \in 1 .. m + 1
    BY <1>1
  <1>4. \A k \in 1 .. m : a[k] \in Range(a)
    BY <1>1 DEF Range
  <1>5. ASSUME NEW i \in 1 .. m + 1, NEW j \in 1 .. m + 1, c[i] = c[j] PROVE i = j
    BY <1>1, <1>2, <1>4, <1>5 DEF IsInjective
  <1>6. Range(c) = Range(a) \cup {e}
    <2>1. Range(c) \subseteq Range(a) \cup {e}
      BY <1>1, <1>2, <1>4 DEF Range
    <2>2. Range(a) \subseteq Range(c)
      BY <1>1, <1>3 DEF Range
    <2>3. e \in Range(c)
      BY <1>1, <1>3 DEF Range
    <2> QED
      BY <2>1, <2>2, <2>3
  <1> QED
    BY <1>1, <1>5, <1>6 DEF c, m, IsInjective

\* A list without repetitions has as many elements as places.
LEMMA RangeCounted ==
    ASSUME NEW n \in Nat, NEW a \in Seq(1 .. n), IsInjective(a)
    PROVE  /\ Len(a) <= n
           /\ Len(a) = n => Range(a) = 1 .. n
           /\ Range(a) = 1 .. n => Len(a) = n
  <1> DEFINE m == Len(a)
             S == Range(a)
  <1>1. m \in Nat /\ a \in [1 .. m -> 1 .. n] /\ S \subseteq 1 .. n
    BY DEF Range
  <1>2. S = {a[i] : i \in 1 .. m} /\ a \in [1 .. m -> S]
    BY DEF Range
  <1> HIDE DEF m, S
  <1>3. a \in Bijection(1 .. m, S)
    BY <1>1, <1>2 DEF Bijection, Injection, Surjection, IsInjective
  <1>4. Cardinality(S) = m /\ IsFiniteSet(S)
    <2>1. ExistsBijection(1 .. m, S)
      BY <1>3 DEF ExistsBijection
    <2>2. IsFiniteSet(1 .. m)
      BY <1>1, FS_Interval
    <2> QED
      BY <1>1, <2>1, <2>2, FS_CountingElements, FS_Bijection
  <1>5. IsFiniteSet(1 .. n) /\ Cardinality(1 .. n) = n
    <2>1. IsFiniteSet(1 .. n) /\ Cardinality(1 .. n) = IF 1 > n THEN 0 ELSE n - 1 + 1
      BY FS_Interval
    <2> QED
      BY <2>1
  <1>6. m <= n /\ (n = m => 1 .. n = S)
    <2> DEFINE all == 1 .. n
    <2>1. IsFiniteSet(all) /\ S \in SUBSET all /\ Cardinality(all) = n
      BY <1>1, <1>5
    <2> HIDE DEF all
    <2>2. Cardinality(S) <= Cardinality(all) /\ (Cardinality(all) = Cardinality(S) => all = S)
      BY <2>1, FS_Subset
    <2> QED
      BY <1>4, <2>1, <2>2 DEF all
  <1> QED
    BY <1>4, <1>5, <1>6 DEF m, S

-----------------------------------------------------------------------------
(***************************************************************************)
(* Starting up: Kahn's algorithm.                                          *)
(***************************************************************************)
\* The number of a dataset, found by its name.
LEMMA IdxOf ==
    ASSUME NEW T, NEW names \in Seq(T), IsInjective(names), NEW x \in Range(names)
    PROVE  /\ NameToIdx(names, x) \in 1 .. Len(names) /\ names[NameToIdx(names, x)] = x
           /\ \A j \in 1 .. Len(names) : names[j] = x => NameToIdx(names, x) = j
  <1>1. PICK j \in 1 .. Len(names) : names[j] = x
    BY DEF Range
  <1>2. {i \in DOMAIN names : names[i] = x} = {j}
    BY <1>1 DEF IsInjective
  <1>3. Max({j}) = j
    <2>1. \A y \in {j} : j >= y
      OBVIOUS
    <2> QED
      BY <2>1 DEF Max
  <1>4. NameToIdx(names, x) = j
    BY <1>2, <1>3, Zenon DEF NameToIdx
  <1>5. \A i \in 1 .. Len(names) : names[i] = x => i = j
    BY <1>1 DEF IsInjective
  <1> QED
    BY <1>1, <1>4, <1>5

\* The dependencies that wait for a dataset not yet in done, and the datasets
\* a list of names stands for.
StillWaiting(names, list, done) ==
    {p \in DOMAIN list : list[p] \in Range(names) /\ NameToIdx(names, list[p]) \notin done}

Targets(names, list) == {NameToIdx(names, x) : x \in Range(list) \cap Range(names)}

\* Those that wait for dataset node are its edges.
Splits(names, depends, i, done, node) ==
    /\ Cardinality(StillWaiting(names, depends[i], done)) \in Nat
    /\ Cardinality(StillWaiting(names, depends[i], done \cup {node})) \in Nat
    /\ EdgesTo(names, depends, i, node) \in Nat
    /\ Cardinality(StillWaiting(names, depends[i], done))
         = Cardinality(StillWaiting(names, depends[i], done \cup {node}))
           + EdgesTo(names, depends, i, node)

LEMMA WaitingSplits ==
    ASSUME NEW T, NEW names, NEW depends, NEW i, depends[i] \in Seq(T), NEW done, NEW node,
           node \notin done
    PROVE  Splits(names, depends, i, done, node)
  <1> DEFINE list == depends[i]
             all == 1 .. Len(list)
             A == StillWaiting(names, list, done)
             B == StillWaiting(names, list, done \cup {node})
             H == {p \in DOMAIN list : list[p] \in Range(names) /\ NameToIdx(names, list[p]) = node}
  <1>1. IsFiniteSet(all) /\ DOMAIN list = all
    <2>1. Len(list) \in Nat /\ 1 \in Int
      OBVIOUS
    <2> QED
      BY <2>1, FS_Interval, SMTT(30)
  <1>2. A \in SUBSET all /\ B \in SUBSET all /\ H \in SUBSET all
    BY <1>1 DEF StillWaiting
  <1>3. A = B \cup H /\ B \cap H = {}
    BY DEF StillWaiting
  <1>4. EdgesTo(names, depends, i, node) = Cardinality(H)
    BY DEF EdgesTo
  <1> HIDE DEF A, B, H, all
  <1>5. IsFiniteSet(A) /\ IsFiniteSet(B) /\ IsFiniteSet(H)
    BY <1>1, <1>2, FS_Subset
  <1>6. Cardinality(A) \in Nat /\ Cardinality(B) \in Nat /\ Cardinality(H) \in Nat
    BY <1>5, FS_CardinalityType
  <1>7. Cardinality(A) = Cardinality(B) + Cardinality(H) - Cardinality(B \cap H)
    BY <1>3, <1>5, FS_Union
  <1>8. Cardinality(B \cap H) = 0
    BY <1>3, FS_EmptySet
  <1>9. Cardinality(A) = Cardinality(B) + Cardinality(H)
    BY <1>6, <1>7, <1>8
  <1> QED
    BY <1>4, <1>6, <1>9 DEF A, B, Splits

\* None waits once all it depends on are done.
LEMMA NoneWaits ==
    ASSUME NEW T, NEW names, NEW list \in Seq(T), NEW done
    PROVE  /\ Cardinality(StillWaiting(names, list, done)) \in Nat
           /\ Cardinality(StillWaiting(names, list, done)) = 0 <=> Targets(names, list) \subseteq done
  <1> DEFINE A == StillWaiting(names, list, done)
             all == 1 .. Len(list)
  <1>1. IsFiniteSet(all) /\ DOMAIN list = all
    <2>1. Len(list) \in Nat /\ 1 \in Int
      OBVIOUS
    <2> QED
      BY <2>1, FS_Interval, SMTT(30)
  <1>2. A \in SUBSET all
    BY <1>1 DEF StillWaiting
  <1>3. A = {} <=> Targets(names, list) \subseteq done
    BY DEF StillWaiting, Targets, Range
  <1> HIDE DEF A, all
  <1>4. IsFiniteSet(A)
    BY <1>1, <1>2, FS_Subset
  <1>5. Cardinality(A) \in Nat /\ (Cardinality(A) = 0 <=> A = {})
    BY <1>4, FS_CardinalityType, FS_EmptySet
  <1> QED
    BY <1>3, <1>5 DEF A

\* The numbers 1 .. n.
UpTo(n) == [i \in 1 .. n |-> i]

\* Some of the numbers, in their order.
LEMMA NumberedList ==
    ASSUME NEW n \in Nat, NEW S \in SUBSET (1 .. n)
    PROVE  /\ Selected(UpTo(n), S) \in Seq(1 .. n) /\ IsInjective(Selected(UpTo(n), S))
           /\ Range(Selected(UpTo(n), S)) = S
  <1> DEFINE list == UpTo(n)
             D == 1 .. n
  <1>1. list \in Seq(D) /\ IsInjective(list) /\ Range(list) = D
    BY DEF UpTo, IsInjective, Range
  <1> HIDE DEF list, D
  <1>2. Selected(list, S) \in Seq(D) /\ Range(Selected(list, S)) = D \cap S /\ IsInjective(Selected(list, S))
    BY <1>1, SelectedRange, SelectedInjective
  <1> QED
    BY <1>2 DEF list, D

\* The datasets of order come after all they depend on.
Sorted(names, depends, order) ==
    \A k \in 1 .. Len(order) :
        Targets(names, depends[order[k]]) \subseteq {order[j] : j \in 1 .. k - 1}

\* What the loop keeps: the queue has the datasets that wait for nothing and
\* are not in the order.
KahnInv(names, depends, queue, order, degree) ==
    /\ queue \in Seq(1 .. Len(names)) /\ order \in Seq(1 .. Len(names))
    /\ IsInjective(queue) /\ IsInjective(order) /\ Range(queue) \cap Range(order) = {}
    /\ \A i \in 1 .. Len(names) :
         /\ degree[i] = Cardinality(StillWaiting(names, depends[i], Range(order)))
         /\ i \in Range(order) \cup Range(queue)
              <=> Targets(names, depends[i]) \subseteq Range(order)
    /\ Sorted(names, depends, order)

\* Lists of names, one for each dataset.
IsGraph(T, names, depends) ==
    /\ names \in Seq(T) /\ IsInjective(names)
    /\ depends = [i \in 1 .. Len(names) |-> depends[i]]
    /\ \A i \in 1 .. Len(names) : depends[i] \in Seq(T)

\* The loop starts with the invariant.
LEMMA KahnStarts ==
    ASSUME NEW T, NEW names, NEW depends, IsGraph(T, names, depends)
    PROVE  LET s == KahnStart(names, depends)
           IN KahnInv(names, depends, s.queue, s.order, s.degree)
  <1> DEFINE n == Len(names)
             degree == InDegree(names, depends)
             ready == {i \in DOMAIN names : degree[i] = 0}
             queue == Selected(UpTo(n), ready)
             s == KahnStart(names, depends)
  <1>1. n \in Nat /\ DOMAIN names = 1 .. n /\ \A i \in 1 .. n : depends[i] \in Seq(T)
    BY DEF IsGraph
  <1>2. s.queue = queue /\ s.order = <<>> /\ s.degree = degree
    BY <1>1 DEF KahnStart, UpTo
  <1>3. Range(<<>>) = {} /\ <<>> \in Seq(1 .. n) /\ IsInjective(<<>>) /\ Len(<<>>) = 0
    BY DEF Range, IsInjective
  <1>4. ASSUME NEW i \in 1 .. n
        PROVE  /\ degree[i] = Cardinality(StillWaiting(names, depends[i], {}))
               /\ degree[i] = 0 <=> Targets(names, depends[i]) \subseteq {}
    <2>1. degree[i] = Cardinality({p \in DOMAIN depends[i] : depends[i][p] \in Range(names)})
      BY <1>1 DEF InDegree
    <2>2. StillWaiting(names, depends[i], {}) = {p \in DOMAIN depends[i] : depends[i][p] \in Range(names)}
      BY DEF StillWaiting
    <2> DEFINE list == depends[i]
               W == StillWaiting(names, list, {})
    <2>3. list \in Seq(T)
      BY <1>1
    <2>4. degree[i] = Cardinality(W)
      BY <2>1, <2>2
    <2> HIDE DEF degree, list
    <2>5. Cardinality(W) = 0 <=> Targets(names, list) \subseteq {}
      BY <2>3, NoneWaits
    <2> HIDE DEF W
    <2>6. degree[i] = 0 <=> Targets(names, list) \subseteq {}
      BY <2>4, <2>5
    <2> QED
      BY <2>4, <2>6 DEF W, list
  <1>5. ready \in SUBSET (1 .. n)
    BY <1>1
  <1>6. queue \in Seq(1 .. n) /\ IsInjective(queue) /\ Range(queue) = ready
    <2> HIDE DEF ready
    <2> QED
      BY <1>1, <1>5, NumberedList
  <1> HIDE DEF degree, queue
  <1>7. \A i \in 1 .. n : i \in ready <=> degree[i] = 0
    BY <1>1
  <1> HIDE DEF ready, n
  <1>8. Sorted(names, depends, <<>>)
    BY <1>3 DEF Sorted
  <1>9. KahnInv(names, depends, queue, <<>>, degree)
    BY <1>3, <1>4, <1>6, <1>7, <1>8 DEF KahnInv, n
  <1> QED
    BY <1>2, <1>9

\* Small arithmetic of the degrees.
LEMMA DegreeDrops ==
    ASSUME NEW a \in Nat, NEW b \in Nat, NEW h \in Nat, a = b + h
    PROVE  a - h = b /\ ((h > 0 /\ a = h) <=> (b = 0 /\ a # 0))
  OBVIOUS

\* An order that gets one whose dependencies it has stays sorted.
LEMMA SortedAppend ==
    ASSUME NEW T, NEW names, NEW depends, NEW order \in Seq(T), NEW node \in T,
           Sorted(names, depends, order), Targets(names, depends[node]) \subseteq Range(order)
    PROVE  Sorted(names, depends, Append(order, node))
  <1> DEFINE c == Append(order, node)
             m == Len(order)
             Needed(i) == Targets(names, depends[i])
  <1>1. /\ m \in Nat /\ Len(c) = m + 1 /\ c[m + 1] = node /\ DOMAIN order = 1 .. m
        /\ \A k \in 1 .. m : c[k] = order[k]
    OBVIOUS
  <1>2. \A k \in 1 .. m : Needed(order[k]) \subseteq {order[j] : j \in 1 .. k - 1}
    BY DEF Sorted
  <1> HIDE DEF c, Needed, m
  <1>3. ASSUME NEW k \in 1 .. m + 1 PROVE Needed(c[k]) \subseteq {c[j] : j \in 1 .. k - 1}
    <2>1. CASE k \in 1 .. m
      <3>1. \A j \in 1 .. k - 1 : j \in 1 .. m
        BY <1>1, <2>1
      <3>2. c[k] = order[k]
        BY <1>1, <2>1
      <3>3. \A j \in 1 .. k - 1 : c[j] = order[j]
        BY <1>1, <3>1
      <3>4. {c[j] : j \in 1 .. k - 1} = {order[j] : j \in 1 .. k - 1}
        BY <3>3
      <3> QED
        BY <1>2, <2>1, <3>2, <3>4
    <2>2. CASE k = m + 1
      <3>1. k - 1 = m /\ c[k] = node
        BY <1>1, <2>2
      <3>2. Range(order) = {order[j] : j \in 1 .. m}
        BY <1>1 DEF Range
      <3>3. {c[j] : j \in 1 .. m} = {order[j] : j \in 1 .. m}
        BY <1>1
      <3> QED
        BY <3>1, <3>2, <3>3 DEF Needed
    <2>3. k \in 1 .. m \/ k = m + 1
      BY <1>1
    <2> QED
      BY <2>1, <2>2, <2>3
  <1> QED
    BY <1>1, <1>3 DEF Sorted, c, Needed

\* One turn keeps the invariant and adds one dataset to the order.
LEMMA KahnTurns ==
    ASSUME NEW T, NEW names, NEW depends, IsGraph(T, names, depends), NEW s,
           KahnInv(names, depends, s.queue, s.order, s.degree), s.queue # <<>>
    PROVE  LET t == KahnTurn(names, depends, s)
           IN KahnInv(names, depends, t.queue, t.order, t.degree) /\ Len(t.order) = Len(s.order) + 1
  <1> DEFINE n == Len(names)
             q == s.queue
             o == s.order
             degree == s.degree
             D == 1 .. n
             done == Range(o)
             node == Head(q)
             more == done \cup {node}
             hit(i) == EdgesTo(names, depends, i, node)
             released == {i \in DOMAIN names : hit(i) > 0 /\ degree[i] = hit(i)}
             next == Selected(UpTo(n), released)
             t == KahnTurn(names, depends, s)
             lower == [i \in DOMAIN names |-> degree[i] - hit(i)]
             Needed(i) == Targets(names, depends[i])
             W(i) == Cardinality(StillWaiting(names, depends[i], done))
             V(i) == Cardinality(StillWaiting(names, depends[i], more))
  <1>1. n \in Nat /\ DOMAIN names = D /\ \A i \in D : depends[i] \in Seq(T)
    BY DEF IsGraph
  <1>2. t.queue = Tail(q) \o next /\ t.order = Append(o, node) /\ t.degree = lower
    BY <1>1 DEF KahnTurn, UpTo
  <1>3. /\ q \in Seq(D) /\ o \in Seq(D) /\ IsInjective(q) /\ IsInjective(o)
        /\ Range(q) \cap done = {} /\ Sorted(names, depends, o)
        /\ \A i \in D : degree[i] = W(i) /\ (i \in done \cup Range(q) <=> Needed(i) \subseteq done)
    BY DEF KahnInv
  <1>4. lower = [i \in D |-> degree[i] - hit(i)] /\ released = {i \in D : hit(i) > 0 /\ degree[i] = hit(i)}
    BY <1>1
  <1>5. q # <<>>
    OBVIOUS
  <1> HIDE DEF t, lower, released, W, V, hit, Needed, D, q, o, degree, done
  <1>6. /\ node \in D /\ node \in Range(q) /\ Tail(q) \in Seq(D) /\ IsInjective(Tail(q))
        /\ Range(Tail(q)) = Range(q) \ {node}
    BY <1>3, <1>5, TailRest
  <1>7. node \notin done
    BY <1>3, <1>6
  <1> HIDE DEF node
  <1>8. ASSUME NEW i \in D
        PROVE  /\ W(i) \in Nat /\ V(i) \in Nat /\ hit(i) \in Nat /\ W(i) = V(i) + hit(i)
               /\ V(i) = 0 <=> Needed(i) \subseteq more
               /\ W(i) = 0 <=> Needed(i) \subseteq done
    <2>1. depends[i] \in Seq(T)
      BY <1>1, <1>8
    <2>2. W(i) \in Nat /\ V(i) \in Nat /\ hit(i) \in Nat /\ W(i) = V(i) + hit(i)
      <3>1. Splits(names, depends, i, done, node)
        BY <1>7, <2>1, WaitingSplits
      <3> QED
        BY <3>1 DEF W, V, hit, Splits
    <2>3. (V(i) = 0 <=> Needed(i) \subseteq more) /\ (W(i) = 0 <=> Needed(i) \subseteq done)
      <3> DEFINE list == depends[i]
      <3>1. list \in Seq(T)
        BY <2>1
      <3> HIDE DEF list, more
      <3>2. /\ Cardinality(StillWaiting(names, list, more)) = 0 <=> Targets(names, list) \subseteq more
            /\ Cardinality(StillWaiting(names, list, done)) = 0 <=> Targets(names, list) \subseteq done
        BY <3>1, NoneWaits
      <3> QED
        BY <3>2 DEF V, W, list, Needed
    <2> QED
      BY <2>2, <2>3
  <1>9. ASSUME NEW i \in D
        PROVE  /\ lower[i] = V(i)
               /\ i \in released <=> (Needed(i) \subseteq more /\ ~ (Needed(i) \subseteq done))
    <2>1. /\ W(i) - hit(i) = V(i)
          /\ (hit(i) > 0 /\ W(i) = hit(i)) <=> (V(i) = 0 /\ W(i) # 0)
      BY <1>8, DegreeDrops
    <2> QED
      BY <1>3, <1>4, <1>8, <2>1
  <1>10. /\ next \in Seq(D) /\ IsInjective(next) /\ Range(next) = released
    <2>1. released \in SUBSET (1 .. n)
      BY <1>4 DEF D
    <2> QED
      BY <1>1, <2>1, NumberedList DEF D
  <1>11. released \cap (Range(q) \cup done) = {}
    BY <1>3, <1>4, <1>9
  <1> HIDE DEF next
  <1>12. /\ t.queue \in Seq(D) /\ IsInjective(t.queue)
         /\ Range(t.queue) = (Range(q) \ {node}) \cup released
    <2> DEFINE a == Tail(q)
    <2>1. a \in Seq(D) /\ IsInjective(a) /\ Range(a) \cap Range(next) = {}
      BY <1>6, <1>10, <1>11
    <2>2. Range(a) = Range(q) \ {node} /\ t.queue = a \o next
      BY <1>2, <1>6
    <2> HIDE DEF a
    <2> QED
      BY <1>10, <2>1, <2>2, JoinInjective
  <1>13. /\ t.order \in Seq(D) /\ IsInjective(t.order) /\ Range(t.order) = more
         /\ Len(t.order) = Len(o) + 1
    BY <1>2, <1>3, <1>6, <1>7, AppendNew DEF done
  <1>14. Sorted(names, depends, t.order)
    <2>1. Targets(names, depends[node]) \subseteq Range(o)
      BY <1>3, <1>6 DEF Needed, done
    <2> QED
      BY <1>2, <1>3, <1>6, <2>1, SortedAppend
  <1>15. Range(t.queue) \cap more = {}
    BY <1>3, <1>6, <1>11, <1>12
  <1>16. \A i \in D : i \in more \cup Range(t.queue) <=> Needed(i) \subseteq more
    BY <1>3, <1>6, <1>9, <1>12
  <1>17. \A i \in D : t.degree[i] = V(i)
    BY <1>2, <1>9
  <1>18. KahnInv(names, depends, t.queue, t.order, t.degree)
    <2>1. \A i \in 1 .. Len(names) :
             /\ t.degree[i] = Cardinality(StillWaiting(names, depends[i], Range(t.order)))
             /\ i \in Range(t.order) \cup Range(t.queue)
                  <=> Targets(names, depends[i]) \subseteq Range(t.order)
      BY <1>13, <1>16, <1>17 DEF V, D, Needed
    <2> QED
      BY <1>12, <1>13, <1>14, <1>15, <2>1 DEF KahnInv, D
  <1> QED
    BY <1>13, <1>18 DEF o, t

\* The states of the loop that keep the invariant.
KahnStates(names, depends) ==
    {s \in [queue : Seq(1 .. Len(names)), order : Seq(1 .. Len(names)),
            degree : [1 .. Len(names) -> Nat]] :
        KahnInv(names, depends, s.queue, s.order, s.degree)}

\* A record with the invariant is such a state.
LEMMA KahnTyped ==
    ASSUME NEW T, NEW names, NEW depends, IsGraph(T, names, depends),
           NEW q, NEW o, NEW d, KahnInv(names, depends, q, o, d),
           d = [i \in DOMAIN names |-> d[i]]
    PROVE  [queue |-> q, order |-> o, degree |-> d] \in KahnStates(names, depends)
  <1> DEFINE n == Len(names)
             s == [queue |-> q, order |-> o, degree |-> d]
  <1>1. n \in Nat /\ DOMAIN names = 1 .. n /\ \A i \in 1 .. n : depends[i] \in Seq(T)
    BY DEF IsGraph
  <1>2. ASSUME NEW i \in 1 .. n PROVE d[i] \in Nat
    <2>1. d[i] = Cardinality(StillWaiting(names, depends[i], Range(o)))
      BY <1>2 DEF KahnInv
    <2> DEFINE list == depends[i]
    <2>2. list \in Seq(T)
      BY <1>1, <1>2
    <2> HIDE DEF list
    <2>3. Cardinality(StillWaiting(names, list, Range(o))) \in Nat
      BY <2>2, NoneWaits
    <2> QED
      BY <2>1, <2>3 DEF list
  <1>3. d \in [1 .. n -> Nat]
    BY <1>1, <1>2
  <1>4. q \in Seq(1 .. n) /\ o \in Seq(1 .. n)
    BY DEF KahnInv
  <1>5. s \in [queue : Seq(1 .. n), order : Seq(1 .. n), degree : [1 .. n -> Nat]]
    BY <1>3, <1>4
  <1>6. s.queue = q /\ s.order = o /\ s.degree = d
    OBVIOUS
  <1> HIDE DEF s
  <1> QED
    BY <1>5, <1>6 DEF KahnStates, s

\* The start is such a state.
LEMMA KahnStartTyped ==
    ASSUME NEW T, NEW names, NEW depends, IsGraph(T, names, depends)
    PROVE  /\ KahnStart(names, depends) \in KahnStates(names, depends)
           /\ KahnStart(names, depends).order = <<>>
  <1> DEFINE s == KahnStart(names, depends)
             q == s.queue
             o == s.order
             d == s.degree
  <1>1. KahnInv(names, depends, q, o, d)
    BY KahnStarts
  <1>2. s = [queue |-> q, order |-> o, degree |-> d] /\ o = <<>>
    BY DEF KahnStart
  <1>3. d = [i \in DOMAIN names |-> d[i]]
    BY DEF KahnStart, InDegree
  <1> HIDE DEF s, q, o, d
  <1> QED
    BY <1>1, <1>2, <1>3, KahnTyped DEF s, o

\* A turn leads from one such state to another.
LEMMA KahnTurnTyped ==
    ASSUME NEW T, NEW names, NEW depends, IsGraph(T, names, depends),
           NEW s \in KahnStates(names, depends)
    PROVE  /\ KahnTurn(names, depends, s) \in KahnStates(names, depends)
           /\ s.queue = <<>> => KahnTurn(names, depends, s) = s
           /\ s.queue # <<>> => Len(KahnTurn(names, depends, s).order) = Len(s.order) + 1
  <1> DEFINE t == KahnTurn(names, depends, s)
             q == t.queue
             o == t.order
             d == t.degree
  <1>1. CASE s.queue = <<>>
    BY <1>1 DEF KahnTurn
  <1>2. CASE s.queue # <<>>
    <2>1. KahnInv(names, depends, q, o, d) /\ Len(o) = Len(s.order) + 1
      <3>1. KahnInv(names, depends, s.queue, s.order, s.degree)
        BY DEF KahnStates
      <3> QED
        BY <1>2, <3>1, KahnTurns
    <2>2. t = [queue |-> q, order |-> o, degree |-> d]
      BY <1>2 DEF KahnTurn
    <2>3. d = [i \in DOMAIN names |-> d[i]]
      BY <1>2 DEF KahnTurn
    <2> HIDE DEF t, q, o, d
    <2>4. t \in KahnStates(names, depends)
      BY <2>1, <2>2, <2>3, KahnTyped
    <2> QED
      BY <1>2, <2>1, <2>4 DEF t, o
  <1> QED
    BY <1>1, <1>2

\* What the loop ends with: an order of all datasets, or of those that can
\* be ordered.
KahnDone(names, depends, order) ==
    /\ order \in Seq(1 .. Len(names)) /\ IsInjective(order) /\ Sorted(names, depends, order)
    /\ \/ Len(order) = Len(names)
       \/ \A i \in 1 .. Len(names) :
            i \in Range(order) <=> Targets(names, depends[i]) \subseteq Range(order)

\* The invariant after as many turns as there are datasets.
LEMMA KahnEnds ==
    ASSUME NEW T, NEW names, NEW depends, IsGraph(T, names, depends)
    PROVE  KahnDone(names, depends, KahnOrder(names, depends))
  <1> DEFINE n == Len(names)
             State == KahnStates(names, depends)
             start == KahnStart(names, depends)
             E(k, a) == KahnTurn(names, depends, a)
             step == [x \in (1 .. n) \X State |-> E(x[1], x[2])]
             Def(h) == [k \in 0 .. n |-> IF k = 0 THEN start ELSE KahnTurn(names, depends, h[k - 1])]
             F == CHOOSE h : h = Def(h)
  <1>1. n \in Nat
    BY DEF IsGraph
  <1>2. start \in State /\ start.order = <<>>
    BY KahnStartTyped
  <1>3. \A k \in 1 .. n, a \in State : E(k, a) \in State
    BY KahnTurnTyped
  <1>4. \A h : Def(h) = [k \in 0 .. n |-> IF k = 0 THEN start ELSE E(k, h[k - 1])]
    OBVIOUS
  <1>5. KahnOrder(names, depends) = F[n].order
    BY DEF KahnOrder
  <1> HIDE DEF State, start, E, Def, n
  <1>6. step \in [(1 .. n) \X State -> State]
    BY <1>3
  <1>7. \A k \in 1 .. n, a \in State : step[<<k, a>>] = E(k, a)
    OBVIOUS
  <1> HIDE DEF step
  <1>8. PICK h : Unrolls(h, n, State, start, step)
    BY <1>1, <1>2, <1>6, RecursionExists
  <1>9. \A k \in 1 .. n : k - 1 \in 0 .. n /\ k \in 0 .. n
    BY <1>1
  <1>10. h = Def(h)
    <2>1. h = [k \in 0 .. n |-> h[k]] /\ h[0] = start
      BY <1>8 DEF Unrolls
    <2>2. \A k \in 1 .. n : h[k] = E(k, h[k - 1])
      BY <1>7, <1>8, <1>9 DEF Unrolls
    <2>3. \A k \in 0 .. n : k = 0 \/ k \in 1 .. n
      BY <1>1
    <2>4. \A k \in 0 .. n : h[k] = IF k = 0 THEN start ELSE E(k, h[k - 1])
      BY <2>1, <2>2, <2>3
    <2> QED
      BY <1>4, <2>1, <2>4
  <1>11. F = Def(F)
    BY <1>10
  <1> HIDE DEF F
  <1>12. F = [k \in 0 .. n |-> F[k]] /\ F[0] = start /\ \A k \in 1 .. n : F[k] = E(k, F[k - 1])
    <2> DEFINE g == [k \in 0 .. n |-> IF k = 0 THEN start ELSE E(k, F[k - 1])]
    <2>1. g = [k \in 0 .. n |-> g[k]]
      OBVIOUS
    <2>2. g[0] = start /\ \A k \in 1 .. n : g[k] = E(k, F[k - 1])
      BY <1>1
    <2>3. F = g
      BY <1>4, <1>11
    <2> HIDE DEF g
    <2> QED
      BY <2>1, <2>2, <2>3
  <1>13. F \in [0 .. n -> State]
    <2>1. \A k \in 1 .. n : F[k - 1] \in State => F[k] = step[<<k, F[k - 1]>>]
      BY <1>7, <1>12
    <2>2. Unrolls(F, n, State, start, step)
      BY <1>1, <1>2, <1>6, <1>12, <2>1, RecursionTyped
    <2> QED
      BY <2>2 DEF Unrolls
  <1> DEFINE good == {k \in 0 .. n : F[k].queue = <<>> \/ Len(F[k].order) = k}
  <1>14. 0 \in good
    <2>1. Len(<<>>) = 0 /\ 0 \in 0 .. n
      BY <1>1
    <2> QED
      BY <1>2, <1>12, <2>1
  <1>15. ASSUME NEW k \in 1 .. n, k - 1 \in good PROVE k \in good
    <2> DEFINE a == F[k - 1]
    <2>1. a \in State /\ F[k] = KahnTurn(names, depends, a) /\ k \in 0 .. n
      BY <1>9, <1>12, <1>13 DEF E
    <2>2. a.queue = <<>> \/ Len(a.order) = k - 1
      BY <1>15
    <2> HIDE DEF a
    <2>3. /\ a.queue = <<>> => F[k] = a
          /\ a.queue # <<>> => Len(F[k].order) = Len(a.order) + 1
      BY <2>1, KahnTurnTyped DEF State
    <2>4. k - 1 + 1 = k
      OBVIOUS
    <2> QED
      BY <2>1, <2>2, <2>3, <2>4
  <1>16. n \in good
    <2>1. n \in 0 .. n
      BY <1>1
    <2> HIDE DEF good
    <2> QED
      BY <1>1, <1>14, <1>15, <2>1, UpToN
  <1>17. F[n] \in State /\ (F[n].queue = <<>> \/ Len(F[n].order) = n)
    <2>1. n \in 0 .. n
      BY <1>1
    <2> QED
      BY <1>13, <1>16, <2>1
  <1> DEFINE s == F[n]
  <1>18. KahnInv(names, depends, s.queue, s.order, s.degree)
    BY <1>17 DEF State, KahnStates
  <1>19. Range(<<>>) = {}
    BY DEF Range
  <1> HIDE DEF s
  <1>20. KahnDone(names, depends, s.order)
    <2>1. s.order \in Seq(1 .. n) /\ IsInjective(s.order) /\ Sorted(names, depends, s.order)
      BY <1>18 DEF KahnInv, n
    <2>2. ASSUME s.queue = <<>>, NEW i \in 1 .. n
          PROVE  i \in Range(s.order) <=> Targets(names, depends[i]) \subseteq Range(s.order)
      <3>1. i \in Range(s.order) \cup Range(s.queue)
              <=> Targets(names, depends[i]) \subseteq Range(s.order)
        BY <1>18, <2>2 DEF KahnInv, n
      <3> QED
        BY <1>19, <2>2, <3>1
    <2>3. s.queue = <<>> \/ Len(s.order) = n
      BY <1>17 DEF s
    <2> QED
      BY <2>1, <2>2, <2>3 DEF KahnDone, n
  <1> QED
    BY <1>5, <1>20 DEF s

-----------------------------------------------------------------------------
(***************************************************************************)
(* Starting up: the configuration, and what a dataset needs.               *)
(***************************************************************************)
\* The datasets of a configuration that was checked: their names differ even
\* when case is ignored, a dataset from files depends on nothing, and the SQL of
\* the others names what they depend on.
IsConfig(D, T, ds) ==
    /\ ds \in Seq(D) /\ ds # <<>>
    /\ \A i \in DOMAIN ds :
         /\ ds[i].name \in T /\ ds[i].depends_on \in Seq(T)
         /\ is_query(ds[i]) \/ ds[i].depends_on = <<>>
         /\ ds[i].sql = {Lower[x] : x \in Range(ds[i].depends_on)}
    /\ \A i, j \in DOMAIN ds : Lower[ds[i].name] = Lower[ds[j].name] => i = j

\* The datasets that a dataset depends on by their exact names.
DependsOn(ds, i) == {j \in DOMAIN ds : ds[j].name \in Range(ds[i].depends_on)}

\* The names and dependencies of a configuration are a graph.
LEMMA ConfigGraph ==
    ASSUME NEW D, NEW T, NEW ds, IsConfig(D, T, ds)
    PROVE  /\ Len(ds) \in Nat /\ Len(ds) >= 1 /\ DOMAIN ds = 1 .. Len(ds)
           /\ Len(NamesSeq(ds)) = Len(ds) /\ Range(NamesSeq(ds)) = NamesOf(ds)
           /\ DOMAIN NamesSeq(ds) = DOMAIN ds /\ \A i \in DOMAIN ds : NamesSeq(ds)[i] = ds[i].name
           /\ IsGraph(T, NamesSeq(ds), DependsSeq(ds))
           /\ \A i \in DOMAIN ds : DependsSeq(ds)[i] = ds[i].depends_on /\ Dep(ds, i) = ds[i].depends_on
  <1> DEFINE n == Len(ds)
             names == NamesSeq(ds)
             depends == DependsSeq(ds)
  <1>1. n \in Nat /\ DOMAIN ds = 1 .. n /\ n >= 1
    BY DEF IsConfig
  <1>2. ASSUME NEW i \in 1 .. n
        PROVE  /\ ds[i].name \in T /\ ds[i].depends_on \in Seq(T)
               /\ is_query(ds[i]) \/ ds[i].depends_on = <<>>
    BY <1>1, <1>2 DEF IsConfig
  <1>3. names = [i \in 1 .. n |-> ds[i].name]
    BY <1>1 DEF NamesSeq
  <1>4. depends = [i \in 1 .. n |-> IF is_query(ds[i]) THEN ds[i].depends_on ELSE <<>>]
    BY <1>1 DEF DependsSeq
  <1>5. Range(names) = NamesOf(ds)
    BY <1>1, <1>3 DEF NamesOf, Range
  <1>6. \A i, j \in 1 .. n : ds[i].name = ds[j].name => i = j
    BY <1>1 DEF IsConfig
  <1> HIDE DEF n, names, depends
  <1>7. names \in Seq(T) /\ Len(names) = n
    BY <1>1, <1>2, <1>3
  <1>8. IsInjective(names)
    BY <1>3, <1>6 DEF IsInjective
  <1>9. \A i \in 1 .. n : depends[i] = ds[i].depends_on /\ Dep(ds, i) = ds[i].depends_on
    BY <1>2, <1>4 DEF Dep
  <1>10. IsGraph(T, names, depends)
    BY <1>2, <1>4, <1>7, <1>8, <1>9 DEF IsGraph
  <1> QED
    BY <1>1, <1>3, <1>5, <1>7, <1>9, <1>10 DEF n, names, depends

\* The edges of the graph are what the datasets use.
LEMMA ConfigTargets ==
    ASSUME NEW D, NEW T, NEW ds, IsConfig(D, T, ds), NEW i \in DOMAIN ds
    PROVE  Targets(NamesSeq(ds), DependsSeq(ds)[i]) = DependsOn(ds, i)
  <1> DEFINE names == NamesSeq(ds)
             list == ds[i].depends_on
  <1>1. /\ names \in Seq(T) /\ IsInjective(names) /\ DOMAIN ds = 1 .. Len(names)
        /\ \A j \in DOMAIN ds : names[j] = ds[j].name
        /\ DependsSeq(ds)[i] = list /\ DOMAIN names = DOMAIN ds
    BY ConfigGraph DEF IsGraph
  <1> HIDE DEF names, list
  <1>2. ASSUME NEW x \in Range(list) \cap Range(names) PROVE NameToIdx(names, x) \in DependsOn(ds, i)
    <2>1. NameToIdx(names, x) \in DOMAIN ds /\ names[NameToIdx(names, x)] = x
      BY <1>1, <1>2, IdxOf
    <2> QED
      BY <1>1, <1>2, <2>1 DEF DependsOn, list
  <1>3. ASSUME NEW j \in DependsOn(ds, i) PROVE j \in Targets(names, list)
    <2>1. j \in DOMAIN ds /\ names[j] \in Range(list) /\ names[j] \in Range(names)
      BY <1>1, <1>3 DEF DependsOn, list, Range
    <2>2. NameToIdx(names, names[j]) = j
      <3> DEFINE x == names[j]
      <3>1. x \in Range(names) /\ names[j] = x /\ j \in 1 .. Len(names)
        BY <1>1, <2>1
      <3> HIDE DEF x
      <3>2. NameToIdx(names, x) = j
        BY <1>1, <3>1, IdxOf
      <3> QED
        BY <3>2 DEF x
    <2> QED
      BY <2>1, <2>2 DEF Targets
  <1> QED
    BY <1>1, <1>2, <1>3 DEF Targets, names

\* With exact spellings, what a dataset needs next and waits for is what it uses.
LEMMA PlainUses ==
    ASSUME NEW D, NEW T, NEW ds, IsConfig(D, T, ds), Plain(ds), NEW i \in DOMAIN ds
    PROVE  /\ NeedsNext(ds, i) = DependsOn(ds, i) /\ WaitsFor(ds, i) = DependsOn(ds, i)
           /\ EagerIdx(ds) = DOMAIN ds
           /\ Range(ds[i].depends_on) = {ds[j].name : j \in DependsOn(ds, i)}
  <1>1. Dep(ds, i) = ds[i].depends_on /\ (is_query(ds[i]) \/ ds[i].depends_on = <<>>)
    <2>1. Dep(ds, i) = ds[i].depends_on
      BY ConfigGraph
    <2>2. is_query(ds[i]) \/ ds[i].depends_on = <<>>
      BY DEF IsConfig
    <2> QED
      BY <2>1, <2>2
  <1>2. Range(<<>>) = {}
    BY DEF Range
  <1>3. \A j \in DOMAIN ds : ds[j] \in Range(ds)
    BY DEF Range
  <1>4. EagerIdx(ds) = DOMAIN ds
    BY <1>3 DEF EagerIdx, Plain
  <1>5. NamesOf(ds) = {ds[j].name : j \in DOMAIN ds}
    BY DEF NamesOf, Range
  <1>6. Range(ds[i].depends_on) \subseteq NamesOf(ds)
    BY <1>1, <1>2, <1>3 DEF Plain
  <1>7. NeedsNext(ds, i) = DependsOn(ds, i)
    <2>1. ASSUME NEW j \in DOMAIN ds, NEW x \in Range(ds[i].depends_on), Lower[x] = Lower[ds[j].name]
          PROVE  j \in DependsOn(ds, i)
      <3>1. PICK k \in DOMAIN ds : x = ds[k].name
        BY <1>5, <1>6, <2>1
      <3>2. k = j
        BY <2>1, <3>1 DEF IsConfig
      <3> QED
        BY <2>1, <3>1, <3>2 DEF DependsOn
    <2>2. ASSUME NEW j \in DependsOn(ds, i) PROVE j \in NeedsNext(ds, i)
      BY <1>1, <2>2 DEF DependsOn, NeedsNext
    <2>3. NeedsNext(ds, i) \subseteq DependsOn(ds, i)
      BY <1>1, <2>1 DEF NeedsNext
    <2> QED
      BY <2>2, <2>3
  <1>8. WaitsFor(ds, i) = DependsOn(ds, i)
    BY <1>1, <1>4 DEF WaitsFor, DependsOn
  <1>9. Range(ds[i].depends_on) = {ds[j].name : j \in DependsOn(ds, i)}
    BY <1>5, <1>6 DEF DependsOn
  <1> QED
    BY <1>4, <1>7, <1>8, <1>9

\* A dataset and what the ones it uses need.
ComesUp(ds, src, i) == \A j \in Needs(ds, i) : src[j] = "ok"

\* What a dataset needs: itself and what those it needs next need.
LEMMA NeedsUnfold ==
    ASSUME NEW ds, NEW i \in DOMAIN ds
    PROVE  Needs(ds, i) = {i} \cup UNION {Needs(ds, j) : j \in NeedsNext(ds, i)}
  <1> DEFINE Closed(S) == \A k \in S : NeedsNext(ds, k) \subseteq S
             rest == UNION {Needs(ds, j) : j \in NeedsNext(ds, i)}
             all == {i} \cup rest
  <1>1. \A k : NeedsNext(ds, k) \subseteq DOMAIN ds /\ Needs(ds, k) \subseteq DOMAIN ds
    BY DEF NeedsNext, Needs
  <1>2. \A k \in DOMAIN ds : k \in Needs(ds, k)
    BY DEF Needs
  <1>3. \A k, j : j \in Needs(ds, k) <=>
            /\ j \in DOMAIN ds
            /\ \A S \in SUBSET DOMAIN ds : (k \in S /\ Closed(S)) => j \in S
    BY DEF Needs
  <1>4. ASSUME NEW k, NEW j \in Needs(ds, k) PROVE NeedsNext(ds, j) \subseteq Needs(ds, k)
    <2>1. SUFFICES ASSUME NEW x \in NeedsNext(ds, j), NEW S \in SUBSET DOMAIN ds, k \in S, Closed(S)
                   PROVE  x \in S
      BY <1>1, <1>3
    <2>2. j \in S
      BY <1>3, <1>4, <2>1
    <2> QED
      BY <2>1, <2>2
  <1>5. all \in SUBSET DOMAIN ds /\ i \in all
    BY <1>1
  <1>6. Closed(all)
    <2>1. NeedsNext(ds, i) \subseteq all
      BY <1>1, <1>2
    <2>2. ASSUME NEW k \in rest PROVE NeedsNext(ds, k) \subseteq rest
      BY <1>4, <2>2
    <2> QED
      BY <2>1, <2>2
  <1>7. Needs(ds, i) \subseteq all
    <2> HIDE DEF all
    <2> QED
      BY <1>3, <1>5, <1>6
  <1>8. i \in Needs(ds, i)
    BY <1>2
  <1>9. ASSUME NEW j \in NeedsNext(ds, i), NEW x \in Needs(ds, j) PROVE x \in Needs(ds, i)
    <2>1. SUFFICES ASSUME NEW S \in SUBSET DOMAIN ds, i \in S, Closed(S) PROVE x \in S
      BY <1>1, <1>3, <1>9
    <2>2. j \in S
      BY <1>9, <2>1
    <2> QED
      BY <1>3, <1>9, <2>1, <2>2
  <1> QED
    BY <1>7, <1>8, <1>9

\* A dataset comes up when its source does and so do all it uses.
LEMMA UpUnfold ==
    ASSUME NEW D, NEW T, NEW ds, IsConfig(D, T, ds), Plain(ds), NEW i \in DOMAIN ds, NEW src
    PROVE  ComesUp(ds, src, i) <=> (src[i] = "ok" /\ \A j \in DependsOn(ds, i) : ComesUp(ds, src, j))
  <1>1. Needs(ds, i) = {i} \cup UNION {Needs(ds, j) : j \in DependsOn(ds, i)}
    BY NeedsUnfold, PlainUses
  <1> QED
    BY <1>1 DEF ComesUp

-----------------------------------------------------------------------------
(***************************************************************************)
(* Starting up: the levels and the builds.                                 *)
(***************************************************************************)
\* An order of all datasets in which each comes after those it uses.
OrderOf(ds, order) ==
    /\ order \in Seq(DOMAIN ds) /\ Len(order) = Len(ds) /\ Range(order) = DOMAIN ds
    /\ IsInjective(order)
    /\ \A k \in 1 .. Len(ds) : DependsOn(ds, order[k]) \subseteq {order[j] : j \in 1 .. k - 1}

\* Datasets that each use one of them.
Knot(ds, U) == U \subseteq DOMAIN ds /\ U # {} /\ \A i \in U : DependsOn(ds, i) \cap U # {}

\* There is an order, or datasets that use one another.
LEMMA OrderedOrKnot ==
    ASSUME NEW D, NEW T, NEW ds, IsConfig(D, T, ds)
    PROVE  LET order == topological_dataset_order(ds)
           IN /\ order # <<>> => OrderOf(ds, order)
              /\ order = <<>> => \E U : Knot(ds, U)
  <1> DEFINE names == NamesSeq(ds)
             depends == DependsSeq(ds)
             n == Len(ds)
             o == KahnOrder(names, depends)
             order == topological_dataset_order(ds)
  <1>1. n \in Nat /\ n >= 1 /\ DOMAIN ds = 1 .. n /\ Len(names) = n
    BY ConfigGraph
  <1>2. KahnDone(names, depends, o)
    BY ConfigGraph, KahnEnds
  <1>3. \A i \in DOMAIN ds : Targets(names, depends[i]) = DependsOn(ds, i)
    BY ConfigTargets
  <1>4. order = IF Len(o) = n THEN o ELSE <<>>
    BY DEF topological_dataset_order
  <1> HIDE DEF n, o, names, depends, order
  <1>5. /\ o \in Seq(1 .. n) /\ IsInjective(o) /\ Sorted(names, depends, o)
        /\ \/ Len(o) = n
           \/ \A i \in 1 .. n : i \in Range(o) <=> Targets(names, depends[i]) \subseteq Range(o)
    BY <1>1, <1>2 DEF KahnDone
  <1>6. Len(o) = n <=> Range(o) = 1 .. n
    BY <1>1, <1>5, RangeCounted
  <1>7. ASSUME Len(o) = n PROVE OrderOf(ds, o)
    <2>1. \A k \in 1 .. n : o[k] \in DOMAIN ds
      BY <1>1, <1>5, <1>7
    <2>2. \A k \in 1 .. n : Targets(names, depends[o[k]]) \subseteq {o[j] : j \in 1 .. k - 1}
      BY <1>5, <1>7 DEF Sorted
    <2>3. \A k \in 1 .. n : DependsOn(ds, o[k]) \subseteq {o[j] : j \in 1 .. k - 1}
      BY <1>3, <2>1, <2>2
    <2> QED
      BY <1>1, <1>5, <1>6, <1>7, <2>3 DEF OrderOf, n
  <1>8. ASSUME Len(o) # n PROVE \E U : Knot(ds, U)
    <2> DEFINE U == DOMAIN ds \ Range(o)
    <2>1. Range(o) \subseteq DOMAIN ds
      BY <1>1, <1>5 DEF Range
    <2>2. U # {}
      BY <1>1, <1>6, <1>8, <2>1
    <2>3. ASSUME NEW i \in U PROVE DependsOn(ds, i) \cap U # {}
      <3>1. ~ (DependsOn(ds, i) \subseteq Range(o))
        BY <1>1, <1>3, <1>5, <1>8, <2>3
      <3>2. DependsOn(ds, i) \subseteq DOMAIN ds
        BY DEF DependsOn
      <3> QED
        BY <3>1, <3>2
    <2>4. Knot(ds, U)
      BY <2>2, <2>3 DEF Knot
    <2> QED
      BY <2>4
  <1>9. Len(o) = n => o # <<>>
    <2>1. Len(<<>>) = 0
      OBVIOUS
    <2> QED
      BY <1>1, <2>1
  <1> QED
    BY <1>4, <1>7, <1>8, <1>9 DEF order

\* What is done after each level.
Levels(f, ds) ==
    /\ f \in [0 .. Len(ds) -> SUBSET DOMAIN ds] /\ f[0] = {}
    /\ \A k \in 1 .. Len(ds) :
         f[k] = f[k - 1] \cup {i \in EagerIdx(ds) : WaitsFor(ds, i) \subseteq f[k - 1]}

\* LevelsDone level by level.
LEMMA LevelsSteps ==
    ASSUME NEW ds, Len(ds) \in Nat
    PROVE  Levels(LevelsDone(ds), ds)
  <1> DEFINE n == Len(ds)
             State == SUBSET DOMAIN ds
             start == {}
             E(k, a) == a \cup {i \in EagerIdx(ds) : WaitsFor(ds, i) \subseteq a}
             step == [x \in (1 .. n) \X State |-> E(x[1], x[2])]
             Def(h) == [k \in 0 .. n |-> IF k = 0 THEN {}
                          ELSE h[k - 1] \cup {i \in EagerIdx(ds) : WaitsFor(ds, i) \subseteq h[k - 1]}]
             F == CHOOSE h : h = Def(h)
  <1>1. n \in Nat
    OBVIOUS
  <1>2. start \in State
    OBVIOUS
  <1>3. \A k \in 1 .. n, a \in State : E(k, a) \in State
    BY DEF EagerIdx
  <1>4. \A h : Def(h) = [k \in 0 .. n |-> IF k = 0 THEN start ELSE E(k, h[k - 1])]
    OBVIOUS
  <1>5. LevelsDone(ds) = F
    BY DEF LevelsDone
  <1> HIDE DEF State, start, E, Def, n
  <1>6. step \in [(1 .. n) \X State -> State]
    BY <1>3
  <1>7. \A k \in 1 .. n, a \in State : step[<<k, a>>] = E(k, a)
    OBVIOUS
  <1> HIDE DEF step
  <1>8. PICK h : Unrolls(h, n, State, start, step)
    BY <1>1, <1>2, <1>6, RecursionExists
  <1>9. \A k \in 1 .. n : k - 1 \in 0 .. n /\ k \in 0 .. n
    BY <1>1
  <1>10. h = Def(h)
    <2>1. h = [k \in 0 .. n |-> h[k]] /\ h[0] = start
      BY <1>8 DEF Unrolls
    <2>2. \A k \in 1 .. n : h[k] = E(k, h[k - 1])
      BY <1>7, <1>8, <1>9 DEF Unrolls
    <2>3. \A k \in 0 .. n : k = 0 \/ k \in 1 .. n
      BY <1>1
    <2>4. \A k \in 0 .. n : h[k] = IF k = 0 THEN start ELSE E(k, h[k - 1])
      BY <2>1, <2>2, <2>3
    <2> QED
      BY <1>4, <2>1, <2>4
  <1>11. F = Def(F)
    BY <1>10
  <1> HIDE DEF F
  <1>12. F = [k \in 0 .. n |-> F[k]] /\ F[0] = start /\ \A k \in 1 .. n : F[k] = E(k, F[k - 1])
    <2> DEFINE g == [k \in 0 .. n |-> IF k = 0 THEN start ELSE E(k, F[k - 1])]
    <2>1. g = [k \in 0 .. n |-> g[k]]
      OBVIOUS
    <2>2. g[0] = start /\ \A k \in 1 .. n : g[k] = E(k, F[k - 1])
      BY <1>1
    <2>3. F = g
      BY <1>4, <1>11
    <2> HIDE DEF g
    <2> QED
      BY <2>1, <2>2, <2>3
  <1>13. F \in [0 .. n -> State]
    <2>1. \A k \in 1 .. n : F[k - 1] \in State => F[k] = step[<<k, F[k - 1]>>]
      BY <1>7, <1>12
    <2>2. Unrolls(F, n, State, start, step)
      BY <1>1, <1>2, <1>6, <1>12, <2>1, RecursionTyped
    <2> QED
      BY <2>2 DEF Unrolls
  <1>14. Levels(F, ds)
    BY <1>12, <1>13 DEF Levels, State, start, E, n
  <1> QED
    BY <1>5, <1>14

\* The k-th of the order is done after the k-th level.
LEMMA LevelsCover ==
    ASSUME NEW D, NEW T, NEW ds, IsConfig(D, T, ds), Plain(ds), NEW order, OrderOf(ds, order)
    PROVE  LevelsDone(ds)[Len(ds)] = DOMAIN ds
  <1> DEFINE n == Len(ds)
             f == LevelsDone(ds)
             First(k) == {order[j] : j \in 1 .. k}
             good == {k \in 0 .. n : First(k) \subseteq f[k]}
  <1>1. n \in Nat /\ DOMAIN ds = 1 .. n
    BY ConfigGraph
  <1>2. Levels(f, ds)
    BY <1>1, LevelsSteps
  <1>3. \A i \in DOMAIN ds : WaitsFor(ds, i) = DependsOn(ds, i) /\ i \in EagerIdx(ds)
    BY PlainUses
  <1>4. /\ order \in Seq(DOMAIN ds) /\ Len(order) = n /\ Range(order) = DOMAIN ds
        /\ \A k \in 1 .. n : DependsOn(ds, order[k]) \subseteq First(k - 1)
    BY DEF OrderOf
  <1> HIDE DEF f
  <1>5. First(0) = {}
    OBVIOUS
  <1>6. ASSUME NEW k \in 1 .. n PROVE First(k) = First(k - 1) \cup {order[k]}
    <2>1. 1 .. k = (1 .. k - 1) \cup {k}
      OBVIOUS
    <2> QED
      BY <2>1
  <1> HIDE DEF n, First
  <1>7. 0 \in good
    BY <1>1, <1>5
  <1>8. ASSUME NEW k \in 1 .. n, k - 1 \in good PROVE k \in good
    <2>1. First(k - 1) \subseteq f[k - 1] /\ k \in 0 .. n
      BY <1>1, <1>8
    <2>2. order[k] \in DOMAIN ds
      BY <1>4
    <2>3. f[k] = f[k - 1] \cup {i \in EagerIdx(ds) : WaitsFor(ds, i) \subseteq f[k - 1]}
      BY <1>2, <1>8 DEF Levels, n
    <2>4. DependsOn(ds, order[k]) \subseteq f[k - 1]
      BY <1>4, <2>1
    <2>5. order[k] \in f[k]
      BY <1>3, <2>2, <2>3, <2>4
    <2> QED
      BY <1>6, <2>1, <2>3, <2>5
  <1>9. n \in good
    <2>1. n \in 0 .. n
      BY <1>1
    <2> HIDE DEF good
    <2> QED
      BY <1>1, <1>7, <1>8, <2>1, UpToN
  <1>10. First(n) = DOMAIN ds
    <2>1. DOMAIN order = 1 .. n
      BY <1>4
    <2> QED
      BY <1>4, <2>1 DEF First, Range
  <1>11. f[n] \subseteq DOMAIN ds
    <2>1. n \in 0 .. n
      BY <1>1
    <2> QED
      BY <1>2, <2>1 DEF Levels, n
  <1> QED
    BY <1>9, <1>10, <1>11 DEF f, n

StartStatuses == {"Pending", "Published", "Failed"}

\* The statuses when the datasets of done have been built.
BuiltUp(ds, src, done) ==
    [i \in DOMAIN ds |-> IF i \in done THEN IF ComesUp(ds, src, i) THEN "Published" ELSE "Failed"
                         ELSE "Pending"]

\* With all it uses published, a build ends the way its source does.
LEMMA BuildOne ==
    ASSUME NEW D, NEW T, NEW ds, IsConfig(D, T, ds), Plain(ds), NEW i \in DOMAIN ds,
           NEW src, NEW status, \A j \in DependsOn(ds, i) : status[j] = "Published"
    PROVE  build_one_startup(ds, src, status, i) = IF src[i] = "ok" THEN "Published" ELSE "Failed"
  <1>1. ds[i].sql = {Lower[x] : x \in Range(ds[i].depends_on)}
    BY DEF IsConfig
  <1>2. Range(ds[i].depends_on) = {ds[j].name : j \in DependsOn(ds, i)}
    BY PlainUses
  <1>3. DependsOn(ds, i) \subseteq DOMAIN ds
    BY DEF DependsOn
  <1>4. ds[i].sql \subseteq LoadedNames(ds, status)
    BY <1>1, <1>2, <1>3 DEF LoadedNames
  <1> QED
    BY <1>4 DEF build_one_startup

\* The names of the datasets that failed.
FailedNames(ds, status) == {ds[k].name : k \in {j \in DOMAIN ds : status[j] = "Failed"}}

\* A dependency is among the failed names when one it uses does not come up.
LEMMA FailedUses ==
    ASSUME NEW D, NEW T, NEW ds, IsConfig(D, T, ds), Plain(ds), NEW i \in DOMAIN ds,
           NEW src, NEW done, DependsOn(ds, i) \subseteq done
    PROVE  (Range(ds[i].depends_on) \cap FailedNames(ds, BuiltUp(ds, src, done)) # {})
             <=> \E j \in DependsOn(ds, i) : ~ ComesUp(ds, src, j)
  <1> DEFINE status == BuiltUp(ds, src, done)
  <1>1. \A j \in DependsOn(ds, i) : j \in DOMAIN ds /\ ds[j].name \in Range(ds[i].depends_on)
    BY DEF DependsOn
  <1>2. \A j \in DOMAIN ds : status[j] = IF j \in done THEN IF ComesUp(ds, src, j) THEN "Published" ELSE "Failed"
                                         ELSE "Pending"
    BY DEF BuiltUp
  <1>3. \A j \in DOMAIN ds : status[j] = "Failed" <=> (j \in done /\ ~ ComesUp(ds, src, j))
    BY <1>2
  <1> HIDE DEF status
  <1>4. ASSUME NEW j \in DependsOn(ds, i), ~ ComesUp(ds, src, j)
        PROVE  ds[j].name \in Range(ds[i].depends_on) \cap FailedNames(ds, status)
    BY <1>1, <1>3, <1>4 DEF FailedNames
  <1>5. ASSUME NEW x \in Range(ds[i].depends_on) \cap FailedNames(ds, status)
        PROVE  \E j \in DependsOn(ds, i) : ~ ComesUp(ds, src, j)
    <2>1. PICK j \in DOMAIN ds : status[j] = "Failed" /\ x = ds[j].name
      BY <1>5 DEF FailedNames
    <2>2. j \in DependsOn(ds, i)
      BY <1>5, <2>1 DEF DependsOn
    <2> QED
      BY <1>3, <2>1, <2>2
  <1> QED
    BY <1>4, <1>5 DEF status

\* BuiltUp, for a dataset whose uses are all up.
LEMMA BuiltUses ==
    ASSUME NEW ds, NEW src, NEW done, NEW i, DependsOn(ds, i) \subseteq done,
           \A j \in DependsOn(ds, i) : ComesUp(ds, src, j)
    PROVE  \A j \in DependsOn(ds, i) : BuiltUp(ds, src, done)[j] = "Published"
  <1>1. \A j \in DependsOn(ds, i) : j \in DOMAIN ds /\ j \in done
    BY DEF DependsOn
  <1> QED
    BY <1>1 DEF BuiltUp

\* A level is built right, in whatever order its builds end.
LEMMA LevelBuilt ==
    ASSUME NEW D, NEW T, NEW ds, IsConfig(D, T, ds), Plain(ds), NEW src, NEW early,
           NEW done \in SUBSET DOMAIN ds, NEW level \in SUBSET DOMAIN ds, level \cap done = {},
           \A i \in level : DependsOn(ds, i) \subseteq done
    PROVE  RunLevel(ds, src, early, BuiltUp(ds, src, done), level) = BuiltUp(ds, src, done \cup level)
  <1> DEFINE status == BuiltUp(ds, src, done)
             failed == FailedNames(ds, status)
             marked == {i \in level : Range(ds[i].depends_on) \cap failed # {}}
             pre == [i \in DOMAIN ds |-> IF i \in marked THEN "Failed" ELSE status[i]]
             todo == level \ marked
             one == [i \in DOMAIN ds |-> IF i \in todo \cap early
                        THEN build_one_startup(ds, src, pre, i) ELSE pre[i]]
             two == [i \in DOMAIN ds |-> IF i \in todo \ early
                        THEN build_one_startup(ds, src, one, i) ELSE one[i]]
             all == BuiltUp(ds, src, done \cup level)
             Result(i) == IF ComesUp(ds, src, i) THEN "Published" ELSE "Failed"
  <1>1. RunLevel(ds, src, early, status, level) = two
    BY DEF RunLevel, FailedNames
  <1>2. \A i \in DOMAIN ds : status[i] = IF i \in done THEN Result(i) ELSE "Pending"
    BY DEF BuiltUp
  <1>3. all = [i \in DOMAIN ds |-> IF i \in done \cup level THEN Result(i) ELSE "Pending"]
    BY DEF BuiltUp
  <1>4. \A i \in level : i \in marked <=> \E j \in DependsOn(ds, i) : ~ ComesUp(ds, src, j)
    <2> HIDE DEF status
    <2> QED
      BY FailedUses DEF status
  <1>5. \A i \in DOMAIN ds : ComesUp(ds, src, i) <=> (src[i] = "ok" /\ \A j \in DependsOn(ds, i) : ComesUp(ds, src, j))
    BY UpUnfold
  <1>6. \A i : DependsOn(ds, i) \subseteq DOMAIN ds
    BY DEF DependsOn
  <1>7. ASSUME NEW i \in todo PROVE \A j \in DependsOn(ds, i) : status[j] = "Published"
    <2>1. DependsOn(ds, i) \subseteq done /\ \A j \in DependsOn(ds, i) : ComesUp(ds, src, j)
      BY <1>4, <1>7
    <2> QED
      BY <2>1, BuiltUses
  <1> HIDE DEF status, marked, Result
  <1>8. \A i \in DOMAIN ds : pre[i] = IF i \in marked THEN "Failed" ELSE status[i]
    OBVIOUS
  <1>9. marked \subseteq level /\ todo = level \ marked
    BY DEF marked
  <1> HIDE DEF pre, todo
  <1>10. ASSUME NEW i \in todo
         PROVE  i \in DOMAIN ds /\ \A j \in DependsOn(ds, i) : j \in DOMAIN ds /\ j \notin level /\ pre[j] = "Published"
    BY <1>6, <1>7, <1>8, <1>9, <1>10
  <1>11. ASSUME NEW i \in todo PROVE src[i] = "ok" <=> ComesUp(ds, src, i)
    BY <1>4, <1>5, <1>9, <1>11
  <1>12. ASSUME NEW i \in todo PROVE build_one_startup(ds, src, pre, i) = Result(i)
    <2>1. build_one_startup(ds, src, pre, i) = IF src[i] = "ok" THEN "Published" ELSE "Failed"
      BY <1>10, <1>12, BuildOne
    <2> QED
      BY <1>11, <1>12, <2>1 DEF Result
  <1>13. \A i \in DOMAIN ds : one[i] = IF i \in todo \cap early
                        THEN build_one_startup(ds, src, pre, i) ELSE pre[i]
    OBVIOUS
  <1> HIDE DEF one
  <1>14. ASSUME NEW i \in todo PROVE build_one_startup(ds, src, one, i) = Result(i)
    <2>1. \A j \in DependsOn(ds, i) : one[j] = "Published"
      BY <1>9, <1>10, <1>13, <1>14
    <2>2. build_one_startup(ds, src, one, i) = IF src[i] = "ok" THEN "Published" ELSE "Failed"
      BY <1>10, <1>14, <2>1, BuildOne
    <2> QED
      BY <1>11, <1>14, <2>2 DEF Result
  <1>15. ASSUME NEW i \in marked PROVE Result(i) = "Failed" /\ i \in DOMAIN ds
    BY <1>4, <1>5, <1>9, <1>15 DEF Result
  <1>16. ASSUME NEW i \in DOMAIN ds PROVE two[i] = all[i]
    <2>1. two[i] = IF i \in todo \ early THEN build_one_startup(ds, src, one, i) ELSE one[i]
      OBVIOUS
    <2>2. all[i] = IF i \in done \cup level THEN Result(i) ELSE "Pending"
      BY <1>3
    <2> HIDE DEF two, all
    <2>3. CASE i \in todo
      BY <1>9, <1>12, <1>13, <1>14, <2>1, <2>2, <2>3
    <2>4. CASE i \in marked
      BY <1>8, <1>9, <1>13, <1>15, <2>1, <2>2, <2>4
    <2>5. CASE i \notin level
      BY <1>2, <1>8, <1>9, <1>13, <2>1, <2>2, <2>5
    <2> QED
      BY <1>9, <2>3, <2>4, <2>5
  <1>17. two = [i \in DOMAIN ds |-> two[i]] /\ all = [i \in DOMAIN ds |-> all[i]]
    BY <1>3
  <1> HIDE DEF two, all
  <1>18. two = all
    BY <1>16, <1>17
  <1> QED
    BY <1>1, <1>18 DEF status, all

\* A level leaves every dataset with a status.
LEMMA LevelTyped ==
    ASSUME NEW ds, NEW src, NEW early, NEW status \in [DOMAIN ds -> StartStatuses], NEW level
    PROVE  RunLevel(ds, src, early, status, level) \in [DOMAIN ds -> StartStatuses]
  <1> DEFINE marked == {i \in level : Range(ds[i].depends_on) \cap FailedNames(ds, status) # {}}
             pre == [i \in DOMAIN ds |-> IF i \in marked THEN "Failed" ELSE status[i]]
             todo == level \ marked
             one == [i \in DOMAIN ds |-> IF i \in todo \cap early
                        THEN build_one_startup(ds, src, pre, i) ELSE pre[i]]
             two == [i \in DOMAIN ds |-> IF i \in todo \ early
                        THEN build_one_startup(ds, src, one, i) ELSE one[i]]
  <1>1. RunLevel(ds, src, early, status, level) = two
    BY DEF RunLevel, FailedNames
  <1>2. \A st, i : build_one_startup(ds, src, st, i) \in StartStatuses
    BY DEF build_one_startup, StartStatuses
  <1>3. pre \in [DOMAIN ds -> StartStatuses]
    BY DEF StartStatuses
  <1> HIDE DEF pre, todo
  <1>4. one \in [DOMAIN ds -> StartStatuses]
    BY <1>2, <1>3
  <1> HIDE DEF one
  <1>5. two \in [DOMAIN ds -> StartStatuses]
    BY <1>2, <1>4
  <1> HIDE DEF two
  <1> QED
    BY <1>1, <1>5

\* DataFusion's start: every dataset is published exactly when all it needs
\* are there.
LEMMA SpawnBuilds ==
    ASSUME NEW D, NEW T, NEW ds, IsConfig(D, T, ds), Plain(ds), NEW src, NEW early,
           NEW order, OrderOf(ds, order)
    PROVE  spawn_startup_builds(ds, src, early) = BuiltUp(ds, src, DOMAIN ds)
  <1> DEFINE levels == startup_levels(ds)
             n == Len(levels)
             done == LevelsDone(ds)
             State == [DOMAIN ds -> StartStatuses]
             start == [i \in DOMAIN ds |-> "Pending"]
             E(k, a) == RunLevel(ds, src, early, a, levels[k])
             step == [x \in (1 .. n) \X State |-> E(x[1], x[2])]
             Def(h) == [k \in 0 .. n |-> IF k = 0 THEN [i \in DOMAIN ds |-> "Pending"]
                          ELSE RunLevel(ds, src, early, h[k - 1], levels[k])]
             F == CHOOSE h : h = Def(h)
  <1>1. n \in Nat /\ n = Len(ds)
    <2>1. Len(ds) \in Nat
      BY ConfigGraph
    <2>2. levels = [k \in 1 .. Len(ds) |-> done[k] \ done[k - 1]]
      BY DEF startup_levels
    <2> HIDE DEF levels, done
    <2>3. levels \in Seq({levels[k] : k \in 1 .. Len(ds)})
      BY <2>1, <2>2
    <2>4. DOMAIN levels = 1 .. Len(ds) /\ Len(levels) \in Nat /\ DOMAIN levels = 1 .. Len(levels)
      BY <2>2, <2>3
    <2> QED
      BY <2>1, <2>2, <2>3, <2>4
  <1>2. start \in State
    BY DEF StartStatuses
  <1>3. \A k \in 1 .. n, a \in State : E(k, a) \in State
    <2> HIDE DEF levels
    <2> QED
      BY LevelTyped
  <1>4. \A h : Def(h) = [k \in 0 .. n |-> IF k = 0 THEN start ELSE E(k, h[k - 1])]
    OBVIOUS
  <1>5. spawn_startup_builds(ds, src, early) = F[n]
    BY DEF spawn_startup_builds
  <1>6. \A k \in 1 .. n : levels[k] = done[k] \ done[k - 1]
    <2>1. levels = [k \in 1 .. Len(ds) |-> done[k] \ done[k - 1]]
      BY DEF startup_levels
    <2> HIDE DEF levels, done
    <2> QED
      BY <1>1, <2>1
  <1>7. Levels(done, ds) /\ done[n] = DOMAIN ds
    BY <1>1, LevelsSteps, LevelsCover
  <1> HIDE DEF State, start, E, Def, n, levels, done
  <1>8. step \in [(1 .. n) \X State -> State]
    BY <1>3
  <1>9. \A k \in 1 .. n, a \in State : step[<<k, a>>] = E(k, a)
    OBVIOUS
  <1> HIDE DEF step
  <1>10. PICK h : Unrolls(h, n, State, start, step)
    BY <1>1, <1>2, <1>8, RecursionExists
  <1>11. \A k \in 1 .. n : k - 1 \in 0 .. n /\ k \in 0 .. n
    BY <1>1
  <1>12. h = Def(h)
    <2>1. h = [k \in 0 .. n |-> h[k]] /\ h[0] = start
      BY <1>10 DEF Unrolls
    <2>2. \A k \in 1 .. n : h[k] = E(k, h[k - 1])
      BY <1>9, <1>10, <1>11 DEF Unrolls
    <2>3. \A k \in 0 .. n : k = 0 \/ k \in 1 .. n
      BY <1>1
    <2>4. \A k \in 0 .. n : h[k] = IF k = 0 THEN start ELSE E(k, h[k - 1])
      BY <2>1, <2>2, <2>3
    <2> QED
      BY <1>4, <2>1, <2>4
  <1>13. F = Def(F)
    BY <1>12
  <1> HIDE DEF F
  <1>14. F = [k \in 0 .. n |-> F[k]] /\ F[0] = start /\ \A k \in 1 .. n : F[k] = E(k, F[k - 1])
    <2> DEFINE g == [k \in 0 .. n |-> IF k = 0 THEN start ELSE E(k, F[k - 1])]
    <2>1. g = [k \in 0 .. n |-> g[k]]
      OBVIOUS
    <2>2. g[0] = start /\ \A k \in 1 .. n : g[k] = E(k, F[k - 1])
      BY <1>1
    <2>3. F = g
      BY <1>4, <1>13
    <2> HIDE DEF g
    <2> QED
      BY <2>1, <2>2, <2>3
  <1>15. F \in [0 .. n -> State]
    <2>1. \A k \in 1 .. n : F[k - 1] \in State => F[k] = step[<<k, F[k - 1]>>]
      BY <1>9, <1>14
    <2>2. Unrolls(F, n, State, start, step)
      BY <1>1, <1>2, <1>8, <1>14, <2>1, RecursionTyped
    <2> QED
      BY <2>2 DEF Unrolls
  <1> DEFINE good == {k \in 0 .. n : F[k] = BuiltUp(ds, src, done[k])}
  <1>16. 0 \in good
    <2>1. done[0] = {} /\ 0 \in 0 .. n
      BY <1>1, <1>7 DEF Levels
    <2> QED
      BY <1>14, <2>1 DEF start, BuiltUp
  <1>17. ASSUME NEW k \in 1 .. n, k - 1 \in good PROVE k \in good
    <2>1. F[k] = RunLevel(ds, src, early, BuiltUp(ds, src, done[k - 1]), levels[k]) /\ k \in 0 .. n
      BY <1>11, <1>14, <1>17 DEF E
    <2> DEFINE old == done[k - 1]
               level == levels[k]
               new == done[k]
    <2>2. /\ old \in SUBSET DOMAIN ds /\ new \in SUBSET DOMAIN ds
          /\ new = old \cup {i \in EagerIdx(ds) : WaitsFor(ds, i) \subseteq old}
      BY <1>1, <1>7, <1>11 DEF Levels
    <2>3. level = new \ old
      BY <1>6
    <2>4. \A i \in DOMAIN ds : WaitsFor(ds, i) = DependsOn(ds, i)
      BY PlainUses
    <2> HIDE DEF old, level, new
    <2>5. \A i \in level : DependsOn(ds, i) \subseteq old
      BY <2>2, <2>3, <2>4
    <2>6. level \in SUBSET DOMAIN ds /\ level \cap old = {} /\ old \cup level = new
      BY <2>2, <2>3
    <2>7. RunLevel(ds, src, early, BuiltUp(ds, src, old), level) = BuiltUp(ds, src, old \cup level)
      BY <2>2, <2>5, <2>6, LevelBuilt
    <2> QED
      BY <2>1, <2>6, <2>7 DEF old, level, new
  <1>18. n \in good
    <2>1. n \in 0 .. n
      BY <1>1
    <2> HIDE DEF good
    <2> QED
      BY <1>1, <1>16, <1>17, <2>1, UpToN
  <1> QED
    BY <1>5, <1>7, <1>18

\* The states of load_registry.
Loading(ds) == [aborted : BOOLEAN, status : [DOMAIN ds -> StartStatuses]]

\* Loading one dataset leaves every dataset with a status.
LEMMA LoadTyped ==
    ASSUME NEW ds, NEW src, NEW acc \in Loading(ds), NEW i \in DOMAIN ds
    PROVE  LoadNext(ds, src, acc, i) \in Loading(ds)
  <1> DEFINE st == IF Range(ds[i].depends_on) \cap FailedNames(ds, acc.status) # {} THEN "Failed"
                   ELSE build_one_startup(ds, src, acc.status, i)
             stop == src[i] = "error" /\ ~is_query(ds[i])
             status == acc.status
  <1>1. LoadNext(ds, src, acc, i) = IF acc.aborted THEN acc
          ELSE [aborted |-> stop, status |-> [status EXCEPT ![i] = st]]
    BY DEF LoadNext, FailedNames
  <1>2. st \in StartStatuses
    BY DEF build_one_startup, StartStatuses
  <1>3. stop \in BOOLEAN
    OBVIOUS
  <1>4. status \in [DOMAIN ds -> StartStatuses]
    BY DEF Loading
  <1> HIDE DEF st, stop, status
  <1>5. [status EXCEPT ![i] = st] \in [DOMAIN ds -> StartStatuses]
    BY <1>2, <1>4
  <1> QED
    BY <1>1, <1>3, <1>5 DEF Loading

\* The next dataset of the order is loaded right.
LEMMA LoadBuilt ==
    ASSUME NEW D, NEW T, NEW ds, IsConfig(D, T, ds), Plain(ds), NEW src, NEW acc,
           NEW done, NEW i \in DOMAIN ds, ~ acc.aborted,
           acc.status = BuiltUp(ds, src, done), DependsOn(ds, i) \subseteq done
    PROVE  LoadNext(ds, src, acc, i).status = BuiltUp(ds, src, done \cup {i})
  <1> DEFINE status == acc.status
             failing == Range(ds[i].depends_on) \cap FailedNames(ds, status) # {}
             st == IF failing THEN "Failed" ELSE build_one_startup(ds, src, status, i)
             Result(j) == IF ComesUp(ds, src, j) THEN "Published" ELSE "Failed"
             all == BuiltUp(ds, src, done \cup {i})
  <1>1. LoadNext(ds, src, acc, i).status = [status EXCEPT ![i] = st]
    BY DEF LoadNext, FailedNames
  <1>2. failing <=> \E j \in DependsOn(ds, i) : ~ ComesUp(ds, src, j)
    BY FailedUses
  <1>3. ComesUp(ds, src, i) <=> (src[i] = "ok" /\ \A j \in DependsOn(ds, i) : ComesUp(ds, src, j))
    BY UpUnfold
  <1>4. ~ failing => \A j \in DependsOn(ds, i) : status[j] = "Published"
    <2> HIDE DEF failing
    <2>1. SUFFICES ASSUME \A j \in DependsOn(ds, i) : ComesUp(ds, src, j)
                   PROVE  \A j \in DependsOn(ds, i) : BuiltUp(ds, src, done)[j] = "Published"
      BY <1>2
    <2> QED
      BY <2>1, BuiltUses
  <1> HIDE DEF failing
  <1>5. ~ failing => build_one_startup(ds, src, status, i) = IF src[i] = "ok" THEN "Published" ELSE "Failed"
    BY <1>4, BuildOne
  <1>6. st = Result(i)
    BY <1>2, <1>3, <1>5
  <1>7. status = [j \in DOMAIN ds |-> IF j \in done THEN Result(j) ELSE "Pending"]
    BY DEF BuiltUp
  <1>8. all = [j \in DOMAIN ds |-> IF j \in done \cup {i} THEN Result(j) ELSE "Pending"]
    BY DEF BuiltUp
  <1> HIDE DEF status, st, Result, all
  <1>9. [status EXCEPT ![i] = st] = all
    <2>1. [status EXCEPT ![i] = st] = [j \in DOMAIN ds |-> IF j = i THEN st ELSE status[j]]
      BY <1>7
    <2>2. \A j \in DOMAIN ds : (IF j = i THEN st ELSE status[j])
                                 = IF j \in done \cup {i} THEN Result(j) ELSE "Pending"
      BY <1>6, <1>7
    <2> QED
      BY <1>8, <2>1, <2>2
  <1> QED
    BY <1>1, <1>9 DEF all

\* A file dataset that ends DuckDB's start.
Ends(ds, src, i) == src[i] = "error" /\ ~is_query(ds[i])

\* DuckDB's start ends as a start does that takes sources without rows for
\* good, unless a file that cannot be read ends it.
LEMMA RegistryLoads ==
    ASSUME NEW D, NEW T, NEW ds, IsConfig(D, T, ds), Plain(ds), NEW src,
           OrderOf(ds, topological_dataset_order(ds))
    PROVE  /\ load_registry(ds, src).aborted <=> \E i \in DOMAIN ds : Ends(ds, src, i)
           /\ \/ load_registry(ds, src).aborted
              \/ load_registry(ds, src).status = BuiltUp(ds, SeenByDuck(ds, src), DOMAIN ds)
  <1> DEFINE seen == SeenByDuck(ds, src)
             order == topological_dataset_order(ds)
             n == Len(order)
             State == Loading(ds)
             start == [aborted |-> FALSE, status |-> [i \in DOMAIN ds |-> "Pending"]]
             E(k, a) == LoadNext(ds, seen, a, order[k])
             step == [x \in (1 .. n) \X State |-> E(x[1], x[2])]
             Def(h) == [k \in 0 .. n |-> IF k = 0 THEN [aborted |-> FALSE, status |-> [i \in DOMAIN ds |-> "Pending"]]
                          ELSE LoadNext(ds, SeenByDuck(ds, src), h[k - 1], order[k])]
             F == CHOOSE h : h = Def(h)
             First(k) == {order[j] : j \in 1 .. k}
  <1>1. n \in Nat
    BY DEF OrderOf
  <1>2. start \in State
    BY DEF StartStatuses, Loading
  <1>3. \A k \in 1 .. n, a \in State : E(k, a) \in State
    <2>1. \A k \in 1 .. n : order[k] \in DOMAIN ds
      BY DEF OrderOf
    <2> HIDE DEF order
    <2> QED
      BY <2>1, LoadTyped
  <1>4. \A h : Def(h) = [k \in 0 .. n |-> IF k = 0 THEN start ELSE E(k, h[k - 1])]
    OBVIOUS
  <1>5. load_registry(ds, src) = F[n]
    BY DEF load_registry
  <1>6. /\ order \in Seq(DOMAIN ds) /\ Range(order) = DOMAIN ds
        /\ \A k \in 1 .. n : DependsOn(ds, order[k]) \subseteq First(k - 1)
    BY DEF OrderOf
  <1> HIDE DEF order
  <1> HIDE DEF State, start, E, Def, n, seen
  <1>7. step \in [(1 .. n) \X State -> State]
    BY <1>3
  <1>8. \A k \in 1 .. n, a \in State : step[<<k, a>>] = E(k, a)
    OBVIOUS
  <1> HIDE DEF step
  <1>9. PICK h : Unrolls(h, n, State, start, step)
    BY <1>1, <1>2, <1>7, RecursionExists
  <1>10. \A k \in 1 .. n : k - 1 \in 0 .. n /\ k \in 0 .. n
    BY <1>1
  <1>11. h = Def(h)
    <2>1. h = [k \in 0 .. n |-> h[k]] /\ h[0] = start
      BY <1>9 DEF Unrolls
    <2>2. \A k \in 1 .. n : h[k] = E(k, h[k - 1])
      BY <1>8, <1>9, <1>10 DEF Unrolls
    <2>3. \A k \in 0 .. n : k = 0 \/ k \in 1 .. n
      BY <1>1
    <2>4. \A k \in 0 .. n : h[k] = IF k = 0 THEN start ELSE E(k, h[k - 1])
      BY <2>1, <2>2, <2>3
    <2> QED
      BY <1>4, <2>1, <2>4
  <1>12. F = Def(F)
    BY <1>11
  <1> HIDE DEF F
  <1>13. F = [k \in 0 .. n |-> F[k]] /\ F[0] = start /\ \A k \in 1 .. n : F[k] = E(k, F[k - 1])
    <2> DEFINE g == [k \in 0 .. n |-> IF k = 0 THEN start ELSE E(k, F[k - 1])]
    <2>1. g = [k \in 0 .. n |-> g[k]]
      OBVIOUS
    <2>2. g[0] = start /\ \A k \in 1 .. n : g[k] = E(k, F[k - 1])
      BY <1>1
    <2>3. F = g
      BY <1>4, <1>12
    <2> HIDE DEF g
    <2> QED
      BY <2>1, <2>2, <2>3
  <1>14. F \in [0 .. n -> State]
    <2>1. \A k \in 1 .. n : F[k - 1] \in State => F[k] = step[<<k, F[k - 1]>>]
      BY <1>8, <1>13
    <2>2. Unrolls(F, n, State, start, step)
      BY <1>1, <1>2, <1>7, <1>13, <2>1, RecursionTyped
    <2> QED
      BY <2>2 DEF Unrolls
  <1>15. First(0) = {}
    OBVIOUS
  <1>16. ASSUME NEW k \in 1 .. n PROVE First(k) = First(k - 1) \cup {order[k]}
    <2>1. 1 .. k = (1 .. k - 1) \cup {k}
      BY <1>1
    <2> QED
      BY <2>1
  <1>17. First(n) = DOMAIN ds
    <2>1. DOMAIN order = 1 .. n
      BY <1>6 DEF n
    <2> QED
      BY <1>6, <2>1 DEF Range
  <1>18. \A k \in 1 .. n : order[k] \in DOMAIN ds
    BY <1>6 DEF n
  <1> DEFINE good == {k \in 0 .. n :
                 /\ F[k].aborted <=> \E i \in First(k) : Ends(ds, src, i)
                 /\ F[k].aborted \/ F[k].status = BuiltUp(ds, seen, First(k))}
  <1> HIDE DEF First
  <1>19. 0 \in good
    <2>1. start.status = BuiltUp(ds, seen, {}) /\ ~ start.aborted /\ 0 \in 0 .. n
      BY <1>1 DEF start, BuiltUp
    <2> QED
      BY <1>13, <1>15, <2>1
  <1>20. ASSUME NEW k \in 1 .. n, k - 1 \in good PROVE k \in good
    <2> DEFINE acc == F[k - 1]
               i == order[k]
               done == First(k - 1)
    <2>1. F[k] = LoadNext(ds, seen, acc, i) /\ k \in 0 .. n
      BY <1>10, <1>13 DEF E
    <2>2. /\ acc.aborted \/ acc.status = BuiltUp(ds, seen, done)
          /\ acc.aborted <=> \E j \in done : Ends(ds, src, j)
      BY <1>20
    <2>3. i \in DOMAIN ds /\ DependsOn(ds, i) \subseteq done /\ First(k) = done \cup {i}
      BY <1>6, <1>16, <1>18
    <2> HIDE DEF acc, i, done
    <2>4. CASE acc.aborted
      <3>1. F[k] = acc
        BY <2>1, <2>4 DEF LoadNext
      <3> QED
        BY <2>1, <2>2, <2>3, <2>4, <3>1
    <2>5. CASE ~ acc.aborted
      <3>1. LoadNext(ds, seen, acc, i).status = BuiltUp(ds, seen, done \cup {i})
        BY <2>2, <2>3, <2>5, LoadBuilt
      <3>2. LoadNext(ds, seen, acc, i).aborted <=> Ends(ds, src, i)
        <4>1. seen[i] = "error" <=> src[i] = "error"
          BY <2>3 DEF SeenByDuck, seen
        <4> QED
          BY <2>5, <4>1 DEF LoadNext, Ends
      <3> QED
        BY <2>1, <2>2, <2>3, <2>5, <3>1, <3>2
    <2> QED
      BY <2>4, <2>5
  <1>21. n \in good
    <2>1. n \in 0 .. n
      BY <1>1
    <2> HIDE DEF good
    <2> QED
      BY <1>1, <1>19, <1>20, <2>1, UpToN
  <1> QED
    BY <1>5, <1>17, <1>21 DEF seen

-----------------------------------------------------------------------------
(***************************************************************************)
(* Starting up: the cycle that find_cycle_path names.                      *)
(***************************************************************************)
\* What a visit returns.
Results(ds) == [visited : SUBSET DOMAIN ds, cycle : Seq(DOMAIN ds)]

\* What one dependency turns into.
Closing(ds, path, acc, p, look) ==
    look = [visited |-> acc.visited, cycle |-> SubSeq(path, p, Len(path))]

Looked(ds, visit, path, acc, dep, look) ==
    \/ /\ look = acc
       /\ acc.cycle = <<>> =>
            \A j \in DOMAIN ds : ds[j].name = dep /\ is_query(ds[j]) =>
                j \in acc.visited /\ j \notin Range(path)
    \/ /\ acc.cycle = <<>>
       /\ \E next \in DOMAIN ds :
            /\ ds[next].name = dep /\ is_query(ds[next])
            /\ \A j \in DOMAIN ds : ds[j].name = dep => j = next
            /\ \/ next \notin acc.visited /\ look = visit[Call(next, acc.visited, path)]
               \/ \E p \in DOMAIN path : path[p] = next /\ Closing(ds, path, acc, p, look)

\* LookAt does one of these.
LEMMA LookCases ==
    ASSUME NEW D, NEW T, NEW ds, IsConfig(D, T, ds), NEW visit, NEW path \in Seq(DOMAIN ds),
           NEW acc, NEW dep
    PROVE  Looked(ds, visit, path, acc, dep, LookAt(ds, visit, path, acc, dep))
  <1> DEFINE names == NamesSeq(ds)
             next == NameToIdx(names, dep)
             look == LookAt(ds, visit, path, acc, dep)
  <1>1. /\ names \in Seq(T) /\ IsInjective(names) /\ DOMAIN ds = 1 .. Len(names)
        /\ DOMAIN names = DOMAIN ds /\ \A j \in DOMAIN ds : names[j] = ds[j].name
    BY ConfigGraph DEF IsGraph
  <1>2. look = IF acc.cycle # <<>> \/ dep \notin Range(names) THEN acc
           ELSE IF ~is_query(ds[next]) THEN acc
           ELSE IF next \notin acc.visited THEN visit[Call(next, acc.visited, path)]
           ELSE IF next \in Range(path)
           THEN [visited |-> acc.visited,
                 cycle |-> SubSeq(path, Min({p \in DOMAIN path : path[p] = next}), Len(path))]
           ELSE acc
    BY DEF LookAt
  <1> SUFFICES Looked(ds, visit, path, acc, dep, look)
    OBVIOUS
  <1> HIDE DEF names, look
  <1>3. \A j \in DOMAIN ds : ds[j].name \in Range(names)
    BY <1>1 DEF Range
  <1>4. CASE acc.cycle # <<>> \/ dep \notin Range(names)
    BY <1>2, <1>3, <1>4 DEF Looked
  <1>5. CASE acc.cycle = <<>> /\ dep \in Range(names)
    <2>1. /\ next \in DOMAIN ds /\ ds[next].name = dep
          /\ \A j \in DOMAIN ds : ds[j].name = dep => j = next
      <3>1. /\ next \in 1 .. Len(names) /\ names[next] = dep
            /\ \A j \in 1 .. Len(names) : names[j] = dep => next = j
        BY <1>1, <1>5, IdxOf
      <3> HIDE DEF next
      <3> QED
        BY <1>1, <3>1
    <2> HIDE DEF next
    <2>2. CASE ~is_query(ds[next])
      BY <1>2, <1>5, <2>1, <2>2 DEF Looked
    <2>3. CASE is_query(ds[next]) /\ next \notin acc.visited
      BY <1>2, <1>5, <2>1, <2>3 DEF Looked
    <2>4. CASE is_query(ds[next]) /\ next \in acc.visited /\ next \in Range(path)
      <3> DEFINE S == {p \in DOMAIN path : path[p] = next}
      <3>1. S \in SUBSET Nat /\ S # {}
        BY <2>4 DEF Range
      <3>2. Min(S) \in S
        <4> HIDE DEF S
        <4> QED
          BY <3>1, MinIsLeast
      <3> DEFINE p == Min(S)
      <3>3. Closing(ds, path, acc, p, look)
        BY <1>2, <1>5, <2>4 DEF Closing
      <3>4. p \in DOMAIN path /\ path[p] = next
        BY <3>2
      <3> HIDE DEF p
      <3> QED
        BY <1>5, <2>1, <2>4, <3>3, <3>4 DEF Looked
    <2>5. CASE is_query(ds[next]) /\ next \in acc.visited /\ next \notin Range(path)
      BY <1>2, <1>5, <2>1, <2>5 DEF Looked
    <2> QED
      BY <2>2, <2>3, <2>4, <2>5
  <1> QED
    BY <1>4, <1>5

\* The end of a path.
IsEnd(S, path, p, c) ==
    /\ c \in Seq(S) /\ c # <<>> /\ Len(c) \in Nat /\ Len(c) >= 1
    /\ Len(path) \in Nat /\ p + Len(c) - 1 = Len(path) /\ p \in 1 .. Len(path)
    /\ \A i \in 1 .. Len(c) : c[i] = path[p + i - 1]

\* SubSeq up to the end is one.
LEMMA PathEnd ==
    ASSUME NEW S, NEW path \in Seq(S), NEW p \in DOMAIN path
    PROVE  IsEnd(S, path, p, SubSeq(path, p, Len(path)))
  <1> DEFINE n == Len(path)
             c == SubSeq(path, p, n)
  <1>1. n \in Nat /\ p \in 1 .. n /\ DOMAIN path = 1 .. n
    OBVIOUS
  <1>2. c = [i \in 1 .. n - p + 1 |-> path[p + i - 1]]
    BY <1>1
  <1>3. n - p + 1 \in Nat /\ n - p + 1 >= 1 /\ \A i \in 1 .. n - p + 1 : p + i - 1 \in 1 .. n
    BY <1>1
  <1>4. \A i \in 1 .. n - p + 1 : path[p + i - 1] \in S
    BY <1>3
  <1>5. c \in Seq(S) /\ Len(c) = n - p + 1
    <2> DEFINE m == n - p + 1
               e(i) == path[p + i - 1]
    <2>1. m \in Nat /\ c = [i \in 1 .. m |-> e(i)] /\ \A i \in 1 .. m : e(i) \in S
      BY <1>2, <1>3, <1>4
    <2> HIDE DEF m, e, c
    <2>2. c \in Seq(S) /\ Len(c) = m
      BY <2>1
    <2> QED
      BY <2>2 DEF m
  <1> HIDE DEF n
  <1> HIDE DEF c
  <1>6. c # <<>>
    <2>1. Len(<<>>) = 0
      OBVIOUS
    <2> QED
      BY <1>3, <1>5, <2>1
  <1>7. p + Len(c) - 1 = n
    BY <1>1, <1>5
  <1> QED
    BY <1>1, <1>2, <1>3, <1>5, <1>6, <1>7 DEF c, n, IsEnd

\* LookAt returns a result.
LEMMA LookTyped ==
    ASSUME NEW D, NEW T, NEW ds, IsConfig(D, T, ds), NEW visit \in [Calls(ds) -> Results(ds)],
           NEW path \in Seq(DOMAIN ds), NEW acc \in Results(ds), NEW dep
    PROVE  LookAt(ds, visit, path, acc, dep) \in Results(ds)
  <1> DEFINE look == LookAt(ds, visit, path, acc, dep)
  <1>1. Looked(ds, visit, path, acc, dep, look)
    BY LookCases
  <1> HIDE DEF look
  <1>2. acc.visited \in SUBSET DOMAIN ds
    BY DEF Results
  <1>3. \A next \in DOMAIN ds : Call(next, acc.visited, path) \in Calls(ds)
    BY <1>2 DEF Call, Calls
  <1>4. ASSUME NEW p \in DOMAIN path
        PROVE  Closing(ds, path, acc, p, look) => look \in Results(ds)
    <2> DEFINE c == SubSeq(path, p, Len(path))
    <2>1. c \in Seq(DOMAIN ds)
      BY PathEnd DEF IsEnd
    <2> HIDE DEF c
    <2>2. [visited |-> acc.visited, cycle |-> c] \in Results(ds)
      BY <1>2, <2>1 DEF Results
    <2> QED
      BY <2>2 DEF c, Closing
  <1>5. look \in Results(ds)
    BY <1>1, <1>3, <1>4 DEF Looked
  <1> QED
    BY <1>5 DEF look

\* What LookAtAll has after each dependency.
Looks(f, ds, visit, call) ==
    /\ f \in [0 .. Len(ds[call.node].depends_on) -> Results(ds)]
    /\ f[0] = NotFound(call.visited \cup {call.node})
    /\ \A k \in 1 .. Len(ds[call.node].depends_on) :
         f[k] = LookAt(ds, visit, Append(call.path, call.node), f[k - 1], ds[call.node].depends_on[k])
    /\ LookAtAll(ds, visit, call) = f[Len(ds[call.node].depends_on)]

\* LookAtAll dependency by dependency.
LEMMA LooksSteps ==
    ASSUME NEW D, NEW T, NEW ds, IsConfig(D, T, ds), NEW visit \in [Calls(ds) -> Results(ds)],
           NEW call \in Calls(ds)
    PROVE  \E f : Looks(f, ds, visit, call)
  <1> DEFINE deps == ds[call.node].depends_on
             path == Append(call.path, call.node)
             n == Len(deps)
             State == Results(ds)
             start == NotFound(call.visited \cup {call.node})
             E(k, a) == LookAt(ds, visit, path, a, deps[k])
             step == [x \in (1 .. n) \X State |-> E(x[1], x[2])]
             Def(h) == [p \in 0 .. n |-> IF p = 0 THEN NotFound(call.visited \cup {call.node})
                          ELSE LookAt(ds, visit, path, h[p - 1], deps[p])]
             F == CHOOSE h : h = Def(h)
  <1>1. n \in Nat
    <2>1. deps \in Seq(T)
      BY DEF IsConfig, Calls
    <2> HIDE DEF deps
    <2> QED
      BY <2>1
  <1>2. start \in State
    BY DEF Calls, NotFound, Results
  <1>3. \A k \in 1 .. n, a \in State : E(k, a) \in State
    <2>1. path \in Seq(DOMAIN ds)
      BY DEF Calls
    <2> HIDE DEF path, deps, n
    <2> QED
      BY <2>1, LookTyped
  <1>4. \A h : Def(h) = [k \in 0 .. n |-> IF k = 0 THEN start ELSE E(k, h[k - 1])]
    OBVIOUS
  <1>5. LookAtAll(ds, visit, call) = F[n]
    BY DEF LookAtAll
  <1> HIDE DEF State, start, E, Def, n, deps, path
  <1>6. step \in [(1 .. n) \X State -> State]
    BY <1>3
  <1>7. \A k \in 1 .. n, a \in State : step[<<k, a>>] = E(k, a)
    OBVIOUS
  <1> HIDE DEF step
  <1>8. PICK h : Unrolls(h, n, State, start, step)
    BY <1>1, <1>2, <1>6, RecursionExists
  <1>9. \A k \in 1 .. n : k - 1 \in 0 .. n /\ k \in 0 .. n
    BY <1>1
  <1>10. h = Def(h)
    <2>1. h = [k \in 0 .. n |-> h[k]] /\ h[0] = start
      BY <1>8 DEF Unrolls
    <2>2. \A k \in 1 .. n : h[k] = E(k, h[k - 1])
      BY <1>7, <1>8, <1>9 DEF Unrolls
    <2>3. \A k \in 0 .. n : k = 0 \/ k \in 1 .. n
      BY <1>1
    <2>4. \A k \in 0 .. n : h[k] = IF k = 0 THEN start ELSE E(k, h[k - 1])
      BY <2>1, <2>2, <2>3
    <2> QED
      BY <1>4, <2>1, <2>4
  <1>11. F = Def(F)
    BY <1>10
  <1> HIDE DEF F
  <1>12. F = [k \in 0 .. n |-> F[k]] /\ F[0] = start /\ \A k \in 1 .. n : F[k] = E(k, F[k - 1])
    <2> DEFINE g == [k \in 0 .. n |-> IF k = 0 THEN start ELSE E(k, F[k - 1])]
    <2>1. g = [k \in 0 .. n |-> g[k]]
      OBVIOUS
    <2>2. g[0] = start /\ \A k \in 1 .. n : g[k] = E(k, F[k - 1])
      BY <1>1
    <2>3. F = g
      BY <1>4, <1>11
    <2> HIDE DEF g
    <2> QED
      BY <2>1, <2>2, <2>3
  <1>13. F \in [0 .. n -> State]
    <2>1. \A k \in 1 .. n : F[k - 1] \in State => F[k] = step[<<k, F[k - 1]>>]
      BY <1>7, <1>12
    <2>2. Unrolls(F, n, State, start, step)
      BY <1>1, <1>2, <1>6, <1>12, <2>1, RecursionTyped
    <2> QED
      BY <2>2 DEF Unrolls
  <1>14. Looks(F, ds, visit, call)
    BY <1>5, <1>12, <1>13 DEF Looks, State, start, E, n, deps, path
  <1> QED
    BY <1>14

\* LookAtAll returns a result.
LEMMA LookAllTyped ==
    ASSUME NEW D, NEW T, NEW ds, IsConfig(D, T, ds), NEW visit \in [Calls(ds) -> Results(ds)],
           NEW call \in Calls(ds)
    PROVE  LookAtAll(ds, visit, call) \in Results(ds)
  <1> DEFINE n == Len(ds[call.node].depends_on)
  <1>1. PICK f : Looks(f, ds, visit, call)
    BY LooksSteps
  <1>2. n \in 0 .. n
    <2>1. ds[call.node].depends_on \in Seq(T)
      BY DEF IsConfig, Calls
    <2> QED
      BY <2>1
  <1> QED
    BY <1>1, <1>2 DEF Looks

\* What dfs_find_cycle makes of the calls at each depth.
Visits(f, ds) ==
    /\ f \in [0 .. Len(ds) -> [Calls(ds) -> Results(ds)]]
    /\ \A k \in 1 .. Len(ds), call \in Calls(ds) : f[k][call] = LookAtAll(ds, f[k - 1], call)
    /\ dfs_find_cycle(ds) = f[Len(ds)]

\* dfs_find_cycle depth by depth.
LEMMA VisitsSteps ==
    ASSUME NEW D, NEW T, NEW ds, IsConfig(D, T, ds)
    PROVE  \E f : Visits(f, ds)
  <1> DEFINE n == Len(ds)
             C == Calls(ds)
             State == [C -> Results(ds)]
             start == [call \in C |-> NotFound(call.visited)]
             E(k, a) == [call \in C |-> LookAtAll(ds, a, call)]
             step == [x \in (1 .. n) \X State |-> E(x[1], x[2])]
             Def(h) == [depth \in 0 .. n |->
                          IF depth = 0 THEN [call \in C |-> NotFound(call.visited)]
                          ELSE [call \in C |-> LookAtAll(ds, h[depth - 1], call)]]
             F == CHOOSE h : h = Def(h)
  <1>1. n \in Nat
    BY ConfigGraph
  <1>2. start \in State
    <2>1. \A call \in C : NotFound(call.visited) \in Results(ds)
      BY DEF Calls, NotFound, Results
    <2> HIDE DEF C
    <2> QED
      BY <2>1
  <1>3. \A k \in 1 .. n, a \in State : E(k, a) \in State
    <2>1. \A a \in State, call \in C : LookAtAll(ds, a, call) \in Results(ds)
      BY LookAllTyped
    <2> HIDE DEF C
    <2> QED
      BY <2>1
  <1>4. \A h : Def(h) = [k \in 0 .. n |-> IF k = 0 THEN start ELSE E(k, h[k - 1])]
    OBVIOUS
  <1>5. dfs_find_cycle(ds) = F[n]
    BY DEF dfs_find_cycle
  <1>6. \A k, a : \A call \in C : E(k, a)[call] = LookAtAll(ds, a, call)
    OBVIOUS
  <1> HIDE DEF State, start, E, Def, n, C
  <1>7. step \in [(1 .. n) \X State -> State]
    BY <1>3
  <1>8. \A k \in 1 .. n, a \in State : step[<<k, a>>] = E(k, a)
    OBVIOUS
  <1> HIDE DEF step
  <1>9. PICK h : Unrolls(h, n, State, start, step)
    BY <1>1, <1>2, <1>7, RecursionExists
  <1>10. \A k \in 1 .. n : k - 1 \in 0 .. n /\ k \in 0 .. n
    BY <1>1
  <1>11. h = Def(h)
    <2>1. h = [k \in 0 .. n |-> h[k]] /\ h[0] = start
      BY <1>9 DEF Unrolls
    <2>2. \A k \in 1 .. n : h[k] = E(k, h[k - 1])
      BY <1>8, <1>9, <1>10 DEF Unrolls
    <2>3. \A k \in 0 .. n : k = 0 \/ k \in 1 .. n
      BY <1>1
    <2>4. \A k \in 0 .. n : h[k] = IF k = 0 THEN start ELSE E(k, h[k - 1])
      BY <2>1, <2>2, <2>3
    <2> QED
      BY <1>4, <2>1, <2>4
  <1>12. F = Def(F)
    BY <1>11
  <1> HIDE DEF F
  <1>13. F = [k \in 0 .. n |-> F[k]] /\ F[0] = start /\ \A k \in 1 .. n : F[k] = E(k, F[k - 1])
    <2> DEFINE g == [k \in 0 .. n |-> IF k = 0 THEN start ELSE E(k, F[k - 1])]
    <2>1. g = [k \in 0 .. n |-> g[k]]
      OBVIOUS
    <2>2. g[0] = start /\ \A k \in 1 .. n : g[k] = E(k, F[k - 1])
      BY <1>1
    <2>3. F = g
      BY <1>4, <1>12
    <2> HIDE DEF g
    <2> QED
      BY <2>1, <2>2, <2>3
  <1>14. F \in [0 .. n -> State]
    <2>1. \A k \in 1 .. n : F[k - 1] \in State => F[k] = step[<<k, F[k - 1]>>]
      BY <1>8, <1>13
    <2>2. Unrolls(F, n, State, start, step)
      BY <1>1, <1>2, <1>7, <1>13, <2>1, RecursionTyped
    <2> QED
      BY <2>2 DEF Unrolls
  <1>15. \A k \in 1 .. n, call \in C : F[k][call] = LookAtAll(ds, F[k - 1], call)
    <2>1. SUFFICES ASSUME NEW k \in 1 .. n, NEW call \in C
                   PROVE  F[k][call] = LookAtAll(ds, F[k - 1], call)
      OBVIOUS
    <2>2. F[k] = E(k, F[k - 1])
      BY <1>13
    <2> DEFINE g == F[k - 1]
    <2> HIDE DEF g
    <2>3. E(k, g)[call] = LookAtAll(ds, g, call)
      BY <1>6
    <2> QED
      BY <2>2, <2>3 DEF g
  <1>16. Visits(F, ds)
    BY <1>5, <1>14, <1>15 DEF Visits, State, n, C
  <1> QED
    BY <1>16

\* A path along the dependencies, and one that comes back to its start.
Follows(ds, path) == \A p \in 1 .. Len(path) - 1 : path[p + 1] \in DependsOn(ds, path[p])

ClosesUp(ds, c) ==
    /\ c \in Seq(DOMAIN ds) /\ c # <<>> /\ Follows(ds, c)
    /\ c[1] \in DependsOn(ds, c[Len(c)])

\* Datasets that were left with all they lead to: no knot among them.
Finished(ds, S) ==
    /\ S \subseteq DOMAIN ds
    /\ \A i \in S : \A j \in DependsOn(ds, i) : is_query(ds[j]) => j \in S
    /\ \A U : Knot(ds, U) => ~ (U \subseteq S)

\* Only query datasets are in a knot.
LEMMA KnotQueries ==
    ASSUME NEW D, NEW T, NEW ds, IsConfig(D, T, ds), NEW U, Knot(ds, U)
    PROVE  \A i \in U : i \in DOMAIN ds /\ is_query(ds[i])
  <1>1. SUFFICES ASSUME NEW i \in U, ~ is_query(ds[i]) PROVE FALSE
    BY DEF Knot
  <1>2. i \in DOMAIN ds /\ DependsOn(ds, i) # {}
    BY DEF Knot
  <1>3. ds[i].depends_on = <<>>
    BY <1>1, <1>2 DEF IsConfig
  <1>4. Range(<<>>) = {}
    BY DEF Range
  <1> QED
    BY <1>2, <1>3, <1>4 DEF DependsOn

\* A dataset that leads only to finished ones is finished.
LEMMA FinishedMore ==
    ASSUME NEW D, NEW T, NEW ds, IsConfig(D, T, ds), NEW S, Finished(ds, S),
           NEW node \in DOMAIN ds, node \notin S, \A j \in DependsOn(ds, node) : is_query(ds[j]) => j \in S
    PROVE  Finished(ds, S \cup {node})
  <1>1. ASSUME NEW U, Knot(ds, U), U \subseteq S \cup {node} PROVE FALSE
    <2> DEFINE V == U \ {node}
    <2>1. /\ U \subseteq DOMAIN ds /\ U # {} /\ \A i \in U : DependsOn(ds, i) \cap U # {}
          /\ \A i \in U : is_query(ds[i])
      BY <1>1, KnotQueries DEF Knot
    <2>2. ASSUME NEW i \in V PROVE DependsOn(ds, i) \cap V # {}
      <3>1. i \in S /\ i \in U
        BY <1>1, <2>2
      <3>2. PICK j \in DependsOn(ds, i) : j \in U
        BY <2>1, <3>1
      <3>3. j \in S
        BY <2>1, <3>1, <3>2 DEF Finished
      <3> QED
        BY <3>2, <3>3
    <2>3. V # {}
      <3>1. SUFFICES ASSUME U = {node} PROVE FALSE
        BY <2>1
      <3>2. node \in DependsOn(ds, node) /\ is_query(ds[node])
        BY <2>1, <3>1
      <3> QED
        BY <3>2
    <2>4. Knot(ds, V)
      BY <2>1, <2>2, <2>3 DEF Knot
    <2>5. V \subseteq S
      BY <1>1
    <2> QED
      BY <2>4, <2>5 DEF Finished
  <1>2. S \cup {node} \subseteq DOMAIN ds
    BY DEF Finished
  <1>3. \A i \in S \cup {node} : \A j \in DependsOn(ds, i) : is_query(ds[j]) => j \in S \cup {node}
    BY DEF Finished
  <1> QED
    BY <1>1, <1>2, <1>3 DEF Finished

\* A call with room for depth more datasets on the path.
CallOk(ds, depth, call) ==
    /\ call \in Calls(ds) /\ IsInjective(call.path)
    /\ Range(call.path) \subseteq call.visited /\ call.node \notin call.visited
    /\ Follows(ds, Append(call.path, call.node))
    /\ Finished(ds, call.visited \ Range(call.path))
    /\ Len(call.path) + depth = Len(ds)

\* A cycle was found, or what was seen besides the path is finished.
Searched(ds, path, seen, r) ==
    /\ r.cycle # <<>> => ClosesUp(ds, r.cycle)
    /\ r.cycle = <<>> => seen \subseteq r.visited /\ Finished(ds, r.visited \ Range(path))

VisitOk(ds, depth, visit) ==
    /\ visit \in [Calls(ds) -> Results(ds)]
    /\ \A call : CallOk(ds, depth, call) =>
         Searched(ds, call.path, call.visited \cup {call.node}, visit[call])

\* The path with one more that its last dataset uses.
LEMMA FollowsOn ==
    ASSUME NEW ds, NEW S, NEW path \in Seq(S), NEW next \in S, path # <<>>, Follows(ds, path),
           next \in DependsOn(ds, path[Len(path)])
    PROVE  Follows(ds, Append(path, next))
  <1> DEFINE c == Append(path, next)
             n == Len(path)
  <1>1. n \in Nat /\ Len(c) = n + 1 /\ c[n + 1] = next /\ \A k \in 1 .. n : c[k] = path[k]
    OBVIOUS
  <1>2. n >= 1
    OBVIOUS
  <1> HIDE DEF c
  <1>3. ASSUME NEW p \in 1 .. n PROVE c[p + 1] \in DependsOn(ds, c[p])
    <2>1. CASE p = n
      BY <1>1, <1>2, <2>1
    <2>2. CASE p # n
      <3>1. p \in 1 .. n - 1 /\ p + 1 \in 1 .. n
        BY <1>1, <2>2
      <3>2. path[p + 1] \in DependsOn(ds, path[p])
        BY <3>1 DEF Follows
      <3> QED
        BY <1>1, <3>1, <3>2
    <2> QED
      BY <2>1, <2>2
  <1>4. n + 1 - 1 = n
    BY <1>1
  <1> QED
    BY <1>1, <1>3, <1>4 DEF Follows, c

\* The end of a path whose last dataset uses the first of it.
LEMMA PathLoops ==
    ASSUME NEW ds, NEW path \in Seq(DOMAIN ds), Follows(ds, path), NEW p \in DOMAIN path,
           path[p] \in DependsOn(ds, path[Len(path)])
    PROVE  ClosesUp(ds, SubSeq(path, p, Len(path)))
  <1> DEFINE n == Len(path)
             c == SubSeq(path, p, n)
             m == Len(c)
  <1>1. /\ c \in Seq(DOMAIN ds) /\ c # <<>> /\ m \in Nat /\ m >= 1 /\ n \in Nat
        /\ p + m - 1 = n /\ p \in 1 .. n /\ \A i \in 1 .. m : c[i] = path[p + i - 1]
    <2>1. IsEnd(DOMAIN ds, path, p, c)
      BY PathEnd
    <2> HIDE DEF c
    <2> QED
      BY <2>1 DEF IsEnd
  <1> HIDE DEF c, m
  <1>2. ASSUME NEW i \in 1 .. m - 1 PROVE c[i + 1] \in DependsOn(ds, c[i])
    <2>1. /\ i \in 1 .. m /\ i + 1 \in 1 .. m /\ p + i - 1 \in 1 .. n - 1
          /\ p + (i + 1) - 1 = (p + i - 1) + 1
      BY <1>1
    <2>2. path[(p + i - 1) + 1] \in DependsOn(ds, path[p + i - 1])
      BY <2>1 DEF Follows
    <2> QED
      BY <1>1, <2>1, <2>2
  <1>3. c[1] = path[p] /\ c[m] = path[n]
    <2>1. 1 \in 1 .. m /\ m \in 1 .. m /\ p + 1 - 1 = p
      BY <1>1
    <2>2. c[1] = path[p + 1 - 1] /\ c[m] = path[p + m - 1]
      BY <1>1, <2>1
    <2> QED
      BY <1>1, <2>1, <2>2
  <1> QED
    BY <1>1, <1>2, <1>3 DEF ClosesUp, Follows, c, m

\* The query datasets of a name.
QueriesNamed(ds, dep) == {j \in DOMAIN ds : ds[j].name = dep /\ is_query(ds[j])}

\* What looking at a dependency promises.
Advanced(ds, path, seen, acc, dep, look) ==
    /\ Searched(ds, path, seen \cup QueriesNamed(ds, dep), look)
    /\ look.cycle = <<>> => acc.cycle = <<>> /\ QueriesNamed(ds, dep) \cap Range(path) = {}

\* LookAt keeps it.
LEMMA LookOk ==
    ASSUME NEW D, NEW T, NEW ds, IsConfig(D, T, ds), NEW depth, NEW visit, VisitOk(ds, depth, visit),
           NEW path \in Seq(DOMAIN ds), path # <<>>, IsInjective(path), Follows(ds, path),
           Len(path) + depth = Len(ds), NEW dep \in Range(ds[path[Len(path)]].depends_on),
           NEW acc \in Results(ds), NEW seen, Range(path) \subseteq seen, Searched(ds, path, seen, acc)
    PROVE  Advanced(ds, path, seen, acc, dep, LookAt(ds, visit, path, acc, dep))
  <1> DEFINE look == LookAt(ds, visit, path, acc, dep)
             node == path[Len(path)]
             named == QueriesNamed(ds, dep)
  <1>1. Looked(ds, visit, path, acc, dep, look)
    BY LookCases
  <1>2. acc.visited \in SUBSET DOMAIN ds
    BY DEF Results
  <1> HIDE DEF look, named
  <1>3. CASE /\ look = acc
             /\ acc.cycle = <<>> =>
                 \A j \in DOMAIN ds : ds[j].name = dep /\ is_query(ds[j]) =>
                     j \in acc.visited /\ j \notin Range(path)
    <2>1. acc.cycle = <<>> => named \subseteq acc.visited /\ named \cap Range(path) = {}
      BY <1>3 DEF named, QueriesNamed
    <2>2. Searched(ds, path, seen \cup named, look)
      BY <1>3, <2>1 DEF Searched
    <2> QED
      BY <1>3, <2>1, <2>2 DEF look, named, Advanced
  <1>4. ASSUME acc.cycle = <<>>, NEW next \in DOMAIN ds, ds[next].name = dep, is_query(ds[next]),
               \A j \in DOMAIN ds : ds[j].name = dep => j = next
        PROVE  named = {next} /\ next \in DependsOn(ds, node) /\ seen \subseteq acc.visited
               /\ Finished(ds, acc.visited \ Range(path))
    <2>1. named = {next}
      BY <1>4 DEF named, QueriesNamed
    <2>2. next \in DependsOn(ds, node)
      BY <1>4 DEF DependsOn
    <2> QED
      BY <1>4, <2>1, <2>2 DEF Searched
  <1>5. ASSUME acc.cycle = <<>>, NEW next \in DOMAIN ds, ds[next].name = dep, is_query(ds[next]),
               \A j \in DOMAIN ds : ds[j].name = dep => j = next,
               next \notin acc.visited, look = visit[Call(next, acc.visited, path)]
        PROVE  Searched(ds, path, seen \cup named, look) /\ named \cap Range(path) = {}
    <2> DEFINE call == Call(next, acc.visited, path)
    <2>1. /\ named = {next} /\ next \in DependsOn(ds, node) /\ seen \subseteq acc.visited
          /\ Finished(ds, acc.visited \ Range(path))
      BY <1>4, <1>5
    <2>2. call.node = next /\ call.visited = acc.visited /\ call.path = path /\ call \in Calls(ds)
      BY <1>2 DEF Call, Calls
    <2>3. Follows(ds, Append(path, next))
      BY <2>1, FollowsOn
    <2> HIDE DEF call
    <2>4. CallOk(ds, depth, call)
      BY <1>5, <2>1, <2>2, <2>3 DEF CallOk
    <2>5. Searched(ds, path, acc.visited \cup {next}, look)
      <3>1. Searched(ds, call.path, call.visited \cup {call.node}, visit[call])
        BY <2>4 DEF VisitOk
      <3> QED
        BY <1>5, <2>2, <3>1 DEF call
    <2>6. Searched(ds, path, seen \cup named, look)
      BY <2>1, <2>5 DEF Searched
    <2> QED
      BY <1>5, <2>1, <2>6
  <1>6. ASSUME acc.cycle = <<>>, NEW next \in DOMAIN ds, ds[next].name = dep, is_query(ds[next]),
               \A j \in DOMAIN ds : ds[j].name = dep => j = next,
               NEW p \in DOMAIN path, path[p] = next, Closing(ds, path, acc, p, look)
        PROVE  Searched(ds, path, seen \cup named, look) /\ look.cycle # <<>>
    <2>1. next \in DependsOn(ds, node)
      BY <1>4, <1>6
    <2>2. ClosesUp(ds, SubSeq(path, p, Len(path)))
      BY <1>6, <2>1, PathLoops
    <2>3. look.cycle = SubSeq(path, p, Len(path))
      BY <1>6 DEF Closing
    <2>4. look.cycle # <<>> /\ ClosesUp(ds, look.cycle)
      BY <2>2, <2>3 DEF ClosesUp
    <2> QED
      BY <2>4 DEF Searched
  <1>7. CASE /\ acc.cycle = <<>>
             /\ \E next \in DOMAIN ds :
                  /\ ds[next].name = dep /\ is_query(ds[next])
                  /\ \A j \in DOMAIN ds : ds[j].name = dep => j = next
                  /\ \/ next \notin acc.visited /\ look = visit[Call(next, acc.visited, path)]
                     \/ \E p \in DOMAIN path : path[p] = next /\ Closing(ds, path, acc, p, look)
    <2>1. PICK next \in DOMAIN ds :
                  /\ ds[next].name = dep /\ is_query(ds[next])
                  /\ \A j \in DOMAIN ds : ds[j].name = dep => j = next
                  /\ \/ next \notin acc.visited /\ look = visit[Call(next, acc.visited, path)]
                     \/ \E p \in DOMAIN path : path[p] = next /\ Closing(ds, path, acc, p, look)
      BY <1>7
    <2>2. CASE next \notin acc.visited /\ look = visit[Call(next, acc.visited, path)]
      <3>1. Searched(ds, path, seen \cup named, look) /\ named \cap Range(path) = {}
        BY <1>5, <1>7, <2>1, <2>2
      <3> QED
        BY <1>7, <3>1 DEF look, named, Advanced
    <2>3. CASE \E p \in DOMAIN path : path[p] = next /\ Closing(ds, path, acc, p, look)
      <3>1. Searched(ds, path, seen \cup named, look) /\ look.cycle # <<>>
        BY <1>6, <1>7, <2>1, <2>3
      <3> QED
        BY <3>1 DEF look, named, Advanced
    <2> QED
      BY <2>1, <2>2, <2>3
  <1> QED
    BY <1>1, <1>3, <1>7 DEF Looked

\* Visiting a dataset: all it leads to is finished, and so is it, or there is
\* a cycle.
LEMMA LookAllOk ==
    ASSUME NEW D, NEW T, NEW ds, IsConfig(D, T, ds), NEW depth \in Nat, NEW visit, VisitOk(ds, depth, visit),
           NEW call, CallOk(ds, depth + 1, call)
    PROVE  Searched(ds, call.path, call.visited \cup {call.node}, LookAtAll(ds, visit, call))
  <1> DEFINE node == call.node
             visited == call.visited
             path == call.path
             way == Append(path, node)
             deps == ds[node].depends_on
             m == Len(deps)
             seen(k) == visited \cup {node} \cup UNION {QueriesNamed(ds, deps[p]) : p \in 1 .. k}
             r == LookAtAll(ds, visit, call)
  <1>1. /\ node \in DOMAIN ds /\ visited \in SUBSET DOMAIN ds /\ path \in Seq(DOMAIN ds)
        /\ IsInjective(path) /\ Range(path) \subseteq visited /\ node \notin visited
        /\ Follows(ds, way) /\ Finished(ds, visited \ Range(path)) /\ Len(path) + (depth + 1) = Len(ds)
        /\ call \in Calls(ds)
    BY DEF CallOk, Calls
  <1>2. visit \in [Calls(ds) -> Results(ds)]
    BY DEF VisitOk
  <1>3. PICK f : Looks(f, ds, visit, call)
    BY <1>1, <1>2, LooksSteps
  <1>4. deps \in Seq(T) /\ m \in Nat
    <2>1. deps \in Seq(T)
      BY <1>1 DEF IsConfig
    <2> HIDE DEF deps
    <2> QED
      BY <2>1
  <1>5. /\ f \in [0 .. m -> Results(ds)] /\ f[0] = NotFound(visited \cup {node}) /\ r = f[m]
        /\ \A k \in 1 .. m : f[k] = LookAt(ds, visit, way, f[k - 1], deps[k])
    BY <1>3 DEF Looks
  <1> HIDE DEF node, visited, path, r
  <1>6. /\ way \in Seq(DOMAIN ds) /\ IsInjective(way) /\ Range(way) = Range(path) \cup {node}
        /\ Len(way) = Len(path) + 1 /\ way[Len(path) + 1] = node
    BY <1>1, AppendNew
  <1>7. way # <<>> /\ Len(way) + depth = Len(ds) /\ way[Len(way)] = node
    <2>1. Len(path) \in Nat /\ Len(<<>>) = 0
      BY <1>1
    <2> HIDE DEF way
    <2>2. way # <<>>
      BY <1>6, <2>1
    <2> QED
      BY <1>1, <1>6, <2>1, <2>2
  <1> HIDE DEF way
  <1> DEFINE Clear(k) == \A p \in 1 .. k : QueriesNamed(ds, deps[p]) \cap Range(way) = {}
             good == {k \in 0 .. m : Searched(ds, way, seen(k), f[k]) /\ (f[k].cycle = <<>> => Clear(k))}
  <1>8. \A k \in 1 .. m : deps[k] \in Range(deps) /\ k - 1 \in 0 .. m /\ k \in 0 .. m
    BY <1>4 DEF Range
  <1> HIDE DEF deps, m
  <1>9. 0 \in good
    <2>1. f[0].cycle = <<>> /\ f[0].visited = visited \cup {node} /\ 0 \in 0 .. m
      BY <1>4, <1>5 DEF NotFound
    <2>2. (visited \cup {node}) \ Range(way) = visited \ Range(path)
      BY <1>1, <1>6
    <2>3. seen(0) = visited \cup {node} /\ Clear(0)
      OBVIOUS
    <2> HIDE DEF seen, Clear
    <2> QED
      BY <1>1, <2>1, <2>2, <2>3 DEF Searched
  <1>10. ASSUME NEW k \in 1 .. m, k - 1 \in good PROVE k \in good
    <2> DEFINE acc == f[k - 1]
               dep == deps[k]
               look == LookAt(ds, visit, way, acc, dep)
               old == seen(k - 1)
    <2>1. acc \in Results(ds) /\ f[k] = look /\ dep \in Range(deps) /\ k \in 0 .. m
      BY <1>5, <1>8
    <2>2. 1 .. k = (1 .. k - 1) \cup {k}
      BY <1>4
    <2>3. seen(k) = old \cup QueriesNamed(ds, dep)
      BY <2>2
    <2>4. Clear(k) <=> (Clear(k - 1) /\ QueriesNamed(ds, dep) \cap Range(way) = {})
      BY <2>2
    <2>5. Range(way) \subseteq old
      BY <1>1, <1>6
    <2>6. Searched(ds, way, old, acc) /\ (acc.cycle = <<>> => Clear(k - 1))
      BY <1>10
    <2> HIDE DEF old, acc, dep, seen, Clear
    <2>7. /\ Searched(ds, way, old \cup QueriesNamed(ds, dep), look)
          /\ look.cycle = <<>> => acc.cycle = <<>> /\ QueriesNamed(ds, dep) \cap Range(way) = {}
      <3>1. dep \in Range(ds[way[Len(way)]].depends_on)
        BY <1>7, <2>1 DEF deps
      <3>2. Advanced(ds, way, old, acc, dep, look)
        BY <1>1, <1>6, <1>7, <2>1, <2>5, <2>6, <3>1, LookOk
      <3> QED
        BY <3>2 DEF Advanced
    <2> HIDE DEF look
    <2> QED
      BY <2>1, <2>3, <2>4, <2>6, <2>7
  <1>11. m \in good
    <2>1. m \in 0 .. m
      BY <1>4
    <2> HIDE DEF good
    <2> QED
      BY <1>4, <1>9, <1>10, <2>1, UpToN
  <1>12. Searched(ds, way, seen(m), r) /\ (r.cycle = <<>> => Clear(m))
    BY <1>5, <1>11
  <1>13. ASSUME r.cycle = <<>>
         PROVE  visited \cup {node} \subseteq r.visited /\ Finished(ds, r.visited \ Range(path))
    <2>1. seen(m) \subseteq r.visited /\ Clear(m) /\ Finished(ds, r.visited \ Range(way))
      BY <1>12, <1>13 DEF Searched
    <2> DEFINE S == r.visited \ Range(way)
    <2>2. ASSUME NEW j \in DependsOn(ds, node), is_query(ds[j]) PROVE j \in S
      <3>1. j \in DOMAIN ds /\ ds[j].name \in Range(deps)
        BY <2>2 DEF DependsOn, deps
      <3>2. PICK p \in 1 .. m : deps[p] = ds[j].name
        BY <1>4, <3>1 DEF Range, m
      <3>3. j \in QueriesNamed(ds, deps[p])
        BY <2>2, <3>1, <3>2 DEF QueriesNamed
      <3>4. j \in seen(m)
        BY <3>3
      <3>5. j \notin Range(way)
        BY <2>1, <3>3
      <3> QED
        BY <2>1, <3>4, <3>5
    <2>3. node \notin S /\ node \in r.visited
      BY <1>6, <2>1
    <2>4. S \cup {node} = r.visited \ Range(path)
      BY <1>1, <1>6, <2>3
    <2> HIDE DEF S, seen
    <2>5. Finished(ds, S \cup {node})
      <3>1. Finished(ds, S)
        BY <2>1 DEF S
      <3> QED
        BY <1>1, <2>2, <2>3, <3>1, FinishedMore
    <2>6. visited \cup {node} \subseteq r.visited
      BY <2>1 DEF seen
    <2> QED
      BY <2>4, <2>5, <2>6
  <1> HIDE DEF seen, Clear, good
  <1>14. Searched(ds, path, visited \cup {node}, r)
    BY <1>12, <1>13 DEF Searched
  <1> QED
    BY <1>14 DEF path, visited, node, r

\* The search keeps its promise at every depth.
LEMMA VisitsOk ==
    ASSUME NEW D, NEW T, NEW ds, IsConfig(D, T, ds)
    PROVE  VisitOk(ds, Len(ds), dfs_find_cycle(ds))
  <1> DEFINE n == Len(ds)
  <1>1. n \in Nat /\ DOMAIN ds = 1 .. n
    BY ConfigGraph
  <1>2. PICK f : Visits(f, ds)
    BY VisitsSteps
  <1>3. /\ f \in [0 .. n -> [Calls(ds) -> Results(ds)]]
        /\ \A k \in 1 .. n, call \in Calls(ds) : f[k][call] = LookAtAll(ds, f[k - 1], call)
        /\ dfs_find_cycle(ds) = f[n]
    BY <1>2 DEF Visits
  <1> DEFINE good == {k \in 0 .. n : VisitOk(ds, k, f[k])}
  <1>4. 0 \in good
    <2>1. ASSUME NEW call, CallOk(ds, 0, call) PROVE FALSE
      <3> DEFINE path == call.path
      <3>1. /\ path \in Seq(1 .. n) /\ IsInjective(path) /\ Len(path) + 0 = n /\ call.node \in 1 .. n
            /\ Range(path) \subseteq call.visited /\ call.node \notin call.visited
        BY <1>1, <2>1 DEF CallOk, Calls
      <3> HIDE DEF path, n
      <3>2. Len(path) = n
        BY <1>1, <3>1
      <3>3. Range(path) = 1 .. n
        BY <1>1, <3>1, <3>2, RangeCounted
      <3> QED
        BY <3>1, <3>3
    <2>2. 0 \in 0 .. n /\ f[0] \in [Calls(ds) -> Results(ds)]
      BY <1>1, <1>3
    <2> QED
      BY <2>1, <2>2 DEF VisitOk
  <1>5. ASSUME NEW k \in 1 .. n, k - 1 \in good PROVE k \in good
    <2>1. k \in 0 .. n /\ k - 1 \in Nat /\ k - 1 + 1 = k /\ f[k] \in [Calls(ds) -> Results(ds)]
      BY <1>1, <1>3
    <2> DEFINE visit == f[k - 1]
               d == k - 1
    <2>2. VisitOk(ds, d, visit)
      BY <1>5
    <2>3. \A call \in Calls(ds) : f[k][call] = LookAtAll(ds, visit, call)
      BY <1>3
    <2> HIDE DEF visit, d
    <2>4. ASSUME NEW call, CallOk(ds, k, call)
          PROVE  Searched(ds, call.path, call.visited \cup {call.node}, f[k][call])
      <3>1. CallOk(ds, d + 1, call) /\ d \in Nat /\ call \in Calls(ds)
        BY <2>1, <2>4 DEF d, CallOk
      <3>2. Searched(ds, call.path, call.visited \cup {call.node}, LookAtAll(ds, visit, call))
        BY <2>2, <3>1, LookAllOk
      <3> QED
        BY <2>3, <3>1, <3>2
    <2>5. VisitOk(ds, k, f[k])
      BY <2>1, <2>4 DEF VisitOk
    <2> QED
      BY <2>1, <2>5
  <1>6. n \in good
    <2>1. n \in 0 .. n
      BY <1>1
    <2> HIDE DEF good, n
    <2> QED
      BY <1>1, <1>4, <1>5, <2>1, UpToN
  <1> QED
    BY <1>3, <1>6

\* FindFrom returns a result.
LEMMA FindTyped ==
    ASSUME NEW D, NEW T, NEW ds, IsConfig(D, T, ds), NEW acc \in Results(ds), NEW k \in 1 .. Len(ds)
    PROVE  FindFrom(ds, acc, k) \in Results(ds)
  <1> DEFINE call == Call(k, acc.visited, <<>>)
             visit == dfs_find_cycle(ds)
  <1>1. call \in Calls(ds)
    BY ConfigGraph DEF Call, Calls, Results
  <1>2. visit \in [Calls(ds) -> Results(ds)]
    BY VisitsOk DEF VisitOk
  <1>3. FindFrom(ds, acc, k) = acc \/ FindFrom(ds, acc, k) = visit[call]
    BY DEF FindFrom
  <1> HIDE DEF call, visit
  <1> QED
    BY <1>1, <1>2, <1>3

\* What the search has after one more dataset.
LEMMA FindOk ==
    ASSUME NEW D, NEW T, NEW ds, IsConfig(D, T, ds), NEW acc \in Results(ds), NEW k \in 1 .. Len(ds),
           NEW seen, Searched(ds, <<>>, seen, acc)
    PROVE  Searched(ds, <<>>, seen \cup {i \in {k} : is_query(ds[i])}, FindFrom(ds, acc, k))
  <1> DEFINE more == seen \cup {i \in {k} : is_query(ds[i])}
             visit == dfs_find_cycle(ds)
             call == Call(k, acc.visited, <<>>)
  <1>1. Len(ds) \in Nat /\ DOMAIN ds = 1 .. Len(ds)
    BY ConfigGraph
  <1>2. VisitOk(ds, Len(ds), visit)
    BY VisitsOk
  <1>3. CASE acc.cycle # <<>> \/ k \in acc.visited \/ ~is_query(ds[k])
    <2>1. FindFrom(ds, acc, k) = acc
      BY <1>3 DEF FindFrom
    <2>2. Searched(ds, <<>>, more, acc)
      BY <1>3 DEF Searched
    <2> QED
      BY <2>1, <2>2
  <1>4. CASE acc.cycle = <<>> /\ k \notin acc.visited /\ is_query(ds[k])
    <2>1. FindFrom(ds, acc, k) = visit[call]
      BY <1>4 DEF FindFrom
    <2>2. /\ call.node = k /\ call.visited = acc.visited /\ call.path = <<>> /\ call \in Calls(ds)
      BY <1>1 DEF Call, Calls, Results
    <2>3. /\ IsInjective(<<>>) /\ Range(<<>>) = {} /\ Len(<<>>) = 0
          /\ Len(Append(<<>>, k)) = 1 /\ 0 + Len(ds) = Len(ds)
      BY <1>1 DEF IsInjective, Range
    <2>4. Follows(ds, Append(<<>>, k))
      BY <2>3 DEF Follows
    <2>5. seen \subseteq acc.visited /\ Finished(ds, acc.visited \ Range(<<>>))
      BY <1>4 DEF Searched
    <2> HIDE DEF call, visit
    <2>6. CallOk(ds, Len(ds), call)
      BY <1>4, <2>2, <2>3, <2>4, <2>5 DEF CallOk
    <2>7. Searched(ds, <<>>, acc.visited \cup {k}, visit[call])
      <3>1. Searched(ds, call.path, call.visited \cup {call.node}, visit[call])
        BY <1>2, <2>6 DEF VisitOk
      <3> QED
        BY <2>2, <3>1
    <2>8. Searched(ds, <<>>, more, visit[call])
      BY <2>5, <2>7 DEF Searched
    <2> QED
      BY <2>1, <2>8
  <1> QED
    BY <1>3, <1>4

\* Where there is a knot, find_cycle_path goes round a cycle.
LEMMA CycleFound ==
    ASSUME NEW D, NEW T, NEW ds, IsConfig(D, T, ds), NEW U, Knot(ds, U)
    PROVE  \E c : ClosesUp(ds, c) /\ find_cycle_path(ds) = Append(c, c[1])
  <1> DEFINE n == Len(ds)
             State == Results(ds)
             start == NotFound({})
             E(k, a) == FindFrom(ds, a, k)
             step == [x \in (1 .. n) \X State |-> E(x[1], x[2])]
             Def(h) == [k \in 0 .. n |-> IF k = 0 THEN NotFound({}) ELSE FindFrom(ds, h[k - 1], k)]
             F == CHOOSE h : h = Def(h)
             Seen(k) == {i \in 1 .. k : is_query(ds[i])}
  <1>1. n \in Nat /\ DOMAIN ds = 1 .. n
    BY ConfigGraph
  <1>2. start \in State
    BY DEF NotFound, Results
  <1>3. \A k \in 1 .. n, a \in State : E(k, a) \in State
    BY FindTyped
  <1>4. \A h : Def(h) = [k \in 0 .. n |-> IF k = 0 THEN start ELSE E(k, h[k - 1])]
    OBVIOUS
  <1>5. find_cycle_path(ds) = IF F[n].cycle = <<>> THEN <<>> ELSE Append(F[n].cycle, F[n].cycle[1])
    BY DEF find_cycle_path
  <1> HIDE DEF State, start, E, Def, n
  <1>6. step \in [(1 .. n) \X State -> State]
    BY <1>3
  <1>7. \A k \in 1 .. n, a \in State : step[<<k, a>>] = E(k, a)
    OBVIOUS
  <1> HIDE DEF step
  <1>8. PICK h : Unrolls(h, n, State, start, step)
    BY <1>1, <1>2, <1>6, RecursionExists
  <1>9. \A k \in 1 .. n : k - 1 \in 0 .. n /\ k \in 0 .. n
    BY <1>1
  <1>10. h = Def(h)
    <2>1. h = [k \in 0 .. n |-> h[k]] /\ h[0] = start
      BY <1>8 DEF Unrolls
    <2>2. \A k \in 1 .. n : h[k] = E(k, h[k - 1])
      BY <1>7, <1>8, <1>9 DEF Unrolls
    <2>3. \A k \in 0 .. n : k = 0 \/ k \in 1 .. n
      BY <1>1
    <2>4. \A k \in 0 .. n : h[k] = IF k = 0 THEN start ELSE E(k, h[k - 1])
      BY <2>1, <2>2, <2>3
    <2> QED
      BY <1>4, <2>1, <2>4
  <1>11. F = Def(F)
    BY <1>10
  <1> HIDE DEF F
  <1>12. F = [k \in 0 .. n |-> F[k]] /\ F[0] = start /\ \A k \in 1 .. n : F[k] = E(k, F[k - 1])
    <2> DEFINE g == [k \in 0 .. n |-> IF k = 0 THEN start ELSE E(k, F[k - 1])]
    <2>1. g = [k \in 0 .. n |-> g[k]]
      OBVIOUS
    <2>2. g[0] = start /\ \A k \in 1 .. n : g[k] = E(k, F[k - 1])
      BY <1>1
    <2>3. F = g
      BY <1>4, <1>11
    <2> HIDE DEF g
    <2> QED
      BY <2>1, <2>2, <2>3
  <1>13. F \in [0 .. n -> State]
    <2>1. \A k \in 1 .. n : F[k - 1] \in State => F[k] = step[<<k, F[k - 1]>>]
      BY <1>7, <1>12
    <2>2. Unrolls(F, n, State, start, step)
      BY <1>1, <1>2, <1>6, <1>12, <2>1, RecursionTyped
    <2> QED
      BY <2>2 DEF Unrolls
  <1> DEFINE good == {k \in 0 .. n : Searched(ds, <<>>, Seen(k), F[k])}
  <1>14. 0 \in good
    <2>1. F[0].cycle = <<>> /\ F[0].visited = {} /\ 0 \in 0 .. n
      BY <1>1, <1>12 DEF start, NotFound
    <2>2. Seen(0) = {}
      OBVIOUS
    <2>3. Finished(ds, {} \ Range(<<>>))
      BY DEF Finished, Knot
    <2> HIDE DEF Seen
    <2> QED
      BY <2>1, <2>2, <2>3 DEF Searched
  <1>15. ASSUME NEW k \in 1 .. n, k - 1 \in good PROVE k \in good
    <2> DEFINE acc == F[k - 1]
               old == Seen(k - 1)
    <2>1. acc \in Results(ds) /\ F[k] = FindFrom(ds, acc, k) /\ k \in 0 .. n /\ k \in 1 .. Len(ds)
      BY <1>9, <1>12, <1>13 DEF E, State, n
    <2>2. Seen(k) = old \cup {i \in {k} : is_query(ds[i])}
      <3>1. 1 .. k = (1 .. k - 1) \cup {k}
        BY <1>1
      <3> QED
        BY <3>1
    <2>3. Searched(ds, <<>>, old, acc)
      BY <1>15
    <2> HIDE DEF acc, old, Seen
    <2>4. Searched(ds, <<>>, old \cup {i \in {k} : is_query(ds[i])}, FindFrom(ds, acc, k))
      BY <2>1, <2>3, FindOk
    <2> QED
      BY <2>1, <2>2, <2>4
  <1>16. n \in good
    <2>1. n \in 0 .. n
      BY <1>1
    <2> HIDE DEF good
    <2> QED
      BY <1>1, <1>14, <1>15, <2>1, UpToN
  <1> DEFINE r == F[n]
  <1>17. Searched(ds, <<>>, Seen(n), r)
    BY <1>16
  <1>18. U \subseteq Seen(n)
    BY <1>1, KnotQueries
  <1>19. Range(<<>>) = {}
    BY DEF Range
  <1> HIDE DEF r, Seen
  <1>20. r.cycle # <<>>
    <2>1. SUFFICES ASSUME r.cycle = <<>> PROVE FALSE
      OBVIOUS
    <2>2. Seen(n) \subseteq r.visited /\ Finished(ds, r.visited \ Range(<<>>))
      BY <1>17, <2>1 DEF Searched
    <2> QED
      BY <1>18, <1>19, <2>2 DEF Finished
  <1>21. ClosesUp(ds, r.cycle)
    BY <1>17, <1>20 DEF Searched
  <1>22. find_cycle_path(ds) = Append(r.cycle, r.cycle[1])
    BY <1>5, <1>20 DEF r
  <1> QED
    BY <1>21, <1>22

\* The cycle, with its first dataset at the end too.
LEMMA CycleNamed ==
    ASSUME NEW ds, NEW c, ClosesUp(ds, c)
    PROVE  LET cycle == Append(c, c[1])
           IN /\ Len(cycle) >= 2 /\ cycle[1] = cycle[Len(cycle)]
              /\ \A p \in 1 .. Len(cycle) - 1 :
                   ds[cycle[p + 1]].name \in Range(ds[cycle[p]].depends_on)
  <1> DEFINE n == Len(c)
             first == c[1]
             d == Append(c, first)
  <1>1. c \in Seq(DOMAIN ds) /\ c # <<>> /\ Follows(ds, c) /\ first \in DependsOn(ds, c[n])
    BY DEF ClosesUp
  <1>2. n \in Nat /\ n >= 1 /\ first \in DOMAIN ds
    BY <1>1
  <1> HIDE DEF first
  <1>3. Len(d) = n + 1 /\ d[n + 1] = first /\ \A k \in 1 .. n : d[k] = c[k]
    BY <1>1, <1>2
  <1>4. Follows(ds, d)
    BY <1>1, <1>2, FollowsOn
  <1> HIDE DEF d, n
  <1>5. Len(d) >= 2 /\ d[1] = d[Len(d)]
    <2>1. 1 \in 1 .. n /\ n + 1 >= 2
      BY <1>2
    <2> QED
      BY <1>3, <2>1 DEF first
  <1>6. \A p \in 1 .. Len(d) - 1 : ds[d[p + 1]].name \in Range(ds[d[p]].depends_on)
    BY <1>4 DEF Follows, DependsOn
  <1> QED
    BY <1>5, <1>6 DEF d, first

\* A start does what it promises for every checked configuration, whatever
\* the sources do and in whatever order the builds of a level end.  A source
\* without rows fails in DataFusion (build_one_startup) and comes up in DuckDB
\* (register_dataset), where a file dataset that cannot be read ends the start.
THEOREM StartsAreRight ==
    ASSUME NEW D, NEW T, NEW ds, IsConfig(D, T, ds), NEW src, NEW early
    PROVE  StartsRight(ds, src, early)
  <1> DEFINE df == spawn_startup_builds(ds, src, early)
             duck == load_registry(ds, src)
             seen == SeenByDuck(ds, src)
             order == topological_dataset_order(ds)
             cycle == find_cycle_path(ds)
  <1>1. ASSUME order # <<>>, Plain(ds)
        PROVE  /\ \A i \in DOMAIN ds : df[i] = IF ComesUp(ds, src, i) THEN "Published" ELSE "Failed"
               /\ duck.aborted <=> \E i \in DOMAIN ds : Ends(ds, src, i)
               /\ ~ duck.aborted => \A i \in DOMAIN ds :
                    duck.status[i] = IF ComesUp(ds, seen, i) THEN "Published" ELSE "Failed"
    <2>1. OrderOf(ds, order)
      BY <1>1, OrderedOrKnot
    <2>2. df = BuiltUp(ds, src, DOMAIN ds)
      <3> HIDE DEF order
      <3> QED
        BY <1>1, <2>1, SpawnBuilds
    <2>3. /\ duck.aborted <=> \E i \in DOMAIN ds : Ends(ds, src, i)
          /\ duck.aborted \/ duck.status = BuiltUp(ds, seen, DOMAIN ds)
      BY <1>1, <2>1, RegistryLoads
    <2> HIDE DEF df, duck, seen
    <2> QED
      BY <2>2, <2>3 DEF BuiltUp
  <1>2. ASSUME order = <<>>
        PROVE  /\ Len(cycle) >= 2 /\ cycle[1] = cycle[Len(cycle)]
               /\ \A p \in 1 .. Len(cycle) - 1 :
                    ds[cycle[p + 1]].name \in Range(ds[cycle[p]].depends_on)
    <2>1. PICK U : Knot(ds, U)
      BY <1>2, OrderedOrKnot
    <2>2. PICK c : ClosesUp(ds, c) /\ cycle = Append(c, c[1])
      BY <2>1, CycleFound
    <2> HIDE DEF cycle
    <2> QED
      BY <2>2, CycleNamed
  <1>3. \A i \in DOMAIN ds :
          /\ ComesUp(ds, src, i) <=> \A j \in Needs(ds, i) : src[j] \in {"ok"}
          /\ ComesUp(ds, seen, i) <=> \A j \in Needs(ds, i) : src[j] \in {"ok", "norows"}
    <2>1. \A i : Needs(ds, i) \subseteq DOMAIN ds
      BY DEF Needs
    <2>2. \A j \in DOMAIN ds : seen[j] = "ok" <=> src[j] \in {"ok", "norows"}
      BY DEF SeenByDuck
    <2> HIDE DEF seen
    <2> QED
      BY <2>1, <2>2 DEF ComesUp
  <1> HIDE DEF df, duck, seen, order, cycle
  <1> QED
    BY <1>1, <1>2, <1>3 DEF StartsRight, Ends, df, duck, order, cycle
=============================================================================
