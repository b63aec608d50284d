----------------------------- MODULE ReportProofs -----------------------------
(***************************************************************************)
(* Theorems about what the statistics, the CSV loggers and the updates of  *)
(* TOML files keep, for every value of their constants: their inductive    *)
(* invariants, which StorageProofs puts together.  Recursive functions are *)
(* reasoned about by induction over a set of numbers (EveryNat).           *)
(***************************************************************************)
EXTENDS Statistics, CsvLoggers, TomlUpdate, SequenceTheorems, FiniteSetTheorems,
        WellFoundedInduction, TLAPS

(* A sequence's length, places and elements. *)
LEMMA SeqElements ==
    ASSUME NEW S, NEW s \in Seq(S)
    PROVE  Len(s) \in Nat /\ DOMAIN s = 1 .. Len(s) /\ \A i \in DOMAIN s : s[i] \in S
<1>1. Len(s) \in Nat /\ DOMAIN s = 1 .. Len(s)
  BY LenProperties
<1> QED
  BY <1>1, ElementOfSeq
-----------------------------------------------------------------------------
(* Induction over the natural numbers, for sets: from the well-founded     *)
(* order of the finite sets. *)
LEMMA LeastNat ==
    ASSUME NEW T \in SUBSET Nat, T # {}
    PROVE  \E x \in T : \A y \in T : x <= y
<1> DEFINE C == {1 .. n : n \in T}
<1>1. IsWellFoundedOn(StrictSubsetOrdering(Nat), FiniteSubsetsOf(Nat))
  BY FS_StrictSubsetOrderingWellFounded
<1>2. C \subseteq FiniteSubsetsOf(Nat)
  <2> SUFFICES ASSUME NEW n \in T PROVE 1 .. n \in SUBSET Nat /\ IsFiniteSet(1 .. n)
    BY DEF FiniteSubsetsOf
  <2> QED
    BY FS_Interval
<1>3. C # {}
  OBVIOUS
<1>4. \E c \in C : \A d \in C : ~(<<d, c>> \in StrictSubsetOrdering(Nat))
  <2> HIDE DEF C
  <2> QED
    BY <1>1, <1>2, <1>3, WFMin
<1>5. PICK x \in T : \A y \in T : ~(<<1 .. y, 1 .. x>> \in StrictSubsetOrdering(Nat))
  BY <1>4
<1>6. ASSUME NEW y \in T, y < x PROVE FALSE
  <2>1. x \in Nat /\ y \in Nat
    OBVIOUS
  <2>2. x \in 1 .. x /\ x \notin 1 .. y /\ \A i \in 1 .. y : i \in 1 .. x
    BY <1>6, <2>1
  <2>3. 1 .. y \subseteq 1 .. x /\ 1 .. y # 1 .. x /\ 1 .. y \subseteq Nat /\ 1 .. x \subseteq Nat
    BY <2>1, <2>2
  <2>4. <<1 .. y, 1 .. x>> \in StrictSubsetOrdering(Nat)
    BY <2>3 DEF StrictSubsetOrdering
  <2> QED
    BY <1>5, <2>4
<1> QED
  BY <1>6

LEMMA EveryNat ==
    ASSUME NEW T \in SUBSET Nat, 0 \in T, \A n \in T : n + 1 \in T
    PROVE  T = Nat
<1> SUFFICES ASSUME NEW z \in Nat, z \notin T PROVE FALSE
  OBVIOUS
<1> DEFINE U == {y \in Nat : y \notin T}
<1>1. U \in SUBSET Nat /\ U # {}
  OBVIOUS
<1>2. PICK x \in U : \A y \in U : x <= y
  <2> HIDE DEF U
  <2> QED
    BY <1>1, LeastNat
<1>3. x \in Nat /\ x # 0
  OBVIOUS
<1>4. x - 1 \in Nat /\ x - 1 < x /\ (x - 1) + 1 = x
  BY <1>3
<1>5. x - 1 \in T
  BY <1>2, <1>4
<1>6. (x - 1) + 1 \in T
  BY <1>5
<1>7. x \notin T
  OBVIOUS
<1> HIDE DEF U
<1> QED
  BY <1>4, <1>6, <1>7
-----------------------------------------------------------------------------
(* Recursion over numbers, by a function from steps and values to values. *)
Recurs(g, n, S, first, step) ==
    /\ g \in [0 .. n -> S] /\ g[0] = first
    /\ \A i \in 1 .. n : g[i] = step[<<i, g[i - 1]>>]

LEMMA RecursionIs ==
    ASSUME NEW S, NEW first \in S, NEW n \in Nat, NEW step \in [(1 .. n) \X S -> S]
    PROVE  \E g : Recurs(g, n, S, first, step)
<1> DEFINE T == {m \in Nat : m <= n => \E g : Recurs(g, m, S, first, step)}
<1>1. 0 \in T
  <2> DEFINE g == [i \in 0 .. 0 |-> first]
  <2>1. Recurs(g, 0, S, first, step)
    BY DEF Recurs
  <2> HIDE DEF g
  <2> QED
    BY <2>1
<1>2. ASSUME NEW m \in T PROVE m + 1 \in T
  <2>1. m \in Nat /\ m + 1 \in Nat /\ m + 1 # 0 /\ (m + 1 <= n => m <= n /\ m + 1 \in 1 .. n)
    OBVIOUS
  <2> SUFFICES ASSUME m + 1 <= n PROVE \E g : Recurs(g, m + 1, S, first, step)
    BY <2>1
  <2>2. PICK g : Recurs(g, m, S, first, step)
    BY <2>1
  <2> DEFINE h == [i \in 0 .. m + 1 |-> IF i = m + 1 THEN step[<<m + 1, g[m]>>] ELSE g[i]]
  <2>3. g[m] \in S /\ step[<<m + 1, g[m]>>] \in S
    <3>1. m \in 0 .. m
      BY <2>1
    <3> QED
      BY <2>1, <2>2, <3>1 DEF Recurs
  <2>4. \A i \in 0 .. m + 1 : i # m + 1 => i \in 0 .. m
    BY <2>1
  <2>5. h \in [0 .. m + 1 -> S]
    BY <2>2, <2>3, <2>4 DEF Recurs
  <2>6. 0 \in 0 .. m + 1 /\ 0 # m + 1 /\ h[0] = first
    BY <2>1, <2>2 DEF Recurs
  <2>7. ASSUME NEW i \in 1 .. m + 1 PROVE h[i] = step[<<i, h[i - 1]>>]
    <3>1. /\ i \in 0 .. m + 1 /\ i - 1 \in 0 .. m + 1 /\ i - 1 # m + 1
          /\ (i = m + 1 => i - 1 = m) /\ (i # m + 1 => i \in 1 .. m)
      BY <2>1
    <3>2. h[i - 1] = g[i - 1]
      BY <3>1
    <3> QED
      BY <2>2, <3>1, <3>2 DEF Recurs
  <2> HIDE DEF h
  <2>8. Recurs(h, m + 1, S, first, step)
    BY <2>5, <2>6, <2>7 DEF Recurs
  <2> QED
    BY <2>8
<1>3. T \in SUBSET Nat
  OBVIOUS
<1> HIDE DEF T
<1>4. T = Nat
  BY <1>1, <1>2, <1>3, EveryNat
<1> QED
  BY <1>4 DEF T

(* Days of moments. *)
LEMMA DivisionIs ==
    ASSUME NEW d \in Nat \ {0}, NEW a \in Int
    PROVE  /\ a \div d \in Int /\ d * (a \div d) <= a /\ a < d * (a \div d) + d
  OBVIOUS

LEMMA DivisionKeepsOrder ==
    ASSUME NEW d \in Nat \ {0}, NEW a \in Int, NEW b \in Int, a <= b
    PROVE  a \div d <= b \div d
<1>1. PICK x \in Int : x = a \div d
  BY DivisionIs
<1>2. PICK y \in Int : y = b \div d
  BY DivisionIs
<1>3. d * x <= a /\ b < d * y + d
  BY <1>1, <1>2, DivisionIs
<1>4. x < y + 1
  <2> SUFFICES ASSUME y + 1 <= x PROVE FALSE
    BY <1>1, <1>2
  <2>1. d * (y + 1) <= d * x
    OBVIOUS
  <2>2. d * (y + 1) = d * y + d
    OBVIOUS
  <2>3. d * x \in Int /\ d * y \in Int
    OBVIOUS
  <2> QED
    BY <1>3, <2>1, <2>2, <2>3
<1> QED
  BY <1>1, <1>2, <1>4

(* What is flattened. *)
LEMMA FlattenIs ==
    ASSUME NEW R, NEW seqs \in Seq(Seq(R))
    PROVE  FlattenSeq(seqs) \in Seq(R)
<1> DEFINE n == Len(seqs)
           Is(f) == f = [i \in 1 .. n |-> IF i = 1 THEN seqs[i] ELSE f[i - 1] \o seqs[i]]
<1>1. n \in Nat /\ \A i \in 1 .. n : seqs[i] \in Seq(R)
  BY LenProperties, ElementOfSeq
<1>2. CASE n = 0
  <2>1. seqs = <<>>
    BY <1>2, EmptySeq
  <2> QED
    BY <1>2, <2>1, EmptySeq DEF FlattenSeq
<1>3. CASE n # 0
  <2> DEFINE S == Seq(R)
             step == [v \in (1 .. n) \X S |-> IF v[1] = 1 THEN seqs[1] ELSE v[2] \o seqs[v[1]]]
  <2>1. step \in [(1 .. n) \X S -> S]
    <3> SUFFICES ASSUME NEW i \in 1 .. n, NEW x \in S
                 PROVE  (IF i = 1 THEN seqs[1] ELSE x \o seqs[i]) \in S
      OBVIOUS
    <3> QED
      BY <1>1, <1>3, ConcatProperties
  <2>2. \A i \in 1 .. n, x \in S : step[<<i, x>>] = IF i = 1 THEN seqs[i] ELSE x \o seqs[i]
    OBVIOUS
  <2>3. <<>> \in S
    BY EmptySeq
  <2> HIDE DEF step, S, n
  <2>4. PICK g : Recurs(g, n, S, <<>>, step)
    BY <1>1, <2>1, <2>3, RecursionIs
  <2> DEFINE f == [i \in 1 .. n |-> g[i]]
  <2>5. ASSUME NEW i \in 1 .. n
        PROVE  f[i] = IF i = 1 THEN seqs[i] ELSE f[i - 1] \o seqs[i]
    <3>1. i - 1 \in 0 .. n /\ (i # 1 => i - 1 \in 1 .. n)
      BY <1>1
    <3> QED
      BY <2>2, <2>4, <3>1 DEF Recurs
  <2>6. Is(f)
    BY <2>5
  <2>7. PICK k : k = CHOOSE h : Is(h)
    OBVIOUS
  <2>8. Is(k)
    <3> HIDE DEF f, Is
    <3> QED
      BY <2>6, <2>7
  <2>9. FlattenSeq(seqs) = k[n]
    BY <1>3, <2>7 DEF FlattenSeq, n
  <2> DEFINE T == {m \in Nat : m + 1 <= n => k[m + 1] \in S}
  <2>10. \A i \in 1 .. n : k[i] = IF i = 1 THEN seqs[i] ELSE k[i - 1] \o seqs[i]
    BY <2>8
  <2>11. 0 \in T
    BY <1>1, <2>10 DEF S
  <2>12. ASSUME NEW m \in T PROVE m + 1 \in T
    <3> SUFFICES ASSUME m + 1 + 1 <= n PROVE k[m + 1 + 1] \in S
      OBVIOUS
    <3>1. /\ m + 1 + 1 \in 1 .. n /\ m + 1 <= n /\ m + 1 + 1 # 1 /\ m + 1 + 1 - 1 = m + 1
      BY <1>1
    <3>2. k[m + 1] \in Seq(R) /\ seqs[m + 1 + 1] \in Seq(R)
      BY <1>1, <3>1 DEF S
    <3>3. k[m + 1 + 1] = k[m + 1] \o seqs[m + 1 + 1]
      <4>1. PICK j \in 1 .. n : j = m + 1 + 1 /\ j # 1 /\ j - 1 = m + 1
        BY <3>1
      <4>2. k[j] = k[j - 1] \o seqs[j]
        BY <2>10, <4>1
      <4> QED
        BY <4>1, <4>2
    <3> QED
      BY <3>2, <3>3, ConcatProperties DEF S
  <2>13. T \in SUBSET Nat
    OBVIOUS
  <2> HIDE DEF T
  <2>14. T = Nat
    BY <2>11, <2>12, <2>13, EveryNat
  <2>15. n - 1 \in T /\ n - 1 + 1 = n /\ n - 1 + 1 <= n
    BY <1>1, <1>3, <2>14
  <2> QED
    BY <2>9, <2>15 DEF T, S
<1> QED
  BY <1>2, <1>3
-----------------------------------------------------------------------------
(* The files of the days. *)
Rows == [url : Urls, request : Int, response : Int, error : BOOLEAN, time : Int]
DayFiles == [date : Nat, rows : Seq(Rows)]

StatIInv ==
    /\ statNow \in 0 .. MaxMoments /\ statFiles \in Seq(DayFiles)
    /\ \A i \in 1 .. Len(statFiles) : statFiles[i].date <= Today /\ statFiles[i].rows # <<>>
    /\ \A i, j \in 1 .. Len(statFiles) : i < j => statFiles[i].date < statFiles[j].date

LEMMA StatBounds ==
    /\ DayLength \in Nat \ {0} /\ MaxMoments \in Nat
    /\ Windows \subseteq Nat \ {0} /\ RowSizes \subseteq Int \X Int
  BY StatAssumption

LEMMA ZeroDays == 0 \div DayLength = 0
<1>1. PICK d \in Nat \ {0} : d = DayLength
  BY StatBounds
<1>2. PICK x \in Int : x = 0 \div d
  BY DivisionIs
<1>3. d * x <= 0 /\ 0 < d * x + d
  BY <1>2, DivisionIs
<1>4. ~(x >= 1)
  <2> SUFFICES ASSUME x >= 1 PROVE FALSE
    OBVIOUS
  <2>1. d * x >= d * 1
    OBVIOUS
  <2> QED
    BY <1>3, <2>1
<1>5. ~(x <= -1)
  <2> SUFFICES ASSUME x <= -1 PROVE FALSE
    OBVIOUS
  <2>1. d * x <= d * (-1)
    OBVIOUS
  <2> QED
    BY <1>3, <2>1
<1>6. x = 0
  BY <1>4, <1>5
<1> QED
  BY <1>1, <1>2, <1>6

LEMMA TodayIs ==
    ASSUME StatIInv
    PROVE  statNow \in Nat /\ Today \in Nat
<1>1. statNow \in Int /\ 0 <= statNow /\ DayLength \in Nat \ {0}
  BY StatBounds DEF StatIInv
<1>2. 0 \div DayLength = 0
  BY ZeroDays
<1>3. statNow \div DayLength \in Int /\ 0 \div DayLength <= statNow \div DayLength
  BY <1>1, DivisionIs, DivisionKeepsOrder
<1> QED
  BY <1>1, <1>2, <1>3 DEF Today

LEMMA LoggedKeeps ==
    ASSUME StatIInv, NEW row \in Rows, Logged(row)
    PROVE  StatIInv'
<1> DEFINE n == Len(statFiles)
           t == Today
<1>1. /\ statNow' = statNow /\ Today' = t /\ t \in Nat /\ n \in Nat
      /\ statFiles \in Seq(DayFiles)
      /\ \A i \in 1 .. n : /\ statFiles[i] \in DayFiles
                           /\ statFiles[i].date <= t /\ statFiles[i].rows # <<>>
      /\ \A i, j \in 1 .. n : i < j => statFiles[i].date < statFiles[j].date
  BY TodayIs, LenProperties, ElementOfSeq DEF StatIInv, Logged, Today
<1> HIDE DEF t
<1>2. CASE statFiles # <<>> /\ Last(statFiles).date = t
  <2>1. n \in 1 .. n
    BY <1>1, <1>2, EmptySeq
  <2>2. PICK new : new = [statFiles[n] EXCEPT !.rows = Append(statFiles[n].rows, row)]
    OBVIOUS
  <2>3. statFiles[n].rows \in Seq(Rows) /\ statFiles[n].date \in Nat
    BY <1>1, <2>1 DEF DayFiles
  <2>4. new \in DayFiles /\ new.rows # <<>> /\ new.date = statFiles[n].date
    <3>1. /\ Append(statFiles[n].rows, row) \in Seq(Rows)
          /\ Append(statFiles[n].rows, row) # <<>>
      <4>1. /\ Append(statFiles[n].rows, row) \in Seq(Rows)
            /\ Len(Append(statFiles[n].rows, row)) = Len(statFiles[n].rows) + 1
        BY <2>3, AppendProperties
      <4>2. Len(statFiles[n].rows) \in Nat
        BY <2>3, LenProperties
      <4> QED
        BY <4>1, <4>2, EmptySeq
    <3> QED
      BY <1>1, <2>1, <2>2, <3>1 DEF DayFiles
  <2>5. statFiles' = [statFiles EXCEPT ![n] = new]
    <3>1. statFiles' = [statFiles EXCEPT ![n].rows = Append(@, row)]
      BY <1>2 DEF Logged, t
    <3> QED
      BY <2>2, <3>1
  <2>6. /\ statFiles' \in Seq(DayFiles) /\ Len(statFiles') = n
        /\ \A i \in 1 .. n : statFiles'[i] = IF i = n THEN new ELSE statFiles[i]
    <3>1. DOMAIN statFiles = 1 .. n
      BY <1>1, LenProperties
    <3> QED
      BY <1>1, <2>1, <2>4, <2>5, <3>1, ExceptSeq
  <2>7. \A i \in 1 .. n : /\ statFiles'[i].date = statFiles[i].date
                          /\ statFiles'[i].rows # <<>>
    BY <1>1, <2>4, <2>6
  <2> QED
    BY <1>1, <2>6, <2>7 DEF StatIInv
<1>3. CASE ~(statFiles # <<>> /\ Last(statFiles).date = t)
  <2>1. PICK new : new = [date |-> t, rows |-> <<row>>]
    OBVIOUS
  <2>2. new \in DayFiles /\ new.rows # <<>> /\ new.date = t
    BY <1>1, <2>1, EmptySeq DEF DayFiles
  <2>3. statFiles' = Append(statFiles, new)
    BY <1>3, <2>1 DEF Logged, t
  <2>4. /\ statFiles' \in Seq(DayFiles) /\ Len(statFiles') = n + 1
        /\ \A i \in 1 .. n : statFiles'[i] = statFiles[i]
        /\ statFiles'[n + 1] = new
    BY <1>1, <2>2, <2>3, AppendProperties
  <2>5. \A i \in 1 .. n : statFiles[i].date < t
    <3> SUFFICES ASSUME NEW i \in 1 .. n PROVE statFiles[i].date < t
      OBVIOUS
    <3>1. n \in 1 .. n /\ statFiles # <<>>
      BY <1>1, EmptySeq
    <3>2. Last(statFiles) = statFiles[n]
      BY DEF Last
    <3>3. statFiles[n].date # t
      BY <1>3, <3>1, <3>2
    <3>4. statFiles[n].date \in Nat /\ statFiles[i].date \in Nat
      BY <1>1, <3>1 DEF DayFiles
    <3>5. i = n \/ i < n
      BY <1>1
    <3>6. statFiles[i].date <= statFiles[n].date /\ statFiles[n].date <= t
      BY <1>1, <3>1, <3>4, <3>5
    <3> QED
      BY <1>1, <3>3, <3>4, <3>6
  <2>6. \A i \in 1 .. n + 1 : i \in 1 .. n \/ i = n + 1
    BY <1>1
  <2>7. \A i \in 1 .. n + 1 : statFiles'[i].date <= t /\ statFiles'[i].rows # <<>>
    BY <1>1, <2>2, <2>4, <2>6
  <2>8. ASSUME NEW i \in 1 .. n + 1, NEW j \in 1 .. n + 1, i < j
        PROVE  statFiles'[i].date < statFiles'[j].date
    <3>1. i \in 1 .. n
      BY <1>1, <2>8
    <3> QED
      BY <1>1, <2>2, <2>4, <2>5, <2>6, <2>8, <3>1
  <2> QED
    BY <1>1, <2>4, <2>7, <2>8 DEF StatIInv
<1> QED
  BY <1>2, <1>3

LEMMA StatInitially == StatInit => StatIInv
<1> SUFFICES ASSUME StatInit PROVE StatIInv
  OBVIOUS
<1>1. statFiles \in Seq(DayFiles) /\ Len(statFiles) = 0 /\ statNow = 0
  BY EmptySeq DEF StatInit
<1>2. 1 .. Len(statFiles) = {}
  BY <1>1
<1> QED
  BY <1>1, <1>2, StatBounds DEF StatIInv

LEMMA StatInductive == StatIInv /\ [StatNext]_stat_vars => StatIInv'
<1> SUFFICES ASSUME StatIInv, [StatNext]_stat_vars PROVE StatIInv'
  OBVIOUS
<1>1. statNow \in Nat /\ Today \in Nat
  BY TodayIs
<1>2. CASE UNCHANGED stat_vars
  BY <1>2 DEF stat_vars, StatIInv, Today
<1>3. ASSUME NEW url \in Urls, NEW sizes \in RowSizes, NEW delay \in {0, 1},
             write_row(url, sizes, delay)
      PROVE  StatIInv'
  <2>1. PICK row : row = [url |-> url, request |-> sizes[1], response |-> sizes[2],
                          error |-> FALSE, time |-> statNow - delay]
    OBVIOUS
  <2>2. sizes[1] \in Int /\ sizes[2] \in Int
    BY StatBounds
  <2>3. row \in Rows /\ Logged(row)
    BY <1>1, <1>3, <2>1, <2>2 DEF write_row, Rows
  <2> QED
    BY <2>3, LoggedKeeps
<1>4. ASSUME NEW url \in Urls, write_accept_error(url) PROVE StatIInv'
  <2>1. PICK row : row = [url |-> url, request |-> NoSize, response |-> NoSize, error |-> TRUE,
                          time |-> statNow]
    OBVIOUS
  <2>2. row \in Rows /\ Logged(row)
    BY <1>1, <1>4, <2>1 DEF write_accept_error, Rows, NoSize
  <2> QED
    BY <2>2, LoggedKeeps
<1>5. CASE moment_passes
  <2>1. statNow' = statNow + 1 /\ statFiles' = statFiles /\ statNow < MaxMoments
    BY <1>5 DEF moment_passes
  <2>2. statNow' \in 0 .. MaxMoments
    BY <1>1, <2>1, StatBounds
  <2>3. Today <= Today' /\ Today' \in Int
    BY <1>1, <2>1, StatBounds, DivisionIs, DivisionKeepsOrder DEF Today
  <2>4. \A i \in 1 .. Len(statFiles) : statFiles[i].date \in Nat
    <3>1. statFiles \in Seq(DayFiles)
      BY DEF StatIInv
    <3>2. \A i \in 1 .. Len(statFiles) : statFiles[i] \in DayFiles
      BY <3>1, ElementOfSeq
    <3> QED
      BY <3>2 DEF DayFiles
  <2>5. \A i \in 1 .. Len(statFiles) : statFiles[i].date <= Today'
    BY <1>1, <2>3, <2>4 DEF StatIInv
  <2> QED
    BY <2>1, <2>2, <2>5 DEF StatIInv
<1> QED
  BY <1>2, <1>3, <1>4, <1>5 DEF StatNext
-----------------------------------------------------------------------------
(* The report. *)

(* A number of rows is that of two parts of them. *)
LEMMA PartsAddUp ==
    ASSUME NEW S, IsFiniteSet(S), NEW A, NEW B, S = A \cup B, A \cap B = {}
    PROVE  /\ Cardinality(S) \in Nat /\ Cardinality(A) \in Nat /\ Cardinality(B) \in Nat
           /\ Cardinality(S) = Cardinality(A) + Cardinality(B)
<1>1. IsFiniteSet(A) /\ IsFiniteSet(B)
  BY FS_Subset
<1>2. Cardinality(A \cup B) = Cardinality(A) + Cardinality(B) - Cardinality(A \cap B)
  BY <1>1, FS_Union
<1>3. Cardinality({}) = 0
  BY FS_EmptySet
<1>4. Cardinality(S) \in Nat
  BY FS_CardinalityType
<1>5. Cardinality(A) \in Nat
  BY <1>1, FS_CardinalityType
<1>6. Cardinality(B) \in Nat
  BY <1>1, FS_CardinalityType
<1>7. Cardinality(S) = Cardinality(A) + Cardinality(B) - 0
  BY <1>2, <1>3
<1>8. Cardinality(A) + Cardinality(B) - 0 = Cardinality(A) + Cardinality(B)
  BY <1>5, <1>6
<1> QED
  BY <1>4, <1>5, <1>6, <1>7, <1>8

LEMMA RowsAre ==
    ASSUME NEW rows \in Seq(Rows), NEW type, NEW name
    PROVE  /\ Len(rows) \in Nat /\ RowsOf(rows, type, name) \subseteq Analyzed(rows)
           /\ Analyzed(rows) \subseteq 1 .. Len(rows)
           /\ IsFiniteSet(RowsOf(rows, type, name))
           /\ \A i \in 1 .. Len(rows) : rows[i] \in Rows
<1>1. Len(rows) \in Nat /\ \A i \in 1 .. Len(rows) : rows[i] \in Rows
  BY LenProperties, ElementOfSeq
<1>2. /\ RowsOf(rows, type, name) \subseteq Analyzed(rows)
      /\ Analyzed(rows) \subseteq 1 .. Len(rows)
  BY DEF RowsOf, Analyzed
<1>3. IsFiniteSet(1 .. Len(rows))
  BY <1>1, FS_Interval
<1> QED
  BY <1>1, <1>2, <1>3, FS_Subset

LEMMA NormalOrError ==
    ASSUME NEW rows \in Seq(Rows), NEW type, NEW name
    PROVE  Counted(rows, type, "total_count", name) =
              Counted(rows, type, "normal_count", name) + Counted(rows, type, "error_count", name)
<1> DEFINE S == {i \in RowsOf(rows, type, name) : "total_count" \in Features(rows[i])}
           A == {i \in RowsOf(rows, type, name) : "normal_count" \in Features(rows[i])}
           B == {i \in RowsOf(rows, type, name) : "error_count" \in Features(rows[i])}
<1>1. \A r \in Rows : /\ "total_count" \in Features(r)
                      /\ "normal_count" \in Features(r) <=> ~r.error
                      /\ "error_count" \in Features(r) <=> r.error
  BY DEF Features, Rows
<1>2. \A i \in RowsOf(rows, type, name) : rows[i] \in Rows
  BY RowsAre
<1>3. IsFiniteSet(S)
  <2>1. S \subseteq RowsOf(rows, type, name)
    OBVIOUS
  <2> QED
    BY <2>1, RowsAre, FS_Subset
<1>4. S = A \cup B /\ A \cap B = {}
  BY <1>1, <1>2
<1> HIDE DEF S, A, B
<1>5. Cardinality(S) = Cardinality(A) + Cardinality(B)
  BY <1>3, <1>4, PartsAddUp
<1> QED
  BY <1>5 DEF Counted, S, A, B

(* The counts of the days up to one are of the rows of these days. *)
LEMMA DaysAddUp ==
    ASSUME NEW rows \in Seq(Rows), NEW type, NEW name, NEW last \in Nat,
           \A i \in Analyzed(rows) : DayNumber(rows, rows[i]) \in 0 .. last
    PROVE  Counted(rows, type, "total_count", name) =
              CountedUpToDay(rows, type, "total_count", name, last)
<1> DEFINE R == RowsOf(rows, type, name)
           Day(i) == DayNumber(rows, rows[i])
           InDay(d) == CountedInDay(rows, type, "total_count", name, d)
           RowsTo(d) == {i \in R : Day(i) <= d}
           Is(f) == f = [d \in 0 .. last |-> InDay(d) + (IF d = 0 THEN 0 ELSE f[d - 1])]
<1>1. IsFiniteSet(R) /\ \A i \in R : Day(i) \in 0 .. last
  BY RowsAre
<1>2. \A d : InDay(d) = Cardinality({i \in R : Day(i) = d})
  <2>1. \A i \in R : "total_count" \in Features(rows[i])
    BY DEF Features
  <2>2. ASSUME NEW d
        PROVE  {i \in R : Day(i) = d /\ "total_count" \in Features(rows[i]) \cup SizeFeatures(rows[i])}
                  = {i \in R : Day(i) = d}
    BY <2>1
  <2> QED
    BY <2>2 DEF CountedInDay
<1> HIDE DEF InDay, Day, R
<1>3. \A d : IsFiniteSet({i \in R : Day(i) = d}) /\ IsFiniteSet(RowsTo(d))
  <2>1. \A d : {i \in R : Day(i) = d} \subseteq R /\ RowsTo(d) \subseteq R
    OBVIOUS
  <2> QED
    BY <1>1, <2>1, FS_Subset
<1>4. \A d : InDay(d) \in Nat
  BY <1>2, <1>3, FS_CardinalityType
<1>5. PICK k : k = CHOOSE f : Is(f)
  OBVIOUS
<1>6. CountedUpToDay(rows, type, "total_count", name, last) = k[last]
  BY <1>5 DEF CountedUpToDay, InDay
<1>7. Is(k)
  <2> DEFINE step == [v \in (1 .. last) \X Nat |-> InDay(v[1]) + v[2]]
  <2>1. step \in [(1 .. last) \X Nat -> Nat]
    <3>1. \A v \in (1 .. last) \X Nat : InDay(v[1]) \in Nat /\ v[2] \in Nat
      BY <1>4
    <3>2. \A v \in (1 .. last) \X Nat : InDay(v[1]) + v[2] \in Nat
      BY <3>1
    <3> QED
      BY <3>2
  <2>2. \A d \in 1 .. last, x \in Nat : step[<<d, x>>] = InDay(d) + x
    OBVIOUS
  <2> HIDE DEF step
  <2>3. InDay(0) \in Nat
    BY <1>4
  <2>4. PICK g : Recurs(g, last, Nat, InDay(0), step)
    BY <2>1, <2>3, RecursionIs
  <2>5. ASSUME NEW d \in 0 .. last
        PROVE  g[d] = InDay(d) + (IF d = 0 THEN 0 ELSE g[d - 1])
    <3>1. CASE d = 0
      BY <2>3, <2>4, <3>1 DEF Recurs
    <3>2. CASE d # 0
      <4>1. d \in 1 .. last /\ d - 1 \in 0 .. last
        BY <3>2
      <4>2. g[d] = step[<<d, g[d - 1]>>] /\ g[d - 1] \in Nat
        BY <2>4, <4>1 DEF Recurs
      <4> QED
        BY <2>2, <3>2, <4>1, <4>2
    <3> QED
      BY <3>1, <3>2
  <2>6. Is(g)
    BY <2>4, <2>5 DEF Recurs
  <2> HIDE DEF Is
  <2> QED
    BY <1>5, <2>6
<1>8. \A d \in 0 .. last : k[d] = InDay(d) + (IF d = 0 THEN 0 ELSE k[d - 1])
  BY <1>7
<1> DEFINE T == {d \in Nat : d <= last => k[d] = Cardinality(RowsTo(d))}
<1>9. 0 \in T
  <2>1. RowsTo(0) = {i \in R : Day(i) = 0}
    BY <1>1
  <2>2. k[0] = InDay(0) + 0 /\ InDay(0) \in Nat
    BY <1>4, <1>8
  <2> QED
    BY <1>2, <2>1, <2>2
<1>10. ASSUME NEW d \in T PROVE d + 1 \in T
  <2> SUFFICES ASSUME d + 1 <= last PROVE k[d + 1] = Cardinality(RowsTo(d + 1))
    OBVIOUS
  <2>1. PICK e \in 0 .. last : e = d + 1 /\ e # 0 /\ e - 1 = d /\ d <= last /\ d \in Nat
    OBVIOUS
  <2>2. k[e] = InDay(e) + k[d]
    BY <1>8, <2>1
  <2>3. k[d] = Cardinality(RowsTo(d))
    BY <2>1
  <2>4. RowsTo(e) = RowsTo(d) \cup {i \in R : Day(i) = e} /\ RowsTo(d) \cap {i \in R : Day(i) = e} = {}
    BY <1>1, <2>1
  <2> HIDE DEF RowsTo
  <2>5. /\ Cardinality(RowsTo(e)) = Cardinality(RowsTo(d)) + Cardinality({i \in R : Day(i) = e})
        /\ Cardinality(RowsTo(d)) \in Nat
    BY <1>3, <2>4, PartsAddUp
  <2>6. InDay(e) = Cardinality({i \in R : Day(i) = e}) /\ InDay(e) \in Nat
    BY <1>2, <1>4
  <2>7. k[e] = Cardinality(RowsTo(e))
    BY <2>2, <2>3, <2>5, <2>6
  <2> QED
    BY <2>1, <2>7
<1>11. T \in SUBSET Nat
  OBVIOUS
<1> HIDE DEF T
<1>12. T = Nat
  BY <1>9, <1>10, <1>11, EveryNat
<1>13. k[last] = Cardinality(RowsTo(last))
  <2>1. last \in T /\ last <= last
    BY <1>12
  <2> HIDE DEF RowsTo
  <2> QED
    BY <2>1 DEF T
<1>14. RowsTo(last) = {i \in R : "total_count" \in Features(rows[i])}
  <2>1. \A i \in R : "total_count" \in Features(rows[i])
    BY DEF Features
  <2>2. RowsTo(last) = R
    BY <1>1
  <2> QED
    BY <2>1, <2>2
<1> QED
  BY <1>6, <1>13, <1>14 DEF Counted, R

LEMMA ReportHolds == StatIInv => ReportAddsUp
<1> SUFFICES ASSUME StatIInv PROVE ReportAddsUp
  OBVIOUS
<1>1. PICK rows : rows = AllRows(statFiles)
  OBVIOUS
<1>2. rows \in Seq(Rows)
  <2> DEFINE s == [i \in 1 .. Len(statFiles) |-> statFiles[i].rows]
  <2>1. statFiles \in Seq(DayFiles) /\ Len(statFiles) \in Nat
    BY LenProperties DEF StatIInv
  <2>2. \A i \in 1 .. Len(statFiles) : statFiles[i].rows \in Seq(Rows)
    <3>1. \A i \in 1 .. Len(statFiles) : statFiles[i] \in DayFiles
      BY <2>1, ElementOfSeq
    <3> QED
      BY <3>1 DEF DayFiles
  <2>3. s \in Seq(Seq(Rows))
    BY <2>1, <2>2, SeqDef
  <2> HIDE DEF s
  <2>4. FlattenSeq(s) \in Seq(Rows)
    BY <2>3, FlattenIs
  <2> QED
    BY <1>1, <2>4 DEF AllRows, s
<1>3. ASSUME rows # <<>>, \A i, j \in 1 .. Len(rows) : i < j => rows[i].time <= rows[j].time
      PROVE  ~AnalyzeRaises(rows)
  <2> SUFFICES ASSUME NEW i \in 1 .. Len(rows)
               PROVE  DayNumber(rows, rows[i]) \in 0 .. LastDayNumber(rows)
    BY DEF AnalyzeRaises, Analyzed
  <2>1. /\ Len(rows) \in Nat /\ 1 \in 1 .. Len(rows) /\ Len(rows) \in 1 .. Len(rows)
        /\ \A j \in 1 .. Len(rows) : rows[j].time \in Int
        /\ Last(rows) = rows[Len(rows)]
    <3>1. Len(rows) \in Nat /\ Len(rows) # 0
      BY <1>2, <1>3, LenProperties, EmptySeq
    <3>2. \A j \in 1 .. Len(rows) : rows[j] \in Rows
      BY <1>2, ElementOfSeq
    <3> QED
      BY <3>1, <3>2 DEF Rows, Last
  <2>2. rows[1].time <= rows[i].time /\ rows[i].time <= rows[Len(rows)].time
    BY <1>3, <2>1
  <2> DEFINE a == rows[1].time - rows[1].time
             b == rows[i].time - rows[1].time
             c == rows[Len(rows)].time - rows[1].time
  <2>3. a \in Int /\ b \in Int /\ c \in Int /\ a <= b /\ b <= c /\ a = 0
    BY <2>1, <2>2
  <2>4. 0 \div DayLength = 0
    BY ZeroDays
  <2>5. /\ DayNumber(rows, rows[i]) = b \div DayLength
        /\ LastDayNumber(rows) = c \div DayLength
    BY <2>1 DEF DayNumber, LastDayNumber
  <2> HIDE DEF a, b, c
  <2>6. /\ 0 <= b \div DayLength /\ b \div DayLength <= c \div DayLength
        /\ b \div DayLength \in Int /\ c \div DayLength \in Int
    BY <2>3, <2>4, StatBounds, DivisionIs, DivisionKeepsOrder
  <2> QED
    BY <2>5, <2>6
<1>4. ASSUME rows # <<>>, ~AnalyzeRaises(rows), NEW type, NEW row \in Analyzed(rows), NEW name
      PROVE  LET total == Counted(rows, type, "total_count", name)
             IN  /\ total = Counted(rows, type, "normal_count", name)
                            + Counted(rows, type, "error_count", name)
                 /\ total = CountedUpToDay(rows, type, "total_count", name, LastDayNumber(rows))
  <2>1. LastDayNumber(rows) \in Nat
    <3>1. DayNumber(rows, rows[row]) \in 0 .. LastDayNumber(rows)
      BY <1>4 DEF AnalyzeRaises
    <3>2. LastDayNumber(rows) \in Int
      <4>1. /\ Len(rows) \in Nat /\ Len(rows) # 0 /\ Last(rows) = rows[Len(rows)]
            /\ \A j \in 1 .. Len(rows) : rows[j] \in Rows
        BY <1>2, <1>4, LenProperties, EmptySeq, ElementOfSeq DEF Last
      <4>2. 1 \in 1 .. Len(rows) /\ Len(rows) \in 1 .. Len(rows)
        BY <4>1
      <4>3. Last(rows).time - rows[1].time \in Int
        BY <4>1, <4>2 DEF Rows
      <4> QED
        BY <4>3, StatBounds, DivisionIs DEF LastDayNumber, DayNumber
    <3> QED
      BY <3>1, <3>2
  <2> QED
    BY <1>2, <1>4, <2>1, NormalOrError, DaysAddUp DEF AnalyzeRaises
<1> QED
  BY <1>1, <1>3, <1>4 DEF ReportAddsUp
-----------------------------------------------------------------------------
(* The deviations of one day. *)
LEMMA MaxOfTwo ==
    ASSUME NEW x \in Int, NEW y \in Int
    PROVE  Max({x, y}) = IF x >= y THEN x ELSE y
<1>1. PICK z : z = IF x >= y THEN x ELSE y
  OBVIOUS
<1>2. z \in {x, y} /\ \A v \in {x, y} : z >= v
  BY <1>1
<1>3. \A w \in {x, y} : (\A v \in {x, y} : w >= v) => w = z
  BY <1>1
<1>4. (CHOOSE w \in {x, y} : \A v \in {x, y} : w >= v) = z
  BY <1>2, <1>3
<1> QED
  BY <1>1, <1>4 DEF Max

LEMMA PartOf ==
    ASSUME NEW S, NEW s \in Seq(S), NEW a \in Nat \ {0}, NEW b \in Nat, a <= b, b <= Len(s)
    PROVE  /\ SubSeq(s, a, b) \in Seq(S) /\ Len(SubSeq(s, a, b)) = b - a + 1
           /\ \A i \in 1 .. b - a + 1 : SubSeq(s, a, b)[i] = s[a + i - 1]
<1>1. Len(s) \in Nat
  BY LenProperties
<1>2. \A i \in a .. b : i \in 1 .. Len(s)
  BY <1>1
<1>3. \A i \in a .. b : s[i] \in S
  BY <1>2, ElementOfSeq
<1> QED
  BY <1>3, SubSeqProperties

LEMMA NothingWithoutPast ==
    ASSUME NEW dayOf, NEW by, NEW skip
    PROVE  DeviationsOfDay(dayOf, <<>>, by, skip) = {}
<1>1. Len(<<>>) = 0 /\ 1 .. 0 = {}
  BY EmptySeq
<1>2. AveragedNames(<<>>, by) = {}
  BY <1>1 DEF AveragedNames
<1> QED
  BY <1>2 DEF DeviationsOfDay

LEMMA DeviationsAreOfTheDay ==
    ASSUME NEW dayOf, NEW past, NEW by, NEW skip,
           NEW d \in DeviationsOfDay(dayOf, past, by, skip)
    PROVE  d.day = dayOf.date
<1> DEFINE averaged == AveragedNames(past, by)
           Found(name, check) ==
              LET value == Daily(dayOf.rows, by, name, check)
                  type == DeviationType(value, MovingAverage(past, by, name, check))
              IN  IF type = "none" \/ Skipped(check, value,
                       Len(SizesOf(dayOf.rows, by, name, check[2])), skip) THEN {}
                  ELSE {[day |-> dayOf.date, name |-> name, check |-> check,
                         type |-> type, value |-> value]}
           Of(name) == IF name \in averaged THEN UNION {Found(name, c) : c \in Checks}
                       ELSE {[day |-> dayOf.date, name |-> name, check |-> <<>>,
                              type |-> "clear", value |-> <<>>]}
<1>1. \A name, check : \A e \in Found(name, check) : e.day = dayOf.date
  OBVIOUS
<1> HIDE DEF Found
<1>2. \A name : \A e \in Of(name) : e.day = dayOf.date
  BY <1>1
<1>3. d \in UNION {Of(n) : n \in NamesIn(dayOf.rows, by)}
  BY DEF DeviationsOfDay, Found
<1> HIDE DEF Of
<1> QED
  BY <1>2, <1>3

LEMMA DaysAre ==
    ASSUME NEW files \in Seq(DayFiles), NEW filter
    PROVE  /\ DaysOf(files, filter) \in Seq({DaysOf(files, filter)[i] : i \in 1 .. Len(files)})
           /\ Len(DaysOf(files, filter)) = Len(files) /\ Len(files) \in Nat
           /\ \A i \in 1 .. Len(files) : DaysOf(files, filter)[i].date = files[i].date
<1>1. Len(files) \in Nat
  BY LenProperties
<1>2. DaysOf(files, filter) = [i \in 1 .. Len(files) |-> DaysOf(files, filter)[i]]
  BY DEF DaysOf
<1>3. DaysOf(files, filter) \in Seq({DaysOf(files, filter)[i] : i \in 1 .. Len(files)})
  BY <1>1, <1>2, SeqDef
<1>4. Len(DaysOf(files, filter)) = Len(files)
  BY <1>1, <1>2, <1>3, LenProperties
<1>5. \A i \in 1 .. Len(files) : DaysOf(files, filter)[i].date = files[i].date
  BY DEF DaysOf
<1> QED
  BY <1>1, <1>3, <1>4, <1>5

(* What the window's files before a day and its own give is the day's alone. *)
LEMMA TheDayAlone ==
    ASSUME NEW files \in Seq(DayFiles), NEW b \in 1 .. Len(files), NEW window \in Nat \ {0},
           NEW by, NEW skip, NEW filter
    PROVE  calculate_moving_average(SubSeq(files, Max({1, b - window}), b), window, by, skip,
                                    filter)
              = DeviationsOfDay(DaysOf(files, filter)[b],
                                WindowOf(DaysOf(files, filter), b - 1, window), by, skip)
<1>1. Len(files) \in Nat /\ b \in Nat \ {0} /\ b <= Len(files)
  BY LenProperties
<1>2. PICK a : a = Max({1, b - window})
  OBVIOUS
<1>3. a = IF 1 >= b - window THEN 1 ELSE b - window
  <2>1. b - window \in Int
    BY <1>1
  <2> QED
    BY <1>2, <2>1, MaxOfTwo
<1>4. a \in Nat \ {0} /\ a <= b /\ b - a <= window /\ (a # 1 => b - a = window)
  BY <1>1, <1>3
<1>5. PICK near : near = SubSeq(files, a, b)
  OBVIOUS
<1>6. /\ near \in Seq(DayFiles) /\ Len(near) = b - a + 1
      /\ \A i \in 1 .. b - a + 1 : near[i] = files[a + i - 1]
  BY <1>1, <1>4, <1>5, PartOf
<1>7. PICK days : days = DaysOf(files, filter)
  OBVIOUS
<1>8. PICK few : few = DaysOf(near, filter)
  OBVIOUS
<1> DEFINE n == b - a + 1
           Of(i) == DeviationsOfDay(few[i], WindowOf(few, i - 1, window), by, skip)
<1>9. /\ Len(days) = Len(files) /\ Len(few) = n /\ n \in Nat \ {0} /\ a + n - 1 = b
      /\ \E D : days \in Seq(D)
      /\ \E D : few \in Seq(D)
  <2>1. Len(days) = Len(files) /\ \E D : days \in Seq(D)
    BY <1>7, DaysAre
  <2>2. Len(few) = Len(near) /\ \E D : few \in Seq(D)
    BY <1>6, <1>8, DaysAre
  <2> QED
    BY <1>1, <1>4, <1>6, <2>1, <2>2
<1>10. ASSUME NEW i \in 1 .. n PROVE few[i] = days[a + i - 1]
  <2>1. a + i - 1 \in 1 .. Len(files) /\ i \in 1 .. Len(near)
    BY <1>1, <1>4, <1>6
  <2>2. near[i] = files[a + i - 1]
    BY <1>6
  <2>3. /\ few[i] = [date |-> near[i].date,
                     rows |-> get_content_without_useless(near[i].rows, filter)]
        /\ days[a + i - 1] = [date |-> files[a + i - 1].date,
                     rows |-> get_content_without_useless(files[a + i - 1].rows, filter)]
    BY <1>7, <1>8, <2>1 DEF DaysOf
  <2> QED
    BY <2>2, <2>3
<1>11. calculate_moving_average(near, window, by, skip, filter) = UNION {Of(i) : i \in 1 .. n}
  BY <1>8, <1>9 DEF calculate_moving_average
<1>12. ASSUME NEW i \in 1 .. n, i # n PROVE Of(i) = {}
  <2>1. i - 1 < window
    BY <1>1, <1>4, <1>9, <1>12
  <2>2. WindowOf(few, i - 1, window) = <<>>
    BY <2>1 DEF WindowOf
  <2> QED
    BY <2>2, NothingWithoutPast
<1>13. WindowOf(few, n - 1, window) = WindowOf(days, b - 1, window)
  <2>1. CASE n - 1 < window
    <3>1. a = 1 /\ b - 1 < window
      BY <1>1, <1>4, <1>9, <2>1
    <3> QED
      BY <2>1, <3>1 DEF WindowOf
  <2>2. CASE ~(n - 1 < window)
    <3>1. /\ n - 1 = window /\ n - 1 - window + 1 = 1 /\ ~(b - 1 < window)
          /\ b - 1 - window + 1 = a /\ b - 1 - a + 1 = window /\ window - 1 + 1 = window
          /\ a <= b - 1 /\ b - 1 \in Nat /\ b - 1 <= Len(days) /\ window <= Len(few)
          /\ window \in Nat /\ 1 <= window
      BY <1>1, <1>4, <1>9, <2>2
    <3>2. /\ WindowOf(few, n - 1, window) = SubSeq(few, 1, window)
          /\ WindowOf(days, b - 1, window) = SubSeq(days, a, b - 1)
      BY <2>2, <3>1 DEF WindowOf
    <3>3. PICK v : v = SubSeq(few, 1, window)
      OBVIOUS
    <3>4. PICK w : w = SubSeq(days, a, b - 1)
      OBVIOUS
    <3>5. PICK D : few \in Seq(D)
      BY <1>9
    <3>6. PICK E : days \in Seq(E)
      BY <1>9
    <3>7. /\ v \in Seq(D) /\ Len(v) = window
          /\ \A i \in 1 .. window : v[i] = few[1 + i - 1]
      <4>1. /\ SubSeq(few, 1, window) \in Seq(D) /\ Len(SubSeq(few, 1, window)) = window - 1 + 1
            /\ \A i \in 1 .. window - 1 + 1 : SubSeq(few, 1, window)[i] = few[1 + i - 1]
        BY <3>1, <3>5, PartOf
      <4> QED
        BY <3>1, <3>3, <4>1
    <3>8. /\ w \in Seq(E) /\ Len(w) = window
          /\ \A i \in 1 .. window : w[i] = days[a + i - 1]
      <4>1. /\ SubSeq(days, a, b - 1) \in Seq(E) /\ Len(SubSeq(days, a, b - 1)) = b - 1 - a + 1
            /\ \A i \in 1 .. b - 1 - a + 1 : SubSeq(days, a, b - 1)[i] = days[a + i - 1]
        <5>1. a \in Nat \ {0} /\ b - 1 \in Nat /\ a <= b - 1 /\ b - 1 <= Len(days)
          BY <1>4, <3>1
        <5> QED
          BY <3>6, <5>1, PartOf
      <4> QED
        BY <3>1, <3>4, <4>1
    <3>9. \A i \in 1 .. window : 1 + i - 1 = i /\ i \in 1 .. n
      BY <3>1, <1>9
    <3>10. \A i \in 1 .. window : v[i] = w[i]
      BY <1>10, <3>7, <3>8, <3>9
    <3>11. v = w
      <4>1. v = [i \in 1 .. window |-> v[i]] /\ w = [i \in 1 .. window |-> w[i]]
        BY <3>7, <3>8, LenProperties
      <4> QED
        BY <3>10, <4>1
    <3> QED
      BY <3>2, <3>3, <3>4, <3>11
  <2> QED
    BY <2>1, <2>2
<1>14. few[n] = days[b] /\ n \in 1 .. n
  BY <1>9, <1>10
<1>15. Of(n) = DeviationsOfDay(days[b], WindowOf(days, b - 1, window), by, skip)
  BY <1>13, <1>14
<1> HIDE DEF Of, n
<1>16. UNION {Of(i) : i \in 1 .. n} = Of(n)
  BY <1>12, <1>14
<1> QED
  BY <1>2, <1>5, <1>7, <1>11, <1>15, <1>16

LEMMA OneDayHolds == StatIInv => OneDayIsAsInAllDays
<1> SUFFICES ASSUME StatIInv, NEW window \in Windows, NEW by \in {"host", "url"},
                    NEW skip \in SkipCounts, NEW filter \in Filters,
                    NEW b \in 1 .. Len(statFiles)
             PROVE  LET all == calculate_moving_average(statFiles, window, by, skip, filter)
                        OfDay(found, date) == {d \in found : d.day = date}
                        date == statFiles[b].date
                    IN  /\ OfDay(calculate_moving_average(
                                   FilesForDate(statFiles, window, date), window, by, skip,
                                   filter), date) = OfDay(all, date)
                        /\ b = Len(statFiles) =>
                             calculate_moving_average(LastFiles(statFiles, window), window, by,
                                                      skip, filter) = OfDay(all, date)
  BY DEF OneDayIsAsInAllDays
<1>1. /\ statFiles \in Seq(DayFiles) /\ window \in Nat \ {0} /\ Len(statFiles) \in Nat
      /\ \A i \in 1 .. Len(statFiles) : statFiles[i].date \in Nat
      /\ \A i, j \in 1 .. Len(statFiles) : i < j => statFiles[i].date < statFiles[j].date
  <2>1. statFiles \in Seq(DayFiles)
    BY DEF StatIInv
  <2>2. \A i \in 1 .. Len(statFiles) : statFiles[i] \in DayFiles
    BY <2>1, ElementOfSeq
  <2> QED
    BY <2>1, <2>2, StatBounds, LenProperties DEF StatIInv, DayFiles
<1>2. PICK days : days = DaysOf(statFiles, filter)
  OBVIOUS
<1>3. PICK date : date = statFiles[b].date
  OBVIOUS
<1> DEFINE Of(i) == DeviationsOfDay(days[i], WindowOf(days, i - 1, window), by, skip)
           OfDay(found) == {d \in found : d.day = date}
           all == calculate_moving_average(statFiles, window, by, skip, filter)
<1>4. Len(days) = Len(statFiles) /\ \A i \in 1 .. Len(statFiles) : days[i].date = statFiles[i].date
  BY <1>1, <1>2, DaysAre
<1>5. \A i \in 1 .. Len(statFiles) : statFiles[i].date = date => i = b
  <2> SUFFICES ASSUME NEW i \in 1 .. Len(statFiles), i # b PROVE statFiles[i].date # date
    OBVIOUS
  <2>1. i < b \/ b < i
    BY <1>1
  <2> QED
    BY <1>1, <1>3, <2>1
<1>6. all = UNION {Of(i) : i \in 1 .. Len(statFiles)}
  BY <1>2, <1>4 DEF calculate_moving_average
<1>7. \A i \in 1 .. Len(statFiles) : \A d \in Of(i) : d.day = statFiles[i].date
  BY <1>4, DeviationsAreOfTheDay
<1> HIDE DEF Of
<1>8. OfDay(all) = Of(b) /\ OfDay(Of(b)) = Of(b)
  <2> HIDE DEF all
  <2> QED
    BY <1>3, <1>5, <1>6, <1>7
<1>9. calculate_moving_average(SubSeq(statFiles, Max({1, b - window}), b), window, by, skip, filter)
         = Of(b)
  BY <1>1, <1>2, TheDayAlone DEF Of
<1>10. FilesForDate(statFiles, window, date) = SubSeq(statFiles, Max({1, b - window}), b)
  <2>1. (CHOOSE i \in 1 .. Len(statFiles) : statFiles[i].date = date) = b
    BY <1>3, <1>5
  <2> QED
    BY <2>1 DEF FilesForDate
<1>11. ASSUME b = Len(statFiles)
       PROVE  LastFiles(statFiles, window) = SubSeq(statFiles, Max({1, b - window}), b)
  <2>1. Len(statFiles) - (window + 1) + 1 = b - window
    BY <1>1, <1>11
  <2> QED
    BY <1>11, <2>1 DEF LastFiles, days_back
<1> HIDE DEF all
<1>12. OfDay(calculate_moving_average(FilesForDate(statFiles, window, date), window, by, skip, filter))
          = OfDay(all)
  BY <1>8, <1>9, <1>10
<1>13. b = Len(statFiles) =>
          calculate_moving_average(LastFiles(statFiles, window), window, by, skip, filter) = OfDay(all)
  BY <1>8, <1>9, <1>11
<1> QED
  BY <1>3, <1>12, <1>13 DEF all

LEMMA StatHolds == StatIInv => StatTypeOK /\ StatisticsAgree
<1> SUFFICES ASSUME StatIInv PROVE StatTypeOK /\ StatisticsAgree
  OBVIOUS
<1>1. OneDayIsAsInAllDays /\ ReportAddsUp
  BY OneDayHolds, ReportHolds
<1>2. \A i \in 1 .. Len(statFiles) : statFiles[i] \in DayFiles
  BY ElementOfSeq DEF StatIInv
<1>3. \A i \in 1 .. Len(statFiles) : statFiles[i].date \in 0 .. Today /\ statFiles[i].rows # <<>>
  BY <1>2, TodayIs DEF StatIInv, DayFiles
<1> QED
  BY <1>1, <1>3 DEF StatisticsAgree, StatTypeOK, StatIInv
-----------------------------------------------------------------------------
(* The CSV loggers. *)
CsvObjects == [name : DOMAIN csv_loggers, header : Nat, exceptions : BOOLEAN]

LEMMA CsvInitially == CsvInit => CsvTypeOK
<1> SUFFICES ASSUME CsvInit PROVE CsvTypeOK
  OBVIOUS
<1>1. DOMAIN csv_loggers = {} /\ csv_objects \in Seq(CsvObjects) /\ csv_writes = 0
  BY EmptySeq DEF CsvInit
<1>2. MaxCsvRows \in Nat
  BY CsvAssumption
<1> QED
  BY <1>1, <1>2 DEF CsvTypeOK, CsvObjects

LEMMA RowWritten ==
    ASSUME CsvTypeOK, NEW object \in CsvObjects, NEW cells \in Nat, written_row(object, cells),
           csv_writes < MaxCsvRows, csv_writes' = csv_writes + 1, UNCHANGED csv_objects
    PROVE  CsvTypeOK'
<1>1. csv_writes' \in 0 .. MaxCsvRows
  BY CsvAssumption DEF CsvTypeOK
<1>2. DOMAIN csv_loggers' = DOMAIN csv_loggers
  BY DEF written_row
<1>3. \A n \in DOMAIN csv_loggers : csv_loggers'[n] \in [header : Nat, rows : Seq(Nat \ {0})]
  <2>1. CASE csv_loggers' = csv_loggers
    BY <2>1 DEF CsvTypeOK
  <2>2. CASE csv_loggers' # csv_loggers
    <3>1. /\ object.header # 0 /\ cells = object.header
          /\ csv_loggers' = [csv_loggers EXCEPT ![object.name].rows = Append(@, cells)]
      BY <2>2 DEF written_row
    <3>2. object.name \in DOMAIN csv_loggers /\ cells \in Nat \ {0}
      BY <3>1 DEF CsvObjects
    <3>3. csv_loggers[object.name].rows \in Seq(Nat \ {0})
      BY <3>2 DEF CsvTypeOK
    <3>4. Append(csv_loggers[object.name].rows, cells) \in Seq(Nat \ {0})
      BY <3>2, <3>3, AppendProperties
    <3> QED
      BY <3>1, <3>2, <3>4 DEF CsvTypeOK
  <2> QED
    BY <2>1, <2>2
<1> QED
  BY <1>1, <1>2, <1>3 DEF CsvTypeOK

LEMMA CsvInductive == CsvTypeOK /\ [CsvNext]_csv_vars => CsvTypeOK'
<1> SUFFICES ASSUME CsvTypeOK, [CsvNext]_csv_vars PROVE CsvTypeOK'
  OBVIOUS
<1>1. /\ csv_objects \in Seq(CsvObjects)
      /\ \A i \in DOMAIN csv_objects : csv_objects[i] \in CsvObjects
  <2>1. csv_objects \in Seq(CsvObjects)
    BY DEF CsvTypeOK, CsvObjects
  <2> QED
    BY <2>1, SeqElements
<1>2. CASE UNCHANGED csv_vars
  BY <1>2 DEF csv_vars, CsvTypeOK
<1>3. ASSUME NEW name \in CsvNames, NEW s \in CsvSettings, NEW exceptions \in BOOLEAN,
             NEW custom \in CustomHeaders, make_csv_logger(name, s, exceptions, custom)
      PROVE  CsvTypeOK'
  <2>1. PICK header : header = object_header(exceptions, custom)
    OBVIOUS
  <2>2. PICK object : object = [name |-> name, header |-> header, exceptions |-> exceptions]
    OBVIOUS
  <2>3. PICK logger : logger = [header |-> IF s.no_listener THEN NoFileHeader ELSE header,
                                rows |-> <<>>]
    OBVIOUS
  <2>4. header \in Nat /\ logger \in [header : Nat, rows : Seq(Nat \ {0})]
    <3>1. custom \in Nat
      BY CsvAssumption
    <3>2. header \in Nat
      BY <2>1, <3>1 DEF object_header
    <3> QED
      BY <2>3, <3>2, EmptySeq DEF NoFileHeader
  <2>5. CASE csv_settings_error(name, s)
    <3>1. UNCHANGED <<csv_loggers, csv_objects, csv_writes>>
      BY <1>3, <2>5 DEF make_csv_logger
    <3> QED
      BY <3>1 DEF CsvTypeOK
  <2>6. CASE ~csv_settings_error(name, s)
    <3>1. /\ csv_loggers' = [n \in DOMAIN csv_loggers \cup {name} |->
                               IF n \in DOMAIN csv_loggers THEN csv_loggers[n] ELSE logger]
          /\ csv_objects' = Append(csv_objects, object) /\ csv_writes' = csv_writes
      BY <1>3, <2>1, <2>2, <2>3, <2>6 DEF make_csv_logger
    <3>2. DOMAIN csv_loggers' = DOMAIN csv_loggers \cup {name}
      BY <3>1
    <3>3. csv_objects \in Seq(CsvObjects') /\ object \in CsvObjects'
      <4>1. CsvObjects \subseteq CsvObjects'
        BY <3>2 DEF CsvObjects
      <4>2. object \in CsvObjects'
        BY <2>2, <2>4, <3>2 DEF CsvObjects
      <4>3. csv_objects = [i \in 1 .. Len(csv_objects) |-> csv_objects[i]] /\ Len(csv_objects) \in Nat
        BY <1>1, LenProperties
      <4>4. \A i \in 1 .. Len(csv_objects) : csv_objects[i] \in CsvObjects'
        BY <1>1, <4>1, ElementOfSeq
      <4> QED
        BY <4>2, <4>3, <4>4, SeqDef
    <3>4. csv_objects' \in Seq(CsvObjects')
      BY <3>1, <3>3, AppendProperties
    <3>5. \A n \in DOMAIN csv_loggers' : csv_loggers'[n] \in [header : Nat, rows : Seq(Nat \ {0})]
      BY <2>4, <3>1 DEF CsvTypeOK
    <3> QED
      BY <3>1, <3>2, <3>4, <3>5 DEF CsvTypeOK, CsvObjects
  <2> QED
    BY <2>5, <2>6
<1>4. ASSUME NEW i \in DOMAIN csv_objects, NEW cells \in 1 .. 3,
             csv_write_row(csv_objects[i], cells)
      PROVE  CsvTypeOK'
  BY <1>1, <1>4, RowWritten DEF csv_write_row
<1>5. ASSUME NEW i \in DOMAIN csv_objects, NEW message, NEW attribute, NEW columns,
             write_exception(csv_objects[i], message, attribute, columns)
      PROVE  CsvTypeOK'
  <2>1. /\ csv_writes < MaxCsvRows /\ csv_writes' = csv_writes + 1 /\ UNCHANGED csv_objects
        /\ csv_loggers' = csv_loggers \/ written_row(csv_objects[i], exception_cells(columns))
    BY <1>5 DEF write_exception
  <2>2. CASE csv_loggers' = csv_loggers
    BY <2>1, <2>2, CsvAssumption DEF CsvTypeOK
  <2>3. CASE written_row(csv_objects[i], exception_cells(columns))
    BY <1>1, <2>1, <2>3, RowWritten DEF exception_cells
  <2> QED
    BY <2>1, <2>2, <2>3
<1> QED
  BY <1>2, <1>3, <1>4, <1>5 DEF CsvNext
-----------------------------------------------------------------------------
(* The least and the greatest of some numbers. *)
LEMMA SmallestIs ==
    ASSUME NEW T \in SUBSET Nat, T # {}
    PROVE  Min(T) \in T /\ \A y \in T : Min(T) <= y
<1>1. \E x \in T : \A y \in T : x <= y
  BY LeastNat
<1> QED
  BY <1>1 DEF Min

LEMMA SmallestIsThe ==
    ASSUME NEW T \in SUBSET Nat, NEW x \in T, \A y \in T : x <= y
    PROVE  Min(T) = x
<1>1. Min(T) \in T /\ Min(T) <= x
  BY SmallestIs
<1>2. x <= Min(T) /\ x \in Nat /\ Min(T) \in Nat
  BY <1>1
<1> QED
  BY <1>1, <1>2

LEMMA LargestIs ==
    ASSUME NEW n \in Nat, NEW T \in SUBSET (1 .. n), T # {}
    PROVE  Max(T) \in T /\ \A y \in T : y <= Max(T)
<1> DEFINE D == {n - y : y \in T}
<1>1. D \in SUBSET Nat /\ D # {}
  <2>1. \A y \in T : n - y \in Nat
    OBVIOUS
  <2> QED
    BY <2>1
<1>2. PICK d \in D : \A e \in D : d <= e
  <2> HIDE DEF D
  <2> QED
    BY <1>1, LeastNat
<1>3. PICK x \in T : d = n - x
  OBVIOUS
<1>4. \A y \in T : n - x <= n - y
  BY <1>2, <1>3
<1>5. \A y \in T : y \in 1 .. n
  OBVIOUS
<1>6. \A y \in T : x >= y
  BY <1>4, <1>5
<1>7. Max(T) \in T /\ \A y \in T : Max(T) >= y
  BY <1>6 DEF Max
<1> QED
  BY <1>5, <1>7

(* The section of a line. *)
InSection(lines, i, s) ==
    \/ s = "" /\ \A k \in 1 .. i : lines[k].kind # "section"
    \/ \E h \in 1 .. i :
         /\ lines[h].kind = "section" /\ s = lines[h].name
         /\ \A k \in h + 1 .. i : lines[k].kind # "section"

LEMMA SectionIs ==
    ASSUME NEW lines, NEW i \in Nat
    PROVE  InSection(lines, i, SectionAt(lines, i))
<1> DEFINE headers == {h \in 1 .. i : lines[h].kind = "section"}
<1>1. CASE headers = {}
  <2>1. SectionAt(lines, i) = ""
    BY <1>1 DEF SectionAt
  <2> QED
    BY <1>1, <2>1 DEF InSection
<1>2. CASE headers # {}
  <2>1. Max(headers) \in headers /\ \A y \in headers : y <= Max(headers)
    <3>1. headers \in SUBSET (1 .. i)
      OBVIOUS
    <3> HIDE DEF headers
    <3> QED
      BY <1>2, <3>1, LargestIs
  <2>2. SectionAt(lines, i) = lines[Max(headers)].name
    BY <1>2 DEF SectionAt
  <2>3. PICK h : h = Max(headers)
    OBVIOUS
  <2>4. h \in 1 .. i /\ lines[h].kind = "section"
    BY <2>1, <2>3
  <2>5. ASSUME NEW k \in h + 1 .. i, lines[k].kind = "section" PROVE FALSE
    <3>1. k \in headers
      BY <2>4, <2>5
    <3> HIDE DEF headers
    <3>2. k <= h
      BY <2>1, <2>3, <3>1
    <3> QED
      BY <2>4, <3>2
  <2> QED
    BY <2>2, <2>3, <2>4, <2>5 DEF InSection
<1> QED
  BY <1>1, <1>2

LEMMA SectionIsThe ==
    ASSUME NEW lines, NEW i \in Nat, NEW s, InSection(lines, i, s)
    PROVE  SectionAt(lines, i) = s
<1>1. PICK t : t = SectionAt(lines, i)
  OBVIOUS
<1>2. InSection(lines, i, t)
  BY <1>1, SectionIs
<1>3. CASE \A k \in 1 .. i : lines[k].kind # "section"
  BY <1>1, <1>2, <1>3 DEF InSection
<1>4. CASE ~ \A k \in 1 .. i : lines[k].kind # "section"
  <2>1. PICK h \in 1 .. i :
          /\ lines[h].kind = "section" /\ s = lines[h].name
          /\ \A k \in h + 1 .. i : lines[k].kind # "section"
    BY <1>4 DEF InSection
  <2>2. PICK g \in 1 .. i :
          /\ lines[g].kind = "section" /\ t = lines[g].name
          /\ \A k \in g + 1 .. i : lines[k].kind # "section"
    BY <1>2, <1>4 DEF InSection
  <2>3. ~(h < g) /\ ~(g < h)
    BY <2>1, <2>2
  <2>4. g = h
    BY <2>3
  <2> QED
    BY <1>1, <2>1, <2>2, <2>4
<1> QED
  BY <1>3, <1>4

(* The end of a list. *)
LEMMA ClosesIs ==
    ASSUME NEW lines, Len(lines) \in Nat, NEW i \in Nat, NEW e, Closes(lines, i, e)
    PROVE  EndOfList(lines, i) = e
<1> DEFINE T == {k \in i + 1 .. Len(lines) : lines[k].kind = "end"}
<1>1. T \in SUBSET Nat /\ e \in T
  BY DEF Closes
<1>2. ASSUME NEW y \in T PROVE e <= y
  <2>1. ~(y \in i + 1 .. e - 1)
    BY DEF Closes
  <2>2. e \in i + 1 .. Len(lines)
    BY DEF Closes
  <2> QED
    BY <2>1, <2>2
<1>3. EndOfList(lines, i) = Min(T)
  BY DEF EndOfList
<1> HIDE DEF T
<1> QED
  BY <1>1, <1>2, <1>3, SmallestIsThe
-----------------------------------------------------------------------------
(* The lines of a key. *)
Block(lines, p, q) ==
    /\ p \in 1 .. Len(lines)
    /\ \/ lines[p].kind = "key" /\ q = p + 1
       \/ lines[p].kind = "list" /\ q \in Nat /\ Closes(lines, p, q - 1)

LEMMA LegalLines ==
    ASSUME NEW lines, Legal(lines)
    PROVE  /\ Len(lines) \in Nat /\ DOMAIN lines = 1 .. Len(lines)
           /\ \A i \in 1 .. Len(lines) : lines[i] \in Line /\ LegalLine(lines[i])
<1>1. lines \in Seq(Line)
  BY DEF Legal
<1>2. Len(lines) \in Nat /\ DOMAIN lines = 1 .. Len(lines)
  BY <1>1, LenProperties
<1>3. \A i \in 1 .. Len(lines) : lines[i] \in Line
  BY <1>1, ElementOfSeq
<1> QED
  BY <1>2, <1>3 DEF Legal

LEMMA KeyHasBlock ==
    ASSUME NEW lines, Legal(lines), NEW p \in KeyLines(lines)
    PROVE  \E q : Block(lines, p, q)
<1>1. p \in 1 .. Len(lines) /\ Len(lines) \in Nat /\ lines[p].kind \in {"key", "list"}
  BY LegalLines DEF KeyLines, IsKey
<1>2. CASE lines[p].kind = "key"
  BY <1>1, <1>2 DEF Block
<1>3. CASE lines[p].kind = "list"
  <2>1. PICK e \in 1 .. Len(lines) : Closes(lines, p, e)
    BY <1>1, <1>3 DEF Legal
  <2>2. PICK q \in Nat : q - 1 = e
    <3>1. e + 1 \in Nat /\ (e + 1) - 1 = e
      OBVIOUS
    <3> QED
      BY <3>1
  <2> QED
    BY <1>1, <1>3, <2>1, <2>2 DEF Block
<1> QED
  BY <1>1, <1>2, <1>3

LEMMA BlockIs ==
    ASSUME NEW lines, Len(lines) \in Nat, NEW p, NEW q, Block(lines, p, q)
    PROVE  /\ p \in 1 .. Len(lines) /\ q \in p + 1 .. Len(lines) + 1
           /\ IsKey(lines[p])
           /\ \A k \in p + 1 .. q - 1 : lines[k].kind \in {"item", "comment", "end"}
           /\ lines[p].kind = "list" => EndOfList(lines, p) = q - 1
<1>1. CASE lines[p].kind = "key" /\ q = p + 1
  BY <1>1 DEF Block, IsKey
<1>2. CASE lines[p].kind = "list" /\ q \in Nat /\ Closes(lines, p, q - 1)
  <2>1. p \in 1 .. Len(lines) /\ q - 1 \in p + 1 .. Len(lines) /\ lines[q - 1].kind = "end"
    BY <1>2 DEF Block, Closes
  <2>2. PICK e \in p + 1 .. Len(lines) : e = q - 1
    BY <2>1
  <2>3. ASSUME NEW k \in p + 1 .. q - 1 PROVE lines[k].kind \in {"item", "comment", "end"}
    <3>1. k = e \/ k \in p + 1 .. e - 1
      BY <2>1, <2>2
    <3>2. \A l \in p + 1 .. e - 1 : lines[l].kind \in {"item", "comment"}
      BY <1>2, <2>2 DEF Closes
    <3> QED
      BY <2>1, <2>2, <3>1, <3>2
  <2>4. q \in p + 1 .. Len(lines) + 1
    BY <1>2, <2>1
  <2>5. EndOfList(lines, p) = q - 1
    BY <1>2, <2>1, ClosesIs
  <2> QED
    BY <1>2, <2>1, <2>3, <2>4, <2>5 DEF IsKey
<1> QED
  BY <1>1, <1>2 DEF Block

(* The bounds of the section of a line. *)
LEMMA BoundsAre ==
    ASSUME NEW lines, Legal(lines), NEW p \in 1 .. Len(lines)
    PROVE  \E s \in 1 .. p, t \in p + 1 .. Len(lines) + 1 :
             /\ _get_section_bounds(lines, SectionAt(lines, p)) = <<s, t>>
             /\ \A k \in s .. t - 1 : SectionAt(lines, k) = SectionAt(lines, p)
             /\ t = Len(lines) + 1 \/ lines[t].kind = "section"
<1> DEFINE section == SectionAt(lines, p)
           N == Len(lines)
           headers == {i \in 1 .. N : lines[i].kind = "section"}
           From(i) == {h \in headers : h > i} \cup {N + 1}
           starts == {i \in headers : lines[i].name = section}
<1>1. N \in Nat /\ InSection(lines, p, section)
  BY LegalLines, SectionIs
<1>2. \A i \in headers : lines[i].name # ""
  BY LegalLines DEF LegalLine
<1>3. \A i, j \in headers : lines[i].name = lines[j].name => i = j
  BY DEF Legal, OneOfEach
<1>4. ASSUME NEW h \in 0 .. p, \A k \in h + 1 .. p : lines[k].kind # "section",
             NEW t, t = Min(From(h))
      PROVE  /\ t \in p + 1 .. N + 1 /\ \A k \in h + 1 .. t - 1 : lines[k].kind # "section"
             /\ t = N + 1 \/ lines[t].kind = "section"
  <2>1. From(h) \in SUBSET Nat /\ N + 1 \in From(h)
    BY <1>1
  <2>2. t \in From(h) /\ \A y \in From(h) : t <= y
    <3> HIDE DEF From
    <3> QED
      BY <1>4, <2>1, SmallestIs
  <2>3. t \in h + 1 .. N + 1 /\ (t = N + 1 \/ lines[t].kind = "section")
    BY <1>1, <2>2
  <2>4. t \notin h + 1 .. p
    BY <1>1, <1>4, <2>3
  <2>5. t \in p + 1 .. N + 1
    BY <1>1, <2>3, <2>4
  <2>6. ASSUME NEW k \in h + 1 .. t - 1, lines[k].kind = "section" PROVE FALSE
    <3>1. k \in 1 .. N /\ k > h /\ ~(t <= k)
      BY <1>1, <2>5
    <3>2. k \in From(h)
      BY <2>6, <3>1
    <3> QED
      BY <2>2, <3>1, <3>2
  <2> QED
    BY <2>3, <2>5, <2>6
<1>5. CASE section = ""
  <2>1. \A k \in 1 .. p : lines[k].kind # "section"
    <3>1. \A h \in 1 .. p : lines[h].kind = "section" => lines[h].name # section
      <4>1. \A h \in 1 .. p : lines[h].kind = "section" => h \in headers
        BY <1>1
      <4> HIDE DEF section, headers
      <4> QED
        BY <1>2, <1>5, <4>1
    <3> HIDE DEF section
    <3> QED
      BY <1>1, <3>1 DEF InSection
  <2>2. PICK t : t = Min(From(0))
    OBVIOUS
  <2>3. /\ t \in p + 1 .. N + 1 /\ \A k \in 1 .. t - 1 : lines[k].kind # "section"
        /\ t = N + 1 \/ lines[t].kind = "section"
    <3>1. 0 \in 0 .. p /\ 0 + 1 = 1
      OBVIOUS
    <3> HIDE DEF From
    <3> QED
      BY <1>4, <2>1, <2>2, <3>1
  <2>4. _get_section_bounds(lines, section) = <<1, t>>
    BY <1>5, <2>2 DEF _get_section_bounds
  <2>5. ASSUME NEW k \in 1 .. t - 1 PROVE SectionAt(lines, k) = section
    <3>1. k \in Nat /\ \A l \in 1 .. k : l \in 1 .. t - 1
      BY <2>3
    <3>2. InSection(lines, k, "")
      BY <2>3, <3>1 DEF InSection
    <3> QED
      BY <1>5, <3>1, <3>2, SectionIsThe
  <2> QED
    BY <2>3, <2>4, <2>5
<1>6. CASE section # ""
  <2>1. PICK h \in 1 .. p :
          /\ lines[h].kind = "section" /\ section = lines[h].name
          /\ \A k \in h + 1 .. p : lines[k].kind # "section"
    BY <1>1, <1>6 DEF InSection
  <2>2. h \in headers
    BY <1>1, <2>1
  <2>3. \A i \in starts : i = h
    BY <1>3, <2>1, <2>2
  <2>4. starts \in SUBSET Nat /\ h \in starts /\ \A i \in starts : h <= i
    BY <2>1, <2>2, <2>3
  <2>5. Min(starts) = h
    <3> HIDE DEF starts
    <3> QED
      BY <2>4, SmallestIsThe
  <2>6. PICK t : t = Min(From(h))
    OBVIOUS
  <2>7. /\ t \in p + 1 .. N + 1 /\ \A k \in h + 1 .. t - 1 : lines[k].kind # "section"
        /\ t = N + 1 \/ lines[t].kind = "section"
    <3>1. h \in 0 .. p
      OBVIOUS
    <3> HIDE DEF From
    <3> QED
      BY <1>4, <2>1, <2>6, <3>1
  <2>8. _get_section_bounds(lines, section) = <<Min(starts), Min(From(Min(starts)))>>
    BY <1>6, <2>4 DEF _get_section_bounds
  <2>9. _get_section_bounds(lines, section) = <<h, t>>
    BY <2>5, <2>6, <2>8
  <2>10. ASSUME NEW k \in h .. t - 1 PROVE SectionAt(lines, k) = section
    <3>1. k \in Nat /\ h \in 1 .. k /\ \A l \in h + 1 .. k : l \in h + 1 .. t - 1
      BY <2>7
    <3>2. InSection(lines, k, section)
      BY <2>1, <2>7, <3>1 DEF InSection
    <3> QED
      BY <3>1, <3>2, SectionIsThe
  <2> QED
    BY <2>7, <2>9, <2>10
<1> QED
  BY <1>5, <1>6
-----------------------------------------------------------------------------
(* What _find_key_block finds. *)
Sums(k, m, lines, i) ==
    k[0] = 0 /\ \A n \in 1 .. m : k[n] = k[n - 1] + lines[i + n - 1].depth

LEMMA DepthSums ==
    ASSUME NEW lines, NEW i \in Nat, NEW j \in Nat, NEW m \in Nat, j - i + 1 = m,
           \A n \in 1 .. m : lines[i + n - 1].depth \in Int
    PROVE  \E k : Sums(k, m, lines, i) /\ DepthTo(lines, i, j) = k[m]
<1> DEFINE Is(f) == f = [n \in 0 .. j - i + 1 |->
                           IF n = 0 THEN 0 ELSE f[n - 1] + lines[i + n - 1].depth]
           step == [v \in (1 .. m) \X Int |-> v[2] + lines[i + v[1] - 1].depth]
<1>1. step \in [(1 .. m) \X Int -> Int]
  <2> SUFFICES ASSUME NEW n \in 1 .. m, NEW x \in Int
               PROVE  x + lines[i + n - 1].depth \in Int
    OBVIOUS
  <2> QED
    OBVIOUS
<1>2. \A n \in 1 .. m, x \in Int : step[<<n, x>>] = x + lines[i + n - 1].depth
  OBVIOUS
<1> HIDE DEF step
<1>3. PICK g : Recurs(g, m, Int, 0, step)
  <2>1. 0 \in Int
    OBVIOUS
  <2> QED
    BY <1>1, <2>1, RecursionIs
<1>4. g \in [0 .. m -> Int] /\ g[0] = 0
  BY <1>3 DEF Recurs
<1>5. ASSUME NEW n \in 1 .. m PROVE g[n] = g[n - 1] + lines[i + n - 1].depth
  <2>1. n - 1 \in 0 .. m
    OBVIOUS
  <2> QED
    BY <1>2, <1>3, <1>4, <2>1 DEF Recurs
<1>6. Is(g)
  <2>1. \A n \in 0 .. m : n # 0 => n \in 1 .. m
    OBVIOUS
  <2>2. g = [n \in 0 .. m |-> g[n]]
    BY <1>4
  <2>3. \A n \in 0 .. m : g[n] = IF n = 0 THEN 0 ELSE g[n - 1] + lines[i + n - 1].depth
    BY <1>4, <1>5, <2>1
  <2> QED
    BY <2>2, <2>3
<1>7. PICK k : k = CHOOSE h : Is(h)
  OBVIOUS
<1>8. Is(k)
  <2> HIDE DEF Is
  <2> QED
    BY <1>6, <1>7
<1>9. DepthTo(lines, i, j) = k[m]
  BY <1>7 DEF DepthTo
<1>10. k[0] = 0
  BY <1>8
<1>11. \A n \in 1 .. m : k[n] = k[n - 1] + lines[i + n - 1].depth
  <2>1. \A n \in 1 .. m : n \in 0 .. j - i + 1 /\ n # 0
    OBVIOUS
  <2> QED
    BY <1>8, <2>1
<1> QED
  BY <1>9, <1>10, <1>11 DEF Sums

LEMMA DepthIs ==
    ASSUME NEW lines, Legal(lines), NEW p, NEW q, Block(lines, p, q), NEW j \in p .. q - 1
    PROVE  DepthTo(lines, p, j) = IF j = q - 1 THEN 0 ELSE 1
<1> DEFINE N == Len(lines)
<1>1. N \in Nat /\ p \in 1 .. N /\ q \in p + 1 .. N + 1
  BY LegalLines, BlockIs
<1>2. \A i \in 1 .. N : lines[i].depth = CASE lines[i].kind = "list" -> 1
                                          [] lines[i].kind = "end" -> -1 [] OTHER -> 0
  BY LegalLines DEF LegalLine
<1>3. \A i \in 1 .. N : lines[i].depth \in Int
  BY <1>2
<1> DEFINE m == j - p + 1
<1>4. m \in Nat \ {0} /\ j - p + 1 = m /\ j \in Nat /\ p \in Nat
  BY <1>1
<1>5. \A n \in 1 .. m : p + n - 1 \in 1 .. N
  BY <1>1
<1> HIDE DEF m, N
<1>6. PICK k : Sums(k, m, lines, p) /\ DepthTo(lines, p, j) = k[m]
  <2>1. \A n \in 1 .. m : lines[p + n - 1].depth \in Int
    BY <1>3, <1>5
  <2>2. m \in Nat
    BY <1>4
  <2> QED
    BY <1>4, <2>1, <2>2, DepthSums
<1>7. /\ k[0] = 0 /\ DepthTo(lines, p, j) = k[m]
      /\ \A n \in 1 .. m : k[n] = k[n - 1] + lines[p + n - 1].depth
  BY <1>6 DEF Sums
<1>8. k[1] = lines[p].depth
  <2>1. 1 \in 1 .. m /\ 1 - 1 = 0 /\ p + 1 - 1 = p /\ p \in 1 .. N
    BY <1>1, <1>4
  <2>2. k[1] = k[1 - 1] + lines[p + 1 - 1].depth
    BY <1>7, <2>1
  <2> QED
    BY <1>3, <1>7, <2>1, <2>2
<1>9. CASE lines[p].kind = "key" /\ q = p + 1
  <2>1. m = 1 /\ j = q - 1
    BY <1>1, <1>4, <1>9
  <2> QED
    BY <1>1, <1>2, <1>7, <1>8, <1>9, <2>1
<1>10. CASE lines[p].kind = "list" /\ q \in Nat /\ Closes(lines, p, q - 1)
  <2> DEFINE T == {n \in Nat : n + 1 <= m /\ n + 1 <= q - 1 - p => k[n + 1] = 1}
  <2>1. T \in SUBSET Nat
    OBVIOUS
  <2>2. 0 \in T
    BY <1>1, <1>2, <1>8, <1>10
  <2>3. ASSUME NEW n \in T PROVE n + 1 \in T
    <3> SUFFICES ASSUME n + 1 + 1 <= m, n + 1 + 1 <= q - 1 - p PROVE k[n + 1 + 1] = 1
      OBVIOUS
    <3>1. k[n + 1] = 1
      BY <1>1, <1>4
    <3>2. PICK a \in 1 .. m : a = n + 1 + 1 /\ a - 1 = n + 1
      BY <1>4
    <3>3. PICK b : b = p + a - 1
      OBVIOUS
    <3>4. b \in p + 1 .. q - 1 - 1 /\ b \in 1 .. N
      BY <1>1, <3>2, <3>3
    <3>5. lines[b].kind \in {"item", "comment"}
      BY <1>10, <3>4 DEF Closes
    <3>6. lines[b].depth = 0
      BY <1>2, <3>4, <3>5
    <3>7. k[a] = k[a - 1] + lines[b].depth
      BY <1>7, <3>2, <3>3
    <3> QED
      BY <3>1, <3>2, <3>6, <3>7
  <2> HIDE DEF T
  <2>4. T = Nat
    BY <2>1, <2>2, <2>3, EveryNat
  <2>5. \A a \in 1 .. m : a <= q - 1 - p => k[a] = 1
    <3> SUFFICES ASSUME NEW a \in 1 .. m, a <= q - 1 - p PROVE k[a] = 1
      OBVIOUS
    <3>1. PICK n \in Nat : n + 1 = a
      <4>1. a - 1 \in Nat /\ (a - 1) + 1 = a
        BY <1>4
      <4> QED
        BY <4>1
    <3>2. n \in T /\ n + 1 <= m /\ n + 1 <= q - 1 - p
      BY <2>4, <3>1, <1>4
    <3> QED
      BY <3>1, <3>2 DEF T
  <2>6. CASE j = q - 1
    <3>1. PICK e : e = q - 1
      OBVIOUS
    <3>2. e \in p + 1 .. N /\ lines[e].kind = "end"
      BY <1>10, <3>1 DEF Closes, N
    <3>3. m - 1 \in 1 .. m /\ m - 1 <= q - 1 - p /\ m \in 1 .. m /\ p + m - 1 = e
      BY <1>1, <1>4, <2>6, <3>1, <3>2
    <3>4. k[m - 1] = 1
      BY <2>5, <3>3
    <3>5. lines[e].depth = -1
      BY <1>1, <1>2, <3>2
    <3>6. k[m] = k[m - 1] + lines[p + m - 1].depth
      BY <1>7, <3>3
    <3> QED
      BY <1>7, <2>6, <3>3, <3>4, <3>5, <3>6
  <2>7. CASE j # q - 1
    <3>1. m \in 1 .. m /\ m <= q - 1 - p
      BY <1>1, <1>4, <2>7
    <3> QED
      BY <1>7, <2>5, <2>7, <3>1
  <2> QED
    BY <2>6, <2>7
<1> QED
  BY <1>9, <1>10 DEF Block

LEMMA Found ==
    ASSUME NEW lines, Legal(lines), NEW p, NEW q, Block(lines, p, q)
    PROVE  _find_key_block(lines, lines[p].name, SectionAt(lines, p)) = <<p, q>>
<1> DEFINE N == Len(lines)
           key == lines[p].name
           section == SectionAt(lines, p)
<1>1. /\ N \in Nat /\ p \in 1 .. N /\ q \in p + 1 .. N + 1 /\ IsKey(lines[p])
      /\ \A k \in p + 1 .. q - 1 : lines[k].kind \in {"item", "comment", "end"}
  BY LegalLines, BlockIs
<1>2. PICK s \in 1 .. p, t \in p + 1 .. N + 1 :
         /\ _get_section_bounds(lines, section) = <<s, t>>
         /\ \A k \in s .. t - 1 : SectionAt(lines, k) = section
         /\ t = N + 1 \/ lines[t].kind = "section"
  BY <1>1, BoundsAre
<1>3. q <= t
  <2> SUFFICES ASSUME t < q PROVE FALSE
    BY <1>1, <1>2
  <2>1. t \in p + 1 .. q - 1 /\ t # N + 1
    BY <1>1
  <2> QED
    BY <1>1, <1>2, <2>1
<1> DEFINE at == {i \in s .. t - 1 : IsKey(lines[i]) /\ lines[i].name = key}
           closed == {j \in p .. t - 1 : DepthTo(lines, p, j) <= 0}
<1>4. p \in at
  BY <1>1, <1>2
<1>5. ASSUME NEW i \in at PROVE i = p
  <2>1. i \in 1 .. N /\ i \in s .. t - 1 /\ IsKey(lines[i]) /\ lines[i].name = lines[p].name
    BY <1>1, <1>2
  <2>2. KeyAt(lines, i) = KeyAt(lines, p)
    BY <1>2, <2>1 DEF KeyAt
  <2> QED
    BY <1>1, <2>1, <2>2 DEF Legal, OneOfEach
<1>6. Min(at) = p
  <2>1. at \in SUBSET Nat
    BY <1>1, <1>2
  <2>2. \A y \in at : p <= y
    <3> HIDE DEF at
    <3> QED
      BY <1>1, <1>5
  <2> HIDE DEF at
  <2> QED
    BY <1>4, <2>1, <2>2, SmallestIsThe
<1>7. \A j \in p .. q - 1 : DepthTo(lines, p, j) = IF j = q - 1 THEN 0 ELSE 1
  BY DepthIs
<1>8. q - 1 \in closed
  <2>1. q - 1 \in p .. t - 1 /\ q - 1 \in p .. q - 1
    BY <1>1, <1>2, <1>3
  <2>2. PICK e : e = q - 1
    OBVIOUS
  <2>3. DepthTo(lines, p, e) = 0
    BY <1>7, <2>1, <2>2
  <2> QED
    BY <2>1, <2>2, <2>3
<1>9. ASSUME NEW j \in closed PROVE q - 1 <= j
  <2> SUFFICES ASSUME ~(q - 1 <= j) PROVE FALSE
    OBVIOUS
  <2>1. j \in p .. q - 1 /\ j # q - 1 /\ DepthTo(lines, p, j) <= 0
    BY <1>1, <1>2
  <2>2. DepthTo(lines, p, j) = 1
    BY <1>7, <2>1
  <2> QED
    BY <2>1, <2>2
<1>10. Min(closed) = q - 1
  <2>1. closed \in SUBSET Nat
    BY <1>1, <1>2
  <2> HIDE DEF closed
  <2> QED
    BY <1>8, <1>9, <2>1, SmallestIsThe
<1>11. (q - 1) + 1 = q
  BY <1>1
<1>12. PICK bounds : bounds = _get_section_bounds(lines, section)
  OBVIOUS
<1>13. bounds = <<s, t>> /\ bounds # <<>> /\ bounds[1] = s /\ bounds[2] = t
  BY <1>2, <1>12
<1>14. /\ {i \in bounds[1] .. bounds[2] - 1 : IsKey(lines[i]) /\ lines[i].name = key} = at
       /\ closed = {j \in p .. bounds[2] - 1 : DepthTo(lines, p, j) <= 0}
  BY <1>13
<1> HIDE DEF at, closed
<1>15. at # {} /\ closed # {}
  BY <1>4, <1>8
<1>16. _find_key_block(lines, key, section) =
         IF bounds = <<>> THEN <<>>
         ELSE IF at = {} THEN <<>>
         ELSE IF {j \in Min(at) .. bounds[2] - 1 : DepthTo(lines, Min(at), j) <= 0} = {}
              THEN <<Min(at), bounds[2]>>
         ELSE <<Min(at), Min({j \in Min(at) .. bounds[2] - 1 :
                                DepthTo(lines, Min(at), j) <= 0}) + 1>>
  BY <1>12, <1>14 DEF _find_key_block
<1> QED
  BY <1>6, <1>10, <1>11, <1>13, <1>14, <1>15, <1>16
-----------------------------------------------------------------------------
(* Two files that differ only in the lines of one key. *)
Differ(lines, more, p, q, r) ==
    /\ lines \in Seq(Line) /\ more \in Seq(Line)
    /\ Block(lines, p, q) /\ Block(more, p, r) /\ lines[p].name = more[p].name
    /\ Len(lines) - q = Len(more) - r
    /\ \A k \in 1 .. p - 1 : more[k] = lines[k]
    /\ \A k \in r .. Len(more) : more[k] = lines[k - r + q]

(* The line of the other file. *)
Shifted(k, p, q, r) == IF k <= p THEN k ELSE k - q + r
Outside(lines, p, q) == {k \in 1 .. Len(lines) : k <= p \/ q <= k}

LEMMA DifferBounds ==
    ASSUME NEW lines, NEW more, NEW p, NEW q, NEW r, Differ(lines, more, p, q, r)
    PROVE  /\ Len(lines) \in Nat /\ Len(more) \in Nat /\ p \in 1 .. Len(lines)
           /\ p \in 1 .. Len(more) /\ q \in p + 1 .. Len(lines) + 1 /\ r \in p + 1 .. Len(more) + 1
           /\ Len(lines) - q = Len(more) - r
<1>1. Len(lines) \in Nat /\ Len(more) \in Nat
  BY LenProperties DEF Differ
<1>2. Block(lines, p, q) /\ Block(more, p, r) /\ Len(lines) - q = Len(more) - r
  BY DEF Differ
<1>3. p \in 1 .. Len(lines) /\ q \in p + 1 .. Len(lines) + 1
  BY <1>1, <1>2, BlockIs
<1>4. p \in 1 .. Len(more) /\ r \in p + 1 .. Len(more) + 1
  BY <1>1, <1>2, BlockIs
<1> QED
  BY <1>1, <1>2, <1>3, <1>4

LEMMA DifferBack ==
    ASSUME NEW lines, NEW more, NEW p, NEW q, NEW r, Differ(lines, more, p, q, r)
    PROVE  Differ(more, lines, p, r, q)
<1>1. /\ Len(lines) \in Nat /\ Len(more) \in Nat /\ p \in 1 .. Len(lines)
      /\ p \in 1 .. Len(more) /\ q \in p + 1 .. Len(lines) + 1 /\ r \in p + 1 .. Len(more) + 1
      /\ Len(lines) - q = Len(more) - r
  BY DifferBounds
<1>2. ASSUME NEW k \in q .. Len(lines) PROVE lines[k] = more[k - q + r]
  <2>1. PICK l \in r .. Len(more) : l = k - q + r /\ l - r + q = k
    <3>1. k - q + r \in r .. Len(more) /\ (k - q + r) - r + q = k
      BY <1>1
    <3> QED
      BY <3>1
  <2> QED
    BY <2>1 DEF Differ
<1>3. Len(more) - r = Len(lines) - q
  BY <1>1
<1> QED
  BY <1>2, <1>3 DEF Differ

LEMMA MovedIs ==
    ASSUME NEW lines, NEW more, NEW p, NEW q, NEW r, Differ(lines, more, p, q, r),
           NEW k \in Outside(lines, p, q)
    PROVE  /\ Shifted(k, p, q, r) \in Outside(more, p, r)
           /\ Shifted(Shifted(k, p, q, r), p, r, q) = k
           /\ k # p => more[Shifted(k, p, q, r)] = lines[k]
           /\ Shifted(k, p, q, r) = p <=> k = p
           /\ k < p <=> Shifted(k, p, q, r) < p
<1>1. /\ Len(lines) \in Nat /\ Len(more) \in Nat /\ p \in 1 .. Len(lines)
      /\ p \in 1 .. Len(more) /\ q \in p + 1 .. Len(lines) + 1 /\ r \in p + 1 .. Len(more) + 1
      /\ Len(lines) - q = Len(more) - r
  BY DifferBounds
<1>2. CASE k <= p
  <2>1. Shifted(k, p, q, r) = k /\ Shifted(k, p, r, q) = k
    BY <1>2 DEF Shifted
  <2>2. k \in Outside(more, p, r)
    BY <1>1, <1>2 DEF Outside
  <2>3. k # p => k \in 1 .. p - 1
    BY <1>1, <1>2 DEF Outside
  <2> QED
    BY <2>1, <2>2, <2>3 DEF Differ
<1>3. CASE ~(k <= p)
  <2>1. k \in q .. Len(lines) /\ p < k
    BY <1>1, <1>3 DEF Outside
  <2>2. PICK l : l = k - q + r
    OBVIOUS
  <2>3. l \in r .. Len(more) /\ l - r + q = k /\ ~(l <= p) /\ l # p /\ ~(l < p)
    BY <1>1, <2>1, <2>2
  <2>4. Shifted(k, p, q, r) = l /\ Shifted(l, p, r, q) = k
    BY <1>3, <2>2, <2>3 DEF Shifted
  <2>5. more[l] = lines[k]
    BY <2>3 DEF Differ
  <2>6. l \in Outside(more, p, r)
    BY <1>1, <2>3 DEF Outside
  <2> QED
    BY <1>1, <2>1, <2>3, <2>4, <2>5, <2>6
<1> QED
  BY <1>2, <1>3

LEMMA MovedKeepsOrder ==
    ASSUME NEW lines, NEW more, NEW p, NEW q, NEW r, Differ(lines, more, p, q, r),
           NEW k \in Outside(lines, p, q), NEW l \in Outside(lines, p, q)
    PROVE  k <= l <=> Shifted(k, p, q, r) <= Shifted(l, p, q, r)
<1>1. /\ Len(lines) \in Nat /\ Len(more) \in Nat /\ p \in 1 .. Len(lines)
      /\ p \in 1 .. Len(more) /\ q \in p + 1 .. Len(lines) + 1 /\ r \in p + 1 .. Len(more) + 1
  BY DifferBounds
<1> QED
  BY <1>1 DEF Shifted, Outside

(* What a key or a header is, it is in both. *)
LEMMA HeadsAreOutside ==
    ASSUME NEW lines, Len(lines) \in Nat, NEW p, NEW q, Block(lines, p, q),
           NEW k \in 1 .. Len(lines), IsKey(lines[k]) \/ lines[k].kind = "section"
    PROVE  k \in Outside(lines, p, q)
<1>1. /\ p \in 1 .. Len(lines) /\ q \in p + 1 .. Len(lines) + 1
      /\ \A l \in p + 1 .. q - 1 : lines[l].kind \in {"item", "comment", "end"}
  BY BlockIs
<1>2. k \notin p + 1 .. q - 1
  BY <1>1 DEF IsKey
<1> QED
  BY <1>1, <1>2 DEF Outside

LEMMA SameSection ==
    ASSUME NEW lines, NEW more, NEW p, NEW q, NEW r, Differ(lines, more, p, q, r),
           NEW k \in Outside(lines, p, q)
    PROVE  SectionAt(more, Shifted(k, p, q, r)) = SectionAt(lines, k)
<1>1. /\ Len(lines) \in Nat /\ Len(more) \in Nat /\ Differ(more, lines, p, r, q)
      /\ Block(lines, p, q) /\ Block(more, p, r)
  BY DifferBounds, DifferBack DEF Differ
<1>2. PICK kk : kk = Shifted(k, p, q, r)
  OBVIOUS
<1>3. kk \in Outside(more, p, r) /\ k \in 1 .. Len(lines) /\ kk \in 1 .. Len(more)
      /\ Shifted(kk, p, r, q) = k
  BY <1>2, MovedIs DEF Outside
<1>4. ~(lines[p].kind = "section") /\ ~(more[p].kind = "section")
  BY <1>1 DEF Block
<1>5. ASSUME NEW ll \in 1 .. kk, more[ll].kind = "section"
      PROVE  /\ Shifted(ll, p, r, q) \in 1 .. k /\ lines[Shifted(ll, p, r, q)] = more[ll]
             /\ ll \in Outside(more, p, r)
  <2>1. ll \in Outside(more, p, r) /\ ll # p
    <3>1. ll \in 1 .. Len(more)
      BY <1>1, <1>3
    <3> QED
      BY <1>1, <1>4, <1>5, <3>1, HeadsAreOutside
  <2>2. PICK l : l = Shifted(ll, p, r, q)
    OBVIOUS
  <2>3. l \in Outside(lines, p, q) /\ lines[l] = more[ll]
    BY <1>1, <2>1, <2>2, MovedIs
  <2>4. l <= k
    BY <1>1, <1>3, <2>1, <2>2, MovedKeepsOrder
  <2>5. l \in 1 .. k
    BY <1>3, <2>3, <2>4 DEF Outside
  <2> QED
    BY <2>1, <2>2, <2>3, <2>5
<1>6. InSection(lines, k, SectionAt(lines, k))
  BY <1>3, SectionIs
<1>7. PICK s : s = SectionAt(lines, k)
  OBVIOUS
<1>8. CASE s = "" /\ \A l \in 1 .. k : lines[l].kind # "section"
  <2>1. \A ll \in 1 .. kk : more[ll].kind # "section"
    <3> SUFFICES ASSUME NEW ll \in 1 .. kk, more[ll].kind = "section" PROVE FALSE
      OBVIOUS
    <3>1. Shifted(ll, p, r, q) \in 1 .. k /\ lines[Shifted(ll, p, r, q)] = more[ll]
      BY <1>5
    <3> QED
      BY <1>8, <3>1
  <2>2. InSection(more, kk, s)
    BY <1>8, <2>1 DEF InSection
  <2> QED
    BY <1>2, <1>3, <1>7, <2>2, SectionIsThe
<1>9. CASE \E h \in 1 .. k :
             /\ lines[h].kind = "section" /\ s = lines[h].name
             /\ \A l \in h + 1 .. k : lines[l].kind # "section"
  <2>1. PICK h \in 1 .. k :
             /\ lines[h].kind = "section" /\ s = lines[h].name
             /\ \A l \in h + 1 .. k : lines[l].kind # "section"
    BY <1>9
  <2>2. h \in Outside(lines, p, q) /\ h # p
    <3>1. h \in 1 .. Len(lines)
      BY <1>1, <1>3
    <3> QED
      BY <1>1, <1>4, <2>1, <3>1, HeadsAreOutside
  <2>3. PICK hh : hh = Shifted(h, p, q, r)
    OBVIOUS
  <2>4. hh \in Outside(more, p, r) /\ more[hh] = lines[h] /\ Shifted(hh, p, r, q) = h
    BY <2>2, <2>3, MovedIs
  <2>5. hh <= kk
    BY <1>2, <1>3, <2>1, <2>2, <2>3, MovedKeepsOrder
  <2>6. hh \in 1 .. kk
    BY <1>3, <2>4, <2>5 DEF Outside
  <2>7. ASSUME NEW ll \in hh + 1 .. kk, more[ll].kind = "section" PROVE FALSE
    <3>1. ll \in 1 .. kk /\ ~(ll <= hh)
      BY <1>3, <2>6
    <3>2. PICK l : l = Shifted(ll, p, r, q)
      OBVIOUS
    <3>3. l \in 1 .. k /\ lines[l] = more[ll] /\ ll \in Outside(more, p, r)
      BY <1>5, <2>7, <3>1, <3>2
    <3>4. ~(l <= h)
      BY <1>1, <2>4, <3>1, <3>2, <3>3, MovedKeepsOrder
    <3>5. l \in h + 1 .. k
      BY <1>3, <2>1, <3>3, <3>4
    <3> QED
      BY <2>1, <2>7, <3>3, <3>5
  <2>8. InSection(more, kk, s)
    BY <2>1, <2>4, <2>6, <2>7 DEF InSection
  <2> QED
    BY <1>2, <1>3, <1>7, <2>8, SectionIsThe
<1> QED
  BY <1>6, <1>7, <1>8, <1>9 DEF InSection
-----------------------------------------------------------------------------
(* Keys, sections and their order are the same in both. *)
LEMMA SameHead ==
    ASSUME NEW lines, NEW more, NEW p, NEW q, NEW r, Differ(lines, more, p, q, r),
           NEW k \in 1 .. Len(lines), IsKey(lines[k]) \/ lines[k].kind = "section"
    PROVE  /\ k \in Outside(lines, p, q)
           /\ Shifted(k, p, q, r) \in Outside(more, p, r) /\ Shifted(k, p, q, r) \in 1 .. Len(more)
           /\ IsKey(more[Shifted(k, p, q, r)]) <=> IsKey(lines[k])
           /\ more[Shifted(k, p, q, r)].kind = "section" <=> lines[k].kind = "section"
           /\ more[Shifted(k, p, q, r)].name = lines[k].name
           /\ KeyAt(more, Shifted(k, p, q, r)) = KeyAt(lines, k)
<1>1. /\ Len(lines) \in Nat /\ Len(more) \in Nat
      /\ Block(lines, p, q) /\ Block(more, p, r) /\ lines[p].name = more[p].name
  BY DifferBounds DEF Differ
<1>2. k \in Outside(lines, p, q)
  BY <1>1, HeadsAreOutside
<1>3. PICK m : m = Shifted(k, p, q, r)
  OBVIOUS
<1>4. /\ m \in Outside(more, p, r) /\ (k # p => more[m] = lines[k])
      /\ (m = p <=> k = p)
  BY <1>2, <1>3, MovedIs
<1>5. SectionAt(more, m) = SectionAt(lines, k)
  BY <1>2, <1>3, SameSection
<1>6. /\ IsKey(lines[p]) /\ IsKey(more[p])
      /\ lines[p].kind # "section" /\ more[p].kind # "section"
  BY <1>1 DEF Block, IsKey
<1>7. /\ IsKey(more[m]) <=> IsKey(lines[k])
      /\ more[m].kind = "section" <=> lines[k].kind = "section"
      /\ more[m].name = lines[k].name
  BY <1>1, <1>4, <1>6
<1>8. KeyAt(more, m) = KeyAt(lines, k)
  BY <1>5, <1>7 DEF KeyAt
<1> QED
  BY <1>2, <1>3, <1>4, <1>7, <1>8 DEF Outside

LEMMA KeysKept ==
    ASSUME NEW lines, NEW more, NEW p, NEW q, NEW r, Differ(lines, more, p, q, r)
    PROVE  KeysOf(lines) \subseteq KeysOf(more)
<1> SUFFICES ASSUME NEW k \in KeyLines(lines) PROVE KeyAt(lines, k) \in KeysOf(more)
  BY DEF KeysOf
<1>1. k \in 1 .. Len(lines) /\ IsKey(lines[k])
  BY DEF KeyLines
<1>2. PICK m : m = Shifted(k, p, q, r)
  OBVIOUS
<1>3. m \in 1 .. Len(more) /\ IsKey(more[m]) /\ KeyAt(more, m) = KeyAt(lines, k)
  BY <1>1, <1>2, SameHead
<1> QED
  BY <1>3 DEF KeysOf, KeyLines

LEMMA SameKeys ==
    ASSUME NEW lines, NEW more, NEW p, NEW q, NEW r, Differ(lines, more, p, q, r)
    PROVE  KeysOf(more) = KeysOf(lines)
<1>1. Differ(more, lines, p, r, q)
  BY DifferBack
<1>2. KeysOf(lines) \subseteq KeysOf(more)
  BY KeysKept
<1>3. KeysOf(more) \subseteq KeysOf(lines)
  BY <1>1, KeysKept
<1> QED
  BY <1>2, <1>3

LEMMA OrderKept ==
    ASSUME NEW lines, NEW more, NEW p, NEW q, NEW r, Differ(lines, more, p, q, r)
    PROVE  Order(lines) \subseteq Order(more)
<1> DEFINE Heads(l) == {i \in 1 .. Len(l) : IsKey(l[i]) \/ l[i].kind = "section"}
<1>1. \A l : Order(l) = {<<KeyAt(l, x[1]), KeyAt(l, x[2])>> :
                           x \in {pair \in Heads(l) \X Heads(l) : pair[1] <= pair[2]}}
  BY DEF Order
<1>2. ASSUME NEW k \in Heads(lines)
      PROVE  /\ k \in Outside(lines, p, q) /\ Shifted(k, p, q, r) \in Heads(more)
             /\ KeyAt(more, Shifted(k, p, q, r)) = KeyAt(lines, k)
  <2>1. k \in 1 .. Len(lines) /\ (IsKey(lines[k]) \/ lines[k].kind = "section")
    OBVIOUS
  <2>2. PICK m : m = Shifted(k, p, q, r)
    OBVIOUS
  <2>3. /\ k \in Outside(lines, p, q) /\ m \in 1 .. Len(more)
        /\ IsKey(more[m]) <=> IsKey(lines[k])
        /\ more[m].kind = "section" <=> lines[k].kind = "section"
        /\ KeyAt(more, m) = KeyAt(lines, k)
    BY <2>1, <2>2, SameHead
  <2> QED
    BY <2>1, <2>2, <2>3
<1> HIDE DEF Heads
<1> SUFFICES ASSUME NEW i \in Heads(lines), NEW j \in Heads(lines), i <= j
             PROVE  <<KeyAt(lines, i), KeyAt(lines, j)>> \in Order(more)
  BY <1>1
<1>3. PICK ii : ii = Shifted(i, p, q, r)
  OBVIOUS
<1>4. PICK jj : jj = Shifted(j, p, q, r)
  OBVIOUS
<1>5. /\ ii \in Heads(more) /\ jj \in Heads(more)
      /\ KeyAt(more, ii) = KeyAt(lines, i) /\ KeyAt(more, jj) = KeyAt(lines, j)
  BY <1>2, <1>3, <1>4
<1>6. ii <= jj
  BY <1>2, <1>3, <1>4, MovedKeepsOrder
<1>7. <<ii, jj>> \in {pair \in Heads(more) \X Heads(more) : pair[1] <= pair[2]}
  BY <1>5, <1>6
<1> QED
  BY <1>1, <1>5, <1>7

LEMMA SameOrder ==
    ASSUME NEW lines, NEW more, NEW p, NEW q, NEW r, Differ(lines, more, p, q, r)
    PROVE  Order(more) = Order(lines)
<1>1. Differ(more, lines, p, r, q)
  BY DifferBack
<1>2. Order(lines) \subseteq Order(more)
  BY OrderKept
<1>3. Order(more) \subseteq Order(lines)
  BY <1>1, OrderKept
<1> QED
  BY <1>2, <1>3
-----------------------------------------------------------------------------
(* Every other list is closed where it was, and has its items. *)
LEMMA ClosesMoved ==
    ASSUME NEW lines, NEW more, NEW p, NEW q, NEW r, Differ(lines, more, p, q, r),
           NEW i \in 1 .. Len(lines), i # p, lines[i].kind = "list",
           NEW e, Closes(lines, i, e)
    PROVE  /\ e \in Outside(lines, p, q) /\ e # p
           /\ Closes(more, Shifted(i, p, q, r), Shifted(e, p, q, r))
           /\ Shifted(e, p, q, r) - Shifted(i, p, q, r) = e - i
           /\ \A k \in i .. e : /\ k \in Outside(lines, p, q) /\ k # p
                                /\ Shifted(k, p, q, r) = k - i + Shifted(i, p, q, r)
<1>1. /\ Len(lines) \in Nat /\ Len(more) \in Nat /\ p \in 1 .. Len(lines)
      /\ p \in 1 .. Len(more) /\ q \in p + 1 .. Len(lines) + 1 /\ r \in p + 1 .. Len(more) + 1
      /\ Len(lines) - q = Len(more) - r
  BY DifferBounds
<1>2. Block(lines, p, q)
  BY DEF Differ
<1>3. i \in Outside(lines, p, q)
  BY <1>1, <1>2, HeadsAreOutside DEF IsKey
<1>4. /\ e \in i + 1 .. Len(lines) /\ lines[e].kind = "end"
      /\ \A k \in i + 1 .. e - 1 : lines[k].kind \in {"item", "comment"}
  BY DEF Closes
<1>5. p \notin i .. e
  <2> SUFFICES ASSUME p \in i .. e PROVE FALSE
    OBVIOUS
  <2>1. p = e \/ p \in i + 1 .. e - 1
    BY <1>1, <1>4
  <2>2. lines[p].kind \in {"item", "comment", "end"}
    BY <1>4, <2>1
  <2> QED
    BY <1>2, <2>2 DEF Block
<1>6. e < p \/ q <= i
  BY <1>1, <1>3, <1>4, <1>5 DEF Outside
<1>7. PICK ii \in Int : ii = Shifted(i, p, q, r)
  <2>1. Shifted(i, p, q, r) \in Outside(more, p, r)
    BY <1>3, MovedIs
  <2> QED
    BY <1>1, <2>1 DEF Outside
<1>8. ASSUME NEW k \in i .. e
      PROVE  /\ k \in Outside(lines, p, q) /\ k # p
             /\ Shifted(k, p, q, r) = k - i + ii
  <2>1. k \in Outside(lines, p, q) /\ k # p
    BY <1>1, <1>4, <1>5, <1>6 DEF Outside
  <2>2. CASE e < p
    <3>1. Shifted(k, p, q, r) = k /\ ii = i
      BY <1>1, <1>4, <1>7, <2>2 DEF Shifted
    <3> QED
      BY <2>1, <3>1
  <2>3. CASE q <= i
    <3>1. Shifted(k, p, q, r) = k - q + r /\ ii = i - q + r
      BY <1>1, <1>4, <1>7, <2>3 DEF Shifted
    <3>2. k - q + r = k - i + (i - q + r)
      BY <1>1
    <3> QED
      BY <2>1, <3>1, <3>2
  <2> QED
    BY <1>6, <2>2, <2>3
<1>9. PICK ee : ee = Shifted(e, p, q, r)
  OBVIOUS
<1>10. e \in i .. e
  BY <1>4
<1>11. e \in Outside(lines, p, q) /\ e # p /\ ee = e - i + ii
  BY <1>8, <1>9, <1>10
<1>12. ee - ii = e - i
  BY <1>4, <1>11
<1>13. ee \in 1 .. Len(more) /\ more[ee] = lines[e]
  <2>1. Shifted(e, p, q, r) \in Outside(more, p, r) /\ more[Shifted(e, p, q, r)] = lines[e]
    BY <1>11, MovedIs
  <2> QED
    BY <1>9, <2>1 DEF Outside
<1>14. ee \in ii + 1 .. Len(more) /\ more[ee].kind = "end"
  BY <1>4, <1>12, <1>13
<1>15. ASSUME NEW kk \in ii + 1 .. ee - 1 PROVE more[kk].kind \in {"item", "comment"}
  <2>1. PICK k \in i + 1 .. e - 1 : kk = k - i + ii
    <3>1. kk - ii + i \in i + 1 .. e - 1 /\ kk = (kk - ii + i) - i + ii
      BY <1>1, <1>4, <1>12, <1>13
    <3> QED
      BY <3>1
  <2>2. k \in i .. e
    BY <1>4
  <2>3. k \in Outside(lines, p, q) /\ k # p /\ Shifted(k, p, q, r) = kk
    BY <1>8, <2>1, <2>2
  <2>4. more[kk] = lines[k]
    BY <2>3, MovedIs
  <2> QED
    BY <1>4, <2>4
<1>16. Closes(more, ii, ee)
  BY <1>14, <1>15 DEF Closes
<1> QED
  BY <1>7, <1>8, <1>9, <1>11, <1>12, <1>16

LEMMA SameValue ==
    ASSUME NEW lines, NEW more, NEW p, NEW q, NEW r, Differ(lines, more, p, q, r),
           Legal(lines), NEW i \in KeyLines(lines), i # p
    PROVE  ValueAt(more, Shifted(i, p, q, r)) = ValueAt(lines, i)
<1>1. /\ Len(lines) \in Nat /\ Len(more) \in Nat /\ more \in Seq(Line) /\ lines \in Seq(Line)
      /\ i \in 1 .. Len(lines) /\ IsKey(lines[i]) /\ Block(lines, p, q)
  BY DifferBounds DEF Differ, KeyLines
<1>2. i \in Outside(lines, p, q)
  BY <1>1, HeadsAreOutside
<1>3. PICK ii : ii = Shifted(i, p, q, r)
  OBVIOUS
<1>4. ii \in 1 .. Len(more) /\ more[ii] = lines[i]
  BY <1>2, <1>3, MovedIs DEF Outside
<1>5. CASE lines[i].kind = "key"
  BY <1>3, <1>4, <1>5 DEF ValueAt
<1>6. CASE lines[i].kind = "list"
  <2>1. PICK e \in 1 .. Len(lines) : Closes(lines, i, e)
    BY <1>1, <1>6 DEF Legal
  <2>2. PICK ee : ee = Shifted(e, p, q, r)
    OBVIOUS
  <2>3. /\ Closes(more, ii, ee) /\ ee - ii = e - i
        /\ \A k \in i .. e : k \in Outside(lines, p, q) /\ k # p /\ Shifted(k, p, q, r) = k - i + ii
    BY <1>1, <1>3, <1>6, <2>1, <2>2, ClosesMoved
  <2>4. EndOfList(lines, i) = e /\ EndOfList(more, ii) = ee
    BY <1>1, <1>4, <2>1, <2>3, ClosesIs
  <2>5. i <= e /\ e <= Len(lines) /\ ii <= ee /\ ee <= Len(more) /\ e \in Nat /\ ee \in Nat
    <3>1. e \in i + 1 .. Len(lines) /\ ee \in ii + 1 .. Len(more)
      BY <2>1, <2>3 DEF Closes
    <3>2. Len(lines) \in Nat /\ Len(more) \in Nat /\ i \in Nat /\ ii \in Nat
      BY <1>1, <1>4
    <3> QED
      BY <3>1, <3>2
  <2> DEFINE s == SubSeq(lines, i, e)
             t == SubSeq(more, ii, ee)
  <2>6. s \in Seq(Line) /\ Len(s) = e - i + 1 /\ \A n \in 1 .. e - i + 1 : s[n] = lines[i + n - 1]
    BY <1>1, <2>5, PartOf
  <2>7. t \in Seq(Line) /\ Len(t) = ee - ii + 1
        /\ \A n \in 1 .. ee - ii + 1 : t[n] = more[ii + n - 1]
    BY <1>1, <1>4, <2>5, PartOf
  <2>8. Len(s) = Len(t)
    BY <2>3, <2>6, <2>7
  <2>9. ASSUME NEW n \in 1 .. Len(s) PROVE s[n] = t[n]
    <3>1. n \in 1 .. e - i + 1 /\ n \in 1 .. ee - ii + 1
      BY <2>3, <2>6
    <3>2. PICK k \in i .. e : k = i + n - 1
      BY <1>1, <2>5, <3>1
    <3>3. k - i + ii = ii + n - 1
      BY <1>1, <1>4, <3>2
    <3>4. more[k - i + ii] = lines[k]
      BY <2>3, MovedIs
    <3> QED
      BY <2>6, <2>7, <3>1, <3>2, <3>3, <3>4
  <2> HIDE DEF s, t
  <2>10. s = t
    BY <2>6, <2>7, <2>8, <2>9, SeqEqual
  <2> QED
    BY <1>3, <1>4, <1>6, <2>4, <2>10 DEF ValueAt, s, t
<1> QED
  BY <1>1, <1>5, <1>6 DEF IsKey
-----------------------------------------------------------------------------
(* The file is legal again and differs in the value of the key only. *)
LEMMA CommentsKept ==
    ASSUME NEW lines, NEW more, NEW p, NEW q, NEW r, Differ(lines, more, p, q, r),
           Legal(lines)
    PROVE  Comments(lines) \subseteq Comments(more)
<1> DEFINE Free(f, k) == \A l \in 1 .. k : f[l].kind = "list" => EndOfList(f, l) < k
<1>1. \A f : Comments(f) = {f[i] : i \in {k \in 1 .. Len(f) : f[k].kind = "comment" /\ Free(f, k)}}
  BY DEF Comments
<1> SUFFICES ASSUME NEW k \in 1 .. Len(lines), lines[k].kind = "comment", Free(lines, k)
             PROVE  lines[k] \in Comments(more)
  <2> HIDE DEF Free
  <2> QED
    BY <1>1
<1>2. /\ Len(lines) \in Nat /\ Len(more) \in Nat /\ p \in 1 .. Len(lines)
      /\ p \in 1 .. Len(more) /\ q \in p + 1 .. Len(lines) + 1 /\ r \in p + 1 .. Len(more) + 1
      /\ Block(lines, p, q) /\ Block(more, p, r) /\ Differ(more, lines, p, r, q)
  BY DifferBounds, DifferBack DEF Differ
<1>3. k # p
  BY <1>2 DEF Block
<1>4. k \in Outside(lines, p, q)
  <2> SUFFICES ASSUME k \in p + 1 .. q - 1 PROVE FALSE
    BY <1>2, <1>3 DEF Outside
  <2>1. lines[p].kind = "list"
    BY <1>2 DEF Block
  <2>2. EndOfList(lines, p) = q - 1
    BY <1>2, <2>1, BlockIs
  <2>3. p \in 1 .. k
    BY <1>2
  <2>4. EndOfList(lines, p) < k
    BY <2>1, <2>3
  <2> QED
    BY <1>2, <2>2, <2>4
<1>5. PICK kk : kk = Shifted(k, p, q, r)
  OBVIOUS
<1>6. kk \in Outside(more, p, r) /\ more[kk] = lines[k] /\ kk # p
  BY <1>3, <1>4, <1>5, MovedIs
<1>7. kk \in 1 .. Len(more) /\ (kk < p \/ r <= kk)
  BY <1>2, <1>6 DEF Outside
<1>8. ASSUME NEW ll \in 1 .. kk, more[ll].kind = "list" PROVE EndOfList(more, ll) < kk
  <2>1. ll \in 1 .. Len(more) /\ IsKey(more[ll])
    BY <1>2, <1>7, <1>8 DEF IsKey
  <2>2. ll \in Outside(more, p, r)
    BY <1>2, <2>1, HeadsAreOutside
  <2>3. CASE ll = p
    <3>1. EndOfList(more, p) = r - 1
      BY <1>2, <1>8, <2>3, BlockIs
    <3> QED
      BY <1>2, <1>7, <2>1, <2>3, <3>1
  <2>4. CASE ll # p
    <3>1. PICK l : l = Shifted(ll, p, r, q)
      OBVIOUS
    <3>2. /\ l \in Outside(lines, p, q) /\ l # p /\ lines[l] = more[ll]
          /\ Shifted(l, p, q, r) = ll
      BY <1>2, <2>2, <2>4, <3>1, MovedIs
    <3>3. l <= k
      BY <1>4, <1>5, <1>7, <3>2, MovedKeepsOrder
    <3>4. l \in 1 .. k /\ l \in 1 .. Len(lines)
      BY <1>2, <3>2, <3>3 DEF Outside
    <3>5. EndOfList(lines, l) < k
      BY <1>8, <3>2, <3>4
    <3>6. PICK e \in 1 .. Len(lines) : Closes(lines, l, e)
      BY <1>8, <3>2, <3>4 DEF Legal
    <3>7. e < k
      BY <1>2, <3>4, <3>5, <3>6, ClosesIs
    <3>8. PICK ee : ee = Shifted(e, p, q, r)
      OBVIOUS
    <3>9. e \in Outside(lines, p, q) /\ Closes(more, ll, ee)
      BY <1>8, <3>2, <3>4, <3>6, <3>8, ClosesMoved
    <3>10. EndOfList(more, ll) = ee /\ ee \in Int
      <4>1. ee \in ll + 1 .. Len(more)
        BY <3>9 DEF Closes
      <4>2. EndOfList(more, ll) = ee
        BY <1>2, <2>1, <3>9, ClosesIs
      <4> QED
        BY <1>2, <2>1, <4>1, <4>2
    <3>11. ~(kk <= ee)
      BY <1>4, <1>5, <3>7, <3>8, <3>9, MovedKeepsOrder
    <3> QED
      BY <1>7, <3>10, <3>11
  <2> QED
    BY <2>3, <2>4
<1>9. Free(more, kk)
  BY <1>8
<1> HIDE DEF Free
<1> QED
  BY <1>1, <1>6, <1>7, <1>9

LEMMA LegalKept ==
    ASSUME NEW lines, NEW more, NEW p, NEW q, NEW r, Differ(lines, more, p, q, r),
           Legal(lines), \A k \in p .. r - 1 : LegalLine(more[k])
    PROVE  Legal(more)
<1>1. /\ Len(lines) \in Nat /\ Len(more) \in Nat /\ p \in 1 .. Len(lines)
      /\ p \in 1 .. Len(more) /\ q \in p + 1 .. Len(lines) + 1 /\ r \in p + 1 .. Len(more) + 1
      /\ Block(lines, p, q) /\ Block(more, p, r) /\ Differ(more, lines, p, r, q)
  BY DifferBounds, DifferBack DEF Differ
<1>2. ASSUME NEW i \in 1 .. Len(more) PROVE LegalLine(more[i])
  <2>1. CASE i \in p .. r - 1
    BY <2>1
  <2>2. CASE i \notin p .. r - 1
    <3>1. i \in Outside(more, p, r) /\ i # p
      BY <1>1, <2>2 DEF Outside
    <3>2. PICK l : l = Shifted(i, p, r, q)
      OBVIOUS
    <3>3. l \in Outside(lines, p, q) /\ lines[l] = more[i]
      BY <1>1, <3>1, <3>2, MovedIs
    <3> QED
      BY <3>3, LegalLines DEF Outside
  <2> QED
    BY <2>1, <2>2
<1>3. ASSUME NEW i \in 1 .. Len(more), more[i].kind = "list"
      PROVE  \E e \in 1 .. Len(more) : Closes(more, i, e)
  <2>1. i \in Outside(more, p, r)
    BY <1>1, <1>3, HeadsAreOutside DEF IsKey
  <2>2. CASE i = p
    <3>1. Closes(more, p, r - 1)
      BY <1>1, <1>3, <2>2 DEF Block
    <3>2. r - 1 \in 1 .. Len(more)
      BY <1>1
    <3> QED
      BY <2>2, <3>1, <3>2
  <2>3. CASE i # p
    <3>1. PICK l : l = Shifted(i, p, r, q)
      OBVIOUS
    <3>2. l \in Outside(lines, p, q) /\ l # p /\ lines[l] = more[i] /\ Shifted(l, p, q, r) = i
      BY <1>1, <2>1, <2>3, <3>1, MovedIs
    <3>3. l \in 1 .. Len(lines)
      BY <3>2 DEF Outside
    <3>4. PICK e \in 1 .. Len(lines) : Closes(lines, l, e)
      BY <1>3, <3>2, <3>3 DEF Legal
    <3>5. PICK ee : ee = Shifted(e, p, q, r)
      OBVIOUS
    <3>6. Closes(more, i, ee)
      BY <1>3, <3>2, <3>3, <3>4, <3>5, ClosesMoved
    <3>7. ee \in 1 .. Len(more)
      BY <1>1, <3>6 DEF Closes
    <3> QED
      BY <3>6, <3>7
  <2> QED
    BY <2>2, <2>3
<1>4. ASSUME NEW i \in 1 .. Len(more), NEW j \in 1 .. Len(more),
             \/ /\ more[i].kind = "section" /\ more[j].kind = "section"
                /\ more[i].name = more[j].name
             \/ IsKey(more[i]) /\ IsKey(more[j]) /\ KeyAt(more, i) = KeyAt(more, j)
      PROVE  i = j
  <2>1. PICK ii : ii = Shifted(i, p, r, q)
    OBVIOUS
  <2>2. PICK jj : jj = Shifted(j, p, r, q)
    OBVIOUS
  <2>3. /\ i \in Outside(more, p, r) /\ ii \in 1 .. Len(lines)
        /\ IsKey(lines[ii]) <=> IsKey(more[i])
        /\ lines[ii].kind = "section" <=> more[i].kind = "section"
        /\ lines[ii].name = more[i].name /\ KeyAt(lines, ii) = KeyAt(more, i)
    BY <1>1, <1>4, <2>1, SameHead
  <2>4. /\ j \in Outside(more, p, r) /\ jj \in 1 .. Len(lines)
        /\ IsKey(lines[jj]) <=> IsKey(more[j])
        /\ lines[jj].kind = "section" <=> more[j].kind = "section"
        /\ lines[jj].name = more[j].name /\ KeyAt(lines, jj) = KeyAt(more, j)
    BY <1>1, <1>4, <2>2, SameHead
  <2>5. ii = jj
    BY <1>4, <2>3, <2>4 DEF Legal, OneOfEach
  <2>6. Shifted(ii, p, q, r) = i
    BY <1>1, <2>1, <2>3, MovedIs
  <2>7. Shifted(jj, p, q, r) = j
    BY <1>1, <2>2, <2>4, MovedIs
  <2> QED
    BY <2>5, <2>6, <2>7
<1>5. OneOfEach(more)
  BY <1>4 DEF OneOfEach
<1>6. more \in Seq(Line)
  BY DEF Differ
<1> QED
  BY <1>2, <1>3, <1>5, <1>6 DEF Legal

LEMMA ReadIs ==
    ASSUME NEW lines, Legal(lines), NEW i \in KeyLines(lines)
    PROVE  /\ KeyAt(lines, i) \in KeysOf(lines)
           /\ read_toml_file(lines)[KeyAt(lines, i)] = ValueAt(lines, i)
<1>1. i \in 1 .. Len(lines) /\ IsKey(lines[i]) /\ KeyAt(lines, i) \in KeysOf(lines)
  BY DEF KeyLines, KeysOf
<1>2. PICK j : j = CHOOSE k \in KeyLines(lines) : KeyAt(lines, k) = KeyAt(lines, i)
  OBVIOUS
<1>3. j \in KeyLines(lines) /\ KeyAt(lines, j) = KeyAt(lines, i)
  BY <1>2
<1>4. j = i
  BY <1>1, <1>3 DEF Legal, OneOfEach, KeyLines
<1> QED
  BY <1>1, <1>2, <1>4 DEF read_toml_file

(* Only the value of a key becomes another. *)
Changed(lines, more, key, value) ==
    /\ Legal(more) /\ KeysOf(more) = KeysOf(lines)
    /\ Order(more) = Order(lines) /\ Comments(more) = Comments(lines)
    /\ read_toml_file(more)[key] = value
    /\ \A other \in KeysOf(lines) :
         other # key => read_toml_file(more)[other] = read_toml_file(lines)[other]

LEMMA DifferInOneKey ==
    ASSUME NEW lines, NEW more, NEW p, NEW q, NEW r, Differ(lines, more, p, q, r),
           Legal(lines), \A k \in p .. r - 1 : LegalLine(more[k])
    PROVE  Changed(lines, more, KeyAt(lines, p), ValueAt(more, p))
<1>1. Legal(more) /\ Differ(more, lines, p, r, q)
  BY LegalKept, DifferBack
<1>2. KeysOf(more) = KeysOf(lines)
  BY SameKeys
<1>3. Order(more) = Order(lines)
  BY SameOrder
<1>4. Comments(more) = Comments(lines)
  <2>1. Comments(lines) \subseteq Comments(more)
    BY CommentsKept
  <2>2. Comments(more) \subseteq Comments(lines)
    BY <1>1, CommentsKept
  <2> QED
    BY <2>1, <2>2
<1>5. p \in 1 .. Len(lines) /\ IsKey(lines[p]) /\ p \in 1 .. Len(more) /\ IsKey(more[p])
  BY DifferBounds DEF Differ, Block, IsKey
<1>6. KeyAt(more, p) = KeyAt(lines, p)
  <2>1. Shifted(p, p, q, r) = p
    BY <1>5 DEF Shifted
  <2> QED
    BY <1>5, <2>1, SameHead
<1>7. read_toml_file(more)[KeyAt(lines, p)] = ValueAt(more, p)
  BY <1>1, <1>5, <1>6, ReadIs DEF KeyLines
<1>8. ASSUME NEW other \in KeysOf(lines), other # KeyAt(lines, p)
      PROVE  read_toml_file(more)[other] = read_toml_file(lines)[other]
  <2>1. PICK i \in KeyLines(lines) : other = KeyAt(lines, i)
    BY DEF KeysOf
  <2>2. i # p /\ i \in 1 .. Len(lines) /\ IsKey(lines[i])
    BY <1>8, <2>1 DEF KeyLines
  <2>3. PICK ii : ii = Shifted(i, p, q, r)
    OBVIOUS
  <2>4. ii \in 1 .. Len(more) /\ IsKey(more[ii]) /\ KeyAt(more, ii) = KeyAt(lines, i)
    BY <2>2, <2>3, SameHead
  <2>5. ii \in KeyLines(more)
    BY <2>4 DEF KeyLines
  <2>6. ValueAt(more, ii) = ValueAt(lines, i)
    BY <2>1, <2>2, <2>3, SameValue
  <2>7. read_toml_file(lines)[other] = ValueAt(lines, i)
    BY <2>1, ReadIs
  <2>8. read_toml_file(more)[KeyAt(more, ii)] = ValueAt(more, ii)
    BY <1>1, <2>5, ReadIs
  <2> QED
    BY <2>1, <2>4, <2>6, <2>7, <2>8
<1> QED
  BY <1>1, <1>2, <1>3, <1>4, <1>7, <1>8 DEF Changed
-----------------------------------------------------------------------------
(* The lines of a key replaced by others. *)
Splices(lines, more, p, q, r, new) ==
    /\ more \in Seq(Line) /\ Len(more) - r = Len(lines) - q
    /\ \A k \in 1 .. p - 1 : more[k] = lines[k]
    /\ \A k \in 1 .. Len(new) : more[p + k - 1] = new[k]
    /\ \A k \in r .. Len(more) : more[k] = lines[k - r + q]

LEMMA SplicedIs ==
    ASSUME NEW lines \in Seq(Line), NEW new \in Seq(Line), NEW p \in 1 .. Len(lines),
           NEW q \in p + 1 .. Len(lines) + 1
    PROVE  Splices(lines, Spliced(lines, <<p, q>>, new), p, q, p + Len(new), new)
<1>0. PICK more : more = Spliced(lines, <<p, q>>, new)
  OBVIOUS
<1> DEFINE N == Len(lines)
           m == Len(new)
           r == p + Len(new)
           A == SubSeq(lines, 1, p - 1)
           B == SubSeq(lines, q, N)
<1>1. N \in Nat /\ m \in Nat
  BY LenProperties
<1>2. /\ A \in Seq(Line) /\ Len(A) = p - 1
      /\ \A k \in 1 .. p - 1 : A[k] = lines[k]
  <2>1. \A i \in 1 .. p - 1 : lines[i] \in Line
    BY <1>1, ElementOfSeq
  <2>2. p - 1 \in Int /\ 1 \in Int /\ (p - 1) - 1 + 1 = p - 1
    BY <1>1
  <2>3. /\ A \in Seq(Line) /\ Len(A) = IF 1 <= p - 1 THEN (p - 1) - 1 + 1 ELSE 0
        /\ \A i \in 1 .. (p - 1) - 1 + 1 : A[i] = lines[1 + i - 1]
    BY <2>1, <2>2, SubSeqProperties
  <2>4. \A k \in 1 .. p - 1 : 1 + k - 1 = k
    BY <1>1
  <2> QED
    BY <1>1, <2>2, <2>3, <2>4
<1>3. /\ B \in Seq(Line) /\ Len(B) = N - q + 1
      /\ \A k \in 1 .. N - q + 1 : B[k] = lines[q + k - 1]
  <2>1. \A i \in q .. N : lines[i] \in Line
    BY <1>1, ElementOfSeq
  <2>2. q \in Int /\ N \in Int
    BY <1>1
  <2>3. /\ B \in Seq(Line) /\ Len(B) = IF q <= N THEN N - q + 1 ELSE 0
        /\ \A i \in 1 .. N - q + 1 : B[i] = lines[q + i - 1]
    BY <2>1, <2>2, SubSeqProperties
  <2> QED
    <3>1. (IF q <= N THEN N - q + 1 ELSE 0) = N - q + 1
      BY <1>1
    <3> HIDE DEF B, N
    <3> QED
      BY <2>3, <3>1
<1>4. more = (A \o new) \o B
  BY <1>0 DEF Spliced
<1> HIDE DEF A, B
<1> DEFINE C == A \o new
<1>5. /\ C \in Seq(Line) /\ Len(C) = p - 1 + m
      /\ \A k \in 1 .. p - 1 + m : C[k] = IF k <= p - 1 THEN A[k] ELSE new[k - (p - 1)]
  <2>1. /\ C \in Seq(Line) /\ Len(C) = Len(A) + Len(new)
        /\ \A k \in 1 .. Len(A) + Len(new) : C[k] = IF k <= Len(A) THEN A[k] ELSE new[k - Len(A)]
    BY <1>2, ConcatProperties
  <2> HIDE DEF C
  <2> QED
    BY <1>2, <2>1
<1> HIDE DEF C
<1>6. /\ more \in Seq(Line) /\ Len(more) = p - 1 + m + (N - q + 1)
      /\ \A k \in 1 .. p - 1 + m + (N - q + 1) :
            more[k] = IF k <= p - 1 + m THEN C[k] ELSE B[k - (p - 1 + m)]
  <2>1. more = C \o B
    BY <1>4 DEF C
  <2>2. /\ more \in Seq(Line) /\ Len(more) = Len(C) + Len(B)
        /\ \A k \in 1 .. Len(C) + Len(B) : more[k] = IF k <= Len(C) THEN C[k] ELSE B[k - Len(C)]
    BY <1>3, <1>5, <2>1, ConcatProperties
  <2> QED
    BY <1>3, <1>5, <2>2
<1> HIDE DEF m, N
<1>7. ASSUME NEW k \in 1 .. p - 1 PROVE more[k] = lines[k]
  <2>1. /\ k \in 1 .. p - 1 + m + (N - q + 1) /\ k <= p - 1 + m /\ k \in 1 .. p - 1 + m
        /\ k <= p - 1
    BY <1>1 DEF N
  <2> QED
    BY <1>2, <1>5, <1>6, <2>1
<1>8. ASSUME NEW k \in 1 .. m PROVE more[p + k - 1] = new[k]
  <2>1. PICK l : l = p + k - 1
    OBVIOUS
  <2>2. /\ l \in 1 .. p - 1 + m + (N - q + 1) /\ l <= p - 1 + m /\ l \in 1 .. p - 1 + m
        /\ ~(l <= p - 1) /\ l - (p - 1) = k
    BY <1>1, <2>1 DEF N
  <2> QED
    BY <1>5, <1>6, <2>1, <2>2
<1>9. ASSUME NEW k \in r .. Len(more) PROVE more[k] = lines[k - r + q]
  <2>1. PICK l : l = k - (p - 1 + m)
    OBVIOUS
  <2>2. /\ k \in 1 .. p - 1 + m + (N - q + 1) /\ ~(k <= p - 1 + m)
        /\ l \in 1 .. N - q + 1 /\ q + l - 1 = k - r + q
    BY <1>1, <1>6, <2>1 DEF N, m
  <2>3. more[k] = B[l]
    BY <1>6, <2>1, <2>2
  <2>4. B[l] = lines[q + l - 1]
    BY <1>3, <2>2
  <2> QED
    BY <2>2, <2>3, <2>4
<1>10. Len(more) - r = N - q
  BY <1>1, <1>6 DEF m, N
<1>11. Splices(lines, more, p, q, r, new)
  BY <1>6, <1>7, <1>8, <1>9, <1>10 DEF m, N, Splices
<1> QED
  BY <1>0, <1>11

(* Lines that are those of one key. *)
KeyBlock(new, name, value) ==
    /\ new \in Seq(Line) /\ Block(new, 1, Len(new) + 1) /\ new[1].name = name
    /\ \A k \in 1 .. Len(new) : LegalLine(new[k])
    /\ ValueAt(new, 1) = value

LEMMA SplicedDiffers ==
    ASSUME NEW lines, Legal(lines), NEW p, NEW q, Block(lines, p, q),
           NEW new, NEW value, KeyBlock(new, lines[p].name, value)
    PROVE  Changed(lines, Spliced(lines, <<p, q>>, new), KeyAt(lines, p), value)
<1>0. /\ new \in Seq(Line) /\ Block(new, 1, Len(new) + 1) /\ new[1].name = lines[p].name
      /\ \A k \in 1 .. Len(new) : LegalLine(new[k])
      /\ ValueAt(new, 1) = value
  BY DEF KeyBlock
<1> DEFINE N == Len(lines)
           m == Len(new)
<1>1. /\ lines \in Seq(Line) /\ N \in Nat /\ m \in Nat /\ p \in 1 .. N /\ q \in p + 1 .. N + 1
      /\ 1 \in 1 .. m
  BY <1>0, LegalLines, BlockIs, LenProperties DEF Legal, Block
<1>2. PICK more : more = Spliced(lines, <<p, q>>, new)
  OBVIOUS
<1>3. PICK r \in Nat : r = p + m
  BY <1>1
<1>4. /\ more \in Seq(Line) /\ Len(more) - r = N - q
      /\ \A k \in 1 .. p - 1 : more[k] = lines[k]
      /\ \A k \in 1 .. m : more[p + k - 1] = new[k]
      /\ \A k \in r .. Len(more) : more[k] = lines[k - r + q]
  <2>1. Splices(lines, more, p, q, r, new)
    BY <1>0, <1>1, <1>2, <1>3, SplicedIs
  <2> QED
    BY <2>1 DEF Splices
<1>5. Len(more) \in Nat
  BY <1>4, LenProperties
<1>6. /\ p \in 1 .. Len(more) /\ r - 1 \in 1 .. Len(more) /\ r - 1 >= p
      /\ r - 1 \in p .. r - 1 /\ (r - 1) - p + 1 = m
      /\ m >= 2 => r - 1 \in p + 1 .. Len(more)
  BY <1>1, <1>3, <1>4, <1>5
<1>7. ASSUME NEW k \in p .. r - 1 PROVE more[k] = new[k - p + 1] /\ k - p + 1 \in 1 .. m
  <2>1. PICK l : l = k - p + 1
    OBVIOUS
  <2>2. l \in 1 .. m /\ p + l - 1 = k
    BY <1>1, <1>3, <2>1
  <2> QED
    BY <1>4, <2>1, <2>2
<1>8. more[p] = new[1]
  <2>1. p + 1 - 1 = p
    BY <1>1
  <2> QED
    BY <1>1, <1>4, <2>1
<1>9. Block(more, p, r)
  <2>1. CASE new[1].kind = "key" /\ m + 1 = 1 + 1
    <3>1. r = p + 1
      BY <1>1, <1>3, <2>1
    <3> QED
      BY <1>6, <1>8, <2>1, <3>1 DEF Block
  <2>2. CASE new[1].kind = "list" /\ Closes(new, 1, m + 1 - 1)
    <3>1. m + 1 - 1 = m
      BY <1>1
    <3>2. /\ m \in 1 + 1 .. m /\ new[m].kind = "end"
          /\ \A k \in 1 + 1 .. m - 1 : new[k].kind \in {"item", "comment"}
      BY <2>2, <3>1 DEF Closes
    <3>3. r - 1 \in p .. r - 1 /\ (r - 1) - p + 1 = m /\ r - 1 \in p + 1 .. Len(more)
      <4>1. m >= 2
        BY <1>1, <3>2
      <4> QED
        BY <1>6, <4>1
    <3>4. more[r - 1].kind = "end"
      BY <1>7, <3>2, <3>3
    <3>5. ASSUME NEW k \in p + 1 .. r - 1 - 1 PROVE more[k].kind \in {"item", "comment"}
      <4>1. k \in p .. r - 1 /\ k - p + 1 \in 1 + 1 .. m - 1
        BY <1>1, <1>3
      <4> QED
        BY <1>7, <3>2, <4>1
    <3>6. Closes(more, p, r - 1)
      BY <3>3, <3>4, <3>5 DEF Closes
    <3> QED
      BY <1>3, <1>6, <1>8, <2>2, <3>6 DEF Block
  <2> QED
    BY <1>0, <2>1, <2>2 DEF Block
<1>10. Differ(lines, more, p, q, r)
  <2>1. Len(lines) - q = Len(more) - r
    BY <1>4
  <2> QED
    BY <1>0, <1>1, <1>4, <1>8, <1>9, <2>1 DEF Differ
<1>11. \A k \in p .. r - 1 : LegalLine(more[k])
  BY <1>0, <1>7
<1>12. Changed(lines, more, KeyAt(lines, p), ValueAt(more, p))
  BY <1>10, <1>11, DifferInOneKey
<1>13. ValueAt(more, p) = ValueAt(new, 1)
  <2>1. CASE new[1].kind = "key"
    BY <1>8, <2>1 DEF ValueAt
  <2>2. CASE new[1].kind # "key"
    <3>1. more[p].kind = "list" /\ new[1].kind = "list" /\ more[p].kind # "key"
      BY <1>0, <1>8, <2>2 DEF Block
    <3>2. EndOfList(more, p) = r - 1
      BY <1>5, <1>9, <3>1, BlockIs
    <3>3. EndOfList(new, 1) = m
      <4>1. (m + 1) - 1 = m
        BY <1>1
      <4> QED
        BY <1>0, <1>1, <3>1, <4>1, BlockIs
    <3>4. SubSeq(new, 1, m) = new
      BY <1>0, SubSeqFull
    <3>5. SubSeq(more, p, r - 1) = new
      <4>1. PICK e \in Nat : e = r - 1 /\ e - p + 1 = m /\ p <= e /\ e <= Len(more)
        <5>1. r - 1 \in Nat /\ p <= r - 1 /\ r - 1 <= Len(more) /\ (r - 1) - p + 1 = m
          BY <1>1, <1>3, <1>5, <1>6
        <5> HIDE DEF m
        <5> QED
          BY <5>1
      <4> DEFINE s == SubSeq(more, p, e)
      <4>2. s \in Seq(Line) /\ Len(s) = e - p + 1
            /\ \A i \in 1 .. e - p + 1 : s[i] = more[p + i - 1]
        <5>1. p \in Nat \ {0} /\ p <= e /\ e <= Len(more)
          BY <1>1, <4>1
        <5>2. more \in Seq(Line)
          BY <1>4
        <5> QED
          BY <5>1, <5>2, PartOf
      <4> HIDE DEF s
      <4>3. Len(s) = Len(new) /\ \A i \in 1 .. Len(s) : s[i] = new[i]
        BY <1>4, <4>1, <4>2
      <4>4. s = new
        BY <1>0, <4>2, <4>3, SeqEqual
      <4> QED
        BY <4>1, <4>4 DEF s
    <3> QED
      BY <2>2, <3>1, <3>2, <3>3, <3>4, <3>5 DEF ValueAt
  <2> QED
    BY <2>1, <2>2
<1> QED
  BY <1>0, <1>2, <1>12, <1>13
-----------------------------------------------------------------------------
(* Sequences that are functions, and of one element. *)
LEMMA FunctionIsSeq ==
    ASSUME NEW S, NEW n \in Nat, NEW f \in [1 .. n -> S]
    PROVE  f \in Seq(S) /\ Len(f) = n
<1>1. f \in Seq(S)
  BY SeqDef
<1>2. DOMAIN f = 1 .. n /\ DOMAIN f = 1 .. Len(f) /\ Len(f) \in Nat
  BY <1>1, LenProperties
<1>3. Len(f) = n
  BY <1>2
<1> QED
  BY <1>1, <1>3

LEMMA OneIs ==
    ASSUME NEW S, NEW x \in S
    PROVE  <<x>> \in Seq(S) /\ Len(<<x>>) = 1 /\ <<x>>[1] = x
  OBVIOUS

(* The items of a list, and the values of keys. *)
Items(k, block) ==
    /\ k \in [0 .. Len(block) -> Seq(TomlTexts)] /\ k[0] = <<>>
    /\ \A n \in 1 .. Len(block) :
         k[n] = IF block[n].kind = "item" THEN Append(k[n - 1], block[n].value) ELSE k[n - 1]

LEMMA ItemsAre ==
    ASSUME NEW block \in Seq(Line)
    PROVE  \E k : Items(k, block) /\ ItemsOf(block) = k[Len(block)]
<1> DEFINE m == Len(block)
           S == Seq(TomlTexts)
           Is(f) == f = [n \in 0 .. Len(block) |->
                           IF n = 0 THEN <<>>
                           ELSE IF block[n].kind = "item" THEN Append(f[n - 1], block[n].value)
                           ELSE f[n - 1]]
           step == [v \in (1 .. m) \X S |->
                      IF block[v[1]].kind = "item" THEN Append(v[2], block[v[1]].value) ELSE v[2]]
<1>1. m \in Nat /\ \A n \in 1 .. m : block[n] \in Line
  BY LenProperties, ElementOfSeq
<1>2. \A n \in 1 .. m : block[n].value \in TomlTexts
  BY <1>1 DEF Line
<1>3. step \in [(1 .. m) \X S -> S]
  <2> SUFFICES ASSUME NEW n \in 1 .. m, NEW x \in S
               PROVE  (IF block[n].kind = "item" THEN Append(x, block[n].value) ELSE x) \in S
    OBVIOUS
  <2> QED
    BY <1>2, AppendProperties
<1>4. \A n \in 1 .. m, x \in S :
         step[<<n, x>>] = IF block[n].kind = "item" THEN Append(x, block[n].value) ELSE x
  OBVIOUS
<1>5. <<>> \in S
  BY EmptySeq
<1> HIDE DEF step, S
<1>6. PICK g : Recurs(g, m, S, <<>>, step)
  BY <1>1, <1>3, <1>5, RecursionIs
<1>7. g \in [0 .. m -> S] /\ g[0] = <<>>
  BY <1>6 DEF Recurs
<1>8. ASSUME NEW n \in 1 .. m
      PROVE  g[n] = IF block[n].kind = "item" THEN Append(g[n - 1], block[n].value) ELSE g[n - 1]
  <2>1. n - 1 \in 0 .. m
    BY <1>1
  <2> QED
    BY <1>4, <1>6, <1>7, <2>1 DEF Recurs
<1>9. Is(g)
  <2>1. \A n \in 0 .. m : n # 0 => n \in 1 .. m
    BY <1>1
  <2>2. g = [n \in 0 .. m |-> g[n]]
    BY <1>7
  <2>3. \A n \in 0 .. m : g[n] = IF n = 0 THEN <<>>
                                 ELSE IF block[n].kind = "item" THEN Append(g[n - 1], block[n].value)
                                 ELSE g[n - 1]
    BY <1>7, <1>8, <2>1
  <2> QED
    BY <2>2, <2>3
<1>10. PICK k : k = CHOOSE h : Is(h)
  OBVIOUS
<1>11. Is(k)
  <2> HIDE DEF Is
  <2> QED
    BY <1>9, <1>10
<1>12. ItemsOf(block) = k[m]
  BY <1>10 DEF ItemsOf
<1>13. k[0] = <<>>
  BY <1>1, <1>11
<1>14. \A n \in 1 .. m :
         k[n] = IF block[n].kind = "item" THEN Append(k[n - 1], block[n].value) ELSE k[n - 1]
  <2>1. \A n \in 1 .. m : n \in 0 .. m /\ n # 0
    BY <1>1
  <2> QED
    BY <1>11, <2>1
<1>15. \A n \in Nat : n <= m => k[n] \in Seq(TomlTexts)
  <2> DEFINE T == {n \in Nat : n <= m => k[n] \in Seq(TomlTexts)}
  <2>1. 0 \in T /\ T \in SUBSET Nat
    BY <1>5, <1>13 DEF S
  <2>2. ASSUME NEW n \in T PROVE n + 1 \in T
    <3> SUFFICES ASSUME n + 1 <= m PROVE k[n + 1] \in Seq(TomlTexts)
      OBVIOUS
    <3>1. k[n] \in Seq(TomlTexts)
      BY <1>1
    <3>2. PICK a \in 1 .. m : a = n + 1 /\ a - 1 = n
      BY <1>1
    <3>3. k[a] = IF block[a].kind = "item" THEN Append(k[n], block[a].value) ELSE k[n]
      BY <1>14, <3>2
    <3>4. Append(k[n], block[a].value) \in Seq(TomlTexts)
      BY <1>2, <3>1, AppendProperties
    <3> QED
      BY <3>1, <3>2, <3>3, <3>4
  <2> HIDE DEF T
  <2>3. T = Nat
    BY <2>1, <2>2, EveryNat
  <2> QED
    BY <2>3 DEF T
<1>16. k \in [0 .. m -> Seq(TomlTexts)]
  <2>1. DOMAIN k = 0 .. m /\ k = [n \in 0 .. m |-> k[n]]
    BY <1>11
  <2>2. \A n \in 0 .. m : n \in Nat /\ n <= m
    BY <1>1
  <2> QED
    BY <1>15, <2>1, <2>2
<1>17. Items(k, block)
  BY <1>13, <1>14, <1>16 DEF Items
<1> QED
  BY <1>12, <1>17

LEMMA ItemsType ==
    ASSUME NEW block \in Seq(Line)
    PROVE  ItemsOf(block) \in Seq(TomlTexts)
<1>1. PICK k : Items(k, block) /\ ItemsOf(block) = k[Len(block)]
  BY ItemsAre
<1>2. Len(block) \in 0 .. Len(block)
  <2>1. Len(block) \in Nat
    BY LenProperties
  <2> QED
    BY <2>1
<1> QED
  BY <1>1, <1>2 DEF Items

(* A value as tomllib reads it. *)
TomlValue(value) ==
    /\ value \in Seq(TomlTexts) /\ value # <<>>
    /\ ~IsList(value) => Len(value) = 1

LEMMA ListValueIs ==
    ASSUME NEW items \in Seq(TomlTexts)
    PROVE  TomlValue(<<"list">> \o items) /\ IsList(<<"list">> \o items)
<1>1. /\ <<"list">> \o items \in Seq(TomlTexts)
      /\ Len(<<"list">> \o items) = Len(<<"list">>) + Len(items)
      /\ \A i \in 1 .. Len(<<"list">>) + Len(items) : (<<"list">> \o items)[i] =
            IF i <= Len(<<"list">>) THEN <<"list">>[i] ELSE items[i - Len(<<"list">>)]
  <2>1. <<"list">> \in Seq(TomlTexts)
    <3>1. "list" \in TomlTexts
      BY TomlAssumption
    <3> QED
      BY <3>1, OneIs
  <2> QED
    BY <2>1, ConcatProperties
<1>2. Len(<<"list">>) = 1 /\ <<"list">>[1] = "list" /\ Len(items) \in Nat
  BY LenProperties
<1>3. PICK v : v = <<"list">> \o items
  OBVIOUS
<1>4. v \in Seq(TomlTexts) /\ Len(v) = 1 + Len(items) /\ v[1] = "list"
  BY <1>1, <1>2, <1>3
<1>5. v # <<>>
  BY <1>2, <1>4, EmptySeq
<1> QED
  BY <1>3, <1>4, <1>5 DEF TomlValue, IsList

LEMMA ValueIs ==
    ASSUME NEW lines, Legal(lines), NEW i \in KeyLines(lines)
    PROVE  TomlValue(ValueAt(lines, i)) /\ (IsList(ValueAt(lines, i)) <=> lines[i].kind = "list")
<1>1. /\ i \in 1 .. Len(lines) /\ IsKey(lines[i]) /\ lines[i] \in Line /\ LegalLine(lines[i])
      /\ lines \in Seq(Line) /\ Len(lines) \in Nat
  BY LegalLines DEF KeyLines, Legal
<1>2. CASE lines[i].kind = "key"
  <2>1. PICK v : v = lines[i].value
    OBVIOUS
  <2>2. v \in TomlTexts /\ v # "list"
    BY <1>1, <1>2, <2>1 DEF Line, LegalLine
  <2>3. ValueAt(lines, i) = <<v>>
    BY <1>2, <2>1 DEF ValueAt
  <2>4. <<v>> \in Seq(TomlTexts) /\ <<v>> # <<>> /\ Len(<<v>>) = 1 /\ <<v>>[1] = v
    BY <2>2
  <2> QED
    BY <1>2, <2>2, <2>3, <2>4 DEF TomlValue, IsList
<1>3. CASE lines[i].kind = "list"
  <2>1. PICK e \in 1 .. Len(lines) : Closes(lines, i, e)
    BY <1>1, <1>3 DEF Legal
  <2>2. EndOfList(lines, i) = e
    BY <1>1, <2>1, ClosesIs
  <2>3. e \in i .. Len(lines)
    BY <1>1, <2>1 DEF Closes
  <2>4. SubSeq(lines, i, e) \in Seq(Line)
    BY <1>1, <2>3, PartOf
  <2>5. ItemsOf(SubSeq(lines, i, e)) \in Seq(TomlTexts)
    BY <2>4, ItemsType
  <2>6. ValueAt(lines, i) = <<"list">> \o ItemsOf(SubSeq(lines, i, e))
    BY <1>3, <2>2 DEF ValueAt
  <2> QED
    BY <1>3, <2>5, <2>6, ListValueIs
<1> QED
  BY <1>1, <1>2, <1>3 DEF IsKey

(* The lines that changes_dict's list becomes. *)
LEMMA ListBlockIs ==
    ASSUME NEW key \in TomlTexts, NEW value, TomlValue(value), IsList(value)
    PROVE  KeyBlock(ListBlock(key, value), key, value)
<1> DEFINE L == Len(value)
<1>1. value \in Seq(TomlTexts) /\ L \in Nat \ {0} /\ value[1] = "list"
  BY EmptySeq DEF TomlValue, IsList
<1>2. \A i \in 1 .. L : value[i] \in TomlTexts
  BY <1>1, ElementOfSeq
<1> DEFINE mid == [i \in 1 .. L - 1 |-> Item(value[i + 1])]
<1>3. /\ ListKey(key) \in Line /\ ListEnd \in Line
      /\ \A v \in TomlTexts : Item(v) \in Line
  <2>1. "" \in TomlTexts /\ {"list", "end", "item"} \subseteq Kinds
    BY TomlAssumption DEF Kinds
  <2>2. ListKey(key) \in Line
    BY <2>1 DEF ListKey, Line
  <2>3. ListEnd \in Line
    BY <2>1 DEF ListEnd, Line
  <2>4. ASSUME NEW v \in TomlTexts PROVE Item(v) \in Line
    BY <2>1 DEF Item, Line
  <2> QED
    BY <2>2, <2>3, <2>4
<1>4. ASSUME NEW i \in 1 .. L - 1 PROVE i + 1 \in 1 .. L /\ Item(value[i + 1]) \in Line
  <2>1. i + 1 \in 1 .. L
    BY <1>1
  <2>2. value[i + 1] \in TomlTexts
    BY <1>2, <2>1
  <2> QED
    BY <1>3, <2>1, <2>2
<1>5. mid \in Seq(Line) /\ Len(mid) = L - 1 /\ \A i \in 1 .. L - 1 : mid[i] = Item(value[i + 1])
  <2>1. L - 1 \in Nat
    BY <1>1
  <2>2. mid \in [1 .. L - 1 -> Line]
    BY <1>4
  <2> QED
    BY <2>1, <2>2, FunctionIsSeq
<1> HIDE DEF mid, L
<1> DEFINE a == <<ListKey(key)>>
           c == <<ListEnd>>
           b == (a \o mid) \o c
<1>6. a \in Seq(Line) /\ Len(a) = 1 /\ a[1] = ListKey(key)
      /\ c \in Seq(Line) /\ Len(c) = 1 /\ c[1] = ListEnd
  BY <1>3, OneIs
<1> HIDE DEF a, c
<1> DEFINE d == a \o mid
<1>7. /\ d \in Seq(Line) /\ Len(d) = L
      /\ \A k \in 1 .. L : d[k] = IF k <= 1 THEN a[k] ELSE mid[k - 1]
  <2>1. /\ d \in Seq(Line) /\ Len(d) = Len(a) + Len(mid)
        /\ \A k \in 1 .. Len(a) + Len(mid) : d[k] = IF k <= Len(a) THEN a[k] ELSE mid[k - Len(a)]
    BY <1>5, <1>6, ConcatProperties
  <2>2. Len(a) + Len(mid) = L
    BY <1>1, <1>5, <1>6
  <2> HIDE DEF d
  <2> QED
    BY <1>6, <2>1, <2>2
<1> HIDE DEF d
<1>8. /\ b \in Seq(Line) /\ Len(b) = L + 1
      /\ \A k \in 1 .. L + 1 : b[k] = IF k <= L THEN d[k] ELSE c[k - L]
  <2>1. /\ d \o c \in Seq(Line) /\ Len(d \o c) = Len(d) + Len(c)
        /\ \A k \in 1 .. Len(d) + Len(c) : (d \o c)[k] = IF k <= Len(d) THEN d[k] ELSE c[k - Len(d)]
    BY <1>6, <1>7, ConcatProperties
  <2>2. b = d \o c
    BY DEF d
  <2> HIDE DEF b
  <2> QED
    BY <1>6, <1>7, <2>1, <2>2
<1>9. ListBlock(key, value) = b
  BY DEF ListBlock, b, a, mid, c, L
<1> HIDE DEF b
<1>10. b[1] = ListKey(key)
  BY <1>1, <1>6, <1>7, <1>8
<1>11. \A k \in 2 .. L : b[k] = Item(value[k])
  <2> SUFFICES ASSUME NEW k \in 2 .. L PROVE b[k] = Item(value[k])
    OBVIOUS
  <2>1. PICK j \in 1 .. L - 1 : j = k - 1 /\ j + 1 = k
    BY <1>1
  <2>2. k \in 1 .. L + 1 /\ k <= L /\ k \in 1 .. L /\ ~(k <= 1)
    BY <1>1
  <2>3. b[k] = mid[j]
    BY <1>7, <1>8, <2>1, <2>2
  <2> QED
    BY <1>5, <2>1, <2>3
<1>12. b[L + 1] = ListEnd
  <2>1. L + 1 \in 1 .. L + 1 /\ ~(L + 1 <= L) /\ (L + 1) - L = 1
    BY <1>1
  <2> QED
    BY <1>6, <1>8, <2>1
<1>13. /\ ListKey(key).kind = "list" /\ ListKey(key).name = key /\ LegalLine(ListKey(key))
       /\ ListEnd.kind = "end" /\ LegalLine(ListEnd)
       /\ \A v : Item(v).kind = "item" /\ Item(v).value = v /\ LegalLine(Item(v))
  BY DEF ListKey, ListEnd, Item, LegalLine
<1>14. \A k \in 1 .. L + 1 : k = 1 \/ k \in 2 .. L \/ k = L + 1
  BY <1>1
<1>15. \A k \in 1 .. L + 1 : LegalLine(b[k])
  BY <1>10, <1>11, <1>12, <1>13, <1>14
<1>16. Closes(b, 1, L + 1)
  <2>1. L + 1 \in 1 + 1 .. Len(b)
    BY <1>1, <1>8
  <2>2. \A k \in 1 + 1 .. (L + 1) - 1 : k \in 2 .. L
    BY <1>1
  <2> QED
    BY <1>11, <1>12, <1>13, <2>1, <2>2 DEF Closes
<1>17. Block(b, 1, Len(b) + 1)
  <2>1. Len(b) + 1 \in Nat /\ (Len(b) + 1) - 1 = L + 1 /\ 1 \in 1 .. Len(b)
    BY <1>1, <1>8
  <2> QED
    BY <1>10, <1>13, <1>16, <2>1 DEF Block
<1>18. ValueAt(b, 1) = <<"list">> \o ItemsOf(b)
  <2>1. EndOfList(b, 1) = L + 1
    <3>1. Len(b) \in Nat
      BY <1>1, <1>8
    <3> QED
      BY <1>16, <3>1, ClosesIs
  <2>2. SubSeq(b, 1, L + 1) = b
    BY <1>8, SubSeqFull
  <2> QED
    BY <1>10, <1>13, <2>1, <2>2 DEF ValueAt
<1>19. PICK k : Items(k, b) /\ ItemsOf(b) = k[L + 1]
  BY <1>8, ItemsAre
<1>20. /\ k \in [0 .. L + 1 -> Seq(TomlTexts)] /\ k[0] = <<>>
       /\ \A n \in 1 .. L + 1 :
            k[n] = IF b[n].kind = "item" THEN Append(k[n - 1], b[n].value) ELSE k[n - 1]
  BY <1>8, <1>19 DEF Items
<1> DEFINE T == {n \in Nat : n + 1 <= L =>
                   Len(k[n + 1]) = n /\ \A i \in 1 .. n : k[n + 1][i] = value[i + 1]}
<1>21. T \in SUBSET Nat
  OBVIOUS
<1>22. 0 \in T
  <2>1. 1 \in 1 .. L + 1 /\ 1 - 1 = 0
    BY <1>1
  <2>2. k[1] = k[0]
    BY <1>10, <1>13, <1>20, <2>1
  <2>3. Len(k[1]) = 0
    BY <1>20, <2>2, EmptySeq
  <2> QED
    BY <2>3
<1>23. ASSUME NEW n \in T PROVE n + 1 \in T
  <2> SUFFICES ASSUME n + 1 + 1 <= L
               PROVE  Len(k[n + 1 + 1]) = n + 1 /\ \A i \in 1 .. n + 1 : k[n + 1 + 1][i] = value[i + 1]
    OBVIOUS
  <2>1. Len(k[n + 1]) = n /\ \A i \in 1 .. n : k[n + 1][i] = value[i + 1]
    BY <1>1
  <2>2. PICK x \in 2 .. L : x = n + 1 + 1 /\ x - 1 = n + 1
    BY <1>1
  <2>3. x \in 1 .. L + 1 /\ x - 1 \in 0 .. L + 1 /\ x \in 1 .. L
    BY <1>1
  <2>4. b[x].kind = "item" /\ b[x].value = value[x] /\ value[x] \in TomlTexts
    BY <1>2, <1>11, <1>13, <2>3 DEF L
  <2>5. k[x - 1] \in Seq(TomlTexts) /\ k[x] = Append(k[x - 1], value[x])
    BY <1>20, <2>3, <2>4
  <2>6. PICK y : y = k[x - 1]
    OBVIOUS
  <2>7. /\ Len(Append(y, value[x])) = Len(y) + 1
        /\ \A i \in 1 .. Len(y) : Append(y, value[x])[i] = y[i]
        /\ Append(y, value[x])[Len(y) + 1] = value[x]
    BY <2>4, <2>5, <2>6, AppendProperties
  <2>8. Len(y) = n /\ \A i \in 1 .. n : y[i] = value[i + 1]
    BY <2>1, <2>2, <2>6
  <2>9. PICK z : z = k[x]
    OBVIOUS
  <2>10. Len(z) = n + 1 /\ (\A i \in 1 .. n : z[i] = value[i + 1]) /\ z[n + 1] = value[n + 1 + 1]
    BY <2>2, <2>5, <2>6, <2>7, <2>8, <2>9
  <2>11. \A i \in 1 .. n + 1 : i = n + 1 \/ i \in 1 .. n
    OBVIOUS
  <2> QED
    BY <2>2, <2>9, <2>10, <2>11
<1> HIDE DEF T
<1>24. T = Nat
  BY <1>21, <1>22, <1>23, EveryNat
<1>25. PICK n \in Nat : n + 1 = L
  <2>1. L - 1 \in Nat /\ (L - 1) + 1 = L
    BY <1>1
  <2> QED
    BY <2>1
<1>26. Len(k[L]) = n /\ \A i \in 1 .. n : k[L][i] = value[i + 1]
  <2>1. n \in T /\ n + 1 <= L
    BY <1>24, <1>25, <1>1
  <2> QED
    BY <1>25, <2>1 DEF T
<1>27. k[L + 1] = k[L] /\ k[L] \in Seq(TomlTexts)
  <2>1. L + 1 \in 1 .. L + 1 /\ (L + 1) - 1 = L /\ L \in 0 .. L + 1
    BY <1>1
  <2> QED
    BY <1>12, <1>13, <1>20, <2>1
<1>28. <<"list">> \o k[L] = value
  <2>1. PICK items \in Seq(TomlTexts) : items = k[L] /\ Len(items) = n
    BY <1>26, <1>27
  <2>2. <<"list">> \in Seq(TomlTexts) /\ Len(<<"list">>) = 1 /\ <<"list">>[1] = "list"
    <3>1. "list" \in TomlTexts
      BY TomlAssumption
    <3> QED
      BY <3>1, OneIs
  <2>3. PICK h : h = <<"list">>
    OBVIOUS
  <2>4. PICK v : v = h \o items
    OBVIOUS
  <2>5. /\ v \in Seq(TomlTexts) /\ Len(v) = Len(h) + Len(items)
        /\ \A i \in 1 .. Len(h) + Len(items) : v[i] = IF i <= Len(h) THEN h[i] ELSE items[i - Len(h)]
    BY <2>2, <2>3, <2>4, ConcatProperties
  <2>6. Len(h) = 1 /\ h[1] = "list"
    BY <2>2, <2>3
  <2>7. Len(v) = L /\ \A i \in 1 .. L : v[i] = IF i <= 1 THEN h[i] ELSE items[i - 1]
    <3>1. Len(h) + Len(items) = L
      BY <1>25, <2>1, <2>6
    <3> QED
      BY <2>5, <2>6, <3>1
  <2>8. ASSUME NEW i \in 1 .. L PROVE v[i] = value[i]
    <3>1. CASE i = 1
      BY <1>1, <2>6, <2>7, <3>1
    <3>2. CASE i # 1
      <4>1. PICK j \in 1 .. n : j = i - 1 /\ j + 1 = i
        BY <1>1, <1>25, <3>2
      <4>2. v[i] = items[j]
        BY <1>1, <2>7, <3>2, <4>1
      <4> QED
        BY <1>26, <2>1, <4>1, <4>2
    <3> QED
      BY <3>1, <3>2
  <2>9. v = value
    BY <1>1, <2>5, <2>7, <2>8, SeqEqual DEF L
  <2> QED
    BY <2>1, <2>3, <2>4, <2>9
<1>29. ValueAt(b, 1) = value
  BY <1>18, <1>19, <1>27, <1>28
<1> QED
  BY <1>8, <1>9, <1>10, <1>13, <1>15, <1>17, <1>29 DEF KeyBlock
-----------------------------------------------------------------------------
(* What _update_key makes of one key. *)
LEMMA OldLinesKept ==
    ASSUME NEW lines, Legal(lines), NEW key
    PROVE  Changed(lines, lines, key, read_toml_file(lines)[key])
  BY DEF Changed

LEMMA ScalarReplaced ==
    ASSUME NEW lines, Legal(lines), NEW p \in KeyLines(lines), NEW new, TomlValue(new),
           ~IsList(new), NEW key, key = KeyAt(lines, p)
    PROVE  Changed(lines, _replace_scalar_line(lines, key[1], key[2], new), key,
                   IF lines[p].kind = "key" THEN new ELSE read_toml_file(lines)[key])
<1>1. PICK q : Block(lines, p, q)
  BY KeyHasBlock
<1>2. _find_key_block(lines, key[2], key[1]) = <<p, q>>
  <2>1. key[1] = SectionAt(lines, p) /\ key[2] = lines[p].name
    BY DEF KeyAt
  <2> QED
    BY <1>1, <2>1, Found
<1>3. p \in 1 .. Len(lines) /\ Len(lines) \in Nat /\ lines[p] \in Line
  BY LegalLines DEF KeyLines
<1>4. <<p, q>> # <<>> /\ <<p, q>>[1] = p /\ <<p, q>>[2] = q
  OBVIOUS
<1>5. CASE lines[p].kind = "key"
  <2>1. q - p = 1
    BY <1>1, <1>3, <1>5 DEF Block
  <2> DEFINE line == Key(key[2], new[1])
  <2>2. _replace_scalar_line(lines, key[1], key[2], new) = Spliced(lines, <<p, q>>, <<line>>)
    BY <1>2, <1>4, <2>1 DEF _replace_scalar_line
  <2>3. key[2] = lines[p].name /\ key[2] \in TomlTexts
    BY <1>3 DEF KeyAt, Line
  <2>4. new[1] \in TomlTexts /\ new[1] # "list" /\ Len(new) = 1 /\ new \in Seq(TomlTexts)
    <3>1. Len(new) = 1 /\ new \in Seq(TomlTexts)
      BY DEF TomlValue
    <3>2. new[1] \in TomlTexts
      BY <3>1, ElementOfSeq
    <3> QED
      BY <3>1, <3>2 DEF IsList
  <2>5. /\ line \in Line /\ line.kind = "key" /\ line.name = key[2] /\ line.value = new[1]
        /\ LegalLine(line)
    BY <2>3, <2>4 DEF Key, Line, Kinds, LegalLine
  <2> HIDE DEF line
  <2>6. PICK f : f = <<line>>
    OBVIOUS
  <2>7. f \in Seq(Line) /\ Len(f) = 1 /\ f[1] = line
    BY <2>5, <2>6, OneIs
  <2>8. Block(f, 1, Len(f) + 1)
    BY <2>5, <2>7 DEF Block
  <2>9. \A k \in 1 .. Len(f) : LegalLine(f[k])
    BY <2>5, <2>7
  <2>10. ValueAt(f, 1) = new
    <3>1. ValueAt(f, 1) = <<new[1]>>
      BY <2>5, <2>7 DEF ValueAt
    <3>2. <<new[1]>> = new
      <4>1. <<new[1]>> \in Seq(TomlTexts) /\ Len(<<new[1]>>) = 1 /\ <<new[1]>>[1] = new[1]
        BY <2>4, OneIs
      <4>2. \A i \in 1 .. 1 : <<new[1]>>[i] = new[i]
        BY <4>1
      <4> QED
        BY <2>4, <4>1, <4>2, SeqEqual
    <3> QED
      BY <3>1, <3>2
  <2>11. KeyBlock(f, lines[p].name, new)
    BY <2>3, <2>5, <2>7, <2>8, <2>9, <2>10 DEF KeyBlock
  <2>12. Changed(lines, Spliced(lines, <<p, q>>, f), KeyAt(lines, p), new)
    BY <1>1, <2>11, SplicedDiffers
  <2> QED
    BY <1>5, <2>2, <2>6, <2>12
<1>6. CASE lines[p].kind # "key"
  <2>1. q - p # 1
    <3>1. Closes(lines, p, q - 1) /\ q \in Nat
      BY <1>1, <1>6 DEF Block
    <3> QED
      BY <1>3, <3>1 DEF Closes
  <2>2. _replace_scalar_line(lines, key[1], key[2], new) = lines
    BY <1>2, <1>4, <2>1 DEF _replace_scalar_line
  <2> QED
    BY <1>6, <2>2, OldLinesKept
<1> QED
  BY <1>5, <1>6

(* The lines of a list in the file of changes. *)
LEMMA CopiedBlock ==
    ASSUME NEW lines, Legal(lines), NEW c, NEW d, Block(lines, c, d), lines[c].kind = "list"
    PROVE  KeyBlock(SubSeq(lines, c, d - 1), lines[c].name, ValueAt(lines, c))
<1>0. PICK new : new = SubSeq(lines, c, d - 1)
  OBVIOUS
<1>1. /\ lines \in Seq(Line) /\ Len(lines) \in Nat /\ c \in 1 .. Len(lines)
      /\ d \in c + 1 .. Len(lines) + 1 /\ EndOfList(lines, c) = d - 1
      /\ \A k \in 1 .. Len(lines) : LegalLine(lines[k])
  BY LegalLines, BlockIs DEF Legal
<1>2. d - 1 \in c + 1 .. Len(lines) /\ lines[d - 1].kind = "end"
      /\ \A k \in c + 1 .. d - 1 - 1 : lines[k].kind \in {"item", "comment"}
  BY DEF Block, Closes
<1>3. PICK e \in Nat : e = d - 1
  BY <1>1
<1>4. new \in Seq(Line) /\ Len(new) = e - c + 1 /\ \A i \in 1 .. e - c + 1 : new[i] = lines[c + i - 1]
  <2>1. c \in Nat \ {0} /\ c <= e /\ e <= Len(lines) /\ new = SubSeq(lines, c, e)
    BY <1>0, <1>1, <1>2, <1>3
  <2> QED
    BY <1>1, <2>1, PartOf
<1>5. \A i \in 1 .. e - c + 1 : c + i - 1 \in c .. e /\ c + i - 1 \in 1 .. Len(lines)
  BY <1>1, <1>3
<1>6. new[1] = lines[c]
  <2>1. 1 \in 1 .. e - c + 1 /\ c + 1 - 1 = c
    BY <1>1, <1>3
  <2> QED
    BY <1>1, <1>4, <2>1
<1>7. \A k \in 1 .. Len(new) : LegalLine(new[k])
  BY <1>1, <1>4, <1>5
<1> DEFINE m == e - c + 1
<1>8. m \in 1 + 1 .. Len(new) /\ m \in Nat /\ m \in 1 .. m /\ c + m - 1 = e /\ Len(new) = m
  BY <1>1, <1>2, <1>3, <1>4
<1>9. new[m].kind = "end"
  <2> HIDE DEF m
  <2>1. new[m] = lines[c + m - 1]
    BY <1>4, <1>8 DEF m
  <2> QED
    BY <1>2, <1>3, <1>8, <2>1
<1>10. ASSUME NEW k \in 1 + 1 .. m - 1 PROVE new[k].kind \in {"item", "comment"}
  <2>1. PICK l : l = c + k - 1
    OBVIOUS
  <2>2. l \in c + 1 .. d - 1 - 1 /\ k \in 1 .. e - c + 1
    BY <1>1, <1>3, <2>1
  <2> QED
    BY <1>2, <1>4, <2>1, <2>2
<1> HIDE DEF m
<1>11. Closes(new, 1, m)
  BY <1>8, <1>9, <1>10 DEF Closes
<1>12. Block(new, 1, Len(new) + 1)
  <2>1. (Len(new) + 1) - 1 = m /\ Len(new) + 1 \in Nat /\ 1 \in 1 .. Len(new)
    BY <1>8
  <2> QED
    BY <1>6, <1>11, <2>1 DEF Block
<1>13. EndOfList(new, 1) = m
  BY <1>8, <1>11, ClosesIs
<1>14. SubSeq(new, 1, m) = new
  BY <1>4, <1>8, SubSeqFull
<1>15. ValueAt(new, 1) = ValueAt(lines, c)
  BY <1>0, <1>1, <1>6, <1>13, <1>14 DEF ValueAt
<1>16. KeyBlock(new, lines[c].name, ValueAt(lines, c))
  BY <1>4, <1>6, <1>7, <1>12, <1>15 DEF KeyBlock
<1> QED
  BY <1>0, <1>16

(* What the file of changes has is what the changes are. *)
ComesFrom(changesLines, key, new) ==
    \/ changesLines = NoLines
    \/ /\ Legal(changesLines)
       /\ \E c \in KeyLines(changesLines) :
            KeyAt(changesLines, c) = key /\ ValueAt(changesLines, c) = new

LEMMA ListReplaced ==
    ASSUME NEW lines, Legal(lines), NEW p \in KeyLines(lines), NEW new, TomlValue(new),
           IsList(new), NEW key, key = KeyAt(lines, p),
           NEW changesLines, ComesFrom(changesLines, key, new)
    PROVE  Changed(lines, replace_list(lines, key[1], key[2], new, changesLines), key, new)
<1>1. PICK q : Block(lines, p, q)
  BY KeyHasBlock
<1>2. key = <<key[1], key[2]>> /\ key[1] = SectionAt(lines, p) /\ key[2] = lines[p].name
  BY DEF KeyAt
<1>3. _find_key_block(lines, key[2], key[1]) = <<p, q>> /\ <<p, q>> # <<>>
  BY <1>1, <1>2, Found
<1>4. key[2] \in TomlTexts
  BY <1>2, LegalLines DEF KeyLines, Line
<1>5. CASE changesLines = NoLines
  <2>1. PICK f : f = ListBlock(key[2], new)
    OBVIOUS
  <2>2. replace_list(lines, key[1], key[2], new, changesLines) = Spliced(lines, <<p, q>>, f)
    BY <1>3, <1>5, <2>1 DEF replace_list
  <2>3. KeyBlock(f, lines[p].name, new)
    BY <1>2, <1>4, <2>1, ListBlockIs
  <2>4. Changed(lines, Spliced(lines, <<p, q>>, f), KeyAt(lines, p), new)
    BY <1>1, <2>3, SplicedDiffers
  <2> QED
    BY <2>2, <2>4
<1>6. CASE changesLines # NoLines
  <2>1. PICK c \in KeyLines(changesLines) :
           KeyAt(changesLines, c) = key /\ ValueAt(changesLines, c) = new
    BY <1>6 DEF ComesFrom
  <2>2. Legal(changesLines)
    BY <1>6 DEF ComesFrom
  <2>3. PICK d : Block(changesLines, c, d)
    BY <2>1, <2>2, KeyHasBlock
  <2>4. key[1] = SectionAt(changesLines, c) /\ key[2] = changesLines[c].name
    BY <2>1 DEF KeyAt
  <2>5. _find_key_block(changesLines, key[2], key[1]) = <<c, d>>
    BY <2>2, <2>3, <2>4, Found
  <2>6. changesLines[c].kind = "list"
    BY <2>1, <2>2, ValueIs
  <2>7. PICK f : f = SubSeq(changesLines, c, d - 1)
    OBVIOUS
  <2>8. KeyBlock(f, lines[p].name, new)
    BY <1>2, <2>1, <2>2, <2>3, <2>4, <2>6, <2>7, CopiedBlock
  <2>9. <<c, d>> # <<>> /\ <<c, d>>[1] = c /\ <<c, d>>[2] = d
    OBVIOUS
  <2>10. replace_list(lines, key[1], key[2], new, changesLines) = Spliced(lines, <<p, q>>, f)
    BY <1>3, <1>6, <2>5, <2>7, <2>9 DEF replace_list
  <2>11. Changed(lines, Spliced(lines, <<p, q>>, f), KeyAt(lines, p), new)
    BY <1>1, <2>8, SplicedDiffers
  <2> QED
    BY <2>10, <2>11
<1> QED
  BY <1>5, <1>6

LEMMA UpdatedKey ==
    ASSUME NEW lines, Legal(lines), NEW key \in KeysOf(lines), NEW new, TomlValue(new),
           NEW old, old = read_toml_file(lines)[key], ~KeyRaises(old, new),
           NEW changesLines, ComesFrom(changesLines, key, new)
    PROVE  Changed(lines, _update_key(lines, key, old, new, changesLines), key,
                   IF IsList(old) = IsList(new) THEN new ELSE old)
<1>1. PICK p \in KeyLines(lines) : key = KeyAt(lines, p)
  BY DEF KeysOf
<1>2. old = ValueAt(lines, p)
  BY <1>1, ReadIs
<1>3. IsList(old) <=> lines[p].kind = "list"
  BY <1>1, <1>2, ValueIs
<1>4. lines[p].kind = "list" <=> lines[p].kind # "key"
  BY <1>1 DEF KeyLines, IsKey
<1>5. IsList(old) \in BOOLEAN /\ IsList(new) \in BOOLEAN
  BY DEF IsList
<1>6. CASE old = new
  <2>1. _update_key(lines, key, old, new, changesLines) = lines
    BY <1>6 DEF _update_key
  <2> QED
    BY <1>6, <2>1, OldLinesKept
<1>7. CASE old # new /\ IsList(old) /\ IsList(new)
  <2>1. _update_key(lines, key, old, new, changesLines)
           = replace_list(lines, key[1], key[2], new, changesLines)
    BY <1>7 DEF _update_key
  <2>2. Changed(lines, replace_list(lines, key[1], key[2], new, changesLines), key, new)
    BY <1>1, <1>7, ListReplaced
  <2>3. (IF IsList(old) = IsList(new) THEN new ELSE old) = new
    BY <1>5, <1>7
  <2> QED
    BY <2>1, <2>2, <2>3
<1>8. CASE old # new /\ ~(IsList(old) /\ IsList(new))
  <2>1. ~IsList(new)
    BY <1>8 DEF KeyRaises
  <2>2. _update_key(lines, key, old, new, changesLines)
           = _replace_scalar_line(lines, key[1], key[2], new)
    BY <1>8 DEF _update_key
  <2>3. Changed(lines, _replace_scalar_line(lines, key[1], key[2], new), key,
                IF lines[p].kind = "key" THEN new ELSE read_toml_file(lines)[key])
    BY <1>1, <2>1, ScalarReplaced
  <2>4. (IF lines[p].kind = "key" THEN new ELSE read_toml_file(lines)[key])
          = (IF IsList(old) = IsList(new) THEN new ELSE old)
    BY <1>3, <1>4, <1>5, <2>1
  <2> QED
    BY <2>2, <2>3, <2>4
<1> QED
  BY <1>6, <1>7, <1>8
-----------------------------------------------------------------------------
(* The keys one after another. *)
LEMMA KeysAreFinite ==
    ASSUME NEW lines, Legal(lines)
    PROVE  IsFiniteSet(KeysOf(lines))
<1> DEFINE S == KeyLines(lines)
           f == [i \in S |-> KeyAt(lines, i)]
<1>1. IsFiniteSet(S)
  <2>1. Len(lines) \in Nat /\ S \in SUBSET (1 .. Len(lines))
    BY LegalLines DEF KeyLines
  <2>2. IsFiniteSet(1 .. Len(lines))
    BY <2>1, FS_Interval
  <2> QED
    BY <2>1, <2>2, FS_Subset
<1>2. f \in Surjection(S, KeysOf(lines))
  BY DEF KeysOf, Surjection
<1> QED
  BY <1>1, <1>2, FS_Surjection

Lists(s, n, S) ==
    /\ n \in Nat /\ s \in [1 .. n -> S] /\ Len(s) = n
    /\ \A i, j \in 1 .. n : s[i] = s[j] => i = j
    /\ \A x \in S : \E i \in 1 .. n : s[i] = x

LEMMA SetToSeqIs ==
    ASSUME NEW S, IsFiniteSet(S)
    PROVE  Lists(SetToSeq(S), Cardinality(S), S)
<1>1. PICK n : n = Cardinality(S)
  OBVIOUS
<1>2. n \in Nat /\ ExistsBijection(1 .. n, S)
  <2>1. Cardinality(S) \in Nat /\ ExistsBijection(1 .. Cardinality(S), S)
    BY FS_CardinalityType
  <2> QED
    BY <1>1, <2>1
<1>3. PICK b : b \in Bijection(1 .. n, S)
  BY <1>2 DEF ExistsBijection
<1>4. b \in [1 .. n -> S] /\ IsInjective(b)
  BY <1>3 DEF Bijection, Injection
<1>5. PICK s : s = SetToSeq(S)
  OBVIOUS
<1>6. s \in [1 .. n -> S] /\ IsInjective(s)
  BY <1>1, <1>4, <1>5 DEF SetToSeq
<1>7. s \in Injection(1 .. n, S)
  BY <1>6 DEF Injection
<1>8. IsFiniteSet(1 .. n) /\ Cardinality(1 .. n) = Cardinality(S)
  <2>1. 1 \in Int /\ n \in Int
    BY <1>2
  <2>2. IsFiniteSet(1 .. n) /\ Cardinality(1 .. n) = IF 1 > n THEN 0 ELSE n - 1 + 1
    BY <2>1, FS_Interval
  <2>3. (IF 1 > n THEN 0 ELSE n - 1 + 1) = n
    BY <1>2
  <2> QED
    BY <1>1, <2>2, <2>3
<1>9. s \in Surjection(1 .. n, S)
  BY <1>7, <1>8, FS_Injection
<1>10. \A x \in S : \E i \in 1 .. n : s[i] = x
  BY <1>9 DEF Surjection
<1>11. Len(s) = n
  BY <1>2, <1>6, FunctionIsSeq
<1>12. \A i, j \in 1 .. n : s[i] = s[j] => i = j
  BY <1>6 DEF IsInjective
<1> QED
  BY <1>1, <1>2, <1>5, <1>6, <1>10, <1>11, <1>12 DEF Lists

(* Some of the keys are changed and nothing else. *)
MergedIn(lines, more, changes, done) ==
    /\ Legal(more) /\ KeysOf(more) = KeysOf(lines)
    /\ Order(more) = Order(lines) /\ Comments(more) = Comments(lines)
    /\ \A key \in KeysOf(lines) :
         read_toml_file(more)[key] =
            IF key \in done /\ IsList(read_toml_file(lines)[key]) = IsList(changes[key])
            THEN changes[key] ELSE read_toml_file(lines)[key]

(* What the update of each key rests on. *)
Mergeable(lines, changes, changesLines, key) ==
    /\ key \in KeysOf(lines) /\ TomlValue(changes[key])
    /\ ~KeyRaises(read_toml_file(lines)[key], changes[key])
    /\ ComesFrom(changesLines, key, changes[key])

LEMMA OneKeyMerged ==
    ASSUME NEW lines, NEW more, NEW changes, NEW done, MergedIn(lines, more, changes, done),
           NEW changesLines, NEW key, Mergeable(lines, changes, changesLines, key),
           key \notin done
    PROVE  MergedIn(lines, _update_key(more, key, read_toml_file(lines)[key], changes[key],
                                       changesLines), changes, done \cup {key})
<1>1. PICK old : old = read_toml_file(lines)[key]
  OBVIOUS
<1>2. PICK new : new = changes[key]
  OBVIOUS
<1>3. PICK then : then = _update_key(more, key, old, new, changesLines)
  OBVIOUS
<1>4. /\ Legal(more) /\ KeysOf(more) = KeysOf(lines) /\ Order(more) = Order(lines)
      /\ Comments(more) = Comments(lines) /\ key \in KeysOf(lines)
  BY DEF MergedIn, Mergeable
<1>5. old = read_toml_file(more)[key]
  BY <1>1, <1>4 DEF MergedIn
<1>6. TomlValue(new) /\ ~KeyRaises(old, new) /\ ComesFrom(changesLines, key, new)
  BY <1>1, <1>2 DEF Mergeable
<1>7. Changed(more, then, key, IF IsList(old) = IsList(new) THEN new ELSE old)
  BY <1>3, <1>4, <1>5, <1>6, UpdatedKey
<1>8. /\ Legal(then) /\ KeysOf(then) = KeysOf(lines) /\ Order(then) = Order(lines)
      /\ Comments(then) = Comments(lines)
      /\ read_toml_file(then)[key] = (IF IsList(old) = IsList(new) THEN new ELSE old)
      /\ \A other \in KeysOf(lines) :
           other # key => read_toml_file(then)[other] = read_toml_file(more)[other]
  BY <1>4, <1>7 DEF Changed
<1>9. ASSUME NEW other \in KeysOf(lines)
      PROVE  read_toml_file(then)[other] =
                IF /\ other \in done \cup {key}
                   /\ IsList(read_toml_file(lines)[other]) = IsList(changes[other])
                THEN changes[other] ELSE read_toml_file(lines)[other]
  <2>1. CASE other = key
    BY <1>1, <1>2, <1>8, <2>1
  <2>2. CASE other # key
    <3>1. read_toml_file(then)[other] = read_toml_file(more)[other]
      BY <1>8, <2>2
    <3>2. other \in done \cup {key} <=> other \in done
      BY <2>2
    <3> QED
      BY <3>1, <3>2 DEF MergedIn
  <2> QED
    BY <2>1, <2>2
<1>10. MergedIn(lines, then, changes, done \cup {key})
  BY <1>8, <1>9 DEF MergedIn
<1> QED
  BY <1>1, <1>2, <1>3, <1>10

LEMMA MergedIs ==
    ASSUME NEW lines, Legal(lines), NEW changes, NEW changesLines,
           NEW both, both = KeysOf(lines) \cap DOMAIN changes,
           \A key \in both : Mergeable(lines, changes, changesLines, key)
    PROVE  MergedIn(lines, Merged(lines, changes, changesLines), changes, both)
<1> DEFINE content == read_toml_file(lines)
           keys == SetToSeq(both)
           n == Len(keys)
           Update(x, i) == _update_key(x, keys[i], content[keys[i]], changes[keys[i]], changesLines)
           Taken(i) == {keys[j] : j \in 1 .. i}
           Is(f) == f = [i \in 0 .. n |-> IF i = 0 THEN lines ELSE Update(f[i - 1], i)]
           S == Seq(Line)
           step == [v \in (1 .. n) \X S |-> IF Update(v[2], v[1]) \in S THEN Update(v[2], v[1]) ELSE v[2]]
<1>1. /\ n \in Nat /\ keys \in [1 .. n -> both]
      /\ \A i, j \in 1 .. n : keys[i] = keys[j] => i = j
      /\ \A x \in both : \E i \in 1 .. n : keys[i] = x
  <2>1. IsFiniteSet(both)
    BY KeysAreFinite, FS_Subset
  <2>2. Lists(keys, Cardinality(both), both)
    BY <2>1, SetToSeqIs
  <2> QED
    BY <2>2 DEF Lists
<1>2. MergedIn(lines, lines, changes, Taken(0))
  <2>1. Taken(0) = {}
    OBVIOUS
  <2> HIDE DEF Taken
  <2> QED
    BY <2>1 DEF MergedIn
<1>3. ASSUME NEW i \in 1 .. n, NEW x, MergedIn(lines, x, changes, Taken(i - 1))
      PROVE  MergedIn(lines, Update(x, i), changes, Taken(i))
  <2>1. PICK key : key = keys[i]
    OBVIOUS
  <2>2. key \in both
    BY <1>1, <2>1
  <2>3. \A j \in 1 .. i - 1 : j \in 1 .. n /\ j # i
    BY <1>1
  <2>4. key \notin Taken(i - 1)
    BY <1>1, <2>1, <2>3
  <2>5. Taken(i) = Taken(i - 1) \cup {key}
    <3>1. \A j : j \in 1 .. i <=> j \in 1 .. i - 1 \/ j = i
      BY <1>1
    <3> QED
      BY <2>1, <3>1
  <2> HIDE DEF Taken
  <2>6. MergedIn(lines, _update_key(x, key, content[key], changes[key], changesLines),
                 changes, Taken(i - 1) \cup {key})
    BY <1>3, <2>2, <2>4, OneKeyMerged
  <2> QED
    BY <2>1, <2>5, <2>6
<1>4. \A x, d : MergedIn(lines, x, changes, d) => x \in S
  BY DEF MergedIn, Legal
<1>5. step \in [(1 .. n) \X S -> S]
  <2> HIDE DEF n, S, Update
  <2> QED
    OBVIOUS
<1>6. \A i \in 1 .. n, x \in S : Update(x, i) \in S => step[<<i, x>>] = Update(x, i)
  <2> HIDE DEF n, S, Update
  <2> QED
    OBVIOUS
<1>7. lines \in S
  BY DEF Legal
<1>8. Merged(lines, changes, changesLines) = (CHOOSE h : Is(h))[n]
  <2>1. DOMAIN content = KeysOf(lines)
    BY DEF read_toml_file
  <2> QED
    BY <2>1 DEF Merged
<1> HIDE DEF step, S, Update, Taken, keys, content, n
<1>9. PICK g : Recurs(g, n, S, lines, step)
  BY <1>1, <1>5, <1>7, RecursionIs
<1>10. g \in [0 .. n -> S] /\ g[0] = lines
  BY <1>9 DEF Recurs
<1>11. \A i \in Nat : i <= n => MergedIn(lines, g[i], changes, Taken(i))
  <2> DEFINE T == {i \in Nat : i <= n => MergedIn(lines, g[i], changes, Taken(i))}
  <2>1. 0 \in T /\ T \in SUBSET Nat
    BY <1>2, <1>10
  <2>2. ASSUME NEW i \in T PROVE i + 1 \in T
    <3> SUFFICES ASSUME i + 1 <= n PROVE MergedIn(lines, g[i + 1], changes, Taken(i + 1))
      OBVIOUS
    <3>1. PICK j \in 1 .. n : j = i + 1 /\ j - 1 = i
      BY <1>1
    <3>2. MergedIn(lines, g[i], changes, Taken(i))
      BY <1>1
    <3>3. MergedIn(lines, Update(g[i], j), changes, Taken(j))
      BY <1>3, <3>1, <3>2
    <3>4. g[j] = step[<<j, g[j - 1]>>]
      BY <1>9 DEF Recurs
    <3>5. g[i] \in S /\ Update(g[i], j) \in S
      BY <1>4, <3>2, <3>3
    <3>6. g[j] = Update(g[i], j)
      BY <1>6, <3>1, <3>4, <3>5
    <3> QED
      BY <3>1, <3>3, <3>6
  <2> HIDE DEF T
  <2>3. T = Nat
    BY <2>1, <2>2, EveryNat
  <2> QED
    BY <2>3 DEF T
<1>12. ASSUME NEW i \in 1 .. n PROVE g[i] = Update(g[i - 1], i)
  <2>1. i - 1 \in Nat /\ i - 1 <= n
    BY <1>1
  <2>2. MergedIn(lines, g[i - 1], changes, Taken(i - 1))
    BY <1>11, <2>1
  <2>3. MergedIn(lines, Update(g[i - 1], i), changes, Taken(i))
    BY <1>3, <2>2
  <2>4. g[i - 1] \in S /\ Update(g[i - 1], i) \in S
    BY <1>4, <2>2, <2>3
  <2>5. g[i] = step[<<i, g[i - 1]>>]
    BY <1>9 DEF Recurs
  <2> QED
    BY <1>6, <2>4, <2>5
<1>13. Is(g)
  <2>1. \A i \in 0 .. n : i # 0 => i \in 1 .. n
    BY <1>1
  <2>2. g = [i \in 0 .. n |-> g[i]]
    BY <1>10
  <2>3. \A i \in 0 .. n : g[i] = IF i = 0 THEN lines ELSE Update(g[i - 1], i)
    BY <1>10, <1>12, <2>1
  <2> QED
    BY <2>2, <2>3
<1>14. PICK k : k = CHOOSE h : Is(h)
  OBVIOUS
<1>15. Is(k)
  <2> HIDE DEF Is
  <2> QED
    BY <1>13, <1>14
<1>16. k[0] = lines
  BY <1>1, <1>15
<1>17. \A i \in 1 .. n : k[i] = Update(k[i - 1], i)
  <2>1. \A i \in 1 .. n : i \in 0 .. n /\ i # 0
    BY <1>1
  <2> QED
    BY <1>15, <2>1
<1>18. \A i \in Nat : i <= n => MergedIn(lines, k[i], changes, Taken(i))
  <2> DEFINE T == {i \in Nat : i <= n => MergedIn(lines, k[i], changes, Taken(i))}
  <2>1. 0 \in T /\ T \in SUBSET Nat
    BY <1>2, <1>16
  <2>2. ASSUME NEW i \in T PROVE i + 1 \in T
    <3> SUFFICES ASSUME i + 1 <= n PROVE MergedIn(lines, k[i + 1], changes, Taken(i + 1))
      OBVIOUS
    <3>1. PICK j \in 1 .. n : j = i + 1 /\ j - 1 = i
      BY <1>1
    <3>2. MergedIn(lines, k[i], changes, Taken(i))
      BY <1>1
    <3>3. MergedIn(lines, Update(k[i], j), changes, Taken(j))
      BY <1>3, <3>1, <3>2
    <3> QED
      BY <1>17, <3>1, <3>3
  <2> HIDE DEF T
  <2>3. T = Nat
    BY <2>1, <2>2, EveryNat
  <2> QED
    BY <2>3 DEF T
<1>19. MergedIn(lines, k[n], changes, Taken(n))
  BY <1>1, <1>18
<1>20. Taken(n) = both
  BY <1>1 DEF Taken
<1>21. Merged(lines, changes, changesLines) = k[n]
  BY <1>8, <1>14
<1> QED
  BY <1>19, <1>20, <1>21
-----------------------------------------------------------------------------
(* The updates. *)
TomlIInv == TomlTypeOK /\ OnlyTheChangesAreMade

LEMMA TomlInitially == TomlInit => TomlIInv
<1> SUFFICES ASSUME TomlInit PROVE TomlIInv
  OBVIOUS
<1>1. Legal(toml)
  BY TomlAssumption DEF TomlInit
<1>2. updated = "no" /\ updates = 0
  BY DEF TomlInit
<1>3. 0 \in 0 .. MaxUpdates
  <2>1. MaxUpdates \in Nat
    BY TomlAssumption
  <2> QED
    BY <2>1
<1>4. TomlTypeOK
  BY <1>1, <1>2, <1>3 DEF TomlTypeOK
<1>5. OnlyTheChangesAreMade
  BY <1>2 DEF OnlyTheChangesAreMade
<1> QED
  BY <1>4, <1>5 DEF TomlIInv

LEMMA UpdateStep ==
    ASSUME TomlIInv, NEW changes, NEW changesLines, update(changes, changesLines),
           \A key \in DOMAIN changes :
              TomlValue(changes[key]) /\ ComesFrom(changesLines, key, changes[key])
    PROVE  TomlIInv'
<1> DEFINE content == read_toml_file(toml)
           both == DOMAIN content \cap DOMAIN changes
<1>1. Legal(toml) /\ updates \in 0 .. MaxUpdates /\ MaxUpdates \in Nat
  BY TomlAssumption DEF TomlIInv, TomlTypeOK
<1>2. updates' \in 0 .. MaxUpdates
  <2>1. updates < MaxUpdates /\ updates' = updates + 1
    BY DEF update
  <2> QED
    BY <1>1, <2>1
<1>3. tomlWas' = toml /\ wanted' = changes
  BY DEF update
<1>4. DOMAIN content = KeysOf(toml)
  BY DEF read_toml_file
<1> DEFINE AnyRaises == \E key \in both : KeyRaises(content[key], changes[key])
<1>5. CASE AnyRaises
  <2>1. updated' = "raised" /\ toml' = toml
    BY <1>5 DEF update
  <2> QED
    BY <1>1, <1>2, <2>1 DEF TomlIInv, TomlTypeOK, OnlyTheChangesAreMade
<1>6. CASE ~AnyRaises
  <2>1. /\ toml' = Merged(toml, changes, changesLines)
        /\ updated' = IF toml' = toml THEN "nothing" ELSE "written"
    BY <1>6 DEF update
  <2>2. ASSUME NEW key \in both PROVE Mergeable(toml, changes, changesLines, key)
    BY <1>4, <1>6 DEF Mergeable
  <2>3. both = KeysOf(toml) \cap DOMAIN changes
    BY <1>4
  <2> HIDE DEF both
  <2>4. MergedIn(toml, toml', changes, both)
    BY <1>1, <2>1, <2>2, <2>3, MergedIs
  <2>5. /\ Legal(toml') /\ KeysOf(toml') = KeysOf(toml)
        /\ Order(toml') = Order(toml) /\ Comments(toml') = Comments(toml)
        /\ \A key \in KeysOf(toml) :
             read_toml_file(toml')[key] =
                IF key \in both /\ IsList(content[key]) = IsList(changes[key])
                THEN changes[key] ELSE content[key]
    BY <2>4 DEF MergedIn
  <2>6. updated' \in {"written", "nothing"}
    BY <2>1
  <2>7. TomlTypeOK'
    BY <1>2, <2>5, <2>6 DEF TomlTypeOK
  <2>8. DOMAIN read_toml_file(toml') = DOMAIN content
    BY <1>4, <2>5 DEF read_toml_file
  <2>9. ASSUME NEW key \in DOMAIN content
        PROVE  IF key \in DOMAIN changes /\ IsList(content[key]) = IsList(changes[key])
               THEN read_toml_file(toml')[key] = changes[key]
               ELSE read_toml_file(toml')[key] = content[key]
    <3>1. key \in KeysOf(toml) /\ (key \in both <=> key \in DOMAIN changes)
      BY <1>4, <2>3
    <3> HIDE DEF content
    <3> QED
      BY <2>5, <3>1
  <2>10. /\ DOMAIN read_toml_file(toml') = DOMAIN read_toml_file(tomlWas')
         /\ \A key \in DOMAIN read_toml_file(tomlWas') :
              IF /\ key \in DOMAIN wanted'
                 /\ IsList(read_toml_file(tomlWas')[key]) = IsList(wanted'[key])
              THEN read_toml_file(toml')[key] = wanted'[key]
              ELSE read_toml_file(toml')[key] = read_toml_file(tomlWas')[key]
         /\ Order(toml') = Order(tomlWas') /\ Comments(toml') = Comments(tomlWas')
    BY <1>3, <2>5, <2>8, <2>9
  <2>11. OnlyTheChangesAreMade'
    BY <2>10 DEF OnlyTheChangesAreMade
  <2> QED
    BY <2>7, <2>11 DEF TomlIInv
<1> QED
  BY <1>5, <1>6

LEMMA TomlInductive == TomlIInv /\ [TomlNext]_toml_vars => TomlIInv'
<1> SUFFICES ASSUME TomlIInv, [TomlNext]_toml_vars PROVE TomlIInv'
  OBVIOUS
<1>1. Legal(toml) /\ updates \in 0 .. MaxUpdates /\ MaxUpdates \in Nat
  BY TomlAssumption DEF TomlIInv, TomlTypeOK
<1>2. ASSUME NEW changes \in Changes, update_properties(changes) PROVE TomlIInv'
  <2>1. CASE update(changes, NoLines)
    <3>1. \A key \in DOMAIN changes :
            TomlValue(changes[key]) /\ ComesFrom(NoLines, key, changes[key])
      BY TomlAssumption DEF TomlValue, ComesFrom
    <3> QED
      BY <2>1, <3>1, UpdateStep
  <2>2. CASE ~update(changes, NoLines)
    <3>1. updates < MaxUpdates /\ updates' = updates + 1 /\ updated' = "raised" /\ toml' = toml
      BY <1>2, <2>2 DEF update_properties
    <3>2. updates' \in 0 .. MaxUpdates
      BY <1>1, <3>1
    <3> QED
      BY <1>1, <3>1, <3>2 DEF TomlIInv, TomlTypeOK, OnlyTheChangesAreMade
  <2> QED
    BY <2>1, <2>2
<1>3. ASSUME NEW lines \in ChangesFiles, update_toml_file_with_new_config(lines) PROVE TomlIInv'
  <2>1. Legal(lines)
    BY TomlAssumption
  <2>2. PICK changes : changes = read_toml_file(lines)
    OBVIOUS
  <2>3. update(changes, lines)
    BY <1>3, <2>2 DEF update_toml_file_with_new_config
  <2>4. ASSUME NEW key \in DOMAIN changes
        PROVE  TomlValue(changes[key]) /\ ComesFrom(lines, key, changes[key])
    <3>1. key \in KeysOf(lines)
      BY <2>2 DEF read_toml_file
    <3>2. PICK c \in KeyLines(lines) : KeyAt(lines, c) = key
      BY <3>1 DEF KeysOf
    <3>3. changes[key] = ValueAt(lines, c)
      BY <2>1, <2>2, <3>2, ReadIs
    <3>4. TomlValue(ValueAt(lines, c))
      BY <2>1, ValueIs
    <3> QED
      BY <2>1, <3>2, <3>3, <3>4 DEF ComesFrom
  <2> QED
    BY <2>3, <2>4, UpdateStep
<1>4. CASE UNCHANGED toml_vars
  BY <1>4 DEF TomlIInv, TomlTypeOK, OnlyTheChangesAreMade, toml_vars
<1> QED
  BY <1>2, <1>3, <1>4 DEF TomlNext

LEMMA TomlHolds == TomlIInv => TomlTypeOK /\ OnlyTheChangesAreMade
  BY DEF TomlIInv
=============================================================================
